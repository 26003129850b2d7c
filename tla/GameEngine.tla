----------------------------- MODULE GameEngine -----------------------------
(***************************************************************************)
(* One Scribble & Guess room: the match state machine of game.service.ts,  *)
(* the named timers of timer.service.ts, the seats of room.service.ts and  *)
(* the connections of presence.service.ts.                                 *)
(*                                                                         *)
(* Node runs a handler to its next real `await` without interruption, so   *)
(* an action here is one such segment.  What a handler still has to do     *)
(* when the store answers is a TASK: a suspended continuation that may be  *)
(* resumed in any order relative to the others.  Between two segments the  *)
(* room belongs to whoever comes next: another client, a timer, another    *)
(* continuation.  Two identical continuations pending at the same moment   *)
(* are one task.                                                           *)
(*                                                                         *)
(* Abstracted: words, boards, points, teams, chat, hints, bots, voice and  *)
(* the broadcasts, none of which decides a transition below.  A seat limit *)
(* and the host's lock only refuse arrivals and are left out.  A room of a *)
(* tournament, whose dropped players are replaced, is not this module's.   *)
(***************************************************************************)
EXTENDS Integers, Sequences, FiniteSets, Functions

CONSTANTS
  Users,         \* the accounts that may enter the room
  Nobody,        \* stands for "no user"
  Rounds,        \* room.settings.rounds
  Restored,      \* seats found in the store; {} is a room just created
  Latency,       \* what may run while a task waits for the store (see below)
  EagerRestart,  \* hosts may start a match while the standings are still up
  RestCalls,     \* the HTTP calls that may touch a seat behind the engine's back
  MaxTasks,      \* bound: clients and timers act only while fewer tasks are pending
  MaxCorrect     \* bound: longest list of correct guesses in a turn

(***************************************************************************)
(* Latency "any": timers and clients interleave with every pending task.   *)
(* Latency "prompt": the store answers before the next timer falls due     *)
(* (the shortest is 3 seconds), so only clients interleave.  Latency       *)
(* "none": handlers run to completion.                                     *)
(***************************************************************************)
ASSUME UsersAssumption == IsFiniteSet(Users) /\ Users # {} /\ Nobody \notin Users
ASSUME RoundsAssumption == Rounds \in Nat \ {0}
ASSUME RestoredAssumption == Restored \subseteq Users
ASSUME RunAssumption ==
  /\ Latency \in {"any", "prompt", "none"}
  /\ EagerRestart \in BOOLEAN
  /\ RestCalls \subseteq {"join", "vacate", "delete"}
  /\ MaxTasks \in Nat /\ MaxCorrect \in Nat

VARIABLES
  seats,      \* room.players, in Map insertion order
  conn,       \* each user's connection; "seated" holds a seat but no socket
  host,       \* room.hostId
  empty,      \* room.emptySince # null
  closed,     \* room.closed
  phase,      \* room.phase
  order,      \* room.turnOrder
  idx,        \* room.turnIndex, counted from 0
  curRound,   \* room.currentRound
  round,      \* room.round
  guessed,    \* the users whose seat has hasGuessed set
  game,       \* room.gameId # null
  timers,     \* names of the engine timers booked
  heldFor,    \* the drawer captured by the drawerGrace timer, or Nobody
  grace,      \* users with a `grace:<user>` timer booked
  tasks,      \* suspended continuations
  owed,       \* history: users owed a drawing turn in the current round
  results     \* history: results recorded for the current match, up to 2

roomVars  == <<seats, conn, host, empty, closed>>
matchVars == <<phase, order, idx, curRound, round, guessed, game>>
asyncVars == <<timers, heldFor, grace, tasks>>
histVars  == <<owed, results>>
vars == <<seats, conn, host, empty, closed, phase, order, idx, curRound, round,
          guessed, game, timers, heldFor, grace, tasks, owed, results>>

-----------------------------------------------------------------------------
(* Types and helpers                                                        *)

MinPlayers == 2

Phases == {"lobby", "starting", "wordSelection", "drawing", "roundEnd",
           "gameEnd", "paused"}
LivePhases == {"starting", "wordSelection", "drawing", "roundEnd"}

Connections == {"absent", "seated", "connected", "reconnecting", "disconnected"}

Timers == {"startCountdown", "wordSelection", "turn", "allGuessed",
           "roundResult", "gameEnd"}
TurnTimers == {"wordSelection", "turn", "allGuessed"}

NoRound == [drawer |-> Nobody, worded |-> FALSE, ended |-> TRUE, correct |-> << >>]
Round == [drawer: Users \cup {Nobody}, worded: BOOLEAN, ended: BOOLEAN,
          correct: Seq(Users)]

Steps == {"enter", "removed", "emptied", "created", "countdown", "deal", "offer",
          "buzzer", "guessed", "scored", "finishing", "replay"}
Task == [step: Steps, who: Users \cup {Nobody}]
Do(step, who) == [step |-> step, who |-> who]

Seated == {u \in Users : conn[u] # "absent"}
ActivePlayers(c) == {u \in Users : c[u] \notin {"absent", "disconnected"}}
HasEnough(c) == Cardinality(ActivePlayers(c)) >= MinPlayers
HasSocket(u) == conn[u] = "connected"

\* A round that exists: `room.round` is not null.
HasRound == round.drawer # Nobody
LiveRound == HasRound /\ ~round.ended

Guessers(d) == ActivePlayers(conn) \ {d}

\* guessers.length > 0 && guessers.every(hasGuessed)
EveryoneGuessed(d) == Guessers(d) # {} /\ Guessers(d) \subseteq guessed

\* `list.filter(id => id !== u)` on a list that holds u at most once.
Without(s, u) ==
  IF u \notin Range(s) THEN s
  ELSE LET k == CHOOSE i \in DOMAIN s : s[i] = u
       IN  [i \in 1 .. (Len(s) - 1) |-> s[IF i < k THEN i ELSE i + 1]]

\* The members of S as a list, each once: every result of a shuffle.
Shuffles(S) == {o \in [1 .. Cardinality(S) -> S] : IsInjective(o)}

ClientsRun == /\ ~closed
              /\ Latency = "none" => tasks = {}
              /\ Cardinality(tasks) < MaxTasks
TimersRun == \/ tasks = {}
             \/ Latency = "any" /\ Cardinality(tasks) < MaxTasks

-----------------------------------------------------------------------------
(* Segments shared by several handlers.  `tm` and `ts` are the timers and   *)
(* tasks as the caller leaves them.                                         *)

\* A segment that changes nothing but the timers and tasks.
Nothing(tm, ts) ==
  /\ timers' = tm /\ tasks' = ts
  /\ UNCHANGED <<matchVars, heldFor, grace, histVars>>

\* timerService.schedule: a closed room books nothing.
Book_WhenClosed(tm, name) == tm \cup {name}
Book(tm, name) == IF closed THEN tm ELSE tm \cup {name}

\* cancelTurnTimers, on timers already reduced to tm.
CancelTurnTimers(tm) == timers' = tm \ TurnTimers /\ heldFor' = Nobody

\* What a pause cancels besides the turn's timers.
PauseCancels_Countdown == {"startCountdown"}
PauseCancels == {"roundResult", "startCountdown"}

\* Mutant: the round survives the pause.
Pause_RoundKept(tm, ts) ==
  /\ phase' = "paused"
  /\ guessed' = {}
  /\ CancelTurnTimers(tm \ PauseCancels)
  /\ tasks' = ts
  /\ UNCHANGED <<order, idx, curRound, round, game, grace, histVars>>

\* pauseForMissingPlayers, past its three early returns.
Pause(tm, ts) ==
  /\ phase' = "paused"
  /\ round' = NoRound
  /\ guessed' = {}
  /\ CancelTurnTimers(tm \ PauseCancels)
  /\ tasks' = ts
  /\ UNCHANGED <<order, idx, curRound, game, grace, histVars>>

\* endTurn: the turn is over, the scoreboard timer is booked by a later segment.
EndTurn(tm, ts) ==
  IF LiveRound /\ ~closed /\ phase # "paused"
  THEN /\ round' = [round EXCEPT !.ended = TRUE]
       /\ phase' = "roundEnd"
       /\ CancelTurnTimers(tm)
       /\ tasks' = ts \cup {Do("scored", Nobody)}
       /\ owed' = owed \ {round.drawer}
       /\ UNCHANGED <<order, idx, curRound, guessed, game, grace, results>>
  ELSE Nothing(tm, ts)

\* endGame: timerService.cancelAll takes the players' grace timers too.
EndGame(i, r, ts) ==
  /\ phase' = "gameEnd"
  /\ round' = NoRound
  /\ timers' = {} /\ heldFor' = Nobody /\ grace' = {}
  /\ tasks' = ts \cup {Do("finishing", Nobody)}
  /\ idx' = i /\ curRound' = r
  /\ results' = IF results = 2 THEN 2 ELSE results + 1
  /\ UNCHANGED <<order, guessed, game, owed>>

\* The positions at or after cursor i whose owner still holds a seat.
StillSeated(i) == {k \in (i + 1) .. Len(order) : order[k] \in Seated}

\* beginTurn once the drawer at position k is found; the words are being read.
Deal(k, r, tm, ts) ==
  /\ idx' = k - 1
  /\ curRound' = r
  /\ phase' = "wordSelection"
  /\ guessed' = {}
  /\ timers' = tm
  /\ tasks' = ts \cup {Do("deal", order[k])}
  /\ owed' = IF r = curRound THEN owed ELSE Range(order)
  /\ UNCHANGED <<order, round, game, heldFor, grace, results>>

\* Whether a pass that is over leads to another round.
AnotherRound(r) == r < Rounds

\* The turn of the first player at or after cursor i who still holds a seat.
DealFrom(i, r, tm, ts) ==
  \E k \in StillSeated(i) :
    (\A j \in StillSeated(i) : k <= j) /\ Deal(k, r, tm, ts)

\* beginTurn with the cursor at i of round r.
BeginTurn(i, r, tm, ts) ==
  \/ ~HasEnough(conn) /\ phase \in LivePhases /\ Pause(tm, ts)
  \/ ~HasEnough(conn) /\ phase \notin LivePhases /\ Nothing(tm, ts)
  \/ HasEnough(conn) /\ DealFrom(i, r, tm, ts)
  \/ /\ HasEnough(conn) /\ StillSeated(i) = {} /\ AnotherRound(r)
     /\ DealFrom(0, r + 1, tm, ts)
  \/ /\ HasEnough(conn) /\ StillSeated(i) = {}
     /\ ~AnotherRound(r) \/ StillSeated(0) = {}
     /\ EndGame(IF AnotherRound(r) \/ i < Len(order) THEN Len(order) ELSE i,
                IF AnotherRound(r) THEN Rounds ELSE r, ts)

\* turnOrder.filter: the departed player's turns are gone.
OrderAfter_Kept(u) == order
OrderAfter(u) == Without(order, u)

\* The host role passes to whoever has been in the room longest.
HostAfter_Kept(u) == host
HostAfter(u) ==
  IF host = u /\ Without(seats, u) # << >> THEN Without(seats, u)[1] ELSE host

\* removePlayer up to its first await: the seat, its place in the turn order,
\* the host role.  The vote-kick poll is another module's.
RemovePlayer(u) ==
  LET left == Without(seats, u) IN
  /\ seats' = left
  /\ conn' = [conn EXCEPT ![u] = "absent"]
  /\ order' = OrderAfter(u)
  /\ guessed' = guessed \ {u}
  /\ owed' = owed \ {u}
  /\ empty' = (empty \/ left = << >>)
  /\ host' = HostAfter(u)
  /\ UNCHANGED <<closed, phase, idx, curRound, round, game, heldFor, results>>

RemovalTask(u) ==
  Do(IF Without(seats, u) = << >> THEN "emptied" ELSE "removed", u)

\* close
Close(ts) ==
  /\ closed' = TRUE
  /\ timers' = {} /\ heldFor' = Nobody /\ grace' = {}
  /\ tasks' = ts
  /\ UNCHANGED <<seats, conn, host, empty, matchVars, histVars>>

\* room.turnOrder.push for every seat missing from it, in seat order.
Place(u) == CHOOSE k \in DOMAIN seats : seats[k] = u
InSeatOrder(l) == \A i, j \in DOMAIN l : i < j => Place(l[i]) < Place(l[j])

\* resumeIfPossible up to its first await, once the connections are c.
Resume_Never(c, ts) == tasks' = ts /\ UNCHANGED <<phase, order, idx, owed>>
Resume(c, ts) ==
  IF ~closed /\ phase = "paused" /\ HasEnough(c)
  THEN \E late \in Shuffles(Seated \ Range(order)) :
         /\ InSeatOrder(late)
         /\ order' = order \o late
         /\ idx' = IF idx > Len(order \o late) THEN Len(order \o late) ELSE idx
         /\ owed' = owed \cup Range(late)
         /\ phase' = "starting"
         /\ tasks' = ts \cup {Do("countdown", Nobody)}
  ELSE tasks' = ts /\ UNCHANGED <<phase, order, idx, owed>>

\* attach, then resumeIfPossible, which sees the connection just made.  A user
\* whose seat has gone in the meantime attaches to nothing.
AttachAndResume(u, ts) ==
  /\ IF u \in Seated
     THEN /\ conn' = [conn EXCEPT ![u] = "connected"]
          /\ empty' = FALSE
          /\ grace' = grace \ {u}
          /\ heldFor' = IF ~HasSocket(u) /\ LiveRound /\ round.drawer = u
                        THEN Nobody ELSE heldFor
          /\ Resume([conn EXCEPT ![u] = "connected"], ts)
     ELSE /\ UNCHANGED <<conn, empty, grace, heldFor>>
          /\ Resume(conn, ts)
  /\ UNCHANGED <<seats, host, closed, curRound, round, guessed, game, timers, results>>

-----------------------------------------------------------------------------
(* Membership and connections                                               *)

\* joinRoom of a newcomer, up to the store: the seat exists, the socket is not
\* attached to it yet.
Join(u) ==
  /\ ClientsRun /\ u \notin Seated /\ phase # "gameEnd"
  /\ seats' = Append(seats, u)
  /\ conn' = [conn EXCEPT ![u] = "seated"]
  /\ empty' = FALSE
  /\ tasks' = tasks \cup {Do("enter", u)}
  /\ UNCHANGED <<host, closed, matchVars, timers, heldFor, grace, histVars>>

\* joinRoom of a member who has no connection.
Rejoin(u) ==
  /\ ClientsRun /\ u \in Seated /\ ~HasSocket(u)
  /\ conn' = [conn EXCEPT ![u] = "seated"]
  /\ empty' = FALSE
  /\ tasks' = tasks \cup {Do("enter", u)}
  /\ UNCHANGED <<seats, host, closed, matchVars, timers, heldFor, grace, histVars>>

\* The REST join: a newcomer may not join a match, and nobody enters here.  A
\* socket follows, or does not.
RestJoin(u) ==
  /\ "join" \in RestCalls /\ ClientsRun /\ ~HasSocket(u)
  /\ u \notin Seated => phase \in {"lobby", "paused"}
  /\ seats' = IF u \in Seated THEN seats ELSE Append(seats, u)
  /\ conn' = [conn EXCEPT ![u] = "seated"]
  /\ empty' = FALSE
  /\ UNCHANGED <<host, closed, matchVars, asyncVars, histVars>>

\* enterRoom, when joinRoom's writes are done.
Enter(u) ==
  /\ Do("enter", u) \in tasks
  /\ AttachAndResume(u, tasks \ {Do("enter", u)})

\* c:hello finds the seat in memory: restoreSeat and seat, without an await.
Reconnect(u) ==
  /\ ClientsRun /\ u \in Seated /\ ~HasSocket(u)
  /\ AttachAndResume(u, tasks)

\* Whether u's socket is the last in the room.
LastSocket(u) == \A v \in Users \ {u} : ~HasSocket(v)

\* detach: the last socket of a user is gone.
Disconnect(u) ==
  /\ ClientsRun /\ HasSocket(u)
  /\ conn' = [conn EXCEPT ![u] = "reconnecting"]
  /\ empty' = (empty \/ LastSocket(u))
  /\ heldFor' = IF LiveRound /\ round.drawer = u THEN u ELSE heldFor
  /\ grace' = grace \cup {u}
  /\ UNCHANGED <<seats, host, closed, matchVars, timers, tasks, histVars>>

\* exitRoom, kick and a passed vote: removePlayer up to its await.
Leave(u) ==
  /\ ClientsRun /\ u \in Seated
  /\ RemovePlayer(u)
  /\ tasks' = tasks \cup {RemovalTask(u)}
  /\ UNCHANGED <<timers, grace>>

\* assertNotSeatedElsewhere, when u joins another room: the seat u holds here
\* without a socket is given up, and onPlayerLeft is not called.
Vacate(u) ==
  /\ "vacate" \in RestCalls /\ ClientsRun /\ u \in Seated /\ ~HasSocket(u)
  /\ RemovePlayer(u)
  /\ tasks' = IF Without(seats, u) = << >> THEN tasks \cup {Do("emptied", u)} ELSE tasks
  /\ UNCHANGED <<timers, grace>>

\* evictFromLiveRoom, when the account of u is deleted: the seat goes, and
\* nothing follows.  The socket, if it is open, is not asked again who it is.
Evict(u) ==
  /\ "delete" \in RestCalls /\ ClientsRun /\ u \in Seated
  /\ RemovePlayer(u)
  /\ UNCHANGED <<timers, grace, tasks>>

\* The grace timer of u: expire.
GraceExpires(u) ==
  /\ TimersRun /\ u \in grace
  /\ grace' = grace \ {u}
  /\ IF u \in Seated /\ ~HasSocket(u)
     THEN RemovePlayer(u) /\ tasks' = tasks \cup {RemovalTask(u)} /\ UNCHANGED timers
     ELSE UNCHANGED <<roomVars, matchVars, timers, heldFor, tasks, histVars>>

\* The room was empty when the seat was given up: it is closed, whoever has
\* come in since.
CloseEmptied(u) ==
  LET t == Do("emptied", u) IN
  /\ t \in tasks
  /\ IF closed THEN UNCHANGED roomVars /\ Nothing(timers, tasks \ {t})
     ELSE Close(tasks \ {t})

\* The departures that end a turn early: the drawer's, the last guesser's, or
\* that of the only one who had not guessed.
EndsTurn_NotDrawer(u) ==
  LiveRound /\ (Guessers(round.drawer) = {}
                \/ (phase = "drawing" /\ EveryoneGuessed(round.drawer)))
EndsTurn(u) ==
  LiveRound /\ (\/ round.drawer = u
                \/ Guessers(round.drawer) = {}
                \/ phase = "drawing" /\ EveryoneGuessed(round.drawer))

\* A departure leaves a live match short: between turns as well as in one.
MustPause == phase \in LivePhases /\ ~HasEnough(conn)

\* onPlayerLeft, when removePlayer's write is done.
PlayerLeft(u) ==
  LET t == Do("removed", u) rest == tasks \ {Do("removed", u)} IN
  /\ t \in tasks
  /\ UNCHANGED roomVars
  /\ IF closed THEN Nothing(timers, rest)
     ELSE IF MustPause THEN Pause(timers, rest)
     ELSE IF EndsTurn(u) THEN EndTurn(timers, rest)
     ELSE Nothing(timers, rest)

\* endRoom: the host ends the room for everybody.
EndRoom(u) ==
  /\ ClientsRun /\ HasSocket(u) /\ u = host
  /\ Close(tasks)

\* transferHost
TransferHost(u, v) ==
  /\ ClientsRun /\ HasSocket(u) /\ u = host /\ v \in Seated \ {u}
  /\ host' = v
  /\ UNCHANGED <<seats, conn, empty, closed, matchVars, asyncVars, histVars>>

\* sweep: a room nobody has held a socket in for emptyRoomTtl.
Sweep ==
  /\ TimersRun /\ ~closed /\ empty
  /\ Close(tasks)

-----------------------------------------------------------------------------
(* Host and player actions of a match                                       *)

\* startGame up to gameRepository.create.
StartMatch(ts) ==
  /\ order' \in Shuffles(ActivePlayers(conn))
  /\ idx' = 0
  /\ curRound' = 1
  /\ phase' = "starting"
  /\ guessed' = {}
  /\ tasks' = ts \cup {Do("created", Nobody)}
  /\ owed' = ActivePlayers(conn)
  /\ results' = 0
  /\ UNCHANGED <<round, game, timers, heldFor, grace>>

MayStart(u) ==
  /\ u = host
  /\ phase \in {"lobby", "gameEnd"}
  /\ HasEnough(conn)

\* returnToLobby
ResetToLobby(tm, ts) ==
  /\ phase' = "lobby"
  /\ round' = NoRound
  /\ game' = FALSE
  /\ order' = << >> /\ idx' = 0 /\ curRound' = 0
  /\ guessed' = {}
  /\ timers' = tm /\ tasks' = ts
  /\ UNCHANGED <<heldFor, grace, histVars>>

\* Over the socket or over REST, which needs no connection.
StartGame(u) ==
  /\ ClientsRun /\ MayStart(u)
  /\ phase = "gameEnd" => EagerRestart
  /\ StartMatch(tasks)
  /\ UNCHANGED roomVars

\* playAgain up to the write of returnToLobby.
PlayAgain(u) ==
  /\ ClientsRun /\ HasSocket(u)
  /\ u = host
  /\ phase \in {"lobby", "gameEnd"}
  /\ phase = "gameEnd" => EagerRestart
  /\ ResetToLobby(timers, tasks \cup {Do("replay", u)})
  /\ UNCHANGED roomVars

\* The rest of playAgain: startGame, which asserts everything again.
Replay(u) ==
  LET t == Do("replay", u) IN
  /\ t \in tasks
  /\ UNCHANGED roomVars
  /\ IF MayStart(u) THEN StartMatch(tasks \ {t}) ELSE Nothing(timers, tasks \ {t})

MatchCreated_NoId ==
  LET t == Do("created", Nobody) IN
  /\ t \in tasks
  /\ Nothing(timers, (tasks \ {t}) \cup {Do("countdown", Nobody)})
  /\ UNCHANGED roomVars

\* The rest of startGame: the match has an id, then the countdown is booked.
MatchCreated ==
  LET t == Do("created", Nobody) IN
  /\ t \in tasks
  /\ game' = TRUE
  /\ tasks' = (tasks \ {t}) \cup {Do("countdown", Nobody)}
  /\ UNCHANGED <<roomVars, phase, order, idx, curRound, round, guessed, timers,
                 heldFor, grace, histVars>>

BookCountdown ==
  LET t == Do("countdown", Nobody) IN
  /\ t \in tasks
  /\ Nothing(Book(timers, "startCountdown"), tasks \ {t})
  /\ UNCHANGED roomVars

\* beginTurn after its reads: the round is installed whatever has happened to
\* the room since the drawer was picked.  Its branch for an empty list of words
\* (game.service.ts:593-598) is never taken: pickChoices falls back to a built-in
\* pool and always picks one word at least.
OpenRound(u) ==
  LET t == Do("deal", u) IN
  /\ t \in tasks
  /\ round' = [drawer |-> u, worded |-> FALSE, ended |-> FALSE, correct |-> << >>]
  /\ tasks' = (tasks \ {t}) \cup {Do("offer", u)}
  /\ UNCHANGED <<roomVars, phase, order, idx, curRound, guessed, game, timers,
                 heldFor, grace, histVars>>

\* The words are with the drawer: the choice clock is booked.
OfferWords(u) ==
  LET t == Do("offer", u) IN
  /\ t \in tasks
  /\ Nothing(Book(timers, "wordSelection"), tasks \ {t})
  /\ UNCHANGED roomVars

\* applyWordSelection up to its first write.
ApplyWord(tm) ==
  IF LiveRound /\ phase = "wordSelection"
  THEN /\ round' = [round EXCEPT !.worded = TRUE]
       /\ phase' = "drawing"
       /\ timers' = tm \ {"wordSelection"}
       /\ tasks' = tasks \cup {Do("buzzer", Nobody)}
       /\ UNCHANGED <<order, idx, curRound, guessed, game, heldFor, grace, histVars>>
  ELSE Nothing(tm, tasks)

\* selectWord: the drawer picks one of the words on offer.
SelectWord(u) ==
  /\ ClientsRun /\ HasSocket(u)
  /\ HasRound /\ round.drawer = u /\ phase = "wordSelection"
  /\ ApplyWord(timers)
  /\ UNCHANGED roomVars

BookBuzzer_Forgotten ==
  LET t == Do("buzzer", Nobody) IN
  /\ t \in tasks
  /\ Nothing(timers, tasks \ {t})
  /\ UNCHANGED roomVars

\* applyWordSelection, when the turn is stored: the buzzer is booked.
BookBuzzer ==
  LET t == Do("buzzer", Nobody) IN
  /\ t \in tasks
  /\ Nothing(Book(timers, "turn"), tasks \ {t})
  /\ UNCHANGED roomVars

\* submitGuess with the right answer, up to recordCorrectGuess.
Guess(u) ==
  /\ ClientsRun /\ HasSocket(u)
  /\ HasRound /\ round.worded /\ ~round.ended /\ phase = "drawing"
  /\ round.drawer # u /\ u \notin guessed
  /\ Len(round.correct) < MaxCorrect
  /\ guessed' = guessed \cup {u}
  /\ round' = [round EXCEPT !.correct = Append(@, u)]
  /\ tasks' = tasks \cup {Do("guessed", round.drawer)}
  /\ UNCHANGED <<roomVars, phase, order, idx, curRound, game, timers, heldFor,
                 grace, histVars>>

\* afterCorrectGuess, for the round the guess was made in.
AfterGuess(u) ==
  LET t == Do("guessed", u) IN
  /\ t \in tasks
  /\ Nothing(IF EveryoneGuessed(u) THEN Book(timers, "allGuessed") ELSE timers,
             tasks \ {t})
  /\ UNCHANGED roomVars

\* endTurn, when the result is stored: the scoreboard pause is booked.
BookScoreboard ==
  LET t == Do("scored", Nobody) IN
  /\ t \in tasks
  /\ Nothing(Book(timers, "roundResult"), tasks \ {t})
  /\ UNCHANGED roomVars

\* endGame, when everything is recorded: the return to the lobby is booked.
BookReturn ==
  LET t == Do("finishing", Nobody) IN
  /\ t \in tasks
  /\ Nothing(Book(timers, "gameEnd"), tasks \ {t})
  /\ UNCHANGED roomVars

-----------------------------------------------------------------------------
(* Timers that fire                                                         *)

Fires(name) == TimersRun /\ name \in timers /\ UNCHANGED roomVars

CountdownFires ==
  /\ Fires("startCountdown")
  /\ BeginTurn(idx, curRound, timers \ {"startCountdown"}, tasks)

\* A drawer who never chooses: a word is taken for them.
ChoiceFires ==
  /\ Fires("wordSelection")
  /\ ApplyWord(timers \ {"wordSelection"})

BuzzerFires ==
  /\ Fires("turn")
  /\ EndTurn(timers \ {"turn"}, tasks)

AllGuessedFires ==
  /\ Fires("allGuessed")
  /\ EndTurn(timers \ {"allGuessed"}, tasks)

\* advance
ScoreboardFires ==
  /\ Fires("roundResult")
  /\ LET tm == timers \ {"roundResult"} IN
     IF phase = "paused" THEN Nothing(tm, tasks)
     ELSE IF ~HasEnough(conn)
          THEN IF phase \in LivePhases THEN Pause(tm, tasks) ELSE Nothing(tm, tasks)
     ELSE IF idx + 1 < Len(order) THEN BeginTurn(idx + 1, curRound, tm, tasks)
     ELSE IF ~AnotherRound(curRound) THEN EndGame(idx + 1, curRound, tasks)
     ELSE BeginTurn(0, curRound + 1, tm, tasks)

ReturnFires ==
  /\ Fires("gameEnd")
  /\ ResetToLobby(timers \ {"gameEnd"}, tasks)

\* onDrawerDisconnected's timer: the drawer it was booked for is looked up again.
HoldExpires ==
  /\ TimersRun /\ heldFor # Nobody
  /\ IF conn[heldFor] \notin {"seated", "connected"} /\ LiveRound /\ phase # "paused"
     THEN EndTurn(timers, tasks)
     ELSE /\ heldFor' = Nobody
          /\ UNCHANGED <<matchVars, timers, grace, tasks, histVars>>
  /\ UNCHANGED roomVars

-----------------------------------------------------------------------------
InitMatch ==
  /\ phase = "lobby"
  /\ order = << >> /\ idx = 0 /\ curRound = 0
  /\ round = NoRound /\ guessed = {} /\ game = FALSE
  /\ timers = {} /\ heldFor = Nobody /\ grace = {}
  /\ owed = {} /\ results = 0 /\ closed = FALSE

\* createRoom: the owner is seated, and enters next.
InitCreated ==
  \E u \in Users :
    /\ seats = <<u>> /\ host = u /\ empty = FALSE
    /\ conn = [v \in Users |-> IF v = u THEN "seated" ELSE "absent"]
    /\ tasks = {Do("enter", u)}

\* hydrate: the stored seats, nobody connected.
InitHydrated ==
  /\ seats \in Shuffles(Restored) /\ host \in Restored /\ empty = TRUE
  /\ conn = [v \in Users |-> IF v \in Restored THEN "disconnected" ELSE "absent"]
  /\ tasks = {}

Init == InitMatch /\ IF Restored = {} THEN InitCreated ELSE InitHydrated

Client(u) ==
  \/ Join(u) \/ Rejoin(u) \/ RestJoin(u) \/ Reconnect(u) \/ Disconnect(u)
  \/ Leave(u) \/ Vacate(u) \/ Evict(u)
  \/ EndRoom(u) \/ \E v \in Users : TransferHost(u, v)
  \/ StartGame(u) \/ PlayAgain(u) \/ SelectWord(u) \/ Guess(u)

Continuation ==
  \/ \E u \in Users : \/ Enter(u) \/ PlayerLeft(u) \/ CloseEmptied(u) \/ Replay(u)
                      \/ OpenRound(u) \/ OfferWords(u) \/ AfterGuess(u)
  \/ MatchCreated \/ BookCountdown \/ BookBuzzer \/ BookScoreboard \/ BookReturn

Timer ==
  \/ CountdownFires \/ ChoiceFires \/ BuzzerFires \/ AllGuessedFires
  \/ ScoreboardFires \/ ReturnFires \/ HoldExpires \/ Sweep
  \/ \E u \in Users : GraceExpires(u)

Next == (\E u \in Users : Client(u)) \/ Continuation \/ Timer

Spec == Init /\ [][Next]_vars

(***************************************************************************)
(* What the runtime guarantees: the store answers, Node fires a booked      *)
(* timer when it is due, and the sweeper runs.  Nothing is assumed of any   *)
(* client.  The match's own timers are strongly fair, because a handler in  *)
(* flight holds them back here and must not do so forever; the players'     *)
(* timers are only weakly fair, since clients may cancel and book those     *)
(* again as often as they like.                                             *)
(***************************************************************************)
Fairness ==
  /\ WF_vars(Continuation)
  /\ SF_vars(CountdownFires) /\ SF_vars(ChoiceFires) /\ SF_vars(BuzzerFires)
  /\ SF_vars(AllGuessedFires) /\ SF_vars(ScoreboardFires) /\ SF_vars(ReturnFires)
  /\ WF_vars(HoldExpires) /\ WF_vars(Sweep)
  /\ \A u \in Users : WF_vars(GraceExpires(u))

FairSpec == Spec /\ Fairness

-----------------------------------------------------------------------------
(* Properties                                                               *)

\* Every variable has its type, and no round past the last is ever counted.
TypeOK ==
  /\ seats \in Seq(Users)
  /\ conn \in [Users -> Connections]
  /\ host \in Users
  /\ empty \in BOOLEAN /\ closed \in BOOLEAN
  /\ phase \in Phases
  /\ order \in Seq(Users)
  /\ idx \in Nat /\ curRound \in 0 .. Rounds
  /\ round \in Round
  /\ guessed \subseteq Users /\ game \in BOOLEAN
  /\ timers \subseteq Timers
  /\ heldFor \in Users \cup {Nobody}
  /\ grace \subseteq Users
  /\ tasks \subseteq Task
  /\ owed \subseteq Users /\ results \in 0 .. 2

\* The turn order names each seated player at most once and nobody else,
\* whatever departures and arrivals do to it (startGame, removePlayer,
\* resumeIfPossible).
TurnOrderSeated == IsInjective(order) /\ Range(order) \subseteq Seated

\* A closed room has no timer left and books none, although continuations of
\* its handlers are still to come (close, timerService.schedule).
ClosedIsSilent == closed => timers = {} /\ grace = {} /\ heldFor = Nobody

Pending(step) == \E u \in Users \cup {Nobody} : Do(step, u) \in tasks

\* An open room has its host among its seats, unless the last departure is
\* still on its way to closing it (removePlayer, transferHost).
HostIsSeated == closed \/ host \in Seated \/ Pending("emptied")

\* The players who have come in with a socket and whose grace is not over.
Entered == {u \in Users : conn[u] \in {"connected", "reconnecting"}}

\* No phase is left without the timer, or the continuation about to book the
\* timer, that will move it on; and a match is not parked once enough players
\* have come in (pauseForMissingPlayers, resumeIfPossible, endTurn, endGame).
NeverStranded ==
  ~closed =>
    /\ phase = "starting" =>
         "startCountdown" \in timers \/ Pending("created") \/ Pending("countdown")
    /\ phase = "wordSelection" =>
         "wordSelection" \in timers \/ Pending("deal") \/ Pending("offer")
    /\ phase = "drawing" => "turn" \in timers \/ Pending("buzzer")
    /\ phase = "roundEnd" => "roundResult" \in timers \/ Pending("scored")
    /\ phase = "gameEnd" => "gameEnd" \in timers \/ Pending("finishing")
    /\ phase = "paused" => Cardinality(Entered) < MinPlayers

\* The moment a live match is short of players it is paused, unless the
\* departure that leaves it short is still on its way to the engine (the state
\* diagram of game.service.ts, onPlayerLeft).
PausedWhenShort ==
  ~closed /\ phase \in LivePhases =>
    HasEnough(conn) \/ Pending("removed") \/ Pending("emptied")

\* Refuted with deleted accounts, and in no run: whoever sits in a room that has
\* nothing left to do sits with a host (removePlayer: every exit path leaves a
\* room with a host).
HostPresent == ~closed /\ tasks = {} /\ Seated # {} => host \in Seated

\* A paused match has no round, and nothing booked that could move it
\* (pauseForMissingPlayers cancels the turn's timers; its comment says why).
PausedIsQuiet == phase = "paused" => ~HasRound /\ timers = {} /\ heldFor = Nobody

\* A match pauses when it has to, although departures, drops and expiries come
\* in any phase, and stays quiet until it is resumed.
PausesInTime == PausedWhenShort /\ PausedIsQuiet

\* A turn in progress has a drawer in the room, and a word once it is drawn
\* (nextDrawerId, onPlayerLeft, applyWordSelection).
TurnHasDrawer ==
  phase \in {"wordSelection", "drawing"} /\ tasks = {} /\ ~closed =>
    LiveRound /\ round.drawer \in Seated /\ (phase = "drawing" => round.worded)

\* When everybody who can guess has, the turn is about to end early, however
\* that came about: a guess, a departure, an expiry (afterCorrectGuess,
\* onPlayerLeft).
EarlyEndBooked ==
  phase = "drawing" /\ ~closed /\ tasks = {} /\ EveryoneGuessed(round.drawer) =>
    "allGuessed" \in timers

\* The hold on a dropped drawer belongs to the turn in progress: were it left
\* over from another it would end a stranger's turn (onDrawerDisconnected).
HoldIsForThisTurn ==
  heldFor # Nobody => LiveRound /\ heldFor = round.drawer /\ phase \in LivePhases

\* A turn is somebody's who is there, ends early when nobody is left to wait
\* for, and is ended by no hold but its own, whoever left or dropped since.
TurnInOrder == TurnHasDrawer /\ EarlyEndBooked /\ HoldIsForThisTurn

\* Refuted, and in no run: a player who stays through a round draws in it
\* (removePlayer, advance).
NobodySkipped ==
  [][curRound' > curRound \/ (phase' = "gameEnd" /\ phase # "gameEnd")
       => curRound = 0 \/ owed = {}]_vars

\* Refuted when a match is started under the standings, and in no run: a room
\* goes back to its lobby from the final standings and from nowhere else (the
\* state diagram of game.service.ts; returnToLobby).
LobbyOnlyAfterStandings ==
  [][phase # "lobby" /\ phase' = "lobby" => phase = "gameEnd"]_vars

\* Refuted by a match that ends meanwhile, and in no run: a player who drops out
\* either comes back or gives the seat up (detach, expire).
DroppedIsResolved ==
  \A u \in Users : conn[u] = "reconnecting" ~> (closed \/ conn[u] # "reconnecting")

\* The match a room runs is the one MatchLifecycle describes: among the rest, it
\* has one result, and none without the id it was given (endGame).
Lifecycle == INSTANCE MatchLifecycle WITH
  stage <- IF closed THEN "closed" ELSE phase, roundNo <- curRound, filed <- game,
  recorded <- results
MatchFollowsLifecycle == Lifecycle!Spec

\* The room the voice channel, the board, the vote to kick and the Stupids rely
\* on is the one the engine runs: the pen changes hands only by a turn that was
\* dealt, a turn ends once, and a room that goes quiet takes the pen away.  A match
\* started under the standings may be thrown back by the timer of the last one, so
\* Prompt asks for none.
Turns == INSTANCE RoomTurns WITH
  Prompt <- (Latency = "none" /\ ~EagerRestart),
  phase <- CASE phase = "wordSelection" -> "choosing"
             [] phase = "drawing" -> "drawing"
             [] phase = "roundEnd" -> "scored"
             [] OTHER -> "quiet",
  pen <- round.drawer,
  live <- LiveRound,
  dealt <- {u \in Users : Do("deal", u) \in tasks},
  untold <- {u \in Users : Do("offer", u) \in tasks},
  seated <- Seated
KeepsTurns == Turns!Spec

\* A running match gets somewhere: it ends, or it is parked, or the room is
\* closed, whatever the clients do or fail to do.
MatchMovesOn == phase \in LivePhases ~> (phase \in {"gameEnd", "paused"} \/ closed)

\* Refuted for restored rooms, and in no run: a room everybody has dropped out of
\* is given up, unless somebody returns (sweep).
AbandonedRoomCloses ==
  (\A u \in Users : ~HasSocket(u)) ~> (closed \/ \E u \in Users : HasSocket(u))

=============================================================================
