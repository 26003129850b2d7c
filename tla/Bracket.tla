------------------------------ MODULE Bracket ------------------------------
(***************************************************************************)
(* One automatic tournament from the moment its roster is sealed: the draw *)
(* (bracket.service.ts), the matches and the rounds (match.service.ts),    *)
(* the stand-ins (standIn.service.ts) and the part of a match room the     *)
(* bracket can see (room.service.ts, presence.service.ts).                 *)
(*                                                                         *)
(* The rows live in MongoDB and outlive the process; rooms, hooks and      *)
(* ticks live in the process and do not.  An action is one segment of a    *)
(* handler between two real awaits, and holds at most one conditional      *)
(* write.  A TICK is one pass of the scheduler; two may run at once when   *)
(* one of them has overrun its lease.  A HOOK is what the game engine      *)
(* fires for one room: the start of its match or the report of its result. *)
(* A CALL is completeMatch in progress, whoever made it.  A TAKEOVER is    *)
(* replace in progress for one seat whose grace period has ended.          *)
(*                                                                         *)
(* Abstracted: names, avatars, scores (a game ends with either seat        *)
(* first), announcements, the placement table, and the turns of a game.    *)
(* Left out: the commands the host of a match room still has (start, end,  *)
(* kick), and an administrator who starts or cancels a tournament by hand. *)
(***************************************************************************)
EXTENDS Integers, Sequences, FiniteSets, Functions

CONSTANTS
  Seeding,     \* the sealed roster: humans before bots, each by joinedAt
  Bots,        \* the registrations that are bots
  Retired,     \* the bots whose profile is no longer active
  Ticks,       \* passes of the scheduler that may overlap
  NoOne,       \* stands for a null registration
  AllowBots,   \* tournament.allowBots
  Departures,  \* what players may do to a seat: "drop", "leave"
  StoreFails,  \* whether the store may fail startGame or a takeover half-way
  MaxCrashes   \* bound: how often the process may die

Entrants == {Seeding[i] : i \in 1..Len(Seeding)}
Humans == Entrants \ Bots

ASSUME SeedingAssumption ==
  /\ Seeding \in Seq(Entrants) /\ Len(Seeding) \in 2..16
  /\ \A i, j \in 1..Len(Seeding) : Seeding[i] = Seeding[j] => i = j
ASSUME RosterAssumption ==
  Bots \subseteq Entrants /\ Retired \subseteq Bots /\ NoOne \notin Entrants
ASSUME ScheduleAssumption ==
  /\ AllowBots \in BOOLEAN /\ StoreFails \in BOOLEAN
  /\ Departures \subseteq {"drop", "leave"} /\ MaxCrashes \in Nat

VARIABLES
  tstat,    \* tournament.status
  cur,      \* tournament.currentRound
  champion, \* tournament.winnerRegistrationId
  reg,      \* registrations: status, and whether a seed has been written
  match,    \* the TournamentMatch rows
  room,     \* the runtime room of each match
  tick,     \* the scheduler passes in progress
  hook,     \* the engine hook in progress for each match
  calls,    \* the completeMatch calls in progress
  takeovers, \* the seats a stand-in is being found for
  crashes   \* how often the process has died

vars == <<tstat, cur, champion, reg, match, room, tick, hook, calls, takeovers, crashes>>

\* The part of a tournament's path this module takes; "sealed" is the status
\* the draw sets out from, starting or checkIn.
PathStatus == IF tstat = "sealed" THEN "starting" ELSE tstat
Path == INSTANCE TournamentPath WITH status <- PathStatus

-----------------------------------------------------------------------------
(* The shape of the draw. *)

\* nextPowerOfTwo, with a floor of two.
Size == CHOOSE s \in {2, 4, 8, 16} :
          s >= Len(Seeding) /\ (s = 2 \/ s < 2 * Len(Seeding))
PowerOfTwo == <<2, 4, 8, 16>>
Rounds == CHOOSE k \in 1..4 : PowerOfTwo[k] = Size

Pos == {p \in (1..Rounds) \X (1..(Size \div 2)) : p[2] <= Size \div PowerOfTwo[p[1]]}
RoundOf(p) == p[1]
Final == <<Rounds, 1>>

\* feedsInto: the pairing, and the side of it, a winner moves to.
HasNext(p) == p[1] < Rounds
NextPos(p) == <<p[1] + 1, (p[2] + 1) \div 2>>
NextSide(p) == IF p[2] % 2 = 1 THEN "A" ELSE "B"

Sides == {"A", "B"}

\* planMatches: seed n of round one meets the seed that mirrors it.
SeedAt(i) == IF i <= Len(Seeding) THEN Seeding[i] ELSE NoOne
Planned(p) ==
  [status |-> "pending", winner |-> NoOne, outcome |-> "none",
   booked |-> FALSE, forfeit |-> NoOne,
   slot |-> IF p[1] = 1
              THEN [A |-> SeedAt(p[2]), B |-> SeedAt(Size + 1 - p[2])]
              ELSE [A |-> NoOne, B |-> NoOne]]

Absent == [status |-> "absent", winner |-> NoOne, outcome |-> "none",
           booked |-> FALSE, forfeit |-> NoOne, slot |-> [A |-> NoOne, B |-> NoOne]]

-----------------------------------------------------------------------------
(* Reading the rows. *)

Paired(p) == {match[p].slot[s] : s \in Sides} \ {NoOne}
Other(p, e) == CHOOSE x \in Paired(p) : x # e
Decided(p) == match[p].status \in {"completed", "cancelled"}
Unfinished(r) == {p \in Pos : RoundOf(p) = r /\ match[p].status # "absent" /\ ~Decided(p)}
Openable == {p \in Pos : match[p].status = "pending" /\ Cardinality(Paired(p)) = 2}
Lopsided(r) == {p \in Pos : /\ RoundOf(p) = r /\ match[p].status = "pending"
                            /\ Cardinality(Paired(p)) = 1}
Booked == {p \in Pos : match[p].status = "ready" /\ match[p].booked}

\* The row with its result.
Won(p, w, outcome) ==
  [match[p] EXCEPT !.status = "completed", !.winner = w, !.outcome = outcome]

FeedersPending(p) ==
  \E q \in Pos : HasNext(q) /\ NextPos(q) = p /\ match[q].status # "absent" /\ ~Decided(q)

\* The rows of a query, in the order they were inserted.
FirstOf(S) == CHOOSE p \in S : \A q \in S : p[1] < q[1] \/ (p[1] = q[1] /\ p[2] <= q[2])

\* A bot is always here; a person is here when the seat holds a live socket.
Present(p, e) == e \in Bots \/ (e \in room[p].live /\ ~room[p].closed)

\* startIfEverybodyIsHere.  `room` is passed in because the check runs in the
\* same segment as the change that triggers it.
EverybodyHere(p, rm) ==
  /\ rm.phase = "lobby" /\ rm.bound /\ ~rm.closed
  /\ \A e \in Paired(p) : e \in rm.seats /\ (e \in rm.robots \/ e \in rm.live)

\* activePlayers: every seat the room has not written off, a reconnecting one too.
Active(rm) == rm.seats \ rm.lost

\* close forgets the room and its timers, and no socket finds it any more.  Its
\* phase and its seats stay: a start already under way still goes by them.
Shut(rm) == [rm EXCEPT !.closed = TRUE, !.live = {}, !.grace = {}, !.stray = {},
                       !.vacant = FALSE]

\* seats: taken.  live: with a socket.  robots: isBot.  grace: the reconnect
\* timer runs.  lost: connection is disconnected.  stray: sockets whose seat
\* was given to a bot.  vacant: emptySince is set.  game: gameId is set.
NoRoom == [phase |-> "none", closed |-> FALSE, bound |-> FALSE, game |-> FALSE,
           seats |-> {}, live |-> {}, robots |-> {}, grace |-> {}, lost |-> {},
           stray |-> {}, vacant |-> FALSE]

Idle == [at |-> "idle", r |-> 0, todo |-> {}, p |-> <<0, 0>>, w |-> NoOne]
Quiet == [at |-> "none", w |-> NoOne]

Waiting(owner) == \E c \in calls : c.by = owner

\* completeMatch, called by a tick or by a hook.
Call(owner, p, w, l, out) == [by |-> owner, p |-> p, w |-> w, l |-> l, out |-> out,
                              at |-> "claim"]

TickOf(t) == <<"tick", t>>
HookOf(p) == <<"hook", p>>

At(t, label) == tick[t].at = label /\ ~Waiting(TickOf(t))
Goto(t, label) == tick' = [tick EXCEPT ![t].at = label]
Back(t, label) == tick' = [tick EXCEPT ![t].at = label, ![t].p = Idle.p, ![t].w = NoOne]
Stop(t) == tick' = [tick EXCEPT ![t] = Idle]

tourVars == <<tstat, cur, champion>>
roomVars == <<room, hook>>

-----------------------------------------------------------------------------
(* Drawing: seedAndStart.  Several ticks may be in it together. *)

Playing(e) == reg[e].status \in {"checkedIn", "active"}

\* The scheduler has loaded the tournament before its deadline passed to us.
SeedStart(t) ==
  /\ At(t, "idle") /\ tstat = "sealed"
  /\ Goto(t, "field")
  /\ UNCHANGED <<tourVars, reg, match, roomVars, calls, takeovers, crashes>>

\* seedAndStart reads the participants; generate gives up below two of them.
ReadField(t) ==
  /\ At(t, "field")
  /\ Goto(t, IF Cardinality({e \in Entrants : Playing(e)}) < 2 THEN "cancel" ELSE "seeds")
  /\ UNCHANGED <<tourVars, reg, match, roomVars, calls, takeovers, crashes>>

\* writeSeeds: each row on the condition that it holds no seed yet.
WriteSeeds(t) ==
  /\ At(t, "seeds")
  /\ reg' = [e \in Entrants |->
       IF Playing(e) /\ ~reg[e].seeded THEN [status |-> "active", seeded |-> TRUE] ELSE reg[e]]
  /\ Goto(t, "matches")
  /\ UNCHANGED <<tourVars, match, roomVars, calls, takeovers, crashes>>

\* writeMatches: rows that exist already are left as they are.
WriteMatches(t) ==
  /\ At(t, "matches")
  /\ match' = [p \in Pos |-> IF match[p].status = "absent" THEN Planned(p) ELSE match[p]]
  /\ Goto(t, "byes")
  /\ UNCHANGED <<tourVars, reg, roomVars, calls, takeovers, crashes>>

\* resolveByes, which completes the rows but fills no slot of round two.
ResolveByes(t) ==
  /\ At(t, "byes")
  /\ match' = [p \in Pos |->
       IF p \in Lopsided(1)
         THEN Won(p, CHOOSE e \in Paired(p) : TRUE, "bye")
       ELSE IF RoundOf(p) = 1 /\ match[p].status = "pending" /\ Paired(p) = {}
         THEN [match[p] EXCEPT !.status = "cancelled"]
       ELSE match[p]]
  /\ Goto(t, "run")
  /\ UNCHANGED <<tourVars, reg, roomVars, calls, takeovers, crashes>>

\* The conditional step to RUNNING.
StartRunning(t) ==
  /\ At(t, "run")
  /\ IF tstat = "sealed"
       THEN tstat' = "running" /\ cur' = 1 /\ Goto(t, "load")
       ELSE UNCHANGED <<tstat, cur>> /\ Stop(t)
  /\ UNCHANGED <<champion, reg, match, roomVars, calls, takeovers, crashes>>

\* Mutant: the step is not conditional on the status.
Cancel_Regardless(t) ==
  /\ At(t, "cancel")
  /\ tstat' = "cancelled" /\ Goto(t, "release")
  /\ UNCHANGED <<cur, champion, reg, match, roomVars, calls, takeovers, crashes>>

\* cancel: the status first, every registration after it.
Cancel(t) ==
  /\ At(t, "cancel")
  /\ IF tstat \in {"sealed", "running"}
       THEN tstat' = "cancelled" /\ Goto(t, "release")
       ELSE UNCHANGED tstat /\ Stop(t)
  /\ UNCHANGED <<cur, champion, reg, match, roomVars, calls, takeovers, crashes>>

Release(t) ==
  /\ At(t, "release")
  /\ reg' = [e \in Entrants |->
       IF Playing(e) THEN [reg[e] EXCEPT !.status = "eliminated"] ELSE reg[e]]
  /\ Stop(t)
  /\ UNCHANGED <<tourVars, match, roomVars, calls, takeovers, crashes>>

-----------------------------------------------------------------------------
(* Opening matches: openReadyMatches and open. *)

\* `r` tells seedAndStart, which goes on to progressRounds, from the others.
LoadOpenable(t) ==
  /\ At(t, "load")
  /\ tick' = [tick EXCEPT ![t].at = "opening", ![t].todo = Openable]
  /\ UNCHANGED <<tourVars, reg, match, roomVars, calls, takeovers, crashes>>

\* The claim: a second opener finds the row READY and builds nothing.
ClaimOpen(t) ==
  LET p == FirstOf(tick[t].todo)
  IN /\ At(t, "opening") /\ tick[t].todo # {}
     /\ IF match[p].status = "pending"
          THEN /\ match' = [match EXCEPT ![p].status = "ready"]
               /\ tick' = [tick EXCEPT ![t].at = "room", ![t].p = p, ![t].todo = @ \ {p}]
          ELSE /\ tick' = [tick EXCEPT ![t].todo = @ \ {p}]
               /\ UNCHANGED match
     /\ UNCHANGED <<tourVars, reg, roomVars, calls, takeovers, crashes>>

\* The room, its bots, and the row that makes it known.  A pairing of bots
\* starts at once; a bot that is gone gives its opponent a walkover.
OpenRoom(t) ==
  LET p == tick[t].p
      robots == Paired(p) \cap Bots
      gone == Paired(p) \cap Retired
      rm == [NoRoom EXCEPT !.phase = "lobby", !.bound = TRUE, !.seats = robots,
                           !.robots = robots, !.vacant = robots = {}]
  IN /\ At(t, "room")
     /\ Back(t, "opening")
     /\ IF gone # {}
          THEN /\ \E l \in gone :
                    calls' = calls \cup {Call(TickOf(t), p, Other(p, l), l, "walkover")}
               /\ UNCHANGED <<match, roomVars>>
          ELSE /\ room' = [room EXCEPT ![p] = rm]
               /\ match' = [match EXCEPT ![p].booked = TRUE]
               /\ hook' = IF EverybodyHere(p, rm)
                            THEN [hook EXCEPT ![p].at = "claim"] ELSE hook
               /\ UNCHANGED calls
     /\ UNCHANGED <<tourVars, reg, takeovers, crashes>>

OpenDone(t) ==
  /\ At(t, "opening") /\ tick[t].todo = {}
  /\ IF tick[t].r = 0 THEN Goto(t, "progress") ELSE Stop(t)
  /\ UNCHANGED <<tourVars, reg, match, roomVars, calls, takeovers, crashes>>

-----------------------------------------------------------------------------
(* Rounds: progressRounds, resolveNextRoundByes and finish. *)

\* A pass with nothing to open or move changes nothing and is left out.
StartProgress(t) ==
  /\ At(t, "idle") /\ tstat = "running"
  /\ Unfinished(cur) = {} \/ Openable # {}
  /\ Goto(t, "progress")
  /\ UNCHANGED <<tourVars, reg, match, roomVars, calls, takeovers, crashes>>

\* The tournament is read first, its unfinished matches are counted later.
ReadRound(t) ==
  /\ At(t, "progress")
  /\ IF tstat = "running"
       THEN tick' = [tick EXCEPT ![t].at = "count", ![t].r = cur]
       ELSE Stop(t)
  /\ UNCHANGED <<tourVars, reg, match, roomVars, calls, takeovers, crashes>>

\* Mutant: the round before the final is taken for the final.
CountRound_OneTooFew(t) ==
  /\ At(t, "count")
  /\ Goto(t, IF Unfinished(tick[t].r) # {} THEN "load"
             ELSE IF tick[t].r >= Rounds - 1 THEN "crown" ELSE "move")
  /\ UNCHANGED <<tourVars, reg, match, roomVars, calls, takeovers, crashes>>

CountRound(t) ==
  /\ At(t, "count")
  /\ Goto(t, IF Unfinished(tick[t].r) # {} THEN "load"
             ELSE IF tick[t].r >= Rounds THEN "crown" ELSE "move")
  /\ UNCHANGED <<tourVars, reg, match, roomVars, calls, takeovers, crashes>>

\* The marker moves first, on the condition that nobody has moved it.
MoveRound(t) ==
  /\ At(t, "move")
  /\ IF tstat = "running" /\ cur = tick[t].r
       THEN cur' = cur + 1 /\ Goto(t, "gaps")
       ELSE UNCHANGED cur /\ Stop(t)
  /\ UNCHANGED <<tstat, champion, reg, match, roomVars, calls, takeovers, crashes>>

LoadGaps(t) ==
  /\ At(t, "gaps")
  /\ tick' = [tick EXCEPT ![t].at = "gap", ![t].todo = Lopsided(tick[t].r + 1)]
  /\ UNCHANGED <<tourVars, reg, match, roomVars, calls, takeovers, crashes>>

\* A pairing with one player and no feeder still to be decided is a bye.  The
\* survivor is the one of the row as it was loaded; a slot is never emptied.
Gap(t) ==
  LET p == FirstOf(tick[t].todo)
  IN /\ At(t, "gap") /\ tick[t].todo # {}
     /\ tick' = [tick EXCEPT ![t].todo = @ \ {p}]
     /\ IF FeedersPending(p)
          THEN UNCHANGED calls
          ELSE \E e \in Paired(p) : calls' = calls \cup {Call(TickOf(t), p, e, NoOne, "bye")}
     /\ UNCHANGED <<tourVars, reg, match, roomVars, takeovers, crashes>>

GapsDone(t) ==
  /\ At(t, "gap") /\ tick[t].todo = {}
  /\ Goto(t, "load")
  /\ UNCHANGED <<tourVars, reg, match, roomVars, calls, takeovers, crashes>>

\* finish marks the winner's row before it closes the tournament.
Crown(t) ==
  LET w == IF match[Final].status = "completed" THEN match[Final].winner ELSE NoOne
  IN /\ At(t, "crown")
     /\ tick' = [tick EXCEPT ![t].at = "finish", ![t].w = w]
     /\ reg' = IF w = NoOne THEN reg ELSE [reg EXCEPT ![w].status = "winner"]
     /\ UNCHANGED <<tourVars, match, roomVars, calls, takeovers, crashes>>

Finish(t) ==
  /\ At(t, "finish") /\ Stop(t)
  /\ IF tstat = "running"
       THEN tstat' = "completed" /\ champion' = tick[t].w
       ELSE UNCHANGED <<tstat, champion>>
  /\ UNCHANGED <<cur, reg, match, roomVars, calls, takeovers, crashes>>

-----------------------------------------------------------------------------
(* Entry deadlines: sweepEntryDeadlines and decideLapsed. *)

\* Any of the booked deadlines may have passed by now.
StartSweep(t, lapsed) ==
  /\ At(t, "idle") /\ lapsed # {} /\ lapsed \subseteq Booked
  /\ tick' = [tick EXCEPT ![t].at = "sweep", ![t].todo = lapsed]
  /\ UNCHANGED <<tourVars, reg, match, roomVars, calls, takeovers, crashes>>

\* Who is here is read once; the row may have been decided since it was loaded.
DecideLapsed(t) ==
  LET p == FirstOf(tick[t].todo)
      here == {e \in Paired(p) : Present(p, e)}
      rest == [tick EXCEPT ![t].todo = @ \ {p}]
  IN /\ At(t, "sweep") /\ tick[t].todo # {}
     /\ CASE here = Paired(p) ->
               /\ hook' = IF room[p].bound /\ ~room[p].closed /\ hook[p].at = "none"
                            THEN [hook EXCEPT ![p].at = "claim"] ELSE hook
               /\ tick' = rest /\ UNCHANGED room
          [] here = {} ->
               /\ room' = [room EXCEPT ![p] = IF @.phase = "none" THEN @ ELSE Shut(@)]
               /\ tick' = [rest EXCEPT ![t].at = "abandon", ![t].p = p]
               /\ UNCHANGED hook
          [] OTHER ->
               /\ tick' = [rest EXCEPT ![t].at = "walkover", ![t].p = p,
                                       ![t].w = CHOOSE e \in here : TRUE]
               /\ UNCHANGED roomVars
     /\ UNCHANGED <<tourVars, reg, match, calls, takeovers, crashes>>

\* The line in the chat has been written: the room is closed whoever has come
\* meanwhile, and the match is completed.
Walkover(t) ==
  LET p == tick[t].p  w == tick[t].w
  IN /\ At(t, "walkover")
     /\ room' = [room EXCEPT ![p] = IF @.phase = "none" THEN @ ELSE Shut(@)]
     /\ calls' = calls \cup {Call(TickOf(t), p, w, Other(p, w), "walkover")}
     /\ Back(t, "sweep")
     /\ UNCHANGED <<tourVars, reg, match, hook, takeovers, crashes>>

Abandon(t) ==
  LET p == tick[t].p
  IN /\ At(t, "abandon")
     /\ IF match[p].status = "ready"
          THEN match' = [match EXCEPT ![p].status = "cancelled"] /\ Goto(t, "dismiss")
          ELSE UNCHANGED match /\ Back(t, "sweep")
     /\ UNCHANGED <<tourVars, reg, roomVars, calls, takeovers, crashes>>

Dismiss(t) ==
  /\ At(t, "dismiss")
  /\ reg' = [e \in Entrants |-> IF e \in Paired(tick[t].p)
                                  THEN [reg[e] EXCEPT !.status = "eliminated"] ELSE reg[e]]
  /\ Back(t, "sweep")
  /\ UNCHANGED <<tourVars, match, roomVars, calls, takeovers, crashes>>

SweepDone(t) ==
  /\ At(t, "sweep") /\ tick[t].todo = {}
  /\ Stop(t)
  /\ UNCHANGED <<tourVars, reg, match, roomVars, calls, takeovers, crashes>>

-----------------------------------------------------------------------------
(* completeMatch and advance. *)

Next1(c, label) == calls' = (calls \ {c}) \cup {[c EXCEPT !.at = label]}

\* Mutant: the write is not conditional.
CompleteClaim_Again(c) ==
  /\ c.at = "claim"
  /\ match' = [match EXCEPT ![c.p] = Won(c.p, c.w, c.out)]
  /\ Next1(c, "eliminate")
  /\ UNCHANGED <<tourVars, reg, tick, roomVars, takeovers, crashes>>

\* Mutant: only a match that was started can be completed.
CompleteClaim_OnlyRunning(c) ==
  /\ c.at = "claim"
  /\ IF match[c.p].status = "running"
       THEN /\ match' = [match EXCEPT ![c.p] = Won(c.p, c.w, c.out)]
            /\ Next1(c, "eliminate")
       ELSE calls' = calls \ {c} /\ UNCHANGED match
  /\ UNCHANGED <<tourVars, reg, tick, roomVars, takeovers, crashes>>

\* The row is taken unless it is completed: everything below happens once.
CompleteClaim(c) ==
  /\ c.at = "claim"
  /\ IF match[c.p].status # "completed"
       THEN /\ match' = [match EXCEPT ![c.p] = Won(c.p, c.w, c.out)]
            /\ Next1(c, "eliminate")
       ELSE calls' = calls \ {c} /\ UNCHANGED match
  /\ UNCHANGED <<tourVars, reg, tick, roomVars, takeovers, crashes>>

CompleteEliminate(c) ==
  /\ c.at = "eliminate"
  /\ reg' = IF c.l = NoOne THEN reg ELSE [reg EXCEPT ![c.l].status = "eliminated"]
  /\ Next1(c, "advance")
  /\ UNCHANGED <<tourVars, match, tick, roomVars, takeovers, crashes>>

\* The destination is taken only while it is empty.
CompleteAdvance(c) ==
  /\ c.at = "advance"
  /\ calls' = calls \ {c}
  /\ match' = IF HasNext(c.p) /\ match[NextPos(c.p)].slot[NextSide(c.p)] = NoOne
                THEN [match EXCEPT ![NextPos(c.p)].slot[NextSide(c.p)] = c.w]
                ELSE match
  /\ UNCHANGED <<tourVars, reg, tick, roomVars, takeovers, crashes>>

-----------------------------------------------------------------------------
(* One match room: its players, and the hooks of the engine. *)

\* enter gives the code, joinRoom the seat; the broadcast that follows asks
\* whether everybody is here.  A match that was paused goes on at strength: to
\* its next turn, or to none when its start failed and it has no game.
Enter(p, e) ==
  LET rm == room[p]
      back == [rm EXCEPT !.seats = @ \cup {e}, !.live = @ \cup {e}, !.grace = @ \ {e},
                         !.lost = @ \ {e}, !.stray = @ \ {e}, !.vacant = FALSE]
      now == IF back.phase = "paused" /\ Cardinality(Active(back)) >= 2
               THEN [back EXCEPT !.phase = IF rm.game THEN "playing" ELSE "starting"]
               ELSE back
  IN /\ e \in Humans \cap Paired(p) /\ e \notin rm.live
     /\ rm.phase \in {"lobby", "starting", "playing", "paused"} /\ ~rm.closed
     /\ match[p].status \in {"ready", "running"} /\ match[p].booked
     /\ room' = [room EXCEPT ![p] = now]
     /\ hook' = IF EverybodyHere(p, now) /\ hook[p].at = "none"
                  THEN [hook EXCEPT ![p].at = "claim"] ELSE hook
     /\ UNCHANGED <<tourVars, reg, match, tick, calls, takeovers, crashes>>

\* A last socket drops and the seat is kept for the grace period, also when a
\* bot has been put on it since.
Drop(p, e) ==
  LET gone == [room[p] EXCEPT !.live = @ \ {e}, !.stray = @ \ {e}, !.grace = @ \cup {e}]
  IN /\ "drop" \in Departures /\ ~room[p].closed
     /\ e \in room[p].live \cup room[p].stray
     /\ room' = [room EXCEPT ![p] = [gone EXCEPT !.vacant = @ \/ gone.live = {}]]
     /\ UNCHANGED <<tourVars, reg, match, tick, hook, calls, takeovers, crashes>>

\* removePlayer and what its callers do with its answer: a room without seats is
\* closed, and a match without players is parked in whatever live phase it is.
Vacated(rm, e) ==
  LET left == [rm EXCEPT !.seats = @ \ {e}, !.live = @ \ {e}, !.robots = @ \ {e},
                         !.grace = @ \ {e}, !.lost = @ \ {e}, !.stray = @ \ {e}]
  IN IF left.seats = {} THEN Shut(left)
     ELSE IF rm.phase \in {"starting", "playing"} /\ ~rm.closed /\ Cardinality(Active(left)) < 2
       THEN [left EXCEPT !.phase = "paused"]
     ELSE left

Leave(p, e) ==
  /\ "leave" \in Departures /\ ~room[p].closed
  /\ e \in room[p].live \cup room[p].stray
  /\ room' = [room EXCEPT ![p] = Vacated(room[p], e)]
  /\ UNCHANGED <<tourVars, reg, match, tick, hook, calls, takeovers, crashes>>

\* The grace period ends and the seat is written off.  An ordinary room gives
\* it up at once; a bracket match first looks for a stand-in.  Bound: one takeover
\* of a seat at a time; the next grace period outlasts the writes of the first.
Expire(p, e) ==
  LET rm == [room[p] EXCEPT !.grace = @ \ {e}, !.lost = @ \cup {e}]
  IN /\ e \in room[p].grace /\ ~room[p].closed
     /\ ~\E s \in takeovers : s.p = p /\ s.e = e
     /\ IF rm.bound
          THEN /\ room' = [room EXCEPT ![p] = rm]
               /\ takeovers' = takeovers \cup {[p |-> p, e |-> e, at |-> "look"]}
          ELSE room' = [room EXCEPT ![p] = Vacated(rm, e)] /\ UNCHANGED takeovers
     /\ UNCHANGED <<tourVars, reg, match, tick, hook, calls, crashes>>

\* The sweeper of presence.service closes a room nobody has been in for a while.
SweepRoom(p) ==
  /\ room[p].vacant /\ room[p].phase # "none" /\ ~room[p].closed
  /\ room' = [room EXCEPT ![p] = Shut(@)]
  /\ UNCHANGED <<tourVars, reg, match, tick, hook, calls, takeovers, crashes>>

-----------------------------------------------------------------------------
(* Stand-ins: replace, and what expire makes of its answer.  The player may *)
(* come back to the seat, or leave it, at every one of these waits.         *)

Onward(s, label) == takeovers' = (takeovers \ {s}) \cup {[s EXCEPT !.at = label]}

\* The row as it is read: a decided match and one that has a forfeit get none.
TakeoverLook(s) ==
  /\ s.at = "look"
  /\ \/ AllowBots /\ match[s.p].forfeit = NoOne /\ ~Decided(s.p) /\ Onward(s, "claim")
     \/ /\ StoreFails \/ ~AllowBots \/ match[s.p].forfeit # NoOne \/ Decided(s.p)
        /\ Onward(s, "remove")
  /\ UNCHANGED <<tourVars, reg, match, tick, roomVars, calls, crashes>>

\* Mutant: the forfeit is written whoever has it already.
TakeoverClaim_Regardless(s) ==
  /\ s.at = "claim"
  /\ match' = [match EXCEPT ![s.p].forfeit = s.e] /\ Onward(s, "seat")
  /\ UNCHANGED <<tourVars, reg, tick, roomVars, calls, crashes>>

\* The forfeit, while there is none and the match is undecided.
TakeoverClaim(s) ==
  /\ s.at = "claim"
  /\ \/ /\ match[s.p].forfeit = NoOne /\ ~Decided(s.p)
        /\ match' = [match EXCEPT ![s.p].forfeit = s.e] /\ Onward(s, "seat")
     \/ /\ StoreFails \/ match[s.p].forfeit # NoOne \/ Decided(s.p)
        /\ UNCHANGED match /\ Onward(s, "remove")
  /\ UNCHANGED <<tourVars, reg, tick, roomVars, calls, crashes>>

\* seatBot overwrites the seat, and whoever has come back to it.
TakeoverSeat(s) ==
  LET rm == room[s.p]
  IN /\ s.at = "seat" /\ Onward(s, "eliminate")
     /\ room' = [room EXCEPT ![s.p] =
          [rm EXCEPT !.seats = @ \cup {s.e}, !.robots = @ \cup {s.e}, !.live = @ \ {s.e},
                     !.lost = @ \ {s.e}, !.vacant = FALSE,
                     !.stray = @ \cup ({s.e} \cap rm.live)]]
     /\ UNCHANGED <<tourVars, reg, match, tick, hook, calls, crashes>>

\* The registration is out, and the broadcast asks whether everybody is here.
\* When this write fails the seat is given up, bot and all.
TakeoverEliminate(s) ==
  /\ s.at = "eliminate"
  /\ \/ /\ reg' = IF Playing(s.e) THEN [reg EXCEPT ![s.e].status = "eliminated"] ELSE reg
        /\ hook' = IF EverybodyHere(s.p, room[s.p]) /\ hook[s.p].at = "none"
                     THEN [hook EXCEPT ![s.p].at = "claim"] ELSE hook
        /\ takeovers' = takeovers \ {s}
     \/ StoreFails /\ UNCHANGED <<reg, hook>> /\ Onward(s, "remove")
  /\ UNCHANGED <<tourVars, match, room, tick, calls, crashes>>

\* No stand-in: the seat is emptied, even if the player sits in it again.
TakeoverRemove(s) ==
  /\ s.at = "remove" /\ takeovers' = takeovers \ {s}
  /\ room' = [room EXCEPT ![s.p] = Vacated(@, s.e)]
  /\ UNCHANGED <<tourVars, reg, match, tick, hook, calls, crashes>>

-----------------------------------------------------------------------------
(* The hooks of the engine. *)

Hook(p, label) == hook[p].at = label /\ ~Waiting(HookOf(p))

\* start: the row is claimed, then the engine is asked.
StartClaim(p) ==
  /\ Hook(p, "claim")
  /\ IF match[p].status = "ready"
       THEN /\ match' = [match EXCEPT ![p].status = "running"]
            /\ hook' = [hook EXCEPT ![p].at = "engine"]
       ELSE hook' = [hook EXCEPT ![p] = Quiet] /\ UNCHANGED match
  /\ UNCHANGED <<tourVars, reg, tick, room, calls, takeovers, crashes>>

\* startGame throws outside the lobby and the final scoreboard, and below two
\* players; its first write may fail when the phase has already moved.  A closed
\* room books no timer, so its game never begins to run.
StartGame(p) ==
  LET rm == room[p]
      able == rm.phase \in {"lobby", "ended"} /\ Cardinality(Active(rm)) >= 2
  IN /\ Hook(p, "engine")
     /\ \/ /\ ~able
           /\ hook' = [hook EXCEPT ![p].at = "revert"] /\ UNCHANGED room
        \/ /\ able /\ StoreFails
           /\ hook' = [hook EXCEPT ![p].at = "revert"]
           /\ room' = [room EXCEPT ![p] = [rm EXCEPT !.phase = "starting"]]
        \/ /\ able
           /\ hook' = [hook EXCEPT ![p] = Quiet]
           /\ room' = [room EXCEPT ![p] =
                [rm EXCEPT !.game = TRUE, !.phase = IF rm.closed THEN "starting" ELSE "playing"]]
     /\ UNCHANGED <<tourVars, reg, match, tick, calls, takeovers, crashes>>

\* Mutant: the row is put back whatever has become of it.
Revert_Regardless(p) ==
  /\ Hook(p, "revert")
  /\ match' = [match EXCEPT ![p].status = "ready"]
  /\ hook' = [hook EXCEPT ![p] = Quiet]
  /\ UNCHANGED <<tourVars, reg, tick, room, calls, takeovers, crashes>>

Revert(p) ==
  /\ Hook(p, "revert")
  /\ match' = IF match[p].status = "running" THEN [match EXCEPT ![p].status = "ready"] ELSE match
  /\ hook' = [hook EXCEPT ![p] = Quiet]
  /\ UNCHANGED <<tourVars, reg, tick, room, calls, takeovers, crashes>>

\* endGame fires onMatchGameEnded, whose first read is the forfeit.
GameEnds(p) ==
  /\ room[p].phase = "playing" /\ room[p].bound /\ ~room[p].closed /\ Hook(p, "none")
  /\ room' = [room EXCEPT ![p].phase = "ended"]
  /\ hook' = [hook EXCEPT ![p].at = "result",
                          ![p].w = IF match[p].forfeit = NoOne THEN NoOne
                                   ELSE Other(p, match[p].forfeit)]
  /\ UNCHANGED <<tourVars, reg, match, tick, calls, takeovers, crashes>>

\* Without a forfeit the standings decide, and they may put either seat first.
Report(p) ==
  /\ Hook(p, "result")
  /\ \E w \in Paired(p) :
       /\ hook[p].w \in {NoOne, w}
       /\ calls' = calls \cup {Call(HookOf(p), p, w, Other(p, w), "played")}
  /\ hook' = [hook EXCEPT ![p].at = "reported"]
  /\ UNCHANGED <<tourVars, reg, match, tick, room, takeovers, crashes>>

CloseReported(p) ==
  /\ Hook(p, "reported")
  /\ room' = [room EXCEPT ![p] = Shut(@)]
  /\ hook' = [hook EXCEPT ![p] = Quiet]
  /\ UNCHANGED <<tourVars, reg, match, tick, calls, takeovers, crashes>>

-----------------------------------------------------------------------------
(* Failure. *)

\* The process dies.  A room comes back from the store as an ordinary lobby:
\* no binding, no bots, every seat without a socket.
Crash ==
  /\ crashes < MaxCrashes /\ crashes' = crashes + 1
  /\ tick' = [t \in Ticks |-> Idle]
  /\ hook' = [p \in Pos |-> Quiet]
  /\ calls' = {} /\ takeovers' = {}
  /\ room' = [p \in Pos |->
       IF room[p].phase = "none" \/ room[p].closed THEN room[p]
       ELSE [NoRoom EXCEPT !.phase = "lobby", !.seats = room[p].seats,
                           !.lost = room[p].seats, !.vacant = TRUE]]
  /\ UNCHANGED <<tourVars, reg, match>>

-----------------------------------------------------------------------------
Init ==
  /\ tstat = "sealed" /\ cur = 0 /\ champion = NoOne
  /\ reg = [e \in Entrants |-> [status |-> "checkedIn", seeded |-> FALSE]]
  /\ match = [p \in Pos |-> Absent]
  /\ room = [p \in Pos |-> NoRoom]
  /\ tick = [t \in Ticks |-> Idle]
  /\ hook = [p \in Pos |-> Quiet]
  /\ calls = {} /\ takeovers = {} /\ crashes = 0

Draw(t) == SeedStart(t) \/ ReadField(t) \/ WriteSeeds(t) \/ WriteMatches(t) \/ ResolveByes(t)
           \/ StartRunning(t) \/ Cancel(t) \/ Release(t)
Open(t) == LoadOpenable(t) \/ ClaimOpen(t) \/ OpenRoom(t) \/ OpenDone(t)
Progress(t) == StartProgress(t) \/ ReadRound(t) \/ CountRound(t) \/ MoveRound(t)
               \/ LoadGaps(t) \/ Gap(t) \/ GapsDone(t)
               \/ Crown(t) \/ Finish(t)
Sweep(t) == (\E S \in SUBSET Booked : StartSweep(t, S)) \/ DecideLapsed(t) \/ Walkover(t)
            \/ Abandon(t) \/ Dismiss(t) \/ SweepDone(t)
Takeover == \E s \in takeovers : \/ TakeoverLook(s) \/ TakeoverClaim(s) \/ TakeoverSeat(s)
                                \/ TakeoverEliminate(s) \/ TakeoverRemove(s)
Complete == \E c \in calls : CompleteClaim(c) \/ CompleteEliminate(c) \/ CompleteAdvance(c)
Engine(p) == StartClaim(p) \/ StartGame(p) \/ Revert(p) \/ GameEnds(p) \/ Report(p)
             \/ CloseReported(p)
Seats(p) == SweepRoom(p) \/ \E e \in Humans : Enter(p, e) \/ Drop(p, e) \/ Leave(p, e) \/ Expire(p, e)

Next ==
  \/ \E t \in Ticks : Draw(t) \/ Open(t) \/ Progress(t) \/ Sweep(t)
  \/ Complete \/ Takeover
  \/ \E p \in Pos : Engine(p) \/ Seats(p)
  \/ Crash

Spec == Init /\ [][Next]_vars

(***************************************************************************)
(* The scheduler ticks for ever and a tick goes on to its end; a write     *)
(* that was begun is answered.  A deadline that has been booked passes.  A *)
(* game whose players stay is brought to its end by the timers of its      *)
(* turns.  Nothing is assumed of the players: they may never come.         *)
(***************************************************************************)
TickSteps(t) == Draw(t) \/ Open(t) \/ Progress(t) \/ DecideLapsed(t) \/ Walkover(t)
                \/ Abandon(t) \/ Dismiss(t) \/ SweepDone(t)
FairSpec ==
  /\ Spec
  /\ \A t \in Ticks : WF_vars(TickSteps(t))
  /\ SF_vars(\E t \in Ticks : StartSweep(t, Booked))
  /\ WF_vars(Complete) /\ WF_vars(Takeover)
  /\ WF_vars(\E p \in Pos : StartClaim(p) \/ StartGame(p) \/ Revert(p))
  /\ WF_vars(\E p \in Pos : GameEnds(p) \/ Report(p) \/ CloseReported(p))

-----------------------------------------------------------------------------
(* Properties. *)

Labels == {"idle", "field", "cancel", "seeds", "matches", "byes", "run", "release", "load",
           "opening", "room", "progress", "count", "move", "gaps", "gap", "crown",
           "finish", "sweep", "walkover", "abandon", "dismiss"}
MaybeOne == Entrants \cup {NoOne}

\* Every variable has its type.
TypeOK ==
  /\ tstat \in {"sealed", "running", "completed", "cancelled"}
  /\ cur \in 0..Rounds /\ champion \in MaybeOne
  /\ reg \in [Entrants -> [status : {"checkedIn", "active", "eliminated", "winner"},
                           seeded : BOOLEAN]]
  /\ match \in [Pos -> [status : {"absent", "pending", "ready", "running", "completed", "cancelled"},
                        winner : MaybeOne,
                        outcome : {"none", "bye", "played", "walkover"},
                        booked : BOOLEAN, forfeit : MaybeOne,
                        slot : [Sides -> MaybeOne]]]
  /\ room \in [Pos -> [phase : {"none", "lobby", "starting", "playing", "paused", "ended"},
                       closed : BOOLEAN, bound : BOOLEAN, game : BOOLEAN,
                       seats : SUBSET Entrants, live : SUBSET Entrants,
                       robots : SUBSET Entrants, grace : SUBSET Entrants,
                       lost : SUBSET Entrants, stray : SUBSET Entrants, vacant : BOOLEAN]]
  /\ tick \in [Ticks -> [at : Labels, r : 0..Rounds, todo : SUBSET Pos,
                         p : Pos \cup {<<0, 0>>}, w : MaybeOne]]
  /\ hook \in [Pos -> [at : {"none", "claim", "engine", "revert", "result", "reported"},
                       w : MaybeOne]]
  /\ takeovers \subseteq [p : Pos, e : Humans,
                           at : {"look", "claim", "seat", "eliminate", "remove"}]
  /\ crashes \in 0..MaxCrashes

\* A pass that comes late, and still judges by what it read, takes no step
\* the path does not have: nothing revives or calls off a finished tournament.
FollowsPath == Path!Steps

\* A result is written once: two ticks, the engine and a sweep may all be at
\* the same match, and the row never changes its winner afterwards.
DecidedOnce ==
  [][\A p \in Pos : match[p].status = "completed" =>
       match'[p].status = "completed" /\ match'[p].winner = match[p].winner]_vars

\* Who climbs the bracket has won there: a match is won by one of its two seats,
\* whichever path decided it, and a slot of a later round holds the winner of
\* the match that feeds it.
SlotsAreWon ==
  \A p \in Pos :
    /\ match[p].status = "completed" => match[p].winner \in Paired(p)
    /\ HasNext(p) => LET x == match[NextPos(p)].slot[NextSide(p)]
                     IN x # NoOne => match[p].status = "completed" /\ match[p].winner = x

\* The round marker never passes a match that is still undecided, although
\* the tick that moves it counted some segments earlier.
RoundsInOrder ==
  \A p \in Pos : RoundOf(p) < cur => Decided(p)

\* Only a won final makes a champion, and only that player is crowned: no
\* second tick, late report or cancellation crowns somebody else.
OneChampion ==
  /\ tstat = "completed" => Decided(Final)
  /\ champion # NoOne => match[Final].status = "completed" /\ match[Final].winner = champion
  /\ \A e, f \in Entrants : reg[e].status = "winner" /\ reg[f].status = "winner" => e = f

\* Round after round up to one champion, whoever else moves or decides meanwhile.
CrownedInOrder == RoundsInOrder /\ OneChampion

\* One seat of a match at most is played by a stand-in, and it is the seat the
\* row has down as forfeited: not two, when both players' timers ran out
\* together or one of them came back to the seat and lost it again.
OneStandIn ==
  \A p \in Pos : room[p].robots \cap Humans \subseteq {match[p].forfeit}

\* Refuted, and in no run: a stand-in plays for the scoreboard and never for the
\* bracket (standIn.service.ts).  The report reads the forfeit before it is written.
StandInNeverAdvances ==
  \A p \in Pos : match[p].outcome = "played" /\ match[p].forfeit # NoOne
                   => match[p].winner # match[p].forfeit

\* Refuted with a failing store, and in no run: a room that is past its lobby
\* belongs to a match the bracket knows to be running (start).
GamesAreClaimed ==
  \A p \in Pos : room[p].phase \in {"starting", "playing", "paused"} /\ ~room[p].closed
                   => match[p].status \in {"running", "completed"}

\* bracket.service.ts: a player with a bye appears in round two.
ByesAppear ==
  \A p \in Pos : cur > 1 /\ RoundOf(p) = 1 /\ match[p].outcome = "bye" =>
    match[NextPos(p)].slot[NextSide(p)] = match[p].winner

\* match.service.ts: the sweep starts a match again or decides it.  A match
\* whose deadline has been booked is decided in the end, whoever comes or stays
\* away.  Refuted as soon as somebody leaves or drops, the store fails or the
\* process dies: a match may then go from ready to running and back for ever, or
\* stay running.
LapsedIsDecided ==
  \A p \in Pos : match[p].status = "ready" /\ match[p].booked ~> Decided(p)
=============================================================================
