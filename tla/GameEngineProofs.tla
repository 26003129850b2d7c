-------------------------- MODULE GameEngineProofs --------------------------
(***************************************************************************)
(* Proofs about GameEngine, for any number of users and rounds and under   *)
(* each of the three latencies.                                            *)
(*                                                                         *)
(*   TypeCorrect          Spec => []TypeOK                                 *)
(*   TurnOrderIsSeated    Spec => []TurnOrderSeated                        *)
(*   ClosedStaysSilent    Spec => []ClosedIsSilent                         *)
(*   RoomHasHost          Spec => []HostIsSeated   (no account deleted)    *)
(*   NoPhaseStranded      Spec => []NeverStranded                          *)
(*   EngineKeepsTurns     Spec => KeepsTurns                               *)
(*                                                                         *)
(* Most of them need more than the property itself.  RoomHasHost rests on  *)
(* SeatsAgree: the successor is the first of the remaining seats, and that *)
(* it is connected to the room is a fact about both lists.                 *)
(* NoPhaseStranded rests on RoundBehindPhase: a timer that fires and finds *)
(* no live round does nothing, so a phase that waits for it would be       *)
(* stranded.  EngineKeepsTurns rests, for its Prompt, on Calm: which       *)
(* timers, handlers and rounds go with a phase when handlers run to        *)
(* completion.                                                             *)
(*                                                                         *)
(* Three lemmas say what the engine would keep if they always did, and if  *)
(* no seat were taken without a word to it.  The code promises neither, so *)
(* they are no results about it; they tell where its properties stop:      *)
(*                                                                         *)
(*   MatchesAreLifecycles MatchFollowsLifecycle  (Undisturbed)             *)
(*   PausesAreTimely      PausesInTime           (Undisturbed, OnlyJoins)  *)
(*   TurnsAreInOrder      TurnInOrder            (Undisturbed, OnlyJoins)  *)
(*                                                                         *)
(* The last two add Attended, which says what a departure under way has    *)
(* still to settle.                                                        *)
(***************************************************************************)
EXTENDS GameEngine, FiniteSetTheorems, TLAPS

\* Filtering a user out of a list of seats or turns leaves such a list.
LEMMA WithoutType ==
  ASSUME NEW S, NEW s \in Seq(S), NEW u
  PROVE  Without(s, u) \in Seq(S)
<1>1. CASE u \notin Range(s)
  BY <1>1 DEF Without
<1>2. CASE u \in Range(s)
  <2> DEFINE k == CHOOSE i \in DOMAIN s : s[i] = u
  <2>1. k \in 1 .. Len(s)
    BY <1>2 DEF Range
  <2>2. Len(s) \in Nat \ {0} /\ Len(s) - 1 \in Nat
    BY <2>1
  <2>3. \A i \in 1 .. (Len(s) - 1) : s[IF i < k THEN i ELSE i + 1] \in S
    BY <2>1, <2>2
  <2>4. Without(s, u) = [i \in 1 .. (Len(s) - 1) |-> s[IF i < k THEN i ELSE i + 1]]
    BY <1>2 DEF Without
  <2> QED
    BY <2>2, <2>3, <2>4
<1> QED
  BY <1>1, <1>2

\* Filtering a user out of a list without repetitions removes that user and
\* nobody else, and introduces no repetition (turnOrder.filter, players.delete).
LEMMA WithoutDistinct ==
  ASSUME NEW S, NEW s \in Seq(S), NEW u, IsInjective(s)
  PROVE  /\ IsInjective(Without(s, u))
         /\ Range(Without(s, u)) = Range(s) \ {u}
<1>1. CASE u \notin Range(s)
  BY <1>1 DEF Without
<1>2. CASE u \in Range(s)
  <2> DEFINE k == CHOOSE i \in DOMAIN s : s[i] = u
             w == Without(s, u)
             at(i) == IF i < k THEN i ELSE i + 1
  <2>1. k \in 1 .. Len(s) /\ s[k] = u
    BY <1>2 DEF Range
  <2>2. Len(s) \in Nat \ {0} /\ Len(s) - 1 \in Nat
    BY <2>1
  <2>3. DOMAIN w = 1 .. (Len(s) - 1) /\ \A i \in 1 .. (Len(s) - 1) : w[i] = s[at(i)]
    BY <1>2 DEF Without
  <2> HIDE DEF k, w
  <2>4. \A i \in 1 .. (Len(s) - 1) : at(i) \in DOMAIN s /\ at(i) # k
    BY <2>1, <2>2
  <2>5. \A i, j \in 1 .. (Len(s) - 1) : at(i) = at(j) => i = j
    BY <2>1, <2>2
  <2>6. \A m \in DOMAIN s : m # k => \E i \in 1 .. (Len(s) - 1) : at(i) = m
    <3> TAKE m \in DOMAIN s
    <3> HAVE m # k
    <3>1. CASE m < k
      <4>1. m \in 1 .. (Len(s) - 1) /\ at(m) = m
        BY <2>1, <2>2, <3>1
      <4> QED
        BY <4>1
    <3>2. CASE m > k
      <4>1. m - 1 \in 1 .. (Len(s) - 1) /\ at(m - 1) = m
        BY <2>1, <2>2, <3>2
      <4> QED
        BY <4>1
    <3> QED
      BY <2>1, <3>1, <3>2
  <2> HIDE DEF at
  <2>7. IsInjective(w)
    BY <2>3, <2>4, <2>5 DEF IsInjective
  <2>8. Range(w) \subseteq Range(s) \ {u}
    BY <2>1, <2>3, <2>4 DEF Range, IsInjective
  <2>9. Range(s) \ {u} \subseteq Range(w)
    BY <2>1, <2>3, <2>6 DEF Range
  <2> QED
    BY <2>7, <2>8, <2>9 DEF w
<1> QED
  BY <1>1, <1>2

\* A shuffle of a set lists members of the set, each once.
LEMMA ShuffleProperties ==
  ASSUME NEW S, IsFiniteSet(S), NEW o \in Shuffles(S)
  PROVE  o \in Seq(S) /\ IsInjective(o) /\ Range(o) \subseteq S
<1>1. Cardinality(S) \in Nat
  BY FS_CardinalityType
<1> QED
  BY <1>1 DEF Shuffles, Range

\* TypeOK without the seats and the connections.
MatchType ==
  /\ phase \in Phases
  /\ order \in Seq(Users)
  /\ idx \in Nat /\ curRound \in 0 .. Rounds
  /\ round \in Round
  /\ guessed \subseteq Users /\ game \in BOOLEAN
  /\ timers \subseteq Timers
  /\ heldFor \in Users \cup {Nobody}
  /\ grace \subseteq Users
  /\ tasks \subseteq Task
  /\ owed \subseteq Users /\ results \in 0 .. 2

\* A room just created and a room rebuilt from the store are both well typed.
LEMMA TypeInit == Init => TypeOK
<1> USE UsersAssumption, RoundsAssumption, RestoredAssumption
<1>1. ASSUME InitMatch, tasks \subseteq Task PROVE MatchType
  <2>1. order \in Seq(Users) /\ round \in Round /\ curRound \in 0 .. Rounds
    BY <1>1 DEF InitMatch, NoRound, Round
  <2>2. phase \in Phases
    BY <1>1 DEF InitMatch, Phases
  <2>3. guessed \subseteq Users /\ game \in BOOLEAN
    BY <1>1 DEF InitMatch
  <2>4. timers \subseteq Timers /\ grace \subseteq Users /\ owed \subseteq Users
    BY <1>1 DEF InitMatch
  <2>5. idx \in Nat /\ heldFor \in Users \cup {Nobody} /\ results \in 0 .. 2
    BY <1>1 DEF InitMatch
  <2> QED
    BY <1>1, <2>1, <2>2, <2>3, <2>4, <2>5 DEF MatchType
<1>2. ASSUME InitMatch, InitCreated PROVE TypeOK
  <2>1. PICK u \in Users :
          /\ seats = <<u>> /\ host = u /\ empty = FALSE
          /\ conn = [v \in Users |-> IF v = u THEN "seated" ELSE "absent"]
          /\ tasks = {Do("enter", u)}
    BY <1>2 DEF InitCreated
  <2>2. tasks \subseteq Task
    BY <2>1 DEF Do, Task, Steps
  <2>3. conn \in [Users -> Connections]
    BY <2>1 DEF Connections
  <2>4. seats \in Seq(Users) /\ closed = FALSE
    BY <1>2, <2>1 DEF InitMatch
  <2> QED
    BY <1>1, <1>2, <2>1, <2>2, <2>3, <2>4 DEF TypeOK, MatchType
<1>3. ASSUME InitMatch, InitHydrated PROVE TypeOK
  <2>1. seats \in Seq(Restored)
    BY <1>3, FS_Subset, ShuffleProperties DEF InitHydrated
  <2>2. seats \in Seq(Users)
    BY <2>1
  <2>3. conn \in [Users -> Connections]
    BY <1>3 DEF InitHydrated, Connections
  <2>4. tasks \subseteq Task
    BY <1>3 DEF InitHydrated
  <2> QED
    BY <1>1, <1>3, <2>2, <2>3, <2>4 DEF InitMatch, InitHydrated, TypeOK, MatchType
<1> QED
  BY <1>2, <1>3 DEF Init

\* pauseForMissingPlayers keeps the types.
LEMMA PauseType ==
  ASSUME TypeOK, NEW tm, tm \subseteq Timers, NEW ts, ts \subseteq Task, Pause(tm, ts)
  PROVE  MatchType'
<1>1. round' \in Round /\ phase' \in Phases
  BY DEF Pause, NoRound, Round, Phases
<1> QED
  BY <1>1 DEF TypeOK, MatchType, Pause, CancelTurnTimers, histVars

\* A handler that only touches timers and tasks keeps the types.
LEMMA NothingType ==
  ASSUME TypeOK, NEW tm, tm \subseteq Timers, NEW ts, ts \subseteq Task, Nothing(tm, ts)
  PROVE  MatchType'
BY DEF TypeOK, MatchType, Nothing, matchVars, histVars

\* endTurn keeps the types.
LEMMA EndTurnType ==
  ASSUME TypeOK, NEW tm, tm \subseteq Timers, NEW ts, ts \subseteq Task, EndTurn(tm, ts)
  PROVE  MatchType'
<1>1. CASE LiveRound /\ ~closed /\ phase # "paused"
  <2>1. round' \in Round
    BY <1>1 DEF EndTurn, TypeOK, Round
  <2>2. tasks' \subseteq Task
    BY <1>1 DEF EndTurn, Task, Do, Steps
  <2> QED
    BY <1>1, <2>1, <2>2 DEF EndTurn, TypeOK, MatchType, CancelTurnTimers, Phases
<1>2. CASE ~(LiveRound /\ ~closed /\ phase # "paused")
  BY <1>2, NothingType DEF EndTurn
<1> QED
  BY <1>1, <1>2

\* endGame keeps the types.
LEMMA EndGameType ==
  ASSUME TypeOK, NEW i \in Nat, NEW r \in 0 .. Rounds, NEW ts, ts \subseteq Task,
         EndGame(i, r, ts)
  PROVE  MatchType'
<1>1. tasks' \subseteq Task
  BY DEF EndGame, Task, Do, Steps
<1> QED
  BY <1>1 DEF EndGame, TypeOK, MatchType, NoRound, Round, Phases

\* beginTurn, once it has found a drawer, keeps the types: the drawer is a user.
LEMMA DealType ==
  ASSUME TypeOK, NEW i \in Nat, NEW r \in 0 .. Rounds,
         NEW tm, tm \subseteq Timers, NEW ts, ts \subseteq Task, DealFrom(i, r, tm, ts)
  PROVE  MatchType'
<1>1. PICK k \in StillSeated(i) : Deal(k, r, tm, ts)
  BY DEF DealFrom
<1>2. k \in DOMAIN order /\ k - 1 \in Nat
  BY DEF StillSeated, TypeOK
<1>3. order[k] \in Users
  BY <1>2 DEF TypeOK
<1>4. tasks' \subseteq Task
  BY <1>1, <1>3 DEF Deal, Task, Do, Steps
<1>5. owed' \subseteq Users
  BY <1>1 DEF Deal, TypeOK, Range
<1> QED
  BY <1>1, <1>2, <1>4, <1>5 DEF Deal, TypeOK, MatchType, Phases

\* beginTurn keeps the types: it never counts a round past the last.
LEMMA BeginTurnType ==
  ASSUME TypeOK, NEW i \in Nat, NEW r \in 0 .. Rounds,
         NEW tm, tm \subseteq Timers, NEW ts, ts \subseteq Task, BeginTurn(i, r, tm, ts)
  PROVE  MatchType'
<1> USE RoundsAssumption
<1>1. CASE Pause(tm, ts)
  BY <1>1, PauseType
<1>2. CASE Nothing(tm, ts)
  BY <1>2, NothingType
<1>3. CASE DealFrom(i, r, tm, ts)
  BY <1>3, DealType
<1>4. CASE AnotherRound(r) /\ DealFrom(0, r + 1, tm, ts)
  <2>1. r + 1 \in 0 .. Rounds
    BY <1>4 DEF AnotherRound
  <2> QED
    BY <1>4, <2>1, DealType
<1>5. CASE EndGame(IF AnotherRound(r) \/ i < Len(order) THEN Len(order) ELSE i,
                   IF AnotherRound(r) THEN Rounds ELSE r, ts)
  <2> DEFINE j == IF AnotherRound(r) \/ i < Len(order) THEN Len(order) ELSE i
             q == IF AnotherRound(r) THEN Rounds ELSE r
  <2>1. j \in Nat /\ q \in 0 .. Rounds
    BY DEF TypeOK
  <2> QED
    BY <1>5, <2>1, EndGameType
<1> QED
  BY <1>1, <1>2, <1>3, <1>4, <1>5 DEF BeginTurn

\* What a handler leaves to be resumed is a task.
LEMMA TaskType ==
  ASSUME NEW step \in Steps, NEW u \in Users \cup {Nobody}
  PROVE  Do(step, u) \in Task
BY DEF Do, Task

\* A step that leaves the seats alone keeps TypeOK if it keeps MatchType.
LEMMA MatchOnly == TypeOK /\ UNCHANGED roomVars /\ MatchType' => TypeOK'
BY DEF TypeOK, MatchType, roomVars

\* applyWordSelection keeps the types.
LEMMA ApplyWordType ==
  ASSUME TypeOK, NEW tm, tm \subseteq Timers, ApplyWord(tm)
  PROVE  MatchType'
<1>1. CASE LiveRound /\ phase = "wordSelection"
  <2>1. round' \in Round
    BY <1>1 DEF ApplyWord, TypeOK, Round
  <2>2. tasks' \subseteq Task
    BY <1>1, TaskType DEF ApplyWord, TypeOK, Steps
  <2> QED
    BY <1>1, <2>1, <2>2 DEF ApplyWord, TypeOK, MatchType, Phases, histVars
<1>2. CASE ~(LiveRound /\ phase = "wordSelection")
  <2>1. Nothing(tm, tasks)
    BY <1>2 DEF ApplyWord
  <2> QED
    BY <2>1, NothingType DEF TypeOK
<1> QED
  BY <1>1, <1>2

\* resumeIfPossible keeps the types: the late arrivals it adds are users.
LEMMA ResumeType ==
  ASSUME TypeOK, NEW c, NEW ts, ts \subseteq Task, Resume(c, ts)
  PROVE  /\ phase' \in Phases /\ order' \in Seq(Users) /\ idx' \in Nat
         /\ owed' \subseteq Users /\ tasks' \subseteq Task
<1>1. CASE ~closed /\ phase = "paused" /\ HasEnough(c)
  <2>1. PICK late \in Shuffles(Seated \ Range(order)) :
          /\ order' = order \o late
          /\ idx' = IF idx > Len(order \o late) THEN Len(order \o late) ELSE idx
          /\ owed' = owed \cup Range(late)
          /\ phase' = "starting"
          /\ tasks' = ts \cup {Do("countdown", Nobody)}
    BY <1>1 DEF Resume
  <2>2. Seated \ Range(order) \subseteq Users
    BY DEF Seated
  <2>3. late \in Seq(Users) /\ Range(late) \subseteq Users
    BY <2>2, UsersAssumption, FS_Subset, ShuffleProperties DEF Range
  <2>4. order \o late \in Seq(Users)
    BY <2>3 DEF TypeOK
  <2> QED
    BY <2>1, <2>3, <2>4, TaskType DEF TypeOK, Phases, Steps
<1>2. CASE ~(~closed /\ phase = "paused" /\ HasEnough(c))
  BY <1>2 DEF Resume, TypeOK
<1> QED
  BY <1>1, <1>2

\* attach followed by resumeIfPossible keeps the types.
LEMMA AttachType ==
  ASSUME TypeOK, NEW u \in Users, NEW ts, ts \subseteq Task, AttachAndResume(u, ts)
  PROVE  TypeOK'
<1>1. /\ phase' \in Phases /\ order' \in Seq(Users) /\ idx' \in Nat
      /\ owed' \subseteq Users /\ tasks' \subseteq Task
  BY ResumeType DEF AttachAndResume
<1>2. conn' \in [Users -> Connections]
  BY DEF AttachAndResume, TypeOK, Connections
<1> QED
  BY <1>1, <1>2 DEF AttachAndResume, TypeOK

\* removePlayer keeps the types: the successor of the host is a user.
LEMMA RemovalType ==
  ASSUME TypeOK, NEW u \in Users, RemovePlayer(u),
         tasks' \subseteq tasks \cup {Do("removed", u), Do("emptied", u)},
         timers' = timers, grace' \subseteq grace
  PROVE  TypeOK'
<1>1. Without(seats, u) \in Seq(Users) /\ Without(order, u) \in Seq(Users)
  BY WithoutType DEF TypeOK
<1>2. host' \in Users
  BY <1>1 DEF RemovePlayer, HostAfter, TypeOK
<1>3. conn' \in [Users -> Connections]
  BY DEF RemovePlayer, TypeOK, Connections
<1>4. tasks' \subseteq Task
  BY TaskType DEF TypeOK, Steps
<1> QED
  BY <1>1, <1>2, <1>3, <1>4 DEF RemovePlayer, OrderAfter, TypeOK

\* startGame keeps the types.
LEMMA StartType ==
  ASSUME TypeOK, NEW ts, ts \subseteq Task, StartMatch(ts)
  PROVE  MatchType'
<1>1. ActivePlayers(conn) \subseteq Users
  BY DEF ActivePlayers
<1>2. order' \in Seq(Users)
  BY <1>1, UsersAssumption, FS_Subset, ShuffleProperties DEF StartMatch
<1>3. tasks' \subseteq Task
  BY TaskType DEF StartMatch, Steps
<1> QED
  BY <1>1, <1>2, <1>3, RoundsAssumption DEF StartMatch, TypeOK, MatchType, Phases

\* returnToLobby keeps the types.
LEMMA LobbyType ==
  ASSUME TypeOK, NEW tm, tm \subseteq Timers, NEW ts, ts \subseteq Task,
         ResetToLobby(tm, ts)
  PROVE  MatchType'
<1>1. round' \in Round
  BY DEF ResetToLobby, NoRound, Round
<1>2. phase' \in Phases
  BY DEF ResetToLobby, Phases
<1>3. order' \in Seq(Users) /\ idx' \in Nat /\ curRound' \in 0 .. Rounds
  BY RoundsAssumption DEF ResetToLobby
<1>4. guessed' \subseteq Users /\ game' \in BOOLEAN
  BY DEF ResetToLobby
<1>5. /\ timers' \subseteq Timers /\ tasks' \subseteq Task
      /\ heldFor' \in Users \cup {Nobody} /\ grace' \subseteq Users
      /\ owed' \subseteq Users /\ results' \in 0 .. 2
  BY DEF ResetToLobby, TypeOK, histVars
<1> QED
  BY <1>1, <1>2, <1>3, <1>4, <1>5 DEF MatchType

\* close keeps the types.
LEMMA CloseType ==
  ASSUME TypeOK, NEW ts, ts \subseteq Task, Close(ts)
  PROVE  TypeOK'
BY DEF Close, TypeOK, matchVars, histVars

\* timerService.schedule books timers under known names only.
LEMMA BookType ==
  ASSUME TypeOK, NEW name \in Timers
  PROVE  Book(timers, name) \subseteq Timers
BY DEF Book, TypeOK

\* Every request of a client keeps TypeOK.
LEMMA TypeClient == ASSUME TypeOK, NEW u \in Users, Client(u) PROVE TypeOK'
<1> USE DEF ClientsRun
<1>1. CASE Join(u)
  <2>1. Append(seats, u) \in Seq(Users)
    BY DEF TypeOK
  <2>2. tasks' \subseteq Task
    BY <1>1, TaskType DEF Join, TypeOK, Steps
  <2> QED
    BY <1>1, <2>1, <2>2 DEF Join, TypeOK, Connections, matchVars, histVars
<1>2. CASE Rejoin(u)
  <2>1. tasks' \subseteq Task
    BY <1>2, TaskType DEF Rejoin, TypeOK, Steps
  <2> QED
    BY <1>2, <2>1 DEF Rejoin, TypeOK, Connections, matchVars, histVars
<1>3. CASE Reconnect(u)
  BY <1>3, AttachType DEF Reconnect, TypeOK
<1>4. CASE Disconnect(u)
  BY <1>4 DEF Disconnect, TypeOK, Connections, matchVars, histVars
<1>5. CASE Leave(u) \/ Vacate(u) \/ Evict(u)
  BY <1>5, RemovalType DEF Leave, RemovalTask, Vacate, Evict
<1>6. CASE EndRoom(u)
  BY <1>6, CloseType DEF EndRoom, TypeOK
<1>7. CASE \E v \in Users : TransferHost(u, v)
  BY <1>7 DEF TransferHost, TypeOK, matchVars, asyncVars, histVars
<1>8. CASE StartGame(u)
  BY <1>8, StartType, MatchOnly DEF StartGame, TypeOK
<1>9. CASE PlayAgain(u)
  <2>1. tasks \cup {Do("replay", u)} \subseteq Task
    BY TaskType DEF TypeOK, Steps
  <2> QED
    BY <1>9, <2>1, LobbyType, MatchOnly DEF PlayAgain, TypeOK
<1>10. CASE SelectWord(u)
  BY <1>10, ApplyWordType, MatchOnly DEF SelectWord, TypeOK
<1>11. CASE Guess(u)
  <2>1. round.drawer \in Users \cup {Nobody} /\ round.correct \in Seq(Users)
    BY DEF TypeOK, Round
  <2>2. tasks' \subseteq Task
    BY <1>11, <2>1, TaskType DEF Guess, TypeOK, Steps
  <2>3. round' \in Round
    <3>1. round' = [round EXCEPT !.correct = Append(round.correct, u)]
      BY <1>11 DEF Guess
    <3>2. Append(round.correct, u) \in Seq(Users)
      BY <2>1
    <3> QED
      BY <3>1, <3>2 DEF TypeOK, Round
  <2>4. MatchType'
    BY <1>11, <2>2, <2>3 DEF Guess, TypeOK, MatchType, histVars
  <2> QED
    BY <1>11, <2>4, MatchOnly DEF Guess
<1>12. CASE RestJoin(u)
  <2>1. Append(seats, u) \in Seq(Users)
    BY DEF TypeOK
  <2> QED
    BY <1>12, <2>1 DEF RestJoin, TypeOK, Connections, matchVars, asyncVars, histVars
<1> QED
  BY <1>1, <1>2, <1>3, <1>4, <1>5, <1>6, <1>7, <1>8, <1>9, <1>10, <1>11, <1>12
  DEF Client

\* Every continuation keeps TypeOK.
LEMMA TypeContinuation == ASSUME TypeOK, Continuation PROVE TypeOK'
<1> USE DEF Timers, Steps
<1>1. ASSUME NEW u \in Users, Enter(u) PROVE TypeOK'
  BY <1>1, AttachType DEF Enter, TypeOK
<1>2. ASSUME NEW u \in Users, PlayerLeft(u) PROVE TypeOK'
  <2> DEFINE rest == tasks \ {Do("removed", u)}
  <2>1. rest \subseteq Task /\ timers \subseteq Timers
    BY DEF TypeOK
  <2>2. \/ Nothing(timers, rest)
        \/ Pause(timers, rest)
        \/ EndTurn(timers, rest)
    BY <1>2 DEF PlayerLeft
  <2>3. MatchType'
    BY <2>1, <2>2, NothingType, PauseType, EndTurnType
  <2> QED
    BY <1>2, <2>3, MatchOnly DEF PlayerLeft
<1>3. ASSUME NEW u \in Users, CloseEmptied(u) PROVE TypeOK'
  <2> DEFINE rest == tasks \ {Do("emptied", u)}
  <2>1. rest \subseteq Task /\ timers \subseteq Timers
    BY DEF TypeOK
  <2>2. \/ UNCHANGED roomVars /\ Nothing(timers, rest)
        \/ Close(rest)
    BY <1>3 DEF CloseEmptied
  <2> QED
    BY <2>1, <2>2, NothingType, MatchOnly, CloseType
<1>4. ASSUME NEW u \in Users, Replay(u) PROVE TypeOK'
  <2> DEFINE rest == tasks \ {Do("replay", u)}
  <2>1. rest \subseteq Task /\ timers \subseteq Timers
    BY DEF TypeOK
  <2>2. StartMatch(rest) \/ Nothing(timers, rest)
    BY <1>4 DEF Replay
  <2>3. MatchType'
    BY <2>1, <2>2, NothingType, StartType
  <2> QED
    BY <1>4, <2>3, MatchOnly DEF Replay
<1>5. ASSUME NEW u \in Users, OpenRound(u) PROVE TypeOK'
  <2>1. tasks' \subseteq Task
    BY <1>5, TaskType DEF OpenRound, TypeOK
  <2>2. round' \in Round
    BY <1>5 DEF OpenRound, Round
  <2>3. MatchType'
    BY <1>5, <2>1, <2>2 DEF OpenRound, TypeOK, MatchType, histVars
  <2> QED
    BY <1>5, <2>3, MatchOnly DEF OpenRound
<1>6. ASSUME NEW u \in Users, OfferWords(u) PROVE TypeOK'
  BY <1>6, BookType, NothingType, MatchOnly DEF OfferWords, TypeOK
<1>7. ASSUME NEW u \in Users, AfterGuess(u) PROVE TypeOK'
  <2> DEFINE tm == IF EveryoneGuessed(u) THEN Book(timers, "allGuessed") ELSE timers
  <2>1. tm \subseteq Timers
    BY BookType DEF TypeOK
  <2>2. Nothing(tm, tasks \ {Do("guessed", u)})
    BY <1>7 DEF AfterGuess
  <2> HIDE DEF tm
  <2>3. MatchType'
    BY <2>1, <2>2, NothingType DEF TypeOK
  <2> QED
    BY <1>7, <2>3, MatchOnly DEF AfterGuess
<1>8. CASE MatchCreated
  <2>1. tasks' \subseteq Task
    BY <1>8, TaskType DEF MatchCreated, TypeOK
  <2>2. MatchType'
    BY <1>8, <2>1 DEF MatchCreated, TypeOK, MatchType, histVars
  <2> QED
    BY <1>8, <2>2, MatchOnly DEF MatchCreated
<1>9. CASE BookCountdown
  BY <1>9, BookType, NothingType, MatchOnly DEF BookCountdown, TypeOK
<1>10. CASE BookBuzzer
  BY <1>10, BookType, NothingType, MatchOnly DEF BookBuzzer, TypeOK
<1>11. CASE BookScoreboard
  BY <1>11, BookType, NothingType, MatchOnly DEF BookScoreboard, TypeOK
<1>12. CASE BookReturn
  BY <1>12, BookType, NothingType, MatchOnly DEF BookReturn, TypeOK
<1> QED
  BY <1>1, <1>2, <1>3, <1>4, <1>5, <1>6, <1>7, <1>8, <1>9, <1>10, <1>11, <1>12
  DEF Continuation

\* Every timer keeps TypeOK.
LEMMA TypeTimer == ASSUME TypeOK, Timer PROVE TypeOK'
<1> USE DEF Fires
<1>0. \A name : timers \ {name} \subseteq Timers
  BY DEF TypeOK
<1>1. CASE CountdownFires
  <2>1. timers \ {"startCountdown"} \subseteq Timers
    BY DEF TypeOK
  <2>2. MatchType'
    BY <1>1, <2>1, BeginTurnType DEF CountdownFires, TypeOK
  <2> QED
    BY <1>1, <2>2, MatchOnly DEF CountdownFires
<1>2. CASE ChoiceFires
  BY <1>0, <1>2, ApplyWordType, MatchOnly DEF ChoiceFires
<1>3. CASE BuzzerFires
  BY <1>0, <1>3, EndTurnType, MatchOnly DEF BuzzerFires, TypeOK
<1>4. CASE AllGuessedFires
  BY <1>0, <1>4, EndTurnType, MatchOnly DEF AllGuessedFires, TypeOK
<1>5. CASE ScoreboardFires
  <2> DEFINE tm == timers \ {"roundResult"}
  <2>1. /\ tm \subseteq Timers /\ tasks \subseteq Task
        /\ idx \in Nat /\ idx + 1 \in Nat /\ curRound \in 0 .. Rounds
    BY DEF TypeOK
  <2>2. \/ Nothing(tm, tasks)
        \/ Pause(tm, tasks)
        \/ BeginTurn(idx + 1, curRound, tm, tasks)
        \/ EndGame(idx + 1, curRound, tasks)
        \/ AnotherRound(curRound) /\ BeginTurn(0, curRound + 1, tm, tasks)
    BY <1>5 DEF ScoreboardFires
  <2>3. AnotherRound(curRound) => curRound + 1 \in 0 .. Rounds
    BY <2>1, RoundsAssumption DEF AnotherRound
  <2> HIDE DEF tm
  <2>4. MatchType'
    BY <2>1, <2>2, <2>3, NothingType, PauseType, BeginTurnType, EndGameType
  <2> QED
    BY <1>5, <2>4, MatchOnly DEF ScoreboardFires
<1>6. CASE ReturnFires
  <2>1. MatchType'
    BY <1>0, <1>6, LobbyType DEF ReturnFires, TypeOK
  <2> QED
    BY <1>6, <2>1, MatchOnly DEF ReturnFires
<1>7. CASE HoldExpires
  <2>1. CASE EndTurn(timers, tasks)
    BY <1>7, <2>1, EndTurnType, MatchOnly DEF HoldExpires, TypeOK
  <2>2. CASE heldFor' = Nobody /\ UNCHANGED <<matchVars, timers, grace, tasks, histVars>>
    BY <1>7, <2>2 DEF HoldExpires, TypeOK, roomVars, matchVars, histVars
  <2> QED
    BY <1>7, <2>1, <2>2 DEF HoldExpires
<1>8. CASE Sweep
  BY <1>8, CloseType DEF Sweep, TypeOK
<1>9. ASSUME NEW u \in Users, GraceExpires(u) PROVE TypeOK'
  <2>1. CASE u \in Seated /\ ~HasSocket(u)
    BY <1>9, <2>1, RemovalType DEF GraceExpires, RemovalTask
  <2>2. CASE ~(u \in Seated /\ ~HasSocket(u))
    BY <1>9, <2>2 DEF GraceExpires, TypeOK, roomVars, matchVars, histVars
  <2> QED
    BY <2>1, <2>2
<1> QED
  BY <1>1, <1>2, <1>3, <1>4, <1>5, <1>6, <1>7, <1>8, <1>9 DEF Timer

\* TypeOK is inductive.
LEMMA TypeStep == TypeOK /\ [Next]_vars => TypeOK'
<1>1. ASSUME TypeOK, UNCHANGED vars PROVE TypeOK'
  BY <1>1 DEF vars, TypeOK
<1> QED
  BY <1>1, TypeClient, TypeContinuation, TypeTimer DEF Next

\* Every variable of a room has its type in every reachable state; in particular
\* advance and beginTurn never count a round past the last.
THEOREM TypeCorrect == Spec => []TypeOK
BY TypeInit, TypeStep, PTL DEF Spec

-----------------------------------------------------------------------------

\* The turn order is fine as long as it is left alone and nobody is unseated.
LEMMA OrderUnchanged ==
  TurnOrderSeated /\ order' = order /\ Seated \subseteq Seated' => TurnOrderSeated'
BY DEF TurnOrderSeated

\* Joining two lists without repetitions that share nobody repeats nobody.
LEMMA OrderAppend ==
  ASSUME NEW S, NEW a \in Seq(S), NEW b \in Seq(S), IsInjective(a), IsInjective(b),
         Range(a) \cap Range(b) = {}
  PROVE  IsInjective(a \o b) /\ Range(a \o b) \subseteq Range(a) \cup Range(b)
<1>1. /\ Len(a) \in Nat /\ Len(b) \in Nat
      /\ DOMAIN a = 1 .. Len(a) /\ DOMAIN b = 1 .. Len(b)
      /\ DOMAIN (a \o b) = 1 .. (Len(a) + Len(b))
  OBVIOUS
<1>2. \A i \in DOMAIN (a \o b) :
        \/ i \in DOMAIN a /\ (a \o b)[i] = a[i]
        \/ i \notin DOMAIN a /\ i - Len(a) \in DOMAIN b /\ (a \o b)[i] = b[i - Len(a)]
  BY <1>1
<1>3. Range(a \o b) \subseteq Range(a) \cup Range(b)
  BY <1>2 DEF Range
<1>4. ASSUME NEW i \in DOMAIN (a \o b), NEW j \in DOMAIN (a \o b),
             (a \o b)[i] = (a \o b)[j]
      PROVE  i = j
  <2>1. CASE i \in DOMAIN a /\ j \in DOMAIN a
    BY <1>2, <1>4, <2>1 DEF IsInjective
  <2>2. CASE i \notin DOMAIN a /\ j \notin DOMAIN a
    <3>1. i - Len(a) = j - Len(a)
      BY <1>2, <1>4, <2>2 DEF IsInjective
    <3> QED
      BY <1>1, <3>1
  <2>3. ~(i \in DOMAIN a /\ j \notin DOMAIN a) /\ ~(i \notin DOMAIN a /\ j \in DOMAIN a)
    BY <1>2, <1>4 DEF Range
  <2> QED
    BY <2>1, <2>2, <2>3
<1> QED
  BY <1>3, <1>4 DEF IsInjective

\* resumeIfPossible appends exactly the seated players who had no turn.
LEMMA OrderAttach ==
  ASSUME TypeOK, TurnOrderSeated, NEW u \in Users, NEW ts, AttachAndResume(u, ts)
  PROVE  TurnOrderSeated'
<1>1. Seated' = Seated
  BY DEF AttachAndResume, Seated, TypeOK
<1>2. PICK c : Resume(c, ts)
  BY DEF AttachAndResume
<1>3. CASE ~closed /\ phase = "paused" /\ HasEnough(c)
  <2>1. PICK late \in Shuffles(Seated \ Range(order)) : order' = order \o late
    BY <1>2, <1>3 DEF Resume
  <2>2. IsFiniteSet(Seated \ Range(order)) /\ Seated \subseteq Users
    BY UsersAssumption, FS_Subset DEF Seated
  <2>3. late \in Seq(Users) /\ IsInjective(late) /\ Range(late) \subseteq Seated \ Range(order)
    BY <2>2, ShuffleProperties
  <2>4. IsInjective(order \o late) /\ Range(order \o late) \subseteq Seated
    BY <2>3, OrderAppend DEF TypeOK, TurnOrderSeated
  <2> QED
    BY <1>1, <2>1, <2>4 DEF TurnOrderSeated
<1>4. CASE ~(~closed /\ phase = "paused" /\ HasEnough(c))
  BY <1>1, <1>2, <1>4, OrderUnchanged DEF Resume
<1> QED
  BY <1>3, <1>4

\* removePlayer takes the player out of the seats and the turn order alike.
LEMMA OrderRemoval ==
  ASSUME TypeOK, TurnOrderSeated, NEW u \in Users, RemovePlayer(u)
  PROVE  TurnOrderSeated'
<1>1. Seated' = Seated \ {u}
  BY DEF RemovePlayer, Seated, TypeOK
<1>2. order' = Without(order, u)
  BY DEF RemovePlayer, OrderAfter
<1>3. IsInjective(order') /\ Range(order') = Range(order) \ {u}
  BY <1>2, WithoutDistinct DEF TypeOK, TurnOrderSeated
<1> QED
  BY <1>1, <1>3 DEF TurnOrderSeated

\* startGame shuffles seated players.
LEMMA OrderStart ==
  ASSUME TypeOK, UNCHANGED roomVars, NEW ts, StartMatch(ts)
  PROVE  TurnOrderSeated'
<1>1. ActivePlayers(conn) \subseteq Seated /\ IsFiniteSet(ActivePlayers(conn))
  BY UsersAssumption, FS_Subset DEF ActivePlayers, Seated
<1>2. IsInjective(order') /\ Range(order') \subseteq ActivePlayers(conn)
  BY <1>1, ShuffleProperties DEF StartMatch
<1> QED
  BY <1>1, <1>2 DEF TurnOrderSeated, Seated, roomVars

\* returnToLobby empties the turn order.
LEMMA OrderLobby == ASSUME NEW tm, NEW ts, ResetToLobby(tm, ts) PROVE TurnOrderSeated'
BY DEF ResetToLobby, TurnOrderSeated, IsInjective, Range

\* TurnOrderSeated is inductive, given the types.
LEMMA OrderStep == TypeOK /\ TurnOrderSeated /\ [Next]_vars => TurnOrderSeated'
<1> SUFFICES ASSUME TypeOK, TurnOrderSeated, [Next]_vars PROVE TurnOrderSeated'
  OBVIOUS
<1>1. ASSUME UNCHANGED roomVars, UNCHANGED order PROVE TurnOrderSeated'
  BY <1>1, OrderUnchanged DEF roomVars, Seated
<1>2. ASSUME NEW u \in Users, Client(u) PROVE TurnOrderSeated'
  <2>1. CASE Join(u) \/ Rejoin(u) \/ RestJoin(u) \/ Disconnect(u)
    <3>1. Seated \subseteq Seated' /\ order' = order
      BY <2>1 DEF Join, Rejoin, RestJoin, Disconnect, Seated, matchVars, TypeOK
    <3> QED
      BY <3>1, OrderUnchanged
  <2>2. CASE Reconnect(u)
    BY <2>2, OrderAttach DEF Reconnect
  <2>3. CASE Leave(u) \/ Vacate(u) \/ Evict(u)
    BY <2>3, OrderRemoval DEF Leave, Vacate, Evict
  <2>4. CASE EndRoom(u) \/ \E v \in Users : TransferHost(u, v)
    BY <2>4, OrderUnchanged DEF EndRoom, Close, TransferHost, Seated, matchVars
  <2>5. CASE StartGame(u)
    BY <2>5, OrderStart DEF StartGame
  <2>6. CASE PlayAgain(u)
    BY <2>6, OrderLobby DEF PlayAgain
  <2>7. CASE SelectWord(u) \/ Guess(u)
    BY <1>1, <2>7 DEF SelectWord, ApplyWord, Nothing, Guess, matchVars
  <2> QED
    BY <1>2, <2>1, <2>2, <2>3, <2>4, <2>5, <2>6, <2>7 DEF Client
<1>3. CASE Continuation
  <2>1. ASSUME NEW u \in Users, Enter(u) PROVE TurnOrderSeated'
    BY <2>1, OrderAttach DEF Enter
  <2>2. ASSUME NEW u \in Users, PlayerLeft(u) PROVE TurnOrderSeated'
    BY <1>1, <2>2 DEF PlayerLeft, Nothing, Pause, EndTurn, matchVars
  <2>3. ASSUME NEW u \in Users, CloseEmptied(u) PROVE TurnOrderSeated'
    BY <2>3, OrderUnchanged DEF CloseEmptied, Nothing, Close, Seated, roomVars, matchVars
  <2>4. ASSUME NEW u \in Users, Replay(u) PROVE TurnOrderSeated'
    BY <1>1, <2>4, OrderStart DEF Replay, Nothing, matchVars
  <2>5. ASSUME NEW u \in Users, OpenRound(u) \/ OfferWords(u) \/ AfterGuess(u)
        PROVE  TurnOrderSeated'
    BY <1>1, <2>5 DEF OpenRound, OfferWords, AfterGuess, Nothing, matchVars
  <2>6. CASE MatchCreated \/ BookCountdown \/ BookBuzzer \/ BookScoreboard \/ BookReturn
    BY <1>1, <2>6 DEF MatchCreated, BookCountdown, BookBuzzer, BookScoreboard,
       BookReturn, Nothing, matchVars
  <2> QED
    BY <1>3, <2>1, <2>2, <2>3, <2>4, <2>5, <2>6 DEF Continuation
<1>4. CASE Timer
  <2>1. CASE CountdownFires \/ ScoreboardFires
    BY <1>1, <2>1 DEF CountdownFires, ScoreboardFires, Fires, BeginTurn, DealFrom, Deal,
       EndGame, Pause, Nothing, matchVars
  <2>2. CASE ChoiceFires \/ BuzzerFires \/ AllGuessedFires
    BY <1>1, <2>2 DEF ChoiceFires, BuzzerFires, AllGuessedFires, Fires, ApplyWord, EndTurn,
       Nothing, matchVars
  <2>3. CASE ReturnFires
    BY <2>3, OrderLobby DEF ReturnFires
  <2>4. CASE HoldExpires
    BY <1>1, <2>4 DEF HoldExpires, EndTurn, Nothing, matchVars
  <2>5. CASE Sweep
    BY <2>5, OrderUnchanged DEF Sweep, Close, Seated, matchVars
  <2>6. ASSUME NEW u \in Users, GraceExpires(u) PROVE TurnOrderSeated'
    BY <1>1, <2>6, OrderRemoval DEF GraceExpires, matchVars
  <2> QED
    BY <1>4, <2>1, <2>2, <2>3, <2>4, <2>5, <2>6 DEF Timer
<1>5. CASE UNCHANGED vars
  BY <1>1, <1>5 DEF vars, roomVars
<1> QED
  BY <1>2, <1>3, <1>4, <1>5 DEF Next

\* The turn order names seated players only, each once, through every departure,
\* arrival, pause and restart (startGame, removePlayer, resumeIfPossible).
THEOREM TurnOrderIsSeated == Spec => []TurnOrderSeated
<1>1. Init => TurnOrderSeated
  BY DEF Init, InitMatch, TurnOrderSeated, IsInjective, Range
<1> QED
  BY <1>1, OrderStep, TypeCorrect, PTL DEF Spec

-----------------------------------------------------------------------------

\* ClosedIsSilent is inductive: close is the only step that closes a room, and
\* timerService.schedule refuses a closed one.
LEMMA SilentStep == ClosedIsSilent /\ [Next]_vars => ClosedIsSilent'
<1> SUFFICES ASSUME ClosedIsSilent, [Next]_vars, closed' PROVE
      timers' = {} /\ grace' = {} /\ heldFor' = Nobody
  BY DEF ClosedIsSilent
<1> USE DEF ClosedIsSilent
<1>1. CASE ~closed
  <2>1. ~closed /\ closed' => \E ts : Close(ts)
    <3>1. ASSUME NEW u \in Users, Client(u), ~closed, closed' PROVE \E ts : Close(ts)
      BY <3>1 DEF Client, Join, Rejoin, RestJoin, Reconnect, AttachAndResume, Disconnect,
         Leave, Vacate, Evict, RemovePlayer, EndRoom, TransferHost, StartGame, PlayAgain, SelectWord, Guess,
         roomVars
    <3>2. ASSUME Continuation, ~closed, closed' PROVE \E ts : Close(ts)
      BY <3>2 DEF Continuation, Enter, AttachAndResume, PlayerLeft, CloseEmptied, Replay,
         OpenRound, OfferWords, AfterGuess, MatchCreated, BookCountdown, BookBuzzer,
         BookScoreboard, BookReturn, roomVars
    <3>3. ASSUME Timer, ~closed, closed' PROVE \E ts : Close(ts)
      BY <3>3 DEF Timer, CountdownFires, ChoiceFires, BuzzerFires, AllGuessedFires,
         ScoreboardFires, ReturnFires, HoldExpires, Sweep, GraceExpires, RemovePlayer,
         Fires, roomVars
    <3> QED
      BY <3>1, <3>2, <3>3 DEF Next, vars
  <2> QED
    BY <1>1, <2>1 DEF Close
<1>2. CASE closed
  <2>1. timers = {} /\ grace = {} /\ heldFor = Nobody
    BY <1>2
  <2>2. ASSUME NEW u \in Users, Client(u) PROVE FALSE
    BY <1>2, <2>2 DEF Client, ClientsRun, Join, Rejoin, RestJoin, Reconnect, Disconnect,
       Leave, Vacate, Evict, EndRoom, TransferHost, StartGame, PlayAgain, SelectWord, Guess
  <2>3. CASE Continuation
    <3>1. ASSUME NEW u \in Users, Enter(u)
          PROVE  timers' = {} /\ grace' = {} /\ heldFor' = Nobody
      BY <2>1, <3>1 DEF Enter, AttachAndResume
    <3>2. ASSUME NEW u \in Users,
                 \/ PlayerLeft(u) \/ CloseEmptied(u) \/ OpenRound(u)
                 \/ OfferWords(u) \/ AfterGuess(u)
          PROVE  timers' = {} /\ grace' = {} /\ heldFor' = Nobody
      BY <1>2, <2>1, <3>2 DEF PlayerLeft, CloseEmptied, OpenRound, OfferWords, AfterGuess,
         Nothing, Book
    <3>3. ASSUME NEW u \in Users, Replay(u)
          PROVE  timers' = {} /\ grace' = {} /\ heldFor' = Nobody
      BY <2>1, <3>3 DEF Replay, StartMatch, Nothing
    <3>4. CASE MatchCreated \/ BookCountdown \/ BookBuzzer \/ BookScoreboard \/ BookReturn
      BY <1>2, <2>1, <3>4 DEF MatchCreated, BookCountdown, BookBuzzer, BookScoreboard,
         BookReturn, Nothing, Book
    <3> QED
      BY <2>3, <3>1, <3>2, <3>3, <3>4 DEF Continuation
  <2>4. CASE Timer
    BY <1>2, <2>1, <2>4 DEF Timer, CountdownFires, ChoiceFires, BuzzerFires,
       AllGuessedFires, ScoreboardFires, ReturnFires, Fires, HoldExpires, Sweep,
       GraceExpires
  <2>5. CASE UNCHANGED vars
    BY <2>1, <2>5 DEF vars
  <2> QED
    BY <2>2, <2>3, <2>4, <2>5 DEF Next
<1> QED
  BY <1>1, <1>2

\* A closed room has no timer and never gets one again, whatever its suspended
\* handlers still do when the store answers them (close, timerService.schedule).
THEOREM ClosedStaysSilent == Spec => []ClosedIsSilent
<1>1. Init => ClosedIsSilent
  BY DEF Init, InitMatch, ClosedIsSilent
<1> QED
  BY <1>1, SilentStep, PTL DEF Spec

-----------------------------------------------------------------------------

\* The list of seats and the connections name the same players, each once.
SeatsAgree == IsInjective(seats) /\ Range(seats) = Seated

\* SeatsAgree holds as long as nobody takes or gives up a seat.
LEMMA SeatsUnchanged ==
  SeatsAgree /\ seats' = seats /\ Seated' = Seated => SeatsAgree'
BY DEF SeatsAgree

\* A newcomer appended to a list without repetitions is not a repetition.
LEMMA AppendDistinct ==
  ASSUME NEW S, NEW s \in Seq(S), NEW u \in S, IsInjective(s), u \notin Range(s)
  PROVE  IsInjective(Append(s, u)) /\ Range(Append(s, u)) = Range(s) \cup {u}
<1>1. /\ Len(s) \in Nat /\ DOMAIN s = 1 .. Len(s)
      /\ DOMAIN Append(s, u) = 1 .. (Len(s) + 1)
      /\ Append(s, u)[Len(s) + 1] = u
      /\ \A i \in DOMAIN s : Append(s, u)[i] = s[i]
  OBVIOUS
<1>2. \A i \in DOMAIN Append(s, u) : i \in DOMAIN s \/ i = Len(s) + 1
  BY <1>1
<1>3. \A i \in DOMAIN s : i \in DOMAIN Append(s, u) /\ s[i] # u
  BY <1>1 DEF Range
<1>4. IsInjective(Append(s, u))
  BY <1>1, <1>2, <1>3 DEF IsInjective
<1>5. Range(Append(s, u)) = Range(s) \cup {u}
  BY <1>1, <1>2, <1>3 DEF Range
<1> QED
  BY <1>4, <1>5

\* removePlayer unseats one player and nobody else.
LEMMA SeatsRemoval ==
  ASSUME TypeOK, SeatsAgree, NEW u \in Users, RemovePlayer(u)
  PROVE  SeatsAgree' /\ Seated' = Seated \ {u}
<1>1. Seated' = Seated \ {u}
  BY DEF RemovePlayer, Seated, TypeOK
<1> QED
  BY <1>1, WithoutDistinct DEF RemovePlayer, SeatsAgree, TypeOK

\* Nobody is seated or unseated outside the operations that do it.
LEMMA SeatsStep == TypeOK /\ SeatsAgree /\ [Next]_vars => SeatsAgree'
<1> SUFFICES ASSUME TypeOK, SeatsAgree, [Next]_vars PROVE SeatsAgree'
  OBVIOUS
<1>1. ASSUME UNCHANGED <<seats, conn>> PROVE SeatsAgree'
  BY <1>1, SeatsUnchanged DEF Seated
<1>2. ASSUME NEW u \in Users, NEW ts, AttachAndResume(u, ts) PROVE SeatsAgree'
  <2>1. Seated' = Seated /\ seats' = seats
    BY <1>2 DEF AttachAndResume, Seated, TypeOK
  <2> QED
    BY <2>1, SeatsUnchanged
<1>3. ASSUME NEW u \in Users, Client(u) PROVE SeatsAgree'
  <2>1. CASE Join(u)
    <3>1. Seated' = Seated \cup {u} /\ u \notin Seated /\ seats' = Append(seats, u)
      BY <2>1 DEF Join, Seated, TypeOK
    <3> QED
      BY <3>1, AppendDistinct DEF SeatsAgree, TypeOK
  <2>2. CASE Rejoin(u) \/ Disconnect(u)
    <3>1. Seated' = Seated /\ seats' = seats
      BY <2>2 DEF Rejoin, Disconnect, HasSocket, Seated, TypeOK
    <3> QED
      BY <3>1, SeatsUnchanged
  <2>3. CASE Reconnect(u)
    BY <1>2, <2>3 DEF Reconnect
  <2>4. CASE Leave(u) \/ Vacate(u) \/ Evict(u)
    BY <2>4, SeatsRemoval DEF Leave, Vacate, Evict
  <2>5. CASE EndRoom(u) \/ (\E v \in Users : TransferHost(u, v)) \/ StartGame(u)
             \/ PlayAgain(u) \/ SelectWord(u) \/ Guess(u)
    BY <1>1, <2>5 DEF EndRoom, Close, TransferHost, StartGame, PlayAgain, SelectWord,
       Guess, roomVars
  <2>6. CASE RestJoin(u)
    <3>1. CASE u \in Seated
      BY <2>6, <3>1, SeatsUnchanged DEF RestJoin, Seated, TypeOK
    <3>2. CASE u \notin Seated
      <4>1. Seated' = Seated \cup {u} /\ seats' = Append(seats, u)
        BY <2>6, <3>2 DEF RestJoin, Seated, TypeOK
      <4> QED
        BY <3>2, <4>1, AppendDistinct DEF SeatsAgree, TypeOK
    <3> QED
      BY <3>1, <3>2
  <2> QED
    BY <1>3, <2>1, <2>2, <2>3, <2>4, <2>5, <2>6 DEF Client
<1>4. CASE Continuation
  <2>1. ASSUME NEW u \in Users, Enter(u) PROVE SeatsAgree'
    BY <1>2, <2>1 DEF Enter
  <2>2. ASSUME NEW u \in Users, CloseEmptied(u) PROVE SeatsAgree'
    BY <1>1, <2>2 DEF CloseEmptied, Close, roomVars
  <2> QED
    BY <1>1, <1>4, <2>1, <2>2 DEF Continuation, PlayerLeft, Replay, OpenRound, OfferWords,
       AfterGuess, MatchCreated, BookCountdown, BookBuzzer, BookScoreboard, BookReturn,
       roomVars
<1>5. CASE Timer
  <2>1. ASSUME NEW u \in Users, GraceExpires(u) PROVE SeatsAgree'
    BY <1>1, <2>1, SeatsRemoval DEF GraceExpires, roomVars
  <2>2. CASE Sweep
    BY <1>1, <2>2 DEF Sweep, Close
  <2> QED
    BY <1>1, <1>5, <2>1, <2>2 DEF Timer, CountdownFires, ChoiceFires, BuzzerFires,
       AllGuessedFires, ScoreboardFires, ReturnFires, HoldExpires, Fires, roomVars
<1>6. CASE UNCHANGED vars
  BY <1>1, <1>6 DEF vars
<1> QED
  BY <1>3, <1>4, <1>5, <1>6 DEF Next

\* A room starts with its owner seated, or with the seats the store lists.
LEMMA SeatsInit == Init => SeatsAgree
<1>1. ASSUME InitCreated PROVE SeatsAgree
  <2>1. PICK u \in Users :
          /\ seats = <<u>>
          /\ conn = [v \in Users |-> IF v = u THEN "seated" ELSE "absent"]
    BY <1>1 DEF InitCreated
  <2>2. Range(seats) = {u} /\ IsInjective(seats)
    BY <2>1 DEF Range, IsInjective
  <2>3. Seated = {u}
    BY <2>1 DEF Seated
  <2> QED
    BY <2>2, <2>3 DEF SeatsAgree
<1>2. ASSUME InitHydrated PROVE SeatsAgree
  <2>1. Seated = Restored
    BY <1>2, RestoredAssumption DEF InitHydrated, Seated
  <2>2. IsFiniteSet(Restored) /\ Cardinality(Restored) \in Nat
    BY UsersAssumption, RestoredAssumption, FS_Subset, FS_CardinalityType
  <2> DEFINE n == Cardinality(Restored)
  <2>3. seats \in Injection(1 .. n, Restored)
    BY <1>2 DEF InitHydrated, Shuffles, Injection
  <2>4. seats \in Surjection(1 .. n, Restored)
    <3>1. Cardinality(1 .. n) = n
      BY <2>2, FS_Interval
    <3> QED
      BY <2>2, <2>3, <3>1, FS_Injection
  <2>5. Range(seats) = Restored
    BY <2>3, <2>4 DEF Injection, Surjection, Range
  <2> QED
    BY <2>1, <2>3, <2>5 DEF SeatsAgree, Injection
<1> QED
  BY <1>1, <1>2 DEF Init

\* removePlayer hands the host role to a seated player, or leaves the room
\* to be closed.
LEMMA HostRemoval ==
  ASSUME TypeOK, SeatsAgree, HostIsSeated, NEW u \in Users, RemovePlayer(u),
         tasks \subseteq tasks',
         Without(seats, u) = << >> => Do("emptied", u) \in tasks'
  PROVE  HostIsSeated'
<1>1. Seated' = Seated \ {u} /\ closed' = closed
  BY SeatsRemoval DEF RemovePlayer
<1>2. ASSUME Pending("emptied") PROVE HostIsSeated'
  BY <1>2 DEF HostIsSeated, Pending
<1>3. CASE Without(seats, u) = << >>
  BY <1>3 DEF HostIsSeated, Pending
<1>4. CASE Without(seats, u) # << >>
  <2>1. CASE host = u
    <3>1. host' = Without(seats, u)[1]
      BY <1>4, <2>1 DEF RemovePlayer, HostAfter
    <3>2. Without(seats, u)[1] \in Range(Without(seats, u))
      BY <1>4, WithoutType DEF TypeOK, Range
    <3>3. host' \in Seated'
      BY <1>1, <3>1, <3>2, WithoutDistinct DEF SeatsAgree, TypeOK
    <3> QED
      BY <3>3 DEF HostIsSeated
  <2>2. CASE host # u
    <3>1. host' = host
      BY <2>2 DEF RemovePlayer, HostAfter
    <3> QED
      BY <1>1, <1>2, <2>2, <3>1 DEF HostIsSeated
  <2> QED
    BY <2>1, <2>2
<1> QED
  BY <1>3, <1>4

\* Steps that move no host, unseat nobody and finish no closing.
LEMMA HostUnchanged ==
  ASSUME HostIsSeated, host' = host, closed => closed', Seated \subseteq Seated',
         \A w \in Users \cup {Nobody} :
           Do("emptied", w) \in tasks => Do("emptied", w) \in tasks'
  PROVE  HostIsSeated'
BY DEF HostIsSeated, Pending

\* A closed room needs no host.
LEMMA HostClosed == ASSUME NEW ts, Close(ts) PROVE HostIsSeated'
BY DEF Close, HostIsSeated

\* HostIsSeated is inductive, given the types and SeatsAgree, where no account is
\* deleted: evictFromLiveRoom may leave a room open with no seat in it.
LEMMA HostStep ==
  ASSUME "delete" \notin RestCalls, TypeOK, SeatsAgree, HostIsSeated, [Next]_vars
  PROVE  HostIsSeated'
<1> DEFINE Keeps == \A w \in Users \cup {Nobody} :
                      Do("emptied", w) \in tasks => Do("emptied", w) \in tasks'
<1>1. ASSUME UNCHANGED <<host, closed, conn>>, Keeps PROVE HostIsSeated'
  BY <1>1, HostUnchanged DEF Seated
<1>2. ASSUME NEW u \in Users, NEW ts, AttachAndResume(u, ts),
             \A w \in Users \cup {Nobody} : Do("emptied", w) \in tasks => Do("emptied", w) \in ts
      PROVE  HostIsSeated'
  <2>1. Seated' = Seated /\ UNCHANGED <<host, closed>>
    BY <1>2 DEF AttachAndResume, Seated, TypeOK
  <2>2. Keeps
    BY <1>2 DEF AttachAndResume, Resume
  <2> QED
    BY <2>1, <2>2, HostUnchanged
<1>3. ASSUME NEW u \in Users, Client(u) PROVE HostIsSeated'
  <2>1. CASE Join(u) \/ Rejoin(u) \/ RestJoin(u) \/ Disconnect(u)
    <3>1. Seated \subseteq Seated' /\ UNCHANGED <<host, closed>>
      BY <2>1 DEF Join, Rejoin, RestJoin, Disconnect, HasSocket, Seated, TypeOK
    <3>2. Keeps
      BY <2>1 DEF Join, Rejoin, RestJoin, Disconnect, asyncVars
    <3> QED
      BY <3>1, <3>2, HostUnchanged
  <2>2. CASE Reconnect(u)
    BY <1>2, <2>2 DEF Reconnect
  <2>3. CASE Leave(u)
    BY <2>3, HostRemoval DEF Leave, RemovalTask
  <2>4. CASE EndRoom(u)
    BY <2>4, HostClosed DEF EndRoom
  <2>5. CASE \E v \in Users : TransferHost(u, v)
    BY <2>5 DEF TransferHost, HostIsSeated, Seated
  <2>6. CASE StartGame(u) \/ PlayAgain(u) \/ SelectWord(u) \/ Guess(u)
    <3>1. UNCHANGED <<host, closed, conn>>
      BY <2>6 DEF StartGame, PlayAgain, SelectWord, Guess, roomVars
    <3>2. Keeps
      BY <2>6 DEF StartGame, StartMatch, PlayAgain, ResetToLobby, SelectWord, ApplyWord,
         Nothing, Guess
    <3> QED
      BY <1>1, <3>1, <3>2
  <2>7. CASE Vacate(u)
    BY <2>7, HostRemoval DEF Vacate
  <2> QED
    BY <1>3, <2>1, <2>2, <2>3, <2>4, <2>5, <2>6, <2>7 DEF Client, Evict
<1>4. CASE Continuation
  <2>1. ASSUME NEW u \in Users, Enter(u) PROVE HostIsSeated'
    <3>1. \A w : Do("emptied", w) # Do("enter", u)
      BY DEF Do
    <3> QED
      BY <1>2, <2>1, <3>1 DEF Enter
  <2>2. ASSUME NEW u \in Users, CloseEmptied(u) PROVE HostIsSeated'
    BY <2>2, HostClosed DEF CloseEmptied, HostIsSeated, roomVars
  <2>3. ASSUME NEW u \in Users, PlayerLeft(u) PROVE HostIsSeated'
    <3>1. UNCHANGED <<host, closed, conn>>
      BY <2>3 DEF PlayerLeft, roomVars
    <3>2. tasks \ {Do("removed", u)} \subseteq tasks'
      BY <2>3 DEF PlayerLeft, Nothing, Pause, EndTurn
    <3>3. Keeps
      BY <3>2 DEF Do
    <3> QED
      BY <1>1, <3>1, <3>3
  <2>4. ASSUME NEW u \in Users, Replay(u) \/ OpenRound(u) \/ OfferWords(u) \/ AfterGuess(u)
        PROVE  HostIsSeated'
    <3>1. UNCHANGED <<host, closed, conn>>
      BY <2>4 DEF Replay, OpenRound, OfferWords, AfterGuess, roomVars
    <3>2. tasks \ {Do("replay", u), Do("deal", u), Do("offer", u), Do("guessed", u)}
            \subseteq tasks'
      BY <2>4 DEF Replay, StartMatch, OpenRound, OfferWords, AfterGuess, Nothing
    <3>3. Keeps
      BY <3>2 DEF Do
    <3> QED
      BY <1>1, <3>1, <3>3
  <2>5. CASE MatchCreated \/ BookCountdown \/ BookBuzzer \/ BookScoreboard \/ BookReturn
    <3>1. UNCHANGED <<host, closed, conn>>
      BY <2>5 DEF MatchCreated, BookCountdown, BookBuzzer, BookScoreboard, BookReturn,
         roomVars
    <3>2. tasks \ {Do("created", Nobody), Do("countdown", Nobody), Do("buzzer", Nobody),
                   Do("scored", Nobody), Do("finishing", Nobody)} \subseteq tasks'
      BY <2>5 DEF MatchCreated, BookCountdown, BookBuzzer, BookScoreboard, BookReturn,
         Nothing
    <3>3. Keeps
      BY <3>2 DEF Do
    <3> QED
      BY <1>1, <3>1, <3>3
  <2> QED
    BY <1>4, <2>1, <2>2, <2>3, <2>4, <2>5 DEF Continuation
<1>5. CASE Timer
  <2>1. ASSUME NEW u \in Users, GraceExpires(u) PROVE HostIsSeated'
    <3>1. CASE u \in Seated /\ ~HasSocket(u)
      BY <2>1, <3>1, HostRemoval DEF GraceExpires, RemovalTask
    <3>2. CASE ~(u \in Seated /\ ~HasSocket(u))
      BY <1>1, <2>1, <3>2 DEF GraceExpires, roomVars
    <3> QED
      BY <3>1, <3>2
  <2>2. CASE Sweep
    BY <2>2, HostClosed DEF Sweep
  <2>3. CASE \/ CountdownFires \/ ChoiceFires \/ BuzzerFires \/ AllGuessedFires
             \/ ScoreboardFires \/ ReturnFires \/ HoldExpires
    <3>1. UNCHANGED <<host, closed, conn>>
      BY <2>3 DEF CountdownFires, ChoiceFires, BuzzerFires, AllGuessedFires,
         ScoreboardFires, ReturnFires, HoldExpires, Fires, roomVars
    <3>2. tasks \subseteq tasks'
      BY <2>3 DEF CountdownFires, ChoiceFires, BuzzerFires, AllGuessedFires,
         ScoreboardFires, ReturnFires, HoldExpires, BeginTurn, DealFrom, Deal, EndGame,
         Pause, EndTurn, ApplyWord, ResetToLobby, Nothing
    <3> QED
      BY <1>1, <3>1, <3>2
  <2> QED
    BY <1>5, <2>1, <2>2, <2>3 DEF Timer
<1>6. CASE UNCHANGED vars
  BY <1>1, <1>6 DEF vars
<1> QED
  BY <1>3, <1>4, <1>5, <1>6 DEF Next

\* As long as no account is deleted, an open room has a seated host unless its
\* closing is under way, so somebody can always start a match (removePlayer,
\* transferHost, assertNotSeatedElsewhere).
THEOREM RoomHasHost ==
  ASSUME "delete" \notin RestCalls
  PROVE  Spec => []HostIsSeated
<1>1. Init => HostIsSeated
  BY RestoredAssumption DEF Init, InitCreated, InitHydrated, HostIsSeated, Seated
<1> QED
  BY <1>1, SeatsInit, SeatsStep, HostStep, TypeCorrect, PTL DEF Spec

-----------------------------------------------------------------------------

\* A phase that waits for a turn's timer has the round the timer will act on,
\* so the timer, when it fires, does move the match.
RoundBehindPhase ==
  /\ phase = "wordSelection" => Pending("deal") \/ LiveRound
  /\ phase = "drawing" => LiveRound

Moving == NeverStranded /\ RoundBehindPhase

\* The timer the current phase waits for, if it is booked, stays booked.
TimersKept ==
  /\ phase = "starting" /\ "startCountdown" \in timers => "startCountdown" \in timers'
  /\ phase = "wordSelection" /\ "wordSelection" \in timers => "wordSelection" \in timers'
  /\ phase = "drawing" /\ "turn" \in timers => "turn" \in timers'
  /\ phase = "roundEnd" /\ "roundResult" \in timers => "roundResult" \in timers'
  /\ phase = "gameEnd" /\ "gameEnd" \in timers => "gameEnd" \in timers'

\* The continuations a phase may wait for stay pending.
Awaited == {"created", "countdown", "deal", "offer", "buzzer", "scored", "finishing"}
TasksKept == \A step \in Awaited : Pending(step) => Pending(step)'

\* If too few players have come in, too few have still.
Few == Cardinality(Entered) < MinPlayers
FewKept == Few => Few'

\* A step that keeps the phase, the round, the timer the phase waits for and the
\* continuations it waits for strands nothing.
LEMMA MovingFrame ==
  ASSUME Moving, UNCHANGED <<phase, round>>, closed => closed', closed' \/ TimersKept,
         TasksKept, FewKept
  PROVE  Moving'
<1>1. \A step \in Awaited : Pending(step) => Pending(step)'
  BY DEF TasksKept
<1>2. /\ Pending("created") => Pending("created")'
      /\ Pending("countdown") => Pending("countdown")'
      /\ Pending("deal") => Pending("deal")'
      /\ Pending("offer") => Pending("offer")'
      /\ Pending("buzzer") => Pending("buzzer")'
      /\ Pending("scored") => Pending("scored")'
      /\ Pending("finishing") => Pending("finishing")'
  BY <1>1 DEF Awaited
<1>3. LiveRound' = LiveRound
  BY DEF LiveRound, HasRound
<1>4. RoundBehindPhase'
  BY <1>2, <1>3 DEF Moving, RoundBehindPhase
<1>5. NeverStranded'
  BY <1>2 DEF Moving, NeverStranded, TimersKept, Few, FewKept
<1> QED
  BY <1>4, <1>5 DEF Moving

\* Adding tasks loses none.
LEMMA MoreTasks == tasks \subseteq tasks' => TasksKept
BY DEF TasksKept, Pending

\* Resuming a continuation no phase waits for loses none a phase does wait for.
LEMMA OtherTasks ==
  ASSUME NEW step \in Steps \ Awaited, NEW u, tasks \ {Do(step, u)} \subseteq tasks'
  PROVE  TasksKept
<1>1. \A s \in Awaited, w \in Users \cup {Nobody} : Do(s, w) # Do(step, u)
  BY DEF Do
<1> QED
  BY <1>1 DEF TasksKept, Pending

\* Adding timers loses none.
LEMMA MoreTimers == timers \subseteq timers' => TimersKept
BY DEF TimersKept

\* Fewer players are no more than few.
LEMMA FewMonotone ==
  ASSUME NEW S \in SUBSET Users, NEW T \in SUBSET S, Cardinality(S) < MinPlayers
  PROVE  Cardinality(T) < MinPlayers
<1>1. IsFiniteSet(S)
  BY UsersAssumption, FS_Subset
<1>2. /\ Cardinality(S) \in Nat /\ Cardinality(T) \in Nat
      /\ Cardinality(T) <= Cardinality(S)
  BY <1>1, FS_Subset, FS_CardinalityType
<1> QED
  BY <1>2 DEF MinPlayers

\* Nobody comes in: too few players stay too few.
LEMMA FewStay == Entered' \subseteq Entered => FewKept
BY FewMonotone DEF FewKept, Few, Entered

\* Below strength, too few players have come in.
LEMMA FewActive == ASSUME NEW c, ~HasEnough(c)
  PROVE  Cardinality({u \in Users : c[u] \in {"connected", "reconnecting"}}) < MinPlayers
<1> DEFINE A == ActivePlayers(c)
<1> DEFINE E == {u \in Users : c[u] \in {"connected", "reconnecting"}}
<1>1. A \in SUBSET Users /\ E \in SUBSET A
  BY DEF ActivePlayers
<1>2. Cardinality(A) < MinPlayers
  <2>1. Cardinality(A) \in Nat
    BY <1>1, UsersAssumption, FS_Subset, FS_CardinalityType
  <2> QED
    BY <2>1 DEF HasEnough, MinPlayers
<1> HIDE DEF A, E
<1>3. Cardinality(E) < MinPlayers
  BY <1>1, <1>2, FewMonotone
<1> QED
  BY <1>3 DEF E

\* A pause strands nothing: it is taken only below strength.
LEMMA PauseMoves ==
  ASSUME UNCHANGED roomVars, ~HasEnough(conn), NEW tm, NEW ts, Pause(tm, ts)
  PROVE  Moving'
<1>1. Few'
  BY FewActive DEF Few, Entered, roomVars
<1> QED
  BY <1>1 DEF Pause, Moving, NeverStranded, RoundBehindPhase, Few

\* endGame leaves the booking of the return to the lobby pending.
LEMMA EndGameMoves ==
  ASSUME NEW i, NEW r, NEW ts, EndGame(i, r, ts)
  PROVE  Moving'
BY DEF EndGame, Moving, NeverStranded, RoundBehindPhase, Pending

\* beginTurn leaves the opening of the round pending.
LEMMA DealMoves ==
  ASSUME TypeOK, NEW i \in Nat, NEW r, NEW tm, NEW ts, DealFrom(i, r, tm, ts)
  PROVE  Moving'
<1>1. PICK k \in StillSeated(i) : Deal(k, r, tm, ts)
  BY DEF DealFrom
<1>2. order[k] \in Users
  BY DEF StillSeated, TypeOK
<1>3. phase' = "wordSelection" /\ Do("deal", order[k]) \in tasks'
  BY <1>1 DEF Deal
<1> QED
  BY <1>2, <1>3 DEF Moving, NeverStranded, RoundBehindPhase, Pending

\* A lobby waits for its host only.
LEMMA LobbyMoves == ASSUME NEW tm, NEW ts, ResetToLobby(tm, ts) PROVE Moving'
BY DEF ResetToLobby, Moving, NeverStranded, RoundBehindPhase

\* startGame leaves the booking of the countdown pending.
LEMMA StartMoves == ASSUME NEW ts, StartMatch(ts) PROVE Moving'
BY DEF StartMatch, Moving, NeverStranded, RoundBehindPhase, Pending

\* A handler that changes only timers and tasks strands nothing if it keeps the
\* ones the phase waits for.
LEMMA NothingMoves ==
  ASSUME Moving, UNCHANGED roomVars, NEW tm, NEW ts, Nothing(tm, ts),
         closed \/ TimersKept, TasksKept
  PROVE  Moving'
<1>1. UNCHANGED <<phase, round, closed, conn>>
  BY DEF Nothing, matchVars, roomVars
<1>2. FewKept
  BY <1>1, FewStay DEF Entered
<1> QED
  BY <1>1, <1>2, MovingFrame

\* endTurn strands nothing, even when its own timer called it: if it declines, the
\* phase was not drawing and did not wait for that timer.
LEMMA EndTurnMoves ==
  ASSUME Moving, UNCHANGED roomVars, NEW tm, NEW ts, EndTurn(tm, ts),
         timers \ {"turn", "allGuessed"} \subseteq tm,
         Nothing(tm, ts) => TasksKept
  PROVE  Moving'
<1>1. CASE LiveRound /\ ~closed /\ phase # "paused"
  BY <1>1 DEF EndTurn, Moving, NeverStranded, RoundBehindPhase, Pending
<1>2. CASE ~(LiveRound /\ ~closed /\ phase # "paused")
  <2>1. Nothing(tm, ts)
    BY <1>2 DEF EndTurn
  <2>2. closed \/ phase # "drawing"
    BY <1>2 DEF Moving, RoundBehindPhase
  <2>3. closed \/ TimersKept
    BY <2>1, <2>2 DEF Nothing, TimersKept
  <2> QED
    BY <2>1, <2>3, NothingMoves
<1> QED
  BY <1>1, <1>2

\* beginTurn strands nothing, whichever way it goes.
LEMMA BeginTurnMoves ==
  ASSUME TypeOK, Moving, UNCHANGED roomVars, NEW i \in Nat, NEW r, NEW tm,
         BeginTurn(i, r, tm, tasks), timers \ {"startCountdown", "roundResult"} \subseteq tm
  PROVE  Moving'
<1>1. CASE ~HasEnough(conn) /\ Pause(tm, tasks)
  BY <1>1, PauseMoves
<1>2. CASE phase \notin LivePhases /\ Nothing(tm, tasks)
  <2>1. TimersKept /\ TasksKept
    BY <1>2, MoreTasks DEF Nothing, TimersKept, LivePhases
  <2> QED
    BY <1>2, <2>1, NothingMoves
<1>3. CASE \E j \in Nat : \E q : DealFrom(j, q, tm, tasks)
  BY <1>3, DealMoves
<1>4. CASE \E j, q : EndGame(j, q, tasks)
  BY <1>4, EndGameMoves
<1> QED
  BY <1>1, <1>2, <1>3, <1>4 DEF BeginTurn

\* attach and resumeIfPossible leave no match parked in a room back at strength.
LEMMA AttachMoves ==
  ASSUME TypeOK, Moving, NEW u \in Users, NEW ts, AttachAndResume(u, ts),
         \A step \in Awaited, w \in Users \cup {Nobody} :
           Do(step, w) \in tasks => Do(step, w) \in ts
  PROVE  Moving'
<1>1. Resume(conn', ts) /\ UNCHANGED <<closed, round, timers>>
  BY DEF AttachAndResume
<1>2. CASE ~closed /\ phase = "paused" /\ HasEnough(conn')
  BY <1>1, <1>2 DEF Resume, Moving, NeverStranded, RoundBehindPhase, Pending
<1>3. CASE ~(~closed /\ phase = "paused" /\ HasEnough(conn'))
  <2>1. tasks' = ts /\ phase' = phase
    BY <1>1, <1>3 DEF Resume
  <2>2. \A step \in Awaited : Pending(step) => Pending(step)'
    BY <2>1 DEF Pending
  <2>3. /\ Pending("created") => Pending("created")'
        /\ Pending("countdown") => Pending("countdown")'
        /\ Pending("deal") => Pending("deal")'
        /\ Pending("offer") => Pending("offer")'
        /\ Pending("buzzer") => Pending("buzzer")'
        /\ Pending("scored") => Pending("scored")'
        /\ Pending("finishing") => Pending("finishing")'
    BY <2>2 DEF Awaited
  <2>4. phase = "paused" => closed \/ Few'
    BY <1>3, FewActive DEF Few, Entered
  <2> QED
    BY <1>1, <1>3, <2>1, <2>3, <2>4 DEF Moving, NeverStranded, RoundBehindPhase,
       LiveRound, HasRound, Few
<1> QED
  BY <1>2, <1>3

\* applyWordSelection strands nothing: if it declines while words are being chosen,
\* a new round is about to be installed.
LEMMA ApplyWordMoves ==
  ASSUME TypeOK, Moving, UNCHANGED roomVars, NEW tm, ApplyWord(tm),
         timers \ {"wordSelection"} \subseteq tm
  PROVE  Moving'
<1>1. CASE LiveRound /\ phase = "wordSelection"
  <2>1. phase' = "drawing" /\ Do("buzzer", Nobody) \in tasks'
    BY <1>1 DEF ApplyWord
  <2>2. round' = [round EXCEPT !.worded = TRUE]
    BY <1>1 DEF ApplyWord
  <2>3. round'.drawer = round.drawer /\ round'.ended = round.ended
    BY <2>2 DEF TypeOK, Round
  <2>4. LiveRound'
    BY <1>1, <2>3 DEF LiveRound, HasRound
  <2> QED
    BY <2>1, <2>4 DEF Moving, NeverStranded, RoundBehindPhase, Pending
<1>2. CASE ~(LiveRound /\ phase = "wordSelection")
  <2>1. Nothing(tm, tasks)
    BY <1>2 DEF ApplyWord
  <2>2. CASE phase # "wordSelection"
    <3>1. TimersKept /\ TasksKept
      BY <2>1, <2>2, MoreTasks DEF Nothing, TimersKept
    <3> QED
      BY <2>1, <3>1, NothingMoves
  <2>3. CASE phase = "wordSelection"
    <3>1. Pending("deal")
      BY <1>2, <2>3 DEF Moving, RoundBehindPhase
    <3>2. phase' = "wordSelection" /\ Pending("deal")'
      BY <2>1, <2>3, <3>1 DEF Nothing, matchVars, Pending
    <3> QED
      BY <3>2 DEF Moving, NeverStranded, RoundBehindPhase
  <2> QED
    BY <2>2, <2>3
<1> QED
  BY <1>1, <1>2

\* No request of a client strands a phase.
LEMMA MovingClient ==
  ASSUME TypeOK, Moving, NEW u \in Users, Client(u)
  PROVE  Moving'
<1>1. CASE Join(u) \/ Rejoin(u) \/ RestJoin(u)
  <2>1. UNCHANGED <<phase, round, closed, timers>> /\ tasks \subseteq tasks'
    BY <1>1 DEF Join, Rejoin, RestJoin, matchVars, asyncVars
  <2>2. Entered' \subseteq Entered
    BY <1>1 DEF Join, Rejoin, RestJoin, Entered, TypeOK
  <2>3. TimersKept /\ TasksKept
    BY <2>1, MoreTimers, MoreTasks
  <2> QED
    BY <2>1, <2>2, <2>3, FewStay, MovingFrame
<1>2. CASE Reconnect(u)
  BY <1>2, AttachMoves DEF Reconnect
<1>3. CASE Disconnect(u)
  <2>1. UNCHANGED <<phase, round, closed, timers, tasks>>
    BY <1>3 DEF Disconnect, matchVars
  <2>2. Entered' \subseteq Entered
    BY <1>3 DEF Disconnect, Entered, HasSocket, TypeOK
  <2>3. TimersKept /\ TasksKept
    BY <2>1, MoreTimers, MoreTasks
  <2> QED
    BY <2>1, <2>2, <2>3, FewStay, MovingFrame
<1>4. CASE Leave(u) \/ Vacate(u) \/ Evict(u)
  <2>1. UNCHANGED <<phase, round, closed, timers>> /\ tasks \subseteq tasks'
    BY <1>4 DEF Leave, Vacate, Evict, RemovePlayer
  <2>2. Entered' \subseteq Entered
    BY <1>4 DEF Leave, Vacate, Evict, RemovePlayer, Entered, TypeOK
  <2>3. TimersKept /\ TasksKept
    BY <2>1, MoreTimers, MoreTasks
  <2> QED
    BY <2>1, <2>2, <2>3, FewStay, MovingFrame
<1>5. CASE EndRoom(u)
  BY <1>5 DEF EndRoom, Close, matchVars, Moving, NeverStranded, RoundBehindPhase, Pending,
     LiveRound, HasRound
<1>6. CASE \E v \in Users : TransferHost(u, v)
  <2>1. UNCHANGED <<phase, round, closed, timers, tasks, conn>>
    BY <1>6 DEF TransferHost, matchVars, asyncVars
  <2>2. TimersKept /\ TasksKept
    BY <2>1, MoreTimers, MoreTasks
  <2>3. FewKept
    BY <2>1, FewStay DEF Entered
  <2> QED
    BY <2>1, <2>2, <2>3, MovingFrame
<1>7. CASE StartGame(u)
  BY <1>7, StartMoves DEF StartGame
<1>8. CASE PlayAgain(u)
  BY <1>8, LobbyMoves DEF PlayAgain
<1>9. CASE SelectWord(u)
  BY <1>9, ApplyWordMoves DEF SelectWord
<1>10. CASE Guess(u)
  <2>1. UNCHANGED <<phase, closed, conn, timers>> /\ tasks \subseteq tasks'
    BY <1>10 DEF Guess, roomVars
  <2>2. round' = [round EXCEPT !.correct = Append(round.correct, u)]
    BY <1>10 DEF Guess
  <2>3. round'.drawer = round.drawer /\ round'.ended = round.ended
    BY <2>2 DEF TypeOK, Round
  <2>4. LiveRound' = LiveRound
    BY <2>3 DEF LiveRound, HasRound
  <2>5. FewKept
    BY <2>1, FewStay DEF Entered
  <2> QED
    BY <2>1, <2>4, <2>5 DEF Moving, NeverStranded, RoundBehindPhase, Pending, Few, FewKept
<1> QED
  BY <1>1, <1>2, <1>3, <1>4, <1>5, <1>6, <1>7, <1>8, <1>9, <1>10 DEF Client

\* No continuation strands a phase.
LEMMA MovingContinuation ==
  ASSUME TypeOK, Moving, Continuation
  PROVE  Moving'
<1>1. ASSUME NEW u \in Users, Enter(u) PROVE Moving'
  <2>1. \A step \in Awaited, w \in Users \cup {Nobody} :
          Do(step, w) # Do("enter", u)
    BY DEF Do, Awaited
  <2> QED
    BY <1>1, <2>1, AttachMoves DEF Enter
<1>2. ASSUME NEW u \in Users, PlayerLeft(u) PROVE Moving'
  <2> DEFINE rest == tasks \ {Do("removed", u)}
  <2>1. \/ Nothing(timers, rest)
        \/ ~HasEnough(conn) /\ Pause(timers, rest)
        \/ EndTurn(timers, rest)
    BY <1>2 DEF PlayerLeft, MustPause
  <2>2. Nothing(timers, rest) => TasksKept /\ TimersKept
    BY OtherTasks, MoreTimers DEF Nothing, Steps, Awaited
  <2> HIDE DEF rest
  <2> QED
    BY <1>2, <2>1, <2>2, NothingMoves, PauseMoves, EndTurnMoves DEF PlayerLeft
<1>3. ASSUME NEW u \in Users, CloseEmptied(u) PROVE Moving'
  <2> DEFINE rest == tasks \ {Do("emptied", u)}
  <2>1. tasks' = rest /\ UNCHANGED <<phase, round>> /\ closed'
    BY <1>3 DEF CloseEmptied, Nothing, Close, roomVars, matchVars
  <2>2. TasksKept
    BY <2>1, OtherTasks DEF Steps, Awaited
  <2>3. Pending("deal") => Pending("deal")'
    BY <2>2 DEF TasksKept, Awaited
  <2> QED
    BY <2>1, <2>3 DEF Moving, NeverStranded, RoundBehindPhase, LiveRound, HasRound
<1>4. ASSUME NEW u \in Users, Replay(u) PROVE Moving'
  <2> DEFINE rest == tasks \ {Do("replay", u)}
  <2>1. StartMatch(rest) \/ Nothing(timers, rest)
    BY <1>4 DEF Replay
  <2>2. Nothing(timers, rest) => TasksKept /\ TimersKept
    BY OtherTasks, MoreTimers DEF Nothing, Steps, Awaited
  <2> HIDE DEF rest
  <2> QED
    BY <1>4, <2>1, <2>2, StartMoves, NothingMoves DEF Replay
<1>5. ASSUME NEW u \in Users, OpenRound(u) PROVE Moving'
  <2>1. /\ round' = [drawer |-> u, worded |-> FALSE, ended |-> FALSE, correct |-> << >>]
        /\ tasks' = (tasks \ {Do("deal", u)}) \cup {Do("offer", u)}
        /\ UNCHANGED <<phase, closed, conn, timers>>
    BY <1>5 DEF OpenRound, roomVars
  <2>2. LiveRound' /\ Pending("offer")'
    BY <2>1, UsersAssumption DEF LiveRound, HasRound, Pending
  <2>3. \A step \in Steps \ {"deal"}, w \in Users \cup {Nobody} :
          Do(step, w) \in tasks => Do(step, w) \in tasks'
    BY <2>1 DEF Do
  <2>4. /\ Pending("created") => Pending("created")'
        /\ Pending("countdown") => Pending("countdown")'
        /\ Pending("buzzer") => Pending("buzzer")'
        /\ Pending("scored") => Pending("scored")'
        /\ Pending("finishing") => Pending("finishing")'
    BY <2>3 DEF Pending, Steps
  <2>5. FewKept
    BY <2>1, FewStay DEF Entered
  <2> QED
    BY <2>1, <2>2, <2>4, <2>5 DEF Moving, NeverStranded, RoundBehindPhase, Few, FewKept
<1>6. ASSUME NEW u \in Users, AfterGuess(u) PROVE Moving'
  <2>1. PICK tm : Nothing(tm, tasks \ {Do("guessed", u)}) /\ timers \subseteq tm
    BY <1>6 DEF AfterGuess, Book
  <2>2. TasksKept /\ TimersKept
    BY <2>1, OtherTasks, MoreTimers DEF Nothing, Steps, Awaited
  <2> QED
    BY <1>6, <2>1, <2>2, NothingMoves DEF AfterGuess
<1>7. ASSUME NEW step \in Steps, NEW w \in Users \cup {Nobody}, NEW name,
             Nothing(Book(timers, name), tasks \ {Do(step, w)}), UNCHANGED roomVars,
             <<step, name>> \in {<<"countdown", "startCountdown">>,
                                <<"offer", "wordSelection">>, <<"buzzer", "turn">>,
                                <<"scored", "roundResult">>, <<"finishing", "gameEnd">>}
      PROVE  Moving'
  <2>1. /\ UNCHANGED <<phase, round, closed, conn>>
        /\ timers' = Book(timers, name) /\ tasks' = tasks \ {Do(step, w)}
    BY <1>7 DEF Nothing, matchVars, roomVars
  <2>2. timers \subseteq timers' /\ (closed \/ name \in timers')
    BY <2>1 DEF Book
  <2>3. \A s \in Steps \ {step}, v \in Users \cup {Nobody} :
          Do(s, v) \in tasks => Do(s, v) \in tasks'
    BY <2>1 DEF Do
  <2>4. \A s \in Steps \ {step} : Pending(s) => Pending(s)'
    BY <2>3 DEF Pending
  <2>5. /\ Pending("created") => Pending("created")'
        /\ Pending("countdown") => step = "countdown" \/ Pending("countdown")'
        /\ Pending("deal") => Pending("deal")'
        /\ Pending("offer") => step = "offer" \/ Pending("offer")'
        /\ Pending("buzzer") => step = "buzzer" \/ Pending("buzzer")'
        /\ Pending("scored") => step = "scored" \/ Pending("scored")'
        /\ Pending("finishing") => step = "finishing" \/ Pending("finishing")'
    BY <1>7, <2>4 DEF Steps
  <2>6. FewKept
    BY <2>1, FewStay DEF Entered
  <2>7. LiveRound' = LiveRound
    BY <2>1 DEF LiveRound, HasRound
  <2>8. NeverStranded'
    BY <1>7, <2>1, <2>2, <2>5, <2>6 DEF Moving, NeverStranded, Few, FewKept
  <2>9. RoundBehindPhase'
    BY <2>1, <2>5, <2>7 DEF Moving, RoundBehindPhase
  <2> QED
    BY <2>8, <2>9 DEF Moving
<1>8. ASSUME NEW u \in Users, OfferWords(u) PROVE Moving'
  BY <1>7, <1>8 DEF OfferWords, Steps
<1>9. CASE MatchCreated
  <2>1. /\ UNCHANGED <<phase, round, closed, conn, timers>>
        /\ tasks' = (tasks \ {Do("created", Nobody)}) \cup {Do("countdown", Nobody)}
    BY <1>9 DEF MatchCreated, roomVars
  <2>2. Pending("countdown")'
    BY <2>1 DEF Pending
  <2>3. \A step \in Steps \ {"created"}, w \in Users \cup {Nobody} :
          Do(step, w) \in tasks => Do(step, w) \in tasks'
    BY <2>1 DEF Do
  <2>4. /\ Pending("deal") => Pending("deal")'
        /\ Pending("offer") => Pending("offer")'
        /\ Pending("buzzer") => Pending("buzzer")'
        /\ Pending("scored") => Pending("scored")'
        /\ Pending("finishing") => Pending("finishing")'
    BY <2>3 DEF Pending, Steps
  <2>5. FewKept /\ LiveRound' = LiveRound
    BY <2>1, FewStay DEF Entered, LiveRound, HasRound
  <2> QED
    BY <2>1, <2>2, <2>4, <2>5 DEF Moving, NeverStranded, RoundBehindPhase, Few, FewKept
<1>10. CASE BookCountdown
  BY <1>7, <1>10 DEF BookCountdown, Steps
<1>11. CASE BookBuzzer
  BY <1>7, <1>11 DEF BookBuzzer, Steps
<1>12. CASE BookScoreboard
  BY <1>7, <1>12 DEF BookScoreboard, Steps
<1>13. CASE BookReturn
  BY <1>7, <1>13 DEF BookReturn, Steps
<1> QED
  BY <1>1, <1>2, <1>3, <1>4, <1>5, <1>6, <1>8, <1>9, <1>10, <1>11, <1>12, <1>13
  DEF Continuation

\* No timer strands a phase.
LEMMA MovingTimer ==
  ASSUME TypeOK, Moving, Timer
  PROVE  Moving'
<1>1. CASE CountdownFires
  BY <1>1, BeginTurnMoves DEF CountdownFires, Fires, TypeOK
<1>2. CASE ChoiceFires
  BY <1>2, ApplyWordMoves DEF ChoiceFires, Fires
<1>3. CASE BuzzerFires \/ AllGuessedFires
  <2>1. PICK tm : EndTurn(tm, tasks) /\ timers \ {"turn", "allGuessed"} \subseteq tm
    BY <1>3 DEF BuzzerFires, AllGuessedFires
  <2>2. Nothing(tm, tasks) => TasksKept
    BY MoreTasks DEF Nothing
  <2> QED
    BY <1>3, <2>1, <2>2, EndTurnMoves DEF BuzzerFires, AllGuessedFires, Fires
<1>4. CASE ScoreboardFires
  <2> DEFINE tm == timers \ {"roundResult"}
  <2>1. idx + 1 \in Nat
    BY DEF TypeOK
  <2>2. \/ phase \notin LivePhases /\ Nothing(tm, tasks)
        \/ ~HasEnough(conn) /\ Pause(tm, tasks)
        \/ BeginTurn(idx + 1, curRound, tm, tasks)
        \/ EndGame(idx + 1, curRound, tasks)
        \/ BeginTurn(0, curRound + 1, tm, tasks)
    BY <1>4 DEF ScoreboardFires, LivePhases
  <2>3. phase \notin LivePhases /\ Nothing(tm, tasks) => TimersKept /\ TasksKept
    BY MoreTasks DEF Nothing, TimersKept, LivePhases
  <2>4. timers \ {"startCountdown", "roundResult"} \subseteq tm
    OBVIOUS
  <2> HIDE DEF tm
  <2> QED
    BY <1>4, <2>1, <2>2, <2>3, <2>4, NothingMoves, PauseMoves, BeginTurnMoves, EndGameMoves
    DEF ScoreboardFires, Fires
<1>5. CASE ReturnFires
  BY <1>5, LobbyMoves DEF ReturnFires
<1>6. CASE HoldExpires
  <2>1. CASE EndTurn(timers, tasks)
    <3>1. Nothing(timers, tasks) => TasksKept
      BY MoreTasks DEF Nothing
    <3> QED
      BY <1>6, <2>1, <3>1, EndTurnMoves DEF HoldExpires
  <2>2. CASE UNCHANGED <<matchVars, timers, tasks>>
    <3>1. UNCHANGED <<phase, round, closed, conn, timers, tasks>>
      BY <1>6, <2>2 DEF HoldExpires, matchVars, roomVars
    <3>2. TimersKept /\ TasksKept /\ FewKept
      BY <3>1, MoreTimers, MoreTasks, FewStay DEF Entered
    <3> QED
      BY <3>1, <3>2, MovingFrame
  <2> QED
    BY <1>6, <2>1, <2>2 DEF HoldExpires
<1>7. CASE Sweep
  BY <1>7 DEF Sweep, Close, matchVars, Moving, NeverStranded, RoundBehindPhase, Pending,
     LiveRound, HasRound
<1>8. ASSUME NEW u \in Users, GraceExpires(u) PROVE Moving'
  <2>1. UNCHANGED <<phase, round, closed, timers>> /\ tasks \subseteq tasks'
    BY <1>8 DEF GraceExpires, RemovePlayer, roomVars, matchVars
  <2>2. Entered' \subseteq Entered
    BY <1>8 DEF GraceExpires, RemovePlayer, Entered, roomVars, TypeOK
  <2>3. TimersKept /\ TasksKept
    BY <2>1, MoreTimers, MoreTasks
  <2> QED
    BY <2>1, <2>2, <2>3, FewStay, MovingFrame
<1> QED
  BY <1>1, <1>2, <1>3, <1>4, <1>5, <1>6, <1>7, <1>8 DEF Timer

\* Moving is inductive, given the types.
LEMMA MovingStep == TypeOK /\ Moving /\ [Next]_vars => Moving'
<1>1. ASSUME Moving, UNCHANGED vars PROVE Moving'
  <2>1. TimersKept /\ TasksKept /\ FewKept
    BY <1>1, MoreTimers, MoreTasks, FewStay DEF vars, Entered
  <2> QED
    BY <1>1, <2>1, MovingFrame DEF vars
<1> QED
  BY <1>1, MovingClient, MovingContinuation, MovingTimer DEF Next

\* No phase of an open room is ever left without the timer or the continuation
\* that will move it on, in whatever order handlers interleave (scheduling and
\* cancellation throughout game.service.ts).
THEOREM NoPhaseStranded == Spec => []NeverStranded
<1>1. Init => Moving
  BY DEF Init, InitMatch, Moving, NeverStranded, RoundBehindPhase
<1>2. Moving => NeverStranded
  BY DEF Moving
<1> QED
  BY <1>1, <1>2, MovingStep, TypeCorrect, PTL DEF Spec

-----------------------------------------------------------------------------
(* The match from its start to its end                                      *)

\* Handlers run to completion, and no match is started under the standings of
\* the last one.
Undisturbed == Latency = "none" /\ ~EagerRestart

\* The timers that may be booked in a phase.
PhaseTimers(p) ==
  CASE p = "starting" -> {"startCountdown"}
    [] p = "wordSelection" -> {"wordSelection"}
    [] p = "drawing" -> {"turn", "allGuessed"}
    [] p = "roundEnd" -> {"roundResult"}
    [] p = "gameEnd" -> {"gameEnd"}
    [] OTHER -> {}

\* What a departure or an arrival has left to do, in any phase.
Aside == {"enter", "removed", "emptied"}

\* What may be left to do in a phase.
PhaseSteps(p) ==
  CASE p = "lobby" -> {"replay"}
    [] p = "starting" -> {"created", "countdown"}
    [] p = "wordSelection" -> {"deal", "offer"}
    [] p = "drawing" -> {"buzzer", "guessed"}
    [] p = "roundEnd" -> {"scored"}
    [] p = "gameEnd" -> {"finishing"}
    [] OTHER -> {}

Waits(step) == \E t \in tasks : t.step = step

\* One handler is under way at most, none in a closed room, and only those of
\* the phase.
TasksFit ==
  /\ \A s, t \in tasks : s = t
  /\ closed => tasks = {}
  /\ \A t \in tasks : t.step \in Aside \cup PhaseSteps(phase)

TimersFit == timers \subseteq PhaseTimers(phase)

\* There is a live round while somebody chooses or draws, once it is installed,
\* and a hold on nobody but its drawer.
RoundFits ==
  /\ LiveRound <=> (phase = "drawing" \/ (phase = "wordSelection" /\ ~Waits("deal")))
  /\ HasRound => phase \in {"wordSelection", "drawing", "roundEnd"}
  /\ phase = "drawing" => round.worded
  /\ heldFor # Nobody => LiveRound /\ heldFor = round.drawer
  /\ phase = "wordSelection" \/ Waits("buzzer") => guessed = {}
  /\ \A t \in tasks : t.step = "guessed" => t.who = round.drawer

\* A match has its id from its creation on, and no result before its end.
MatchFits ==
  /\ phase = "lobby" => curRound = 0 /\ ~game
  /\ phase \in LivePhases \cup {"paused"} => results = 0
  /\ phase # "lobby" => (game <=> ~Waits("created"))

Calm == TasksFit /\ TimersFit /\ RoundFits /\ MatchFits

\* A step of the room is a step of the abstract match, or none.
LifeStep == [Lifecycle!Next]_(Lifecycle!vars)

\* Nothing of the match is under way.
Steady == ~closed /\ \A t \in tasks : t.step \in Aside

LEMMA LifeDefs ==
  /\ LifeStep <=> \/ Lifecycle!Next
                  \/ UNCHANGED <<IF closed THEN "closed" ELSE phase, curRound, game, results>>
BY DEF LifeStep, Lifecycle!vars

\* What a steady room is like.
LEMMA SteadyFacts ==
  ASSUME Calm, Steady
  PROVE  /\ LiveRound <=> phase \in {"wordSelection", "drawing"}
         /\ phase # "lobby" => game
         /\ ~closed
BY DEF Calm, Steady, Aside, RoundFits, MatchFits, Waits

LEMMA PauseCalm ==
  ASSUME TypeOK, Calm, Steady, UNCHANGED roomVars, phase \in LivePhases,
         NEW tm, tm \subseteq timers, NEW ts, ts = {}, Pause(tm, ts)
  PROVE  Calm' /\ LifeStep
<1>1. /\ phase' = "paused" /\ round' = NoRound /\ guessed' = {} /\ heldFor' = Nobody
      /\ timers' = (tm \ PauseCancels) \ TurnTimers /\ tasks' = {}
      /\ UNCHANGED <<curRound, game, results, closed>>
  BY DEF Pause, CancelTurnTimers, roomVars, histVars
<1>2. timers' = {}
  BY <1>1 DEF Calm, TimersFit, PhaseTimers, PauseCancels, TurnTimers, LivePhases
<1>3. game /\ results = 0
  BY SteadyFacts DEF Calm, MatchFits, LivePhases
<1>4. TasksFit' /\ TimersFit'
  BY <1>1, <1>2 DEF TasksFit, TimersFit
<1>5. RoundFits'
  BY <1>1 DEF RoundFits, HasRound, LiveRound, NoRound, Waits
<1>6. MatchFits'
  BY <1>1, <1>3 DEF MatchFits, Waits
<1>7. Lifecycle!PauseMatch
  BY <1>1, SteadyFacts DEF Lifecycle!PauseMatch, Lifecycle!Live, LivePhases
<1>. QED
  BY <1>4, <1>5, <1>6, <1>7, LifeDefs DEF Calm, Lifecycle!Next

\* A handler that ends, having booked no more than its phase may have booked.
LEMMA EndsCalm ==
  ASSUME TypeOK, Calm, UNCHANGED <<closed, matchVars, results>>, heldFor' \in {heldFor, Nobody},
         \A t \in tasks : t.step \notin {"deal", "created"}, tasks' = {},
         timers' \subseteq PhaseTimers(phase)
  PROVE  Calm' /\ LifeStep
<1>1. UNCHANGED <<closed, phase, curRound, game, results, round, guessed>>
  BY DEF matchVars
<1>2. TasksFit'
  BY DEF TasksFit
<1>3. TimersFit'
  BY <1>1 DEF TimersFit
<1>4. RoundFits'
  BY <1>1 DEF Calm, RoundFits, HasRound, LiveRound, Waits
<1>5. MatchFits'
  BY <1>1 DEF Calm, MatchFits, Waits
<1>. QED
  BY <1>1, <1>2, <1>3, <1>4, <1>5, LifeDefs DEF Calm

LEMMA EndTurnCalm ==
  ASSUME TypeOK, Calm, Steady, UNCHANGED roomVars,
         NEW tm, tm \subseteq timers, NEW ts, ts = {}, EndTurn(tm, ts)
  PROVE  Calm' /\ LifeStep
<1>1. CASE LiveRound /\ ~closed /\ phase # "paused"
  <2>1. /\ phase' = "roundEnd" /\ round' = [round EXCEPT !.ended = TRUE] /\ heldFor' = Nobody
        /\ timers' = tm \ TurnTimers /\ tasks' = {Do("scored", Nobody)}
        /\ UNCHANGED <<curRound, game, results, guessed, closed>>
    BY <1>1 DEF EndTurn, CancelTurnTimers, roomVars
  <2>2. round'.ended
    BY <2>1 DEF TypeOK, Round
  <2>3. timers' = {}
    BY <1>1, <2>1, SteadyFacts DEF Calm, TimersFit, PhaseTimers, TurnTimers
  <2>4. game /\ results = 0
    BY <1>1, SteadyFacts DEF Calm, MatchFits, LivePhases
  <2>5. TasksFit' /\ TimersFit'
    BY <1>1, <2>1, <2>3 DEF TasksFit, TimersFit, PhaseSteps, Do
  <2>6. RoundFits'
    BY <2>1, <2>2 DEF RoundFits, HasRound, LiveRound, Waits, Do
  <2>7. MatchFits'
    BY <2>1, <2>4 DEF MatchFits, Waits, Do
  <2>8. Lifecycle!CloseTurn
    BY <1>1, <2>1, SteadyFacts DEF Lifecycle!CloseTurn
  <2>. QED
    BY <2>5, <2>6, <2>7, <2>8, LifeDefs DEF Calm, Lifecycle!Next
<1>2. CASE ~(LiveRound /\ ~closed /\ phase # "paused")
  <2>1. /\ timers' = tm /\ tasks' = ts /\ UNCHANGED <<matchVars, heldFor, grace, histVars>>
    BY <1>2 DEF EndTurn, Nothing
  <2>2. timers' \subseteq PhaseTimers(phase)
    BY <2>1 DEF Calm, TimersFit
  <2>3. \A t \in tasks : t.step \notin {"deal", "created"}
    BY DEF Steady, Aside
  <2>. QED
    BY <2>1, <2>2, <2>3, EndsCalm DEF roomVars, histVars
<1>. QED
  BY <1>1, <1>2

LEMMA EndGameCalm ==
  ASSUME TypeOK, Calm, Steady, UNCHANGED roomVars, phase \in {"starting", "roundEnd"},
         NEW i, NEW r, r = Rounds, NEW ts, ts = {}, EndGame(i, r, ts)
  PROVE  Calm' /\ LifeStep
<1>1. game /\ results = 0
  BY SteadyFacts DEF Calm, MatchFits, LivePhases
<1>2. /\ phase' = "gameEnd" /\ round' = NoRound /\ timers' = {} /\ heldFor' = Nobody
      /\ tasks' = {Do("finishing", Nobody)} /\ curRound' = Rounds /\ results' = 1
      /\ UNCHANGED <<game, guessed, closed>>
  BY <1>1 DEF EndGame, roomVars
<1>3. TasksFit' /\ TimersFit'
  BY <1>2, SteadyFacts DEF TasksFit, TimersFit, PhaseSteps, Do
<1>4. RoundFits'
  BY <1>2 DEF RoundFits, HasRound, LiveRound, Waits, Do, NoRound
<1>5. MatchFits'
  BY <1>1, <1>2 DEF MatchFits, Waits, Do, LivePhases
<1>6. Lifecycle!FinishMatch
  BY <1>1, <1>2, SteadyFacts DEF Lifecycle!FinishMatch
<1>. QED
  BY <1>3, <1>4, <1>5, <1>6, LifeDefs DEF Calm, Lifecycle!Next

LEMMA DealCalm ==
  ASSUME TypeOK, Calm, Steady, UNCHANGED roomVars, phase \in {"starting", "roundEnd"},
         NEW i, NEW r, r \in {curRound, curRound + 1}, r <= Rounds,
         NEW tm, tm = {}, NEW ts, ts = {}, DealFrom(i, r, tm, ts)
  PROVE  Calm' /\ LifeStep
<1>1. PICK k : Deal(k, r, tm, ts)
  BY DEF DealFrom
<1>2. /\ phase' = "wordSelection" /\ timers' = {} /\ guessed' = {}
      /\ tasks' = {Do("deal", order[k])} /\ curRound' = r
      /\ UNCHANGED <<round, game, heldFor, results, closed>>
  BY <1>1 DEF Deal, roomVars
<1>3. game /\ results = 0 /\ ~LiveRound
  BY SteadyFacts DEF Calm, MatchFits, LivePhases
<1>4. TasksFit' /\ TimersFit'
  BY <1>2, SteadyFacts DEF TasksFit, TimersFit, PhaseSteps, Do
<1>5. RoundFits'
  BY <1>2, <1>3 DEF Calm, RoundFits, HasRound, LiveRound, Waits, Do
<1>6. MatchFits'
  BY <1>2, <1>3 DEF MatchFits, Waits, Do
<1>7. Lifecycle!OpenTurn
  BY <1>2, SteadyFacts DEF Lifecycle!OpenTurn
<1>. QED
  BY <1>4, <1>5, <1>6, <1>7, LifeDefs DEF Calm, Lifecycle!Next

LEMMA BeginTurnCalm ==
  ASSUME TypeOK, Calm, Steady, UNCHANGED roomVars, phase \in {"starting", "roundEnd"},
         NEW i, NEW r, r = curRound \/ (r = curRound + 1 /\ i = 0), r <= Rounds,
         NEW tm, tm = {}, NEW ts, ts = {}, BeginTurn(i, r, tm, ts)
  PROVE  Calm' /\ LifeStep
<1>0. curRound \in Nat /\ Rounds \in Nat /\ curRound <= Rounds
  BY RoundsAssumption DEF TypeOK
<1>1. CASE Pause(tm, ts)
  BY <1>1, PauseCalm DEF LivePhases
<1>2. CASE phase \notin LivePhases
  BY <1>2 DEF LivePhases
<1>3. CASE DealFrom(i, r, tm, ts)
  BY <1>3, DealCalm
<1>4. CASE StillSeated(i) = {} /\ AnotherRound(r) /\ DealFrom(0, r + 1, tm, ts)
  <2>1. StillSeated(0) # {}
    BY <1>4 DEF DealFrom
  <2>2. r = curRound
    BY <1>4, <2>1
  <2>3. r + 1 <= Rounds
    BY <1>0, <1>4, <2>2 DEF AnotherRound
  <2>. QED
    BY <1>4, <2>2, <2>3, DealCalm
<1>5. CASE EndGame(IF AnotherRound(r) \/ i < Len(order) THEN Len(order) ELSE i,
                   IF AnotherRound(r) THEN Rounds ELSE r, ts)
  <2>1. PICK j, q : q = Rounds /\ EndGame(j, q, ts)
    BY <1>0, <1>5 DEF AnotherRound
  <2>. QED
    BY <2>1, EndGameCalm
<1>. QED
  BY <1>1, <1>2, <1>3, <1>4, <1>5 DEF BeginTurn

LEMMA ApplyWordCalm ==
  ASSUME TypeOK, Calm, ~closed, tasks = {}, UNCHANGED roomVars,
         NEW tm, tm \subseteq timers, ApplyWord(tm)
  PROVE  Calm' /\ LifeStep
<1>1. CASE LiveRound /\ phase = "wordSelection"
  <2>1. /\ phase' = "drawing" /\ round' = [round EXCEPT !.worded = TRUE]
        /\ timers' = tm \ {"wordSelection"} /\ tasks' = {Do("buzzer", Nobody)}
        /\ UNCHANGED <<curRound, game, results, guessed, heldFor, closed>>
    BY <1>1 DEF ApplyWord, roomVars, histVars
  <2>2. /\ round'.worded /\ round'.drawer = round.drawer /\ round'.ended = round.ended
    BY <2>1 DEF TypeOK, Round
  <2>3. timers' = {}
    BY <1>1, <2>1 DEF Calm, TimersFit, PhaseTimers
  <2>4. game /\ results = 0
    BY <1>1 DEF Calm, MatchFits, LivePhases, Waits
  <2>5. TasksFit' /\ TimersFit'
    BY <2>1, <2>3 DEF TasksFit, TimersFit, PhaseSteps, Do
  <2>6. RoundFits'
    BY <1>1, <2>1, <2>2 DEF Calm, RoundFits, HasRound, LiveRound, Waits, Do
  <2>7. MatchFits'
    BY <2>1, <2>4 DEF MatchFits, Waits, Do
  <2>8. Lifecycle!StartDrawing
    BY <1>1, <2>1 DEF Lifecycle!StartDrawing
  <2>. QED
    BY <2>5, <2>6, <2>7, <2>8, LifeDefs DEF Calm, Lifecycle!Next
<1>2. CASE ~(LiveRound /\ phase = "wordSelection")
  <2>1. /\ timers' = tm /\ tasks' = {} /\ UNCHANGED <<matchVars, heldFor, grace, histVars>>
    BY <1>2 DEF ApplyWord, Nothing
  <2>2. timers' \subseteq PhaseTimers(phase)
    BY <2>1 DEF Calm, TimersFit
  <2>. QED
    BY <2>1, <2>2, EndsCalm DEF roomVars, histVars
<1>. QED
  BY <1>1, <1>2

LEMMA AttachCalm ==
  ASSUME TypeOK, Calm, Steady, NEW u \in Users, NEW ts, ts = {}, AttachAndResume(u, ts)
  PROVE  Calm' /\ LifeStep
<1>1. PICK c : Resume(c, ts)
  BY DEF AttachAndResume
<1>2. /\ UNCHANGED <<closed, curRound, round, guessed, game, timers, results>>
      /\ heldFor' \in {heldFor, Nobody}
  BY DEF AttachAndResume
<1>3. CASE ~closed /\ phase = "paused" /\ HasEnough(c)
  <2>1. phase' = "starting" /\ tasks' = {Do("countdown", Nobody)}
    BY <1>1, <1>3 DEF Resume
  <2>2. game /\ results = 0 /\ timers = {} /\ ~HasRound /\ ~LiveRound
    BY <1>3, SteadyFacts DEF Calm, MatchFits, TimersFit, PhaseTimers, RoundFits
  <2>3. TasksFit' /\ TimersFit'
    BY <1>2, <1>3, <2>1, <2>2 DEF TasksFit, TimersFit, PhaseSteps, Do
  <2>4. RoundFits'
    BY <1>2, <2>1, <2>2 DEF Calm, RoundFits, HasRound, LiveRound, Waits, Do
  <2>5. MatchFits'
    BY <1>2, <2>1, <2>2 DEF MatchFits, Waits, Do
  <2>6. Lifecycle!ResumeMatch
    BY <1>2, <1>3, <2>1 DEF Lifecycle!ResumeMatch
  <2>. QED
    BY <2>3, <2>4, <2>5, <2>6, LifeDefs DEF Calm, Lifecycle!Next
<1>4. CASE ~(~closed /\ phase = "paused" /\ HasEnough(c))
  <2>1. tasks' = {} /\ UNCHANGED phase
    BY <1>1, <1>4 DEF Resume
  <2>2. UNCHANGED <<closed, phase, curRound, round, guessed, game, results>>
    BY <1>2, <2>1
  <2>3. \A t \in tasks : t.step \notin {"deal", "created"}
    BY DEF Steady, Aside
  <2>4. TasksFit' /\ TimersFit'
    BY <1>2, <2>1 DEF Calm, TasksFit, TimersFit
  <2>5. RoundFits'
    BY <1>2, <2>1, <2>2, <2>3 DEF Calm, RoundFits, HasRound, LiveRound, Waits
  <2>6. MatchFits'
    BY <2>1, <2>2, <2>3 DEF Calm, MatchFits, Waits
  <2>. QED
    BY <2>2, <2>4, <2>5, <2>6, LifeDefs DEF Calm
<1>. QED
  BY <1>3, <1>4

\* A step that touches the seats and the players' timers, and leaves at most one
\* thing to do beside the match.
LEMMA AsideCalm ==
  ASSUME TypeOK, Calm, tasks = {}, ~closed,
         UNCHANGED <<closed, phase, curRound, round, game, timers, results>>,
         guessed' \subseteq guessed,
         heldFor' # Nobody => heldFor' = heldFor \/ (LiveRound /\ heldFor' = round.drawer),
         NEW t, t.step \in Aside, tasks' = {} \/ tasks' = {t}
  PROVE  Calm' /\ LifeStep
<1>1. TasksFit' /\ TimersFit'
  BY DEF Calm, TasksFit, TimersFit
<1>2. RoundFits'
  BY DEF Calm, RoundFits, HasRound, LiveRound, Waits, Aside
<1>3. MatchFits'
  BY DEF Calm, MatchFits, Waits, Aside
<1>. QED
  BY <1>1, <1>2, <1>3, LifeDefs DEF Calm

LEMMA CloseCalm ==
  ASSUME TypeOK, Calm, Steady, NEW ts, ts = {}, Close(ts)
  PROVE  Calm' /\ LifeStep
<1>1. /\ closed' = TRUE /\ timers' = {} /\ heldFor' = Nobody /\ tasks' = {}
      /\ UNCHANGED <<phase, curRound, round, game, guessed, results>>
  BY DEF Close, matchVars, histVars
<1>2. TasksFit' /\ TimersFit'
  BY <1>1 DEF TasksFit, TimersFit
<1>3. RoundFits'
  BY <1>1 DEF Calm, RoundFits, HasRound, LiveRound, Waits, Steady, Aside
<1>4. MatchFits'
  BY <1>1 DEF Calm, MatchFits, Waits, Steady, Aside
<1>5. Lifecycle!CloseRoom
  BY <1>1, SteadyFacts DEF Lifecycle!CloseRoom, TypeOK, Phases
<1>. QED
  BY <1>2, <1>3, <1>4, <1>5, LifeDefs DEF Calm, Lifecycle!Next

LEMMA StartCalm ==
  ASSUME TypeOK, Calm, ~closed, phase = "lobby", UNCHANGED roomVars,
         NEW ts, ts = {}, StartMatch(ts)
  PROVE  Calm' /\ LifeStep
<1>1. /\ phase' = "starting" /\ curRound' = 1 /\ results' = 0 /\ guessed' = {}
      /\ tasks' = {Do("created", Nobody)}
      /\ UNCHANGED <<closed, round, game, timers, heldFor>>
  BY DEF StartMatch, roomVars
<1>2. timers = {} /\ ~game /\ curRound = 0
  BY DEF Calm, TimersFit, PhaseTimers, MatchFits
<1>3. TasksFit' /\ TimersFit'
  BY <1>1, <1>2 DEF TasksFit, TimersFit, PhaseSteps, Do
<1>4. RoundFits'
  BY <1>1 DEF Calm, RoundFits, HasRound, LiveRound, Waits, Do
<1>5. MatchFits'
  BY <1>1, <1>2 DEF MatchFits, Waits, Do
<1>6. Lifecycle!StartMatch
  BY <1>1 DEF Lifecycle!StartMatch
<1>. QED
  BY <1>3, <1>4, <1>5, <1>6, LifeDefs DEF Calm, Lifecycle!Next

LEMMA LobbyCalm ==
  ASSUME TypeOK, Calm, ~closed, phase \in {"lobby", "gameEnd"}, UNCHANGED roomVars,
         NEW tm, tm = {}, NEW ts, \A t \in ts : t.step = "replay", \A s, t \in ts : s = t,
         ResetToLobby(tm, ts)
  PROVE  Calm' /\ LifeStep
<1>1. /\ phase' = "lobby" /\ round' = NoRound /\ game' = FALSE /\ curRound' = 0
      /\ guessed' = {} /\ timers' = {} /\ tasks' = ts
      /\ UNCHANGED <<closed, heldFor, results>>
  BY DEF ResetToLobby, roomVars, histVars
<1>2. heldFor = Nobody
  BY DEF Calm, RoundFits
<1>3. TasksFit' /\ TimersFit'
  BY <1>1 DEF TasksFit, TimersFit, PhaseSteps
<1>4. RoundFits'
  BY <1>1, <1>2 DEF RoundFits, HasRound, LiveRound, Waits, NoRound
<1>5. MatchFits'
  BY <1>1 DEF MatchFits, LivePhases
<1>6. CASE phase = "gameEnd"
  <2>1. Lifecycle!ReturnToLobby
    BY <1>1, <1>6 DEF Lifecycle!ReturnToLobby
  <2>. QED
    BY <1>3, <1>4, <1>5, <2>1, LifeDefs DEF Calm, Lifecycle!Next
<1>7. CASE phase = "lobby"
  <2>1. UNCHANGED <<closed, phase, curRound, game, results>>
    BY <1>1, <1>7 DEF Calm, MatchFits, TypeOK
  <2>. QED
    BY <1>3, <1>4, <1>5, <2>1, LifeDefs DEF Calm
<1>. QED
  BY <1>6, <1>7

-----------------------------------------------------------------------------

LEMMA CalmInit == Init => Calm /\ Lifecycle!Init
<1> SUFFICES ASSUME Init PROVE Calm /\ Lifecycle!Init
  OBVIOUS
<1>1. /\ phase = "lobby" /\ curRound = 0 /\ round = NoRound /\ guessed = {} /\ game = FALSE
      /\ timers = {} /\ heldFor = Nobody /\ results = 0 /\ closed = FALSE
  BY DEF Init, InitMatch
<1>2. (\A s, t \in tasks : s = t) /\ \A t \in tasks : t.step \in Aside
  BY DEF Init, InitCreated, InitHydrated, Do, Aside
<1>3. TasksFit /\ TimersFit
  BY <1>1, <1>2 DEF TasksFit, TimersFit
<1>4. RoundFits
  BY <1>1, <1>2 DEF RoundFits, HasRound, LiveRound, NoRound, Waits, Aside
<1>5. MatchFits
  BY <1>1 DEF MatchFits, LivePhases
<1>. QED
  BY <1>1, <1>3, <1>4, <1>5 DEF Calm, Lifecycle!Init

LEMMA CalmClient ==
  ASSUME Undisturbed, TypeOK, Calm, NEW u \in Users, Client(u)
  PROVE  Calm' /\ LifeStep
<1>0. ASSUME ClientsRun PROVE tasks = {} /\ ~closed /\ Steady
  BY <1>0 DEF ClientsRun, Undisturbed, Steady
<1>a. \A v : Do("enter", v).step \in Aside /\ RemovalTask(v).step \in Aside /\ Do("emptied", v).step \in Aside
  BY DEF Do, Aside, RemovalTask
<1>1. CASE Join(u) \/ Rejoin(u) \/ RestJoin(u)
  <2>1. /\ tasks = {} /\ ~closed
        /\ UNCHANGED <<closed, phase, curRound, round, game, timers, results, guessed, heldFor>>
        /\ tasks' = {} \/ tasks' = {Do("enter", u)}
    BY <1>0, <1>1 DEF Join, Rejoin, RestJoin, matchVars, asyncVars, histVars
  <2>. QED
    BY <1>a, <2>1, AsideCalm
<1>2. CASE Reconnect(u)
  BY <1>0, <1>2, AttachCalm DEF Reconnect
<1>3. CASE Disconnect(u)
  <2>1. /\ tasks = {} /\ ~closed /\ tasks' = {}
        /\ UNCHANGED <<closed, phase, curRound, round, game, timers, results, guessed>>
        /\ heldFor' = IF LiveRound /\ round.drawer = u THEN u ELSE heldFor
    BY <1>0, <1>3 DEF Disconnect, matchVars, histVars
  <2>. QED
    BY <1>a, <2>1, AsideCalm
<1>4. CASE Leave(u) \/ Vacate(u) \/ Evict(u)
  <2>1. /\ tasks = {} /\ ~closed
        /\ UNCHANGED <<closed, phase, curRound, round, game, timers, results, heldFor>>
        /\ guessed' \subseteq guessed
        /\ tasks' \in {{}, {RemovalTask(u)}, {Do("emptied", u)}}
    BY <1>0, <1>4 DEF Leave, Vacate, Evict, RemovePlayer
  <2>. QED
    BY <1>a, <2>1, AsideCalm
<1>5. CASE EndRoom(u)
  BY <1>0, <1>5, CloseCalm DEF EndRoom
<1>6. CASE \E v \in Users : TransferHost(u, v)
  <2>1. /\ tasks = {} /\ ~closed /\ tasks' = {}
        /\ UNCHANGED <<closed, phase, curRound, round, game, timers, results, guessed, heldFor>>
    BY <1>0, <1>6 DEF TransferHost, matchVars, asyncVars, histVars
  <2>. QED
    BY <1>a, <2>1, AsideCalm
<1>7. CASE StartGame(u)
  <2>1. tasks = {} /\ ~closed /\ phase = "lobby" /\ StartMatch(tasks) /\ UNCHANGED roomVars
    BY <1>0, <1>7 DEF StartGame, MayStart, Undisturbed
  <2>. QED
    BY <2>1, StartCalm
<1>8. CASE PlayAgain(u)
  <2>1. /\ tasks = {} /\ ~closed /\ phase = "lobby" /\ UNCHANGED roomVars
        /\ ResetToLobby(timers, tasks \cup {Do("replay", u)})
    BY <1>0, <1>8 DEF PlayAgain, Undisturbed
  <2>2. timers = {}
    BY <2>1 DEF Calm, TimersFit, PhaseTimers
  <2>3. PICK ts : ts = tasks \cup {Do("replay", u)}
    OBVIOUS
  <2>4. (\A t \in ts : t.step = "replay") /\ \A s, t \in ts : s = t
    BY <2>1, <2>3 DEF Do
  <2>. QED
    BY <2>1, <2>2, <2>3, <2>4, LobbyCalm
<1>9. CASE SelectWord(u)
  BY <1>0, <1>9, ApplyWordCalm DEF SelectWord
<1>10. CASE Guess(u)
  <2>1. /\ tasks = {} /\ ~closed /\ phase = "drawing"
        /\ round' = [round EXCEPT !.correct = Append(@, u)]
        /\ tasks' = {Do("guessed", round.drawer)}
        /\ UNCHANGED <<closed, phase, curRound, game, timers, results, heldFor>>
    BY <1>0, <1>10 DEF Guess, roomVars, histVars
  <2>2. round'.drawer = round.drawer /\ round'.ended = round.ended /\ round'.worded = round.worded
    BY <2>1 DEF TypeOK, Round
  <2>3. TasksFit' /\ TimersFit'
    BY <2>1 DEF Calm, TasksFit, TimersFit, PhaseSteps, Do
  <2>4. RoundFits'
    BY <2>1, <2>2 DEF Calm, RoundFits, HasRound, LiveRound, Waits, Do
  <2>5. MatchFits'
    BY <2>1 DEF Calm, MatchFits, Waits, Do
  <2>. QED
    BY <2>1, <2>3, <2>4, <2>5, LifeDefs DEF Calm
<1>. QED
  BY <1>1, <1>2, <1>3, <1>4, <1>5, <1>6, <1>7, <1>8, <1>9, <1>10 DEF Client

\* Whoever resumes is the only handler there is, and the room is open.
LEMMA OnlyTask ==
  ASSUME Calm, NEW t \in tasks
  PROVE  tasks \ {t} = {} /\ ~closed /\ (t.step \in Aside => Steady)
BY DEF Calm, TasksFit, Steady

\* The handlers that end with a booking, and what they book.
Bookings == {<<"countdown", "startCountdown">>, <<"offer", "wordSelection">>,
             <<"buzzer", "turn">>, <<"guessed", "allGuessed">>,
             <<"scored", "roundResult">>, <<"finishing", "gameEnd">>}

LEMMA CalmContinuation ==
  ASSUME Undisturbed, TypeOK, Calm, Continuation
  PROVE  Calm' /\ LifeStep
<1>0. \A step, u : Do(step, u).step = step /\ Do(step, u).who = u
  BY DEF Do
<1>1. ASSUME NEW u \in Users, Enter(u) PROVE Calm' /\ LifeStep
  <2>1. tasks \ {Do("enter", u)} = {} /\ Steady
    BY <1>0, <1>1, OnlyTask DEF Enter, Aside
  <2>. QED
    BY <1>1, <2>1, AttachCalm DEF Enter
<1>2. ASSUME NEW u \in Users, PlayerLeft(u) PROVE Calm' /\ LifeStep
  <2>1. tasks \ {Do("removed", u)} = {} /\ Steady /\ ~closed /\ UNCHANGED roomVars
    BY <1>0, <1>2, OnlyTask DEF PlayerLeft, Aside
  <2>2. \/ phase \in LivePhases /\ Pause(timers, tasks \ {Do("removed", u)})
        \/ EndTurn(timers, tasks \ {Do("removed", u)})
        \/ Nothing(timers, tasks \ {Do("removed", u)})
    BY <1>2 DEF PlayerLeft, MustPause
  <2>3. CASE Nothing(timers, tasks \ {Do("removed", u)})
    <3>1. /\ UNCHANGED <<closed, matchVars, results>> /\ heldFor' = heldFor
          /\ tasks' = {} /\ timers' = timers
      BY <2>1, <2>3 DEF Nothing, roomVars, histVars
    <3>2. \A t \in tasks : t.step \notin {"deal", "created"}
      BY <2>1 DEF Steady, Aside
    <3>. QED
      BY <3>1, <3>2, EndsCalm DEF Calm, TimersFit
  <2>. QED
    BY <2>1, <2>2, <2>3, PauseCalm, EndTurnCalm
<1>3. ASSUME NEW u \in Users, CloseEmptied(u) PROVE Calm' /\ LifeStep
  <2>1. tasks \ {Do("emptied", u)} = {} /\ Steady /\ ~closed
    BY <1>0, <1>3, OnlyTask DEF CloseEmptied, Aside
  <2>. QED
    BY <1>3, <2>1, CloseCalm DEF CloseEmptied
<1>4. ASSUME NEW u \in Users, Replay(u) PROVE Calm' /\ LifeStep
  <2>1. /\ tasks \ {Do("replay", u)} = {} /\ ~closed /\ UNCHANGED roomVars
        /\ \A t \in tasks : t.step = "replay"
    BY <1>0, <1>4, OnlyTask DEF Replay
  <2>2. phase = "lobby"
    BY <1>0, <1>4 DEF Replay, Calm, TasksFit, PhaseSteps, Aside
  <2>3. CASE StartMatch(tasks \ {Do("replay", u)})
    BY <2>1, <2>2, <2>3, StartCalm
  <2>4. CASE Nothing(timers, tasks \ {Do("replay", u)})
    <3>1. /\ UNCHANGED <<closed, matchVars, results>> /\ heldFor' = heldFor
          /\ tasks' = {} /\ timers' = timers
      BY <2>1, <2>4 DEF Nothing, roomVars, histVars
    <3>. QED
      BY <2>1, <3>1, EndsCalm DEF Calm, TimersFit
  <2>. QED
    BY <1>4, <2>3, <2>4 DEF Replay
<1>5. ASSUME NEW u \in Users, OpenRound(u) PROVE Calm' /\ LifeStep
  <2>1. /\ tasks \ {Do("deal", u)} = {} /\ ~closed /\ Do("deal", u) \in tasks
        /\ \A t \in tasks : t.step = "deal"
    BY <1>0, <1>5, OnlyTask DEF OpenRound
  <2>2. phase = "wordSelection" /\ ~LiveRound /\ heldFor = Nobody /\ guessed = {}
    BY <1>0, <2>1 DEF Calm, TasksFit, PhaseSteps, Aside, RoundFits, Waits
  <2>3. /\ round' = [drawer |-> u, worded |-> FALSE, ended |-> FALSE, correct |-> << >>]
        /\ tasks' = {Do("offer", u)}
        /\ UNCHANGED <<closed, phase, curRound, guessed, game, timers, heldFor, results>>
    BY <1>5, <2>1 DEF OpenRound, roomVars, histVars
  <2>4. TasksFit' /\ TimersFit'
    BY <2>1, <2>2, <2>3 DEF Calm, TasksFit, TimersFit, PhaseSteps, Do
  <2>5. u # Nobody
    BY UsersAssumption
  <2>6. RoundFits'
    BY <2>2, <2>3, <2>5 DEF RoundFits, HasRound, LiveRound, Waits, Do
  <2>7. MatchFits'
    BY <2>1, <2>3 DEF Calm, MatchFits, Waits, Do
  <2>. QED
    BY <2>3, <2>4, <2>6, <2>7, LifeDefs DEF Calm
<1>6. ASSUME NEW u, NEW step, NEW name, Do(step, u) \in tasks,
             <<step, name>> \in Bookings,
             NEW tm, tm \subseteq timers \cup {name}, Nothing(tm, tasks \ {Do(step, u)}),
             UNCHANGED roomVars
      PROVE  Calm' /\ LifeStep
  <2>1. tasks \ {Do(step, u)} = {} /\ \A t \in tasks : t.step = step
    BY <1>0, <1>6, OnlyTask
  <2>2. step \in PhaseSteps(phase)
    BY <1>0, <1>6 DEF Calm, TasksFit, Aside, Bookings
  <2>3. name \in PhaseTimers(phase)
    BY <1>6, <2>2 DEF Bookings, PhaseSteps, PhaseTimers
  <2>4. /\ UNCHANGED <<closed, matchVars, results>> /\ heldFor' = heldFor
        /\ tasks' = {} /\ timers' \subseteq PhaseTimers(phase)
    BY <1>6, <2>1, <2>3 DEF Nothing, roomVars, histVars, Calm, TimersFit
  <2>5. \A t \in tasks : t.step \notin {"deal", "created"}
    BY <1>6, <2>1 DEF Bookings
  <2>. QED
    BY <2>4, <2>5, EndsCalm
<1>7. \A name : Book(timers, name) \subseteq timers \cup {name}
  BY DEF Book
<1>8. ASSUME NEW u \in Users, OfferWords(u) PROVE Calm' /\ LifeStep
  <2>1. /\ Do("offer", u) \in tasks /\ UNCHANGED roomVars
        /\ Nothing(Book(timers, "wordSelection"), tasks \ {Do("offer", u)})
    BY <1>8 DEF OfferWords
  <2>2. <<"offer", "wordSelection">> \in Bookings
    BY DEF Bookings
  <2>. QED
    BY <1>6, <1>7, <2>1, <2>2
<1>9. ASSUME NEW u \in Users, AfterGuess(u) PROVE Calm' /\ LifeStep
  <2> DEFINE tm == IF EveryoneGuessed(u) THEN Book(timers, "allGuessed") ELSE timers
  <2>1. tm \subseteq timers \cup {"allGuessed"}
    BY <1>7
  <2>2. /\ Do("guessed", u) \in tasks /\ Nothing(tm, tasks \ {Do("guessed", u)})
        /\ UNCHANGED roomVars
    BY <1>9 DEF AfterGuess
  <2>3. <<"guessed", "allGuessed">> \in Bookings
    BY DEF Bookings
  <2> HIDE DEF tm
  <2>. QED
    BY <1>6, <2>1, <2>2, <2>3
<1>10. CASE MatchCreated
  <2>1. /\ Do("created", Nobody) \in tasks /\ tasks \ {Do("created", Nobody)} = {}
        /\ ~closed /\ \A t \in tasks : t.step = "created"
    BY <1>0, <1>10, OnlyTask DEF MatchCreated
  <2>2. phase = "starting" /\ ~game
    BY <1>0, <2>1 DEF Calm, TasksFit, PhaseSteps, Aside, MatchFits, Waits
  <2>3. /\ game' = TRUE /\ tasks' = {Do("countdown", Nobody)}
        /\ UNCHANGED <<closed, phase, curRound, round, guessed, timers, heldFor, results>>
    BY <1>10, <2>1 DEF MatchCreated, roomVars, histVars
  <2>4. TasksFit' /\ TimersFit'
    BY <2>1, <2>2, <2>3 DEF Calm, TasksFit, TimersFit, PhaseSteps, Do
  <2>5. RoundFits'
    BY <2>2, <2>3 DEF Calm, RoundFits, HasRound, LiveRound, Waits, Do
  <2>6. MatchFits'
    BY <2>2, <2>3 DEF Calm, MatchFits, Waits, Do
  <2>7. Lifecycle!FileMatch
    BY <2>1, <2>2, <2>3 DEF Lifecycle!FileMatch
  <2>. QED
    BY <2>4, <2>5, <2>6, <2>7, LifeDefs DEF Calm, Lifecycle!Next
<1>11. CASE BookCountdown
  <2>1. /\ Do("countdown", Nobody) \in tasks /\ UNCHANGED roomVars
        /\ Nothing(Book(timers, "startCountdown"), tasks \ {Do("countdown", Nobody)})
    BY <1>11 DEF BookCountdown
  <2>2. <<"countdown", "startCountdown">> \in Bookings
    BY DEF Bookings
  <2>. QED
    BY <1>6, <1>7, <2>1, <2>2
<1>12. CASE BookBuzzer
  <2>1. /\ Do("buzzer", Nobody) \in tasks /\ UNCHANGED roomVars
        /\ Nothing(Book(timers, "turn"), tasks \ {Do("buzzer", Nobody)})
    BY <1>12 DEF BookBuzzer
  <2>2. <<"buzzer", "turn">> \in Bookings
    BY DEF Bookings
  <2>. QED
    BY <1>6, <1>7, <2>1, <2>2
<1>13. CASE BookScoreboard
  <2>1. /\ Do("scored", Nobody) \in tasks /\ UNCHANGED roomVars
        /\ Nothing(Book(timers, "roundResult"), tasks \ {Do("scored", Nobody)})
    BY <1>13 DEF BookScoreboard
  <2>2. <<"scored", "roundResult">> \in Bookings
    BY DEF Bookings
  <2>. QED
    BY <1>6, <1>7, <2>1, <2>2
<1>14. CASE BookReturn
  <2>1. /\ Do("finishing", Nobody) \in tasks /\ UNCHANGED roomVars
        /\ Nothing(Book(timers, "gameEnd"), tasks \ {Do("finishing", Nobody)})
    BY <1>14 DEF BookReturn
  <2>2. <<"finishing", "gameEnd">> \in Bookings
    BY DEF Bookings
  <2>. QED
    BY <1>6, <1>7, <2>1, <2>2
<1>. QED
  BY <1>1, <1>2, <1>3, <1>4, <1>5, <1>8, <1>9, <1>10, <1>11, <1>12, <1>13, <1>14
  DEF Continuation

LEMMA CalmTimer ==
  ASSUME Undisturbed, TypeOK, Calm, ClosedIsSilent, Timer
  PROVE  Calm' /\ LifeStep
<1>0. ASSUME TimersRun PROVE tasks = {} /\ (~closed => Steady)
  BY <1>0 DEF TimersRun, Undisturbed, Steady
<1>1. ASSUME NEW name, Fires(name)
      PROVE  tasks = {} /\ ~closed /\ Steady /\ name \in PhaseTimers(phase) /\ UNCHANGED roomVars
  BY <1>0, <1>1 DEF Fires, ClosedIsSilent, Calm, TimersFit
<1>2. curRound \in Nat /\ curRound <= Rounds
  BY RoundsAssumption DEF TypeOK
<1>3. CASE CountdownFires
  <2>1. /\ tasks = {} /\ Steady /\ phase = "starting" /\ UNCHANGED roomVars
        /\ BeginTurn(idx, curRound, timers \ {"startCountdown"}, tasks)
    BY <1>1, <1>3 DEF CountdownFires, PhaseTimers
  <2>2. timers \ {"startCountdown"} = {}
    BY <2>1 DEF Calm, TimersFit, PhaseTimers
  <2>. QED
    BY <1>2, <2>1, <2>2, BeginTurnCalm
<1>4. CASE ChoiceFires
  BY <1>1, <1>4, ApplyWordCalm DEF ChoiceFires
<1>5. CASE BuzzerFires
  BY <1>1, <1>5, EndTurnCalm DEF BuzzerFires
<1>6. CASE AllGuessedFires
  BY <1>1, <1>6, EndTurnCalm DEF AllGuessedFires
<1>7. CASE ScoreboardFires
  <2> DEFINE tm == timers \ {"roundResult"}
  <2>1. tasks = {} /\ Steady /\ phase = "roundEnd" /\ UNCHANGED roomVars
    BY <1>1, <1>7 DEF ScoreboardFires, PhaseTimers
  <2>2. tm = {}
    BY <2>1 DEF Calm, TimersFit, PhaseTimers
  <2>3. \/ Pause(tm, tasks)
        \/ BeginTurn(idx + 1, curRound, tm, tasks)
        \/ ~AnotherRound(curRound) /\ EndGame(idx + 1, curRound, tasks)
        \/ AnotherRound(curRound) /\ BeginTurn(0, curRound + 1, tm, tasks)
    BY <1>7, <2>1 DEF ScoreboardFires, LivePhases
  <2>4. ~AnotherRound(curRound) => curRound = Rounds
    BY <1>2, RoundsAssumption DEF AnotherRound
  <2>5. AnotherRound(curRound) => curRound + 1 <= Rounds
    BY <1>2, RoundsAssumption DEF AnotherRound
  <2>6. tm \subseteq timers /\ phase \in LivePhases
    BY <2>1 DEF LivePhases
  <2> HIDE DEF tm
  <2>. QED
    BY <1>2, <2>1, <2>2, <2>3, <2>4, <2>5, <2>6, PauseCalm, BeginTurnCalm, EndGameCalm
<1>8. CASE ReturnFires
  <2>1. /\ tasks = {} /\ ~closed /\ phase = "gameEnd" /\ UNCHANGED roomVars
        /\ ResetToLobby(timers \ {"gameEnd"}, tasks)
    BY <1>1, <1>8 DEF ReturnFires, PhaseTimers
  <2>2. timers \ {"gameEnd"} = {}
    BY <2>1 DEF Calm, TimersFit, PhaseTimers
  <2>. QED
    BY <2>1, <2>2, LobbyCalm
<1>9. CASE HoldExpires
  <2>1. tasks = {} /\ Steady /\ UNCHANGED roomVars
    BY <1>0, <1>9 DEF HoldExpires, ClosedIsSilent
  <2>2. CASE EndTurn(timers, tasks)
    BY <2>1, <2>2, EndTurnCalm
  <2>3. CASE heldFor' = Nobody /\ UNCHANGED <<matchVars, timers, grace, tasks, histVars>>
    <3>1. /\ UNCHANGED <<closed, matchVars, results>>
          /\ tasks' = {} /\ timers' \subseteq PhaseTimers(phase)
      BY <2>1, <2>3 DEF roomVars, histVars, Calm, TimersFit
    <3>. QED
      BY <2>1, <2>3, <3>1, EndsCalm
  <2>. QED
    BY <1>9, <2>2, <2>3 DEF HoldExpires
<1>10. CASE Sweep
  BY <1>0, <1>10, CloseCalm DEF Sweep
<1>11. ASSUME NEW u \in Users, GraceExpires(u) PROVE Calm' /\ LifeStep
  <2>1. tasks = {} /\ ~closed
    BY <1>0, <1>11 DEF GraceExpires, ClosedIsSilent
  <2>2. RemovalTask(u).step \in Aside
    BY DEF RemovalTask, Do, Aside
  <2>3. /\ UNCHANGED <<closed, phase, curRound, round, game, timers, results, heldFor>>
        /\ guessed' \subseteq guessed /\ tasks' \in {{}, {RemovalTask(u)}}
    BY <1>11, <2>1 DEF GraceExpires, RemovePlayer, roomVars, matchVars, histVars
  <2>. QED
    BY <2>1, <2>2, <2>3, AsideCalm
<1>. QED
  BY <1>3, <1>4, <1>5, <1>6, <1>7, <1>8, <1>9, <1>10, <1>11 DEF Timer

LEMMA CalmStep ==
  ASSUME Undisturbed, TypeOK, ClosedIsSilent, Calm, [Next]_vars
  PROVE  Calm' /\ LifeStep
<1>1. CASE UNCHANGED vars
  <2>1. Calm'
    BY <1>1 DEF vars, Calm, TasksFit, TimersFit, RoundFits, MatchFits, HasRound, LiveRound, Waits
  <2>2. UNCHANGED <<closed, phase, curRound, game, results>>
    BY <1>1 DEF vars
  <2>. QED
    BY <2>1, <2>2, LifeDefs
<1>. QED
  BY <1>1, CalmClient, CalmContinuation, CalmTimer DEF Next

\* With handlers that run to completion, and no match started under the
\* standings of another, what the room does is what MatchLifecycle says
\* (startGame, beginTurn, endTurn, endGame, returnToLobby, the pauses).
LEMMA MatchesAreLifecycles ==
  ASSUME Undisturbed PROVE Spec => MatchFollowsLifecycle
<1>1. TypeOK /\ ClosedIsSilent /\ Calm /\ [Next]_vars => Calm' /\ [Lifecycle!Next]_(Lifecycle!vars)
  BY CalmStep DEF LifeStep
<1>2. Init => Calm /\ Lifecycle!Init
  BY CalmInit
<1>. QED
  BY <1>1, <1>2, TypeCorrect, ClosedStaysSilent, PTL DEF Spec, MatchFollowsLifecycle, Lifecycle!Spec

-----------------------------------------------------------------------------
(* What the services beside the engine see                                  *)

\* The refinement mapping to RoomTurns.
TurnPhase == CASE phase = "wordSelection" -> "choosing"
               [] phase = "drawing" -> "drawing"
               [] phase = "roundEnd" -> "scored"
               [] OTHER -> "quiet"
Dealt == {u \in Users : Do("deal", u) \in tasks}
Untold == {u \in Users : Do("offer", u) \in tasks}

\* A step of the room is a step of the abstract room, or none.
TurnStep == [Turns!Next]_(Turns!roomVars)

LEMMA TurnDefs ==
  TurnStep <=> \/ Turns!Next
               \/ UNCHANGED <<TurnPhase, round.drawer, LiveRound, Dealt, Untold, Seated, closed>>
BY DEF TurnStep, Turns!roomVars, TurnPhase, Dealt, Untold

\* Nothing the followers of the room can see.
LEMMA Unseen ==
  ASSUME UNCHANGED <<phase, round, Seated, closed>>, Dealt' = Dealt, Untold' = Untold
  PROVE  TurnStep
<1>1. UNCHANGED <<TurnPhase, round.drawer, LiveRound, Dealt, Untold, Seated, closed>>
  BY DEF TurnPhase, LiveRound, HasRound
<1>. QED
  BY <1>1, TurnDefs

\* What is left to do, but for the turns being set up.
SameDeals(ts) == \A u \in Users : /\ Do("deal", u) \in ts <=> Do("deal", u) \in tasks
                                  /\ Do("offer", u) \in ts <=> Do("offer", u) \in tasks

LEMMA DealsSame ==
  ASSUME SameDeals(tasks') PROVE Dealt' = Dealt /\ Untold' = Untold
BY DEF SameDeals, Dealt, Untold, Do

LEMMA OthersSame ==
  ASSUME NEW ts, SameDeals(ts), NEW step \in Steps \ {"deal", "offer"}, NEW u
  PROVE  SameDeals(ts \cup {Do(step, u)}) /\ SameDeals(ts \ {Do(step, u)})
BY DEF SameDeals, Do

LEMMA PauseTurns ==
  ASSUME ~closed, UNCHANGED roomVars, NEW tm, NEW ts, SameDeals(ts), Pause(tm, ts)
  PROVE  TurnStep
<1>1. phase' = "paused" /\ round' = NoRound /\ tasks' = ts
  BY DEF Pause
<1>2. Dealt' = Dealt /\ Untold' = Untold /\ UNCHANGED <<Seated, closed>>
  BY <1>1, DealsSame DEF roomVars, Seated
<1>3. Turns!Quiet
  BY <1>1, <1>2 DEF Turns!Quiet, Turns!seatVars, NoRound, LiveRound, HasRound, Dealt, Untold
<1>. QED
  BY <1>3, TurnDefs DEF Turns!Next

LEMMA EndGameTurns ==
  ASSUME ~closed, UNCHANGED roomVars, NEW i, NEW r, NEW ts, SameDeals(ts), EndGame(i, r, ts)
  PROVE  TurnStep
<1>1. phase' = "gameEnd" /\ round' = NoRound /\ tasks' = ts \cup {Do("finishing", Nobody)}
  BY DEF EndGame
<1>2. Dealt' = Dealt /\ Untold' = Untold /\ UNCHANGED <<Seated, closed>>
  BY <1>1, DealsSame, OthersSame DEF roomVars, Seated, Steps
<1>3. Turns!Quiet
  BY <1>1, <1>2 DEF Turns!Quiet, Turns!seatVars, NoRound, LiveRound, HasRound, Dealt, Untold
<1>. QED
  BY <1>3, TurnDefs DEF Turns!Next

LEMMA LobbyTurns ==
  ASSUME ~closed, UNCHANGED roomVars, NEW tm, NEW ts, SameDeals(ts), ResetToLobby(tm, ts)
  PROVE  TurnStep
<1>1. phase' = "lobby" /\ round' = NoRound /\ tasks' = ts
  BY DEF ResetToLobby
<1>2. Dealt' = Dealt /\ Untold' = Untold /\ UNCHANGED <<Seated, closed>>
  BY <1>1, DealsSame DEF roomVars, Seated
<1>3. Turns!Quiet
  BY <1>1, <1>2 DEF Turns!Quiet, Turns!seatVars, NoRound, LiveRound, HasRound, Dealt, Untold
<1>. QED
  BY <1>3, TurnDefs DEF Turns!Next

LEMMA NothingTurns ==
  ASSUME UNCHANGED roomVars, NEW tm, NEW ts, SameDeals(ts), Nothing(tm, ts)
  PROVE  TurnStep
<1>1. UNCHANGED <<phase, round, Seated, closed>> /\ tasks' = ts
  BY DEF Nothing, roomVars, matchVars, Seated
<1>. QED
  BY <1>1, DealsSame, Unseen

LEMMA EndTurnTurns ==
  ASSUME TypeOK, UNCHANGED roomVars, NEW tm, NEW ts, SameDeals(ts), EndTurn(tm, ts)
  PROVE  TurnStep
<1>1. CASE LiveRound /\ ~closed /\ phase # "paused"
  <2>1. /\ phase' = "roundEnd" /\ round' = [round EXCEPT !.ended = TRUE]
        /\ tasks' = ts \cup {Do("scored", Nobody)}
    BY <1>1 DEF EndTurn
  <2>2. round'.ended /\ round'.drawer = round.drawer
    BY <2>1 DEF TypeOK, Round
  <2>3. Dealt' = Dealt /\ Untold' = Untold /\ UNCHANGED <<Seated, closed>>
    BY <2>1, DealsSame, OthersSame DEF roomVars, Seated, Steps
  <2>4. Turns!Score
    BY <1>1, <2>1, <2>2, <2>3 DEF Turns!Score, Turns!seatVars, LiveRound, HasRound, Dealt, Untold
  <2>. QED
    BY <2>4, TurnDefs DEF Turns!Next
<1>2. CASE ~(LiveRound /\ ~closed /\ phase # "paused")
  BY <1>2, NothingTurns DEF EndTurn
<1>. QED
  BY <1>1, <1>2

\* Under Prompt a turn is dealt only when none is being set up or played.
Promptly == Undisturbed => ~LiveRound /\ Dealt = {} /\ Untold = {}

LEMMA DealTurns ==
  ASSUME TypeOK, ~closed, UNCHANGED roomVars, Promptly, NEW i \in Nat, NEW r, NEW tm, NEW ts,
         SameDeals(ts), DealFrom(i, r, tm, ts)
  PROVE  TurnStep
<1>1. PICK k \in StillSeated(i) : Deal(k, r, tm, ts)
  BY DEF DealFrom
<1>2. order[k] \in Users
  BY DEF StillSeated, TypeOK
<1>3. /\ phase' = "wordSelection" /\ UNCHANGED round
      /\ tasks' = ts \cup {Do("deal", order[k])}
  BY <1>1 DEF Deal
<1>4. Dealt' = Dealt \cup {order[k]} /\ Untold' = Untold /\ UNCHANGED <<Seated, closed>>
  BY <1>2, <1>3 DEF SameDeals, Dealt, Untold, Do, roomVars, Seated
<1>5. Turns!Deal(order[k])
  BY <1>3, <1>4 DEF Turns!Deal, Turns!seatVars, LiveRound, HasRound, Dealt, Untold, Promptly, Undisturbed
<1>. QED
  BY <1>2, <1>5, TurnDefs DEF Turns!Next

LEMMA BeginTurnTurns ==
  ASSUME TypeOK, ~closed, UNCHANGED roomVars, Promptly, NEW i \in Nat, NEW r, NEW tm, NEW ts,
         SameDeals(ts), BeginTurn(i, r, tm, ts)
  PROVE  TurnStep
<1>1. \/ Pause(tm, ts) \/ Nothing(tm, ts) \/ DealFrom(i, r, tm, ts) \/ DealFrom(0, r + 1, tm, ts)
      \/ \E j, q : EndGame(j, q, ts)
  BY DEF BeginTurn
<1>. QED
  BY <1>1, PauseTurns, NothingTurns, DealTurns, EndGameTurns

LEMMA ApplyWordTurns ==
  ASSUME TypeOK, ~closed, UNCHANGED roomVars, Undisturbed => Dealt = {} /\ Untold = {}, NEW tm, ApplyWord(tm)
  PROVE  TurnStep
<1>1. CASE LiveRound /\ phase = "wordSelection"
  <2>1. /\ phase' = "drawing" /\ round' = [round EXCEPT !.worded = TRUE]
        /\ tasks' = tasks \cup {Do("buzzer", Nobody)}
    BY <1>1 DEF ApplyWord
  <2>2. round'.ended = round.ended /\ round'.drawer = round.drawer
    BY <2>1 DEF TypeOK, Round
  <2>3. Dealt' = Dealt /\ Untold' = Untold /\ UNCHANGED <<Seated, closed>>
    BY <2>1, DealsSame, OthersSame DEF roomVars, Seated, Steps, SameDeals
  <2>4. Turns!Choose
    BY <1>1, <2>1, <2>2, <2>3 DEF Turns!Choose, Turns!seatVars, LiveRound, HasRound, Dealt, Untold, Undisturbed
  <2>. QED
    BY <2>4, TurnDefs DEF Turns!Next
<1>2. CASE ~(LiveRound /\ phase = "wordSelection")
  <2>1. Nothing(tm, tasks) /\ SameDeals(tasks)
    BY <1>2 DEF ApplyWord, SameDeals
  <2>. QED
    BY <2>1, NothingTurns
<1>. QED
  BY <1>1, <1>2

\* Between two quiet phases, with the round as it was.
LEMMA QuietlyTurns ==
  ASSUME TurnPhase = "quiet", TurnPhase' = "quiet", UNCHANGED <<round, Seated, closed>>,
         SameDeals(tasks')
  PROVE  TurnStep
BY DealsSame, TurnDefs DEF LiveRound, HasRound

LEMMA StartTurns ==
  ASSUME phase \in {"lobby", "gameEnd"}, UNCHANGED roomVars, NEW ts, SameDeals(ts), StartMatch(ts)
  PROVE  TurnStep
<1>1. phase' = "starting" /\ tasks' = ts \cup {Do("created", Nobody)} /\ UNCHANGED round
  BY DEF StartMatch
<1>2. TurnPhase = "quiet" /\ TurnPhase' = "quiet"
  BY <1>1 DEF TurnPhase
<1>3. SameDeals(tasks') /\ UNCHANGED <<Seated, closed>>
  BY <1>1, OthersSame DEF Steps, roomVars, Seated
<1>. QED
  BY <1>1, <1>2, <1>3, QuietlyTurns

LEMMA AttachTurns ==
  ASSUME TypeOK, NEW u \in Users, NEW ts, SameDeals(ts), AttachAndResume(u, ts)
  PROVE  TurnStep
<1>1. PICK c : Resume(c, ts)
  BY DEF AttachAndResume
<1>2. UNCHANGED <<round, Seated, closed>>
  BY DEF AttachAndResume, Seated, TypeOK
<1>3. CASE ~closed /\ phase = "paused" /\ HasEnough(c)
  <2>1. phase' = "starting" /\ tasks' = ts \cup {Do("countdown", Nobody)}
    BY <1>1, <1>3 DEF Resume
  <2>2. TurnPhase = "quiet" /\ TurnPhase' = "quiet"
    BY <1>3, <2>1 DEF TurnPhase
  <2>3. SameDeals(tasks')
    BY <2>1, OthersSame DEF Steps
  <2>. QED
    BY <1>2, <2>2, <2>3, QuietlyTurns
<1>4. CASE ~(~closed /\ phase = "paused" /\ HasEnough(c))
  BY <1>1, <1>2, <1>4, DealsSame, Unseen DEF Resume
<1>. QED
  BY <1>3, <1>4

LEMMA RemovalTurns ==
  ASSUME TypeOK, ~closed, NEW u \in Seated, RemovePlayer(u), SameDeals(tasks')
  PROVE  TurnStep
<1>1. UNCHANGED <<closed, phase, round>> /\ Seated' = Seated \ {u} /\ u \in Users
  BY DEF RemovePlayer, Seated, TypeOK
<1>2. Dealt' = Dealt /\ Untold' = Untold
  BY DealsSame
<1>3. Turns!Go(u)
  BY <1>1, <1>2 DEF Turns!Go, Turns!turnVars, LiveRound, HasRound, Dealt, Untold
<1>. QED
  BY <1>1, <1>3, TurnDefs DEF Turns!Next

LEMMA CloseTurns ==
  ASSUME ~closed, NEW ts, SameDeals(ts), Close(ts)
  PROVE  TurnStep
<1>1. UNCHANGED <<phase, round, Seated>> /\ closed' = TRUE /\ tasks' = ts
  BY DEF Close, matchVars, Seated
<1>2. Dealt' = Dealt /\ Untold' = Untold
  BY <1>1, DealsSame
<1>3. Turns!Close
  BY <1>1, <1>2 DEF Turns!Close, Turns!turnVars, LiveRound, HasRound, Dealt, Untold
<1>. QED
  BY <1>3, TurnDefs DEF Turns!Next

LEMMA ArrivalTurns ==
  ASSUME TypeOK, ~closed, NEW u \in Users, conn' = [conn EXCEPT ![u] = "seated"],
         UNCHANGED <<closed, phase, round>>, SameDeals(tasks')
  PROVE  TurnStep
<1>1. Seated' = Seated \cup {u}
  BY DEF Seated, TypeOK
<1>2. Dealt' = Dealt /\ Untold' = Untold
  BY DealsSame
<1>3. CASE u \in Seated
  BY <1>1, <1>2, <1>3, Unseen
<1>4. CASE u \notin Seated
  <2>1. Turns!Come(u)
    BY <1>1, <1>2, <1>4 DEF Turns!Come, Turns!turnVars, LiveRound, HasRound, Dealt, Untold
  <2>. QED
    BY <2>1, TurnDefs DEF Turns!Next
<1>. QED
  BY <1>3, <1>4

LEMMA TurnsClient ==
  ASSUME TypeOK, Undisturbed => Calm, NEW u \in Users, Client(u)
  PROVE  TurnStep
<1>0. ClientsRun => ~closed /\ (Undisturbed => tasks = {})
  BY DEF ClientsRun, Undisturbed
<1>a. SameDeals(tasks)
  BY DEF SameDeals
<1>b. /\ \A v \in Users : RemovalTask(v).step \in {"removed", "emptied"}
      /\ SameDeals(tasks \cup {Do("enter", u)}) /\ SameDeals(tasks \cup {RemovalTask(u)})
      /\ SameDeals(tasks \cup {Do("emptied", u)}) /\ SameDeals(tasks \cup {Do("replay", u)})
      /\ SameDeals(tasks \cup {Do("guessed", round.drawer)})
  BY <1>a, OthersSame DEF RemovalTask, Do, Steps
<1>1. CASE Join(u) \/ Rejoin(u) \/ RestJoin(u)
  <2>1. /\ ~closed /\ conn' = [conn EXCEPT ![u] = "seated"] /\ UNCHANGED <<closed, phase, round>>
        /\ tasks' \in {tasks, tasks \cup {Do("enter", u)}}
    BY <1>0, <1>1 DEF Join, Rejoin, RestJoin, matchVars, asyncVars
  <2>. QED
    BY <1>a, <1>b, <2>1, ArrivalTurns
<1>2. CASE Reconnect(u)
  BY <1>2, <1>a, AttachTurns DEF Reconnect
<1>3. CASE Disconnect(u)
  <2>1. UNCHANGED <<closed, phase, round, tasks>> /\ Seated' = Seated
    BY <1>3 DEF Disconnect, matchVars, Seated, HasSocket, TypeOK
  <2>. QED
    BY <1>a, <2>1, DealsSame, Unseen
<1>4. CASE Leave(u) \/ Vacate(u) \/ Evict(u)
  <2>1. /\ ~closed /\ u \in Seated /\ RemovePlayer(u)
        /\ tasks' \in {tasks, tasks \cup {RemovalTask(u)}, tasks \cup {Do("emptied", u)}}
    BY <1>0, <1>4 DEF Leave, Vacate, Evict
  <2>. QED
    BY <1>a, <1>b, <2>1, RemovalTurns
<1>5. CASE EndRoom(u)
  BY <1>0, <1>a, <1>5, CloseTurns DEF EndRoom
<1>6. CASE \E v \in Users : TransferHost(u, v)
  <2>1. UNCHANGED <<closed, phase, round, tasks, Seated>>
    BY <1>6 DEF TransferHost, matchVars, asyncVars, Seated
  <2>. QED
    BY <1>a, <2>1, DealsSame, Unseen
<1>7. CASE StartGame(u)
  BY <1>a, <1>7, StartTurns DEF StartGame, MayStart
<1>8. CASE PlayAgain(u)
  BY <1>0, <1>b, <1>8, LobbyTurns DEF PlayAgain
<1>9. CASE SelectWord(u)
  <2>1. ~closed /\ UNCHANGED roomVars /\ ApplyWord(timers) /\ (Undisturbed => tasks = {})
    BY <1>0, <1>9 DEF SelectWord
  <2>2. Undisturbed => Dealt = {} /\ Untold = {}
    BY <2>1 DEF Dealt, Untold
  <2>. QED
    BY <2>1, <2>2, ApplyWordTurns
<1>10. CASE Guess(u)
  <2>1. /\ round' = [round EXCEPT !.correct = Append(@, u)] /\ UNCHANGED <<closed, phase, conn>>
        /\ tasks' = tasks \cup {Do("guessed", round.drawer)}
    BY <1>10 DEF Guess, roomVars
  <2>2. round'.drawer = round.drawer /\ round'.ended = round.ended
    BY <2>1 DEF TypeOK, Round
  <2>3. Dealt' = Dealt /\ Untold' = Untold
    BY <1>b, <2>1, DealsSame
  <2>. QED
    BY <2>1, <2>2, <2>3, TurnDefs DEF TurnPhase, LiveRound, HasRound, Seated
<1>. QED
  BY <1>1, <1>2, <1>3, <1>4, <1>5, <1>6, <1>7, <1>8, <1>9, <1>10 DEF Client

LEMMA TurnsContinuation ==
  ASSUME TypeOK, Continuation
  PROVE  TurnStep
<1>a. SameDeals(tasks)
  BY DEF SameDeals
<1>b. \A step \in Steps \ {"deal", "offer"} : \A v : SameDeals(tasks \ {Do(step, v)})
  BY <1>a, OthersSame
<1>c. \A step \in Steps \ {"deal", "offer"} : \A v :
        SameDeals((tasks \ {Do(step, v)}) \cup {Do("countdown", Nobody)})
  BY <1>b, OthersSame DEF Steps
<1>1. ASSUME NEW u \in Users, Enter(u) PROVE TurnStep
  <2>1. SameDeals(tasks \ {Do("enter", u)})
    BY <1>b DEF Steps
  <2>. QED
    BY <1>1, <2>1, AttachTurns DEF Enter
<1>2. ASSUME NEW u \in Users, PlayerLeft(u) PROVE TurnStep
  <2>1. SameDeals(tasks \ {Do("removed", u)})
    BY <1>b DEF Steps
  <2>2. UNCHANGED roomVars
    BY <1>2 DEF PlayerLeft
  <2>3. \/ Nothing(timers, tasks \ {Do("removed", u)})
        \/ ~closed /\ Pause(timers, tasks \ {Do("removed", u)})
        \/ EndTurn(timers, tasks \ {Do("removed", u)})
    BY <1>2 DEF PlayerLeft
  <2>. QED
    BY <2>1, <2>2, <2>3, NothingTurns, PauseTurns, EndTurnTurns
<1>3. ASSUME NEW u \in Users, CloseEmptied(u) PROVE TurnStep
  <2>1. SameDeals(tasks \ {Do("emptied", u)})
    BY <1>b DEF Steps
  <2>2. \/ UNCHANGED roomVars /\ Nothing(timers, tasks \ {Do("emptied", u)})
        \/ ~closed /\ Close(tasks \ {Do("emptied", u)})
    BY <1>3 DEF CloseEmptied
  <2>. QED
    BY <2>1, <2>2, NothingTurns, CloseTurns
<1>4. ASSUME NEW u \in Users, Replay(u) PROVE TurnStep
  <2>1. SameDeals(tasks \ {Do("replay", u)})
    BY <1>b DEF Steps
  <2>2. /\ UNCHANGED roomVars
        /\ \/ phase \in {"lobby", "gameEnd"} /\ StartMatch(tasks \ {Do("replay", u)})
           \/ Nothing(timers, tasks \ {Do("replay", u)})
    BY <1>4 DEF Replay, MayStart
  <2>. QED
    BY <2>1, <2>2, NothingTurns, StartTurns
<1>5. ASSUME NEW u \in Users, OpenRound(u) PROVE TurnStep
  <2>1. /\ Do("deal", u) \in tasks /\ UNCHANGED <<phase, conn, closed>>
        /\ round' = [drawer |-> u, worded |-> FALSE, ended |-> FALSE, correct |-> << >>]
        /\ tasks' = (tasks \ {Do("deal", u)}) \cup {Do("offer", u)}
    BY <1>5 DEF OpenRound, roomVars
  <2>2. u \in Dealt /\ Dealt' = Dealt \ {u} /\ Untold' = Untold \cup {u}
    BY <2>1 DEF Dealt, Untold, Do
  <2>3. round'.drawer = u /\ LiveRound'
    BY <2>1, UsersAssumption DEF LiveRound, HasRound
  <2>4. UNCHANGED <<Seated, closed>>
    BY <2>1 DEF Seated
  <2>5. Turns!Install(u)
    BY <2>1, <2>2, <2>3, <2>4 DEF Turns!Install, Turns!seatVars, LiveRound, HasRound, Dealt, Untold
  <2>. QED
    BY <2>5, TurnDefs DEF Turns!Next
<1>6. ASSUME NEW u \in Users, OfferWords(u) PROVE TurnStep
  <2>1. /\ Do("offer", u) \in tasks /\ UNCHANGED <<phase, round, conn, closed>>
        /\ tasks' = tasks \ {Do("offer", u)}
    BY <1>6 DEF OfferWords, Nothing, roomVars, matchVars
  <2>2. u \in Untold /\ Dealt' = Dealt /\ Untold' = Untold \ {u}
    BY <2>1 DEF Dealt, Untold, Do
  <2>3. UNCHANGED <<Seated, closed>>
    BY <2>1 DEF Seated
  <2>4. Turns!Offer(u)
    BY <2>1, <2>2, <2>3 DEF Turns!Offer, Turns!seatVars, LiveRound, HasRound, Dealt, Untold
  <2>. QED
    BY <2>4, TurnDefs DEF Turns!Next
<1>7. ASSUME NEW u, NEW step \in Steps \ {"deal", "offer"}, NEW tm,
             Nothing(tm, tasks \ {Do(step, u)}), UNCHANGED roomVars
      PROVE  TurnStep
  BY <1>7, <1>b, NothingTurns
<1>8. ASSUME NEW u \in Users, AfterGuess(u) PROVE TurnStep
  <2>1. PICK tm : Nothing(tm, tasks \ {Do("guessed", u)}) /\ UNCHANGED roomVars
    BY <1>8 DEF AfterGuess
  <2>. QED
    BY <1>7, <2>1 DEF Steps
<1>9. CASE MatchCreated
  <2>1. /\ UNCHANGED <<phase, round, conn, closed>>
        /\ tasks' = (tasks \ {Do("created", Nobody)}) \cup {Do("countdown", Nobody)}
    BY <1>9 DEF MatchCreated, roomVars
  <2>2. SameDeals(tasks') /\ Seated' = Seated
    BY <1>c, <2>1 DEF Seated, Steps
  <2>. QED
    BY <2>1, <2>2, DealsSame, Unseen
<1>10. CASE BookCountdown \/ BookBuzzer \/ BookScoreboard \/ BookReturn
  <2>1. \E tm : \E step \in {"countdown", "buzzer", "scored", "finishing"} :
          Nothing(tm, tasks \ {Do(step, Nobody)}) /\ UNCHANGED roomVars
    BY <1>10 DEF BookCountdown, BookBuzzer, BookScoreboard, BookReturn
  <2>. QED
    BY <1>7, <2>1 DEF Steps
<1>. QED
  BY <1>1, <1>2, <1>3, <1>4, <1>5, <1>6, <1>8, <1>9, <1>10 DEF Continuation

LEMMA TurnsTimer ==
  ASSUME TypeOK, ClosedIsSilent, Undisturbed => Calm, Timer
  PROVE  TurnStep
<1>a. SameDeals(tasks)
  BY DEF SameDeals
<1>0. ASSUME NEW name, Fires(name)
      PROVE  /\ ~closed /\ UNCHANGED roomVars
             /\ Undisturbed => tasks = {} /\ name \in PhaseTimers(phase)
  BY <1>0 DEF Fires, ClosedIsSilent, TimersRun, Undisturbed, Calm, TimersFit
<1>1. ASSUME Undisturbed => tasks = {}, Undisturbed => phase \in {"starting", "roundEnd"}
      PROVE  Promptly
  BY <1>1 DEF Promptly, Calm, RoundFits, Dealt, Untold
<1>2. idx \in Nat /\ idx + 1 \in Nat /\ 0 \in Nat
  BY DEF TypeOK
<1>3. CASE CountdownFires
  <2>1. /\ ~closed /\ UNCHANGED roomVars /\ (Undisturbed => tasks = {} /\ phase = "starting")
        /\ BeginTurn(idx, curRound, timers \ {"startCountdown"}, tasks)
    BY <1>0, <1>3 DEF CountdownFires, PhaseTimers
  <2>. QED
    BY <1>1, <1>2, <1>a, <2>1, BeginTurnTurns
<1>4. CASE ChoiceFires
  <2>1. /\ ~closed /\ UNCHANGED roomVars /\ (Undisturbed => tasks = {})
        /\ ApplyWord(timers \ {"wordSelection"})
    BY <1>0, <1>4 DEF ChoiceFires
  <2>2. Undisturbed => Dealt = {} /\ Untold = {}
    BY <2>1 DEF Dealt, Untold
  <2>. QED
    BY <2>1, <2>2, ApplyWordTurns
<1>5. CASE BuzzerFires
  BY <1>0, <1>a, <1>5, EndTurnTurns DEF BuzzerFires
<1>6. CASE AllGuessedFires
  BY <1>0, <1>a, <1>6, EndTurnTurns DEF AllGuessedFires
<1>7. CASE ScoreboardFires
  <2> DEFINE tm == timers \ {"roundResult"}
  <2>1. ~closed /\ UNCHANGED roomVars /\ (Undisturbed => tasks = {} /\ phase = "roundEnd")
    BY <1>0, <1>7 DEF ScoreboardFires, PhaseTimers
  <2>2. \/ Nothing(tm, tasks) \/ Pause(tm, tasks)
        \/ BeginTurn(idx + 1, curRound, tm, tasks)
        \/ EndGame(idx + 1, curRound, tasks)
        \/ BeginTurn(0, curRound + 1, tm, tasks)
    BY <1>7 DEF ScoreboardFires
  <2>3. Promptly
    BY <1>1, <2>1
  <2> HIDE DEF tm
  <2>. QED
    BY <1>2, <1>a, <2>1, <2>2, <2>3, NothingTurns, PauseTurns, BeginTurnTurns, EndGameTurns
<1>8. CASE ReturnFires
  BY <1>0, <1>a, <1>8, LobbyTurns DEF ReturnFires
<1>9. CASE HoldExpires
  <2>1. UNCHANGED roomVars
    BY <1>9 DEF HoldExpires
  <2>2. CASE EndTurn(timers, tasks)
    BY <1>a, <2>1, <2>2, EndTurnTurns
  <2>3. CASE heldFor' = Nobody /\ UNCHANGED <<matchVars, timers, grace, tasks, histVars>>
    <3>1. UNCHANGED <<phase, round, closed, Seated, tasks>>
      BY <2>1, <2>3 DEF matchVars, roomVars, Seated
    <3>. QED
      BY <1>a, <3>1, DealsSame, Unseen
  <2>. QED
    BY <1>9, <2>2, <2>3 DEF HoldExpires
<1>10. CASE Sweep
  BY <1>a, <1>10, CloseTurns DEF Sweep
<1>11. ASSUME NEW u \in Users, GraceExpires(u) PROVE TurnStep
  <2>1. ~closed
    BY <1>11 DEF GraceExpires, ClosedIsSilent
  <2>2. CASE u \in Seated /\ RemovePlayer(u) /\ tasks' = tasks \cup {RemovalTask(u)}
    <3>1. SameDeals(tasks')
      BY <1>a, <2>2, OthersSame DEF RemovalTask, Steps
    <3>. QED
      BY <2>1, <2>2, <3>1, RemovalTurns
  <2>3. CASE UNCHANGED <<roomVars, matchVars, timers, heldFor, tasks, histVars>>
    <3>1. UNCHANGED <<phase, round, closed, Seated, tasks>>
      BY <2>3 DEF matchVars, roomVars, Seated
    <3>. QED
      BY <1>a, <3>1, DealsSame, Unseen
  <2>. QED
    BY <1>11, <2>2, <2>3 DEF GraceExpires
<1>. QED
  BY <1>3, <1>4, <1>5, <1>6, <1>7, <1>8, <1>9, <1>10, <1>11 DEF Timer

LEMMA TurnsRefined ==
  ASSUME TypeOK, ClosedIsSilent, Undisturbed => Calm, [Next]_vars
  PROVE  TurnStep
<1>1. CASE UNCHANGED vars
  <2>1. UNCHANGED <<phase, round, closed, Seated, tasks>>
    BY <1>1 DEF vars, Seated
  <2>2. SameDeals(tasks')
    BY <2>1 DEF SameDeals
  <2>. QED
    BY <2>1, <2>2, DealsSame, Unseen
<1>. QED
  BY <1>1, TurnsClient, TurnsContinuation, TurnsTimer DEF Next

LEMMA TurnsInit == Init => Turns!Init
<1> SUFFICES ASSUME Init PROVE Turns!Init
  OBVIOUS
<1>1. /\ phase = "lobby" /\ round = NoRound /\ closed = FALSE
  BY DEF Init, InitMatch
<1>2. Seated # {} /\ \A u \in Users : Do("deal", u) \notin tasks /\ Do("offer", u) \notin tasks
  <2>1. CASE Restored = {}
    BY <2>1 DEF Init, InitCreated, Seated, Do
  <2>2. CASE Restored # {}
    BY <2>2, RestoredAssumption DEF Init, InitHydrated, Seated
  <2>. QED
    BY <2>1, <2>2
<1>. QED
  BY <1>1, <1>2 DEF Turns!Init, NoRound, LiveRound, HasRound, Seated

\* Whatever the store's delays, the room the other services see is the one
\* RoomTurns describes: pen, turn and seats change by its steps and no others
\* (beginTurn, endTurn, pauseForMissingPlayers, joinRoom, removePlayer, close).
\* That a turn is dealt only when none is being set up (Prompt) is part of it
\* where handlers run to completion.
THEOREM EngineKeepsTurns == Spec => KeepsTurns
<1>1. TypeOK /\ ClosedIsSilent /\ (Undisturbed => Calm) /\ [Next]_vars => [Turns!Next]_(Turns!roomVars)
  BY TurnsRefined DEF TurnStep
<1>2. Init => Turns!Init
  BY TurnsInit
<1>3. Undisturbed /\ TypeOK /\ ClosedIsSilent /\ Calm /\ [Next]_vars => Calm'
  BY CalmStep
<1>4. Undisturbed /\ Init => Calm
  BY CalmInit
<1>5. CASE Undisturbed
  BY <1>1, <1>2, <1>3, <1>4, <1>5, TypeCorrect, ClosedStaysSilent, PTL
  DEF Spec, KeepsTurns, Turns!Spec
<1>6. CASE ~Undisturbed
  <2>1. TypeOK /\ ClosedIsSilent /\ [Next]_vars => [Turns!Next]_(Turns!roomVars)
    BY <1>1, <1>6
  <2>. QED
    BY <1>2, <2>1, TypeCorrect, ClosedStaysSilent, PTL DEF Spec, KeepsTurns, Turns!Spec
<1>. QED
  BY <1>5, <1>6

-----------------------------------------------------------------------------
(* Pauses and turns, while people come and go                               *)

\* The seat of an account being deleted, or of one that joins another room, is
\* taken without the engine being told: here the HTTP calls only join.
OnlyJoins == RestCalls \subseteq {"join"}

\* The departure that leaves a room short is still on its way to the engine.
Leaving == Pending("removed") \/ Pending("emptied")

\* Who has guessed is there to wait for; whoever is to draw, or draws, has a seat;
\* and a turn that nobody is left to wait for is about to end.
GuessersActive == guessed \subseteq ActivePlayers(conn)
DrawerAttends ==
  ~closed => \A d \in Users :
    Do("deal", d) \in tasks \/ (LiveRound /\ d = round.drawer) =>
      d \in Seated \/ Do("removed", d) \in tasks \/ Pending("emptied")
EarlyEndComing ==
  ~closed /\ phase = "drawing" /\ EveryoneGuessed(round.drawer) =>
    "allGuessed" \in timers \/ Pending("guessed") \/ Leaving
Attended == GuessersActive /\ PausedWhenShort /\ DrawerAttends /\ EarlyEndComing

\* Nobody's departure is under way.
Manned ==
  /\ phase \in LivePhases => HasEnough(conn)
  /\ LiveRound => round.drawer \in Seated
  /\ \A d \in Users : Do("deal", d) \in tasks => d \in Seated

LEMMA NoneLeaving ==
  ASSUME TypeOK, Attended, ~closed, \A t \in tasks : t.step \notin {"removed", "emptied"}
  PROVE  Manned
<1>1. ~Pending("emptied") /\ ~Pending("removed") /\ \A d : Do("removed", d) \notin tasks
  BY DEF Pending, Do
<1>2. LiveRound => round.drawer \in Users
  BY DEF LiveRound, HasRound, TypeOK, Round
<1>. QED
  BY <1>1, <1>2 DEF Attended, PausedWhenShort, DrawerAttends, Manned

LEMMA SameRoom ==
  ASSUME UNCHANGED roomVars
  PROVE  /\ UNCHANGED <<conn, closed, Seated>> /\ UNCHANGED ActivePlayers(conn)
         /\ HasEnough(conn)' <=> HasEnough(conn)
BY DEF roomVars, Seated, ActivePlayers, HasEnough

LEMMA IdleAttended ==
  ASSUME UNCHANGED roomVars, ~LiveRound', phase' # "drawing", \A t \in tasks' : t.step # "deal",
         GuessersActive', phase' \in LivePhases => HasEnough(conn)
  PROVE  Attended'
<1>1. PausedWhenShort'
  BY SameRoom DEF PausedWhenShort
<1>2. DrawerAttends'
  BY DEF DrawerAttends, Do
<1>3. EarlyEndComing'
  BY DEF EarlyEndComing
<1>. QED
  BY <1>1, <1>2, <1>3 DEF Attended

LEMMA PauseAttended ==
  ASSUME UNCHANGED roomVars, NEW tm, NEW ts, ts = {}, Pause(tm, ts)
  PROVE  Attended'
<1>1. phase' = "paused" /\ ~LiveRound' /\ guessed' = {} /\ tasks' = {}
  BY DEF Pause, LiveRound, HasRound, NoRound
<1>. QED
  BY <1>1, IdleAttended DEF GuessersActive, LivePhases

LEMMA EndTurnAttended ==
  ASSUME TypeOK, Attended, UNCHANGED roomVars, LiveRound, ~closed, phase # "paused",
         HasEnough(conn), NEW tm, NEW ts, ts = {}, EndTurn(tm, ts)
  PROVE  Attended'
<1>1. /\ phase' = "roundEnd" /\ round' = [round EXCEPT !.ended = TRUE] /\ guessed' = guessed
      /\ tasks' = {Do("scored", Nobody)}
  BY DEF EndTurn
<1>2. ~LiveRound'
  BY <1>1 DEF TypeOK, Round, LiveRound
<1>3. GuessersActive'
  BY <1>1, SameRoom DEF Attended, GuessersActive
<1>. QED
  BY <1>1, <1>2, <1>3, IdleAttended DEF Do

LEMMA EndGameAttended ==
  ASSUME Attended, UNCHANGED roomVars, NEW i, NEW r, NEW ts, ts = {}, EndGame(i, r, ts)
  PROVE  Attended'
<1>1. phase' = "gameEnd" /\ round' = NoRound /\ guessed' = guessed /\ tasks' = {Do("finishing", Nobody)}
  BY DEF EndGame
<1>2. GuessersActive'
  BY <1>1, SameRoom DEF Attended, GuessersActive
<1>. QED
  BY <1>1, <1>2, IdleAttended DEF Do, LivePhases, LiveRound, HasRound, NoRound

LEMMA DealAttended ==
  ASSUME TypeOK, UNCHANGED roomVars, ~LiveRound, HasEnough(conn),
         NEW i \in Nat, NEW r, NEW tm, NEW ts, ts = {}, DealFrom(i, r, tm, ts)
  PROVE  Attended'
<1>1. PICK k \in StillSeated(i) : Deal(k, r, tm, ts)
  BY DEF DealFrom
<1>2. order[k] \in Seated
  BY DEF StillSeated
<1>3. /\ phase' = "wordSelection" /\ guessed' = {} /\ UNCHANGED round
      /\ tasks' = {Do("deal", order[k])}
  BY <1>1 DEF Deal
<1>4. GuessersActive' /\ EarlyEndComing' /\ PausedWhenShort'
  BY <1>3, SameRoom DEF GuessersActive, EarlyEndComing, PausedWhenShort
<1>5. ~LiveRound' /\ Seated' = Seated
  BY <1>3, SameRoom DEF LiveRound, HasRound
<1>6. DrawerAttends'
  BY <1>2, <1>3, <1>5 DEF DrawerAttends, Do
<1>. QED
  BY <1>4, <1>6 DEF Attended

LEMMA EndsAttended ==
  ASSUME TypeOK, Attended, Manned, UNCHANGED <<roomVars, phase, round, guessed>>, tasks' = {},
         phase = "drawing" /\ EveryoneGuessed(round.drawer) => "allGuessed" \in timers'
  PROVE  Attended'
<1>1. UNCHANGED <<phase, round, guessed, LiveRound>> /\ UNCHANGED roomVars
  BY DEF LiveRound, HasRound
<1>2. GuessersActive' /\ PausedWhenShort'
  BY <1>1, SameRoom DEF Attended, Manned, GuessersActive, PausedWhenShort
<1>3. DrawerAttends'
  BY <1>1, SameRoom DEF Manned, DrawerAttends
<1>4. EarlyEndComing'
  BY <1>1, SameRoom DEF EarlyEndComing, EveryoneGuessed, Guessers
<1>. QED
  BY <1>2, <1>3, <1>4 DEF Attended

LEMMA BeginTurnAttended ==
  ASSUME TypeOK, Calm, Attended, ~closed, UNCHANGED roomVars, phase \in {"starting", "roundEnd"},
         tasks = {}, NEW i \in Nat, NEW r, NEW tm, NEW ts, ts = {}, BeginTurn(i, r, tm, ts)
  PROVE  Attended'
<1>1. ~LiveRound /\ phase \in LivePhases /\ HasEnough(conn)
  BY NoneLeaving DEF Calm, RoundFits, LivePhases, Manned
<1>2. DealFrom(i, r, tm, ts) \/ DealFrom(0, r + 1, tm, ts) \/ \E j, q : EndGame(j, q, ts)
  BY <1>1 DEF BeginTurn
<1>. QED
  BY <1>1, <1>2, DealAttended, EndGameAttended

LEMMA ApplyWordAttended ==
  ASSUME TypeOK, Calm, Attended, ~closed, tasks = {}, UNCHANGED roomVars,
         phase = "wordSelection", NEW tm, ApplyWord(tm)
  PROVE  Attended'
<1>1. Manned /\ LiveRound /\ guessed = {}
  BY NoneLeaving DEF Calm, RoundFits, Waits
<1>2. /\ phase' = "drawing" /\ round' = [round EXCEPT !.worded = TRUE]
      /\ tasks' = {Do("buzzer", Nobody)} /\ UNCHANGED guessed
  BY <1>1 DEF ApplyWord
<1>3. round'.drawer = round.drawer
  BY <1>2 DEF TypeOK, Round
<1>4. GuessersActive' /\ PausedWhenShort'
  BY <1>1, <1>2, SameRoom DEF Manned, GuessersActive, PausedWhenShort, LivePhases
<1>5. DrawerAttends'
  BY <1>1, <1>2, <1>3, SameRoom DEF Manned, DrawerAttends, Do
<1>6. EarlyEndComing'
  BY <1>1, <1>2 DEF EarlyEndComing, EveryoneGuessed
<1>. QED
  BY <1>4, <1>5, <1>6 DEF Attended

\* Somebody comes in, or comes back.
LEMMA MoreActive ==
  ASSUME TypeOK, NEW u \in Users, NEW c \in Connections \ {"absent", "disconnected"},
         conn' = [conn EXCEPT ![u] = c]
  PROVE  /\ ActivePlayers(conn) \subseteq ActivePlayers(conn') /\ Seated \subseteq Seated'
         /\ HasEnough(conn) => HasEnough(conn')
<1>1. ActivePlayers(conn) \subseteq ActivePlayers(conn') /\ Seated \subseteq Seated'
  BY DEF ActivePlayers, Seated, TypeOK
<1>2. ActivePlayers(conn') \subseteq Users /\ IsFiniteSet(Users)
  BY UsersAssumption DEF ActivePlayers
<1>3. IsFiniteSet(ActivePlayers(conn'))
  BY <1>2, FS_Subset
<1>4. /\ Cardinality(ActivePlayers(conn)) <= Cardinality(ActivePlayers(conn'))
      /\ Cardinality(ActivePlayers(conn)) \in Nat /\ Cardinality(ActivePlayers(conn')) \in Nat
  BY <1>1, <1>3, FS_Subset, FS_CardinalityType
<1>5. \A c1 : HasEnough(c1) <=> Cardinality(ActivePlayers(c1)) >= 2
  BY DEF HasEnough, MinPlayers
<1>6. HasEnough(conn) => HasEnough(conn')
  BY <1>4, <1>5
<1>. QED
  BY <1>1, <1>6

LEMMA ComesAttended ==
  ASSUME TypeOK, Attended, Manned,
         UNCHANGED <<closed, phase, round, guessed, timers>>,
         ActivePlayers(conn) \subseteq ActivePlayers(conn'), Seated \subseteq Seated',
         HasEnough(conn) => HasEnough(conn'), \A t \in tasks' : t.step # "deal",
         tasks = {} \/ \A t \in tasks : t.step = "enter"
  PROVE  Attended'
<1>1. GuessersActive' /\ PausedWhenShort'
  BY DEF Attended, Manned, GuessersActive, PausedWhenShort
<1>2. UNCHANGED LiveRound
  BY DEF LiveRound, HasRound
<1>3. DrawerAttends'
  BY <1>2 DEF Manned, DrawerAttends, Do
<1>4. EveryoneGuessed(round.drawer)' => EveryoneGuessed(round.drawer)
  BY DEF EveryoneGuessed, Guessers, Attended, GuessersActive
<1>5. ~Pending("guessed") /\ ~Leaving
  BY DEF Pending, Leaving, Do
<1>6. EarlyEndComing'
  BY <1>4, <1>5 DEF Attended, EarlyEndComing
<1>. QED
  BY <1>1, <1>3, <1>6 DEF Attended

LEMMA AttachAttended ==
  ASSUME TypeOK, Calm, Attended, ~closed, NEW u \in Users, NEW ts, ts = {}, AttachAndResume(u, ts),
         tasks = {} \/ \A t \in tasks : t.step = "enter"
  PROVE  Attended'
<1>1. Manned
  BY NoneLeaving
<1>2. /\ UNCHANGED <<closed, round, guessed, timers>>
      /\ conn' = [conn EXCEPT ![u] = "connected"] \/ conn' = conn
      /\ Resume(conn', ts)
  BY DEF AttachAndResume
<1>3. /\ ActivePlayers(conn) \subseteq ActivePlayers(conn') /\ Seated \subseteq Seated'
      /\ HasEnough(conn) => HasEnough(conn')
  <2>1. CASE conn' = conn
    BY <2>1 DEF Seated, ActivePlayers, HasEnough
  <2>. QED
    BY <1>2, <2>1, MoreActive DEF Connections
<1>4. CASE phase = "paused" /\ HasEnough(conn')
  <2>1. phase' = "starting" /\ tasks' = {Do("countdown", Nobody)}
    BY <1>2, <1>4 DEF Resume
  <2>2. ~LiveRound'
    BY <1>2, <1>4 DEF Calm, RoundFits, LiveRound, HasRound
  <2>3. GuessersActive' /\ PausedWhenShort' /\ EarlyEndComing'
    BY <1>2, <1>3, <1>4, <2>1 DEF Attended, GuessersActive, PausedWhenShort, EarlyEndComing
  <2>4. DrawerAttends'
    BY <2>1, <2>2 DEF DrawerAttends, Do
  <2>. QED
    BY <2>3, <2>4 DEF Attended
<1>5. CASE ~(phase = "paused" /\ HasEnough(conn'))
  <2>1. tasks' = {} /\ UNCHANGED phase
    BY <1>2, <1>5 DEF Resume
  <2>. QED
    BY <1>1, <1>2, <1>3, <2>1, ComesAttended
<1>. QED
  BY <1>4, <1>5

LEMMA RemovalAttended ==
  ASSUME TypeOK, Attended, ~closed, tasks = {}, NEW u \in Users, RemovePlayer(u), UNCHANGED timers,
         tasks' = {RemovalTask(u)}
  PROVE  Attended'
<1>1. /\ conn' = [conn EXCEPT ![u] = "absent"] /\ guessed' = guessed \ {u}
      /\ UNCHANGED <<closed, phase, round>>
  BY DEF RemovePlayer
<1>2. Do("removed", u) \in tasks' \/ Do("emptied", u) \in tasks'
  BY DEF RemovalTask
<1>3. Leaving'
  BY <1>2 DEF Leaving, Pending
<1>4. GuessersActive'
  BY <1>1 DEF Attended, GuessersActive, ActivePlayers, TypeOK
<1>5. PausedWhenShort' /\ EarlyEndComing'
  BY <1>3 DEF PausedWhenShort, EarlyEndComing, Leaving
<1>6. Manned
  BY NoneLeaving
<1>7. Seated' = Seated \ {u} /\ UNCHANGED LiveRound
  BY <1>1 DEF Seated, TypeOK, LiveRound, HasRound
<1>8. \A d : Do("deal", d) \notin tasks'
  BY DEF RemovalTask, Do
<1>9. DrawerAttends'
  BY <1>1, <1>2, <1>6, <1>7, <1>8 DEF Manned, DrawerAttends, Pending
<1>. QED
  BY <1>4, <1>5, <1>9 DEF Attended

LEMMA CloseAttended ==
  ASSUME Attended, NEW ts, Close(ts)
  PROVE  Attended'
<1>1. closed' = TRUE /\ UNCHANGED <<conn, guessed>>
  BY DEF Close, matchVars
<1>. QED
  BY <1>1 DEF Attended, GuessersActive, PausedWhenShort, DrawerAttends, EarlyEndComing

LEMMA StartAttended ==
  ASSUME Calm, UNCHANGED roomVars, phase = "lobby", HasEnough(conn), NEW ts, ts = {}, StartMatch(ts)
  PROVE  Attended'
<1>1. /\ phase' = "starting" /\ guessed' = {} /\ tasks' = {Do("created", Nobody)}
      /\ UNCHANGED round
  BY DEF StartMatch
<1>2. ~LiveRound'
  BY <1>1 DEF Calm, RoundFits, LiveRound, HasRound
<1>. QED
  BY <1>1, <1>2, IdleAttended DEF GuessersActive, Do

LEMMA LobbyAttended ==
  ASSUME UNCHANGED roomVars, NEW tm, NEW ts, \A t \in ts : t.step = "replay", ResetToLobby(tm, ts)
  PROVE  Attended'
<1>1. phase' = "lobby" /\ round' = NoRound /\ guessed' = {} /\ tasks' = ts
  BY DEF ResetToLobby
<1>. QED
  BY <1>1, IdleAttended DEF GuessersActive, LivePhases, LiveRound, HasRound, NoRound

\* A step that changes the seats of nobody.
LEMMA SeatedAttended ==
  ASSUME TypeOK, Attended, ~closed, tasks = {}, tasks' = {},
         UNCHANGED <<closed, phase, round, guessed, timers>>,
         UNCHANGED Seated, UNCHANGED ActivePlayers(conn)
  PROVE  Attended'
<1>1. Manned
  BY NoneLeaving
<1>2. UNCHANGED <<LiveRound, HasEnough(conn)>>
  BY DEF LiveRound, HasRound, HasEnough
<1>3. GuessersActive' /\ PausedWhenShort'
  BY <1>1, <1>2 DEF Attended, Manned, GuessersActive, PausedWhenShort
<1>4. DrawerAttends'
  BY <1>1, <1>2 DEF Manned, DrawerAttends
<1>5. EarlyEndComing'
  BY DEF Attended, EarlyEndComing, EveryoneGuessed, Guessers, Pending, Leaving
<1>. QED
  BY <1>3, <1>4, <1>5 DEF Attended

LEMMA AttendedClient ==
  ASSUME Undisturbed, OnlyJoins, TypeOK, Calm, Attended, NEW u \in Users, Client(u)
  PROVE  Attended'
<1>0. ClientsRun => ~closed /\ tasks = {}
  BY DEF ClientsRun, Undisturbed
<1>1. CASE Join(u) \/ Rejoin(u) \/ RestJoin(u)
  <2>1. /\ ~closed /\ tasks = {} /\ conn' = [conn EXCEPT ![u] = "seated"]
        /\ UNCHANGED <<closed, phase, round, guessed, timers>>
        /\ tasks' \in {{}, {Do("enter", u)}}
    BY <1>0, <1>1 DEF Join, Rejoin, RestJoin, matchVars, asyncVars
  <2>2. Manned
    BY <2>1, NoneLeaving
  <2>3. \A t \in tasks' : t.step # "deal"
    BY <2>1 DEF Do
  <2>4. /\ ActivePlayers(conn) \subseteq ActivePlayers(conn') /\ Seated \subseteq Seated'
        /\ HasEnough(conn) => HasEnough(conn')
    BY <2>1, MoreActive DEF Connections
  <2>. QED
    BY <2>1, <2>2, <2>3, <2>4, ComesAttended
<1>2. CASE Reconnect(u)
  BY <1>0, <1>2, AttachAttended DEF Reconnect
<1>3. CASE Disconnect(u)
  <2>1. /\ ~closed /\ tasks = {} /\ tasks' = {} /\ conn[u] = "connected"
        /\ conn' = [conn EXCEPT ![u] = "reconnecting"]
        /\ UNCHANGED <<closed, phase, round, guessed, timers>>
    BY <1>0, <1>3 DEF Disconnect, HasSocket, matchVars
  <2>2. UNCHANGED Seated /\ UNCHANGED ActivePlayers(conn)
    BY <2>1 DEF Seated, ActivePlayers, TypeOK
  <2>. QED
    BY <2>1, <2>2, SeatedAttended
<1>4. CASE Leave(u)
  BY <1>0, <1>4, RemovalAttended DEF Leave
<1>5. ~Vacate(u) /\ ~Evict(u)
  BY DEF Vacate, Evict, OnlyJoins
<1>6. CASE EndRoom(u)
  BY <1>6, CloseAttended DEF EndRoom
<1>7. CASE \E v \in Users : TransferHost(u, v)
  <2>1. /\ ~closed /\ tasks = {} /\ tasks' = {}
        /\ UNCHANGED <<conn, closed, phase, round, guessed, timers>>
    BY <1>0, <1>7 DEF TransferHost, matchVars, asyncVars
  <2>2. UNCHANGED Seated /\ UNCHANGED ActivePlayers(conn)
    BY <2>1 DEF Seated, ActivePlayers
  <2>. QED
    BY <2>1, <2>2, SeatedAttended
<1>8. CASE StartGame(u)
  <2>1. phase = "lobby" /\ HasEnough(conn) /\ tasks = {} /\ StartMatch(tasks) /\ UNCHANGED roomVars
    BY <1>0, <1>8 DEF StartGame, MayStart, Undisturbed
  <2>. QED
    BY <2>1, StartAttended
<1>9. CASE PlayAgain(u)
  <2>1. /\ ResetToLobby(timers, tasks \cup {Do("replay", u)}) /\ UNCHANGED roomVars
        /\ \A t \in tasks \cup {Do("replay", u)} : t.step = "replay"
    BY <1>0, <1>9 DEF PlayAgain, Do
  <2>. QED
    BY <2>1, LobbyAttended
<1>10. CASE SelectWord(u)
  BY <1>0, <1>10, ApplyWordAttended DEF SelectWord
<1>11. CASE Guess(u)
  <2>1. /\ ~closed /\ tasks = {} /\ guessed' = guessed \cup {u} /\ conn[u] = "connected"
        /\ round' = [round EXCEPT !.correct = Append(@, u)]
        /\ tasks' = {Do("guessed", round.drawer)}
        /\ UNCHANGED <<roomVars, phase>>
    BY <1>0, <1>11 DEF Guess, HasSocket
  <2>2. round'.drawer = round.drawer /\ round'.ended = round.ended
    BY <2>1 DEF TypeOK, Round
  <2>3. Manned
    BY <2>1, NoneLeaving
  <2>4. GuessersActive'
    BY <2>1, SameRoom DEF Attended, GuessersActive, ActivePlayers
  <2>5. PausedWhenShort'
    BY <2>1, <2>3, SameRoom DEF Manned, PausedWhenShort
  <2>6. DrawerAttends'
    BY <2>1, <2>2, <2>3, SameRoom DEF Manned, DrawerAttends, LiveRound, HasRound, Do
  <2>7. Pending("guessed")'
    BY <2>1 DEF Pending, TypeOK, Round
  <2>. QED
    BY <2>4, <2>5, <2>6, <2>7 DEF Attended, EarlyEndComing
<1>. QED
  BY <1>1, <1>2, <1>3, <1>4, <1>5, <1>6, <1>7, <1>8, <1>9, <1>10, <1>11 DEF Client

LEMMA AttendedContinuation ==
  ASSUME Undisturbed, OnlyJoins, TypeOK, Calm, Attended, Continuation
  PROVE  Attended'
<1>0. \A step, u : Do(step, u).step = step /\ Do(step, u).who = u
  BY DEF Do
<1>t. ASSUME NEW step, NEW u, Do(step, u) \in tasks
      PROVE  /\ tasks \ {Do(step, u)} = {} /\ ~closed /\ \A t \in tasks : t.step = step /\ t.who = u
             /\ step \notin {"removed", "emptied"} => Manned
  <2>1. /\ tasks \ {Do(step, u)} = {} /\ ~closed /\ \A t \in tasks : t.step = step /\ t.who = u
    BY <1>0, <1>t, OnlyTask
  <2>2. step \notin {"removed", "emptied"} => Manned
    BY <2>1, NoneLeaving
  <2>. QED
    BY <2>1, <2>2
<1>1. ASSUME NEW u \in Users, Enter(u) PROVE Attended'
  <2>1. /\ ~closed /\ tasks \ {Do("enter", u)} = {} /\ (\A t \in tasks : t.step = "enter")
        /\ AttachAndResume(u, tasks \ {Do("enter", u)})
    BY <1>1, <1>t DEF Enter
  <2>. QED
    BY <2>1, AttachAttended
<1>2. ASSUME NEW u \in Users, PlayerLeft(u) PROVE Attended'
  <2> DEFINE rest == tasks \ {Do("removed", u)}
  <2>1. /\ rest = {} /\ ~closed /\ UNCHANGED roomVars /\ Do("removed", u) \in tasks
        /\ \A t \in tasks : t.step = "removed" /\ t.who = u
    BY <1>2, <1>t DEF PlayerLeft
  <2>2. \/ Pause(timers, rest)
        \/ ~MustPause /\ EndsTurn(u) /\ EndTurn(timers, rest)
        \/ ~MustPause /\ ~EndsTurn(u) /\ Nothing(timers, rest)
    BY <1>2, <2>1 DEF PlayerLeft
  <2> HIDE DEF rest
  <2>3. CASE Pause(timers, rest)
    BY <2>1, <2>3, PauseAttended
  <2>4. CASE ~MustPause /\ EndsTurn(u) /\ EndTurn(timers, rest)
    <3>1. LiveRound /\ phase # "paused" /\ HasEnough(conn)
      BY <2>4 DEF EndsTurn, MustPause, Calm, RoundFits, LivePhases
    <3>. QED
      BY <2>1, <2>4, <3>1, EndTurnAttended
  <2>5. CASE ~MustPause /\ ~EndsTurn(u) /\ Nothing(timers, rest)
    <3>1. /\ tasks' = {} /\ timers' = timers /\ UNCHANGED <<roomVars, phase, round, guessed>>
      BY <2>1, <2>5 DEF Nothing, matchVars
    <3>2. \A d \in Users : Do("deal", d) \notin tasks /\ (d # u => Do("removed", d) \notin tasks)
      BY <1>0, <2>1
    <3>3. ~Pending("emptied") /\ (LiveRound => round.drawer \in Users)
      BY <1>0, <2>1 DEF Pending, LiveRound, HasRound, TypeOK, Round
    <3>4. LiveRound => round.drawer \in Seated
      BY <2>1, <2>5, <3>2, <3>3 DEF EndsTurn, Attended, DrawerAttends
    <3>5. Manned
      BY <2>5, <3>2, <3>4 DEF Manned, MustPause
    <3>6. ~(phase = "drawing" /\ EveryoneGuessed(round.drawer))
      BY <2>5 DEF EndsTurn, Calm, RoundFits
    <3>. QED
      BY <3>1, <3>5, <3>6, EndsAttended
  <2>. QED
    BY <2>2, <2>3, <2>4, <2>5
<1>3. ASSUME NEW u \in Users, CloseEmptied(u) PROVE Attended'
  <2>1. ~closed
    BY <1>3, <1>t DEF CloseEmptied
  <2>. QED
    BY <1>3, <2>1, CloseAttended DEF CloseEmptied
\* A handler that books a timer and ends.
<1>4. ASSUME NEW u, NEW step, step \notin {"removed", "emptied"}, NEW tm, Do(step, u) \in tasks,
             Nothing(tm, tasks \ {Do(step, u)}), UNCHANGED roomVars,
             phase = "drawing" /\ EveryoneGuessed(round.drawer) => "allGuessed" \in tm
      PROVE  Attended'
  <2>1. tasks \ {Do(step, u)} = {} /\ Manned
    BY <1>4, <1>t
  <2>2. /\ tasks' = {} /\ timers' = tm /\ UNCHANGED <<roomVars, phase, round, guessed>>
    BY <1>4, <2>1 DEF Nothing, matchVars
  <2>. QED
    BY <1>4, <2>1, <2>2, EndsAttended
<1>5. ASSUME NEW u, NEW step, step \notin Aside \cup {"buzzer", "guessed"}, Do(step, u) \in tasks
      PROVE  phase # "drawing"
  BY <1>0, <1>5 DEF Calm, TasksFit, PhaseSteps
<1>6. ASSUME NEW u \in Users, Replay(u) PROVE Attended'
  <2>1. /\ Do("replay", u) \in tasks /\ tasks \ {Do("replay", u)} = {} /\ UNCHANGED roomVars
    BY <1>6, <1>t DEF Replay
  <2>2. phase = "lobby"
    BY <1>0, <2>1 DEF Calm, TasksFit, PhaseSteps, Aside
  <2>3. CASE MayStart(u) /\ StartMatch(tasks \ {Do("replay", u)})
    BY <2>1, <2>2, <2>3, StartAttended DEF MayStart
  <2>4. CASE Nothing(timers, tasks \ {Do("replay", u)})
    BY <1>4, <2>1, <2>2, <2>4
  <2>. QED
    BY <1>6, <2>3, <2>4 DEF Replay
<1>7. ASSUME NEW u \in Users, OpenRound(u) PROVE Attended'
  <2>1. /\ Do("deal", u) \in tasks /\ tasks \ {Do("deal", u)} = {} /\ Manned
        /\ UNCHANGED <<roomVars, phase, guessed>>
        /\ round' = [drawer |-> u, worded |-> FALSE, ended |-> FALSE, correct |-> << >>]
        /\ tasks' = (tasks \ {Do("deal", u)}) \cup {Do("offer", u)}
    BY <1>7, <1>t DEF OpenRound
  <2>2. phase = "wordSelection" /\ u \in Seated
    BY <1>0, <2>1 DEF Calm, TasksFit, PhaseSteps, Aside, Manned
  <2>3. GuessersActive' /\ PausedWhenShort' /\ EarlyEndComing'
    BY <2>1, <2>2, SameRoom DEF Attended, GuessersActive, PausedWhenShort, Manned, EarlyEndComing
  <2>4. DrawerAttends'
    BY <2>1, <2>2, SameRoom DEF DrawerAttends, LiveRound, HasRound, Do
  <2>. QED
    BY <2>3, <2>4 DEF Attended
<1>8. ASSUME NEW u \in Users, OfferWords(u) PROVE Attended'
  <2>1. /\ Do("offer", u) \in tasks /\ UNCHANGED roomVars
        /\ Nothing(Book(timers, "wordSelection"), tasks \ {Do("offer", u)})
    BY <1>8 DEF OfferWords
  <2>2. phase # "drawing"
    BY <1>5, <2>1 DEF Aside
  <2>. QED
    BY <1>4, <2>1, <2>2
<1>9. ASSUME NEW u \in Users, AfterGuess(u) PROVE Attended'
  <2> DEFINE tm == IF EveryoneGuessed(u) THEN Book(timers, "allGuessed") ELSE timers
  <2>1. /\ Do("guessed", u) \in tasks /\ UNCHANGED roomVars /\ ~closed
        /\ Nothing(tm, tasks \ {Do("guessed", u)})
    BY <1>9, <1>t DEF AfterGuess
  <2>2. u = round.drawer
    BY <1>0, <2>1 DEF Calm, RoundFits
  <2>3. EveryoneGuessed(round.drawer) => "allGuessed" \in tm
    BY <2>1, <2>2 DEF Book
  <2> HIDE DEF tm
  <2>. QED
    BY <1>4, <2>1, <2>3
<1>10. CASE MatchCreated
  <2>1. /\ Do("created", Nobody) \in tasks /\ tasks \ {Do("created", Nobody)} = {} /\ Manned
        /\ UNCHANGED <<roomVars, phase, round, guessed>>
        /\ tasks' = (tasks \ {Do("created", Nobody)}) \cup {Do("countdown", Nobody)}
    BY <1>10, <1>t DEF MatchCreated
  <2>2. phase = "starting" /\ ~LiveRound
    BY <1>0, <2>1 DEF Calm, TasksFit, PhaseSteps, Aside, RoundFits
  <2>3. GuessersActive' /\ ~LiveRound'
    BY <2>1, <2>2, SameRoom DEF Attended, GuessersActive, LiveRound, HasRound
  <2>. QED
    BY <2>1, <2>2, <2>3, IdleAttended DEF Manned, Do
<1>11. CASE BookCountdown
  <2>1. /\ Do("countdown", Nobody) \in tasks /\ UNCHANGED roomVars
        /\ Nothing(Book(timers, "startCountdown"), tasks \ {Do("countdown", Nobody)})
    BY <1>11 DEF BookCountdown
  <2>2. phase # "drawing"
    BY <1>5, <2>1 DEF Aside
  <2>. QED
    BY <1>4, <2>1, <2>2
<1>12. CASE BookBuzzer
  <2>1. /\ Do("buzzer", Nobody) \in tasks /\ UNCHANGED roomVars
        /\ Nothing(Book(timers, "turn"), tasks \ {Do("buzzer", Nobody)})
    BY <1>12 DEF BookBuzzer
  <2>2. guessed = {}
    BY <1>0, <2>1 DEF Calm, RoundFits, Waits
  <2>3. ~EveryoneGuessed(round.drawer)
    BY <2>2 DEF EveryoneGuessed
  <2>. QED
    BY <1>4, <2>1, <2>3
<1>13. CASE BookScoreboard
  <2>1. /\ Do("scored", Nobody) \in tasks /\ UNCHANGED roomVars
        /\ Nothing(Book(timers, "roundResult"), tasks \ {Do("scored", Nobody)})
    BY <1>13 DEF BookScoreboard
  <2>2. phase # "drawing"
    BY <1>5, <2>1 DEF Aside
  <2>. QED
    BY <1>4, <2>1, <2>2
<1>14. CASE BookReturn
  <2>1. /\ Do("finishing", Nobody) \in tasks /\ UNCHANGED roomVars
        /\ Nothing(Book(timers, "gameEnd"), tasks \ {Do("finishing", Nobody)})
    BY <1>14 DEF BookReturn
  <2>2. phase # "drawing"
    BY <1>5, <2>1 DEF Aside
  <2>. QED
    BY <1>4, <2>1, <2>2
<1>. QED
  BY <1>1, <1>2, <1>3, <1>6, <1>7, <1>8, <1>9, <1>10, <1>11, <1>12, <1>13, <1>14
  DEF Continuation

LEMMA AttendedTimer ==
  ASSUME Undisturbed, TypeOK, ClosedIsSilent, Calm, Attended, Timer
  PROVE  Attended'
<1>0. TimersRun => tasks = {} /\ (~closed => Manned)
  BY NoneLeaving DEF TimersRun, Undisturbed
<1>1. ASSUME NEW name, Fires(name)
      PROVE  tasks = {} /\ ~closed /\ Manned /\ name \in PhaseTimers(phase) /\ UNCHANGED roomVars
  BY <1>0, <1>1 DEF Fires, ClosedIsSilent, Calm, TimersFit
<1>2. idx \in Nat /\ idx + 1 \in Nat /\ 0 \in Nat
  BY DEF TypeOK
<1>3. CASE CountdownFires
  <2>1. /\ tasks = {} /\ ~closed /\ phase = "starting" /\ UNCHANGED roomVars
        /\ BeginTurn(idx, curRound, timers \ {"startCountdown"}, tasks)
    BY <1>1, <1>3 DEF CountdownFires, PhaseTimers
  <2>. QED
    BY <1>2, <2>1, BeginTurnAttended
<1>4. CASE ChoiceFires
  <2>1. /\ tasks = {} /\ ~closed /\ phase = "wordSelection" /\ UNCHANGED roomVars
        /\ ApplyWord(timers \ {"wordSelection"})
    BY <1>1, <1>4 DEF ChoiceFires, PhaseTimers
  <2>. QED
    BY <2>1, ApplyWordAttended
<1>5. CASE BuzzerFires \/ AllGuessedFires
  <2>1. /\ tasks = {} /\ ~closed /\ Manned /\ phase = "drawing" /\ UNCHANGED roomVars
        /\ \E tm : EndTurn(tm, tasks)
    BY <1>1, <1>5 DEF BuzzerFires, AllGuessedFires, PhaseTimers
  <2>2. LiveRound /\ HasEnough(conn)
    BY <2>1 DEF Calm, RoundFits, Manned, LivePhases
  <2>. QED
    BY <2>1, <2>2, EndTurnAttended
<1>6. CASE ScoreboardFires
  <2> DEFINE tm == timers \ {"roundResult"}
  <2>1. tasks = {} /\ ~closed /\ phase = "roundEnd" /\ UNCHANGED roomVars
    BY <1>1, <1>6 DEF ScoreboardFires, PhaseTimers
  <2>2. \/ Pause(tm, tasks)
        \/ BeginTurn(idx + 1, curRound, tm, tasks)
        \/ EndGame(idx + 1, curRound, tasks)
        \/ BeginTurn(0, curRound + 1, tm, tasks)
    BY <1>6, <2>1 DEF ScoreboardFires, LivePhases
  <2> HIDE DEF tm
  <2>. QED
    BY <1>2, <2>1, <2>2, PauseAttended, BeginTurnAttended, EndGameAttended
<1>7. CASE ReturnFires
  BY <1>1, <1>7, LobbyAttended DEF ReturnFires
<1>8. CASE HoldExpires
  <2>1. tasks = {} /\ ~closed /\ Manned /\ UNCHANGED roomVars
    BY <1>0, <1>8 DEF HoldExpires, ClosedIsSilent
  <2>2. CASE LiveRound /\ phase # "paused" /\ EndTurn(timers, tasks)
    <3>1. HasEnough(conn)
      BY <2>1, <2>2 DEF Calm, RoundFits, Manned, LivePhases
    <3>. QED
      BY <2>1, <2>2, <3>1, EndTurnAttended
  <2>3. CASE heldFor' = Nobody /\ UNCHANGED <<matchVars, timers, grace, tasks, histVars>>
    <3>1. UNCHANGED <<closed, phase, round, guessed, timers, Seated>> /\ UNCHANGED ActivePlayers(conn)
      BY <2>1, <2>3, SameRoom DEF matchVars
    <3>. QED
      BY <2>1, <2>3, <3>1, SeatedAttended
  <2>. QED
    BY <1>8, <2>2, <2>3 DEF HoldExpires
<1>9. CASE Sweep
  BY <1>9, CloseAttended DEF Sweep
<1>10. ASSUME NEW u \in Users, GraceExpires(u) PROVE Attended'
  <2>1. tasks = {} /\ ~closed
    BY <1>0, <1>10 DEF GraceExpires, ClosedIsSilent
  <2>2. CASE RemovePlayer(u) /\ tasks' = tasks \cup {RemovalTask(u)} /\ UNCHANGED timers
    BY <2>1, <2>2, RemovalAttended
  <2>3. CASE UNCHANGED <<roomVars, matchVars, timers, heldFor, tasks, histVars>>
    <3>1. UNCHANGED <<closed, phase, round, guessed, timers, tasks, Seated>> /\ UNCHANGED ActivePlayers(conn)
      BY <2>3, SameRoom DEF matchVars
    <3>. QED
      BY <2>1, <3>1, SeatedAttended
  <2>. QED
    BY <1>10, <2>2, <2>3 DEF GraceExpires
<1>. QED
  BY <1>3, <1>4, <1>5, <1>6, <1>7, <1>8, <1>9, <1>10 DEF Timer

LEMMA AttendedStep ==
  ASSUME Undisturbed, OnlyJoins, TypeOK, ClosedIsSilent, Calm, Attended, [Next]_vars
  PROVE  Attended'
<1>1. CASE UNCHANGED vars
  <2>1. UNCHANGED <<roomVars, phase, round, guessed, timers, tasks>>
    BY <1>1 DEF vars, roomVars
  <2>2. UNCHANGED <<conn, closed, Seated, LiveRound>> /\ UNCHANGED ActivePlayers(conn)
    BY <2>1, SameRoom DEF LiveRound, HasRound
  <2>. QED
    BY <2>1, <2>2 DEF Attended, GuessersActive, PausedWhenShort, DrawerAttends, EarlyEndComing,
       EveryoneGuessed, Guessers, HasEnough, Pending, Leaving
<1>. QED
  BY <1>1, AttendedClient, AttendedContinuation, AttendedTimer DEF Next

LEMMA AttendedInit == Init => Attended
<1> SUFFICES ASSUME Init PROVE Attended
  OBVIOUS
<1>1. phase = "lobby" /\ round = NoRound /\ guessed = {} /\ \A d : Do("deal", d) \notin tasks
  BY DEF Init, InitMatch, InitCreated, InitHydrated, Do
<1>. QED
  BY <1>1 DEF Attended, GuessersActive, PausedWhenShort, DrawerAttends, EarlyEndComing, LivePhases,
     LiveRound, HasRound, NoRound

\* What the two invariants say of a pause and of a turn.
LEMMA CalmPauses == TypeOK /\ Calm => PausedIsQuiet /\ HoldIsForThisTurn
BY DEF Calm, RoundFits, TimersFit, PhaseTimers, PausedIsQuiet, HoldIsForThisTurn, LiveRound, LivePhases

LEMMA AttendedTurns == TypeOK /\ Calm /\ Attended => TurnHasDrawer /\ EarlyEndBooked
<1> SUFFICES ASSUME TypeOK, Calm, Attended PROVE TurnHasDrawer /\ EarlyEndBooked
  OBVIOUS
<1>1. TurnHasDrawer
  BY NoneLeaving DEF Calm, RoundFits, Waits, Manned, TurnHasDrawer
<1>2. EarlyEndBooked
  BY DEF Attended, EarlyEndComing, EarlyEndBooked, Pending, Leaving
<1>. QED
  BY <1>1, <1>2

\* A match is paused whenever it is short of players, and nothing of it moves
\* until it is resumed (onPlayerLeft, pauseForMissingPlayers).
LEMMA PausesAreTimely ==
  ASSUME Undisturbed, OnlyJoins PROVE Spec => []PausesInTime
<1>1. Init => Calm /\ Attended
  BY CalmInit, AttendedInit
<1>2. TypeOK /\ ClosedIsSilent /\ Calm /\ Attended /\ [Next]_vars => Calm' /\ Attended'
  BY CalmStep, AttendedStep
<1>3. TypeOK /\ Calm /\ Attended => PausesInTime
  BY CalmPauses DEF Attended, PausesInTime
<1>. QED
  BY <1>1, <1>2, <1>3, TypeCorrect, ClosedStaysSilent, PTL DEF Spec

\* A turn has a drawer in the room and a word once it is drawn, is about to end
\* once everybody has guessed, and is held for nobody but its drawer
\* (nextDrawerId, afterCorrectGuess, onPlayerLeft, onDrawerDisconnected).
LEMMA TurnsAreInOrder ==
  ASSUME Undisturbed, OnlyJoins PROVE Spec => []TurnInOrder
<1>1. Init => Calm /\ Attended
  BY CalmInit, AttendedInit
<1>2. TypeOK /\ ClosedIsSilent /\ Calm /\ Attended /\ [Next]_vars => Calm' /\ Attended'
  BY CalmStep, AttendedStep
<1>3. TypeOK /\ Calm /\ Attended => TurnInOrder
  BY CalmPauses, AttendedTurns DEF TurnInOrder
<1>. QED
  BY <1>1, <1>2, <1>3, TypeCorrect, ClosedStaysSilent, PTL DEF Spec

=============================================================================
