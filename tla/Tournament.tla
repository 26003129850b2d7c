----------------------------- MODULE Tournament -----------------------------
(***************************************************************************)
(* The life of one automatic tournament, from its publication to the draw: *)
(* the scheduler and its lease (scheduler.service.ts), the transitions     *)
(* (lifecycle.service.ts), registration, withdrawal and check-in           *)
(* (auto.service.ts), the bots that make up the numbers                    *)
(* (botFill.service.ts) and the draw as far as the roster is concerned     *)
(* (bracket.service.ts).  What happens to the drawn matches is Bracket.    *)
(*                                                                         *)
(* A TASK is a pass of the scheduler or the request of a user, hosted by a *)
(* process; each action is one call to the store, and holds the reads up   *)
(* to the next one.  Several passes run at once when a lease runs out      *)
(* under one that is still working.                                        *)
(*                                                                         *)
(* Abstracted: names, announcements, the denormalised player counts, and   *)
(* the hours, of which only the order of the deadlines is kept.            *)
(***************************************************************************)
EXTENDS Integers, Sequences, FiniteSets, Functions

CONSTANTS
  Users,      \* people, each with one request at a time
  Rotation,   \* the bots, in the order botProfileService.take gives them
  Ticks,      \* passes of the scheduler that may overlap
  Servers,    \* the processes
  Host,       \* the process each task runs in
  NoOne,
  MinPlayers, MaxPlayers, MinHumans, MaxBots,
  AllowBots,  \* tournament.allowBots
  MaxCrashes  \* bound: how often a process may die

Bots == {Rotation[i] : i \in 1..Len(Rotation)}
Entrants == Users \cup Bots
Tasks == Ticks \cup Users

ASSUME PeopleAssumption ==
  /\ Rotation \in Seq(Bots) /\ Users \cap Bots = {} /\ Users \cap Ticks = {}
  /\ IsFiniteSet(Users)
ASSUME HostAssumption == Host \in [Tasks -> Servers] /\ NoOne \notin Servers
ASSUME LimitsAssumption ==
  /\ MinPlayers \in Nat /\ MaxPlayers \in Nat /\ MinHumans \in Nat
  /\ MaxBots \in 0..Len(Rotation) /\ MaxCrashes \in Nat
  /\ AllowBots \in BOOLEAN /\ 1 <= MinHumans /\ MinHumans <= MinPlayers /\ MinPlayers <= MaxPlayers

VARIABLES
  checkInEnabled, \* env.tournament.checkInEnabled
  status,         \* tournament.status
  now,            \* the last deadline that has passed
  due,            \* whether countdownEndsAt has passed
  reg,            \* the registrations: status, and whether a seed is written
  draw,           \* the players of the stored first round
  lock,           \* the scheduler's lease
  task,           \* the tasks in progress
  crashes         \* how often a process has died

vars == <<checkInEnabled, status, now, due, reg, draw, lock, task, crashes>>
clock == <<now, due>>

\* The deadlines, in order.  Check-in closes when the start comes: the code's
\* checkInCloseAt and startAt are one deadline here.
OpenAt == 1
BotFillAt == 2
CloseAt == 3
StartAt == 4

Path == INSTANCE TournamentPath

-----------------------------------------------------------------------------
(* Counting. *)

Holding(S) == {e \in Entrants : reg[e].status \in S}
\* countHumans
Humans == Cardinality(Holding({"registered", "checkedIn", "active"}) \cap Users)
\* register counts every row that has not been withdrawn, bots included.
Taken == Cardinality(Holding({"registered", "checkedIn", "noShow", "active", "eliminated"}))
Seated == Holding({"checkedIn"}) \cap Users
BotsIn == {b \in Bots : reg[b].status # "none"}
Field == Holding({"checkedIn", "active"})

Put(e, s) == reg' = [reg EXCEPT ![e].status = s]
PutAll(S, s) == reg' = [e \in Entrants |-> IF e \in S THEN [reg[e] EXCEPT !.status = s] ELSE reg[e]]

Idle == [at |-> "idle", why |-> "none", got |-> 0, todo |-> {}, field |-> {}]
At(x, label) == task[x].at = label
Goto(x, label) == task' = [task EXCEPT ![x].at = label]
\* A task that has done its work: a pass gives up its lease, a request answers.
Finished(x) == task' = [task EXCEPT ![x] = IF x \in Ticks THEN [Idle EXCEPT !.at = "unlock"] ELSE Idle]
Become(x, label, why) == task' = [task EXCEPT ![x].at = label, ![x].why = why]

env == <<checkInEnabled, now, crashes>>

-----------------------------------------------------------------------------
(* The lease: acquireLock and releaseLock. *)

Acquire(t) ==
  /\ At(t, "idle") /\ ~lock.live
  /\ lock' = [owner |-> Host[t], live |-> TRUE]
  /\ Goto(t, "upcoming")
  /\ UNCHANGED <<env, status, due, reg, draw>>

\* A process gives up a lease that carries its name, and no other.
Unlock(t) ==
  /\ At(t, "unlock")
  /\ lock' = IF lock.owner = Host[t] THEN [lock EXCEPT !.live = FALSE] ELSE lock
  /\ task' = [task EXCEPT ![t] = Idle]
  /\ UNCHANGED <<env, status, due, reg, draw>>

LeaseExpires ==
  /\ lock.live /\ lock' = [lock EXCEPT !.live = FALSE]
  /\ UNCHANGED <<env, status, due, reg, draw, task>>

-----------------------------------------------------------------------------
(* A pass: openNewTournaments, then advanceDeadlines. *)

LoadUpcoming(t) ==
  /\ At(t, "upcoming")
  /\ Goto(t, IF status = "upcoming" /\ now \in OpenAt..CloseAt - 1 THEN "open" ELSE "live")
  /\ UNCHANGED <<env, status, due, reg, draw, lock>>

OpenRegistration(t) ==
  /\ At(t, "open")
  /\ status' = IF status = "upcoming" THEN "registration" ELSE status
  /\ Goto(t, "live")
  /\ UNCHANGED <<env, due, reg, draw, lock>>

NothingDue ==
  \/ status \in {"running", "completed", "cancelled"}
  \/ status \in {"upcoming", "checkIn"} /\ now < StartAt
  \/ status = "registration" /\ now < CloseAt /\ checkInEnabled
  \/ status = "starting" /\ ~due

\* The row is read once and judged by the status it had then.
LoadLive(t) ==
  /\ At(t, "live")
  /\ \/ /\ status = "upcoming" /\ now >= StartAt
        /\ Become(t, "cancel", "none")
     \/ /\ status = "registration" /\ now >= CloseAt
        /\ Become(t, IF checkInEnabled THEN "openCheckIn" ELSE "humans", "close")
     \/ /\ status = "registration" /\ now < CloseAt /\ ~checkInEnabled
        /\ Become(t, "early", "early")
     \/ /\ status = "starting" /\ due
        /\ Become(t, "field", "starting")
     \/ /\ status = "checkIn" /\ now >= StartAt
        /\ Become(t, "noShows", "checkIn")
     \/ NothingDue /\ Finished(t)
  /\ UNCHANGED <<env, status, due, reg, draw, lock>>

\* startEarlyIfFull, and the bot fill when it does not start.
StartEarly(x) ==
  /\ At(x, "early")
  /\ IF Humans >= MinPlayers THEN Goto(x, "begin")
     ELSE IF x \in Ticks /\ now >= BotFillAt THEN Become(x, "humans", "fill")
     ELSE Finished(x)
  /\ UNCHANGED <<env, status, due, reg, draw, lock>>

\* The count that fillAndStart and closeRegistration open with.
CountHumans(t) ==
  /\ At(t, "humans")
  /\ IF Humans >= MinHumans THEN Goto(t, "plan")
     ELSE IF task[t].why = "close" THEN Become(t, "cancel", "none")
     ELSE Finished(t)
  /\ UNCHANGED <<env, status, due, reg, draw, lock>>

\* openCheckIn: the count, then the conditional step.
CountForCheckIn(t) ==
  /\ At(t, "openCheckIn")
  /\ IF Humans < MinHumans THEN Become(t, "cancel", "none") ELSE Goto(t, "sealCheckIn")
  /\ UNCHANGED <<env, status, due, reg, draw, lock>>

SealForCheckIn(t) ==
  /\ At(t, "sealCheckIn")
  /\ status' = IF status = "registration" THEN "checkIn" ELSE status
  /\ Finished(t)
  /\ UNCHANGED <<env, due, reg, draw, lock>>

\* beginCountdown: the count, then the conditional step.  A pass that only
\* hoped for a full roster goes on to the bot fill when it comes too late.
Begin(x) ==
  /\ At(x, "begin")
  /\ IF Humans < MinHumans THEN Become(x, "cancel", "none") ELSE Goto(x, "seal")
  /\ UNCHANGED <<env, status, due, reg, draw, lock>>

\* Mutant: the step is not conditional on the status.
SealForCountdown_Regardless(x) ==
  /\ At(x, "seal")
  /\ status' = "starting" /\ due' = FALSE /\ Finished(x)
  /\ UNCHANGED <<env, reg, draw, lock>>

SealForCountdown(x) ==
  /\ At(x, "seal")
  /\ IF status = "registration"
       THEN status' = "starting" /\ due' = FALSE /\ Finished(x)
       ELSE /\ UNCHANGED <<status, due>>
            /\ IF x \in Ticks /\ task[x].why = "early" /\ now >= BotFillAt
                 THEN Become(x, "humans", "fill") ELSE Finished(x)
  /\ UNCHANGED <<env, reg, draw, lock>>

-----------------------------------------------------------------------------
(* The bots: fill, plan and addBots. *)

Fewest(S) == CHOOSE n \in S : \A m \in S : n <= m
\* How many bots a count of h people and b bots calls for.
Wanted(h, b) == Fewest({MinPlayers - h - b, MaxBots - b, MaxPlayers - h - b})
CannotRun(h, b) ==
  \/ h < MinHumans
  \/ h + b < MinPlayers /\ (~AllowBots \/ h + b + Wanted(h, b) < MinPlayers)

\* take starts at the same bot of the rotation every time.
Plan(t) ==
  LET h == Cardinality(Seated)  b == Cardinality(BotsIn)
  IN /\ At(t, "plan")
     /\ IF CannotRun(h, b) THEN Goto(t, "cancel")
        ELSE task' = [task EXCEPT ![t].at = "bots", ![t].got = h + b,
               ![t].todo = IF h + b >= MinPlayers THEN {} ELSE 1..Wanted(h, b)]
     /\ UNCHANGED <<env, status, due, reg, draw, lock>>

\* Mutant: a bot that is registered already is passed over for the next one.
AddBot_NextFree(t) ==
  LET i == Fewest(task[t].todo)
      free == {k \in 1..Len(Rotation) : reg[Rotation[k]].status = "none"}
  IN /\ At(t, "bots") /\ task[t].todo # {}
     /\ IF free # {}
          THEN /\ Put(Rotation[Fewest(free)], "checkedIn")
               /\ task' = [task EXCEPT ![t].todo = @ \ {i}, ![t].got = @ + 1]
          ELSE /\ task' = [task EXCEPT ![t].todo = @ \ {i}] /\ UNCHANGED reg
     /\ UNCHANGED <<env, status, due, draw, lock>>

\* A bot that is registered already is not registered again, nor counted.
AddBot(t) ==
  LET i == Fewest(task[t].todo)  b == Rotation[i]
  IN /\ At(t, "bots") /\ task[t].todo # {}
     /\ IF reg[b].status = "none"
          THEN /\ Put(b, "checkedIn")
               /\ task' = [task EXCEPT ![t].todo = @ \ {i}, ![t].got = @ + 1]
          ELSE /\ task' = [task EXCEPT ![t].todo = @ \ {i}] /\ UNCHANGED reg
     /\ UNCHANGED <<env, status, due, draw, lock>>

\* Mutant: the last resort, too, insists on a full field.
Filled_OnlyViable(t) ==
  /\ At(t, "bots") /\ task[t].todo = {}
  /\ IF task[t].why = "checkIn" THEN Goto(t, "field")
     ELSE IF task[t].got >= MinPlayers THEN Goto(t, "begin")
     ELSE Finished(t)
  /\ UNCHANGED <<env, status, due, reg, draw, lock>>

\* What each caller of the fill does with it.
Filled(t) ==
  /\ At(t, "bots") /\ task[t].todo = {}
  /\ IF task[t].why = "checkIn" THEN Goto(t, "field")
     ELSE IF task[t].why = "close" \/ task[t].got >= MinPlayers THEN Goto(t, "begin")
     ELSE Finished(t)
  /\ UNCHANGED <<env, status, due, reg, draw, lock>>

-----------------------------------------------------------------------------
(* closeCheckIn and seedAndStart. *)

WriteOffNoShows(t) ==
  /\ At(t, "noShows")
  /\ PutAll(Holding({"registered"}) \cap Users, "noShow")
  /\ Goto(t, "plan")
  /\ UNCHANGED <<env, status, due, draw, lock>>

\* Mutant: whoever is there is drawn.
ReadField_Anyone(t) ==
  /\ At(t, "field")
  /\ task' = [task EXCEPT ![t].at = "seeds", ![t].field = Field]
  /\ UNCHANGED <<env, status, due, reg, draw, lock>>

ReadField(t) ==
  /\ At(t, "field")
  /\ IF Cardinality(Field) < 2 THEN Become(t, "cancel", "none")
     ELSE task' = [task EXCEPT ![t].at = "seeds", ![t].field = Field]
  /\ UNCHANGED <<env, status, due, reg, draw, lock>>

\* Each row that was read and has no seed becomes active, whatever it is now.
WriteSeeds(t) ==
  /\ At(t, "seeds")
  /\ reg' = [e \in Entrants |-> IF e \in task[t].field /\ ~reg[e].seeded
                                  THEN [status |-> "active", seeded |-> TRUE] ELSE reg[e]]
  /\ Goto(t, "matches")
  /\ UNCHANGED <<env, status, due, draw, lock>>

\* The first bracket to be stored is the bracket.
WriteMatches(t) ==
  /\ At(t, "matches")
  /\ draw' = IF draw = {} THEN task[t].field ELSE draw
  /\ Goto(t, "run")
  /\ UNCHANGED <<env, status, due, reg, lock>>

StartRunning(t) ==
  /\ At(t, "run")
  /\ status' = IF status = task[t].why THEN "running" ELSE status
  /\ Finished(t)
  /\ UNCHANGED <<env, due, reg, draw, lock>>

\* cancel: the status, on the condition that it is not over, then the roster.
\* closeRegistration goes on to beginCountdown whatever the fill has said.
AfterCancel(x) == IF task[x].why = "close" THEN Goto(x, "begin") ELSE Finished(x)

Cancel(x) ==
  /\ At(x, "cancel")
  /\ IF status \in {"completed", "cancelled"}
       THEN UNCHANGED status /\ AfterCancel(x)
       ELSE status' = "cancelled" /\ Goto(x, "release")
  /\ UNCHANGED <<env, due, reg, draw, lock>>

ReleaseRoster(x) ==
  /\ At(x, "release")
  /\ PutAll(Holding({"registered", "checkedIn", "active"}), "eliminated")
  /\ AfterCancel(x)
  /\ UNCHANGED <<env, status, due, draw, lock>>

\* The bracket is played out (module Bracket).
Complete ==
  /\ status = "running" /\ status' = "completed"
  /\ UNCHANGED <<env, due, reg, draw, lock, task>>

-----------------------------------------------------------------------------
(* Requests: register, withdraw and checkIn.  Each reads the tournament    *)
(* first and writes its own registration later.                            *)

Ask(u, label, s) ==
  /\ At(u, "idle") /\ status = s
  /\ Goto(u, label)
  /\ UNCHANGED <<env, status, due, reg, draw, lock>>

\* The caller's own row, then the capacity, by count.
Admit(u) ==
  /\ At(u, "admit")
  /\ IF reg[u].status \in {"none", "withdrawn"} /\ Taken < MaxPlayers
       THEN Goto(u, "seat") ELSE Finished(u)
  /\ UNCHANGED <<env, status, due, reg, draw, lock>>

\* Without check-in a registration is a confirmation.  startEarlyIfFull follows.
TakeSeat(u) ==
  /\ At(u, "seat")
  /\ reg' = [reg EXCEPT ![u] = [status |-> IF checkInEnabled THEN "registered" ELSE "checkedIn",
                                seeded |-> FALSE]]
  /\ IF checkInEnabled THEN Finished(u) ELSE Goto(u, "early")
  /\ UNCHANGED <<env, status, due, draw, lock>>

Withdraw(u) ==
  /\ At(u, "withdraw")
  /\ IF reg[u].status \in {"registered", "checkedIn"} THEN Put(u, "withdrawn") ELSE UNCHANGED reg
  /\ Finished(u)
  /\ UNCHANGED <<env, status, due, draw, lock>>

Confirm(u) ==
  /\ At(u, "confirm") /\ checkInEnabled
  /\ IF reg[u].status = "registered" THEN Put(u, "checkedIn") ELSE UNCHANGED reg
  /\ Finished(u)
  /\ UNCHANGED <<env, status, due, draw, lock>>

-----------------------------------------------------------------------------
(* Time and failure. *)

DeadlinePasses ==
  /\ now < StartAt /\ now' = now + 1
  /\ UNCHANGED <<checkInEnabled, crashes, status, due, reg, draw, lock, task>>

CountdownEnds ==
  /\ status = "starting" /\ ~due /\ due' = TRUE
  /\ UNCHANGED <<env, status, reg, draw, lock, task>>

\* A process dies with the tasks it hosts; its lease stays until it runs out.
Crash(p) ==
  /\ crashes < MaxCrashes /\ crashes' = crashes + 1
  /\ task' = [x \in Tasks |-> IF Host[x] = p THEN Idle ELSE task[x]]
  /\ UNCHANGED <<checkInEnabled, clock, status, reg, draw, lock>>

-----------------------------------------------------------------------------
Init ==
  /\ checkInEnabled \in BOOLEAN
  /\ status = "upcoming" /\ now = 0 /\ due = FALSE
  /\ reg = [e \in Entrants |-> [status |-> "none", seeded |-> FALSE]]
  /\ draw = {}
  /\ lock = [owner |-> NoOne, live |-> FALSE]
  /\ task = [x \in Tasks |-> Idle]
  /\ crashes = 0

Lease(t) == Acquire(t) \/ Unlock(t)
Deadlines(t) ==
  LoadUpcoming(t) \/ OpenRegistration(t) \/ LoadLive(t) \/ CountHumans(t)
  \/ CountForCheckIn(t) \/ SealForCheckIn(t)
Fill(t) == Plan(t) \/ AddBot(t) \/ Filled(t)
Draw(t) ==
  WriteOffNoShows(t) \/ ReadField(t) \/ WriteSeeds(t) \/ WriteMatches(t) \/ StartRunning(t)
Shared(x) == StartEarly(x) \/ Begin(x) \/ SealForCountdown(x) \/ Cancel(x) \/ ReleaseRoster(x)
Request(u) ==
  \/ Ask(u, "admit", "registration") \/ Ask(u, "withdraw", "registration")
  \/ Ask(u, "confirm", "checkIn")
  \/ Admit(u) \/ TakeSeat(u) \/ Withdraw(u) \/ Confirm(u)

Next ==
  \/ \E t \in Ticks : Lease(t) \/ Deadlines(t) \/ Fill(t) \/ Draw(t)
  \/ \E x \in Tasks : Shared(x)
  \/ \E u \in Users : Request(u)
  \/ LeaseExpires \/ Complete \/ DeadlinePasses \/ CountdownEnds
  \/ \E p \in Servers : Crash(p)

Spec == Init /\ [][Next]_vars

(***************************************************************************)
(* Some process always runs the scheduler's interval, a pass that has      *)
(* begun goes on, leases and deadlines run out.  Nothing is assumed of the *)
(* users.                                                                  *)
(***************************************************************************)
Pass(t) == Unlock(t) \/ Deadlines(t) \/ Fill(t) \/ Draw(t) \/ Shared(t)
FairSpec ==
  /\ Spec
  /\ WF_vars(\E t \in Ticks : Acquire(t))
  /\ \A t \in Ticks : WF_vars(Pass(t))
  /\ WF_vars(LeaseExpires) /\ WF_vars(DeadlinePasses) /\ WF_vars(CountdownEnds)

-----------------------------------------------------------------------------
(* Properties. *)

Labels == {"idle", "unlock", "upcoming", "open", "live", "early", "humans", "openCheckIn",
           "sealCheckIn", "begin", "seal", "plan", "bots", "noShows", "field", "seeds",
           "matches", "run", "cancel", "release", "admit", "seat", "withdraw", "confirm"}

\* Every variable has its type.
TypeOK ==
  /\ checkInEnabled \in BOOLEAN /\ now \in 0..StartAt /\ due \in BOOLEAN
  /\ status \in Path!Before \cup {"running"} \cup Path!Over
  /\ reg \in [Entrants -> [status : {"none", "registered", "checkedIn", "noShow", "withdrawn",
                                     "active", "eliminated"}, seeded : BOOLEAN]]
  /\ draw \subseteq Entrants
  /\ lock \in [owner : Servers \cup {NoOne}, live : BOOLEAN]
  /\ task \in [Tasks -> [at : Labels,
                         why : {"none", "early", "fill", "close", "starting", "checkIn"},
                         got : Nat, todo : SUBSET (1..Len(Rotation)), field : SUBSET Entrants]]
  /\ crashes \in 0..MaxCrashes

\* However many passes overlap, and however old the row each of them judged
\* by, the tournament takes the steps of its diagram and each of them once.
FollowsPath == Path!Steps

\* Fills that overlap, or that a crash cut short, never seat more bots than
\* the people who are needed at the least leave room for.
BotsWithinPlan == Cardinality(BotsIn) <= Fewest({MaxBots, MinPlayers - MinHumans})

\* A tournament that runs has a stored bracket, whose every player has been
\* given a seed, and so has every player who is in it.
RunningIsDrawn ==
  status = "running" =>
    /\ Cardinality(draw) >= 2
    /\ \A e \in Entrants : reg[e].status = "active" => reg[e].seeded

\* No crash of a scheduler and no overlap of passes leaves a tournament
\* waiting: it is drawn or called off.
Settles == status \in {"registration", "starting", "checkIn"} ~> status \in {"running"} \cup Path!Over

\* Refuted, and in no run: a failure after the fill leaves the tournament in
\* CHECK_IN, the next tick retries, and retrying costs nothing
\* (lifecycle.service.ts).  The retry finds nobody checked in, and cancels.
DrawnIsNotCancelled == [][draw # {} /\ status = "checkIn" => status' # "cancelled"]_vars
=============================================================================
