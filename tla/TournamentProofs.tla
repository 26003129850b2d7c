--------------------------- MODULE TournamentProofs ---------------------------
(***************************************************************************)
(* The life of a tournament for any number of people, bots, schedulers,    *)
(* processes and crashes: the types, the path of its status, the budget of *)
(* the bots, and that nothing runs that was not drawn.                     *)
(***************************************************************************)
EXTENDS Tournament, FiniteSetTheorems, WellFoundedInduction, TLAPS

Statuses == {"upcoming", "registration", "starting", "checkIn", "running", "completed",
             "cancelled"}
Registration == [status : {"none", "registered", "checkedIn", "noShow", "withdrawn",
                           "active", "eliminated"}, seeded : BOOLEAN]
TaskRecord == [at : Labels,
               why : {"none", "early", "fill", "close", "starting", "checkIn"},
               got : Nat, todo : SUBSET (1..Len(Rotation)), field : SUBSET Entrants]

\* What a fill may spend, and the bots that buys.
Budget == Fewest({MaxBots, MinPlayers - MinHumans})
First == {Rotation[i] : i \in 1..Budget}

-----------------------------------------------------------------------------
(* The inductive invariant, by the state it speaks of. *)

\* What nobody needs to remember anything about.
PlainOK ==
  /\ checkInEnabled \in BOOLEAN /\ now \in 0..StartAt /\ due \in BOOLEAN
  /\ status \in Statuses
  /\ lock \in [owner : Servers \cup {NoOne}, live : BOOLEAN]
  /\ crashes \in 0..MaxCrashes

\* Whoever is active has a seed, and no bot beyond the budget has come in.
RosterOK ==
  /\ reg \in [Entrants -> Registration]
  /\ \A e \in Entrants : reg[e].status = "active" => reg[e].seeded
  /\ \A b \in Bots : reg[b].status # "none" => b \in First

\* A bracket that is stored has two players, and one is stored when it runs.
DrawOK ==
  /\ draw \subseteq Entrants
  /\ draw # {} => Cardinality(draw) >= 2
  /\ status = "running" => draw # {}

\* A pass between the field and the start carries what it is about to write.
TaskOK(r, stored) ==
  /\ r \in TaskRecord
  /\ r.at \in {"seeds", "matches"} => Cardinality(r.field) >= 2
  /\ r.at = "run" => stored
  /\ r.todo \subseteq 1..Budget
  /\ r.field \cap Bots \subseteq First
TasksOK == task \in [Tasks -> TaskRecord] /\ \A x \in Tasks : TaskOK(task[x], draw # {})

IInv == PlainOK /\ RosterOK /\ DrawOK /\ TasksOK

-----------------------------------------------------------------------------
(* Numbers. *)

Below == {p \in Nat \X Nat : p[1] < p[2]}

\* A set of numbers that is not empty has a least one.
LEMMA Least == ASSUME NEW S \in SUBSET Nat, S # {} PROVE \E n \in S : \A m \in S : n <= m
<1>1. OpToRel(<, Nat) = Below
  BY DEF OpToRel, Below
<1>2. IsWellFoundedOn(Below, Nat)
  BY <1>1, NatLessThanWellFounded
<1>3. PICK n \in S : \A m \in S : ~ (<<m, n>> \in Below)
  BY <1>2, WFMin
<1>4. ASSUME NEW m \in S PROVE n <= m
  <2>1. <<m, n>> \notin Below /\ m \in Nat /\ n \in Nat
    BY <1>3
  <2>2. m < n => <<m, n>> \in Below
    BY <2>1 DEF Below
  <2> QED BY <2>1, <2>2
<1> QED BY <1>4

\* The next bot of a list is on the list.
LEMMA NextIsListed == ASSUME NEW S \in SUBSET Nat, S # {} PROVE Fewest(S) \in S
BY Least DEF Fewest

\* The smaller of two, and of three, numbers.
LEMMA FewestOfTwo ==
  ASSUME NEW a \in Int, NEW b \in Int
  PROVE  Fewest({a, b}) \in {a, b} /\ Fewest({a, b}) <= a /\ Fewest({a, b}) <= b
<1>1. \E n \in {a, b} : \A m \in {a, b} : n <= m
  <2>1. CASE a <= b BY <2>1
  <2>2. CASE ~(a <= b) BY <2>2
  <2> QED BY <2>1, <2>2
<1>2. Fewest({a, b}) \in {a, b} /\ \A m \in {a, b} : Fewest({a, b}) <= m
  BY <1>1 DEF Fewest
<1> QED BY <1>2

LEMMA FewestOfThree ==
  ASSUME NEW a \in Int, NEW b \in Int, NEW c \in Int
  PROVE  Fewest({a, b, c}) \in Int /\ Fewest({a, b, c}) <= a /\ Fewest({a, b, c}) <= b
<1>1. \E n \in {a, b, c} : \A m \in {a, b, c} : n <= m
  <2>1. CASE a <= b /\ a <= c BY <2>1
  <2>2. CASE b <= a /\ b <= c BY <2>2
  <2>3. CASE c <= a /\ c <= b BY <2>3
  <2> QED BY <2>1, <2>2, <2>3
<1>2. Fewest({a, b, c}) \in {a, b, c} /\ \A m \in {a, b, c} : Fewest({a, b, c}) <= m
  BY <1>1 DEF Fewest
<1>3. Fewest({a, b, c}) = a \/ Fewest({a, b, c}) = b \/ Fewest({a, b, c}) = c
  BY <1>2
<1>4. Fewest({a, b, c}) <= a /\ Fewest({a, b, c}) <= b
  BY <1>2
<1>5. Fewest({a, b, c}) \in Int
  BY <1>3
<1> QED BY <1>4, <1>5

\* The budget is a number of bots that exist.
LEMMA BudgetIsThere == Budget \in Nat /\ Budget <= Len(Rotation) /\ Len(Rotation) \in Nat
                       /\ Budget <= MaxBots /\ Budget <= MinPlayers - MinHumans
                       /\ Budget \in {MaxBots, MinPlayers - MinHumans}
<1>1. Len(Rotation) \in Nat
  BY PeopleAssumption
<1>2. MaxBots \in Nat /\ MaxBots <= Len(Rotation) /\ MinPlayers - MinHumans \in Nat
  BY <1>1, LimitsAssumption
<1> DEFINE d == MinPlayers - MinHumans
<1>3. MaxBots \in Int /\ d \in Int
  BY <1>2
<1> HIDE DEF d
<1>4. Fewest({MaxBots, d}) \in {MaxBots, d} /\ Fewest({MaxBots, d}) <= MaxBots
      /\ Fewest({MaxBots, d}) <= d
  BY <1>3, FewestOfTwo
<1>5. Budget \in {MaxBots, d} /\ Budget <= MaxBots /\ Budget <= d
  BY <1>4 DEF Budget, d
<1> QED BY <1>1, <1>2, <1>5 DEF d

\* People and bots are finitely many, and so is every part of them.
LEMMA Finitely == /\ IsFiniteSet(Entrants) /\ IsFiniteSet(First)
                  /\ Cardinality(First) <= Budget
                  /\ First \subseteq Bots
<1>1. ASSUME NEW n \in Nat
      PROVE  /\ IsFiniteSet({Rotation[i] : i \in 1..n})
             /\ Cardinality({Rotation[i] : i \in 1..n}) <= n
  <2> DEFINE T == {Rotation[i] : i \in 1..n}
             f == [i \in 1..n |-> Rotation[i]]
  <2>1. IsFiniteSet(1..n) /\ Cardinality(1..n) = n
    BY FS_Interval
  <2>2. f \in Surjection(1..n, T)
    BY DEF Surjection
  <2> HIDE DEF T, f
  <2>3. IsFiniteSet(T) /\ Cardinality(T) <= Cardinality(1..n)
    BY <2>1, <2>2, FS_Surjection
  <2> QED BY <2>1, <2>3 DEF T
<1>2. IsFiniteSet(Bots)
  BY <1>1, BudgetIsThere DEF Bots
<1>3. IsFiniteSet(Entrants)
  BY <1>2, PeopleAssumption, FS_Union DEF Entrants
<1>4. First \subseteq Bots
  BY BudgetIsThere DEF First, Bots
<1> QED BY <1>1, <1>3, <1>4, BudgetIsThere DEF First

\* What a plan asks for is within the budget, whatever it has counted.
LEMMA WantedIsAffordable ==
  ASSUME NEW h \in Nat, NEW b \in Nat, ~CannotRun(h, b)
  PROVE  1..Wanted(h, b) \subseteq 1..Budget
<1>1. h >= MinHumans /\ MinPlayers \in Nat /\ MinHumans \in Nat /\ MaxBots \in Nat
      /\ MaxPlayers \in Nat
  BY LimitsAssumption, BudgetIsThere DEF CannotRun
<1>2. Wanted(h, b) \in Int /\ Wanted(h, b) <= MinPlayers - h - b /\ Wanted(h, b) <= MaxBots - b
  <2> DEFINE p == MinPlayers - h - b  m == MaxBots - b  c == MaxPlayers - h - b
  <2>1. p \in Int /\ m \in Int /\ c \in Int
    BY <1>1
  <2> HIDE DEF p, m, c
  <2>2. Fewest({p, m, c}) \in Int /\ Fewest({p, m, c}) <= p /\ Fewest({p, m, c}) <= m
    BY <2>1, FewestOfThree
  <2> QED BY <2>2 DEF Wanted, p, m, c
<1>3. Wanted(h, b) <= MinPlayers - MinHumans /\ Wanted(h, b) <= MaxBots
  BY <1>1, <1>2
<1>4. Wanted(h, b) <= Budget
  BY <1>3, BudgetIsThere
<1> QED BY <1>2, <1>4, BudgetIsThere

-----------------------------------------------------------------------------
(* What a task may turn into. *)

\* The labels at which a task carries nothing.
Quiet == Labels \ {"seeds", "matches", "run"}
Whys == {"none", "early", "fill", "close", "starting", "checkIn"}

LEMMA TaskMoves ==
  ASSUME IInv, NEW x \in Tasks, NEW STATE r, task' = [task EXCEPT ![x] = r],
         TaskOK(r, draw' # {}), draw # {} => draw' # {}
  PROVE  TasksOK'
<1>1. task' \in [Tasks -> TaskRecord]
  BY DEF IInv, TasksOK, TaskOK
<1>2. ASSUME NEW y \in Tasks PROVE TaskOK(task'[y], draw' # {})
  <2>1. TaskOK(task[y], draw' # {})
    BY DEF IInv, TasksOK, TaskOK
  <2>2. task'[y] = IF y = x THEN r ELSE task[y]
    BY DEF IInv, TasksOK
  <2> QED BY <2>1, <2>2
<1> QED BY <1>1, <1>2 DEF TasksOK

LEMMA IdleIsOK == ASSUME NEW stored \in BOOLEAN, NEW l \in Quiet
                  PROVE TaskOK([Idle EXCEPT !.at = l], stored) /\ TaskOK(Idle, stored)
<1>1. l \in Labels /\ "idle" \in Labels /\ l \notin {"seeds", "matches", "run"}
  BY DEF Quiet, Labels
<1>2. [Idle EXCEPT !.at = l] = [at |-> l, why |-> "none", got |-> 0, todo |-> {}, field |-> {}]
  BY DEF Idle
<1> QED BY <1>1, <1>2 DEF TaskOK, TaskRecord, Idle

\* Wherever a task goes that carries nothing, it takes its plan along.
LEMMA WentTo ==
  ASSUME IInv, NEW x \in Tasks, NEW l \in Quiet, Goto(x, l), draw # {} => draw' # {}
  PROVE  TasksOK'
<1> DEFINE r == [task[x] EXCEPT !.at = l]
<1>1. task' = [task EXCEPT ![x] = r]
  BY DEF Goto, IInv, TasksOK
<1>2. task[x] \in TaskRecord /\ TaskOK(task[x], draw # {})
  BY DEF IInv, TasksOK
<1>3. TaskOK(r, draw' # {})
  BY <1>2 DEF TaskOK, TaskRecord, Quiet
<1> HIDE DEF r
<1> QED BY <1>1, <1>3, TaskMoves

LEMMA Became ==
  ASSUME IInv, NEW x \in Tasks, NEW l \in Quiet, NEW w \in Whys, Become(x, l, w),
         draw # {} => draw' # {}
  PROVE  TasksOK'
<1> DEFINE r == [task[x] EXCEPT !.at = l, !.why = w]
<1>1. task' = [task EXCEPT ![x] = r]
  BY DEF Become, IInv, TasksOK
<1>2. task[x] \in TaskRecord /\ TaskOK(task[x], draw # {})
  BY DEF IInv, TasksOK
<1>3. TaskOK(r, draw' # {})
  BY <1>2 DEF TaskOK, TaskRecord, Quiet, Whys
<1> HIDE DEF r
<1> QED BY <1>1, <1>3, TaskMoves

LEMMA Rested ==
  ASSUME IInv, NEW x \in Tasks, draw # {} => draw' # {},
         Finished(x) \/ task' = [task EXCEPT ![x] = Idle]
  PROVE  TasksOK'
<1> DEFINE r == [Idle EXCEPT !.at = "unlock"]
<1>1. "unlock" \in Quiet
  BY DEF Quiet, Labels
<1>2. TaskOK(r, draw' # {}) /\ TaskOK(Idle, draw' # {})
  BY <1>1, IdleIsOK
<1>3. task' = [task EXCEPT ![x] = r] \/ task' = [task EXCEPT ![x] = Idle]
  BY DEF Finished
<1> HIDE DEF r
<1> QED BY <1>2, <1>3, TaskMoves

LEMMA WentOn ==
  ASSUME IInv, NEW x \in Tasks, draw # {} => draw' # {}, AfterCancel(x)
  PROVE  TasksOK'
<1>1. "begin" \in Quiet
  BY DEF Quiet, Labels
<1> QED BY <1>1, WentTo, Rested DEF AfterCancel

\* A task that leaves the others and the draw alone.
LEMMA StillOK ==
  IInv => /\ UNCHANGED reg => RosterOK'
          /\ UNCHANGED <<status, draw>> => DrawOK'
          /\ UNCHANGED <<task, draw>> => TasksOK'
BY DEF IInv, RosterOK, DrawOK, TasksOK

-----------------------------------------------------------------------------
(* Every action keeps the invariant. *)

\* The lease changes hands.
LEMMA LeaseKeeps ==
  ASSUME IInv, NEW x \in Ticks,
         Acquire(x) \/ Unlock(x)
  PROVE  IInv'
<1>0. x \in Tasks
  BY DEF Tasks
<1>1. CASE Acquire(x)
  <2>1. PlainOK'
    BY <1>1, HostAssumption, <1>0 DEF IInv, PlainOK, env, clock, OpenAt, BotFillAt, CloseAt, StartAt, Statuses, Acquire
  <2>2. RosterOK'
    BY <1>1, StillOK DEF Acquire, env
  <2>3. DrawOK'
    BY <1>1, StillOK DEF Acquire, env
  <2>4. TasksOK'
    <3>1. "upcoming" \in Quiet
      BY DEF Quiet, Whys, Labels
    <3> QED BY <1>0, <1>1, <3>1, WentTo, Rested DEF Acquire
  <2> QED BY <2>1, <2>2, <2>3, <2>4 DEF IInv
<1>2. CASE Unlock(x)
  <2>1. PlainOK'
    BY <1>2 DEF IInv, PlainOK, env, clock, OpenAt, BotFillAt, CloseAt, StartAt, Statuses, Unlock
  <2>2. RosterOK'
    BY <1>2, StillOK DEF Unlock, env
  <2>3. DrawOK'
    BY <1>2, StillOK DEF Unlock, env
  <2>4. TasksOK'
    BY <1>0, <1>2, Rested DEF Unlock
  <2> QED BY <2>1, <2>2, <2>3, <2>4 DEF IInv
<1> QED BY <1>1, <1>2

\* A pass reads the tournament and decides what is due.
LEMMA DeadlinesKeep ==
  ASSUME IInv, NEW x \in Ticks,
         LoadUpcoming(x) \/ OpenRegistration(x) \/ LoadLive(x) \/ CountHumans(x) \/ CountForCheckIn(x) \/ SealForCheckIn(x)
  PROVE  IInv'
<1>0. x \in Tasks
  BY DEF Tasks
<1>1. CASE LoadUpcoming(x)
  <2>1. PlainOK'
    BY <1>1 DEF IInv, PlainOK, env, clock, OpenAt, BotFillAt, CloseAt, StartAt, Statuses, LoadUpcoming
  <2>2. RosterOK'
    BY <1>1, StillOK DEF LoadUpcoming, env
  <2>3. DrawOK'
    BY <1>1, StillOK DEF LoadUpcoming, env
  <2>4. TasksOK'
    <3>1. "open" \in Quiet /\ "live" \in Quiet
      BY DEF Quiet, Whys, Labels
    <3>2. Goto(x, "open") \/ Goto(x, "live")
      BY <1>1 DEF LoadUpcoming
    <3> QED BY <1>0, <1>1, <3>1, <3>2, WentTo DEF LoadUpcoming
  <2> QED BY <2>1, <2>2, <2>3, <2>4 DEF IInv
<1>2. CASE OpenRegistration(x)
  <2>1. PlainOK'
    BY <1>2 DEF IInv, PlainOK, env, clock, OpenAt, BotFillAt, CloseAt, StartAt, Statuses, OpenRegistration
  <2>2. RosterOK'
    BY <1>2, StillOK DEF OpenRegistration, env
  <2>3. DrawOK'
    BY <1>2 DEF OpenRegistration, IInv, DrawOK
  <2>4. TasksOK'
    <3>1. "live" \in Quiet
      BY DEF Quiet, Whys, Labels
    <3> QED BY <1>0, <1>2, <3>1, WentTo, Rested DEF OpenRegistration
  <2> QED BY <2>1, <2>2, <2>3, <2>4 DEF IInv
<1>3. CASE LoadLive(x)
  <2>1. PlainOK'
    BY <1>3 DEF IInv, PlainOK, env, clock, OpenAt, BotFillAt, CloseAt, StartAt, Statuses, LoadLive
  <2>2. RosterOK'
    BY <1>3, StillOK DEF LoadLive, env
  <2>3. DrawOK'
    BY <1>3, StillOK DEF LoadLive, env
  <2>4. TasksOK'
    <3>1. /\ "cancel" \in Quiet /\ "openCheckIn" \in Quiet /\ "humans" \in Quiet
          /\ "early" \in Quiet /\ "field" \in Quiet /\ "noShows" \in Quiet
          /\ "none" \in Whys /\ "close" \in Whys /\ "early" \in Whys
          /\ "starting" \in Whys /\ "checkIn" \in Whys
      BY DEF Quiet, Whys, Labels
    <3>2. \/ Become(x, "cancel", "none") \/ Become(x, "openCheckIn", "close")
          \/ Become(x, "humans", "close") \/ Become(x, "early", "early")
          \/ Become(x, "field", "starting") \/ Become(x, "noShows", "checkIn")
          \/ Finished(x)
      BY <1>3 DEF LoadLive
    <3> QED BY <1>0, <1>3, <3>1, <3>2, Became, Rested DEF LoadLive
  <2> QED BY <2>1, <2>2, <2>3, <2>4 DEF IInv
<1>4. CASE CountHumans(x)
  <2>1. PlainOK'
    BY <1>4 DEF IInv, PlainOK, env, clock, OpenAt, BotFillAt, CloseAt, StartAt, Statuses, CountHumans
  <2>2. RosterOK'
    BY <1>4, StillOK DEF CountHumans, env
  <2>3. DrawOK'
    BY <1>4, StillOK DEF CountHumans, env
  <2>4. TasksOK'
    <3>1. "plan" \in Quiet /\ "cancel" \in Quiet /\ "none" \in Whys
      BY DEF Quiet, Whys, Labels
    <3> QED BY <1>0, <1>4, <3>1, WentTo, Became, Rested, WentOn DEF CountHumans
  <2> QED BY <2>1, <2>2, <2>3, <2>4 DEF IInv
<1>5. CASE CountForCheckIn(x)
  <2>1. PlainOK'
    BY <1>5 DEF IInv, PlainOK, env, clock, OpenAt, BotFillAt, CloseAt, StartAt, Statuses, CountForCheckIn
  <2>2. RosterOK'
    BY <1>5, StillOK DEF CountForCheckIn, env
  <2>3. DrawOK'
    BY <1>5, StillOK DEF CountForCheckIn, env
  <2>4. TasksOK'
    <3>1. "cancel" \in Quiet /\ "sealCheckIn" \in Quiet /\ "none" \in Whys
      BY DEF Quiet, Whys, Labels
    <3> QED BY <1>0, <1>5, <3>1, WentTo, Became, Rested, WentOn DEF CountForCheckIn
  <2> QED BY <2>1, <2>2, <2>3, <2>4 DEF IInv
<1>6. CASE SealForCheckIn(x)
  <2>1. PlainOK'
    BY <1>6 DEF IInv, PlainOK, env, clock, OpenAt, BotFillAt, CloseAt, StartAt, Statuses, SealForCheckIn
  <2>2. RosterOK'
    BY <1>6, StillOK DEF SealForCheckIn, env
  <2>3. DrawOK'
    BY <1>6 DEF SealForCheckIn, IInv, DrawOK
  <2>4. TasksOK'
    BY <1>0, <1>6, Rested DEF SealForCheckIn
  <2> QED BY <2>1, <2>2, <2>3, <2>4 DEF IInv
<1> QED BY <1>1, <1>2, <1>3, <1>4, <1>5, <1>6

\* A pass or a request starts the countdown, or calls the tournament off.
LEMMA SharedKeeps ==
  ASSUME IInv, NEW x \in Tasks,
         StartEarly(x) \/ Begin(x) \/ SealForCountdown(x) \/ Cancel(x) \/ ReleaseRoster(x)
  PROVE  IInv'
<1>0. x \in Tasks
  BY DEF Tasks
<1>1. CASE StartEarly(x)
  <2>1. PlainOK'
    BY <1>1 DEF IInv, PlainOK, env, clock, OpenAt, BotFillAt, CloseAt, StartAt, Statuses, StartEarly
  <2>2. RosterOK'
    BY <1>1, StillOK DEF StartEarly, env
  <2>3. DrawOK'
    BY <1>1, StillOK DEF StartEarly, env
  <2>4. TasksOK'
    <3>1. "begin" \in Quiet /\ "humans" \in Quiet /\ "fill" \in Whys
      BY DEF Quiet, Whys, Labels
    <3> QED BY <1>0, <1>1, <3>1, WentTo, Became, Rested, WentOn DEF StartEarly
  <2> QED BY <2>1, <2>2, <2>3, <2>4 DEF IInv
<1>2. CASE Begin(x)
  <2>1. PlainOK'
    BY <1>2 DEF IInv, PlainOK, env, clock, OpenAt, BotFillAt, CloseAt, StartAt, Statuses, Begin
  <2>2. RosterOK'
    BY <1>2, StillOK DEF Begin, env
  <2>3. DrawOK'
    BY <1>2, StillOK DEF Begin, env
  <2>4. TasksOK'
    <3>1. "cancel" \in Quiet /\ "seal" \in Quiet /\ "none" \in Whys
      BY DEF Quiet, Whys, Labels
    <3> QED BY <1>0, <1>2, <3>1, WentTo, Became, Rested, WentOn DEF Begin
  <2> QED BY <2>1, <2>2, <2>3, <2>4 DEF IInv
<1>3. CASE SealForCountdown(x)
  <2>1. PlainOK'
    BY <1>3 DEF IInv, PlainOK, env, clock, OpenAt, BotFillAt, CloseAt, StartAt, Statuses, SealForCountdown
  <2>2. RosterOK'
    BY <1>3, StillOK DEF SealForCountdown, env
  <2>3. DrawOK'
    BY <1>3 DEF SealForCountdown, IInv, DrawOK
  <2>4. TasksOK'
    <3>1. "humans" \in Quiet /\ "fill" \in Whys
      BY DEF Quiet, Whys, Labels
    <3> QED BY <1>0, <1>3, <3>1, WentTo, Became, Rested, WentOn DEF SealForCountdown
  <2> QED BY <2>1, <2>2, <2>3, <2>4 DEF IInv
<1>4. CASE Cancel(x)
  <2>1. PlainOK'
    BY <1>4 DEF IInv, PlainOK, env, clock, OpenAt, BotFillAt, CloseAt, StartAt, Statuses, Cancel
  <2>2. RosterOK'
    BY <1>4, StillOK DEF Cancel, env
  <2>3. DrawOK'
    BY <1>4 DEF Cancel, IInv, DrawOK
  <2>4. TasksOK'
    <3>1. "release" \in Quiet /\ "none" \in Whys
      BY DEF Quiet, Whys, Labels
    <3> QED BY <1>0, <1>4, <3>1, WentTo, Became, Rested, WentOn DEF Cancel
  <2> QED BY <2>1, <2>2, <2>3, <2>4 DEF IInv
<1>5. CASE ReleaseRoster(x)
  <2>1. PlainOK'
    BY <1>5 DEF IInv, PlainOK, env, clock, OpenAt, BotFillAt, CloseAt, StartAt, Statuses, ReleaseRoster
  <2>2. RosterOK'
    BY <1>5 DEF ReleaseRoster, PutAll, Holding, IInv, RosterOK, Registration, Bots, Entrants
  <2>3. DrawOK'
    BY <1>5, StillOK DEF ReleaseRoster, env
  <2>4. TasksOK'
    BY <1>0, <1>5, WentOn DEF ReleaseRoster
  <2> QED BY <2>1, <2>2, <2>3, <2>4 DEF IInv
<1> QED BY <1>1, <1>2, <1>3, <1>4, <1>5

\* Bots are planned and registered, and the caller goes on.
LEMMA FillKeeps ==
  ASSUME IInv, NEW x \in Ticks,
         Plan(x) \/ AddBot(x) \/ Filled(x)
  PROVE  IInv'
<1>0. x \in Tasks
  BY DEF Tasks
<1>1. CASE Plan(x)
  <2>1. PlainOK'
    BY <1>1 DEF IInv, PlainOK, env, clock, OpenAt, BotFillAt, CloseAt, StartAt, Statuses, Plan
  <2>2. RosterOK'
    BY <1>1, StillOK DEF Plan, env
  <2>3. DrawOK'
    BY <1>1, StillOK DEF Plan, env
  <2>4. TasksOK'
    <3> DEFINE h == Cardinality(Seated)  b == Cardinality(BotsIn)
    <3>1. CASE CannotRun(h, b)
      <4>1. "cancel" \in Quiet
        BY DEF Quiet, Whys, Labels
      <4> QED BY <1>0, <1>1, <3>1, <4>1, WentTo DEF Plan
    <3>2. CASE ~CannotRun(h, b)
      <4> DEFINE todo == IF h + b >= MinPlayers THEN {} ELSE 1..Wanted(h, b)
                 r == [task[x] EXCEPT !.at = "bots", !.got = h + b, !.todo = todo]
      <4>1. h \in Nat /\ b \in Nat
        <5>1. Seated \subseteq Entrants /\ BotsIn \subseteq Entrants
          BY DEF Seated, Holding, BotsIn, Entrants
        <5>2. IsFiniteSet(Seated) /\ IsFiniteSet(BotsIn)
          BY <5>1, Finitely, FS_Subset
        <5> QED BY <5>2, FS_CardinalityType
      <4>2. todo \subseteq 1..Budget
        BY <3>2, <4>1, WantedIsAffordable
      <4>3. task' = [task EXCEPT ![x] = r]
        BY <1>1, <3>2 DEF Plan, IInv, TasksOK
      <4>4. task[x] \in TaskRecord /\ TaskOK(task[x], draw # {}) /\ draw' = draw
        BY <1>0, <1>1 DEF Plan, IInv, TasksOK
      <4> HIDE DEF h, b, todo
      <4>5. todo \in SUBSET (1..Len(Rotation)) /\ h + b \in Nat
        BY <4>1, <4>2, BudgetIsThere
      <4>6. r \in TaskRecord /\ r.at = "bots" /\ r.todo = todo /\ r.field = task[x].field
        BY <4>4, <4>5 DEF TaskRecord, Labels
      <4>7. TaskOK(r, draw' # {})
        BY <4>2, <4>4, <4>6 DEF TaskOK
      <4> HIDE DEF r
      <4> QED BY <1>0, <4>3, <4>4, <4>7, TaskMoves
    <3> QED BY <3>1, <3>2
  <2> QED BY <2>1, <2>2, <2>3, <2>4 DEF IInv
<1>2. CASE AddBot(x)
  <2>1. PlainOK'
    BY <1>2 DEF IInv, PlainOK, env, clock, OpenAt, BotFillAt, CloseAt, StartAt, Statuses, AddBot
  <2>2. RosterOK'
    <3> DEFINE i == Fewest(task[x].todo)
    <3>1. task[x].todo \subseteq 1..Budget /\ task[x].todo # {}
      BY <1>0, <1>2 DEF AddBot, IInv, TasksOK, TaskOK
    <3>2. i \in 1..Budget
      <4>1. 1..Budget \subseteq Nat
        BY BudgetIsThere
      <4> QED BY <3>1, <4>1, NextIsListed
    <3> HIDE DEF i
    <3>3. Rotation[i] \in First
      BY <3>2 DEF First
    <3>4. Rotation[i] \in Entrants
      BY <3>3, Finitely DEF Entrants
    <3>5. reg' = reg \/ reg' = [reg EXCEPT ![Rotation[i]].status = "checkedIn"]
      BY <1>2 DEF AddBot, Put, i
    <3> QED BY <3>3, <3>4, <3>5 DEF IInv, RosterOK, Registration, Bots, Entrants
  <2>3. DrawOK'
    BY <1>2, StillOK DEF AddBot, env
  <2>4. TasksOK'
    <3> DEFINE left == task[x].todo \ {Fewest(task[x].todo)}
               r == [task[x] EXCEPT !.todo = left]
               s == [task[x] EXCEPT !.todo = left, !.got = task[x].got + 1]
    <3>1. task' = [task EXCEPT ![x] = r] \/ task' = [task EXCEPT ![x] = s]
      BY <1>2 DEF AddBot, IInv, TasksOK
    <3>2. task[x] \in TaskRecord /\ TaskOK(task[x], draw # {}) /\ draw' = draw
      BY <1>0, <1>2 DEF AddBot, IInv, TasksOK
    <3>3. left \subseteq task[x].todo
      OBVIOUS
    <3> HIDE DEF left
    <3>4. left \in SUBSET (1..Len(Rotation)) /\ task[x].got + 1 \in Nat
      BY <3>2, <3>3 DEF TaskRecord
    <3>5. /\ r \in TaskRecord /\ r.at = task[x].at /\ r.todo = left /\ r.field = task[x].field
          /\ s \in TaskRecord /\ s.at = task[x].at /\ s.todo = left /\ s.field = task[x].field
      BY <3>2, <3>4 DEF TaskRecord
    <3>6. TaskOK(r, draw' # {}) /\ TaskOK(s, draw' # {})
      BY <3>2, <3>3, <3>5 DEF TaskOK
    <3> HIDE DEF r, s
    <3> QED BY <1>0, <3>1, <3>2, <3>6, TaskMoves
  <2> QED BY <2>1, <2>2, <2>3, <2>4 DEF IInv
<1>3. CASE Filled(x)
  <2>1. PlainOK'
    BY <1>3 DEF IInv, PlainOK, env, clock, OpenAt, BotFillAt, CloseAt, StartAt, Statuses, Filled
  <2>2. RosterOK'
    BY <1>3, StillOK DEF Filled, env
  <2>3. DrawOK'
    BY <1>3, StillOK DEF Filled, env
  <2>4. TasksOK'
    <3>1. "field" \in Quiet /\ "begin" \in Quiet
      BY DEF Quiet, Whys, Labels
    <3> QED BY <1>0, <1>3, <3>1, WentTo, Became, Rested, WentOn DEF Filled
  <2> QED BY <2>1, <2>2, <2>3, <2>4 DEF IInv
<1> QED BY <1>1, <1>2, <1>3

\* The roster is closed, seeded and drawn, and the tournament begins.
LEMMA DrawKeeps ==
  ASSUME IInv, NEW x \in Ticks,
         WriteOffNoShows(x) \/ ReadField(x) \/ WriteSeeds(x) \/ WriteMatches(x) \/ StartRunning(x)
  PROVE  IInv'
<1>0. x \in Tasks
  BY DEF Tasks
<1>1. CASE WriteOffNoShows(x)
  <2>1. PlainOK'
    BY <1>1 DEF IInv, PlainOK, env, clock, OpenAt, BotFillAt, CloseAt, StartAt, Statuses, WriteOffNoShows
  <2>2. RosterOK'
    BY <1>1 DEF WriteOffNoShows, PutAll, Holding, IInv, RosterOK, Registration, Bots, Entrants
  <2>3. DrawOK'
    BY <1>1, StillOK DEF WriteOffNoShows, env
  <2>4. TasksOK'
    <3>1. "plan" \in Quiet
      BY DEF Quiet, Whys, Labels
    <3> QED BY <1>0, <1>1, <3>1, WentTo, Rested DEF WriteOffNoShows
  <2> QED BY <2>1, <2>2, <2>3, <2>4 DEF IInv
<1>2. CASE ReadField(x)
  <2>1. PlainOK'
    BY <1>2 DEF IInv, PlainOK, env, clock, OpenAt, BotFillAt, CloseAt, StartAt, Statuses, ReadField
  <2>2. RosterOK'
    BY <1>2, StillOK DEF ReadField, env
  <2>3. DrawOK'
    BY <1>2, StillOK DEF ReadField, env
  <2>4. TasksOK'
    <3> DEFINE r == [task[x] EXCEPT !.at = "seeds", !.field = Field]
    <3>1. CASE Cardinality(Field) < 2
      <4>1. "cancel" \in Quiet /\ "none" \in Whys
        BY DEF Quiet, Whys, Labels
      <4> QED BY <1>0, <1>2, <3>1, <4>1, Became DEF ReadField
    <3>2. CASE ~(Cardinality(Field) < 2)
      <4>1. Field \subseteq Entrants /\ Field \cap Bots \subseteq First
        BY DEF Field, Holding, IInv, RosterOK
      <4>2. Cardinality(Field) >= 2
        <5>1. IsFiniteSet(Field)
          BY <4>1, Finitely, FS_Subset
        <5> QED BY <5>1, <3>2, FS_CardinalityType
      <4>3. task' = [task EXCEPT ![x] = r]
        BY <1>2, <3>2 DEF ReadField, IInv, TasksOK
      <4>4. task[x] \in TaskRecord /\ TaskOK(task[x], draw # {}) /\ draw' = draw
        BY <1>0, <1>2 DEF ReadField, IInv, TasksOK
      <4>5. TaskOK(r, draw' # {})
        BY <4>1, <4>2, <4>4 DEF TaskOK, TaskRecord, Labels
      <4> HIDE DEF r
      <4> QED BY <1>0, <4>3, <4>4, <4>5, TaskMoves
    <3> QED BY <3>1, <3>2
  <2> QED BY <2>1, <2>2, <2>3, <2>4 DEF IInv
<1>3. CASE WriteSeeds(x)
  <2>1. PlainOK'
    BY <1>3 DEF IInv, PlainOK, env, clock, OpenAt, BotFillAt, CloseAt, StartAt, Statuses, WriteSeeds
  <2>2. RosterOK'
    <3>1. task[x].field \cap Bots \subseteq First
      BY <1>0 DEF IInv, TasksOK, TaskOK
    <3> QED BY <1>3, <3>1 DEF WriteSeeds, IInv, RosterOK, Registration, Bots, Entrants
  <2>3. DrawOK'
    BY <1>3, StillOK DEF WriteSeeds, env
  <2>4. TasksOK'
    <3> DEFINE r == [task[x] EXCEPT !.at = "matches"]
    <3>1. task' = [task EXCEPT ![x] = r]
      BY <1>3 DEF WriteSeeds, Goto, IInv, TasksOK
    <3>2. task[x] \in TaskRecord /\ TaskOK(task[x], draw # {}) /\ draw' = draw
      BY <1>0, <1>3 DEF WriteSeeds, IInv, TasksOK
    <3>3. task[x].at = "seeds"
      BY <1>3 DEF WriteSeeds, At
    <3>4. TaskOK(r, draw' # {})
      BY <3>2, <3>3 DEF TaskOK, TaskRecord, Labels
    <3> HIDE DEF r
    <3> QED BY <1>0, <3>1, <3>2, <3>4, TaskMoves
  <2> QED BY <2>1, <2>2, <2>3, <2>4 DEF IInv
<1>4. CASE WriteMatches(x)
  <2>1. PlainOK'
    BY <1>4 DEF IInv, PlainOK, env, clock, OpenAt, BotFillAt, CloseAt, StartAt, Statuses, WriteMatches
  <2>2. RosterOK'
    BY <1>4, StillOK DEF WriteMatches, env
  <2>3. DrawOK'
    <3>1. task[x].field \subseteq Entrants /\ Cardinality(task[x].field) >= 2
      BY <1>0, <1>4 DEF WriteMatches, At, IInv, TasksOK, TaskOK, TaskRecord
    <3>2. draw' = IF draw = {} THEN task[x].field ELSE draw
      BY <1>4 DEF WriteMatches
    <3>3. task[x].field # {}
      BY <3>1, FS_EmptySet
    <3> QED BY <1>4, <3>1, <3>2, <3>3 DEF WriteMatches, IInv, DrawOK
  <2>4. TasksOK'
    <3> DEFINE r == [task[x] EXCEPT !.at = "run"]
    <3>1. task' = [task EXCEPT ![x] = r]
      BY <1>4 DEF WriteMatches, Goto, IInv, TasksOK
    <3>2. task[x] \in TaskRecord /\ TaskOK(task[x], draw # {}) /\ (draw # {} => draw' # {})
      BY <1>0, <1>4 DEF WriteMatches, IInv, TasksOK
    <3>3. draw' # {}
      <4>1. Cardinality(task[x].field) >= 2
        BY <1>0, <1>4 DEF WriteMatches, At, IInv, TasksOK, TaskOK
      <4>2. task[x].field # {}
        BY <4>1, FS_EmptySet
      <4> QED BY <1>4, <4>2 DEF WriteMatches
    <3>4. TaskOK(r, draw' # {})
      BY <3>2, <3>3 DEF TaskOK, TaskRecord, Labels
    <3> HIDE DEF r
    <3> QED BY <1>0, <3>1, <3>2, <3>4, TaskMoves
  <2> QED BY <2>1, <2>2, <2>3, <2>4 DEF IInv
<1>5. CASE StartRunning(x)
  <2>1. PlainOK'
      <3>1. task[x].why \in Whys
      BY <1>0 DEF IInv, TasksOK, TaskRecord, Whys
    <3> QED BY <1>5, <3>1 DEF StartRunning, IInv, PlainOK, env, clock, OpenAt, BotFillAt, CloseAt, StartAt, Statuses
  <2>2. RosterOK'
    BY <1>5, StillOK DEF StartRunning, env
  <2>3. DrawOK'
    <3>1. draw # {}
      BY <1>0, <1>5 DEF StartRunning, At, IInv, TasksOK, TaskOK
    <3> QED BY <1>5, <3>1 DEF StartRunning, IInv, DrawOK
  <2>4. TasksOK'
    BY <1>0, <1>5, Rested DEF StartRunning
  <2> QED BY <2>1, <2>2, <2>3, <2>4 DEF IInv
<1> QED BY <1>1, <1>2, <1>3, <1>4, <1>5

\* People register, withdraw and confirm.
LEMMA RequestKeeps == ASSUME IInv, NEW u \in Users, Request(u) PROVE IInv'
<1>0. u \in Tasks /\ u \in Entrants /\ u \notin Bots
  BY PeopleAssumption DEF Tasks, Entrants
<1>1. ASSUME NEW l \in {"admit", "withdraw", "confirm"}, NEW v, Ask(u, l, v) PROVE IInv'
  <2>1. l \in Quiet
    BY <1>1 DEF Quiet, Labels
  <2>2. UNCHANGED <<env, status, due, reg, draw, lock>> /\ Goto(u, l)
    BY <1>1 DEF Ask
  <2>3. PlainOK'
    BY <2>2 DEF IInv, PlainOK, env, StartAt, OpenAt, Statuses
  <2>4. TasksOK'
    BY <1>0, <2>1, <2>2, WentTo
  <2> QED BY <2>2, <2>3, <2>4, StillOK DEF IInv
<1>2. CASE Admit(u)
  <2>1. PlainOK'
    BY <1>2 DEF IInv, PlainOK, env, StartAt, Statuses, Admit
  <2>2. "seat" \in Quiet
    BY DEF Quiet, Labels
  <2>3. TasksOK'
    BY <1>0, <1>2, <2>2, WentTo, Rested DEF Admit
  <2> QED BY <1>2, <2>1, <2>3, StillOK DEF IInv, Admit
<1>3. CASE TakeSeat(u)
  <2>1. PlainOK'
    BY <1>3 DEF IInv, PlainOK, env, StartAt, Statuses, TakeSeat
  <2>2. "early" \in Quiet
    BY DEF Quiet, Labels
  <2>3. TasksOK'
    BY <1>0, <1>3, <2>2, WentTo, Rested DEF TakeSeat
  <2>4. RosterOK'
    <3>1. PICK v \in {"registered", "checkedIn"} :
            reg' = [reg EXCEPT ![u] = [status |-> v, seeded |-> FALSE]]
      BY <1>3 DEF TakeSeat
    <3>2. reg'[u] = [status |-> v, seeded |-> FALSE] /\ \A e \in Entrants \ {u} : reg'[e] = reg[e]
      BY <1>0, <3>1 DEF IInv, RosterOK
    <3>3. reg' \in [Entrants -> Registration]
      BY <3>1 DEF IInv, RosterOK, Registration
    <3>4. \A b \in Bots : b # u /\ b \in Entrants
      BY <1>0 DEF Entrants
    <3> QED BY <3>2, <3>3, <3>4 DEF IInv, RosterOK
  <2> QED BY <1>3, <2>1, <2>3, <2>4, StillOK DEF IInv, TakeSeat
<1>4. CASE Withdraw(u) \/ Confirm(u)
  <2>1. PlainOK'
    BY <1>4 DEF IInv, PlainOK, env, StartAt, Statuses, Withdraw, Confirm
  <2>2. TasksOK'
    BY <1>0, <1>4, Rested DEF Withdraw, Confirm
  <2>3. RosterOK'
    <3>1. reg' = reg \/ \E v \in {"withdrawn", "checkedIn"} : reg' = [reg EXCEPT ![u].status = v]
      BY <1>4 DEF Withdraw, Confirm, Put
    <3>2. CASE reg' = reg
      BY <3>2, StillOK
    <3>3. ASSUME NEW v \in {"withdrawn", "checkedIn"}, reg' = [reg EXCEPT ![u].status = v]
          PROVE RosterOK'
      <4>1. \A b \in Bots : b # u /\ b \in Entrants
        BY <1>0 DEF Entrants
      <4> QED BY <1>0, <3>3, <4>1 DEF IInv, RosterOK, Registration
    <3> QED BY <3>1, <3>2, <3>3
  <2>4. DrawOK'
    BY <1>4, StillOK DEF Withdraw, Confirm
  <2> QED BY <2>1, <2>2, <2>3, <2>4 DEF IInv
<1> QED
  <2>1. \/ Ask(u, "admit", "registration") \/ Ask(u, "withdraw", "registration")
        \/ Ask(u, "confirm", "checkIn")
        \/ Admit(u) \/ TakeSeat(u) \/ Withdraw(u) \/ Confirm(u)
    BY DEF Request
  <2>2. CASE Ask(u, "admit", "registration")
    BY <1>1, <2>2
  <2>3. CASE Ask(u, "withdraw", "registration")
    BY <1>1, <2>3
  <2>4. CASE Ask(u, "confirm", "checkIn")
    BY <1>1, <2>4
  <2> QED BY <2>1, <2>2, <2>3, <2>4, <1>2, <1>3, <1>4

\* Time passes, leases run out, processes die, the bracket is played out.
LEMMA WorldKeeps ==
  ASSUME IInv, LeaseExpires \/ Complete \/ DeadlinePasses \/ CountdownEnds \/ UNCHANGED vars
  PROVE  IInv'
<1>1. PlainOK'
  <2> USE DEF IInv, PlainOK, env, StartAt, Statuses
  <2>1. CASE LeaseExpires
    BY <2>1 DEF LeaseExpires
  <2>2. CASE Complete
    BY <2>2 DEF Complete
  <2>3. CASE DeadlinePasses
    BY <2>3 DEF DeadlinePasses
  <2>4. CASE CountdownEnds
    BY <2>4 DEF CountdownEnds
  <2>5. CASE UNCHANGED vars
    BY <2>5 DEF vars
  <2> QED BY <2>1, <2>2, <2>3, <2>4, <2>5
<1>2. DrawOK'
  BY DEF IInv, DrawOK, env, LeaseExpires, Complete, DeadlinePasses, CountdownEnds, vars
<1>3. UNCHANGED <<reg, draw, task>>
  BY DEF LeaseExpires, Complete, DeadlinePasses, CountdownEnds, vars
<1> QED BY <1>1, <1>2, <1>3, StillOK DEF IInv

LEMMA CrashKeeps == ASSUME IInv, NEW p \in Servers, Crash(p) PROVE IInv'
<1>1. PlainOK'
  BY LimitsAssumption DEF IInv, PlainOK, clock, StartAt, Statuses, Crash
<1>2. UNCHANGED <<status, reg, draw>>
  BY DEF Crash
<1>3. TasksOK'
  <2>1. "idle" \in Quiet
    BY DEF Quiet, Labels
  <2>2. TaskOK(Idle, draw' # {})
    BY <2>1, IdleIsOK
  <2>3. \A x \in Tasks : TaskOK(task[x], draw' # {})
    BY <1>2 DEF IInv, TasksOK
  <2>4. task' = [x \in Tasks |-> IF Host[x] = p THEN Idle ELSE task[x]]
    BY DEF Crash
  <2>5. \A x \in Tasks : TaskOK(task'[x], draw' # {})
    BY <2>2, <2>3, <2>4
  <2>6. \A x \in Tasks : task'[x] \in TaskRecord
    BY <2>5 DEF TaskOK
  <2> QED BY <2>4, <2>5, <2>6 DEF TasksOK
<1> QED BY <1>1, <1>2, <1>3, StillOK DEF IInv

\* Nothing has happened yet.
LEMMA InitIsOK == Init => IInv
<1> SUFFICES ASSUME Init PROVE IInv
  OBVIOUS
<1>1. PlainOK
  <2>1. MaxCrashes \in Nat
    BY LimitsAssumption
  <2>2. lock \in [owner : Servers \cup {NoOne}, live : BOOLEAN]
    BY DEF Init
  <2>3. checkInEnabled \in BOOLEAN
    BY DEF Init
  <2>4. status \in Statuses /\ due \in BOOLEAN
    BY DEF Init, Statuses
  <2>5. now \in 0..StartAt /\ crashes \in 0..MaxCrashes
    <3>1. now = 0 /\ crashes = 0
      BY DEF Init
    <3> QED BY <2>1, <3>1 DEF StartAt
  <2> QED BY <2>2, <2>3, <2>4, <2>5 DEF PlainOK
<1>2. RosterOK
  BY DEF Init, RosterOK, Registration, Bots, Entrants
<1>3. DrawOK
  BY DEF Init, DrawOK
<1>4. TasksOK
  <2>1. "idle" \in Quiet
    BY DEF Quiet, Labels
  <2>2. TaskOK(Idle, draw # {})
    BY <2>1, IdleIsOK
  <2>3. Idle \in TaskRecord
    BY <2>2 DEF TaskOK
  <2> QED BY <2>2, <2>3 DEF Init, TasksOK
<1> QED BY <1>1, <1>2, <1>3, <1>4 DEF IInv

LEMMA NextKeeps == IInv /\ [Next]_vars => IInv'
<1> SUFFICES ASSUME IInv, [Next]_vars PROVE IInv'
  OBVIOUS
<1>1. ASSUME NEW t \in Ticks, Lease(t) \/ Deadlines(t) \/ Fill(t) \/ Draw(t) PROVE IInv'
  <2>1. CASE Lease(t)
    BY <2>1, LeaseKeeps DEF Lease
  <2>2. CASE Deadlines(t)
    BY <2>2, DeadlinesKeep DEF Deadlines
  <2>3. CASE Fill(t)
    BY <2>3, FillKeeps DEF Fill
  <2>4. CASE Draw(t)
    BY <2>4, DrawKeeps DEF Draw
  <2> QED BY <1>1, <2>1, <2>2, <2>3, <2>4
<1>2. ASSUME NEW x \in Tasks, Shared(x) PROVE IInv'
  BY <1>2, SharedKeeps DEF Shared
<1>3. ASSUME NEW u \in Users, Request(u) PROVE IInv'
  BY <1>3, RequestKeeps
<1>4. CASE LeaseExpires \/ Complete \/ DeadlinePasses \/ CountdownEnds \/ UNCHANGED vars
  BY <1>4, WorldKeeps
<1>5. ASSUME NEW p \in Servers, Crash(p) PROVE IInv'
  BY <1>5, CrashKeeps
<1> QED BY <1>1, <1>2, <1>3, <1>4, <1>5 DEF Next

LEMMA Invariant == Spec => []IInv
BY InitIsOK, NextKeeps, PTL DEF Spec

-----------------------------------------------------------------------------
(* What it is good for. *)

\* Every variable has its type, whoever does what and when.
THEOREM TypeCorrect == Spec => []TypeOK
<1>1. IInv => TypeOK
  <2>1. Path!Before \cup {"running"} \cup Path!Over = Statuses
    BY DEF Statuses, Path!Before, Path!Over
  <2> QED BY <2>1 DEF IInv, PlainOK, RosterOK, DrawOK, TasksOK, TypeOK, Registration, TaskRecord
<1> QED BY <1>1, Invariant, PTL

\* The tournament takes the steps of its diagram and no others, however many
\* passes overlap and however old the row is that each of them judged by:
\* the detailed life is an implementation of TournamentPath.
THEOREM PathFollowed == Spec => FollowsPath
<1>1. IInv /\ [Next]_vars => [Path!Next]_status
  <2> SUFFICES ASSUME IInv, [Next]_vars, status' # status PROVE Path!Next
    OBVIOUS
  <2> USE DEF Path!Next, Path!Open, Path!Seal, Path!Run, Path!Complete, Path!Cancel,
              Path!Before, Path!Over
  <2>1. ASSUME NEW t \in Ticks, Lease(t) \/ Deadlines(t) \/ Fill(t) \/ Draw(t) PROVE Path!Next
    <3>1. CASE Lease(t) \/ Fill(t)
      BY <3>1 DEF Lease, Acquire, Unlock, Fill, Plan, AddBot, Filled
    <3>2. CASE Deadlines(t)
      BY <3>2 DEF Deadlines, LoadUpcoming, OpenRegistration, LoadLive, CountHumans,
                  CountForCheckIn, SealForCheckIn
    <3>3. CASE Draw(t)
      <4>1. task[t].why \in Whys
        BY DEF IInv, TasksOK, TaskRecord, Whys, Tasks
      <4> QED BY <3>3, <4>1 DEF Draw, WriteOffNoShows, ReadField, WriteSeeds, WriteMatches,
                                StartRunning, Whys, IInv, PlainOK, Statuses
    <3> QED BY <2>1, <3>1, <3>2, <3>3
  <2>2. ASSUME NEW x \in Tasks, Shared(x) PROVE Path!Next
    BY <2>2 DEF Shared, StartEarly, Begin, SealForCountdown, Cancel, ReleaseRoster, IInv, PlainOK,
                Statuses
  <2>3. ASSUME NEW u \in Users, Request(u) PROVE Path!Next
    BY <2>3 DEF Request, Ask, Admit, TakeSeat, Withdraw, Confirm
  <2>4. CASE LeaseExpires \/ Complete \/ DeadlinePasses \/ CountdownEnds \/ UNCHANGED vars
    BY <2>4 DEF LeaseExpires, Complete, DeadlinePasses, CountdownEnds, vars
  <2>5. ASSUME NEW p \in Servers, Crash(p) PROVE Path!Next
    BY <2>5 DEF Crash
  <2> QED BY <2>1, <2>2, <2>3, <2>4, <2>5 DEF Next
<1> QED BY <1>1, Invariant, PTL DEF Spec, FollowsPath, Path!Steps

\* What runs has been drawn, and whoever is active in it has been seeded.
THEOREM RunningDrawn == Spec => []RunningIsDrawn
<1>1. IInv => RunningIsDrawn
  BY DEF IInv, RosterOK, DrawOK, RunningIsDrawn
<1> QED BY <1>1, Invariant, PTL

\* Whatever the fills have counted, no more bots come in than the plan allows.
THEOREM BotsPlanned == Spec => []BotsWithinPlan
<1>1. IInv => BotsWithinPlan
  <2> SUFFICES ASSUME IInv PROVE BotsWithinPlan
    OBVIOUS
  <2>1. BotsIn \subseteq First
    BY DEF IInv, RosterOK, BotsIn
  <2>2. Cardinality(BotsIn) <= Cardinality(First) /\ IsFiniteSet(BotsIn)
    BY <2>1, Finitely, FS_Subset
  <2>3. Cardinality(BotsIn) \in Nat /\ Cardinality(First) \in Nat
    BY <2>2, Finitely, FS_CardinalityType
  <2>4. Cardinality(BotsIn) <= Budget
    BY <2>2, <2>3, Finitely, BudgetIsThere
  <2> QED BY <2>4 DEF BotsWithinPlan, Budget
<1> QED BY <1>1, Invariant, PTL
=============================================================================
