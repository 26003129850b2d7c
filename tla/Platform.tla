------------------------------- MODULE Platform -------------------------------
(***************************************************************************)
(* A room of the platform games (src/src/services/game_platform.service.ts),*)
(* the rematch offer that stands in it (rematch.service.ts) and the driver  *)
(* that plays the Stupids' turns (bot/platformBot.service.ts).              *)
(*                                                                         *)
(* Every call loads the room's document, decides on that copy and saves it  *)
(* back; between the two the process serves other calls. What protects a    *)
(* room is therefore what a save checks and writes:                         *)
(*   - a `push` goes to the stored array whatever the copy was, and bumps   *)
(*     the document's version;                                              *)
(*   - an array written whole fails when the version moved since the load,  *)
(*     and bumps it;                                                        *)
(*   - a field of a seat (`players.i.isReady`) fails when the version       *)
(*     moved, and does not bump it;                                         *)
(*   - any other field is written unconditionally.                          *)
(* A version is kept here as a mark on the copies it makes stale.           *)
(*                                                                         *)
(* A match is only its status, the seats dealt into it and whose turn it    *)
(* is; the card games' own rules are module GameAdapters. A real-time match *)
(* has no turn and ends by a report of its simulation.                      *)
(***************************************************************************)
EXTENDS Naturals, Sequences, FiniteSets, SequencesExt, Filter

CONSTANTS Users,        \* people, one call of theirs in flight at a time
          Stupids,      \* the bot roster, all of them seatable
          Clock,        \* the rematch timer's callback, and one reporter
          Driver,       \* the Stupids' driver, and the other reporter
          NoOne,
          MinPlayers, MaxPlayers,   \* the game's definition
          MaxMatches,   \* bound: matches played in the room
          MaxOffers,    \* bound: rematch offers made in the room
          MaxInFlight,  \* bound: calls in flight at once
          Scenarios     \* bound: sets of calls, one for the people of a behaviour

PlatformAssumption ==
  /\ MinPlayers \in Nat \ {0} /\ MaxPlayers \in Nat /\ MinPlayers <= MaxPlayers
  /\ Users \cap Stupids = {} /\ NoOne \notin Users \union Stupids
  /\ Clock \notin Users /\ Driver \notin Users /\ Clock # Driver
  /\ IsFiniteSet(Stupids)
  /\ MaxMatches \in Nat /\ MaxOffers \in Nat /\ MaxInFlight \in Nat

Seats == Users \union Stupids
Procs == Users \union {Clock, Driver}

VARIABLES
  verbs,       \* the calls people make in this behaviour
  room,        \* the room's document
  offer,       \* its rematch field
  late,        \* the offer's deadline has passed
  timer,       \* the rematch timer is armed
  matches,     \* the match documents, in the order they were created
  call,        \* each process's call: where it is and the copy it holds
  reconciles,  \* scheduleIfBot calls that wait for the seats
  turnTimer,   \* the pending Stupid turn of the room, or NoTurn
  rewardKeys,  \* uniqueRewardKey rows
  awards       \* how often xpService.award ran for a match and a person

vars == <<verbs, room, offer, late, timer, matches, call, reconciles, turnTimer,
          rewardKeys, awards>>
botVars == <<reconciles, turnTimer>>
payVars == <<rewardKeys, awards>>
offerVars == <<offer, late, timer>>

NoTurn == [match |-> 0, seat |-> NoOne]
\* An offer's number stands for the time it was made at.
NoOffer == [number |-> 0, accepted |-> {}, declined |-> {}, outcome |-> "none"]
\* A call in flight: the step it stands before, and what it keeps of its copy.
Idle == [at |-> "idle", stale |-> FALSE, seats |-> <<>>, ready |-> {},
         accepted |-> {}, who |-> {}, seat |-> NoOne, match |-> 0, yes |-> FALSE]
At(step) == [Idle EXCEPT !.at = step]

SeatSet(seats) == {seats[i] : i \in 1..Len(seats)}
Players == SeatSet(room.players)
HumansOf(seats) == SeatSet(seats) \intersect Users

----------------------------------------------------------------------------
(* Documents *)

\* A call stands before `step` with the seats, or the seats and their ready
\* flags, as they are loaded now.
WithSeats(step) == [At(step) EXCEPT !.seats = room.players]
Loaded(step) == [WithSeats(step) EXCEPT !.ready = room.ready]

\* A call may begin.
Begins(p) ==
  /\ call[p].at = "idle"
  /\ Cardinality({q \in Procs : call[q].at # "idle"}) < MaxInFlight

\* The steps whose save looks at the version.
Checked == {"leaving", "readying", "clearing", "answering", "regrouping"}

Goes(p, c) == call' = [call EXCEPT ![p] = c]
Ends(p) == Goes(p, Idle)

\* p goes on with c and its save bumped the version: every other copy of the
\* room is stale from now on.
Bumps(p, c) ==
  call' = [q \in Procs |-> IF q = p THEN c
                           ELSE [call[q] EXCEPT !.stale = call[q].at \in Checked]]

VersionHolds_Unversioned(p) == TRUE

\* Whether a save that names array positions, or a whole array, is accepted.
VersionHolds(p) == ~call[p].stale

\* The save of p failed with a VersionError: the call fails.
Refused(p) == Ends(p) /\ UNCHANGED <<verbs, room, offerVars, matches, botVars, payVars>>

----------------------------------------------------------------------------
(* The Stupids' driver *)

\* reconcile: a finished match drops the pending turn at once, a running one
\* reads the seats before it decides.
ReconcileWith(m, status, turn) ==
  IF status # "playing" \/ turn = NoOne
  THEN turnTimer' = NoTurn /\ UNCHANGED reconciles
  ELSE /\ reconciles' = reconciles \union {[match |-> m, seat |-> turn]}
       /\ UNCHANGED turnTimer

\* scheduleIfBot after its read: a Stupid's turn replaces the pending one, a
\* person's drops it.
ScheduleIfBot ==
  \E r \in reconciles :
    /\ reconciles' = reconciles \ {r}
    /\ turnTimer' = IF r.seat \in Stupids /\ r.seat \in Players THEN r ELSE NoTurn
    /\ UNCHANGED <<verbs, room, offerVars, matches, call, payVars>>

\* The pending turn's timer fires: the Stupid looks at its own view, and moves
\* when it is on turn.
TakeTurn ==
  /\ turnTimer # NoTurn
  /\ Begins(Driver)
  /\ turnTimer' = NoTurn
  /\ LET m == turnTimer.match IN
     IF /\ turnTimer.seat \in Players
        /\ matches[m].status = "playing"
        /\ matches[m].turn = turnTimer.seat
     THEN Goes(Driver, [WithSeats("moving") EXCEPT !.match = m])
     ELSE Ends(Driver)
  /\ UNCHANGED <<verbs, room, offerVars, matches, reconciles, payVars>>

----------------------------------------------------------------------------
(* Seats *)

\* addPlayer, up to the wait for the caller's other seats.
Join(u) ==
  /\ "join" \in verbs /\ Begins(u)
  /\ ~room.closed /\ room.status = "waiting"
  /\ u \notin Players /\ Len(room.players) < MaxPlayers
  /\ Goes(u, At("joining"))
  /\ UNCHANGED <<verbs, room, offerVars, matches, botVars, payVars>>

\* The seat is pushed.
JoinSave(u) ==
  /\ call[u].at = "joining"
  /\ room' = [room EXCEPT !.players = Append(@, u), !.ready = @ \ {u}]
  /\ Bumps(u, Idle)
  /\ UNCHANGED <<verbs, offerVars, matches, botVars, payVars>>

Leave(u) ==
  /\ "leave" \in verbs /\ Begins(u)
  /\ ~room.closed /\ u \in Players
  /\ Goes(u, Loaded("leaving"))
  /\ UNCHANGED <<verbs, room, offerVars, matches, botVars, payVars>>

\* leaveRoom's save: the array without the caller, the first seat left as the
\* owner, and an empty room closed. The array carries the copy's ready flags.
\* Any pending Stupid turn goes with the seat.
LeaveSave(u) ==
  /\ call[u].at = "leaving"
  /\ LET seats == Filter(call[u].seats, Seats \ {u}) IN
     IF ~VersionHolds(u) THEN Refused(u)
     ELSE /\ room' = [room EXCEPT
                !.players = seats,
                !.ready = call[u].ready \ {u},
                !.owner = IF @ = u /\ seats # <<>> THEN Head(seats) ELSE @,
                !.status = IF seats = <<>> THEN "closed" ELSE @,
                !.closed = @ \/ seats = <<>>]
          /\ turnTimer' = NoTurn
          /\ Bumps(u, Idle)
          /\ UNCHANGED <<verbs, offerVars, matches, reconciles, payVars>>

\* readyRoom: the caller's flag, then the decision on the same copy.
Ready(u) ==
  /\ "ready" \in verbs /\ Begins(u)
  /\ ~room.closed /\ u \in Players /\ room.status = "waiting"
  /\ \E yes \in BOOLEAN :
       Goes(u, [Loaded("readying") EXCEPT
                  !.ready = IF yes THEN @ \union {u} ELSE @ \ {u},
                  !.yes = yes,
                  !.who = {u} \ {v \in {u} : yes = (v \in room.ready)}])
  /\ UNCHANGED <<verbs, room, offerVars, matches, botVars, payVars>>

AllReady(c) ==
  /\ Len(c.seats) >= MinPlayers
  /\ HumansOf(c.seats) # {}
  /\ HumansOf(c.seats) \subseteq c.ready

ReadySave(u) ==
  /\ call[u].at = "readying"
  /\ IF call[u].who # {} /\ ~VersionHolds(u) THEN Refused(u)
     ELSE /\ room' = [room EXCEPT !.ready = IF call[u].who = {} THEN @
                                            ELSE IF call[u].yes THEN @ \union {u} ELSE @ \ {u}]
          /\ IF AllReady(call[u])
             THEN Goes(u, [At("starting") EXCEPT !.seats = call[u].seats,
                                                 !.ready = call[u].ready])
             ELSE Ends(u)
          /\ UNCHANGED <<verbs, offerVars, matches, botVars, payVars>>

\* addStupids: the owner's call, on the seats it read.
Free(seats) == MaxPlayers - Len(seats)
MaySeat(owner) ==
  /\ ~room.closed /\ room.status = "waiting" /\ room.owner = owner
  /\ HumansOf(room.players) # {} /\ Free(room.players) > 0

AddStupids(u) ==
  /\ "stupids" \in verbs /\ Begins(u) /\ MaySeat(u)
  /\ Goes(u, WithSeats("seating"))
  /\ UNCHANGED <<verbs, room, offerVars, matches, botVars, payVars>>

\* Bots the roster has that the copy does not seat, at most `count` of them.
Picks(seats, count) ==
  LET unseated == Stupids \ SeatSet(seats)
      size == IF Cardinality(unseated) < count THEN Cardinality(unseated) ELSE count
  IN {s \in SUBSET unseated : Cardinality(s) = size}

\* The picked bots are pushed, ready on arrival.
Pushed(bots) == [room EXCEPT !.players = @ \o SetToSeq(bots)]

SeatSave(u) ==
  /\ call[u].at = "seating"
  /\ \E count \in 1..Free(call[u].seats) : \E bots \in Picks(call[u].seats, count) :
       IF bots = {} THEN Ends(u) /\ UNCHANGED room
       ELSE room' = Pushed(bots) /\ Bumps(u, Idle)
  /\ UNCHANGED <<verbs, offerVars, matches, botVars, payVars>>

\* clearStupids: the array without its bots, written whole.
ClearStupids(u) ==
  /\ "clear" \in verbs /\ Begins(u)
  /\ ~room.closed /\ room.status = "waiting" /\ room.owner = u
  /\ Players \intersect Stupids # {}
  /\ Goes(u, Loaded("clearing"))
  /\ UNCHANGED <<verbs, room, offerVars, matches, botVars, payVars>>

ClearSave(u) ==
  /\ call[u].at = "clearing"
  /\ IF ~VersionHolds(u) THEN Refused(u)
     ELSE /\ room' = [room EXCEPT
                !.players = Filter(call[u].seats, Users),
                !.ready = call[u].ready]
          /\ Bumps(u, Idle)
          /\ UNCHANGED <<verbs, offerVars, matches, botVars, payVars>>

----------------------------------------------------------------------------
(* Matches *)

\* startRoom creates the match from the copy's seats; somebody is on turn, or
\* nobody in a real-time game.
Create(p) ==
  /\ call[p].at = "starting"
  /\ Len(matches) < MaxMatches
  /\ \E turn \in IF room.realtime THEN {NoOne} ELSE SeatSet(call[p].seats) :
       matches' = Append(matches,
         [status |-> "playing", dealt |-> SeatSet(call[p].seats), turn |-> turn])
  /\ Goes(p, [At("installing") EXCEPT !.match = Len(matches) + 1])
  /\ UNCHANGED <<verbs, room, offerVars, botVars, payVars>>

\* ... then points the room at it. Neither field is checked.
Install(p) ==
  /\ call[p].at = "installing"
  /\ room' = [room EXCEPT !.match = call[p].match, !.status = "playing"]
  /\ ReconcileWith(call[p].match, "playing", matches[call[p].match].turn)
  /\ Ends(p)
  /\ UNCHANGED <<verbs, offerVars, matches, payVars>>

\* A match is known once its room points, or pointed, at it.
Announced(m) == \A p \in Procs : call[p].at = "installing" => call[p].match # m

\* action: the match and the room are loaded and the move is legal. Table talk
\* (`react`) is legal off turn and moves nothing.
Act(u) ==
  /\ Begins(u)
  /\ \E m \in 1..Len(matches) :
       /\ Announced(m) /\ u \in Players
       /\ matches[m].status = "playing"
       /\ \/ /\ "act" \in verbs /\ matches[m].turn = u
             /\ Goes(u, [WithSeats("moving") EXCEPT !.match = m])
          \/ /\ "talk" \in verbs /\ ~room.realtime
             /\ Goes(u, [At("talking") EXCEPT
                           !.match = m, !.seat = matches[m].turn])
  /\ UNCHANGED <<verbs, room, offerVars, matches, botVars, payVars>>

\* The move is saved: the turn passes to somebody dealt in, or the match ends.
MoveOn(p) ==
  /\ call[p].at = "moving"
  /\ \E next \in matches[call[p].match].dealt :
       /\ matches' = [matches EXCEPT ![call[p].match].turn = next]
       /\ ReconcileWith(call[p].match, "playing", next)
  /\ Ends(p)
  /\ UNCHANGED <<verbs, room, offerVars, payVars>>

Finish(p) ==
  /\ call[p].at = "moving"
  /\ matches' = [matches EXCEPT ![call[p].match].status = "completed"]
  /\ Goes(p, [call[p] EXCEPT !.at = "completing"])
  /\ UNCHANGED <<verbs, room, offerVars, botVars, payVars>>

\* Table talk writes back the state it loaded, the turn with it.
Talk(u) ==
  /\ call[u].at = "talking"
  /\ matches' = [matches EXCEPT ![call[u].match].turn = call[u].seat]
  /\ ReconcileWith(call[u].match, "playing", call[u].seat)
  /\ Ends(u)
  /\ UNCHANGED <<verbs, room, offerVars, payVars>>

\* completeRealtimeMatch: the simulation reports the end; it may report twice.
Report(p) ==
  /\ room.realtime /\ p \in {Clock, Driver} /\ Begins(p)
  /\ \E m \in 1..Len(matches) :
       /\ Announced(m) /\ matches[m].status = "playing"
       /\ Goes(p, [WithSeats("reporting") EXCEPT !.match = m])
  /\ UNCHANGED <<verbs, room, offerVars, matches, botVars, payVars>>

ReportSave(p) ==
  /\ call[p].at = "reporting"
  /\ matches' = [matches EXCEPT ![call[p].match].status = "completed"]
  /\ Goes(p, [call[p] EXCEPT !.at = "completing"])
  /\ UNCHANGED <<verbs, room, offerVars, botVars, payVars>>

\* The room is completed, unchecked; then the reward rows are inserted, each
\* once for a match and a person ...
Complete(p) ==
  /\ call[p].at = "completing"
  /\ room' = [room EXCEPT !.status = "completed"]
  /\ Goes(p, [call[p] EXCEPT !.at = "recording"])
  /\ UNCHANGED <<verbs, offerVars, matches, botVars, payVars>>

Earners(c) == {[match |-> c.match, user |-> u] : u \in HumansOf(c.seats)}

Record_NoLedger(p) ==
  /\ call[p].at = "recording"
  /\ rewardKeys' = rewardKeys \union Earners(call[p])
  /\ Goes(p, [call[p] EXCEPT !.at = "awarding", !.who = HumansOf(call[p].seats)])
  /\ UNCHANGED <<verbs, room, offerVars, matches, botVars, awards>>

Record(p) ==
  /\ call[p].at = "recording"
  /\ rewardKeys' = rewardKeys \union Earners(call[p])
  /\ Goes(p, [call[p] EXCEPT !.at = "awarding", !.who = HumansOf(call[p].seats) \ {k.user : k \in {j \in rewardKeys : j.match = call[p].match}}])
  /\ UNCHANGED <<verbs, room, offerVars, matches, botVars, awards>>

\* ... and only who got a new row is paid.
Award(p) ==
  /\ call[p].at = "awarding"
  /\ awards' = [k \in DOMAIN awards |->
                  IF k.match = call[p].match /\ k.user \in call[p].who THEN awards[k] + 1 ELSE awards[k]]
  /\ ReconcileWith(call[p].match, "completed", NoOne)
  /\ Ends(p)
  /\ UNCHANGED <<verbs, room, offerVars, matches, rewardKeys>>

----------------------------------------------------------------------------
(* The rematch offer *)

Outstanding(seats, answered) == HumansOf(seats) \ answered

\* request: a standing offer makes it a yes.
Request(u) ==
  /\ "ask" \in verbs /\ Begins(u)
  /\ u \in Players /\ room.status # "playing"
  /\ Goes(u, IF offer.outcome = "open" /\ ~late
             THEN [At("responding") EXCEPT !.yes = TRUE]
             ELSE WithSeats("asking"))
  /\ UNCHANGED <<verbs, room, offerVars, matches, botVars, payVars>>

\* The bots have said yes already; who is alone with them settles at once.
RequestSave(u) ==
  /\ call[u].at = "asking"
  /\ offer.number < MaxOffers
  /\ offer' = [number |-> offer.number + 1,
               accepted |-> {u} \union (SeatSet(call[u].seats) \intersect Stupids),
               declined |-> {}, outcome |-> "open"]
  /\ late' = FALSE
  /\ timer' = TRUE
  /\ IF Outstanding(call[u].seats, {u}) = {}
     THEN Goes(u, At("settling")) ELSE Ends(u)
  /\ UNCHANGED <<verbs, room, matches, botVars, payVars>>

Respond(u) ==
  /\ Begins(u) /\ u \in Players
  /\ offer.outcome = "open"
  /\ \E yes \in BOOLEAN : Goes(u, [At("responding") EXCEPT !.yes = yes])
  /\ UNCHANGED <<verbs, room, offerVars, matches, botVars, payVars>>

\* respond loads the room: no offer is an error, a lapsed one fails, and an
\* answer is taken on the copy.
RespondLoad(u) ==
  /\ call[u].at = "responding"
  /\ IF u \notin Players \/ offer.outcome # "open" THEN Ends(u) /\ UNCHANGED <<offer, timer>>
     ELSE IF late
     THEN /\ offer' = [offer EXCEPT !.outcome = "failed"]
          /\ timer' = FALSE
          /\ Ends(u)
     ELSE /\ Goes(u, [WithSeats("answering") EXCEPT
                        !.yes = call[u].yes,
                        !.accepted = offer.accepted,
                        !.who = offer.accepted \union offer.declined])
          /\ UNCHANGED <<offer, timer>>
  /\ UNCHANGED <<verbs, room, late, matches, botVars, payVars>>

\* A first answer is pushed; a changed one rewrites the arrays and is checked.
Answered(u) ==
  [offer EXCEPT
    !.accepted = IF call[u].yes THEN @ \union {u} ELSE @ \ {u},
    !.declined = IF call[u].yes THEN @ \ {u} ELSE @ \union {u}]

AnswerSave(u) ==
  /\ call[u].at = "answering"
  /\ IF u \in call[u].who /\ ~VersionHolds(u) THEN Refused(u)
     ELSE /\ offer' = Answered(u)
          /\ Bumps(u, IF ~call[u].yes THEN At("bowing")
                      ELSE IF \/ Outstanding(call[u].seats, call[u].who \union {u}) = {}
                              \/ Cardinality(call[u].accepted \union {u}) >= MaxPlayers
                      THEN At("settling") ELSE Idle)
          /\ UNCHANGED <<verbs, room, late, timer, matches, botVars, payVars>>

\* A no leaves the room as well.
Bow(u) ==
  /\ call[u].at = "bowing"
  /\ IF room.closed \/ u \notin Players THEN Ends(u) ELSE Goes(u, Loaded("leaving"))
  /\ UNCHANGED <<verbs, room, offerVars, matches, botVars, payVars>>

\* The window closes; the timer that was armed for it fires after that.
Lapse ==
  /\ offer.outcome = "open" /\ ~late
  /\ late' = TRUE
  /\ UNCHANGED <<verbs, room, offer, timer, matches, call, botVars, payVars>>

TimerFires ==
  /\ timer /\ late /\ Begins(Clock)
  /\ timer' = FALSE
  /\ Goes(Clock, At("settling"))
  /\ UNCHANGED <<verbs, room, offer, late, matches, botVars, payVars>>

\* settle: who did not say yes keeps no seat in the copy.
Kept(seats) == Filter(seats, Stupids \union offer.accepted)

SettleLoad(p) ==
  /\ call[p].at = "settling"
  /\ IF offer.outcome # "open" THEN Ends(p) /\ UNCHANGED timer
     ELSE /\ timer' = FALSE
          /\ Goes(p, [Loaded("regrouping") EXCEPT
                        !.seats = Kept(room.players),
                        !.seat = room.owner,
                        !.accepted = offer.accepted,
                        !.match = offer.number,
                        !.who = Players \ SeatSet(Kept(room.players))])
  /\ UNCHANGED <<verbs, room, offer, late, matches, botVars, payVars>>

\* The save names array positions only when a seat goes or a flag changes.
Regroup(p) ==
  /\ call[p].at = "regrouping"
  /\ LET c == call[p]
         drops == c.who # {}
         flags == ~ (HumansOf(c.seats) \subseteq c.ready)
         next == IF Len(c.seats) < MinPlayers
                 THEN [At("topping") EXCEPT !.seats = c.seats, !.seat = c.seat,
                                            !.accepted = c.accepted]
                 ELSE [At("freshening") EXCEPT !.accepted = c.accepted]
     IN
     IF (drops \/ flags) /\ ~VersionHolds(p) THEN Refused(p)
     ELSE /\ IF HumansOf(c.seats) = {}
             THEN /\ room' = [room EXCEPT
                       !.players = IF drops THEN c.seats ELSE @,
                       !.status = "closed", !.closed = TRUE]
                  /\ offer' = [offer EXCEPT !.outcome = "failed"]
                  /\ IF drops THEN Bumps(p, Idle) ELSE Ends(p)
             ELSE /\ room' = [room EXCEPT
                       !.players = IF drops THEN c.seats ELSE @,
                       !.ready = IF drops THEN HumansOf(c.seats)
                                 ELSE IF flags THEN @ \union HumansOf(c.seats) ELSE @,
                       !.match = 0, !.status = "waiting"]
                  /\ offer' = [offer EXCEPT !.outcome = "started"]
                  /\ IF drops THEN Bumps(p, next) ELSE Goes(p, next)
          /\ UNCHANGED <<verbs, late, timer, matches, botVars, payVars>>

\* The top-up is an addStupids in the owner's name; its failure is swallowed.
TopUp(p) ==
  /\ call[p].at = "topping"
  /\ Goes(p, IF MaySeat(call[p].seat)
             THEN [WithSeats("filling") EXCEPT !.accepted = call[p].accepted,
                                               !.match = MinPlayers - Len(call[p].seats)]
             ELSE [At("freshening") EXCEPT !.accepted = call[p].accepted])
  /\ UNCHANGED <<verbs, room, offerVars, matches, botVars, payVars>>

TopUpSave(p) ==
  /\ call[p].at = "filling"
  /\ LET asked == call[p].match
         free == Free(call[p].seats)
         next == [At("freshening") EXCEPT !.accepted = call[p].accepted]
     IN \E bots \in Picks(call[p].seats, IF asked < free THEN asked ELSE free) :
          IF bots = {} THEN Goes(p, next) /\ UNCHANGED room
          ELSE room' = Pushed(bots) /\ Bumps(p, next)
  /\ UNCHANGED <<verbs, offerVars, matches, botVars, payVars>>

\* The room is read again, and starts when it is still a waiting room with
\* enough seats.
Freshen(p) ==
  /\ call[p].at = "freshening"
  /\ Goes(p, IF Len(room.players) >= MinPlayers /\ room.status = "waiting"
             THEN Loaded("starting")
             ELSE [At("failing") EXCEPT !.accepted = call[p].accepted])
  /\ UNCHANGED <<verbs, room, offerVars, matches, botVars, payVars>>

FailRematch(p) ==
  /\ call[p].at = "failing"
  /\ room' = [room EXCEPT !.status = "completed"]
  /\ offer' = [offer EXCEPT !.outcome = "failed", !.accepted = call[p].accepted]
  /\ Ends(p)
  /\ UNCHANGED <<verbs, late, timer, matches, botVars, payVars>>

----------------------------------------------------------------------------
(* Specification *)

\* createRoom: a waiting room with its owner in it.
Opened(u, rt) ==
  [players |-> <<u>>, ready |-> {}, owner |-> u, status |-> "waiting",
   match |-> 0, closed |-> FALSE, realtime |-> rt]

\* Before anybody has done anything.
Blank ==
  /\ offer = NoOffer /\ late = FALSE /\ timer = FALSE
  /\ matches = <<>>
  /\ call = [p \in Procs |-> Idle]
  /\ reconciles = {} /\ turnTimer = NoTurn
  /\ rewardKeys = {}
  /\ awards = [k \in [match : 1..MaxMatches, user : Users] |-> 0]

Init ==
  /\ verbs \in Scenarios
  /\ \E u \in Users, rt \in BOOLEAN : room = Opened(u, rt)
  /\ Blank

NewCall(u) ==
  \/ Join(u) \/ Leave(u) \/ Ready(u) \/ AddStupids(u) \/ ClearStupids(u)
  \/ Act(u) \/ Request(u) \/ Respond(u)

\* A call in flight goes on.
Continue(p) ==
  \/ Create(p) \/ Install(p) \/ MoveOn(p) \/ Finish(p) \/ ReportSave(p)
  \/ Complete(p) \/ Record(p) \/ Award(p)
  \/ SettleLoad(p) \/ Regroup(p) \/ TopUp(p) \/ TopUpSave(p) \/ Freshen(p)
  \/ FailRematch(p)

ContinueUser(u) ==
  \/ JoinSave(u) \/ LeaveSave(u) \/ ReadySave(u) \/ SeatSave(u) \/ ClearSave(u)
  \/ Talk(u) \/ RequestSave(u) \/ RespondLoad(u) \/ AnswerSave(u) \/ Bow(u)

Next ==
  \/ \E u \in Users : NewCall(u) \/ ContinueUser(u)
  \/ \E p \in Procs : Continue(p) \/ Report(p)
  \/ ScheduleIfBot \/ TakeTurn \/ Lapse \/ TimerFires
Spec == Init /\ [][Next]_vars

----------------------------------------------------------------------------
(* Properties *)

Steps ==
  {"idle", "joining", "leaving", "readying", "seating", "clearing", "starting",
   "installing", "moving", "talking", "reporting", "completing", "recording",
   "awarding", "asking", "responding", "answering", "bowing", "settling",
   "regrouping", "topping", "filling", "freshening", "failing"}

MatchNumbers == 1..MaxMatches

TypeOK ==
  /\ room \in [players : Seq(Seats), ready : SUBSET Users, owner : Seats,
               status : {"waiting", "playing", "completed", "closed"},
               match : 0..MaxMatches, closed : BOOLEAN, realtime : BOOLEAN]
  /\ offer \in [number : 0..MaxOffers, accepted : SUBSET Seats, declined : SUBSET Users,
                outcome : {"none", "open", "started", "failed"}]
  /\ late \in BOOLEAN /\ timer \in BOOLEAN
  /\ matches \in Seq([status : {"playing", "completed"}, dealt : SUBSET Seats,
                      turn : Seats \union {NoOne}])
  /\ Len(matches) <= MaxMatches
  /\ call \in [Procs -> [at : Steps, stale : BOOLEAN, seats : Seq(Seats),
                         ready : SUBSET Users, accepted : SUBSET Seats,
                         who : SUBSET Seats, seat : Seats \union {NoOne},
                         match : Nat, yes : BOOLEAN]]
  /\ reconciles \subseteq [match : MatchNumbers, seat : Seats]
  /\ turnTimer \in {NoTurn} \union [match : MatchNumbers, seat : Stupids]
  /\ rewardKeys \subseteq [match : MatchNumbers, user : Users]
  /\ awards \in [[match : MatchNumbers, user : Users] -> Nat]

(* Whoever has a reward row for a match has been paid for it once, or is   *)
(* about to be by the one call that inserted the row: however many calls   *)
(* finish the match or report it, nobody is paid twice and no row is left  *)
(* that nobody pays (recordResult).                                        *)
RewardsAreExact ==
  \A k \in DOMAIN awards :
    awards[k] + Cardinality({p \in Procs : /\ call[p].at = "awarding"
                                           /\ call[p].match = k.match
                                           /\ k.user \in call[p].who})
      = IF k \in rewardKeys THEN 1 ELSE 0

(* A person comes to a seat by their own join, and loses it by their own   *)
(* leave or by a rematch that settles without their yes: an answer that    *)
(* stands in the offer being settled keeps the seat. No save of somebody   *)
(* else's stale copy brings a seat back or takes it away.                  *)
SeatsAreTheirs ==
  [][\A u \in Users :
       /\ u \notin Players /\ u \in Players' => call[u].at = "joining"
       /\ u \in Players /\ u \notin Players' =>
            \/ call[u].at = "leaving"
            \/ \E p \in Procs :
                 /\ call[p].at = "regrouping"
                 /\ (call[p].match = offer.number /\ offer.outcome = "open") => u \notin offer.accepted]_vars

(* Refuted, and in no run: "Nobody is ever carried into a match they did   *)
(* not agree to". Whoever joins while a rematch waits to deal is dealt in. *)
NobodyUnasked ==
  \A p \in Procs : call[p].at = "starting" => HumansOf(call[p].seats) \subseteq call[p].ready

(* Refuted, and in no run: a Stupid on turn in a live match has its turn   *)
(* scheduled or under way. A leave drops the turn that was pending.        *)
StupidsKeepMoving ==
  \A m \in 1..Len(matches) :
    (Announced(m) /\ matches[m].status = "playing" /\ matches[m].turn \in Stupids
       /\ room.match = m /\ Players \intersect Users # {})
      => \/ turnTimer = [match |-> m, seat |-> matches[m].turn]
         \/ \E r \in reconciles : r.match = m
         \/ \E p \in Procs : call[p].at \in {"moving", "talking"} /\ call[p].match = m
=============================================================================
