---------------------------- MODULE SpaceMystery ----------------------------
(***************************************************************************)
(* The Space Mystery simulation (games/spaceMystery/engine.ts), one ship.  *)
(*                                                                         *)
(* The engine is one thread: an input is applied whole, and a tick is a    *)
(* loop over the players that nothing interrupts.  Inside that loop the    *)
(* Stupids act, so a meeting can open, or the match end, between the steps *)
(* of two players of one tick: `pending` are the players the loop has yet  *)
(* to visit, and nothing but the tick moves while `ticking`.  The loop     *)
(* takes the seats in order; here it takes them in any.                    *)
(*                                                                         *)
(* The floor plan is a few places; who stands in a place is in reach of    *)
(* what is there.  Cooldowns, consoles and deadlines run out at any tick.  *)
(* Sight, events, what Stupids remember, and where ghosts drift are left   *)
(* out: no rule reads them.                                                *)
(***************************************************************************)
EXTENDS Integers, FiniteSets, FiniteSetsExt

CONSTANTS Players,         \* the seats dealt in
          Bots,            \* those that are Stupids
          TraitorCount,    \* 1, or 2 from seven seats
          Places, Table,   \* the floor, and the meeting table's place
          BreachPlaces,    \* where the two reactor switches are
          VentPlaces,      \* the mouths of one vent network
          Stations,        \* the consoles, named by their place
          TasksEach,       \* TASKS_EACH
          EmergenciesEach, \* EMERGENCIES_EACH
          MaxCallers,      \* bound: how many players ever use theirs
          NoOne

VARIABLE state

\* A vote not cast.
Unvoted == "unvoted"

\* A ship and a crew of this shape (GameAdapters assumes it).
ShipAssumption ==
    /\ Bots \subseteq Players
    /\ IsFiniteSet(Players) /\ IsFiniteSet(Places)
    \* Four seats at least, two traitors from seven.
    /\ TraitorCount \in 1 .. Cardinality(Players)
    /\ 2 * TraitorCount < Cardinality(Players)
    /\ Table \in Places
    /\ BreachPlaces \cup VentPlaces \cup Stations \subseteq Places
    /\ TasksEach \in 0 .. Cardinality(Stations)
    /\ {EmergenciesEach, MaxCallers} \subseteq Nat
    /\ NoOne \notin Players \cup Places
    /\ Unvoted \notin Players \cup {NoOne}

\* "comms" runs out by itself as "lights" does, and no rule tells them apart.
SabotageKinds == {"breach", "lights"}

NoMeeting == [phase |-> "none", votes |-> [p \in Players |-> Unvoted]]

NoResult == [team |-> "none", survivors |-> {}]

Living(match) == {p \in Players : match.alive[p]}

LivingTraitors(match) == Living(match) \cap match.traitors

InMeeting(match) == match.meeting.phase # "none"

TaskTotal(match) == TasksEach * Cardinality(Players \ match.traitors)

----------------------------------------------------------------------------
(* Winning *)

Finish(match, team) ==
    IF match.status # "playing" THEN match
    ELSE [match EXCEPT !.status = "completed",
                       !.result = [team |-> team, survivors |-> Living(match)]]

\* checkWin, in its order.
CheckWin(match) ==
    LET traitors == Cardinality(LivingTraitors(match))
        crew == Cardinality(Living(match)) - traitors
    IN  IF traitors = 0 THEN Finish(match, "crew")
        ELSE IF TaskTotal(match) > 0 /\ match.taskDone >= TaskTotal(match)
             THEN Finish(match, "crew")
        ELSE IF traitors >= crew THEN Finish(match, "traitors")
        ELSE match

----------------------------------------------------------------------------
(* Meetings *)

\* Everybody is put round the table, out of vents and off consoles; bodies go
\* and a sabotage stops.
OpenMeeting(match) ==
    [match EXCEPT !.meeting = [phase |-> "discussion", votes |-> NoMeeting.votes],
                  !.bodies = {},
                  !.working = [p \in Players |-> NoOne],
                  !.vent = [p \in Players |-> FALSE],
                  !.place = [p \in Players |-> Table],
                  !.sabotage = "none"]

\* A clear plurality over every other candidate and over the skips.
Ejected(match) ==
    LET votes == match.meeting.votes
        Count(choice) == Cardinality({p \in Players : votes[p] = choice})
    IN  {p \in Players :
            /\ Count(p) > Count(NoOne)
            /\ \A q \in Players \ {p} : Count(p) > Count(q)}

CloseMeeting(match) ==
    IF ~InMeeting(match) THEN match
    ELSE CheckWin([match EXCEPT
            !.alive = [p \in Players |-> @[p] /\ p \notin Ejected(match)],
            !.meeting = NoMeeting,
            !.bodies = {},
            !.cooling = [p \in Players |-> @[p] \/ p \in match.traitors]])

----------------------------------------------------------------------------
(* What a player may do, as the states an input leaves: none, one or several *)

Task(match, p) ==
    IF match.alive[p] /\ ~InMeeting(match) /\ ~match.vent[p] /\ match.working[p] = NoOne
    THEN {[match EXCEPT !.working[p] = s] :
            s \in {t \in match.tasks[p] \ match.completed[p] : match.place[p] = t}}
    ELSE {}

\* Mutant: nobody asks whether a meeting is open.
Eliminate_AnyTime(match, p) ==
    IF p \in match.traitors /\ match.alive[p] /\ ~match.cooling[p] /\ ~match.vent[p]
    THEN {CheckWin([match EXCEPT !.alive[t] = FALSE, !.cooling[p] = TRUE]) :
            t \in {q \in Living(match) \ match.traitors : match.place[q] = match.place[p]}}
    ELSE {}

\* The traitor steps onto the spot; a ghost is kept at the table.
Eliminate(match, p) ==
    IF /\ p \in match.traitors /\ match.alive[p]
       /\ ~InMeeting(match) /\ ~match.cooling[p] /\ ~match.vent[p]
    THEN {CheckWin([match EXCEPT !.alive[t] = FALSE,
                                 !.working[t] = NoOne,
                                 !.bodies = @ \cup {match.place[t]},
                                 !.place[t] = Table,
                                 !.cooling[p] = TRUE]) :
            t \in {q \in Living(match) \ match.traitors :
                      ~match.vent[q] /\ match.place[q] = match.place[p]}}
    ELSE {}

\* Nothing here asks whether the player is in a vent.
Report(match, p) ==
    IF match.alive[p] /\ ~InMeeting(match) /\ match.place[p] \in match.bodies
    THEN {OpenMeeting(match)} ELSE {}

Callers(match) == {p \in Players : match.emergencies[p] < EmergenciesEach}

Emergency(match, p) ==
    IF /\ match.alive[p] /\ ~InMeeting(match)
       /\ match.emergencies[p] > 0
       /\ Cardinality(Callers(match) \cup {p}) <= MaxCallers
       /\ match.sabotage # "breach"
       /\ match.place[p] = Table
    THEN {OpenMeeting([match EXCEPT !.emergencies[p] = @ - 1])} ELSE {}

\* The vote that completes the count closes the meeting.
Vote(match, p) ==
    IF match.meeting.phase = "voting" /\ match.alive[p] /\ match.meeting.votes[p] = Unvoted
    THEN {LET voted == [match EXCEPT !.meeting.votes[p] = choice]
          IN  IF \A q \in Living(match) : voted.meeting.votes[q] # Unvoted
              THEN CloseMeeting(voted) ELSE voted :
            choice \in Living(match) \cup {NoOne}}
    ELSE {}

\* Nor does this: a traitor may pull the reactor from inside a vent.
Sabotage(match, p) ==
    IF /\ p \in match.traitors /\ match.alive[p]
       /\ ~InMeeting(match) /\ match.sabotage = "none" /\ ~match.cooling[p]
    THEN {[match EXCEPT !.sabotage = kind, !.cooling[p] = TRUE] : kind \in SabotageKinds}
    ELSE {}

\* In at a mouth in reach; then out here, or on to a mouth of the network.
Vent(match, p) ==
    IF p \notin match.traitors \/ ~match.alive[p] \/ InMeeting(match) THEN {}
    ELSE IF match.vent[p]
         THEN {[match EXCEPT !.vent[p] = FALSE]}
                 \cup {[match EXCEPT !.place[p] = mouth] : mouth \in VentPlaces}
         ELSE IF match.place[p] \in VentPlaces
              THEN {[match EXCEPT !.vent[p] = TRUE, !.working[p] = NoOne]}
              ELSE {}

\* A Stupid's step: it may pull something, or do one thing it walked to do.  A
\* hunt ends with a call of the vent to hand, whatever came of the kill: the killer
\* drops in, and one that hunts from a vent, where no kill is granted, climbs out.
BotActs(match, p) ==
    LET kills == Eliminate(match, p)
        hidden == UNION {IF k.status = "playing" THEN Vent(k, p) ELSE {} : k \in kills}
        surfaced == {out \in Vent(match, p) : match.vent[p] /\ ~out.vent[p]}
    IN  IF match.status # "playing" \/ ~match.alive[p] \/ InMeeting(match) THEN {match}
        ELSE {match} \cup Sabotage(match, p) \cup Task(match, p)
                \cup Report(match, p) \cup kills \cup hidden \cup surfaced

----------------------------------------------------------------------------
(* The tick *)

Cooled(match, p) ==
    {match} \cup (IF match.cooling[p] THEN {[match EXCEPT !.cooling[p] = FALSE]} ELSE {})

\* The console: cancelled out of reach, done when its time has passed.
Worked(match, p) ==
    LET station == match.working[p]
    IN  IF ~match.alive[p] \/ match.vent[p] \/ station = NoOne THEN {match}
        ELSE IF match.place[p] # station THEN {[match EXCEPT !.working[p] = NoOne]}
        ELSE {match,
              [match EXCEPT !.working[p] = NoOne,
                            !.completed[p] = @ \cup {station},
                            !.taskDone = @ + (IF p \in match.traitors THEN 0 ELSE 1)]}

\* A held direction; a meeting has let go of every key.
Walked(match, p) ==
    IF ~match.alive[p] \/ match.vent[p] \/ InMeeting(match) THEN {match}
    ELSE {[match EXCEPT !.place[p] = there] : there \in Places}

\* advanceSabotage: both switches held by the living, or the deadline.
AdvanceSabotage(match) ==
    LET held == \A switch \in BreachPlaces :
                    \E p \in Living(match) : ~match.vent[p] /\ match.place[p] = switch
        fixed == [match EXCEPT !.sabotage = "none"]
    IN  CASE match.sabotage = "none" -> {match}
          [] match.sabotage = "breach" /\ held -> {fixed}
          [] match.sabotage = "breach" /\ ~held -> {match, Finish(match, "traitors")}
          [] OTHER -> {match, fixed}

----------------------------------------------------------------------------
(* The match *)

\* begin(): roles and task lists are drawn; traitors start on a cooldown.
Create ==
    {[status |-> "playing", ticking |-> FALSE, pending |-> {},
      traitors |-> traitors,
      alive |-> [p \in Players |-> TRUE],
      place |-> [p \in Players |-> Table],
      tasks |-> tasks,
      completed |-> [p \in Players |-> {}],
      working |-> [p \in Players |-> NoOne],
      cooling |-> [p \in Players |-> p \in traitors],
      vent |-> [p \in Players |-> FALSE],
      bodies |-> {}, sabotage |-> "none", meeting |-> NoMeeting,
      emergencies |-> [p \in Players |-> EmergenciesEach],
      taskDone |-> 0, result |-> NoResult] :
        traitors \in kSubset(TraitorCount, Players),
        tasks \in [Players -> kSubset(TasksEach, Stations)]}

Init == state \in Create

Between == state.status = "playing" /\ ~state.ticking

\* input(): a person's action, between two ticks.
Input(p, effect) == Between /\ p \notin Bots /\ state' \in effect

\* advanceMeeting: the Stupids vote on their own clocks.
BotVotes(p) == Between /\ p \in Bots /\ state' \in Vote(state, p)

\* The end of the discussion, and of the vote.
MeetingTimer ==
    /\ Between
    /\ InMeeting(state)
    /\ state' = IF state.meeting.phase = "discussion"
                THEN [state EXCEPT !.meeting.phase = "voting"]
                ELSE CloseMeeting(state)

\* advanceStation begins unless a meeting is open when the tick does.
TickBegins ==
    /\ Between
    /\ ~InMeeting(state)
    /\ state' = [state EXCEPT !.ticking = TRUE, !.pending = Players]

\* One player's turn in the loop.  The match may already be over, or a meeting
\* open: the loop goes on.
TickPlayer ==
    \E p \in state.pending :
    \E cooled \in Cooled(state, p) :
    \E acted \in (IF p \in Bots THEN BotActs(cooled, p) ELSE {cooled}) :
    \E worked \in Worked(acted, p) :
    \E walked \in Walked(worked, p) :
        state' = [walked EXCEPT !.pending = @ \ {p}]

TickEnds ==
    /\ state.ticking
    /\ state.pending = {}
    /\ \E advanced \in AdvanceSabotage(state) :
          state' = [CheckWin(advanced) EXCEPT !.ticking = FALSE]

Next ==
    \/ \E p \in Players :
          \/ Input(p, Task(state, p))
          \/ Input(p, Eliminate(state, p))
          \/ Input(p, Report(state, p))
          \/ Input(p, Emergency(state, p))
          \/ Input(p, Vote(state, p))
          \/ Input(p, Sabotage(state, p))
          \/ Input(p, Vent(state, p))
          \/ BotVotes(p)
    \/ MeetingTimer
    \/ TickBegins \/ TickPlayer \/ TickEnds

----------------------------------------------------------------------------

\* A meeting freezes the ship: nobody is in a vent or at a console, nothing is
\* sabotaged, no body is left to report twice, and only the living vote, for
\* the living.
MeetingIsOrderly ==
    InMeeting(state) =>
        /\ \A p \in Players : ~state.vent[p] /\ state.working[p] = NoOne
        /\ state.sabotage = "none"
        /\ state.bodies = {}
        /\ \A p \in Players : state.meeting.votes[p] # Unvoted =>
              /\ state.alive[p]
              /\ state.meeting.votes[p] \in Living(state) \cup {NoOne}

\* A vote is never left waiting for nobody.
VoteIsAwaited ==
    (state.status = "playing" /\ state.meeting.phase = "voting") =>
        \E p \in Living(state) : state.meeting.votes[p] = Unvoted

\* Between ticks a match that is decided is over, and its result is that of
\* the ship as it stands.
FairlyWon ==
    LET traitors == Cardinality(LivingTraitors(state))
        crew == Cardinality(Living(state)) - traitors
        repaired == TaskTotal(state) > 0 /\ state.taskDone = TaskTotal(state)
    IN  /\ Between => traitors > 0 /\ traitors < crew /\ ~repaired
        /\ state.status = "completed" =>
              /\ state.result.survivors = Living(state)
              /\ state.result.team = "crew" => traitors = 0 \/ repaired
              /\ state.result.team = "traitors" =>
                    traitors >= crew \/ state.sabotage = "breach"
=============================================================================
