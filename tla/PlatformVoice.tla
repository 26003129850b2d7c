---------------------------- MODULE PlatformVoice ----------------------------
(***************************************************************************)
(* Who holds a voice connection on a ship (services/platformVoice.service, *)
(* bound to the engine by socket/game_platform.socket).  The rule is the   *)
(* engine's: the living, during a meeting.  A join asks the store for the  *)
(* room and then the engine for the verdict; a reconciliation, fired by    *)
(* the engine when somebody dies and when a meeting opens or closes, asks  *)
(* the same for one member after another while everything else goes on.    *)
(*                                                                         *)
(* A room's group is an object in a map.  A reconciliation keeps the       *)
(* object it found, which need no longer be the one in the map.            *)
(***************************************************************************)
EXTENDS Naturals, FiniteSets

CONSTANTS Players,
          Groups,        \* group objects, taken again once nothing holds them
          NoGroup,
          Jobs           \* bound: reconciliations at a time

ASSUME NoGroupAssumption == NoGroup \notin Groups

VARIABLES alive, meeting, over,  \* the ship (ShipMeetings)
          known,         \* the engine still holds the match
          current,       \* the room's entry in `groups`, or NoGroup
          members,       \* what each group object holds
          channel,       \* sockets in platform-voice:<room>
          joining,       \* joins that wait for the store
          jobs           \* reconciliations: the object, and whom to ask about

voiceVars == <<known, current, members, channel, joining, jobs>>
shipVars == <<alive, meeting, over>>
vars == <<alive, meeting, over, known, current, members, channel, joining, jobs>>

Ship == INSTANCE ShipMeetings

NoJob == [group |-> NoGroup, todo |-> {}]

Group == IF current = NoGroup THEN {} ELSE members[current]

\* voiceStatus: the verdict, at the instant it is asked for.
Allowed(p) == known /\ p \in alive /\ meeting

Init ==
    /\ Ship!Init
    /\ known = TRUE
    /\ current = NoGroup
    /\ members = [g \in Groups |-> {}]
    /\ channel = {}
    /\ joining = {}
    /\ jobs = [j \in Jobs |-> NoJob]

----------------------------------------------------------------------------
(* The ship, and what it tells the voice layer *)

\* reconcile() up to its first question; nothing to do for an empty group.
Reconcile ==
    IF Group = {} THEN UNCHANGED jobs
    ELSE \E j \in Jobs :
            /\ jobs[j] = NoJob
            /\ jobs' = [jobs EXCEPT ![j] = [group |-> current, todo |-> Group]]

ShipReconciles ==
    /\ Ship!Open \/ Ship!Die \/ Ship!Close
    /\ Reconcile
    /\ UNCHANGED <<known, current, members, channel, joining>>

\* A repair or a breach decides the match: nobody is told.
ShipDecides == Ship!Decide /\ UNCHANGED voiceVars

\* Ten seconds after the end the engine drops the match.  Nobody is told.
ShipEnds ==
    /\ over
    /\ known' = FALSE
    /\ UNCHANGED <<shipVars, current, members, channel, joining, jobs>>

----------------------------------------------------------------------------
(* Members *)

JoinAsked(p) ==
    /\ p \notin joining
    /\ joining' = joining \cup {p}
    /\ UNCHANGED <<shipVars, known, current, members, channel, jobs>>

\* Mutant: the verdict is taken before the wait and kept.
MayStillJoin_Unasked(p) == known

MayStillJoin(p) == Allowed(p)

\* The room was read; verdict and membership follow without another wait.
JoinAnswered(p) ==
    /\ p \in joining
    /\ joining' = joining \ {p}
    /\ \/ /\ ~MayStillJoin(p)
          /\ UNCHANGED <<current, members, channel>>
       \/ /\ MayStillJoin(p)
          /\ channel' = channel \cup {p}
          /\ IF current # NoGroup
             THEN /\ members' = [members EXCEPT ![current] = @ \cup {p}]
                  /\ UNCHANGED current
             ELSE \E g \in Groups :
                     /\ \A j \in Jobs : jobs[j].group # g
                     /\ current' = g
                     /\ members' = [members EXCEPT ![g] = {p}]
    /\ UNCHANGED <<shipVars, known, jobs>>

\* leave(), also for a socket that goes away.
Leave(p) ==
    /\ p \in channel
    /\ channel' = channel \ {p}
    /\ IF p \in Group
       THEN /\ members' = [members EXCEPT ![current] = @ \ {p}]
            /\ current' = IF Group = {p} THEN NoGroup ELSE current
       ELSE UNCHANGED <<members, current>>
    /\ UNCHANGED <<shipVars, known, joining, jobs>>

\* Mutant: only the seats that are out of the match are hung up.
Dropped_GhostsOnly(p) == p \notin alive

Dropped(p) == ~Allowed(p)

\* The store answered for one member: whoever no longer qualifies is hung up,
\* and a store that failed counts as a refusal.
ReconcileOne(j) ==
    /\ jobs[j].todo # {}
    /\ \E p \in jobs[j].todo :
          /\ \/ members' = [members EXCEPT ![jobs[j].group] = @ \ {p}]
             \/ ~Dropped(p) /\ UNCHANGED members
          /\ jobs' = [jobs EXCEPT ![j].todo = @ \ {p}]
    /\ UNCHANGED <<shipVars, known, current, channel, joining>>

\* The loop is over.  An empty group takes the room's entry with it, whatever
\* object that entry holds by now.
ReconcileDone(j) ==
    /\ jobs[j] # NoJob
    /\ jobs[j].todo = {}
    /\ current' = IF members[jobs[j].group] = {} THEN NoGroup ELSE current
    /\ jobs' = [jobs EXCEPT ![j] = NoJob]
    /\ members' = [g \in Groups |->
                      IF current' = g \/ \E k \in Jobs : jobs'[k].group = g
                      THEN members[g] ELSE {}]
    /\ UNCHANGED <<shipVars, known, channel, joining>>

Next ==
    \/ ShipReconciles
    \/ ShipDecides
    \/ ShipEnds
    \/ \E p \in Players : JoinAsked(p) \/ JoinAnswered(p) \/ Leave(p)
    \/ \E j \in Jobs : ReconcileOne(j) \/ ReconcileDone(j)

Spec == Init /\ [][Next]_vars

\* The store answers, and the event loop goes on with what it answered.
Fairness ==
    \A j \in Jobs : WF_vars(ReconcileOne(j)) /\ WF_vars(ReconcileDone(j))

FairSpec == Spec /\ Fairness

----------------------------------------------------------------------------

\* Nobody holds a connection they may not hold unless a reconciliation that
\* asks about them is on its way: a join is decided on the ship as it is, not
\* as it was when the join was asked for, and no death or closing goes
\* unannounced.  Once the match is over nobody asks any more.
MembersQualify ==
    ~over => \A p \in Group :
        \/ Allowed(p)
        \/ \E j \in Jobs : jobs[j].group = current /\ p \in jobs[j].todo

\* "Hangs up whoever no longer qualifies" (reconcile's comment), while the
\* match goes on: a ghost, or a talker when the meeting ends, is dropped unless
\* the next meeting is open by then.
HangsUp ==
    \A p \in Players :
        (p \in Group /\ ~Allowed(p) /\ ~over) ~> (p \notin Group \/ Allowed(p) \/ over)

\* Refuted, and in no run: "a ghost on the Meridian [is] not in that channel" (the
\* file's header).  A reconciliation drops the membership, not the socket.
ChannelIsTheGroup == channel \subseteq Group
=============================================================================
