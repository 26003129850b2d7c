-------------------------- MODULE RoomServicesProofs --------------------------
(***************************************************************************)
(* What is proved of the ship's channel, the guessers' voice, the vote to  *)
(* kick, the Stupids' pictures and the board with its canvases, in the     *)
(* composition the runs check: for any crew, any people, strokes of any    *)
(* length and any number of reconciliations under way.                     *)
(***************************************************************************)
EXTENDS RoomServices, FilterProofs, FiniteSetTheorems, TLAPS

-----------------------------------------------------------------------------
(* The ship's channel *)

ShipTyping ==
    /\ alive \in SUBSET Players /\ meeting \in BOOLEAN /\ over \in BOOLEAN /\ known \in BOOLEAN
    /\ current \in Groups \cup {NoGroup}
    /\ members \in [Groups -> SUBSET Players]
    /\ jobs \in [Jobs -> [group : Groups \cup {NoGroup}, todo : SUBSET Players]]

Pursued(p) == \E j \in Jobs : jobs[j].group = current /\ p \in jobs[j].todo

\* The types, and that a match still going on is known to the engine, make the
\* claim inductive: who holds a connection they may not hold is about to be
\* asked about.
ShipInv ==
    /\ ShipTyping
    /\ ~over => known
    /\ MembersQualify

LEMMA InitHolds == Init => ShipInv
<1> SUFFICES ASSUME Init PROVE ShipInv
  OBVIOUS
<1>1. /\ alive = Players /\ meeting = FALSE /\ known = TRUE /\ over = FALSE
      /\ current = NoGroup /\ members = [g \in Groups |-> {}]
      /\ jobs = [j \in Jobs |-> [group |-> NoGroup, todo |-> {}]]
  BY DEF Init, NoJob, Ship!Init
<1>2. ShipTyping
  BY <1>1 DEF ShipTyping
<1>3. Group = {}
  BY <1>1 DEF Group
<1> QED BY <1>1, <1>2, <1>3 DEF ShipInv, MembersQualify

\* A death, an opening and a closing are followed by a reconciliation that asks
\* about everybody in the group.
LEMMA ReconciledShip == ASSUME ShipInv, ShipReconciles PROVE ShipInv'
<1>a. /\ alive' \in SUBSET Players /\ meeting' \in BOOLEAN /\ over' \in BOOLEAN
      /\ ~over' => ~over
  BY DEF ShipReconciles, ShipInv, ShipTyping, Ship!Open, Ship!Die, Ship!Close
<1>b. UNCHANGED <<known, current, members>> /\ Reconcile
  BY DEF ShipReconciles
<1>c. Group \in SUBSET Players
  BY DEF Group, ShipInv, ShipTyping
<1>d. jobs' \in [Jobs -> [group : Groups \cup {NoGroup}, todo : SUBSET Players]]
  BY <1>b, <1>c DEF Reconcile, ShipInv, ShipTyping
<1>1. /\ ShipTyping' /\ (~over' => ~over)
      /\ UNCHANGED <<known, current, members>> /\ Reconcile
  BY <1>a, <1>b, <1>d DEF ShipInv, ShipTyping
<1>2. CASE Group = {}
  BY <1>1, <1>2 DEF ShipInv, MembersQualify, Group
<1>3. CASE Group # {}
  <2>1. PICK j \in Jobs :
          jobs' = [jobs EXCEPT ![j] = [group |-> current, todo |-> Group]]
    BY <1>1, <1>3 DEF Reconcile
  <2>2. jobs'[j] = [group |-> current, todo |-> Group]
    BY <2>1 DEF ShipInv, ShipTyping
  <2>3. Group' = Group /\ current' = current
    BY <1>1 DEF Group
  <2>4. MembersQualify'
    BY <2>2, <2>3 DEF MembersQualify
  <2> QED BY <1>1, <2>4 DEF ShipInv
<1> QED BY <1>2, <1>3

\* A decided match, or one the engine has dropped, asks for nothing.
LEMMA OverHolds ==
    ASSUME ShipInv, ShipDecides \/ ShipEnds PROVE ShipInv'
<1>1. over' = TRUE /\ ShipTyping'
  BY DEF ShipDecides, ShipEnds, Ship!Decide, shipVars, voiceVars, ShipInv, ShipTyping
<1> QED BY <1>1 DEF ShipInv, MembersQualify

\* The group of a room as its map entry has it.
LEMMA GroupTyped == ASSUME ShipTyping PROVE Group \in SUBSET Players
BY DEF ShipTyping, Group

LEMMA JoinHolds ==
    ASSUME ShipInv, NEW p \in Players, JoinAsked(p) \/ JoinAnswered(p)
    PROVE  ShipInv'
<1>1. UNCHANGED <<alive, meeting, over, known, jobs>>
  BY DEF JoinAsked, JoinAnswered, shipVars
<1>2. CASE UNCHANGED <<current, members>>
  BY <1>1, <1>2 DEF ShipInv, ShipTyping, MembersQualify, Group, Allowed
<1>3. CASE /\ MayStillJoin(p) /\ current # NoGroup
           /\ members' = [members EXCEPT ![current] = @ \cup {p}]
           /\ UNCHANGED current
  <2>1. current \in Groups /\ members[current] \in SUBSET Players
    BY <1>3 DEF ShipInv, ShipTyping
  <2>2. ShipTyping'
    BY <1>1, <1>3, <2>1 DEF ShipInv, ShipTyping
  <2>3. Group' = Group \cup {p}
    BY <1>3, <2>1 DEF Group, ShipInv, ShipTyping
  <2>4. MembersQualify'
    BY <1>1, <1>3, <2>3 DEF ShipInv, MembersQualify, Allowed, MayStillJoin
  <2> QED BY <1>1, <2>2, <2>4 DEF ShipInv
<1>4. CASE /\ MayStillJoin(p) /\ current = NoGroup
           /\ \E g \in Groups : current' = g /\ members' = [members EXCEPT ![g] = {p}]
  <2>1. PICK g \in Groups : current' = g /\ members' = [members EXCEPT ![g] = {p}]
    BY <1>4
  <2>2. ShipTyping'
    BY <1>1, <2>1 DEF ShipInv, ShipTyping
  <2>3. Group' = {p}
    BY <2>1, NoGroupAssumption DEF Group, ShipInv, ShipTyping
  <2>4. MembersQualify'
    BY <1>1, <1>4, <2>3 DEF ShipInv, MembersQualify, Allowed, MayStillJoin
  <2> QED BY <1>1, <2>2, <2>4 DEF ShipInv
<1> QED BY <1>2, <1>3, <1>4 DEF JoinAsked, JoinAnswered

LEMMA LeaveHolds == ASSUME ShipInv, NEW p \in Players, Leave(p) PROVE ShipInv'
<1>1. UNCHANGED <<alive, meeting, over, known, jobs>>
  BY DEF Leave, shipVars
<1>2. CASE p \notin Group
  BY <1>1, <1>2 DEF Leave, ShipInv, ShipTyping, MembersQualify, Group, Allowed
<1>3. CASE p \in Group
  <2>1. current \in Groups /\ members[current] \in SUBSET Players
    BY <1>3 DEF Group, ShipInv, ShipTyping
  <2>2. /\ members' = [members EXCEPT ![current] = @ \ {p}]
        /\ current' = IF Group = {p} THEN NoGroup ELSE current
    BY <1>3 DEF Leave
  <2>3. ShipTyping'
    BY <1>1, <2>1, <2>2 DEF ShipInv, ShipTyping
  <2>4. Group' \subseteq Group /\ (Group' # {} => current' = current)
    BY <2>1, <2>2 DEF Group, ShipInv, ShipTyping
  <2>5. MembersQualify'
    BY <1>1, <2>4 DEF ShipInv, MembersQualify, Allowed
  <2> QED BY <1>1, <2>3, <2>5 DEF ShipInv
<1> QED BY <1>2, <1>3

\* One member is asked about: hung up, or allowed at that instant.
LEMMA ReconcileOneHolds == ASSUME ShipInv, NEW j \in Jobs, ReconcileOne(j) PROVE ShipInv'
<1> DEFINE g == jobs[j].group
<1>1. UNCHANGED <<alive, meeting, over, known, current>>
  BY DEF ReconcileOne, shipVars
<1>2. PICK p \in jobs[j].todo :
        /\ \/ members' = [members EXCEPT ![g] = @ \ {p}]
           \/ ~Dropped(p) /\ UNCHANGED members
        /\ jobs' = [jobs EXCEPT ![j].todo = @ \ {p}]
  BY DEF ReconcileOne
<1>3. jobs[j] \in [group : Groups \cup {NoGroup}, todo : SUBSET Players] /\ p \in Players
  BY <1>2 DEF ShipInv, ShipTyping
<1>4. /\ jobs'[j].group = jobs[j].group /\ jobs'[j].todo = jobs[j].todo \ {p}
      /\ \A k \in Jobs \ {j} : jobs'[k] = jobs[k]
      /\ jobs' \in [Jobs -> [group : Groups \cup {NoGroup}, todo : SUBSET Players]]
  BY <1>2, <1>3 DEF ShipInv, ShipTyping
<1>5. members' \in [Groups -> SUBSET Players]
  BY <1>2 DEF ShipInv, ShipTyping
<1>6. ShipTyping'
  BY <1>1, <1>4, <1>5 DEF ShipInv, ShipTyping
<1>7. Group' \subseteq Group
  BY <1>1, <1>2 DEF Group, ShipInv, ShipTyping
<1>8. MembersQualify'
  <2> SUFFICES ASSUME ~over, NEW q \in Group' PROVE Allowed(q)' \/ Pursued(q)'
    BY <1>1 DEF MembersQualify, Pursued
  <2>1. Allowed(q) \/ Pursued(q)
    BY <1>7 DEF ShipInv, MembersQualify, Pursued
  <2>2. CASE Allowed(q)
    BY <1>1, <2>2 DEF Allowed
  <2>3. CASE Pursued(q) /\ ~(q = p /\ g = current)
    <3>1. PICK k \in Jobs : jobs[k].group = current /\ q \in jobs[k].todo
      BY <2>3 DEF Pursued
    <3>2. jobs'[k].group = current' /\ q \in jobs'[k].todo
      BY <1>1, <1>4, <2>3, <3>1
    <3> QED BY <3>2 DEF Pursued
  <2>4. CASE q = p /\ g = current
    <3>1. current \in Groups
      BY <1>1, <1>3, <2>4 DEF Group, ShipInv, ShipTyping
    <3>2. ~Dropped(p)
      BY <1>1, <1>2, <2>4, <3>1 DEF Group, ShipInv, ShipTyping
    <3> QED BY <1>1, <2>4, <3>2 DEF Dropped, Allowed
  <2> QED BY <2>1, <2>2, <2>3, <2>4
<1> QED BY <1>1, <1>6, <1>8 DEF ShipInv

\* A reconciliation that has asked about everybody pursues nobody any more.
LEMMA ReconcileDoneHolds == ASSUME ShipInv, NEW j \in Jobs, ReconcileDone(j) PROVE ShipInv'
<1>1. /\ UNCHANGED <<alive, meeting, over, known>>
      /\ jobs[j].todo = {}
      /\ current' \in {current, NoGroup}
      /\ jobs' = [jobs EXCEPT ![j] = NoJob]
      /\ members' = [g \in Groups |->
                      IF current' = g \/ \E k \in Jobs : jobs'[k].group = g
                      THEN members[g] ELSE {}]
  BY DEF ReconcileDone, shipVars
<1>2. /\ \A k \in Jobs \ {j} : jobs'[k] = jobs[k]
      /\ jobs' \in [Jobs -> [group : Groups \cup {NoGroup}, todo : SUBSET Players]]
  BY <1>1 DEF ShipInv, ShipTyping, NoJob
<1>3. members' \in [Groups -> SUBSET Players]
  BY <1>1 DEF ShipInv, ShipTyping
<1>4. ShipTyping'
  BY <1>1, <1>2, <1>3 DEF ShipInv, ShipTyping
<1>5. Group' = {} \/ (current' = current /\ Group' = Group)
  BY <1>1 DEF Group, ShipInv, ShipTyping
<1>6. MembersQualify'
  BY <1>1, <1>2, <1>5 DEF ShipInv, MembersQualify, Allowed
<1> QED BY <1>1, <1>4, <1>6 DEF ShipInv

LEMMA NextHolds == ASSUME ShipInv, [Next]_vars PROVE ShipInv'
<1>1. CASE UNCHANGED vars
  BY <1>1 DEF vars, ShipInv, ShipTyping, MembersQualify, Group, Allowed
<1> QED BY <1>1, ReconciledShip, OverHolds, JoinHolds, LeaveHolds, ReconcileOneHolds,
           ReconcileDoneHolds DEF Next

\* As long as the match goes on nobody talks who may not, unless the question
\* about them is already on its way (platformVoice.service, join and reconcile).
THEOREM TalkersQualify == ServicesSpec => []MembersQualify
<1>1. ServicesInit => ShipInv
  BY InitHolds DEF ServicesInit
<1>2. ShipInv /\ [ServicesNext]_allVars => ShipInv'
  BY NextHolds DEF ServicesNext, TalkOnShip, TalkInTurns, VoteToKick, Draw, StupidsPlay, allVars
<1>3. ShipInv => MembersQualify
  BY DEF ShipInv
<1>. QED
  BY <1>1, <1>2, <1>3, PTL DEF ServicesSpec

-----------------------------------------------------------------------------
(* The guessers' voice *)

\* A step that changes nobody's membership keeps the drawer out: the pen passes
\* only to somebody whose turn is still to be announced.
LEMMA RoomMovesKeepDeaf ==
  ASSUME Voice!DrawerIsDeaf, Voice!RoomMoves
  PROVE  Voice!DrawerIsDeaf'
<1>1. talking' = talking
  BY DEF Voice!RoomMoves
<1>2. CASE Voice!Room!Choose \/ Voice!Room!Score \/ Voice!Room!Quiet
  BY <1>1, <1>2 DEF Voice!DrawerIsDeaf, Voice!Room!Choose, Voice!Room!Score, Voice!Room!Quiet,
                    Voice!Room!seatVars
<1>3. ASSUME NEW u \in Talkers, Voice!Room!Deal(u) \/ Voice!Room!Come(u) \/ Voice!Room!Go(u)
      PROVE  Voice!DrawerIsDeaf'
  BY <1>1, <1>3 DEF Voice!DrawerIsDeaf, Voice!Room!Deal, Voice!Room!Come, Voice!Room!Go,
                    Voice!Room!turnVars, Voice!Room!seatVars
<1>4. ASSUME NEW u \in Talkers, Voice!Room!Install(u)
      PROVE  Voice!DrawerIsDeaf'
  <2>1. pen' = u /\ u \in untold' /\ closed' = closed
    BY <1>4 DEF Voice!Room!Install, Voice!Room!seatVars
  <2>. QED
    BY <1>1, <2>1 DEF Voice!DrawerIsDeaf
<1>. QED
  BY <1>2, <1>3, <1>4 DEF Voice!RoomMoves

\* The broadcast leaves no drawer in, nor anybody in a room that is closed.
LEMMA ReconcileMakesDeaf ==
  ASSUME Voice!Reconcile, pen' = pen, closed' = closed
  PROVE  Voice!DrawerIsDeaf'
BY DEF Voice!Reconcile, Voice!DrawerIsDeaf, Voice!MayUse, Voice!VoicePhase

LEMMA StepKeepsDeaf ==
  ASSUME Voice!DrawerIsDeaf, Voice!Next
  PROVE  Voice!DrawerIsDeaf'
<1>1. ASSUME NEW u \in Talkers, Voice!Join(u)
      PROVE  Voice!DrawerIsDeaf'
  BY <1>1 DEF Voice!Join, Voice!DrawerIsDeaf, Voice!MayUse, Voice!VoicePhase, Voice!roomVars
<1>2. ASSUME NEW u \in Talkers, Voice!Leave(u)
      PROVE  Voice!DrawerIsDeaf'
  BY <1>2 DEF Voice!Leave, Voice!DrawerIsDeaf, Voice!roomVars
<1>3. ASSUME NEW u \in Talkers, Voice!Announce(u)
      PROVE  Voice!DrawerIsDeaf'
  BY <1>3, ReconcileMakesDeaf DEF Voice!Announce, Voice!Room!Offer, Voice!Room!seatVars
<1>4. CASE Voice!Broadcast
  BY <1>4, ReconcileMakesDeaf DEF Voice!Broadcast, Voice!roomVars
<1>5. CASE Voice!CloseRoom
  BY <1>5 DEF Voice!CloseRoom, Voice!DrawerIsDeaf
<1>6. CASE Voice!RoomMoves
  BY <1>6, RoomMovesKeepDeaf
<1>. QED
  BY <1>1, <1>2, <1>3, <1>4, <1>5, <1>6 DEF Voice!Next

\* The drawer is no member of the channel from the moment a turn is announced
\* until it is scored, and a closed room's channel is empty (DrawerIsDeaf), for
\* every set of people.
THEOREM DrawerStaysDeaf == ServicesSpec => []DrawerIsDeaf
<1>1. ServicesInit => DrawerIsDeaf
  BY DEF ServicesInit, DrawerIsDeaf, Voice!OwnInit, Voice!DrawerIsDeaf, RoomInit, Voice!Room!Init
<1>2. ASSUME DrawerIsDeaf, [ServicesNext]_allVars
      PROVE  DrawerIsDeaf'
  <2>1. CASE TalkInTurns
    BY <1>2, <2>1, StepKeepsDeaf DEF TalkInTurns, DrawerIsDeaf
  <2>2. CASE UNCHANGED allVars
    BY <1>2, <2>2 DEF DrawerIsDeaf, allVars, roomVars, Voice!DrawerIsDeaf
  <2>. QED
    BY <1>2, <2>1, <2>2 DEF ServicesNext, DrawerIsDeaf, TalkOnShip, VoteToKick, Draw, StupidsPlay
<1>. QED
  BY <1>1, <1>2, PTL DEF ServicesSpec

-----------------------------------------------------------------------------
(* The vote to kick *)

\* Both count alike.
LEMMA SameCount == \A S : Kick!Cardinality(S) = Cardinality(S)
BY DEF Kick!Cardinality, Cardinality

\* What PollStands needs to speak of numbers of votes.
PollTyping ==
  /\ seated \subseteq Voters
  /\ poll \in [target : Voters \cup {Nobody}, voters : SUBSET Voters, threshold : Nat]

PollInv == PollTyping /\ Kick!PollStands

LEMMA ThresholdBound ==
  ASSUME IsFiniteSet(seated)
  PROVE  Kick!Threshold \in Nat /\ Kick!Threshold >= 2
<1>1. Cardinality(seated) \in Nat
  BY FS_CardinalityType
<1>. QED
  BY <1>1, SameCount DEF Kick!Threshold, Kick!Larger

\* A departure takes the votes and the target that leave, and nothing else.
LEMMA DepartsHolds ==
  ASSUME PollInv, NEW u \in Voters, Kick!Departs(u)
  PROVE  PollInv'
<1>1. seated' = seated \ {u} /\ poll' = Kick!Without(poll, u)
  BY DEF Kick!Departs, Kick!Room!Go
<1>2. seated' \subseteq Voters
  BY <1>1 DEF PollInv, PollTyping
<1>3. CASE poll.target = u \/ poll = Kick!NoPoll
  <2>1. poll' = Kick!NoPoll
    BY <1>1, <1>3 DEF Kick!Without, Kick!NoPoll
  <2>. QED
    BY <1>2, <2>1, SameCount DEF PollInv, PollTyping, Kick!PollStands, Kick!NoPoll
<1>4. CASE poll.target # u /\ poll # Kick!NoPoll
  <2>1. poll' = [poll EXCEPT !.voters = @ \ {u}]
    BY <1>1, <1>4 DEF Kick!Without
  <2>2. /\ poll'.target = poll.target /\ poll'.threshold = poll.threshold
        /\ poll'.voters = poll.voters \ {u}
    BY <2>1 DEF PollInv, PollTyping
  <2>3. PollTyping'
    BY <1>2, <2>1 DEF PollInv, PollTyping
  <2>4. /\ poll.target \in seated /\ poll.voters \subseteq seated \ {poll.target}
        /\ poll.threshold >= 2 /\ Cardinality(poll.voters) < poll.threshold
    BY <1>4, SameCount DEF PollInv, Kick!PollStands
  <2>5. IsFiniteSet(poll.voters)
    BY FS_Subset, ServicesAssumption DEF PollInv, PollTyping
  <2>6. /\ Cardinality(poll'.voters) \in Nat /\ Cardinality(poll.voters) \in Nat
        /\ Cardinality(poll'.voters) <= Cardinality(poll.voters)
    BY <2>2, <2>5, FS_Subset, FS_CardinalityType
  <2>7. poll'.threshold \in Nat
    BY <2>3 DEF PollTyping
  <2>8. poll'.target \in seated' /\ poll'.voters \subseteq seated' \ {poll'.target}
    BY <1>1, <1>4, <2>2, <2>4
  <2>9. poll'.threshold >= 2 /\ Cardinality(poll'.voters) < poll'.threshold
    BY <2>2, <2>4, <2>6, <2>7
  <2>. QED
    BY <2>3, <2>8, <2>9, SameCount DEF PollInv, Kick!PollStands
<1>. QED
  BY <1>3, <1>4

\* The poll a vote is counted in stands before the vote is added.
LEMMA PollForHolds ==
  ASSUME PollInv, NEW t \in seated, Kick!PollFor(t).target = t
  PROVE  LET p == Kick!PollFor(t) IN
         /\ p \in [target : Voters, voters : SUBSET Voters, threshold : Nat]
         /\ p.voters \subseteq seated \ {t} /\ p.threshold >= 2
<1>1. t \in Voters /\ IsFiniteSet(seated)
  BY FS_Subset, ServicesAssumption DEF PollInv, PollTyping
<1>2. CASE poll = Kick!NoPoll \/ Kick!Stale
  <2>1. Kick!PollFor(t) = [target |-> t, voters |-> {}, threshold |-> Kick!Threshold]
    BY <1>2 DEF Kick!PollFor
  <2>. QED
    BY <1>1, <2>1, ThresholdBound
<1>3. CASE ~(poll = Kick!NoPoll \/ Kick!Stale)
  <2>1. Kick!PollFor(t) = poll
    BY <1>3 DEF Kick!PollFor
  <2>. QED
    BY <1>1, <1>3, <2>1, SameCount DEF PollInv, PollTyping, Kick!PollStands
<1>. QED
  BY <1>2, <1>3

\* A vote is counted, and either carries the poll or leaves it one vote short.
LEMMA VoteHolds ==
  ASSUME PollInv, NEW u \in Voters, NEW t \in Voters, Kick!Vote(u, t)
  PROVE  PollInv'
<1> DEFINE p == [Kick!PollFor(t) EXCEPT !.voters = @ \cup {u}]
<1>1. u \in seated /\ t \in seated /\ u # t /\ Kick!PollFor(t).target = t
  BY SameCount DEF Kick!Vote
<1>2. /\ Kick!PollFor(t) \in [target : Voters, voters : SUBSET Voters, threshold : Nat]
      /\ Kick!PollFor(t).voters \subseteq seated \ {t} /\ Kick!PollFor(t).threshold >= 2
  BY <1>1, PollForHolds
<1>3. /\ p.target = t /\ p.voters = Kick!PollFor(t).voters \cup {u}
      /\ p.threshold = Kick!PollFor(t).threshold
  BY <1>1, <1>2
<1>4. p \in [target : Voters, voters : SUBSET Voters, threshold : Nat]
  BY <1>2
<1>5. p.voters \subseteq seated \ {t}
  BY <1>1, <1>2, <1>3
<1>6. CASE Cardinality(p.voters) >= p.threshold
  <2>1. poll' = Kick!NoPoll /\ seated' = seated \ {t}
    BY <1>6, SameCount DEF Kick!Vote, Kick!Room!Go
  <2>. QED
    BY <2>1, SameCount DEF PollInv, PollTyping, Kick!PollStands, Kick!NoPoll
<1>7. CASE ~(Cardinality(p.voters) >= p.threshold)
  <2>1. poll' = p /\ seated' = seated
    BY <1>7, SameCount DEF Kick!Vote, Kick!roomVars
  <2>2. IsFiniteSet(p.voters)
    BY <1>4, FS_Subset, ServicesAssumption
  <2>3. Cardinality(p.voters) \in Nat /\ p.threshold \in Nat
    BY <1>4, <2>2, FS_CardinalityType
  <2>4. Cardinality(p.voters) < p.threshold
    BY <1>7, <2>3
  <2>5. PollTyping'
    BY <1>4, <2>1 DEF PollInv, PollTyping
  <2>6. Kick!PollStands'
    BY <1>1, <1>2, <1>3, <1>5, <2>1, <2>4, SameCount DEF Kick!PollStands
  <2>. QED
    BY <2>5, <2>6 DEF PollInv
<1>. QED
  BY <1>6, <1>7

\* The timer takes the poll or leaves it; nobody moves.
LEMMA ClockHolds ==
  ASSUME PollInv, Kick!ClockFires
  PROVE  PollInv'
<1>1. seated' = seated /\ (poll' = Kick!NoPoll \/ poll' = poll)
  BY DEF Kick!ClockFires, Kick!roomVars
<1>. QED
  BY <1>1, SameCount DEF PollInv, PollTyping, Kick!PollStands, Kick!NoPoll

LEMMA VoteStepHolds ==
  ASSUME PollInv, Kick!Next
  PROVE  PollInv'
<1>1. ASSUME NEW u \in Voters, Kick!PersonComes(u)
      PROVE  PollInv'
  BY <1>1, SameCount DEF Kick!PersonComes, Kick!Room!Come, PollInv, PollTyping, Kick!PollStands
<1>2. ASSUME NEW u \in Voters, Kick!Departs(u)
      PROVE  PollInv'
  BY <1>2, DepartsHolds
<1>3. ASSUME NEW u \in Voters, NEW t \in Voters, Kick!Vote(u, t)
      PROVE  PollInv'
  BY <1>3, VoteHolds
<1>4. ASSUME NEW u \in Voters, Kick!TransferHost(u)
      PROVE  PollInv'
  BY <1>4, SameCount DEF Kick!TransferHost, Kick!roomVars, PollInv, PollTyping, Kick!PollStands
<1>5. CASE Kick!ClockFires
  BY <1>5, ClockHolds
<1>6. CASE Kick!WindowCloses
  BY <1>6 DEF Kick!WindowCloses, Kick!roomVars, PollInv, PollTyping, Kick!PollStands
<1>7. CASE Kick!GoesQuiet \/ Kick!CloseRoom
  BY <1>7 DEF Kick!GoesQuiet, Kick!CloseRoom, Kick!Room!Quiet, Kick!Room!Close,
              Kick!Room!seatVars, Kick!Room!turnVars, PollInv, PollTyping, Kick!PollStands
<1>. QED
  BY <1>1, <1>2, <1>3, <1>4, <1>5, <1>6, <1>7 DEF Kick!Next

\* Votes are of people still there and about somebody still there, and short of
\* the threshold of two or more (PollStands), for every finite set of people.
THEOREM VotesStayPresent == ServicesSpec => []PollStands
<1>. DEFINE Kept == part = "kick" => PollInv
<1>1. ServicesInit => Kept
  BY DEF ServicesInit, Kick!OwnInit, Kick!NoPoll, RoomInit, Kick!Room!Init,
         PollInv, PollTyping, Kick!PollStands
<1>2. Kept /\ [ServicesNext]_allVars => Kept'
  <2>. SUFFICES ASSUME Kept, [ServicesNext]_allVars PROVE Kept'
    OBVIOUS
  <2>1. CASE VoteToKick
    BY <2>1, VoteStepHolds DEF VoteToKick
  <2>2. CASE UNCHANGED allVars
    BY <2>2 DEF allVars, roomVars, kickVars, PollInv, PollTyping, Kick!PollStands, Kick!NoPoll
  <2>. QED
    BY <2>1, <2>2 DEF ServicesNext, TalkOnShip, TalkInTurns, Draw, StupidsPlay
<1>3. Kept => PollStands
  BY DEF PollInv, PollStands
<1>. QED
  BY <1>1, <1>2, <1>3, PTL DEF ServicesSpec

-----------------------------------------------------------------------------
(* The Stupids' pictures *)

\* A picture that was started in this turn is on the list of those that were, as
\* long as there is a turn somebody could start it in again: the list is only
\* emptied in a room without a live round, a quiet one or a closed one.
Listed ==
  /\ pictures \in [Bots -> {0, 1}]
  /\ \A b \in Bots : pictures[b] # 0 /\ live /\ ~closed =>
       phase # "quiet" /\ <<b, turn>> \in sessions

\* The board, the channel and the seats do not matter to the list.
LEMMA ListStays ==
  ASSUME Listed, UNCHANGED <<pictures, turn>>, sessions \subseteq sessions',
         (live' /\ ~closed') => (live /\ ~closed /\ (phase # "quiet" => phase' # "quiet"))
  PROVE  Listed'
BY DEF Listed

\* A Stupid goes to work on a picture only when none of it is on the list.
LEMMA GetToWorkLists ==
  ASSUME Listed, Stupids!GetToWork, live, ~closed, UNCHANGED <<phase, live, closed, turn>>
  PROVE  Listed'
<1>1. PICK t : LET begun == {b \in Bots : t[b] # task[b] /\ t[b].kind = "drawing"} IN
        /\ \A b \in Bots : t[b] \in IF b \in seated THEN Stupids!Work(b) ELSE {task[b]}
        /\ sessions' = sessions \cup (begun \X {turn})
        /\ pictures' = [b \in Bots |->
                          IF b \in begun /\ pictures[b] < 2 THEN pictures[b] + 1 ELSE pictures[b]]
  BY DEF Stupids!GetToWork
<1>. DEFINE begun == {b \in Bots : t[b] # task[b] /\ t[b].kind = "drawing"}
<1>2. ASSUME NEW b \in begun
      PROVE  phase = "drawing" /\ <<b, turn>> \notin sessions
  <2>1. t[b] \in Stupids!Work(b) /\ t[b] # task[b] /\ t[b].kind = "drawing"
    BY <1>1, <1>2
  <2>2. Stupids!NoTask.kind = "none" /\ \A k : Stupids!New(k).kind = k
    BY DEF Stupids!NoTask, Stupids!New
  <2>. QED
    BY <2>1, <2>2 DEF Stupids!Work, Stupids!Claim, Stupids!Started
<1>3. /\ sessions' = sessions \cup (begun \X {turn})
      /\ pictures' = [b \in Bots |->
                        IF b \in begun /\ pictures[b] < 2 THEN pictures[b] + 1 ELSE pictures[b]]
  BY <1>1
<1>. HIDE DEF begun
<1>4. ASSUME NEW b \in Bots
      PROVE  /\ pictures'[b] \in {0, 1}
             /\ pictures'[b] # 0 => phase # "quiet" /\ <<b, turn>> \in sessions'
  <2>1. CASE b \in begun
    BY <1>2, <1>3, <2>1 DEF Listed
  <2>2. CASE b \notin begun
    BY <1>3, <2>2 DEF Listed
  <2>. QED
    BY <2>1, <2>2
<1>. QED
  BY <1>3, <1>4 DEF Listed

LEMMA ReconcileLists ==
  ASSUME Listed, Stupids!Reconcile, UNCHANGED <<phase, live, closed, turn>>
  PROVE  Listed'
<1>1. CASE (closed \/ ~live \/ phase = "quiet") /\ Stupids!ClearRoom
  BY <1>1 DEF Stupids!ClearRoom, Listed
<1>2. CASE UNCHANGED Stupids!workVars
  BY <1>2, ListStays DEF Stupids!workVars
<1>3. CASE ~closed /\ live /\ Stupids!GetToWork
  BY <1>3, GetToWorkLists
<1>. QED
  BY <1>1, <1>2, <1>3 DEF Stupids!Reconcile

LEMMA StepLists ==
  ASSUME Listed, Stupids!Next
  PROVE  Listed'
<1>1. ASSUME NEW u \in Company, Stupids!TurnBegins(u)
      PROVE  Listed'
  BY <1>1, ListStays DEF Stupids!TurnBegins, Stupids!Room!Deal, Stupids!Room!seatVars, Stupids!workVars
<1>2. ASSUME NEW u \in Company, Stupids!RoundInstalled(u)
      PROVE  Listed'
  BY <1>2 DEF Stupids!RoundInstalled, Listed
<1>3. ASSUME NEW u \in Company, Stupids!TurnAnnounced(u)
      PROVE  Listed'
  BY <1>3, ReconcileLists DEF Stupids!TurnAnnounced, Stupids!Room!Offer, Stupids!Room!seatVars
<1>4. ASSUME NEW u \in Company, Stupids!Departs(u)
      PROVE  Listed'
  BY <1>4, ListStays DEF Stupids!Departs, Stupids!Room!Go, Stupids!Room!turnVars, Stupids!workVars
<1>5. CASE Stupids!Broadcast
  BY <1>5, ReconcileLists DEF Stupids!Broadcast, Stupids!roomVars
<1>6. CASE Stupids!GoesQuiet
  BY <1>6, ListStays DEF Stupids!GoesQuiet, Stupids!Room!Quiet, Stupids!workVars
<1>7. CASE Stupids!MatchOver
  BY <1>7 DEF Stupids!MatchOver, Stupids!ClearRoom, Stupids!roomVars, Listed
<1>8. CASE Stupids!RoomMoves
  BY <1>8, ListStays DEF Stupids!RoomMoves, Stupids!Room!Choose, Stupids!Room!Score,
       Stupids!Room!Close, Stupids!Room!Come, Stupids!Room!turnVars, Stupids!Room!seatVars,
       Stupids!workVars
<1>9. ASSUME NEW b \in Bots,
             \/ Stupids!PickWord(b) \/ Stupids!PictureEnds(b) \/ Stupids!AttemptGuess(b)
             \/ Stupids!WordsAnswer(b) \/ Stupids!VerdictAnswers(b) \/ Stupids!AttemptFails(b)
             \/ Stupids!LateAnswer(b)
      PROVE  Listed'
  <2>1. UNCHANGED <<pictures, turn, sessions>>
    BY <1>9 DEF Stupids!PickWord, Stupids!PictureEnds, Stupids!AttemptGuess, Stupids!WordsAnswer,
         Stupids!VerdictAnswers, Stupids!AttemptFails, Stupids!LateAnswer, Stupids!Stop, Stupids!Goes
  <2>2. UNCHANGED <<phase, live, closed>> \/ Stupids!Room!Choose
    BY <1>9 DEF Stupids!PickWord, Stupids!PictureEnds, Stupids!AttemptGuess, Stupids!WordsAnswer,
         Stupids!VerdictAnswers, Stupids!AttemptFails, Stupids!LateAnswer, Stupids!roomVars
  <2>. QED
    BY <2>1, <2>2, ListStays DEF Stupids!Room!Choose, Stupids!Room!seatVars
<1>. QED
  BY <1>1, <1>2, <1>3, <1>4, <1>5, <1>6, <1>7, <1>8, <1>9 DEF Stupids!Next

\* A Stupid starts the picture of its turn once, whatever broadcasts, pauses,
\* late answers and cancelled tasks lie between (startedSessions), for every
\* set of Stupids and any number of turns.
THEOREM PicturesAreStartedOnce == ServicesSpec => []OnePicture
<1>. DEFINE Kept == part = "bots" => Listed
<1>1. ServicesInit => Kept
  BY DEF ServicesInit, Stupids!OwnInit, Listed
<1>2. Kept /\ [ServicesNext]_allVars => Kept'
  <2>. SUFFICES ASSUME Kept, [ServicesNext]_allVars PROVE Kept'
    OBVIOUS
  <2>1. CASE StupidsPlay
    BY <2>1, StepLists DEF StupidsPlay
  <2>2. CASE UNCHANGED allVars
    BY <2>2 DEF allVars, roomVars, botVars, Listed
  <2>. QED
    BY <2>1, <2>2 DEF ServicesNext, TalkOnShip, TalkInTurns, VoteToKick, Draw
<1>3. Kept => OnePicture
  BY DEF Listed, OnePicture, Stupids!OnePicture
<1>. QED
  BY <1>1, <1>2, <1>3, PTL DEF ServicesSpec

-----------------------------------------------------------------------------
(* The board and the canvases *)

Strokes == [id : Ids, by : Painters, len : Nat]
Seen == [id : Ids, len : Nat]

\* A canvas shows s, stroke for stroke.
Matches(seen, s) ==
  Len(seen) = Len(s) /\ \A i \in 1..Len(s) : Canvas!Shows(seen[i], s[i])

Apart(s) == \A i, j \in 1..Len(s) : s[i].id = s[j].id => i = j

BoardTyping ==
  /\ relay \in BOOLEAN
  /\ strokes \in Seq(Strokes) /\ redo \in Seq(Strokes)
  /\ screen \in [Painters -> Seq(Seen)] /\ watching \subseteq Painters

\* No id is on the board twice, or on it and undone as well: an event names a
\* stroke by its id.
IdsOnce ==
  /\ Apart(strokes) /\ Apart(redo)
  /\ \A i \in 1..Len(strokes), j \in 1..Len(redo) : strokes[i].id # redo[j].id

Fresh == redo = << >> /\ (~relay => strokes = << >>)

\* What BoardsAgree says of the canvases.
Agreed ==
  IF relay THEN \A i \in 1..Len(redo) : redo[i].by = pen
  ELSE \A u \in watching \ (waiting \cup {pen}) : Matches(screen[u], strokes)

\* One turn at most is being set up, and the board is fresh until its drawer is
\* announced and while a pause is still to be told.
SetUp ==
  /\ \A u, v \in dealt \cup untold : u = v
  /\ dealt # {} => untold = {} /\ ~live /\ phase \in {"choosing", "quiet"}
  /\ untold # {} /\ (live \/ phase = "scored") => pen \in untold
  /\ phase = "drawing" => live /\ dealt = {} /\ untold = {}
  /\ clearing => phase \in {"quiet", "scored"}
  /\ clearing \/ dealt \cup untold # {} => Fresh

BoardInv ==
  /\ BoardTyping /\ IdsOnce /\ SetUp
  /\ (live \/ phase = "scored") /\ dealt = {} /\ untold = {} => Agreed

LEMMA SameFilterOfStrokes ==
  ASSUME NEW s, NEW keep PROVE Canvas!Filter(s, keep) = Filter(s, keep)
BY DEF Canvas!Filter, Filter

\* An event that adds a stroke.
LEMMA StrokeAdded ==
  ASSUME NEW seen \in Seq(Seen), NEW s \in Seq(Strokes), Matches(seen, s),
         NEW x \in Seen, NEW y \in Strokes, Canvas!Shows(x, y)
  PROVE  Matches(Append(seen, x), Append(s, y))
<1>1. PICK a, b : a = Append(seen, x) /\ b = Append(s, y)
  OBVIOUS
<1>2. /\ Len(b) = Len(s) + 1 /\ b[Len(s) + 1] = y
      /\ \A i \in 1..Len(s) : b[i] = s[i]
  BY <1>1
<1>3. /\ Len(a) = Len(seen) + 1 /\ a[Len(seen) + 1] = x
      /\ \A i \in 1..Len(seen) : a[i] = seen[i]
  BY <1>1
<1>4. \A i \in 1..Len(b) : i \in 1..Len(s) \/ i = Len(s) + 1
  BY <1>2
<1>5. Matches(a, b)
  BY <1>2, <1>3, <1>4 DEF Matches
<1>. QED
  BY <1>1, <1>5

\* An event that makes a stroke longer, which the server cuts at a full one.
LEMMA StrokeGrown ==
  ASSUME NEW seen \in Seq(Seen), NEW s \in Seq(Strokes), Matches(seen, s), Apart(s),
         NEW k \in 1..Len(s), s[k].len < MaxPoints, NEW n \in 1..MaxBatch
  PROVE  Matches(Canvas!Longer(seen, s[k].id, n),
                 [s EXCEPT ![k].len = IF @ + n > MaxPoints THEN MaxPoints ELSE @ + n])
<1>1. PICK a, b : /\ a = Canvas!Longer(seen, s[k].id, n)
                  /\ b = [s EXCEPT ![k].len = IF @ + n > MaxPoints THEN MaxPoints ELSE @ + n]
  OBVIOUS
<1>2. n \in Nat /\ MaxPoints \in Nat
  BY ServicesAssumption
<1>3. /\ Len(seen) = Len(s)
      /\ \A i \in 1..Len(s) : /\ s[i] \in Strokes /\ seen[i] \in Seen
                              /\ Canvas!Shows(seen[i], s[i])
  BY DEF Matches
<1>4. /\ Len(b) = Len(s)
      /\ \A i \in 1..Len(s) \ {k} : b[i] = s[i]
      /\ b[k].id = s[k].id
      /\ b[k].len = IF s[k].len + n > MaxPoints THEN MaxPoints ELSE s[k].len + n
  BY <1>1, <1>3 DEF Strokes
<1>5. /\ Len(a) = Len(s)
      /\ \A i \in 1..Len(s) : a[i] = IF seen[i].id = s[k].id
                                     THEN [seen[i] EXCEPT !.len = @ + n] ELSE seen[i]
  BY <1>1, <1>3 DEF Canvas!Longer
<1>6. ASSUME NEW i \in 1..Len(s) PROVE Canvas!Shows(a[i], b[i])
  <2>1. seen[i].id = s[i].id
    BY <1>3 DEF Canvas!Shows
  <2>2. CASE i = k
    <3>1. a[i] = [seen[i] EXCEPT !.len = @ + n]
      BY <1>5, <2>1, <2>2
    <3>2. a[i].id = seen[i].id /\ a[i].len = seen[i].len + n
      BY <1>3, <3>1 DEF Seen
    <3>3. seen[i].len = s[i].len
      BY <1>2, <1>3, <2>2 DEF Canvas!Shows, Strokes
    <3>. QED
      BY <1>2, <1>3, <1>4, <2>1, <2>2, <3>2, <3>3 DEF Canvas!Shows, Strokes
  <2>3. CASE i # k
    BY <1>3, <1>4, <1>5, <2>1, <2>3 DEF Apart
  <2>. QED
    BY <2>2, <2>3
<1>. QED
  BY <1>1, <1>4, <1>5, <1>6 DEF Matches

\* One list after the other.
LEMMA Joined ==
  ASSUME NEW S, NEW a \in Seq(S), NEW b \in Seq(S)
  PROVE  /\ a \o b \in Seq(S) /\ Len(a \o b) = Len(a) + Len(b)
         /\ \A i \in 1..Len(a) : (a \o b)[i] = a[i]
         /\ \A i \in 1..Len(b) : (a \o b)[Len(a) + i] = b[i]
OBVIOUS

LEMMA StrokeOut ==
  ASSUME NEW S, NEW s \in Seq(S), NEW k \in 1..Len(s)
  PROVE  /\ Canvas!RemoveAt(s, k) \in Seq(S)
         /\ Len(Canvas!RemoveAt(s, k)) = Len(s) - 1
         /\ \A i \in 1..(Len(s) - 1) :
              Canvas!RemoveAt(s, k)[i] = IF i < k THEN s[i] ELSE s[i + 1]
<1>1. PICK a, b : a = SubSeq(s, 1, k - 1) /\ b = SubSeq(s, k + 1, Len(s))
  OBVIOUS
<1>2. /\ a \in Seq(S) /\ Len(a) = k - 1 /\ \A i \in 1..(k - 1) : a[i] = s[i]
  BY <1>1
<1>3. /\ b \in Seq(S) /\ Len(b) = Len(s) - k /\ \A i \in 1..(Len(s) - k) : b[i] = s[k + i]
  BY <1>1
<1>4. /\ a \o b \in Seq(S) /\ Len(a \o b) = Len(a) + Len(b)
      /\ \A i \in 1..Len(a) : (a \o b)[i] = a[i]
      /\ \A i \in 1..Len(b) : (a \o b)[Len(a) + i] = b[i]
  <2>1. a \in Seq(S) /\ b \in Seq(S)
    BY <1>2, <1>3
  <2>. QED
    BY <2>1, Joined
<1>. DEFINE c == a \o b
<1>. HIDE DEF c
<1>5. Len(s) \in Nat /\ k \in Nat /\ k >= 1 /\ k <= Len(s)
  OBVIOUS
<1>6. ASSUME NEW i \in 1..(Len(s) - 1) PROVE c[i] = IF i < k THEN s[i] ELSE s[i + 1]
  <2>1. CASE i < k
    <3>1. i \in 1..(k - 1)
      BY <1>5, <2>1
    <3>. QED
      BY <1>2, <1>4, <2>1, <3>1 DEF c
  <2>2. CASE ~(i < k)
    <3>1. /\ i - (k - 1) \in 1..(Len(s) - k)
          /\ (k - 1) + (i - (k - 1)) = i /\ k + (i - (k - 1)) = i + 1
      BY <1>5, <2>2
    <3>2. c[i] = b[i - (k - 1)]
      BY <1>2, <1>3, <1>4, <3>1 DEF c
    <3>3. b[i - (k - 1)] = s[i + 1]
      BY <1>3, <3>1
    <3>. QED
      BY <2>2, <3>2, <3>3
  <2>. QED
    BY <2>1, <2>2
<1>7. Canvas!RemoveAt(s, k) = c
  BY <1>1 DEF Canvas!RemoveAt, c
<1>8. c \in Seq(S) /\ Len(c) = Len(s) - 1
  BY <1>2, <1>3, <1>4, <1>5 DEF c
<1>. QED
  BY <1>6, <1>7, <1>8

\* An event that takes a stroke away by its id: the one stroke of that id.
LEMMA StrokeUndone ==
  ASSUME NEW seen \in Seq(Seen), NEW s \in Seq(Strokes), Matches(seen, s), Apart(s),
         NEW k \in 1..Len(s)
  PROVE  Matches(Canvas!WithoutId(seen, s[k].id), Canvas!RemoveAt(s, k))
<1>1. PICK keep : keep = {stroke \in Canvas!ToSet(seen) : stroke.id # s[k].id}
  OBVIOUS
<1>2. Len(seen) = Len(s) /\ \A i \in 1..Len(s) : Canvas!Shows(seen[i], s[i])
  BY DEF Matches
<1>3. \A i \in 1..Len(seen) : seen[i] \in keep <=> i # k
  BY <1>1, <1>2 DEF Canvas!ToSet, Canvas!Shows, Apart
<1>4. PICK a, b : a = Canvas!WithoutId(seen, s[k].id) /\ b = Canvas!RemoveAt(s, k)
  OBVIOUS
<1>5. /\ Len(a) = Len(seen) - 1
      /\ \A i \in 1..(Len(seen) - 1) : a[i] = IF i < k THEN seen[i] ELSE seen[i + 1]
  BY <1>1, <1>2, <1>3, <1>4, FilterDrops, SameFilterOfStrokes DEF Canvas!WithoutId
<1>6. /\ Len(b) = Len(s) - 1
      /\ \A i \in 1..(Len(s) - 1) : b[i] = IF i < k THEN s[i] ELSE s[i + 1]
  BY <1>4, StrokeOut
<1>7. ASSUME NEW i \in 1..Len(b) PROVE Canvas!Shows(a[i], b[i])
  BY <1>2, <1>5, <1>6
<1>8. Matches(a, b)
  BY <1>2, <1>5, <1>6, <1>7 DEF Matches
<1>. QED
  BY <1>4, <1>8

LEMMA CanvasTyped ==
  ASSUME NEW seen \in Seq(Seen), NEW id
  PROVE  /\ \A n \in 1..MaxBatch : Canvas!Longer(seen, id, n) \in Seq(Seen)
         /\ Canvas!WithoutId(seen, id) \in Seq(Seen)
<1>1. \A n \in 1..MaxBatch : n \in Nat
  BY ServicesAssumption
<1>2. ASSUME NEW n \in 1..MaxBatch PROVE Canvas!Longer(seen, id, n) \in Seq(Seen)
  <2>1. PICK more : more = [i \in 1..Len(seen) |->
                              IF seen[i].id = id THEN [seen[i] EXCEPT !.len = @ + n] ELSE seen[i]]
    OBVIOUS
  <2>2. ASSUME NEW i \in 1..Len(seen) PROVE more[i] \in Seen
    <3>1. PICK x : x = seen[i]
      OBVIOUS
    <3>2. x \in Seen
      BY <3>1
    <3>3. PICK m : m = x.len + n
      OBVIOUS
    <3>4. m \in Nat
      BY <1>1, <3>2, <3>3 DEF Seen
    <3>5. PICK y : y = [x EXCEPT !.len = m]
      OBVIOUS
    <3>6. y \in Seen
      BY <3>2, <3>4, <3>5 DEF Seen
    <3>. QED
      BY <2>1, <3>1, <3>2, <3>3, <3>5, <3>6
  <2>3. more \in [1..Len(seen) -> Seen]
    BY <2>1, <2>2
  <2>4. more \in Seq(Seen)
    BY <2>3
  <2>5. DOMAIN seen = 1..Len(seen)
    OBVIOUS
  <2>6. Canvas!Longer(seen, id, n) = more
    BY <2>1, <2>5, Zenon DEF Canvas!Longer
  <2>. QED
    BY <2>4, <2>6
<1>3. Canvas!WithoutId(seen, id) \in Seq(Seen)
  BY FilterKeeps, SameFilterOfStrokes DEF Canvas!WithoutId
<1>. QED
  BY <1>2, <1>3

\* Who draws finds the canvases agreed, and nothing being set up.
LEMMA DrawsAgreed ==
  ASSUME BoardInv, NEW u \in Painters, Canvas!Draws(u)
  PROVE  /\ Agreed /\ pen = u
         /\ BoardTyping' /\ IdsOnce' /\ Agreed' => BoardInv'
BY DEF BoardInv, SetUp, Canvas!Draws, Canvas!CanDraw, Canvas!roomVars

LEMMA BeginHolds ==
  ASSUME BoardInv, NEW u \in Painters, NEW id \in Ids, Canvas!Begin(u, id)
  PROVE  BoardInv'
<1>1. PICK stroke, sent : /\ stroke = [id |-> id, by |-> u, len |-> 1]
                          /\ sent = [id |-> id, len |-> 1]
  OBVIOUS
<1>2. /\ Canvas!Draws(u) /\ Canvas!Fits(id)
      /\ strokes' = Append(strokes, stroke) /\ redo' = << >>
      /\ screen' = [v \in Painters |-> IF v \in watching \ {pen} THEN Append(screen[v], sent)
                                       ELSE screen[v]]
      /\ UNCHANGED <<relay, watching, waiting, pen>>
  BY <1>1 DEF Canvas!Begin, Canvas!Relay, Canvas!Sent, Canvas!Draws, Canvas!roomVars
<1>3. stroke \in Strokes /\ sent \in Seen /\ stroke.id = id /\ Canvas!Shows(sent, stroke)
  BY <1>1 DEF Strokes, Seen, Canvas!Shows
<1>4. BoardTyping'
  BY <1>2, <1>3 DEF BoardInv, BoardTyping
<1>5. PICK more : more = Append(strokes, stroke)
  OBVIOUS
<1>6. /\ Len(more) = Len(strokes) + 1 /\ more[Len(strokes) + 1] = stroke
      /\ \A i \in 1..Len(strokes) : more[i] = strokes[i]
      /\ \A i \in 1..Len(more) : i \in 1..Len(strokes) \/ i = Len(strokes) + 1
  BY <1>3, <1>5 DEF BoardInv, BoardTyping
<1>7. \A i \in 1..Len(strokes) : strokes[i].id # id
  BY <1>2 DEF Canvas!Fits, Canvas!IdsOf, BoardInv, BoardTyping
<1>8. Apart(more)
  BY <1>3, <1>6, <1>7 DEF Apart, BoardInv, IdsOnce
<1>9. IdsOnce'
  BY <1>2, <1>5, <1>8 DEF IdsOnce, Apart
<1>10. Agreed'
  <2>1. CASE relay
    BY <1>2, <2>1 DEF Agreed
  <2>2. CASE ~relay
    <3>1. ASSUME NEW v \in watching \ (waiting \cup {pen})
          PROVE  Matches(screen'[v], strokes')
      <4>1. Matches(screen[v], strokes)
        BY <1>2, <2>2, <3>1, DrawsAgreed DEF Agreed
      <4>2. screen'[v] = Append(screen[v], sent) /\ screen[v] \in Seq(Seen)
        BY <1>2, <3>1 DEF BoardInv, BoardTyping
      <4>. QED
        BY <1>2, <1>3, <4>1, <4>2, StrokeAdded DEF BoardInv, BoardTyping
    <3>. QED
      BY <1>2, <2>2, <3>1 DEF Agreed, Matches
  <2>. QED
    BY <2>1, <2>2
<1>. QED
  BY <1>2, <1>4, <1>9, <1>10, DrawsAgreed

LEMMA AppendHolds ==
  ASSUME BoardInv, NEW u \in Painters, NEW id \in Ids, NEW n \in 1..MaxBatch,
         Canvas!AppendPoints(u, id, n)
  PROVE  BoardInv'
<1>1. PICK k \in DOMAIN strokes :
        /\ strokes[k].id = id /\ strokes[k].len < MaxPoints
        /\ strokes' = [strokes EXCEPT ![k].len =
                         IF @ + n > MaxPoints THEN MaxPoints ELSE @ + n]
  BY DEF Canvas!AppendPoints
<1>2. /\ Canvas!Draws(u) /\ redo' = redo
      /\ screen' = [v \in Painters |-> IF v \in watching \ {pen}
                                       THEN Canvas!Longer(screen[v], id, n) ELSE screen[v]]
      /\ UNCHANGED <<relay, watching, waiting, pen>>
  BY DEF Canvas!AppendPoints, Canvas!Relay, Canvas!Draws, Canvas!roomVars
<1>3. k \in 1..Len(strokes) /\ n \in Nat /\ MaxPoints \in Nat /\ strokes \in Seq(Strokes)
  BY ServicesAssumption DEF BoardInv, BoardTyping
<1>4. /\ strokes' \in Seq(Strokes) /\ Len(strokes') = Len(strokes)
      /\ \A i \in 1..Len(strokes) : strokes'[i].id = strokes[i].id
  <2>1. PICK full : full = IF strokes[k].len + n > MaxPoints THEN MaxPoints
                           ELSE strokes[k].len + n
    OBVIOUS
  <2>2. strokes[k] \in Strokes
    BY <1>3
  <2>3. full \in Nat
    BY <1>3, <2>1, <2>2 DEF Strokes
  <2>4. PICK stroke : stroke = [strokes[k] EXCEPT !.len = full]
    OBVIOUS
  <2>5. stroke \in Strokes /\ stroke.id = strokes[k].id
    BY <2>2, <2>3, <2>4 DEF Strokes
  <2>6. strokes' = [strokes EXCEPT ![k] = stroke]
    BY <1>1, <2>1, <2>4
  <2>. QED
    BY <1>3, <2>5, <2>6
<1>5. BoardTyping'
  BY <1>2, <1>4, CanvasTyped DEF BoardInv, BoardTyping
<1>6. IdsOnce'
  BY <1>2, <1>4 DEF BoardInv, IdsOnce, Apart
<1>7. Agreed'
  <2>1. CASE relay
    BY <1>2, <2>1, DrawsAgreed DEF Agreed
  <2>2. CASE ~relay
    <3>1. ASSUME NEW v \in watching \ (waiting \cup {pen})
          PROVE  Matches(screen'[v], strokes')
      <4>1. Matches(screen[v], strokes)
        BY <1>2, <2>2, <3>1, DrawsAgreed DEF Agreed
      <4>2. screen'[v] = Canvas!Longer(screen[v], strokes[k].id, n) /\ screen[v] \in Seq(Seen)
        BY <1>1, <1>2, <3>1 DEF BoardInv, BoardTyping
      <4>3. Apart(strokes)
        BY DEF BoardInv, IdsOnce
      <4>4. Matches(Canvas!Longer(screen[v], strokes[k].id, n),
                    [strokes EXCEPT ![k].len =
                       IF @ + n > MaxPoints THEN MaxPoints ELSE @ + n])
        BY <1>1, <1>3, <4>1, <4>2, <4>3, StrokeGrown
      <4>. QED
        BY <1>1, <4>2, <4>4
    <3>. QED
      BY <1>2, <2>2, <3>1 DEF Agreed, Matches
  <2>. QED
    BY <2>1, <2>2
<1>. QED
  BY <1>2, <1>5, <1>6, <1>7, DrawsAgreed

\* The undone stroke goes to the end of the other list.
LEMMA UndoHolds ==
  ASSUME BoardInv, NEW u \in Painters, Canvas!Undo(u)
  PROVE  BoardInv'
<1>1. PICK k \in DOMAIN strokes :
        /\ strokes[k].by = u
        /\ strokes' = Canvas!RemoveAt(strokes, k) /\ redo' = Append(redo, strokes[k])
        /\ screen' = [v \in Painters |-> IF v \in watching \ {pen}
                                         THEN Canvas!WithoutId(screen[v], strokes[k].id)
                                         ELSE screen[v]]
  BY DEF Canvas!Undo, Canvas!Relay
<1>2. Canvas!Draws(u) /\ UNCHANGED <<relay, watching, waiting, pen>>
  BY DEF Canvas!Undo, Canvas!Relay, Canvas!Draws, Canvas!roomVars
<1>3. /\ k \in 1..Len(strokes) /\ strokes \in Seq(Strokes) /\ redo \in Seq(Strokes)
      /\ strokes[k] \in Strokes
  BY DEF BoardInv, BoardTyping
<1>4. PICK less, more, stroke : /\ less = Canvas!RemoveAt(strokes, k)
                                /\ stroke = strokes[k] /\ more = Append(redo, stroke)
  OBVIOUS
<1>5. /\ less \in Seq(Strokes) /\ Len(less) = Len(strokes) - 1
      /\ \A i \in 1..(Len(strokes) - 1) : less[i] = IF i < k THEN strokes[i] ELSE strokes[i + 1]
  BY <1>3, <1>4, StrokeOut
<1>6. /\ more \in Seq(Strokes) /\ Len(more) = Len(redo) + 1 /\ more[Len(redo) + 1] = stroke
      /\ \A i \in 1..Len(redo) : more[i] = redo[i]
      /\ \A i \in 1..Len(more) : i \in 1..Len(redo) \/ i = Len(redo) + 1
  BY <1>3, <1>4
<1>7. BoardTyping'
  BY <1>1, <1>2, <1>4, <1>5, <1>6, CanvasTyped DEF BoardInv, BoardTyping
<1>8. IdsOnce'
  <2>1. \A i \in 1..Len(less) : \E j \in 1..Len(strokes) \ {k} :
          less[i] = strokes[j] /\ j = IF i < k THEN i ELSE i + 1
    BY <1>3, <1>5
  <2>2. Apart(less)
    BY <1>3, <1>5, <2>1 DEF Apart, BoardInv, IdsOnce
  <2>3. Apart(more)
    BY <1>3, <1>4, <1>6 DEF Apart, BoardInv, IdsOnce
  <2>4. \A i \in 1..Len(less), j \in 1..Len(more) : less[i].id # more[j].id
    BY <1>3, <1>4, <1>6, <2>1 DEF Apart, BoardInv, IdsOnce
  <2>. QED
    BY <1>1, <1>4, <2>2, <2>3, <2>4 DEF IdsOnce, Apart
<1>9. Agreed'
  <2>1. CASE relay
    BY <1>1, <1>2, <1>4, <1>6, <2>1, DrawsAgreed DEF Agreed
  <2>2. CASE ~relay
    <3>1. ASSUME NEW v \in watching \ (waiting \cup {pen})
          PROVE  Matches(screen'[v], strokes')
      <4>1. Matches(screen[v], strokes)
        BY <1>2, <2>2, <3>1, DrawsAgreed DEF Agreed
      <4>2. screen'[v] = Canvas!WithoutId(screen[v], strokes[k].id) /\ screen[v] \in Seq(Seen)
        BY <1>1, <3>1 DEF BoardInv, BoardTyping
      <4>3. Apart(strokes)
        BY DEF BoardInv, IdsOnce
      <4>. QED
        BY <1>1, <1>3, <4>1, <4>2, <4>3, StrokeUndone
    <3>. QED
      BY <1>2, <2>2, <3>1 DEF Agreed, Matches
  <2>. QED
    BY <2>1, <2>2
<1>. QED
  BY <1>2, <1>7, <1>8, <1>9, DrawsAgreed

LEMMA StrokesBefore ==
  ASSUME NEW S, NEW s \in Seq(S), NEW n \in 1..Len(s)
  PROVE  LET t == SubSeq(s, 1, n - 1)
         IN  /\ t \in Seq(S) /\ Len(t) = n - 1
             /\ \A i \in 1..Len(t) : t[i] = s[i] /\ i \in 1..Len(s) /\ i # n
<1>1. PICK t : t = SubSeq(s, 1, n - 1)
  OBVIOUS
<1>2. t \in Seq(S) /\ Len(t) = n - 1 /\ \A i \in 1..(n - 1) : t[i] = s[i]
  BY <1>1
<1>. QED
  BY <1>1, <1>2

\* ... and comes back to the end of the board.
LEMMA RedoHolds ==
  ASSUME BoardInv, NEW u \in Painters, Canvas!Redo(u)
  PROVE  BoardInv'
<1>1. PICK last, sent, more, less :
        /\ last = redo[Len(redo)] /\ sent = [id |-> last.id, len |-> last.len]
        /\ more = Append(strokes, last) /\ less = SubSeq(redo, 1, Len(redo) - 1)
  OBVIOUS
<1>2. /\ Canvas!Draws(u) /\ redo # << >> /\ UNCHANGED <<relay, watching, waiting, pen>>
      /\ strokes' = more /\ redo' = less
      /\ screen' = [v \in Painters |-> IF v \in watching \ {pen} THEN Append(screen[v], sent)
                                       ELSE screen[v]]
  BY <1>1 DEF Canvas!Redo, Canvas!Relay, Canvas!Sent, Canvas!Last, Canvas!Front,
     Canvas!Draws, Canvas!roomVars
<1>3. /\ strokes \in Seq(Strokes) /\ redo \in Seq(Strokes)
      /\ Len(redo) \in 1..Len(redo) /\ last \in Strokes
  <2>1. strokes \in Seq(Strokes) /\ redo \in Seq(Strokes) /\ redo # << >>
    BY <1>2 DEF BoardInv, BoardTyping
  <2>2. Len(redo) \in 1..Len(redo)
    BY <2>1
  <2>. QED
    BY <1>1, <2>1, <2>2
<1>4. sent \in Seen /\ Canvas!Shows(sent, last)
  BY <1>1, <1>3 DEF Strokes, Seen, Canvas!Shows
<1>5. /\ more \in Seq(Strokes) /\ Len(more) = Len(strokes) + 1 /\ more[Len(strokes) + 1] = last
      /\ \A i \in 1..Len(strokes) : more[i] = strokes[i]
      /\ \A i \in 1..Len(more) : i \in 1..Len(strokes) \/ i = Len(strokes) + 1
  BY <1>1, <1>3
<1>6. /\ less \in Seq(Strokes) /\ Len(less) = Len(redo) - 1
      /\ \A i \in 1..Len(less) : less[i] = redo[i] /\ i \in 1..Len(redo) /\ i # Len(redo)
  <2>1. PICK n \in 1..Len(redo) : n = Len(redo)
    BY <1>3
  <2>2. less = SubSeq(redo, 1, n - 1)
    BY <1>1, <2>1
  <2>3. /\ less \in Seq(Strokes) /\ Len(less) = n - 1
        /\ \A i \in 1..Len(less) : less[i] = redo[i] /\ i \in 1..Len(redo) /\ i # n
    BY <1>3, <2>2, StrokesBefore
  <2>. QED
    BY <2>1, <2>3
<1>7. BoardTyping'
  BY <1>2, <1>4, <1>5, <1>6 DEF BoardInv, BoardTyping
<1>8. IdsOnce'
  <2>1. Apart(more)
    BY <1>1, <1>3, <1>5 DEF Apart, BoardInv, IdsOnce
  <2>2. Apart(less)
    BY <1>6 DEF Apart, BoardInv, IdsOnce
  <2>3. \A i \in 1..Len(more), j \in 1..Len(less) : more[i].id # less[j].id
    BY <1>1, <1>3, <1>5, <1>6 DEF Apart, BoardInv, IdsOnce
  <2>. QED
    BY <1>2, <2>1, <2>2, <2>3 DEF IdsOnce, Apart
<1>9. Agreed'
  <2>1. CASE relay
    BY <1>2, <1>6, <2>1, DrawsAgreed DEF Agreed
  <2>2. CASE ~relay
    <3>1. ASSUME NEW v \in watching \ (waiting \cup {pen})
          PROVE  Matches(screen'[v], strokes')
      <4>1. Matches(screen[v], strokes)
        BY <1>2, <2>2, <3>1, DrawsAgreed DEF Agreed
      <4>2. screen'[v] = Append(screen[v], sent) /\ screen[v] \in Seq(Seen)
        BY <1>2, <3>1 DEF BoardInv, BoardTyping
      <4>. QED
        BY <1>1, <1>2, <1>3, <1>4, <4>1, <4>2, StrokeAdded
    <3>. QED
      BY <1>2, <2>2, <3>1 DEF Agreed, Matches
  <2>. QED
    BY <2>1, <2>2
<1>. QED
  BY <1>2, <1>7, <1>8, <1>9, DrawsAgreed

LEMMA ClearHolds ==
  ASSUME BoardInv, NEW u \in Painters, Canvas!Clear(u)
  PROVE  BoardInv'
<1>1. /\ Canvas!Draws(u) /\ strokes' = << >> /\ redo' = << >>
      /\ screen' = [v \in Painters |-> IF v \in watching THEN << >> ELSE screen[v]]
      /\ UNCHANGED <<relay, watching, waiting, pen>>
  BY DEF Canvas!Clear, Canvas!ClearScreens, Canvas!Draws, Canvas!roomVars
<1>2. BoardTyping' /\ IdsOnce' /\ Agreed'
  BY <1>1 DEF BoardInv, BoardTyping, IdsOnce, Apart, Agreed, Matches
<1>. QED
  BY <1>1, <1>2, DrawsAgreed

\* A turn is dealt on a fresh board, installed, and announced to wiped canvases.
LEMMA SettingUpHolds ==
  ASSUME BoardInv, NEW u \in Painters,
         \/ Canvas!TurnBegins(u) \/ (Canvas!Room!Install(u) /\ Canvas!RoomMoves)
         \/ Canvas!TurnAnnounced(u)
  PROVE  BoardInv'
<1>1. CASE Canvas!TurnBegins(u)
  <2>1. /\ ~live /\ dealt = {} /\ untold = {} /\ ~clearing
        /\ phase' = "choosing" /\ dealt' = {u}
        /\ strokes' = (IF relay THEN strokes ELSE << >>) /\ redo' = << >>
        /\ UNCHANGED <<pen, live, untold, relay, clearing, watching, waiting, screen>>
    BY <1>1 DEF Canvas!TurnBegins, Canvas!Room!Deal, Canvas!FreshBoard, Canvas!Room!seatVars,
       Canvas!canvasVars
  <2>2. BoardTyping' /\ IdsOnce'
    BY <2>1 DEF BoardInv, BoardTyping, IdsOnce, Apart
  <2>3. SetUp' /\ ~live' /\ phase' # "scored"
    BY <2>1 DEF SetUp, Fresh
  <2>. QED
    BY <2>2, <2>3 DEF BoardInv
<1>2. CASE Canvas!Room!Install(u) /\ Canvas!RoomMoves
  <2>1. /\ u \in dealt /\ pen' = u /\ live'
        /\ dealt' = dealt \ {u} /\ untold' = untold \cup {u}
        /\ UNCHANGED <<phase, relay, strokes, redo, clearing, watching, waiting, screen>>
    BY <1>2 DEF Canvas!Room!Install, Canvas!RoomMoves, Canvas!boardVars, Canvas!canvasVars
  <2>2. BoardTyping' /\ IdsOnce'
    BY <2>1 DEF BoardInv, BoardTyping, IdsOnce
  <2>3. untold' = {u} /\ dealt' = {} /\ Fresh /\ phase \in {"choosing", "quiet"}
    BY <2>1 DEF BoardInv, SetUp
  <2>4. SetUp'
    BY <2>1, <2>3 DEF BoardInv, SetUp, Fresh
  <2>. QED
    BY <2>2, <2>3, <2>4 DEF BoardInv
<1>3. CASE Canvas!TurnAnnounced(u)
  <2>1. /\ u \in untold /\ untold' = untold \ {u}
        /\ screen' = [v \in Painters |-> IF v \in watching THEN << >> ELSE screen[v]]
        /\ UNCHANGED <<phase, pen, live, dealt, relay, strokes, redo, clearing, watching, waiting>>
    BY <1>3 DEF Canvas!TurnAnnounced, Canvas!Room!Offer, Canvas!ClearScreens, Canvas!boardVars
  <2>2. BoardTyping' /\ IdsOnce'
    BY <2>1 DEF BoardInv, BoardTyping, IdsOnce
  <2>3. untold' = {} /\ dealt = {} /\ Fresh
    BY <2>1 DEF BoardInv, SetUp
  <2>4. SetUp'
    BY <2>1, <2>3 DEF BoardInv, SetUp, Fresh
  <2>5. Agreed'
    BY <2>1, <2>3 DEF BoardInv, BoardTyping, Fresh, Agreed, Matches
  <2>. QED
    BY <2>2, <2>4, <2>5 DEF BoardInv
<1>. QED
  BY <1>1, <1>2, <1>3

\* A pause, the end of a match and the lobby.
LEMMA QuietHolds ==
  ASSUME BoardInv, Canvas!Paused \/ Canvas!Finished \/ Canvas!InLobby
  PROVE  BoardInv'
<1>1. /\ phase' = "quiet" /\ ~live'
      /\ UNCHANGED <<dealt, untold, relay, watching, waiting, screen>>
  BY DEF Canvas!Paused, Canvas!Finished, Canvas!InLobby, Canvas!Room!Quiet, Canvas!Room!seatVars,
     Canvas!canvasVars
<1>2. \/ Canvas!FreshBoard /\ clearing' \in {TRUE, clearing}
      \/ UNCHANGED <<strokes, redo, clearing>>
  BY DEF Canvas!Paused, Canvas!Finished, Canvas!InLobby, Canvas!boardVars
<1>3. BoardTyping' /\ IdsOnce'
  <2>1. /\ strokes' \in {strokes, << >>} /\ redo' \in {redo, << >>}
        /\ UNCHANGED <<relay, watching, waiting, screen>>
    BY <1>1, <1>2 DEF Canvas!FreshBoard
  <2>2. << >> \in Seq(Strokes) /\ Len(<< >>) = 0
    OBVIOUS
  <2>3. BoardTyping'
    BY <2>1, <2>2 DEF BoardInv, BoardTyping
  <2>4. Apart(<< >>)
    BY <2>2 DEF Apart
  <2>5. IdsOnce'
    <3>1. Apart(strokes') /\ Apart(redo')
      BY <2>1, <2>4 DEF BoardInv, IdsOnce
    <3>2. \A i \in 1..Len(strokes'), j \in 1..Len(redo') : strokes'[i].id # redo'[j].id
      BY <2>1, <2>2 DEF BoardInv, IdsOnce
    <3>. QED
      BY <3>1, <3>2 DEF IdsOnce, Apart
  <2>. QED
    BY <2>3, <2>5
<1>4. SetUp'
  <2>1. CASE Canvas!FreshBoard /\ clearing' \in {TRUE, clearing}
    <3>1. Fresh'
      BY <1>1, <2>1 DEF Canvas!FreshBoard, Fresh
    <3>. QED
      BY <1>1, <3>1 DEF BoardInv, SetUp
  <2>2. CASE UNCHANGED <<strokes, redo, clearing>>
    BY <1>1, <2>2 DEF BoardInv, SetUp, Fresh
  <2>. QED
    BY <1>2, <2>1, <2>2
<1>. QED
  BY <1>1, <1>3, <1>4 DEF BoardInv

\* The rest of the room, and a pause that is told.
LEMMA RoomHolds ==
  ASSUME BoardInv,
         \/ Canvas!PauseTold
         \/ Canvas!RoomMoves /\ ~\E u \in Painters : Canvas!Room!Install(u)
  PROVE  BoardInv'
<1>1. CASE Canvas!PauseTold
  <2>1. /\ clearing /\ ~clearing'
        /\ screen' = [v \in Painters |-> IF v \in watching THEN << >> ELSE screen[v]]
        /\ UNCHANGED <<phase, pen, live, dealt, untold, relay, strokes, redo, watching, waiting>>
    BY <1>1 DEF Canvas!PauseTold, Canvas!ClearScreens, Canvas!roomVars, Canvas!boardVars
  <2>2. BoardTyping' /\ IdsOnce' /\ SetUp'
    BY <2>1 DEF BoardInv, BoardTyping, IdsOnce, SetUp, Fresh
  <2>3. Agreed'
    BY <2>1 DEF BoardInv, BoardTyping, SetUp, Fresh, Agreed, Matches
  <2>. QED
    BY <2>2, <2>3 DEF BoardInv
<1>2. CASE Canvas!RoomMoves /\ ~\E u \in Painters : Canvas!Room!Install(u)
  <2>1. /\ \/ UNCHANGED <<phase, live>>
           \/ live /\ dealt = {} /\ untold = {} /\ phase = "choosing" /\ phase' = "drawing" /\ live' = live
           \/ live /\ phase' = "scored" /\ ~live'
        /\ UNCHANGED <<pen, dealt, untold, relay, strokes, redo, clearing, watching, waiting, screen>>
    BY <1>2 DEF Canvas!RoomMoves, Canvas!Room!Choose, Canvas!Room!Score, Canvas!Room!Close,
       Canvas!Room!Come, Canvas!Room!Go, Canvas!Room!turnVars, Canvas!Room!seatVars,
       Canvas!boardVars, Canvas!canvasVars
  <2>2. BoardTyping' /\ IdsOnce' /\ (Agreed => Agreed')
    BY <2>1 DEF BoardInv, BoardTyping, IdsOnce, Agreed, Matches
  <2>3. SetUp'
    BY <2>1 DEF BoardInv, SetUp, Fresh
  <2>. QED
    BY <2>1, <2>2, <2>3 DEF BoardInv
<1>. QED
  BY <1>1, <1>2

\* A canvas comes in, is sent the whole board, and goes.
LEMMA CanvasHolds ==
  ASSUME BoardInv, NEW u \in Painters,
         Canvas!Enter(u) \/ Canvas!SendSnapshot(u) \/ Canvas!Drop(u)
  PROVE  BoardInv'
<1>1. UNCHANGED <<phase, pen, live, dealt, untold, relay, strokes, redo, clearing>>
  BY DEF Canvas!Enter, Canvas!SendSnapshot, Canvas!Drop, Canvas!roomVars, Canvas!boardVars
<1>2. IdsOnce' /\ SetUp'
  BY <1>1 DEF BoardInv, IdsOnce, SetUp, Fresh
<1>3. CASE Canvas!Enter(u)
  <2>1. /\ watching' = watching \cup {u} /\ waiting' = waiting \cup {u} /\ screen' = screen
        /\ u \notin watching
    BY <1>3 DEF Canvas!Enter
  <2>2. BoardTyping' /\ (Agreed => Agreed')
    BY <1>1, <2>1 DEF BoardInv, BoardTyping, Agreed, Matches
  <2>. QED
    BY <1>1, <1>2, <2>2 DEF BoardInv
<1>4. CASE Canvas!SendSnapshot(u)
  <2>1. PICK now : now = Canvas!Snapshot
    OBVIOUS
  <2>2. /\ watching' = watching /\ waiting' = waiting \ {u}
        /\ screen' = [screen EXCEPT ![u] = now]
    BY <1>4, <2>1 DEF Canvas!SendSnapshot
  <2>3. strokes \in Seq(Strokes) /\ DOMAIN strokes = 1..Len(strokes)
    BY DEF BoardInv, BoardTyping
  <2>4. now = [i \in 1..Len(strokes) |-> [id |-> strokes[i].id, len |-> strokes[i].len]]
    BY <2>1, <2>3 DEF Canvas!Snapshot, Canvas!Sent
  <2>5. \A i \in 1..Len(strokes) : now[i] \in Seen /\ Canvas!Shows(now[i], strokes[i])
    <3>1. ASSUME NEW x \in Strokes
          PROVE  LET y == [id |-> x.id, len |-> x.len] IN y \in Seen /\ Canvas!Shows(y, x)
      BY DEF Strokes, Seen, Canvas!Shows
    <3>. QED
      BY <2>3, <2>4, <3>1
  <2>6. now \in [1..Len(strokes) -> Seen]
    BY <2>4, <2>5
  <2>7. now \in Seq(Seen) /\ Len(now) = Len(strokes)
    BY <2>3, <2>6
  <2>8. Matches(now, strokes)
    BY <2>5, <2>7 DEF Matches
  <2>9. BoardTyping'
    BY <1>1, <2>2, <2>7 DEF BoardInv, BoardTyping
  <2>10. Agreed => Agreed'
    <3>1. ASSUME ~relay, Agreed, NEW v \in watching \ (waiting' \cup {pen})
          PROVE  Matches(screen'[v], strokes)
      <4>1. CASE v = u
        BY <2>2, <2>8, <3>1, <4>1 DEF BoardInv, BoardTyping
      <4>2. CASE v # u
        <5>1. screen'[v] = screen[v] /\ v \notin waiting
          BY <2>2, <3>1, <4>2 DEF BoardInv, BoardTyping
        <5>. QED
          BY <3>1, <5>1 DEF Agreed
      <4>. QED
        BY <4>1, <4>2
    <3>. QED
      BY <1>1, <2>2, <3>1 DEF Agreed, Matches
  <2>. QED
    BY <1>1, <1>2, <2>9, <2>10 DEF BoardInv
<1>5. CASE Canvas!Drop(u)
  <2>1. /\ watching' = watching \ {u} /\ waiting' = waiting \ {u}
        /\ screen' = [screen EXCEPT ![u] = << >>]
    BY <1>5 DEF Canvas!Drop
  <2>2. BoardTyping'
    BY <1>1, <2>1 DEF BoardInv, BoardTyping
  <2>3. Agreed => Agreed'
    BY <1>1, <2>1 DEF BoardInv, BoardTyping, Agreed, Matches
  <2>. QED
    BY <1>1, <1>2, <2>2, <2>3 DEF BoardInv
<1>. QED
  BY <1>3, <1>4, <1>5

LEMMA BoardStepHolds == ASSUME BoardInv, Canvas!Next PROVE BoardInv'
<1>1. CASE Canvas!RoomMoves
  BY <1>1, SettingUpHolds, RoomHolds
<1>2. ASSUME NEW u \in Painters,
             \/ Canvas!Undo(u) \/ Canvas!Redo(u) \/ Canvas!Clear(u)
             \/ \E id \in Ids : \/ Canvas!Begin(u, id)
                                \/ \E n \in 1..MaxBatch : Canvas!AppendPoints(u, id, n)
      PROVE  BoardInv'
  BY <1>2, BeginHolds, AppendHolds, UndoHolds, RedoHolds, ClearHolds
<1>3. ASSUME NEW u \in Painters,
             \/ Canvas!TurnBegins(u) \/ Canvas!TurnAnnounced(u)
             \/ Canvas!Enter(u) \/ Canvas!SendSnapshot(u) \/ Canvas!Drop(u)
      PROVE  BoardInv'
  BY <1>3, SettingUpHolds, CanvasHolds
<1>. QED
  BY <1>1, <1>2, <1>3, QuietHolds, RoomHolds DEF Canvas!Next

\* Every guesser sees the drawing the server keeps, stroke for stroke, although
\* a canvas hears of each change once, is wiped by an event of its own and may
\* come in in the middle; in Relay what is left to redo is the present drawer's
\* (drawing.service, GameProvider). For any people and any number of strokes.
THEOREM BoardsStayAgreed == ServicesSpec => []BoardsAgree
<1>. DEFINE Kept == part = "board" => BoardInv
<1>1. ServicesInit => Kept
  BY DEF ServicesInit, Canvas!OwnInit, Canvas!Blank, RoomInit, Canvas!Room!Init,
     BoardInv, BoardTyping, IdsOnce, Apart, SetUp, Fresh
<1>2. Kept /\ [ServicesNext]_allVars => Kept'
  <2>. SUFFICES ASSUME Kept, [ServicesNext]_allVars PROVE Kept'
    OBVIOUS
  <2>1. CASE Draw
    BY <2>1, BoardStepHolds DEF Draw
  <2>2. CASE UNCHANGED allVars
    BY <2>2 DEF allVars, roomVars, boardVars, BoardInv, BoardTyping, IdsOnce, Apart, SetUp, Fresh,
       Agreed, Matches
  <2>. QED
    BY <2>1, <2>2 DEF ServicesNext, TalkOnShip, TalkInTurns, VoteToKick, StupidsPlay
<1>3. Kept => BoardsAgree
  <2>. SUFFICES ASSUME part = "board", BoardInv, phase \in {"drawing", "scored"}, pen \notin untold
                PROVE  IF relay THEN \A i \in DOMAIN redo : redo[i].by = pen
                       ELSE \A u \in watching \ (waiting \cup {pen}) :
                              /\ Len(screen[u]) = Len(strokes)
                              /\ \A i \in DOMAIN strokes : Canvas!Shows(screen[u][i], strokes[i])
    BY DEF BoardsAgree, Canvas!BoardsAgree
  <2>1. Agreed
    BY DEF BoardInv, SetUp
  <2>2. DOMAIN strokes = 1..Len(strokes) /\ DOMAIN redo = 1..Len(redo)
    BY DEF BoardInv, BoardTyping
  <2>. QED
    BY <2>1, <2>2 DEF Agreed, Matches
<1>. QED
  BY <1>1, <1>2, <1>3, PTL DEF ServicesSpec
=============================================================================
