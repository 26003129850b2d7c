---------------------------- MODULE BracketProofs ----------------------------
(***************************************************************************)
(* What is proved of a tournament's bracket, for every roster of two to    *)
(* sixteen, any number of overlapping scheduler passes and any number of   *)
(* crashes.                                                                *)
(***************************************************************************)
EXTENDS Bracket, FiniteSetTheorems, TLAPS

(* The shape of the draw *)

LEMMA Sizes ==
  \/ Size = 2 /\ Rounds = 1
  \/ Size = 4 /\ Rounds = 2
  \/ Size = 8 /\ Rounds = 3
  \/ Size = 16 /\ Rounds = 4
<1>. DEFINE Fits(s) == s >= Len(Seeding) /\ (s = 2 \/ s < 2 * Len(Seeding))
<1>1. Len(Seeding) \in 2..16
  BY SeedingAssumption
<1>2. \E s \in {2, 4, 8, 16} : Fits(s)
  <2>1. \A n \in 2..16 : \E s \in {2, 4, 8, 16} : s >= n /\ (s = 2 \/ s < 2 * n)
    <3>1. \A n \in 2..16 : n = 2 \/ n \in 3..4 \/ n \in 5..8 \/ n \in 9..16
      OBVIOUS
    <3>2. \A n \in 3..4 : 4 >= n /\ 4 < 2 * n
      OBVIOUS
    <3>3. \A n \in 5..8 : 8 >= n /\ 8 < 2 * n
      OBVIOUS
    <3>4. \A n \in 9..16 : 16 >= n /\ 16 < 2 * n
      OBVIOUS
    <3>. QED
      BY <3>1, <3>2, <3>3, <3>4
  <2>. QED
    BY <1>1, <2>1
<1>. HIDE DEF Fits
<1>3. Size = CHOOSE s \in {2, 4, 8, 16} : Fits(s)
  BY DEF Size, Fits
<1>4. Size \in {2, 4, 8, 16}
  BY <1>2, <1>3
<1>5. /\ PowerOfTwo[1] = 2 /\ PowerOfTwo[2] = 4
      /\ PowerOfTwo[3] = 8 /\ PowerOfTwo[4] = 16
  BY DEF PowerOfTwo
<1>6. \E k \in 1..4 : PowerOfTwo[k] = Size
  BY <1>4, <1>5
<1>7. Rounds \in 1..4 /\ PowerOfTwo[Rounds] = Size
  BY <1>6 DEF Rounds
<1>. QED
  BY <1>4, <1>5, <1>7

LEMMA Positions ==
  ASSUME NEW p \in Pos
  PROVE  /\ p = <<p[1], p[2]>>
         /\ p[1] \in 1..Rounds /\ p[2] \in 1..(Size \div 2)
         /\ p[2] <= Size \div PowerOfTwo[p[1]]
BY DEF Pos

LEMMA Powers ==
  PowerOfTwo[1] = 2 /\ PowerOfTwo[2] = 4 /\ PowerOfTwo[3] = 8 /\ PowerOfTwo[4] = 16
BY DEF PowerOfTwo

LEMMA FinalIsAPosition == Final \in Pos
<1>1. Final = <<Rounds, 1>>
  BY DEF Final
<1>2. Rounds \in 1..Rounds /\ 1 \in 1..(Size \div 2) /\ 1 <= Size \div PowerOfTwo[Rounds]
  BY Sizes, Powers
<1>. QED
  BY <1>1, <1>2 DEF Pos

\* A winner moves to a match of the next round ...
LEMMA NextIsAPosition ==
  ASSUME NEW p \in Pos, HasNext(p)
  PROVE  NextPos(p) \in Pos /\ RoundOf(NextPos(p)) = RoundOf(p) + 1 /\ NextSide(p) \in Sides
<1>1. p[1] \in 1..Rounds /\ p[2] \in 1..(Size \div 2) /\ p[2] <= Size \div PowerOfTwo[p[1]] /\ p[1] < Rounds
  BY Positions DEF HasNext
<1>2. /\ p[1] + 1 \in 1..Rounds /\ (p[2] + 1) \div 2 \in 1..(Size \div 2)
      /\ (p[2] + 1) \div 2 <= Size \div PowerOfTwo[p[1] + 1]
  BY <1>1, Sizes, Powers
<1>. QED
  BY <1>1, <1>2 DEF Pos, NextPos, NextSide, RoundOf, Sides

\* ... and no two winners to one slot.
LEMMA SlotsAreFedOnce ==
  ASSUME NEW p \in Pos, NEW q \in Pos, NextPos(p) = NextPos(q), NextSide(p) = NextSide(q)
  PROVE  p = q
<1>1. p[1] + 1 = q[1] + 1 /\ (p[2] + 1) \div 2 = (q[2] + 1) \div 2
  BY DEF NextPos
<1>2. p[2] % 2 = 1 <=> q[2] % 2 = 1
  BY DEF NextSide
<1>3. p[1] \in Nat /\ q[1] \in Nat /\ p[2] \in Nat /\ q[2] \in Nat
  BY Positions, Sizes
<1>4. \A k \in Nat : k % 2 \in {0, 1} /\ k = 2 * ((k + 1) \div 2) - (k % 2)
  OBVIOUS
<1>5. p[2] % 2 = q[2] % 2
  BY <1>2, <1>3, <1>4
<1>6. p[1] = q[1] /\ p[2] = q[2]
  BY <1>1, <1>3, <1>4, <1>5
<1>. QED
  BY <1>6, Positions

\* A bounded set of numbers has a least.
LEMMA LeastOf ==
  ASSUME NEW S \in SUBSET (1..8), S # {}
  PROVE  \E m \in S : \A n \in S : m <= n
<1>1. ASSUME NEW k \in 1..8, k \in S, \A n \in S : n >= k PROVE \E m \in S : \A n \in S : m <= n
  BY <1>1
<1>. DEFINE Below(k) == \A n \in S : n >= k
<1>2. Below(1) /\ ~Below(9)
  <2>1. PICK n \in S : TRUE
    OBVIOUS
  <2>2. n \in 1..8 /\ ~(n >= 9)
    BY <2>1
  <2>. QED
    BY <2>1, <2>2
<1>3. \A k \in 1..8 : Below(k) /\ k \notin S => Below(k + 1)
  OBVIOUS
<1>4. \E k \in 1..8 : Below(k) /\ k \in S
  <2>. SUFFICES ASSUME \A k \in 1..8 : Below(k) => k \notin S PROVE FALSE
    OBVIOUS
  <2>. HIDE DEF Below
  <2>1. \A k \in 1..8 : Below(k) => Below(k + 1)
    BY <1>3
  <2>2. Below(2) /\ Below(3) /\ Below(4) /\ Below(5)
    BY <1>2, <2>1
  <2>. QED
    BY <1>2, <2>1, <2>2
<1>. QED
  BY <1>1, <1>4

LEMMA FirstIsOne ==
  ASSUME NEW S \in SUBSET Pos, S # {}
  PROVE  FirstOf(S) \in S
<1>. DEFINE rounds == {p[1] : p \in S}
<1>1. rounds \in SUBSET (1..8) /\ rounds # {}
  BY Positions, Sizes
<1>2. PICK r \in rounds : \A n \in rounds : r <= n
  BY <1>1, LeastOf
<1>. DEFINE inRound == {p[2] : p \in {q \in S : q[1] = r}}
<1>3. inRound \in SUBSET (1..8) /\ inRound # {}
  BY <1>2, Positions, Sizes
<1>4. PICK k \in inRound : \A n \in inRound : k <= n
  BY <1>3, LeastOf
<1>5. PICK p \in S : p[1] = r /\ p[2] = k
  BY <1>4
<1>6. ASSUME NEW q \in S PROVE p[1] < q[1] \/ (p[1] = q[1] /\ p[2] <= q[2])
  <2>1. p[1] <= q[1] /\ p[1] \in Nat /\ q[1] \in Nat
    BY <1>2, <1>5, Positions, Sizes
  <2>2. q[1] = r => p[2] <= q[2]
    BY <1>4, <1>5
  <2>. QED
    BY <1>5, <2>1, <2>2
<1>. QED
  BY <1>5, <1>6 DEF FirstOf

-----------------------------------------------------------------------------
(* The inductive invariant *)

Statuses == {"absent", "pending", "ready", "running", "completed", "cancelled"}
Outcomes == {"none", "bye", "played", "walkover"}
Phases == {"none", "lobby", "starting", "playing", "paused", "ended"}
RegRows == [status : {"checkedIn", "active", "eliminated", "winner"}, seeded : BOOLEAN]
MatchRows == [status : Statuses, winner : MaybeOne, outcome : Outcomes, booked : BOOLEAN,
              forfeit : MaybeOne, slot : [Sides -> MaybeOne]]
RoomRows == [phase : Phases, closed : BOOLEAN, bound : BOOLEAN, game : BOOLEAN,
             seats : SUBSET Entrants, live : SUBSET Entrants, robots : SUBSET Entrants,
             grace : SUBSET Entrants, lost : SUBSET Entrants, stray : SUBSET Entrants,
             vacant : BOOLEAN]
TickRows == [at : Labels, r : 0..Rounds, todo : SUBSET Pos, p : Pos \cup {<<0, 0>>}, w : MaybeOne]
HookRows == [at : {"none", "claim", "engine", "revert", "result", "reported"}, w : MaybeOne]
CallRows == [by : {TickOf(t) : t \in Ticks} \cup {HookOf(p) : p \in Pos}, p : Pos, w : Entrants,
             l : MaybeOne, out : Outcomes, at : {"claim", "eliminate", "advance"}]
TakeoverRows == [p : Pos, e : Humans, at : {"look", "claim", "seat", "eliminate", "remove"}]

Written(p) == match[p].status # "absent"
Drawn == \A p \in Pos : Written(p)
WonBy(p, w) == match[p].status = "completed" /\ match[p].winner = w

\* Two different registrations have come to a match.
Full(p) ==
  /\ Written(p)
  /\ match[p].slot["A"] # NoOne /\ match[p].slot["B"] # NoOne
  /\ match[p].slot["A"] # match[p].slot["B"]

\* What a pass may count on of the rows it loaded some segments earlier.
TickHolds(t) ==
  /\ tick[t].at \in {"opening", "room", "sweep", "walkover", "abandon", "dismiss"} =>
       \A p \in tick[t].todo : Full(p)
  /\ tick[t].at = "gap" => \A p \in tick[t].todo : Written(p)
  /\ tick[t].at \in {"room", "walkover"} => tick[t].p \in Pos /\ Full(tick[t].p)
  /\ tick[t].at = "walkover" => tick[t].w \in Paired(tick[t].p)
  /\ tick[t].at \in {"byes", "run", "count", "move"} => Drawn
  /\ tick[t].at = "move" =>
       tick[t].r < Rounds /\ \A p \in Pos : RoundOf(p) = tick[t].r => Decided(p)
  /\ tick[t].at \in {"crown", "finish"} => Decided(Final)
  /\ tick[t].at = "finish" /\ tick[t].w # NoOne => WonBy(Final, tick[t].w)

\* A completeMatch that has taken its row is the one that decided it.
CallHolds(c) ==
  /\ Written(c.p) /\ c.w \in Paired(c.p)
  /\ c.at # "claim" => WonBy(c.p, c.w)

\* A takeover puts its bot on a seat after the row has that seat as forfeited.
TakeoverHolds(s) ==
  /\ Full(s.p)
  /\ s.at = "seat" => match[s.p].forfeit = s.e

\* The seats of a room that are played by a stand-in.
StandIns(p) == room[p].robots \cap Humans

\* A row, its room and the hook of its engine.
RoomHolds(p) ==
  /\ match[p].status \in {"ready", "running"} => Full(p)
  /\ match[p].status = "completed" => match[p].winner \in Paired(p)
  /\ room[p] # NoRoom => Full(p)
  /\ StandIns(p) \subseteq {match[p].forfeit}
  /\ hook[p].at \in {"result", "reported"} => Full(p)

\* A slot of a later round holds the winner of the match that feeds it.
SlotsFed ==
  \A p \in Pos : HasNext(p) =>
    LET x == match[NextPos(p)].slot[NextSide(p)] IN x # NoOne => WonBy(p, x)

TourHolds ==
  /\ tstat \in {"running", "completed"} => Drawn
  /\ RoundsInOrder
  /\ tstat = "completed" => Decided(Final)
  /\ champion # NoOne => WonBy(Final, champion)
  /\ \A e \in Entrants : reg[e].status = "winner" => WonBy(Final, e)

Typing ==
  /\ tstat \in {"sealed", "running", "completed", "cancelled"}
  /\ cur \in 0..Rounds /\ champion \in MaybeOne
  /\ reg \in [Entrants -> RegRows]
  /\ match \in [Pos -> MatchRows]
  /\ room \in [Pos -> RoomRows]
  /\ tick \in [Ticks -> TickRows]
  /\ hook \in [Pos -> HookRows]
  /\ calls \subseteq CallRows
  /\ takeovers \subseteq TakeoverRows
  /\ crashes \in 0..MaxCrashes

IInv ==
  /\ Typing
  /\ \A t \in Ticks : TickHolds(t)
  /\ \A c \in calls : CallHolds(c)
  /\ \A s \in takeovers : TakeoverHolds(s)
  /\ \A p \in Pos : RoomHolds(p)
  /\ SlotsFed
  /\ TourHolds

-----------------------------------------------------------------------------
(* What no step undoes *)

\* A row is not unwritten, a slot that is filled keeps its registration, a seat
\* that is forfeited stays so, and a decision stands.
RowsGrow ==
  \A p \in Pos :
    /\ Written(p) => /\ Written(p)'
                     /\ match[p].forfeit # NoOne => match'[p].forfeit = match[p].forfeit
                     /\ \A s \in Sides : match[p].slot[s] # NoOne =>
                                           match'[p].slot[s] = match[p].slot[s]
    /\ Decided(p) => Decided(p)'
    /\ match[p].status = "completed" =>
         match'[p].status = "completed" /\ match'[p].winner = match[p].winner

LEMMA PairedIs == \A p : Paired(p) = {match[p].slot["A"], match[p].slot["B"]} \ {NoOne}
BY DEF Paired, Sides

LEMMA RowsSame == ASSUME match' = match PROVE RowsGrow
BY DEF RowsGrow, Written, Decided

LEMMA GrowingKeeps ==
  ASSUME RowsGrow, NEW p \in Pos
  PROVE  /\ Full(p) => Full(p)'
         /\ Written(p) => \A e \in Paired(p) : e \in Paired(p)'
         /\ \A w : WonBy(p, w) => WonBy(p, w)'
         /\ Drawn => Drawn'
<1>1. "A" \in Sides /\ "B" \in Sides
  BY DEF Sides
<1>2. Full(p) => Full(p)'
  BY <1>1 DEF RowsGrow, Full, Written
<1>3. Written(p) => \A e \in Paired(p) : e \in Paired(p)'
  BY DEF RowsGrow, Paired
<1>4. Drawn => Drawn'
  BY DEF RowsGrow, Drawn
<1>. QED
  BY <1>2, <1>3, <1>4 DEF RowsGrow, WonBy

LEMMA NoRoomIs ==
  /\ NoRoom.phase = "none" /\ ~NoRoom.closed /\ NoRoom.live = {} /\ NoRoom.robots = {}
  /\ NoRoom.grace = {} /\ NoRoom.stray = {} /\ ~NoRoom.vacant
BY DEF NoRoom

\* Two different registrations have come to a match with two players ...
LEMMA TwoPaired ==
  ASSUME NEW p \in Pos, Written(p), Cardinality(Paired(p)) = 2
  PROVE  Full(p)
<1>. DEFINE a == match[p].slot["A"]
            b == match[p].slot["B"]
<1>1. Paired(p) = {a, b} \ {NoOne}
  BY PairedIs
<1>2. Cardinality({}) = 0 /\ \A x : Cardinality({x}) = 1
  BY FS_EmptySet, FS_Singleton
<1>3. ASSUME a = NoOne \/ b = NoOne \/ a = b PROVE FALSE
  <2>1. Paired(p) = {} \/ Paired(p) = {a} \/ Paired(p) = {b}
    BY <1>1, <1>3
  <2>2. Cardinality(Paired(p)) = 0 \/ Cardinality(Paired(p)) = 1
    BY <1>2, <2>1, Zenon
  <2>. QED
    BY <2>2
<1>. QED
  BY <1>3 DEF Full

\* ... and somebody to one with one.
LEMMA OnePaired ==
  ASSUME NEW p, Cardinality(Paired(p)) = 1
  PROVE  Paired(p) # {}
BY FS_EmptySet

\* The opponent in a match of two.
LEMMA Opponent ==
  ASSUME NEW p \in Pos, Full(p)
  PROVE  /\ Paired(p) # {}
         /\ \A e : Other(p, e) \in Paired(p) /\ Other(p, e) # e
<1>. DEFINE a == match[p].slot["A"]
            b == match[p].slot["B"]
<1>1. a \in Paired(p) /\ b \in Paired(p) /\ a # b
  BY PairedIs DEF Full
<1>2. \A e : \E x \in Paired(p) : x # e
  BY <1>1, Zenon
<1>. QED
  BY <1>1, <1>2 DEF Other

LEMMA PairedAreEntrants ==
  ASSUME Typing, NEW p \in Pos
  PROVE  Paired(p) \subseteq Entrants
BY DEF Typing, MatchRows, Paired, MaybeOne

-----------------------------------------------------------------------------
(* How a step moves a pass *)

TickMoves(t) ==
  /\ tick' \in [Ticks -> TickRows]
  /\ \A s \in Ticks \ {t} : tick'[s] = tick[s]

LEMMA GotoMoves ==
  ASSUME Typing, NEW t \in Ticks, NEW label \in Labels, Goto(t, label)
  PROVE  /\ TickMoves(t) /\ tick'[t].at = label
         /\ tick'[t].r = tick[t].r /\ tick'[t].todo = tick[t].todo
         /\ tick'[t].p = tick[t].p /\ tick'[t].w = tick[t].w
BY DEF Typing, TickRows, Goto, TickMoves

LEMMA StopMoves ==
  ASSUME Typing, NEW t \in Ticks, Stop(t)
  PROVE  TickMoves(t) /\ tick'[t].at = "idle" /\ TickHolds(t)'
<1>1. Idle \in TickRows /\ Idle.at = "idle"
  BY Sizes DEF Idle, TickRows, Labels, MaybeOne
<1>2. TickMoves(t) /\ tick'[t].at = "idle"
  BY <1>1 DEF Typing, Stop, TickMoves
<1>. QED
  BY <1>2 DEF TickHolds

LEMMA BackMoves ==
  ASSUME Typing, NEW t \in Ticks, NEW label \in Labels, Back(t, label)
  PROVE  TickMoves(t) /\ tick'[t].at = label /\ tick'[t].todo = tick[t].todo
<1>1. Idle.p \in Pos \cup {<<0, 0>>} /\ NoOne \in MaybeOne
  BY DEF Idle, MaybeOne
<1>. QED
  BY <1>1 DEF Typing, TickRows, Back, TickMoves

\* What a pass counts on stays true while others move.
LEMMA TickStays ==
  ASSUME Typing, RowsGrow, NEW t \in Ticks, TickHolds(t), tick'[t] = tick[t]
  PROVE  TickHolds(t)'
<1>1. tick[t].todo \subseteq Pos
  BY DEF Typing, TickRows
<1>2. \A p \in tick[t].todo : (Full(p) => Full(p)') /\ (Written(p) => Written(p)')
  BY <1>1, GrowingKeeps DEF RowsGrow
<1>3. tick[t].p \in Pos => /\ Full(tick[t].p) => Full(tick[t].p)'
                           /\ Written(tick[t].p) => \A e \in Paired(tick[t].p) : e \in Paired(tick[t].p)'
  BY GrowingKeeps
<1>4. /\ Drawn => Drawn'
      /\ \A w : WonBy(Final, w) => WonBy(Final, w)'
      /\ Decided(Final) => Decided(Final)'
  BY GrowingKeeps, FinalIsAPosition DEF RowsGrow
<1>5. tick[t].at \in {"room", "walkover"} => tick[t].p \in Pos /\ Full(tick[t].p)'
  BY <1>3 DEF TickHolds
<1>6. tick[t].at = "walkover" => tick[t].w \in Paired(tick[t].p)'
  BY <1>3 DEF TickHolds, Full
<1>7. tick[t].at = "move" =>
        tick[t].r < Rounds /\ \A p \in Pos : RoundOf(p) = tick[t].r => Decided(p)'
  BY DEF TickHolds, RowsGrow
<1>. QED
  BY <1>2, <1>4, <1>5, <1>6, <1>7 DEF TickHolds

LEMMA TicksMove ==
  ASSUME Typing, RowsGrow, \A s \in Ticks : TickHolds(s),
         NEW t \in Ticks, TickMoves(t), TickHolds(t)'
  PROVE  \A s \in Ticks : TickHolds(s)'
BY TickStays DEF TickMoves

LEMMA TicksStay ==
  ASSUME Typing, RowsGrow, \A s \in Ticks : TickHolds(s), tick' = tick
  PROVE  \A s \in Ticks : TickHolds(s)'
BY TickStays

-----------------------------------------------------------------------------
(* How the rest of the invariant stays *)

LEMMA CallStays ==
  ASSUME Typing, RowsGrow, NEW c \in calls, CallHolds(c)
  PROVE  CallHolds(c)'
<1>1. c.p \in Pos
  BY DEF Typing, CallRows
<1>. QED
  BY <1>1, GrowingKeeps DEF CallHolds, RowsGrow

LEMMA TakeoverStays ==
  ASSUME Typing, RowsGrow, NEW s \in takeovers, TakeoverHolds(s)
  PROVE  TakeoverHolds(s)'
<1>1. s.p \in Pos /\ s.e # NoOne
  BY RosterAssumption DEF Typing, TakeoverRows, Humans
<1>2. Full(s.p)' /\ Written(s.p)
  BY <1>1, GrowingKeeps DEF TakeoverHolds, Full
<1>. QED
  BY <1>1, <1>2 DEF TakeoverHolds, RowsGrow

LEMMA RoomStays ==
  ASSUME NEW p \in Pos, RoomHolds(p), match'[p] = match[p], room'[p] = room[p], hook'[p] = hook[p]
  PROVE  RoomHolds(p)'
BY DEF RoomHolds, Full, Written, Paired, StandIns

LEMMA SlotsStay ==
  ASSUME SlotsFed, RowsGrow,
         \A p \in Pos : HasNext(p) =>
           match'[NextPos(p)].slot[NextSide(p)] \in {NoOne, match[NextPos(p)].slot[NextSide(p)]}
  PROVE  SlotsFed'
BY GrowingKeeps DEF SlotsFed

LEMMA TourStays ==
  ASSUME TourHolds, RowsGrow, UNCHANGED <<tstat, cur, champion>>,
         \A e \in Entrants : reg'[e].status = "winner" => reg[e].status = "winner" \/ WonBy(Final, e)
  PROVE  TourHolds'
<1>1. /\ Drawn => Drawn'
      /\ \A w : WonBy(Final, w) => WonBy(Final, w)'
      /\ Decided(Final) => Decided(Final)'
  BY GrowingKeeps, FinalIsAPosition DEF RowsGrow
<1>2. RoundsInOrder'
  BY DEF TourHolds, RoundsInOrder, RowsGrow
<1>. QED
  BY <1>1, <1>2 DEF TourHolds

\* A pass moves and touches nothing but itself and the registrations.
LEMMA TickAlone ==
  ASSUME IInv, UNCHANGED <<tstat, cur, champion, match, room, hook, calls, takeovers, crashes>>,
         reg' \in [Entrants -> RegRows],
         \A e \in Entrants : reg'[e].status = "winner" => reg[e].status = "winner" \/ WonBy(Final, e),
         NEW t \in Ticks, TickMoves(t), TickHolds(t)'
  PROVE  IInv' /\ RowsGrow
<1>1. RowsGrow
  BY RowsSame
<1>2. Typing'
  BY DEF IInv, Typing, TickMoves
<1>3. \A s \in Ticks : TickHolds(s)'
  BY <1>1, TicksMove DEF IInv
<1>4. (\A c \in calls' : CallHolds(c)') /\ \A s \in takeovers' : TakeoverHolds(s)'
  BY <1>1, CallStays, TakeoverStays DEF IInv
<1>5. \A p \in Pos : RoomHolds(p)'
  BY RoomStays DEF IInv
<1>6. SlotsFed'
  BY <1>1, SlotsStay DEF IInv
<1>7. TourHolds'
  BY <1>1, TourStays DEF IInv
<1>. QED
  BY <1>1, <1>2, <1>3, <1>4, <1>5, <1>6, <1>7 DEF IInv

LEMMA TickOnly ==
  ASSUME IInv, UNCHANGED <<tstat, cur, champion, reg, match, room, hook, calls, takeovers, crashes>>,
         NEW t \in Ticks, TickMoves(t), TickHolds(t)'
  PROVE  IInv' /\ RowsGrow
BY TickAlone DEF IInv, Typing

\* The labels a pass may stand at with nothing to remember.
FreeLabels == {"field", "cancel", "seeds", "matches", "release", "load", "progress", "gaps"}

LEMMA FreeMoves ==
  ASSUME Typing, NEW t \in Ticks, NEW label \in FreeLabels, Goto(t, label)
  PROVE  TickMoves(t) /\ TickHolds(t)'
<1>1. label \in Labels
  BY DEF FreeLabels, Labels
<1>2. TickMoves(t) /\ tick'[t].at = label
  BY <1>1, GotoMoves
<1>. QED
  BY <1>2 DEF TickHolds, FreeLabels

-----------------------------------------------------------------------------
(* The passes, where they only read *)

LEMMA FreeSteps ==
  ASSUME IInv, NEW t \in Ticks,
         SeedStart(t) \/ ReadField(t) \/ StartProgress(t) \/ GapsDone(t) \/ OpenDone(t) \/ SweepDone(t)
  PROVE  IInv' /\ RowsGrow
<1>1. UNCHANGED <<tstat, cur, champion, reg, match, room, hook, calls, takeovers, crashes>>
  BY DEF SeedStart, ReadField, StartProgress, GapsDone, OpenDone, SweepDone, tourVars, roomVars
<1>2. Stop(t) \/ \E label \in FreeLabels : Goto(t, label)
  BY DEF SeedStart, ReadField, StartProgress, GapsDone, OpenDone, SweepDone, FreeLabels
<1>3. TickMoves(t) /\ TickHolds(t)'
  BY <1>2, FreeMoves, StopMoves DEF IInv
<1>. QED
  BY <1>1, <1>3, TickOnly

LEMMA LoadOpenableKeeps ==
  ASSUME IInv, NEW t \in Ticks, LoadOpenable(t)
  PROVE  IInv' /\ RowsGrow
<1>1. TickMoves(t) /\ tick'[t].at = "opening" /\ tick'[t].todo = Openable
  BY DEF IInv, Typing, TickRows, Labels, LoadOpenable, TickMoves, Openable
<1>2. \A p \in Openable : p \in Pos /\ Full(p)
  BY TwoPaired DEF Openable, Written
<1>3. UNCHANGED <<tstat, cur, champion, reg, match, room, hook, calls, takeovers, crashes>>
  BY DEF LoadOpenable, tourVars, roomVars
<1>4. TickHolds(t)'
  BY <1>1, <1>2, <1>3 DEF TickHolds, Full, Written
<1>. QED
  BY <1>1, <1>3, <1>4, TickOnly

LEMMA ReadRoundKeeps ==
  ASSUME IInv, NEW t \in Ticks, ReadRound(t)
  PROVE  IInv' /\ RowsGrow
<1>1. UNCHANGED <<tstat, cur, champion, reg, match, room, hook, calls, takeovers, crashes>>
  BY DEF ReadRound, tourVars, roomVars
<1>2. CASE tstat = "running"
  <2>1. TickMoves(t) /\ tick'[t].at = "count"
    BY <1>2 DEF IInv, Typing, TickRows, Labels, ReadRound, TickMoves
  <2>2. Drawn'
    BY <1>1, <1>2 DEF IInv, TourHolds, Drawn, Written
  <2>3. TickHolds(t)'
    BY <2>1, <2>2 DEF TickHolds
  <2>. QED
    BY <1>1, <2>1, <2>3, TickOnly
<1>3. CASE tstat # "running"
  BY <1>1, <1>3, StopMoves, TickOnly DEF ReadRound, IInv
<1>. QED
  BY <1>2, <1>3

LEMMA CountRoundKeeps ==
  ASSUME IInv, NEW t \in Ticks, CountRound(t)
  PROVE  IInv' /\ RowsGrow
<1>1. UNCHANGED <<tstat, cur, champion, reg, match, room, hook, calls, takeovers, crashes>>
  BY DEF CountRound, tourVars, roomVars
<1>2. CASE Unfinished(tick[t].r) # {}
  BY <1>1, <1>2, FreeMoves, TickOnly DEF CountRound, IInv, FreeLabels
<1>3. CASE Unfinished(tick[t].r) = {}
  <2>1. Drawn
    BY DEF IInv, TickHolds, CountRound, At
  <2>2. \A p \in Pos : RoundOf(p) = tick[t].r => Decided(p)
    BY <1>3, <2>1 DEF Unfinished, Drawn, Written
  <2>3. tick[t].r \in 0..Rounds /\ Rounds \in Nat
    BY Sizes DEF IInv, Typing, TickRows
  <2>4. CASE tick[t].r >= Rounds
    <3>1. Goto(t, "crown") /\ "crown" \in Labels
      BY <1>3, <2>4 DEF CountRound, Labels
    <3>2. TickMoves(t) /\ tick'[t].at = "crown"
      BY <3>1, GotoMoves DEF IInv
    <3>3. Decided(Final)
      BY <2>2, <2>3, <2>4, FinalIsAPosition DEF RoundOf, Final
    <3>4. TickHolds(t)'
      BY <1>1, <3>2, <3>3 DEF TickHolds, Decided
    <3>. QED
      BY <1>1, <3>2, <3>4, TickOnly
  <2>5. CASE tick[t].r < Rounds
    <3>1. Goto(t, "move") /\ "move" \in Labels
      BY <1>3, <2>3, <2>5 DEF CountRound, Labels
    <3>2. TickMoves(t) /\ tick'[t].at = "move" /\ tick'[t].r = tick[t].r
      BY <3>1, GotoMoves DEF IInv
    <3>3. TickHolds(t)'
      BY <1>1, <2>1, <2>2, <2>5, <3>2 DEF TickHolds, Decided, Drawn, Written
    <3>. QED
      BY <1>1, <3>2, <3>3, TickOnly
  <2>. QED
    BY <2>3, <2>4, <2>5
<1>. QED
  BY <1>2, <1>3

LEMMA LoadGapsKeeps ==
  ASSUME IInv, NEW t \in Ticks, LoadGaps(t)
  PROVE  IInv' /\ RowsGrow
<1>1. UNCHANGED <<tstat, cur, champion, reg, match, room, hook, calls, takeovers, crashes>>
  BY DEF LoadGaps, tourVars, roomVars
<1>2. Lopsided(tick[t].r + 1) \subseteq Pos /\ \A p \in Lopsided(tick[t].r + 1) : Written(p)
  BY DEF Lopsided, Written
<1>3. TickMoves(t) /\ tick'[t].at = "gap" /\ tick'[t].todo = Lopsided(tick[t].r + 1)
  BY <1>2 DEF IInv, Typing, TickRows, Labels, LoadGaps, TickMoves
<1>4. TickHolds(t)'
  BY <1>1, <1>2, <1>3 DEF TickHolds, Written
<1>. QED
  BY <1>1, <1>3, <1>4, TickOnly

LEMMA StartSweepKeeps ==
  ASSUME IInv, NEW t \in Ticks, NEW S \in SUBSET Booked, StartSweep(t, S)
  PROVE  IInv' /\ RowsGrow
<1>1. UNCHANGED <<tstat, cur, champion, reg, match, room, hook, calls, takeovers, crashes>>
  BY DEF StartSweep, tourVars, roomVars
<1>2. S \subseteq Pos /\ \A p \in S : Full(p)
  BY DEF Booked, IInv, RoomHolds
<1>3. TickMoves(t) /\ tick'[t].at = "sweep" /\ tick'[t].todo = S
  BY <1>2 DEF IInv, Typing, TickRows, Labels, StartSweep, TickMoves
<1>4. TickHolds(t)'
  BY <1>1, <1>2, <1>3 DEF TickHolds, Full, Written
<1>. QED
  BY <1>1, <1>3, <1>4, TickOnly

-----------------------------------------------------------------------------
(* The passes, where they write registrations or the tournament *)

LEMMA WriteSeedsKeeps ==
  ASSUME IInv, NEW t \in Ticks, WriteSeeds(t)
  PROVE  IInv' /\ RowsGrow
<1>1. UNCHANGED <<tstat, cur, champion, match, room, hook, calls, takeovers, crashes>>
  BY DEF WriteSeeds, tourVars, roomVars
<1>2. TickMoves(t) /\ TickHolds(t)'
  BY FreeMoves DEF WriteSeeds, IInv, FreeLabels
<1>3. [status |-> "active", seeded |-> TRUE] \in RegRows
  BY DEF RegRows
<1>4. /\ reg' \in [Entrants -> RegRows]
      /\ \A e \in Entrants : reg'[e].status = "winner" => reg[e].status = "winner"
  BY <1>3 DEF WriteSeeds, IInv, Typing
<1>. QED
  BY <1>1, <1>2, <1>4, TickAlone

LEMMA ReleaseKeeps ==
  ASSUME IInv, NEW t \in Ticks, Release(t)
  PROVE  IInv' /\ RowsGrow
<1>1. UNCHANGED <<tstat, cur, champion, match, room, hook, calls, takeovers, crashes>>
  BY DEF Release, tourVars, roomVars
<1>2. TickMoves(t) /\ TickHolds(t)'
  BY StopMoves DEF Release, IInv
<1>3. /\ reg' \in [Entrants -> RegRows]
      /\ \A e \in Entrants : reg'[e].status = "winner" => reg[e].status = "winner"
  BY DEF Release, IInv, Typing, RegRows
<1>. QED
  BY <1>1, <1>2, <1>3, TickAlone

LEMMA DismissKeeps ==
  ASSUME IInv, NEW t \in Ticks, Dismiss(t)
  PROVE  IInv' /\ RowsGrow
<1>1. UNCHANGED <<tstat, cur, champion, match, room, hook, calls, takeovers, crashes>>
  BY DEF Dismiss, tourVars, roomVars
<1>2. /\ TickMoves(t) /\ tick'[t].at = "sweep" /\ tick'[t].todo = tick[t].todo
      /\ tick[t].at = "dismiss"
  BY BackMoves DEF Dismiss, IInv, Labels, At
<1>3. TickHolds(t)'
  BY <1>1, <1>2 DEF IInv, TickHolds, Full, Written
<1>4. /\ reg' \in [Entrants -> RegRows]
      /\ \A e \in Entrants : reg'[e].status = "winner" => reg[e].status = "winner"
  BY DEF Dismiss, IInv, Typing, RegRows
<1>. QED
  BY <1>1, <1>2, <1>3, <1>4, TickAlone

\* The winner's row is marked by a pass that has the final's result.
LEMMA CrownKeeps ==
  ASSUME IInv, NEW t \in Ticks, Crown(t)
  PROVE  IInv' /\ RowsGrow
<1>. DEFINE w == IF match[Final].status = "completed" THEN match[Final].winner ELSE NoOne
<1>1. UNCHANGED <<tstat, cur, champion, match, room, hook, calls, takeovers, crashes>>
  BY DEF Crown, tourVars, roomVars
<1>2. w \in MaybeOne /\ (w # NoOne => WonBy(Final, w))
  BY FinalIsAPosition DEF IInv, Typing, MatchRows, MaybeOne, WonBy
<1>3. tick' = [tick EXCEPT ![t].at = "finish", ![t].w = w] /\ tick[t].at = "crown"
  BY DEF Crown, At
<1>4. reg' = IF w = NoOne THEN reg ELSE [reg EXCEPT ![w].status = "winner"]
  BY DEF Crown
<1>. HIDE DEF w
<1>5. TickMoves(t) /\ tick'[t].at = "finish" /\ tick'[t].w = w
  BY <1>2, <1>3 DEF IInv, Typing, TickRows, Labels, TickMoves
<1>6. TickHolds(t)'
  BY <1>1, <1>2, <1>3, <1>5 DEF IInv, TickHolds, WonBy, Decided
<1>7. /\ reg' \in [Entrants -> RegRows]
      /\ \A e \in Entrants : reg'[e].status = "winner" => reg[e].status = "winner" \/ (e = w /\ w # NoOne)
  BY <1>4 DEF IInv, Typing, RegRows
<1>. QED
  BY <1>1, <1>2, <1>5, <1>6, <1>7, TickAlone

\* A pass moves the tournament on.
LEMMA TourMoves ==
  ASSUME IInv, UNCHANGED <<reg, match, room, hook, calls, takeovers, crashes>>,
         tstat' \in {"sealed", "running", "completed", "cancelled"},
         cur' \in 0..Rounds, champion' \in MaybeOne, TourHolds',
         NEW t \in Ticks, TickMoves(t), TickHolds(t)'
  PROVE  IInv' /\ RowsGrow
<1>1. RowsGrow
  BY RowsSame
<1>2. Typing'
  BY DEF IInv, Typing, TickMoves
<1>3. \A s \in Ticks : TickHolds(s)'
  BY <1>1, TicksMove DEF IInv
<1>4. (\A c \in calls' : CallHolds(c)') /\ \A s \in takeovers' : TakeoverHolds(s)'
  BY <1>1, CallStays, TakeoverStays DEF IInv
<1>5. \A p \in Pos : RoomHolds(p)'
  BY RoomStays DEF IInv
<1>6. SlotsFed'
  BY <1>1, SlotsStay DEF IInv
<1>. QED
  BY <1>1, <1>2, <1>3, <1>4, <1>5, <1>6 DEF IInv

LEMMA StartRunningKeeps ==
  ASSUME IInv, NEW t \in Ticks, StartRunning(t)
  PROVE  IInv' /\ RowsGrow
<1>1. UNCHANGED <<champion, reg, match, room, hook, calls, takeovers, crashes>>
  BY DEF StartRunning, roomVars
<1>2. CASE tstat = "sealed"
  <2>1. TickMoves(t) /\ TickHolds(t)'
    BY <1>2, FreeMoves DEF StartRunning, IInv, FreeLabels
  <2>2. tstat' = "running" /\ cur' = 1 /\ 1 \in 0..Rounds
    BY <1>2, Sizes DEF StartRunning
  <2>3. Drawn
    BY DEF StartRunning, At, IInv, TickHolds
  <2>4. RoundsInOrder'
    BY <2>2, Positions, Sizes DEF RoundsInOrder, RoundOf
  <2>5. TourHolds'
    BY <1>1, <2>2, <2>3, <2>4 DEF IInv, TourHolds, Drawn, Written, WonBy
  <2>. QED
    BY <1>1, <2>1, <2>2, <2>5, TourMoves DEF IInv, Typing
<1>3. CASE tstat # "sealed"
  <2>1. TickMoves(t) /\ TickHolds(t)' /\ UNCHANGED <<tstat, cur>>
    BY <1>3, StopMoves DEF StartRunning, IInv
  <2>. QED
    BY <1>1, <2>1, TickOnly
<1>. QED
  BY <1>2, <1>3

LEMMA CancelKeeps ==
  ASSUME IInv, NEW t \in Ticks, Cancel(t)
  PROVE  IInv' /\ RowsGrow
<1>1. UNCHANGED <<cur, champion, reg, match, room, hook, calls, takeovers, crashes>>
  BY DEF Cancel, roomVars
<1>2. CASE tstat \in {"sealed", "running"}
  <2>1. TickMoves(t) /\ TickHolds(t)' /\ tstat' = "cancelled"
    BY <1>2, FreeMoves DEF Cancel, IInv, FreeLabels
  <2>2. TourHolds'
    BY <1>1, <2>1 DEF IInv, TourHolds, RoundsInOrder, Decided, WonBy
  <2>. QED
    BY <1>1, <2>1, <2>2, TourMoves DEF IInv, Typing
<1>3. CASE tstat \notin {"sealed", "running"}
  <2>1. TickMoves(t) /\ TickHolds(t)' /\ UNCHANGED tstat
    BY <1>3, StopMoves DEF Cancel, IInv
  <2>. QED
    BY <1>1, <2>1, TickOnly
<1>. QED
  BY <1>2, <1>3

\* The marker moves past a round whose matches are all decided.
LEMMA MoveRoundKeeps ==
  ASSUME IInv, NEW t \in Ticks, MoveRound(t)
  PROVE  IInv' /\ RowsGrow
<1>1. UNCHANGED <<tstat, champion, reg, match, room, hook, calls, takeovers, crashes>>
  BY DEF MoveRound, roomVars
<1>2. CASE tstat = "running" /\ cur = tick[t].r
  <2>1. TickMoves(t) /\ TickHolds(t)' /\ cur' = cur + 1
    BY <1>2, FreeMoves DEF MoveRound, IInv, FreeLabels
  <2>2. cur < Rounds /\ \A p \in Pos : RoundOf(p) = cur => Decided(p)
    BY <1>2 DEF MoveRound, At, IInv, TickHolds
  <2>3. cur \in 0..Rounds /\ Rounds \in Nat /\ cur' \in 0..Rounds
    BY <2>1, <2>2, Sizes DEF IInv, Typing
  <2>4. \A p \in Pos : RoundOf(p) \in Nat
    BY Positions, Sizes DEF RoundOf
  <2>5. RoundsInOrder'
    BY <1>1, <2>1, <2>2, <2>3, <2>4 DEF IInv, TourHolds, RoundsInOrder, Decided
  <2>6. TourHolds'
    BY <1>1, <2>5 DEF IInv, TourHolds, Drawn, Written, Decided, WonBy
  <2>. QED
    BY <1>1, <2>1, <2>3, <2>6, TourMoves DEF IInv, Typing
<1>3. CASE ~(tstat = "running" /\ cur = tick[t].r)
  <2>1. TickMoves(t) /\ TickHolds(t)' /\ UNCHANGED cur
    BY <1>3, StopMoves DEF MoveRound, IInv
  <2>. QED
    BY <1>1, <2>1, TickOnly
<1>. QED
  BY <1>2, <1>3

LEMMA FinishKeeps ==
  ASSUME IInv, NEW t \in Ticks, Finish(t)
  PROVE  IInv' /\ RowsGrow
<1>1. UNCHANGED <<cur, reg, match, room, hook, calls, takeovers, crashes>>
  BY DEF Finish, roomVars
<1>2. TickMoves(t) /\ TickHolds(t)'
  BY StopMoves DEF Finish, IInv
<1>3. CASE tstat = "running"
  <2>1. /\ tstat' = "completed" /\ champion' = tick[t].w
        /\ Decided(Final) /\ (tick[t].w # NoOne => WonBy(Final, tick[t].w))
    BY <1>3 DEF Finish, At, IInv, TickHolds
  <2>2. TourHolds'
    BY <1>1, <1>3, <2>1 DEF IInv, TourHolds, RoundsInOrder, Drawn, Written, Decided, WonBy
  <2>. QED
    BY <1>1, <1>2, <2>1, <2>2, TourMoves DEF IInv, Typing, TickRows
<1>4. CASE tstat # "running"
  BY <1>1, <1>2, <1>4, TickOnly DEF Finish
<1>. QED
  BY <1>3, <1>4

-----------------------------------------------------------------------------
(* The passes, where they write rows *)

LEMMA RowsMove ==
  ASSUME IInv, UNCHANGED <<tstat, cur, champion, reg, room, hook, calls, takeovers, crashes>>,
         match' \in [Pos -> MatchRows], RowsGrow, \A p \in Pos : RoomHolds(p)', SlotsFed',
         NEW t \in Ticks, TickMoves(t), TickHolds(t)'
  PROVE  IInv' /\ RowsGrow
<1>1. Typing'
  BY DEF IInv, Typing, TickMoves
<1>2. \A s \in Ticks : TickHolds(s)'
  BY TicksMove DEF IInv
<1>3. (\A c \in calls' : CallHolds(c)') /\ \A s \in takeovers' : TakeoverHolds(s)'
  BY CallStays, TakeoverStays DEF IInv
<1>4. TourHolds'
  BY TourStays DEF IInv
<1>. QED
  BY <1>1, <1>2, <1>3, <1>4 DEF IInv

LEMMA PlannedTyped ==
  ASSUME NEW p \in Pos
  PROVE  /\ Planned(p) \in MatchRows /\ Planned(p).status = "pending"
         /\ p[1] # 1 => \A s \in Sides : Planned(p).slot[s] = NoOne
<1>1. p[2] \in 1..(Size \div 2) /\ p[2] \in Nat \ {0} /\ Size + 1 - p[2] \in Nat \ {0}
  BY Positions, Sizes
<1>2. \A i \in Nat \ {0} : SeedAt(i) \in MaybeOne
  BY SeedingAssumption DEF SeedAt, MaybeOne, Entrants
<1>. DEFINE slots == IF p[1] = 1 THEN [A |-> SeedAt(p[2]), B |-> SeedAt(Size + 1 - p[2])]
                     ELSE [A |-> NoOne, B |-> NoOne]
<1>3. slots \in [Sides -> MaybeOne] /\ (p[1] # 1 => \A s \in Sides : slots[s] = NoOne)
  BY <1>1, <1>2 DEF Sides, MaybeOne
<1>4. Planned(p) = [status |-> "pending", winner |-> NoOne, outcome |-> "none",
                    booked |-> FALSE, forfeit |-> NoOne, slot |-> slots]
  BY DEF Planned
<1>. HIDE DEF slots
<1>. QED
  BY <1>3, <1>4 DEF MatchRows, Statuses, Outcomes, MaybeOne

LEMMA WriteMatchesKeeps ==
  ASSUME IInv, NEW t \in Ticks, WriteMatches(t)
  PROVE  IInv' /\ RowsGrow
<1>1. UNCHANGED <<tstat, cur, champion, reg, room, hook, calls, takeovers, crashes>>
  BY DEF WriteMatches, tourVars, roomVars
<1>2. match' = [p \in Pos |-> IF match[p].status = "absent" THEN Planned(p) ELSE match[p]]
  BY DEF WriteMatches
<1>3. /\ match' \in [Pos -> MatchRows]
      /\ \A p \in Pos : IF match[p].status = "absent" THEN match'[p] = Planned(p)
                        ELSE match'[p] = match[p]
  BY <1>2, PlannedTyped DEF IInv, Typing
<1>4. RowsGrow
  BY <1>3 DEF RowsGrow, Written, Decided
<1>5. ASSUME NEW p \in Pos PROVE RoomHolds(p)'
  <2>1. CASE match[p].status = "absent"
    <3>1. match'[p].status = "pending"
      BY <1>3, <2>1, PlannedTyped
    <3>2. RoomHolds(p) /\ ~Full(p)
      BY <2>1 DEF IInv, Full, Written
    <3>3. StandIns(p)' = {}
      BY <1>1, <3>2, NoRoomIs DEF RoomHolds, StandIns
    <3>. QED
      BY <1>1, <2>1, <3>1, <3>2, <3>3 DEF RoomHolds
  <2>2. CASE match[p].status # "absent"
    BY <1>1, <1>3, <2>2, RoomStays DEF IInv
  <2>. QED
    BY <2>1, <2>2
<1>6. ASSUME NEW p \in Pos, HasNext(p)
      PROVE  match'[NextPos(p)].slot[NextSide(p)] \in {NoOne, match[NextPos(p)].slot[NextSide(p)]}
  <2>1. NextPos(p) \in Pos /\ NextSide(p) \in Sides /\ NextPos(p)[1] # 1
    BY <1>6, NextIsAPosition, Positions, Sizes DEF RoundOf
  <2>. QED
    BY <1>3, <2>1, PlannedTyped
<1>7. SlotsFed'
  BY <1>4, <1>6, SlotsStay DEF IInv
<1>8. TickMoves(t) /\ tick'[t].at = "byes"
  BY GotoMoves DEF WriteMatches, IInv, Labels
<1>9. TickHolds(t)'
  BY <1>3, <1>8, PlannedTyped DEF TickHolds, Drawn, Written
<1>. QED
  BY <1>1, <1>3, <1>4, <1>5, <1>7, <1>8, <1>9, RowsMove

LEMMA CancelledTyped ==
  ASSUME NEW row \in MatchRows, NEW new, new = [row EXCEPT !.status = "cancelled"]
  PROVE  /\ new \in MatchRows /\ new.slot = row.slot /\ new.forfeit = row.forfeit
         /\ new.status = "cancelled"
BY DEF MatchRows, Statuses

LEMMA WonTyped ==
  ASSUME NEW p \in Pos, match[p] \in MatchRows, NEW w \in MaybeOne, NEW out \in Outcomes
  PROVE  /\ Won(p, w, out) \in MatchRows /\ Won(p, w, out).slot = match[p].slot
         /\ Won(p, w, out).forfeit = match[p].forfeit
         /\ Won(p, w, out).status = "completed" /\ Won(p, w, out).winner = w
BY DEF MatchRows, Statuses, Won

LEMMA ResolveByesKeeps ==
  ASSUME IInv, NEW t \in Ticks, ResolveByes(t)
  PROVE  IInv' /\ RowsGrow
<1>1. UNCHANGED <<tstat, cur, champion, reg, room, hook, calls, takeovers, crashes>>
  BY DEF ResolveByes, tourVars, roomVars
<1>2. ASSUME NEW p \in Pos
      PROVE  \/ match'[p] = match[p]
             \/ /\ match[p].status = "pending"
                /\ \E e \in Paired(p) : match'[p] = Won(p, e, "bye")
             \/ /\ match[p].status = "pending"
                /\ match'[p] = [match[p] EXCEPT !.status = "cancelled"]
  <2>1. CASE p \in Lopsided(1)
    <3>1. (CHOOSE e \in Paired(p) : TRUE) \in Paired(p)
      BY <2>1, OnePaired DEF Lopsided
    <3>. QED
      BY <2>1, <3>1 DEF ResolveByes, Lopsided
  <2>2. CASE p \notin Lopsided(1)
    BY <2>2 DEF ResolveByes
  <2>. QED
    BY <2>1, <2>2
<1>3. ASSUME NEW p \in Pos
      PROVE  /\ match'[p] \in MatchRows /\ match'[p].slot = match[p].slot
             /\ match'[p].forfeit = match[p].forfeit
             /\ \/ match'[p] = match[p]
                \/ /\ match[p].status = "pending"
                   /\ match'[p].status \in {"completed", "cancelled"}
                   /\ match'[p].status = "completed" => match'[p].winner \in Paired(p)
  <2>1. match[p] \in MatchRows /\ Paired(p) \subseteq MaybeOne
    BY PairedAreEntrants DEF IInv, Typing, MaybeOne
  <2>2. CASE match'[p] = match[p]
    BY <2>1, <2>2
  <2>3. ASSUME NEW e \in Paired(p), match'[p] = Won(p, e, "bye")
        PROVE  /\ match'[p] \in MatchRows /\ match'[p].slot = match[p].slot
               /\ match'[p].forfeit = match[p].forfeit
               /\ match'[p].status = "completed" /\ match'[p].winner = e
    BY <2>1, <2>3, WonTyped DEF Outcomes
  <2>4. ASSUME match'[p] = [match[p] EXCEPT !.status = "cancelled"]
        PROVE  /\ match'[p] \in MatchRows /\ match'[p].slot = match[p].slot
               /\ match'[p].forfeit = match[p].forfeit
               /\ match'[p].status = "cancelled"
    BY <2>1, <2>4, CancelledTyped
  <2>. QED
    BY <1>2, <2>1, <2>2, <2>3, <2>4
<1>4. match' \in [Pos -> MatchRows]
  <2>1. DOMAIN match' = Pos /\ match' = [p \in Pos |-> match'[p]]
    BY DEF ResolveByes
  <2>. QED
    BY <1>3, <2>1
<1>5. RowsGrow
  BY <1>3 DEF RowsGrow, Written, Decided
<1>6. ASSUME NEW p \in Pos PROVE RoomHolds(p)'
  <2>1. CASE match'[p] = match[p]
    BY <1>1, <2>1, RoomStays DEF IInv
  <2>2. CASE match'[p] # match[p]
    <3>1. Paired(p)' = Paired(p) /\ (Full(p) => Full(p)')
      BY <1>3, <1>5, GrowingKeeps DEF Paired
    <3>2. StandIns(p)' = StandIns(p)
      BY <1>1 DEF StandIns
    <3>. QED
      BY <1>1, <1>3, <2>2, <3>1, <3>2 DEF IInv, RoomHolds
  <2>. QED
    BY <2>1, <2>2
<1>7. SlotsFed'
  BY <1>3, <1>5, SlotsStay, NextIsAPosition DEF IInv
<1>8. TickMoves(t) /\ tick'[t].at = "run"
  BY GotoMoves DEF ResolveByes, IInv, Labels
<1>9. TickHolds(t)'
  <2>1. Drawn
    BY DEF ResolveByes, At, IInv, TickHolds
  <2>2. Drawn'
    BY <1>5, <2>1 DEF RowsGrow, Drawn
  <2>. QED
    BY <1>8, <2>2 DEF TickHolds
<1>. QED
  BY <1>1, <1>4, <1>5, <1>6, <1>7, <1>8, <1>9, RowsMove

\* The claim of a match: two players wait for a room.
LEMMA ClaimOpenKeeps ==
  ASSUME IInv, NEW t \in Ticks, ClaimOpen(t)
  PROVE  IInv' /\ RowsGrow
<1>0. PICK p : p = FirstOf(tick[t].todo)
  OBVIOUS
<1>1. tick[t].at = "opening" /\ tick[t].todo \subseteq Pos /\ tick[t].todo # {}
  BY DEF ClaimOpen, At, IInv, Typing, TickRows
<1>2. p \in tick[t].todo /\ p \in Pos /\ (\A q \in tick[t].todo : Full(q))
  BY <1>0, <1>1, FirstIsOne DEF IInv, TickHolds
<1>3. UNCHANGED <<tstat, cur, champion, reg, room, hook, calls, takeovers, crashes>>
  BY DEF ClaimOpen, tourVars, roomVars
<1>4. CASE match[p].status = "pending"
  <2>1. /\ match' = [match EXCEPT ![p].status = "ready"]
        /\ tick' = [tick EXCEPT ![t].at = "room", ![t].p = p, ![t].todo = @ \ {p}]
    BY <1>0, <1>4 DEF ClaimOpen
  <2>2. /\ match' \in [Pos -> MatchRows] /\ match'[p].status = "ready"
        /\ \A q \in Pos : /\ match'[q].slot = match[q].slot
                          /\ match'[q].forfeit = match[q].forfeit
                          /\ q # p => match'[q] = match[q]
    BY <1>2, <2>1 DEF IInv, Typing, MatchRows, Statuses
  <2>3. RowsGrow
    BY <1>4, <2>2 DEF RowsGrow, Written, Decided
  <2>4. /\ TickMoves(t) /\ tick'[t].at = "room" /\ tick'[t].p = p
        /\ tick'[t].todo \subseteq tick[t].todo
    BY <1>2, <2>1 DEF IInv, Typing, TickRows, Labels, TickMoves
  <2>5. \A q \in tick[t].todo : Full(q)'
    BY <1>1, <1>2, <2>3, GrowingKeeps
  <2>6. TickHolds(t)'
    BY <1>2, <2>4, <2>5 DEF TickHolds
  <2>7. ASSUME NEW q \in Pos PROVE RoomHolds(q)'
    <3>1. CASE q = p
      <4>1. Full(p)' /\ RoomHolds(p) /\ StandIns(p)' = StandIns(p)
        BY <1>2, <1>3, <2>5 DEF IInv, StandIns
      <4>. QED
        BY <1>3, <1>4, <2>2, <3>1, <4>1 DEF RoomHolds
    <3>2. CASE q # p
      BY <1>3, <2>2, <3>2, RoomStays DEF IInv
    <3>. QED
      BY <3>1, <3>2
  <2>8. SlotsFed'
    BY <2>2, <2>3, SlotsStay, NextIsAPosition DEF IInv
  <2>. QED
    BY <1>3, <2>2, <2>3, <2>4, <2>6, <2>7, <2>8, RowsMove
<1>5. CASE match[p].status # "pending"
  <2>1. tick' = [tick EXCEPT ![t].todo = @ \ {p}] /\ UNCHANGED match
    BY <1>0, <1>5 DEF ClaimOpen
  <2>2. TickMoves(t) /\ tick'[t].at = "opening" /\ tick'[t].todo \subseteq tick[t].todo
    BY <1>1, <2>1 DEF IInv, Typing, TickRows, TickMoves
  <2>3. TickHolds(t)'
    BY <1>2, <2>1, <2>2 DEF TickHolds, Full, Written
  <2>. QED
    BY <1>3, <2>1, <2>2, <2>3, TickOnly
<1>. QED
  BY <1>4, <1>5

LEMMA AbandonKeeps ==
  ASSUME IInv, NEW t \in Ticks, Abandon(t)
  PROVE  IInv' /\ RowsGrow
<1>0. PICK p : p = tick[t].p
  OBVIOUS
<1>1. tick[t].at = "abandon" /\ UNCHANGED <<tstat, cur, champion, reg, room, hook, calls, takeovers, crashes>>
  BY DEF Abandon, At, tourVars, roomVars
<1>2. /\ TickMoves(t) /\ tick'[t].at \in {"dismiss", "sweep"} /\ tick'[t].todo = tick[t].todo
  BY GotoMoves, BackMoves DEF Abandon, IInv, Labels
<1>3. \/ match' = match
      \/ match[p].status = "ready" /\ match' = [match EXCEPT ![p].status = "cancelled"]
  BY <1>0 DEF Abandon
<1>4. /\ match' \in [Pos -> MatchRows]
      /\ \A q \in Pos : /\ match'[q].slot = match[q].slot
                        /\ match'[q].forfeit = match[q].forfeit
                        /\ \/ match'[q] = match[q]
                           \/ match[q].status = "ready" /\ match'[q].status = "cancelled"
  <2>1. CASE match' = match
    BY <2>1 DEF IInv, Typing
  <2>2. CASE match[p].status = "ready" /\ match' = [match EXCEPT ![p].status = "cancelled"]
    BY <2>2 DEF IInv, Typing, MatchRows, Statuses
  <2>. QED
    BY <1>3, <2>1, <2>2
<1>5. RowsGrow
  BY <1>4 DEF RowsGrow, Written, Decided
<1>6. TickHolds(t)'
  <2>1. \A q \in tick[t].todo : q \in Pos /\ Full(q)
    BY <1>1 DEF IInv, TickHolds, Typing, TickRows
  <2>2. \A q \in tick[t].todo : Full(q)'
    BY <1>5, <2>1, GrowingKeeps
  <2>. QED
    BY <1>2, <2>2 DEF TickHolds
<1>7. ASSUME NEW q \in Pos PROVE RoomHolds(q)'
  <2>1. CASE match'[q] = match[q]
    BY <1>1, <2>1, RoomStays DEF IInv
  <2>2. CASE match[q].status = "ready" /\ match'[q].status = "cancelled"
    <3>1. RoomHolds(q) /\ (Full(q) => Full(q)') /\ StandIns(q)' = StandIns(q)
      BY <1>1, <1>5, GrowingKeeps DEF IInv, StandIns
    <3>. QED
      BY <1>1, <1>4, <2>2, <3>1 DEF RoomHolds
  <2>. QED
    BY <1>4, <2>1, <2>2
<1>8. SlotsFed'
  BY <1>4, <1>5, SlotsStay, NextIsAPosition DEF IInv
<1>. QED
  BY <1>1, <1>2, <1>4, <1>5, <1>6, <1>7, <1>8, RowsMove

-----------------------------------------------------------------------------
(* Rooms, hooks and calls *)

LEMMA Assembled ==
  ASSUME IInv, Typing', RowsGrow, UNCHANGED <<tstat, cur, champion>>,
         \A e \in Entrants : reg'[e].status = "winner" => reg[e].status = "winner",
         tick' = tick \/ \E t \in Ticks : TickMoves(t) /\ TickHolds(t)',
         \A c \in calls' : c \in calls \/ CallHolds(c)',
         \A s \in takeovers' : s \in takeovers \/ TakeoverHolds(s)',
         \A p \in Pos : RoomHolds(p)', SlotsFed'
  PROVE  IInv' /\ RowsGrow
<1>1. \A s \in Ticks : TickHolds(s)'
  BY TicksMove, TicksStay DEF IInv
<1>2. (\A c \in calls' : CallHolds(c)') /\ \A s \in takeovers' : TakeoverHolds(s)'
  BY CallStays, TakeoverStays DEF IInv
<1>3. TourHolds'
  BY TourStays DEF IInv
<1>. QED
  BY <1>1, <1>2, <1>3 DEF IInv

\* A call that is made: of one of the two players of a written row.
LEMMA CallMade ==
  ASSUME Typing, NEW by \in {TickOf(t) : t \in Ticks} \cup {HookOf(p) : p \in Pos}, NEW p \in Pos,
         NEW w \in Paired(p), NEW l \in MaybeOne, NEW out \in Outcomes, Written(p), match' = match
  PROVE  Call(by, p, w, l, out) \in CallRows /\ CallHolds(Call(by, p, w, l, out))'
<1>. DEFINE c == Call(by, p, w, l, out)
<1>1. w \in Entrants
  BY PairedAreEntrants
<1>2. c.p = p /\ c.w = w /\ c.at = "claim" /\ c \in CallRows
  BY <1>1 DEF Call, CallRows
<1>3. Paired(p)' = Paired(p) /\ Written(p)'
  BY DEF Paired, Written
<1>. HIDE DEF c
<1>4. CallHolds(c)'
  BY <1>2, <1>3 DEF CallHolds
<1>. QED
  BY <1>2, <1>4 DEF c

LEMMA GapKeeps ==
  ASSUME IInv, NEW t \in Ticks, Gap(t)
  PROVE  IInv' /\ RowsGrow
<1>0. PICK p : p = FirstOf(tick[t].todo)
  OBVIOUS
<1>1. tick[t].at = "gap" /\ tick[t].todo \subseteq Pos /\ tick[t].todo # {}
  BY DEF Gap, At, IInv, Typing, TickRows
<1>2. p \in tick[t].todo /\ p \in Pos /\ (\A q \in tick[t].todo : Written(q))
  BY <1>0, <1>1, FirstIsOne DEF IInv, TickHolds
<1>3. UNCHANGED <<tstat, cur, champion, reg, match, room, hook, takeovers, crashes>>
  BY DEF Gap, tourVars, roomVars
<1>4. /\ tick' = [tick EXCEPT ![t].todo = @ \ {p}]
      /\ \/ calls' = calls
         \/ \E e \in Paired(p) : calls' = calls \cup {Call(TickOf(t), p, e, NoOne, "bye")}
  BY <1>0 DEF Gap
<1>5. TickMoves(t) /\ tick'[t].at = "gap" /\ tick'[t].todo \subseteq tick[t].todo
  BY <1>1, <1>4 DEF IInv, Typing, TickRows, TickMoves
<1>6. TickHolds(t)'
  BY <1>2, <1>3, <1>5 DEF TickHolds, Written
<1>7. \A c \in calls' : c \in calls \/ (c \in CallRows /\ CallHolds(c)')
  <2>1. TickOf(t) \in {TickOf(s) : s \in Ticks} /\ NoOne \in MaybeOne /\ "bye" \in Outcomes
    BY DEF MaybeOne, Outcomes
  <2>2. ASSUME NEW e \in Paired(p)
        PROVE  /\ Call(TickOf(t), p, e, NoOne, "bye") \in CallRows
               /\ CallHolds(Call(TickOf(t), p, e, NoOne, "bye"))'
    BY <1>2, <1>3, <2>1, CallMade DEF IInv
  <2>. QED
    BY <1>4, <2>2
<1>8. Typing'
  BY <1>3, <1>5, <1>7 DEF IInv, Typing, TickMoves
<1>9. RowsGrow /\ SlotsFed' /\ \A q \in Pos : RoomHolds(q)'
  BY <1>3, RowsSame, SlotsStay, RoomStays DEF IInv
<1>. QED
  BY <1>3, <1>5, <1>6, <1>7, <1>8, <1>9, Assembled

\* A room is built and known, or a bot that is gone gives a walkover.
LEMMA OpenRoomKeeps ==
  ASSUME IInv, NEW t \in Ticks, OpenRoom(t)
  PROVE  IInv' /\ RowsGrow
<1>0. PICK p : p = tick[t].p
  OBVIOUS
<1>1. tick[t].at = "room" /\ UNCHANGED <<tstat, cur, champion, reg, takeovers, crashes>>
  BY DEF OpenRoom, At, tourVars
<1>2. p \in Pos /\ Full(p) /\ Written(p) /\ \A q \in tick[t].todo : q \in Pos /\ Full(q)
  BY <1>0, <1>1 DEF IInv, TickHolds, Typing, TickRows, Full
<1>3. TickMoves(t) /\ tick'[t].at = "opening" /\ tick'[t].todo = tick[t].todo
  BY BackMoves DEF OpenRoom, IInv, Labels
<1>4. ASSUME NEW l \in Paired(p) \cap Retired,
             calls' = calls \cup {Call(TickOf(t), p, Other(p, l), l, "walkover")},
             UNCHANGED <<match, room, hook>>
      PROVE  IInv' /\ RowsGrow
  <2>1. Other(p, l) \in Paired(p) /\ l \in MaybeOne /\ "walkover" \in Outcomes
        /\ TickOf(t) \in {TickOf(s) : s \in Ticks}
    BY <1>2, <1>4, Opponent, RosterAssumption DEF MaybeOne, Outcomes
  <2>2. /\ Call(TickOf(t), p, Other(p, l), l, "walkover") \in CallRows
        /\ \A w \in Paired(p) : CallHolds(Call(TickOf(t), p, w, l, "walkover"))'
    BY <1>2, <1>4, <2>1, CallMade DEF IInv
  <2>3. \A c \in calls' : c \in calls \/ (c \in CallRows /\ CallHolds(c)')
    BY <1>4, <2>1, <2>2
  <2>4. TickHolds(t)'
    BY <1>2, <1>3, <1>4 DEF TickHolds, Full, Written
  <2>5. Typing'
    BY <1>1, <1>3, <1>4, <2>3 DEF IInv, Typing, TickMoves
  <2>6. RowsGrow /\ SlotsFed' /\ \A q \in Pos : RoomHolds(q)'
    BY <1>4, RowsSame, SlotsStay, RoomStays DEF IInv
  <2>. QED
    BY <1>1, <1>3, <2>3, <2>4, <2>5, <2>6, Assembled
<1>5. ASSUME NEW rm \in RoomRows, rm.robots \cap Humans = {}, room' = [room EXCEPT ![p] = rm],
             match' = [match EXCEPT ![p].booked = TRUE],
             hook' = hook \/ hook' = [hook EXCEPT ![p].at = "claim"], UNCHANGED calls
      PROVE  IInv' /\ RowsGrow
  <2>1. /\ match' \in [Pos -> MatchRows]
        /\ \A q \in Pos : /\ match'[q].slot = match[q].slot /\ match'[q].status = match[q].status
                          /\ match'[q].winner = match[q].winner
                          /\ match'[q].forfeit = match[q].forfeit
                          /\ q # p => match'[q] = match[q]
    <3>1. PICK row : row = [match[p] EXCEPT !.booked = TRUE]
      OBVIOUS
    <3>2. /\ row \in MatchRows /\ row.slot = match[p].slot /\ row.status = match[p].status
          /\ row.winner = match[p].winner /\ row.forfeit = match[p].forfeit
      BY <1>2, <3>1 DEF IInv, Typing, MatchRows
    <3>3. match' = [match EXCEPT ![p] = row]
      BY <1>5, <3>1
    <3>. QED
      BY <1>2, <3>2, <3>3 DEF IInv, Typing
  <2>2. /\ room' \in [Pos -> RoomRows] /\ StandIns(p)' = {}
        /\ \A q \in Pos \ {p} : room'[q] = room[q]
    BY <1>2, <1>5 DEF IInv, Typing, StandIns
  <2>3. /\ hook' \in [Pos -> HookRows] /\ hook'[p].at \in {hook[p].at, "claim"}
        /\ \A q \in Pos \ {p} : hook'[q] = hook[q]
    BY <1>2, <1>5 DEF IInv, Typing, HookRows
  <2>4. RowsGrow
    BY <2>1 DEF RowsGrow, Written, Decided
  <2>5. Full(p)' /\ Paired(p)' = Paired(p) /\ \A q \in tick[t].todo : Full(q)'
    BY <1>2, <2>1, <2>4, GrowingKeeps DEF Paired
  <2>6. TickHolds(t)'
    BY <1>3, <2>5 DEF TickHolds
  <2>7. ASSUME NEW q \in Pos PROVE RoomHolds(q)'
    <3>1. CASE q = p
      <4>1. RoomHolds(p)
        BY <1>2 DEF IInv
      <4>. QED
        BY <2>1, <2>2, <2>3, <2>5, <3>1, <4>1 DEF RoomHolds
    <3>2. CASE q # p
      BY <2>1, <2>2, <2>3, <3>2, RoomStays DEF IInv
    <3>. QED
      BY <3>1, <3>2
  <2>8. SlotsFed'
    BY <2>1, <2>4, SlotsStay, NextIsAPosition DEF IInv
  <2>9. Typing'
    BY <1>1, <1>3, <1>5, <2>1, <2>2, <2>3 DEF IInv, Typing, TickMoves
  <2>. QED
    BY <1>1, <1>3, <1>5, <2>4, <2>6, <2>7, <2>8, <2>9, Assembled
<1>. DEFINE robots == Paired(p) \cap Bots
            rm == [NoRoom EXCEPT !.phase = "lobby", !.bound = TRUE, !.seats = robots,
                                 !.robots = robots, !.vacant = robots = {}]
<1>6. rm \in RoomRows /\ rm.robots \cap Humans = {}
  <2>1. robots \subseteq Entrants /\ robots \cap Humans = {}
    BY <1>2, PairedAreEntrants DEF IInv, Humans
  <2>2. rm \in RoomRows /\ rm.robots = robots
    BY <2>1 DEF NoRoom, RoomRows, Phases
  <2>. QED
    BY <2>1, <2>2
<1>7. \/ \E l \in Paired(p) \cap Retired :
           /\ calls' = calls \cup {Call(TickOf(t), p, Other(p, l), l, "walkover")}
           /\ UNCHANGED <<match, room, hook>>
      \/ /\ room' = [room EXCEPT ![p] = rm] /\ match' = [match EXCEPT ![p].booked = TRUE]
         /\ hook' = hook \/ hook' = [hook EXCEPT ![p].at = "claim"]
         /\ UNCHANGED calls
  BY <1>0 DEF OpenRoom, roomVars
<1>. HIDE DEF rm
<1>. QED
  BY <1>4, <1>5, <1>6, <1>7

\* What a step may do to a room and to its hook, whoever takes it.
RoomStep(p) ==
  /\ room' \in [Pos -> RoomRows] /\ hook' \in [Pos -> HookRows]
  /\ \A q \in Pos \ {p} : room'[q] = room[q] /\ hook'[q] = hook[q]
  /\ room[p] = NoRoom => room'[p] = NoRoom
  /\ room'[p].robots \subseteq room[p].robots
  /\ hook'[p].at \in {"result", "reported"} => hook[p].at \in {"result", "reported"}

LEMMA RoomStepHolds ==
  ASSUME match' = match, NEW p \in Pos, RoomStep(p), \A q \in Pos : RoomHolds(q)
  PROVE  \A q \in Pos : RoomHolds(q)'
<1>1. ASSUME NEW q \in Pos, q # p PROVE RoomHolds(q)'
  BY <1>1, RoomStays DEF RoomStep
<1>2. RoomHolds(p)'
  <2>1. RoomHolds(p) /\ (Full(p) => Full(p)') /\ Paired(p)' = Paired(p)
    BY DEF Full, Written, Paired
  <2>2. StandIns(p)' \subseteq StandIns(p)
    BY DEF RoomStep, StandIns
  <2>. QED
    BY <2>1, <2>2 DEF RoomStep, RoomHolds
<1>. QED
  BY <1>1, <1>2

\* Closing a room, whoever sits in it.
LEMMA ShutTyped ==
  ASSUME NEW rm \in RoomRows
  PROVE  Shut(rm) \in RoomRows /\ Shut(rm).robots = rm.robots
BY DEF Shut, RoomRows

LEMMA DecideLapsedKeeps ==
  ASSUME IInv, NEW t \in Ticks, DecideLapsed(t)
  PROVE  IInv' /\ RowsGrow
<1>0. PICK p : p = FirstOf(tick[t].todo)
  OBVIOUS
<1>1. /\ tick[t].at = "sweep" /\ tick[t].todo \subseteq Pos /\ tick[t].todo # {}
      /\ UNCHANGED <<tstat, cur, champion, reg, match, calls, takeovers, crashes>>
  BY DEF DecideLapsed, At, tourVars, IInv, Typing, TickRows
<1>2. p \in tick[t].todo /\ p \in Pos /\ \A q \in tick[t].todo : Full(q)
  BY <1>0, <1>1, FirstIsOne DEF IInv, TickHolds
<1>. DEFINE here == {e \in Paired(p) : Present(p, e)}
<1>3. \/ /\ tick' = [tick EXCEPT ![t].todo = @ \ {p}]
         /\ hook' = hook \/ hook' = [hook EXCEPT ![p].at = "claim"]
         /\ room' = room
      \/ /\ tick' = [tick EXCEPT ![t].todo = @ \ {p}, ![t].at = "abandon", ![t].p = p]
         /\ room' = [room EXCEPT ![p] = IF @.phase = "none" THEN @ ELSE Shut(@)]
         /\ hook' = hook
      \/ /\ \E w \in Paired(p) :
              tick' = [tick EXCEPT ![t].todo = @ \ {p}, ![t].at = "walkover", ![t].p = p, ![t].w = w]
         /\ room' = room /\ hook' = hook
  <2>1. here # {} => (CHOOSE e \in here : TRUE) \in Paired(p)
    OBVIOUS
  <2>2. CASE here = Paired(p)
    BY <1>0, <2>2 DEF DecideLapsed
  <2>3. CASE here # Paired(p) /\ here = {}
    BY <1>0, <2>3 DEF DecideLapsed
  <2>4. CASE here # Paired(p) /\ here # {}
    BY <1>0, <2>1, <2>4 DEF DecideLapsed, roomVars
  <2>. QED
    BY <2>2, <2>3, <2>4
<1>. HIDE DEF here
<1>4. RoomStep(p)
  <2>1. room[p] \in RoomRows /\ Shut(room[p]) \in RoomRows /\ Shut(room[p]).robots = room[p].robots
    BY <1>2, ShutTyped DEF IInv, Typing
  <2>. QED
    BY <1>2, <1>3, <2>1, NoRoomIs DEF IInv, Typing, HookRows, RoomStep
<1>5. /\ TickMoves(t) /\ tick'[t].todo \subseteq tick[t].todo
      /\ \/ tick'[t].at \in {"sweep", "abandon"}
         \/ tick'[t].at = "walkover" /\ tick'[t].p = p /\ tick'[t].w \in Paired(p)
  <2>1. Paired(p) \subseteq MaybeOne
    BY <1>2, PairedAreEntrants DEF IInv, MaybeOne
  <2>. QED
    BY <1>1, <1>2, <1>3, <2>1 DEF IInv, Typing, TickRows, Labels, TickMoves
<1>6. TickHolds(t)'
  <2>1. \A q \in tick[t].todo : Full(q)'
    BY <1>1, <1>2 DEF Full, Written
  <2>2. Paired(p)' = Paired(p)
    BY <1>1 DEF Paired
  <2>. QED
    BY <1>2, <1>5, <2>1, <2>2 DEF TickHolds
<1>7. Typing'
  BY <1>1, <1>4, <1>5 DEF IInv, Typing, TickMoves, RoomStep
<1>8. RowsGrow /\ SlotsFed' /\ \A q \in Pos : RoomHolds(q)'
  BY <1>1, <1>2, <1>4, RowsSame, SlotsStay, RoomStepHolds DEF IInv
<1>. QED
  BY <1>1, <1>5, <1>6, <1>7, <1>8, Assembled

LEMMA WalkoverKeeps ==
  ASSUME IInv, NEW t \in Ticks, Walkover(t)
  PROVE  IInv' /\ RowsGrow
<1>0. PICK p, w : p = tick[t].p /\ w = tick[t].w
  OBVIOUS
<1>1. /\ tick[t].at = "walkover"
      /\ UNCHANGED <<tstat, cur, champion, reg, match, hook, takeovers, crashes>>
      /\ room' = [room EXCEPT ![p] = IF @.phase = "none" THEN @ ELSE Shut(@)]
      /\ calls' = calls \cup {Call(TickOf(t), p, w, Other(p, w), "walkover")}
      /\ Back(t, "sweep")
  BY <1>0 DEF Walkover, At, tourVars
<1>2. /\ p \in Pos /\ Full(p) /\ Written(p) /\ w \in Paired(p)
      /\ \A q \in tick[t].todo : q \in Pos /\ Full(q)
  BY <1>0, <1>1 DEF IInv, TickHolds, Typing, TickRows, Full
<1>3. TickMoves(t) /\ tick'[t].at = "sweep" /\ tick'[t].todo = tick[t].todo
  BY <1>1, BackMoves DEF IInv, Labels
<1>4. TickHolds(t)'
  BY <1>1, <1>2, <1>3 DEF TickHolds, Full, Written
<1>5. RoomStep(p)
  <2>1. room[p] \in RoomRows /\ Shut(room[p]) \in RoomRows /\ Shut(room[p]).robots = room[p].robots
    BY <1>2, ShutTyped DEF IInv, Typing
  <2>. QED
    BY <1>1, <1>2, <2>1, NoRoomIs DEF IInv, Typing, RoomStep
<1>6. \A c \in calls' : c \in calls \/ (c \in CallRows /\ CallHolds(c)')
  <2>1. TickOf(t) \in {TickOf(s) : s \in Ticks} /\ "walkover" \in Outcomes
    BY DEF Outcomes
  <2>2. PICK l \in MaybeOne : l = Other(p, w)
    BY <1>2, Opponent, PairedAreEntrants DEF IInv, MaybeOne
  <2>3. /\ Call(TickOf(t), p, w, l, "walkover") \in CallRows
        /\ CallHolds(Call(TickOf(t), p, w, l, "walkover"))'
    BY <1>1, <1>2, <2>1, CallMade DEF IInv
  <2>. QED
    BY <1>1, <2>2, <2>3
<1>7. Typing'
  BY <1>1, <1>3, <1>5, <1>6 DEF IInv, Typing, TickMoves, RoomStep
<1>8. RowsGrow /\ SlotsFed' /\ \A q \in Pos : RoomHolds(q)'
  BY <1>1, <1>2, <1>5, RowsSame, SlotsStay, RoomStepHolds DEF IInv
<1>. QED
  BY <1>1, <1>3, <1>4, <1>6, <1>7, <1>8, Assembled

-----------------------------------------------------------------------------
(* completeMatch *)

\* The calls after one of them has taken its step: the rest, and perhaps it.
LEMMA NextTyped ==
  ASSUME NEW c \in CallRows, NEW label \in {"eliminate", "advance"},
         NEW d, d = [c EXCEPT !.at = label]
  PROVE  d \in CallRows /\ d.p = c.p /\ d.w = c.w /\ d.at = label
BY DEF CallRows

\* The row is taken, and whoever takes it is the one that decides it.
LEMMA CompleteClaimKeeps ==
  ASSUME IInv, NEW c \in calls, CompleteClaim(c)
  PROVE  IInv' /\ RowsGrow
<1>1. UNCHANGED <<tstat, cur, champion, reg, tick, room, hook, takeovers, crashes>>
  BY DEF CompleteClaim, tourVars, roomVars
<1>2. c \in CallRows /\ CallHolds(c)
  BY DEF IInv, Typing
<1>3. PICK p, w : p = c.p /\ w = c.w
  OBVIOUS
<1>4. p \in Pos /\ w \in Paired(p) /\ w \in MaybeOne /\ Written(p) /\ match[p] \in MatchRows
  BY <1>2, <1>3, PairedAreEntrants DEF IInv, Typing, CallRows, CallHolds, MaybeOne
<1>5. CASE match[p].status # "completed"
  <2>1. PICK row : row = Won(p, w, c.out)
    OBVIOUS
  <2>2. /\ row \in MatchRows /\ row.slot = match[p].slot /\ row.forfeit = match[p].forfeit
        /\ row.status = "completed" /\ row.winner = w
    BY <1>2, <1>4, <2>1, WonTyped DEF CallRows
  <2>3. PICK d : d = [c EXCEPT !.at = "eliminate"]
    OBVIOUS
  <2>4. match' = [match EXCEPT ![p] = row] /\ calls' = (calls \ {c}) \cup {d}
    BY <1>3, <1>5, <2>1, <2>3 DEF CompleteClaim, Next1
  <2>5. d \in CallRows /\ d.p = p /\ d.w = w
    BY <1>2, <1>3, <2>3, NextTyped
  <2>6. /\ match' \in [Pos -> MatchRows] /\ match'[p] = row
        /\ \A q \in Pos : match'[q].slot = match[q].slot /\ (q # p => match'[q] = match[q])
    BY <1>4, <2>2, <2>4 DEF IInv, Typing
  <2>7. RowsGrow
    BY <1>5, <2>2, <2>6 DEF RowsGrow, Written, Decided
  <2>8. CallHolds(d)'
    <3>1. Paired(p)' = Paired(p) /\ Written(p)' /\ WonBy(p, w)'
      BY <1>4, <2>2, <2>6 DEF Paired, Written, WonBy
    <3>. QED
      BY <1>4, <2>5, <3>1 DEF CallHolds
  <2>9. ASSUME NEW q \in Pos PROVE RoomHolds(q)'
    <3>1. CASE q = p
      <4>1. /\ Paired(p)' = Paired(p) /\ (Full(p) => Full(p)') /\ RoomHolds(p)
            /\ StandIns(p)' = StandIns(p)
        BY <1>1, <1>4, <2>6, <2>7, GrowingKeeps DEF Paired, IInv, StandIns
      <4>. QED
        BY <1>1, <1>4, <2>2, <2>6, <3>1, <4>1 DEF RoomHolds
    <3>2. CASE q # p
      BY <1>1, <2>6, <3>2, RoomStays DEF IInv
    <3>. QED
      BY <3>1, <3>2
  <2>10. SlotsFed'
    BY <2>6, <2>7, SlotsStay, NextIsAPosition DEF IInv
  <2>11. Typing'
    BY <1>1, <2>4, <2>5, <2>6 DEF IInv, Typing
  <2>. QED
    BY <1>1, <2>4, <2>7, <2>8, <2>9, <2>10, <2>11, Assembled
<1>6. CASE match[p].status = "completed"
  <2>1. calls' \subseteq calls /\ match' = match
    BY <1>3, <1>6 DEF CompleteClaim
  <2>2. RowsGrow /\ SlotsFed' /\ \A q \in Pos : RoomHolds(q)'
    BY <1>1, <2>1, RowsSame, SlotsStay, RoomStays DEF IInv
  <2>3. Typing'
    BY <1>1, <2>1 DEF IInv, Typing
  <2>. QED
    BY <1>1, <2>1, <2>2, <2>3, Assembled
<1>. QED
  BY <1>5, <1>6

LEMMA CompleteEliminateKeeps ==
  ASSUME IInv, NEW c \in calls, CompleteEliminate(c)
  PROVE  IInv' /\ RowsGrow
<1>1. UNCHANGED <<tstat, cur, champion, match, tick, room, hook, takeovers, crashes>>
  BY DEF CompleteEliminate, tourVars, roomVars
<1>2. c \in CallRows /\ CallHolds(c) /\ c.at = "eliminate"
  BY DEF IInv, Typing, CompleteEliminate
<1>3. PICK d : d = [c EXCEPT !.at = "advance"]
  OBVIOUS
<1>4. calls' = (calls \ {c}) \cup {d}
  BY <1>3 DEF CompleteEliminate, Next1
<1>5. d \in CallRows /\ d.p = c.p /\ d.w = c.w
  BY <1>2, <1>3, NextTyped
<1>6. CallHolds(d)'
  <2>1. CallHolds(c)'
    BY <1>1, RowsSame, CallStays DEF IInv
  <2>2. WonBy(c.p, c.w)'
    BY <1>1, <1>2 DEF CallHolds, WonBy
  <2>. QED
    BY <1>5, <2>1, <2>2 DEF CallHolds
<1>7. /\ reg' \in [Entrants -> RegRows]
      /\ \A e \in Entrants : reg'[e].status = "winner" => reg[e].status = "winner"
  BY DEF CompleteEliminate, IInv, Typing, RegRows
<1>8. RowsGrow /\ SlotsFed' /\ \A q \in Pos : RoomHolds(q)'
  BY <1>1, RowsSame, SlotsStay, RoomStays DEF IInv
<1>9. Typing'
  BY <1>1, <1>4, <1>5, <1>7 DEF IInv, Typing
<1>. QED
  BY <1>1, <1>4, <1>6, <1>7, <1>8, <1>9, Assembled

\* A winner goes to its slot of the next round, which is nobody else's.
LEMMA CompleteAdvanceKeeps ==
  ASSUME IInv, NEW c \in calls, CompleteAdvance(c)
  PROVE  IInv' /\ RowsGrow
<1>1. UNCHANGED <<tstat, cur, champion, reg, tick, room, hook, takeovers, crashes>> /\ calls' \subseteq calls
  BY DEF CompleteAdvance, tourVars, roomVars
<1>2. PICK p, w : p = c.p /\ w = c.w
  OBVIOUS
<1>3. p \in Pos /\ w \in MaybeOne /\ WonBy(p, w)
  BY <1>2 DEF IInv, Typing, CallRows, CallHolds, CompleteAdvance, MaybeOne
<1>4. PICK n, s : n = NextPos(p) /\ s = NextSide(p)
  OBVIOUS
<1>5. CASE HasNext(p) /\ match[n].slot[s] = NoOne
  <2>1. n \in Pos /\ s \in Sides
    BY <1>3, <1>4, <1>5, NextIsAPosition
  <2>2. match' = [match EXCEPT ![n].slot[s] = w]
    BY <1>2, <1>4, <1>5 DEF CompleteAdvance
  <2>3. match' \in [Pos -> MatchRows]
    BY <1>3, <2>1, <2>2 DEF IInv, Typing, MatchRows
  <2>4. \A q \in Pos : /\ match'[q].status = match[q].status
                       /\ match'[q].winner = match[q].winner
                       /\ match'[q].forfeit = match[q].forfeit
                       /\ \A x \in Sides : match'[q].slot[x] =
                            IF q = n /\ x = s THEN w ELSE match[q].slot[x]
    BY <2>1, <2>2 DEF IInv, Typing, MatchRows
  <2>5. RowsGrow
    BY <1>5, <2>4 DEF RowsGrow, Written, Decided
  <2>6. ASSUME NEW q \in Pos PROVE RoomHolds(q)'
    <3>1. /\ Full(q) => Full(q)'
          /\ Written(q) => \A e \in Paired(q) : e \in Paired(q)'
          /\ RoomHolds(q) /\ StandIns(q)' = StandIns(q)
      BY <1>1, <2>5, GrowingKeeps DEF IInv, StandIns
    <3>. QED
      BY <1>1, <2>4, <3>1 DEF RoomHolds, Written
  <2>7. SlotsFed'
    <3>. SUFFICES ASSUME NEW q \in Pos, HasNext(q), match'[NextPos(q)].slot[NextSide(q)] # NoOne
                  PROVE  /\ match'[q].status = "completed"
                         /\ match'[q].winner = match'[NextPos(q)].slot[NextSide(q)]
      BY DEF SlotsFed, WonBy
    <3>1. NextPos(q) \in Pos /\ NextSide(q) \in Sides
      BY NextIsAPosition
    <3>2. PICK x : x = match'[NextPos(q)].slot[NextSide(q)]
      OBVIOUS
    <3>3. WonBy(q, x)
      <4>1. CASE NextPos(q) = n /\ NextSide(q) = s
        BY <1>3, <1>4, <2>4, <3>1, <3>2, <4>1, SlotsAreFedOnce
      <4>2. CASE ~(NextPos(q) = n /\ NextSide(q) = s)
        <5>1. x = match[NextPos(q)].slot[NextSide(q)] /\ x # NoOne
          BY <2>4, <3>1, <3>2, <4>2
        <5>. QED
          BY <5>1 DEF IInv, SlotsFed
      <4>. QED
        BY <4>1, <4>2
    <3>. QED
      BY <2>4, <3>2, <3>3 DEF WonBy
  <2>8. Typing'
    BY <1>1, <2>3 DEF IInv, Typing
  <2>. QED
    BY <1>1, <2>5, <2>6, <2>7, <2>8, Assembled
<1>6. CASE ~(HasNext(p) /\ match[n].slot[s] = NoOne)
  <2>1. match' = match
    BY <1>2, <1>4, <1>6 DEF CompleteAdvance
  <2>2. RowsGrow /\ SlotsFed' /\ \A q \in Pos : RoomHolds(q)'
    BY <1>1, <2>1, RowsSame, SlotsStay, RoomStays DEF IInv
  <2>3. Typing'
    BY <1>1, <2>1 DEF IInv, Typing
  <2>. QED
    BY <1>1, <2>2, <2>3, Assembled
<1>. QED
  BY <1>5, <1>6

-----------------------------------------------------------------------------
(* The engine of a match *)

\* A step of a hook: one row, its room and its hook.
LEMMA HookMoves ==
  ASSUME IInv, UNCHANGED <<tstat, cur, champion, tick, calls, crashes>>,
         takeovers' \subseteq TakeoverRows,
         \A s \in takeovers' : s \in takeovers \/ (RowsGrow => TakeoverHolds(s)'),
         reg' \in [Entrants -> RegRows],
         \A e \in Entrants : reg'[e].status = "winner" => reg[e].status = "winner",
         match' \in [Pos -> MatchRows], room' \in [Pos -> RoomRows], hook' \in [Pos -> HookRows],
         NEW p \in Pos,
         \A q \in Pos \ {p} : match'[q] = match[q] /\ room'[q] = room[q] /\ hook'[q] = hook[q],
         match'[p].slot = match[p].slot, match[p].forfeit \in {NoOne, match'[p].forfeit},
         \/ match'[p].status = match[p].status /\ match'[p].winner = match[p].winner
         \/ match[p].status \in {"ready", "running"} /\ match'[p].status \in {"ready", "running"},
         RowsGrow => RoomHolds(p)'
  PROVE  IInv' /\ RowsGrow
<1>1. \A q \in Pos : match'[q].slot = match[q].slot
  OBVIOUS
<1>2. RowsGrow
  BY <1>1 DEF RowsGrow, Written, Decided
<1>3. \A q \in Pos : RoomHolds(q)'
  BY <1>2, RoomStays DEF IInv
<1>4. SlotsFed'
  BY <1>1, <1>2, SlotsStay, NextIsAPosition DEF IInv
<1>5. Typing'
  BY DEF IInv, Typing
<1>. QED
  BY <1>2, <1>3, <1>4, <1>5, Assembled

\* The row is claimed for the game before the engine is asked.
LEMMA StartClaimKeeps ==
  ASSUME IInv, NEW p \in Pos, StartClaim(p)
  PROVE  IInv' /\ RowsGrow
<1>1. /\ UNCHANGED <<tstat, cur, champion, reg, tick, room, calls, takeovers, crashes>>
      /\ hook[p].at = "claim"
  BY DEF StartClaim, Hook, tourVars
<1>2. Quiet \in HookRows /\ Quiet.at = "none"
  BY DEF Quiet, HookRows, MaybeOne
<1>3. CASE match[p].status = "ready"
  <2>1. /\ match' = [match EXCEPT ![p].status = "running"]
        /\ hook' = [hook EXCEPT ![p].at = "engine"]
    BY <1>3 DEF StartClaim
  <2>2. /\ match' \in [Pos -> MatchRows] /\ match'[p].status = "running"
        /\ match'[p].slot = match[p].slot /\ match'[p].forfeit = match[p].forfeit
        /\ \A q \in Pos \ {p} : match'[q] = match[q]
    BY <2>1 DEF IInv, Typing, MatchRows, Statuses
  <2>3. /\ hook' \in [Pos -> HookRows] /\ hook'[p].at = "engine"
        /\ \A q \in Pos \ {p} : hook'[q] = hook[q]
    BY <2>1 DEF IInv, Typing, HookRows
  <2>4. RowsGrow => RoomHolds(p)'
    <3>1. /\ RoomHolds(p) /\ (RowsGrow /\ Full(p) => Full(p)')
          /\ StandIns(p)' = StandIns(p)
      BY <1>1, GrowingKeeps DEF IInv, StandIns
    <3>. QED
      BY <1>1, <1>3, <2>2, <2>3, <3>1 DEF RoomHolds
  <2>. QED
    BY <1>1, <1>3, <2>2, <2>3, <2>4, HookMoves DEF IInv, Typing
<1>4. CASE match[p].status # "ready"
  <2>1. hook' = [hook EXCEPT ![p] = Quiet] /\ match' = match
    BY <1>4 DEF StartClaim
  <2>2. /\ hook' \in [Pos -> HookRows] /\ hook'[p].at = "none"
        /\ \A q \in Pos \ {p} : hook'[q] = hook[q]
    BY <1>2, <2>1 DEF IInv, Typing
  <2>3. RoomHolds(p)'
    BY <1>1, <2>1, <2>2 DEF IInv, RoomHolds, Full, Written, Paired, StandIns
  <2>. QED
    BY <1>1, <2>1, <2>2, <2>3, HookMoves DEF IInv, Typing
<1>. QED
  BY <1>3, <1>4

LEMMA RevertKeeps ==
  ASSUME IInv, NEW p \in Pos, Revert(p)
  PROVE  IInv' /\ RowsGrow
<1>1. /\ UNCHANGED <<tstat, cur, champion, reg, tick, room, calls, takeovers, crashes>>
      /\ hook[p].at = "revert" /\ hook' = [hook EXCEPT ![p] = Quiet]
  BY DEF Revert, Hook, tourVars
<1>2. Quiet \in HookRows /\ Quiet.at = "none"
  BY DEF Quiet, HookRows, MaybeOne
<1>3. /\ hook' \in [Pos -> HookRows] /\ hook'[p].at = "none"
      /\ \A q \in Pos \ {p} : hook'[q] = hook[q]
  BY <1>1, <1>2 DEF IInv, Typing
<1>4. RoomHolds(p) /\ (RowsGrow /\ Full(p) => Full(p)') /\ StandIns(p)' = StandIns(p)
  BY <1>1, GrowingKeeps DEF IInv, StandIns
<1>5. CASE match[p].status = "running"
  <2>1. match' = [match EXCEPT ![p].status = "ready"]
    BY <1>5 DEF Revert
  <2>2. /\ match' \in [Pos -> MatchRows] /\ match'[p].status = "ready"
        /\ match'[p].slot = match[p].slot /\ match'[p].forfeit = match[p].forfeit
        /\ \A q \in Pos \ {p} : match'[q] = match[q]
    BY <2>1 DEF IInv, Typing, MatchRows, Statuses
  <2>3. RowsGrow => RoomHolds(p)'
    BY <1>1, <1>3, <1>4, <1>5, <2>2 DEF RoomHolds
  <2>. QED
    BY <1>1, <1>3, <1>5, <2>2, <2>3, HookMoves DEF IInv, Typing
<1>6. CASE match[p].status # "running"
  <2>1. match' = match
    BY <1>6 DEF Revert
  <2>2. RoomHolds(p)'
    BY <1>1, <1>3, <1>4, <2>1 DEF RoomHolds, Full, Written, Paired
  <2>. QED
    BY <1>1, <1>3, <2>1, <2>2, HookMoves DEF IInv, Typing
<1>. QED
  BY <1>5, <1>6

\* A step that leaves the rows alone.
LEMMA RoomMoves ==
  ASSUME IInv, UNCHANGED <<tstat, cur, champion, reg, match, tick, calls, takeovers, crashes>>,
         NEW p \in Pos, room' \in [Pos -> RoomRows], hook' \in [Pos -> HookRows],
         \A q \in Pos \ {p} : room'[q] = room[q] /\ hook'[q] = hook[q],
         RoomHolds(p)'
  PROVE  IInv' /\ RowsGrow
BY HookMoves DEF IInv, Typing

\* What players, the sweeper and a start do to a room leaves the rows alone.
LEMMA SeatMoves ==
  ASSUME IInv, UNCHANGED <<tstat, cur, champion, reg, match, tick, calls, takeovers, crashes>>,
         NEW p \in Pos, RoomStep(p)
  PROVE  IInv' /\ RowsGrow
<1>1. RoomHolds(p)'
  BY RoomStepHolds DEF IInv
<1>. QED
  BY <1>1, RoomMoves DEF RoomStep

\* The engine is asked, and answers or fails: no seat changes hands.
LEMMA StartGameKeeps ==
  ASSUME IInv, NEW p \in Pos, StartGame(p)
  PROVE  IInv' /\ RowsGrow
<1>1. /\ UNCHANGED <<tstat, cur, champion, reg, match, tick, calls, takeovers, crashes>>
      /\ hook[p].at = "engine" /\ room[p] \in RoomRows
  BY DEF StartGame, Hook, tourVars, IInv, Typing
<1>2. Quiet \in HookRows /\ Quiet.at = "none"
  BY DEF Quiet, HookRows, MaybeOne
<1>3. PICK rm :
        /\ room' = [room EXCEPT ![p] = rm]
        /\ \/ rm = room[p]
           \/ rm = [room[p] EXCEPT !.phase = "starting"] /\ room[p] # NoRoom
           \/ /\ rm = [room[p] EXCEPT !.game = TRUE,
                                      !.phase = IF room[p].closed THEN "starting" ELSE "playing"]
              /\ room[p] # NoRoom
  <2>1. room = [room EXCEPT ![p] = room[p]]
    BY DEF IInv, Typing
  <2>. QED
    BY <2>1, NoRoomIs, Zenon DEF StartGame
<1>4. rm \in RoomRows /\ rm.robots = room[p].robots /\ (room[p] = NoRoom => rm = NoRoom)
  BY <1>1, <1>3 DEF RoomRows, Phases
<1>5. /\ hook' \in [Pos -> HookRows] /\ hook'[p].at \in {"revert", "none"}
      /\ \A q \in Pos \ {p} : hook'[q] = hook[q]
  <2>1. hook' = [hook EXCEPT ![p].at = "revert"] \/ hook' = [hook EXCEPT ![p] = Quiet]
    BY DEF StartGame
  <2>. QED
    BY <1>2, <2>1 DEF IInv, Typing, HookRows
<1>6. RoomStep(p)
  BY <1>3, <1>4, <1>5 DEF IInv, Typing, RoomStep
<1>. QED
  BY <1>1, <1>6, SeatMoves

LEMMA GameEndsKeeps ==
  ASSUME IInv, NEW p \in Pos, GameEnds(p)
  PROVE  IInv' /\ RowsGrow
<1>1. /\ UNCHANGED <<tstat, cur, champion, reg, match, tick, calls, takeovers, crashes>>
      /\ room[p].phase = "playing" /\ room[p] \in RoomRows
      /\ room' = [room EXCEPT ![p].phase = "ended"]
  BY DEF GameEnds, tourVars, IInv, Typing
<1>2. RoomHolds(p) /\ (Full(p) => Full(p)') /\ Paired(p)' = Paired(p) /\ Full(p)
  BY <1>1, NoRoomIs DEF IInv, RoomHolds, Full, Written, Paired
<1>3. \A e : Other(p, e) \in MaybeOne
  BY <1>2, Opponent, PairedAreEntrants DEF IInv, MaybeOne
<1>4. PICK w \in MaybeOne : hook' = [hook EXCEPT ![p].at = "result", ![p].w = w]
  BY <1>3 DEF GameEnds, MaybeOne
<1>5. /\ hook' \in [Pos -> HookRows] /\ hook'[p].at = "result"
      /\ room' \in [Pos -> RoomRows] /\ room'[p].robots = room[p].robots
      /\ \A q \in Pos \ {p} : room'[q] = room[q] /\ hook'[q] = hook[q]
  BY <1>1, <1>4 DEF IInv, Typing, RoomRows, HookRows, Phases
<1>6. RoomHolds(p)'
  <2>1. StandIns(p)' = StandIns(p)
    BY <1>5 DEF StandIns
  <2>. QED
    BY <1>1, <1>2, <1>5, <2>1 DEF RoomHolds
<1>. QED
  BY <1>1, <1>5, <1>6, RoomMoves

LEMMA ReportKeeps ==
  ASSUME IInv, NEW p \in Pos, Report(p)
  PROVE  IInv' /\ RowsGrow
<1>1. /\ UNCHANGED <<tstat, cur, champion, reg, match, tick, room, takeovers, crashes>>
      /\ hook[p].at = "result" /\ hook' = [hook EXCEPT ![p].at = "reported"]
  BY DEF Report, Hook, tourVars
<1>2. RoomHolds(p) /\ Full(p) /\ Written(p)
  BY <1>1 DEF IInv, RoomHolds, Full
<1>3. PICK w \in Paired(p), l \in MaybeOne :
        calls' = calls \cup {Call(HookOf(p), p, w, l, "played")}
  BY <1>2, Opponent, PairedAreEntrants DEF Report, IInv, MaybeOne
<1>4. /\ hook' \in [Pos -> HookRows] /\ hook'[p].at = "reported"
      /\ \A q \in Pos \ {p} : hook'[q] = hook[q]
  BY <1>1 DEF IInv, Typing, HookRows
<1>5. \A c \in calls' : c \in calls \/ (c \in CallRows /\ CallHolds(c)')
  <2>1. HookOf(p) \in {HookOf(q) : q \in Pos} /\ "played" \in Outcomes
    BY DEF Outcomes
  <2>2. /\ Call(HookOf(p), p, w, l, "played") \in CallRows
        /\ CallHolds(Call(HookOf(p), p, w, l, "played"))'
    BY <1>1, <1>2, <2>1, CallMade DEF IInv
  <2>. QED
    BY <1>3, <2>2
<1>6. RoomStep(p)
  BY <1>1, <1>4 DEF IInv, Typing, RoomStep
<1>7. RowsGrow /\ SlotsFed' /\ \A q \in Pos : RoomHolds(q)'
  BY <1>1, <1>6, RowsSame, SlotsStay, RoomStepHolds DEF IInv
<1>8. Typing'
  BY <1>1, <1>4, <1>5 DEF IInv, Typing
<1>. QED
  BY <1>1, <1>5, <1>7, <1>8, Assembled

LEMMA CloseReportedKeeps ==
  ASSUME IInv, NEW p \in Pos, CloseReported(p)
  PROVE  IInv' /\ RowsGrow
<1>1. /\ UNCHANGED <<tstat, cur, champion, reg, match, tick, calls, takeovers, crashes>>
      /\ hook[p].at = "reported" /\ hook' = [hook EXCEPT ![p] = Quiet]
  BY DEF CloseReported, Hook, tourVars
<1>2. Quiet \in HookRows /\ Quiet.at = "none"
  BY DEF Quiet, HookRows, MaybeOne
<1>3. PICK rm : rm = Shut(room[p])
  OBVIOUS
<1>4. rm \in RoomRows /\ rm.robots = room[p].robots
  BY <1>3, ShutTyped DEF IInv, Typing
<1>5. room' = [room EXCEPT ![p] = rm]
  BY <1>3 DEF CloseReported
<1>6. /\ hook' \in [Pos -> HookRows] /\ hook'[p].at = "none"
      /\ room' \in [Pos -> RoomRows] /\ room'[p].robots = room[p].robots
      /\ \A q \in Pos \ {p} : room'[q] = room[q] /\ hook'[q] = hook[q]
  <2>1. hook' \in [Pos -> HookRows] /\ hook'[p].at = "none"
    BY <1>1, <1>2 DEF IInv, Typing
  <2>2. room' \in [Pos -> RoomRows] /\ room'[p].robots = room[p].robots
    BY <1>4, <1>5 DEF IInv, Typing
  <2>3. \A q \in Pos \ {p} : room'[q] = room[q] /\ hook'[q] = hook[q]
    BY <1>1, <1>5
  <2>. QED
    BY <2>1, <2>2, <2>3
<1>7. RoomHolds(p)'
  <2>1. StandIns(p)' = StandIns(p) /\ Full(p)
    BY <1>1, <1>6 DEF StandIns, IInv, RoomHolds
  <2>. QED
    BY <1>1, <1>6, <2>1 DEF IInv, RoomHolds, Full, Written, Paired
<1>. QED
  BY <1>1, <1>6, <1>7, RoomMoves

-----------------------------------------------------------------------------
(* The seats of a match *)

\* What becomes of a room a seat is given up in.
LEMMA VacatedTyped ==
  ASSUME NEW rm \in RoomRows, NEW e \in Entrants
  PROVE  Vacated(rm, e) \in RoomRows /\ Vacated(rm, e).robots \subseteq rm.robots
<1>. DEFINE left == [rm EXCEPT !.seats = @ \ {e}, !.live = @ \ {e}, !.robots = @ \ {e},
                               !.grace = @ \ {e}, !.lost = @ \ {e}, !.stray = @ \ {e}]
<1>1. left \in RoomRows /\ left.robots \subseteq rm.robots
  BY DEF RoomRows
<1>2. \/ Vacated(rm, e) = Shut(left)
      \/ Vacated(rm, e) = left
      \/ Vacated(rm, e) = [left EXCEPT !.phase = "paused"]
  BY DEF Vacated
<1>. HIDE DEF left
<1>3. Shut(left) \in RoomRows /\ Shut(left).robots = left.robots
  BY <1>1, ShutTyped
<1>4. /\ [left EXCEPT !.phase = "paused"] \in RoomRows
      /\ [left EXCEPT !.phase = "paused"].robots = left.robots
  BY <1>1 DEF RoomRows, Phases
<1>. QED
  BY <1>1, <1>2, <1>3, <1>4

LEMMA LeaveKeeps ==
  ASSUME IInv, NEW p \in Pos, NEW e \in Humans, Leave(p, e)
  PROVE  IInv' /\ RowsGrow
<1>1. UNCHANGED <<tstat, cur, champion, reg, match, tick, hook, calls, takeovers, crashes>>
      /\ room[p] # NoRoom /\ room[p] \in RoomRows
  BY NoRoomIs DEF Leave, tourVars, IInv, Typing
<1>2. PICK rm : rm = Vacated(room[p], e)
  OBVIOUS
<1>3. rm \in RoomRows /\ rm.robots \subseteq room[p].robots
  BY <1>1, <1>2, VacatedTyped DEF Humans
<1>4. room' = [room EXCEPT ![p] = rm]
  BY <1>2 DEF Leave
<1>5. RoomStep(p)
  BY <1>1, <1>3, <1>4 DEF IInv, Typing, RoomStep
<1>. QED
  BY <1>1, <1>5, SeatMoves

LEMMA DropKeeps ==
  ASSUME IInv, NEW p \in Pos, NEW e \in Humans, Drop(p, e)
  PROVE  IInv' /\ RowsGrow
<1>1. UNCHANGED <<tstat, cur, champion, reg, match, tick, hook, calls, takeovers, crashes>>
      /\ room[p] # NoRoom /\ room[p] \in RoomRows /\ e \in Entrants
  BY NoRoomIs DEF Drop, tourVars, IInv, Typing, Humans
<1>2. PICK gone, rm : /\ gone = [room[p] EXCEPT !.live = @ \ {e}, !.stray = @ \ {e},
                                                !.grace = @ \cup {e}]
                      /\ rm = [gone EXCEPT !.vacant = @ \/ gone.live = {}]
  OBVIOUS
<1>3. gone \in RoomRows /\ gone.robots = room[p].robots
  BY <1>1, <1>2 DEF RoomRows
<1>4. rm \in RoomRows /\ rm.robots = room[p].robots
  BY <1>2, <1>3 DEF RoomRows
<1>5. room' = [room EXCEPT ![p] = rm]
  BY <1>2 DEF Drop
<1>6. RoomStep(p)
  BY <1>1, <1>4, <1>5 DEF IInv, Typing, RoomStep
<1>. QED
  BY <1>1, <1>6, SeatMoves

LEMMA SweepRoomKeeps ==
  ASSUME IInv, NEW p \in Pos, SweepRoom(p)
  PROVE  IInv' /\ RowsGrow
<1>1. UNCHANGED <<tstat, cur, champion, reg, match, tick, hook, calls, takeovers, crashes>>
      /\ room[p] # NoRoom /\ room[p] \in RoomRows
  BY NoRoomIs DEF SweepRoom, tourVars, IInv, Typing
<1>2. PICK rm : rm = Shut(room[p])
  OBVIOUS
<1>3. rm \in RoomRows /\ rm.robots = room[p].robots
  BY <1>1, <1>2, ShutTyped
<1>4. room' = [room EXCEPT ![p] = rm]
  BY <1>2 DEF SweepRoom
<1>5. RoomStep(p)
  BY <1>1, <1>3, <1>4 DEF IInv, Typing, RoomStep
<1>. QED
  BY <1>1, <1>5, SeatMoves

\* A room is entered before it is over; a paused match goes on.
LEMMA EnterKeeps ==
  ASSUME IInv, NEW p \in Pos, NEW e \in Humans, Enter(p, e)
  PROVE  IInv' /\ RowsGrow
<1>1. /\ UNCHANGED <<tstat, cur, champion, reg, match, tick, calls, takeovers, crashes>>
      /\ room[p] # NoRoom /\ room[p] \in RoomRows /\ e \in Entrants
  BY NoRoomIs DEF Enter, tourVars, IInv, Typing, Humans
<1>2. PICK back : back = [room[p] EXCEPT !.seats = @ \cup {e}, !.live = @ \cup {e},
                            !.grace = @ \ {e}, !.lost = @ \ {e}, !.stray = @ \ {e}, !.vacant = FALSE]
  OBVIOUS
<1>3. back \in RoomRows /\ back.robots = room[p].robots
  BY <1>1, <1>2 DEF RoomRows
<1>4. PICK now : now = IF back.phase = "paused" /\ Cardinality(Active(back)) >= 2
                         THEN [back EXCEPT !.phase = IF room[p].game THEN "playing" ELSE "starting"]
                         ELSE back
  OBVIOUS
<1>5. now \in RoomRows /\ now.robots = room[p].robots
  BY <1>3, <1>4 DEF RoomRows, Phases
<1>6. /\ room' = [room EXCEPT ![p] = now]
      /\ hook' = hook \/ hook' = [hook EXCEPT ![p].at = "claim"]
  BY <1>2, <1>4 DEF Enter
<1>7. RoomStep(p)
  <2>1. /\ hook' \in [Pos -> HookRows] /\ hook'[p].at \in {hook[p].at, "claim"}
        /\ \A q \in Pos \ {p} : hook'[q] = hook[q]
    BY <1>6 DEF IInv, Typing, HookRows
  <2>. QED
    BY <1>1, <1>5, <1>6, <2>1 DEF IInv, Typing, RoomStep
<1>. QED
  BY <1>1, <1>7, SeatMoves

-----------------------------------------------------------------------------
(* Stand-ins *)

LEMMA OnwardTyped ==
  ASSUME NEW s \in TakeoverRows, NEW label \in {"claim", "seat", "eliminate", "remove"},
         NEW d, d = [s EXCEPT !.at = label]
  PROVE  d \in TakeoverRows /\ d.p = s.p /\ d.e = s.e /\ d.at = label
BY DEF TakeoverRows

\* A step of a takeover that leaves the rows and the players' hooks alone.
LEMMA TakeoverMoves ==
  ASSUME IInv, UNCHANGED <<tstat, cur, champion, match, tick, calls, crashes>>,
         takeovers' \subseteq TakeoverRows,
         \A s \in takeovers' : s \in takeovers \/ TakeoverHolds(s)',
         reg' \in [Entrants -> RegRows],
         \A e \in Entrants : reg'[e].status = "winner" => reg[e].status = "winner",
         NEW p \in Pos, room' \in [Pos -> RoomRows], hook' \in [Pos -> HookRows],
         \A q \in Pos \ {p} : room'[q] = room[q] /\ hook'[q] = hook[q],
         RoomHolds(p)'
  PROVE  IInv' /\ RowsGrow
BY HookMoves DEF IInv, Typing

\* Where a takeover goes on to: to a label that asks nothing of the row, but "seat".
LEMMA OnwardHolds ==
  ASSUME IInv, NEW s \in takeovers, match' = match,
         NEW label \in {"claim", "eliminate", "remove"}, Onward(s, label)
  PROVE  /\ takeovers' \subseteq TakeoverRows
         /\ \A x \in takeovers' : x \in takeovers \/ TakeoverHolds(x)'
<1>1. PICK d : d = [s EXCEPT !.at = label]
  OBVIOUS
<1>2. s \in TakeoverRows /\ TakeoverHolds(s)
  BY DEF IInv, Typing
<1>3. d \in TakeoverRows /\ d.p = s.p /\ d.at = label
  BY <1>1, <1>2, OnwardTyped
<1>4. TakeoverHolds(d)'
  BY <1>2, <1>3 DEF TakeoverHolds, Full, Written
<1>5. takeovers' = (takeovers \ {s}) \cup {d}
  BY <1>1 DEF Onward
<1>. QED
  BY <1>3, <1>4, <1>5 DEF IInv, Typing

\* The grace period is over: the seat is written off, and a takeover begins.
LEMMA ExpireKeeps ==
  ASSUME IInv, NEW p \in Pos, NEW e \in Humans, Expire(p, e)
  PROVE  IInv' /\ RowsGrow
<1>1. /\ UNCHANGED <<tstat, cur, champion, reg, match, tick, hook, calls, crashes>>
      /\ room[p] # NoRoom /\ room[p] \in RoomRows /\ e \in Entrants
  BY NoRoomIs DEF Expire, tourVars, IInv, Typing, Humans
<1>2. PICK rm, left : /\ rm = [room[p] EXCEPT !.grace = @ \ {e}, !.lost = @ \cup {e}]
                      /\ left = Vacated(rm, e)
  OBVIOUS
<1>3. rm \in RoomRows /\ rm.robots = room[p].robots
  BY <1>1, <1>2 DEF RoomRows
<1>4. left \in RoomRows /\ left.robots \subseteq room[p].robots
  BY <1>1, <1>2, <1>3, VacatedTyped
<1>5. PICK s : s = [p |-> p, e |-> e, at |-> "look"]
  OBVIOUS
<1>6. s \in TakeoverRows /\ s.p = p /\ s.at = "look"
  BY <1>5 DEF TakeoverRows
<1>7. \/ room' = [room EXCEPT ![p] = rm] /\ takeovers' = takeovers \cup {s}
      \/ room' = [room EXCEPT ![p] = left] /\ takeovers' = takeovers
  BY <1>2, <1>5 DEF Expire
<1>8. RoomStep(p)
  BY <1>1, <1>3, <1>4, <1>7 DEF IInv, Typing, RoomStep
<1>9. /\ takeovers' \subseteq TakeoverRows
      /\ \A x \in takeovers' : x \in takeovers \/ TakeoverHolds(x)'
  <2>1. Full(p)
    BY <1>1 DEF IInv, RoomHolds
  <2>2. TakeoverHolds(s)'
    BY <1>1, <1>6, <2>1 DEF TakeoverHolds, Full, Written
  <2>. QED
    BY <1>6, <1>7, <2>2 DEF IInv, Typing
<1>10. RoomHolds(p)'
  BY <1>1, <1>8, RoomStepHolds DEF IInv
<1>. QED
  BY <1>1, <1>8, <1>9, <1>10, TakeoverMoves DEF IInv, Typing, RoomStep

LEMMA TakeoverLookKeeps ==
  ASSUME IInv, NEW s \in takeovers, TakeoverLook(s)
  PROVE  IInv' /\ RowsGrow
<1>1. UNCHANGED <<tstat, cur, champion, reg, match, tick, room, hook, calls, crashes>>
  BY DEF TakeoverLook, tourVars, roomVars
<1>2. \E label \in {"claim", "eliminate", "remove"} : Onward(s, label)
  BY DEF TakeoverLook
<1>3. /\ takeovers' \subseteq TakeoverRows
      /\ \A x \in takeovers' : x \in takeovers \/ TakeoverHolds(x)'
  BY <1>1, <1>2, OnwardHolds
<1>4. PICK p \in Pos : p = s.p
  BY DEF IInv, Typing, TakeoverRows
<1>5. RoomHolds(p)'
  BY <1>1, RoomStays DEF IInv
<1>. QED
  BY <1>1, <1>3, <1>5, TakeoverMoves DEF IInv, Typing

\* The forfeit is written once: there was none before.
LEMMA TakeoverClaimKeeps ==
  ASSUME IInv, NEW s \in takeovers, TakeoverClaim(s)
  PROVE  IInv' /\ RowsGrow
<1>1. UNCHANGED <<tstat, cur, champion, reg, tick, room, hook, calls, crashes>>
  BY DEF TakeoverClaim, tourVars, roomVars
<1>2. PICK p, e : p = s.p /\ e = s.e
  OBVIOUS
<1>3. s \in TakeoverRows /\ p \in Pos /\ e \in Humans /\ e \in MaybeOne /\ TakeoverHolds(s)
  BY <1>2 DEF IInv, Typing, TakeoverRows, Humans, MaybeOne
<1>4. CASE /\ match[p].forfeit = NoOne /\ match' = [match EXCEPT ![p].forfeit = e]
           /\ Onward(s, "seat")
  <2>1. /\ match' \in [Pos -> MatchRows] /\ match'[p].slot = match[p].slot
        /\ match'[p].status = match[p].status /\ match'[p].winner = match[p].winner
        /\ match'[p].forfeit = e
        /\ \A q \in Pos \ {p} : match'[q] = match[q]
    BY <1>3, <1>4 DEF IInv, Typing, MatchRows
  <2>2. PICK d : d = [s EXCEPT !.at = "seat"]
    OBVIOUS
  <2>3. d \in TakeoverRows /\ d.p = p /\ d.e = e /\ takeovers' = (takeovers \ {s}) \cup {d}
    BY <1>2, <1>3, <1>4, <2>2, OnwardTyped DEF Onward
  <2>4. RowsGrow => TakeoverHolds(d)'
    BY <1>2, <1>3, <2>1, <2>3, GrowingKeeps DEF TakeoverHolds
  <2>5. /\ takeovers' \subseteq TakeoverRows
        /\ \A x \in takeovers' : x \in takeovers \/ (RowsGrow => TakeoverHolds(x)')
    BY <2>3, <2>4 DEF IInv, Typing
  <2>6. RowsGrow => RoomHolds(p)'
    <3>1. /\ RoomHolds(p) /\ (RowsGrow /\ Full(p) => Full(p)') /\ Paired(p)' = Paired(p)
          /\ StandIns(p)' = StandIns(p)
      BY <1>1, <1>3, <2>1, GrowingKeeps DEF IInv, Paired, StandIns
    <3>2. StandIns(p) = {}
      BY <1>3, <1>4, <3>1, RosterAssumption DEF RoomHolds, StandIns, Humans
    <3>. QED
      BY <1>1, <2>1, <3>1, <3>2 DEF RoomHolds
  <2>. QED
    BY <1>1, <1>3, <1>4, <2>1, <2>5, <2>6, HookMoves DEF IInv, Typing
<1>5. CASE match' = match /\ Onward(s, "remove")
  <2>1. /\ takeovers' \subseteq TakeoverRows
        /\ \A x \in takeovers' : x \in takeovers \/ TakeoverHolds(x)'
    BY <1>5, OnwardHolds
  <2>2. RoomHolds(p)'
    BY <1>1, <1>3, <1>5, RoomStays DEF IInv
  <2>. QED
    BY <1>1, <1>3, <1>5, <2>1, <2>2, TakeoverMoves DEF IInv, Typing
<1>. QED
  BY <1>2, <1>4, <1>5 DEF TakeoverClaim

\* The bot sits down on the seat the row has down as forfeited.
LEMMA TakeoverSeatKeeps ==
  ASSUME IInv, NEW s \in takeovers, TakeoverSeat(s)
  PROVE  IInv' /\ RowsGrow
<1>1. /\ UNCHANGED <<tstat, cur, champion, reg, match, tick, hook, calls, crashes>>
      /\ s.at = "seat" /\ Onward(s, "eliminate")
  BY DEF TakeoverSeat, tourVars
<1>2. /\ takeovers' \subseteq TakeoverRows
      /\ \A x \in takeovers' : x \in takeovers \/ TakeoverHolds(x)'
  BY <1>1, OnwardHolds
<1>3. PICK p, e : p = s.p /\ e = s.e
  OBVIOUS
<1>4. /\ p \in Pos /\ e \in Entrants /\ room[p] \in RoomRows
      /\ Full(p) /\ match[p].forfeit = e /\ RoomHolds(p)
  BY <1>1, <1>3 DEF IInv, Typing, TakeoverRows, Humans, TakeoverHolds
<1>5. PICK rm : rm = [room[p] EXCEPT !.seats = @ \cup {e}, !.robots = @ \cup {e},
                        !.live = @ \ {e}, !.lost = @ \ {e}, !.vacant = FALSE,
                        !.stray = @ \cup ({e} \cap room[p].live)]
  OBVIOUS
<1>6. rm \in RoomRows /\ rm.robots = room[p].robots \cup {e}
  BY <1>4, <1>5 DEF RoomRows
<1>7. room' = [room EXCEPT ![p] = rm]
  BY <1>3, <1>5, Zenon DEF TakeoverSeat
<1>8. /\ room' \in [Pos -> RoomRows] /\ room'[p] = rm
      /\ \A q \in Pos \ {p} : room'[q] = room[q]
  BY <1>4, <1>6, <1>7 DEF IInv, Typing
<1>9. RoomHolds(p)'
  <2>1. StandIns(p)' \subseteq {match[p].forfeit}
    BY <1>4, <1>6, <1>8 DEF StandIns, RoomHolds
  <2>2. Full(p)' /\ Paired(p)' = Paired(p)
    BY <1>1, <1>4 DEF Full, Written, Paired
  <2>. QED
    BY <1>1, <1>4, <2>1, <2>2 DEF RoomHolds
<1>. QED
  BY <1>1, <1>2, <1>4, <1>8, <1>9, TakeoverMoves DEF IInv, Typing

LEMMA TakeoverEliminateKeeps ==
  ASSUME IInv, NEW s \in takeovers, TakeoverEliminate(s)
  PROVE  IInv' /\ RowsGrow
<1>1. UNCHANGED <<tstat, cur, champion, match, tick, room, calls, crashes>>
  BY DEF TakeoverEliminate, tourVars
<1>2. /\ takeovers' \subseteq TakeoverRows
      /\ \A x \in takeovers' : x \in takeovers \/ TakeoverHolds(x)'
  <2>1. CASE takeovers' = takeovers \ {s}
    BY <2>1 DEF IInv, Typing
  <2>2. CASE Onward(s, "remove")
    BY <1>1, <2>2, OnwardHolds
  <2>. QED
    BY <2>1, <2>2 DEF TakeoverEliminate
<1>3. PICK p, e : p = s.p /\ e = s.e
  OBVIOUS
<1>4. p \in Pos
  BY <1>3 DEF IInv, Typing, TakeoverRows
<1>5. \/ reg' = reg
      \/ reg' = [reg EXCEPT ![e].status = "eliminated"]
  BY <1>3 DEF TakeoverEliminate
<1>6. /\ reg' \in [Entrants -> RegRows]
      /\ \A f \in Entrants : reg'[f].status = "winner" => reg[f].status = "winner"
  BY <1>5 DEF IInv, Typing, RegRows
<1>7. hook' = hook \/ hook' = [hook EXCEPT ![p].at = "claim"]
  BY <1>3 DEF TakeoverEliminate
<1>8. /\ hook' \in [Pos -> HookRows] /\ hook'[p].at \in {hook[p].at, "claim"}
      /\ \A q \in Pos \ {p} : hook'[q] = hook[q]
  BY <1>4, <1>7 DEF IInv, Typing, HookRows
<1>9. RoomStep(p)
  BY <1>1, <1>8 DEF IInv, Typing, RoomStep
<1>10. RoomHolds(p)'
  BY <1>1, <1>4, <1>9, RoomStepHolds DEF IInv
<1>. QED
  BY <1>1, <1>2, <1>4, <1>6, <1>8, <1>10, TakeoverMoves DEF IInv, Typing

LEMMA TakeoverRemoveKeeps ==
  ASSUME IInv, NEW s \in takeovers, TakeoverRemove(s)
  PROVE  IInv' /\ RowsGrow
<1>1. /\ UNCHANGED <<tstat, cur, champion, reg, match, tick, hook, calls, crashes>>
      /\ takeovers' \subseteq takeovers
  BY DEF TakeoverRemove, tourVars
<1>2. PICK p, e : p = s.p /\ e = s.e
  OBVIOUS
<1>3. p \in Pos /\ e \in Entrants /\ room[p] \in RoomRows /\ Full(p)
  BY <1>2 DEF IInv, Typing, TakeoverRows, Humans, TakeoverHolds
<1>4. PICK rm : rm = Vacated(room[p], e)
  OBVIOUS
<1>5. rm \in RoomRows /\ rm.robots \subseteq room[p].robots
  BY <1>3, <1>4, VacatedTyped
<1>6. room' = [room EXCEPT ![p] = rm]
  BY <1>2, <1>4 DEF TakeoverRemove
<1>7. /\ room' \in [Pos -> RoomRows] /\ room'[p] = rm
      /\ \A q \in Pos \ {p} : room'[q] = room[q]
  BY <1>3, <1>5, <1>6 DEF IInv, Typing
<1>8. RoomHolds(p)'
  <2>1. StandIns(p)' \subseteq StandIns(p)
    BY <1>5, <1>7 DEF StandIns
  <2>2. Full(p)' /\ Paired(p)' = Paired(p) /\ RoomHolds(p)
    BY <1>1, <1>3 DEF IInv, Full, Written, Paired
  <2>. QED
    BY <1>1, <2>1, <2>2 DEF RoomHolds
<1>. QED
  BY <1>1, <1>3, <1>7, <1>8, TakeoverMoves DEF IInv, Typing

\* The process dies; the rows stay, and so does what was decided in them.
LEMMA CrashKeeps ==
  ASSUME IInv, Crash
  PROVE  IInv' /\ RowsGrow
<1>1. /\ UNCHANGED <<tstat, cur, champion, reg, match>> /\ calls' = {} /\ takeovers' = {}
      /\ crashes < MaxCrashes /\ crashes' = crashes + 1
      /\ tick' = [t \in Ticks |-> Idle] /\ hook' = [p \in Pos |-> Quiet]
  BY DEF Crash, tourVars
<1>2. Idle \in TickRows /\ Idle.at = "idle"
  BY Sizes DEF Idle, TickRows, Labels, MaybeOne
<1>3. Quiet \in HookRows /\ Quiet.at = "none"
  BY DEF Quiet, HookRows, MaybeOne
<1>4. ASSUME NEW p \in Pos
      PROVE  /\ room'[p] \in RoomRows /\ (room[p] = NoRoom => room'[p] = NoRoom)
             /\ StandIns(p)' \subseteq StandIns(p)
  <2>1. CASE room[p].phase = "none" \/ room[p].closed
    BY <2>1 DEF Crash, IInv, Typing, StandIns
  <2>2. CASE ~(room[p].phase = "none" \/ room[p].closed)
    <3>1. PICK rm : rm = [NoRoom EXCEPT !.phase = "lobby", !.seats = room[p].seats,
                                        !.lost = room[p].seats, !.vacant = TRUE]
      OBVIOUS
    <3>2. rm \in RoomRows /\ rm.robots = {}
      BY <3>1 DEF IInv, Typing, RoomRows, Phases, NoRoom
    <3>3. room'[p] = rm
      BY <2>2, <3>1 DEF Crash
    <3>. QED
      BY <2>2, <3>2, <3>3, NoRoomIs DEF StandIns
  <2>. QED
    BY <2>1, <2>2
<1>5. room' \in [Pos -> RoomRows]
  <2>1. room' = [p \in Pos |-> room'[p]]
    BY DEF Crash
  <2>. QED
    BY <1>4, <2>1
<1>6. /\ tick' \in [Ticks -> TickRows] /\ hook' \in [Pos -> HookRows]
      /\ \A t \in Ticks : tick'[t].at = "idle"
      /\ \A p \in Pos : hook'[p].at = "none"
  BY <1>1, <1>2, <1>3
<1>7. Typing'
  BY <1>1, <1>5, <1>6, ScheduleAssumption DEF IInv, Typing
<1>8. RowsGrow /\ SlotsFed'
  BY <1>1, RowsSame, SlotsStay DEF IInv
<1>9. ASSUME NEW p \in Pos PROVE RoomHolds(p)'
  <2>1. RoomHolds(p) /\ (Full(p) => Full(p)') /\ Paired(p)' = Paired(p)
    BY <1>1 DEF IInv, Full, Written, Paired
  <2>. QED
    BY <1>1, <1>4, <1>6, <2>1 DEF RoomHolds
<1>10. \A t \in Ticks : TickHolds(t)'
  BY <1>6 DEF TickHolds
<1>11. TourHolds'
  BY <1>1, <1>8, TourStays DEF IInv
<1>. QED
  BY <1>1, <1>7, <1>8, <1>9, <1>10, <1>11 DEF IInv

-----------------------------------------------------------------------------
(* Every step *)

LEMMA InitHolds == ASSUME Init PROVE IInv
<1>1. Absent \in MatchRows /\ Absent.status = "absent" /\ \A s \in Sides : Absent.slot[s] = NoOne
  BY DEF Absent, MatchRows, Statuses, Outcomes, MaybeOne, Sides
<1>2. NoRoom \in RoomRows /\ NoRoom.robots = {}
  BY DEF NoRoom, RoomRows, Phases
<1>3. Idle \in TickRows /\ Idle.at = "idle"
  BY Sizes DEF Idle, TickRows, Labels, MaybeOne
<1>4. Quiet \in HookRows /\ Quiet.at = "none"
  BY DEF Quiet, HookRows, MaybeOne
<1>5. [status |-> "checkedIn", seeded |-> FALSE] \in RegRows
  BY DEF RegRows
<1>6. Typing
  BY <1>1, <1>2, <1>3, <1>4, <1>5, Sizes, ScheduleAssumption DEF Init, Typing, MaybeOne
<1>7. /\ \A t \in Ticks : tick[t].at = "idle"
      /\ \A p \in Pos : match[p] = Absent /\ room[p] = NoRoom /\ hook[p].at = "none"
      /\ calls = {} /\ takeovers = {}
  BY <1>3, <1>4 DEF Init
<1>8. \A t \in Ticks : TickHolds(t)
  BY <1>7 DEF TickHolds
<1>9. \A p \in Pos : RoomHolds(p)
  BY <1>1, <1>2, <1>7 DEF RoomHolds, StandIns
<1>10. SlotsFed
  BY <1>1, <1>7, NextIsAPosition DEF SlotsFed
<1>11. TourHolds
  <2>1. RoundsInOrder
    BY Positions, Sizes DEF Init, RoundsInOrder, RoundOf
  <2>. QED
    BY <2>1 DEF Init, TourHolds
<1>. QED
  BY <1>6, <1>7, <1>8, <1>9, <1>10, <1>11 DEF IInv

LEMMA PassKeeps ==
  ASSUME IInv, NEW t \in Ticks, Draw(t) \/ Open(t) \/ Progress(t) \/ Sweep(t)
  PROVE  IInv' /\ RowsGrow
<1>1. CASE Draw(t)
  BY <1>1, FreeSteps, WriteSeedsKeeps, WriteMatchesKeeps, ResolveByesKeeps, StartRunningKeeps,
     CancelKeeps, ReleaseKeeps DEF Draw
<1>2. CASE Open(t)
  BY <1>2, LoadOpenableKeeps, ClaimOpenKeeps, OpenRoomKeeps, FreeSteps DEF Open
<1>3. CASE Progress(t)
  BY <1>3, FreeSteps, ReadRoundKeeps, CountRoundKeeps, MoveRoundKeeps, LoadGapsKeeps, GapKeeps,
     CrownKeeps, FinishKeeps DEF Progress
<1>4. CASE Sweep(t)
  BY <1>4, StartSweepKeeps, DecideLapsedKeeps, WalkoverKeeps, AbandonKeeps, DismissKeeps,
     FreeSteps DEF Sweep
<1>. QED
  BY <1>1, <1>2, <1>3, <1>4

LEMMA MatchKeeps ==
  ASSUME IInv, NEW p \in Pos, Engine(p) \/ Seats(p)
  PROVE  IInv' /\ RowsGrow
<1>1. CASE Engine(p)
  BY <1>1, StartClaimKeeps, StartGameKeeps, RevertKeeps, GameEndsKeeps, ReportKeeps,
     CloseReportedKeeps DEF Engine
<1>2. CASE Seats(p)
  BY <1>2, SweepRoomKeeps, EnterKeeps, DropKeeps, LeaveKeeps, ExpireKeeps DEF Seats
<1>. QED
  BY <1>1, <1>2

LEMMA TakeoverKeeps ==
  ASSUME IInv, Takeover
  PROVE  IInv' /\ RowsGrow
BY TakeoverLookKeeps, TakeoverClaimKeeps, TakeoverSeatKeeps, TakeoverEliminateKeeps,
   TakeoverRemoveKeeps DEF Takeover

LEMMA StepKeeps ==
  ASSUME IInv, [Next]_vars
  PROVE  IInv' /\ RowsGrow
<1>1. CASE \E t \in Ticks : Draw(t) \/ Open(t) \/ Progress(t) \/ Sweep(t)
  BY <1>1, PassKeeps
<1>2. CASE Complete
  BY <1>2, CompleteClaimKeeps, CompleteEliminateKeeps, CompleteAdvanceKeeps DEF Complete
<1>3. CASE \E p \in Pos : Engine(p) \/ Seats(p)
  BY <1>3, MatchKeeps
<1>4. CASE Crash
  BY <1>4, CrashKeeps
<1>5. CASE Takeover
  BY <1>5, TakeoverKeeps
<1>6. CASE UNCHANGED vars
  <2>1. UNCHANGED <<tstat, cur, champion, reg, match, room, tick, hook, calls, takeovers, crashes>>
    BY <1>6 DEF vars
  <2>2. RowsGrow /\ SlotsFed' /\ \A p \in Pos : RoomHolds(p)'
    BY <2>1, RowsSame, SlotsStay, RoomStays DEF IInv
  <2>3. Typing'
    BY <2>1 DEF IInv, Typing
  <2>. QED
    BY <2>1, <2>2, <2>3, Assembled
<1>. QED
  BY <1>1, <1>2, <1>3, <1>4, <1>5, <1>6 DEF Next

-----------------------------------------------------------------------------
(* Theorems *)

\* The inductive invariant holds in every state of every tournament.
THEOREM Inductive == Spec => []IInv
<1>1. Init => IInv
  BY InitHolds
<1>2. IInv /\ [Next]_vars => IInv'
  BY StepKeeps
<1>. QED
  BY <1>1, <1>2, PTL DEF Spec

\* Every row, room, pass and hook has its type, whatever interleaving of
\* passes, games and crashes has gone before (the schemas of the tournament,
\* its registrations and its matches).
THEOREM TypeCorrect == Spec => []TypeOK
<1>1. IInv => TypeOK
  BY DEF IInv, Typing, TypeOK, RegRows, MatchRows, RoomRows, TickRows, HookRows, Statuses,
         Outcomes, Phases, TakeoverRows
<1>. QED
  BY <1>1, Inductive, PTL

\* Who climbs the bracket has won there: a walkover, a bye, a stand-in and a
\* played match each name one of the two who are in the row, and a slot is
\* only ever given to the winner of the match that feeds it (completeMatch
\* and advance, match.service.ts).
THEOREM ClimbersHaveWon == Spec => []SlotsAreWon
<1>1. IInv => SlotsAreWon
  BY DEF IInv, RoomHolds, SlotsFed, SlotsAreWon, WonBy
<1>. QED
  BY <1>1, Inductive, PTL

\* One seat of a match at most goes to a stand-in, and it is the seat the row has
\* forfeited: two timers may run out together, and a player may come back, leave
\* or be lost again at every wait of a takeover (the conditional write of the
\* forfeit in replace, standIn.service.ts).
THEOREM OneStandInAMatch == Spec => []OneStandIn
<1>1. IInv => OneStandIn
  BY DEF IInv, RoomHolds, StandIns, OneStandIn
<1>. QED
  BY <1>1, Inductive, PTL

\* Round after round up to one champion: the marker passes no undecided match
\* although the pass that moves it has counted before, and whoever is crowned
\* has won the final (progressRounds and finish, match.service.ts).
THEOREM OneIsCrowned == Spec => []CrownedInOrder
<1>1. IInv => CrownedInOrder
  <2>. SUFFICES ASSUME IInv PROVE CrownedInOrder
    OBVIOUS
  <2>1. \A e, f \in Entrants : reg[e].status = "winner" /\ reg[f].status = "winner" => e = f
    BY DEF IInv, TourHolds, WonBy
  <2>. QED
    BY <2>1 DEF IInv, TourHolds, CrownedInOrder, OneChampion, WonBy
<1>. QED
  BY <1>1, Inductive, PTL

\* A result is written once: two passes, the engine and a sweep may be at one
\* row, and its winner never changes (the condition of completeMatch).
THEOREM ResultsStand == Spec => DecidedOnce
<1>1. IInv /\ [Next]_vars =>
        [\A p \in Pos : match[p].status = "completed" =>
           match'[p].status = "completed" /\ match'[p].winner = match[p].winner]_vars
  BY StepKeeps DEF RowsGrow
<1>. QED
  BY <1>1, Inductive, PTL DEF Spec, DecidedOnce

\* Every step moves the tournament along its path, or leaves it: nothing
\* revives or calls off a tournament that is over (the conditional status
\* writes of seedAndStart, cancel and finish).
THEOREM BracketOnPath == Spec => FollowsPath
<1>1. [Next]_vars => [Path!Next]_PathStatus
  <2>. SUFFICES ASSUME [Next]_vars PROVE tstat' = tstat \/ Path!Next
    BY DEF PathStatus
  <2>1. ASSUME NEW t \in Ticks, Draw(t) \/ Open(t) \/ Progress(t) \/ Sweep(t)
        PROVE  tstat' = tstat \/ Path!Next
    <3>1. \/ tstat' = tstat
          \/ tstat = "sealed" /\ tstat' = "running"
          \/ tstat \in {"sealed", "running"} /\ tstat' = "cancelled"
          \/ tstat = "running" /\ tstat' = "completed"
      BY <2>1 DEF Draw, Open, Progress, Sweep, tourVars,
           SeedStart, ReadField, WriteSeeds, WriteMatches, ResolveByes, StartRunning, Cancel, Release,
           LoadOpenable, ClaimOpen, OpenRoom, OpenDone,
           StartProgress, ReadRound, CountRound, MoveRound, LoadGaps, Gap, GapsDone, Crown, Finish,
           StartSweep, DecideLapsed, Walkover, Abandon, Dismiss, SweepDone
    <3>. QED
      BY <3>1 DEF PathStatus, Path!Next, Path!Run, Path!Cancel, Path!Complete, Path!Before
  <2>2. CASE Complete
    BY <2>2 DEF Complete, CompleteClaim, CompleteEliminate, CompleteAdvance, tourVars
  <2>3. ASSUME NEW p \in Pos, Engine(p) \/ Seats(p) PROVE tstat' = tstat
    BY <2>3 DEF Engine, Seats, StartClaim, StartGame, Revert, GameEnds, Report, CloseReported,
                SweepRoom, Enter, Drop, Leave, Expire, tourVars
  <2>4. CASE Crash \/ Takeover
    BY <2>4 DEF Crash, Takeover, TakeoverLook, TakeoverClaim, TakeoverSeat, TakeoverEliminate,
                TakeoverRemove, tourVars
  <2>5. CASE UNCHANGED vars
    BY <2>5 DEF vars
  <2>. QED
    BY <2>1, <2>2, <2>3, <2>4, <2>5 DEF Next
<1>. QED
  BY <1>1, PTL DEF Spec, FollowsPath, Path!Steps
=============================================================================
