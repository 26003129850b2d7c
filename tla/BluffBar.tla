------------------------------ MODULE BluffBar ------------------------------
(***************************************************************************)
(* Bluff Bar (games/bluffBar.adapter.ts): claim cards of the called rank   *)
(* face down, or call the last claim.  Whoever is wrong drinks one of the  *)
(* glasses on their tray, and one glass of the tray is the last.           *)
(*                                                                         *)
(* All a rule asks of a card is whether it plays as the table's rank, so a *)
(* hand is two counts and the pile a sequence of truth values.  A reaction *)
(* touches no rule, and the round number none either: both are left out.   *)
(***************************************************************************)
EXTENDS BaseAdapter, FiniteSetsExt

CONSTANTS Seats,     \* the players, in the order of the room's seats
          HandSize,  \* HAND_SIZE, cards dealt to each player (5)
          TraySize,  \* TRAY_SIZE, glasses to begin with (6)
          NumRanks,  \* how many TABLE_RANKS there are (3)
          NumJokers  \* how many JOKERS there are (2)

VARIABLE state

Players == ToSet(Seats)

\* The constants as the file declares them (GameAdapters assumes it).
BarAssumption ==
    \* A seat is one player's, and two at least sit down.
    /\ Seats \in Seq(Players)
    /\ \A i, j \in DOMAIN Seats : Seats[i] = Seats[j] => i = j
    /\ Len(Seats) >= 2
    /\ NoOne \notin Players
    /\ {HandSize, TraySize, NumRanks} \subseteq Nat \ {0}
    /\ NumJokers \in Nat
    \* buildShoe() deals exactly HandSize to each only if the ranks fit.
    /\ 2 * HandSize >= NumRanks

MaxClaim == 3

Faces(players) == Max({NumRanks, players * HandSize - NumJokers})

\* buildShoe: how many cards of a full shoe play as the i-th rank, jokers in.
Supply(players, rank) ==
    (Faces(players) + NumRanks - rank) \div NumRanks
        + (players * HandSize - Faces(players))

Empty == [true |-> 0, false |-> 0]

Size(hand) == hand.true + hand.false

\* The sum of f over S, card by card: f counts cards of a hand, so it is at
\* most HandSize.
SumOf(f, S) == Cardinality({card \in S \X (1 .. HandSize) : card[2] <= f[card[1]]})

Alive(match) == Filter(Seats, Players \ ToSet(match.eliminated))

\* Ends the match once one drinker is left standing.
Resolve(match) ==
    IF Len(Alive(match)) > 1 THEN match
    ELSE [match EXCEPT !.status = "completed",
                       !.winners = ToSet(Alive(match))]

\* Every way to split a shoe with `supply` honest cards between the players.
Splits(players, supply) ==
    {t \in [players -> 0 .. HandSize] : SumOf(t, players) = supply}

\* deal(): a fresh shoe, a fresh rank, the pile swept; the lead acts first.
Deal(match, lead) ==
    LET alive == Alive(match)
        first == IF Contains(alive, lead) THEN lead ELSE alive[1]
    IN  IF match.status # "playing" THEN {match}
        ELSE IF Len(alive) <= 1 THEN {Resolve(match)}
        ELSE UNION {{[match EXCEPT
                !.hands = [p \in Players |->
                    IF Contains(alive, p)
                    THEN [true |-> honest[p], false |-> HandSize - honest[p]]
                    ELSE Empty],
                !.supply = supply,
                !.pile = <<>>,
                !.lastClaim = [by |-> NoOne, count |-> 0],
                !.order = alive,
                !.turnIndex = IndexOf(alive, first)] :
              honest \in Splits(ToSet(alive), supply)} :
            supply \in {Supply(Len(alive), rank) : rank \in 1 .. NumRanks}}

Create ==
    {[status |-> match.status, order |-> match.order, turnIndex |-> match.turnIndex,
      hands |-> [p \in Players |-> Empty],
      glasses |-> [p \in Players |-> TraySize],
      eliminated |-> <<>>, supply |-> 0, pile |-> <<>>,
      lastClaim |-> [by |-> NoOne, count |-> 0], winners |-> {}] :
        match \in CreateMatch(Seats)}

----------------------------------------------------------------------------

RemainingHolders(match) ==
    {p \in ToSet(Alive(match)) : Size(match.hands[p]) > 0}

\* The next in the rotation who is alive and still holds cards, at most one
\* lap on; if there is none the turn stays where it is.
PassTurn(match, from) ==
    LET start == Max({0, IndexOf(match.order, from)})
        Seat(step) == (start + step) % Len(match.order)
        laps == {step \in 1 .. Len(match.order) :
                    match.order[Seat(step) + 1] \in RemainingHolders(match)}
    IN  IF laps = {} THEN match
        ELSE [match EXCEPT !.turnIndex = Seat(Min(laps))]

\* Mutant: the last glass is a gamble too.
PourShot_LastIsAGamble(match, player) ==
    LET drunk == [match EXCEPT !.glasses[player] = Max({0, @ - 1})]
        out == [drunk EXCEPT !.eliminated = Append(@, player),
                             !.order = Without(@, player)]
    IN  {Resolve(out), drunk}

\* One glass off the tray: the bad one with chance 1/glasses, so surely when
\* it is the last.
PourShot(match, player) ==
    LET before == Max({1, match.glasses[player]})
        drunk == [match EXCEPT !.glasses[player] = before - 1]
        out == [drunk EXCEPT !.eliminated = Append(@, player),
                             !.order = Without(@, player)]
    IN  {Resolve(out)} \cup (IF before = 1 THEN {} ELSE {drunk})

\* The claim is the last `count` cards of the pile, honest only if all are.
Honest(match) ==
    LET count == match.lastClaim.count
        revealed == SubSeq(match.pile, Max({0, Len(match.pile) - count}) + 1, Len(match.pile))
    IN  revealed # <<>> /\ \A i \in DOMAIN revealed : revealed[i]

----------------------------------------------------------------------------

Init == state \in Create

Start == /\ state.status = "waiting"
         /\ state' \in Deal(StartMatch(state), NoOne)

MayDeclare(player, cards) ==
    /\ RequireTurn(state, player)
    /\ ~Contains(state.eliminated, player)
    /\ Size(cards) \in 1 .. MaxClaim
    /\ cards.true <= state.hands[player].true
    /\ cards.false <= state.hands[player].false

\* Cards go down; the round dies quietly when at most one hand is left, and
\* then nobody can call what was just claimed.
Declare(player, cards) ==
    /\ MayDeclare(player, cards)
    /\ LET down == [state EXCEPT
                      !.hands[player] = [true |-> @.true - cards.true,
                                         false |-> @.false - cards.false],
                      !.pile = @ \o [i \in 1 .. Size(cards) |-> i <= cards.true],
                      !.lastClaim = [by |-> player, count |-> Size(cards)]]
       IN  IF Cardinality(RemainingHolders(down)) <= 1
           THEN state' \in Deal(down, player)
           ELSE state' = PassTurn(down, player)

MayChallenge(player) ==
    /\ RequireTurn(state, player)
    /\ ~Contains(state.eliminated, player)
    /\ state.lastClaim.by \notin {NoOne, player}

\* resolveChallenge: the wrong one drinks, and leads the next round if alive.
Challenge(player) ==
    /\ MayChallenge(player)
    /\ LET loser == IF Honest(state) THEN player ELSE state.lastClaim.by
       IN  \E poured \in PourShot(state, loser) :
              state' \in (IF poured.status = "playing" THEN Deal(poured, loser)
                                                       ELSE {poured})

CardChoices == [true : 0 .. MaxClaim, false : 0 .. MaxClaim]

Next == \/ Start
        \/ \E player \in Players :
              \/ \E cards \in CardChoices : Declare(player, cards)
              \/ Challenge(player)

----------------------------------------------------------------------------

\* Whose turn it is always has a card to put down.
CanAct ==
    state.status = "playing" =>
        \E player \in Players, cards \in CardChoices : MayDeclare(player, cards)

\* The counting argument: nothing leaves the table within a round, and the
\* cards that play as the rank are as many as the composition says.
DeckIsWhole ==
    LET honest == [p \in Players |-> state.hands[p].true]
        sizes == [p \in Players |-> Size(state.hands[p])]
    IN  state.status = "playing" =>
        /\ SumOf(honest, Players) + Cardinality({i \in DOMAIN state.pile : state.pile[i]})
             = state.supply
        /\ SumOf(sizes, Players) + Len(state.pile) = HandSize * Len(Alive(state))

\* One drinker is left, with a glass: the sixth is not a gamble, so nobody
\* alive has an empty tray.
FairlyLost ==
    /\ \A p \in ToSet(Alive(state)) : state.glasses[p] > 0
    /\ state.status = "completed" =>
          /\ state.winners = Players \ ToSet(state.eliminated)
          /\ Cardinality(state.winners) = 1

Out == ToSet(state.eliminated)
=============================================================================
