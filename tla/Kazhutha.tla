------------------------------ MODULE Kazhutha ------------------------------
(***************************************************************************)
(* Kazhutha (games/kazhutha.adapter.ts): draw a card from another hand,    *)
(* lay every pair, do not be left with the queen.                          *)
(*                                                                         *)
(* Pairs are by rank, so after discardPairs a hand holds at most one card  *)
(* of a rank and is modelled as a set of ranks; suits, the order of a fan  *)
(* and the face-up discards tell no property apart.                        *)
(***************************************************************************)
EXTENDS BaseAdapter

CONSTANTS Seats,     \* the players, in the order of the room's seats
          Ranks,     \* the ranks dealt in full, four cards each
          Donkey     \* the lone queen's rank

VARIABLE state

Players == ToSet(Seats)

\* Two players at least; the lone queen is dealt apart from the full ranks
\* (GameAdapters assumes it).
RanksAssumption ==
    /\ Seats \in Seq(Players)
    /\ Cardinality(Players) >= 2
    /\ NoOne \notin Players
    /\ IsFiniteSet(Ranks)
    /\ Donkey \notin Ranks

Even(n) == n % 2 = 0

Holders(hands, rank) == {p \in Players : rank \in hands[p]}

\* One card at a time round the table, so hands differ by at most one.
DealtTo(i) == (4 * Cardinality(Ranks) + 1 + Len(Seats) - i) \div Len(Seats)

\* What the opening discard can leave of a deal: of every full rank an even
\* number of odd cards, the queen in one hand, and every seat short of what it
\* was dealt by whole pairs.
Hands ==
    {hands \in [Players -> SUBSET (Ranks \cup {Donkey})] :
        /\ \A r \in Ranks : /\ Even(Cardinality(Holders(hands, r)))
                            /\ Cardinality(Holders(hands, r)) <= 4
        /\ Cardinality(Holders(hands, Donkey)) = 1
        /\ \A i \in DOMAIN Seats :
              /\ Cardinality(hands[Seats[i]]) <= DealtTo(i)
              /\ Even(DealtTo(i) - Cardinality(hands[Seats[i]]))}

Create ==
    {[status |-> match.status, order |-> match.order, turnIndex |-> match.turnIndex,
      hands |-> hands, finishOrder |-> <<>>, loser |-> NoOne] :
        match \in CreateMatch(Seats), hands \in Hands}

----------------------------------------------------------------------------

\* Going out is winning: the seat leaves the rotation with a place.  The turn
\* index is repaired when an earlier entry goes.
Retire(match, player) ==
    LET index == IndexOf(match.order, player)
    IN  IF index < 0 THEN match
        ELSE [match EXCEPT
                !.order = Without(@, player),
                !.turnIndex = IF index < @ THEN @ - 1 ELSE @,
                !.finishOrder = Append(@, player)]

RetireIfEmpty(match, player) ==
    IF match.hands[player] = {} THEN Retire(match, player) ELSE match

\* Mutant: over only when nobody is left.
Resolve_NobodyLeft(match) ==
    IF match.status \notin {"playing", "waiting"} \/ match.order # <<>> THEN match
    ELSE [match EXCEPT !.status = "completed"]

\* resolve(): over once at most one player is left holding cards.
Resolve(match) ==
    IF match.status \notin {"playing", "waiting"} \/ Len(match.order) > 1 THEN match
    ELSE [match EXCEPT !.status = "completed",
                       !.loser = IF match.order = <<>> THEN NoOne ELSE match.order[1]]

\* Mutant: the index is left where retire put it, past the end included.
AdvanceFrom_NoWrap(match, player) ==
    LET index == IndexOf(match.order, player)
    IN  IF index < 0 THEN match ELSE NextTurn([match EXCEPT !.turnIndex = index])

\* Counted from the player who acted.  If they went out on their own turn,
\* `turnIndex` already points at the seat that moved down into their place.
AdvanceFrom(match, player) ==
    LET index == IndexOf(match.order, player)
    IN  IF match.order = <<>> THEN match
        ELSE IF index < 0
             THEN [match EXCEPT !.turnIndex = @ % Len(match.order)]
             ELSE NextTurn([match EXCEPT !.turnIndex = index])

\* Pushing a drawn card and laying what pairs.
LayPairs(hand, rank) == IF rank \in hand THEN hand \ {rank} ELSE hand \cup {rank}

\* The hands once a card has gone from the target's fan to the player's.
Drawn(hands, target, player, card) ==
    [hands EXCEPT ![target] = @ \ {card}, ![player] = LayPairs(@, card)]

----------------------------------------------------------------------------

Init == state \in Create

\* startMatch: seats that paired their whole hand are out before the first turn.
Start ==
    /\ state.status = "waiting"
    /\ LET settled[n \in 0 .. Len(state.order)] ==
             IF n = 0 THEN StartMatch(state)
                      ELSE RetireIfEmpty(settled[n - 1], state.order[n])
       IN  state' = Resolve(settled[Len(state.order)])

MayDraw(player, target) ==
    /\ RequireTurn(state, player)
    /\ target # player
    /\ Contains(state.order, target)
    /\ state.hands[target] # {}

\* handlePlayerAction: the fan is shuffled, so any card may be the one drawn.
\* Target first, then the drawer: both may have gone out.
Draw(player, target) ==
    /\ MayDraw(player, target)
    /\ \E card \in state.hands[target] :
          LET drawn == [state EXCEPT !.hands = Drawn(@, target, player, card)]
              settled == Resolve(RetireIfEmpty(RetireIfEmpty(drawn, target), player))
          IN  state' = IF settled.status = "playing"
                       THEN AdvanceFrom(settled, player)
                       ELSE settled

Next == \/ Start
        \/ \E player, target \in Players : Draw(player, target)

----------------------------------------------------------------------------

\* Whose turn it is can be played: somebody else still holds cards.
CanAct == state.status = "playing" =>
              \E player, target \in Players : MayDraw(player, target)

\* No card is lost or copied by a draw: every full rank is held an even number
\* of times, and the queen exactly once.
DeckIsWhole ==
    /\ \A r \in Ranks : Even(Cardinality(Holders(state.hands, r)))
    /\ Cardinality(Holders(state.hands, Donkey)) = 1

\* Everybody else went out, once each, with an empty hand; the one left holds
\* the queen "and nothing else" (resolve's comment).
FairlyLost ==
    state.status = "completed" =>
        /\ state.loser # NoOne
        /\ state.hands[state.loser] = {Donkey}
        /\ ToSet(state.finishOrder) = Players \ {state.loser}
        /\ Len(state.finishOrder) = Cardinality(Players) - 1

Out == Players \ ToSet(state.order)
=============================================================================
