----------------------------- MODULE BaseAdapter -----------------------------
(***************************************************************************)
(* The mechanics every turn-based adapter shares (games/adapter.base.ts).  *)
(* A match is one record, the document the platform stores as              *)
(* match.privateState; `order` is the rotation and `turnIndex` a position  *)
(* in it, counted from 0 as in the code.  An adapter is a set of functions *)
(* from that record to the next one.                                       *)
(***************************************************************************)
EXTENDS Integers, Sequences, FiniteSets, SequencesExt, Filter

CONSTANT NoOne       \* the code's null where a player id could stand

\* strings(state.order).filter((id) => id !== playerId)
Without(order, player) == Filter(order, ToSet(order) \ {player})

\* 0-based, as indexOf; -1 when the player is not in the rotation.
IndexOf(order, player) ==
    IF Contains(order, player)
    THEN (CHOOSE i \in DOMAIN order : order[i] = player) - 1
    ELSE -1

Turn(state) ==
    IF state.turnIndex + 1 \in DOMAIN state.order
    THEN state.order[state.turnIndex + 1]
    ELSE NoOne

NextTurn(state) ==
    IF state.order = <<>> THEN state
    ELSE [state EXCEPT !.turnIndex = (@ + 1) % Len(state.order)]

RequireTurn(state, player) == state.status = "playing" /\ Turn(state) = player

\* createMatch: every rotation a shuffle of the seats can leave.
CreateMatch(seats) ==
    {[status |-> "waiting", order |-> order, turnIndex |-> 0] :
        order \in SetToSeqs(ToSet(seats))}

StartMatch(state) == [state EXCEPT !.status = "playing"]
=============================================================================
