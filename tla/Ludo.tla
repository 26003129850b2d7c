-------------------------------- MODULE Ludo --------------------------------
(***************************************************************************)
(* Ludo (games/adapters.ts): the server rolls, a player moves a token the  *)
(* roll can reach, a landing captures, a six plays again, all tokens home  *)
(* wins.  Positions are the code's: -1 the yard, 0 .. Lap-1 the ring       *)
(* counted from the player's own start, then a private lane up to Home.    *)
(***************************************************************************)
EXTENDS BaseAdapter

CONSTANTS Seats,     \* the players, in the order of the room's seats
          Tokens,    \* tokens each (4)
          Lap,       \* cells of the ring (52)
          Spread,    \* cells between two starts (13)
          Home,      \* where a token is home (56)
          Six,       \* the best throw, which enters a token (6)
          Safe       \* SAFE_SQUARES

VARIABLE state

Yard == -1

Players == ToSet(Seats)

\* A board of this shape (GameAdapters assumes it).
BoardAssumption ==
    \* Two players at least.
    /\ Seats \in Seq(Players)
    /\ Cardinality(Players) >= 2
    /\ {Tokens, Lap, Spread, Home, Six} \subseteq Nat \ {0}
    /\ Lap < Home
    /\ Len(Seats) * Spread <= Lap
    \* A cell is safe for every player or for none.
    /\ Safe \subseteq 0 .. Lap - 1
    /\ 0 \in Safe
    /\ \A c \in 0 .. Lap - 1 : c \in Safe <=> (c + Spread) % Lap \in Safe
    /\ NoOne \notin Players

NoDice == 0

CanMove(position, dice) ==
    /\ dice \in 1 .. Six
    /\ position # Home
    /\ IF position = Yard THEN dice = Six ELSE position + dice <= Home

\* Cells are compared on the ring, each player counting from an own start.
Cell(match, player, position) ==
    (((IndexOf(match.order, player) * Spread) % Lap) + position) % Lap

OnRing(position) == position \in 0 .. Lap - 1

\* Mutant: positions are compared as each player counts them.
CaptureTokens_OwnCount(match, mover, position) ==
    IF ~OnRing(position) \/ position \in Safe THEN match
    ELSE [match EXCEPT !.positions =
            [p \in Players |-> [t \in 1 .. Tokens |->
                IF p # mover /\ match.positions[p][t] = position
                THEN Yard ELSE match.positions[p][t]]]]

\* captureTokens: every opponent's token on the cell goes back to the yard.
CaptureTokens(match, mover, position) ==
    IF ~OnRing(position) \/ position \in Safe THEN match
    ELSE [match EXCEPT !.positions =
            [p \in Players |-> [t \in 1 .. Tokens |->
                LET theirs == match.positions[p][t]
                IN  IF /\ p # mover
                       /\ OnRing(theirs)
                       /\ Cell(match, p, theirs) = Cell(match, mover, position)
                    THEN Yard ELSE theirs]]]

Create ==
    {[status |-> match.status, order |-> match.order, turnIndex |-> match.turnIndex,
      positions |-> [p \in Players |-> [t \in 1 .. Tokens |-> Yard]],
      dice |-> NoDice, winner |-> NoOne] :
        match \in CreateMatch(Seats)}

----------------------------------------------------------------------------

Init == state \in Create

Start == state.status = "waiting" /\ state' = StartMatch(state)

\* A roll nothing can answer passes the turn at once.
Roll(player) ==
    /\ RequireTurn(state, player)
    /\ state.dice = NoDice
    /\ \E dice \in 1 .. Six :
          state' = IF \E t \in 1 .. Tokens : CanMove(state.positions[player][t], dice)
                   THEN [state EXCEPT !.dice = dice]
                   ELSE NextTurn(state)

MayMove(player, token) ==
    /\ RequireTurn(state, player)
    /\ CanMove(state.positions[player][token], state.dice)

Move(player, token) ==
    /\ MayMove(player, token)
    /\ LET before == state.positions[player][token]
           after == IF before = Yard THEN 0 ELSE before + state.dice
           moved == [CaptureTokens([state EXCEPT !.positions[player][token] = after],
                                   player, after) EXCEPT !.dice = NoDice]
       IN  state' = IF \A t \in 1 .. Tokens : moved.positions[player][t] = Home
                    THEN [moved EXCEPT !.status = "completed", !.winner = player]
                    ELSE IF state.dice = Six THEN moved ELSE NextTurn(moved)

Next == \/ Start
        \/ \E player \in Players : Roll(player)
        \/ \E player \in Players, token \in 1 .. Tokens : Move(player, token)

----------------------------------------------------------------------------

\* Whose turn it is can roll, or has a token the roll on the table can move: a
\* roll is refused while one lies there, so there would be no other way on.
CanAct ==
    state.status = "playing" =>
        \E player \in Players :
            /\ RequireTurn(state, player)
            /\ \/ state.dice = NoDice
               \/ \E token \in 1 .. Tokens : MayMove(player, token)

\* Off the safe cells no cell of the ring holds tokens of two players.
CellsAreHeld ==
    \A p, q \in Players : \A t, u \in 1 .. Tokens :
        LET a == state.positions[p][t]
            b == state.positions[q][u]
        IN  (/\ p # q
             /\ OnRing(a) /\ OnRing(b)
             /\ Cell(state, p, a) = Cell(state, q, b)) => a \in Safe

\* The winner, and nobody else, has every token home.
FairlyLost ==
    LET done == {p \in Players : \A t \in 1 .. Tokens : state.positions[p][t] = Home}
    IN  done = IF state.status = "completed" THEN {state.winner} ELSE {}
=============================================================================
