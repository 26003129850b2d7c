--------------------------- MODULE MCGameAdapters ---------------------------
EXTENDS GameAdapters, TLC

CONSTANTS p1, p2, p3, p4,       \* the players of the turn-based games
          b1, h1, h2, h3,       \* the crew: a Stupid and three people
          table, far

FourSeats == <<p1, p2, p3, p4>>
ThreeSeats == <<p1, p2, p3>>
TwoSeats == <<p1, p2>>

TheSafe == {0, 3}

TheCrew == {b1, h1, h2, h3}
TheBots == {b1}

AllPlaces == {table, far}
FarOnly == {far}

People == Permutations({h1, h2, h3})
=============================================================================
