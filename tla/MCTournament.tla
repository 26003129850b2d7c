---------------------------- MODULE MCTournament ----------------------------
EXTENDS Tournament, TLC

CONSTANTS u1, b1, b2, b3, t1, t2, s1, s2

ThreeBots == <<b1, b2, b3>>
TwoServers == (t1 :> s1) @@ (t2 :> s2) @@ (u1 :> s1)
OneServer == (t1 :> s1) @@ (u1 :> s1)
=============================================================================
