---------------------------- MODULE GameContract ----------------------------
(***************************************************************************)
(* What a turn-based game promises the platform that hosts it, whatever    *)
(* its rules: the platform saves the match after every action, asks whose  *)
(* turn it is, and pays the players when the status says so.               *)
(***************************************************************************)
CONSTANTS Seats,     \* the players of the platform's room
          Nobody     \* the turn of a match that is not being played

VARIABLES status,    \* "waiting", "playing" or "completed"
          out,       \* players who are not dealt in, or out of the rotation
          turn       \* whose move it is

vars == <<status, out, turn>>

Init == status = "waiting" /\ out \in SUBSET Seats /\ turn = Nobody

\* While a match is played the turn is somebody's who is still in it, and
\* somebody is left to play against.
Playable(gone, holder) ==
    /\ gone \subseteq Seats
    /\ holder \in Seats \ gone
    /\ Seats \ gone # {holder}

Start == /\ status = "waiting"
         /\ out \subseteq out'
         /\ out' \subseteq Seats
         /\ \/ status' = "playing" /\ turn' \in Seats /\ Playable(out', turn')
            \/ status' = "completed" /\ turn' = Nobody

Play == /\ status = "playing"
        /\ out \subseteq out'
        /\ turn' \in Seats
        /\ Playable(out', turn')
        /\ UNCHANGED status

Finish == /\ status = "playing"
          /\ status' = "completed"
          /\ turn' = Nobody
          /\ out \subseteq out'
          /\ out' \subseteq Seats

Next == Start \/ Play \/ Finish

Spec == Init /\ [][Next]_vars
=============================================================================
