---------------------------- MODULE ShipMeetings ----------------------------
(***************************************************************************)
(* A Space Mystery match as the rest of the platform sees it: who is       *)
(* alive, whether a meeting is open, and whether it is over.  The engine   *)
(* implements it and the voice service is built on it.                     *)
(***************************************************************************)
CONSTANT Players

VARIABLES alive, meeting, over

vars == <<alive, meeting, over>>

Init == alive = Players /\ meeting = FALSE /\ over = FALSE

\* A body reported or an emergency called.
Open == /\ ~over /\ ~meeting
        /\ meeting' = TRUE
        /\ UNCHANGED <<alive, over>>

\* An elimination, which may decide the match.
Die == /\ ~over /\ ~meeting
       /\ \E victim \in alive : alive' = alive \ {victim}
       /\ over' \in BOOLEAN
       /\ UNCHANGED meeting

\* The count, which ejects at most one and may decide the match.
Close == /\ ~over /\ meeting
         /\ meeting' = FALSE
         /\ alive' = alive \/ \E ejected \in alive : alive' = alive \ {ejected}
         /\ over' \in BOOLEAN

\* The last repair or a reactor nobody held.  The tick that finishes a repair
\* may also have opened a meeting, so a match can end with one open.
Decide == /\ ~over
          /\ over' = TRUE
          /\ UNCHANGED <<alive, meeting>>

Next == Open \/ Die \/ Close \/ Decide

Spec == Init /\ [][Next]_vars
=============================================================================
