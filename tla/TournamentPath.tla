--------------------------- MODULE TournamentPath ---------------------------
(***************************************************************************)
(* What every reader of a tournament may rely on: the statuses of          *)
(* AUTO_TOURNAMENT_STATUS and the moves between them.  The tournament's    *)
(* own life (Tournament) and its bracket (Bracket) each take part of this  *)
(* path, and every step of either is a step of it or leaves it alone.      *)
(***************************************************************************)
VARIABLE status

Before == {"upcoming", "registration", "starting", "checkIn"}
Over == {"completed", "cancelled"}

Init == status = "upcoming"

Open == status = "upcoming" /\ status' = "registration"
Seal == status = "registration" /\ status' \in {"starting", "checkIn"}
Run == status \in {"starting", "checkIn"} /\ status' = "running"
Complete == status = "running" /\ status' = "completed"
Cancel == status \in Before \cup {"running"} /\ status' = "cancelled"

Next == Open \/ Seal \/ Run \/ Complete \/ Cancel

Steps == [][Next]_status
Spec == Init /\ Steps
=============================================================================
