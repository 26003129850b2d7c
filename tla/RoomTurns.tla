------------------------------ MODULE RoomTurns ------------------------------
(***************************************************************************)
(* A Scribble & Guess room as the services beside the engine see it: who   *)
(* is seated, who holds the pen, and how far the turn is.                  *)
(* GameEngine implements it (KeepsTurns); the voice channel, the      *)
(* board, the vote to kick and the Stupids are modelled on top of it.      *)
(*                                                                         *)
(* A turn is set up in three segments with the store between them: it is   *)
(* dealt, the round is installed, the words are offered.  What happens to  *)
(* the room meanwhile does not stop the later segments.                    *)
(***************************************************************************)
CONSTANTS Users, Nobody,
          Prompt  \* no turn is dealt and no word is chosen while one is set up

VARIABLES
  phase,    \* "quiet" stands for lobby, starting, paused and gameEnd
  pen,      \* the drawer of room.round, ended or not, or Nobody
  live,     \* room.round exists and has not ended
  dealt,    \* users picked as drawers, whose round is not installed yet
  untold,   \* drawers whose round is installed and not announced yet
  seated, closed

turnVars == <<phase, pen, live, dealt, untold>>
seatVars == <<seated, closed>>
roomVars == <<phase, pen, live, dealt, untold, seated, closed>>

Init ==
  /\ phase = "quiet" /\ pen = Nobody /\ live = FALSE
  /\ dealt = {} /\ untold = {}
  /\ seated \in (SUBSET Users) \ {{}}
  /\ closed = FALSE

\* beginTurn up to its first wait: the round of the last turn is still there.
Deal(u) ==
  /\ ~closed
  /\ Prompt => ~live /\ dealt = {} /\ untold = {}
  /\ phase' = "choosing" /\ dealt' = dealt \cup {u}
  /\ UNCHANGED <<pen, live, untold, seatVars>>

Install(u) ==
  /\ u \in dealt
  /\ pen' = u /\ live' = TRUE
  /\ dealt' = dealt \ {u} /\ untold' = untold \cup {u}
  /\ UNCHANGED <<phase, seatVars>>

\* The canvases are cleared, the words sent and the state broadcast.
Offer(u) ==
  /\ u \in untold /\ untold' = untold \ {u}
  /\ UNCHANGED <<phase, pen, live, dealt, seatVars>>

\* applyWordSelection
Choose ==
  /\ live /\ phase = "choosing" /\ ~closed
  /\ Prompt => dealt = {} /\ untold = {}
  /\ phase' = "drawing"
  /\ UNCHANGED <<pen, live, dealt, untold, seatVars>>

\* endTurn
Score ==
  /\ live /\ ~closed
  /\ phase' = "scored" /\ live' = FALSE
  /\ UNCHANGED <<pen, dealt, untold, seatVars>>

\* pauseForMissingPlayers, endGame and returnToLobby
Quiet ==
  /\ ~closed
  /\ phase' = "quiet" /\ pen' = Nobody /\ live' = FALSE
  /\ UNCHANGED <<dealt, untold, seatVars>>

\* joinRoom of somebody who has no seat.
Come(u) ==
  /\ ~closed /\ u \notin seated
  /\ seated' = seated \cup {u}
  /\ UNCHANGED <<turnVars, closed>>

\* removePlayer
Go(u) ==
  /\ ~closed /\ u \in seated
  /\ seated' = seated \ {u}
  /\ UNCHANGED <<turnVars, closed>>

Close ==
  /\ ~closed /\ closed' = TRUE
  /\ UNCHANGED <<turnVars, seated>>

Next ==
  \/ \E u \in Users : Deal(u) \/ Install(u) \/ Offer(u) \/ Come(u) \/ Go(u)
  \/ Choose \/ Score \/ Quiet \/ Close

Spec == Init /\ [][Next]_roomVars
=============================================================================
