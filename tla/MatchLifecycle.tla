--------------------------- MODULE MatchLifecycle ---------------------------
(***************************************************************************)
(* What a room promises about its matches, without seats, timers or        *)
(* connections: the state diagram at the head of game.service.ts, with the *)
(* round a match is in and the results recorded for it.                    *)
(*                                                                         *)
(* A match starts at round 1 and never goes back; a result is recorded on  *)
(* the way to the standings, once, and under the id the match was given    *)
(* when it started; a pause keeps the round.                               *)
(***************************************************************************)
EXTENDS Naturals

CONSTANT Rounds

VARIABLES
  stage,     \* the phase of the room, or "closed"
  roundNo,   \* the round the match is in, 0 in the lobby
  filed,     \* the match has a row in the store, and its id
  recorded   \* results recorded for the match last started

vars == <<stage, roundNo, filed, recorded>>

Live == {"starting", "wordSelection", "drawing", "roundEnd"}

Init == stage = "lobby" /\ roundNo = 0 /\ ~filed /\ recorded = 0

StartMatch ==
  /\ stage = "lobby"
  /\ stage' = "starting" /\ roundNo' = 1 /\ recorded' = 0
  /\ UNCHANGED filed

FileMatch ==
  /\ stage = "starting" /\ ~filed /\ filed' = TRUE
  /\ UNCHANGED <<stage, roundNo, recorded>>

OpenTurn ==
  /\ stage \in {"starting", "roundEnd"}
  /\ stage' = "wordSelection"
  /\ roundNo' \in {roundNo, roundNo + 1} /\ roundNo' <= Rounds
  /\ UNCHANGED <<filed, recorded>>

StartDrawing ==
  /\ stage = "wordSelection" /\ stage' = "drawing"
  /\ UNCHANGED <<roundNo, filed, recorded>>

\* A turn is scored; one whose drawer left while choosing is too.
CloseTurn ==
  /\ stage \in {"wordSelection", "drawing"} /\ stage' = "roundEnd"
  /\ UNCHANGED <<roundNo, filed, recorded>>

FinishMatch ==
  /\ stage \in {"starting", "roundEnd"} /\ filed /\ recorded = 0
  /\ stage' = "gameEnd" /\ roundNo' = Rounds /\ recorded' = 1
  /\ UNCHANGED filed

PauseMatch ==
  /\ stage \in Live /\ stage' = "paused"
  /\ UNCHANGED <<roundNo, filed, recorded>>

ResumeMatch ==
  /\ stage = "paused" /\ stage' = "starting"
  /\ UNCHANGED <<roundNo, filed, recorded>>

ReturnToLobby ==
  /\ stage = "gameEnd" /\ stage' = "lobby" /\ roundNo' = 0
  /\ filed' = FALSE /\ UNCHANGED recorded

CloseRoom ==
  /\ stage # "closed" /\ stage' = "closed"
  /\ UNCHANGED <<roundNo, filed, recorded>>

Next ==
  \/ StartMatch \/ FileMatch \/ OpenTurn \/ StartDrawing \/ CloseTurn \/ FinishMatch
  \/ PauseMatch \/ ResumeMatch \/ ReturnToLobby \/ CloseRoom

Spec == Init /\ [][Next]_vars

=============================================================================
