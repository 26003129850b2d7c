---------------------------- MODULE GuesserVoice ----------------------------
(***************************************************************************)
(* The voice channel of a drawing room (services/voice.service and         *)
(* socket/voice.socket): the guessers talk while a turn or its scoreboard  *)
(* is up, and the drawer is not among them.  A join asks for the rule at   *)
(* once; whoever stops qualifying is hung up when the room's state is next *)
(* broadcast (gameService.broadcastState), which is some store calls after *)
(* the change.                                                             *)
(*                                                                         *)
(* Left out: microphones, the relay of offers and answers, the host's      *)
(* switch, which no room changes while it is played, and the seats no      *)
(* account is connected to.                                                *)
(***************************************************************************)
CONSTANTS Users, Nobody, Prompt

VARIABLES phase, pen, live, dealt, untold, seated, closed,  \* RoomTurns
          members   \* room.voice.members

roomVars == <<phase, pen, live, dealt, untold, seated, closed>>
vars == <<phase, pen, live, dealt, untold, seated, closed, members>>

Room == INSTANCE RoomTurns

\* isVoicePhase
VoicePhase == ~closed /\ phase \in {"choosing", "drawing", "scored"}

\* Mutant: everybody in the room may talk.
MayUse_DrawerToo(u) == u \in seated /\ VoicePhase

\* assertMayUseVoice
MayUse(u) == u \in seated /\ u # pen /\ VoicePhase

OwnInit == members = {}
Init == Room!Init /\ OwnInit

\* reconcile: the members left once the broadcast has seen the room; nothing the
\* rule asks about changes in a step that broadcasts.
Reconcile == members' = {u \in members : MayUse(u)}

Join(u) ==
  /\ MayUse(u)
  /\ members' = members \cup {u}
  /\ UNCHANGED roomVars

\* The player's own leave, and the drop of their socket.
Leave(u) ==
  /\ u \in members
  /\ members' = members \ {u}
  /\ UNCHANGED roomVars

\* A turn is announced: the words go out, and the state with them.
Announce(u) == Room!Offer(u) /\ Reconcile

\* broadcastState for any other reason, at any moment.
Broadcast == Reconcile /\ UNCHANGED roomVars

\* close: nobody will be broadcast to, so the group is dropped here.
CloseRoom == Room!Close /\ members' = {}

\* The room changes, and has not said so yet.
RoomMoves ==
  /\ \/ Room!Choose \/ Room!Score \/ Room!Quiet
     \/ \E u \in Users : \/ Room!Deal(u) \/ Room!Install(u)
                         \/ Room!Come(u) \/ Room!Go(u)
  /\ UNCHANGED members

Next ==
  \/ \E u \in Users : Join(u) \/ Leave(u) \/ Announce(u)
  \/ Broadcast \/ CloseRoom \/ RoomMoves

Spec == Init /\ [][Next]_vars

-----------------------------------------------------------------------------

\* Nobody hears the guessers while they know the word: from the moment a turn is
\* announced until it is scored the drawer is no member, whoever drew the turn
\* before, whatever was joined while it was dealt and whichever broadcast came
\* last; and a closed room holds nobody's connection (reconcile, join, clear).
DrawerIsDeaf ==
  /\ live /\ pen \notin untold => pen \notin members
  /\ closed => members = {}
=============================================================================
