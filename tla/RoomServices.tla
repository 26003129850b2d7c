----------------------------- MODULE RoomServices -----------------------------
(***************************************************************************)
(* What rides on a room beside its game: the two voice channels, the board,*)
(* the vote to kick and the Stupids.  Each looks at the room and none at   *)
(* the others, so a behaviour follows one of them, in a room of its own    *)
(* size.  The ship's channel follows ShipMeetings; the rest follow         *)
(* RoomTurns, which GameEngine implements.                                 *)
(*                                                                         *)
(* The board is followed with Prompt: it is compared with the canvases in  *)
(* rooms where nothing else happens while a turn is set up.                *)
(***************************************************************************)
EXTENDS PlatformVoice

CONSTANTS Nobody,
          Talkers, Voters, Painters, Company,      \* who may sit in the room
          Ids, MaxStrokes, MaxPoints, MaxBatch,    \* Board
          Bots, MaxTries, MaxTurns                 \* ScribbleBots

ASSUME ServicesAssumption ==
  /\ IsFiniteSet(Voters) /\ Nobody \notin Voters
  /\ MaxPoints \in Nat /\ MaxBatch \in Nat

VARIABLES
  part,                                                   \* what is followed
  phase, pen, live, dealt, untold, seated, closed,  \* RoomTurns
  talking,                                                \* GuesserVoice
  host, poll, lapsed, clock,                              \* VoteKick
  relay, strokes, redo, clearing, watching, waiting, screen, \* Board
  turn, guessed, task, late, sessions, pictures, tired    \* ScribbleBots

roomVars == <<phase, pen, live, dealt, untold, seated, closed>>
kickVars == <<host, poll, lapsed, clock>>
boardVars == <<relay, strokes, redo, clearing, watching, waiting, screen>>
botVars == <<turn, guessed, task, late, sessions, pictures, tired>>
allVars == <<part, vars, roomVars, talking, kickVars, boardVars, botVars>>

Voice == INSTANCE GuesserVoice WITH
           Users <- Talkers, Prompt <- FALSE, members <- talking
Kick == INSTANCE VoteKick WITH Users <- Voters, Prompt <- FALSE
Canvas == INSTANCE Board WITH
           Users <- Painters, Prompt <- TRUE, channel <- watching
Stupids == INSTANCE ScribbleBots WITH Users <- Company, Prompt <- FALSE

RoomInit ==
  CASE part = "voice" -> Voice!Room!Init
    [] part = "kick" -> Kick!Room!Init
    [] part = "board" -> Canvas!Room!Init
    [] part = "bots" -> Stupids!Room!Init
    [] OTHER -> phase = "quiet" /\ pen = Nobody /\ live = FALSE
                /\ dealt = {} /\ untold = {}
                /\ seated = {} /\ closed = FALSE

ServicesInit ==
  /\ part \in {"ship", "voice", "kick", "board", "bots"}
  /\ Init
  /\ Voice!OwnInit /\ Kick!OwnInit /\ Canvas!OwnInit /\ Stupids!OwnInit
  /\ relay => part = "board"
  /\ RoomInit
  /\ host \in IF part = "kick" THEN seated ELSE {Nobody}

TalkOnShip ==
  /\ part = "ship" /\ Next
  /\ UNCHANGED <<part, roomVars, talking, kickVars, boardVars, botVars>>

TalkInTurns ==
  /\ part = "voice" /\ Voice!Next
  /\ UNCHANGED <<part, vars, kickVars, boardVars, botVars>>

VoteToKick ==
  /\ part = "kick" /\ Kick!Next
  /\ UNCHANGED <<part, vars, talking, boardVars, botVars>>

Draw ==
  /\ part = "board" /\ Canvas!Next
  /\ UNCHANGED <<part, vars, talking, kickVars, botVars>>

StupidsPlay ==
  /\ part = "bots" /\ Stupids!Next
  /\ UNCHANGED <<part, vars, talking, kickVars, boardVars>>

ServicesNext == TalkOnShip \/ TalkInTurns \/ VoteToKick \/ Draw \/ StupidsPlay

ServicesSpec == ServicesInit /\ [][ServicesNext]_allVars /\ Fairness

-----------------------------------------------------------------------------

\* Nobody hears the guessers while they know the word, whichever change of turn,
\* join and broadcast came last, and a closed room holds nobody's connection.
DrawerIsDeaf == part = "voice" => Voice!DrawerIsDeaf

\* A poll is about somebody seated and counts the votes of people still seated,
\* whoever has come and gone since it was opened.
PollStands == part = "kick" => Kick!PollStands

\* Every guesser sees the drawing the server keeps, stroke for stroke, from
\* events that come once each and a snapshot that may come in the middle.
BoardsAgree == part = "board" => Canvas!BoardsAgree

\* A Stupid draws the picture of its turn once, however often the room is
\* broadcast and its tasks end or are cancelled meanwhile.
OnePicture == part = "bots" => Stupids!OnePicture
=============================================================================
