---------------------------- MODULE GameAdapters ----------------------------
(***************************************************************************)
(* The registry of games/adapters.ts: a platform room's match is a game id *)
(* and the record its adapter folds actions into.  The games are composed  *)
(* here, and each is shown to keep the promise the rest of the platform    *)
(* relies on: GameContract where there are turns, ShipMeetings on the      *)
(* ship.  Scribble & Guess is delegated to its own engine.                 *)
(***************************************************************************)
EXTENDS BaseAdapter

CONSTANTS KazhuthaSeats, BluffSeats, LudoSeats, ShipSeats,   \* who is dealt in
          Ranks, Donkey,                                  \* Kazhutha
          HandSize, TraySize, NumRanks, NumJokers,        \* Bluff Bar
          Tokens, Lap, Spread, Home, Six, Safe,           \* Ludo
          Bots, TraitorCount, Places, Table, BreachPlaces,
          VentPlaces, Stations, TasksEach, EmergenciesEach, MaxCallers \* Space Mystery

VARIABLES gameId, state

vars == <<gameId, state>>

KazhuthaGame == INSTANCE Kazhutha WITH Seats <- KazhuthaSeats
BluffBarGame == INSTANCE BluffBar WITH Seats <- BluffSeats
LudoGame == INSTANCE Ludo WITH Seats <- LudoSeats
SpaceGame == INSTANCE SpaceMystery WITH Players <- ShipSeats

ASSUME GamesAssumption ==
    /\ KazhuthaGame!RanksAssumption
    /\ BluffBarGame!BarAssumption
    /\ LudoGame!BoardAssumption
    /\ SpaceGame!ShipAssumption

Init ==
    \/ gameId = "KAZHUTHA" /\ KazhuthaGame!Init
    \/ gameId = "BLUFF_BAR" /\ BluffBarGame!Init
    \/ gameId = "LUDO" /\ LudoGame!Init
    \/ gameId = "SPACE_MYSTERY" /\ SpaceGame!Init

PlayKazhutha == gameId = "KAZHUTHA" /\ KazhuthaGame!Next /\ UNCHANGED gameId
PlayBluffBar == gameId = "BLUFF_BAR" /\ BluffBarGame!Next /\ UNCHANGED gameId
PlayLudo == gameId = "LUDO" /\ LudoGame!Next /\ UNCHANGED gameId
PlaySpaceMystery == gameId = "SPACE_MYSTERY" /\ SpaceGame!Next /\ UNCHANGED gameId

Next == PlayKazhutha \/ PlayBluffBar \/ PlayLudo \/ PlaySpaceMystery

Spec == Init /\ [][Next]_vars

----------------------------------------------------------------------------

\* A match never stalls: whoever is on turn has a legal action, in every game.
\* The turn index is repaired by hand whenever somebody leaves the rotation
\* (retire, advanceFrom, passTurn, deal), and a slip would strand the table.
\* On the ship there are no turns, but an open vote still waits for somebody.
NeverStalls ==
    CASE gameId = "KAZHUTHA" -> KazhuthaGame!CanAct
      [] gameId = "BLUFF_BAR" -> BluffBarGame!CanAct
      [] gameId = "LUDO" -> LudoGame!CanAct
      [] gameId = "SPACE_MYSTERY" -> SpaceGame!VoteIsAwaited

\* Nothing on the table is lost, copied or in two hands: cards by rank in
\* Kazhutha, honest cards against the published composition in Bluff Bar; in
\* Ludo a capture leaves no cell off the safe ones to two players; a meeting
\* freezes the ship, also when a Stupid opens it in the middle of a tick.
TableIsWhole ==
    CASE gameId = "KAZHUTHA" -> KazhuthaGame!DeckIsWhole
      [] gameId = "BLUFF_BAR" -> BluffBarGame!DeckIsWhole
      [] gameId = "LUDO" -> LudoGame!CellsAreHeld
      [] gameId = "SPACE_MYSTERY" -> SpaceGame!MeetingIsOrderly

\* The match ends exactly when its rules say, and the result names the players
\* the final position does.
FairlyDecided ==
    CASE gameId = "KAZHUTHA" -> KazhuthaGame!FairlyLost
      [] gameId = "BLUFF_BAR" -> BluffBarGame!FairlyLost
      [] gameId = "LUDO" -> LudoGame!FairlyLost
      [] gameId = "SPACE_MYSTERY" -> SpaceGame!FairlyWon

----------------------------------------------------------------------------
(* The abstract state of a turn-based match.  A ship has no turns and makes *)
(* no such promise: it stands still in GameContract, and the other games do *)
(* in ShipMeetings.                                                         *)

TurnBased == gameId # "SPACE_MYSTERY"

Seats == ToSet(KazhuthaSeats) \cup ToSet(BluffSeats) \cup ToSet(LudoSeats)

Out == CASE gameId = "KAZHUTHA" -> (Seats \ ToSet(KazhuthaSeats)) \cup KazhuthaGame!Out
         [] gameId = "BLUFF_BAR" -> (Seats \ ToSet(BluffSeats)) \cup BluffBarGame!Out
         [] gameId = "LUDO" -> Seats \ ToSet(LudoSeats)
         [] OTHER -> {}

Status == IF TurnBased THEN state.status ELSE "waiting"

Holder == IF TurnBased /\ state.status = "playing" THEN Turn(state) ELSE NoOne

Contract == INSTANCE GameContract WITH
                Nobody <- NoOne, status <- Status, out <- Out, turn <- Holder

\* Every turn-based game is a GameContract: a match goes from waiting to
\* playing to completed and stays there, who is out stays out, and while it is
\* played the turn belongs to one of at least two players still in.
KeepsContract == Contract!Spec

Meetings == INSTANCE ShipMeetings WITH
    Players <- ShipSeats,
    alive <- IF TurnBased THEN ShipSeats ELSE SpaceGame!Living(state),
    meeting <- ~TurnBased /\ SpaceGame!InMeeting(state),
    over <- ~TurnBased /\ state.status = "completed"

\* A ship implements ShipMeetings: one death at a time and never in a meeting,
\* at most one ejection and only by closing one, nothing after the end.
KeepsMeetings == Meetings!Spec
=============================================================================
