------------------------------ MODULE Gathering ------------------------------
(***************************************************************************)
(* How people come to sit in one room: as friends, by invitation, through  *)
(* Quick Play, and in the rooms of the platform with their rematches.      *)
(* Each keeps documents or rooms of its own and looks at none of the       *)
(* others, so a behaviour follows one of them.                             *)
(***************************************************************************)
EXTENDS Social

CONSTANTS MaxBlocks, Affairs,                     \* QuickPlay
          Stupids, Clock, Driver, MinPlayers, MaxPlayers,
          MaxMatches, MaxOffers, MaxInFlight, Scenarios   \* Platform

VARIABLES
  part,                                           \* what is followed
  affairs, rooms, age, rows, forgetting, related,
  taps, inFlight, queue, plays,                   \* QuickPlay
  verbs, room, offer, late, timer, matches, call,
  reconciles, turnTimer, rewardKeys, awards       \* Platform

socialVars == vars
playVars == <<affairs, rooms, age, rows, forgetting, related, taps, inFlight, queue, plays>>
platformVars == <<verbs, room, offer, late, timer, matches, call, reconciles, turnTimer,
                  rewardKeys, awards>>
allVars == <<part, socialVars, playVars, platformVars>>

Play == INSTANCE QuickPlay WITH Unread <- NoId
Tables == INSTANCE Platform WITH NoOne <- NoId

ASSUME GatheringAssumption == Play!PlayAssumption /\ Tables!PlatformAssumption

GatheringInit ==
  /\ part \in {"friends", "play", "platform"}
  /\ IF part = "friends" THEN Init ELSE Blank /\ seats = [r \in Rooms |-> {}]
  /\ Play!Init
  /\ part # "play" => affairs = CHOOSE a \in Affairs : TRUE
  /\ IF part = "platform" THEN Tables!Init
     ELSE Tables!Blank /\ verbs = {} /\ room = Tables!Opened(NoId, FALSE)

Befriend ==
  /\ part = "friends" /\ Next
  /\ UNCHANGED <<part, playVars, platformVars>>

PlayQuickly ==
  /\ part = "play" /\ Play!Next
  /\ UNCHANGED <<part, socialVars, platformVars>>

SitAtTables ==
  /\ part = "platform" /\ Tables!Next
  /\ UNCHANGED <<part, socialVars, playVars>>

GatheringNext == Befriend \/ PlayQuickly \/ SitAtTables

GatheringSpec == GatheringInit /\ [][GatheringNext]_allVars

-----------------------------------------------------------------------------

\* However many players tap at once, Quick Play opens a room only when no room
\* it opened before takes the player, unless that room refused them when their
\* turn in the queue came (matchmaking.service.ts, the note on `queue`).
NoNeedlessRoom == Play!NoNeedlessRoom

\* Whatever else a player does in the waits of their calls, two taps never get
\* them two rooms (the note on `inFlight`).
OneSeatByPlay == Play!OneSeatByPlay

\* The queue of Quick Play moves, although lookups and creations fail: the call
\* at its head is at work or may begin, and nobody waits outside it.
QueueMoves == Play!QueueMoves

\* Nobody is paid twice for a platform match and no reward row goes unpaid,
\* however many calls finish it or report it (recordResult).
RewardsAreExact == Tables!RewardsAreExact

\* A person comes to a platform seat by their own join and loses it by their own
\* leave or a rematch without their yes; no stale copy undoes either.
SeatsAreTheirs == Tables!SeatsAreTheirs
=============================================================================
