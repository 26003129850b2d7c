# Verification of the Scribble & Guess server

TLA+ models of the server in `src/`, model-checked with TLC and proved about
with TLAPS. They cover the drawing room and its match, what rides on the room
(voice, board, votes, Stupids), the tournaments, the platform games with their
rooms and voice, Quick Play, and the social graph with its invitations.

## The system

The server is one Node process holding every live drawing room in memory
(`room.service.ts`, the registry). MongoDB mirrors it; the memory is
authoritative. Tournaments, platform rooms and the social graph are the other
way round: their documents are the state, several processes may work on them,
and nothing but what a write checks protects them. Clients talk over Socket.IO;
REST covers what needs no socket.

| Component | State | Operations | Talks to |
|---|---|---|---|
| Match engine, `game.service.ts` | `phase`, `turnOrder`, `turnIndex`, `currentRound`, `round`, `gameId`, each seat's `hasGuessed` | start, begin turn, select word, guess, end turn, advance, end game, return to lobby, play again, pause, resume, player left | timers (books every transition), store (awaits), rooms, bots, tournament hook |
| Room timers, `timer.service.ts` | `room.timers`, a map from name to handle | schedule (replaces by name, refuses a closed room), cancel, cancelAll, cancelTurnTimers | calls the engine and presence back |
| Rooms, `room.service.ts` | `players`, `hostId`, `emptySince`, `closed`, settings, bans | create, hydrate, join, remove with host succession, transfer, end, close | store, voice, invitations |
| Presence, `presence.service.ts` | `socketIds`, `connection` and the `grace:<user>` timers | attach, detach, expire, sweep | rooms, engine |
| Socket handlers, `socket/*` | `socket.data.roomId` | create, join, leave, reconnect, disconnect, game events | all of the above |
| Moderation | `room.voteKick` | kick, ban, vote | rooms, engine |
| Drawing board, `drawing.service.ts` | `board.strokes`, `board.redoStack`, each client's canvas | begin, append, undo, redo, clear, snapshot | engine decides who may and when it is wiped |
| Guesser voice, `voice.service.ts` | `voice.members` | join, leave, reconcile, clear | engine reconciles at every broadcast |
| Chat, spectators, replays | chat window, watchers, gallery | messages, watching | engine |
| Scoring, hints, words, modes | none (pure) | points, mask, choices, limits | called by the engine |
| Scribble bots, `bot/botPlayer.service.ts` | one task for each seat, the pictures started | guess, draw, choose | engine, as a client would; woken at every broadcast |
| Tournament scheduling, `tournament/{scheduler,lifecycle,auto,botFill}` | tournament and registration rows, a lease | publish, register, check in, fill, close, count down, draw, cancel | bracket |
| Bracket, `tournament/{bracket,match,standIn}` | match rows, seeds, the champion | draw, open a match, claim, decide, advance, finish | opens rooms, is told results by the engine |
| Platform rooms, `game_platform.service.ts` | room documents with the match inside | create, join, leave, ready, start, act, report, complete | adapters of the five games, rewards |
| Rematches, `rematch.service.ts` | the offer in the room document, a timer | offer, accept, decline, start | platform rooms |
| Game adapters, `games/*` | the match record | setup, validate, act, finish | platform rooms |
| Space Mystery, `games/spaceMystery` | a simulation in memory | move, kill, report, vote, sabotage, vent, repair | platform voice, platform rooms |
| Platform voice | the groups of connected sockets | join, leave, reconcile | the simulation |
| Friends, blocks, invitations | rows with partial unique indexes | request, accept, reject, cancel, unfriend, block, invite, expire | rooms, notifications |
| Quick Play, `matchmaking.service.ts` | the gate `inFlight`, the queue, the cached block lists | quick play, list | rooms, blocks |
| Progression, leaderboards, notifications, accounts, web client | documents | store updates and read models | before or after a match |

### What is hard

* **Suspension.** Handlers change a room, wait for the store, and carry on.
  Anything may run in the wait: another client, a timer, another continuation.
  The engine guards its critical sections by doing all of a phase change before
  the first `await`; what comes after it is mostly unguarded.
* **Stale copies.** A platform call decides on the document it loaded and saves
  that copy; a friend request is checked by one query and written by the next.
* **Timers.** Every phase is left by exactly one named timer, booked late, by a
  continuation; departures, pauses, closings and match ends cancel sets of them.
* **Departures at any moment**, through seven paths (leave, kick, vote, grace
  expiry, moving room, a seat given up by a join elsewhere, a deleted account),
  each editing the turn order and the host role. The last two tell the engine
  nothing, so the turn and the match are not theirs to end.
* **REST beside the socket.** A join over REST takes a seat with no socket and
  no grace timer; a host may start a match over REST without a connection.
* **Check, then act.** Quick Play looks for a room, waits, and opens one. A queue
  makes one decision of it, but not of the block lists it decides by.
* **Overlapping schedulers.** The lease of a pass may run out while the pass
  works on, and a second one starts on the same rows.
* **Restart.** Rows and seats come back; connections, timers, bindings of rooms
  to matches and lists of work in progress do not.

### What makes each part correct

* Engine: phases follow the diagram; no phase is stranded; a pause is quiet and
  ends when the room is back at strength; a turn has a drawer and ends when
  there is nobody left to guess; the order is played through; one result for
  each match.
* Timers: a closed room is silent; a timer acts on the turn it was booked for.
* Rooms: an open room has a host with a seat; an abandoned room is closed.
* Presence: who drops out comes back or is removed.
* Tournaments: the status follows its path whatever passes overlap; bots stay
  within the plan; what runs has been drawn; a tournament is drawn or called off.
* Bracket: a result is written once; winners climb from seats they held; no
  round is passed undecided; one champion; one stand-in for each match, on the
  seat that forfeited; a match whose deadline is booked is decided.
* Platform rooms: nobody is paid twice or by a stale copy; no save brings back
  a seat that was given up or takes away one that was not.
* Games: somebody in the game has the turn; no card or token is lost; the
  result is what the rules say.
* Voice on the ship: who is connected may be, or is about to be asked about.
* Guesser voice: the drawer does not hear the guessers once the word is theirs.
* Board: every canvas shows what the server keeps.
* Vote to kick: a poll counts people who are there, about somebody who is.
* Stupids: one picture in a turn; attempts of a past turn do no harm.
* Quick Play: no room is opened that was not needed; nobody is seated twice by
  it; its queue moves.
* Social: a friendship rests on an accepted request; an answer stands; a block
  wins.

## The modules

| Module | Contents |
|---|---|
| `GameEngine` | the drawing room: engine, timers, seats, presence |
| `MatchLifecycle` | abstract: phases, rounds and results of a match, and nothing else |
| `Tournament` | a tournament from publication to the draw: scheduler, lease, registration, bots |
| `Bracket` | a sealed roster from the draw to the champion, with the rooms of its matches |
| `TournamentPath` | abstract: the status diagram of a tournament; both of the above implement it |
| `Platform` | one platform room: documents loaded and saved by racing calls, rematch, Stupids' driver |
| `BaseAdapter`, `Kazhutha`, `BluffBar`, `Ludo` | the turn-based games, whole |
| `SpaceMystery` | the ship's simulation |
| `GameAdapters` | the registry: a match is a game id and the record its adapter folds moves into; composes the four games |
| `GameContract` | abstract: what a turn-based game promises the platform |
| `RoomTurns` | abstract: seats, the pen and how far a turn is; `GameEngine` implements it, and the next four are built on it |
| `GuesserVoice` | the voice channel of a drawing room |
| `Board` | the board with undo and redo, and the canvases that follow it |
| `VoteKick` | the vote to remove a player |
| `ScribbleBots` | the Stupids of a drawing room at work |
| `ShipMeetings` | abstract: who lives and whether a meeting is on; implemented by `SpaceMystery`, composed into `PlatformVoice` |
| `PlatformVoice` | voice connections on a ship, and the reconciliations that hang them up |
| `RoomServices` | the two voice channels, the board, the vote and the Stupids, one followed in each behaviour |
| `Social` | friends, blocks, invitations |
| `QuickPlay` | Quick Play: gate, cached block lists, ranking, queue, creation, beside whatever else moves the rooms |
| `Gathering` | how people come to sit together: `Social`, `QuickPlay` and `Platform`, one followed in each behaviour |
| `MC*` | values and symmetry for TLC |
| `Filter` | `Array.prototype.filter` as a recursive function, whose definition a proof may unfold (that of the library's `SelectSeq` no prover can) |
| `GameEngineProofs`, `TournamentProofs`, `BracketProofs`, `SocialProofs`, `GatheringProofs`, `RoomServicesProofs`, `GameAdaptersProofs`, `FilterProofs` | theorems |

A common convention: *one action is one uninterrupted segment of a handler*. An
`await` that reaches the store ends the segment, and what is left of the handler
is a record in a variable (`tasks`, `tick`, `calls`, `jobs`, ...) resumed by an
action of its own. `await`s that reach nothing do not end a segment. Operators
named `<Definition>_<Mistake>` are mutated forms of a definition and part of no
specification.

### How `GameEngine` corresponds to the code

Consecutive store calls with no state change in between are one wait.

| Handler | Segments |
|---|---|
| `startGame` | `StartGame` → `MatchCreated` → `BookCountdown` → (timer) `CountdownFires` |
| `beginTurn` | `BeginTurn` inside `CountdownFires` or `ScoreboardFires` → `OpenRound` → `OfferWords` → (timer) `ChoiceFires` |
| `selectWord`, `applyWordSelection` | `SelectWord` or `ChoiceFires` → `BookBuzzer` → (timer) `BuzzerFires` |
| `submitGuess`, `afterCorrectGuess` | `Guess` → `AfterGuess` → (timer) `AllGuessedFires` |
| `endTurn` | `EndTurn` inside its callers → `BookScoreboard` → (timer) `ScoreboardFires`, which is `advance` |
| `endGame` | `EndGame` inside its callers → `BookReturn` → (timer) `ReturnFires` |
| `playAgain` | `PlayAgain` → `Replay` → as `startGame` |
| `joinRoom`, `enterRoom` | `Join` or `Rejoin` → `Enter` |
| the REST joins, an accepted invitation | `RestJoin`; a socket that follows is `Reconnect` or `Rejoin` |
| `restoreSeat` | `Reconnect` |
| `disconnect`, `detach` | `Disconnect` → (timers) `GraceExpires`, and `HoldExpires` for a drawer |
| `exitRoom`, `kick`, a passed vote, `expire` | `Leave` or `GraceExpires` → `PlayerLeft` or `CloseEmptied` |
| `resumeIfPossible` | `Resume` inside `Enter` and `Reconnect` → `BookCountdown` |
| `assertNotSeatedElsewhere` | `Vacate` → `CloseEmptied`, or nothing |
| `evictFromLiveRoom` | `Evict` |
| `transferHost`, `endRoom`, `sweep` | `TransferHost`, `EndRoom`, `Sweep` |

State: `seats` is the insertion order of `room.players`, which is also the order
of `joinedAt`. `conn[u]` folds the seat's `connection` and the size of its
`socketIds`: `seated` is a seat marked connected that holds no socket, as
`seat()` leaves it until `attach`. `idx` is `turnIndex`. `timers` holds the names
booked; `heldFor` is the `drawerGrace` timer with the drawer its callback
captured, and `grace` the users with a `grace:` timer. `owed` and `results` are
history variables, read by properties only.

Two identical continuations pending at once are one record: they change nothing
the second time but a timer that is booked again under its name.

`Latency` chooses how much may happen in a wait. `any` lets clients and timers
in. `prompt` lets in clients only: the shortest timer of the room runs three
seconds, so the store has answered. `none` runs handlers to completion, which
is how the tests exercise them. `EagerRestart` says whether hosts may start a
match while the standings of the last one are up; the runs say they do
not, because of the refuted `LobbyOnlyAfterStandings`. `RestCalls` names the calls that may touch a
seat without a word to the engine: `join` (`RestJoin`), `vacate` (`Vacate`) and
`delete` (`Evict`).

### How `Tournament` and `Bracket` correspond to the code

`Tournament`: a *task* is a pass of the scheduler or the request of one user,
hosted by a process, and each action is one call to the store with the reads up
to the next one. `lock` is the lease: a pass takes it, and it may lapse
(`LeaseExpires`) under a pass that is still working, which is how two passes come
to overlap. Only the order of the deadlines is kept (`OpenAt`, `BotFillAt`,
`CloseAt`, `StartAt`), and `due` is the end of the countdown. `Crash(p)` ends
every task hosted by `p` where it stands.

`Bracket` starts from the sealed roster. Its rows (`match`, `reg`, `tstat`,
`cur`, `champion`) survive a crash; `room`, `hook`, `tick`, `calls` and
`takeovers` are the process's. A *tick* is a pass over the bracket: draw, open,
progress, sweep. A *hook* is what the engine fires for one room: the claim of a
match that starts, and the report of its result. A *call* is `completeMatch`
under way, whoever made it. A *takeover* is `replace` under way for one seat,
followed by what `expire` makes of its answer. Each action holds at most one
conditional write, since those are what the code relies on when passes overlap.
Deadlines of a match may pass at any time after they are booked.

A match room is what of `GameEngine` the bracket can see:

| Code | Model |
|---|---|
| `startGame` | `StartGame`: refuses outside the lobby and the standings, and below two active seats; fails after its phase has moved (`phase = "starting"`, `game = FALSE`); or succeeds, to no effect in a room closed meanwhile, whose timer is refused |
| `joinRoom`, `resumeIfPossible` | `Enter`: a paused match goes on, to its next turn or, without a game, to a phase with no timer |
| `detach` | `Drop`; a socket whose seat a bot was put on is `stray`, and its drop still starts a grace period |
| `removePlayer`, `pauseForMissingPlayers` | `Vacated`, in `Leave`, `Expire` and `TakeoverRemove`: any live phase, `starting` included, is paused below two active seats |
| `expire`, `replace` | `Expire` → `TakeoverLook` → `TakeoverClaim` → `TakeoverSeat` → `TakeoverEliminate`, and → `TakeoverRemove` from any answer but a seated bot |
| `activePlayers` | `Active`: seats that are not `lost`; one in its grace period still counts |
| `close` | `Shut`: no socket and no timer, but the seats stay in the object a suspended handler holds |

### How `Platform` corresponds to the code

A call loads the document, decides on its copy, and saves. What a save checks
depends on how the code wrote the change: a `push` goes to the stored array
whatever the copy was and bumps the version; an array written whole, or a field
inside an array, fails if the version moved; any other field is written
unconditionally. A version is kept as a mark on the copies it makes stale, so
it needs no counter. A match is its status, the seats dealt in, and whose turn
it is; the rules are in `GameAdapters`.

### How the other modules correspond to the code

`QuickPlay` takes one action for each wait of a call that reaches the store; a
refused join waits for nothing, so the loop over the ranked rooms is one step.
`inFlight` is the gate, `queue` the chain of promises (its head runs), `related`
the cache of block lists, which another screen's list fills too (`Browse`), and
`forgetting` the writes whose invalidation is still to come. `plays` is history.
The rest of the module is what its rooms go through without it.

`Social` takes one action for each query of a service call. The store decides
two things by itself, and the model has both: `resolve` leaves `pending` once,
and the partial unique indexes allow one pending row for each pair or seat
offered. `SpaceMystery` keeps the loop inside a tick: `pending` are the players
the loop has yet to visit while `ticking`, for a meeting can open between two of
them. `PlatformVoice` keeps the group *object* a reconciliation holds apart from
the entry in the map, since the two part when the last member leaves.

### How the followers of a room correspond to the code

`RoomTurns` is the engine as its services see it. A turn is set up in three
segments: `Deal` (`beginTurn` up to its first wait), `Install` (the round
exists), `Offer` (canvases wiped, words sent, state broadcast). `pen` is the
drawer of `room.round`; `dealt` and `untold` are the drawers whose turn has got
as far as the first and the second segment. The `quiet` phases are those in
which nobody draws. `GameEngine!KeepsTurns` is the refinement, so a property of
the followers holds of any behaviour the engine can show them.

Each follower adds its own state. `GuesserVoice` adds `members`, which only a
broadcast brings back into line with the rule. `VoteKick` adds the poll, the
target its timer was booked for (`clock`) and the host; a vote awaits nothing
that reaches the store before it is counted, so it is one step. `Board` adds the
strokes, the redo stack and what each canvas will show once everything sent has
arrived: a client appends, filters and wipes by events it gets once each, and
gets one snapshot when it enters, before which it is `waiting`. `ScribbleBots`
adds one task for each Stupid, the attempts that outlive a cancelled task
(`late`), and the pictures started (`startedSessions`).

`RoomServices` puts them beside each other and follows one in each behaviour
(`part`): they share the room, and none reads another's state. The board is
followed with `Prompt`, which keeps the room from another turn and from the
choice of a word while a turn is set up. Without it a word chosen between two
segments of `beginTurn` lets the drawer paint before the canvases are wiped, the
hazard of `EngineAsync` seen from the board.

## The runs

| Run | Instance | Shows |
|---|---|---|
| `engine_turns` | 3 users, 2 rounds, `none`, REST joins | the turn order; quiet pauses, taken as soon as players are short; a drawer in every turn; early ends; holds; refinement of `MatchLifecycle` (one result, under the id of the match) and of `RoomTurns` |
| `engine_async` | 2 users, 1 round, `any`, 2 tasks | closed rooms silent; a host with a seat; no phase stranded |
| `engine_live` | 2 restored users, 2 rounds, `none`, seats vacated and accounts deleted, fair | a running match ends, pauses or is closed |
| `tournament` | 1 person, 3 bots, 2 passes on 2 servers, 1 crash, fair | the path, the bot plan, the draw, and that every tournament settles |
| `bracket` | 1 person, 3 bots of whom one is retired, 2 passes, no fault, fair | winners climb from their seats; rounds in order up to one champion; the path; lapsed matches are decided |
| `bracket_faults` | 3 people, 1 pass, drops, departures, failing stores, 2 crashes | decided once; one stand-in for each match |
| `bracket_byes` | 3 people, 1 pass | violated: who has a bye appears in round two |
| `gathering` | social: 2 users, 2 rooms of 2, 1 request, 1 invitation, 2 calls; Quick Play: 2 calls, 2 rooms, 1 block; platform: 2 people, 1 Stupid, the timer and the driver | friendships agreed and answers final; no needless room, one seat by Quick Play, a queue that moves; exact rewards, no seat lost or brought back |
| `tables` | the four games on small decks, boards and ships | turns never stall; nothing is lost; fair results; both contracts kept |
| `room_services` | ship: 2 players, 2 group objects, 2 reconciliations, fair; voice: 3 users; vote: 5; board: 2, 2 strokes of 2 points; Stupids: 1 person, 1 Stupid, 2 turns | members qualify and who must hang up is hung up; the drawer is deaf; polls stand; canvases agree; one picture |
| `social_block` | social, 1 room | violated: a block wins |
| `quick_play_block` | Quick Play, 1 room of 2, blocks only | violated: nobody is seated beside somebody who has blocked them |

Deadlock is not checked: a closed room, a finished match and a settled
tournament stop.

### Bounds

*Engine.* Three users are what host succession, a turn order shortened under
its cursor, and a guesser leaving while another has guessed need; two are the
minimum of a match, and the second leaving is every pause. Two rounds separate
"the last round" from "the first". Users who leave may come back without limit,
so departures and arrivals are unbounded. `MaxTasks` stops clients, and under
`any` timers, from starting another handler while that many wait; continuations
themselves are never blocked. Two waiting handlers are any pair of racing ones;
the theorems have no such bound. `MaxCorrect` bounds the list of correct guesses
in a turn, which a player who leaves and joins again can lengthen.

*Tournaments.* Two passes are any pair that overlap. Three bots over a plan of
two show a rotation longer than the plan; one person and a minimum of three is a
field only bots can fill. Three and four entrants are a bracket with and without
byes, and two rounds are "a round" and "the final". One crash interrupts any
segment; two interrupt the recovery too. A seat has one takeover at a time,
since its next grace period outlasts the three writes of the first; the two seats
of a match may have one each. The theorems have none of these bounds but that
last one.

*Platform.* Two people and a Stupid in a room for three make a room that is full,
one short, and short of the minimum. `MaxInFlight` two is any pair of racing
calls. One match and one offer, so that a second match is one begun by a
rematch and no further one. `Scenarios` names the calls people may make in one
behaviour: they are chosen so that every pair of calls races in some behaviour
without all of them being in all.

*Quick Play.* Two calls are a burst: one opens a room, the other waits. Two rooms
are one to open and one in its way. A behaviour follows it beside blocks, or
beside doors and moves (`Affairs`): what the rooms go through decides nothing
about the cache, nor the cache about the queue.

*Games.* Ranks, hands, laps and tokens are cut to the smallest with a full trick,
a challenge won and lost, a capture and a safe square. `MaxCallers` bounds how
many use their emergency button. Two of everything in `PlatformVoice` and
`Social` is a pair of racing calls; two group objects let one be dropped and
another made while a reconciliation holds the first.

*Followers.* Three talkers are a drawer, the next one and a guesser. Five voters
are the smallest room whose threshold is not two for want of people. Two
painters are a drawer and a canvas; canvases do not affect each other. Two
strokes of two points are a full board, a full stroke, a batch that overfills
one, and an undo that is not of the last stroke in Relay. Two installed rounds
let an attempt of the first reach the second, and one try lets a Stupid give up.

### Why some properties are checked under `none` only

`PausesInTime`, `TurnInOrder` and the lifecycle do not survive slow
stores: a continuation resumed after a pause, a departure or another match's
start acts on what it finds. The refuted `PausedIsQuiet` under `prompt` is the
simplest case. Under `none` they say the code is right apart from that one
hazard, which is where a later regression would show. `KeepsTurns` does survive,
but for its `Prompt`.

### Fairness

*Engine.* Continuations are weakly fair because the store answers; the
sweeper, the drawer's hold and the players' grace timers because Node fires a
timer that stays booked. The timers of the match are strongly fair: each is
enabled only between handlers in the model, while in Node a due timer waits for
no handler; weak fairness would let an endless series of client requests hold a
timer back for ever. Nothing is assumed of clients. `MatchMovesOn` holds under
it although players may leave, join, drop and reconnect for ever.

*Tournament.* Some process takes a free lease, since every process runs the
interval; a pass that has begun goes on; leases, deadlines and the countdown run
out. Nothing of people. `Settles` holds with overlapping passes and a crash.

*Bracket.* Passes go on, calls, takeovers and hooks are answered. A sweep picks
the matches whose deadline has passed; that it picks a given booked match, if that
match is booked again and again, is strong fairness, since a deadline comes. A
game in progress ends, which is what `MatchMovesOn` says of the engine as long as
nobody leaves. Nothing of players: they may never come. `LapsedIsDecided` says that
the row gets its result or is cancelled, not that it leaves `ready`; so it holds
of the run without faults, and of none with one (see *Refuted*).

*Voice on the ship.* A reconciliation goes on to its end. The other followers
have safety properties only: nothing in the code promises that a broadcast
comes.

### Findings

1. `bracket_byes`: the winner of a bye is written into no slot of round two. The
   opponents of the bracket's other matches are given byes of their own, or wait
   for ever.
2. `social_block`: a block placed while an acceptance is between its check and
   its insertion leaves a friendship across the block.

3. `quick_play_block`: a block list read before a block and stored after it seats
   the next caller of Quick Play beside somebody who has blocked them; the join
   asks for no block.

`PROJECT.json` quotes the lines each contradicts.

### Refuted

Properties of the modules that the code does not have, each with the smallest
instance TLC refutes it in. They are kept, in no run, beside the properties that
hold; the hazards of `PROJECT.json` name them.

| Property | Instance | What happens |
|---|---|---|
| `LobbyOnlyAfterStandings` | `GameEngine`: 2 users, 1 round, `none`, `EagerRestart = TRUE` | the timer that ends the standings is not cancelled by a match started under them, and throws that match back to the lobby |
| `NobodySkipped` | 3 users, 1 round, `none` | `removePlayer` shortens the turn order without moving the cursor, so a player behind it loses a turn |
| `DroppedIsResolved` | 2 users, 1 round, `none`, `FairSpec` | `endGame` cancels the grace timers of players who are offline at that moment; they keep their seats and count as active for good |
| `AbandonedRoomCloses` | 2 restored users, 2 rounds, `none`, `FairSpec` | seats nobody returns to after a restart keep the room open once its last visitor has left |
| `PausedIsQuiet` | 2 users, 1 round, `prompt` | a pause that falls in a handler's wait is followed by that handler booking its timer into the paused match |
| `PausedWhenShort` | 2 users, 1 round, `none`, `RestCalls = {"vacate"}` | the seat a player gives up by joining another room is taken without `onPlayerLeft`, so a match of two goes on with one |
| `HostPresent` | the same with `{"delete"}` | deleting the account of the last player leaves the room open, and whoever joins it has no host |
| `DrawnIsNotCancelled` | `Tournament.cfg` with one pass on one server (`Host <- OneServer`), 1 crash | a crash after the draw and before the status is set leaves the tournament in check-in; the retry finds nobody checked in, and cancels a tournament that has a bracket |
| `LapsedIsDecided` | `Bracket`: 2 people, 1 pass, `FairSpec` and `StoreFails = TRUE` | `startGame` fails after its phase has moved to `starting`; the row is put back "so the deadline sweep can try again or decide it" (match.service.ts:403-404), but every later start is refused as already started: ready, running, ready, for ever |
| `LapsedIsDecided` | the same with `StoreFails = FALSE` and `Departures = {"drop"}` or `{"leave"}` | a room both players have left, or dropped out of for long enough, is closed under its match; the row stays `running`, and the sweep looks at `ready` rows only |
| `LapsedIsDecided` | the same with neither, and 1 crash | the room comes back as an ordinary one; nothing reports its result or opens the match again, although room.service.ts:312 says the scheduler does |
| `GamesAreClaimed` | `Bracket`: 2 people, 1 pass, `StoreFails = TRUE` | the same failed start leaves a room in `starting` on a row that is `ready`; a departure parks it and a return takes it out again |
| `StandInNeverAdvances` | `Bracket`: 2 people, 1 pass, `Departures = {"drop"}` | the report reads the forfeit when the game ends and a takeover writes it before the result: the stand-in's seat wins (standIn.service.ts:27-35 says it never does) |
| `NobodyUnasked` | `Platform` alone, as in `Gathering.cfg` | whoever joins while a settled rematch waits to deal is dealt in, unasked |
| `StupidsKeepMoving` | the same | a leave drops the Stupid's turn that was pending, and nothing books it again |
| `OneRoomAtATime` | `Social`: 3 users, 2 rooms of 2, 2 requests, 2 invitations, 2 calls, once both inviters are friends of the third user | two acceptances at once each find the user seated nowhere, and each seats them |
| `ChannelIsTheGroup` | `RoomServices.cfg`, the ship | a reconciliation drops the membership of a ghost and leaves its socket in the channel |
| `VoteKick!MajorityRemoves` | `RoomServices.cfg`, the vote | in a room of five two of the four others are enough; the comment (moderation.service.ts:82) says a majority of them |
| `Board!RelayIsSeen` | `RoomServices.cfg`, the board | `beginTurn` wipes every canvas, in Relay too, where the server keeps the strokes: who watches sees only what is added |
| `Board!LinesAreWhole` | the same | the batch that fills a stroke is relayed whole, so canvases show points the server dropped |
| `ScribbleBots!TriesBounded` | `RoomServices.cfg`, the Stupids | a Stupid that used up its tries has no task, and the next broadcast gives it a new one with all its tries |
| `ScribbleBots!LateIsIgnored` | the same | an attempt of a cancelled task that fails, or turns out right, cancels the task its seat has by then |

## The proofs

For any finite set of users, any number of rounds and pending handlers, any set of
restored seats, and every `Latency`, `EagerRestart` and set of `RestCalls` but
where the table says otherwise, `GameEngineProofs` proves:

| Theorem | Property | Argument |
|---|---|---|
| `TypeCorrect` | `TypeOK` | inductive as it stands; the work is in `Without`, `Shuffles` and the segments shared by handlers, one lemma each |
| `TurnOrderIsSeated` | `TurnOrderSeated` | inductive with types; every edit of the order (shuffle, filter, append of the missing) keeps it injective and within the seats |
| `ClosedStaysSilent` | `ClosedIsSilent` | inductive: closing empties the timers and every booking goes through `Book` |
| `RoomHasHost` | `HostIsSeated` | where no account is deleted (see `HostPresent`); needs `SeatsAgree`: the list of seats and the connections name the same users, each once, so that an empty list of seats after a departure means that nobody else is seated |
| `NoPhaseStranded` | `NeverStranded` | needs `RoundBehindPhase`: a phase that waits for a turn's timer has its live round, installed or about to be, so the timer does move the match when it fires |
| `EngineKeepsTurns` | `KeepsTurns` | each segment maps to a step of `RoomTurns` or is unseen; that a turn is dealt only when none is set up (`Prompt`) comes from `Calm` |

`Calm` says what goes with a phase when handlers run to completion: at most one of
them is under way, it is one of the phase's (or of a departure or an arrival), no
timer but the phase's is booked, a live round exists exactly while somebody chooses
or draws, and a match has its id from its creation and no result before its end.
None of it follows from the properties: a timer of another phase, left behind, is
what would break each of them later. `EngineKeepsTurns` holds of any latency, so
what `RoomServices` is proved to do without `Prompt` it does in any room.

`PausesInTime`, `TurnInOrder` and `MatchFollowsLifecycle` are not theorems about the
code: it lets things happen in its waits and takes seats silently, and `PausedIsQuiet`,
`PausedWhenShort` and `LobbyOnlyAfterStandings` under *Refuted* are what comes of it.
Three lemmas (`PausesAreTimely`, `TurnsAreInOrder`, `MatchesAreLifecycles`) only carry
the claim of `engine_turns` to any number of users and rounds: were handlers run to
completion, no match started under the standings and, for the first two, every
departure reported, the three would hold. They rest on `Calm` and on `Attended`, which
adds what holds across departures: only active players count as having guessed,
whoever draws has a seat or is on their way out, and a turn nobody is left to guess
in is about to end.

`TournamentProofs`, for any number of servers, passes, people, bots and crashes:

| Theorem | Property | Argument |
|---|---|---|
| `TypeCorrect` | `TypeOK` | inductive as it stands |
| `BotsPlanned` | `BotsWithinPlan` | whoever is seated is among the first of the rotation the plan can pay for, because every fill, interrupted or not, takes from the front of it |
| `RunningDrawn` | `RunningIsDrawn` | a pass between `seeds` and `run` carries a field of two or more, a pass at `run` has stored the bracket, and nothing makes a player active without a seed |
| `PathFollowed` | `FollowsPath` | every write of the status is conditional on where the path comes from |

All four rest on one inductive invariant, `IInv`: the plain types (`PlainOK`),
what the roster may hold (`RosterOK`), what the draw may hold (`DrawOK`), and
what each task knows at its label (`TasksOK`).

`BracketProofs`, for any sealed roster of 2 to 16, any retired bots, any passes,
crashes, and store that may fail:

| Theorem | Property | Argument |
|---|---|---|
| `TypeCorrect` | `Typing` | part of `IInv` |
| `ClimbersHaveWon` | `SlotsAreWon` | `SlotsFed`: a slot of a later round is filled by the completion of the one match that feeds it, and that match's winner never changes again |
| `OneStandInAMatch` | `OneStandIn` | `TakeoverHolds`: a takeover about to seat its bot is of the seat the row has as forfeited, since a forfeit is written once; so `RoomHolds` keeps the people's seats that bots play (`StandIns`) within that one |
| `OneIsCrowned` | `CrownedInOrder` | `TourHolds`: the marker moves past a round only when a pass has found every row of it decided, and decisions stand |
| `ResultsStand` | `DecidedOnce` | `RowsGrow`, which every step satisfies under `IInv`: no row is unwritten, no filled slot changes hands, no decision moves |
| `BracketOnPath` | `FollowsPath` | every write of the status starts where the path allows it |

`IInv` joins the types with what each pass (`TickHolds`), each completion under
way (`CallHolds`) and each takeover (`TakeoverHolds`) know of the rows they read earlier:
what they know must still be true when they act, and is, because of `RowsGrow`.

`GatheringProofs`, for any people, rooms, Stupids and calls in flight:

| Theorem | Property | Argument |
|---|---|---|
| `OneSeatOnly` | `OneSeatByPlay` | `PlayInv`: the gate admits one call of a user at a time (`GateHolds`) and every seat taken is known (`SeatsHeld`) |
| `QueueKeepsMoving` | `QueueMoves` | `PlayInv`: who is in the queue is a call that waits in it, each once |
| `NoRoomIsNeedless` | `NoNeedlessRoom` | `PlayInv`: a call about to create has been refused by every room opened by Quick Play (`RefusedByAll`), which stays so while it waits, for only the head of the queue opens rooms |
| `RewardsExact` | `RewardsAreExact` | `PayInv`: a reward row is missing, or inserted and paid, or inserted and to be paid by exactly one call |
| `SeatsTheirs` | `SeatsAreTheirs` | `SeatInv`: the copy a call holds is the stored document as it was, unless it is marked stale, so that a save that is let through edits what is there |

The first three are `QuickPlay`'s, the others `Platform`'s. `SocialProofs` proves
`FriendshipsAreAgreed` (`FriendsAgreed`) and `AnswersStand` (`AnswersAreFinal`)
for any users, requests and calls in flight; the strengthening says that a call
past its check names a request that was sent, and an acceptance about to insert
one that was accepted.

`RoomServicesProofs`, for any crew, people, Stupids, strokes and limits:

| Theorem | Property | Argument |
|---|---|---|
| `TalkersQualify` | `MembersQualify` | `ShipInv`: types, and the engine holds the match until it is over |
| `DrawerStaysDeaf` | `DrawerIsDeaf` | inductive as it stands: the drawer of a live, announced turn was dropped by the broadcast that announced it and is refused by every join since |
| `VotesStayPresent` | `PollStands` | `PollInv`: types, since votes are counted against the threshold of the poll |
| `PicturesAreStartedOnce` | `OnePicture` | `Listed`: a picture is in the list of the pictures started from the moment its first stroke may come |
| `BoardsStayAgreed` | `BoardsAgree` | `BoardInv`: ids are given once (`IdsOnce`), one turn at most is being set up, and the board is fresh until it is announced (`SetUp`), so that an event naming an id edits the same stroke on every canvas |

`GameAdaptersProofs`, for any crew and players, any deck, tray, board and ship
that the assumptions of the games allow:

| Theorem | Property | Argument |
|---|---|---|
| `MatchesNeverStall` | `NeverStalls` | `GamesInv`: the turn is a position in a rotation of those still in, each once, and there is a move from it |
| `TablesStayWhole` | `TableIsWhole` | `GamesInv`: what is drawn, laid, put down or moved is taken from one place and put in one other |
| `ResultsAreFair` | `FairlyDecided` | `GamesInv`: a match is on only while its rules leave it open, so the step that closes it sees the position the result names |
| `GamesKeepTheContract` | `KeepsContract` | a refinement: each step of each turn-based game goes forward in `GameContract`, through `AnyTurnBasedStep` |
| `ShipImplementsMeetings` | `KeepsMeetings` | a refinement: each segment of a tick and each input moves what the ship shows by one death, one meeting opened or closed, or the end (`MeetStep`) |

`GamesInv` is one invariant for each game. `KazhuthaSound`: the rotation and the
finishers share out the players, a rank is held an even number of times and the
queen once, and nobody in the rotation is out of cards; at the end the lone
holder is left because every other rank pairs. `BluffSound`: a drinker still at
the table has a glass, and in a round whoever is on turn holds a card and the
shoe is all there, counted card by card; that there is a next holder is why
passing the turn stops within one lap. `LudoSound`: no two players share a cell
off the safe ones, nobody but the winner is home, and a throw that is still to be
used can be. The cell of a step is compared on the ring, so the proof rests on
the safe cells turning into themselves from one start to the next. `ShipSound`:
a repair is counted once, a meeting interrupts whoever works, the votes are of
the living, somebody is still to vote, and the traitors are outnumbered while
the match is on.

`FilterProofs` holds the lemmas the others need about `Filter`: what it leaves of a
sequence of any length, that one which drops a single element closes the gap, and
that elements which differ stay so. All are inductions over the length. The library's induction
theorems cannot be used (they take an operator), so they are done by least
counterexample: were there a length the claim fails for, there would be a least
one, and it follows from the one before.

Each invariant was checked by TLC before it was proved. The only assumptions are
the named ones on the constants, which TLC evaluates in every run of the module.
Every step proof has one case for each action, through lemmas on the segments
that handlers share.

Every safety property and refinement that a passing run checks is so stated by a
theorem, under the conditions the tables name, but for the three of `engine_turns`
above. Only model-checked: all liveness (`MatchMovesOn`, `Settles`,
`LapsedIsDecided`, `HangsUp`), which is out of this prover's reach, as is `ENABLED`.

## Not modelled

* *In the room*: words, hints, points, teams and modes but Relay; chat;
  spectators and replays; colours, shapes and fills; what a Stupid draws and
  guesses; microphones and the relay of offers; several sockets of one user, moving between rooms, settings, the
  host's lock, bans, mutes, a failing store, and the socket of a deleted account
  that may still point at the room. `beginTurn` ends the game when it finds no
  words (game.service.ts:593-598); it never does, since `pickChoices` falls back to
  a built-in pool (word.service.ts:130-136) and the number of choices is at least two.
* *In the tournaments*: the daily planner's slots, reminders, the scores and
  payloads of matches, an administrator who starts or cancels a tournament by hand,
  and the older `tournament.service.ts`. The host of a match room could start, end or
  kick in it as in any room, although match.service.ts:254-257 has nothing
  host-driven about it; the model leaves that out.
* *On the platform*: transfer of the host, listing, quick match, reconnection;
  views, reactions, and how Stupids choose among legal moves.
* *Beside Quick Play*: lists and candidates read from storage, discovery, bans
  and the ceilings of modes.
* *Outside both*: progression and leaderboards, notifications and
  push, accounts and sessions, the web client, the load tests. They are store
  queries, delivery and rendering without a protocol of their own.

`PROJECT.json` lists the components with what each leaves out. A share of the
implementation is templates, word lists and rendering, which have no behaviour
to model.

## Plan

1. *Sockets and restarts*: several sockets of a user, a socket that dies in the
   middle of its own join, what becomes of a seat taken over REST whose socket
   never follows, the registry of rooms and hydration with concurrent callers.
2. *The failing store* in `GameEngine`, with a bound: `NeverStranded` becomes a
   finding, or a theorem about the paths that recover.
3. *Pure computations*: scoring and hints as operators against reference
   definitions.
4. *Proofs*: what is left of `HostIsSeated` once an account is deleted, and of
   `MatchFollowsLifecycle` in a room where handlers do interleave.
