------------------------------ MODULE QuickPlay ------------------------------
(***************************************************************************)
(* Quick Play (services/matchmaking): find a public room with a seat, or   *)
(* open one.  Every wait of a call is a step here; what lies between two   *)
(* waits, the loop over the ranked rooms included, is one segment, because *)
(* a refused join answers without waiting for anything outside.            *)
(*                                                                         *)
(* The block lists come through the cache of block.repository, which other *)
(* screens fill too.  The rooms are moved by their players besides: opened *)
(* by hand, entered by code, started, locked and left.                     *)
(*                                                                         *)
(* Nobody is banned and no mode lowers a room's limit.                     *)
(***************************************************************************)
EXTENDS Naturals, Sequences, FiniteSets

CONSTANTS Users,
          Rooms,       \* bound: rooms ever opened
          Capacity,    \* maxPlayers
          Calls,       \* bound: calls of Quick Play and of the lists at a time
          MaxBlocks,   \* bound: blocks standing at a time
          Affairs,     \* bound: sets of what else goes on in a behaviour
          Unread       \* no cache entry, and nobody

PlayAssumption == Unread \notin Users

VARIABLES affairs,     \* what else goes on: "blocks", "doors", "moves"
          rooms,       \* the registry: state, door and seats of each room
          age,         \* the rooms in the order they were registered
          rows,        \* block rows, <<blocker, blocked>>
          forgetting,  \* writes answered by the store, not yet by the cache
          related,     \* relatedIdsCache
          taps,        \* the calls under way
          inFlight,    \* users whose Quick Play has not answered
          queue,       \* calls behind `serialised`; the first one runs
          plays        \* history: the seats Quick Play took

blockVars == <<rows, forgetting>>
vars == <<affairs, rooms, age, blockVars, related, taps, inFlight, queue, plays>>

NoRoom == [state |-> "absent", door |-> "open", seats |-> {}, quick |-> FALSE]
Closed == [NoRoom EXCEPT !.state = "closed"]
Call(label, u, known) == [at |-> label, by |-> u, known |-> known, refused |-> {}]
NoTap == Call("idle", Unread, {})

Init ==
    /\ affairs \in Affairs
    /\ rooms = [r \in Rooms |-> NoRoom]
    /\ age = <<>>
    /\ rows = {} /\ forgetting = {}
    /\ related = [u \in Users |-> Unread]
    /\ taps = [c \in Calls |-> NoTap]
    /\ inFlight = {}
    /\ queue = <<>>
    /\ plays = {}

-----------------------------------------------------------------------------
(* The registry *)

Live(r) == rooms[r].state \in {"waiting", "playing"}
Seated(u) == \E r \in Rooms : Live(r) /\ u \in rooms[r].seats
HasSeat(r) == Cardinality(rooms[r].seats) < Capacity
Older(r, s) == \E i, j \in 1 .. Len(age) : i < j /\ age[i] = r /\ age[j] = s

\* rejectionFor: a lobby or a paused match ("waiting"), listed, with a seat,
\* and with nobody a block is known to stand between.
Eligible(r, u, known) ==
    /\ rooms[r].state = "waiting" /\ rooms[r].door # "private"
    /\ u \notin rooms[r].seats /\ HasSeat(r)
    /\ rooms[r].seats \cap known = {}

\* A locked room is ranked and refuses the join: the loop goes on to the next.
Joinable(r, u, known) == Eligible(r, u, known) /\ rooms[r].door = "open"

\* Mutant: the second ranking repeats the answer of the first.
Candidates_Remembered(c) ==
    IF taps[c].at = "queued" THEN {}
    ELSE {r \in Rooms : Joinable(r, taps[c].by, taps[c].known)}

Candidates(c) == {r \in Rooms : Joinable(r, taps[c].by, taps[c].known)}

\* rankCandidates: the fullest, and the oldest of those.
Foremost(r, candidates) ==
    \A s \in candidates \ {r} :
        LET n == Cardinality(rooms[r].seats)
            m == Cardinality(rooms[s].seats)
        IN  n > m \/ (n = m /\ Older(r, s))

Seat(u, r) == rooms' = [rooms EXCEPT ![r].seats = @ \cup {u}]

Register(u, r, door, quick) ==
    /\ rooms[r] = NoRoom
    /\ rooms' = [rooms EXCEPT ![r] =
                    [state |-> "waiting", door |-> door, seats |-> {u}, quick |-> quick]]
    /\ age' = Append(age, r)

-----------------------------------------------------------------------------
(* Calls.  A call of a list ("browse") only reads the blocks. *)

At(c, label) == taps[c].at = label
GoTo(c, label) == taps' = [taps EXCEPT ![c].at = label]

\* The seat is taken; what is left is to write it down.
Rest(c) == taps' = [taps EXCEPT ![c] = Call("seated", taps[c].by, {})]

First(c) == queue # <<>> /\ Head(queue) = c

\* Mutant: a call that fails is not taken off the queue.
LeaveQueue_Succeeding(c) ==
    queue' = IF First(c) /\ ~At(c, "opening") THEN Tail(queue) ELSE queue

\* Both callbacks of `serialised` let the next call run.
LeaveQueue(c) ==
    queue' = IF First(c) THEN Tail(queue) ELSE queue

\* The call answers or throws; either way the gate opens.
Finish(c) ==
    /\ taps' = [taps EXCEPT ![c] = NoTap]
    /\ inFlight' = inFlight \ {taps[c].by}
    /\ LeaveQueue(c)

\* Mutant: two taps of one player pass.
Gated_Never(u) == FALSE

Gated(u) == u \in inFlight

\* quickPlay: a second tap is refused, a seated player gets their room back.
Tap(c, u) ==
    /\ At(c, "idle") /\ ~Gated(u) /\ ~Seated(u)
    /\ inFlight' = inFlight \cup {u}
    /\ taps' = [taps EXCEPT ![c] = IF related[u] = Unread THEN Call("asking", u, {})
                                   ELSE Call("asked", u, related[u])]
    /\ UNCHANGED <<rooms, age, blockVars, related, queue, plays>>

Browse(c, u) ==
    /\ At(c, "idle") /\ related[u] = Unread
    /\ taps' = [taps EXCEPT ![c] = Call("listing", u, {})]
    /\ UNCHANGED <<rooms, age, blockVars, related, inFlight, queue, plays>>

\* The store answers relatedIds ...
Related(u) == {v \in Users : {<<u, v>>, <<v, u>>} \cap rows # {}}

Answer(c) ==
    /\ \E from \in {"asking", "listing"} :
          /\ At(c, from)
          /\ taps' = [taps EXCEPT ![c] = Call(IF from = "asking" THEN "answered" ELSE "listed",
                                              taps[c].by, Related(taps[c].by))]
    /\ UNCHANGED <<rooms, age, blockVars, related, inFlight, queue, plays>>

\* ... or fails to, and the call with it; a failure is not kept ...
Fail(c) ==
    /\ \/ At(c, "asking") /\ Finish(c)
       \/ At(c, "listing") /\ taps' = [taps EXCEPT ![c] = NoTap] /\ UNCHANGED <<inFlight, queue>>
    /\ UNCHANGED <<rooms, age, blockVars, related, plays>>

\* ... and the answer reaches `remember`, which keeps it for the next call.
Remember(c) == related' = [related EXCEPT ![taps[c].by] = taps[c].known]

Listed(c) ==
    /\ At(c, "listed")
    /\ Remember(c)
    /\ taps' = [taps EXCEPT ![c] = NoTap]
    /\ UNCHANGED <<rooms, age, blockVars, inFlight, queue, plays>>

\* tryJoinCandidate when some room takes the player.
Join(c) ==
    \E r \in Candidates(c) :
        /\ Foremost(r, Candidates(c))
        /\ Seat(taps[c].by, r)
        /\ plays' = plays \cup {<<taps[c].by, r>>}
        /\ Rest(c)
        /\ UNCHANGED age

Enqueue(c) == /\ queue' = Append(queue, c)
              /\ GoTo(c, "queued")

\* matchOrCreate: the fast path, or the queue.
Match(c) ==
    /\ \/ At(c, "answered") /\ Remember(c)
       \/ At(c, "asked") /\ UNCHANGED related
    /\ \/ Join(c) /\ UNCHANGED queue
       \/ Candidates(c) = {} /\ Enqueue(c) /\ UNCHANGED <<rooms, age, plays>>
    /\ UNCHANGED <<blockVars, inFlight>>

\* The queued work: seated meanwhile, matched after all, or a room to open.
Run(c) ==
    /\ At(c, "queued") /\ First(c)
    /\ IF Seated(taps[c].by) THEN Finish(c) /\ UNCHANGED <<rooms, age, plays>>
       ELSE /\ \/ Join(c)
               \/ /\ Candidates(c) = {}
                  /\ taps' = [taps EXCEPT ![c].at = "opening", ![c].refused =
                        {r \in Rooms : /\ rooms[r] # NoRoom
                                       /\ ~Joinable(r, taps[c].by, taps[c].known)}]
                  /\ UNCHANGED <<rooms, age, plays>>
            /\ UNCHANGED <<inFlight, queue>>
    /\ UNCHANGED <<blockVars, related>>

\* createRoom: no code is free or the store fails, or the room is there.
Open(c) ==
    /\ At(c, "opening")
    /\ \/ Finish(c) /\ UNCHANGED <<rooms, age, plays>>
       \/ \E r \in Rooms :
             /\ Register(taps[c].by, r, "open", TRUE)
             /\ plays' = plays \cup {<<taps[c].by, r>>}
             /\ Rest(c)
             /\ UNCHANGED <<inFlight, queue>>
    /\ UNCHANGED <<blockVars, related>>

\* The mirror of the seat is written, or fails; the seat stays.
Settle(c) ==
    /\ At(c, "seated")
    /\ Finish(c)
    /\ UNCHANGED <<rooms, age, blockVars, related, plays>>

-----------------------------------------------------------------------------
(* block.repository: the row, then both cache entries *)

WriteBlock(u, v) ==
    /\ u # v /\ <<u, v>> \notin rows /\ Cardinality(rows) < MaxBlocks
    /\ rows' = rows \cup {<<u, v>>}
    /\ forgetting' = forgetting \cup {<<u, v>>}
    /\ UNCHANGED <<rooms, age, related, taps, inFlight, queue, plays>>

LiftBlock(u, v) ==
    /\ <<u, v>> \in rows
    /\ rows' = rows \ {<<u, v>>}
    /\ forgetting' = forgetting \cup {<<u, v>>}
    /\ UNCHANGED <<rooms, age, related, taps, inFlight, queue, plays>>

ForgetRelated(u, v) ==
    /\ <<u, v>> \in forgetting
    /\ forgetting' = forgetting \ {<<u, v>>}
    /\ related' = [related EXCEPT ![u] = Unread, ![v] = Unread]
    /\ UNCHANGED <<rooms, age, rows, taps, inFlight, queue, plays>>

\* Thirty seconds pass.
Expire(u) ==
    /\ related[u] # Unread
    /\ related' = [related EXCEPT ![u] = Unread]
    /\ UNCHANGED <<rooms, age, blockVars, taps, inFlight, queue, plays>>

-----------------------------------------------------------------------------
(* What else moves the rooms *)

elseVars == <<blockVars, related, taps, inFlight, queue>>

OpenByHand(u) ==
    /\ ~Seated(u)
    /\ \E r \in Rooms, door \in {"open", "private"} : Register(u, r, door, FALSE)
    /\ UNCHANGED <<elseVars, plays>>

\* joinRoom by code, link or invitation, once the player's other seat is gone.
EnterByCode(u, r) ==
    /\ Live(r) /\ ~Seated(u) /\ HasSeat(r) /\ rooms[r].door # "locked"
    /\ Seat(u, r)
    /\ UNCHANGED <<elseVars, age, plays>>

\* removePlayer.
Leave(u, r) ==
    /\ Live(r) /\ u \in rooms[r].seats
    /\ rooms' = [rooms EXCEPT ![r].seats = @ \ {u}]
    /\ plays' = plays \ {<<u, r>>}
    /\ UNCHANGED <<elseVars, age>>

\* The host ends the room, or whoever left last closes it some waits later, by
\* which time somebody may sit in it again.  The registry forgets it.
Close(r) ==
    /\ Live(r)
    /\ rooms' = [rooms EXCEPT ![r] = Closed]
    /\ age' = SelectSeq(age, LAMBDA s : s # r)
    /\ plays' = {p \in plays : p[2] # r}
    /\ UNCHANGED elseVars

StartOrStop(r) ==
    /\ Live(r)
    /\ rooms' = [rooms EXCEPT ![r].state = IF @ = "waiting" THEN "playing" ELSE "waiting"]
    /\ UNCHANGED <<elseVars, age, plays>>

Lock(r) ==
    /\ Live(r)
    /\ rooms' = [rooms EXCEPT ![r].door = CASE @ = "open" -> "locked"
                                           [] @ = "locked" -> "open"
                                           [] OTHER -> @]
    /\ UNCHANGED <<elseVars, age, plays>>

-----------------------------------------------------------------------------

Matchmaking ==
    \E c \in Calls :
        \/ \E u \in Users : Tap(c, u)
        \/ Answer(c) \/ Fail(c) \/ Listed(c) \/ Match(c) \/ Run(c) \/ Open(c) \/ Settle(c)

Blocking ==
    /\ "blocks" \in affairs
    /\ \/ \E u, v \in Users : WriteBlock(u, v) \/ LiftBlock(u, v) \/ ForgetRelated(u, v)
       \/ \E u \in Users : Expire(u) \/ \E c \in Calls : Browse(c, u)

Doors ==
    /\ "doors" \in affairs
    /\ (\E u \in Users : OpenByHand(u)) \/ (\E r \in Rooms : Lock(r))

Moves ==
    /\ "moves" \in affairs
    /\ \/ \E u \in Users, r \in Rooms : EnterByCode(u, r) \/ Leave(u, r)
       \/ \E r \in Rooms : Close(r) \/ StartOrStop(r)

Next == (Matchmaking \/ Blocking \/ Doors \/ Moves) /\ UNCHANGED affairs

Spec == Init /\ [][Next]_vars

-----------------------------------------------------------------------------

\* However many players tap at once, Quick Play opens a room only when no room
\* it opened before would take the player; a room that would was not to be had
\* when the player's turn in the queue came, and became so while the room was
\* made (matchmaking.service.ts, the note on `queue`).
NoNeedlessRoom ==
    [][\A c \in Calls : At(c, "opening") /\ taps'[c].at = "seated" =>
          \A r \in Rooms : rooms[r].quick /\ Joinable(r, taps[c].by, taps[c].known)
              => r \in taps[c].refused]_vars

\* Whatever else a player does in the waits of their call, two taps never get
\* them two rooms (the note on `inFlight`).
OneSeatByPlay ==
    \A u \in Users, r, s \in Rooms :
        <<u, r>> \in plays /\ <<u, s>> \in plays => r = s

\* The queue moves: the first in it is a call that is at work or may begin, the
\* others wait, and nobody waits who is not in it, although creations fail
\* (`serialised`).
QueueMoves ==
    /\ queue # <<>> => taps[Head(queue)].at \in {"queued", "opening", "seated"}
    /\ \A i \in 2 .. Len(queue) : taps[queue[i]].at = "queued"
    /\ \A c \in Calls : taps[c].at \in {"queued", "opening"} => \E i \in 1 .. Len(queue) : queue[i] = c
    /\ \A i, j \in 1 .. Len(queue) : queue[i] = queue[j] => i = j

\* block.repository.ts: a stale entry "cannot seat them together — the join
\* path re-checks".
BlockedNeverSeated ==
    [][\A u, v \in Users, r \in Rooms :
          /\ <<u, r>> \in plays' \ plays /\ v \in rooms[r].seats
          /\ <<v, u>> \in rows \ forgetting
          => FALSE]_vars
=============================================================================
