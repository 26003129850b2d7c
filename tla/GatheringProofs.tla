--------------------------- MODULE GatheringProofs ---------------------------
(***************************************************************************)
(* What is proved of Quick Play, and of the seats and the rewards of the   *)
(* platform's rooms, in the composition the runs check: for any users,     *)
(* rooms, bots and calls, whatever else moves the rooms, the blocks and    *)
(* the seats.                                                              *)
(***************************************************************************)
EXTENDS Gathering, FilterProofs, FiniteSetTheorems, TLAPS

\* A call that has passed the gate, and one that has no seat yet.
Working == {"asking", "answered", "asked", "queued", "opening"}
Admitted == Working \cup {"seated"}
PlayLabels == Admitted \cup {"idle", "listing", "listed"}

CallRecords == [at : PlayLabels, by : Users \cup {NoId},
                known : SUBSET Users, refused : SUBSET Rooms]

PlayTyping ==
  /\ rooms \in [Rooms -> [state : {"absent", "waiting", "playing", "closed"},
                          door : {"open", "locked", "private"},
                          seats : SUBSET Users, quick : BOOLEAN]]
  /\ related \in [Users -> (SUBSET Users) \cup {NoId}]
  /\ taps \in [Calls -> CallRecords]
  /\ queue \in Seq(Calls)
  /\ plays \subseteq Users \X Rooms

\* The gate lets one call of a user pass, until it has answered.
GateHolds ==
  /\ \A c \in Calls : taps[c].at \in Admitted => taps[c].by \in inFlight /\ taps[c].by \in Users
  /\ \A c, d \in Calls : taps[c].at \in Admitted /\ taps[d].at \in Admitted
                         /\ taps[c].by = taps[d].by => c = d

\* The history is of seats still held, and of nobody whose call has none yet.
SeatsHeld ==
  /\ \A u \in Users, r \in Rooms : <<u, r>> \in plays => Play!Live(r) /\ u \in rooms[r].seats
  /\ \A c \in Calls : taps[c].at \in Working => \A r \in Rooms : <<taps[c].by, r>> \notin plays

\* A call that opens a room has been refused by every room opened so before.
RefusedByAll ==
  \A c \in Calls : taps[c].at = "opening" => \A r \in Rooms : rooms[r].quick => r \in taps[c].refused

PlayInv ==
  PlayTyping /\ GateHolds /\ SeatsHeld /\ Play!OneSeatByPlay /\ Play!QueueMoves /\ RefusedByAll

-----------------------------------------------------------------------------
(* How a step moves a call *)

\* One call moves and the others stay.
Moves(c, label) ==
  /\ taps' \in [Calls -> CallRecords]
  /\ taps'[c].at = label
  /\ \A d \in Calls \ {c} : taps'[d] = taps[d]

\* It stays the call of the same user.
MovesOn(c, label) == Moves(c, label) /\ taps'[c].by = taps[c].by

LEMMA CallMoves ==
  ASSUME PlayTyping, NEW c \in Calls, NEW label \in PlayLabels, NEW u \in Users \cup {NoId},
         NEW known \in SUBSET Users, taps' = [taps EXCEPT ![c] = Play!Call(label, u, known)]
  PROVE  Moves(c, label) /\ taps'[c].by = u
<1>1. Play!Call(label, u, known) \in CallRecords
  BY DEF Play!Call, CallRecords
<1>2. Play!Call(label, u, known).at = label /\ Play!Call(label, u, known).by = u
  BY DEF Play!Call
<1>. QED
  BY <1>1, <1>2 DEF PlayTyping, Moves

LEMMA EndMoves ==
  ASSUME PlayTyping, NEW c \in Calls, taps' = [taps EXCEPT ![c] = Play!NoTap]
  PROVE  Moves(c, "idle")
<1>1. "idle" \in PlayLabels /\ NoId \in Users \cup {NoId} /\ {} \in SUBSET Users
  BY DEF PlayLabels
<1>. QED
  BY <1>1, CallMoves DEF Play!NoTap

LEMMA TapMoves ==
  ASSUME PlayTyping, NEW c \in Calls, NEW u \in Users, Play!Tap(c, u)
  PROVE  \E label \in {"asking", "asked"} : Moves(c, label) /\ taps'[c].by = u
<1>. DEFINE fresh == IF related[u] = NoId THEN Play!Call("asking", u, {})
                     ELSE Play!Call("asked", u, related[u])
<1>1. taps' = [taps EXCEPT ![c] = fresh]
  BY DEF Play!Tap
<1>2. /\ "asking" \in PlayLabels /\ "asked" \in PlayLabels
      /\ u \in Users \cup {NoId} /\ {} \in SUBSET Users
      /\ related[u] # NoId => related[u] \in SUBSET Users
  BY DEF PlayTyping, PlayLabels, Admitted, Working
<1>3. CASE related[u] = NoId
  <2>1. fresh = Play!Call("asking", u, {})
    BY <1>3
  <2>. QED
    BY <1>1, <1>2, <2>1, CallMoves
<1>4. CASE related[u] # NoId
  <2>1. fresh = Play!Call("asked", u, related[u])
    BY <1>4
  <2>. QED
    BY <1>1, <1>2, <1>4, <2>1, CallMoves
<1>. QED
  BY <1>3, <1>4

LEMMA AnswerMoves ==
  ASSUME PlayTyping, NEW c \in Calls, Play!Answer(c)
  PROVE  \/ taps[c].at = "asking" /\ MovesOn(c, "answered")
         \/ taps[c].at = "listing" /\ MovesOn(c, "listed")
<1>. DEFINE known == Play!Related(taps[c].by)
<1>1. known \in SUBSET Users /\ taps[c].by \in Users \cup {NoId}
  BY DEF Play!Related, PlayTyping, CallRecords
<1>2. \/ taps[c].at = "asking" /\ taps' = [taps EXCEPT ![c] = Play!Call("answered", taps[c].by, known)]
      \/ taps[c].at = "listing" /\ taps' = [taps EXCEPT ![c] = Play!Call("listed", taps[c].by, known)]
  BY DEF Play!Answer, Play!At
<1>. HIDE DEF known
<1>. QED
  BY <1>1, <1>2, CallMoves DEF MovesOn, PlayLabels, Admitted, Working

LEMMA RestMoves ==
  ASSUME PlayTyping, NEW c \in Calls, Play!Rest(c)
  PROVE  MovesOn(c, "seated")
<1>1. "seated" \in PlayLabels /\ taps[c].by \in Users \cup {NoId} /\ {} \in SUBSET Users
  BY DEF PlayTyping, CallRecords, PlayLabels, Admitted
<1>. QED
  BY <1>1, CallMoves DEF Play!Rest, MovesOn

LEMMA EnqueueMoves ==
  ASSUME PlayTyping, NEW c \in Calls, Play!Enqueue(c)
  PROVE  MovesOn(c, "queued") /\ queue' = Append(queue, c)
BY DEF Play!Enqueue, Play!GoTo, PlayTyping, CallRecords, Moves, MovesOn, PlayLabels, Admitted, Working

LEMMA FinishMoves ==
  ASSUME PlayTyping, NEW c \in Calls, Play!Finish(c)
  PROVE  /\ Moves(c, "idle")
         /\ inFlight' = inFlight \ {taps[c].by}
         /\ queue' = IF Play!First(c) THEN Tail(queue) ELSE queue
BY EndMoves DEF Play!Finish, Play!LeaveQueue

\* Opening a room begins with a note of the rooms that have refused the call.
LEMMA OpeningMoves ==
  ASSUME PlayTyping, NEW c \in Calls, NEW refused \in SUBSET Rooms,
         taps' = [taps EXCEPT ![c].at = "opening", ![c].refused = refused]
  PROVE  MovesOn(c, "opening") /\ taps'[c].refused = refused
BY DEF PlayTyping, CallRecords, Moves, MovesOn, PlayLabels, Admitted, Working

-----------------------------------------------------------------------------
(* The gate *)

LEMMA GateKept ==
  ASSUME GateHolds, NEW c \in Calls, NEW label,
         \/ /\ MovesOn(c, label) /\ taps[c].at \in Admitted
            /\ inFlight' = inFlight
         \/ /\ Moves(c, label) /\ label \notin Admitted
            /\ inFlight' = inFlight \ {taps[c].by} /\ taps[c].at \in Admitted
         \/ Moves(c, label) /\ label \notin Admitted /\ inFlight' = inFlight
         \/ /\ Moves(c, label) /\ taps'[c].by \in Users \ inFlight
            /\ inFlight' = inFlight \cup {taps'[c].by}
  PROVE  GateHolds'
BY DEF GateHolds, Moves, MovesOn

LEMMA GateStays == ASSUME GateHolds, UNCHANGED <<taps, inFlight>> PROVE GateHolds'
BY DEF GateHolds

-----------------------------------------------------------------------------
(* The seats Quick Play took *)

\* Rooms and history go together: a seat in it stays one.
PlaysStayHeld ==
  \A u \in Users, r \in Rooms : <<u, r>> \in plays' => Play!Live(r)' /\ u \in rooms'[r].seats

LEMMA HeldKept ==
  ASSUME SeatsHeld, PlaysStayHeld, plays' \subseteq plays, NEW c \in Calls, NEW label,
         Moves(c, label), label \in Working => MovesOn(c, label) /\ taps[c].at \in Working
  PROVE  SeatsHeld'
BY DEF SeatsHeld, PlaysStayHeld, Moves, MovesOn

LEMMA HeldByNewCall ==
  ASSUME SeatsHeld, UNCHANGED <<plays, rooms>>, NEW c \in Calls, NEW label,
         Moves(c, label), \A r \in Rooms : <<taps'[c].by, r>> \notin plays
  PROVE  SeatsHeld'
BY DEF SeatsHeld, Moves, Play!Live

LEMMA HeldStays ==
  ASSUME SeatsHeld, PlaysStayHeld, plays' \subseteq plays, taps' = taps
  PROVE  SeatsHeld'
BY DEF SeatsHeld, PlaysStayHeld

\* Taking a seat: the gate keeps the player's other calls away from one.
LEMMA HeldBySeat ==
  ASSUME GateHolds, SeatsHeld, PlaysStayHeld, Play!OneSeatByPlay,
         NEW c \in Calls, taps[c].at \in Working, MovesOn(c, "seated"),
         NEW r \in Rooms, plays' = plays \cup {<<taps[c].by, r>>}
  PROVE  SeatsHeld' /\ Play!OneSeatByPlay'
<1>1. \A d \in Calls \ {c} : taps[d].at \in Working => taps[d].by # taps[c].by
  BY DEF GateHolds, Admitted
<1>2. SeatsHeld'
  BY <1>1 DEF SeatsHeld, PlaysStayHeld, Moves, MovesOn, Working
<1>3. Play!OneSeatByPlay'
  BY DEF Play!OneSeatByPlay, SeatsHeld
<1>. QED
  BY <1>2, <1>3

LEMMA OneSeatStays ==
  ASSUME Play!OneSeatByPlay, plays' \subseteq plays
  PROVE  Play!OneSeatByPlay'
BY DEF Play!OneSeatByPlay

-----------------------------------------------------------------------------
(* The queue *)

\* Who is in the queue.
LEMMA InQueue ==
  ASSUME PlayTyping, Play!QueueMoves
  PROVE  /\ \A i \in 1 .. Len(queue) : taps[queue[i]].at \in {"queued", "opening", "seated"}
         /\ \A c \in Calls : taps[c].at = "opening" => Play!First(c)
         /\ \A c \in Calls : Play!First(c) => queue # <<>> /\ queue[1] = c
<1>1. queue # <<>> => Len(queue) \in Nat /\ Len(queue) >= 1 /\ Head(queue) = queue[1]
  BY DEF PlayTyping
<1>2. ASSUME NEW i \in 1 .. Len(queue)
      PROVE  taps[queue[i]].at \in {"queued", "opening", "seated"}
  <2>1. CASE i = 1
    BY <1>1, <1>2, <2>1 DEF Play!QueueMoves, PlayTyping
  <2>2. CASE i # 1
    <3>1. i \in 2 .. Len(queue)
      BY <1>2, <2>2 DEF PlayTyping
    <3>. QED
      BY <3>1 DEF Play!QueueMoves
  <2>. QED
    BY <2>1, <2>2
<1>3. ASSUME NEW c \in Calls, taps[c].at = "opening"
      PROVE  Play!First(c)
  <2>1. PICK i \in 1 .. Len(queue) : queue[i] = c
    BY <1>3 DEF Play!QueueMoves
  <2>2. i \notin 2 .. Len(queue)
    BY <1>3, <2>1 DEF Play!QueueMoves
  <2>. QED
    BY <1>1, <2>1, <2>2 DEF Play!First, PlayTyping
<1>. QED
  BY <1>1, <1>2, <1>3 DEF Play!First

\* A call outside the queue moves, and stays outside.
LEMMA QueueOutside ==
  ASSUME PlayTyping, Play!QueueMoves, NEW c \in Calls, NEW label,
         Moves(c, label), queue' = queue, label \notin {"queued", "opening"},
         taps[c].at \notin {"queued", "opening", "seated"}
  PROVE  Play!QueueMoves'
<1>1. \A i \in 1 .. Len(queue) : queue[i] # c /\ queue[i] \in Calls
  BY InQueue DEF PlayTyping
<1>2. \A i \in 1 .. Len(queue) : taps'[queue[i]] = taps[queue[i]]
  BY <1>1 DEF Moves
<1>3. queue # <<>> => 1 \in 1 .. Len(queue) /\ Head(queue) = queue[1]
  BY DEF PlayTyping
<1>4. \A i \in 2 .. Len(queue) : i \in 1 .. Len(queue)
  BY DEF PlayTyping
<1>. QED
  BY <1>1, <1>2, <1>3, <1>4 DEF Play!QueueMoves, Moves

\* The call at the head goes on.
LEMMA QueueRuns ==
  ASSUME PlayTyping, Play!QueueMoves, NEW c \in Calls, NEW label,
         Moves(c, label), queue' = queue, Play!First(c), label \in {"opening", "seated"}
  PROVE  Play!QueueMoves'
<1>1. queue # <<>> /\ Head(queue) = c /\ queue[1] = c /\ 1 \in 1 .. Len(queue)
  BY InQueue DEF Play!First, PlayTyping
<1>2. \A i \in 2 .. Len(queue) : i \in 1 .. Len(queue) /\ queue[i] # c /\ queue[i] \in Calls
  BY <1>1 DEF Play!QueueMoves, PlayTyping
<1>. QED
  BY <1>1, <1>2 DEF Play!QueueMoves, Moves

\* A call joins it.
LEMMA QueueGrows ==
  ASSUME PlayTyping, Play!QueueMoves, NEW c \in Calls,
         Moves(c, "queued"), queue' = Append(queue, c),
         taps[c].at \notin {"queued", "opening", "seated"}
  PROVE  Play!QueueMoves'
<1>1. \A i \in 1 .. Len(queue) : queue[i] # c /\ queue[i] \in Calls
  BY InQueue DEF PlayTyping
<1>2. \A i \in 1 .. Len(queue) : taps'[queue[i]] = taps[queue[i]]
  BY <1>1 DEF Moves
<1>3. /\ Len(queue') = Len(queue) + 1 /\ queue'[Len(queue')] = c /\ Len(queue) \in Nat
      /\ \A i \in 1 .. Len(queue) : queue'[i] = queue[i]
      /\ queue' # <<>> /\ Head(queue') = queue'[1]
      /\ queue # <<>> => Head(queue) = queue[1]
  BY DEF PlayTyping
<1>4. \A i \in 1 .. Len(queue') : i \in 1 .. Len(queue) \/ i = Len(queue')
  BY <1>3
<1>5. taps'[Head(queue')].at \in {"queued", "opening", "seated"}
  <2>1. CASE queue = <<>>
    BY <1>3, <2>1 DEF Moves
  <2>2. CASE queue # <<>>
    <3>1. 1 \in 1 .. Len(queue)
      BY <2>2 DEF PlayTyping
    <3>. QED
      BY <1>2, <1>3, <2>2, <3>1 DEF Play!QueueMoves
  <2>. QED
    BY <2>1, <2>2
<1>6. \A i \in 2 .. Len(queue') : taps'[queue'[i]].at = "queued"
  <2>. SUFFICES ASSUME NEW i \in 2 .. Len(queue') PROVE taps'[queue'[i]].at = "queued"
    OBVIOUS
  <2>1. CASE i = Len(queue')
    BY <1>3, <2>1 DEF Moves
  <2>2. CASE i # Len(queue')
    <3>1. i \in 2 .. Len(queue) /\ i \in 1 .. Len(queue)
      BY <1>3, <2>2
    <3>. QED
      BY <1>2, <1>3, <3>1 DEF Play!QueueMoves
  <2>. QED
    BY <2>1, <2>2
<1>7. \A d \in Calls : taps'[d].at \in {"queued", "opening"} => \E i \in 1 .. Len(queue') : queue'[i] = d
  <2>. SUFFICES ASSUME NEW d \in Calls, taps'[d].at \in {"queued", "opening"}
                PROVE  \E i \in 1 .. Len(queue') : queue'[i] = d
    OBVIOUS
  <2>1. CASE d = c
    <3>1. Len(queue') \in 1 .. Len(queue')
      BY <1>3
    <3>. QED
      BY <1>3, <2>1, <3>1
  <2>2. CASE d # c
    <3>1. PICK i \in 1 .. Len(queue) : queue[i] = d
      BY <2>2 DEF Play!QueueMoves, Moves
    <3>2. i \in 1 .. Len(queue') /\ queue'[i] = d
      BY <1>3, <3>1
    <3>. QED
      BY <3>2
  <2>. QED
    BY <2>1, <2>2
<1>8. \A i, j \in 1 .. Len(queue') : queue'[i] = queue'[j] => i = j
  BY <1>1, <1>3, <1>4 DEF Play!QueueMoves
<1>. QED
  BY <1>5, <1>6, <1>7, <1>8 DEF Play!QueueMoves

\* A call answers, and the next one may run.
LEMMA QueueShrinks ==
  ASSUME PlayTyping, Play!QueueMoves, NEW c \in Calls, Moves(c, "idle"), Play!First(c),
         queue' = Tail(queue)
  PROVE  Play!QueueMoves'
<1>1. queue # <<>> /\ queue[1] = c /\ 1 \in 1 .. Len(queue) /\ Len(queue) \in Nat
  BY InQueue DEF Play!First, PlayTyping
<1>2. /\ queue' \in Seq(Calls) /\ Len(queue') = Len(queue) - 1
      /\ \A i \in 1 .. Len(queue') : queue'[i] = queue[i + 1]
      /\ queue' # <<>> => Head(queue') = queue'[1] /\ 1 \in 1 .. Len(queue')
  BY <1>1 DEF PlayTyping
<1>3. \A i \in 1 .. Len(queue') : i + 1 \in 2 .. Len(queue) /\ i + 1 \in 1 .. Len(queue)
  BY <1>1, <1>2
<1>4. \A i \in 1 .. Len(queue') : queue'[i] \in Calls \ {c}
  <2>. SUFFICES ASSUME NEW i \in 1 .. Len(queue') PROVE queue'[i] \in Calls \ {c}
    OBVIOUS
  <2>1. queue'[i] = queue[i + 1] /\ i + 1 \in 1 .. Len(queue) /\ i + 1 # 1
    BY <1>1, <1>2, <1>3
  <2>2. queue[i + 1] # queue[1]
    BY <1>1, <2>1 DEF Play!QueueMoves
  <2>. QED
    BY <1>1, <1>2, <2>1, <2>2
<1>5. \A i \in 1 .. Len(queue') : taps'[queue'[i]].at = "queued"
  <2>. SUFFICES ASSUME NEW i \in 1 .. Len(queue') PROVE taps'[queue'[i]].at = "queued"
    OBVIOUS
  <2>1. taps[queue[i + 1]].at = "queued" /\ queue'[i] = queue[i + 1]
    BY <1>2, <1>3 DEF Play!QueueMoves
  <2>. QED
    BY <1>4, <2>1 DEF Moves
<1>6. queue' # <<>> => taps'[Head(queue')].at \in {"queued", "opening", "seated"}
  BY <1>2, <1>5
<1>7. \A i \in 2 .. Len(queue') : taps'[queue'[i]].at = "queued"
  BY <1>2, <1>5
<1>8. \A d \in Calls : taps'[d].at \in {"queued", "opening"} => \E i \in 1 .. Len(queue') : queue'[i] = d
  <2>. SUFFICES ASSUME NEW d \in Calls, taps'[d].at \in {"queued", "opening"}
                PROVE  \E i \in 1 .. Len(queue') : queue'[i] = d
    OBVIOUS
  <2>1. d # c /\ taps[d].at \in {"queued", "opening"}
    BY DEF Moves
  <2>2. PICK i \in 1 .. Len(queue) : queue[i] = d
    BY <2>1 DEF Play!QueueMoves
  <2>3. i # 1 /\ i - 1 \in 1 .. Len(queue') /\ queue'[i - 1] = queue[i]
    BY <1>1, <1>2, <2>1, <2>2
  <2>. QED
    BY <2>2, <2>3
<1>9. \A i, j \in 1 .. Len(queue') : queue'[i] = queue'[j] => i = j
  <2>. SUFFICES ASSUME NEW i \in 1 .. Len(queue'), NEW j \in 1 .. Len(queue'), queue'[i] = queue'[j]
                PROVE  i = j
    OBVIOUS
  <2>1. i + 1 = j + 1
    BY <1>2, <1>3 DEF Play!QueueMoves
  <2>. QED
    BY <1>2, <2>1
<1>. QED
  BY <1>6, <1>7, <1>8, <1>9 DEF Play!QueueMoves

LEMMA QueueStays == ASSUME Play!QueueMoves, UNCHANGED <<taps, queue>> PROVE Play!QueueMoves'
BY DEF Play!QueueMoves

\* An answer, from inside the queue or outside.
LEMMA QueueLeft ==
  ASSUME PlayTyping, Play!QueueMoves, NEW c \in Calls, Moves(c, "idle"),
         queue' = IF Play!First(c) THEN Tail(queue) ELSE queue,
         taps[c].at \in {"asking", "queued", "opening", "seated"},
         taps[c].at = "queued" => Play!First(c)
  PROVE  Play!QueueMoves'
<1>1. CASE Play!First(c)
  BY <1>1, QueueShrinks
<1>2. CASE ~Play!First(c)
  <2>1. taps[c].at \in {"asking", "seated"} /\ queue' = queue
    BY <1>2, InQueue
  <2>2. \A i \in 1 .. Len(queue) : queue[i] # c /\ queue[i] \in Calls
    <3>. SUFFICES ASSUME NEW i \in 1 .. Len(queue), queue[i] = c PROVE FALSE
      BY DEF PlayTyping
    <3>1. i \notin 2 .. Len(queue)
      BY <2>1 DEF Play!QueueMoves
    <3>2. i = 1 /\ queue # <<>> /\ Head(queue) = queue[1]
      BY <3>1 DEF PlayTyping
    <3>. QED
      BY <1>2, <3>2 DEF Play!First
  <2>3. \A i \in 1 .. Len(queue) : taps'[queue[i]] = taps[queue[i]]
    BY <2>2 DEF Moves
  <2>4. queue # <<>> => 1 \in 1 .. Len(queue) /\ Head(queue) = queue[1]
    BY DEF PlayTyping
  <2>5. \A i \in 2 .. Len(queue) : i \in 1 .. Len(queue)
    BY DEF PlayTyping
  <2>. QED
    BY <2>1, <2>2, <2>3, <2>4, <2>5 DEF Play!QueueMoves, Moves
<1>. QED
  BY <1>1, <1>2

-----------------------------------------------------------------------------
(* The rooms *)

RoomRecords == [state : {"absent", "waiting", "playing", "closed"},
                door : {"open", "locked", "private"},
                seats : SUBSET Users, quick : BOOLEAN]

RoomTyping == rooms \in [Rooms -> RoomRecords]

\* A step takes nobody's seat of Quick Play away and opens no room for it.
RoomsKept ==
  /\ RoomTyping'
  /\ PlaysStayHeld
  /\ \A r \in Rooms : rooms'[r].quick => rooms[r].quick

LEMMA RoomsTyped == ASSUME PlayTyping PROVE RoomTyping
BY DEF PlayTyping, RoomTyping, RoomRecords

LEMMA SameRooms ==
  ASSUME RoomTyping, SeatsHeld, rooms' = rooms, plays' \subseteq plays
  PROVE  RoomsKept
BY DEF RoomTyping, SeatsHeld, RoomsKept, PlaysStayHeld, Play!Live

\* A seat is taken in a live room.
LEMMA SeatKeepsRooms ==
  ASSUME RoomTyping, SeatsHeld, NEW u \in Users, NEW r \in Rooms, Play!Live(r),
         Play!Seat(u, r), plays' = plays \cup {<<u, r>>} \/ plays' = plays
  PROVE  RoomsKept
<1>1. /\ rooms' \in [Rooms -> RoomRecords]
      /\ \A s \in Rooms : /\ rooms'[s].state = rooms[s].state
                          /\ rooms'[s].quick = rooms[s].quick
                          /\ rooms[s].seats \subseteq rooms'[s].seats
      /\ u \in rooms'[r].seats
  BY DEF RoomTyping, RoomRecords, Play!Seat
<1>2. ASSUME NEW v \in Users, NEW s \in Rooms, <<v, s>> \in plays'
      PROVE  Play!Live(s)' /\ v \in rooms'[s].seats
  BY <1>1, <1>2 DEF SeatsHeld, Play!Live
<1>. QED
  BY <1>1, <1>2 DEF RoomsKept, RoomTyping, PlaysStayHeld

\* A room is registered; the one who opens it sits in it.
LEMMA RegisterKeepsRooms ==
  ASSUME RoomTyping, SeatsHeld, NEW u \in Users, NEW r \in Rooms,
         NEW door \in {"open", "private"}, NEW quick \in BOOLEAN,
         Play!Register(u, r, door, quick), plays' = plays \cup {<<u, r>>} \/ plays' = plays
  PROVE  /\ RoomTyping' /\ PlaysStayHeld
         /\ \A s \in Rooms \ {r} : rooms'[s] = rooms[s]
         /\ rooms'[r].quick = quick
<1>1. /\ rooms' \in [Rooms -> RoomRecords]
      /\ \A s \in Rooms \ {r} : rooms'[s] = rooms[s]
      /\ rooms'[r].state = "waiting" /\ rooms'[r].seats = {u} /\ rooms'[r].quick = quick
  BY DEF RoomTyping, RoomRecords, Play!Register
<1>2. ~Play!Live(r)
  BY DEF Play!Register, Play!NoRoom, Play!Live
<1>3. ASSUME NEW v \in Users, NEW s \in Rooms, <<v, s>> \in plays'
      PROVE  Play!Live(s)' /\ v \in rooms'[s].seats
  BY <1>1, <1>2, <1>3 DEF SeatsHeld, Play!Live
<1>. QED
  BY <1>1, <1>3 DEF RoomTyping, PlaysStayHeld

LEMMA LeaveKeepsRooms ==
  ASSUME RoomTyping, SeatsHeld, NEW u \in Users, NEW r \in Rooms, Play!Leave(u, r)
  PROVE  RoomsKept
<1>1. /\ rooms' \in [Rooms -> RoomRecords]
      /\ \A s \in Rooms : /\ rooms'[s].state = rooms[s].state
                          /\ rooms'[s].quick = rooms[s].quick
                          /\ s # r => rooms'[s].seats = rooms[s].seats
      /\ rooms'[r].seats = rooms[r].seats \ {u}
  BY DEF RoomTyping, RoomRecords, Play!Leave
<1>2. ASSUME NEW v \in Users, NEW s \in Rooms, <<v, s>> \in plays'
      PROVE  Play!Live(s)' /\ v \in rooms'[s].seats
  BY <1>1, <1>2 DEF SeatsHeld, Play!Live, Play!Leave
<1>. QED
  BY <1>1, <1>2 DEF RoomsKept, RoomTyping, PlaysStayHeld

LEMMA CloseKeepsRooms ==
  ASSUME RoomTyping, SeatsHeld, NEW r \in Rooms, Play!Close(r)
  PROVE  RoomsKept
<1>1. Play!Closed \in RoomRecords /\ Play!Closed.quick = FALSE
  BY DEF Play!Closed, Play!NoRoom, RoomRecords
<1>2. rooms' \in [Rooms -> RoomRecords] /\ ~rooms'[r].quick
      /\ \A s \in Rooms \ {r} : rooms'[s] = rooms[s]
  BY <1>1 DEF RoomTyping, Play!Close
<1>3. ASSUME NEW v \in Users, NEW s \in Rooms, <<v, s>> \in plays'
      PROVE  Play!Live(s)' /\ v \in rooms'[s].seats
  <2>1. <<v, s>> \in plays /\ s # r
    BY <1>3 DEF Play!Close
  <2>. QED
    BY <1>2, <2>1 DEF SeatsHeld, Play!Live
<1>. QED
  BY <1>2, <1>3 DEF RoomsKept, RoomTyping, PlaysStayHeld

LEMMA DoorKeepsRooms ==
  ASSUME RoomTyping, SeatsHeld, NEW r \in Rooms, Play!StartOrStop(r) \/ Play!Lock(r)
  PROVE  RoomsKept
<1>1. /\ rooms' \in [Rooms -> RoomRecords]
      /\ \A s \in Rooms : /\ rooms'[s].quick = rooms[s].quick
                          /\ rooms'[s].seats = rooms[s].seats
                          /\ Play!Live(s) => Play!Live(s)'
  BY DEF RoomTyping, RoomRecords, Play!StartOrStop, Play!Lock, Play!Live
<1>2. plays' = plays
  BY DEF Play!StartOrStop, Play!Lock
<1>. QED
  BY <1>1, <1>2 DEF RoomsKept, RoomTyping, PlaysStayHeld, SeatsHeld

-----------------------------------------------------------------------------
(* Refusals *)

LEMMA RefusedKept ==
  ASSUME RefusedByAll, \A r \in Rooms : rooms'[r].quick => rooms[r].quick,
         \/ taps' = taps
         \/ \E c \in Calls, label \in PlayLabels \ {"opening"} : Moves(c, label)
  PROVE  RefusedByAll'
BY DEF RefusedByAll, Moves

\* The opening begins: no room would take the player.
LEMMA RefusedAtOpening ==
  ASSUME RefusedByAll, NEW c \in Calls, Moves(c, "opening"), rooms' = rooms,
         taps'[c].refused = {r \in Rooms : rooms[r] # Play!NoRoom
                                           /\ ~Play!Joinable(r, taps[c].by, taps[c].known)},
         Play!Candidates(c) = {}
  PROVE  RefusedByAll'
<1>1. \A r \in Rooms : ~Play!Joinable(r, taps[c].by, taps[c].known)
  BY DEF Play!Candidates
<1>2. \A r \in Rooms : rooms[r].quick => rooms[r] # Play!NoRoom
  BY DEF Play!NoRoom
<1>. QED
  BY <1>1, <1>2 DEF RefusedByAll, Moves

\* A room is opened: nobody else is opening one.
LEMMA RefusedAfterOpening ==
  ASSUME PlayTyping, Play!QueueMoves, RefusedByAll, NEW c \in Calls,
         taps[c].at = "opening", Moves(c, "seated")
  PROVE  RefusedByAll'
<1>1. \A d \in Calls : taps[d].at = "opening" => d = c
  BY InQueue
<1>. QED
  BY <1>1 DEF RefusedByAll, Moves

-----------------------------------------------------------------------------
(* Steps *)

\* The pieces of the invariant after a step.
LEMMA PlayPieces ==
  ASSUME RoomTyping', related' \in [Users -> (SUBSET Users) \cup {NoId}],
         taps' \in [Calls -> CallRecords], queue' \in Seq(Calls), plays' \subseteq Users \X Rooms,
         GateHolds', SeatsHeld', Play!OneSeatByPlay', Play!QueueMoves', RefusedByAll'
  PROVE  PlayInv'
BY DEF PlayInv, PlayTyping, RoomTyping, RoomRecords

\* Only a room, its door or the seats of other people move.
LEMMA RoomsMove ==
  ASSUME PlayInv, RoomsKept, plays' \subseteq plays, UNCHANGED <<related, taps, inFlight, queue>>
  PROVE  PlayInv'
<1>1. SeatsHeld'
  BY HeldStays DEF PlayInv, RoomsKept
<1>2. RefusedByAll'
  BY RefusedKept DEF PlayInv, RoomsKept
<1>. QED
  BY <1>1, <1>2, GateStays, OneSeatStays, QueueStays, PlayPieces DEF PlayInv, PlayTyping, RoomsKept

\* The seat of a call that works: a room that takes it, or its own.
LEMMA JoinKeeps ==
  ASSUME PlayInv, NEW c \in Calls, taps[c].at \in Working, Play!Join(c)
  PROVE  /\ RoomTyping' /\ plays' \subseteq Users \X Rooms /\ MovesOn(c, "seated")
         /\ SeatsHeld' /\ Play!OneSeatByPlay' /\ RefusedByAll'
<1>1. PICK r \in Rooms : /\ Play!Joinable(r, taps[c].by, taps[c].known)
                         /\ Play!Seat(taps[c].by, r)
                         /\ plays' = plays \cup {<<taps[c].by, r>>}
                         /\ Play!Rest(c)
  BY DEF Play!Join, Play!Candidates
<1>2. taps[c].by \in Users
  BY DEF PlayInv, GateHolds, Admitted
<1>3. Play!Live(r)
  BY <1>1 DEF Play!Joinable, Play!Eligible, Play!Live
<1>4. RoomsKept
  BY <1>1, <1>2, <1>3, RoomsTyped, SeatKeepsRooms DEF PlayInv
<1>5. MovesOn(c, "seated")
  BY <1>1, RestMoves DEF PlayInv
<1>6. SeatsHeld' /\ Play!OneSeatByPlay'
  BY <1>1, <1>4, <1>5, HeldBySeat DEF PlayInv, RoomsKept
<1>7. RefusedByAll'
  BY <1>4, <1>5, RefusedKept DEF PlayInv, RoomsKept, MovesOn, PlayLabels, Admitted
<1>. QED
  BY <1>1, <1>2, <1>4, <1>5, <1>6, <1>7 DEF PlayInv, PlayTyping, RoomsKept

\* A call that answers, whatever it had.
LEMMA FinishKeeps ==
  ASSUME PlayInv, NEW c \in Calls, Play!Finish(c), UNCHANGED <<rooms, related, plays>>,
         taps[c].at \in {"asking", "queued", "opening", "seated"},
         taps[c].at = "queued" => Play!First(c)
  PROVE  PlayInv'
<1>1. /\ Moves(c, "idle") /\ inFlight' = inFlight \ {taps[c].by}
      /\ queue' = IF Play!First(c) THEN Tail(queue) ELSE queue
  BY FinishMoves DEF PlayInv
<1>2. taps[c].at \in Admitted /\ "idle" \notin Admitted /\ "idle" \notin Working
      /\ "idle" \in PlayLabels \ {"opening"}
  BY DEF Admitted, Working, PlayLabels
<1>3. GateHolds'
  BY <1>1, <1>2, GateKept DEF PlayInv
<1>4. RoomsKept
  BY RoomsTyped, SameRooms DEF PlayInv
<1>5. SeatsHeld'
  BY <1>1, <1>2, <1>4, HeldKept DEF PlayInv, RoomsKept
<1>6. Play!QueueMoves'
  BY <1>1, QueueLeft DEF PlayInv
<1>7. RefusedByAll'
  BY <1>1, <1>2, <1>4, RefusedKept DEF PlayInv, RoomsKept
<1>8. queue' \in Seq(Calls)
  BY <1>1, InQueue DEF PlayInv, PlayTyping
<1>. QED
  BY <1>1, <1>3, <1>4, <1>5, <1>6, <1>7, <1>8, OneSeatStays, PlayPieces
  DEF PlayInv, PlayTyping, RoomsKept, Moves

\* A call outside the queue waits, for the blocks or to write its seat down.
LEMMA CallKeeps ==
  ASSUME PlayInv, UNCHANGED <<rooms, queue, plays>>,
         related' \in [Users -> (SUBSET Users) \cup {NoId}],
         NEW c \in Calls, taps[c].at \notin {"queued", "opening", "seated"},
         NEW label \in PlayLabels \ {"queued", "opening"}, Moves(c, label),
         GateHolds', SeatsHeld'
  PROVE  PlayInv'
<1>1. RoomsKept
  BY RoomsTyped, SameRooms DEF PlayInv
<1>2. Play!QueueMoves'
  BY QueueOutside DEF PlayInv
<1>3. RefusedByAll'
  BY <1>1, RefusedKept DEF PlayInv, RoomsKept
<1>. QED
  BY <1>1, <1>2, <1>3, OneSeatStays, PlayPieces DEF PlayInv, PlayTyping, RoomsKept, Moves

LEMMA TapKeeps ==
  ASSUME PlayInv, NEW c \in Calls, NEW u \in Users, Play!Tap(c, u)
  PROVE  PlayInv'
<1>1. PICK label \in {"asking", "asked"} : Moves(c, label) /\ taps'[c].by = u
  BY TapMoves DEF PlayInv
<1>2. /\ UNCHANGED <<rooms, related, queue, plays>> /\ inFlight' = inFlight \cup {u}
      /\ u \notin inFlight /\ taps[c].at = "idle" /\ ~Play!Seated(u)
  BY DEF Play!Tap, Play!At, Play!Gated
<1>3. GateHolds'
  BY <1>1, <1>2, GateKept DEF PlayInv
<1>4. \A r \in Rooms : <<u, r>> \notin plays
  BY <1>2 DEF PlayInv, SeatsHeld, Play!Seated
<1>5. SeatsHeld'
  BY <1>1, <1>2, <1>4, HeldByNewCall DEF PlayInv
<1>6. label \in PlayLabels \ {"queued", "opening"}
  BY <1>1 DEF PlayLabels, Admitted, Working
<1>. QED
  BY <1>1, <1>2, <1>3, <1>5, <1>6, CallKeeps DEF PlayInv, PlayTyping

LEMMA BrowseKeeps ==
  ASSUME PlayInv, NEW c \in Calls, NEW u \in Users, Play!Browse(c, u)
  PROVE  PlayInv'
<1>1. /\ "listing" \in PlayLabels \ {"queued", "opening"} /\ "listing" \notin Admitted
      /\ "listing" \notin Working
  BY DEF PlayLabels, Admitted, Working
<1>2. Moves(c, "listing") /\ taps[c].at = "idle" /\ UNCHANGED <<rooms, related, inFlight, queue, plays>>
  <2>1. "listing" \in PlayLabels /\ u \in Users \cup {NoId} /\ {} \in SUBSET Users
    BY <1>1
  <2>2. taps' = [taps EXCEPT ![c] = Play!Call("listing", u, {})]
    BY DEF Play!Browse
  <2>3. Moves(c, "listing")
    BY <2>1, <2>2, CallMoves DEF PlayInv
  <2>. QED
    BY <2>3 DEF Play!Browse, Play!At
<1>3. GateHolds'
  BY <1>1, <1>2, GateKept DEF PlayInv
<1>4. SeatsHeld'
  BY <1>1, <1>2, HeldKept, RoomsTyped, SameRooms DEF PlayInv, RoomsKept
<1>. QED
  BY <1>1, <1>2, <1>3, <1>4, CallKeeps DEF PlayInv, PlayTyping

LEMMA AnswerKeeps ==
  ASSUME PlayInv, NEW c \in Calls, Play!Answer(c)
  PROVE  PlayInv'
<1>1. UNCHANGED <<rooms, related, inFlight, queue, plays>>
  BY DEF Play!Answer
<1>2. \/ taps[c].at = "asking" /\ MovesOn(c, "answered")
      \/ taps[c].at = "listing" /\ MovesOn(c, "listed")
  BY AnswerMoves DEF PlayInv
<1>3. GateHolds'
  BY <1>1, <1>2, GateKept DEF PlayInv, MovesOn, Admitted, Working
<1>4. SeatsHeld'
  BY <1>1, <1>2, HeldKept, RoomsTyped, SameRooms DEF PlayInv, RoomsKept, MovesOn, Working
<1>. QED
  BY <1>1, <1>2, <1>3, <1>4, CallKeeps DEF PlayInv, PlayTyping, MovesOn, PlayLabels, Admitted, Working

LEMMA FailKeeps ==
  ASSUME PlayInv, NEW c \in Calls, Play!Fail(c)
  PROVE  PlayInv'
<1>1. CASE Play!At(c, "asking") /\ Play!Finish(c)
  BY <1>1, FinishKeeps DEF Play!Fail, Play!At
<1>2. CASE Play!At(c, "listing") /\ taps' = [taps EXCEPT ![c] = Play!NoTap] /\ UNCHANGED <<inFlight, queue>>
  <2>1. /\ Moves(c, "idle") /\ taps[c].at = "listing"
        /\ UNCHANGED <<rooms, related, inFlight, queue, plays>>
    BY <1>2, EndMoves DEF PlayInv, Play!Fail, Play!At
  <2>2. /\ "idle" \in PlayLabels \ {"queued", "opening"} /\ "idle" \notin Admitted
        /\ "idle" \notin Working
    BY DEF PlayLabels, Admitted, Working
  <2>3. GateHolds'
    BY <2>1, <2>2, GateKept DEF PlayInv
  <2>4. SeatsHeld'
    BY <2>1, <2>2, HeldKept, RoomsTyped, SameRooms DEF PlayInv, RoomsKept
  <2>. QED
    BY <2>1, <2>2, <2>3, <2>4, CallKeeps DEF PlayInv, PlayTyping
<1>. QED
  BY <1>1, <1>2 DEF Play!Fail

\* What the cache remembers is a set of users.
LEMMA RememberTyped ==
  ASSUME PlayTyping, NEW c \in Calls, Play!Remember(c) \/ UNCHANGED related
  PROVE  related' \in [Users -> (SUBSET Users) \cup {NoId}]
BY DEF PlayTyping, CallRecords, Play!Remember

LEMMA ListedKeeps ==
  ASSUME PlayInv, NEW c \in Calls, Play!Listed(c)
  PROVE  PlayInv'
<1>1. /\ Moves(c, "idle") /\ taps[c].at = "listed" /\ Play!Remember(c)
      /\ UNCHANGED <<rooms, inFlight, queue, plays>>
  BY EndMoves DEF PlayInv, Play!Listed, Play!At
<1>2. /\ "idle" \in PlayLabels \ {"queued", "opening"} /\ "idle" \notin Admitted
      /\ "idle" \notin Working
  BY DEF PlayLabels, Admitted, Working
<1>3. GateHolds'
  BY <1>1, <1>2, GateKept DEF PlayInv
<1>4. SeatsHeld'
  BY <1>1, <1>2, HeldKept, RoomsTyped, SameRooms DEF PlayInv, RoomsKept
<1>. QED
  BY <1>1, <1>2, <1>3, <1>4, CallKeeps, RememberTyped DEF PlayInv

LEMMA MatchKeeps ==
  ASSUME PlayInv, NEW c \in Calls, Play!Match(c)
  PROVE  PlayInv'
<1>1. /\ taps[c].at \in {"answered", "asked"} /\ UNCHANGED inFlight
      /\ related' \in [Users -> (SUBSET Users) \cup {NoId}]
  BY RememberTyped DEF PlayInv, Play!Match, Play!At
<1>2. taps[c].at \in Working /\ taps[c].at \in Admitted
  BY <1>1 DEF Working, Admitted
<1>3. CASE Play!Join(c) /\ UNCHANGED queue
  <2>1. /\ RoomTyping' /\ plays' \subseteq Users \X Rooms /\ MovesOn(c, "seated")
        /\ SeatsHeld' /\ Play!OneSeatByPlay' /\ RefusedByAll'
    BY <1>2, <1>3, JoinKeeps
  <2>2. GateHolds'
    BY <1>1, <1>2, <2>1, GateKept DEF PlayInv
  <2>3. Play!QueueMoves'
    BY <1>1, <1>3, <2>1, QueueOutside DEF PlayInv, MovesOn
  <2>. QED
    BY <1>1, <1>3, <2>1, <2>2, <2>3, PlayPieces DEF PlayInv, PlayTyping, MovesOn, Moves
<1>4. CASE Play!Enqueue(c) /\ UNCHANGED <<rooms, plays>>
  <2>1. MovesOn(c, "queued") /\ queue' = Append(queue, c)
    BY <1>4, EnqueueMoves DEF PlayInv
  <2>2. "queued" \in PlayLabels \ {"opening"} /\ "queued" \in Working
    BY DEF PlayLabels, Admitted, Working
  <2>3. GateHolds'
    BY <1>1, <1>2, <2>1, GateKept DEF PlayInv
  <2>4. RoomsKept
    BY <1>4, RoomsTyped, SameRooms DEF PlayInv
  <2>5. SeatsHeld'
    BY <1>2, <1>4, <2>1, <2>4, HeldKept DEF PlayInv, RoomsKept, MovesOn
  <2>6. Play!QueueMoves'
    BY <1>1, <2>1, QueueGrows DEF PlayInv, MovesOn
  <2>7. RefusedByAll'
    BY <2>1, <2>2, <2>4, RefusedKept DEF PlayInv, RoomsKept, MovesOn
  <2>. QED
    BY <1>1, <1>4, <2>1, <2>3, <2>4, <2>5, <2>6, <2>7, OneSeatStays, PlayPieces
    DEF PlayInv, PlayTyping, RoomsKept, MovesOn, Moves
<1>. QED
  BY <1>3, <1>4 DEF Play!Match

LEMMA RunKeeps ==
  ASSUME PlayInv, NEW c \in Calls, Play!Run(c)
  PROVE  PlayInv'
<1>1. taps[c].at = "queued" /\ Play!First(c) /\ UNCHANGED related
  BY DEF Play!Run, Play!At
<1>2. taps[c].at \in Working /\ taps[c].at \in Admitted
  BY <1>1 DEF Working, Admitted
<1>3. CASE Play!Finish(c) /\ UNCHANGED <<rooms, plays>>
  BY <1>1, <1>3, FinishKeeps
<1>4. CASE Play!Join(c) /\ UNCHANGED <<inFlight, queue>>
  <2>1. /\ RoomTyping' /\ plays' \subseteq Users \X Rooms /\ MovesOn(c, "seated")
        /\ SeatsHeld' /\ Play!OneSeatByPlay' /\ RefusedByAll'
    BY <1>2, <1>4, JoinKeeps
  <2>2. GateHolds'
    BY <1>2, <1>4, <2>1, GateKept DEF PlayInv
  <2>3. Play!QueueMoves'
    BY <1>1, <1>4, <2>1, QueueRuns DEF PlayInv, MovesOn
  <2>. QED
    BY <1>1, <1>4, <2>1, <2>2, <2>3, PlayPieces DEF PlayInv, PlayTyping, MovesOn, Moves
<1>5. ASSUME NEW refused \in SUBSET Rooms,
             refused = {r \in Rooms : rooms[r] # Play!NoRoom
                                      /\ ~Play!Joinable(r, taps[c].by, taps[c].known)},
             Play!Candidates(c) = {},
             taps' = [taps EXCEPT ![c].at = "opening", ![c].refused = refused],
             UNCHANGED <<rooms, plays, inFlight, queue>>
      PROVE  PlayInv'
  <2>1. MovesOn(c, "opening") /\ taps'[c].refused = refused
    BY <1>5, OpeningMoves DEF PlayInv
  <2>2. GateHolds'
    BY <1>2, <1>5, <2>1, GateKept DEF PlayInv
  <2>3. RoomsKept
    BY <1>5, RoomsTyped, SameRooms DEF PlayInv
  <2>4. SeatsHeld'
    BY <1>2, <1>5, <2>1, <2>3, HeldKept DEF PlayInv, RoomsKept, MovesOn
  <2>5. Play!QueueMoves'
    BY <1>1, <1>5, <2>1, QueueRuns DEF PlayInv, MovesOn
  <2>6. RefusedByAll'
    BY <1>5, <2>1, RefusedAtOpening DEF PlayInv, MovesOn
  <2>. QED
    BY <1>1, <1>5, <2>1, <2>2, <2>3, <2>4, <2>5, <2>6, OneSeatStays, PlayPieces
    DEF PlayInv, PlayTyping, RoomsKept, MovesOn, Moves
<1>. QED
  BY <1>3, <1>4, <1>5 DEF Play!Run

LEMMA OpenKeeps ==
  ASSUME PlayInv, NEW c \in Calls, Play!Open(c)
  PROVE  PlayInv'
<1>1. taps[c].at = "opening" /\ UNCHANGED related
  BY DEF Play!Open, Play!At
<1>2. taps[c].at \in Working /\ taps[c].at \in Admitted /\ taps[c].by \in Users /\ Play!First(c)
  BY <1>1, InQueue DEF Working, Admitted, PlayInv, GateHolds
<1>3. CASE Play!Finish(c) /\ UNCHANGED <<rooms, plays>>
  BY <1>1, <1>3, FinishKeeps
<1>4. ASSUME NEW r \in Rooms, Play!Register(taps[c].by, r, "open", TRUE),
             plays' = plays \cup {<<taps[c].by, r>>}, Play!Rest(c), UNCHANGED <<inFlight, queue>>
      PROVE  PlayInv'
  <2>1. MovesOn(c, "seated")
    BY <1>4, RestMoves DEF PlayInv
  <2>2. RoomTyping' /\ PlaysStayHeld
    BY <1>2, <1>4, RegisterKeepsRooms, RoomsTyped DEF PlayInv
  <2>3. SeatsHeld' /\ Play!OneSeatByPlay'
    BY <1>2, <1>4, <2>1, <2>2, HeldBySeat DEF PlayInv
  <2>4. GateHolds'
    BY <1>2, <1>4, <2>1, GateKept DEF PlayInv
  <2>5. Play!QueueMoves'
    BY <1>2, <1>4, <2>1, QueueRuns DEF PlayInv, MovesOn
  <2>6. RefusedByAll'
    BY <1>1, <2>1, RefusedAfterOpening DEF PlayInv, MovesOn
  <2>. QED
    BY <1>1, <1>2, <1>4, <2>1, <2>2, <2>3, <2>4, <2>5, <2>6, PlayPieces
    DEF PlayInv, PlayTyping, MovesOn, Moves
<1>. QED
  BY <1>3, <1>4 DEF Play!Open

LEMMA BlocksKeep ==
  ASSUME PlayInv, NEW u \in Users, NEW v \in Users,
         Play!WriteBlock(u, v) \/ Play!LiftBlock(u, v) \/ Play!ForgetRelated(u, v) \/ Play!Expire(u)
  PROVE  PlayInv'
<1>1. /\ UNCHANGED <<rooms, taps, inFlight, queue, plays>>
      /\ related' \in [Users -> (SUBSET Users) \cup {NoId}]
  BY DEF Play!WriteBlock, Play!LiftBlock, Play!ForgetRelated, Play!Expire, PlayInv, PlayTyping,
         Play!blockVars
<1>2. RoomsKept
  BY <1>1, RoomsTyped, SameRooms DEF PlayInv
<1>3. SeatsHeld' /\ RefusedByAll'
  BY <1>1, <1>2, HeldStays, RefusedKept DEF PlayInv, RoomsKept
<1>. QED
  BY <1>1, <1>2, <1>3, GateStays, OneSeatStays, QueueStays, PlayPieces DEF PlayInv, PlayTyping, RoomsKept

LEMMA OpenByHandKeeps ==
  ASSUME PlayInv, NEW u \in Users, Play!OpenByHand(u)
  PROVE  PlayInv'
<1>1. PICK r \in Rooms, door \in {"open", "private"} : Play!Register(u, r, door, FALSE)
  BY DEF Play!OpenByHand
<1>2. UNCHANGED <<related, taps, inFlight, queue, plays>>
  BY DEF Play!OpenByHand, Play!elseVars
<1>3. RoomsKept
  BY <1>1, <1>2, RegisterKeepsRooms, RoomsTyped DEF PlayInv, RoomsKept
<1>. QED
  BY <1>2, <1>3, RoomsMove

LEMMA OthersKeep ==
  ASSUME PlayInv, NEW r \in Rooms,
         \/ \E u \in Users : Play!EnterByCode(u, r) \/ Play!Leave(u, r)
         \/ Play!Close(r) \/ Play!StartOrStop(r) \/ Play!Lock(r)
  PROVE  PlayInv'
<1>1. UNCHANGED <<related, taps, inFlight, queue>> /\ plays' \subseteq plays
  BY DEF Play!EnterByCode, Play!Leave, Play!Close, Play!StartOrStop, Play!Lock, Play!elseVars
<1>2. RoomsKept
  <2>. USE RoomsTyped DEF PlayInv
  <2>1. ASSUME NEW u \in Users, Play!EnterByCode(u, r) PROVE RoomsKept
    BY <2>1, SeatKeepsRooms DEF Play!EnterByCode
  <2>2. ASSUME NEW u \in Users, Play!Leave(u, r) PROVE RoomsKept
    BY <2>2, LeaveKeepsRooms
  <2>3. CASE Play!Close(r)
    BY <2>3, CloseKeepsRooms
  <2>4. CASE Play!StartOrStop(r) \/ Play!Lock(r)
    BY <2>4, DoorKeepsRooms
  <2>. QED
    BY <2>1, <2>2, <2>3, <2>4
<1>. QED
  BY <1>1, <1>2, RoomsMove

LEMMA PlayInvStep == PlayInv /\ Play!Next => PlayInv'
<1>. SUFFICES ASSUME PlayInv, Play!Next PROVE PlayInv'
  OBVIOUS
<1>1. ASSUME NEW c \in Calls, Play!Settle(c) PROVE PlayInv'
  BY <1>1, FinishKeeps DEF Play!Settle, Play!At
<1>2. CASE Play!Matchmaking
  BY <1>1, <1>2, TapKeeps, AnswerKeeps, FailKeeps, ListedKeeps, MatchKeeps, RunKeeps, OpenKeeps
  DEF Play!Matchmaking
<1>3. CASE Play!Blocking
  BY <1>3, BlocksKeep, BrowseKeeps DEF Play!Blocking
<1>4. CASE Play!Doors
  BY <1>4, OpenByHandKeeps, OthersKeep DEF Play!Doors
<1>5. CASE Play!Moves
  BY <1>5, OthersKeep DEF Play!Moves
<1>. QED
  BY <1>2, <1>3, <1>4, <1>5 DEF Play!Next

LEMMA PlayInvInit == GatheringInit => PlayInv
<1>. SUFFICES ASSUME Play!Init PROVE PlayInv
  BY DEF GatheringInit
<1>1. Play!NoRoom \in RoomRecords /\ Play!NoTap \in CallRecords
  BY DEF Play!NoRoom, Play!NoTap, Play!Call, RoomRecords, CallRecords, PlayLabels, Admitted, Working
<1>2. PlayTyping
  BY <1>1 DEF Play!Init, PlayTyping, RoomRecords
<1>3. \A c \in Calls : taps[c].at = "idle"
  BY DEF Play!Init, Play!NoTap, Play!Call
<1>. QED
  BY <1>2, <1>3 DEF Play!Init, PlayInv, GateHolds, SeatsHeld, Play!OneSeatByPlay, Play!QueueMoves,
     RefusedByAll, Admitted, Working

LEMMA PlayInvAlways == GatheringSpec => []PlayInv
<1>1. PlayInv /\ UNCHANGED playVars => PlayInv'
  <2>. SUFFICES ASSUME PlayInv, UNCHANGED <<rooms, related, taps, inFlight, queue, plays>>
                PROVE  PlayInv'
    BY DEF playVars
  <2>1. RoomsKept
    BY RoomsTyped, SameRooms DEF PlayInv
  <2>. QED
    BY <2>1, RoomsMove
<1>2. PlayInv /\ [GatheringNext]_allVars => PlayInv'
  BY <1>1, PlayInvStep DEF GatheringNext, Befriend, PlayQuickly, SitAtTables, allVars
<1>. QED
  BY PlayInvInit, <1>2, PTL DEF GatheringSpec

-----------------------------------------------------------------------------

\* Two taps of one player, whatever the player does besides, never get them two
\* rooms: the gate lets one call of theirs pass and the history holds nothing
\* of a player whose call has no seat yet (quickPlay and its `inFlight`).
THEOREM OneSeatOnly == GatheringSpec => []OneSeatByPlay
BY PlayInvAlways, PTL DEF PlayInv, OneSeatByPlay

\* The queue of Quick Play never stops on a call that has answered, and no call
\* waits that nobody will reach (serialised), whatever fails.
THEOREM QueueKeepsMoving == GatheringSpec => []QueueMoves
BY PlayInvAlways, PTL DEF PlayInv, QueueMoves

\* Quick Play opens no room while one it opened before takes the player: every
\* such room refused them when their turn came (matchOrCreate).
THEOREM NoRoomIsNeedless == GatheringSpec => NoNeedlessRoom
<1>. DEFINE Needful == \A c \in Calls : Play!At(c, "opening") /\ taps'[c].at = "seated" =>
                         \A r \in Rooms : rooms[r].quick /\ Play!Joinable(r, taps[c].by, taps[c].known)
                           => r \in taps[c].refused
<1>1. PlayInv => Needful
  BY DEF PlayInv, RefusedByAll, Play!At
<1>. QED
  BY PlayInvAlways, <1>1, PTL DEF NoNeedlessRoom, Play!NoNeedlessRoom

-----------------------------------------------------------------------------
(* The rewards of the platform's matches *)

RewardRows == [match : 1..MaxMatches, user : Users]
Pays(p, k) == call[p].at = "awarding" /\ call[p].match = k.match /\ k.user \in call[p].who

Fields == {"at", "stale", "seats", "ready", "accepted", "who", "seat", "match", "yes"}
IsCall(c) == DOMAIN c = Fields
CallsAre == call = [p \in Tables!Procs |-> call[p]] /\ \A p \in Tables!Procs : IsCall(call[p])

\* Who has a reward row has been paid, or one call is about to pay them: the
\* call that has inserted the row.
PayInv ==
  /\ CallsAre
  /\ awards \in [RewardRows -> Nat]
  /\ \A j \in rewardKeys : j = [match |-> j.match, user |-> j.user]
  /\ \A k \in RewardRows :
       \/ k \notin rewardKeys /\ awards[k] = 0 /\ \A p \in Tables!Procs : ~Pays(p, k)
       \/ k \in rewardKeys /\ awards[k] = 1 /\ \A p \in Tables!Procs : ~Pays(p, k)
       \/ /\ k \in rewardKeys /\ awards[k] = 0
          /\ \E p \in Tables!Procs : Pays(p, k) /\ \A q \in Tables!Procs : Pays(q, k) => q = p

\* What a call is built from.
LEMMA CallFields ==
  /\ IsCall(Tables!Idle) /\ Tables!Idle.at = "idle"
  /\ \A step : /\ IsCall(Tables!At(step)) /\ Tables!At(step).at = step
               /\ IsCall(Tables!WithSeats(step)) /\ Tables!WithSeats(step).at = step
               /\ IsCall(Tables!Loaded(step)) /\ Tables!Loaded(step).at = step
BY DEF Fields, IsCall, Tables!Idle, Tables!At, Tables!WithSeats, Tables!Loaded

\* A call moves: it is p's, and nobody else's.
LEMMA GoesMoves ==
  ASSUME CallsAre, NEW p \in Tables!Procs, NEW c, IsCall(c),
         Tables!Goes(p, c) \/ Tables!Bumps(p, c)
  PROVE  /\ CallsAre' /\ call'[p] = c
         /\ \A q \in Tables!Procs \ {p} :
              \/ call'[q] = call[q]
              \/ \E stale : call'[q] = [call[q] EXCEPT !.stale = stale]
<1>1. CASE Tables!Goes(p, c)
  BY <1>1 DEF Tables!Goes, CallsAre
<1>2. CASE Tables!Bumps(p, c)
  <2>1. call' = [q \in Tables!Procs |->
                   IF q = p THEN c
                   ELSE [call[q] EXCEPT !.stale = call[q].at \in Tables!Checked]]
    BY <1>2 DEF Tables!Bumps
  <2>2. \A q \in Tables!Procs : IsCall(call'[q])
    BY <2>1 DEF CallsAre, IsCall
  <2>. QED
    BY <2>1, <2>2 DEF CallsAre
<1>. QED
  BY <1>1, <1>2

LEMMA PayStays ==
  ASSUME PayInv, UNCHANGED <<rewardKeys, awards>>, CallsAre',
         \A p \in Tables!Procs :
           /\ call'[p].at = "awarding" <=> call[p].at = "awarding"
           /\ call[p].at = "awarding" =>
                call'[p].match = call[p].match /\ call'[p].who = call[p].who
  PROVE  PayInv'
<1>1. \A p \in Tables!Procs, k \in RewardRows : Pays(p, k)' <=> Pays(p, k)
  BY DEF Pays
<1>. QED
  BY <1>1 DEF PayInv

\* A call that goes on, and neither begins nor ends to pay.
LEMMA GoesOn ==
  ASSUME PayInv, UNCHANGED Tables!payVars, NEW p \in Tables!Procs, NEW c, IsCall(c),
         call[p].at # "awarding", c.at # "awarding", Tables!Goes(p, c) \/ Tables!Bumps(p, c)
  PROVE  PayInv'
<1>1. CallsAre' /\ call'[p] = c
  BY GoesMoves DEF PayInv
<1>2. ASSUME NEW q \in Tables!Procs, q # p
      PROVE  /\ call'[q].at = call[q].at
             /\ call'[q].match = call[q].match /\ call'[q].who = call[q].who
  <2>1. CASE call'[q] = call[q]
    BY <2>1
  <2>2. ASSUME NEW stale, call'[q] = [call[q] EXCEPT !.stale = stale]
        PROVE  /\ call'[q].at = call[q].at
               /\ call'[q].match = call[q].match /\ call'[q].who = call[q].who
    BY <2>2 DEF PayInv, CallsAre, IsCall, Fields
  <2>. QED
    BY <1>2, <2>1, <2>2, GoesMoves DEF PayInv
<1>. QED
  BY <1>1, <1>2, PayStays DEF Tables!payVars

LEMMA CallerPays ==
  ASSUME PayInv, NEW u \in Users, Tables!NewCall(u) \/ Tables!ContinueUser(u)
  PROVE  PayInv'
<1>1. u \in Tables!Procs
  BY DEF Tables!Procs
<1>2. CASE Tables!NewCall(u)
  <2>1. CASE Tables!Join(u)
    BY <1>1, <2>1, CallFields, GoesOn DEF Tables!Join, Tables!Begins
  <2>2. CASE Tables!Leave(u)
    BY <1>1, <2>2, CallFields, GoesOn DEF Tables!Leave, Tables!Begins
  <2>3. CASE Tables!Ready(u)
    <3>1. PICK b : b = Tables!Loaded("readying") /\ IsCall(b) /\ b.at = "readying"
      BY CallFields
    <3>2. PICK yes, c :
            /\ Tables!Goes(u, c)
            /\ c = [Tables!Loaded("readying") EXCEPT
                      !.ready = IF yes THEN @ \union {u} ELSE @ \ {u},
                      !.yes = yes,
                      !.who = {u} \ {v \in {u} : yes = (v \in room.ready)}]
      BY <2>3 DEF Tables!Ready
    <3>3. PICK x, z : c = [b EXCEPT !.ready = x, !.yes = yes, !.who = z]
      BY <3>1, <3>2
    <3>4. IsCall(c) /\ c.at = b.at
      BY <3>1, <3>3 DEF IsCall, Fields
    <3>. QED
      BY <1>1, <2>3, <3>1, <3>2, <3>4, GoesOn DEF Tables!Ready, Tables!Begins
  <2>4. CASE Tables!AddStupids(u)
    BY <1>1, <2>4, CallFields, GoesOn DEF Tables!AddStupids, Tables!Begins
  <2>5. CASE Tables!ClearStupids(u)
    BY <1>1, <2>5, CallFields, GoesOn DEF Tables!ClearStupids, Tables!Begins
  <2>6. CASE Tables!Act(u)
    <3>1. PICK b, d : /\ b = Tables!WithSeats("moving") /\ IsCall(b) /\ b.at = "moving"
                      /\ d = Tables!At("talking") /\ IsCall(d) /\ d.at = "talking"
      BY CallFields
    <3>2. PICK m, c :
            /\ Tables!Goes(u, c)
            /\ \/ c = [Tables!WithSeats("moving") EXCEPT !.match = m]
               \/ c = [Tables!At("talking") EXCEPT !.match = m, !.seat = matches[m].turn]
      BY <2>6 DEF Tables!Act
    <3>3. IsCall(c) /\ c.at \in {"moving", "talking"}
      <4>1. CASE c = [Tables!WithSeats("moving") EXCEPT !.match = m]
        <5>1. c = [b EXCEPT !.match = m]
          BY <3>1, <4>1
        <5>. QED
          BY <3>1, <5>1 DEF IsCall, Fields
      <4>2. CASE c = [Tables!At("talking") EXCEPT !.match = m, !.seat = matches[m].turn]
        <5>1. PICK x : c = [d EXCEPT !.match = m, !.seat = x]
          BY <3>1, <4>2
        <5>. QED
          BY <3>1, <5>1 DEF IsCall, Fields
      <4>. QED
        BY <3>2, <4>1, <4>2
    <3>. QED
      BY <1>1, <2>6, <3>2, <3>3, GoesOn DEF Tables!Act, Tables!Begins
  <2>7. CASE Tables!Request(u)
    <3>1. PICK b : b = Tables!At("responding") /\ IsCall(b) /\ b.at = "responding"
      BY CallFields
    <3>2. PICK c : /\ Tables!Goes(u, c)
                   /\ c = [b EXCEPT !.yes = TRUE] \/ c = Tables!WithSeats("asking")
      BY <2>7, <3>1 DEF Tables!Request
    <3>3. IsCall(c) /\ c.at # "awarding"
      <4>1. CASE c = [b EXCEPT !.yes = TRUE]
        BY <3>1, <4>1 DEF IsCall, Fields
      <4>2. CASE c = Tables!WithSeats("asking")
        BY <4>2, CallFields
      <4>. QED
        BY <3>2, <4>1, <4>2
    <3>. QED
      BY <1>1, <2>7, <3>2, <3>3, GoesOn DEF Tables!Request, Tables!Begins
  <2>8. CASE Tables!Respond(u)
    <3>1. PICK b : b = Tables!At("responding") /\ IsCall(b) /\ b.at = "responding"
      BY CallFields
    <3>2. PICK c, x : Tables!Goes(u, c) /\ c = [b EXCEPT !.yes = x]
      BY <2>8, <3>1 DEF Tables!Respond
    <3>3. IsCall(c) /\ c.at = b.at
      BY <3>1, <3>2 DEF IsCall, Fields
    <3>. QED
      BY <1>1, <2>8, <3>1, <3>2, <3>3, GoesOn DEF Tables!Respond, Tables!Begins
  <2>. QED
    BY <1>2, <2>1, <2>2, <2>3, <2>4, <2>5, <2>6, <2>7, <2>8 DEF Tables!NewCall
<1>3. CASE Tables!ContinueUser(u)
  <2>1. CASE Tables!JoinSave(u)
    BY <1>1, <2>1, CallFields, GoesOn DEF Tables!JoinSave
  <2>2. CASE Tables!LeaveSave(u)
    BY <1>1, <2>2, CallFields, GoesOn DEF Tables!LeaveSave, Tables!Refused, Tables!Ends
  <2>3. CASE Tables!ReadySave(u)
    <3>1. PICK b : b = Tables!At("starting") /\ IsCall(b) /\ b.at = "starting"
      BY CallFields
    <3>2. PICK c :
            /\ Tables!Goes(u, c)
            /\ \/ c = Tables!Idle
               \/ c = [Tables!At("starting") EXCEPT !.seats = call[u].seats,
                                                   !.ready = call[u].ready]
      BY <2>3 DEF Tables!ReadySave, Tables!Refused, Tables!Ends
    <3>3. IsCall(c) /\ c.at # "awarding"
      <4>1. CASE c = [Tables!At("starting") EXCEPT !.seats = call[u].seats,
                                                   !.ready = call[u].ready]
        <5>1. PICK x, y : c = [b EXCEPT !.seats = x, !.ready = y]
          BY <3>1, <4>1
        <5>. QED
          BY <3>1, <5>1 DEF IsCall, Fields
      <4>. QED
        BY <3>2, <4>1, CallFields
    <3>. QED
      BY <1>1, <2>3, <3>2, <3>3, GoesOn DEF Tables!ReadySave, Tables!Refused
  <2>4. CASE Tables!SeatSave(u)
    BY <1>1, <2>4, CallFields, GoesOn DEF Tables!SeatSave, Tables!Ends
  <2>5. CASE Tables!ClearSave(u)
    BY <1>1, <2>5, CallFields, GoesOn DEF Tables!ClearSave, Tables!Refused, Tables!Ends
  <2>6. CASE Tables!Talk(u)
    BY <1>1, <2>6, CallFields, GoesOn DEF Tables!Talk, Tables!Ends
  <2>7. CASE Tables!RequestSave(u)
    BY <1>1, <2>7, CallFields, GoesOn DEF Tables!RequestSave, Tables!Ends
  <2>8. CASE Tables!RespondLoad(u)
    <3>1. PICK b : b = Tables!WithSeats("answering") /\ IsCall(b) /\ b.at = "answering"
      BY CallFields
    <3>2. PICK c :
            /\ Tables!Goes(u, c)
            /\ \/ c = Tables!Idle
               \/ c = [Tables!WithSeats("answering") EXCEPT
                         !.yes = call[u].yes,
                         !.accepted = offer.accepted,
                         !.who = offer.accepted \union offer.declined]
      BY <2>8 DEF Tables!RespondLoad, Tables!Ends
    <3>3. IsCall(c) /\ c.at # "awarding"
      <4>1. CASE c = [Tables!WithSeats("answering") EXCEPT
                        !.yes = call[u].yes,
                        !.accepted = offer.accepted,
                        !.who = offer.accepted \union offer.declined]
        <5>1. PICK x, y, z : c = [b EXCEPT !.yes = x, !.accepted = y, !.who = z]
          BY <3>1, <4>1
        <5>. QED
          BY <3>1, <5>1 DEF IsCall, Fields
      <4>. QED
        BY <3>2, <4>1, CallFields
    <3>. QED
      BY <1>1, <2>8, <3>2, <3>3, GoesOn DEF Tables!RespondLoad
  <2>9. CASE Tables!AnswerSave(u)
    BY <1>1, <2>9, CallFields, GoesOn DEF Tables!AnswerSave, Tables!Refused, Tables!Ends
  <2>10. CASE Tables!Bow(u)
    BY <1>1, <2>10, CallFields, GoesOn DEF Tables!Bow, Tables!Ends
  <2>. QED
    BY <1>3, <2>1, <2>2, <2>3, <2>4, <2>5, <2>6, <2>7, <2>8, <2>9, <2>10 DEF Tables!ContinueUser
<1>. QED
  BY <1>2, <1>3

\* A call inserts the reward rows nobody has, and pays those only.
LEMMA RecordPays ==
  ASSUME PayInv, NEW p \in Tables!Procs, Tables!Record(p)
  PROVE  PayInv'
<1>1. PICK owed :
        owed = Tables!HumansOf(call[p].seats)
               \ {k.user : k \in {j \in rewardKeys : j.match = call[p].match}}
  OBVIOUS
<1>2. PICK c : c = [call[p] EXCEPT !.at = "awarding", !.who = owed]
  OBVIOUS
<1>3. IsCall(c) /\ c.at = "awarding" /\ c.who = owed /\ c.match = call[p].match
  BY <1>2 DEF PayInv, CallsAre, IsCall, Fields
<1>4. /\ call[p].at = "recording" /\ Tables!Goes(p, c)
      /\ rewardKeys' = rewardKeys \union Tables!Earners(call[p]) /\ awards' = awards
  BY <1>1, <1>2 DEF Tables!Record
<1>5. CallsAre' /\ call'[p] = c /\ \A q \in Tables!Procs \ {p} : call'[q] = call[q]
  BY <1>3, <1>4 DEF PayInv, Tables!Goes, CallsAre
<1>6. \A j \in rewardKeys' : j = [match |-> j.match, user |-> j.user]
  BY <1>4 DEF PayInv, Tables!Earners
<1>7. ASSUME NEW k \in RewardRows
      PROVE  /\ k \in Tables!Earners(call[p]) <=>
                  k.match = call[p].match /\ k.user \in Tables!HumansOf(call[p].seats)
             /\ Pays(p, k)' <=> k \in Tables!Earners(call[p]) /\ k \notin rewardKeys
             /\ ~Pays(p, k)
             /\ \A q \in Tables!Procs \ {p} : Pays(q, k)' <=> Pays(q, k)
  <2>1. k = [match |-> k.match, user |-> k.user]
    BY DEF RewardRows
  <2>2. k \in Tables!Earners(call[p]) <=>
          k.match = call[p].match /\ k.user \in Tables!HumansOf(call[p].seats)
    BY <2>1 DEF Tables!Earners
  <2>3. k.match = call[p].match =>
          (k \in rewardKeys <=> \E j \in rewardKeys : j.match = call[p].match /\ j.user = k.user)
    BY <2>1 DEF PayInv
  <2>4. Pays(p, k)' <=> k.match = call[p].match /\ k.user \in owed
    BY <1>3, <1>5 DEF Pays
  <2>5. k.user \in owed <=>
          /\ k.user \in Tables!HumansOf(call[p].seats)
          /\ ~\E j \in rewardKeys : j.match = call[p].match /\ j.user = k.user
    BY <1>1
  <2>. QED
    BY <2>2, <2>3, <2>4, <2>5, <1>4, <1>5 DEF Pays
<1>8. ASSUME NEW k \in RewardRows
      PROVE  \/ k \notin rewardKeys' /\ awards'[k] = 0 /\ \A q \in Tables!Procs : ~Pays(q, k)'
             \/ k \in rewardKeys' /\ awards'[k] = 1 /\ \A q \in Tables!Procs : ~Pays(q, k)'
             \/ /\ k \in rewardKeys' /\ awards'[k] = 0
                /\ \E r \in Tables!Procs :
                     Pays(r, k)' /\ \A q \in Tables!Procs : Pays(q, k)' => q = r
  BY <1>4, <1>7 DEF PayInv
<1>. QED
  BY <1>4, <1>5, <1>6, <1>8 DEF PayInv

\* The call that inserted a row pays it, once.
LEMMA AwardPays ==
  ASSUME PayInv, NEW p \in Tables!Procs, Tables!Award(p)
  PROVE  PayInv'
<1>1. /\ call[p].at = "awarding" /\ Tables!Goes(p, Tables!Idle) /\ rewardKeys' = rewardKeys
      /\ awards' = [k \in DOMAIN awards |->
                      IF k.match = call[p].match /\ k.user \in call[p].who
                      THEN awards[k] + 1 ELSE awards[k]]
  BY DEF Tables!Award, Tables!Ends
<1>2. CallsAre' /\ call'[p].at = "idle" /\ \A q \in Tables!Procs \ {p} : call'[q] = call[q]
  BY <1>1, CallFields DEF PayInv, Tables!Goes, CallsAre
<1>3. ASSUME NEW k \in RewardRows
      PROVE  /\ awards'[k] = IF Pays(p, k) THEN awards[k] + 1 ELSE awards[k]
             /\ ~Pays(p, k)'
             /\ \A q \in Tables!Procs \ {p} : Pays(q, k)' <=> Pays(q, k)
  BY <1>1, <1>2 DEF Pays, PayInv
<1>4. awards' \in [RewardRows -> Nat]
  BY <1>1 DEF PayInv
<1>5. ASSUME NEW k \in RewardRows
      PROVE  \/ k \notin rewardKeys' /\ awards'[k] = 0 /\ \A q \in Tables!Procs : ~Pays(q, k)'
             \/ k \in rewardKeys' /\ awards'[k] = 1 /\ \A q \in Tables!Procs : ~Pays(q, k)'
             \/ /\ k \in rewardKeys' /\ awards'[k] = 0
                /\ \E r \in Tables!Procs :
                     Pays(r, k)' /\ \A q \in Tables!Procs : Pays(q, k)' => q = r
  <2>1. CASE Pays(p, k)
    <3>1. k \in rewardKeys /\ awards[k] = 0 /\ \A q \in Tables!Procs : Pays(q, k) => q = p
      BY <2>1 DEF PayInv
    <3>. QED
      BY <1>1, <1>3, <2>1, <3>1
  <2>2. CASE ~Pays(p, k)
    BY <1>1, <1>3, <2>2 DEF PayInv
  <2>. QED
    BY <2>1, <2>2
<1>6. \A j \in rewardKeys' : j = [match |-> j.match, user |-> j.user]
  BY <1>1 DEF PayInv
<1>. QED
  BY <1>2, <1>4, <1>5, <1>6 DEF PayInv

\* The steps of a match that is played.
LEMMA MatchPays ==
  ASSUME PayInv, NEW p \in Tables!Procs,
         \/ Tables!Create(p) \/ Tables!Install(p) \/ Tables!MoveOn(p) \/ Tables!Finish(p)
         \/ Tables!ReportSave(p) \/ Tables!Complete(p) \/ Tables!Report(p)
  PROVE  PayInv'
<1>1. CASE Tables!Create(p)
  <2>1. PICK b : b = Tables!At("installing") /\ IsCall(b) /\ b.at = "installing"
    BY CallFields
  <2>2. PICK c, x : Tables!Goes(p, c) /\ c = [b EXCEPT !.match = x]
    BY <1>1, <2>1 DEF Tables!Create
  <2>3. IsCall(c) /\ c.at = b.at
    BY <2>2, <2>1 DEF IsCall, Fields
  <2>. QED
    BY <1>1, <2>1, <2>2, <2>3, GoesOn DEF Tables!Create
<1>2. CASE Tables!Install(p)
  BY <1>2, CallFields, GoesOn DEF Tables!Install, Tables!Ends
<1>3. CASE Tables!MoveOn(p)
  BY <1>3, CallFields, GoesOn DEF Tables!MoveOn, Tables!Ends
<1>4. CASE Tables!Finish(p) \/ Tables!ReportSave(p) \/ Tables!Complete(p)
  <2>1. PICK step, c :
          /\ step \in {"completing", "recording"}
          /\ Tables!Goes(p, c) /\ c = [call[p] EXCEPT !.at = step]
    BY <1>4 DEF Tables!Finish, Tables!ReportSave, Tables!Complete
  <2>2. IsCall(c) /\ c.at = step
    BY <2>1 DEF PayInv, CallsAre, IsCall, Fields
  <2>3. call[p].at # "awarding" /\ UNCHANGED Tables!payVars
    BY <1>4 DEF Tables!Finish, Tables!ReportSave, Tables!Complete
  <2>. QED
    BY <2>1, <2>2, <2>3, GoesOn
<1>5. CASE Tables!Report(p)
  <2>1. PICK b : b = Tables!WithSeats("reporting") /\ IsCall(b) /\ b.at = "reporting"
    BY CallFields
  <2>2. PICK c, x : Tables!Goes(p, c) /\ c = [b EXCEPT !.match = x]
    BY <1>5, <2>1 DEF Tables!Report
  <2>3. IsCall(c) /\ c.at = b.at
    BY <2>2, <2>1 DEF IsCall, Fields
  <2>. QED
    BY <1>5, <2>1, <2>2, <2>3, GoesOn DEF Tables!Report, Tables!Begins
<1>. QED
  BY <1>1, <1>2, <1>3, <1>4, <1>5

\* The steps of a rematch that is settled.
LEMMA SettlingPays ==
  ASSUME PayInv, NEW p \in Tables!Procs,
         \/ Tables!SettleLoad(p) \/ Tables!Regroup(p) \/ Tables!TopUp(p)
         \/ Tables!TopUpSave(p) \/ Tables!Freshen(p) \/ Tables!FailRematch(p)
  PROVE  PayInv'
<1>1. CASE Tables!SettleLoad(p)
  <2>1. PICK b : b = Tables!Loaded("regrouping") /\ IsCall(b) /\ b.at = "regrouping"
    BY CallFields
  <2>2. PICK c :
          /\ Tables!Goes(p, c)
          /\ \/ c = Tables!Idle
             \/ c = [Tables!Loaded("regrouping") EXCEPT
                        !.seats = Tables!Kept(room.players),
                        !.seat = room.owner,
                        !.accepted = offer.accepted,
                        !.match = offer.number,
                        !.who = Tables!Players \ Tables!SeatSet(Tables!Kept(room.players))]
    BY <1>1 DEF Tables!SettleLoad, Tables!Ends
  <2>3. IsCall(c) /\ c.at # "awarding"
    <3>1. CASE c = [Tables!Loaded("regrouping") EXCEPT
                      !.seats = Tables!Kept(room.players),
                      !.seat = room.owner,
                      !.accepted = offer.accepted,
                      !.match = offer.number,
                      !.who = Tables!Players \ Tables!SeatSet(Tables!Kept(room.players))]
      <4>1. PICK x, y, z, v, w :
              c = [b EXCEPT !.seats = x, !.seat = y, !.accepted = z, !.match = v, !.who = w]
        BY <2>1, <3>1
      <4>. QED
        BY <2>1, <4>1 DEF IsCall, Fields
    <3>. QED
      BY <2>2, <3>1, CallFields
  <2>. QED
    BY <1>1, <2>2, <2>3, GoesOn DEF Tables!SettleLoad
<1>2. CASE Tables!Regroup(p)
  <2>1. PICK d :
          d = IF Len(call[p].seats) < MinPlayers
              THEN [Tables!At("topping") EXCEPT !.seats = call[p].seats, !.seat = call[p].seat,
                                                !.accepted = call[p].accepted]
              ELSE [Tables!At("freshening") EXCEPT !.accepted = call[p].accepted]
    OBVIOUS
  <2>2. PICK c : (c = Tables!Idle \/ c = d) /\ (Tables!Goes(p, c) \/ Tables!Bumps(p, c))
    BY <1>2, <2>1 DEF Tables!Regroup, Tables!Refused, Tables!Ends
  <2>3. PICK a, b : /\ a = Tables!At("topping") /\ IsCall(a) /\ a.at = "topping"
                    /\ b = Tables!At("freshening") /\ IsCall(b) /\ b.at = "freshening"
    BY CallFields
  <2>4. IsCall(d) /\ d.at # "awarding"
    <3>1. CASE Len(call[p].seats) < MinPlayers
      <4>1. PICK x, y, z : d = [a EXCEPT !.seats = x, !.seat = y, !.accepted = z]
        BY <2>1, <2>3, <3>1
      <4>. QED
        BY <2>3, <4>1 DEF IsCall, Fields
    <3>2. CASE ~(Len(call[p].seats) < MinPlayers)
      <4>1. PICK x : d = [b EXCEPT !.accepted = x]
        BY <2>1, <2>3, <3>2
      <4>. QED
        BY <2>3, <4>1 DEF IsCall, Fields
    <3>. QED
      BY <3>1, <3>2
  <2>5. IsCall(c) /\ c.at # "awarding"
    BY <2>2, <2>4, CallFields
  <2>6. call[p].at # "awarding" /\ UNCHANGED Tables!payVars
    BY <1>2 DEF Tables!Regroup, Tables!Refused
  <2>. QED
    BY <2>2, <2>5, <2>6, GoesOn
<1>3. CASE Tables!TopUp(p)
  <2>1. PICK a, b : /\ a = Tables!WithSeats("filling") /\ IsCall(a) /\ a.at = "filling"
                    /\ b = Tables!At("freshening") /\ IsCall(b) /\ b.at = "freshening"
    BY CallFields
  <2>2. PICK c :
          /\ Tables!Goes(p, c)
          /\ \/ c = [Tables!WithSeats("filling") EXCEPT
                       !.accepted = call[p].accepted,
                       !.match = MinPlayers - Len(call[p].seats)]
             \/ c = [Tables!At("freshening") EXCEPT !.accepted = call[p].accepted]
    BY <1>3 DEF Tables!TopUp
  <2>3. IsCall(c) /\ c.at # "awarding"
    <3>1. CASE c = [Tables!WithSeats("filling") EXCEPT
                      !.accepted = call[p].accepted,
                      !.match = MinPlayers - Len(call[p].seats)]
      <4>1. PICK x, y : c = [a EXCEPT !.accepted = x, !.match = y]
        BY <2>1, <3>1
      <4>. QED
        BY <2>1, <4>1 DEF IsCall, Fields
    <3>2. CASE c = [Tables!At("freshening") EXCEPT !.accepted = call[p].accepted]
      <4>1. PICK x : c = [b EXCEPT !.accepted = x]
        BY <2>1, <3>2
      <4>. QED
        BY <2>1, <4>1 DEF IsCall, Fields
    <3>. QED
      BY <2>2, <3>1, <3>2
  <2>. QED
    BY <1>3, <2>2, <2>3, GoesOn DEF Tables!TopUp
<1>4. CASE Tables!TopUpSave(p)
  <2>1. PICK c : /\ c = [Tables!At("freshening") EXCEPT !.accepted = call[p].accepted]
                 /\ Tables!Goes(p, c) \/ Tables!Bumps(p, c)
    BY <1>4 DEF Tables!TopUpSave
  <2>2. PICK b : b = Tables!At("freshening") /\ IsCall(b) /\ b.at = "freshening"
    BY CallFields
  <2>3. PICK x : c = [b EXCEPT !.accepted = x]
    BY <2>1, <2>2
  <2>4. IsCall(c) /\ c.at = b.at
    BY <2>2, <2>3 DEF IsCall, Fields
  <2>. QED
    BY <1>4, <2>1, <2>2, <2>4, GoesOn DEF Tables!TopUpSave
<1>5. CASE Tables!Freshen(p)
  <2>1. PICK b : b = Tables!At("failing") /\ IsCall(b) /\ b.at = "failing"
    BY CallFields
  <2>2. PICK c :
          /\ Tables!Goes(p, c)
          /\ \/ c = Tables!Loaded("starting")
             \/ c = [Tables!At("failing") EXCEPT !.accepted = call[p].accepted]
    BY <1>5 DEF Tables!Freshen
  <2>3. IsCall(c) /\ c.at # "awarding"
    <3>1. CASE c = [Tables!At("failing") EXCEPT !.accepted = call[p].accepted]
      <4>1. PICK x : c = [b EXCEPT !.accepted = x]
        BY <2>1, <3>1
      <4>. QED
        BY <2>1, <4>1 DEF IsCall, Fields
    <3>. QED
      BY <2>2, <3>1, CallFields
  <2>. QED
    BY <1>5, <2>2, <2>3, GoesOn DEF Tables!Freshen
<1>6. CASE Tables!FailRematch(p)
  BY <1>6, CallFields, GoesOn DEF Tables!FailRematch, Tables!Ends
<1>. QED
  BY <1>1, <1>2, <1>3, <1>4, <1>5, <1>6

\* The driver of the Stupids and the clock of the offer.
LEMMA TimersPay ==
  ASSUME PayInv,
         Tables!ScheduleIfBot \/ Tables!TakeTurn \/ Tables!Lapse \/ Tables!TimerFires
  PROVE  PayInv'
<1>1. Driver \in Tables!Procs /\ Clock \in Tables!Procs
  BY DEF Tables!Procs
<1>2. CASE Tables!ScheduleIfBot \/ Tables!Lapse
  <2>1. UNCHANGED <<call, rewardKeys, awards>>
    BY <1>2 DEF Tables!ScheduleIfBot, Tables!Lapse, Tables!payVars
  <2>. QED
    BY <2>1, PayStays DEF PayInv, CallsAre
<1>3. CASE Tables!TakeTurn
  <2>1. PICK b : b = Tables!WithSeats("moving") /\ IsCall(b) /\ b.at = "moving"
    BY CallFields
  <2>2. PICK c :
          /\ Tables!Goes(Driver, c)
          /\ \/ c = Tables!Idle
             \/ c = [Tables!WithSeats("moving") EXCEPT !.match = turnTimer.match]
    BY <1>3 DEF Tables!TakeTurn, Tables!Ends
  <2>3. IsCall(c) /\ c.at # "awarding"
    <3>1. CASE c = [Tables!WithSeats("moving") EXCEPT !.match = turnTimer.match]
      <4>1. PICK x : c = [b EXCEPT !.match = x]
        BY <2>1, <3>1
      <4>. QED
        BY <2>1, <4>1 DEF IsCall, Fields
    <3>. QED
      BY <2>2, <3>1, CallFields
  <2>4. call[Driver].at # "awarding" /\ UNCHANGED Tables!payVars
    BY <1>3 DEF Tables!TakeTurn, Tables!Begins
  <2>. QED
    BY <1>1, <2>2, <2>3, <2>4, GoesOn
<1>4. CASE Tables!TimerFires
  BY <1>1, <1>4, CallFields, GoesOn DEF Tables!TimerFires, Tables!Begins
<1>. QED
  BY <1>2, <1>3, <1>4

LEMMA PayInvStep == PayInv /\ [GatheringNext]_allVars => PayInv'
<1>. SUFFICES ASSUME PayInv, [GatheringNext]_allVars PROVE PayInv'
  OBVIOUS
<1>1. CASE UNCHANGED platformVars
  <2>1. UNCHANGED <<call, rewardKeys, awards>>
    BY <1>1 DEF platformVars
  <2>. QED
    BY <2>1, PayStays DEF PayInv, CallsAre
<1>2. CASE Tables!Next
  <2>1. ASSUME NEW u \in Users, Tables!NewCall(u) \/ Tables!ContinueUser(u) PROVE PayInv'
    BY <2>1, CallerPays
  <2>2. ASSUME NEW p \in Tables!Procs, Tables!Continue(p) \/ Tables!Report(p) PROVE PayInv'
    BY <2>2, MatchPays, RecordPays, AwardPays, SettlingPays DEF Tables!Continue
  <2>. QED
    BY <1>2, <2>1, <2>2, TimersPay DEF Tables!Next
<1>. QED
  BY <1>1, <1>2 DEF GatheringNext, Befriend, PlayQuickly, SitAtTables, allVars

LEMMA PayInvInit == GatheringInit => PayInv
<1>. SUFFICES ASSUME Tables!Blank PROVE PayInv
  BY DEF GatheringInit, Tables!Init
<1>1. CallsAre /\ \A p \in Tables!Procs : call[p].at = "idle"
  BY CallFields DEF Tables!Blank, CallsAre
<1>2. awards = [k \in RewardRows |-> 0] /\ rewardKeys = {}
  BY DEF Tables!Blank, RewardRows
<1>. QED
  BY <1>1, <1>2 DEF PayInv, Pays

LEMMA SameCardinality == ASSUME NEW S PROVE Tables!Cardinality(S) = Cardinality(S)
BY DEF Tables!Cardinality, Cardinality

\* Nobody is paid twice for a platform match and no reward row goes unpaid,
\* however many calls finish the match or report it, for rooms of any size
\* (recordResult and the unique keys it inserts).
THEOREM RewardsExact == GatheringSpec => []RewardsAreExact
<1>1. PayInv => RewardsAreExact
  <2>1. ASSUME PayInv, NEW k \in RewardRows
        PROVE  awards[k] + Cardinality({p \in Tables!Procs : /\ call[p].at = "awarding"
                                                             /\ call[p].match = k.match
                                                             /\ k.user \in call[p].who})
                 = IF k \in rewardKeys THEN 1 ELSE 0
    <3>. DEFINE payers == {p \in Tables!Procs : /\ call[p].at = "awarding"
                                                /\ call[p].match = k.match
                                                /\ k.user \in call[p].who}
    <3>1. payers \subseteq Tables!Procs
      OBVIOUS
    <3>2. \A p \in Tables!Procs : p \in payers <=> Pays(p, k)
      BY DEF Pays
    <3>. HIDE DEF payers
    <3>3. awards[k] + Cardinality(payers) = IF k \in rewardKeys THEN 1 ELSE 0
      <4>1. CASE \A p \in Tables!Procs : ~Pays(p, k)
        <5>1. payers = {}
          BY <3>1, <3>2, <4>1
        <5>. QED
          BY <2>1, <4>1, <5>1, FS_EmptySet DEF PayInv
      <4>2. ASSUME NEW p \in Tables!Procs, Pays(p, k)
            PROVE  awards[k] + Cardinality(payers) = IF k \in rewardKeys THEN 1 ELSE 0
        <5>1. /\ k \in rewardKeys /\ awards[k] = 0
              /\ \A q \in Tables!Procs : Pays(q, k) => q = p
          BY <2>1, <4>2 DEF PayInv
        <5>2. payers = {p}
          BY <3>1, <3>2, <4>2, <5>1
        <5>. QED
          BY <5>1, <5>2, FS_Singleton
      <4>. QED
        BY <4>1, <4>2
    <3>. QED
      BY <3>3 DEF payers
  <2>2. PayInv => DOMAIN awards = RewardRows
    BY DEF PayInv
  <2>3. ASSUME PayInv PROVE Tables!RewardsAreExact
    BY <2>1, <2>2, <2>3, SameCardinality, Zenon DEF Tables!RewardsAreExact
  <2>. QED
    BY <2>3 DEF RewardsAreExact
<1>. QED
  BY <1>1, PayInvInit, PayInvStep, PTL DEF GatheringSpec

-----------------------------------------------------------------------------
(* The seats of a platform room *)

\* The room of a behaviour that follows something else has NoId in it.
Sitters == Tables!Seats \union {NoId}
RoomFields == {"players", "ready", "owner", "status", "match", "closed", "realtime"}
OfferFields == {"number", "accepted", "declined", "outcome"}

\* A copy that is not stale is the room as it stands; and a rematch that is
\* settled keeps whoever accepts the offer, as long as that offer is open.
CopyHolds(c) ==
  /\ c.seats \in Seq(Sitters)
  /\ c.at \in {"leaving", "clearing"} /\ ~c.stale => c.seats = room.players
  /\ c.at = "regrouping" => c.match \in Nat /\ c.match <= offer.number
  /\ c.at = "regrouping" /\ ~c.stale =>
       /\ \A u \in Users : u \in Tables!SeatSet(c.seats) <=>
                             u \in Tables!Players /\ u \in c.accepted
       /\ c.match = offer.number /\ offer.outcome = "open" => c.accepted = offer.accepted

SeatInv ==
  /\ CallsAre
  /\ DOMAIN room = RoomFields /\ room.players \in Seq(Sitters)
  /\ DOMAIN offer = OfferFields /\ offer.number \in Nat
  /\ \A p \in Tables!Procs : CopyHolds(call[p])

\* What a call holds of the room when it is built, and that it is not stale.
LEMMA CallSeats ==
  /\ Tables!Idle.seats = << >>
  /\ \A step : /\ Tables!At(step).seats = << >>
               /\ Tables!WithSeats(step).seats = room.players
               /\ Tables!Loaded(step).seats = room.players
BY DEF Tables!Idle, Tables!At, Tables!WithSeats, Tables!Loaded

LEMMA SameFilter == ASSUME NEW s, NEW keep PROVE Tables!Filter(s, keep) = Filter(s, keep)
BY DEF Tables!Filter, Filter

LEMMA SeatsFiltered ==
  ASSUME NEW s \in Seq(Sitters), NEW keep
  PROVE  /\ Tables!Filter(s, keep) \in Seq(Sitters)
         /\ \A u : u \in Tables!SeatSet(Tables!Filter(s, keep))
                     <=> u \in keep /\ u \in Tables!SeatSet(s)
<1>1. PICK t : t = Tables!Filter(s, keep)
  OBVIOUS
<1>2. t \in Seq(Sitters) /\ \A u : (\E i \in 1..Len(t) : t[i] = u)
                                   <=> u \in keep /\ \E i \in 1..Len(s) : s[i] = u
  BY <1>1, SameFilter, FilterKeeps
<1>3. \A r, u : u \in Tables!SeatSet(r) <=> \E i \in 1..Len(r) : r[i] = u
  BY DEF Tables!SeatSet
<1>. QED
  BY <1>1, <1>2, <1>3

\* The bots that are pushed are bots.
LEMMA PushedAreBots ==
  ASSUME NEW bots \in SUBSET Stupids
  PROVE  Tables!SetToSeq(bots) \in Seq(Stupids)
<1>1. IsFiniteSet(Stupids)
  BY GatheringAssumption DEF Tables!PlatformAssumption, Tables!IsFiniteSet, IsFiniteSet
<1>2. IsFiniteSet(bots)
  BY <1>1, FS_Subset
<1>3. PICK n \in Nat : n = Tables!Cardinality(bots) /\ ExistsBijection(1..n, bots)
  BY <1>2, FS_CardinalityType, SameCardinality
<1>4. PICK f \in [1..n -> bots] : \A i, j \in 1..n : f[i] = f[j] => i = j
  BY <1>3, Zenon DEF ExistsBijection, Bijection, Injection, IsInjective
<1>5. Tables!IsInjective(f)
  BY <1>4 DEF Tables!IsInjective
<1>6. Tables!SetToSeq(bots) \in [1..n -> bots]
  BY <1>3, <1>5 DEF Tables!SetToSeq
<1>. QED
  BY <1>6

\* A step that leaves the seats, and an offer that is open, as they were keeps
\* every copy as good as it was.
SeatsKept ==
  /\ DOMAIN room' = RoomFields /\ room'.players = room.players
  /\ DOMAIN offer' = OfferFields /\ offer'.number \in Nat
  /\ \/ /\ offer'.number = offer.number
        /\ offer'.outcome = "open" => offer.outcome = "open" /\ offer'.accepted = offer.accepted
     \/ offer'.number > offer.number

LEMMA CopyStays ==
  ASSUME SeatInv, SeatsKept, NEW c, CopyHolds(c)
  PROVE  CopyHolds(c)'
<1>1. Tables!Players' = Tables!Players
  BY DEF SeatsKept, Tables!Players, Tables!SeatSet
<1>2. offer.number \in Nat /\ offer'.number \in Nat
  BY DEF SeatInv, SeatsKept
<1>. QED
  BY <1>1, <1>2 DEF SeatsKept, CopyHolds

LEMMA SeatsStay == SeatInv /\ SeatsKept /\ call' = call => SeatInv'
<1>. SUFFICES ASSUME SeatInv, SeatsKept, call' = call PROVE SeatInv'
  OBVIOUS
<1>1. ASSUME NEW p \in Tables!Procs PROVE CopyHolds(call[p])'
  <2>1. PICK c : c = call[p]
    OBVIOUS
  <2>2. CopyHolds(c)
    BY <2>1 DEF SeatInv
  <2>. QED
    BY <2>1, <2>2, CopyStays
<1>. QED
  BY <1>1 DEF SeatInv, SeatsKept, CallsAre

\* A call that copies nothing it checks.
Plain(c) ==
  IsCall(c) /\ c.seats \in Seq(Sitters) /\ c.at \notin {"leaving", "clearing", "regrouping"}

\* What SeatsAreTheirs says of a step.
Theirs ==
  \A u \in Users :
    /\ u \notin Tables!Players /\ u \in Tables!Players' => call[u].at = "joining"
    /\ u \in Tables!Players /\ u \notin Tables!Players' =>
         \/ call[u].at = "leaving"
         \/ \E p \in Tables!Procs :
              /\ call[p].at = "regrouping"
              /\ (call[p].match = offer.number /\ offer.outcome = "open") => u \notin offer.accepted

LEMMA KeptAreTheirs == room'.players = room.players => Theirs
BY DEF Theirs, Tables!Players, Tables!SeatSet

LEMMA Unmoved == SeatInv /\ UNCHANGED <<room, offer>> => SeatsKept
BY DEF SeatInv, SeatsKept

\* A call goes on over unchanged seats.
LEMMA SeatsGo ==
  ASSUME SeatInv, SeatsKept, NEW p \in Tables!Procs, NEW c, IsCall(c), Tables!Goes(p, c),
         Plain(c) \/ CopyHolds(c)
  PROVE  SeatInv' /\ Theirs
<1>1. CallsAre' /\ call'[p] = c /\ \A q \in Tables!Procs \ {p} : call'[q] = call[q]
  BY DEF SeatInv, Tables!Goes, CallsAre
<1>2. CopyHolds(c)
  BY DEF Plain, CopyHolds
<1>3. CopyHolds(c)'
  BY <1>2, CopyStays
<1>4. ASSUME NEW q \in Tables!Procs PROVE CopyHolds(call[q])'
  <2>1. PICK d : d = call[q]
    OBVIOUS
  <2>2. CopyHolds(d)
    BY <2>1 DEF SeatInv
  <2>3. CopyHolds(d)'
    BY <2>2, CopyStays
  <2>4. CASE q = p
    BY <1>1, <1>3, <2>4
  <2>5. CASE q # p
    BY <1>1, <2>1, <2>3, <2>5
  <2>. QED
    BY <2>4, <2>5
<1>5. Theirs
  BY KeptAreTheirs DEF SeatsKept
<1>. QED
  BY <1>1, <1>4, <1>5 DEF SeatInv, SeatsKept

\* A save that bumps the version leaves every checked copy stale.
LEMMA SeatsBump ==
  ASSUME SeatInv, NEW p \in Tables!Procs, NEW c, Plain(c), Tables!Bumps(p, c),
         DOMAIN room' = RoomFields, room'.players \in Seq(Sitters),
         DOMAIN offer' = OfferFields, offer'.number = offer.number
  PROVE  SeatInv'
<1>1. CallsAre' /\ call'[p] = c
  BY GoesMoves DEF SeatInv, Plain
<1>2. ASSUME NEW q \in Tables!Procs, q # p PROVE CopyHolds(call[q])'
  <2>1. call'[q] = [call[q] EXCEPT !.stale = call[q].at \in Tables!Checked]
    BY <1>2 DEF Tables!Bumps
  <2>2. IsCall(call[q]) /\ CopyHolds(call[q])
    BY DEF SeatInv, CallsAre
  <2>3. /\ call'[q].at = call[q].at /\ call'[q].seats = call[q].seats
        /\ call'[q].match = call[q].match
        /\ call'[q].stale = (call[q].at \in Tables!Checked)
    BY <2>1, <2>2 DEF IsCall, Fields
  <2>. QED
    BY <2>2, <2>3 DEF CopyHolds, Tables!Checked
<1>3. CopyHolds(call[p])'
  BY <1>1 DEF CopyHolds, Plain
<1>. QED
  BY <1>1, <1>2, <1>3 DEF SeatInv

LEMMA PlainCalls ==
  /\ Plain(Tables!Idle)
  /\ SeatInv => \A step : step \notin {"leaving", "clearing", "regrouping"} =>
       Plain(Tables!At(step)) /\ Plain(Tables!WithSeats(step)) /\ Plain(Tables!Loaded(step))
<1>1. << >> \in Seq(Sitters)
  OBVIOUS
<1>. QED
  BY <1>1, CallFields, CallSeats DEF Plain, SeatInv

\* The calls people begin.
LEMMA NewCallSeats ==
  ASSUME SeatInv, NEW u \in Users, Tables!NewCall(u)
  PROVE  SeatInv' /\ Theirs
<1>1. u \in Tables!Procs
  BY DEF Tables!Procs
<1>2. UNCHANGED <<room, offer>>
  BY DEF Tables!NewCall, Tables!Join, Tables!Leave, Tables!Ready, Tables!AddStupids,
     Tables!ClearStupids, Tables!Act, Tables!Request, Tables!Respond, Tables!offerVars
<1>3. SeatsKept
  BY <1>2, Unmoved
<1>4. ASSUME NEW c, Tables!Goes(u, c), Plain(c) PROVE SeatInv' /\ Theirs
  BY <1>1, <1>3, <1>4, SeatsGo DEF Plain
<1>5. CASE Tables!Join(u) \/ Tables!AddStupids(u)
  BY <1>4, <1>5, PlainCalls DEF Tables!Join, Tables!AddStupids
<1>6. CASE Tables!Leave(u) \/ Tables!ClearStupids(u)
  <2>1. PICK c : Tables!Goes(u, c) /\ IsCall(c) /\ c.at \in {"leaving", "clearing"}
                 /\ c.seats = room.players
    BY <1>6, CallFields, CallSeats DEF Tables!Leave, Tables!ClearStupids
  <2>2. CopyHolds(c)
    BY <2>1 DEF CopyHolds, SeatInv
  <2>. QED
    BY <1>1, <1>3, <2>1, <2>2, SeatsGo
<1>7. CASE Tables!Ready(u)
  <2>1. PICK b : b = Tables!Loaded("readying") /\ Plain(b) /\ b.at = "readying"
    BY PlainCalls, CallFields
  <2>2. PICK yes, c :
          /\ Tables!Goes(u, c)
          /\ c = [Tables!Loaded("readying") EXCEPT
                    !.ready = IF yes THEN @ \union {u} ELSE @ \ {u},
                    !.yes = yes,
                    !.who = {u} \ {v \in {u} : yes = (v \in room.ready)}]
    BY <1>7 DEF Tables!Ready
  <2>3. PICK x, z : c = [b EXCEPT !.ready = x, !.yes = yes, !.who = z]
    BY <2>1, <2>2
  <2>4. Plain(c)
    BY <2>1, <2>3 DEF Plain, IsCall, Fields
  <2>. QED
    BY <1>4, <2>2, <2>4
<1>8. CASE Tables!Act(u)
  <2>1. PICK b, d : /\ b = Tables!WithSeats("moving") /\ Plain(b) /\ b.at = "moving"
                    /\ d = Tables!At("talking") /\ Plain(d) /\ d.at = "talking"
    BY PlainCalls, CallFields
  <2>2. PICK m, c :
          /\ Tables!Goes(u, c)
          /\ \/ c = [Tables!WithSeats("moving") EXCEPT !.match = m]
             \/ c = [Tables!At("talking") EXCEPT !.match = m, !.seat = matches[m].turn]
    BY <1>8 DEF Tables!Act
  <2>3. CASE c = [Tables!WithSeats("moving") EXCEPT !.match = m]
    <3>1. c = [b EXCEPT !.match = m]
      BY <2>1, <2>3
    <3>2. Plain(c)
      BY <2>1, <3>1 DEF Plain, IsCall, Fields
    <3>. QED
      BY <1>4, <2>2, <3>2
  <2>4. CASE c = [Tables!At("talking") EXCEPT !.match = m, !.seat = matches[m].turn]
    <3>1. PICK x : c = [d EXCEPT !.match = m, !.seat = x]
      BY <2>1, <2>4
    <3>2. Plain(c)
      BY <2>1, <3>1 DEF Plain, IsCall, Fields
    <3>. QED
      BY <1>4, <2>2, <3>2
  <2>. QED
    BY <2>2, <2>3, <2>4
<1>9. CASE Tables!Request(u) \/ Tables!Respond(u)
  <2>1. PICK b : b = Tables!At("responding") /\ Plain(b) /\ b.at = "responding"
    BY PlainCalls, CallFields
  <2>2. PICK c, x : /\ Tables!Goes(u, c)
                    /\ c = [b EXCEPT !.yes = x] \/ c = Tables!WithSeats("asking")
    BY <1>9, <2>1 DEF Tables!Request, Tables!Respond
  <2>3. Plain(c)
    <3>1. CASE c = [b EXCEPT !.yes = x]
      BY <2>1, <3>1 DEF Plain, IsCall, Fields
    <3>2. CASE c = Tables!WithSeats("asking")
      BY <3>2, PlainCalls
    <3>. QED
      BY <2>2, <3>1, <3>2
  <2>. QED
    BY <1>4, <2>2, <2>3
<1>. QED
  BY <1>5, <1>6, <1>7, <1>8, <1>9 DEF Tables!NewCall

\* A person sits down: their seat is pushed, whatever else has moved.
LEMMA JoinSeats ==
  ASSUME SeatInv, NEW u \in Users, Tables!JoinSave(u)
  PROVE  SeatInv' /\ Theirs
<1>1. PICK now : now = Append(room.players, u)
  OBVIOUS
<1>2. u \in Sitters /\ u \in Tables!Procs
  BY DEF Sitters, Tables!Seats, Tables!Procs
<1>3. /\ now \in Seq(Sitters)
      /\ \A v : (\E i \in 1..Len(now) : now[i] = v)
                  <=> v = u \/ \E i \in 1..Len(room.players) : room.players[i] = v
  <2>1. room.players \in Seq(Sitters)
    BY DEF SeatInv
  <2>2. /\ now \in Seq(Sitters) /\ Len(now) = Len(room.players) + 1
        /\ now[Len(room.players) + 1] = u
        /\ \A i \in 1..Len(room.players) : now[i] = room.players[i]
    BY <1>1, <1>2, <2>1
  <2>3. Len(room.players) \in Nat
    BY <2>1
  <2>4. \A i \in 1..Len(now) : i \in 1..Len(room.players) \/ i = Len(room.players) + 1
    BY <2>2, <2>3
  <2>5. Len(room.players) + 1 \in 1..Len(now) /\ \A i \in 1..Len(room.players) : i \in 1..Len(now)
    BY <2>2, <2>3
  <2>. QED
    BY <2>2, <2>4, <2>5
<1>4. room'.players = now /\ DOMAIN room' = RoomFields /\ offer' = offer
  BY <1>1 DEF Tables!JoinSave, SeatInv, RoomFields, Tables!offerVars
<1>5. SeatInv'
  BY <1>2, <1>3, <1>4, SeatsBump, PlainCalls DEF Tables!JoinSave, SeatInv
<1>6. \A v : v \in Tables!Players' <=> v = u \/ v \in Tables!Players
  BY <1>3, <1>4 DEF Tables!Players, Tables!SeatSet
<1>. QED
  BY <1>5, <1>6 DEF Theirs, Tables!JoinSave

\* A call that fails takes nobody's seat.
LEMMA RefusedSeats ==
  ASSUME SeatInv, NEW p \in Tables!Procs, Tables!Refused(p)
  PROVE  SeatInv' /\ Theirs
BY Unmoved, SeatsGo, PlainCalls DEF Plain, Tables!Refused, Tables!Ends, Tables!offerVars

\* A person stands up, on a copy that is the room.
LEMMA LeaveSeats ==
  ASSUME SeatInv, NEW u \in Users, Tables!LeaveSave(u)
  PROVE  SeatInv' /\ Theirs
<1>1. u \in Tables!Procs /\ call[u].at = "leaving"
  BY DEF Tables!Procs, Tables!LeaveSave
<1>2. CASE Tables!Refused(u)
  BY <1>1, <1>2, RefusedSeats
<1>3. CASE ~Tables!Refused(u)
  <2>1. PICK now : now = Tables!Filter(call[u].seats, Tables!Seats \ {u})
    OBVIOUS
  <2>2. /\ Tables!VersionHolds(u) /\ Tables!Bumps(u, Tables!Idle) /\ offer' = offer
        /\ room' = [room EXCEPT
              !.players = now,
              !.ready = call[u].ready \ {u},
              !.owner = IF @ = u /\ now # <<>> THEN Head(now) ELSE @,
              !.status = IF now = <<>> THEN "closed" ELSE @,
              !.closed = @ \/ now = <<>>]
    BY <1>3, <2>1 DEF Tables!LeaveSave, Tables!offerVars
  <2>3. room'.players = now /\ DOMAIN room' = RoomFields
    BY <2>2 DEF SeatInv, RoomFields
  <2>4. call[u].seats = room.players /\ room.players \in Seq(Sitters)
    BY <1>1, <2>2 DEF SeatInv, CopyHolds, Tables!VersionHolds
  <2>5. /\ now \in Seq(Sitters)
        /\ \A v : v \in Tables!SeatSet(now)
                    <=> v \in Tables!Seats \ {u} /\ v \in Tables!SeatSet(room.players)
    BY <2>1, <2>4, SeatsFiltered
  <2>6. SeatInv'
    BY <1>1, <2>2, <2>3, <2>5, SeatsBump, PlainCalls DEF SeatInv
  <2>7. \A v \in Users : v \in Tables!Players' <=> v # u /\ v \in Tables!Players
    BY <2>3, <2>5 DEF Tables!Players, Tables!SeatSet, Tables!Seats
  <2>. QED
    BY <1>1, <2>6, <2>7 DEF Theirs
<1>. QED
  BY <1>2, <1>3

\* The owner's call that clears the bots moves no person.
LEMMA ClearSeats ==
  ASSUME SeatInv, NEW u \in Users, Tables!ClearSave(u)
  PROVE  SeatInv' /\ Theirs
<1>1. u \in Tables!Procs /\ call[u].at = "clearing"
  BY DEF Tables!Procs, Tables!ClearSave
<1>2. CASE Tables!Refused(u)
  BY <1>1, <1>2, RefusedSeats
<1>3. CASE ~Tables!Refused(u)
  <2>1. PICK now : now = Tables!Filter(call[u].seats, Users)
    OBVIOUS
  <2>2. /\ Tables!VersionHolds(u) /\ Tables!Bumps(u, Tables!Idle) /\ offer' = offer
        /\ room' = [room EXCEPT !.players = now, !.ready = call[u].ready]
    BY <1>3, <2>1 DEF Tables!ClearSave, Tables!offerVars
  <2>3. room'.players = now /\ DOMAIN room' = RoomFields
    BY <2>2 DEF SeatInv, RoomFields
  <2>4. call[u].seats = room.players /\ room.players \in Seq(Sitters)
    BY <1>1, <2>2 DEF SeatInv, CopyHolds, Tables!VersionHolds
  <2>5. /\ now \in Seq(Sitters)
        /\ \A v : v \in Tables!SeatSet(now) <=> v \in Users /\ v \in Tables!SeatSet(room.players)
    BY <2>1, <2>4, SeatsFiltered
  <2>6. SeatInv'
    BY <1>1, <2>2, <2>3, <2>5, SeatsBump, PlainCalls DEF SeatInv
  <2>7. \A v \in Users : v \in Tables!Players' <=> v \in Tables!Players
    BY <2>3, <2>5 DEF Tables!Players, Tables!SeatSet
  <2>. QED
    BY <2>6, <2>7 DEF Theirs
<1>. QED
  BY <1>2, <1>3

\* Bots are pushed behind whoever sits.
LEMMA PushSeats ==
  ASSUME SeatInv, NEW p \in Tables!Procs, NEW c, Plain(c), Tables!Bumps(p, c),
         NEW bots \in SUBSET Stupids, room' = Tables!Pushed(bots), offer' = offer
  PROVE  SeatInv' /\ Theirs
<1>1. PICK more, now : more = Tables!SetToSeq(bots) /\ now = room.players \o more
  OBVIOUS
<1>2. room.players \in Seq(Sitters) /\ more \in Seq(Stupids)
  BY <1>1, PushedAreBots DEF SeatInv
<1>3. /\ now \in Seq(Sitters) /\ Len(now) = Len(room.players) + Len(more)
      /\ \A i \in 1..Len(now) : now[i] = IF i <= Len(room.players) THEN room.players[i]
                                         ELSE more[i - Len(room.players)]
  <2>1. more \in Seq(Sitters)
    BY <1>2 DEF Sitters, Tables!Seats
  <2>. QED
    BY <1>1, <1>2, <2>1
<1>4. \A v : v \notin Stupids =>
        ((\E i \in 1..Len(now) : now[i] = v)
           <=> \E i \in 1..Len(room.players) : room.players[i] = v)
  <2>1. Len(room.players) \in Nat /\ Len(more) \in Nat
    BY <1>2
  <2>2. \A i \in 1..Len(now) : i \in 1..Len(room.players) \/ now[i] \in Stupids
    <3>1. ASSUME NEW i \in 1..Len(now), ~(i <= Len(room.players)) PROVE now[i] \in Stupids
      <4>1. i - Len(room.players) \in 1..Len(more)
        BY <1>3, <2>1, <3>1
      <4>. QED
        BY <1>2, <1>3, <3>1, <4>1
    <3>. QED
      BY <2>1, <3>1
  <2>3. \A i \in 1..Len(room.players) : i \in 1..Len(now) /\ now[i] = room.players[i]
    BY <1>3, <2>1
  <2>4. \A i \in 1..Len(now) : i \in 1..Len(room.players) => now[i] = room.players[i]
    BY <2>3
  <2>. QED
    BY <2>2, <2>3, <2>4
<1>5. room'.players = now /\ DOMAIN room' = RoomFields
  BY <1>1 DEF Tables!Pushed, SeatInv, RoomFields
<1>6. SeatInv'
  BY <1>3, <1>5, SeatsBump DEF SeatInv
<1>7. \A v \in Users : v \notin Stupids
  BY GatheringAssumption DEF Tables!PlatformAssumption
<1>8. \A v \in Users : v \in Tables!Players' <=> v \in Tables!Players
  BY <1>4, <1>5, <1>7 DEF Tables!Players, Tables!SeatSet
<1>. QED
  BY <1>6, <1>8 DEF Theirs

\* The other saves of people's calls: nobody moves, and an offer that is open
\* takes answers under the version only.
LEMMA SaveSeats ==
  ASSUME SeatInv, NEW u \in Users,
         \/ Tables!ReadySave(u) \/ Tables!SeatSave(u) \/ Tables!Talk(u) \/ Tables!RequestSave(u)
         \/ Tables!RespondLoad(u) \/ Tables!AnswerSave(u) \/ Tables!Bow(u)
  PROVE  SeatInv' /\ Theirs
<1>1. u \in Tables!Procs
  BY DEF Tables!Procs
<1>2. ASSUME SeatsKept, NEW c, Tables!Goes(u, c), Plain(c) PROVE SeatInv' /\ Theirs
  BY <1>1, <1>2, SeatsGo DEF Plain
<1>3. CASE Tables!ReadySave(u)
  <2>1. SeatsKept
    BY <1>3 DEF Tables!ReadySave, Tables!Refused, Tables!offerVars, SeatsKept, SeatInv, RoomFields
  <2>2. PICK b : b = Tables!At("starting") /\ Plain(b) /\ b.at = "starting"
    BY PlainCalls, CallFields
  <2>3. PICK c :
          /\ Tables!Goes(u, c)
          /\ \/ c = Tables!Idle
             \/ c = [Tables!At("starting") EXCEPT !.seats = call[u].seats,
                                                 !.ready = call[u].ready]
    BY <1>3 DEF Tables!ReadySave, Tables!Refused, Tables!Ends
  <2>4. PICK held : held = call[u].seats /\ held \in Seq(Sitters)
    BY <1>1 DEF SeatInv, CopyHolds
  <2>5. Plain(c)
    <3>1. CASE c = [Tables!At("starting") EXCEPT !.seats = call[u].seats,
                                                 !.ready = call[u].ready]
      <4>1. PICK y : c = [b EXCEPT !.seats = held, !.ready = y]
        BY <2>2, <2>4, <3>1
      <4>. QED
        BY <2>2, <2>4, <4>1 DEF Plain, IsCall, Fields
    <3>. QED
      BY <2>3, <3>1, PlainCalls
  <2>. QED
    BY <1>2, <2>1, <2>3, <2>5
<1>4. CASE Tables!SeatSave(u)
  <2>1. PICK count, bots :
          /\ bots \in Tables!Picks(call[u].seats, count)
          /\ IF bots = {} THEN Tables!Ends(u) /\ UNCHANGED room
             ELSE room' = Tables!Pushed(bots) /\ Tables!Bumps(u, Tables!Idle)
    BY <1>4 DEF Tables!SeatSave
  <2>2. bots \in SUBSET Stupids /\ offer' = offer
    BY <1>4, <2>1 DEF Tables!Picks, Tables!SeatSave, Tables!offerVars
  <2>3. CASE bots = {}
    BY <1>2, <2>1, <2>2, <2>3, Unmoved, PlainCalls DEF Tables!Ends
  <2>4. CASE bots # {}
    BY <1>1, <2>1, <2>2, <2>4, PushSeats, PlainCalls
  <2>. QED
    BY <2>3, <2>4
<1>5. CASE Tables!Talk(u)
  BY <1>2, <1>5, Unmoved, PlainCalls DEF Tables!Talk, Tables!Ends, Tables!offerVars
<1>6. CASE Tables!RequestSave(u)
  <2>1. PICK c : Tables!Goes(u, c) /\ (c = Tables!At("settling") \/ c = Tables!Idle)
    BY <1>6 DEF Tables!RequestSave, Tables!Ends
  <2>2. SeatsKept
    BY <1>6 DEF Tables!RequestSave, SeatsKept, SeatInv, OfferFields
  <2>. QED
    BY <1>2, <2>1, <2>2, PlainCalls
<1>7. CASE Tables!RespondLoad(u)
  <2>1. SeatsKept
    BY <1>7 DEF Tables!RespondLoad, SeatsKept, SeatInv, OfferFields
  <2>2. PICK b : b = Tables!WithSeats("answering") /\ Plain(b) /\ b.at = "answering"
    BY PlainCalls, CallFields
  <2>3. PICK c :
          /\ Tables!Goes(u, c)
          /\ \/ c = Tables!Idle
             \/ c = [Tables!WithSeats("answering") EXCEPT
                       !.yes = call[u].yes,
                       !.accepted = offer.accepted,
                       !.who = offer.accepted \union offer.declined]
    BY <1>7 DEF Tables!RespondLoad, Tables!Ends
  <2>4. Plain(c)
    <3>1. CASE c = [Tables!WithSeats("answering") EXCEPT
                      !.yes = call[u].yes,
                      !.accepted = offer.accepted,
                      !.who = offer.accepted \union offer.declined]
      <4>1. PICK x, y, z : c = [b EXCEPT !.yes = x, !.accepted = y, !.who = z]
        BY <2>2, <3>1
      <4>. QED
        BY <2>2, <4>1 DEF Plain, IsCall, Fields
    <3>. QED
      BY <2>3, <3>1, PlainCalls
  <2>. QED
    BY <1>2, <2>1, <2>3, <2>4
<1>8. CASE Tables!AnswerSave(u)
  <2>1. CASE Tables!Refused(u)
    BY <1>1, <2>1, RefusedSeats
  <2>2. CASE ~Tables!Refused(u)
    <3>1. PICK c : /\ Tables!Bumps(u, c)
                   /\ \/ c = Tables!At("bowing") \/ c = Tables!At("settling") \/ c = Tables!Idle
      BY <1>8, <2>2 DEF Tables!AnswerSave
    <3>2. offer' = Tables!Answered(u) /\ room' = room
      BY <1>8, <2>2 DEF Tables!AnswerSave
    <3>3. DOMAIN offer' = OfferFields /\ offer'.number = offer.number
      BY <3>2 DEF Tables!Answered, SeatInv, OfferFields
    <3>4. SeatInv'
      BY <1>1, <3>1, <3>2, <3>3, SeatsBump, PlainCalls DEF SeatInv
    <3>. QED
      BY <3>2, <3>4, KeptAreTheirs
  <2>. QED
    BY <2>1, <2>2
<1>9. CASE Tables!Bow(u)
  <2>1. SeatsKept
    BY <1>9, Unmoved DEF Tables!Bow, Tables!offerVars
  <2>2. CASE Tables!Goes(u, Tables!Idle)
    BY <1>2, <2>1, <2>2, PlainCalls
  <2>3. CASE Tables!Goes(u, Tables!Loaded("leaving"))
    <3>1. PICK c : Tables!Goes(u, c) /\ IsCall(c) /\ c.at = "leaving" /\ c.seats = room.players
      BY <2>3, CallFields, CallSeats
    <3>2. CopyHolds(c)
      BY <3>1 DEF CopyHolds, SeatInv
    <3>. QED
      BY <1>1, <2>1, <3>1, <3>2, SeatsGo
  <2>. QED
    BY <1>9, <2>2, <2>3 DEF Tables!Bow, Tables!Ends
<1>. QED
  BY <1>3, <1>4, <1>5, <1>6, <1>7, <1>8, <1>9

\* The steps of a match that is played, and of its end.
LEMMA MatchSeats ==
  ASSUME SeatInv, NEW p \in Tables!Procs,
         \/ Tables!Create(p) \/ Tables!Install(p) \/ Tables!MoveOn(p) \/ Tables!Finish(p)
         \/ Tables!ReportSave(p) \/ Tables!Complete(p) \/ Tables!Report(p)
         \/ Tables!Record(p) \/ Tables!Award(p)
  PROVE  SeatInv' /\ Theirs
<1>1. SeatsKept
  <2>1. CASE UNCHANGED <<room, offer>>
    BY <2>1, Unmoved
  <2>2. CASE Tables!Install(p) \/ Tables!Complete(p)
    BY <2>2 DEF Tables!Install, Tables!Complete, Tables!offerVars, SeatsKept, SeatInv, RoomFields
  <2>. QED
    BY <2>1, <2>2 DEF Tables!Create, Tables!MoveOn, Tables!Finish, Tables!ReportSave,
       Tables!Report, Tables!Record, Tables!Award, Tables!offerVars
<1>2. ASSUME NEW c, Tables!Goes(p, c), Plain(c) PROVE SeatInv' /\ Theirs
  BY <1>1, <1>2, SeatsGo DEF Plain
<1>3. CASE Tables!Install(p) \/ Tables!MoveOn(p) \/ Tables!Award(p)
  BY <1>2, <1>3, PlainCalls DEF Tables!Install, Tables!MoveOn, Tables!Award, Tables!Ends
<1>4. CASE Tables!Create(p) \/ Tables!Report(p)
  <2>1. PICK a, b : /\ a = Tables!At("installing") /\ Plain(a) /\ a.at = "installing"
                    /\ b = Tables!WithSeats("reporting") /\ Plain(b) /\ b.at = "reporting"
    BY PlainCalls, CallFields
  <2>2. PICK c, x : /\ Tables!Goes(p, c)
                    /\ c = [a EXCEPT !.match = x] \/ c = [b EXCEPT !.match = x]
    BY <1>4, <2>1 DEF Tables!Create, Tables!Report
  <2>3. Plain(c)
    BY <2>1, <2>2 DEF Plain, IsCall, Fields
  <2>. QED
    BY <1>2, <2>2, <2>3
<1>5. CASE Tables!Finish(p) \/ Tables!ReportSave(p) \/ Tables!Complete(p)
  <2>1. PICK step, c :
          /\ step \in {"completing", "recording"}
          /\ Tables!Goes(p, c) /\ c = [call[p] EXCEPT !.at = step]
    BY <1>5 DEF Tables!Finish, Tables!ReportSave, Tables!Complete
  <2>2. Plain(c)
    BY <2>1 DEF SeatInv, CallsAre, CopyHolds, Plain, IsCall, Fields
  <2>. QED
    BY <1>2, <2>1, <2>2
<1>6. CASE Tables!Record(p)
  <2>1. PICK c, owed : Tables!Goes(p, c) /\ c = [call[p] EXCEPT !.at = "awarding", !.who = owed]
    BY <1>6 DEF Tables!Record
  <2>2. Plain(c)
    BY <2>1 DEF SeatInv, CallsAre, CopyHolds, Plain, IsCall, Fields
  <2>. QED
    BY <1>2, <2>1, <2>2
<1>. QED
  BY <1>3, <1>4, <1>5, <1>6

\* A rematch that settles drops from the copy whoever did not say yes, and the
\* save of that copy is refused when an answer or a seat has moved since.
LEMMA SettleSeats ==
  ASSUME SeatInv, NEW p \in Tables!Procs, Tables!SettleLoad(p)
  PROVE  SeatInv' /\ Theirs
<1>1. SeatsKept
  BY Unmoved DEF Tables!SettleLoad
<1>2. CASE Tables!Goes(p, Tables!Idle)
  BY <1>1, <1>2, SeatsGo, PlainCalls DEF Plain
<1>3. CASE ~Tables!Goes(p, Tables!Idle)
  <2>1. PICK kept, b : /\ kept = Tables!Kept(room.players)
                       /\ b = Tables!Loaded("regrouping") /\ IsCall(b)
                       /\ b.at = "regrouping"
    BY CallFields
  <2>2. /\ kept \in Seq(Sitters)
        /\ \A u : u \in Tables!SeatSet(kept)
                    <=> u \in Stupids \union offer.accepted /\ u \in Tables!SeatSet(room.players)
    BY <2>1, SeatsFiltered DEF Tables!Kept, SeatInv
  <2>3. PICK c, owner, gone :
          /\ Tables!Goes(p, c)
          /\ c = [b EXCEPT !.seats = kept, !.seat = owner, !.accepted = offer.accepted,
                           !.match = offer.number, !.who = gone]
    <3>1. PICK c : c = [b EXCEPT !.seats = kept, !.seat = room.owner,
                                 !.accepted = offer.accepted, !.match = offer.number,
                                 !.who = Tables!Players \ Tables!SeatSet(kept)]
      OBVIOUS
    <3>2. Tables!Goes(p, c)
      BY <1>3, <2>1, <3>1 DEF Tables!SettleLoad, Tables!Ends
    <3>. QED
      BY <3>1, <3>2
  <2>4. /\ IsCall(c) /\ c.at = "regrouping" /\ c.seats = kept
        /\ c.match = offer.number /\ c.accepted = offer.accepted
    BY <2>1, <2>3 DEF IsCall, Fields
  <2>5. \A u \in Users : u \notin Stupids
    BY GatheringAssumption DEF Tables!PlatformAssumption
  <2>6. CopyHolds(c)
    BY <2>2, <2>4, <2>5 DEF CopyHolds, SeatInv, Tables!Players
  <2>. QED
    BY <1>1, <2>3, <2>4, <2>6, SeatsGo
<1>. QED
  BY <1>2, <1>3

LEMMA RegroupSeats ==
  ASSUME SeatInv, NEW p \in Tables!Procs, Tables!Regroup(p)
  PROVE  SeatInv' /\ Theirs
<1>1. call[p].at = "regrouping" /\ CopyHolds(call[p]) /\ IsCall(call[p])
  BY DEF Tables!Regroup, SeatInv, CallsAre
<1>2. CASE Tables!Refused(p)
  BY <1>2, RefusedSeats
<1>3. CASE ~Tables!Refused(p)
  <2>1. PICK a, b, kept, owner, yes :
          /\ a = Tables!At("topping") /\ Plain(a) /\ a.at = "topping"
          /\ b = Tables!At("freshening") /\ Plain(b) /\ b.at = "freshening"
          /\ kept = call[p].seats /\ owner = call[p].seat /\ yes = call[p].accepted
    BY PlainCalls, CallFields
  <2>2. PICK next : next = IF Len(kept) < MinPlayers
                           THEN [a EXCEPT !.seats = kept, !.seat = owner, !.accepted = yes]
                           ELSE [b EXCEPT !.accepted = yes]
    OBVIOUS
  <2>3. Plain(next)
    <3>1. kept \in Seq(Sitters)
      BY <1>1, <2>1 DEF CopyHolds
    <3>. QED
      BY <2>1, <2>2, <3>1 DEF Plain, IsCall, Fields
  <2>4. PICK drops, c :
          /\ drops \in BOOLEAN /\ drops => Tables!VersionHolds(p)
          /\ c = Tables!Idle \/ c = next
          /\ IF drops THEN Tables!Bumps(p, c) ELSE Tables!Goes(p, c)
          /\ DOMAIN room' = RoomFields
          /\ room'.players = IF drops THEN kept ELSE room.players
          /\ DOMAIN offer' = OfferFields /\ offer'.number = offer.number
          /\ offer'.outcome # "open"
    <3>1. PICK drops, flags :
            /\ drops = (call[p].who # {})
            /\ flags = ~(Tables!HumansOf(call[p].seats) \subseteq call[p].ready)
      OBVIOUS
    <3>2. drops => Tables!VersionHolds(p)
      BY <1>3, <3>1 DEF Tables!Regroup
    <3>3. CASE Tables!HumansOf(call[p].seats) = {}
      <4>1. /\ room' = [room EXCEPT !.players = IF drops THEN kept ELSE @,
                                    !.status = "closed", !.closed = TRUE]
            /\ offer' = [offer EXCEPT !.outcome = "failed"]
            /\ IF drops THEN Tables!Bumps(p, Tables!Idle) ELSE Tables!Goes(p, Tables!Idle)
        BY <1>3, <2>1, <3>1, <3>3 DEF Tables!Regroup, Tables!Ends
      <4>2. /\ DOMAIN room' = RoomFields
            /\ room'.players = IF drops THEN kept ELSE room.players
        BY <4>1 DEF SeatInv, RoomFields
      <4>3. /\ DOMAIN offer' = OfferFields /\ offer'.number = offer.number
            /\ offer'.outcome # "open"
        BY <4>1 DEF SeatInv, OfferFields
      <4>. QED
        BY <3>1, <3>2, <4>1, <4>2, <4>3
    <3>4. CASE Tables!HumansOf(call[p].seats) # {}
      <4>1. PICK flagged, people :
            /\ room' = [room EXCEPT !.players = IF drops THEN kept ELSE @,
                                    !.ready = IF drops THEN people
                                              ELSE IF flags THEN flagged ELSE @,
                                    !.match = 0, !.status = "waiting"]
            /\ offer' = [offer EXCEPT !.outcome = "started"]
            /\ IF drops THEN Tables!Bumps(p, next) ELSE Tables!Goes(p, next)
        BY <1>3, <2>1, <2>2, <3>1, <3>4 DEF Tables!Regroup
      <4>2. /\ DOMAIN room' = RoomFields
            /\ room'.players = IF drops THEN kept ELSE room.players
        BY <4>1 DEF SeatInv, RoomFields
      <4>3. /\ DOMAIN offer' = OfferFields /\ offer'.number = offer.number
            /\ offer'.outcome # "open"
        BY <4>1 DEF SeatInv, OfferFields
      <4>. QED
        BY <3>1, <3>2, <4>1, <4>2, <4>3
    <3>. QED
      BY <3>3, <3>4
  <2>5. Plain(c)
    BY <2>3, <2>4, PlainCalls
  <2>6. CASE drops
    <3>1. /\ kept \in Seq(Sitters)
          /\ \A u \in Users : u \in Tables!SeatSet(kept) <=>
                                u \in Tables!Players /\ u \in call[p].accepted
          /\ call[p].match = offer.number /\ offer.outcome = "open"
               => call[p].accepted = offer.accepted
      BY <1>1, <2>1, <2>4, <2>6 DEF CopyHolds, Tables!VersionHolds
    <3>2. SeatInv'
      BY <2>4, <2>5, <2>6, <3>1, SeatsBump
    <3>3. Tables!Players' = Tables!SeatSet(kept)
      BY <2>4, <2>6 DEF Tables!Players, Tables!SeatSet
    <3>. QED
      BY <1>1, <3>1, <3>2, <3>3 DEF Theirs
  <2>7. CASE ~drops
    <3>1. SeatsKept
      BY <2>4, <2>7 DEF SeatsKept, SeatInv
    <3>. QED
      BY <2>4, <2>5, <2>7, <3>1, SeatsGo DEF Plain
  <2>. QED
    BY <2>6, <2>7, <2>4
<1>. QED
  BY <1>2, <1>3

\* After it the room is topped up with bots and dealt, or the rematch fails.
LEMMA RematchSeats ==
  ASSUME SeatInv, NEW p \in Tables!Procs,
         Tables!TopUp(p) \/ Tables!TopUpSave(p) \/ Tables!Freshen(p) \/ Tables!FailRematch(p)
  PROVE  SeatInv' /\ Theirs
<1>1. ASSUME SeatsKept, NEW c, Tables!Goes(p, c), Plain(c) PROVE SeatInv' /\ Theirs
  BY <1>1, SeatsGo DEF Plain
<1>2. PICK a, b, d, yes :
        /\ a = Tables!WithSeats("filling") /\ Plain(a) /\ a.at = "filling"
        /\ b = Tables!At("freshening") /\ Plain(b) /\ b.at = "freshening"
        /\ d = Tables!At("failing") /\ Plain(d) /\ d.at = "failing"
        /\ yes = call[p].accepted
  BY PlainCalls, CallFields
<1>3. CASE Tables!TopUp(p)
  <2>1. SeatsKept
    BY <1>3, Unmoved DEF Tables!TopUp, Tables!offerVars
  <2>2. PICK c, x : /\ Tables!Goes(p, c)
                    /\ c = [a EXCEPT !.accepted = yes, !.match = x] \/ c = [b EXCEPT !.accepted = yes]
    BY <1>2, <1>3 DEF Tables!TopUp
  <2>3. Plain(c)
    BY <1>2, <2>2 DEF Plain, IsCall, Fields
  <2>. QED
    BY <1>1, <2>1, <2>2, <2>3
<1>4. CASE Tables!TopUpSave(p)
  <2>1. PICK c : c = [b EXCEPT !.accepted = yes]
    OBVIOUS
  <2>2. Plain(c)
    BY <1>2, <2>1 DEF Plain, IsCall, Fields
  <2>3. PICK count, bots :
          /\ bots \in Tables!Picks(call[p].seats, count)
          /\ IF bots = {} THEN Tables!Goes(p, c) /\ UNCHANGED room
             ELSE room' = Tables!Pushed(bots) /\ Tables!Bumps(p, c)
    BY <1>2, <1>4, <2>1 DEF Tables!TopUpSave
  <2>4. bots \in SUBSET Stupids /\ offer' = offer
    BY <1>4, <2>3 DEF Tables!Picks, Tables!TopUpSave, Tables!offerVars
  <2>5. CASE bots = {}
    BY <1>1, <2>2, <2>3, <2>4, <2>5, Unmoved
  <2>6. CASE bots # {}
    BY <2>2, <2>3, <2>4, <2>6, PushSeats
  <2>. QED
    BY <2>5, <2>6
<1>5. CASE Tables!Freshen(p)
  <2>1. SeatsKept
    BY <1>5, Unmoved DEF Tables!Freshen, Tables!offerVars
  <2>2. PICK c : /\ Tables!Goes(p, c)
                 /\ c = Tables!Loaded("starting") \/ c = [d EXCEPT !.accepted = yes]
    BY <1>2, <1>5 DEF Tables!Freshen
  <2>3. Plain(c)
    <3>1. CASE c = [d EXCEPT !.accepted = yes]
      BY <1>2, <3>1 DEF Plain, IsCall, Fields
    <3>. QED
      BY <2>2, <3>1, PlainCalls
  <2>. QED
    BY <1>1, <2>1, <2>2, <2>3
<1>6. CASE Tables!FailRematch(p)
  <2>1. SeatsKept
    BY <1>6 DEF Tables!FailRematch, SeatsKept, SeatInv, RoomFields, OfferFields
  <2>. QED
    BY <1>1, <1>6, <2>1, PlainCalls DEF Tables!FailRematch, Tables!Ends
<1>. QED
  BY <1>3, <1>4, <1>5, <1>6

\* The driver and the timers move nobody.
LEMMA TimersSeats ==
  ASSUME SeatInv,
         Tables!ScheduleIfBot \/ Tables!TakeTurn \/ Tables!Lapse \/ Tables!TimerFires
  PROVE  SeatInv' /\ Theirs
<1>1. SeatsKept
  BY Unmoved DEF Tables!ScheduleIfBot, Tables!TakeTurn, Tables!Lapse, Tables!TimerFires,
     Tables!offerVars
<1>2. Clock \in Tables!Procs /\ Driver \in Tables!Procs
  BY DEF Tables!Procs
<1>3. ASSUME NEW p \in Tables!Procs, NEW c, Tables!Goes(p, c), Plain(c) PROVE SeatInv' /\ Theirs
  BY <1>1, <1>3, SeatsGo DEF Plain
<1>4. CASE call' = call
  BY <1>1, <1>4, SeatsStay, KeptAreTheirs DEF SeatsKept
<1>5. CASE Tables!TakeTurn
  <2>1. PICK b : b = Tables!WithSeats("moving") /\ Plain(b) /\ b.at = "moving"
    BY PlainCalls, CallFields
  <2>2. PICK c, x : Tables!Goes(Driver, c) /\ (c = [b EXCEPT !.match = x] \/ c = Tables!Idle)
    BY <1>5, <2>1 DEF Tables!TakeTurn, Tables!Ends
  <2>3. Plain(c)
    <3>1. CASE c = [b EXCEPT !.match = x]
      BY <2>1, <3>1 DEF Plain, IsCall, Fields
    <3>. QED
      BY <2>2, <3>1, PlainCalls
  <2>. QED
    BY <1>2, <1>3, <2>2, <2>3
<1>6. CASE Tables!TimerFires
  BY <1>2, <1>3, <1>6, PlainCalls DEF Tables!TimerFires
<1>. QED
  BY <1>4, <1>5, <1>6 DEF Tables!ScheduleIfBot, Tables!Lapse

LEMMA SeatInvStep == SeatInv /\ [GatheringNext]_allVars => SeatInv' /\ Theirs
<1>. SUFFICES ASSUME SeatInv, [GatheringNext]_allVars PROVE SeatInv' /\ Theirs
  OBVIOUS
<1>1. CASE Tables!Next
  <2>1. ASSUME NEW u \in Users, Tables!ContinueUser(u) PROVE SeatInv' /\ Theirs
    BY <2>1, JoinSeats, LeaveSeats, ClearSeats, SaveSeats DEF Tables!ContinueUser
  <2>2. ASSUME NEW p \in Tables!Procs, Tables!Continue(p) \/ Tables!Report(p)
        PROVE  SeatInv' /\ Theirs
    BY <2>2, MatchSeats, SettleSeats, RegroupSeats, RematchSeats DEF Tables!Continue
  <2>. QED
    BY <1>1, <2>1, <2>2, NewCallSeats, TimersSeats DEF Tables!Next
<1>2. CASE UNCHANGED platformVars
  <2>1. SeatsKept /\ call' = call /\ room' = room
    BY <1>2, Unmoved DEF platformVars
  <2>. QED
    BY <2>1, SeatsStay, KeptAreTheirs
<1>. QED
  BY <1>1, <1>2 DEF GatheringNext, Befriend, PlayQuickly, SitAtTables, allVars

LEMMA SeatInvInit == GatheringInit => SeatInv
<1>. SUFFICES ASSUME GatheringInit PROVE SeatInv
  OBVIOUS
<1>1. PICK u, rt : u \in Sitters /\ room = Tables!Opened(u, rt) /\ Tables!Blank
  <2>1. CASE part = "platform"
    BY <2>1 DEF GatheringInit, Tables!Init, Sitters, Tables!Seats
  <2>2. CASE part # "platform"
    <3>1. room = Tables!Opened(NoId, FALSE) /\ Tables!Blank
      BY <2>2 DEF GatheringInit
    <3>. QED
      BY <3>1 DEF Sitters
  <2>. QED
    BY <2>1, <2>2
<1>2. <<u>> \in Seq(Sitters)
  BY <1>1
<1>3. DOMAIN room = RoomFields /\ room.players \in Seq(Sitters)
  BY <1>1, <1>2 DEF Tables!Opened, RoomFields
<1>4. DOMAIN offer = OfferFields /\ offer.number \in Nat
  BY <1>1 DEF Tables!Blank, Tables!NoOffer, OfferFields
<1>5. \A p \in Tables!Procs : call[p] = Tables!Idle
  BY <1>1 DEF Tables!Blank
<1>6. CallsAre
  BY <1>1, <1>5, CallFields DEF Tables!Blank, CallsAre
<1>7. CopyHolds(Tables!Idle)
  BY PlainCalls DEF Plain, CopyHolds
<1>. QED
  BY <1>3, <1>4, <1>5, <1>6, <1>7 DEF SeatInv

\* A person comes to a seat of a platform room by their own join, and loses it
\* by their own leave or by a rematch that settles without their yes: no save of
\* somebody's stale copy brings a seat back or takes it away (game_platform and
\* rematch.service.ts), however many people, Stupids and calls there are.
THEOREM SeatsTheirs == GatheringSpec => SeatsAreTheirs
<1>1. SeatInv /\ [GatheringNext]_allVars => [Theirs]_(Tables!vars)
  BY SeatInvStep
<1>. QED
  BY <1>1, SeatInvInit, SeatInvStep, PTL DEF GatheringSpec, SeatsAreTheirs, Tables!SeatsAreTheirs, Theirs
=============================================================================
