-------------------------------- MODULE Board --------------------------------
(***************************************************************************)
(* The drawing of a room (drawing.service, relayed by drawing.socket): the *)
(* strokes the server holds, what the drawer has undone, and what every    *)
(* other player's canvas shows.  The server keeps the board in memory and  *)
(* relays each change; a canvas is filled by a snapshot when its player    *)
(* enters and follows the relayed events from then on                      *)
(* (web/GameProvider).                                                     *)
(*                                                                         *)
(* Two messages to one socket arrive in the order they were sent, so a     *)
(* canvas is modelled as what it shows once everything sent has arrived.   *)
(* The drawer paints without being told, so the drawer's own canvas is     *)
(* left out.  A stroke is its id, its author and how many points it has.   *)
(***************************************************************************)
EXTENDS Naturals, Sequences, SequencesExt, Filter

CONSTANTS Users, Nobody, Prompt,
          Ids,         \* stroke ids the clients choose
          MaxStrokes,  \* INPUT_LIMITS.maxStrokesPerBoard
          MaxPoints,   \* INPUT_LIMITS.maxPointsPerStroke
          MaxBatch     \* INPUT_LIMITS.maxPointsPerBatch

VARIABLES phase, pen, live, dealt, untold, seated, closed,  \* RoomTurns
          relay,      \* the mode keeps the board between turns
          strokes,    \* room.board.strokes
          redo,       \* room.board.redoStack
          clearing,   \* a pause has wiped the board and not told the room yet
          channel,    \* users whose socket is in the room's channel
          waiting,    \* of these, the ones the snapshot has not gone out to
          screen      \* what each of them sees

roomVars == <<phase, pen, live, dealt, untold, seated, closed>>
boardVars == <<strokes, redo>>
canvasVars == <<channel, waiting, screen>>
vars == <<phase, pen, live, dealt, untold, seated, closed,
          relay, strokes, redo, clearing, channel, waiting, screen>>

Room == INSTANCE RoomTurns

Blank == [u \in Users |-> << >>]

OwnInit ==
  /\ relay \in BOOLEAN
  /\ strokes = << >> /\ redo = << >> /\ clearing = FALSE
  /\ channel = {} /\ waiting = {} /\ screen = Blank

Init == Room!Init /\ OwnInit

-----------------------------------------------------------------------------
(* The board and the canvases                                               *)

IdsOf(s) == {s[i].id : i \in DOMAIN s}
WithoutId(s, id) == Filter(s, {stroke \in ToSet(s) : stroke.id # id})
Longer(s, id, n) == [i \in DOMAIN s |->
  IF s[i].id = id THEN [s[i] EXCEPT !.len = @ + n] ELSE s[i]]

\* A stroke as it is sent: who drew it does not matter to a canvas.
Sent(stroke) == [id |-> stroke.id, len |-> stroke.len]
Snapshot == [i \in DOMAIN strokes |-> Sent(strokes[i])]

\* An event that changes each canvas it reaches by Change.
Relay(Change(_)) ==
  /\ screen' = [u \in Users |->
                  IF u \in channel \ {pen} THEN Change(screen[u]) ELSE screen[u]]
  /\ UNCHANGED <<channel, waiting>>

\* SERVER_DRAW_CLEAR goes to everybody in the channel.
ClearScreens ==
  /\ screen' = [u \in Users |-> IF u \in channel THEN << >> ELSE screen[u]]
  /\ UNCHANGED <<channel, waiting>>

\* beginTurn, a pause and the return to the lobby: a new board, or in Relay the
\* same one, and nothing left to redo.
FreshBoard == strokes' = (IF relay THEN strokes ELSE << >>) /\ redo' = << >>

-----------------------------------------------------------------------------
(* The turn                                                                 *)

TurnBegins(u) ==
  /\ Prompt => ~clearing
  /\ Room!Deal(u) /\ FreshBoard
  /\ UNCHANGED <<relay, clearing, canvasVars>>

TurnAnnounced(u) ==
  /\ Room!Offer(u) /\ ClearScreens
  /\ UNCHANGED <<relay, boardVars, clearing>>

\* The room is told when the pause is stored.
Paused ==
  /\ Room!Quiet /\ FreshBoard /\ clearing' = TRUE
  /\ UNCHANGED <<relay, canvasVars>>

PauseTold ==
  /\ clearing /\ clearing' = FALSE /\ ClearScreens
  /\ UNCHANGED <<roomVars, relay, boardVars>>

\* endGame: the last picture stays up under the standings.
Finished == Room!Quiet /\ UNCHANGED <<relay, boardVars, clearing, canvasVars>>

\* returnToLobby: nobody is told of the new board.
InLobby == Room!Quiet /\ FreshBoard /\ UNCHANGED <<relay, clearing, canvasVars>>

RoomMoves ==
  /\ \/ Room!Choose \/ Room!Score \/ Room!Close
     \/ \E u \in Users : \/ Room!Install(u) \/ Room!Come(u) \/ Room!Go(u)
  /\ UNCHANGED <<relay, boardVars, clearing, canvasVars>>

-----------------------------------------------------------------------------
(* The drawer                                                               *)

\* assertCanDraw, of a room the registry still knows.
CanDraw(u) == ~closed /\ live /\ phase = "drawing" /\ pen = u /\ u \in channel

Draws(u) == CanDraw(u) /\ UNCHANGED <<roomVars, relay, clearing>>

\* Mutant: an id that is on the board already is taken again.
Fits_AnyId(id) == Len(strokes) < MaxStrokes

\* A full board and an id in use refuse the stroke.
Fits(id) == Len(strokes) < MaxStrokes /\ id \notin IdsOf(strokes)

\* A new stroke forfeits what was undone.
Begin(u, id) ==
  LET stroke == [id |-> id, by |-> u, len |-> 1] IN
  /\ Draws(u) /\ Fits(id)
  /\ strokes' = Append(strokes, stroke) /\ redo' = << >>
  /\ Relay(LAMBDA s : Append(s, Sent(stroke)))

\* The stroke takes the points that fit; the room is sent the whole batch.
AppendPoints(u, id, n) ==
  /\ Draws(u)
  /\ \E i \in DOMAIN strokes :
       /\ strokes[i].id = id /\ strokes[i].len < MaxPoints
       /\ strokes' = [strokes EXCEPT ![i].len =
                        IF @ + n > MaxPoints THEN MaxPoints ELSE @ + n]
  /\ UNCHANGED redo
  /\ Relay(LAMBDA s : Longer(s, id, n))

\* The drawer's latest stroke, which in Relay need not be the board's.
Undo(u) ==
  /\ Draws(u)
  /\ \E i \in DOMAIN strokes :
       /\ strokes[i].by = u
       /\ \A j \in DOMAIN strokes : strokes[j].by = u => j <= i
       /\ strokes' = RemoveAt(strokes, i) /\ redo' = Append(redo, strokes[i])
       /\ Relay(LAMBDA s : WithoutId(s, strokes[i].id))

Redo(u) ==
  /\ Draws(u) /\ redo # << >>
  /\ strokes' = Append(strokes, Last(redo)) /\ redo' = Front(redo)
  /\ Relay(LAMBDA s : Append(s, Sent(Last(redo))))

Clear(u) ==
  /\ Draws(u)
  /\ strokes' = << >> /\ redo' = << >>
  /\ ClearScreens

-----------------------------------------------------------------------------
(* Coming and going                                                         *)

\* enterRoom and seat: the socket is in the channel before the snapshot goes out.
Enter(u) ==
  /\ ~closed /\ u \in seated \ channel
  /\ channel' = channel \cup {u} /\ waiting' = waiting \cup {u}
  /\ UNCHANGED <<roomVars, relay, boardVars, clearing, screen>>

SendSnapshot(u) ==
  /\ u \in waiting /\ waiting' = waiting \ {u}
  /\ screen' = [screen EXCEPT ![u] = Snapshot]
  /\ UNCHANGED <<roomVars, relay, boardVars, clearing, channel>>

\* The socket drops, leaves or is taken out; nobody looks at its canvas now.
Drop(u) ==
  /\ u \in channel
  /\ channel' = channel \ {u} /\ waiting' = waiting \ {u}
  /\ screen' = [screen EXCEPT ![u] = << >>]
  /\ UNCHANGED <<roomVars, relay, boardVars, clearing>>

Next ==
  \/ \E u \in Users :
       \/ TurnBegins(u) \/ TurnAnnounced(u)
       \/ \E id \in Ids : Begin(u, id) \/ \E n \in 1 .. MaxBatch : AppendPoints(u, id, n)
       \/ Undo(u) \/ Redo(u) \/ Clear(u)
       \/ Enter(u) \/ SendSnapshot(u) \/ Drop(u)
  \/ Paused \/ PauseTold \/ Finished \/ InLobby \/ RoomMoves

Spec == Init /\ [][Next]_vars

-----------------------------------------------------------------------------

\* A canvas shows a stroke: all its points, or more than a full stroke keeps.
Shows(seen, stroke) ==
  /\ seen.id = stroke.id
  /\ seen.len = stroke.len \/ (stroke.len = MaxPoints /\ seen.len > MaxPoints)

\* Every guesser sees the drawing the server keeps, stroke for stroke, although
\* a canvas hears of each change only once, is wiped by an event of its own and
\* may come in in the middle (begin, append, undo, redo, clear, the snapshot).
\* In Relay the canvases are wiped and the board is not; there what is left to
\* redo is at least the present drawer's.
BoardsAgree ==
  phase \in {"drawing", "scored"} /\ pen \notin untold =>
    IF relay THEN \A i \in DOMAIN redo : redo[i].by = pen
    ELSE \A u \in channel \ (waiting \cup {pen}) :
           /\ Len(screen[u]) = Len(strokes)
           /\ \A i \in DOMAIN strokes : Shows(screen[u][i], strokes[i])

\* Refuted, and in no run: "Relay keeps the picture: the next drawer adds to what
\* is already there" (beginTurn) for the players who watch, too.
RelayIsSeen ==
  relay /\ phase = "drawing" /\ pen \notin untold =>
    \A u \in channel \ (waiting \cup {pen}) : Len(screen[u]) = Len(strokes)

\* Refuted, and in no run: a batch that fills a stroke is relayed as it was
\* stored (append, CLIENT_DRAW_APPEND).
LinesAreWhole ==
  \A u \in channel : \A i \in DOMAIN screen[u] : screen[u][i].len <= MaxPoints
=============================================================================
