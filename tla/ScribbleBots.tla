---------------------------- MODULE ScribbleBots ----------------------------
(***************************************************************************)
(* The Stupids of a drawing room at work (bot/botPlayer.service).  Each    *)
(* has at most one registered task: it picks a word, draws, or guesses.    *)
(* The tasks are brought into line with the room at every broadcast, and   *)
(* each looks at the room again when its timer fires.                      *)
(*                                                                         *)
(* A guess waits twice, for the words to choose from and for the verdict.  *)
(* Cancelling a task does not recall an attempt under way, and what such   *)
(* an attempt does at the end, when it fails or turns out right, is to     *)
(* cancel whatever task its seat has by then.                              *)
(***************************************************************************)
EXTENDS Naturals

CONSTANTS Users, Nobody, Prompt,
          Bots,      \* the seats that are Stupids
          MaxTries,  \* BOT_LIMITS.maxGuessAttemptsPerTurn
          MaxTurns   \* bound: rounds installed

VARIABLES phase, pen, live, dealt, untold, seated, closed,  \* RoomTurns
          turn,       \* which round is installed: room.round's identity
          guessed,    \* Stupids whose seat has hasGuessed set
          task,       \* the room's entry for each Stupid
          late,       \* Stupids with an attempt of a cancelled task under way
          sessions,   \* pictures started, as the bot and its turn
          pictures,   \* history: pictures each has started this turn, up to 2
          tired       \* history: Stupids that used up their tries this turn

roomVars == <<phase, pen, live, dealt, untold, seated, closed>>
workVars == <<task, late, sessions, pictures, tired>>
vars == <<phase, pen, live, dealt, untold, seated, closed,
          turn, guessed, task, late, sessions, pictures, tired>>

Room == INSTANCE RoomTurns

NoTask == [kind |-> "none", turn |-> 0, at |-> "idle", tries |-> 0]
New(kind) == [kind |-> kind, turn |-> turn, at |-> "timer", tries |-> 0]
UnderWay == {"pool", "verdict"}

OwnInit ==
  /\ turn = 0 /\ guessed = {}
  /\ task = [b \in Bots |-> NoTask] /\ late = {} /\ sessions = {}
  /\ pictures = [b \in Bots |-> 0] /\ tired = {}

Init == Room!Init /\ OwnInit

-----------------------------------------------------------------------------
(* Reconciliation                                                           *)

\* The tasks become t; attempts under way of those that are gone stay so.
Become(t) ==
  /\ task' = t
  /\ late' = late \cup {b \in Bots : task[b].at \in UnderWay /\
                                     <<t[b].kind, t[b].turn>> # <<task[b].kind, task[b].turn>>}

\* clearRoom
ClearRoom ==
  /\ Become([b \in Bots |-> NoTask])
  /\ sessions' = {}
  /\ UNCHANGED <<pictures, tired>>

Busy(b, kind) == task[b].kind = kind /\ task[b].turn = turn

\* Mutant: only a picture being drawn counts as started.
Started_WhileBusy(b) == Busy(b, "drawing")

Started(b) == Busy(b, "drawing") \/ <<b, turn>> \in sessions

\* claim: the old task goes, and a new one comes unless the process has as many
\* workers as it may have, or knows no picture of the word.
Claim(b, kind) == {NoTask, New(kind)}

\* What a broadcast of the phase may leave a seated Stupid with.
Work(b) ==
  CASE phase = "choosing" /\ b = pen ->
         IF Busy(b, "selecting") THEN {task[b]} ELSE Claim(b, "selecting")
    [] phase = "drawing" /\ b = pen ->
         IF Started(b) THEN {task[b]} ELSE Claim(b, "drawing")
    [] phase = "drawing" /\ b # pen /\ b \in guessed -> {NoTask}
    [] phase = "drawing" /\ b # pen /\ b \notin guessed ->
         IF Busy(b, "guessing") THEN {task[b]} ELSE Claim(b, "guessing")
    [] OTHER -> {task[b]}

GetToWork ==
  \E t \in [Bots -> {NoTask} \cup {task[b] : b \in Bots} \cup
                    {New(k) : k \in {"selecting", "drawing", "guessing"}}] :
    LET begun == {b \in Bots : t[b] # task[b] /\ t[b].kind = "drawing"} IN
    /\ \A b \in Bots : t[b] \in IF b \in seated THEN Work(b) ELSE {task[b]}
    /\ Become(t)
    /\ sessions' = sessions \cup (begun \X {turn})
    /\ pictures' = [b \in Bots |->
                      IF b \in begun /\ pictures[b] < 2 THEN pictures[b] + 1 ELSE pictures[b]]
    /\ UNCHANGED tired

\* reconcile.  A quiet room is cleared when it is paused or has no live round.
Reconcile ==
  \/ closed /\ ClearRoom
  \/ ~closed /\ Bots \cap seated = {} /\ UNCHANGED workVars
  \/ ~closed /\ Bots \cap seated # {} /\ (~live \/ phase = "quiet") /\ ClearRoom
  \/ ~closed /\ Bots \cap seated # {} /\ live /\ GetToWork

TurnAnnounced(u) == Room!Offer(u) /\ Reconcile /\ UNCHANGED <<turn, guessed>>
Broadcast == Reconcile /\ UNCHANGED <<roomVars, turn, guessed>>

-----------------------------------------------------------------------------
(* The room                                                                 *)

TurnBegins(u) == Room!Deal(u) /\ guessed' = {} /\ UNCHANGED <<turn, workVars>>

RoundInstalled(u) ==
  /\ turn < MaxTurns
  /\ Room!Install(u)
  /\ turn' = turn + 1
  /\ pictures' = [b \in Bots |-> 0] /\ tired' = {}
  /\ UNCHANGED <<guessed, task, late, sessions>>

\* Finishing a match leaves the flags; a pause and the lobby reset them.
GoesQuiet == Room!Quiet /\ guessed' \in {{}, guessed} /\ UNCHANGED <<turn, workVars>>

\* endGame clears the room once more when everything is recorded.
MatchOver == phase = "quiet" /\ ClearRoom /\ UNCHANGED <<roomVars, turn, guessed>>

Departs(u) == Room!Go(u) /\ guessed' = guessed \ {u} /\ UNCHANGED <<turn, workVars>>

RoomMoves ==
  /\ \/ Room!Choose \/ Room!Score \/ Room!Close
     \/ \E u \in Users : Room!Come(u)
  /\ UNCHANGED <<turn, guessed, workVars>>

-----------------------------------------------------------------------------
(* The tasks                                                                *)

ThisTurn(b) == live /\ task[b].turn = turn

\* The task is over, and no attempt of it is left behind.
Stop(b) ==
  /\ task' = [task EXCEPT ![b] = NoTask]
  /\ UNCHANGED <<late, sessions, pictures>>

Goes(b, at) ==
  /\ task' = [task EXCEPT ![b].at = at]
  /\ UNCHANGED <<late, sessions, pictures, tired>>

\* The beat before the choice is over; the task stays registered.
PickWord(b) ==
  /\ task[b].kind = "selecting" /\ task[b].at = "timer"
  /\ Goes(b, "idle")
  /\ IF ThisTurn(b) /\ phase = "choosing" /\ ~closed THEN Room!Choose ELSE UNCHANGED roomVars
  /\ UNCHANGED <<turn, guessed>>

\* The last stroke is out, or the turn the picture belongs to is over.
PictureEnds(b) ==
  /\ task[b].kind = "drawing" /\ Stop(b)
  /\ UNCHANGED <<roomVars, turn, guessed, tired>>

MayGuess(b) ==
  ThisTurn(b) /\ phase = "drawing" /\ b \in seated /\ b \notin guessed /\ pen # b

\* attemptGuess up to the words.
AttemptGuess(b) ==
  /\ task[b].kind = "guessing" /\ task[b].at = "timer"
  /\ IF MayGuess(b) /\ task[b].tries < MaxTries
     THEN /\ task' = [task EXCEPT ![b].at = "pool", ![b].tries = @ + 1]
          /\ UNCHANGED <<late, sessions, pictures, tired>>
     ELSE /\ Stop(b)
          /\ tired' = IF MayGuess(b) THEN tired \cup {b} ELSE tired
  /\ UNCHANGED <<roomVars, turn, guessed>>

\* The words are there: nothing to say, a wrong guess, or the right one.  In a
\* turn that is over the attempt ends here and books no other.
WordsAnswer(b) ==
  /\ task[b].at = "pool"
  /\ \/ ~ThisTurn(b) /\ Goes(b, "idle") /\ UNCHANGED guessed
     \/ ThisTurn(b) /\ Goes(b, "timer") /\ UNCHANGED guessed
     \/ MayGuess(b) /\ Goes(b, "verdict") /\ guessed' \in {guessed, guessed \cup {b}}
  /\ UNCHANGED <<roomVars, turn>>

\* The verdict is in; a right one ends the task.
VerdictAnswers(b) ==
  /\ task[b].at = "verdict"
  /\ \/ b \in guessed /\ Stop(b) /\ UNCHANGED tired
     \/ b \notin guessed /\ Goes(b, "timer")
  /\ UNCHANGED <<roomVars, turn, guessed>>

\* Either wait may fail.
AttemptFails(b) ==
  /\ task[b].at \in UnderWay /\ Stop(b)
  /\ UNCHANGED <<roomVars, turn, guessed, tired>>

\* An attempt of a cancelled task comes to its end.
LateAnswer(b) ==
  /\ b \in late
  /\ \/ late' \in {late, late \ {b}} /\ UNCHANGED task
     \/ /\ task' = [task EXCEPT ![b] = NoTask]
        /\ late' \in IF task[b].at \in UnderWay THEN {late} ELSE {late, late \ {b}}
  /\ UNCHANGED <<roomVars, turn, guessed, sessions, pictures, tired>>

Next ==
  \/ \E u \in Users : TurnBegins(u) \/ RoundInstalled(u) \/ TurnAnnounced(u) \/ Departs(u)
  \/ Broadcast \/ GoesQuiet \/ MatchOver \/ RoomMoves
  \/ \E b \in Bots :
       \/ PickWord(b) \/ PictureEnds(b) \/ AttemptGuess(b) \/ WordsAnswer(b)
       \/ VerdictAnswers(b) \/ AttemptFails(b) \/ LateAnswer(b)

Spec == Init /\ [][Next]_vars

-----------------------------------------------------------------------------

\* A Stupid draws its turn's picture once, although its finished or cancelled
\* task looks at the next broadcast as if it had never been (startedSessions).
OnePicture == \A b \in Bots : pictures[b] <= 1

\* Refuted, and in no run: "the most guesses one bot may make in one turn" is
\* maxGuessAttemptsPerTurn.  The task that gave up is gone, and the next
\* broadcast starts another.
TriesBounded == \A b \in tired : ~(live /\ Busy(b, "guessing"))

\* Refuted by a verdict that is one turn late, and in no run: an attempt of a
\* turn that is over changes nothing in the next.
LateIsIgnored == [][\A b \in Bots : b \in late /\ b \notin late' => UNCHANGED task]_vars
=============================================================================
