------------------------------ MODULE VoteKick ------------------------------
(***************************************************************************)
(* The vote to remove a player (moderation.service, voteKick): one poll in *)
(* a room, its voters, the number of votes it takes, and the timer that    *)
(* gives it up after its window.  The poll is a field of the room, so any  *)
(* departure touches it (room.service, removePlayer); the timer is one of  *)
(* the room's, so ending a match cancels it and leaves the poll standing.  *)
(* The turns themselves neither read nor change what a poll is made of,    *)
(* and are left out; so is the window's length.                            *)
(***************************************************************************)
EXTENDS Naturals, FiniteSets

CONSTANTS Users, Nobody, Prompt

VARIABLES phase, pen, live, dealt, untold, seated, closed,  \* RoomTurns
          host,     \* who cannot be voted out
          poll,     \* room.voteKick, or NoPoll
          lapsed,   \* the window of the poll is over
          clock     \* the target the voteKick timer was booked for, or Nobody

roomVars == <<phase, pen, live, dealt, untold, seated, closed>>
vars == <<phase, pen, live, dealt, untold, seated, closed,
          host, poll, lapsed, clock>>

Room == INSTANCE RoomTurns

NoPoll == [target |-> Nobody, voters |-> {}, threshold |-> 0]

Larger(a, b) == IF a > b THEN a ELSE b

\* Half of the others, rounded up, but never one vote alone.
Threshold == Larger(2, Cardinality(seated) \div 2)

OwnInit == poll = NoPoll /\ lapsed = FALSE /\ clock = Nobody
Init == Room!Init /\ host \in seated /\ OwnInit

\* A poll that ran out, or whose target has gone, is no poll.
Stale == lapsed \/ poll.target \notin seated

\* The poll a vote against t is counted in: the one open, or a new one.
PollFor(t) ==
  IF poll = NoPoll \/ Stale
  THEN [target |-> t, voters |-> {}, threshold |-> Threshold]
  ELSE poll

\* Mutant: the poll keeps the votes of those who left.
Without_VotesKept(p, u) == IF p.target = u THEN NoPoll ELSE p

\* What removePlayer leaves of a poll.
Without(p, u) ==
  IF p.target = u THEN NoPoll ELSE [p EXCEPT !.voters = @ \ {u}]

\* voteKick: opens a poll or joins the one against t, then counts.
Vote(u, t) ==
  /\ ~closed
  /\ {u, t} \subseteq seated /\ u # t /\ t # host
  /\ PollFor(t).target = t
  /\ LET p == [PollFor(t) EXCEPT !.voters = @ \cup {u}] IN
     IF Cardinality(p.voters) >= p.threshold
     THEN /\ Room!Go(t) /\ UNCHANGED host
          /\ poll' = NoPoll /\ lapsed' = FALSE /\ clock' = Nobody
     ELSE /\ UNCHANGED <<roomVars, host>>
          /\ poll' = p
          /\ IF PollFor(t) = poll THEN UNCHANGED <<lapsed, clock>>
             ELSE lapsed' = FALSE /\ clock' = t

\* Thirty seconds after the poll was opened.
WindowCloses ==
  /\ poll # NoPoll /\ ~lapsed /\ lapsed' = TRUE
  /\ UNCHANGED <<roomVars, host, poll, clock>>

\* The timer looks whether the poll is still about whom it was booked for.
ClockFires ==
  /\ clock # Nobody /\ (poll # NoPoll => lapsed)
  /\ poll' = IF poll.target = clock THEN NoPoll ELSE poll
  /\ lapsed' = (lapsed /\ poll' # NoPoll) /\ clock' = Nobody
  /\ UNCHANGED <<roomVars, host>>

\* Any other departure; the room is handed on if it was the host's.
Departs(u) ==
  /\ Room!Go(u)
  /\ IF host = u /\ seated # {u} THEN host' \in seated' ELSE UNCHANGED host
  /\ poll' = Without(poll, u)
  /\ lapsed' = (lapsed /\ poll' # NoPoll)
  /\ UNCHANGED clock

\* endGame cancels every timer of the room; a pause and the return to the lobby
\* leave this one alone.
GoesQuiet ==
  /\ Room!Quiet
  /\ clock' \in {clock, Nobody}
  /\ UNCHANGED <<host, poll, lapsed>>

CloseRoom == Room!Close /\ clock' = Nobody /\ UNCHANGED <<host, poll, lapsed>>

PersonComes(u) == Room!Come(u) /\ UNCHANGED <<host, poll, lapsed, clock>>

TransferHost(u) ==
  /\ ~closed /\ u \in seated /\ host' = u
  /\ UNCHANGED <<roomVars, poll, lapsed, clock>>

Next ==
  \/ \E u \in Users : \/ PersonComes(u) \/ Departs(u) \/ TransferHost(u)
                      \/ \E t \in Users : Vote(u, t)
  \/ WindowCloses \/ ClockFires \/ GoesQuiet \/ CloseRoom

Spec == Init /\ [][Next]_vars

-----------------------------------------------------------------------------

\* A poll is about somebody seated, counts the votes of people who are seated and
\* not the target's own, is still open, and takes at least two votes: whoever
\* leaves takes the vote along, so that nobody is removed by the votes of people
\* who have gone, nor at once by a poll that outlived its target's seat
\* (removePlayer, voteKick).
PollStands ==
  poll # NoPoll =>
    /\ poll.target \in seated
    /\ poll.voters \subseteq seated \ {poll.target}
    /\ poll.threshold >= 2 /\ Cardinality(poll.voters) < poll.threshold

\* Refuted in a room of five, and in no run: "the threshold is a majority of
\* everybody except the target, so a player cannot be removed by a minority"
\* (voteKick's comment).  Half of them is enough, and whoever comes in while the
\* poll is open does not raise it.
MajorityRemoves ==
  [][\A t \in seated \ seated' :
       poll.target = t /\ clock = t /\ clock' = Nobody =>
         2 * (Cardinality(poll.voters) + 1) > Cardinality(seated) - 1]_vars
=============================================================================
