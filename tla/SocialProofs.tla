----------------------------- MODULE SocialProofs -----------------------------
(***************************************************************************)
(* What the two filters of the store buy, for any number of users, rows    *)
(* and overlapping calls: an answer is final, and every friendship was     *)
(* asked for and accepted.                                                 *)
(***************************************************************************)
EXTENDS Social, TLAPS

Ids == Requests \cup Rooms \cup Invitations \cup {NoId}
Party == Users \cup {NoId}
Statuses == {"absent", "pending", "accepted", "rejected", "cancelled"}
Labels == {"idle", "send", "send.friends", "send.pending", "send.insert",
           "accept", "accept.block", "accept.revoke", "accept.resolve", "accept.befriend",
           "reject", "reject.resolve", "cancel", "cancel.resolve",
           "block", "block.cancel", "block.unfriend", "block.uninvite",
           "invite", "invite.block", "invite.friends", "invite.pending", "invite.retire",
           "invite.insert",
           "join", "join.hydrate", "join.block", "join.vacated", "join.expire",
           "join.resolve", "join.seat", "decline", "decline.resolve", "close"}
Rows == [status : Statuses, by : Party, to : Party]
CallRecords == [at : Labels, by : Party, to : Party, id : Ids]

Typing ==
    /\ request \in [Requests -> Rows]
    /\ friends \in [Pairs -> Requests \cup {NoId}]
    /\ calls \in [Calls -> CallRecords]

\* A request that was ever sent is between two different users.
Sent(row) == row.by \in Users /\ row.to \in Users /\ row.by # row.to

Sending == {"send", "send.friends", "send.pending", "send.insert"}
Checked == {"accept.block", "accept.revoke", "accept.resolve", "accept.befriend"}

\* What a call of sendRequest or accept has established where it stands.
Established(k, rows) ==
    /\ k.at \in Sending => Sent(k)
    /\ k.at \in Checked \cup {"accept"} => k.id \in Requests /\ rows[k.id].status # "absent"
    /\ k.at \in Checked => rows[k.id].to = k.by
    /\ k.at = "accept.befriend" => rows[k.id].status = "accepted"

AllSent == \A q \in Requests : request[q].status # "absent" => Sent(request[q])
AllEstablished == \A c \in Calls : Established(calls[c], request)

IInv == Typing /\ AllSent /\ AllEstablished /\ FriendsAgreed

\* A step leaves the parties of a request as they are, and its answer.
Kept ==
    \A q \in Requests : request[q].status # "absent" =>
        /\ request'[q].by = request[q].by
        /\ request'[q].to = request[q].to
        /\ request'[q].status # "absent"
        /\ request[q].status # "pending" => request'[q] = request[q]

\* A step moves one call at most.
Moves(c) ==
    /\ calls' \in [Calls -> CallRecords]
    /\ \A d \in Calls \ {c} : calls'[d] = calls[d]

----------------------------------------------------------------------------

\* Where a call can be after GoTo.
LEMMA GoToMoves ==
    ASSUME Typing, NEW c \in Calls, NEW STATE label, label \in Labels, GoTo(c, label)
    PROVE  /\ Moves(c)
           /\ label = "idle" => calls'[c] = NoCall
           /\ label # "idle" => calls'[c] = [calls[c] EXCEPT !.at = label]
<1>1. NoCall \in CallRecords /\ [calls[c] EXCEPT !.at = label] \in CallRecords
  BY DEF Typing, NoCall, CallRecords, Party, Ids, Labels
<1> QED BY <1>1 DEF Typing, GoTo, Moves

\* What a call has established outlives every step that keeps the rows.
LEMMA EstablishedKept ==
    ASSUME Kept, NEW k, Established(k, request)
    PROVE  Established(k, request')
BY DEF Established, Kept, Sending, Checked

\* The invariant survives a step that keeps the rows, sends between two
\* users, moves one call to where it may stand, and befriends by agreement.
LEMMA StepKeeps ==
    ASSUME IInv, Kept, request' \in [Requests -> Rows],
           \A q \in Requests : request[q].status = "absent" =>
               (request'[q].status # "absent" => Sent(request'[q])),
           friends' \in [Pairs -> Requests \cup {NoId}],
           \A p \in Pairs : friends'[p] \notin {NoId, friends[p]} =>
               /\ request'[friends'[p]].status = "accepted"
               /\ {request'[friends'[p]].by, request'[friends'[p]].to} = p,
           NEW c \in Calls, Moves(c), Established(calls'[c], request')
    PROVE  IInv'
<1>1. Typing'
  BY DEF IInv, Typing, Moves
<1>2. AllSent'
  BY DEF IInv, AllSent, Kept, Sent
<1>3. AllEstablished'
  <2> SUFFICES ASSUME NEW d \in Calls PROVE Established(calls'[d], request')
    BY DEF AllEstablished
  <2>1. CASE d = c
    BY <2>1
  <2>2. CASE d # c
    <3>1. calls'[d] = calls[d] /\ Established(calls[d], request)
      BY <2>2 DEF Moves, IInv, AllEstablished
    <3> QED BY <3>1, EstablishedKept
  <2> QED BY <2>1, <2>2
<1>4. FriendsAgreed'
  <2> SUFFICES ASSUME NEW p \in Pairs, friends'[p] # NoId
               PROVE  /\ request'[friends'[p]].status = "accepted"
                      /\ {request'[friends'[p]].by, request'[friends'[p]].to} = p
    BY DEF FriendsAgreed
  <2>1. CASE friends'[p] # friends[p]
    BY <2>1
  <2>2. CASE friends'[p] = friends[p]
    <3>1. friends[p] \in Requests /\ friends[p] # NoId
      BY <2>2 DEF IInv, Typing
    <3>2. request[friends[p]].status = "accepted"
          /\ {request[friends[p]].by, request[friends[p]].to} = p
      BY <3>1 DEF IInv, FriendsAgreed
    <3>3. request'[friends[p]] = request[friends[p]]
      BY <3>1, <3>2 DEF Kept
    <3> QED BY <2>2, <3>2, <3>3
  <2> QED BY <2>1, <2>2
<1> QED BY <1>1, <1>2, <1>3, <1>4 DEF IInv

\* The invariant survives a step that touches neither requests nor friendships.
LEMMA CallStepKeeps ==
    ASSUME IInv, UNCHANGED <<request, friends>>,
           NEW c \in Calls, Moves(c), Established(calls'[c], request)
    PROVE  IInv'
<1>1. Kept BY DEF Kept
<1>2. request' \in [Requests -> Rows] /\ friends' \in [Pairs -> Requests \cup {NoId}]
  BY DEF IInv, Typing
<1>3. Established(calls'[c], request') OBVIOUS
<1> QED BY <1>1, <1>2, <1>3, StepKeeps

\* A finished call has nothing to establish.
LEMMA NoCallEstablished == \A rows : Established(NoCall, rows)
BY DEF Established, NoCall, Sending, Checked

\* A query that refuses the call or lets it go on.
LEMMA AskKeeps ==
    ASSUME IInv, NEW c \in Calls, NEW STATE label, NEW STATE refused, NEW STATE next,
           next \in Labels, Ask(c, label, refused, next),
           ~refused => Established([calls[c] EXCEPT !.at = next], request)
    PROVE  IInv'
<1> DEFINE to == IF refused THEN "idle" ELSE next
<1>1. GoTo(c, to) /\ to \in Labels /\ UNCHANGED <<request, friends>> /\ Typing
  BY DEF Ask, IInv, Labels
<1>2. Moves(c) /\ (calls'[c] = NoCall \/ (~refused /\ calls'[c] = [calls[c] EXCEPT !.at = next]))
  <2> HIDE DEF to
  <2>1. /\ Moves(c)
        /\ to = "idle" => calls'[c] = NoCall
        /\ to # "idle" => calls'[c] = [calls[c] EXCEPT !.at = to]
    BY <1>1, GoToMoves
  <2>2. CASE refused BY <2>1, <2>2 DEF to
  <2>3. CASE ~refused BY <2>1, <2>3 DEF to
  <2> QED BY <2>2, <2>3
<1>3. Established(calls'[c], request)
  BY <1>2, NoCallEstablished
<1> QED BY <1>1, <1>2, <1>3, CallStepKeeps

\* Moving to a label of an operation that establishes nothing.
LEMMA Unclaimed ==
    ASSUME NEW k, k.at \notin Sending \cup Checked \cup {"accept"}
    PROVE  Established(k, request)
BY DEF Established, Sending, Checked

----------------------------------------------------------------------------
(* One lemma per operation *)

LEMMA AsksKeeps == ASSUME IInv, NEW c \in Calls, Asks(c) PROVE IInv'
<1>1. PICK u \in Users, v \in Users :
        /\ u # v
        /\ \/ \E label \in {"send", "block"} :
                Begin(c, [at |-> label, by |-> u, to |-> v, id |-> NoId])
           \/ \E q \in Requests, label \in {"accept", "reject", "cancel"} :
                /\ request[q].status # "absent"
                /\ Begin(c, [at |-> label, by |-> u, to |-> NoId, id |-> q])
           \/ \E r \in Rooms : Begin(c, [at |-> "invite", by |-> u, to |-> v, id |-> r])
           \/ \E i \in Invitations, label \in {"join", "decline"} :
                Begin(c, [at |-> label, by |-> u, to |-> NoId, id |-> i])
  BY DEF Asks
<1>2. PICK call \in CallRecords : Begin(c, call) /\ Established(call, request)
  <2>1. CASE \E label \in {"send", "block"} :
               Begin(c, [at |-> label, by |-> u, to |-> v, id |-> NoId])
    BY <1>1, <2>1 DEF CallRecords, Labels, Party, Ids, Established, Sending, Checked, Sent
  <2>2. CASE \E q \in Requests, label \in {"accept", "reject", "cancel"} :
               /\ request[q].status # "absent"
               /\ Begin(c, [at |-> label, by |-> u, to |-> NoId, id |-> q])
    BY <1>1, <2>2 DEF CallRecords, Labels, Party, Ids, Established, Sending, Checked
  <2>3. CASE \E r \in Rooms : Begin(c, [at |-> "invite", by |-> u, to |-> v, id |-> r])
    BY <1>1, <2>3 DEF CallRecords, Labels, Party, Ids, Established, Sending, Checked
  <2>4. CASE \E i \in Invitations, label \in {"join", "decline"} :
               Begin(c, [at |-> label, by |-> u, to |-> NoId, id |-> i])
    BY <1>1, <2>4 DEF CallRecords, Labels, Party, Ids, Established, Sending, Checked
  <2> QED BY <1>1, <2>1, <2>2, <2>3, <2>4
<1>3. Moves(c) /\ calls'[c] = call
  BY <1>2 DEF Begin, Moves, IInv, Typing
<1>4. UNCHANGED <<request, friends>>
  BY DEF Asks
<1> QED BY <1>2, <1>3, <1>4, CallStepKeeps

\* A call that ends.
LEMMA EndMoves ==
    ASSUME IInv, NEW c \in Calls, GoTo(c, "idle")
    PROVE  Moves(c) /\ \A rows : Established(calls'[c], rows)
<1>1. Typing /\ "idle" \in Labels BY DEF IInv, Labels
<1>2. Moves(c) /\ calls'[c] = NoCall BY <1>1, GoToMoves
<1> QED BY <1>2, NoCallEstablished

\* resolve moves a row out of pending, or nothing.
LEMMA ResolveKeeps ==
    ASSUME Typing, NEW q \in Requests, NEW status \in Statuses \ {"absent"},
           ResolveRequest(q, status)
    PROVE  /\ Kept /\ request' \in [Requests -> Rows]
           /\ \A r \in Requests : request[r].status = "absent" => request'[r] = request[r]
           /\ Open(request[q]) => /\ request'[q].status = status
                                 /\ request'[q].to = request[q].to
<1>1. CASE Open(request[q])
  <2>1. [request[q] EXCEPT !.status = status] \in Rows
    BY DEF Typing, Rows
  <2>2. request' = [request EXCEPT ![q] = [request[q] EXCEPT !.status = status]]
    BY <1>1 DEF ResolveRequest
  <2>3. request'[q] = [request[q] EXCEPT !.status = status]
        /\ \A r \in Requests \ {q} : request'[r] = request[r]
    BY <2>2 DEF Typing
  <2>4. request[q].status = "pending"
    BY <1>1 DEF Open
  <2>5. request' \in [Requests -> Rows]
    BY <2>1, <2>2 DEF Typing
  <2>6. /\ request'[q].status = status /\ request'[q].by = request[q].by
        /\ request'[q].to = request[q].to
    BY <2>3 DEF Typing, Rows
  <2>7. Kept
    <3> SUFFICES ASSUME NEW r \in Requests, request[r].status # "absent"
                 PROVE  /\ request'[r].by = request[r].by
                        /\ request'[r].to = request[r].to
                        /\ request'[r].status # "absent"
                        /\ request[r].status # "pending" => request'[r] = request[r]
      BY DEF Kept
    <3>1. CASE r = q
      BY <2>4, <2>6, <3>1
    <3>2. CASE r # q
      BY <2>3, <3>2
    <3> QED BY <3>1, <3>2
  <2>8. \A r \in Requests : request[r].status = "absent" => request'[r] = request[r]
    BY <2>3, <2>4
  <2> QED BY <2>5, <2>6, <2>7, <2>8
<1>2. CASE ~Open(request[q])
  BY <1>2 DEF ResolveRequest, Kept, Typing
<1> QED BY <1>1, <1>2

LEMMA SendRequestKeeps == ASSUME IInv, NEW c \in Calls, SendRequest(c) PROVE IInv'
<1> DEFINE s == calls[c].by
           r == calls[c].to
<1>1. Established(calls[c], request) /\ Typing /\ calls[c] \in CallRecords
  BY DEF IInv, AllEstablished, Typing
<1>2. CASE Ask(c, "send", Blocked(s, r), "send.friends")
  <2>1. Established([calls[c] EXCEPT !.at = "send.friends"], request)
    BY <1>1, <1>2 DEF Established, Sending, Checked, Sent, Ask, At, CallRecords
  <2> QED BY <1>2, <2>1, AskKeeps DEF Labels
<1>3. CASE Ask(c, "send.friends", AreFriends(s, r), "send.pending")
  <2>1. Established([calls[c] EXCEPT !.at = "send.pending"], request)
    BY <1>1, <1>3 DEF Established, Sending, Checked, Sent, Ask, At, CallRecords
  <2> QED BY <1>3, <2>1, AskKeeps DEF Labels
<1>4. CASE Ask(c, "send.pending", PendingBetween(s, r) # {}, "send.insert")
  <2>1. Established([calls[c] EXCEPT !.at = "send.insert"], request)
    BY <1>1, <1>4 DEF Established, Sending, Checked, Sent, Ask, At, CallRecords
  <2> QED BY <1>4, <2>1, AskKeeps DEF Labels
<1>5. CASE /\ At(c, "send.insert")
           /\ GoTo(c, "idle")
           /\ UNCHANGED <<request, friends>>
  BY <1>5, EndMoves, CallStepKeeps
<1>6. CASE /\ At(c, "send.insert")
           /\ GoTo(c, "idle")
           /\ UNCHANGED friends
           /\ \E q \in Requests :
                 /\ request[q] = NoRequest
                 /\ request' = [request EXCEPT ![q] =
                                   [status |-> "pending", by |-> s, to |-> r]]
  <2> DEFINE row == [status |-> "pending", by |-> s, to |-> r]
  <2>1. Sent(calls[c])
    BY <1>1, <1>6 DEF Established, Sending, At
  <2>2. row \in Rows /\ Sent(row)
    BY <2>1 DEF Sent, Rows, Statuses, Party
  <2>3. PICK q \in Requests : request[q] = NoRequest /\ request' = [request EXCEPT ![q] = row]
    BY <1>6
  <2>4. request'[q] = row /\ \A p \in Requests \ {q} : request'[p] = request[p]
    BY <1>1, <2>3 DEF Typing
  <2>5. request' \in [Requests -> Rows]
    BY <1>1, <2>2, <2>3 DEF Typing
  <2>6. Kept
    <3>1. request[q].status = "absent"
      BY <2>3 DEF NoRequest
    <3> QED BY <2>4, <3>1 DEF Kept
  <2>7. \A p \in Requests : request[p].status = "absent" =>
          (request'[p].status # "absent" => Sent(request'[p]))
    BY <2>2, <2>4
  <2>8. Moves(c) /\ Established(calls'[c], request')
    BY <1>6, EndMoves
  <2> QED BY <1>1, <1>6, <2>5, <2>6, <2>7, <2>8, StepKeeps DEF Typing
<1> QED BY <1>2, <1>3, <1>4, <1>5, <1>6 DEF SendRequest

\* A step that resolves one request, moves one call and befriends nobody.
LEMMA ResolveStepKeeps ==
    ASSUME IInv, NEW q \in Requests, NEW status \in Statuses \ {"absent"},
           ResolveRequest(q, status), UNCHANGED friends,
           NEW c \in Calls, Moves(c), Established(calls'[c], request')
    PROVE  IInv'
<1>1. /\ Kept /\ request' \in [Requests -> Rows]
      /\ \A r \in Requests : request[r].status = "absent" => request'[r] = request[r]
  BY ResolveKeeps DEF IInv
<1>2. friends' \in [Pairs -> Requests \cup {NoId}]
  BY DEF IInv, Typing
<1> QED BY <1>1, <1>2, StepKeeps

LEMMA AcceptKeeps == ASSUME IInv, NEW c \in Calls, Accept(c) PROVE IInv'
<1> DEFINE q == calls[c].id
           u == calls[c].by
<1>1. Established(calls[c], request) /\ Typing /\ calls[c] \in CallRecords
  BY DEF IInv, AllEstablished, Typing
<1>2. CASE Ask(c, "accept", ~Open(request[q]) \/ request[q].to # u, "accept.block")
  <2>1. ~(~Open(request[q]) \/ request[q].to # u) =>
          Established([calls[c] EXCEPT !.at = "accept.block"], request)
    BY <1>1, <1>2 DEF Established, Sending, Checked, Ask, At, CallRecords
  <2> QED BY <1>2, <2>1, AskKeeps DEF Labels
<1>3. CASE Ask(c, "accept.block", FALSE,
               IF Blocked(u, request[q].by) THEN "accept.revoke" ELSE "accept.resolve")
  <2> DEFINE next == IF Blocked(u, request[q].by) THEN "accept.revoke" ELSE "accept.resolve"
  <2>1. next \in {"accept.revoke", "accept.resolve"}
    OBVIOUS
  <2> HIDE DEF next
  <2>2. Established([calls[c] EXCEPT !.at = next], request)
    BY <1>1, <1>3, <2>1 DEF Established, Sending, Checked, Ask, At, CallRecords
  <2>3. Ask(c, "accept.block", FALSE, next) /\ next \in Labels
    BY <1>3, <2>1 DEF next, Labels
  <2> QED BY <2>2, <2>3, AskKeeps
<1>4. CASE /\ At(c, "accept.revoke")
           /\ ResolveRequest(q, "cancelled")
           /\ GoTo(c, "idle")
           /\ UNCHANGED friends
  <2>1. q \in Requests
    BY <1>1, <1>4 DEF Established, Checked, At
  <2> QED BY <1>4, <2>1, EndMoves, ResolveStepKeeps DEF Statuses
<1>5. CASE /\ At(c, "accept.resolve")
           /\ ResolveRequest(q, "accepted")
           /\ GoTo(c, IF Moved(request[q]) THEN "accept.befriend" ELSE "idle")
           /\ UNCHANGED friends
  <2>1. q \in Requests /\ request[q].status # "absent" /\ request[q].to = u
    BY <1>1, <1>5 DEF Established, Checked, At
  <2>2. /\ Kept
        /\ Open(request[q]) => request'[q].status = "accepted" /\ request'[q].to = u
    BY <1>1, <1>5, <2>1, ResolveKeeps DEF Statuses
  <2>3. CASE Open(request[q])
    <3>1. GoTo(c, "accept.befriend")
      BY <1>5, <2>3 DEF Moved
    <3>2. Moves(c) /\ calls'[c] = [calls[c] EXCEPT !.at = "accept.befriend"]
      BY <1>1, <3>1, GoToMoves DEF Labels
    <3>3. Established(calls'[c], request')
      BY <1>1, <2>1, <2>2, <2>3, <3>2 DEF Established, Sending, Checked, CallRecords
    <3> QED BY <1>5, <2>1, <3>2, <3>3, ResolveStepKeeps DEF Statuses
  <2>4. CASE ~Open(request[q])
    <3>1. GoTo(c, "idle")
      BY <1>5, <2>4 DEF Moved
    <3> QED BY <1>5, <2>1, <3>1, EndMoves, ResolveStepKeeps DEF Statuses
  <2> QED BY <2>3, <2>4
<1>6. CASE /\ At(c, "accept.befriend")
           /\ friends' = [friends EXCEPT ![{u, request[q].by}] = IF @ = NoId THEN q ELSE @]
           /\ GoTo(c, "idle")
           /\ UNCHANGED request
  <2> DEFINE p == {u, request[q].by}
  <2>1. /\ q \in Requests /\ request[q].to = u /\ request[q].status = "accepted"
    BY <1>1, <1>6 DEF Established, Checked, At
  <2>2. Sent(request[q])
    BY <2>1 DEF IInv, AllSent
  <2>3. p \in Pairs
    BY <2>1, <2>2 DEF Sent, Pairs
  <2>4. friends' \in [Pairs -> Requests \cup {NoId}]
    BY <1>1, <1>6, <2>1 DEF Typing
  <2>5. \A r \in Pairs : friends'[r] \notin {NoId, friends[r]} => r = p /\ friends'[r] = q
    BY <1>1, <1>6, <2>3 DEF Typing
  <2>6. Kept /\ request' \in [Requests -> Rows]
    BY <1>1, <1>6 DEF Kept, Typing
  <2>7. Moves(c) /\ Established(calls'[c], request')
    BY <1>6, EndMoves
  <2>8. \A r \in Pairs : friends'[r] \notin {NoId, friends[r]} =>
           /\ request'[friends'[r]].status = "accepted"
           /\ {request'[friends'[r]].by, request'[friends'[r]].to} = r
    BY <1>6, <2>1, <2>5
  <2> QED BY <1>6, <2>4, <2>6, <2>7, <2>8, StepKeeps
<1> QED BY <1>2, <1>3, <1>4, <1>5, <1>6 DEF Accept

LEMMA CloseRequestKeeps == ASSUME IInv, NEW c \in Calls, CloseRequest(c) PROVE IInv'
<1> DEFINE q == calls[c].id
           u == calls[c].by
<1>1. Typing /\ calls[c] \in CallRecords
  BY DEF IInv, Typing
<1>2. CASE Ask(c, "reject", ~Open(request[q]) \/ request[q].to # u, "reject.resolve")
  <2>1. Established([calls[c] EXCEPT !.at = "reject.resolve"], request)
    BY <1>1, Unclaimed DEF CallRecords, Sending, Checked
  <2> QED BY <1>2, <2>1, AskKeeps DEF Labels
<1>3. CASE Ask(c, "cancel", ~Open(request[q]) \/ request[q].by # u, "cancel.resolve")
  <2>1. Established([calls[c] EXCEPT !.at = "cancel.resolve"], request)
    BY <1>1, Unclaimed DEF CallRecords, Sending, Checked
  <2> QED BY <1>3, <2>1, AskKeeps DEF Labels
<1>4. ASSUME NEW status \in {"rejected", "cancelled"}, ResolveRequest(q, status),
             GoTo(c, "idle"), UNCHANGED friends
      PROVE  IInv'
  <2>1. Moves(c) /\ \A rows : Established(calls'[c], rows)
    BY <1>4, EndMoves
  <2>2. CASE q \in Requests
    BY <1>4, <2>1, <2>2, ResolveStepKeeps DEF Statuses
  <2>3. CASE q \notin Requests
    <3>1. UNCHANGED request
      BY <1>1, <1>4, <2>3 DEF ResolveRequest, Typing
    <3> QED BY <1>4, <2>1, <3>1, CallStepKeeps
  <2> QED BY <2>2, <2>3
<1> QED BY <1>2, <1>3, <1>4 DEF CloseRequest

LEMMA BlockKeeps == ASSUME IInv, NEW c \in Calls, Block(c) PROVE IInv'
<1> DEFINE u == calls[c].by
           v == calls[c].to
<1>1. Typing /\ calls[c] \in CallRecords
  BY DEF IInv, Typing
<1>2. ASSUME NEW label \in {"idle", "block.cancel", "block.unfriend", "block.uninvite"},
             GoTo(c, label)
      PROVE  Moves(c) /\ \A rows : Established(calls'[c], rows)
  <2>1. /\ Moves(c)
        /\ calls'[c] \in {NoCall, [calls[c] EXCEPT !.at = label]}
    <3>1. label \in Labels
      BY DEF Labels
    <3> QED BY <1>1, <1>2, <3>1, GoToMoves
  <2>2. \A rows : Established([calls[c] EXCEPT !.at = label], rows)
    BY <1>1 DEF Established, CallRecords, Sending, Checked
  <2> QED BY <2>1, <2>2, NoCallEstablished
<1>3. CASE /\ GoTo(c, IF <<u, v>> \in blocks THEN "idle" ELSE "block.cancel")
           /\ UNCHANGED <<request, friends>>
  <2>1. GoTo(c, "idle") \/ GoTo(c, "block.cancel")
    BY <1>3
  <2> QED BY <1>2, <1>3, <2>1, CallStepKeeps
<1>4. CASE /\ request' = [q \in Requests |->
                 IF q \in PendingBetween(u, v) THEN [request[q] EXCEPT !.status = "cancelled"]
                 ELSE request[q]]
           /\ GoTo(c, "block.unfriend")
           /\ UNCHANGED friends
  <2>1. \A q \in Requests :
           \/ request'[q] = request[q]
           \/ /\ request[q].status = "pending"
              /\ request'[q] = [request[q] EXCEPT !.status = "cancelled"]
    BY <1>4 DEF PendingBetween
  <2>2. \A q \in Requests : request[q] \in Rows
    BY <1>1 DEF Typing
  <2>3. \A q \in Requests : request'[q] \in Rows
    BY <2>1, <2>2 DEF Rows, Statuses
  <2>4. request' \in [Requests -> Rows]
    BY <1>4, <2>3
  <2>5. Kept
    BY <2>1, <2>2 DEF Kept, Rows
  <2>6. \A q \in Requests : request[q].status = "absent" => request'[q] = request[q]
    BY <2>1
  <2> QED BY <1>1, <1>2, <1>4, <2>4, <2>5, <2>6, StepKeeps DEF Typing
<1>5. CASE /\ friends' = [friends EXCEPT ![{u, v}] = NoId]
           /\ GoTo(c, "block.uninvite")
           /\ UNCHANGED request
  <2>1. friends' \in [Pairs -> Requests \cup {NoId}]
        /\ \A p \in Pairs : friends'[p] \in {NoId, friends[p]}
    BY <1>1, <1>5 DEF Typing
  <2>2. Kept /\ request' \in [Requests -> Rows]
    BY <1>1, <1>5 DEF Kept, Typing
  <2> QED BY <1>2, <1>5, <2>1, <2>2, StepKeeps
<1>6. CASE GoTo(c, "idle") /\ UNCHANGED <<request, friends>>
  BY <1>2, <1>6, CallStepKeeps
<1> QED BY <1>3, <1>4, <1>5, <1>6 DEF Block

LEMMA RemoveFriendKeeps ==
    ASSUME IInv, NEW u \in Users, NEW v \in Users, RemoveFriend(u, v)
    PROVE  IInv'
<1>1. /\ friends' = [friends EXCEPT ![{u, v}] = NoId]
      /\ UNCHANGED <<request, calls>>
  BY DEF RemoveFriend
<1>2. /\ friends' \in [Pairs -> Requests \cup {NoId}]
      /\ \A p \in Pairs : friends'[p] \in {NoId, friends[p]}
  BY <1>1 DEF IInv, Typing
<1>3. Typing' /\ AllSent' /\ AllEstablished'
  BY <1>1, <1>2 DEF IInv, Typing, AllSent, AllEstablished, Established, Sent
<1>4. FriendsAgreed'
  BY <1>1, <1>2 DEF IInv, FriendsAgreed
<1> QED BY <1>3, <1>4 DEF IInv

\* What the invitations and the rooms do leaves requests and friendships alone.
LEMMA InvitationsKeep ==
    ASSUME IInv, NEW c \in Calls,
           Invite(c) \/ AcceptInvitation(c) \/ RejectInvitation(c) \/ ExpireForRoom(c)
    PROVE  IInv'
<1>1. Typing /\ calls[c] \in CallRecords
  BY DEF IInv, Typing
<1>2. UNCHANGED <<request, friends>>
  BY DEF Invite, AcceptInvitation, RejectInvitation, ExpireForRoom, Ask
<1> DEFINE Elsewhere == Labels \ (Sending \cup Checked \cup {"accept"})
<1>3. \E label \in Elsewhere : GoTo(c, label)
  <2>1. CASE Invite(c)
    BY <2>1 DEF Invite, Ask, Labels, Sending, Checked
  <2>2. CASE AcceptInvitation(c)
    BY <2>2 DEF AcceptInvitation, Ask, Labels, Sending, Checked
  <2>3. CASE RejectInvitation(c)
    BY <2>3 DEF RejectInvitation, Ask, Labels, Sending, Checked
  <2>4. CASE ExpireForRoom(c)
    BY <2>4 DEF ExpireForRoom, Labels, Sending, Checked
  <2> QED BY <2>1, <2>2, <2>3, <2>4
<1>4. PICK label \in Elsewhere : GoTo(c, label)
  BY <1>3
<1>5. Moves(c) /\ calls'[c] \in {NoCall, [calls[c] EXCEPT !.at = label]}
  BY <1>1, <1>4, GoToMoves
<1>6. Established([calls[c] EXCEPT !.at = label], request)
  <2>1. [calls[c] EXCEPT !.at = label].at \notin Sending \cup Checked \cup {"accept"}
    BY <1>1 DEF CallRecords
  <2> QED BY <2>1, Unclaimed
<1> QED BY <1>2, <1>5, <1>6, NoCallEstablished, CallStepKeeps

LEMMA LeaveRoomKeeps ==
    ASSUME IInv, NEW c \in Calls, NEW r \in Rooms, NEW u \in Users, LeaveRoom(c, r, u)
    PROVE  IInv'
<1>1. UNCHANGED <<request, friends>> /\ Typing
  BY DEF LeaveRoom, IInv
<1> DEFINE close == [NoCall EXCEPT !.at = "close", !.id = r]
<1>2. close \in CallRecords /\ Established(close, request)
  BY DEF NoCall, CallRecords, Labels, Party, Ids, Established, Sending, Checked
<1>3. CASE Begin(c, close)
  <2>1. Moves(c) /\ calls'[c] = close
    BY <1>1, <1>2, <1>3 DEF Begin, Moves, Typing
  <2> QED BY <1>1, <1>2, <2>1, CallStepKeeps
<1>4. CASE UNCHANGED calls
  <2>1. Moves(c) /\ Established(calls'[c], request)
    BY <1>1, <1>4 DEF Moves, IInv, Typing, AllEstablished
  <2> QED BY <1>1, <2>1, CallStepKeeps
<1> QED BY <1>3, <1>4 DEF LeaveRoom

\* Steps that touch none of the three.
LEMMA StutterKeeps == ASSUME IInv, UNCHANGED <<request, friends, calls>> PROVE IInv'
BY DEF IInv, Typing, AllSent, AllEstablished, Established, Sent, FriendsAgreed

LEMMA NextKeeps == ASSUME IInv, [Next]_vars PROVE IInv'
<1>1. ASSUME NEW c \in Calls,
             \/ Asks(c)
             \/ SendRequest(c) \/ Accept(c) \/ CloseRequest(c) \/ Block(c)
             \/ Invite(c) \/ AcceptInvitation(c) \/ RejectInvitation(c) \/ ExpireForRoom(c)
             \/ \E r \in Rooms, u \in Users : LeaveRoom(c, r, u)
      PROVE  IInv'
  BY <1>1, AsksKeeps, SendRequestKeeps, AcceptKeeps, CloseRequestKeeps, BlockKeeps,
     InvitationsKeep, LeaveRoomKeeps
<1>2. ASSUME NEW u \in Users, NEW v \in Users, RemoveFriend(u, v) \/ Unblock(u, v)
      PROVE  IInv'
  BY <1>2, RemoveFriendKeeps, StutterKeeps DEF Unblock
<1>3. ASSUME NEW i \in Invitations, Lapse(i) PROVE IInv'
  BY <1>3, StutterKeeps DEF Lapse
<1>4. CASE ExpireLapsed
  BY <1>4, StutterKeeps DEF ExpireLapsed
<1>5. ASSUME NEW r \in Rooms, StartOrEnd(r) PROVE IInv'
  BY <1>5, StutterKeeps DEF StartOrEnd
<1>6. CASE UNCHANGED vars
  BY <1>6, StutterKeeps DEF vars
<1> QED BY <1>1, <1>2, <1>3, <1>4, <1>5, <1>6 DEF Next

LEMMA InitKeeps == Init => IInv
<1> SUFFICES ASSUME Init PROVE IInv
  OBVIOUS
<1>1. Typing
  BY DEF Init, Blank, Typing, Rows, Statuses, NoRequest, CallRecords, NoCall, Labels, Party, Ids
<1>2. AllSent
  BY DEF Init, Blank, AllSent, NoRequest
<1>3. AllEstablished
  BY NoCallEstablished DEF Init, Blank, AllEstablished
<1>4. FriendsAgreed
  BY DEF Init, Blank, FriendsAgreed
<1> QED BY <1>1, <1>2, <1>3, <1>4 DEF IInv

LEMMA Invariant == Spec => []IInv
BY InitKeeps, NextKeeps, PTL DEF Spec

----------------------------------------------------------------------------

\* Whatever overlaps with what, nobody is befriended who was not asked by the
\* other or did not accept: accept's flip of the row decides (friend.service).
THEOREM FriendshipsAreAgreed == Spec => []FriendsAgreed
<1>1. IInv => FriendsAgreed
  BY DEF IInv
<1> QED BY <1>1, Invariant, PTL

----------------------------------------------------------------------------

InvitationRows == [status : Statuses \cup {"expired"}, by : Party, to : Party,
                   room : Ids, lapsed : BOOLEAN]

InvitationTyping == invitation \in [Invitations -> InvitationRows]

\* A row changes at most in its lapsing and in leaving `pending`.
KeptInvitations ==
    \A i \in Invitations : invitation[i].status \notin {"absent", "pending"} =>
        invitation'[i].status = invitation[i].status

\* The four ways a request row is written keep answered rows.
LEMMA RequestsKept == ASSUME IInv, [Next]_vars PROVE Kept
<1>1. Typing
  BY DEF IInv
<1>2. CASE UNCHANGED request
  BY <1>2 DEF Kept
<1>3. ASSUME NEW q \in Requests, NEW s, NEW r, request[q] = NoRequest,
             request' = [request EXCEPT ![q] = [status |-> "pending", by |-> s, to |-> r]]
      PROVE  Kept
  <2>1. request[q].status = "absent" /\ \A p \in Requests \ {q} : request'[p] = request[p]
    BY <1>1, <1>3 DEF NoRequest, Typing
  <2> QED BY <2>1 DEF Kept
<1>4. ASSUME NEW q, NEW status \in Statuses \ {"absent"}, ResolveRequest(q, status)
      PROVE  Kept
  <2>1. CASE q \in Requests
    BY <1>1, <1>4, <2>1, ResolveKeeps
  <2>2. CASE q \notin Requests
    <3>1. UNCHANGED request
      BY <1>1, <1>4, <2>2 DEF ResolveRequest, Typing
    <3> QED BY <3>1 DEF Kept
  <2> QED BY <2>1, <2>2
<1>5. ASSUME NEW u, NEW v,
             request' = [q \in Requests |->
                 IF q \in PendingBetween(u, v) THEN [request[q] EXCEPT !.status = "cancelled"]
                 ELSE request[q]]
      PROVE  Kept
  <2>1. \A q \in Requests :
           \/ request'[q] = request[q]
           \/ /\ request[q].status = "pending"
              /\ request'[q] = [request[q] EXCEPT !.status = "cancelled"]
    BY <1>5 DEF PendingBetween
  <2>2. \A q \in Requests : request[q] \in Rows
    BY <1>1 DEF Typing
  <2> QED BY <2>1, <2>2 DEF Kept, Rows
<1>6. ASSUME NEW c \in Calls, SendRequest(c) PROVE Kept
  BY <1>2, <1>3, <1>6 DEF SendRequest, Ask
<1>7. ASSUME NEW c \in Calls, Accept(c) PROVE Kept
  BY <1>2, <1>4, <1>7 DEF Accept, Ask, Statuses
<1>8. ASSUME NEW c \in Calls, CloseRequest(c) PROVE Kept
  BY <1>2, <1>4, <1>8 DEF CloseRequest, Ask, Statuses
<1>9. ASSUME NEW c \in Calls, Block(c) PROVE Kept
  BY <1>2, <1>5, <1>9 DEF Block
<1>10. ASSUME NEW c \in Calls, \/ Asks(c) \/ Invite(c) \/ AcceptInvitation(c)
                               \/ RejectInvitation(c) \/ ExpireForRoom(c)
                               \/ \E r \in Rooms, u \in Users : LeaveRoom(c, r, u)
       PROVE  UNCHANGED request
  BY <1>10 DEF Asks, Invite, AcceptInvitation, RejectInvitation, ExpireForRoom, LeaveRoom, Ask
<1>11. ASSUME \/ \E u, v \in Users : u # v /\ (RemoveFriend(u, v) \/ Unblock(u, v))
              \/ \E i \in Invitations : Lapse(i)
              \/ ExpireLapsed
              \/ \E r \in Rooms : StartOrEnd(r)
              \/ UNCHANGED vars
       PROVE  UNCHANGED request
  BY <1>11 DEF RemoveFriend, Unblock, Lapse, ExpireLapsed, StartOrEnd, vars
<1> QED BY <1>2, <1>6, <1>7, <1>8, <1>9, <1>10, <1>11 DEF Next

\* Some open invitations expire, and nothing else changes.
Expire ==
    /\ invitation' = [i \in Invitations |-> invitation'[i]]
    /\ \A i \in Invitations :
          \/ invitation'[i] = invitation[i]
          \/ /\ Open(invitation[i])
             /\ invitation'[i] = [invitation[i] EXCEPT !.status = "expired"]

LEMMA ExpireKeeps ==
    ASSUME InvitationTyping, Expire PROVE InvitationTyping' /\ KeptInvitations
<1>1. \A i \in Invitations : invitation[i] \in InvitationRows
  BY DEF InvitationTyping
<1>2. \A i \in Invitations : [invitation[i] EXCEPT !.status = "expired"] \in InvitationRows
  BY <1>1 DEF InvitationRows
<1>3. \A i \in Invitations : invitation'[i] \in InvitationRows
  BY <1>1, <1>2 DEF Expire
<1>4. InvitationTyping'
  BY <1>3 DEF Expire, InvitationTyping
<1>5. KeptInvitations
  BY DEF Expire, KeptInvitations, Open
<1> QED BY <1>4, <1>5

LEMMA ResolveInvitationKeeps ==
    ASSUME InvitationTyping, NEW i, NEW status \in Statuses \cup {"expired"},
           ResolveInvitation(i, status)
    PROVE  InvitationTyping' /\ KeptInvitations
<1>1. CASE i \in Invitations /\ Open(invitation[i])
  <2>1. [invitation[i] EXCEPT !.status = status] \in InvitationRows
    BY <1>1 DEF InvitationTyping, InvitationRows
  <2>2. invitation' = [invitation EXCEPT ![i] = [invitation[i] EXCEPT !.status = status]]
    BY <1>1 DEF ResolveInvitation
  <2> QED BY <1>1, <2>1, <2>2 DEF InvitationTyping, KeptInvitations, Open
<1>2. CASE ~(i \in Invitations /\ Open(invitation[i]))
  <2>1. UNCHANGED invitation
    BY <1>2 DEF ResolveInvitation, InvitationTyping
  <2> QED BY <2>1 DEF InvitationTyping, KeptInvitations
<1> QED BY <1>1, <1>2

LEMMA InsertInvitationKeeps ==
    ASSUME InvitationTyping, NEW i \in Invitations, invitation[i] = NoInvitation,
           NEW u \in Party, NEW v \in Party, NEW r \in Ids,
           invitation' = [invitation EXCEPT ![i] =
                 [status |-> "pending", by |-> u, to |-> v, room |-> r, lapsed |-> FALSE]]
    PROVE  InvitationTyping' /\ KeptInvitations
<1>1. [status |-> "pending", by |-> u, to |-> v, room |-> r, lapsed |-> FALSE]
        \in InvitationRows
  BY DEF InvitationRows, Statuses
<1>2. invitation[i].status = "absent"
  BY DEF NoInvitation
<1> QED BY <1>1, <1>2 DEF InvitationTyping, KeptInvitations

LEMMA LapseKeeps ==
    ASSUME InvitationTyping, NEW i \in Invitations, Lapse(i)
    PROVE  InvitationTyping' /\ KeptInvitations
<1>1. [invitation[i] EXCEPT !.lapsed = TRUE] \in InvitationRows
  BY DEF InvitationTyping, InvitationRows
<1>2. invitation' = [invitation EXCEPT ![i] = [invitation[i] EXCEPT !.lapsed = TRUE]]
      /\ invitation[i].status = "pending"
  BY DEF Lapse, Open
<1> QED BY <1>1, <1>2 DEF InvitationTyping, KeptInvitations

LEMMA InvitationsStep ==
    ASSUME IInv, InvitationTyping, [Next]_vars
    PROVE  InvitationTyping' /\ KeptInvitations
<1>1. CASE UNCHANGED invitation
  BY <1>1 DEF InvitationTyping, KeptInvitations
<1>2. ASSUME NEW c \in Calls, Block(c) PROVE UNCHANGED invitation \/ Expire
  BY <1>2 DEF Block, Expire
<1>3. ASSUME NEW c \in Calls, Invite(c) PROVE InvitationTyping' /\ KeptInvitations
  <2> DEFINE u == calls[c].by
             v == calls[c].to
             r == calls[c].id
  <2>1. u \in Party /\ v \in Party /\ r \in Ids
    BY DEF IInv, Typing, CallRecords
  <2>2. CASE invitation' = [i \in Invitations |->
                 IF i \in PendingFor(r, v) /\ invitation[i].lapsed
                 THEN [invitation[i] EXCEPT !.status = "expired"] ELSE invitation[i]]
    <3>1. Expire
      BY <2>2 DEF Expire, PendingFor, Open
    <3> QED BY <3>1, ExpireKeeps
  <2>3. CASE \E i \in Invitations :
               /\ invitation[i] = NoInvitation
               /\ invitation' = [invitation EXCEPT ![i] =
                     [status |-> "pending", by |-> u, to |-> v, room |-> r, lapsed |-> FALSE]]
    <3> HIDE DEF u, v, r
    <3> QED BY <2>1, <2>3, InsertInvitationKeeps
  <2> QED BY <1>1, <1>3, <2>2, <2>3 DEF Invite, Ask
<1>4. ASSUME NEW c \in Calls, AcceptInvitation(c) PROVE InvitationTyping' /\ KeptInvitations
  <2> DEFINE i == calls[c].id
             r == invitation[i].room
  <2>1. CASE invitation' = [j \in Invitations |->
                 IF Open(invitation[j]) /\ invitation[j].room # r
                    /\ phase[invitation[j].room] = "closed"
                 THEN [invitation[j] EXCEPT !.status = "expired"] ELSE invitation[j]]
    <3>1. Expire
      BY <2>1 DEF Expire
    <3> QED BY <3>1, ExpireKeeps
  <2>2. CASE ResolveInvitation(i, "expired") \/ ResolveInvitation(i, "accepted")
    BY <2>2, ResolveInvitationKeeps DEF Statuses
  <2> QED BY <1>1, <1>4, <2>1, <2>2 DEF AcceptInvitation, Ask
<1>5. ASSUME NEW c \in Calls, RejectInvitation(c) PROVE InvitationTyping' /\ KeptInvitations
  <2>1. CASE ResolveInvitation(calls[c].id, "rejected")
    BY <2>1, ResolveInvitationKeeps DEF Statuses
  <2> QED BY <1>1, <1>5, <2>1 DEF RejectInvitation, Ask
<1>6. ASSUME NEW c \in Calls, ExpireForRoom(c) PROVE Expire
  BY <1>6 DEF ExpireForRoom, Expire
<1>7. CASE ExpireLapsed
  <2>1. Expire
    BY <1>7 DEF ExpireLapsed, Expire
  <2> QED BY <2>1, ExpireKeeps
<1>8. ASSUME NEW c \in Calls,
             \/ Asks(c) \/ SendRequest(c) \/ Accept(c) \/ CloseRequest(c)
             \/ \E r \in Rooms, u \in Users : LeaveRoom(c, r, u)
      PROVE  UNCHANGED invitation
  BY <1>8 DEF Asks, SendRequest, Accept, CloseRequest, LeaveRoom, Ask
<1>9. ASSUME \/ \E u, v \in Users : u # v /\ (RemoveFriend(u, v) \/ Unblock(u, v))
             \/ \E r \in Rooms : StartOrEnd(r)
             \/ UNCHANGED vars
      PROVE  UNCHANGED invitation
  BY <1>9 DEF RemoveFriend, Unblock, StartOrEnd, vars
<1> QED BY <1>1, <1>2, <1>3, <1>4, <1>5, <1>6, <1>7, <1>8, <1>9, ExpireKeeps, LapseKeeps
        DEF Next

\* However late a tap, a sweep, a block or a closing room comes, the answer that
\* was given stands: resolve's filter (friend and invitation repositories).
THEOREM AnswersStand == Spec => AnswersAreFinal
<1> DEFINE Final ==
      /\ \A q \in Requests : request[q].status \notin {"absent", "pending"}
            => request'[q] = request[q]
      /\ \A i \in Invitations : invitation[i].status \notin {"absent", "pending"}
            => invitation'[i].status = invitation[i].status
<1>1. Init => InvitationTyping
  BY DEF Init, Blank, InvitationTyping, InvitationRows, NoInvitation, Statuses, Party, Ids
<1>2. IInv /\ InvitationTyping /\ [Next]_vars => InvitationTyping'
  BY InvitationsStep
<1>3. IInv /\ InvitationTyping /\ [Next]_vars => [Final]_vars
  <2> SUFFICES ASSUME IInv, InvitationTyping, [Next]_vars PROVE Final
    OBVIOUS
  <2>1. Kept /\ KeptInvitations
    BY RequestsKept, InvitationsStep
  <2> QED BY <2>1 DEF Kept, KeptInvitations
<1> QED BY <1>1, <1>2, <1>3, Invariant, PTL DEF Spec, AnswersAreFinal
=============================================================================
