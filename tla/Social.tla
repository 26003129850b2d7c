-------------------------------- MODULE Social --------------------------------
(***************************************************************************)
(* Friend requests and friendships, blocks, and room invitations           *)
(* (services/friend, block and invitation over their repositories).        *)
(*                                                                         *)
(* Every service call is a sequence of queries, each a wait: what a query  *)
(* answered may be old when the next is sent.  Two things are decided by   *)
(* the store itself: a row leaves `pending` at most once (the filter of    *)
(* resolve), and a pair, or a room and its invitee, has at most one        *)
(* pending row (the partial unique indexes).                               *)
(*                                                                         *)
(* Accounts are never deleted here, nobody is banned, and an inviter has   *)
(* fewer than sixteen invitations out.                                     *)
(***************************************************************************)
EXTENDS Naturals, FiniteSets

CONSTANTS Users,
          Rooms,
          Capacity,      \* maxPlayers
          Requests,      \* bound: friend requests ever sent
          Invitations,   \* bound: invitations ever sent
          Calls,         \* bound: service calls at a time
          NoId           \* no request, no invitation, no room, nobody

ASSUME NoIdAssumption == NoId \notin Users \cup Rooms \cup Requests \cup Invitations

VARIABLES request,    \* friend_requests
          friends,    \* friendships: the request each pair's row names
          blocks,     \* <<blocker, blocked>>
          invitation, \* room_invitations
          phase, seats,  \* the live rooms
          calls       \* the calls under way

roomVars == <<phase, seats>>
vars == <<request, friends, blocks, invitation, roomVars, calls>>

Pairs == UNION {{{u, v} : v \in Users \ {u}} : u \in Users}

NoCall == [at |-> "idle", by |-> NoId, to |-> NoId, id |-> NoId]
NoRequest == [status |-> "absent", by |-> NoId, to |-> NoId]
NoInvitation == [status |-> "absent", by |-> NoId, to |-> NoId, room |-> NoId, lapsed |-> FALSE]

\* Before anybody has done anything.
Blank ==
    /\ request = [q \in Requests |-> NoRequest]
    /\ friends = [p \in Pairs |-> NoId]
    /\ blocks = {}
    /\ invitation = [i \in Invitations |-> NoInvitation]
    /\ phase = [r \in Rooms |-> "lobby"]
    /\ calls = [c \in Calls |-> NoCall]

Init ==
    /\ Blank
    /\ seats \in [Rooms -> {{u} : u \in Users}]
    /\ \A r, s \in Rooms : r # s => seats[r] # seats[s]

----------------------------------------------------------------------------
(* What the queries answer *)

Blocked(u, v) == {<<u, v>>, <<v, u>>} \cap blocks # {}
AreFriends(u, v) == friends[{u, v}] # NoId
PendingBetween(u, v) ==
    {q \in Requests : request[q].status = "pending" /\ {request[q].by, request[q].to} = {u, v}}
PendingFor(r, v) ==
    {i \in Invitations : /\ invitation[i].status = "pending"
                         /\ invitation[i].room = r /\ invitation[i].to = v}

\* Mutant: the row is moved by its id alone.
Open_ById(row) == row.status # "absent"

\* The filter of both resolve updates.
Open(row) == row.status = "pending"

ResolveRequest(q, status) ==
    request' = IF Open(request[q]) THEN [request EXCEPT ![q].status = status] ELSE request

ResolveInvitation(i, status) ==
    invitation' = IF Open(invitation[i]) THEN [invitation EXCEPT ![i].status = status]
                  ELSE invitation

----------------------------------------------------------------------------
(* Calls *)

Begin(c, call) ==
    /\ calls[c] = NoCall
    /\ calls' = [calls EXCEPT ![c] = call]

At(c, label) == calls[c].at = label
GoTo(c, label) ==
    calls' = [calls EXCEPT ![c] = IF label = "idle" THEN NoCall ELSE [@ EXCEPT !.at = label]]

\* One query, whose answer refuses the call or lets it go on.
Ask(c, label, refused, next) ==
    /\ At(c, label)
    /\ GoTo(c, IF refused THEN "idle" ELSE next)
    /\ UNCHANGED <<request, friends, blocks, invitation, roomVars>>

----------------------------------------------------------------------------
(* friend.service *)

SendRequest(c) ==
    LET s == calls[c].by
        r == calls[c].to
    IN  \/ Ask(c, "send", Blocked(s, r), "send.friends")
        \/ Ask(c, "send.friends", AreFriends(s, r), "send.pending")
        \/ Ask(c, "send.pending", PendingBetween(s, r) # {}, "send.insert")
        \/ /\ At(c, "send.insert")
           /\ GoTo(c, "idle")
           /\ IF PendingBetween(s, r) # {} THEN UNCHANGED request
              ELSE \E q \in Requests :
                      /\ request[q] = NoRequest
                      /\ request' = [request EXCEPT ![q] =
                                        [status |-> "pending", by |-> s, to |-> r]]
           /\ UNCHANGED <<friends, blocks, invitation, roomVars>>

\* Mutant: the answer of the update is not looked at.
Moved_Unread(row) == TRUE

\* Whether this call's update was the one that moved the row.
Moved(row) == Open(row)

Accept(c) ==
    LET q == calls[c].id
        u == calls[c].by
    IN  \/ Ask(c, "accept", ~Open(request[q]) \/ request[q].to # u, "accept.block")
        \/ Ask(c, "accept.block", FALSE,
               IF Blocked(u, request[q].by) THEN "accept.revoke" ELSE "accept.resolve")
        \/ /\ At(c, "accept.revoke")
           /\ ResolveRequest(q, "cancelled")
           /\ GoTo(c, "idle")
           /\ UNCHANGED <<friends, blocks, invitation, roomVars>>
        \/ /\ At(c, "accept.resolve")
           /\ ResolveRequest(q, "accepted")
           /\ GoTo(c, IF Moved(request[q]) THEN "accept.befriend" ELSE "idle")
           /\ UNCHANGED <<friends, blocks, invitation, roomVars>>
        \/ /\ At(c, "accept.befriend")
           /\ friends' = [friends EXCEPT ![{u, request[q].by}] = IF @ = NoId THEN q ELSE @]
           /\ GoTo(c, "idle")
           /\ UNCHANGED <<request, blocks, invitation, roomVars>>

\* reject is the receiver's, cancel the sender's.
CloseRequest(c) ==
    LET q == calls[c].id
        u == calls[c].by
    IN  \/ Ask(c, "reject", ~Open(request[q]) \/ request[q].to # u, "reject.resolve")
        \/ Ask(c, "cancel", ~Open(request[q]) \/ request[q].by # u, "cancel.resolve")
        \/ /\ \/ At(c, "reject.resolve") /\ ResolveRequest(q, "rejected")
              \/ At(c, "cancel.resolve") /\ ResolveRequest(q, "cancelled")
           /\ GoTo(c, "idle")
           /\ UNCHANGED <<friends, blocks, invitation, roomVars>>

RemoveFriend(u, v) ==
    /\ AreFriends(u, v)
    /\ friends' = [friends EXCEPT ![{u, v}] = NoId]
    /\ UNCHANGED <<request, blocks, invitation, roomVars, calls>>

----------------------------------------------------------------------------
(* block.service: the row first, then what it tears down *)

Block(c) ==
    LET u == calls[c].by
        v == calls[c].to
    IN  \/ /\ At(c, "block")
           /\ blocks' = blocks \cup {<<u, v>>}
           /\ GoTo(c, IF <<u, v>> \in blocks THEN "idle" ELSE "block.cancel")
           /\ UNCHANGED <<request, friends, invitation, roomVars>>
        \/ /\ At(c, "block.cancel")
           /\ request' = [q \in Requests |->
                 IF q \in PendingBetween(u, v) THEN [request[q] EXCEPT !.status = "cancelled"]
                 ELSE request[q]]
           /\ GoTo(c, "block.unfriend")
           /\ UNCHANGED <<friends, blocks, invitation, roomVars>>
        \/ /\ At(c, "block.unfriend")
           /\ friends' = [friends EXCEPT ![{u, v}] = NoId]
           /\ GoTo(c, "block.uninvite")
           /\ UNCHANGED <<request, blocks, invitation, roomVars>>
        \/ /\ At(c, "block.uninvite")
           /\ invitation' = [i \in Invitations |->
                 IF Open(invitation[i]) /\ {invitation[i].by, invitation[i].to} = {u, v}
                 THEN [invitation[i] EXCEPT !.status = "expired"] ELSE invitation[i]]
           /\ GoTo(c, "idle")
           /\ UNCHANGED <<request, friends, blocks, roomVars>>

Unblock(u, v) ==
    /\ <<u, v>> \in blocks
    /\ blocks' = blocks \ {<<u, v>>}
    /\ UNCHANGED <<request, friends, invitation, roomVars, calls>>

----------------------------------------------------------------------------
(* invitation.service *)

RoomRefuses(r) == phase[r] # "lobby" \/ Cardinality(seats[r]) >= Capacity

\* The call carries the room as its id.
Invite(c) ==
    LET u == calls[c].by
        v == calls[c].to
        r == calls[c].id
    IN  \/ Ask(c, "invite", v \in seats[r], "invite.block")
        \/ Ask(c, "invite.block", Blocked(u, v), "invite.friends")
        \/ Ask(c, "invite.friends", ~AreFriends(u, v), "invite.pending")
        \/ Ask(c, "invite.pending", \E i \in PendingFor(r, v) : ~invitation[i].lapsed,
               IF PendingFor(r, v) = {} THEN "invite.insert" ELSE "invite.retire")
        \/ /\ At(c, "invite.retire")
           /\ invitation' = [i \in Invitations |->
                 IF i \in PendingFor(r, v) /\ invitation[i].lapsed
                 THEN [invitation[i] EXCEPT !.status = "expired"] ELSE invitation[i]]
           /\ GoTo(c, "invite.insert")
           /\ UNCHANGED <<request, friends, blocks, roomVars>>
        \/ /\ At(c, "invite.insert")
           /\ GoTo(c, "idle")
           /\ IF PendingFor(r, v) # {} THEN UNCHANGED invitation
              ELSE \E i \in Invitations :
                      /\ invitation[i] = NoInvitation
                      /\ invitation' = [invitation EXCEPT ![i] =
                            [status |-> "pending", by |-> u, to |-> v, room |-> r,
                             lapsed |-> FALSE]]
           /\ UNCHANGED <<request, friends, blocks, roomVars>>

\* assertNotSeatedElsewhere: a seat nobody is connected to is given up, one
\* that is played in refuses.  Which of the two it is, is the player's affair.
SeatedElsewhere(u, r) == \E s \in Rooms \ {r} : u \in seats[s]
Vacated(u, r) == [s \in Rooms |-> IF s = r THEN seats[s] ELSE seats[s] \ {u}]
ClosedIfEmpty(taken) == [s \in Rooms |-> IF taken[s] = {} THEN "closed" ELSE phase[s]]

AcceptInvitation(c) ==
    LET i == calls[c].id
        u == calls[c].by
        r == invitation[i].room
    IN  \/ Ask(c, "join", ~Open(invitation[i]) \/ invitation[i].to # u,
               IF invitation[i].lapsed THEN "join.expire" ELSE "join.hydrate")
        \/ Ask(c, "join.hydrate", FALSE,
               IF phase[r] = "closed" THEN "join.expire" ELSE "join.block")
        \/ /\ At(c, "join.block")
           /\ IF Blocked(u, invitation[i].by)
              THEN GoTo(c, "join.expire") /\ UNCHANGED roomVars
              ELSE \/ /\ u \in seats[r] \/ ~RoomRefuses(r)
                      /\ seats' = Vacated(u, r)
                      /\ phase' = ClosedIfEmpty(seats')
                      /\ GoTo(c, IF SeatedElsewhere(u, r) THEN "join.vacated" ELSE "join.resolve")
                   \/ /\ (u \notin seats[r] /\ RoomRefuses(r)) \/ SeatedElsewhere(u, r)
                      /\ GoTo(c, "idle")
                      /\ UNCHANGED roomVars
           /\ UNCHANGED <<request, friends, blocks, invitation>>
        \/ /\ At(c, "join.vacated")   \* the room that was left may have closed
           /\ invitation' = [j \in Invitations |->
                 IF Open(invitation[j]) /\ invitation[j].room # r
                    /\ phase[invitation[j].room] = "closed"
                 THEN [invitation[j] EXCEPT !.status = "expired"] ELSE invitation[j]]
           /\ GoTo(c, "join.resolve")
           /\ UNCHANGED <<request, friends, blocks, roomVars>>
        \/ /\ At(c, "join.expire")
           /\ ResolveInvitation(i, "expired")
           /\ GoTo(c, "idle")
           /\ UNCHANGED <<request, friends, blocks, roomVars>>
        \/ /\ At(c, "join.resolve")
           /\ ResolveInvitation(i, "accepted")
           /\ GoTo(c, IF Moved(invitation[i]) THEN "join.seat" ELSE "idle")
           /\ UNCHANGED <<request, friends, blocks, roomVars>>
        \/ /\ At(c, "join.seat")   \* joinRoom: the phase is not asked for again
           /\ seats' = IF phase[r] = "closed" \/ Cardinality(seats[r] \ {u}) >= Capacity
                       THEN seats ELSE [seats EXCEPT ![r] = @ \cup {u}]
           /\ GoTo(c, "idle")
           /\ UNCHANGED <<request, friends, blocks, invitation, phase>>

RejectInvitation(c) ==
    LET i == calls[c].id
        u == calls[c].by
    IN  \/ Ask(c, "decline", ~Open(invitation[i]) \/ invitation[i].to # u,
               IF invitation[i].lapsed THEN "join.expire" ELSE "decline.resolve")
        \/ /\ At(c, "decline.resolve")
           /\ ResolveInvitation(i, "rejected")
           /\ GoTo(c, "idle")
           /\ UNCHANGED <<request, friends, blocks, roomVars>>

\* Time passes an invitation's expiresAt.
Lapse(i) ==
    /\ Open(invitation[i]) /\ ~invitation[i].lapsed
    /\ invitation' = [invitation EXCEPT ![i].lapsed = TRUE]
    /\ UNCHANGED <<request, friends, blocks, roomVars, calls>>

\* The sweeper.
ExpireLapsed ==
    /\ \E i \in Invitations : Open(invitation[i]) /\ invitation[i].lapsed
    /\ invitation' = [i \in Invitations |->
          IF Open(invitation[i]) /\ invitation[i].lapsed
          THEN [invitation[i] EXCEPT !.status = "expired"] ELSE invitation[i]]
    /\ UNCHANGED <<request, friends, blocks, roomVars, calls>>

----------------------------------------------------------------------------
(* The rooms, as far as an invitation looks at them *)

StartOrEnd(r) ==
    /\ phase' = [phase EXCEPT ![r] = CASE @ = "lobby" -> "playing"
                                       [] @ = "playing" -> "lobby"
                                       [] OTHER -> @]
    /\ UNCHANGED <<request, friends, blocks, invitation, seats, calls>>

\* The last to leave closes the room; its invitations go in a query of its own.
LeaveRoom(c, r, u) ==
    /\ u \in seats[r]
    /\ seats' = [seats EXCEPT ![r] = @ \ {u}]
    /\ phase' = ClosedIfEmpty(seats')
    /\ IF seats'[r] = {} THEN Begin(c, [NoCall EXCEPT !.at = "close", !.id = r])
       ELSE UNCHANGED calls
    /\ UNCHANGED <<request, friends, blocks, invitation>>

ExpireForRoom(c) ==
    /\ At(c, "close")
    /\ invitation' = [i \in Invitations |->
          IF Open(invitation[i]) /\ invitation[i].room = calls[c].id
          THEN [invitation[i] EXCEPT !.status = "expired"] ELSE invitation[i]]
    /\ GoTo(c, "idle")
    /\ UNCHANGED <<request, friends, blocks, roomVars>>

----------------------------------------------------------------------------
\* What a client may ask for.
Asks(c) ==
    \E u, v \in Users :
        /\ u # v
        /\ \/ \E label \in {"send", "block"} :
                Begin(c, [at |-> label, by |-> u, to |-> v, id |-> NoId])
           \/ \E q \in Requests, label \in {"accept", "reject", "cancel"} :
                /\ request[q].status # "absent"
                /\ Begin(c, [at |-> label, by |-> u, to |-> NoId, id |-> q])
           \/ \E r \in Rooms :
                /\ u \in seats[r] /\ ~RoomRefuses(r)
                /\ Begin(c, [at |-> "invite", by |-> u, to |-> v, id |-> r])
           \/ \E i \in Invitations, label \in {"join", "decline"} :
                /\ invitation[i].status # "absent"
                /\ Begin(c, [at |-> label, by |-> u, to |-> NoId, id |-> i])
        /\ UNCHANGED <<request, friends, blocks, invitation, roomVars>>

Next ==
    \/ \E c \in Calls :
          \/ Asks(c)
          \/ SendRequest(c) \/ Accept(c) \/ CloseRequest(c) \/ Block(c)
          \/ Invite(c) \/ AcceptInvitation(c) \/ RejectInvitation(c) \/ ExpireForRoom(c)
          \/ \E r \in Rooms, u \in Users : LeaveRoom(c, r, u)
    \/ \E u, v \in Users : u # v /\ (RemoveFriend(u, v) \/ Unblock(u, v))
    \/ \E i \in Invitations : Lapse(i)
    \/ ExpireLapsed
    \/ \E r \in Rooms : StartOrEnd(r)

Spec == Init /\ [][Next]_vars

----------------------------------------------------------------------------

\* A friendship rests on a request between these two that the receiver
\* accepted, however the taps on Accept, Reject, Cancel, Unfriend and Block
\* overlapped: the request is flipped first, and only by whoever wins it.
FriendsAgreed ==
    \A p \in Pairs : friends[p] # NoId =>
        LET row == request[friends[p]]
        IN  row.status = "accepted" /\ {row.by, row.to} = p

\* A request or an invitation is answered once: no late tap, sweep, block or
\* closing room changes an answer that was given.
AnswersAreFinal ==
    [][/\ \A q \in Requests : request[q].status \notin {"absent", "pending"}
             => request'[q] = request[q]
       /\ \A i \in Invitations : invitation[i].status \notin {"absent", "pending"}
             => invitation'[i].status = invitation[i].status]_vars

\* friend.service.ts: "A block placed after the request was sent must win."
\* When no call is under way, nobody is a friend across a block.
BlockWins ==
    (\A c \in Calls : calls[c] = NoCall) =>
        \A u, v \in Users : <<u, v>> \in blocks => ~AreFriends(u, v)

\* Refuted, and in no run: "this player holds no seat anywhere but" the room
\* they are about to join (invitation.service.ts).  Two acceptances at once
\* each find the player seated nowhere.
OneRoomAtATime ==
    \A u \in Users : Cardinality({r \in Rooms : u \in seats[r]}) <= 1
=============================================================================
