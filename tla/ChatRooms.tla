----------------------------- MODULE ChatRooms -----------------------------
(***************************************************************************)
(* The sockets of the chat (src/src/chat/chat.gateway.ts) on several       *)
(* servers, one conversation, and a message in it: it is sent to the       *)
(* sockets in the room, and the members who are not in the room get a      *)
(* notification (afterMessageSent of chat.service.ts).  Each server knows  *)
(* its own sockets only; the room itself spans the servers.  Who is shown  *)
(* online is what was broadcast last; that presence ends by itself after   *)
(* two minutes is left out, with the user rooms and the typing.            *)
(***************************************************************************)
EXTENDS Naturals, FiniteSets

CONSTANTS
  User, Server,
  Socket,       \* connections a client may open
  Owner, Home,  \* of each, its user and its server
  Muted,        \* users who muted the conversation
  MaxMoves      \* bound: what sockets and members do

VARIABLES
  member,       \* the active members but the sender
  open,         \* sockets that are connected: userSockets of all servers
  inRoom,       \* socketRooms and the room: sockets that show the conversation
  steps,        \* what handlers have still to do: "online", "offline" and "join" of a socket
  shown,        \* users who were last broadcast as online
  message,      \* the message: its stage, its server and whom to tell
  got,          \* what each user got of it: "live", "notice"
  delivered,    \* the sender was told that it was delivered
  moves,        \* for the bound
  moved,        \* history: users who came, went or changed rooms since it was saved
  strayed,      \* history: users removed with a socket in the room or about to be
  broken        \* history: users whose socket closed while it was set up, or with its server

roomVars == <<member, open, inRoom, steps, shown, message, got, delivered,
              moves, moved, strayed, broken>>

Init ==
  /\ member = User
  /\ open = {} /\ inRoom = {} /\ steps = {} /\ shown = {}
  /\ message = [at |-> "no"] /\ got = [u \in User |-> {}] /\ delivered = FALSE
  /\ moves = 0 /\ moved = {} /\ strayed = {} /\ broken = {}

Sockets(u) == {s \in Socket : Owner[s] = u}
Sent == message.at # "no"
Sending == Sent /\ message.at # "done"
Moves(u) ==
  /\ moves < MaxMoves /\ moves' = moves + 1
  /\ moved' = IF Sent THEN moved \union {u} ELSE moved
Step(s, what) == <<s, what>>
Finishes(s, what) ==
  /\ Step(s, what) \in steps /\ steps' = steps \ {Step(s, what)}
  /\ moved' = IF Sent THEN moved \union {Owner[s]} ELSE moved
-----------------------------------------------------------------------------
(* handleConnection: the socket is known at once, presence comes after.    *)
Connect(s) ==
  /\ s \notin open /\ ~\E what \in {"online", "offline", "join"} : Step(s, what) \in steps
  /\ Moves(Owner[s])
  /\ open' = open \union {s}
  /\ steps' = steps \union {Step(s, "online")}
  /\ UNCHANGED <<member, inRoom, shown, message, got, delivered, strayed, broken>>

Online(s) ==
  /\ Finishes(s, "online")
  /\ shown' = shown \union {Owner[s]}
  /\ UNCHANGED <<member, open, inRoom, message, got, delivered, moves, strayed, broken>>

(* handleDisconnect: the last socket of the user on this server.           *)
StillCounted(s, others) == {x \in others \union {s} : Owner[x] = Owner[s] /\ Home[x] = Home[s]} = {}
IsLast(s, others) == {x \in others : Owner[x] = Owner[s] /\ Home[x] = Home[s]} = {}
Disconnect(s) ==
  /\ s \in open /\ Moves(Owner[s])
  /\ open' = open \ {s} /\ inRoom' = inRoom \ {s}
  /\ steps' = IF IsLast(s, open \ {s}) THEN steps \union {Step(s, "offline")} ELSE steps
  /\ broken' = IF Step(s, "online") \in steps THEN broken \union {Owner[s]} ELSE broken
  /\ UNCHANGED <<member, shown, message, got, delivered, strayed>>

Offline(s) ==
  /\ Finishes(s, "offline")
  /\ shown' = shown \ {Owner[s]}
  /\ UNCHANGED <<member, open, inRoom, message, got, delivered, moves, strayed, broken>>

(* onConversationJoin: only a member, as it is when it asks.               *)
Anyone(u) == TRUE
MayJoin(u) == u \in member
AskJoin(s) ==
  /\ s \in open /\ MayJoin(Owner[s]) /\ Step(s, "join") \notin steps
  /\ Moves(Owner[s])
  /\ steps' = steps \union {Step(s, "join")}
  /\ UNCHANGED <<member, open, inRoom, shown, message, got, delivered, strayed, broken>>

Join(s) ==
  /\ Finishes(s, "join")
  /\ inRoom' = inRoom \union {s}
  /\ UNCHANGED <<member, open, shown, message, got, delivered, moves, strayed, broken>>

LeaveRoom(s) ==
  /\ s \in open \intersect inRoom /\ Moves(Owner[s])
  /\ inRoom' = inRoom \ {s}
  /\ UNCHANGED <<member, open, steps, shown, message, got, delivered, strayed, broken>>

(* removeOrLeave does not look for sockets.                                *)
Removed(u) ==
  /\ u \in member /\ Moves(u)
  /\ member' = member \ {u}
  /\ strayed' = IF \E s \in Sockets(u) : s \in inRoom \/ Step(s, "join") \in steps
                THEN strayed \union {u} ELSE strayed
  /\ UNCHANGED <<open, inRoom, steps, shown, message, got, delivered, broken>>
-----------------------------------------------------------------------------
(* sendMessage has committed on a server.                                  *)
Send(k) ==
  /\ message.at = "no"
  /\ message' = [at |-> "saved", server |-> k, todo |-> {}]
  /\ UNCHANGED <<member, open, inRoom, steps, shown, got, delivered, moves, moved, strayed, broken>>

(* isUserInConversationRoom looks at the sockets of this server.           *)
HasSocket(u, k) == \E s \in Sockets(u) \intersect open : Home[s] = k
IsInRoom(u, k) == \E s \in Sockets(u) \intersect open : Home[s] = k /\ s \in inRoom

OthersInRoom(k) == \E u \in User : IsInRoom(u, k)
Broadcast ==
  /\ message.at = "saved" /\ message' = [message EXCEPT !.at = "sent"]
  /\ got' = [u \in User |-> IF Sockets(u) \intersect inRoom \intersect open # {} THEN {"live"} ELSE {}]
  /\ delivered' = OthersInRoom(message.server)
  /\ UNCHANGED <<member, open, inRoom, steps, shown, moves, moved, strayed, broken>>

ReadMembers ==
  /\ message.at = "sent"
  /\ message' = [message EXCEPT !.at = IF member = {} THEN "done" ELSE "tell", !.todo = member]
  /\ UNCHANGED <<member, open, inRoom, steps, shown, got, delivered, moves, moved, strayed, broken>>

Notified(u) == ~IsInRoom(u, message.server) /\ u \notin Muted
Tell(u) ==
  /\ message.at = "tell" /\ u \in message.todo
  /\ got' = IF Notified(u) THEN [got EXCEPT ![u] = @ \union {"notice"}] ELSE got
  /\ message' = [message EXCEPT !.todo = @ \ {u}, !.at = IF message.todo = {u} THEN "done" ELSE @]
  /\ UNCHANGED <<member, open, inRoom, steps, shown, delivered, moves, moved, strayed, broken>>

(* A server stops, with the message if it is its own.                      *)
Stop(k) ==
  LET gone == {s \in Socket : Home[s] = k}
  IN  /\ moves < MaxMoves /\ moves' = moves + 1
      /\ open' = open \ gone /\ inRoom' = inRoom \ gone
      /\ steps' = {x \in steps : x[1] \notin gone}
      /\ broken' = broken \union {Owner[s] : s \in gone}
      /\ moved' = IF Sent THEN IF message.server = k THEN User ELSE moved \union {Owner[s] : s \in gone} ELSE moved
      /\ message' = IF Sending /\ message.server = k THEN [message EXCEPT !.at = "done"] ELSE message
      /\ UNCHANGED <<member, shown, got, delivered, strayed>>

Next ==
  \/ Broadcast \/ ReadMembers
  \/ \E s \in Socket :
       \/ Connect(s) \/ Online(s) \/ Disconnect(s) \/ Offline(s)
       \/ AskJoin(s) \/ Join(s) \/ LeaveRoom(s)
  \/ \E u \in User : Removed(u) \/ Tell(u)
  \/ \E k \in Server : Send(k) \/ Stop(k)

Spec == Init /\ [][Next]_roomVars
-----------------------------------------------------------------------------
TypeOK ==
  /\ member \subseteq User /\ open \subseteq Socket 
  /\ inRoom \subseteq Socket
  /\ steps \subseteq Socket \X {"online", "offline", "join"}
  /\ shown \subseteq User /\ got \in [User -> SUBSET {"live", "notice"}]
  /\ delivered \in BOOLEAN /\ moves \in 0..MaxMoves

(* A member who stays where it is while a message is sent gets it live in  *)
(* the room and as a notification elsewhere; both only when it has the     *)
(* room open on another server than the sender's.                          *)
ToldOnce ==
  message.at = "done" =>
    \A u \in member \ moved :
      got[u] = (IF Sockets(u) \intersect inRoom \intersect open # {} THEN {"live"} ELSE {})
                 \union (IF IsInRoom(u, message.server) \/ u \in Muted THEN {} ELSE {"notice"})

(* Who was no member any more before the message was sent, and had no      *)
(* socket in the room or on its way there then, gets nothing of it.  Who   *)
(* is told that a message was delivered has somebody who got it live.      *)
OnlyMembersHear ==
  /\ \A u \in User \ (member \union strayed \union moved) : got[u] = {}
  /\ delivered => \E u \in User : "live" \in got[u]

(* When no handler is at work, who is shown online has a socket - unless   *)
(* one was closed before it was set up, or its server stopped.             *)
OnlineIsConnected ==
  steps = {} => \A u \in shown \ broken : Sockets(u) \intersect open # {}

RoomsAssumption ==
  /\ Owner \in [Socket -> User] /\ Home \in [Socket -> Server] /\ Muted \subseteq User /\ MaxMoves \in Nat
=============================================================================
