-------------------------------- MODULE Chat --------------------------------
(***************************************************************************)
(* A conversation of two members: src/src/chat/chat.service.ts.            *)
(*                                                                         *)
(* Nothing is locked: a handler reads a row, and its save() writes every   *)
(* column that differs from what it read, over what others saved since.    *)
(* A message is created at the time its transaction BEGINS and is seen     *)
(* when it commits.  PostgreSQL keeps microseconds (ticks here, Tick to a  *)
(* millisecond); a JavaScript Date has milliseconds, so a time that was    *)
(* read and is sent back with a query is cut off.  No two transactions     *)
(* begin at the same tick.  Bodies, attachments, typing, presence and the  *)
(* rate limits are left out; blocks are in SocialGraph.                    *)
(***************************************************************************)
EXTENDS Naturals, FiniteSets

CONSTANTS
  User,          \* the members
  Text,          \* messages to send, by client message id: a set of naturals
  Sender,        \* who sends each
  Tick,          \* ticks in a millisecond
  Handler,       \* requests in progress at a time
  MaxRequests    \* bound: requests but sends

ChatAssumption ==
  /\ Text \subseteq Nat \ {0} /\ Sender \in [Text -> User] /\ Tick \in Nat \ {0}

Nothing == 0

VARIABLES
  exists,        \* the conversation of the pair has been created
  ticks,         \* the clock of the database
  post,          \* of a message: "unsent", "open" in a transaction, "sent"
  born,          \* created_at
  deleted,       \* deletedAt is set
  lastMessage,   \* lastMessageAt of the conversation
  member,        \* conversation_members
  doing,         \* the requests in progress
  made,          \* how many were made, for the bound
  seen,          \* history: what a member had before the message marked read
  late,          \* history: messages committed after a younger one
  crossed        \* history: rows on which two handlers overlapped

chatVars == <<exists, ticks, post, born, deleted, lastMessage, member, doing,
              made, seen, late, crossed>>

Rest == [at |-> "rest"]
Sent == {m \in Text : post[m] = "sent"}
JsDate(t) == (t \div Tick) * Tick

Init ==
  /\ exists = FALSE /\ ticks = 0
  /\ post = [m \in Text |-> "unsent"]
  /\ born = [m \in Text |-> 0]
  /\ deleted = {} /\ lastMessage = 0
  /\ member = [u \in User |-> [left |-> TRUE, mark |-> Nothing]]
  /\ doing = [h \in Handler |-> Rest] /\ made = 0
  /\ seen = [u \in User |-> {}]
  /\ late = {} /\ crossed = {}
-----------------------------------------------------------------------------
Sets(h, r) == doing' = [doing EXCEPT ![h] = r]
Starts(h, r) == /\ doing[h].at = "rest" /\ made < MaxRequests
                /\ made' = made + 1 /\ Sets(h, r)
Active(u) == exists /\ ~member[u].left

(* createConversation: an existing one is joined again by both, the caller *)
(* first; of two that create it one fails on the unique pair.              *)
Open(h, u) ==
  /\ Starts(h, IF exists THEN [at |-> "ensure", user |-> u, then |-> User \ {u}]
               ELSE [at |-> "create"])
  /\ UNCHANGED <<exists, ticks, post, born, deleted, lastMessage, member, seen, late, crossed>>

Create(h) ==
  /\ doing[h].at = "create"
  /\ Sets(h, Rest)
  /\ exists' = TRUE
  /\ member' = IF exists THEN member
               ELSE [u \in User |-> [left |-> FALSE, mark |-> Nothing]]
  /\ UNCHANGED <<made, ticks, post, born, deleted, lastMessage, seen, late, crossed>>

(* ensureMember                                                            *)
Onward(then) == IF then = {} THEN Rest
                ELSE LET u == CHOOSE v \in then : TRUE
                     IN [at |-> "ensure", user |-> u, then |-> then \ {u}]

Ensure(h) ==
  LET r == doing[h] IN
  /\ r.at = "ensure"
  /\ Sets(h, IF ~member[r.user].left THEN Onward(r.then)
             ELSE [at |-> "row", row |-> r.user, then |-> r.then, sets |-> "join",
                   value |-> [member[r.user] EXCEPT !.left = FALSE]])
  /\ UNCHANGED <<made, exists, ticks, post, born, deleted, lastMessage, member, seen, late, crossed>>

(* A handler has read the row of member u and will save it as value.       *)
Holds(h, u, what, value) ==
  /\ Active(u)
  /\ Starts(h, [at |-> "row", row |-> u, then |-> {}, sets |-> what, value |-> value])
  /\ UNCHANGED <<exists, ticks, post, born, deleted, lastMessage, member, late, crossed>>

Leave(h, u) == /\ Holds(h, u, "left", [member[u] EXCEPT !.left = TRUE])
               /\ UNCHANGED seen
Mute(h, u)  == Holds(h, u, "muted", member[u]) /\ UNCHANGED seen

(* markRead goes no further for a message before the watermark.            *)
Later(m, n) == JsDate(born[n]) > JsDate(born[m]) \/ (JsDate(born[n]) = JsDate(born[m]) /\ n >= m)
AdvancesAnyway(u, m) == TRUE                              \* variant
Advances(u, m) == member[u].mark # Nothing => Later(member[u].mark, m)

MarkRead(h, u, m) ==
  /\ m \in Sent /\ Advances(u, m)
  /\ Holds(h, u, "mark", [member[u] EXCEPT !.mark = m])
  /\ seen' = [seen EXCEPT ![u] = @ \union {n \in Sent : born[n] <= born[m]}]

(* editMessage and deleteMessage: the sender's.                            *)
Edit(h, m) ==
  /\ m \in Sent \ deleted /\ Active(Sender[m])
  /\ Starts(h, [at |-> "row", row |-> m, then |-> {}, sets |-> "body", value |-> FALSE])
  /\ UNCHANGED <<exists, ticks, post, born, deleted, lastMessage, member, seen, late, crossed>>

Delete(h, m) ==
  /\ m \in Sent /\ Active(Sender[m])
  /\ Starts(h, [at |-> "row", row |-> m, then |-> {}, sets |-> "deleted", value |-> TRUE])
  /\ UNCHANGED <<exists, ticks, post, born, deleted, lastMessage, member, seen, late, crossed>>

Save(h) ==
  LET r == doing[h] IN
  /\ r.at = "row"
  /\ IF r.row \in User
     THEN member' = [member EXCEPT ![r.row] = r.value] /\ UNCHANGED deleted
     ELSE /\ deleted' = IF r.value THEN deleted \union {r.row} ELSE deleted \ {r.row}
          /\ UNCHANGED member
  /\ Sets(h, Onward(r.then))
  /\ crossed' = IF \E g \in Handler \ {h} : doing[g].at = "row" /\ doing[g].row = r.row
                THEN crossed \union {r.row} ELSE crossed
  /\ UNCHANGED <<made, exists, ticks, post, born, lastMessage, seen, late>>

(* sendMessage: the transaction begins, commits or fails; a message whose  *)
(* Rows of the tables.                                                     *)
MessageRow == {"unsent", "open", "sent"}
MemberRow == [left : BOOLEAN, mark : Text \union {Nothing}]

(* client id is stored already is answered and not stored again.           *)
Begin(m) ==
  /\ post[m] = "unsent" /\ Active(Sender[m])
  /\ post' = [post EXCEPT ![m] = "open"]
  /\ ticks' = ticks + 1
  /\ born' = [born EXCEPT ![m] = ticks']
  /\ UNCHANGED <<made, exists, deleted, lastMessage, member, doing, seen, late, crossed>>

Commit(m) ==
  /\ post[m] = "open"
  /\ post' = [post EXCEPT ![m] = "sent"]
  /\ lastMessage' = JsDate(born[m])
  /\ late' = IF \E n \in Sent : born[n] > born[m] THEN late \union {m} ELSE late
  /\ UNCHANGED <<made, exists, ticks, born, deleted, member, doing, seen, crossed>>

Fail(m) ==
  /\ post[m] = "open" /\ ticks < Cardinality(Text) + 1
  /\ post' = [post EXCEPT ![m] = "unsent"]
  /\ UNCHANGED <<made, exists, ticks, born, deleted, lastMessage, member, doing, seen, late, crossed>>
-----------------------------------------------------------------------------
Next ==
  \/ \E h \in Handler, u \in User : Open(h, u) \/ Leave(h, u) \/ Mute(h, u)
  \/ \E h \in Handler, u \in User, m \in Text : MarkRead(h, u, m)
  \/ \E h \in Handler, m \in Text : Edit(h, m) \/ Delete(h, m)
  \/ \E h \in Handler : Create(h) \/ Ensure(h) \/ Save(h)
  \/ \E m \in Text : Begin(m) \/ Commit(m) \/ Fail(m)

Spec == Init /\ [][Next]_chatVars

TypeOK ==
  /\ post \in [Text -> MessageRow]
  /\ member \in [User -> MemberRow]
  /\ deleted \subseteq Sent /\ late \subseteq Sent
  /\ exists \in BOOLEAN /\ ticks \in Nat

(* What unreadForMember counts.                                            *)
AfterInMs(m, t, id) == JsDate(born[m]) > t \/ (JsDate(born[m]) = t /\ m > id)  \* variant
After(m, t, id) == born[m] > t \/ (born[m] = t /\ m > id)
Unread(u) ==
  {m \in Sent \ deleted : /\ Sender[m] # u
                          /\ LET w == member[u].mark IN
                             w # Nothing => After(m, JsDate(born[w]), w)}

(* Unless two handlers overlap on a row: the read watermark never goes     *)
(* back, a deleted message stays deleted, and nobody who left is a member  *)
(* again but by opening the conversation.                                  *)
UndoesNothing ==
  /\ \A u \in User \ crossed' :
       /\ member[u].mark # Nothing => Later(member[u].mark, member'[u].mark)
       /\ exists /\ member[u].left /\ ~member'[u].left =>
            \E h \in Handler : doing[h].at = "row" /\ doing[h].sets = "join"
  /\ deleted \subseteq deleted' \union crossed'


(* A message of another member that was not there when a member last read  *)
(* counts as unread, unless it was sent while a younger one was (its time  *)
(* is the transaction's begin) or a handler's save crossed another's; what *)
(* was there counts as read, but for the millisecond of the watermark,     *)
(* which the query counts again.  The list of conversations is ordered by  *)
(* the youngest message under the first proviso.                           *)
UnreadIsHonest ==
  /\ \A u \in User \ crossed, m \in Sent \ deleted :
       /\ Sender[m] # u /\ m \notin seen[u] \union late => m \in Unread(u)
       /\ m \in seen[u] /\ m \in Unread(u) =>
            \/ \E h \in Handler : doing[h].at = "row" /\ doing[h].row = u
            \/ JsDate(born[m]) = JsDate(born[member[u].mark])
  /\ late = {} => \A m \in Sent : lastMessage >= JsDate(born[m])
=============================================================================
