----------------------------- MODULE GroupChat -----------------------------
(***************************************************************************)
(* A group conversation: src/src/chat/chat.service.ts.  Its founder is its *)
(* admin and asks others in, one after the other; members leave or are     *)
(* removed, write, read, and are told how many messages they have not      *)
(* read.  No handler locks a row: what one has read may have changed when  *)
(* it writes.  Edits, removed messages and the marks of two devices of a   *)
(* user are in Chat; sockets and notifications in ChatRooms.               *)
(*                                                                         *)
(* In an encrypted conversation every member has a wrapped key (of one     *)
(* epoch here).  Every device makes up a key of its own and wraps it for   *)
(* the members; the first to store it wins and the others' are skipped,    *)
(* row by row, in a transaction that locks the conversation.  Neither the  *)
(* reset of the keys nor a change of the members takes that lock.          *)
(***************************************************************************)
EXTENDS Naturals, Sequences, FiniteSets, FiniteSetsExt

CONSTANTS
  User,
  Founder,      \* who creates the group
  Friends,      \* pairs of users that are friends
  Guarded,      \* minors, and those who take messages of friends only
  Companions,   \* pairs in a study session or a battle together
  Handler,      \* requests in progress at a time
  Device,       \* devices that wrap keys, each with a key of its own
  MaxAsks,      \* bound: requests, blocks included
  MaxPosts      \* bound: messages

VARIABLES
  member,       \* conversation_members: "none", "in" or "left"
  mark,         \* of each member, how many messages were there when it read last
  posts,        \* the messages, oldest first: their senders
  blocked,      \* pairs of users of whom one blocks the other
  badge,        \* the number of unread messages a user was last told
  doing,        \* the requests in progress
  asks,         \* how many there were
  raced,        \* history: users who joined, or had counts made at the same time or lost
  trespass,     \* history: a message or a new member in spite of a block that was there all along
  wrap,         \* committed rows: the key wrapped for a user
  put,          \* the put of each device
  mixed         \* history: a reset or a departure met a put, or a member joined when keys were put

keyVars == <<wrap, put, mixed>>
messageVars == <<member, mark, posts, blocked, badge, doing, asks, raced, trespass>>
groupVars == <<messageVars, keyVars>>

Rest == [at |-> "rest"]
Not == [at |-> "no"]
NoKey == "no key"
Inside == {u \in User : member[u] = "in"}
Keyed == {u \in User : wrap[u] # NoKey}
Putting == {d \in Device : put[d] # Not}

Init ==
  /\ member = [u \in User |-> "none"] /\ mark = [u \in User |-> 0]
  /\ posts = <<>> /\ blocked = {} /\ badge = [u \in User |-> 0]
  /\ doing = [h \in Handler |-> Rest] /\ asks = 0
  /\ raced = {} /\ trespass = FALSE
  /\ wrap = [u \in User |-> NoKey] /\ put = [d \in Device |-> Not] /\ mixed = FALSE
-----------------------------------------------------------------------------
(* canMessage: nobody who is blocked; else friends, and companions unless  *)
(* one of the two is a minor or the other takes messages of friends only.  *)
OnlyPolicy(from, to) ==
  {from, to} \in Friends \/ ({from, to} \in Companions /\ from \notin Guarded /\ to \notin Guarded)
CanMessage(from, to) ==
  /\ {from, to} \notin blocked
  /\ \/ {from, to} \in Friends
     \/ {from, to} \in Companions /\ from \notin Guarded /\ to \notin Guarded

(* A request: who asks, whom it is still to look at, and the blocks that   *)
(* have been there since it began.                                         *)
Starts(h, at, by, todo) ==
  /\ doing[h] = Rest /\ asks < MaxAsks /\ asks' = asks + 1
  /\ doing' = [doing EXCEPT ![h] = [at |-> at, by |-> by, todo |-> todo, asked |-> todo, held |-> blocked]]
Goes(h, at) == doing' = [doing EXCEPT ![h].at = at]
Ends(h) == doing' = [doing EXCEPT ![h] = Rest]
Barred(h) == \E u \in doing[h].asked : {doing[h].by, u} \in doing[h].held

(* createConversation and addMembers, by the admin.                        *)
AskCreate(h, ids) ==
  /\ ids # {} /\ Starts(h, "create", Founder, ids)
  /\ UNCHANGED <<member, mark, posts, blocked, badge, raced, trespass, keyVars>>

AskAdd(h, ids) ==
  /\ ids # {} /\ Founder \in Inside /\ Starts(h, "gate", Founder, ids)
  /\ UNCHANGED <<member, mark, posts, blocked, badge, raced, trespass, keyVars>>

(* The gate of all members comes before a creation, and that of each       *)
(* before it is added.                                                     *)
GateCreate(h, u) ==
  /\ doing[h].at = "create" /\ u \in doing[h].todo
  /\ IF CanMessage(Founder, u)
     THEN doing' = [doing EXCEPT ![h].todo = @ \ {u}, ![h].at = IF doing[h].todo = {u} THEN "make" ELSE @]
     ELSE Ends(h)
  /\ UNCHANGED <<member, mark, posts, blocked, badge, asks, raced, trespass, keyVars>>

Make(h) ==
  /\ doing[h].at = "make"
  /\ member' = IF Inside # {} \/ member[Founder] # "none" THEN member     \* another group
               ELSE [u \in User |-> IF u \in doing[h].asked \union {Founder} THEN "in" ELSE "none"]
  /\ trespass' = (trespass \/ Barred(h))
  /\ Ends(h)
  /\ UNCHANGED <<mark, posts, blocked, badge, asks, raced, keyVars>>

GateAdd(h, u) ==
  /\ doing[h].at = "gate" /\ u \in doing[h].todo
  /\ IF CanMessage(Founder, u)
     THEN doing' = [doing EXCEPT ![h].at = "ensure", ![h].asked = {u}]
     ELSE Ends(h)
  /\ UNCHANGED <<member, mark, posts, blocked, badge, asks, raced, trespass, keyVars>>

(* ensureMember: who has left is back, with the mark it had.               *)
EnsureMember(h) ==
  LET u == CHOOSE u \in doing[h].asked : TRUE
      todo == doing[h].todo \ {u}
  IN  /\ doing[h].at = "ensure"
      /\ member' = [member EXCEPT ![u] = "in"]
      /\ raced' = IF u \in Inside THEN raced ELSE raced \union {u}
      /\ trespass' = (trespass \/ Barred(h))
      /\ doing' = [doing EXCEPT ![h] = IF todo = {} THEN Rest ELSE [@ EXCEPT !.at = "gate", !.todo = todo]]
      /\ mixed' = (mixed \/ (u \notin Inside /\ (Keyed # {} \/ Putting # {})))
      /\ UNCHANGED <<mark, posts, blocked, badge, asks, wrap, put>>

(* removeOrLeave: oneself, or by the admin.                                *)
AskRemove(h, by, u) ==
  /\ {by, u} \subseteq Inside /\ by \in {u, Founder}
  /\ Starts(h, "remove", by, {u})
  /\ UNCHANGED <<member, mark, posts, blocked, badge, raced, trespass, keyVars>>

Remove(h) ==
  /\ doing[h].at = "remove"
  /\ member' = [u \in User |-> IF u \in doing[h].asked THEN "left" ELSE member[u]]
  /\ mixed' = (mixed \/ Putting # {})
  /\ Ends(h)
  /\ UNCHANGED <<mark, posts, blocked, badge, asks, raced, trespass, wrap, put>>

(* sendMessage: assertSendAllowed asks for a block with each other member. *)
AskSend(h, by) ==
  /\ by \in Inside /\ Starts(h, IF Inside = {by} THEN "post" ELSE "check", by, Inside \ {by})
  /\ UNCHANGED <<member, mark, posts, blocked, badge, raced, trespass, keyVars>>

IsBlocked(by, u) == {by, u} \in blocked
CheckOther(h, u) ==
  /\ doing[h].at = "check" /\ u \in doing[h].todo
  /\ IF IsBlocked(doing[h].by, u) THEN Ends(h)
     ELSE doing' = [doing EXCEPT ![h].todo = @ \ {u}, ![h].at = IF doing[h].todo = {u} THEN "post" ELSE @]
  /\ UNCHANGED <<member, mark, posts, blocked, badge, asks, raced, trespass, keyVars>>

Post(h) ==
  /\ doing[h].at = "post" /\ Len(posts) < MaxPosts
  /\ posts' = Append(posts, doing[h].by)
  /\ trespass' = (trespass \/ Barred(h))
  /\ Goes(h, "sent")
  /\ UNCHANGED <<member, mark, blocked, badge, asks, raced, keyVars>>

(* afterMessageSent: the members as they are now, each with its count.     *)
Silent(h) == {}
Audience(h) == Inside \ {doing[h].by}
ReadMembers(h) ==
  /\ doing[h].at = "sent"
  /\ doing' = [doing EXCEPT ![h] = IF Audience(h) = {} THEN Rest ELSE [@ EXCEPT !.at = "tell", !.todo = Audience(h)]]
  /\ UNCHANGED <<member, mark, posts, blocked, badge, asks, raced, trespass, keyVars>>

(* markRead: the mark only advances.                                       *)
AskRead(h, u, n) ==
  /\ u \in Inside /\ n \in mark[u] + 1..Len(posts)
  /\ Starts(h, "tell", u, {u})
  /\ mark' = [mark EXCEPT ![u] = n]
  /\ UNCHANGED <<member, posts, blocked, badge, raced, trespass, keyVars>>

(* unreadForMember: the messages of others after the mark.                 *)
AllPosts(u) == Cardinality({i \in DOMAIN posts : posts[i] # u})
Unread(u) == Cardinality({i \in mark[u] + 1..Len(posts) : posts[i] # u})
CountedBy(u) == {h \in Handler : doing[h].at = "count" /\ doing[h].user = u}

Counted(u) == Unread(u)
Count(h, u) ==
  /\ doing[h].at = "tell" /\ u \in doing[h].todo
  /\ doing' = [doing EXCEPT ![h] = [at |-> "count", by |-> @.by, user |-> u, count |-> Counted(u),
                                    todo |-> @.todo \ {u}, asked |-> {}, held |-> {}]]
  /\ raced' = IF CountedBy(u) = {} THEN raced ELSE raced \union {u}
  /\ UNCHANGED <<member, mark, posts, blocked, badge, asks, trespass, keyVars>>

Tell(h) ==
  /\ doing[h].at = "count"
  /\ badge' = [badge EXCEPT ![doing[h].user] = doing[h].count]
  /\ doing' = [doing EXCEPT ![h] = IF @.todo = {} THEN Rest
                                   ELSE [at |-> "tell", by |-> @.by, todo |-> @.todo, asked |-> {}, held |-> {}]]
  /\ UNCHANGED <<member, mark, posts, blocked, asks, raced, trespass, keyVars>>

(* Somebody blocks or unblocks somebody; the service stops.                *)
Block(pair) ==
  /\ asks < MaxAsks /\ asks' = asks + 1
  /\ blocked' = IF pair \in blocked THEN blocked \ {pair} ELSE blocked \union {pair}
  /\ doing' = [h \in Handler |-> IF doing[h] = Rest THEN Rest ELSE [doing[h] EXCEPT !.held = @ \ {pair}]]
  /\ UNCHANGED <<member, mark, posts, badge, raced, trespass, keyVars>>

Stop(h) ==
  /\ doing[h] # Rest
  /\ raced' = IF doing[h].at \in {"sent", "tell", "count"} THEN User ELSE raced
  /\ Ends(h)
  /\ UNCHANGED <<member, mark, posts, blocked, badge, asks, trespass, keyVars>>

-----------------------------------------------------------------------------
(* putConversationKeyWraps, by the device of a member: the members are     *)
(* read before the lock, the rows under it.                                *)
Wrap(d) ==
  /\ put[d] = Not /\ Inside # {}
  /\ put' = [put EXCEPT ![d] = [at |-> "waits", todo |-> Inside, rows |-> {}]]
  /\ UNCHANGED <<messageVars, wrap, mixed>>

NoLock == TRUE                                              \* variant
LockFree == \A d \in Device : put[d].at # "holds"

Lock(d) ==
  /\ put[d].at = "waits" /\ LockFree
  /\ put' = [put EXCEPT ![d].at = "holds"]
  /\ UNCHANGED <<messageVars, wrap, mixed>>

Row(d, u) ==
  /\ put[d].at = "holds" /\ u \in put[d].todo
  /\ put' = [put EXCEPT ![d].todo = @ \ {u},
                        ![d].rows = IF wrap[u] = NoKey THEN @ \union {u} ELSE @]
  /\ UNCHANGED <<messageVars, wrap, mixed>>

(* The commit; a row that another stored breaks the unique key.            *)
Commit(d) ==
  /\ put[d].at = "holds" /\ put[d].todo = {}
  /\ wrap' = IF put[d].rows \intersect Keyed # {} THEN wrap
             ELSE [u \in User |-> IF u \in put[d].rows THEN d ELSE wrap[u]]
  /\ put' = [put EXCEPT ![d] = Not]
  /\ UNCHANGED <<messageVars, mixed>>

Reset ==
  /\ Inside # {}
  /\ wrap' = [u \in User |-> NoKey]
  /\ mixed' = (mixed \/ ~LockFree)
  /\ UNCHANGED <<messageVars, put>>
-----------------------------------------------------------------------------
Next ==
  \/ \E d \in Device : Wrap(d) \/ Lock(d) \/ Commit(d) \/ \E u \in User : Row(d, u)
  \/ Reset
  \/ \E pair \in kSubset(2, User) : Block(pair)
  \/ \E h \in Handler :
       \/ Make(h) \/ EnsureMember(h) \/ Remove(h) \/ Post(h) \/ ReadMembers(h) \/ Tell(h) \/ Stop(h)
       \/ \E ids \in SUBSET (User \ {Founder}) : AskCreate(h, ids) \/ AskAdd(h, ids)
       \/ \E u \in User :
            \/ AskSend(h, u) \/ GateCreate(h, u) \/ GateAdd(h, u) \/ CheckOther(h, u) \/ Count(h, u)
            \/ \E by \in User : AskRemove(h, by, u)
            \/ \E n \in 1..MaxPosts : AskRead(h, u, n)

Spec == Init /\ [][Next]_groupVars
-----------------------------------------------------------------------------
TypeOK ==
  /\ member \in [User -> {"none", "in", "left"}]
  /\ mark \in [User -> 0..MaxPosts] /\ badge \in [User -> 0..MaxPosts]
  /\ posts \in Seq(User) /\ Len(posts) <= MaxPosts
  /\ blocked \subseteq kSubset(2, User) /\ raced \subseteq User
  /\ asks \in 0..MaxAsks /\ trespass \in BOOLEAN
  /\ wrap \in [User -> Device \union {NoKey}] /\ mixed \in BOOLEAN

(* When no request is in progress, the number a member was last told is    *)
(* the number of messages it has not read - unless it joined after         *)
(* messages, two requests counted for it at the same time, or one was cut  *)
(* off.                                                                    *)
BadgeIsHonest ==
  (\A h \in Handler : doing[h] = Rest) => \A u \in Inside \ raced : badge[u] = Unread(u)

(* No message is sent, and nobody added, by one who was in a block with a  *)
(* member - with the one to add - all through the request, whatever else   *)
(* is blocked and unblocked meanwhile.                                     *)
BlocksAreHeeded == ~trespass

(* Two devices that bootstrap the keys of a conversation together never    *)
(* clash: every member is given the key of the same device, unless keys    *)
(* are reset while they are stored, somebody leaves meanwhile, or joins    *)
(* after they were stored or read.                                         *)
OneKey == ~mixed => \A u, v \in Keyed : wrap[u] = wrap[v]

GroupAssumption ==
  /\ Founder \in User /\ Friends \union Companions \subseteq kSubset(2, User) /\ Guarded \subseteq User
  /\ MaxAsks \in Nat /\ MaxPosts \in Nat
=============================================================================
