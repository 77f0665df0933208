---------------------------- MODULE SocialGraph ----------------------------
(***************************************************************************)
(* Two users and what is between them: friend requests, the friendship,    *)
(* follows, blocks and the counters of both (src/src/social/).             *)
(*                                                                         *)
(* Accepting and blocking are transactions: what they read, lock and count *)
(* comes first, what they write is seen when they commit.  Every other     *)
(* handler checks, writes and rebuilds the counters (count, then save) in  *)
(* statements of their own, and nothing is locked but the request an       *)
(* accept or a block works on.  A user follows, blocks or asks the other   *)
(* one, so each of these relations is a set of users.  Notifications,      *)
(* privacy settings (all allow) and the listings are left out.             *)
(***************************************************************************)
EXTENDS Naturals, FiniteSets

CONSTANTS
  Pair,          \* the two users
  Ask,           \* bound: the friend requests ever made
  Hand,          \* requests in progress at a time
  MaxCalls       \* bound: the calls ever made

SocialAssumption == Cardinality(Pair) = 2

Edge == {1, 2}   \* friendship rows; the index on the pair is not unique
Other(u) == CHOOSE v \in Pair : v # u

VARIABLES
  asked,         \* friend_requests
  expired,       \* those past expiresAt
  edge,          \* friendships: "none", "live" or "ended"
  follows,       \* who follows the other
  blocks,        \* who blocks the other
  counter,       \* social_counters
  hand,          \* the requests in progress
  calls,         \* how many were made, for the bound
  slipped,         \* history: a request or follow was stored after a block
  mirrored,      \* history: two requests were pending together
  overtaken,     \* history: two rebuilds of a user's counters overlapped
  broken         \* history: the process stopped before a rebuild

socialVars == <<asked, expired, edge, follows, blocks, counter, hand, calls,
                slipped, mirrored, overtaken, broken>>

Idle == [at |-> "idle"]
Pending == {r \in Ask : asked[r].status = "pending"}
Live(e) == {i \in Edge : e[i] = "live"}
Counts(e, f) == [u \in Pair |-> [friends   |-> Cardinality(Live(e)),
                                 followers |-> Cardinality(f \ {u}),
                                 following |-> Cardinality(f \cap {u})]]

Init ==
  /\ asked = [r \in Ask |-> [from |-> "nobody", status |-> "none"]]
  /\ expired = {}
  /\ edge = [i \in Edge |-> "none"]
  /\ follows = {} /\ blocks = {}
  /\ counter = Counts(edge, follows)
  /\ hand = [c \in Hand |-> Idle] /\ calls = 0
  /\ slipped = FALSE /\ mirrored = FALSE /\ overtaken = FALSE /\ broken = FALSE
-----------------------------------------------------------------------------
Turns(c, r) == hand' = [hand EXCEPT ![c] = r]
Starts(c, r) == /\ hand[c].at = "idle" /\ calls < MaxCalls
                /\ calls' = calls + 1 /\ Turns(c, r)
Called == calls < MaxCalls /\ calls' = calls + 1
Locked == UNION {hand[c].locks : c \in {d \in Hand : hand[d].at \in {"accept", "block"}}}
Blocking == blocks # {} \/ \E c \in Hand : hand[c].at = "block"
StatusOf(rs, s) == asked' = [r \in Ask |-> IF r \in rs THEN [asked[r] EXCEPT !.status = s]
                                           ELSE asked[r]]

(* sendFriendRequest: a request of the other that waits is accepted, an    *)
(* expired one is closed, one's own is answered with.                      *)
Send(c, u) ==
  /\ blocks = {} /\ Live(edge) = {}
  /\ \/ Pending = {} /\ Starts(c, [at |-> "insert", from |-> u]) /\ UNCHANGED asked
     \/ \E r \in Pending :
          IF r \in expired
          THEN r \notin Locked /\ StatusOf({r}, "expired") /\ Starts(c, [at |-> "insert", from |-> u])
          ELSE asked[r].from # u /\ Starts(c, [at |-> "answer", ask |-> r]) /\ UNCHANGED asked
  /\ UNCHANGED <<expired, edge, follows, blocks, counter, slipped, mirrored, overtaken, broken>>

Insert(c) ==
  /\ hand[c].at = "insert"
  /\ \E r \in Ask :
       /\ asked[r].status = "none" /\ \A s \in Ask : s < r => asked[s].status # "none"
       /\ asked' = [asked EXCEPT ![r] = [from |-> hand[c].from, status |-> "pending"]]
  /\ mirrored' = (mirrored \/ Pending # {})
  /\ slipped' = (slipped \/ Blocking)
  /\ Turns(c, Idle)
  /\ UNCHANGED <<calls, expired, edge, follows, blocks, counter, overtaken, broken>>

(* acceptFriendRequest, called by the receiver or from sendFriendRequest.  *)
Lockless(r) == TRUE                                     \* variant
Unlocked(r) == r \notin Locked
Row(e) == IF Live(e) # {} THEN Live(e)
          ELSE IF \E i \in Edge : e[i] = "ended" THEN {i \in Edge : e[i] = "ended"}
          ELSE {CHOOSE i \in Edge : e[i] = "none"}

Accept(c, r) ==
  /\ IF hand[c].at = "idle" THEN Called ELSE hand[c].at = "answer" /\ hand[c].ask = r /\ UNCHANGED calls
  /\ Unlocked(r) /\ r \in Pending \ expired /\ blocks = {}
  /\ \E i \in Row(edge) :
       Turns(c, [at |-> "accept", locks |-> {r}, new |-> edge[i] = "none",
                 revives |-> IF edge[i] = "ended" THEN {i} ELSE {}, adds |-> Pair \ follows,
                 count |-> Counts([edge EXCEPT ![i] = "live"], Pair)])
  /\ UNCHANGED <<asked, expired, edge, follows, blocks, counter, slipped, mirrored, overtaken, broken>>

(* Handlers that have counted user u and not saved the counters yet.       *)
Counting(c, u) == \E d \in Hand \ {c} : \/ hand[d].at \in {"accept", "block"}
                                        \/ hand[d].at = "save" /\ hand[d].user = u

Accepted(c) ==
  /\ hand[c].at = "accept" /\ hand[c].adds \cap follows = {}
  /\ StatusOf(hand[c].locks, "accepted")
  /\ edge' = [i \in Edge |->
       IF i \in hand[c].revives \/ (hand[c].new /\ edge[i] = "none" /\ (i = 1 \/ edge[1] # "none"))
       THEN "live" ELSE edge[i]]
  /\ follows' = follows \union hand[c].adds
  /\ counter' = hand[c].count
  /\ overtaken' = (overtaken \/ \E u \in Pair : Counting(c, u))
  /\ Turns(c, Idle)
  /\ UNCHANGED <<calls, expired, blocks, slipped, mirrored, broken>>

(* declineFriendRequest asks for no status; cancelFriendRequest did.       *)
Decline(r) ==
  /\ Called
  /\ asked[r].status # "none" /\ Unlocked(r)
  /\ StatusOf({r}, "declined")
  /\ UNCHANGED <<expired, edge, follows, blocks, counter, hand, slipped, mirrored, overtaken, broken>>

Cancel(c, r) ==
  /\ r \in Pending
  /\ Starts(c, [at |-> "cancel", ask |-> r])
  /\ UNCHANGED <<asked, expired, edge, follows, blocks, counter, slipped, mirrored, overtaken, broken>>

Cancelled(c) ==
  /\ hand[c].at = "cancel" /\ Unlocked(hand[c].ask)
  /\ StatusOf({hand[c].ask}, "cancelled")
  /\ Turns(c, Idle)
  /\ UNCHANGED <<calls, expired, edge, follows, blocks, counter, slipped, mirrored, overtaken, broken>>

ExpireStale ==
  /\ Pending \cap expired # {} /\ \A r \in Pending \cap expired : Unlocked(r)
  /\ StatusOf(Pending \cap expired, "expired")
  /\ UNCHANGED <<calls, expired, edge, follows, blocks, counter, hand, slipped, mirrored, overtaken, broken>>

PassExpiry(r) ==
  /\ Called
  /\ r \in Pending \ expired
  /\ expired' = expired \union {r}
  /\ UNCHANGED <<asked, edge, follows, blocks, counter, hand, slipped, mirrored, overtaken, broken>>

(* removeFriend, follow, unfollow: what is written, then both rebuilds.    *)
RebuildsNone == Idle                                    \* variant
Rebuilds == [at |-> "count", todo |-> Pair]

Remove(c) ==
  /\ \E i \in Live(edge), too \in BOOLEAN :
       Starts(c, [at |-> "remove", row |-> i, unfollow |-> too])
  /\ UNCHANGED <<asked, expired, edge, follows, blocks, counter, slipped, mirrored, overtaken, broken>>

Removed(c) ==
  /\ hand[c].at = "remove"
  /\ edge' = [edge EXCEPT ![hand[c].row] = "ended"]
  /\ follows' = IF hand[c].unfollow THEN {} ELSE follows
  /\ Turns(c, Rebuilds)
  /\ UNCHANGED <<calls, asked, expired, blocks, counter, slipped, mirrored, overtaken, broken>>

Follow(c, u) ==
  /\ blocks = {} /\ u \notin follows
  /\ Starts(c, [at |-> "follow", from |-> u])
  /\ UNCHANGED <<asked, expired, edge, follows, blocks, counter, slipped, mirrored, overtaken, broken>>

Followed(c) ==
  /\ hand[c].at = "follow" /\ hand[c].from \notin follows
  /\ follows' = follows \union {hand[c].from}
  /\ slipped' = (slipped \/ Blocking)
  /\ Turns(c, Rebuilds)
  /\ UNCHANGED <<calls, asked, expired, edge, blocks, counter, mirrored, overtaken, broken>>

Unfollow(c, u) ==
  /\ follows' = follows \ {u}
  /\ Starts(c, Rebuilds)
  /\ UNCHANGED <<asked, expired, edge, blocks, counter, slipped, mirrored, overtaken, broken>>

(* rebuildCounters, one user after the other.                              *)
Count(c) ==
  /\ hand[c].at = "count"
  /\ \E u \in hand[c].todo :
       Turns(c, [at |-> "save", user |-> u, count |-> Counts(edge, follows)[u],
                 todo |-> hand[c].todo \ {u}])
  /\ UNCHANGED <<calls, asked, expired, edge, follows, blocks, counter, slipped, mirrored, overtaken, broken>>

SaveCount(c) ==
  LET u == hand[c].user IN
  /\ hand[c].at = "save"
  /\ counter' = [counter EXCEPT ![u] = hand[c].count]
  /\ overtaken' = (overtaken \/ Counting(c, u))
  /\ Turns(c, IF hand[c].todo = {} THEN Idle ELSE [at |-> "count", todo |-> hand[c].todo])
  /\ UNCHANGED <<calls, asked, expired, edge, follows, blocks, slipped, mirrored, broken>>

(* blockUser: the requests are updated, and so locked, before the          *)
(* friendship is read.                                                     *)
KeptFriend == {{}}                                      \* variant
Ended == IF Live(edge) = {} THEN {{}} ELSE {{i} : i \in Live(edge)}

Block(c, u) ==
  /\ \A r \in Pending : Unlocked(r)
  /\ \E is \in Ended :
       Starts(c, [at |-> "block", by |-> u, new |-> u \notin blocks, locks |-> Pending, ends |-> is,
                 count |-> Counts([i \in Edge |-> IF i \in is THEN "ended" ELSE edge[i]], {})])
  /\ UNCHANGED <<asked, expired, edge, follows, blocks, counter, slipped, mirrored, overtaken, broken>>

Blocked(c) ==
  /\ hand[c].at = "block" /\ (hand[c].new => hand[c].by \notin blocks)
  /\ blocks' = blocks \union {hand[c].by}
  /\ StatusOf(hand[c].locks, "cancelled")
  /\ edge' = [i \in Edge |-> IF i \in hand[c].ends THEN "ended" ELSE edge[i]]
  /\ follows' = {}
  /\ counter' = hand[c].count
  /\ overtaken' = (overtaken \/ \E u \in Pair : Counting(c, u))
  /\ Turns(c, Idle)
  /\ UNCHANGED <<calls, expired, slipped, mirrored, broken>>

Unblock(u) ==
  /\ Called
  /\ u \in blocks
  /\ blocks' = blocks \ {u}
  /\ UNCHANGED <<asked, expired, edge, follows, counter, hand, slipped, mirrored, overtaken, broken>>

(* Rows of the tables; of follows and user_blocks there is one for each    *)
(* pair at most.                                                           *)
FriendshipRow == {"none", "live", "ended"}
FollowRows == SUBSET Pair
BlockRows == SUBSET Pair
CounterRow == [friends : 0..2, followers : 0..1, following : 0..1]

(* A refusal, a unique key, a crash.                                       *)
Stop(c) ==
  /\ hand[c].at # "idle"
  /\ Turns(c, Idle)
  /\ broken' = (broken \/ hand[c].at \in {"count", "save"})
  /\ UNCHANGED <<calls, asked, expired, edge, follows, blocks, counter, slipped, mirrored, overtaken>>
-----------------------------------------------------------------------------
Next ==
  \/ \E c \in Hand, u \in Pair : Send(c, u) \/ Follow(c, u) \/ Unfollow(c, u) \/ Block(c, u)
  \/ \E c \in Hand, r \in Ask : Accept(c, r) \/ Cancel(c, r)
  \/ \E c \in Hand : \/ Insert(c) \/ Accepted(c) \/ Cancelled(c) \/ Remove(c) \/ Removed(c)
                     \/ Followed(c) \/ Count(c) \/ SaveCount(c) \/ Blocked(c) \/ Stop(c)
  \/ \E r \in Ask : Decline(r) \/ PassExpiry(r)
  \/ ExpireStale
  \/ \E u \in Pair : Unblock(u)

Spec == Init /\ [][Next]_socialVars

TypeOK ==
  /\ edge \in [Edge -> FriendshipRow]
  /\ follows \in FollowRows /\ blocks \in BlockRows /\ expired \subseteq Ask
  /\ counter \in [Pair -> CounterRow]
  /\ {slipped, mirrored, overtaken, broken} \subseteq BOOLEAN

(* Users of whom one blocks the other are not friends, do not follow each  *)
(* other and have no request pending, however accepts and blocks overlap:  *)
(* both lock the request.  Excepted are a request or follow that passed    *)
(* its check before the block and was stored after it began, and requests  *)
(* both ways at once, which make two friendships of which one is ended.    *)
BlockedApart ==
  blocks # {} /\ ~slipped /\ ~mirrored => Live(edge) = {} /\ follows = {} /\ Pending = {}

(* When nothing is in progress the counters of both users are what there   *)
(* is to count, unless two rebuilds of one user overlapped or the process  *)
(* stopped before one.                                                     *)
CountersRight ==
  (\A c \in Hand : hand[c].at = "idle") /\ ~overtaken /\ ~broken =>
    counter = Counts(edge, follows)
=============================================================================
