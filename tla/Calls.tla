------------------------------- MODULE Calls -------------------------------
(***************************************************************************)
(* Voice and video calls: src/src/calls/call.service.ts and the call       *)
(* events of src/src/chat/chat.gateway.ts.                                 *)
(*                                                                         *)
(* A handler reads the call's row, decides, saves the row and then sets or *)
(* clears the in_call keys in Redis, which say which call a user is in;    *)
(* the timers (unanswered invitation, grace after the last socket closed)  *)
(* live in the process and die with it.  Nothing is locked: handlers       *)
(* overlap as they like, and save() writes whatever columns differ from    *)
(* the row by then, so that of two the later one wins.  Modes, the reasons *)
(* of an end, TURN credentials and the invitation rate are left out.       *)
(***************************************************************************)
EXTENDS Naturals, FiniteSets

CONSTANTS
  Person,         \* users
  CallId,         \* calls, each with its parties
  Caller, Callee, \* the parties of a call
  Handler,        \* handlers in progress at a time
  Roaming,        \* users whose sockets close
  Beyond          \* whether handlers begin once the history is marred: of
                  \* what they do then nothing is said

State == {"none", "ringing", "connecting", "active", "ended"}
NoCall == "no call"

CallsAssumption ==
  /\ NoCall \notin CallId
  /\ Caller \in [CallId -> Person] /\ Callee \in [CallId -> Person]
  /\ \A k \in CallId : Caller[k] # Callee[k]
  /\ Roaming \subseteq Person /\ Beyond \in BOOLEAN

VARIABLES
  state,         \* of a call's row, "none" before its invitation
  stale,         \* older than its state may last
  inCall,        \* the in_call keys
  timer,         \* calls whose invitation timeout is armed
  grace,         \* users whose disconnect grace runs
  hand,          \* the handlers
  marred,        \* history: handlers overlapped on a user, a key expired in a
                 \* call, or the process stopped before it set a call's keys
  torn           \* history: the process stopped before it cleared a call's keys

callVars == <<state, stale, inCall, timer, grace, hand, marred, torn>>

Parties(k) == {Caller[k], Callee[k]}
Live(k) == state[k] \in {"ringing", "connecting", "active"}

(* A handler looks at a user's key, drops it, saves the row of a call or   *)
(* writes its keys; `invite' is the invitation it goes on with then.       *)
Free == [at |-> "free"]
LookAt(u, k) == [at |-> "look", who |-> u, invite |-> k]
DropOf(u, k) == [at |-> "drop", who |-> u, invite |-> k]
Change(l, to, u, k) == [at |-> "save", call |-> l, to |-> to, who |-> u, invite |-> k]
Ring(k) == Change(k, "new", Caller[k], NoCall)
End(l, u, k) == Change(l, "ended", u, k)

Concern(r) ==
  IF r.at = "free" THEN {}
  ELSE {r.who} \union (IF r.invite = NoCall THEN {} ELSE Parties(r.invite))
               \union (IF r.at \in {"save", "keys"} THEN Parties(r.call) ELSE {})

Init ==
  /\ state = [k \in CallId |-> "none"] /\ stale = [k \in CallId |-> FALSE]
  /\ inCall = [u \in Person |-> NoCall]
  /\ timer = {} /\ grace = {}
  /\ hand = [h \in Handler |-> Free]
  /\ marred = FALSE /\ torn = FALSE
-----------------------------------------------------------------------------
Becomes(h, r) ==
  /\ hand' = [hand EXCEPT ![h] = r]
  /\ marred' = (marred \/ \E g \in Handler \ {h} : Concern(hand[g]) \intersect Concern(r) # {})

Begins(h) == hand[h] = Free /\ (marred => Beyond)

(* invite up to the look at its parties; a call is invited once.           *)
Invite(h, k) ==
  /\ Begins(h) /\ state[k] = "none"
  /\ Becomes(h, LookAt(Caller[k], k))
  /\ UNCHANGED <<state, stale, inCall, timer, grace, torn>>

(* What comes after a user who is in no call.                              *)
Resume(r) ==
  IF r.invite = NoCall THEN Free
  ELSE IF r.who = Caller[r.invite] THEN LookAt(Callee[r.invite], r.invite)
  ELSE Ring(r.invite)

(* reconcileInCall: the key of an ended call is deleted, a ringing or      *)
(* connecting call that is too old is ended first; for a live one, invite  *)
(* gives up or leaves the row of a busy call, and releaseCallsAfterGrace   *)
(* ends it, unless it is active.  A look is one step: what comes between   *)
(* its reads is a handler that overlaps.                                   *)
TooOld(l) == stale[l] /\ state[l] \in {"ringing", "connecting"}
IfLive(r, l) ==
  IF r.invite = NoCall THEN IF state[l] = "active" THEN Free ELSE End(l, Caller[l], NoCall)
  ELSE IF r.who = Caller[r.invite] THEN Free
  ELSE Change(r.invite, "busy", r.who, NoCall)
Looked(r, l) ==
  IF l = NoCall THEN Resume(r)
  ELSE IF state[l] = "ended" THEN DropOf(r.who, r.invite)
  ELSE IF TooOld(l) THEN End(l, r.who, r.invite)
  ELSE IfLive(r, l)

Look(h) ==
  LET r == hand[h] next == Looked(r, inCall[r.who]) IN
  /\ r.at = "look"
  /\ timer' = IF next.at = "save" /\ next.to = "ended" THEN timer \ {next.call} ELSE timer
  /\ Becomes(h, next)
  /\ UNCHANGED <<state, stale, inCall, grace, torn>>

(* The key is deleted, whatever it says by now.                            *)
Drop(h) ==
  LET r == hand[h] IN
  /\ r.at = "drop"
  /\ inCall' = [inCall EXCEPT ![r.who] = NoCall]
  /\ Becomes(h, Resume(r))
  /\ UNCHANGED <<state, stale, timer, grace, torn>>

(* accept, markConnected, upgrade (whose save writes the state as it was   *)
(* read), decline and hangup.                                              *)
Accept(h, k) ==
  /\ Begins(h) /\ state[k] = "ringing"
  /\ timer' = timer \ {k}
  /\ Becomes(h, Change(k, "connecting", Callee[k], NoCall))
  /\ UNCHANGED <<state, stale, inCall, grace, torn>>

Connected(h, k) ==
  /\ Begins(h) /\ state[k] = "connecting"
  /\ Becomes(h, Change(k, "active", Caller[k], NoCall))
  /\ UNCHANGED <<state, stale, inCall, timer, grace, torn>>

Upgrade(h, k) ==
  /\ Begins(h) /\ Live(k)
  /\ Becomes(h, Change(k, state[k], Caller[k], NoCall))
  /\ UNCHANGED <<state, stale, inCall, timer, grace, torn>>

HangUp(h, k) ==
  /\ Begins(h) /\ Live(k)
  /\ timer' = timer \ {k}
  /\ Becomes(h, End(k, Caller[k], NoCall))
  /\ UNCHANGED <<state, stale, inCall, grace, torn>>

(* onInviteTimeout                                                         *)
Unanswered(h, k) ==
  /\ Begins(h) /\ k \in timer
  /\ timer' = timer \ {k}
  /\ Becomes(h, IF state[k] = "ringing" THEN End(k, Caller[k], NoCall) ELSE Free)
  /\ UNCHANGED <<state, stale, inCall, grace, torn>>

(* releaseCallsAfterGrace, up to its look at the user's key.               *)
Release(h, u) ==
  /\ Begins(h) /\ u \in grace
  /\ grace' = grace \ {u}
  /\ Becomes(h, LookAt(u, NoCall))
  /\ UNCHANGED <<state, stale, inCall, timer, torn>>

Saved(to) == IF to = "new" THEN "ringing" ELSE IF to = "busy" THEN "ended" ELSE to

Save(h) ==
  LET r == hand[h] IN
  /\ r.at = "save"
  /\ state' = [state EXCEPT ![r.call] = Saved(r.to)]
  /\ Becomes(h, IF r.to \in {"new", "ended"} THEN [r EXCEPT !.at = "keys"] ELSE Free)
  /\ UNCHANGED <<stale, inCall, timer, grace, torn>>

(* setInCall twice and the timer, or clearInCall twice.                    *)
SetKeys(k) == [u \in Person |-> IF u \in Parties(k) THEN k ELSE inCall[u]]
ClearCaller(k) == [inCall EXCEPT ![Caller[k]] = IF @ = k THEN NoCall ELSE @]   \* variant
ClearKeys(k) == [u \in Person |-> IF inCall[u] = k THEN NoCall ELSE inCall[u]]

Keys(h) ==
  LET r == hand[h] IN
  /\ r.at = "keys"
  /\ inCall' = IF r.to = "new" THEN SetKeys(r.call) ELSE ClearKeys(r.call)
  /\ timer' = IF r.to = "new" THEN timer \union {r.call} ELSE timer
  /\ Becomes(h, Resume(r))
  /\ UNCHANGED <<state, stale, grace, torn>>
-----------------------------------------------------------------------------
(* The clock, the sockets, Redis, the process.                             *)
Age(k) ==
  /\ Live(k) /\ ~stale[k] /\ k \notin timer
  /\ stale' = [stale EXCEPT ![k] = TRUE]
  /\ UNCHANGED <<state, inCall, timer, grace, hand, marred, torn>>

Disconnect(u) ==
  /\ u \in Roaming \ grace
  /\ grace' = grace \union {u}
  /\ UNCHANGED <<state, stale, inCall, timer, hand, marred, torn>>

Reconnect(u) ==
  /\ u \in grace
  /\ grace' = grace \ {u}
  /\ UNCHANGED <<state, stale, inCall, timer, hand, marred, torn>>

(* A key lives for an hour, however long the call is.                      *)
Expire(u) ==
  /\ inCall[u] # NoCall /\ stale[inCall[u]]
  /\ inCall' = [inCall EXCEPT ![u] = NoCall]
  /\ marred' = (marred \/ Live(inCall[u]))
  /\ UNCHANGED <<state, stale, timer, grace, hand, torn>>

Writing(to) == \E h \in Handler : hand[h].at = "keys" /\ hand[h].to = to

Crash ==
  /\ timer \union grace # {} \/ \E h \in Handler : hand[h] # Free
  /\ timer' = {} /\ grace' = {}
  /\ hand' = [h \in Handler |-> Free]
  /\ marred' = (marred \/ Writing("new")) /\ torn' = (torn \/ Writing("ended"))
  /\ UNCHANGED <<state, stale, inCall>>
-----------------------------------------------------------------------------
Next ==
  \/ \E h \in Handler :
       \/ \E k \in CallId : \/ Invite(h, k) \/ Accept(h, k) \/ Connected(h, k)
                            \/ Upgrade(h, k) \/ HangUp(h, k) \/ Unanswered(h, k)
       \/ \E u \in Person : Release(h, u)
       \/ Look(h) \/ Drop(h) \/ Save(h) \/ Keys(h)
  \/ \E k \in CallId : Age(k)
  \/ \E u \in Person : Disconnect(u) \/ Reconnect(u) \/ Expire(u)
  \/ Crash

Spec == Init /\ [][Next]_callVars

TypeOK ==
  /\ state \in [CallId -> State]
  /\ stale \in [CallId -> BOOLEAN]
  /\ inCall \in [Person -> CallId \union {NoCall}]
  /\ timer \subseteq CallId /\ grace \subseteq Person
  /\ {marred, torn} \subseteq BOOLEAN

(* Whatever restarts, lost timers, closed sockets and rows too old there   *)
(* were, and whoever else is called at the same time: a user is in one     *)
(* live call at most, and but for a call whose keys are just being written *)
(* the keys of both its parties name it while it is live, and none when it *)
(* has ended (they may, until somebody looks at them, if the process       *)
(* stopped before it cleared them).  All of it only as long as no two      *)
(* handlers have overlapped on one user, no key has expired in a call and  *)
(* no stop has kept a call from its keys.                                  *)
OneCallAtATime ==
  ~marred =>
    /\ \A k, l \in CallId : Live(k) /\ Live(l) /\ k # l => Parties(k) \intersect Parties(l) = {}
    /\ \A k \in CallId, u \in Person :
         \/ inCall[u] = k <=> Live(k) /\ u \in Parties(k)
         \/ \E h \in Handler : hand[h].at = "keys" /\ hand[h].call = k
         \/ torn /\ state[k] = "ended" /\ u \in Parties(k)
=============================================================================
