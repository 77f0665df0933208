----------------------------- MODULE SystemFlags -----------------------------
(***************************************************************************)
(* One system flag, src/src/system-flags/: its row and the copies that     *)
(* the servers keep of it for a while.  Flags are independent of each      *)
(* other, one stands for all; a user's own value of a flag goes before it  *)
(* and is not modelled.  A row that is missing is seeded, by every server  *)
(* that starts and before every read; TypeORM's save inserts a row or,     *)
(* when it has come into being meanwhile, updates it.                      *)
(***************************************************************************)
EXTENDS Naturals

CONSTANTS
  Server,
  Clerk,       \* handlers in flight
  Ttl,         \* CACHE_TTL_MS
  LastTick,    \* bound: time
  MaxChanges   \* bound: starts of servers and calls of admins

FlagsAssumption == Ttl \in Nat \ {0} /\ LastTick \in Nat /\ MaxChanges \in Nat

VARIABLES
  flag,        \* system_flags: the value, or "none" without a row
  copy,        \* each server's copy
  tick,
  clerks,
  changes,
  changedAt,   \* history: when the row's value last changed
  dropped      \* history: servers that have dropped their copy since

vars == <<flag, copy, tick, clerks, changes, changedAt, dropped>>

(* The definition of the flag, and of the values an admin may post.        *)
Options == {"on", "off"}
Def == [default |-> "on", options |-> Options]
Posted == Options \union {"odd"}

NoCopy == [value |-> "none", until |-> 0, late |-> FALSE]
Free   == [at |-> "idle"]

Init ==
  /\ flag = "none"
  /\ copy = [s \in Server |-> NoCopy]
  /\ tick = 0
  /\ clerks = [c \in Clerk |-> Free]
  /\ changes = 0
  /\ changedAt = 0 /\ dropped = Server

Live(s) == copy[s].until > tick

Become(c, f) == clerks' = [clerks EXCEPT ![c] = f]
On(c) == IF clerks[c].at = "seed" THEN clerks[c].then.on ELSE clerks[c].on
Busy(s)      == {c \in Clerk : clerks[c] # Free /\ On(c) = s}

(* The row gets a value: readers that have read another are late.          *)
Late(c, v) == clerks[c].at = "keep" /\ clerks[c].value # v
Write(c, v, next) ==
  /\ flag' = v
  /\ clerks' = [x \in Clerk |->
       IF x = c THEN next ELSE
       IF Late(x, v) THEN [clerks[x] EXCEPT !.late = TRUE] ELSE clerks[x]]
  /\ IF v = flag THEN UNCHANGED <<changedAt, dropped>>
     ELSE changedAt' = tick /\ dropped' = {}
-----------------------------------------------------------------------------
AlwaysMissing == TRUE                    \* variant: seeds over the row
Missing == flag = "none"

Seeder(job) == [at |-> "seed", then |-> job, blind |-> flag = "none"]

(* ensureSeeded: a handler that finds no row saves the default first.      *)
Start(c, job) ==
  /\ clerks[c] = Free
  /\ Become(c, IF Missing THEN Seeder(job) ELSE job)

(* onModuleInit: a server starts again; what it was doing is lost.         *)
Boot(s, c) ==
  /\ clerks[c] = Free /\ changes < MaxChanges
  /\ changes' = changes + 1
  /\ copy' = [copy EXCEPT ![s] = NoCopy]
  /\ clerks' = [x \in Clerk |->
       IF x = c /\ Missing THEN Seeder([at |-> "idle", on |-> s])
       ELSE IF x \in Busy(s) THEN Free ELSE clerks[x]]
  /\ dropped' = dropped \union {s}
  /\ UNCHANGED <<flag, tick, changedAt>>

(* getSystemRaw without a copy that is live: with one, nothing is done.    *)
Ask(c, s) ==
  /\ ~Live(s)
  /\ Start(c, [at |-> "read", on |-> s])
  /\ UNCHANGED <<flag, copy, tick, changes, changedAt, dropped>>

(* set, by setMany: a value that is no option is refused.                  *)
Normalized(posted) == {v \in Def.options : v = posted}

Set(c, s, posted) ==
  /\ changes < MaxChanges
  /\ changes' = changes + 1
  /\ \E v \in Normalized(posted) : Start(c, [at |-> "save", on |-> s, value |-> v])
  /\ UNCHANGED <<flag, copy, tick, changedAt, dropped>>
-----------------------------------------------------------------------------
Seed(c) ==
  /\ clerks[c].at = "seed"
  /\ Write(c, Def.default, IF clerks[c].then.at = "idle" THEN Free ELSE clerks[c].then)
  /\ UNCHANGED <<copy, tick, changes>>

(* The row is read, and kept for Ttl from when the answer is here.         *)
ReadRow(c) ==
  /\ clerks[c].at = "read"
  /\ Become(c, [at |-> "keep", on |-> clerks[c].on, value |-> flag, late |-> FALSE])
  /\ UNCHANGED <<flag, copy, tick, changes, changedAt, dropped>>

Forever == LastTick + Ttl                \* variant: the copy has no end
Until == tick + Ttl

Keep(c) ==
  /\ clerks[c].at = "keep"
  /\ copy' = [copy EXCEPT ![clerks[c].on] =
       [value |-> clerks[c].value, until |-> Until, late |-> clerks[c].late]]
  /\ Become(c, Free)
  /\ UNCHANGED <<flag, tick, changes, changedAt, dropped>>

(* The row is saved, and then the server's copy is dropped.                *)
Save(c) ==
  /\ clerks[c].at = "save"
  /\ Write(c, clerks[c].value, [at |-> "drop", on |-> clerks[c].on])
  /\ UNCHANGED <<copy, tick, changes>>

CopyStays(c) == copy[clerks[c].on]       \* variant: the copy is not dropped
CopyAfterSet(c) == NoCopy

Drop(c) ==
  /\ clerks[c].at = "drop"
  /\ copy' = [copy EXCEPT ![clerks[c].on] = CopyAfterSet(c)]
  /\ dropped' = dropped \union {clerks[c].on}
  /\ Become(c, Free)
  /\ UNCHANGED <<flag, tick, changes, changedAt>>

(* A copy that has run out is as good as none.                             *)
Tick ==
  /\ tick < LastTick
  /\ tick' = tick + 1
  /\ copy' = [s \in Server |-> IF copy[s].until > tick' THEN copy[s] ELSE NoCopy]
  /\ UNCHANGED <<flag, clerks, changes, changedAt, dropped>>

Next ==
  \/ Tick
  \/ \E c \in Clerk :
       \/ \E s \in Server :
            \/ Boot(s, c)
            \/ Ask(c, s)
            \/ \E v \in Posted : Set(c, s, v)
       \/ Seed(c) \/ ReadRow(c) \/ Keep(c) \/ Save(c) \/ Drop(c)

Spec == Init /\ [][Next]_vars
-----------------------------------------------------------------------------
(* The values of the variables.                                            *)
TypeOK ==
  /\ flag \in Options \union {"none"}
  /\ \A s \in Server : copy[s].value \in Options \/ copy[s] = NoCopy
  /\ tick \in 0..LastTick /\ changes \in 0..MaxChanges
  /\ dropped \subseteq Server

(* What an admin sets takes hold: on the server of the call when it is     *)
(* answered, on the others when their copy of the old value has run out,   *)
(* Ttl after the change.  Only a reader that read the row before and keeps *)
(* it after the change has the old value start anew (getSystemRaw, set).   *)
TakesHold ==
  \A s \in Server :
    Live(s) /\ ~copy[s].late /\ copy[s].value # flag =>
      s \notin dropped /\ copy[s].until <= changedAt + Ttl

(* What an admin has set stays until an admin sets it again, whatever      *)
(* server starts or reads; but for a server that looked for the row before *)
(* there was one (ensureSeeded).                                           *)
SettingStays ==
  flag # "none" /\ flag' # flag =>
    \E c \in Clerk : \/ clerks[c].at = "save"
                     \/ clerks[c].at = "seed" /\ clerks[c].blind
=============================================================================
