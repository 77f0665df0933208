----------------------------- MODULE LeagueScore ----------------------------
(***************************************************************************)
(* A league cohort during one season: the consumers of the outbox          *)
(* (GamificationService.processPendingOutbox) that add league XP           *)
(* (LeagueScoreService.applyQualifiedXp) and the finalizers of the season  *)
(* (LeagueFinalizeService.finalizeSeason).                                 *)
(*                                                                         *)
(* Each reward is queued as two events (enqueueRewardGranted), which name  *)
(* the same ledger line.  Anyone may poll at any time and nothing claims   *)
(* an event.  A scoring transaction locks its member's row, then writes    *)
(* the position of every peer in rank order, and so waits for their rows;  *)
(* a finalizer writes every row too.  PostgreSQL aborts a transaction of a *)
(* cycle of waits.  Prizes are paid on another connection.                 *)
(*                                                                         *)
(* All events occur in the season and arrive within its grace; the hourly  *)
(* velocity cap and battle cap are above what the rewards add up to.       *)
(***************************************************************************)
EXTENDS Integers, FiniteSets, FiniteSetsExt

CONSTANTS
  Member,     \* memberships of the cohort
  Line,       \* ledger lines of league XP, numbered as they were written
  Earner,     \* whose line it is
  Xp,         \* its amount
  Hash,       \* the last tie-break: an order of the members
  Consumer, Finalizer,
  Nobody,     \* the holder of a free row
  MaxFaults   \* bound: crashes and thrown exceptions

Session == Consumer \cup Finalizer

ASSUME CohortAssumption ==
  /\ IsFiniteSet(Member) /\ Line \subseteq Nat
  /\ Earner \in [Line -> Member] /\ Xp \in [Line -> Nat \ {0}]
  /\ Hash \in [Member -> Nat]
  /\ \A m, n \in Member : m # n => Hash[m] # Hash[n]
  /\ Nobody \notin Session /\ Consumer \cap Finalizer = {}
  /\ MaxFaults \in Nat

Event == Line \X {1, 2}

(* Rows of outbox_events.                                                  *)
EventRow == {"unsent", "pending", "published", "failed"}

Label == {"idle", "next", "lock", "score", "write", "deliver", "reward"}

VARIABLES
  season,    \* status, as committed
  event,     \* outbox_events: status of each
  scored,    \* ledger ids in league_score_events
  xp,        \* league_memberships.qualifiedXp
  position,  \* league_memberships.position
  final,     \* league_final_results.finalXp, -1 without a row
  prizes,    \* times applyRewards paid the member
  rowOwner,  \* holder of each membership row's lock
  seasonOwner, \* holder of the season's locks
  pc, batch, seen, todo,  \* each session's program counter and locals
  faults

store  == <<season, event, scored, xp, position, final>>
locks  == <<rowOwner, seasonOwner>>
local  == <<batch, seen, todo>>
vars   == <<store, prizes, locks, pc, local, faults>>

Init ==
  /\ season = "active"
  /\ event = [e \in Event |-> "unsent"]
  /\ scored = {}
  /\ xp = [m \in Member |-> 0]
  /\ position = [m \in Member |-> 1 + Cardinality({n \in Member : Hash[n] < Hash[m]})]
  /\ final = [m \in Member |-> -1]
  /\ prizes = [m \in Member |-> 0]
  /\ rowOwner = [m \in Member |-> Nobody]
  /\ seasonOwner = Nobody
  /\ pc = [s \in Session |-> "idle"]
  /\ batch = [c \in Session |-> {}]
  /\ seen = [s \in Session |-> [m \in Member |-> 0]]
  /\ todo = [s \in Session |-> {}]
  /\ faults = 0
-----------------------------------------------------------------------------
Before(x, m, n) == x[m] > x[n] \/ (x[m] = x[n] /\ Hash[m] < Hash[n])

(* rankByTieBreak: the members still to be written, the best ranked first. *)
First(x, S) == {m \in S : \A n \in S : ~Before(x, n, m)}

PositionIn(x) == [m \in Member |-> 1 + Cardinality({n \in Member : Before(x, n, m)})]

Goto(s, label) == pc' = [pc EXCEPT ![s] = label]

LeakLocks(s) == UNCHANGED locks   \* variant: the locks outlive the transaction

Unlock(s) ==
  /\ rowOwner' = [m \in Member |-> IF rowOwner[m] = s THEN Nobody ELSE rowOwner[m]]
  /\ seasonOwner' = IF seasonOwner = s THEN Nobody ELSE seasonOwner

Forget(s) ==
  /\ seen' = [seen EXCEPT ![s] = [m \in Member |-> 0]]
  /\ todo' = [todo EXCEPT ![s] = {}]

(* The order of the events: as their lines were written, first and twin.   *)
Turn(e) == 2 * e[1] + e[2]

Oldest(B) == CHOOSE e \in B : \A f \in B : Turn(e) <= Turn(f)

Current(c) == Oldest(batch[c])
Gain(c)    == Xp[Current(c)[1]]
Who(c)     == Earner[Current(c)[1]]

(* The consumer marks its event, whatever another has marked it since, and *)
(* goes on with the next of its batch.                                     *)
Mark(c, status) ==
  /\ event' = [event EXCEPT ![Current(c)] = status]
  /\ batch' = [batch EXCEPT ![c] = @ \ {Current(c)}]
  /\ Goto(c, "next")
-----------------------------------------------------------------------------
(* A lesson's transaction commits: both its events appear.  They are       *)
(* numbered by when their transaction began, not by when it ended.         *)
Enqueue(l) ==
  /\ event[<<l, 1>>] = "unsent"
  /\ event' = [e \in Event |-> IF e[1] = l THEN "pending" ELSE event[e]]
  /\ UNCHANGED <<season, scored, xp, position, final, prizes, locks, pc, local, faults>>

Pending == {e \in Event : event[e] = "pending"}

(* processPendingOutbox reads the pending events, oldest first.            *)
Poll(c) ==
  /\ pc[c] = "idle"
  /\ Pending # {}
  /\ batch' = [batch EXCEPT ![c] = Pending]
  /\ Goto(c, "next")
  /\ UNCHANGED <<store, prizes, locks, seen, todo, faults>>

Done(c) ==
  /\ pc[c] = "next" /\ batch[c] = {}
  /\ Goto(c, "idle")
  /\ UNCHANGED <<store, prizes, locks, local, faults>>

(* ensureAssignment reads the season, applyQualifiedXp rejects a closed    *)
(* one and a line it has an event for: the event fails.                    *)
Accepts(c) == season = "active" /\ Current(c)[1] \notin scored

Ingest(c) ==
  /\ pc[c] = "next" /\ batch[c] # {}
  /\ IF Accepts(c)
     THEN Goto(c, "lock") /\ UNCHANGED <<event, batch>>
     ELSE Mark(c, "failed")
  /\ UNCHANGED <<season, scored, xp, position, final, prizes, locks, seen, todo, faults>>

LockMember(c) ==
  /\ pc[c] = "lock"
  /\ rowOwner[Who(c)] = Nobody
  /\ Current(c)[1] \notin scored   \* else the unique index: see Duplicate
  /\ rowOwner' = [rowOwner EXCEPT ![Who(c)] = c]
  /\ seen' = [seen EXCEPT ![c] = xp]
  /\ Goto(c, "score")
  /\ UNCHANGED <<store, prizes, seasonOwner, batch, todo, faults>>

Duplicate(c) ==
  /\ pc[c] = "lock"
  /\ rowOwner[Who(c)] = Nobody
  /\ Current(c)[1] \in scored
  /\ Mark(c, "failed")
  /\ UNCHANGED <<season, scored, xp, position, final, prizes, locks, seen, todo, faults>>

ScoreOutside(c) ==               \* variant: the event is saved outside
  /\ pc[c] = "score"
  /\ scored' = scored \cup {Current(c)[1]}
  /\ seen' = [seen EXCEPT ![c] = [xp EXCEPT ![Who(c)] = seen[c][Who(c)] + Gain(c)]]
  /\ todo' = [todo EXCEPT ![c] = Member]
  /\ Goto(c, "write")
  /\ UNCHANGED <<season, event, xp, position, final, prizes, locks, batch, faults>>

(* The event and the XP are written; the peers are read and ranked.        *)
Score(c) ==
  /\ pc[c] = "score"
  /\ seen' = [seen EXCEPT ![c] = [xp EXCEPT ![Who(c)] = seen[c][Who(c)] + Gain(c)]]
  /\ todo' = [todo EXCEPT ![c] = Member]
  /\ Goto(c, "write")
  /\ UNCHANGED <<store, prizes, locks, batch, faults>>

UpdateAnyRow(s) ==               \* variant: positions written without lock
  /\ pc[s] = "write"
  /\ \E m \in First(seen[s], todo[s]) : todo' = [todo EXCEPT ![s] = @ \ {m}]
  /\ UNCHANGED <<store, prizes, locks, pc, batch, seen, faults>>

(* The next row's position: its lock is kept until the transaction ends.   *)
UpdatePosition(s) ==
  /\ pc[s] = "write"
  /\ \E m \in First(seen[s], todo[s]) :
       /\ rowOwner[m] \in {Nobody, s}
       /\ rowOwner' = [rowOwner EXCEPT ![m] = s]
       /\ todo' = [todo EXCEPT ![s] = @ \ {m}]
  /\ UNCHANGED <<store, prizes, seasonOwner, pc, batch, seen, faults>>

CommitScore(c) ==
  /\ c \in Consumer
  /\ pc[c] = "write" /\ todo[c] = {}
  /\ scored' = scored \cup {Current(c)[1]}
  /\ xp' = [xp EXCEPT ![Who(c)] = seen[c][Who(c)]]
  /\ position' = PositionIn(seen[c])
  /\ Unlock(c) /\ Forget(c)
  /\ Goto(c, "deliver")
  /\ UNCHANGED <<season, event, final, prizes, batch, faults>>

(* Notifications, ranks, referrals and badges, then the mark.              *)
Publish(c) ==
  /\ pc[c] = "deliver"
  /\ Mark(c, "published")
  /\ UNCHANGED <<season, scored, xp, position, final, prizes, locks, seen, todo, faults>>
-----------------------------------------------------------------------------
(* finalizeSeason: the advisory lock and the season's row; the memberships *)
(* are read without lock.  What it writes is unseen until it commits.      *)
FinalizeAgain(f) ==              \* variant: a finalized season is done again
  /\ pc[f] = "idle" /\ f \in Finalizer
  /\ seasonOwner = Nobody
  /\ seasonOwner' = f
  /\ seen' = [seen EXCEPT ![f] = xp]
  /\ todo' = [todo EXCEPT ![f] = Member]
  /\ Goto(f, "write")
  /\ UNCHANGED <<store, prizes, rowOwner, batch, faults>>

FinalizeUnlocked(f) ==           \* variant: no advisory lock, no row lock
  /\ pc[f] = "idle" /\ f \in Finalizer
  /\ season # "finalized"
  /\ seen' = [seen EXCEPT ![f] = xp]
  /\ todo' = [todo EXCEPT ![f] = Member]
  /\ Goto(f, "write")
  /\ UNCHANGED <<store, prizes, locks, batch, faults>>

Finalize(f) ==
  /\ pc[f] = "idle" /\ f \in Finalizer
  /\ seasonOwner = Nobody
  /\ season # "finalized"
  /\ seasonOwner' = f
  /\ seen' = [seen EXCEPT ![f] = xp]
  /\ todo' = [todo EXCEPT ![f] = Member]
  /\ Goto(f, "write")
  /\ UNCHANGED <<store, prizes, rowOwner, batch, faults>>

Positioned(f) ==
  /\ f \in Finalizer
  /\ pc[f] = "write" /\ todo[f] = {}
  /\ todo' = [todo EXCEPT ![f] = Member]
  /\ Goto(f, "reward")
  /\ UNCHANGED <<store, prizes, locks, batch, seen, faults>>

(* applyRewards is a statement of its own connection: it stays.            *)
RewardFirst(f) ==                \* variant: only the winner is paid
  /\ pc[f] = "reward"
  /\ \E m \in First(seen[f], todo[f]) :
       /\ prizes' = [prizes EXCEPT ![m] = IF todo[f] = Member THEN @ + 1 ELSE @]
       /\ todo' = [todo EXCEPT ![f] = @ \ {m}]
  /\ UNCHANGED <<store, locks, pc, batch, seen, faults>>

Reward(f) ==
  /\ pc[f] = "reward"
  /\ \E m \in First(seen[f], todo[f]) :
       /\ prizes' = [prizes EXCEPT ![m] = @ + 1]
       /\ todo' = [todo EXCEPT ![f] = @ \ {m}]
  /\ UNCHANGED <<store, locks, pc, batch, seen, faults>>

CommitFinal(f) ==
  /\ pc[f] = "reward" /\ todo[f] = {}
  /\ season' = "finalized"
  /\ final' = seen[f]
  /\ position' = PositionIn(seen[f])
  /\ Unlock(f) /\ Forget(f)
  /\ Goto(f, "idle")
  /\ UNCHANGED <<event, scored, xp, prizes, batch, faults>>
-----------------------------------------------------------------------------
(* Who holds the row that s waits for: sessions that wait on one another   *)
(* in a circle are deadlocked.                                             *)
Wanted(s) == CASE pc[s] = "lock"  -> {Who(s)}
               [] pc[s] = "write" -> First(seen[s], todo[s])
               [] OTHER           -> {}

Blockers(s) == {rowOwner[m] : m \in Wanted(s)} \ {s, Nobody}

Deadlocked(s) ==
  \E circle \in SUBSET Session :
    /\ s \in circle
    /\ \A a \in circle : Blockers(a) \cap circle # {}
    /\ \A a \in circle : \E b \in circle : a \in Blockers(b)

(* A transaction of a cycle of waits is rolled back: a consumer's event    *)
(* fails, a finalizer's request does.                                      *)
Victim(s) ==
  /\ Deadlocked(s)
  /\ Unlock(s) /\ Forget(s)
  /\ IF s \in Consumer THEN Mark(s, "failed")
     ELSE Goto(s, "idle") /\ UNCHANGED <<event, batch>>
  /\ UNCHANGED <<season, scored, xp, position, final, prizes, faults>>

(* An exception between the statements of a handler.                       *)
Throw(c) ==
  /\ c \in Consumer /\ pc[c] \in {"lock", "score", "write", "deliver"}
  /\ faults < MaxFaults /\ faults' = faults + 1
  /\ Unlock(c) /\ Forget(c)
  /\ Mark(c, "failed")
  /\ UNCHANGED <<season, scored, xp, position, final, prizes>>

(* The process dies, or the finalizer throws: transactions roll back.      *)
Crash(s) ==
  /\ pc[s] # "idle"
  /\ faults < MaxFaults /\ faults' = faults + 1
  /\ Unlock(s) /\ Forget(s)
  /\ batch' = [batch EXCEPT ![s] = {}]
  /\ Goto(s, "idle")
  /\ UNCHANGED <<store, prizes>>
-----------------------------------------------------------------------------
Consume(c) ==
  \/ Poll(c) \/ Done(c) \/ Ingest(c) \/ LockMember(c) \/ Duplicate(c) \/ Score(c)
  \/ CommitScore(c) \/ Publish(c)

Progress(s) ==
  \/ s \in Consumer /\ Consume(s)
  \/ UpdatePosition(s) \/ Positioned(s) \/ Reward(s) \/ CommitFinal(s)
  \/ Victim(s)

Next ==
  \/ \E s \in Session : Progress(s) \/ Crash(s)
  \/ \E l \in Line : Enqueue(l)
  \/ \E f \in Finalizer : Finalize(f)
  \/ \E c \in Consumer : Throw(c)

Spec == Init /\ [][Next]_vars

(* Every request polls, a session in a handler goes on, and a waiter gets  *)
(* a row that is free again and again; finalizers need not come.           *)
FairSpec == Spec /\ \A s \in Session : SF_vars(Progress(s))
-----------------------------------------------------------------------------
(* The values of the variables; the season's lock is held by one finalizer *)
(* in its transaction and by none outside.                                 *)
TypeOK ==
  /\ season \in {"active", "finalized"}
  /\ event \in [Event -> EventRow] /\ scored \subseteq Line
  /\ xp \in [Member -> Nat] /\ position \in [Member -> Nat \ {0}]
  /\ final \in [Member -> Nat \cup {-1}] /\ prizes \in [Member -> Nat]
  /\ rowOwner \in [Member -> Session \cup {Nobody}]
  /\ seasonOwner \in Finalizer \cup {Nobody}
  /\ pc \in [Session -> Label]
  /\ batch \in [Session -> SUBSET Event] /\ todo \in [Session -> SUBSET Member]
  /\ seen \in [Session -> [Member -> Nat]]
  /\ faults \in 0..MaxFaults
  /\ \A f \in Finalizer : pc[f] # "idle" <=> seasonOwner = f

XpOf(lines) == FoldSet(LAMBDA l, n : Xp[l] + n, 0, lines)

(* The XP of a member is what the score events of its row add up to:       *)
(* twins, racing consumers and crashes neither repeat nor lose an amount.  *)
XpIsScored ==
  \A m \in Member : xp[m] = XpOf({l \in scored : Earner[l] = m})

(* The stored positions rank the stored XP, in every committed state of an *)
(* open season: no transaction overwrites a newer ranking with an older.   *)
PositionsCurrent ==
  season = "active" =>
    \A m, n \in Member : xp[m] > xp[n] => position[m] < position[n]

(* "Idempotent season finalization" (league-finalize.service.ts:37):        *)
(* concurrent and repeated finalizations pay a member's prize once.        *)
PrizeOnce == \A m \in Member : prizes[m] <= 1

(* Two finalizers, and one that comes when the season is finalized, pay    *)
(* every prize once if none of them fails halfway.                         *)
PrizeOnceIfNoneFails == faults = 0 => \A m \in Member : prizes[m] <= 1

(* A finalized season has paid everyone and left everyone's result.        *)
NobodyForgotten ==
  season = "finalized" => \A m \in Member : prizes[m] >= 1 /\ final[m] >= 0

(* Every queued event is settled in the end: published, or failed.         *)
EventsSettle == \A e \in Event : []<>(event[e] # "pending")
=============================================================================
