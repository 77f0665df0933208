---------------------------- MODULE Achievements ----------------------------
(***************************************************************************)
(* What the outbox is turned into: the ranks and the badges of a learner   *)
(* (GamificationService.processPendingOutbox, RanksService, BadgesService  *)
(* in src/src/gamification/, ranks/ and badges/).                          *)
(*                                                                         *)
(* Whoever polls takes a batch of pending events and marks each one        *)
(* published after it has been handled; nothing claims an event.  When the *)
(* notification or the referral throws, the event is marked failed, what   *)
(* was to come after it is skipped, and nobody takes it again.  A rank     *)
(* is evaluated in one transaction that holds the learner's state; when    *)
(* exactly one requirement is left that is not the XP, it saves the same   *)
(* row through another connection, which waits for the transaction that    *)
(* waits for it until the statement times out: everything is rolled back,  *)
(* the error is logged, and the event is published.  The badge counter of  *)
(* lessons is read and saved without a transaction.  Left out: badge       *)
(* counters that are only added to, active days (one more counter of the   *)
(* rank), a rank state that does not exist yet, the evaluation that counts *)
(* nothing (for an event of a grant), and what LeagueScore and Referral    *)
(* say of the same events.                                                 *)
(***************************************************************************)
EXTENDS Naturals, Sequences, FiniteSets

CONSTANTS
  Kind,          \* a sequence: what each event is, "lesson" or "seal"
  Gate,          \* a sequence: what each rank asks for, as [xp, lesson, seal]
  Target,        \* lessons the badge asks for
  Consumer       \* polls in progress at a time

AchievementsAssumption ==
  /\ Kind \in Seq({"lesson", "seal"})
  /\ Gate \in Seq([{"xp", "lesson", "seal"} -> Nat]) \ {<<>>}
  /\ Target \in Nat \ {0}

Event == 1 .. Len(Kind)
Level == 1 .. Len(Gate)

VARIABLES
  event,         \* outbox_events.status
  counted,       \* user_rank_states.progress_counters
  level,         \* current_rank_level
  rankPaid,      \* how often each rank was paid
  bag,           \* user_badge_progress: lessons_completed
  owned,         \* the badge is earned
  badgePaid,     \* how often it was paid
  poll,          \* what each consumer holds
  swallowed,     \* history: activities that were rolled back
  crowded,       \* history: two consumers held events at the same time
  died           \* a consumer has died (once: a bound)

achieveVars == <<event, counted, level, rankPaid, bag, owned, badgePaid, poll,
                 swallowed, crowded, died>>

Idle == [batch |-> {}, at |-> "rank", seen |-> 0]

Init ==
  /\ event = [e \in Event |-> "none"]
  /\ counted = [lesson |-> 0, seal |-> 0]
  /\ level = 1
  /\ rankPaid = [n \in Level |-> 0]
  /\ bag = 0
  /\ owned = FALSE /\ badgePaid = 0
  /\ poll = [c \in Consumer |-> Idle]
  /\ swallowed = [lesson |-> 0, seal |-> 0]
  /\ crowded = FALSE /\ died = FALSE
-----------------------------------------------------------------------------
Happened(k) == {e \in Event : event[e] # "none" /\ Kind[e] = k}
Lessons == Cardinality(Happened("lesson"))        \* one unit of XP each
Holds(c, r) == poll' = [poll EXCEPT ![c] = r]
Current(c) == CHOOSE e \in poll[c].batch : \A f \in poll[c].batch : e <= f

(* A lesson or a seal commits, with its XP and its event.                  *)
Happens(e) ==
  /\ event[e] = "none" /\ \A f \in Event : f < e => event[f] # "none"
  /\ event' = [event EXCEPT ![e] = "pending"]
  /\ UNCHANGED <<counted, level, rankPaid, bag, owned, badgePaid, poll,
                 swallowed, crowded, died>>

Pending == {e \in Event : event[e] = "pending"}

Poll(c) ==
  /\ poll[c] = Idle /\ Pending # {}
  /\ Holds(c, [Idle EXCEPT !.batch = Pending])
  /\ crowded' = (crowded \/ \E d \in Consumer : poll[d] # Idle)
  /\ UNCHANGED <<event, counted, level, rankPaid, bag, owned, badgePaid,
                 swallowed, died>>

(* recordActivity and evaluateInTx: climb while the next gate is passed.   *)
Has(now) == [xp |-> Lessons, lesson |-> now.lesson, seal |-> now.seal]
Missing(now, n) == {k \in {"xp", "lesson", "seal"} : Has(now)[k] < Gate[n][k]}
Climbs(now, n) == n >= level /\ \A m \in level + 1 .. n : Missing(now, m) = {}
Reached(now) ==
  CHOOSE n \in Level : Climbs(now, n) /\ (n + 1 \in Level => ~Climbs(now, n + 1))

(* maybeNotifyRankClose: one requirement left, which is not the XP.        *)
Close(now) ==
  LET next == Reached(now) + 1 IN
  /\ next \in Level
  /\ Cardinality(Missing(now, next)) = 1 /\ Missing(now, next) # {"xp"}

PaidAgain(n, now) == n > 1 /\ n <= Reached(now)                         \* variant
Pays(n, now) == n > level /\ n <= Reached(now)

RecordActivity(c) ==
  LET k == Kind[Current(c)]
      now == [counted EXCEPT ![k] = @ + 1]
  IN
  /\ poll[c].batch # {} /\ poll[c].at = "rank"
  /\ IF Close(now)
     THEN /\ swallowed' = [swallowed EXCEPT ![k] = @ + 1]
          /\ UNCHANGED <<counted, level, rankPaid>>
     ELSE /\ counted' = now
          /\ level' = Reached(now)
          /\ rankPaid' = [n \in Level |-> IF Pays(n, now) THEN rankPaid[n] + 1
                                          ELSE rankPaid[n]]
          /\ UNCHANGED swallowed
  /\ Holds(c, [poll[c] EXCEPT !.at = IF k = "lesson" THEN "count" ELSE "badge"])
  /\ UNCHANGED <<event, bag, owned, badgePaid, crowded, died>>

(* setCounter keeps the larger of the row it reads and the lessons it has  *)
(* counted.                                                                *)
Seen == IF bag < Lessons THEN Lessons ELSE bag

ReadCounter(c) ==
  /\ poll[c].at = "count"
  /\ Holds(c, [poll[c] EXCEPT !.at = "save", !.seen = Seen])
  /\ UNCHANGED <<event, counted, level, rankPaid, bag, owned, badgePaid, swallowed,
                 crowded, died>>

SaveCounter(c) ==
  /\ poll[c].at = "save"
  /\ bag' = poll[c].seen
  /\ Holds(c, [poll[c] EXCEPT !.at = "badge", !.seen = 0])
  /\ UNCHANGED <<event, counted, level, rankPaid, owned, badgePaid, swallowed,
                 crowded, died>>

(* evaluateAllForUser and unlockBadge; the event is published after it.    *)
UnlocksAbove == bag > Target                                    \* variant
Unlocks == bag >= Target /\ ~owned

UnlockBadge(c) ==
  /\ poll[c].at = "badge"
  /\ owned' = (owned \/ Unlocks)
  /\ badgePaid' = IF Unlocks THEN badgePaid + 1 ELSE badgePaid
  /\ Holds(c, [poll[c] EXCEPT !.at = "publish"])
  /\ UNCHANGED <<event, counted, level, rankPaid, bag, swallowed, crowded, died>>

WholeBatch(c) == poll[c].batch                                          \* variant
Published(c) == {Current(c)}

Publish(c) ==
  /\ poll[c].at = "publish"
  /\ event' = [e \in Event |-> IF e \in Published(c) THEN "published" ELSE event[e]]
  /\ Holds(c, [Idle EXCEPT !.batch = poll[c].batch \ Published(c)])
  /\ UNCHANGED <<counted, level, rankPaid, bag, owned, badgePaid, swallowed,
                 crowded, died>>

(* A throw of the notification (before the rank), of the referral (for a   *)
(* lesson, before the badge) or of the update itself.                      *)
Fails(c) ==
  /\ poll[c].batch # {} /\ poll[c].at \in {"rank", "count", "publish"}
  /\ event' = [event EXCEPT ![Current(c)] = "failed"]
  /\ Holds(c, [Idle EXCEPT !.batch = poll[c].batch \ {Current(c)}])
  /\ UNCHANGED <<counted, level, rankPaid, bag, owned, badgePaid, swallowed,
                 crowded, died>>

(* Rows of outbox_events, and of user_rank_states: what its counters count. *)
EventRow == {"none", "pending", "published", "failed"}
RankCounters == SUBSET [{"lesson", "seal"} -> Nat]

(* The process dies: what is still pending is polled again.                *)
Stop(c) ==
  /\ poll[c] # Idle /\ ~died
  /\ died' = TRUE
  /\ Holds(c, Idle)
  /\ UNCHANGED <<event, counted, level, rankPaid, bag, owned, badgePaid,
                 swallowed, crowded>>
-----------------------------------------------------------------------------
Next ==
  \/ \E e \in Event : Happens(e)
  \/ \E c \in Consumer : \/ Poll(c) \/ RecordActivity(c) \/ ReadCounter(c)
                         \/ SaveCounter(c) \/ UnlockBadge(c) \/ Publish(c)
                         \/ Fails(c) \/ Stop(c)

Spec == Init /\ [][Next]_achieveVars

TypeOK ==
  /\ event \in [Event -> EventRow]
  /\ {counted, swallowed} \in RankCounters
  /\ level \in Level /\ rankPaid \in [Level -> Nat]
  /\ {bag, badgePaid} \subseteq Nat /\ {owned, crowded, died} \subseteq BOOLEAN
  /\ \A c \in Consumer : poll[c].batch \subseteq Event

(* Every rank up to the learner's was earned and paid exactly once and no  *)
(* other was, the badge likewise, however often an event is handled.       *)
EarnedAndPaidOnce ==
  /\ \A n \in Level \ {1} : rankPaid[n] = (IF n <= level THEN 1 ELSE 0)
  /\ \A n \in 2 .. level : Missing(counted, n) = {}
  /\ badgePaid = (IF owned THEN 1 ELSE 0)
  /\ owned => Lessons >= Target

AtRest == /\ \A e \in Event : event[e] # "pending"
          /\ \A c \in Consumer : poll[c] = Idle

Handled(k) == {e \in Happened(k) : event[e] = "published"}
UpTo(e) == Cardinality({f \in Happened("lesson") : f <= e})


(* "Record milestone progress + evaluate" (ranks.controller.ts:92): an     *)
(* activity that was handled is counted.                                   *)
ProgressRecorded == \A k \in {"lesson", "seal"} : counted[k] >= Cardinality(Handled(k))
=============================================================================
