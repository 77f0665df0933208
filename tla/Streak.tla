------------------------------- MODULE Streak -------------------------------
(***************************************************************************)
(* The daily streak of one learner: src/src/gamification/streak.service.ts.*)
(*                                                                         *)
(* A day is a local streak day (it begins at 03:00, streakLocalDate), so   *)
(* the tick, which does nothing before 03:00, and a lesson see the same    *)
(* number.  Every handler locks the streak's row and is one step from that *)
(* lock on, but a lesson computes its day BEFORE it waits for the lock:    *)
(* pending holds the days so computed.  Day 1 is the first that is played; *)
(* earlier days exist for restore, which counts back from today.           *)
(***************************************************************************)
EXTENDS Integers, FiniteSets

CONSTANTS
  MaxDay,        \* bound: the last day
  MaxLag,        \* bound: days a lesson may wait for the lock
  MaxFreezes,    \* bound: freezes owned at a time
  ClientKey,     \* idempotency keys of one and two day restores
  RestoreDays,   \* what restore is asked for: a subset of {1, 2, 3}
  MonthLength    \* days of a month

StreakAssumption ==
  /\ MaxDay \in Nat \ {0} /\ MaxLag \in Nat
  /\ MaxFreezes \in Nat /\ MonthLength \in Nat \ {0}
  /\ RestoreDays \subseteq {1, 2, 3}

MaxConsecutiveProtected == 3     \* MAX_CONSECUTIVE_PROTECTED
RecoveryDays == 2                \* RECOVERY_HOURS = 48

Days    == -2 .. MaxDay
Covered == {"completed", "protected", "recovered"}
Status  == Covered \union {"none", "missed"}
NoDay   == -3                    \* null; before every day

VARIABLES
  today,         \* the local streak day of the clock
  status,        \* streak_days: "none" where there is no row
  streak,        \* dailyStreak
  longest,       \* longestDailyStreak
  last,          \* lastQualifiedDay
  protected,     \* consecutiveProtectedDays
  recovery,      \* the day recoveryWindowEndsAt falls on
  freezes,       \* freeze units in the inventory
  paid,          \* idempotency keys of the restores in the ledger
  pending,       \* days computed by lessons that wait for the lock
  bought,        \* history: days added by restores
  done,          \* history: days on which a lesson was completed
  overtaken      \* history: one of them had been closed, or passed, before

vars == <<today, status, streak, longest, last, protected, recovery, freezes,
          paid, pending, bought, done, overtaken>>

Larger(a, b) == IF a < b THEN b ELSE a
Month(d) == (d + 2) \div MonthLength

Init ==
  /\ today = 1
  /\ status = [d \in Days |-> "none"]
  /\ streak = 0 /\ longest = 0 /\ last = NoDay
  /\ protected = 0 /\ recovery = NoDay
  /\ freezes = 0
  /\ paid = {} /\ pending = {} /\ bought = 0
  /\ done = {} /\ overtaken = FALSE
-----------------------------------------------------------------------------
NextDay ==
  /\ today < MaxDay
  /\ \A d \in pending : today + 1 - d <= MaxLag
  /\ today' = today + 1
  /\ UNCHANGED <<status, streak, longest, last, protected, recovery, freezes,
                 paid, pending, bought, done, overtaken>>

(* A freeze is bought or won.                                              *)
GainFreeze ==
  /\ freezes < MaxFreezes
  /\ freezes' = freezes + 1
  /\ UNCHANGED <<today, status, streak, longest, last, protected, recovery,
                 paid, pending, bought, done, overtaken>>

(* qualifyInTx up to the lock: the day of the activity.                    *)
ComputeDay ==
  /\ pending' = pending \union {today}
  /\ UNCHANGED <<today, status, streak, longest, last, protected, recovery,
                 freezes, paid, bought, done, overtaken>>

(* What the streak becomes when day d qualifies.                           *)
ExtendedNever(d) == IF last = d THEN streak ELSE 1 \* variant: no day follows

Extended(d) ==
  IF last = d THEN streak
  ELSE IF last = d - 1 THEN streak + 1
  ELSE 1

(* While the lesson waited, the tick has missed or protected its day, or a *)
(* later day was counted.                                                  *)
Overtaken(d) == last >= d \/ status[d] = "missed"

(* qualifyInTx from the lock on; the lesson's transaction may roll back.   *)
Qualify(d) ==
  /\ d \in pending
  /\ pending' = pending \ {d}
  /\ done' = done \union {d}
  /\ IF status[d] \in {"completed", "recovered"}
     THEN UNCHANGED <<status, streak, longest, last, protected, recovery, overtaken>>
     ELSE /\ overtaken' = (overtaken \/ Overtaken(d))
          /\ status' = [status EXCEPT ![d] = "completed"]
          /\ streak' = Extended(d)
          /\ longest' = Larger(longest, Extended(d))
          /\ last' = d
          /\ protected' = 0
          /\ recovery' = NoDay
  /\ UNCHANGED <<today, freezes, paid, bought>>

Rollback(d) ==
  /\ d \in pending
  /\ pending' = pending \ {d}
  /\ UNCHANGED <<today, status, streak, longest, last, protected, recovery,
                 freezes, paid, bought, done, overtaken>>
-----------------------------------------------------------------------------
(* restore.  The window ends in the course of its last day.                *)
WindowOpen == today <= recovery
WindowOver == today >= recovery

(* Without an open window the gap must be two days to one more than asked. *)
GapRestorable(n) ==
  /\ last # NoDay
  /\ today - last >= 2
  /\ today - last <= n + 1

RestoreKey(n, key) == IF n = 3 THEN <<"month", Month(today)>> ELSE <<"client", key>>

RecoveredDays(n) == (today - n .. today - 1) \ {last}

(* A key already in the ledger restores nothing (three days: is refused).  *)
Unpaid(n, key) == RestoreKey(n, key) \notin paid

OneMore(n) == streak + n + 1                      \* variant: off by one

Restored(n) == streak + n

Restore(n, key) ==
  /\ WindowOpen \/ (WindowOver /\ GapRestorable(n))
  /\ Unpaid(n, key)
  /\ paid' = paid \union {RestoreKey(n, key)}
  /\ bought' = bought + n
  /\ status' = [d \in Days |-> IF d \in RecoveredDays(n) THEN "recovered" ELSE status[d]]
  /\ streak' = Restored(n)
  /\ longest' = Larger(longest, Restored(n))
  /\ last' = today - 1
  /\ recovery' = NoDay
  /\ UNCHANGED <<today, protected, freezes, pending, done, overtaken>>
-----------------------------------------------------------------------------
(* closeOneUser: yesterday is neither qualified nor covered.               *)
Yesterday == today - 1

LapsedAnyway == last # NoDay                      \* variant: both tests dropped

Lapsed ==
  /\ last # NoDay /\ last < Yesterday
  /\ status[Yesterday] \notin Covered

(* consumeFreeze comes before the test of the consecutive days: at the     *)
(* limit the freeze is spent and the day is missed all the same.           *)
ProtectsAlways == freezes > 0                     \* variant: no limit

Protects == freezes > 0 /\ protected < MaxConsecutiveProtected

SpendAnyway == freezes' = freezes - 1             \* variant: none is owned

SpendFreeze == freezes' = IF freezes > 0 THEN freezes - 1 ELSE 0

Protect ==
  /\ Lapsed /\ Protects
  /\ SpendFreeze
  /\ status' = [status EXCEPT ![Yesterday] = "protected"]
  /\ protected' = protected + 1
  /\ last' = Yesterday
  /\ UNCHANGED <<today, streak, longest, recovery, paid, pending, bought, done, overtaken>>

Miss ==
  /\ Lapsed /\ ~Protects
  /\ SpendFreeze
  /\ status' = [status EXCEPT ![Yesterday] = "missed"]
  /\ streak' = 0
  /\ protected' = 0
  /\ recovery' = today + RecoveryDays
  /\ UNCHANGED <<today, longest, last, paid, pending, bought, done, overtaken>>

Tick == Protect \/ Miss
-----------------------------------------------------------------------------
Next ==
  \/ NextDay \/ GainFreeze \/ ComputeDay
  \/ \E d \in pending : Qualify(d) \/ Rollback(d)
  \/ \E n \in RestoreDays, key \in ClientKey : Restore(n, key)
  \/ Tick

Spec == Init /\ [][Next]_vars
-----------------------------------------------------------------------------
(* The row of streak_states, and of user_inventory_items the freezes.      *)
StateRow ==
  /\ streak \in Nat /\ longest \in Nat
  /\ last \in Days \union {NoDay}
  /\ protected \in Nat
  /\ recovery \in Int
FreezeRow == 0 .. MaxFreezes

TypeOK ==
  /\ today \in 1 .. MaxDay
  /\ status \in [Days -> Status]
  /\ StateRow
  /\ freezes \in FreezeRow
  /\ paid \subseteq ({"month"} \X Nat) \union ({"client"} \X ClientKey)
  /\ pending \subseteq Days /\ done \subseteq Days /\ bought \in Nat

(* A streak never counts a day twice: it is at most the days on which a    *)
(* lesson was completed and the days paid for, whatever lessons, ticks and *)
(* restores did to the same day.                                           *)
StreakEarned == streak <= Cardinality(done) + bought

(* "activity before 03:00 counts as previous day", streak.service.ts:94:   *)
(* completed days that follow one another up to yesterday or today count,  *)
(* also when their lessons waited for the lock overnight, as long as none  *)
(* is overtaken: that one begins the streak anew.                          *)
EveryDayCounts ==
  ~overtaken /\ last >= Yesterday =>
    \A d \in Days :
      (\A e \in d .. last : status[e] = "completed") => streak >= last - d + 1

(* A streak longer than what restores added was not carried over more days *)
(* in a row than MAX_CONSECUTIVE_PROTECTED, however often the tick ran on  *)
(* a day, unless a lesson was overtaken.  (Once missed, a day may still be *)
(* protected by a later tick, but the streak is then zero.)                *)
ProtectedBounded ==
  ~overtaken /\ streak > bought =>
    \E d \in last - MaxConsecutiveProtected .. last :
      d \in Days => status[d] # "protected"

(* A day that is covered stays covered.                                    *)
StaysCovered == \A d \in Days : status[d] \in Covered => status'[d] \in Covered
=============================================================================
