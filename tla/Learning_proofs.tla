---------------------------- MODULE Learning_proofs ---------------------------
(***************************************************************************)
(* Proofs about a learner's way.  WeekSeal, for every number of calls and  *)
(* of tasks, and whatever is called together; then the plans of a goal,    *)
(* ranks and badges, the track and its graduation, and the streak.         *)
(***************************************************************************)
EXTENDS WeekSeal, Sequences, FiniteSetTheorems, WellFoundedInduction, TLAPS

(* Saving an object writes the changed columns and leaves the others.      *)
LEMMA PatchedColumns ==
  ASSUME NEW p \in PlanRow, NEW q \in PlanRow, NEW F
  PROVE  /\ Patched(p, q, F) \in PlanRow
         /\ Patched(p, q, F).status = IF "status" \in F THEN q.status ELSE p.status
         /\ Patched(p, q, F).done = IF "done" \in F THEN q.done ELSE p.done
         /\ Patched(p, q, F).planned = IF "planned" \in F THEN q.planned ELSE p.planned
<1> DEFINE w == Patched(p, q, F)
<1>1. w = [f \in {"status", "done", "planned"} |-> IF f \in F THEN q[f] ELSE p[f]]
  BY DEF Patched, PlanRow
<1>2. w = [status |-> w.status, done |-> w.done, planned |-> w.planned]
  BY <1>1
<1> QED BY <1>1, <1>2 DEF PlanRow

LEMMA PatchedTask ==
  ASSUME NEW p \in TaskRow, NEW q \in TaskRow, NEW F
  PROVE  Patched(p, q, F) \in TaskRow
<1> DEFINE w == Patched(p, q, F)
<1>1. w = [f \in {"status", "source"} |-> IF f \in F THEN q[f] ELSE p[f]]
  BY DEF Patched, TaskRow
<1>2. w = [status |-> w.status, source |-> w.source]
  BY <1>1
<1> QED BY <1>1, <1>2 DEF TaskRow

LEMMA NewRows ==
  /\ NewPlan \in PlanRow /\ NewTask \in TaskRow /\ Done \in TaskRow
  /\ NewPlan.done = 0 /\ NewPlan.status = "active"
  /\ NoCall.task \in Task
  BY WeekAssumption, FS_CardinalityType DEF NewPlan, NewTask, Done, NoCall, PlanRow, TaskRow

LEMMA CountedRow ==
  ASSUME NEW p \in PlanRow
  PROVE  /\ Counted(p) \in PlanRow /\ Counted(p).done = p.done + 1
         /\ Counted(p).status = p.status /\ Counted(p).planned = p.planned
         /\ Shrunk(p) \in PlanRow /\ Shrunk(p).done = p.done
  BY DEF Counted, Shrunk, PlanRow

(* A plan only meets the criteria with a completed session.                *)
LEMMA CriteriaNeedASession ==
  ASSUME NEW p \in PlanRow, MeetsSealCriteria(p)
  PROVE  p.done > 0
  BY WeekAssumption DEF MeetsSealCriteria, PlanRow
-----------------------------------------------------------------------------
(***************************************************************************)
(* Types and locks: a completion has the wallet's lock from LockWallet to  *)
(* its COMMIT, and the plan's from its UPDATE on; a seal has the plan's    *)
(* while it pays.                                                          *)
(***************************************************************************)
Labels == {"idle", "wallet", "mark", "compare", "count", "commit", "after", "diffTask",
           "writeTask", "diffPlan", "writePlan", "try", "lockPlan", "reward", "done"}

Locals ==
  /\ over \in BOOLEAN /\ granted \in Nat
  /\ pc \in [Session -> Labels]
  /\ call \in [Session -> [op : Ops \cup {"none"}, task : Task]]
  /\ myPlan \in [Session -> PlanRow] /\ myTask \in [Session -> TaskRow]
  /\ patch \in [Session -> SUBSET {"status", "done", "planned", "source"}]
  /\ \A s \in Session : pc[s] = "commit" => walletHolder = s

TypeInv == TypeOK /\ Locals

LEMMA InitType == Init => TypeInv
<1> SUFFICES ASSUME Init PROVE TypeInv  OBVIOUS
<1>1. TypeOK
  BY NewRows, WeekAssumption DEF Init, TypeOK
<1>2. NoCall \in [op : Ops \cup {"none"}, task : Task]
  BY NewRows DEF NoCall
<1>3. Locals
  BY <1>2, NewRows DEF Init, Locals, Labels
<1> QED BY <1>1, <1>3 DEF TypeInv

LEMMA EndType ==
  ASSUME TypeInv, NEW s \in Session, End(s),
         plan' \in PlanRow, task' \in [Task -> TaskRow], learned' \subseteq Task,
         over' \in BOOLEAN, granted' \in Nat
  PROVE  TypeInv'
<1>1. /\ pc' = [pc EXCEPT ![s] = "done"]
      /\ planHolder' = Free(planHolder, s) /\ walletHolder' = Free(walletHolder, s)
  BY DEF End, Goto, Unlock
<1>2. Locals'
  BY <1>1, NewRows, WeekAssumption DEF TypeInv, TypeOK, Locals, Labels, End, Forget, Free
<1>3. TypeOK'
  BY <1>1, WeekAssumption DEF TypeInv, TypeOK, Locals, Free
<1> QED BY <1>2, <1>3 DEF TypeInv

LEMMA StepType ==
  ASSUME TypeInv, [Next]_vars
  PROVE  TypeInv'
<1> USE DEF TypeInv
<1>1. ASSUME NEW s \in Session, NEW t \in Task, Complete(s, t) PROVE TypeInv'
  BY <1>1 DEF Complete, Goto, TypeOK, Locals, Labels, Ops, rows, locks
<1>2. ASSUME NEW s \in Session, NEW t \in Task, MoveTask(s, t) \/ SkipTask(s, t)
      PROVE  TypeInv'
  <2>1. PICK op \in {"move", "skip"}, st \in {"moved", "skipped"} : Change(s, op, t, st)
    BY <1>2 DEF MoveTask, SkipTask
  <2>2. [task[t] EXCEPT !.status = st] \in TaskRow
    BY DEF TypeOK, TaskRow
  <2> QED BY <2>1, <2>2, CountedRow DEF Change, Goto, TypeOK, Locals, Labels, Ops, rows, locks
<1>3. ASSUME NEW s \in Session, ClosePreviousWeek(s) PROVE TypeInv'
  <2>1. [plan EXCEPT !.status = "missed"] \in PlanRow
    BY DEF TypeOK, PlanRow
  <2> QED BY <1>3, <2>1 DEF ClosePreviousWeek, Goto, TypeOK, Locals, Labels, Ops, rows, locks
<1>4. ASSUME NEW s \in Session, LockWallet(s) PROVE TypeInv'
  BY <1>4, WeekAssumption DEF LockWallet, Goto, TypeOK, Locals, Labels, rows, local
<1>5. ASSUME NEW s \in Session, Mark(s) PROVE TypeInv'
  BY <1>5, NewRows, CountedRow DEF Mark, Goto, TypeOK, Locals, Labels, rows, locks
<1>6. ASSUME NEW s \in Session, Compare(s) PROVE TypeInv'
  <2>1. Differs(myPlan[s], plan) \subseteq {"status", "done", "planned"}
    BY DEF Differs, TypeOK, PlanRow
  <2> QED BY <1>6, <2>1 DEF Compare, Goto, TypeOK, Locals, Labels, rows, locks
<1>7. ASSUME NEW s \in Session, Count(s) PROVE TypeInv'
  BY <1>7, WeekAssumption DEF Count, Goto, TypeOK, Locals, Labels, rows, local
<1>8. ASSUME NEW s \in Session, Commit(s) PROVE TypeInv'
  <2>1. plan' \in PlanRow
    BY <1>8, PatchedColumns DEF Commit, TypeOK, Locals
  <2>2. task' \in [Task -> TaskRow] /\ learned' \subseteq Task
    BY <1>8, NewRows DEF Commit, TypeOK, Locals, Mine
  <2>3. Locals'
    BY <1>8, NewRows, WeekAssumption DEF Commit, Goto, Forget, Unlock, Free, TypeOK, Locals, Labels
  <2>4. /\ pc'[s] = "after" /\ planHolder' # s /\ walletHolder' # s
        /\ \A r \in Session \ {s} : /\ pc'[r] = pc[r]
                                    /\ walletHolder' = r <=> walletHolder = r
                                    /\ planHolder' = r <=> planHolder = r
    BY <1>8, WeekAssumption DEF Commit, Goto, Unlock, Free, Locals
  <2>5. TypeOK'
    BY <2>1, <2>2, <2>4 DEF TypeOK
  <2> QED BY <2>3, <2>5
<1>9. ASSUME NEW s \in Session, After(s) PROVE TypeInv'
  <2>1. CASE End(s)
    BY <1>9, <2>1, EndType DEF After, TypeOK, Locals, rows
  <2>2. CASE ~End(s)
    <3>1. PICK l \in {"diffTask", "try"}, p \in {plan, Counted(plan)} :
            /\ Goto(s, l) /\ myPlan' = [myPlan EXCEPT ![s] = p]
            /\ myTask' = [myTask EXCEPT ![s] = Done]
            /\ UNCHANGED <<rows, over, locks, call, patch>>
      BY <1>9, <2>2 DEF After
    <3>2. p \in PlanRow
      BY CountedRow DEF TypeOK
    <3> QED BY <1>9, <3>1, <3>2, NewRows
        DEF After, Goto, TypeOK, Locals, Labels, rows, locks
  <2> QED BY <2>1, <2>2
<1>10. ASSUME NEW s \in Session, DiffTask(s) \/ DiffPlan(s) PROVE TypeInv'
  <2>1. /\ Differs(myPlan[s], plan) \subseteq {"status", "done", "planned"}
        /\ Differs(myTask[s], task[Mine(s)]) \subseteq {"status", "source"}
    BY DEF Differs, TypeOK, Locals, PlanRow, TaskRow, Mine
  <2> QED BY <1>10, <2>1 DEF DiffTask, DiffPlan, Goto, TypeOK, Locals, Labels, rows, locks
<1>11. ASSUME NEW s \in Session, WriteTask(s) PROVE TypeInv'
  <2>1. task' \in [Task -> TaskRow]
    BY <1>11, PatchedTask DEF WriteTask, TypeOK, Locals, Mine
  <2>2. CASE End(s)
    BY <1>11, <2>1, <2>2, EndType DEF WriteTask, TypeOK, Locals
  <2>3. CASE ~End(s)
    BY <1>11, <2>1, <2>3 DEF WriteTask, Goto, TypeOK, Locals, Labels, locks, local
  <2> QED BY <2>2, <2>3
<1>12. ASSUME NEW s \in Session, WritePlan(s) PROVE TypeInv'
  <2>1. plan' \in PlanRow
    BY <1>12, PatchedColumns DEF WritePlan, TypeOK, Locals
  <2>2. CASE End(s)
    BY <1>12, <2>1, <2>2, EndType DEF WritePlan, TypeOK, Locals
  <2>3. CASE ~End(s)
    BY <1>12, <2>1, <2>3 DEF WritePlan, Goto, TypeOK, Locals, Labels, locks, local
  <2> QED BY <2>2, <2>3
<1>13. ASSUME NEW s \in Session, TrySeal(s) \/ LockPlan(s) PROVE TypeInv'
  <2>1. CASE End(s)
    BY <1>13, <2>1, EndType DEF TrySeal, LockPlan, TypeOK, Locals, rows
  <2>2. CASE ~End(s)
    BY <1>13, <2>2, WeekAssumption
    DEF TrySeal, LockPlan, Goto, TypeOK, Locals, Labels, rows, locks, local
  <2> QED BY <2>1, <2>2
<1>14. ASSUME NEW s \in Session, Seal(s) PROVE TypeInv'
  <2>1. [plan EXCEPT !.status = "sealed"] \in PlanRow
    BY DEF TypeOK, PlanRow
  <2> QED BY <1>14, <2>1, EndType DEF Seal, TypeOK, Locals
<1>15. ASSUME NEW s \in Session, DeadlockVictim(s) \/ Crash(s) PROVE TypeInv'
  BY <1>15, EndType DEF DeadlockVictim, Crash, TypeOK, Locals, rows
<1>16. CASE WeekTurns \/ UNCHANGED vars
  BY <1>16 DEF WeekTurns, TypeOK, Locals, vars, rows, locks, local
<1> QED
  BY <1>1, <1>2, <1>3, <1>4, <1>5, <1>6, <1>7, <1>8, <1>9, <1>10, <1>11, <1>12, <1>13,
     <1>14, <1>15, <1>16 DEF Next, Step

(* The rows and the two locks, whoever calls what.                         *)
THEOREM TypeCorrect == Spec => []TypeOK
<1>1. TypeInv => TypeOK  BY DEF TypeInv
<1> QED BY <1>1, InitType, StepType, PTL DEF Spec
-----------------------------------------------------------------------------
(***************************************************************************)
(* The seal and its reward.  A session is only counted, in the row or in   *)
(* an object that may be saved over it, once a lesson was completed; only  *)
(* a completion that has not committed is ahead of that.                   *)
(***************************************************************************)
Ahead(s) == pc[s] \in {"compare", "count", "commit"}

EarnedInv ==
  /\ SealEarnedOnce
  /\ plan.done > 0 => learned # {}
  /\ \A s \in Session :
       /\ myPlan[s].done > 0 /\ ~Ahead(s) => learned # {}
       /\ pc[s] \in {"after", "reward"} => learned # {}

(* A call that ends has forgotten its objects.                             *)
LEMMA EndForgets ==
  ASSUME TypeInv, NEW s \in Session, End(s)
  PROVE  /\ pc'[s] = "done" /\ myPlan'[s].done = 0 /\ patch'[s] = {}
         /\ \A r \in Session \ {s} : /\ pc'[r] = pc[r] /\ myPlan'[r] = myPlan[r]
                                     /\ patch'[r] = patch[r]
                                     /\ planHolder' = r <=> planHolder = r
                                     /\ walletHolder' = r <=> walletHolder = r
         /\ UNCHANGED call
  BY NewRows, WeekAssumption DEF End, Goto, Forget, Unlock, Free, TypeInv, Locals

(* A step of s that completes no lesson, saves nothing that it did not     *)
(* have, and pays nothing.                                                 *)
LEMMA EarnedFrame ==
  ASSUME TypeInv, EarnedInv, NEW s \in Session, UNCHANGED <<learned, granted>>,
         plan'.done > 0 => learned # {},
         \A r \in Session \ {s} : pc'[r] = pc[r] /\ myPlan'[r] = myPlan[r],
         myPlan'[s].done > 0 /\ ~Ahead(s)' => learned # {},
         pc'[s] \in {"after", "reward"} => learned # {}
  PROVE  EarnedInv'
  BY DEF EarnedInv, SealEarnedOnce, Ahead

LEMMA EarnedEnd ==
  ASSUME TypeInv, EarnedInv, NEW s \in Session, End(s), UNCHANGED <<learned, granted>>,
         plan'.done > 0 => learned # {}
  PROVE  EarnedInv'
  BY EndForgets, EarnedFrame

(* A step that only moves s on.                                            *)
LEMMA EarnedGoto ==
  ASSUME TypeInv, EarnedInv, NEW s \in Session, NEW l, Goto(s, l), UNCHANGED <<rows, myPlan>>,
         l \notin {"after", "reward"}, Ahead(s) => Ahead(s)'
  PROVE  EarnedInv'
<1>1. pc'[s] = l /\ \A r \in Session \ {s} : pc'[r] = pc[r]
  BY DEF Goto, TypeInv, Locals
<1> QED BY <1>1, EarnedFrame DEF EarnedInv, rows

LEMMA EarnedStep ==
  ASSUME TypeInv, EarnedInv, [Next]_vars
  PROVE  EarnedInv'
<1>1. ASSUME NEW s \in Session, NEW t \in Task, Complete(s, t) PROVE EarnedInv'
  BY <1>1, EarnedGoto DEF Complete, Ahead
<1>2. ASSUME NEW s \in Session, NEW p \in PlanRow, p.done = plan.done,
             myPlan' = [myPlan EXCEPT ![s] = p], NEW l, Goto(s, l),
             l \notin {"after", "reward"}, UNCHANGED rows
      PROVE  EarnedInv'
  <2>1. /\ pc'[s] = l /\ myPlan'[s] = p
        /\ \A r \in Session \ {s} : pc'[r] = pc[r] /\ myPlan'[r] = myPlan[r]
    BY <1>2 DEF Goto, TypeInv, Locals
  <2> QED BY <1>2, <2>1, EarnedFrame DEF EarnedInv, rows
<1>3. ASSUME NEW s \in Session, NEW t \in Task, MoveTask(s, t) \/ SkipTask(s, t)
      PROVE  EarnedInv'
  <2>1. PICK p \in {plan, Shrunk(plan)} : myPlan' = [myPlan EXCEPT ![s] = p]
    BY <1>3 DEF MoveTask, SkipTask, Change
  <2>2. p \in PlanRow /\ p.done = plan.done
    BY CountedRow DEF TypeInv, TypeOK
  <2> QED BY <1>2, <1>3, <2>1, <2>2 DEF MoveTask, SkipTask, Change
<1>4. ASSUME NEW s \in Session, ClosePreviousWeek(s) PROVE EarnedInv'
  <2> DEFINE p == [plan EXCEPT !.status = "missed"]
  <2>1. p \in PlanRow /\ p.done = plan.done
    BY DEF TypeInv, TypeOK, PlanRow
  <2> QED BY <1>2, <1>4, <2>1 DEF ClosePreviousWeek
<1>5. ASSUME NEW s \in Session, LockWallet(s) \/ Compare(s) \/ Count(s) PROVE EarnedInv'
  <2>1. PICK l \in {"mark", "count", "commit"} : Goto(s, l) /\ (l = "mark" => ~Ahead(s))
    BY <1>5 DEF LockWallet, Compare, Count, Ahead
  <2>2. Ahead(s) => Ahead(s)'
    BY <2>1 DEF Ahead, Goto, TypeInv, Locals
  <2> QED BY <1>5, <2>1, <2>2, EarnedGoto DEF LockWallet, Compare, Count, local
<1>6. ASSUME NEW s \in Session, Mark(s) PROVE EarnedInv'
  <2>1. /\ UNCHANGED rows /\ pc'[s] \in {"compare", "commit"}
        /\ \A r \in Session \ {s} : pc'[r] = pc[r] /\ myPlan'[r] = myPlan[r]
    BY <1>6 DEF Mark, Goto, TypeInv, Locals
  <2> QED BY <2>1, EarnedFrame DEF EarnedInv, Ahead, rows
<1>7. ASSUME NEW s \in Session, Commit(s) PROVE EarnedInv'
  <2>1. learned' # {} /\ granted' = granted
    BY <1>7 DEF Commit
  <2> QED BY <2>1 DEF EarnedInv, SealEarnedOnce
<1>8. ASSUME NEW s \in Session, After(s) PROVE EarnedInv'
  <2>1. UNCHANGED rows /\ learned # {}
    BY <1>8 DEF After, EarnedInv
  <2> QED BY <2>1 DEF EarnedInv, SealEarnedOnce, rows
<1>9. ASSUME NEW s \in Session, DiffTask(s) \/ DiffPlan(s) PROVE EarnedInv'
  BY <1>9, EarnedGoto DEF DiffTask, DiffPlan, Ahead
<1>10. ASSUME NEW s \in Session, WriteTask(s) PROVE EarnedInv'
  <2>1. CASE End(s)
    BY <1>10, <2>1, EarnedEnd DEF WriteTask, EarnedInv
  <2>2. CASE ~End(s)
    <3>1. pc'[s] = "diffPlan" /\ \A r \in Session \ {s} : pc'[r] = pc[r]
      BY <1>10, <2>2 DEF WriteTask, Goto, TypeInv, Locals
    <3> QED BY <1>10, <2>2, <3>1, EarnedFrame DEF WriteTask, EarnedInv, Ahead, local
  <2> QED BY <2>1, <2>2
<1>11. ASSUME NEW s \in Session, WritePlan(s) PROVE EarnedInv'
  <2>1. plan'.done > 0 => learned # {}
    BY <1>11, PatchedColumns DEF WritePlan, EarnedInv, Ahead, TypeInv, TypeOK, Locals
  <2>2. CASE End(s)
    BY <1>11, <2>1, <2>2, EarnedEnd DEF WritePlan
  <2>3. CASE ~End(s)
    <3>1. pc'[s] = "try" /\ \A r \in Session \ {s} : pc'[r] = pc[r]
      BY <1>11, <2>3 DEF WritePlan, Goto, TypeInv, Locals
    <3> QED BY <1>11, <2>1, <2>3, <3>1, EarnedFrame DEF WritePlan, EarnedInv, Ahead, local
  <2> QED BY <2>2, <2>3
<1>12. ASSUME NEW s \in Session, TrySeal(s) PROVE EarnedInv'
  <2>1. CASE End(s)
    BY <1>12, <2>1, EarnedEnd DEF TrySeal, EarnedInv, rows
  <2>2. CASE ~End(s)
    BY <1>12, <2>2, EarnedGoto DEF TrySeal, Ahead, local
  <2> QED BY <2>1, <2>2
<1>13. ASSUME NEW s \in Session, LockPlan(s) PROVE EarnedInv'
  <2>1. CASE End(s)
    BY <1>13, <2>1, EarnedEnd DEF LockPlan, EarnedInv, rows
  <2>2. CASE ~End(s)
    <3>1. MeetsSealCriteria(plan) /\ Goto(s, "reward") /\ UNCHANGED <<rows, local>>
      BY <1>13, <2>2 DEF LockPlan
    <3>2. learned # {}
      BY <3>1, CriteriaNeedASession DEF EarnedInv, TypeInv, TypeOK
    <3> QED BY <3>1, <3>2 DEF EarnedInv, SealEarnedOnce, rows
  <2> QED BY <2>1, <2>2
<1>14. ASSUME NEW s \in Session, Seal(s) PROVE EarnedInv'
  <2>1. learned # {} /\ learned' = learned
    BY <1>14 DEF Seal, EarnedInv
  <2>2. granted' <= 1
    BY <1>14 DEF Seal, Pays, EarnedInv, SealEarnedOnce
  <2> QED BY <2>1, <2>2 DEF EarnedInv, SealEarnedOnce
<1>15. ASSUME NEW s \in Session, DeadlockVictim(s) \/ Crash(s) PROVE EarnedInv'
  BY <1>15, EarnedEnd DEF DeadlockVictim, Crash, EarnedInv, rows
<1>16. CASE WeekTurns \/ UNCHANGED vars
  BY <1>16 DEF WeekTurns, EarnedInv, SealEarnedOnce, Ahead, vars, rows, local
<1> QED
  BY <1>1, <1>3, <1>4, <1>5, <1>6, <1>7, <1>8, <1>9, <1>10, <1>11, <1>12, <1>13,
     <1>14, <1>15, <1>16 DEF Next, Step

(* Whatever is moved, skipped, lost or saved over the seal: the reward is  *)
(* paid at most once, and never for a week without a completed lesson.     *)
THEOREM SealIsEarnedOnce == Spec => []SealEarnedOnce
<1>1. Init => EarnedInv
  BY NewRows DEF Init, EarnedInv, SealEarnedOnce
<1>2. TypeInv /\ EarnedInv /\ [Next]_vars => EarnedInv'
  BY EarnedStep
<1>3. EarnedInv => SealEarnedOnce
  BY DEF EarnedInv
<1> QED BY <1>1, <1>2, <1>3, InitType, StepType, PTL DEF Spec
-----------------------------------------------------------------------------
(***************************************************************************)
(* Counting.  Where lessons are only completed or fail, the wallet's lock  *)
(* keeps the completions apart from the reading of the plan to the COMMIT, *)
(* and a seal's payment, which needs that lock, out of between.            *)
(***************************************************************************)
OnlyCompleting == ops \subseteq {"complete", "crash"}

DoneTasks == {t \in Task : task[t].status = "done"}

(* s is about to count its lesson on the plan as it is.                    *)
Counting(s) ==
  /\ granted = 0 /\ task[Mine(s)].status # "done"
  /\ myPlan[s] = Counted(plan)

(* The lesson of s is counted, or need not be.                             *)
Settled(s) == granted > 0 \/ task[Mine(s)].status = "done"

Counts(s) ==
  /\ pc[s] \notin {"diffTask", "writeTask", "diffPlan", "writePlan"}
  /\ pc[s] \in {"idle", "wallet", "mark"} => patch[s] = {}
  /\ pc[s] \in {"compare", "count"} => Counting(s)
  /\ pc[s] = "count" => patch[s] = {"done"}
  /\ pc[s] = "commit" => IF planHolder = s THEN Counting(s) /\ patch[s] = {"done"}
                         ELSE Settled(s) /\ patch[s] = {}
  /\ pc[s] = "after" => Settled(s)
  /\ pc[s] = "reward" => granted = 0

CountInv ==
  OnlyCompleting =>
    /\ ~over
    /\ plan.status = IF granted = 0 THEN "active" ELSE "sealed"
    /\ plan.done = Cardinality(DoneTasks)
    /\ \A s \in Session : Counts(s)

LEMMA CountInit == Init => CountInv
<1> SUFFICES ASSUME Init PROVE CountInv  OBVIOUS
<1>1. DoneTasks = {}
  BY DEF Init, DoneTasks, NewTask
<1>2. plan.done = Cardinality(DoneTasks)
  BY <1>1, NewRows, FS_EmptySet DEF Init
<1> QED BY <1>2, NewRows DEF Init, CountInv, Counts

(* A step of s that leaves the rows.                                       *)
LEMMA CountFrame ==
  ASSUME TypeInv, CountInv, OnlyCompleting, NEW s \in Session, UNCHANGED <<rows, over, ops>>,
         \A r \in Session \ {s} : /\ pc'[r] = pc[r] /\ myPlan'[r] = myPlan[r]
                                  /\ patch'[r] = patch[r] /\ call'[r] = call[r]
                                  /\ planHolder' = r <=> planHolder = r,
         Counts(s)'
  PROVE  CountInv'
<1>1. ASSUME NEW r \in Session \ {s} PROVE Counts(r)'
  <2>1. Counts(r)  BY DEF CountInv
  <2> QED BY <2>1 DEF Counts, Counting, Settled, Mine, Counted, rows
<1>2. \A r \in Session : Counts(r)'
  BY <1>1
<1> QED BY <1>2 DEF CountInv, DoneTasks, rows

LEMMA CountEnd ==
  ASSUME TypeInv, CountInv, OnlyCompleting, NEW s \in Session, End(s),
         UNCHANGED <<rows, over, ops>>
  PROVE  CountInv'
<1>1. pc'[s] = "done"
  BY EndForgets
<1>2. Counts(s)'
  BY <1>1 DEF Counts
<1> QED BY <1>2, EndForgets, CountFrame

(* The completion commits: if it counted, the plan and the task change     *)
(* together, and no other completion is between its reading and its end.   *)
LEMMA CountCommit ==
  ASSUME TypeInv, CountInv, OnlyCompleting, NEW s \in Session, Commit(s), ops' = ops
  PROVE  CountInv'
<1> DEFINE t == Mine(s)
<1>1. /\ pc[s] = "commit" /\ Counts(s) /\ t \in Task
      /\ plan \in PlanRow /\ myPlan[s] \in PlanRow
  BY DEF Commit, CountInv, TypeInv, TypeOK, Locals, Mine
<1>2. /\ UNCHANGED <<granted, over, call>>
      /\ pc'[s] = "after"
      /\ plan' = Patched(plan, myPlan[s], patch[s])
      /\ task' = [task EXCEPT ![t] = IF planHolder = s THEN Done ELSE @]
      /\ \A r \in Session \ {s} : /\ pc'[r] = pc[r] /\ myPlan'[r] = myPlan[r]
                                  /\ patch'[r] = patch[r]
                                  /\ planHolder' = r <=> planHolder = r
  BY WeekAssumption DEF Commit, Goto, Forget, Unlock, Free, TypeInv, Locals
<1>3. IsFiniteSet(DoneTasks)
  BY WeekAssumption, FS_Subset DEF DoneTasks
<1>4. /\ plan'.status = plan.status
      /\ plan'.done = Cardinality(DoneTasks')
      /\ Settled(s)'
      /\ \A u \in Task : task[u].status = "done" => task'[u].status = "done"
  <2>1. CASE planHolder = s
    <3>1. Counting(s) /\ patch[s] = {"done"}
      BY <1>1, <2>1 DEF Counts
    <3>2. plan'.status = plan.status /\ plan'.done = plan.done + 1
      BY <1>1, <1>2, <3>1, PatchedColumns, CountedRow DEF Counting
    <3>3. task' = [task EXCEPT ![t] = Done] /\ Done.status = "done"
      BY <1>2, <2>1 DEF Done
    <3>4. DoneTasks' = DoneTasks \cup {t} /\ t \notin DoneTasks
      BY <1>1, <3>1, <3>3 DEF DoneTasks, Counting, TypeInv, TypeOK
    <3>5. Cardinality(DoneTasks') = Cardinality(DoneTasks) + 1
      BY <1>3, <3>4, FS_AddElement
    <3>6. plan'.done = Cardinality(DoneTasks')
      BY <3>2, <3>5 DEF CountInv
    <3>7. /\ task'[t].status = "done"
          /\ \A u \in Task : task[u].status = "done" => task'[u].status = "done"
      BY <1>1, <3>3 DEF TypeInv, TypeOK
    <3>8. Settled(s)'
      BY <1>2, <3>7 DEF Settled, Mine
    <3> QED BY <3>2, <3>6, <3>7, <3>8
  <2>2. CASE planHolder # s
    <3>1. Settled(s) /\ patch[s] = {}
      BY <1>1, <2>2 DEF Counts
    <3>2. plan'.status = plan.status /\ plan'.done = plan.done
      BY <1>1, <1>2, <3>1, PatchedColumns
    <3>3. task' = task
      BY <1>1, <1>2, <2>2 DEF TypeInv, TypeOK
    <3>4. plan'.done = Cardinality(DoneTasks')
      BY <3>2, <3>3 DEF CountInv, DoneTasks
    <3>5. Settled(s)'
      BY <1>2, <3>1, <3>3 DEF Settled, Mine
    <3> QED BY <3>2, <3>3, <3>4, <3>5
  <2> QED BY <2>1, <2>2
<1>5. Counts(s)'
  BY <1>2, <1>4 DEF Counts
<1>6. ASSUME NEW r \in Session \ {s} PROVE Counts(r)'
  <2>1. Counts(r) /\ call[r].task \in Task
    BY DEF CountInv, TypeInv, Locals
  <2>2. pc[r] \notin {"compare", "count", "commit"}
    BY <1>1 DEF TypeInv, TypeOK, Locals
  <2> QED BY <1>2, <1>4, <2>1, <2>2 DEF Counts, Settled, Mine
<1> QED BY <1>2, <1>4, <1>5, <1>6 DEF CountInv

(* The first payment finds no completion under way, and there is no other. *)
LEMMA CountSeal ==
  ASSUME TypeInv, CountInv, OnlyCompleting, NEW s \in Session, Seal(s), ops' = ops
  PROVE  CountInv'
<1>1. pc[s] = "reward" /\ planHolder = s /\ granted = 0 /\ walletHolder = NoSession
  BY DEF Seal, Pays, CountInv, Counts, TypeInv, TypeOK
<1>2. granted' = 1 /\ plan'.status = "sealed" /\ plan'.done = plan.done
      /\ UNCHANGED <<task, over>> /\ End(s)
  BY <1>1 DEF Seal, Pays, TypeInv, TypeOK, PlanRow
<1>3. pc'[s] = "done" /\ UNCHANGED call
      /\ \A r \in Session \ {s} : /\ pc'[r] = pc[r] /\ myPlan'[r] = myPlan[r]
                                  /\ patch'[r] = patch[r]
                                  /\ planHolder' = r <=> planHolder = r
  BY <1>2, EndForgets
<1>4. Counts(s)'
  BY <1>3 DEF Counts
<1>5. ASSUME NEW r \in Session \ {s} PROVE Counts(r)'
  <2>1. Counts(r)
    BY DEF CountInv
  <2>2. pc[r] \notin {"compare", "count", "commit", "reward"}
    BY <1>1, WeekAssumption DEF TypeInv, TypeOK, Locals
  <2> QED BY <1>2, <1>3, <2>1, <2>2 DEF Counts, Settled, Mine
<1> QED BY <1>2, <1>4, <1>5 DEF CountInv, DoneTasks

LEMMA CountStep ==
  ASSUME TypeInv, CountInv, [Next]_vars
  PROVE  CountInv'
<1> SUFFICES ASSUME OnlyCompleting, ops' = ops PROVE CountInv'
  BY DEF CountInv, OnlyCompleting, Next, vars
<1>0. \A s \in Session : Counts(s)
  BY DEF CountInv
<1>1. ASSUME NEW s \in Session, NEW t \in Task, Complete(s, t) PROVE CountInv'
  <2>1. pc'[s] = "wallet" /\ patch'[s] = {} /\ UNCHANGED <<rows, over, planHolder>>
        /\ \A r \in Session \ {s} : /\ pc'[r] = pc[r] /\ myPlan'[r] = myPlan[r]
                                    /\ patch'[r] = patch[r] /\ call'[r] = call[r]
    BY <1>0, <1>1 DEF Complete, Goto, Counts, TypeInv, Locals, locks
  <2>2. Counts(s)'
    BY <2>1 DEF Counts
  <2> QED BY <2>1, <2>2, CountFrame
<1>2. ASSUME NEW s \in Session, NEW t \in Task, MoveTask(s, t) \/ SkipTask(s, t)
      PROVE  CountInv'
  BY <1>2 DEF MoveTask, SkipTask, Change, OnlyCompleting
<1>3. ASSUME NEW s \in Session, ClosePreviousWeek(s) PROVE CountInv'
  BY <1>3 DEF ClosePreviousWeek, CountInv
<1>4. ASSUME NEW s \in Session, LockWallet(s) PROVE CountInv'
  <2>1. pc[s] = "wallet" /\ pc'[s] = "mark" /\ UNCHANGED <<rows, over, planHolder, local>>
        /\ \A r \in Session \ {s} : pc'[r] = pc[r]
    BY <1>4 DEF LockWallet, Goto, TypeInv, Locals
  <2>2. Counts(s)'
    BY <1>0, <2>1 DEF Counts, local
  <2> QED BY <2>1, <2>2, CountFrame DEF local
<1>5. ASSUME NEW s \in Session, Mark(s) PROVE CountInv'
  <2>1. /\ pc[s] = "mark" /\ UNCHANGED <<rows, over, planHolder, call, patch>>
        /\ \A r \in Session \ {s} : pc'[r] = pc[r] /\ myPlan'[r] = myPlan[r]
    BY <1>5 DEF Mark, Goto, TypeInv, Locals, locks
  <2>2. planHolder # s /\ patch'[s] = {}
    BY <1>0, <2>1 DEF Counts, TypeInv, TypeOK
  <2>3. CASE plan.status = "sealed" \/ task[Mine(s)].status = "done"
    <3>1. pc'[s] = "commit"
      BY <1>5, <2>3 DEF Mark, Goto, TypeInv, Locals
    <3>2. Settled(s)
      BY <2>3 DEF CountInv, Settled, TypeInv, Locals
    <3>3. Counts(s)'
      BY <2>1, <2>2, <3>1, <3>2 DEF Counts, Settled, Mine, rows
    <3> QED BY <2>1, <3>3, CountFrame
  <2>4. CASE plan.status # "sealed" /\ task[Mine(s)].status # "done"
    <3>1. pc'[s] = "compare" /\ myPlan'[s] = Counted(plan)
      BY <1>5, <2>4 DEF Mark, Goto, CountInv, TypeInv, Locals
    <3>2. granted = 0
      BY <2>4 DEF CountInv
    <3>3. Counts(s)'
      BY <2>1, <2>4, <3>1, <3>2 DEF Counts, Counting, Counted, Mine, rows
    <3> QED BY <2>1, <3>3, CountFrame
  <2> QED BY <2>3, <2>4
<1>6. ASSUME NEW s \in Session, Compare(s) PROVE CountInv'
  <2>1. /\ pc[s] = "compare" /\ pc'[s] = "count" /\ patch'[s] = Differs(myPlan[s], plan)
        /\ UNCHANGED <<rows, over, planHolder, call, myPlan>>
        /\ \A r \in Session \ {s} : pc'[r] = pc[r] /\ patch'[r] = patch[r]
    BY <1>6 DEF Compare, Goto, TypeInv, Locals, locks
  <2>2. Counting(s)
    BY <1>0, <2>1 DEF Counts
  <2>3. Differs(myPlan[s], plan) = {"done"}
    BY <2>2 DEF Differs, Counting, Counted, TypeInv, TypeOK, PlanRow
  <2>4. Counts(s)'
    BY <2>1, <2>2, <2>3 DEF Counts, Counting, Counted, Mine, rows
  <2> QED BY <2>1, <2>4, CountFrame
<1>7. ASSUME NEW s \in Session, Count(s) PROVE CountInv'
  <2>1. /\ pc[s] = "count" /\ pc'[s] = "commit" /\ planHolder = NoSession /\ planHolder' = s
        /\ UNCHANGED <<rows, over, local>>
        /\ \A r \in Session \ {s} : pc'[r] = pc[r]
    BY <1>7 DEF Count, Goto, TypeInv, Locals
  <2>2. Counting(s) /\ patch[s] = {"done"}
    BY <1>0, <2>1 DEF Counts
  <2>3. Counts(s)'
    BY <2>1, <2>2 DEF Counts, Counting, Counted, Mine, rows, local
  <2> QED BY <2>1, <2>3, WeekAssumption, CountFrame DEF local
<1>8. ASSUME NEW s \in Session, After(s) PROVE CountInv'
  <2>1. Settled(s) /\ UNCHANGED <<rows, over>>
    BY <1>0, <1>8 DEF After, Counts
  <2>2. CASE plan.status = "sealed"
    BY <1>8, <2>2, CountEnd DEF After
  <2>3. CASE plan.status # "sealed"
    <3>1. task[Mine(s)].status = "done"
      BY <2>1, <2>3 DEF Settled, CountInv, TypeInv, Locals
    <3>2. pc'[s] = "try" /\ UNCHANGED <<locks, call, patch>>
          /\ \A r \in Session \ {s} : pc'[r] = pc[r] /\ myPlan'[r] = myPlan[r]
      BY <1>8, <2>3, <3>1 DEF After, Goto, CountInv, TypeInv, Locals
    <3>3. Counts(s)'
      BY <3>2 DEF Counts
    <3> QED BY <2>1, <3>2, <3>3, CountFrame DEF locks
  <2> QED BY <2>2, <2>3
<1>9. ASSUME NEW s \in Session,
             DiffTask(s) \/ WriteTask(s) \/ DiffPlan(s) \/ WritePlan(s)
      PROVE  CountInv'
  BY <1>0, <1>9 DEF DiffTask, WriteTask, DiffPlan, WritePlan, Counts
<1>10. ASSUME NEW s \in Session, TrySeal(s) \/ LockPlan(s) PROVE CountInv'
  <2>1. CASE End(s)
    BY <1>10, <2>1, CountEnd DEF TrySeal, LockPlan
  <2>2. CASE ~End(s)
    <3>1. PICK l \in {"lockPlan", "reward"} :
            /\ Goto(s, l) /\ UNCHANGED <<rows, over, local>>
            /\ l = "reward" => plan.status # "sealed"
            /\ \/ planHolder' = planHolder
               \/ planHolder = NoSession /\ planHolder' = s
      BY <1>10, <2>2 DEF TrySeal, LockPlan, locks
    <3>2. pc'[s] = l /\ \A r \in Session \ {s} : pc'[r] = pc[r]
      BY <3>1 DEF Goto, TypeInv, Locals
    <3>3. Counts(s)'
      BY <3>1, <3>2 DEF Counts, CountInv, rows
    <3> QED BY <3>1, <3>2, <3>3, WeekAssumption, CountFrame DEF local
  <2> QED BY <2>1, <2>2
<1>11. ASSUME NEW s \in Session, DeadlockVictim(s) \/ Crash(s) PROVE CountInv'
  BY <1>11, CountEnd DEF DeadlockVictim, Crash
<1>12. CASE WeekTurns
  BY <1>12 DEF WeekTurns, OnlyCompleting
<1>13. CASE UNCHANGED vars
  BY <1>13 DEF CountInv, OnlyCompleting, DoneTasks, Counts, Counting, Settled, Counted, Mine,
               vars, rows, locks, local
<1> QED
  BY <1>1, <1>2, <1>3, <1>4, <1>5, <1>6, <1>7, <1>8, <1>9, <1>10, <1>11, <1>12, <1>13,
     CountCommit, CountSeal DEF Next, Step

(* However many lessons of a week are completed at once, and however many  *)
(* of the calls fail: the plan counts each completed task, once.           *)
THEOREM CompletionsCountOnce == Spec => []CountedRight
<1>1. TypeInv /\ CountInv /\ [Next]_vars => CountInv'
  BY CountStep
<1>2. CountInv => CountedRight
  BY DEF CountInv, CountedRight, OnlyCompleting, DoneTasks
<1> QED BY <1>1, <1>2, CountInit, InitType, StepType, PTL DEF Spec
-----------------------------------------------------------------------------
(* Roadmaps and the jobs that make them.                                   *)
CONSTANTS MaxPlans, MaxJobs, Followed, MaxAttempts, Worker
VARIABLES roadmap, finishedAt, copy, jobs, queue, hands, overlapped, stopped, resaved
Plans == INSTANCE RoadmapPlans WITH plan <- roadmap, finished <- finishedAt

Active(r) == roadmap[r] \in {"ready", "completed"}
PlanCopy == [of : Plans!Roadmap, status : Plans!RoadmapRow, finished : BOOLEAN]
PlanHands == [at : {"free", "chosen", "plan", "persist", "persisted", "swap", "swapped", "settle"},
              job : SUBSET Plans!Job, old : SUBSET Plans!Roadmap, was : SUBSET PlanCopy,
              sees : SUBSET Plans!Roadmap, new : SUBSET Plans!Roadmap]
PlanJobs == [status : Plans!JobRow, old : SUBSET Plans!Roadmap, attempts : Nat, new : SUBSET Plans!Roadmap]

(* Roadmaps are made in the order of their numbers, and who replaces one   *)
(* replaces one that was made; a row that is saved later was read from one *)
(* that was made.                                                          *)
Made(C) == \A c \in C : roadmap[c.of] # "none" /\ c.status # "none"
Sound(h) == (\A o \in h.old : roadmap[o] # "none") /\ Made(h.was)

PlanRows ==
  /\ roadmap \in [Plans!Roadmap -> Plans!RoadmapRow]
  /\ hands \in [Worker -> PlanHands] /\ jobs \in [Plans!Job -> PlanJobs]
  /\ queue \subseteq Plans!Job /\ finishedAt \subseteq Plans!Roadmap /\ copy \subseteq PlanCopy
  /\ overlapped \in BOOLEAN /\ stopped \in BOOLEAN /\ resaved \in BOOLEAN
  /\ \E k \in Nat : \A r \in Plans!Roadmap : roadmap[r] = "none" <=> r >= k
  /\ \A w \in Worker : Sound(hands[w])
  /\ \A j \in Plans!Job : \A r \in jobs[j].old : roadmap[r] # "none"
  /\ Made(copy) /\ \A r \in finishedAt : roadmap[r] # "none"

(* As long as no two transactions overlap: one worker at most is in one,   *)
(* what it saw ready is all that is, and so one roadmap at most is ready.  *)
OneWrites ==
  /\ \A v, w \in Worker : Plans!InTransaction(v) /\ Plans!InTransaction(w) => v = w
  /\ \A a, b \in Plans!Ready : a = b
  /\ \A w \in Worker : hands[w].at = "persist" => Plans!Ready \subseteq hands[w].sees
  /\ \A w \in Worker : hands[w].at = "swap" =>
       Plans!Ready \subseteq hands[w].new /\ \A r \in hands[w].new : Active(r)

(* What a job has made, or is about to answer with, is there or a newer.   *)
MadeIsThere(S) == \E m \in Plans!Roadmap : S = {m} /\ \E r \in Plans!Roadmap : r >= m /\ Active(r)
Kept ==
  /\ \A w \in Worker : hands[w].at \in {"persisted", "swap"} => \E m \in Plans!Roadmap : hands[w].new = {m}
  /\ \A w \in Worker : hands[w].at \in {"swapped", "settle"} => MadeIsThere(hands[w].new)
  /\ \A j \in Plans!Job : jobs[j].status = "ready" => MadeIsThere(jobs[j].new)

(* As long as no row is saved that has changed: what is finished is        *)
(* completed, and nothing else.                                            *)
EndsAgree == \A r \in Plans!Roadmap : r \in finishedAt <=> roadmap[r] = "completed"

PlansInv ==
  /\ PlanRows
  /\ ~resaved => EndsAgree
  /\ ~overlapped /\ ~resaved => OneWrites /\ Kept

LEMMA TheFirst ==
  ASSUME PlanRows, Plans!PlansAssumption, Plans!Unused # {}
  PROVE  /\ Plans!First(Plans!Unused) \in Plans!Roadmap /\ roadmap[Plans!First(Plans!Unused)] = "none"
         /\ \A r \in Plans!Roadmap : roadmap[r] = "none" <=> r >= Plans!First(Plans!Unused)
<1>1. PICK k \in Nat : \A r \in Plans!Roadmap : roadmap[r] = "none" <=> r >= k
  BY DEF PlanRows
<1>2. MaxPlans \in Nat
  BY DEF Plans!PlansAssumption
<1>3. k \in Plans!Unused /\ \A r \in Plans!Unused : k <= r
  BY <1>1, <1>2 DEF Plans!Unused, Plans!Roadmap
<1>4. \A x \in Plans!Unused : (\A y \in Plans!Unused : x <= y) => x = k
  BY <1>2, <1>3 DEF Plans!Unused, Plans!Roadmap
<1>5. Plans!First(Plans!Unused) = k
  BY <1>3, <1>4 DEF Plans!First
<1> QED BY <1>1, <1>3, <1>5 DEF Plans!Unused

(* A row that is saved: one that has not changed since it was read is      *)
(* saved without effect.                                                   *)
LEMMA SavedRow ==
  ASSUME PlanRows, NEW c \in PlanCopy, Made({c}), Plans!SaveRow(c)
  PROVE  /\ roadmap' \in [Plans!Roadmap -> Plans!RoadmapRow] /\ finishedAt' \subseteq Plans!Roadmap
         /\ resaved' \in BOOLEAN /\ \A r \in finishedAt' : roadmap[r] # "none"
         /\ \A r \in Plans!Roadmap : roadmap'[r] = "none" <=> roadmap[r] = "none"
         /\ ~resaved' => ~resaved /\ roadmap' = roadmap /\ finishedAt' = finishedAt
<1>1. c.of \in Plans!Roadmap /\ c.status \in Plans!RoadmapRow \ {"none"} /\ roadmap[c.of] # "none"
  BY DEF PlanCopy, Made
<1>2. roadmap' = [roadmap EXCEPT ![c.of] = c.status]
  BY DEF Plans!SaveRow
<1>3. finishedAt' = IF c.finished THEN finishedAt \union {c.of} ELSE finishedAt \ {c.of}
  BY DEF Plans!SaveRow
<1>4. resaved' = (resaved \/ c # Plans!Row(c.of))
  BY DEF Plans!SaveRow
<1>5. /\ roadmap \in [Plans!Roadmap -> Plans!RoadmapRow] /\ finishedAt \subseteq Plans!Roadmap
      /\ resaved \in BOOLEAN /\ \A r \in finishedAt : roadmap[r] # "none"
  BY DEF PlanRows
<1>6. ASSUME ~resaved' PROVE ~resaved /\ c.status = roadmap[c.of] /\ c.finished = (c.of \in finishedAt)
  <2>1. ~resaved /\ c = Plans!Row(c.of)
    BY <1>4, <1>6, Zenon
  <2> QED BY <2>1 DEF Plans!Row
<1>7. ASSUME ~resaved' PROVE roadmap' = roadmap /\ finishedAt' = finishedAt
  <2>1. roadmap' = roadmap
    BY <1>1, <1>2, <1>5, <1>6, <1>7
  <2>2. finishedAt' = finishedAt
    BY <1>3, <1>6, <1>7
  <2> QED BY <2>1, <2>2
<1>8. resaved' \in BOOLEAN
  BY <1>4, <1>5
<1> QED BY <1>1, <1>2, <1>3, <1>5, <1>6, <1>7, <1>8

(* The row of a completion or of the coach.                                *)
LEMMA SavedTree ==
  ASSUME PlanRows, Plans!SaveTree
  PROVE  \E c \in PlanCopy : Made({c}) /\ Plans!SaveRow(c)
<1>1. PICK c \in copy : Plans!SaveRow(c) \/ Plans!SaveRow([c EXCEPT !.finished = c.of \in finishedAt])
  BY DEF Plans!SaveTree
<1>2. c \in PlanCopy /\ roadmap[c.of] # "none" /\ c.status # "none"
  BY DEF PlanRows, Made
<1>3. PICK d : d = [of |-> c.of, status |-> c.status, finished |-> c.of \in finishedAt]
  OBVIOUS
<1>4. d \in PlanCopy /\ d.of = c.of /\ d.status = c.status
  BY <1>2, <1>3 DEF PlanCopy
<1>6. [c EXCEPT !.finished = c.of \in finishedAt] = d
  <2>1. PICK b : b = (c.of \in finishedAt)
    OBVIOUS
  <2>2. [c EXCEPT !.finished = b] = [of |-> c.of, status |-> c.status, finished |-> b]
    BY <1>2 DEF PlanCopy
  <2> QED BY <1>3, <2>1, <2>2
<1>5. Made({c}) /\ Made({d})
  BY <1>2, <1>4 DEF Made
<1> QED BY <1>1, <1>2, <1>4, <1>5, <1>6

(* A finished roadmap is neither archived nor made anew.                   *)
LEMMA EndsStep ==
  ASSUME PlanRows, ~resaved => EndsAgree, Plans!PlansAssumption, [Plans!Next]_Plans!planVars, ~resaved'
  PROVE  EndsAgree' /\ finishedAt \subseteq finishedAt'
<1> USE DEF EndsAgree
<1>1. ASSUME NEW w \in Worker, Plans!PersistPlan(w) PROVE EndsAgree' /\ finishedAt \subseteq finishedAt'
  <2>1. roadmap[Plans!First(Plans!Unused)] = "none"
    BY <1>1, TheFirst DEF Plans!PersistPlan
  <2>2. ~resaved /\ finishedAt' = finishedAt
    BY <1>1 DEF Plans!PersistPlan
  <2> QED BY <1>1, <2>1, <2>2 DEF Plans!PersistPlan, Plans!Persisted, Plans!Ready
<1>2. ASSUME NEW w \in Worker, Plans!Swap(w) PROVE EndsAgree' /\ finishedAt \subseteq finishedAt'
  BY <1>2 DEF Plans!Swap, Plans!Archived, Plans!Ready
<1>3. ASSUME NEW q \in Plans!Roadmap, Plans!Finish(q) PROVE EndsAgree' /\ finishedAt \subseteq finishedAt'
  BY <1>3 DEF Plans!Finish, PlanRows
<1>4. ASSUME NEW c \in PlanCopy, Made({c}), Plans!SaveRow(c) PROVE EndsAgree' /\ finishedAt \subseteq finishedAt'
  BY <1>4, SavedRow
<1>5. ASSUME NEW w \in Worker, Plans!ChooseNext(w) \/ Plans!SavePrevious(w)
      PROVE  EndsAgree' /\ finishedAt \subseteq finishedAt'
  <2>1. PICK c \in hands[w].was : Plans!SaveRow(c)
    BY <1>5 DEF Plans!ChooseNext, Plans!SavePrevious
  <2>2. c \in PlanCopy /\ Made({c})
    BY <2>1 DEF PlanRows, PlanHands, Sound, Made
  <2> QED BY <1>4, <2>1, <2>2
<1>6. ASSUME Plans!SaveTree PROVE EndsAgree' /\ finishedAt \subseteq finishedAt'
  BY <1>4, <1>6, SavedTree
<1> QED BY <1>1, <1>2, <1>3, <1>5, <1>6 DEF Plans!Next, Plans!planVars, Plans!EnqueueGenerate, Plans!LoadTree, Plans!Choose,
        Plans!Replan, Plans!Take, Plans!Archive, Plans!FindNew, Plans!Settle, Plans!Fail, Plans!Stop

LEMMA PlansStart == ASSUME Plans!PlansAssumption, Plans!Init PROVE PlansInv
<1> USE DEF Plans!Init
<1>1. 0 \in Plans!Roadmap
  BY DEF Plans!PlansAssumption, Plans!Roadmap
<1>2. PlanRows
  <2>1. \A r \in Plans!Roadmap : roadmap[r] = "none" <=> r >= 1
    BY DEF Plans!Roadmap, Plans!PlansAssumption
  <2>2. hands \in [Worker -> PlanHands] /\ jobs \in [Plans!Job -> PlanJobs]
    BY DEF PlanHands, PlanJobs, Plans!Free, Plans!NoJob, Plans!JobRow
  <2>3. Made({}) /\ Sound(Plans!Free)
    BY DEF Made, Sound, Plans!Free
  <2> QED BY <2>1, <2>2, <2>3 DEF PlanRows, Plans!RoadmapRow, Plans!NoJob
<1>3. OneWrites
  BY <1>1 DEF OneWrites, Plans!InTransaction, Plans!Free, Plans!Ready
<1>4. Kept
  BY DEF Kept, Plans!Free, Plans!NoJob
<1>5. EndsAgree
  BY DEF EndsAgree
<1> QED BY <1>2, <1>3, <1>4, <1>5 DEF PlansInv

(* What one handler takes up or puts down.                                 *)
LEMMA HandsStay ==
  ASSUME PlanRows, NEW w \in Worker, NEW r \in PlanHands, Plans!Holds(w, r), Sound(r)
  PROVE  /\ hands' \in [Worker -> PlanHands] /\ hands'[w] = r
         /\ \A v \in Worker \ {w} : hands'[v] = hands[v]
         /\ \A v \in Worker : Sound(hands'[v])
<1>1. /\ hands' \in [Worker -> PlanHands] /\ hands'[w] = r
      /\ \A v \in Worker \ {w} : hands'[v] = hands[v]
  BY DEF PlanRows, Plans!Holds
<1> QED BY <1>1 DEF PlanRows

(* A row of a new job.                                                     *)
LEMMA JobsQueued ==
  ASSUME PlanRows, NEW job \in PlanJobs, Plans!Enqueue(job), job.status = "queued", \A o \in job.old : roadmap[o] # "none"
  PROVE  /\ jobs' \in [Plans!Job -> PlanJobs] /\ queue' \subseteq Plans!Job /\ stopped' \in BOOLEAN
         /\ \A j \in Plans!Job : \A o \in jobs'[j].old : roadmap[o] # "none"
         /\ \A j \in Plans!Job : jobs'[j] = jobs[j] \/ jobs'[j].status = "queued"
<1>1. PICK j \in Plans!Job : jobs' = [jobs EXCEPT ![j] = job]
        /\ \/ queue' = queue \union {j} /\ UNCHANGED stopped
           \/ stopped' = TRUE /\ UNCHANGED queue
  BY DEF Plans!Enqueue
<1> QED BY <1>1 DEF PlanRows

(* The steps keep the rows: no roadmap disappears.                         *)
LEMMA RowsGoOn ==
  ASSUME PlanRows, Plans!PlansAssumption, roadmap' \in [Plans!Roadmap -> Plans!RoadmapRow],
         overlapped' \in BOOLEAN, stopped' \in BOOLEAN, resaved' \in BOOLEAN,
         queue' \subseteq Plans!Job, finishedAt' \subseteq Plans!Roadmap, copy' \subseteq PlanCopy,
         \A r \in finishedAt' : roadmap[r] # "none",
         hands' \in [Worker -> PlanHands], jobs' \in [Plans!Job -> PlanJobs],
         \E k \in Nat : \A r \in Plans!Roadmap : roadmap'[r] = "none" <=> r >= k,
         \A r \in Plans!Roadmap : roadmap[r] # "none" => roadmap'[r] # "none",
         \A v \in Worker : Sound(hands'[v]), Made(copy'),
         \A j \in Plans!Job : \A o \in jobs'[j].old : roadmap[o] # "none"
  PROVE  PlanRows'
<1>1. ASSUME NEW C \in SUBSET PlanCopy, Made(C)
      PROVE  \A c \in C : roadmap'[c.of] # "none" /\ c.status # "none"
  BY <1>1 DEF Made, PlanCopy
<1>2. ASSUME NEW v \in Worker PROVE Sound(hands[v])'
  <2>1. hands'[v] \in PlanHands /\ Sound(hands'[v])
    OBVIOUS
  <2>2. \A c \in hands'[v].was : roadmap'[c.of] # "none" /\ c.status # "none"
    BY <1>1, <2>1 DEF Sound, PlanHands
  <2>3. \A o \in hands'[v].old : roadmap'[o] # "none"
    BY <2>1 DEF Sound, PlanHands
  <2> QED BY <2>2, <2>3 DEF Sound, Made
<1>3. Made(copy)'
  BY <1>1 DEF Made
<1>4. \A j \in Plans!Job : \A o \in jobs'[j].old : roadmap'[o] # "none"
  BY DEF PlanJobs
<1>5. \A r \in finishedAt' : roadmap'[r] # "none"
  OBVIOUS
<1> QED BY <1>2, <1>3, <1>4, <1>5 DEF PlanRows

LEMMA RowsWithoutPlan ==
  ASSUME PlanRows, Plans!PlansAssumption, UNCHANGED <<roadmap, finishedAt, copy, resaved>>,
         overlapped' \in BOOLEAN, stopped' \in BOOLEAN,
         queue' \subseteq Plans!Job, hands' \in [Worker -> PlanHands], jobs' \in [Plans!Job -> PlanJobs],
         \A v \in Worker : Sound(hands'[v]),
         \A j \in Plans!Job : \A o \in jobs'[j].old : roadmap[o] # "none"
  PROVE  PlanRows'
<1>1. /\ roadmap' \in [Plans!Roadmap -> Plans!RoadmapRow] /\ resaved' \in BOOLEAN
      /\ finishedAt' \subseteq Plans!Roadmap /\ copy' \subseteq PlanCopy /\ Made(copy')
      /\ \A r \in finishedAt' : roadmap[r] # "none"
      /\ \A r \in Plans!Roadmap : roadmap[r] # "none" => roadmap'[r] # "none"
      /\ \E k \in Nat : \A r \in Plans!Roadmap : roadmap'[r] = "none" <=> r >= k
  BY DEF PlanRows
<1> QED BY <1>1, RowsGoOn

LEMMA RowsWithPlan ==
  ASSUME PlanRows, Plans!PlansAssumption, UNCHANGED <<copy, jobs, queue, overlapped, stopped, resaved>>,
         finishedAt' \subseteq Plans!Roadmap, \A r \in finishedAt' : roadmap[r] # "none",
         roadmap' \in [Plans!Roadmap -> Plans!RoadmapRow], hands' \in [Worker -> PlanHands],
         \E k \in Nat : \A r \in Plans!Roadmap : roadmap'[r] = "none" <=> r >= k,
         \A r \in Plans!Roadmap : roadmap[r] # "none" => roadmap'[r] # "none",
         \A v \in Worker : Sound(hands'[v])
  PROVE  PlanRows'
<1>1. /\ overlapped' \in BOOLEAN /\ stopped' \in BOOLEAN /\ resaved' \in BOOLEAN
      /\ queue' \subseteq Plans!Job /\ copy' \subseteq PlanCopy /\ Made(copy')
      /\ jobs' \in [Plans!Job -> PlanJobs]
      /\ \A j \in Plans!Job : \A o \in jobs'[j].old : roadmap[o] # "none"
  BY DEF PlanRows
<1> QED BY <1>1, RowsGoOn

(* A row is saved: the roadmaps are the same, or it had changed.           *)
LEMMA RowsSaved ==
  ASSUME PlanRows, Plans!PlansAssumption, NEW c \in PlanCopy, Made({c}), Plans!SaveRow(c),
         overlapped' \in BOOLEAN, stopped' \in BOOLEAN, copy' \subseteq copy,
         queue' \subseteq Plans!Job, hands' \in [Worker -> PlanHands], jobs' \in [Plans!Job -> PlanJobs],
         \A v \in Worker : Sound(hands'[v]),
         \A j \in Plans!Job : \A o \in jobs'[j].old : roadmap[o] # "none"
  PROVE  PlanRows' /\ (~resaved' => ~resaved /\ roadmap' = roadmap)
<1>1. /\ roadmap' \in [Plans!Roadmap -> Plans!RoadmapRow] /\ finishedAt' \subseteq Plans!Roadmap
      /\ resaved' \in BOOLEAN /\ \A r \in finishedAt' : roadmap[r] # "none"
      /\ \A r \in Plans!Roadmap : roadmap'[r] = "none" <=> roadmap[r] = "none"
      /\ ~resaved' => ~resaved /\ roadmap' = roadmap
  BY SavedRow
<1>2. copy' \subseteq PlanCopy /\ Made(copy')
  BY DEF PlanRows, Made
<1>3. \E k \in Nat : \A r \in Plans!Roadmap : roadmap'[r] = "none" <=> r >= k
  BY <1>1 DEF PlanRows
<1> QED BY <1>1, <1>2, <1>3, RowsGoOn

(* What every step does to the hands but those that change roadmaps.       *)
PlanSteps(w) ==
  \/ \E r \in Plans!Roadmap : Plans!Choose(w, r) \/ Plans!Replan(w, r)
  \/ \E j \in Plans!Job : Plans!Take(w, j)
  \/ Plans!ChooseNext(w) \/ Plans!Archive(w) \/ Plans!FindNew(w)
  \/ Plans!SavePrevious(w) \/ Plans!Settle(w) \/ Plans!Fail(w) \/ Plans!Stop(w)

(* One worker goes on: what its hands hold next, and what the rows of jobs *)
(* become, is all that its step changes; the roadmaps stay, but for a row  *)
(* that had changed and is saved.                                          *)
GoesOn(w) ==
  /\ PlanRows' /\ (~resaved' => ~resaved /\ roadmap' = roadmap)
  /\ \A v \in Worker \ {w} : hands'[v] = hands[v]
  /\ \A j \in Plans!Job : \/ jobs'[j] = jobs[j] \/ jobs'[j].status # "ready"
                          \/ hands[w].at = "settle" /\ jobs'[j].new = hands[w].new
  /\ \/ hands'[w].at \in {"free", "chosen", "plan"} /\ overlapped' = overlapped
     \/ /\ hands'[w].at = "settle" /\ hands[w].at = "swapped" /\ hands'[w].new = hands[w].new
        /\ overlapped' = overlapped /\ jobs' = jobs
     \/ /\ Plans!Begins(w) /\ jobs' = jobs
        /\ \/ hands'[w].at = "persist" /\ hands'[w].sees = Plans!Ready
           \/ hands'[w].at = "swap" /\ hands[w].at = "persisted" /\ hands'[w].new = hands[w].new
              /\ hands[w].new \subseteq Plans!Ready

LEMMA OneGoesOn ==
  ASSUME PlanRows, Plans!PlansAssumption, NEW w \in Worker, PlanSteps(w)
  PROVE  GoesOn(w)
<1>0. hands[w] \in PlanHands /\ jobs \in [Plans!Job -> PlanJobs] /\ Sound(hands[w])
  BY DEF PlanRows
<1>f. Plans!Free \in PlanHands /\ Plans!Free.at = "free" /\ Sound(Plans!Free)
  BY DEF Plans!Free, PlanHands, Sound, Made
<1>t. overlapped \in BOOLEAN /\ stopped \in BOOLEAN /\ queue \subseteq Plans!Job
  BY DEF PlanRows
<1>1. ASSUME NEW h \in PlanHands, Plans!Holds(w, h), Sound(h),
             h.at \in {"free", "chosen", "plan"}, UNCHANGED <<roadmap, finishedAt, copy, resaved, overlapped>>,
             queue' \subseteq Plans!Job, stopped' \in BOOLEAN, jobs' \in [Plans!Job -> PlanJobs],
             \A j \in Plans!Job : \A o \in jobs'[j].old : roadmap[o] # "none",
             \A j \in Plans!Job : \/ jobs'[j] = jobs[j] \/ jobs'[j].status # "ready"
                                  \/ hands[w].at = "settle" /\ jobs'[j].new = hands[w].new
      PROVE  GoesOn(w)
  <2>1. /\ hands' \in [Worker -> PlanHands] /\ hands'[w] = h
        /\ \A v \in Worker \ {w} : hands'[v] = hands[v]
        /\ \A v \in Worker : Sound(hands'[v])
    BY <1>1, HandsStay
  <2>2. PlanRows'
    BY <1>1, <1>t, <2>1, RowsWithoutPlan
  <2> QED BY <1>1, <2>1, <2>2 DEF GoesOn
<1>2. ASSUME NEW h \in PlanHands, Plans!Holds(w, h), Sound(h),
             Plans!Begins(w), UNCHANGED <<roadmap, finishedAt, copy, resaved, jobs, queue, stopped>>,
             \/ h.at = "persist" /\ h.sees = Plans!Ready
             \/ h.at = "swap" /\ hands[w].at = "persisted" /\ h.new = hands[w].new /\ h.new \subseteq Plans!Ready
      PROVE  GoesOn(w)
  <2>1. /\ hands' \in [Worker -> PlanHands] /\ hands'[w] = h
        /\ \A v \in Worker \ {w} : hands'[v] = hands[v]
        /\ \A v \in Worker : Sound(hands'[v])
    BY <1>2, HandsStay
  <2>2. overlapped' \in BOOLEAN
    BY <1>2, <1>t DEF Plans!Begins
  <2>3. \A j \in Plans!Job : \A o \in jobs'[j].old : roadmap[o] # "none"
    BY <1>2 DEF PlanRows
  <2>4. PlanRows'
    BY <1>0, <1>2, <1>t, <2>1, <2>2, <2>3, RowsWithoutPlan
  <2> QED BY <1>2, <2>1, <2>4 DEF GoesOn
<1>j. \A j \in Plans!Job : \A o \in jobs[j].old : roadmap[o] # "none"
  BY DEF PlanRows
<1>r. \A r \in Plans!Roadmap : roadmap[r] # "none" => Plans!Row(r) \in PlanCopy /\ Made({Plans!Row(r)})
  BY DEF Plans!Row, PlanCopy, Made, PlanRows
<1>3. ASSUME NEW r \in Plans!Roadmap, Plans!Choose(w, r) PROVE GoesOn(w)
  <2> DEFINE h == [Plans!Free EXCEPT !.at = "chosen", !.old = {r}, !.was = {Plans!Row(r)}]
  <2>1. /\ roadmap[r] # "none" /\ Plans!Holds(w, h)
        /\ UNCHANGED <<roadmap, finishedAt, copy, resaved, jobs, queue, overlapped, stopped>>
    BY <1>3 DEF Plans!Choose, PlanRows
  <2>2. h \in PlanHands /\ h.at = "chosen" /\ Sound(h)
    BY <1>r, <2>1 DEF Plans!Free, PlanHands, Sound, Made
  <2> HIDE DEF h
  <2> QED BY <1>0, <1>1, <1>j, <1>t, <2>1, <2>2
<1>10. ASSUME NEW r \in Plans!Roadmap, Plans!Replan(w, r) PROVE GoesOn(w)
  <2> DEFINE h == [Plans!Free EXCEPT !.at = "plan", !.old = {r}]
  <2>1. /\ roadmap[r] # "none" /\ Plans!Holds(w, h)
        /\ UNCHANGED <<roadmap, finishedAt, copy, resaved, jobs, queue, overlapped, stopped>>
    BY <1>10 DEF Plans!Replan
  <2>2. h \in PlanHands /\ h.at = "plan" /\ Sound(h)
    BY <1>r, <2>1 DEF Plans!Free, PlanHands, Sound, Made
  <2> HIDE DEF h
  <2> QED BY <1>0, <1>1, <1>j, <1>t, <2>1, <2>2
<1>4. ASSUME NEW j \in Plans!Job, Plans!Take(w, j) PROVE GoesOn(w)
  <2>1. CASE UNCHANGED <<jobs, hands>>
    <3>1. Plans!Holds(w, Plans!Free)
      BY <1>4, <2>1 DEF Plans!Take, Plans!Holds, PlanRows
    <3>2. queue' \subseteq Plans!Job /\ UNCHANGED <<roadmap, finishedAt, copy, resaved, overlapped, stopped>>
      BY <1>4, <1>t DEF Plans!Take
    <3> QED BY <1>0, <1>1, <1>f, <1>j, <1>t, <2>1, <3>1, <3>2
  <2>2. CASE /\ jobs' = [jobs EXCEPT ![j].status = "processing", ![j].attempts = @ + 1]
             /\ Plans!Holds(w, [Plans!Free EXCEPT !.at = "plan", !.job = {j}, !.old = jobs[j].old,
                                                  !.was = {Plans!Row(o) : o \in jobs[j].old}])
    <3> DEFINE h == [Plans!Free EXCEPT !.at = "plan", !.job = {j}, !.old = jobs[j].old,
                                       !.was = {Plans!Row(o) : o \in jobs[j].old}]
               r == [jobs[j] EXCEPT !.status = "processing", !.attempts = @ + 1]
    <3>1. h \in PlanHands /\ h.at = "plan" /\ Sound(h)
      <4>1. jobs[j].old \subseteq Plans!Roadmap /\ \A o \in jobs[j].old : roadmap[o] # "none"
        BY <1>0, <1>j DEF PlanJobs
      <4>2. PICK was : was = {Plans!Row(o) : o \in jobs[j].old}
        OBVIOUS
      <4>3. was \subseteq PlanCopy /\ Made(was)
        BY <1>r, <4>1, <4>2 DEF Made
      <4> QED BY <4>1, <4>2, <4>3 DEF Plans!Free, PlanHands, Sound
    <3>2. r \in PlanJobs /\ r.status = "processing" /\ r.old = jobs[j].old
      <4>1. jobs[j] \in PlanJobs
        BY <1>0
      <4>2. jobs[j].attempts + 1 \in Nat
        BY <4>1 DEF PlanJobs
      <4> QED BY <4>1, <4>2 DEF PlanJobs, Plans!JobRow
    <3>3. jobs' = [jobs EXCEPT ![j] = r] /\ Plans!Holds(w, h)
      BY <1>0, <2>2
    <3>4. queue' \subseteq Plans!Job /\ UNCHANGED <<roadmap, finishedAt, copy, resaved, overlapped, stopped>>
      BY <1>4, <1>t DEF Plans!Take
    <3> HIDE DEF h, r
    <3>5. /\ jobs' \in [Plans!Job -> PlanJobs] /\ jobs'[j] = r
          /\ \A i \in Plans!Job \ {j} : jobs'[i] = jobs[i]
      BY <1>0, <3>2, <3>3
    <3>6. /\ \A i \in Plans!Job : \A o \in jobs'[i].old : roadmap[o] # "none"
          /\ \A i \in Plans!Job : jobs'[i] = jobs[i] \/ jobs'[i].status # "ready"
      BY <1>j, <3>1, <3>2, <3>5
    <3> QED BY <1>1, <1>t, <3>1, <3>3, <3>4, <3>5, <3>6
  <2> QED BY <1>4, <2>1, <2>2 DEF Plans!Take
<1>s. \A c \in hands[w].was : c \in PlanCopy /\ Made({c})
  BY <1>0 DEF PlanHands, Sound, Made
<1>5. ASSUME Plans!ChooseNext(w) PROVE GoesOn(w)
  <2> DEFINE job == [Plans!NoJob EXCEPT !.status = "queued", !.old = hands[w].old]
  <2>1. job \in PlanJobs /\ job.status = "queued" /\ \A o \in job.old : roadmap[o] # "none"
    BY <1>0 DEF PlanJobs, Plans!NoJob, Plans!JobRow, PlanHands, Sound
  <2>2. /\ Plans!Enqueue(job) \/ UNCHANGED <<jobs, queue, stopped>>
        /\ Plans!Holds(w, Plans!Free) /\ UNCHANGED <<copy, overlapped>>
    BY <1>5 DEF Plans!ChooseNext
  <2> HIDE DEF job
  <2>3. /\ jobs' \in [Plans!Job -> PlanJobs] /\ queue' \subseteq Plans!Job /\ stopped' \in BOOLEAN
        /\ \A j \in Plans!Job : \A o \in jobs'[j].old : roadmap[o] # "none"
        /\ \A j \in Plans!Job : jobs'[j] = jobs[j] \/ jobs'[j].status = "queued"
    <3>1. CASE Plans!Enqueue(job)
      BY <2>1, <3>1, JobsQueued
    <3>2. CASE UNCHANGED <<jobs, queue, stopped>>
      BY <1>0, <1>j, <1>t, <3>2
    <3> QED BY <2>2, <3>1, <3>2
  <2>4. PICK c \in hands[w].was : Plans!SaveRow(c)
    BY <1>5 DEF Plans!ChooseNext
  <2>5. /\ hands' \in [Worker -> PlanHands] /\ hands'[w] = Plans!Free
        /\ \A v \in Worker \ {w} : hands'[v] = hands[v]
        /\ \A v \in Worker : Sound(hands'[v])
    BY <1>f, <2>2, HandsStay
  <2>6. PlanRows' /\ (~resaved' => ~resaved /\ roadmap' = roadmap)
    BY <1>s, <1>t, <2>2, <2>3, <2>4, <2>5, RowsSaved
  <2> QED BY <1>f, <2>2, <2>3, <2>5, <2>6 DEF GoesOn
<1>9. ASSUME Plans!SavePrevious(w) PROVE GoesOn(w)
  <2>1. PICK c \in hands[w].was : Plans!SaveRow(c)
    BY <1>9 DEF Plans!SavePrevious
  <2> DEFINE h == [hands[w] EXCEPT !.at = "settle"]
  <2>2. h \in PlanHands /\ h.at = "settle" /\ h.new = hands[w].new /\ Sound(h)
    BY <1>0 DEF PlanHands, Sound
  <2>3. /\ Plans!Holds(w, h) /\ hands[w].at = "swapped"
        /\ UNCHANGED <<copy, jobs, queue, overlapped, stopped>>
    BY <1>9 DEF Plans!SavePrevious
  <2> HIDE DEF h
  <2>4. /\ hands' \in [Worker -> PlanHands] /\ hands'[w] = h
        /\ \A v \in Worker \ {w} : hands'[v] = hands[v]
        /\ \A v \in Worker : Sound(hands'[v])
    BY <2>2, <2>3, HandsStay
  <2>5. jobs' \in [Plans!Job -> PlanJobs] /\ \A j \in Plans!Job : \A o \in jobs'[j].old : roadmap[o] # "none"
    BY <1>0, <1>j, <2>3
  <2>6. PlanRows' /\ (~resaved' => ~resaved /\ roadmap' = roadmap)
    BY <1>s, <1>t, <2>1, <2>3, <2>4, <2>5, RowsSaved
  <2> QED BY <2>2, <2>3, <2>4, <2>6 DEF GoesOn
<1>6. ASSUME Plans!Archive(w) \/ Plans!FindNew(w) PROVE GoesOn(w)
  <2>1. PICK h \in PlanHands : Plans!Holds(w, h) /\ Sound(h)
          /\ \/ h.at = "persist" /\ h.sees = Plans!Ready
             \/ h.at = "swap" /\ hands[w].at = "persisted" /\ h.new = hands[w].new /\ h.new \subseteq Plans!Ready
    <3>1. CASE Plans!Archive(w)
      <4> DEFINE h == [hands[w] EXCEPT !.at = "persist", !.sees = Plans!Ready]
      <4>1. h \in PlanHands /\ Sound(h) /\ h.at = "persist" /\ h.sees = Plans!Ready
        BY <1>0 DEF PlanHands, Plans!Ready, Sound
      <4>2. Plans!Holds(w, h)
        BY <3>1 DEF Plans!Archive
      <4> HIDE DEF h
      <4> QED BY <4>1, <4>2
    <3>2. CASE Plans!FindNew(w)
      <4> DEFINE h == [hands[w] EXCEPT !.at = "swap"]
      <4>1. h \in PlanHands /\ Sound(h) /\ h.at = "swap" /\ h.new = hands[w].new
        BY <1>0 DEF PlanHands, Sound
      <4>2. Plans!Holds(w, h) /\ hands[w].at = "persisted" /\ hands[w].new \subseteq Plans!Ready
        BY <3>2 DEF Plans!FindNew
      <4> HIDE DEF h
      <4> QED BY <4>1, <4>2
    <3> QED BY <1>6, <3>1, <3>2
  <2>2. Plans!Begins(w) /\ UNCHANGED <<roadmap, finishedAt, copy, resaved, jobs, queue, stopped>>
    BY <1>6 DEF Plans!Archive, Plans!FindNew
  <2> QED BY <1>0, <1>2, <2>1, <2>2
<1>7. ASSUME Plans!Settle(w) \/ Plans!Fail(w) PROVE GoesOn(w)
  <2>1. ASSUME NEW j \in Plans!Job
        PROVE  /\ jobs'[j] = jobs[j] \/ jobs'[j] = [jobs[j] EXCEPT !.status = "failed"]
                  \/ (hands[w].at = "settle" /\ jobs'[j] = [jobs[j] EXCEPT !.status = "ready", !.new = hands[w].new])
    BY <1>7 DEF Plans!Settle, Plans!Fail
  <2>2. ASSUME NEW j \in Plans!Job
        PROVE  /\ [jobs[j] EXCEPT !.status = "failed"] \in PlanJobs
               /\ [jobs[j] EXCEPT !.status = "failed"].status = "failed"
               /\ [jobs[j] EXCEPT !.status = "failed"].old = jobs[j].old
               /\ [jobs[j] EXCEPT !.status = "ready", !.new = hands[w].new] \in PlanJobs
               /\ [jobs[j] EXCEPT !.status = "ready", !.new = hands[w].new].old = jobs[j].old
               /\ [jobs[j] EXCEPT !.status = "ready", !.new = hands[w].new].new = hands[w].new
    BY <1>0 DEF PlanJobs, Plans!JobRow, PlanHands
  <2>3. jobs' \in [Plans!Job -> PlanJobs]
    <3>1. jobs' = [j \in Plans!Job |-> jobs'[j]]
      BY <1>7 DEF Plans!Settle, Plans!Fail
    <3>2. \A j \in Plans!Job : jobs'[j] \in PlanJobs
      BY <1>0, <2>1, <2>2
    <3> QED BY <3>1, <3>2
  <2>4. /\ \A j \in Plans!Job : \A o \in jobs'[j].old : roadmap[o] # "none"
        /\ \A j \in Plans!Job : \/ jobs'[j] = jobs[j] \/ jobs'[j].status # "ready"
                                \/ hands[w].at = "settle" /\ jobs'[j].new = hands[w].new
    <3>1. ASSUME NEW j \in Plans!Job PROVE jobs'[j].old = jobs[j].old
      BY <2>1, <2>2
    <3>2. ASSUME NEW j \in Plans!Job
          PROVE  \/ jobs'[j] = jobs[j] \/ jobs'[j].status # "ready"
                 \/ hands[w].at = "settle" /\ jobs'[j].new = hands[w].new
      BY <2>1, <2>2
    <3> QED BY <1>j, <3>1, <3>2
  <2>5. /\ Plans!Holds(w, Plans!Free) /\ queue' \subseteq Plans!Job
        /\ UNCHANGED <<roadmap, finishedAt, copy, resaved, overlapped, stopped>>
    BY <1>0, <1>7, <1>t DEF Plans!Settle, Plans!Fail, Plans!Retried, PlanHands
  <2> QED BY <1>1, <1>f, <1>t, <2>3, <2>4, <2>5
<1>8. ASSUME Plans!Stop(w) PROVE GoesOn(w)
  <2>1. /\ Plans!Holds(w, Plans!Free) /\ queue' \subseteq Plans!Job
        /\ UNCHANGED <<roadmap, finishedAt, copy, resaved, jobs, overlapped>>
        /\ stopped' \in BOOLEAN
    BY <1>0, <1>8, <1>t DEF Plans!Stop, PlanHands
  <2> QED BY <1>0, <1>1, <1>f, <1>j, <2>1
<1> QED BY <1>3, <1>4, <1>5, <1>6, <1>7, <1>8, <1>9, <1>10 DEF PlanSteps

LEMMA MadeStays ==
  ASSUME NEW S, MadeIsThere(S), \A r \in Plans!Roadmap : Active(r) => \E q \in Plans!Roadmap : q >= r /\ Active(q)',
         Plans!PlansAssumption
  PROVE  MadeIsThere(S)'
BY DEF MadeIsThere, Plans!Roadmap, Plans!PlansAssumption, Active

LEMMA PlansGoOn ==
  ASSUME PlansInv, Plans!PlansAssumption, NEW w \in Worker, GoesOn(w), ~overlapped', ~resaved'
  PROVE  (OneWrites /\ Kept)'
<1>1. /\ roadmap' = roadmap /\ (\A v \in Worker \ {w} : hands'[v] = hands[v])
      /\ \A j \in Plans!Job : \/ jobs'[j] = jobs[j] \/ jobs'[j].status # "ready"
                              \/ hands[w].at = "settle" /\ jobs'[j].new = hands[w].new
  BY DEF GoesOn
<1>2. ~overlapped /\ OneWrites /\ Kept
  <2>1. \/ overlapped' = overlapped
        \/ overlapped' = (overlapped \/ \E v \in Worker \ {w} : Plans!InTransaction(v))
    BY DEF GoesOn, Plans!Begins
  <2>2. ~overlapped
    BY <2>1, Zenon
  <2>3. ~resaved
    BY DEF GoesOn
  <2> QED BY <2>2, <2>3 DEF PlansInv
<1>3. /\ Plans!Ready' = Plans!Ready /\ \A r : Active(r)' = Active(r)
      /\ \A S : MadeIsThere(S)' = MadeIsThere(S)
  BY <1>1 DEF Plans!Ready, Active, MadeIsThere
<1>4. \A j \in Plans!Job : jobs'[j].status = "ready" => MadeIsThere(jobs'[j].new)
  BY <1>1, <1>2 DEF Kept
<1>5. CASE hands'[w].at \in {"free", "chosen", "plan"}
  <2>1. OneWrites'
    BY <1>1, <1>2, <1>3, <1>5 DEF OneWrites, Plans!InTransaction
  <2>2. Kept'
    BY <1>1, <1>2, <1>3, <1>4, <1>5 DEF Kept
  <2> QED BY <2>1, <2>2
<1>6. CASE Plans!Begins(w) /\ hands'[w].at = "persist" /\ hands'[w].sees = Plans!Ready
  <2>1. \A v \in Worker \ {w} : ~Plans!InTransaction(v)
    BY <1>6 DEF Plans!Begins
  <2>2. OneWrites'
    BY <1>1, <1>2, <1>3, <1>6, <2>1 DEF OneWrites, Plans!InTransaction
  <2>3. Kept'
    BY <1>1, <1>2, <1>3, <1>4, <1>6 DEF Kept
  <2> QED BY <2>2, <2>3
<1>7. CASE /\ Plans!Begins(w) /\ hands'[w].at = "swap" /\ hands[w].at = "persisted"
           /\ hands'[w].new = hands[w].new /\ hands[w].new \subseteq Plans!Ready
  <2>1. \A v \in Worker \ {w} : ~Plans!InTransaction(v)
    BY <1>7 DEF Plans!Begins
  <2>2. PICK m \in Plans!Roadmap : hands[w].new = {m}
    BY <1>2, <1>7 DEF Kept
  <2>3. m \in Plans!Ready /\ Plans!Ready \subseteq {m} /\ Active(m)
    BY <1>2, <1>7, <2>2 DEF OneWrites, Active, Plans!Ready
  <2>4. OneWrites'
    BY <1>1, <1>2, <1>3, <1>7, <2>1, <2>2, <2>3 DEF OneWrites, Plans!InTransaction
  <2>5. Kept'
    BY <1>1, <1>2, <1>3, <1>4, <1>7, <2>2 DEF Kept
  <2> QED BY <2>4, <2>5
<1>8. CASE hands'[w].at = "settle" /\ hands[w].at = "swapped" /\ hands'[w].new = hands[w].new /\ jobs' = jobs
  <2>1. OneWrites'
    BY <1>1, <1>2, <1>3, <1>8 DEF OneWrites, Plans!InTransaction
  <2>2. Kept'
    BY <1>1, <1>2, <1>3, <1>4, <1>8 DEF Kept
  <2> QED BY <2>1, <2>2
<1> QED BY <1>5, <1>6, <1>7, <1>8 DEF GoesOn

LEMMA PlansPersist ==
  ASSUME PlansInv, Plans!PlansAssumption, NEW w \in Worker, Plans!PersistPlan(w)
  PROVE  PlanRows' /\ (~overlapped' /\ ~resaved' => (OneWrites /\ Kept)')
<1>0. PICK n : n = Plans!First(Plans!Unused)
  OBVIOUS
<1> DEFINE h == [hands[w] EXCEPT !.at = IF hands[w].old = {} THEN "settle" ELSE "persisted",
                                 !.sees = {}, !.new = {n}]
<1>1. /\ hands[w].at = "persist" /\ Plans!Unused # {} /\ roadmap' = Plans!Persisted(w, n)
      /\ Plans!Holds(w, h) /\ UNCHANGED <<finishedAt, copy, jobs, queue, overlapped, stopped, resaved>>
  BY <1>0 DEF Plans!PersistPlan
<1>2. /\ n \in Plans!Roadmap /\ roadmap[n] = "none" /\ \A r \in Plans!Roadmap : roadmap[r] = "none" <=> r >= n
  BY <1>0, <1>1, TheFirst DEF PlansInv
<1>3. PlanRows /\ hands[w] \in PlanHands /\ Sound(hands[w])
      /\ finishedAt \subseteq Plans!Roadmap /\ \A r \in finishedAt : roadmap[r] # "none"
  BY DEF PlansInv, PlanRows
<1>4. h \in PlanHands /\ h.at \in {"settle", "persisted"} /\ Sound(h) /\ h.new = {n}
  BY <1>2, <1>3 DEF PlanHands, Sound
<1>5. roadmap' = [r \in Plans!Roadmap |-> IF r = n THEN "ready"
                 ELSE IF r \in hands[w].sees \intersect Plans!Ready THEN "archived" ELSE roadmap[r]]
  BY <1>1 DEF Plans!Persisted
<1> HIDE DEF h
<1>6. /\ hands' \in [Worker -> PlanHands] /\ hands'[w] = h
      /\ \A v \in Worker \ {w} : hands'[v] = hands[v]
      /\ \A v \in Worker : Sound(hands'[v])
  BY <1>1, <1>3, <1>4, HandsStay
<1>7. n \in Nat
  BY <1>2 DEF Plans!Roadmap, Plans!PlansAssumption
<1>8. /\ roadmap' \in [Plans!Roadmap -> Plans!RoadmapRow]
      /\ \A r \in Plans!Roadmap : roadmap[r] # "none" => roadmap'[r] # "none"
      /\ roadmap'[n] = "ready"
  BY <1>2, <1>3, <1>5 DEF PlanRows, Plans!RoadmapRow, Plans!Ready
<1>9. \E k \in Nat : \A r \in Plans!Roadmap : roadmap'[r] = "none" <=> r >= k
  <2>1. n + 1 \in Nat /\ \A r \in Plans!Roadmap : roadmap'[r] = "none" <=> r >= n + 1
    <3> SUFFICES ASSUME NEW r \in Plans!Roadmap PROVE roadmap'[r] = "none" <=> r >= n + 1
      BY <1>7
    <3>1. r \in Nat
      BY DEF Plans!Roadmap, Plans!PlansAssumption
    <3>2. roadmap'[r] = "none" <=> r # n /\ roadmap[r] = "none"
      BY <1>2, <1>5 DEF Plans!Ready
    <3> QED BY <1>2, <1>7, <3>1, <3>2
  <2> QED BY <2>1
<1>10. PlanRows'
  BY <1>1, <1>3, <1>6, <1>8, <1>9, RowsWithPlan
<1>11. ASSUME ~overlapped, ~resaved PROVE (OneWrites /\ Kept)'
  <2>1. OneWrites /\ Kept
    BY <1>11 DEF PlansInv
  <2>2. Plans!Ready \subseteq hands[w].sees /\ \A v \in Worker \ {w} : ~Plans!InTransaction(v)
    BY <1>1, <2>1 DEF OneWrites, Plans!InTransaction
  <2>3. Plans!Ready' = {n}
    BY <1>2, <1>5, <2>2 DEF Plans!Ready
  <2>4. \A v \in Worker : ~Plans!InTransaction(v)'
    BY <1>4, <1>6, <2>2 DEF Plans!InTransaction
  <2>5. OneWrites'
    BY <2>3, <2>4 DEF OneWrites, Plans!InTransaction
  <2>6. Active(n)' /\ n \in Plans!Roadmap
    BY <1>2, <1>8 DEF Active
  <2>7. \A r \in Plans!Roadmap : Active(r) => n >= r
    <3>1. \A r \in Plans!Roadmap : r \in Nat
      BY DEF Plans!Roadmap, Plans!PlansAssumption
    <3> QED BY <1>2, <1>7, <3>1 DEF Active
  <2>8. \A S : MadeIsThere(S) => MadeIsThere(S)'
    BY <2>6, <2>7, MadeStays
  <2>9. MadeIsThere({n})'
    BY <1>7, <2>6 DEF MadeIsThere
  <2>10. Kept'
    BY <1>1, <1>2, <1>4, <1>6, <2>1, <2>8, <2>9 DEF Kept
  <2> QED BY <2>5, <2>10
<1> QED BY <1>1, <1>10, <1>11

LEMMA PlansSwap ==
  ASSUME PlansInv, Plans!PlansAssumption, NEW w \in Worker, Plans!Swap(w)
  PROVE  PlanRows' /\ (~overlapped' /\ ~resaved' => (OneWrites /\ Kept)')
<1>1. /\ hands[w].at = "swap" /\ UNCHANGED <<finishedAt, copy, jobs, queue, overlapped, stopped, resaved>>
      /\ roadmap' = [r \in Plans!Roadmap |-> IF r \in Plans!Archived(w) THEN "archived" ELSE roadmap[r]]
  BY DEF Plans!Swap
<1>2. PlanRows /\ hands[w] \in PlanHands /\ Sound(hands[w])
      /\ finishedAt \subseteq Plans!Roadmap /\ \A r \in finishedAt : roadmap[r] # "none"
  BY DEF PlansInv, PlanRows
<1>3. PICK h \in PlanHands : /\ Plans!Holds(w, h) /\ Sound(h)
                             /\ \/ h.at = "free"
                                \/ h.at = "swapped" /\ h.new = hands[w].new
  <2>1. Plans!Free \in PlanHands /\ Sound(Plans!Free) /\ Plans!Free.at = "free"
    BY DEF Plans!Free, PlanHands, Sound, Made
  <2> DEFINE h == [hands[w] EXCEPT !.at = "swapped"]
  <2>2. h \in PlanHands /\ Sound(h) /\ h.at = "swapped" /\ h.new = hands[w].new
    BY <1>2 DEF PlanHands, Sound
  <2>3. Plans!Holds(w, Plans!Free) \/ Plans!Holds(w, h)
    BY DEF Plans!Swap
  <2> HIDE DEF h
  <2> QED BY <2>1, <2>2, <2>3
<1>4. /\ hands' \in [Worker -> PlanHands] /\ hands'[w] = h
      /\ \A v \in Worker \ {w} : hands'[v] = hands[v]
      /\ \A v \in Worker : Sound(hands'[v])
  BY <1>2, <1>3, HandsStay
<1>5. /\ roadmap' \in [Plans!Roadmap -> Plans!RoadmapRow]
      /\ \A r \in Plans!Roadmap : roadmap'[r] = "none" <=> roadmap[r] = "none"
  BY <1>1, <1>2 DEF PlanRows, Plans!RoadmapRow, Plans!Archived, Plans!Ready, Sound
<1>6. \E k \in Nat : \A r \in Plans!Roadmap : roadmap'[r] = "none" <=> r >= k
  BY <1>2, <1>5 DEF PlanRows
<1>7. PlanRows'
  BY <1>1, <1>2, <1>4, <1>5, <1>6, RowsWithPlan
<1>8. ASSUME ~overlapped, ~resaved PROVE (OneWrites /\ Kept)'
  <2>1. OneWrites /\ Kept
    BY <1>8 DEF PlansInv
  <2>2. Plans!Ready \subseteq hands[w].new /\ \A v \in Worker \ {w} : ~Plans!InTransaction(v)
    BY <1>1, <2>1 DEF OneWrites, Plans!InTransaction
  <2>0. EndsAgree
    BY <1>8 DEF PlansInv
  <2>3. \A r \in Plans!Roadmap : (Active(r)' <=> Active(r)) /\ (r \in Plans!Ready' <=> r \in Plans!Ready)
    BY <1>1, <2>2 DEF Active, Plans!Archived, Plans!Ready
  <2>4. Plans!Ready' = Plans!Ready
    BY <2>3 DEF Plans!Ready
  <2>5. \A v \in Worker : ~Plans!InTransaction(v)'
    BY <1>3, <1>4, <2>2 DEF Plans!InTransaction
  <2>6. OneWrites'
    BY <2>1, <2>4, <2>5 DEF OneWrites, Plans!InTransaction
  <2>7. \A S : MadeIsThere(S) => MadeIsThere(S)'
    BY <2>3 DEF MadeIsThere
  <2>8. MadeIsThere(hands[w].new)
    <3>1. PICK m \in Plans!Roadmap : hands[w].new = {m}
      BY <1>1, <2>1 DEF Kept
    <3>2. Active(m) /\ m >= m
      BY <1>1, <2>1, <3>1 DEF OneWrites, Plans!Roadmap, Plans!PlansAssumption
    <3> QED BY <3>1, <3>2 DEF MadeIsThere
  <2>9. Kept'
    BY <1>1, <1>3, <1>4, <2>1, <2>7, <2>8 DEF Kept
  <2> QED BY <2>6, <2>9
<1> QED BY <1>1, <1>7, <1>8

LEMMA PlansFinish ==
  ASSUME PlansInv, Plans!PlansAssumption, NEW q \in Plans!Roadmap, Plans!Finish(q)
  PROVE  PlanRows' /\ (~overlapped' /\ ~resaved' => (OneWrites /\ Kept)')
<1>1. /\ roadmap[q] # "none" /\ roadmap' = [roadmap EXCEPT ![q] = "completed"]
      /\ finishedAt' = finishedAt \union {q}
      /\ UNCHANGED <<copy, jobs, queue, hands, overlapped, stopped, resaved>>
  BY DEF Plans!Finish
<1>2. PlanRows
  BY DEF PlansInv
<1>3. /\ roadmap' \in [Plans!Roadmap -> Plans!RoadmapRow]
      /\ roadmap'[q] = "completed" /\ \A r \in Plans!Roadmap \ {q} : roadmap'[r] = roadmap[r]
  BY <1>1, <1>2 DEF PlanRows, Plans!RoadmapRow
<1>4. \A r \in Plans!Roadmap : (roadmap'[r] = "none" <=> roadmap[r] = "none") /\ (Active(r) => Active(r)')
  BY <1>1, <1>3 DEF Active
<1>5. \E k \in Nat : \A r \in Plans!Roadmap : roadmap'[r] = "none" <=> r >= k
  BY <1>2, <1>4 DEF PlanRows
<1>6. PlanRows'
  <2>1. /\ hands' \in [Worker -> PlanHands] /\ \A v \in Worker : Sound(hands'[v])
        /\ finishedAt' \subseteq Plans!Roadmap /\ \A r \in finishedAt' : roadmap[r] # "none"
    BY <1>1, <1>2 DEF PlanRows
  <2> QED BY <1>1, <1>2, <1>3, <1>4, <1>5, <2>1, RowsWithPlan
<1>7. Plans!Ready' \subseteq Plans!Ready
  BY <1>1, <1>3 DEF Plans!Ready
<1>8. ASSUME ~overlapped, ~resaved PROVE (OneWrites /\ Kept)'
  <2>1. OneWrites /\ Kept
    BY <1>8 DEF PlansInv
  <2>2. \A S : MadeIsThere(S) => MadeIsThere(S)'
    BY <1>4 DEF MadeIsThere
  <2>3. ASSUME NEW v \in Worker, hands'[v].at = "swap", NEW r \in hands'[v].new PROVE Active(r)'
    <3>1. Active(r) /\ r \in Plans!Roadmap
      BY <1>1, <1>2, <2>1, <2>3 DEF OneWrites, PlanRows, PlanHands
    <3> QED BY <1>4, <3>1
  <2>4. OneWrites'
    BY <1>1, <1>7, <2>1, <2>3 DEF OneWrites, Plans!InTransaction
  <2>5. Kept'
    BY <1>1, <2>1, <2>2 DEF Kept
  <2> QED BY <2>4, <2>5
<1> QED BY <1>1, <1>6, <1>8

LEMMA PlansStep ==
  ASSUME PlansInv, Plans!PlansAssumption, [Plans!Next]_Plans!planVars PROVE PlansInv'
<1>0. SUFFICES PlanRows' /\ (~overlapped' /\ ~resaved' => (OneWrites /\ Kept)')
  BY EndsStep DEF PlansInv
<1>1. ASSUME NEW w \in Worker, PlanSteps(w)
      PROVE  PlanRows' /\ (~overlapped' /\ ~resaved' => (OneWrites /\ Kept)')
  <2>1. GoesOn(w)
    BY <1>1, OneGoesOn DEF PlansInv
  <2> QED BY <2>1, PlansGoOn DEF GoesOn
<1>s. ASSUME UNCHANGED <<roadmap, hands>>, Kept => Kept'
      PROVE  OneWrites /\ Kept => (OneWrites /\ Kept)'
  BY <1>s DEF OneWrites, Active, Plans!Ready, Plans!InTransaction
<1>2. ASSUME Plans!EnqueueGenerate
      PROVE  PlanRows' /\ (~overlapped' /\ ~resaved' => (OneWrites /\ Kept)')
  <2> DEFINE job == [Plans!NoJob EXCEPT !.status = "queued"]
  <2>1. job \in PlanJobs /\ job.status = "queued" /\ job.old = {}
    BY DEF PlanJobs, Plans!NoJob, Plans!JobRow
  <2>2. Plans!Enqueue(job) /\ UNCHANGED <<roadmap, finishedAt, copy, resaved, hands, overlapped>>
    BY <1>2 DEF Plans!EnqueueGenerate
  <2> HIDE DEF job
  <2>3. /\ jobs' \in [Plans!Job -> PlanJobs] /\ queue' \subseteq Plans!Job /\ stopped' \in BOOLEAN
        /\ \A j \in Plans!Job : \A o \in jobs'[j].old : roadmap[o] # "none"
        /\ \A j \in Plans!Job : jobs'[j] = jobs[j] \/ jobs'[j].status = "queued"
    BY <2>1, <2>2, JobsQueued DEF PlansInv
  <2>4. PlanRows'
    <3>1. hands' \in [Worker -> PlanHands] /\ overlapped' \in BOOLEAN
          /\ \A v \in Worker : Sound(hands'[v])
      BY <2>2 DEF PlansInv, PlanRows
    <3> QED BY <2>2, <2>3, <3>1, RowsWithoutPlan DEF PlansInv
  <2>5. \A S : MadeIsThere(S)' <=> MadeIsThere(S)
    BY <2>2 DEF MadeIsThere, Active
  <2>6. Kept => Kept'
    BY <2>2, <2>3, <2>5 DEF Kept
  <2> QED BY <1>s, <2>2, <2>4, <2>6 DEF PlansInv
<1>3. ASSUME NEW r \in Plans!Roadmap, Plans!LoadTree(r)
      PROVE  PlanRows' /\ (~overlapped' /\ ~resaved' => (OneWrites /\ Kept)')
  <2>1. /\ UNCHANGED <<roadmap, finishedAt, jobs, queue, hands, overlapped, stopped, resaved>>
        /\ copy' = {Plans!Row(r)} /\ roadmap[r] # "none"
    BY <1>3 DEF Plans!LoadTree
  <2>2. copy' \subseteq PlanCopy /\ Made(copy')
    BY <2>1 DEF Plans!Row, PlanCopy, Made, PlansInv, PlanRows
  <2>3. PlanRows'
    <3>1. /\ roadmap' \in [Plans!Roadmap -> Plans!RoadmapRow] /\ hands' \in [Worker -> PlanHands]
          /\ jobs' \in [Plans!Job -> PlanJobs] /\ \A v \in Worker : Sound(hands'[v])
          /\ \A j \in Plans!Job : \A o \in jobs'[j].old : roadmap[o] # "none"
          /\ \E k \in Nat : \A q \in Plans!Roadmap : roadmap'[q] = "none" <=> q >= k
      BY <2>1 DEF PlansInv, PlanRows
    <3>2. /\ overlapped' \in BOOLEAN /\ stopped' \in BOOLEAN /\ resaved' \in BOOLEAN
          /\ queue' \subseteq Plans!Job /\ finishedAt' \subseteq Plans!Roadmap
          /\ \A q \in finishedAt' : roadmap[q] # "none"
      BY <2>1 DEF PlansInv, PlanRows
    <3> QED BY <2>1, <2>2, <3>1, <3>2, RowsGoOn DEF PlansInv
  <2>4. Kept => Kept'
    BY <2>1 DEF Kept, MadeIsThere, Active
  <2> QED BY <1>s, <2>1, <2>3, <2>4 DEF PlansInv
<1>4. ASSUME Plans!SaveTree
      PROVE  PlanRows' /\ (~overlapped' /\ ~resaved' => (OneWrites /\ Kept)')
  <2>1. PICK c \in PlanCopy : Made({c}) /\ Plans!SaveRow(c)
    BY <1>4, SavedTree DEF PlansInv
  <2>2. copy' \subseteq copy /\ UNCHANGED <<jobs, queue, hands, overlapped, stopped>>
    BY <1>4 DEF Plans!SaveTree
  <2>3. /\ hands' \in [Worker -> PlanHands] /\ jobs' \in [Plans!Job -> PlanJobs]
        /\ queue' \subseteq Plans!Job /\ overlapped' \in BOOLEAN /\ stopped' \in BOOLEAN
        /\ \A v \in Worker : Sound(hands'[v])
        /\ \A j \in Plans!Job : \A o \in jobs'[j].old : roadmap[o] # "none"
    BY <2>2 DEF PlansInv, PlanRows
  <2>4. PlanRows' /\ (~resaved' => ~resaved /\ roadmap' = roadmap)
    BY <2>1, <2>2, <2>3, RowsSaved DEF PlansInv
  <2>5. ASSUME ~resaved' PROVE Kept => Kept'
    BY <2>2, <2>4, <2>5 DEF Kept, MadeIsThere, Active
  <2> QED BY <1>s, <2>2, <2>4, <2>5 DEF PlansInv
<1>5. CASE UNCHANGED Plans!planVars
  <2>1. UNCHANGED <<roadmap, finishedAt, copy, jobs, queue, hands, overlapped, stopped, resaved>>
    BY <1>5 DEF Plans!planVars
  <2>2. PlanRows'
    BY <2>1 DEF PlansInv, PlanRows, Made, Sound
  <2>3. Kept => Kept'
    BY <2>1 DEF Kept, MadeIsThere, Active
  <2> QED BY <1>s, <2>1, <2>2, <2>3 DEF PlansInv
<1> QED BY <1>1, <1>2, <1>3, <1>4, <1>5, PlansPersist, PlansSwap, PlansFinish DEF Plans!Next, PlanSteps

LEMMA PlansAlways == ASSUME Plans!PlansAssumption PROVE Plans!Spec => []PlansInv
<1>1. Plans!Init => PlansInv
  BY PlansStart
<1>2. PlansInv /\ [Plans!Next]_Plans!planVars => PlansInv'
  BY PlansStep
<1> QED BY <1>1, <1>2, PTL DEF Plans!Spec

(* Of any number of jobs, retries and workers: a goal has one ready        *)
(* roadmap at most, and a ready job's is there or a newer one, unless two  *)
(* of the transactions overlapped or a changed row was saved.              *)
THEOREM PlansAreOne == ASSUME Plans!PlansAssumption PROVE Plans!Spec => []Plans!OnePlanToFollow
<1>1. ASSUME PlansInv, ~overlapped, ~resaved PROVE Plans!Cardinality(Plans!Ready) <= 1
  <2>1. \A a, b \in Plans!Ready : a = b
    BY <1>1 DEF PlansInv, OneWrites
  <2>2. Plans!Ready = {} \/ \E b : Plans!Ready = {b}
    BY <2>1
  <2>3. Cardinality(Plans!Ready) = 0 \/ Cardinality(Plans!Ready) = 1
    BY <2>2, FS_EmptySet, FS_Singleton
  <2>4. Plans!Cardinality(Plans!Ready) = Cardinality(Plans!Ready)
    BY DEF Plans!Cardinality, Cardinality
  <2> QED BY <2>3, <2>4
<1>2. ASSUME PlansInv, ~overlapped, ~resaved, NEW j \in Plans!Job, jobs[j].status = "ready"
      PROVE  \E r \in Plans!Roadmap : r >= Plans!First(jobs[j].new) /\ roadmap[r] \in {"ready", "completed"}
  <2>1. PICK m \in Plans!Roadmap : jobs[j].new = {m} /\ \E r \in Plans!Roadmap : r >= m /\ Active(r)
    BY <1>2 DEF PlansInv, Kept, MadeIsThere
  <2>2. Plans!First({m}) = m
    <3>1. m <= m
      BY DEF Plans!Roadmap, Plans!PlansAssumption
    <3> QED BY <3>1 DEF Plans!First
  <2> QED BY <2>1, <2>2 DEF Active
<1>3. PlansInv => Plans!OnePlanToFollow
  BY <1>1, <1>2 DEF Plans!OnePlanToFollow
<1> QED BY <1>3, PlansAlways, PTL

(* Until a row is saved that has changed since it was read, a finished     *)
(* roadmap keeps its finishedAt and is completed.                          *)
THEOREM FinishedPlansStay ==
  ASSUME Plans!PlansAssumption PROVE Plans!Spec => [][Plans!StaysFinished]_Plans!planVars
<1>1. PlansInv /\ [Plans!Next]_Plans!planVars => [Plans!StaysFinished]_Plans!planVars
  <2>1. ASSUME PlansInv, [Plans!Next]_Plans!planVars, ~resaved', NEW r \in finishedAt
        PROVE  r \in finishedAt' /\ roadmap'[r] = "completed"
    <3>1. EndsAgree' /\ finishedAt \subseteq finishedAt' /\ r \in Plans!Roadmap
      BY <2>1, EndsStep DEF PlansInv, PlanRows
    <3> QED BY <3>1 DEF EndsAgree
  <2> QED BY <2>1 DEF Plans!StaysFinished
<1>2. Plans!Spec => [][Plans!Next]_Plans!planVars
  BY PTL DEF Plans!Spec
<1> QED BY <1>1, <1>2, PlansAlways, PTL

(* Unless the process stops: a job that waits in the queue is in nobody's  *)
(* hands, one in hands is processing and in one worker's, and each that is *)
(* not settled is in either.                                               *)
InHands(j) == \E w \in Worker : j \in hands[w].job
JobsHeld ==
  /\ \A j \in queue : jobs[j].status \in {"queued", "failed"}
  /\ \A w \in Worker, j \in Plans!Job : j \in hands[w].job =>
       jobs[j].status = "processing" /\ hands[w].at \notin {"free", "chosen"}
  /\ \A v, w \in Worker, j \in Plans!Job : j \in hands[v].job /\ j \in hands[w].job => v = w
  /\ \A j \in Plans!Job : \/ jobs[j].status \in {"none", "ready"}
                          \/ jobs[j].status = "failed" /\ ~Plans!Again(j)
                          \/ j \in queue
                          \/ InHands(j)

LEMMA HandsSame ==
  ASSUME JobsHeld, UNCHANGED <<jobs, queue>>, \A v \in Worker : hands'[v].job = hands[v].job,
         \A v \in Worker : hands'[v].job # {} /\ hands'[v].at \in {"free", "chosen"}
                              => hands[v].at \in {"free", "chosen"},
         PlanRows
  PROVE  JobsHeld'
<1>1. \A v \in Worker : \A j \in hands[v].job : j \in Plans!Job
  BY DEF PlanRows, PlanHands
<1> QED BY <1>1 DEF JobsHeld, InHands, Plans!Again

LEMMA JobsStep ==
  ASSUME PlanRows, PlanRows', Plans!PlansAssumption, JobsHeld, [Plans!Next]_Plans!planVars, ~stopped'
  PROVE  JobsHeld'
<1>f. Plans!Free.job = {} /\ Plans!Free.at = "free"
  BY DEF Plans!Free
<1>t. hands \in [Worker -> PlanHands] /\ jobs \in [Plans!Job -> PlanJobs] /\ queue \subseteq Plans!Job
  BY DEF PlanRows
<1>1. ASSUME NEW w \in Worker, NEW r \in Plans!Roadmap, Plans!Choose(w, r) \/ Plans!Replan(w, r)
      PROVE  JobsHeld'
  <2>1. hands[w] = Plans!Free /\ UNCHANGED <<jobs, queue>>
    BY <1>1 DEF Plans!Choose, Plans!Replan
  <2>2. hands'[w].job = {} /\ \A v \in Worker \ {w} : hands'[v] = hands[v]
    BY <1>1, <1>t DEF Plans!Choose, Plans!Replan, Plans!Holds, Plans!Free
  <2> QED BY <1>f, <2>1, <2>2, HandsSame
<1>2. ASSUME NEW w \in Worker, Plans!Archive(w) \/ Plans!PersistPlan(w) \/ Plans!FindNew(w) \/ Plans!Swap(w)
                             \/ Plans!SavePrevious(w)
      PROVE  JobsHeld'
  <2>1. UNCHANGED <<jobs, queue>>
    BY <1>2 DEF Plans!Archive, Plans!PersistPlan, Plans!FindNew, Plans!Swap, Plans!SavePrevious
  <2>2. hands[w] \in PlanHands
    BY <1>t
  <2>3. /\ hands'[w].job = hands[w].job /\ (hands'[w].job # {} => hands'[w].at \notin {"free", "chosen"})
        /\ \A v \in Worker \ {w} : hands'[v] = hands[v]
    <3>1. ASSUME NEW h, Plans!Holds(w, h), h.job = hands[w].job, h.job # {} => h.at \notin {"free", "chosen"}
          PROVE  <2>3!1 /\ <2>3!2
      BY <1>t, <3>1 DEF Plans!Holds
    <3>2. CASE Plans!Archive(w)
      <4> DEFINE h == [hands[w] EXCEPT !.at = "persist", !.sees = Plans!Ready]
      <4>1. Plans!Holds(w, h) /\ h.job = hands[w].job /\ h.at = "persist"
        BY <2>2, <3>2 DEF Plans!Archive, PlanHands
      <4> HIDE DEF h
      <4> QED BY <3>1, <4>1
    <3>3. CASE Plans!PersistPlan(w)
      <4> DEFINE h == [hands[w] EXCEPT !.at = IF hands[w].old = {} THEN "settle" ELSE "persisted",
                                       !.sees = {}, !.new = {Plans!First(Plans!Unused)}]
      <4>1. Plans!Holds(w, h) /\ h.job = hands[w].job /\ h.at \in {"settle", "persisted"}
        BY <2>2, <3>3 DEF Plans!PersistPlan, PlanHands
      <4> HIDE DEF h
      <4> QED BY <3>1, <4>1
    <3>4. CASE Plans!FindNew(w)
      <4> DEFINE h == [hands[w] EXCEPT !.at = "swap"]
      <4>1. Plans!Holds(w, h) /\ h.job = hands[w].job /\ h.at = "swap"
        BY <2>2, <3>4 DEF Plans!FindNew, PlanHands
      <4> HIDE DEF h
      <4> QED BY <3>1, <4>1
    <3>5. CASE Plans!Swap(w)
      <4> DEFINE h == [hands[w] EXCEPT !.at = "swapped"]
      <4>1. h.job = hands[w].job /\ h.at = "swapped"
        BY <2>2 DEF PlanHands
      <4>2. Plans!Holds(w, h) \/ (hands[w].job = {} /\ Plans!Holds(w, Plans!Free))
        BY <3>5 DEF Plans!Swap
      <4> HIDE DEF h
      <4> QED BY <1>f, <3>1, <4>1, <4>2
    <3>6. CASE Plans!SavePrevious(w)
      <4> DEFINE h == [hands[w] EXCEPT !.at = "settle"]
      <4>1. Plans!Holds(w, h) /\ h.job = hands[w].job /\ h.at = "settle"
        BY <2>2, <3>6 DEF Plans!SavePrevious, PlanHands
      <4> HIDE DEF h
      <4> QED BY <3>1, <4>1
    <3> QED BY <1>2, <3>2, <3>3, <3>4, <3>5, <3>6
  <2> QED BY <2>1, <2>3, HandsSame
<1>3. ASSUME NEW j \in Plans!Job, NEW job, jobs[j] = Plans!NoJob, job.status = "queued",
             jobs' = [jobs EXCEPT ![j] = job], queue' = queue \union {j},
             \A v \in Worker : hands'[v].job = hands[v].job,
             \A v \in Worker : hands'[v].job # {} => hands'[v].at \notin {"free", "chosen"}
      PROVE  JobsHeld'
  <2>1. jobs[j].status = "none"
    BY <1>3 DEF Plans!NoJob
  <2>2. jobs'[j].status = "queued" /\ \A i \in Plans!Job \ {j} : jobs'[i] = jobs[i]
    BY <1>3, <1>t
  <2>3. j \notin queue /\ \A v \in Worker : j \notin hands[v].job
    BY <2>1 DEF JobsHeld
  <2> QED BY <1>3, <1>t, <2>2, <2>3 DEF JobsHeld, InHands, Plans!Again
<1>4. ASSUME Plans!EnqueueGenerate PROVE JobsHeld'
  <2>1. PICK j \in Plans!Job : /\ jobs[j] = Plans!NoJob /\ queue' = queue \union {j}
                               /\ jobs' = [jobs EXCEPT ![j] = [Plans!NoJob EXCEPT !.status = "queued"]]
    BY <1>4 DEF Plans!EnqueueGenerate, Plans!Enqueue
  <2>2. [Plans!NoJob EXCEPT !.status = "queued"].status = "queued"
    BY DEF Plans!NoJob
  <2>3. \A v \in Worker : hands'[v].job # {} => hands'[v].at \notin {"free", "chosen"}
    BY <1>4, <1>t DEF Plans!EnqueueGenerate, JobsHeld, PlanHands
  <2> QED BY <1>3, <1>4, <2>1, <2>2, <2>3 DEF Plans!EnqueueGenerate
<1>5. ASSUME NEW w \in Worker, Plans!ChooseNext(w) PROVE JobsHeld'
  <2>3. hands[w].job = {}
    BY <1>5, <1>t DEF Plans!ChooseNext, JobsHeld, PlanHands
  <2>4. hands'[w] = Plans!Free /\ \A v \in Worker \ {w} : hands'[v] = hands[v]
    BY <1>5, <1>t DEF Plans!ChooseNext, Plans!Holds
  <2>5. \A v \in Worker : hands'[v].job = hands[v].job
    BY <1>f, <2>3, <2>4
  <2>6. \A v \in Worker : hands'[v].job # {} => hands'[v].at \notin {"free", "chosen"}
    BY <1>f, <1>t, <2>4 DEF JobsHeld, PlanHands
  <2>7. CASE Plans!Enqueue([Plans!NoJob EXCEPT !.status = "queued", !.old = hands[w].old])
    <3>1. PICK j \in Plans!Job : /\ jobs[j] = Plans!NoJob /\ queue' = queue \union {j}
                               /\ jobs' = [jobs EXCEPT ![j] = [Plans!NoJob EXCEPT !.status = "queued", !.old = hands[w].old]]
      BY <2>7 DEF Plans!Enqueue
    <3>2. [Plans!NoJob EXCEPT !.status = "queued", !.old = hands[w].old].status = "queued"
      BY DEF Plans!NoJob
    <3> QED BY <1>3, <2>5, <2>6, <3>1, <3>2
  <2>8. CASE UNCHANGED <<jobs, queue, stopped>>
    BY <2>5, <2>6, <2>8, HandsSame
  <2> QED BY <1>5, <2>7, <2>8 DEF Plans!ChooseNext
<1>6. ASSUME NEW w \in Worker, NEW j \in Plans!Job, Plans!Take(w, j) PROVE JobsHeld'
  <2>1. hands[w] = Plans!Free /\ j \in queue /\ queue' = queue \ {j} /\ jobs[j].status \in {"queued", "failed"}
    BY <1>6 DEF Plans!Take, JobsHeld
  <2> DEFINE h == [Plans!Free EXCEPT !.at = "plan", !.job = {j}, !.old = jobs[j].old,
                                     !.was = {Plans!Row(o) : o \in jobs[j].old}]
             r == [jobs[j] EXCEPT !.status = "processing", !.attempts = @ + 1]
  <2>2. jobs' = [jobs EXCEPT ![j] = r] /\ Plans!Holds(w, h)
    BY <1>6, <1>t, <2>1 DEF Plans!Take
  <2>3. h.at = "plan" /\ h.job = {j} /\ r.status = "processing"
    <3>1. jobs[j] \in PlanJobs
      BY <1>t
    <3> QED BY <3>1 DEF Plans!Free, PlanJobs
  <2> HIDE DEF h, r
  <2>4. /\ hands'[w] = h /\ (\A v \in Worker \ {w} : hands'[v] = hands[v])
        /\ jobs'[j] = r /\ \A i \in Plans!Job \ {j} : jobs'[i] = jobs[i]
    BY <1>t, <2>2 DEF Plans!Holds
  <2>5. \A v \in Worker : j \notin hands[v].job
    BY <2>1 DEF JobsHeld
  <2> QED BY <1>f, <1>t, <2>1, <2>3, <2>4, <2>5 DEF JobsHeld, InHands, Plans!Again
<1>7. ASSUME NEW w \in Worker, Plans!Settle(w) \/ Plans!Fail(w) PROVE JobsHeld'
  <2>1. hands'[w] = Plans!Free /\ \A v \in Worker \ {w} : hands'[v] = hands[v]
    BY <1>7, <1>t DEF Plans!Settle, Plans!Fail, Plans!Holds
  <2>2. \A j \in Plans!Job : j \notin hands[w].job => jobs'[j] = jobs[j]
    BY <1>7, <1>t DEF Plans!Settle, Plans!Fail
  <2>3. \/ queue' = queue /\ \A j \in Plans!Job : j \in hands[w].job => jobs'[j].status = "ready"
        \/ /\ queue' = queue \union Plans!Retried(w)
           /\ \A j \in Plans!Job : j \in hands[w].job => /\ jobs'[j].status = "failed"
                                                         /\ jobs'[j].attempts = jobs[j].attempts
    <3>1. \A j \in Plans!Job : jobs[j] \in PlanJobs
      BY <1>t
    <3> QED BY <1>7, <3>1 DEF Plans!Settle, Plans!Fail, PlanJobs
  <2>4. \A j \in Plans!Job : j \in hands[w].job => j \notin queue /\ \A v \in Worker \ {w} : j \notin hands[v].job
    BY DEF JobsHeld
  <2>5. \A j \in Plans!Retried(w) : j \in hands[w].job /\ j \in Plans!Job
    BY <1>t DEF Plans!Retried, PlanHands
  <2>6. \A j \in queue' : jobs'[j].status \in {"queued", "failed"}
    BY <1>t, <2>2, <2>3, <2>4, <2>5 DEF JobsHeld
  <2>7. ASSUME NEW v \in Worker, NEW j \in Plans!Job, j \in hands'[v].job
        PROVE  /\ v # w /\ j \in hands[v].job /\ jobs'[j] = jobs[j] /\ hands'[v] = hands[v]
    BY <1>f, <2>1, <2>2, <2>4, <2>7
  <2>8. ASSUME NEW j \in Plans!Job
        PROVE  \/ jobs'[j].status \in {"none", "ready"}
               \/ jobs'[j].status = "failed" /\ ~Plans!Again(j)'
               \/ j \in queue'
               \/ InHands(j)'
    <3>1. CASE j \in hands[w].job
      BY <2>3, <3>1 DEF Plans!Again, Plans!Retried
    <3>2. CASE j \notin hands[w].job
      <4>1. jobs'[j] = jobs[j] /\ (j \in queue => j \in queue')
        BY <2>2, <2>3, <3>2
      <4>2. InHands(j) => InHands(j)'
        BY <2>1, <3>2 DEF InHands
      <4> QED BY <4>1, <4>2 DEF JobsHeld, Plans!Again
    <3> QED BY <3>1, <3>2
  <2> QED BY <2>6, <2>7, <2>8 DEF JobsHeld
<1>8. ASSUME NEW w \in Worker, Plans!Stop(w) PROVE FALSE
  BY <1>8 DEF Plans!Stop
<1>9. ASSUME NEW r \in Plans!Roadmap, Plans!Finish(r) \/ Plans!LoadTree(r) PROVE JobsHeld'
  BY <1>9, HandsSame DEF Plans!Finish, Plans!LoadTree
<1>10. CASE Plans!SaveTree
  BY <1>10, HandsSame DEF Plans!SaveTree
<1>11. CASE UNCHANGED Plans!planVars
  BY <1>11, HandsSame DEF Plans!planVars
<1> QED BY <1>1, <1>2, <1>4, <1>5, <1>6, <1>7, <1>8, <1>9, <1>10, <1>11 DEF Plans!Next

(* No job is left behind: what is not settled is queued, in hands, or has  *)
(* failed as often as it may - unless the process stops.                   *)
THEOREM JobsAreNotStranded == ASSUME Plans!PlansAssumption PROVE Plans!Spec => []Plans!NoJobStranded
<1> DEFINE Held == PlanRows /\ (~stopped => JobsHeld)
<1>1. Plans!Init => Held
  <2>1. ASSUME Plans!Init PROVE JobsHeld
    BY <2>1 DEF Plans!Init, JobsHeld, Plans!Free, Plans!NoJob
  <2> QED BY <2>1, PlansStart DEF PlansInv
<1>2. PlansInv /\ PlansInv' /\ Held /\ [Plans!Next]_Plans!planVars => Held'
  <2> SUFFICES ASSUME PlansInv, PlansInv', Held, [Plans!Next]_Plans!planVars PROVE Held'
    OBVIOUS
  <2>1. stopped => stopped'
    BY DEF Plans!Next, Plans!planVars, Plans!Finish, Plans!LoadTree, Plans!SaveTree, Plans!EnqueueGenerate, Plans!Enqueue, Plans!Choose, Plans!Replan,
        Plans!Take, Plans!ChooseNext, Plans!Archive, Plans!PersistPlan, Plans!FindNew, Plans!Swap,
        Plans!SavePrevious, Plans!Settle, Plans!Fail, Plans!Stop
  <2> QED BY <2>1, JobsStep DEF PlansInv
<1>3. Held => Plans!NoJobStranded
  BY DEF Plans!NoJobStranded, JobsHeld, InHands
<1> HIDE DEF Held
<1> QED BY <1>1, <1>2, <1>3, PlansAlways, PTL DEF Plans!Spec
-----------------------------------------------------------------------------
(* Ranks and badges: what the events of a learner are turned into.         *)
CONSTANTS Kind, Gate, Target, Consumer
VARIABLES event, counted, level, rankPaid, bag, owned, badgePaid, poll, swallowed, crowded, died
Achieve == INSTANCE Achievements

LEMMA Least ==
  ASSUME NEW T \in SUBSET Nat, T # {} PROVE \E x \in T : \A y \in T : x <= y
<1> DEFINE less == {ss \in Nat \X Nat : ss[1] < ss[2]}
<1>1. IsWellFoundedOn(less, Nat)
  BY NatLessThanWellFounded DEF OpToRel
<1>2. PICK x \in T : \A y \in T : ~ (<<y, x>> \in less)
  <2> HIDE DEF less
  <2> QED BY <1>1, WFMin
<1>3. ASSUME NEW y \in T PROVE x <= y
  <2>1. x \in Nat /\ y \in Nat /\ <<y, x>> \notin less
    BY <1>2, <1>3
  <2>2. ~(y < x)
    BY <2>1
  <2> QED BY <2>1, <2>2
<1> QED BY <1>2, <1>3

LEMMA Most ==
  ASSUME NEW n \in Nat, NEW T \in SUBSET (0 .. n), T # {} PROVE \E x \in T : \A y \in T : y <= x
<1>1. PICK R : R = {n - t : t \in T}
  OBVIOUS
<1>2. R \in SUBSET Nat /\ R # {}
  <2>1. ASSUME NEW t \in T PROVE n - t \in Nat
    <3>1. t \in 0 .. n
      BY <2>1
    <3> QED BY <3>1
  <2> QED BY <1>1, <2>1
<1>3. PICK r \in R : \A s \in R : r <= s
  BY <1>2, Least
<1>4. PICK x \in T : r = n - x
  BY <1>1, <1>3
<1>5. ASSUME NEW y \in T PROVE y <= x
  <2>1. n - y \in R
    BY <1>1
  <2> QED BY <1>3, <1>4, <2>1
<1> QED BY <1>5

(* The counters of the rank, and what passes its gate: one number more     *)
(* never closes it.                                                        *)
Counters == [lesson : Nat, seal : Nat]
Lacks(xp, now, n) == {k \in {"xp", "lesson", "seal"} : [xp |-> xp, lesson |-> now.lesson, seal |-> now.seal][k] < Gate[n][k]}

LEMMA Gates ==
  ASSUME Achieve!AchievementsAssumption
  PROVE  /\ Achieve!Level = 1 .. Len(Gate) /\ Len(Gate) \in Nat \ {0}
         /\ \A n \in Achieve!Level : /\ Gate[n]["xp"] \in Nat
                                     /\ Gate[n]["lesson"] \in Nat
                                     /\ Gate[n]["seal"] \in Nat
         /\ Achieve!Event = 1 .. Len(Kind) /\ Len(Kind) \in Nat /\ IsFiniteSet(Achieve!Event)
         /\ \A e \in Achieve!Event : Kind[e] \in {"lesson", "seal"}
         /\ Target \in Nat
<1>1. /\ Gate \in Seq([{"xp", "lesson", "seal"} -> Nat]) /\ Gate # <<>>
      /\ Kind \in Seq({"lesson", "seal"}) /\ Target \in Nat
  BY DEF Achieve!AchievementsAssumption
<1>2. Len(Kind) \in Nat /\ IsFiniteSet(1 .. Len(Kind))
  BY <1>1, FS_Interval
<1> QED BY <1>1, <1>2 DEF Achieve!Level, Achieve!Event

LEMMA StaysPassed ==
  ASSUME Achieve!AchievementsAssumption, NEW n \in Achieve!Level,
         NEW a \in Nat, NEW b \in Nat, a <= b, NEW now \in Counters, NEW then \in Counters,
         now.lesson <= then.lesson, now.seal <= then.seal, Lacks(a, now, n) = {}
  PROVE  Lacks(b, then, n) = {}
<1>1. /\ Gate[n]["xp"] \in Nat /\ Gate[n]["lesson"] \in Nat /\ Gate[n]["seal"] \in Nat
  BY Gates
<1>2. /\ now.lesson \in Nat /\ now.seal \in Nat /\ then.lesson \in Nat /\ then.seal \in Nat
  BY DEF Counters
<1>3. ~(a < Gate[n]["xp"]) /\ ~(now.lesson < Gate[n]["lesson"]) /\ ~(now.seal < Gate[n]["seal"])
  BY DEF Lacks
<1>4. ~(b < Gate[n]["xp"]) /\ ~(then.lesson < Gate[n]["lesson"]) /\ ~(then.seal < Gate[n]["seal"])
  BY <1>1, <1>2, <1>3
<1> QED BY <1>4 DEF Lacks

(* The rows; and what a poll has seen was there.                           *)
PollRow == [batch : SUBSET Achieve!Event, at : {"rank", "count", "save", "badge", "publish"}, seen : Nat]
PollRows == poll \in [Consumer -> PollRow]
AchieveRows ==
  /\ event = [e \in Achieve!Event |-> event[e]]
  /\ counted \in Counters /\ level \in Achieve!Level
  /\ rankPaid = [n \in Achieve!Level |-> rankPaid[n]]
  /\ owned \in BOOLEAN /\ bag \in Nat
  /\ PollRows
NothingInvented ==
  /\ bag <= Achieve!Lessons
  /\ \A c \in Consumer : poll[c].seen <= Achieve!Lessons
AchieveInv == AchieveRows /\ NothingInvented /\ Achieve!EarnedAndPaidOnce

LEMMA LessonsGrow ==
  ASSUME Achieve!AchievementsAssumption, NEW ev, NEW ew,
         \A e \in Achieve!Event : ev[e] # "none" => ew[e] # "none"
  PROVE  LET was == {e \in Achieve!Event : ev[e] # "none" /\ Kind[e] = "lesson"}
             is == {e \in Achieve!Event : ew[e] # "none" /\ Kind[e] = "lesson"}
         IN  /\ Achieve!Cardinality(was) \in Nat /\ Achieve!Cardinality(is) \in Nat
             /\ Achieve!Cardinality(was) <= Achieve!Cardinality(is)
<1>1. PICK was : was = {e \in Achieve!Event : ev[e] # "none" /\ Kind[e] = "lesson"}
  OBVIOUS
<1>2. PICK is : is = {e \in Achieve!Event : ew[e] # "none" /\ Kind[e] = "lesson"}
  OBVIOUS
<1>3. IsFiniteSet(Achieve!Event) /\ is \in SUBSET Achieve!Event /\ was \in SUBSET is
  BY <1>1, <1>2, Gates
<1>4. IsFiniteSet(is) /\ IsFiniteSet(was) /\ Cardinality(was) <= Cardinality(is)
  BY <1>3, FS_Subset
<1>5. Cardinality(was) \in Nat /\ Cardinality(is) \in Nat
  BY <1>4, FS_CardinalityType
<1>6. Achieve!Cardinality(was) = Cardinality(was) /\ Achieve!Cardinality(is) = Cardinality(is)
  BY DEF Achieve!Cardinality, Cardinality
<1> QED BY <1>1, <1>2, <1>4, <1>5, <1>6

LEMMA AchieveStart == ASSUME Achieve!AchievementsAssumption, Achieve!Init PROVE AchieveInv
<1>1. AchieveRows
  <2>1. counted \in Counters
    BY DEF Achieve!Init, Counters
  <2>2. PollRows
    BY DEF Achieve!Init, Achieve!Idle, PollRows, PollRow
  <2>3. level \in Achieve!Level
    BY Gates DEF Achieve!Init
  <2> QED BY <2>1, <2>2, <2>3 DEF Achieve!Init, AchieveRows
<1>2. Achieve!Lessons \in Nat
  BY LessonsGrow DEF Achieve!Lessons, Achieve!Happened
<1>3. NothingInvented
  BY <1>2 DEF Achieve!Init, Achieve!Idle, NothingInvented
<1>4. Achieve!EarnedAndPaidOnce
  BY Gates DEF Achieve!Init, Achieve!EarnedAndPaidOnce
<1> QED BY <1>1, <1>3, <1>4 DEF AchieveInv

(* The highest rank in reach is there, and it is not below the one that    *)
(* was reached.                                                            *)
LEMMA ReachedIsThere ==
  ASSUME Achieve!AchievementsAssumption, level \in Achieve!Level, NEW now
  PROVE  Achieve!Reached(now) \in Achieve!Level /\ Achieve!Climbs(now, Achieve!Reached(now))
<1>1. PICK T : T = {n \in Achieve!Level : Achieve!Climbs(now, n)}
  OBVIOUS
<1>2. Achieve!Level = 1 .. Len(Gate) /\ Len(Gate) \in Nat
  BY Gates
<1>3. level \in T
  BY <1>1, <1>2 DEF Achieve!Climbs
<1>4. T \in SUBSET (0 .. Len(Gate)) /\ T # {}
  BY <1>1, <1>2, <1>3
<1>5. PICK n \in T : \A m \in T : m <= n
  BY <1>2, <1>4, Most
<1>6. n \in Achieve!Level /\ Achieve!Climbs(now, n)
  BY <1>1, <1>5
<1>7. n + 1 \in Achieve!Level => ~Achieve!Climbs(now, n + 1)
  <2>1. ~(n + 1 <= n)
    BY <1>2, <1>6
  <2> QED BY <1>1, <1>5, <2>1
<1> QED BY <1>6, <1>7 DEF Achieve!Reached

LEMMA CurrentIsThere ==
  ASSUME Achieve!AchievementsAssumption, AchieveRows, NEW c \in Consumer, poll[c].batch # {}
  PROVE  Achieve!Current(c) \in Achieve!Event /\ Kind[Achieve!Current(c)] \in {"lesson", "seal"}
<1>1. poll[c].batch \subseteq Achieve!Event /\ Achieve!Event \subseteq Nat
  BY Gates DEF AchieveRows, PollRows, PollRow
<1>2. \E e \in poll[c].batch : \A f \in poll[c].batch : e <= f
  BY <1>1, Least
<1>3. Achieve!Current(c) \in poll[c].batch
  BY <1>2 DEF Achieve!Current
<1> QED BY <1>1, <1>3, Gates

(* A step that only adds events, counters, levels and lessons.             *)
LEMMA AchieveGrows ==
  ASSUME Achieve!AchievementsAssumption, AchieveInv, AchieveRows',
         \A e \in Achieve!Event : event[e] # "none" => event'[e] # "none",
         UNCHANGED <<counted, level, rankPaid>>
  PROVE  /\ Achieve!Lessons \in Nat /\ Achieve!Lessons' \in Nat /\ Achieve!Lessons <= Achieve!Lessons'
         /\ \A n \in Achieve!Level \ {1} : rankPaid'[n] = (IF n <= level' THEN 1 ELSE 0)
         /\ \A n \in 2 .. level' : Achieve!Missing(counted, n)' = {}
<1>1. /\ Achieve!Lessons \in Nat /\ Achieve!Lessons' \in Nat /\ Achieve!Lessons <= Achieve!Lessons'
  BY LessonsGrow DEF Achieve!Lessons, Achieve!Happened
<1>2. \A n \in Achieve!Level \ {1} : rankPaid'[n] = (IF n <= level' THEN 1 ELSE 0)
  BY DEF AchieveInv, Achieve!EarnedAndPaidOnce
<1>3. ASSUME NEW n \in 2 .. level' PROVE Achieve!Missing(counted, n)' = {}
  <2>1. n \in Achieve!Level
    BY <1>3, Gates DEF AchieveRows
  <2>2. Lacks(Achieve!Lessons, counted, n) = {}
    BY <1>3 DEF AchieveInv, Achieve!EarnedAndPaidOnce, Achieve!Missing, Achieve!Has, Lacks
  <2>3. counted \in Counters /\ counted.lesson \in Nat /\ counted.seal \in Nat
    BY DEF AchieveInv, AchieveRows, Counters
  <2>4. Lacks(Achieve!Lessons', counted, n) = {}
    BY <1>1, <2>1, <2>2, <2>3, StaysPassed
  <2> QED BY <2>4 DEF Achieve!Missing, Achieve!Has, Lacks
<1> QED BY <1>1, <1>2, <1>3

(* One activity: it counts, climbs and pays, or all is rolled back.        *)
LEMMA ActivityStep ==
  ASSUME Achieve!AchievementsAssumption, AchieveInv, NEW c \in Consumer, Achieve!RecordActivity(c)
  PROVE  /\ counted' \in Counters /\ level' \in Achieve!Level
         /\ rankPaid' = [n \in Achieve!Level |-> rankPaid'[n]]
         /\ \A n \in Achieve!Level \ {1} : rankPaid'[n] = (IF n <= level' THEN 1 ELSE 0)
         /\ \A n \in 2 .. level' : Achieve!Missing(counted, n)' = {}
<1>f. AchieveRows /\ Achieve!EarnedAndPaidOnce
  BY DEF AchieveInv
<1>1. PICK k : k = Kind[Achieve!Current(c)]
  OBVIOUS
<1>2. PICK now : now = [counted EXCEPT ![k] = @ + 1]
  OBVIOUS
<1>3. poll[c].batch # {} /\ UNCHANGED event
  BY DEF Achieve!RecordActivity
<1>4. k \in {"lesson", "seal"}
  BY <1>1, <1>3, <1>f, CurrentIsThere
<1>5. /\ now \in Counters /\ counted \in Counters
      /\ counted.lesson \in Nat /\ counted.seal \in Nat
      /\ counted.lesson <= now.lesson /\ counted.seal <= now.seal
  <2>1. counted \in Counters /\ counted.lesson \in Nat /\ counted.seal \in Nat
    BY <1>f DEF AchieveRows, Counters
  <2>2. CASE k = "lesson"
    BY <1>2, <2>1, <2>2 DEF Counters
  <2>3. CASE k = "seal"
    BY <1>2, <2>1, <2>3 DEF Counters
  <2> QED BY <1>4, <2>1, <2>2, <2>3
<1>6. Achieve!Lessons \in Nat /\ Achieve!Lessons' = Achieve!Lessons
  BY <1>3, LessonsGrow DEF Achieve!Lessons, Achieve!Happened
<1>7. CASE UNCHANGED <<counted, level, rankPaid>>
  <2>1. \A n \in 2 .. level' : Achieve!Missing(counted, n)' = {}
    BY <1>6, <1>7, <1>f DEF Achieve!EarnedAndPaidOnce, Achieve!Missing, Achieve!Has
  <2> QED BY <1>7, <1>f, <2>1 DEF AchieveRows, Achieve!EarnedAndPaidOnce
<1>8. CASE /\ counted' = now /\ level' = Achieve!Reached(now)
           /\ rankPaid' = [n \in Achieve!Level |-> IF Achieve!Pays(n, now) THEN rankPaid[n] + 1 ELSE rankPaid[n]]
  <2>1. level \in Achieve!Level
    BY <1>f DEF AchieveRows
  <2>2. level' \in Achieve!Level /\ Achieve!Climbs(now, level')
    BY <1>8, <2>1, ReachedIsThere
  <2>3. level <= level' /\ \A m \in level + 1 .. level' : Achieve!Missing(now, m) = {}
    BY <2>1, <2>2, Gates DEF Achieve!Climbs
  <2>4. ASSUME NEW n \in Achieve!Level \ {1} PROVE rankPaid'[n] = (IF n <= level' THEN 1 ELSE 0)
    <3>1. n \in Nat /\ level \in Nat /\ level' \in Nat
      BY <2>1, <2>2, Gates
    <3>2. rankPaid[n] = (IF n <= level THEN 1 ELSE 0)
      BY <1>f DEF Achieve!EarnedAndPaidOnce
    <3>3. Achieve!Pays(n, now) <=> n > level /\ n <= level'
      BY <1>8 DEF Achieve!Pays
    <3>4. rankPaid'[n] = IF n > level /\ n <= level' THEN rankPaid[n] + 1 ELSE rankPaid[n]
      BY <1>8, <3>3
    <3> QED BY <2>3, <3>1, <3>2, <3>4
  <2>5. ASSUME NEW n \in 2 .. level' PROVE Achieve!Missing(counted, n)' = {}
    <3>1. n \in Achieve!Level /\ level \in Nat /\ level' \in Nat /\ n \in Nat
      BY <2>1, <2>2, Gates
    <3>2. CASE n <= level
      <4>1. Achieve!Missing(counted, n) = {}
        BY <1>f, <3>1, <3>2 DEF Achieve!EarnedAndPaidOnce
      <4>2. Lacks(Achieve!Lessons, counted, n) = {}
        BY <4>1 DEF Achieve!Missing, Achieve!Has, Lacks
      <4>3. Lacks(Achieve!Lessons, now, n) = {}
        BY <1>5, <1>6, <3>1, <4>2, StaysPassed
      <4> QED BY <1>6, <1>8, <4>3 DEF Achieve!Missing, Achieve!Has, Lacks
    <3>3. CASE ~(n <= level)
      <4>1. n \in level + 1 .. level'
        BY <3>1, <3>3
      <4>2. Achieve!Missing(now, n) = {}
        BY <2>3, <4>1
      <4> QED BY <1>6, <1>8, <4>2 DEF Achieve!Missing, Achieve!Has
    <3> QED BY <3>2, <3>3
  <2> QED BY <1>5, <1>8, <2>2, <2>4, <2>5
<1> QED BY <1>1, <1>2, <1>7, <1>8 DEF Achieve!RecordActivity

LEMMA AchieveStep ==
  ASSUME Achieve!AchievementsAssumption, AchieveInv, [Achieve!Next]_Achieve!achieveVars PROVE AchieveInv'
<1>f. AchieveRows /\ NothingInvented /\ Achieve!EarnedAndPaidOnce
  BY DEF AchieveInv
<1>r. /\ poll \in [Consumer -> PollRow] /\ counted \in Counters /\ level \in Achieve!Level
      /\ owned \in BOOLEAN /\ bag \in Nat /\ Target \in Nat
      /\ event = [e \in Achieve!Event |-> event[e]]
  BY <1>f, Gates DEF AchieveRows, PollRows
(* A step that leaves the ranks and the badge alone.                       *)
<1>q. ASSUME UNCHANGED <<counted, level, rankPaid, owned, badgePaid>>, bag' \in Nat,
             event' = [e \in Achieve!Event |-> event'[e]],
             \A e \in Achieve!Event : event[e] # "none" => event'[e] # "none",
             PollRows',
             Achieve!Lessons <= Achieve!Lessons' => NothingInvented'
      PROVE  AchieveInv'
  <2>1. AchieveRows'
    BY <1>f, <1>q DEF AchieveRows, PollRows, PollRow, Achieve!Event, Achieve!Level
  <2>2. /\ Achieve!Lessons \in Nat /\ Achieve!Lessons' \in Nat /\ Achieve!Lessons <= Achieve!Lessons'
        /\ \A n \in Achieve!Level \ {1} : rankPaid'[n] = (IF n <= level' THEN 1 ELSE 0)
        /\ \A n \in 2 .. level' : Achieve!Missing(counted, n)' = {}
    BY <1>q, <2>1, AchieveGrows
  <2>3. Achieve!EarnedAndPaidOnce'
    BY <1>f, <1>q, <1>r, <2>2 DEF Achieve!EarnedAndPaidOnce, Achieve!Level
  <2> QED BY <1>q, <2>1, <2>2, <2>3 DEF AchieveInv
<1>p. /\ \A c \in Consumer : /\ poll[c].batch \subseteq Achieve!Event /\ poll[c].seen \in Nat
                             /\ poll[c].seen <= Achieve!Lessons /\ poll[c] \in PollRow
      /\ Achieve!Lessons \in Nat /\ bag <= Achieve!Lessons
  <2>1. Achieve!Lessons \in Nat
    BY LessonsGrow DEF Achieve!Lessons, Achieve!Happened
  <2> QED BY <1>f, <1>r, <2>1 DEF NothingInvented, PollRow
(* What a consumer has seen, when there are not fewer lessons.             *)
<1>h. ASSUME NEW c \in Consumer, NEW r \in PollRow, poll' = [poll EXCEPT ![c] = r],
             r.seen <= Achieve!Lessons, Achieve!Lessons' \in Nat, Achieve!Lessons <= Achieve!Lessons',
             bag' \in Nat, bag' <= Achieve!Lessons
      PROVE  NothingInvented' /\ PollRows'
  <2>1. r.seen \in Nat
    BY <1>h DEF PollRow
  <2>2. poll'[c] = r /\ \A d \in Consumer \ {c} : poll'[d] = poll[d]
    BY <1>h, <1>r
  <2>3. PollRows'
    BY <1>h, <1>r DEF PollRows, PollRow, Achieve!Event
  <2> QED BY <1>h, <1>p, <2>1, <2>2, <2>3 DEF NothingInvented
<1>l. UNCHANGED event => Achieve!Lessons' = Achieve!Lessons
  BY DEF Achieve!Lessons, Achieve!Happened
<1>g. (\A e \in Achieve!Event : event[e] # "none" => event'[e] # "none") =>
         Achieve!Lessons' \in Nat /\ Achieve!Lessons <= Achieve!Lessons'
  BY LessonsGrow DEF Achieve!Lessons, Achieve!Happened
<1>k. ASSUME NEW c \in Consumer, NEW r \in PollRow, poll' = [poll EXCEPT ![c] = r],
             r.seen <= Achieve!Lessons, UNCHANGED event, bag' \in Nat /\ bag' <= Achieve!Lessons
      PROVE  NothingInvented' /\ PollRows'
  <2>1. Achieve!Lessons' = Achieve!Lessons
    BY <1>k, <1>l
  <2>2. Achieve!Lessons' \in Nat /\ Achieve!Lessons <= Achieve!Lessons'
    BY <1>p, <2>1
  <2> QED BY <1>h, <1>k, <2>2
<1>b. UNCHANGED bag => bag' \in Nat /\ bag' <= Achieve!Lessons
  BY <1>p, <1>r
<1>i. Achieve!Idle \in PollRow /\ Achieve!Idle.seen <= Achieve!Lessons
  BY <1>p DEF Achieve!Idle, PollRow
<1>1. ASSUME NEW e \in Achieve!Event, Achieve!Happens(e) PROVE AchieveInv'
  <2>1. /\ event' = [event EXCEPT ![e] = "pending"]
        /\ UNCHANGED <<counted, level, rankPaid, bag, owned, badgePaid, poll>>
    BY <1>1 DEF Achieve!Happens
  <2>2. /\ event' = [f \in Achieve!Event |-> event'[f]]
        /\ \A f \in Achieve!Event : event[f] # "none" => event'[f] # "none"
    BY <1>r, <2>1
  <2>3. Achieve!Lessons' \in Nat /\ Achieve!Lessons <= Achieve!Lessons'
    BY <1>g, <2>2
  <2>4. NothingInvented'
    BY <1>p, <1>r, <2>1, <2>3 DEF NothingInvented
  <2>5. PollRows'
    BY <1>r, <2>1 DEF PollRows, PollRow, Achieve!Event
  <2> QED BY <1>q, <1>r, <2>1, <2>2, <2>4, <2>5
<1>2. ASSUME NEW c \in Consumer, Achieve!Poll(c) PROVE AchieveInv'
  <2>1. PICK r : r = [Achieve!Idle EXCEPT !.batch = Achieve!Pending]
    OBVIOUS
  <2>2. /\ poll' = [poll EXCEPT ![c] = r]
        /\ UNCHANGED <<event, counted, level, rankPaid, bag, owned, badgePaid>>
    BY <1>2, <2>1 DEF Achieve!Poll, Achieve!Holds
  <2>3. r = [batch |-> Achieve!Pending, at |-> "rank", seen |-> 0] /\ Achieve!Pending \subseteq Achieve!Event
    BY <2>1 DEF Achieve!Idle, Achieve!Pending
  <2>4. r \in PollRow /\ r.seen = 0
    BY <2>3 DEF PollRow
  <2>6. r.seen <= Achieve!Lessons
    BY <1>p, <2>4
  <2>5. NothingInvented' /\ PollRows'
    BY <1>b, <1>k, <2>2, <2>4, <2>6
  <2> QED BY <1>q, <1>r, <2>2, <2>5
<1>3. ASSUME NEW c \in Consumer, Achieve!RecordActivity(c) PROVE AchieveInv'
  <2>1. PICK at : at = IF Kind[Achieve!Current(c)] = "lesson" THEN "count" ELSE "badge"
    OBVIOUS
  <2>2. PICK r : r = [poll[c] EXCEPT !.at = at]
    OBVIOUS
  <2>3. poll' = [poll EXCEPT ![c] = r] /\ UNCHANGED <<event, bag, owned, badgePaid>>
    BY <1>3, <2>1, <2>2 DEF Achieve!RecordActivity, Achieve!Holds
  <2>4. r \in PollRow /\ r.seen <= Achieve!Lessons
    BY <1>p, <2>1, <2>2 DEF PollRow
  <2>5. NothingInvented' /\ PollRows'
    BY <1>b, <1>k, <2>3, <2>4
  <2>6. /\ counted' \in Counters /\ level' \in Achieve!Level
        /\ rankPaid' = [n \in Achieve!Level |-> rankPaid'[n]]
        /\ \A n \in Achieve!Level \ {1} : rankPaid'[n] = (IF n <= level' THEN 1 ELSE 0)
        /\ \A n \in 2 .. level' : Achieve!Missing(counted, n)' = {}
    BY <1>3, ActivityStep
  <2>7. AchieveRows'
    BY <1>f, <2>3, <2>5, <2>6 DEF AchieveRows, PollRows, PollRow, Achieve!Event, Achieve!Level
  <2>8. Achieve!EarnedAndPaidOnce'
    BY <1>f, <1>l, <2>3, <2>6 DEF Achieve!EarnedAndPaidOnce, Achieve!Level
  <2> QED BY <2>5, <2>7, <2>8 DEF AchieveInv
<1>4. ASSUME NEW c \in Consumer, Achieve!ReadCounter(c) PROVE AchieveInv'
  <2>1. PICK seen : seen = Achieve!Seen
    OBVIOUS
  <2>2. PICK r : r = [poll[c] EXCEPT !.at = "save", !.seen = seen]
    OBVIOUS
  <2>3. poll' = [poll EXCEPT ![c] = r] /\ UNCHANGED <<event, counted, level, rankPaid, bag, owned, badgePaid>>
    BY <1>4, <2>1, <2>2 DEF Achieve!ReadCounter, Achieve!Holds
  <2>4. seen \in Nat /\ seen <= Achieve!Lessons
    BY <1>p, <1>r, <2>1 DEF Achieve!Seen
  <2>5. r \in PollRow /\ r.seen <= Achieve!Lessons
    BY <1>p, <2>2, <2>4 DEF PollRow
  <2>6. NothingInvented' /\ PollRows'
    BY <1>b, <1>k, <2>3, <2>5
  <2> QED BY <1>q, <1>r, <2>3, <2>6
<1>5. ASSUME NEW c \in Consumer, Achieve!SaveCounter(c) PROVE AchieveInv'
  <2>1. PICK r : r = [poll[c] EXCEPT !.at = "badge", !.seen = 0]
    OBVIOUS
  <2>2. /\ poll' = [poll EXCEPT ![c] = r] /\ bag' = poll[c].seen
        /\ UNCHANGED <<event, counted, level, rankPaid, owned, badgePaid>>
    BY <1>5, <2>1 DEF Achieve!SaveCounter, Achieve!Holds
  <2>3. r \in PollRow /\ r.seen = 0
    BY <1>p, <2>1 DEF PollRow
  <2>5. r.seen <= Achieve!Lessons /\ bag' \in Nat /\ bag' <= Achieve!Lessons
    BY <1>p, <2>2, <2>3
  <2>4. NothingInvented' /\ PollRows'
    BY <1>k, <2>2, <2>3, <2>5
  <2> QED BY <1>q, <1>r, <1>p, <2>2, <2>4
<1>6. ASSUME NEW c \in Consumer, Achieve!UnlockBadge(c) PROVE AchieveInv'
  <2>1. PICK r : r = [poll[c] EXCEPT !.at = "publish"]
    OBVIOUS
  <2>2. /\ poll' = [poll EXCEPT ![c] = r] /\ owned' = (owned \/ Achieve!Unlocks)
        /\ badgePaid' = IF Achieve!Unlocks THEN badgePaid + 1 ELSE badgePaid
        /\ UNCHANGED <<event, counted, level, rankPaid, bag>>
    BY <1>6, <2>1 DEF Achieve!UnlockBadge, Achieve!Holds
  <2>3. r \in PollRow /\ r.seen <= Achieve!Lessons
    BY <1>p, <2>1 DEF PollRow
  <2>4. NothingInvented' /\ PollRows'
    BY <1>b, <1>k, <2>2, <2>3
  <2>5. owned' \in BOOLEAN
    BY <1>r, <2>2 DEF Achieve!Unlocks
  <2>6. AchieveRows'
    BY <1>f, <2>2, <2>4, <2>5 DEF AchieveRows, PollRows, PollRow, Achieve!Event, Achieve!Level
  <2>7. /\ \A n \in Achieve!Level \ {1} : rankPaid'[n] = (IF n <= level' THEN 1 ELSE 0)
        /\ \A n \in 2 .. level' : Achieve!Missing(counted, n)' = {}
    BY <1>f, <2>2, <2>6, AchieveGrows
  <2>8. badgePaid = (IF owned THEN 1 ELSE 0) /\ (owned => Achieve!Lessons >= Target)
    BY <1>f DEF Achieve!EarnedAndPaidOnce
  <2>9. CASE Achieve!Unlocks
    <3>1. bag >= Target /\ ~owned /\ owned' = TRUE /\ badgePaid' = badgePaid + 1
      BY <2>2, <2>9 DEF Achieve!Unlocks
    <3>2. badgePaid' = 1 /\ Achieve!Lessons' >= Target
      BY <1>l, <1>p, <1>r, <2>2, <2>8, <3>1
    <3> QED BY <2>4, <2>6, <2>7, <3>1, <3>2 DEF AchieveInv, Achieve!EarnedAndPaidOnce, Achieve!Level
  <2>10. CASE ~Achieve!Unlocks
    <3>1. owned' = owned /\ badgePaid' = badgePaid
      BY <1>r, <2>2, <2>10
    <3> QED BY <1>l, <2>2, <2>4, <2>6, <2>7, <2>8, <3>1 DEF AchieveInv, Achieve!EarnedAndPaidOnce, Achieve!Level
  <2> QED BY <2>9, <2>10
<1>7. ASSUME NEW c \in Consumer, Achieve!Publish(c) PROVE AchieveInv'
  <2>1. PICK rest : rest = poll[c].batch \ Achieve!Published(c)
    OBVIOUS
  <2>2. PICK r : r = [Achieve!Idle EXCEPT !.batch = rest]
    OBVIOUS
  <2>3. /\ event' = [e \in Achieve!Event |-> IF e \in Achieve!Published(c) THEN "published" ELSE event[e]]
        /\ poll' = [poll EXCEPT ![c] = r]
        /\ UNCHANGED <<counted, level, rankPaid, bag, owned, badgePaid>>
    BY <1>7, <2>1, <2>2 DEF Achieve!Publish, Achieve!Holds
  <2>4. r = [batch |-> rest, at |-> "rank", seen |-> 0] /\ rest \subseteq Achieve!Event
    BY <1>p, <2>1, <2>2 DEF Achieve!Idle
  <2>5. r \in PollRow /\ r.seen = 0
    BY <2>4 DEF PollRow
  <2>6. /\ event' = [e \in Achieve!Event |-> event'[e]]
        /\ \A e \in Achieve!Event : event[e] # "none" => event'[e] # "none"
    BY <2>3
  <2>8. Achieve!Lessons' \in Nat /\ Achieve!Lessons <= Achieve!Lessons'
    BY <1>g, <2>6
  <2>9. r.seen <= Achieve!Lessons
    BY <1>p, <2>5
  <2>7. NothingInvented' /\ PollRows'
    BY <1>b, <1>h, <2>3, <2>5, <2>8, <2>9
  <2> QED BY <1>q, <1>r, <2>3, <2>6, <2>7
<1>8. ASSUME NEW c \in Consumer, Achieve!Stop(c) PROVE AchieveInv'
  <2>1. /\ poll' = [poll EXCEPT ![c] = Achieve!Idle]
        /\ UNCHANGED <<event, counted, level, rankPaid, bag, owned, badgePaid>>
    BY <1>8 DEF Achieve!Stop, Achieve!Holds
  <2>2. NothingInvented' /\ PollRows'
    BY <1>b, <1>i, <1>k, <2>1
  <2> QED BY <1>q, <1>r, <2>1, <2>2
<1>10. ASSUME NEW c \in Consumer, Achieve!Fails(c) PROVE AchieveInv'
  <2>1. PICK rest : rest = poll[c].batch \ {Achieve!Current(c)}
    OBVIOUS
  <2>2. PICK r : r = [Achieve!Idle EXCEPT !.batch = rest]
    OBVIOUS
  <2>3. /\ event' = [event EXCEPT ![Achieve!Current(c)] = "failed"]
        /\ poll' = [poll EXCEPT ![c] = r]
        /\ UNCHANGED <<counted, level, rankPaid, bag, owned, badgePaid>>
    BY <1>10, <2>1, <2>2 DEF Achieve!Fails, Achieve!Holds
  <2>4. r = [batch |-> rest, at |-> "rank", seen |-> 0] /\ rest \subseteq Achieve!Event
    BY <1>p, <2>1, <2>2 DEF Achieve!Idle
  <2>5. r \in PollRow /\ r.seen = 0
    BY <2>4 DEF PollRow
  <2>6. /\ event' = [e \in Achieve!Event |-> event'[e]]
        /\ \A e \in Achieve!Event : event[e] # "none" => event'[e] # "none"
    BY <1>r, <2>3
  <2>7. Achieve!Lessons' \in Nat /\ Achieve!Lessons <= Achieve!Lessons'
    BY <1>g, <2>6
  <2>8. r.seen <= Achieve!Lessons
    BY <1>p, <2>5
  <2>9. NothingInvented' /\ PollRows'
    BY <1>b, <1>h, <2>3, <2>5, <2>7, <2>8
  <2> QED BY <1>q, <1>r, <2>3, <2>6, <2>9
<1>9. CASE UNCHANGED Achieve!achieveVars
  <2>1. UNCHANGED <<event, counted, level, rankPaid, bag, owned, badgePaid, poll>>
    BY <1>9 DEF Achieve!achieveVars
  <2>2. NothingInvented'
    BY <1>f, <1>l, <2>1 DEF NothingInvented
  <2>3. PollRows'
    BY <1>r, <2>1 DEF PollRows, PollRow, Achieve!Event
  <2> QED BY <1>q, <1>r, <2>1, <2>2, <2>3
<1> QED
  BY <1>1, <1>2, <1>3, <1>4, <1>5, <1>6, <1>7, <1>8, <1>9, <1>10 DEF Achieve!Next

(* For every number of events, ranks and consumers: each rank up to the    *)
(* learner's was earned and paid once, no other was, and so for the badge, *)
(* however often an event is handled and however consumers overlap or die. *)
THEOREM RanksArePaidOnce ==
  ASSUME Achieve!AchievementsAssumption PROVE Achieve!Spec => []Achieve!EarnedAndPaidOnce
<1>1. Achieve!Init => AchieveInv
  BY AchieveStart
<1>2. AchieveInv /\ [Achieve!Next]_Achieve!achieveVars => AchieveInv'
  BY AchieveStep
<1>3. AchieveInv => Achieve!EarnedAndPaidOnce
  BY DEF AchieveInv
<1> QED BY <1>1, <1>2, <1>3, PTL DEF Achieve!Spec
-----------------------------------------------------------------------------
(* The way through a roadmap: its lessons, the cached tree, the graduation. *)
CONSTANTS Length, Required, Exam
VARIABLES lessonStatus, progress, results, examDone, tree, look, work, trackRow, graduation,
          misled, replayed, reopened, lost
Track == INSTANCE TrackProgress WITH roadmap <- trackRow

WaitRow == [at : {"waits", "check", "finish", "pay"}, lesson : Track!Unit]
HoldRow == [at : {"writes", "dropped"}, lesson : Track!Unit, opens : SUBSET Track!Unit, exam : BOOLEAN,
            status : {"ready", "completed"}, whole : BOOLEAN, finished : BOOLEAN]
RoadmapRow == [status : {"ready", "completed"}, finished : BOOLEAN]

(* A completion in progress is of a lesson that has no result yet and that *)
(* is its turn; what it opens is the next lesson, and whether it ends the  *)
(* exam is as the lessons are, unless the tree was out of date.            *)
Fits(r) ==
  /\ r \in WaitRow \union HoldRow \union {Track!None}
  /\ r.at \in {"waits", "writes", "dropped"} =>
       r.lesson \notin results /\ (r.lesson = 1 \/ r.lesson - 1 \in results)
  /\ r.at \in {"writes", "dropped"} => r.opens = {n \in Track!Unit : n = r.lesson + 1}
  /\ r.at \in {"writes", "dropped"} /\ ~misled => (r.exam <=> Track!AllDone(lessonStatus, r.lesson))
  /\ r.at \in {"writes", "dropped"} /\ r.finished => trackRow.finished
  /\ r.at = "pay" => trackRow.finished \/ reopened
Works ==
  /\ work = [w \in Worker |-> work[w]]
  /\ \A w \in Worker : Fits(work[w])
  /\ \A v, w \in Worker :
       work[v] # Track!None /\ work[w] # Track!None /\ work[v].lesson = work[w].lesson => v = w
  /\ \A v, w \in Worker :
       work[v].at \in {"writes", "dropped"} /\ work[w].at \in {"writes", "dropped"} => v = w

(* A tree that somebody stored or will store is the lessons of some time:  *)
(* what was open then has its turn now.                                    *)
Old(t) ==
  /\ t \in [lessons : [Track!Unit -> {"locked", "available", "completed"}],
            status : {"ready", "completed"}]
  /\ \A n \in Track!Unit : t.lessons[n] # "locked" => n = 1 \/ n - 1 \in results
Path ==
  /\ lessonStatus \in [Track!Unit -> {"locked", "available", "completed"}]
  /\ results \subseteq Track!Unit
  /\ \A n \in results : n = 1 \/ n - 1 \in results
  /\ \A t \in tree \union look : Old(t)
  /\ Track!PathNeverStalls

(* Who has completed everything is seen to by somebody.                    *)
Progressing ==
  /\ {misled, replayed, reopened, lost, examDone} \subseteq BOOLEAN
  /\ progress = [l \in Track!Unit |-> progress[l]]
  /\ ~replayed => \A l \in results : progress[l] = "completed"
  /\ ~misled /\ Exam \subseteq results => examDone \/ Exam = {}
Graduating ==
  /\ trackRow \in RoadmapRow /\ (~reopened => (trackRow.finished <=> trackRow.status = "completed"))
  /\ graduation \in {0, 1} /\ (graduation = 1 => trackRow.finished \/ reopened)
  /\ trackRow.finished /\ ~lost => graduation = 1 \/ \E w \in Worker : work[w].at = "pay"
  /\ results = Track!Unit /\ ~misled /\ ~replayed /\ ~lost =>
       trackRow.finished \/ \E w \in Worker : work[w].at \in {"check", "finish"}

TrackInv == Works /\ Path /\ Progressing /\ Graduating

LEMMA TrackStart == ASSUME Track!TrackAssumption, Track!Init PROVE TrackInv
<1> USE DEF Track!Init, Track!None
<1>1. Works
  BY DEF Works, Fits
<1>2. Path
  BY DEF Path, Old, Track!PathNeverStalls
<1>3. Progressing
  BY DEF Progressing
<1>4. Graduating
  <2>1. 1 \in Track!Unit
    BY DEF Track!TrackAssumption, Track!Unit
  <2> QED BY <2>1 DEF Graduating, RoadmapRow
<1> QED BY <1>1, <1>2, <1>3, <1>4 DEF TrackInv

(* One worker goes on.                                                     *)
LEMMA WorkGoesOn ==
  ASSUME Works, NEW w \in Worker, NEW r, work' = [work EXCEPT ![w] = r], UNCHANGED <<lessonStatus, results>>,
         misled => misled', trackRow.finished => trackRow'.finished, UNCHANGED reopened,
         Fits(r)',
         r # Track!None => \A v \in Worker \ {w} : work[v] # Track!None => work[v].lesson # r.lesson,
         r.at \in {"writes", "dropped"} => \A v \in Worker \ {w} : work[v].at \notin {"writes", "dropped"}
  PROVE  Works'
<1>1. /\ work'[w] = r /\ work' = [v \in Worker |-> work'[v]]
      /\ \A v \in Worker \ {w} : work'[v] = work[v]
  BY DEF Works
<1>2. ASSUME NEW v \in Worker PROVE Fits(work[v])'
  <2>1. CASE v = w
    <3>1. work'[v] = r
      BY <1>1, <2>1
    <3> QED BY <3>1 DEF Fits, Track!None, WaitRow, HoldRow
  <2>2. CASE v # w
    <3>1. work'[v] = work[v] /\ Fits(work[v])
      BY <1>1, <2>2 DEF Works
    <3> QED BY <3>1 DEF Fits, Track!AllDone, Track!None, WaitRow, HoldRow
  <2> QED BY <2>1, <2>2
<1>3. \A u, v \in Worker :
        work'[u] # Track!None /\ work'[v] # Track!None /\ work'[u].lesson = work'[v].lesson => u = v
  BY <1>1 DEF Works
<1>4. \A u, v \in Worker :
        work'[u].at \in {"writes", "dropped"} /\ work'[v].at \in {"writes", "dropped"} => u = v
  BY <1>1 DEF Works
<1> QED BY <1>1, <1>2, <1>3, <1>4 DEF Works

(* The lessons themselves are a tree like the others.                      *)
LEMMA LessonsAreOld == ASSUME Path, trackRow \in RoadmapRow PROVE Old(Track!Rows)
BY DEF Path, Old, Track!PathNeverStalls, Track!Rows, RoadmapRow
LEMMA TreesAreOld == ASSUME Path, trackRow \in RoadmapRow PROVE \A t \in Track!Filled : Old(t)
BY LessonsAreOld DEF Track!Filled, Path

LEMMA PathStays ==
  ASSUME Path, UNCHANGED <<lessonStatus, results>>, trackRow \in RoadmapRow,
         tree' \union look' \subseteq tree \union look \union {Track!Rows}
  PROVE  Path'
<1>1. \A t \in tree' \union look' : Old(t)
  BY LessonsAreOld DEF Path
<1> QED BY <1>1 DEF Path, Old, Track!PathNeverStalls

(* The steps of one completion.                                            *)
LEMMA StartStep ==
  ASSUME TrackInv, NEW l \in Track!Unit, Track!Start(l) PROVE TrackInv'
<1> USE DEF Track!Start
<1>f. Works /\ Path /\ Progressing /\ Graduating /\ trackRow \in RoadmapRow
  BY DEF TrackInv, Graduating
<1>1. Works'
  BY <1>f DEF Works, Fits, Track!AllDone
<1>2. Path'
  BY <1>f, PathStays
<1>3. Progressing'
  <2>1. progress' = [m \in Track!Unit |-> progress'[m]] /\ progress'[l] = "started"
        /\ \A m \in Track!Unit \ {l} : progress'[m] = progress[m]
    BY <1>f DEF Progressing
  <2>2. ~replayed' => l \notin results
    BY <1>f DEF Progressing
  <2>3. results \subseteq Track!Unit
    BY <1>f DEF Path
  <2> QED BY <1>f, <2>1, <2>2, <2>3 DEF Progressing
<1>4. Graduating'
  BY <1>f DEF Graduating
<1> QED BY <1>1, <1>2, <1>3, <1>4 DEF TrackInv

LEMMA CompleteStep ==
  ASSUME TrackInv, NEW w \in Worker, NEW l \in Track!Unit, Track!Complete(w, l) PROVE TrackInv'
<1> USE DEF Track!Complete, Track!At
<1>f. Works /\ Path /\ Progressing /\ Graduating /\ trackRow \in RoadmapRow
  BY DEF TrackInv, Graduating
<1> DEFINE r == [at |-> "waits", lesson |-> l]
<1>a. l = 1 \/ l - 1 \in results
  BY <1>f DEF Path, Track!PathNeverStalls
<1>b. Fits(r)'
  BY <1>a DEF Fits, WaitRow
<1>1. Works'
  BY <1>f, <1>b, WorkGoesOn
<1>2. Path'
  <2>1. tree' \union look' \subseteq tree \union look \union {Track!Rows}
    BY DEF Track!Filled
  <2> QED BY <1>f, <2>1, PathStays
<1>3. Progressing'
  BY <1>f DEF Progressing
<1>4. Graduating'
  <2>1. \A v \in Worker : work[v].at # "none" => work'[v] = work[v]
    BY <1>f DEF Works
  <2> QED BY <1>f, <2>1 DEF Graduating
<1> QED BY <1>1, <1>2, <1>3, <1>4 DEF TrackInv

LEMMA AdvanceStep ==
  ASSUME TrackInv, NEW w \in Worker, Track!Advance(w) PROVE TrackInv'
<1> USE DEF Track!Advance, Track!At
<1>f. Works /\ Path /\ Progressing /\ Graduating /\ trackRow \in RoadmapRow
  BY DEF TrackInv, Graduating
<1>l. PICK l : l = work[w].lesson
  OBVIOUS
<1>t. PICK t \in Track!Filled :
        /\ work' = [work EXCEPT ![w] = [at |-> "writes", lesson |-> l,
                      opens |-> Track!Opens(t.lessons, l), exam |-> Track!AllDone(t.lessons, l),
                      status |-> t.status, whole |-> tree = {}, finished |-> tree = {} /\ trackRow.finished]]
        /\ misled' = (misled \/ t.lessons # lessonStatus)
  BY <1>l
<1>r. PICK r : r = [at |-> "writes", lesson |-> l,
                    opens |-> Track!Opens(t.lessons, l), exam |-> Track!AllDone(t.lessons, l),
                    status |-> t.status, whole |-> tree = {}, finished |-> tree = {} /\ trackRow.finished]
  OBVIOUS
<1>a. /\ l \in Track!Unit /\ l \notin results /\ (l = 1 \/ l - 1 \in results)
  BY <1>f, <1>l DEF Works, Fits, WaitRow, HoldRow, Track!None
<1>b. Track!Opens(t.lessons, l) = {n \in Track!Unit : n = l + 1}
  <2>1. Old(t)
    BY <1>f, TreesAreOld
  <2>2. ASSUME NEW n \in Track!Unit, n = l + 1 PROVE t.lessons[n] = "locked"
    BY <1>a, <2>1, <2>2 DEF Old, Track!Unit
  <2> QED BY <2>2 DEF Track!Opens
<1>c. Fits(r)'
  <2>1. r \in HoldRow
    <3>1. Old(t)
      BY <1>f, TreesAreOld
    <3>2. t.status \in {"ready", "completed"} /\ trackRow.finished \in BOOLEAN
      BY <3>1, <1>f DEF Old, RoadmapRow
    <3> QED BY <1>r, <1>a, <1>b, <3>2 DEF HoldRow, Track!AllDone
  <2>2. ~misled' => t.lessons = lessonStatus /\ lessonStatus' = lessonStatus
    BY <1>t
  <2>3. r.at = "writes" /\ r.lesson = l /\ r.opens = {n \in Track!Unit : n = l + 1}
        /\ r.exam = Track!AllDone(t.lessons, l)
    BY <1>r, <1>b
  <2>4. ~misled' => (r.exam <=> Track!AllDone(lessonStatus, l)')
    BY <2>2, <2>3 DEF Track!AllDone
  <2>5. r.finished => trackRow'.finished
    BY <1>r
  <2> QED BY <1>a, <2>1, <2>3, <2>4, <2>5 DEF Fits
<1>d. work' = [work EXCEPT ![w] = r]
  BY <1>t, <1>r
<1>e. r # Track!None /\ r.at = "writes" /\ r.lesson = l
  BY <1>r DEF Track!None
<1>1. Works'
  <2>1. \A v \in Worker \ {w} : work[v] # Track!None => work[v].lesson # r.lesson
    BY <1>f, <1>l, <1>e DEF Works, Track!None
  <2>2. \A v \in Worker \ {w} : work[v].at \notin {"writes", "dropped"}
    BY DEF Track!Held
  <2>3. (misled => misled') /\ UNCHANGED <<trackRow, reopened>>
    BY <1>t
  <2> QED BY <1>f, <1>c, <1>d, <2>1, <2>2, <2>3, WorkGoesOn
<1>2. Path'
  <2>1. tree' \union look' \subseteq tree \union look \union {Track!Rows}
    BY DEF Track!Filled
  <2> QED BY <1>f, <2>1, PathStays
<1>3. Progressing'
  BY <1>f, <1>t DEF Progressing
<1>4. Graduating'
  <2>1. \A v \in Worker : work[v].at \in {"check", "finish", "pay"} => work'[v] = work[v]
    BY <1>f, <1>d DEF Works
  <2> QED BY <1>f, <1>t, <2>1 DEF Graduating
<1> QED BY <1>1, <1>2, <1>3, <1>4 DEF TrackInv

LEMMA DropStep ==
  ASSUME TrackInv, NEW w \in Worker, Track!Drop(w) PROVE TrackInv'
<1> USE DEF Track!Drop, Track!At
<1>f. Works /\ Path /\ Progressing /\ Graduating /\ trackRow \in RoadmapRow
  BY DEF TrackInv, Graduating
<1>a. Fits(work[w]) /\ work[w] \in HoldRow
  BY <1>f DEF Works, Fits, WaitRow, Track!None
<1>r. PICK r : r = [work[w] EXCEPT !.at = "dropped"]
  OBVIOUS
<1>b. /\ r \in HoldRow /\ r.at = "dropped" /\ r.lesson = work[w].lesson
      /\ r.opens = work[w].opens /\ r.exam = work[w].exam
      /\ r.status = work[w].status /\ r.whole = work[w].whole
      /\ r.finished = work[w].finished
  BY <1>a, <1>r DEF HoldRow
<1>c. Fits(r)'
  BY <1>a, <1>b DEF Fits, Track!AllDone
<1>1. Works'
  <2>1. /\ r # Track!None /\ work[w] # Track!None
    BY <1>b DEF Track!None
  <2>2. \A v \in Worker \ {w} : work[v] # Track!None => work[v].lesson # r.lesson
    BY <1>f, <1>b, <2>1 DEF Works
  <2>3. \A v \in Worker \ {w} : work[v].at \notin {"writes", "dropped"}
    BY <1>f DEF Works
  <2> QED BY <1>f, <1>c, <1>r, <2>2, <2>3, WorkGoesOn
<1>2. Path'
  BY <1>f, PathStays
<1>3. Progressing'
  BY <1>f DEF Progressing
<1>4. Graduating'
  <2>1. \A v \in Worker : work[v].at \in {"check", "finish", "pay"} => work'[v] = work[v]
    BY <1>f DEF Works
  <2> QED BY <1>f, <2>1 DEF Graduating
<1> QED BY <1>1, <1>2, <1>3, <1>4 DEF TrackInv

LEMMA CommitStep ==
  ASSUME TrackInv, NEW w \in Worker, Track!Commit(w) PROVE TrackInv'
<1> USE DEF Track!Commit, Track!At
<1>f. Works /\ Path /\ Progressing /\ Graduating /\ trackRow \in RoadmapRow
  BY DEF TrackInv, Graduating
<1>l. PICK l : l = work[w].lesson
  OBVIOUS
<1>r. PICK r : r = [at |-> "check", lesson |-> l]
  OBVIOUS
<1>a. Fits(work[w]) /\ work[w] \in HoldRow
  BY <1>f DEF Works, Fits, WaitRow, Track!None
<1>b. /\ l \in Track!Unit /\ l \notin results /\ (l = 1 \/ l - 1 \in results)
      /\ work[w].opens = {n \in Track!Unit : n = l + 1}
      /\ ~misled => (work[w].exam <=> Track!AllDone(lessonStatus, l))
  BY <1>a, <1>l DEF Fits, HoldRow
<1>c. /\ results' = results \union {l} /\ work' = [work EXCEPT ![w] = r]
      /\ lessonStatus' = [n \in Track!Unit |-> IF n = l THEN "completed"
                            ELSE IF n = l + 1 THEN "available" ELSE lessonStatus[n]]
      /\ progress' = [progress EXCEPT ![l] = "completed"]
  BY <1>b, <1>l, <1>r
<1>e. /\ trackRow' \in RoadmapRow /\ reopened' \in BOOLEAN
      /\ (reopened => reopened') /\ (~reopened' => ~reopened /\ trackRow' = trackRow)
  <2>1. /\ work[w].status \in {"ready", "completed"} /\ {work[w].whole, work[w].finished} \subseteq BOOLEAN
        /\ trackRow.finished \in BOOLEAN /\ reopened \in BOOLEAN
    BY <1>a, <1>f DEF HoldRow, RoadmapRow, Progressing
  <2>2. PICK f \in BOOLEAN : trackRow' = [status |-> work[w].status, finished |-> f]
    <3>1. CASE work[w].whole
      BY <2>1, <3>1
    <3>2. CASE ~work[w].whole
      BY <2>1, <3>2
    <3> QED BY <2>1, <3>1, <3>2
  <2>3. trackRow' \in RoadmapRow
    BY <2>1, <2>2 DEF RoadmapRow
  <2>4. reopened' = (reopened \/ trackRow' # trackRow)
    OBVIOUS
  <2> QED BY <2>1, <2>3, <2>4
<1>d. /\ work' = [v \in Worker |-> work'[v]] /\ work'[w] = r
      /\ \A v \in Worker \ {w} : work'[v] = work[v]
      /\ r # Track!None /\ r.at = "check" /\ r.lesson = l /\ r \in WaitRow
  BY <1>f, <1>c, <1>r, <1>b DEF Works, Track!None, WaitRow
<1>1. Works'
  <2>1. ASSUME NEW v \in Worker PROVE Fits(work[v])'
    <3>1. CASE v = w
      BY <1>d, <3>1 DEF Fits
    <3>2. CASE v # w
      <4>1. work'[v] = work[v] /\ Fits(work[v])
        BY <1>d, <1>f, <3>2 DEF Works
      <4>2. work[v].at \notin {"writes", "dropped"}
        BY <1>f, <3>2 DEF Works
      <4>3. work[v].at = "waits" => work[v].lesson # l
        <5>1. work[w] # Track!None
          BY DEF Track!None
        <5>2. work[v].at = "waits" => work[v] # Track!None
          BY DEF Track!None
        <5> QED BY <1>f, <1>l, <3>2, <5>1, <5>2 DEF Works
      <4>4. trackRow.finished \/ reopened => trackRow'.finished \/ reopened'
        BY <1>e
      <4> QED BY <1>c, <4>1, <4>2, <4>3, <4>4 DEF Fits
    <3> QED BY <3>1, <3>2
  <2>2. \A u, v \in Worker :
          work'[u] # Track!None /\ work'[v] # Track!None /\ work'[u].lesson = work'[v].lesson => u = v
    <3>1. work[w] # Track!None
      BY DEF Track!None
    <3> QED BY <1>f, <1>d, <1>l, <3>1 DEF Works
  <2>3. \A u, v \in Worker :
          work'[u].at \in {"writes", "dropped"} /\ work'[v].at \in {"writes", "dropped"} => u = v
    BY <1>f, <1>d DEF Works
  <2> QED BY <1>d, <2>1, <2>2, <2>3 DEF Works
<1>2. Path'
  <2>1. lessonStatus' \in [Track!Unit -> {"locked", "available", "completed"}]
    BY <1>c, <1>f DEF Path
  <2>2. /\ results' \subseteq Track!Unit
        /\ \A n \in results' : n = 1 \/ n - 1 \in results'
    BY <1>b, <1>c, <1>f DEF Path
  <2>3. \A t \in tree' \union look' : Old(t)'
    BY <1>c, <1>f DEF Path, Old
  <2>4. ASSUME NEW n \in Track!Unit
        PROVE  lessonStatus'[n] = IF n \in results' THEN "completed"
                                  ELSE IF n = 1 \/ n - 1 \in results' THEN "available" ELSE "locked"
    <3>1. /\ n \in Nat /\ l \in Nat /\ n # 0 /\ l # 0
      BY <1>b DEF Track!Unit
    <3>2. CASE n = l
      BY <3>2, <1>c
    <3>3. CASE n = l + 1
      <4>1. n - 1 = l /\ n # l /\ n # 1
        BY <3>1, <3>3
      <4>2. n \notin results
        BY <1>b, <1>f, <4>1 DEF Path
      <4> QED BY <1>c, <3>3, <4>1, <4>2
    <3>4. CASE n # l /\ n # l + 1
      <4>1. n - 1 # l
        BY <3>1, <3>4
      <4>2. lessonStatus'[n] = lessonStatus[n] /\ (n \in results' <=> n \in results)
            /\ (n - 1 \in results' <=> n - 1 \in results)
        BY <1>c, <3>4, <4>1
      <4> QED BY <1>f, <4>2 DEF Path, Track!PathNeverStalls
    <3> QED BY <3>2, <3>3, <3>4
  <2> QED BY <2>1, <2>2, <2>3, <2>4 DEF Path, Track!PathNeverStalls
<1>3. Progressing'
  <2>1. progress' = [m \in Track!Unit |-> progress'[m]] /\ progress'[l] = "completed"
        /\ \A m \in Track!Unit \ {l} : progress'[m] = progress[m]
    BY <1>f, <1>b, <1>c DEF Progressing
  <2>2. ~replayed' => \A m \in results' : progress'[m] = "completed"
    <3>1. results \subseteq Track!Unit
      BY <1>f DEF Path
    <3> QED BY <1>f, <1>c, <2>1, <3>1 DEF Progressing
  <2>3. ~misled' /\ Exam \subseteq results' => examDone' \/ Exam = {}
    <3>1. SUFFICES ASSUME ~misled, Exam \subseteq results \union {l}, l \in Exam PROVE examDone'
      BY <1>c, <1>f DEF Progressing
    <3>2. \A e \in Exam : e = l \/ lessonStatus[e] = "completed"
      BY <3>1, <1>f DEF Path, Track!PathNeverStalls
    <3>3. work[w].exam
      BY <1>b, <3>1, <3>2 DEF Track!AllDone
    <3> QED BY <3>3
  <2>4. {misled', replayed', reopened', lost', examDone'} \subseteq BOOLEAN
    BY <1>f, <1>a, <1>e DEF Progressing, HoldRow
  <2> QED BY <2>1, <2>2, <2>3, <2>4 DEF Progressing
<1>4. Graduating'
  <2>1. \A v \in Worker : work[v].at = "pay" => work'[v] = work[v]
    BY <1>d
  <2>2. trackRow'.finished /\ ~lost' => graduation' = 1 \/ \E v \in Worker : work'[v].at = "pay"
    <3>1. trackRow'.finished => trackRow.finished
      BY <1>a DEF Fits
    <3> QED BY <1>f, <2>1, <3>1 DEF Graduating
  <2>3. \E v \in Worker : work'[v].at \in {"check", "finish"}
    BY <1>d
  <2>4. UNCHANGED <<graduation, misled, replayed, lost>>
    OBVIOUS
  <2> HIDE DEF Track!Commit
  <2>5. graduation' = 1 => trackRow'.finished \/ reopened'
    BY <1>f, <1>e, <2>4 DEF Graduating
  <2>6. ~reopened' => (trackRow'.finished <=> trackRow'.status = "completed")
    BY <1>f, <1>e DEF Graduating
  <2> QED BY <1>f, <1>e, <2>2, <2>3, <2>4, <2>5, <2>6 DEF Graduating
<1> QED BY <1>1, <1>2, <1>3, <1>4 DEF TrackInv

LEMMA CheckStep ==
  ASSUME TrackInv, NEW w \in Worker, Track!Check(w) \/ Track!Finish(w) \/ Track!Pay(w) \/ Track!Stop(w),
         Track!TrackAssumption
  PROVE  TrackInv'
<1> USE DEF Track!At
<1>f. Works /\ Path /\ Progressing /\ Graduating /\ trackRow \in RoadmapRow
  BY DEF TrackInv, Graduating
<1>r. PICK r : r = work'[w]
  OBVIOUS
<1>w. /\ work' = [work EXCEPT ![w] = r] /\ work'[w] = r
      /\ \A v \in Worker \ {w} : work'[v] = work[v]
  BY <1>r, <1>f DEF Works, Track!Check, Track!Finish, Track!Pay, Track!Stop
<1>u. /\ UNCHANGED <<lessonStatus, progress, results, examDone, look, misled, replayed, reopened>>
      /\ trackRow' \in RoadmapRow /\ (trackRow.finished => trackRow'.finished)
      /\ (trackRow.finished => trackRow' = trackRow)
  <2>1. CASE Track!Finish(w)
    BY <1>f, <2>1 DEF RoadmapRow, Track!Finish, Track!MayFinish
  <2>2. CASE Track!Check(w)
    BY <1>f, <2>2 DEF Track!Check
  <2>3. CASE Track!Pay(w)
    BY <1>f, <2>3 DEF Track!Pay
  <2>4. CASE Track!Stop(w)
    BY <1>f, <2>4 DEF Track!Stop
  <2> QED BY <2>1, <2>2, <2>3, <2>4
<1>a. Fits(work[w]) /\ (work[w].at \in {"check", "finish", "pay"} => work[w] \in WaitRow)
  BY <1>f DEF Works, Fits, HoldRow, Track!None
<1>b. \/ r = Track!None
      \/ /\ r \in WaitRow /\ r.lesson = work[w].lesson /\ work[w] # Track!None
         /\ r.at \in {"finish", "pay"} /\ (r.at = "pay" => trackRow'.finished)
  <2>1. CASE Track!Check(w)
    <3>1. work[w] \in WaitRow /\ work[w] # Track!None
      BY <1>a, <2>1 DEF Track!Check, Track!None
    <3>2. r = Track!None \/ r = [work[w] EXCEPT !.at = "finish"]
      BY <1>r, <1>f, <2>1 DEF Track!Check, Works
    <3> QED BY <3>1, <3>2 DEF WaitRow
  <2>2. CASE Track!Finish(w)
    <3>1. work[w] \in WaitRow /\ work[w] # Track!None /\ trackRow'.finished
      BY <1>a, <2>2 DEF Track!Finish, Track!MayFinish, Track!None
    <3>2. r = Track!None \/ r = [work[w] EXCEPT !.at = "pay"]
      BY <1>r, <1>f, <2>2 DEF Track!Finish, Works
    <3> QED BY <3>1, <3>2 DEF WaitRow
  <2>3. CASE Track!Pay(w) \/ Track!Stop(w)
    BY <1>r, <1>f, <2>3 DEF Track!Pay, Track!Stop, Works
  <2> QED BY <2>1, <2>2, <2>3
<1>1. Works'
  <2>1. Fits(r)'
    BY <1>b DEF Fits, Track!None
  <2>2. r # Track!None => \A v \in Worker \ {w} : work[v] # Track!None => work[v].lesson # r.lesson
    BY <1>f, <1>b DEF Works
  <2>3. r.at \notin {"writes", "dropped"}
    BY <1>b DEF Track!None
  <2> QED BY <1>f, <1>w, <1>u, <2>1, <2>2, <2>3, WorkGoesOn
<1>2. Path'
  <2>1. tree' \subseteq tree
    BY DEF Track!Check, Track!Finish, Track!Pay, Track!Stop
  <2> QED BY <1>f, <1>u, <2>1, PathStays
<1>3. Progressing'
  <2>1. lost \in BOOLEAN /\ lost' \in BOOLEAN
    BY <1>f DEF Progressing, Track!Check, Track!Finish, Track!Pay, Track!Stop
  <2> QED BY <1>f, <1>u, <2>1 DEF Progressing
<1>4. Graduating'
  <2>1. CASE Track!Check(w)
    <3>1. \A v \in Worker : work[v].at = "pay" => work'[v] = work[v]
      BY <1>w, <2>1 DEF Track!Check
    <3>2. ASSUME results = Track!Unit, ~misled, ~replayed, ~lost, ~trackRow.finished
          PROVE  \E v \in Worker : work'[v].at \in {"check", "finish"}
      <4>1. Exam # {} => examDone
        BY <1>f, <3>2 DEF Progressing, Track!TrackAssumption, Track!Unit
      <4>2. Track!IsComplete
        BY <1>f, <3>2, <4>1 DEF Progressing, Track!IsComplete, Track!TrackAssumption, Track!Unit
      <4>3. r = [work[w] EXCEPT !.at = "finish"]
        BY <1>r, <1>f, <2>1, <4>2 DEF Track!Check, Works
      <4>4. work[w] \in WaitRow
        BY <1>a, <2>1 DEF Track!Check
      <4>5. r.at = "finish"
        BY <4>3, <4>4 DEF WaitRow
      <4> QED BY <1>w, <4>5
    <3> QED BY <1>f, <2>1, <3>1, <3>2 DEF Graduating, Track!Check, Progressing
  <2>2. CASE Track!Finish(w)
    <3>1. CASE trackRow.finished
      <4>1. \A v \in Worker : work[v].at = "pay" => work'[v] = work[v]
        BY <1>w, <2>2 DEF Track!Finish
      <4> QED BY <1>f, <2>2, <3>1, <4>1 DEF Graduating, Track!Finish, Track!MayFinish
    <3>2. CASE ~trackRow.finished
      <4>1. r = [work[w] EXCEPT !.at = "pay"] /\ work[w] \in WaitRow
        BY <1>r, <1>f, <1>a, <2>2, <3>2 DEF Track!Finish, Works, Track!MayFinish
      <4>2. r.at = "pay"
        BY <4>1 DEF WaitRow
      <4>3. trackRow' = [status |-> "completed", finished |-> TRUE]
        BY <2>2, <3>2 DEF Track!Finish, Track!MayFinish
      <4> QED BY <1>f, <1>u, <1>w, <2>2, <4>2, <4>3 DEF Graduating, Track!Finish
    <3> QED BY <3>1, <3>2
  <2>3. CASE Track!Pay(w)
    <3>1. (trackRow.finished \/ reopened) /\ graduation' = 1
      BY <1>a, <1>f, <2>3 DEF Fits, Track!Pay, Track!Granted, Graduating
    <3>2. UNCHANGED <<trackRow, results, misled, replayed, reopened, lost>>
      BY <2>3 DEF Track!Pay
    <3>3. \A v \in Worker : work[v].at \in {"check", "finish"} => work'[v] = work[v]
      BY <1>w, <2>3 DEF Track!Pay
    <3> QED BY <1>f, <3>1, <3>2, <3>3 DEF Graduating
  <2>4. CASE Track!Stop(w)
    <3>1. ~lost' => ~lost /\ \A v \in Worker : work[v].at \in {"check", "finish", "pay"} => work'[v] = work[v]
      BY <1>w, <2>4 DEF Track!Stop
    <3> QED BY <1>f, <2>4, <3>1 DEF Graduating, Track!Stop
  <2> QED BY <2>1, <2>2, <2>3, <2>4
<1> QED BY <1>1, <1>2, <1>3, <1>4 DEF TrackInv

LEMMA TrackStep ==
  ASSUME TrackInv, [Track!Next]_Track!trackVars, Track!TrackAssumption PROVE TrackInv'
<1>f. Works /\ Path /\ Progressing /\ Graduating /\ trackRow \in RoadmapRow
  BY DEF TrackInv, Graduating
<1>1. CASE Track!Look \/ Track!Store \/ Track!Expire
  <2>1. /\ UNCHANGED <<lessonStatus, progress, results, examDone, work, trackRow, graduation,
                      misled, replayed, reopened, lost>>
        /\ tree' \union look' \subseteq tree \union look \union {Track!Rows}
    BY <1>1 DEF Track!Look, Track!Store, Track!Expire
  <2>2. Works'
    BY <1>f, <2>1 DEF Works, Fits, Track!AllDone
  <2>3. Path'
    BY <1>f, <2>1, PathStays
  <2>4. Progressing' /\ Graduating'
    BY <1>f, <2>1 DEF Progressing, Graduating
  <2> QED BY <2>2, <2>3, <2>4 DEF TrackInv
<1>2. CASE UNCHANGED Track!trackVars
  <2>1. Works' /\ Path'
    BY <1>f, <1>2 DEF Works, Fits, Track!AllDone, Path, Old, Track!PathNeverStalls, Track!trackVars
  <2>2. Progressing' /\ Graduating'
    BY <1>f, <1>2 DEF Progressing, Graduating, Track!trackVars
  <2> QED BY <2>1, <2>2 DEF TrackInv
<1> QED BY <1>1, <1>2, StartStep, CompleteStep, AdvanceStep, DropStep, CommitStep, CheckStep DEF Track!Next

(* Whatever trees the cache keeps or a reader stores late, the lesson after *)
(* a completed one can be played, and no other (afterComplete of            *)
(* LessonUnlockService with loadRoadmapTreeCached), for a roadmap of any    *)
(* length and any number of completions in progress.                        *)
THEOREM PathsNeverStall == ASSUME Track!TrackAssumption PROVE Track!Spec => []Track!PathNeverStalls
<1>1. TrackInv => Track!PathNeverStalls
  BY DEF TrackInv, Path
<1> QED BY <1>1, TrackStart, TrackStep, PTL DEF Track!Spec

(* The graduation is paid at most once, and only for a roadmap that is or    *)
(* was finished; and once all lessons have a result and nothing is in       *)
(* progress, the roadmap is finished and it was paid, whatever completions  *)
(* saved of an older row, unless a stale tree, a replay or a stop came in   *)
(* between (RoadmapCompletionService.checkRoadmapCompletion and the save of *)
(* the roadmap in LessonUnlockService.afterComplete).                       *)
THEOREM GraduatesOnce == ASSUME Track!TrackAssumption PROVE Track!Spec => []Track!GraduatesWhenDone
<1>1. TrackInv => Track!GraduatesWhenDone
  BY DEF TrackInv, Graduating, Track!GraduatesWhenDone, Track!None
<1> QED BY <1>1, TrackStart, TrackStep, PTL DEF Track!Spec
-----------------------------------------------------------------------------
(* The daily streak of one learner.                                        *)
CONSTANTS MaxDay, MaxLag, MaxFreezes, ClientKey, RestoreDays, MonthLength
VARIABLES today, status, streak, longest, last, protected, recovery, freezes, paid,
          pending, bought, done, overtaken
Daily == INSTANCE Streak

(* A day with a completed lesson keeps its row, whatever waits for it.     *)
StreakRows ==
  /\ today \in Nat \ {0} /\ today <= MaxDay
  /\ status \in [Daily!Days -> Daily!Status]
  /\ streak \in Nat /\ bought \in Nat /\ protected \in Nat
  /\ last \in Daily!Days \union {Daily!NoDay} /\ recovery \in Int
  /\ pending \subseteq 1 .. today /\ done \subseteq Daily!Days
DoneCounts ==
  /\ \A d \in done : status[d] \in {"completed", "recovered"}
  /\ streak <= Cardinality(done) + bought
StreakInv == StreakRows /\ DoneCounts

LEMMA DoneIsFinite ==
  ASSUME Daily!StreakAssumption, NEW S \in SUBSET Daily!Days
  PROVE  IsFiniteSet(S) /\ Cardinality(S) \in Nat
<1>1. IsFiniteSet(-2 .. MaxDay)
  BY FS_Interval DEF Daily!StreakAssumption
<1> QED BY <1>1, FS_Subset, FS_CardinalityType DEF Daily!Days

LEMMA StreakStart == ASSUME Daily!StreakAssumption, Daily!Init PROVE StreakInv
<1>1. Cardinality({}) = 0
  BY FS_EmptySet
<1> QED BY <1>1 DEF Daily!Init, Daily!StreakAssumption, StreakInv, StreakRows, DoneCounts, Daily!Status,
              Daily!Covered, Daily!Days, Daily!NoDay

(* A lesson that qualifies its day adds to the streak at most that day.    *)
LEMMA QualifyStep ==
  ASSUME Daily!StreakAssumption, StreakInv, NEW d \in pending, Daily!Qualify(d)
  PROVE  StreakInv'
<1> USE DEF Daily!Qualify
<1>1. d \in Daily!Days /\ d \in Int /\ d \in 1 .. today
  BY DEF StreakInv, StreakRows, Daily!Days, Daily!StreakAssumption
<1>2. IsFiniteSet(done) /\ Cardinality(done) \in Nat
  BY DoneIsFinite DEF StreakInv, StreakRows
<1>3. /\ done' = done \union {d}
      /\ Cardinality(done') = IF d \in done THEN Cardinality(done) ELSE Cardinality(done) + 1
  BY <1>2, FS_AddElement
<1>4. CASE status[d] \in {"completed", "recovered"}
  BY <1>1, <1>2, <1>3, <1>4 DEF StreakInv, StreakRows, DoneCounts
<1>5. CASE status[d] \notin {"completed", "recovered"}
  <2>1. d \notin done
    BY <1>5 DEF StreakInv, DoneCounts
  <2>2. /\ status' = [status EXCEPT ![d] = "completed"] /\ last' = d
        /\ protected' = 0 /\ recovery' = Daily!NoDay
        /\ streak' \in {streak, streak + 1, 1}
    BY <1>5 DEF Daily!Extended
  <2>3. StreakRows'
    BY <1>1, <1>3, <2>2 DEF StreakInv, StreakRows, Daily!Status, Daily!Covered, Daily!NoDay
  <2>4. DoneCounts'
    <3>1. streak' <= Cardinality(done') + bought'
      BY <1>2, <1>3, <2>1, <2>2 DEF StreakInv, StreakRows, DoneCounts
    <3> QED BY <1>1, <1>3, <2>2, <3>1 DEF StreakInv, StreakRows, DoneCounts
  <2> QED BY <2>3, <2>4 DEF StreakInv
<1> QED BY <1>4, <1>5

LEMMA RestoreStep ==
  ASSUME Daily!StreakAssumption, StreakInv, NEW n \in RestoreDays, NEW key \in ClientKey, Daily!Restore(n, key)
  PROVE  StreakInv'
<1> USE DEF Daily!Restore
<1>1. n \in Nat /\ Cardinality(done) \in Nat
  BY DoneIsFinite DEF StreakInv, StreakRows, Daily!StreakAssumption
<1>2. StreakRows'
  BY <1>1 DEF StreakInv, StreakRows, Daily!Status, Daily!Covered, Daily!NoDay, Daily!Days, Daily!Restored,
     Daily!StreakAssumption
<1>3. DoneCounts'
  BY <1>1 DEF StreakInv, StreakRows, DoneCounts, Daily!Restored
<1> QED BY <1>2, <1>3 DEF StreakInv

LEMMA CloseStep ==
  ASSUME Daily!StreakAssumption, StreakInv, Daily!Protect \/ Daily!Miss PROVE StreakInv'
<1>f. StreakRows /\ DoneCounts /\ Cardinality(done) \in Nat
  BY DoneIsFinite DEF StreakInv, StreakRows
<1>y. PICK y : y = Daily!Yesterday
  OBVIOUS
<1>1. y \in Daily!Days /\ y \in Int
  BY <1>f, <1>y DEF StreakRows, Daily!Yesterday, Daily!Days, Daily!StreakAssumption
<1>2. y \notin done
  <2>1. status[y] \notin {"completed", "recovered"}
    BY <1>y DEF Daily!Protect, Daily!Miss, Daily!Lapsed, Daily!Covered
  <2> QED BY <1>f, <2>1 DEF DoneCounts
<1>3. /\ \/ status' = [status EXCEPT ![y] = "protected"]
         \/ status' = [status EXCEPT ![y] = "missed"]
      /\ streak' \in {streak, 0} /\ protected' \in {protected + 1, 0}
      /\ recovery' \in {recovery, today + 2} /\ last' \in {last, y}
      /\ UNCHANGED <<today, pending, bought, done>>
  BY <1>y DEF Daily!Protect, Daily!Miss, Daily!RecoveryDays
<1>4. status' \in [Daily!Days -> Daily!Status]
  BY <1>f, <1>1, <1>3 DEF StreakRows, Daily!Status, Daily!Covered
<1>5. StreakRows'
  BY <1>f, <1>1, <1>3, <1>4 DEF StreakRows
<1>6. DoneCounts'
  BY <1>f, <1>1, <1>2, <1>3 DEF StreakRows, DoneCounts
<1> QED BY <1>5, <1>6 DEF StreakInv

LEMMA StreakStep ==
  ASSUME Daily!StreakAssumption, StreakInv, [Daily!Next]_Daily!vars PROVE StreakInv'
<1>1. CASE Daily!NextDay
  <2>1. /\ today' = today + 1 /\ today' <= MaxDay
        /\ UNCHANGED <<status, streak, last, protected, recovery, pending, bought, done>>
    BY <1>1 DEF Daily!NextDay, StreakInv, StreakRows, Daily!StreakAssumption
  <2>2. pending \subseteq 1 .. today'
    BY <2>1 DEF StreakInv, StreakRows
  <2>3. today' \in Nat \ {0}
    BY <2>1 DEF StreakInv, StreakRows
  <2>4. StreakRows'
    BY <2>1, <2>2, <2>3 DEF StreakInv, StreakRows
  <2>5. DoneCounts'
    BY <2>1 DEF StreakInv, DoneCounts
  <2> QED BY <2>4, <2>5 DEF StreakInv
<1>2. CASE Daily!GainFreeze \/ Daily!ComputeDay
  <2>1. /\ UNCHANGED <<today, status, streak, last, protected, recovery, bought, done>>
        /\ pending' \subseteq pending \union {today}
    BY <1>2 DEF Daily!GainFreeze, Daily!ComputeDay
  <2>2. pending' \subseteq 1 .. today
    BY <2>1 DEF StreakInv, StreakRows
  <2> QED BY <2>1, <2>2 DEF StreakInv, StreakRows, DoneCounts
<1>3. ASSUME NEW d \in pending, Daily!Rollback(d) PROVE StreakInv'
  BY <1>3 DEF Daily!Rollback, StreakInv, StreakRows, DoneCounts
<1>4. CASE UNCHANGED Daily!vars
  BY <1>4 DEF Daily!vars, StreakInv, StreakRows, DoneCounts
<1> QED BY <1>1, <1>2, <1>3, <1>4, QualifyStep, RestoreStep, CloseStep DEF Daily!Next, Daily!Tick

(* The streak is at most the days on which a lesson was completed and the   *)
(* days paid for, however late lessons qualify their day, and whatever      *)
(* ticks and restores do to it (qualifyInTx, closeOneUser, restore).        *)
THEOREM StreaksAreEarned == ASSUME Daily!StreakAssumption PROVE Daily!Spec => []Daily!StreakEarned
<1>1. StreakInv => Daily!StreakEarned
  BY DEF StreakInv, DoneCounts, Daily!StreakEarned, Daily!Cardinality, Cardinality
<1> QED BY <1>1, StreakStart, StreakStep, PTL DEF Daily!Spec

(* A covered day stays covered: no later lesson, tick or restore turns it   *)
(* into a missed one.                                                       *)
THEOREM CoveredStays == ASSUME Daily!StreakAssumption PROVE Daily!Spec => [][Daily!StaysCovered]_Daily!vars
<1> USE DEF Daily!StaysCovered
<1>1. ASSUME StreakInv, [Daily!Next]_Daily!vars PROVE [Daily!StaysCovered]_Daily!vars
  <2>r. status \in [Daily!Days -> Daily!Status]
    BY <1>1 DEF StreakInv, StreakRows
  <2>1. ASSUME NEW d \in pending, Daily!Qualify(d) PROVE Daily!StaysCovered
    BY <2>1, <2>r DEF Daily!Qualify, Daily!Covered
  <2>2. ASSUME NEW n \in RestoreDays, NEW key \in ClientKey, Daily!Restore(n, key) PROVE Daily!StaysCovered
    BY <2>2, <2>r DEF Daily!Restore, Daily!Covered
  <2>3. CASE Daily!Protect
    BY <2>3, <2>r DEF Daily!Protect, Daily!Covered
  <2>4. CASE Daily!Miss
    BY <2>4, <2>r DEF Daily!Miss, Daily!Lapsed
  <2>5. ASSUME UNCHANGED status PROVE Daily!StaysCovered
    BY <2>5
  <2>6. CASE Daily!NextDay \/ Daily!GainFreeze \/ Daily!ComputeDay \/ \E d \in pending : Daily!Rollback(d)
    BY <2>6, <2>5 DEF Daily!NextDay, Daily!GainFreeze, Daily!ComputeDay, Daily!Rollback
  <2> QED BY <1>1, <2>1, <2>2, <2>3, <2>4, <2>6 DEF Daily!Next, Daily!Tick, Daily!vars
<1> QED BY <1>1, StreakStart, StreakStep, PTL DEF Daily!Spec

(* As long as no lesson is overtaken: the last day that counts is the last *)
(* that is completed or protected, and nothing is restored after it; the   *)
(* completed days up to it are in the streak, unless a day after it was    *)
(* missed; and the protected days before it are counted.                   *)
Prompt == ~overtaken =>
  /\ last <= today
  /\ last = today => status[today] = "completed" /\ recovery < today
  /\ \A e \in Daily!Days : status[e] \in {"completed", "protected"} => e <= last
CountingDays == ~overtaken =>
  \A c \in Daily!Days :
    (\A e \in c .. last : status[e] = "completed") =>
      \/ streak >= last - c + 1
      \/ \E e \in last + 1 .. today - 1 : status[e] = "missed"
ProtectingDays == ~overtaken =>
  /\ protected <= 3
  /\ streak > bought => \E d \in Int :
                          d \in last - protected .. last /\ (d \in Daily!Days => status[d] # "protected")
PromptInv == StreakInv /\ Prompt /\ CountingDays /\ ProtectingDays /\ overtaken \in BOOLEAN

LEMMA PromptStart == ASSUME Daily!StreakAssumption, Daily!Init PROVE PromptInv
<1>1. StreakInv
  BY StreakStart
<1>2. Prompt
  BY DEF Daily!Init, Prompt, Daily!NoDay
<1>3. CountingDays
  BY DEF Daily!Init, CountingDays, Daily!NoDay, Daily!Days
<1>4. ProtectingDays
  BY DEF Daily!Init, ProtectingDays
<1> QED BY <1>1, <1>2, <1>3, <1>4 DEF Daily!Init, PromptInv

LEMMA PromptQualify ==
  ASSUME Daily!StreakAssumption, PromptInv, NEW d \in pending, Daily!Qualify(d)
  PROVE  Prompt' /\ CountingDays' /\ ProtectingDays'
<1> USE DEF Daily!Qualify
<1>f. StreakRows /\ Prompt /\ CountingDays /\ ProtectingDays
  BY DEF PromptInv, StreakInv
<1>1. d \in 1 .. today /\ d \in Daily!Days /\ d \in Int /\ today \in Nat
  BY <1>f DEF StreakRows, Daily!Days, Daily!StreakAssumption
<1>2. CASE status[d] \in {"completed", "recovered"}
  BY <1>f, <1>2 DEF Prompt, CountingDays, ProtectingDays
<1>3. CASE status[d] \notin {"completed", "recovered"}
  <2> SUFFICES ASSUME ~overtaken' PROVE Prompt' /\ CountingDays' /\ ProtectingDays'
    BY DEF Prompt, CountingDays, ProtectingDays
  <2>0. ~overtaken /\ ~Daily!Overtaken(d)
    BY <1>3
  <2>1. last # d /\ last < d /\ last \in Int /\ status[d] # "missed"
    BY <1>f, <1>1, <2>0 DEF Daily!Overtaken, StreakRows, Daily!Days, Daily!NoDay
  <2>2. /\ last' = d /\ today' = today /\ bought' = bought /\ protected' = 0 /\ recovery' = -3
        /\ streak' = IF last = d - 1 THEN streak + 1 ELSE 1
    BY <1>3, <2>1 DEF Daily!Extended, Daily!NoDay
  <2>3. /\ status'[d] = "completed" /\ status' = [status EXCEPT ![d] = "completed"]
        /\ \A e \in Daily!Days \ {d} : status'[e] = status[e]
    BY <1>f, <1>1, <1>3 DEF StreakRows
  <2>4. Prompt'
    <3>1. \A e \in Daily!Days : status'[e] \in {"completed", "protected"} => e <= d
      BY <1>f, <1>1, <2>0, <2>1, <2>3 DEF Prompt, Daily!Days
    <3> QED BY <1>1, <2>2, <2>3, <3>1 DEF Prompt
  <2>5. CountingDays'
    <3>1. SUFFICES ASSUME NEW c \in Daily!Days, \A e \in c .. d : status'[e] = "completed"
                   PROVE  \/ streak' >= d - c + 1
                          \/ \E e \in d + 1 .. today - 1 : status'[e] = "missed"
      BY <2>2 DEF CountingDays
    <3>2. c \in Int /\ streak \in Nat
      BY <1>f DEF Daily!Days, StreakRows
    <3>3. CASE c >= d
      BY <1>1, <2>2, <3>2, <3>3
    <3>4. CASE c < d
      <4>1. d - 1 \in c .. d /\ d - 1 \in Daily!Days /\ status[d - 1] = "completed"
        BY <1>1, <2>3, <3>1, <3>2, <3>4 DEF Daily!Days, Daily!StreakAssumption
      <4>2. last = d - 1
        BY <1>f, <1>1, <2>0, <2>1, <4>1 DEF Prompt
      <4>3. \A e \in c .. last : status[e] = "completed"
        BY <1>1, <2>1, <2>3, <3>1, <3>2, <4>2 DEF Daily!Days, Daily!StreakAssumption
      <4>4. CASE streak >= last - c + 1
        BY <1>1, <2>2, <3>2, <4>2, <4>4
      <4>5. CASE \E e \in last + 1 .. today - 1 : status[e] = "missed"
        <5>1. PICK e \in last + 1 .. today - 1 : status[e] = "missed"
          BY <4>5
        <5>2. e \in d + 1 .. today - 1 /\ e \in Daily!Days /\ e # d
          <6>1. e \in d .. today - 1 /\ today <= MaxDay
            BY <1>1, <1>f, <4>2, <5>1 DEF StreakRows
          <6>2. e # d
            BY <2>1, <5>1
          <6> QED BY <1>1, <6>1, <6>2 DEF Daily!Days, Daily!StreakAssumption
        <5>3. status'[e] = "missed"
          BY <2>3, <5>1, <5>2
        <5> QED BY <5>2, <5>3
      <4> QED BY <1>f, <2>0, <4>3, <4>4, <4>5 DEF CountingDays
    <3> QED BY <1>1, <3>2, <3>3, <3>4
  <2>6. ProtectingDays'
    <3>1. d \in d - 0 .. d
      BY <1>1
    <3> QED BY <1>1, <2>2, <2>3, <3>1 DEF ProtectingDays
  <2> QED BY <2>4, <2>5, <2>6
<1> QED BY <1>2, <1>3

LEMMA PromptRestore ==
  ASSUME Daily!StreakAssumption, PromptInv, NEW n \in RestoreDays, NEW key \in ClientKey, Daily!Restore(n, key)
  PROVE  Prompt' /\ CountingDays' /\ ProtectingDays'
<1> USE DEF Daily!Restore
<1> SUFFICES ASSUME ~overtaken PROVE Prompt' /\ CountingDays' /\ ProtectingDays'
  BY DEF Prompt, CountingDays, ProtectingDays
<1>f. StreakRows /\ Prompt /\ CountingDays /\ ProtectingDays
  BY DEF PromptInv, StreakInv
<1>1. /\ n \in {1, 2, 3} /\ today \in Nat \ {0} /\ last \in Int /\ recovery \in Int /\ streak \in Nat
      /\ bought \in Nat /\ protected \in Nat /\ today - 1 \in Daily!Days
  BY <1>f DEF StreakRows, Daily!StreakAssumption, Daily!Days, Daily!NoDay
<1>2. last < today
  BY <1>f, <1>1 DEF Prompt, Daily!WindowOpen, Daily!GapRestorable
<1>3. /\ last' = today - 1 /\ today' = today /\ recovery' = -3 /\ protected' = protected /\ pending' = pending
      /\ streak' = streak + n /\ bought' = bought + n
      /\ status' = [e \in Daily!Days |-> IF e \in Daily!RecoveredDays(n) THEN "recovered" ELSE status[e]]
  BY DEF Daily!Restored, Daily!NoDay
<1>4. /\ \A e \in Daily!Days : status'[e] = status[e] \/ status'[e] = "recovered"
      /\ last # today - 1 => status'[today - 1] = "recovered"
      /\ last = today - 1 /\ n # 1 => status'[today - 2] = "recovered"
  <2>1. last # today - 1 => today - 1 \in Daily!RecoveredDays(n)
    BY <1>1 DEF Daily!RecoveredDays
  <2>2. last = today - 1 /\ n # 1 => today - 2 \in Daily!RecoveredDays(n)
    BY <1>1 DEF Daily!RecoveredDays
  <2>3. today - 2 \in Daily!Days
    BY <1>1, <1>f DEF StreakRows, Daily!Days, Daily!StreakAssumption
  <2> QED BY <1>1, <1>3, <2>1, <2>2, <2>3
<1>5. Prompt'
  <2>1. \A e \in Daily!Days : status'[e] \in {"completed", "protected"} => e <= last'
    BY <1>f, <1>1, <1>2, <1>3, <1>4 DEF Prompt, Daily!Days
  <2>2. last' <= today /\ last' # today
    BY <1>1, <1>3
  <2> QED BY <1>f, <1>3, <2>1, <2>2 DEF Prompt
<1>6. CountingDays'
  <2>1. SUFFICES ASSUME NEW c \in Daily!Days, \A e \in c .. today - 1 : status'[e] = "completed"
                 PROVE  streak' >= today - 1 - c + 1
    BY <1>3 DEF CountingDays
  <2>2. c \in Int
    BY DEF Daily!Days
  <2>3. CASE c >= today
    BY <1>1, <1>3, <2>2, <2>3
  <2>4. CASE c = today - 1
    BY <1>1, <1>3, <2>2, <2>4
  <2>5. CASE c < today - 1
    <3>1. today - 1 \in c .. today - 1 /\ today - 2 \in c .. today - 1
      BY <1>1, <2>2, <2>5
    <3>2. status'[today - 1] = "completed" /\ status'[today - 2] = "completed"
      BY <2>1, <3>1
    <3>3. last = today - 1
      BY <1>4, <3>2
    <3>4. n = 1
      BY <1>4, <3>2, <3>3
    <3>5. Daily!RecoveredDays(n) = {}
      BY <1>1, <3>3, <3>4 DEF Daily!RecoveredDays
    <3>6. \A e \in c .. last : status[e] = "completed"
      <4>1. \A e \in Daily!Days : status'[e] = status[e]
        BY <1>3, <3>5
      <4>2. \A e \in c .. last : e \in Daily!Days /\ e \in c .. today - 1
        BY <1>1, <2>2, <3>3 DEF Daily!Days, Daily!StreakAssumption
      <4> QED BY <2>1, <4>1, <4>2
    <3>7. streak >= last - c + 1
      <4>1. ~ \E e \in last + 1 .. today - 1 : status[e] = "missed"
        BY <1>1, <3>3
      <4> QED BY <1>f, <3>6, <4>1 DEF CountingDays
    <3> QED BY <1>1, <1>3, <2>2, <3>3, <3>4, <3>7
  <2> QED BY <1>1, <2>2, <2>3, <2>4, <2>5
<1>7. ProtectingDays'
  <2>1. streak' > bought' => streak > bought
    BY <1>1, <1>3
  <2>2. CASE last # today - 1
    <3>1. today - 1 \in last' - protected' .. last'
      BY <1>1, <1>3
    <3> QED BY <1>f, <1>1, <1>3, <1>4, <2>2, <3>1 DEF ProtectingDays
  <2>3. CASE last = today - 1
    BY <1>f, <1>3, <1>4, <2>1, <2>3 DEF ProtectingDays
  <2> QED BY <2>2, <2>3
<1> QED BY <1>5, <1>6, <1>7

LEMMA PromptClose ==
  ASSUME Daily!StreakAssumption, PromptInv, Daily!Protect \/ Daily!Miss
  PROVE  Prompt' /\ CountingDays' /\ ProtectingDays'
<1> SUFFICES ASSUME ~overtaken PROVE Prompt' /\ CountingDays' /\ ProtectingDays'
  BY DEF Prompt, CountingDays, ProtectingDays, Daily!Protect, Daily!Miss
<1>f. StreakRows /\ Prompt /\ CountingDays /\ ProtectingDays
  BY DEF PromptInv, StreakInv
<1>y. PICK y : y = today - 1
  OBVIOUS
<1>1. /\ today \in Nat \ {0} /\ y \in Daily!Days /\ y \in Nat /\ last \in Int /\ streak \in Nat
      /\ bought \in Nat /\ protected \in Nat
  BY <1>f, <1>y DEF StreakRows, Daily!StreakAssumption, Daily!Days, Daily!NoDay
<1>2. last < y /\ today' = today /\ pending' = pending /\ bought' = bought
  BY <1>y DEF Daily!Protect, Daily!Miss, Daily!Lapsed, Daily!Yesterday
<1>3. CASE Daily!Protect
  <2>1. /\ last' = y /\ streak' = streak /\ protected' = protected + 1 /\ protected < 3
        /\ status' = [status EXCEPT ![y] = "protected"]
    BY <1>y, <1>3 DEF Daily!Protect, Daily!Protects, Daily!Yesterday, Daily!MaxConsecutiveProtected
  <2>2. /\ status'[y] = "protected"
        /\ \A e \in Daily!Days \ {y} : status'[e] = status[e]
    BY <1>f, <1>1, <2>1 DEF StreakRows
  <2>3. Prompt'
    <3>1. \A e \in Daily!Days : status'[e] \in {"completed", "protected"} => e <= y
      BY <1>f, <1>1, <1>2, <2>2 DEF Prompt, Daily!Days
    <3>2. y <= today /\ y # today
      BY <1>1, <1>y
    <3> QED BY <1>f, <1>2, <2>1, <3>1, <3>2 DEF Prompt
  <2>4. CountingDays'
    <3>1. SUFFICES ASSUME NEW c \in Daily!Days, \A e \in c .. y : status'[e] = "completed"
                   PROVE  streak >= y - c + 1
      BY <2>1 DEF CountingDays
    <3>2. c \in Int /\ ~(y \in c .. y)
      BY <2>2, <3>1 DEF Daily!Days
    <3>3. c > y
      BY <1>1, <3>2
    <3> QED BY <1>1, <3>2, <3>3
  <2>5. ProtectingDays'
    <3>1. SUFFICES ASSUME streak > bought
                   PROVE  \E d \in Int :
                            d \in y - (protected + 1) .. y /\ (d \in Daily!Days => status'[d] # "protected")
      BY <1>1, <1>2, <2>1 DEF ProtectingDays
    <3>2. PICK d \in Int :
            d \in last - protected .. last /\ (d \in Daily!Days => status[d] # "protected")
      BY <1>f, <3>1 DEF ProtectingDays
    <3>3. d \in Int /\ d # y
      BY <1>1, <1>2, <3>2
    <3>4. CASE last = y - 1
      <4>1. d \in y - (protected + 1) .. y
        BY <1>1, <3>2, <3>3, <3>4
      <4> QED BY <2>2, <3>2, <3>3, <4>1
    <3>5. CASE last < y - 1
      <4>1. /\ y - 1 \in Daily!Days /\ y - 1 \in y - (protected + 1) .. y /\ y - 1 # y
            /\ status[y - 1] # "protected"
        BY <1>f, <1>1, <3>5 DEF Prompt, StreakRows, Daily!Days, Daily!StreakAssumption, Daily!NoDay
      <4> QED BY <2>2, <4>1
    <3> QED BY <1>1, <1>2, <3>4, <3>5
  <2> QED BY <2>3, <2>4, <2>5
<1>4. CASE Daily!Miss
  <2>1. /\ last' = last /\ streak' = 0 /\ protected' = 0
        /\ status' = [status EXCEPT ![y] = "missed"]
    BY <1>y, <1>4 DEF Daily!Miss, Daily!Yesterday
  <2>2. \A e \in Daily!Days : status'[e] = status[e] \/ status'[e] = "missed"
    BY <1>f, <1>1, <2>1 DEF StreakRows
  <2>3. Prompt'
    BY <1>f, <1>1, <1>2, <1>y, <2>1, <2>2 DEF Prompt
  <2>4. CountingDays'
    <3>1. y \in last' + 1 .. today' - 1 /\ status'[y] = "missed"
      BY <1>f, <1>1, <1>2, <1>y, <2>1 DEF StreakRows
    <3> QED BY <3>1 DEF CountingDays
  <2>5. ProtectingDays'
    BY <1>1, <1>2, <2>1 DEF ProtectingDays
  <2> QED BY <2>3, <2>4, <2>5
<1> QED BY <1>3, <1>4

LEMMA PromptStep ==
  ASSUME Daily!StreakAssumption, PromptInv, [Daily!Next]_Daily!vars PROVE PromptInv'
<1>f. StreakInv /\ StreakRows /\ Prompt /\ CountingDays /\ ProtectingDays
  BY DEF PromptInv, StreakInv
<1>0. StreakInv' /\ overtaken' \in BOOLEAN
  <2>1. \/ overtaken' = overtaken
        \/ \E d \in pending : overtaken' = (overtaken \/ Daily!Overtaken(d))
    BY DEF Daily!Next, Daily!NextDay, Daily!GainFreeze, Daily!ComputeDay, Daily!Qualify, Daily!Rollback,
           Daily!Restore, Daily!Tick, Daily!Protect, Daily!Miss, Daily!vars
  <2> QED BY <1>f, <2>1, StreakStep DEF PromptInv
<1>1. CASE Daily!NextDay
  <2>1. /\ today' = today + 1 /\ today \in Nat /\ last \in Int /\ streak \in Nat
        /\ UNCHANGED <<status, streak, last, protected, recovery, bought, overtaken>>
    BY <1>1, <1>f DEF Daily!NextDay, StreakRows, Daily!Days, Daily!NoDay
  <2>2. \A e \in last + 1 .. today - 1 : e \in last + 1 .. today' - 1
    BY <2>1
  <2>3. Prompt'
    BY <1>f, <2>1 DEF Prompt
  <2>4. CountingDays'
    BY <1>f, <2>1, <2>2 DEF CountingDays
  <2>5. ProtectingDays'
    BY <1>f, <2>1 DEF ProtectingDays
  <2> QED BY <1>0, <2>3, <2>4, <2>5 DEF PromptInv
<1>2. CASE Daily!GainFreeze \/ Daily!ComputeDay \/ (\E d \in pending : Daily!Rollback(d)) \/ UNCHANGED Daily!vars
  <2>1. UNCHANGED <<today, status, streak, last, protected, recovery, bought, overtaken>>
    BY <1>2 DEF Daily!GainFreeze, Daily!ComputeDay, Daily!Rollback, Daily!vars
  <2>2. Prompt' /\ CountingDays' /\ ProtectingDays'
    BY <1>f, <2>1 DEF Prompt, CountingDays, ProtectingDays
  <2> QED BY <1>0, <2>2 DEF PromptInv
<1> QED BY <1>0, <1>1, <1>2, PromptQualify, PromptRestore, PromptClose DEF PromptInv, Daily!Next, Daily!Tick

(* However long lessons wait for the lock: completed days that follow one   *)
(* another up to yesterday or today are all in the streak, unless a lesson  *)
(* was overtaken by the tick or by a later day (qualifyInTx and restore).   *)
THEOREM EveryDayIsCounted ==
  ASSUME Daily!StreakAssumption PROVE Daily!Spec => []Daily!EveryDayCounts
<1>1. PromptInv => Daily!EveryDayCounts
  <2> SUFFICES ASSUME PromptInv, ~overtaken, last >= today - 1, NEW d \in Daily!Days,
                      \A e \in d .. last : status[e] = "completed"
               PROVE  streak >= last - d + 1
    BY DEF Daily!EveryDayCounts, Daily!Yesterday
  <2>1. last \in Int /\ today \in Nat
    BY DEF PromptInv, StreakInv, StreakRows, Daily!Days, Daily!NoDay
  <2>2. ~ \E e \in last + 1 .. today - 1 : status[e] = "missed"
    BY <2>1
  <2> QED BY <2>2 DEF PromptInv, CountingDays
<1> QED BY <1>1, PromptStart, PromptStep, PTL DEF Daily!Spec

(* Nor do freezes carry a streak over more than MAX_CONSECUTIVE_PROTECTED   *)
(* days in a row, unless restores paid for it (closeOneUser), or a lesson   *)
(* was overtaken.                                                           *)
THEOREM ProtectionIsBounded ==
  ASSUME Daily!StreakAssumption PROVE Daily!Spec => []Daily!ProtectedBounded
<1>1. PromptInv => Daily!ProtectedBounded
  <2>1. SUFFICES ASSUME PromptInv, ~overtaken, streak > bought
                 PROVE  \E d \in last - 3 .. last : d \in Daily!Days => status[d] # "protected"
    BY DEF Daily!ProtectedBounded, Daily!MaxConsecutiveProtected
  <2>2. last \in Int /\ protected \in Nat /\ protected <= 3
    BY <2>1 DEF PromptInv, ProtectingDays, StreakInv, StreakRows, Daily!Days, Daily!NoDay
  <2>3. PICK d \in Int :
          d \in last - protected .. last /\ (d \in Daily!Days => status[d] # "protected")
    BY <2>1 DEF PromptInv, ProtectingDays
  <2>4. d \in last - 3 .. last
    BY <2>2, <2>3
  <2> QED BY <2>3, <2>4
<1> QED BY <1>1, PromptStart, PromptStep, PTL DEF Daily!Spec
=============================================================================
