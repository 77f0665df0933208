------------------------------- MODULE WeekSeal -------------------------------
(***************************************************************************)
(* One learner's weekly plan (weeks.service.ts): lessons completed, tasks  *)
(* moved and skipped, the week sealed and its reward paid, and the close   *)
(* of a week that has passed, as concurrent HTTP calls.                    *)
(*                                                                         *)
(* A lesson is counted in the transaction that completes it, which has the *)
(* wallet's lock from its own reward; a seal locks the plan, then, for its *)
(* reward, the wallet.  All other calls read rows and save objects: TypeORM*)
(* reads the row again, keeps the columns in which the object differs from *)
(* it (Diff) and updates those (Write).                                    *)
(*                                                                         *)
(* Lessons are equally long, so the hours done are the sessions done.      *)
(***************************************************************************)
EXTENDS Integers, FiniteSets, Functions

CONSTANTS
  Session,     \* calls, each made once
  Task,        \* the tasks of the plan, one lesson each
  Mixes,       \* sets of operations, see Ops: one is called
  HoursNeeded, \* lessons that make hoursPlanned * sealHoursRatio
  NoSession

Ops == {"complete", "move", "skip", "close", "crash"}

ASSUME WeekAssumption ==
  /\ NoSession \notin Session /\ IsFiniteSet(Task) /\ Task # {}
  /\ HoursNeeded \in Nat \ {0}
  /\ Mixes \subseteq SUBSET Ops

VARIABLES
  plan,     \* weekly_plans: status, sessionsDone, sessionsPlanned
  task,     \* weekly_tasks: status, and whether completionSourceId is set
  over,     \* the next week has begun
  learned,  \* history: the lessons whose completion has committed
  granted,  \* how often the seal's reward was paid
  planHolder, walletHolder,      \* holders of the two rows' locks
  pc, call, myPlan, myTask, patch, \* each call's program counter and locals
  ops       \* the operations that are called, once and for all

rows  == <<plan, task, learned, granted>>
locks == <<planHolder, walletHolder>>
local == <<call, myPlan, myTask, patch>>
vars  == <<rows, over, locks, pc, local, ops>>

NewPlan == [status |-> "active", done |-> 0, planned |-> Cardinality(Task)]
NewTask == [status |-> "upcoming", source |-> FALSE]
NoCall  == [op |-> "none", task |-> CHOOSE t \in Task : TRUE]

Init ==
  /\ plan = NewPlan
  /\ task = [t \in Task |-> NewTask]
  /\ over = FALSE
  /\ learned = {}
  /\ granted = 0
  /\ planHolder = NoSession /\ walletHolder = NoSession
  /\ pc = [s \in Session |-> "idle"]
  /\ call = [s \in Session |-> NoCall]
  /\ myPlan = [s \in Session |-> NewPlan]
  /\ myTask = [s \in Session |-> NewTask]
  /\ patch = [s \in Session |-> {}]
  /\ ops \in Mixes
-----------------------------------------------------------------------------
Goto(s, label) == pc' = [pc EXCEPT ![s] = label]
Mine(s)        == call[s].task

Differs(object, r) == {f \in DOMAIN r : object[f] # r[f]}
Patched(r, object, fields) == [f \in DOMAIN r |-> IF f \in fields THEN object[f] ELSE r[f]]

Free(holder, s) == IF holder = s THEN NoSession ELSE holder

(* The call or its transaction ends: locks are free, locals forgotten.     *)
Forget(s) ==
  /\ myPlan' = [myPlan EXCEPT ![s] = NewPlan]
  /\ myTask' = [myTask EXCEPT ![s] = NewTask]
  /\ patch' = [patch EXCEPT ![s] = {}]
  /\ UNCHANGED call

Unlock(s) == planHolder' = Free(planHolder, s) /\ walletHolder' = Free(walletHolder, s)

End(s) == Goto(s, "done") /\ Unlock(s) /\ Forget(s)

(* A crash, a lost connection, a failed query.  The transaction is rolled  *)
(* back; what was saved without one stays.                                 *)
Crash(s) ==
  /\ "crash" \in ops
  /\ pc[s] \notin {"idle", "done"}
  /\ End(s)
  /\ UNCHANGED <<rows, over>>

(* PostgreSQL ends one of two transactions that wait for each other.       *)
DeadlockVictim(s) ==
  \E a, b \in Session :
    /\ s \in {a, b}
    /\ pc[a] = "count" /\ planHolder = b
    /\ pc[b] = "reward" /\ walletHolder = a
    /\ End(s)
    /\ UNCHANGED <<rows, over>>

WeekTurns ==
  /\ "close" \in ops
  /\ ~over
  /\ over' = TRUE
  /\ UNCHANGED <<rows, locks, pc, local>>
-----------------------------------------------------------------------------
Counted(p)  == [p EXCEPT !.done = @ + 1]
Shrunk(p)   == [p EXCEPT !.planned = IF p.done > @ - 1 THEN p.done ELSE @ - 1]
Done        == [status |-> "done", source |-> TRUE]

EmptyPlanSeals(p) == \/ p.done >= p.planned  \* variant: no sessionsPlanned > 0
                     \/ p.done >= HoursNeeded

MeetsSealCriteria(p) ==
  \/ p.planned > 0 /\ p.done >= p.planned
  \/ p.done >= HoursNeeded

(* A lesson's completion up to its weekly part: its reward has locked the  *)
(* wallet.  LessonCompletion shows which calls get this far: one for each  *)
(* lesson, unless it fails.                                                *)
Complete(s, t) ==
  /\ pc[s] = "idle" /\ "complete" \in ops
  /\ t \notin learned
  /\ \A r \in Session : call[r] # [op |-> "complete", task |-> t] \/ pc[r] = "done"
  /\ call' = [call EXCEPT ![s] = [op |-> "complete", task |-> t]]
  /\ Goto(s, "wallet")
  /\ UNCHANGED <<rows, over, locks, myPlan, myTask, patch>>

LockNothing(s) ==                    \* variant: the wallet is not locked yet
  /\ pc[s] = "wallet"
  /\ Goto(s, "mark")
  /\ UNCHANGED <<rows, over, locks, local>>

LockWallet(s) ==
  /\ pc[s] = "wallet"
  /\ walletHolder = NoSession
  /\ walletHolder' = s
  /\ Goto(s, "mark")
  /\ UNCHANGED <<rows, over, planHolder, local>>

(* markLessonDoneInTx: nothing is counted in a sealed week.                *)
Mark(s) ==
  /\ pc[s] = "mark"
  /\ UNCHANGED <<rows, over, locks, call, patch>>
  /\ IF over \/ plan.status = "sealed" \/ task[Mine(s)].status = "done"
     THEN Goto(s, "commit") /\ UNCHANGED <<myPlan, myTask>>
     ELSE /\ Goto(s, "compare")
          /\ myPlan' = [myPlan EXCEPT ![s] = Counted(plan)]
          /\ myTask' = [myTask EXCEPT ![s] = Done]

Compare(s) ==
  /\ pc[s] = "compare"
  /\ patch' = [patch EXCEPT ![s] = Differs(myPlan[s], plan)]
  /\ Goto(s, "count")
  /\ UNCHANGED <<rows, over, locks, call, myPlan, myTask>>

(* The UPDATE of the plan; it and the task's are seen from the COMMIT on.  *)
Count(s) ==
  /\ pc[s] = "count"
  /\ planHolder = NoSession
  /\ planHolder' = s
  /\ Goto(s, "commit")
  /\ UNCHANGED <<rows, over, walletHolder, local>>

Commit(s) ==
  /\ pc[s] = "commit"
  /\ plan' = Patched(plan, myPlan[s], patch[s])
  /\ task' = [task EXCEPT ![Mine(s)] = IF planHolder = s THEN Done ELSE @]
  /\ learned' = learned \cup {Mine(s)}
  /\ Unlock(s)
  /\ Forget(s)
  /\ Goto(s, "after")
  /\ UNCHANGED <<granted, over>>

SealIfCounted(s) ==                  \* variant: seals only what it counted
  /\ pc[s] = "after"
  /\ UNCHANGED <<rows, over>>
  /\ LET again == task[Mine(s)].status # "done" /\ ~task[Mine(s)].source
     IN IF over \/ plan.status = "sealed" \/ ~again THEN End(s)
        ELSE /\ myPlan' = [myPlan EXCEPT ![s] = Counted(plan)]
             /\ myTask' = [myTask EXCEPT ![s] = Done]
             /\ Goto(s, "diffTask")
             /\ UNCHANGED <<locks, call, patch>>

(* onLessonCompleted, after the commit: reads again, counts again when the *)
(* task is not done and does not carry this completion's id, and seals.    *)
After(s) ==
  /\ pc[s] = "after"
  /\ UNCHANGED <<rows, over>>
  /\ LET again == task[Mine(s)].status # "done" /\ ~task[Mine(s)].source
     IN IF over \/ plan.status = "sealed" THEN End(s)
        ELSE /\ myPlan' = [myPlan EXCEPT ![s] = IF again THEN Counted(plan) ELSE plan]
             /\ myTask' = [myTask EXCEPT ![s] = Done]
             /\ Goto(s, IF again THEN "diffTask" ELSE "try")
             /\ UNCHANGED <<locks, call, patch>>
-----------------------------------------------------------------------------
(* requireCurrentTask and the change to the objects: move and skip refuse  *)
(* a done task.                                                            *)
Change(s, op, t, status) ==
  /\ pc[s] = "idle" /\ op \in ops
  /\ ~over /\ plan.status # "sealed" /\ task[t].status # "done"
  /\ call' = [call EXCEPT ![s] = [op |-> op, task |-> t]]
  /\ myPlan' = [myPlan EXCEPT ![s] = IF op = "skip" THEN Shrunk(plan) ELSE plan]
  /\ myTask' = [myTask EXCEPT ![s] = [task[t] EXCEPT !.status = status]]
  /\ Goto(s, "diffTask")
  /\ UNCHANGED <<rows, over, locks, patch>>

MoveTask(s, t) == Change(s, "move", t, "moved")
SkipTask(s, t) == Change(s, "skip", t, "skipped")

(* closePreviousWeekIfNeeded, by any call of the next week.                *)
ClosePreviousWeek(s) ==
  /\ pc[s] = "idle" /\ over
  /\ plan.status = "active"
  /\ call' = [call EXCEPT ![s].op = "close"]
  /\ myPlan' = [myPlan EXCEPT ![s] = [plan EXCEPT !.status = "missed"]]
  /\ Goto(s, "diffPlan")
  /\ UNCHANGED <<rows, over, locks, myTask, patch>>

DiffTask(s) ==
  /\ pc[s] = "diffTask"
  /\ patch' = [patch EXCEPT ![s] = Differs(myTask[s], task[Mine(s)])]
  /\ Goto(s, "writeTask")
  /\ UNCHANGED <<rows, over, locks, call, myPlan, myTask>>

WriteTask(s) ==
  /\ pc[s] = "writeTask"
  /\ task' = [task EXCEPT ![Mine(s)] = Patched(@, myTask[s], patch[s])]
  /\ IF call[s].op = "move" THEN End(s)
     ELSE Goto(s, "diffPlan") /\ UNCHANGED <<locks, local>>
  /\ UNCHANGED <<plan, learned, granted, over>>

DiffPlan(s) ==
  /\ pc[s] = "diffPlan"
  /\ patch' = [patch EXCEPT ![s] = Differs(myPlan[s], plan)]
  /\ Goto(s, "writePlan")
  /\ UNCHANGED <<rows, over, locks, call, myPlan, myTask>>

(* The UPDATE waits for the plan's lock.                                   *)
WritePlan(s) ==
  /\ pc[s] = "writePlan"
  /\ planHolder = NoSession
  /\ plan' = Patched(plan, myPlan[s], patch[s])
  /\ IF call[s].op = "close" THEN End(s)
     ELSE Goto(s, "try") /\ UNCHANGED <<locks, local>>
  /\ UNCHANGED <<task, learned, granted, over>>
-----------------------------------------------------------------------------
(* trySeal: the object first, without a lock.                              *)
TrySeal(s) ==
  /\ pc[s] = "try"
  /\ IF myPlan[s].status = "sealed" \/ ~MeetsSealCriteria(myPlan[s]) THEN End(s)
     ELSE Goto(s, "lockPlan") /\ UNCHANGED <<locks, local>>
  /\ UNCHANGED <<rows, over>>

LockPlan(s) ==
  /\ pc[s] = "lockPlan"
  /\ planHolder = NoSession
  /\ UNCHANGED <<rows, over>>
  /\ IF plan.status = "sealed" \/ ~MeetsSealCriteria(plan) THEN End(s)
     ELSE planHolder' = s /\ Goto(s, "reward") /\ UNCHANGED <<walletHolder, local>>

PaysAgain == TRUE                    \* variant: a key for each attempt to seal

(* sealWeek pays under the key week-seal:{planId}.                         *)
Pays == granted = 0

(* The reward waits for the wallet's lock when it pays; then the COMMIT.   *)
Seal(s) ==
  /\ pc[s] = "reward"
  /\ Pays => walletHolder = NoSession
  /\ plan' = [plan EXCEPT !.status = "sealed"]
  /\ granted' = IF Pays THEN granted + 1 ELSE granted
  /\ End(s)
  /\ UNCHANGED <<task, learned, over>>
-----------------------------------------------------------------------------
Step(s) ==
  \/ LockWallet(s) \/ Mark(s) \/ Compare(s) \/ Count(s) \/ Commit(s) \/ After(s)
  \/ DiffTask(s) \/ WriteTask(s) \/ DiffPlan(s) \/ WritePlan(s)
  \/ TrySeal(s) \/ LockPlan(s) \/ Seal(s)

Next ==
  /\ UNCHANGED ops
  /\ \/ WeekTurns
     \/ \E s \in Session :
          \/ \E t \in Task : Complete(s, t) \/ MoveTask(s, t) \/ SkipTask(s, t)
          \/ ClosePreviousWeek(s)
          \/ Step(s) \/ DeadlockVictim(s) \/ Crash(s)

Spec == Init /\ [][Next]_vars

(* Started calls go on, waiters get a lock that is free again and again,   *)
(* and a deadlock is found.  Nobody is obliged to call or to crash.        *)
FairSpec ==
  Spec /\ \A s \in Session : SF_vars((Step(s) \/ DeadlockVictim(s)) /\ UNCHANGED ops)
-----------------------------------------------------------------------------
(* Rows of the tables.                                                     *)
PlanRow == [status : {"active", "sealed", "missed"}, done : Nat, planned : Nat]
TaskRow == [status : {"upcoming", "moved", "skipped", "done"}, source : BOOLEAN]

(* The variables' values, and who holds which lock.                        *)
TypeOK ==
  /\ plan \in PlanRow
  /\ task \in [Task -> TaskRow]
  /\ learned \subseteq Task
  /\ \A s \in Session :
       /\ pc[s] \in {"mark", "compare", "count"} => walletHolder = s
       /\ walletHolder = s => pc[s] \in {"mark", "compare", "count", "commit"}
       /\ pc[s] = "reward" => planHolder = s
       /\ planHolder = s => pc[s] \in {"commit", "reward"}

(* However often stale saves take the seal off the plan, it pays once; and *)
(* a week in which every task was skipped is not sealed: the reward needs  *)
(* a completed lesson, whatever was skipped at the same time.              *)
SealEarnedOnce == granted <= 1 /\ (granted > 0 => learned # {})

(* Where lessons are only completed, or fail, the plan counts each of its  *)
(* tasks once: completions at the same time do not lose or repeat one.     *)
CountedRight ==
  ops \subseteq {"complete", "crash"} =>
    plan.done = Cardinality({t \in Task : task[t].status = "done"})

(* Where lessons are only completed, a week that meets the criteria is     *)
(* sealed and paid, though the seal may be the victim of a deadlock with   *)
(* the next lesson.                                                        *)
Earned == plan.done >= HoursNeeded \/ plan.done = Cardinality(Task)
EarnedWeekSeals == ops = {"complete"} /\ Earned ~> granted > 0
=============================================================================
