---------------------------- MODULE CourseTiming ----------------------------
(***************************************************************************)
(* The study schedule of one learner: TimingService and                    *)
(* ReminderPlannerService (src/src/course-timing/).                        *)
(*                                                                         *)
(* A schedule has a version within its roadmap, one slot for each lesson   *)
(* that was open when it was made, and for each slot two reminders: one    *)
(* before it and one after it was missed.  No handler uses a transaction:  *)
(* each save is seen at once, a stop leaves what was saved, and a          *)
(* schedule that was read is written back whole.  Capacity, pace, the      *)
(* calendar, the widening of the window and the split of a lesson into     *)
(* several slots are left out.  A sent reminder stands for a notification. *)
(***************************************************************************)
EXTENDS Naturals, FiniteSets, TLC

CONSTANTS
  Lesson,        \* of a roadmap
  MaxVersion,    \* bound: versions of a roadmap's schedule
  Clerk,         \* requests and jobs in progress at a time
  MaxAsks        \* bound: requests and runs of the job

TimingAssumption == MaxVersion \in Nat \ {0} /\ MaxAsks \in Nat

Course == {"first", "next"}              \* the learner's roadmaps, one after the other
Version == 1 .. MaxVersion
Schedule == Course \X Version
SlotOf == Schedule \X Lesson

VARIABLES
  schedule,      \* course_schedules that exist: is_active and replan_lock
  slot,          \* schedule_slots: the status, "none" before they are made
  reminder,      \* reminder_plans, before and after the slot
  learned,       \* completed lessons, of the courses
  clerk,         \* the requests in progress
  asks,          \* how many were made, for the bound
  shifted,       \* history: schedules of which a slot was moved or skipped
  tangled,       \* history: schedules on which requests overlapped
  failed         \* history: a replan or a reminder stopped halfway

timingVars == <<schedule, slot, reminder, learned, clerk, asks, shifted, tangled, failed>>

Idle == [at |-> "idle"]
Made == DOMAIN schedule
Active == {s \in Made : schedule[s].active}
OpenSlot(x) == slot[x] \in {"planned", "moved"}

(* requireActiveSchedule takes the highest version, whatever the roadmap.  *)
Current(s) == s \in Active /\ \A t \in Active : t[2] <= s[2]

Init ==
  /\ schedule = [s \in {<<"first", 1>>} |-> [active |-> TRUE, locked |-> FALSE]]
  /\ slot = [x \in SlotOf |-> IF x[1] = <<"first", 1>> THEN "planned" ELSE "none"]
  /\ reminder = [x \in SlotOf |-> IF x[1] = <<"first", 1>>
                   THEN [before |-> "pending", after |-> "pending"]
                   ELSE [before |-> "none", after |-> "none"]]
  /\ learned = {} /\ clerk = [c \in Clerk |-> Idle] /\ asks = 0
  /\ shifted = {} /\ tangled = {} /\ failed = {}
-----------------------------------------------------------------------------
(* A request begins with the schedule s it has read.                       *)
Begins(c, s, r) ==
  /\ clerk[c] = Idle
  /\ clerk' = [clerk EXCEPT ![c] = r @@ [on |-> s]]
  /\ tangled' = IF \E d \in Clerk \ {c} : clerk[d] # Idle /\ clerk[d].on = s
                THEN tangled \union {s} ELSE tangled
Asks(c, s, r) == asks < MaxAsks /\ asks' = asks + 1 /\ Begins(c, s, r)
Goes(c, at) == clerk' = [clerk EXCEPT ![c].at = at]
Ends(c) == clerk' = [clerk EXCEPT ![c] = Idle]

(* replan: lock, cancel reminders and slots, retire the schedule, make the *)
(* next version, and in the end unlock.                                    *)
Unlocked(s) == ~schedule[s].locked

Replan(c, s) ==
  /\ Current(s) /\ Unlocked(s)
  /\ Asks(c, s, [at |-> "lock"])
  /\ UNCHANGED <<schedule, slot, reminder, learned, shifted, failed>>

Lock(c) ==
  /\ clerk[c].at = "lock"
  /\ schedule' = [schedule EXCEPT ![clerk[c].on] = [active |-> TRUE, locked |-> TRUE]]
  /\ Goes(c, "reminders")
  /\ UNCHANGED <<slot, reminder, learned, asks, shifted, tangled, failed>>

(* cancelForSchedule: all that are pending.                                *)
CancelledBefore(s) == [x \in SlotOf |->                     \* variant
  IF x[1] # s \/ reminder[x].before # "pending" THEN reminder[x]
  ELSE [reminder[x] EXCEPT !.after = "cancelled"]]
Cancelled(s) == [x \in SlotOf |->
  IF x[1] # s THEN reminder[x]
  ELSE [k \in {"before", "after"} |->
          IF reminder[x][k] = "pending" THEN "cancelled" ELSE reminder[x][k]]]

CancelReminders(c) ==
  /\ clerk[c].at = "reminders"
  /\ reminder' = Cancelled(clerk[c].on)
  /\ Goes(c, "slots")
  /\ UNCHANGED <<schedule, slot, learned, asks, shifted, tangled, failed>>

CancelSlots(c) ==
  /\ clerk[c].at = "slots"
  /\ slot' = [x \in SlotOf |-> IF x[1] = clerk[c].on /\ OpenSlot(x) THEN "cancelled" ELSE slot[x]]
  /\ Goes(c, "retire")
  /\ UNCHANGED <<schedule, reminder, learned, asks, shifted, tangled, failed>>

Retire(c) ==
  /\ clerk[c].at = "retire"
  /\ schedule' = [schedule EXCEPT ![clerk[c].on] = [active |-> FALSE, locked |-> TRUE]]
  /\ Goes(c, "insert")
  /\ UNCHANGED <<slot, reminder, learned, asks, shifted, tangled, failed>>

(* generateSchedule: refused without open lessons while minutes remain (a  *)
(* lesson may take fewer than planned); a version may exist only once.     *)
Successor(s) == <<s[1], s[2] + 1>>
AllLearned(course) == \A l \in Lesson : <<course, l>> \in learned
Fresh(s) == s \notin Made

Insert(c) ==
  LET s == clerk[c].on  n == Successor(s) IN
  /\ clerk[c].at = "insert" /\ s[2] < MaxVersion
  /\ \/ /\ Fresh(n)
        /\ schedule' = schedule @@ [x \in {n} |-> [active |-> TRUE, locked |-> FALSE]]
        /\ clerk' = [clerk EXCEPT ![c] = [at |-> "fill", on |-> s, new |-> n]]
        /\ UNCHANGED failed
     \/ /\ ~Fresh(n) \/ AllLearned(s[1])
        /\ Goes(c, "unlock")
        /\ failed' = failed \union {s}
        /\ UNCHANGED schedule
  /\ UNCHANGED <<slot, reminder, learned, asks, shifted, tangled>>

Filled(s, status) == [x \in SlotOf |->
  IF x[1] = s /\ <<s[1], x[2]>> \notin learned THEN status ELSE slot[x]]

Fill(c) ==
  /\ clerk[c].at = "fill"
  /\ slot' = Filled(clerk[c].new, "planned")
  /\ Goes(c, "plan")
  /\ UNCHANGED <<schedule, reminder, learned, asks, shifted, tangled, failed>>

(* planForSchedule: the planned slots.                                     *)
Plan(c) ==
  /\ clerk[c].at = "plan"
  /\ reminder' = [x \in SlotOf |-> IF x[1] = clerk[c].new /\ slot[x] = "planned"
                                   THEN [before |-> "pending", after |-> "pending"] ELSE reminder[x]]
  /\ Goes(c, "unlock")
  /\ UNCHANGED <<schedule, slot, learned, asks, shifted, tangled, failed>>

Unlock(c) ==
  /\ clerk[c].at = "unlock"
  /\ schedule' = [schedule EXCEPT ![clerk[c].on].locked = FALSE]
  /\ Ends(c)
  /\ UNCHANGED <<slot, reminder, learned, asks, shifted, tangled, failed>>

(* bootstrapFromRoadmap: the first version of the next roadmap, beside     *)
(* whatever is active.                                                     *)
Bootstrap(c) ==
  LET n == <<"next", 1>> IN
  /\ n \notin Made /\ ~AllLearned("next")
  /\ Asks(c, n, [at |-> "fill", new |-> n])
  /\ schedule' = schedule @@ [x \in {n} |-> [active |-> TRUE, locked |-> FALSE]]
  /\ UNCHANGED <<slot, reminder, learned, shifted, failed>>
-----------------------------------------------------------------------------
(* moveSlot: the slot is saved as moved, ALL reminders of the schedule are *)
(* cancelled, the one planned for the slot is refused since it is not a    *)
(* planned one, and the slot is saved as planned.                          *)
Move(c, x) ==
  /\ slot[x] \notin {"none", "completed"}
  /\ Asks(c, x[1], [at |-> "move", slot |-> x])
  /\ UNCHANGED <<schedule, slot, reminder, learned, shifted, failed>>

(* skipSlot: two missed ones call replan, an action of its own here.       *)
Skip(c, x) ==
  /\ slot[x] \notin {"none", "completed"}
  /\ Asks(c, x[1], [at |-> "skip", slot |-> x])
  /\ UNCHANGED <<schedule, slot, reminder, learned, shifted, failed>>

SaveSlot(c) ==
  LET r == clerk[c] IN
  /\ r.at \in {"move", "skip"}
  /\ slot' = [slot EXCEPT ![r.slot] = IF r.at = "move" THEN "moved" ELSE "cancelled"]
  /\ shifted' = shifted \union {r.on}
  /\ Goes(c, IF r.at = "move" THEN "moved" ELSE "skipped")
  /\ UNCHANGED <<schedule, reminder, learned, asks, tangled, failed>>

CancelAll(c) ==
  LET r == clerk[c] IN
  /\ r.at \in {"moved", "skipped"}
  /\ reminder' = Cancelled(r.on)
  /\ IF r.at = "moved" THEN Goes(c, "replanned") ELSE Ends(c)
  /\ UNCHANGED <<schedule, slot, learned, asks, shifted, tangled, failed>>

SaveMoved(c) ==
  /\ clerk[c].at = "replanned"
  /\ slot' = [slot EXCEPT ![clerk[c].slot] = "planned"]
  /\ Ends(c)
  /\ UNCHANGED <<schedule, reminder, learned, asks, shifted, tangled, failed>>

(* onLessonCompleted: the slot, then the schedule that was read.           *)
Complete(c, s, l) ==
  /\ Current(s) /\ l \notin learned
  /\ Asks(c, s, [at |-> "slot", lesson |-> l, object |-> schedule[s]])
  /\ learned' = learned \union {l}
  /\ UNCHANGED <<schedule, slot, reminder, shifted, failed>>

CompleteSlot(c) ==
  LET r == clerk[c]  x == <<r.on, r.lesson[2]>> IN
  /\ r.at = "slot"
  /\ slot' = IF r.lesson[1] = r.on[1] /\ OpenSlot(x) THEN [slot EXCEPT ![x] = "completed"] ELSE slot
  /\ Goes(c, "schedule")
  /\ UNCHANGED <<schedule, reminder, learned, asks, shifted, tangled, failed>>

SaveSchedule(c) ==
  /\ clerk[c].at = "schedule"
  /\ schedule' = [schedule EXCEPT ![clerk[c].on] = clerk[c].object]
  /\ Ends(c)
  /\ UNCHANGED <<slot, reminder, learned, asks, shifted, tangled, failed>>
-----------------------------------------------------------------------------
(* dispatchDue: a reminder whose time has come, which may be at any moment.*)
Due(x, k) == reminder[x][k] = "pending"

Dispatch(c, x, k) ==
  /\ Due(x, k)
  /\ Asks(c, x[1], [at |-> IF k = "after" THEN "look" ELSE "send", slot |-> x, kind |-> k])
  /\ UNCHANGED <<schedule, slot, reminder, learned, shifted, failed>>

MissedAnyway(x) == FALSE                                    \* variant
NotMissed(x) == slot[x] \in {"completed", "cancelled", "moved"}

Look(c) ==
  LET x == clerk[c].slot IN
  /\ clerk[c].at = "look"
  /\ IF NotMissed(x) THEN reminder' = [reminder EXCEPT ![x].after = "cancelled"] /\ Ends(c) /\ UNCHANGED slot
     ELSE slot' = [slot EXCEPT ![x] = "missed"] /\ Goes(c, "send") /\ UNCHANGED reminder
  /\ UNCHANGED <<schedule, learned, asks, shifted, tangled, failed>>

SendReminder(c) ==
  LET r == clerk[c] IN
  /\ r.at = "send"
  /\ reminder' = [reminder EXCEPT ![r.slot][r.kind] = "sent"]
  /\ Ends(c)
  /\ UNCHANGED <<schedule, slot, learned, asks, shifted, tangled, failed>>

(* Rows of the tables, "none" before they are made.                        *)
ScheduleRow == [active : BOOLEAN, locked : BOOLEAN]
SlotRow == {"none", "planned", "moved", "completed", "missed", "cancelled"}
ReminderRow == {"none", "pending", "sent", "cancelled"}

(* reconcileMissedSlots: the end of a planned slot is an hour ago.         *)
Reconcile(x) ==
  /\ slot[x] = "planned"
  /\ slot' = [slot EXCEPT ![x] = "missed"]
  /\ UNCHANGED <<schedule, reminder, learned, clerk, asks, shifted, tangled, failed>>

Stop(c) ==
  /\ clerk[c] # Idle /\ Ends(c)
  /\ failed' = failed \union {clerk[c].on}
                       \union (IF clerk[c].at \in {"fill", "plan"} THEN {clerk[c].new} ELSE {})
  /\ UNCHANGED <<schedule, slot, reminder, learned, asks, shifted, tangled>>
-----------------------------------------------------------------------------
Next ==
  \/ \E c \in Clerk, s \in Made : Replan(c, s) \/ \E l \in Course \X Lesson : Complete(c, s, l)
  \/ \E c \in Clerk : \/ Lock(c) \/ CancelReminders(c) \/ CancelSlots(c) \/ Retire(c) \/ Insert(c)
                      \/ Fill(c) \/ Plan(c) \/ Unlock(c) \/ Bootstrap(c) \/ Stop(c)
                      \/ SaveSlot(c) \/ CancelAll(c) \/ SaveMoved(c)
                      \/ CompleteSlot(c) \/ SaveSchedule(c) \/ Look(c) \/ SendReminder(c)
  \/ \E c \in Clerk, x \in SlotOf : \/ Move(c, x) \/ Skip(c, x)
                                    \/ \E k \in {"before", "after"} : Dispatch(c, x, k)
  \/ \E x \in SlotOf : Reconcile(x)

Spec == Init /\ [][Next]_timingVars

TypeOK ==
  /\ Made \subseteq Schedule /\ schedule \in [Made -> ScheduleRow]
  /\ slot \in [SlotOf -> SlotRow]
  /\ reminder \in [SlotOf -> [{"before", "after"} -> ReminderRow]]
  /\ learned \subseteq Course \X Lesson

(* One schedule of a roadmap is active, however many replans race, unless  *)
(* a completion that had read an older one writes it back.                 *)
OneActive == \A s, t \in Active \ tangled : s[1] = t[1] => s = t

(* A replan that neither stops nor fails leaves the learner a schedule     *)
(* that may be replanned: it is unlocked, and one is active.               *)
AlwaysScheduled ==
  failed \union tangled = {} =>
    \/ \E c \in Clerk : clerk[c].at \in {"lock", "reminders", "slots", "retire", "insert", "fill", "plan", "unlock"}
    \/ Active # {} /\ \A s \in Made : Unlocked(s)

(* A reminder is sent for a slot that is still ahead of the learner, or    *)
(* was missed; not for one that was skipped, done or planned anew, unless  *)
(* requests overlapped on the schedule or one stopped.                     *)
RemindsOfOpenSlots ==
  \A x \in SlotOf, k \in {"before", "after"} :
    reminder[x][k] # "sent" /\ reminder'[x][k] = "sent" /\ x[1] \notin tangled' \union failed
    => slot[x] \in (IF k = "before" THEN {"planned", "completed", "missed"} ELSE {"planned", "missed"})

(* A slot that nobody moved or skipped is not forgotten: while it is       *)
(* planned its reminders are pending or were sent.                         *)
SlotsHaveReminders ==
  \A x \in SlotOf : slot[x] = "planned" /\ x[1] \notin shifted \union tangled \union failed =>
    \/ \A k \in {"before", "after"} : reminder[x][k] \in {"pending", "sent"}
    \/ \E c \in Clerk : clerk[c].at = "plan" \/ (clerk[c] # Idle /\ clerk[c].on = x[1])

(* What was done stays done, unless a move or a skip had read the slot     *)
(* before.                                                                 *)
StaysDone ==
  \A x \in SlotOf : slot[x] = "completed" /\ x[1] \notin tangled' => slot'[x] = "completed"
=============================================================================
