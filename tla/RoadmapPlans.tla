---------------------------- MODULE RoadmapPlans ----------------------------
(***************************************************************************)
(* Who replaces a learner's roadmap: RoadmapJobsProcessor (generation),    *)
(* ReEnrollmentService and RoadmapsService.executeReplan, with             *)
(* RoadmapPersistenceService underneath (src/src/roadmaps/), for one goal. *)
(*                                                                         *)
(* A new roadmap is persisted by a transaction that archives the ready     *)
(* ones it can see and inserts its own; re-enrolment and replanning then   *)
(* swap in a second transaction.  Nothing serialises two of them: an       *)
(* update sees what was committed when its statement began, and looks only *)
(* at those rows again.  Jobs are rows with a status, delivered by a queue *)
(* that retries what failed and redelivers what a dead worker held.        *)
(*                                                                         *)
(* A roadmap's row is also saved whole, status and finishedAt included, by *)
(* who only means to change another column: a lesson's completion saves    *)
(* the roadmap of the tree it was given, the coach the row it read, and    *)
(* re-enrolment the finished roadmap it read before the planning.  save()  *)
(* writes each column that differs from the row by then.                   *)
(***************************************************************************)
EXTENDS Naturals, FiniteSets

CONSTANTS
  MaxPlans,      \* roadmaps made after the first (bound)
  MaxJobs,       \* generation and re-enrolment jobs (bound)
  Followed,      \* roadmaps whose lessons are played, that may be replanned (bound)
  MaxAttempts,   \* deliveries of a failing job; 1 when there is no Redis
  Worker         \* requests and jobs in progress at a time

PlansAssumption == {MaxPlans, MaxJobs, MaxAttempts} \subseteq Nat \ {0} /\ Followed \subseteq Nat

Roadmap == 0 .. MaxPlans
Job == 1 .. MaxJobs

VARIABLES
  plan,          \* roadmaps.status
  finished,      \* roadmaps with a finishedAt
  copy,          \* a row that a completion or the coach will save
  jobs,          \* roadmap_generation_jobs and re_enrollment_jobs
  queue,         \* jobs to be delivered
  hands,         \* what each worker is doing
  overlapped,    \* history: two of the transactions ran at the same time
  stopped,       \* history: the process stopped with a job in its hands
  resaved        \* history: a row was saved that had changed since it was read

planVars == <<plan, finished, copy, jobs, queue, hands, overlapped, stopped, resaved>>

Free == [at |-> "free", job |-> {}, old |-> {}, was |-> {}, sees |-> {}, new |-> {}]
NoJob == [status |-> "none", old |-> {}, attempts |-> 0, new |-> {}]

Init ==
  /\ plan = [r \in Roadmap |-> IF r = 0 THEN "ready" ELSE "none"]
  /\ finished = {} /\ copy = {}
  /\ jobs = [j \in Job |-> NoJob]
  /\ queue = {}
  /\ hands = [w \in Worker |-> Free]
  /\ overlapped = FALSE /\ stopped = FALSE /\ resaved = FALSE
-----------------------------------------------------------------------------
Holds(w, r) == hands' = [hands EXCEPT ![w] = r]
Ready == {r \in Roadmap : plan[r] = "ready"}
Unused == {r \in Roadmap : plan[r] = "none"}
First(S) == CHOOSE x \in S : \A y \in S : x <= y

InTransaction(w) == hands[w].at \in {"persist", "swap"}
Begins(w) == overlapped' = (overlapped \/ \E v \in Worker \ {w} : InTransaction(v))

(* A row as it is read, and the save of one.                               *)
Row(r) == [of |-> r, status |-> plan[r], finished |-> r \in finished]

SaveRow(c) ==
  /\ plan' = [plan EXCEPT ![c.of] = c.status]
  /\ finished' = IF c.finished THEN finished \union {c.of} ELSE finished \ {c.of}
  /\ resaved' = (resaved \/ c # Row(c.of))

(* finalizeCompletion: a roadmap is finished, an archived one too.         *)
Finish(r) ==
  /\ r \in Followed \ finished /\ plan[r] # "none"
  /\ plan' = [plan EXCEPT ![r] = "completed"]
  /\ finished' = finished \union {r}
  /\ UNCHANGED <<copy, jobs, queue, hands, overlapped, stopped, resaved>>

(* afterComplete loads the tree and saves its roadmap; one from the cache, *)
(* which persistPlan does not drop, comes without finishedAt.              *)
LoadTree(r) ==
  /\ copy = {} /\ r \in Followed /\ plan[r] # "none"
  /\ copy' = {Row(r)}
  /\ UNCHANGED <<plan, finished, jobs, queue, hands, overlapped, stopped, resaved>>

SaveTree ==
  /\ \E c \in copy : SaveRow(c) \/ SaveRow([c EXCEPT !.finished = c.of \in finished])
  /\ copy' = {}
  /\ UNCHANGED <<jobs, queue, hands, overlapped, stopped>>

(* A row for the job, then its place in the queue.                         *)
Enqueue(job) ==
  \E j \in {i \in Job : jobs[i] = NoJob} :
    /\ \A i \in Job : i < j => jobs[i] # NoJob
    /\ jobs' = [jobs EXCEPT ![j] = job]
    /\ \/ queue' = queue \union {j} /\ UNCHANGED stopped
       \/ ~stopped /\ stopped' = TRUE /\ UNCHANGED queue

EnqueueGenerate ==
  /\ Enqueue([NoJob EXCEPT !.status = "queued"])
  /\ UNCHANGED <<plan, finished, copy, hands, overlapped, resaved>>

(* chooseNext looks for a job of this roadmap, and inserts one later; a    *)
(* new goal needs none. The roadmap it has read is saved.                  *)
Chosen(r) == \E j \in Job : /\ jobs[j].status \in {"queued", "processing", "ready"}
                            /\ r \in jobs[j].old

Choose(w, r) ==
  /\ hands[w] = Free
  /\ r \in finished /\ ~Chosen(r)
  /\ Holds(w, [Free EXCEPT !.at = "chosen", !.old = {r}, !.was = {Row(r)}])
  /\ UNCHANGED <<plan, finished, copy, jobs, queue, overlapped, stopped, resaved>>

ChooseNext(w) ==
  /\ hands[w].at = "chosen"
  /\ \/ Enqueue([NoJob EXCEPT !.status = "queued", !.old = hands[w].old])
     \/ UNCHANGED <<jobs, queue, stopped>>
  /\ \E c \in hands[w].was : SaveRow(c)
  /\ Holds(w, Free)
  /\ UNCHANGED <<copy, overlapped>>

(* processDbJob up to planning; a job that is Processing is not taken.     *)
Take(w, j) ==
  /\ hands[w] = Free /\ j \in queue
  /\ queue' = queue \ {j}
  /\ IF jobs[j].status \in {"ready", "processing"}
     THEN UNCHANGED <<jobs, hands>>
     ELSE /\ jobs' = [jobs EXCEPT ![j].status = "processing", ![j].attempts = @ + 1]
          /\ Holds(w, [Free EXCEPT !.at = "plan", !.job = {j}, !.old = jobs[j].old,
                                   !.was = {Row(r) : r \in jobs[j].old}])
  /\ UNCHANGED <<plan, finished, copy, overlapped, stopped, resaved>>

(* replanRoadmap: one at a time for a roadmap.                             *)
Replan(w, r) ==
  /\ hands[w] = Free
  /\ r \in Followed /\ plan[r] = "ready"
  /\ \A v \in Worker : hands[v].at \notin {"free", "chosen"} /\ hands[v].job = {}
                          => hands[v].old # {r}
  /\ Holds(w, [Free EXCEPT !.at = "plan", !.old = {r}])
  /\ UNCHANGED <<plan, finished, copy, jobs, queue, overlapped, stopped, resaved>>

(* persistPlan: the statement that archives, and the commit.               *)
Archive(w) ==
  /\ hands[w].at = "plan" /\ Unused # {}
  /\ Begins(w)
  /\ Holds(w, [hands[w] EXCEPT !.at = "persist", !.sees = Ready])
  /\ UNCHANGED <<plan, finished, copy, jobs, queue, stopped, resaved>>

PersistedBeside(w, n) == [plan EXCEPT ![n] = "ready"]                   \* variant
Persisted(w, n) == [r \in Roadmap |-> IF r = n THEN "ready"
                                      ELSE IF r \in hands[w].sees \intersect Ready
                                      THEN "archived" ELSE plan[r]]

PersistPlan(w) ==
  LET n == First(Unused) IN
  /\ hands[w].at = "persist" /\ Unused # {}
  /\ plan' = Persisted(w, n)
  /\ Holds(w, [hands[w] EXCEPT !.at = IF hands[w].old = {} THEN "settle" ELSE "persisted",
                               !.sees = {}, !.new = {n}])
  /\ UNCHANGED <<finished, copy, jobs, queue, overlapped, stopped, resaved>>

(* swapActiveRoadmap finds the new one ready, or throws; what it archives  *)
(* is what is ready when its updates run.                                  *)
FindNew(w) ==
  /\ hands[w].at = "persisted" /\ hands[w].new \subseteq Ready
  /\ Begins(w)
  /\ Holds(w, [hands[w] EXCEPT !.at = "swap"])
  /\ UNCHANGED <<plan, finished, copy, jobs, queue, stopped, resaved>>

ArchivedOld(w) == {r \in hands[w].old : plan[r] # "archived"}              \* variant
Archived(w) == (Ready \union {r \in hands[w].old \ finished : plan[r] # "completed"}) \ hands[w].new

Swap(w) ==
  /\ hands[w].at = "swap"
  /\ plan' = [r \in Roadmap |-> IF r \in Archived(w) THEN "archived" ELSE plan[r]]
  /\ Holds(w, IF hands[w].job = {} THEN Free ELSE [hands[w] EXCEPT !.at = "swapped"])
  /\ UNCHANGED <<finished, copy, jobs, queue, overlapped, stopped, resaved>>

(* Re-enrolment saves the previous roadmap, then the job.                  *)
SavePrevious(w) ==
  /\ hands[w].at = "swapped"
  /\ \E c \in hands[w].was : SaveRow(c)
  /\ Holds(w, [hands[w] EXCEPT !.at = "settle"])
  /\ UNCHANGED <<copy, jobs, queue, overlapped, stopped>>

Settle(w) ==
  /\ hands[w].at = "settle"
  /\ jobs' = [j \in Job |-> IF j \in hands[w].job
                            THEN [jobs[j] EXCEPT !.status = "ready", !.new = hands[w].new]
                            ELSE jobs[j]]
  /\ Holds(w, Free)
  /\ UNCHANGED <<plan, finished, copy, queue, overlapped, stopped, resaved>>

(* Planning fails, or the new roadmap is no longer ready: a failed job is  *)
(* delivered again while it has attempts left.                             *)
Again(j) == jobs[j].attempts < MaxAttempts

NotRetried(w) == {}                                                     \* variant
Retried(w) == {j \in hands[w].job : Again(j)}

Fail(w) ==
  /\ \/ hands[w].at = "plan"
     \/ hands[w].at = "persisted" /\ ~(hands[w].new \subseteq Ready)
  /\ jobs' = [j \in Job |-> IF j \in hands[w].job THEN [jobs[j] EXCEPT !.status = "failed"]
                            ELSE jobs[j]]
  /\ queue' = queue \union Retried(w)
  /\ Holds(w, Free)
  /\ UNCHANGED <<plan, finished, copy, overlapped, stopped, resaved>>

(* Rows of the tables, "none" before they are made.                        *)
RoadmapRow == {"none", "ready", "archived", "completed"}
JobRow == {"none", "queued", "processing", "ready", "failed"}

(* The process dies, once: Redis delivers its job to another; without      *)
(* Redis, setImmediate's jobs are gone.                                    *)
Stop(w) ==
  /\ hands[w].at \notin {"free", "chosen"} /\ ~stopped
  /\ queue' \in {queue \union hands[w].job, {}}
  /\ Holds(w, Free)
  /\ stopped' = TRUE
  /\ UNCHANGED <<plan, finished, copy, jobs, overlapped, resaved>>
-----------------------------------------------------------------------------
Next ==
  \/ \E r \in Roadmap : Finish(r) \/ LoadTree(r)
  \/ SaveTree
  \/ EnqueueGenerate
  \/ \E w \in Worker :
       \/ \E r \in Roadmap : Choose(w, r) \/ Replan(w, r)
       \/ \E j \in Job : Take(w, j)
       \/ ChooseNext(w) \/ Archive(w) \/ PersistPlan(w) \/ FindNew(w) \/ Swap(w)
       \/ SavePrevious(w) \/ Settle(w) \/ Fail(w) \/ Stop(w)

Spec == Init /\ [][Next]_planVars

TypeOK ==
  /\ plan \in [Roadmap -> RoadmapRow]
  /\ \A j \in Job : jobs[j].status \in JobRow
  /\ queue \subseteq Job /\ finished \subseteq Roadmap
  /\ {overlapped, stopped, resaved} \subseteq BOOLEAN

(* A goal has one ready roadmap at most, and what a ready job promised is  *)
(* there, or something newer - as long as no two of the transactions       *)
(* overlap and no row is saved that has changed since it was read: two     *)
(* generations that overlap leave two ready roadmaps, two swaps archive    *)
(* each other's, and the lesson that is completed on a tree from before a  *)
(* replan makes the archived roadmap ready again.                          *)
OnePlanToFollow ==
  ~overlapped /\ ~resaved =>
    /\ Cardinality(Ready) <= 1
    /\ \A j \in Job : jobs[j].status = "ready" =>
         \E r \in Roadmap : r >= First(jobs[j].new) /\ plan[r] \in {"ready", "completed"}

(* A job that is not settled is in the queue or in someone's hands, and a  *)
(* failed one has used its attempts - unless the process stopped: a job    *)
(* that was Processing is redelivered and refused, and blocks the          *)
(* learner's next choice.                                                  *)
NoJobStranded ==
  ~stopped =>
    \A j \in Job :
      \/ jobs[j].status \in {"none", "ready"}
      \/ jobs[j].status = "failed" /\ ~Again(j)
      \/ j \in queue
      \/ \E w \in Worker : hands[w].at \notin {"free", "chosen"} /\ j \in hands[w].job

(* A finished roadmap keeps its finishedAt and is completed, neither       *)
(* archived nor followed again, until a row is saved that has changed      *)
(* since it was read: a tree from before the end takes the end back.       *)
StaysFinished ==
  ~resaved' => \A r \in finished : r \in finished' /\ plan'[r] = "completed"
=============================================================================
