--------------------------- MODULE TrackProgress ---------------------------
(***************************************************************************)
(* The way through a roadmap and its end: LessonUnlockService, the tree's  *)
(* cache (roadmap-tree.loader, roadmap-cache) and RoadmapCompletionService *)
(* (src/src/lessons/, src/src/roadmaps/), for one learner.                 *)
(*                                                                         *)
(* A completion is a transaction: it holds the wallet from the grant on,   *)
(* so one runs at a time (what LessonCompletion says of a single lesson is *)
(* taken from there).  It reads the tree of lessons OUTSIDE of it, from    *)
(* Redis or else from what is committed, and drops the cached tree before  *)
(* it commits: whoever reads in between stores the old tree again.  It     *)
(* also saves the roadmap as the tree had it, its status with it, and,     *)
(* when the tree was read from the rows, its end too; from that UPDATE to  *)
(* the COMMIT it holds the roadmap's row.  After the commit the graduation *)
(* is checked, which nothing else ever does.                               *)
(* XP gates are soft; phases, percentages and titles are left out.         *)
(***************************************************************************)
EXTENDS Naturals, FiniteSets

CONSTANTS
  Length,        \* lessons 1 .. Length
  Required,      \* those the roadmap asks for
  Exam,          \* those of the one assessment milestone
  Worker         \* completions in progress at a time

TrackAssumption ==
  /\ Length \in Nat \ {0} /\ Exam \subseteq 1 .. Length
  /\ Required \subseteq 1 .. Length /\ Required # {}

Unit == 1 .. Length

VARIABLES
  lessonStatus,  \* lessons.status
  progress,      \* lesson_progress.status
  results,       \* lessons with a completion result
  examDone,      \* the milestone's completedAt
  tree,          \* the cached tree: a set of at most one
  look,          \* the tree a reader has read and not stored yet
  work,          \* the completions in progress
  roadmap,       \* the roadmap's status, and whether it has a finishedAt
  graduation,    \* how often the graduation was paid
  misled,        \* history: a completion used a tree that was out of date
  replayed,      \* history: a completed lesson was started again
  reopened,      \* history: a stale save changed the roadmap's row
  lost           \* history: the process stopped between commit and payment

trackVars == <<lessonStatus, progress, results, examDone, tree, look, work, roadmap,
               graduation, misled, replayed, reopened, lost>>

None == [at |-> "none"]

Init ==
  /\ lessonStatus = [l \in Unit |-> IF l = 1 THEN "available" ELSE "locked"]
  /\ progress = [l \in Unit |-> "none"]
  /\ results = {} /\ examDone = FALSE
  /\ tree = {} /\ look = {}
  /\ work = [w \in Worker |-> None]
  /\ roadmap = [status |-> "ready", finished |-> FALSE] /\ graduation = 0
  /\ misled = FALSE /\ replayed = FALSE /\ reopened = FALSE /\ lost = FALSE
-----------------------------------------------------------------------------
At(w, r) == work' = [work EXCEPT ![w] = r]
Rows == [lessons |-> lessonStatus, status |-> roadmap.status]
Filled == IF tree = {} THEN {Rows} ELSE tree

(* start: a lesson that was completed is in progress again, and its next   *)
(* completion is answered with the first one's result.                     *)
Start(l) ==
  /\ lessonStatus[l] # "locked" /\ progress[l] # "started"
  /\ progress' = [progress EXCEPT ![l] = "started"]
  /\ replayed' = (replayed \/ progress[l] = "completed")
  /\ UNCHANGED <<lessonStatus, results, examDone, tree, look, work, roadmap,
                 graduation, misled, reopened, lost>>

(* complete up to the wallet's lock; pathPercentile reads the tree.        *)
Complete(w, l) ==
  /\ work[w].at = "none" /\ lessonStatus[l] # "locked" /\ l \notin results
  /\ \A v \in Worker : work[v] # None => work[v].lesson # l
  /\ tree' = Filled
  /\ At(w, [at |-> "waits", lesson |-> l])
  /\ UNCHANGED <<lessonStatus, progress, results, examDone, look, roadmap,
                 graduation, misled, replayed, reopened, lost>>

(* afterComplete up to the writes: what it makes of the tree it loads.     *)
Held == \E w \in Worker : work[w].at \in {"writes", "dropped"}

OpensAll(t, l) == {n \in Unit : n > l /\ t[n] = "locked"}          \* variant
Opens(t, l) == {n \in Unit : n = l + 1 /\ t[n] = "locked"}
AllDoneButThis(t, l) == l \in Exam /\ \A e \in Exam : t[e] = "completed"  \* variant
AllDone(t, l) == l \in Exam /\ \A e \in Exam : e = l \/ t[e] = "completed"

Advance(w) ==
  /\ work[w].at = "waits" /\ ~Held
  /\ tree' = Filled
  /\ \E t \in Filled :
       /\ At(w, [at |-> "writes", lesson |-> work[w].lesson,
                 opens |-> Opens(t.lessons, work[w].lesson),
                 exam |-> AllDone(t.lessons, work[w].lesson), status |-> t.status,
                 whole |-> tree = {}, finished |-> tree = {} /\ roadmap.finished])
       /\ misled' = (misled \/ t.lessons # lessonStatus)
  /\ UNCHANGED <<lessonStatus, progress, results, examDone, look, roadmap,
                 graduation, replayed, reopened, lost>>

Drop(w) ==
  /\ work[w].at = "writes"
  /\ tree' = {}
  /\ At(w, [work[w] EXCEPT !.at = "dropped"])
  /\ UNCHANGED <<lessonStatus, progress, results, examDone, look, roadmap,
                 graduation, misled, replayed, reopened, lost>>

Commit(w) ==
  LET l == work[w].lesson IN
  /\ work[w].at = "dropped"
  /\ lessonStatus' = [n \in Unit |-> IF n = l THEN "completed"
                                     ELSE IF n \in work[w].opens THEN "available"
                                     ELSE lessonStatus[n]]
  /\ progress' = [progress EXCEPT ![l] = "completed"]
  /\ results' = results \union {l}
  /\ examDone' = (examDone \/ work[w].exam)
  /\ roadmap' = [status |-> work[w].status,
                 finished |-> IF work[w].whole THEN work[w].finished ELSE roadmap.finished]
  /\ reopened' = (reopened \/ roadmap' # roadmap)
  /\ At(w, [at |-> "check", lesson |-> l])
  /\ UNCHANGED <<tree, look, graduation, misled, replayed, lost>>

(* checkRoadmapCompletion, finalizeCompletion, emitCompletedSideEffects.   *)
IsComplete == /\ ~roadmap.finished /\ \A l \in Required : progress[l] = "completed"
              /\ Exam # {} => examDone
MayFinish == ~roadmap.finished

Check(w) ==
  /\ work[w].at = "check"
  /\ At(w, IF IsComplete THEN [work[w] EXCEPT !.at = "finish"] ELSE None)
  /\ UNCHANGED <<lessonStatus, progress, results, examDone, tree, look, roadmap,
                 graduation, misled, replayed, reopened, lost>>

Finish(w) ==
  /\ work[w].at = "finish" /\ \A v \in Worker : work[v].at # "dropped"
  /\ roadmap' = IF MayFinish THEN [status |-> "completed", finished |-> TRUE] ELSE roadmap
  /\ tree' = IF MayFinish THEN {} ELSE tree
  /\ At(w, IF MayFinish THEN [work[w] EXCEPT !.at = "pay"] ELSE None)
  /\ UNCHANGED <<lessonStatus, progress, results, examDone, look, graduation,
                 misled, replayed, reopened, lost>>

Granted == graduation > 0
Pay(w) ==
  /\ work[w].at = "pay"
  /\ graduation' = IF Granted THEN graduation ELSE graduation + 1
  /\ At(w, None)
  /\ UNCHANGED <<lessonStatus, progress, results, examDone, tree, look, roadmap,
                 misled, replayed, reopened, lost>>

(* A rollback, or the end of the process after the commit.                 *)
Stop(w) ==
  /\ work[w].at # "none"
  /\ At(w, None)
  /\ lost' = (lost \/ work[w].at \in {"check", "finish", "pay"})
  /\ UNCHANGED <<lessonStatus, progress, results, examDone, tree, look, roadmap,
                 graduation, misled, replayed, reopened>>

(* Rows of lessons and lesson_progress.                                    *)
LessonRow == {"locked", "available", "completed"}
ProgressRow == {"none", "started", "completed"}

(* Another request loads the tree and stores it; it lives for two minutes. *)
Look ==
  /\ tree = {} /\ look = {}
  /\ look' = {Rows}
  /\ UNCHANGED <<lessonStatus, progress, results, examDone, tree, work, roadmap,
                 graduation, misled, replayed, reopened, lost>>

Store ==
  /\ look # {}
  /\ tree' = look /\ look' = {}
  /\ UNCHANGED <<lessonStatus, progress, results, examDone, work, roadmap,
                 graduation, misled, replayed, reopened, lost>>

Expire ==
  /\ tree # {}
  /\ tree' = {}
  /\ UNCHANGED <<lessonStatus, progress, results, examDone, look, work, roadmap,
                 graduation, misled, replayed, reopened, lost>>
-----------------------------------------------------------------------------
Next ==
  \/ \E l \in Unit : Start(l)
  \/ \E w \in Worker : \/ \E l \in Unit : Complete(w, l)
                       \/ Advance(w) \/ Drop(w) \/ Commit(w)
                       \/ Check(w) \/ Finish(w) \/ Pay(w) \/ Stop(w)
  \/ Look \/ Store \/ Expire

Spec == Init /\ [][Next]_trackVars

TypeOK ==
  /\ lessonStatus \in [Unit -> LessonRow]
  /\ progress \in [Unit -> ProgressRow]
  /\ results \subseteq Unit /\ Cardinality(tree) <= 1 /\ Cardinality(look) <= 1
  /\ roadmap \in [status : {"ready", "completed"}, finished : BOOLEAN]
  /\ {examDone, misled, replayed, reopened, lost} \subseteq BOOLEAN

(* Whatever the cache says, the lessons that are completed are those with  *)
(* a result, and the one after a completed one can be played and no other: *)
(* the two healers of getCurrent find nothing to do.                       *)
PathNeverStalls ==
  \A l \in Unit :
    lessonStatus[l] = IF l \in results THEN "completed"
                      ELSE IF l = 1 \/ l - 1 \in results THEN "available" ELSE "locked"

(* A learner who has completed every lesson has graduated and been paid    *)
(* for it, once, when nothing is in progress, though a completion that     *)
(* read the rows before the end saves the roadmap as not finished: it      *)
(* finishes it again.  What such a save leaves behind is a status that is  *)
(* not "completed".  The rest holds unless a completion used a tree that   *)
(* was out of date, a completed lesson was started again (it never counts  *)
(* as completed any more) or the process stopped after the last commit.    *)
GraduatesWhenDone ==
  /\ graduation <= 1 /\ (graduation = 1 => roadmap.finished \/ reopened)
  /\ /\ results = Unit /\ ~misled /\ ~replayed /\ ~lost
     /\ \A w \in Worker : work[w] = None
     => roadmap.finished /\ graduation = 1 /\ (reopened \/ roadmap.status = "completed")
=============================================================================
