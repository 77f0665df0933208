----------------------------- MODULE LessonPlay -----------------------------
(***************************************************************************)
(* The body of one lesson and what its learner does in it: the checks of   *)
(* quiz questions and of active blocks, practice, saved steps, completion  *)
(* and retry (lessons.service.ts, lesson-content.service.ts), with calls   *)
(* that overlap, while the language model rewrites the body                *)
(* (lesson-body-personalizer.service.ts) and the path opens the lesson.    *)
(*                                                                         *)
(* Each call reads the lesson and the progress row, answers from what it   *)
(* read and saves the whole row: a save is one step here, LessonCompletion *)
(* takes it apart and has the attempts and what they pay.  A value of an   *)
(* answer stands for an option, a hotspot, an order, a side, actions.      *)
(***************************************************************************)
EXTENDS Naturals, FiniteSets

CONSTANTS
  Question, Correct,  \* quiz questions, and the right value of each
  PassScore,          \* in percent
  Block, Kind, Right, \* active blocks, the kind of each, its right value
  Value,              \* what a learner may answer
  Device,             \* calls that may overlap
  MaxCalls            \* bound: calls

PlayAssumption ==
  /\ Correct \in [Question -> Value] /\ Right \in [Block -> Value \union {0}]
  /\ Kind \in [Block -> {"scenario", "hotspot", "order", "debate", "sandbox"}]
  /\ \A b \in Block : Right[b] = 0 => Kind[b] = "debate"
  /\ Value \subseteq Nat \ {0} /\ PassScore \in 0..100 /\ MaxCalls \in Nat /\ IsFiniteSet(Question)

VARIABLES
  lesson,   \* the lesson's row: status, body
  progress, \* the lesson_progress row: status, answers, resolved, practice
  outdated, \* the unit's simulation asset is another than the body's
  device,   \* what each call does, and the rows it read
  painter,  \* the personalization job, and the row it read
  answered, \* history: the value last graded of each question, in this play
  graded,   \* history: how often each block was graded, in this play
  reported, \* history: outbox events of each block's grades, in this play
  calls, crossed, \* for the bound; history: a progress row was saved over another's
  reset,    \* history: the lesson's row was saved over another's
  cut       \* history: a call stopped between grade and event

playVars == <<lesson, progress, outdated, device, painter, answered, graded, reported,
              calls, crossed, reset, cut>>

Unset == 0
Open == 0     \* a debate without a preferred side
Unanswered == [q \in Question |-> Unset]
Unresolved == [b \in Block |-> "no"]
Ungraded == [b \in Block |-> 0]
NotStarted == [status |-> "none", answers |-> Unanswered, resolved |-> Unresolved, practice |-> FALSE]
Idle == [do |-> "idle"]

Init ==
  /\ lesson \in [status : {"locked", "available"}, body : {"none", "scaffold"}]
  /\ progress = NotStarted /\ outdated = FALSE
  /\ device = [d \in Device |-> Idle] /\ painter = Idle
  /\ answered = Unanswered /\ graded = Ungraded /\ reported = Ungraded
  /\ calls = 0 /\ crossed = FALSE /\ reset = FALSE /\ cut = FALSE

history == <<answered, graded, reported>>

(* The saves: every column is as it was read but for what the call sets.   *)
SaveProgress(d, row) ==
  /\ progress' = row
  /\ crossed' = (crossed \/ device[d].row # progress)
SaveLesson(read, row) ==
  /\ lesson' = row
  /\ reset' = (reset \/ read # lesson)
-----------------------------------------------------------------------------
(* requireOwnedLesson and requireAttempt: not of a locked lesson, and      *)
(* nothing but start before there is an attempt.                           *)
MayAsk(do) == lesson.status # "locked" /\ (do = "start" \/ progress.status # "none")
Ask(d, do) ==
  /\ device[d] = Idle /\ MayAsk(do) /\ calls < MaxCalls
  /\ calls' = calls + 1
  /\ device' = [device EXCEPT ![d] = [do |-> do, row |-> progress, lesson |-> lesson]]
  /\ UNCHANGED <<lesson, progress, outdated, painter, history, crossed, reset, cut>>

Doing(d, do) == device[d].do = do
Ends(d) == device' = [device EXCEPT ![d] = Idle]
HasBody(d) == device[d].lesson.body # "none"

(* ensurePlayContent: a lesson without a body takes its unit's.            *)
Backfill(d) ==
  /\ ~Doing(d, "idle") /\ ~Doing(d, "event") /\ ~HasBody(d)
  /\ LET filled == [device[d].lesson EXCEPT !.body = "scaffold"]
     IN  /\ SaveLesson(device[d].lesson, filled)
         /\ device' = [device EXCEPT ![d].lesson = filled]
  /\ UNCHANGED <<progress, outdated, painter, history, calls, crossed, cut>>

(* start: a finished lesson is played again from nothing.                  *)
Begun(row) == IF row.status = "completed" THEN [NotStarted EXCEPT !.status = "started"]
              ELSE [row EXCEPT !.status = "started"]
Start(d) ==
  /\ Doing(d, "start") /\ HasBody(d) /\ Ends(d)
  /\ SaveProgress(d, Begun(device[d].row))
  /\ IF device[d].row.status = "completed"
     THEN answered' = Unanswered /\ graded' = Ungraded /\ reported' = Ungraded
     ELSE UNCHANGED history
  /\ UNCHANGED <<lesson, outdated, painter, calls, reset, cut>>

(* patchSession: keys of the session are replaced, the others stay.        *)
OnlyAnswers(row, answers) == [NotStarted EXCEPT !.status = row.status, !.answers = answers]
PatchAnswers(row, answers) == [row EXCEPT !.answers = answers]
PatchResolved(row, resolved) == [row EXCEPT !.resolved = resolved, !.practice = TRUE]

(* checkQuiz, and saveProgress with an answer.                             *)
CheckQuiz(d, q, v) ==
  /\ Doing(d, "quiz") /\ HasBody(d) /\ Ends(d)
  /\ SaveProgress(d, PatchAnswers(device[d].row, [device[d].row.answers EXCEPT ![q] = v]))
  /\ answered' = [answered EXCEPT ![q] = v]
  /\ UNCHANGED <<lesson, outdated, painter, graded, reported, calls, reset, cut>>

CheckPractice(d) ==
  /\ Doing(d, "practice") /\ HasBody(d) /\ Ends(d)
  /\ SaveProgress(d, [device[d].row EXCEPT !.practice = TRUE])
  /\ UNCHANGED <<lesson, outdated, painter, history, calls, reset, cut>>
-----------------------------------------------------------------------------
(* The grades.  An open debate has no wrong side.                          *)
GradeScenario(b, v) == v = Right[b]
GradeVisualHotspot(b, v) == v = Right[b]
GradeDragOrder(b, v) == v = Right[b]
GradeDebate(b, v) == Right[b] = Open \/ v = Right[b]
GradeSandbox(b, v) == v = Right[b]
Grade(b, v) ==
  CASE Kind[b] = "scenario" -> GradeScenario(b, v)
    [] Kind[b] = "hotspot" -> GradeVisualHotspot(b, v)
    [] Kind[b] = "order" -> GradeDragOrder(b, v)
    [] Kind[b] = "debate" -> GradeDebate(b, v)
    [] Kind[b] = "sandbox" -> GradeSandbox(b, v)

(* What a body holds of a block, what GET /play strips of it, and what the *)
(* grade is read from.                                                     *)
BlockFields ==
  [scenario |-> {"setup", "options", "correctOptionId", "outcomes"},
   hotspot |-> {"imageAssetKey", "hotspots", "correctHotspotId", "explanation"},
   order |-> {"items", "correctOrderHash", "correctOrder", "explanation"},
   debate |-> {"prompt", "sideA", "sideB", "preferredSide", "feedbackA", "feedbackB"},
   sandbox |-> {"simulationAssetKey", "actions", "correctActions", "outcomeCopy"},
   question |-> {"q", "options", "answer", "explain"}]
GradedBy ==
  [scenario |-> {"correctOptionId", "outcomes"}, hotspot |-> {"correctHotspotId", "explanation"},
   order |-> {"correctOrderHash", "correctOrder"}, debate |-> {"preferredSide", "feedbackA", "feedbackB"},
   sandbox |-> {"correctActions", "outcomeCopy"}, question |-> {"answer", "explain"}]
LegacySecrets == {"answer", "explain", "correctOptionId", "explanation"}
PlaySecretKeys ==
  {"answer", "explain", "correctOptionId", "explanation", "correctHotspotId", "correctOrderHash",
   "correctOrder", "correctActions", "outcomes", "preferredSide", "feedbackA", "feedbackB", "outcomeCopy"}
PublicBlock(kind) == BlockFields[kind] \ PlaySecretKeys

(* A block that was resolved when the call read is refused, a sandbox also *)
(* when the unit has got another simulation.                               *)
AnyBlock(row, b) == TRUE
MayResolve(row, b) == row.resolved[b] = "no" /\ ~(Kind[b] = "sandbox" /\ outdated)

CheckActiveBlock(d, b, v) ==
  /\ Doing(d, "block") /\ HasBody(d) /\ MayResolve(device[d].row, b)
  /\ SaveProgress(d, PatchResolved(device[d].row,
       [device[d].row.resolved EXCEPT ![b] = IF Grade(b, v) THEN "right" ELSE "wrong"]))
  /\ graded' = [graded EXCEPT ![b] = @ + 1]
  /\ device' = [device EXCEPT ![d] = [do |-> "event", block |-> b]]
  /\ UNCHANGED <<lesson, outdated, painter, answered, reported, calls, reset, cut>>

Refused(d) ==
  /\ Doing(d, "block") /\ HasBody(d) /\ \E b \in Block : ~MayResolve(device[d].row, b)
  /\ Ends(d)
  /\ UNCHANGED <<lesson, progress, outdated, painter, history, calls, crossed, reset, cut>>

(* emitActiveResolved, after the save and in a transaction of its own.     *)
EmitResolved(d) ==
  /\ Doing(d, "event") /\ Ends(d)
  /\ reported' = [reported EXCEPT ![device[d].block] = IF graded[device[d].block] = 0 THEN @ ELSE @ + 1]
  /\ UNCHANGED <<lesson, progress, outdated, painter, answered, graded, calls, crossed, reset, cut>>

Stop(d) ==
  /\ ~Doing(d, "idle") /\ Ends(d)
  /\ cut' = (cut \/ Doing(d, "event"))
  /\ UNCHANGED <<lesson, progress, outdated, painter, history, calls, crossed, reset>>
-----------------------------------------------------------------------------
(* complete: the answers it read with those it was sent, scored.           *)
ScoreQuiz(answers) ==
  (200 * Cardinality({q \in Question : answers[q] = Correct[q]}) + Cardinality(Question))
    \div (2 * Cardinality(Question))
AnyScore(answers) == TRUE
Passes(answers) == Question = {} \/ ScoreQuiz(answers) >= PassScore

Sent == {Unanswered} \union {[Unanswered EXCEPT ![q] = v] : q \in Question, v \in Value}
Merged(old, new) == [q \in Question |-> IF new[q] = Unset THEN old[q] ELSE new[q]]

Complete(d, sent) ==
  LET answers == Merged(device[d].row.answers, sent)
  IN  /\ Doing(d, "complete") /\ HasBody(d) /\ Passes(answers) /\ Ends(d)
      \* the transaction reads the progress again, and sets what it found out before
      /\ progress' = [progress EXCEPT !.status = "completed", !.answers = answers,
                        !.practice = device[d].row.practice]
      /\ crossed' = (crossed \/ device[d].row # progress)
      /\ SaveLesson(device[d].lesson, [device[d].lesson EXCEPT !.status = "completed"])
      /\ answered' = Merged(answered, sent)
      /\ UNCHANGED <<outdated, painter, graded, reported, calls, cut>>

NotPassed(d, sent) ==
  /\ Doing(d, "complete") /\ HasBody(d) /\ ~Passes(Merged(device[d].row.answers, sent)) /\ Ends(d)
  /\ UNCHANGED <<lesson, progress, outdated, painter, history, calls, crossed, reset, cut>>
-----------------------------------------------------------------------------
(* The path opens the lesson; the administration changes the unit.         *)
Unlock ==
  /\ lesson.status = "locked" /\ lesson' = [lesson EXCEPT !.status = "available"]
  /\ UNCHANGED <<progress, outdated, device, painter, history, calls, crossed, reset, cut>>

UnitChanged ==
  /\ ~outdated /\ outdated' = TRUE
  /\ UNCHANGED <<lesson, progress, device, painter, history, calls, crossed, reset, cut>>

(* personalizeLesson: the row it read is saved when the model has answered. *)
ReadLesson ==
  /\ painter = Idle /\ lesson.body = "scaffold"
  /\ painter' = [do |-> "waits", lesson |-> lesson]
  /\ UNCHANGED <<lesson, progress, outdated, device, history, calls, crossed, reset, cut>>

MergeRewrite ==
  /\ painter.do = "waits" /\ painter' = Idle
  /\ SaveLesson(painter.lesson, [painter.lesson EXCEPT !.body = "personal"])
  /\ UNCHANGED <<progress, outdated, device, history, calls, crossed, cut>>

SoftFail ==
  /\ painter.do = "waits" /\ painter' = Idle
  /\ UNCHANGED <<lesson, progress, outdated, device, history, calls, crossed, reset, cut>>

Next ==
  \/ \E d \in Device : \/ \E do \in {"start", "quiz", "practice", "block", "complete"} : Ask(d, do)
                       \/ Backfill(d) \/ Start(d) \/ CheckPractice(d)
                       \/ \E q \in Question, v \in Value : CheckQuiz(d, q, v)
                       \/ \E b \in Block, v \in Value : CheckActiveBlock(d, b, v)
                       \/ Refused(d) \/ EmitResolved(d) \/ Stop(d)
                       \/ \E s \in Sent : Complete(d, s) \/ NotPassed(d, s)
  \/ Unlock \/ UnitChanged \/ ReadLesson \/ MergeRewrite \/ SoftFail

Spec == Init /\ [][Next]_playVars
-----------------------------------------------------------------------------
(* The tables and the calls that run.                                      *)
ProgressRow ==
  [status : {"none", "started", "completed"}, answers : [Question -> Value \union {Unset}],
   resolved : [Block -> {"no", "right", "wrong"}], practice : BOOLEAN]
LessonRow ==
  [status : {"locked", "available", "completed"}, body : {"none", "scaffold", "personal"}]

TypeOK ==
  /\ lesson \in LessonRow /\ progress \in ProgressRow
  /\ \A d \in Device :
       \/ device[d] \in {Idle} \union [do : {"event"}, block : Block]
       \/ /\ device[d].row \in ProgressRow /\ device[d].lesson \in LessonRow
          /\ device[d].do \in {"start", "quiz", "practice", "block", "complete"}
  /\ painter = Idle \/ painter.lesson \in LessonRow
  /\ answered \in [Question -> Value \union {Unset}]
  /\ graded \in [Block -> 0..MaxCalls] /\ reported \in [Block -> 0..MaxCalls]
  /\ calls \in 0..MaxCalls /\ {outdated, crossed, reset, cut} \subseteq BOOLEAN

(* Calls that do not overlap lose no answer: the session holds what was    *)
(* graded last, of each question (the merges of checkQuiz, complete).      *)
AnswersAreKept == ~crossed => progress.answers = answered

(* A block is graded once a play, SCENARIO_BLOCK_ALREADY_RESOLVED          *)
(* otherwise, and the session knows of it; every grade is reported unless  *)
(* the call stops before.                                                  *)
Reporting(b) == Cardinality({d \in Device : Doing(d, "event") /\ device[d].block = b})
BlocksGradedOnce ==
  /\ ~crossed => \A b \in Block : /\ graded[b] <= 1
                                  /\ (progress.resolved[b] = "no") = (graded[b] = 0)
  /\ ~cut /\ ~crossed => \A b \in Block : reported[b] + Reporting(b) >= graded[b]

(* What a learner can see of a block before its check does not tell how it *)
(* will be graded.                                                         *)
NothingGivenAway == \A k \in DOMAIN BlockFields : PublicBlock(k) \intersect GradedBy[k] = {}

(* A quiz that is completed was passed, with the answers its learner gave. *)
CompletedWhenPassed ==
  (progress.status # "completed" /\ progress'.status = "completed" /\ ~crossed')
    => Question = {} \/ ScoreQuiz(answered') >= PassScore

(* An open lesson is not locked again, a finished one stays so and a       *)
(* rewritten body is kept, but for a save of a row that changed since.     *)
Stage(l) == CASE l.status = "locked" -> 0 [] l.status = "available" -> 1 [] l.status = "completed" -> 2
LessonStaysOpen ==
  ~reset' => /\ Stage(lesson') >= Stage(lesson)
             /\ lesson.body = "personal" => lesson'.body = "personal"
=============================================================================
