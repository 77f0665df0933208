--------------------------- MODULE LearnerProfile ---------------------------
(***************************************************************************)
(* What the answers of the questionnaire say of a learner: the stage they  *)
(* begin at and how sure it is, whether to test it, the time a week holds  *)
(* and whether the aim fits its deadline (learner-profiling.service.ts).   *)
(* A learner revises one answer at a time, from an empty form; each draft  *)
(* is derived afresh and shown as a preview.                               *)
(*                                                                         *)
(* Scores are kept as integers over a common weight: exact, as the code's  *)
(* numbers are for up to two skills.  An answer that is missing or that    *)
(* the code does not know is "" or 0; it also stands for an exposure of    *)
(* the old form, which was a plain list of skills.                         *)
(***************************************************************************)
EXTENDS Integers, Sequences, FiniteSets, SequencesExt, FiniteSetsExt, Functions

CONSTANTS
  Skill,        \* skills the form asks for
  Frequencies, Calibrations, Targets, Sessions, DayCounts,  \* answers tried
  Role          \* roles a goal may name

ProfileAssumption ==
  /\ IsFiniteSet(Skill) /\ Frequencies \subseteq STRING /\ Calibrations \subseteq STRING /\ Targets \subseteq STRING
  /\ Sessions \subseteq Nat /\ DayCounts \subseteq 0..7

VARIABLE answers  \* the draft

profileVars == <<answers>>

(* What a token scores (constants/profiling.ts).                           *)
EXPOSURE_SCORES ==
  [heard_of |-> 15, follow_with_help |-> 35, use_independently |-> 65, use_professionally |-> 85]
USE_FREQUENCY_SCORES ==
  [never_used |-> 0, personal_projects |-> 25, studied_before |-> 40, work_sometimes |-> 65, work_regularly |-> 85]
CONFIDENCE_CALIBRATION == [starting |-> -3, beginner |-> -1, somewhat |-> 0, confident |-> 2, very |-> 4]
SelfOfConfidence == [starting |-> 1, beginner |-> 1, somewhat |-> 2, confident |-> 3, very |-> 4]
TARGET_OUTCOME_STAGE == [understand_basics |-> 2, use_independently |-> 3, build_advanced |-> 4, job_ready |-> 5]
WEEKLY_HOURS == <<120, 240, 390, 600, 840>>
DEADLINE_WEEKS == <<8, 16, 24, 40>>
STYLE_TO_FORMAT == [doing |-> "doing", hands_on |-> "doing", videos |-> "videos", quizzes |-> "quiz"]
ScoreOf(scores, token, otherwise) == IF token \in DOMAIN scores THEN scores[token] ELSE otherwise

Missing == ""
NotNamed == "unnamed"
Blank ==
  [self |-> 0, skills |-> [s \in Skill |-> NotNamed], frequency |-> Missing, calibration |-> Missing,
   target |-> Missing, hours |-> 0, session |-> 0, days |-> 0, deadline |-> 0, styles |-> {}, goal |-> <<>>]
LevelFields == {"self", "skills", "frequency", "calibration"}
TimeFields == {"hours", "session", "days", "deadline"}
TasteFields == {"styles", "goal"}
Values ==
  [self |-> 0..5, skills |-> [Skill -> DOMAIN EXPOSURE_SCORES \union {NotNamed, Missing}],
   frequency |-> Frequencies \union {Missing}, calibration |-> Calibrations \union {Missing},
   target |-> Targets \union {Missing}, hours |-> 0..Len(WEEKLY_HOURS),
   session |-> Sessions \union {0}, days |-> DayCounts, deadline |-> 0..Len(DEADLINE_WEEKS),
   styles |-> SUBSET DOMAIN STYLE_TO_FORMAT, goal |-> UNION {[1..n -> Role] : n \in 0..2}]
-----------------------------------------------------------------------------
Evidence(a) == {s \in Skill : a.skills[s] # NotNamed}
Exposure(a, s) == IF a.skills[s] = Missing THEN "heard_of" ELSE a.skills[s]
Calibration(a) == ScoreOf(CONFIDENCE_CALIBRATION, a.calibration, 0)
SelfStage(a) == IF a.self \in 1..5 THEN a.self ELSE ScoreOf(SelfOfConfidence, a.calibration, 1)
Clamped(n, most) == Max({0, Min({n, most})})

(* A score below 20 is stage 1, below 40 stage 2, ... of 100 times `whole`. *)
ScoreToStage(score, whole) == 1 + Cardinality({k \in 1..4 : score >= 20 * k * whole})
ExposureToStage(token) == ScoreToStage(EXPOSURE_SCORES[token], 1)

(* The signals of a level, each times the number of skills named: what     *)
(* the learner says, that moved by their confidence, how often they use    *)
(* it, and the exposures.                                                  *)
SkillCount(a) == Max({1, Cardinality(Evidence(a))})
Said(a) == 20 * SelfStage(a) - 10
Moved(a) == Clamped(Said(a) + 5 * Calibration(a), 100)
Context(a) == ScoreOf(USE_FREQUENCY_SCORES, a.frequency, 0)
Exposures(a) == MapThenSumSet(LAMBDA s : EXPOSURE_SCORES[Exposure(a, s)], Evidence(a))
Signals(a) ==
  {SkillCount(a) * value : value \in {Said(a), Moved(a), Context(a)}}
    \union (IF Evidence(a) = {} THEN {} ELSE {Exposures(a)})

(* The weighted mean of the signals, moved by the confidence again.        *)
Stage(a) ==
  LET whole == SkillCount(a) * (IF Evidence(a) = {} THEN 50 ELSE 90)
      sum == SkillCount(a) * (30 * Said(a) + 15 * Context(a) + 5 * Moved(a)) + 40 * Exposures(a)
  IN ScoreToStage(Clamped(sum + Calibration(a) * whole, 100 * whole), whole)

(* High or medium asks for a skill and for signals that agree.             *)
Confidence(a) ==
  LET n == Cardinality(Evidence(a))  spread == Max(Signals(a)) - Min(Signals(a))
  IN CASE n = 0 \/ spread > 35 * n -> "low"
       [] spread <= 20 * n -> "high"
       [] OTHER -> "medium"

(* "Clear beginners with no skips do not need a heavy placement gate."     *)
ProClaim(a) == \E s \in Evidence(a) : Exposure(a, s) = "use_professionally"
Target(a) == ScoreOf(TARGET_OUTCOME_STAGE, a.target, 2)
Apart(a) == Max({SelfStage(a) - Stage(a), Stage(a) - SelfStage(a)})
OnlyClaims(a) == ProClaim(a) /\ Confidence(a) # "high"
Diagnosed(a) ==
  /\ \/ Stage(a) >= 3
     \/ Apart(a) > 1
     \/ Confidence(a) = "low" /\ Stage(a) >= 2
     \/ ProClaim(a) /\ Confidence(a) # "high"
     \/ Target(a) >= 4 /\ Confidence(a) = "low"
  /\ ~(Stage(a) <= 1 /\ SelfStage(a) <= 2 /\ Target(a) <= 3 /\ ~ProClaim(a))

(* Minutes of a week: what was declared, or what the days hold, less what  *)
(* life takes ("CAPACITY_SUSTAINABILITY"), rounded.                        *)
Declared(a) == IF a.hours = 0 THEN WEEKLY_HOURS[2] ELSE WEEKLY_HOURS[a.hours]
Session(a) == IF a.session \in 15..180 THEN a.session ELSE 45
Effective(a) == (8 * Min({Declared(a), (IF a.days = 0 THEN 3 ELSE a.days) * Session(a)}) + 5) \div 10
Pace(a) == CASE Effective(a) < 150 -> "light" [] Effective(a) <= 300 -> "balanced"
             [] Effective(a) <= 540 -> "focused" [] OTHER -> "intensive"

Distance(a) == Max({Stage(a) - Target(a), Target(a) - Stage(a)})
Gap(a) == Max({0, Target(a) - Stage(a)})
Content(a) == Max({1, Gap(a)}) * 6 * 45
WholeWeeks(a) == Content(a) \div Effective(a)
WeeksNeeded(a) == (Content(a) + Effective(a) - 1) \div Effective(a)
Feasibility(a) ==
  IF a.deadline = 0 THEN "feasible"
  ELSE LET weeks == DEADLINE_WEEKS[a.deadline]  need == WeeksNeeded(a)
       IN CASE need <= weeks -> "feasible"
            [] 10 * need <= 11 * weeks -> "slightly_tight"
            [] 4 * need <= 5 * weeks -> "intensive_option"
            [] OTHER -> "unrealistic"

(* Thousandths; four formats share when no style was named.                *)
StyleWeights(a) ==
  LET formats == {STYLE_TO_FORMAT[s] : s \in a.styles}  n == Cardinality(formats)
  IN IF n = 0 THEN [doing |-> 350, reading |-> 250, videos |-> 200, quiz |-> 200]
     ELSE [f \in formats |-> (2000 + n) \div (2 * n)]
Tracks(a) ==
  IF a.goal = <<>> THEN [primary |-> {}, secondary |-> <<>>]
  ELSE [primary |-> {a.goal[1]}, secondary |-> SelectSeq(Tail(a.goal), LAMBDA r : r # a.goal[1])]

Preview(a) ==
  [tracks |-> Tracks(a), self |-> SelfStage(a), stage |-> Stage(a), confidence |-> Confidence(a),
   target |-> Target(a), gap |-> Gap(a), pace |-> Pace(a), minutes |-> Effective(a), session |-> Session(a),
   skills |-> [s \in Evidence(a) |-> ExposureToStage(Exposure(a, s))],
   diagnosed |-> Diagnosed(a), feasibility |-> Feasibility(a), styles |-> StyleWeights(a)]
-----------------------------------------------------------------------------
(* Bound: a draft answers the level, the time or the taste, and the aim.   *)
Within(a) ==
  LET blank == Blank
      Blanks(fields) == \A f \in fields : a[f] = blank[f]
  IN \/ Blanks(TimeFields) /\ Blanks(TasteFields)
     \/ Blanks(LevelFields) /\ (Blanks(TasteFields) \/ Blanks(TimeFields))

Init == answers = Blank
Revise(f, v) ==
  /\ answers[f] # v /\ answers' = [answers EXCEPT ![f] = v]
  /\ Within(answers')
Rate(s, token) == Revise("skills", [answers.skills EXCEPT ![s] = token])
Next ==
  \/ \E f \in DOMAIN Values \ {"skills"} : \E v \in Values[f] : Revise(f, v)
  \/ \E s \in Skill, token \in DOMAIN EXPOSURE_SCORES \union {NotNamed, Missing} : Rate(s, token)
ProfileSpec == Init /\ [][Next]_profileVars
-----------------------------------------------------------------------------
(* A draft holds answers.                                                  *)
TypeOK == DOMAIN answers = DOMAIN Values /\ \A f \in DOMAIN Values : answers[f] \in Values[f]

(* A learner who is not tested begins low, near where they say they are,   *)
(* and claims to be a professional only with signals that agree; signals   *)
(* that agree never place a learner far from what they say                 *)
(* (placementDecision, computeConfidence).                                 *)
UntestedIsSafe ==
  LET shown == Preview(answers)
      far == ~(shown.self - shown.stage \in -1..1)
  IN /\ ~shown.diagnosed => shown.stage <= 2 /\ ~far /\ (ProClaim(answers) => shown.confidence = "high")
     /\ shown.confidence = "high" => ~far

(* A plan shown as feasible can be done in the time, a tight one nearly,   *)
(* and one shown as more than that cannot, although weeks are rounded up   *)
(* and minutes are rounded (computeFeasibility, computeCapacity); every    *)
(* style that was named weighs, and the weights are a whole but for what   *)
(* rounding takes (normalizeStyleWeights).                                 *)
PreviewIsTrue ==
  LET shown == Preview(answers)
      time == DEADLINE_WEEKS[answers.deadline] * shown.minutes
      work == Max({1, shown.gap}) * 270
      total == MapThenSumSet(LAMBDA f : shown.styles[f], DOMAIN shown.styles)
  IN /\ 10 * shown.minutes <= 8 * Declared(answers) + 5
     /\ answers.deadline # 0 =>
          CASE shown.feasibility = "feasible" -> work <= time
            [] shown.feasibility = "slightly_tight" -> work > time /\ 10 * work <= 11 * time
            [] OTHER -> work > time
     /\ \A s \in answers.styles : STYLE_TO_FORMAT[s] \in DOMAIN shown.styles
     /\ total \in 995..1005
     /\ \A f \in DOMAIN shown.styles : shown.styles[f] > 0

(* Saying that one knows more never lowers the stage or widens the gap; a  *)
(* week with more time never holds less nor makes an aim less feasible,    *)
(* nor does a later deadline or a lower aim.  (What was missing is         *)
(* another matter: no day named stands for three.)                         *)
Rank == [feasible |-> 0, slightly_tight |-> 1, intensive_option |-> 2, unrealistic |-> 3]
Same(a, b, fields) == \A f \in fields : a[f] = b[f]
MoreClaimed(a, b) ==
  /\ Same(a, b, DOMAIN a \ LevelFields)
  /\ SelfStage(b) >= SelfStage(a) /\ (a.self = b.self \/ a.self \in 1..5)
  /\ Context(b) >= Context(a) /\ Calibration(b) >= Calibration(a)
  /\ Evidence(a) = Evidence(b)
  /\ \A s \in Evidence(a) : EXPOSURE_SCORES[Exposure(b, s)] >= EXPOSURE_SCORES[Exposure(a, s)]
MoreTime(a, b) ==
  /\ Same(a, b, DOMAIN a \ TimeFields) /\ a.deadline = b.deadline
  /\ Declared(b) >= Declared(a) /\ Session(b) >= Session(a) /\ (a.days = b.days \/ a.days \in 1..b.days)
Easier(a, b) ==
  /\ Same(a, b, DOMAIN a \ {"deadline", "target"}) /\ Target(b) <= Target(a)
  /\ (b.deadline = 0 \/ a.deadline \in 1..b.deadline)

MoreIsMore ==
  LET NoWorse == Rank[Feasibility(answers')] <= Rank[Feasibility(answers)]
  IN /\ MoreClaimed(answers, answers') => Stage(answers') >= Stage(answers) /\ Gap(answers') <= Gap(answers)
     /\ MoreTime(answers, answers') => Effective(answers') >= Effective(answers) /\ NoWorse
     /\ Easier(answers, answers') => NoWorse
=============================================================================
