--------------------------- MODULE SkillEvidence ---------------------------
(***************************************************************************)
(* What lessons show of a learner's skills (recordSkillEvidence and        *)
(* refreshProfileStageFromEstimates of lesson-completion.orchestrator.ts): *)
(* after the completion's commit, each skill's estimate of the current     *)
(* profile is read, changed and saved, then the profile's own stage is     *)
(* taken from the medians of the estimates.  Meanwhile the learner may     *)
(* answer the questionnaire again or ask to be assessed again, which makes *)
(* the next version of the profile (questionnaire.service.ts).             *)
(*                                                                         *)
(* Recording is no transaction and nobody waits for it: it may be late,    *)
(* overlap another one, or end with its process.  Two requests that        *)
(* complete one lesson record the same attempt, so a lesson stands for its *)
(* attempt here.                                                           *)
(***************************************************************************)
EXTENDS Naturals, Sequences, FiniteSets, SequencesExt, FiniteSetsExt

CONSTANTS
  Skill,       \* coarse slugs, by which estimates are kept
  Lesson,
  Teaches,     \* of each lesson: its coarse slugs in order, with the parts of each
  Checkpoint,  \* lessons of a checkpoint unit with a quiz
  Serves,      \* of each lesson: the highest stage it serves, or 0
  Recorder,    \* handlers that may overlap
  Claims,      \* what answers come to: a stage, and one of each skill they name
  Target,      \* the stage aimed at
  MaxVersions, MaxReports  \* bounds

EvidenceAssumption ==
  /\ Target \in 1..5 /\ MaxVersions \in Nat /\ MaxReports \in Nat
  /\ \A c \in Claims : /\ c.stage \in 1..5 /\ DOMAIN c.skills \subseteq Skill
                        /\ c.skills \in [DOMAIN c.skills -> 1..5]
  /\ Teaches \in [Lesson -> Seq(Skill \X SUBSET Nat)] /\ Serves \in [Lesson -> 0..5]
  /\ Checkpoint \subseteq Lesson

VARIABLES
  profile,     \* learner_profile_snapshots by version, with their estimates
  recorder,    \* what each handler does, and what it has read
  outcome,     \* history: how each lesson was passed, once it was reported
  latest,      \* history: the lesson reported last
  claim,       \* history: the claim that the current profile began with
  proof,       \* history: lessons reported to the profile since that claim
  reports,     \* for the bound
  overlapped, stopped, mixed  \* history: handlers overlapped; one stopped; a
               \* lesson was reported a second time after another one

evidenceVars == <<profile, recorder, outcome, latest, claim, proof, reports, overlapped, stopped, mixed>>

None == 0
Idle == [do |-> "idle"]
Outcomes == {"shaky", "fair", "strong"}
Gap(stage) == IF stage < Target THEN Target - stage ELSE 0
Estimate(stage) == [stage |-> stage, verified |-> None, confidence |-> "low", last |-> {}]
FromClaim(c) ==
  [stage |-> c.stage, verified |-> None, gap |-> Gap(c.stage), sure |-> FALSE, diagnose |-> FALSE,
   estimates |-> [s \in DOMAIN c.skills |-> Estimate(c.skills[s])]]

Init ==
  /\ claim \in Claims /\ profile = <<FromClaim(claim)>>
  /\ recorder = [r \in Recorder |-> Idle] /\ proof = {}
  /\ outcome = [l \in Lesson |-> "none"] /\ latest = {}
  /\ reports = 0 /\ overlapped = FALSE /\ stopped = FALSE /\ mixed = FALSE

Current == Len(profile)
Parts(l, s) == UNION {t[2] : t \in {u \in Range(Teaches[l]) : u[1] = s}}
Taught(l) == {t[1] : t \in Range(Teaches[l])}
Begins(r, what) ==
  /\ recorder[r] = Idle /\ recorder' = [recorder EXCEPT ![r] = what]
  /\ overlapped' = (overlapped \/ \E q \in Recorder \ {r} : recorder[q] # Idle)
At(r, at) == recorder[r].do = at
Goes(r, what) == recorder' = [recorder EXCEPT ![r] = what @@ @]
Kept == UNCHANGED <<outcome, latest, claim, proof, reports, overlapped, stopped, mixed>>
-----------------------------------------------------------------------------
(* The completion has committed.  Shaky: remediation or a quiz below 70;   *)
(* strong: without remediation, 80 or more, or the practice done.          *)
Report(r, l, how) ==
  /\ reports < MaxReports /\ reports' = reports + 1
  /\ outcome[l] \in {"none", how}
  /\ Begins(r, [do |-> "record", version |-> Current, lesson |-> l, left |-> Teaches[l], changed |-> FALSE])
  /\ outcome' = [outcome EXCEPT ![l] = how] /\ latest' = {l} /\ proof' = proof \union {l}
  /\ mixed' = (mixed \/ (outcome[l] # "none" /\ latest # {l}))
  /\ UNCHANGED <<profile, claim, stopped>>

(* "Idempotent per attemptId+skillSlug": each part of a skill knows the    *)
(* attempt that was recorded last.                                         *)
AllParts(est, l, s) == Parts(l, s)
Pending(est, l, s) == {part \in Parts(l, s) : <<part, l>> \notin est.last}

Uncapped(l, stage) == stage
Proven(l, stage) == Min({stage, Target, IF Serves[l] = 0 THEN Target ELSE Serves[l]})
Updated(est, l, s) ==
  LET strong == outcome[l] = "strong"
      stage == IF strong /\ est.stage < Target THEN est.stage + 1 ELSE est.stage
  IN  [stage |-> stage,
       verified |-> IF strong /\ l \in Checkpoint THEN Max({est.verified, Proven(l, stage)}) ELSE est.verified,
       confidence |-> CASE outcome[l] = "shaky" -> "low"
                        [] strong /\ l \in Checkpoint -> "high"
                        [] strong /\ est.confidence = "low" -> "medium"
                        [] OTHER -> est.confidence,
       last |-> {e \in est.last : e[1] \notin Parts(l, s)} \union (Parts(l, s) \X {l})]

ReadEstimate(r) ==
  LET q == recorder[r]
      s == Head(q.left)[1]
      table == profile[q.version].estimates
      found == s \in DOMAIN table
      est == IF found THEN table[s] ELSE Estimate(1)
  IN  /\ At(r, "record") /\ q.left # <<>>
      /\ IF Pending(est, q.lesson, s) = {} THEN Goes(r, [left |-> Tail(q.left)])
         ELSE Goes(r, [do |-> "save", skill |-> s, row |-> Updated(est, q.lesson, s), found |-> found])
      /\ Kept /\ UNCHANGED profile

(* A second row for the skill is refused, and the refusal is not looked at. *)
SaveEstimate(r) ==
  LET q == recorder[r]
      refused == ~q.found /\ q.skill \in DOMAIN profile[q.version].estimates
  IN  /\ At(r, "save") /\ Kept
      /\ recorder' = [recorder EXCEPT ![r] =
           [do |-> "record", version |-> q.version, lesson |-> q.lesson, left |-> Tail(q.left),
            changed |-> q.changed \/ ~refused]]
      /\ profile' = IF refused THEN profile
                    ELSE [profile EXCEPT ![q.version].estimates = [s \in {q.skill} |-> q.row] @@ @]

(* refreshProfileStageFromEstimates: the lower medians of the estimates;   *)
(* then the profile, which is read and saved.                              *)
Median(stages) ==
  LET below(n) == Cardinality({s \in DOMAIN stages : stages[s] < n})
      half == (Cardinality(DOMAIN stages) - 1) \div 2
  IN  CHOOSE n \in 0..5 : below(n) <= half /\ below(n + 1) > half
StagesOf(table) == [s \in DOMAIN table |-> table[s].stage]
VerifiedOf(table) == [s \in {x \in DOMAIN table : table[x].verified # None} |-> table[s].verified]

ReadEstimates(r) ==
  LET table == profile[recorder[r].version].estimates
  IN  /\ At(r, "record") /\ recorder[r].left = <<>> /\ Kept /\ UNCHANGED profile
      /\ IF recorder[r].changed
         THEN recorder' = [recorder EXCEPT ![r] =
                [do |-> "refresh", version |-> @.version, stages |-> StagesOf(table), verified |-> VerifiedOf(table)]]
         ELSE recorder' = [recorder EXCEPT ![r] = Idle]

MedianOnly(stage, stages) == Median(stages)
Raised(stage, stages) == Max({stage, Median(stages)})
ReadProfile(r) ==
  LET q == recorder[r]
      own == profile[q.version]
      stage == Raised(own.stage, q.stages)
      verified == IF q.verified = <<>> THEN own.verified ELSE Raised(own.verified, q.verified)
  IN  /\ At(r, "refresh") /\ Kept /\ UNCHANGED profile
      /\ recorder' = [recorder EXCEPT ![r] =
           [do |-> "own", version |-> q.version, stage |-> stage, verified |-> verified,
            sure |-> own.sure \/ (verified # None /\ verified >= stage)]]

SaveProfile(r) ==
  LET q == recorder[r]
  IN  /\ At(r, "own") /\ Kept /\ recorder' = [recorder EXCEPT ![r] = Idle]
      /\ profile' = [profile EXCEPT ![q.version] =
           [@ EXCEPT !.stage = q.stage, !.verified = q.verified, !.gap = Gap(q.stage), !.sure = q.sure]]

(* submit: the next version is what the answers say, and no more.          *)
Submit(c) ==
  /\ Current < MaxVersions
  /\ profile' = Append(profile, FromClaim(c)) /\ claim' = c /\ proof' = {}
  /\ overlapped' = (overlapped \/ \E r \in Recorder : recorder[r] # Idle)
  /\ UNCHANGED <<recorder, outcome, latest, reports, stopped, mixed>>

(* reassess: the current version is read; its copy asks for a diagnosis.   *)
Reassess(r) ==
  /\ Current < MaxVersions
  /\ Begins(r, [do |-> "copy", version |-> Current + 1, row |-> [profile[Current] EXCEPT !.diagnose = TRUE]])
  /\ UNCHANGED <<profile, outcome, latest, claim, proof, reports, stopped, mixed>>

CommitCopy(r) ==
  LET q == recorder[r]
  IN  /\ At(r, "copy") /\ Kept /\ recorder' = [recorder EXCEPT ![r] = Idle]
      /\ profile' = IF q.version \in DOMAIN profile THEN profile ELSE Append(profile, q.row)

Stop(r) ==
  /\ recorder[r] # Idle /\ recorder' = [recorder EXCEPT ![r] = Idle] /\ stopped' = TRUE
  /\ UNCHANGED <<profile, outcome, latest, claim, proof, reports, overlapped, mixed>>

Next ==
  \/ \E r \in Recorder :
       \/ \E l \in Lesson, how \in Outcomes : Report(r, l, how)
       \/ ReadEstimate(r) \/ SaveEstimate(r) \/ ReadEstimates(r) \/ ReadProfile(r) \/ SaveProfile(r)
       \/ Reassess(r) \/ CommitCopy(r) \/ Stop(r)
  \/ \E c \in Claims : Submit(c)

Spec == Init /\ [][Next]_evidenceVars
-----------------------------------------------------------------------------
EstimateRow == [stage : 1..5, verified : 0..5, confidence : {"low", "medium", "high"},
                last : SUBSET (Nat \X Lesson)]
TypeOK ==
  /\ Current \in 1..MaxVersions
  /\ \A v \in DOMAIN profile :
       /\ profile[v].stage \in 1..5 /\ profile[v].verified \in 0..5 /\ profile[v].sure \in BOOLEAN
       /\ \A s \in DOMAIN profile[v].estimates : s \in Skill /\ profile[v].estimates[s] \in EstimateRow
  /\ outcome \in [Lesson -> Outcomes \union {"none"}] /\ latest \subseteq Lesson /\ proof \subseteq Lesson
  /\ claim \in Claims /\ reports \in 0..MaxReports

Quiet == \A r \in Recorder : recorder[r] = Idle
Clean == ~overlapped /\ ~stopped /\ ~mixed

(* An estimate has moved "toward the profile target by at most 1" for each *)
(* lesson that was passed well, also when a lesson was reported twice; it  *)
(* exists if the questionnaire named the skill or a lesson taught it.      *)
LessonsCountOnce ==
  Quiet /\ Clean =>
    LET now == profile[Current].estimates
        lessons(s) == {l \in proof : s \in Taught(l)}
        first(s) == IF s \in DOMAIN claim.skills THEN claim.skills[s] ELSE 1
        better(s) == first(s) + Cardinality({l \in lessons(s) : outcome[l] = "strong"})
    IN  \A s \in Skill :
          /\ s \in DOMAIN now <=> s \in DOMAIN claim.skills \/ lessons(s) # {}
          /\ s \in DOMAIN now => now[s].stage = Max({first(s), Min({Target, better(s)})})

(* "verifiedStage is raised to the proven stage": what is verified was     *)
(* shown in the quiz of a checkpoint that serves this stage.               *)
VerifiedIsProven ==
  \A v \in DOMAIN profile : \A s \in DOMAIN profile[v].estimates :
    LET est == profile[v].estimates[s]
    IN  est.verified # None =>
          /\ \E l \in Checkpoint : /\ outcome[l] = "strong" /\ s \in Taught(l)
                                   /\ est.verified <= Target
                                   /\ Serves[l] # 0 => est.verified <= Serves[l]
          /\ est.stage >= est.verified \/ overlapped

(* The profile's own stage is not behind its estimates after a lesson, its *)
(* gap belongs to it, and it verifies no more than some skill has shown.   *)
ProfileFollows ==
  LET own == profile[Current]
  IN  /\ own.gap = Gap(own.stage)
      /\ Quiet /\ Clean /\ proof # {} => own.stage >= Median(StagesOf(own.estimates))
      /\ own.verified # None /\ ~overlapped => \E s \in DOMAIN own.estimates : own.estimates[s].verified >= own.verified

(* Within a version nothing the learner has reached is taken back, but by  *)
(* recordings that overlap.                                                *)
NothingTakenBack ==
  ~overlapped' => \A v \in DOMAIN profile :
    /\ profile'[v].stage >= profile[v].stage /\ profile'[v].verified >= profile[v].verified
    /\ \A s \in DOMAIN profile[v].estimates :
         /\ profile'[v].estimates[s].stage >= profile[v].estimates[s].stage
         /\ profile'[v].estimates[s].verified >= profile[v].estimates[s].verified
=============================================================================
