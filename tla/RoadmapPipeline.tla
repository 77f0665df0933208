------------------------ MODULE RoadmapPipeline ------------------------
(***************************************************************************)
(* How a roadmap's lessons are chosen (src/roadmaps,                       *)
(* roadmap-pipeline.service.ts and the services it calls): what the        *)
(* learner lacks, in the order of the prerequisites; units that may teach  *)
(* it; a draft of the language model, checked and repaired, or, when there *)
(* is none that can be repaired, a selection packed into the learner's     *)
(* time and cut into phases by the model, or evenly.                       *)
(*                                                                         *)
(* Skills and units are numbers, in the order in which the code breaks its *)
(* ties. Titles and prompts are left out; which unit of a skill scores     *)
(* higher is any order.                                                    *)
(***************************************************************************)
EXTENDS Naturals, Sequences, FiniteSets, SequencesExt, FiniteSetsExt

CONSTANTS
  Skill,         \* the active skills: numbers, by level and id
  Needs,         \* of a skill: the sequence of its prerequisites
  Field,         \* of a skill: the domain it is estimated by
  Required, Optional,  \* the recipe of the role: sequences of skills
  Unit,          \* the active units: numbers, by id
  Card,          \* of a unit: teaches, needs, minutes, role, serves, suits
  Target,        \* the stage the learner is to reach
  Estimate,      \* estimates of a skill that occur
  Claims,        \* sets of skills that learners without estimates claim to know
  TopUps,        \* sets of skills that a top-up asks for
  Budget,        \* minutes learners have
  Score,         \* orders of the units by their scores: ranks
  DraftSize      \* bound: units of a draft

VARIABLES
  learner,       \* estimates, claims, the top-up and the minutes
  stage,         \* how far the pipeline is
  gap,           \* the skills lacking, required and optional, in order, and units for them
  tries,         \* answers of the model that could not be used
  packed,        \* the selection: rows of a unit and the skill it is taken for
  plan           \* the phases, and who made them

pipelineVars == <<learner, stage, gap, tries, packed, plan>>

Unrated == [verified |-> 0, provisional |-> 0, sure |-> FALSE, exposed |-> FALSE, pending |-> FALSE]
NoGap == [required |-> <<>>, optional |-> {}, order |-> <<>>, allowed |-> {}]
NoPlan == [by |-> "nobody", phases |-> <<>>]
Fields == {Field[s] : s \in Skill}
Teaches(u, s) == s \in Range(Card[u].teaches)
Proves(u) == Card[u].role \in {"checkpoint", "proof"}
Minutes(us) == FoldLeft(LAMBDA sum, u : sum + Card[u].minutes, 0, us)
Cheapest(us) == Min({Card[u].minutes : u \in us})
Concat(seqs) == FoldLeft(LAMBDA out, s : out \o s, <<>>, seqs)
-----------------------------------------------------------------------------
(* What the learner lacks.                                                 *)

Ahead(e) == e.provisional >= Target /\ e.sure
ActionFor(e) ==
  CASE e.verified >= Target \/ (Ahead(e) /\ e.exposed /\ ~e.pending) -> "omit"
    [] OTHER -> IF Ahead(e) THEN "checkpoint"
                ELSE IF e.provisional >= 2 THEN "refresher" ELSE "foundation"

(* The estimate of a skill is that of its domain; without any estimates    *)
(* the skills that are claimed count as known.                             *)
SkillPlan(s) ==
  LET e == learner.rated[Field[s]]
      entry == IF e.verified > 0 THEN e.verified ELSE e.provisional
  IN  IF \A f \in Fields : learner.rated[f] = Unrated
      THEN [action |-> IF s \in learner.claimed THEN "omit" ELSE "foundation", entry |-> 1]
      ELSE IF e = Unrated THEN [action |-> "foundation", entry |-> 1]
      ELSE [action |-> ActionFor(e), entry |-> Max({1, entry})]

Known == {s \in Skill : SkillPlan(s).action = "omit"}

(* prerequisiteClosure: depth first, the last seed first.                  *)
Closed[stack \in Seq(Skill), out \in Seq(Skill)] ==
  IF stack = <<>> THEN out
  ELSE IF Last(stack) \in Range(out) THEN Closed[Front(stack), out]
  ELSE LET now == Append(out, Last(stack))
       IN  Closed[Front(stack) \o SelectSeq(Needs[Last(stack)], LAMBDA p : p \notin Range(now)), now]

RequiredSeed ==
  LET missing == SelectSeq(Required, LAMBDA s : s \notin Known)
  IN  IF missing = <<>> THEN Required ELSE missing

RequiredGap ==
  IF learner.topUp # {} THEN Closed[SetToSortSeq(learner.topUp, <), <<>>]
  ELSE SelectSeq(Closed[RequiredSeed, <<>>], LAMBDA s : s \notin Known \/ s \in Range(RequiredSeed))

OptionalGap(required) ==
  LET seed == SelectSeq(Optional, LAMBDA s : s \notin Known \union required)
  IN  IF learner.topUp # {} THEN {} ELSE Range(Closed[seed, <<>>]) \ (Known \union required)

(* topologicalSortSkills: again and again the first of the skills whose    *)
(* prerequisites are out.                                                  *)
Sorted[n \in Nat] ==
  IF n = 0 THEN <<>>
  ELSE LET out == Range(Sorted[n - 1])
           ready == {s \in Skill \ out : Range(Needs[s]) \subseteq out}
       IN  IF ready = {} THEN Sorted[n - 1] ELSE Append(Sorted[n - 1], Min(ready))

InCatalogOrder(skills) == SetToSortSeq(skills, <)
GapOrder(skills) == SelectSeq(Sorted[Cardinality(Skill)], LAMBDA s : s \in skills)
-----------------------------------------------------------------------------
(* Units that may teach it.                                                *)

(* Units of the stage and the role of the action, else of the role, else   *)
(* of the stage, else all.                                                 *)
Preferred(us, p) ==
  LET InStage(vs) == {u \in vs : Card[u].serves = {} \/ \E g \in Card[u].serves : g >= p.entry}
      InRole(roles) == {u \in us : Card[u].role \in roles}
      tiers == CASE p.action = "checkpoint" -> <<{"checkpoint"}, {"checkpoint", "refresher"}>>
                 [] p.action = "refresher"  -> <<{"refresher", "checkpoint"}>>
                 [] OTHER                   -> <<>>
      choices == Concat([i \in DOMAIN tiers |-> <<InStage(InRole(tiers[i])), InRole(tiers[i])>>])
                   \o <<InStage(us), us>>
  IN  choices[Min({i \in DOMAIN choices : choices[i] # {} \/ i = Len(choices)})]

(* Formats narrow the choice, but not the evidence.                        *)
WithEvidence(us) ==
  LET matching == {u \in us : Card[u].suits}
  IN  IF matching = {} THEN us ELSE matching \union {u \in us : Proves(u)}

Teaching(us, s) == {u \in us : Teaches(u, s)}
Candidates(us, s) == WithEvidence(Preferred(Teaching(us, s), SkillPlan(s)))
AllowList(skills) == UNION {Candidates(Unit, s) : s \in skills}

ComputeGap ==
  /\ stage = "begun" /\ stage' = "asked"
  /\ LET required == RequiredGap
         optional == OptionalGap(Range(required))
         skills == Range(required) \union optional
     IN  gap' = [required |-> required, optional |-> optional,
                 order |-> GapOrder(skills), allowed |-> AllowList(skills)]
  /\ UNCHANGED <<learner, tries, packed, plan>>

IsRequiredSkill(s) == s \in Range(gap.required)
-----------------------------------------------------------------------------
(* validateAndRepairOrchestratorDraft                                      *)

(* The unit that repairs a gap: of the role asked for, else one that       *)
(* proves, else any; the shortest first.                                   *)
RepairRank(u, s) ==
  IF SkillPlan(s).action \in {"checkpoint", "refresher"} /\ Card[u].role = SkillPlan(s).action
  THEN 0 ELSE IF Proves(u) THEN 1 ELSE 2

PickRepair(s) ==
  LET Better(u, v) ==
        \/ RepairRank(u, s) < RepairRank(v, s)
        \/ /\ RepairRank(u, s) = RepairRank(v, s)
           /\ \/ Card[u].minutes < Card[v].minutes
              \/ Card[u].minutes = Card[v].minutes /\ u <= v
      us == Teaching(gap.allowed, s)
  IN  CHOOSE u \in us : \A v \in us : Better(u, v)

Covers(us, s) == Teaching(Range(us), s) # {}
CoverRequired(us) ==
  FoldLeft(LAMBDA out, s : IF Covers(out, s) THEN out ELSE Append(out, PickRepair(s)), us, gap.required)

Proofs(us, s) == {u \in Teaching(us, s) : Proves(u)}
IsSoleProof(u, s) == Proofs(gap.allowed, s) = {u}
KeepSoleProofs(us) ==
  FoldLeft(LAMBDA out, s :
             IF Cardinality(Proofs(gap.allowed, s)) = 1 /\ Proofs(Range(out), s) = {}
             THEN out \o SetToSeq(Proofs(gap.allowed, s)) ELSE out,
           us, gap.required)

(* The units of the first skill of the gap first, of those the ones whose  *)
(* first skill it is; a unit waits for what it needs of the gap, and comes *)
(* at the end when that never comes.                                       *)
Primary(u) == SelectSeq(gap.order, LAMBDA s : Teaches(u, s))[1]
Emit(out, u) ==
  LET covered == UNION {Range(Card[v].teaches) : v \in Range(out)}
  IN  IF u \in Range(out) \/ ~(Card[u].needs \intersect Range(gap.order) \subseteq covered \union Range(Card[u].teaches))
      THEN out ELSE Append(out, u)

Reordered(us) ==
  LET Earlier(u, v, s) == \/ Primary(u) = s /\ Primary(v) # s
                          \/ (Primary(u) = s <=> Primary(v) = s) /\ u < v
      bySkill == [i \in DOMAIN gap.order |->
                    SetToSortSeq(Teaching(Range(us), gap.order[i]), LAMBDA u, v : Earlier(u, v, gap.order[i]))]
      passes  == Concat(bySkill) \o Concat([i \in DOMAIN us |-> us])
      emitted == FoldLeft(Emit, <<>>, passes)
  IN  emitted \o SelectSeq(us, LAMBDA u : u \notin Range(emitted))

(* From the end, what is not the only unit of a required skill, nor the    *)
(* only proof of the first one it teaches.                                 *)
DropsProofs(u, us) ==
  \A s \in Range(Card[u].teaches) \intersect Range(gap.required) : Teaching(Range(us) \ {u}, s) # {}
MayDrop(u, us) ==
  LET required == SelectSeq(Card[u].teaches, IsRequiredSkill)
  IN  \/ required = <<>>
      \/ /\ \A s \in Range(required) : Teaching(Range(us) \ {u}, s) # {}
         /\ ~(Proves(u) /\ IsSoleProof(u, required[1]))

Trimmed(us) ==
  FoldLeft(LAMBDA out, u : IF Minutes(out) > learner.budget /\ MayDrop(u, out)
                           THEN Remove(out, u) ELSE out,
           us, Reverse(us))

(* The draft's phases with what is left of them, and at the end of the     *)
(* last one what was inserted.                                             *)
RebuildPhases(phases, us) ==
  LET kept == SelectSeq([i \in DOMAIN phases |-> SelectSeq(phases[i], LAMBDA u : u \in Range(us))],
                        LAMBDA phase : phase # <<>>)
      orphans == SelectSeq(us, LAMBDA u : u \notin Range(Concat(phases)))
  IN  IF kept = <<>> THEN <<us>>
      ELSE [kept EXCEPT ![Len(kept)] = @ \o orphans]

Repaired(phases) == Trimmed(Reordered(KeepSoleProofs(CoverRequired(Concat(phases)))))
CheapestCover(us) ==
  FoldLeft(LAMBDA sum, s : sum + Cheapest(Teaching(Range(us), s)), 0, gap.required)
Repairable(phases) ==
  /\ \A s \in Range(gap.required) : Teaching(gap.allowed, s) # {}
  /\ LET whole == KeepSoleProofs(CoverRequired(Concat(phases)))
     IN  Minutes(whole) <= learner.budget \/ CheapestCover(whole) <= learner.budget
  /\ Minutes(Repaired(phases)) <= learner.budget
  /\ \A s \in Range(gap.required) : Covers(Repaired(phases), s)
-----------------------------------------------------------------------------
(* Without a draft.                                                        *)

(* Of each skill the units not taken for an earlier one, in the order of   *)
(* their scores.                                                           *)
TakesAgain(rows, s, score) ==
  LET us == SetToSortSeq(Candidates(Unit, s), LAMBDA u, v : score[u] < score[v])
  IN  rows \o [i \in DOMAIN us |-> [unit |-> us[i], skill |-> s]]
TakeUnits(rows, s, score) ==
  LET free == Unit \ {rows[i].unit : i \in DOMAIN rows}
      us == SetToSortSeq(Candidates(free, s), LAMBDA u, v : score[u] < score[v])
  IN  IF Teaching(free, s) = {} THEN rows
      ELSE rows \o [i \in DOMAIN us |-> [unit |-> us[i], skill |-> s]]

SelectUnits(score) == FoldLeft(LAMBDA rows, s : TakeUnits(rows, s, score), <<>>, gap.order)

IsRequired(row) == IsRequiredSkill(row.skill)
RowMinutes(rows) == FoldLeft(LAMBDA sum, row : sum + Card[row.unit].minutes, 0, rows)
SkillsOf(rows) == {rows[i].skill : i \in DOMAIN rows}
CheapestFor(s, rows) == Cheapest({rows[i].unit : i \in {j \in DOMAIN rows : rows[j].skill = s}})
Floor(rows, skills) == FoldSet(LAMBDA s, sum : sum + CheapestFor(s, rows), 0, skills)

(* Of each required skill the first unit, and more while the cheapest ones *)
(* of those to come are reserved; then what optional units fit.            *)
PacksWhatFits(out, row, required) ==
  IF RowMinutes(Append(out, row)) <= learner.budget THEN Append(out, row) ELSE out
PackRequired(out, row, required) ==
  LET later == (SkillsOf(required) \ SkillsOf(out)) \ {row.skill}
  IN  IF \/ row.skill \notin SkillsOf(out)
         \/ RowMinutes(Append(out, row)) + Floor(required, later) <= learner.budget
      THEN Append(out, row) ELSE out

PacksAll(out, row) == Append(out, row)
PackOptional(out, row) ==
  IF RowMinutes(Append(out, row)) <= learner.budget THEN Append(out, row) ELSE out

Packed(rows) ==
  LET required == SelectSeq(rows, IsRequired)
      first  == FoldLeft(LAMBDA out, row : PackRequired(out, row, required), <<>>, required)
      chosen == FoldLeft(PackOptional, first, SelectSeq(rows, LAMBDA row : ~IsRequired(row)))
  IN  SelectSeq(rows, LAMBDA row : row \in Range(chosen))

OverBudget(rows) ==
  LET required == SelectSeq(rows, IsRequired)
  IN  Floor(required, SkillsOf(required)) > learner.budget

(* Phases are slices; a slicing is the set of where its slices end.        *)
Slices(ends, rows) ==
  LET at == SetToSortSeq(ends, <)
      from(i) == IF i = 1 THEN 1 ELSE at[i - 1] + 1
  IN  [i \in DOMAIN at |-> [j \in 1..(at[i] - from(i) + 1) |-> rows[from(i) + j - 1].unit]]

Slicing(n) == {ends \in SUBSET (1..n) :
                 n \in ends /\ Cardinality(ends) >= Min({3, n}) /\ Cardinality(ends) <= 6}

(* Even slices, each end moved to a change of skill within two lessons.    *)
Nudged(at, b, rows) ==
  LET low  == IF b = 1 THEN 0 ELSE at[b - 1]
      fits == {i \in (low + 1)..(at[b + 1] - 1) :
                 /\ i <= at[b] + 2 /\ at[b] <= i + 2
                 /\ rows[i].skill # rows[i + 1].skill}
      far(i) == IF i >= at[b] THEN 2 * (i - at[b]) ELSE 2 * (at[b] - i) + 1
  IN  IF fits = {} THEN at
      ELSE [at EXCEPT ![b] = CHOOSE i \in fits : \A j \in fits : far(i) <= far(j)]

EvenSlicing(rows) ==
  LET n == Len(rows)
      count == Min({n, IF n <= 5 THEN 3 ELSE 4})
      even == [b \in 1..count |-> b * (n \div count) + Min({b, n % count})]
  IN  Range(FoldLeft(LAMBDA at, b : Nudged(at, b, rows), even, [b \in 1..(count - 1) |-> b]))
-----------------------------------------------------------------------------
Init ==
  /\ learner \in
       [rated : [Fields -> {Unrated}], claimed : Claims, topUp : {{}}, budget : Budget]
         \union [rated : [Fields -> Estimate \union {Unrated}] \ [Fields -> {Unrated}],
                 claimed : {{}}, topUp : TopUps, budget : Budget]
  /\ stage = "begun" /\ gap = NoGap /\ tries = 0
  /\ packed = <<>> /\ plan = NoPlan

(* The draft as its parser leaves it: known units once each, no phase      *)
(* without one.                                                            *)
Drafts ==
  LET orders == {us \in UNION {[1..n -> gap.allowed] : n \in 1..DraftSize} : IsInjective(us)}
  IN  UNION {{<<us>>} \union {<<SubSeq(us, 1, i), SubSeq(us, i + 1, Len(us))>> : i \in 1..(Len(us) - 1)}
             : us \in orders}

Orchestrate ==
  /\ stage = "asked"
  /\ \E draft \in Drafts :
       IF Repairable(draft)
       THEN /\ stage' = "planned"
            /\ plan' = [by |-> "model", phases |-> RebuildPhases(draft, Repaired(draft))]
       ELSE stage' = "fallback" /\ UNCHANGED plan
  /\ UNCHANGED <<learner, gap, tries, packed>>

(* No answer, or none that can be parsed: it is asked twice.               *)
FailsToAnswer ==
  /\ stage = "asked" /\ gap.allowed # {}
  /\ tries' = tries + 1
  /\ stage' = IF tries = 0 THEN "asked" ELSE "fallback"
  /\ UNCHANGED <<learner, gap, packed, plan>>

(* Switched off, without a key, or with nothing to choose from.            *)
SkipModel ==
  /\ stage = "asked" /\ tries = 0
  /\ stage' = "fallback"
  /\ UNCHANGED <<learner, gap, tries, packed, plan>>

(* Nothing to teach, or not the time for what is required: refused.        *)
SelectAndPack ==
  /\ stage = "fallback"
  /\ \E score \in Score :
       LET rows == SelectUnits(score)
       IN  IF rows = <<>> \/ OverBudget(rows) \/ Packed(rows) = <<>>
           THEN stage' = "refused" /\ UNCHANGED packed
           ELSE stage' = "packed" /\ packed' = Packed(rows)
  /\ UNCHANGED <<learner, gap, tries, plan>>

Narrate ==
  /\ stage = "packed"
  /\ \/ \E ends \in Slicing(Len(packed)) :
          plan' = [by |-> "narrator", phases |-> Slices(ends, packed)]
     \/ plan' = [by |-> "slicing", phases |-> Slices(EvenSlicing(packed), packed)]
  /\ stage' = "planned"
  /\ UNCHANGED <<learner, gap, tries, packed>>

Next == ComputeGap \/ Orchestrate \/ FailsToAnswer \/ SkipModel \/ SelectAndPack \/ Narrate

Spec == Init /\ [][Next]_pipelineVars
-----------------------------------------------------------------------------
TypeOK ==
  /\ stage \in {"begun", "asked", "fallback", "packed", "planned", "refused"}
  /\ tries \in 0..2
  /\ \A i \in DOMAIN packed : packed[i] \in [unit : Unit, skill : Skill]
  /\ plan.phases \in Seq(Seq(Unit))

Lessons == Concat(plan.phases)
Orchestrated == plan.by = "model"
Narrated == plan.by \in {"narrator", "slicing"}

(* "Cover every required skill": a plan made of a draft covers the whole   *)
(* gap and keeps the only proof of a skill, where the unit that proves it  *)
(* teaches no other required skill first; a packed one has a lesson of     *)
(* each required skill for which a unit was selected.                      *)
RequiredIsCovered ==
  /\ Orchestrated =>
       \A s \in Range(gap.required) :
         /\ Covers(Lessons, s)
         /\ \A u \in gap.allowed :
              (IsSoleProof(u, s) /\ SelectSeq(Card[u].teaches, IsRequiredSkill)[1] = s)
                => u \in Range(Lessons)
  /\ Narrated =>
       \A s \in Range(gap.required) :
         (\E u \in Teaching(Unit, s) : \A t \in Range(gap.order) \ {s} : ~Teaches(u, t)) => s \in SkillsOf(packed)

(* A plan made of a draft fits the learner's time; a packed one that does  *)
(* not has the first units of its required skills only, and what was added *)
(* while their cheapest were reserved, and nothing optional.               *)
TimeIsKept ==
  /\ Orchestrated => Minutes(Lessons) <= learner.budget
  /\ Narrated =>
       \/ Minutes(Lessons) <= learner.budget
       \/ \A i \in DOMAIN packed : IsRequired(packed[i])

(* No lesson twice, none from outside the catalogue's units for the gap;   *)
(* the phases have each lesson of the packed plan, in its order.           *)
EachLessonOnce ==
  /\ IsInjective(Lessons) /\ Range(Lessons) \subseteq Unit
  /\ Orchestrated => Range(Lessons) \subseteq gap.allowed
  /\ Narrated => /\ Lessons = [i \in DOMAIN packed |-> packed[i].unit]
                 /\ {Len(plan.phases[i]) : i \in DOMAIN plan.phases} \subseteq Nat \ {0}
                 /\ Len(plan.phases) \in Min({3, Len(packed)})..6

(* What a packed plan teaches comes after what it builds on.               *)
PrerequisitesFirst ==
  \A i, j \in DOMAIN packed :
    packed[i].skill \in Range(Closed[Needs[packed[j].skill], <<>>]) => i < j

(* Rows of units and learner_skill_estimates; a stage of 0 is none.        *)
UnitRow ==
  [teaches : Seq(Skill) \ {<<>>}, needs : SUBSET Skill, minutes : Nat \ {0},
   role : {"foundation", "refresher", "checkpoint", "project", "proof"},
   serves : SUBSET (1..6), suits : BOOLEAN]
EstimateRow ==
  [verified : 0..6, provisional : 1..6, sure : BOOLEAN, exposed : BOOLEAN, pending : BOOLEAN]

(* Prerequisites are skills and lead in no circle (assertPrereqsResolved,  *)
(* topologicalSortSkills).                                                 *)
PipelineAssumption ==
  /\ Skill \subseteq Nat /\ Unit \subseteq Nat
  /\ Needs \in [Skill -> Seq(Skill)]
  /\ Len(Sorted[Cardinality(Skill)]) = Cardinality(Skill)
  /\ {Range(Required), Range(Optional)} \union TopUps \union Claims \subseteq SUBSET Skill
  /\ \A score \in Score : IsInjective(score) /\ DOMAIN score = Unit
  /\ Card \in [Unit -> UnitRow] /\ Estimate \subseteq EstimateRow
=============================================================================
