-------------------------- MODULE BattleQuestions --------------------------
(***************************************************************************)
(* Where the questions of battles come from: the active quiz units of the  *)
(* catalogue (unit-battle-question.util.ts, battle-catalog.service.ts,     *)
(* question-pool.service.ts), what the catalogue of topics offers, what a  *)
(* challenge is checked for (create of battles.service.ts) and what its    *)
(* acceptance and its sudden death draw, while units are switched on and   *)
(* off.  One subject; a set of questions stands for a drawn order, since   *)
(* draws are shuffled.                                                     *)
(***************************************************************************)
EXTENDS Naturals, Sequences, SequencesExt, FiniteSets

CONSTANTS
  Unit,        \* a sequence of quiz units: [skills, level, questions, broken]
  Topic,       \* a topic asked for, and the skills its text matches
  Matches,
  Count,       \* questions of a battle
  MinFactor,   \* BATTLE_POOL_MIN_MULTIPLIER
  Window,      \* battles whose questions are remembered (the newest 200 questions)
  Mix,         \* mixes of difficulties agreed on
  MaxBattles, MaxSwitches  \* bounds

NoTopic == "any"
UnitId == 1..Len(Unit)

QuestionsAssumption ==
  /\ \A u \in UnitId : /\ Unit[u].skills # <<>> /\ Unit[u].level \in 1..4
                       /\ Unit[u].broken \subseteq 1..Unit[u].questions
  /\ NoTopic \notin Topic /\ Count \in Nat \ {0} /\ MinFactor \in Nat \ {0}
  /\ Window \in Nat

VARIABLES
  active,      \* units that are switched on
  battle,      \* the battle: stage, mode, topic, mix of difficulties, questions
  asked,       \* sets of questions of earlier battles, the newest last
  switches,    \* for the bound
  changed,     \* history: units were switched since the challenge was checked
  pool,        \* history: the pool, and what was fresh in it, of the last draw
  repeated     \* history: sudden death asked a question of the battle itself

questionVars == <<active, battle, asked, switches, changed, pool, repeated>>

NoBattle == [at |-> "none"]
NoPool == [all |-> {}, fresh |-> {}]
Init ==
  /\ active = UnitId /\ battle = NoBattle /\ asked = <<>>
  /\ switches = 0 /\ changed = FALSE /\ pool = NoPool /\ repeated = FALSE
-----------------------------------------------------------------------------
(* A question's id is made of its unit and index; its difficulty of the    *)
(* unit's level, and so is its calibration.                                *)
Question == UNION {{<<u, i>> : i \in 1..Unit[u].questions} : u \in UnitId}
Difficulty(q) == Unit[q[1]].level
Broken(q) == q[2] \in Unit[q[1]].broken   \* its answer is none of its options
Extracted(us) == {q \in Question : q[1] \in us}
Snapshots(us) == {q \in Extracted(us) : ~Broken(q)}

Taught(u) == {Unit[u].skills[i] : i \in DOMAIN Unit[u].skills}
Teaches(s) == {u \in active : s \in Taught(u)}
OfTopic(t) == {u \in active : Taught(u) \intersect Matches[t] # {}}

(* resolveSkill: the first skill that matches, of the units in their order; *)
(* without a topic the first of all.                                       *)
Skills == FlattenSeq([i \in 1..Len(Unit) |-> IF i \in active THEN Unit[i].skills ELSE <<>>])
ResolveSkill(t) ==
  LET fitting == SelectSeq(Skills, LAMBDA s : t = NoTopic \/ s \in Matches[t])
  IN  IF fitting = <<>> THEN {} ELSE {fitting[1]}
BattleCount(s) == Cardinality(Extracted(Teaches(s)))

(* resolveCatalogIds, then loadEligiblePoolItems: by skill, by topic or all. *)
Narrowed(t, skills) ==
  LET useful == {s \in skills : BattleCount(s) > 0}
  IN  IF useful # {} THEN Teaches(CHOOSE s \in useful : TRUE)
      ELSE IF t # NoTopic THEN OfTopic(t) ELSE active
PoolOf(t, skills) == Snapshots(Narrowed(t, skills))
Enough(p, n) == Cardinality(p) >= n * MinFactor

WholeSubject(t) == Snapshots(active)
ChallengePool(t) == PoolOf(t, ResolveSkill(t))
AcceptPool(t) == PoolOf(t, IF t = NoTopic THEN {} ELSE ResolveSkill(t))

(* loadExposureHistories: what either player was asked lately.             *)
NoneExposed(current) == {}
Exposed(current) == UNION {asked[i] : i \in {k \in DOMAIN asked : k + Window > Len(asked)}} \union current
Eligible(p, exposed, n) ==
  LET fresh == p \ exposed IN IF Cardinality(fresh) < n THEN p ELSE fresh

(* pickWithDifficultyMix: one of each difficulty of the mix that there is, *)
(* as long as there is room, then any.                                     *)
Present(e, mix) == SelectSeq(mix, LAMBDA d : \E q \in e : Difficulty(q) = d)
Wanted(e, mix, n) == LET ds == Present(e, mix) IN {ds[i] : i \in {k \in DOMAIN ds : k <= n}}
Picks(e, mix, n) ==
  {p \in SUBSET e : /\ Cardinality(p) = n
                    /\ \A d \in Wanted(e, mix, n) : \E q \in p : Difficulty(q) = d}

(* differentiateAsyncSet: every other question is replaced by a twin of    *)
(* the whole pool, of the same calibration, if there is one left.          *)
Twinned(p, all, n) ==
  {r \in SUBSET all :
     /\ Cardinality(r) = n
     /\ \A d \in 1..4 : Cardinality({q \in r : Difficulty(q) = d}) = Cardinality({q \in p : Difficulty(q) = d})
     /\ Cardinality(r \ p) <= (n + 1) \div 2
     /\ Cardinality(r \ p) < (n + 1) \div 2 =>
          \E d \in {Difficulty(q) : q \in p} : \A q \in all : Difficulty(q) = d => q \in p \union r}

Draws(all, exposed, mode, mix, n) ==
  LET picks == Picks(Eligible(all, exposed, n), mix, n)
  IN  IF mode = "async" THEN UNION {Twinned(p, all, n) : p \in picks} ELSE picks
-----------------------------------------------------------------------------
(* create: the pool is looked at before anyone pays.                       *)

Challenge(t, mode, mix) ==
  /\ battle.at = "none" /\ Len(asked) < MaxBattles
  /\ Enough(ChallengePool(t), Count)
  /\ battle' = [at |-> "invited", topic |-> t, mode |-> mode, mix |-> mix, set |-> {}]
  /\ changed' = FALSE
  /\ UNCHANGED <<active, asked, switches, pool, repeated>>

(* accept draws what is there by then, or voids the battle.                *)
Accept ==
  LET p == AcceptPool(battle.topic)
  IN  /\ battle.at = "invited" /\ Enough(p, Count)
      /\ \E s \in Draws(p, Exposed({}), battle.mode, battle.mix, Count) :
           battle' = [battle EXCEPT !.at = "playing", !.set = s]
      /\ pool' = [all |-> p, fresh |-> p \ Exposed({})]
      /\ UNCHANGED <<active, asked, switches, changed, repeated>>

Void ==
  /\ battle.at = "invited" /\ ~Enough(AcceptPool(battle.topic), Count)
  /\ battle' = [battle EXCEPT !.at = "void"]
  /\ UNCHANGED <<active, asked, switches, changed, pool, repeated>>

(* openSuddenDeathQuestion: one more; the questions of this battle are     *)
(* among those that were asked lately.                                     *)
Harder(mix) == IF Len(mix) > 1 THEN <<3, 4>> ELSE IF mix = <<1>> THEN <<2>> ELSE mix
SuddenDeath ==
  LET p == AcceptPool(battle.topic)
  IN  /\ battle.at = "playing" /\ Enough(p, 1)
      /\ \E s \in Draws(p, Exposed(battle.set), battle.mode, Harder(battle.mix), 1) :
           /\ battle' = [battle EXCEPT !.at = "decided", !.set = @ \union s]
           /\ repeated' = (repeated \/ (battle.mode = "live" /\ s \subseteq battle.set
                                          /\ p \ Exposed(battle.set) # {}))
      /\ UNCHANGED <<active, asked, switches, changed, pool>>

Ended ==
  /\ battle.at \in {"playing", "decided", "void"} /\ battle' = NoBattle
  /\ asked' = IF battle.at = "void" THEN asked ELSE Append(asked, battle.set)
  /\ UNCHANGED <<active, switches, changed, pool, repeated>>

(* setUnitActive of the administration.                                    *)
Switch(u) ==
  /\ switches < MaxSwitches /\ switches' = switches + 1
  /\ active' = IF u \in active THEN active \ {u} ELSE active \union {u}
  /\ changed' = TRUE
  /\ UNCHANGED <<battle, asked, pool, repeated>>

(* listCatalog: topics are counted by the first skill of each unit.        *)
FirstSkill(s) == {u \in active : Unit[u].skills[1] = s}
Offered == {s \in UNION {Taught(u) : u \in UnitId} :
              Cardinality(Extracted(FirstSkill(s))) >= Count * MinFactor}

Next ==
  \/ \E t \in Topic \union {NoTopic}, mode \in {"live", "async"}, mix \in Mix : Challenge(t, mode, mix)
  \/ Accept \/ Void \/ SuddenDeath \/ Ended
  \/ \E u \in UnitId : Switch(u)

Spec == Init /\ [][Next]_questionVars
-----------------------------------------------------------------------------
TypeOK ==
  /\ active \subseteq UnitId /\ switches \in 0..MaxSwitches
  /\ \A i \in DOMAIN asked : asked[i] \subseteq Question
  /\ battle = NoBattle \/ /\ battle.at \in {"invited", "playing", "decided", "void"}
                          /\ battle.set \subseteq Question
  /\ pool.fresh \subseteq pool.all /\ pool.all \subseteq Question
  /\ {changed, repeated} \subseteq BOOLEAN

(* A battle has as many different questions as were agreed, each with an   *)
(* answer among its options, of the topic as it was when they were drawn.  *)
SetIsFair ==
  battle.at = "playing" =>
    /\ Cardinality(battle.set) = Count /\ battle.set \subseteq pool.all
    /\ \A q \in battle.set : /\ ~Broken(q)
                             /\ battle.topic # NoTopic => Taught(q[1]) \intersect Matches[battle.topic] # {}

(* Live, nothing is asked that either player was asked lately if there is  *)
(* enough else, and sudden death repeats no question of its battle.        *)
NothingAskedAgain ==
  /\ battle.at = "playing" /\ battle.mode = "live" /\ Cardinality(pool.fresh) >= Count
       => battle.set \subseteq pool.fresh
  /\ ~repeated

(* A challenge that was let through can be played unless units changed.    *)
PromiseIsKept == battle.at = "void" => changed

(* Topics on offer have enough questions if all of theirs are well formed. *)
OffersArePlayable ==
  \A s \in Offered : (\A q \in Extracted(Teaches(s)) : ~Broken(q)) => Enough(PoolOf(NoTopic, {s}), Count)
=============================================================================
