---------------------------- MODULE LeagueLadder ----------------------------
(***************************************************************************)
(* One learner's way through the leagues, season after season: where the   *)
(* learner is placed (league-cohort.service.ts), and what a finalized      *)
(* season makes of position and activity (league-promotion.ts,             *)
(* league-tiers.ts, LeagueFinalizeService).  The rest of the cohort is how *)
(* many members earned XP and the position the learner got among them.     *)
(***************************************************************************)
EXTENDS Integers, Sequences, FiniteSetsExt

CONSTANTS
  CohortSize,  \* how many members of a cohort may have earned XP
  MaxEmpty,    \* bound: the count of empty seasons stops here
  MaxIdle      \* seasons without XP in a row that the learner may have

Tier     == 0..5      \* Bronze, Silver, Gold, Platinum, Diamond, Master
Division == 0..2      \* III, II, I
Place    == [tier : Tier, division : Division]
Bottom   == [tier |-> 0, division |-> 0]

RankGate       == <<1, 3, 4, 6, 8, 10>>
MasterMinSeals == 12
InactiveEmptySeasons == 2
-----------------------------------------------------------------------------
MeetsRankOnly(tier, rank, seals) == rank >= RankGate[tier + 1]   \* variant

MeetsTierGate(tier, rank, seals) ==
  /\ rank >= RankGate[tier + 1]
  /\ tier = 5 => seals >= MasterMinSeals

PromoteOver(p) ==   \* variant: the last division is not tested
  [p EXCEPT !.division = @ + 1]

PromoteOne(p) ==
  CASE p.division < 2             -> [p EXCEPT !.division = @ + 1]
    [] p.division = 2 /\ p.tier < 5 -> [tier |-> p.tier + 1, division |-> 0]
    [] OTHER                      -> p

DemoteOne(p) ==
  CASE p.division > 0             -> [p EXCEPT !.division = @ - 1]
    [] p.division = 0 /\ p.tier > 0 -> [tier |-> p.tier - 1, division |-> 2]
    [] OTHER                      -> p

Larger(a, b) == IF a > b THEN a ELSE b

PromoteCount(n) == IF n = 30 THEN 7 ELSE Larger(1, (n * 23) \div 100)
Share(n)        == IF n = 30 THEN 5 ELSE Larger(1, (n * 17) \div 100)

(* promotionCounts: promotions and demotions leave someone in place.       *)
DemoteCount(n) ==
  IF PromoteCount(n) + Share(n) >= n THEN Larger(0, n - PromoteCount(n) - 1)
                                     ELSE Share(n)

(* applyPromotionResults for a member with XP.                             *)
Raised(p, rank, seals) ==
  IF MeetsTierGate(PromoteOne(p).tier, rank, seals)
  THEN [result |-> "promoted", place |-> PromoteOne(p)]
  ELSE [result |-> "gate_blocked", place |-> p]

Lowered(p) ==
  IF p = Bottom THEN [result |-> "remained", place |-> p]
                ELSE [result |-> "demoted", place |-> DemoteOne(p)]

FromTheTop(n, position) == position <= PromoteCount(n) + DemoteCount(n)  \* variant

InDemotion(n, position) == position > n - DemoteCount(n)

Outcome(p, n, position, rank, seals) ==
  IF position <= PromoteCount(n) THEN Raised(p, rank, seals)
  ELSE IF InDemotion(n, position) THEN Lowered(p)
  ELSE [result |-> "remained", place |-> p]

(* ... and for one without: the finalizer passes isBronzeFloor for all.    *)
IdleOutcome(p) == [result |-> "inactive", place |-> p]
-----------------------------------------------------------------------------
VARIABLES
  place,           \* user_league_states: tier and division
  rank, seals,     \* its rankLevel and weeklySeals
  empty, inactive, \* its emptySeasons and isInactive
  cohort           \* the place of the cohort of the season, or none

vars == <<place, rank, seals, empty, inactive, cohort>>

NoCohort == [tier |-> -1, division |-> 0]

Init ==
  /\ place = Bottom /\ rank = 1 /\ seals = 0
  /\ empty = 0 /\ inactive = FALSE
  /\ cohort = NoCohort

(* assignMembership, assignInactive.                                       *)
Assign ==
  /\ cohort = NoCohort
  /\ cohort' = IF inactive \/ empty >= InactiveEmptySeasons THEN Bottom ELSE place
  /\ UNCHANGED <<place, rank, seals, empty, inactive>>

(* finalizeSeason for a learner who earned XP, ...                         *)
FinishActive(n, position) ==
  /\ cohort # NoCohort
  /\ place' = Outcome(cohort, n, position, rank, seals).place
  /\ empty' = 0 /\ inactive' = FALSE
  /\ cohort' = NoCohort
  /\ UNCHANGED <<rank, seals>>

(* ... and for one who did not.                                            *)
FinishIdle ==
  /\ cohort # NoCohort
  /\ empty < MaxIdle
  /\ place' = IdleOutcome(cohort).place
  /\ empty' = IF empty < MaxEmpty THEN empty + 1 ELSE empty
  /\ inactive' = (inactive \/ IdleOutcome(cohort).result = "inactive")
  /\ cohort' = NoCohort
  /\ UNCHANGED <<rank, seals>>

(* updateRankGateInputs: the ranks only raise what they report.            *)
RankUp == rank < 10 /\ rank' = rank + 1 /\ UNCHANGED <<place, seals, empty, inactive, cohort>>
Seal   == seals < MasterMinSeals /\ seals' = seals + 1
          /\ UNCHANGED <<place, rank, empty, inactive, cohort>>

Next ==
  \/ Assign \/ FinishIdle \/ RankUp \/ Seal
  \/ \E n \in CohortSize : \E position \in 1..n : FinishActive(n, position)

Spec == Init /\ [][Next]_vars
-----------------------------------------------------------------------------
Height(p) == 3 * p.tier + p.division

TypeOK ==
  /\ place \in Place /\ cohort \in Place \cup {NoCohort}
  /\ rank \in 1..10 /\ seals \in 0..MasterMinSeals
  /\ empty \in 0..MaxEmpty /\ inactive \in BOOLEAN

(* Nobody is ever in a tier whose gate of rank and seals was not met: the  *)
(* gate stands at every way up, and rank and seals do not fall.            *)
GateStands ==
  /\ rank >= RankGate[place.tier + 1]
  /\ place.tier = 5 => seals >= MasterMinSeals

(* A better position never ends lower than a worse one would have.         *)
BetterIsBetter ==
  \A n \in CohortSize : \A p \in 1..n : \A q \in p..n :
    Height(Outcome(place, n, p, rank, seals).place)
      >= Height(Outcome(place, n, q, rank, seals).place)
=============================================================================
