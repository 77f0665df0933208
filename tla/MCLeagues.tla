------------------------------ MODULE MCLeagues -----------------------------
(* The season of a cohort and the ladder of a learner, checked side by     *)
(* side: a behaviour is one of the two.  The season has two members, each  *)
(* with rewarded lessons; the line of m2 stands between the two of m1.     *)
EXTENDS LeagueScore, TLC

CONSTANTS
  m1, m2,
  Crews,                        \* which sessions come together; {}: the ladder
  CohortSize, MaxEmpty, MaxIdle \* of LeagueLadder

ASSUME LadderAssumption ==
  /\ CohortSize \subseteq Nat \ {0} /\ CohortSize # {}
  /\ MaxEmpty \in Nat /\ MaxIdle \in Nat

MCEarner == [l \in Line |-> IF l = 2 THEN m2 ELSE m1]
MCXp     == [l \in Line |-> IF l = 1 THEN 1 ELSE 2]
MCHash   == m1 :> 1 @@ m2 :> 2

VARIABLES crew, place, rank, seals, empty, inactive, cohort
Ladder == INSTANCE LeagueLadder
ladder == <<place, rank, seals, empty, inactive, cohort>>

LeaguesInit == Init /\ Ladder!Init /\ crew \in Crews

LeaguesNext ==
  /\ UNCHANGED crew
  /\ \/ /\ crew # {} /\ Next /\ UNCHANGED ladder
        /\ \A s \in Session \ crew : pc'[s] = "idle"
     \/ crew = {} /\ Ladder!Next /\ UNCHANGED vars

LeaguesSpec ==
  /\ LeaguesInit /\ [][LeaguesNext]_<<vars, crew, ladder>>
  /\ \A s \in Session : SF_vars(s \in crew /\ Progress(s))

(* LeagueLadder's properties: gates stand at every way up, and a better    *)
(* position never does worse.                                              *)
LadderIsFair == Ladder!GateStands /\ Ladder!BetterIsBetter
=============================================================================
