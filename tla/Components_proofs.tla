-------------------------- MODULE Components_proofs --------------------------
(* Proofs about the components around the lessons and leagues.  Referrals  *)
(* and the lucky wheel implement EarnedOnce: a reward is paid after it is  *)
(* earned and never more than once.  System flags, notifications and       *)
(* accounts keep what they promise however many servers, requests, devices *)
(* and days there are.                                                     *)
EXTENDS Referral, Integers, Sequences, FiniteSetTheorems, WellFoundedInduction, TLAPS

Rewards == INSTANCE EarnedOnce WITH
  Key <- Reward, earned <- EarnedRewards, paid <- PaidRewards

Paid == {i \in Invitee : granted[i] > 0}
Settling(c) == call[c].at \in {"paying", "counting", "commit"}

(* What a call that is past the attribution's lock relies on: the invitee  *)
(* qualified, what it saw of the base rewards is still so, nobody else     *)
(* settles the same invitee, and the milestones it will grant are reached. *)
CallOK(c) ==
  /\ call[c].at \in {"idle", "check", "update", "settle", "paying", "counting", "commit"}
  /\ call[c].at # "idle" =>
       call[c].who \in Invitee /\ standing[call[c].who] # "none"
  /\ call[c].at = "update" => call[c].next \in Standing \ {"none", "rewarded"}
  /\ Settling(c) => /\ call[c].who \in qualified
                    /\ call[c].pays \in BOOLEAN
                    /\ call[c].pays <=> granted[call[c].who] = 0
  /\ call[c].at = "commit" =>
       /\ call[c].due \subseteq Milestone
       /\ \A m \in call[c].due : m <= Cardinality(Paid \cup {call[c].who})

ReferralInv ==
  /\ TypeOK
  /\ call = [c \in Call |-> call[c]]
  /\ \A c \in Call : CallOK(c)
  /\ \A c, d \in Call : c # d /\ Settling(c) /\ Settling(d) => call[c].who # call[d].who
  /\ \A i \in Invitee : facts[i] = Fact /\ InTime(i) => i \in qualified
  /\ \A i \in Invitee : standing[i] = "rewarded" => granted[i] > 0
  /\ \A i \in Invitee : granted[i] <= 1 /\ (granted[i] > 0 => i \in qualified)
  /\ \A m \in Milestone : milestones[m] <= 1 /\ (milestones[m] > 0 => m <= Cardinality(Paid))

LEMMA StandingIs == Standing = {"none", "registered", "email_verified", "onboarding_completed",
                                "almost_there", "qualified", "rewarded", "expired"}
BY DEF Standing, Ladder

LEMMA CountGrows ==
  ASSUME ReferralAssumption, NEW S \in SUBSET Invitee, NEW T \in SUBSET S
  PROVE  Cardinality(T) \in Nat /\ Cardinality(S) \in Nat /\ Cardinality(T) <= Cardinality(S)
<1>1. IsFiniteSet(S) /\ IsFiniteSet(T)
  BY FS_Subset DEF ReferralAssumption
<1> QED BY <1>1, FS_Subset, FS_CardinalityType

LEMMA ReferralInit == ASSUME ReferralAssumption PROVE Init => ReferralInv
<1> SUFFICES ASSUME Init PROVE ReferralInv
  OBVIOUS
<1>1. TypeOK
  BY StandingIs DEF Init, TypeOK, Fact
<1>2. \A i \in Invitee : granted[i] = 0 /\ standing[i] = "none"
  BY DEF Init
<1>3. \A m \in Milestone : milestones[m] = 0
  BY DEF Init
<1>4. call = [c \in Call |-> call[c]] /\ \A c \in Call : call[c].at = "idle"
  BY DEF Init, Idle
<1> QED
  BY <1>1, <1>2, <1>3, <1>4 DEF ReferralInv, CallOK, Settling, InTime

(* The rows that only the settling commits write.                          *)
LEMMA ReferralStep ==
  ASSUME ReferralAssumption, ReferralInv, [Next]_refVars
  PROVE  ReferralInv'
<1> USE StandingIs DEF ReferralInv, TypeOK, CallOK, Settling, InTime
<1>1. ASSUME NEW i \in Invitee, Attach(i) PROVE ReferralInv'
  BY <1>1 DEF Attach, Paid
<1>2. ASSUME NEW i \in Invitee, LoseRoadmap(i) PROVE ReferralInv'
  BY <1>2 DEF LoseRoadmap, Paid, Fact
<1>3. ASSUME NEW i \in Invitee, WindowEnds(i) PROVE ReferralInv'
  BY <1>3 DEF WindowEnds, Paid
<1>4. ASSUME NEW i \in Invitee, NEW f \in Fact, Do(i, f) PROVE ReferralInv'
  BY <1>4 DEF Do, Paid
<1>5. ASSUME NEW c \in Call, NEW i \in Invitee, Evaluate(c, i) PROVE ReferralInv'
  BY <1>5 DEF Evaluate, Goto, Paid
<1>6. ASSUME NEW c \in Call, Check(c) PROVE ReferralInv'
  <2>1. NextStatus(call[c].who) \in Standing \ {"none", "rewarded"}
    BY DEF NextStatus
  <2> QED BY <1>6, <2>1 DEF Check, Goto, Paid, Idle
<1>7. ASSUME NEW c \in Call, SaveUpdates(c) PROVE ReferralInv'
  BY <1>7 DEF SaveUpdates, Goto, Paid, Idle
<1>8. ASSUME NEW c \in Call, SettleLocks(c) PROVE ReferralInv'
  <2> DEFINE i == call[c].who
  <2>1. i \in Invitee /\ \A d \in Call : Settling(d) => call[d].who # i
    BY <1>8 DEF SettleLocks, Locked
  <2>2. UNCHANGED <<standing, facts, over, granted, milestones, qualified, regressed>>
    BY <1>8 DEF SettleLocks
  <2>3. CASE ~Settles(i)
    BY <1>8, <2>2, <2>3 DEF SettleLocks, Goto, Idle, Paid
  <2>4. CASE Settles(i)
    <3> DEFINE row == [at |-> IF granted[i] = 0 THEN "paying" ELSE "counting",
                       who |-> i, pays |-> granted[i] = 0]
    <3>1. i \in qualified
      BY <1>8, <2>1, <2>4 DEF Settles, SettleLocks
    <3>2. /\ row.at \in {"paying", "counting"} /\ row.who = i
          /\ row.pays \in BOOLEAN /\ (row.pays <=> granted[i] = 0)
      OBVIOUS
    <3>3. call' = [call EXCEPT ![c] = row]
      BY <1>8, <2>4 DEF SettleLocks, Goto
    <3>4. standing[i] # "none"
      BY <1>8 DEF SettleLocks
    <3> HIDE DEF row, i
    <3>5. \A d \in Call : d # c => call'[d] = call[d]
      BY <3>3
    <3>6. call'[c] = row
      BY <3>3
    <3> QED BY <2>1, <2>2, <3>1, <3>2, <3>3, <3>4, <3>5, <3>6 DEF Paid
  <2> QED BY <2>3, <2>4
<1>9. ASSUME NEW c \in Call, SettlePays(c) PROVE ReferralInv'
  BY <1>9 DEF SettlePays, Goto, Paid
<1>10. ASSUME NEW c \in Call, SettleCounts(c) PROVE ReferralInv'
  <2> DEFINE i == call[c].who
             due == {m \in Milestone : m <= Cardinality(Rewarded(i)) /\ milestones[m] = 0}
  <2>1. i \in Invitee /\ call[c].at = "counting"
    BY <1>10 DEF SettleCounts
  <2>2. UNCHANGED <<standing, facts, over, granted, milestones, qualified, regressed>>
    BY <1>10 DEF SettleCounts
  <2>3. Cardinality(Rewarded(i)) \in Nat /\ Cardinality(Paid \cup {i}) \in Nat
        /\ Cardinality(Rewarded(i)) <= Cardinality(Paid \cup {i})
    <3>1. Paid \cup {i} \in SUBSET Invitee /\ Rewarded(i) \in SUBSET (Paid \cup {i})
      BY <2>1 DEF Paid, Rewarded
    <3> QED BY <3>1, CountGrows
  <2>4. due \subseteq Milestone /\ \A m \in due : m <= Cardinality(Paid \cup {i})
    BY <2>3 DEF ReferralAssumption
  <2>5. call' = [call EXCEPT ![c] = [at |-> "commit", who |-> i, pays |-> call[c].pays, due |-> due]]
    BY <1>10 DEF SettleCounts, Goto
  <2> HIDE DEF due
  <2>6. \A d \in Call : d # c => call'[d] = call[d]
    BY <2>5
  <2>7. /\ call'[c].at = "commit" /\ call'[c].who = i /\ call'[c].pays = call[c].pays
        /\ call'[c].due = due
    BY <2>5
  <2>8. Paid' = Paid
    BY <2>2 DEF Paid
  <2>9. \A m \in call'[c].due : m <= Cardinality(Paid' \cup {call'[c].who})
    BY <2>4, <2>7, <2>8
  <2>10. CallOK(c)'
    BY <2>1, <2>2, <2>4, <2>7, <2>9
  <2>11. ASSUME NEW d \in Call, d # c PROVE CallOK(d)'
    BY <2>2, <2>6, <2>8, <2>11
  <2>12. ASSUME NEW d \in Call, NEW e \in Call, d # e, Settling(d)', Settling(e)'
         PROVE  call'[d].who # call'[e].who
    BY <2>1, <2>6, <2>7, <2>12
  <2> QED BY <2>2, <2>5, <2>8, <2>10, <2>11, <2>12
<1>11. ASSUME NEW c \in Call, SettleCommits(c) PROVE ReferralInv'
  <2> DEFINE i == call[c].who
             due == call[c].due
  <2>1. /\ i \in Invitee /\ call[c].at = "commit" /\ i \in qualified /\ due \subseteq Milestone
        /\ call[c].pays <=> granted[i] = 0
        /\ \A m \in due : m <= Cardinality(Paid \cup {i})
    BY <1>11 DEF SettleCommits
  <2>2. call' = [call EXCEPT ![c] = Idle] /\ UNCHANGED <<facts, over, qualified, regressed>>
    BY <1>11 DEF SettleCommits, Goto
  <2>3. CASE ~(\A m \in due : milestones[m] = 0)
    BY <1>11, <2>2, <2>3 DEF SettleCommits, Idle, Paid
  <2>4. CASE \A m \in due : milestones[m] = 0
    <3>1. /\ standing' = [standing EXCEPT ![i] = "rewarded"]
          /\ granted' = [granted EXCEPT ![i] = @ + (IF call[c].pays THEN 1 ELSE 0)]
          /\ milestones' = [m \in Milestone |-> milestones[m] + (IF m \in due THEN 1 ELSE 0)]
      BY <1>11, <2>4 DEF SettleCommits
    <3>2. granted'[i] = 1 /\ \A j \in Invitee \ {i} : granted'[j] = granted[j]
      BY <2>1, <3>1
    <3>3. Paid' = Paid \cup {i}
      BY <2>1, <3>2 DEF Paid
    <3>4. Cardinality(Paid) <= Cardinality(Paid') /\ Cardinality(Paid) \in Nat
          /\ Cardinality(Paid') \in Nat
      BY <2>1, <3>3, CountGrows DEF Paid
    <3>5. \A m \in Milestone : m \in Nat /\ milestones'[m] \in Nat /\ milestones'[m] <= 1
                               /\ (milestones'[m] > 0 => m <= Cardinality(Paid'))
      BY <2>1, <2>4, <3>1, <3>3, <3>4 DEF ReferralAssumption
    <3>6. ASSUME NEW d \in Call PROVE CallOK(d)'
      <4>1. CASE d = c
        BY <2>2, <4>1 DEF Idle
      <4>2. CASE d # c
        <5>1. call'[d] = call[d] /\ (Settling(d) => call[d].who # i)
          BY <2>1, <2>2, <4>2
        <5>2. standing'[call[d].who] # "none" \/ call[d].at = "idle"
          BY <2>1, <3>1
        <5>3. ASSUME call[d].at = "commit"
              PROVE  \A m \in call[d].due : m <= Cardinality(Paid' \cup {call[d].who})
          <6> DEFINE j == call[d].who
          <6>1. j \in Invitee BY <5>3
          <6>2. Paid' \cup {j} \in SUBSET Invitee /\ Paid \cup {j} \in SUBSET (Paid' \cup {j})
            BY <2>1, <3>3, <6>1 DEF Paid
          <6>3. Cardinality(Paid \cup {j}) <= Cardinality(Paid' \cup {j})
                /\ Cardinality(Paid \cup {j}) \in Nat /\ Cardinality(Paid' \cup {j}) \in Nat
            BY <6>2, CountGrows
          <6>4. \A m \in call[d].due : m \in Nat /\ m <= Cardinality(Paid \cup {j})
            BY <5>3 DEF ReferralAssumption
          <6> HIDE DEF j
          <6>5. \A m \in call[d].due : m <= Cardinality(Paid' \cup {j})
            <7> DEFINE a == Cardinality(Paid \cup {j})  b == Cardinality(Paid' \cup {j})
            <7>1. a \in Nat /\ b \in Nat /\ a <= b /\ \A m \in call[d].due : m \in Nat /\ m <= a
              BY <6>3, <6>4
            <7> HIDE DEF a, b
            <7>2. \A m \in call[d].due : m <= b
              BY <7>1
            <7> QED BY <7>2 DEF b
          <6> QED BY <6>5 DEF j
        <5> QED BY <2>2, <3>2, <5>1, <5>2, <5>3
      <4> QED BY <4>1, <4>2
    <3>7. TypeOK'
      BY <2>1, <2>2, <3>1, <3>2, <3>5
    <3>8. call' = [d \in Call |-> call'[d]]
          /\ \A d, e \in Call : d # e /\ Settling(d)' /\ Settling(e)' => call'[d].who # call'[e].who
      BY <2>2 DEF Idle
    <3>9. \A j \in Invitee : facts'[j] = Fact /\ InTime(j)' => j \in qualified'
      BY <2>1, <2>2, <3>1
    <3>10. \A j \in Invitee : /\ standing'[j] = "rewarded" => granted'[j] > 0
                              /\ granted'[j] <= 1 /\ (granted'[j] > 0 => j \in qualified')
      BY <2>1, <2>2, <3>1, <3>2
    <3> QED BY <3>5, <3>6, <3>7, <3>8, <3>9, <3>10
  <2> QED BY <2>3, <2>4
<1>12. ASSUME NEW c \in Call, Fail(c) PROVE ReferralInv'
  BY <1>12 DEF Fail, Goto, Paid, Idle
<1>13. CASE UNCHANGED refVars
  BY <1>13 DEF refVars, Paid
<1> QED
  BY <1>1, <1>2, <1>3, <1>4, <1>5, <1>6, <1>7, <1>8, <1>9, <1>10, <1>11, <1>12, <1>13 DEF Next

LEMMA ReferralAlways == ASSUME ReferralAssumption PROVE Spec => []ReferralInv
<1>1. Init => ReferralInv
  BY ReferralInit
<1>2. ReferralInv /\ [Next]_refVars => ReferralInv'
  BY ReferralStep
<1> QED BY <1>1, <1>2, PTL DEF Spec

(* What is earned stays earned and what is paid stays paid.                *)
LEMMA NothingShrinks ==
  ASSUME ReferralInv, [Next]_refVars
  PROVE  /\ qualified \subseteq qualified'
         /\ \A i \in Invitee : granted[i] <= granted'[i]
         /\ \A m \in Milestone : milestones[m] <= milestones'[m]
<1> USE DEF ReferralInv, TypeOK
<1>1. CASE UNCHANGED <<qualified, granted, milestones>>
  BY <1>1
<1>2. ASSUME NEW i \in Invitee, Attach(i) \/ \E f \in Fact : Do(i, f)
      PROVE  qualified \subseteq qualified' /\ UNCHANGED <<granted, milestones>>
  BY <1>2 DEF Attach, Do
<1>3. ASSUME NEW c \in Call, SettleCommits(c)
      PROVE  /\ qualified' = qualified
             /\ \A i \in Invitee : granted[i] <= granted'[i]
             /\ \A m \in Milestone : milestones[m] <= milestones'[m]
  <2>1. CASE \A m \in call[c].due : milestones[m] = 0
    BY <1>3, <2>1 DEF SettleCommits
  <2>2. CASE ~(\A m \in call[c].due : milestones[m] = 0)
    BY <1>3, <2>2 DEF SettleCommits
  <2> QED BY <2>1, <2>2
<1>4. CASE \/ \E i \in Invitee : LoseRoadmap(i) \/ WindowEnds(i)
           \/ \E c \in Call, i \in Invitee : Evaluate(c, i)
           \/ \E c \in Call : \/ Check(c) \/ SaveUpdates(c) \/ Fail(c)
                              \/ SettleLocks(c) \/ SettlePays(c) \/ SettleCounts(c)
           \/ UNCHANGED refVars
  BY <1>1, <1>4 DEF LoseRoadmap, WindowEnds, Evaluate, Check, SaveUpdates, Fail, SettleLocks,
                    SettlePays, SettleCounts, refVars
<1> QED BY <1>2, <1>3, <1>4 DEF Next

(* The base rewards of a referral and the milestones of its inviter are    *)
(* paid after they are earned, each once: the settlements, with the calls  *)
(* that race, fail or save late standings, implement EarnedOnce.           *)
THEOREM ReferralsPayOnce == ASSUME ReferralAssumption PROVE Spec => Rewards!Spec
<1>1. ReferralInv /\ Init => Rewards!Init
  <2> SUFFICES ASSUME ReferralInv, Init PROVE Rewards!Init
    OBVIOUS
  <2>1. Paid = {} /\ Cardinality({}) = 0
    BY FS_EmptySet DEF Init, Paid
  <2>2. EarnedRewards = {}
    <3>1. EarnedRewards = qualified \cup {m \in Milestone : m <= Cardinality(Paid)}
      BY DEF EarnedRewards, Paid
    <3>2. \A m \in Milestone : m \in Nat /\ m # 0
      BY DEF ReferralAssumption
    <3>3. \A m \in Milestone : ~(m <= Cardinality(Paid))
      BY <2>1, <3>2
    <3> QED BY <3>1, <3>3 DEF Init
  <2>3. PaidRewards = [k \in Reward |-> 0]
    BY DEF Init, PaidRewards, Reward
  <2> QED BY <2>2, <2>3 DEF Rewards!Init
<1>2. ReferralInv /\ ReferralInv' /\ [Next]_refVars => [Rewards!Next]_<<EarnedRewards, PaidRewards>>
  <2> SUFFICES ASSUME ReferralInv, ReferralInv', [Next]_refVars PROVE Rewards!Pay
    BY DEF Rewards!Next
  <2> DEFINE reached  == Cardinality(Paid)
             reached2 == Cardinality(Paid')
  <2>1. /\ qualified \subseteq qualified' /\ qualified' \subseteq Invitee
        /\ \A i \in Invitee : granted[i] \in Nat /\ granted'[i] \in Nat /\ granted[i] <= granted'[i]
        /\ \A m \in Milestone : milestones[m] \in Nat /\ milestones'[m] \in Nat
                                /\ milestones[m] <= milestones'[m]
    BY NothingShrinks DEF ReferralInv, TypeOK
  <2>2. reached <= reached2 /\ reached \in Nat /\ reached2 \in Nat
    <3>1. Paid' \in SUBSET Invitee /\ Paid \in SUBSET Paid'
      BY <2>1 DEF Paid
    <3> QED BY <3>1, CountGrows
  <2>3. /\ EarnedRewards = qualified \cup {m \in Milestone : m <= reached}
        /\ EarnedRewards' = qualified' \cup {m \in Milestone : m <= reached2}
    BY DEF EarnedRewards, Paid
  <2>4. /\ \A i \in Invitee : granted'[i] <= 1 /\ (granted'[i] > 0 => i \in qualified')
        /\ \A m \in Milestone : milestones'[m] <= 1 /\ (milestones'[m] > 0 => m <= reached2)
    BY DEF ReferralInv
  <2> HIDE DEF reached, reached2
  <2>5. EarnedRewards' \subseteq Reward /\ EarnedRewards \subseteq EarnedRewards'
    <3>1. \A m \in Milestone : m \in Nat
      BY DEF ReferralAssumption
    <3>2. \A m \in Milestone : m <= reached => m <= reached2
      BY <2>2, <3>1
    <3>3. EarnedRewards' \subseteq Reward
      BY <2>1, <2>3 DEF Reward
    <3>4. EarnedRewards \subseteq EarnedRewards'
      BY <2>1, <2>3, <3>2
    <3> QED BY <3>3, <3>4
  <2>6. ASSUME NEW k \in Reward
        PROVE  PaidRewards'[k] = IF /\ PaidRewards'[k] # PaidRewards[k] /\ PaidRewards[k] = 0
                                    /\ k \in EarnedRewards'
                                 THEN 1 ELSE PaidRewards[k]
    <3>1. CASE k \in Invitee
      BY <2>1, <2>3, <2>4, <3>1 DEF PaidRewards, Reward
    <3>2. CASE k \in Milestone
      <4>1. k \notin Invitee BY <3>2 DEF ReferralAssumption
      <4> QED BY <2>1, <2>3, <2>4, <3>2, <4>1 DEF PaidRewards, Reward
    <3> QED BY <3>1, <3>2 DEF Reward
  <2>7. PaidRewards' = [k \in Reward |-> PaidRewards'[k]]
    BY DEF PaidRewards
  <2> QED BY <2>5, <2>6, <2>7 DEF Rewards!Pay
<1> QED BY <1>1, <1>2, ReferralAlways, PTL DEF Spec, Rewards!Spec
(* While no late save has taken a rewarded standing back, the wallet's     *)
(* lock keeps what was counted true until the commit, so the milestones of *)
(* the friends that are rewarded are granted with the last of them.        *)
Invited == {i \in Invitee : standing[i] = "rewarded"}
FollowInv ==
  ~regressed =>
    /\ \A i \in Invitee : granted[i] > 0 <=> standing[i] = "rewarded"
    /\ \A c \in Call : Settling(c) => call[c].pays
    /\ \A c, d \in Call : /\ c # d /\ call[c].at \in {"counting", "commit"}
                           => call[d].at \notin {"counting", "commit"}
    /\ \A c \in Call : call[c].at = "commit" =>
         call[c].due = {m \in Milestone : /\ m <= Cardinality(Invited \cup {call[c].who})
                                          /\ milestones[m] = 0}
    /\ \A m \in Milestone : m <= Cardinality(Invited) => milestones[m] = 1

LEMMA FollowInit == ASSUME ReferralAssumption, Init PROVE FollowInv
<1>1. Invited = {} /\ Cardinality({}) = 0
  BY FS_EmptySet DEF Init, Invited
<1>2. \A m \in Milestone : m \in Nat /\ m # 0
  BY DEF ReferralAssumption
<1>3. \A m \in Milestone : ~(m <= Cardinality(Invited))
  BY <1>1, <1>2
<1>4. \A c \in Call : call[c].at = "idle"
  BY DEF Init, Idle
<1>5. \A i \in Invitee : granted[i] = 0 /\ standing[i] = "none"
  BY DEF Init
<1> QED BY <1>3, <1>4, <1>5 DEF FollowInv, Settling

LEMMA FollowStep ==
  ASSUME ReferralAssumption, ReferralInv, FollowInv, [Next]_refVars
  PROVE  FollowInv'
<1> SUFFICES ASSUME ~regressed' PROVE FollowInv'
  BY DEF FollowInv
<1> USE DEF ReferralInv, TypeOK
(* Steps that leave the rewarded friends and their grants alone, and bring *)
(* no call to the wallet.                                                  *)
<1>1. ASSUME ~regressed, Invited' = Invited, granted' = granted, milestones' = milestones,
             \A i \in Invitee : standing'[i] = "rewarded" <=> standing[i] = "rewarded",
             \A c \in Call : \/ call'[c] = call[c]
                             \/ call'[c].at \notin {"paying", "counting", "commit"}
                             \/ call'[c].at = "paying" /\ call'[c].pays
      PROVE  FollowInv'
  <2>1. /\ \A i \in Invitee : granted'[i] > 0 <=> standing'[i] = "rewarded"
        /\ \A m \in Milestone : m <= Cardinality(Invited') => milestones'[m] = 1
    BY <1>1 DEF FollowInv
  <2>2. \A c, d \in Call : /\ c # d /\ call'[c].at \in {"counting", "commit"}
                           => call'[d].at \notin {"counting", "commit"}
    BY <1>1 DEF FollowInv
  <2>3. ASSUME NEW c \in Call, call'[c].at = "commit"
        PROVE  call'[c].due = {m \in Milestone : /\ m <= Cardinality(Invited' \cup {call'[c].who})
                                                 /\ milestones'[m] = 0}
    <3>1. call'[c] = call[c]
      BY <1>1, <2>3
    <3>2. call[c].due = {m \in Milestone : /\ m <= Cardinality(Invited \cup {call[c].who})
                                           /\ milestones[m] = 0}
      BY <1>1, <2>3, <3>1 DEF FollowInv
    <3> QED BY <1>1, <3>1, <3>2
  <2>4. \A c \in Call : Settling(c)' => call'[c].pays
    BY <1>1 DEF FollowInv, Settling
  <2> QED BY <2>1, <2>2, <2>3, <2>4 DEF FollowInv
<1>2. CASE UNCHANGED refVars
  BY <1>1, <1>2 DEF refVars, Invited
<1>3. ASSUME NEW i \in Invitee, Attach(i) \/ LoseRoadmap(i) \/ WindowEnds(i) \/ \E f \in Fact : Do(i, f)
      PROVE  FollowInv'
  <2>1. /\ ~regressed /\ granted' = granted /\ milestones' = milestones /\ call' = call
        /\ \A j \in Invitee : standing'[j] = "rewarded" <=> standing[j] = "rewarded"
    BY <1>3 DEF Attach, LoseRoadmap, WindowEnds, Do
  <2> QED BY <1>1, <2>1 DEF Invited
<1>4. ASSUME NEW c \in Call, (\E i \in Invitee : Evaluate(c, i)) \/ Check(c) \/ Fail(c)
      PROVE  FollowInv'
  <2>1. /\ ~regressed /\ UNCHANGED <<granted, milestones, standing>>
        /\ \A d \in Call : d # c => call'[d] = call[d]
        /\ call'[c].at \in {"update", "check", "settle", "idle"}
    BY <1>4 DEF Evaluate, Check, Fail, Goto, Idle
  <2> QED BY <1>1, <2>1 DEF Invited
<1>5. ASSUME NEW c \in Call, SaveUpdates(c)
      PROVE  FollowInv'
  <2>1. /\ ~regressed /\ UNCHANGED <<granted, milestones>>
        /\ \A d \in Call : d # c => call'[d] = call[d]
        /\ call'[c].at \in {"settle", "idle"}
        /\ standing[call[c].who] # "rewarded" /\ call[c].next # "rewarded"
        /\ standing' = [standing EXCEPT ![call[c].who] = call[c].next]
    BY <1>5 DEF SaveUpdates, Goto, Idle, CallOK
  <2>2. \A j \in Invitee : standing'[j] = "rewarded" <=> standing[j] = "rewarded"
    BY <2>1
  <2> QED BY <1>1, <2>1, <2>2 DEF Invited
<1>6. ASSUME NEW c \in Call, SettleLocks(c)
      PROVE  FollowInv'
  <2>1. /\ ~regressed /\ UNCHANGED <<granted, milestones, standing>>
        /\ \A d \in Call : d # c => call'[d] = call[d]
        /\ call[c].at = "settle"
    BY <1>6 DEF SettleLocks, Goto
  <2>2. call'[c].at = "idle" \/ (call'[c].at = "paying" /\ call'[c].pays)
    <3>1. CASE ~Settles(call[c].who)
      BY <1>6, <3>1 DEF SettleLocks, Goto, Idle
    <3>2. CASE Settles(call[c].who)
      <4>1. granted[call[c].who] = 0
        <5>1. call[c].who \in Invitee
          BY <2>1 DEF CallOK
        <5>2. standing[call[c].who] # "rewarded" /\ ~(granted[call[c].who] > 0)
          BY <2>1, <3>2, <5>1 DEF FollowInv, Settles
        <5> QED BY <5>1, <5>2
      <4> QED BY <1>6, <3>2, <4>1 DEF SettleLocks, Goto
    <3> QED BY <3>1, <3>2
  <2> QED BY <1>1, <2>1, <2>2 DEF Invited
<1>7. ASSUME NEW c \in Call, call[c].at \in {"paying", "counting", "commit"}, ~regressed
      PROVE  call[c].pays
  BY <1>7 DEF FollowInv, Settling
<1>8. ASSUME NEW c \in Call, SettlePays(c)
      PROVE  FollowInv'
  <2>1. /\ ~regressed /\ UNCHANGED <<granted, milestones, standing>>
        /\ \A d \in Call : d # c => call'[d] = call[d]
        /\ call[c].at = "paying" /\ call'[c].at = "counting" /\ call'[c].pays = call[c].pays
    BY <1>8 DEF SettlePays, Goto
  <2>2. \A d \in Call : call[d].at \notin {"counting", "commit"}
    BY <1>7, <1>8, <2>1 DEF SettlePays, WalletFree, WalletLocked
  <2>3. Invited' = Invited
    BY <2>1 DEF Invited
  <2>4. \A d \in Call : Settling(d)' => call'[d].pays
    BY <2>1, <1>7 DEF FollowInv, Settling
  <2> QED BY <2>1, <2>2, <2>3, <2>4 DEF FollowInv
<1>9. ASSUME NEW c \in Call, SettleCounts(c)
      PROVE  FollowInv'
  <2>1. /\ ~regressed /\ UNCHANGED <<granted, milestones, standing>>
        /\ \A d \in Call : d # c => call'[d] = call[d]
        /\ call[c].at = "counting" /\ call'[c].at = "commit" /\ call'[c].who = call[c].who
        /\ call'[c].pays = call[c].pays
        /\ call'[c].due = {m \in Milestone : /\ m <= Cardinality(Invited \cup {call[c].who})
                                             /\ milestones[m] = 0}
    BY <1>9 DEF SettleCounts, Goto, Rewarded, Invited
  <2>2. \A d \in Call : d # c => call[d].at \notin {"counting", "commit"}
    BY <2>1 DEF FollowInv
  <2>3. Invited' = Invited
    BY <2>1 DEF Invited
  <2>4. \A d \in Call : Settling(d)' => call'[d].pays
    BY <2>1, <1>7 DEF FollowInv, Settling
  <2>5. \A d \in Call : call'[d].at = "commit" =>
          call'[d].due = {m \in Milestone : /\ m <= Cardinality(Invited' \cup {call'[d].who})
                                            /\ milestones'[m] = 0}
    <3>1. \A d \in Call : call'[d].at = "commit" => d = c
      BY <2>1, <2>2
    <3> QED BY <2>1, <2>3, <3>1
  <2>6. \A d, e \in Call : /\ d # e /\ call'[d].at \in {"counting", "commit"}
                           => call'[e].at \notin {"counting", "commit"}
    BY <2>1, <2>2
  <2> QED BY <2>1, <2>3, <2>4, <2>5, <2>6 DEF FollowInv
<1>10. ASSUME NEW c \in Call, SettleCommits(c)
       PROVE  FollowInv'
  <2> DEFINE i == call[c].who
  <2>1. /\ ~regressed /\ call[c].at = "commit" /\ i \in Invitee /\ call[c].pays
        /\ \A d \in Call : d # c => call'[d] = call[d]
        /\ call'[c].at = "idle"
    BY <1>7, <1>10 DEF SettleCommits, Goto, Idle, CallOK
  <2>2. /\ call[c].due = {m \in Milestone : m <= Cardinality(Invited \cup {i}) /\ milestones[m] = 0}
        /\ \A d \in Call : d # c => call[d].at \notin {"counting", "commit"}
    BY <2>1 DEF FollowInv
  <2>3. /\ standing' = [standing EXCEPT ![i] = "rewarded"]
        /\ granted' = [granted EXCEPT ![i] = @ + 1]
        /\ milestones' = [m \in Milestone |-> milestones[m] + (IF m \in call[c].due THEN 1 ELSE 0)]
    BY <1>10, <2>1, <2>2 DEF SettleCommits
  <2> HIDE DEF i
  <2>4. Invited' = Invited \cup {i}
    BY <2>1, <2>3 DEF Invited
  <2>5. \A j \in Invitee : granted'[j] > 0 <=> standing'[j] = "rewarded"
    BY <2>1, <2>3 DEF FollowInv
  <2>6. ASSUME NEW m \in Milestone, m <= Cardinality(Invited')
        PROVE  milestones'[m] = 1
    <3>1. milestones[m] \in {0, 1}
      OBVIOUS
    <3>2. CASE milestones[m] = 0
      BY <2>2, <2>3, <2>4, <2>6, <3>2
    <3>3. CASE milestones[m] = 1
      BY <2>2, <2>3, <3>3
    <3> QED BY <3>1, <3>2, <3>3
  <2>7. \A d \in Call : Settling(d)' => call'[d].pays
    BY <2>1, <1>7 DEF FollowInv, Settling
  <2> QED BY <2>1, <2>2, <2>5, <2>6, <2>7 DEF FollowInv
<1> QED BY <1>2, <1>3, <1>4, <1>5, <1>6, <1>8, <1>9, <1>10 DEF Next

(* Whichever friends are settled at the same moment, every milestone that  *)
(* the rewarded friends reach is granted (evaluateMilestones counts under  *)
(* the wallet's lock), unless a late save of evaluateInvitee took a        *)
(* rewarded standing back.                                                 *)
THEOREM MilestonesAreGranted == ASSUME ReferralAssumption PROVE Spec => []MilestonesFollow
<1>1. Init => FollowInv
  BY FollowInit
<1>2. ReferralInv /\ FollowInv /\ [Next]_refVars => FollowInv'
  BY FollowStep
<1>3. FollowInv => MilestonesFollow
  BY DEF FollowInv, MilestonesFollow, Invited
<1> QED BY <1>1, <1>2, <1>3, ReferralAlways, PTL DEF Spec
-----------------------------------------------------------------------------
(* The lucky wheel, with constants and variables of its own.               *)
CONSTANTS WheelDay, MaxSpins, RespinKey, Client
VARIABLES wday, row, request, spun, respun, badge, rights, awards, won

Wheel == INSTANCE LuckyWheel
Spins == INSTANCE EarnedOnce WITH
  Key <- Wheel!Right, earned <- Wheel!EarnedSpins, paid <- Wheel!PaidSpins

DayRow == [paid : {0, 1}, extra : {0, 1}, used : Nat, gems : Nat, xp : Nat, kinds : SUBSET Wheel!Kind]
Working(c) == request[c].at \in {"created", "locked"}

(* What a row says of its day: what was won, and which spins were rewarded. *)
Told(d, day) ==
  /\ day.used <= Wheel!Allowed(day)
  /\ day.gems <= Wheel!GemsCap /\ day.xp <= Wheel!XpCap
  /\ won[d] = [gems |-> day.gems, xp |-> day.xp]
  /\ \A r \in Wheel!Right : r[1] = d => awards[r] = IF r[2] <= day.used THEN 1 ELSE 0
RowTells(d, day) == Told(d, day) /\ Wheel!RightsOf(d, day) \subseteq rights

Fresh(day) == day.paid = 0 /\ day.extra = 0 /\ day.used = 0 /\ day.gems = 0 /\ day.xp = 0

TypeInv ==
  /\ wday \in Wheel!Days
  /\ row \in [Wheel!Days -> SUBSET DayRow]
  /\ spun \subseteq Wheel!SpinKey /\ respun \subseteq RespinKey /\ badge \in BOOLEAN
  /\ rights \subseteq Wheel!Right /\ awards \in [Wheel!Right -> Nat]
  /\ won \in [Wheel!Days -> [gems : Nat, xp : Nat]]
  /\ request = [c \in Client |-> request[c]]
  /\ \A c \in Client : /\ request[c].at \in {"idle", "begin", "created", "locked"}
                       /\ request[c].at = "begin" => request[c].key \in Wheel!SpinKey \cup RespinKey
                       /\ Working(c) => /\ request[c].key \in Wheel!SpinKey \cup RespinKey
                                        /\ request[c].day \in Wheel!Days
                                        /\ request[c].seen \in DayRow

(* A request that has locked a row is alone with it and works on what the  *)
(* row holds; one that will create a row works on a new one.               *)
LockInv ==
  /\ \A c \in Client : request[c].at = "locked" => row[request[c].day] = {request[c].seen}
  /\ \A c, e \in Client : /\ c # e /\ request[c].at = "locked" /\ request[e].at = "locked"
                          => request[c].day # request[e].day
  /\ \A c \in Client : request[c].at = "created" => Fresh(request[c].seen)

DayInv ==
  /\ \A d \in Wheel!Days : \A x, y \in row[d] : x = y
  /\ \A d \in Wheel!Days : \A day \in row[d] : RowTells(d, day)
  /\ \A d \in Wheel!Days : row[d] = {} =>
       /\ won[d] = [gems |-> 0, xp |-> 0]
       /\ \A r \in Wheel!Right : r[1] = d => awards[r] = 0

WheelInv == TypeInv /\ LockInv /\ DayInv

LEMMA WheelInit == ASSUME Wheel!WheelAssumption PROVE Wheel!Init => WheelInv
<1> SUFFICES ASSUME Wheel!Init PROVE WheelInv
  OBVIOUS
<1> USE DEF Wheel!Init
<1>1. TypeInv
  <2>1. wday \in Wheel!Days
    BY DEF Wheel!WheelAssumption, Wheel!Days
  <2>2. /\ row \in [Wheel!Days -> SUBSET DayRow]
        /\ spun \subseteq Wheel!SpinKey /\ respun \subseteq RespinKey /\ badge \in BOOLEAN
        /\ rights \subseteq Wheel!Right /\ awards \in [Wheel!Right -> Nat]
        /\ won \in [Wheel!Days -> [gems : Nat, xp : Nat]]
    OBVIOUS
  <2>3. request = [c \in Client |-> request[c]] /\ \A c \in Client : request[c].at = "idle"
    BY DEF Wheel!Quiet
  <2> QED BY <2>1, <2>2, <2>3 DEF TypeInv, Working
<1>2. LockInv
  BY DEF LockInv, Wheel!Quiet
<1>3. DayInv
  BY DEF DayInv
<1> QED BY <1>1, <1>2, <1>3 DEF WheelInv

LEMMA NewDays ==
  ASSUME TypeInv
  PROVE  Wheel!NewDay \in DayRow /\ Fresh(Wheel!NewDay)
BY DEF Wheel!NewDay, DayRow, Fresh, Wheel!Kind

LEMMA FreshTold ==
  ASSUME TypeInv, DayInv, NEW d \in Wheel!Days, row[d] = {}, NEW day \in DayRow, Fresh(day)
  PROVE  Told(d, day)
<1>1. \A r \in Wheel!Right : r[2] \in Nat /\ ~(r[2] <= 0)
  BY DEF Wheel!Right, Wheel!FreePerDay, Wheel!PaidPerDay
<1> QED BY <1>1 DEF Told, Fresh, DayInv, DayRow, Wheel!Allowed, Wheel!FreePerDay, Wheel!GemsCap, Wheel!XpCap

(* Only Look, Spin and Respin change a row.                                *)
LEMMA QuietSteps ==
  ASSUME Wheel!WheelAssumption, WheelInv,
         \/ Wheel!Tomorrow
         \/ \E c \in Client, k \in Wheel!SpinKey \cup RespinKey : Wheel!Ask(c, k)
         \/ \E c \in Client : Wheel!Begin(c) \/ Wheel!Rollback(c)
         \/ UNCHANGED Wheel!wheelVars
  PROVE  WheelInv' /\ UNCHANGED <<rights, awards>>
<1> USE DEF WheelInv
<1>1. UNCHANGED <<row, spun, respun, badge, rights, awards, won>>
  BY DEF Wheel!Tomorrow, Wheel!Ask, Wheel!Begin, Wheel!Rollback, Wheel!wheelVars
<1>2. DayInv'
  BY <1>1 DEF DayInv, RowTells, Told, Wheel!RightsOf
<1>3. TypeInv' /\ LockInv'
  <2>1. CASE Wheel!Tomorrow \/ UNCHANGED Wheel!wheelVars
    <3>1. request' = request /\ wday' \in Wheel!Days
      BY <2>1 DEF Wheel!Tomorrow, Wheel!wheelVars, TypeInv, Wheel!Days, Wheel!WheelAssumption
    <3> QED BY <1>1, <3>1 DEF TypeInv, LockInv, Working
  <2>2. ASSUME NEW c \in Client, NEW k \in Wheel!SpinKey \cup RespinKey, Wheel!Ask(c, k)
        PROVE  TypeInv' /\ LockInv'
    <3>1. /\ wday' = wday /\ request[c].at = "idle"
          /\ request' = [request EXCEPT ![c] = [at |-> "begin", key |-> k]]
      BY <2>2 DEF Wheel!Ask
    <3>2. TypeInv'
      BY <1>1, <3>1 DEF TypeInv, Working
    <3>3. LockInv'
      BY <1>1, <3>1 DEF TypeInv, LockInv
    <3> QED BY <3>2, <3>3
  <2>3. ASSUME NEW c \in Client, Wheel!Rollback(c)
        PROVE  TypeInv' /\ LockInv'
    BY <1>1, <2>3 DEF Wheel!Rollback, TypeInv, LockInv, Wheel!Quiet, Working
  <2>4. ASSUME NEW c \in Client, Wheel!Begin(c), row[wday] = {}
        PROVE  TypeInv' /\ LockInv'
    <3>1. /\ wday' = wday /\ request[c].at = "begin"
          /\ request' = [request EXCEPT ![c] = [at |-> "created", key |-> request[c].key,
                                                day |-> wday, seen |-> Wheel!NewDay]]
      BY <2>4 DEF Wheel!Begin
    <3> QED BY <1>1, <3>1, NewDays DEF TypeInv, LockInv, Working
  <2>5. ASSUME NEW c \in Client, Wheel!Begin(c), row[wday] # {}
        PROVE  TypeInv' /\ LockInv'
    <3>1. PICK day \in row[wday] :
          /\ wday' = wday /\ request[c].at = "begin" /\ Wheel!RowFree(wday)
          /\ request' = [request EXCEPT ![c] = [at |-> "locked", key |-> request[c].key,
                                                day |-> wday, seen |-> day]]
      BY <2>5 DEF Wheel!Begin
    <3>2. row[wday] = {day} /\ day \in DayRow /\ wday \in Wheel!Days
      BY <2>5 DEF DayInv, TypeInv
    <3>3. TypeInv'
      BY <1>1, <3>1, <3>2 DEF TypeInv, Working
    <3>4. LockInv'
      BY <1>1, <3>1, <3>2 DEF TypeInv, LockInv, Wheel!RowFree
    <3> QED BY <3>3, <3>4
  <2> QED BY <2>1, <2>2, <2>3, <2>4, <2>5
<1> QED BY <1>1, <1>2, <1>3

(* A day's row is written: it tells of its day afterwards, so do the rows  *)
(* of the other days, which are as they were.                              *)
LEMMA RowWritten ==
  ASSUME WheelInv, NEW d \in Wheel!Days, NEW day \in DayRow,
         row' = [row EXCEPT ![d] = {day}], RowTells(d, day)',
         rights \subseteq rights',
         \A e \in Wheel!Days : e # d => won'[e] = won[e],
         \A r \in Wheel!Right : r[1] # d => awards'[r] = awards[r]
  PROVE  DayInv'
<1> USE DEF WheelInv, TypeInv
<1>1. row'[d] = {day} /\ \A e \in Wheel!Days : e # d => row'[e] = row[e]
  OBVIOUS
<1>2. \A e \in Wheel!Days : e # d => \A r \in Wheel!Right : r[1] = e => awards'[r] = awards[r]
  OBVIOUS
<1>3. ASSUME NEW e \in Wheel!Days, e # d, NEW x \in row[e]
      PROVE  RowTells(e, x)'
  <2>1. RowTells(e, x)
    BY DEF DayInv
  <2> QED BY <1>2, <1>3, <2>1 DEF RowTells, Told, Wheel!RightsOf
<1>4. \A e \in Wheel!Days : \A x, y \in row'[e] : x = y
  BY <1>1 DEF DayInv
<1>5. \A e \in Wheel!Days : \A x \in row'[e] : RowTells(e, x)'
  BY <1>1, <1>3
<1>6. \A e \in Wheel!Days : row'[e] = {} => won'[e] = [gems |-> 0, xp |-> 0]
                              /\ \A r \in Wheel!Right : r[1] = e => awards'[r] = 0
  BY <1>1, <1>2 DEF DayInv
<1> QED BY <1>4, <1>5, <1>6 DEF DayInv

LEMMA LookStep == ASSUME WheelInv, Wheel!Look PROVE WheelInv' /\ rights \subseteq rights' /\ awards' = awards
<1> USE DEF WheelInv
<1>0. PICK d \in Wheel!Days : d = wday
  BY DEF TypeInv
<1>1. PICK day \in DayRow : day = Wheel!NewDay /\ Fresh(day)
  BY NewDays
<1>2. /\ row[d] = {} /\ row' = [row EXCEPT ![d] = {day}]
      /\ rights' = rights \cup Wheel!RightsOf(d, day)
      /\ UNCHANGED <<wday, request, spun, respun, badge, awards, won>>
  BY <1>0, <1>1 DEF Wheel!Look
<1>4. TypeInv'
  BY <1>1, <1>2, <1>0 DEF TypeInv, Wheel!RightsOf, Working
<1>5. LockInv'
  <2>1. \A e \in Client : request[e].at = "locked" => request[e].day # d /\ request[e].day \in Wheel!Days
    BY <1>2 DEF LockInv, TypeInv, Working
  <2>2. \A e \in Wheel!Days : e # d => row'[e] = row[e]
    BY <1>2
  <2>3. \A e \in Client : request[e].at = "locked" => row'[request[e].day] = {request[e].seen}
    BY <2>1, <2>2 DEF LockInv
  <2> QED BY <1>2, <2>3 DEF LockInv
<1>6. RowTells(d, day)'
  <2>1. Told(d, day)
    BY <1>1, <1>2, <1>0, FreshTold
  <2> QED BY <2>1, <1>2 DEF RowTells, Told, Wheel!RightsOf
<1>7. DayInv'
  BY <1>1, <1>2, <1>0, <1>6, RowWritten
<1> QED BY <1>2, <1>4, <1>5, <1>7

(* What a request commits: the day it works on was as it has seen it.      *)
LEMMA Committed ==
  ASSUME WheelInv, NEW c \in Client, Wheel!Committing(c)
  PROVE  /\ request[c].day \in Wheel!Days /\ request[c].seen \in DayRow
         /\ request[c].key \in Wheel!SpinKey \cup RespinKey
         /\ Told(request[c].day, request[c].seen)
<1> USE DEF WheelInv
<1>1. CASE request[c].at = "locked"
  BY <1>1 DEF TypeInv, LockInv, DayInv, RowTells, Working
<1>2. CASE request[c].at = "created" /\ row[request[c].day] = {}
  BY <1>2, FreshTold DEF TypeInv, LockInv, Working
<1> QED BY <1>1, <1>2 DEF Wheel!Committing

(* A commit that leaves the row as `day'.                                  *)
LEMMA Stored ==
  ASSUME WheelInv, NEW c \in Client, Wheel!Committing(c), NEW d \in Wheel!Days, d = request[c].day, NEW day \in DayRow,
         Wheel!Store(c, day), Told(d, day)',
         wday' = wday, spun' \subseteq Wheel!SpinKey, respun' \subseteq RespinKey, badge' \in BOOLEAN,
         won' \in [Wheel!Days -> [gems : Nat, xp : Nat]], awards' \in [Wheel!Right -> Nat],
         \A e \in Wheel!Days : e # d => won'[e] = won[e],
         \A r \in Wheel!Right : r[1] # d => awards'[r] = awards[r]
  PROVE  WheelInv' /\ rights \subseteq rights' /\ Wheel!RightsOf(d, day) \subseteq rights'
<1> USE DEF WheelInv
<1>2. /\ row' = [row EXCEPT ![d] = {day}]
      /\ rights' = rights \cup Wheel!RightsOf(d, day)
      /\ request' = [request EXCEPT ![c] = [at |-> "idle"]]
  BY DEF Wheel!Store, Wheel!Quiet
<1>3. \A e \in Client : e # c /\ request[e].at = "locked" => request[e].day # d
  <2>1. CASE request[c].at = "locked"
    BY <2>1 DEF LockInv
  <2>2. CASE row[d] = {}
    BY <2>2 DEF LockInv
  <2> QED BY <2>1, <2>2 DEF Wheel!Committing
<1>4. TypeInv'
  BY <1>2 DEF TypeInv, Wheel!RightsOf, Working
<1>5. LockInv'
  <2>1. \A e \in Wheel!Days : e # d => row'[e] = row[e]
    BY <1>2 DEF TypeInv
  <2>2. \A e \in Client : request'[e].at # "idle" => e # c /\ request'[e] = request[e]
    BY <1>2 DEF TypeInv
  <2>3. \A e \in Client : request'[e].at = "locked" => row'[request'[e].day] = {request'[e].seen}
    BY <1>3, <2>1, <2>2 DEF LockInv, TypeInv, Working
  <2>4. \A e \in Client : request'[e].at = "created" => Fresh(request'[e].seen)
    BY <2>2 DEF LockInv
  <2>5. \A e, g \in Client : e # g /\ request'[e].at = "locked" /\ request'[g].at = "locked"
                             => request'[e].day # request'[g].day
    BY <2>2 DEF LockInv
  <2> QED BY <2>3, <2>4, <2>5 DEF LockInv
<1>6. RowTells(d, day)'
  BY <1>2 DEF RowTells, Told, Wheel!RightsOf
<1>7. DayInv'
  BY <1>2, <1>6, RowWritten
<1> QED BY <1>2, <1>4, <1>5, <1>7

LEMMA RespinStep ==
  ASSUME WheelInv, NEW c \in Client, Wheel!Respin(c)
  PROVE  WheelInv' /\ rights \subseteq rights' /\ awards' = awards
<1> USE DEF WheelInv
<1>0. PICK d \in Wheel!Days, seen \in DayRow : d = request[c].day /\ seen = request[c].seen
  BY Committed DEF Wheel!Respin
<1> DEFINE day == IF request[c].key \in respun THEN seen ELSE [seen EXCEPT !.paid = @ + 1]
<1>1. Told(d, seen)
  BY <1>0, Committed DEF Wheel!Respin
<1>2. /\ Wheel!Committing(c) /\ Wheel!Store(c, day) /\ seen.paid < 1
      /\ respun' \subseteq RespinKey
      /\ UNCHANGED <<wday, spun, badge, awards, won>>
  BY <1>0 DEF Wheel!Respin, Wheel!MayBuy, Wheel!PaidPerDay, TypeInv
<1>3. day \in DayRow /\ Wheel!Allowed(seen) <= Wheel!Allowed(day)
      /\ day.used = seen.used /\ day.gems = seen.gems /\ day.xp = seen.xp
  BY <1>1, <1>2 DEF DayRow, Wheel!Allowed, Wheel!FreePerDay
<1>4. Told(d, day)
  <2>1. Wheel!Allowed(seen) \in Nat /\ Wheel!Allowed(day) \in Nat /\ seen.used \in Nat
    BY <1>1, <1>3 DEF DayRow, Wheel!Allowed, Wheel!FreePerDay
  <2> QED BY <1>1, <1>3, <2>1 DEF Told
<1> HIDE DEF day
<1>5. ASSUME NEW x \in DayRow, Told(d, x) PROVE Told(d, x)'
  BY <1>2, <1>5 DEF Told
<1>6. PICK x \in DayRow : x = day
  BY <1>3
<1> QED BY <1>6, <1>0, <1>1, <1>4, <1>2, <1>3, <1>5, Stored DEF TypeInv

(* What a spin wins stays within the caps.                                 *)
LEMMA ClampKeeps ==
  ASSUME NEW kind \in Wheel!Kind, NEW seen \in DayRow,
         seen.gems <= Wheel!GemsCap, seen.xp <= Wheel!XpCap
  PROVE  LET w == Wheel!Clamped(kind, seen) IN
         /\ w.amount \in Nat
         /\ w.kind = "gems" => seen.gems + w.amount <= Wheel!GemsCap
         /\ w.kind = "xp" => seen.xp + w.amount <= Wheel!XpCap
<1> USE DEF Wheel!Clamped, Wheel!GemsCap, Wheel!XpCap, Wheel!Room, Wheel!Least, Wheel!Amount, DayRow
<1>1. CASE kind = "gems"
  BY <1>1
<1>2. CASE kind = "xp"
  BY <1>2
<1>3. CASE kind \in {"coins", "again", "badge"}
  BY <1>3
<1> QED BY <1>1, <1>2, <1>3 DEF Wheel!Kind

(* The right that a spin uses, and nothing else, is rewarded.              *)
LEMMA SpinStep ==
  ASSUME WheelInv, NEW c \in Client, Wheel!Spin(c)
  PROVE  /\ WheelInv' /\ rights \subseteq rights'
         /\ \E r \in Wheel!Right : /\ awards[r] = 0 /\ r \in rights'
                                   /\ awards' = [awards EXCEPT ![r] = 1]
<1> USE DEF WheelInv
<1>1. PICK d \in Wheel!Days, seen \in DayRow :
        d = request[c].day /\ seen = request[c].seen /\ Told(d, seen)
  BY Committed DEF Wheel!Spin
<1>2. PICK kind \in seen.kinds :
        LET w == Wheel!Clamped(kind, seen) IN
        /\ Wheel!Store(c, Wheel!After(seen, w))
        /\ badge' = (badge \/ w.kind = "badge")
        /\ won' = [won EXCEPT ![d] = [gems |-> @.gems + (IF w.kind = "gems" THEN w.amount ELSE 0),
                                      xp |-> @.xp + (IF w.kind = "xp" THEN w.amount ELSE 0)]]
  BY <1>1 DEF Wheel!Spin
<1>3. /\ Wheel!Committing(c) /\ seen.used < Wheel!Allowed(seen)
      /\ awards' = [awards EXCEPT ![<<d, seen.used + 1>>] = @ + 1]
      /\ spun' \subseteq Wheel!SpinKey /\ UNCHANGED <<wday, respun>>
  BY <1>1 DEF Wheel!Spin, TypeInv
<1>4. kind \in Wheel!Kind /\ seen.gems <= Wheel!GemsCap /\ seen.xp <= Wheel!XpCap
      /\ won[d] = [gems |-> seen.gems, xp |-> seen.xp]
  BY <1>1 DEF DayRow, Told
<1> DEFINE w == Wheel!Clamped(kind, seen)
           gems == IF w.kind = "gems" THEN w.amount ELSE 0
           xp == IF w.kind = "xp" THEN w.amount ELSE 0
           r == <<d, seen.used + 1>>
<1>5. /\ w.amount \in Nat
      /\ gems \in Nat /\ seen.gems + gems <= Wheel!GemsCap
      /\ xp \in Nat /\ seen.xp + xp <= Wheel!XpCap
  BY <1>1, <1>4, ClampKeeps DEF DayRow
<1>6. PICK day \in DayRow :
        /\ day = Wheel!After(seen, w)
        /\ day.used = seen.used + 1 /\ day.gems = seen.gems + gems /\ day.xp = seen.xp + xp
        /\ day.paid = seen.paid /\ day.extra >= seen.extra
  <2> DEFINE extra == IF w.kind = "again" THEN 1 ELSE seen.extra
             kinds == IF w.kind = "badge" THEN seen.kinds \ {"badge"} ELSE seen.kinds
             day == [paid |-> seen.paid, extra |-> extra, used |-> seen.used + 1,
                     gems |-> seen.gems + gems, xp |-> seen.xp + xp, kinds |-> kinds]
  <2>1. Wheel!After(seen, w) = day
    BY DEF Wheel!After
  <2>2. seen.paid \in {0, 1} /\ extra \in {0, 1} /\ extra >= seen.extra /\ kinds \in SUBSET Wheel!Kind
        /\ seen.used \in Nat /\ seen.gems \in Nat /\ seen.xp \in Nat
    BY DEF DayRow
  <2> HIDE DEF extra, kinds, gems, xp, w
  <2>3. day \in DayRow
    BY <1>5, <2>2 DEF DayRow
  <2> QED BY <2>1, <2>2, <2>3
<1>7. Wheel!Store(c, day) /\ badge' \in BOOLEAN
      /\ won' = [won EXCEPT ![d] = [gems |-> day.gems, xp |-> day.xp]]
  BY <1>2, <1>4, <1>6 DEF TypeInv
<1> HIDE DEF gems, xp, w
<1>8. r \in Wheel!Right /\ awards[r] = 0 /\ day.used <= Wheel!Allowed(day)
  <2>1. seen.used \in Nat /\ seen.paid \in {0, 1} /\ seen.extra \in {0, 1}
        /\ day.paid \in {0, 1} /\ day.extra \in {0, 1}
    BY DEF DayRow
  <2>2. seen.used + 1 <= Wheel!Allowed(day) /\ seen.used + 1 \in 1..3 /\ ~(seen.used + 1 <= seen.used)
    BY <1>3, <1>6, <2>1 DEF Wheel!Allowed, Wheel!FreePerDay
  <2>3. r \in Wheel!Right
    BY <2>2 DEF Wheel!Right, Wheel!FreePerDay, Wheel!PaidPerDay
  <2> QED BY <1>1, <1>6, <2>2, <2>3 DEF Told
<1>9. awards' = [awards EXCEPT ![r] = 1]
  BY <1>3, <1>8
<1>10. Told(d, day)'
  <2>1. won'[d] = [gems |-> day.gems, xp |-> day.xp]
    BY <1>7 DEF TypeInv
  <2>2. ASSUME NEW q \in Wheel!Right, q[1] = d
        PROVE  awards'[q] = IF q[2] <= day.used THEN 1 ELSE 0
    <3>1. q[2] \in Nat /\ q = <<d, q[2]>> /\ seen.used \in Nat
      BY <2>2 DEF Wheel!Right, DayRow, Wheel!FreePerDay, Wheel!PaidPerDay
    <3>2. CASE q[2] = seen.used + 1
      BY <1>6, <1>8, <1>9, <3>1, <3>2 DEF TypeInv
    <3>3. CASE q[2] # seen.used + 1
      <4>1. awards'[q] = awards[q]
        BY <1>9, <3>3 DEF TypeInv
      <4>2. q[2] <= seen.used <=> q[2] <= seen.used + 1
        BY <3>1, <3>3
      <4> QED BY <1>1, <1>6, <2>2, <4>1, <4>2 DEF Told
    <3> QED BY <3>2, <3>3
  <2>3. day.gems <= Wheel!GemsCap /\ day.xp <= Wheel!XpCap
    BY <1>5, <1>6
  <2> QED BY <1>8, <2>1, <2>2, <2>3 DEF Told
<1>11. /\ won' \in [Wheel!Days -> [gems : Nat, xp : Nat]]
       /\ \A e \in Wheel!Days : e # d => won'[e] = won[e]
       /\ awards' \in [Wheel!Right -> Nat]
       /\ \A q \in Wheel!Right : q[1] # d => awards'[q] = awards[q]
  BY <1>7, <1>8, <1>9 DEF TypeInv, DayRow
<1>12. WheelInv' /\ rights \subseteq rights' /\ Wheel!RightsOf(d, day) \subseteq rights'
  <2>1. respun' \subseteq RespinKey
    BY <1>3 DEF TypeInv
  <2> QED BY <1>1, <1>3, <1>7, <1>10, <1>11, <2>1, Stored
<1>13. r \in rights'
  BY <1>6, <1>8, <1>12 DEF Wheel!RightsOf
<1> QED BY <1>8, <1>9, <1>12, <1>13

(* An award goes to a right that exists and had none.                      *)
Awarding ==
  /\ rights \subseteq rights'
  /\ \/ awards' = awards
     \/ \E r \in Wheel!Right : /\ awards[r] = 0 /\ r \in rights'
                               /\ awards' = [awards EXCEPT ![r] = 1]

LEMMA WheelStep ==
  ASSUME Wheel!WheelAssumption
  PROVE  WheelInv /\ [Wheel!Next]_Wheel!wheelVars => WheelInv' /\ Awarding
<1> SUFFICES ASSUME WheelInv, [Wheel!Next]_Wheel!wheelVars PROVE WheelInv' /\ Awarding
  OBVIOUS
<1>1. CASE Wheel!Look
  BY <1>1, LookStep DEF Awarding
<1>2. CASE \E c \in Client : Wheel!Spin(c)
  BY <1>2, SpinStep DEF Awarding
<1>3. CASE \E c \in Client : Wheel!Respin(c)
  BY <1>3, RespinStep DEF Awarding
<1>4. CASE \/ Wheel!Tomorrow
           \/ \E c \in Client, k \in Wheel!SpinKey \cup RespinKey : Wheel!Ask(c, k)
           \/ \E c \in Client : Wheel!Begin(c) \/ Wheel!Rollback(c)
           \/ UNCHANGED Wheel!wheelVars
  BY <1>4, QuietSteps DEF Awarding
<1> QED BY <1>1, <1>2, <1>3, <1>4 DEF Wheel!Next

LEMMA WheelAlways == ASSUME Wheel!WheelAssumption PROVE Wheel!Spec => []WheelInv
<1>1. Wheel!Init => WheelInv
  BY WheelInit
<1>2. WheelInv /\ [Wheel!Next]_Wheel!wheelVars => WheelInv'
  BY WheelStep
<1> QED BY <1>1, <1>2, PTL DEF Wheel!Spec

(* The spins of a day never win more gems or xp than its caps (the clamp   *)
(* of WheelRngService), however spins, re-spins and a change of the day    *)
(* interleave: clamped by a row that was read, and saved under its lock.   *)
THEOREM CapsAreHeld == ASSUME Wheel!WheelAssumption PROVE Wheel!Spec => []Wheel!CapsHeld
<1>1. WheelInv => Wheel!CapsHeld
  <2> SUFFICES ASSUME WheelInv, NEW d \in Wheel!Days
               PROVE  won[d].gems <= Wheel!GemsCap /\ won[d].xp <= Wheel!XpCap
    BY DEF Wheel!CapsHeld
  <2>1. CASE row[d] = {}
    BY <2>1 DEF WheelInv, DayInv, Wheel!GemsCap, Wheel!XpCap
  <2>2. ASSUME NEW day \in row[d]
        PROVE  won[d].gems <= Wheel!GemsCap /\ won[d].xp <= Wheel!XpCap
    <3>1. Told(d, day)
      BY DEF WheelInv, DayInv, RowTells
    <3> QED BY <3>1 DEF Told
  <2> QED BY <2>1, <2>2
<1> QED BY <1>1, WheelAlways, PTL

(* Every spin that a day has come to allow, free, bought or won, is        *)
(* rewarded once at most, and no reward is won without one: the wheel      *)
(* implements EarnedOnce.                                                  *)
THEOREM SpinsPayOnce == ASSUME Wheel!WheelAssumption PROVE Wheel!Spec => Spins!Spec
<1>1. Wheel!Init => Spins!Init
  BY DEF Wheel!Init, Spins!Init, Wheel!EarnedSpins, Wheel!PaidSpins
<1>2. WheelInv /\ WheelInv' /\ [Wheel!Next]_Wheel!wheelVars
        => [Spins!Next]_<<Wheel!EarnedSpins, Wheel!PaidSpins>>
  <2> SUFFICES ASSUME WheelInv, WheelInv', Awarding PROVE Spins!Next
    BY WheelStep
  <2>1. rights' \subseteq Wheel!Right /\ awards \in [Wheel!Right -> Nat]
    BY DEF WheelInv, TypeInv
  <2>2. CASE awards' = awards
    BY <2>1, <2>2 DEF Awarding, Spins!Next, Spins!Earn, Wheel!EarnedSpins, Wheel!PaidSpins
  <2>3. CASE \E r \in Wheel!Right : /\ awards[r] = 0 /\ r \in rights'
                                   /\ awards' = [awards EXCEPT ![r] = 1]
    BY <2>1, <2>3 DEF Awarding, Spins!Next, Spins!Pay, Wheel!EarnedSpins, Wheel!PaidSpins
  <2> QED BY <2>2, <2>3 DEF Awarding
<1> QED BY <1>1, <1>2, WheelAlways, PTL DEF Wheel!Spec, Spins!Spec
-----------------------------------------------------------------------------
(* A system flag: its row and the copies that the servers keep.            *)
CONSTANTS Server, Clerk, Ttl, LastTick, MaxChanges
VARIABLES flag, copy, tick, clerks, changes, changedAt, dropped
Flags == INSTANCE SystemFlags

(* Whom a handler works for, and that a handler which found no row is      *)
(* known to have been blind; a reader that is not late has the row's value. *)
Keeper == [at : {"keep"}, on : Server, value : Flags!Options \union {"none"}, late : BOOLEAN]
ClerkRow(c) ==
  /\ clerks[c].at = "seed" => /\ clerks[c].then.at \in {"idle", "read", "save"} /\ clerks[c].then.on \in Server
                              /\ clerks[c].then.at = "save" => clerks[c].then.value \in Flags!Options
                              /\ clerks[c].blind
  /\ clerks[c].at \in {"read", "keep", "save", "drop"} => clerks[c].on \in Server
  /\ clerks[c].at = "save" => clerks[c].value \in Flags!Options
  /\ clerks[c].at = "keep" => clerks[c] \in Keeper /\ (~clerks[c].late => clerks[c].value = flag)
ClerkRows ==
  /\ flag \in Flags!Options \union {"none"} /\ clerks = [c \in Clerk |-> clerks[c]]
  /\ \A c \in Clerk : ClerkRow(c)

CopyRows ==
  /\ copy = [s \in Server |-> copy[s]]
  /\ \A s \in Server : copy[s].until \in Nat /\ copy[s].until <= tick + Ttl
  /\ tick \in Nat /\ changedAt \in Nat /\ dropped \subseteq Server

FlagsInv == ClerkRows /\ CopyRows /\ Flags!TakesHold

LEMMA FlagsStart == ASSUME Flags!FlagsAssumption, Flags!Init PROVE FlagsInv
<1> USE DEF Flags!Init, Flags!Free, Flags!NoCopy, Flags!FlagsAssumption
<1>1. ClerkRows
  BY DEF ClerkRows, ClerkRow
<1>2. CopyRows
  BY DEF CopyRows
<1>3. Flags!TakesHold
  BY DEF Flags!TakesHold, Flags!Live
<1> QED BY <1>1, <1>2, <1>3 DEF FlagsInv

(* A handler that begins, seeding first if there is no row.                *)
LEMMA ClerkStarts ==
  ASSUME ClerkRows, NEW c \in Clerk, NEW job, Flags!Start(c, job), flag' = flag,
         job.at \in {"read", "save"}, job.on \in Server, job.at = "save" => job.value \in Flags!Options
  PROVE  ClerkRows'
<1>1. /\ clerks' = [clerks EXCEPT ![c] = clerks'[c]]
      /\ clerks'[c] = job \/ clerks'[c] = [at |-> "seed", then |-> job, blind |-> TRUE]
  BY DEF Flags!Start, Flags!Become, Flags!Missing, Flags!Seeder, ClerkRows
<1>2. /\ clerks'[c].at = "seed" => clerks'[c].then = job /\ clerks'[c].blind
      /\ clerks'[c].at # "seed" => clerks'[c] = job
      /\ clerks'[c].at \in {"seed", "read", "save"}
  BY <1>1
<1>3. \A x \in Clerk \ {c} : clerks'[x] = clerks[x]
  BY <1>1 DEF ClerkRows, ClerkRow
<1> QED BY <1>1, <1>2, <1>3 DEF ClerkRows, ClerkRow

(* The row gets a value, and the readers that have another become late.    *)
LEMMA ClerkWrites ==
  ASSUME ClerkRows, NEW c \in Clerk, NEW v \in Flags!Options, NEW next, Flags!Write(c, v, next),
         next.at \in {"idle", "read", "save", "drop"}, next.at # "idle" => next.on \in Server,
         next.at = "save" => next.value \in Flags!Options
  PROVE  ClerkRows'
<1>1. /\ clerks' = [x \in Clerk |->
           IF x = c THEN next ELSE
           IF Flags!Late(x, v) THEN [clerks[x] EXCEPT !.late = TRUE] ELSE clerks[x]]
      /\ flag' = v
  BY DEF Flags!Write
<1>2. clerks'[c] = next /\ clerks' = [x \in Clerk |-> clerks'[x]]
  BY <1>1
<1>3. ASSUME NEW x \in Clerk \ {c}, ~Flags!Late(x, v) PROVE clerks'[x] = clerks[x]
  BY <1>1, <1>3
<1>4. ASSUME NEW x \in Clerk \ {c}, Flags!Late(x, v)
      PROVE  clerks'[x] = [clerks[x] EXCEPT !.late = TRUE] /\ clerks[x].at = "keep"
  BY <1>1, <1>4 DEF Flags!Late
<1>5. ASSUME NEW x \in Clerk \ {c}, Flags!Late(x, v)
      PROVE  clerks'[x] \in Keeper /\ clerks'[x].late /\ clerks'[x].at = "keep" /\ clerks'[x].on = clerks[x].on
  <2>1. clerks[x] \in Keeper
    BY <1>4, <1>5 DEF ClerkRows, ClerkRow
  <2>2. PICK k : k = [clerks[x] EXCEPT !.late = TRUE]
    OBVIOUS
  <2>3. k \in Keeper /\ k.late /\ k.at = "keep" /\ k.on = clerks[x].on
    BY <2>1, <2>2 DEF Keeper
  <2> QED BY <1>4, <1>5, <2>2, <2>3
<1>6. ASSUME NEW x \in Clerk \ {c}, ~Flags!Late(x, v), clerks[x].at = "keep" PROVE clerks[x].value = v
  BY <1>6 DEF Flags!Late
<1>7. flag' \in Flags!Options \union {"none"}
  BY <1>1
<1>8. ASSUME NEW x \in Clerk PROVE ClerkRow(x)'
  <2>1. CASE x = c
    BY <1>2, <2>1 DEF ClerkRow
  <2>2. CASE x # c /\ Flags!Late(x, v)
    BY <1>4, <1>5, <2>2 DEF ClerkRows, ClerkRow
  <2>3. CASE x # c /\ ~Flags!Late(x, v)
    BY <1>1, <1>3, <1>6, <2>3 DEF ClerkRows, ClerkRow
  <2> QED BY <2>1, <2>2, <2>3
<1> QED BY <1>2, <1>7, <1>8 DEF ClerkRows, ClerkRow

(* The handler of c becomes f, and no row is written.                      *)
LEMMA ClerkBecomes ==
  ASSUME ClerkRows, NEW c \in Clerk, NEW f, Flags!Become(c, f), flag' = flag,
         f.at \in {"idle", "keep"}, f.at = "keep" => f \in Keeper /\ f.value = flag
  PROVE  ClerkRows'
<1>1. /\ clerks'[c] = f /\ clerks' = [x \in Clerk |-> clerks'[x]]
      /\ \A x \in Clerk \ {c} : clerks'[x] = clerks[x]
  BY DEF Flags!Become, ClerkRows
<1>2. f.at = "keep" => f.on \in Server
  BY DEF Keeper
<1> QED BY <1>1, <1>2 DEF ClerkRows, ClerkRow

LEMMA FlagsStep ==
  ASSUME Flags!FlagsAssumption, FlagsInv, [Flags!Next]_Flags!vars PROVE FlagsInv'
<1>0. /\ ClerkRows /\ CopyRows /\ Flags!TakesHold /\ Ttl \in Nat /\ LastTick \in Nat
      /\ flag \in Flags!Options \union {"none"}
  BY DEF FlagsInv, Flags!FlagsAssumption, ClerkRows
<1>f. Flags!Free.at = "idle" /\ Flags!NoCopy.until = 0
  BY DEF Flags!Free, Flags!NoCopy
<1>1. ASSUME Flags!Tick PROVE FlagsInv'
  <2>1. /\ tick' = tick + 1 /\ UNCHANGED <<flag, clerks, changes, changedAt, dropped>>
        /\ copy' = [s \in Server |-> IF copy[s].until > tick' THEN copy[s] ELSE Flags!NoCopy]
    BY <1>1 DEF Flags!Tick
  <2>2. \A s \in Server : copy'[s] = copy[s] \/ copy'[s] = Flags!NoCopy
    BY <2>1
  <2>3. ClerkRows'
    BY <1>0, <2>1 DEF ClerkRows, ClerkRow
  <2>4. CopyRows'
    BY <1>0, <1>f, <2>1, <2>2 DEF CopyRows
  <2>5. Flags!TakesHold'
    BY <1>0, <1>f, <2>1, <2>2 DEF Flags!TakesHold, Flags!Live, CopyRows
  <2> QED BY <2>3, <2>4, <2>5 DEF FlagsInv
<1>2. ASSUME NEW s \in Server, NEW c \in Clerk, Flags!Boot(s, c) PROVE FlagsInv'
  <2>1. /\ copy' = [copy EXCEPT ![s] = Flags!NoCopy] /\ dropped' = dropped \union {s}
        /\ UNCHANGED <<flag, tick, changedAt>>
        /\ clerks' = [x \in Clerk |->
             IF x = c /\ Flags!Missing THEN Flags!Seeder([at |-> "idle", on |-> s])
             ELSE IF x \in Flags!Busy(s) THEN Flags!Free ELSE clerks[x]]
    BY <1>2 DEF Flags!Boot
  <2>2. /\ clerks' = [x \in Clerk |-> clerks'[x]]
        /\ \A x \in Clerk : \/ clerks'[x] = [at |-> "seed", then |-> [at |-> "idle", on |-> s], blind |-> TRUE]
                            \/ clerks'[x] = Flags!Free \/ clerks'[x] = clerks[x]
    BY <2>1 DEF Flags!Missing, Flags!Seeder
  <2>3. ClerkRows'
    <3> SUFFICES ASSUME NEW x \in Clerk PROVE ClerkRow(x)'
      BY <1>0, <2>1, <2>2 DEF ClerkRows, ClerkRow
    <3>1. CASE clerks'[x] = [at |-> "seed", then |-> [at |-> "idle", on |-> s], blind |-> TRUE]
      BY <3>1 DEF ClerkRow
    <3>2. CASE clerks'[x] = Flags!Free
      BY <1>f, <3>2 DEF ClerkRow
    <3>3. CASE clerks'[x] = clerks[x]
      BY <1>0, <2>1, <3>3 DEF ClerkRows, ClerkRow
    <3> QED BY <2>2, <3>1, <3>2, <3>3
  <2>4. copy'[s] = Flags!NoCopy /\ \A r \in Server \ {s} : copy'[r] = copy[r]
    BY <1>0, <2>1 DEF CopyRows
  <2>5. CopyRows'
    BY <1>0, <1>f, <2>1, <2>4 DEF CopyRows
  <2>6. Flags!TakesHold'
    BY <1>0, <1>f, <2>1, <2>4 DEF Flags!TakesHold, Flags!Live, CopyRows
  <2> QED BY <2>3, <2>5, <2>6 DEF FlagsInv
<1>3. ASSUME NEW s \in Server, NEW c \in Clerk,
             Flags!Ask(c, s) \/ (\E v \in Flags!Posted : Flags!Set(c, s, v)) PROVE FlagsInv'
  <2>1. UNCHANGED <<flag, copy, tick, changedAt, dropped>>
    BY <1>3 DEF Flags!Ask, Flags!Set
  <2>2. \E job : /\ Flags!Start(c, job)
                 /\ job.at \in {"read", "save"}
                 /\ job.on \in Server
                 /\ (job.at = "save" => job.value \in Flags!Options)
    <3>1. CASE Flags!Ask(c, s)
      <4>1. PICK job : job = [at |-> "read", on |-> s]
        OBVIOUS
      <4>2. Flags!Start(c, job)
        BY <3>1, <4>1 DEF Flags!Ask
      <4>3. job.at = "read" /\ job.on = s
        BY <4>1
      <4> QED BY <4>2, <4>3
    <3>2. ASSUME NEW v \in Flags!Posted, Flags!Set(c, s, v)
          PROVE  \E job : /\ Flags!Start(c, job)
                          /\ job.at \in {"read", "save"}
                          /\ job.on \in Server
                          /\ (job.at = "save" => job.value \in Flags!Options)
      <4>1. PICK w \in Flags!Normalized(v) : Flags!Start(c, [at |-> "save", on |-> s, value |-> w])
        BY <3>2 DEF Flags!Set
      <4>2. w \in Flags!Options
        BY DEF Flags!Normalized, Flags!Def
      <4>3. PICK job : job = [at |-> "save", on |-> s, value |-> w]
        OBVIOUS
      <4>4. job.at = "save" /\ job.on = s /\ job.value = w
        BY <4>3
      <4>5. Flags!Start(c, job)
        BY <4>1, <4>3
      <4> QED BY <4>2, <4>4, <4>5
    <3> QED BY <1>3, <3>1, <3>2
  <2>3. ClerkRows'
    <3>1. PICK job : /\ Flags!Start(c, job)
                     /\ job.at \in {"read", "save"}
                     /\ job.on \in Server
                     /\ (job.at = "save" => job.value \in Flags!Options)
      BY <2>2
    <3> QED BY <1>0, <2>1, <3>1, ClerkStarts
  <2>4. CopyRows' /\ Flags!TakesHold'
    BY <1>0, <2>1 DEF CopyRows, Flags!TakesHold, Flags!Live
  <2> QED BY <2>3, <2>4 DEF FlagsInv
<1>4. ASSUME NEW c \in Clerk, NEW v \in Flags!Options, NEW next, Flags!Write(c, v, next), UNCHANGED <<copy, tick>>,
             next.at \in {"idle", "read", "save", "drop"}, next.at # "idle" => next.on \in Server,
             next.at = "save" => next.value \in Flags!Options
      PROVE  FlagsInv'
  <2>1. ClerkRows'
    BY <1>0, <1>4, ClerkWrites
  <2>2. flag' = v /\ \/ v = flag /\ UNCHANGED <<changedAt, dropped>>
                     \/ v # flag /\ changedAt' = tick /\ dropped' = {}
    BY <1>4 DEF Flags!Write
  <2>3. CopyRows'
    BY <1>0, <1>4, <2>2 DEF CopyRows
  <2>4. Flags!TakesHold'
    BY <1>0, <1>4, <2>2 DEF CopyRows, Flags!TakesHold, Flags!Live
  <2> QED BY <2>1, <2>3, <2>4 DEF FlagsInv
<1>5. ASSUME NEW c \in Clerk, Flags!Seed(c) PROVE FlagsInv'
  <2>1. PICK next : next = IF clerks[c].then.at = "idle" THEN Flags!Free ELSE clerks[c].then
    OBVIOUS
  <2>2. clerks[c].at = "seed" /\ Flags!Write(c, "on", next) /\ UNCHANGED <<copy, tick>>
    BY <1>5, <2>1 DEF Flags!Seed, Flags!Def
  <2>3. /\ next.at \in {"idle", "read", "save", "drop"}
        /\ next.at # "idle" => next.on \in Server
        /\ next.at = "save" => next.value \in Flags!Options
    BY <1>0, <1>f, <2>1, <2>2 DEF ClerkRows, ClerkRow
  <2>4. "on" \in Flags!Options
    BY DEF Flags!Options
  <2> QED BY <1>4, <2>2, <2>3, <2>4
<1>6. ASSUME NEW c \in Clerk, Flags!Save(c) PROVE FlagsInv'
  <2>1. PICK next : next = [at |-> "drop", on |-> clerks[c].on]
    OBVIOUS
  <2>2. next.at = "drop" /\ next.on = clerks[c].on
    BY <2>1
  <2>3. clerks[c].at = "save" /\ Flags!Write(c, clerks[c].value, next) /\ UNCHANGED <<copy, tick>>
    BY <1>6, <2>1 DEF Flags!Save
  <2>4. clerks[c].on \in Server /\ clerks[c].value \in Flags!Options
    BY <1>0, <2>3 DEF ClerkRows, ClerkRow
  <2> QED BY <1>4, <2>2, <2>3, <2>4
<1>7. ASSUME NEW c \in Clerk, Flags!ReadRow(c) PROVE FlagsInv'
  <2>1. PICK f : f = [at |-> "keep", on |-> clerks[c].on, value |-> flag, late |-> FALSE]
    OBVIOUS
  <2>2. clerks[c].at = "read" /\ Flags!Become(c, f) /\ UNCHANGED <<flag, copy, tick, changedAt, dropped>>
    BY <1>7, <2>1 DEF Flags!ReadRow
  <2>3. clerks[c].on \in Server
    BY <1>0, <2>2 DEF ClerkRows, ClerkRow
  <2>9. f \in Keeper /\ f.at = "keep" /\ f.value = flag
    BY <1>0, <2>1, <2>3 DEF Keeper
  <2>4. ClerkRows'
    BY <1>0, <2>2, <2>9, ClerkBecomes
  <2>5. CopyRows' /\ Flags!TakesHold'
    BY <1>0, <2>2 DEF CopyRows, Flags!TakesHold, Flags!Live
  <2> QED BY <2>4, <2>5 DEF FlagsInv
<1>8. ASSUME NEW c \in Clerk, Flags!Keep(c) PROVE FlagsInv'
  <2>1. PICK k : k = [value |-> clerks[c].value, until |-> tick + Ttl, late |-> clerks[c].late]
    OBVIOUS
  <2>2. /\ clerks[c].at = "keep" /\ copy' = [copy EXCEPT ![clerks[c].on] = k]
        /\ Flags!Become(c, Flags!Free) /\ UNCHANGED <<flag, tick, changedAt, dropped>>
    BY <1>8, <2>1 DEF Flags!Keep, Flags!Until
  <2>3. ClerkRows'
    BY <1>0, <1>f, <2>2, ClerkBecomes
  <2>4. clerks[c].on \in Server /\ (~clerks[c].late => clerks[c].value = flag)
    BY <1>0, <2>2 DEF ClerkRows, ClerkRow
  <2>5. copy'[clerks[c].on] = k /\ \A s \in Server \ {clerks[c].on} : copy'[s] = copy[s]
    BY <1>0, <2>2, <2>4 DEF CopyRows
  <2>6. k.until = tick + Ttl /\ (~k.late => k.value = flag)
    BY <2>1, <2>4
  <2>7. CopyRows'
    BY <1>0, <2>2, <2>4, <2>5, <2>6 DEF CopyRows
  <2>8. Flags!TakesHold'
    BY <1>0, <2>2, <2>4, <2>5, <2>6 DEF Flags!TakesHold, Flags!Live
  <2> QED BY <2>3, <2>7, <2>8 DEF FlagsInv
<1>9. ASSUME NEW c \in Clerk, Flags!Drop(c) PROVE FlagsInv'
  <2>1. /\ clerks[c].at = "drop" /\ copy' = [copy EXCEPT ![clerks[c].on] = Flags!NoCopy]
        /\ dropped' = dropped \union {clerks[c].on}
        /\ Flags!Become(c, Flags!Free) /\ UNCHANGED <<flag, tick, changedAt>>
    BY <1>9 DEF Flags!Drop, Flags!CopyAfterSet
  <2>2. ClerkRows'
    BY <1>0, <1>f, <2>1, ClerkBecomes
  <2>3. clerks[c].on \in Server
    BY <1>0, <2>1 DEF ClerkRows, ClerkRow
  <2>4. copy'[clerks[c].on] = Flags!NoCopy /\ \A s \in Server \ {clerks[c].on} : copy'[s] = copy[s]
    BY <1>0, <2>1, <2>3 DEF CopyRows
  <2>5. CopyRows'
    BY <1>0, <1>f, <2>1, <2>3, <2>4 DEF CopyRows
  <2>6. Flags!TakesHold'
    BY <1>0, <1>f, <2>1, <2>3, <2>4 DEF Flags!TakesHold, Flags!Live, CopyRows
  <2> QED BY <2>2, <2>5, <2>6 DEF FlagsInv
<1>10. ASSUME UNCHANGED Flags!vars PROVE FlagsInv'
  <2>1. UNCHANGED <<flag, copy, tick, clerks, changedAt, dropped>>
    BY <1>10 DEF Flags!vars
  <2>2. ClerkRows'
    BY <1>0, <2>1 DEF ClerkRows, ClerkRow
  <2>3. CopyRows' /\ Flags!TakesHold'
    BY <1>0, <2>1 DEF CopyRows, Flags!TakesHold, Flags!Live
  <2> QED BY <2>2, <2>3 DEF FlagsInv
<1> QED BY <1>1, <1>2, <1>3, <1>5, <1>6, <1>7, <1>8, <1>9, <1>10 DEF Flags!Next

LEMMA FlagsAlways == ASSUME Flags!FlagsAssumption PROVE Flags!Spec => []FlagsInv
<1>1. Flags!Init => FlagsInv
  BY FlagsStart
<1>2. FlagsInv /\ [Flags!Next]_Flags!vars => FlagsInv'
  BY FlagsStep
<1> QED BY <1>1, <1>2, PTL DEF Flags!Spec

(* On any number of servers: a value that an admin set is used where it    *)
(* was set at once, and elsewhere after Ttl, but by a reader that was late. *)
THEOREM SettingsTakeHold == ASSUME Flags!FlagsAssumption PROVE Flags!Spec => []Flags!TakesHold
BY FlagsAlways, PTL DEF FlagsInv

(* Whatever server starts or reads, what an admin set stays until the next *)
(* save, but for a seeding that had looked before there was a row.         *)
THEOREM SettingsStay ==
  ASSUME Flags!FlagsAssumption PROVE Flags!Spec => [][Flags!SettingStays]_Flags!vars
<1>1. ASSUME FlagsInv, [Flags!Next]_Flags!vars PROVE [Flags!SettingStays]_Flags!vars
  <2>1. ASSUME flag # "none", flag' # flag
        PROVE  \E c \in Clerk : \/ clerks[c].at = "save"
                                \/ clerks[c].at = "seed" /\ clerks[c].blind
    <3>1. flag' # flag => \E c \in Clerk : Flags!Seed(c) \/ Flags!Save(c)
      BY <1>1 DEF Flags!Next, Flags!Tick, Flags!Boot, Flags!Ask, Flags!Set, Flags!ReadRow, Flags!Keep,
             Flags!Drop, Flags!vars
    <3>2. PICK c \in Clerk : Flags!Seed(c) \/ Flags!Save(c)
      BY <2>1, <3>1
    <3>3. CASE Flags!Save(c)
      BY <3>3 DEF Flags!Save
    <3>4. CASE Flags!Seed(c)
      <4>1. clerks[c].at = "seed"
        BY <3>4 DEF Flags!Seed
      <4> QED BY <1>1, <4>1 DEF FlagsInv, ClerkRows, ClerkRow
    <3> QED BY <3>2, <3>3, <3>4
  <2> QED BY <2>1 DEF Flags!SettingStays
<1> QED BY <1>1, FlagsAlways, PTL DEF Flags!Spec
-----------------------------------------------------------------------------
(* A user's notifications.                                                 *)
CONSTANTS Key, Postman, PushCap, MaxNotices
VARIABLES prefs, wished, night, notice, pushed, pushedToday, sent, deferred, wanted, postman, notices, raced, cut
Notes == INSTANCE Notifications

(* A call in progress holds what it is about.                              *)
PushRow  == [at : {"push"}, key : Key, on : SUBSET (Key \union {"cap"}), push : BOOLEAN]
MailRow  == [at : {"insert", "deliver"}, key : Key, on : SUBSET (Key \union {"cap"}),
             push : {"now", "later", "no"}]
SaveRow  == [at : {"save"}, key : Key, on : SUBSET (Key \union {"cap"}), object : Notes!NotificationRow]
PrefsRow == [at : {"prefs"}, on : {{"prefs"}}, object : SUBSET Notes!Toggle]
Posting(r) ==
  \/ r = Notes!Resting \/ r \in PrefsRow
  \/ r \in PushRow \union MailRow \union SaveRow /\ r.key \in r.on
OnCap(r) == (r.at = "push" /\ r.push) \/ (r.at \in {"insert", "deliver"} /\ r.push # "no") => "cap" \in r.on
Posted ==
  /\ postman = [p \in Postman |-> postman[p]]
  /\ \A p \in Postman : Posting(postman[p]) /\ OnCap(postman[p])
  /\ \A p, q \in Postman : \A x \in postman[p].on \intersect postman[q].on : p = q \/ x \in raced

(* What only one call is about is pushed once, and stays as it was read.   *)
Noticed ==
  /\ Notes!Known \subseteq Key /\ notice = [k \in Notes!Known |-> notice[k]]
  /\ \A k \in Notes!Known : notice[k] \in Notes!NotificationRow
  /\ \A p \in Postman : postman[p].at = "save" =>
       postman[p].key \in Notes!Known /\ (postman[p].key \in raced \/ ~notice[postman[p].key].hidden)
PushedSoFar(k) ==
  /\ pushed[k] <= 1
  /\ pushed[k] = 1 => k \in Notes!Known \/ \E p \in Postman : postman[p].at = "insert" /\ postman[p].key = k
  /\ \A p \in Postman : postman[p].at = "push" /\ postman[p].key = k => pushed[k] = 0
Pushing == pushed \in [Key -> Nat] /\ \A k \in Key \ (raced \union cut) : PushedSoFar(k)

(* A push that is wanted is sent, waits or is about to; within the cap.    *)
Wanting ==
  \A k \in wanted \ cut : k \in sent \union deferred
    \/ \E p \in Postman : postman[p].at = "deliver" /\ postman[p].key = k /\ postman[p].push # "no"
Capped ==
  /\ IsFiniteSet(pushedToday)
  /\ "cap" \notin raced \union cut =>
       /\ Cardinality(pushedToday) <= PushCap
       /\ \A p \in Postman : postman[p].at \in {"insert", "deliver"} /\ postman[p].push = "now" =>
            Cardinality(pushedToday) < PushCap
Setting ==
  /\ prefs \subseteq Notes!Toggle
  /\ "prefs" \notin raced \union cut =>
       /\ prefs = wished \/ \E p \in Postman : postman[p].at = "prefs"
       /\ \A p \in Postman : postman[p].at = "prefs" => postman[p].object = wished

NoticeInv == Posted /\ Noticed /\ Pushing /\ Wanting /\ Capped /\ Setting

LEMMA NoticeStart == ASSUME Notes!NoticesAssumption, Notes!Init PROVE NoticeInv
<1> USE DEF Notes!Init, Notes!Resting, Notes!Known
<1>1. Posted
  BY DEF Posted, Posting, OnCap
<1>2. Noticed /\ Pushing /\ Wanting /\ Setting
  BY DEF Noticed, Pushing, PushedSoFar, Wanting, Setting
<1>3. Capped
  BY FS_EmptySet DEF Capped, Notes!NoticesAssumption
<1> QED BY <1>1, <1>2, <1>3 DEF NoticeInv

(* A call begins, goes on or ends.                                         *)
LEMMA PostmanGoes ==
  ASSUME Posted, NEW p \in Postman, NEW r, postman' = [postman EXCEPT ![p] = r], Posting(r), OnCap(r),
         raced \subseteq raced', \A q \in Postman \ {p} : postman[q].on \intersect r.on \subseteq raced'
  PROVE  Posted' /\ postman'[p] = r /\ \A q \in Postman \ {p} : postman'[q] = postman[q]
<1>1. /\ postman' = [q \in Postman |-> postman'[q]] /\ postman'[p] = r
      /\ \A q \in Postman \ {p} : postman'[q] = postman[q]
  BY DEF Posted
<1>2. \A q \in Postman : Posting(postman'[q]) /\ OnCap(postman'[q])
  BY <1>1 DEF Posted
<1>3. ASSUME NEW q \in Postman, NEW s \in Postman, NEW x \in postman'[q].on \intersect postman'[s].on, q # s
      PROVE  x \in raced'
  <2>1. CASE q # p /\ s # p
    BY <1>1, <1>3, <2>1 DEF Posted
  <2>2. CASE q = p \/ s = p
    BY <1>1, <1>3, <2>2
  <2> QED BY <2>1, <2>2
<1> QED BY <1>1, <1>2, <1>3 DEF Posted, Posting, OnCap

LEMMA CallBegins ==
  ASSUME Posted, NEW p \in Postman, NEW r, Notes!Calls(p, r), Posting(r), OnCap(r)
  PROVE  /\ Posted' /\ postman'[p] = r /\ \A q \in Postman \ {p} : postman'[q] = postman[q]
         /\ raced \subseteq raced' /\ postman[p].at = "rests"
         /\ \A q \in Postman \ {p} : postman[q].on \intersect r.on \subseteq raced'
<1> USE DEF Notes!Calls
<1>1. ASSUME NEW q \in Postman \ {p} PROVE postman[q].on \intersect r.on \subseteq raced'
  <2>1. CASE postman[q] = Notes!Resting
    BY <2>1 DEF Notes!Resting
  <2>2. CASE postman[q] # Notes!Resting
    BY <2>2 DEF Notes!Others
  <2> QED BY <2>1, <2>2
<1>2. raced \subseteq raced' /\ postman[p].at = "rests"
  BY DEF Notes!Resting
<1> QED BY <1>1, <1>2, PostmanGoes

LEMMA CallGoesOn ==
  ASSUME Posted, NEW p \in Postman, NEW r, Notes!Goes(p, r), Posting(r), OnCap(r),
         r.on \subseteq postman[p].on, raced' = raced
  PROVE  Posted' /\ postman'[p] = r /\ \A q \in Postman \ {p} : postman'[q] = postman[q]
<1>1. \A q \in Postman \ {p} : postman[q].on \intersect r.on \subseteq raced'
  BY DEF Posted
<1> QED BY <1>1, PostmanGoes DEF Notes!Goes

LEMMA CallEnds ==
  ASSUME Posted, NEW p \in Postman, Notes!Goes(p, Notes!Resting), raced' = raced
  PROVE  Posted' /\ postman'[p].at = "rests" /\ \A q \in Postman \ {p} : postman'[q] = postman[q]
<1>1. Posting(Notes!Resting) /\ OnCap(Notes!Resting) /\ Notes!Resting.on \subseteq postman[p].on
  BY DEF Posting, OnCap, Notes!Resting
<1>2. Notes!Resting.at = "rests"
  BY DEF Notes!Resting
<1> QED BY <1>1, <1>2, CallGoesOn

LEMMA CreateStep ==
  ASSUME NoticeInv, NEW p \in Postman, NEW k \in Key, NEW push \in BOOLEAN, Notes!Create(p, k, push)
  PROVE  NoticeInv'
<1> USE DEF Notes!Create
<1>f. Posted /\ Noticed /\ Pushing /\ Wanting /\ Capped /\ Setting
  BY DEF NoticeInv
<1>r. PICK r : r = [at |-> "push", key |-> k, on |-> {k} \union (IF push THEN {"cap"} ELSE {}),
                    push |-> push /\ "push" \in prefs]
  OBVIOUS
<1>a. /\ r.at = "push" /\ r.key = k /\ k \in r.on /\ r \in PushRow /\ (r.push => "cap" \in r.on)
  BY <1>r DEF PushRow
<1>b. /\ Posted' /\ postman'[p] = r /\ \A q \in Postman \ {p} : postman'[q] = postman[q]
      /\ raced \subseteq raced' /\ postman[p].at = "rests"
      /\ \A q \in Postman \ {p} : postman[q].on \intersect r.on \subseteq raced'
  <2>1. Posting(r) /\ OnCap(r) /\ Notes!Calls(p, r)
    BY <1>a, <1>r DEF Posting, OnCap
  <2> QED BY <1>f, <2>1, CallBegins
<1>1. Noticed'
  BY <1>f, <1>a, <1>b DEF Noticed, Notes!Known
<1>2. Pushing'
  <2>1. SUFFICES ASSUME NEW m \in Key \ (raced' \union cut) PROVE PushedSoFar(m)'
    BY <1>f DEF Pushing
  <2>2. PushedSoFar(m) /\ pushed[m] \in Nat
    BY <1>f, <1>b, <2>1 DEF Pushing
  <2>3. m = k => pushed[m] = 0
    <3>1. SUFFICES ASSUME m = k, pushed[m] # 0 PROVE FALSE
      OBVIOUS
    <3>2. PICK q \in Postman : postman[q].at = "insert" /\ postman[q].key = k
      BY <2>2, <3>1 DEF PushedSoFar, Notes!NotThereYet
    <3>3. q # p /\ k \in postman[q].on
      BY <1>b, <1>f, <3>2 DEF Posted, Posting, Notes!Resting, PrefsRow
    <3> QED BY <1>a, <1>b, <2>1, <3>1, <3>3
  <2> QED BY <1>a, <1>b, <2>2, <2>3 DEF PushedSoFar, Notes!Known
<1>3. Wanting'
  BY <1>f, <1>b DEF Wanting
<1>4. Capped'
  BY <1>f, <1>a, <1>b DEF Capped
<1>5. Setting'
  BY <1>f, <1>a, <1>b DEF Setting
<1> QED BY <1>b, <1>1, <1>2, <1>3, <1>4, <1>5 DEF NoticeInv

LEMMA PushStep ==
  ASSUME NoticeInv, NEW p \in Postman, Notes!Push(p) PROVE NoticeInv'
<1> USE DEF Notes!Push
<1>f. Posted /\ Noticed /\ Pushing /\ Wanting /\ Capped /\ Setting
  BY DEF NoticeInv
<1>s. PICK s : s = postman[p]
  OBVIOUS
<1>n. PICK now : now = (s.push /\ ~night /\ Notes!Room)
  OBVIOUS
<1>r. PICK r : r = [at |-> "insert", key |-> s.key, on |-> s.on,
                    push |-> IF now THEN "now" ELSE IF s.push THEN "later" ELSE "no"]
  OBVIOUS
<1>a. /\ s \in PushRow /\ s.at = "push" /\ s.key \in s.on /\ (s.push => "cap" \in s.on) /\ s.key \in Key
  BY <1>f, <1>s DEF Posted, Posting, OnCap, Notes!Resting, MailRow, SaveRow, PrefsRow, PushRow
<1>b. /\ r.at = "insert" /\ r.key = s.key /\ r.on = s.on /\ r \in MailRow
      /\ (r.push # "no" => s.push) /\ (r.push = "now" => now)
  <2>1. now => s.push
    BY <1>n
  <2>2. PICK w \in {"now", "later", "no"} : w = IF now THEN "now" ELSE IF s.push THEN "later" ELSE "no"
    OBVIOUS
  <2>3. (w # "no" => s.push) /\ (w = "now" => now)
    BY <2>1, <2>2
  <2>4. r = [at |-> "insert", key |-> s.key, on |-> s.on, push |-> w]
    BY <1>r, <2>2
  <2> QED BY <1>a, <2>3, <2>4 DEF MailRow, PushRow
<1>c. Posted' /\ postman'[p] = r /\ \A q \in Postman \ {p} : postman'[q] = postman[q]
  <2>1. Notes!Goes(p, r)
    BY <1>s, <1>n, <1>r
  <2>2. Posting(r) /\ OnCap(r) /\ r.on \subseteq postman[p].on
    BY <1>a, <1>b, <1>s DEF Posting, OnCap
  <2> QED BY <1>f, <2>1, <2>2, CallGoesOn
<1>1. Noticed'
  BY <1>f, <1>b, <1>c DEF Noticed, Notes!Known
<1>2. Pushing'
  <2>p. pushed' = IF now THEN [pushed EXCEPT ![s.key] = @ + 1] ELSE pushed
    BY <1>s, <1>n
  <2>0. pushed' \in [Key -> Nat]
    <3>1. CASE now
      BY <1>f, <1>a, <2>p, <3>1 DEF Pushing
    <3>2. CASE ~now
      BY <1>f, <2>p, <3>2 DEF Pushing
    <3> QED BY <3>1, <3>2
  <2>1. SUFFICES ASSUME NEW m \in Key \ (raced \union cut) PROVE PushedSoFar(m)'
    BY <2>0 DEF Pushing
  <2>2. PushedSoFar(m) /\ pushed[m] \in Nat
    BY <1>f, <2>1 DEF Pushing
  <2>3. CASE m = s.key
    <3>1. pushed[m] = 0
      BY <1>a, <1>s, <2>2, <2>3 DEF PushedSoFar
    <3>2. pushed'[m] \in {0, 1}
      BY <1>f, <2>p, <2>3, <3>1 DEF Pushing
    <3>3. \A q \in Postman \ {p} : ~(postman[q].at = "push" /\ postman[q].key = m)
      <4>1. ASSUME NEW q \in Postman \ {p}, postman[q].at = "push", postman[q].key = m PROVE FALSE
        <5>1. m \in postman[q].on
          BY <1>f, <4>1 DEF Posted, Posting, Notes!Resting, PrefsRow
        <5> QED BY <1>f, <1>a, <1>s, <2>1, <2>3, <4>1, <5>1 DEF Posted
      <4> QED BY <4>1
    <3> QED BY <1>b, <1>c, <2>3, <3>2, <3>3 DEF PushedSoFar
  <2>4. CASE m # s.key
    <3>1. pushed'[m] = pushed[m]
      BY <1>f, <2>p, <2>4 DEF Pushing
    <3>2. \A q \in Postman : postman[q].at = "insert" => q # p
      BY <1>a, <1>s
    <3> QED BY <1>b, <1>c, <2>2, <3>1, <3>2 DEF PushedSoFar, Notes!Known
  <2> QED BY <2>3, <2>4
<1>3. Wanting'
  <2>1. \A q \in Postman : postman[q].at = "deliver" => q # p
    BY <1>a, <1>s
  <2> QED BY <1>f, <1>c, <2>1 DEF Wanting
<1>4. Capped'
  <2>1. now => Cardinality(pushedToday) < PushCap
    BY <1>n DEF Notes!Room, Notes!Cardinality, Cardinality
  <2> QED BY <1>f, <1>b, <1>c, <2>1 DEF Capped
<1>5. Setting'
  <2>1. \A q \in Postman : postman[q].at = "prefs" => q # p
    BY <1>a, <1>s
  <2> QED BY <1>f, <1>b, <1>c, <2>1 DEF Setting
<1> QED BY <1>c, <1>1, <1>2, <1>3, <1>4, <1>5 DEF NoticeInv

(* The row is there: pushed or not, nobody else makes it.                  *)
LEMMA InsertStep ==
  ASSUME NoticeInv, NEW p \in Postman, Notes!Insert(p) PROVE NoticeInv'
<1> USE DEF Notes!Insert
<1>f. Posted /\ Noticed /\ Pushing /\ Wanting /\ Capped /\ Setting
  BY DEF NoticeInv
<1>s. PICK s : s = postman[p]
  OBVIOUS
<1>a. /\ s \in MailRow /\ s.at = "insert" /\ s.key \in s.on /\ s.key \in Key /\ OnCap(s)
  BY <1>f, <1>s DEF Posted, Posting, Notes!Resting, MailRow, SaveRow, PrefsRow, PushRow
<1>o. /\ \A q \in Postman : postman[q].at \in {"deliver", "prefs", "push", "save"} => q # p
  BY <1>a, <1>s
<1>1. CASE s.key \in Notes!Known
  <2>1. Posted' /\ postman'[p].at = "rests" /\ \A q \in Postman \ {p} : postman'[q] = postman[q]
    BY <1>f, <1>s, <1>1, CallEnds
  <2>2. UNCHANGED <<notice, wanted, pushed, sent, deferred, raced, cut, pushedToday, prefs, wished>>
    BY <1>s, <1>1
  <2>3. Noticed' /\ Wanting' /\ Capped' /\ Setting'
    BY <1>f, <1>o, <2>1, <2>2 DEF Noticed, Wanting, Capped, Setting, Notes!Known
  <2>4. Pushing'
    BY <1>f, <1>s, <1>1, <2>1, <2>2 DEF Pushing, PushedSoFar, Notes!Known
  <2> QED BY <2>1, <2>3, <2>4 DEF NoticeInv
<1>2. CASE s.key \notin Notes!Known
  <2>1. /\ notice' = [k \in Notes!Known \union {s.key} |-> IF k \in Notes!Known THEN notice[k] ELSE Notes!Unseen]
        /\ wanted' = IF s.push # "no" THEN wanted \union {s.key} ELSE wanted
        /\ Notes!Goes(p, [s EXCEPT !.at = "deliver"])
        /\ UNCHANGED <<pushed, sent, deferred, raced, cut, pushedToday, prefs, wished>>
    BY <1>s, <1>2
  <2>r. PICK r : r = [s EXCEPT !.at = "deliver"]
    OBVIOUS
  <2>2. /\ r.at = "deliver" /\ r.key = s.key /\ r.on = s.on /\ r.push = s.push /\ r \in MailRow
    BY <1>a, <2>r DEF MailRow
  <2>3. Posted' /\ postman'[p] = r /\ \A q \in Postman \ {p} : postman'[q] = postman[q]
    <3>1. Posting(r) /\ OnCap(r) /\ r.on \subseteq postman[p].on
      BY <1>a, <1>s, <2>2 DEF Posting, OnCap
    <3> QED BY <1>f, <2>1, <2>r, <3>1, CallGoesOn
  <2>4. /\ Notes!Known' = Notes!Known \union {s.key}
        /\ \A k \in Notes!Known : notice'[k] = notice[k]
        /\ notice'[s.key] = Notes!Unseen
    BY <1>2, <2>1 DEF Notes!Known
  <2>5. Noticed'
    <3>1. Notes!Unseen \in Notes!NotificationRow
      BY DEF Notes!Unseen, Notes!NotificationRow
    <3>2. notice' = [k \in Notes!Known' |-> notice'[k]]
      BY <2>1, <2>4
    <3>3. \A k \in Notes!Known' : notice'[k] \in Notes!NotificationRow
      BY <1>f, <2>4, <3>1 DEF Noticed
    <3>4. \A q \in Postman : postman'[q].at = "save" =>
            postman'[q].key \in Notes!Known' /\ (postman'[q].key \in raced \/ ~notice'[postman'[q].key].hidden)
      BY <1>f, <1>o, <2>2, <2>3, <2>4 DEF Noticed
    <3> QED BY <1>f, <1>a, <2>1, <2>4, <3>2, <3>3, <3>4 DEF Noticed
  <2>6. Pushing'
    <3>1. SUFFICES ASSUME NEW m \in Key \ (raced \union cut) PROVE PushedSoFar(m)'
      BY <1>f, <2>1 DEF Pushing
    <3>2. PushedSoFar(m)
      BY <1>f, <3>1 DEF Pushing
    <3>3. pushed[m] = 1 => m \in Notes!Known' \/ \E q \in Postman : postman'[q].at = "insert" /\ postman'[q].key = m
      BY <1>s, <2>3, <2>4, <3>2 DEF PushedSoFar
    <3> QED BY <1>o, <2>1, <2>2, <2>3, <3>2, <3>3 DEF PushedSoFar
  <2>7. Wanting'
    <3>1. ASSUME NEW m \in wanted' \ cut PROVE m \in sent \union deferred
            \/ \E q \in Postman : postman'[q].at = "deliver" /\ postman'[q].key = m /\ postman'[q].push # "no"
      <4>1. CASE m \in wanted
        BY <1>f, <1>o, <2>3, <3>1, <4>1 DEF Wanting
      <4>2. CASE m \notin wanted
        BY <2>1, <2>2, <2>3, <3>1, <4>2
      <4> QED BY <4>1, <4>2
    <3> QED BY <2>1, <3>1 DEF Wanting
  <2>8. Capped'
    <3>1. s.push = "now" /\ "cap" \notin raced \union cut => Cardinality(pushedToday) < PushCap
      BY <1>f, <1>a, <1>s DEF Capped
    <3> QED BY <1>f, <2>1, <2>2, <2>3, <3>1 DEF Capped
  <2>9. Setting'
    BY <1>f, <1>o, <2>1, <2>2, <2>3 DEF Setting
  <2> QED BY <2>3, <2>5, <2>6, <2>7, <2>8, <2>9 DEF NoticeInv
<1> QED BY <1>1, <1>2

LEMMA DeliverStep ==
  ASSUME NoticeInv, Notes!NoticesAssumption, NEW p \in Postman, Notes!Deliver(p) PROVE NoticeInv'
<1> USE DEF Notes!Deliver
<1>f. Posted /\ Noticed /\ Pushing /\ Wanting /\ Capped /\ Setting
  BY DEF NoticeInv
<1>s. PICK s : s = postman[p]
  OBVIOUS
<1>a. /\ s \in MailRow /\ s.at = "deliver" /\ s.key \in s.on /\ s.key \in Key /\ OnCap(s)
      /\ s.push \in {"now", "later", "no"}
  BY <1>f, <1>s DEF Posted, Posting, Notes!Resting, MailRow, SaveRow, PrefsRow, PushRow
<1>o. \A q \in Postman : postman[q].at \in {"insert", "prefs", "push", "save"} => q # p
  BY <1>a, <1>s
<1>c. Posted' /\ postman'[p].at = "rests" /\ \A q \in Postman \ {p} : postman'[q] = postman[q]
  BY <1>f, <1>s, CallEnds
<1>u. UNCHANGED <<notice, wanted, pushed, raced, cut, prefs, wished>>
  OBVIOUS
<1>1. Noticed'
  BY <1>f, <1>o, <1>c, <1>u DEF Noticed, Notes!Known
<1>2. Pushing'
  BY <1>f, <1>o, <1>c, <1>u DEF Pushing, PushedSoFar, Notes!Known
<1>3. Wanting'
  <2>1. /\ sent \subseteq sent' /\ deferred \subseteq deferred'
        /\ s.push # "no" => s.key \in sent' \union deferred'
    BY <1>a, <1>s
  <2>2. ASSUME NEW m \in wanted \ cut PROVE m \in sent' \union deferred'
          \/ \E q \in Postman : postman'[q].at = "deliver" /\ postman'[q].key = m /\ postman'[q].push # "no"
    <3>1. CASE m \in sent \union deferred
      BY <2>1, <3>1
    <3>2. CASE m \notin sent \union deferred
      <4>1. PICK q \in Postman : postman[q].at = "deliver" /\ postman[q].key = m /\ postman[q].push # "no"
        BY <1>f, <2>2, <3>2 DEF Wanting
      <4>2. CASE q = p
        BY <1>s, <2>1, <4>1, <4>2
      <4>3. CASE q # p
        BY <1>c, <4>1, <4>3
      <4> QED BY <4>2, <4>3
    <3> QED BY <3>1, <3>2
  <2> QED BY <1>u, <2>2 DEF Wanting
<1>4. Capped'
  <2>1. CASE s.push = "now"
    <3>1. pushedToday' = pushedToday \union {s.key}
      BY <1>s, <2>1
    <3>2. IsFiniteSet(pushedToday) /\ Cardinality(pushedToday) \in Nat
      BY <1>f, FS_CardinalityType DEF Capped
    <3>3. IsFiniteSet(pushedToday') /\ Cardinality(pushedToday') <= Cardinality(pushedToday) + 1
          /\ Cardinality(pushedToday') \in Nat
      <4>1. PICK more : more = pushedToday \union {s.key}
        OBVIOUS
      <4>2. IsFiniteSet(more)
        BY <3>2, <4>1, FS_AddElement
      <4>3. Cardinality(more) = IF s.key \in pushedToday THEN Cardinality(pushedToday)
                                ELSE Cardinality(pushedToday) + 1
        BY <3>2, <4>1, FS_AddElement
      <4>4. Cardinality(more) \in Nat /\ Cardinality(more) <= Cardinality(pushedToday) + 1
        BY <3>2, <4>3
      <4> QED BY <3>1, <4>1, <4>2, <4>4
    <3>4. SUFFICES ASSUME "cap" \notin raced \union cut
                   PROVE  /\ Cardinality(pushedToday') <= PushCap
                          /\ \A q \in Postman : ~(postman'[q].at \in {"insert", "deliver"} /\ postman'[q].push = "now")
      BY <1>u, <3>3 DEF Capped
    <3>5. Cardinality(pushedToday) < PushCap
      BY <1>f, <1>a, <1>s, <2>1, <3>4 DEF Capped
    <3>6. ASSUME NEW q \in Postman \ {p}, postman[q].at \in {"insert", "deliver"}, postman[q].push = "now" PROVE FALSE
      <4>1. "cap" \in postman[q].on /\ "cap" \in postman[p].on
        BY <1>f, <1>a, <1>s, <2>1, <3>6 DEF Posted, OnCap
      <4> QED BY <1>f, <3>4, <3>6, <4>1 DEF Posted
    <3> QED BY <1>c, <3>2, <3>3, <3>5, <3>6 DEF Notes!NoticesAssumption
  <2>2. CASE s.push # "now"
    <3>1. pushedToday' = pushedToday
      BY <1>s, <2>2
    <3> QED BY <1>f, <1>c, <1>u, <3>1 DEF Capped
  <2> QED BY <2>1, <2>2
<1>5. Setting'
  BY <1>f, <1>o, <1>c, <1>u DEF Setting
<1> QED BY <1>c, <1>1, <1>2, <1>3, <1>4, <1>5 DEF NoticeInv

LEMMA TouchStep ==
  ASSUME NoticeInv, NEW p \in Postman, NEW k \in Key, NEW object \in Notes!NotificationRow,
         Notes!Touch(p, k, object)
  PROVE  NoticeInv'
<1> USE DEF Notes!Touch
<1>f. Posted /\ Noticed /\ Pushing /\ Wanting /\ Capped /\ Setting
  BY DEF NoticeInv
<1>r. PICK r : r = [at |-> "save", key |-> k, on |-> {k}, object |-> object]
  OBVIOUS
<1>a. r.at = "save" /\ r.key = k /\ r \in SaveRow /\ r.on = {k}
  BY <1>r DEF SaveRow
<1>b. /\ Posted' /\ postman'[p] = r /\ \A q \in Postman \ {p} : postman'[q] = postman[q]
      /\ raced \subseteq raced' /\ postman[p].at = "rests"
  <2>1. Posting(r) /\ OnCap(r) /\ Notes!Calls(p, r)
    BY <1>a, <1>r DEF Posting, OnCap
  <2> QED BY <1>f, <2>1, CallBegins
<1>1. Noticed'
  BY <1>f, <1>a, <1>b DEF Noticed, Notes!Known, Notes!Visible
<1>2. Pushing'
  BY <1>f, <1>a, <1>b DEF Pushing, PushedSoFar, Notes!Known
<1>3. Wanting' /\ Capped' /\ Setting'
  BY <1>f, <1>a, <1>b DEF Wanting, Capped, Setting
<1> QED BY <1>b, <1>1, <1>2, <1>3 DEF NoticeInv

LEMMA SaveStep ==
  ASSUME NoticeInv, NEW p \in Postman, Notes!Save(p) PROVE NoticeInv'
<1> USE DEF Notes!Save
<1>f. Posted /\ Noticed /\ Pushing /\ Wanting /\ Capped /\ Setting
  BY DEF NoticeInv
<1>s. PICK s : s = postman[p]
  OBVIOUS
<1>a. /\ s \in SaveRow /\ s.at = "save" /\ s.key \in s.on /\ s.object \in Notes!NotificationRow
  BY <1>f, <1>s DEF Posted, Posting, Notes!Resting, MailRow, SaveRow, PrefsRow, PushRow
<1>o. \A q \in Postman : postman[q].at \in {"insert", "deliver", "prefs", "push"} => q # p
  BY <1>a, <1>s
<1>c. Posted' /\ postman'[p].at = "rests" /\ \A q \in Postman \ {p} : postman'[q] = postman[q]
  BY <1>f, CallEnds
<1>k. /\ s.key \in Notes!Known /\ Notes!Known' = Notes!Known
      /\ notice' = [m \in Notes!Known |-> IF m = s.key THEN s.object ELSE notice[m]]
  BY <1>f, <1>a, <1>s DEF Noticed, Notes!Known
<1>1. Noticed'
  <2>1. notice' = [m \in Notes!Known' |-> notice'[m]] /\ \A m \in Notes!Known' : notice'[m] \in Notes!NotificationRow
    BY <1>f, <1>a, <1>k DEF Noticed
  <2>2. ASSUME NEW q \in Postman, postman'[q].at = "save"
        PROVE  postman'[q].key \in Notes!Known' /\ (postman'[q].key \in raced \/ ~notice'[postman'[q].key].hidden)
    <3>1. q # p /\ postman'[q] = postman[q]
      BY <1>c, <2>2
    <3>2. postman[q].key = s.key => s.key \in raced
      <4>1. postman[q].key \in postman[q].on
        BY <1>f, <2>2, <3>1 DEF Posted, Posting, Notes!Resting, PrefsRow
      <4> QED BY <1>f, <1>a, <1>s, <3>1, <4>1 DEF Posted
    <3> QED BY <1>f, <1>k, <2>2, <3>1, <3>2 DEF Noticed
  <2> QED BY <1>f, <1>k, <2>1, <2>2 DEF Noticed
<1>2. Pushing'
  BY <1>f, <1>o, <1>c, <1>k DEF Pushing, PushedSoFar
<1>3. Wanting' /\ Capped' /\ Setting'
  BY <1>f, <1>o, <1>c DEF Wanting, Capped, Setting
<1> QED BY <1>c, <1>1, <1>2, <1>3 DEF NoticeInv

LEMMA PreferenceStep ==
  ASSUME NoticeInv, NEW p \in Postman, NEW t \in Notes!Toggle,
         Notes!SetPreference(p, t) \/ Notes!SavePreferences(p)
  PROVE  NoticeInv'
<1>f. Posted /\ Noticed /\ Pushing /\ Wanting /\ Capped /\ Setting
  BY DEF NoticeInv
<1>1. CASE Notes!SetPreference(p, t) /\ prefs \subseteq Notes!Toggle
  <2>t. PICK turned : turned = (prefs \ {t}) \union ({t} \ prefs)
    OBVIOUS
  <2>r. PICK r : r = [at |-> "prefs", on |-> {"prefs"}, object |-> turned]
    OBVIOUS
  <2>a. r.at = "prefs" /\ r \in PrefsRow /\ r.on = {"prefs"} /\ r.object = turned
    BY <1>1, <2>t, <2>r DEF PrefsRow
  <2>b. /\ Posted' /\ postman'[p] = r /\ \A q \in Postman \ {p} : postman'[q] = postman[q]
        /\ raced \subseteq raced' /\ postman[p].at = "rests"
        /\ \A q \in Postman \ {p} : postman[q].on \intersect r.on \subseteq raced'
    <3>1. Posting(r) /\ OnCap(r) /\ Notes!Calls(p, r)
      BY <1>1, <2>a, <2>r, <2>t DEF Posting, OnCap, Notes!SetPreference
    <3> QED BY <1>f, <3>1, CallBegins
  <2>u. /\ wished' = (wished \ {t}) \union (turned \intersect {t})
        /\ UNCHANGED <<prefs, notice, pushed, pushedToday, sent, deferred, wanted, cut>>
    BY <1>1, <2>t DEF Notes!SetPreference
  <2>1. Noticed' /\ Wanting' /\ Capped'
    BY <1>f, <2>a, <2>b, <2>u DEF Noticed, Wanting, Capped, Notes!Known
  <2>2. Pushing'
    BY <1>f, <2>a, <2>b, <2>u DEF Pushing, PushedSoFar, Notes!Known
  <2>3. Setting'
    <3>1. SUFFICES ASSUME "prefs" \notin raced' \union cut
                   PROVE  \A q \in Postman : postman'[q].at = "prefs" => postman'[q].object = wished'
      BY <1>f, <2>a, <2>b, <2>u DEF Setting
    <3>2. \A q \in Postman \ {p} : postman[q].at # "prefs"
      <4>1. \A q \in Postman : postman[q].at = "prefs" => "prefs" \in postman[q].on
        BY <1>f DEF Posted, Posting, Notes!Resting, PrefsRow, PushRow, MailRow, SaveRow
      <4> QED BY <2>a, <2>b, <3>1, <4>1
    <3>3. prefs = wished
      BY <1>f, <2>b, <3>1, <3>2 DEF Setting
    <3>4. wished' = turned
      BY <2>t, <2>u, <3>3
    <3> QED BY <2>a, <2>b, <3>2, <3>4
  <2> QED BY <2>b, <2>1, <2>2, <2>3 DEF NoticeInv
<1>2. CASE Notes!SavePreferences(p)
  <2>s. PICK s : s = postman[p]
    OBVIOUS
  <2>a. s \in PrefsRow /\ s.at = "prefs" /\ s.on = {"prefs"}
    BY <1>2, <1>f, <2>s DEF Notes!SavePreferences, Posted, Posting, Notes!Resting, MailRow, SaveRow, PrefsRow, PushRow
  <2>o. \A q \in Postman : postman[q].at \in {"insert", "deliver", "push", "save"} => q # p
    BY <2>a, <2>s
  <2>u. prefs' = s.object /\ UNCHANGED <<wished, notice, pushed, pushedToday, sent, deferred, wanted, raced, cut>>
    BY <1>2, <2>s DEF Notes!SavePreferences
  <2>c. Posted' /\ postman'[p].at = "rests" /\ \A q \in Postman \ {p} : postman'[q] = postman[q]
    BY <1>f, <1>2, CallEnds DEF Notes!SavePreferences
  <2>1. Noticed' /\ Wanting' /\ Capped'
    BY <1>f, <2>o, <2>c, <2>u DEF Noticed, Wanting, Capped, Notes!Known
  <2>2. Pushing'
    BY <1>f, <2>o, <2>c, <2>u DEF Pushing, PushedSoFar, Notes!Known
  <2>3. Setting'
    <3>1. "prefs" \notin raced \union cut => s.object = wished
      BY <1>f, <2>a, <2>s DEF Setting
    <3>2. s.object \subseteq Notes!Toggle
      BY <2>a DEF PrefsRow
    <3> QED BY <1>f, <2>c, <2>u, <3>1, <3>2 DEF Setting
  <2> QED BY <2>c, <2>1, <2>2, <2>3 DEF NoticeInv
<1> QED BY <1>f, <1>1, <1>2 DEF Setting

LEMMA NoticeStep ==
  ASSUME NoticeInv, Notes!NoticesAssumption, [Notes!Next]_Notes!noticeVars PROVE NoticeInv'
<1>f. Posted /\ Noticed /\ Pushing /\ Wanting /\ Capped /\ Setting
  BY DEF NoticeInv
<1>1. ASSUME NEW p \in Postman, NEW k \in Key, NEW b \in BOOLEAN, Notes!MarkRead(p, k, b) \/ Notes!Hide(p, k)
      PROVE  NoticeInv'
  <2>1. /\ [read |-> ~b, hidden |-> FALSE] \in Notes!NotificationRow
        /\ [read |-> TRUE, hidden |-> TRUE] \in Notes!NotificationRow
    BY DEF Notes!NotificationRow
  <2> QED BY <1>1, <2>1, TouchStep DEF Notes!MarkRead, Notes!Hide
<1>2. CASE Notes!MarkAllRead
  <2>1. /\ UNCHANGED <<prefs, wished, pushed, pushedToday, sent, deferred, wanted, postman, raced, cut>>
        /\ notice' = [k \in Notes!Known |-> IF Notes!Visible(k) THEN [notice[k] EXCEPT !.read = TRUE] ELSE notice[k]]
    BY <1>2 DEF Notes!MarkAllRead, Notes!AllRead
  <2>2. Notes!Known' = Notes!Known
    BY <2>1 DEF Notes!Known
  <2>3. \A k \in Notes!Known : notice'[k] \in Notes!NotificationRow /\ notice'[k].hidden = notice[k].hidden
    BY <1>f, <2>1 DEF Noticed, Notes!NotificationRow
  <2>4. Noticed'
    BY <1>f, <2>1, <2>2, <2>3 DEF Noticed
  <2>5. Posted' /\ Pushing' /\ Wanting' /\ Capped' /\ Setting'
    BY <1>f, <2>1, <2>2 DEF Posted, Posting, OnCap, Pushing, PushedSoFar, Wanting, Capped, Setting
  <2> QED BY <2>4, <2>5 DEF NoticeInv
<1>3. CASE Notes!Clock
  <2>1. /\ UNCHANGED <<prefs, wished, notice, pushed, sent, deferred, wanted, postman, raced, cut>>
        /\ pushedToday' = pushedToday \/ pushedToday' = {}
    BY <1>3 DEF Notes!Clock
  <2>2. Posted' /\ Noticed' /\ Pushing' /\ Wanting' /\ Setting'
    BY <1>f, <2>1 DEF Posted, Posting, OnCap, Noticed, Notes!Known, Pushing, PushedSoFar, Wanting, Setting
  <2>3. Capped'
    <3>1. IsFiniteSet({}) /\ Cardinality({}) = 0 /\ PushCap \in Nat \ {0}
      BY FS_EmptySet DEF Notes!NoticesAssumption
    <3> QED BY <1>f, <2>1, <3>1 DEF Capped
  <2> QED BY <2>2, <2>3 DEF NoticeInv
<1>4. ASSUME NEW p \in Postman, Notes!Stop(p) PROVE NoticeInv'
  <2>1. /\ UNCHANGED <<prefs, wished, notice, pushed, pushedToday, sent, deferred, wanted, raced>>
        /\ cut' = cut \union postman[p].on
    BY <1>4 DEF Notes!Stop
  <2>2. Posted' /\ postman'[p].at = "rests" /\ \A q \in Postman \ {p} : postman'[q] = postman[q]
    BY <1>f, <1>4, CallEnds DEF Notes!Stop
  <2>3. /\ postman[p].at \in {"push", "insert", "deliver"} => postman[p].key \in cut'
        /\ postman[p].at = "prefs" => "prefs" \in cut'
    BY <1>f, <2>1 DEF Posted, Posting, Notes!Resting, PrefsRow, PushRow, MailRow, SaveRow
  <2>4. Noticed' /\ Capped' /\ Setting'
    BY <1>f, <2>1, <2>2, <2>3 DEF Noticed, Notes!Known, Capped, Setting
  <2>5. Pushing'
    <3>1. SUFFICES ASSUME NEW m \in Key \ (raced \union cut') PROVE PushedSoFar(m)'
      BY <1>f, <2>1 DEF Pushing
    <3>2. PushedSoFar(m)
      BY <1>f, <2>1, <3>1 DEF Pushing
    <3> QED BY <2>1, <2>2, <2>3, <3>1, <3>2 DEF PushedSoFar, Notes!Known
  <2>6. Wanting'
    BY <1>f, <2>1, <2>2, <2>3 DEF Wanting
  <2> QED BY <2>2, <2>4, <2>5, <2>6 DEF NoticeInv
<1>5. CASE UNCHANGED Notes!noticeVars
  BY <1>f, <1>5 DEF Notes!noticeVars, NoticeInv, Posted, Posting, OnCap, Noticed, Notes!Known, Pushing, PushedSoFar,
     Wanting, Capped, Setting
<1>6. ASSUME NEW p \in Postman, NEW k \in Key, NEW b \in BOOLEAN, Notes!Create(p, k, b) PROVE NoticeInv'
  BY <1>6, CreateStep
<1>7. ASSUME NEW p \in Postman, NEW k \in Key, Notes!Hide(p, k) PROVE NoticeInv'
  <2>1. TRUE \in BOOLEAN
    OBVIOUS
  <2> QED BY <1>1, <1>7, <2>1
<1>8. ASSUME NEW p \in Postman, Notes!SavePreferences(p) PROVE NoticeInv'
  <2>1. "push" \in Notes!Toggle
    BY DEF Notes!Toggle
  <2> QED BY <1>8, <2>1, PreferenceStep
<1> QED BY <1>1, <1>2, <1>3, <1>4, <1>5, <1>6, <1>7, <1>8, PushStep, InsertStep, DeliverStep, SaveStep, PreferenceStep
        DEF Notes!Next

(* A notification is pushed once, whatever calls for it again, unless two   *)
(* calls for it overlapped or one stopped before its row was there          *)
(* (NotificationsService.create).                                           *)
THEOREM OnePushEach == ASSUME Notes!NoticesAssumption PROVE Notes!Spec => []Notes!PushedOnce
<1>1. NoticeInv => Notes!PushedOnce
  BY DEF NoticeInv, Pushing, PushedSoFar, Notes!PushedOnce
<1> QED BY <1>1, NoticeStart, NoticeStep, PTL DEF Notes!Spec

(* A push that was wanted is sent, waits in the schedules, or is about to,  *)
(* and the pushes of a day stay within DAILY_PUSH_SOFT_CAP unless calls     *)
(* overlapped or stopped (pushCapReached).                                  *)
THEOREM PushesAreAccountedFor == ASSUME Notes!NoticesAssumption PROVE Notes!Spec => []Notes!PushIsAccountedFor
<1>1. NoticeInv => Notes!PushIsAccountedFor
  <2>1. SUFFICES ASSUME Posted, Wanting, Capped PROVE Notes!PushIsAccountedFor
    BY DEF NoticeInv
  <2>2. \A p \in Postman : postman[p].at = "deliver" => postman[p].key \in postman[p].on
    BY <2>1 DEF Posted, Posting, Notes!Resting, PrefsRow
  <2>3. \A k \in wanted \ cut : k \in sent \union deferred \/ \E p \in Postman : k \in postman[p].on
    BY <2>1, <2>2 DEF Wanting
  <2> QED BY <2>1, <2>3 DEF Capped, Notes!PushIsAccountedFor, Notes!Cardinality, Cardinality
<1> QED BY <1>1, NoticeStart, NoticeStep, PTL DEF Notes!Spec

(* The preferences are what they were set to, unless two settings           *)
(* overlapped or one stopped (updatePreferences saves the whole row).       *)
THEOREM PreferencesAreKept == ASSUME Notes!NoticesAssumption PROVE Notes!Spec => []Notes!PreferencesKept
<1>1. NoticeInv => Notes!PreferencesKept
  BY DEF NoticeInv, Setting, Notes!PreferencesKept
<1> QED BY <1>1, NoticeStart, NoticeStep, PTL DEF Notes!Spec

(* A hidden notification does not come back, unless it was being marked     *)
(* when it was hidden (hide and markRead save the row as they read it).     *)
THEOREM HiddenStays == ASSUME Notes!NoticesAssumption PROVE Notes!Spec => [][Notes!StaysHidden]_Notes!noticeVars
<1> USE DEF Notes!StaysHidden
<1>1. ASSUME NoticeInv, [Notes!Next]_Notes!noticeVars PROVE [Notes!StaysHidden]_Notes!noticeVars
  <2>f. Posted /\ Noticed
    BY <1>1 DEF NoticeInv
  <2>1. ASSUME NEW p \in Postman, Notes!Save(p) PROVE Notes!StaysHidden
    <3>1. /\ raced' = raced /\ postman[p].at = "save" /\ postman[p].key \in Notes!Known
          /\ \A m \in Notes!Known \ {postman[p].key} : notice'[m] = notice[m]
      BY <2>1, <2>f DEF Notes!Save, Noticed, Notes!Known
    <3>2. postman[p].key \in raced \/ ~notice[postman[p].key].hidden
      BY <2>f, <3>1 DEF Noticed
    <3> QED BY <3>1, <3>2
  <2>2. CASE Notes!MarkAllRead
    <3>1. \A m \in Notes!Known : notice[m].hidden => notice'[m] = notice[m]
      BY <2>2 DEF Notes!MarkAllRead, Notes!AllRead, Notes!Visible
    <3> QED BY <3>1
  <2>3. ASSUME NEW p \in Postman, Notes!Insert(p) PROVE Notes!StaysHidden
    <3>1. \A m \in Notes!Known : notice'[m] = notice[m]
      BY <2>3 DEF Notes!Insert
    <3> QED BY <3>1
  <2>4. CASE notice' = notice
    BY <2>4
  <2>5. ASSUME NEW p \in Postman, NEW k \in Key, NEW b \in BOOLEAN,
               Notes!Create(p, k, b) \/ Notes!MarkRead(p, k, b) \/ Notes!Hide(p, k)
        PROVE  notice' = notice
    BY <2>5 DEF Notes!Create, Notes!MarkRead, Notes!Hide, Notes!Touch
  <2>6. ASSUME NEW p \in Postman, NEW k \in Key, Notes!Hide(p, k) PROVE notice' = notice
    BY <2>6 DEF Notes!Hide, Notes!Touch
  <2>7. ASSUME NEW p \in Postman, NEW t \in Notes!Toggle,
               \/ Notes!SetPreference(p, t) \/ Notes!SavePreferences(p) \/ Notes!Push(p)
               \/ Notes!Deliver(p) \/ Notes!Stop(p)
        PROVE  notice' = notice
    BY <2>7 DEF Notes!SetPreference, Notes!SavePreferences, Notes!Push, Notes!Deliver, Notes!Stop
  <2>8. CASE Notes!Clock \/ UNCHANGED Notes!noticeVars
    BY <2>8 DEF Notes!Clock, Notes!noticeVars
  <2>9. "push" \in Notes!Toggle
    BY DEF Notes!Toggle
  <2>10. ASSUME NEW p \in Postman, Notes!SavePreferences(p) \/ Notes!Push(p) \/ Notes!Deliver(p) \/ Notes!Stop(p)
         PROVE  notice' = notice
    BY <2>7, <2>9, <2>10
  <2> QED BY <1>1, <2>1, <2>2, <2>3, <2>4, <2>5, <2>6, <2>7, <2>8, <2>10 DEF Notes!Next
<1> QED BY <1>1, NoticeStart, NoticeStep, PTL DEF Notes!Spec

LEMMA Least ==
  ASSUME NEW T \in SUBSET Nat, T # {} PROVE \E x \in T : \A y \in T : x <= y
<1> DEFINE less == {ss \in Nat \X Nat : ss[1] < ss[2]}
<1>1. IsWellFoundedOn(less, Nat)
  BY NatLessThanWellFounded DEF OpToRel
<1>2. PICK x \in T : \A y \in T : ~ (<<y, x>> \in less)
  <2> HIDE DEF less
  <2> QED BY <1>1, WFMin
<1>3. ASSUME NEW y \in T PROVE x <= y
  <2>1. x \in Nat /\ y \in Nat /\ <<y, x>> \notin less
    BY <1>2, <1>3
  <2>2. ~(y < x)
    BY <2>1
  <2> QED BY <2>1, <2>2
<1> QED BY <1>2, <1>3
-----------------------------------------------------------------------------
(* An address and its sessions.                                            *)
CONSTANTS Device, Provider, MaxTries, Servant, MaxDeeds
VARIABLES user, links, tokens, codes, paper, holds, servant, deeds, ended, blurred, tornLines
Auth == INSTANCE Accounts

(* Which statements the call of a job comes to.                            *)
StepFits(at, job) ==
  \/ at = "create" /\ job = "register"
  \/ at \in {"void", "post"} /\ job \in {"register", "code"}
  \/ at \in {"found", "link", "bind"} /\ job = "provider"
  \/ at = "issue" /\ job \in {"register", "login", "provider", "refresh"}
  \/ at = "turn" /\ job = "refresh"
  \/ at = "endAll" /\ job \in {"refresh", "recover", "renew"}
  \/ at = "drop" /\ job = "logout"
  \/ at = "count" /\ job = "wrong"
  \/ at \in {"consume", "mark"} /\ job = "right"
  \/ at = "store" /\ job \in {"recover", "change", "renew"}
  \/ at = "switch" /\ job \in {"suspend", "resume"}

Called(r) ==
  /\ r = [at |-> r.at, job |-> r.job, device |-> r.device, nth |-> r.nth, line |-> r.line,
          what |-> r.what, row |-> r.row]
  /\ StepFits(r.at, r.job)
  /\ r.device \in Device /\ r.nth \in Nat /\ r.line \in Nat
Rostered ==
  /\ servant = [s \in Servant |-> servant[s]]
  /\ \A s \in Servant : servant[s] = Auth!Free \/ Called(servant[s])

(* How one call goes on; the others stay where they are.                   *)
OthersStay(s) == \A o \in Servant : o # s => servant'[o] = servant[o]
SameCall(r, q) ==
  r.job = q.job /\ r.device = q.device /\ r.nth = q.nth /\ r.line = q.line /\ r.what = q.what /\ r.row = q.row

LEMMA IdleIsFree ==
  ASSUME Rostered, NEW s \in Servant
  PROVE  IF servant[s].at = "idle" THEN servant[s] = Auth!Free ELSE Called(servant[s])
<1>1. Auth!Free.at = "idle" /\ ~StepFits("idle", servant[s].job)
  BY DEF Auth!Free, StepFits
<1>2. Called(servant[s]) => servant[s].at # "idle"
  BY <1>1 DEF Called
<1> QED BY <1>1, <1>2 DEF Rostered

LEMMA CallLeaves ==
  ASSUME Rostered, NEW s \in Servant, Auth!Leave(s)
  PROVE  Rostered' /\ servant'[s] = Auth!Free /\ servant'[s].at = "idle" /\ OthersStay(s)
<1>1. servant' = [o \in Servant |-> servant'[o]] /\ servant'[s] = Auth!Free /\ OthersStay(s)
  BY DEF Rostered, Auth!Leave, OthersStay
<1>2. servant'[s].at = "idle"
  BY <1>1 DEF Auth!Free
<1>3. \A o \in Servant : servant'[o] = Auth!Free \/ Called(servant'[o])
  BY <1>1 DEF Rostered, OthersStay
<1> QED BY <1>1, <1>2, <1>3 DEF Rostered, Called, Auth!Free

LEMMA CallMoves ==
  ASSUME Rostered, NEW s \in Servant, NEW at, Auth!Goto(s, at), servant[s].at # "idle", StepFits(at, servant[s].job)
  PROVE  Rostered' /\ servant'[s].at = at /\ SameCall(servant'[s], servant[s]) /\ OthersStay(s)
<1>1. Called(servant[s])
  BY IdleIsFree
<1>2. servant' = [o \in Servant |-> servant'[o]] /\ servant'[s] = [servant[s] EXCEPT !.at = at] /\ OthersStay(s)
  BY DEF Rostered, Auth!Goto, OthersStay
<1>3. PICK r : r = servant[s]
  OBVIOUS
<1>4. /\ r = [at |-> r.at, job |-> r.job, device |-> r.device, nth |-> r.nth, line |-> r.line,
              what |-> r.what, row |-> r.row]
      /\ r.device \in Device /\ r.nth \in Nat /\ r.line \in Nat
  BY <1>1, <1>3 DEF Called
<1>5. PICK q : q = [r EXCEPT !.at = at]
  OBVIOUS
<1>6. /\ q = [at |-> at, job |-> r.job, device |-> r.device, nth |-> r.nth, line |-> r.line,
              what |-> r.what, row |-> r.row]
  BY <1>4, <1>5
<1>7. /\ q.at = at /\ SameCall(q, r)
      /\ q = [at |-> q.at, job |-> q.job, device |-> q.device, nth |-> q.nth, line |-> q.line,
              what |-> q.what, row |-> q.row]
  BY <1>6 DEF SameCall
<1>8. Called(q)
  BY <1>3, <1>4, <1>7 DEF Called, SameCall
<1>9. \A o \in Servant : servant'[o] = Auth!Free \/ Called(servant'[o])
  BY <1>2, <1>3, <1>5, <1>8 DEF Rostered, OthersStay
<1>10. Rostered'
  BY <1>2, <1>9 DEF Rostered, Called, Auth!Free
<1> QED BY <1>2, <1>3, <1>5, <1>7, <1>10

(* A call begins.                                                          *)
LineOf(job, nth) ==
  IF job \in {"refresh", "logout"} THEN tokens[nth].line ELSE Auth!Cardinality(Device) + deeds + 1
LEMMA CallTaken ==
  ASSUME Rostered, deeds \in Nat, Auth!Cardinality(Device) \in Nat,
         NEW s \in Servant, NEW job, NEW at, NEW d \in Device, NEW nth \in Nat, NEW what,
         Auth!Take(s, job, at, d, nth, what), StepFits(at, job), LineOf(job, nth) \in Nat
  PROVE  /\ Rostered' /\ OthersStay(s) /\ servant[s] = Auth!Free /\ servant[s].at = "idle"
         /\ servant'[s].at = at /\ servant'[s].job = job /\ servant'[s].device = d
         /\ servant'[s].nth = nth /\ servant'[s].line = LineOf(job, nth) /\ servant'[s].what = what
         /\ job \in {"provider", "suspend", "resume"} => servant'[s].row = user
         /\ deeds' = deeds + 1 /\ UNCHANGED <<user, links, tokens, codes, paper, holds, ended>>
         /\ tornLines' = IF \E o \in Auth!Busy : servant[o].line = LineOf(job, nth)
                         THEN tornLines \union {LineOf(job, nth)} ELSE tornLines
         /\ blurred' = blurred \union UNION {Auth!Touches(job) \intersect Auth!Touches(servant[o].job) : o \in Auth!Busy}
<1>1. PICK r : r = [at |-> at, job |-> job, device |-> d, nth |-> nth, line |-> LineOf(job, nth), what |-> what,
                    row |-> IF job \in {"provider", "suspend", "resume", "refresh"} THEN user ELSE Auth!Nobody]
  OBVIOUS
<1>2. /\ servant' = [servant EXCEPT ![s] = r] /\ servant[s].at = "idle"
      /\ deeds' = deeds + 1 /\ UNCHANGED <<user, links, tokens, codes, paper, holds, ended>>
      /\ tornLines' = IF \E o \in Auth!Busy : servant[o].line = LineOf(job, nth)
                         THEN tornLines \union {LineOf(job, nth)} ELSE tornLines
      /\ blurred' = blurred \union UNION {Auth!Touches(job) \intersect Auth!Touches(servant[o].job) : o \in Auth!Busy}
  BY <1>1 DEF Auth!Take, LineOf
<1>3. /\ r.at = at /\ r.job = job /\ r.device = d /\ r.nth = nth /\ r.line = LineOf(job, nth) /\ r.what = what
      /\ job \in {"provider", "suspend", "resume"} => r.row = user
      /\ r = [at |-> r.at, job |-> r.job, device |-> r.device, nth |-> r.nth, line |-> r.line,
              what |-> r.what, row |-> r.row]
  BY <1>1
<1>4. Called(r)
  BY <1>3 DEF Called
<1>5. servant' = [o \in Servant |-> servant'[o]] /\ servant'[s] = r /\ OthersStay(s)
  BY <1>2 DEF Rostered, OthersStay
<1>6. \A o \in Servant : servant'[o] = Auth!Free \/ Called(servant'[o])
  BY <1>4, <1>5 DEF Rostered, OthersStay
<1>7. Rostered'
  BY <1>5, <1>6 DEF Rostered, Called, Auth!Free
<1>8. servant[s] = Auth!Free
  BY <1>2, IdleIsFree
<1> QED BY <1>2, <1>3, <1>5, <1>7, <1>8

(* The statements that leave the sessions alone.                           *)
Elsewhere(s) ==
  \/ Auth!Create(s) \/ Auth!FoundUser(s) \/ Auth!Link(s) \/ Auth!Bind(s) \/ Auth!Void(s) \/ Auth!Post(s)
  \/ Auth!CountTry(s) \/ Auth!Consume(s) \/ Auth!Mark(s) \/ Auth!Store(s) \/ Auth!Flip(s)
LEMMA ElsewhereMoves ==
  ASSUME Rostered, NEW s \in Servant, Elsewhere(s)
  PROVE  /\ Rostered' /\ OthersStay(s) /\ servant[s].at # "idle" /\ deeds' = deeds /\ blurred' = blurred
         /\ tokens' = tokens /\ holds' = holds /\ ended' = ended /\ tornLines' = tornLines
         /\ servant[s].job \notin {"refresh", "logout"}
         /\ \/ servant'[s] = Auth!Free /\ servant'[s].at = "idle"
            \/ SameCall(servant'[s], servant[s]) /\ servant'[s].at # "idle"
<1>1. /\ servant[s].at \in {"create", "found", "link", "bind", "void", "post", "count", "consume", "mark", "store", "switch"}
      /\ tokens' = tokens /\ holds' = holds /\ tornLines' = tornLines /\ deeds' = deeds /\ blurred' = blurred
  BY DEF Elsewhere, Auth!Create, Auth!FoundUser, Auth!Link, Auth!Bind, Auth!Void, Auth!Post, Auth!CountTry,
         Auth!Consume, Auth!Mark, Auth!Store, Auth!Flip
<1>2. Called(servant[s]) /\ servant[s].at # "idle" /\ servant[s].job \notin {"refresh", "logout"}
  BY <1>1, IdleIsFree DEF Called, StepFits
<1>3. ended' = ended
  <2>1. CASE Auth!Store(s)
    <3>1. servant[s].job \in {"recover", "change", "renew"}
      BY <1>2, <2>1 DEF Auth!Store, Called, StepFits
    <3> QED BY <2>1, <3>1 DEF Auth!Store, Auth!EndsSessions, Auth!Over
  <2>2. CASE ~Auth!Store(s)
    BY <2>2 DEF Elsewhere, Auth!Create, Auth!FoundUser, Auth!Link, Auth!Bind, Auth!Void, Auth!Post, Auth!CountTry,
         Auth!Consume, Auth!Mark, Auth!Flip
  <2> QED BY <2>1, <2>2
<1>4. Auth!Leave(s) \/ \E at \in {"void", "issue", "bind", "post", "mark", "endAll"} :
                          Auth!Goto(s, at) /\ StepFits(at, servant[s].job)
  <2> USE <1>2 DEF Called, StepFits
  <2>1. CASE Auth!Create(s) \/ Auth!FoundUser(s) \/ Auth!Link(s) \/ Auth!Bind(s)
    BY <2>1 DEF Auth!Create, Auth!FoundUser, Auth!Link, Auth!Bind
  <2>2. CASE Auth!Void(s) \/ Auth!Post(s) \/ Auth!CountTry(s)
    BY <2>2 DEF Auth!Void, Auth!Post, Auth!CountTry
  <2>3. CASE Auth!Consume(s) \/ Auth!Mark(s) \/ Auth!Flip(s)
    BY <2>3 DEF Auth!Consume, Auth!Mark, Auth!Flip
  <2>4. CASE Auth!Store(s)
    BY <2>4 DEF Auth!Store, Auth!EndsSessions
  <2> QED BY <2>1, <2>2, <2>3, <2>4 DEF Elsewhere
<1>5. CASE Auth!Leave(s)
  BY <1>1, <1>2, <1>3, <1>5, CallLeaves
<1>6. CASE \E at \in {"void", "issue", "bind", "post", "mark", "endAll"} :
             Auth!Goto(s, at) /\ StepFits(at, servant[s].job)
  <2>1. PICK at \in {"void", "issue", "bind", "post", "mark", "endAll"} :
             Auth!Goto(s, at) /\ StepFits(at, servant[s].job)
    BY <1>6
  <2>2. Rostered' /\ servant'[s].at = at /\ SameCall(servant'[s], servant[s]) /\ OthersStay(s)
    BY <1>2, <2>1, CallMoves
  <2> QED BY <1>1, <1>2, <1>3, <2>1, <2>2
<1> QED BY <1>4, <1>5, <1>6

(* What a call relies on of the session it is about, unless that is torn:  *)
(* a session that is signed in to has no token yet, and one whose token is *)
(* replaced has that alone.  While none is torn, a device is alone with    *)
(* its session, and an alarm is of one that a new password ended.          *)
SignsIn(r) == r.job \in {"register", "login", "provider"}
Replaces(r) == r.job = "refresh" /\ r.at \in {"turn", "issue"}
Devices == Auth!Cardinality(Device)
SessionOf(r) ==
  /\ r.line # 0 /\ r.line <= deeds + Devices
  /\ r.job \in {"refresh", "logout"} => r.nth \in DOMAIN tokens /\ tokens[r.nth].line = r.line
  /\ r.line \in tornLines \/
       /\ SignsIn(r) => r.line > ended /\ \A n \in DOMAIN tokens : tokens[n].line # r.line
       /\ Replaces(r) => /\ r.line > ended
                         /\ \A n \in DOMAIN tokens : Auth!Live(n) /\ tokens[n].line = r.line =>
                              r.at = "turn" /\ n = r.nth
  /\ tornLines # {} \/
       /\ r.job = "refresh" /\ r.at = "endAll" => r.line <= ended
       /\ r.job \in {"refresh", "logout"} =>
            \A d \in Device : holds[d] # 0 /\ tokens[holds[d]].line = r.line => d = r.device

TokenRows ==
  /\ tokens \in Seq(Auth!Token) /\ holds \in [Device -> Nat] /\ deeds \in Nat /\ ended \in Nat
  /\ ended <= deeds + Devices /\ Devices \in Nat
  /\ \A n \in DOMAIN tokens : tokens[n].line <= deeds + Devices
  /\ \A d \in Device : holds[d] = 0 \/ holds[d] \in DOMAIN tokens
LineOfOne ==
  \A s, o \in Servant : s # o /\ servant[s].at # "idle" /\ servant[o].at # "idle" /\ servant[s].line = servant[o].line =>
    servant[s].line \in tornLines
OneLive ==
  \A n, m \in DOMAIN tokens : Auth!Live(n) /\ Auth!Live(m) /\ tokens[n].line = tokens[m].line =>
    n = m \/ tokens[n].line \in tornLines
EndedAreOver == \A n \in DOMAIN tokens : Auth!Live(n) => tokens[n].line > ended \/ tokens[n].line \in tornLines
OwnSession ==
  tornLines # {} \/ \A d, e \in Device :
    holds[d] # 0 /\ holds[e] # 0 /\ tokens[holds[d]].line = tokens[holds[e]].line => d = e
BeingReplaced(line) == \E s \in Servant : servant[s].at = "issue" /\ servant[s].job = "refresh" /\ servant[s].line = line
HeldIsLive ==
  tornLines # {} \/ \A d \in Device : holds[d] # 0 /\ tokens[holds[d]].end = "revoked" =>
    tokens[holds[d]].line <= ended \/ BeingReplaced(tokens[holds[d]].line)
SessionsOf == \A s \in Servant : servant[s].at # "idle" => SessionOf(servant[s])

SessionsInv == Rostered /\ TokenRows /\ LineOfOne /\ OneLive /\ EndedAreOver /\ OwnSession /\ HeldIsLive /\ SessionsOf

LEMMA SessionsStart == ASSUME Auth!AccountsAssumption, Auth!Init PROVE SessionsInv
<1>0. IsFiniteSet(Device) /\ Devices = Cardinality(Device)
  BY DEF Auth!AccountsAssumption, Devices, Auth!Cardinality, Cardinality, Auth!IsFiniteSet, IsFiniteSet
<1>1. Devices \in Nat
  BY <1>0, FS_CardinalityType
<1>2. /\ servant = [s \in Servant |-> Auth!Free] /\ deeds = 0 /\ ended = 0 /\ tornLines = {}
      /\ \/ tokens = <<>> /\ holds = [d \in Device |-> 0]
         \/ /\ tokens = [n \in 1..Devices |-> [line |-> n, end |-> "no"]]
            /\ holds = CHOOSE h \in [Device -> DOMAIN tokens] : \A n \in DOMAIN tokens : \E d \in Device : h[d] = n
  BY DEF Auth!Init, Devices
<1>3. Rostered /\ \A s \in Servant : servant[s].at = "idle"
  BY <1>2 DEF Rostered, Auth!Free
<1>4. CASE tokens = <<>> /\ holds = [d \in Device |-> 0]
  BY <1>1, <1>2, <1>3, <1>4 DEF SessionsInv, TokenRows, LineOfOne, OneLive, EndedAreOver, OwnSession, HeldIsLive,
     SessionsOf, Auth!Token
<1>5. CASE /\ tokens = [n \in 1..Devices |-> [line |-> n, end |-> "no"]]
           /\ holds = CHOOSE h \in [Device -> DOMAIN tokens] : \A n \in DOMAIN tokens : \E d \in Device : h[d] = n
  <2>1. tokens \in Seq(Auth!Token) /\ DOMAIN tokens = 1..Devices
        /\ \A n \in 1..Devices : tokens[n].line = n /\ tokens[n].end = "no"
    BY <1>1, <1>5 DEF Auth!Token
  <2>3. IsFiniteSet(1..Devices) /\ Cardinality(1..Devices) = Devices
    BY <1>1, FS_Interval
  <2>4. ExistsBijection(Device, 1..Devices)
    BY <1>0, <2>3, FS_SameCardinalityBij
  <2>5. PICK f : f \in [Device -> 1..Devices] /\ \A n \in 1..Devices : \E d \in Device : f[d] = n
    BY <2>4 DEF ExistsBijection, Bijection, Surjection
  <2>6. holds \in [Device -> 1..Devices] /\ \A n \in 1..Devices : \E d \in Device : holds[d] = n
    <3>1. f \in [Device -> DOMAIN tokens] /\ \A n \in DOMAIN tokens : \E d \in Device : f[d] = n
      BY <2>1, <2>5
    <3>2. holds \in [Device -> DOMAIN tokens] /\ \A n \in DOMAIN tokens : \E d \in Device : holds[d] = n
      BY <1>5, <3>1, Zenon
    <3> QED BY <2>1, <3>2
  <2>7. holds \in Injection(Device, 1..Devices)
    <3>1. holds \in Surjection(Device, 1..Devices)
      BY <2>6 DEF Surjection
    <3> QED BY <1>0, <2>3, <3>1, FS_SurjSameCardinalityImpliesInj
  <2>8. \A d, e \in Device : holds[d] = holds[e] => d = e
    BY <2>7 DEF Injection, IsInjective
  <2>9. TokenRows
    BY <1>1, <1>2, <2>1, <2>6 DEF TokenRows
  <2> QED BY <1>2, <1>3, <2>1, <2>6, <2>8, <2>9 DEF SessionsInv, LineOfOne, OneLive, EndedAreOver, OwnSession,
          HeldIsLive, SessionsOf
<1> QED BY <1>2, <1>4, <1>5

(* Tokens end, and devices forget them.                                    *)
TokensEnd ==
  /\ tokens' \in Seq(Auth!Token) /\ DOMAIN tokens' = DOMAIN tokens
  /\ \A n \in DOMAIN tokens : tokens'[n].line = tokens[n].line /\ (Auth!Live(n)' => Auth!Live(n))
  /\ holds' \in [Device -> Nat] /\ \A d \in Device : holds'[d] \in {0, holds[d]}
  /\ deeds' \in Nat /\ deeds <= deeds' /\ tornLines \subseteq tornLines' /\ ended' = ended

LEMMA TokenHasLine ==
  ASSUME TokenRows
  PROVE  \A n \in DOMAIN tokens : tokens[n] \in Auth!Token /\ tokens[n].line \in Nat
<1>1. ASSUME NEW n \in DOMAIN tokens PROVE tokens[n] \in Auth!Token
  BY DEF TokenRows
<1>2. \A t \in Auth!Token : t.line \in Nat
  BY DEF Auth!Token
<1> QED BY <1>1, <1>2

LEMMA SessionStays ==
  ASSUME TokenRows, TokensEnd, NEW r, r.line \in Nat, SessionOf(r)
  PROVE  SessionOf(r)'
<1> USE DEF TokensEnd
<1>1. r.line <= deeds' + Devices /\ (r.job \in {"refresh", "logout"} => r.nth \in DOMAIN tokens' /\ tokens'[r.nth].line = r.line)
  BY DEF SessionOf, TokenRows
<1>2. ASSUME r.line \notin tornLines'
      PROVE  /\ SignsIn(r) => r.line > ended' /\ \A n \in DOMAIN tokens' : tokens'[n].line # r.line
             /\ Replaces(r) => /\ r.line > ended'
                               /\ \A n \in DOMAIN tokens' : Auth!Live(n)' /\ tokens'[n].line = r.line =>
                                    r.at = "turn" /\ n = r.nth
  BY <1>2 DEF SessionOf
<1>3. ASSUME tornLines' = {}
      PROVE  /\ r.job = "refresh" /\ r.at = "endAll" => r.line <= ended'
             /\ r.job \in {"refresh", "logout"} =>
                  \A d \in Device : holds'[d] # 0 /\ tokens'[holds'[d]].line = r.line => d = r.device
  <2>1. \A d \in Device : holds'[d] # 0 => holds'[d] = holds[d] /\ tokens'[holds'[d]].line = tokens[holds[d]].line
    BY DEF TokenRows
  <2> QED BY <1>3, <2>1 DEF SessionOf
<1> QED BY <1>1, <1>2, <1>3 DEF SessionOf, SignsIn, Replaces

LEMMA SumGrows ==
  ASSUME NEW a \in Nat, NEW b \in Nat, NEW c \in Nat, NEW d \in Nat, b <= a + d, a <= c
  PROVE  b <= c + d
OBVIOUS

LEMMA TablesStay ==
  ASSUME TokenRows, OneLive, EndedAreOver, OwnSession, TokensEnd
  PROVE  TokenRows' /\ OneLive' /\ EndedAreOver' /\ OwnSession'
<1> USE DEF TokensEnd
<1>1. TokenRows'
  <2>1. \A d \in Device : holds'[d] = 0 \/ holds'[d] \in DOMAIN tokens'
    BY DEF TokenRows
  <2>2. ended' <= deeds' + Devices /\ \A n \in DOMAIN tokens' : tokens'[n].line <= deeds' + Devices
    <3>1. \A n \in DOMAIN tokens : tokens[n].line \in Nat
      BY TokenHasLine
    <3>2. ASSUME NEW n \in DOMAIN tokens' PROVE tokens'[n].line <= deeds' + Devices
      <4>1. tokens'[n].line = tokens[n].line /\ tokens[n].line <= deeds + Devices /\ tokens[n].line \in Nat
        BY <3>1, <3>2 DEF TokenRows
      <4> QED BY <4>1 DEF TokenRows
    <3>3. ended' <= deeds' + Devices
      <4>1. /\ deeds \in Nat /\ ended' \in Nat /\ Devices \in Nat /\ ended' <= deeds + Devices
            /\ deeds' \in Nat /\ deeds <= deeds'
        BY Zenon DEF TokenRows
      <4> QED BY <4>1, SumGrows, Zenon
    <3> QED BY <3>2, <3>3
  <2>3. Devices' = Devices
    BY DEF Devices, Auth!Cardinality
  <2> QED BY <2>1, <2>2, <2>3 DEF TokenRows
<1>2. OneLive' /\ EndedAreOver'
  BY DEF OneLive, EndedAreOver
<1>3. \A d \in Device : holds'[d] # 0 => holds'[d] = holds[d] /\ tokens'[holds'[d]].line = tokens[holds[d]].line
  BY DEF TokenRows
<1>4. OwnSession'
  BY <1>3 DEF OwnSession
<1> QED BY <1>1, <1>2, <1>4

(* Calls end, or go on.                                                    *)
LEMMA LinesStay ==
  ASSUME LineOfOne, tornLines \subseteq tornLines',
         \A s \in Servant : servant'[s].at # "idle" => servant[s].at # "idle" /\ servant'[s].line = servant[s].line
  PROVE  LineOfOne'
BY DEF LineOfOne

LEMMA OthersRely ==
  ASSUME Rostered, TokenRows, TokensEnd, SessionsOf, NEW s \in Servant, OthersStay(s)
  PROVE  \A o \in Servant : o # s /\ servant'[o].at # "idle" => SessionOf(servant[o])' /\ servant'[o] = servant[o]
<1> SUFFICES ASSUME NEW o \in Servant, o # s, servant'[o].at # "idle"
             PROVE  SessionOf(servant[o])' /\ servant'[o] = servant[o]
  OBVIOUS
<1>1. servant'[o] = servant[o]
  BY DEF OthersStay
<1>2. PICK r : r = servant[o]
  OBVIOUS
<1>3. r.line \in Nat /\ SessionOf(r)
  BY <1>1, <1>2, IdleIsFree DEF SessionsOf, Called
<1>4. SessionOf(r)'
  BY <1>3, SessionStays
<1> QED BY <1>1, <1>2, <1>4

(* The statements elsewhere.                                               *)
LEMMA SessionsElsewhere ==
  ASSUME SessionsInv, NEW s \in Servant, Elsewhere(s)
  PROVE  SessionsInv'
<1> USE DEF SessionsInv
<1>1. /\ Rostered' /\ OthersStay(s) /\ servant[s].at # "idle" /\ deeds' = deeds
      /\ tokens' = tokens /\ holds' = holds /\ ended' = ended /\ tornLines' = tornLines
      /\ servant[s].job \notin {"refresh", "logout"}
      /\ \/ servant'[s] = Auth!Free /\ servant'[s].at = "idle"
         \/ SameCall(servant'[s], servant[s]) /\ servant'[s].at # "idle"
  BY ElsewhereMoves
<1>2. TokensEnd
  BY <1>1 DEF TokensEnd, TokenRows, Auth!Live
<1>3. LineOfOne'
  BY <1>1, LinesStay DEF OthersStay, SameCall
<1>4. TokenRows' /\ OneLive' /\ EndedAreOver' /\ OwnSession'
  BY <1>2, TablesStay
<1>5. HeldIsLive'
  BY <1>1 DEF HeldIsLive, BeingReplaced, OthersStay
<1>6. SessionsOf'
  <2>1. ASSUME servant'[s].at # "idle" PROVE SessionOf(servant[s])'
    <3>1. PICK r, q : r = servant[s] /\ q = servant'[s]
      OBVIOUS
    <3>2. SessionOf(r) /\ SameCall(q, r) /\ r.job \notin {"refresh", "logout"} /\ r.line \in Nat
      BY <1>1, <2>1, <3>1, IdleIsFree DEF SessionsOf, Called
    <3>3. SessionOf(r)'
      BY <1>2, <3>2, SessionStays
    <3>4. SessionOf(q)'
      BY <3>2, <3>3 DEF SessionOf, SameCall, SignsIn, Replaces
    <3> QED BY <3>1, <3>4
  <2>2. \A o \in Servant : o # s /\ servant'[o].at # "idle" => SessionOf(servant[o])' /\ servant'[o] = servant[o]
    BY <1>1, <1>2, OthersRely
  <2> QED BY <2>1, <2>2 DEF SessionsOf
<1> QED BY <1>1, <1>3, <1>4, <1>5, <1>6

(* One token ends.                                                         *)
LEMMA TokenEnds ==
  ASSUME TokenRows, NEW k \in DOMAIN tokens, NEW end \in {"expired", "revoked"},
         tokens' = [tokens EXCEPT ![k].end = end]
  PROVE  /\ tokens' \in Seq(Auth!Token) /\ DOMAIN tokens' = DOMAIN tokens
         /\ \A n \in DOMAIN tokens : tokens'[n].line = tokens[n].line /\ (Auth!Live(n)' => Auth!Live(n))
         /\ tokens'[k].end = end /\ \A n \in DOMAIN tokens : n # k => tokens'[n] = tokens[n]
<1>1. tokens[k] \in Auth!Token /\ tokens \in Seq(Auth!Token)
  BY TokenHasLine DEF TokenRows
<1>2. PICK t : t = [tokens[k] EXCEPT !.end = end]
  OBVIOUS
<1>3. t \in Auth!Token /\ t.line = tokens[k].line /\ t.end = end
  BY <1>1, <1>2 DEF Auth!Token
<1>4. tokens' = [tokens EXCEPT ![k] = t]
  BY <1>2
<1>5. /\ tokens' \in Seq(Auth!Token) /\ DOMAIN tokens' = DOMAIN tokens
      /\ tokens'[k] = t /\ \A n \in DOMAIN tokens : n # k => tokens'[n] = tokens[n]
  BY <1>1, <1>3, <1>4
<1>6. \A n \in DOMAIN tokens : tokens'[n].line = tokens[n].line /\ (Auth!Live(n)' => Auth!Live(n))
  BY <1>3, <1>5 DEF Auth!Live
<1> QED BY <1>3, <1>5, <1>6

LEMMA SessionsExpire ==
  ASSUME SessionsInv, NEW k \in DOMAIN tokens, Auth!Expire(k)
  PROVE  SessionsInv'
<1> USE DEF SessionsInv
<1>1. /\ tokens' = [tokens EXCEPT ![k].end = "expired"] /\ holds' = holds /\ servant' = servant /\ deeds' = deeds
      /\ ended' = ended /\ tornLines' = tornLines
  BY DEF Auth!Expire
<1>2. /\ tokens' \in Seq(Auth!Token) /\ DOMAIN tokens' = DOMAIN tokens
      /\ \A n \in DOMAIN tokens : tokens'[n].line = tokens[n].line /\ (Auth!Live(n)' => Auth!Live(n))
      /\ tokens'[k].end = "expired" /\ \A n \in DOMAIN tokens : n # k => tokens'[n] = tokens[n]
  BY <1>1, TokenEnds
<1>3. TokensEnd
  BY <1>1, <1>2 DEF TokensEnd, TokenRows
<1>4. TokenRows' /\ OneLive' /\ EndedAreOver' /\ OwnSession'
  BY <1>3, TablesStay
<1>5. Rostered' /\ LineOfOne'
  BY <1>1 DEF Rostered, LineOfOne, Called
<1>6. HeldIsLive'
  <2>1. \A d \in Device : holds'[d] # 0 /\ tokens'[holds'[d]].end = "revoked" =>
          holds[d] # 0 /\ tokens[holds[d]].end = "revoked" /\ tokens'[holds'[d]].line = tokens[holds[d]].line
    BY <1>1, <1>2 DEF TokenRows
  <2> QED BY <1>1, <2>1 DEF HeldIsLive, BeingReplaced
<1>7. SessionsOf'
  <2> SUFFICES ASSUME NEW s \in Servant, servant[s].at # "idle" PROVE SessionOf(servant[s])'
    BY <1>1 DEF SessionsOf
  <2>1. PICK r : r = servant[s]
    OBVIOUS
  <2>2. r.line \in Nat /\ SessionOf(r)
    BY <2>1, IdleIsFree DEF SessionsOf, Called
  <2>3. SessionOf(r)'
    BY <1>3, <2>2, SessionStays
  <2> QED BY <1>1, <2>1, <2>3
<1> QED BY <1>4, <1>5, <1>6, <1>7

(* rotateRefreshToken revokes the token it replaces.                       *)
LEMMA SessionsTurn ==
  ASSUME SessionsInv, NEW s \in Servant, Auth!Turn(s)
  PROVE  SessionsInv'
<1> USE DEF SessionsInv
<1>1. /\ servant[s].at = "turn" /\ tokens' = [tokens EXCEPT ![servant[s].nth].end = "revoked"] /\ Auth!Goto(s, "issue")
      /\ holds' = holds /\ deeds' = deeds /\ ended' = ended /\ tornLines' = tornLines
  BY DEF Auth!Turn
<1>2. PICK r : r = servant[s]
  OBVIOUS
<1>3. r.job = "refresh" /\ r.line \in Nat /\ SessionOf(r)
  BY <1>1, <1>2, IdleIsFree DEF SessionsOf, Called, StepFits
<1>4. r.nth \in DOMAIN tokens /\ tokens[r.nth].line = r.line
  BY <1>3 DEF SessionOf
<1>5. /\ tokens' \in Seq(Auth!Token) /\ DOMAIN tokens' = DOMAIN tokens
      /\ \A n \in DOMAIN tokens : tokens'[n].line = tokens[n].line /\ (Auth!Live(n)' => Auth!Live(n))
      /\ tokens'[r.nth].end = "revoked" /\ \A n \in DOMAIN tokens : n # r.nth => tokens'[n] = tokens[n]
  BY <1>1, <1>2, <1>4, TokenEnds
<1>6. TokensEnd
  BY <1>1, <1>5 DEF TokensEnd, TokenRows
<1>7. TokenRows' /\ OneLive' /\ EndedAreOver' /\ OwnSession'
  BY <1>6, TablesStay
<1>8. Rostered' /\ servant'[s].at = "issue" /\ SameCall(servant'[s], r) /\ OthersStay(s)
  BY <1>1, <1>2, <1>3, CallMoves DEF StepFits
<1>9. LineOfOne'
  BY <1>1, <1>2, <1>8, LinesStay DEF OthersStay, SameCall
<1>10. SessionsOf'
  <2>1. PICK q : q = servant'[s]
    OBVIOUS
  <2>2. SessionOf(r)'
    BY <1>3, <1>6, SessionStays
  <2>3. r.line \in tornLines \/ \A n \in DOMAIN tokens' : Auth!Live(n)' /\ tokens'[n].line = r.line => n = r.nth
    BY <1>1, <1>2, <1>3, <1>5 DEF SessionOf, Replaces
  <2>4. ~Auth!Live(r.nth)'
    BY <1>5 DEF Auth!Live
  <2>5. r.line \in tornLines \/ r.line > ended
    BY <1>1, <1>2, <1>3 DEF SessionOf, Replaces
  <2>6. SessionOf(q)'
    BY <1>1, <1>3, <1>8, <2>1, <2>2, <2>3, <2>4, <2>5 DEF SessionOf, SameCall, SignsIn, Replaces
  <2>7. \A o \in Servant : o # s /\ servant'[o].at # "idle" => SessionOf(servant[o])' /\ servant'[o] = servant[o]
    BY <1>6, <1>8, OthersRely
  <2> QED BY <2>1, <2>6, <2>7 DEF SessionsOf
<1>11. HeldIsLive'
  <2> SUFFICES ASSUME tornLines = {}, NEW d \in Device, holds[d] # 0, tokens'[holds[d]].end = "revoked"
               PROVE  \/ tokens[holds[d]].line <= ended
                      \/ \E t \in Servant : /\ servant'[t].at = "issue" /\ servant'[t].job = "refresh"
                                            /\ servant'[t].line = tokens[holds[d]].line
    BY <1>1, <1>5 DEF HeldIsLive, TokenRows, BeingReplaced
  <2>1. CASE holds[d] = r.nth
    BY <1>3, <1>4, <1>8, <2>1 DEF BeingReplaced, SameCall
  <2>2. CASE holds[d] # r.nth
    <3>1. tokens[holds[d]].line <= ended \/ BeingReplaced(tokens[holds[d]].line)
      BY <1>5, <2>2 DEF HeldIsLive, TokenRows
    <3> QED BY <1>1, <1>8, <3>1 DEF BeingReplaced, OthersStay
  <2> QED BY <2>1, <2>2
<1> QED BY <1>7, <1>8, <1>9, <1>10, <1>11

(* logout: the device alone had the session.                               *)
LEMMA SessionsDrop ==
  ASSUME SessionsInv, NEW s \in Servant, Auth!Drop(s)
  PROVE  SessionsInv'
<1> USE DEF SessionsInv
<1>1. /\ servant[s].at = "drop" /\ tokens' = [tokens EXCEPT ![servant[s].nth].end = "revoked"] /\ Auth!Leave(s)
      /\ holds' = [holds EXCEPT ![servant[s].device] = IF @ = servant[s].nth THEN 0 ELSE @]
      /\ deeds' = deeds /\ ended' = ended /\ tornLines' = tornLines
  BY DEF Auth!Drop
<1>2. PICK r : r = servant[s]
  OBVIOUS
<1>3. r.job = "logout" /\ r.line \in Nat /\ r.device \in Device /\ SessionOf(r)
  BY <1>1, <1>2, IdleIsFree DEF SessionsOf, Called, StepFits
<1>4. r.nth \in DOMAIN tokens /\ tokens[r.nth].line = r.line
  BY <1>3 DEF SessionOf
<1>5. /\ tokens' \in Seq(Auth!Token) /\ DOMAIN tokens' = DOMAIN tokens
      /\ \A n \in DOMAIN tokens : tokens'[n].line = tokens[n].line /\ (Auth!Live(n)' => Auth!Live(n))
      /\ tokens'[r.nth].end = "revoked" /\ \A n \in DOMAIN tokens : n # r.nth => tokens'[n] = tokens[n]
  BY <1>1, <1>2, <1>4, TokenEnds
<1>6. /\ holds' \in [Device -> Nat] /\ \A d \in Device : holds'[d] \in {0, holds[d]}
      /\ holds[r.device] = r.nth => holds'[r.device] = 0
  BY <1>1, <1>2, <1>3 DEF TokenRows
<1>7. TokensEnd
  BY <1>1, <1>5, <1>6 DEF TokensEnd, TokenRows
<1>8. TokenRows' /\ OneLive' /\ EndedAreOver' /\ OwnSession'
  BY <1>7, TablesStay
<1>9. Rostered' /\ servant'[s].at = "idle" /\ OthersStay(s)
  BY <1>1, CallLeaves
<1>10. LineOfOne'
  BY <1>1, <1>9, LinesStay DEF OthersStay
<1>11. SessionsOf'
  BY <1>7, <1>9, OthersRely DEF SessionsOf
<1>12. HeldIsLive'
  <2> SUFFICES ASSUME tornLines = {}, NEW d \in Device, holds'[d] # 0, tokens'[holds'[d]].end = "revoked"
               PROVE  \/ tokens[holds[d]].line <= ended
                      \/ \E t \in Servant : /\ servant'[t].at = "issue" /\ servant'[t].job = "refresh"
                                            /\ servant'[t].line = tokens[holds[d]].line
    <3>1. \A d \in Device : holds'[d] # 0 => holds'[d] = holds[d] /\ tokens'[holds'[d]].line = tokens[holds[d]].line
      BY <1>5, <1>6 DEF TokenRows
    <3> QED BY <1>1, <3>1 DEF HeldIsLive, BeingReplaced
  <2>1. holds'[d] = holds[d] /\ holds[d] \in DOMAIN tokens /\ holds[d] # 0
    BY <1>6 DEF TokenRows
  <2>2. holds[d] # r.nth
    BY <1>3, <1>4, <1>6, <2>1 DEF SessionOf
  <2>3. tokens[holds[d]].line <= ended \/ BeingReplaced(tokens[holds[d]].line)
    BY <1>5, <2>1, <2>2 DEF HeldIsLive
  <2> QED BY <1>2, <1>3, <1>9, <2>3 DEF BeingReplaced, OthersStay
<1> QED BY <1>8, <1>9, <1>10, <1>11, <1>12

(* revokeAllForUser: nothing is left to rely on.                           *)
LEMMA SessionsEndAll ==
  ASSUME SessionsInv, NEW s \in Servant, Auth!EndAll(s)
  PROVE  SessionsInv'
<1> USE DEF SessionsInv
<1>1. /\ servant[s].at = "endAll" /\ tokens' = [n \in 1..Len(tokens) |-> [tokens[n] EXCEPT !.end = "revoked"]]
      /\ Auth!Leave(s) /\ Auth!Over(s) /\ holds' = holds /\ deeds' = deeds
      /\ tornLines' = tornLines \union {servant[o].line : o \in {o \in Auth!Busy \ {s} : Auth!Signs(servant[o])}}
  BY DEF Auth!EndAll
<1>2. PICK r : r = servant[s]
  OBVIOUS
<1>3. r.job \in {"refresh", "recover", "renew"} /\ r.line \in Nat /\ SessionOf(r)
  BY <1>1, <1>2, IdleIsFree DEF SessionsOf, Called, StepFits
<1>4. /\ tokens' \in Seq(Auth!Token) /\ DOMAIN tokens' = DOMAIN tokens
      /\ \A n \in DOMAIN tokens : tokens'[n].line = tokens[n].line /\ tokens'[n].end = "revoked"
  <2>1. \A n \in DOMAIN tokens : tokens[n] \in Auth!Token
    BY TokenHasLine
  <2>2. \A t \in Auth!Token : LET q == [t EXCEPT !.end = "revoked"]
                              IN  q \in Auth!Token /\ q.line = t.line /\ q.end = "revoked"
    BY DEF Auth!Token
  <2>3. DOMAIN tokens = 1..Len(tokens) /\ Len(tokens) \in Nat
    BY DEF TokenRows
  <2>4. tokens' \in [1..Len(tokens) -> Auth!Token]
    BY <1>1, <2>1, <2>2, <2>3
  <2>5. tokens' \in Seq(Auth!Token) /\ DOMAIN tokens' = DOMAIN tokens
    BY <2>3, <2>4
  <2> QED BY <1>1, <2>1, <2>2, <2>3, <2>5
<1>5. /\ ended' \in Nat /\ ended' <= deeds + Devices
      /\ ended' = deeds + Devices \/ (ended' = ended /\ r.job = "refresh" /\ r.line > ended)
  <2>1. Devices + deeds = deeds + Devices /\ deeds + Devices \in Nat
    BY DEF TokenRows
  <2>2. ended' = IF r.job \in {"recover", "renew"} \/ (r.job = "refresh" /\ r.line <= ended)
                 THEN deeds + Devices ELSE ended
    BY <1>1, <1>2, <2>1 DEF Auth!Over, Devices
  <2>3. r.line <= ended \/ r.line > ended
    BY <1>3 DEF TokenRows
  <2> QED BY <1>3, <2>1, <2>2, <2>3 DEF TokenRows
<1>6. Rostered' /\ servant'[s].at = "idle" /\ OthersStay(s)
  BY <1>1, CallLeaves
<1>7. TokenRows' /\ OneLive' /\ EndedAreOver'
  <2>1. Devices' = Devices
    BY DEF Devices, Auth!Cardinality
  <2>2. TokenRows'
    BY <1>1, <1>4, <1>5, <2>1 DEF TokenRows
  <2>3. \A n \in DOMAIN tokens' : ~Auth!Live(n)'
    BY <1>4 DEF Auth!Live
  <2> QED BY <2>2, <2>3 DEF OneLive, EndedAreOver
<1>8. LineOfOne'
  BY <1>1, <1>6, LinesStay DEF OthersStay
<1>9. OwnSession'
  BY <1>1, <1>4 DEF OwnSession, TokenRows
<1>10. HeldIsLive'
  <2> SUFFICES ASSUME tornLines' = {}, NEW d \in Device, holds[d] # 0
               PROVE  tokens'[holds[d]].line <= ended'
    BY <1>1 DEF HeldIsLive
  <2>1. tornLines = {}
    BY <1>1
  <2>2. ended' = deeds + Devices
    BY <1>1, <1>2, <1>3, <1>5, <2>1 DEF SessionOf, TokenRows
  <2> QED BY <1>4, <2>2 DEF TokenRows
<1>11. SessionsOf'
  <2> SUFFICES ASSUME NEW o \in Servant, servant'[o].at # "idle" PROVE SessionOf(servant[o])'
    BY DEF SessionsOf
  <2>1. o # s /\ servant'[o] = servant[o]
    BY <1>6 DEF OthersStay
  <2>2. PICK q : q = servant[o]
    OBVIOUS
  <2>3. q.line \in Nat /\ SessionOf(q) /\ q.at # "idle"
    BY <2>1, <2>2, IdleIsFree DEF SessionsOf, Called
  <2>4. Auth!Signs(q) => q.line \in tornLines'
    BY <1>1, <2>1, <2>2, <2>3 DEF Auth!Busy
  <2>5. SessionOf(q)'
    BY <1>1, <1>4, <2>3, <2>4 DEF SessionOf, Auth!Signs, SignsIn, Replaces
  <2> QED BY <2>1, <2>2, <2>5
<1> QED BY <1>6, <1>7, <1>8, <1>9, <1>10, <1>11

LEMMA SessionsHalt ==
  ASSUME SessionsInv, NEW s \in Servant, Auth!Halt(s)
  PROVE  SessionsInv'
<1> USE DEF SessionsInv
<1>1. /\ servant[s].at # "idle" /\ Auth!Leave(s) /\ tokens' = tokens /\ holds' = holds /\ deeds' = deeds
      /\ ended' = ended
      /\ IF servant[s].line \in Auth!Lines THEN tornLines' = tornLines \union {servant[s].line} ELSE tornLines' = tornLines
  BY DEF Auth!Halt, Auth!Torn
<1>2. Rostered' /\ servant'[s].at = "idle" /\ OthersStay(s)
  BY <1>1, CallLeaves
<1>3. TokensEnd
  BY <1>1 DEF TokensEnd, TokenRows, Auth!Live
<1>4. TokenRows' /\ OneLive' /\ EndedAreOver' /\ OwnSession'
  BY <1>3, TablesStay
<1>5. LineOfOne'
  BY <1>1, <1>2, LinesStay DEF OthersStay
<1>6. SessionsOf'
  BY <1>2, <1>3, OthersRely DEF SessionsOf
<1>7. HeldIsLive'
  <2>1. tornLines' = {} => servant[s].job # "refresh"
    <3>1. servant[s].job = "refresh" => servant[s].line \in Auth!Lines
      BY <1>1 DEF SessionsOf, SessionOf, Auth!Lines
    <3> QED BY <1>1, <3>1
  <2> QED BY <1>1, <1>2, <2>1 DEF HeldIsLive, BeingReplaced, OthersStay
<1> QED BY <1>2, <1>4, <1>5, <1>6, <1>7

(* issueRefreshToken: the token that a sign-in or a refresh comes to.      *)
LEMMA SessionsIssue ==
  ASSUME SessionsInv, NEW s \in Servant, Auth!Issue(s)
  PROVE  SessionsInv'
<1> USE DEF SessionsInv
<1>1. PICK r : r = servant[s]
  OBVIOUS
<1>2. PICK refused \in BOOLEAN : refused <=> r.job = "refresh" /\ r.row.status # "active"
  OBVIOUS
<1>3. PICK t : t = [line |-> r.line, end |-> "no"]
  OBVIOUS
<1>4. /\ r.at = "issue" /\ Auth!Leave(s) /\ deeds' = deeds /\ ended' = ended
      /\ tokens' = Append(tokens, t) \/ (refused /\ tokens' = tokens)
      /\ holds' = IF refused THEN holds ELSE [holds EXCEPT ![r.device] = Len(tokens')]
      /\ tornLines' = IF refused THEN tornLines \union {r.line} ELSE tornLines
  BY <1>1, <1>2, <1>3 DEF Auth!Issue, Auth!Torn
<1>5. /\ (SignsIn(r) \/ Replaces(r)) /\ r.line \in Nat /\ r.device \in Device /\ SessionOf(r) /\ r.at # "idle"
  BY <1>1, <1>4, IdleIsFree DEF SessionsOf, Called, StepFits, SignsIn, Replaces
<1>6. Rostered' /\ servant'[s].at = "idle" /\ OthersStay(s)
  BY <1>4, CallLeaves
<1>7. LineOfOne'
  BY <1>4, <1>6, LinesStay DEF OthersStay
<1>8. ASSUME tokens' = tokens, refused PROVE SessionsInv'
  <2>1. holds' = holds /\ tornLines' # {} /\ tornLines \subseteq tornLines'
    BY <1>4, <1>8
  <2>2. TokensEnd
    BY <1>4, <1>8, <2>1 DEF TokensEnd, TokenRows, Auth!Live
  <2>3. TokenRows' /\ OneLive' /\ EndedAreOver' /\ OwnSession'
    BY <2>2, TablesStay
  <2>4. SessionsOf'
    BY <1>6, <2>2, OthersRely DEF SessionsOf
  <2> QED BY <1>6, <1>7, <2>1, <2>3, <2>4 DEF HeldIsLive
<1>9. ASSUME tokens' = Append(tokens, t) PROVE SessionsInv'
  <2>1. PICK k \in Nat : k = Len(tokens)
    BY DEF TokenRows
  <2>2. r.line # 0 /\ r.line <= deeds + Devices
    BY <1>1, <1>5 DEF SessionOf
  <2>3. t \in Auth!Token /\ t.line = r.line /\ t.end = "no"
    BY <1>3, <1>5, <2>2 DEF Auth!Token
  <2>4. /\ tokens' \in Seq(Auth!Token) /\ DOMAIN tokens = 1..k /\ DOMAIN tokens' = 1..(k + 1)
        /\ tokens'[k + 1] = t /\ \A n \in 1..k : tokens'[n] = tokens[n] /\ Len(tokens') = k + 1
    BY <1>9, <2>1, <2>3 DEF TokenRows
  <2>5. \A n \in DOMAIN tokens' : n # k + 1 => n \in DOMAIN tokens /\ tokens'[n] = tokens[n]
    BY <2>1, <2>4
  <2>6. /\ holds' \in [Device -> Nat] /\ \A d \in Device : d # r.device => holds'[d] = holds[d]
        /\ holds'[r.device] = IF refused THEN holds[r.device] ELSE k + 1
    <3>1. holds \in [Device -> Nat] /\ k + 1 \in Nat /\ Len(tokens') = k + 1
      BY <2>1, <2>4 DEF TokenRows
    <3> QED BY <1>4, <1>5, <3>1
  <2>7. TokenRows'
    <3>1. \A d \in Device : holds'[d] = 0 \/ holds'[d] \in DOMAIN tokens'
      BY <2>1, <2>4, <2>6 DEF TokenRows
    <3>2. \A n \in DOMAIN tokens' : tokens'[n].line <= deeds + Devices
      BY <2>2, <2>3, <2>4, <2>5 DEF TokenRows
    <3>3. Devices' = Devices
      BY DEF Devices, Auth!Cardinality
    <3> QED BY <1>4, <2>4, <2>6, <3>1, <3>2, <3>3 DEF TokenRows
  <2>8. r.line \in tornLines \/ (r.line > ended /\ \A n \in DOMAIN tokens : ~(Auth!Live(n) /\ tokens[n].line = r.line))
    BY <1>4, <1>5 DEF SessionOf, Replaces
  <2>9. tornLines \subseteq tornLines' /\ (refused => r.line \in tornLines')
    BY <1>4
  <2>10. \A n \in DOMAIN tokens : Auth!Live(n)' <=> Auth!Live(n)
    BY <2>4 DEF Auth!Live
  <2>11. OneLive' /\ EndedAreOver'
    <3>1. EndedAreOver'
      BY <1>4, <2>3, <2>4, <2>5, <2>8, <2>9, <2>10 DEF EndedAreOver
    <3>2. ASSUME NEW n \in DOMAIN tokens', NEW m \in DOMAIN tokens', Auth!Live(n)', Auth!Live(m)',
                 tokens'[n].line = tokens'[m].line, tokens'[n].line \notin tornLines'
          PROVE  n = m
      BY <2>3, <2>4, <2>5, <2>8, <2>9, <2>10, <3>2 DEF OneLive
    <3> QED BY <3>1, <3>2 DEF OneLive
  <2>12. ASSUME tornLines' = {}
         PROVE  /\ tornLines = {} /\ ~refused /\ holds'[r.device] = k + 1
                /\ \A d \in Device : d # r.device /\ holds[d] # 0 => tokens[holds[d]].line # r.line
    <3>1. tornLines = {} /\ ~refused
      BY <2>9, <2>12
    <3>2. holds'[r.device] = k + 1
      BY <2>6, <3>1
    <3>3. ASSUME NEW d \in Device, d # r.device, holds[d] # 0 PROVE tokens[holds[d]].line # r.line
      <4>1. holds[d] \in DOMAIN tokens
        BY <3>3 DEF TokenRows
      <4>2. CASE SignsIn(r)
        <5>1. \A n \in DOMAIN tokens : tokens[n].line # r.line
          BY <1>5, <3>1, <4>2 DEF SessionOf
        <5> QED BY <4>1, <5>1
      <4>3. CASE Replaces(r)
        BY <1>5, <3>1, <3>3, <4>3 DEF SessionOf, Replaces
      <4> QED BY <1>5, <4>2, <4>3
    <3> QED BY <3>1, <3>2, <3>3
  <2>13. \A d \in Device : d # r.device /\ holds'[d] # 0 =>
           holds'[d] = holds[d] /\ holds[d] \in DOMAIN tokens /\ tokens'[holds'[d]] = tokens[holds[d]]
    BY <2>4, <2>6 DEF TokenRows
  <2>14. OwnSession'
    <3> SUFFICES ASSUME tornLines' = {}, NEW d \in Device, NEW e \in Device, holds'[d] # 0, holds'[e] # 0,
                        tokens'[holds'[d]].line = tokens'[holds'[e]].line, d # e
                 PROVE  FALSE
      BY DEF OwnSession
    <3>1. CASE d # r.device /\ e # r.device
      BY <2>12, <2>13, <3>1 DEF OwnSession
    <3>2. CASE d = r.device \/ e = r.device
      BY <2>3, <2>4, <2>12, <2>13, <3>2
    <3> QED BY <3>1, <3>2
  <2>15. HeldIsLive'
    <3> SUFFICES ASSUME tornLines' = {}, NEW d \in Device, holds'[d] # 0, tokens'[holds'[d]].end = "revoked"
                 PROVE  \/ tokens'[holds'[d]].line <= ended
                        \/ \E o \in Servant : /\ servant'[o].at = "issue" /\ servant'[o].job = "refresh"
                                              /\ servant'[o].line = tokens'[holds'[d]].line
      BY <1>4 DEF HeldIsLive, BeingReplaced
    <3>1. d # r.device
      BY <2>3, <2>4, <2>12
    <3>2. /\ holds[d] # 0 /\ tokens[holds[d]].end = "revoked" /\ tokens'[holds'[d]].line = tokens[holds[d]].line
          /\ tokens[holds[d]].line # r.line
      BY <2>12, <2>13, <3>1
    <3>3. tokens[holds[d]].line <= ended \/ BeingReplaced(tokens[holds[d]].line)
      BY <2>12, <3>2 DEF HeldIsLive
    <3> QED BY <1>1, <1>6, <3>2, <3>3 DEF BeingReplaced, OthersStay
  <2>16. SessionsOf'
    <3> SUFFICES ASSUME NEW o \in Servant, servant'[o].at # "idle" PROVE SessionOf(servant[o])'
      BY DEF SessionsOf
    <3>1. o # s /\ servant'[o] = servant[o]
      BY <1>6 DEF OthersStay
    <3>2. PICK q : q = servant[o]
      OBVIOUS
    <3>3. q.line \in Nat /\ SessionOf(q) /\ q.at # "idle"
      BY <3>1, <3>2, IdleIsFree DEF SessionsOf, Called
    <3>4. q.line \in tornLines \/ q.line # r.line
      BY <1>1, <1>5, <3>1, <3>2, <3>3 DEF LineOfOne
    <3>5. /\ q.line # 0 /\ q.line <= deeds' + Devices
          /\ q.job \in {"refresh", "logout"} => q.nth \in DOMAIN tokens' /\ tokens'[q.nth].line = q.line
      BY <1>4, <2>4, <3>3 DEF SessionOf
    <3>6. ASSUME q.line \notin tornLines'
          PROVE  /\ SignsIn(q) => q.line > ended' /\ \A n \in DOMAIN tokens' : tokens'[n].line # q.line
                 /\ Replaces(q) => /\ q.line > ended'
                                   /\ \A n \in DOMAIN tokens' : Auth!Live(n)' /\ tokens'[n].line = q.line =>
                                        q.at = "turn" /\ n = q.nth
      BY <1>4, <2>3, <2>4, <2>5, <2>9, <2>10, <3>3, <3>4, <3>6 DEF SessionOf
    <3>7. ASSUME tornLines' = {}
          PROVE  /\ q.job = "refresh" /\ q.at = "endAll" => q.line <= ended'
                 /\ q.job \in {"refresh", "logout"} =>
                      \A d \in Device : holds'[d] # 0 /\ tokens'[holds'[d]].line = q.line => d = q.device
      <4>1. tornLines = {} /\ holds'[r.device] = k + 1 /\ tokens'[k + 1].line = r.line /\ q.line # r.line
        BY <2>3, <2>4, <2>12, <3>4, <3>7
      <4>2. q.job = "refresh" /\ q.at = "endAll" => q.line <= ended
        BY <3>3, <4>1 DEF SessionOf
      <4>3. ASSUME q.job \in {"refresh", "logout"}, NEW d \in Device, holds'[d] # 0, tokens'[holds'[d]].line = q.line
            PROVE  d = q.device
        <5>1. d # r.device
          BY <4>1, <4>3
        <5>2. holds[d] # 0 /\ tokens[holds[d]].line = q.line
          BY <2>13, <4>3, <5>1
        <5> QED BY <3>3, <4>1, <4>3, <5>2 DEF SessionOf
      <4> QED BY <1>4, <4>2, <4>3
    <3>8. SessionOf(q)'
      <4>1. Devices' = Devices
        BY DEF Devices, Auth!Cardinality
      <4> QED BY <3>5, <3>6, <3>7, <4>1 DEF SessionOf, SignsIn, Replaces
    <3> QED BY <3>1, <3>2, <3>8
  <2> QED BY <1>6, <1>7, <2>7, <2>11, <2>14, <2>15, <2>16
<1> QED BY <1>4, <1>8, <1>9

(* A call begins, by its device's token or with a new session.             *)
ByToken(at, job, d, nth) ==
  job \in {"refresh", "logout"} =>
    /\ holds[d] # 0 /\ nth = holds[d]
    /\ job = "refresh" => (at = "turn" /\ Auth!Live(nth)) \/ (at = "endAll" /\ tokens[nth].end = "revoked")
LEMMA SessionsTake ==
  ASSUME SessionsInv, NEW s \in Servant, NEW job, NEW at, NEW d \in Device, NEW nth \in Nat, NEW what,
         Auth!Take(s, job, at, d, nth, what), StepFits(at, job), ByToken(at, job, d, nth)
  PROVE  SessionsInv'
<1> USE DEF SessionsInv
<1>1. deeds \in Nat /\ Devices \in Nat /\ Auth!Cardinality(Device) = Devices
  BY DEF TokenRows, Devices
<1>2. PICK line : line = LineOf(job, nth)
  OBVIOUS
<1>3. /\ job \in {"refresh", "logout"} => nth \in DOMAIN tokens /\ line = tokens[nth].line
      /\ job \notin {"refresh", "logout"} => line = deeds + Devices + 1
  BY <1>1, <1>2 DEF ByToken, LineOf, TokenRows
<1>4. line \in Nat /\ line # 0 /\ line <= deeds + 1 + Devices
  <2>1. CASE job \in {"refresh", "logout"}
    <3>1. tokens[nth] \in Auth!Token /\ tokens[nth].line \in Nat /\ tokens[nth].line <= deeds + Devices
      BY <1>3, <2>1, TokenHasLine DEF TokenRows
    <3>2. tokens[nth].line # 0
      BY <3>1 DEF Auth!Token
    <3> QED BY <1>1, <1>3, <2>1, <3>1, <3>2
  <2>2. CASE job \notin {"refresh", "logout"}
    BY <1>1, <1>3, <2>2
  <2> QED BY <2>1, <2>2
<1>5. /\ Rostered' /\ OthersStay(s) /\ servant[s].at = "idle"
      /\ servant'[s].at = at /\ servant'[s].job = job /\ servant'[s].device = d
      /\ servant'[s].nth = nth /\ servant'[s].line = line
      /\ deeds' = deeds + 1 /\ tokens' = tokens /\ holds' = holds /\ ended' = ended
      /\ tornLines' = IF \E o \in Auth!Busy : servant[o].line = line THEN tornLines \union {line} ELSE tornLines
  BY <1>1, <1>2, <1>4, CallTaken
<1>6. TokensEnd
  BY <1>5 DEF TokensEnd, TokenRows, Auth!Live
<1>7. TokenRows' /\ OneLive' /\ EndedAreOver' /\ OwnSession'
  BY <1>6, TablesStay
<1>8. tornLines \subseteq tornLines'
  BY <1>5
<1>9. \A o \in Servant : o # s /\ servant[o].at # "idle" /\ servant[o].line = line => line \in tornLines'
  BY <1>5 DEF Auth!Busy
<1>10. LineOfOne'
  BY <1>5, <1>8, <1>9 DEF LineOfOne, OthersStay
<1>11. HeldIsLive'
  BY <1>5, <1>8 DEF HeldIsLive, BeingReplaced, OthersStay
<1>12. SessionsOf'
  <2>1. \A o \in Servant : o # s /\ servant'[o].at # "idle" => SessionOf(servant[o])' /\ servant'[o] = servant[o]
    BY <1>5, <1>6, OthersRely
  <2>2. PICK q : q = servant'[s]
    OBVIOUS
  <2>3. q.at = at /\ q.job = job /\ q.device = d /\ q.nth = nth /\ q.line = line
    BY <1>5, <2>2
  <2>4. ASSUME line \notin tornLines'
        PROVE  /\ SignsIn(q) => line > ended /\ \A n \in DOMAIN tokens : tokens[n].line # line
               /\ Replaces(q) => /\ line > ended
                                 /\ \A n \in DOMAIN tokens : Auth!Live(n) /\ tokens[n].line = line =>
                                      at = "turn" /\ n = nth
    <3>1. CASE SignsIn(q)
      <4>1. job \notin {"refresh", "logout"} /\ line = deeds + Devices + 1
        BY <1>3, <2>3, <3>1 DEF SignsIn
      <4>2. \A n \in DOMAIN tokens : tokens[n].line \in Nat /\ tokens[n].line <= deeds + Devices
        BY TokenHasLine DEF TokenRows
      <4> QED BY <1>1, <2>3, <4>1, <4>2 DEF Replaces, TokenRows
    <3>2. CASE Replaces(q)
      <4>1. job = "refresh" /\ at = "turn" /\ Auth!Live(nth) /\ nth \in DOMAIN tokens /\ line = tokens[nth].line
        BY <1>3, <2>3, <3>2 DEF Replaces, ByToken
      <4>2. line \notin tornLines
        BY <1>8, <2>4
      <4> QED BY <2>3, <4>1, <4>2 DEF EndedAreOver, OneLive, SignsIn
    <3> QED BY <3>1, <3>2
  <2>5. ASSUME tornLines' = {}
        PROVE  /\ job = "refresh" /\ at = "endAll" => line <= ended
               /\ job \in {"refresh", "logout"} =>
                    \A e \in Device : holds[e] # 0 /\ tokens[holds[e]].line = line => e = d
    <3>1. tornLines = {} /\ \A o \in Servant : o # s /\ servant[o].at # "idle" => servant[o].line # line
      BY <1>8, <1>9, <2>5
    <3>2. ASSUME job = "refresh", at = "endAll" PROVE line <= ended
      <4>1. holds[d] # 0 /\ nth = holds[d] /\ tokens[nth].end = "revoked" /\ line = tokens[nth].line
        BY <1>3, <3>2 DEF ByToken
      <4>2. line <= ended \/ BeingReplaced(line)
        BY <3>1, <4>1 DEF HeldIsLive
      <4>3. ~BeingReplaced(line)
        BY <1>5, <3>1 DEF BeingReplaced
      <4> QED BY <4>2, <4>3
    <3>3. ASSUME job \in {"refresh", "logout"}, NEW e \in Device, holds[e] # 0, tokens[holds[e]].line = line PROVE e = d
      <4>1. holds[d] # 0 /\ nth = holds[d] /\ line = tokens[nth].line
        BY <1>3, <3>3 DEF ByToken
      <4> QED BY <3>1, <3>3, <4>1 DEF OwnSession
    <3> QED BY <3>2, <3>3
  <2>6. SessionOf(q)'
    <3>1. Devices' = Devices
      BY DEF Devices, Auth!Cardinality
    <3>2. q.line # 0 /\ q.line <= deeds' + Devices
          /\ (q.job \in {"refresh", "logout"} => q.nth \in DOMAIN tokens' /\ tokens'[q.nth].line = q.line)
      BY <1>3, <1>4, <1>5, <2>3
    <3>3. \A n \in DOMAIN tokens : Auth!Live(n)' <=> Auth!Live(n)
      BY <1>5 DEF Auth!Live
    <3> QED BY <1>5, <2>3, <2>4, <2>5, <3>1, <3>2, <3>3 DEF SessionOf, SignsIn, Replaces
  <2> QED BY <2>1, <2>2, <2>6 DEF SessionsOf
<1> QED BY <1>5, <1>7, <1>10, <1>11, <1>12

(* Every call that may begin: which statement is its next, and what it is  *)
(* about.                                                                  *)
ByCode(job, nth, what) ==
  /\ job \in {"register", "code"} => what \in Auth!Purpose
  /\ job \in {"right", "wrong"} =>
       /\ nth \in DOMAIN codes /\ codes[nth].open /\ codes[nth].for = what.for
       /\ what.for \in Auth!Purpose /\ what.tries = codes[nth].tries /\ what.tries < MaxTries
ByRow(at, job, nth, what) ==
  /\ job = "provider" => what \in Provider /\ (at = "link" => Auth!Found) /\ at # "bind"
  /\ job \in {"suspend", "resume"} => Auth!Found
  /\ job \in {"recover", "change", "renew"} => at = "store" /\ nth = deeds + 2 /\ user.status # "none"
CodeRow == [for : Auth!Purpose, open : BOOLEAN, tries : Nat, age : Nat]
CodeRows == codes \in Seq(CodeRow)

LEMMA CodeHasPurpose ==
  ASSUME CodeRows
  PROVE  \A n \in DOMAIN codes : codes[n] \in CodeRow /\ codes[n].for \in Auth!Purpose /\ codes[n].tries \in Nat
<1>1. ASSUME NEW n \in DOMAIN codes PROVE codes[n] \in CodeRow
  BY DEF CodeRows
<1>2. \A c \in CodeRow : c.for \in Auth!Purpose /\ c.tries \in Nat
  BY DEF CodeRow
<1> QED BY <1>1, <1>2

(* The latest code of those that are open.                                 *)
LEMMA LatestCode ==
  ASSUME CodeRows, NEW S \in SUBSET DOMAIN codes, S # {}
  PROVE  \E n \in S : \A m \in S : m <= n
<1>1. PICK k \in Nat : k = Len(codes) /\ DOMAIN codes = 1..k
  BY DEF CodeRows
<1>2. PICK T : T = {i \in 0..k : k - i \in S}
  OBVIOUS
<1>3. \A n \in S : n \in 1..k /\ k - n \in 0..k /\ k - (k - n) = n
  BY <1>1
<1>4. T \subseteq Nat /\ T # {}
  BY <1>2, <1>3
<1>5. PICK i \in T : \A j \in T : i <= j
  BY <1>4, Least
<1>6. k - i \in S
  BY <1>2
<1>7. \A m \in S : m <= k - i
  <2> SUFFICES ASSUME NEW m \in S PROVE m <= k - i
    OBVIOUS
  <2>1. m \in 1..k /\ k - m \in T /\ i \in 0..k
    BY <1>2, <1>3
  <2>2. i <= k - m
    BY <1>5, <2>1
  <2> QED BY <2>1, <2>2
<1> QED BY <1>6, <1>7

BeginsWith(s, job, at, d, nth, what) ==
  /\ Auth!Take(s, job, at, d, nth, what) /\ StepFits(at, job)
  /\ ByToken(at, job, d, nth) /\ ByCode(job, nth, what) /\ ByRow(at, job, nth, what)
Begins(s) ==
  \E job \in {"register", "login", "provider", "refresh", "logout", "code", "right", "wrong", "recover", "change",
              "renew", "suspend", "resume"}, at \in {"create", "void", "issue", "found", "link", "turn", "endAll",
              "drop", "count", "consume", "store", "switch"}, d \in Device, nth \in Nat :
    \E what : BeginsWith(s, job, at, d, nth, what)

LEMMA BeginsSo ==
  ASSUME Auth!AccountsAssumption, Rostered, TokenRows, CodeRows, NEW s \in Servant, Auth!Begin(s)
  PROVE  Begins(s)
<1> USE DEF ByToken, ByCode, ByRow, StepFits
<1>1. Auth!NoDevice \in Device
  BY DEF Auth!AccountsAssumption, Auth!NoDevice
<1>2. ASSUME NEW d \in Device, Auth!Register(s, d) PROVE Begins(s)
  <2>1. BeginsWith(s, "register", "create", d, 0, "verify")
    BY <1>2 DEF Auth!Register, BeginsWith, Auth!Purpose
  <2> QED BY <2>1 DEF Begins
<1>3. ASSUME NEW d \in Device, Auth!Login(s, d) PROVE Begins(s)
  <2>1. BeginsWith(s, "login", "issue", d, 0, "none")
    BY <1>3 DEF Auth!Login, BeginsWith
  <2> QED BY <2>1 DEF Begins
<1>4. ASSUME NEW d \in Device, Auth!Refresh(s, d) PROVE Begins(s)
  <2>1. PICK at \in {"turn", "endAll", "idle"} : at = Auth!NextOfToken(holds[d])
    BY DEF Auth!NextOfToken
  <2>2. BeginsWith(s, "refresh", at, d, holds[d], "none") /\ at # "idle"
    BY <1>4, <2>1 DEF Auth!Refresh, BeginsWith, Auth!NextOfToken, Auth!Live
  <2> QED BY <2>1, <2>2 DEF Begins, TokenRows
<1>5. ASSUME NEW d \in Device, Auth!Logout(s, d) PROVE Begins(s)
  <2>1. BeginsWith(s, "logout", "drop", d, holds[d], "none")
    BY <1>5 DEF Auth!Logout, BeginsWith
  <2> QED BY <2>1 DEF Begins, TokenRows
<1>6. ASSUME NEW d \in Device, NEW p \in Provider, NEW vouched \in BOOLEAN, Auth!ProviderLogin(s, d, p, vouched)
      PROVE  Begins(s)
  <2>1. PICK nth \in Nat : nth = IF vouched THEN 1 ELSE 0
    OBVIOUS
  <2>2. \E at \in {"issue", "link", "found"} : Auth!Take(s, "provider", at, d, nth, p) /\ (at = "link" => Auth!Found)
    BY <1>6, <2>1 DEF Auth!ProviderLogin
  <2>3. PICK at \in {"issue", "link", "found"} : Auth!Take(s, "provider", at, d, nth, p) /\ (at = "link" => Auth!Found)
    BY <2>2
  <2>4. BeginsWith(s, "provider", at, d, nth, p)
    BY <2>3 DEF BeginsWith
  <2> QED BY <2>4 DEF Begins
<1>7. ASSUME NEW purpose \in Auth!Purpose, Auth!AskCode(s, purpose) PROVE Begins(s)
  <2>1. BeginsWith(s, "code", "void", Auth!NoDevice, 0, purpose)
    BY <1>7 DEF Auth!AskCode, BeginsWith
  <2> QED BY <1>1, <2>1 DEF Begins
<1>8. ASSUME NEW purpose \in Auth!Purpose, NEW right \in BOOLEAN, Auth!TryCode(s, purpose, right) PROVE Begins(s)
  <2>1. Auth!OpenCodes(purpose) \subseteq DOMAIN codes /\ Auth!OpenCodes(purpose) # {}
    BY <1>8 DEF Auth!TryCode, Auth!OpenCodes
  <2>2. PICK n : n = CHOOSE k \in Auth!OpenCodes(purpose) : \A m \in Auth!OpenCodes(purpose) : m <= k
    OBVIOUS
  <2>3. n \in Auth!OpenCodes(purpose)
    BY <2>1, <2>2, LatestCode
  <2>4. n \in DOMAIN codes /\ codes[n].for = purpose /\ codes[n].open /\ n \in Nat /\ codes[n].tries \in Nat
    BY <2>3, CodeHasPurpose DEF Auth!OpenCodes, CodeRows
  <2>5. PICK what : what = [for |-> purpose, tries |-> codes[n].tries]
    OBVIOUS
  <2>6. /\ codes[n].tries < MaxTries /\ what.for = purpose /\ what.tries = codes[n].tries
        /\ Auth!Take(s, IF right THEN "right" ELSE "wrong", IF right THEN "consume" ELSE "count", Auth!NoDevice, n, what)
    BY <1>8, <2>2, <2>5 DEF Auth!TryCode
  <2>7. \/ BeginsWith(s, "right", "consume", Auth!NoDevice, n, what)
        \/ BeginsWith(s, "wrong", "count", Auth!NoDevice, n, what)
    BY <2>4, <2>6 DEF BeginsWith
  <2> QED BY <1>1, <2>4, <2>7 DEF Begins
<1>9. ASSUME NEW job \in {"recover", "change", "renew"}, Auth!NewPassword(s, job) PROVE Begins(s)
  <2>0. user.status # "none"
    BY <1>9 DEF Auth!NewPassword, Auth!Found
  <2>1. BeginsWith(s, job, "store", Auth!NoDevice, deeds + 2, "none") /\ deeds + 2 \in Nat
    BY <1>9, <2>0 DEF Auth!NewPassword, BeginsWith, TokenRows
  <2> QED BY <1>1, <2>1 DEF Begins
<1>10. ASSUME NEW job \in {"suspend", "resume"}, Auth!Switch(s, job) PROVE Begins(s)
  <2>1. BeginsWith(s, job, "switch", Auth!NoDevice, 0, "none")
    BY <1>10 DEF Auth!Switch, BeginsWith
  <2> QED BY <1>1, <2>1 DEF Begins
<1> QED BY <1>2, <1>3, <1>4, <1>5, <1>6, <1>7, <1>8, <1>9, <1>10 DEF Auth!Begin

(* Every call that goes on.                                                *)
LEMMA EachMoves ==
  ASSUME Rostered, NEW s \in Servant, Auth!Continue(s) \/ Auth!Halt(s)
  PROVE  /\ Rostered' /\ OthersStay(s) /\ servant[s].at # "idle" /\ deeds' = deeds /\ blurred' = blurred
         /\ \/ servant'[s] = Auth!Free /\ servant'[s].at = "idle"
            \/ /\ SameCall(servant'[s], servant[s]) /\ servant'[s].at # "idle"
               /\ \/ servant'[s].at \notin {"post", "link", "switch", "store", "bind"}
                  \/ servant'[s].at = "post" /\ Auth!Void(s)
                  \/ servant'[s].at = "bind" /\ Auth!Link(s)
<1>1. CASE Auth!Halt(s)
  <2>1. Auth!Leave(s) /\ servant[s].at # "idle" /\ deeds' = deeds /\ blurred' = blurred
    BY <1>1 DEF Auth!Halt
  <2> QED BY <2>1, CallLeaves
<1>2. CASE Auth!Continue(s)
  <2>1. servant[s].at # "idle" /\ deeds' = deeds /\ blurred' = blurred
    BY <1>2 DEF Auth!Continue, Auth!Create, Auth!FoundUser, Auth!Link, Auth!Bind, Auth!Issue, Auth!Turn, Auth!EndAll,
       Auth!Drop, Auth!Void, Auth!Post, Auth!CountTry, Auth!Consume, Auth!Mark, Auth!Store, Auth!Flip
  <2>2. Called(servant[s])
    BY <2>1, IdleIsFree
  <2>3. \/ Auth!Leave(s)
        \/ \E at \in {"void", "issue", "bind", "post", "mark", "endAll"} :
             /\ Auth!Goto(s, at) /\ StepFits(at, servant[s].job)
             /\ at = "post" => Auth!Void(s)
             /\ at = "bind" => Auth!Link(s)
    <3> USE <2>2 DEF Called, StepFits
    <3>1. CASE Auth!Create(s) \/ Auth!FoundUser(s) \/ Auth!Link(s) \/ Auth!Bind(s)
      BY <3>1 DEF Auth!Create, Auth!FoundUser, Auth!Link, Auth!Bind
    <3>2. CASE Auth!Void(s) \/ Auth!Post(s) \/ Auth!CountTry(s)
      BY <3>2 DEF Auth!Void, Auth!Post, Auth!CountTry
    <3>3. CASE Auth!Consume(s) \/ Auth!Mark(s) \/ Auth!Flip(s)
      BY <3>3 DEF Auth!Consume, Auth!Mark, Auth!Flip
    <3>4. CASE Auth!Store(s)
      BY <3>4 DEF Auth!Store, Auth!EndsSessions
    <3>5. CASE Auth!Issue(s) \/ Auth!Turn(s) \/ Auth!EndAll(s) \/ Auth!Drop(s)
      BY <3>5 DEF Auth!Issue, Auth!Turn, Auth!EndAll, Auth!Drop
    <3> QED BY <1>2, <3>1, <3>2, <3>3, <3>4, <3>5 DEF Auth!Continue
  <2>4. CASE Auth!Leave(s)
    BY <2>1, <2>4, CallLeaves
  <2>5. CASE \E at \in {"void", "issue", "bind", "post", "mark", "endAll"} :
               /\ Auth!Goto(s, at) /\ StepFits(at, servant[s].job)
               /\ at = "post" => Auth!Void(s)
               /\ at = "bind" => Auth!Link(s)
    <3>1. PICK at \in {"void", "issue", "bind", "post", "mark", "endAll"} :
               /\ Auth!Goto(s, at) /\ StepFits(at, servant[s].job)
               /\ at = "post" => Auth!Void(s)
               /\ at = "bind" => Auth!Link(s)
      BY <2>5
    <3>2. Rostered' /\ servant'[s].at = at /\ SameCall(servant'[s], servant[s]) /\ OthersStay(s)
      BY <2>1, <3>1, CallMoves
    <3> QED BY <2>1, <3>1, <3>2
  <2> QED BY <2>3, <2>4, <2>5
<1> QED BY <1>1, <1>2

(* While no two calls write codes, of each purpose one is open.            *)
CodeJob(r) == r.job \in {"register", "code", "right", "wrong"}
Open(n) == n \in DOMAIN codes /\ codes[n].open
CodeOf(r) ==
  /\ r.job \in {"register", "code"} => r.what \in Auth!Purpose
  /\ r.job \in {"right", "wrong"} => r.nth \in DOMAIN codes /\ codes[r.nth].for = r.what.for /\ r.what.tries \in Nat
  /\ "codes" \in blurred \/
       /\ r.at = "post" => \A n \in DOMAIN codes : Open(n) => codes[n].for # r.what
       /\ r.job = "wrong" => Open(r.nth)
CodesOf == \A s \in Servant : servant[s].at # "idle" => CodeOf(servant[s])
OneAtCodes ==
  "codes" \in blurred \/ \A s, o \in Servant :
    servant[s].at # "idle" /\ servant[o].at # "idle" /\ CodeJob(servant[s]) /\ CodeJob(servant[o]) => s = o
OneOpen ==
  "codes" \in blurred \/ \A n, m \in DOMAIN codes : Open(n) /\ Open(m) /\ codes[n].for = codes[m].for => n = m
CodesInv == CodeRows /\ CodesOf /\ OneAtCodes /\ OneOpen

LEMMA CodesStart == ASSUME Auth!Init PROVE CodesInv
<1>1. codes = <<>> /\ servant = [s \in Servant |-> Auth!Free]
  BY DEF Auth!Init
<1>2. \A s \in Servant : servant[s].at = "idle"
  BY <1>1 DEF Auth!Free
<1>3. CodeRows /\ DOMAIN codes = {}
  BY <1>1 DEF CodeRows
<1> QED BY <1>2, <1>3 DEF CodesInv, CodesOf, OneAtCodes, OneOpen

(* Codes stay, or only one row is written.                                 *)
LEMMA OthersAtCodes ==
  ASSUME Rostered, CodesInv, NEW s \in Servant, OthersStay(s), blurred' = blurred, servant[s].at # "idle",
         servant'[s].at = "idle" \/ SameCall(servant'[s], servant[s])
  PROVE  OneAtCodes'
BY DEF CodesInv, OneAtCodes, OthersStay, SameCall, CodeJob

LEMMA CodesElsewhere ==
  ASSUME Rostered, CodesInv, NEW s \in Servant, Auth!Continue(s) \/ Auth!Halt(s), codes' = codes, ~Auth!Void(s)
  PROVE  CodesInv'
<1> USE DEF CodesInv
<1>1. /\ OthersStay(s) /\ servant[s].at # "idle" /\ blurred' = blurred
      /\ \/ servant'[s].at = "idle"
         \/ SameCall(servant'[s], servant[s]) /\ servant'[s].at # "post"
  BY EachMoves
<1>2. CodeRows' /\ OneOpen'
  BY <1>1 DEF CodeRows, OneOpen, Open
<1>3. OneAtCodes'
  BY <1>1, OthersAtCodes
<1>4. CodesOf'
  BY <1>1 DEF CodesOf, CodeOf, Open, SameCall, OthersStay
<1> QED BY <1>2, <1>3, <1>4

LEMMA CodesBegin ==
  ASSUME Rostered, TokenRows, CodesInv, NEW s \in Servant, Begins(s)
  PROVE  CodesInv'
<1> USE DEF CodesInv
<1>1. PICK job \in {"register", "login", "provider", "refresh", "logout", "code", "right", "wrong", "recover", "change",
                    "renew", "suspend", "resume"}, at \in {"create", "void", "issue", "found", "link", "turn", "endAll",
                    "drop", "count", "consume", "store", "switch"}, d \in Device, nth \in Nat :
             \E what : BeginsWith(s, job, at, d, nth, what)
  BY DEF Begins
<1>2. PICK what : BeginsWith(s, job, at, d, nth, what)
  BY <1>1
<1>3. Auth!Take(s, job, at, d, nth, what) /\ StepFits(at, job) /\ ByToken(at, job, d, nth) /\ ByCode(job, nth, what)
  BY <1>2 DEF BeginsWith
<1>4. deeds \in Nat /\ Auth!Cardinality(Device) \in Nat /\ LineOf(job, nth) \in Nat
  <2>1. deeds \in Nat /\ Auth!Cardinality(Device) \in Nat
    BY DEF TokenRows, Devices
  <2>2. job \in {"refresh", "logout"} => tokens[nth].line \in Nat
    BY <1>3, TokenHasLine DEF ByToken, TokenRows
  <2> QED BY <2>1, <2>2 DEF LineOf
<1>5. /\ OthersStay(s) /\ servant[s].at = "idle" /\ servant'[s].at = at /\ servant'[s].job = job
      /\ servant'[s].nth = nth /\ servant'[s].what = what /\ codes' = codes
      /\ blurred' = blurred \union UNION {Auth!Touches(job) \intersect Auth!Touches(servant[o].job) : o \in Auth!Busy}
  BY <1>3, <1>4, CallTaken
<1>6. blurred \subseteq blurred'
  BY <1>5
<1>7. ASSUME job \in {"register", "code", "right", "wrong"}, NEW o \in Servant, servant[o].at # "idle", CodeJob(servant[o])
      PROVE  "codes" \in blurred'
  <2>1. o \in Auth!Busy
    BY <1>7 DEF Auth!Busy
  <2>2. "codes" \in Auth!Touches(job) /\ "codes" \in Auth!Touches(servant[o].job)
    BY <1>7 DEF Auth!Touches, CodeJob
  <2> QED BY <1>5, <2>1, <2>2
<1>8. CodeRows' /\ OneOpen'
  BY <1>5, <1>6 DEF CodeRows, OneOpen, Open
<1>9. OneAtCodes'
  BY <1>5, <1>6, <1>7 DEF OneAtCodes, OthersStay, CodeJob
<1>10. CodesOf'
  <2>1. ASSUME NEW o \in Servant, o # s, servant'[o].at # "idle" PROVE CodeOf(servant[o])'
    BY <1>5, <1>6, <2>1 DEF CodesOf, CodeOf, Open, OthersStay
  <2>2. CodeOf(servant[s])'
    <3>1. PICK q : q = servant'[s]
      OBVIOUS
    <3>2. q.at = at /\ q.job = job /\ q.nth = nth /\ q.what = what
      BY <1>5, <3>1
    <3>3. CodeOf(q)'
      BY <1>3, <1>5, <3>2, CodeHasPurpose DEF CodeOf, ByCode, Open
    <3> QED BY <3>1, <3>3
  <2> QED BY <2>1, <2>2 DEF CodesOf
<1> QED BY <1>8, <1>9, <1>10

(* Codes are rewritten: whether each is open, and how often it was tried.  *)
LEMMA CodesRewritten ==
  ASSUME CodeRows, NEW f, f \in [DOMAIN codes -> CodeRow], codes' = f
  PROVE  CodeRows' /\ DOMAIN codes' = DOMAIN codes
<1>1. DOMAIN codes = 1..Len(codes) /\ Len(codes) \in Nat
  BY DEF CodeRows
<1> QED BY <1>1 DEF CodeRows

LEMMA CodesVoid ==
  ASSUME Rostered, CodesInv, NEW s \in Servant, Auth!Void(s)
  PROVE  CodesInv'
<1> USE DEF CodesInv
<1>1. /\ OthersStay(s) /\ servant[s].at # "idle" /\ blurred' = blurred
      /\ servant'[s].at = "idle" \/ SameCall(servant'[s], servant[s])
  BY EachMoves DEF Auth!Continue
<1>2. PICK r : r = servant[s]
  OBVIOUS
<1>3. r.job \in {"register", "code"} /\ CodeJob(r) /\ r.at = "void"
  BY <1>1, <1>2, IdleIsFree DEF Called, StepFits, CodeJob, Auth!Void
<1>4. codes' = [n \in 1..Len(codes) |->
                  IF codes[n].for = r.what THEN [codes[n] EXCEPT !.open = FALSE] ELSE codes[n]]
  BY <1>2 DEF Auth!Void
<1>5. DOMAIN codes = 1..Len(codes)
  BY DEF CodeRows
<1>6. \A c \in CodeRow : LET v == [c EXCEPT !.open = FALSE] IN v \in CodeRow /\ ~v.open /\ v.for = c.for
  BY DEF CodeRow
<1>7. CodeRows' /\ DOMAIN codes' = DOMAIN codes
  <2>1. codes' \in [DOMAIN codes -> CodeRow]
    BY <1>4, <1>5, <1>6, CodeHasPurpose
  <2> QED BY <2>1, CodesRewritten
<1>8. \A n \in DOMAIN codes : /\ codes'[n].for = codes[n].for /\ (codes[n].for = r.what => ~codes'[n].open)
                              /\ (codes[n].for # r.what => codes'[n] = codes[n])
  BY <1>4, <1>5, <1>6, CodeHasPurpose
<1>9. \A n : Open(n)' => Open(n) /\ codes[n].for # r.what
  BY <1>7, <1>8 DEF Open
<1>10. OneOpen'
  BY <1>1, <1>7, <1>8, <1>9 DEF OneOpen
<1>11. OneAtCodes'
  BY <1>1, OthersAtCodes
<1>12. CodesOf'
  <2>1. ASSUME NEW o \in Servant, o # s, servant'[o].at # "idle" PROVE CodeOf(servant[o])'
    <3>1. PICK q : q = servant[o] /\ q = servant'[o]
      BY <1>1, <2>1 DEF OthersStay
    <3>2. CodeOf(q) /\ ("codes" \in blurred \/ ~CodeJob(q)) /\ Called(q)
      BY <1>1, <1>2, <1>3, <2>1, <3>1, IdleIsFree DEF CodesOf, OneAtCodes
    <3>3. CodeOf(q)'
      BY <1>1, <1>7, <1>8, <3>2 DEF CodeOf, CodeJob, Called, StepFits
    <3> QED BY <3>1, <3>3
  <2>2. ASSUME servant'[s].at # "idle" PROVE CodeOf(servant[s])'
    <3>1. PICK q : q = servant'[s]
      OBVIOUS
    <3>2. SameCall(q, r) /\ CodeOf(r)
      BY <1>1, <1>2, <2>2, <3>1 DEF CodesOf, Auth!Void, Auth!Goto, Auth!Free
    <3>3. CodeOf(q)'
      BY <1>1, <1>3, <1>7, <1>8, <1>9, <3>2 DEF CodeOf, SameCall
    <3> QED BY <3>1, <3>3
  <2> QED BY <2>1, <2>2 DEF CodesOf
<1> QED BY <1>7, <1>10, <1>11, <1>12

LEMMA CodesPost ==
  ASSUME Rostered, CodesInv, NEW s \in Servant, Auth!Post(s)
  PROVE  CodesInv'
<1> USE DEF CodesInv
<1>1. /\ OthersStay(s) /\ servant[s].at # "idle" /\ blurred' = blurred
      /\ servant'[s].at = "idle" \/ (SameCall(servant'[s], servant[s]) /\ servant'[s].at # "post")
  BY EachMoves DEF Auth!Continue, Auth!Post, Auth!Void
<1>2. PICK r : r = servant[s]
  OBVIOUS
<1>3. r.job \in {"register", "code"} /\ CodeJob(r) /\ r.at = "post" /\ CodeOf(r)
  BY <1>1, <1>2, IdleIsFree DEF Called, StepFits, CodeJob, Auth!Post, CodesOf
<1>4. PICK c : c = [for |-> r.what, open |-> TRUE, tries |-> 0, age |-> 0]
  OBVIOUS
<1>5. c \in CodeRow /\ c.for = r.what
  BY <1>3, <1>4 DEF CodeRow, CodeOf
<1>6. codes' = Append(codes, c)
  BY <1>2, <1>4 DEF Auth!Post
<1>7. PICK k \in Nat : k = Len(codes)
  BY DEF CodeRows
<1>8. /\ CodeRows' /\ DOMAIN codes = 1..k /\ DOMAIN codes' = 1..(k + 1)
      /\ codes'[k + 1] = c /\ \A n \in 1..k : codes'[n] = codes[n]
  BY <1>5, <1>6, <1>7 DEF CodeRows
<1>9. \A n \in DOMAIN codes : codes'[n] = codes[n] /\ n # k + 1 /\ n \in DOMAIN codes'
  BY <1>8
<1>10. \A n \in DOMAIN codes' : n = k + 1 \/ n \in DOMAIN codes
  BY <1>8
<1>11. OneOpen'
  <2> SUFFICES ASSUME "codes" \notin blurred, NEW n \in DOMAIN codes', NEW m \in DOMAIN codes', Open(n)', Open(m)',
                      codes'[n].for = codes'[m].for
               PROVE  n = m
    BY <1>1 DEF OneOpen
  <2>1. \A i \in DOMAIN codes : Open(i)' => Open(i)
    BY <1>9 DEF Open
  <2>2. \A i \in DOMAIN codes : Open(i) => codes[i].for # r.what
    BY <1>3 DEF CodeOf
  <2> QED BY <1>5, <1>8, <1>9, <1>10, <2>1, <2>2 DEF OneOpen
<1>12. OneAtCodes'
  BY <1>1, OthersAtCodes
<1>13. CodesOf'
  <2>1. ASSUME NEW o \in Servant, o # s, servant'[o].at # "idle" PROVE CodeOf(servant[o])'
    <3>1. PICK q : q = servant[o] /\ q = servant'[o]
      BY <1>1, <2>1 DEF OthersStay
    <3>2. CodeOf(q) /\ ("codes" \in blurred \/ ~CodeJob(q)) /\ Called(q)
      BY <1>1, <1>2, <1>3, <2>1, <3>1, IdleIsFree DEF CodesOf, OneAtCodes
    <3>3. CodeOf(q)'
      BY <1>1, <1>9, <3>2 DEF CodeOf, CodeJob, Called, StepFits
    <3> QED BY <3>1, <3>3
  <2>2. ASSUME servant'[s].at # "idle" PROVE CodeOf(servant[s])'
    <3>1. PICK q : q = servant'[s]
      OBVIOUS
    <3>2. CodeOf(q)'
      BY <1>1, <1>2, <1>3, <2>2, <3>1 DEF CodeOf, SameCall
    <3> QED BY <3>1, <3>2
  <2> QED BY <2>1, <2>2 DEF CodesOf
<1> QED BY <1>8, <1>11, <1>12, <1>13

(* consumeOtp: a wrong code is saved as it was read, open; a right one is  *)
(* consumed.                                                               *)
LEMMA CodesTried ==
  ASSUME Rostered, CodesInv, NEW s \in Servant, Auth!CountTry(s) \/ Auth!Consume(s)
  PROVE  CodesInv'
<1> USE DEF CodesInv
<1>1. /\ OthersStay(s) /\ servant[s].at # "idle" /\ blurred' = blurred
      /\ servant'[s].at = "idle" \/ (SameCall(servant'[s], servant[s]) /\ servant'[s].at # "post")
  BY EachMoves DEF Auth!Continue, Auth!CountTry, Auth!Consume, Auth!Void
<1>2. PICK r : r = servant[s]
  OBVIOUS
<1>3. /\ r.job \in {"right", "wrong"} /\ CodeJob(r) /\ CodeOf(r)
      /\ Auth!CountTry(s) => r.job = "wrong" /\ servant'[s].at = "idle"
  BY <1>1, <1>2, IdleIsFree, CallLeaves DEF Called, StepFits, CodeJob, Auth!CountTry, Auth!Consume, CodesOf
<1>4. r.nth \in DOMAIN codes /\ r.what.tries \in Nat /\ codes[r.nth] \in CodeRow
  BY <1>3, CodeHasPurpose DEF CodeOf
<1>5. \E c \in CodeRow : /\ codes' = [codes EXCEPT ![r.nth] = c] /\ c.for = codes[r.nth].for
                         /\ c.open => Auth!CountTry(s)
  <2>1. CASE Auth!CountTry(s)
    <3>1. PICK c : c = [codes[r.nth] EXCEPT !.tries = r.what.tries + 1, !.open = TRUE]
      OBVIOUS
    <3>2. codes' = [codes EXCEPT ![r.nth] = c]
      <4>1. codes' = [codes EXCEPT ![r.nth].tries = r.what.tries + 1, ![r.nth].open = TRUE]
        BY <1>2, <2>1 DEF Auth!CountTry
      <4> QED BY <1>4, <3>1, <4>1 DEF CodeRows
    <3>3. c \in CodeRow /\ c.for = codes[r.nth].for
      <4>1. PICK b, t : b = codes[r.nth] /\ t = r.what.tries + 1
        OBVIOUS
      <4>2. b \in CodeRow /\ t \in Nat /\ c = [b EXCEPT !.tries = t, !.open = TRUE]
        BY <1>4, <3>1, <4>1
      <4>3. c \in CodeRow /\ c.for = b.for
        BY <4>2 DEF CodeRow
      <4> QED BY <4>1, <4>3
    <3> QED BY <2>1, <3>2, <3>3
  <2>2. CASE Auth!Consume(s)
    <3>1. PICK c : c = [codes[r.nth] EXCEPT !.open = FALSE]
      OBVIOUS
    <3>2. codes' = [codes EXCEPT ![r.nth] = c]
      BY <1>2, <2>2, <3>1 DEF Auth!Consume
    <3>3. c \in CodeRow /\ c.for = codes[r.nth].for /\ ~c.open
      BY <1>4, <3>1 DEF CodeRow
    <3> QED BY <3>2, <3>3
  <2> QED BY <2>1, <2>2
<1>6. PICK c \in CodeRow : /\ codes' = [codes EXCEPT ![r.nth] = c] /\ c.for = codes[r.nth].for
                           /\ c.open => Auth!CountTry(s)
  BY <1>5
<1>7. /\ CodeRows' /\ DOMAIN codes' = DOMAIN codes /\ codes'[r.nth] = c
      /\ \A n \in DOMAIN codes : n # r.nth => codes'[n] = codes[n]
  BY <1>4, <1>6 DEF CodeRows
<1>8. \A n \in DOMAIN codes : codes'[n].for = codes[n].for
  BY <1>6, <1>7
<1>9. "codes" \in blurred \/ \A n : Open(n)' => Open(n)
  <2> SUFFICES ASSUME "codes" \notin blurred, NEW n, Open(n)' PROVE Open(n)
    OBVIOUS
  <2>1. CASE n = r.nth
    BY <1>3, <1>6, <1>7, <2>1 DEF Open, CodeOf
  <2>2. CASE n # r.nth
    BY <1>7, <2>2 DEF Open
  <2> QED BY <2>1, <2>2
<1>10. OneOpen'
  BY <1>1, <1>7, <1>8, <1>9 DEF OneOpen
<1>11. OneAtCodes'
  BY <1>1, OthersAtCodes
<1>12. CodesOf'
  <2>1. ASSUME NEW o \in Servant, o # s, servant'[o].at # "idle" PROVE CodeOf(servant[o])'
    <3>1. PICK q : q = servant[o] /\ q = servant'[o]
      BY <1>1, <2>1 DEF OthersStay
    <3>2. CodeOf(q) /\ ("codes" \in blurred \/ ~CodeJob(q)) /\ Called(q)
      BY <1>1, <1>2, <1>3, <2>1, <3>1, IdleIsFree DEF CodesOf, OneAtCodes
    <3>3. CodeOf(q)'
      BY <1>1, <1>7, <1>8, <3>2 DEF CodeOf, CodeJob, Called, StepFits
    <3> QED BY <3>1, <3>3
  <2>2. ASSUME servant'[s].at # "idle" PROVE CodeOf(servant[s])'
    <3>1. PICK q : q = servant'[s]
      OBVIOUS
    <3>2. r.job = "right"
      BY <1>1, <1>2, <1>3, <2>2, IdleIsFree DEF Called, StepFits, Auth!Consume
    <3>3. CodeOf(q)'
      BY <1>1, <1>2, <1>3, <1>7, <1>8, <2>2, <3>1, <3>2 DEF CodeOf, SameCall
    <3> QED BY <3>1, <3>3
  <2> QED BY <2>1, <2>2 DEF CodesOf
<1> QED BY <1>7, <1>10, <1>11, <1>12

LEMMA CodesOlder ==
  ASSUME Rostered, CodesInv, Auth!Older
  PROVE  CodesInv'
<1> USE DEF CodesInv
<1>1. /\ codes' = [n \in 1..Len(codes) |-> [codes[n] EXCEPT !.age = IF codes[n].open /\ @ < 2 THEN @ + 1 ELSE @]]
      /\ servant' = servant /\ blurred' = blurred
  BY DEF Auth!Older
<1>2. DOMAIN codes = 1..Len(codes)
  BY DEF CodeRows
<1>3. \A n \in DOMAIN codes : codes'[n] \in CodeRow /\ codes'[n].for = codes[n].for /\ codes'[n].open = codes[n].open
  <2> SUFFICES ASSUME NEW n \in DOMAIN codes
               PROVE  codes'[n] \in CodeRow /\ codes'[n].for = codes[n].for /\ codes'[n].open = codes[n].open
    OBVIOUS
  <2>1. PICK c, a : c = codes[n] /\ a = IF c.open /\ c.age < 2 THEN c.age + 1 ELSE c.age
    OBVIOUS
  <2>2. c \in CodeRow
    BY <2>1, CodeHasPurpose
  <2>3. a \in Nat
    BY <2>1, <2>2 DEF CodeRow
  <2>4. codes'[n] = [c EXCEPT !.age = a]
    BY <1>1, <1>2, <2>1
  <2>5. [c EXCEPT !.age = a] \in CodeRow /\ [c EXCEPT !.age = a].for = c.for /\ [c EXCEPT !.age = a].open = c.open
    BY <2>2, <2>3 DEF CodeRow
  <2> QED BY <2>1, <2>4, <2>5
<1>4. CodeRows' /\ DOMAIN codes' = DOMAIN codes
  <2>1. codes' \in [DOMAIN codes -> CodeRow]
    BY <1>1, <1>2, <1>3
  <2> QED BY <2>1, CodesRewritten
<1>5. \A n : Open(n)' <=> Open(n)
  BY <1>3, <1>4 DEF Open
<1>6. OneOpen' /\ OneAtCodes'
  BY <1>1, <1>3, <1>4, <1>5 DEF OneOpen, OneAtCodes
<1>7. CodesOf'
  <2> SUFFICES ASSUME NEW o \in Servant, servant'[o].at # "idle" PROVE CodeOf(servant[o])'
    BY DEF CodesOf
  <2>1. PICK q : q = servant[o] /\ q = servant'[o]
    BY <1>1
  <2>2. CodeOf(q)
    BY <2>1 DEF CodesOf
  <2>3. CodeOf(q)'
    BY <1>1, <1>3, <1>4, <1>5, <2>2 DEF CodeOf
  <2> QED BY <2>1, <2>3
<1> QED BY <1>4, <1>6, <1>7

(* While no two calls write the user's row, what one read of it is so.     *)
RowJob(r) == r.job \in {"provider", "suspend", "resume", "recover", "change", "renew", "right", "wrong"}
RowOf(r) ==
  /\ r.job = "provider" => r.what \in Provider
  /\ r.at \in {"link", "bind", "switch", "store"} => user.status # "none"
  /\ r.at \in {"link", "switch"} => r.row \in Auth!User /\ r.row.status # "none"
  /\ "row" \in blurred \/
       /\ r.at \in {"link", "switch"} =>
            r.row.verified = user.verified /\ r.row.password = user.password /\ r.row.ways = user.ways
       /\ r.at = "bind" => r.what \in user.ways
       /\ r.at = "store" => user.password <= r.nth /\ r.nth <= deeds + 1
RowsOf == \A s \in Servant : servant[s].at # "idle" => RowOf(servant[s])
OneAtRow ==
  "row" \in blurred \/ \A s, o \in Servant :
    servant[s].at # "idle" /\ servant[o].at # "idle" /\ RowJob(servant[s]) /\ RowJob(servant[o]) => s = o
UserRow ==
  /\ user \in Auth!User /\ links \subseteq Provider /\ (user.status = "none" => links = {})
  /\ "row" \in blurred \/ (links \subseteq user.ways /\ user.password <= deeds + 1)
RowsInv == UserRow /\ RowsOf /\ OneAtRow

LEMMA RowsStart == ASSUME Auth!Init PROVE RowsInv
<1>1. servant = [s \in Servant |-> Auth!Free] /\ links = {} /\ deeds = 0
  BY DEF Auth!Init
<1>2. \A s \in Servant : servant[s].at = "idle"
  BY <1>1 DEF Auth!Free
<1>3. user \in Auth!User /\ user.password \in {0, 1}
  <2>1. PICK st \in {"none", "active"}, pw \in {0, 1}, ways \in SUBSET {"email"} :
          user = [status |-> st, password |-> pw, verified |-> FALSE, ways |-> ways]
    BY DEF Auth!Init, Auth!Nobody
  <2> QED BY <2>1 DEF Auth!User
<1> QED BY <1>1, <1>2, <1>3 DEF RowsInv, RowsOf, OneAtRow, UserRow

LEMMA OthersAtRow ==
  ASSUME Rostered, RowsInv, NEW s \in Servant, OthersStay(s), blurred' = blurred, servant[s].at # "idle",
         servant'[s].at = "idle" \/ SameCall(servant'[s], servant[s])
  PROVE  OneAtRow'
BY DEF RowsInv, OneAtRow, OthersStay, SameCall, RowJob

LEMMA RowsBegin ==
  ASSUME Rostered, TokenRows, RowsInv, NEW s \in Servant, Begins(s)
  PROVE  RowsInv' /\ user' = user /\ blurred \subseteq blurred'
<1> USE DEF RowsInv
<1>1. PICK job \in {"register", "login", "provider", "refresh", "logout", "code", "right", "wrong", "recover", "change",
                    "renew", "suspend", "resume"}, at \in {"create", "void", "issue", "found", "link", "turn", "endAll",
                    "drop", "count", "consume", "store", "switch"}, d \in Device, nth \in Nat :
             \E what : BeginsWith(s, job, at, d, nth, what)
  BY DEF Begins
<1>2. PICK what : BeginsWith(s, job, at, d, nth, what)
  BY <1>1
<1>3. Auth!Take(s, job, at, d, nth, what) /\ StepFits(at, job) /\ ByToken(at, job, d, nth) /\ ByRow(at, job, nth, what)
  BY <1>2 DEF BeginsWith
<1>4. deeds \in Nat /\ Auth!Cardinality(Device) \in Nat /\ LineOf(job, nth) \in Nat
  <2>1. deeds \in Nat /\ Auth!Cardinality(Device) \in Nat
    BY DEF TokenRows, Devices
  <2>2. job \in {"refresh", "logout"} => tokens[nth].line \in Nat
    BY <1>3, TokenHasLine DEF ByToken, TokenRows
  <2> QED BY <2>1, <2>2 DEF LineOf
<1>5. /\ OthersStay(s) /\ servant[s].at = "idle" /\ servant'[s].at = at /\ servant'[s].job = job
      /\ servant'[s].nth = nth /\ servant'[s].what = what /\ user' = user /\ links' = links /\ deeds' = deeds + 1
      /\ job \in {"provider", "suspend", "resume"} => servant'[s].row = user
      /\ blurred' = blurred \union UNION {Auth!Touches(job) \intersect Auth!Touches(servant[o].job) : o \in Auth!Busy}
  BY <1>3, <1>4, CallTaken
<1>6. blurred \subseteq blurred'
  BY <1>5
<1>7. ASSUME job \in {"provider", "suspend", "resume", "recover", "change", "renew", "right", "wrong"},
             NEW o \in Servant, servant[o].at # "idle", RowJob(servant[o])
      PROVE  "row" \in blurred'
  <2>1. o \in Auth!Busy
    BY <1>7 DEF Auth!Busy
  <2>2. "row" \in Auth!Touches(job) /\ "row" \in Auth!Touches(servant[o].job)
    BY <1>7 DEF Auth!Touches, RowJob
  <2> QED BY <1>5, <2>1, <2>2
<1>8. user.password \in Nat
  BY DEF UserRow, Auth!User
<1>9. UserRow'
  BY <1>4, <1>5, <1>6, <1>8 DEF UserRow
<1>10. OneAtRow'
  BY <1>5, <1>6, <1>7 DEF OneAtRow, OthersStay, RowJob
<1>11. RowsOf'
  <2>1. ASSUME NEW o \in Servant, o # s, servant'[o].at # "idle" PROVE RowOf(servant[o])'
    <3>1. PICK q : q = servant[o] /\ q = servant'[o]
      BY <1>5, <2>1 DEF OthersStay
    <3>2. RowOf(q) /\ q.nth \in Nat
      BY <2>1, <3>1, IdleIsFree DEF RowsOf, Called
    <3>3. RowOf(q)'
      BY <1>4, <1>5, <1>6, <3>2 DEF RowOf
    <3> QED BY <3>1, <3>3
  <2>2. RowOf(servant[s])'
    <3>1. PICK q : q = servant'[s]
      OBVIOUS
    <3>2. q.at = at /\ q.job = job /\ q.nth = nth /\ q.what = what
          /\ (job \in {"provider", "suspend", "resume"} => q.row = user)
      BY <1>5, <3>1
    <3>3. job = "provider" => q.what \in Provider
      BY <1>3, <3>2 DEF ByRow
    <3>4. at # "bind" /\ (at = "link" => job = "provider") /\ (at = "switch" => job \in {"suspend", "resume"})
          /\ (at = "store" => job \in {"recover", "change", "renew"})
      BY <1>3 DEF ByRow, StepFits
    <3>5. at \in {"link", "switch", "store"} => user.status # "none"
      BY <1>3, <3>4 DEF ByRow, Auth!Found
    <3>6. at \in {"link", "switch"} => q.row = user /\ user \in Auth!User
      BY <3>2, <3>4 DEF UserRow
    <3>7. ASSUME "row" \notin blurred', at = "store" PROVE user.password <= nth /\ nth <= deeds + 1 + 1
      <4>1. user.password <= deeds + 1 /\ nth = deeds + 2
        BY <1>3, <1>6, <3>4, <3>7 DEF UserRow, ByRow
      <4> QED BY <1>4, <1>8, <4>1
    <3>8. RowOf(q)'
      BY <1>4, <1>5, <3>2, <3>3, <3>4, <3>5, <3>6, <3>7 DEF RowOf
    <3> QED BY <3>1, <3>8
  <2> QED BY <2>1, <2>2 DEF RowsOf
<1> QED BY <1>5, <1>6, <1>9, <1>10, <1>11

(* The row stays, or only a delete marks it.                               *)
LEMMA RowsElsewhere ==
  ASSUME Rostered, RowsInv, NEW s \in Servant, Auth!Continue(s) \/ Auth!Halt(s), user' = user, links' = links,
         ~Auth!Link(s)
  PROVE  RowsInv'
<1> USE DEF RowsInv
<1>1. /\ OthersStay(s) /\ servant[s].at # "idle" /\ blurred' = blurred /\ deeds' = deeds
      /\ \/ servant'[s].at = "idle"
         \/ SameCall(servant'[s], servant[s]) /\ servant'[s].at \notin {"link", "switch", "store", "bind"}
  BY EachMoves
<1>2. UserRow' /\ OneAtRow'
  BY <1>1, OthersAtRow DEF UserRow
<1>3. RowsOf'
  <2>1. ASSUME NEW o \in Servant, o # s, servant'[o].at # "idle" PROVE RowOf(servant[o])'
    BY <1>1, <2>1 DEF RowsOf, RowOf, OthersStay
  <2>2. ASSUME servant'[s].at # "idle" PROVE RowOf(servant[s])'
    BY <1>1, <2>2 DEF RowsOf, RowOf, SameCall
  <2> QED BY <2>1, <2>2 DEF RowsOf
<1> QED BY <1>2, <1>3

LEMMA UserWritten ==
  ASSUME Rostered, RowsInv, NEW s \in Servant, Auth!Continue(s), UserRow',
         RowJob(servant[s]) \/ user.status = "none", user.status # "none" => user'.status # "none",
         \A q : q = servant'[s] /\ q.at # "idle" => RowOf(q)'
  PROVE  RowsInv'
<1> USE DEF RowsInv
<1>1. /\ OthersStay(s) /\ servant[s].at # "idle" /\ blurred' = blurred /\ deeds' = deeds
      /\ servant'[s].at = "idle" \/ SameCall(servant'[s], servant[s])
  BY EachMoves
<1>2. OneAtRow'
  BY <1>1, OthersAtRow
<1>3. RowsOf'
  <2>1. ASSUME NEW o \in Servant, o # s, servant'[o].at # "idle" PROVE RowOf(servant[o])'
    <3>1. PICK q : q = servant[o] /\ q = servant'[o]
      BY <1>1, <2>1 DEF OthersStay
    <3>2. /\ RowOf(q) /\ Called(q)
          /\ q.at \in {"link", "bind", "switch", "store"} => RowJob(q) /\ user.status # "none"
      <4>1. RowOf(q) /\ Called(q)
        BY <1>1, <2>1, <3>1, IdleIsFree DEF RowsOf
      <4>2. q.at \in {"link", "bind", "switch", "store"} => RowJob(q)
        BY <4>1 DEF Called, StepFits, RowJob
      <4> QED BY <4>1, <4>2 DEF RowOf
    <3>3. q.at \in {"link", "bind", "switch", "store"} => "row" \in blurred
      BY <1>1, <2>1, <3>1, <3>2 DEF OneAtRow
    <3>4. RowOf(q)'
      BY <1>1, <3>2, <3>3 DEF RowOf
    <3> QED BY <3>1, <3>4
  <2>2. ASSUME servant'[s].at # "idle" PROVE RowOf(servant[s])'
    <3>1. PICK q : q = servant'[s]
      OBVIOUS
    <3>2. RowOf(q)'
      BY <2>2, <3>1
    <3> QED BY <3>1, <3>2
  <2> QED BY <2>1, <2>2 DEF RowsOf
<1> QED BY <1>2, <1>3

(* What each statement does to the row; a verified address stays verified  *)
(* and a replaced password replaced.                                       *)
Keeps ==
  "row" \notin blurred /\ user.status # "none" =>
    (user.verified => user'.verified) /\ user'.password >= user.password
LEMMA RowsWritten ==
  ASSUME Rostered, RowsInv, NEW s \in Servant, deeds \in Nat,
         Auth!Create(s) \/ Auth!FoundUser(s) \/ Auth!Link(s) \/ Auth!Bind(s) \/ Auth!Mark(s) \/ Auth!Store(s) \/ Auth!Flip(s)
  PROVE  RowsInv' /\ Keeps
<1> USE DEF RowsInv
<1>1. Auth!Continue(s)
  BY DEF Auth!Continue
<1>2. /\ OthersStay(s) /\ servant[s].at # "idle" /\ blurred' = blurred /\ deeds' = deeds
      /\ \/ servant'[s].at = "idle"
         \/ /\ SameCall(servant'[s], servant[s])
            /\ servant'[s].at \notin {"link", "switch", "store"} /\ (servant'[s].at = "bind" => Auth!Link(s))
  BY <1>1, EachMoves DEF Auth!Create, Auth!FoundUser, Auth!Link, Auth!Bind, Auth!Mark, Auth!Store, Auth!Flip, Auth!Void
<1>3. PICK r : r = servant[s]
  OBVIOUS
<1>4. Called(r) /\ RowOf(r) /\ r.at # "idle"
  BY <1>2, <1>3, IdleIsFree DEF RowsOf
<1>5. PICK u : u = user
  OBVIOUS
<1>6. /\ u \in Auth!User /\ links \subseteq Provider /\ (u.status = "none" => links = {})
      /\ "row" \in blurred \/ (links \subseteq u.ways /\ u.password <= deeds + 1)
      /\ u.password \in Nat /\ u.verified \in BOOLEAN
  <2>1. \A x \in Auth!User : x.password \in Nat /\ x.verified \in BOOLEAN
    BY DEF Auth!User
  <2> QED BY <1>5, <2>1 DEF UserRow
<1>7. ASSUME ~Auth!Link(s), servant'[s].at # "idle" PROVE \A q : q = servant'[s] => RowOf(q)'
  BY <1>2, <1>3, <1>4, <1>7 DEF RowOf, SameCall
<1>8. ASSUME Auth!Create(s) PROVE RowsInv' /\ Keeps
  <2>1. user.status # "none" => user' = user /\ links' = links
    BY <1>8 DEF Auth!Create
  <2>2. CASE user.status # "none"
    <3>1. RowsInv'
      BY <1>1, <1>8, <2>1, <2>2, RowsElsewhere DEF Auth!Create, Auth!Link
    <3> QED BY <1>5, <1>6, <2>1, <2>2, <3>1 DEF Keeps
  <2>3. CASE user.status = "none"
    <3>1. user' = [status |-> "active", password |-> 1, verified |-> FALSE, ways |-> {"email"}] /\ links' = links
      BY <1>8, <2>3 DEF Auth!Create
    <3>2. UserRow'
      BY <1>2, <1>5, <1>6, <2>3, <3>1 DEF UserRow, Auth!User
    <3>3. RowsInv'
      BY <1>1, <1>7, <1>8, <2>3, <3>1, <3>2, UserWritten DEF Auth!Create, Auth!Link
    <3> QED BY <2>3, <3>3 DEF Keeps
  <2> QED BY <2>2, <2>3
<1>9. ASSUME Auth!FoundUser(s) PROVE RowsInv' /\ Keeps
  <2>1. r.job = "provider" /\ r.what \in Provider /\ RowJob(r)
    BY <1>3, <1>4, <1>9 DEF Auth!FoundUser, Called, StepFits, RowOf, RowJob
  <2>2. CASE user' = user /\ links' = links
    <3>1. RowsInv'
      BY <1>1, <1>9, <2>2, RowsElsewhere DEF Auth!FoundUser, Auth!Link
    <3> QED BY <1>5, <1>6, <2>2, <3>1 DEF Keeps
  <2>3. CASE ~(user' = user /\ links' = links)
    <3>1. PICK v \in BOOLEAN : v = (r.nth = 1)
      OBVIOUS
    <3>2. /\ user.status = "none" /\ user' = [status |-> "active", password |-> 0, verified |-> v, ways |-> {r.what}]
          /\ links' = links \union {r.what}
      BY <1>3, <1>9, <2>3, <3>1 DEF Auth!FoundUser
    <3>3. UserRow'
      BY <1>2, <1>5, <1>6, <2>1, <3>2 DEF UserRow, Auth!User
    <3>4. RowsInv'
      BY <1>1, <1>7, <1>9, <3>2, <3>3, UserWritten DEF Auth!FoundUser, Auth!Link
    <3> QED BY <3>2, <3>4 DEF Keeps
  <2> QED BY <2>2, <2>3
<1>10. ASSUME Auth!Link(s) PROVE RowsInv' /\ Keeps
  <2>1. /\ r.at = "link" /\ r.job = "provider" /\ r.what \in Provider /\ RowJob(r) /\ u.status # "none"
        /\ r.row \in Auth!User /\ r.row.status # "none"
        /\ "row" \in blurred \/ (r.row.verified = u.verified /\ r.row.password = u.password /\ r.row.ways = u.ways)
    BY <1>3, <1>4, <1>5, <1>10 DEF Auth!Link, Called, StepFits, RowOf, RowJob
  <2>2. PICK w, W : /\ w = r.row
                    /\ W = IF Provider \subseteq w.ways \union {r.what} /\ Auth!Cardinality(Provider) > 1
                           THEN Provider \union {"email"} ELSE w.ways \union {r.what}
    OBVIOUS
  <2>3. w.ways \subseteq Provider \union {"email"} /\ w.password \in Nat /\ w.verified \in BOOLEAN
    BY <2>1, <2>2 DEF Auth!User
  <2>4. W \subseteq Provider \union {"email"} /\ r.what \in W /\ w.ways \subseteq W
    BY <2>1, <2>2, <2>3
  <2>5. PICK v \in BOOLEAN : v <=> w.verified \/ r.nth = 1
    OBVIOUS
  <2>6. user' = [w EXCEPT !.ways = W, !.verified = v] /\ links' = links
    <3>1. user' = [w EXCEPT !.ways = W, !.verified = w.verified \/ r.nth = 1] /\ links' = links
      BY <1>3, <1>10, <2>1, <2>2 DEF Auth!Link, Auth!User
    <3>2. (w.verified \/ r.nth = 1) = v
      BY <2>3, <2>5
    <3> QED BY <3>1, <3>2
  <2>7. /\ user' \in Auth!User /\ user'.status = w.status /\ user'.password = w.password /\ user'.ways = W
        /\ user'.verified = v
    BY <2>1, <2>2, <2>4, <2>6 DEF Auth!User
  <2>8. UserRow'
    BY <1>2, <1>6, <2>1, <2>2, <2>4, <2>6, <2>7 DEF UserRow
  <2>9. \A q : q = servant'[s] /\ q.at # "idle" => RowOf(q)'
    BY <1>2, <1>3, <2>1, <2>2, <2>4, <2>7 DEF RowOf, SameCall
  <2>10. RowsInv'
    BY <1>1, <1>3, <2>1, <2>2, <2>7, <2>8, <2>9, UserWritten
  <2>11. Keeps
    BY <1>5, <1>6, <2>1, <2>2, <2>3, <2>5, <2>7 DEF Keeps
  <2> QED BY <2>10, <2>11

<1>11. ASSUME Auth!Bind(s) PROVE RowsInv' /\ Keeps
  <2>1. /\ r.at = "bind" /\ r.job = "provider" /\ r.what \in Provider /\ RowJob(r) /\ u.status # "none"
        /\ "row" \in blurred \/ r.what \in u.ways
    BY <1>3, <1>4, <1>5, <1>11 DEF Auth!Bind, Called, StepFits, RowOf, RowJob
  <2>2. user' = user /\ links' = links \union {r.what}
    BY <1>3, <1>11 DEF Auth!Bind
  <2>3. UserRow'
    BY <1>2, <1>5, <1>6, <2>1, <2>2 DEF UserRow
  <2>4. ~Auth!Link(s)
    BY <1>3, <2>1 DEF Auth!Link
  <2>5. RowsInv'
    BY <1>1, <1>3, <1>5, <1>7, <2>1, <2>2, <2>3, <2>4, UserWritten
  <2> QED BY <1>5, <1>6, <2>2, <2>5 DEF Keeps
<1>12. ASSUME Auth!Mark(s) PROVE RowsInv' /\ Keeps
  <2>1. r.at = "mark" /\ r.job = "right" /\ RowJob(r)
    BY <1>3, <1>4, <1>12 DEF Auth!Mark, Called, StepFits, RowJob
  <2>2. user' = [u EXCEPT !.verified = TRUE] /\ links' = links
    BY <1>5, <1>12 DEF Auth!Mark
  <2>3. /\ user' \in Auth!User /\ user'.status = u.status /\ user'.password = u.password /\ user'.ways = u.ways
        /\ user'.verified = TRUE
    BY <1>6, <2>2 DEF Auth!User
  <2>4. UserRow'
    BY <1>2, <1>6, <2>2, <2>3 DEF UserRow
  <2>5. ~Auth!Link(s)
    BY <1>3, <2>1 DEF Auth!Link
  <2>6. RowsInv'
    BY <1>1, <1>3, <1>5, <1>7, <2>1, <2>3, <2>4, <2>5, UserWritten
  <2> QED BY <1>5, <1>6, <2>3, <2>6 DEF Keeps
<1>13. ASSUME Auth!Store(s) PROVE RowsInv' /\ Keeps
  <2>1. /\ r.at = "store" /\ r.job \in {"recover", "change", "renew"} /\ RowJob(r) /\ r.nth \in Nat
        /\ "row" \in blurred \/ (u.password <= r.nth /\ r.nth <= deeds + 1)
    BY <1>3, <1>4, <1>5, <1>13 DEF Auth!Store, Called, StepFits, RowOf, RowJob
  <2>2. user' = [u EXCEPT !.password = r.nth] /\ links' = links
    BY <1>3, <1>5, <1>13 DEF Auth!Store
  <2>3. /\ user' \in Auth!User /\ user'.status = u.status /\ user'.password = r.nth /\ user'.ways = u.ways
        /\ user'.verified = u.verified
    BY <1>6, <2>1, <2>2 DEF Auth!User
  <2>4. UserRow'
    BY <1>2, <1>6, <2>1, <2>2, <2>3 DEF UserRow
  <2>5. ~Auth!Link(s)
    BY <1>3, <2>1 DEF Auth!Link
  <2>6. RowsInv'
    BY <1>1, <1>3, <1>5, <1>7, <2>1, <2>3, <2>4, <2>5, UserWritten
  <2> QED BY <1>5, <1>6, <2>1, <2>3, <2>6 DEF Keeps
<1>14. ASSUME Auth!Flip(s) PROVE RowsInv' /\ Keeps
  <2>1. /\ r.at = "switch" /\ r.job \in {"suspend", "resume"} /\ RowJob(r) /\ u.status # "none"
        /\ r.row \in Auth!User /\ r.row.status # "none"
        /\ "row" \in blurred \/ (r.row.verified = u.verified /\ r.row.password = u.password /\ r.row.ways = u.ways)
    BY <1>3, <1>4, <1>5, <1>14 DEF Auth!Flip, Called, StepFits, RowOf, RowJob
  <2>2. PICK w, st : w = r.row /\ st \in {"inactive", "active"} /\ st = IF r.job = "suspend" THEN "inactive" ELSE "active"
    OBVIOUS
  <2>3. user' = [w EXCEPT !.status = st] /\ links' = links
    BY <1>3, <1>14, <2>2 DEF Auth!Flip
  <2>4. /\ user' \in Auth!User /\ user'.status = st /\ user'.password = w.password /\ user'.ways = w.ways
        /\ user'.verified = w.verified
    BY <2>1, <2>2, <2>3 DEF Auth!User
  <2>5. UserRow'
    BY <1>2, <1>6, <2>1, <2>2, <2>3, <2>4 DEF UserRow
  <2>6. ~Auth!Link(s)
    BY <1>3, <2>1 DEF Auth!Link
  <2>7. RowsInv'
    BY <1>1, <1>3, <1>7, <2>1, <2>2, <2>4, <2>5, <2>6, UserWritten
  <2> QED BY <1>5, <1>6, <2>1, <2>2, <2>4, <2>7 DEF Keeps
<1> QED BY <1>8, <1>9, <1>10, <1>11, <1>12, <1>13, <1>14

LEMMA RowsDeleted ==
  ASSUME Rostered, RowsInv, Auth!Delete
  PROVE  RowsInv' /\ Keeps
<1> USE DEF RowsInv
<1>1. user' = [user EXCEPT !.status = "deleted"] /\ links' = links /\ servant' = servant /\ deeds' = deeds /\ blurred' = blurred
      /\ user.status # "none"
  BY DEF Auth!Delete, Auth!Found
<1>2. PICK u : u = user
  OBVIOUS
<1>3. u \in Auth!User /\ u.password \in Nat
  BY <1>2 DEF UserRow, Auth!User
<1>4. /\ user' \in Auth!User /\ user'.status = "deleted" /\ user'.password = u.password /\ user'.ways = u.ways
      /\ user'.verified = u.verified
  BY <1>1, <1>2, <1>3 DEF Auth!User
<1>5. UserRow' /\ OneAtRow'
  BY <1>1, <1>2, <1>4 DEF UserRow, OneAtRow
<1>6. RowsOf'
  <2> SUFFICES ASSUME NEW o \in Servant, servant'[o].at # "idle" PROVE RowOf(servant[o])'
    BY DEF RowsOf
  <2>1. PICK q : q = servant[o] /\ q = servant'[o]
    BY <1>1
  <2>2. RowOf(q)
    BY <2>1 DEF RowsOf
  <2>3. RowOf(q)'
    BY <1>1, <1>2, <1>4, <2>2 DEF RowOf
  <2> QED BY <2>1, <2>3
<1> QED BY <1>1, <1>2, <1>3, <1>4, <1>5, <1>6 DEF Keeps

AccountsInv == SessionsInv /\ CodesInv /\ RowsInv

LEMMA AccountsStart == ASSUME Auth!AccountsAssumption, Auth!Init PROVE AccountsInv
BY SessionsStart, CodesStart, RowsStart DEF AccountsInv

(* What a step leaves alone stays right.                                   *)
LEMMA SessionsSame ==
  ASSUME SessionsInv, UNCHANGED <<tokens, holds, servant, deeds, ended, tornLines>> PROVE SessionsInv'
<1> USE DEF SessionsInv
<1>1. Rostered' /\ LineOfOne' /\ OwnSession' /\ HeldIsLive'
  BY DEF Rostered, Called, LineOfOne, OwnSession, HeldIsLive, BeingReplaced
<1>2. TokensEnd
  BY DEF TokensEnd, TokenRows, Auth!Live
<1>3. TokenRows' /\ OneLive' /\ EndedAreOver'
  BY <1>2, TablesStay
<1>4. SessionsOf'
  <2> SUFFICES ASSUME NEW s \in Servant, servant[s].at # "idle" PROVE SessionOf(servant[s])'
    BY DEF SessionsOf
  <2>1. PICK r : r = servant[s] /\ r = servant'[s]
    OBVIOUS
  <2>2. r.line \in Nat /\ SessionOf(r)
    BY <2>1, IdleIsFree DEF SessionsOf, Called
  <2>3. SessionOf(r)'
    BY <1>2, <2>2, SessionStays
  <2> QED BY <2>1, <2>3
<1> QED BY <1>1, <1>3, <1>4

LEMMA CodesSame ==
  ASSUME CodesInv, UNCHANGED <<codes, servant, blurred>> PROVE CodesInv'
BY DEF CodesInv, CodeRows, CodesOf, CodeOf, OneAtCodes, OneOpen, Open, CodeJob

LEMMA RowsSame ==
  ASSUME RowsInv, UNCHANGED <<user, links, servant, blurred, deeds>> PROVE RowsInv'
BY DEF RowsInv, UserRow, RowsOf, RowOf, OneAtRow, RowJob

LEMMA RowStays == ASSUME RowsInv, user' = user PROVE Keeps
<1>1. \A u \in Auth!User : u.password \in Nat
  BY DEF Auth!User
<1>2. user \in Auth!User
  BY DEF RowsInv, UserRow
<1> QED BY <1>1, <1>2 DEF Keeps

LEMMA SessionsGoOn ==
  ASSUME SessionsInv, NEW s \in Servant, Auth!Continue(s)
  PROVE  SessionsInv'
BY SessionsElsewhere, SessionsIssue, SessionsTurn, SessionsEndAll, SessionsDrop DEF Auth!Continue, Elsewhere

LEMMA CodesGoOn ==
  ASSUME Rostered, CodesInv, NEW s \in Servant, Auth!Continue(s)
  PROVE  CodesInv'
<1>1. CASE Auth!Void(s) \/ Auth!Post(s) \/ Auth!CountTry(s) \/ Auth!Consume(s)
  BY <1>1, CodesVoid, CodesPost, CodesTried
<1>2. CASE ~(Auth!Void(s) \/ Auth!Post(s) \/ Auth!CountTry(s) \/ Auth!Consume(s))
  <2>1. codes' = codes
    BY <1>2 DEF Auth!Continue, Auth!Create, Auth!FoundUser, Auth!Link, Auth!Bind, Auth!Issue, Auth!Turn, Auth!EndAll,
       Auth!Drop, Auth!Mark, Auth!Store, Auth!Flip
  <2> QED BY <1>2, <2>1, CodesElsewhere
<1> QED BY <1>1, <1>2

LEMMA RowsGoOn ==
  ASSUME Rostered, RowsInv, deeds \in Nat, NEW s \in Servant, Auth!Continue(s)
  PROVE  RowsInv' /\ Keeps
<1>1. CASE Auth!Create(s) \/ Auth!FoundUser(s) \/ Auth!Link(s) \/ Auth!Bind(s) \/ Auth!Mark(s) \/ Auth!Store(s) \/ Auth!Flip(s)
  BY <1>1, RowsWritten
<1>2. CASE ~(Auth!Create(s) \/ Auth!FoundUser(s) \/ Auth!Link(s) \/ Auth!Bind(s) \/ Auth!Mark(s) \/ Auth!Store(s) \/ Auth!Flip(s))
  <2>1. user' = user /\ links' = links
    BY <1>2 DEF Auth!Continue, Auth!Issue, Auth!Turn, Auth!EndAll, Auth!Drop, Auth!Void, Auth!Post, Auth!CountTry, Auth!Consume
  <2> QED BY <1>2, <2>1, RowsElsewhere, RowStays
<1> QED BY <1>1, <1>2

LEMMA AccountsGoOn ==
  ASSUME Auth!AccountsAssumption, AccountsInv, [Auth!Next]_Auth!vars
  PROVE  AccountsInv' /\ Keeps
<1> USE DEF AccountsInv
<1>0. Rostered /\ TokenRows /\ CodeRows /\ deeds \in Nat
  BY DEF SessionsInv, CodesInv, TokenRows
<1>1. ASSUME NEW s \in Servant, Auth!Begin(s) PROVE AccountsInv' /\ Keeps
  <2>1. Begins(s)
    BY <1>0, <1>1, BeginsSo
  <2>2. SessionsInv'
    <3>1. PICK job \in {"register", "login", "provider", "refresh", "logout", "code", "right", "wrong", "recover", "change",
                        "renew", "suspend", "resume"}, at \in {"create", "void", "issue", "found", "link", "turn", "endAll",
                        "drop", "count", "consume", "store", "switch"}, d \in Device, nth \in Nat :
                 \E what : BeginsWith(s, job, at, d, nth, what)
      BY <2>1 DEF Begins
    <3>2. PICK what : BeginsWith(s, job, at, d, nth, what)
      BY <3>1
    <3> QED BY <3>2, SessionsTake DEF BeginsWith
  <2>3. CodesInv'
    BY <1>0, <2>1, CodesBegin
  <2>4. RowsInv' /\ user' = user
    BY <1>0, <2>1, RowsBegin
  <2> QED BY <2>2, <2>3, <2>4, RowStays
<1>2. ASSUME NEW s \in Servant, Auth!Continue(s) PROVE AccountsInv' /\ Keeps
  BY <1>0, <1>2, SessionsGoOn, CodesGoOn, RowsGoOn
<1>3. ASSUME NEW s \in Servant, Auth!Halt(s) PROVE AccountsInv' /\ Keeps
  <2>1. user' = user /\ links' = links /\ codes' = codes /\ ~Auth!Void(s) /\ ~Auth!Link(s)
    <3>1. user' = user /\ links' = links /\ codes' = codes /\ Auth!Leave(s) /\ servant[s].at # "idle"
      BY <1>3 DEF Auth!Halt
    <3>2. servant'[s].at = "idle"
      BY <1>0, <3>1, CallLeaves
    <3>3. ASSUME Auth!Void(s) \/ Auth!Link(s) PROVE FALSE
      <4>1. /\ servant[s].at \in {"void", "link"}
            /\ \E at \in {"post", "bind"} : Auth!Goto(s, at) /\ (at = "post" <=> servant[s].at = "void")
        BY <3>3 DEF Auth!Void, Auth!Link
      <4>2. PICK at \in {"post", "bind"} : Auth!Goto(s, at) /\ (at = "post" <=> servant[s].at = "void")
        BY <4>1
      <4>3. StepFits(at, servant[s].job)
        BY <1>0, <4>1, <4>2, IdleIsFree DEF Called, StepFits
      <4>4. servant'[s].at = at
        BY <1>0, <3>1, <4>2, <4>3, CallMoves
      <4> QED BY <3>2, <4>4
    <3> QED BY <3>1, <3>3
  <2> QED BY <1>0, <1>3, <2>1, SessionsHalt, CodesElsewhere, RowsElsewhere, RowStays
<1>4. ASSUME NEW n \in DOMAIN tokens, Auth!Expire(n) PROVE AccountsInv' /\ Keeps
  <2>1. UNCHANGED <<user, links, codes, servant, blurred, deeds>>
    BY <1>4 DEF Auth!Expire
  <2> QED BY <1>4, <2>1, SessionsExpire, CodesSame, RowsSame, RowStays
<1>5. ASSUME Auth!Older PROVE AccountsInv' /\ Keeps
  <2>1. UNCHANGED <<user, links, tokens, holds, servant, blurred, deeds, ended, tornLines>>
    BY <1>5 DEF Auth!Older
  <2> QED BY <1>0, <1>5, <2>1, SessionsSame, CodesOlder, RowsSame, RowStays
<1>6. ASSUME Auth!Delete PROVE AccountsInv' /\ Keeps
  <2>1. UNCHANGED <<codes, tokens, holds, servant, blurred, deeds, ended, tornLines>>
    BY <1>6 DEF Auth!Delete
  <2> QED BY <1>0, <1>6, <2>1, SessionsSame, CodesSame, RowsDeleted
<1>7. ASSUME UNCHANGED Auth!vars PROVE AccountsInv' /\ Keeps
  <2>1. UNCHANGED <<user, links, tokens, codes, holds, servant, blurred, deeds, ended, tornLines>>
    BY <1>7 DEF Auth!vars
  <2> QED BY <2>1, SessionsSame, CodesSame, RowsSame, RowStays
<1> QED BY <1>1, <1>2, <1>3, <1>4, <1>5, <1>6, <1>7 DEF Auth!Next

(* What overlapping handlers have written is never forgotten.              *)
LEMMA StaysBlurred ==
  ASSUME Auth!AccountsAssumption, AccountsInv, [Auth!Next]_Auth!vars
  PROVE  blurred \subseteq blurred'
<1>1. Rostered /\ TokenRows /\ CodeRows /\ RowsInv
  BY DEF AccountsInv, SessionsInv, CodesInv, TokenRows
<1>2. ASSUME NEW s \in Servant, Auth!Begin(s) PROVE blurred \subseteq blurred'
  BY <1>1, <1>2, BeginsSo, RowsBegin
<1>3. ASSUME NEW s \in Servant, Auth!Continue(s) \/ Auth!Halt(s) PROVE blurred \subseteq blurred'
  BY <1>1, <1>3, EachMoves
<1>4. ASSUME (\E n \in DOMAIN tokens : Auth!Expire(n)) \/ Auth!Older \/ Auth!Delete \/ UNCHANGED Auth!vars
      PROVE  blurred \subseteq blurred'
  BY <1>4 DEF Auth!Expire, Auth!Older, Auth!Delete, Auth!vars
<1> QED BY <1>2, <1>3, <1>4 DEF Auth!Next

LEMMA AccountsAreKept ==
  ASSUME Auth!AccountsAssumption
  PROVE  Auth!Spec => []AccountsInv
<1>1. Auth!Init => AccountsInv
  BY AccountsStart
<1>2. AccountsInv /\ [Auth!Next]_Auth!vars => AccountsInv'
  BY AccountsGoOn
<1> QED BY <1>1, <1>2, PTL DEF Auth!Spec

(* OneTokenEach of Accounts: a session is one live token, however often    *)
(* it is refreshed and by however many handlers the others are             *)
(* (rotateRefreshToken).                                                   *)
THEOREM SessionsAreOne ==
  ASSUME Auth!AccountsAssumption
  PROVE  Auth!Spec => []Auth!OneTokenEach
<1>1. AccountsInv => Auth!OneTokenEach
  BY DEF AccountsInv, SessionsInv, OneLive, Auth!OneTokenEach
<1> QED BY <1>1, AccountsAreKept, PTL

(* OneOpenCode of Accounts: of each purpose one code is open, unless two   *)
(* handlers write codes at once (createAndSendOtp).                        *)
THEOREM CodesAreOne ==
  ASSUME Auth!AccountsAssumption
  PROVE  Auth!Spec => []Auth!OneOpenCode
<1>1. AccountsInv => Auth!OneOpenCode
  <2> SUFFICES ASSUME AccountsInv, "codes" \notin blurred, NEW purpose \in Auth!Purpose
               PROVE  Auth!Cardinality(Auth!OpenCodes(purpose)) <= 1
    BY DEF Auth!OneOpenCode
  <2>1. \A n, m \in Auth!OpenCodes(purpose) : n = m
    BY DEF AccountsInv, CodesInv, OneOpen, Open, Auth!OpenCodes
  <2>2. Cardinality(Auth!OpenCodes(purpose)) <= 1
    <3>1. CASE Auth!OpenCodes(purpose) = {}
      BY <3>1, FS_EmptySet
    <3>2. CASE Auth!OpenCodes(purpose) # {}
      <4>1. PICK n : Auth!OpenCodes(purpose) = {n}
        BY <2>1, <3>2
      <4> QED BY <4>1, FS_Singleton
    <3> QED BY <3>1, <3>2
  <2> QED BY <2>2 DEF Auth!Cardinality, Cardinality
<1> QED BY <1>1, AccountsAreKept, PTL

(* StaysSignedIn and ResetEndsSessions of Accounts: a device is only       *)
(* signed out by what it does itself, a new password, or the reuse of a    *)
(* token that was torn or ended by one; a new password ends the sessions   *)
(* begun before it (revokeAllForUser).                                     *)
THEOREM NobodyIsSignedOut ==
  ASSUME Auth!AccountsAssumption
  PROVE  Auth!Spec => [](Auth!StaysSignedIn /\ Auth!ResetEndsSessions)
<1>1. AccountsInv => Auth!StaysSignedIn /\ Auth!ResetEndsSessions
  BY DEF AccountsInv, SessionsInv, HeldIsLive, BeingReplaced, EndedAreOver, Auth!StaysSignedIn,
         Auth!ResetEndsSessions, Auth!Busy
<1> QED BY <1>1, AccountsAreKept, PTL

(* LinksAreWays and RowKept of Accounts: unless two handlers write the     *)
(* row at once, each linked provider is a way to sign in, a verified       *)
(* address stays verified and a replaced password replaced, though rows    *)
(* are saved whole as they were read.                                      *)
THEOREM RowsAreKept ==
  ASSUME Auth!AccountsAssumption
  PROVE  Auth!Spec => []Auth!LinksAreWays /\ [][Auth!RowKept]_Auth!vars
<1>1. AccountsInv => Auth!LinksAreWays
  BY DEF AccountsInv, RowsInv, UserRow, Auth!LinksAreWays
<1>2. ASSUME AccountsInv, [Auth!Next]_Auth!vars PROVE [Auth!RowKept]_Auth!vars
  <2>1. AccountsInv' /\ Keeps
    BY <1>2, AccountsGoOn
  <2>2. "row" \notin blurred' => "row" \notin blurred
    BY <1>2, StaysBlurred
  <2> QED BY <2>1, <2>2 DEF Keeps, Auth!RowKept
<1> QED BY <1>1, <1>2, AccountsAreKept, PTL DEF Auth!Spec
=============================================================================
