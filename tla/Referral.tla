------------------------------ MODULE Referral ------------------------------
(***************************************************************************)
(* The referrals of one inviter: src/src/referrals/referrals.service.ts.   *)
(*                                                                         *)
(* evaluateInvitee reads the attribution, looks at what the invitee has    *)
(* done and saves a new standing, all outside a transaction: its save may  *)
(* land on a row that has changed since.  settleIfQualified is one         *)
(* transaction: it locks the attribution, then (in grantInTx, unless the   *)
(* two base rewards were granted before) the inviter's wallet, and counts  *)
(* the committed rewarded attributions for the milestones.  A call that    *)
(* fails or whose process stops rolls back and is gone; a later event of   *)
(* the invitee (verified email, questionnaire, lesson) calls again.        *)
(***************************************************************************)
EXTENDS Naturals, FiniteSets

CONSTANTS
  Invitee,       \* one attribution each, all of the same inviter
  Call,          \* evaluateInvitee calls that may be in progress at a time
  Milestone,     \* REFERRAL_MILESTONES: the numbers of rewarded friends
  Hasty          \* bound: invitees that claim the code last and keep going

Fact == {"email", "onboarded", "studied"}

ReferralAssumption ==
  /\ Milestone \subseteq Nat \ {0} /\ Invitee \cap Milestone = {}
  /\ IsFiniteSet(Invitee)
  /\ Hasty \subseteq Invitee

VARIABLES
  standing,      \* of the attribution, "none" before the registration
  facts,         \* what qualificationChecks would find
  over,          \* expiresAt has passed
  granted,       \* times the two base rewards of an invitee were granted
  milestones,    \* times a milestone was granted
  call,          \* the calls in progress
  qualified,     \* history: invitees that met every condition in time
  regressed      \* history: a late save took a rewarded standing back

refVars == <<standing, facts, over, granted, milestones, call, qualified, regressed>>

Ladder == [none |-> 0, registered |-> 1, email_verified |-> 2,
           onboarding_completed |-> 3, almost_there |-> 4, qualified |-> 5,
           rewarded |-> 6, expired |-> 6]

Standing == DOMAIN Ladder
Idle == [at |-> "idle"]

Init ==
  /\ standing = [i \in Invitee |-> "none"]
  /\ facts = [i \in Invitee |-> IF i \in Hasty THEN {"email", "onboarded"} ELSE {}]
  /\ over = [i \in Invitee |-> FALSE]
  /\ granted = [i \in Invitee |-> 0]
  /\ milestones = [m \in Milestone |-> 0]
  /\ call = [c \in Call |-> Idle]
  /\ qualified = {} /\ regressed = FALSE
-----------------------------------------------------------------------------
(* The invitee.  attachOnRegister creates the attribution and, not in one  *)
(* transaction, its two pending grants, which settling creates if missing. *)
Attach(i) ==
  /\ standing[i] = "none"
  /\ standing' = [standing EXCEPT ![i] = "registered"]
  /\ qualified' = IF facts[i] = Fact THEN qualified \union {i} ELSE qualified
  /\ UNCHANGED <<facts, over, granted, milestones, call, regressed>>

InTime(i) == standing[i] # "none" /\ ~over[i]

Do(i, f) ==
  /\ f \notin facts[i] /\ (f = "studied" => "onboarded" \in facts[i])
  /\ facts' = [facts EXCEPT ![i] = @ \union {f}]
  /\ qualified' = IF facts'[i] = Fact /\ InTime(i)
                  THEN qualified \union {i} ELSE qualified
  /\ UNCHANGED <<standing, over, granted, milestones, call, regressed>>

(* A roadmap is replaced, so that no ready one is found.                   *)
LoseRoadmap(i) ==
  /\ "onboarded" \in facts[i] /\ i \notin Hasty
  /\ facts' = [facts EXCEPT ![i] = @ \ {"onboarded"}]
  /\ UNCHANGED <<standing, over, granted, milestones, call, qualified, regressed>>

WindowEnds(i) ==
  /\ InTime(i) /\ i \notin Hasty
  /\ over' = [over EXCEPT ![i] = TRUE]
  /\ UNCHANGED <<standing, facts, granted, milestones, call, qualified, regressed>>
-----------------------------------------------------------------------------
(* evaluateInvitee                                                         *)
Goto(c, r) == call' = [call EXCEPT ![c] = r]
Locked(i) == \E c \in Call : /\ call[c].at \in {"paying", "counting", "commit"}
                             /\ call[c].who = i
WalletLocked == \E c \in Call : /\ call[c].at \in {"counting", "commit"}
                                /\ call[c].pays

Evaluate(c, i) ==
  /\ call[c].at = "idle"
  /\ standing[i] \notin {"none", "rewarded", "expired"}
  /\ Goto(c, IF over[i] THEN [at |-> "update", who |-> i, next |-> "expired"]
             ELSE [at |-> "check", who |-> i, seen |-> standing[i]])
  /\ UNCHANGED <<standing, facts, over, granted, milestones, qualified, regressed>>

NextStatus(i) ==
  IF facts[i] = Fact THEN "qualified"
  ELSE IF "onboarded" \notin facts[i]
       THEN IF "email" \in facts[i] THEN "email_verified" ELSE "registered"
  ELSE IF "studied" \in facts[i] THEN "onboarding_completed" ELSE "almost_there"

(* Only a standing higher than the one that was READ is saved, if the row, *)
(* which save() reads again, differs from it; the update waits for a       *)
(* transaction that has the row locked, and lands on whatever it left.     *)
Check(c) ==
  LET i == call[c].who  s == NextStatus(call[c].who) IN
  /\ call[c].at = "check"
  /\ Goto(c, IF Ladder[s] > Ladder[call[c].seen] /\ standing[i] # s
             THEN [at |-> "update", who |-> i, next |-> s]
             ELSE IF s = "qualified" THEN [at |-> "settle", who |-> i] ELSE Idle)
  /\ UNCHANGED <<standing, facts, over, granted, milestones, qualified, regressed>>

SaveUpdates(c) ==
  LET i == call[c].who IN
  /\ call[c].at = "update" /\ ~Locked(i)
  /\ standing' = [standing EXCEPT ![i] = call[c].next]
  /\ regressed' = (regressed \/ standing[i] = "rewarded")
  /\ Goto(c, IF call[c].next = "qualified" THEN [at |-> "settle", who |-> i] ELSE Idle)
  /\ UNCHANGED <<facts, over, granted, milestones, qualified>>
-----------------------------------------------------------------------------
(* settleIfQualified.  A window that is over makes it throw, which also    *)
(* rolls the standing "expired" back.                                      *)
SettlesUnchecked(i) == standing[i] # "rewarded"              \* variant
Settles(i) == standing[i] # "rewarded" /\ ~over[i] /\ facts[i] = Fact

SettleLocks(c) ==
  LET i == call[c].who IN
  /\ call[c].at = "settle" /\ ~Locked(i)
  /\ Goto(c, IF ~Settles(i) THEN Idle
             ELSE [at |-> IF granted[i] = 0 THEN "paying" ELSE "counting",
                   who |-> i, pays |-> granted[i] = 0])
  /\ UNCHANGED <<standing, facts, over, granted, milestones, qualified, regressed>>

(* grantInTx waits for the lock of the inviter's wallet.                   *)
WalletNeverWaits == TRUE                                   \* variant
WalletFree == ~WalletLocked

SettlePays(c) ==
  /\ call[c].at = "paying" /\ WalletFree
  /\ Goto(c, [at |-> "counting", who |-> call[c].who, pays |-> call[c].pays])
  /\ UNCHANGED <<standing, facts, over, granted, milestones, qualified, regressed>>

(* evaluateMilestones counts what is committed and this attribution.       *)
Rewarded(i) == {j \in Invitee : standing[j] = "rewarded"} \union {i}

SettleCounts(c) ==
  /\ call[c].at = "counting"
  /\ Goto(c, [at |-> "commit", who |-> call[c].who, pays |-> call[c].pays,
              due |-> {m \in Milestone : /\ m <= Cardinality(Rewarded(call[c].who))
                                         /\ milestones[m] = 0}])
  /\ UNCHANGED <<standing, facts, over, granted, milestones, qualified, regressed>>

(* A milestone granted meanwhile breaks a unique key: all is rolled back.  *)
SettleCommits(c) ==
  LET i == call[c].who IN
  /\ call[c].at = "commit"
  /\ \/ call[c].pays \/ call[c].due = {} \/ WalletFree
  /\ Goto(c, Idle)
  /\ IF \A m \in call[c].due : milestones[m] = 0
     THEN /\ standing' = [standing EXCEPT ![i] = "rewarded"]
          /\ granted' = [granted EXCEPT ![i] = @ + (IF call[c].pays THEN 1 ELSE 0)]
          /\ milestones' = [m \in Milestone |->
                              milestones[m] + (IF m \in call[c].due THEN 1 ELSE 0)]
     ELSE UNCHANGED <<standing, granted, milestones>>
  /\ UNCHANGED <<facts, over, qualified, regressed>>

Fail(c) ==
  /\ call[c].at # "idle"
  /\ Goto(c, Idle)
  /\ UNCHANGED <<standing, facts, over, granted, milestones, qualified, regressed>>
-----------------------------------------------------------------------------
Next ==
  \/ \E i \in Invitee : Attach(i) \/ LoseRoadmap(i) \/ WindowEnds(i)
  \/ \E i \in Invitee, f \in Fact : Do(i, f)
  \/ \E c \in Call, i \in Invitee : Evaluate(c, i)
  \/ \E c \in Call : \/ Check(c) \/ SaveUpdates(c) \/ Fail(c)
                     \/ SettleLocks(c) \/ SettlePays(c) \/ SettleCounts(c)
                     \/ SettleCommits(c)

Spec == Init /\ [][Next]_refVars

TypeOK ==
  /\ standing \in [Invitee -> Standing]
  /\ facts \in [Invitee -> SUBSET Fact]
  /\ over \in [Invitee -> BOOLEAN]
  /\ granted \in [Invitee -> Nat] /\ milestones \in [Milestone -> Nat]
  /\ qualified \subseteq Invitee /\ regressed \in BOOLEAN

(* Once no settlement runs, every milestone that the rewarded friends      *)
(* reach is granted: two friends that qualify at the same moment are both  *)
(* counted (the wallet's lock makes the second wait and count again),      *)
(* unless a late save of evaluateInvitee took a rewarded standing back.    *)
MilestonesFollow ==
  (~regressed /\ \A c \in Call : call[c].at \notin {"paying", "counting", "commit"}) =>
    \A m \in Milestone :
      m <= Cardinality({i \in Invitee : standing[i] = "rewarded"}) => milestones[m] = 1

(* The base rewards are paid to whom qualified in time and a milestone to  *)
(* an inviter with that many paid friends, each once (EarnedOnce).         *)
Reward == Invitee \union Milestone
EarnedRewards ==
  qualified \union {m \in Milestone : m <= Cardinality({i \in Invitee : granted[i] > 0})}
PaidRewards == [k \in Reward |-> IF k \in Invitee THEN granted[k] ELSE milestones[k]]
=============================================================================
