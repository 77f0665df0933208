--------------------------- MODULE Leagues_proofs ---------------------------
(* The proofs about a cohort's season (LeagueScore) and about the ladder   *)
(* (LeagueLadder), as MCLeagues puts them side by side: for every cohort,  *)
(* every set of lines and rewards, every number of consumers and           *)
(* finalizers, and every cohort size.  Then about the lobby of the battles *)
(* (BattleLobby), whose coins and XP are sums too, for every set of        *)
(* players, keys and handlers, and every stake and cap.                    *)
EXTENDS MCLeagues, Sequences, FiniteSetTheorems, WellFoundedInduction, TLAPS

(* What an event of the batch is: there is an oldest, and it is an event.  *)
LEMMA OldestExists ==
  ASSUME NEW B \in SUBSET Event, B # {}
  PROVE  \E e \in B : \A f \in B : Turn(e) <= Turn(f)
<1> DEFINE less == {ss \in Nat \X Nat : ss[1] < ss[2]}
           turns == {Turn(e) : e \in B}
<1>1. IsWellFoundedOn(less, Nat)
  BY NatLessThanWellFounded DEF OpToRel
<1>2. turns \subseteq Nat /\ turns # {}
  <2>1. ASSUME NEW e \in B PROVE Turn(e) \in Nat
    <3>1. PICK l \in Line, i \in {1, 2} : e = <<l, i>>
      BY DEF Event
    <3> QED BY <3>1, CohortAssumption DEF Turn
  <2> QED BY <2>1
<1>3. PICK x \in turns : \A y \in turns : <<y, x>> \notin less
  <2> HIDE DEF less, turns
  <2> QED BY <1>1, <1>2, WFMin
<1>4. ASSUME NEW y \in turns PROVE x <= y
  <2>1. x \in Nat /\ y \in Nat
    BY <1>2, <1>3
  <2>2. ~(y < x)
    BY <1>3, <2>1
  <2> QED BY <2>1, <2>2
<1> QED BY <1>3, <1>4

LEMMA CurrentIsAnEvent ==
  ASSUME TypeOK, NEW c \in Session, batch[c] # {}
  PROVE  /\ Current(c) \in Event /\ Current(c)[1] \in Line
         /\ Who(c) \in Member /\ Gain(c) \in Nat \ {0}
<1>1. batch[c] \in SUBSET Event
  BY DEF TypeOK
<1>2. Current(c) \in batch[c]
  <2>1. \E e \in batch[c] : \A f \in batch[c] : Turn(e) <= Turn(f)
    BY <1>1, OldestExists
  <2> QED BY <2>1 DEF Current, Oldest
<1>3. Current(c) \in Event
  BY <1>1, <1>2
<1>4. Current(c)[1] \in Line
  <2> DEFINE e == Current(c)
  <2>1. e \in Event BY <1>3
  <2> HIDE DEF e
  <2>2. e[1] \in Line BY <2>1 DEF Event
  <2> QED BY <2>2 DEF e
<1> QED BY <1>3, <1>4, CohortAssumption DEF Who, Gain

(* A position counts those who are better: who has more XP is before.      *)
LEMMA PositionsRank ==
  ASSUME NEW x \in [Member -> Nat]
  PROVE  /\ PositionIn(x) \in [Member -> Nat \ {0}]
         /\ \A m, n \in Member : x[m] > x[n] => PositionIn(x)[m] < PositionIn(x)[n]
<1> DEFINE better(m) == {n \in Member : Before(x, n, m)}
<1>1. ASSUME NEW m \in Member
      PROVE  IsFiniteSet(better(m)) /\ Cardinality(better(m)) \in Nat
  <2>1. IsFiniteSet(better(m)) BY CohortAssumption, FS_Subset
  <2> QED BY <2>1, FS_CardinalityType
<1>2. ASSUME NEW m \in Member, NEW n \in Member, x[m] > x[n]
      PROVE  Cardinality(better(m)) < Cardinality(better(n))
  <2>1. better(m) \subseteq better(n)
    BY <1>2, CohortAssumption DEF Before
  <2>2. m \in better(n) /\ m \notin better(m)
    BY <1>2, CohortAssumption DEF Before
  <2>3. better(m) \in SUBSET better(n) /\ better(n) # better(m)
    BY <2>1, <2>2
  <2>4. IsFiniteSet(better(n)) /\ Cardinality(better(m)) \in Nat /\ Cardinality(better(n)) \in Nat
    BY <1>1
  <2> HIDE DEF better
  <2> QED BY <2>3, <2>4, FS_Subset
<1>3. PositionIn(x) = [m \in Member |-> 1 + Cardinality(better(m))]
  BY DEF PositionIn
<1> HIDE DEF better
<1> QED BY <1>1, <1>2, <1>3
-----------------------------------------------------------------------------
(* Who is in a handler has an event in hand; a season that is finalized    *)
(* has no finalizer in it.                                                 *)
BusyInv ==
  /\ \A c \in Consumer : /\ pc[c] # "reward"
                         /\ pc[c] \notin {"idle", "next"} => batch[c] # {}
  /\ \A f \in Finalizer : /\ pc[f] \in {"idle", "write", "reward"}
                          /\ pc[f] # "idle" => season = "active"

TypeInv == TypeOK /\ BusyInv

LEMMA DeadlockedWait ==
  ASSUME NEW s \in Session, Deadlocked(s)
  PROVE  pc[s] \in {"lock", "write"}
BY DEF Deadlocked, Blockers, Wanted

LEMMA UnlockFrees ==
  ASSUME TypeOK, NEW s \in Session, Unlock(s)
  PROVE  /\ rowOwner' \in [Member -> Session \cup {Nobody}]
         /\ \A m \in Member : rowOwner'[m] = IF rowOwner[m] = s THEN Nobody ELSE rowOwner[m]
         /\ seasonOwner' = IF seasonOwner = s THEN Nobody ELSE seasonOwner
BY DEF TypeOK, Unlock

(* The types with who is busy are inductive.                               *)
LEMMA Typed == Spec => []TypeInv
<1>1. Init => TypeInv
  <2> SUFFICES ASSUME Init PROVE TypeInv
    OBVIOUS
  <2>1. position \in [Member -> Nat \ {0}]
    <3> DEFINE lower(m) == {n \in Member : Hash[n] < Hash[m]}
    <3>1. ASSUME NEW m \in Member PROVE Cardinality(lower(m)) \in Nat
      BY CohortAssumption, FS_Subset, FS_CardinalityType
    <3>2. position = [m \in Member |-> 1 + Cardinality(lower(m))]
      BY DEF Init
    <3> HIDE DEF lower
    <3> QED BY <3>1, <3>2
  <2> QED BY <2>1, CohortAssumption DEF Init, TypeInv, TypeOK, BusyInv, EventRow, Label, Session
<1>2. TypeInv /\ [Next]_vars => TypeInv'
  <2> SUFFICES ASSUME TypeInv, [Next]_vars PROVE TypeInv'
    OBVIOUS
  <2> USE CohortAssumption DEF TypeInv, TypeOK, BusyInv, Session, Label, EventRow
  <2>1. ASSUME NEW c \in Consumer, Poll(c) PROVE TypeInv'
    BY <2>1 DEF Poll, Goto, Pending, store, locks
  <2>2. ASSUME NEW c \in Consumer, Done(c) PROVE TypeInv'
    BY <2>2 DEF Done, Goto, store, locks, local
  <2>3. ASSUME NEW c \in Consumer, Ingest(c) PROVE TypeInv'
    <3>1. batch[c] # {} /\ Current(c) \in Event
      BY <2>3, CurrentIsAnEvent DEF Ingest
    <3>2. UNCHANGED <<season, scored, xp, position, final, prizes, rowOwner, seasonOwner,
                      seen, todo, faults>> /\ pc[c] = "next"
      BY <2>3 DEF Ingest, locks
    <3>3. (Goto(c, "lock") /\ UNCHANGED <<event, batch>>) \/ Mark(c, "failed")
      BY <2>3, Zenon DEF Ingest
    <3>4. CASE Goto(c, "lock") /\ UNCHANGED <<event, batch>>
      BY <3>1, <3>2, <3>4 DEF Goto
    <3>5. CASE Mark(c, "failed")
      BY <3>1, <3>2, <3>5 DEF Goto, Mark
    <3> QED BY <3>3, <3>4, <3>5
  <2>4. ASSUME NEW c \in Consumer, LockMember(c) PROVE TypeInv'
    BY <2>4, CurrentIsAnEvent DEF LockMember, Goto, store
  <2>5. ASSUME NEW c \in Consumer, Duplicate(c) PROVE TypeInv'
    BY <2>5, CurrentIsAnEvent DEF Duplicate, Goto, Mark, locks
  <2>6. ASSUME NEW c \in Consumer, Score(c) PROVE TypeInv'
    <3>1. Who(c) \in Member /\ Gain(c) \in Nat
      BY <2>6, CurrentIsAnEvent DEF Score
    <3>2. [xp EXCEPT ![Who(c)] = seen[c][Who(c)] + Gain(c)] \in [Member -> Nat]
      BY <3>1
    <3> QED BY <2>6, <3>2 DEF Score, Goto, store, locks
  <2>7. ASSUME NEW c \in Consumer, CommitScore(c) PROVE TypeInv'
    <3>1. Who(c) \in Member /\ Current(c)[1] \in Line
      BY <2>7, CurrentIsAnEvent DEF CommitScore
    <3>2. seen[c] \in [Member -> Nat]
      OBVIOUS
    <3>3. xp' \in [Member -> Nat] /\ scored' \subseteq Line
      BY <2>7, <3>1, <3>2 DEF CommitScore
    <3>4. position' \in [Member -> Nat \ {0}]
      BY <2>7, <3>2, PositionsRank DEF CommitScore
    <3>5. rowOwner' \in [Member -> Session \cup {Nobody}] /\ seasonOwner' = seasonOwner
      BY <2>7, UnlockFrees DEF CommitScore
    <3> QED BY <2>7, <3>3, <3>4, <3>5 DEF CommitScore, Forget, Goto
  <2>8. ASSUME NEW c \in Consumer, Publish(c) PROVE TypeInv'
    BY <2>8, CurrentIsAnEvent DEF Publish, Goto, Mark, locks
  <2>9. ASSUME NEW s \in Session, UpdatePosition(s) PROVE TypeInv'
    BY <2>9 DEF UpdatePosition, First, store
  <2>10. ASSUME NEW f \in Session, Positioned(f) PROVE TypeInv'
    BY <2>10 DEF Positioned, Goto, store, locks
  <2>11. ASSUME NEW f \in Session, Reward(f) PROVE TypeInv'
    BY <2>11 DEF Reward, First, store, locks
  <2>12. ASSUME NEW f \in Session, CommitFinal(f) PROVE TypeInv'
    BY <2>12, PositionsRank, UnlockFrees DEF CommitFinal, Forget, Goto
  <2>13. ASSUME NEW s \in Session, Victim(s) PROVE TypeInv'
    <3>1. pc[s] \in {"lock", "write"}
      BY <2>13, DeadlockedWait DEF Victim
    <3>2. /\ rowOwner' \in [Member -> Session \cup {Nobody}]
          /\ seasonOwner' = IF seasonOwner = s THEN Nobody ELSE seasonOwner
      BY <2>13, UnlockFrees DEF Victim
    <3>3. CASE s \in Consumer
      <4>1. batch[s] # {} /\ Current(s) \in Event
        BY <3>1, <3>3, CurrentIsAnEvent
      <4>2. Mark(s, "failed") /\ UNCHANGED <<season, scored, xp, position, final, prizes, faults>>
        BY <2>13, <3>3, Zenon DEF Victim
      <4>3. Forget(s)
        BY <2>13, Zenon DEF Victim
      <4> QED BY <3>2, <3>3, <4>1, <4>2, <4>3 DEF Forget, Goto, Mark
    <3>4. CASE s \in Finalizer
      <4>1. /\ Goto(s, "idle") /\ UNCHANGED <<event, batch>>
            /\ UNCHANGED <<season, scored, xp, position, final, prizes, faults>>
        <5>1. s \notin Consumer BY <3>4
        <5> QED BY <2>13, <5>1, Zenon DEF Victim
      <4>2. Forget(s)
        BY <2>13, Zenon DEF Victim
      <4> QED BY <3>2, <3>4, <4>1, <4>2 DEF Forget, Goto
    <3> QED BY <3>3, <3>4
  <2>14. ASSUME NEW s \in Session, Crash(s) PROVE TypeInv'
    BY <2>14, UnlockFrees DEF Crash, Forget, Goto, store
  <2>15. ASSUME NEW l \in Line, Enqueue(l) PROVE TypeInv'
    BY <2>15 DEF Enqueue, locks, local
  <2>16. ASSUME NEW f \in Finalizer, Finalize(f) PROVE TypeInv'
    BY <2>16 DEF Finalize, Goto, store
  <2>17. ASSUME NEW c \in Consumer, Throw(c) PROVE TypeInv'
    BY <2>17, CurrentIsAnEvent, UnlockFrees DEF Throw, Forget, Goto, Mark
  <2>18. CASE UNCHANGED vars
    BY <2>18 DEF vars, store, locks, local
  <2> QED
    BY <2>1, <2>2, <2>3, <2>4, <2>5, <2>6, <2>7, <2>8, <2>9, <2>10, <2>11, <2>12,
       <2>13, <2>14, <2>15, <2>16, <2>17, <2>18 DEF Next, Progress, Consume
<1> QED BY <1>1, <1>2, PTL DEF Spec

(* The types hold in every reachable state; the season's lock is held by   *)
(* the finalizer that is in its transaction and by none outside.           *)
THEOREM TypeCorrect == Spec => []TypeOK
<1>1. TypeInv => TypeOK
  BY DEF TypeInv
<1> QED BY <1>1, Typed, PTL
-----------------------------------------------------------------------------
(* Every step is of one session, and leaves the others their locals and    *)
(* their rows; only a scoring transaction's commit moves XP and only a     *)
(* commit moves a position.                                                *)
Apart(s) ==
  \A a \in Session \ {s} :
    /\ pc'[a] = pc[a] /\ batch'[a] = batch[a] /\ seen'[a] = seen[a] /\ todo'[a] = todo[a]
    /\ \A m \in Member : rowOwner[m] = a <=> rowOwner'[m] = a

StillStanding == UNCHANGED <<season, scored, xp, position>>

Outside ==
  StillStanding /\ UNCHANGED <<final, prizes, pc, batch, seen, todo, rowOwner, faults>>

(* What the step does to the session's own part in the ranking.            *)
Ranking(s) ==
  \/ StillStanding /\ LockMember(s)
  \/ StillStanding /\ Score(s)
  \/ StillStanding /\ UpdatePosition(s)
  \/ StillStanding /\ pc'[s] \notin {"score", "write"}
  \/ StillStanding /\ s \notin Consumer
  \/ s \in Consumer /\ CommitScore(s)
  \/ s \notin Consumer /\ UNCHANGED <<scored, xp>> /\ season' = "finalized"

(* What it does to the prizes: nothing, or one more of a finalizer's list, *)
(* or the end of a list that is done.                                      *)
Quiet(s) ==
  /\ UNCHANGED <<season, final, prizes>> /\ faults' >= faults
  /\ pc'[s] = "reward" => pc[s] # "reward" /\ todo'[s] = Member
  /\ pc[s] = "reward" => faults' > faults

Paying(s) == Quiet(s) \/ Reward(s) \/ CommitFinal(s)

LEMMA EveryStep ==
  ASSUME TypeInv, [Next]_vars
  PROVE  Outside \/ \E s \in Session : Apart(s) /\ Ranking(s) /\ Paying(s)
<1> USE CohortAssumption DEF TypeInv, TypeOK, BusyInv, Session, StillStanding, Quiet
<1>0. ASSUME NEW s \in Session, Apart(s), Ranking(s), Paying(s)
      PROVE  \E a \in Session : Apart(a) /\ Ranking(a) /\ Paying(a)
  BY <1>0
<1>1. ASSUME NEW c \in Consumer, Poll(c) PROVE Apart(c) /\ Ranking(c) /\ Paying(c)
  BY <1>1 DEF Poll, Goto, store, locks, Apart, Ranking, Paying
<1>2. ASSUME NEW c \in Consumer, Done(c) PROVE Apart(c) /\ Ranking(c) /\ Paying(c)
  BY <1>2 DEF Done, Goto, store, locks, local, Apart, Ranking, Paying
<1>3. ASSUME NEW c \in Consumer, Ingest(c) PROVE Apart(c) /\ Ranking(c) /\ Paying(c)
  <2>1. UNCHANGED <<season, scored, xp, position, rowOwner, seen, todo,
                  final, prizes, faults>>
    BY <1>3 DEF Ingest, locks
  <2>2. (Goto(c, "lock") /\ UNCHANGED <<event, batch>>) \/ Mark(c, "failed")
    BY <1>3, Zenon DEF Ingest
  <2> QED BY <2>1, <2>2 DEF Goto, Mark, Apart, Ranking, Paying
<1>4. ASSUME NEW c \in Consumer, LockMember(c) PROVE Apart(c) /\ Ranking(c) /\ Paying(c)
  <2>1. Who(c) \in Member
    BY <1>4, CurrentIsAnEvent DEF LockMember
  <2>2. Apart(c)
    BY <1>4, <2>1 DEF LockMember, Goto, store, Apart
  <2>3. StillStanding
    BY <1>4 DEF LockMember, store
  <2> QED BY <1>4, <2>2, <2>3 DEF Ranking, Paying, LockMember, Goto, store
<1>5. ASSUME NEW c \in Consumer, Duplicate(c) PROVE Apart(c) /\ Ranking(c) /\ Paying(c)
  BY <1>5 DEF Duplicate, Goto, Mark, locks, Apart, Ranking, Paying
<1>6. ASSUME NEW c \in Consumer, Score(c) PROVE Apart(c) /\ Ranking(c) /\ Paying(c)
  <2>1. Apart(c)
    BY <1>6 DEF Score, Goto, store, locks, Apart
  <2>2. StillStanding
    BY <1>6 DEF Score, store
  <2> QED BY <1>6, <2>1, <2>2 DEF Ranking, Paying, Score, Goto, store
<1>7. ASSUME NEW c \in Consumer, CommitScore(c) PROVE Apart(c) /\ Ranking(c) /\ Paying(c)
  <2>1. Apart(c)
    BY <1>7, UnlockFrees DEF CommitScore, Forget, Goto, Apart
  <2>2. Quiet(c)
    BY <1>7 DEF CommitScore, Forget, Goto
  <2> QED BY <1>7, <2>1, <2>2 DEF Ranking, Paying
<1>8. ASSUME NEW c \in Consumer, Publish(c) PROVE Apart(c) /\ Ranking(c) /\ Paying(c)
  BY <1>8 DEF Publish, Goto, Mark, locks, Apart, Ranking, Paying
<1>9. ASSUME NEW s \in Session, UpdatePosition(s) PROVE Apart(s) /\ Ranking(s) /\ Paying(s)
  <2>1. Apart(s)
    BY <1>9 DEF UpdatePosition, First, store, Apart
  <2>2. StillStanding
    BY <1>9 DEF UpdatePosition, store
  <2>3. Quiet(s)
    BY <1>9 DEF UpdatePosition, store
  <2> QED BY <1>9, <2>1, <2>2, <2>3 DEF Ranking, Paying
<1>10. ASSUME NEW f \in Session, Positioned(f) PROVE Apart(f) /\ Ranking(f) /\ Paying(f)
  BY <1>10 DEF Positioned, Goto, store, locks, Apart, Ranking, Paying
<1>11. ASSUME NEW f \in Session, Reward(f) PROVE Apart(f) /\ Ranking(f) /\ Paying(f)
  BY <1>11 DEF Reward, store, locks, Apart, Ranking, Paying
<1>12. ASSUME NEW f \in Session, CommitFinal(f) PROVE Apart(f) /\ Ranking(f) /\ Paying(f)
  <2>1. Apart(f)
    BY <1>12, UnlockFrees DEF CommitFinal, Forget, Goto, Apart
  <2>2. f \notin Consumer /\ UNCHANGED <<scored, xp>> /\ season' = "finalized"
    BY <1>12 DEF CommitFinal
  <2> QED BY <1>12, <2>1, <2>2 DEF Ranking, Paying
<1>13. ASSUME NEW s \in Session, Victim(s) PROVE Apart(s) /\ Ranking(s) /\ Paying(s)
  <2>1. pc[s] \in {"lock", "write"}
    BY <1>13, DeadlockedWait DEF Victim
  <2>3. Unlock(s) /\ Forget(s) /\ UNCHANGED <<season, scored, xp, position, final, prizes, faults>>
    BY <1>13 DEF Victim
  <2>2. Mark(s, "failed") \/ (Goto(s, "idle") /\ UNCHANGED <<event, batch>>)
    BY <1>13, Zenon DEF Victim
  <2> QED BY <2>1, <2>2, <2>3, UnlockFrees DEF Forget, Goto, Mark, Apart, Ranking, Paying
<1>14. ASSUME NEW s \in Session, Crash(s) PROVE Apart(s) /\ Ranking(s) /\ Paying(s)
  BY <1>14, UnlockFrees DEF Crash, Forget, Goto, store, Apart, Ranking, Paying
<1>15. ASSUME NEW l \in Line, Enqueue(l) PROVE Outside
  BY <1>15 DEF Enqueue, locks, local, Outside
<1>16. ASSUME NEW f \in Finalizer, Finalize(f) PROVE Apart(f) /\ Ranking(f) /\ Paying(f)
  BY <1>16 DEF Finalize, Goto, store, Apart, Ranking, Paying
<1>17. ASSUME NEW c \in Consumer, Throw(c) PROVE Apart(c) /\ Ranking(c) /\ Paying(c)
  BY <1>17, UnlockFrees DEF Throw, Forget, Goto, Mark, Apart, Ranking, Paying
<1>18. CASE UNCHANGED vars
  BY <1>18 DEF vars, store, locks, local, Outside
<1> QED
  BY <1>0, <1>1, <1>2, <1>3, <1>4, <1>5, <1>6, <1>7, <1>8, <1>9, <1>10, <1>11, <1>12,
     <1>13, <1>14, <1>15, <1>16, <1>17, <1>18 DEF Next, Progress, Consume

(* A scoring consumer holds its member's row, for a line that is not       *)
(* scored, and read the XP it adds to; once it has ranked the peers it has *)
(* every row it is past, so that nobody else can have committed, and its   *)
(* ranking is of the XP as it stands, but for its own member.              *)
Holds(c) ==
  /\ pc[c] \in {"score", "write"} =>
       rowOwner[Who(c)] = c /\ Current(c)[1] \notin scored
  /\ pc[c] = "score" => seen[c][Who(c)] = xp[Who(c)]
  /\ pc[c] = "write" => /\ \A m \in Member : rowOwner[m] = c \/ m \in todo[c]
                        /\ \A m \in Member \ {Who(c)} : seen[c][m] = xp[m]
                        /\ seen[c][Who(c)] = xp[Who(c)] + Gain(c)

RankInv == (\A c \in Consumer : Holds(c)) /\ PositionsCurrent

LEMMA Ranked == Spec => []RankInv
<1>1. Init => RankInv
  BY CohortAssumption DEF Init, RankInv, Holds, PositionsCurrent, Session
<1>2. TypeInv /\ TypeInv' /\ RankInv /\ [Next]_vars => RankInv'
  <2> SUFFICES ASSUME TypeInv, TypeInv', RankInv, [Next]_vars PROVE RankInv'
    OBVIOUS
  <2> USE CohortAssumption DEF TypeInv, TypeOK, BusyInv, Session
  <2>1. CASE Outside
    <3>1. ASSUME NEW c \in Consumer PROVE Holds(c)'
      BY <2>1 DEF Outside, StillStanding, RankInv, Holds, Who, Gain, Current
    <3>2. PositionsCurrent'
      BY <2>1 DEF Outside, StillStanding, RankInv, PositionsCurrent
    <3> QED BY <3>1, <3>2 DEF RankInv
  <2>2. ASSUME NEW s \in Session, Apart(s), Ranking(s) PROVE RankInv'
    <3>1. ASSUME s \in Consumer, CommitScore(s)
          PROVE  /\ \A m \in Member : rowOwner[m] = s
                 /\ xp' = seen[s] /\ position' = PositionIn(xp')
                 /\ pc'[s] = "deliver"
      <4>1. Who(s) \in Member
        BY <3>1, CurrentIsAnEvent DEF CommitScore
      <4>2. /\ \A m \in Member : rowOwner[m] = s
            /\ \A m \in Member \ {Who(s)} : seen[s][m] = xp[m]
        BY <3>1 DEF CommitScore, RankInv, Holds
      <4>3. xp' = seen[s]
        BY <3>1, <4>1, <4>2 DEF CommitScore
      <4> QED BY <3>1, <4>2, <4>3 DEF CommitScore, Goto
    <3>2. ASSUME NEW c \in Consumer, c # s PROVE Holds(c)'
      <4>1. UNCHANGED <<Who(c), Gain(c), Current(c)>>
        BY <2>2, <3>2 DEF Apart, Who, Gain, Current
      <4>2. /\ pc'[c] = pc[c] /\ seen'[c] = seen[c] /\ todo'[c] = todo[c]
            /\ \A m \in Member : rowOwner[m] = c <=> rowOwner'[m] = c
        BY <2>2, <3>2 DEF Apart
      <4>3. pc[c] \in {"score", "write"} => Who(c) \in Member
        BY CurrentIsAnEvent
      <4>4. pc[c] \in {"score", "write"} => UNCHANGED <<scored, xp>>
        <5>1. pc[c] \in {"score", "write"} => rowOwner[Who(c)] = c
          BY DEF RankInv, Holds
        <5>2. CASE s \in Consumer /\ CommitScore(s)
          BY <3>1, <3>2, <4>3, <5>1, <5>2
        <5>3. CASE UNCHANGED <<scored, xp>>
          BY <5>3
        <5> QED BY <2>2, <5>2, <5>3 DEF Ranking, StillStanding
      <4> QED BY <4>1, <4>2, <4>3, <4>4 DEF RankInv, Holds
    <3>3. ASSUME s \in Consumer PROVE Holds(s)'
      <4>1. CASE StillStanding /\ LockMember(s)
        <5>1. Who(s) \in Member /\ UNCHANGED <<Who(s), Current(s)>>
          BY <4>1, CurrentIsAnEvent DEF LockMember, Who, Current
        <5>2. /\ pc'[s] = "score" /\ rowOwner'[Who(s)] = s
              /\ Current(s)[1] \notin scored' /\ seen'[s] = xp'
          BY <4>1, <5>1 DEF LockMember, Goto, store
        <5> QED BY <5>1, <5>2 DEF Holds
      <4>2. CASE StillStanding /\ Score(s)
        <5>1. /\ Who(s) \in Member /\ Gain(s) \in Nat
              /\ UNCHANGED <<Who(s), Gain(s), Current(s)>>
          BY <4>2, CurrentIsAnEvent DEF Score, Who, Gain, Current
        <5>2. /\ rowOwner'[Who(s)] = s /\ Current(s)[1] \notin scored'
              /\ pc'[s] = "write" /\ xp' = xp /\ todo'[s] = Member
              /\ \A m \in Member \ {Who(s)} : seen'[s][m] = xp[m]
              /\ seen'[s][Who(s)] = xp[Who(s)] + Gain(s)
          BY <3>3, <4>2, <5>1 DEF Score, Goto, store, locks, RankInv, Holds
        <5> QED BY <5>1, <5>2 DEF Holds
      <4>3. CASE StillStanding /\ UpdatePosition(s)
        <5>1. /\ pc[s] = "write" /\ Who(s) \in Member
              /\ UNCHANGED <<Who(s), Gain(s), Current(s)>>
          BY <3>3, <4>3, CurrentIsAnEvent DEF UpdatePosition, Who, Gain, Current
        <5>2. PICK m \in First(seen[s], todo[s]) :
                /\ rowOwner[m] \in {Nobody, s}
                /\ rowOwner' = [rowOwner EXCEPT ![m] = s]
                /\ todo' = [todo EXCEPT ![s] = @ \ {m}]
          BY <4>3 DEF UpdatePosition
        <5>3. m \in Member /\ UNCHANGED <<pc, seen, xp, scored>>
          BY <4>3, <5>2 DEF UpdatePosition, First, store
        <5> QED BY <3>3, <5>1, <5>2, <5>3 DEF RankInv, Holds
      <4>4. CASE pc'[s] \notin {"score", "write"}
        BY <4>4 DEF Holds
      <4>5. CASE CommitScore(s)
        BY <3>1, <3>3, <4>5 DEF Holds
      <4> QED BY <2>2, <3>3, <4>1, <4>2, <4>3, <4>4, <4>5 DEF Ranking
    <3>4. PositionsCurrent'
      <4>1. CASE StillStanding
        BY <4>1 DEF StillStanding, RankInv, PositionsCurrent
      <4>2. CASE s \in Consumer /\ CommitScore(s)
        BY <3>1, <4>2, PositionsRank DEF PositionsCurrent
      <4>3. CASE season' = "finalized"
        BY <4>3 DEF PositionsCurrent
      <4> QED BY <2>2, <4>1, <4>2, <4>3 DEF Ranking
    <3> QED BY <3>2, <3>3, <3>4 DEF RankInv
  <2> QED BY <2>1, <2>2, EveryStep
<1> QED BY <1>1, <1>2, Typed, PTL DEF Spec

(* The stored positions rank the stored XP in every committed state of an  *)
(* open season: the rows a scoring transaction must write keep every other *)
(* one from committing between its reading of the peers and its own end.   *)
THEOREM PositionsAreCurrent == Spec => []PositionsCurrent
<1>1. RankInv => PositionsCurrent
  BY DEF RankInv
<1> QED BY <1>1, Ranked, PTL

(* A member's XP moves only with a line that was not scored before, by     *)
(* that line's amount and for its earner: twins, racing consumers,         *)
(* deadlocks and crashes neither repeat nor lose an amount.                *)
XpMoves ==
  \/ UNCHANGED <<scored, xp>>
  \/ \E l \in Line \ scored : /\ scored' = scored \cup {l}
                             /\ xp' = [xp EXCEPT ![Earner[l]] = @ + Xp[l]]

(* Every step of a season scores at most one line, and scores it whole.    *)
THEOREM LinesAreScoredOnce == Spec => [][XpMoves]_vars
<1>1. ASSUME TypeInv, RankInv, [Next]_vars PROVE XpMoves
  <2> USE CohortAssumption DEF TypeInv, TypeOK, BusyInv, Session
  <2>1. CASE Outside
    BY <2>1 DEF Outside, StillStanding, XpMoves
  <2>2. ASSUME NEW s \in Session, Ranking(s) PROVE XpMoves
    <3>1. CASE UNCHANGED <<scored, xp>>
      BY <3>1 DEF XpMoves
    <3>2. CASE s \in Consumer /\ CommitScore(s)
      <4>1. Current(s)[1] \in Line /\ Who(s) \in Member
        BY <1>1, <3>2, CurrentIsAnEvent DEF CommitScore
      <4>2. Current(s)[1] \notin scored /\ seen[s][Who(s)] = xp[Who(s)] + Gain(s)
        BY <1>1, <3>2 DEF CommitScore, RankInv, Holds
      <4>3. /\ scored' = scored \cup {Current(s)[1]}
            /\ xp' = [xp EXCEPT ![Who(s)] = @ + Gain(s)]
        BY <3>2, <4>1, <4>2 DEF CommitScore
      <4> QED BY <4>1, <4>2, <4>3 DEF XpMoves, Who, Gain
    <3> QED BY <2>2, <3>1, <3>2 DEF Ranking, StillStanding
  <2> QED BY <1>1, <2>1, <2>2, EveryStep
<1> QED BY <1>1, Typed, Ranked, PTL DEF Spec
-----------------------------------------------------------------------------
(* Induction over finite sets, in the form the provers can use: a family   *)
(* of subsets of a finite set that has a member has a minimal one.         *)
LEMMA Smallest ==
  ASSUME NEW S, IsFiniteSet(S), NEW T \in SUBSET SUBSET S, T # {}
  PROVE  \E x \in T : \A y \in T : ~ (y \subseteq x /\ y # x)
<1>1. IsWellFoundedOn(StrictSubsetOrdering(S), FiniteSubsetsOf(S))
  BY FS_StrictSubsetOrderingWellFounded
<1>2. T \subseteq FiniteSubsetsOf(S)
  BY FS_Subset DEF FiniteSubsetsOf
<1>3. \E x \in T : \A y \in T : ~ (<<y, x>> \in StrictSubsetOrdering(S))
  BY <1>1, <1>2, WFMin
<1> QED BY <1>3, <1>2 DEF StrictSubsetOrdering

(* f gives for each subset of S what a sums up to on it, one member after  *)
(* the other, as the folds of the community modules take them.             *)
Some(s) == CHOOSE x \in s : TRUE
Sums(f, a, S) ==
  f = [s \in SUBSET S |-> IF s = {} THEN 0 ELSE a[Some(s)] + f[s \ {Some(s)}]]
Amounts(a, S) == \A x \in S : a[x] \in Nat

(* Sums over different sets agree where both are defined.                  *)
LEMMA SumsAgree ==
  ASSUME NEW R, IsFiniteSet(R), NEW S, NEW a, NEW b, NEW f, NEW g, Sums(f, a, R), Sums(g, b, S),
         NEW s \in SUBSET (R \cap S), \A x \in s : a[x] = b[x]
  PROVE  f[s] = g[s]
<1> DEFINE D == {r \in SUBSET s : f[r] # g[r]}
<1>1. SUFFICES ASSUME D # {} PROVE FALSE
  OBVIOUS
<1>2. IsFiniteSet(s) /\ D \in SUBSET SUBSET s
  BY FS_Subset
<1> HIDE DEF D
<1>3. PICK r \in D : \A q \in D : ~ (q \subseteq r /\ q # r)
  BY <1>1, <1>2, Smallest
<1>4. r \in SUBSET s /\ r \in SUBSET R /\ r \in SUBSET S /\ f[r] # g[r]
  BY <1>3 DEF D
<1>5. r # {} /\ Some(r) \in r
  BY <1>4 DEF Sums, Some
<1>6. f[r \ {Some(r)}] = g[r \ {Some(r)}]
  <2>1. r \ {Some(r)} \notin D
    BY <1>3, <1>5
  <2> QED BY <2>1, <1>4 DEF D
<1>7. f[r] = a[Some(r)] + f[r \ {Some(r)}] /\ g[r] = b[Some(r)] + g[r \ {Some(r)}]
  BY <1>4, <1>5 DEF Sums
<1>8. a[Some(r)] = b[Some(r)]
  BY <1>4, <1>5
<1> QED BY <1>4, <1>6, <1>7, <1>8

(* Every finite set has its sums.                                          *)
LEMMA SumsExist == ASSUME NEW S, IsFiniteSet(S), NEW a PROVE \E f : Sums(f, a, S)
<1> DEFINE D == {r \in SUBSET S : ~ \E f : Sums(f, a, r)}
           F(r) == CHOOSE f : Sums(f, a, r)
<1>1. SUFFICES ASSUME D # {} PROVE FALSE
  OBVIOUS
<1>2. D \in SUBSET SUBSET S
  OBVIOUS
<1> HIDE DEF D
<1>3. PICK r \in D : \A q \in D : ~ (q \subseteq r /\ q # r)
  BY <1>1, <1>2, Smallest
<1>4. r \in SUBSET S /\ ~ \E f : Sums(f, a, r)
  BY <1>3 DEF D
<1>5. ASSUME NEW q \in SUBSET r, q # r PROVE Sums(F(q), a, q)
  <2>1. q \notin D
    BY <1>3, <1>5
  <2>2. \E f : Sums(f, a, q)
    BY <2>1, <1>4 DEF D
  <2> QED BY <2>2
<1> HIDE DEF F
<1> DEFINE h == [s \in SUBSET r |-> IF s = {} THEN 0
                                   ELSE a[Some(s)] + F(s \ {Some(s)})[s \ {Some(s)}]]
<1>6. ASSUME NEW s \in SUBSET r, s # r PROVE h[s] = F(s)[s]
  <2>1. CASE s = {}
    BY <1>5, <1>6, <2>1 DEF Sums
  <2>2. CASE s # {}
    <3> DEFINE q == s \ {Some(s)}
    <3>1. Some(s) \in s
      BY <2>2 DEF Some
    <3>2. Sums(F(s), a, s) /\ Sums(F(q), a, q)
      BY <1>5, <1>6, <3>1
    <3>3. IsFiniteSet(s)
      BY <1>4, FS_Subset
    <3>4. F(s)[q] = F(q)[q]
      <4> HIDE DEF q
      <4>1. q \in SUBSET (s \cap q)
        BY DEF q
      <4> QED BY <3>2, <3>3, <4>1, SumsAgree
    <3>5. F(s)[s] = a[Some(s)] + F(s)[q]
      BY <2>2, <3>2 DEF Sums
    <3> QED BY <2>2, <3>4, <3>5
  <2> QED BY <2>1, <2>2
<1>7. Sums(h, a, r)
  <2>1. ASSUME NEW s \in SUBSET r, s # {} PROVE h[s \ {Some(s)}] = F(s \ {Some(s)})[s \ {Some(s)}]
    <3>1. Some(s) \in s
      BY <2>1 DEF Some
    <3>2. s \ {Some(s)} \in SUBSET r /\ s \ {Some(s)} # r
      BY <3>1
    <3> HIDE DEF h
    <3> QED BY <3>2, <1>6
  <2> QED BY <2>1 DEF Sums
<1> QED BY <1>4, <1>7

(* The order does not matter: any member may be taken from a sum.          *)
LEMMA SumsUnfold ==
  ASSUME NEW S, IsFiniteSet(S), NEW a, Amounts(a, S), NEW f, Sums(f, a, S)
  PROVE  \A s \in SUBSET S : f[s] \in Nat /\ \A x \in s : f[s] = a[x] + f[s \ {x}]
<1> DEFINE Good(s) == f[s] \in Nat /\ \A x \in s : f[s] = a[x] + f[s \ {x}]
           D == {r \in SUBSET S : ~Good(r)}
<1>1. SUFFICES ASSUME D # {} PROVE FALSE
  OBVIOUS
<1>2. D \in SUBSET SUBSET S
  OBVIOUS
<1> HIDE DEF D
<1>3. PICK r \in D : \A q \in D : ~ (q \subseteq r /\ q # r)
  BY <1>1, <1>2, Smallest
<1>4. r \in SUBSET S /\ ~Good(r)
  BY <1>3 DEF D
<1>5. ASSUME NEW q \in SUBSET r, q # r PROVE Good(q)
  BY <1>3, <1>4, <1>5 DEF D
<1>6. r # {}
  BY <1>4 DEF Sums
<1> DEFINE c == Some(r)
<1>7. c \in r /\ f[r] = a[c] + f[r \ {c}]
  BY <1>4, <1>6 DEF Sums, Some
<1> HIDE DEF c
<1>8. \A x \in r : a[x] \in Nat
  BY <1>4 DEF Amounts
<1>9. f[r] \in Nat
  BY <1>5, <1>7, <1>8
<1>10. ASSUME NEW x \in r, x # c PROVE f[r] = a[x] + f[r \ {x}]
  <2> DEFINE q == (r \ {c}) \ {x}
  <2>1. f[r \ {c}] = a[x] + f[q] /\ f[q] \in Nat
    BY <1>5, <1>7, <1>10
  <2>2. f[r \ {x}] = a[c] + f[q]
    <3>1. (r \ {x}) \ {c} = q
      OBVIOUS
    <3>2. f[r \ {x}] = a[c] + f[(r \ {x}) \ {c}]
      BY <1>5, <1>7, <1>10
    <3> QED BY <3>1, <3>2
  <2>3. a[c] \in Nat /\ a[x] \in Nat
    BY <1>7, <1>8
  <2> HIDE DEF q
  <2> QED BY <1>7, <2>1, <2>2, <2>3
<1> QED BY <1>4, <1>7, <1>9, <1>10

(* The sum of a over S, and what is needed of it: nothing is 0; one more   *)
(* member adds its amount; only the amounts on S matter; smaller amounts   *)
(* make no greater sum.                                                    *)
SumOf(a, S) == (CHOOSE f : Sums(f, a, S))[S]

LEMMA SumIsFold ==
  ASSUME NEW S, IsFiniteSet(S), NEW a
  PROVE  MapThenFoldSet(+, 0, LAMBDA x : a[x], LAMBDA s : CHOOSE x \in s : TRUE, S) = SumOf(a, S)
BY DEF MapThenFoldSet, SumOf, Sums, Some

LEMMA SumIsThere ==
  ASSUME NEW S, IsFiniteSet(S), NEW a
  PROVE  \E f : Sums(f, a, S) /\ SumOf(a, S) = f[S]
BY SumsExist DEF SumOf

LEMMA SumOfNone == ASSUME NEW a PROVE SumOf(a, {}) = 0
<1>1. PICK f : Sums(f, a, {}) /\ SumOf(a, {}) = f[{}]
  BY FS_EmptySet, SumIsThere
<1> QED BY <1>1 DEF Sums

LEMMA SumTakes ==
  ASSUME NEW T, IsFiniteSet(T), NEW a, Amounts(a, T), NEW x \in T
  PROVE  SumOf(a, T \ {x}) \in Nat /\ SumOf(a, T) = SumOf(a, T \ {x}) + a[x]
<1> DEFINE S == T \ {x}
<1>1. IsFiniteSet(S) /\ S \in SUBSET (S \cap T) /\ T \in SUBSET T /\ S \in SUBSET T
  BY FS_Subset
<1>4. PICK f : Sums(f, a, S) /\ SumOf(a, S) = f[S]
  BY <1>1, SumIsThere
<1>5. PICK g : Sums(g, a, T) /\ SumOf(a, T) = g[T]
  BY SumIsThere
<1>6. \A s \in SUBSET T : g[s] \in Nat /\ \A y \in s : g[s] = a[y] + g[s \ {y}]
  BY <1>5, SumsUnfold, Z3
<1>7. g[T] = a[x] + g[S] /\ g[S] \in Nat
  BY <1>1, <1>6
<1>8. f[S] = g[S]
  <2> HIDE DEF S
  <2> QED BY <1>1, <1>4, <1>5, SumsAgree
<1>9. a[x] \in Nat
  BY DEF Amounts
<1> HIDE DEF S
<1>10. SumOf(a, T) = SumOf(a, S) + a[x] /\ SumOf(a, S) \in Nat
  BY <1>4, <1>5, <1>7, <1>8, <1>9
<1> QED BY <1>10 DEF S

LEMMA SumAdds ==
  ASSUME NEW S, IsFiniteSet(S), NEW a, NEW x, x \notin S, Amounts(a, S \cup {x})
  PROVE  SumOf(a, S) \in Nat /\ SumOf(a, S \cup {x}) = SumOf(a, S) + a[x]
<1> DEFINE T == S \cup {x}
<1>1. IsFiniteSet(T) /\ x \in T /\ T \ {x} = S /\ Amounts(a, T)
  BY FS_AddElement
<1> HIDE DEF T
<1>2. SumOf(a, T \ {x}) \in Nat /\ SumOf(a, T) = SumOf(a, T \ {x}) + a[x]
  BY <1>1, SumTakes
<1> QED BY <1>1, <1>2 DEF T

LEMMA SumSame ==
  ASSUME NEW S, IsFiniteSet(S), NEW a, NEW b, \A x \in S : a[x] = b[x]
  PROVE  SumOf(a, S) = SumOf(b, S)
<1>1. PICK f : Sums(f, a, S) /\ SumOf(a, S) = f[S]
  BY SumIsThere
<1>2. PICK g : Sums(g, b, S) /\ SumOf(b, S) = g[S]
  BY SumIsThere
<1> QED BY <1>1, <1>2, SumsAgree

LEMMA SumAtMost ==
  ASSUME NEW S, IsFiniteSet(S), NEW a, NEW b, Amounts(a, S), Amounts(b, S),
         \A x \in S : a[x] <= b[x]
  PROVE  SumOf(a, S) <= SumOf(b, S) /\ SumOf(a, S) \in Nat /\ SumOf(b, S) \in Nat
<1>1. PICK f : Sums(f, a, S) /\ SumOf(a, S) = f[S]
  BY SumIsThere
<1>2. PICK g : Sums(g, b, S) /\ SumOf(b, S) = g[S]
  BY SumIsThere
<1>3. f[S] \in Nat /\ g[S] \in Nat
  BY <1>1, <1>2, SumsUnfold
<1> DEFINE D == {r \in SUBSET S : ~(f[r] <= g[r])}
<1>4. D = {}
  <2> SUFFICES ASSUME D # {} PROVE FALSE
    OBVIOUS
  <2>1. D \in SUBSET SUBSET S
    OBVIOUS
  <2> HIDE DEF D
  <2>2. PICK r \in D : \A q \in D : ~ (q \subseteq r /\ q # r)
    BY <2>1, Smallest
  <2>3. r \in SUBSET S /\ ~(f[r] <= g[r])
    BY <2>2 DEF D
  <2>4. r # {}
    BY <2>3, <1>1, <1>2 DEF Sums
  <2>5. PICK x \in r : TRUE
    BY <2>4
  <2>6. f[r] = a[x] + f[r \ {x}] /\ f[r \ {x}] \in Nat
    BY <1>1, <2>3, <2>5, SumsUnfold
  <2>7. g[r] = b[x] + g[r \ {x}] /\ g[r \ {x}] \in Nat
    BY <1>2, <2>3, <2>5, SumsUnfold
  <2>8. f[r \ {x}] <= g[r \ {x}]
    <3>1. r \ {x} \notin D
      BY <2>2, <2>5
    <3> QED BY <3>1, <2>3 DEF D
  <2>9. a[x] \in Nat /\ b[x] \in Nat /\ a[x] <= b[x]
    BY <2>3, <2>5 DEF Amounts
  <2> QED BY <2>3, <2>6, <2>7, <2>8, <2>9
<1> QED BY <1>1, <1>2, <1>3, <1>4

(* One member's amount changed, and the others' not.                       *)
LEMMA SumMoves ==
  ASSUME NEW S, IsFiniteSet(S), NEW a, NEW b, NEW x \in S, Amounts(a, S), Amounts(b, S),
         \A y \in S \ {x} : a[y] = b[y]
  PROVE  SumOf(a, S) \in Nat /\ SumOf(b, S) = SumOf(a, S) - a[x] + b[x]
<1> DEFINE R == S \ {x}
<1>1. IsFiniteSet(R) /\ \A y \in R : a[y] = b[y]
  BY FS_Subset
<1>2. SumOf(a, R) = SumOf(b, R)
  BY <1>1, SumSame
<1>3. SumOf(a, R) \in Nat /\ SumOf(a, S) = SumOf(a, R) + a[x]
  BY SumTakes
<1>4. SumOf(b, S) = SumOf(b, R) + b[x]
  BY SumTakes
<1>5. a[x] \in Nat /\ b[x] \in Nat
  BY DEF Amounts
<1> HIDE DEF R
<1> QED BY <1>2, <1>3, <1>4, <1>5

LEMMA XpOfIsSum == ASSUME NEW S, IsFiniteSet(S) PROVE XpOf(S) = SumOf(Xp, S)
BY DEF XpOf, FoldSet, MapThenFoldSet, SumOf, Sums, Some

(* Only finitely many lines are ever scored, and a member's XP is their    *)
(* sum.                                                                    *)
XpInv == IsFiniteSet(scored) /\ XpIsScored

(* However many consumers handle a line or its twin, and whatever aborts   *)
(* or crashes, the XP of a member is what its score events add up to.      *)
THEOREM XpIsWhatWasScored == Spec => []XpIsScored
<1>1. Init => XpInv
  <2> SUFFICES ASSUME Init PROVE XpInv
    OBVIOUS
  <2>1. \A m \in Member : {l \in scored : Earner[l] = m} = {} /\ xp[m] = 0
    BY DEF Init
  <2>2. XpOf({}) = 0
    BY FS_EmptySet, XpOfIsSum, SumOfNone
  <2> QED BY <2>1, <2>2, FS_EmptySet DEF Init, XpInv, XpIsScored
<1>2. ASSUME TypeInv, XpInv, [XpMoves]_vars PROVE XpInv'
  <2>1. CASE UNCHANGED <<scored, xp>>
    BY <1>2, <2>1 DEF XpInv, XpIsScored
  <2>2. ASSUME NEW l \in Line \ scored, scored' = scored \cup {l},
               xp' = [xp EXCEPT ![Earner[l]] = @ + Xp[l]]
        PROVE  XpInv'
    <3>1. IsFiniteSet(scored') /\ scored \subseteq Line
      BY <1>2, <2>2, FS_AddElement DEF XpInv, TypeInv, TypeOK
    <3>2. ASSUME NEW m \in Member PROVE xp'[m] = XpOf({k \in scored' : Earner[k] = m})
      <4> DEFINE mine == {k \in scored : Earner[k] = m}
                 now == {k \in scored' : Earner[k] = m}
      <4>1. IsFiniteSet(mine) /\ mine \subseteq Line /\ l \in Line \ mine
        BY <1>2, <2>2, <3>1, FS_Subset DEF XpInv
      <4>2. xp[m] = XpOf(mine) /\ xp \in [Member -> Nat]
        BY <1>2 DEF XpInv, XpIsScored, TypeInv, TypeOK
      <4>3. CASE Earner[l] = m
        <5>1. now = mine \cup {l}
          BY <2>2, <4>3
        <5>2. xp'[m] = xp[m] + Xp[l]
          BY <2>2, <4>2, <4>3
        <5> HIDE DEF mine, now
        <5>3. Amounts(Xp, mine \cup {l})
          BY <4>1, CohortAssumption DEF Amounts
        <5>4. IsFiniteSet(mine \cup {l})
          BY <4>1, FS_AddElement
        <5> QED BY <4>1, <4>2, <5>1, <5>2, <5>3, <5>4, SumAdds, XpOfIsSum DEF now
      <4>4. CASE Earner[l] # m
        <5>1. now = mine
          BY <2>2, <4>4
        <5>2. xp'[m] = xp[m]
          BY <2>2, <4>2, <4>4
        <5> QED BY <4>2, <5>1, <5>2
      <4> QED BY <4>3, <4>4
    <3> QED BY <3>1, <3>2 DEF XpInv, XpIsScored
  <2> QED BY <1>2, <2>1, <2>2 DEF XpMoves, vars, store
<1>3. XpInv => XpIsScored
  BY DEF XpInv
<1> QED BY <1>1, <1>2, <1>3, Typed, LinesAreScoredOnce, PTL DEF Spec
-----------------------------------------------------------------------------
(* Of a finalizer's list, those it is past are paid.                       *)
PaidInv ==
  /\ \A f \in Finalizer : pc[f] = "reward" => \A m \in Member : m \in todo[f] \/ prizes[m] >= 1
  /\ NobodyForgotten

(* A finalized season has paid everyone and left everyone's result: the    *)
(* season is finalized with the end of the list, and payments stay.        *)
THEOREM NobodyIsForgotten == Spec => []NobodyForgotten
<1>1. Init => PaidInv
  BY DEF Init, PaidInv, NobodyForgotten, Session
<1>2. TypeInv /\ PaidInv /\ [Next]_vars => PaidInv'
  <2> SUFFICES ASSUME TypeInv, PaidInv, [Next]_vars PROVE PaidInv'
    OBVIOUS
  <2> USE DEF TypeInv, TypeOK, BusyInv, Session, PaidInv, NobodyForgotten
  <2>1. CASE Outside
    BY <2>1 DEF Outside, StillStanding
  <2>2. ASSUME NEW s \in Session, Apart(s), Paying(s) PROVE PaidInv'
    <3>1. CASE Quiet(s)
      BY <2>2, <3>1 DEF Apart, Quiet
    <3>2. CASE Reward(s)
      BY <2>2, <3>2 DEF Apart, Reward, First, store
    <3>3. CASE CommitFinal(s)
      BY <2>2, <3>3 DEF Apart, CommitFinal, Goto
    <3> QED BY <2>2, <3>1, <3>2, <3>3 DEF Paying
  <2> QED BY <2>1, <2>2, EveryStep
<1>3. PaidInv => NobodyForgotten
  BY DEF PaidInv
<1> QED BY <1>1, <1>2, <1>3, Typed, PTL DEF Spec

(* Without a failure a prize is only ever paid by the finalizer that is in *)
(* its list, past the member, and by the one that finalized the season.    *)
OnceInv ==
  faults = 0 => \A m \in Member :
    /\ prizes[m] <= 1
    /\ prizes[m] = 1 => \/ season = "finalized"
                        \/ \E f \in Finalizer : pc[f] = "reward" /\ m \notin todo[f]

(* However many finalizers come, together or after one another, each prize *)
(* is paid at most once if none of them fails halfway.                     *)
THEOREM PrizesArePaidOnce == Spec => []PrizeOnceIfNoneFails
<1>1. Init => OnceInv
  BY DEF Init, OnceInv, Session
<1>2. TypeInv /\ OnceInv /\ [Next]_vars => OnceInv'
  <2> SUFFICES ASSUME TypeInv, OnceInv, [Next]_vars PROVE OnceInv'
    OBVIOUS
  <2> USE CohortAssumption DEF TypeInv, TypeOK, BusyInv, Session, OnceInv
  <2>1. CASE Outside
    BY <2>1 DEF Outside, StillStanding
  <2>2. ASSUME NEW s \in Session, Apart(s), Paying(s) PROVE OnceInv'
    <3>1. CASE Quiet(s)
      BY <2>2, <3>1 DEF Apart, Quiet
    <3>2. CASE Reward(s)
      <4>1. s \in Finalizer /\ season = "active" /\ season' = season /\ faults' = faults
        BY <3>2 DEF Reward, store
      <4>2. \A f \in Finalizer : pc[f] # "idle" => f = s
        BY <3>2, <4>1 DEF Reward
      <4>3. PICK m \in First(seen[s], todo[s]) :
              /\ prizes' = [prizes EXCEPT ![m] = @ + 1]
              /\ todo' = [todo EXCEPT ![s] = @ \ {m}]
        BY <3>2 DEF Reward
      <4>4. m \in Member /\ m \in todo[s]
        BY <4>3 DEF First
      <4>5. faults = 0 => prizes[m] = 0
        <5>1. prizes[m] = 1 => faults # 0
          <6> SUFFICES ASSUME prizes[m] = 1, faults = 0 PROVE FALSE
            OBVIOUS
          <6>1. PICK f \in Finalizer : pc[f] = "reward" /\ m \notin todo[f]
            BY <4>1, <4>4
          <6>2. f = s
            BY <4>2, <6>1
          <6> QED BY <4>4, <6>1, <6>2
        <5>2. prizes[m] \in Nat
          BY <4>4
        <5>3. faults = 0 => prizes[m] <= 1
          BY <4>4
        <5>4. \A n \in Nat : n <= 1 /\ n # 1 => n = 0
          OBVIOUS
        <5> QED BY <5>1, <5>2, <5>3, <5>4, Zenon
      <4> QED BY <3>2, <4>1, <4>2, <4>3, <4>4, <4>5 DEF Reward
    <3>3. CASE CommitFinal(s)
      BY <3>3 DEF CommitFinal
    <3> QED BY <2>2, <3>1, <3>2, <3>3 DEF Paying
  <2> QED BY <2>1, <2>2, EveryStep
<1>3. TypeInv /\ OnceInv => PrizeOnceIfNoneFails
  BY DEF OnceInv, PrizeOnceIfNoneFails
<1> QED BY <1>1, <1>2, <1>3, Typed, PTL DEF Spec
-----------------------------------------------------------------------------
(* The ladder.  Its parts are named as in LeagueLadder.                    *)
GateMet(p) == /\ rank >= Ladder!RankGate[p.tier + 1]
              /\ p.tier = 5 => seals >= Ladder!MasterMinSeals

LadderInv == Ladder!TypeOK /\ GateMet(place) /\ (cohort # Ladder!NoCohort => GateMet(cohort))

LEMMA GatesGrow ==
  /\ Ladder!RankGate[1] = 1
  /\ \A s, t \in Ladder!Tier :
       /\ Ladder!RankGate[t + 1] \in 1..10
       /\ s <= t => Ladder!RankGate[s + 1] <= Ladder!RankGate[t + 1]
<1> DEFINE G == Ladder!RankGate
<1>1. G = <<1, 3, 4, 6, 8, 10>>
  BY DEF Ladder!RankGate
<1>2. G[1] = 1 /\ G[2] = 3 /\ G[3] = 4 /\ G[4] = 6 /\ G[5] = 8 /\ G[6] = 10
  BY <1>1
<1> HIDE DEF G
<1>3. ASSUME NEW t \in 0..5 PROVE t = 0 \/ t = 1 \/ t = 2 \/ t = 3 \/ t = 4 \/ t = 5
  OBVIOUS
<1>4. \A s, t \in 0..5 : G[t + 1] \in 1..10 /\ (s <= t => G[s + 1] <= G[t + 1])
  BY <1>2, <1>3
<1> QED BY <1>2, <1>4 DEF Ladder!Tier, G

(* One step of the ladder is one division, and stays on it.                *)
LEMMA StepsAreSmall ==
  ASSUME NEW p \in Ladder!Place
  PROVE  /\ Ladder!PromoteOne(p) \in Ladder!Place /\ Ladder!DemoteOne(p) \in Ladder!Place
         /\ Ladder!Height(Ladder!PromoteOne(p)) >= Ladder!Height(p)
         /\ Ladder!Height(Ladder!DemoteOne(p)) <= Ladder!Height(p)
         /\ Ladder!DemoteOne(p).tier <= p.tier
         /\ Ladder!DemoteOne(p).tier = 5 => p.tier = 5
BY DEF Ladder!Place, Ladder!Tier, Ladder!Division, Ladder!PromoteOne, Ladder!DemoteOne, Ladder!Height

(* A finalized season moves a learner by one division at most, up only     *)
(* through the gate, and from a better position never lower.               *)
LEMMA OutcomeIsFair ==
  ASSUME NEW p \in Ladder!Place, NEW n, NEW i \in Nat, NEW r, NEW g
  PROVE  /\ Ladder!Outcome(p, n, i, r, g).place
              \in {p, Ladder!DemoteOne(p)} \cup
                  (IF Ladder!MeetsTierGate(Ladder!PromoteOne(p).tier, r, g)
                   THEN {Ladder!PromoteOne(p)} ELSE {})
         /\ i <= Ladder!PromoteCount(n) =>
              Ladder!Outcome(p, n, i, r, g).place = Ladder!Raised(p, r, g).place
         /\ ~(i <= Ladder!PromoteCount(n)) => Ladder!Outcome(p, n, i, r, g).place =
              IF Ladder!InDemotion(n, i) THEN Ladder!Lowered(p).place ELSE p
BY DEF Ladder!Outcome, Ladder!Raised, Ladder!Lowered

LEMMA ZonesAreApart ==
  ASSUME NEW n \in Nat \ {0}
  PROVE  /\ Ladder!PromoteCount(n) \in Nat /\ Ladder!DemoteCount(n) \in Nat
         /\ Ladder!PromoteCount(n) + Ladder!DemoteCount(n) <= n
         /\ n >= 2 => Ladder!PromoteCount(n) + Ladder!DemoteCount(n) < n
<1>1. (n * 23) \div 100 \in Nat /\ (n * 17) \div 100 \in Nat
  OBVIOUS
<1>2. (n * 23) \div 100 <= n /\ (n >= 2 => (n * 23) \div 100 < n)
  OBVIOUS
<1> QED BY <1>1, <1>2 DEF Ladder!PromoteCount, Ladder!DemoteCount, Ladder!Share, Ladder!Larger

(* The finalized place is a place, and its gate is met if the gate of the  *)
(* place before was.                                                       *)
LEMMA OutcomesMeetTheirGate ==
  ASSUME Ladder!TypeOK, NEW p \in Ladder!Place, GateMet(p), NEW n, NEW i \in Nat
  PROVE  LET q == Ladder!Outcome(p, n, i, rank, seals).place
         IN  q \in Ladder!Place /\ GateMet(q)
<1> DEFINE up == Ladder!PromoteOne(p)  down == Ladder!DemoteOne(p)
           q == Ladder!Outcome(p, n, i, rank, seals).place
<1>1. up \in Ladder!Place /\ down \in Ladder!Place /\ down.tier <= p.tier
      /\ (down.tier = 5 => p.tier = 5)
  BY StepsAreSmall
<1>2. q = p \/ q = down \/ (q = up /\ Ladder!MeetsTierGate(up.tier, rank, seals))
  BY OutcomeIsFair
<1>3. down.tier \in Ladder!Tier /\ p.tier \in Ladder!Tier
  BY <1>1 DEF Ladder!Place
<1>4. GateMet(down)
  <2> HIDE DEF down
  <2>1. /\ Ladder!RankGate[down.tier + 1] <= Ladder!RankGate[p.tier + 1]
        /\ Ladder!RankGate[down.tier + 1] \in 1..10 /\ Ladder!RankGate[p.tier + 1] \in 1..10
    BY <1>1, <1>3, GatesGrow
  <2>2. rank >= Ladder!RankGate[p.tier + 1] /\ rank \in Nat
    BY DEF GateMet, Ladder!TypeOK
  <2>3. rank >= Ladder!RankGate[down.tier + 1]
    BY <2>1, <2>2
  <2> QED BY <1>1, <2>3 DEF GateMet
<1>5. Ladder!MeetsTierGate(up.tier, rank, seals) => GateMet(up)
  BY DEF Ladder!MeetsTierGate, GateMet
<1> HIDE DEF up, down, q
<1>6. q \in Ladder!Place /\ GateMet(q)
  BY <1>1, <1>2, <1>4, <1>5
<1> QED BY <1>6 DEF q

LEMMA GatesStay ==
  ASSUME Ladder!TypeOK, NEW p \in Ladder!Place, GateMet(p),
         rank' >= rank, seals' >= seals, rank' \in Nat, seals' \in Nat
  PROVE  /\ rank' >= Ladder!RankGate[p.tier + 1]
         /\ p.tier = 5 => seals' >= Ladder!MasterMinSeals
<1>1. p.tier \in Ladder!Tier
  BY DEF Ladder!Place
<1>2. Ladder!RankGate[p.tier + 1] \in 1..10
  BY <1>1, GatesGrow
<1>3. rank \in Nat /\ seals \in Nat
  BY DEF Ladder!TypeOK, Ladder!MasterMinSeals
<1>4. rank >= Ladder!RankGate[p.tier + 1] /\ (p.tier = 5 => seals >= 12)
  BY DEF GateMet, Ladder!MasterMinSeals
<1> QED BY <1>2, <1>3, <1>4 DEF Ladder!MasterMinSeals

LEMMA LadderStep ==
  ASSUME LadderInv, Ladder!Next
  PROVE  LadderInv'
<1> USE LadderAssumption
<1>1. Ladder!TypeOK /\ GateMet(place) /\ (cohort # Ladder!NoCohort => GateMet(cohort))
  BY DEF LadderInv
<1>2. Ladder!Bottom \in Ladder!Place /\ GateMet(Ladder!Bottom)
  BY <1>1, GatesGrow
     DEF Ladder!Bottom, Ladder!Place, Ladder!Tier, Ladder!Division, GateMet, Ladder!TypeOK
<1>3. /\ place \in Ladder!Place /\ cohort \in Ladder!Place \cup {Ladder!NoCohort}
      /\ rank \in 1..10 /\ seals \in 0..12 /\ empty \in 0..MaxEmpty /\ inactive \in BOOLEAN
  BY <1>1 DEF Ladder!TypeOK, Ladder!MasterMinSeals
<1>4. CASE UNCHANGED <<rank, seals>> /\ place' \in Ladder!Place /\ GateMet(place')
           /\ cohort' \in Ladder!Place \cup {Ladder!NoCohort}
           /\ (cohort' # Ladder!NoCohort => GateMet(cohort'))
           /\ empty' \in 0..MaxEmpty /\ inactive' \in BOOLEAN
  BY <1>3, <1>4 DEF LadderInv, Ladder!TypeOK, GateMet, Ladder!MasterMinSeals
<1>5. CASE UNCHANGED <<place, cohort, empty, inactive>> /\ rank' >= rank /\ seals' >= seals
           /\ rank' \in 1..10 /\ seals' \in 0..12
  <2>1. GateMet(place)'
    BY <1>1, <1>3, <1>5, GatesStay DEF GateMet
  <2>2. cohort # Ladder!NoCohort => GateMet(cohort)'
    BY <1>1, <1>3, <1>5, GatesStay DEF GateMet
  <2> QED BY <1>3, <1>5, <2>1, <2>2 DEF LadderInv, Ladder!TypeOK, Ladder!MasterMinSeals
<1>6. CASE Ladder!Assign
  BY <1>1, <1>2, <1>3, <1>4, <1>6 DEF Ladder!Assign
<1>7. CASE Ladder!FinishIdle
  BY <1>1, <1>3, <1>4, <1>7 DEF Ladder!FinishIdle, Ladder!IdleOutcome
<1>8. CASE Ladder!RankUp
  BY <1>3, <1>5, <1>8 DEF Ladder!RankUp
<1>9. CASE Ladder!Seal
  BY <1>3, <1>5, <1>9 DEF Ladder!Seal, Ladder!MasterMinSeals
<1>10. ASSUME NEW n \in CohortSize, NEW i \in 1..n, Ladder!FinishActive(n, i)
       PROVE  LadderInv'
  <2>1. i \in Nat /\ cohort \in Ladder!Place /\ GateMet(cohort)
    BY <1>1, <1>3, <1>10 DEF Ladder!FinishActive
  <2>2. place' \in Ladder!Place /\ GateMet(place')
    BY <1>1, <1>10, <2>1, OutcomesMeetTheirGate DEF Ladder!FinishActive
  <2>3. /\ UNCHANGED <<rank, seals>> /\ cohort' = Ladder!NoCohort
        /\ empty' = 0 /\ inactive' = FALSE
    BY <1>10 DEF Ladder!FinishActive
  <2>4. 0 \in 0..MaxEmpty
    BY LadderAssumption
  <2>5. empty' \in 0..MaxEmpty /\ inactive' \in BOOLEAN
    BY <2>3, <2>4
  <2> QED BY <1>4, <2>2, <2>3, <2>5
<1> QED BY <1>6, <1>7, <1>8, <1>9, <1>10 DEF Ladder!Next

LEMMA BetterDoesBetter ==
  ASSUME Ladder!TypeOK
  PROVE  Ladder!BetterIsBetter
<1> SUFFICES ASSUME NEW n \in CohortSize, NEW i \in 1..n, NEW j \in i..n
             PROVE  Ladder!Height(Ladder!Outcome(place, n, i, rank, seals).place)
                      >= Ladder!Height(Ladder!Outcome(place, n, j, rank, seals).place)
  BY DEF Ladder!BetterIsBetter
<1> DEFINE at(k) == Ladder!Outcome(place, n, k, rank, seals).place
           up == Ladder!PromoteOne(place)  down == Ladder!DemoteOne(place)
           raised == Ladder!Raised(place, rank, seals).place
           lowered == Ladder!Lowered(place).place
<1>1. n \in Nat \ {0} /\ i \in Nat /\ j \in Nat /\ i <= j /\ j <= n
  BY LadderAssumption
<1>2. Ladder!PromoteCount(n) \in Nat /\ Ladder!DemoteCount(n) \in Nat
  BY <1>1, ZonesAreApart
<1>3. /\ place \in Ladder!Place /\ up \in Ladder!Place /\ down \in Ladder!Place
      /\ Ladder!Height(up) >= Ladder!Height(place)
      /\ Ladder!Height(down) <= Ladder!Height(place)
  BY StepsAreSmall DEF Ladder!TypeOK
<1>4. raised \in {up, place} /\ lowered \in {down, place}
  BY DEF Ladder!Raised, Ladder!Lowered
<1>5. ASSUME NEW k \in {i, j}
      PROVE  /\ k <= Ladder!PromoteCount(n) => at(k) = raised
             /\ ~(k <= Ladder!PromoteCount(n)) =>
                  at(k) = IF Ladder!InDemotion(n, k) THEN lowered ELSE place
  BY <1>1, <1>3, OutcomeIsFair
<1>6. Ladder!Height(up) \in Int /\ Ladder!Height(down) \in Int /\ Ladder!Height(place) \in Int
  <2>1. \A p \in Ladder!Place : Ladder!Height(p) \in Int
    BY DEF Ladder!Height, Ladder!Place, Ladder!Tier, Ladder!Division
  <2> HIDE DEF up, down
  <2> QED BY <1>3, <2>1
<1>7. Ladder!InDemotion(n, i) => Ladder!InDemotion(n, j)
  BY <1>1, <1>2 DEF Ladder!InDemotion
<1> HIDE DEF at, up, down, raised, lowered
<1>8. Ladder!Height(at(i)) >= Ladder!Height(at(j))
  BY <1>1, <1>2, <1>3, <1>4, <1>5, <1>6, <1>7
<1> QED BY <1>8 DEF at

(* Nobody is ever in a tier whose gate of rank and seals was not met,      *)
(* whatever seasons with and without XP, promotions, demotions and ranks   *)
(* came in which order, and for cohorts of every size a better position    *)
(* never ends lower than a worse one would have.                           *)
THEOREM LaddersAreFair == LeaguesSpec => []LadderIsFair
<1>1. LeaguesInit => LadderInv
  <2> SUFFICES ASSUME Ladder!Init PROVE LadderInv
    BY DEF LeaguesInit
  <2>1. /\ place = Ladder!Bottom /\ cohort = Ladder!NoCohort
        /\ rank = 1 /\ seals = 0 /\ empty = 0 /\ inactive = FALSE
    BY DEF Ladder!Init
  <2>2. 0 \in 0..MaxEmpty
    BY LadderAssumption
  <2>3. Ladder!Bottom \in Ladder!Place
    BY DEF Ladder!Bottom, Ladder!Place, Ladder!Tier, Ladder!Division
  <2>4. place \in Ladder!Place /\ cohort \in Ladder!Place \cup {Ladder!NoCohort}
    BY <2>1, <2>3
  <2>5. rank \in 1..10 /\ seals \in 0..12
    BY <2>1
  <2>6. empty \in 0..MaxEmpty /\ inactive \in BOOLEAN
    BY <2>1, <2>2
  <2>7. Ladder!TypeOK
    BY <2>4, <2>5, <2>6 DEF Ladder!TypeOK, Ladder!MasterMinSeals
  <2>8. GateMet(place)
    <3>1. place.tier = 0
      BY <2>1 DEF Ladder!Bottom
    <3> QED BY <2>1, <3>1, GatesGrow DEF GateMet
  <2> QED BY <2>1, <2>7, <2>8 DEF LadderInv
<1>2. LadderInv /\ [LeaguesNext]_<<vars, crew, ladder>> => LadderInv'
  <2> SUFFICES ASSUME LadderInv, [LeaguesNext]_<<vars, crew, ladder>> PROVE LadderInv'
    OBVIOUS
  <2>1. CASE UNCHANGED ladder
    BY <2>1 DEF ladder, LadderInv, Ladder!TypeOK, GateMet
  <2>2. CASE Ladder!Next
    BY <2>2, LadderStep
  <2> QED BY <2>1, <2>2 DEF LeaguesNext
<1>3. LadderInv => LadderIsFair
  <2> SUFFICES ASSUME LadderInv PROVE LadderIsFair
    OBVIOUS
  <2>1. Ladder!GateStands
    BY DEF LadderInv, GateMet, Ladder!GateStands
  <2>2. Ladder!BetterIsBetter
    BY BetterDoesBetter DEF LadderInv
  <2> QED BY <2>1, <2>2 DEF LadderIsFair
<1> QED BY <1>1, <1>2, <1>3, PTL DEF LeaguesSpec

(* What the run checks is a season (or a ladder beside a season that does  *)
(* not begin): the theorems about Spec are about it.                       *)
LEMMA SeasonsOfTheRun == LeaguesSpec => Spec
<1>1. LeaguesInit => Init
  BY DEF LeaguesInit
<1>2. [LeaguesNext]_<<vars, crew, ladder>> => [Next]_vars
  BY DEF LeaguesNext
<1> QED BY <1>1, <1>2, PTL DEF LeaguesSpec, Spec
-----------------------------------------------------------------------------
(* The lobby of the battles, whose results pay league XP under a cap.      *)
CONSTANTS Player, Key, Herald, Stake, Purse, PairCap, CoinsCap, LeagueCap, BattleXp, MaxBattles, LastDay
VARIABLES contests, paidOut, purses, herald, battleDay, rushed
Lobby == INSTANCE BattleLobby WITH Xp <- BattleXp

(* The instance's own copies of the library's operators are the library's. *)
LEMMA SameCount == ASSUME NEW S PROVE Lobby!Cardinality(S) = Cardinality(S)
BY DEF Lobby!Cardinality, Cardinality

LEMMA SameSum == ASSUME NEW g PROVE Lobby!FoldFunction(+, 0, g) = SumOf(g, DOMAIN g)
BY DEF Lobby!FoldFunction, Lobby!FoldFunctionOnSet, Lobby!MapThenFoldSet, SumOf, Sums, Some

LobbyConstants ==
  /\ IsFiniteSet(Player)
  /\ {Stake, Purse, PairCap, CoinsCap, LeagueCap, BattleXp, MaxBattles, LastDay} \subseteq Nat

Errands == [at : {"other", "insert"}, from : Player, to : Player, key : Key]

(* What the rows hold, and what a handler of a challenge carries.          *)
LobbyRows ==
  /\ contests \in Seq(Lobby!Contest)
  /\ \A b \in DOMAIN contests : contests[b].from # contests[b].to
  /\ purses \in [Player -> Nat] /\ battleDay \in Lobby!Day /\ rushed \subseteq Player
  /\ herald = [h \in Herald |-> herald[h]]
  /\ \A h \in Herald : \/ herald[h] = Lobby!NoErrand
                       \/ herald[h] \in Errands /\ herald[h].from # herald[h].to

LEMMA FunctionIsSeq ==
  ASSUME NEW S, NEW n \in Nat, NEW f \in [1..n -> S]
  PROVE  f \in Seq(S) /\ Len(f) = n /\ DOMAIN f = 1..n
OBVIOUS

LEMMA ContestOf ==
  ASSUME contests \in Seq(Lobby!Contest)
  PROVE  /\ Len(contests) \in Nat /\ DOMAIN contests = 1..Len(contests)
         /\ contests \in [1..Len(contests) -> Lobby!Contest]
         /\ \A b \in DOMAIN contests : contests[b] \in Lobby!Contest
OBVIOUS

(* The battles stay, whose they are stays, and a settled one stays as it   *)
(* is; only an acceptance makes an invitation a battle that is played.     *)
BattlesStay ==
  /\ contests' \in Seq(Lobby!Contest)
  /\ DOMAIN contests \subseteq DOMAIN contests'
  /\ \A b \in DOMAIN contests :
       /\ contests'[b].from = contests[b].from /\ contests'[b].to = contests[b].to
       /\ contests'[b].key = contests[b].key
       /\ contests[b].status = "settled" => contests'[b] = contests[b]

(* An action that changes the battles alone, and makes or ends no play.    *)
Inviting ==
  /\ UNCHANGED <<paidOut, purses, battleDay, rushed>>
  /\ \A b \in DOMAIN contests' :
       /\ contests'[b].from # contests'[b].to
       /\ contests'[b].status \in {"playing", "settled"} => b \in DOMAIN contests /\ contests'[b] = contests[b]
       /\ b \in DOMAIN contests => /\ contests[b].status \in {"playing", "settled"} => contests'[b] = contests[b]
                                   /\ contests'[b].status \in Lobby!Active => contests[b].status \in Lobby!Active

LEMMA Invites ==
  ASSUME LobbyRows,
         \/ \E h \in Herald : Lobby!Insert(h)
         \/ \E b \in DOMAIN contests : Lobby!Decline(b) \/ Lobby!Lapse(b)
         \/ Lobby!ExpireStale
  PROVE  BattlesStay /\ Inviting
<1> USE DEF LobbyRows
<1>0. /\ Len(contests) \in Nat /\ DOMAIN contests = 1..Len(contests)
      /\ contests \in [1..Len(contests) -> Lobby!Contest]
  BY ContestOf
<1>1. ASSUME NEW h \in Herald, Lobby!Insert(h) PROVE BattlesStay /\ Inviting
  <2> DEFINE new == [from |-> herald[h].from, to |-> herald[h].to, key |-> herald[h].key,
                     status |-> "invited", lapsed |-> FALSE, day |-> battleDay]
  <2>1. herald[h] \in Errands /\ herald[h].from # herald[h].to
    BY <1>1 DEF Lobby!Insert, Lobby!NoErrand
  <2>2. new \in Lobby!Contest /\ new.from # new.to /\ new.status = "invited"
    BY <2>1 DEF Errands, Lobby!Contest
  <2>3. contests' = Append(contests, new) /\ UNCHANGED <<paidOut, purses, battleDay, rushed>>
    BY <1>1 DEF Lobby!Insert
  <2> HIDE DEF new
  <2>4. /\ contests' \in Seq(Lobby!Contest) /\ DOMAIN contests' = 1..(Len(contests) + 1)
        /\ \A b \in DOMAIN contests : contests'[b] = contests[b]
        /\ contests'[Len(contests) + 1] = new
    BY <1>0, <2>2, <2>3
  <2> QED BY <1>0, <2>2, <2>3, <2>4 DEF BattlesStay, Inviting
<1>2. ASSUME contests' \in [1..Len(contests) -> Lobby!Contest],
             UNCHANGED <<paidOut, purses, battleDay, rushed>>,
             \A b \in DOMAIN contests :
               \/ contests'[b] = contests[b]
               \/ /\ contests[b].status = "invited" /\ contests'[b].status \notin {"playing", "settled"}
                  /\ contests'[b].from = contests[b].from /\ contests'[b].to = contests[b].to
                  /\ contests'[b].key = contests[b].key
      PROVE  BattlesStay /\ Inviting
  <2>1. contests' \in Seq(Lobby!Contest) /\ DOMAIN contests' = DOMAIN contests
    BY <1>0, <1>2, FunctionIsSeq
  <2> QED BY <1>2, <2>1 DEF BattlesStay, Inviting, Lobby!Active
<1>3. ASSUME NEW b \in DOMAIN contests, Lobby!Decline(b) \/ Lobby!Lapse(b) PROVE BattlesStay /\ Inviting
  <2>1. contests[b] \in Lobby!Contest
    BY <1>0
  <2>2. [contests[b] EXCEPT !.status = "closed"] \in Lobby!Contest
    BY <2>1 DEF Lobby!Contest
  <2>3. [contests[b] EXCEPT !.lapsed = TRUE] \in Lobby!Contest
    BY <2>1 DEF Lobby!Contest
  <2>4. contests' \in [1..Len(contests) -> Lobby!Contest]
    BY <1>0, <1>3, <2>2, <2>3 DEF Lobby!Decline, Lobby!Lapse, Lobby!Status
  <2>5. /\ [contests[b] EXCEPT !.status = "closed"].from = contests[b].from
        /\ [contests[b] EXCEPT !.status = "closed"].to = contests[b].to
        /\ [contests[b] EXCEPT !.status = "closed"].key = contests[b].key
        /\ [contests[b] EXCEPT !.status = "closed"].status = "closed"
        /\ [contests[b] EXCEPT !.lapsed = TRUE].from = contests[b].from
        /\ [contests[b] EXCEPT !.lapsed = TRUE].to = contests[b].to
        /\ [contests[b] EXCEPT !.lapsed = TRUE].key = contests[b].key
        /\ [contests[b] EXCEPT !.lapsed = TRUE].status = contests[b].status
    BY <2>1 DEF Lobby!Contest
  <2>6. /\ contests[b].status = "invited"
        /\ \/ contests'[b] = [contests[b] EXCEPT !.status = "closed"]
           \/ contests'[b] = [contests[b] EXCEPT !.lapsed = TRUE]
        /\ \A c \in DOMAIN contests \ {b} : contests'[c] = contests[c]
    BY <1>0, <1>3 DEF Lobby!Decline, Lobby!Lapse, Lobby!Status
  <2>7. UNCHANGED <<paidOut, purses, battleDay, rushed>>
    BY <1>3 DEF Lobby!Decline, Lobby!Lapse
  <2>8. /\ contests'[b].status \notin {"playing", "settled"}
        /\ contests'[b].from = contests[b].from /\ contests'[b].to = contests[b].to
        /\ contests'[b].key = contests[b].key
    BY <2>5, <2>6
  <2>9. ASSUME NEW c \in DOMAIN contests, c # b PROVE contests'[c] = contests[c]
    BY <2>6, <2>9
  <2>10. ASSUME NEW c \in DOMAIN contests PROVE
           \/ contests'[c] = contests[c]
           \/ /\ contests[c].status = "invited" /\ contests'[c].status \notin {"playing", "settled"}
              /\ contests'[c].from = contests[c].from /\ contests'[c].to = contests[c].to
              /\ contests'[c].key = contests[c].key
    BY <2>6, <2>8, <2>9
  <2> QED BY <1>2, <2>4, <2>7, <2>10
<1>4. ASSUME Lobby!ExpireStale PROVE BattlesStay /\ Inviting
  <2>1. ASSUME NEW c \in Lobby!Contest PROVE
          /\ [c EXCEPT !.status = "expired"] \in Lobby!Contest
          /\ [c EXCEPT !.status = "expired"].from = c.from /\ [c EXCEPT !.status = "expired"].to = c.to
          /\ [c EXCEPT !.status = "expired"].key = c.key /\ [c EXCEPT !.status = "expired"].status = "expired"
    BY DEF Lobby!Contest
  <2>2. contests' \in [1..Len(contests) -> Lobby!Contest]
    BY <1>0, <1>4, <2>1 DEF Lobby!ExpireStale
  <2>3. ASSUME NEW b \in DOMAIN contests PROVE
          \/ contests'[b] = contests[b]
          \/ contests[b].status = "invited" /\ contests'[b] = [contests[b] EXCEPT !.status = "expired"]
    BY <1>0, <1>4 DEF Lobby!ExpireStale
  <2>4. UNCHANGED <<paidOut, purses, battleDay, rushed>>
    BY <1>4 DEF Lobby!ExpireStale
  <2>5. ASSUME NEW b \in DOMAIN contests PROVE
          \/ contests'[b] = contests[b]
          \/ /\ contests[b].status = "invited" /\ contests'[b].status \notin {"playing", "settled"}
             /\ contests'[b].from = contests[b].from /\ contests'[b].to = contests[b].to
             /\ contests'[b].key = contests[b].key
    BY <1>0, <2>1, <2>3
  <2> QED BY <1>2, <2>2, <2>4, <2>5
<1> QED BY <1>1, <1>3, <1>4

(* Acceptance and settlement, which change one battle's status.            *)
LEMMA Plays ==
  ASSUME LobbyRows, NEW b \in DOMAIN contests, Lobby!Accept(b) \/ Lobby!Settle(b)
  PROVE  /\ BattlesStay
         /\ DOMAIN contests' = DOMAIN contests
         /\ \A c \in DOMAIN contests \ {b} : contests'[c] = contests[c]
         /\ Lobby!Accept(b) => contests[b].status = "invited" /\ contests'[b].status = "playing"
         /\ Lobby!Settle(b) => /\ contests[b].status = "playing" /\ contests'[b].status = "settled"
                               /\ contests'[b].day = battleDay
<1>0. /\ Len(contests) \in Nat /\ DOMAIN contests = 1..Len(contests)
      /\ contests \in [1..Len(contests) -> Lobby!Contest] /\ contests[b] \in Lobby!Contest
  BY ContestOf DEF LobbyRows
<1>1. ASSUME NEW c \in Lobby!Contest, contests' = [contests EXCEPT ![b] = c],
             c.from = contests[b].from, c.to = contests[b].to, c.key = contests[b].key,
             contests[b].status # "settled"
      PROVE  BattlesStay /\ DOMAIN contests' = DOMAIN contests /\ contests'[b] = c
             /\ \A d \in DOMAIN contests \ {b} : contests'[d] = contests[d]
  <2>1. contests' \in [1..Len(contests) -> Lobby!Contest]
    BY <1>0, <1>1
  <2>2. contests' \in Seq(Lobby!Contest) /\ DOMAIN contests' = DOMAIN contests
    BY <1>0, <2>1, FunctionIsSeq
  <2> QED BY <1>0, <1>1, <2>2 DEF BattlesStay
<1>2. CASE Lobby!Accept(b)
  <2> DEFINE c == [contests[b] EXCEPT !.status = "playing"]
  <2>1. c \in Lobby!Contest /\ c.from = contests[b].from /\ c.to = contests[b].to
        /\ c.key = contests[b].key /\ c.status = "playing"
    BY <1>0 DEF Lobby!Contest
  <2>2. contests' = [contests EXCEPT ![b] = c] /\ contests[b].status = "invited"
    BY <1>2 DEF Lobby!Accept, Lobby!Status
  <2> HIDE DEF c
  <2>3. contests'[b] = c /\ ~Lobby!Settle(b)
    BY <1>0, <2>2 DEF Lobby!Settle
  <2> QED BY <1>1, <2>1, <2>2, <2>3
<1>3. CASE Lobby!Settle(b)
  <2> DEFINE c == [contests[b] EXCEPT !.status = "settled", !.day = battleDay]
  <2>1. c \in Lobby!Contest /\ c.from = contests[b].from /\ c.to = contests[b].to
        /\ c.key = contests[b].key /\ c.status = "settled" /\ c.day = battleDay
    BY <1>0 DEF Lobby!Contest, LobbyRows
  <2>2. contests' = [contests EXCEPT ![b] = c] /\ contests[b].status = "playing"
    BY <1>3 DEF Lobby!Settle
  <2> HIDE DEF c
  <2>3. contests'[b] = c /\ ~Lobby!Accept(b)
    BY <1>0, <2>2 DEF Lobby!Accept
  <2> QED BY <1>1, <2>1, <2>2, <2>3
<1> QED BY <1>2, <1>3

(* What is left of a challenge: handlers pass, the day changes.            *)
LEMMA Passes ==
  ASSUME LobbyRows,
         \/ \E h \in Herald, p, q \in Player, key \in Key : Lobby!Challenge(h, p, q, key)
         \/ \E h \in Herald : Lobby!CheckOther(h)
         \/ Lobby!Midnight
         \/ UNCHANGED Lobby!vars
  PROVE  BattlesStay /\ UNCHANGED <<contests, paidOut, purses>>
BY DEF LobbyRows, BattlesStay, Lobby!Challenge, Lobby!CheckOther, Lobby!Midnight, Lobby!vars

(* The disjuncts of a step: the same actions, a rematch being a challenge. *)
LEMMA LobbySteps ==
  ASSUME LobbyRows, [Lobby!Next]_Lobby!vars
  PROVE  \/ \E h \in Herald, p, q \in Player, key \in Key : Lobby!Challenge(h, p, q, key)
         \/ \E h \in Herald : Lobby!CheckOther(h) \/ Lobby!Insert(h)
         \/ \E b \in DOMAIN contests : Lobby!Accept(b) \/ Lobby!Decline(b) \/ Lobby!Lapse(b) \/ Lobby!Settle(b)
         \/ Lobby!ExpireStale \/ Lobby!Midnight \/ UNCHANGED Lobby!vars
<1>1. ASSUME NEW h \in Herald, NEW b \in DOMAIN contests, NEW p \in Player, NEW key \in Key,
             Lobby!Rematch(h, b, p, key)
      PROVE  \E q \in Player : Lobby!Challenge(h, p, q, key)
  <2>1. Lobby!Between(b) \subseteq Player
    BY ContestOf DEF LobbyRows, Lobby!Between, Lobby!Contest
  <2> QED BY <1>1, <2>1 DEF Lobby!Rematch
<1> QED BY <1>1 DEF Lobby!Next

(* A settlement shares the pot between the two, and gives each a coin for  *)
(* taking part while the day allows it.                                    *)
LEMMA PotIsShared ==
  ASSUME LobbyConstants, LobbyRows, NEW b \in DOMAIN contests, Lobby!Settle(b),
         NEW p, p = contests[b].from, NEW q, q = contests[b].to
  PROVE  /\ p \in Player /\ q \in Player /\ p # q /\ Lobby!Between(b) = {p, q}
         /\ \A r \in Player : Lobby!Participation(r) \in {0, 1}
         /\ \E x, y \in Nat :
              /\ x + y = 2 * Stake
              /\ purses' = [r \in Player |->
                   purses[r] + (IF r = p THEN x + Lobby!Participation(p)
                                ELSE IF r = q THEN y + Lobby!Participation(q) ELSE 0)]
<1>1. p \in Player /\ q \in Player /\ p # q /\ Lobby!Between(b) = {p, q}
  BY ContestOf DEF LobbyRows, Lobby!Between, Lobby!Contest
<1>2. \A r \in Player : Lobby!Participation(r) \in {0, 1}
  BY DEF Lobby!Participation
<1>3. PICK winners \in {Lobby!Between(b)} \cup {{r} : r \in Lobby!Between(b)} :
        purses' = [r \in Player |->
          purses[r] + (IF r \in winners THEN (2 * Stake) \div Lobby!Cardinality(winners) ELSE 0)
                    + (IF r \in Lobby!Between(b) THEN Lobby!Participation(r) ELSE 0)]
  BY DEF Lobby!Settle
<1>4. winners = {p, q} \/ winners = {p} \/ winners = {q}
  BY <1>1, <1>3
<1>5. Cardinality({p}) = 1 /\ Cardinality({q}) = 1 /\ Cardinality({p, q}) = 2
  <2>1. {p, q} = {p} \cup {q} /\ q \notin {p}
    BY <1>1
  <2>2. Cardinality({p}) = 1 /\ Cardinality({q}) = 1 /\ IsFiniteSet({p})
    BY FS_Singleton
  <2>3. Cardinality({p} \cup {q}) = 1 + 1
    BY <2>1, <2>2, FS_AddElement
  <2> QED BY <2>1, <2>2, <2>3
<1>6. Stake \in Nat /\ \A r \in Player : purses[r] \in Nat
  BY DEF LobbyConstants, LobbyRows
<1> DEFINE share == (2 * Stake) \div Lobby!Cardinality(winners)
           x == IF p \in winners THEN share ELSE 0
           y == IF q \in winners THEN share ELSE 0
<1>7. x \in Nat /\ y \in Nat /\ x + y = 2 * Stake
  <2>1. CASE winners = {p, q}
    <3>1. share = (2 * Stake) \div 2
      BY <1>5, <2>1, SameCount
    <3>2. share = Stake
      BY <1>6, <3>1
    <3> QED BY <1>6, <2>1, <3>2
  <2>2. CASE winners = {p} \/ winners = {q}
    <3>1. share = (2 * Stake) \div 1
      BY <1>5, <2>2, SameCount
    <3>2. share = 2 * Stake
      BY <1>6, <3>1
    <3> QED BY <1>1, <1>6, <2>2, <3>2
  <2> QED BY <1>4, <2>1, <2>2
<1> DEFINE part(r) == Lobby!Participation(r)
<1>8. ASSUME NEW r \in Player
      PROVE  purses[r] + (IF r \in winners THEN share ELSE 0) + (IF r \in {p, q} THEN part(r) ELSE 0)
               = purses[r] + (IF r = p THEN x + part(p) ELSE IF r = q THEN y + part(q) ELSE 0)
  <2>1. part(r) \in Nat /\ x \in Nat /\ y \in Nat /\ purses[r] \in Nat
    BY <1>2, <1>6, <1>7
  <2> HIDE DEF part, share
  <2> QED BY <1>1, <1>4, <1>7, <2>1
<1>9. purses' = [r \in Player |-> purses[r] + (IF r = p THEN x + part(p)
                                             ELSE IF r = q THEN y + part(q) ELSE 0)]
  BY <1>1, <1>3, <1>8
<1> HIDE DEF x, y
<1> QED BY <1>1, <1>2, <1>7, <1>9

LEMMA RowsStay == ASSUME LobbyConstants, LobbyRows, [Lobby!Next]_Lobby!vars PROVE LobbyRows'
<1> USE DEF LobbyRows
<1>1. BattlesStay
  BY LobbySteps, Invites, Plays, Passes
<1>2. \A b \in DOMAIN contests' : contests'[b].from # contests'[b].to
  <2>1. CASE Inviting
    BY <2>1 DEF Inviting
  <2>2. CASE DOMAIN contests' = DOMAIN contests
    BY <1>1, <2>2 DEF BattlesStay
  <2> QED BY <2>1, <2>2, LobbySteps, Invites, Plays, Passes
<1>3. purses' \in [Player -> Nat]
  <2>1. ASSUME NEW b \in DOMAIN contests, Lobby!Accept(b) PROVE purses' \in [Player -> Nat]
    <3>1. \A p \in Player : p \in Lobby!Between(b) => purses[p] - Stake \in Nat
      BY <2>1 DEF Lobby!Accept, LobbyConstants
    <3> QED BY <2>1, <3>1 DEF Lobby!Accept, Lobby!Escrowed
  <2>2. ASSUME NEW b \in DOMAIN contests, Lobby!Settle(b) PROVE purses' \in [Player -> Nat]
    <3>1. PICK p, q : p = contests[b].from /\ q = contests[b].to
      OBVIOUS
    <3>2. Lobby!Settle(b) /\ LobbyRows /\ LobbyConstants
      BY <2>2
    <3> HIDE DEF LobbyRows
    <3>3. /\ p \in Player /\ q \in Player
          /\ \A r \in Player : Lobby!Participation(r) \in {0, 1}
      BY <3>1, <3>2, PotIsShared
    <3>4. PICK x \in Nat, y \in Nat :
            purses' = [r \in Player |->
              purses[r] + (IF r = p THEN x + Lobby!Participation(p)
                           ELSE IF r = q THEN y + Lobby!Participation(q) ELSE 0)]
      BY <3>1, <3>2, PotIsShared
    <3>5. purses \in [Player -> Nat]
      BY <3>2 DEF LobbyRows
    <3> QED BY <3>3, <3>4, <3>5
  <2>3. CASE Inviting
    BY <2>3 DEF Inviting
  <2>4. CASE UNCHANGED purses
    BY <2>4
  <2> QED BY <2>1, <2>2, <2>3, <2>4, LobbySteps, Invites, Passes
<1>4. battleDay' \in Lobby!Day /\ rushed' \subseteq Player
  <2>1. ASSUME NEW h \in Herald, NEW p \in Player, NEW q \in Player, NEW key \in Key,
               Lobby!Challenge(h, p, q, key)
        PROVE  battleDay' = battleDay /\ rushed' \subseteq Player
    BY <2>1 DEF Lobby!Challenge
  <2>2. ASSUME Lobby!Midnight PROVE battleDay' \in Lobby!Day /\ rushed' = rushed
    BY <2>2 DEF Lobby!Midnight, Lobby!Day, LobbyConstants
  <2>3. CASE UNCHANGED <<battleDay, rushed>>
    BY <2>3
  <2> QED BY <2>1, <2>2, <2>3, LobbySteps DEF Lobby!CheckOther, Lobby!Insert, Lobby!Accept,
          Lobby!Decline, Lobby!Lapse, Lobby!Settle, Lobby!ExpireStale, Lobby!vars
<1>5. /\ herald' = [h \in Herald |-> herald'[h]]
      /\ \A h \in Herald : \/ herald'[h] = Lobby!NoErrand
                           \/ herald'[h] \in Errands /\ herald'[h].from # herald'[h].to
  <2>1. ASSUME NEW h \in Herald, NEW p \in Player, NEW q \in Player, NEW key \in Key,
               Lobby!Challenge(h, p, q, key)
        PROVE  <1>5!1 /\ <1>5!2
    BY <2>1 DEF Lobby!Challenge, Errands
  <2>2. ASSUME NEW h \in Herald, Lobby!CheckOther(h) PROVE <1>5!1 /\ <1>5!2
    <3>1. herald[h] \in Errands /\ herald[h].from # herald[h].to
      BY <2>2 DEF Lobby!CheckOther, Lobby!NoErrand
    <3>2. [herald[h] EXCEPT !.at = "insert"] \in Errands
          /\ [herald[h] EXCEPT !.at = "insert"].from = herald[h].from
          /\ [herald[h] EXCEPT !.at = "insert"].to = herald[h].to
      BY <3>1 DEF Errands
    <3> QED BY <2>2, <3>1, <3>2 DEF Lobby!CheckOther
  <2>3. ASSUME NEW h \in Herald, Lobby!Insert(h) PROVE <1>5!1 /\ <1>5!2
    BY <2>3 DEF Lobby!Insert
  <2>4. CASE UNCHANGED herald
    BY <2>4
  <2> QED BY <2>1, <2>2, <2>3, <2>4, LobbySteps DEF Lobby!Accept, Lobby!Decline, Lobby!Lapse,
          Lobby!Settle, Lobby!ExpireStale, Lobby!Midnight, Lobby!vars
<1> QED BY <1>1, <1>2, <1>3, <1>4, <1>5 DEF BattlesStay

-----------------------------------------------------------------------------
(* A result is of a settled battle and its day, of one of its two players, *)
(* written once, and gives no more league XP than XP.                      *)
Results ==
  /\ IsFiniteSet(paidOut)
  /\ \A r \in paidOut :
       /\ r.contest \in DOMAIN contests /\ contests[r.contest].status = "settled"
       /\ r.who \in Lobby!Between(r.contest) /\ r.day = contests[r.contest].day
       /\ r.reward.xp \in Nat /\ r.reward.league \in Nat /\ r.reward.league <= r.reward.xp
       /\ r.reward.coins \in {0, 1}
  /\ \A r, s \in paidOut : r.contest = s.contest /\ r.who = s.who => r = s

(* The row that a settlement writes for a player.                          *)
Row(b, p) == [contest |-> b, who |-> p, day |-> battleDay, reward |-> Lobby!RewardFor(b, p)]
XpRows(p) == [r \in Lobby!Today(p) |-> r.reward.xp]
UsedXp(p) == SumOf(XpRows(p), Lobby!Today(p))

LEMMA RowHolds ==
  ASSUME LobbyConstants, LobbyRows, Results, NEW b \in DOMAIN contests, NEW p
  PROVE  /\ Row(b, p).contest = b /\ Row(b, p).who = p /\ Row(b, p).day = battleDay
         /\ Row(b, p).reward.xp = Lobby!XpFor(b) /\ Lobby!XpFor(b) \in Nat
         /\ Row(b, p).reward.coins = Lobby!Participation(p) /\ Lobby!Participation(p) \in {0, 1}
         /\ Row(b, p).reward.league \in Nat /\ Row(b, p).reward.league <= Row(b, p).reward.xp
         /\ UsedXp(p) \in Nat
         /\ Row(b, p).reward.league = 0 \/ UsedXp(p) + Row(b, p).reward.league <= LeagueCap
<1>1. /\ Row(b, p).contest = b /\ Row(b, p).who = p /\ Row(b, p).day = battleDay
      /\ Row(b, p).reward.xp = Lobby!XpFor(b)
      /\ Row(b, p).reward.coins = Lobby!Participation(p)
      /\ Row(b, p).reward.league = Lobby!LeagueFor(p, Lobby!XpFor(b))
  BY DEF Row, Lobby!RewardFor
<1>2. Lobby!XpFor(b) \in Nat /\ Lobby!Participation(p) \in {0, 1}
  BY DEF Lobby!XpFor, Lobby!Participation, LobbyConstants
<1>3. UsedXp(p) \in Nat /\ Lobby!FoldFunction(+, 0, XpRows(p)) = UsedXp(p)
  <2>1. Lobby!Today(p) \subseteq paidOut /\ IsFiniteSet(Lobby!Today(p))
    BY FS_Subset DEF Lobby!Today, Results
  <2>2. Amounts(XpRows(p), Lobby!Today(p)) /\ DOMAIN XpRows(p) = Lobby!Today(p)
    BY <2>1 DEF Amounts, XpRows, Results
  <2>3. \A r \in Lobby!Today(p) : XpRows(p)[r] <= XpRows(p)[r]
    BY <2>2 DEF Amounts
  <2>4. UsedXp(p) \in Nat
    BY <2>1, <2>2, <2>3, SumAtMost DEF UsedXp
  <2> QED BY <2>2, <2>4, SameSum DEF UsedXp
<1>4. LET left == IF UsedXp(p) >= LeagueCap THEN 0 ELSE LeagueCap - UsedXp(p)
      IN  Lobby!LeagueFor(p, Lobby!XpFor(b)) = IF Lobby!XpFor(b) <= left THEN Lobby!XpFor(b) ELSE left
  BY <1>3 DEF Lobby!LeagueFor, XpRows
<1>5. LeagueCap \in Nat
  BY DEF LobbyConstants
<1> DEFINE won == Lobby!XpFor(b)
           used == UsedXp(p)
           league == Lobby!LeagueFor(p, Lobby!XpFor(b))
<1>6. won \in Nat /\ used \in Nat
      /\ league = IF won <= (IF used >= LeagueCap THEN 0 ELSE LeagueCap - used) THEN won
                  ELSE (IF used >= LeagueCap THEN 0 ELSE LeagueCap - used)
  BY <1>2, <1>3, <1>4
<1>7. Row(b, p).reward.league = league /\ Row(b, p).reward.xp = won
  BY <1>1
<1> HIDE DEF won, used, league
<1>8. league \in Nat /\ league <= won /\ (league = 0 \/ used + league <= LeagueCap)
  BY <1>5, <1>6
<1> QED BY <1>1, <1>2, <1>3, <1>7, <1>8 DEF used

(* What a settlement writes.                                               *)
LEMMA TwoRows ==
  ASSUME LobbyConstants, LobbyRows, Results, NEW b \in DOMAIN contests, Lobby!Settle(b),
         NEW p, p = contests[b].from, NEW q, q = contests[b].to
  PROVE  /\ paidOut' = (paidOut \cup {Row(b, p)}) \cup {Row(b, q)}
         /\ Row(b, p) \notin paidOut /\ Row(b, q) \notin paidOut \cup {Row(b, p)}
<1>1. p # q /\ Lobby!Between(b) = {p, q}
  BY PotIsShared
<1>2. Row(b, p).contest = b /\ Row(b, q).contest = b /\ Row(b, p).who = p /\ Row(b, q).who = q
  BY DEF Row
<1>3. paidOut' = paidOut \cup {Row(b, r) : r \in {p, q}}
  BY <1>1 DEF Lobby!Settle, Row
<1>4. contests[b].status = "playing"
  BY DEF Lobby!Settle
<1>5. \A r \in paidOut : r.contest # b
  BY <1>4 DEF Results
<1> QED BY <1>1, <1>2, <1>3, <1>5

LEMMA ResultsStay ==
  ASSUME LobbyConstants, LobbyRows, Results, [Lobby!Next]_Lobby!vars
  PROVE  Results'
<1>1. BattlesStay
  BY LobbySteps, Invites, Plays, Passes
<1>2. ASSUME NEW r \in paidOut
      PROVE  /\ r.contest \in DOMAIN contests' /\ contests'[r.contest].status = "settled"
             /\ r.who \in {contests'[r.contest].from, contests'[r.contest].to}
             /\ r.day = contests'[r.contest].day
  BY <1>1 DEF Results, BattlesStay, Lobby!Between
<1>3. CASE paidOut' = paidOut
  BY <1>2, <1>3 DEF Results, Lobby!Between
<1>4. ASSUME NEW b \in DOMAIN contests, Lobby!Settle(b) PROVE Results'
  <2>1. PICK p, q : p = contests[b].from /\ q = contests[b].to
    OBVIOUS
  <2>2. /\ paidOut' = (paidOut \cup {Row(b, p)}) \cup {Row(b, q)}
        /\ Row(b, p) \notin paidOut /\ Row(b, q) \notin paidOut \cup {Row(b, p)}
    BY <1>4, <2>1, TwoRows
  <2>3. p # q
    BY <2>1 DEF LobbyRows
  <2>4. IsFiniteSet(paidOut')
    BY <2>2, FS_AddElement DEF Results
  <2>5. \A r \in paidOut : r.contest # b
    BY <1>4 DEF Results, Lobby!Settle
  <2>6. /\ b \in DOMAIN contests' /\ contests'[b].status = "settled" /\ contests'[b].day = battleDay
        /\ contests'[b].from = p /\ contests'[b].to = q
    BY <1>1, <1>4, <2>1, Plays DEF BattlesStay
  <2>7. ASSUME NEW w \in {p, q}, NEW r, r = Row(b, w)
        PROVE  /\ r.contest = b /\ r.who = w /\ r.day = battleDay
               /\ r.reward.xp \in Nat /\ r.reward.league \in Nat /\ r.reward.league <= r.reward.xp
               /\ r.reward.coins \in {0, 1}
    BY <2>7, RowHolds
  <2>8. ASSUME NEW r \in paidOut'
        PROVE  /\ r.contest \in DOMAIN contests' /\ contests'[r.contest].status = "settled"
               /\ r.who \in {contests'[r.contest].from, contests'[r.contest].to}
               /\ r.day = contests'[r.contest].day
               /\ r.reward.xp \in Nat /\ r.reward.league \in Nat /\ r.reward.league <= r.reward.xp
               /\ r.reward.coins \in {0, 1}
    <3>1. CASE r \in paidOut
      BY <1>2, <3>1 DEF Results
    <3>2. ASSUME NEW w \in {p, q}, r = Row(b, w) PROVE <2>8!2
      BY <2>6, <2>7, <3>2
    <3> QED BY <2>2, <3>1, <3>2
  <2>9. \A r, s \in paidOut' : r.contest = s.contest /\ r.who = s.who => r = s
    BY <2>2, <2>3, <2>5, <2>7 DEF Results
  <2> QED BY <2>4, <2>8, <2>9 DEF Results, Lobby!Between
<1> QED BY <1>3, <1>4, LobbySteps, Invites DEF Inviting, Lobby!Challenge, Lobby!CheckOther, Lobby!Accept,
        Lobby!Midnight, Lobby!vars
-----------------------------------------------------------------------------
Playing == {b \in DOMAIN contests : contests[b].status = "playing"}
CoinRows(R) == {r \in R : r.reward.coins > 0}

LEMMA PlayingFinite == ASSUME LobbyRows PROVE IsFiniteSet(Playing) /\ Cardinality(Playing) \in Nat
<1>1. IsFiniteSet(DOMAIN contests)
  <2>1. Len(contests) \in Int /\ 1 \in Int /\ DOMAIN contests = 1..Len(contests)
    BY ContestOf DEF LobbyRows
  <2> QED BY <2>1, FS_Interval
<1> QED BY <1>1, FS_Subset, FS_CardinalityType DEF Playing

LEMMA RowCounts ==
  ASSUME NEW R, IsFiniteSet(R), NEW r, r \notin R, r.reward.coins \in {0, 1}
  PROVE  /\ IsFiniteSet(R \cup {r}) /\ Cardinality(CoinRows(R)) \in Nat
         /\ Cardinality(CoinRows(R \cup {r})) = Cardinality(CoinRows(R)) + r.reward.coins
<1>1. IsFiniteSet(CoinRows(R)) /\ Cardinality(CoinRows(R)) \in Nat /\ r \notin CoinRows(R)
  BY FS_Subset, FS_CardinalityType DEF CoinRows
<1>2. CASE r.reward.coins = 0
  <2>1. CoinRows(R \cup {r}) = CoinRows(R)
    BY <1>2 DEF CoinRows
  <2> QED BY <1>1, <1>2, <2>1, FS_AddElement
<1>3. CASE r.reward.coins = 1
  <2>1. CoinRows(R \cup {r}) = CoinRows(R) \cup {r}
    BY <1>3 DEF CoinRows
  <2>2. Cardinality(CoinRows(R) \cup {r}) = Cardinality(CoinRows(R)) + 1
    BY <1>1, FS_AddElement
  <2> QED BY <1>1, <1>3, <2>1, <2>2, FS_AddElement
<1> QED BY <1>2, <1>3

(* The same for all is as much as there are times what each has.           *)
LEMMA SumOfEqual ==
  ASSUME NEW S, IsFiniteSet(S), NEW c \in Nat, NEW a, \A x \in S : a[x] = c
  PROVE  SumOf(a, S) = c * Cardinality(S)
<1> DEFINE D == {r \in SUBSET S : SumOf(a, r) # c * Cardinality(r)}
<1>1. SUFFICES ASSUME D # {} PROVE FALSE
  OBVIOUS
<1>2. D \in SUBSET SUBSET S
  OBVIOUS
<1> HIDE DEF D
<1>3. PICK r \in D : \A q \in D : ~ (q \subseteq r /\ q # r)
  BY <1>1, <1>2, Smallest
<1>4. r \in SUBSET S /\ SumOf(a, r) # c * Cardinality(r) /\ IsFiniteSet(r)
  BY <1>3, FS_Subset DEF D
<1>5. r # {}
  <2>1. c * 0 = 0
    OBVIOUS
  <2> QED BY <1>4, <2>1, SumOfNone, FS_EmptySet
<1>6. PICK x \in r : TRUE
  BY <1>5
<1>7. SumOf(a, r \ {x}) = c * Cardinality(r \ {x})
  <2>1. r \ {x} \notin D
    BY <1>3, <1>6
  <2> QED BY <1>4, <2>1 DEF D
<1>8. Amounts(a, r) /\ a[x] = c
  BY <1>4, <1>6 DEF Amounts
<1>9. SumOf(a, r) = SumOf(a, r \ {x}) + c
  BY <1>4, <1>8, SumTakes
<1>10. PICK n \in Nat : Cardinality(r \ {x}) = n /\ Cardinality(r) = n + 1
  <2>1. Cardinality(r) \in Nat /\ IsFiniteSet(r \ {x}) /\ Cardinality(r \ {x}) \in Nat
        /\ Cardinality(r \ {x}) = Cardinality(r) - 1
    BY <1>4, <1>6, FS_RemoveElement, FS_CardinalityType
  <2> QED BY <2>1
<1>11. c * (n + 1) = c * n + c
  OBVIOUS
<1> QED BY <1>4, <1>7, <1>9, <1>10, <1>11

(* Two entries change.                                                     *)
LEMMA SumMovesTwo ==
  ASSUME NEW S, IsFiniteSet(S), NEW a, NEW b, Amounts(a, S), Amounts(b, S),
         NEW x \in S, NEW y \in S, x # y, \A z \in S \ {x, y} : a[z] = b[z]
  PROVE  SumOf(a, S) \in Nat /\ SumOf(b, S) = SumOf(a, S) - a[x] - a[y] + b[x] + b[y]
<1> DEFINE R == S \ {x}
           Q == R \ {y}
<1>1. IsFiniteSet(R) /\ IsFiniteSet(Q) /\ y \in R /\ Amounts(a, R) /\ Amounts(b, R)
  BY FS_Subset DEF Amounts
<1>2. \A z \in Q : a[z] = b[z]
  OBVIOUS
<1>3. SumOf(a, R) \in Nat /\ SumOf(a, S) = SumOf(a, R) + a[x]
      /\ SumOf(b, R) \in Nat /\ SumOf(b, S) = SumOf(b, R) + b[x]
  BY SumTakes
<1> HIDE DEF R
<1>4. SumOf(a, Q) \in Nat /\ SumOf(a, R) = SumOf(a, Q) + a[y] /\ SumOf(b, R) = SumOf(b, Q) + b[y]
  BY <1>1, SumTakes
<1> HIDE DEF Q
<1>5. SumOf(a, Q) = SumOf(b, Q)
  BY <1>1, <1>2, SumSame
<1>6. a[x] \in Nat /\ b[x] \in Nat /\ a[y] \in Nat /\ b[y] \in Nat
  BY DEF Amounts
<1> QED BY <1>3, <1>4, <1>5, <1>6
-----------------------------------------------------------------------------
Conserved ==
  SumOf(purses, Player) + 2 * Stake * Cardinality(Playing)
    = Purse * Cardinality(Player) + Cardinality(CoinRows(paidOut))

LEMMA ConservedIs == ASSUME LobbyRows, Conserved PROVE Lobby!CoinsConserved
<1>1. DOMAIN purses = Player
  BY DEF LobbyRows
<1> QED BY <1>1, SameSum, SameCount DEF Conserved, Lobby!CoinsConserved, Playing, CoinRows

LEMMA OneMore == ASSUME NEW s \in Nat, NEW n \in Nat PROVE 2 * s * (n + 1) = 2 * s * n + 2 * s
OBVIOUS

LEMMA CoinsStay ==
  ASSUME LobbyConstants, LobbyRows, LobbyRows', Results, Conserved, [Lobby!Next]_Lobby!vars
  PROVE  Conserved'
<1>0. /\ IsFiniteSet(Player) /\ Stake \in Nat /\ Purse \in Nat
      /\ purses \in [Player -> Nat] /\ purses' \in [Player -> Nat]
      /\ Amounts(purses, Player) /\ Amounts(purses', Player)
  BY DEF LobbyConstants, LobbyRows, Amounts
<1>1. IsFiniteSet(Playing) /\ Cardinality(Playing) \in Nat
  BY PlayingFinite
<1>2. ASSUME NEW b \in DOMAIN contests, Lobby!Accept(b) PROVE Conserved'
  <2>1. PICK p, q : p = contests[b].from /\ q = contests[b].to
    OBVIOUS
  <2>2. p \in Player /\ q \in Player /\ p # q
    BY <2>1, ContestOf DEF LobbyRows, Lobby!Contest
  <2>3. purses' = [r \in Player |-> IF r \in {p, q} THEN purses[r] - Stake ELSE purses[r]]
    BY <1>2, <2>1 DEF Lobby!Accept, Lobby!Escrowed, Lobby!Between
  <2>4. /\ purses'[p] = purses[p] - Stake /\ purses'[q] = purses[q] - Stake
        /\ \A r \in Player \ {p, q} : purses[r] = purses'[r]
    BY <2>2, <2>3
  <2>5. SumOf(purses, Player) \in Nat
        /\ SumOf(purses', Player)
             = SumOf(purses, Player) - purses[p] - purses[q] + purses'[p] + purses'[q]
    BY <1>0, <2>2, <2>4, SumMovesTwo
  <2>6. Playing' = Playing \cup {b} /\ b \notin Playing
    BY <1>2, Plays DEF Playing
  <2>7. Cardinality(Playing') = Cardinality(Playing) + 1
    BY <1>1, <2>6, FS_AddElement
  <2>8. 2 * Stake * Cardinality(Playing') = 2 * Stake * Cardinality(Playing) + 2 * Stake
    BY <1>0, <1>1, <2>7, OneMore
  <2>9. CoinRows(paidOut)' = CoinRows(paidOut)
    BY <1>2 DEF Lobby!Accept, CoinRows
  <2>10. purses[p] \in Nat /\ purses[q] \in Nat /\ 2 * Stake * Cardinality(Playing) \in Nat
    BY <1>0, <1>1, <2>2
  <2>11. SumOf(purses', Player) = SumOf(purses, Player) - 2 * Stake
    BY <1>0, <2>4, <2>5, <2>10
  <2>12. SumOf(purses', Player) + 2 * Stake * Cardinality(Playing')
           = SumOf(purses, Player) + 2 * Stake * Cardinality(Playing)
    BY <1>0, <2>5, <2>8, <2>10, <2>11
  <2> QED BY <2>9, <2>12 DEF Conserved
<1>3. ASSUME NEW b \in DOMAIN contests, Lobby!Settle(b) PROVE Conserved'
  <2>1. PICK p, q : p = contests[b].from /\ q = contests[b].to
    OBVIOUS
  <2>2. p \in Player /\ q \in Player /\ p # q
    BY <2>1, ContestOf DEF LobbyRows, Lobby!Contest
  <2>3. Lobby!Participation(p) \in Nat /\ Lobby!Participation(q) \in Nat
    BY DEF Lobby!Participation
  <2>4. PICK x \in Nat, y \in Nat :
          /\ x + y = 2 * Stake
          /\ purses' = [r \in Player |->
               purses[r] + (IF r = p THEN x + Lobby!Participation(p)
                            ELSE IF r = q THEN y + Lobby!Participation(q) ELSE 0)]
    BY <1>3, <2>1, PotIsShared
  <2>5. /\ purses'[p] = purses[p] + (x + Lobby!Participation(p))
        /\ purses'[q] = purses[q] + (y + Lobby!Participation(q))
        /\ \A r \in Player \ {p, q} : purses[r] = purses'[r]
    <3>1. \A r \in Player : purses[r] + 0 = purses[r]
      BY <1>0
    <3> QED BY <2>2, <2>4, <3>1
  <2>6. SumOf(purses, Player) \in Nat
        /\ SumOf(purses', Player)
             = SumOf(purses, Player) - purses[p] - purses[q] + purses'[p] + purses'[q]
    BY <1>0, <2>2, <2>5, SumMovesTwo
  <2>7. Playing = Playing' \cup {b} /\ b \notin Playing'
    BY <1>3, Plays DEF Playing
  <2>8. IsFiniteSet(Playing') /\ Cardinality(Playing') \in Nat /\ Cardinality(Playing) = Cardinality(Playing') + 1
    <3>1. IsFiniteSet(Playing')
      BY <1>1, <2>7, FS_Subset
    <3> QED BY <2>7, <3>1, FS_AddElement, FS_CardinalityType
  <2>9. 2 * Stake * Cardinality(Playing) = 2 * Stake * Cardinality(Playing') + 2 * Stake
    BY <1>0, <2>8, OneMore
  <2>10. /\ paidOut' = (paidOut \cup {Row(b, p)}) \cup {Row(b, q)}
         /\ Row(b, p) \notin paidOut /\ Row(b, q) \notin paidOut \cup {Row(b, p)}
    BY <1>3, <2>1, TwoRows
  <2>11. Cardinality(CoinRows(paidOut')) = Cardinality(CoinRows(paidOut))
                                            + Lobby!Participation(p) + Lobby!Participation(q)
         /\ Cardinality(CoinRows(paidOut)) \in Nat
    <3>1. IsFiniteSet(paidOut)
      BY DEF Results
    <3>2. /\ Row(b, p).reward.coins = Lobby!Participation(p) /\ Row(b, p).reward.coins \in {0, 1}
          /\ Row(b, q).reward.coins = Lobby!Participation(q) /\ Row(b, q).reward.coins \in {0, 1}
      BY RowHolds
    <3>3. /\ IsFiniteSet(paidOut \cup {Row(b, p)}) /\ Cardinality(CoinRows(paidOut)) \in Nat
          /\ Cardinality(CoinRows(paidOut \cup {Row(b, p)})) = Cardinality(CoinRows(paidOut)) + Lobby!Participation(p)
      BY <2>10, <3>1, <3>2, RowCounts
    <3>4. Cardinality(CoinRows((paidOut \cup {Row(b, p)}) \cup {Row(b, q)}))
            = Cardinality(CoinRows(paidOut \cup {Row(b, p)})) + Lobby!Participation(q)
      BY <2>10, <3>2, <3>3, RowCounts
    <3> QED BY <2>10, <3>3, <3>4
  <2>12. purses[p] \in Nat /\ purses[q] \in Nat /\ 2 * Stake * Cardinality(Playing') \in Nat
         /\ Purse * Cardinality(Player) \in Nat
    <3>1. \A m, n \in Nat : m * n \in Nat /\ 2 * m * n \in Nat
      OBVIOUS
    <3>2. Stake \in Nat /\ Purse \in Nat /\ Cardinality(Player) \in Nat
      BY <1>0, FS_CardinalityType
    <3>3. Cardinality(Playing') \in Nat
      BY <2>8
    <3>4. 2 * Stake * Cardinality(Playing') \in Nat
      BY <3>1, <3>2, <3>3
    <3>5. Purse * Cardinality(Player) \in Nat
      BY <3>1, <3>2
    <3>6. purses[p] \in Nat /\ purses[q] \in Nat
      BY <1>0, <2>2
    <3> QED BY <3>4, <3>5, <3>6
  <2>13. SumOf(purses', Player)
           = SumOf(purses, Player) + 2 * Stake + Lobby!Participation(p) + Lobby!Participation(q)
    BY <1>0, <2>3, <2>4, <2>5, <2>6, <2>12
  <2>14. SumOf(purses', Player) + 2 * Stake * Cardinality(Playing')
           = Purse * Cardinality(Player) + Cardinality(CoinRows(paidOut'))
    BY <1>0, <2>3, <2>6, <2>9, <2>11, <2>12, <2>13 DEF Conserved
  <2> QED BY <2>14 DEF Conserved, CoinRows
<1>4. ASSUME BattlesStay, Inviting PROVE Conserved'
  <2>1. Playing' = Playing
    BY <1>4 DEF Inviting, Playing, BattlesStay
  <2> QED BY <1>4, <2>1 DEF Conserved, Inviting, CoinRows
<1>5. CASE UNCHANGED <<contests, paidOut, purses>>
  BY <1>5 DEF Conserved, Playing, CoinRows
<1> QED BY <1>2, <1>3, <1>4, <1>5, LobbySteps, Invites, Passes
-----------------------------------------------------------------------------
Mine(p, d) == {r \in paidOut : r.who = p /\ r.day = d}
LeagueXp(R) == [r \in R |-> r.reward.league]
Against(R, q) == {r \in R : r.reward.xp > 0 /\ q \in Lobby!Between(r.contest)}

(* The caps of a player's day.                                             *)
Caps(p, d) ==
  /\ Cardinality(CoinRows(Mine(p, d))) <= CoinsCap
  /\ SumOf(LeagueXp(Mine(p, d)), Mine(p, d)) <= LeagueCap
  /\ \A q \in Player \ {p} : Cardinality(Against(Mine(p, d), q)) <= PairCap

LEMMA MineFinite ==
  ASSUME Results, NEW p, NEW d
  PROVE  Mine(p, d) \subseteq paidOut /\ IsFiniteSet(Mine(p, d)) /\ Amounts(LeagueXp(Mine(p, d)), Mine(p, d))
BY FS_Subset DEF Mine, Results, Amounts, LeagueXp

(* Rows of different battles are no more than there are battles.           *)
LEMMA RowsAreBattles ==
  ASSUME NEW A, NEW C, IsFiniteSet(C), \A r \in A : r.contest \in C,
         \A r, s \in A : r.contest = s.contest => r = s
  PROVE  /\ Cardinality(A) \in Nat /\ Cardinality(C) \in Nat /\ Cardinality(A) <= Cardinality(C)
<1> DEFINE f == [r \in A |-> r.contest]
<1>1. f \in [A -> C] /\ \A r, s \in A : f[r] = f[s] => r = s
  OBVIOUS
<1>2. f \in Injection(A, C)
  BY <1>1 DEF Injection, IsInjective
<1> HIDE DEF f
<1>3. IsFiniteSet(A) /\ Cardinality(A) <= Cardinality(C)
  BY <1>2, FS_Injection
<1> QED BY <1>3, FS_CardinalityType

(* What a settlement adds keeps within the caps.                           *)
LEMMA CapsAllow ==
  ASSUME LobbyConstants, LobbyRows, LobbyRows', Results, Results', BattlesStay,
         NEW b \in DOMAIN contests, Lobby!Settle(b), NEW p \in Player, NEW o \in Player, p # o,
         Lobby!Between(b) = {p, o}, Caps(p, battleDay),
         Mine(p, battleDay)' = Mine(p, battleDay) \cup {Row(b, p)}, Row(b, p) \notin Mine(p, battleDay)
  PROVE  /\ Cardinality(CoinRows(Mine(p, battleDay)')) <= CoinsCap
         /\ SumOf(LeagueXp(Mine(p, battleDay)'), Mine(p, battleDay)') <= LeagueCap
         /\ \A q \in Player \ {p} : Cardinality(Against(Mine(p, battleDay), q)') <= PairCap
<1>0. CoinsCap \in Nat /\ LeagueCap \in Nat /\ PairCap \in Nat /\ battleDay' = battleDay
  BY DEF LobbyConstants, Lobby!Settle
<1>1. Mine(p, battleDay) = Lobby!Today(p)
  BY DEF Mine, Lobby!Today
<1>2. PICK M, N, row : M = Mine(p, battleDay) /\ N = Mine(p, battleDay)' /\ row = Row(b, p)
  OBVIOUS
<1>3. IsFiniteSet(M) /\ N = M \cup {row} /\ row \notin M /\ M \subseteq paidOut /\ Amounts(LeagueXp(M), M)
  BY <1>2, MineFinite
<1>4. /\ row.contest = b /\ row.reward.xp = Lobby!XpFor(b)
      /\ row.reward.coins = Lobby!Participation(p) /\ row.reward.coins \in {0, 1}
      /\ row.reward.league \in Nat /\ row.reward.league <= row.reward.xp /\ row.reward.xp \in Nat
      /\ UsedXp(p) \in Nat /\ (row.reward.league = 0 \/ UsedXp(p) + row.reward.league <= LeagueCap)
  BY <1>2, RowHolds
<1>5. Caps(p, battleDay)!1 /\ Caps(p, battleDay)!2 /\ Caps(p, battleDay)!3
  BY DEF Caps
<1>6. Cardinality(CoinRows(N)) <= CoinsCap
  <2>1. Cardinality(CoinRows(M)) \in Nat
        /\ Cardinality(CoinRows(N)) = Cardinality(CoinRows(M)) + row.reward.coins
    BY <1>3, <1>4, RowCounts
  <2>2. Cardinality(CoinRows(M)) <= Cardinality(M) /\ Cardinality(M) \in Nat
    BY <1>3, FS_Subset, FS_CardinalityType DEF CoinRows
  <2>3. CASE row.reward.coins = 0
    BY <1>2, <1>5, <2>1, <2>3
  <2>4. CASE row.reward.coins = 1
    <3>1. ~ (Lobby!Cardinality(Lobby!Today(p)) >= CoinsCap)
      BY <1>4, <2>4 DEF Lobby!Participation
    <3>2. ~ (Cardinality(M) >= CoinsCap)
      BY <1>1, <1>2, <3>1, SameCount
    <3> QED BY <1>0, <2>1, <2>2, <2>4, <3>2
  <2> QED BY <1>4, <2>3, <2>4
<1>7. SumOf(LeagueXp(N), N) <= LeagueCap
  <2>1. Amounts(LeagueXp(N), N) /\ LeagueXp(N)[row] = row.reward.league
        /\ \A r \in M : LeagueXp(N)[r] = LeagueXp(M)[r]
    BY <1>3, <1>4 DEF Amounts, LeagueXp
  <2>2. SumOf(LeagueXp(N), M) = SumOf(LeagueXp(M), M)
    BY <1>3, <2>1, SumSame
  <2>3. SumOf(LeagueXp(N), M) \in Nat
        /\ SumOf(LeagueXp(N), M \cup {row}) = SumOf(LeagueXp(N), M) + LeagueXp(N)[row]
    BY <1>3, <2>1, SumAdds
  <2>4. SumOf(LeagueXp(M), M) <= UsedXp(p)
    <3>1. Amounts(XpRows(p), M) /\ \A r \in M : LeagueXp(M)[r] <= XpRows(p)[r]
      BY <1>1, <1>2, <1>3 DEF Amounts, XpRows, LeagueXp, Results
    <3>2. SumOf(LeagueXp(M), M) <= SumOf(XpRows(p), M)
      BY <1>3, <3>1, SumAtMost
    <3> QED BY <1>1, <1>2, <3>2 DEF UsedXp
  <2>5. SumOf(LeagueXp(M), M) <= LeagueCap
    BY <1>2, <1>5
  <2>6. SumOf(LeagueXp(N), N) = SumOf(LeagueXp(M), M) + row.reward.league /\ SumOf(LeagueXp(M), M) \in Nat
    BY <1>3, <2>1, <2>2, <2>3
  <2> QED BY <1>0, <1>4, <2>4, <2>5, <2>6
<1>8. ASSUME NEW q \in Player \ {p} PROVE Cardinality(Against(Mine(p, battleDay), q)') <= PairCap
  <2>1. ASSUME NEW r \in M PROVE Lobby!Between(r.contest)' = Lobby!Between(r.contest)
    BY <1>3, <2>1 DEF Results, BattlesStay, Lobby!Between
  <2>2. CASE row.reward.xp = 0 \/ q # o
    <3>1. Lobby!Between(b)' = {p, o}
      BY DEF BattlesStay, Lobby!Between
    <3>2. ~ (row.reward.xp > 0 /\ q \in Lobby!Between(row.contest)')
      BY <1>4, <2>2, <3>1
    <3>3. Against(Mine(p, battleDay), q)' = {r \in N : r.reward.xp > 0 /\ q \in Lobby!Between(r.contest)'}
      BY <1>2 DEF Against
    <3>4. Against(Mine(p, battleDay), q)' = Against(M, q)
      BY <1>3, <2>1, <3>2, <3>3 DEF Against
    <3> QED BY <1>2, <1>5, <3>4
  <2>3. CASE row.reward.xp > 0 /\ q = o
    <3> DEFINE C == {c \in DOMAIN contests : Lobby!Between(c) = Lobby!Between(b)
                       /\ contests[c].status = "settled" /\ contests[c].day = battleDay}
               D == {c \in DOMAIN contests' : Lobby!Between(c)' = {p, q}
                       /\ contests'[c].status = "settled" /\ contests'[c].day = battleDay'}
    <3>1. ~ (Lobby!Cardinality(C) + 1 > PairCap)
      BY <1>4, <2>3 DEF Lobby!XpFor, Lobby!PairToday
    <3>2. /\ DOMAIN contests' = DOMAIN contests /\ contests[b].status = "playing"
          /\ \A c \in DOMAIN contests \ {b} : contests'[c] = contests[c]
      BY Plays
    <3>3. D \subseteq C \cup {b}
      BY <1>0, <2>3, <3>2 DEF Lobby!Between
    <3>4. PICK A : A = Against(Mine(p, battleDay), q)'
      OBVIOUS
    <3>9. A = {r \in N : r.reward.xp > 0 /\ q \in Lobby!Between(r.contest)'}
      BY <1>2, <3>4 DEF Against
    <3>10. N = {r \in paidOut' : r.who = p /\ r.day = battleDay'}
      BY <1>2, <1>0 DEF Mine
    <3>11. ASSUME NEW r \in A PROVE r \in paidOut' /\ r.who = p /\ r.contest \in D
      <4>1. r \in paidOut' /\ r.who = p /\ r.day = battleDay' /\ q \in Lobby!Between(r.contest)'
        BY <3>9, <3>10
      <4>2. r.contest \in DOMAIN contests' /\ contests'[r.contest].status = "settled"
            /\ p \in Lobby!Between(r.contest)' /\ contests'[r.contest].day = battleDay'
        BY <4>1 DEF Results, Lobby!Between
      <4>3. Lobby!Between(r.contest)' = {p, q}
        BY <4>1, <4>2 DEF Lobby!Between
      <4> QED BY <4>1, <4>2, <4>3
    <3>5. IsFiniteSet(C)
      <4>1. Len(contests) \in Int /\ 1 \in Int /\ DOMAIN contests = 1..Len(contests)
        BY ContestOf DEF LobbyRows
      <4>2. IsFiniteSet(DOMAIN contests)
        BY <4>1, FS_Interval
      <4> QED BY <4>2, FS_Subset
    <3> HIDE DEF C, D
    <3>6. IsFiniteSet(C \cup {b}) /\ Cardinality(C) \in Nat /\ Cardinality(C \cup {b}) <= Cardinality(C) + 1
      <4>1. Cardinality(C) \in Nat
        BY <3>5, FS_CardinalityType
      <4>2. /\ IsFiniteSet(C \cup {b})
            /\ Cardinality(C \cup {b}) = IF b \in C THEN Cardinality(C) ELSE Cardinality(C) + 1
        BY <3>5, FS_AddElement
      <4> QED BY <4>1, <4>2
    <3>7. IsFiniteSet(D) /\ Cardinality(D) <= Cardinality(C \cup {b})
      BY <3>3, <3>6, FS_Subset
    <3>12. \A r, s \in A : r.contest = s.contest => r = s
      BY <3>11 DEF Results
    <3>13. Cardinality(A) \in Nat /\ Cardinality(D) \in Nat /\ Cardinality(A) <= Cardinality(D)
      BY <3>7, <3>11, <3>12, RowsAreBattles
    <3>8. ~ (Cardinality(C) + 1 > PairCap)
      BY <3>1, SameCount
    <3>14. Cardinality(C \cup {b}) \in Nat
      BY <3>6, FS_CardinalityType
    <3> QED BY <1>0, <3>4, <3>6, <3>7, <3>8, <3>13, <3>14
  <2> QED BY <1>4, <2>2, <2>3
<1> QED BY <1>2, <1>6, <1>7, <1>8

LEMMA CapsStay ==
  ASSUME LobbyConstants, LobbyRows, LobbyRows', Results, Results', [Lobby!Next]_Lobby!vars,
         NEW p \in Player, NEW d \in Nat, Caps(p, d)
  PROVE  Caps(p, d)'
<1>1. BattlesStay
  BY LobbySteps, Invites, Plays, Passes
<1>2. ASSUME Mine(p, d)' = Mine(p, d) PROVE Caps(p, d)'
  <2>1. ASSUME NEW r \in Mine(p, d) PROVE Lobby!Between(r.contest)' = Lobby!Between(r.contest)
    BY <1>1, <2>1 DEF Mine, Results, BattlesStay, Lobby!Between
  <2>2. ASSUME NEW q \in Player PROVE Against(Mine(p, d), q)' = Against(Mine(p, d), q)
    BY <1>2, <2>1 DEF Against
  <2> QED BY <1>2, <2>2 DEF Caps
<1>3. ASSUME NEW b \in DOMAIN contests, Lobby!Settle(b), d = battleDay,
             NEW o \in Player, p # o, Lobby!Between(b) = {p, o} PROVE Caps(p, d)'
  <2>1. PICK from, to : from = contests[b].from /\ to = contests[b].to
    OBVIOUS
  <2>2. /\ paidOut' = (paidOut \cup {Row(b, from)}) \cup {Row(b, to)}
        /\ Row(b, from) \notin paidOut /\ Row(b, to) \notin paidOut \cup {Row(b, from)}
    BY <1>3, <2>1, TwoRows
  <2>3. {from, to} = {p, o}
    BY <1>3, <2>1 DEF Lobby!Between
  <2>4. /\ Row(b, p).who = p /\ Row(b, p).day = battleDay /\ Row(b, o).who = o
    BY DEF Row
  <2>5. Mine(p, battleDay)' = Mine(p, battleDay) \cup {Row(b, p)} /\ Row(b, p) \notin Mine(p, battleDay)
    <3>1. battleDay' = battleDay
      BY <1>3 DEF Lobby!Settle
    <3>2. paidOut' = paidOut \cup {Row(b, p), Row(b, o)} /\ Row(b, p) \notin paidOut
      BY <1>3, <2>2, <2>3
    <3> QED BY <1>3, <2>4, <3>1, <3>2 DEF Mine
  <2>6. /\ Cardinality(CoinRows(Mine(p, battleDay)')) <= CoinsCap
        /\ SumOf(LeagueXp(Mine(p, battleDay)'), Mine(p, battleDay)') <= LeagueCap
        /\ \A q \in Player \ {p} : Cardinality(Against(Mine(p, battleDay), q)') <= PairCap
    BY <1>1, <1>3, <2>5, CapsAllow
  <2>7. battleDay' = battleDay
    BY <1>3 DEF Lobby!Settle
  <2> QED BY <1>3, <2>6, <2>7 DEF Caps, CoinRows, LeagueXp, Mine
<1>4. ASSUME NEW b \in DOMAIN contests, Lobby!Settle(b) PROVE Caps(p, d)'
  <2>1. PICK from, to : from = contests[b].from /\ to = contests[b].to
    OBVIOUS
  <2>2. from \in Player /\ to \in Player /\ from # to /\ Lobby!Between(b) = {from, to}
    BY <1>4, <2>1, PotIsShared
  <2>3. CASE d = battleDay /\ p \in {from, to}
    <3>1. PICK o \in Player : p # o /\ Lobby!Between(b) = {p, o}
      BY <2>2, <2>3
    <3> QED BY <1>3, <1>4, <2>3, <3>1
  <2>4. CASE d # battleDay \/ p \notin {from, to}
    <3>1. paidOut' = (paidOut \cup {Row(b, from)}) \cup {Row(b, to)}
      BY <1>4, <2>1, TwoRows
    <3>2. /\ Row(b, from).who = from /\ Row(b, from).day = battleDay
          /\ Row(b, to).who = to /\ Row(b, to).day = battleDay
      BY DEF Row
    <3>3. Mine(p, d)' = Mine(p, d)
      BY <2>4, <3>1, <3>2 DEF Mine
    <3> QED BY <1>2, <3>3
  <2> QED BY <2>3, <2>4
<1>5. CASE paidOut' = paidOut
  <2>1. Mine(p, d)' = Mine(p, d)
    BY <1>5 DEF Mine
  <2> QED BY <1>2, <2>1
<1> QED BY <1>4, <1>5, LobbySteps, Invites DEF Inviting, Lobby!Challenge, Lobby!CheckOther, Lobby!Accept,
        Lobby!Midnight, Lobby!vars
-----------------------------------------------------------------------------
Carries(h, p) == herald[h] \in Errands /\ p \in {herald[h].from, herald[h].to}

(* Of a player whose challenges never overlapped: one handler at most      *)
(* carries the player; whom it has found free is free still, and the key   *)
(* of the challenger is not used; so the player has one open battle.       *)
Alone(p) ==
  /\ \A h, k \in Herald : Carries(h, p) /\ Carries(k, p) => h = k
  /\ \A h \in Herald : herald[h] \in Errands /\ herald[h].from = p
                         => Lobby!OpenFor(p) = {} /\ Lobby!NewKey(p, herald[h].key)
  /\ \A h \in Herald : herald[h] \in Errands /\ herald[h].at = "insert" /\ herald[h].to = p
                         => Lobby!OpenFor(p) = {}
  /\ \A b, c \in Lobby!OpenFor(p) : b = c
  /\ \A b, c \in DOMAIN contests :
       (contests[b].from = p /\ contests[c].from = p /\ contests[b].key = contests[c].key) => b = c

(* The steps of a battle that is there open none.                          *)
LEMMA NoneOpens ==
  ASSUME LobbyRows,
         \/ \E b \in DOMAIN contests : Lobby!Accept(b) \/ Lobby!Decline(b) \/ Lobby!Lapse(b) \/ Lobby!Settle(b)
         \/ Lobby!ExpireStale
  PROVE  /\ UNCHANGED <<herald, rushed>> /\ DOMAIN contests' = DOMAIN contests
         /\ \A b \in DOMAIN contests : contests'[b].status \in Lobby!Active => contests[b].status \in Lobby!Active
<1>1. UNCHANGED <<herald, rushed>>
  BY DEF Lobby!Accept, Lobby!Decline, Lobby!Lapse, Lobby!Settle, Lobby!ExpireStale
<1>2. DOMAIN contests' = DOMAIN contests
  <2>1. DOMAIN contests = 1..Len(contests)
    BY ContestOf DEF LobbyRows
  <2> QED BY <2>1 DEF Lobby!Accept, Lobby!Decline, Lobby!Lapse, Lobby!Settle, Lobby!ExpireStale, Lobby!Status
<1>3. ASSUME NEW b \in DOMAIN contests, Lobby!Accept(b) \/ Lobby!Settle(b), NEW c \in DOMAIN contests,
             contests'[c].status \in Lobby!Active
      PROVE  contests[c].status \in Lobby!Active
  BY <1>3, Plays DEF Lobby!Active
<1>4. ASSUME Inviting, NEW c \in DOMAIN contests, contests'[c].status \in Lobby!Active
      PROVE  contests[c].status \in Lobby!Active
  BY <1>2, <1>4 DEF Inviting
<1> QED BY <1>1, <1>2, <1>3, <1>4, Invites

LEMMA AloneStays ==
  ASSUME LobbyRows, LobbyRows', [Lobby!Next]_Lobby!vars, NEW p \in Player \ rushed', p \notin rushed => Alone(p)
  PROVE  Alone(p)'
<1>0. p \notin rushed /\ BattlesStay
  <2>1. BattlesStay
    BY LobbySteps, Invites, Plays, Passes
  <2>2. rushed \subseteq rushed'
    BY LobbySteps, NoneOpens DEF Lobby!Challenge, Lobby!CheckOther, Lobby!Insert, Lobby!Midnight, Lobby!vars
  <2> QED BY <2>1, <2>2
<1>1. Alone(p)
  BY <1>0
<1>2. ASSUME UNCHANGED herald, DOMAIN contests' = DOMAIN contests,
             \A b \in DOMAIN contests : contests'[b].status \in Lobby!Active => contests[b].status \in Lobby!Active
      PROVE  Alone(p)'
  <2>1. Lobby!OpenFor(p)' \subseteq Lobby!OpenFor(p)
    BY <1>0, <1>2 DEF BattlesStay, Lobby!OpenFor, Lobby!Between
  <2>2. \A key : Lobby!NewKey(p, key) => Lobby!NewKey(p, key)'
    BY <1>0, <1>2 DEF BattlesStay, Lobby!NewKey
  <2>3. \A b, c \in DOMAIN contests' :
          (contests'[b].from = p /\ contests'[c].from = p /\ contests'[b].key = contests'[c].key) => b = c
    BY <1>0, <1>1, <1>2 DEF BattlesStay, Alone
  <2> QED BY <1>1, <1>2, <2>1, <2>2, <2>3 DEF Alone, Carries
<1>3. ASSUME NEW h \in Herald, NEW from \in Player, NEW to \in Player, NEW key \in Key,
             Lobby!Challenge(h, from, to, key)
      PROVE  Alone(p)'
  <2>1. /\ herald[h].at = "idle" /\ from # to /\ Lobby!NewKey(from, key) /\ Lobby!OpenFor(from) = {}
        /\ contests' = contests
        /\ rushed' = rushed \cup UNION {Lobby!Errand(o) \cap {from, to} : o \in Lobby!Running}
    BY <1>3 DEF Lobby!Challenge, Lobby!Unengaged
  <2>2. /\ herald'[h] = [at |-> "other", from |-> from, to |-> to, key |-> key]
        /\ \A k \in Herald \ {h} : herald'[k] = herald[k]
    BY <1>3 DEF Lobby!Challenge, LobbyRows
  <2>3. /\ herald'[h].at = "other" /\ herald'[h].from = from /\ herald'[h].to = to /\ herald'[h].key = key
    BY <2>2
  <2>4. ASSUME NEW k \in Herald \ {h}, Carries(k, p) PROVE p \notin {from, to}
    <3>1. k \in Lobby!Running /\ p \in Lobby!Errand(k)
      BY <2>4 DEF Carries, Errands, Lobby!Running, Lobby!Errand
    <3> QED BY <2>1, <3>1
  <2>5. Lobby!OpenFor(p)' = Lobby!OpenFor(p) /\ \A c : Lobby!NewKey(p, c)' = Lobby!NewKey(p, c)
    BY <2>1 DEF Lobby!OpenFor, Lobby!Between, Lobby!NewKey
  <2>6. \A k \in Herald \ {h} : Carries(k, p)' <=> Carries(k, p)
    BY <2>2 DEF Carries
  <2>7. Carries(h, p)' => p \in {from, to}
    BY <2>3 DEF Carries
  <2>8. Alone(p)!1'
    BY <1>1, <2>4, <2>6, <2>7 DEF Alone
  <2>9. Alone(p)!2'
    BY <1>1, <2>1, <2>2, <2>3, <2>5 DEF Alone
  <2>10. Alone(p)!3'
    BY <1>1, <2>2, <2>3, <2>5 DEF Alone
  <2>11. Alone(p)!4' /\ Alone(p)!5'
    BY <1>1, <2>1, <2>5 DEF Alone
  <2> QED BY <2>8, <2>9, <2>10, <2>11 DEF Alone
<1>4. ASSUME NEW h \in Herald, Lobby!CheckOther(h) PROVE Alone(p)'
  <2>1. herald[h] \in Errands /\ contests' = contests
    BY <1>4 DEF Lobby!CheckOther, LobbyRows, Lobby!NoErrand
  <2>2. /\ \/ herald'[h] = Lobby!NoErrand
           \/ /\ Lobby!OpenFor(herald[h].to) = {} /\ herald'[h].from = herald[h].from
              /\ herald'[h].to = herald[h].to /\ herald'[h].key = herald[h].key
        /\ \A k \in Herald \ {h} : herald'[k] = herald[k]
    BY <1>4, <2>1 DEF Lobby!CheckOther, LobbyRows, Errands, Lobby!Unengaged
  <2>3. Lobby!OpenFor(p)' = Lobby!OpenFor(p) /\ \A c : Lobby!NewKey(p, c)' = Lobby!NewKey(p, c)
    BY <2>1 DEF Lobby!OpenFor, Lobby!Between, Lobby!NewKey
  <2>4. Lobby!NoErrand \notin Errands
    BY DEF Lobby!NoErrand, Errands
  <2>5. \A k \in Herald : Carries(k, p)' => Carries(k, p)
    BY <2>1, <2>2, <2>4 DEF Carries
  <2>8. Alone(p)!1'
    BY <1>1, <2>5 DEF Alone
  <2>9. Alone(p)!2'
    BY <1>1, <2>1, <2>2, <2>3, <2>4 DEF Alone
  <2>10. Alone(p)!3'
    BY <1>1, <2>1, <2>2, <2>3, <2>4 DEF Alone
  <2>11. Alone(p)!4' /\ Alone(p)!5'
    BY <1>1, <2>1, <2>3 DEF Alone
  <2> QED BY <2>8, <2>9, <2>10, <2>11 DEF Alone
<1>5. ASSUME NEW h \in Herald, Lobby!Insert(h) PROVE Alone(p)'
  <2>1. herald[h] \in Errands /\ herald[h].at = "insert" /\ herald[h].from # herald[h].to
    BY <1>5 DEF Lobby!Insert, LobbyRows, Lobby!NoErrand
  <2>2. herald'[h] = Lobby!NoErrand /\ (\A k \in Herald \ {h} : herald'[k] = herald[k])
        /\ Lobby!NoErrand \notin Errands
    BY <1>5 DEF Lobby!Insert, LobbyRows, Lobby!NoErrand, Errands
  <2>3. PICK n \in Nat : n = Len(contests) + 1 /\ n \notin DOMAIN contests /\ DOMAIN contests' = DOMAIN contests \cup {n}
                         /\ (\A b \in DOMAIN contests : contests'[b] = contests[b])
                         /\ contests'[n].from = herald[h].from /\ contests'[n].to = herald[h].to
                         /\ contests'[n].key = herald[h].key /\ contests'[n].status = "invited"
    <3> DEFINE new == [from |-> herald[h].from, to |-> herald[h].to, key |-> herald[h].key,
                       status |-> "invited", lapsed |-> FALSE, day |-> battleDay]
    <3>1. Len(contests) \in Nat /\ DOMAIN contests = 1..Len(contests)
          /\ contests \in Seq(Lobby!Contest)
      BY ContestOf DEF LobbyRows
    <3>2. contests' = Append(contests, new)
      BY <1>5 DEF Lobby!Insert
    <3>3. new.from = herald[h].from /\ new.to = herald[h].to /\ new.key = herald[h].key /\ new.status = "invited"
      OBVIOUS
    <3> HIDE DEF new
    <3>4. DOMAIN contests' = 1..(Len(contests) + 1) /\ contests'[Len(contests) + 1] = new
          /\ \A b \in DOMAIN contests : contests'[b] = contests[b]
      BY <3>1, <3>2
    <3> QED BY <3>1, <3>3, <3>4
  <2>4. ASSUME p \notin {herald[h].from, herald[h].to} PROVE Alone(p)'
    <3>1. Lobby!OpenFor(p)' = Lobby!OpenFor(p)
      BY <2>3, <2>4 DEF Lobby!OpenFor, Lobby!Between
    <3>2. \A key : Lobby!NewKey(p, key) => Lobby!NewKey(p, key)'
      BY <2>3, <2>4 DEF Lobby!NewKey
    <3>3. \A k \in Herald : herald'[k] \in Errands => herald'[k] = herald[k]
      BY <2>2
    <3>4. Alone(p)!1'
      BY <1>1, <3>3 DEF Alone, Carries
    <3>5. Alone(p)!2'
      BY <1>1, <3>1, <3>2, <3>3 DEF Alone
    <3>6. Alone(p)!3' /\ Alone(p)!4'
      BY <1>1, <3>1, <3>3 DEF Alone
    <3>7. Alone(p)!5'
      BY <1>1, <2>3, <2>4 DEF Alone
    <3> QED BY <3>4, <3>5, <3>6, <3>7 DEF Alone
  <2>5. ASSUME p \in {herald[h].from, herald[h].to} PROVE Alone(p)'
    <3>1. Lobby!OpenFor(p) = {} /\ (p = herald[h].from => Lobby!NewKey(p, herald[h].key))
      BY <1>1, <2>1, <2>5 DEF Alone
    <3>2. Lobby!OpenFor(p)' \subseteq {n}
      BY <2>3, <3>1 DEF Lobby!OpenFor, Lobby!Between
    <3>3. Carries(h, p)
      BY <2>1, <2>5 DEF Carries
    <3>4. \A k \in Herald : ~ Carries(k, p)'
      BY <1>1, <2>2, <3>3 DEF Alone, Carries
    <3>5. Alone(p)!5'
      BY <1>1, <2>3, <3>1 DEF Alone, Lobby!NewKey
    <3> QED BY <3>2, <3>4, <3>5 DEF Alone, Carries
  <2> QED BY <2>4, <2>5
<1>6. CASE Lobby!Midnight \/ UNCHANGED Lobby!vars
  BY <1>2, <1>6 DEF Lobby!Midnight, Lobby!vars
<1> QED BY <1>2, <1>3, <1>4, <1>5, <1>6, LobbySteps, NoneOpens
-----------------------------------------------------------------------------
LobbyInv ==
  /\ LobbyRows /\ Results /\ Conserved
  /\ \A p \in Player, d \in Nat : Caps(p, d)
  /\ \A p \in Player \ rushed : Alone(p)

LEMMA ConstantsAre == ASSUME Lobby!LobbyAssumption PROVE LobbyConstants
BY DEF Lobby!LobbyAssumption, LobbyConstants, Lobby!IsFiniteSet, IsFiniteSet

LEMMA LobbyStarts == ASSUME LobbyConstants, Lobby!Init PROVE LobbyInv
<1>1. /\ contests = <<>> /\ paidOut = {} /\ purses = [p \in Player |-> Purse]
      /\ herald = [h \in Herald |-> Lobby!NoErrand] /\ battleDay = 0 /\ rushed = {}
  BY DEF Lobby!Init
<1>2. LobbyRows
  BY <1>1 DEF LobbyRows, Lobby!Day, LobbyConstants
<1>3. Results
  BY <1>1, FS_EmptySet DEF Results
<1>4. Conserved
  <2>1. SumOf(purses, Player) = Purse * Cardinality(Player) /\ Cardinality(Player) \in Nat
    BY <1>1, SumOfEqual, FS_CardinalityType DEF LobbyConstants
  <2>2. Playing = {} /\ CoinRows(paidOut) = {}
    BY <1>1 DEF Playing, CoinRows
  <2>3. Cardinality(Playing) = 0 /\ Cardinality(CoinRows(paidOut)) = 0
    BY <2>2, FS_EmptySet
  <2>4. Stake \in Nat /\ Purse \in Nat
    BY DEF LobbyConstants
  <2>5. 2 * Stake * 0 = 0 /\ Purse * Cardinality(Player) \in Nat
    BY <2>1, <2>4
  <2> QED BY <2>1, <2>3, <2>5 DEF Conserved
<1>5. ASSUME NEW p \in Player, NEW d \in Nat PROVE Caps(p, d)
  <2>1. Mine(p, d) = {}
    BY <1>1 DEF Mine
  <2>2. CoinRows({}) = {} /\ \A q : Against({}, q) = {}
    BY DEF CoinRows, Against
  <2>3. Cardinality({}) = 0 /\ SumOf(LeagueXp({}), {}) = 0
    BY FS_EmptySet, SumOfNone
  <2> QED BY <2>1, <2>2, <2>3 DEF Caps, LobbyConstants
<1>6. ASSUME NEW p \in Player PROVE Alone(p)
  <2>1. \A h \in Herald : herald[h] \notin Errands
    BY <1>1 DEF Lobby!NoErrand, Errands
  <2>2. DOMAIN contests = {} /\ Lobby!OpenFor(p) = {}
    BY <1>1 DEF Lobby!OpenFor
  <2> QED BY <2>1, <2>2 DEF Alone, Carries
<1> QED BY <1>2, <1>3, <1>4, <1>5, <1>6 DEF LobbyInv

LEMMA LobbyStep == ASSUME LobbyConstants, LobbyInv, [Lobby!Next]_Lobby!vars PROVE LobbyInv'
<1>1. LobbyRows /\ Results /\ Conserved
  BY DEF LobbyInv
<1>2. LobbyRows' /\ Results'
  BY <1>1, RowsStay, ResultsStay
<1>3. Conserved'
  BY <1>1, <1>2, CoinsStay
<1>4. ASSUME NEW p \in Player, NEW d \in Nat PROVE Caps(p, d)'
  BY <1>1, <1>2, CapsStay DEF LobbyInv
<1>5. ASSUME NEW p \in Player \ rushed' PROVE Alone(p)'
  BY <1>1, <1>2, AloneStays DEF LobbyInv
<1> QED BY <1>2, <1>3, <1>4, <1>5 DEF LobbyInv

LEMMA LobbyAlways == ASSUME Lobby!LobbyAssumption PROVE Lobby!Spec => []LobbyInv
<1>1. Lobby!Init => LobbyInv
  BY ConstantsAre, LobbyStarts
<1>2. LobbyInv /\ [Lobby!Next]_Lobby!vars => LobbyInv'
  BY ConstantsAre, LobbyStep
<1> QED BY <1>1, <1>2, PTL DEF Lobby!Spec

(* Whatever is challenged, accepted, lapsed and settled in whatever order, *)
(* a battle makes and loses no coin but those for taking part.             *)
THEOREM BattlesConserveCoins == ASSUME Lobby!LobbyAssumption PROVE Lobby!Spec => []Lobby!CoinsConserved
<1>1. LobbyInv => Lobby!CoinsConserved
  BY ConservedIs DEF LobbyInv
<1> QED BY <1>1, LobbyAlways, PTL

(* A player's day keeps to the caps of participation coins, of league XP   *)
(* and of battles with XP against the same opponent, over all battles.     *)
THEOREM BattlesKeepCaps == ASSUME Lobby!LobbyAssumption PROVE Lobby!Spec => []Lobby!DailyCapsHeld
<1>1. ASSUME LobbyInv, NEW p \in Player, NEW d \in Lobby!Day
      PROVE  LET mine == {r \in paidOut : r.who = p /\ r.day = d}
             IN  /\ Lobby!Cardinality({r \in mine : r.reward.coins > 0}) <= CoinsCap
                 /\ Lobby!FoldFunction(+, 0, [r \in mine |-> r.reward.league]) <= LeagueCap
                 /\ \A q \in Player \ {p} :
                      Lobby!Cardinality({r \in mine : r.reward.xp > 0 /\ q \in Lobby!Between(r.contest)}) <= PairCap
  <2>1. Caps(p, d)
    BY <1>1, ConstantsAre DEF LobbyInv, Lobby!Day, LobbyConstants
  <2>2. DOMAIN LeagueXp(Mine(p, d)) = Mine(p, d)
    BY DEF LeagueXp
  <2>3. Lobby!FoldFunction(+, 0, LeagueXp(Mine(p, d))) <= LeagueCap
    BY <2>1, <2>2, SameSum DEF Caps
  <2> QED BY <2>1, <2>3, SameCount DEF Caps, Mine, CoinRows, LeagueXp, Against
<1>2. LobbyInv => Lobby!DailyCapsHeld
  BY <1>1 DEF Lobby!DailyCapsHeld
<1> QED BY <1>2, LobbyAlways, PTL

(* A player whose challenges did not overlap is in one open battle at most *)
(* and has one battle for a key, though nothing locks the chain of checks. *)
THEOREM OneOpenBattle == ASSUME Lobby!LobbyAssumption PROVE Lobby!Spec => []Lobby!OneBattleAtATime
<1>1. ASSUME LobbyInv, NEW p \in Player \ rushed PROVE Lobby!Cardinality(Lobby!OpenFor(p)) <= 1
  <2>1. \A b, c \in Lobby!OpenFor(p) : b = c
    BY <1>1 DEF LobbyInv, Alone
  <2>2. Lobby!OpenFor(p) = {} \/ \E b : Lobby!OpenFor(p) = {b}
    BY <2>1
  <2>3. Cardinality(Lobby!OpenFor(p)) = 0 \/ Cardinality(Lobby!OpenFor(p)) = 1
    BY <2>2, FS_EmptySet, FS_Singleton
  <2> QED BY <2>3, SameCount
<1>2. LobbyInv => Lobby!OneBattleAtATime
  BY <1>1 DEF LobbyInv, Alone, Lobby!OneBattleAtATime
<1> QED BY <1>2, LobbyAlways, PTL
=============================================================================
