---------------------------- MODULE Battle_proofs ----------------------------
(***************************************************************************)
(* Proofs about Battle, for every stake, number of rounds and of calls in  *)
(* flight, and whatever operations are called together.                    *)
(***************************************************************************)
EXTENDS Battle, FiniteSetTheorems, TLAPS

MaxRound  == Rounds + SuddenMax
BattleRow == [status : Status, round : 0..MaxRound, sudden : Nat, score : [Player -> Nat]]
ViewRow   == [player : Player, round : 0..MaxRound, gone : SUBSET Player,
              battle : BattleRow, part : ParticipantRow]
Labels    == {"idle", "answer", "overdue", "reveal", "verdict",
              "diffBattle", "writeBattle", "diffPart", "writePart"}

RowsInv ==
  /\ battle \in BattleRow /\ part \in [Player -> ParticipantRow]
  /\ question \in QuestionRow /\ escrow \in [Player -> EscrowRow]
  /\ keys \subseteq Player \cup {"pot"} /\ earned \in [Player -> Nat]

CallsInv ==
  /\ battleHolder \in Call \cup {NoCall} /\ questionHolder \in Call \cup {NoCall}
  /\ pc \in [Call -> Labels] /\ view \in [Call -> ViewRow]
  /\ patch \in [Call -> SUBSET {"status", "round", "sudden", "score", "ready"}]
  /\ \A c \in Call : /\ pc[c] = "answer" <=> battleHolder = c
                     /\ pc[c] = "reveal" <=> questionHolder = c

(* Saving an object writes the changed columns and leaves the others.      *)
LEMMA PatchedBattle ==
  ASSUME NEW r \in BattleRow, NEW q \in BattleRow, NEW F
  PROVE  /\ Patched(r, q, F) \in BattleRow
         /\ Patched(r, q, F).status = IF "status" \in F THEN q.status ELSE r.status
<1> DEFINE w == Patched(r, q, F)
<1>1. w = [f \in {"status", "round", "sudden", "score"} |-> IF f \in F THEN q[f] ELSE r[f]]
  BY DEF Patched, BattleRow
<1>2. w = [status |-> w.status, round |-> w.round, sudden |-> w.sudden, score |-> w.score]
  BY <1>1
<1> QED BY <1>1, <1>2 DEF BattleRow

LEMMA PatchedPart ==
  ASSUME NEW r \in ParticipantRow, NEW q \in ParticipantRow, NEW F
  PROVE  /\ Patched(r, q, F) \in ParticipantRow
         /\ Patched(r, q, F).score = IF "score" \in F THEN q.score ELSE r.score
<1> DEFINE w == Patched(r, q, F)
<1>1. w = [f \in {"ready", "score"} |-> IF f \in F THEN q[f] ELSE r[f]]
  BY DEF Patched, ParticipantRow
<1>2. w = [ready |-> w.ready, score |-> w.score]
  BY <1>1
<1> QED BY <1>1, <1>2 DEF ParticipantRow

LEMMA NewValues ==
  /\ NewBattle \in BattleRow /\ NewPart \in ParticipantRow /\ NoView \in ViewRow
  /\ Unasked \in QuestionRow /\ MaxRound \in Nat
<1>1. MaxRound \in Nat
  BY BattleAssumption DEF MaxRound
<1>2. NewBattle \in BattleRow
  BY <1>1 DEF NewBattle, BattleRow, Status, Each
<1>3. NewPart \in ParticipantRow
  BY <1>1 DEF NewPart, ParticipantRow, MaxRound
<1>4. NoView \in ViewRow
  BY <1>1, <1>2, <1>3 DEF NoView, ViewRow, Player
<1>5. Unasked \in QuestionRow
  BY DEF Unasked, QuestionRow, Each, AnswerRow
<1> QED BY <1>1, <1>2, <1>3, <1>4, <1>5

LEMMA Others == \A p \in Player : Other(p) \in Player /\ Other(p) # p /\ Player = {p, Other(p)}
  BY BattleAssumption DEF Other, Player
-----------------------------------------------------------------------------
(***************************************************************************)
(* The course of a battle: its round and its sudden deaths; an answer      *)
(* finds it still played; a decline, judged by an old row, can only close  *)
(* it; and nobody has more points than questions were asked of him.        *)
(***************************************************************************)
Open     == {"invited", "ready"} \cup Playing
Declined == {"declined", "cancelled"}

Course(b) ==
  /\ b.status \in {"invited", "ready"} => b.round = 0 /\ b.sudden = 0
  /\ b.status = "in_progress" => b.round \in 1..Rounds /\ b.sudden = 0
  /\ b.status = "sudden_death" =>
       b.sudden \in 1..SuddenMax /\ b.round = Rounds + b.sudden

RoundInv == Course(battle)

PhaseOf(c) ==
  /\ pc[c] = "answer" => battle.status \in Playing
  /\ pc[c] \in {"diffBattle", "writeBattle"} => view[c].battle.status \in Declined
  /\ pc[c] = "writeBattle" /\ "status" \notin patch[c] => battle.status \in Declined

PhaseInv == \A c \in Call : PhaseOf(c)

Asked(p) == IF battle.round = 0 \/ question.answer[p] # "none"
            THEN battle.round ELSE battle.round - 1

PointsInv ==
  battle.status \in Open =>
    /\ \A p \in Player : part[p].score <= Asked(p)
    /\ \A c \in Call : pc[c] \in {"diffPart", "writePart"} =>
                         view[c].part.score <= Asked(view[c].player)

BattleInv == RowsInv /\ CallsInv /\ RevealedComplete /\ RoundInv /\ PhaseInv /\ PointsInv

LEMMA InitBattle == Init => BattleInv
<1> SUFFICES ASSUME Init PROVE BattleInv  OBVIOUS
<1>1. RowsInv /\ CallsInv
  BY NewValues, BattleAssumption DEF Init, RowsInv, CallsInv, Labels, Each, EscrowRow
<1>5. RevealedComplete
  BY DEF Init, RevealedComplete, Unasked
<1>2. RoundInv
  BY DEF Init, RoundInv, Course, NewBattle
<1>3. PhaseInv
  BY DEF Init, PhaseInv, PhaseOf
<1>4. PointsInv
  BY DEF Init, PointsInv, Asked, NewBattle, NewPart, Each
<1> QED BY <1>1, <1>2, <1>3, <1>4, <1>5 DEF BattleInv

(* What ends a battle, and what a reveal can lead to.                      *)
LEMMA Settling ==
  ASSUME NEW b \in BattleRow, NEW w \in Player, NEW why, SettleWinner(w, why, b),
         keys \subseteq Player \cup {"pot"}
  PROVE  /\ battle' \in BattleRow /\ battle'.round = b.round
         /\ battle'.status \in {"completed", "forfeited"}
         /\ escrow' \in [Player -> EscrowRow] /\ keys' \subseteq Player \cup {"pot"}
BY DEF SettleWinner, BattleRow, Status, Each, EscrowRow

LEMMA Refunding ==
  ASSUME NEW b \in BattleRow, NEW status \in {"refunded", "voided"}, NEW why,
         Refunded(status, why, b),
         keys \subseteq Player \cup {"pot"}, escrow \in [Player -> EscrowRow]
  PROVE  /\ battle' \in BattleRow /\ battle'.round = b.round
         /\ battle'.status = status
         /\ escrow' \in [Player -> EscrowRow] /\ keys' \subseteq Player \cup {"pot"}
BY DEF Refunded, RefundEscrows, BattleRow, Status, EscrowRow

LEMMA AdvanceCases ==
  ASSUME NEW b \in BattleRow, NEW q, Advance(b, q),
         b.status = "in_progress" => b.round \in 1..Rounds
  PROVE  \/ /\ battle' = b /\ question' = q
            /\ UNCHANGED <<expired, money>>
         \/ /\ b.status = "in_progress" /\ b.round = Rounds
            /\ OpenSuddenDeath(b)
         \/ /\ b.status = "sudden_death" /\ b.sudden < SuddenMax
            /\ OpenSuddenDeath(b)
         \/ /\ b.status \in Playing
            /\ question' = q /\ UNCHANGED expired
            /\ \/ Refunded("refunded", "draw", b)
               \/ \E w \in Player, why \in {"score", "sudden_death", "tiebreakers"} :
                    /\ SettleWinner(w, why, b)
                    /\ why = "score" => b.score[w] > b.score[Other(w)]
<1> USE DEF Playing
<1>1. CASE b.status = "in_progress" /\ b.round < Rounds
  BY <1>1 DEF Advance
<1>2. CASE b.status = "in_progress" /\ b.round = Rounds
  <2>1. CASE b.score[Challenger] = b.score[Opponent]
    BY <1>2, <2>1 DEF Advance
  <2>2. CASE b.score[Challenger] # b.score[Opponent]
    <3>1. /\ question' = q /\ UNCHANGED expired
          /\ \E w \in Player : /\ b.score[w] > b.score[Other(w)]
                               /\ SettleWinner(w, "score", b)
      BY <1>2, <2>2 DEF Advance
    <3> QED BY <1>2, <3>1
  <2> QED BY <2>1, <2>2
<1>3. CASE b.status = "sudden_death"
  <2> DEFINE decided == q.answer[Challenger] # q.answer[Opponent]
                        /\ "right" \in {q.answer[Challenger], q.answer[Opponent]}
  <2>1. CASE decided
    <3>1. /\ question' = q /\ UNCHANGED expired
          /\ \E w \in Player : q.answer[w] = "right" /\ SettleWinner(w, "sudden_death", b)
      BY <1>3, <2>1 DEF Advance
    <3> QED BY <1>3, <3>1
  <2>2. CASE ~decided /\ SuddenSpent(b)
    <3>1. question' = q /\ UNCHANGED expired /\ ApplyTiebreakers(b)
      BY <1>3, <2>2 DEF Advance
    <3> QED BY <1>3, <3>1 DEF ApplyTiebreakers
  <2>3. CASE ~decided /\ ~SuddenSpent(b)
    <3>1. OpenSuddenDeath(b)
      BY <1>3, <2>3 DEF Advance
    <3>2. b.sudden < SuddenMax
      BY <2>3, BattleAssumption DEF SuddenSpent, BattleRow
    <3> QED BY <1>3, <3>1, <3>2
  <2> QED BY <2>1, <2>2, <2>3
<1>4. CASE b.status \notin Playing
  BY <1>4 DEF Advance
<1> QED BY <1>1, <1>2, <1>3, <1>4, BattleAssumption
-----------------------------------------------------------------------------
LEMMA EndKeeps ==
  ASSUME CallsInv, NEW c \in Call, End(c)
  PROVE  CallsInv'
BY NewValues, BattleAssumption DEF CallsInv, End, Goto, Labels

LEMMA CallsStep ==
  ASSUME RowsInv, CallsInv, [Next]_vars
  PROVE  CallsInv'
<1> USE DEF Goto, Labels
<1>1. CASE UNCHANGED vars
  BY <1>1 DEF vars, rows, locks, CallsInv
<1>2. CASE Accept \/ ExpireInvite \/ Continue \/ ExpireAsyncPlay \/ TimeLimit
           \/ (\E p \in Player : Ready(p) \/ Forfeit(p))
  <2>1. UNCHANGED <<locks, pc, view, patch>>
    BY <1>2 DEF Accept, ExpireInvite, Continue, ExpireAsyncPlay, TimeLimit, Ready, Forfeit, Tx
  <2> QED BY <2>1 DEF locks, CallsInv
<1>3. CASE \E c \in Call : Answer(c) \/ Reveal(c) \/ Verdict(c) \/ WriteBattle(c)
                            \/ WritePart(c) \/ DeadlockVictim(c) \/ PoolTooSmall(c) \/ Crash(c)
  <2>1. \E c \in Call : End(c)
    BY <1>3 DEF Answer, Reveal, Verdict, WriteBattle, WritePart, DeadlockVictim, PoolTooSmall, Crash
  <2> QED BY <2>1, EndKeeps
<1>4. CASE \E c \in Call : LockQuestion(c)
  <2> PICK c \in Call : LockQuestion(c)
    BY <1>4
  <2>1. CASE End(c)
    BY <2>1, EndKeeps
  <2>2. CASE ~End(c)
    BY <2>2, BattleAssumption DEF LockQuestion, CallsInv
  <2> QED BY <2>1, <2>2
<1>5. CASE \E c \in Call, p \in Player : Submit(c, p)
  BY <1>5, BattleAssumption DEF Submit, CallsInv, ViewRow
<1>6. CASE \E c \in Call, p \in Player : Decline(c, p)
  <2> PICK c \in Call, p \in Player : Decline(c, p)
    BY <1>6
  <2>1. [battle EXCEPT !.status = IF p = Challenger THEN "cancelled" ELSE "declined"]
          \in BattleRow
    BY DEF RowsInv, BattleRow, Status
  <2>2. view' \in [Call -> ViewRow]
    BY <2>1 DEF Decline, CallsInv, ViewRow
  <2> QED BY <2>2 DEF Decline, CallsInv, locks
<1>7. CASE \E c \in Call, p \in Player : Heartbeat(c, p)
  <2> PICK c \in Call, p \in Player : Heartbeat(c, p)
    BY <1>7
  <2>1. part[p] \in ParticipantRow
    BY DEF RowsInv
  <2>2. view' \in [Call -> ViewRow]
    BY <2>1 DEF Heartbeat, CallsInv, ViewRow
  <2> QED BY <2>2 DEF Heartbeat, CallsInv, locks
<1>8. CASE \E c \in Call : Overdue(c)
  <2> PICK c \in Call : Overdue(c)
    BY <1>8
  <2>1. battle.round \in 0..MaxRound
    BY DEF RowsInv, BattleRow
  <2>2. view' \in [Call -> ViewRow]
    BY <2>1 DEF Overdue, CallsInv, ViewRow
  <2> QED BY <2>2 DEF Overdue, CallsInv, locks
<1>9. CASE \E c \in Call, gone \in (SUBSET Player) \ {{}} : Suspect(c, gone)
  BY <1>9 DEF Suspect, CallsInv, ViewRow, locks
<1>10. CASE \E c \in Call : Diff(c)
  <2> PICK c \in Call : Diff(c)
    BY <1>10
  <2>1. battle \in BattleRow /\ part[view[c].player] \in ParticipantRow
    BY DEF RowsInv, CallsInv, ViewRow
  <2>2. /\ Differs(view[c].battle, battle) \subseteq {"status", "round", "sudden", "score"}
        /\ Differs(view[c].part, part[view[c].player]) \subseteq {"ready", "score"}
    BY <2>1 DEF Differs, BattleRow, ParticipantRow
  <2> DEFINE D == IF pc[c] = "diffBattle" THEN Differs(view[c].battle, battle)
                                          ELSE Differs(view[c].part, part[view[c].player])
  <2>3. D \in SUBSET {"status", "round", "sudden", "score", "ready"}
    BY <2>2
  <2>4. patch' = [patch EXCEPT ![c] = D]
    BY DEF Diff
  <2> HIDE DEF D
  <2> QED BY <2>3, <2>4 DEF Diff, CallsInv, locks
<1> QED BY <1>1, <1>2, <1>3, <1>4, <1>5, <1>6, <1>7, <1>8, <1>9, <1>10 DEF Next, Step
-----------------------------------------------------------------------------
LEMMA Advanced ==
  ASSUME NEW b \in BattleRow, NEW q \in QuestionRow, Course(b), Advance(b, q),
         keys \subseteq Player \cup {"pot"}, escrow \in [Player -> EscrowRow]
  PROVE  /\ battle' \in BattleRow /\ question' \in QuestionRow
         /\ escrow' \in [Player -> EscrowRow] /\ keys' \subseteq Player \cup {"pot"}
         /\ Course(battle')
         /\ b.status \in Declined => battle'.status \in Declined
         /\ battle'.status \in Open =>
              \/ battle' = b /\ question' = q
              \/ battle'.round = b.round + 1 /\ question'.answer = Each("none")
<1>1. CASE battle' = b /\ question' = q /\ UNCHANGED money
  BY <1>1 DEF money, Course, Open, Declined, Playing
<1>2. CASE /\ OpenSuddenDeath(b)
           /\ \/ b.status = "in_progress" /\ b.round = Rounds
              \/ b.status = "sudden_death" /\ b.sudden < SuddenMax
  <2> DEFINE o == [b EXCEPT !.status = "sudden_death", !.sudden = @ + 1, !.round = @ + 1]
  <2>1. OpenQuestion(o)
    <3>1. OpenSuddenDeath(b)
      BY <1>2
    <3> QED BY <3>1, Zenon DEF OpenSuddenDeath
  <2>2. b.round + 1 \in 0..MaxRound /\ b.round + 1 = Rounds + (b.sudden + 1)
    BY <1>2, BattleAssumption DEF BattleRow, MaxRound, Course
  <2>3. b.sudden + 1 \in 1..SuddenMax /\ b.sudden + 1 \in Nat
    BY <1>2, BattleAssumption DEF BattleRow, Course
  <2>4. /\ o \in BattleRow /\ o.status = "sudden_death" /\ o.sudden = b.sudden + 1
        /\ o.round = b.round + 1
    BY <2>2, <2>3 DEF BattleRow, Status
  <2> HIDE DEF o
  <2>5. battle' = o /\ question' = [Unasked EXCEPT !.open = TRUE] /\ UNCHANGED money
    BY <2>1 DEF OpenQuestion
  <2>6. question' \in QuestionRow /\ question'.answer = Each("none")
    BY <2>5, NewValues DEF QuestionRow, Unasked
  <2> QED BY <1>2, <2>2, <2>3, <2>4, <2>5, <2>6 DEF money, Course, Open, Declined, Playing
<1>3. CASE /\ b.status \in Playing /\ question' = q
           /\ Refunded("refunded", "draw", b)
  <2>1. battle' \in BattleRow /\ battle'.status = "refunded"
        /\ escrow' \in [Player -> EscrowRow] /\ keys' \subseteq Player \cup {"pot"}
    BY <1>3, Refunding
  <2> QED BY <1>3, <2>1 DEF Course, Open, Declined, Playing
<1>4. CASE /\ b.status \in Playing /\ question' = q
           /\ \E w \in Player : \E why : SettleWinner(w, why, b)
  <2>1. battle' \in BattleRow /\ battle'.status \in {"completed", "forfeited"}
        /\ escrow' \in [Player -> EscrowRow] /\ keys' \subseteq Player \cup {"pot"}
    BY <1>4, Settling
  <2> QED BY <1>4, <2>1 DEF Course, Open, Declined, Playing
<1>5. b.status = "in_progress" => b.round \in 1..Rounds
  BY DEF Course
<1>6. \/ battle' = b /\ question' = q /\ UNCHANGED money
      \/ OpenSuddenDeath(b) /\ b.status = "in_progress" /\ b.round = Rounds
      \/ OpenSuddenDeath(b) /\ b.status = "sudden_death" /\ b.sudden < SuddenMax
      \/ b.status \in Playing /\ question' = q /\ Refunded("refunded", "draw", b)
      \/ /\ b.status \in Playing /\ question' = q
         /\ \E w \in Player : \E why : SettleWinner(w, why, b)
  <2>1. \/ battle' = b /\ question' = q /\ UNCHANGED <<expired, money>>
        \/ OpenSuddenDeath(b) /\ b.status = "in_progress" /\ b.round = Rounds
        \/ OpenSuddenDeath(b) /\ b.status = "sudden_death" /\ b.sudden < SuddenMax
        \/ /\ b.status \in Playing
           /\ question' = q /\ UNCHANGED expired
           /\ \/ Refunded("refunded", "draw", b)
              \/ \E w \in Player, why \in {"score", "sudden_death", "tiebreakers"} :
                   /\ SettleWinner(w, why, b)
                   /\ why = "score" => b.score[w] > b.score[Other(w)]
    BY <1>5, AdvanceCases
  <2> QED BY <2>1
<1> QED BY <1>1, <1>2, <1>3, <1>4, <1>6

(* What an answer and a reveal make of the question and the battle.        *)
LEMMA Judged ==
  ASSUME RowsInv, NEW p \in Player, NEW a \in AnswerRow, NEW n \in Nat
  PROVE  /\ [question EXCEPT !.answer[p] = a] \in QuestionRow
         /\ \A q \in QuestionRow : Revealed(q) \in QuestionRow
         /\ [battle EXCEPT !.score[p] = n] \in BattleRow
         /\ Course(battle) => Course([battle EXCEPT !.score[p] = n])
<1>1. [question EXCEPT !.answer[p] = a] \in QuestionRow
  BY DEF RowsInv, QuestionRow
<1>2. \A q \in QuestionRow : Revealed(q) \in QuestionRow
  BY DEF Revealed, QuestionRow, AnswerRow
<1>3. [battle EXCEPT !.score[p] = n] \in BattleRow
  BY DEF RowsInv, BattleRow
<1>4. Course(battle) => Course([battle EXCEPT !.score[p] = n])
  BY DEF RowsInv, BattleRow, Course
<1> QED BY <1>1, <1>2, <1>3, <1>4

(* What every step does to the rows: the next part of the invariant.       *)
Onward ==
  /\ RowsInv' /\ RoundInv' /\ RevealedComplete'
  /\ battle.status \in Declined => battle'.status \in Declined
  /\ battle'.status \in Open =>
       /\ battle.status \in Open
       /\ \A p \in Player : Asked(p) <= Asked(p)' /\ part'[p].score <= Asked(p)'

LEMMA AskedIsRound ==
  ASSUME RowsInv, NEW p \in Player
  PROVE  Asked(p) \in Int /\ Asked(p) <= battle.round
BY NewValues DEF RowsInv, BattleRow, Asked

(* A question is revealed: it is answered, or the next one is open.        *)
LEMMA RevealGoesOnward ==
  ASSUME BattleInv, NEW b \in BattleRow, NEW q \in QuestionRow, Course(b), Advance(b, q),
         b.status = battle.status, b.round = battle.round,
         part' \in [Player -> ParticipantRow], earned' \in [Player -> Nat],
         \A p \in Player : q.answer[p] # "none",
         b.status \in Open => \A p \in Player : part'[p].score <= b.round
  PROVE  Onward
<1> USE DEF BattleInv
<1>1. /\ battle' \in BattleRow /\ question' \in QuestionRow
      /\ escrow' \in [Player -> EscrowRow] /\ keys' \subseteq Player \cup {"pot"}
      /\ Course(battle')
      /\ b.status \in Declined => battle'.status \in Declined
      /\ battle'.status \in Open =>
           \/ battle' = b /\ question' = q
           \/ battle'.round = b.round + 1 /\ question'.answer = Each("none")
  BY Advanced DEF RowsInv
<1>2. RowsInv' /\ RoundInv'
  BY <1>1 DEF RowsInv, RoundInv
<1>3. ASSUME battle'.status \in Open
      PROVE  /\ battle.status \in Open
             /\ \A p \in Player : Asked(p) <= Asked(p)' /\ part'[p].score <= Asked(p)'
  <2>1. b.status \in Open
    BY <1>1, <1>3, AdvanceCases DEF Course, Open, Playing
  <2>2. SUFFICES ASSUME NEW p \in Player
                 PROVE  Asked(p) <= Asked(p)' /\ part'[p].score <= Asked(p)'
    BY <2>1
  <2>3. Asked(p)' = b.round
    <3>1. CASE battle' = b /\ question' = q
      BY <3>1 DEF Asked
    <3>2. CASE battle'.round = b.round + 1 /\ question'.answer = Each("none")
      BY <3>2 DEF Asked, Each, BattleRow
    <3> QED BY <1>1, <1>3, <3>1, <3>2
  <2> QED BY <2>1, <2>3, AskedIsRound
<1>4. RevealedComplete'
  <2>1. \/ question' = q
        \/ question' = [Unasked EXCEPT !.open = TRUE]
    BY AdvanceCases DEF OpenSuddenDeath, OpenQuestion, Course
  <2> QED BY <2>1 DEF RevealedComplete, Unasked
<1> QED BY <1>1, <1>2, <1>3, <1>4 DEF Onward

LEMMA SettlementGoesOnward ==
  ASSUME BattleInv, UNCHANGED <<part, question, earned>>,
         battle.status \in Playing \cup {"ready"},
         \/ \E w \in Player : \E why : SettleWinner(w, why, battle)
         \/ \E status \in {"refunded", "voided"} : \E why : Refunded(status, why, battle)
  PROVE  Onward
<1> USE DEF BattleInv
<1>1. battle \in BattleRow /\ keys \subseteq Player \cup {"pot"} /\ escrow \in [Player -> EscrowRow]
  BY DEF RowsInv
<1>2. /\ battle' \in BattleRow
      /\ battle'.status \in {"completed", "forfeited", "refunded", "voided"}
      /\ escrow' \in [Player -> EscrowRow] /\ keys' \subseteq Player \cup {"pot"}
  <2>1. CASE \E w \in Player : \E why : SettleWinner(w, why, battle)
    BY <1>1, <2>1, Settling
  <2>2. CASE \E status \in {"refunded", "voided"} : \E why : Refunded(status, why, battle)
    BY <1>1, <2>2, Refunding
  <2> QED BY <2>1, <2>2
<1>3. RowsInv' /\ RoundInv'
  BY <1>2 DEF RowsInv, RoundInv, Course
<1> QED BY <1>2, <1>3 DEF Onward, Open, Playing, Declined, RevealedComplete

(* An answer that counts.                                                  *)
LEMMA Answered ==
  ASSUME BattleInv, NEW c \in Call, Answer(c)
  PROVE  /\ battle.status \in Playing /\ End(c)
         /\ UNCHANGED <<mode, poolFailed>>
         /\ \/ UNCHANGED rows
            \/ \E p \in Player, points \in {0, 1}, a \in {"right", "wrong"} :
                 LET q == [question EXCEPT !.answer[p] = a]
                     b == [battle EXCEPT !.score[p] = part[p].score + points]
                 IN /\ question.answer[p] = "none" /\ ~question.revealed
                    /\ part' = [part EXCEPT ![p].score = part[p].score + points]
                    /\ earned' = [earned EXCEPT ![p] = earned[p] + points]
                    /\ \/ /\ battle' = b /\ question' = q
                          /\ UNCHANGED <<expired, money>>
                       \/ Advance(b, Revealed(q))
<1> DEFINE p == view[c].player
<1>1. p \in Player /\ battle.status \in Playing
  BY DEF BattleInv, CallsInv, ViewRow, PhaseInv, PhaseOf, Answer
<1>2. End(c)
  BY DEF Answer
<1>3. CASE question.revealed \/ question.answer[p] # "none"
  <2>1. UNCHANGED rows
    BY <1>3 DEF Answer
  <2> QED BY <1>1, <1>2, <2>1 DEF rows
<1>4. CASE ~(question.revealed \/ question.answer[p] # "none")
  <2>1. PICK right \in BOOLEAN :
          LET points == IF right THEN 1 ELSE 0
              q == [question EXCEPT !.answer[p] = IF right THEN "right" ELSE "wrong"]
              b == [battle EXCEPT !.score[p] = part[p].score + points]
          IN /\ part' = [part EXCEPT ![p].score = @ + points]
             /\ earned' = [earned EXCEPT ![p] = @ + points]
             /\ IF q.answer[Other(p)] # "none" \/ (expired /\ mode = "live")
                THEN Advance(b, Revealed(q))
                ELSE battle' = b /\ question' = q /\ UNCHANGED <<expired, money>>
             /\ UNCHANGED <<mode, poolFailed>>
    BY <1>4, Zenon DEF Answer, Points, Given, Scored
  <2> DEFINE points == IF right THEN 1 ELSE 0
             a == IF right THEN "right" ELSE "wrong"
             q == [question EXCEPT !.answer[p] = a]
             b == [battle EXCEPT !.score[p] = part[p].score + points]
  <2>2. /\ part' = [part EXCEPT ![p].score = part[p].score + points]
        /\ earned' = [earned EXCEPT ![p] = earned[p] + points]
        /\ \/ /\ battle' = b /\ question' = q
              /\ UNCHANGED <<expired, money>>
           \/ Advance(b, Revealed(q))
        /\ UNCHANGED <<mode, poolFailed>>
    BY <2>1, Zenon
  <2>3. points \in {0, 1} /\ a \in {"right", "wrong"}
    OBVIOUS
  <2>4. question.answer[p] = "none" /\ ~question.revealed
    BY <1>4
  <2> HIDE DEF points, a
  <2> QED BY <1>1, <1>2, <2>2, <2>3, <2>4
<1> QED BY <1>3, <1>4

LEMMA AnswerGoesOnward ==
  ASSUME BattleInv, NEW c \in Call, Answer(c)
  PROVE  Onward
<1> USE DEF BattleInv
<1>1. CASE UNCHANGED rows
  BY <1>1 DEF rows, quiz, money, Onward, RowsInv, RoundInv, Course, PointsInv, Asked, BattleRow,
     RevealedComplete
<1>2. CASE ~UNCHANGED rows
  <2>1. PICK p \in Player, points \in {0, 1}, a \in {"right", "wrong"} :
          LET q == [question EXCEPT !.answer[p] = a]
              b == [battle EXCEPT !.score[p] = part[p].score + points]
          IN /\ question.answer[p] = "none" /\ ~question.revealed
             /\ part' = [part EXCEPT ![p].score = part[p].score + points]
             /\ earned' = [earned EXCEPT ![p] = earned[p] + points]
             /\ \/ /\ battle' = b /\ question' = q
                   /\ UNCHANGED <<expired, money>>
                \/ Advance(b, Revealed(q))
    BY <1>2, Answered
  <2> DEFINE q == [question EXCEPT !.answer[p] = a]
             b == [battle EXCEPT !.score[p] = part[p].score + points]
  <2>2. battle.status \in Playing /\ battle.round \in 1..MaxRound
    <3>1. battle.status \in Playing
      BY Answered
    <3> QED BY <3>1, BattleAssumption DEF RowsInv, BattleRow, RoundInv, Course, Playing, MaxRound
  <2>3. /\ part[p] \in ParticipantRow /\ part[p].score \in Nat
        /\ part[p].score + points <= battle.round
        /\ \A r \in Player : part[r].score <= battle.round
    <3>1. \A r \in Player : part[r] \in ParticipantRow /\ part[r].score \in Nat
      BY BattleAssumption DEF RowsInv, ParticipantRow
    <3>2. \A r \in Player : part[r].score <= Asked(r)
      BY <2>2 DEF PointsInv, Open, Playing
    <3>3. Asked(p) = battle.round - 1
      BY <2>1, <2>2 DEF Asked
    <3> QED BY <2>2, <3>1, <3>2, <3>3, AskedIsRound
  <2>4. /\ q \in QuestionRow /\ Revealed(q) \in QuestionRow
        /\ b \in BattleRow /\ Course(b)
    <3>1. a \in AnswerRow /\ part[p].score + points \in Nat
      BY <2>3 DEF AnswerRow
    <3> QED BY <3>1, Judged DEF RoundInv
  <2>5. b.status = battle.status /\ b.round = battle.round
    BY DEF RowsInv, BattleRow
  <2>6. /\ part' \in [Player -> ParticipantRow]
        /\ \A r \in Player : part'[r].score <= battle.round
    <3>1. \E r \in ParticipantRow : part' = [part EXCEPT ![p] = r] /\ r.score <= battle.round
      <4>1. [part[p] EXCEPT !.score = part[p].score + points] \in ParticipantRow
        <5>1. part[p].score + points \in 0..MaxRound
          BY <2>2, <2>3, NewValues
        <5>2. \A r \in ParticipantRow, n \in 0..MaxRound : [r EXCEPT !.score = n] \in ParticipantRow
          BY DEF ParticipantRow, MaxRound
        <5> QED BY <2>3, <5>1, <5>2
      <4> QED BY <2>1, <2>3, <4>1 DEF ParticipantRow
    <3> QED BY <2>3, <3>1 DEF RowsInv
  <2>7. earned' \in [Player -> Nat]
    BY <2>1 DEF RowsInv
  <2>8. CASE Advance(b, Revealed(q))
    <3>1. \A r \in Player : Revealed(q).answer[r] # "none"
      BY <2>4 DEF Revealed, QuestionRow
    <3> HIDE DEF q, b
    <3> QED BY <2>4, <2>5, <2>6, <2>7, <2>8, <3>1, RevealGoesOnward
  <2>9. CASE battle' = b /\ question' = q /\ UNCHANGED money
    <3>1. RowsInv' /\ RoundInv'
      BY <2>4, <2>6, <2>7, <2>9 DEF RowsInv, RoundInv, money
    <3>2. \A r \in Player : Asked(r)' = IF r = p THEN battle.round ELSE Asked(r)
      BY <2>1, <2>2, <2>5, <2>9 DEF Asked, RowsInv, QuestionRow
    <3>3. \A r \in Player \ {p} : part'[r].score <= Asked(r)
      BY <2>1, <2>2 DEF PointsInv, Open, Playing, RowsInv
    <3>4. RevealedComplete'
      BY <2>1, <2>9 DEF RevealedComplete, RowsInv, QuestionRow
    <3> QED BY <2>2, <2>5, <2>6, <2>9, <3>1, <3>2, <3>3, <3>4, AskedIsRound
         DEF Onward, Open, Playing, Declined
  <2> QED BY <2>1, <2>8, <2>9
<1> QED BY <1>1, <1>2

LEMMA RowsStep ==
  ASSUME BattleInv, [Next]_vars
  PROVE  Onward
<1> USE DEF BattleInv
<1>0. ASSUME UNCHANGED <<battle, part, question, escrow, keys, earned>>
      PROVE  Onward
  BY <1>0 DEF Onward, RowsInv, RoundInv, Course, PointsInv, Asked, BattleRow,
     RevealedComplete
<1>1. CASE UNCHANGED vars \/ TimeLimit
           \/ \E c \in Call : \/ LockQuestion(c) \/ Diff(c) \/ DeadlockVictim(c) \/ PoolTooSmall(c) \/ Crash(c)
                             \/ Overdue(c)
                             \/ \E p \in Player : Submit(c, p) \/ Decline(c, p) \/ Heartbeat(c, p)
                             \/ \E gone \in (SUBSET Player) \ {{}} : Suspect(c, gone)
  <2>1. UNCHANGED <<battle, part, question, escrow, keys, earned>>
    BY <1>1 DEF vars, rows, quiz, money, TimeLimit, LockQuestion, Diff, DeadlockVictim, PoolTooSmall, Crash,
                Overdue, Submit, Decline, Heartbeat, Suspect
  <2> QED BY <1>0, <2>1
<1>2. CASE Accept
  <2>1. /\ battle' = battle \/ battle' = [battle EXCEPT !.status = "ready"]
        /\ battle.status = "invited"
        /\ escrow' = escrow \/ escrow' = Each("reserved")
        /\ UNCHANGED <<part, keys, question, earned>>
    BY <1>2 DEF Accept, quiz
  <2>2. battle' \in BattleRow /\ escrow' \in [Player -> EscrowRow] /\ battle'.round = battle.round
    BY <2>1 DEF RowsInv, BattleRow, Status, Each, EscrowRow
  <2>3. RowsInv' /\ RoundInv'
    BY <2>1, <2>2 DEF RowsInv, RoundInv, Course, BattleRow
  <2>4. \A p \in Player : Asked(p)' = Asked(p)
    BY <2>1, <2>2 DEF Asked
  <2> QED BY <2>1, <2>2, <2>3, <2>4, AskedIsRound
       DEF Onward, Declined, PointsInv, Open, RevealedComplete
<1>3. CASE ExpireInvite
  <2>1. /\ battle' = [battle EXCEPT !.status = "expired"] /\ battle.status = "invited"
        /\ UNCHANGED <<part, escrow, keys, question, earned>>
    BY <1>3 DEF ExpireInvite, money, quiz
  <2>2. battle' \in BattleRow /\ battle'.status = "expired"
    BY <2>1 DEF RowsInv, BattleRow, Status
  <2> QED BY <2>1, <2>2 DEF Onward, RowsInv, RoundInv, Course, Open, Playing, Declined,
                             RevealedComplete
<1>4. CASE \E p \in Player : Ready(p)
  <2> PICK p \in Player : Ready(p)
    BY <1>4
  <2> DEFINE o == [battle EXCEPT !.status = "in_progress", !.round = 1]
  <2>1. /\ battle.status = "ready" /\ part' = [part EXCEPT ![p].ready = TRUE]
        /\ UNCHANGED earned
        /\ \/ UNCHANGED <<battle, question, money>>
           \/ OpenQuestion(o)
    BY DEF Ready
  <2>2. /\ battle.round = 0 /\ battle.sudden = 0
        /\ \A r \in Player : part[r].score <= 0 /\ Asked(r) = 0
    BY <2>1 DEF RoundInv, Course, PointsInv, Open, Asked
  <2>3. /\ part' \in [Player -> ParticipantRow]
        /\ \A r \in Player : part'[r].score = part[r].score
    BY <2>1 DEF RowsInv, ParticipantRow
  <2>4. CASE UNCHANGED <<battle, question, money>>
    <3>1. RowsInv' /\ RoundInv'
      BY <2>1, <2>3, <2>4 DEF RowsInv, RoundInv, Course, money
    <3> QED BY <2>1, <2>2, <2>3, <2>4, <3>1
         DEF Onward, Declined, Open, Asked, RevealedComplete
  <2>5. CASE OpenQuestion(o)
    <3>1. /\ o \in BattleRow /\ o.status = "in_progress" /\ o.round = 1 /\ o.sudden = 0
      <4>1. 1 \in 0..MaxRound
        BY BattleAssumption DEF MaxRound
      <4> QED BY <2>2, <4>1 DEF RowsInv, BattleRow, Status
    <3> HIDE DEF o
    <3>2. battle' = o /\ question' = [Unasked EXCEPT !.open = TRUE] /\ UNCHANGED money
      BY <2>5 DEF OpenQuestion
    <3>3. question' \in QuestionRow /\ question'.answer = Each("none")
      BY <3>2, NewValues DEF QuestionRow, Unasked
    <3>4. RowsInv' /\ RoundInv'
      BY <2>1, <2>3, <3>1, <3>2, <3>3, BattleAssumption DEF RowsInv, RoundInv, Course, money
    <3>5. \A r \in Player : Asked(r)' = 0
      BY <3>1, <3>2, <3>3 DEF Asked, Each
    <3>6. RevealedComplete'
      BY <3>2 DEF RevealedComplete, Unasked
    <3> QED BY <2>1, <2>2, <2>3, <3>1, <3>2, <3>4, <3>5, <3>6 DEF Onward, Declined, Open
  <2> QED BY <2>1, <2>4, <2>5
<1>5. CASE Continue
  <2> DEFINE o == [battle EXCEPT !.round = @ + 1]
  <2>1. /\ battle.status \in Playing /\ question.revealed
        /\ UNCHANGED <<part, earned>>
        /\ \/ /\ battle.status = "in_progress" /\ battle.round < Rounds
              /\ OpenQuestion(o)
           \/ Advance(battle, question)
    BY <1>5, Zenon DEF Continue
  <2>2. \A r \in Player : /\ part[r].score <= battle.round /\ Asked(r) <= battle.round
                          /\ Asked(r) \in Int /\ part[r].score \in Int
    <3>1. \A r \in Player : part[r].score <= Asked(r) /\ part[r].score \in Int
      BY <2>1, BattleAssumption DEF PointsInv, Open, RowsInv, ParticipantRow
    <3> QED BY <3>1, AskedIsRound DEF RowsInv, BattleRow
  <2>3. CASE Advance(battle, question)
    BY <2>1, <2>2, <2>3, RevealGoesOnward DEF RowsInv, RoundInv, RevealedComplete
  <2>4. CASE battle.status = "in_progress" /\ battle.round < Rounds /\ OpenQuestion(o)
    <3>1. /\ o \in BattleRow /\ o.status = "in_progress" /\ o.round = battle.round + 1
          /\ o.round \in 1..Rounds /\ o.sudden = 0 /\ battle.round \in 1..Rounds
      <4>1. battle.round \in 1..Rounds /\ battle.sudden = 0
        BY <2>4 DEF RoundInv, Course
      <4>2. battle.round + 1 \in 1..Rounds /\ battle.round + 1 \in 0..MaxRound
        BY <2>4, <4>1, BattleAssumption DEF MaxRound
      <4> QED BY <2>4, <4>1, <4>2 DEF RowsInv, BattleRow
    <3> HIDE DEF o
    <3>2. battle' = o /\ question' = [Unasked EXCEPT !.open = TRUE] /\ UNCHANGED money
      BY <2>4 DEF OpenQuestion
    <3>3. question' \in QuestionRow /\ question'.answer = Each("none") /\ RevealedComplete'
      BY <3>2, NewValues DEF QuestionRow, Unasked, RevealedComplete
    <3>4. RowsInv' /\ RoundInv'
      BY <2>1, <3>1, <3>2, <3>3 DEF RowsInv, RoundInv, Course, money
    <3>5. \A r \in Player : Asked(r)' = battle.round
      BY <3>1, <3>2, <3>3, BattleAssumption DEF Asked, Each
    <3> QED BY <2>1, <2>2, <3>1, <3>2, <3>3, <3>4, <3>5 DEF Onward, Declined, Open, Playing
  <2> QED BY <2>1, <2>3, <2>4
<1>6. CASE \/ ExpireAsyncPlay \/ \E p \in Player : Forfeit(p)
  BY <1>6, SettlementGoesOnward, Others DEF ExpireAsyncPlay, Forfeit, quiz
<1>7. CASE \E c \in Call : Verdict(c)
  <2> PICK c \in Call : Verdict(c)
    BY <1>7
  <2>1. UNCHANGED <<part, question, earned>> /\ view[c].gone \subseteq Player
    BY DEF Verdict, quiz, CallsInv, ViewRow
  <2>2. \/ UNCHANGED <<battle, money>>
        \/ battle.status \in Playing /\ Refunded("voided", "void", battle)
        \/ /\ battle.status \in Playing
           /\ \E p \in view[c].gone : SettleWinner(Other(p), "forfeit", battle)
    BY DEF Verdict
  <2> QED BY <2>1, <2>2, <1>0, SettlementGoesOnward, Others DEF money
<1>8. CASE \E c \in Call : Answer(c)
  BY <1>8, AnswerGoesOnward
<1>9. CASE \E c \in Call : Reveal(c)
  <2>1. Advance(battle, Revealed(question)) /\ UNCHANGED <<part, earned>>
    BY <1>9 DEF Reveal
  <2>2. /\ Revealed(question) \in QuestionRow
        /\ \A p \in Player : Revealed(question).answer[p] # "none"
    BY DEF RowsInv, Revealed, QuestionRow, AnswerRow
  <2>3. battle.status \in Open => \A p \in Player : part[p].score <= battle.round
    BY AskedIsRound, BattleAssumption DEF PointsInv, RowsInv, BattleRow, ParticipantRow
  <2> QED BY <2>1, <2>2, <2>3, RevealGoesOnward DEF RowsInv, RoundInv
<1>10. CASE \E c \in Call : WriteBattle(c)
  <2> PICK c \in Call : WriteBattle(c)
    BY <1>10
  <2>1. /\ battle' = Patched(battle, view[c].battle, patch[c])
        /\ UNCHANGED <<part, escrow, keys, question, earned>>
    BY DEF WriteBattle, money, quiz
  <2>2. battle' \in BattleRow /\ battle'.status \in Declined
    BY <2>1, PatchedBattle DEF WriteBattle, PhaseInv, PhaseOf, RowsInv, CallsInv, ViewRow
  <2> QED BY <2>1, <2>2 DEF Onward, RowsInv, RoundInv, Course, Open, Playing, Declined,
                            RevealedComplete
<1>11. CASE \E c \in Call : WritePart(c)
  <2> PICK c \in Call : WritePart(c)
    BY <1>11
  <2> DEFINE p == view[c].player
             r == Patched(part[p], view[c].part, patch[c])
  <2>1. /\ part' = [part EXCEPT ![p] = r]
        /\ UNCHANGED <<battle, escrow, keys, question, earned>>
    BY DEF WritePart, money, quiz
  <2>2. /\ p \in Player /\ r \in ParticipantRow
        /\ r.score = part[p].score \/ r.score = view[c].part.score
    BY PatchedPart DEF RowsInv, CallsInv, ViewRow
  <2> HIDE DEF r
  <2>3. battle.status \in Open => r.score <= Asked(p)
    BY <2>2 DEF PointsInv, WritePart
  <2>4. RowsInv' /\ RoundInv' /\ RevealedComplete'
    BY <2>1, <2>2 DEF RowsInv, RoundInv, RevealedComplete
  <2>5. \A s \in Player : Asked(s)' = Asked(s)
    BY <2>1 DEF Asked
  <2>6. battle.status \in Open => \A s \in Player : part'[s].score <= Asked(s)
    BY <2>1, <2>2, <2>3 DEF RowsInv, PointsInv
  <2> QED BY <2>1, <2>4, <2>5, <2>6, AskedIsRound DEF Onward
<1> QED BY <1>1, <1>2, <1>3, <1>4, <1>5, <1>6, <1>7, <1>8, <1>9, <1>10, <1>11 DEF Next, Step

(* A change that begins finds the battle as it was read; one that ends is  *)
(* taken from the calls in flight.                                         *)
LEMMA PhaseStep ==
  ASSUME BattleInv, Onward, [Next]_vars
  PROVE  PhaseInv'
<1> USE DEF BattleInv
<1> SUFFICES ASSUME NEW c \in Call PROVE PhaseOf(c)'
  BY DEF PhaseInv
<1> USE DEF Goto
<1>1. CASE /\ pc'[c] = pc[c] /\ view'[c] = view[c] /\ patch'[c] = patch[c]
           /\ pc[c] = "answer" => battle' = battle
  BY <1>1 DEF PhaseInv, PhaseOf, Onward
<1>2. CASE pc'[c] = "idle"
  BY <1>2 DEF PhaseOf
<1>3. CASE \E p \in Player : Submit(c, p)
  BY <1>3 DEF PhaseOf, Submit, CallsInv, rows
<1>4. CASE \E p \in Player : Decline(c, p)
  BY <1>4 DEF PhaseOf, Decline, CallsInv, ViewRow, RowsInv, BattleRow, Declined
<1>5. CASE Diff(c)
  <2>1. CASE pc[c] = "diffPart"
    BY <1>5, <2>1 DEF PhaseOf, Diff, CallsInv
  <2>2. CASE pc[c] = "diffBattle"
    <3>1. pc'[c] = "writeBattle" /\ view' = view /\ battle' = battle
      BY <1>5, <2>2 DEF Diff, CallsInv, rows
    <3>2. patch'[c] = Differs(view[c].battle, battle)
      BY <1>5, <2>2 DEF Diff, CallsInv
    <3>3. "status" \notin patch'[c] => view[c].battle.status = battle.status
      BY <3>2 DEF Differs, RowsInv, BattleRow
    <3> QED BY <2>2, <3>1, <3>3 DEF PhaseInv, PhaseOf
  <2> QED BY <1>5, <2>1, <2>2 DEF Diff
<1>6. CASE \/ Overdue(c) \/ \E p \in Player : Heartbeat(c, p)
           \/ \E gone \in (SUBSET Player) \ {{}} : Suspect(c, gone)
           \/ LockQuestion(c) /\ ~End(c)
  <2>1. pc'[c] \in {"overdue", "diffPart", "verdict", "reveal"}
    BY <1>6 DEF Overdue, Heartbeat, Suspect, LockQuestion, CallsInv
  <2> QED BY <2>1 DEF PhaseOf
<1>7. ASSUME UNCHANGED <<pc, view, patch>>, battle' = battle \/ battleHolder = NoCall
      PROVE  /\ pc'[c] = pc[c] /\ view'[c] = view[c] /\ patch'[c] = patch[c]
             /\ pc[c] = "answer" => battle' = battle
  BY <1>7, BattleAssumption DEF CallsInv
<1>8. ASSUME NEW d \in Call \ {c}, battle' = battle \/ battleHolder \in {NoCall, d},
             \E l, v, q : /\ pc' = [pc EXCEPT ![d] = l] /\ view' = [view EXCEPT ![d] = v]
                         /\ patch' = [patch EXCEPT ![d] = q]
      PROVE  /\ pc'[c] = pc[c] /\ view'[c] = view[c] /\ patch'[c] = patch[c]
             /\ pc[c] = "answer" => battle' = battle
  BY <1>8, BattleAssumption DEF CallsInv
<1>9. CASE UNCHANGED vars \/ Accept \/ ExpireInvite \/ Continue \/ ExpireAsyncPlay \/ TimeLimit
           \/ (\E p \in Player : Ready(p) \/ Forfeit(p))
  <2>1. UNCHANGED <<pc, view, patch>> /\ (battle' = battle \/ battleHolder = NoCall)
    BY <1>9 DEF vars, rows, Accept, ExpireInvite, Continue, ExpireAsyncPlay, TimeLimit, Ready,
                Forfeit, Tx
  <2> QED BY <1>1, <1>7, <2>1
<1>10. ASSUME NEW d \in Call, End(d), battle' = battle \/ battleHolder \in {NoCall, d}
       PROVE  PhaseOf(c)'
  <2>1. CASE d = c
    BY <1>2, <1>10, <2>1 DEF CallsInv, End
  <2>2. CASE d # c
    <3>1. \E l, v, q : /\ pc' = [pc EXCEPT ![d] = l] /\ view' = [view EXCEPT ![d] = v]
                      /\ patch' = [patch EXCEPT ![d] = q]
      BY <1>10 DEF End
    <3>2. d \in Call \ {c}
      BY <2>2
    <3>3. /\ pc'[c] = pc[c] /\ view'[c] = view[c] /\ patch'[c] = patch[c]
          /\ pc[c] = "answer" => battle' = battle
      BY <1>8, <1>10, <3>1, <3>2
    <3> QED BY <1>1, <3>3
  <2> QED BY <2>1, <2>2
<1>11. ASSUME NEW d \in Call,
              \/ Overdue(d) \/ Diff(d) \/ (LockQuestion(d) /\ ~End(d))
              \/ \E p \in Player : Submit(d, p) \/ Decline(d, p) \/ Heartbeat(d, p)
              \/ \E gone \in (SUBSET Player) \ {{}} : Suspect(d, gone)
       PROVE  PhaseOf(c)'
  <2>1. CASE d = c
    BY <1>3, <1>4, <1>5, <1>6, <1>11, <2>1
  <2>2. CASE d # c
    <3>1. /\ battle' = battle /\ pc' = [pc EXCEPT ![d] = pc'[d]]
          /\ view' = [view EXCEPT ![d] = view'[d]] /\ patch' = [patch EXCEPT ![d] = patch'[d]]
      BY <1>11 DEF Overdue, Diff, LockQuestion, Submit, Decline, Heartbeat, Suspect, rows, CallsInv
    <3> QED BY <1>1, <1>8, <2>2, <3>1
  <2> QED BY <2>1, <2>2
<1>12. ASSUME NEW d \in Call,
              \/ Answer(d) \/ DeadlockVictim(d) \/ PoolTooSmall(d) \/ Crash(d) \/ Reveal(d) \/ Verdict(d)
              \/ WriteBattle(d) \/ WritePart(d) \/ (LockQuestion(d) /\ End(d))
       PROVE  PhaseOf(c)'
  <2>1. End(d) /\ (battle' = battle \/ battleHolder \in {NoCall, d})
    BY <1>12 DEF Answer, CallsInv, DeadlockVictim, PoolTooSmall, Crash, Reveal, Verdict, WriteBattle, WritePart,
                 LockQuestion, rows
  <2> QED BY <1>10, <2>1
<1> USE DEF PhaseOf
<1>13. ASSUME NEW d \in Call, Step(d)
       PROVE  PhaseOf(c)'
  <2>1. CASE LockQuestion(d)
    <3>1. CASE End(d)
      BY <1>12, <2>1, <3>1
    <3>2. CASE ~End(d)
      BY <1>11, <2>1, <3>2
    <3> QED BY <3>1, <3>2
  <2>2. CASE Diff(d)
    BY <1>11, <2>2
  <2>3. CASE Answer(d) \/ Reveal(d) \/ Verdict(d) \/ WriteBattle(d) \/ WritePart(d) \/ DeadlockVictim(d) \/ PoolTooSmall(d)
    BY <1>12, <2>3
  <2> QED BY <1>13, <2>1, <2>2, <2>3 DEF Step
<1>14. ASSUME NEW d \in Call,
              \/ \E p \in Player : Submit(d, p) \/ Decline(d, p) \/ Heartbeat(d, p)
              \/ Overdue(d) \/ Step(d) \/ Crash(d)
              \/ \E gone \in (SUBSET Player) \ {{}} : Suspect(d, gone)
       PROVE  PhaseOf(c)'
  <2>1. CASE Step(d)
    BY <1>13, <2>1
  <2>2. CASE Crash(d)
    BY <1>12, <2>2
  <2>3. CASE Overdue(d)
    BY <1>11, <2>3
  <2>4. CASE \E p \in Player : Submit(d, p) \/ Decline(d, p) \/ Heartbeat(d, p)
    BY <1>11, <2>4
  <2>5. CASE \E gone \in (SUBSET Player) \ {{}} : Suspect(d, gone)
    BY <1>11, <2>5
  <2> QED BY <1>14, <2>1, <2>2, <2>3, <2>4, <2>5
<1> QED BY <1>9, <1>14 DEF Next

LEMMA PointsStep ==
  ASSUME BattleInv, Onward, [Next]_vars
  PROVE  PointsInv'
<1> USE DEF BattleInv
<1> SUFFICES ASSUME battle'.status \in Open
             PROVE  /\ \A p \in Player : part'[p].score <= Asked(p)'
                    /\ \A c \in Call : \A p \in Player :
                         pc'[c] \in {"diffPart", "writePart"} /\ view'[c].player = p =>
                           view'[c].part.score <= Asked(p)'
  <2>1. CallsInv'
    BY CallsStep
  <2>2. \A c \in Call : view'[c].player \in Player
    BY <2>1 DEF CallsInv, ViewRow
  <2> QED BY <2>2 DEF PointsInv, Asked
<1>1. /\ battle.status \in Open
      /\ \A p \in Player : /\ Asked(p) <= Asked(p)' /\ part'[p].score <= Asked(p)'
                           /\ Asked(p) \in Int /\ Asked(p)' \in Int
  <2>1. RowsInv'
    BY DEF Onward
  <2>2. \A p \in Player : Asked(p) \in Int /\ Asked(p)' \in Int
    BY <2>1, NewValues DEF RowsInv, BattleRow, Asked
  <2> QED BY <2>2 DEF Onward, Asked
<1>2. SUFFICES ASSUME NEW c \in Call, pc'[c] \in {"diffPart", "writePart"},
                      NEW r \in Player, view'[c].player = r
               PROVE  view'[c].part.score <= Asked(r)'
  BY <1>1
<1>3. CASE pc[c] \in {"diffPart", "writePart"} /\ view'[c] = view[c]
  <2>1. view[c].player \in Player /\ view[c].part.score \in Int
    BY BattleAssumption DEF CallsInv, ViewRow, ParticipantRow
  <2>2. view[c].part.score <= Asked(view[c].player)
    BY <1>1, <1>3 DEF PointsInv
  <2>3. view[c].player = r /\ view'[c].part.score = view[c].part.score
    BY <1>2, <1>3
  <2> QED BY <1>1, <2>1, <2>2, <2>3
<1>4. CASE \E p \in Player : Heartbeat(c, p)
  <2> PICK p \in Player : Heartbeat(c, p)
    BY <1>4
  <2>1. view'[c].player = p /\ view'[c].part = part[p] /\ part' = part
    BY DEF Heartbeat, CallsInv, ViewRow, rows
  <2>2. p = r /\ view'[c].part.score = part'[p].score
    BY <1>2, <2>1
  <2> QED BY <1>1, <2>2
<1>5. \/ pc[c] \in {"diffPart", "writePart"} /\ view'[c] = view[c]
      \/ \E p \in Player : Heartbeat(c, p)
  <2> USE <1>2 DEF Goto
  <2>1. CASE UNCHANGED <<pc, view>>
    BY <2>1
  <2>2. CASE \E d \in Call : End(d)
    BY <2>2 DEF End, CallsInv
  <2>3. CASE \E d \in Call, p \in Player : Heartbeat(d, p)
    BY <2>3 DEF Heartbeat, CallsInv
  <2>4. CASE \E d \in Call : Diff(d) \/ Overdue(d) \/ (LockQuestion(d) /\ ~End(d))
    BY <2>4 DEF Diff, Overdue, LockQuestion, CallsInv
  <2>5. CASE \/ \E d \in Call, p \in Player : Submit(d, p) \/ Decline(d, p)
             \/ \E d \in Call, gone \in (SUBSET Player) \ {{}} : Suspect(d, gone)
    BY <2>5 DEF Submit, Decline, Suspect, CallsInv
  <2>6. CASE UNCHANGED vars \/ Accept \/ ExpireInvite \/ Continue \/ ExpireAsyncPlay \/ TimeLimit
             \/ (\E p \in Player : Ready(p) \/ Forfeit(p))
    <3>1. UNCHANGED <<pc, view>>
      BY <2>6 DEF vars, Accept, ExpireInvite, Continue, ExpireAsyncPlay, TimeLimit, Ready,
                  Forfeit, Tx
    <3> QED BY <2>1, <3>1
  <2>7. CASE \E d \in Call : \/ Answer(d) \/ DeadlockVictim(d) \/ PoolTooSmall(d) \/ Crash(d) \/ Reveal(d) \/ Verdict(d)
                           \/ WriteBattle(d) \/ WritePart(d) \/ (LockQuestion(d) /\ End(d))
    <3>1. \E d \in Call : End(d)
      BY <2>7 DEF Answer, DeadlockVictim, PoolTooSmall, Crash, Reveal, Verdict, WriteBattle, WritePart
    <3> QED BY <2>2, <3>1
  <2>8. CASE \E d \in Call : LockQuestion(d)
    BY <2>4, <2>7, <2>8
  <2> QED BY <2>3, <2>4, <2>5, <2>6, <2>7, <2>8 DEF Next, Step
<1> QED BY <1>3, <1>4, <1>5

LEMMA BattleStep == BattleInv /\ [Next]_vars => BattleInv'
  BY CallsStep, RowsStep, PhaseStep, PointsStep DEF BattleInv, Onward

(* The values of the rows, and who holds which lock (TypeOK): among others *)
(* nobody gets more points than questions are asked, the ones of the       *)
(* sudden death included, not even by a heartbeat that writes an old score.*)
THEOREM TypeCorrect == Spec => []TypeOK
<1>1. BattleInv => TypeOK
  BY DEF BattleInv, RowsInv, CallsInv, BattleRow, MaxRound, TypeOK
<1> QED BY <1>1, InitBattle, BattleStep, PTL DEF Spec

(* A revealed question has an answer of both (RevealedComplete).           *)
THEOREM RevealsAreComplete == Spec => []RevealedComplete
<1>1. BattleInv => RevealedComplete
  BY DEF BattleInv
<1> QED BY <1>1, InitBattle, BattleStep, PTL DEF Spec
-----------------------------------------------------------------------------
(***************************************************************************)
(* What the steps do to the money and the score.  Every settlement is of a *)
(* battle b whose score is the one of the row, or counts the answer of the *)
(* same step.                                                              *)
(***************************************************************************)
Counted(b) ==
  \/ b.score = battle.score /\ earned' = earned
  \/ /\ battle.status \in Playing
     /\ \E p \in Player, n \in {0, 1} :
          /\ b.score = [battle.score EXCEPT ![p] = part[p].score + n]
          /\ earned' = [earned EXCEPT ![p] = earned[p] + n]

Begun == Playing \cup {"ready"}

Accepted ==
  /\ battle.status = "invited" /\ battle'.status = "ready"
  /\ coins' = [p \in Player |-> coins[p] - Stake] /\ escrow' = Each("reserved")
  /\ battle'.score = battle.score
  /\ UNCHANGED <<keys, result, reason, earned>>

Unpaid ==
  /\ UNCHANGED money
  /\ \/ battle'.status \notin Open /\ earned' = earned
     \/ /\ Counted(battle')
        /\ battle'.status = battle.status \/ {battle.status, battle'.status} \subseteq Begun

Settled(b) ==
  /\ battle.status \in Begun /\ Counted(b)
  /\ \/ \E status \in {"refunded", "voided"} : \E why \in {"draw", "void"} : Refunded(status, why, b)
     \/ \E w \in Player : \E why \in {"forfeit", "score", "sudden_death", "tiebreakers"} :
          /\ SettleWinner(w, why, b)
          /\ why = "score" => b.score[w] > b.score[Other(w)]

Moves == Accepted \/ Unpaid \/ \E b \in BattleRow : Settled(b)

LEMMA RevealMoves ==
  ASSUME NEW b \in BattleRow, NEW q, Course(b), Advance(b, q), b.status = battle.status, Counted(b)
  PROVE  Moves
<1> USE DEF Playing, Begun
<1>1. CASE battle' = b /\ UNCHANGED money
  BY <1>1 DEF Moves, Unpaid
<1>2. CASE b.status \in Playing /\ OpenSuddenDeath(b)
  <2> DEFINE o == [b EXCEPT !.status = "sudden_death", !.sudden = @ + 1, !.round = @ + 1]
  <2>1. OpenQuestion(o)
    BY <1>2, Zenon DEF OpenSuddenDeath
  <2>2. o.status = "sudden_death" /\ o.score = b.score
    BY DEF BattleRow
  <2> HIDE DEF o
  <2>3. battle' = o /\ UNCHANGED money
    BY <2>1 DEF OpenQuestion
  <2>4. Counted(battle')
    BY <2>2, <2>3 DEF Counted
  <2> QED BY <1>2, <2>2, <2>3, <2>4 DEF Moves, Unpaid
<1>3. CASE b.status \in Playing /\ Refunded("refunded", "draw", b)
  BY <1>3 DEF Moves, Settled
<1>4. CASE \E w \in Player, why \in {"score", "sudden_death", "tiebreakers"} :
             /\ b.status \in Playing /\ SettleWinner(w, why, b)
             /\ why = "score" => b.score[w] > b.score[Other(w)]
  <2> PICK w \in Player, why \in {"score", "sudden_death", "tiebreakers"} :
             /\ b.status \in Playing /\ SettleWinner(w, why, b)
             /\ why = "score" => b.score[w] > b.score[Other(w)]
    BY <1>4
  <2>1. why \in {"forfeit", "score", "sudden_death", "tiebreakers"}
    OBVIOUS
  <2> QED BY <2>1 DEF Moves, Settled
<1>5. b.status = "in_progress" => b.round \in 1..Rounds
  BY DEF Course
<1>6. \/ battle' = b /\ question' = q /\ UNCHANGED <<expired, money>>
      \/ OpenSuddenDeath(b) /\ b.status = "in_progress" /\ b.round = Rounds
      \/ OpenSuddenDeath(b) /\ b.status = "sudden_death" /\ b.sudden < SuddenMax
      \/ /\ b.status \in Playing
         /\ question' = q /\ UNCHANGED expired
         /\ \/ Refunded("refunded", "draw", b)
            \/ \E w \in Player, why \in {"score", "sudden_death", "tiebreakers"} :
                 /\ SettleWinner(w, why, b)
                 /\ why = "score" => b.score[w] > b.score[Other(w)]
  BY <1>5, AdvanceCases
<1> QED BY <1>1, <1>2, <1>3, <1>4, <1>6

LEMMA EveryMove ==
  ASSUME BattleInv, [Next]_vars
  PROVE  Moves
<1> USE DEF BattleInv
<1>0. ASSUME UNCHANGED <<battle, money, earned>>
      PROVE  Moves
  BY <1>0 DEF Moves, Unpaid, Counted
<1>1. CASE UNCHANGED vars \/ TimeLimit
           \/ \E c \in Call : \/ LockQuestion(c) \/ Diff(c) \/ DeadlockVictim(c) \/ PoolTooSmall(c) \/ Crash(c)
                             \/ Overdue(c) \/ WritePart(c)
                             \/ \E p \in Player : Submit(c, p) \/ Decline(c, p) \/ Heartbeat(c, p)
                             \/ \E gone \in (SUBSET Player) \ {{}} : Suspect(c, gone)
  <2>1. UNCHANGED <<battle, money, earned>>
    BY <1>1 DEF vars, rows, quiz, TimeLimit, LockQuestion, Diff, DeadlockVictim, PoolTooSmall, Crash,
                Overdue, Submit, Decline, Heartbeat, Suspect, WritePart
  <2> QED BY <1>0, <2>1
<1>2. CASE Accept
  <2>1. CASE UNCHANGED <<battle, coins, escrow>>
    BY <1>0, <1>2, <2>1 DEF Accept, money, quiz
  <2>2. CASE /\ battle' = [battle EXCEPT !.status = "ready"]
             /\ coins' = [p \in Player |-> coins[p] - Stake]
             /\ escrow' = Each("reserved")
    BY <1>2, <2>2 DEF Accept, quiz, Moves, Accepted, RowsInv, BattleRow
  <2> QED BY <1>2, <2>1, <2>2 DEF Accept
<1>3. CASE ExpireInvite
  <2>1. battle' = [battle EXCEPT !.status = "expired"] /\ UNCHANGED <<money, earned>>
    BY <1>3 DEF ExpireInvite, quiz
  <2>2. battle'.status = "expired"
    BY <2>1 DEF RowsInv, BattleRow
  <2> QED BY <2>1, <2>2 DEF Moves, Unpaid, Open, Playing
<1>4. CASE \E c \in Call : WriteBattle(c)
  <2> PICK c \in Call : WriteBattle(c)
    BY <1>4
  <2>1. battle' = Patched(battle, view[c].battle, patch[c]) /\ UNCHANGED <<money, earned>>
    BY DEF WriteBattle, quiz
  <2>2. battle'.status \in Declined
    BY <2>1, PatchedBattle DEF WriteBattle, PhaseInv, PhaseOf, RowsInv, CallsInv, ViewRow
  <2> QED BY <2>1, <2>2 DEF Moves, Unpaid, Open, Playing, Declined
<1>5. ASSUME NEW o, OpenQuestion(o), o.status = "in_progress", o.score = battle.score,
             battle.status \in Begun, earned' = earned
      PROVE  Moves
  BY <1>5 DEF OpenQuestion, Moves, Unpaid, Counted, Begun, Playing
<1>6. CASE \E p \in Player : Ready(p)
  <2> DEFINE o == [battle EXCEPT !.status = "in_progress", !.round = 1]
  <2>1. /\ battle.status = "ready" /\ UNCHANGED earned
        /\ UNCHANGED <<battle, money>> \/ OpenQuestion(o)
    BY <1>6 DEF Ready
  <2>2. o.status = "in_progress" /\ o.score = battle.score
    BY DEF RowsInv, BattleRow
  <2> HIDE DEF o
  <2> QED BY <1>0, <1>5, <2>1, <2>2 DEF Begun
<1>7. CASE Continue
  <2> DEFINE o == [battle EXCEPT !.round = @ + 1]
  <2>1. /\ battle.status \in Playing /\ UNCHANGED earned
        /\ \/ battle.status = "in_progress" /\ OpenQuestion(o)
           \/ Advance(battle, question)
    BY <1>7, Zenon DEF Continue
  <2>2. o.status = battle.status /\ o.score = battle.score
    BY DEF RowsInv, BattleRow
  <2> HIDE DEF o
  <2> QED BY <1>5, <2>1, <2>2, RevealMoves DEF Begun, RowsInv, RoundInv, Counted
<1>8. CASE \E c \in Call : Reveal(c)
  BY <1>8, RevealMoves DEF Reveal, RowsInv, RoundInv, Counted
<1>9. CASE ExpireAsyncPlay
  BY <1>9 DEF ExpireAsyncPlay, quiz, Moves, Settled, Counted, RowsInv, Begun
<1>10. CASE \E p \in Player : Forfeit(p)
  BY <1>10, Others DEF Forfeit, quiz, Moves, Settled, Counted, RowsInv, Begun
<1>11. CASE \E c \in Call : Verdict(c)
  <2> PICK c \in Call : Verdict(c)
    BY <1>11
  <2>1. view[c].gone \subseteq Player /\ earned' = earned
    BY DEF Verdict, quiz, CallsInv, ViewRow
  <2>2. \/ UNCHANGED <<battle, money>>
        \/ battle.status \in Playing /\ Refunded("voided", "void", battle)
        \/ battle.status \in Playing /\ \E p \in Player : SettleWinner(Other(p), "forfeit", battle)
    BY <2>1 DEF Verdict
  <2> QED BY <1>0, <2>1, <2>2, Others DEF Moves, Settled, Counted, RowsInv, Begun
<1>12. CASE \E c \in Call : Answer(c)
  <2> PICK c \in Call : Answer(c)
    BY <1>12
  <2>1. CASE UNCHANGED rows
    BY <1>0, <2>1 DEF rows, quiz
  <2>2. CASE ~UNCHANGED rows
    <3>1. PICK p \in Player, n \in {0, 1}, a \in {"right", "wrong"} :
            LET q == [question EXCEPT !.answer[p] = a]
                b == [battle EXCEPT !.score[p] = part[p].score + n]
            IN /\ earned' = [earned EXCEPT ![p] = earned[p] + n]
               /\ \/ battle' = b /\ UNCHANGED money
                  \/ Advance(b, Revealed(q))
      BY <2>2, Answered
    <3> DEFINE b == [battle EXCEPT !.score[p] = part[p].score + n]
               q == [question EXCEPT !.answer[p] = a]
    <3>2. battle.status \in Playing
      BY Answered
    <3>3. /\ b \in BattleRow /\ Course(b) /\ b.status = battle.status
          /\ b.score = [battle.score EXCEPT ![p] = part[p].score + n]
      <4>1. part[p].score + n \in Nat
        BY BattleAssumption DEF RowsInv, ParticipantRow
      <4>2. b \in BattleRow /\ Course(b)
        BY <4>1, Judged DEF RoundInv, AnswerRow
      <4> QED BY <4>2 DEF RowsInv, BattleRow
    <3> HIDE DEF b, q
    <3>4. Counted(b)
      BY <3>1, <3>2, <3>3 DEF Counted
    <3>5. (battle' = b /\ UNCHANGED money) \/ Advance(b, Revealed(q))
      BY <3>1 DEF b, q
    <3>6. CASE battle' = b /\ UNCHANGED money
      BY <3>3, <3>4, <3>6 DEF Moves, Unpaid, Counted
    <3> QED BY <3>3, <3>4, <3>5, <3>6, RevealMoves
  <2> QED BY <2>1, <2>2
<1> QED BY <1>1, <1>2, <1>3, <1>4, <1>6, <1>7, <1>8, <1>9, <1>10, <1>11, <1>12 DEF Next, Step
-----------------------------------------------------------------------------
(***************************************************************************)
(* The money: a stake is nowhere, in escrow, in the pot that one has won,  *)
(* or back; it is in escrow from the acceptance to the end.  Decline may   *)
(* close the row at any of these stages, but moves nothing.                *)
(***************************************************************************)
Untouched ==
  escrow = Each("none") /\ keys = {} /\ coins = Each(0) /\ result = Each({})

Reserved ==
  escrow = Each("reserved") /\ keys = {} /\ coins = Each(-Stake) /\ result = Each({})

Won ==
  /\ escrow = Each("captured")
  /\ \E w \in Player : coins = [p \in Player |-> IF p = w THEN Stake ELSE -Stake]
  /\ result = [p \in Player |-> {coins[p]}]

Returned ==
  /\ escrow = Each("refunded") /\ coins = Each(0)
  /\ result \in {Each({}), Each({0})}

MoneyInv ==
  /\ Untouched \/ Reserved \/ Won \/ Returned
  /\ battle.status = "invited" => Untouched
  /\ battle.status \in Begun => Reserved

LEMMA WinnerTakesAll ==
  ASSUME NEW w \in Player, NEW why, NEW b, Reserved, SettleWinner(w, why, b)
  PROVE  Won'
<1>1. /\ escrow' = Each("captured")
      /\ result' = [p \in Player |-> {IF p = w THEN Stake ELSE -Stake}]
  BY DEF SettleWinner
<1>2. coins' = [coins EXCEPT ![w] = coins[w] + Pot]
  BY DEF SettleWinner, Reserved
<1>3. coins' = [p \in Player |-> IF p = w THEN Stake ELSE -Stake]
  BY <1>2, BattleAssumption DEF Reserved, Each, Pot
<1>4. result' = [p \in Player |-> {coins'[p]}]
  BY <1>1, <1>3
<1> QED BY <1>1, <1>3, <1>4 DEF Won

LEMMA AllComesBack ==
  ASSUME NEW status, NEW why, NEW b, Reserved, Refunded(status, why, b)
  PROVE  Returned'
<1>1. {p \in Player : escrow[p] = "reserved"} = Player
  BY DEF Reserved, Each
<1>2. coins' = [p \in Player |-> IF p \in Player /\ p \notin keys THEN coins[p] + Stake
                                                                 ELSE coins[p]]
  BY <1>1 DEF Refunded, RefundEscrows
<1>3. coins' = Each(0)
  BY <1>2, BattleAssumption DEF Reserved, Each
<1>4. escrow' = Each("refunded")
  BY <1>1 DEF Refunded, RefundEscrows, Each
<1>5. result' \in {Each({}), Each({0})}
  BY DEF Refunded, Reserved
<1> QED BY <1>3, <1>4, <1>5 DEF Returned

LEMMA InitMoney == Init => MoneyInv
  BY DEF Init, MoneyInv, Untouched, NewBattle, Begun, Playing

LEMMA MoneyStep ==
  ASSUME BattleInv, MoneyInv, [Next]_vars
  PROVE  MoneyInv'
<1>1. CASE Accepted
  <2>1. Reserved'
    <3>1. Untouched
      BY <1>1 DEF Accepted, MoneyInv
    <3> QED BY <1>1, <3>1, BattleAssumption DEF Accepted, Untouched, Reserved, Each
  <2> QED BY <1>1, <2>1 DEF Accepted, MoneyInv
<1>2. CASE Unpaid
  <2>1. /\ Untouched' = Untouched /\ Reserved' = Reserved
        /\ Won' = Won /\ Returned' = Returned
    BY <1>2 DEF Unpaid, money, Untouched, Reserved, Won, Returned
  <2>2. \/ battle'.status \notin Open \/ battle'.status = battle.status
        \/ {battle.status, battle'.status} \subseteq Begun
    BY <1>2 DEF Unpaid
  <2> QED BY <2>1, <2>2 DEF MoneyInv, Begun, Playing, Open
<1>3. CASE \E b \in BattleRow : Settled(b)
  <2> PICK b \in BattleRow : Settled(b)
    BY <1>3
  <2>1. Reserved
    BY DEF Settled, MoneyInv
  <2>2. CASE \E status \in {"refunded", "voided"} : \E why \in {"draw", "void"} : Refunded(status, why, b)
    <3>1. Returned' /\ battle'.status \in {"refunded", "voided"}
      BY <2>1, <2>2, AllComesBack DEF Refunded, BattleRow
    <3> QED BY <3>1 DEF MoneyInv, Begun, Playing
  <2>3. CASE \E w \in Player : \E why : SettleWinner(w, why, b)
    <3>1. Won' /\ battle'.status \in {"completed", "forfeited"}
      BY <2>1, <2>3, WinnerTakesAll DEF SettleWinner, BattleRow
    <3> QED BY <3>1 DEF MoneyInv, Begun, Playing
  <2> QED BY <2>2, <2>3 DEF Settled
<1> QED BY <1>1, <1>2, <1>3, EveryMove DEF Moves

LEMMA MoneyAlways == Spec => [](BattleInv /\ MoneyInv)
<1>1. Init => BattleInv /\ MoneyInv
  BY InitBattle, InitMoney
<1>2. BattleInv /\ MoneyInv /\ [Next]_vars => (BattleInv /\ MoneyInv)'
  BY BattleStep, MoneyStep
<1> QED BY <1>1, <1>2, PTL DEF Spec

(* Coins are neither made nor lost (CoinsConserved): what the two players  *)
(* have given is in escrow, whoever forfeits, times out, declines or       *)
(* crashes meanwhile.                                                      *)
THEOREM CoinsAreConserved == Spec => []CoinsConserved
<1>1. MoneyInv => CoinsConserved
  <2> SUFFICES ASSUME MoneyInv PROVE CoinsConserved
    OBVIOUS
  <2> DEFINE due == {p \in Player : escrow[p] = "reserved"}
  <2>1. CASE Reserved
    <3>1. due = {Challenger, Opponent}
      BY <2>1 DEF Reserved, Each, Player
    <3>2. IsFiniteSet({Challenger}) /\ Cardinality({Challenger}) = 1
      BY FS_Singleton
    <3>3. Cardinality({Challenger} \cup {Opponent}) = 2
      BY <3>2, FS_AddElement, BattleAssumption
    <3>4. Cardinality(due) = 2
      <4>1. due = {Challenger} \cup {Opponent}
        BY <3>1
      <4> QED BY <3>3, <4>1
    <3>5. coins[Challenger] = -Stake /\ coins[Opponent] = -Stake
      BY <2>1 DEF Reserved, Each, Player
    <3> HIDE DEF due
    <3>6. coins[Challenger] + coins[Opponent] = -(Stake * Cardinality(due))
      BY <3>4, <3>5, BattleAssumption
    <3> QED BY <3>6 DEF CoinsConserved, due
  <2>2. CASE Untouched \/ Won \/ Returned
    <3>1. due = {}
      BY <2>2 DEF Untouched, Won, Returned, Each
    <3>2. Cardinality(due) = 0
      BY <3>1, FS_EmptySet
    <3>3. coins[Challenger] + coins[Opponent] = 0
      BY <2>2, BattleAssumption DEF Untouched, Won, Returned, Each, Player
    <3> HIDE DEF due
    <3>4. coins[Challenger] + coins[Opponent] = -(Stake * Cardinality(due))
      BY <3>2, <3>3, BattleAssumption
    <3> QED BY <3>4 DEF CoinsConserved, due
  <2> QED BY <2>1, <2>2 DEF MoneyInv
<1> QED BY <1>1, MoneyAlways, PTL

(* The result rows say what the battle has cost or brought each player     *)
(* (NetMatchesResult): no second settlement pays what the first recorded.  *)
THEOREM NetIsTheResult == Spec => []NetMatchesResult
<1>1. MoneyInv => NetMatchesResult
  BY DEF MoneyInv, Untouched, Reserved, Won, Returned, Each, NetMatchesResult
<1> QED BY <1>1, MoneyAlways, PTL
-----------------------------------------------------------------------------
(***************************************************************************)
(* The score, when no heartbeat is called: both columns that hold it, the  *)
(* participant's and the battle's, are the points of the answers, and a    *)
(* battle that goes on has no result.                                      *)
(***************************************************************************)
ScoreInv ==
  "beat" \notin ops =>
    /\ \A p \in Player : part[p].score = earned[p]
    /\ \A c \in Call : pc[c] \notin {"diffPart", "writePart"}
    /\ battle.status \in Open => battle.score = earned /\ reason # "score"
    /\ reason = "score" => \E w \in Player : Stake \in result[w] /\ earned[w] > earned[Other(w)]

LEMMA InitScore == Init => ScoreInv
  BY DEF Init, ScoreInv, NewPart, NewBattle, Each

LEMMA NobodyWritesBack ==
  ASSUME BattleInv, ScoreInv, "beat" \notin ops, [Next]_vars
  PROVE  /\ \A p \in Player : part'[p].score = earned'[p]
         /\ \A c \in Call : pc'[c] \notin {"diffPart", "writePart"}
<1> USE DEF BattleInv
<1> USE DEF BattleInv, ScoreInv
<1>1. CASE UNCHANGED vars
  BY <1>1 DEF vars, rows, quiz
<1>2. CASE Accept \/ ExpireInvite \/ Continue \/ ExpireAsyncPlay \/ TimeLimit
           \/ (\E p \in Player : Forfeit(p))
  <2>1. UNCHANGED <<part, earned, pc>>
    BY <1>2 DEF Accept, ExpireInvite, Continue, ExpireAsyncPlay, TimeLimit, Forfeit, Tx, quiz
  <2> QED BY <2>1
<1>3. CASE \E p \in Player : Ready(p)
  <2>1. PICK p \in Player : part' = [part EXCEPT ![p].ready = TRUE] /\ UNCHANGED <<earned, pc>>
    BY <1>3 DEF Ready, Tx
  <2>2. \A r \in Player : part'[r].score = part[r].score
    BY <2>1 DEF RowsInv, ParticipantRow
  <2> QED BY <2>1, <2>2
<1>4. CASE \E c \in Call : Reveal(c) \/ Verdict(c) \/ WriteBattle(c) \/ DeadlockVictim(c) \/ PoolTooSmall(c) \/ Crash(c)
  <2>1. UNCHANGED <<part, earned>> /\ \E c \in Call : pc' = [pc EXCEPT ![c] = "idle"]
    BY <1>4 DEF Reveal, Verdict, WriteBattle, DeadlockVictim, PoolTooSmall, Crash, End, Goto, rows, quiz
  <2> QED BY <2>1 DEF CallsInv
<1>5. CASE \E c \in Call : Answer(c)
  <2> PICK c \in Call : Answer(c)
    BY <1>5
  <2>1. \A d \in Call : pc'[d] \notin {"diffPart", "writePart"}
    BY Answered DEF End, Goto, CallsInv
  <2>2. CASE UNCHANGED rows
    BY <2>1, <2>2 DEF rows, quiz
  <2>3. CASE ~UNCHANGED rows
    <3>1. PICK p \in Player, n \in {0, 1} : /\ part' = [part EXCEPT ![p].score = part[p].score + n]
                                          /\ earned' = [earned EXCEPT ![p] = earned[p] + n]
      BY <2>3, Answered
    <3>2. \A r \in Player : part'[r].score = IF r = p THEN part[r].score + n ELSE part[r].score
      BY <3>1 DEF RowsInv, ParticipantRow
    <3> QED BY <2>1, <3>1, <3>2 DEF RowsInv
  <2> QED BY <2>2, <2>3
<1>6. CASE \E c \in Call : LockQuestion(c) \/ Overdue(c) \/ Diff(c)
  <2> PICK c \in Call : LockQuestion(c) \/ Overdue(c) \/ Diff(c)
    BY <1>6
  <2>1. UNCHANGED <<part, earned>>
    BY DEF LockQuestion, Overdue, Diff, rows, quiz
  <2>2. \E l \in {"idle", "reveal", "overdue", "writeBattle"} : pc' = [pc EXCEPT ![c] = l]
    BY DEF LockQuestion, Overdue, Diff, End, Goto
  <2> QED BY <2>1, <2>2 DEF CallsInv
<1>7. CASE \E c \in Call, p \in Player : Submit(c, p) \/ Decline(c, p)
  <2>1. /\ UNCHANGED <<part, earned>>
        /\ \E c \in Call : \E l \in {"answer", "diffBattle"} : pc' = [pc EXCEPT ![c] = l]
    BY <1>7 DEF Submit, Decline, Goto, rows, quiz
  <2> QED BY <2>1 DEF CallsInv
<1>8. CASE \E c \in Call, gone \in (SUBSET Player) \ {{}} : Suspect(c, gone)
  <2>1. UNCHANGED <<part, earned>> /\ \E c \in Call : pc' = [pc EXCEPT ![c] = "verdict"]
    BY <1>8 DEF Suspect, Goto, rows, quiz
  <2> QED BY <2>1 DEF CallsInv
<1>9. CASE \/ \E c \in Call : WritePart(c)
           \/ \E c \in Call, p \in Player : Heartbeat(c, p)
  BY <1>9 DEF WritePart, Heartbeat
<1> QED BY <1>1, <1>2, <1>3, <1>4, <1>5, <1>6, <1>7, <1>8, <1>9 DEF Next, Step

LEMMA ScoreStep ==
  ASSUME BattleInv, ScoreInv, [Next]_vars
  PROVE  ScoreInv'
<1>1. ops' = ops
  BY DEF Next, vars
<1>2. SUFFICES ASSUME "beat" \notin ops
               PROVE  /\ battle'.status \in Open => battle'.score = earned' /\ reason' # "score"
                      /\ reason' = "score" => \E w \in Player : Stake \in result'[w] /\ earned'[w] > earned'[Other(w)]
  BY <1>1, NobodyWritesBack DEF ScoreInv
<1>3. /\ battle.status \in Open => battle.score = earned /\ reason # "score"
      /\ \A p \in Player : part[p].score = earned[p]
      /\ reason = "score" => \E w \in Player : Stake \in result[w] /\ earned[w] > earned[Other(w)]
  BY <1>2 DEF ScoreInv
<1>4. \A b : battle.status \in Open /\ Counted(b) => b.score = earned'
  BY <1>3 DEF Counted
<1>5. \A b : battle.status \notin Open /\ Counted(b) => earned' = earned
  BY DEF Counted, Open
<1>6. CASE Accepted
  BY <1>3, <1>6 DEF Accepted, Open
<1>7. CASE Unpaid
  <2>1. reason' = reason /\ result' = result
    BY <1>7 DEF Unpaid, money
  <2>2. CASE battle'.status \notin Open /\ earned' = earned
    BY <1>3, <2>1, <2>2
  <2>3. CASE /\ Counted(battle')
             /\ battle'.status = battle.status \/ {battle.status, battle'.status} \subseteq Begun
    <3>1. battle'.status \in Open <=> battle.status \in Open
      BY <2>3 DEF Open, Begun, Playing
    <3> QED BY <1>3, <1>4, <1>5, <2>1, <2>3, <3>1
  <2> QED BY <1>7, <2>2, <2>3 DEF Unpaid
<1>8. CASE \E b \in BattleRow : Settled(b)
  <2> PICK b \in BattleRow : Settled(b)
    BY <1>8
  <2>1. b.score = earned'
    BY <1>4 DEF Settled, Begun, Open
  <2>2. CASE \E status \in {"refunded", "voided"} : \E why \in {"draw", "void"} : Refunded(status, why, b)
    BY <2>2 DEF Refunded, BattleRow, Open, Playing
  <2>3. CASE \E w \in Player, why \in {"forfeit", "score", "sudden_death", "tiebreakers"} : SettleWinner(w, why, b) /\ (why = "score" => b.score[w] > b.score[Other(w)])
    <3> PICK w \in Player, why \in {"forfeit", "score", "sudden_death", "tiebreakers"} : SettleWinner(w, why, b) /\ (why = "score" => b.score[w] > b.score[Other(w)])
      BY <2>3
    <3>1. battle'.status \notin Open /\ reason' = why /\ Stake \in result'[w]
      BY DEF SettleWinner, BattleRow, Open, Playing
    <3> QED BY <2>1, <3>1
  <2> QED BY <2>2, <2>3 DEF Settled
<1> QED BY <1>6, <1>7, <1>8, EveryMove DEF Moves

(* Who wins by score has earned more points, as long as no heartbeat is    *)
(* called (BestPlayerWins).                                                *)
THEOREM TheBestPlayerWins == Spec => []BestPlayerWins
<1>1. ScoreInv => BestPlayerWins
  BY DEF ScoreInv, BestPlayerWins
<1>2. Init => BattleInv /\ ScoreInv
  BY InitBattle, InitScore
<1>3. BattleInv /\ ScoreInv /\ [Next]_vars => (BattleInv /\ ScoreInv)'
  BY BattleStep, ScoreStep
<1> QED BY <1>1, <1>2, <1>3, PTL DEF Spec
=============================================================================
