-------------------------------- MODULE Battle --------------------------------
(***************************************************************************)
(* One battle between two players for a stake (battles.service.ts), from   *)
(* the invitation to the settlement, live or asynchronous.                 *)
(*                                                                         *)
(* A transaction that locks the battle's row first, and waits for nothing  *)
(* else, is one step here.  The rest are calls of several steps: an answer *)
(* locks the battle and then the question, a timeout the question and then *)
(* the battle; the disconnect rules judge by rows read before they lock;   *)
(* decline and heartbeat read, change and save an object without a lock,   *)
(* and TypeORM writes the columns in which it then differs from the row.   *)
(*                                                                         *)
(* The ledger is its keys and what they moved.  An answer is worth a point *)
(* if it is right; the last tie-breakers, which compare difficulty,        *)
(* accuracy and time, are a choice.  Participation rewards have keys of    *)
(* their own and are left to RewardLedger.                                 *)
(***************************************************************************)
EXTENDS Integers, FiniteSets

CONSTANTS
  Challenger, Opponent,
  Call,       \* calls of several steps in flight
  NoCall,
  Stake,      \* stakePerPlayer
  Rounds,     \* questionCount
  SuddenMax,  \* BATTLE_SUDDEN_DEATH_MAX
  Mixes       \* sets of operations and circumstances, see Ops: one is the case

Player == {Challenger, Opponent}
Ops == {"decline", "beat", "again", "disconnect", "crash",
        "dry",      \* the question pool may be too small for sudden death
        "unseen",   \* nobody polls the battle
        "crowd"}    \* 30 and more asynchronous battles run beside it

ASSUME BattleAssumption ==
  /\ Challenger # Opponent /\ "pot" \notin Player /\ NoCall \notin Call
  /\ Stake \in Nat \ {0} /\ Rounds \in Nat \ {0} /\ SuddenMax \in Nat \ {0}
  /\ Mixes \subseteq SUBSET Ops

VARIABLES
  mode,      \* live or async
  battle,    \* battles: status, currentRound, suddenDeathCount, both scores
  part,      \* battle_participants: isReady, score
  escrow,    \* battle_coin_escrows: status of each player's
  keys,      \* ledger keys credited: the pot's, and each refund's
  coins,     \* change of each player's coins since the invitation
  result,    \* battle_results: each player's coinsDelta, {} without a row
  reason,    \* resultReason
  question,  \* the current question: openedAt, revealedAt, answers
  expired,   \* its time limit has passed
  earned,    \* history: the points of each player's answers
  poolFailed, \* history: accept found too few questions
  battleHolder, questionHolder,  \* holders of the two locks
  pc, view, patch,               \* each call's program counter and locals
  ops        \* what is called and what is the case, once and for all

money  == <<escrow, keys, coins, result, reason>>
quiz   == <<question, expired, earned>>
rows   == <<mode, battle, part, money, quiz, poolFailed>>
locks  == <<battleHolder, questionHolder>>
vars   == <<rows, locks, pc, view, patch, ops>>

Other(p) == IF p = Challenger THEN Opponent ELSE Challenger
Each(v)  == [p \in Player |-> v]
Unasked  == [open |-> FALSE, revealed |-> FALSE, answer |-> Each("none")]

NewBattle == [status |-> "invited", round |-> 0, sudden |-> 0, score |-> Each(0)]
NewPart   == [ready |-> FALSE, score |-> 0]
NoView    == [player |-> Challenger, round |-> 0, gone |-> {}, battle |-> NewBattle,
              part |-> NewPart]

Init ==
  /\ mode \in {"live", "async"}
  /\ battle = NewBattle
  /\ part = Each(NewPart)
  /\ escrow = Each("none") /\ keys = {} /\ coins = Each(0)
  /\ result = Each({}) /\ reason = "none"
  /\ question = Unasked /\ expired = FALSE /\ earned = Each(0)
  /\ poolFailed = FALSE
  /\ battleHolder = NoCall /\ questionHolder = NoCall
  /\ pc = [c \in Call |-> "idle"]
  /\ view = [c \in Call |-> NoView]
  /\ patch = [c \in Call |-> {}]
  /\ ops \in Mixes
-----------------------------------------------------------------------------
Playing == {"in_progress", "sudden_death"}
Goto(c, label) == pc' = [pc EXCEPT ![c] = label]
Differs(object, r) == {f \in DOMAIN r : object[f] # r[f]}
Patched(r, object, fields) == [f \in DOMAIN r |-> IF f \in fields THEN object[f] ELSE r[f]]

(* The call or its transaction ends.                                       *)
End(c) ==
  /\ Goto(c, "idle")
  /\ view' = [view EXCEPT ![c] = NoView]
  /\ patch' = [patch EXCEPT ![c] = {}]
  /\ battleHolder' = IF battleHolder = c THEN NoCall ELSE battleHolder
  /\ questionHolder' = IF questionHolder = c THEN NoCall ELSE questionHolder

Crash(c) ==
  /\ "crash" \in ops /\ pc[c] # "idle"
  /\ End(c)
  /\ UNCHANGED rows

(* PostgreSQL ends an answer or a timeout that wait for each other, and a  *)
(* timeout whose participants the winner's settlement waits for.           *)
DeadlockVictim(c) ==
  /\ \/ NoCall \notin {battleHolder, questionHolder}
        /\ c \in {battleHolder, questionHolder}
     \/ c = questionHolder /\ battle.status \notin Playing
  /\ End(c)
  /\ UNCHANGED rows

(* A transaction of one step: it gets the battle's lock.                   *)
Tx == battleHolder = NoCall /\ UNCHANGED <<locks, pc, view, patch, mode>>
-----------------------------------------------------------------------------
StakeOnly == Stake                   \* variant: the winner gets one stake

Pot == 2 * Stake

(* settleWinner: the pot, the escrows, the result rows.                    *)
SettleWinner(w, why, b) ==
  /\ coins' = [coins EXCEPT ![w] = IF "pot" \in keys THEN @ ELSE @ + Pot]
  /\ keys' = keys \cup {"pot"}
  /\ escrow' = Each("captured")
  /\ battle' = [b EXCEPT !.status = IF why = "forfeit" THEN "forfeited" ELSE "completed"]
  /\ reason' = why
  /\ result' = [p \in Player |-> {IF p = w THEN Stake ELSE -Stake}]

RefundEscrows ==
  LET due == {p \in Player : escrow[p] = "reserved"}
  IN /\ coins' = [p \in Player |-> IF p \in due /\ p \notin keys THEN coins[p] + Stake
                                                                  ELSE coins[p]]
     /\ keys' = keys \cup due
     /\ escrow' = [p \in Player |-> IF p \in due THEN "refunded" ELSE escrow[p]]

(* settleDraw, and the refunds that leave no result rows.                  *)
Refunded(status, why, b) ==
  /\ RefundEscrows
  /\ battle' = [b EXCEPT !.status = status]
  /\ reason' = why
  /\ result' = IF why = "draw" THEN Each({0}) ELSE result

ApplyTiebreakers(b) ==
  \/ \E w \in Player : SettleWinner(w, "tiebreakers", b)
  \/ Refunded("refunded", "draw", b)

OpenQuestion(b) ==
  /\ battle' = b
  /\ question' = [Unasked EXCEPT !.open = TRUE]
  /\ expired' = FALSE
  /\ UNCHANGED money

(* The pool has five questions and more, of which one is taken, or the     *)
(* transaction fails (PoolTooSmall): it never answers with none.           *)
OpenSuddenDeath(b) ==
  OpenQuestion([b EXCEPT !.status = "sudden_death", !.sudden = @ + 1, !.round = @ + 1])

SuddenOver(b) == b.sudden > SuddenMax   \* variant: one question too many

SuddenSpent(b) == b.sudden >= SuddenMax

(* advanceAfterReveal, for the question q revealed in the battle b.        *)
Advance(b, q) ==
  LET decided == q.answer[Challenger] # q.answer[Opponent]
                 /\ "right" \in {q.answer[Challenger], q.answer[Opponent]}
      settled == question' = q /\ UNCHANGED expired
  IN CASE b.status = "in_progress" /\ b.round < Rounds ->
            settled /\ battle' = b /\ UNCHANGED money
       [] b.status = "in_progress" /\ b.round = Rounds ->
            IF b.score[Challenger] = b.score[Opponent] THEN OpenSuddenDeath(b)
            ELSE /\ settled
                 /\ \E w \in Player : /\ b.score[w] > b.score[Other(w)]
                                      /\ SettleWinner(w, "score", b)
       [] b.status = "sudden_death" /\ decided ->
            /\ settled
            /\ \E w \in Player : q.answer[w] = "right" /\ SettleWinner(w, "sudden_death", b)
       [] b.status = "sudden_death" /\ ~decided ->
            IF SuddenSpent(b) THEN settled /\ ApplyTiebreakers(b) ELSE OpenSuddenDeath(b)
       [] b.status \notin Playing -> settled /\ battle' = b /\ UNCHANGED money

NotFilled(q) == [q EXCEPT !.revealed = TRUE]  \* variant: missing answers stay missing

(* Missing answers are timed out when a question is revealed.              *)
Revealed(q) ==
  [q EXCEPT !.revealed = TRUE,
            !.answer = [p \in Player |-> IF @[p] = "none" THEN "wrong" ELSE @[p]]]
-----------------------------------------------------------------------------
(* What an answer of p makes of the question and of the battle.            *)
Given(p, right) == [question EXCEPT !.answer[p] = IF right THEN "right" ELSE "wrong"]
Points(right) == IF right THEN 1 ELSE 0
Scored(p, right) == [battle EXCEPT !.score[p] = part[p].score + Points(right)]

(* openSuddenDeathQuestion throws: the answer or the timeout that would    *)
(* have revealed the question is rolled back, whenever it is repeated.     *)
PoolTooSmall(c) ==
  /\ "dry" \in ops
  /\ LET p == view[c].player
         Tied(b, q) ==
           IF b.status = "in_progress"
           THEN b.round = Rounds /\ b.score[Challenger] = b.score[Opponent]
           ELSE /\ b.status = "sudden_death" /\ ~SuddenSpent(b)
                /\ q.answer[Challenger] = q.answer[Opponent]
     IN \/ /\ pc[c] = "reveal" /\ battleHolder = NoCall
           /\ Tied(battle, Revealed(question))
        \/ /\ pc[c] = "answer" /\ questionHolder = NoCall
           /\ ~question.revealed /\ question.answer[p] = "none"
           /\ question.answer[Other(p)] # "none" \/ (expired /\ mode = "live")
           /\ \E right \in IF expired THEN {FALSE} ELSE BOOLEAN :
                Tied(Scored(p, right), Revealed(Given(p, right)))
  /\ End(c)
  /\ UNCHANGED rows

(* accept: both debits, both escrows and the questions, or nothing: when   *)
(* the pool fails, the exception rolls the refund and the void back too.   *)
Accept ==
  /\ Tx /\ battle.status = "invited"
  /\ \/ /\ battle' = [battle EXCEPT !.status = "ready"]
        /\ coins' = [p \in Player |-> coins[p] - Stake]
        /\ escrow' = Each("reserved")
        /\ UNCHANGED poolFailed
     \/ poolFailed' = TRUE /\ UNCHANGED <<battle, coins, escrow>>
  /\ UNCHANGED <<part, keys, result, reason, quiz>>

ExpireInvite ==
  /\ Tx /\ battle.status = "invited"
  /\ battle' = [battle EXCEPT !.status = "expired"]
  /\ UNCHANGED <<part, money, quiz, poolFailed>>

Ready(p) ==
  /\ Tx /\ battle.status = "ready"
  /\ part' = [part EXCEPT ![p].ready = TRUE]
  /\ IF part[Other(p)].ready
     THEN OpenQuestion([battle EXCEPT !.status = "in_progress", !.round = 1])
     ELSE UNCHANGED <<battle, question, expired, money>>
  /\ UNCHANGED <<earned, poolFailed>>

(* continuePlay, and maybeAutoContinueAfterReveal of every poll.           *)
Continue ==
  /\ Tx /\ battle.status \in Playing /\ question.revealed
  /\ IF battle.status = "in_progress" /\ battle.round < Rounds
     THEN OpenQuestion([battle EXCEPT !.round = @ + 1])
     ELSE Advance(battle, question)
  /\ UNCHANGED <<part, earned, poolFailed>>

Forfeit(p) ==
  /\ Tx /\ battle.status \in Playing \cup {"ready"}
  /\ SettleWinner(Other(p), "forfeit", battle)
  /\ UNCHANGED <<part, quiz, poolFailed>>

ExpireAsyncStarted ==                \* variant: a battle never begun is forgotten
  /\ Tx /\ mode = "async" /\ battle.status \in Playing
  /\ Refunded("refunded", "void", battle)
  /\ UNCHANGED <<part, quiz, poolFailed>>

ExpireAsyncPlay ==
  /\ Tx /\ mode = "async" /\ battle.status \in Playing \cup {"ready"}
  /\ Refunded("refunded", "void", battle)
  /\ UNCHANGED <<part, quiz, poolFailed>>

TimeLimit ==
  /\ question.open /\ ~question.revealed /\ ~expired
  /\ expired' = TRUE
  /\ UNCHANGED <<mode, battle, part, money, question, earned, poolFailed, locks, pc,
                 view, patch>>
-----------------------------------------------------------------------------
(* submitAnswer up to the question's lock.  A repeated key is answered     *)
(* before that lock and changes nothing; "again" is another key.           *)
Submit(c, p) ==
  /\ pc[c] = "idle" /\ battleHolder = NoCall
  /\ battle.status \in Playing
  /\ question.answer[p] = "none" \/ "again" \in ops
  /\ battleHolder' = c
  /\ view' = [view EXCEPT ![c].player = p]
  /\ Goto(c, "answer")
  /\ UNCHANGED <<rows, questionHolder, patch>>

AnswerTwice(c) ==                    \* variant: a prior answer is not looked for
  /\ pc[c] = "answer" /\ questionHolder = NoCall
  /\ LET p == view[c].player IN
     \E right \in BOOLEAN :
       IF question.revealed THEN UNCHANGED rows
       ELSE LET q == Given(p, right)
                b == Scored(p, right)
            IN /\ part' = [part EXCEPT ![p].score = @ + Points(right)]
               /\ earned' = IF question.answer[p] = "none"
                            THEN [earned EXCEPT ![p] = @ + Points(right)] ELSE earned
               /\ IF q.answer[Other(p)] # "none" \/ (expired /\ mode = "live")
                  THEN Advance(b, Revealed(q))
                  ELSE battle' = b /\ question' = q /\ UNCHANGED <<expired, money>>
               /\ UNCHANGED <<mode, poolFailed>>
  /\ End(c)

(* The rest: an answer too late is wrong; the second answer, or in a live  *)
(* battle any answer after the limit, reveals the question.                *)
Answer(c) ==
  /\ pc[c] = "answer" /\ questionHolder = NoCall
  /\ LET p == view[c].player IN
     IF question.revealed \/ question.answer[p] # "none" THEN UNCHANGED rows
     ELSE \E right \in IF expired THEN {FALSE} ELSE BOOLEAN :
            LET q == Given(p, right)
                b == Scored(p, right)
            IN /\ part' = [part EXCEPT ![p].score = @ + Points(right)]
               /\ earned' = [earned EXCEPT ![p] = @ + Points(right)]
               /\ IF q.answer[Other(p)] # "none" \/ (expired /\ mode = "live")
                  THEN Advance(b, Revealed(q))
                  ELSE battle' = b /\ question' = q /\ UNCHANGED <<expired, money>>
               /\ UNCHANGED <<mode, poolFailed>>
  /\ End(c)

(* maybeTimeoutCurrentQuestion of every poll: the unlocked look ...        *)
Overdue(c) ==
  /\ pc[c] = "idle"
  /\ battle.status \in Playing /\ question.open /\ ~question.revealed /\ expired
  /\ view' = [view EXCEPT ![c].round = battle.round]
  /\ Goto(c, "overdue")
  /\ UNCHANGED <<rows, locks, patch>>

(* ... the question's lock ...                                             *)
LockQuestion(c) ==
  /\ pc[c] = "overdue" /\ questionHolder = NoCall
  /\ UNCHANGED rows
  /\ IF view[c].round # battle.round \/ question.revealed THEN End(c)
     ELSE /\ questionHolder' = c
          /\ Goto(c, "reveal")
          /\ UNCHANGED <<battleHolder, view, patch>>

(* ... and the battle's, under which the status is not looked at again.    *)
Reveal(c) ==
  /\ pc[c] = "reveal" /\ battleHolder = NoCall
  /\ Advance(battle, Revealed(question))
  /\ End(c)
  /\ UNCHANGED <<mode, part, earned, poolFailed>>

(* enforceDisconnectRules: who seems to be gone, then the verdict.         *)
Suspect(c, gone) ==
  /\ pc[c] = "idle" /\ "disconnect" \in ops
  /\ mode = "live" /\ battle.status \in Playing
  /\ view' = [view EXCEPT ![c].gone = gone]
  /\ Goto(c, "verdict")
  /\ UNCHANGED <<rows, locks, patch>>

VerdictUnchecked(c) ==               \* variant: the status is not checked again
  /\ pc[c] = "verdict" /\ battleHolder = NoCall
  /\ IF view[c].gone = Player THEN Refunded("voided", "void", battle)
     ELSE \E p \in view[c].gone : SettleWinner(Other(p), "forfeit", battle)
  /\ End(c)
  /\ UNCHANGED <<mode, part, quiz, poolFailed>>

Verdict(c) ==
  /\ pc[c] = "verdict" /\ battleHolder = NoCall
  /\ CASE battle.status \notin Playing -> UNCHANGED <<battle, money>>
       [] battle.status \in Playing /\ view[c].gone = Player ->
            Refunded("voided", "void", battle)
       [] OTHER -> \E p \in view[c].gone : SettleWinner(Other(p), "forfeit", battle)
  /\ End(c)
  /\ UNCHANGED <<mode, part, quiz, poolFailed>>
-----------------------------------------------------------------------------
(* decline and cancel: read, change, save.                                 *)
Decline(c, p) ==
  /\ pc[c] = "idle" /\ "decline" \in ops
  /\ battle.status = "invited"
  /\ view' = [view EXCEPT ![c] =
       [@ EXCEPT !.battle = [battle EXCEPT !.status =
                               IF p = Challenger THEN "cancelled" ELSE "declined"]]]
  /\ Goto(c, "diffBattle")
  /\ UNCHANGED <<rows, locks, patch>>

(* heartbeat, and the warnings of the disconnect rules: they change only   *)
(* the connection's columns, which are not modelled.  Bound: one at a time,*)
(* in a live battle, up to the first question.                             *)
Heartbeat(c, p) ==
  /\ pc[c] = "idle" /\ "beat" \in ops
  /\ mode = "live" /\ battle.status \in {"ready", "in_progress"} /\ battle.round <= 1
  /\ \A d \in Call : pc[d] \notin {"diffPart", "writePart"}
  /\ view' = [view EXCEPT ![c] = [@ EXCEPT !.player = p, !.part = part[p]]]
  /\ Goto(c, "diffPart")
  /\ UNCHANGED <<rows, locks, patch>>

Diff(c) ==
  /\ pc[c] \in {"diffBattle", "diffPart"}
  /\ patch' = [patch EXCEPT ![c] =
       IF pc[c] = "diffBattle" THEN Differs(view[c].battle, battle)
                               ELSE Differs(view[c].part, part[view[c].player])]
  /\ Goto(c, IF pc[c] = "diffBattle" THEN "writeBattle" ELSE "writePart")
  /\ UNCHANGED <<rows, locks, view>>

WriteBattle(c) ==
  /\ pc[c] = "writeBattle" /\ battleHolder = NoCall
  /\ battle' = Patched(battle, view[c].battle, patch[c])
  /\ End(c)
  /\ UNCHANGED <<mode, part, money, quiz, poolFailed>>

WritePart(c) ==
  /\ pc[c] = "writePart"
  /\ part' = [part EXCEPT ![view[c].player] = Patched(@, view[c].part, patch[c])]
  /\ End(c)
  /\ UNCHANGED <<mode, battle, money, quiz, poolFailed>>
-----------------------------------------------------------------------------
Step(c) ==
  \/ Answer(c) \/ LockQuestion(c) \/ Reveal(c) \/ Verdict(c)
  \/ Diff(c) \/ WriteBattle(c) \/ WritePart(c) \/ DeadlockVictim(c) \/ PoolTooSmall(c)

Next ==
  /\ UNCHANGED ops
  /\ \/ Accept \/ ExpireInvite \/ Continue \/ ExpireAsyncPlay \/ TimeLimit
     \/ \E p \in Player : Ready(p) \/ Forfeit(p)
     \/ \E c \in Call :
          \/ \E p \in Player : Submit(c, p) \/ Decline(c, p) \/ Heartbeat(c, p)
          \/ Overdue(c)
          \/ \E gone \in (SUBSET Player) \ {{}} : Suspect(c, gone)
          \/ Step(c) \/ Crash(c)

Spec == Init /\ [][Next]_vars

(* Calls in flight go on and time passes.  A live battle moves only when a *)
(* client asks for it (the poll times the question out, and continues      *)
(* after a reveal): unless it is "unseen" one asks again and again, which  *)
(* the server does not see to.  The maintenance job ends an overdue        *)
(* asynchronous battle, unless there is a "crowd": it looks at 30 of them, *)
(* in no order, before it drops those that are not overdue.  Nobody is     *)
(* obliged to answer, to forfeit or to be suspected.                       *)
Polled == UNCHANGED ops /\ "unseen" \notin ops
FairSpec ==
  /\ Spec
  /\ \A c \in Call : SF_vars(Step(c) /\ UNCHANGED ops) /\ SF_vars(Overdue(c) /\ Polled)
  /\ WF_vars(TimeLimit /\ UNCHANGED ops)
  /\ SF_vars(Continue /\ Polled)
  /\ SF_vars(ExpireAsyncPlay /\ UNCHANGED ops /\ "crowd" \notin ops)
-----------------------------------------------------------------------------
Status == {"invited", "ready", "in_progress", "sudden_death", "completed", "declined",
           "expired", "cancelled", "forfeited", "voided", "refunded"}

(* Rows of the tables.                                                     *)
ParticipantRow == [ready : BOOLEAN, score : 0..(Rounds + SuddenMax)]
EscrowRow == {"none", "reserved", "captured", "refunded"}
AnswerRow == {"none", "right", "wrong"}
QuestionRow == [open : BOOLEAN, revealed : BOOLEAN, answer : [Player -> AnswerRow]]

(* The values of the rows, and who holds which lock.                       *)
TypeOK ==
  /\ battle.status \in Status /\ battle.round \in 0..(Rounds + SuddenMax)
  /\ \A p \in Player :
       /\ escrow[p] \in EscrowRow
       /\ part[p] \in ParticipantRow
  /\ question \in QuestionRow
  /\ keys \subseteq Player \cup {"pot"}
  /\ \A c \in Call : /\ pc[c] = "answer" <=> battleHolder = c
                     /\ pc[c] = "reveal" <=> questionHolder = c

(* Coins are neither made nor lost: what the players have given is in      *)
(* escrow or has been paid out, whichever of the settlements come first.   *)
CoinsConserved ==
  coins[Challenger] + coins[Opponent]
    = -(Stake * Cardinality({p \in Player : escrow[p] = "reserved"}))

(* The result row says what the battle has cost or brought each player.    *)
NetMatchesResult == \A p \in Player : \A delta \in result[p] : coins[p] = delta

(* A revealed question has an answer of both: a timeout and a late answer  *)
(* do not leave one out.                                                   *)
RevealedComplete == question.revealed => \A p \in Player : question.answer[p] # "none"

(* Who wins by score has earned more points with answers, unless a         *)
(* heartbeat writes an old score back.                                     *)
BestPlayerWins ==
  "beat" \notin ops /\ reason = "score" =>
    \E w \in Player : Stake \in result[w] /\ earned[w] > earned[Other(w)]

(* Every stake comes back to someone.  In an asynchronous battle the job   *)
(* sees to it, whatever the pool holds and whether or not anybody looks.   *)
(* A battle that has begun is brought to its end by being looked at, as    *)
(* long as the pool has its sudden-death questions.  The rest is excluded: *)
(* a decline (NothingStranded), crashes and answers without end.           *)
EveryStakeReturns ==
  \A p \in Player :
    (/\ ops \subseteq {"disconnect", "dry", "unseen", "crowd"}
     /\ escrow[p] = "reserved"
     /\ \/ mode = "async" /\ "crowd" \notin ops
        \/ battle.status \in Playing /\ ops \cap {"dry", "unseen"} = {})
      ~> escrow[p] # "reserved"

(* Only an open invitation is declined: no stake stays behind.             *)
NothingStranded ==
  battle.status \in {"declined", "cancelled"} => \A p \in Player : escrow[p] = "none"
=============================================================================
