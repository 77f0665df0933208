-------------------------- MODULE LessonCompletion --------------------------
(***************************************************************************)
(* One learner and one lesson: starting it, saving its session and         *)
(* completing it (lessons.service.ts, lesson-completion.orchestrator.ts),  *)
(* as concurrent HTTP calls.                                               *)
(*                                                                         *)
(* Only `complete` runs in a transaction and locks the progress row.  The  *)
(* other calls read the row, change the object and save it: TypeORM reads  *)
(* the row again, keeps the columns in which the object differs from it    *)
(* (Diff), and updates those (Write), whoever changed them in between.     *)
(*                                                                         *)
(* The ledger is reduced to what RewardLedger shows of it: a grant key     *)
(* with lines is recognised, one without any is not.  Each of the outbox's *)
(* twin events carries the same ledger id, so a set of ids stands for them *)
(***************************************************************************)
EXTENDS Integers, Sequences, FiniteSets

CONSTANTS
  Session,    \* calls, each made once: a retry is another call
  Key,        \* Idempotency-Key headers
  Mixes,      \* sets of endpoints of {"start", "save", "complete"}: one is called
  NoSession, NoKey

ASSUME CallAssumption ==
  /\ NoSession \notin Session /\ NoKey \notin Key
  /\ Mixes \subseteq SUBSET {"start", "save", "complete"}

Field    == {"status", "active", "awarded"}
NoAttempt == 0
Absent   == [status |-> "absent", active |-> NoAttempt, awarded |-> FALSE]
Begun    == [status |-> "in_progress", active |-> NoAttempt, awarded |-> FALSE]

VARIABLES
  row,       \* lesson_progress: status, activeAttemptId, xpAwarded > 0
  attempts,  \* lesson_attempts: the status of each, in order of creation
  paid,      \* attempts whose grant key has lines in the ledger
  results,   \* lesson_completion_results: key, reward > 0, createdAt
  leagueIds, \* ledger ids of the queued events with qualifiedLeagueXp > 0
  holder,    \* holder of the progress row's lock
  clock,     \* the database's clock: transactions begun
  pc, call, view, patch, since, \* each call's program counter and locals
  answer,    \* history: what each call answered
  reverted,  \* history: xpAwarded was written back to zero
  ops        \* the endpoints that are called, once and for all

rows  == <<row, attempts, paid, results, leagueIds>>
local == <<call, view, patch, since>>
vars  == <<rows, holder, clock, pc, local, answer, reverted, ops>>

NoCall == [op |-> "none", key |-> NoKey, attempt |-> NoAttempt]

(* Nothing yet; an attempt begun; one whose start failed before it was     *)
(* bound to the row.                                                       *)
Init ==
  /\ \/ row = Absent /\ attempts = <<>>
     \/ row = Begun /\ attempts = <<"in_progress">>
     \/ row = [Begun EXCEPT !.active = 1] /\ attempts = <<"in_progress">>
  /\ paid = {} /\ results = {} /\ leagueIds = {}
  /\ holder = NoSession
  /\ clock = 0
  /\ pc = [s \in Session |-> "idle"]
  /\ call = [s \in Session |-> NoCall]
  /\ view = [s \in Session |-> Absent]
  /\ patch = [s \in Session |-> {}]
  /\ since = [s \in Session |-> 0]
  /\ answer = [s \in Session |-> "none"]
  /\ reverted = FALSE
  /\ ops \in Mixes
-----------------------------------------------------------------------------
Goto(s, label) == pc' = [pc EXCEPT ![s] = label]

AnswerHolding(s, a) ==               \* variant: the lock is not released
  /\ Goto(s, "done")
  /\ answer' = [answer EXCEPT ![s] = a]
  /\ UNCHANGED <<holder, view, patch, since, call>>

(* The call ends: its lock is free, its locals are forgotten.              *)
Answer(s, a) ==
  /\ Goto(s, "done")
  /\ answer' = [answer EXCEPT ![s] = a]
  /\ holder' = IF holder = s THEN NoSession ELSE holder
  /\ view' = [view EXCEPT ![s] = Absent]
  /\ patch' = [patch EXCEPT ![s] = {}]
  /\ since' = [since EXCEPT ![s] = 0]
  /\ call' = [call EXCEPT ![s].attempt = NoAttempt]

Reported(r) == IF r.reward THEN "reward" ELSE "nothing"
ByKey(k)    == {r \in results : r.key = k}
Latest      == CHOOSE r \in results : \A q \in results : q.at <= r.at

(* An exception, a crash, a lost connection: a transaction is rolled back, *)
(* what the calls without one have saved stays.                            *)
ResultSurvives(s) ==                 \* variant: the result is saved outside
  /\ pc[s] \notin {"idle", "done"}
  /\ Answer(s, "error")
  /\ results' = IF pc[s] = "work"
                THEN results \cup {[key |-> call[s].key, reward |-> FALSE, at |-> since[s]]}
                ELSE results
  /\ UNCHANGED <<row, attempts, paid, leagueIds, clock>>

Fail(s) ==
  /\ pc[s] \notin {"idle", "done"}
  /\ Answer(s, "error")
  /\ UNCHANGED <<rows, clock>>

(* A unique index is violated: one progress row for a lesson, one result   *)
(* for a key.                                                              *)
Collide(s) ==
  /\ \/ pc[s] = "insert" /\ row # Absent
     \/ pc[s] = "work" /\ ByKey(call[s].key) # {}
  /\ Answer(s, "error")
  /\ UNCHANGED <<rows, clock>>
-----------------------------------------------------------------------------
(* Reading the row at the head of a call.                                  *)
Read(s, op, object) ==
  /\ pc[s] = "idle" /\ op \in ops
  /\ call' = [call EXCEPT ![s].op = op]
  /\ view' = [view EXCEPT ![s] = object]
  /\ Goto(s, IF row = Absent THEN "insert" ELSE "diff")
  /\ UNCHANGED <<rows, holder, clock, patch, since, answer>>

(* LessonsService.start: a completed lesson is opened again.               *)
Start(s) ==
  Read(s, "start",
       CASE row.status = "absent"      -> Begun
         [] row.status = "completed"   -> [row EXCEPT !.status = "in_progress",
                                                      !.active = NoAttempt]
         [] row.status = "in_progress" -> row)

(* saveProgress, and patchSession of every check: they change only the     *)
(* session's data, which is not modelled, and save the whole object.       *)
Save(s) == Read(s, "save", IF row = Absent THEN Begun ELSE row)

Saved(s) == IF call[s].op = "start" THEN "attempt" ELSE "saved"

Insert(s) ==
  /\ pc[s] = "insert"
  /\ row = Absent
  /\ row' = view[s]
  /\ Goto(s, Saved(s))
  /\ UNCHANGED <<attempts, paid, results, leagueIds, holder, clock, local, answer>>

Changed(s) == {f \in Field : view[s][f] # row[f]}

Diff(s) ==
  /\ pc[s] \in {"diff", "bind"}
  /\ patch' = [patch EXCEPT ![s] = Changed(s)]
  /\ Goto(s, IF pc[s] = "diff" THEN "write" ELSE "bound")
  /\ UNCHANGED <<rows, holder, clock, call, view, since, answer>>

(* The UPDATE waits for the lock; a start with nothing to write sends none *)
Write(s) ==
  /\ pc[s] \in {"write", "bound"}
  /\ holder = NoSession \/ (call[s].op = "start" /\ patch[s] = {})
  /\ row' = [f \in Field |-> IF f \in patch[s] THEN view[s][f] ELSE row[f]]
  /\ patch' = [patch EXCEPT ![s] = {}]
  /\ Goto(s, IF pc[s] = "write" THEN Saved(s) ELSE "saved")
  /\ UNCHANGED <<attempts, paid, results, leagueIds, holder, clock, call, view,
                 since, answer>>

(* ensureActiveAttempt: the attempt of the object read, or a new one.      *)
EnsureActiveAttempt(s) ==
  /\ pc[s] = "attempt"
  /\ IF view[s].active # NoAttempt /\ attempts[view[s].active] = "in_progress"
     THEN UNCHANGED <<attempts, view>>
     ELSE /\ attempts' = Append(attempts, "in_progress")
          /\ view' = [view EXCEPT ![s].active = Len(attempts) + 1]
  /\ Goto(s, "bind")
  /\ UNCHANGED <<row, paid, results, leagueIds, holder, clock, call, patch, since,
                 answer>>

Return(s) ==
  /\ pc[s] = "saved"
  /\ Answer(s, "ok")
  /\ UNCHANGED <<rows, clock>>
-----------------------------------------------------------------------------
(* LessonsService.complete up to the orchestrator: the attempt named by    *)
(* the client exists and is the active one, if there is an active one.     *)
Complete(s, k, a) ==
  /\ pc[s] = "idle" /\ "complete" \in ops
  /\ a \in DOMAIN attempts
  /\ row.active \in {NoAttempt, a}
  /\ call' = [call EXCEPT ![s] = [op |-> "complete", key |-> k, attempt |-> a]]
  /\ Goto(s, "lookup")
  /\ UNCHANGED <<rows, holder, clock, view, patch, since, answer>>

(* byKey and priorForLesson, before the transaction.                       *)
Lookup(s) ==
  /\ pc[s] = "lookup"
  /\ UNCHANGED <<rows, clock>>
  /\ IF ByKey(call[s].key) # {}
     THEN \E r \in ByKey(call[s].key) : Answer(s, Reported(r))
     ELSE /\ Goto(s, IF results # {} THEN "alias" ELSE "begin")
          /\ view' = [view EXCEPT ![s].awarded = results # {} /\ Latest.reward]
          /\ UNCHANGED <<holder, call, patch, since, answer>>

(* The prior answer is stored under the new key, unless the key is taken.  *)
Alias(s) ==
  /\ pc[s] = "alias"
  /\ clock' = clock + 1
  /\ results' = IF ByKey(call[s].key) # {} THEN results
                ELSE results \cup {[key |-> call[s].key,
                                    reward |-> view[s].awarded, at |-> clock + 1]}
  /\ Answer(s, IF view[s].awarded THEN "reward" ELSE "nothing")
  /\ UNCHANGED <<row, attempts, paid, leagueIds>>

(* BEGIN, then both lookups again, still without a lock.                   *)
Recheck(s) ==
  /\ pc[s] = "begin"
  /\ clock' = clock + 1
  /\ UNCHANGED rows
  /\ IF results # {}
     THEN \E r \in (IF ByKey(call[s].key) # {} THEN ByKey(call[s].key) ELSE {Latest}) :
            Answer(s, Reported(r))
     ELSE /\ since' = [since EXCEPT ![s] = clock + 1]
          /\ Goto(s, "lock")
          /\ UNCHANGED <<holder, call, view, patch, answer>>

LockAnyway(s) ==                     \* variant: the row is read without lock
  /\ pc[s] = "lock"
  /\ view' = [view EXCEPT ![s] = row]
  /\ Goto(s, "work")
  /\ UNCHANGED <<rows, holder, clock, call, patch, since, answer>>

LockProgress(s) ==
  /\ pc[s] = "lock"
  /\ holder = NoSession
  /\ holder' = s
  /\ view' = [view EXCEPT ![s] = row]
  /\ Goto(s, "work")
  /\ UNCHANGED <<rows, clock, call, patch, since, answer>>
-----------------------------------------------------------------------------
(* The reward is computed unless the row says that one was awarded.        *)
Rewarded(s) == ~view[s].awarded

GrantKeyOfCall(s) == since[s]         \* variant: a key for each call

GrantKey(s) == call[s].attempt

(* grantReward knows a key whose xp line exists, not one without lines.    *)
Granted(s) == GrantKey(s) \in paid

Awarded(s) == IF Granted(s) THEN view[s].awarded ELSE Rewarded(s)

(* What the league is told to count: the league line, or, when the grant   *)
(* was not new, the group of the old one.                                  *)
LeagueId(s) == IF Granted(s) THEN <<"group", GrantKey(s)>>
                             ELSE <<"entry", GrantKey(s)>>

CompletedRow(s) == [row EXCEPT !.status = "completed", !.awarded = Awarded(s)]

Commit(s) ==
  /\ pc[s] = "work"
  /\ ByKey(call[s].key) = {}
  /\ row' = CompletedRow(s)
  /\ attempts' = [attempts EXCEPT ![call[s].attempt] = "completed"]
  /\ paid' = IF Rewarded(s) THEN paid \cup {GrantKey(s)} ELSE paid
  /\ leagueIds' = IF Rewarded(s) THEN leagueIds \cup {LeagueId(s)} ELSE leagueIds
  /\ results' = results \cup {[key |-> call[s].key, reward |-> Rewarded(s),
                               at |-> since[s]]}
  /\ Answer(s, IF Rewarded(s) THEN "reward" ELSE "nothing")
  /\ UNCHANGED clock
-----------------------------------------------------------------------------
Step(s) ==
  \/ Insert(s) \/ Diff(s) \/ Write(s) \/ EnsureActiveAttempt(s) \/ Return(s)
  \/ Lookup(s) \/ Alias(s) \/ Recheck(s) \/ LockProgress(s) \/ Commit(s)
  \/ Collide(s)

History ==
  /\ reverted' = (reverted \/ (row.awarded /\ ~row'.awarded))
  /\ UNCHANGED ops

Next ==
  /\ \E s \in Session :
       \/ Start(s)
       \/ Save(s)
       \/ \E k \in Key, a \in DOMAIN attempts : Complete(s, k, a)
       \/ Step(s)
       \/ Fail(s)
  /\ History

Spec == Init /\ [][Next]_vars

(* A call that is not stuck behind the lock goes on, and the lock's queue  *)
(* is fair: whoever waits gets it if it is free again and again.  No call  *)
(* is obliged to fail.                                                     *)
FairSpec == Spec /\ \A s \in Session : SF_vars(Step(s) /\ History)
-----------------------------------------------------------------------------
Outcome == {"none", "ok", "reward", "nothing", "error"}

(* Rows of the tables.                                                     *)
ProgressRow == [status : {"absent", "in_progress", "completed"},
                active : 0..Len(attempts), awarded : BOOLEAN]
AttemptRow == {"in_progress", "completed"}
ResultRow == [key : Key, reward : BOOLEAN, at : 1..clock]

(* The variables' values, and that the lock is held exactly by the         *)
(* transaction that is between its locking read and its COMMIT.            *)
TypeOK ==
  /\ row \in ProgressRow
  /\ attempts \in Seq(AttemptRow)
  /\ results \subseteq ResultRow
  /\ \A s \in Session : /\ answer[s] \in Outcome
                        /\ patch[s] \subseteq Field
                        /\ holder = s <=> pc[s] = "work"

(* Whatever calls, keys and attempts race on it, the lesson pays once, as  *)
(* long as nobody writes xpAwarded back to zero: neither a stale save, nor *)
(* the completion of another attempt, which is paid nothing.               *)
PaidOnce == ~reverted => Cardinality(paid) <= 1

(* A stored answer means that the lesson was paid: no crash, retry or race *)
(* makes a learner lose the reward of a lesson that answers "completed".   *)
NoRewardLost == results # {} => paid # {}

(* Of double submissions alone the league hears once: the ids it dedupes   *)
(* by do not name one payment twice.                                       *)
LeagueOnce == ops = {"complete"} => Cardinality(leagueIds) <= 1

(* Every call is answered, whoever it waits for.                           *)
EveryCallAnswered ==
  \A s \in Session : pc[s] # "idle" ~> pc[s] = "done"
=============================================================================
