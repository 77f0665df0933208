----------------------- MODULE LessonCompletion_proofs -----------------------
(***************************************************************************)
(* Proofs about LessonCompletion, for every number of calls, of keys and   *)
(* of attempts, and whatever endpoints are called together.                *)
(***************************************************************************)
EXTENDS LessonCompletion, FiniteSetTheorems, TLAPS

(***************************************************************************)
(* Types: a completion that passed the head of its call has a key and an   *)
(* existing attempt, in its transaction also the time of its BEGIN.        *)
(***************************************************************************)
Labels == {"idle", "insert", "diff", "write", "attempt", "bind", "bound", "saved",
           "lookup", "alias", "begin", "lock", "work", "done"}

Completing(s) == pc[s] \in {"lookup", "alias", "begin", "lock", "work"}

CallShape == [op : {"none", "start", "save", "complete"}, key : Key \cup {NoKey},
              attempt : 0..Len(attempts)]

Locals ==
  /\ clock \in Nat
  /\ paid \subseteq DOMAIN attempts
  /\ holder \in Session \cup {NoSession}
  /\ pc \in [Session -> Labels]
  /\ call \in [Session -> CallShape]
  /\ view \in [Session -> ProgressRow]
  /\ patch \in [Session -> SUBSET Field]
  /\ since \in [Session -> 0..clock]
  /\ answer \in [Session -> Outcome]
  /\ \A s \in Session :
       /\ Completing(s) => call[s].key \in Key /\ call[s].attempt \in DOMAIN attempts
       /\ pc[s] \in {"lock", "work"} => since[s] > 0

TypeInv == TypeOK /\ Locals

LEMMA Attempts == TypeInv => Len(attempts) \in Nat /\ DOMAIN attempts = 1..Len(attempts)
  BY DEF TypeInv, TypeOK

(* What the calls make of the row they have read.                          *)
LEMMA Objects ==
  ASSUME Len(attempts) \in Nat
  PROVE  /\ Absent \in ProgressRow /\ Begun \in ProgressRow
         /\ \A r \in ProgressRow :
              [r EXCEPT !.status = "in_progress", !.active = NoAttempt] \in ProgressRow
         /\ \A r \in ProgressRow, i \in 0..Len(attempts) :
              [r EXCEPT !.active = i] \in ProgressRow
         /\ \A r \in ProgressRow, b \in BOOLEAN : [r EXCEPT !.awarded = b] \in ProgressRow
         /\ \A c \in CallShape, op \in {"start", "save"} : [c EXCEPT !.op = op] \in CallShape
         /\ \A c \in CallShape : [c EXCEPT !.attempt = NoAttempt] \in CallShape
<1> 0 \in 0..Len(attempts)
  OBVIOUS
<1> QED BY DEF Absent, Begun, NoAttempt, ProgressRow, CallShape

LEMMA AtMostOne == \A x, S : S \subseteq {x} => Cardinality(S) <= 1
<1> SUFFICES ASSUME NEW x, NEW S, S \subseteq {x} PROVE Cardinality(S) <= 1
  OBVIOUS
<1>1. IsFiniteSet({x}) /\ Cardinality({x}) = 1 /\ S \in SUBSET {x}
  BY FS_Singleton
<1>2. Cardinality(S) <= Cardinality({x})
  BY <1>1, FS_Subset
<1> QED BY <1>1, <1>2

LEMMA InitAttempts ==
  ASSUME Init
  PROVE  /\ attempts \in Seq(AttemptRow) /\ Len(attempts) \in Nat /\ Len(attempts) <= 1
         /\ \/ row = Absent
            \/ row = Begun
            \/ Len(attempts) = 1 /\ row = [Begun EXCEPT !.active = 1]
<1>1. CASE row = Absent /\ attempts = <<>>
  BY <1>1
<1>2. CASE row \in {Begun, [Begun EXCEPT !.active = 1]} /\ attempts = <<"in_progress">>
  <2>1. "in_progress" \in AttemptRow
    BY DEF AttemptRow
  <2> QED BY <1>2, <2>1
<1> QED BY <1>1, <1>2 DEF Init

(* Attempts are only added and time only passes.                           *)
LEMMA Grown ==
  ASSUME TypeInv, attempts' \in Seq(AttemptRow), Len(attempts) <= Len(attempts'),
         clock' \in Nat, clock <= clock'
  PROVE  /\ ProgressRow \subseteq ProgressRow' /\ ResultRow \subseteq ResultRow'
         /\ CallShape \subseteq CallShape' /\ DOMAIN attempts \subseteq DOMAIN attempts'
         /\ 0..clock \subseteq 0..clock'
  BY DEF TypeInv, TypeOK, Locals, ProgressRow, ResultRow, CallShape

LEMMA InitType == Init => TypeInv
<1> SUFFICES ASSUME Init PROVE TypeInv  OBVIOUS
<1>0. attempts \in Seq(AttemptRow) /\ Len(attempts) \in Nat /\ Len(attempts) <= 1
  BY InitAttempts
<1>1. row \in ProgressRow /\ Absent \in ProgressRow
  <2>1. Absent \in ProgressRow /\ Begun \in ProgressRow
    BY <1>0, Objects
  <2>2. Len(attempts) = 1 => [Begun EXCEPT !.active = 1] \in ProgressRow
    BY <2>1 DEF ProgressRow
  <2> QED BY <2>1, <2>2, InitAttempts
<1>2. NoCall \in CallShape
  BY <1>0 DEF NoCall, CallShape, NoAttempt
<1>3. TypeOK
  BY <1>0, <1>1, CallAssumption DEF Init, TypeOK, Outcome
<1>4. Locals
  BY <1>0, <1>1, <1>2 DEF Init, Locals, Labels, Completing, Outcome
<1> QED BY <1>3, <1>4 DEF TypeInv

LEMMA AnswerType ==
  ASSUME TypeInv, NEW s \in Session, NEW a \in Outcome, Answer(s, a),
         clock' \in Nat, clock <= clock',
         attempts' \in Seq(AttemptRow), Len(attempts') = Len(attempts),
         row' \in ProgressRow, results' \subseteq ResultRow', paid' \subseteq DOMAIN attempts
  PROVE  TypeInv'
<1>1. /\ pc' = [pc EXCEPT ![s] = "done"]
      /\ answer' = [answer EXCEPT ![s] = a]
      /\ holder' = IF holder = s THEN NoSession ELSE holder
      /\ view' = [view EXCEPT ![s] = Absent]
      /\ patch' = [patch EXCEPT ![s] = {}]
      /\ since' = [since EXCEPT ![s] = 0]
      /\ call' = [call EXCEPT ![s].attempt = NoAttempt]
  BY DEF Answer, Goto
<1>2. /\ ProgressRow' = ProgressRow /\ CallShape' = CallShape
      /\ DOMAIN attempts' = DOMAIN attempts /\ 0..clock \subseteq 0..clock'
  BY Grown DEF ProgressRow, CallShape, TypeInv, TypeOK
<1>3. TypeOK'
  BY <1>1, <1>2, CallAssumption DEF TypeInv, TypeOK, Locals, Outcome
<1>4. Absent \in ProgressRow /\ [call[s] EXCEPT !.attempt = NoAttempt] \in CallShape
  BY Attempts, Objects DEF TypeInv, Locals
<1>5. /\ clock' \in Nat /\ paid' \subseteq DOMAIN attempts'
      /\ holder' \in Session \cup {NoSession}
      /\ pc' \in [Session -> Labels] /\ call' \in [Session -> CallShape']
      /\ view' \in [Session -> ProgressRow'] /\ patch' \in [Session -> SUBSET Field]
      /\ answer' \in [Session -> Outcome]
  BY <1>1, <1>2, <1>4 DEF TypeInv, Locals, Labels
<1>6. since' \in [Session -> 0..clock']
  BY <1>1, <1>2 DEF TypeInv, Locals
<1>7. \A r \in Session :
        /\ Completing(r)' => call'[r].key \in Key /\ call'[r].attempt \in DOMAIN attempts'
        /\ pc'[r] \in {"lock", "work"} => since'[r] > 0
  BY <1>1, <1>2 DEF TypeInv, Locals, Completing
<1> QED BY <1>3, <1>5, <1>6, <1>7 DEF TypeInv, Locals

(* A step of s that neither takes nor frees the lock and adds no attempt.  *)
LEMMA QuietType ==
  ASSUME TypeInv, NEW s \in Session, NEW l \in Labels, Goto(s, l),
         pc[s] # "work", l \notin {"lock", "work"},
         UNCHANGED <<attempts, paid, results, holder, clock, since, answer>>,
         row' \in ProgressRow, call' \in [Session -> CallShape],
         view' \in [Session -> ProgressRow], patch' \in [Session -> SUBSET Field],
         \A r \in Session \ {s} : call'[r] = call[r],
         Completing(s)' => call'[s].key \in Key /\ call'[s].attempt \in DOMAIN attempts
  PROVE  TypeInv'
<1>1. pc'[s] = l /\ \A r \in Session \ {s} : pc'[r] = pc[r]
  BY DEF Goto, TypeInv, Locals
<1>2. TypeOK'
  BY <1>1 DEF TypeInv, TypeOK, Locals, ProgressRow, ResultRow
<1>3. pc' \in [Session -> Labels]
  BY DEF Goto, TypeInv, Locals
<1>4. Locals'
  BY <1>1, <1>3 DEF TypeInv, Locals, Completing, CallShape, ProgressRow
<1> QED BY <1>2, <1>4 DEF TypeInv

LEMMA StepType ==
  ASSUME TypeInv, [Next]_vars
  PROVE  TypeInv'
<1> USE DEF TypeInv, Labels
<1>1. ASSUME NEW s \in Session, Start(s) \/ Save(s) PROVE TypeInv'
  <2>1. PICK op \in {"start", "save"},
             object \in {row, Begun, [row EXCEPT !.status = "in_progress", !.active = NoAttempt]} :
          Read(s, op, object)
    BY <1>1 DEF Start, Save, TypeOK, ProgressRow
  <2>2. object \in ProgressRow
    <3>1. row \in ProgressRow /\ Len(attempts) \in Nat
      BY Attempts DEF TypeOK
    <3> QED BY <3>1, Objects
  <2>3. call' = [call EXCEPT ![s].op = op] /\ view' = [view EXCEPT ![s] = object]
        /\ pc[s] = "idle"
        /\ UNCHANGED <<row, attempts, paid, results, holder, clock, patch, since, answer>>
    BY <2>1 DEF Read, rows
  <2>4. call' \in [Session -> CallShape] /\ \A r \in Session \ {s} : call'[r] = call[r]
    BY <2>3, Attempts, Objects DEF Locals
  <2>5. PICK l \in {"insert", "diff"} : Goto(s, l)
    BY <2>1 DEF Read
  <2> QED BY <2>2, <2>3, <2>4, <2>5, QuietType DEF TypeOK, Locals, Completing, Goto
<1>2. ASSUME NEW s \in Session, Insert(s) PROVE TypeInv'
  <2>1. PICK l \in {"attempt", "saved"} : Goto(s, l)
    BY <1>2 DEF Insert, Saved
  <2> QED BY <1>2, <2>1, QuietType DEF Insert, Locals, Completing, Goto, local
<1>3. ASSUME NEW s \in Session, Diff(s) PROVE TypeInv'
  <2>1. PICK l \in {"write", "bound"} : Goto(s, l)
    BY <1>3 DEF Diff
  <2>2. patch' \in [Session -> SUBSET Field]
    BY <1>3 DEF Diff, Changed, Locals
  <2> QED BY <1>3, <2>1, <2>2, QuietType DEF Diff, TypeOK, Locals, Completing, Goto, rows
<1>4. ASSUME NEW s \in Session, Write(s) PROVE TypeInv'
  <2>1. PICK l \in {"attempt", "saved"} : Goto(s, l)
    BY <1>4 DEF Write, Saved
  <2>2. row' \in ProgressRow
    <3>1. /\ row' = [status |-> row'.status, active |-> row'.active, awarded |-> row'.awarded]
          /\ row'.status \in {view[s].status, row.status}
          /\ row'.active \in {view[s].active, row.active}
          /\ row'.awarded \in {view[s].awarded, row.awarded}
      BY <1>4 DEF Write, Field
    <3> QED BY <3>1 DEF TypeOK, Locals, ProgressRow
  <2>3. patch' \in [Session -> SUBSET Field]
    BY <1>4 DEF Write, Locals
  <2> QED BY <1>4, <2>1, <2>2, <2>3, QuietType DEF Write, Locals, Completing, Goto
<1>5. ASSUME NEW s \in Session, EnsureActiveAttempt(s) PROVE TypeInv'
  <2>1. /\ pc[s] = "attempt" /\ Goto(s, "bind")
        /\ UNCHANGED <<row, paid, results, holder, clock, call, patch, since, answer>>
    BY <1>5 DEF EnsureActiveAttempt
  <2>2. CASE UNCHANGED <<attempts, view>>
    BY <2>1, <2>2, QuietType DEF TypeOK, Locals, Completing, Goto
  <2>3. CASE /\ attempts' = Append(attempts, "in_progress")
             /\ view' = [view EXCEPT ![s].active = Len(attempts) + 1]
    <3>1. attempts' \in Seq(AttemptRow) /\ Len(attempts') = Len(attempts) + 1
          /\ Len(attempts) \in Nat
      BY <2>3 DEF TypeOK, AttemptRow
    <3>2. /\ ProgressRow \subseteq ProgressRow' /\ ResultRow \subseteq ResultRow'
          /\ CallShape \subseteq CallShape' /\ DOMAIN attempts \subseteq DOMAIN attempts'
      BY <2>1, <3>1, Grown DEF Locals
    <3>3. view[s] \in ProgressRow' /\ Len(attempts) + 1 \in 0..Len(attempts')
      BY <3>1, <3>2 DEF Locals
    <3>4. [view[s] EXCEPT !.active = Len(attempts) + 1] \in ProgressRow'
      BY <3>3 DEF ProgressRow
    <3>5. view' \in [Session -> ProgressRow']
      BY <2>3, <3>2, <3>4 DEF Locals
    <3>6. pc' \in [Session -> Labels] /\ pc'[s] = "bind"
          /\ \A r \in Session \ {s} : pc'[r] = pc[r]
      BY <2>1 DEF Goto, Locals
    <3>7. TypeOK'
      BY <2>1, <3>1, <3>2, <3>6 DEF TypeOK
    <3>8. Locals'
      BY <2>1, <3>2, <3>5, <3>6 DEF Locals, Completing
    <3> QED BY <3>7, <3>8
  <2> QED BY <1>5, <2>2, <2>3 DEF EnsureActiveAttempt
<1>6. ASSUME NEW s \in Session, Return(s) \/ Fail(s) \/ Collide(s) PROVE TypeInv'
  <2>1. PICK a \in Outcome : Answer(s, a) /\ UNCHANGED <<rows, clock>>
    BY <1>6 DEF Return, Fail, Collide, Outcome
  <2>2. ResultRow' = ResultRow
    BY <2>1 DEF ResultRow
  <2> QED BY <2>1, <2>2, AnswerType DEF TypeOK, Locals, rows
<1>7. ASSUME NEW s \in Session, NEW k \in Key, NEW a \in DOMAIN attempts, Complete(s, k, a)
      PROVE  TypeInv'
  <2>1. [op |-> "complete", key |-> k, attempt |-> a] \in CallShape
    BY DEF CallShape, TypeOK
  <2> QED BY <1>7, <2>1, QuietType DEF Complete, TypeOK, Locals, rows
<1>8. ASSUME NEW s \in Session, Lookup(s) PROVE TypeInv'
  <2>1. CASE \E r \in results : Answer(s, Reported(r))
    <3>1. PICK a \in Outcome : Answer(s, a)
      BY <2>1 DEF Reported, Outcome
    <3>2. UNCHANGED <<rows, clock>> /\ ResultRow' = ResultRow
      BY <1>8 DEF Lookup, ResultRow
    <3> QED BY <3>1, <3>2, AnswerType DEF TypeOK, Locals, rows
  <2>2. CASE ~ \E r \in results : Answer(s, Reported(r))
    <3>1. PICK l \in {"alias", "begin"}, b \in BOOLEAN :
            Goto(s, l) /\ view' = [view EXCEPT ![s].awarded = b]
      BY <1>8, <2>2 DEF Lookup, ByKey
    <3>2. UNCHANGED <<rows, clock, holder, call, patch, since, answer>> /\ pc[s] = "lookup"
      BY <1>8, <2>2 DEF Lookup, ByKey
    <3>3. view' \in [Session -> ProgressRow]
      BY <3>1 DEF Locals, ProgressRow
    <3> QED BY <3>1, <3>2, <3>3, QuietType DEF TypeOK, Locals, Completing, rows
  <2> QED BY <2>1, <2>2
<1>9. ASSUME NEW s \in Session, Alias(s) PROVE TypeInv'
  <2>1. PICK a \in Outcome : Answer(s, a)
    BY <1>9 DEF Alias, Outcome
  <2>2. clock' = clock + 1 /\ ResultRow \subseteq ResultRow'
        /\ UNCHANGED <<row, attempts, paid>>
    BY <1>9, Grown DEF Alias, TypeOK, Locals
  <2>3. [key |-> call[s].key, reward |-> view[s].awarded, at |-> clock + 1] \in ResultRow'
    BY <1>9, <2>2 DEF Alias, ResultRow, Locals, Completing, ProgressRow
  <2>4. results' \subseteq ResultRow'
    BY <1>9, <2>2, <2>3 DEF Alias, TypeOK
  <2> QED BY <2>1, <2>2, <2>4, AnswerType DEF TypeOK, Locals
<1>10. ASSUME NEW s \in Session, Recheck(s) PROVE TypeInv'
  <2>1. /\ clock' = clock + 1 /\ clock \in Nat /\ UNCHANGED rows /\ pc[s] = "begin"
        /\ results' \subseteq ResultRow' /\ 0..clock \subseteq 0..clock'
    BY <1>10, Grown DEF Recheck, TypeOK, Locals, rows
  <2>2. CASE results # {}
    <3>1. PICK a \in Outcome : Answer(s, a)
      BY <1>10, <2>2 DEF Recheck, Reported, Outcome
    <3> QED BY <2>1, <3>1, AnswerType DEF TypeOK, Locals, rows
  <2>3. CASE results = {}
    <3>1. /\ since' = [since EXCEPT ![s] = clock + 1] /\ Goto(s, "lock")
          /\ UNCHANGED <<holder, call, view, patch, answer>>
      BY <1>10, <2>3 DEF Recheck
    <3>2. /\ since' \in [Session -> 0..clock'] /\ since'[s] > 0
          /\ \A r \in Session \ {s} : since'[r] = since[r]
      BY <2>1, <3>1 DEF Locals
    <3>3. /\ pc' \in [Session -> Labels] /\ pc'[s] = "lock"
          /\ \A r \in Session \ {s} : pc'[r] = pc[r]
      BY <3>1 DEF Goto, Locals
    <3>4. TypeOK'
      BY <2>1, <3>1, <3>3 DEF TypeOK, ProgressRow, rows
    <3>5. Locals'
      BY <2>1, <3>1, <3>2, <3>3 DEF Locals, Completing, ProgressRow, CallShape, rows
    <3> QED BY <3>4, <3>5
  <2> QED BY <2>2, <2>3
<1>11. ASSUME NEW s \in Session, LockProgress(s) PROVE TypeInv'
  <2>1. /\ pc[s] = "lock" /\ holder = NoSession /\ holder' = s
        /\ view' = [view EXCEPT ![s] = row]
        /\ UNCHANGED <<rows, clock, call, patch, since, answer>>
        /\ pc' \in [Session -> Labels] /\ pc'[s] = "work"
        /\ \A r \in Session \ {s} : pc'[r] = pc[r]
    BY <1>11 DEF LockProgress, Goto, Locals
  <2>2. TypeOK'
    BY <2>1, CallAssumption DEF TypeOK, Locals, ProgressRow, ResultRow, rows
  <2>3. Locals'
    BY <2>1 DEF TypeOK, Locals, Completing, ProgressRow, CallShape, rows
  <2> QED BY <2>2, <2>3
<1>12. ASSUME NEW s \in Session, Commit(s) PROVE TypeInv'
  <2>1. PICK a \in Outcome : Answer(s, a)
    BY <1>12 DEF Commit, Outcome
  <2>2. /\ call[s].key \in Key /\ call[s].attempt \in DOMAIN attempts
        /\ since[s] \in 1..clock /\ clock' = clock
    BY <1>12 DEF Commit, Locals, Completing
  <2>3. attempts' \in Seq(AttemptRow) /\ Len(attempts') = Len(attempts)
    BY <1>12, <2>2 DEF Commit, TypeOK, AttemptRow
  <2>4. row' \in ProgressRow
    BY <1>12 DEF Commit, CompletedRow, Awarded, Rewarded, TypeOK, Locals, ProgressRow
  <2>5. results' \subseteq ResultRow'
    <3>1. [key |-> call[s].key, reward |-> Rewarded(s), at |-> since[s]] \in ResultRow
      BY <2>2 DEF Rewarded, ResultRow
    <3> QED BY <1>12, <2>2, <3>1 DEF Commit, TypeOK, ResultRow
  <2>6. paid' \subseteq DOMAIN attempts
    BY <1>12, <2>2 DEF Commit, GrantKey, Locals
  <2> QED BY <2>1, <2>2, <2>3, <2>4, <2>5, <2>6, AnswerType DEF Locals
<1>13. CASE UNCHANGED vars
  BY <1>13 DEF TypeOK, Locals, ProgressRow, ResultRow, CallShape, Completing, vars, rows, local
<1> QED
  BY <1>1, <1>2, <1>3, <1>4, <1>5, <1>6, <1>7, <1>8, <1>9, <1>10, <1>11, <1>12, <1>13
  DEF Next, Step

(* The variables' values, and that only the holder of the progress row's   *)
(* lock is between its locking read and its COMMIT.                        *)
THEOREM TypeCorrect == Spec => []TypeOK
<1>1. TypeInv => TypeOK  BY DEF TypeInv
<1> QED BY <1>1, InitType, StepType, PTL DEF Spec
-----------------------------------------------------------------------------
(* A first attempt may be there: without `start` there is never another.   *)
StartInv ==
  "start" \notin ops =>
    /\ Len(attempts) <= 1
    /\ \A s \in Session : pc[s] # "attempt" /\ call[s].op # "start"

LEMMA StartInit == Init => StartInv
<1> SUFFICES ASSUME Init PROVE StartInv  OBVIOUS
<1>1. Len(attempts) <= 1
  BY InitAttempts
<1> QED BY <1>1 DEF Init, StartInv, NoCall

LEMMA StartStep ==
  ASSUME TypeInv, StartInv, [Next]_vars
  PROVE  StartInv'
<1> SUFFICES ASSUME "start" \notin ops, ops' = ops PROVE StartInv'
  BY DEF StartInv, Next, History, vars
<1>1. Len(attempts) <= 1 /\ \A s \in Session : pc[s] # "attempt" /\ call[s].op # "start"
  BY DEF StartInv
<1>2. ASSUME NEW s \in Session, NEW l, Goto(s, l), l # "attempt",
             NEW op, op # "start", Len(attempts') = Len(attempts),
             \/ call' = call
             \/ call' = [call EXCEPT ![s].op = op]
             \/ call' = [call EXCEPT ![s].attempt = NoAttempt]
             \/ \E k, a : call' = [call EXCEPT ![s] = [op |-> op, key |-> k, attempt |-> a]]
      PROVE  StartInv'
  BY <1>1, <1>2 DEF StartInv, Goto, TypeInv, Locals, CallShape
<1>3. ASSUME NEW s \in Session, NEW a, Answer(s, a), Len(attempts') = Len(attempts)
      PROVE  StartInv'
  BY <1>2, <1>3 DEF Answer
<1>4. ASSUME NEW s \in Session, Start(s) PROVE StartInv'
  BY <1>4 DEF Start, Read
<1>5. ASSUME NEW s \in Session, Save(s) PROVE StartInv'
  <2>1. call' = [call EXCEPT ![s].op = "save"] /\ UNCHANGED attempts
    BY <1>5 DEF Save, Read, rows
  <2>2. PICK l \in {"insert", "diff"} : Goto(s, l)
    BY <1>5 DEF Save, Read
  <2> QED BY <1>2, <2>1, <2>2
<1>6. ASSUME NEW s \in Session, Insert(s) \/ Write(s) PROVE StartInv'
  <2>1. Goto(s, "saved") /\ UNCHANGED <<attempts, call>>
    BY <1>1, <1>6 DEF Insert, Write, Saved, local
  <2> QED BY <1>2, <2>1
<1>7. ASSUME NEW s \in Session, Diff(s) PROVE StartInv'
  <2>1. UNCHANGED <<attempts, call>> /\ \E l \in {"write", "bound"} : Goto(s, l)
    BY <1>7 DEF Diff, rows
  <2> QED BY <1>2, <2>1
<1>8. ASSUME NEW s \in Session, EnsureActiveAttempt(s) PROVE StartInv'
  BY <1>1, <1>8 DEF EnsureActiveAttempt
<1>9. ASSUME NEW s \in Session, Return(s) \/ Fail(s) \/ Collide(s) \/ Alias(s) PROVE StartInv'
  BY <1>3, <1>9 DEF Return, Fail, Collide, Alias, rows
<1>10. ASSUME NEW s \in Session, NEW k \in Key, NEW a \in DOMAIN attempts, Complete(s, k, a)
       PROVE  StartInv'
  BY <1>2, <1>10 DEF Complete, rows
<1>11. ASSUME NEW s \in Session, Lookup(s) \/ Recheck(s) \/ LockProgress(s) PROVE StartInv'
  <2>1. UNCHANGED attempts
    BY <1>11 DEF Lookup, Recheck, LockProgress, rows
  <2>2. CASE \E a : Answer(s, a)
    BY <1>3, <2>1, <2>2
  <2>3. CASE ~ \E a : Answer(s, a)
    <3>1. call' = call /\ \E l \in {"alias", "begin", "lock", "work"} : Goto(s, l)
      BY <1>11, <2>3 DEF Lookup, Recheck, LockProgress
    <3> QED BY <1>2, <2>1, <3>1
  <2> QED BY <2>2, <2>3
<1>12. ASSUME NEW s \in Session, Commit(s) PROVE StartInv'
  <2>1. Len(attempts') = Len(attempts)
    BY <1>12 DEF Commit, TypeInv, TypeOK, Locals, Completing
  <2> QED BY <1>3, <1>12, <2>1 DEF Commit
<1>13. CASE UNCHANGED vars
  BY <1>1, <1>13 DEF StartInv, vars, rows, local
<1> QED
  BY <1>4, <1>5, <1>6, <1>7, <1>8, <1>9, <1>10, <1>11, <1>12, <1>13 DEF Next, Step

-----------------------------------------------------------------------------
(***************************************************************************)
(* Paying once.  The transaction that holds the lock sees the award as the *)
(* row has it, since every other writer waits; as long as no award was     *)
(* written back, a row without one has no payment behind it, and the first *)
(* payment leaves its award in the row.                                    *)
(***************************************************************************)
Fresh == \A s \in Session :
  /\ pc[s] = "work" => view[s].awarded = row.awarded
  /\ pc[s] = "insert" => ~view[s].awarded

OnePayment == ~reverted =>
  /\ ~row.awarded => paid = {}
  /\ \E a : paid \subseteq {a}

PayInv == Fresh /\ OnePayment /\ reverted \in BOOLEAN

LEMMA PayInit == Init => PayInv
  BY DEF Init, PayInv, Fresh, OnePayment

LEMMA FreshStep ==
  ASSUME TypeInv, Fresh, [Next]_vars
  PROVE  Fresh'
<1>1. ASSUME NEW s \in Session, NEW l, Goto(s, l), l \notin {"work", "insert"},
             row'.awarded = row.awarded, \A r \in Session \ {s} : view'[r] = view[r]
      PROVE  Fresh'
  BY <1>1 DEF Fresh, Goto, TypeInv, Locals
<1>2. ASSUME NEW s \in Session, NEW a, Answer(s, a), row'.awarded = row.awarded
      PROVE  Fresh'
  BY <1>1, <1>2 DEF Answer, TypeInv, Locals
<1>3. ASSUME NEW s \in Session, Start(s) \/ Save(s) PROVE Fresh'
  <2>1. PICK op, object : Read(s, op, object) /\ (row = Absent => ~object.awarded)
    BY <1>3 DEF Start, Save, Begun, Absent
  <2>2. /\ row' = row /\ view' = [view EXCEPT ![s] = object]
        /\ Goto(s, IF row = Absent THEN "insert" ELSE "diff")
    BY <2>1 DEF Read, rows
  <2> QED BY <2>1, <2>2 DEF Fresh, Goto, TypeInv, Locals
<1>4. ASSUME NEW s \in Session, Insert(s) PROVE Fresh'
  <2>1. row'.awarded = row.awarded
    BY <1>4 DEF Insert, Fresh, Absent, TypeInv, TypeOK, Locals, ProgressRow
  <2>2. view' = view /\ \E l \in {"attempt", "saved"} : Goto(s, l)
    BY <1>4 DEF Insert, Saved, local
  <2> QED BY <1>1, <2>1, <2>2
<1>5. ASSUME NEW s \in Session, Diff(s) PROVE Fresh'
  <2>1. UNCHANGED <<row, view>> /\ \E l \in {"write", "bound"} : Goto(s, l)
    BY <1>5 DEF Diff, rows
  <2> QED BY <1>1, <2>1
<1>6. ASSUME NEW s \in Session, Write(s) PROVE Fresh'
  <2>1. view' = view /\ \E l \in {"attempt", "saved"} : Goto(s, l)
    BY <1>6 DEF Write, Saved
  <2>2. CASE patch[s] = {}
    <3>1. row'.awarded = row.awarded
      BY <1>6, <2>2 DEF Write, Field
    <3> QED BY <1>1, <2>1, <3>1
  <2>3. CASE holder = NoSession
    <3>1. \A r \in Session : pc[r] # "work"
      BY <2>3, CallAssumption DEF TypeInv, TypeOK
    <3> QED BY <2>1, <3>1 DEF Fresh, Goto, TypeInv, Locals
  <2> QED BY <1>6, <2>2, <2>3 DEF Write
<1>7. ASSUME NEW s \in Session, EnsureActiveAttempt(s) PROVE Fresh'
  <2>1. /\ Goto(s, "bind") /\ row' = row
        /\ \A r \in Session \ {s} : view'[r] = view[r]
    BY <1>7 DEF EnsureActiveAttempt, TypeInv, Locals
  <2> QED BY <1>1, <2>1
<1>8. ASSUME NEW s \in Session, Return(s) \/ Fail(s) \/ Collide(s) \/ Alias(s) PROVE Fresh'
  BY <1>2, <1>8 DEF Return, Fail, Collide, Alias, rows
<1>9. ASSUME NEW s \in Session, NEW k \in Key, NEW a \in DOMAIN attempts, Complete(s, k, a)
      PROVE  Fresh'
  BY <1>1, <1>9 DEF Complete, rows
<1>10. ASSUME NEW s \in Session, Lookup(s) \/ Recheck(s) PROVE Fresh'
  <2>1. row' = row
    BY <1>10 DEF Lookup, Recheck, rows
  <2>2. CASE \E a : Answer(s, a)
    BY <1>2, <2>1, <2>2
  <2>3. CASE ~ \E a : Answer(s, a)
    <3>1. /\ \E l \in {"alias", "begin", "lock"} : Goto(s, l)
          /\ \A r \in Session \ {s} : view'[r] = view[r]
      BY <1>10, <2>3 DEF Lookup, Recheck, TypeInv, Locals
    <3> QED BY <1>1, <2>1, <3>1
  <2> QED BY <2>2, <2>3
<1>11. ASSUME NEW s \in Session, LockProgress(s) PROVE Fresh'
  BY <1>11 DEF LockProgress, Fresh, Goto, rows, TypeInv, Locals
<1>12. ASSUME NEW s \in Session, Commit(s) PROVE Fresh'
  <2>1. \A r \in Session :
          \/ pc'[r] = pc[r] /\ view'[r] = view[r] /\ pc[r] # "work"
          \/ pc'[r] = "done"
    BY <1>12 DEF Commit, Answer, Goto, TypeInv, TypeOK, Locals
  <2> QED BY <2>1 DEF Fresh
<1>13. CASE UNCHANGED vars
  BY <1>13 DEF Fresh, vars, rows, local
<1> QED
  BY <1>3, <1>4, <1>5, <1>6, <1>7, <1>8, <1>9, <1>10, <1>11, <1>12, <1>13 DEF Next, Step

LEMMA PaymentStep ==
  ASSUME TypeInv, PayInv, [Next]_vars
  PROVE  OnePayment'
<1>1. reverted' = (reverted \/ (row.awarded /\ ~row'.awarded)) \/ UNCHANGED vars
  BY DEF Next, History
<1>2. ASSUME UNCHANGED paid, ~reverted' => ~reverted /\ (row.awarded => row'.awarded)
      PROVE  OnePayment'
  BY <1>2 DEF PayInv, OnePayment
<1>3. ASSUME NEW s \in Session, Commit(s),
             reverted' = (reverted \/ (row.awarded /\ ~row'.awarded))
      PROVE  OnePayment'
  <2> SUFFICES ASSUME ~reverted, ~(row.awarded /\ ~row'.awarded) PROVE OnePayment'
    BY <1>3 DEF OnePayment
  <2>1. view[s].awarded = row.awarded /\ row.awarded \in BOOLEAN
    BY <1>3 DEF Commit, PayInv, Fresh, TypeInv, TypeOK, ProgressRow
  <2>2. row'.awarded = Awarded(s)
    BY <1>3 DEF Commit, CompletedRow, TypeInv, TypeOK, ProgressRow
  <2>3. CASE row.awarded
    <3>1. UNCHANGED paid
      BY <1>3, <2>1, <2>3 DEF Commit, Rewarded
    <3> QED BY <2>3, <3>1 DEF PayInv, OnePayment
  <2>4. CASE ~row.awarded
    <3>1. paid = {}
      BY <2>4 DEF PayInv, OnePayment
    <3>2. paid' = {GrantKey(s)}
      BY <1>3, <2>1, <2>4, <3>1 DEF Commit, Rewarded
    <3>3. row'.awarded
      BY <2>1, <2>2, <2>4, <3>1 DEF Awarded, Granted, Rewarded
    <3> QED BY <3>2, <3>3 DEF OnePayment
  <2> QED BY <2>1, <2>3, <2>4
<1>4. ASSUME NEW s \in Session, ~Commit(s),
             \/ Start(s) \/ Save(s) \/ Step(s) \/ Fail(s)
             \/ \E k \in Key, a \in DOMAIN attempts : Complete(s, k, a)
      PROVE  UNCHANGED paid
  BY <1>4 DEF Step, Start, Save, Read, Insert, Diff, Write, EnsureActiveAttempt, Return,
              Complete, Lookup, Alias, Recheck, LockProgress, Collide, Fail, rows
<1>5. CASE UNCHANGED vars
  BY <1>5 DEF PayInv, OnePayment, vars, rows
<1> QED BY <1>1, <1>2, <1>3, <1>4, <1>5 DEF Next, History

(* However often the lesson is started, saved and submitted, by whatever   *)
(* attempt and key, it pays once, unless its award is written back to zero.*)
THEOREM LessonPaysOnce == Spec => []PaidOnce
<1>1. PayInv => PaidOnce
  <2> SUFFICES ASSUME OnePayment, ~reverted PROVE Cardinality(paid) <= 1
    BY DEF PayInv, PaidOnce
  <2>1. PICK a : paid \subseteq {a}
    BY DEF OnePayment
  <2> QED BY <2>1, AtMostOne
<1>2. TypeInv /\ PayInv /\ [Next]_vars => PayInv'
  <2> SUFFICES ASSUME TypeInv, PayInv, [Next]_vars PROVE reverted' \in BOOLEAN
    BY FreshStep, PaymentStep DEF PayInv
  <2> QED BY DEF PayInv, Next, History, vars
<1> QED BY <1>1, <1>2, PayInit, InitType, StepType, PTL DEF Spec
-----------------------------------------------------------------------------
(***************************************************************************)
(* No reward lost.  Whatever says that the lesson was rewarded, the row,   *)
(* an object read from it that may be saved over it, or a stored answer,   *)
(* has a payment behind it.                                                *)
(***************************************************************************)
Backed ==
  paid = {} =>
    /\ results = {} /\ ~row.awarded
    /\ \A s \in Session : ~view[s].awarded /\ pc[s] # "alias"

LEMMA BackedInit == Init => Backed
  BY DEF Init, Backed, Absent, Begun

LEMMA BackedStep ==
  ASSUME TypeInv, Backed, [Next]_vars
  PROVE  Backed'
<1>1. paid \subseteq paid'
  BY DEF Next, Step, Start, Save, Read, Insert, Diff, Write, EnsureActiveAttempt, Return,
         Complete, Lookup, Alias, Recheck, LockProgress, Commit, Collide, Fail, vars, rows
<1> SUFFICES ASSUME paid' = {} PROVE Backed'
  BY DEF Backed
<1>2. /\ paid = {} /\ results = {} /\ ~row.awarded
      /\ \A s \in Session : ~view[s].awarded /\ pc[s] # "alias"
  BY <1>1 DEF Backed
<1>3. ASSUME NEW s \in Session, NEW l, Goto(s, l), l # "alias", results' = {}, ~row'.awarded,
             \/ view' = view
             \/ \E v \in ProgressRow : ~v.awarded /\ view' = [view EXCEPT ![s] = v]
      PROVE  Backed'
  BY <1>2, <1>3 DEF Backed, Goto, TypeInv, Locals
<1>4. ASSUME NEW s \in Session, NEW a, Answer(s, a), UNCHANGED <<row, results>>
      PROVE  Backed'
  <2>1. Absent \in ProgressRow /\ ~Absent.awarded
    BY Attempts, Objects DEF Absent
  <2> QED BY <1>2, <1>3, <1>4, <2>1 DEF Answer
<1>5. ASSUME NEW s \in Session, Start(s) \/ Save(s) PROVE Backed'
  <2>1. PICK op \in {"start", "save"},
             object \in {row, Begun, [row EXCEPT !.status = "in_progress", !.active = NoAttempt]} :
          Read(s, op, object)
    BY <1>5 DEF Start, Save, TypeInv, TypeOK, ProgressRow
  <2>2. object \in ProgressRow /\ ~object.awarded
    <3>1. row \in ProgressRow /\ Len(attempts) \in Nat
      BY Attempts DEF TypeInv, TypeOK
    <3>2. ~Begun.awarded
          /\ [row EXCEPT !.status = "in_progress", !.active = NoAttempt].awarded = row.awarded
      BY <3>1 DEF Begun, ProgressRow
    <3> QED BY <1>2, <3>1, <3>2, Objects
  <2>3. PICK l \in {"insert", "diff"} : Goto(s, l)
    BY <2>1 DEF Read
  <2> QED BY <1>2, <1>3, <2>1, <2>2, <2>3 DEF Read, rows
<1>6. ASSUME NEW s \in Session, Insert(s) \/ Write(s) \/ Diff(s) PROVE Backed'
  <2>1. PICK l \in {"attempt", "saved", "write", "bound"} : Goto(s, l)
    BY <1>6 DEF Insert, Write, Diff, Saved
  <2>2. ~row'.awarded
    BY <1>2, <1>6 DEF Insert, Write, Diff, Field, rows
  <2>3. results' = {} /\ view' = view
    BY <1>2, <1>6 DEF Insert, Write, Diff, rows, local
  <2> QED BY <1>3, <2>1, <2>2, <2>3
<1>7. ASSUME NEW s \in Session, EnsureActiveAttempt(s) PROVE Backed'
  <2>1. Goto(s, "bind") /\ UNCHANGED <<row, results>>
    BY <1>7 DEF EnsureActiveAttempt
  <2>2. \A r \in Session : ~view'[r].awarded
    BY <1>2, <1>7 DEF EnsureActiveAttempt, TypeInv, Locals, ProgressRow
  <2> QED BY <1>2, <2>1, <2>2 DEF Backed, Goto, TypeInv, Locals
<1>8. ASSUME NEW s \in Session, Return(s) \/ Fail(s) \/ Collide(s) PROVE Backed'
  BY <1>4, <1>8 DEF Return, Fail, Collide, rows
<1>9. ASSUME NEW s \in Session, NEW k \in Key, NEW a \in DOMAIN attempts, Complete(s, k, a)
      PROVE  Backed'
  BY <1>2, <1>3, <1>9 DEF Complete, rows
<1>10. ASSUME NEW s \in Session, Lookup(s) PROVE Backed'
  <2>1. /\ Goto(s, "begin") /\ UNCHANGED rows
        /\ view' = [view EXCEPT ![s].awarded = FALSE]
    BY <1>2, <1>10 DEF Lookup, ByKey
  <2>2. [view[s] EXCEPT !.awarded = FALSE] \in ProgressRow
    BY DEF TypeInv, Locals, ProgressRow
  <2>3. ~[view[s] EXCEPT !.awarded = FALSE].awarded
    BY DEF TypeInv, Locals, ProgressRow
  <2>4. view' = [view EXCEPT ![s] = [view[s] EXCEPT !.awarded = FALSE]]
    BY <2>1
  <2> QED BY <1>2, <1>3, <2>1, <2>2, <2>3, <2>4 DEF rows
<1>11. ASSUME NEW s \in Session, Alias(s) PROVE Backed'
  BY <1>2, <1>11 DEF Alias
<1>12. ASSUME NEW s \in Session, Recheck(s) \/ LockProgress(s) PROVE Backed'
  <2>1. PICK l \in {"lock", "work"} : Goto(s, l)
    BY <1>2, <1>12 DEF Recheck, LockProgress
  <2>2. view' = view \/ view' = [view EXCEPT ![s] = row]
    BY <1>2, <1>12 DEF Recheck, LockProgress
  <2> QED BY <1>2, <1>3, <1>12, <2>1, <2>2
      DEF Recheck, LockProgress, rows, TypeInv, TypeOK
<1>13. ASSUME NEW s \in Session, Commit(s) PROVE Backed'
  BY <1>2, <1>13 DEF Commit, Rewarded
<1>14. CASE UNCHANGED vars
  BY <1>14 DEF Backed, vars, rows, local
<1> QED
  BY <1>5, <1>6, <1>7, <1>8, <1>9, <1>10, <1>11, <1>12, <1>13, <1>14 DEF Next, Step

(* No crash, retry or race answers "completed" for a lesson that was never *)
(* paid.                                                                   *)
THEOREM NoRewardIsLost == Spec => []NoRewardLost
<1>1. Backed => NoRewardLost
  BY DEF Backed, NoRewardLost
<1> QED BY <1>1, BackedInit, BackedStep, InitType, StepType, PTL DEF Spec
-----------------------------------------------------------------------------
(***************************************************************************)
(* The league.  Where the lesson is only completed, the row is written     *)
(* under its lock alone: what a transaction read of it still holds.  The   *)
(* row would lose the award on a second attempt, which is not paid yet:    *)
(* there is none, and the award has a payment behind it.                   *)
(***************************************************************************)
LeagueInv ==
  ops = {"complete"} =>
    /\ ~row.awarded => paid = {} /\ leagueIds = {}
    /\ \E id : leagueIds \subseteq {id}
    /\ \A s \in Session : /\ pc[s] = "work" => view[s] = row
                          /\ pc[s] \in {"idle", "lookup", "alias", "begin", "lock",
                                        "work", "done"}

LEMMA LeagueStep ==
  ASSUME TypeInv, StartInv, Backed, LeagueInv, [Next]_vars
  PROVE  LeagueInv'
<1> SUFFICES ASSUME ops = {"complete"}, ops' = ops PROVE LeagueInv'
  BY DEF LeagueInv, Next, History, vars
<1>1. /\ ~row.awarded => paid = {} /\ leagueIds = {}
      /\ \E id : leagueIds \subseteq {id}
      /\ \A s \in Session : /\ pc[s] = "work" => view[s] = row
                            /\ pc[s] \in {"idle", "lookup", "alias", "begin", "lock",
                                          "work", "done"}
  BY DEF LeagueInv
<1>2. ASSUME NEW s \in Session, NEW l \in {"lookup", "alias", "begin", "lock", "work", "done"},
             Goto(s, l), UNCHANGED <<row, paid, leagueIds>>,
             \A r \in Session \ {s} : view'[r] = view[r],
             l = "work" => view'[s] = row
      PROVE  LeagueInv'
  <2>1. pc'[s] = l /\ \A r \in Session \ {s} : pc'[r] = pc[r]
    BY <1>2 DEF Goto, TypeInv, Locals
  <2> QED BY <1>1, <1>2, <2>1 DEF LeagueInv
<1>3. ASSUME NEW s \in Session, NEW a, Answer(s, a), UNCHANGED <<row, paid, leagueIds>>
      PROVE  LeagueInv'
  BY <1>2, <1>3 DEF Answer, TypeInv, Locals
<1>4. ASSUME NEW s \in Session, Start(s) \/ Save(s) PROVE LeagueInv'
  BY <1>4 DEF Start, Save, Read
<1>5. ASSUME NEW s \in Session,
             Insert(s) \/ Write(s) \/ Diff(s) \/ EnsureActiveAttempt(s) \/ Return(s)
      PROVE  LeagueInv'
  BY <1>1, <1>5 DEF Insert, Write, Diff, EnsureActiveAttempt, Return
<1>6. ASSUME NEW s \in Session, Fail(s) \/ Collide(s) \/ Alias(s) PROVE LeagueInv'
  BY <1>3, <1>6 DEF Fail, Collide, Alias, rows
<1>7. ASSUME NEW s \in Session, NEW k \in Key, NEW a \in DOMAIN attempts, Complete(s, k, a)
      PROVE  LeagueInv'
  BY <1>2, <1>7 DEF Complete, rows
<1>8. ASSUME NEW s \in Session, Lookup(s) \/ Recheck(s) \/ LockProgress(s) PROVE LeagueInv'
  <2>1. UNCHANGED <<row, paid, leagueIds>>
    BY <1>8 DEF Lookup, Recheck, LockProgress, rows
  <2>2. CASE \E a : Answer(s, a)
    BY <1>3, <2>1, <2>2
  <2>3. CASE ~ \E a : Answer(s, a)
    <3>1. PICK l \in {"alias", "begin", "lock", "work"} : Goto(s, l)
      BY <1>8, <2>3 DEF Lookup, Recheck, LockProgress
    <3>2. \A r \in Session \ {s} : view'[r] = view[r]
      BY <1>8, <2>3 DEF Lookup, Recheck, LockProgress, TypeInv, Locals
    <3>3. l = "work" => view'[s] = row
      BY <1>8, <2>3, <3>1 DEF Lookup, Recheck, LockProgress, Goto, TypeInv, Locals
    <3> QED BY <1>2, <2>1, <3>1, <3>2, <3>3
  <2> QED BY <2>2, <2>3
<1>9. ASSUME NEW s \in Session, Commit(s) PROVE LeagueInv'
  <2>1. view[s] = row /\ pc[s] = "work" /\ row.awarded \in BOOLEAN
    BY <1>1, <1>9 DEF Commit, TypeInv, TypeOK, ProgressRow
  <2>2. row'.awarded /\ \E id : leagueIds' \subseteq {id}
    <3>1. row'.awarded = Awarded(s)
      BY <1>9 DEF Commit, CompletedRow, TypeInv, TypeOK, ProgressRow
    <3>2. CASE row.awarded
      <4>1. paid # {} /\ paid \subseteq DOMAIN attempts /\ Len(attempts) \in Nat
            /\ DOMAIN attempts = 1..Len(attempts) /\ Len(attempts) <= 1
        BY <3>2, Attempts DEF Backed, StartInv, TypeInv, Locals
      <4>2. call[s].attempt \in DOMAIN attempts
        BY <2>1 DEF TypeInv, Locals, Completing
      <4>3. call[s].attempt \in paid
        BY <4>1, <4>2
      <4>4. Awarded(s) /\ leagueIds' = leagueIds
        BY <1>9, <2>1, <3>2, <4>3 DEF Commit, Awarded, Granted, GrantKey, Rewarded
      <4> QED BY <1>1, <3>1, <4>4
    <3>3. CASE ~row.awarded
      <4>1. leagueIds' = {} \cup {LeagueId(s)}
        BY <1>1, <1>9, <2>1, <3>3 DEF Commit, Rewarded
      <4>2. Awarded(s)
        BY <1>1, <2>1, <3>3 DEF Awarded, Rewarded, Granted
      <4>3. leagueIds' \subseteq {LeagueId(s)}
        BY <4>1
      <4> HIDE DEF LeagueId
      <4> QED BY <3>1, <4>2, <4>3
    <3> QED BY <3>2, <3>3
  <2>3. \A r \in Session : pc'[r] # "work"
    BY <1>9, <2>1 DEF Commit, Answer, Goto, TypeInv, TypeOK, Locals
  <2>4. \A r \in Session : pc'[r] \in {pc[r], "done"}
    BY <1>9 DEF Commit, Answer, Goto, TypeInv, Locals
  <2> QED BY <1>1, <2>2, <2>3, <2>4 DEF LeagueInv
<1>10. CASE UNCHANGED vars
  BY <1>1, <1>10 DEF LeagueInv, vars, rows, local
<1> QED
  BY <1>4, <1>5, <1>6, <1>7, <1>8, <1>9, <1>10 DEF Next, Step

(* However often a lesson is submitted, the ids by which the league tells  *)
(* its payments apart never name one payment twice.                        *)
THEOREM LeagueHearsOnce == Spec => []LeagueOnce
<1>1. Init => LeagueInv
  BY DEF Init, LeagueInv
<1>2. LeagueInv => LeagueOnce
  <2> SUFFICES ASSUME LeagueInv, ops = {"complete"} PROVE Cardinality(leagueIds) <= 1
    BY DEF LeagueOnce
  <2>1. PICK id : leagueIds \subseteq {id}
    BY DEF LeagueInv
  <2> QED BY <2>1, AtMostOne
<1> QED BY <1>1, <1>2, InitType, StepType, StartInit, StartStep, BackedInit, BackedStep,
           LeagueStep, PTL DEF Spec
==============================================================================
