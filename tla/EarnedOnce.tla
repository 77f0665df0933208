----------------------------- MODULE EarnedOnce -----------------------------
(***************************************************************************)
(* What every reward of the backend promises, whatever pays it: a key      *)
(* names one right to be paid, a key is paid after it is earned and never  *)
(* more than once.  Referral and LuckyWheel implement it.                  *)
(***************************************************************************)
EXTENDS Naturals

CONSTANT Key

VARIABLES
  earned,        \* the keys that have been earned
  paid           \* how many times each key was paid

Init == earned = {} /\ paid = [k \in Key |-> 0]

Earn ==
  /\ earned' \subseteq Key /\ earned \subseteq earned'
  /\ UNCHANGED paid

(* One transaction may earn and pay several keys.                          *)
Pay ==
  /\ earned' \subseteq Key /\ earned \subseteq earned'
  /\ LET was == paid  now == paid'
     IN now = [k \in Key |-> IF now[k] # was[k] /\ was[k] = 0 /\ k \in earned' THEN 1 ELSE was[k]]

Next == Earn \/ Pay

Spec == Init /\ [][Next]_<<earned, paid>>
=============================================================================
