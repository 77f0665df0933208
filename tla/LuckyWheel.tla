----------------------------- MODULE LuckyWheel -----------------------------
(***************************************************************************)
(* The lucky wheel of one learner: src/src/lucky-wheel/.                   *)
(*                                                                         *)
(* A reward day has one row (wheel_user_days) with the spins it allows,    *)
(* those used and what was won.  spin and purchaseRespin are transactions  *)
(* that lock the row, if it exists, read it and save it from what they     *)
(* read; the first of a day creates it, and of two that create it one      *)
(* breaks the unique key and rolls back.  The day is the one of the clock  *)
(* when the transaction begins.  Six segments are told apart by the kind   *)
(* of their reward only; the two coin segments are one.                    *)
(***************************************************************************)
EXTENDS Naturals, FiniteSets

CONSTANTS
  WheelDay,      \* reward days 1 .. WheelDay
  MaxSpins,      \* bound: spins with keys of their own
  RespinKey,     \* idempotency keys of re-spin purchases
  Client         \* requests in progress at a time

WheelAssumption == WheelDay \in Nat \ {0} /\ MaxSpins \in Nat

FreePerDay == 1                          \* ensureDefaultCampaign
PaidPerDay == 1
GemsCap == 15                            \* wheel.constants.ts
XpCap == 25
Kind == {"gems", "xp", "coins", "again", "badge"}
Amount == [gems |-> 10, xp |-> 25, coins |-> 100, again |-> 0, badge |-> 0]

VARIABLES
  wday,          \* the reward day of the clock
  row,           \* wheel_user_days: a set of at most one row for each day
  request,       \* the requests in progress
  spun,          \* keys of the spins in wheel_spins
  respun,        \* keys of the re-spins in the ledger
  badge,         \* the lucky badge is owned
  rights,        \* history: <<day, n>> for each spin a day has come to allow
  awards,        \* history: how often the n-th spin of a day was rewarded
  won            \* history: gems and xp won by day

wheelVars == <<wday, row, request, spun, respun, badge, rights, awards, won>>

Days == 1 .. WheelDay
SpinKey == 1 .. MaxSpins                 \* idempotency keys, in the order of first use
Right == Days \X (1 .. FreePerDay + PaidPerDay + 1)
Quiet == [at |-> "idle"]

Init ==
  /\ wday = 1
  /\ row = [d \in Days |-> {}]
  /\ request = [c \in Client |-> Quiet]
  /\ spun = {} /\ respun = {} /\ badge = FALSE
  /\ rights = {}
  /\ awards = [r \in Right |-> 0]
  /\ won = [d \in Days |-> [gems |-> 0, xp |-> 0]]
-----------------------------------------------------------------------------
(* buildLayout leaves the badge out for whom owns it.                      *)
NewDay == [paid |-> 0, extra |-> 0, used |-> 0, gems |-> 0, xp |-> 0,
           kinds |-> IF badge THEN Kind \ {"badge"} ELSE Kind]

Allowed(day) == FreePerDay + day.paid + day.extra
RightsOf(d, day) == {r \in Right : r[1] = d /\ r[2] <= Allowed(day)}

Tomorrow ==
  /\ wday < WheelDay
  /\ wday' = wday + 1
  /\ UNCHANGED <<row, request, spun, respun, badge, rights, awards, won>>

(* getCurrent creates the day of a learner who looks.                      *)
Look ==
  /\ row[wday] = {}
  /\ row' = [row EXCEPT ![wday] = {NewDay}]
  /\ rights' = rights \union RightsOf(wday, NewDay)
  /\ UNCHANGED <<wday, request, spun, respun, badge, awards, won>>

(* A spin whose key is found is answered with the spin of that key.        *)
Ask(c, k) ==
  /\ request[c].at = "idle" /\ k \notin spun
  /\ k \in SpinKey => \A j \in 1 .. k - 1 : j \in spun \/ \E b \in Client : request[b] # Quiet /\ request[b].key = j
  /\ request' = [request EXCEPT ![c] = [at |-> "begin", key |-> k]]
  /\ UNCHANGED <<wday, row, spun, respun, badge, rights, awards, won>>

(* resolveUserDay: the lock is held until the transaction ends.            *)
RowShared(d) == TRUE                                       \* variant: no lock
RowFree(d) == \A c \in Client : request[c].at = "locked" => request[c].day # d

Begin(c) ==
  /\ request[c].at = "begin"
  /\ row[wday] # {} => RowFree(wday)
  /\ \E day \in IF row[wday] = {} THEN {NewDay} ELSE row[wday] :
       request' = [request EXCEPT ![c] =
         [at |-> IF row[wday] = {} THEN "created" ELSE "locked",
          key |-> request[c].key, day |-> wday, seen |-> day]]
  /\ UNCHANGED <<wday, row, spun, respun, badge, rights, awards, won>>

(* clampSegmentCaps                                                        *)
Room(cap, n) == IF n < cap THEN cap - n ELSE 0
Least(a, b) == IF a < b THEN a ELSE b
Unclamped(kind, day) == [kind |-> kind, amount |-> Amount[kind]]   \* variant
Clamped(kind, day) ==
  CASE kind = "gems" /\ Room(GemsCap, day.gems) = 0 -> [kind |-> "coins", amount |-> 50]
    [] kind = "gems" -> [kind |-> "gems",
                         amount |-> Least(Amount.gems, Room(GemsCap, day.gems))]
    [] kind = "xp"   -> [kind |-> "xp", amount |-> Least(Amount.xp, Room(XpCap, day.xp))]
    [] OTHER         -> [kind |-> kind, amount |-> Amount[kind]]

(* The row after a spin won w.                                             *)
After(day, w) ==
  [paid  |-> day.paid,
   extra |-> IF w.kind = "again" THEN 1 ELSE day.extra,
   used  |-> day.used + 1,
   gems  |-> day.gems + (IF w.kind = "gems" THEN w.amount ELSE 0),
   xp    |-> day.xp + (IF w.kind = "xp" THEN w.amount ELSE 0),
   kinds |-> IF w.kind = "badge" THEN day.kinds \ {"badge"} ELSE day.kinds]

Committing(c) ==
  /\ request[c].at \in {"created", "locked"}
  /\ request[c].at = "created" => row[request[c].day] = {}

Store(c, day) ==
  /\ row' = [row EXCEPT ![request[c].day] = {day}]
  /\ rights' = rights \union RightsOf(request[c].day, day)
  /\ request' = [request EXCEPT ![c] = Quiet]

(* The transaction of spin from what it read on.                           *)
Spin(c) ==
  LET day == request[c].seen  d == request[c].day IN
  /\ Committing(c)
  /\ request[c].key \in SpinKey \ spun
  /\ day.used < Allowed(day)
  /\ \E kind \in day.kinds :
       LET w == Clamped(kind, day) IN
       /\ Store(c, After(day, w))
       /\ badge' = (badge \/ w.kind = "badge")
       /\ won' = [won EXCEPT ![d] =
            [gems |-> @.gems + (IF w.kind = "gems" THEN w.amount ELSE 0),
             xp |-> @.xp + (IF w.kind = "xp" THEN w.amount ELSE 0)]]
  /\ awards' = [awards EXCEPT ![<<d, day.used + 1>>] = @ + 1]
  /\ spun' = spun \union {request[c].key}
  /\ UNCHANGED <<wday, respun>>

(* The transaction of purchaseRespin; the wallet is RewardLedger's.        *)
MayBuy(day) == day.paid < PaidPerDay

Respin(c) ==
  LET day == request[c].seen IN
  /\ Committing(c)
  /\ request[c].key \in RespinKey
  /\ MayBuy(day)
  /\ Store(c, IF request[c].key \in respun THEN day ELSE [day EXCEPT !.paid = @ + 1])
  /\ respun' = respun \union {request[c].key}
  /\ UNCHANGED <<wday, spun, badge, awards, won>>

(* No spin is left, the key or the row exists meanwhile, a crash.          *)
Rollback(c) ==
  /\ request[c].at # "idle"
  /\ request' = [request EXCEPT ![c] = Quiet]
  /\ UNCHANGED <<wday, row, spun, respun, badge, rights, awards, won>>
-----------------------------------------------------------------------------
Next ==
  \/ Tomorrow \/ Look
  \/ \E c \in Client, k \in SpinKey \union RespinKey : Ask(c, k)
  \/ \E c \in Client : Begin(c) \/ Spin(c) \/ Respin(c) \/ Rollback(c)

Spec == Init /\ [][Next]_wheelVars

TypeOK ==
  /\ wday \in Days
  /\ \A d \in Days : Cardinality(row[d]) <= 1
  /\ spun \subseteq SpinKey /\ respun \subseteq RespinKey /\ badge \in BOOLEAN
  /\ rights \subseteq Right /\ awards \in [Right -> Nat]

(* The spins of a day never win more gems or xp than the daily caps,       *)
(* however they interleave with re-spins and with the change of the day.   *)
CapsHeld == \A d \in Days : won[d].gems <= GemsCap /\ won[d].xp <= XpCap

(* Every free, respun or extra spin of a day is rewarded once at most and  *)
(* no reward is won without one: rights and awards implement EarnedOnce.   *)
EarnedSpins == rights
PaidSpins == awards
=============================================================================
