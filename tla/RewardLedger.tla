---------------------------- MODULE RewardLedger ----------------------------
(***************************************************************************)
(* The reward ledger of one learner: src/src/gamification/                 *)
(* reward-ledger.service.ts with the two callers that spend from it, the   *)
(* store (store.service.ts) and the paid re-spin of the lucky wheel, and   *)
(* those who save the profile's row beside it: applyRewards and a battle's *)
(* stakes, which change balances there, and the many that change something *)
(* else in the row (settings, rank, weekly streak, questionnaire) and save *)
(* all they read.                                                          *)
(*                                                                         *)
(* A save (TypeORM) selects the row again, keeps the columns in which the  *)
(* object differs from it, and updates those, whoever changed them since.  *)
(*                                                                         *)
(* A session is one database transaction (READ COMMITTED): what it wrote   *)
(* is published, and its row locks are released, by Commit; Abort is a     *)
(* thrown exception, a deadlock victim or a crash.  Learners share no row, *)
(* so one wallet is enough.  A line of a grant is keyed by the grant's     *)
(* idempotency key and its currency; a line of amount 0 is never written,  *)
(* so ledger[k][c] = 0 says that the row <<k, c>> does not exist.          *)
(*                                                                         *)
(* The day row of the wheel plays the part of a store item: it is locked   *)
(* first, it bounds how many re-spins are bought, it counts the bought.    *)
(*                                                                         *)
(* An item is sold in packs: the limit is compared with the packs asked    *)
(* for, the inventory is credited their units.  (A cosmetic is a limit of  *)
(* one, and one unit, whatever is asked for and paid; the rows of a key,   *)
(* which is inserted anew each time, are counted as one.)                  *)
(***************************************************************************)
EXTENDS Integers, FiniteSetsExt

CONSTANTS
  Session,      \* database transactions that may be open at the same time
  NoSession,    \* the holder of a free row lock
  Key,          \* idempotency keys, as given to grantReward
  Sku,          \* store items, and the wheel's day row
  FreezeSku,    \* the items of FREEZE_SKUS
  MaxFreeze,    \* MAX_FREEZE_STACK
  Limit,        \* purchaseLimit of an item, maxPaidRespinsPerDay of the day row
  Request,      \* what callers may ask for
  AdminTarget,  \* balances an administrator may set
  ProfileChange,\* how a save of the profile may change its balances
  Openings,     \* balances a learner may start with
  Stocked,      \* units of each item the learner has won before
  MaxVersion,   \* bound: nothing begins once the wallet has this version
  MaxSaves      \* bound: saves of the profile beside the ledger

Currency == {"lifetime_xp", "league_xp", "gems", "coins"}
Mirrored == Currency \ {"league_xp"}
Amounts  == [Currency -> Int]
Zero     == [c \in Currency |-> 0]
Kind     == {"grant", "store", "respin", "admin", "prize"}

Add(a, b) == [c \in Currency |-> a[c] + b[c]]

(* A request: the lines it asks for, the line grantReward looks up first,  *)
(* and for a purchase or a prize the item, the packs and their units.      *)
RequestShape ==
  [kind : Kind, key : Key, lines : Amounts, first : Currency,
   sku : Sku, packs : Nat, units : Nat]

(* An item that no request wins.                                           *)
OnlySold(i) == \A r \in Request : r.kind = "prize" => r.sku # i

ASSUME SessionAssumption == NoSession \notin Session
ASSUME RequestAssumption ==
  /\ Request # {}
  /\ Request \subseteq RequestShape
  /\ \A r \in Request : r.lines = Zero \/ r.lines[r.first] # 0
ASSUME BoundAssumption ==
  /\ FreezeSku \subseteq Sku
  /\ MaxFreeze \in Nat /\ MaxVersion \in Nat /\ MaxSaves \in Nat
  /\ Limit \in [Sku -> Nat] /\ Stocked \in [Sku -> Nat]
  /\ \A i \in Sku : Stocked[i] = 0 \/ ~OnlySold(i)
  /\ Openings \subseteq Amounts /\ AdminTarget \subseteq Amounts
  /\ ProfileChange \subseteq Amounts
-----------------------------------------------------------------------------
VARIABLES
  walletExists, wallet, version,  \* the wallets row
  ledger,     \* reward_ledger_entries: amount of the row <<key, currency>>
  probe,      \* keys with a ":probe" row
  profile,    \* the balances copied on the profiles row
  inventory,  \* units in the oldest row of each item (paidSpinsTotal), 0: no row
  beside,     \* units in rows of the item that were inserted beside it
  owner,      \* holder of the wallet row's lock
  itemLock,   \* holder of each store_items row's lock
  rowLock,    \* holder of each inventory row's lock
  pc, req, lines, view, row, columns, stock,  \* each session's counter and locals
  saver,      \* a save of the profile beside the ledger, from its read on
  opening,    \* history: the balances the wallet was created with
  credited,   \* history: times the purchase <<key, currency>> credited its item
  drift       \* history: balances such a save wrote after the last mirror did

db      == <<walletExists, wallet, version, ledger, probe, profile, inventory,
             beside, opening, credited, drift>>
locks   == <<owner, itemLock, rowLock>>
locals  == <<req, lines, view, row, columns, stock>>
session == <<pc, locals>>
vars    == <<db, locks, session, saver>>

AnyRequest == CHOOSE r \in Request : TRUE
NoSave == [at |-> "idle", copy |-> Zero, columns |-> {}, left |-> MaxSaves]

Init ==
  /\ walletExists \in BOOLEAN
  /\ opening \in Openings
  /\ wallet = opening /\ version = 1
  /\ profile = opening
  /\ ledger = [k \in Key |-> Zero]
  /\ probe = {}
  /\ inventory = Stocked /\ beside = [i \in Sku |-> 0]
  /\ owner = NoSession
  /\ itemLock = [i \in Sku |-> NoSession] /\ rowLock = itemLock
  /\ pc = [s \in Session |-> "idle"]
  /\ req = [s \in Session |-> AnyRequest]
  /\ lines = [s \in Session |-> Zero]
  /\ view = [s \in Session |-> Zero]
  /\ row = [s \in Session |-> Zero]
  /\ columns = [s \in Session |-> {}]
  /\ stock = [s \in Session |-> 0]
  /\ saver = NoSave
  /\ credited = [k \in Key |-> Zero]
  /\ drift = {}
-----------------------------------------------------------------------------
(* ensureWallet(manager, userId, true): wait for the row's lock and read   *)
(* the row, or create it from the profile.  A transaction that has created *)
(* the row keeps it, unseen by the others, until it ends: they wait on the *)
(* unique index as they would on the lock.                                 *)
FromProfile == [c \in Currency |-> IF c \in Mirrored THEN profile[c] ELSE 0]

EnsureWalletForUpdate(s) ==
  /\ owner \in {NoSession, s}
  /\ owner' = s
  /\ view' = [view EXCEPT ![s] = IF walletExists THEN wallet
                                 ELSE IF owner = s THEN view[s]
                                 ELSE FromProfile]
  /\ UNCHANGED <<db, itemLock, rowLock, saver>>

(* ensureWallet without the lock: the row is read as last committed.       *)
EnsureWallet(s) ==
  IF walletExists
  THEN /\ view' = [view EXCEPT ![s] = wallet]
       /\ UNCHANGED <<db, locks, saver>>
  ELSE EnsureWalletForUpdate(s)

ReleasedNone(held, s) == held                     \* variant: locks are leaked

Released(held, s) == [i \in Sku |-> IF held[i] = s THEN NoSession ELSE held[i]]

(* The transaction ends: its locks are free, its locals are forgotten.     *)
End(s) ==
  /\ owner' = IF owner = s THEN NoSession ELSE owner
  /\ itemLock' = Released(itemLock, s) /\ rowLock' = Released(rowLock, s)
  /\ pc' = [pc EXCEPT ![s] = "idle"]
  /\ req' = [req EXCEPT ![s] = AnyRequest]
  /\ lines' = [lines EXCEPT ![s] = Zero]
  /\ view' = [view EXCEPT ![s] = Zero]
  /\ row' = [row EXCEPT ![s] = Zero]
  /\ columns' = [columns EXCEPT ![s] = {}]
  /\ stock' = [stock EXCEPT ![s] = 0]
  /\ UNCHANGED saver

(* COMMIT of a transaction that granted nothing: a wallet it created stays.*)
EndEmpty(s) ==
  /\ End(s)
  /\ IF owner = s /\ ~walletExists
     THEN /\ walletExists' = TRUE
          /\ wallet' = view[s] /\ opening' = view[s]
          /\ UNCHANGED <<version, ledger, probe, profile, inventory, beside, credited,
                         drift>>
     ELSE UNCHANGED db

(* ROLLBACK: an exception, a deadlock victim, a lost connection.           *)
Abort(s) ==
  /\ pc[s] # "idle"
  /\ End(s)
  /\ UNCHANGED db
-----------------------------------------------------------------------------
Goto(s, l) == pc' = [pc EXCEPT ![s] = l]

FirstStep ==
  [grant |-> "lookup", store |-> "item", respin |-> "item",
   admin |-> "balance", prize |-> "prize"]

(* An adjustment and a spin have a fresh uuid in their key.                *)
Unused(k) ==
  /\ ledger[k] = Zero /\ k \notin probe
  /\ \A s \in Session : pc[s] # "idle" => req[s].key # k

Begin(s) ==
  /\ pc[s] = "idle"
  /\ version < MaxVersion
  /\ \E r \in Request :
       /\ r.kind \in {"admin", "prize"} => Unused(r.key)
       /\ req' = [req EXCEPT ![s] = r]
       /\ lines' = [lines EXCEPT ![s] = r.lines]
       /\ Goto(s, FirstStep[r.kind])
  /\ UNCHANGED <<db, locks, saver, view, row, columns, stock>>

Owned == [i \in Sku |-> inventory[i] + beside[i]]

FreezeUnits(owned) == MapThenSumSet(LAMBDA i : owned[i], FreezeSku)

(* purchase: lock the item's row, then what the learner owns decides: the  *)
(* limit counts units owned and packs asked for, the freezes units only.   *)
MayOwnMore(r) ==
  /\ Owned[r.sku] + r.packs <= Limit[r.sku]
  /\ r.sku \in FreezeSku => FreezeUnits(Owned) + r.units <= MaxFreeze

LockItemUnlocked(s) ==                            \* variant: no row lock
  /\ pc[s] = "item"
  /\ MayOwnMore(req[s])
  /\ Goto(s, "balance")
  /\ UNCHANGED <<db, locks, saver, locals>>

LockItem(s) ==
  /\ pc[s] = "item"
  /\ itemLock[req[s].sku] = NoSession
  /\ MayOwnMore(req[s])
  /\ itemLock' = [itemLock EXCEPT ![req[s].sku] = s]
  /\ Goto(s, "balance")
  /\ UNCHANGED <<db, owner, rowLock, saver, locals>>

RefuseItem(s) ==
  /\ pc[s] = "item"
  /\ itemLock[req[s].sku] = NoSession
  /\ ~MayOwnMore(req[s])
  /\ End(s)
  /\ UNCHANGED db

(* purchase: the wallet's row is locked and must cover the price.          *)
Affordable(s, w) == \A c \in Currency : lines[s][c] < 0 => w[c] + lines[s][c] >= 0

CheckBalanceRacy(s) ==                            \* variant: no row lock
  /\ pc[s] = "balance" /\ req[s].kind = "store"
  /\ EnsureWallet(s)
  /\ Goto(s, IF Affordable(s, view'[s]) THEN "lookup" ELSE "refuse")
  /\ UNCHANGED <<req, lines, row, columns, stock>>

CheckBalance(s) ==
  /\ pc[s] = "balance" /\ req[s].kind = "store"
  /\ EnsureWalletForUpdate(s)
  /\ Goto(s, IF Affordable(s, view'[s]) THEN "lookup" ELSE "refuse")
  /\ UNCHANGED <<req, lines, row, columns, stock>>

(* purchaseRespin: the balance is read without the lock.                   *)
CheckBalanceUnlocked(s) ==
  /\ pc[s] = "balance" /\ req[s].kind = "respin"
  /\ EnsureWallet(s)
  /\ Goto(s, IF Affordable(s, view'[s]) THEN "lookup" ELSE "refuse")
  /\ UNCHANGED <<req, lines, row, columns, stock>>

Refuse(s) ==
  /\ pc[s] = "refuse"
  /\ End(s)
  /\ UNCHANGED db

(* adminSetBalances: the lines are what is missing to the target; league   *)
(* XP is not set.                                                          *)
AdminSet(s) ==
  /\ pc[s] = "balance" /\ req[s].kind = "admin"
  /\ EnsureWalletForUpdate(s)
  /\ \E t \in AdminTarget :
       LET d == [c \in Currency |-> IF c \in Mirrored THEN t[c] - view'[s][c] ELSE 0]
       IN /\ lines' = [lines EXCEPT ![s] = d]
          /\ Goto(s, IF d = Zero THEN "done" ELSE "grant")
  /\ UNCHANGED <<req, row, columns, stock>>

(* awardReward, before it grants, and creditInventory, after the grant:    *)
(* read the learner's row of the item, add the units, and save.  The       *)
(* UPDATE waits for the row's lock; without a row, one is inserted.        *)
ReadStock(s) ==
  /\ pc[s] \in {"prize", "stock"}
  /\ stock' = [stock EXCEPT ![s] = inventory[req[s].sku]]
  /\ Goto(s, IF pc[s] = "prize" THEN "hand" ELSE "credit")
  /\ UNCHANGED <<db, locks, saver, req, lines, view, row, columns>>

CreditItem(s) ==
  /\ pc[s] \in {"hand", "credit"}
  /\ IF stock[s] = 0
     THEN UNCHANGED rowLock
     ELSE /\ rowLock[req[s].sku] = NoSession
          /\ rowLock' = [rowLock EXCEPT ![req[s].sku] = s]
  /\ Goto(s, IF pc[s] = "hand" THEN "lookup" ELSE "commit")
  /\ UNCHANGED <<db, owner, itemLock, saver, locals>>
-----------------------------------------------------------------------------
(* grantReward, first half: a row of the first line that is not zero, or,  *)
(* without such a line, the row of the XP line, makes this a replay.       *)
LookupKey(s) == IF lines[s] = Zero THEN "lifetime_xp" ELSE req[s].first

LookupNothing(s) ==                               \* variant: replays unseen
  /\ pc[s] = "lookup"
  /\ Goto(s, "grant")
  /\ UNCHANGED <<db, locks, saver, locals>>

Lookup(s) ==
  /\ pc[s] = "lookup"
  /\ Goto(s, IF ledger[req[s].key][LookupKey(s)] # 0 THEN "done" ELSE "grant")
  /\ UNCHANGED <<db, locks, saver, locals>>

Done(s) ==
  /\ pc[s] = "done"
  /\ EndEmpty(s)

(* grantReward, second half: take the wallet's lock, ...                   *)
LockWalletRacy(s) ==                              \* variant: no row lock
  /\ pc[s] = "grant"
  /\ EnsureWallet(s)
  /\ Goto(s, "apply")
  /\ UNCHANGED <<req, lines, row, columns, stock>>

LockWallet(s) ==
  /\ pc[s] = "grant"
  /\ EnsureWalletForUpdate(s)
  /\ Goto(s, "apply")
  /\ UNCHANGED <<req, lines, row, columns, stock>>

(* ... insert the rows that are not there yet, and mirror the wallet on    *)
(* the profile: its save updates the balances in which the row it selects  *)
(* differs.  A purchase then credits its item, ...                         *)
Purchase(s) == req[s].kind \in {"store", "respin"}

AllRows(s) == lines[s]                            \* variant: no look for a row

NewRows(s) == [c \in Currency |->
                 IF ledger[req[s].key][c] = 0 THEN lines[s][c] ELSE 0]

Differing(w) == {c \in Mirrored : w[c] # profile[c]}

InsertRows(s) ==
  /\ pc[s] = "apply"
  /\ row' = [row EXCEPT ![s] = NewRows(s)]
  /\ columns' = [columns EXCEPT ![s] = Differing(Add(view[s], NewRows(s)))]
  /\ Goto(s, IF Purchase(s) THEN "stock" ELSE "commit")
  /\ UNCHANGED <<db, locks, saver, req, lines, view, stock>>

(* ... and COMMIT publishes rows, wallet, profile and inventory together.  *)
PatchedXp(cs, w) ==                               \* variant: coins, gems left out
  [profile EXCEPT !["lifetime_xp"] = IF "lifetime_xp" \in cs THEN w["lifetime_xp"] ELSE @]

Patched(cs, w) == [c \in Currency |-> IF c \in cs THEN w[c] ELSE profile[c]]

Removed(s) == stock[s] - req[s].units             \* variant: wrong sign

Restocked(s) == stock[s] + req[s].units

Credits(s) == Purchase(s) \/ req[s].kind = "prize"

(* A row inserted by one who found none may be the second.                 *)
Inserts(s) == stock[s] = 0 /\ inventory[req[s].sku] # 0

Commit(s) ==
  LET r == req[s]
      w == Add(view[s], row[s])
  IN /\ pc[s] = "commit"
     /\ End(s)
     /\ walletExists' = TRUE
     /\ opening' = IF walletExists THEN opening ELSE view[s]
     /\ wallet' = w
     /\ version' = version + 1
     /\ ledger' = [ledger EXCEPT ![r.key] = Add(@, row[s])]
     /\ probe' = IF lines[s] = Zero THEN probe \union {r.key} ELSE probe
     /\ profile' = Patched(columns[s], w)
     /\ drift' = drift \ columns[s]
     /\ inventory' = IF Credits(s) /\ ~Inserts(s)
                     THEN [inventory EXCEPT ![r.sku] = Restocked(s)]
                     ELSE inventory
     /\ beside' = IF Credits(s) /\ Inserts(s)
                  THEN [beside EXCEPT ![r.sku] = @ + r.units]
                  ELSE beside
     /\ credited' = IF Purchase(s) THEN [credited EXCEPT ![r.key][r.first] = @ + 1]
                    ELSE credited
-----------------------------------------------------------------------------
(* Beside the ledger and its locks: applyRewards (a league's prize) and    *)
(* the stakes of a battle change the balances read, other writers of the   *)
(* row none.                                                               *)
ReadProfile ==
  /\ saver.at = "idle" /\ saver.left > 0 /\ version < MaxVersion
  /\ \E d \in ProfileChange :
       saver' = [saver EXCEPT !.at = "read", !.copy = Add(profile, d), !.left = @ - 1]
  /\ UNCHANGED <<db, locks, session>>

CompareProfile ==
  /\ saver.at = "read"
  /\ saver' = [saver EXCEPT !.at = "compared", !.columns = Differing(saver.copy)]
  /\ UNCHANGED <<db, locks, session>>

SaveProfile ==
  /\ saver.at = "compared"
  /\ profile' = Patched(saver.columns, saver.copy)
  /\ drift' = drift \union saver.columns
  /\ saver' = [NoSave EXCEPT !.left = saver.left]
  /\ UNCHANGED <<walletExists, wallet, version, ledger, probe, inventory, beside,
                 opening, credited, locks, session>>
-----------------------------------------------------------------------------
(* Who waits for whose row.  PostgreSQL looks for a cycle after a second   *)
(* and aborts one of its transactions.                                     *)
Awaits(s, t) ==
  \/ pc[s] = "item" /\ itemLock[req[s].sku] = t
  \/ pc[s] \in {"hand", "credit"} /\ stock[s] # 0 /\ rowLock[req[s].sku] = t
  \/ owner = t /\ \/ pc[s] = "grant"
                  \/ pc[s] = "balance" /\ (walletExists => req[s].kind # "respin")

Deadlocked(s) ==
  \E D \in SUBSET Session : s \in D /\ \A t \in D : \E u \in D \ {t} : Awaits(t, u)

BreakDeadlock == \E s \in Session : Deadlocked(s) /\ Abort(s)
-----------------------------------------------------------------------------
Step(s) ==
  \/ LockItem(s) \/ RefuseItem(s)
  \/ CheckBalance(s) \/ CheckBalanceUnlocked(s) \/ Refuse(s)
  \/ AdminSet(s) \/ ReadStock(s) \/ CreditItem(s)
  \/ Lookup(s) \/ Done(s)
  \/ LockWallet(s) \/ InsertRows(s) \/ Commit(s)

Next ==
  \/ \E s \in Session : Begin(s) \/ Step(s) \/ Abort(s)
  \/ ReadProfile \/ CompareProfile \/ SaveProfile

Spec == Init /\ [][Next]_vars

(* PostgreSQL grants a row lock in the order of the requests: a session    *)
(* whose lock is free again and again gets it; and it breaks a deadlock.   *)
Fairness == (\A s \in Session : SF_vars(Step(s))) /\ WF_vars(BreakDeadlock)
FairSpec == Spec /\ Fairness
-----------------------------------------------------------------------------
Label == {"idle", "item", "balance", "refuse", "prize", "hand", "lookup", "done",
          "grant", "apply", "stock", "credit", "commit"}

(* Every variable keeps the shape of the rows and locals it stands for.    *)
TypeOK ==
  /\ walletExists \in BOOLEAN /\ drift \subseteq Mirrored
  /\ wallet \in Amounts /\ profile \in Amounts /\ opening \in Amounts
  /\ version \in Nat
  /\ ledger \in [Key -> Amounts] /\ probe \subseteq Key
  /\ inventory \in [Sku -> Nat] /\ beside \in [Sku -> Nat]
  /\ credited \in [Key -> [Currency -> Nat]]
  /\ owner \in Session \union {NoSession}
  /\ itemLock \in [Sku -> Session \union {NoSession}]
  /\ rowLock \in [Sku -> Session \union {NoSession}]
  /\ pc \in [Session -> Label]
  /\ req \in [Session -> Request]
  /\ lines \in [Session -> Amounts] /\ view \in [Session -> Amounts]
  /\ row \in [Session -> Amounts] /\ stock \in [Session -> Nat]
  /\ columns \in [Session -> SUBSET Mirrored]
  /\ saver \in [at : {"idle", "read", "compared"}, copy : Amounts,
                columns : SUBSET Mirrored, left : Nat]

(* No two spends together take more than the wallet holds.                 *)
NonNegative == walletExists => \A c \in Currency : wallet[c] >= 0

(* A store purchase that is about to commit is covered by the balance it   *)
(* is taken from, whatever committed since it looked at the balance.       *)
PurchaseCovered ==
  walletExists => \A s \in Session :
    pc[s] = "commit" /\ req[s].kind = "store" =>
      \A c \in Currency : row[s][c] < 0 => wallet[c] + row[s][c] >= 0

(* A priced purchase credits its item exactly when its spend row exists:   *)
(* a repeated or concurrent call with its key neither pays nor credits     *)
(* twice, and an aborted one does neither.                                 *)
PaidOnce ==
  \A r \in Request :
    r.kind = "store" /\ r.lines # Zero =>
      credited[r.key][r.first] = IF ledger[r.key][r.first] = 0 THEN 0 ELSE 1

(* However many purchases run at once: the limit of an item that is only   *)
(* sold is exceeded at most by what the last pack holds beyond one unit    *)
(* (not at all by single units, and not by the paid re-spins of a day),    *)
(* and the freezes of one item never exceed MAX_FREEZE_STACK.              *)
LimitHeld ==
  \A i \in Sku : OnlySold(i) =>
    \/ Owned[i] = 0
    \/ \E r \in Request :
         /\ r.kind \in {"store", "respin"} /\ r.sku = i
         /\ Owned[i] <= Limit[i] + r.units - r.packs
         /\ i \in FreezeSku => Owned[i] <= MaxFreeze

(* A balance on the profile is the wallet's, unless a save beside the      *)
(* ledger wrote that column after the last mirror that wrote it: what      *)
(* commits between the mirror's select and its update is not lost sight of *)
ProfileMirrored ==
  walletExists => \A c \in Mirrored \ drift : profile[c] = wallet[c]

(* Double entry: a step changes the wallet by exactly the rows it inserts, *)
(* all under one key; a row that exists is never altered or removed.       *)
Entry ==
  walletExists =>
    \/ wallet' = wallet /\ ledger' = ledger
    \/ \E k \in Key : \A c \in Currency :
         /\ wallet'[c] - wallet[c] = ledger'[k][c] - ledger[k][c]
         /\ ledger[k][c] # 0 => ledger'[k][c] = ledger[k][c]
         /\ \A j \in Key \ {k} : ledger'[j] = ledger[j]
DoubleEntry == [][Entry]_vars

(* Every call is answered, by an error perhaps: a purchase holds item and  *)
(* wallet while it waits for the inventory row, a won prize holds that row *)
(* while it waits for the wallet, and no lock outlives its transaction.    *)
EveryCallEnds == \A s \in Session : pc[s] # "idle" ~> pc[s] = "idle"
=============================================================================
