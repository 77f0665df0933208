------------------------ MODULE RewardLedger_proofs ------------------------
(***************************************************************************)
(* Proofs about RewardLedger, for every set of sessions, keys, items and   *)
(* requests.                                                               *)
(***************************************************************************)
EXTENDS RewardLedger, TLAPS

LEMMA AddType == \A a, b \in Amounts : Add(a, b) \in Amounts
  BY DEF Add, Amounts

LEMMA ZeroType == Zero \in Amounts
  BY DEF Zero, Amounts

LEMMA RequestType ==
  /\ AnyRequest \in Request
  /\ \A r \in Request : /\ r.kind \in Kind /\ r.key \in Key /\ r.lines \in Amounts
                        /\ r.first \in Currency /\ r.sku \in Sku
                        /\ r.units \in Nat /\ r.packs \in Nat
  BY RequestAssumption DEF AnyRequest, RequestShape

LEMMA FromProfileType == TypeOK => FromProfile \in Amounts
  BY DEF TypeOK, FromProfile, Amounts, Mirrored

LEMMA EndType ==
  ASSUME TypeOK, NEW s \in Session, End(s)
  PROVE  /\ owner' \in Session \union {NoSession}
         /\ itemLock' \in [Sku -> Session \union {NoSession}]
         /\ rowLock' \in [Sku -> Session \union {NoSession}]
         /\ pc' \in [Session -> Label]
         /\ req' \in [Session -> Request]
         /\ lines' \in [Session -> Amounts] /\ view' \in [Session -> Amounts]
         /\ row' \in [Session -> Amounts] /\ stock' \in [Session -> Nat]
         /\ columns' \in [Session -> SUBSET Mirrored] /\ saver' = saver
  BY ZeroType, RequestType DEF TypeOK, End, Released, Label

LEMMA WalletForUpdateType ==
  ASSUME TypeOK, NEW s \in Session, EnsureWalletForUpdate(s)
  PROVE  view' \in [Session -> Amounts] /\ owner' \in Session \union {NoSession}
  BY FromProfileType DEF TypeOK, EnsureWalletForUpdate

(* Type correctness of the ledger: every reachable state.                  *)
LEMMA InitType == Init => TypeOK
<1> SUFFICES ASSUME Init PROVE TypeOK  OBVIOUS
<1>1. Zero \in [Currency -> Nat]  BY DEF Zero
<1>2. saver \in [at : {"idle", "read", "compared"}, copy : Amounts,
                columns : SUBSET Mirrored, left : Nat]
  BY ZeroType, BoundAssumption DEF Init, NoSave
<1>3. opening \in Amounts /\ inventory \in [Sku -> Nat]
  BY BoundAssumption DEF Init
<1> QED BY <1>1, <1>2, <1>3, ZeroType, RequestType DEF Init, TypeOK, Label

LEMMA StepType ==
  ASSUME TypeOK, [Next]_vars
  PROVE  TypeOK'
<1>1. ASSUME NEW s \in Session, Begin(s) PROVE TypeOK'
  <2>1. PICK r \in Request : /\ req' = [req EXCEPT ![s] = r]
                             /\ lines' = [lines EXCEPT ![s] = r.lines]
                             /\ Goto(s, FirstStep[r.kind])
    BY <1>1 DEF Begin
  <2>2. FirstStep[r.kind] \in {"lookup", "item", "balance", "prize"}
    BY RequestType DEF FirstStep, Kind
  <2> QED BY <1>1, <2>1, <2>2, RequestType
      DEF Begin, TypeOK, Goto, db, locks, Label
<1>2. ASSUME NEW s \in Session, LockItem(s) PROVE TypeOK'
  BY <1>2 DEF LockItem, TypeOK, Goto, db, locals, Label
<1>3. ASSUME NEW s \in Session, RefuseItem(s) \/ Refuse(s) \/ Abort(s) PROVE TypeOK'
  <2>1. End(s) /\ UNCHANGED db
    BY <1>3 DEF RefuseItem, Refuse, Abort
  <2> QED BY <2>1, EndType DEF TypeOK, db
<1>4. ASSUME NEW s \in Session, CheckBalance(s) PROVE TypeOK'
  <2>1. EnsureWalletForUpdate(s)  BY <1>4 DEF CheckBalance
  <2> QED BY <1>4, <2>1, WalletForUpdateType
      DEF CheckBalance, EnsureWalletForUpdate, TypeOK, Goto, db, Label
<1>5. ASSUME NEW s \in Session, CheckBalanceUnlocked(s) PROVE TypeOK'
  <2>1. CASE walletExists
    BY <1>5, <2>1 DEF CheckBalanceUnlocked, EnsureWallet, TypeOK, Goto, db, locks, Label
  <2>2. CASE ~walletExists
    <3>1. EnsureWalletForUpdate(s)  BY <1>5, <2>2 DEF CheckBalanceUnlocked, EnsureWallet
    <3> QED BY <1>5, <3>1, WalletForUpdateType
        DEF CheckBalanceUnlocked, EnsureWalletForUpdate, TypeOK, Goto, db, Label
  <2> QED BY <2>1, <2>2
<1>6. ASSUME NEW s \in Session, AdminSet(s) PROVE TypeOK'
  <2>1. EnsureWalletForUpdate(s)  BY <1>6 DEF AdminSet
  <2>2. PICK t \in AdminTarget :
          LET d == [c \in Currency |-> IF c \in Mirrored THEN t[c] - view'[s][c] ELSE 0]
          IN /\ lines' = [lines EXCEPT ![s] = d]
             /\ Goto(s, IF d = Zero THEN "done" ELSE "grant")
    BY <1>6 DEF AdminSet
  <2>3. [c \in Currency |-> IF c \in Mirrored THEN t[c] - view'[s][c] ELSE 0] \in Amounts
    BY <2>1, WalletForUpdateType, BoundAssumption DEF Amounts, Mirrored
  <2> QED BY <1>6, <2>1, <2>2, <2>3, WalletForUpdateType
      DEF AdminSet, EnsureWalletForUpdate, TypeOK, Goto, db, Label
<1>7. ASSUME NEW s \in Session, ReadStock(s) PROVE TypeOK'
  <2>1. inventory[req[s].sku] \in Nat  BY RequestType DEF TypeOK
  <2> QED BY <1>7, <2>1 DEF ReadStock, TypeOK, Goto, db, locks, Label
<1>16. ASSUME NEW s \in Session, CreditItem(s) PROVE TypeOK'
  <2>1. rowLock' \in [Sku -> Session \union {NoSession}]
    BY <1>16 DEF CreditItem, TypeOK
  <2> QED BY <1>16, <2>1 DEF CreditItem, TypeOK, Goto, db, locals, Label
<1>8. ASSUME NEW s \in Session, Lookup(s) PROVE TypeOK'
  BY <1>8 DEF Lookup, TypeOK, Goto, db, locks, locals, Label
<1>9. ASSUME NEW s \in Session, Done(s) PROVE TypeOK'
  <2>1. End(s)  BY <1>9 DEF Done, EndEmpty
  <2>2. view[s] \in Amounts  BY DEF TypeOK
  <2> QED BY <1>9, <2>1, <2>2, EndType DEF Done, EndEmpty, TypeOK, db
<1>10. ASSUME NEW s \in Session, LockWallet(s) PROVE TypeOK'
  <2>1. EnsureWalletForUpdate(s)  BY <1>10 DEF LockWallet
  <2> QED BY <1>10, <2>1, WalletForUpdateType
      DEF LockWallet, EnsureWalletForUpdate, TypeOK, Goto, db, Label
<1>11. ASSUME NEW s \in Session, InsertRows(s) PROVE TypeOK'
  <2>1. NewRows(s) \in Amounts  BY DEF TypeOK, NewRows, Amounts
  <2>2. Differing(Add(view[s], NewRows(s))) \subseteq Mirrored  BY DEF Differing
  <2> QED BY <1>11, <2>1, <2>2 DEF InsertRows, TypeOK, Goto, db, locks, Label
<1>12. ASSUME NEW s \in Session, Commit(s) PROVE TypeOK'
  <2> DEFINE r == req[s]
  <2>1. End(s)  BY <1>12 DEF Commit
  <2>2. r.key \in Key /\ r.sku \in Sku /\ r.units \in Nat /\ r.first \in Currency
    BY RequestType DEF TypeOK
  <2>3. /\ view[s] \in Amounts /\ row[s] \in Amounts
        /\ ledger[r.key] \in Amounts
        /\ credited[r.key] \in [Currency -> Nat]
        /\ stock[s] \in Nat
    BY <2>2 DEF TypeOK
  <2>4. Add(view[s], row[s]) \in Amounts /\ Add(ledger[r.key], row[s]) \in Amounts
    BY <2>3, AddType
  <2>5. Patched(columns[s], Add(view[s], row[s])) \in Amounts
    BY <2>4 DEF Patched, TypeOK, Amounts
  <2>a. /\ walletExists' = TRUE /\ drift' = drift \ columns[s] /\ version' = version + 1
        /\ opening' = IF walletExists THEN opening ELSE view[s]
        /\ wallet' = Add(view[s], row[s])
        /\ profile' = Patched(columns[s], Add(view[s], row[s]))
        /\ probe' = IF lines[s] = Zero THEN probe \union {r.key} ELSE probe
    BY <1>12 DEF Commit
  <2>b. walletExists' \in BOOLEAN /\ drift' \subseteq Mirrored
    BY <2>a DEF TypeOK
  <2>c. opening' \in Amounts
    BY <2>a, <2>3 DEF TypeOK
  <2>d. probe' \subseteq Key
    BY <2>a, <2>2 DEF TypeOK
  <2>6. version' \in Nat /\ wallet' \in Amounts /\ profile' \in Amounts
    BY <2>a, <2>4, <2>5 DEF TypeOK
  <2>7. ledger' \in [Key -> Amounts]
    BY <1>12, <2>2, <2>4 DEF Commit, TypeOK
  <2>8. inventory' \in [Sku -> Nat] /\ beside' \in [Sku -> Nat]
    BY <1>12, <2>2, <2>3 DEF Commit, TypeOK, Restocked
  <2>9. credited' \in [Key -> [Currency -> Nat]]
    BY <1>12, <2>2, <2>3 DEF Commit, TypeOK
  <2> QED BY <2>1, <2>b, <2>c, <2>d, <2>6, <2>7, <2>8, <2>9, EndType DEF TypeOK
<1>13. CASE ReadProfile
  <2>1. PICK d \in ProfileChange :
          saver' = [saver EXCEPT !.at = "read", !.copy = Add(profile, d), !.left = @ - 1]
    BY <1>13 DEF ReadProfile
  <2>2. d \in Amounts  BY BoundAssumption
  <2>3. Add(profile, d) \in Amounts  BY <2>2, AddType DEF TypeOK
  <2>4. saver' \in [at : {"idle", "read", "compared"}, copy : Amounts,
                    columns : SUBSET Mirrored, left : Nat]
    <3>1. saver.left - 1 \in Nat  BY <1>13 DEF ReadProfile, TypeOK
    <3> QED BY <2>1, <2>3, <3>1 DEF TypeOK
  <2> QED BY <1>13, <2>4 DEF ReadProfile, TypeOK, db, locks, locals, session
<1>14. CASE CompareProfile
  <2>1. Differing(saver.copy) \subseteq Mirrored  BY DEF Differing
  <2>2. saver' \in [at : {"idle", "read", "compared"}, copy : Amounts,
                    columns : SUBSET Mirrored, left : Nat]
    BY <1>14, <2>1 DEF CompareProfile, TypeOK
  <2> QED BY <1>14, <2>2 DEF CompareProfile, TypeOK, db, locks, locals, session
<1>17. CASE SaveProfile
  <2>1. /\ profile' \in Amounts /\ drift' \subseteq Mirrored
        /\ saver' \in [at : {"idle", "read", "compared"}, copy : Amounts,
                       columns : SUBSET Mirrored, left : Nat]
    BY <1>17, ZeroType, BoundAssumption
    DEF SaveProfile, Patched, NoSave, TypeOK, Amounts
  <2> QED BY <1>17, <2>1 DEF SaveProfile, TypeOK, locks, locals, session
<1>15. CASE UNCHANGED vars
  BY <1>15 DEF TypeOK, vars, db, locks, locals, session
<1> QED
  BY <1>1, <1>2, <1>3, <1>4, <1>5, <1>6, <1>7, <1>8, <1>9, <1>10, <1>11, <1>12,
     <1>13, <1>14, <1>15, <1>16, <1>17 DEF Next, Step

(* Every variable keeps the shape of the rows and locals it stands for.    *)
THEOREM TypeCorrect == Spec => []TypeOK
  BY InitType, StepType, PTL DEF Spec
-----------------------------------------------------------------------------
(***************************************************************************)
(* The lock discipline.  Rows and wallet are only written by the holder of *)
(* the wallet's row lock, what the holder has read of the wallet is still  *)
(* the wallet, and the rows it is about to insert are still missing.       *)
(***************************************************************************)
Writing(s) == pc[s] \in {"apply", "stock", "credit", "commit"}
Inserted(s) == pc[s] \in {"stock", "credit", "commit"}

Exclusive == \A s \in Session : Writing(s) => owner = s
Fresh     == \A s \in Session : owner = s /\ walletExists => view[s] = wallet
RowsNew   == \A s \in Session : Inserted(s) => row[s] = NewRows(s)

LockInv == Exclusive /\ Fresh /\ RowsNew

LEMMA EndLocks ==
  ASSUME TypeOK, NEW s \in Session, End(s)
  PROVE  /\ owner' # s
         /\ owner # s => owner' = owner
         /\ owner' \in {owner, NoSession}
         /\ pc'[s] = "idle"
         /\ \A t \in Session \ {s} : /\ pc'[t] = pc[t] /\ req'[t] = req[t]
                                     /\ lines'[t] = lines[t] /\ view'[t] = view[t]
                                     /\ row'[t] = row[t]
  BY SessionAssumption DEF End, TypeOK

LEMMA InitLock == Init => LockInv
  BY SessionAssumption DEF Init, LockInv, Exclusive, Fresh, RowsNew, Writing, Inserted

(* Taking the lock, or being refused it, keeps the discipline.             *)
LEMMA AcquireLock ==
  ASSUME TypeOK, LockInv, NEW s \in Session, EnsureWalletForUpdate(s),
         NEW l, l \notin {"stock", "credit", "commit"}, ~Writing(s), Goto(s, l),
         row' = row, req' = req,
         \A t \in Session \ {s} : lines'[t] = lines[t]
  PROVE  LockInv'
<1>1. owner' = s /\ owner \in {NoSession, s} /\ UNCHANGED db
  BY DEF EnsureWalletForUpdate
<1>2. pc'[s] = l /\ \A t \in Session \ {s} : pc'[t] = pc[t] /\ view'[t] = view[t]
  BY DEF Goto, TypeOK, EnsureWalletForUpdate
<1>3. \A t \in Session \ {s} : ~Writing(t)
  BY <1>1, SessionAssumption DEF LockInv, Exclusive
<1>4. Exclusive'
  BY <1>1, <1>2, <1>3 DEF Exclusive, Writing
<1>5. Fresh'
  BY <1>1 DEF Fresh, EnsureWalletForUpdate, TypeOK, db
<1>6. RowsNew'
  BY <1>2, <1>3 DEF RowsNew, Writing, Inserted
<1> QED BY <1>4, <1>5, <1>6 DEF LockInv

(* Ending a transaction keeps it, if the wallet and the ledger stay.       *)
LEMMA EndLock ==
  ASSUME TypeOK, LockInv, NEW s \in Session, End(s), UNCHANGED <<walletExists, wallet, ledger>>
  PROVE  LockInv'
<1>0. /\ owner' # s
      /\ owner # s => owner' = owner
      /\ owner' \in {owner, NoSession}
      /\ pc'[s] = "idle"
      /\ \A t \in Session \ {s} : /\ pc'[t] = pc[t] /\ req'[t] = req[t]
                                  /\ lines'[t] = lines[t] /\ view'[t] = view[t]
                                  /\ row'[t] = row[t]
  BY EndLocks
<1>1. Exclusive'
  BY <1>0, SessionAssumption DEF LockInv, Exclusive, Writing
<1>2. Fresh'
  BY <1>0, SessionAssumption DEF LockInv, Fresh
<1>3. RowsNew'
  BY <1>0 DEF LockInv, RowsNew, NewRows, Inserted
<1> QED BY <1>1, <1>2, <1>3 DEF LockInv

(* A step that leaves the locks, the wallet and the ledger, and does not   *)
(* move into the critical section, keeps it.                               *)
LEMMA QuietLock ==
  ASSUME TypeOK, LockInv, NEW s \in Session, NEW l, Goto(s, l),
         l \notin {"apply", "stock", "credit", "commit"},
         UNCHANGED <<walletExists, wallet, ledger, owner, view, row>>,
         \A t \in Session \ {s} : req'[t] = req[t] /\ lines'[t] = lines[t]
  PROVE  LockInv'
<1>1. pc'[s] = l /\ \A t \in Session \ {s} : pc'[t] = pc[t]
  BY DEF Goto, TypeOK
<1>2. Exclusive' BY <1>1 DEF LockInv, Exclusive, Writing
<1>3. Fresh'     BY DEF LockInv, Fresh
<1>4. RowsNew'   BY <1>1 DEF LockInv, RowsNew, NewRows, Inserted
<1> QED BY <1>2, <1>3, <1>4 DEF LockInv

LEMMA StepLock ==
  ASSUME TypeOK, LockInv, [Next]_vars
  PROVE  LockInv'
<1>1. ASSUME NEW s \in Session, Begin(s) PROVE LockInv'
  <2>1. PICK r \in Request : /\ req' = [req EXCEPT ![s] = r]
                             /\ lines' = [lines EXCEPT ![s] = r.lines]
                             /\ Goto(s, FirstStep[r.kind])
    BY <1>1 DEF Begin
  <2>2. FirstStep[r.kind] \notin {"apply", "stock", "credit", "commit"}
    BY RequestType DEF FirstStep, Kind
  <2>3. \A t \in Session \ {s} : req'[t] = req[t] /\ lines'[t] = lines[t]
    BY <2>1 DEF TypeOK
  <2> QED BY <1>1, <2>1, <2>2, <2>3, QuietLock DEF Begin, db, locks
<1>2. ASSUME NEW s \in Session, LockItem(s) PROVE LockInv'
  BY <1>2, QuietLock DEF LockItem, db, locals
<1>3. ASSUME NEW s \in Session, RefuseItem(s) \/ Refuse(s) \/ Abort(s) PROVE LockInv'
  BY <1>3, EndLock DEF RefuseItem, Refuse, Abort, db
<1>4. ASSUME NEW s \in Session, CheckBalance(s) PROVE LockInv'
  <2> DEFINE l == IF Affordable(s, view'[s]) THEN "lookup" ELSE "refuse"
  <2>1. l \notin {"stock", "credit", "commit"} /\ Goto(s, l) /\ ~Writing(s)
    BY <1>4 DEF CheckBalance, Writing
  <2> HIDE DEF l
  <2> QED BY <1>4, <2>1, AcquireLock DEF CheckBalance
<1>5. ASSUME NEW s \in Session, CheckBalanceUnlocked(s) PROVE LockInv'
  <2> DEFINE l == IF Affordable(s, view'[s]) THEN "lookup" ELSE "refuse"
  <2>1. l \notin {"apply", "stock", "credit", "commit"} /\ Goto(s, l) /\ ~Writing(s)
    BY <1>5 DEF CheckBalanceUnlocked, Writing
  <2> HIDE DEF l
  <2>2. CASE walletExists
    <3>1. /\ view' = [view EXCEPT ![s] = wallet]
          /\ UNCHANGED <<walletExists, wallet, ledger, owner, row, req, lines>>
      BY <1>5, <2>2 DEF CheckBalanceUnlocked, EnsureWallet, db, locks
    <3>2. pc'[s] = l /\ \A t \in Session \ {s} : pc'[t] = pc[t] /\ view'[t] = view[t]
      BY <2>1, <3>1 DEF Goto, TypeOK
    <3>3. Exclusive' BY <2>1, <3>1, <3>2 DEF LockInv, Exclusive, Writing
    <3>4. Fresh'     BY <3>1, <3>2 DEF LockInv, Fresh, TypeOK
    <3>5. RowsNew'   BY <2>1, <3>1, <3>2 DEF LockInv, RowsNew, NewRows, Inserted
    <3> QED BY <3>3, <3>4, <3>5 DEF LockInv
  <2>3. CASE ~walletExists
    <3>1. EnsureWalletForUpdate(s)  BY <1>5, <2>3 DEF CheckBalanceUnlocked, EnsureWallet
    <3> QED BY <1>5, <2>1, <3>1, AcquireLock DEF CheckBalanceUnlocked
  <2> QED BY <2>2, <2>3
<1>6. ASSUME NEW s \in Session, AdminSet(s) PROVE LockInv'
  <2>1. PICK d : /\ lines' = [lines EXCEPT ![s] = d]
                 /\ Goto(s, IF d = Zero THEN "done" ELSE "grant")
    BY <1>6 DEF AdminSet
  <2> DEFINE l == IF d = Zero THEN "done" ELSE "grant"
  <2>2. l \notin {"stock", "credit", "commit"} /\ Goto(s, l) /\ ~Writing(s)
    BY <1>6, <2>1 DEF AdminSet, Writing
  <2>3. \A t \in Session \ {s} : lines'[t] = lines[t]
    BY <2>1 DEF TypeOK
  <2> HIDE DEF l
  <2> QED BY <1>6, <2>2, <2>3, AcquireLock DEF AdminSet
<1>7. ASSUME NEW s \in Session, ReadStock(s) \/ CreditItem(s) PROVE LockInv'
  <2>1. PICK l : Goto(s, l) /\ (l \in {"credit", "commit"} => Inserted(s))
                 /\ l \notin {"apply", "stock"}
    BY <1>7 DEF ReadStock, CreditItem, Inserted
  <2>2. UNCHANGED <<walletExists, wallet, ledger, owner, view, row, req, lines>>
    BY <1>7 DEF ReadStock, CreditItem, db, locks, locals
  <2>3. pc'[s] = l /\ \A t \in Session \ {s} : pc'[t] = pc[t]
    BY <2>1 DEF Goto, TypeOK
  <2>4. Exclusive'  BY <2>1, <2>2, <2>3 DEF LockInv, Exclusive, Writing, Inserted
  <2>5. Fresh'      BY <2>2 DEF LockInv, Fresh
  <2>6. RowsNew'    BY <2>1, <2>2, <2>3 DEF LockInv, RowsNew, NewRows, Inserted
  <2> QED BY <2>4, <2>5, <2>6 DEF LockInv
<1>8. ASSUME NEW s \in Session, Lookup(s) PROVE LockInv'
  <2> DEFINE l == IF ledger[req[s].key][LookupKey(s)] # 0 THEN "done" ELSE "grant"
  <2>1. l \notin {"apply", "stock", "credit", "commit"} /\ Goto(s, l)
    BY <1>8 DEF Lookup
  <2> HIDE DEF l
  <2> QED BY <1>8, <2>1, QuietLock DEF Lookup, db, locks, locals
<1>9. ASSUME NEW s \in Session, Done(s) PROVE LockInv'
  <2>1. End(s) BY <1>9 DEF Done, EndEmpty
  <2>2. CASE owner = s /\ ~walletExists
    <3>1. owner' = NoSession /\ UNCHANGED ledger
      BY <1>9, <2>1, <2>2 DEF Done, EndEmpty, End
    <3>2. \A t \in Session : ~Writing(t)'
      BY <2>1, <2>2, EndLocks DEF LockInv, Exclusive, Writing
    <3> QED BY <3>1, <3>2, SessionAssumption
      DEF LockInv, Exclusive, Fresh, RowsNew, Writing, Inserted
  <2>3. CASE ~(owner = s /\ ~walletExists)
    BY <1>9, <2>1, <2>3, EndLock DEF Done, EndEmpty, db
  <2> QED BY <2>2, <2>3
<1>10. ASSUME NEW s \in Session, LockWallet(s) PROVE LockInv'
  BY <1>10, AcquireLock DEF LockWallet, Writing
<1>11. ASSUME NEW s \in Session, InsertRows(s) PROVE LockInv'
  <2>1. /\ pc[s] = "apply"
        /\ row' = [row EXCEPT ![s] = NewRows(s)]
        /\ pc' = [pc EXCEPT ![s] = IF Purchase(s) THEN "stock" ELSE "commit"]
        /\ UNCHANGED <<walletExists, wallet, ledger, owner, view, req, lines>>
    BY <1>11 DEF InsertRows, Goto, db, locks
  <2>2. Exclusive' BY <2>1 DEF LockInv, Exclusive, Writing, TypeOK
  <2>3. Fresh'     BY <2>1 DEF LockInv, Fresh
  <2>4. NewRows(s)' = NewRows(s)
        /\ \A t \in Session : NewRows(t)' = NewRows(t)
    BY <2>1 DEF NewRows
  <2>5. row'[s] = NewRows(s)
        /\ \A t \in Session \ {s} : row'[t] = row[t] /\ pc'[t] = pc[t]
    BY <2>1 DEF TypeOK
  <2>6. RowsNew'   BY <2>4, <2>5 DEF LockInv, RowsNew, Inserted
  <2> QED BY <2>2, <2>3, <2>6 DEF LockInv
<1>12. ASSUME NEW s \in Session, Commit(s) PROVE LockInv'
  <2>1. pc[s] = "commit" /\ End(s)  BY <1>12 DEF Commit
  <2>2. owner = s  BY <2>1 DEF LockInv, Exclusive, Writing
  <2>3. owner' = NoSession  BY <2>1, <2>2 DEF End
  <2>4. \A t \in Session : ~Writing(t)'
    BY <2>1, <2>2, EndLocks DEF LockInv, Exclusive, Writing
  <2> QED BY <2>3, <2>4, SessionAssumption
      DEF LockInv, Exclusive, Fresh, RowsNew, Writing, Inserted
<1>13. CASE ReadProfile \/ CompareProfile \/ SaveProfile \/ UNCHANGED vars
  <2>1. UNCHANGED <<walletExists, wallet, ledger, owner, pc, req, lines, view, row>>
    BY <1>13 DEF ReadProfile, CompareProfile, SaveProfile, vars, db, locks, locals, session
  <2> QED BY <2>1 DEF LockInv, Exclusive, Fresh, RowsNew, Writing, Inserted, NewRows
<1> QED
  BY <1>1, <1>2, <1>3, <1>4, <1>5, <1>6, <1>7, <1>8, <1>9, <1>10, <1>11, <1>12, <1>13
  DEF Next, Step

(* Only one transaction at a time is past the wallet's lock, and what it   *)
(* read there is what it will add to.                                      *)
THEOREM LockDiscipline == Spec => [](TypeOK /\ LockInv)
  BY InitType, StepType, InitLock, StepLock, PTL DEF Spec
-----------------------------------------------------------------------------
(* Double entry, for one step from a state of the invariant: only Commit   *)
(* touches the wallet's row once it exists, under the lock and with rows   *)
(* that were missing.                                                      *)
LEMMA EntryStep ==
  ASSUME TypeOK, LockInv, [Next]_vars
  PROVE  Entry
<1> SUFFICES ASSUME walletExists PROVE Entry  BY DEF Entry
<1>1. ASSUME NEW s \in Session, Commit(s) PROVE Entry
  <2> DEFINE k == req[s].key
  <2>1. /\ k \in Key
        /\ wallet \in Amounts /\ row[s] \in Amounts /\ ledger[k] \in Amounts
    BY RequestType DEF TypeOK
  <2>2. view[s] = wallet /\ row[s] = NewRows(s)
    BY <1>1 DEF Commit, LockInv, Exclusive, Fresh, RowsNew, Writing, Inserted
  <2>3. /\ wallet' = Add(wallet, row[s])
        /\ ledger' = [ledger EXCEPT ![k] = Add(ledger[k], row[s])]
    BY <1>1, <2>2 DEF Commit
  <2>4. \A c \in Currency : ledger[k][c] # 0 => row[s][c] = 0
    BY <2>2 DEF NewRows
  <2>5. \A c \in Currency : /\ wallet'[c] = wallet[c] + row[s][c]
                            /\ ledger'[k][c] = ledger[k][c] + row[s][c]
    BY <2>1, <2>3 DEF Add, TypeOK
  <2>6. \A j \in Key \ {k} : ledger'[j] = ledger[j]
    BY <2>3 DEF TypeOK
  <2>7. \A c \in Currency :
          /\ wallet'[c] - wallet[c] = ledger'[k][c] - ledger[k][c]
          /\ ledger[k][c] # 0 => ledger'[k][c] = ledger[k][c]
    BY <2>1, <2>4, <2>5 DEF Amounts
  <2> QED BY <2>1, <2>6, <2>7 DEF Entry
<1>2. ASSUME NEW s \in Session, Done(s) PROVE Entry
  BY <1>2 DEF Done, EndEmpty, Entry, db
<1>3. ASSUME NEW s \in Session, AdminSet(s) \/ CheckBalance(s) \/ LockWallet(s)
      PROVE  Entry
  BY <1>3 DEF AdminSet, CheckBalance, LockWallet, EnsureWalletForUpdate, Entry, db
<1>4. ASSUME NEW s \in Session, CheckBalanceUnlocked(s) PROVE Entry
  BY <1>4 DEF CheckBalanceUnlocked, EnsureWallet, Entry, db
<1>5. ASSUME NEW s \in Session,
             \/ Begin(s) \/ LockItem(s) \/ RefuseItem(s) \/ Refuse(s) \/ Abort(s)
             \/ ReadStock(s) \/ CreditItem(s) \/ Lookup(s) \/ InsertRows(s)
      PROVE  Entry
  BY <1>5 DEF Begin, LockItem, RefuseItem, Refuse, Abort, ReadStock, CreditItem, Lookup,
              InsertRows, Entry, db
<1>6. CASE ReadProfile \/ CompareProfile \/ SaveProfile \/ UNCHANGED vars
  BY <1>6 DEF ReadProfile, CompareProfile, SaveProfile, Entry, vars, db
<1> QED
  BY <1>1, <1>2, <1>3, <1>4, <1>5, <1>6 DEF Next, Step

(* Whatever the sessions, requests and failures: the wallet only ever      *)
(* changes by the rows inserted with it, under one idempotency key, and a  *)
(* row once written stays as it is.                                        *)
THEOREM LedgerIsDoubleEntry == Spec => DoubleEntry
<1>1. TypeOK /\ LockInv /\ [Next]_vars => [Entry]_vars
  BY EntryStep
<1> QED BY <1>1, LockDiscipline, PTL DEF Spec, DoubleEntry
-----------------------------------------------------------------------------
(***************************************************************************)
(* Paying once.  A store request has a price, in one currency, and its key *)
(* has the store's own prefix ("store:").                                  *)
(***************************************************************************)
StoreRequests ==
  /\ \A r \in Request : r.kind = "store" =>
       /\ r.lines[r.first] < 0
       /\ \A c \in Currency \ {r.first} : r.lines[c] = 0
  /\ \A q, r \in Request : q.key = r.key => q.kind = r.kind

(* From the balance check on a purchase holds the wallet's lock, and after *)
(* the lookup its spend row is still missing.                              *)
StoreLocked ==
  \A s \in Session :
    req[s].kind = "store" =>
      /\ pc[s] \in {"lookup", "grant", "apply", "stock", "credit", "commit"} => owner = s
      /\ pc[s] \in {"grant", "apply", "stock", "credit", "commit"} => ledger[req[s].key][req[s].first] = 0
      /\ pc[s] # "idle" => lines[s] = req[s].lines
      /\ pc[s] \notin {"prize", "hand"}

StoreInv == StoreLocked /\ PaidOnce

InStore(s) == pc[s] \in {"lookup", "grant", "apply", "stock", "credit", "commit"}

LEMMA StoreInit ==
  ASSUME StoreRequests
  PROVE  Init => StoreInv
<1> SUFFICES ASSUME Init PROVE StoreInv  OBVIOUS
<1>1. \A r \in Request : r.key \in Key /\ r.first \in Currency
  BY RequestType
<1>2. \A k \in Key, c \in Currency : ledger[k][c] = 0 /\ credited[k][c] = 0
  BY DEF Init, Zero
<1>3. StoreLocked  BY DEF Init, StoreLocked
<1>4. PaidOnce     BY <1>1, <1>2 DEF PaidOnce
<1> QED BY <1>3, <1>4 DEF StoreInv

(* A step of s that neither writes nor takes the lock from a purchase.     *)
LEMMA StoreFrame ==
  ASSUME TypeOK, StoreInv, NEW s \in Session,
         UNCHANGED <<ledger, credited>>,
         \A t \in Session \ {s} : /\ pc'[t] = pc[t] /\ req'[t] = req[t]
                                  /\ lines'[t] = lines[t]
                                  /\ owner = t => owner' = t,
         req'[s].kind = "store" =>
           /\ InStore(s)' => owner' = s
           /\ pc'[s] \in {"grant", "apply", "stock", "credit", "commit"}
                => ledger[req'[s].key][req'[s].first] = 0
           /\ pc'[s] # "idle" => lines'[s] = req'[s].lines
           /\ pc'[s] \notin {"prize", "hand"}
  PROVE  StoreInv'
<1>1. StoreLocked'  BY DEF StoreInv, StoreLocked, InStore
<1>2. PaidOnce'     BY DEF StoreInv, PaidOnce
<1> QED BY <1>1, <1>2 DEF StoreInv

LEMMA StoreEnd ==
  ASSUME TypeOK, StoreInv, NEW s \in Session, End(s), UNCHANGED <<ledger, credited>>
  PROVE  StoreInv'
<1>1. /\ pc'[s] = "idle"
      /\ owner # s => owner' = owner
      /\ \A t \in Session \ {s} : /\ pc'[t] = pc[t] /\ req'[t] = req[t]
                                  /\ lines'[t] = lines[t]
  BY EndLocks
<1> QED BY <1>1, StoreFrame DEF InStore

LEMMA StoreStep ==
  ASSUME StoreRequests, TypeOK, LockInv, StoreInv, [Next]_vars
  PROVE  StoreInv'
<1>1. ASSUME NEW s \in Session, Begin(s) PROVE StoreInv'
  <2>1. PICK r \in Request : /\ req' = [req EXCEPT ![s] = r]
                             /\ lines' = [lines EXCEPT ![s] = r.lines]
                             /\ Goto(s, FirstStep[r.kind])
    BY <1>1 DEF Begin
  <2>2. req'[s] = r /\ lines'[s] = r.lines /\ pc'[s] = FirstStep[r.kind]
        /\ \A t \in Session \ {s} : pc'[t] = pc[t] /\ req'[t] = req[t]
                                    /\ lines'[t] = lines[t]
    BY <2>1 DEF TypeOK, Goto
  <2>3. r.kind = "store" => /\ ~InStore(s)' /\ lines'[s] = req'[s].lines
                           /\ pc'[s] \notin {"prize", "hand"}
    BY <2>2 DEF InStore, FirstStep
  <2> QED BY <1>1, <2>2, <2>3, StoreFrame DEF Begin, db, locks, InStore
<1>2. ASSUME NEW s \in Session, LockItem(s) PROVE StoreInv'
  <2>1. pc[s] = "item" /\ pc' = [pc EXCEPT ![s] = "balance"]
        /\ UNCHANGED <<ledger, credited, owner, req, lines>>
    BY <1>2 DEF LockItem, Goto, db, locals
  <2> QED BY <2>1, StoreFrame DEF InStore, TypeOK, StoreInv, StoreLocked
<1>3. ASSUME NEW s \in Session, RefuseItem(s) \/ Refuse(s) \/ Abort(s) PROVE StoreInv'
  BY <1>3, StoreEnd DEF RefuseItem, Refuse, Abort, db
<1>4. ASSUME NEW s \in Session, CheckBalance(s) PROVE StoreInv'
  <2> DEFINE l == IF Affordable(s, view'[s]) THEN "lookup" ELSE "refuse"
  <2>1. /\ l \in {"lookup", "refuse"} /\ pc' = [pc EXCEPT ![s] = l]
        /\ pc[s] = "balance" /\ owner \in {NoSession, s} /\ owner' = s
        /\ UNCHANGED <<ledger, credited, req, lines>>
    BY <1>4 DEF CheckBalance, EnsureWalletForUpdate, Goto, db
  <2> HIDE DEF l
  <2> QED BY <2>1, StoreFrame, SessionAssumption DEF InStore, TypeOK, StoreInv, StoreLocked
<1>5. ASSUME NEW s \in Session, CheckBalanceUnlocked(s) PROVE StoreInv'
  <2> DEFINE l == IF Affordable(s, view'[s]) THEN "lookup" ELSE "refuse"
  <2>1. /\ pc' = [pc EXCEPT ![s] = l]
        /\ req[s].kind = "respin" /\ UNCHANGED <<ledger, credited, req, lines>>
    BY <1>5 DEF CheckBalanceUnlocked, EnsureWallet, EnsureWalletForUpdate, Goto, db
  <2> HIDE DEF l
  <2>2. \A t \in Session \ {s} : owner = t => owner' = t
    BY <1>5, SessionAssumption
    DEF CheckBalanceUnlocked, EnsureWallet, EnsureWalletForUpdate, locks
  <2> QED BY <2>1, <2>2, StoreFrame DEF TypeOK
<1>6. ASSUME NEW s \in Session, AdminSet(s) PROVE StoreInv'
  <2>1. PICK d : /\ lines' = [lines EXCEPT ![s] = d]
                 /\ Goto(s, IF d = Zero THEN "done" ELSE "grant")
    BY <1>6 DEF AdminSet
  <2> DEFINE l == IF d = Zero THEN "done" ELSE "grant"
  <2>2. /\ pc' = [pc EXCEPT ![s] = l]
        /\ req[s].kind = "admin" /\ owner \in {NoSession, s}
        /\ UNCHANGED <<ledger, credited, req>>
    BY <1>6, <2>1 DEF AdminSet, EnsureWalletForUpdate, Goto, db
  <2> HIDE DEF l
  <2> QED BY <2>1, <2>2, StoreFrame, SessionAssumption DEF TypeOK
<1>7. ASSUME NEW s \in Session, ReadStock(s) \/ CreditItem(s) PROVE StoreInv'
  <2>1. PICK l : /\ pc' = [pc EXCEPT ![s] = l]
                 /\ \/ pc[s] \in {"prize", "hand"}
                    \/ /\ pc[s] \in {"stock", "credit"}
                       /\ l \in {"credit", "commit"}
    BY <1>7 DEF ReadStock, CreditItem, Goto
  <2>2. UNCHANGED <<ledger, credited, owner, req, lines>>
    BY <1>7 DEF ReadStock, CreditItem, db, locks, locals
  <2>3. CASE pc[s] \in {"prize", "hand"}
    <3>1. req[s].kind # "store"
      BY <2>3 DEF StoreInv, StoreLocked
    <3> QED BY <2>1, <2>2, <3>1, StoreFrame DEF TypeOK
  <2>4. CASE pc[s] \in {"stock", "credit"}
    BY <2>1, <2>2, <2>4, StoreFrame DEF InStore, TypeOK, StoreInv, StoreLocked
  <2> QED BY <2>1, <2>3, <2>4
<1>8. ASSUME NEW s \in Session, Lookup(s) PROVE StoreInv'
  <2> DEFINE l == IF ledger[req[s].key][LookupKey(s)] # 0 THEN "done" ELSE "grant"
  <2>1. /\ pc[s] = "lookup" /\ pc' = [pc EXCEPT ![s] = l]
        /\ l = "done" \/ (l = "grant" /\ ledger[req[s].key][LookupKey(s)] = 0)
        /\ UNCHANGED <<ledger, credited, owner, req, lines>>
    BY <1>8 DEF Lookup, Goto, db, locks, locals
  <2>2. req[s].kind = "store" => /\ owner = s
                                 /\ lines[s] = req[s].lines
                                 /\ lines[s][req[s].first] < 0
    BY <2>1 DEF StoreInv, StoreLocked, StoreRequests, TypeOK
  <2>3. req[s].kind = "store" => LookupKey(s) = req[s].first
    BY <2>2, RequestType DEF LookupKey, Zero, TypeOK
  <2> HIDE DEF l
  <2> QED BY <2>1, <2>2, <2>3, StoreFrame DEF InStore, TypeOK
<1>9. ASSUME NEW s \in Session, Done(s) PROVE StoreInv'
  BY <1>9, StoreEnd DEF Done, EndEmpty, db
<1>10. ASSUME NEW s \in Session, LockWallet(s) PROVE StoreInv'
  <2>1. /\ pc[s] = "grant" /\ pc' = [pc EXCEPT ![s] = "apply"]
        /\ owner \in {NoSession, s} /\ owner' = s
        /\ UNCHANGED <<ledger, credited, req, lines>>
    BY <1>10 DEF LockWallet, EnsureWalletForUpdate, Goto, db
  <2> QED BY <2>1, StoreFrame, SessionAssumption DEF InStore, TypeOK, StoreInv, StoreLocked
<1>11. ASSUME NEW s \in Session, InsertRows(s) PROVE StoreInv'
  <2>1. /\ pc[s] = "apply"
        /\ pc' = [pc EXCEPT ![s] = IF Purchase(s) THEN "stock" ELSE "commit"]
        /\ UNCHANGED <<ledger, credited, owner, req, lines>>
    BY <1>11 DEF InsertRows, Goto, db, locks
  <2> QED BY <2>1, StoreFrame DEF InStore, TypeOK, StoreInv, StoreLocked
<1>12. ASSUME NEW s \in Session, Commit(s) PROVE StoreInv'
  <2> DEFINE k == req[s].key
             f == req[s].first
  <2>1. /\ pc[s] = "commit" /\ End(s)
        /\ ledger' = [ledger EXCEPT ![k] = Add(ledger[k], row[s])]
        /\ credited' = IF Purchase(s) THEN [credited EXCEPT ![k][f] = @ + 1] ELSE credited
    BY <1>12 DEF Commit
  <2>2. /\ k \in Key /\ f \in Currency /\ req[s] \in Request
        /\ \A r \in Request : r.key \in Key /\ r.first \in Currency
    BY RequestType DEF TypeOK
  <2>3. owner = s /\ row[s] = NewRows(s)
    BY <2>1 DEF LockInv, Exclusive, RowsNew, Writing, Inserted
  <2>4. /\ pc'[s] = "idle"
        /\ \A t \in Session \ {s} : pc'[t] = pc[t] /\ req'[t] = req[t] /\ lines'[t] = lines[t]
    BY <2>1, EndLocks
  <2>5. StoreLocked'
    <3>1. \A t \in Session \ {s} : req[t].kind = "store" => ~InStore(t)
      BY <2>3 DEF StoreInv, StoreLocked, InStore
    <3> QED BY <2>4, <3>1 DEF StoreInv, StoreLocked, InStore
  <2>6. ASSUME NEW r \in Request, r.kind = "store", r.lines # Zero
        PROVE  credited'[r.key][r.first] = IF ledger'[r.key][r.first] = 0 THEN 0 ELSE 1
    <3>1. credited[r.key][r.first] = IF ledger[r.key][r.first] = 0 THEN 0 ELSE 1
      BY <2>6 DEF StoreInv, PaidOnce
    <3>2. CASE r.key # k
      BY <2>1, <2>2, <3>1, <3>2 DEF TypeOK
    <3>3. CASE r.key = k
      <4>1. req[s].kind = "store"
        BY <2>2, <2>6, <3>3 DEF StoreRequests
      <4>2. /\ ledger[k][f] = 0 /\ lines[s] = req[s].lines
            /\ lines[s][f] < 0 /\ \A c \in Currency \ {f} : lines[s][c] = 0
        BY <2>1, <2>2, <4>1 DEF StoreInv, StoreLocked, StoreRequests
      <4>3. /\ row[s][f] = lines[s][f]
            /\ \A c \in Currency \ {f} : row[s][c] = 0
        BY <2>2, <2>3, <4>2 DEF NewRows
      <4>4. \A c \in Currency : ledger'[k][c] = ledger[k][c] + row[s][c]
        BY <2>1, <2>2 DEF Add, TypeOK
      <4>5. /\ credited'[k][f] = credited[k][f] + 1
            /\ \A c \in Currency \ {f} : credited'[k][c] = credited[k][c]
        BY <2>1, <2>2, <4>1 DEF Purchase, TypeOK
      <4>6. ledger[k] \in Amounts /\ lines[s] \in Amounts
        BY <2>2 DEF TypeOK
      <4>7. CASE r.first = f
        BY <3>1, <3>3, <4>2, <4>3, <4>4, <4>5, <4>6, <4>7, <2>2 DEF Amounts
      <4>8. CASE r.first # f
        BY <3>1, <3>3, <4>3, <4>4, <4>5, <4>6, <4>8, <2>2 DEF Amounts
      <4> QED BY <4>7, <4>8
    <3> QED BY <3>2, <3>3
  <2>7. PaidOnce'  BY <2>6 DEF PaidOnce
  <2> QED BY <2>5, <2>7 DEF StoreInv
<1>13. CASE ReadProfile \/ CompareProfile \/ SaveProfile \/ UNCHANGED vars
  BY <1>13 DEF ReadProfile, CompareProfile, SaveProfile, StoreInv, StoreLocked, PaidOnce,
               vars, db, locks, locals, session
<1> QED
  BY <1>1, <1>2, <1>3, <1>4, <1>5, <1>6, <1>7, <1>8, <1>9, <1>10, <1>11, <1>12, <1>13
  DEF Next, Step

(* A priced purchase credits its item exactly when its spend row exists,   *)
(* however many sessions send its key.                                     *)
THEOREM PurchasesArePaidOnce ==
  ASSUME StoreRequests
  PROVE  Spec => []PaidOnce
<1>1. Init => StoreInv  BY StoreInit
<1>2. TypeOK /\ LockInv /\ StoreInv /\ [Next]_vars => StoreInv'  BY StoreStep
<1>3. StoreInv => PaidOnce  BY DEF StoreInv
<1> QED BY <1>1, <1>2, <1>3, LockDiscipline, PTL DEF Spec
-----------------------------------------------------------------------------
(***************************************************************************)
(* Covered purchases.  From its balance check to its end a purchase holds  *)
(* the wallet's lock, and the balance it read still covers its price; what *)
(* re-spins, grants and adjustments take meanwhile is somebody else's row. *)
(***************************************************************************)
HeldAndCovered ==
  \A s \in Session :
    req[s].kind = "store" =>
      /\ InStore(s) => owner = s /\ Affordable(s, view[s])
      /\ pc[s] \notin {"prize", "hand"}

(* A step of s that leaves the others' locals and their lock.              *)
LEMMA CoverFrame ==
  ASSUME HeldAndCovered, NEW s \in Session,
         \A t \in Session \ {s} : /\ pc'[t] = pc[t] /\ req'[t] = req[t]
                                  /\ lines'[t] = lines[t]
                                  /\ owner = t => owner' = t /\ view'[t] = view[t],
         req'[s].kind = "store" =>
           /\ InStore(s)' => owner' = s /\ Affordable(s, view[s])'
           /\ pc'[s] \notin {"prize", "hand"}
  PROVE  HeldAndCovered'
<1>1. ASSUME NEW t \in Session \ {s}, req[t].kind = "store", InStore(t)
      PROVE  owner' = t /\ Affordable(t, view[t])'
  BY <1>1 DEF HeldAndCovered, Affordable
<1> QED BY <1>1 DEF HeldAndCovered, InStore

(* Taking the wallet's lock touches no other holder.                       *)
LEMMA CoverAcquire ==
  ASSUME TypeOK, LockInv, NEW s \in Session, EnsureWalletForUpdate(s)
  PROVE  /\ owner' = s
         /\ \A t \in Session \ {s} : owner # t
         /\ owner = s => view'[s] = view[s]
  BY SessionAssumption DEF EnsureWalletForUpdate, TypeOK, LockInv, Fresh

LEMMA CoverStep ==
  ASSUME TypeOK, LockInv, HeldAndCovered, [Next]_vars
  PROVE  HeldAndCovered'
<1>1. ASSUME NEW s \in Session, Begin(s) PROVE HeldAndCovered'
  <2>1. PICK r \in Request : /\ req' = [req EXCEPT ![s] = r]
                             /\ lines' = [lines EXCEPT ![s] = r.lines]
                             /\ Goto(s, FirstStep[r.kind])
    BY <1>1 DEF Begin
  <2>2. req'[s] = r /\ pc'[s] = FirstStep[r.kind]
        /\ \A t \in Session \ {s} : pc'[t] = pc[t] /\ req'[t] = req[t]
                                    /\ lines'[t] = lines[t]
    BY <2>1 DEF TypeOK, Goto
  <2>3. r.kind = "store" => ~InStore(s)' /\ pc'[s] \notin {"prize", "hand"}
    BY <2>2 DEF InStore, FirstStep
  <2> QED BY <1>1, <2>2, <2>3, CoverFrame DEF Begin, locks
<1>2. ASSUME NEW s \in Session, LockItem(s) PROVE HeldAndCovered'
  <2>1. pc' = [pc EXCEPT ![s] = "balance"] /\ UNCHANGED <<owner, req, lines, view>>
    BY <1>2 DEF LockItem, Goto, locals
  <2> QED BY <2>1, CoverFrame DEF InStore, TypeOK
<1>3. ASSUME NEW s \in Session, End(s) PROVE HeldAndCovered'
  <2>1. /\ pc'[s] = "idle"
        /\ owner # s => owner' = owner
        /\ \A t \in Session \ {s} : /\ pc'[t] = pc[t] /\ req'[t] = req[t]
                                    /\ lines'[t] = lines[t] /\ view'[t] = view[t]
    BY <1>3, EndLocks
  <2> QED BY <2>1, CoverFrame DEF InStore
<1>4. ASSUME NEW s \in Session, CheckBalance(s) PROVE HeldAndCovered'
  <2> DEFINE l == IF Affordable(s, view'[s]) THEN "lookup" ELSE "refuse"
  <2>1. /\ pc' = [pc EXCEPT ![s] = l] /\ UNCHANGED <<req, lines>>
        /\ EnsureWalletForUpdate(s)
    BY <1>4 DEF CheckBalance, Goto
  <2>2. Affordable(s, view'[s]) => Affordable(s, view[s])'
    BY <2>1 DEF Affordable
  <2>3. InStore(s)' => Affordable(s, view[s])'
    BY <2>1, <2>2 DEF InStore, TypeOK
  <2>4. pc'[s] \notin {"prize", "hand"} /\ \A t \in Session \ {s} : pc'[t] = pc[t]
    BY <2>1 DEF TypeOK
  <2> HIDE DEF l
  <2> QED BY <2>1, <2>3, <2>4, CoverAcquire, CoverFrame
<1>5. ASSUME NEW s \in Session, CheckBalanceUnlocked(s) PROVE HeldAndCovered'
  <2> DEFINE l == IF Affordable(s, view'[s]) THEN "lookup" ELSE "refuse"
  <2>1. /\ pc' = [pc EXCEPT ![s] = l]
        /\ req[s].kind = "respin" /\ UNCHANGED <<req, lines>>
    BY <1>5 DEF CheckBalanceUnlocked, Goto
  <2> HIDE DEF l
  <2>2. \A t \in Session \ {s} : owner = t => owner' = t /\ view'[t] = view[t]
    BY <1>5, SessionAssumption
    DEF CheckBalanceUnlocked, EnsureWallet, EnsureWalletForUpdate, locks, TypeOK
  <2> QED BY <2>1, <2>2, CoverFrame DEF TypeOK
<1>6. ASSUME NEW s \in Session, AdminSet(s) PROVE HeldAndCovered'
  <2>1. PICK d, l : lines' = [lines EXCEPT ![s] = d] /\ Goto(s, l)
    BY <1>6 DEF AdminSet
  <2>2. /\ \A t \in Session \ {s} : pc'[t] = pc[t] /\ lines'[t] = lines[t]
        /\ req[s].kind = "admin" /\ UNCHANGED req /\ EnsureWalletForUpdate(s)
    BY <1>6, <2>1 DEF AdminSet, Goto, TypeOK
  <2> QED BY <2>2, CoverAcquire, CoverFrame
<1>7. ASSUME NEW s \in Session, ReadStock(s) \/ CreditItem(s) PROVE HeldAndCovered'
  <2>1. PICK l : /\ pc' = [pc EXCEPT ![s] = l]
                 /\ \/ pc[s] \in {"prize", "hand"}
                    \/ /\ pc[s] \in {"stock", "credit"}
                       /\ l \in {"credit", "commit"}
    BY <1>7 DEF ReadStock, CreditItem, Goto
  <2>2. UNCHANGED <<owner, req, lines, view>>
    BY <1>7 DEF ReadStock, CreditItem, locks, locals
  <2>3. Affordable(s, view[s]) => Affordable(s, view[s])'
    BY <2>2 DEF Affordable
  <2> QED BY <2>1, <2>2, <2>3, CoverFrame DEF HeldAndCovered, InStore, TypeOK
<1>8. ASSUME NEW s \in Session, Lookup(s) \/ InsertRows(s) PROVE HeldAndCovered'
  <2>1. PICK l \in {"done", "grant", "stock", "commit"} : pc' = [pc EXCEPT ![s] = l]
    BY <1>8 DEF Lookup, InsertRows, Goto
  <2>2. InStore(s) /\ UNCHANGED <<owner, req, lines, view>>
    BY <1>8 DEF Lookup, InsertRows, InStore, locks, locals
  <2>3. Affordable(s, view[s]) => Affordable(s, view[s])'
    BY <2>2 DEF Affordable
  <2> QED BY <2>1, <2>2, <2>3, CoverFrame DEF HeldAndCovered, TypeOK
<1>9. ASSUME NEW s \in Session, LockWallet(s) PROVE HeldAndCovered'
  <2>1. /\ pc[s] = "grant" /\ pc' = [pc EXCEPT ![s] = "apply"]
        /\ UNCHANGED <<req, lines>> /\ EnsureWalletForUpdate(s)
    BY <1>9 DEF LockWallet, Goto
  <2>2. req[s].kind = "store" => owner = s /\ Affordable(s, view[s])
    BY <2>1 DEF HeldAndCovered, InStore
  <2>3. req[s].kind = "store" => Affordable(s, view[s])'
    BY <2>1, <2>2, CoverAcquire DEF Affordable
  <2>4. pc'[s] = "apply" /\ \A t \in Session \ {s} : pc'[t] = pc[t]
    BY <2>1 DEF TypeOK
  <2> QED BY <2>1, <2>3, <2>4, CoverAcquire, CoverFrame
<1>10. CASE ReadProfile \/ CompareProfile \/ SaveProfile \/ UNCHANGED vars
  BY <1>10 DEF ReadProfile, CompareProfile, SaveProfile, HeldAndCovered, InStore,
               Affordable, vars, locks, locals, session
<1> QED
  BY <1>1, <1>2, <1>3, <1>4, <1>5, <1>6, <1>7, <1>8, <1>9, <1>10
  DEF Next, Step, RefuseItem, Refuse, Abort, Done, EndEmpty, Commit

(* However many sessions spend, and with or without the lock: a store      *)
(* purchase that commits takes no more than the balance it is taken from.  *)
THEOREM PurchasesAreCovered == Spec => []PurchaseCovered
<1>1. Init => HeldAndCovered
  BY DEF Init, HeldAndCovered, InStore
<1>2. TypeOK /\ LockInv /\ HeldAndCovered /\ [Next]_vars => HeldAndCovered'
  BY CoverStep
<1>3. TypeOK /\ LockInv /\ HeldAndCovered => PurchaseCovered
  <2> SUFFICES ASSUME TypeOK, LockInv, HeldAndCovered, walletExists,
                      NEW s \in Session, pc[s] = "commit", req[s].kind = "store",
                      NEW c \in Currency, row[s][c] < 0
               PROVE  wallet[c] + row[s][c] >= 0
    BY DEF PurchaseCovered
  <2>1. view[s] = wallet /\ row[s] = NewRows(s)
    BY DEF LockInv, Exclusive, Fresh, RowsNew, Writing, Inserted
  <2>2. row[s][c] = lines[s][c]
    BY <2>1 DEF NewRows
  <2>3. Affordable(s, view[s])
    BY DEF HeldAndCovered, InStore
  <2> QED BY <2>1, <2>2, <2>3 DEF Affordable
<1> QED BY <1>1, <1>2, <1>3, LockDiscipline, PTL DEF Spec
-----------------------------------------------------------------------------
(***************************************************************************)
(* No overdraft.  Grants and prizes take nothing, nor do the saves of the  *)
(* profile, balances start and are set at zero or more, and nobody buys a re-spin: it is the one spender   *)
(* whose check does not hold the lock, and run ledger_respin shows what    *)
(* becomes of the balance with it.                                         *)
(***************************************************************************)
LockedSpenders ==
  /\ \A r \in Request : /\ r.kind # "respin"
                        /\ r.kind \in {"grant", "prize"} => \A c \in Currency : r.lines[c] >= 0
  /\ \A b \in Openings \union AdminTarget \union ProfileChange, c \in Currency : b[c] >= 0

Positive(w) == \A c \in Currency : w[c] >= 0

(* What is asked of the wallet takes nothing, or is covered by the balance *)
(* the session read and still holds.                                       *)
Covered(s) ==
  \/ Positive(lines[s])
  \/ owner = s /\ Positive(Add(view[s], lines[s]))

SpendInv ==
  /\ Positive(wallet) /\ Positive(profile) /\ Positive(saver.copy)
  /\ \A s \in Session : owner = s => Positive(view[s])
  /\ \A s \in Session : InStore(s) => Covered(s)
  /\ \A s \in Session : pc[s] \in {"prize", "hand"} => Positive(lines[s])

LEMMA AddValue == \A a, b : \A c \in Currency : Add(a, b)[c] = a[c] + b[c]
  BY DEF Add

LEMMA SpendInit ==
  ASSUME LockedSpenders
  PROVE  Init => SpendInv
<1> SUFFICES ASSUME Init PROVE SpendInv  OBVIOUS
<1>1. opening \in Openings /\ wallet = opening /\ profile = opening /\ saver.copy = Zero
  BY DEF Init, NoSave
<1>2. Positive(wallet) /\ Positive(profile)
  BY <1>1 DEF LockedSpenders, Positive
<1>3. Positive(saver.copy)
  BY <1>1 DEF Positive, Zero
<1> QED BY <1>2, <1>3, SessionAssumption DEF Init, SpendInv, InStore

(* Reading the wallet under its lock gives a positive balance and keeps    *)
(* what the session had covered.                                           *)
LEMMA SpendAcquire ==
  ASSUME TypeOK, LockInv, SpendInv, NEW s \in Session, EnsureWalletForUpdate(s)
  PROVE  /\ Positive(view'[s]) /\ view'[s] \in Amounts
         /\ owner = s => view'[s] = view[s]
         /\ \A t \in Session \ {s} : owner # t /\ owner' # t /\ view'[t] = view[t]
         /\ owner' = s
         /\ UNCHANGED <<wallet, profile, saver>>
<1>1. Positive(FromProfile)
  BY DEF SpendInv, Positive, FromProfile
<1>2. view'[s] = IF walletExists THEN wallet ELSE IF owner = s THEN view[s] ELSE FromProfile
  BY DEF EnsureWalletForUpdate, TypeOK
<1>3. Positive(view'[s])
  BY <1>1, <1>2 DEF SpendInv
<1>4. view'[s] \in Amounts
  BY <1>2, FromProfileType DEF TypeOK
<1>5. owner = s => view'[s] = view[s]
  BY <1>2 DEF LockInv, Fresh
<1> QED BY <1>3, <1>4, <1>5, SessionAssumption DEF EnsureWalletForUpdate, TypeOK, db

(* A step of s that takes no lock from another and leaves the balances.    *)
LEMMA SpendFrame ==
  ASSUME TypeOK, SpendInv, NEW s \in Session,
         Positive(wallet'), Positive(profile'), Positive(saver'.copy),
         \A t \in Session \ {s} : /\ pc'[t] = pc[t] /\ lines'[t] = lines[t]
                                  /\ view'[t] = view[t]
                                  /\ owner = t <=> owner' = t,
         owner' = s => Positive(view'[s]),
         InStore(s)' => Covered(s)',
         pc'[s] \in {"prize", "hand"} => Positive(lines'[s])
  PROVE  SpendInv'
<1>1. \A t \in Session \ {s} : InStore(t)' => Covered(t)'
  BY DEF SpendInv, InStore, Covered
<1>2. \A t \in Session : owner' = t => Positive(view'[t])
  BY DEF SpendInv
<1>3. \A t \in Session : pc'[t] \in {"prize", "hand"} => Positive(lines'[t])
  BY DEF SpendInv
<1>4. \A t \in Session : InStore(t)' => Covered(t)'
  BY <1>1
<1> QED BY <1>2, <1>3, <1>4 DEF SpendInv, Positive

LEMMA SpendEnd ==
  ASSUME TypeOK, SpendInv, NEW s \in Session, End(s),
         Positive(wallet'), Positive(profile')
  PROVE  SpendInv'
<1>1. /\ pc'[s] = "idle" /\ owner' # s
      /\ \A t \in Session \ {s} : /\ pc'[t] = pc[t] /\ lines'[t] = lines[t]
                                  /\ view'[t] = view[t]
  BY EndLocks
<1>2. \A t \in Session \ {s} : owner = t <=> owner' = t
  BY SessionAssumption DEF End
<1>3. Positive(saver'.copy)
  BY DEF End, SpendInv
<1> QED BY <1>1, <1>2, <1>3, SpendFrame DEF InStore

LEMMA SpendStep ==
  ASSUME LockedSpenders, TypeOK, LockInv, SpendInv, [Next]_vars
  PROVE  SpendInv'
<1> USE DEF InStore
<1>1. ASSUME NEW s \in Session, Begin(s) PROVE SpendInv'
  <2>1. PICK r \in Request : /\ req' = [req EXCEPT ![s] = r]
                             /\ lines' = [lines EXCEPT ![s] = r.lines]
                             /\ Goto(s, FirstStep[r.kind])
    BY <1>1 DEF Begin
  <2>2. lines'[s] = r.lines /\ pc'[s] = FirstStep[r.kind]
        /\ \A t \in Session \ {s} : pc'[t] = pc[t] /\ lines'[t] = lines[t]
    BY <2>1 DEF TypeOK, Goto
  <2>3. pc'[s] \in {"prize", "hand", "lookup"} => Positive(lines'[s])
    BY <2>2, RequestType DEF FirstStep, Kind, LockedSpenders, Positive
  <2>4. InStore(s)' => Covered(s)'
    BY <2>2, <2>3, RequestType DEF FirstStep, Kind, Covered
  <2>5. UNCHANGED <<wallet, profile, saver, owner, view>>
    BY <1>1 DEF Begin, db, locks
  <2> QED BY <2>2, <2>3, <2>4, <2>5, SpendFrame DEF SpendInv, Positive
<1>2. ASSUME NEW s \in Session, LockItem(s) PROVE SpendInv'
  <2>1. pc' = [pc EXCEPT ![s] = "balance"]
        /\ UNCHANGED <<wallet, profile, saver, owner, view, lines>>
    BY <1>2 DEF LockItem, Goto, db, locals
  <2> QED BY <2>1, SpendFrame DEF TypeOK, SpendInv, Positive
<1>3. ASSUME NEW s \in Session, RefuseItem(s) \/ Refuse(s) \/ Abort(s) PROVE SpendInv'
  <2>1. End(s) /\ UNCHANGED <<wallet, profile>>
    BY <1>3 DEF RefuseItem, Refuse, Abort, db
  <2> QED BY <2>1, SpendEnd DEF SpendInv, Positive
<1>4. ASSUME NEW s \in Session, CheckBalance(s) PROVE SpendInv'
  <2> DEFINE l == IF Affordable(s, view'[s]) THEN "lookup" ELSE "refuse"
  <2>1. /\ pc' = [pc EXCEPT ![s] = l] /\ UNCHANGED lines
        /\ EnsureWalletForUpdate(s)
    BY <1>4 DEF CheckBalance, Goto
  <2>2. /\ Positive(view'[s]) /\ view'[s] \in Amounts /\ owner' = s
        /\ \A t \in Session \ {s} : owner # t /\ owner' # t /\ view'[t] = view[t]
        /\ UNCHANGED <<wallet, profile, saver>>
    BY <2>1, SpendAcquire
  <2>3. Affordable(s, view'[s]) => Positive(Add(view'[s], lines[s]))
    <3>1. \A c \in Currency : /\ view'[s][c] \in Int /\ lines[s][c] \in Int
                              /\ view'[s][c] >= 0
      BY <2>2 DEF Positive, TypeOK, Amounts
    <3>2. Affordable(s, view'[s]) =>
            \A c \in Currency : view'[s][c] + lines[s][c] >= 0
      BY <3>1 DEF Affordable
    <3> QED BY <3>2, AddValue DEF Positive
  <2>4. pc'[s] = l /\ \A t \in Session \ {s} : pc'[t] = pc[t]
    BY <2>1 DEF TypeOK
  <2>5. InStore(s)' => Covered(s)'
    BY <2>1, <2>2, <2>3, <2>4 DEF Covered
  <2> QED BY <2>1, <2>2, <2>4, <2>5, SpendFrame DEF SpendInv, Positive
<1>5. ASSUME NEW s \in Session, CheckBalanceUnlocked(s) PROVE SpendInv'
  <2>1. req[s].kind = "respin" /\ req[s] \in Request
    BY <1>5 DEF CheckBalanceUnlocked, TypeOK
  <2> QED BY <2>1 DEF LockedSpenders
<1>6. ASSUME NEW s \in Session, AdminSet(s) PROVE SpendInv'
  <2>1. PICK t \in AdminTarget :
          LET d == [c \in Currency |-> IF c \in Mirrored THEN t[c] - view'[s][c] ELSE 0]
          IN /\ lines' = [lines EXCEPT ![s] = d]
             /\ Goto(s, IF d = Zero THEN "done" ELSE "grant")
    BY <1>6 DEF AdminSet
  <2> DEFINE d == [c \in Currency |-> IF c \in Mirrored THEN t[c] - view'[s][c] ELSE 0]
             l == IF d = Zero THEN "done" ELSE "grant"
  <2>2. /\ lines' = [lines EXCEPT ![s] = d] /\ pc' = [pc EXCEPT ![s] = l]
        /\ EnsureWalletForUpdate(s)
    BY <1>6, <2>1 DEF AdminSet, Goto
  <2>3. /\ Positive(view'[s]) /\ view'[s] \in Amounts /\ owner' = s
        /\ \A u \in Session \ {s} : owner # u /\ owner' # u /\ view'[u] = view[u]
        /\ UNCHANGED <<wallet, profile, saver>>
    BY <2>2, SpendAcquire
  <2>4. \A c \in Currency : t[c] \in Int /\ t[c] >= 0
    BY BoundAssumption DEF LockedSpenders, Amounts
  <2>5. Positive(Add(view'[s], d))
    BY <2>3, <2>4, AddValue DEF Positive, Amounts
  <2>6. /\ lines'[s] = d /\ pc'[s] = l
        /\ \A u \in Session \ {s} : pc'[u] = pc[u] /\ lines'[u] = lines[u]
    BY <2>2 DEF TypeOK
  <2> HIDE DEF d
  <2>7. Covered(s)'
    BY <2>3, <2>5, <2>6 DEF Covered
  <2>8. pc'[s] \notin {"prize", "hand"}
    BY <2>6
  <2> HIDE DEF l
  <2> QED BY <2>3, <2>6, <2>7, <2>8, SpendFrame DEF SpendInv, Positive
<1>7. ASSUME NEW s \in Session, ReadStock(s) \/ CreditItem(s) PROVE SpendInv'
  <2>1. PICK l : /\ pc' = [pc EXCEPT ![s] = l]
                 /\ \/ pc[s] \in {"prize", "hand"} /\ l \in {"hand", "lookup"}
                    \/ pc[s] \in {"stock", "credit"} /\ l \in {"credit", "commit"}
    BY <1>7 DEF ReadStock, CreditItem, Goto
  <2>2. UNCHANGED <<wallet, profile, saver, owner, view, lines>>
    BY <1>7 DEF ReadStock, CreditItem, db, locks, locals
  <2>3. pc[s] \in {"prize", "hand"} => Positive(lines[s])
    BY DEF SpendInv
  <2>4. pc[s] \in {"stock", "credit"} => Covered(s)
    BY DEF SpendInv
  <2>5. Covered(s)'
    BY <2>1, <2>2, <2>3, <2>4 DEF Covered
  <2>6. pc'[s] \in {"prize", "hand"} => Positive(lines'[s])
    BY <2>1, <2>2, <2>3 DEF TypeOK
  <2> QED BY <2>1, <2>2, <2>5, <2>6, SpendFrame DEF TypeOK, SpendInv, Positive
<1>8. ASSUME NEW s \in Session, Lookup(s) \/ InsertRows(s) PROVE SpendInv'
  <2>1. PICK l \in {"done", "grant", "stock", "commit"} : pc' = [pc EXCEPT ![s] = l]
    BY <1>8 DEF Lookup, InsertRows, Goto
  <2>2. pc[s] \in {"lookup", "apply"}
        /\ UNCHANGED <<wallet, profile, saver, owner, view, lines>>
    BY <1>8 DEF Lookup, InsertRows, db, locks, locals
  <2>3. Covered(s)'
    BY <2>2 DEF SpendInv, Covered
  <2> QED BY <2>1, <2>2, <2>3, SpendFrame DEF TypeOK, SpendInv, Positive
<1>9. ASSUME NEW s \in Session, Done(s) PROVE SpendInv'
  <2>1. /\ End(s) /\ profile' = profile
        /\ \/ wallet' = wallet
           \/ owner = s /\ wallet' = view[s]
    BY <1>9 DEF Done, EndEmpty, db
  <2>2. Positive(wallet')  BY <2>1 DEF SpendInv, Positive
  <2>3. Positive(profile')  BY <2>1 DEF SpendInv, Positive
  <2> QED BY <2>1, <2>2, <2>3, SpendEnd
<1>10. ASSUME NEW s \in Session, LockWallet(s) PROVE SpendInv'
  <2>1. /\ pc[s] = "grant" /\ pc' = [pc EXCEPT ![s] = "apply"] /\ UNCHANGED lines
        /\ EnsureWalletForUpdate(s)
    BY <1>10 DEF LockWallet, Goto
  <2>3. owner' = s /\ Positive(view'[s]) /\ (owner = s => view'[s] = view[s])
        /\ \A t \in Session \ {s} : owner # t /\ owner' # t /\ view'[t] = view[t]
    BY <2>1, SpendAcquire
  <2>4. Covered(s)'
    BY <2>1, <2>3 DEF SpendInv, Covered
  <2>5. UNCHANGED <<wallet, profile, saver>>
    BY <2>1, SpendAcquire
  <2> QED BY <2>1, <2>3, <2>4, <2>5, SpendFrame DEF TypeOK, SpendInv, Positive
<1>11. ASSUME NEW s \in Session, Commit(s) PROVE SpendInv'
  <2>1. /\ pc[s] = "commit" /\ End(s) /\ wallet' = Add(view[s], row[s])
        /\ profile' = Patched(columns[s], wallet')
    BY <1>11 DEF Commit
  <2>2. owner = s /\ row[s] = NewRows(s)
    BY <2>1 DEF LockInv, Exclusive, RowsNew, Writing, Inserted
  <2>3. \A c \in Currency : row[s][c] \in {0, lines[s][c]}
    BY <2>2 DEF NewRows
  <2>4. Covered(s) /\ Positive(view[s]) /\ view[s] \in Amounts /\ lines[s] \in Amounts
    BY <2>1, <2>2 DEF SpendInv, TypeOK
  <2>5. Positive(wallet')
    BY <2>1, <2>3, <2>4, AddValue DEF Covered, Positive, Amounts
  <2>6. Positive(profile')
    BY <2>1, <2>5 DEF Patched, Positive, SpendInv
  <2> QED BY <2>1, <2>5, <2>6, SpendEnd
<1>12. CASE ReadProfile
  <2>1. PICK d \in ProfileChange : saver'.copy = Add(profile, d)
    BY <1>12 DEF ReadProfile, TypeOK
  <2>2. Positive(saver'.copy)
    BY <2>1, BoundAssumption, AddValue
    DEF LockedSpenders, SpendInv, Positive, TypeOK, Amounts
  <2> QED BY <1>12, <2>2
      DEF ReadProfile, SpendInv, Positive, Covered, db, locks, locals, session
<1>13. CASE CompareProfile \/ SaveProfile
  <2>1. Positive(profile') /\ Positive(saver'.copy)
    <3>1. CASE CompareProfile
      BY <3>1 DEF CompareProfile, SpendInv, Positive, TypeOK, db
    <3>2. CASE SaveProfile
      <4>1. saver'.copy = Zero  BY <3>2 DEF SaveProfile, NoSave
      <4>2. profile' = Patched(saver.columns, saver.copy)  BY <3>2 DEF SaveProfile
      <4>3. Positive(saver.copy) /\ Positive(profile)  BY DEF SpendInv
      <4>4. \A c \in Currency : profile'[c] \in {saver.copy[c], profile[c]}
        BY <4>2 DEF Patched
      <4> QED BY <4>1, <4>3, <4>4 DEF Positive, Zero
    <3> QED BY <1>13, <3>1, <3>2
  <2>2. UNCHANGED <<wallet, owner, pc, view, lines>>
    BY <1>13 DEF CompareProfile, SaveProfile, db, locks, locals, session
  <2> QED BY <2>1, <2>2 DEF SpendInv, Covered, Positive
<1>14. CASE UNCHANGED vars
  BY <1>14 DEF SpendInv, Positive, Covered, vars, db, locks, locals, session
<1> QED
  BY <1>1, <1>2, <1>3, <1>4, <1>5, <1>6, <1>7, <1>8, <1>9, <1>10, <1>11, <1>12, <1>13, <1>14
  DEF Next, Step

(* When every spender checks the balance under the wallet's lock, no       *)
(* interleaving overdraws it.                                              *)
THEOREM NoOverdraft ==
  ASSUME LockedSpenders
  PROVE  Spec => []NonNegative
<1>1. Init => SpendInv  BY SpendInit
<1>2. TypeOK /\ LockInv /\ SpendInv /\ [Next]_vars => SpendInv'  BY SpendStep
<1>3. SpendInv => NonNegative  BY DEF SpendInv, NonNegative, Positive
<1> QED BY <1>1, <1>2, <1>3, LockDiscipline, PTL DEF Spec
-----------------------------------------------------------------------------
(***************************************************************************)
(* Limits.  Nothing but purchases credits an item that is no prize, so it  *)
(* has one inventory row; and a purchase holds the item's lock from its    *)
(* check on: no other raises what is owned in between.                     *)
(***************************************************************************)
(* A sum of naturals is at least each of its terms (a fold is out of the   *)
(* provers' reach).                                                        *)
SumsBoundTheirTerms ==
  \A f \in [Sku -> Nat] :
    FreezeUnits(f) \in Nat /\ \A i \in FreezeSku : f[i] <= FreezeUnits(f)

Buying(s) == Purchase(s) /\ pc[s] \notin {"idle", "item"}

ItemHeld(s) ==
  LET r == req[s]
      i == req[s].sku
  IN /\ itemLock[i] = s
     /\ OnlySold(i) =>
          /\ inventory[i] + r.packs <= Limit[i]
          /\ i \in FreezeSku => inventory[i] + r.units <= MaxFreeze
          /\ pc[s] \in {"credit", "commit"} => stock[s] = inventory[i]

LimitInv ==
  /\ LimitHeld
  /\ \A i \in Sku : OnlySold(i) => beside[i] = 0
  /\ \A s \in Session : Buying(s) => ItemHeld(s)
  /\ \A s \in Session : pc[s] \in {"prize", "hand"} => ~Purchase(s)

(* A step of s that credits no item and takes no lock from a purchase.     *)
LEMMA LimitFrame ==
  ASSUME TypeOK, LimitInv, NEW s \in Session, UNCHANGED <<inventory, beside>>,
         \A t \in Session \ {s} : /\ pc'[t] = pc[t] /\ req'[t] = req[t]
                                  /\ stock'[t] = stock[t]
                                  /\ \A i \in Sku : itemLock[i] = t => itemLock'[i] = t,
         Buying(s)' => ItemHeld(s)',
         pc'[s] \in {"prize", "hand"} => ~Purchase(s)'
  PROVE  LimitInv'
<1>1. LimitHeld'
  <2>1. Owned' = Owned  BY DEF Owned
  <2> QED BY <2>1 DEF LimitInv, LimitHeld, OnlySold
<1>2. ASSUME NEW t \in Session \ {s}, Buying(t)' PROVE ItemHeld(t)'
  <2>1. Buying(t) /\ req'[t] = req[t] /\ req[t].sku \in Sku
    BY <1>2, RequestType DEF Buying, Purchase, TypeOK
  <2>2. ItemHeld(t)
    BY <2>1 DEF LimitInv
  <2> QED BY <2>1, <2>2 DEF ItemHeld, OnlySold
<1>3. \A t \in Session \ {s} : pc'[t] \in {"prize", "hand"} => ~Purchase(t)'
  BY DEF LimitInv, Purchase
<1>4. \A i \in Sku : OnlySold(i) => beside'[i] = 0
  BY DEF LimitInv
<1> QED BY <1>1, <1>2, <1>3, <1>4 DEF LimitInv, OnlySold

LEMMA LimitEnd ==
  ASSUME TypeOK, LimitInv, NEW s \in Session, End(s), UNCHANGED <<inventory, beside>>
  PROVE  LimitInv'
<1>1. /\ pc'[s] = "idle"
      /\ \A t \in Session \ {s} : pc'[t] = pc[t] /\ req'[t] = req[t]
  BY EndLocks
<1>2. \A t \in Session \ {s} : stock'[t] = stock[t]
  BY DEF End, TypeOK
<1>3. \A t \in Session \ {s}, i \in Sku : itemLock[i] = t => itemLock'[i] = t
  BY DEF End, Released
<1> QED BY <1>1, <1>2, <1>3, LimitFrame DEF Buying

(* A step of s with neither, that stays within the purchase or outside it. *)
LEMMA LimitGoto ==
  ASSUME TypeOK, LimitInv, NEW s \in Session, NEW l, Goto(s, l),
         UNCHANGED <<inventory, beside, itemLock, req, stock>>,
         pc[s] \notin {"idle", "item"}, l \notin {"prize", "hand", "credit"},
         l = "commit" => pc[s] = "credit" \/ ~Purchase(s)
  PROVE  LimitInv'
<1>1. pc'[s] = l /\ \A t \in Session \ {s} : pc'[t] = pc[t]
  BY DEF Goto, TypeOK
<1>2. Buying(s)' => Buying(s)
  BY DEF Buying, Purchase
<1>3. Buying(s)' => ItemHeld(s)'
  BY <1>1, <1>2 DEF LimitInv, ItemHeld, OnlySold, Buying
<1> QED BY <1>1, <1>3, LimitFrame

LEMMA LimitCommit ==
  ASSUME TypeOK, LimitInv, NEW s \in Session, Commit(s)
  PROVE  LimitInv'
<1> DEFINE i == req[s].sku
<1>1. /\ pc[s] = "commit" /\ End(s) /\ i \in Sku /\ req[s] \in Request
      /\ req[s].units \in Nat /\ req[s].packs \in Nat /\ stock[s] \in Nat
      /\ inventory' = IF Credits(s) /\ ~Inserts(s)
                      THEN [inventory EXCEPT ![i] = Restocked(s)] ELSE inventory
      /\ beside' = IF Credits(s) /\ Inserts(s)
                   THEN [beside EXCEPT ![i] = beside[i] + req[s].units] ELSE beside
  BY RequestType DEF Commit, TypeOK
<1>0. inventory' \in [Sku -> Nat]
  BY StepType DEF Next, Step, TypeOK
<1>2. Purchase(s) => ItemHeld(s)
  BY <1>1 DEF LimitInv, Buying
<1>3. ASSUME NEW j \in Sku, OnlySold(j)
      PROVE  /\ beside'[j] = 0
             /\ inventory'[j] # inventory[j] =>
                  /\ j = i /\ Purchase(s)
                  /\ inventory'[i] = inventory[i] + req[s].units
  <2>1. j = i => ~(req[s].kind = "prize")
    BY <1>1, <1>3 DEF OnlySold
  <2>2. CASE j # i
    BY <1>1, <1>3, <2>2 DEF LimitInv, TypeOK
  <2>3. CASE j = i /\ ~Purchase(s)
    BY <1>1, <1>3, <2>1, <2>3 DEF LimitInv, Credits
  <2>4. CASE j = i /\ Purchase(s)
    <3>1. stock[s] = inventory[i] /\ ~Inserts(s)
      BY <1>1, <1>2, <1>3, <2>4 DEF ItemHeld, Inserts
    <3> QED BY <1>1, <1>3, <2>4, <3>1 DEF LimitInv, Restocked, TypeOK
  <2> QED BY <2>2, <2>3, <2>4
<1>4. LimitHeld'
  <2> SUFFICES ASSUME NEW j \in Sku, OnlySold(j)
               PROVE  \/ Owned'[j] = 0
                      \/ \E r \in Request :
                           /\ r.kind \in {"store", "respin"} /\ r.sku = j
                           /\ Owned'[j] <= Limit[j] + r.units - r.packs
                           /\ j \in FreezeSku => Owned'[j] <= MaxFreeze
    BY DEF LimitHeld, OnlySold
  <2>1. /\ Owned[j] = inventory[j] /\ Owned'[j] = inventory'[j]
        /\ inventory[j] \in Nat /\ Limit[j] \in Nat /\ MaxFreeze \in Nat
    BY <1>0, <1>3, BoundAssumption DEF LimitInv, Owned, TypeOK
  <2>2. CASE inventory'[j] = inventory[j]
    BY <2>1, <2>2 DEF LimitInv, LimitHeld
  <2>3. CASE inventory'[j] # inventory[j]
    <3>1. j = i /\ Purchase(s) /\ inventory'[i] = inventory[i] + req[s].units
      BY <1>3, <2>3
    <3>2. /\ inventory[i] + req[s].packs <= Limit[i]
          /\ i \in FreezeSku => inventory[i] + req[s].units <= MaxFreeze
      BY <1>2, <3>1 DEF ItemHeld
    <3> QED BY <1>1, <2>1, <3>1, <3>2 DEF Purchase
  <2> QED BY <2>2, <2>3
<1>5. /\ pc'[s] = "idle"
      /\ \A t \in Session \ {s} : pc'[t] = pc[t] /\ req'[t] = req[t] /\ stock'[t] = stock[t]
      /\ \A t \in Session \ {s}, j \in Sku : itemLock[j] = t => itemLock'[j] = t
  BY <1>1, EndLocks DEF End, Released, TypeOK
<1>6. ASSUME NEW t \in Session, Buying(t)' PROVE ItemHeld(t)'
  <2> DEFINE j == req[t].sku
  <2>1. t # s /\ Buying(t) /\ req'[t] = req[t] /\ j \in Sku
    BY <1>5, <1>6, RequestType DEF Buying, Purchase, TypeOK
  <2>2. ItemHeld(t)
    BY <2>1 DEF LimitInv
  <2>3. OnlySold(j) => inventory'[j] = inventory[j]
    BY <1>2, <1>3, <2>1, <2>2 DEF ItemHeld
  <2> QED BY <1>5, <2>1, <2>2, <2>3 DEF ItemHeld, OnlySold
<1>7. \A t \in Session : pc'[t] \in {"prize", "hand"} => ~Purchase(t)'
  BY <1>5 DEF LimitInv, Purchase
<1>8. \A j \in Sku : OnlySold(j) => beside'[j] = 0
  BY <1>3
<1> QED BY <1>4, <1>6, <1>7, <1>8 DEF LimitInv, OnlySold

LEMMA LimitStep ==
  ASSUME SumsBoundTheirTerms, TypeOK, LimitInv, [Next]_vars
  PROVE  LimitInv'
<1>1. ASSUME NEW s \in Session, Begin(s) PROVE LimitInv'
  <2>1. PICK r \in Request : /\ req' = [req EXCEPT ![s] = r]
                             /\ Goto(s, FirstStep[r.kind])
    BY <1>1 DEF Begin
  <2>2. /\ req'[s] = r /\ pc'[s] = FirstStep[r.kind] /\ r.kind \in Kind
        /\ \A t \in Session \ {s} : pc'[t] = pc[t] /\ req'[t] = req[t]
    BY <2>1, RequestType DEF Goto, TypeOK
  <2>3. /\ Purchase(s)' => pc'[s] = "item"
        /\ pc'[s] \in {"prize", "hand"} => ~Purchase(s)'
    BY <2>2 DEF FirstStep, Kind, Purchase
  <2> QED BY <1>1, <2>2, <2>3, LimitFrame DEF Begin, Buying, db, locks
<1>2. ASSUME NEW s \in Session, LockItem(s) PROVE LimitInv'
  <2> DEFINE i == req[s].sku
  <2>1. /\ pc'[s] = "balance" /\ i \in Sku /\ req[s].units \in Nat /\ req[s].packs \in Nat
        /\ \A t \in Session \ {s} : pc'[t] = pc[t]
        /\ UNCHANGED <<inventory, beside, req, stock>>
        /\ itemLock[i] = NoSession
        /\ itemLock' = [itemLock EXCEPT ![i] = s]
        /\ MayOwnMore(req[s])
    BY <1>2, RequestType DEF LockItem, Goto, TypeOK, db, locals
  <2>2. Owned \in [Sku -> Nat] /\ (OnlySold(i) => Owned[i] = inventory[i])
    BY <2>1 DEF Owned, TypeOK, LimitInv
  <2> DEFINE f == FreezeUnits(Owned)
  <2>3. /\ f \in Nat
        /\ i \in FreezeSku => Owned[i] <= f /\ f + req[s].units <= MaxFreeze
    BY <2>1, <2>2 DEF SumsBoundTheirTerms, MayOwnMore
  <2>4. Owned[i] + req[s].packs <= Limit[i]
    BY <2>1 DEF MayOwnMore
  <2>5. ItemHeld(s)'
    <3>1. itemLock'[i] = s  BY <2>1 DEF TypeOK
    <3>2. OnlySold(i) /\ i \in FreezeSku => inventory[i] + req[s].units <= MaxFreeze
      <4>1. inventory[i] \in Nat  BY <2>1 DEF TypeOK
      <4> HIDE DEF i, f
      <4> QED BY <2>1, <2>2, <2>3, <4>1, BoundAssumption
    <3> QED BY <2>1, <2>2, <2>4, <3>1, <3>2 DEF ItemHeld, OnlySold
  <2>6. \A t \in Session \ {s}, j \in Sku : itemLock[j] = t => itemLock'[j] = t
    BY <2>1, SessionAssumption DEF TypeOK
  <2> QED BY <2>1, <2>5, <2>6, LimitFrame
<1>3. ASSUME NEW s \in Session, RefuseItem(s) \/ Refuse(s) \/ Abort(s) \/ Done(s)
      PROVE  LimitInv'
  BY <1>3, LimitEnd DEF RefuseItem, Refuse, Abort, Done, EndEmpty, db
<1>4. ASSUME NEW s \in Session, CheckBalance(s) \/ CheckBalanceUnlocked(s)
      PROVE  LimitInv'
  <2> DEFINE l == IF Affordable(s, view'[s]) THEN "lookup" ELSE "refuse"
  <2>1. /\ Goto(s, l) /\ l \in {"lookup", "refuse"} /\ pc[s] = "balance"
        /\ UNCHANGED <<inventory, beside, itemLock, req, stock>>
    BY <1>4 DEF CheckBalance, CheckBalanceUnlocked, EnsureWallet, EnsureWalletForUpdate,
                db, locks
  <2> HIDE DEF l
  <2> QED BY <2>1, LimitGoto
<1>5. ASSUME NEW s \in Session, AdminSet(s) PROVE LimitInv'
  <2>1. PICK l \in {"done", "grant"} : Goto(s, l)
    BY <1>5 DEF AdminSet
  <2> QED BY <1>5, <2>1, LimitGoto DEF AdminSet, EnsureWalletForUpdate, db
<1>6. ASSUME NEW s \in Session, ReadStock(s) PROVE LimitInv'
  <2>1. /\ pc[s] \in {"prize", "stock"} /\ UNCHANGED <<inventory, beside, itemLock, req>>
        /\ pc'[s] = IF pc[s] = "prize" THEN "hand" ELSE "credit"
        /\ stock'[s] = inventory[req[s].sku]
        /\ \A t \in Session \ {s} : pc'[t] = pc[t] /\ stock'[t] = stock[t]
    BY <1>6 DEF ReadStock, Goto, TypeOK, db, locks
  <2>2. pc'[s] \in {"prize", "hand"} => ~Purchase(s)'
    BY <2>1 DEF LimitInv, Purchase
  <2>3. Buying(s)' => Buying(s)
    BY <2>1 DEF Buying, Purchase
  <2>4. Buying(s)' => ItemHeld(s)'
    BY <2>1, <2>3 DEF LimitInv, ItemHeld, OnlySold
  <2> QED BY <2>1, <2>2, <2>4, LimitFrame
<1>7. ASSUME NEW s \in Session, CreditItem(s) PROVE LimitInv'
  <2>1. PICK l \in {"lookup", "commit"} :
          /\ Goto(s, l)
          /\ \/ pc[s] = "hand" /\ l = "lookup"
             \/ pc[s] = "credit" /\ l = "commit"
    BY <1>7 DEF CreditItem
  <2>2. UNCHANGED <<inventory, beside, itemLock, req, stock>>
    BY <1>7 DEF CreditItem, db, locals
  <2> QED BY <2>1, <2>2, LimitGoto
<1>8. ASSUME NEW s \in Session, Lookup(s) \/ LockWallet(s) \/ InsertRows(s) PROVE LimitInv'
  <2>1. PICK l \in {"done", "grant", "apply", "stock", "commit"} :
          Goto(s, l) /\ (l = "commit" => ~Purchase(s))
    BY <1>8 DEF Lookup, LockWallet, InsertRows
  <2>2. /\ UNCHANGED <<inventory, beside, itemLock, req, stock>>
        /\ pc[s] \notin {"idle", "item"}
    BY <1>8 DEF Lookup, LockWallet, InsertRows, EnsureWalletForUpdate, db, locks, locals
  <2> QED BY <2>1, <2>2, LimitGoto
<1>9. CASE ReadProfile \/ CompareProfile \/ SaveProfile \/ UNCHANGED vars
  <2>1. UNCHANGED <<inventory, beside, itemLock, pc, req, stock>>
    BY <1>9 DEF ReadProfile, CompareProfile, SaveProfile, vars, db, locks, locals, session
  <2> QED BY <2>1 DEF LimitInv, LimitHeld, Owned, Buying, ItemHeld, OnlySold, Purchase
<1> QED
  BY <1>1, <1>2, <1>3, <1>4, <1>5, <1>6, <1>7, <1>8, <1>9, LimitCommit DEF Next, Step

(* However many purchases of an item run at the same time: what they add   *)
(* stays within its purchaseLimit but for the last pack's further units,   *)
(* the re-spins of a day within their number, the freezes of an item       *)
(* within MAX_FREEZE_STACK.                                                *)
THEOREM LimitsHold ==
  ASSUME SumsBoundTheirTerms
  PROVE  Spec => []LimitHeld
<1>1. Init => LimitInv
  BY BoundAssumption DEF Init, LimitInv, LimitHeld, Owned, Buying
<1>2. TypeOK /\ LimitInv /\ [Next]_vars => LimitInv'
  BY LimitStep
<1>3. LimitInv => LimitHeld
  BY DEF LimitInv
<1> QED BY <1>1, <1>2, <1>3, TypeCorrect, PTL DEF Spec
-----------------------------------------------------------------------------
(***************************************************************************)
(* The mirror.  What a save of the profile beside the ledger writes, and   *)
(* when, is anybody's guess: so for the columns none has written since.    *)
(* Before the wallet exists, what the transaction that creates it has read *)
(* is the profile; and once a transaction has chosen the columns it will   *)
(* update, the others show already what it will commit.                    *)
(***************************************************************************)
Target(s) == Add(view[s], row[s])

MirrorInv ==
  /\ walletExists => \A c \in Mirrored \ drift : profile[c] = wallet[c]
  /\ ~walletExists =>
       \A s \in Session : owner = s => \A c \in Mirrored \ drift : profile[c] = view[s][c]
  /\ \A s \in Session : Inserted(s) =>
       \A c \in Mirrored \ drift : c \notin columns[s] => profile[c] = Target(s)[c]

LEMMA MirrorStep ==
  ASSUME TypeOK, LockInv, MirrorInv, [Next]_vars
  PROVE  MirrorInv'
(* A session whose pc moves before its rows are inserted, under the lock.  *)
<1>1. ASSUME NEW s \in Session, EnsureWalletForUpdate(s), UNCHANGED <<row, columns>>,
             NEW l, Goto(s, l), l \notin {"stock", "credit", "commit"}
      PROVE  MirrorInv'
  <2>1. /\ owner \in {NoSession, s} /\ owner' = s
        /\ UNCHANGED <<walletExists, wallet, profile, drift>>
        /\ ~walletExists => view'[s] = IF owner = s THEN view[s] ELSE FromProfile
    BY <1>1 DEF EnsureWalletForUpdate, db, TypeOK
  <2>2. \A c \in Mirrored : FromProfile[c] = profile[c]
    BY DEF FromProfile, Mirrored
  <2>3. \A t \in Session : ~Inserted(t)'
    <3>1. ~Inserted(s)'
      BY <1>1 DEF Inserted, Goto, TypeOK
    <3>2. \A t \in Session \ {s} : pc'[t] = pc[t] /\ ~Inserted(t)
      BY <1>1, <2>1, SessionAssumption
      DEF Goto, TypeOK, LockInv, Exclusive, Writing, Inserted
    <3> QED BY <3>1, <3>2 DEF Inserted
  <2> QED BY <2>1, <2>2, <2>3 DEF MirrorInv
<1>2. ASSUME NEW s \in Session, End(s), UNCHANGED <<walletExists, wallet, profile, drift>>
      PROVE  MirrorInv'
  <2>1. \A t \in Session : owner' = t => owner = t /\ view'[t] = view[t]
    BY <1>2, EndLocks, SessionAssumption
  <2>2. \A t \in Session : Inserted(t)' =>
          Inserted(t) /\ columns'[t] = columns[t] /\ Target(t)' = Target(t)
    <3>1. ~Inserted(s)'  BY <1>2, EndLocks DEF Inserted
    <3>2. \A t \in Session \ {s} : columns'[t] = columns[t] /\ pc'[t] = pc[t]
                                   /\ view'[t] = view[t] /\ row'[t] = row[t]
      BY <1>2, EndLocks DEF End, TypeOK
    <3> QED BY <3>1, <3>2 DEF Inserted, Target
  <2> QED BY <1>2, <2>1, <2>2 DEF MirrorInv
<1>3. ASSUME NEW s \in Session, CheckBalance(s) \/ AdminSet(s) \/ LockWallet(s)
      PROVE  MirrorInv'
  <2>1. PICK l \in {"lookup", "refuse", "done", "grant", "apply"} : Goto(s, l)
    BY <1>3 DEF CheckBalance, AdminSet, LockWallet
  <2> QED BY <1>1, <1>3, <2>1 DEF CheckBalance, AdminSet, LockWallet
<1>4. ASSUME NEW s \in Session, CheckBalanceUnlocked(s) PROVE MirrorInv'
  <2>1. PICK l \in {"lookup", "refuse"} : Goto(s, l) /\ pc[s] = "balance"
    BY <1>4 DEF CheckBalanceUnlocked
  <2>2. CASE walletExists
    <3>1. /\ UNCHANGED <<walletExists, wallet, profile, drift, columns, row>>
          /\ \A t \in Session \ {s} : view'[t] = view[t] /\ pc'[t] = pc[t]
          /\ ~Inserted(s)'
      BY <1>4, <2>1, <2>2
      DEF CheckBalanceUnlocked, EnsureWallet, db, locks, Goto, Inserted, TypeOK
    <3> QED BY <2>2, <3>1 DEF MirrorInv, Inserted, Target
  <2>3. CASE ~walletExists
    BY <1>1, <1>4, <2>1, <2>3 DEF CheckBalanceUnlocked, EnsureWallet
  <2> QED BY <2>2, <2>3
<1>5. ASSUME NEW s \in Session, RefuseItem(s) \/ Refuse(s) \/ Abort(s) PROVE MirrorInv'
  BY <1>2, <1>5 DEF RefuseItem, Refuse, Abort, db
<1>6. ASSUME NEW s \in Session, Done(s) PROVE MirrorInv'
  <2>1. CASE owner = s /\ ~walletExists
    <3>1. /\ walletExists' /\ wallet' = view[s] /\ UNCHANGED <<profile, drift>> /\ End(s)
      BY <1>6, <2>1 DEF Done, EndEmpty
    <3>2. \A t \in Session : ~Inserted(t)'
      BY <1>6, <2>1, <3>1, EndLocks DEF LockInv, Exclusive, Writing, Inserted
    <3> QED BY <2>1, <3>1, <3>2 DEF MirrorInv
  <2>2. CASE ~(owner = s /\ ~walletExists)
    BY <1>2, <1>6, <2>2 DEF Done, EndEmpty, db
  <2> QED BY <2>1, <2>2
<1>7. ASSUME NEW s \in Session, Commit(s) PROVE MirrorInv'
  <2>1. /\ walletExists' /\ wallet' = Target(s) /\ pc[s] = "commit" /\ End(s)
        /\ profile' = Patched(columns[s], wallet') /\ drift' = drift \ columns[s]
    BY <1>7 DEF Commit, Target
  <2>2. \A c \in Mirrored \ drift' : profile'[c] = wallet'[c]
    BY <2>1 DEF MirrorInv, Inserted, Patched, Mirrored
  <2>3. \A t \in Session : ~Inserted(t)'
    BY <2>1, EndLocks DEF LockInv, Exclusive, Writing, Inserted
  <2> QED BY <2>1, <2>2, <2>3 DEF MirrorInv
<1>8. ASSUME NEW s \in Session,
             Begin(s) \/ LockItem(s) \/ ReadStock(s) \/ CreditItem(s) \/ Lookup(s)
      PROVE  MirrorInv'
  <2>1. UNCHANGED <<walletExists, wallet, profile, drift, owner, view, row, columns>>
    BY <1>8 DEF Begin, LockItem, ReadStock, CreditItem, Lookup, db, locks, locals
  <2>2. \A t \in Session : Inserted(t)' => Inserted(t)
    <3>1. PICK l : Goto(s, l) /\ (l \in {"stock", "credit", "commit"} => Inserted(s))
      <4>1. ASSUME Begin(s) PROVE \E r \in Request : Goto(s, FirstStep[r.kind])
        BY <4>1 DEF Begin
      <4>2. \A r \in Request : FirstStep[r.kind] \notin {"stock", "credit", "commit"}
        BY RequestType DEF FirstStep, Kind
      <4> QED BY <1>8, <4>1, <4>2 DEF LockItem, ReadStock, CreditItem, Lookup, Inserted
    <3> QED BY <3>1 DEF Goto, Inserted, TypeOK
  <2> QED BY <2>1, <2>2 DEF MirrorInv, Target
<1>9. ASSUME NEW s \in Session, InsertRows(s) PROVE MirrorInv'
  <2>1. /\ UNCHANGED <<walletExists, wallet, profile, drift, owner, view>>
        /\ row'[s] = NewRows(s)
        /\ columns'[s] = Differing(Add(view[s], NewRows(s)))
        /\ \A t \in Session \ {s} : /\ pc'[t] = pc[t] /\ row'[t] = row[t]
                                    /\ columns'[t] = columns[t]
    BY <1>9 DEF InsertRows, Goto, TypeOK, db, locks
  <2>2. \A c \in Mirrored : c \notin columns'[s] => profile[c] = Target(s)'[c]
    BY <2>1 DEF Differing, Target
  <2> QED BY <2>1, <2>2 DEF MirrorInv, Target, Inserted
<1>10. CASE SaveProfile
  <2>1. /\ profile' = Patched(saver.columns, saver.copy)
        /\ drift' = drift \union saver.columns
        /\ UNCHANGED <<walletExists, wallet, owner, pc, view, row, columns>>
    BY <1>10 DEF SaveProfile, locks, session, locals
  <2>2. \A c \in Mirrored \ drift' : profile'[c] = profile[c] /\ c \notin drift
    BY <2>1 DEF Patched, Mirrored
  <2>3. \A t \in Session : /\ Inserted(t)' <=> Inserted(t)
                            /\ Target(t)' = Target(t) /\ columns'[t] = columns[t]
    BY <2>1 DEF Inserted, Target
  <2>4. walletExists' => \A c \in Mirrored \ drift' : profile'[c] = wallet'[c]
    BY <2>1, <2>2 DEF MirrorInv
  <2>5. ~walletExists' => \A t \in Session : owner' = t =>
                            \A c \in Mirrored \ drift' : profile'[c] = view'[t][c]
    BY <2>1, <2>2 DEF MirrorInv
  <2>6. \A t \in Session : Inserted(t)' =>
          \A c \in Mirrored \ drift' : c \notin columns'[t] => profile'[c] = Target(t)'[c]
    BY <2>2, <2>3 DEF MirrorInv
  <2> QED BY <2>4, <2>5, <2>6 DEF MirrorInv
<1>11. CASE ReadProfile \/ CompareProfile \/ UNCHANGED vars
  <2>1. UNCHANGED <<walletExists, wallet, profile, drift, owner, pc, view, row, columns>>
    BY <1>11 DEF ReadProfile, CompareProfile, vars, db, locks, locals, session
  <2> QED BY <2>1 DEF MirrorInv, Inserted, Target
<1> QED
  BY <1>3, <1>4, <1>5, <1>6, <1>7, <1>8, <1>9, <1>10, <1>11 DEF Next, Step

(* Whatever commits, fails or is replayed, and whoever saves the profile   *)
(* meanwhile: a balance there is the wallet's, unless one of those saves   *)
(* wrote it after the last grant that did.                                 *)
THEOREM ProfileIsMirrored == Spec => []ProfileMirrored
<1>1. Init => MirrorInv
  BY SessionAssumption DEF Init, MirrorInv, Inserted
<1>2. TypeOK /\ LockInv /\ MirrorInv /\ [Next]_vars => MirrorInv'
  BY MirrorStep
<1>3. MirrorInv => ProfileMirrored
  BY DEF MirrorInv, ProfileMirrored
<1> QED BY <1>1, <1>2, <1>3, LockDiscipline, PTL DEF Spec
=============================================================================
