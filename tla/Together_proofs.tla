--------------------------- MODULE Together_proofs ---------------------------
(***************************************************************************)
(* Proofs about what users do together.  StudySession, for every number of *)
(* handlers in flight, of heartbeats and of steps, and whatever endpoints  *)
(* are called together; then calls, and the group chat.                    *)
(***************************************************************************)
EXTENDS StudySession, Sequences, FiniteSetTheorems, WellFoundedInduction, TLAPS

Labels == {"idle", "decide", "save", "both", "left", "finalize", "judge", "abandon", "parts",
           "rest", "room", "bonus"}
Saving == {"save", "both"}
RoomField == {"status", "timed", "step", "granted"}
PartField == {"ready", "left", "confirmed", "verified", "acked"}

RowsInv ==
  /\ TypeOK
  /\ active \in [Player -> 0..Need] /\ read \in [Player -> -1..(StepCount - 1)]

CallsInv ==
  /\ pc \in [Call -> Labels] /\ op \in [Call -> Ops \cup JobOps \cup {"none"}]
  /\ me \in [Call -> Player] /\ view \in [Call -> SessionRow]
  /\ seen \in [Call -> [Player -> ParticipantRow]] /\ mine \in [Call -> ParticipantRow]
  /\ patch \in [Call -> SUBSET (RoomField \cup PartField)]
  /\ \A c \in Call : /\ pc[c] = "decide" => op[c] # "none"
                     /\ "solo" \notin ops => op[c] # "solo"

TypeInv == RowsInv /\ CallsInv

LEMMA NewValues ==
  /\ NewPart \in ParticipantRow /\ NewParts \in [Player -> ParticipantRow]
  /\ \A ready : Episode(ready) \in [Player -> ParticipantRow]
  /\ \A status \in Status : NewRoom(status) \in SessionRow
<1>1. 0 \in 0..Need /\ 0 \in 0..(StepCount - 1) /\ -1 \in -1..(StepCount - 1)
      /\ 0 \in -1..(StepCount - 1)
  BY StudyAssumption
<1>2. NewPart \in ParticipantRow
  BY <1>1 DEF NewPart, ParticipantRow
<1>3. NewParts \in [Player -> ParticipantRow]
  BY <1>2 DEF NewParts
<1>4. \A ready : Episode(ready) \in [Player -> ParticipantRow]
  <2> SUFFICES ASSUME NEW ready, NEW p \in Player
               PROVE  [NewPart EXCEPT !.ready = p \in ready,
                                      !.acked = IF "later" \in ops THEN 0 ELSE -1] \in ParticipantRow
    BY DEF Episode
  <2>1. \A b \in BOOLEAN, a \in {0, -1} : [NewPart EXCEPT !.ready = b, !.acked = a] \in ParticipantRow
    BY <1>1 DEF NewPart, ParticipantRow
  <2>2. (p \in ready) \in BOOLEAN /\ (IF "later" \in ops THEN 0 ELSE -1) \in {0, -1}
    OBVIOUS
  <2> QED BY <2>1, <2>2
<1>5. \A status \in Status : NewRoom(status) \in SessionRow
  BY <1>1 DEF NewRoom, SessionRow
<1> QED BY <1>2, <1>3, <1>4, <1>5

(* Saving an object writes the changed columns and leaves the others.      *)
LEMMA PatchedRoom ==
  ASSUME NEW r \in SessionRow, NEW q \in SessionRow, NEW F
  PROVE  /\ Patched(r, q, F) \in SessionRow
         /\ Patched(r, q, F).step \in {r.step, q.step}
<1> DEFINE w == Patched(r, q, F)
<1>1. w = [f \in RoomField |-> IF f \in F THEN q[f] ELSE r[f]]
  BY DEF Patched, SessionRow, RoomField
<1>2. w = [status |-> w.status, timed |-> w.timed, step |-> w.step, granted |-> w.granted]
  BY <1>1 DEF RoomField
<1> QED BY <1>1, <1>2 DEF SessionRow, RoomField

LEMMA PatchedPart ==
  ASSUME NEW r \in ParticipantRow, NEW q \in ParticipantRow, NEW F
  PROVE  /\ Patched(r, q, F) \in ParticipantRow
         /\ Patched(r, q, F).verified = IF "verified" \in F THEN q.verified ELSE r.verified
         /\ Patched(r, q, F).acked = IF "acked" \in F THEN q.acked ELSE r.acked
<1> DEFINE w == Patched(r, q, F)
<1>1. w = [f \in PartField |-> IF f \in F THEN q[f] ELSE r[f]]
  BY DEF Patched, ParticipantRow, PartField
<1>2. w = [ready |-> w.ready, left |-> w.left, confirmed |-> w.confirmed,
           verified |-> w.verified, acked |-> w.acked]
  BY <1>1 DEF PartField
<1> QED BY <1>1, <1>2 DEF ParticipantRow, PartField

LEMMA DiffersIn ==
  /\ \A q, r : r \in SessionRow => Differs(q, r) \subseteq RoomField
  /\ \A q, r : r \in ParticipantRow => Differs(q, r) \subseteq PartField
BY DEF Differs, SessionRow, ParticipantRow, RoomField, PartField

LEMMA Partners ==
  ASSUME TypeInv, NEW c \in Call
  PROVE  Partner(c) \in Player /\ Partner(c) # me[c] /\ Player = {me[c], Partner(c)}
<1>1. me[c] \in Player /\ \E p \in Player : p # me[c]
  BY StudyAssumption DEF TypeInv, CallsInv, Player
<1>2. Partner(c) \in Player /\ Partner(c) # me[c]
  BY <1>1 DEF Partner
<1> QED BY <1>1, <1>2 DEF Player

(* What a handler makes of the room it has read.                           *)
LEMMA Objects ==
  ASSUME TypeInv, NEW c \in Call
  PROVE  /\ Object(c) \in SessionRow
         /\ \/ Object(c).step = view[c].step
            \/ /\ op[c] \in {"ack", "solo"} /\ BothAcked(c)
               /\ Object(c).step = view[c].step + 1
<1> DEFINE v == view[c]
<1>1. v \in SessionRow
  BY DEF TypeInv, CallsInv
<1>2. \A s \in Status : /\ [v EXCEPT !.status = s] \in SessionRow
                        /\ [v EXCEPT !.status = s].step = v.step
  BY <1>1 DEF SessionRow
<1>3. /\ [v EXCEPT !.status = "active", !.timed = TRUE] \in SessionRow
      /\ [v EXCEPT !.status = "active", !.timed = TRUE].step = v.step
  BY <1>1 DEF SessionRow, Status
<1>4. /\ Advanced(v) \in SessionRow
      /\ Advanced(v).step = v.step \/ Advanced(v).step = v.step + 1
  <2>1. CASE v.step >= StepCount - 1
    BY <1>1, <2>1 DEF Advanced
  <2>2. CASE ~(v.step >= StepCount - 1)
    <3>1. v.step + 1 \in 0..(StepCount - 1)
      BY <1>1, <2>2, StudyAssumption DEF SessionRow
    <3> QED BY <1>1, <2>2, <3>1 DEF Advanced, SessionRow
  <2> QED BY <2>1, <2>2
<1>5. {"waiting", "accepted", "declined", "cancelled", "abandoned", "expired", "active"} \subseteq Status
  BY DEF Status, Open, Terminal
<1>6. Readied(c) \in SessionRow /\ Readied(c).step = v.step
  BY <1>1, <1>2, <1>3, <1>5 DEF Readied
<1>7. Accepted \in Status
  BY <1>5 DEF Accepted
<1> HIDE DEF v
<1>8. CASE op[c] \in {"ack", "solo"}
  BY <1>1, <1>4, <1>8 DEF Object, v
<1>9. CASE op[c] \notin {"ack", "solo"}
  <2>1. CASE op[c] \in {"accept", "decline", "cancel", "expire"}
    BY <1>2, <1>5, <1>7, <2>1 DEF Object, v
  <2>2. CASE op[c] = "leave"
    <3>1. \E s \in Status : Object(c) = [v EXCEPT !.status = s]
      BY <1>1, <1>5, <2>2 DEF Object, v, SessionRow
    <3> QED BY <1>2, <3>1 DEF v
  <2>3. CASE op[c] \in {"ready", "start"}
    BY <1>3, <1>6, <2>3 DEF Object, v
  <2>4. CASE op[c] \notin {"accept", "decline", "cancel", "expire", "leave", "ready", "start"}
    BY <1>1, <1>9, <2>4 DEF Object, v
  <2> QED BY <2>1, <2>2, <2>3, <2>4
<1> QED BY <1>8, <1>9

LEMMA Changes ==
  ASSUME TypeInv, NEW c \in Call
  PROVE  /\ part[me[c]] \in ParticipantRow /\ Changed(c) \in ParticipantRow
         /\ Changed(c).verified <= part[me[c]].verified + 1
         /\ Changed(c).acked = IF part[me[c]].acked >= view[c].step THEN part[me[c]].acked
                                                                 ELSE view[c].step
<1> DEFINE r == part[me[c]]
<1>1. r \in ParticipantRow /\ view[c].step \in 0..(StepCount - 1)
  BY DEF TypeInv, RowsInv, CallsInv, TypeOK, SessionRow
<1> HIDE DEF r
<1>2. /\ r.verified \in 0..Need /\ r.verified \in Int
      /\ (IF r.left THEN r.verified ELSE Least(r.verified + 1, Need)) \in 0..Need
      /\ (IF r.left THEN r.verified ELSE Least(r.verified + 1, Need)) <= r.verified + 1
  BY <1>1, StudyAssumption DEF ParticipantRow, Least
<1>3. /\ r.acked \in -1..(StepCount - 1)
      /\ (IF r.acked >= view[c].step THEN r.acked ELSE view[c].step) \in -1..(StepCount - 1)
  BY <1>1, StudyAssumption DEF ParticipantRow
<1>4. Changed(c) = [r EXCEPT !.ready = TRUE, !.left = TRUE, !.confirmed = TRUE,
                             !.verified = IF r.left THEN r.verified ELSE Least(r.verified + 1, Need),
                             !.acked = IF r.acked >= view[c].step THEN r.acked ELSE view[c].step]
  BY <1>1 DEF Changed, r, ParticipantRow
<1>5. /\ Changed(c) \in ParticipantRow
      /\ Changed(c).verified = IF r.left THEN r.verified ELSE Least(r.verified + 1, Need)
      /\ Changed(c).acked = IF r.acked >= view[c].step THEN r.acked ELSE view[c].step
  BY <1>1, <1>2, <1>3, <1>4 DEF ParticipantRow
<1> QED BY <1>1, <1>2, <1>5 DEF r

(* What a handler has decided: its own row as it was read, with what it    *)
(* changes, and with it the partner's if they have read to the end.        *)
LEMMA Decided ==
  ASSUME TypeInv, NEW c \in Call, Decide(c), ~(Repeated(c) \/ NotReady(c))
  PROVE  /\ UNCHANGED <<rows, op, me, late>>
         /\ pc[c] = "decide" /\ pc' = [pc EXCEPT ![c] = pc'[c]] /\ pc'[c] \in Saving
         /\ mine' = [mine EXCEPT ![c] = mine'[c]] /\ mine'[c] \in ParticipantRow
         /\ seen' = [seen EXCEPT ![c] = seen'[c]] /\ seen'[c] \in {seen[c], part}
         /\ pc'[c] = "both" => seen'[c] = part
         /\ patch' = [patch EXCEPT ![c] = patch'[c]] /\ patch'[c] \subseteq RoomField \cup PartField
         /\ view' = [view EXCEPT ![c] = view'[c]] /\ view'[c] \in {view[c], Object(c)}
         /\ mine'[c].verified = IF "verified" \in patch'[c] THEN Changed(c).verified ELSE part[me[c]].verified
         /\ mine'[c].acked = IF "acked" \in patch'[c] THEN Changed(c).acked ELSE part[me[c]].acked
         /\ "acked" \in patch'[c] <=> "acked" \in Own[op[c]] /\ Changed(c).acked # part[me[c]].acked
<1> DEFINE r == part[me[c]]
           d == Differs(Object(c), room)
           e == Differs(Changed(c), r)
           w == Patched(r, Changed(c), Own[op[c]])
           F == (IF Saves(c) THEN d ELSE {}) \cup (IF Starts(c) THEN {"timed"} ELSE {})
                \cup (Own[op[c]] \cap e)
<1>1. /\ UNCHANGED <<rows, op, me, late>> /\ pc[c] = "decide"
      /\ pc' = [pc EXCEPT ![c] = IF ReadThrough(c) THEN "both" ELSE "save"]
      /\ mine' = [mine EXCEPT ![c] = w] /\ patch' = [patch EXCEPT ![c] = F]
      /\ seen' = [seen EXCEPT ![c] = IF ReadThrough(c) THEN part ELSE seen[c]]
      /\ view' = [view EXCEPT ![c] = IF op[c] \in {"beat", "complete"} THEN view[c] ELSE Object(c)]
  BY DEF Decide, Goto
<1>2. r \in ParticipantRow /\ Changed(c) \in ParticipantRow
  BY Changes
<1>3. /\ w \in ParticipantRow
      /\ w.verified = IF "verified" \in Own[op[c]] THEN Changed(c).verified ELSE r.verified
      /\ w.acked = IF "acked" \in Own[op[c]] THEN Changed(c).acked ELSE r.acked
  BY <1>2, PatchedPart
<1>4. d \subseteq RoomField /\ e \subseteq PartField
  BY <1>2, DiffersIn DEF TypeInv, RowsInv, TypeOK
<1>5. /\ "acked" \in e <=> Changed(c).acked # r.acked
      /\ "verified" \in e <=> Changed(c).verified # r.verified
  BY <1>2 DEF Differs, ParticipantRow
<1> HIDE DEF r, d, e, w
<1>6. /\ F \subseteq RoomField \cup PartField
      /\ "acked" \in F <=> "acked" \in Own[op[c]] /\ Changed(c).acked # r.acked
      /\ "verified" \in F <=> "verified" \in Own[op[c]] /\ Changed(c).verified # r.verified
  BY <1>4, <1>5 DEF RoomField
<1> HIDE DEF F
<1>7. mine'[c] = w /\ patch'[c] = F
  BY <1>1 DEF TypeInv, CallsInv
<1>8. /\ pc' = [pc EXCEPT ![c] = pc'[c]] /\ pc'[c] \in Saving
      /\ seen' = [seen EXCEPT ![c] = seen'[c]] /\ seen'[c] \in {seen[c], part}
      /\ pc'[c] = "both" => seen'[c] = part
      /\ view' = [view EXCEPT ![c] = view'[c]] /\ view'[c] \in {view[c], Object(c)}
  BY <1>1 DEF Saving, TypeInv, CallsInv
<1> QED BY <1>1, <1>3, <1>6, <1>7, <1>8 DEF r

(* What a commit makes of the rows: the own one with the changes, and      *)
(* either as it was read or as it is, and the partner's.                   *)
LEMMA SavedRows ==
  ASSUME TypeInv, NEW c \in Call, Save(c)
  PROVE  /\ pc[c] \in Saving /\ part' \in [Player -> ParticipantRow]
         /\ \/ part'[me[c]].verified = mine[c].verified
            \/ "verified" \notin patch[c] /\ part'[me[c]].verified = part[me[c]].verified
         /\ \/ part'[me[c]].acked = mine[c].acked
            \/ "acked" \notin patch[c] /\ part'[me[c]].acked = part[me[c]].acked
         /\ \A p \in Player \ {me[c]} : part'[p] = part[p] \/ (pc[c] = "both" /\ part'[p] = seen[c][p])
<1>1. /\ me[c] \in Player /\ mine[c] \in ParticipantRow /\ part \in [Player -> ParticipantRow]
      /\ seen[c] \in [Player -> ParticipantRow]
  BY DEF TypeInv, RowsInv, CallsInv, TypeOK
<1>2. Partner(c) \in Player /\ Partner(c) # me[c] /\ Player = {me[c], Partner(c)}
  BY Partners
<1>3. PICK own \in OwnRow(c), partners \in PartnerRow(c) :
        part' = [part EXCEPT ![me[c]] = own, ![Partner(c)] = partners]
  BY DEF Save
<1>4. own = Patched(part[me[c]], mine[c], patch[c]) \/ own = mine[c]
  BY DEF OwnRow
<1>5. /\ own \in ParticipantRow
      /\ own.verified = mine[c].verified \/ ("verified" \notin patch[c] /\ own.verified = part[me[c]].verified)
      /\ own.acked = mine[c].acked \/ ("acked" \notin patch[c] /\ own.acked = part[me[c]].acked)
  BY <1>1, <1>4, PatchedPart
<1>6. partners = part[Partner(c)] \/ (pc[c] = "both" /\ partners = seen[c][Partner(c)])
  BY DEF PartnerRow
<1>7. /\ part' \in [Player -> ParticipantRow]
      /\ part'[me[c]] = own /\ part'[Partner(c)] = partners
  BY <1>1, <1>2, <1>3, <1>5, <1>6
<1> QED BY <1>2, <1>5, <1>6, <1>7 DEF Save, Saving

LEMMA InitType == Init => TypeInv
<1> SUFFICES ASSUME Init PROVE TypeInv
  OBVIOUS
<1>1. room \in SessionRow
  <2>1. {"active", "invited", Accepted} \subseteq Status
    BY DEF Accepted, Status, Open
  <2>2. [NewRoom("active") EXCEPT !.timed = TRUE] \in SessionRow
    BY <2>1, NewValues DEF SessionRow, NewRoom
  <2> QED BY <2>1, <2>2, NewValues DEF Init
<1>2. part \in [Player -> ParticipantRow]
  BY NewValues DEF Init
<1>3. RowsInv
  BY <1>1, <1>2, StudyAssumption DEF Init, RowsInv, TypeOK
<1>4. NewRoom("invited") \in SessionRow
  BY NewValues DEF Status, Open
<1>5. CallsInv
  BY <1>4, NewValues DEF Init, CallsInv, Labels, Player
<1> QED BY <1>3, <1>5 DEF TypeInv

LEMMA EndKeeps ==
  ASSUME CallsInv, NEW c \in Call, End(c), ops' = ops
  PROVE  CallsInv'
<1>1. NewRoom("invited") \in SessionRow
  BY NewValues DEF Status, Open
<1> QED BY <1>1, NewValues DEF CallsInv, End, Goto, Labels, Player

LEMMA RoomWritten ==
  ASSUME TypeInv, NEW c \in Call, WriteRoom(c)
  PROVE  /\ room' \in SessionRow
         /\ room'.step \in {room.step, view[c].step}
BY PatchedRoom DEF TypeInv, RowsInv, CallsInv, TypeOK, WriteRoom

LEMMA TypeStep == TypeInv /\ [Next]_vars => TypeInv'
<1> SUFFICES ASSUME TypeInv, [Next]_vars PROVE TypeInv'
  OBVIOUS
<1> USE DEF TypeInv
<1>0. ops' = ops
  BY DEF Next, vars, Tick
<1>1. ASSUME UNCHANGED <<rows, pc, local>>
      PROVE  TypeInv'
  BY <1>0, <1>1 DEF rows, history, local, RowsInv, CallsInv, TypeOK
<1>2. ASSUME NEW c \in Call, End(c), UNCHANGED rows
      PROVE  TypeInv'
  BY <1>0, <1>2, EndKeeps DEF rows, history, RowsInv, TypeOK
<1>3. ASSUME NEW c \in Call, Request(c)
      PROVE  TypeInv'
  <2> PICK o \in ops \cap Ops, p \in Player : Begin(c, o, p) /\ UNCHANGED rows
    BY <1>3 DEF Request
  <2>1. o \in Ops \cup JobOps \cup {"none"} /\ o # "none" /\ ("solo" \notin ops => o # "solo")
    BY DEF Ops
  <2>3. view' \in [Call -> SessionRow]
    BY DEF Begin, CallsInv, RowsInv, TypeOK
  <2>4. CallsInv'
    BY <1>0, <2>1, <2>3 DEF Begin, CallsInv, Goto, Labels
  <2> QED BY <1>0, <2>4 DEF RowsInv, TypeOK, rows, history
<1>4. ASSUME NEW c \in Call, NEW o \in JobOps, NEW l \in {"decide", "finalize"}, JobBegin(c, o, l)
      PROVE  TypeInv'
  <2>1. o \in Ops \cup JobOps \cup {"none"} /\ o # "none" /\ o # "solo"
    BY DEF JobOps
  <2>2. CallsInv'
    BY <1>0, <1>4, <2>1 DEF JobBegin, CallsInv, RowsInv, TypeOK, Goto, Labels
  <2> QED BY <1>4, <2>2 DEF JobBegin, RowsInv, TypeOK, rows, history
<1>5. ASSUME NEW c \in Call, Decide(c)
      PROVE  TypeInv'
  <2>1. CASE Repeated(c) \/ NotReady(c)
    BY <1>2, <1>5, <2>1 DEF Decide
  <2>2. CASE ~(Repeated(c) \/ NotReady(c))
    <3>1. Object(c) \in SessionRow
      BY Objects
    <3>2. /\ UNCHANGED <<rows, op, me, late>>
          /\ pc' = [pc EXCEPT ![c] = pc'[c]] /\ pc'[c] \in Saving
          /\ mine' = [mine EXCEPT ![c] = mine'[c]] /\ mine'[c] \in ParticipantRow
          /\ seen' = [seen EXCEPT ![c] = seen'[c]] /\ seen'[c] \in {seen[c], part}
          /\ patch' = [patch EXCEPT ![c] = patch'[c]] /\ patch'[c] \subseteq RoomField \cup PartField
          /\ view' = [view EXCEPT ![c] = view'[c]] /\ view'[c] \in {view[c], Object(c)}
      BY <1>5, <2>2, Decided
    <3>3. pc' \in [Call -> Labels]
      BY <3>2 DEF CallsInv, Labels, Saving
    <3>4. \A d \in Call : pc'[d] = "decide" => pc[d] = "decide"
      BY <3>2 DEF CallsInv, Saving
    <3>5. mine' \in [Call -> ParticipantRow] /\ view' \in [Call -> SessionRow]
      <4>1. mine \in [Call -> ParticipantRow] /\ view \in [Call -> SessionRow]
        BY DEF CallsInv
      <4>2. mine'[c] \in ParticipantRow /\ view'[c] \in SessionRow
        BY <3>1, <3>2, <4>1
      <4> QED BY <3>2, <4>1, <4>2
    <3>6. seen' \in [Call -> [Player -> ParticipantRow]]
      BY <3>2 DEF CallsInv, RowsInv, TypeOK
    <3>7. patch' \in [Call -> SUBSET (RoomField \cup PartField)]
      BY <3>2 DEF CallsInv
    <3>8. CallsInv'
      BY <1>0, <3>2, <3>3, <3>4, <3>5, <3>6, <3>7 DEF CallsInv
    <3>9. UNCHANGED <<room, part, keys, active, read>>
      BY <3>2 DEF rows, history
    <3> QED BY <3>8, <3>9 DEF RowsInv, TypeOK
  <2> QED BY <2>1, <2>2
<1>6. ASSUME NEW c \in Call, Save(c)
      PROVE  TypeInv'
  <2>1. CallsInv'
    <3>1. CASE Finalize(c)
      BY <1>0, <3>1, NewValues DEF Finalize, Goto, CallsInv, Labels, Player
    <3>2. CASE /\ Goto(c, "left")
               /\ view' = [view EXCEPT ![c] = NewRoom("invited")]
               /\ mine' = [mine EXCEPT ![c] = NewPart] /\ patch' = [patch EXCEPT ![c] = {}]
               /\ UNCHANGED <<op, me, seen, late>>
      <4>1. NewRoom("invited") \in SessionRow
        BY NewValues DEF Status, Open
      <4> QED BY <1>0, <3>2, <4>1, NewValues DEF Goto, CallsInv, Labels
    <3>3. CASE End(c)
      BY <1>0, <3>3, EndKeeps
    <3> QED BY <1>6, <3>1, <3>2, <3>3 DEF Save
  <2>2. room' \in SessionRow
    BY <1>6, RoomWritten DEF Save
  <2>3. part' \in [Player -> ParticipantRow]
    BY <1>6, SavedRows
  <2>4. active' \in [Player -> 0..Need]
    BY <1>6, StudyAssumption DEF Save, RowsInv, CallsInv, Least
  <2>5. read' \in [Player -> -1..(StepCount - 1)]
    BY <1>6 DEF Save, RowsInv, CallsInv, ParticipantRow
  <2> QED BY <1>6, <2>1, <2>2, <2>3, <2>4, <2>5 DEF RowsInv, TypeOK, Save
<1>7. ASSUME NEW c \in Call, TryComplete(c)
      PROVE  TypeInv'
  <2>1. CASE End(c)
    BY <1>2, <1>7, <2>1 DEF TryComplete
  <2>2. CASE ~End(c)
    <3>1. "complete" \in Ops
      BY DEF Ops
    <3>2. CallsInv'
      <4>1. /\ pc' = [pc EXCEPT ![c] = "decide"] /\ op' = [op EXCEPT ![c] = "complete"]
            /\ UNCHANGED <<me, view, seen, mine, patch>>
        BY <1>7, <2>2 DEF TryComplete, Goto
      <4> QED BY <1>0, <3>1, <4>1 DEF CallsInv, Labels
    <3> QED BY <1>7, <3>2 DEF TryComplete, RowsInv, TypeOK, rows, history
  <2> QED BY <2>1, <2>2
<1>8. ASSUME NEW c \in Call, ReadRoom(c)
      PROVE  TypeInv'
  <2>1. CASE End(c)
    BY <1>2, <1>8, <2>1 DEF ReadRoom
  <2>2. CASE ~End(c)
    <3>1. CallsInv'
      BY <1>0, <1>8, <2>2 DEF ReadRoom, CallsInv, RowsInv, TypeOK, Goto, Labels
    <3> QED BY <1>8, <3>1 DEF ReadRoom, RowsInv, TypeOK, rows, history
  <2> QED BY <2>1, <2>2
<1>9. ASSUME NEW c \in Call, ReadParts(c)
      PROVE  TypeInv'
  <2>1. CASE End(c)
    BY <1>2, <1>9, <2>1 DEF ReadParts
  <2>2. CASE ~End(c)
    <3>1. CallsInv'
      BY <1>0, <1>9, <2>2 DEF ReadParts, CallsInv, RowsInv, TypeOK, Goto, Labels
    <3> QED BY <1>9, <3>1 DEF ReadParts, RowsInv, TypeOK, rows, history
  <2> QED BY <2>1, <2>2
<1>10. ASSUME NEW c \in Call, SaveParts(c)
       PROVE  TypeInv'
  <2> DEFINE o == [view[c] EXCEPT !.status = IF pc[c] = "abandon" THEN "abandoned" ELSE Verdict(c)]
  <2>1. o \in SessionRow
    <3>1. (IF pc[c] = "abandon" THEN "abandoned" ELSE Verdict(c)) \in Status
      BY DEF Verdict, Status, Terminal
    <3>2. view[c] \in SessionRow
      BY DEF CallsInv
    <3> QED BY <3>1, <3>2 DEF SessionRow
  <2>2. /\ view' = [view EXCEPT ![c] = o]
        /\ patch' = [patch EXCEPT ![c] = Differs(o, room)]
    BY <1>10 DEF SaveParts
  <2> HIDE DEF o
  <2>3. Differs(o, room) \subseteq RoomField \cup PartField
    BY DiffersIn DEF RowsInv, TypeOK
  <2>4. view' \in [Call -> SessionRow] /\ patch' \in [Call -> SUBSET (RoomField \cup PartField)]
    BY <2>1, <2>2, <2>3 DEF CallsInv
  <2>5. CallsInv'
    BY <1>0, <1>10, <2>4, NewValues DEF SaveParts, CallsInv, Goto, Labels, Player
  <2>6. part' \in [Player -> ParticipantRow]
    BY <1>10 DEF SaveParts, CallsInv, RowsInv, TypeOK
  <2> QED BY <1>10, <2>5, <2>6 DEF SaveParts, RowsInv, TypeOK, history
<1>17. ASSUME NEW c \in Call, SavePart(c)
       PROVE  TypeInv'
  <2>1. PICK p \in Player : /\ part' = [part EXCEPT ![p] = seen[c][p]]
                            /\ me' = [me EXCEPT ![c] = CHOOSE q \in Player : q # p]
    BY <1>17 DEF SavePart
  <2>2. (CHOOSE q \in Player : q # p) \in Player
    BY StudyAssumption DEF Player
  <2>3. CallsInv'
    BY <1>0, <1>17, <2>1, <2>2 DEF SavePart, CallsInv, Goto, Labels
  <2> QED BY <1>17, <2>1, <2>3 DEF SavePart, RowsInv, CallsInv, TypeOK, history
<1>11. ASSUME NEW c \in Call, SaveRoom(c)
       PROVE  TypeInv'
  <2>1. CallsInv'
    <3>1. CASE End(c)
      BY <1>0, <3>1, EndKeeps
    <3>2. CASE ~End(c)
      BY <1>0, <1>11, <3>2 DEF SaveRoom, CallsInv, local, Goto, Labels
    <3> QED BY <3>1, <3>2
  <2>2. room' \in SessionRow
    BY <1>11, RoomWritten DEF SaveRoom
  <2> QED BY <1>11, <2>1, <2>2 DEF SaveRoom, RowsInv, TypeOK, history
<1>12. ASSUME NEW c \in Call, SharedBonus(c)
       PROVE  TypeInv'
  <2>1. CallsInv'
    BY <1>0, <1>12, EndKeeps DEF SharedBonus
  <2>2. room' \in SessionRow /\ keys' \in {{}, Player}
    <3>1. view[c] \in SessionRow
      BY DEF CallsInv
    <3>2. [view[c] EXCEPT !.granted = TRUE] \in SessionRow
      BY <3>1 DEF SessionRow
    <3> QED BY <1>12, <3>2 DEF SharedBonus, RowsInv, TypeOK
  <2> QED BY <1>12, <2>1, <2>2 DEF SharedBonus, RowsInv, TypeOK, history
<1>13. ASSUME NEW c \in Call, Crash(c)
       PROVE  TypeInv'
  BY <1>2, <1>13 DEF Crash
<1>14. CASE UNCHANGED vars \/ Tick
  BY <1>1, <1>14 DEF vars, Tick
<1>15. ASSUME NEW c \in Call, Step(c)
       PROVE  TypeInv'
  BY <1>5, <1>6, <1>7, <1>8, <1>9, <1>10, <1>11, <1>12, <1>15, <1>17 DEF Step
<1>16. ASSUME NEW c \in Call, Expire(c) \/ AutoStart(c) \/ Overdue(c)
       PROVE  TypeInv'
  BY <1>4, <1>16 DEF Expire, AutoStart, Overdue, JobOps
<1> QED BY <1>3, <1>13, <1>14, <1>15, <1>16 DEF Next

(* The values of the rows (TypeOK), whatever object is saved over them:    *)
(* the reading never passes the last step, the shared bonus is paid to     *)
(* both or to nobody.                                                      *)
THEOREM TypeCorrect == Spec => []TypeOK
<1>1. TypeInv => TypeOK
  BY DEF TypeInv, RowsInv
<1> QED BY <1>1, InitType, TypeStep, PTL DEF Spec
-----------------------------------------------------------------------------
(***************************************************************************)
(* The bonus.  A count of heartbeats, in a row or in the copy that a       *)
(* finalization has read, may be too old but is never too high; a          *)
(* heartbeat about to be saved is one ahead.  So a verdict of "completed"  *)
(* speaks the truth and goes on doing so until the bonus is paid.          *)
(***************************************************************************)
Enough == \A p \in Player : active[p] >= Need

CallEarned(c) ==
  /\ \A p \in Player : seen[c][p].verified <= active[p]
  /\ pc[c] \in Saving => mine[c].verified <= active[me[c]] + (IF "verified" \in patch[c] THEN 1 ELSE 0)
  /\ pc[c] = "room" /\ view[c].status = "completed" => Enough
  /\ pc[c] = "bonus" => Enough

EarnedInv ==
  /\ \A p \in Player : part[p].verified <= active[p]
  /\ \A c \in Call : CallEarned(c)
  /\ keys # {} => Enough

LEMMA NobodyHasMore == \A p \in Player : /\ NewParts[p].verified = 0
                                         /\ \A ready : Episode(ready)[p].verified = 0
<1>1. \A r : [NewPart EXCEPT !.ready = r, !.acked = IF "later" \in ops THEN 0 ELSE -1].verified = 0
  BY DEF NewPart
<1> QED BY <1>1 DEF NewParts, NewPart, Episode

LEMMA InitEarned == Init => EarnedInv
<1> SUFFICES ASSUME Init PROVE EarnedInv
  OBVIOUS
<1>1. part = NewParts \/ (\E ready : part = Episode(ready))
  BY DEF Init
<1>2. \A p \in Player : part[p].verified = 0
  BY <1>1, NobodyHasMore
<1>3. \A c \in Call : CallEarned(c)
  BY NobodyHasMore DEF Init, CallEarned, Saving
<1> QED BY <1>2, <1>3 DEF Init, EarnedInv

LEMMA EarnedStep == TypeInv /\ EarnedInv /\ [Next]_vars => EarnedInv'
<1> SUFFICES ASSUME TypeInv, EarnedInv, [Next]_vars PROVE EarnedInv'
  OBVIOUS
<1>0. \A p \in Player : /\ active[p] \in 0..Need /\ active[p] \in Int
                       /\ part[p].verified \in Int
                       /\ \A c \in Call : seen[c][p].verified \in Int
  BY StudyAssumption DEF TypeInv, RowsInv, CallsInv, TypeOK, ParticipantRow
<1> USE DEF Goto
(* One call moves, the others and the history stay.                        *)
<1>1. ASSUME NEW c \in Call, UNCHANGED <<part, active, keys>>, CallEarned(c)',
             \A d \in Call \ {c} : /\ seen'[d] = seen[d] /\ pc'[d] = pc[d] /\ patch'[d] = patch[d]
                                   /\ mine'[d] = mine[d] /\ me'[d] = me[d] /\ view'[d] = view[d]
      PROVE  EarnedInv'
  <2>1. \A d \in Call \ {c} : CallEarned(d)'
    BY <1>1 DEF EarnedInv, CallEarned, Enough
  <2> QED BY <1>1, <2>1 DEF EarnedInv, Enough, CallEarned
<1>2. ASSUME NEW c \in Call, End(c), UNCHANGED <<part, active, keys>>
      PROVE  EarnedInv'
  <2>1. CallEarned(c)'
    BY <1>0, <1>2, NobodyHasMore DEF CallEarned, End, Saving, TypeInv, CallsInv
  <2> QED BY <1>1, <1>2, <2>1 DEF End, TypeInv, CallsInv
<1>3. ASSUME UNCHANGED <<rows, pc, local>>
      PROVE  EarnedInv'
  BY <1>3 DEF rows, local, history, EarnedInv, CallEarned, Enough
<1>4. ASSUME NEW c \in Call, Request(c)
      PROVE  EarnedInv'
  <2>1. UNCHANGED <<part, active, keys, seen, mine, patch>> /\ pc'[c] = "decide"
    BY <1>4 DEF Request, Begin, rows, history, TypeInv, CallsInv
  <2>2. CallEarned(c)'
    BY <2>1 DEF CallEarned, EarnedInv, Saving
  <2> QED BY <1>1, <1>4, <2>1, <2>2 DEF Request, Begin, TypeInv, CallsInv
<1>5. ASSUME NEW c \in Call, Expire(c) \/ AutoStart(c) \/ Overdue(c)
      PROVE  EarnedInv'
  <2>1. UNCHANGED <<part, active, keys, seen, mine, patch, me>> /\ pc'[c] \in {"decide", "finalize"}
    BY <1>5 DEF Expire, AutoStart, Overdue, JobBegin, rows, history, TypeInv, CallsInv
  <2>2. CallEarned(c)'
    BY <2>1 DEF CallEarned, EarnedInv, Saving
  <2> QED BY <1>1, <1>5, <2>1, <2>2 DEF Expire, AutoStart, Overdue, JobBegin, TypeInv, CallsInv
<1>6. ASSUME NEW c \in Call, Decide(c)
      PROVE  EarnedInv'
  <2>1. CASE Repeated(c) \/ NotReady(c)
    BY <1>2, <1>6, <2>1 DEF Decide, rows, history
  <2>2. CASE ~(Repeated(c) \/ NotReady(c))
    <3>1. /\ UNCHANGED <<part, active, keys, me>> /\ pc'[c] \in Saving /\ seen'[c] \in {seen[c], part}
          /\ mine'[c].verified = IF "verified" \in patch'[c] THEN Changed(c).verified
                                                           ELSE part[me[c]].verified
          /\ \A d \in Call \ {c} : /\ seen'[d] = seen[d] /\ pc'[d] = pc[d] /\ patch'[d] = patch[d]
                                   /\ mine'[d] = mine[d] /\ me'[d] = me[d] /\ view'[d] = view[d]
      BY <1>6, <2>2, Decided DEF rows, history, TypeInv, CallsInv
    <3>2. mine'[c].verified <= active[me[c]] + (IF "verified" \in patch'[c] THEN 1 ELSE 0)
      <4>1. me[c] \in Player /\ Changed(c).verified \in Int /\ Changed(c).verified <= part[me[c]].verified + 1
        BY Changes, StudyAssumption DEF TypeInv, CallsInv, ParticipantRow
      <4>2. part[me[c]].verified <= active[me[c]]
        BY <4>1 DEF EarnedInv
      <4> QED BY <1>0, <3>1, <4>1, <4>2
    <3>3. CallEarned(c)'
      BY <3>1, <3>2 DEF CallEarned, EarnedInv, Saving
    <3> QED BY <1>1, <3>1, <3>3
  <2> QED BY <2>1, <2>2
<1>7. ASSUME NEW c \in Call, Save(c)
      PROVE  EarnedInv'
  <2> DEFINE p == me[c]
  <2>1. /\ active' = [active EXCEPT ![p] = IF "verified" \in patch[c] THEN Least(active[p] + 1, Need)
                                                                    ELSE active[p]]
        /\ pc[c] \in Saving /\ keys' = keys
    BY <1>7, SavedRows DEF Save
  <2>2. p \in Player /\ mine[c] \in ParticipantRow /\ mine[c].verified \in 0..Need
    BY DEF TypeInv, CallsInv, ParticipantRow
  <2>3. \A r \in Player : active[r] <= active'[r] /\ active'[r] \in Int
    BY <1>0, <2>1, <2>2, StudyAssumption DEF Least, TypeInv, RowsInv
  <2>4. \A r \in Player : part'[r].verified <= active'[r]
    <3>1. ASSUME NEW r \in Player \ {p} PROVE part'[r].verified <= active'[r]
      <4>1. part'[r] = part[r] \/ part'[r] = seen[c][r]
        BY <1>7, SavedRows
      <4>2. part[r].verified <= active[r] /\ seen[c][r].verified <= active[r]
        BY DEF EarnedInv, CallEarned
      <4> QED BY <1>0, <2>3, <4>1, <4>2
    <3>2. mine[c].verified <= active[p] + (IF "verified" \in patch[c] THEN 1 ELSE 0)
      BY <2>1 DEF EarnedInv, CallEarned
    <3>3. mine[c].verified <= active'[p]
      BY <1>0, <2>1, <2>2, <3>2, StudyAssumption DEF Least, TypeInv, RowsInv
    <3>4. part[p].verified <= active'[p]
      BY <1>0, <2>2, <2>3 DEF EarnedInv
    <3>5. part'[p].verified <= active'[p]
      BY <1>7, <3>3, <3>4, SavedRows
    <3> QED BY <3>1, <3>5
  <2>5. Enough => Enough'
    BY <1>0, <2>3, StudyAssumption DEF Enough
  <2>6. \A d \in Call \ {c} : CallEarned(d)'
    <3> SUFFICES ASSUME NEW d \in Call \ {c} PROVE CallEarned(d)'
      OBVIOUS
    <3>1. /\ seen'[d] = seen[d] /\ pc'[d] = pc[d] /\ patch'[d] = patch[d]
          /\ mine'[d] = mine[d] /\ me'[d] = me[d] /\ view'[d] = view[d]
      BY <1>7 DEF Save, Finalize, End, local, TypeInv, CallsInv
    <3>2. CallEarned(d) /\ me[d] \in Player /\ mine[d].verified \in Int
      BY StudyAssumption DEF EarnedInv, TypeInv, CallsInv, ParticipantRow
    <3>3. active[me[d]] <= active'[me[d]]
      BY <2>3, <3>2
    <3> QED BY <1>0, <2>3, <2>5, <3>1, <3>2, <3>3 DEF CallEarned
  <2>7. CallEarned(c)'
    <3>1. pc'[c] \in {"idle", "finalize", "left"} /\ seen'[c] \in {seen[c], NewParts}
      BY <1>7 DEF Save, Finalize, End, local, TypeInv, CallsInv
    <3>2. \A r \in Player : 0 <= active'[r]
      BY <1>0, <2>3
    <3> QED BY <1>0, <2>3, <3>1, <3>2, NobodyHasMore DEF CallEarned, EarnedInv, Saving
  <2> QED BY <2>1, <2>4, <2>5, <2>6, <2>7 DEF EarnedInv
<1>8. ASSUME NEW c \in Call, TryComplete(c) \/ ReadRoom(c)
      PROVE  EarnedInv'
  <2>1. CASE End(c)
    BY <1>2, <1>8, <2>1 DEF TryComplete, ReadRoom, rows, history
  <2>2. CASE ~End(c)
    <3>1. UNCHANGED <<part, active, keys, seen, mine, patch, me>> /\ pc'[c] \in {"decide", "judge"}
      BY <1>8, <2>2 DEF TryComplete, ReadRoom, rows, history, TypeInv, CallsInv
    <3>2. CallEarned(c)'
      BY <3>1 DEF CallEarned, EarnedInv, Saving
    <3> QED BY <1>1, <1>8, <2>2, <3>1, <3>2 DEF TryComplete, ReadRoom, TypeInv, CallsInv
  <2> QED BY <2>1, <2>2
<1>9. ASSUME NEW c \in Call, ReadParts(c)
      PROVE  EarnedInv'
  <2>1. CASE End(c)
    BY <1>2, <1>9, <2>1 DEF ReadParts, rows, history
  <2>2. CASE ~End(c)
    <3>1. /\ UNCHANGED <<part, active, keys, mine, patch, me, view>> /\ pc'[c] \in {"abandon", "parts"}
          /\ seen' = [seen EXCEPT ![c] = part]
      BY <1>9, <2>2 DEF ReadParts, rows, history, TypeInv, CallsInv
    <3>2. CallEarned(c)'
      BY <3>1 DEF CallEarned, EarnedInv, Saving, TypeInv, CallsInv
    <3> QED BY <1>1, <1>9, <2>2, <3>1, <3>2 DEF ReadParts, TypeInv, CallsInv
  <2> QED BY <2>1, <2>2
<1>10. ASSUME NEW c \in Call, SaveParts(c)
       PROVE  EarnedInv'
  <2>1. /\ \A p \in Player : part'[p] \in {part[p], seen[c][p]}
        /\ UNCHANGED <<active, keys>> /\ pc'[c] = "room" /\ seen'[c] = NewParts
        /\ view'[c] = [view[c] EXCEPT !.status = IF pc[c] = "abandon" THEN "abandoned" ELSE Verdict(c)]
    BY <1>10 DEF SaveParts, history, TypeInv, CallsInv, RowsInv, TypeOK
  <2>2. view'[c].status = "completed" => Enough
    <3>1. view'[c].status = "completed" => Verdict(c) = "completed"
      BY <2>1 DEF TypeInv, CallsInv, SessionRow
    <3>2. Verdict(c) = "completed" => \A p \in Player : seen[c][p].verified >= Need
      BY DEF Verdict, Qualified
    <3> QED BY <1>0, <3>1, <3>2, StudyAssumption DEF Enough, EarnedInv, CallEarned
  <2>3. CallEarned(c)'
    BY <1>0, <2>1, <2>2, NobodyHasMore DEF CallEarned, Enough, Saving
  <2>4. \A d \in Call \ {c} : CallEarned(d)'
    BY <1>10, <2>1 DEF SaveParts, EarnedInv, CallEarned, Enough, TypeInv, CallsInv
  <2>5. \A p \in Player : part'[p].verified <= active'[p]
    BY <2>1 DEF EarnedInv, CallEarned
  <2> QED BY <2>1, <2>3, <2>4, <2>5 DEF EarnedInv, Enough
<1>16. ASSUME NEW c \in Call, SavePart(c)
       PROVE  EarnedInv'
  <2>1. /\ \A p \in Player : part'[p] \in {part[p], seen[c][p]}
        /\ UNCHANGED <<active, keys, seen, mine, patch, view>> /\ pc'[c] = "rest"
        /\ \A d \in Call \ {c} : pc'[d] = pc[d] /\ me'[d] = me[d]
    BY <1>16 DEF SavePart, history, TypeInv, CallsInv, RowsInv, TypeOK
  <2>2. \A p \in Player : part'[p].verified <= active'[p]
    BY <2>1 DEF EarnedInv, CallEarned
  <2>3. \A d \in Call : CallEarned(d)'
    BY <2>1 DEF EarnedInv, CallEarned, Enough, Saving
  <2> QED BY <2>1, <2>2, <2>3 DEF EarnedInv, Enough
<1>11. ASSUME NEW c \in Call, SaveRoom(c)
       PROVE  EarnedInv'
  <2>1. CASE End(c)
    BY <1>2, <1>11, <2>1 DEF SaveRoom, history
  <2>2. CASE ~End(c)
    <3>1. /\ UNCHANGED <<part, active, keys, local>> /\ pc' = [pc EXCEPT ![c] = "bonus"]
          /\ pc[c] = "room" /\ view[c].status = "completed"
      BY <1>11, <2>2 DEF SaveRoom, history
    <3>2. CallEarned(c)'
      BY <3>1 DEF CallEarned, EarnedInv, Enough, Saving, local, TypeInv, CallsInv
    <3> QED BY <1>1, <3>1, <3>2 DEF local, TypeInv, CallsInv
  <2> QED BY <2>1, <2>2
<1>12. ASSUME NEW c \in Call, SharedBonus(c)
       PROVE  EarnedInv'
  <2>1. CASE keys' = keys
    BY <1>2, <1>12, <2>1 DEF SharedBonus, history
  <2>2. CASE keys' # keys
    <3>1. Enough /\ UNCHANGED <<part, active>> /\ End(c)
      BY <1>12, <2>2 DEF SharedBonus, EarnedInv, CallEarned, history
    <3>2. \A d \in Call : CallEarned(d)'
      BY <1>0, <3>1, NobodyHasMore DEF EarnedInv, CallEarned, Enough, End, Saving, TypeInv, CallsInv
    <3> QED BY <3>1, <3>2 DEF EarnedInv, Enough
  <2> QED BY <2>1, <2>2
<1>13. ASSUME NEW c \in Call, Crash(c)
       PROVE  EarnedInv'
  BY <1>2, <1>13 DEF Crash, rows, history
<1>14. CASE UNCHANGED vars \/ Tick
  BY <1>3, <1>14 DEF vars, Tick
<1>15. ASSUME NEW c \in Call, Step(c)
       PROVE  EarnedInv'
  BY <1>6, <1>7, <1>8, <1>9, <1>10, <1>11, <1>12, <1>15, <1>16 DEF Step
<1> QED BY <1>4, <1>5, <1>13, <1>14, <1>15 DEF Next

(* The shared bonus is paid only if both have been active long enough      *)
(* (BonusIsEarned), however many finalizations of stale participants race. *)
THEOREM TheBonusIsEarned == Spec => []BonusIsEarned
<1>1. EarnedInv => BonusIsEarned
  BY DEF EarnedInv, Enough, BonusIsEarned
<1>2. Init => TypeInv /\ EarnedInv
  BY InitType, InitEarned
<1>3. TypeInv /\ EarnedInv /\ [Next]_vars => (TypeInv /\ EarnedInv)'
  BY TypeStep, EarnedStep
<1> QED BY <1>1, <1>2, <1>3, PTL DEF Spec
-----------------------------------------------------------------------------
(***************************************************************************)
(* The reading, unless someone goes on alone.  Acks begin at -1, or at 0   *)
(* in an episode of a later unit: there a step 0 counts as acknowledged by *)
(* both although nobody has read it, and for that very reason nobody can   *)
(* acknowledge it and go past it.  An object that a call holds is no       *)
(* further than both have read, or than its caller is about to have read,  *)
(* and a row that it holds was acknowledged like the rows of the table.    *)
(***************************************************************************)
Acked(b, r, p) == b <= r.acked /\ (r.acked = b \/ r.acked <= read[p])

CallRead(b, c) ==
  /\ pc[c] \in {"parts", "rest", "both"} => \A p \in Player : Acked(b, seen[c][p], p)
  /\ pc[c] \in Saving /\ "acked" \in patch[c] => b <= mine[c].acked
  /\ pc[c] \in Saving /\ "acked" \notin patch[c] => Acked(b, mine[c], me[c])
  /\ \A p \in Player :
       \/ view[c].step <= read[p] + 1
       \/ /\ p = me[c] /\ pc[c] \in Saving /\ "acked" \in patch[c]
          /\ view[c].step <= mine[c].acked + 1

ReadBy(b) ==
  /\ \A p \in Player : room.step <= read[p] + 1 /\ Acked(b, part[p], p)
  /\ \A c \in Call : CallRead(b, c)

ReadInv == "solo" \notin ops => \E b \in {-1, 0} : ReadBy(b)

LEMMA NobodyHasRead ==
  /\ \A p \in Player : NewParts[p].acked = -1
  /\ \A ready : \A p \in Player : Episode(ready)[p].acked = IF "later" \in ops THEN 0 ELSE -1
  /\ \A status : NewRoom(status).step = 0
<1>1. \A r, n : [NewPart EXCEPT !.ready = r, !.acked = n].acked = n
  BY DEF NewPart
<1> QED BY <1>1 DEF NewParts, NewPart, Episode, NewRoom

LEMMA InitRead == Init => ReadInv
<1> SUFFICES ASSUME Init PROVE \E b \in {-1, 0} : ReadBy(b)
  BY DEF ReadInv
<1>1. room.step = 0
  <2>1. [NewRoom("active") EXCEPT !.timed = TRUE].step = NewRoom("active").step
    BY DEF NewRoom
  <2> QED BY <2>1, NobodyHasRead DEF Init
<1>2. PICK b \in {-1, 0} : \A p \in Player : part[p].acked = b
  BY NobodyHasRead DEF Init
<1>3. \A c \in Call : CallRead(b, c)
  BY NobodyHasRead DEF Init, CallRead, Saving
<1>4. ReadBy(b)
  BY <1>1, <1>2, <1>3 DEF Init, ReadBy, Acked
<1> QED BY <1>4

LEMMA ReadStep == TypeInv /\ ReadInv /\ [Next]_vars => ReadInv'
<1> SUFFICES ASSUME TypeInv, ReadInv, [Next]_vars, "solo" \notin ops
             PROVE  \E b \in {-1, 0} : ReadBy(b)'
  BY DEF ReadInv, Next, vars, Tick, ReadBy
<1> PICK b \in {-1, 0} : ReadBy(b)
  BY DEF ReadInv
<1> SUFFICES ReadBy(b)'
  BY DEF ReadBy
<1>0. \A p \in Player : /\ read[p] \in -1..(StepCount - 1) /\ read[p] \in Int
                       /\ part[p].acked \in Int
                       /\ \A c \in Call : /\ seen[c][p].acked \in Int /\ view[c].step \in Int
                                          /\ mine[c].acked \in Int /\ view[c].step >= 0
  BY StudyAssumption DEF TypeInv, RowsInv, CallsInv, TypeOK, ParticipantRow, SessionRow
<1> USE DEF Goto, Saving
(* One call moves, the others and what has been read stay.                 *)
<1>1. ASSUME NEW c \in Call, UNCHANGED <<part, read>>, CallRead(b, c)',
             \A p \in Player : room'.step <= read[p] + 1,
             \A d \in Call \ {c} : /\ seen'[d] = seen[d] /\ pc'[d] = pc[d] /\ patch'[d] = patch[d]
                                   /\ mine'[d] = mine[d] /\ me'[d] = me[d] /\ view'[d] = view[d]
      PROVE  ReadBy(b)'
  <2>1. \A d \in Call \ {c} : CallRead(b, d)'
    BY <1>1 DEF ReadBy, CallRead, Acked
  <2> QED BY <1>1, <2>1 DEF ReadBy, CallRead, Acked
<1>2. ASSUME NEW c \in Call, End(c), UNCHANGED <<part, read>>,
             \A p \in Player : room'.step <= read[p] + 1
      PROVE  ReadBy(b)'
  <2>1. /\ pc'[c] = "idle" /\ view'[c].step = 0
        /\ \A d \in Call \ {c} : /\ seen'[d] = seen[d] /\ pc'[d] = pc[d] /\ patch'[d] = patch[d]
                              /\ mine'[d] = mine[d] /\ me'[d] = me[d] /\ view'[d] = view[d]
    BY <1>2, NobodyHasRead DEF End, TypeInv, CallsInv
  <2>2. CallRead(b, c)'
    BY <1>0, <1>2, <2>1 DEF CallRead
  <2> QED BY <1>1, <1>2, <2>1, <2>2
<1>3. ASSUME UNCHANGED <<rows, pc, local>>
      PROVE  ReadBy(b)'
  BY <1>3 DEF rows, local, history, ReadBy, CallRead, Acked
<1>4. ASSUME NEW c \in Call, Request(c) \/ Expire(c) \/ AutoStart(c) \/ Overdue(c)
      PROVE  ReadBy(b)'
  <2>1. /\ UNCHANGED <<room, part, read, seen, mine, patch>>
        /\ pc[c] = "idle" /\ pc'[c] \in {"decide", "finalize"} /\ view'[c] \in {view[c], room}
    BY <1>4 DEF Request, Begin, Expire, AutoStart, Overdue, JobBegin, rows, history,
                TypeInv, CallsInv
  <2>2. \A d \in Call \ {c} : pc'[d] = pc[d] /\ me'[d] = me[d] /\ view'[d] = view[d]
    BY <1>4 DEF Request, Begin, Expire, AutoStart, Overdue, JobBegin, TypeInv, CallsInv
  <2>3. CallRead(b, c)'
    BY <2>1 DEF ReadBy, CallRead
  <2> QED BY <1>1, <2>1, <2>2, <2>3 DEF ReadBy
<1>5. ASSUME NEW c \in Call, Decide(c)
      PROVE  ReadBy(b)'
  <2>1. CASE Repeated(c) \/ NotReady(c)
    BY <1>2, <1>5, <2>1 DEF Decide, rows, history, ReadBy
  <2>2. CASE ~(Repeated(c) \/ NotReady(c))
    <3>1. /\ UNCHANGED <<room, part, read, me>>
          /\ pc[c] = "decide" /\ pc'[c] \in Saving
          /\ view'[c] \in {view[c], Object(c)}
          /\ pc'[c] = "both" => seen'[c] = part
      BY <1>5, <2>2, Decided DEF rows, history
    <3>2. \A d \in Call \ {c} : /\ seen'[d] = seen[d] /\ pc'[d] = pc[d] /\ patch'[d] = patch[d]
                             /\ mine'[d] = mine[d] /\ me'[d] = me[d] /\ view'[d] = view[d]
      BY <1>5, <2>2, Decided DEF TypeInv, CallsInv
    <3> DEFINE r == part[me[c]]
               v == view[c]
    <3>3. /\ me[c] \in Player /\ Changed(c) \in ParticipantRow /\ r \in ParticipantRow
          /\ Changed(c).acked = IF r.acked >= v.step THEN r.acked ELSE v.step
      BY Changes DEF TypeInv, CallsInv
    <3>4. "acked" \in patch'[c] <=> "acked" \in Own[op[c]] /\ Changed(c).acked # r.acked
      BY <1>5, <2>2, Decided
    <3>5. mine'[c].acked = IF "acked" \in patch'[c] THEN Changed(c).acked ELSE r.acked
      BY <1>5, <2>2, Decided
    <3>6. b <= r.acked /\ r.acked \in Int /\ v.step \in Int /\ Acked(b, r, me[c])
      BY <1>0, <3>3 DEF ReadBy, Acked
    <3>7. /\ "acked" \in patch'[c] => b <= mine'[c].acked
          /\ "acked" \notin patch'[c] => Acked(b, mine'[c], me[c])
      BY <3>3, <3>5, <3>6 DEF Acked
    <3>8. \A p \in Player : v.step <= read[p] + 1
      BY <3>1 DEF ReadBy, CallRead
    <3>9. ASSUME view'[c].step # v.step, NEW p \in Player
          PROVE  \/ view'[c].step <= read[p] + 1
                 \/ p = me[c] /\ "acked" \in patch'[c] /\ view'[c].step <= mine'[c].acked + 1
      <4>1. op[c] = "ack" /\ BothAcked(c) /\ view'[c].step = v.step + 1
        BY <3>1, <3>9, Objects DEF TypeInv, CallsInv
      <4>2. r.acked < v.step /\ part[Partner(c)].acked >= v.step
        BY <2>2, <3>6, <4>1 DEF Repeated, GoesAlone, BothAcked
      <4>3. CASE p = me[c]
        <5>1. "acked" \in Own[op[c]]
          BY <4>1 DEF Own, Ops
        <5>2. Changed(c).acked = v.step /\ Changed(c).acked # r.acked
          BY <3>3, <3>6, <4>2
        <5> QED BY <3>4, <3>5, <3>6, <4>1, <4>3, <5>1, <5>2
      <4>4. CASE p # me[c]
        <5>1. p = Partner(c) /\ Acked(b, part[p], p)
          BY <4>4, Partners DEF ReadBy
        <5>2. part[p].acked <= read[p]
          BY <1>0, <3>6, <4>2, <5>1 DEF Acked
        <5> QED BY <1>0, <3>6, <4>1, <4>2, <5>1, <5>2
      <4> QED BY <4>3, <4>4
    <3>10. CallRead(b, c)'
      <4>1. me'[c] = me[c] /\ read' = read
        BY <3>1
      <4>2. pc'[c] = "both" => \A p \in Player : Acked(b, seen[c][p], p)'
        BY <3>1, <4>1 DEF ReadBy, Acked
      <4> HIDE DEF r, v
      <4> QED BY <3>1, <3>7, <3>8, <3>9, <4>1, <4>2 DEF CallRead, Acked, v
    <3> QED BY <1>1, <3>1, <3>2, <3>10 DEF ReadBy
  <2> QED BY <2>1, <2>2
<1>6. ASSUME NEW c \in Call, Save(c)
      PROVE  ReadBy(b)'
  <2> DEFINE p == me[c]
  <2>1. /\ read' = [read EXCEPT ![p] = IF "acked" \in patch[c] /\ mine[c].acked > read[p]
                                       THEN mine[c].acked ELSE read[p]]
        /\ pc[c] \in Saving /\ WriteRoom(c)
    BY <1>6 DEF Save
  <2>2. p \in Player /\ mine[c] \in ParticipantRow
    BY DEF TypeInv, CallsInv
  <2>3. \A q \in Player : read[q] <= read'[q] /\ read'[q] \in Int
    BY <1>0, <2>1, <2>2 DEF TypeInv, RowsInv
  <2>4. "acked" \in patch[c] => mine[c].acked <= read'[p]
    BY <1>0, <2>1, <2>2 DEF TypeInv, RowsInv
  <2>5. \A q \in Player : view[c].step <= read'[q] + 1
    BY <1>0, <2>1, <2>2, <2>3, <2>4 DEF ReadBy, CallRead
  <2>6. \A q \in Player : room'.step <= read'[q] + 1
    <3>1. room'.step \in {room.step, view[c].step} /\ room.step \in Int
      BY <2>1, RoomWritten, StudyAssumption DEF TypeInv, RowsInv, TypeOK, SessionRow
    <3> QED BY <1>0, <2>3, <2>5, <3>1 DEF ReadBy
  <2>7. \A q \in Player : Acked(b, part[q], q)'
    <3>1. \/ part'[p].acked = mine[c].acked
          \/ "acked" \notin patch[c] /\ part'[p].acked = part[p].acked
      BY <1>6, SavedRows
    <3>2. \A q \in Player \ {p} : part'[q] = part[q] \/ (pc[c] = "both" /\ part'[q] = seen[c][q])
      BY <1>6, SavedRows
    <3>3. CallRead(b, c) /\ \A q \in Player : Acked(b, part[q], q)
      BY DEF ReadBy
    <3>4. b <= part'[p].acked /\ (part'[p].acked = b \/ part'[p].acked <= read'[p])
      <4>1. CASE "acked" \in patch[c]
        BY <1>0, <2>1, <2>2, <2>3, <2>4, <3>1, <3>3, <4>1 DEF CallRead
      <4>2. CASE "acked" \notin patch[c]
        BY <1>0, <2>1, <2>2, <2>3, <3>1, <3>3, <4>2 DEF CallRead, Acked
      <4> QED BY <4>1, <4>2
    <3>5. \A q \in Player \ {p} : Acked(b, part[q], q)'
      BY <1>0, <2>3, <3>2, <3>3 DEF CallRead, Acked
    <3> QED BY <3>4, <3>5 DEF Acked
  <2>8. \A d \in Call \ {c} : CallRead(b, d)'
    <3> SUFFICES ASSUME NEW d \in Call \ {c} PROVE CallRead(b, d)'
      OBVIOUS
    <3>1. /\ seen'[d] = seen[d] /\ pc'[d] = pc[d] /\ patch'[d] = patch[d]
          /\ mine'[d] = mine[d] /\ me'[d] = me[d] /\ view'[d] = view[d]
      BY <1>6 DEF Save, Finalize, End, local, TypeInv, CallsInv
    <3>2. CallRead(b, d) /\ me[d] \in Player
      BY DEF ReadBy, TypeInv, CallsInv
    <3>3. pc[d] \in {"parts", "rest", "both"} => \A q \in Player : Acked(b, seen[d][q], q)'
      BY <1>0, <2>3, <3>1, <3>2 DEF CallRead, Acked
    <3>5. pc[d] \in Saving /\ "acked" \notin patch[d] => Acked(b, mine[d], me[d])'
      BY <1>0, <2>3, <3>1, <3>2 DEF CallRead, Acked
    <3>4. \A q \in Player, n \in Int : n <= read[q] + 1 => n <= read'[q] + 1
      BY <1>0, <2>3
    <3> QED BY <1>0, <3>1, <3>2, <3>3, <3>4, <3>5 DEF CallRead
  <2>9. CallRead(b, c)'
    <3>1. pc'[c] \in {"idle", "finalize", "left"} /\ view'[c] \in {view[c], NewRoom("invited")}
      BY <1>6 DEF Save, Finalize, End, local, TypeInv, CallsInv
    <3>2. \A q \in Player : 0 <= read'[q] + 1
      BY <1>0, <2>3
    <3> QED BY <2>5, <3>1, <3>2, NobodyHasRead DEF CallRead
  <2> QED BY <2>6, <2>7, <2>8, <2>9 DEF ReadBy, Acked
<1>7. ASSUME NEW c \in Call, TryComplete(c) \/ ReadRoom(c) \/ ReadParts(c)
      PROVE  ReadBy(b)'
  <2>1. UNCHANGED <<room, part, read>>
    BY <1>7 DEF TryComplete, ReadRoom, ReadParts, rows, history
  <2>2. CASE End(c)
    BY <1>2, <2>1, <2>2 DEF ReadBy
  <2>3. CASE ~End(c)
    <3>1. /\ pc'[c] \in {"decide", "judge", "abandon"} \/ (pc'[c] = "parts" /\ seen'[c] = part)
          /\ view'[c] \in {view[c], room} /\ pc[c] \notin Saving
      BY <1>7, <2>3 DEF TryComplete, ReadRoom, ReadParts, TypeInv, CallsInv
    <3>2. \A d \in Call \ {c} : /\ seen'[d] = seen[d] /\ pc'[d] = pc[d] /\ patch'[d] = patch[d]
                             /\ mine'[d] = mine[d] /\ me'[d] = me[d] /\ view'[d] = view[d]
      BY <1>7, <2>3 DEF TryComplete, ReadRoom, ReadParts, TypeInv, CallsInv
    <3>3. \A q \in Player : view'[c].step <= read[q] + 1
      BY <1>0, <3>1, NobodyHasRead DEF ReadBy, CallRead
    <3>4. CallRead(b, c)'
      BY <2>1, <3>1, <3>3 DEF CallRead, ReadBy, Acked
    <3> QED BY <1>1, <2>1, <3>2, <3>4 DEF ReadBy
  <2> QED BY <2>2, <2>3
<1>8. ASSUME NEW c \in Call, SaveParts(c)
      PROVE  ReadBy(b)'
  <2>1. /\ pc[c] \in {"abandon", "rest"} /\ pc'[c] = "room" /\ UNCHANGED <<room, read>>
        /\ \A q \in Player : part'[q] = part[q] \/ (pc[c] = "rest" /\ part'[q] = seen[c][q])
        /\ view'[c] = [view[c] EXCEPT !.status = IF pc[c] = "abandon" THEN "abandoned" ELSE Verdict(c)]
        /\ \A d \in Call \ {c} : /\ seen'[d] = seen[d] /\ pc'[d] = pc[d] /\ patch'[d] = patch[d]
                              /\ mine'[d] = mine[d] /\ me'[d] = me[d] /\ view'[d] = view[d]
    BY <1>8 DEF SaveParts, history, TypeInv, CallsInv, RowsInv, TypeOK
  <2>2. view'[c].step = view[c].step
    BY <2>1 DEF TypeInv, CallsInv, SessionRow
  <2>3. CallRead(b, c)'
    BY <2>1, <2>2 DEF CallRead, ReadBy
  <2>4. \A d \in Call \ {c} : CallRead(b, d)'
    BY <2>1 DEF ReadBy, CallRead, Acked
  <2>5. \A q \in Player : Acked(b, part[q], q)'
    BY <2>1 DEF ReadBy, CallRead, Acked
  <2> QED BY <2>1, <2>3, <2>4, <2>5 DEF ReadBy, Acked, CallRead
<1>13. ASSUME NEW c \in Call, SavePart(c)
       PROVE  ReadBy(b)'
  <2>1. /\ pc[c] = "parts" /\ pc'[c] = "rest" /\ UNCHANGED <<room, read, view, seen, patch>>
        /\ \A q \in Player : part'[q] \in {part[q], seen[c][q]}
        /\ \A d \in Call \ {c} : pc'[d] = pc[d] /\ mine'[d] = mine[d] /\ me'[d] = me[d]
    BY <1>13 DEF SavePart, history, TypeInv, CallsInv, RowsInv, TypeOK
  <2>2. CallRead(b, c) /\ \A q \in Player : Acked(b, part[q], q)
    BY DEF ReadBy
  <2>3. CallRead(b, c)'
    BY <2>1, <2>2 DEF CallRead, Acked
  <2>4. \A d \in Call \ {c} : CallRead(b, d)'
    BY <2>1 DEF ReadBy, CallRead, Acked
  <2>5. \A q \in Player : Acked(b, part[q], q)'
    BY <2>1, <2>2 DEF CallRead, Acked
  <2> QED BY <2>1, <2>3, <2>4, <2>5 DEF ReadBy, Acked
<1>9. ASSUME NEW c \in Call, SaveRoom(c) \/ SharedBonus(c)
      PROVE  ReadBy(b)'
  <2>1. UNCHANGED <<part, read>> /\ pc[c] \in {"room", "bonus"}
    BY <1>9 DEF SaveRoom, SharedBonus, history
  <2>2. room'.step \in {room.step, view[c].step}
    <3>1. CASE SaveRoom(c)
      BY <3>1, RoomWritten DEF SaveRoom
    <3>2. CASE SharedBonus(c)
      <4>1. [view[c] EXCEPT !.granted = TRUE].step = view[c].step
        BY DEF TypeInv, CallsInv, SessionRow
      <4> QED BY <3>2, <4>1 DEF SharedBonus
    <3> QED BY <1>9, <3>1, <3>2
  <2>3. \A q \in Player : room'.step <= read[q] + 1
    BY <2>1, <2>2 DEF ReadBy, CallRead
  <2>4. CASE End(c)
    BY <1>2, <2>1, <2>3, <2>4
  <2>5. CASE ~End(c)
    <3>1. UNCHANGED local /\ pc' = [pc EXCEPT ![c] = "bonus"]
      BY <1>9, <2>5 DEF SaveRoom, SharedBonus
    <3>2. CallRead(b, c)'
      BY <2>1, <3>1 DEF CallRead, ReadBy, local, TypeInv, CallsInv
    <3> QED BY <1>1, <2>1, <2>3, <3>1, <3>2 DEF local, TypeInv, CallsInv
  <2> QED BY <2>4, <2>5
<1>10. ASSUME NEW c \in Call, Crash(c)
       PROVE  ReadBy(b)'
  BY <1>2, <1>10 DEF Crash, rows, history, ReadBy
<1>11. CASE UNCHANGED vars \/ Tick
  BY <1>3, <1>11 DEF vars, Tick
<1>12. ASSUME NEW c \in Call, Step(c)
       PROVE  ReadBy(b)'
  BY <1>5, <1>6, <1>7, <1>8, <1>9, <1>12, <1>13 DEF Step
<1> QED BY <1>4, <1>10, <1>11, <1>12 DEF Next

(* The reading goes on only past steps that both have acknowledged, unless *)
(* the creator goes on alone (StepsReadByBoth), although a finalization    *)
(* may take acks back and a late save may take the room's step back.       *)
THEOREM StepsAreReadByBoth == Spec => []StepsReadByBoth
<1>1. ReadInv => StepsReadByBoth
  BY DEF ReadInv, ReadBy, StepsReadByBoth
<1>2. Init => TypeInv /\ ReadInv
  BY InitType, InitRead
<1>3. TypeInv /\ ReadInv /\ [Next]_vars => (TypeInv /\ ReadInv)'
  BY TypeStep, ReadStep
<1> QED BY <1>1, <1>2, <1>3, PTL DEF Spec
-----------------------------------------------------------------------------
(* Calls: the keys that keep a user in one call, over any number of users, *)
(* calls and handlers.                                                     *)
CONSTANTS Person, CallId, Caller, Callee, Handler, Roaming, Beyond
VARIABLES state, stale, inCall, timer, grace, hand, marred, torn
Calls == INSTANCE Calls

(* What a handler may be about to do.                                      *)
Invited == CallId \union {Calls!NoCall}
Seeking == [at : {"look", "drop"}, who : Person, invite : Invited]
Calling == [at : {"save", "keys"}, call : CallId, who : Person, invite : Invited,
             to : {"new", "busy", "ringing", "connecting", "active", "ended"}]
Job(r) ==
  /\ r \in {Calls!Free} \union Seeking \union Calling
  /\ r.at \in {"save", "keys"} /\ r.to \in {"new", "busy"} => r.invite = Calls!NoCall
  /\ r.at = "keys" => r.to \in {"new", "ended"}
Typed ==
  /\ Calls!TypeOK
  /\ hand = [h \in Handler |-> hand[h]] /\ \A h \in Handler : Job(hand[h])

(* What a handler has read still is so: an invitation that goes on is of a *)
(* call that does not exist, and who was looked at before is in none.      *)
GoesOn(r) ==
  r.invite # Calls!NoCall =>
    /\ state[r.invite] = "none" /\ r.who \in Calls!Parties(r.invite)
    /\ r.who = Callee[r.invite] =>
         inCall[Caller[r.invite]] \in {Calls!NoCall} \union (IF r.at \in {"save", "keys"} THEN {r.call} ELSE {})
    /\ r.at \in {"save", "keys"} => inCall[r.who] \in {Calls!NoCall, r.call}
Fresh(r) ==
  CASE r.at = "free" -> TRUE
    [] r.at = "look" -> GoesOn(r)
    [] r.at = "drop" -> GoesOn(r) /\ (inCall[r.who] = Calls!NoCall \/ state[inCall[r.who]] = "ended")
    [] r.at = "save" ->
         /\ GoesOn(r)
         /\ r.to \in {"new", "busy"} <=> state[r.call] = "none"
         /\ r.to \notin {"new", "busy"} => Calls!Live(r.call)
         /\ r.to = "new" => \A u \in Calls!Parties(r.call) : inCall[u] = Calls!NoCall
    [] r.at = "keys" ->
         /\ GoesOn(r)
         /\ r.to = "ended" => state[r.call] = "ended"
         /\ r.to = "new" => Calls!Live(r.call) /\ \A u \in Calls!Parties(r.call) : inCall[u] = Calls!NoCall
Apart == \A g, h \in Handler : g # h => Calls!Concern(hand[g]) \intersect Calls!Concern(hand[h]) = {}

(* The keys name the calls that live, but for those just being written.    *)
Writes(k, to) == \E h \in Handler : hand[h].at = "keys" /\ hand[h].call = k /\ hand[h].to = to
KeysAreRight ==
  \A k \in CallId, u \in Person :
    /\ inCall[u] = k => u \in Calls!Parties(k) /\ state[k] # "none"
    /\ inCall[u] = k /\ state[k] = "ended" => torn \/ Writes(k, "ended")
    /\ Calls!Live(k) /\ u \in Calls!Parties(k) => inCall[u] = k \/ Writes(k, "new")

RingsInv == Typed /\ (~marred => Apart /\ (\A h \in Handler : Fresh(hand[h])) /\ KeysAreRight)

LEMMA CallsInit == ASSUME Calls!CallsAssumption, Calls!Init PROVE RingsInv
<1> USE DEF Calls!Init, Calls!Free
<1>1. Typed
  BY DEF Typed, Job, Calls!TypeOK, Calls!State
<1>2. Apart /\ \A h \in Handler : Fresh(hand[h])
  BY DEF Apart, Fresh, Calls!Concern
<1>3. KeysAreRight
  BY DEF KeysAreRight, Calls!Live, Calls!CallsAssumption
<1> QED BY <1>1, <1>2, <1>3 DEF RingsInv

LEMMA PartiesAreUsers ==
  ASSUME Calls!CallsAssumption, NEW k \in CallId
  PROVE  /\ Calls!Parties(k) \subseteq Person /\ Caller[k] # Callee[k] /\ k # Calls!NoCall
         /\ Caller[k] \in Calls!Parties(k) /\ Callee[k] \in Calls!Parties(k)
BY DEF Calls!CallsAssumption, Calls!Parties

(* A handler does not notice what is done to users it is not concerned with. *)
LEMMA Bystander ==
  ASSUME Calls!CallsAssumption, Typed, KeysAreRight, NEW r, Job(r), Fresh(r), NEW C,
         Calls!Concern(r) \intersect C = {},
         \A k \in CallId : state'[k] # state[k] => Calls!Parties(k) \subseteq C,
         \A u \in Person : inCall'[u] # inCall[u] => u \in C
  PROVE  Fresh(r)'
<1>1. ASSUME NEW k \in CallId, Calls!Parties(k) \intersect Calls!Concern(r) # {} PROVE state'[k] = state[k]
  BY <1>1
<1>2. ASSUME NEW u \in Person, u \in Calls!Concern(r) PROVE inCall'[u] = inCall[u]
  BY <1>2
<1>3. ASSUME r.at # "free" PROVE r.who \in Person /\ r.invite \in Invited /\ r.who \in Calls!Concern(r)
  BY <1>3 DEF Job, Seeking, Calling, Calls!Free, Calls!Concern
<1>4. ASSUME r.at # "free", r.invite # Calls!NoCall
      PROVE  /\ state'[r.invite] = state[r.invite]
             /\ Caller[r.invite] \in Person /\ inCall'[Caller[r.invite]] = inCall[Caller[r.invite]]
  <2>1. r.invite \in CallId /\ Calls!Parties(r.invite) \subseteq Calls!Concern(r)
    BY <1>3, <1>4 DEF Invited, Calls!Concern
  <2>2. Caller[r.invite] \in Calls!Concern(r) /\ Caller[r.invite] \in Person
        /\ Caller[r.invite] \in Calls!Parties(r.invite)
    BY <2>1, PartiesAreUsers
  <2>3. state'[r.invite] = state[r.invite]
    BY <2>1, <2>2, <1>1
  <2> QED BY <2>2, <2>3, <1>2
<1>5. ASSUME r.at \in {"save", "keys"}
      PROVE  /\ r.call \in CallId /\ state'[r.call] = state[r.call]
             /\ \A u \in Calls!Parties(r.call) : inCall'[u] = inCall[u]
  <2>1. r.call \in CallId /\ Calls!Parties(r.call) \subseteq Calls!Concern(r)
    BY <1>5 DEF Job, Seeking, Calling, Calls!Free, Calls!Concern
  <2>2. Caller[r.call] \in Calls!Parties(r.call) /\ Calls!Parties(r.call) \subseteq Person
    BY <2>1, PartiesAreUsers
  <2>3. state'[r.call] = state[r.call]
    BY <2>1, <2>2, <1>1
  <2> QED BY <2>1, <2>2, <2>3, <1>2
<1>6. ASSUME r.at # "free", GoesOn(r) PROVE GoesOn(r)'
  BY <1>2, <1>3, <1>4, <1>6 DEF GoesOn, Calls!Parties
<1>7. ASSUME r.at = "drop", inCall[r.who] # Calls!NoCall PROVE state'[inCall[r.who]] = state[inCall[r.who]]
  <2>1. r.who \in Person /\ r.who \in Calls!Concern(r) /\ inCall[r.who] \in CallId
    BY <1>3, <1>7 DEF Typed, Calls!TypeOK
  <2>2. r.who \in Calls!Parties(inCall[r.who])
    BY <2>1 DEF KeysAreRight
  <2> QED BY <2>1, <2>2, <1>1
<1>8. r.at \in {"free", "look", "drop", "save", "keys"}
  BY DEF Job, Seeking, Calling, Calls!Free
<1>9. CASE r.at \in {"free", "look"}
  BY <1>6, <1>9 DEF Fresh
<1>10. CASE r.at = "drop"
  BY <1>2, <1>3, <1>6, <1>7, <1>10 DEF Fresh
<1>11. CASE r.at = "save"
  <2>1. Calls!Live(r.call)' <=> Calls!Live(r.call)
    BY <1>5, <1>11 DEF Calls!Live
  <2>2. (\A u \in Calls!Parties(r.call) : inCall[u] = Calls!NoCall)
          => (\A u \in Calls!Parties(r.call) : inCall'[u] = Calls!NoCall)
    BY <1>5, <1>11
  <2>3. state'[r.call] = state[r.call] /\ GoesOn(r)'
    BY <1>5, <1>6, <1>11 DEF Fresh
  <2> QED BY <1>11, <2>1, <2>2, <2>3 DEF Fresh, Calls!Parties
<1>12. CASE r.at = "keys"
  <2>1. Calls!Live(r.call)' <=> Calls!Live(r.call)
    BY <1>5, <1>12 DEF Calls!Live
  <2>2. (\A u \in Calls!Parties(r.call) : inCall[u] = Calls!NoCall)
          => (\A u \in Calls!Parties(r.call) : inCall'[u] = Calls!NoCall)
    BY <1>5, <1>12
  <2>3. state'[r.call] = state[r.call] /\ GoesOn(r)'
    BY <1>5, <1>6, <1>12 DEF Fresh
  <2> QED BY <1>12, <2>1, <2>2, <2>3 DEF Fresh, Calls!Parties
<1> QED BY <1>8, <1>9, <1>10, <1>11, <1>12

(* One handler goes on to r, within what it is concerned with.             *)
LEMMA HandGoesOn ==
  ASSUME Calls!CallsAssumption, RingsInv, NEW h \in Handler, NEW r, Job(r), Calls!Becomes(h, r),
         Calls!TypeOK',
         ~marred => \A k \in CallId : state'[k] # state[k] => Calls!Parties(k) \subseteq Calls!Concern(hand[h]),
         ~marred => \A u \in Person : inCall'[u] # inCall[u] => u \in Calls!Concern(hand[h]),
         ~marred => Fresh(r)' /\ KeysAreRight'
  PROVE  RingsInv'
<1>1. /\ hand' = [g \in Handler |-> hand'[g]] /\ hand'[h] = r
      /\ \A g \in Handler \ {h} : hand'[g] = hand[g]
  BY DEF Calls!Becomes, RingsInv, Typed
<1>2. Typed'
  BY <1>1 DEF RingsInv, Typed, Job, Seeking, Calling, Invited, Calls!Free
<1>3. ASSUME ~marred' PROVE Apart' /\ (\A g \in Handler : Fresh(hand[g])') /\ KeysAreRight'
  <2>1. /\ ~marred /\ Apart /\ KeysAreRight /\ \A g \in Handler : Fresh(hand[g])
        /\ \A g \in Handler \ {h} : Calls!Concern(hand[g]) \intersect Calls!Concern(r) = {}
    BY <1>3 DEF Calls!Becomes, RingsInv
  <2>2. ASSUME NEW f \in Handler, NEW g \in Handler, f # g
        PROVE  Calls!Concern(hand'[f]) \intersect Calls!Concern(hand'[g]) = {}
    BY <1>1, <2>1, <2>2 DEF Apart
  <2>3. ASSUME NEW g \in Handler PROVE Fresh(hand[g])'
    <3>1. CASE g = h
      BY <1>1, <2>1, <3>1 DEF Fresh, GoesOn
    <3>2. CASE g # h
      <4>1. Calls!Concern(hand[g]) \intersect Calls!Concern(hand[h]) = {}
        BY <2>1, <3>2 DEF Apart
      <4>2. Fresh(hand[g]) /\ Job(hand[g]) /\ Typed
        BY <2>1 DEF RingsInv, Typed
      <4> DEFINE q == hand[g]
      <4>3. Job(q) /\ Fresh(q) /\ Calls!Concern(q) \intersect Calls!Concern(hand[h]) = {}
        BY <4>1, <4>2
      <4>4. hand'[g] = q
        BY <1>1, <3>2
      <4>5. PICK p : p = q
        OBVIOUS
      <4>6. Fresh(p)'
        BY <2>1, <4>2, <4>3, <4>5, Bystander
      <4> QED BY <4>4, <4>5, <4>6 DEF Fresh, GoesOn
    <3> QED BY <3>1, <3>2
  <2> QED BY <2>1, <2>2, <2>3 DEF Apart, Calls!Concern
<1> QED BY <1>2, <1>3 DEF RingsInv

(* Only a handler that writes keys stops writing them.                     *)
LEMMA WritesGoOn ==
  ASSUME Typed, NEW h \in Handler, NEW r, Calls!Becomes(h, r),
         NEW k, NEW to, Writes(k, to), ~(hand[h].at = "keys" /\ hand[h].call = k /\ hand[h].to = to)
  PROVE  Writes(k, to)'
BY DEF Writes, Calls!Becomes, Typed

LEMMA KeysStay ==
  ASSUME Typed, KeysAreRight, NEW h \in Handler, NEW r, Calls!Becomes(h, r), hand[h].at # "keys",
         UNCHANGED <<state, inCall, torn>>
  PROVE  KeysAreRight'
<1>1. \A k \in CallId, to \in {"new", "ended"} : Writes(k, to) => Writes(k, to)'
  BY WritesGoOn
<1> QED BY <1>1 DEF KeysAreRight, Calls!Live, Calls!Parties

(* A handler that begins or looks changes no row and no key.               *)
LEMMA HandLooks ==
  ASSUME Calls!CallsAssumption, RingsInv, NEW h \in Handler, NEW r, Job(r), Calls!Becomes(h, r),
         hand[h].at # "keys", UNCHANGED <<state, inCall, torn>>, Calls!TypeOK', ~marred => Fresh(r)
  PROVE  RingsInv'
<1>1. ~marred => Fresh(r)'
  BY DEF Fresh, GoesOn, Calls!Live, Calls!Parties
<1>2. ~marred => KeysAreRight'
  BY KeysStay DEF RingsInv
<1> QED BY <1>1, <1>2, HandGoesOn

LEMMA BeginSteps ==
  ASSUME Calls!CallsAssumption, RingsInv, NEW h \in Handler, NEW k \in CallId,
         \/ Calls!Invite(h, k) \/ Calls!Accept(h, k) \/ Calls!Connected(h, k)
         \/ Calls!Upgrade(h, k) \/ Calls!HangUp(h, k) \/ Calls!Unanswered(h, k)
  PROVE  RingsInv'
<1> USE DEF Calls!Begins
<1>0. Caller[k] \in Person /\ Callee[k] \in Person /\ Caller[k] \in Calls!Parties(k) /\ Caller[k] # Callee[k]
      /\ k # Calls!NoCall
  BY PartiesAreUsers
<1>t. marred' \in BOOLEAN
  BY DEF RingsInv, Typed, Calls!TypeOK, Calls!Becomes, Calls!Invite, Calls!Accept, Calls!Connected,
     Calls!Upgrade, Calls!HangUp, Calls!Unanswered
<1>1. CASE Calls!Invite(h, k)
  <2>r. PICK r : r = Calls!LookAt(Caller[k], k)
    OBVIOUS
  <2>1. Job(r) /\ Fresh(r)
    BY <2>r, <1>0, <1>1 DEF Calls!Invite, Calls!LookAt, Job, Seeking, Invited, Fresh, GoesOn
  <2>2. Calls!Becomes(h, r) /\ hand[h].at # "keys" /\ UNCHANGED <<state, stale, inCall, timer, grace, torn>>
    BY <1>1, <2>r DEF Calls!Invite, Calls!Free
  <2>3. Calls!TypeOK'
    BY <1>t, <2>2 DEF RingsInv, Typed, Calls!TypeOK
  <2> QED BY <2>1, <2>2, <2>3, HandLooks
<1>2. ASSUME NEW to \in {"ringing", "connecting", "active", "ended"}, NEW u \in Person, Calls!Live(k),
             hand[h] = Calls!Free, Calls!Becomes(h, Calls!Change(k, to, u, Calls!NoCall)),
             UNCHANGED <<state, stale, inCall, grace, torn>>, timer' \subseteq CallId
      PROVE  RingsInv'
  <2>r. PICK r : r = Calls!Change(k, to, u, Calls!NoCall)
    OBVIOUS
  <2>1. Job(r) /\ Fresh(r)
    BY <1>2, <2>r DEF Calls!Change, Job, Calling, Invited, Fresh, GoesOn, Calls!Live
  <2>2. Calls!TypeOK'
    BY <1>2, <1>t DEF RingsInv, Typed, Calls!TypeOK
  <2>3. Calls!Becomes(h, r) /\ hand[h].at # "keys"
    BY <1>2, <2>r DEF Calls!Free
  <2> QED BY <1>2, <2>1, <2>2, <2>3, HandLooks
<1>3. CASE Calls!Accept(h, k)
  BY <1>0, <1>2, <1>3 DEF Calls!Accept, Calls!Live, RingsInv, Typed, Calls!TypeOK
<1>4. CASE Calls!Connected(h, k)
  BY <1>0, <1>2, <1>4 DEF Calls!Connected, Calls!Live, RingsInv, Typed, Calls!TypeOK
<1>5. CASE Calls!Upgrade(h, k)
  BY <1>0, <1>2, <1>5 DEF Calls!Upgrade, Calls!Live, RingsInv, Typed, Calls!TypeOK
<1>6. CASE Calls!HangUp(h, k)
  BY <1>0, <1>2, <1>6 DEF Calls!HangUp, Calls!End, Calls!Live, RingsInv, Typed, Calls!TypeOK
<1>7. CASE Calls!Unanswered(h, k)
  <2>1. CASE state[k] = "ringing"
    BY <1>0, <1>2, <1>7, <2>1 DEF Calls!Unanswered, Calls!End, Calls!Live, RingsInv, Typed, Calls!TypeOK
  <2>2. CASE state[k] # "ringing"
    <3>r. PICK r : r = Calls!Free
      OBVIOUS
    <3>1. Job(r) /\ Fresh(r) /\ Calls!Becomes(h, r)
      BY <1>7, <2>2, <3>r DEF Calls!Unanswered, Job, Fresh, Calls!Free
    <3>2. hand[h].at # "keys" /\ UNCHANGED <<state, stale, inCall, grace, torn>> /\ timer' = timer \ {k}
      BY <1>7 DEF Calls!Unanswered, Calls!Free
    <3>3. Calls!TypeOK'
      BY <1>t, <3>2 DEF RingsInv, Typed, Calls!TypeOK
    <3> QED BY <3>1, <3>2, <3>3, HandLooks
  <2> QED BY <2>1, <2>2
<1> QED BY <1>1, <1>3, <1>4, <1>5, <1>6, <1>7

LEMMA ReleaseStep ==
  ASSUME Calls!CallsAssumption, RingsInv, NEW h \in Handler, NEW u \in Person, Calls!Release(h, u)
  PROVE  RingsInv'
<1> DEFINE r == Calls!LookAt(u, Calls!NoCall)
<1>1. Job(r) /\ Fresh(r)
  BY DEF Calls!LookAt, Job, Seeking, Invited, Fresh, GoesOn
<1>2. /\ Calls!TypeOK' /\ Calls!Becomes(h, r) /\ hand[h].at # "keys" /\ UNCHANGED <<state, inCall, torn>>
  BY DEF Calls!Release, Calls!Begins, Calls!Free, Calls!Becomes, RingsInv, Typed, Calls!TypeOK
<1> QED BY <1>1, <1>2, HandLooks

(* What comes after a user who is in no call, or no longer.                *)
LEMMA Resumed ==
  ASSUME Calls!CallsAssumption, NEW r, Job(r), r.at \in {"look", "drop", "keys"},
         r.invite # Calls!NoCall =>
           /\ state'[r.invite] = "none" /\ r.who \in Calls!Parties(r.invite)
           /\ inCall'[r.who] = Calls!NoCall
           /\ r.who = Callee[r.invite] => inCall'[Caller[r.invite]] = Calls!NoCall
  PROVE  Fresh(Calls!Resume(r))'
<1>n. PICK n : n = Calls!Resume(r)
  OBVIOUS
<1>1. CASE r.invite = Calls!NoCall
  BY <1>1 DEF Calls!Resume, Fresh, Calls!Free
<1>2. CASE r.invite # Calls!NoCall
  <2>1. r.invite \in CallId
    BY <1>2 DEF Job, Seeking, Calling, Invited, Calls!Free
  <2> PICK k \in CallId : k = r.invite
    BY <2>1
  <2>2. /\ Calls!Parties(k) \subseteq Person /\ Caller[k] # Callee[k] /\ k # Calls!NoCall
        /\ Calls!Parties(k) = {Caller[k], Callee[k]}
    BY PartiesAreUsers DEF Calls!Parties
  <2>3. CASE r.who = Caller[k]
    <3>1. n = Calls!LookAt(Callee[k], k)
      BY <1>2, <1>n, <2>3 DEF Calls!Resume
    <3>2. Fresh(n)'
      BY <1>2, <2>2, <2>3, <3>1 DEF Calls!LookAt, Fresh, GoesOn, Calls!Parties
    <3> QED BY <1>n, <3>2 DEF Fresh, GoesOn, Calls!Resume
  <2>4. CASE r.who # Caller[k]
    <3>1. n = Calls!Change(k, "new", Caller[k], Calls!NoCall)
      BY <1>2, <1>n, <2>4 DEF Calls!Resume, Calls!Ring
    <3>2. \A u \in Calls!Parties(k) : inCall'[u] = Calls!NoCall
      BY <1>2, <2>2, <2>4
    <3>3. Fresh(n)'
      BY <1>2, <2>2, <3>1, <3>2 DEF Calls!Change, Fresh, GoesOn, Calls!Live, Calls!Parties
    <3> QED BY <1>n, <3>3 DEF Fresh, GoesOn, Calls!Resume
  <2> QED BY <2>3, <2>4
<1> QED BY <1>1, <1>2

LEMMA ResumeIsJob ==
  ASSUME Calls!CallsAssumption, NEW r, Job(r), r.at # "free" PROVE Job(Calls!Resume(r))
<1>1. r.invite \in CallId \/ r.invite = Calls!NoCall
  BY DEF Job, Seeking, Calling, Invited, Calls!Free
<1> QED BY <1>1 DEF Job, Calls!Resume, Calls!LookAt, Calls!Ring, Calls!Change, Seeking, Calling, Invited,
           Calls!Free, Calls!CallsAssumption

LEMMA LookStep ==
  ASSUME Calls!CallsAssumption, RingsInv, NEW h \in Handler, Calls!Look(h) PROVE RingsInv'
<1> USE DEF Calls!Look
<1>r. PICK r : r = hand[h]
  OBVIOUS
<1>0. r \in Seeking /\ r.at = "look" /\ Job(r) /\ hand[h].at # "keys"
  BY <1>r DEF RingsInv, Typed, Job, Seeking, Calling, Calls!Free
<1>l. PICK l \in Invited : l = inCall[r.who]
  BY <1>0 DEF RingsInv, Typed, Calls!TypeOK, Seeking, Invited
<1>n. PICK n : n = Calls!Looked(r, l)
  OBVIOUS
<1>b. /\ Calls!Becomes(h, n) /\ UNCHANGED <<state, stale, inCall, grace, torn>>
      /\ timer' \subseteq timer
  BY <1>r, <1>l, <1>n
<1>t. Calls!TypeOK'
  BY <1>b DEF Calls!Becomes, RingsInv, Typed, Calls!TypeOK
<1>k. l # Calls!NoCall => l \in CallId /\ Caller[l] \in Person
  BY PartiesAreUsers DEF Invited
<1>i. r.invite # Calls!NoCall => r.invite \in CallId
  BY <1>0 DEF Seeking, Invited
<1>f. ~marred => /\ GoesOn(r)
                 /\ l # Calls!NoCall => state[l] # "none" /\ r.who \in Calls!Parties(l)
  BY <1>0, <1>r, <1>l, <1>k DEF RingsInv, Fresh, KeysAreRight, Seeking
<1>1. CASE l = Calls!NoCall
  <2>1. n = Calls!Resume(r)
    BY <1>n, <1>1 DEF Calls!Looked
  <2>2. Job(n)
    BY <1>0, <2>1, ResumeIsJob
  <2>3. ~marred => Fresh(Calls!Resume(r))'
    BY <1>0, <1>1, <1>b, <1>f, <1>l, Resumed DEF GoesOn
  <2>4. ~marred => Fresh(n)'
    BY <2>1, <2>3 DEF Fresh, GoesOn, Calls!Live, Calls!Parties, Calls!Resume
  <2>5. ~marred => KeysAreRight'
    BY <1>0, <1>b, KeysStay DEF RingsInv
  <2> QED BY <1>b, <1>t, <2>2, <2>4, <2>5, HandGoesOn
<1>2. CASE l # Calls!NoCall /\ state[l] = "ended"
  <2>1. n = Calls!DropOf(r.who, r.invite)
    BY <1>n, <1>2 DEF Calls!Looked
  <2>2. Job(n)
    BY <1>0, <2>1 DEF Job, Calls!DropOf, Seeking
  <2>3. ~marred => Fresh(n)
    BY <1>0, <1>2, <1>f, <1>l, <2>1 DEF Fresh, GoesOn, Calls!DropOf
  <2> QED BY <1>0, <1>b, <1>t, <2>2, <2>3, HandLooks
<1>3. CASE l # Calls!NoCall /\ state[l] # "ended" /\ Calls!TooOld(l)
  <2>1. n = Calls!End(l, r.who, r.invite)
    BY <1>n, <1>3 DEF Calls!Looked
  <2>2. Job(n)
    BY <1>0, <1>k, <1>3, <2>1 DEF Job, Calls!End, Calls!Change, Seeking, Calling
  <2>3. ~marred => Fresh(n)
    BY <1>0, <1>3, <1>f, <1>l, <2>1 DEF Fresh, GoesOn, Calls!End, Calls!Change, Calls!TooOld, Calls!Live
  <2> QED BY <1>0, <1>b, <1>t, <2>2, <2>3, HandLooks
<1>4. CASE l # Calls!NoCall /\ state[l] # "ended" /\ ~Calls!TooOld(l)
  <2>0. n = Calls!IfLive(r, l)
    BY <1>n, <1>4 DEF Calls!Looked
  <2>1. CASE n = Calls!Free
    <3>1. Job(n) /\ Fresh(n)
      BY <2>1 DEF Job, Fresh, Calls!Free
    <3> QED BY <1>0, <1>b, <1>t, <3>1, HandLooks
  <2>2. CASE r.invite = Calls!NoCall /\ n = Calls!Change(l, "ended", Caller[l], Calls!NoCall)
    <3>1. Job(n)
      BY <1>k, <1>4, <2>2 DEF Job, Calls!Change, Calling, Invited
    <3>2. ~marred => Calls!Live(l)
      BY <1>f, <1>4, <1>k DEF Calls!Live, RingsInv, Typed, Calls!TypeOK, Calls!State
    <3>3. ~marred => Fresh(n)
      BY <2>2, <3>2 DEF Fresh, GoesOn, Calls!Change, Calls!Live
    <3> QED BY <1>0, <1>b, <1>t, <3>1, <3>3, HandLooks
  <2>3. CASE r.invite # Calls!NoCall /\ n = Calls!Change(r.invite, "busy", r.who, Calls!NoCall)
    <3>1. Job(n)
      BY <1>0, <1>i, <2>3 DEF Job, Calls!Change, Seeking, Calling, Invited
    <3>2. ~marred => Fresh(n)
      BY <1>f, <2>3 DEF Fresh, GoesOn, Calls!Change
    <3> QED BY <1>0, <1>b, <1>t, <3>1, <3>2, HandLooks
  <2> QED BY <2>0, <2>1, <2>2, <2>3 DEF Calls!IfLive, Calls!End
<1> QED BY <1>1, <1>2, <1>3, <1>4

LEMMA DropStep ==
  ASSUME Calls!CallsAssumption, RingsInv, NEW h \in Handler, Calls!Drop(h) PROVE RingsInv'
<1> USE DEF Calls!Drop
<1>r. PICK r : r = hand[h]
  OBVIOUS
<1>0. r \in Seeking /\ r.at = "drop" /\ Job(r) /\ hand[h].at # "keys" /\ r.who \in Person
  BY <1>r DEF RingsInv, Typed, Job, Seeking, Calling, Calls!Free
<1>i. r.invite # Calls!NoCall => r.invite \in CallId
  BY <1>0 DEF Seeking, Invited
<1>n. PICK n : n = Calls!Resume(r)
  OBVIOUS
<1>b. /\ Calls!Becomes(h, n) /\ UNCHANGED <<state, stale, timer, grace, torn>>
      /\ inCall' = [inCall EXCEPT ![r.who] = Calls!NoCall]
  BY <1>r, <1>n
<1>v. /\ inCall'[r.who] = Calls!NoCall /\ \A u \in Person \ {r.who} : inCall'[u] = inCall[u]
      /\ inCall' \in [Person -> CallId \union {Calls!NoCall}]
  BY <1>0, <1>b DEF RingsInv, Typed, Calls!TypeOK
<1>t. Calls!TypeOK'
  BY <1>b, <1>v DEF Calls!Becomes, RingsInv, Typed, Calls!TypeOK
<1>j. Job(n)
  BY <1>0, <1>n, ResumeIsJob
<1>1. ASSUME ~marred PROVE Fresh(n)' /\ KeysAreRight'
  <2>0. Fresh(r) /\ KeysAreRight
    BY <1>1, <1>r DEF RingsInv
  <2>1. GoesOn(r) /\ (inCall[r.who] = Calls!NoCall \/ state[inCall[r.who]] = "ended")
    BY <1>0, <2>0 DEF Fresh
  <2>2. r.invite # Calls!NoCall =>
           /\ state'[r.invite] = "none" /\ r.who \in Calls!Parties(r.invite)
           /\ r.who = Callee[r.invite] => inCall'[Caller[r.invite]] = Calls!NoCall
    <3>1. r.invite # Calls!NoCall => Caller[r.invite] \in Person
      BY <1>i, PartiesAreUsers
    <3> QED BY <1>0, <1>b, <1>v, <2>1, <3>1 DEF GoesOn
  <2>3. Fresh(n)'
    <3>1. Fresh(Calls!Resume(r))'
      BY <1>0, <1>v, <2>2, Resumed
    <3> QED BY <1>n, <3>1 DEF Fresh, GoesOn, Calls!Live, Calls!Parties, Calls!Resume
  <2>4. KeysAreRight'
    <3>1. \A k \in CallId, to \in {"new", "ended"} : Writes(k, to) => Writes(k, to)'
      BY <1>0, <1>r, <1>b, WritesGoOn DEF RingsInv
    <3> SUFFICES ASSUME NEW k \in CallId, NEW u \in Person
                 PROVE  /\ inCall'[u] = k => u \in Calls!Parties(k) /\ state'[k] # "none"
                        /\ inCall'[u] = k /\ state'[k] = "ended" => torn' \/ Writes(k, "ended")'
                        /\ Calls!Live(k)' /\ u \in Calls!Parties(k) => inCall'[u] = k \/ Writes(k, "new")'
      BY DEF KeysAreRight, Calls!Parties
    <3>2. CASE u = r.who
      <4>1. inCall'[u] # k
        BY <1>v, <3>2 DEF Calls!CallsAssumption
      <4>2. Calls!Live(k) => inCall[u] # k
        BY <2>1, <3>2, PartiesAreUsers DEF Calls!Live
      <4>3. Calls!Live(k)' <=> Calls!Live(k)
        BY <1>b DEF Calls!Live
      <4>4. Calls!Live(k) /\ u \in Calls!Parties(k) => Writes(k, "new")
        BY <2>0, <4>2 DEF KeysAreRight
      <4> QED BY <3>1, <4>1, <4>3, <4>4
    <3>3. CASE u # r.who
      BY <1>b, <1>v, <2>0, <3>1, <3>3 DEF KeysAreRight, Calls!Live
    <3> QED BY <3>2, <3>3
  <2> QED BY <2>3, <2>4
<1>2. ~marred => \A u \in Person : inCall'[u] # inCall[u] => u \in Calls!Concern(hand[h])
  BY <1>0, <1>r, <1>v DEF Calls!Concern
<1> QED BY <1>1, <1>2, <1>b, <1>t, <1>j, HandGoesOn

LEMMA SaveStep ==
  ASSUME Calls!CallsAssumption, RingsInv, NEW h \in Handler, Calls!Save(h) PROVE RingsInv'
<1> USE DEF Calls!Save
<1>r. PICK r : r = hand[h]
  OBVIOUS
<1>0. r \in Calling /\ r.at = "save" /\ Job(r) /\ r.call \in CallId /\ hand[h].at # "keys"
  BY <1>r DEF RingsInv, Typed, Job, Seeking, Calling, Calls!Free
<1> PICK k \in CallId : k = r.call
  BY <1>0
<1>n. PICK n : n = IF r.to \in {"new", "ended"} THEN [r EXCEPT !.at = "keys"] ELSE Calls!Free
  OBVIOUS
<1>b. /\ Calls!Becomes(h, n) /\ UNCHANGED <<stale, inCall, timer, grace, torn>>
      /\ state' = [state EXCEPT ![k] = Calls!Saved(r.to)]
  BY <1>r, <1>n
<1>s. /\ state'[k] = Calls!Saved(r.to) /\ \A l \in CallId \ {k} : state'[l] = state[l]
      /\ state' \in [CallId -> Calls!State]
  <2>1. Calls!Saved(r.to) \in Calls!State
    BY <1>0 DEF Calls!Saved, Calls!State, Calling
  <2> QED BY <1>b, <2>1 DEF RingsInv, Typed, Calls!TypeOK
<1>t. Calls!TypeOK'
  BY <1>b, <1>s DEF Calls!Becomes, RingsInv, Typed, Calls!TypeOK
<1>m. r.to \in {"new", "ended"} =>
        /\ n \in Calling /\ n.at = "keys" /\ n.call = k /\ n.to = r.to
        /\ n.who = r.who /\ n.invite = r.invite
  BY <1>0, <1>n DEF Calling
<1>j. Job(n)
  BY <1>0, <1>m, <1>n DEF Job, Calls!Free
<1>w. /\ hand'[h] = n
      /\ \A l \in CallId, to \in {"new", "ended"} : Writes(l, to) => Writes(l, to)'
      /\ r.to \in {"new", "ended"} => Writes(k, r.to)'
  <2>1. hand'[h] = n
    BY <1>b DEF Calls!Becomes, RingsInv, Typed
  <2>2. \A l \in CallId, to \in {"new", "ended"} : Writes(l, to) => Writes(l, to)'
    BY <1>0, <1>r, <1>b, WritesGoOn DEF RingsInv
  <2> QED BY <1>m, <2>1, <2>2 DEF Writes
<1>1. ASSUME ~marred PROVE Fresh(n)' /\ KeysAreRight'
  <2>0. Fresh(r) /\ KeysAreRight
    BY <1>1, <1>r DEF RingsInv
  <2>1. /\ GoesOn(r) /\ (r.to \in {"new", "busy"} <=> state[k] = "none")
        /\ r.to \notin {"new", "busy"} => Calls!Live(k)
        /\ r.to = "new" => \A u \in Calls!Parties(k) : inCall[u] = Calls!NoCall
    BY <1>0, <2>0 DEF Fresh
  <2>2. Fresh(n)'
    <3>1. CASE r.to \notin {"new", "ended"}
      BY <1>n, <3>1 DEF Fresh, Calls!Free
    <3>2. CASE r.to = "new"
      <4>1. Calls!Live(k)'
        BY <1>s, <3>2 DEF Calls!Live, Calls!Saved
      <4>2. n.at = "keys" /\ n.call = k /\ n.to = "new" /\ n.invite = Calls!NoCall
        BY <1>0, <1>m, <3>2 DEF Job
      <4>3. \A u \in Calls!Parties(k) : inCall'[u] = Calls!NoCall
        BY <1>b, <2>1, <3>2
      <4> QED BY <4>1, <4>2, <4>3 DEF Fresh, GoesOn, Calls!Parties
    <3>3. CASE r.to = "ended"
      <4>1. state'[k] = "ended"
        BY <1>s, <3>3 DEF Calls!Saved
      <4>2. r.invite # Calls!NoCall => r.invite \in CallId \ {k}
        BY <1>0, <2>1, <3>3 DEF GoesOn, Calling, Invited, Calls!Live
      <4> QED BY <1>0, <1>b, <1>m, <1>s, <2>1, <3>3, <4>1, <4>2 DEF Fresh, GoesOn, Calls!Parties
    <3> QED BY <3>1, <3>2, <3>3
  <2>3. KeysAreRight'
    <3> SUFFICES ASSUME NEW l \in CallId, NEW u \in Person
                 PROVE  /\ inCall'[u] = l => u \in Calls!Parties(l) /\ state'[l] # "none"
                        /\ inCall'[u] = l /\ state'[l] = "ended" => torn' \/ Writes(l, "ended")'
                        /\ Calls!Live(l)' /\ u \in Calls!Parties(l) => inCall'[u] = l \/ Writes(l, "new")'
      BY DEF KeysAreRight, Calls!Parties
    <3>0. /\ inCall[u] = l => u \in Calls!Parties(l) /\ state[l] # "none"
          /\ inCall[u] = l /\ state[l] = "ended" => torn \/ Writes(l, "ended")
          /\ Calls!Live(l) /\ u \in Calls!Parties(l) => inCall[u] = l \/ Writes(l, "new")
      BY <2>0 DEF KeysAreRight
    <3>1. CASE l # k
      <4>1. state'[l] = state[l] /\ (Calls!Live(l)' <=> Calls!Live(l))
        BY <1>s, <3>1 DEF Calls!Live
      <4> QED BY <1>b, <1>w, <3>0, <4>1
    <3>2. CASE l = k
      <4>1. CASE r.to \in {"new", "busy"}
        <5>1. inCall[u] # k
          BY <2>1, <3>0, <3>2, <4>1
        <5>2. Calls!Live(k)' => r.to = "new"
          BY <1>s, <4>1 DEF Calls!Live, Calls!Saved
        <5> QED BY <1>b, <1>w, <3>2, <5>1, <5>2
      <4>2. CASE r.to = "ended"
        <5>1. ~Calls!Live(k)' /\ state'[k] = "ended" /\ Writes(k, "ended")'
          BY <1>s, <1>w, <4>2 DEF Calls!Live, Calls!Saved
        <5> QED BY <1>b, <3>0, <3>2, <5>1
      <4>3. CASE r.to \notin {"new", "busy", "ended"}
        <5>1. state'[k] \notin {"none", "ended"}
          BY <1>0, <1>s, <4>3 DEF Calls!Saved, Calling
        <5>2. Calls!Live(k)
          BY <2>1, <4>3
        <5> QED BY <1>b, <1>w, <3>0, <3>2, <5>1, <5>2
      <4> QED BY <4>1, <4>2, <4>3
    <3> QED BY <3>1, <3>2
  <2> QED BY <2>2, <2>3
<1>2. ~marred => \A l \in CallId : state'[l] # state[l] => Calls!Parties(l) \subseteq Calls!Concern(hand[h])
  BY <1>0, <1>r, <1>s DEF Calls!Concern
<1> QED BY <1>1, <1>2, <1>b, <1>t, <1>j, HandGoesOn

LEMMA KeysStep ==
  ASSUME Calls!CallsAssumption, RingsInv, NEW h \in Handler, Calls!Keys(h) PROVE RingsInv'
<1> USE DEF Calls!Keys
<1>r. PICK r : r = hand[h]
  OBVIOUS
<1>0. r \in Calling /\ r.at = "keys" /\ Job(r) /\ r.call \in CallId /\ r.to \in {"new", "ended"}
      /\ (r.to = "new" => r.invite = Calls!NoCall) /\ r.who \in Person
  BY <1>r DEF RingsInv, Typed, Job, Seeking, Calling, Calls!Free
<1> PICK k \in CallId : k = r.call
  BY <1>0
<1>p. /\ Calls!Parties(k) \subseteq Person /\ k # Calls!NoCall
  BY PartiesAreUsers
<1>n. PICK n : n = Calls!Resume(r)
  OBVIOUS
<1>b. /\ Calls!Becomes(h, n) /\ UNCHANGED <<state, stale, grace, torn>> /\ timer' \subseteq timer \union {k}
      /\ inCall' = IF r.to = "new" THEN Calls!SetKeys(k) ELSE Calls!ClearKeys(k)
  BY <1>r, <1>n
<1>v. /\ inCall' \in [Person -> CallId \union {Calls!NoCall}]
      /\ r.to = "new" => \A u \in Person : inCall'[u] = IF u \in Calls!Parties(k) THEN k ELSE inCall[u]
      /\ r.to = "ended" => \A u \in Person : inCall'[u] = IF inCall[u] = k THEN Calls!NoCall ELSE inCall[u]
  BY <1>0, <1>b DEF RingsInv, Typed, Calls!TypeOK, Calls!SetKeys, Calls!ClearKeys
<1>t. Calls!TypeOK'
  BY <1>b, <1>v DEF Calls!Becomes, RingsInv, Typed, Calls!TypeOK
<1>j. Job(n)
  BY <1>0, <1>n, ResumeIsJob
<1>1. ASSUME ~marred PROVE Fresh(n)' /\ KeysAreRight'
  <2>0. Fresh(r) /\ KeysAreRight /\ Apart
    BY <1>1, <1>r DEF RingsInv
  <2>1. /\ GoesOn(r) /\ (r.to = "ended" => state[k] = "ended")
        /\ r.to = "new" => Calls!Live(k) /\ \A u \in Calls!Parties(k) : inCall[u] = Calls!NoCall
    BY <1>0, <2>0 DEF Fresh
  <2>2. Fresh(n)'
    <3>1. r.invite # Calls!NoCall => Caller[r.invite] \in Person
      BY <1>0, PartiesAreUsers DEF Calling, Invited
    <3>2. r.invite # Calls!NoCall =>
           /\ state'[r.invite] = "none" /\ r.who \in Calls!Parties(r.invite)
           /\ inCall'[r.who] = Calls!NoCall
           /\ r.who = Callee[r.invite] => inCall'[Caller[r.invite]] = Calls!NoCall
      BY <1>0, <1>b, <1>v, <2>1, <3>1 DEF GoesOn
    <3>3. Fresh(Calls!Resume(r))'
      BY <1>0, <3>2, Resumed
    <3> QED BY <1>n, <3>3 DEF Fresh, GoesOn, Calls!Live, Calls!Parties, Calls!Resume
  <2>3. KeysAreRight'
    <3> SUFFICES ASSUME NEW l \in CallId, NEW u \in Person
                 PROVE  /\ inCall'[u] = l => u \in Calls!Parties(l) /\ state'[l] # "none"
                        /\ inCall'[u] = l /\ state'[l] = "ended" => torn' \/ Writes(l, "ended")'
                        /\ Calls!Live(l)' /\ u \in Calls!Parties(l) => inCall'[u] = l \/ Writes(l, "new")'
      BY DEF KeysAreRight, Calls!Parties
    <3>0. /\ inCall[u] = l => u \in Calls!Parties(l) /\ state[l] # "none"
          /\ inCall[u] = l /\ state[l] = "ended" => torn \/ Writes(l, "ended")
          /\ Calls!Live(l) /\ u \in Calls!Parties(l) => inCall[u] = l \/ Writes(l, "new")
          /\ state'[l] = state[l] /\ (Calls!Live(l)' <=> Calls!Live(l)) /\ l # Calls!NoCall
      BY <2>0, <1>b, PartiesAreUsers DEF KeysAreRight, Calls!Live
    <3>1. \A to \in {"new", "ended"} : Writes(l, to) /\ ~(l = k /\ to = r.to) => Writes(l, to)'
      BY <1>0, <1>r, <1>b, WritesGoOn DEF RingsInv
    <3>2. CASE r.to = "new"
      <4>1. ASSUME Writes(l, "new"), l # k, u \in Calls!Parties(l) PROVE u \notin Calls!Parties(k)
        <5>1. PICK g \in Handler : hand[g].at = "keys" /\ hand[g].call = l
          BY <4>1 DEF Writes
        <5>2. g # h
          BY <1>r, <4>1, <5>1
        <5>3. u \in Calls!Concern(hand[g])
          BY <4>1, <5>1 DEF Calls!Concern
        <5>4. Calls!Parties(k) \subseteq Calls!Concern(hand[h])
          BY <1>0, <1>r DEF Calls!Concern
        <5> QED BY <2>0, <5>2, <5>3, <5>4 DEF Apart
      <4>2. CASE u \in Calls!Parties(k)
        <5>1. inCall'[u] = k /\ inCall[u] = Calls!NoCall
          BY <1>v, <2>1, <3>2, <4>2
        <5>2. l # k => ~(Calls!Live(l) /\ u \in Calls!Parties(l))
          BY <3>0, <4>1, <4>2, <5>1
        <5> QED BY <2>1, <3>0, <3>2, <4>2, <5>1, <5>2 DEF Calls!Live
      <4>3. CASE u \notin Calls!Parties(k)
        <5>1. inCall'[u] = inCall[u]
          BY <1>v, <3>2, <4>3
        <5>2. l = k => ~(inCall[u] = l)
          BY <3>0, <4>3
        <5> QED BY <1>b, <3>0, <3>1, <3>2, <4>3, <5>1, <5>2
      <4> QED BY <4>2, <4>3
    <3>3. CASE r.to = "ended"
      <4>1. ~Calls!Live(k)
        BY <2>1, <3>3 DEF Calls!Live
      <4>2. inCall'[u] = l => inCall[u] = l /\ l # k
        BY <1>v, <3>0, <3>3
      <4>3. l # k => (inCall[u] = l => inCall'[u] = l)
        BY <1>v, <3>3
      <4> QED BY <1>b, <3>0, <3>1, <3>3, <4>1, <4>2, <4>3
    <3> QED BY <1>0, <3>2, <3>3
  <2> QED BY <2>2, <2>3
<1>2. ~marred => \A u \in Person : inCall'[u] # inCall[u] => u \in Calls!Concern(hand[h])
  <2>1. ASSUME ~marred, NEW u \in Person, inCall[u] = k PROVE u \in Calls!Parties(k)
    BY <2>1 DEF RingsInv, KeysAreRight
  <2>2. Calls!Parties(k) \subseteq Calls!Concern(hand[h])
    BY <1>0, <1>r DEF Calls!Concern
  <2> QED BY <1>0, <1>v, <2>1, <2>2
<1> QED BY <1>1, <1>2, <1>b, <1>t, <1>j, HandGoesOn

LEMMA StillApart == ASSUME Apart, UNCHANGED hand PROVE Apart'
<1>1. \A g, h \in Handler : g # h => Calls!Concern(hand'[g]) \intersect Calls!Concern(hand'[h]) = {}
  BY DEF Apart
<1> QED BY <1>1 DEF Apart, Calls!Concern

(* The clock, the sockets, Redis and the process.                          *)
LEMMA OutsideSteps ==
  ASSUME Calls!CallsAssumption, RingsInv,
         \/ \E k \in CallId : Calls!Age(k)
         \/ \E u \in Person : Calls!Disconnect(u) \/ Calls!Reconnect(u) \/ Calls!Expire(u)
         \/ Calls!Crash \/ UNCHANGED Calls!callVars
  PROVE  RingsInv'
<1>1. ASSUME UNCHANGED <<state, inCall, hand, marred, torn>>, Calls!TypeOK' PROVE RingsInv'
  <2>1. Typed'
    BY <1>1 DEF RingsInv, Typed, Job, Seeking, Calling, Invited, Calls!Free
  <2>2. ASSUME ~marred PROVE Apart'
    BY <1>1, <2>2, StillApart DEF RingsInv
  <2>3. ASSUME ~marred, NEW h \in Handler PROVE Fresh(hand[h])'
    <3>1. Fresh(hand[h])
      BY <2>3 DEF RingsInv
    <3> QED BY <1>1, <3>1 DEF Fresh, GoesOn, Calls!Live, Calls!Parties
  <2>4. ASSUME ~marred PROVE KeysAreRight'
    BY <1>1, <2>4 DEF RingsInv, KeysAreRight, Writes, Calls!Live, Calls!Parties
  <2> QED BY <1>1, <2>1, <2>2, <2>3, <2>4 DEF RingsInv
<1>2. ASSUME NEW k \in CallId, Calls!Age(k) PROVE RingsInv'
  BY <1>1, <1>2 DEF Calls!Age, RingsInv, Typed, Calls!TypeOK
<1>3. ASSUME NEW u \in Person, Calls!Disconnect(u) \/ Calls!Reconnect(u) PROVE RingsInv'
  BY <1>1, <1>3 DEF Calls!Disconnect, Calls!Reconnect, RingsInv, Typed, Calls!TypeOK
<1>4. CASE UNCHANGED Calls!callVars
  BY <1>1, <1>4 DEF Calls!callVars, RingsInv, Typed, Calls!TypeOK
<1>5. ASSUME NEW u \in Person, Calls!Expire(u) PROVE RingsInv'
  <2>1. /\ inCall'[u] = Calls!NoCall /\ \A v \in Person \ {u} : inCall'[v] = inCall[v]
        /\ inCall' \in [Person -> CallId \union {Calls!NoCall}] /\ inCall[u] \in CallId
        /\ UNCHANGED <<state, stale, timer, grace, hand, torn>>
    BY <1>5 DEF Calls!Expire, RingsInv, Typed, Calls!TypeOK
  <2>2. Typed'
    BY <1>5, <2>1 DEF Calls!Expire, RingsInv, Typed, Calls!TypeOK, Job, Seeking, Calling, Invited
  <2>3. ASSUME ~marred' PROVE Apart' /\ (\A h \in Handler : Fresh(hand[h])') /\ KeysAreRight'
    <3>0. /\ ~marred /\ ~Calls!Live(inCall[u]) /\ Apart /\ KeysAreRight
          /\ \A h \in Handler : Fresh(hand[h])
      BY <1>5, <2>3 DEF Calls!Expire, RingsInv, Typed, Calls!TypeOK
    <3>1. Apart'
      BY <2>1, <3>0, StillApart
    <3>2. ASSUME NEW h \in Handler PROVE Fresh(hand[h])'
      <4> PICK r : r = hand[h]
        OBVIOUS
      <4>1. Fresh(r) /\ Job(r)
        BY <3>0 DEF RingsInv, Typed
      <4>2. r.at # "free" => r.who \in Person
        BY <4>1 DEF Job, Seeking, Calling, Calls!Free
      <4>3. r.at # "free" /\ r.invite # Calls!NoCall => Caller[r.invite] \in Person
        BY <4>1, PartiesAreUsers DEF Job, Seeking, Calling, Invited, Calls!Free
      <4>4. r.at # "free" /\ GoesOn(r) => GoesOn(r)'
        BY <2>1, <4>2, <4>3 DEF GoesOn, Calls!Parties
      <4>5. r.at \in {"save", "keys"} => Calls!Parties(r.call) \subseteq Person
        BY <4>1, PartiesAreUsers DEF Job, Seeking, Calling, Calls!Free
      <4>6. \A k \in CallId : Calls!Live(k)' <=> Calls!Live(k)
        BY <2>1 DEF Calls!Live
      <4>7. r.at \in {"save", "keys"} => r.call \in CallId
        BY <4>1 DEF Job, Seeking, Calling, Calls!Free
      <4>8. r.at \in {"free", "look", "drop", "save", "keys"}
        BY <4>1 DEF Job, Seeking, Calling, Calls!Free
      <4>9. Fresh(r)'
        <5>1. CASE r.at \in {"free", "look"}
          BY <4>1, <4>4, <5>1 DEF Fresh
        <5>2. CASE r.at = "drop"
          BY <2>1, <4>1, <4>2, <4>4, <5>2 DEF Fresh
        <5>3. CASE r.at = "save"
          BY <2>1, <4>1, <4>4, <4>5, <4>6, <4>7, <5>3 DEF Fresh, Calls!Parties
        <5>4. CASE r.at = "keys"
          BY <2>1, <4>1, <4>4, <4>5, <4>6, <4>7, <5>4 DEF Fresh, Calls!Parties
        <5> QED BY <4>8, <5>1, <5>2, <5>3, <5>4
      <4> QED BY <2>1, <4>9 DEF Fresh, GoesOn
    <3>3. KeysAreRight'
      <4> SUFFICES ASSUME NEW k \in CallId, NEW v \in Person
                   PROVE  /\ inCall'[v] = k => v \in Calls!Parties(k) /\ state'[k] # "none"
                          /\ inCall'[v] = k /\ state'[k] = "ended" => torn' \/ Writes(k, "ended")'
                          /\ Calls!Live(k)' /\ v \in Calls!Parties(k) => inCall'[v] = k \/ Writes(k, "new")'
        BY DEF KeysAreRight, Calls!Parties
      <4>1. /\ inCall[v] = k => v \in Calls!Parties(k) /\ state[k] # "none"
            /\ inCall[v] = k /\ state[k] = "ended" => torn \/ Writes(k, "ended")
            /\ Calls!Live(k) /\ v \in Calls!Parties(k) => inCall[v] = k \/ Writes(k, "new")
            /\ (Calls!Live(k)' <=> Calls!Live(k)) /\ k # Calls!NoCall
            /\ \A to : Writes(k, to)' <=> Writes(k, to)
        BY <2>1, <3>0, PartiesAreUsers DEF KeysAreRight, Calls!Live, Writes
      <4> QED BY <2>1, <3>0, <4>1
    <3> QED BY <3>1, <3>2, <3>3
  <2> QED BY <2>2, <2>3 DEF RingsInv
<1>6. CASE Calls!Crash
  <2>1. UNCHANGED <<state, stale, inCall>> /\ \A h \in Handler : hand'[h] = Calls!Free
    BY <1>6 DEF Calls!Crash
  <2>2. Typed'
    <3>1. Calls!TypeOK' /\ hand' = [h \in Handler |-> Calls!Free]
      BY <1>6 DEF Calls!Crash, RingsInv, Typed, Calls!TypeOK
    <3>2. Job(Calls!Free)
      BY DEF Job, Calls!Free
    <3>3. \A h \in Handler : Job(hand'[h])
      BY <2>1, <3>2
    <3>4. hand' = [h \in Handler |-> hand'[h]]
      BY <3>1
    <3> QED BY <3>1, <3>3, <3>4 DEF Typed, Job, Seeking, Calling, Invited, Calls!Free
  <2>3. Apart' /\ \A h \in Handler : Fresh(hand[h])'
    <3>1. \A h \in Handler : Calls!Concern(hand'[h]) = {} /\ hand'[h].at = "free"
      BY <2>1 DEF Calls!Concern, Calls!Free
    <3>2. \A g, h \in Handler : Calls!Concern(hand'[g]) \intersect Calls!Concern(hand'[h]) = {}
      BY <3>1
    <3> QED BY <3>1, <3>2 DEF Apart, Fresh, Calls!Concern
  <2>4. ASSUME ~marred' PROVE KeysAreRight'
    <3>1. /\ ~marred /\ KeysAreRight
          /\ \A k \in CallId : ~Writes(k, "new") /\ (torn \/ Writes(k, "ended") => torn')
      BY <1>6, <2>4 DEF Calls!Crash, Calls!Writing, Writes, RingsInv, Typed, Calls!TypeOK
    <3> QED BY <2>1, <3>1 DEF KeysAreRight, Calls!Live, Calls!Parties
  <2> QED BY <2>2, <2>3, <2>4 DEF RingsInv
<1> QED BY <1>2, <1>3, <1>4, <1>5, <1>6

LEMMA CallsStep ==
  ASSUME Calls!CallsAssumption, RingsInv, [Calls!Next]_Calls!callVars PROVE RingsInv'
BY BeginSteps, ReleaseStep, LookStep, DropStep, SaveStep, KeysStep, OutsideSteps DEF Calls!Next

(* A user is in one live call at most, and the keys of both parties name   *)
(* it (reconcileInCall, setInCall, clearInCall and endCall of the call     *)
(* service), for any number of users, calls and handlers: two that overlap *)
(* do no harm unless they overlap on a user.                               *)
THEOREM CallsAreExclusive == ASSUME Calls!CallsAssumption PROVE Calls!Spec => []Calls!OneCallAtATime
<1>1. ASSUME RingsInv PROVE Calls!OneCallAtATime
  <2> SUFFICES ASSUME ~marred PROVE
      /\ \A k, l \in CallId : Calls!Live(k) /\ Calls!Live(l) /\ k # l
                                 => Calls!Parties(k) \intersect Calls!Parties(l) = {}
      /\ \A k \in CallId, u \in Person :
           \/ inCall[u] = k <=> Calls!Live(k) /\ u \in Calls!Parties(k)
           \/ \E h \in Handler : hand[h].at = "keys" /\ hand[h].call = k
           \/ torn /\ state[k] = "ended" /\ u \in Calls!Parties(k)
    BY DEF Calls!OneCallAtATime
  <2>0. Apart /\ KeysAreRight /\ \A h \in Handler : Fresh(hand[h])
    BY <1>1 DEF RingsInv
  <2>1. ASSUME NEW k \in CallId, Writes(k, "new"), NEW u \in Calls!Parties(k)
        PROVE  \E h \in Handler : /\ hand[h].at = "keys" /\ hand[h].call = k
                                  /\ u \in Calls!Concern(hand[h]) /\ inCall[u] = Calls!NoCall
    <3>1. PICK h \in Handler : hand[h].at = "keys" /\ hand[h].call = k /\ hand[h].to = "new"
      BY <2>1 DEF Writes
    <3>2. \A v \in Calls!Parties(k) : inCall[v] = Calls!NoCall
      BY <2>0, <3>1 DEF Fresh
    <3> QED BY <2>1, <3>1, <3>2 DEF Calls!Concern
  <2>2. ASSUME NEW k \in CallId, NEW l \in CallId, Calls!Live(k), Calls!Live(l), k # l,
               NEW u \in Calls!Parties(k) \intersect Calls!Parties(l)
        PROVE  FALSE
    <3>1. u \in Person /\ k # Calls!NoCall /\ l # Calls!NoCall
      BY PartiesAreUsers
    <3>2. (inCall[u] = k \/ Writes(k, "new")) /\ (inCall[u] = l \/ Writes(l, "new"))
      BY <2>0, <2>2, <3>1 DEF KeysAreRight
    <3>3. Writes(k, "new") /\ Writes(l, "new")
      BY <2>1, <2>2, <3>1, <3>2
    <3> QED BY <2>0, <2>1, <2>2, <3>3 DEF Apart
  <2>3. ASSUME NEW k \in CallId, NEW u \in Person,
               ~\E h \in Handler : hand[h].at = "keys" /\ hand[h].call = k,
               ~(torn /\ state[k] = "ended" /\ u \in Calls!Parties(k))
        PROVE  inCall[u] = k <=> Calls!Live(k) /\ u \in Calls!Parties(k)
    <3>1. ~Writes(k, "new") /\ ~Writes(k, "ended")
      BY <2>3 DEF Writes
    <3>2. inCall[u] = k => u \in Calls!Parties(k) /\ state[k] \notin {"none", "ended"}
      BY <2>0, <2>3, <3>1 DEF KeysAreRight
    <3>3. state[k] \in Calls!State
      BY <1>1 DEF RingsInv, Typed, Calls!TypeOK
    <3> QED BY <2>0, <3>1, <3>2, <3>3 DEF KeysAreRight, Calls!Live, Calls!State
  <2> QED BY <2>2, <2>3
<1> QED BY <1>1, CallsInit, CallsStep, PTL DEF Calls!Spec
-----------------------------------------------------------------------------
(* A group conversation: its members and the keys wrapped for them.        *)
CONSTANTS User, Founder, Friends, Guarded, Companions, Device, MaxAsks, MaxPosts
VARIABLES member, mark, posts, blocked, badge, doing, asks, raced, trespass, wrap, put, mixed
Group == INSTANCE GroupChat

(* A request has its fields, and whoever adds or removes members finds a   *)
(* group that was made: the founder came to it first.                      *)
Asked(r) == r = [at |-> r.at, by |-> r.by, todo |-> r.todo, asked |-> r.asked, held |-> r.held]
Telling(r) == r = [at |-> r.at, by |-> r.by, user |-> r.user, count |-> r.count,
                todo |-> r.todo, asked |-> r.asked, held |-> r.held]
Changing == {"gate", "ensure", "remove"}
FounderCame == member[Founder] # "none"
Doing(h) ==
  /\ doing[h].at \notin {"rest", "count"} => Asked(doing[h])
  /\ doing[h].at = "count" => Telling(doing[h])
  /\ doing[h].at = "rest" => doing[h] = Group!Rest
  /\ doing[h].at \in Changing => FounderCame
Doings ==
  /\ doing = [h \in Handler |-> doing[h]] /\ member = [u \in User |-> member[u]]
  /\ \A h \in Handler : Doing(h)
  /\ (\E u \in User : member[u] # "none") => FounderCame

(* A put of keys covers the members there are; once keys are stored every  *)
(* member has one, so that a later put adds none.                          *)
PutRow == [at : {"waits", "holds"}, todo : SUBSET User, rows : SUBSET User]
Puts ==
  /\ put = [d \in Device |-> put[d]] /\ wrap = [u \in User |-> wrap[u]] /\ mixed \in BOOLEAN
  /\ \A d \in Group!Putting : put[d] \in PutRow /\ (put[d].at = "waits" => put[d].rows = {})
  /\ \A d, e \in Device : put[d].at = "holds" /\ put[e].at = "holds" => d = e
  /\ Group!Keyed # {} \/ Group!Putting # {} => FounderCame
PutsCover ==
  ~mixed =>
    /\ \A d \in Group!Putting :
         /\ put[d].todo \subseteq Group!Inside
         /\ Group!Keyed = {} \/ put[d].at = "waits" => Group!Inside \subseteq put[d].todo \union put[d].rows
         /\ Group!Keyed # {} => put[d].rows = {}
    /\ Group!Keyed # {} => Group!Inside \subseteq Group!Keyed

GroupInv == Doings /\ Puts /\ PutsCover /\ Group!OneKey

LEMMA GroupStart == ASSUME Group!GroupAssumption, Group!Init PROVE GroupInv
<1> USE DEF Group!Init, Group!Rest, Group!Not, Group!Putting, Group!Keyed
<1>1. Doings
  BY DEF Doings, Doing, Changing
<1>2. Puts
  BY DEF Puts
<1>3. PutsCover /\ Group!OneKey
  BY DEF PutsCover, Group!OneKey
<1> QED BY <1>1, <1>2, <1>3 DEF GroupInv

LEMMA MovesOn ==
  ASSUME NEW s, Asked(s), NEW at
  PROVE  [s EXCEPT !.at = at].at = at /\ Asked([s EXCEPT !.at = at])
<1>1. PICK a, b, t, x, k : s = [at |-> a, by |-> b, todo |-> t, asked |-> x, held |-> k]
  BY DEF Asked
<1>2. PICK r : r = [s EXCEPT !.at = at]
  OBVIOUS
<1>3. r.at = at /\ Asked(r)
  BY <1>1, <1>2 DEF Asked
<1> QED BY <1>2, <1>3

LEMMA MovesOnWith ==
  ASSUME NEW s, Asked(s), NEW at, NEW todo
  PROVE  [s EXCEPT !.at = at, !.todo = todo].at = at /\ Asked([s EXCEPT !.at = at, !.todo = todo])
<1>1. PICK a, b, t, x, k : s = [at |-> a, by |-> b, todo |-> t, asked |-> x, held |-> k]
  BY DEF Asked
<1>2. PICK r : r = [s EXCEPT !.at = at, !.todo = todo]
  OBVIOUS
<1>3. r.at = at /\ Asked(r)
  BY <1>1, <1>2 DEF Asked
<1> QED BY <1>2, <1>3

LEMMA LeavesWith ==
  ASSUME NEW s, Asked(s), NEW at, NEW todo
  PROVE  [s EXCEPT !.todo = todo, !.at = at].at = at /\ Asked([s EXCEPT !.todo = todo, !.at = at])
<1>1. PICK a, b, t, x, k : s = [at |-> a, by |-> b, todo |-> t, asked |-> x, held |-> k]
  BY DEF Asked
<1>2. PICK r : r = [s EXCEPT !.todo = todo, !.at = at]
  OBVIOUS
<1>3. r.at = at /\ Asked(r)
  BY <1>1, <1>2 DEF Asked
<1> QED BY <1>2, <1>3

LEMMA MovesOnFor ==
  ASSUME NEW s, Asked(s), NEW at, NEW asked
  PROVE  [s EXCEPT !.at = at, !.asked = asked].at = at /\ Asked([s EXCEPT !.at = at, !.asked = asked])
<1>1. PICK a, b, t, x, k : s = [at |-> a, by |-> b, todo |-> t, asked |-> x, held |-> k]
  BY DEF Asked
<1>2. PICK r : r = [s EXCEPT !.at = at, !.asked = asked]
  OBVIOUS
<1>3. r.at = at /\ Asked(r)
  BY <1>1, <1>2 DEF Asked
<1> QED BY <1>2, <1>3

(* One request goes on.                                                    *)
LEMMA GoesOnAsking ==
  ASSUME Group!GroupAssumption, Doings, NEW h \in Handler, NEW r, doing' = [doing EXCEPT ![h] = r], member' = member,
         r.at \notin {"rest", "count"} => Asked(r), r.at = "count" => Telling(r),
         r.at = "rest" => r = Group!Rest, r.at \in Changing => FounderCame
  PROVE  Doings'
<1>1. /\ doing'[h] = r /\ doing' = [g \in Handler |-> doing'[g]]
      /\ \A g \in Handler \ {h} : doing'[g] = doing[g]
  BY DEF Doings
<1>2. FounderCame' <=> FounderCame
  BY DEF FounderCame
<1>3. ASSUME NEW g \in Handler PROVE Doing(g)'
  <2>1. CASE g = h
    BY <1>1, <1>2, <2>1 DEF Doing, Asked, Telling
  <2>2. CASE g # h
    BY <1>1, <1>2, <2>2 DEF Doings, Doing, Asked, Telling
  <2> QED BY <2>1, <2>2
<1> QED BY <1>1, <1>2, <1>3 DEF Doings

LEMMA KeysUntouched ==
  ASSUME Puts, PutsCover, Group!OneKey, UNCHANGED <<member, wrap, put, mixed>>
  PROVE  Puts' /\ PutsCover' /\ Group!OneKey'
<1>1. /\ FounderCame' = FounderCame
      /\ Group!Putting' = Group!Putting /\ Group!Keyed' = Group!Keyed /\ Group!Inside' = Group!Inside
  BY DEF Group!Putting, Group!Keyed, Group!Inside, FounderCame
<1>2. Puts'
  BY <1>1 DEF Puts
<1>3. PutsCover'
  BY <1>1 DEF PutsCover
<1>4. Group!OneKey'
  BY <1>1 DEF Group!OneKey
<1> QED BY <1>2, <1>3, <1>4

(* The steps of requests that leave the members alone.                     *)
Message ==
  \E h \in Handler :
    \/ Group!Post(h) \/ Group!ReadMembers(h) \/ Group!Tell(h) \/ Group!Stop(h)
    \/ \E ids \in SUBSET (User \ {Founder}) : Group!AskCreate(h, ids) \/ Group!AskAdd(h, ids)
    \/ \E u \in User :
         \/ Group!AskSend(h, u) \/ Group!GateCreate(h, u) \/ Group!GateAdd(h, u)
         \/ Group!CheckOther(h, u) \/ Group!Count(h, u)
         \/ \E by \in User : Group!AskRemove(h, by, u)
         \/ \E n \in 1..MaxPosts : Group!AskRead(h, u, n)

LEMMA MessageSteps == ASSUME Group!GroupAssumption, Doings, Message PROVE Doings' /\ UNCHANGED <<member, wrap, put, mixed>>
<1> USE DEF Group!keyVars
<1>0. PICK h \in Handler :
    \/ Group!Post(h) \/ Group!ReadMembers(h) \/ Group!Tell(h) \/ Group!Stop(h)
    \/ \E ids \in SUBSET (User \ {Founder}) : Group!AskCreate(h, ids) \/ Group!AskAdd(h, ids)
    \/ \E u \in User :
         \/ Group!AskSend(h, u) \/ Group!GateCreate(h, u) \/ Group!GateAdd(h, u)
         \/ Group!CheckOther(h, u) \/ Group!Count(h, u)
         \/ \E by \in User : Group!AskRemove(h, by, u)
         \/ \E n \in 1..MaxPosts : Group!AskRead(h, u, n)
  BY DEF Message
<1>m. Group!Inside # {} => FounderCame
  BY DEF Doings, Group!Inside, FounderCame
<1>f. Group!Rest.at = "rest" /\ "rest" \notin Changing /\ Founder \in User
  BY DEF Group!Rest, Changing, Group!GroupAssumption
<1>d. doing = [g \in Handler |-> doing[g]] /\ Doing(h)
  BY DEF Doings
<1>e. ASSUME doing' = [doing EXCEPT ![h] = Group!Rest], member' = member PROVE Doings'
  BY <1>e, <1>f, GoesOnAsking
(* A request that begins.                                                  *)
<1>s. ASSUME NEW at, NEW by, NEW todo, Group!Starts(h, at, by, todo), member' = member,
             at \notin {"rest", "count"}, at \in Changing => FounderCame
      PROVE  Doings'
  <2>1. PICK r : r = [at |-> at, by |-> by, todo |-> todo, asked |-> todo, held |-> blocked]
    OBVIOUS
  <2>2. doing' = [doing EXCEPT ![h] = r] /\ r.at = at /\ Asked(r)
    BY <1>s, <2>1 DEF Group!Starts, Asked
  <2> QED BY <1>s, <2>2, GoesOnAsking
(* A request that goes on with some of its fields changed.                 *)
<1>g. ASSUME NEW r, doing[h].at \notin {"rest", "count"}, member' = member,
             doing' = [doing EXCEPT ![h] = r], Asked(r),
             r.at \notin {"rest", "count"}, r.at \in Changing => doing[h].at \in Changing
      PROVE  Doings'
  <2>1. r.at \in Changing => FounderCame
    BY <1>d, <1>g DEF Doing
  <2> QED BY <1>g, <2>1, GoesOnAsking
<1>1. ASSUME Group!Post(h) PROVE Doings' /\ UNCHANGED <<member, wrap, put, mixed>>
  <2>1. doing[h].at = "post" /\ doing' = [doing EXCEPT ![h].at = "sent"] /\ UNCHANGED <<member, wrap, put, mixed>>
    BY <1>1 DEF Group!Post, Group!Goes
  <2>2. Asked(doing[h])
    BY <1>d, <2>1 DEF Doing
  <2>3. PICK r : r = [doing[h] EXCEPT !.at = "sent"]
    OBVIOUS
  <2>4. doing' = [doing EXCEPT ![h] = r]
    BY <2>1, <2>3
  <2>5. r.at = "sent" /\ Asked(r)
    BY MovesOn, <2>2, <2>3
  <2> QED BY <1>g, <2>1, <2>4, <2>5 DEF Changing
<1>2. ASSUME Group!ReadMembers(h) PROVE Doings' /\ UNCHANGED <<member, wrap, put, mixed>>
  <2>1. doing[h].at = "sent" /\ UNCHANGED <<member, wrap, put, mixed>>
    BY <1>2 DEF Group!ReadMembers
  <2>2. Asked(doing[h])
    BY <1>d, <2>1 DEF Doing
  <2>3. CASE Group!Audience(h) = {}
    BY <1>2, <1>e, <2>1, <2>3 DEF Group!ReadMembers
  <2>4. CASE Group!Audience(h) # {}
    <3>1. PICK a : a = Group!Audience(h)
      OBVIOUS
    <3>2. PICK r : r = [doing[h] EXCEPT !.at = "tell", !.todo = a]
      OBVIOUS
    <3>3. doing' = [doing EXCEPT ![h] = r]
      BY <1>2, <2>4, <3>1, <3>2 DEF Group!ReadMembers
    <3>4. r.at = "tell" /\ Asked(r)
      BY MovesOnWith, <2>2, <3>2
    <3> QED BY <1>g, <2>1, <3>3, <3>4 DEF Changing
  <2> QED BY <2>1, <2>3, <2>4
<1>3. ASSUME Group!Tell(h) PROVE Doings' /\ UNCHANGED <<member, wrap, put, mixed>>
  <2>1. doing[h].at = "count" /\ UNCHANGED <<member, wrap, put, mixed>>
    BY <1>3 DEF Group!Tell
  <2>2. CASE doing[h].todo = {}
    BY <1>3, <1>e, <2>1, <2>2 DEF Group!Tell
  <2>3. CASE doing[h].todo # {}
    <3>1. PICK r : r = [at |-> "tell", by |-> doing[h].by, todo |-> doing[h].todo, asked |-> {}, held |-> {}]
      OBVIOUS
    <3>2. doing' = [doing EXCEPT ![h] = r] /\ r.at = "tell" /\ Asked(r)
      BY <1>3, <2>3, <3>1 DEF Group!Tell, Asked
    <3> QED BY <2>1, <3>2, GoesOnAsking DEF Changing
  <2> QED BY <2>1, <2>2, <2>3
<1>4. ASSUME Group!Stop(h) PROVE Doings' /\ UNCHANGED <<member, wrap, put, mixed>>
  BY <1>4, <1>e DEF Group!Stop, Group!Ends
<1>5. ASSUME NEW ids, Group!AskCreate(h, ids) \/ Group!AskAdd(h, ids)
      PROVE  Doings' /\ UNCHANGED <<member, wrap, put, mixed>>
  <2>1. CASE Group!AskCreate(h, ids)
    BY <1>s, <2>1 DEF Group!AskCreate, Changing
  <2>2. CASE Group!AskAdd(h, ids)
    BY <1>s, <1>m, <2>2 DEF Group!AskAdd
  <2> QED BY <1>5, <2>1, <2>2
<1>6. ASSUME NEW u \in User, Group!AskSend(h, u) PROVE Doings' /\ UNCHANGED <<member, wrap, put, mixed>>
  <2>1. PICK at : at = IF Group!Inside = {u} THEN "post" ELSE "check"
    OBVIOUS
  <2>2. Group!Starts(h, at, u, Group!Inside \ {u}) /\ UNCHANGED <<member, wrap, put, mixed>>
    BY <1>6, <2>1 DEF Group!AskSend
  <2>3. at \notin Changing \union {"rest", "count"}
    BY <2>1 DEF Changing
  <2> QED BY <1>s, <2>2, <2>3
<1>7. ASSUME NEW u \in User, Group!GateCreate(h, u) \/ Group!CheckOther(h, u)
      PROVE  Doings' /\ UNCHANGED <<member, wrap, put, mixed>>
  <2>1. doing[h].at \in {"create", "check"} /\ UNCHANGED <<member, wrap, put, mixed>>
    BY <1>7 DEF Group!GateCreate, Group!CheckOther
  <2>2. Asked(doing[h])
    BY <1>d, <2>1 DEF Doing
  <2>3. CASE doing' = [doing EXCEPT ![h] = Group!Rest]
    BY <1>e, <2>1, <2>3
  <2>4. CASE \E next \in {"make", "post"} :
               doing' = [doing EXCEPT ![h].todo = @ \ {u},
                                      ![h].at = IF doing[h].todo = {u} THEN next ELSE @]
    <3>1. PICK next \in {"make", "post"} :
               doing' = [doing EXCEPT ![h].todo = @ \ {u},
                                      ![h].at = IF doing[h].todo = {u} THEN next ELSE @]
      BY <2>4
    <3>2. PICK at : at = IF doing[h].todo = {u} THEN next ELSE doing[h].at
      OBVIOUS
    <3>3. PICK todo : todo = doing[h].todo \ {u}
      OBVIOUS
    <3>4. PICK r : r = [doing[h] EXCEPT !.todo = todo, !.at = at]
      OBVIOUS
    <3>5. doing' = [doing EXCEPT ![h] = r]
      BY <1>d, <2>2, <3>1, <3>2, <3>3, <3>4 DEF Asked
    <3>6. r.at = at /\ Asked(r)
      BY LeavesWith, <2>2, <3>4
    <3>7. at \notin Changing \union {"rest", "count"}
      BY <2>1, <3>1, <3>2 DEF Changing
    <3> QED BY <1>g, <2>1, <3>5, <3>6, <3>7
  <2> QED BY <1>7, <2>3, <2>4 DEF Group!GateCreate, Group!CheckOther, Group!Ends
<1>8. ASSUME NEW u \in User, Group!GateAdd(h, u) PROVE Doings' /\ UNCHANGED <<member, wrap, put, mixed>>
  <2>1. doing[h].at = "gate" /\ UNCHANGED <<member, wrap, put, mixed>>
    BY <1>8 DEF Group!GateAdd
  <2>2. Asked(doing[h])
    BY <1>d, <2>1 DEF Doing
  <2>3. CASE doing' = [doing EXCEPT ![h] = Group!Rest]
    BY <1>e, <2>1, <2>3
  <2>4. CASE doing' = [doing EXCEPT ![h].at = "ensure", ![h].asked = {u}]
    <3>4. PICK asked : asked = {u}
      OBVIOUS
    <3>1. PICK r : r = [doing[h] EXCEPT !.at = "ensure", !.asked = asked]
      OBVIOUS
    <3>2. doing' = [doing EXCEPT ![h] = r]
      BY <1>d, <2>4, <3>1, <3>4
    <3>3. r.at = "ensure" /\ Asked(r)
      BY MovesOnFor, <2>2, <3>1
    <3> QED BY <1>g, <2>1, <3>2, <3>3 DEF Changing
  <2> QED BY <1>8, <2>1, <2>3, <2>4 DEF Group!GateAdd, Group!Ends
<1>9. ASSUME NEW u \in User, Group!Count(h, u) PROVE Doings' /\ UNCHANGED <<member, wrap, put, mixed>>
  <2>1. PICK r : r = [at |-> "count", by |-> doing[h].by, user |-> u, count |-> Group!Counted(u),
                      todo |-> doing[h].todo \ {u}, asked |-> {}, held |-> {}]
    OBVIOUS
  <2>2. /\ doing' = [doing EXCEPT ![h] = r] /\ r.at = "count" /\ Telling(r)
        /\ UNCHANGED <<member, wrap, put, mixed>>
    BY <1>9, <2>1 DEF Group!Count, Telling
  <2> QED BY <2>2, GoesOnAsking DEF Changing
<1>10. ASSUME NEW u \in User, NEW by \in User, Group!AskRemove(h, by, u)
       PROVE  Doings' /\ UNCHANGED <<member, wrap, put, mixed>>
  BY <1>10, <1>s, <1>m DEF Group!AskRemove
<1>11. ASSUME NEW u \in User, NEW n, Group!AskRead(h, u, n)
       PROVE  Doings' /\ UNCHANGED <<member, wrap, put, mixed>>
  BY <1>11, <1>s DEF Group!AskRead, Changing
<1> QED BY <1>0, <1>1, <1>2, <1>3, <1>4, <1>5, <1>6, <1>7, <1>8, <1>9, <1>10, <1>11

(* The steps that change who is a member.                                  *)
LEMMA MemberSteps ==
  ASSUME Group!GroupAssumption, GroupInv, NEW h \in Handler,
         Group!Make(h) \/ Group!EnsureMember(h) \/ Group!Remove(h)
  PROVE  GroupInv'
<1> USE DEF Group!keyVars
<1>f. /\ Group!Rest.at = "rest" /\ Founder \in User /\ Doings /\ Puts /\ PutsCover
      /\ doing = [g \in Handler |-> doing[g]] /\ member = [u \in User |-> member[u]]
      /\ mixed \in BOOLEAN /\ \A g \in Handler : Doing(g)
      /\ (\E u \in User : member[u] # "none") => FounderCame
  BY DEF Group!Rest, Group!GroupAssumption, GroupInv, Doings, Puts
<1>1. doing[h].at \in {"make", "ensure", "remove"} /\ UNCHANGED <<wrap, put>>
  BY DEF Group!Make, Group!EnsureMember, Group!Remove
<1>2. doing[h].at \notin {"rest", "count"} /\ Asked(doing[h])
  BY <1>1, <1>f DEF Doing
<1>3. doing[h].at \in Changing => FounderCame
  BY <1>f DEF Doing
<1>4. \A g \in Handler \ {h} : doing'[g] = doing[g]
  BY <1>f DEF Group!Make, Group!EnsureMember, Group!Remove, Group!Ends
<1>5. /\ doing' = [g \in Handler |-> doing'[g]]
      /\ \/ doing'[h] = Group!Rest
         \/ doing'[h].at \notin {"rest", "count"} /\ Asked(doing'[h])
  <2>1. CASE doing' = [doing EXCEPT ![h] = Group!Rest]
    BY <1>f, <2>1
  <2>2. CASE Group!EnsureMember(h)
    <3>1. PICK todo : todo = doing[h].todo \ {CHOOSE u \in doing[h].asked : TRUE}
      OBVIOUS
    <3>2. doing[h].at = "ensure"
          /\ doing' = [doing EXCEPT ![h] = IF todo = {} THEN Group!Rest ELSE [@ EXCEPT !.at = "gate", !.todo = todo]]
      BY <2>2, <3>1 DEF Group!EnsureMember
    <3>3. CASE todo = {}
      BY <2>1, <3>2, <3>3
    <3>4. CASE todo # {}
      <4>1. PICK r : r = [doing[h] EXCEPT !.at = "gate", !.todo = todo]
        OBVIOUS
      <4>2. doing' = [doing EXCEPT ![h] = r]
        BY <3>2, <3>4, <4>1
      <4>5. r.at = "gate" /\ Asked(r)
        BY MovesOnWith, <1>2, <4>1
      <4> QED BY <1>f, <4>2, <4>5
    <3> QED BY <3>3, <3>4
  <2> QED BY <2>1, <2>2 DEF Group!Make, Group!Remove, Group!Ends
(* The founder came, whoever is a member now.                              *)
<1>6. /\ member' = [u \in User |-> member'[u]]
      /\ FounderCame => FounderCame'
      /\ (\E u \in User : member'[u] # "none") => FounderCame'
  <2>1. CASE Group!Make(h)
    BY <1>f, <2>1 DEF Group!Make, FounderCame
  <2>2. CASE Group!EnsureMember(h)
    <3>1. FounderCame
      BY <1>3, <2>2 DEF Group!EnsureMember, Changing
    <3>2. PICK u : member' = [member EXCEPT ![u] = "in"]
      BY <2>2 DEF Group!EnsureMember
    <3>3. member'[Founder] \in {"in", member[Founder]}
      BY <1>f, <3>2
    <3> QED BY <1>f, <3>1, <3>2, <3>3 DEF FounderCame
  <2>3. CASE Group!Remove(h)
    <3>1. FounderCame
      BY <1>3, <2>3 DEF Group!Remove, Changing
    <3>2. member' = [u \in User |-> IF u \in doing[h].asked THEN "left" ELSE member[u]]
      BY <2>3 DEF Group!Remove
    <3> QED BY <1>f, <3>1, <3>2 DEF FounderCame
  <2> QED BY <2>1, <2>2, <2>3
<1>7. Doings'
  <2>1. ASSUME NEW g \in Handler PROVE Doing(g)'
    <3>1. CASE g = h /\ doing'[h] = Group!Rest
      BY <1>f, <3>1 DEF Doing, Changing
    <3>2. CASE g = h /\ doing'[h] # Group!Rest
      <4>1. Group!EnsureMember(h)
        BY <1>f, <3>2 DEF Group!Make, Group!Remove, Group!Ends
      <4>2. FounderCame
        BY <1>3, <4>1 DEF Group!EnsureMember, Changing
      <4> QED BY <1>5, <1>6, <3>2, <4>2 DEF Doing, Asked
    <3>3. CASE g # h
      BY <1>4, <1>f, <1>6, <3>3 DEF Doing, Asked, Telling
    <3> QED BY <3>1, <3>2, <3>3
  <2> QED BY <1>5, <1>6, <2>1 DEF Doings
(* Who joins or leaves with keys about is seen to.                         *)
<1>8. /\ Group!Putting' = Group!Putting /\ Group!Keyed' = Group!Keyed
      /\ mixed' \in BOOLEAN /\ (mixed => mixed')
  BY <1>1, <1>f DEF Group!Putting, Group!Keyed, Group!Make, Group!EnsureMember, Group!Remove
<1>9. Puts'
  BY <1>1, <1>6, <1>8, <1>f DEF Puts
<1>10. ~mixed' => \/ Group!Inside' = Group!Inside
                  \/ Group!Putting = {} /\ (Group!Keyed = {} \/ Group!Inside' \subseteq Group!Inside)
  <2>1. CASE Group!Make(h)
    <3>1. CASE Group!Inside # {} \/ member[Founder] # "none"
      BY <2>1, <3>1 DEF Group!Make, Group!Inside
    <3>2. CASE Group!Inside = {} /\ member[Founder] = "none"
      <4>2. Group!Keyed = {} /\ Group!Putting = {}
        BY <1>f, <3>2 DEF Puts, FounderCame
      <4> QED BY <4>2
    <3> QED BY <3>1, <3>2
  <2>2. CASE Group!EnsureMember(h)
    <3>1. PICK u : /\ member' = [member EXCEPT ![u] = "in"]
                   /\ mixed' = (mixed \/ (u \notin Group!Inside /\ (Group!Keyed # {} \/ Group!Putting # {})))
      BY <2>2 DEF Group!EnsureMember
    <3>2. CASE u \in Group!Inside
      BY <1>f, <3>1, <3>2 DEF Group!Inside
    <3>3. CASE u \notin Group!Inside
      BY <3>1, <3>3
    <3> QED BY <3>2, <3>3
  <2>3. CASE Group!Remove(h)
    <3>1. Group!Inside' \subseteq Group!Inside
      BY <2>3, <1>f DEF Group!Remove, Group!Inside
    <3>2. ~mixed' => Group!Putting = {}
      BY <2>3 DEF Group!Remove
    <3> QED BY <3>1, <3>2
  <2> QED BY <2>1, <2>2, <2>3
<1>11. PutsCover'
  BY <1>1, <1>8, <1>10, <1>f DEF PutsCover
<1>12. Group!OneKey'
  BY <1>1, <1>8 DEF GroupInv, Group!OneKey
<1> QED BY <1>7, <1>9, <1>11, <1>12 DEF GroupInv

(* The steps of the devices.                                               *)
LEMMA KeySteps ==
  ASSUME Group!GroupAssumption, GroupInv, NEW d \in Device,
         \/ Group!Wrap(d) \/ Group!Lock(d) \/ Group!Commit(d)
         \/ \E u \in User : Group!Row(d, u)
  PROVE  Puts' /\ PutsCover' /\ Group!OneKey'
<1> USE DEF Group!Not
<1>f. /\ Doings /\ Puts /\ PutsCover /\ Group!OneKey
      /\ put = [e \in Device |-> put[e]] /\ wrap = [u \in User |-> wrap[u]] /\ mixed \in BOOLEAN
      /\ put[d] # Group!Not => put[d] \in PutRow
      /\ Group!Keyed # {} \/ Group!Putting # {} => FounderCame
      /\ Group!Inside # {} => FounderCame
  BY DEF GroupInv, Puts, Doings, Group!Putting, Group!Inside, FounderCame
<1>g. UNCHANGED <<member, mixed>>
  BY DEF Group!Wrap, Group!Lock, Group!Commit, Group!Row, Group!messageVars
<1>i. Group!Inside' = Group!Inside /\ FounderCame' = FounderCame
  BY <1>g DEF Group!Inside, FounderCame
(* A device whose row is p after the step, with no key stored.             *)
<1>p. ASSUME NEW p \in PutRow, put' = [put EXCEPT ![d] = p], UNCHANGED wrap, FounderCame,
             p.at = "waits" => p.rows = {},
             p.at = "holds" => put[d].at = "holds" \/ \A e \in Device : put[e].at # "holds",
             ~mixed => /\ p.todo \subseteq Group!Inside
                       /\ Group!Keyed = {} \/ p.at = "waits" => Group!Inside \subseteq p.todo \union p.rows
                       /\ Group!Keyed # {} => p.rows = {}
      PROVE  Puts' /\ PutsCover' /\ Group!OneKey'
  <2>1. /\ put'[d] = p /\ put' = [e \in Device |-> put'[e]] /\ Group!Keyed' = Group!Keyed
        /\ \A e \in Device \ {d} : put'[e] = put[e]
    BY <1>p, <1>f DEF Group!Keyed
  <2>2. \A e \in Group!Putting' \ {d} : e \in Group!Putting /\ put'[e] = put[e]
    BY <2>1 DEF Group!Putting
  <2>3. Puts'
    BY <1>p, <1>f, <1>g, <1>i, <2>1, <2>2 DEF Puts
  <2>4. PutsCover'
    BY <1>p, <1>f, <1>g, <1>i, <2>1, <2>2 DEF PutsCover
  <2>5. Group!OneKey'
    BY <1>p, <1>f, <1>g, <2>1 DEF Group!OneKey
  <2> QED BY <2>3, <2>4, <2>5
<1>1. CASE Group!Wrap(d)
  <2>1. PICK p : p = [at |-> "waits", todo |-> Group!Inside, rows |-> {}]
    OBVIOUS
  <2>2. put' = [put EXCEPT ![d] = p] /\ UNCHANGED wrap /\ Group!Inside # {}
    BY <1>1, <2>1 DEF Group!Wrap
  <2>3. p \in PutRow
    BY <2>1 DEF PutRow, Group!Inside
  <2> QED BY <1>p, <1>f, <2>1, <2>2, <2>3
<1>2. CASE Group!Lock(d)
  <2>1. PICK p : p = [put[d] EXCEPT !.at = "holds"]
    OBVIOUS
  <2>2. put' = [put EXCEPT ![d] = p] /\ UNCHANGED wrap /\ put[d].at = "waits" /\ \A e \in Device : put[e].at # "holds"
    BY <1>2, <2>1 DEF Group!Lock, Group!LockFree
  <2>3. d \in Group!Putting
    BY <2>2 DEF Group!Putting
  <2>4. put[d] \in PutRow
    BY <1>f, <2>3 DEF Group!Putting
  <2>5. p \in PutRow /\ p.at = "holds" /\ p.todo = put[d].todo /\ p.rows = put[d].rows
    BY <2>1, <2>4 DEF PutRow
  <2>6. ~mixed => /\ p.todo \subseteq Group!Inside
                  /\ Group!Keyed = {} \/ p.at = "waits" => Group!Inside \subseteq p.todo \union p.rows
                  /\ Group!Keyed # {} => p.rows = {}
    BY <1>f, <2>3, <2>5 DEF PutsCover
  <2>7. FounderCame
    BY <1>f, <2>3
  <2> QED BY <1>p, <2>2, <2>5, <2>6, <2>7
<1>3. ASSUME NEW u \in User, Group!Row(d, u) PROVE Puts' /\ PutsCover' /\ Group!OneKey'
  <2>1. PICK given : given = IF wrap[u] = Group!NoKey THEN put[d].rows \union {u} ELSE put[d].rows
    OBVIOUS
  <2>2. PICK p : p = [at |-> "holds", todo |-> put[d].todo \ {u}, rows |-> given]
    OBVIOUS
  <2>3. put[d].at = "holds" /\ u \in put[d].todo /\ UNCHANGED wrap
    BY <1>3 DEF Group!Row
  <2>4. d \in Group!Putting
    BY <2>3 DEF Group!Putting
  <2>5. put[d] \in PutRow
    BY <1>f, <2>4 DEF Group!Putting
  <2>6. PICK t, x : put[d] = [at |-> "holds", todo |-> t, rows |-> x] /\ t \subseteq User /\ x \subseteq User
    BY <2>3, <2>5 DEF PutRow
  <2>7. put' = [put EXCEPT ![d] = p]
    <3>1. PICK r1 : r1 = [put[d] EXCEPT !.todo = put[d].todo \ {u}]
      OBVIOUS
    <3>2. PICK r2 : r2 = [r1 EXCEPT !.rows = IF wrap[u] = Group!NoKey THEN put[d].rows \union {u} ELSE put[d].rows]
      OBVIOUS
    <3>3. r1 = [at |-> "holds", todo |-> t \ {u}, rows |-> x]
      <4>1. PICK q : q = t \ {u}
        OBVIOUS
      <4>2. put[d].todo \ {u} = q
        BY <2>6, <4>1
      <4>3. r1 = [put[d] EXCEPT !.todo = q]
        BY <3>1, <4>2
      <4>4. r1 = [at |-> "holds", todo |-> q, rows |-> x]
        BY <2>6, <4>3
      <4> QED BY <4>1, <4>4
    <3>4. r2 = p
      BY <2>1, <2>2, <2>6, <3>2, <3>3
    <3>5. put' = [put EXCEPT ![d] = r2]
      BY <1>3, <1>f, <2>6, <3>1, <3>2, <3>3 DEF Group!Row
    <3> QED BY <3>4, <3>5
  <2>8. p \in PutRow
    BY <2>1, <2>2, <2>6 DEF PutRow
  <2>9. ~mixed => /\ p.todo \subseteq Group!Inside
                  /\ Group!Keyed = {} \/ p.at = "waits" => Group!Inside \subseteq p.todo \union p.rows
                  /\ Group!Keyed # {} => p.rows = {}
    <3> SUFFICES ASSUME ~mixed
                 PROVE  /\ p.todo \subseteq Group!Inside
                        /\ Group!Keyed = {} \/ p.at = "waits" => Group!Inside \subseteq p.todo \union p.rows
                        /\ Group!Keyed # {} => p.rows = {}
      OBVIOUS
    <3>1. /\ t \subseteq Group!Inside
          /\ Group!Keyed = {} => Group!Inside \subseteq t \union x
          /\ Group!Keyed # {} => x = {} /\ Group!Inside \subseteq Group!Keyed
      BY <1>f, <2>4, <2>6 DEF PutsCover
    <3>2. p.at = "holds" /\ p.todo = t \ {u} /\ p.rows = given /\ put[d].rows = x /\ u \in t
      BY <2>2, <2>3, <2>6
    <3>3. u \in Group!Keyed <=> wrap[u] # Group!NoKey
      BY DEF Group!Keyed
    <3>4. CASE wrap[u] = Group!NoKey
      BY <2>1, <3>1, <3>2, <3>3, <3>4
    <3>5. CASE wrap[u] # Group!NoKey
      <4>1. given = x /\ u \in Group!Keyed
        BY <2>1, <3>2, <3>3, <3>5
      <4>2. x = {} /\ Group!Inside \subseteq Group!Keyed
        BY <3>1, <4>1
      <4> QED BY <3>1, <3>2, <4>1, <4>2
    <3> QED BY <3>4, <3>5
  <2>10. FounderCame
    BY <1>f, <2>4
  <2> QED BY <1>p, <2>2, <2>3, <2>7, <2>8, <2>9, <2>10
<1>4. CASE Group!Commit(d)
  <2>1. /\ put[d].at = "holds" /\ put[d].todo = {}
        /\ wrap' = IF put[d].rows \intersect Group!Keyed # {} THEN wrap
                   ELSE [u \in User |-> IF u \in put[d].rows THEN d ELSE wrap[u]]
        /\ put' = [put EXCEPT ![d] = Group!Not]
    BY <1>4 DEF Group!Commit
  <2>2. d \in Group!Putting
    BY <2>1 DEF Group!Putting
  <2>3. put[d] \in PutRow /\ FounderCame
    BY <1>f, <2>2 DEF Group!Putting
  <2>4. /\ put'[d] = Group!Not /\ put' = [e \in Device |-> put'[e]]
        /\ \A e \in Device \ {d} : put'[e] = put[e]
    BY <1>f, <2>1
  <2>5. Group!Putting' = Group!Putting \ {d} /\ \A e \in Group!Putting' : put'[e] = put[e] /\ e # d
    BY <2>4 DEF Group!Putting
  <2>6. \A e \in Group!Putting' : put[e].at = "waits" /\ put[e].rows = {}
    BY <1>f, <2>1, <2>5 DEF Puts, PutRow, Group!Putting
  <2>7. Puts'
    <3>1. wrap' = [u \in User |-> wrap'[u]]
      BY <1>f, <2>1
    <3> QED BY <1>f, <1>g, <1>i, <2>3, <2>4, <2>5, <3>1 DEF Puts
  <2>8. CASE ~mixed /\ Group!Keyed # {}
    <3>1. put[d].rows = {}
      BY <1>f, <2>2, <2>8 DEF PutsCover
    <3>2. wrap' = wrap
      BY <1>f, <2>1, <3>1
    <3>3. Group!Keyed' = Group!Keyed
      BY <3>2 DEF Group!Keyed
    <3>4. PutsCover'
      BY <1>f, <1>g, <1>i, <2>5, <3>3 DEF PutsCover
    <3>5. Group!OneKey'
      BY <1>f, <1>g, <3>2, <3>3 DEF Group!OneKey
    <3> QED BY <2>7, <3>4, <3>5
  <2>9. CASE ~mixed /\ Group!Keyed = {}
    <3>1. /\ wrap' = [u \in User |-> IF u \in put[d].rows THEN d ELSE wrap[u]]
          /\ \A u \in User : wrap[u] = Group!NoKey
      BY <2>1, <2>9 DEF Group!Keyed
    <3>2. \A u \in Group!Keyed' : wrap'[u] = d /\ d # Group!NoKey
      BY <3>1 DEF Group!Keyed
    <3>3. Group!Keyed' # {} => put[d].rows \subseteq Group!Keyed'
      <4>1. put[d].rows \subseteq User
        BY <2>3 DEF PutRow
      <4> QED BY <3>1, <3>2, <4>1 DEF Group!Keyed
    <3>4. Group!Inside \subseteq put[d].rows
      BY <1>f, <2>1, <2>2, <2>9 DEF PutsCover
    <3>5. PutsCover'
      BY <1>f, <1>g, <1>i, <2>5, <2>6, <2>9, <3>3, <3>4 DEF PutsCover
    <3>6. Group!OneKey'
      BY <3>2 DEF Group!OneKey
    <3> QED BY <2>7, <3>5, <3>6
  <2>10. CASE mixed
    BY <1>g, <2>7, <2>10 DEF PutsCover, Group!OneKey
  <2> QED BY <1>f, <2>8, <2>9, <2>10
<1> QED BY <1>1, <1>2, <1>3, <1>4

LEMMA GroupStep ==
  ASSUME Group!GroupAssumption, GroupInv, [Group!Next]_Group!groupVars PROVE GroupInv'
<1>0. Doings /\ Puts /\ PutsCover /\ Group!OneKey
  BY DEF GroupInv
<1>1. CASE Message
  <2>1. Doings' /\ UNCHANGED <<member, wrap, put, mixed>>
    BY <1>0, <1>1, MessageSteps
  <2>2. Puts' /\ PutsCover' /\ Group!OneKey'
    BY <1>0, <2>1, KeysUntouched
  <2> QED BY <2>1, <2>2 DEF GroupInv
<1>2. CASE \E h \in Handler : Group!Make(h) \/ Group!EnsureMember(h) \/ Group!Remove(h)
  BY <1>2, MemberSteps
<1>3. ASSUME UNCHANGED <<member, doing>> PROVE Doings'
  BY <1>0, <1>3 DEF Doings, Doing, FounderCame, Asked, Telling
<1>4. CASE \E d \in Device : \/ Group!Wrap(d) \/ Group!Lock(d) \/ Group!Commit(d)
                            \/ \E u \in User : Group!Row(d, u)
  <2>1. PICK d \in Device : \/ Group!Wrap(d) \/ Group!Lock(d) \/ Group!Commit(d)
                           \/ \E u \in User : Group!Row(d, u)
    BY <1>4
  <2>2. UNCHANGED <<member, doing>>
    BY <2>1 DEF Group!Wrap, Group!Lock, Group!Commit, Group!Row, Group!messageVars
  <2>3. Puts' /\ PutsCover' /\ Group!OneKey'
    BY <2>1, KeySteps
  <2> QED BY <1>3, <2>2, <2>3 DEF GroupInv
<1>5. CASE Group!Reset
  <2>1. /\ wrap' = [u \in User |-> Group!NoKey] /\ UNCHANGED <<member, doing, put>>
        /\ mixed' = (mixed \/ ~Group!LockFree) /\ Group!Inside # {}
    BY <1>5 DEF Group!Reset, Group!messageVars
  <2>2. /\ Group!Keyed' = {} /\ Group!Inside' = Group!Inside /\ Group!Putting' = Group!Putting
        /\ FounderCame' = FounderCame
    BY <2>1 DEF Group!Keyed, Group!Inside, Group!Putting, FounderCame
  <2>3. Puts'
    BY <1>0, <2>1, <2>2 DEF Puts
  <2>4. ~mixed' => ~mixed /\ \A d \in Group!Putting : put[d].at = "waits"
    BY <1>0, <2>1 DEF Group!LockFree, Puts, PutRow, Group!Putting
  <2>5. PutsCover'
    BY <1>0, <2>1, <2>2, <2>4 DEF PutsCover
  <2>6. Group!OneKey'
    BY <2>2 DEF Group!OneKey
  <2> QED BY <1>3, <2>1, <2>3, <2>5, <2>6 DEF GroupInv
<1>6. ASSUME NEW pair, Group!Block(pair) PROVE GroupInv'
  <2>1. /\ doing' = [h \in Handler |-> IF doing[h] = Group!Rest THEN Group!Rest
                                       ELSE [doing[h] EXCEPT !.held = @ \ {pair}]]
        /\ UNCHANGED <<member, wrap, put, mixed>>
    BY <1>6 DEF Group!Block, Group!keyVars
  <2>2. ASSUME NEW h \in Handler PROVE Doing(h)'
    <3>1. FounderCame' = FounderCame
      BY <2>1 DEF FounderCame
    <3>2. CASE doing[h] = Group!Rest
      BY <2>1, <3>2 DEF Doing, Group!Rest, Changing
    <3>3. CASE doing[h] # Group!Rest
      <4>0. doing'[h] = [doing[h] EXCEPT !.held = @ \ {pair}] /\ Doing(h) /\ doing[h].at # "rest"
        BY <1>0, <2>1, <3>3 DEF Doings, Doing
      <4>1. CASE doing[h].at # "count"
        <5>1. PICK a, b, t, x, k : doing[h] = [at |-> a, by |-> b, todo |-> t, asked |-> x, held |-> k]
          BY <4>0, <4>1 DEF Doing, Asked
        <5>2. doing'[h].at = doing[h].at /\ Asked(doing'[h])
          BY <4>0, <5>1 DEF Asked
        <5> QED BY <3>1, <4>0, <4>1, <5>2 DEF Doing, Asked
      <4>2. CASE doing[h].at = "count"
        <5>1. PICK a, b, u, n, t, x, k :
                doing[h] = [at |-> a, by |-> b, user |-> u, count |-> n, todo |-> t, asked |-> x, held |-> k]
          BY <4>0, <4>2 DEF Doing, Telling
        <5>2. doing'[h].at = doing[h].at /\ Telling(doing'[h])
          BY <4>0, <5>1 DEF Telling
        <5> QED BY <3>1, <4>0, <4>2, <5>2 DEF Doing, Telling
      <4> QED BY <4>1, <4>2
    <3> QED BY <3>2, <3>3
  <2>3. Doings'
    BY <1>0, <2>1, <2>2 DEF Doings, FounderCame
  <2>4. Puts' /\ PutsCover' /\ Group!OneKey'
    BY <1>0, <2>1, KeysUntouched
  <2> QED BY <2>3, <2>4 DEF GroupInv
<1>7. CASE UNCHANGED Group!groupVars
  <2>1. UNCHANGED <<member, doing, wrap, put, mixed>>
    BY <1>7 DEF Group!groupVars, Group!messageVars, Group!keyVars
  <2>2. Puts' /\ PutsCover' /\ Group!OneKey'
    BY <1>0, <2>1, KeysUntouched
  <2> QED BY <1>3, <2>1, <2>2 DEF GroupInv
<1> QED BY <1>1, <1>2, <1>4, <1>5, <1>6, <1>7 DEF Group!Next, Message

(* Any number of members and devices: whatever race or come and go, the    *)
(* key wrapped for every member is of one device, unless keys were reset   *)
(* while they were stored or the members changed meanwhile.                *)
THEOREM MembersShareAKey == ASSUME Group!GroupAssumption PROVE Group!Spec => []Group!OneKey
<1>1. Group!Init => GroupInv
  BY GroupStart
<1>2. GroupInv /\ [Group!Next]_Group!groupVars => GroupInv'
  BY GroupStep
<1>3. GroupInv => Group!OneKey
  BY DEF GroupInv
<1> QED BY <1>1, <1>2, <1>3, PTL DEF Group!Spec

(* What a request knows: whom it has looked at was not in a block with its *)
(* sender then, so the two are in none that has held since it began.       *)
Heeded(r) ==
  r.at \in {"create", "make", "gate", "ensure", "check", "post"} =>
    /\ r.held \subseteq blocked
    /\ r.at \in {"create", "check"} => \A u \in r.asked \ r.todo : {r.by, u} \notin r.held
    /\ r.at \in {"make", "ensure", "post"} => \A u \in r.asked : {r.by, u} \notin r.held
    /\ r.at \in {"create", "make", "gate", "ensure"} => r.by = Founder
Heeding ==
  /\ Doings /\ trespass \in BOOLEAN
  /\ \A h \in Handler : Heeded(doing[h])
  /\ Group!BlocksAreHeeded

(* One more was looked at.                                                 *)
LooksOn(h, u, next) ==
  /\ UNCHANGED <<blocked, trespass>> /\ u \in doing[h].todo /\ {doing[h].by, u} \notin blocked
  /\ <<doing[h].at, next>> \in {<<"create", "make">>, <<"check", "post">>}
  /\ doing' = [doing EXCEPT ![h].todo = @ \ {u},
                            ![h].at = IF doing[h].todo = {u} THEN next ELSE @]

LEMMA HeedsOn ==
  ASSUME Heeding, Doings', NEW h \in Handler, NEW r, doing' = [doing EXCEPT ![h] = r],
         UNCHANGED <<blocked, trespass>>, Heeded(r)
  PROVE  Heeding'
<1>1. doing'[h] = r /\ \A g \in Handler \ {h} : doing'[g] = doing[g]
  BY DEF Heeding, Doings
<1>2. ASSUME NEW g \in Handler PROVE Heeded(doing[g])'
  <2>1. CASE g = h
    BY <1>1, <2>1 DEF Heeded
  <2>2. CASE g # h
    BY <1>1, <2>2 DEF Heeding, Heeded
  <2> QED BY <2>1, <2>2
<1> QED BY <1>2 DEF Heeding, Group!BlocksAreHeeded

LEMMA HeedingStep ==
  ASSUME Group!GroupAssumption, Heeding, Doings', [Group!Next]_Group!groupVars PROVE Heeding'
<1> USE DEF Group!keyVars
<1>f. Heeded(Group!Rest) /\ Doings /\ trespass = FALSE /\ \A h \in Handler : Heeded(doing[h])
  BY DEF Heeded, Group!Rest, Heeding, Group!BlocksAreHeeded
<1>e. ASSUME NEW h \in Handler, doing' = [doing EXCEPT ![h] = Group!Rest], UNCHANGED <<blocked, trespass>>
      PROVE  Heeding'
  BY <1>e, <1>f, HeedsOn
<1>d. ASSUME NEW h \in Handler, doing[h].at \notin {"rest", "count"} PROVE Asked(doing[h])
  BY <1>d DEF Heeding, Doings, Doing
<1>s. ASSUME NEW h \in Handler, NEW at, NEW by, NEW todo, Group!Starts(h, at, by, todo),
             UNCHANGED <<blocked, trespass>>,
             at \in {"make", "ensure", "post"} => todo = {},
             at \in {"create", "make", "gate", "ensure"} => by = Founder
      PROVE  Heeding'
  <2>1. PICK r : r = [at |-> at, by |-> by, todo |-> todo, asked |-> todo, held |-> blocked]
    OBVIOUS
  <2>2. doing' = [doing EXCEPT ![h] = r] /\ Heeded(r)
    BY <1>s, <2>1 DEF Group!Starts, Heeded
  <2> QED BY <1>s, <2>2, HeedsOn
(* Whoever adds, or writes, is barred by nobody.                           *)
<1>b. ASSUME NEW h \in Handler, doing[h].at \in {"make", "ensure", "post"} PROVE ~Group!Barred(h)
  BY <1>b, <1>f DEF Heeded, Group!Barred
<1>1. ASSUME NEW h \in Handler, NEW ids, Group!AskCreate(h, ids) \/ Group!AskAdd(h, ids) PROVE Heeding'
  BY <1>1, <1>s DEF Group!AskCreate, Group!AskAdd
<1>2. ASSUME NEW h \in Handler, NEW by, NEW u, Group!AskRemove(h, by, u) PROVE Heeding'
  BY <1>2, <1>s DEF Group!AskRemove
<1>3. ASSUME NEW h \in Handler, NEW u, NEW n, Group!AskRead(h, u, n) PROVE Heeding'
  BY <1>3, <1>s DEF Group!AskRead
<1>4. ASSUME NEW h \in Handler, NEW u, Group!AskSend(h, u) PROVE Heeding'
  <2>1. PICK at : at = IF Group!Inside = {u} THEN "post" ELSE "check"
    OBVIOUS
  <2>2. Group!Starts(h, at, u, Group!Inside \ {u}) /\ UNCHANGED <<blocked, trespass>>
    BY <1>4, <2>1 DEF Group!AskSend
  <2>3. at \in {"make", "ensure", "post"} => Group!Inside \ {u} = {}
    BY <2>1
  <2>4. at \notin {"create", "make", "gate", "ensure"}
    BY <2>1
  <2> QED BY <1>s, <2>2, <2>3, <2>4
<1>c. ASSUME NEW h \in Handler, NEW u, NEW next, LooksOn(h, u, next)
      PROVE  Heeding'
  <2>l. /\ UNCHANGED <<blocked, trespass>> /\ u \in doing[h].todo
        /\ {doing[h].by, u} \notin blocked
        /\ <<doing[h].at, next>> \in {<<"create", "make">>, <<"check", "post">>}
        /\ doing' = [doing EXCEPT ![h].todo = @ \ {u},
                                  ![h].at = IF doing[h].todo = {u} THEN next ELSE @]
    BY <1>c DEF LooksOn
  <2>1. PICK at : at = IF doing[h].todo = {u} THEN next ELSE doing[h].at
    OBVIOUS
  <2>2. PICK todo : todo = doing[h].todo \ {u}
    OBVIOUS
  <2>3. PICK r : r = [doing[h] EXCEPT !.todo = todo, !.at = at]
    OBVIOUS
  <2>4. Asked(doing[h])
    BY <2>l, <1>d
  <2>5. PICK a, b, t, x, k : doing[h] = [at |-> a, by |-> b, todo |-> t, asked |-> x, held |-> k]
    BY <2>4 DEF Asked
  <2>6. r.at = at /\ r.todo = todo /\ r.by = b /\ r.asked = x /\ r.held = k
    BY <2>3, <2>5
  <2>7. doing' = [doing EXCEPT ![h] = r]
    BY <2>l, <1>f, <2>1, <2>2, <2>3 DEF Doings
  <2>8. /\ a = doing[h].at /\ b = doing[h].by /\ t = doing[h].todo /\ x = doing[h].asked /\ k = doing[h].held
    BY <2>5
  <2>9. /\ k \subseteq blocked /\ a \in {"create", "check"}
        /\ \A v \in x \ t : {b, v} \notin k
        /\ a = "create" => b = Founder
    BY <2>l, <1>f, <2>8 DEF Heeded
  <2>10. {b, u} \notin k /\ \A v \in x \ todo : {b, v} \notin k
    BY <2>l, <2>2, <2>8, <2>9
  <2>11. \/ at = a
         \/ at = next /\ todo = {}
    BY <2>1, <2>2, <2>8
  <2>12. Heeded(r)
    BY <2>l, <2>6, <2>8, <2>9, <2>10, <2>11 DEF Heeded
  <2> QED BY <1>c, <2>l, <2>7, <2>12, HeedsOn
<1>5. ASSUME NEW h \in Handler, NEW u, Group!GateCreate(h, u) PROVE Heeding'
  <2>1. /\ doing[h].at = "create" /\ u \in doing[h].todo /\ UNCHANGED <<blocked, trespass>>
    BY <1>5 DEF Group!GateCreate
  <2>f. doing[h].by = Founder
    BY <2>1, <1>f DEF Heeded
  <2>2. CASE Group!CanMessage(Founder, u)
    <3>1. {doing[h].by, u} \notin blocked
      BY <2>f, <2>2 DEF Group!CanMessage
    <3>2. doing' = [doing EXCEPT ![h].todo = @ \ {u},
                                 ![h].at = IF doing[h].todo = {u} THEN "make" ELSE @]
      BY <1>5, <2>2 DEF Group!GateCreate
    <3>3. LooksOn(h, u, "make")
      BY <2>1, <3>1, <3>2 DEF LooksOn
    <3> QED BY <1>c, <3>3
  <2>3. CASE ~Group!CanMessage(Founder, u)
    BY <1>5, <1>e, <2>1, <2>3 DEF Group!GateCreate, Group!Ends
  <2> QED BY <2>2, <2>3
<1>6. ASSUME NEW h \in Handler, NEW u, Group!CheckOther(h, u) PROVE Heeding'
  <2>1. doing[h].at = "check" /\ u \in doing[h].todo /\ UNCHANGED <<blocked, trespass>>
    BY <1>6 DEF Group!CheckOther
  <2>2. CASE Group!IsBlocked(doing[h].by, u)
    BY <1>6, <1>e, <2>1, <2>2 DEF Group!CheckOther, Group!Ends
  <2>3. CASE ~Group!IsBlocked(doing[h].by, u)
    <3>1. {doing[h].by, u} \notin blocked
      BY <2>3 DEF Group!IsBlocked
    <3>2. doing' = [doing EXCEPT ![h].todo = @ \ {u},
                                 ![h].at = IF doing[h].todo = {u} THEN "post" ELSE @]
      BY <1>6, <2>3 DEF Group!CheckOther
    <3>3. LooksOn(h, u, "post")
      BY <2>1, <3>1, <3>2 DEF LooksOn
    <3> QED BY <1>c, <3>3
  <2> QED BY <2>2, <2>3
<1>7. ASSUME NEW h \in Handler, NEW u, Group!GateAdd(h, u) PROVE Heeding'
  <2>1. doing[h].at = "gate" /\ UNCHANGED <<blocked, trespass>> /\ Asked(doing[h])
    BY <1>7, <1>d DEF Group!GateAdd
  <2>2. CASE Group!CanMessage(Founder, u)
    <3>1. PICK asked : asked = {u}
      OBVIOUS
    <3>2. PICK r : r = [doing[h] EXCEPT !.at = "ensure", !.asked = asked]
      OBVIOUS
    <3>3. doing' = [doing EXCEPT ![h] = r]
      BY <1>7, <1>f, <2>2, <3>1, <3>2 DEF Group!GateAdd, Doings
    <3>4. PICK a, b, t, x, k : doing[h] = [at |-> a, by |-> b, todo |-> t, asked |-> x, held |-> k]
      BY <2>1 DEF Asked
    <3>5. r.at = "ensure" /\ r.by = b /\ r.asked = {u} /\ r.held = k
      BY <3>1, <3>2, <3>4
    <3>6. k \subseteq blocked /\ b = Founder
      BY <1>f, <2>1, <3>4 DEF Heeded
    <3>7. Heeded(r)
      BY <2>2, <3>5, <3>6 DEF Heeded, Group!CanMessage
    <3> QED BY <2>1, <3>3, <3>7, HeedsOn
  <2>3. CASE ~Group!CanMessage(Founder, u)
    BY <1>7, <1>e, <2>1, <2>3 DEF Group!GateAdd, Group!Ends
  <2> QED BY <2>2, <2>3
<1>8. ASSUME NEW h \in Handler, Group!Make(h) PROVE Heeding'
  <2>1. /\ doing[h].at = "make" /\ UNCHANGED blocked /\ trespass' = (trespass \/ Group!Barred(h))
        /\ doing' = [doing EXCEPT ![h] = Group!Rest]
    BY <1>8 DEF Group!Make, Group!Ends
  <2>2. UNCHANGED trespass
    BY <1>b, <1>f, <2>1
  <2> QED BY <1>e, <2>1, <2>2
<1>9. ASSUME NEW h \in Handler, Group!Remove(h) PROVE Heeding'
  BY <1>9, <1>e DEF Group!Remove, Group!Ends
<1>10. ASSUME NEW h \in Handler, Group!Stop(h) PROVE Heeding'
  BY <1>10, <1>e DEF Group!Stop, Group!Ends
<1>11. ASSUME NEW h \in Handler, Group!EnsureMember(h) PROVE Heeding'
  <2>1. PICK todo : todo = doing[h].todo \ {CHOOSE u \in doing[h].asked : TRUE}
    OBVIOUS
  <2>2. /\ doing[h].at = "ensure" /\ UNCHANGED blocked /\ trespass' = (trespass \/ Group!Barred(h))
        /\ doing' = [doing EXCEPT ![h] = IF todo = {} THEN Group!Rest ELSE [@ EXCEPT !.at = "gate", !.todo = todo]]
    BY <1>11, <2>1 DEF Group!EnsureMember
  <2>3. UNCHANGED trespass
    BY <1>b, <1>f, <2>2
  <2>4. CASE todo = {}
    BY <1>e, <2>2, <2>3, <2>4
  <2>5. CASE todo # {}
    <3>1. PICK r : r = [doing[h] EXCEPT !.at = "gate", !.todo = todo]
      OBVIOUS
    <3>2. doing' = [doing EXCEPT ![h] = r]
      BY <2>2, <2>5, <3>1
    <3>3. PICK a, b, t, x, k : doing[h] = [at |-> a, by |-> b, todo |-> t, asked |-> x, held |-> k]
      BY <1>d, <2>2 DEF Asked
    <3>4. r.at = "gate" /\ r.by = b /\ r.held = k
      BY <3>1, <3>3
    <3>5. k \subseteq blocked /\ b = Founder
      BY <1>f, <2>2, <3>3 DEF Heeded
    <3>6. Heeded(r)
      BY <3>4, <3>5 DEF Heeded
    <3> QED BY <2>2, <2>3, <3>2, <3>6, HeedsOn
  <2> QED BY <2>4, <2>5
<1>12. ASSUME NEW h \in Handler, Group!Post(h) PROVE Heeding'
  <2>1. PICK r : r = [doing[h] EXCEPT !.at = "sent"]
    OBVIOUS
  <2>2. /\ doing[h].at = "post" /\ UNCHANGED blocked /\ trespass' = (trespass \/ Group!Barred(h))
        /\ doing' = [doing EXCEPT ![h] = r]
    BY <1>12, <2>1 DEF Group!Post, Group!Goes
  <2>3. UNCHANGED trespass
    BY <1>b, <1>f, <2>2
  <2>4. PICK a, b, t, x, k : doing[h] = [at |-> a, by |-> b, todo |-> t, asked |-> x, held |-> k]
    BY <1>d, <2>2 DEF Asked
  <2>5. r.at = "sent"
    BY <2>1, <2>4
  <2> QED BY <2>2, <2>3, <2>5, HeedsOn DEF Heeded
<1>13. ASSUME NEW h \in Handler, Group!ReadMembers(h) PROVE Heeding'
  <2>1. doing[h].at = "sent" /\ UNCHANGED <<blocked, trespass>>
    BY <1>13 DEF Group!ReadMembers
  <2>2. CASE Group!Audience(h) = {}
    BY <1>13, <1>e, <2>1, <2>2 DEF Group!ReadMembers
  <2>3. CASE Group!Audience(h) # {}
    <3>1. PICK a : a = Group!Audience(h)
      OBVIOUS
    <3>2. PICK r : r = [doing[h] EXCEPT !.at = "tell", !.todo = a]
      OBVIOUS
    <3>3. doing' = [doing EXCEPT ![h] = r]
      BY <1>13, <2>3, <3>1, <3>2 DEF Group!ReadMembers
    <3>4. PICK o, b, t, x, k : doing[h] = [at |-> o, by |-> b, todo |-> t, asked |-> x, held |-> k]
      BY <1>d, <2>1 DEF Asked
    <3>5. r.at = "tell"
      BY <3>2, <3>4
    <3> QED BY <2>1, <3>3, <3>5, HeedsOn DEF Heeded
  <2> QED BY <2>2, <2>3
<1>14. ASSUME NEW h \in Handler, NEW u, Group!Count(h, u) PROVE Heeding'
  <2>1. PICK r : r = [at |-> "count", by |-> doing[h].by, user |-> u, count |-> Group!Counted(u),
                      todo |-> doing[h].todo \ {u}, asked |-> {}, held |-> {}]
    OBVIOUS
  <2>2. doing' = [doing EXCEPT ![h] = r] /\ r.at = "count" /\ UNCHANGED <<blocked, trespass>>
    BY <1>14, <2>1 DEF Group!Count
  <2> QED BY <2>2, HeedsOn DEF Heeded
<1>15. ASSUME NEW h \in Handler, Group!Tell(h) PROVE Heeding'
  <2>1. UNCHANGED <<blocked, trespass>>
    BY <1>15 DEF Group!Tell
  <2>2. CASE doing[h].todo = {}
    BY <1>15, <1>e, <2>1, <2>2 DEF Group!Tell
  <2>3. CASE doing[h].todo # {}
    <3>1. PICK r : r = [at |-> "tell", by |-> doing[h].by, todo |-> doing[h].todo, asked |-> {}, held |-> {}]
      OBVIOUS
    <3>2. doing' = [doing EXCEPT ![h] = r] /\ r.at = "tell"
      BY <1>15, <2>3, <3>1 DEF Group!Tell
    <3> QED BY <2>1, <3>2, HeedsOn DEF Heeded
  <2> QED BY <2>2, <2>3
<1>16. ASSUME NEW pair, Group!Block(pair) PROVE Heeding'
  <2>1. /\ doing' = [h \in Handler |-> IF doing[h] = Group!Rest THEN Group!Rest
                                       ELSE [doing[h] EXCEPT !.held = @ \ {pair}]]
        /\ UNCHANGED trespass
        /\ blocked \ {pair} \subseteq blocked'
    BY <1>16 DEF Group!Block
  <2>2. ASSUME NEW h \in Handler PROVE Heeded(doing[h])'
    <3>1. CASE doing[h] = Group!Rest
      BY <2>1, <3>1 DEF Heeded, Group!Rest
    <3>2. CASE doing[h] # Group!Rest /\ doing[h].at # "count"
      <4>1. doing[h].at # "rest"
        BY <1>f, <3>2 DEF Doings, Doing
      <4>2. PICK a, b, t, x, k : doing[h] = [at |-> a, by |-> b, todo |-> t, asked |-> x, held |-> k]
        BY <1>d, <3>2, <4>1 DEF Asked
      <4>6. doing'[h] = [doing[h] EXCEPT !.held = @ \ {pair}]
        BY <2>1, <3>2
      <4>7. doing[h].held = k
        BY <4>2
      <4>3. doing'[h] = [doing[h] EXCEPT !.held = k \ {pair}]
        BY <4>6, <4>7
      <4>4. doing'[h] = [at |-> a, by |-> b, todo |-> t, asked |-> x, held |-> doing'[h].held] /\ doing'[h].held = k \ {pair}
        BY <4>2, <4>3
      <4>5. Heeded(doing[h])
        BY <1>f
      <4> QED BY <2>1, <4>2, <4>4, <4>5 DEF Heeded
    <3>3. CASE doing[h] # Group!Rest /\ doing[h].at = "count"
      <4>1. PICK a, b, u, n, t, x, k :
              doing[h] = [at |-> a, by |-> b, user |-> u, count |-> n, todo |-> t, asked |-> x, held |-> k]
        BY <1>f, <3>3 DEF Doings, Doing, Telling
      <4>2. doing'[h].at = "count"
        BY <2>1, <3>3, <4>1
      <4> QED BY <4>2 DEF Heeded
    <3> QED BY <3>1, <3>2, <3>3
  <2> QED BY <1>f, <2>1, <2>2 DEF Heeding, Group!BlocksAreHeeded
<1>17. ASSUME UNCHANGED <<doing, blocked, trespass>> PROVE Heeding'
  BY <1>17, <1>f DEF Heeding, Heeded, Group!BlocksAreHeeded
<1>18. ASSUME NEW d, \/ Group!Wrap(d) \/ Group!Lock(d) \/ Group!Commit(d) \/ Group!Reset
                     \/ \E u \in User : Group!Row(d, u)
       PROVE  Heeding'
  <2>1. UNCHANGED <<doing, blocked, trespass>>
    BY <1>18 DEF Group!Wrap, Group!Lock, Group!Commit, Group!Reset, Group!Row, Group!messageVars
  <2> QED BY <1>17, <2>1
<1>19. CASE UNCHANGED Group!groupVars
  BY <1>17, <1>19 DEF Group!groupVars, Group!messageVars
<1> QED
  BY <1>1, <1>2, <1>3, <1>4, <1>5, <1>6, <1>7, <1>8, <1>9, <1>10, <1>11, <1>12, <1>13, <1>14, <1>15,
     <1>16, <1>18, <1>19 DEF Group!Next

(* Whatever else is blocked, unblocked, sent or joined meanwhile, nobody   *)
(* writes to, or adds, one with whom it was in a block all through.        *)
THEOREM BlocksHold == ASSUME Group!GroupAssumption PROVE Group!Spec => []Group!BlocksAreHeeded
<1>1. Group!Init => GroupInv /\ Heeding
  <2>1. ASSUME Group!Init PROVE GroupInv /\ Heeding
    <3>1. GroupInv /\ Doings
      BY <2>1, GroupStart DEF GroupInv
    <3>2. Heeding
      BY <2>1, <3>1 DEF Heeding, Heeded, Group!Init, Group!Rest, Group!BlocksAreHeeded
    <3> QED BY <3>1, <3>2
  <2> QED BY <2>1
<1>2. GroupInv /\ Heeding /\ [Group!Next]_Group!groupVars => (GroupInv /\ Heeding)'
  <2>1. ASSUME GroupInv, Heeding, [Group!Next]_Group!groupVars PROVE (GroupInv /\ Heeding)'
    <3>1. GroupInv' /\ Doings'
      BY <2>1, GroupStep DEF GroupInv
    <3> QED BY <2>1, <3>1, HeedingStep
  <2> QED BY <2>1
<1>3. Heeding => Group!BlocksAreHeeded
  BY DEF Heeding
<1> QED BY <1>1, <1>2, <1>3, PTL DEF Group!Spec
=============================================================================
