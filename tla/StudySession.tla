----------------------------- MODULE StudySession -----------------------------
(***************************************************************************)
(* One Study Together room of two (study-together.service.ts), from the    *)
(* invitation, or the start of an episode, to its end.                     *)
(*                                                                         *)
(* Nothing is locked.  A handler reads the room and tests it, and later    *)
(* saves the object in a transaction: TypeORM writes the columns in which  *)
(* it differs from the row it finds then (Decide), and all is seen at the  *)
(* commit (Save).  A handler's own participant row is read and saved in    *)
(* its transaction, where save() finds the row as it was read or as it is  *)
(* by the commit; a finalization saves both rows as it read them before.   *)
(*                                                                         *)
(* 80 % of the shortest duration is more than the five minutes that stand  *)
(* for a meaningful action: who is active enough has qualified, so that    *)
(* flag and abandonedEarly decide nothing.  Of the chat, a message counts  *)
(* as a task that is set: both save the room they have read.  The path is  *)
(* StudyPath's.                                                            *)
(***************************************************************************)
EXTENDS Integers, FiniteSets

CONSTANTS
  Creator, Invitee,
  Call,        \* handlers in flight
  Need,        \* heartbeats that make the ratio of active time
  StepCount,   \* reading steps of the lesson
  Mixes        \* sets of endpoints and circumstances, see Ops

Player == {Creator, Invitee}
Ops == {"accept", "decline", "cancel", "task", "ready", "beat", "leave", "complete",
        "ack", "solo"}
Circumstances == {"hour", "scheduled",  \* start mode; without either, now
                  "begun",              \* both had readied, and the room was active
                  "later",              \* the episode of a later unit of a path
                  "capped", "crash"}
JobOps == {"expire", "start", "overdue"}

ASSUME StudyAssumption ==
  /\ Creator # Invitee
  /\ Need \in Nat \ {0} /\ StepCount \in Nat \ {0}
  /\ Mixes \subseteq SUBSET (Ops \cup Circumstances)

Open     == {"invited", "accepted", "waiting"}
Terminal == {"completed", "partially_completed", "declined", "expired", "cancelled",
             "abandoned"}
Status   == Open \cup {"active"} \cup Terminal

VARIABLES
  room,     \* study_sessions: status, plannedEndAt # null, contentStep, bonus flag
  part,     \* study_session_participants
  started,  \* scheduledStartAt has passed
  lapsed,   \* inviteExpiresAt has passed
  timeUp,   \* plannedEndAt has passed
  keys,     \* ledger keys of the shared bonus: whose was granted
  active,   \* history: heartbeats that counted
  read,     \* history: the last step acknowledged
  pc, op, me, view, seen, mine, patch, late, \* each call's program counter and locals
  ops       \* the endpoints that are called and the circumstances, once and for all

clock == <<started, lapsed, timeUp>>
history == <<active, read>>
rows  == <<room, part, keys, history>>
local == <<op, me, view, seen, mine, patch, late>>
vars  == <<rows, clock, pc, local, ops>>

NewPart == [ready |-> FALSE, left |-> FALSE, confirmed |-> FALSE, verified |-> 0, acked |-> -1]
NewRoom(status) == [status |-> status, timed |-> FALSE, step |-> 0, granted |-> FALSE]
NewParts == [p \in Player |-> NewPart]

Mode == IF "hour" \in ops THEN "within_1_hour"
        ELSE IF "scheduled" \in ops THEN "scheduled" ELSE "now"
Accepted == IF Mode = "now" THEN "waiting" ELSE "accepted"

(* An episode's rows begin as if the steps of its lesson were the units of *)
(* the path: those before the current unit are acknowledged.               *)
Episode(ready) ==
  [p \in Player |-> [NewPart EXCEPT !.ready = p \in ready,
                                    !.acked = IF "later" \in ops THEN 0 ELSE -1]]

Init ==
  /\ ops \in Mixes
  /\ IF "begun" \in ops
     THEN room = [NewRoom("active") EXCEPT !.timed = TRUE] /\ part = Episode(Player)
     ELSE \/ room = NewRoom("invited") /\ part = NewParts
          \/ room = NewRoom(Accepted) /\ part = Episode({Creator})
  /\ started = FALSE /\ lapsed = FALSE /\ timeUp = FALSE
  /\ keys = {} /\ active = [p \in Player |-> 0] /\ read = [p \in Player |-> -1]
  /\ pc = [c \in Call |-> "idle"]
  /\ op = [c \in Call |-> "none"]
  /\ me = [c \in Call |-> Creator]
  /\ view = [c \in Call |-> NewRoom("invited")]
  /\ seen = [c \in Call |-> NewParts]
  /\ mine = [c \in Call |-> NewPart]
  /\ patch = [c \in Call |-> {}]
  /\ late = [c \in Call |-> FALSE]
-----------------------------------------------------------------------------
Goto(c, label) == pc' = [pc EXCEPT ![c] = label]

Differs(object, r) == {f \in DOMAIN r : object[f] # r[f]}
Patched(r, object, fields) == [f \in DOMAIN r |-> IF f \in fields THEN object[f] ELSE r[f]]

(* The handler returns, or throws: its locals are forgotten.               *)
End(c) ==
  /\ Goto(c, "idle")
  /\ op' = [op EXCEPT ![c] = "none"] /\ me' = [me EXCEPT ![c] = Creator]
  /\ view' = [view EXCEPT ![c] = NewRoom("invited")]
  /\ seen' = [seen EXCEPT ![c] = NewParts]
  /\ mine' = [mine EXCEPT ![c] = NewPart]
  /\ patch' = [patch EXCEPT ![c] = {}]
  /\ late' = [late EXCEPT ![c] = FALSE]

(* The room is saved; when plannedEndAt is, that time is to come.          *)
WriteRoom(c) ==
  /\ room' = Patched(room, view[c], patch[c])
  /\ timeUp' = (timeUp /\ "timed" \notin patch[c])
-----------------------------------------------------------------------------
(* Time.  A room within the hour starts and lapses at the same time; a     *)
(* scheduled one lapses half an hour after its start.  Both matter only    *)
(* while the room is open.                                                 *)
StartTime ==
  /\ Mode # "now" /\ ~started /\ room.status \in Open
  /\ started' = TRUE /\ lapsed' = (Mode = "within_1_hour")
  /\ UNCHANGED timeUp

Lapse ==
  /\ ~lapsed /\ Mode # "within_1_hour" /\ (Mode = "scheduled" => started)
  /\ room.status \in Open
  /\ lapsed' = TRUE
  /\ UNCHANGED <<started, timeUp>>

PlannedEnd == room.timed /\ ~timeUp /\ timeUp' = TRUE /\ UNCHANGED <<started, lapsed>>

Tick == (StartTime \/ Lapse \/ PlannedEnd) /\ UNCHANGED <<rows, pc, local, ops>>
-----------------------------------------------------------------------------
(* requireParticipantSession and the tests that follow it.                 *)
MayBegin(o, p) ==
  CASE o = "accept"   -> p = Invitee /\ room.status = "invited" /\ ~lapsed
    [] o = "decline"  -> p = Invitee /\ room.status = "invited"
    [] o = "cancel"   -> p = Creator /\ room.status \in Open
    [] o \in {"task", "leave"} -> room.status \notin Terminal
    [] o = "beat"     -> room.status = "active"
    [] o = "solo"     -> p = Creator /\ room.status \in {"accepted", "waiting", "active"}
    [] OTHER          -> room.status \in {"accepted", "waiting", "active"}

(* What the clock says: the room is over, has begun, the partner is silent.*)
Late(o) == CASE o = "beat"  -> {room.timed /\ timeUp}
             [] o = "ready" -> {started}
             [] o = "solo"  -> BOOLEAN
             [] OTHER       -> {FALSE}

Begin(c, o, p) ==
  /\ pc[c] = "idle"
  /\ MayBegin(o, p)
  /\ Goto(c, "decide")
  /\ op' = [op EXCEPT ![c] = o] /\ me' = [me EXCEPT ![c] = p]
  /\ view' = [view EXCEPT ![c] = IF o \in {"beat", "complete"} THEN @ ELSE room]
  /\ \E l \in Late(o) : late' = [late EXCEPT ![c] = l]
  /\ UNCHANGED <<seen, mine, patch>>

(* What each handler makes of the object it has read, and whether it saves *)
(* it.  Participants are read in the transaction, as committed.            *)
Partner(c) == CHOOSE p \in Player : p # me[c]

StartNow(c) == Mode = "now" \/ late[c]

Readied(c) ==
  LET v == view[c]
      both == part[Partner(c)].ready
  IN IF both /\ v.status # "active" /\ StartNow(c)
     THEN [v EXCEPT !.status = "active", !.timed = TRUE]
     ELSE IF both /\ v.status = "accepted" THEN [v EXCEPT !.status = "waiting"] ELSE v

SavesReady(c) == Readied(c) # view[c]

MineAcked(c) == TRUE                              \* variant: the partner is not asked

(* isPartnerDisconnected: left, or silent after a heartbeat.               *)
GoesAlone(c) ==
  /\ op[c] = "solo"
  /\ part[Partner(c)].left \/ (part[Partner(c)].verified > 0 /\ late[c])

BothAcked(c) == part[Partner(c)].acked >= view[c].step \/ GoesAlone(c)

StepPast(v) == [v EXCEPT !.step = @ + 1]          \* variant: no last step

Advanced(v) == IF v.step >= StepCount - 1 THEN v ELSE [v EXCEPT !.step = @ + 1]

Object(c) ==
  LET v == view[c] IN
  CASE op[c] = "accept"  -> [v EXCEPT !.status = Accepted]
    [] op[c] = "decline" -> [v EXCEPT !.status = "declined"]
    [] op[c] = "cancel"  -> [v EXCEPT !.status = "cancelled"]
    [] op[c] = "leave"   -> [v EXCEPT !.status = IF @ \in Open THEN "abandoned" ELSE @]
    [] op[c] = "ready"   -> Readied(c)
    [] op[c] \in {"ack", "solo"} -> IF BothAcked(c) THEN Advanced(v) ELSE v
    [] op[c] = "expire"  -> [v EXCEPT !.status = "expired"]
    [] op[c] = "start"   -> [v EXCEPT !.status = "active", !.timed = TRUE]
    [] OTHER             -> v

(* A start writes a new plannedEndAt, whatever stood there.                *)
Starts(c) == Object(c).status = "active" /\ view[c].status # "active"

Saves(c) ==
  CASE op[c] = "ready" -> SavesReady(c)
    [] op[c] = "leave" -> view[c].status \in Open
    [] op[c] \in {"ack", "solo"} -> BothAcked(c)
    [] op[c] \in {"beat", "complete"} -> FALSE
    [] OTHER -> TRUE

(* What the handler changes of its own participant row.                    *)
Own == [o \in Ops \cup JobOps |->
          CASE o = "ready" -> {"ready"}   [] o = "leave" -> {"left"}
            [] o = "beat" -> {"verified"} [] o = "complete" -> {"confirmed"}
            [] o \in {"ack", "solo"} -> {"acked"} [] OTHER -> {}]

Least(a, b) == IF a < b THEN a ELSE b

Changed(c) ==
  LET r == part[me[c]] IN
  [r EXCEPT !.ready = TRUE, !.left = TRUE, !.confirmed = TRUE,
            !.verified = IF r.left THEN @ ELSE Least(@ + 1, Need),
            !.acked = IF @ >= view[c].step THEN @ ELSE view[c].step]

(* An acknowledged step is not acknowledged again; a solo retry is let by. *)
Repeated(c) ==
  /\ op[c] \in {"ack", "solo"}
  /\ part[me[c]].acked >= view[c].step
  /\ ~GoesAlone(c)

(* Whoever acknowledges the last step after the partner saves both rows.   *)
ReadThrough(c) ==
  op[c] \in {"ack", "solo"} /\ BothAcked(c) /\ view[c].step >= StepCount - 1

(* The job's second loop reads the participants before it saves.           *)
NotReady(c) == op[c] = "start" /\ (view[c].timed \/ \E p \in Player : ~part[p].ready)

Decide(c) ==
  /\ pc[c] = "decide"
  /\ IF Repeated(c) \/ NotReady(c)
     THEN End(c)
     ELSE /\ Goto(c, IF ReadThrough(c) THEN "both" ELSE "save")
          /\ mine' = [mine EXCEPT ![c] = Patched(part[me[c]], Changed(c), Own[op[c]])]
          /\ seen' = [seen EXCEPT ![c] = IF ReadThrough(c) THEN part ELSE @]
          /\ patch' = [patch EXCEPT ![c] =
               (IF Saves(c) THEN Differs(Object(c), room) ELSE {})
               \cup (IF Starts(c) THEN {"timed"} ELSE {})
               \cup (Own[op[c]] \cap Differs(Changed(c), part[me[c]]))]
          /\ view' = [view EXCEPT ![c] = IF op[c] \in {"beat", "complete"} THEN @ ELSE Object(c)]
          /\ UNCHANGED <<op, me, late>>
  /\ UNCHANGED <<rows, clock>>

Finalize(c) ==
  /\ Goto(c, "finalize")
  /\ me' = [me EXCEPT ![c] = Creator] /\ mine' = [mine EXCEPT ![c] = NewPart]
  /\ patch' = [patch EXCEPT ![c] = {}] /\ late' = [late EXCEPT ![c] = FALSE]
  /\ UNCHANGED <<op, view, seen>>

(* A save() that finds the row as it is by the commit writes all of it;    *)
(* ready and an acknowledgement save it only when they change it.          *)
SavesOwn(c) ==
  op[c] \in {"task", "leave", "beat", "complete"} \/ Own[op[c]] \cap patch[c] # {}

OwnRow(c) ==
  {Patched(part[me[c]], mine[c], patch[c])} \cup (IF SavesOwn(c) THEN {mine[c]} ELSE {})
PartnerRow(c) ==
  {part[Partner(c)]} \cup (IF pc[c] = "both" THEN {seen[c][Partner(c)]} ELSE {})

(* COMMIT.  A heartbeat after the planned end goes on to finalize, a       *)
(* completion does so in any case, and leaving an active room completes it.*)
Save(c) ==
  /\ pc[c] \in {"save", "both"}
  /\ WriteRoom(c)
  /\ \E own \in OwnRow(c), partners \in PartnerRow(c) :
       part' = [part EXCEPT ![me[c]] = own, ![Partner(c)] = partners]
  /\ active' = [active EXCEPT ![me[c]] =
                  IF "verified" \in patch[c] THEN Least(@ + 1, Need) ELSE @]
  /\ read' = [read EXCEPT ![me[c]] =
                IF "acked" \in patch[c] /\ mine[c].acked > @ THEN mine[c].acked ELSE @]
  /\ CASE op[c] = "complete" \/ (op[c] = "beat" /\ late[c]) -> Finalize(c)
       [] op[c] = "leave" /\ view[c].status = "active" ->
            /\ Goto(c, "left")
            /\ view' = [view EXCEPT ![c] = NewRoom("invited")]
            /\ mine' = [mine EXCEPT ![c] = NewPart] /\ patch' = [patch EXCEPT ![c] = {}]
            /\ UNCHANGED <<op, me, seen, late>>
       [] OTHER -> End(c)
  /\ UNCHANGED <<keys, started, lapsed>>

(* leave goes on to tryComplete, which reads the room again.               *)
TryComplete(c) ==
  /\ pc[c] = "left"
  /\ IF MayBegin("complete", me[c])
     THEN /\ Goto(c, "decide")
          /\ op' = [op EXCEPT ![c] = "complete"]
          /\ UNCHANGED <<me, view, seen, mine, patch, late>>
     ELSE End(c)
  /\ UNCHANGED <<rows, clock>>
-----------------------------------------------------------------------------
(* finalizeIfDue reads the room and the participants, ...                  *)
ReadRoom(c) ==
  /\ pc[c] = "finalize"
  /\ IF room.status \in Terminal
     THEN End(c)
     ELSE /\ view' = [view EXCEPT ![c] = room]
          /\ Goto(c, "judge")
          /\ UNCHANGED <<op, me, seen, mine, patch, late>>
  /\ UNCHANGED <<rows, clock>>

AnyoneLeft(rs) == \E p \in Player : rs[p].left

Due(c) ==
  \/ op[c] \in {"complete", "overdue"}                     \* force
  \/ view[c].timed /\ timeUp
  \/ \A p \in Player : part[p].confirmed
  \/ AnyoneLeft(part)

ReadParts(c) ==
  /\ pc[c] = "judge"
  /\ IF ~Due(c) THEN End(c)
     ELSE /\ seen' = [seen EXCEPT ![c] = part]
          /\ Goto(c, IF view[c].status # "active" /\ ~AnyoneLeft(part)
                     THEN "abandon" ELSE "parts")
          /\ UNCHANGED <<op, me, view, mine, patch, late>>
  /\ UNCHANGED <<rows, clock>>

(* ... saves the participants as it read them, one after the other, and    *)
(* the room with the outcome, ...                                          *)
QualifiedByPresence(c, p) == active[p] >= 0       \* variant: no threshold

Qualified(c, p) == seen[c][p].verified >= Need

Verdict(c) ==
  CASE \A p \in Player : Qualified(c, p) -> "completed"
    [] \E p \in Player : Qualified(c, p) -> "partially_completed"
    [] OTHER -> "abandoned"

SavePart(c) ==
  /\ pc[c] = "parts"
  /\ \E p \in Player :
       /\ part' = [part EXCEPT ![p] = seen[c][p]]
       /\ me' = [me EXCEPT ![c] = CHOOSE q \in Player : q # p]
  /\ Goto(c, "rest")
  /\ UNCHANGED <<room, keys, history, clock, op, view, seen, mine, patch, late>>

SaveParts(c) ==
  /\ pc[c] \in {"abandon", "rest"}
  /\ LET object == [view[c] EXCEPT !.status = IF pc[c] = "abandon" THEN "abandoned"
                                               ELSE Verdict(c)]
     IN /\ view' = [view EXCEPT ![c] = object]
        /\ patch' = [patch EXCEPT ![c] = Differs(object, room)]
  /\ part' = IF pc[c] = "abandon" THEN part ELSE [part EXCEPT ![me[c]] = seen[c][me[c]]]
  /\ seen' = [seen EXCEPT ![c] = NewParts]
  /\ me' = [me EXCEPT ![c] = Creator]
  /\ Goto(c, "room")
  /\ UNCHANGED <<room, keys, history, clock, op, mine, late>>

SaveRoom(c) ==
  /\ pc[c] = "room"
  /\ WriteRoom(c)
  /\ IF view[c].status = "completed"
     THEN Goto(c, "bonus") /\ UNCHANGED local
     ELSE End(c)
  /\ UNCHANGED <<part, keys, history, started, lapsed>>

(* ... and pays the shared bonus, unless the weekly or the pair's daily    *)
(* cap is reached, both grants and the flag in one transaction; a key that *)
(* is in the ledger pays nothing.                                          *)
SharedBonus(c) ==
  /\ pc[c] = "bonus"
  /\ IF view[c].granted \/ "capped" \in ops
     THEN UNCHANGED <<room, keys, timeUp>>
     ELSE /\ keys' = Player
          /\ room' = [view[c] EXCEPT !.granted = TRUE]
          /\ timeUp' = (timeUp /\ room'.timed)
  /\ End(c)
  /\ UNCHANGED <<part, history, started, lapsed>>
-----------------------------------------------------------------------------
(* performMaintenance, one job at a time, with one reading of the clock    *)
(* for its three loops: what has lapsed is expired before it may start.    *)
ExpiresInvited(r) == r.status = "invited" /\ lapsed   \* variant

Expires(r) == r.status \in Open /\ lapsed

JobBegin(c, o, label) ==
  /\ pc[c] = "idle"
  /\ \A d \in Call : op[d] \notin JobOps
  /\ Goto(c, label)
  /\ op' = [op EXCEPT ![c] = o]
  /\ view' = [view EXCEPT ![c] = room]
  /\ UNCHANGED <<rows, clock, me, seen, mine, patch, late>>

Expire(c)    == Expires(room) /\ JobBegin(c, "expire", "decide")
AutoStart(c) == room.status = "waiting" /\ started /\ ~lapsed /\ JobBegin(c, "start", "decide")
Overdue(c)   == room.status = "active" /\ room.timed /\ timeUp
                /\ JobBegin(c, "overdue", "finalize")

(* A rollback, or a crash between two statements.                          *)
Crash(c) ==
  /\ "crash" \in ops /\ pc[c] # "idle"
  /\ End(c)
  /\ UNCHANGED <<rows, clock>>
-----------------------------------------------------------------------------
Step(c) ==
  \/ Decide(c) \/ Save(c) \/ TryComplete(c)
  \/ ReadRoom(c) \/ ReadParts(c) \/ SavePart(c) \/ SaveParts(c) \/ SaveRoom(c) \/ SharedBonus(c)

Request(c) ==
  \E o \in ops \cap Ops, p \in Player : Begin(c, o, p) /\ UNCHANGED <<rows, clock>>

Next ==
  \/ Tick
  \/ \E c \in Call :
       /\ Request(c) \/ Step(c) \/ Expire(c) \/ AutoStart(c) \/ Overdue(c) \/ Crash(c)
       /\ UNCHANGED ops

Spec == Init /\ [][Next]_vars

(* Handlers in flight go on, time passes, and the maintenance job runs     *)
(* again and again.  Nobody is obliged to call.                            *)
FairSpec ==
  /\ Spec
  /\ \A c \in Call : SF_vars(Step(c) /\ UNCHANGED ops)
  /\ WF_vars(Tick)
  /\ SF_vars(\E c \in Call : Expire(c) /\ UNCHANGED ops)
  /\ SF_vars(\E c \in Call : Overdue(c) /\ UNCHANGED ops)
-----------------------------------------------------------------------------
(* Rows of the tables.                                                     *)
SessionRow == [status : Status, timed : BOOLEAN, step : 0..(StepCount - 1), granted : BOOLEAN]
ParticipantRow == [ready : BOOLEAN, left : BOOLEAN, confirmed : BOOLEAN,
                   verified : 0..Need, acked : -1..(StepCount - 1)]

(* The values of the rows, whatever object is saved over them.             *)
TypeOK ==
  /\ room \in SessionRow
  /\ part \in [Player -> ParticipantRow]
  /\ keys \in {{}, Player}

(* The shared bonus is paid only if both have been active long enough,     *)
(* whatever finalizations of stale participants race.                      *)
BonusIsEarned == keys # {} => \A p \in Player : active[p] >= Need

(* The reading goes on only past steps that both have acknowledged, unless *)
(* the creator goes on alone, though a finalization may take acks back.    *)
StepsReadByBoth == "solo" \notin ops => \A p \in Player : room.step <= read[p] + 1

(* Every room ends: it expires, or its time is up and it is finalized, if  *)
(* nothing crashes for ever and nobody sets tasks for ever: a setTask that *)
(* read the room before its start takes the start back.                    *)
RoomCloses ==
  ops \cap {"crash", "task"} = {} /\ room.status \notin Terminal
    ~> room.status \in Terminal

(* "Auto-start scheduled waiting sessions past start when both ready": a   *)
(* room that both have entered does not expire.                            *)
ReadyRoomStarts ==
  room.status = "expired" => \E p \in Player : ~part[p].ready
=============================================================================
