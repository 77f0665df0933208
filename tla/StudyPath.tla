----------------------------- MODULE StudyPath -----------------------------
(***************************************************************************)
(* Reading a stack of units together: the co-roadmap of a pair, its        *)
(* episodes (study sessions of one unit each) and their chat               *)
(* (src/src/study-together/study-together.service.ts).  What happens       *)
(* within an episode is StudySession's; here its last step is read, or it  *)
(* ends.                                                                   *)
(*                                                                         *)
(* Paths and rooms are rows that every handler reads, tests, changes and   *)
(* saves without a lock.  save() reads the row again (Diff), keeps the     *)
(* columns in which its object differs from that, and updates those        *)
(* (Write): what others wrote in between is taken back.  The caps on paths *)
(* and rooms, media files and the dates of invitations are left out: a     *)
(* lapsed invitation is one that nobody accepts.                           *)
(***************************************************************************)
EXTENDS Naturals, FiniteSets

CONSTANTS
  PathId,        \* co-roadmaps of one pair on one stack
  Episode,       \* their rooms
  Units,         \* reading units of the stack
  Desk,          \* requests in progress at a time
  MaxVisits,     \* bound: requests ever made
  Begun          \* paths that may have been accepted before

PathAssumption == Units \in Nat \ {0} /\ PathId \cap Episode = {} /\ Begun \subseteq PathId

VARIABLES
  file,          \* the rows: status and content step (of a room: its unit)
  partOf,        \* the path of a room
  desk,          \* the requests in progress
  visits,        \* how many were made, for the bound
  said,          \* rooms with messages
  readUnits,     \* history: the units read, or skipped by choice, of a path
  readIn,        \* history: rooms whose last step was read
  met,           \* history: rows on which two requests overlapped
  twice,         \* history: paths that one reading advanced again
  unswept        \* history: rooms whose chat was not wiped, the process having stopped

pathVars == <<file, partOf, desk, visits, said, readUnits, readIn, met, twice, unswept>>

Vacant == [at |-> "vacant"]
NewRow == "the pair"                     \* what two creations of a path meet on
OpenPath(p) == file[p].status \in {"invited", "active"}
LiveRoom(e) == file[e].status = "live"

Init ==
  /\ \E begun \in SUBSET Begun :
       file = [x \in PathId \union Episode |->
                 [status |-> IF x \in begun THEN "active" ELSE "none", step |-> 0]]
  /\ partOf = [e \in Episode |-> {}]
  /\ desk = [d \in Desk |-> Vacant] /\ visits = 0
  /\ said = {} /\ readUnits = [p \in PathId |-> {}]
  /\ readIn = {} /\ met = {} /\ twice = {} /\ unswept = {}
-----------------------------------------------------------------------------
(* A request has read the row x and holds the object it will save.         *)
Takes(d, r) ==
  /\ desk[d] = Vacant /\ visits < MaxVisits
  /\ desk' = [desk EXCEPT ![d] = r]
  /\ visits' = visits + 1
  /\ met' = IF \E g \in Desk : desk[g].at # "vacant" /\ desk[g].row = r.row
            THEN met \union {r.row} ELSE met

Saves(x, object, event, room) ==
  [at |-> "save", row |-> x, object |-> object, event |-> event, room |-> room]

(* createPath: refused while the pair has an open one on the stack.        *)
CreatePath(d) ==
  /\ ~ \E p \in PathId : OpenPath(p)
  /\ Takes(d, [at |-> "insert", row |-> NewRow])
  /\ UNCHANGED <<file, partOf, said, readUnits, readIn, twice, unswept>>

InsertPath(d, p, s) ==
  /\ desk[d].at = "insert" /\ file[p].status = "none"
  /\ file' = [file EXCEPT ![p] = [status |-> "invited", step |-> s]]
  /\ readUnits' = [readUnits EXCEPT ![p] = 0 .. s - 1]
  /\ desk' = [desk EXCEPT ![d] = Vacant]
  /\ UNCHANGED <<partOf, visits, said, readIn, met, twice, unswept>>

(* acceptPath, declinePath, cancelPath                                     *)
AnswerableLater(p, status) == OpenPath(p) \/ file[p].status = "completed"  \* variant
Answerable(p, status) ==
  \/ status \in {"active", "declined"} /\ file[p].status = "invited"
  \/ status = "cancelled" /\ OpenPath(p)

Answer(d, p, status) ==
  /\ Answerable(p, status)
  /\ Takes(d, Saves(p, [file[p] EXCEPT !.status = status], "answer", {}))
  /\ UNCHANGED <<file, partOf, said, readUnits, readIn, twice, unswept>>

(* createEpisode: at the path's step, or at a unit picked for it; then the *)
(* path is saved before the room is created.                               *)
LiveIgnored(p) == TRUE                                      \* variant
NoneLive(p) == ~ \E e \in Episode : partOf[e] = {p} /\ LiveRoom(e)
MayBegin(p) == file[p].status = "active" /\ file[p].step < Units /\ NoneLive(p)

CreateEpisode(d, p, s) ==
  /\ MayBegin(p)
  /\ Takes(d, IF s = file[p].step
              THEN [at |-> "room", row |-> p, unit |-> s]
              ELSE Saves(p, [file[p] EXCEPT !.step = s], "pick", {}))
  /\ UNCHANGED <<file, partOf, said, readUnits, readIn, twice, unswept>>

InsertRoom(d, e) ==
  /\ desk[d].at = "room" /\ file[e].status = "none"
  /\ file' = [file EXCEPT ![e] = [status |-> "live", step |-> desk[d].unit]]
  /\ partOf' = [partOf EXCEPT ![e] = {desk[d].row}]
  /\ desk' = [desk EXCEPT ![d] = Vacant]
  /\ UNCHANGED <<visits, said, readUnits, readIn, met, twice, unswept>>
-----------------------------------------------------------------------------
(* advancePathStackUnit, in the transaction that acknowledges the last     *)
(* step of a room; an ended path is left alone.  Once the creator has read *)
(* on alone it may be called again for the same room.                      *)
AdvancedEarly(row) ==                                       \* variant
  IF row.step >= Units - 2 THEN [row EXCEPT !.status = "completed"]
  ELSE [row EXCEPT !.status = "active", !.step = @ + 1]
Advanced(row) ==
  IF row.step >= Units - 1 THEN [row EXCEPT !.status = "completed"]
  ELSE [row EXCEPT !.status = "active", !.step = @ + 1]

ReadLast(d, e, p) ==
  /\ LiveRoom(e) /\ partOf[e] = {p}
  /\ OpenPath(p)
  /\ Takes(d, Saves(p, Advanced(file[p]), "read", {e}))
  /\ twice' = IF e \in readIn THEN twice \union {p} ELSE twice
  /\ UNCHANGED <<file, partOf, said, readUnits, readIn, unswept>>

(* sendChatMessage, sendChatMedia: they save the room's version.           *)
MaySpeakAfter(e) == file[e].status # "none"                 \* variant
MaySpeak(e) == LiveRoom(e)

Send(d, e) ==
  /\ MaySpeak(e)
  /\ Takes(d, Saves(e, file[e], "send", {e}))
  /\ UNCHANGED <<file, partOf, said, readUnits, readIn, twice, unswept>>

(* finalizeIfDue, and every other way a room ends: first the row, then     *)
(* the chat.                                                               *)
End(d, e) ==
  /\ LiveRoom(e)
  /\ Takes(d, Saves(e, [file[e] EXCEPT !.status = "over"], "end", {e}))
  /\ UNCHANGED <<file, partOf, said, readUnits, readIn, twice, unswept>>

Diff(d) ==
  LET r == desk[d] IN
  /\ r.at = "save"
  /\ desk' = [desk EXCEPT ![d] =
       [at |-> "write", row |-> r.row, event |-> r.event, room |-> r.room, object |-> r.object,
        columns |-> {c \in {"status", "step"} : r.object[c] # file[r.row][c]}]]
  /\ UNCHANGED <<file, partOf, visits, said, readUnits, readIn, met, twice, unswept>>

Write(d) ==
  LET r == desk[d] IN
  /\ r.at = "write"
  /\ file' = [file EXCEPT ![r.row] =
       [c \in {"status", "step"} |-> IF c \in r.columns THEN r.object[c] ELSE @[c]]]
  /\ said' = IF r.event = "send" THEN said \union r.room ELSE said
  /\ readUnits' =
       CASE r.event = "read" -> [readUnits EXCEPT ![r.row] = @ \union {file[e].step : e \in r.room}]
         [] r.event = "pick" -> [readUnits EXCEPT ![r.row] = @ \union (0 .. r.object.step - 1)]
         [] OTHER -> readUnits
  /\ desk' = [desk EXCEPT ![d] =
       CASE r.event = "end"  -> [at |-> "wipe", row |-> r.row]
         [] r.event = "pick" -> [at |-> "room", row |-> r.row, unit |-> r.object.step]
         [] OTHER -> Vacant]
  /\ readIn' = IF r.event = "read" THEN readIn \union r.room ELSE readIn
  /\ UNCHANGED <<partOf, visits, met, twice, unswept>>

Wipe(d) ==
  /\ desk[d].at = "wipe"
  /\ said' = said \ {desk[d].row}
  /\ desk' = [desk EXCEPT ![d] = Vacant]
  /\ UNCHANGED <<file, partOf, visits, readUnits, readIn, met, twice, unswept>>

(* Rows of study_paths and study_sessions, "none" before they are made.    *)
PathRow == [status : {"none", "invited", "active", "declined", "cancelled", "completed"},
            step : 0 .. Units - 1]
RoomRow == [status : {"none", "live", "over"}, step : 0 .. Units - 1]

(* The process stops: what was not written is lost.                        *)
Stop(d) ==
  /\ desk[d] # Vacant
  /\ desk' = [desk EXCEPT ![d] = Vacant]
  /\ unswept' = IF desk[d].at = "wipe" THEN unswept \union {desk[d].row} ELSE unswept
  /\ UNCHANGED <<file, partOf, visits, said, readUnits, readIn, met, twice>>
-----------------------------------------------------------------------------
Next == \E d \in Desk :
  \/ CreatePath(d) \/ Diff(d) \/ Write(d) \/ Wipe(d) \/ Stop(d)
  \/ \E p \in PathId, s \in 0 .. Units - 1 : InsertPath(d, p, s) \/ CreateEpisode(d, p, s)
  \/ \E p \in PathId, s \in {"active", "declined", "cancelled"} : Answer(d, p, s)
  \/ \E e \in Episode : InsertRoom(d, e) \/ Send(d, e) \/ End(d, e)
  \/ \E e \in Episode, p \in PathId : ReadLast(d, e, p)

Spec == Init /\ [][Next]_pathVars

TypeOK ==
  /\ \A p \in PathId : file[p] \in PathRow
  /\ \A e \in Episode : file[e] \in RoomRow
  /\ readUnits \in [PathId -> SUBSET (0 .. Units - 1)]
  /\ met \subseteq PathId \union Episode \union {NewRow}

(* A pair has one open co-roadmap on a stack and a co-roadmap one live     *)
(* room, unless requests for them overlapped (createPath, createEpisode).  *)
OneOpen ==
  /\ NewRow \notin met => Cardinality({p \in PathId \ met : OpenPath(p)}) <= 1
  /\ \A p \in PathId \ met :
       Cardinality({e \in Episode \ met : partOf[e] = {p} /\ LiveRoom(e)}) <= 1

Undisturbed(p) ==
  p \notin met \union twice /\ \A e \in Episode \cap met : partOf[e] # {p}

(* The step of a path counts the units that were read in a room of it or   *)
(* passed over by choice, and a completed path ended with its last unit,   *)
(* unless requests overlapped on it or a room of it (a message saved over  *)
(* the end of a room opens it again) or one reading was counted again.     *)
UnitsAreRead == \A p \in PathId : Undisturbed(p) =>
  /\ 0 .. file[p].step - 1 \subseteq readUnits[p]
  /\ file[p].status = "completed" => Units - 1 \in readUnits[p]

(* Nothing said in a room outlives it, unless a message overlapped its end *)
(* or the process stopped between the end and the wiping.                  *)
ChatIsWiped == \A e \in said \ (met \union unswept) :
  LiveRoom(e) \/ \E d \in Desk : desk[d].at = "wipe" /\ desk[d].row = e

(* A path that ended and a room that is over stay so, unless a request     *)
(* that had read them before overlapped (the saves of path and session).   *)
StaysOver ==
  \A x \in PathId \union Episode :
    /\ file[x].status \in {"declined", "cancelled", "completed", "over"}
    /\ x \notin met'
    => file'[x].status = file[x].status
=============================================================================
