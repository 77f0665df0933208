-------------------------- MODULE ContentVersions --------------------------
(***************************************************************************)
(* The versions of a lesson template (a question template goes the same    *)
(* way): drafts, review, publication and retirement by several editors     *)
(* (content-version.service.ts, content-publication.service.ts), and the   *)
(* lessons of roadmaps that get the body of the version which is published *)
(* when their week comes (getPlayableLessonVersion and                     *)
(* materializeRoadmapContent of content-query.service.ts).                 *)
(*                                                                         *)
(* Nothing runs in a transaction: a transition saves the version, then     *)
(* publish and retire update the template, and publish saves the version   *)
(* it holds once more, with its date.                                      *)
(***************************************************************************)
EXTENDS Naturals, Sequences, FiniteSets

CONSTANTS
  Editor,      \* handlers of editors that may overlap
  Lesson,      \* lessons of roadmaps made of the template
  MaxVersions, MaxDeeds  \* bounds

VersionsAssumption == MaxVersions \in Nat /\ MaxDeeds \in Nat

VARIABLES
  version,     \* the versions: status, the date of publication is set
  template,    \* status, publishedVersionId
  lesson,      \* the version each lesson plays, and whether a job rewrites it
  editor,      \* what each handler does, and the row it read
  audit,       \* content_audit_logs: what was done to which version
  deeds, overlapped, stopped,  \* for the bound; history: handlers overlapped, one stopped
  rejected     \* history: inserts refused for their version number

versionVars == <<version, template, lesson, editor, audit, deeds, overlapped, stopped, rejected>>

None == 0
Idle == [do |-> "idle"]
Draft == [status |-> "draft", dated |-> FALSE]
Init ==
  /\ \/ version = <<Draft>> /\ template = [status |-> "draft", published |-> None] /\ audit = {}
     \/ /\ version = <<[status |-> "published", dated |-> TRUE]>>
        /\ template = [status |-> "published", published |-> 1]
        /\ audit = {<<1, "review">>, <<1, "published">>}
  /\ lesson = [l \in Lesson |-> None]
  /\ editor = [e \in Editor |-> Idle] /\ deeds = 0
  /\ overlapped = FALSE /\ stopped = FALSE /\ rejected = FALSE

Version == DOMAIN version
Begins(e, what) ==
  /\ editor[e] = Idle /\ deeds < MaxDeeds /\ deeds' = deeds + 1
  /\ editor' = [editor EXCEPT ![e] = what]
  /\ overlapped' = (overlapped \/ \E f \in Editor \ {e} : editor[f] # Idle)
  /\ UNCHANGED <<version, template, lesson, audit, stopped, rejected>>
Goes(e, at) == editor' = [editor EXCEPT ![e].do = at]
Ends(e) == editor' = [editor EXCEPT ![e] = Idle]
At(e, at) == editor[e].do = at
-----------------------------------------------------------------------------
(* createLessonVersion: the number after the latest, which is unique.      *)
AskCreate(e) == Begins(e, [do |-> "create", latest |-> Len(version)])
Taken(n) == n \in Version
CreateVersion(e) ==
  LET n == editor[e].latest + 1
  IN  /\ At(e, "create") /\ Ends(e)
      /\ IF Taken(n) THEN rejected' = TRUE /\ UNCHANGED version
         ELSE n <= MaxVersions /\ version' = Append(version, Draft) /\ UNCHANGED rejected
      /\ UNCHANGED <<template, lesson, audit, deeds, overlapped, stopped>>

(* NEXT_STATUS.  Nothing moves a version to blocked or back.               *)
NextStatus == [draft |-> {"review", "blocked"}, review |-> {"published", "draft", "blocked"},
               published |-> {"retired", "blocked"}, retired |-> {"blocked"}, blocked |-> {"draft"}]
Anywhere(from, to) == from # "blocked"
Allowed(from, to) == to \in NextStatus[from]

(* transition: the row is read, looked at and saved, then written down.    *)
AskMove(e, v, to) ==
  /\ v \in Version /\ Allowed(version[v].status, to)
  /\ Begins(e, [do |-> "move", id |-> v, to |-> to, row |-> [version[v] EXCEPT !.status = to]])

SaveMove(e) ==
  /\ At(e, "move") /\ Goes(e, "log")
  /\ version' = [version EXCEPT ![editor[e].id] = editor[e].row]
  /\ UNCHANGED <<template, lesson, audit, deeds, overlapped, stopped, rejected>>

Log(e) ==
  /\ At(e, "log")
  /\ audit' = audit \union {<<editor[e].id, editor[e].to>>}
  /\ IF editor[e].to = "review" THEN Ends(e) ELSE Goes(e, editor[e].to)
  /\ UNCHANGED <<version, template, lesson, deeds, overlapped, stopped, rejected>>

(* publish: the template points to it, whatever it pointed to.             *)
PointTo(e) ==
  /\ At(e, "published") /\ Goes(e, "date")
  /\ template' = [status |-> "published", published |-> editor[e].id]
  /\ UNCHANGED <<version, lesson, audit, deeds, overlapped, stopped, rejected>>

Dated(e) ==
  /\ At(e, "date") /\ Ends(e)
  /\ version' = [version EXCEPT ![editor[e].id] = [editor[e].row EXCEPT !.dated = TRUE]]
  /\ UNCHANGED <<template, lesson, audit, deeds, overlapped, stopped, rejected>>

(* retire: the template is read first, and cleared if it points there.     *)
ReadTemplate(e) ==
  /\ At(e, "retired")
  /\ IF template.published = editor[e].id THEN Goes(e, "clear") ELSE Ends(e)
  /\ UNCHANGED <<version, template, lesson, audit, deeds, overlapped, stopped, rejected>>

StillPublished == [status |-> "published", published |-> None]
Cleared == [status |-> "retired", published |-> None]
ClearTemplate(e) ==
  /\ At(e, "clear") /\ Ends(e)
  /\ template' = Cleared
  /\ UNCHANGED <<version, lesson, audit, deeds, overlapped, stopped, rejected>>

Stop(e) ==
  /\ editor[e] # Idle /\ Ends(e) /\ stopped' = TRUE
  /\ UNCHANGED <<version, template, lesson, audit, deeds, overlapped, rejected>>
-----------------------------------------------------------------------------
(* getPlayableLessonVersion: the version pointed to, or the latest that is *)
(* published when there is none; refused if it is not published.           *)
LatestPublished ==
  LET vs == {v \in Version : version[v].status = "published"}
  IN  IF vs = {} THEN None ELSE CHOOSE v \in vs : \A w \in vs : w <= v
Found == IF template.published # None THEN template.published ELSE LatestPublished
IsPlayable(v) == v # None /\ template.status # "blocked" /\ version[v].status = "published"

(* materializeRoadmapContent: a lesson that has a body keeps it.           *)
Materialize(l) ==
  /\ lesson[l] = None /\ IsPlayable(Found)
  /\ lesson' = [lesson EXCEPT ![l] = Found]
  /\ UNCHANGED <<version, template, editor, audit, deeds, overlapped, stopped, rejected>>

Next ==
  \/ \E e \in Editor : \/ AskCreate(e) \/ CreateVersion(e)
                       \/ \E v \in Version, to \in {"review", "published", "retired"} : AskMove(e, v, to)
                       \/ SaveMove(e) \/ Log(e) \/ PointTo(e) \/ Dated(e)
                       \/ ReadTemplate(e) \/ ClearTemplate(e) \/ Stop(e)
  \/ \E l \in Lesson : Materialize(l)

Spec == Init /\ [][Next]_versionVars
-----------------------------------------------------------------------------
VersionRow == [status : DOMAIN NextStatus, dated : BOOLEAN]
TypeOK ==
  /\ version \in Seq(VersionRow) /\ Len(version) <= MaxVersions
  /\ template.published \in Version \union {None} /\ template.status \in DOMAIN NextStatus
  /\ \A e \in Editor : "row" \in DOMAIN editor[e] => /\ editor[e].row \in VersionRow
                                                     /\ editor[e].id \in Version
  /\ lesson \in [Lesson -> Version \union {None}] /\ deeds \in 0..MaxDeeds
  /\ audit \subseteq Version \X DOMAIN NextStatus

(* What a lesson plays went through review and publication (NEXT_STATUS,   *)
(* "Publish reviewed version" of content-admin.controller.ts); stops and   *)
(* overlaps leave a move out of the log, never let one through.            *)
PlayedWasReviewed ==
  /\ ~stopped => \A l \in Lesson : lesson[l] = None \/ <<lesson[l], "review">> \in audit
                                     \/ \E e \in Editor : At(e, "log")
  /\ rejected => overlapped

(* When nobody is at work the template points to a published version, and  *)
(* to none only when none was published or the one it had is retired.      *)
TemplateIsTrue ==
  (\A e \in Editor : editor[e] = Idle) /\ ~overlapped /\ ~stopped =>
    /\ template.published # None => /\ version[template.published].status = "published"
                                    /\ version[template.published].dated
    /\ template.status = "published" <=> template.published # None
    /\ template.published = None /\ LatestPublished # None => template.status = "retired"

(* A version that was retired is not played again, but for a publication   *)
(* or a transition that read the version before.                           *)
StaysRetired ==
  ~overlapped => \A v \in Version : version[v].status = "retired" => version'[v].status \in {"retired", "blocked"}
=============================================================================
