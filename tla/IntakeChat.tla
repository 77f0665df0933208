----------------------------- MODULE IntakeChat -----------------------------
(***************************************************************************)
(* The goal interview of one user, as a chat or as a form:                 *)
(* IntakeChatService, QuestionnaireService and the questions' schema       *)
(* (src/src/questionnaire/).                                               *)
(*                                                                         *)
(* One row keeps the answers, what the chat has asked for (its meta) and   *)
(* whether they were submitted.  A turn of the chat reads the row, waits - *)
(* for a language model, or for the tracks on offer - and saves the row it *)
(* had read whole.  The tracks on offer are domains of the units catalog,  *)
(* which the schema of a process knows from its last reload: normalizing   *)
(* drops what that does not list.  Plain holds the other questions, in     *)
(* order, whose options are fixed.  Submissions leave a goal and profiles. *)
(* Texts, transcripts, models, branches and the interview's switch are     *)
(* left out, and so is what a submission sets in motion (RoadmapPlans).    *)
(***************************************************************************)
EXTENDS Naturals, Sequences, FiniteSets, Functions

CONSTANTS
  Domain,        \* tracks
  Skill,         \* that may be picked
  Plain,         \* the questions with fixed options
  Phone,         \* requests in progress at a time
  MaxTurns       \* bound: requests, and changes of the catalog, ever made

NoTrack == "no track"
IntakeAssumption == MaxTurns \in Nat /\ NoTrack \notin Domain /\ Len(Plain) > 0

VARIABLES
  catalog,       \* active domains of the units catalog
  listed,        \* those the schema of this process lists
  interview,     \* questionnaire_responses
  goals,         \* active goals of the user
  profiles,      \* learner profiles by version: whether it is the current one
  talk,          \* the requests in progress
  turns,         \* how many were made, for the bound
  editions,      \* history: how often the answers were given anew as a whole
  chosen,        \* history: what the last selection answered
  jumbled        \* history: requests overlapped, or began with a schema behind the catalog

intakeVars == <<catalog, listed, interview, goals, profiles, talk, turns, editions, chosen, jumbled>>

Hung == [at |-> "hung up"]
Blank == [goal |-> NoTrack, plain |-> {}, skills |-> {}]
Fresh == [picked |-> FALSE, rated |-> {}, session |-> FALSE]
NoRow == [status |-> "none", answers |-> Blank, meta |-> Fresh]

Init ==
  /\ catalog = Domain /\ listed = Domain
  /\ interview = NoRow /\ goals = 0 /\ profiles = <<>>
  /\ talk = [p \in Phone |-> Hung] /\ turns = 0
  /\ editions = 0 /\ chosen = {} /\ jumbled = FALSE
-----------------------------------------------------------------------------
(* normalizeDraftAnswers, listMissingFields                                *)
Normalized(a) == IF a.goal \in listed THEN a ELSE [a EXCEPT !.goal = NoTrack]
Missing(a) ==
  (IF a.goal = NoTrack THEN {"goal"} ELSE {}) \union (Range(Plain) \ a.plain)

(* suggestionForStep, listChatPendingFields: what the chat has still to    *)
(* ask, and what it asks next.                                             *)
Pending(a, m) ==
  Missing(a) \union (IF m.picked THEN {} ELSE {"skills"})
             \union (IF m.picked THEN a.skills \ m.rated ELSE {})
             \union (IF m.session THEN {} ELSE {"session"})
Focus(a, m) ==
  CASE a.goal = NoTrack -> "goal"
    [] a.goal # NoTrack /\ ~m.picked -> "skills"
    [] a.goal # NoTrack /\ m.picked /\ a.skills \subseteq m.rated -> "further on"
    [] OTHER -> CHOOSE s \in a.skills \ m.rated : TRUE

(* A request that has read the row, with the object it will save.          *)
Reads(p, r) ==
  /\ talk[p] = Hung /\ turns < MaxTurns
  /\ talk' = [talk EXCEPT ![p] = r]
  /\ turns' = turns + 1
  /\ jumbled' = (jumbled \/ catalog # listed \/ \E q \in Phone : talk[q] # Hung)
  /\ UNCHANGED chosen

Draft(row) == IF row.status = "submitted" THEN row ELSE [row EXCEPT !.status = "draft"]
Answered(row, a, m) == [Draft(row) EXCEPT !.answers = Normalized(a), !.meta = m]

(* start: a draft begins anew, what was submitted counts as asked.         *)
Restarted(row) ==
  IF row.status # "submitted" THEN [NoRow EXCEPT !.status = "draft"]
  ELSE LET a == Normalized(row.answers) IN
       [row EXCEPT !.answers = a, !.meta = [picked |-> TRUE, rated |-> a.skills, session |-> TRUE]]

Start(p) ==
  /\ Reads(p, [at |-> "save", object |-> Restarted(interview), then |-> "look", new |-> 1, q |-> {}])
  /\ UNCHANGED <<catalog, listed, interview, goals, profiles, editions>>

(* applySelectionAndContinue: a track that the catalog or the schema has,  *)
(* the skills, the level of one of them, an option of another question.    *)
PickTrack(row, d) == Answered(row, [row.answers EXCEPT !.goal = d], row.meta)
SomeSkills(row, ss) ==                                      \* variant
  Answered(row, [row.answers EXCEPT !.skills = ss],
           [row.meta EXCEPT !.picked = (ss # {}), !.rated = @ \intersect ss])
PickSkills(row, ss) ==
  Answered(row, [row.answers EXCEPT !.skills = ss],
           [row.meta EXCEPT !.picked = TRUE, !.rated = @ \intersect ss])
Rate(row, s) == Answered(row, row.answers, [row.meta EXCEPT !.rated = @ \union {s}])
PickSession(row) == Answered(row, row.answers, [row.meta EXCEPT !.session = TRUE])
PickOption(row, q) == Answered(row, [row.answers EXCEPT !.plain = @ \union {q}], row.meta)

Select(p, q, object) ==
  /\ Reads(p, [at |-> "save", object |-> object, then |-> "turn", new |-> 0, q |-> {q}])
  /\ UNCHANGED <<catalog, listed, interview, goals, profiles, editions>>

Selection(p) ==
  \/ \E d \in catalog \union listed : Select(p, "goal", PickTrack(interview, d))
  \/ \E ss \in SUBSET Skill : Select(p, "skills", PickSkills(interview, ss))
  \/ \E s \in interview.answers.skills : Select(p, s, Rate(interview, s))
  \/ \E q \in Range(Plain) : Select(p, q, PickOption(interview, q))
  \/ Select(p, "session", PickSession(interview))

(* runTurn without a model: the row is read again, takes the answers of    *)
(* the selection, waits for the next suggestion and is saved again.        *)
Turn(p) ==
  LET r == talk[p] IN
  /\ r.at \in {"turn", "look"}
  /\ talk' = [talk EXCEPT ![p] =
       [at |-> "save", then |-> "end", new |-> 0, q |-> r.q,
        object |-> IF r.at = "turn" THEN Answered(interview, r.a, r.m)
                   ELSE Answered(interview, interview.answers, interview.meta)]]
  /\ UNCHANGED <<catalog, listed, interview, goals, profiles, turns, editions, chosen, jumbled>>

(* message: not for a track.  Without anything to ask it is a turn without *)
(* a model; with it, the model answers, or fails and the old answers are   *)
(* saved.                                                                  *)
Say(p) ==
  LET a == Normalized(interview.answers)  m == interview.meta IN
  /\ Focus(a, m) # "goal"
  /\ Reads(p, IF Pending(a, m) = {}
              THEN [at |-> "save", object |-> Answered(interview, a, m), then |-> "end", new |-> 0, q |-> {}]
              ELSE [at |-> "model", object |-> Answered(interview, a, m)])
  /\ UNCHANGED <<catalog, listed, interview, goals, profiles, editions>>

(* mergeLlmSkillPartial, metaAfterLlm: skills heard while one is rated     *)
(* join those that were picked.                                            *)
Replaced(row, ss) == [row EXCEPT !.answers.skills = ss, !.meta.picked = TRUE,  \* variant
                        !.meta.rated = @ \union ({Focus(row.answers, row.meta)} \intersect Skill)]
Heard(row, ss) ==
  LET s == Focus(row.answers, row.meta) IN
  [row EXCEPT !.answers.skills = IF s \in Skill THEN @ \union ss ELSE ss,
              !.meta.picked = TRUE,
              !.meta.rated = @ \union ({s} \intersect Skill)]

Understands(p, object) ==
  /\ talk[p].at = "model"
  /\ talk' = [talk EXCEPT ![p] = [at |-> "save", object |-> object, then |-> "end", new |-> 0, q |-> {}]]
  /\ UNCHANGED <<catalog, listed, interview, goals, profiles, turns, editions, chosen, jumbled>>

Model(p) ==
  LET row == talk[p].object IN
  \/ Understands(p, row)
  \/ \E ss \in SUBSET Skill : Understands(p, Heard(row, ss))
  \/ \E q \in Range(Plain) : Understands(p, PickOption(row, q))
  \/ Understands(p, PickSession(row))

(* complete: the draft as the form would read it.                          *)
Complete(p) ==
  /\ interview.status # "none"
  /\ Reads(p, [at |-> "save", object |-> Answered(interview, interview.answers, interview.meta),
               then |-> "end", new |-> 0, q |-> {}])
  /\ UNCHANGED <<catalog, listed, interview, goals, profiles, editions>>

Save(p) ==
  LET r == talk[p] IN
  /\ r.at = "save"
  /\ interview' = r.object
  /\ editions' = editions + r.new
  /\ talk' = [talk EXCEPT ![p] =
       IF r.then = "end" THEN Hung
       ELSE [at |-> r.then, a |-> r.object.answers, m |-> r.object.meta, q |-> r.q]]
  /\ chosen' = r.q
  /\ UNCHANGED <<catalog, listed, goals, profiles, turns, jumbled>>
-----------------------------------------------------------------------------
(* upsertDraft: the form's answers, without the chat's meta.               *)
SaveForm(d, plain) ==
  /\ turns < MaxTurns /\ turns' = turns + 1
  /\ interview' = [Draft(interview) EXCEPT !.answers = Normalized([Blank EXCEPT !.goal = d, !.plain = plain]),
                                           !.meta = Fresh]
  /\ editions' = editions + 1
  /\ chosen' = {}
  /\ jumbled' = (jumbled \/ \E q \in Phone : talk[q] # Hung)
  /\ UNCHANGED <<catalog, listed, goals, profiles, talk>>

(* submit, of complete answers: the row is read first; the transaction     *)
(* then looks for the active goal, and saves the row - which it locks to   *)
(* its end - and the next version of the profile.                          *)
Submit(p, d) ==
  /\ d \in listed
  /\ Reads(p, [at |-> "goal",
               object |-> [status |-> "submitted", meta |-> Fresh,
                           answers |-> [goal |-> d, plain |-> Range(Plain), skills |-> {}]],
               was |-> interview.status])
  /\ UNCHANGED <<catalog, listed, interview, goals, profiles, editions>>

UpsertGoal(p) ==
  /\ talk[p].at = "goal"
  /\ talk' = [talk EXCEPT ![p] = [at |-> "submit", object |-> talk[p].object, was |-> talk[p].was,
                                  goals |-> IF goals = 0 THEN 1 ELSE 0]]
  /\ UNCHANGED <<catalog, listed, interview, goals, profiles, turns, editions, chosen, jumbled>>

BesideTheLast(ps) == Append(ps, TRUE)                       \* variant
NextVersion(ps) == Append([v \in DOMAIN ps |-> FALSE], TRUE)

CommitSubmit(p) ==
  LET r == talk[p] IN
  /\ r.at = "submit"
  /\ talk' = [talk EXCEPT ![p] = Hung]
  /\ IF r.was = "none" /\ interview.status # "none" THEN UNCHANGED <<interview, goals, profiles, editions>>
     ELSE /\ interview' = r.object
          /\ goals' = goals + r.goals
          /\ profiles' = NextVersion(profiles)
          /\ editions' = editions + 1
  /\ chosen' = {}
  /\ UNCHANGED <<catalog, listed, turns, jumbled>>

(* reassess: a copy of the current profile, as the version after it.       *)
Reassess(p) ==
  /\ profiles # <<>>
  /\ Reads(p, [at |-> "copy", version |-> Len(profiles) + 1])
  /\ UNCHANGED <<catalog, listed, interview, goals, profiles, editions>>

CommitCopy(p) ==
  /\ talk[p].at = "copy"
  /\ profiles' = IF talk[p].version = Len(profiles) + 1 THEN NextVersion(profiles) ELSE profiles
  /\ talk' = [talk EXCEPT ![p] = Hung]
  /\ UNCHANGED <<catalog, listed, interview, goals, turns, editions, chosen, jumbled>>

(* Rows of the tables: of learner_profile_snapshots one for each version,  *)
(* which is the current one or superseded.                                 *)
ResponseRow ==
  [status  : {"none", "draft", "submitted"},
   answers : [goal : Domain \union {NoTrack}, plain : SUBSET Range(Plain), skills : SUBSET Skill],
   meta    : [picked : BOOLEAN, rated : SUBSET Skill, session : BOOLEAN]]
Snapshots == Seq(BOOLEAN)

(* Units are imported or retired; the process that did it reloads.         *)
Import ==
  /\ turns < MaxTurns /\ turns' = turns + 1
  /\ catalog' \in SUBSET Domain \ {{}, catalog}
  /\ jumbled' = (jumbled \/ \E q \in Phone : talk[q] # Hung)
  /\ UNCHANGED <<listed, interview, goals, profiles, talk, editions, chosen>>

Reload ==
  /\ listed' = catalog
  /\ UNCHANGED <<catalog, interview, goals, profiles, talk, turns, editions, chosen, jumbled>>

Stop(p) ==
  /\ talk[p] # Hung
  /\ talk' = [talk EXCEPT ![p] = Hung]
  /\ UNCHANGED <<catalog, listed, interview, goals, profiles, turns, editions, chosen, jumbled>>
-----------------------------------------------------------------------------
Next ==
  \/ Import \/ Reload
  \/ \E d \in Domain \union {NoTrack}, plain \in {{}, Range(Plain)} : SaveForm(d, plain)
  \/ \E p \in Phone :
       \/ Start(p) \/ Selection(p) \/ Turn(p) \/ Say(p) \/ Model(p) \/ Complete(p) \/ Save(p)
       \/ UpsertGoal(p) \/ CommitSubmit(p) \/ Reassess(p) \/ CommitCopy(p) \/ Stop(p)
       \/ \E d \in Domain : Submit(p, d)

Spec == Init /\ [][Next]_intakeVars

TypeOK ==
  /\ catalog \subseteq Domain /\ listed \subseteq Domain
  /\ interview \in ResponseRow
  /\ goals \in Nat /\ profiles \in Snapshots

(* The chat moves on: what a selection answered is not asked again, unless *)
(* requests overlapped, or one began with a schema behind the catalog: the *)
(* track that it takes from the catalog is dropped from the answers.       *)
ChatMovesOn ==
  jumbled \/ catalog # listed \/ chosen \intersect Pending(interview.answers, interview.meta) = {}

(* A user has one current profile, the newest, and one active goal, unless *)
(* requests overlapped: two submissions may both find no goal.             *)
OneProfile ==
  /\ \A v \in DOMAIN profiles : profiles[v] <=> v = Len(profiles)
  /\ ~jumbled => goals <= 1 /\ (goals = 1 <=> profiles # <<>>)

(* What was submitted is not a draft again, and answers that were given    *)
(* are not lost but by beginning anew or with a track that is no longer    *)
(* listed, unless requests overlapped: a late answer of the model saves    *)
(* the row as it was when it was asked.                                    *)
AnswersKept ==
  jumbled' \/
    /\ interview.status = "submitted" => interview'.status = "submitted"
    /\ editions' = editions =>
         /\ interview.answers.plain \subseteq interview'.answers.plain
         /\ interview'.answers.goal = NoTrack => interview.answers.goal \notin listed
         /\ Focus(interview.answers, interview.meta) \in Skill /\ chosen' # {"skills"}
            => interview.answers.skills \subseteq interview'.answers.skills
=============================================================================
