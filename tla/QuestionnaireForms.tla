------------------------ MODULE QuestionnaireForms ------------------------
(***************************************************************************)
(* The versions of the questionnaire and the schema that a server shows:   *)
(* administrators create, clone, edit and activate versions                *)
(* (admin-questionnaire.service.ts, admin-roles.service.ts), every server  *)
(* seeds at its start and keeps the active version in memory               *)
(* (questionnaire-schema.service.ts), and the unit catalogue fills the     *)
(* goal step with its domains.                                             *)
(*                                                                         *)
(* Requests read, check and save in separate statements; only the creation *)
(* of a version and the seeding are transactions.  The memory is that of   *)
(* one server, "home"; requests to the others change the tables only.      *)
(* Titles, icons and order are left out.  The reload reads the domains     *)
(* right after the version: one step here.                                 *)
(***************************************************************************)
EXTENDS Naturals, FiniteSets, FiniteSetsExt, TLC

CONSTANTS
  Request,     \* handlers that may overlap
  Domain,      \* domains the unit catalogue may have
  Role,        \* a career role, whose slug may be an option
  MaxVersion, MaxDeeds  \* bounds

FormsAssumption == MaxVersion \in Nat \ {0} /\ MaxDeeds \in Nat /\ Role \notin Domain

VARIABLES
  forms,       \* the versions: active, the steps by id, how often a model worded them
  cache,       \* what home shows
  domains,     \* those of the active units
  role,        \* the row of the role: none, on, off
  request,     \* what each handler does, and what it has read
  deeds,       \* for the bound
  overlapped, stopped,  \* history: handlers overlapped; one stopped or failed
  missed,      \* history: a change was made on another server since home loaded
  trimmed,     \* history: versions that lost a field after their activation
  chosen, reseeded  \* history: the version last activated; a start has seeded since

formsVars == <<forms, cache, domains, role, request, deeds, overlapped, stopped, missed,
               trimmed, chosen, reseeded>>

Seed == 1
None == 0
Idle == [do |-> "idle", home |-> FALSE, boot |-> FALSE]
Keys == {"goal", "selfStage", "selfstage"}

(* slugify: every key an administrator saves is in lower case.             *)
Slug(key) == IF key = "selfStage" THEN "selfstage" ELSE key
Step(key, options) == [key |-> key, options |-> options]
SeedSteps == [id \in 1..2 |-> Step(IF id = 1 THEN "goal" ELSE "selfStage", {})]
Form(active, steps) == [active |-> active, steps |-> steps, worded |-> 0]
NoSteps == [id \in {} |-> Step("goal", {})]

Init ==
  /\ forms = [v \in {Seed} |-> Form(TRUE, SeedSteps)]
  /\ cache = [version |-> Seed, keys |-> {"goal", "selfStage"}, goal |-> {}]
  /\ domains = {} /\ role = "none"
  /\ request = [r \in Request |-> Idle] /\ deeds = 0
  /\ overlapped = FALSE /\ stopped = FALSE /\ missed = FALSE /\ trimmed = {}
  /\ chosen = Seed /\ reseeded = FALSE

Version == DOMAIN forms
Active == {v \in Version : forms[v].active}
KeysOf(steps) == {steps[id].key : id \in DOMAIN steps}
GoalOf(steps) == {id \in DOMAIN steps : steps[id].key = "goal"}

(* validateActivationSteps: compared without case and hyphens.             *)
Complete(steps) == {"goal", "selfstage"} \subseteq {Slug(key) : key \in KeysOf(steps)}
Validated(steps) == Complete(steps)

Booting == \E r \in Request : request[r].home /\ request[r].boot
Begins(r, home, what) ==
  /\ request[r] = Idle /\ deeds < MaxDeeds /\ deeds' = deeds + 1
  /\ home => ~Booting
  /\ request' = [request EXCEPT ![r] = what @@ [home |-> home, boot |-> FALSE]]
  /\ overlapped' = (overlapped \/ \E s \in Request \ {r} : request[s] # Idle)
  /\ missed' = (missed \/ ~home)
At(r, at) == request[r].do = at
Goes(r, at) == request' = [request EXCEPT ![r].do = at]
Ends(r) == request' = [request EXCEPT ![r] = Idle]
Reloads(r) == request' = [request EXCEPT ![r] = [do |-> "read", home |-> @.home, boot |-> @.boot]]
Starts(home) == [do |-> "seed", home |-> home, boot |-> TRUE, seeding |-> TRUE]
Kept == UNCHANGED <<deeds, overlapped, missed>>
-----------------------------------------------------------------------------
(* createDefinition: blank or a copy; the number after the highest, which  *)
(* is unique.  With activate the others are switched off with the insert.  *)
AskCreate(r, home, source, activate) ==
  LET steps == IF source = None THEN NoSteps ELSE forms[source].steps
  IN  /\ activate => source # None /\ Validated(steps)
      /\ Begins(r, home, [do |-> "insert", version |-> Max(Version \union {None}) + 1,
                          steps |-> steps, active |-> activate])
      /\ UNCHANGED <<forms, cache, domains, role, stopped, trimmed, chosen, reseeded>>

OthersStay(on) == forms
OthersOff(on) == [v \in Version |-> [forms[v] EXCEPT !.active = ~on /\ @]]
Insert(r) ==
  LET q == request[r]
  IN  /\ At(r, "insert") /\ q.version <= MaxVersion /\ Kept
      /\ IF q.version \in Version
         THEN Ends(r) /\ UNCHANGED <<forms, chosen, reseeded>>
         ELSE /\ forms' = OthersOff(q.active) @@ [v \in {q.version} |-> Form(q.active, q.steps)]
              /\ IF q.active THEN Reloads(r) /\ chosen' = q.version /\ reseeded' = FALSE
                 ELSE Ends(r) /\ UNCHANGED <<chosen, reseeded>>
      /\ UNCHANGED <<cache, domains, role, stopped, trimmed>>

(* activate: read and checked; all off; the row saved with its steps.      *)
AskActivate(r, home, v) ==
  /\ Validated(forms[v].steps)
  /\ Begins(r, home, [do |-> "clear", version |-> v, steps |-> forms[v].steps])
  /\ UNCHANGED <<forms, cache, domains, role, stopped, trimmed, chosen, reseeded>>

Clear(r) ==
  /\ At(r, "clear") /\ Goes(r, "save") /\ Kept
  /\ forms' = OthersOff(TRUE)
  /\ UNCHANGED <<cache, domains, role, stopped, trimmed, chosen, reseeded>>

(* The save brings the steps back as they were read, removed ones too; a   *)
(* step or an option added meanwhile would lose its parent and refuses it. *)
Covers(read, now) ==
  \A id \in DOMAIN now : id \in DOMAIN read /\ now[id].options \subseteq read[id].options
SaveActive(r) ==
  LET q == request[r]
      v == q.version
  IN  /\ At(r, "save") /\ Kept
      /\ IF v \in Version /\ ~Covers(q.steps, forms[v].steps)
         THEN Ends(r) /\ UNCHANGED <<forms, chosen, reseeded>>
         ELSE /\ forms' = [w \in {v} |-> [Form(TRUE, q.steps) EXCEPT !.worded =
                              IF v \in Version THEN forms[v].worded ELSE 0]] @@ forms
              /\ Reloads(r) /\ chosen' = v /\ reseeded' = FALSE
      /\ UNCHANGED <<cache, domains, role, stopped, trimmed>>
-----------------------------------------------------------------------------
(* createStep and updateStep: the key's clash is looked up, then the step  *)
(* is saved; the key is unique in its version.  The form of a step sends   *)
(* its key along with every edit.                                          *)
AskStep(r, home, v, key) ==
  /\ Slug(key) \notin KeysOf(forms[v].steps)
  /\ Begins(r, home, [do |-> "step", version |-> v, id |-> None, step |-> Step(Slug(key), {})])
  /\ UNCHANGED <<forms, cache, domains, role, stopped, trimmed, chosen, reseeded>>

AskEdit(r, home, v, id, key) ==
  LET others == [i \in DOMAIN forms[v].steps \ {id} |-> forms[v].steps[i]]
  IN  /\ Slug(key) \notin KeysOf(others)
      /\ Begins(r, home, [do |-> "step", version |-> v, id |-> id,
                          step |-> Step(Slug(key), forms[v].steps[id].options)])
      /\ UNCHANGED <<forms, cache, domains, role, stopped, trimmed, chosen, reseeded>>

Trims(v, steps) == IF v \in Active /\ ~Complete(steps) THEN {v} ELSE {}
SaveStep(r) ==
  LET q == request[r]
      now == forms[q.version].steps
      id == IF q.id = None THEN Max(DOMAIN now \union {0}) + 1 ELSE q.id
      others == [i \in DOMAIN now \ {id} |-> now[i]]
      steps == others @@ [i \in {id} |-> q.step]
  IN  /\ At(r, "step") /\ Kept
      /\ IF q.version \notin Version \/ q.step.key \in KeysOf(others)
              \/ (id \in DOMAIN now /\ ~(now[id].options \subseteq q.step.options))
         THEN Ends(r) /\ UNCHANGED <<forms, trimmed>>
         ELSE /\ forms' = [forms EXCEPT ![q.version].steps = steps] /\ Reloads(r)
              /\ trimmed' = trimmed \union Trims(q.version, steps)
      /\ UNCHANGED <<cache, domains, role, stopped, chosen, reseeded>>

(* deleteStep: of the active version too, and whatever the field is.       *)
RemoveStep(r, home, v, id) ==
  LET steps == [i \in DOMAIN forms[v].steps \ {id} |-> forms[v].steps[i]]
  IN  /\ Begins(r, home, [do |-> "read"])
      /\ forms' = [forms EXCEPT ![v].steps = steps]
      /\ trimmed' = trimmed \union Trims(v, steps)
      /\ UNCHANGED <<cache, domains, role, stopped, chosen, reseeded>>

(* createOption and updateOption, of the goal step; a start that is        *)
(* refused an option fails and begins again.                               *)
AskOption(r, home, v, id, old, new) ==
  /\ LET options == forms[v].steps[id].options
     IN  new \notin options /\ (old = {} \/ old \subseteq options)
  /\ Begins(r, home, [do |-> "option", version |-> v, id |-> id, old |-> old, new |-> {new}])
  /\ UNCHANGED <<forms, cache, domains, role, stopped, trimmed, chosen, reseeded>>

HasStep(v, id) == v \in Version /\ id \in DOMAIN forms[v].steps
SaveOption(r) ==
  LET q == request[r]
  IN  /\ At(r, "option") /\ Kept
      /\ IF HasStep(q.version, q.id) /\ q.new \intersect forms[q.version].steps[q.id].options = {}
         THEN /\ forms' = [forms EXCEPT ![q.version].steps[q.id].options = (@ \ q.old) \union q.new]
              /\ Reloads(r)
         ELSE /\ UNCHANGED forms
              /\ IF q.boot THEN request' = [request EXCEPT ![r] = Starts(q.home)] ELSE Ends(r)
      /\ UNCHANGED <<cache, domains, role, stopped, trimmed, chosen, reseeded>>

(* deleteOption.                                                           *)
RemoveOption(r, home, v, id, old) ==
  /\ old \in forms[v].steps[id].options
  /\ Begins(r, home, [do |-> "read"])
  /\ forms' = [forms EXCEPT ![v].steps[id].options = @ \ {old}]
  /\ UNCHANGED <<cache, domains, role, stopped, trimmed, chosen, reseeded>>

(* createRole and setActive: the row first, then the goal step of the      *)
(* active version is looked up.                                            *)
SetRole(r, home, to) ==
  /\ role # to /\ (to = "off" => role = "on")
  /\ Begins(r, home, [do |-> "goal", to |-> to])
  /\ role' = to
  /\ UNCHANGED <<forms, cache, domains, stopped, trimmed, chosen, reseeded>>

FindGoal(r) ==
  /\ At(r, "goal") /\ Kept
  /\ \/ /\ \A v \in Active : GoalOf(forms[v].steps) = {}
        /\ Ends(r) /\ UNCHANGED forms
     \/ \E v \in Active : \E id \in GoalOf(forms[v].steps) :
          LET has == Role \in forms[v].steps[id].options
          IN  CASE request[r].to = "on" /\ ~has ->
                     /\ request' = [request EXCEPT ![r] = [do |-> "option", version |-> v, id |-> id,
                          old |-> {}, new |-> {Role}, home |-> @.home, boot |-> FALSE]]
                     /\ UNCHANGED forms
                [] request[r].to = "off" /\ has ->
                     /\ forms' = [forms EXCEPT ![v].steps[id].options = @ \ {Role}]
                     /\ Reloads(r)
                [] request[r].to = "on" /\ has -> Reloads(r) /\ UNCHANGED forms
                [] OTHER -> Ends(r) /\ UNCHANGED forms
  /\ UNCHANGED <<cache, domains, role, stopped, trimmed, chosen, reseeded>>
-----------------------------------------------------------------------------
(* reloadCache: the domains replace the options of the goal step.          *)
Shown(v) ==
  [version |-> v, keys |-> KeysOf(forms[v].steps),
   goal |-> IF domains # {} /\ GoalOf(forms[v].steps) # {} THEN domains
            ELSE UNION {forms[v].steps[id].options : id \in GoalOf(forms[v].steps)}]
Nothing == [version |-> None, keys |-> {}, goal |-> {}]
ReadForm(r) ==
  /\ At(r, "read") /\ Kept
  /\ \E dto \in IF Active = {} THEN {Nothing} ELSE {Shown(v) : v \in Active} :
       request' = [request EXCEPT ![r] = [do |-> "set", dto |-> dto, home |-> @.home, boot |-> @.boot]
                                           @@ (IF "seeding" \in DOMAIN @ THEN [seeding |-> TRUE] ELSE <<>>)]
  /\ UNCHANGED <<forms, cache, domains, role, stopped, trimmed, chosen, reseeded>>

SetCache(r) ==
  /\ At(r, "set") /\ UNCHANGED <<deeds, overlapped>>
  /\ IF request[r].home THEN cache' = request[r].dto /\ missed' = FALSE ELSE UNCHANGED <<cache, missed>>
  /\ IF "seeding" \in DOMAIN request[r]
     THEN request' = [request EXCEPT ![r] = [do |-> "enrich", home |-> @.home, boot |-> TRUE]]
     ELSE Ends(r)
  /\ UNCHANGED <<forms, domains, role, stopped, trimmed, chosen, reseeded>>

(* onModuleInit: a server starts, home without what it was doing.  With    *)
(* QUESTIONNAIRE_RESET_ON_BOOT all versions go, with the answers to them.  *)
Boot(r, home, reset) ==
  /\ deeds < MaxDeeds /\ deeds' = deeds + 1
  /\ request[r] = Idle \/ (home /\ request[r].home)
  /\ request' = [s \in Request |->
       IF s = r THEN Starts(home)
       ELSE IF home /\ request[s].home THEN Idle ELSE request[s]]
  /\ stopped' = (stopped \/ \E s \in Request : home /\ request[s].home)
  /\ overlapped' = (overlapped \/ \E s \in Request \ {r} : request[s] # Idle)
  /\ cache' = IF home THEN Nothing ELSE cache
  /\ missed' = (missed \/ ~home)
  /\ forms' = IF reset THEN [v \in {} |-> Form(FALSE, NoSteps)] ELSE forms
  /\ trimmed' = IF reset THEN {} ELSE trimmed
  /\ UNCHANGED <<domains, role, chosen, reseeded>>

(* ensureSeeded: the version of the code is active after every start.      *)
EnsureSeeded(r) ==
  /\ At(r, "seed") /\ Kept
  /\ \/ /\ Seed \notin Version /\ Goes(r, "read")
        /\ forms' = [v \in {Seed} |-> Form(TRUE, SeedSteps)] @@ OthersOff(TRUE)
        /\ reseeded' = TRUE
     \/ /\ Seed \in Active /\ Goes(r, "read") /\ UNCHANGED <<forms, reseeded>>
     \/ /\ Seed \in Version \ Active /\ Goes(r, "seedOn")
        /\ forms' = OthersOff(TRUE) /\ reseeded' = TRUE
  /\ UNCHANGED <<cache, domains, role, stopped, trimmed, chosen>>

SeedOn(r) ==
  /\ At(r, "seedOn") /\ Goes(r, "read") /\ Kept
  /\ forms' = [v \in {Seed} |-> IF v \in Version THEN [forms[v] EXCEPT !.active = TRUE]
                                ELSE Form(TRUE, NoSteps)] @@ forms
  /\ UNCHANGED <<cache, domains, role, stopped, trimmed, chosen, reseeded>>

(* enrichActiveDefinitionWithAi: a model words the active version, unless *)
(* it has already; it may be off or fail.  A copy begins unworded.         *)
Unasked(v) == TRUE
NotWorded(v) == forms[v].worded = 0
Enrich(r) ==
  /\ At(r, "enrich") /\ Kept
  /\ \/ Goes(r, "sync")
     \/ \E v \in Active : /\ NotWorded(v) /\ KeysOf(forms[v].steps) # {}
                          /\ request' = [request EXCEPT ![r] =
                               [do |-> "word", version |-> v, home |-> @.home, boot |-> TRUE]]
  /\ UNCHANGED <<forms, cache, domains, role, stopped, trimmed, chosen, reseeded>>

PersistCopy(r) ==
  /\ At(r, "word") /\ Goes(r, "sync") /\ Kept
  /\ forms' = IF request[r].version \in Version
              THEN [forms EXCEPT ![request[r].version].worded = @ + 1] ELSE forms
  /\ UNCHANGED <<cache, domains, role, stopped, trimmed, chosen, reseeded>>

(* syncDomainOptionsToGoalStep: domains that the goal step lacks; then the *)
(* memory is loaded once more.                                             *)
SyncDomains(r) ==
  /\ At(r, "sync") /\ Kept
  /\ \/ /\ \A v \in Active : \A id \in GoalOf(forms[v].steps) : domains \subseteq forms[v].steps[id].options
        /\ Reloads(r)
     \/ \E v \in Active : \E id \in GoalOf(forms[v].steps) :
          LET missing == domains \ forms[v].steps[id].options
          IN  /\ missing # {}
              /\ request' = [request EXCEPT ![r] = [do |-> "option", version |-> v, id |-> id,
                   old |-> {}, new |-> missing, home |-> @.home, boot |-> @.boot]]
  /\ UNCHANGED <<forms, cache, domains, role, stopped, trimmed, chosen, reseeded>>

(* onCatalogChanged: on the server whose catalogue was edited.             *)
CatalogChanged(r, home, now) ==
  /\ now # domains /\ Begins(r, home, [do |-> "sync"])
  /\ domains' = now
  /\ UNCHANGED <<forms, cache, role, stopped, trimmed, chosen, reseeded>>

Stop(r) ==
  /\ request[r] # Idle /\ ~request[r].boot /\ Ends(r)
  /\ stopped' = TRUE /\ Kept
  /\ UNCHANGED <<forms, cache, domains, role, trimmed, chosen, reseeded>>

Next == \E r \in Request :
  \/ Insert(r) \/ Clear(r) \/ SaveActive(r) \/ SaveStep(r) \/ SaveOption(r) \/ FindGoal(r)
  \/ ReadForm(r) \/ SetCache(r) \/ EnsureSeeded(r) \/ SeedOn(r) \/ Enrich(r) \/ PersistCopy(r)
  \/ SyncDomains(r) \/ Stop(r)
  \/ \E home \in BOOLEAN :
       \/ \E source \in Version \union {None}, activate \in BOOLEAN : AskCreate(r, home, source, activate)
       \/ \E to \in {"on", "off"} : SetRole(r, home, to)
       \/ \E now \in SUBSET Domain : CatalogChanged(r, home, now)
       \/ \E reset \in BOOLEAN : Boot(r, home, reset)
       \/ \E v \in Version :
            \/ AskActivate(r, home, v)
            \/ \E key \in Keys : AskStep(r, home, v, key)
            \/ \E id \in DOMAIN forms[v].steps :
                 \/ AskEdit(r, home, v, id, forms[v].steps[id].key)
                 \/ RemoveStep(r, home, v, id)
                 \/ \E new \in Domain \union {Role}, old \in SUBSET forms[v].steps[id].options :
                      id = 1 /\ Cardinality(old) <= 1 /\ AskOption(r, home, v, id, old, new)
                 \/ \E old \in forms[v].steps[id].options : RemoveOption(r, home, v, id, old)

Spec == Init /\ [][Next]_formsVars
-----------------------------------------------------------------------------
TypeOK ==
  /\ Version \subseteq 1..MaxVersion
  /\ \A v \in Version : /\ DOMAIN forms[v].steps \subseteq 1..(2 + MaxDeeds) /\ KeysOf(forms[v].steps) \subseteq Keys
                        /\ forms[v].active \in BOOLEAN /\ forms[v].worded \in Nat
  /\ cache.version \in 0..MaxVersion /\ cache.goal \subseteq Domain \union {Role}
  /\ domains \subseteq Domain /\ role \in {"none", "on", "off"} /\ deeds \in 0..MaxDeeds
  /\ chosen \in 1..MaxVersion

Quiet == \A r \in Request : request[r] = Idle

(* Activations take turns, so no two versions are active; one is, when     *)
(* nobody is at work: the one activated last, or the code's own when a     *)
(* server started since.                                                   *)
OneFormActive ==
  /\ ~overlapped => Cardinality(Active) <= 1
  /\ Quiet /\ ~overlapped /\ ~stopped => Active = {IF reseeded THEN Seed ELSE chosen}

(* "Cannot activate questionnaire: missing critical field keys": an active *)
(* version has them, in some spelling, until a step of it is removed; the  *)
(* start of a server activates the code's version as it is.                *)
ActiveAsksAll ==
  ~overlapped => \A v \in Active : Complete(forms[v].steps) \/ v \in trimmed \/ (v = Seed /\ reseeded)

(* What home shows is the active version with the domains of now, when no  *)
(* other server made a change and nobody is at work.                       *)
SchemaIsCurrent ==
  Quiet /\ ~overlapped /\ ~stopped /\ ~missed => \E v \in Active : cache = Shown(v)

(* "set when OpenAI rewrite persisted": each version is worded once.       *)
WordedOnce == ~overlapped => \A v \in Version : forms[v].worded <= 1
=============================================================================
