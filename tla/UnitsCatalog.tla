-------------------------- MODULE UnitsCatalog --------------------------
(***************************************************************************)
(* The catalogue the roadmaps are made from                                *)
(* (src/content-pool/units-catalog.service.ts): skills with their          *)
(* prerequisites, units that teach them, a recipe per domain, and the      *)
(* cached list of skills.  Administrators import documents, edit, switch   *)
(* and remove rows, several at a time; no handler runs in a transaction.   *)
(*                                                                         *)
(* The copies of the cache on the servers are one copy; titles, minutes    *)
(* and the other columns that nothing here depends on are left out.        *)
(***************************************************************************)
EXTENDS Naturals, Sequences, FiniteSets, SequencesExt, FiniteSetsExt

CONSTANTS
  Skill,        \* ids of skills
  Unit,         \* ids of units
  Domain,
  Seed,         \* the document of a new installation: rows of skills and units
  Documents,    \* documents that may be imported
  SkillEdits,   \* skills posted one by one: rows
  UnitEdits,    \* units posted one by one: rows
  Clerk,        \* requests of the administration, one after another
  MaxEdits      \* bound: requests

VARIABLES
  skills,       \* the table skills
  units,        \* the table units
  recipes,      \* of each domain, its recipe
  listed,       \* the cached list of active skills, if there is one: a set
  clerk,        \* of each request: what it does and what it has read
  edits,        \* how many requests there were
  unseen,       \* a skill was saved by a list without an earlier change, or an import was mixed or broken off
  synced        \* the last change of units was followed by the recipes, by one request alone

catalogVars == <<skills, units, recipes, listed, clerk, edits, unseen, synced>>

NoRow == [active |-> FALSE]
Idle == [at |-> "idle"]
Present(table) == {id \in DOMAIN table : table[id] # NoRow}
Active(table) == {id \in DOMAIN table : table[id].active}

PostedSkills == [kind : {"skill"}, row : SkillEdits]
PostedUnits == [kind : {"unit"}, row : UnitEdits]
PostedDocuments == [kind : {"import"}, doc : Documents, whole : BOOLEAN]
Removals == [kind : {"remove"}, id : Unit]
SkillSwitches == [kind : {"switchSkill"}, id : Skill, on : BOOLEAN]
UnitSwitches == [kind : {"switchUnit"}, id : Unit, on : BOOLEAN]
Boots == [kind : {"boot"}, doc : {Seed}]

Request == PostedSkills \union PostedUnits \union PostedDocuments \union Removals
             \union SkillSwitches \union UnitSwitches \union Boots
-----------------------------------------------------------------------------
(* validateDocument: every prerequisite is in the list, the list can be    *)
(* sorted, units teach and need skills of the list.  A list is a function  *)
(* from the skills in it to their prerequisites.                           *)

Resolved(list) == \A s \in DOMAIN list : list[s] \subseteq DOMAIN list

(* topologicalSortSkills: rounds of skills whose prerequisites are out.    *)
Sortable(list) ==
  LET sorted[n \in Nat] ==
        IF n = 0 THEN {} ELSE {s \in DOMAIN list : list[s] \subseteq sorted[n - 1]}
  IN  sorted[Cardinality(DOMAIN list)] = DOMAIN list

OnlyResolved(list, taught) == DOMAIN list # {} /\ Resolved(list) /\ taught \subseteq DOMAIN list
Valid(list, taught) ==
  /\ DOMAIN list # {}
  /\ Resolved(list) /\ Sortable(list)
  /\ taught \subseteq DOMAIN list

ListOf(table) == [s \in Active(table) |-> table[s].needs]
DocumentList(doc) == [s \in {doc.skills[i].id : i \in DOMAIN doc.skills} |->
                        UNION {doc.skills[i].needs : i \in {j \in DOMAIN doc.skills : doc.skills[j].id = s}}]
TaughtBy(rows) == UNION {row.teaches : row \in rows}

(* The posted skill takes its place in the list.                           *)
Beside(list, row) == [s \in DOMAIN list \union {row.id} |-> IF s \in DOMAIN list THEN list[s] ELSE row.needs]
Merged(list, row) == [s \in DOMAIN list \union {row.id} |-> IF s = row.id THEN row.needs ELSE list[s]]

(* mapSkill and mapUnit: what is saved is switched on.                     *)
SkillRow(needs) == [active |-> TRUE, needs |-> needs]
UnitRow(row) == [active |-> TRUE, teaches |-> row.teaches, domain |-> row.domain]
-----------------------------------------------------------------------------
(* ensureDomainRecipes: the domains of the active units as they were read  *)
(* get their recipes, other recipes are retired; without any unit they     *)
(* all stay.                                                               *)
Teaching(table, d) == {u \in Active(table) : table[u].domain = d}
Required(table, d) == TaughtBy({table[u] : u \in Teaching(table, d)})
RecipesOf(table, old) ==
  [d \in Domain |-> IF Teaching(table, d) # {} THEN [active |-> TRUE, required |-> Required(table, d)]
                    ELSE IF old[d] = NoRow THEN NoRow ELSE [old[d] EXCEPT !.active = FALSE]]
NeverRetired(table, old) ==
  [d \in Domain |-> IF Teaching(table, d) # {} THEN [active |-> TRUE, required |-> Required(table, d)] ELSE old[d]]
Renewed(table, old) == RecipesOf(table, old)

(* The service has seeded the tables.                                      *)
Seeded(id) == {row \in Seed.units : row.id = id}
Init ==
  /\ skills = [s \in Skill |-> IF s \in DOMAIN DocumentList(Seed) THEN SkillRow(DocumentList(Seed)[s]) ELSE NoRow]
  /\ units = [u \in Unit |-> IF Seeded(u) = {} THEN NoRow ELSE UnitRow(CHOOSE row \in Seeded(u) : TRUE)]
  /\ recipes = RecipesOf(units, [d \in Domain |-> NoRow])
  /\ listed = {}
  /\ clerk = [c \in Clerk |-> Idle] /\ edits = 0
  /\ unseen = FALSE /\ synced = TRUE

Others(c) == {o \in Clerk \ {c} : clerk[o] # Idle}
Go(c, at) == clerk' = [clerk EXCEPT ![c].at = at]
Done(c) == clerk' = [clerk EXCEPT ![c] = Idle]
Imports(request) == request.kind \in {"import", "boot"}

(* A request: an import that is not valid is refused, the editor of rows   *)
(* asks for the list first.  A start of the service imports the seed when  *)
(* there are no units, else only the recipes are renewed.                  *)
FirstStep(request) ==
  CASE request.kind \in {"skill", "unit"} -> "ask"
    [] request.kind = "import" -> "skills"
    [] request.kind = "boot" -> IF Present(units) = {} THEN "skills" ELSE "recipes"
    [] OTHER -> "change"

Begin(c) ==
  /\ clerk[c] = Idle /\ edits < MaxEdits
  /\ \E request \in Request :
       /\ Imports(request) => Valid(DocumentList(request.doc), TaughtBy(request.doc.units))
       /\ edits' = edits + 1
       /\ clerk' = [o \in Clerk |->
                      IF o = c THEN [at |-> FirstStep(request), asks |-> request, next |-> 1, alone |-> Others(c) = {}]
                      ELSE IF clerk[o] = Idle THEN Idle ELSE [clerk[o] EXCEPT !.alone = FALSE]]
       /\ unseen' = (unseen \/ \E o \in Others(c) : Imports(request) \/ Imports(clerk[o].asks))
  /\ UNCHANGED <<skills, units, recipes, listed, synced>>

(* listActiveSkills: the cached list, else the rows, which it keeps.       *)
AskList(c) ==
  /\ clerk[c].at = "ask"
  /\ LET list == IF listed # {} THEN CHOOSE l \in listed : TRUE ELSE ListOf(skills)
     IN  clerk' = [clerk EXCEPT ![c] = [at |-> IF listed # {} THEN "check" ELSE "keep", asks |-> @.asks,
                                        next |-> 1, alone |-> @.alone, list |-> list]]
  /\ UNCHANGED <<skills, units, recipes, listed, edits, unseen, synced>>

KeepList(c) ==
  /\ clerk[c].at = "keep"
  /\ listed' = {clerk[c].list}
  /\ Go(c, "check")
  /\ UNCHANGED <<skills, units, recipes, edits, unseen, synced>>

(* upsertSkill: saved when the merged list is valid; nobody is told.       *)
SaveSkill(c) ==
  LET row == clerk[c].asks.row
      list == clerk[c].list
  IN  /\ clerk[c].at = "check" /\ clerk[c].asks.kind = "skill"
      /\ IF Valid(Merged(list, row), {})
         THEN /\ skills' = [skills EXCEPT ![row.id] = SkillRow(row.needs)]
              /\ unseen' = (unseen \/ list # ListOf(skills))
         ELSE UNCHANGED <<skills, unseen>>
      /\ Done(c)
      /\ UNCHANGED <<units, recipes, listed, edits, synced>>

(* upsertUnit: the recipes stay as they are.                               *)
SaveUnit(c) ==
  LET row == clerk[c].asks.row
  IN  /\ clerk[c].at = "check" /\ clerk[c].asks.kind = "unit"
      /\ IF Valid(clerk[c].list, row.teaches)
         THEN /\ units' = [units EXCEPT ![row.id] = UnitRow(row)]
              /\ synced' = FALSE
              /\ Go(c, "tell")
         ELSE Done(c) /\ UNCHANGED <<units, synced>>
      /\ UNCHANGED <<skills, recipes, listed, edits, unseen>>

(* importDocument: row by row, then what the document lacks is switched    *)
(* off, from the rows as they were read.                                   *)
ImportSkill(c) ==
  LET rows == clerk[c].asks.doc.skills
      n == clerk[c].next
  IN  /\ clerk[c].at = "skills"
      /\ skills' = [skills EXCEPT ![rows[n].id] = SkillRow(rows[n].needs)]
      /\ clerk' = [clerk EXCEPT ![c].next = n + 1, ![c].at = IF n = Len(rows) THEN "units" ELSE "skills"]
      /\ UNCHANGED <<units, recipes, listed, edits, unseen, synced>>

Whole(request) == request.kind = "import" /\ request.whole
ImportUnits(c) ==
  LET rows == clerk[c].asks.doc.units
  IN  /\ clerk[c].at = "units"
      /\ units' = [u \in Unit |-> IF \E row \in rows : row.id = u
                                  THEN UnitRow(CHOOSE row \in rows : row.id = u) ELSE units[u]]
      /\ synced' = FALSE
      /\ Go(c, IF Whole(clerk[c].asks) THEN "missing" ELSE "recipes")
      /\ UNCHANGED <<skills, recipes, listed, edits, unseen>>

ReadMissing(c) ==
  /\ clerk[c].at = "missing"
  /\ clerk' = [clerk EXCEPT ![c] = [at |-> "off", asks |-> @.asks, next |-> 1, alone |-> @.alone,
                                    skills |-> skills, units |-> units]]
  /\ UNCHANGED <<skills, units, recipes, listed, edits, unseen, synced>>

Off(table, read, kept) ==
  [id \in DOMAIN table |-> IF id \notin kept /\ read[id].active THEN [read[id] EXCEPT !.active = FALSE] ELSE table[id]]
SwitchOffMissing(c) ==
  LET doc == clerk[c].asks.doc
  IN  /\ clerk[c].at = "off"
      /\ skills' = Off(skills, clerk[c].skills, DOMAIN DocumentList(doc))
      /\ units' = Off(units, clerk[c].units, {row.id : row \in doc.units})
      /\ Go(c, "recipes")
      /\ UNCHANGED <<recipes, listed, edits, unseen, synced>>

(* setSkillActive, setUnitActive, removeUnit: one statement each.          *)
SwitchSkill(c) ==
  LET asks == clerk[c].asks
  IN  /\ clerk[c].at = "change" /\ asks.kind = "switchSkill"
      /\ skills' = IF skills[asks.id] = NoRow THEN skills ELSE [skills EXCEPT ![asks.id].active = asks.on]
      /\ Go(c, "tell")
      /\ UNCHANGED <<units, recipes, listed, edits, unseen, synced>>

SwitchUnit(c) ==
  LET asks == clerk[c].asks
  IN  /\ clerk[c].at = "change" /\ asks.kind = "switchUnit"
      /\ units' = IF units[asks.id] = NoRow THEN units ELSE [units EXCEPT ![asks.id].active = asks.on]
      /\ synced' = FALSE
      /\ Go(c, "tell")
      /\ UNCHANGED <<skills, recipes, listed, edits, unseen>>

RemoveUnit(c) ==
  LET asks == clerk[c].asks
  IN  /\ clerk[c].at = "change" /\ asks.kind = "remove"
      /\ units' = [units EXCEPT ![asks.id] = NoRow]
      /\ IF units[asks.id] = NoRow THEN Done(c) /\ UNCHANGED synced
         ELSE Go(c, "recipes") /\ synced' = FALSE
      /\ UNCHANGED <<skills, recipes, listed, edits, unseen>>

ReadUnits(c) ==
  /\ clerk[c].at = "recipes"
  /\ clerk' = [clerk EXCEPT ![c] = [at |-> IF Active(units) = {} THEN "tell" ELSE "write", asks |-> @.asks,
                                    next |-> 1, alone |-> @.alone, units |-> units]]
  /\ UNCHANGED <<skills, units, recipes, listed, edits, unseen, synced>>

WriteRecipes(c) ==
  /\ clerk[c].at = "write"
  /\ recipes' = Renewed(clerk[c].units, recipes)
  /\ Go(c, "tell")
  /\ UNCHANGED <<skills, units, listed, edits, unseen, synced>>

(* notifyCatalogChanged: the cached list goes.  The end of a request that  *)
(* had the catalogue for itself, from its change of units to its recipes.  *)
Renews(request) == request.kind \in {"import", "boot", "remove"}
Tell(c) ==
  /\ clerk[c].at = "tell"
  /\ listed' = {}
  /\ synced' = IF Renews(clerk[c].asks) THEN clerk[c].alone ELSE synced
  /\ Done(c)
  /\ UNCHANGED <<skills, units, recipes, edits, unseen>>

(* The service stops at any point; the copy ends after ten minutes.        *)
Stop(c) ==
  /\ clerk[c] # Idle
  /\ Done(c)
  /\ unseen' = (unseen \/ Imports(clerk[c].asks))
  /\ synced' = (synced /\ ~Renews(clerk[c].asks))
  /\ UNCHANGED <<skills, units, recipes, listed, edits>>

Expire ==
  /\ listed # {} /\ listed' = {}
  /\ UNCHANGED <<skills, units, recipes, clerk, edits, unseen, synced>>

Next ==
  \/ Expire
  \/ \E c \in Clerk :
       \/ Begin(c) \/ AskList(c) \/ KeepList(c) \/ SaveSkill(c) \/ SaveUnit(c)
       \/ ImportSkill(c) \/ ImportUnits(c) \/ ReadMissing(c) \/ SwitchOffMissing(c)
       \/ SwitchSkill(c) \/ SwitchUnit(c) \/ RemoveUnit(c)
       \/ ReadUnits(c) \/ WriteRecipes(c) \/ Tell(c) \/ Stop(c)

Spec == Init /\ [][Next]_catalogVars
-----------------------------------------------------------------------------
(* Rows of skills, units and role_recipes.                                 *)
SkillRows == [active : BOOLEAN, needs : SUBSET Skill]
UnitRows == [active : BOOLEAN, teaches : SUBSET Skill, domain : Domain]
RecipeRows == [active : BOOLEAN, required : SUBSET Skill]

TypeOK ==
  /\ skills \in [Skill -> SkillRows \union {NoRow}]
  /\ units \in [Unit -> UnitRows \union {NoRow}]
  /\ recipes \in [Domain -> RecipeRows \union {NoRow}]
  /\ edits \in 0..MaxEdits
  /\ unseen \in BOOLEAN /\ synced \in BOOLEAN

AtRest == \A c \in Clerk : clerk[c] = Idle
Stored == [s \in Present(skills) |-> skills[s].needs]
Importing == \E c \in Clerk : clerk[c] # Idle /\ Imports(clerk[c].asks)

(* The skills of the catalogue can be sorted, the inactive ones included,  *)
(* so long as each save of a skill has looked at the skills as they are    *)
(* and no import was mixed with other requests or broken off.              *)
SkillsCanBeSorted == ~unseen /\ ~Importing => Sortable(Stored)

(* After an import or a removal that had the catalogue for itself, and as  *)
(* long as units are neither saved nor switched one by one, there is an    *)
(* active recipe for exactly the domains with active units, and it asks    *)
(* for exactly what they teach; when the last unit goes, recipes stay.     *)
RecipesFollowUnits ==
  synced /\ Active(units) # {} =>
    \A d \in Domain :
      IF Teaching(units, d) = {} THEN ~recipes[d].active
      ELSE recipes[d] = [active |-> TRUE, required |-> Required(units, d)]

CatalogAssumption ==
  /\ MaxEdits \in Nat
  /\ \A row \in SkillEdits : row.id \in Skill /\ row.needs \subseteq Skill
  /\ \A row \in UnitEdits : row.id \in Unit /\ row.teaches \subseteq Skill /\ row.domain \in Domain
  /\ \A doc \in Documents \union {Seed} : doc.skills \in Seq([id : Skill, needs : SUBSET Skill])
=============================================================================
