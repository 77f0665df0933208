--------------------------- MODULE SkillGraph ---------------------------
(***************************************************************************)
(* The administration of the skill graph                                   *)
(* (src/admin/admin-skill-graph.service.ts): stacks of skills, the         *)
(* prerequisites of a skill, its lessons, and the recipes of roles, which  *)
(* name skills.  Prerequisites and recipes are columns of ids that no      *)
(* foreign key watches; removals scrub them.  Several requests at a time:  *)
(* each reads what it needs and writes later.  The import of a pack, which *)
(* runs in one transaction, is one step.                                   *)
(*                                                                         *)
(* A table is a function from the ids it holds to rows.  An id is made of  *)
(* the id it belongs to, its slug, which is unique there, and how many     *)
(* such rows were removed before.  Titles, tags and texts are left out.    *)
(***************************************************************************)
EXTENDS Naturals, Sequences, FiniteSets, Functions

CONSTANTS
  StackSlug, SkillSlug, LessonSlug,
  Role,
  Packs,        \* packs that may be imported
  Clerk,        \* requests of the administration, one after another
  MaxEdits      \* bound: requests and imports

VARIABLES
  stacks, nodes, lessons,   \* the tables tech_stacks, skill_nodes, lesson_templates
  recipes,      \* of each role, the skills its recipe requires and offers
  removed,      \* the ids of rows that were removed
  clerk,        \* of each request: what it asks for and what it has read
  edits,        \* how many requests there were
  crossed       \* a removal was at work together with another request

graphVars == <<stacks, nodes, lessons, recipes, removed, clerk, edits, crossed>>

Idle == [kind |-> "idle"]
Nothing == [id \in {} |-> 0]
NoRecipe == [version |-> 0, required |-> {}, optional |-> {}]

Root == <<>>
IdOf(parent, slug) == <<parent, slug, Cardinality({id \in removed : id[1] = parent /\ id[2] = slug})>>
Children(table, parents) == {id \in DOMAIN table : id[1] \in parents}
Siblings(table, id) == Children(table, {id[1]}) \ {id}
IsTaken(table, parent, slug) == \E id \in Children(table, {parent}) : id[2] = slug
Put(table, id, row) == [x \in DOMAIN table \union {id} |-> IF x = id THEN row ELSE table[x]]
Without(table, ids) == Restrict(table, DOMAIN table \ ids)

(* The prerequisites a form posts: it may leave them out, and may name a   *)
(* skill that is gone since it was opened.                                 *)
PostedNeeds == {<<>>, <<{}>>} \union {<<{id}>> : id \in DOMAIN nodes \union removed}

Request ==
  [kind : {"createStack"}, slug : StackSlug]
    \union [kind : {"updateStack"}, id : DOMAIN stacks, active : BOOLEAN]
    \union [kind : {"deleteStack"}, id : DOMAIN stacks]
    \union [kind : {"createSkill"}, id : DOMAIN stacks, slug : SkillSlug, needs : SUBSET SkillSlug]
    \union [kind : {"updateSkill"}, id : DOMAIN nodes, posted : PostedNeeds, active : BOOLEAN]
    \union [kind : {"deleteSkill"}, id : DOMAIN nodes]
    \union [kind : {"createLesson"}, id : DOMAIN nodes, slug : LessonSlug]
    \union [kind : {"updateLesson"}, id : DOMAIN lessons, active : BOOLEAN]
    \union [kind : {"deleteLesson"}, id : DOMAIN lessons]

Removal == {"deleteStack", "deleteSkill"}
-----------------------------------------------------------------------------
Init ==
  /\ stacks = Nothing /\ nodes = Nothing /\ lessons = Nothing
  /\ recipes = [r \in Role |-> NoRecipe] /\ removed = {}
  /\ clerk = [c \in Clerk |-> Idle] /\ edits = 0 /\ crossed = FALSE

(* What a request reads before it writes.                                  *)
Begin(c) ==
  /\ clerk[c] = Idle /\ edits < MaxEdits /\ edits' = edits + 1
  /\ \E asks \in Request :
       /\ clerk' = [clerk EXCEPT ![c] = [kind |-> asks.kind, asks |-> asks, stacks |-> stacks,
                                         nodes |-> nodes, lessons |-> lessons, recipes |-> recipes]]
       /\ crossed' = \/ crossed
                     \/ \E o \in Clerk \ {c} : clerk[o] # Idle /\ Removal \intersect {asks.kind, clerk[o].kind} # {}
  /\ UNCHANGED <<stacks, nodes, lessons, recipes, removed>>

Ends(c, kind) == clerk[c].kind = kind /\ clerk' = [clerk EXCEPT ![c] = Idle] /\ UNCHANGED <<edits, crossed>>
Asks(c) == clerk[c].asks

(* The creations are refused when what they belong to is gone or the slug  *)
(* is taken, by the look before or by the index.                           *)
CreateStack(c) ==
  /\ Ends(c, "createStack")
  /\ stacks' = IF IsTaken(stacks, Root, Asks(c).slug) THEN stacks
               ELSE Put(stacks, IdOf(Root, Asks(c).slug), [active |-> TRUE])
  /\ UNCHANGED <<nodes, lessons, recipes, removed>>

(* resolvePrereqSlugs: slugs that the stack does not have are dropped.     *)
ResolvedSlugs(table, stack, slugs) == {id \in Children(table, {stack}) : id[2] \in slugs}
CreateSkill(c) ==
  LET asks == Asks(c)
  IN  /\ Ends(c, "createSkill")
      /\ nodes' = IF asks.id \notin DOMAIN stacks \/ IsTaken(nodes, asks.id, asks.slug) THEN nodes
                  ELSE Put(nodes, IdOf(asks.id, asks.slug),
                           [active |-> TRUE, needs |-> ResolvedSlugs(clerk[c].nodes, asks.id, asks.needs)])
      /\ UNCHANGED <<stacks, lessons, recipes, removed>>

CreateLesson(c) ==
  LET asks == Asks(c)
  IN  /\ Ends(c, "createLesson")
      /\ lessons' = IF asks.id \notin DOMAIN nodes \/ IsTaken(lessons, asks.id, asks.slug) THEN lessons
                    ELSE Put(lessons, IdOf(asks.id, asks.slug), [active |-> TRUE])
      /\ UNCHANGED <<stacks, nodes, recipes, removed>>

(* An update saves the row as it was read, with its changes: it inserts a  *)
(* row that was removed since, if what it belongs to is still there and    *)
(* the slug is free.                                                       *)
IsFree(table, id) == \A other \in Siblings(table, id) : other[2] # id[2]
UpdateStack(c) ==
  /\ Ends(c, "updateStack")
  /\ stacks' = IF IsFree(stacks, Asks(c).id) THEN Put(stacks, Asks(c).id, [active |-> Asks(c).active]) ELSE stacks
  /\ UNCHANGED <<nodes, lessons, recipes, removed>>

AnySkills(table, id, ids) == ids \ {id}
AllowedNeeds(table, id, ids) == ids \intersect Siblings(table, id)
UpdateSkill(c) ==
  LET asks == Asks(c)
      read == clerk[c].nodes
      row == [active |-> asks.active,
              needs |-> IF asks.posted = <<>> THEN read[asks.id].needs ELSE AllowedNeeds(read, asks.id, asks.posted[1])]
      fits == asks.id[1] \in DOMAIN stacks /\ IsFree(nodes, asks.id)
  IN  /\ Ends(c, "updateSkill")
      /\ nodes' = IF fits THEN Put(nodes, asks.id, row) ELSE nodes
      /\ UNCHANGED <<stacks, lessons, recipes, removed>>

UpdateLesson(c) ==
  LET asks == Asks(c)
      fits == asks.id[1] \in DOMAIN nodes /\ IsFree(lessons, asks.id)
  IN  /\ Ends(c, "updateLesson")
      /\ lessons' = IF fits THEN Put(lessons, asks.id, [active |-> asks.active]) ELSE lessons
      /\ UNCHANGED <<stacks, nodes, recipes, removed>>

DeleteLesson(c) ==
  /\ Ends(c, "deleteLesson")
  /\ lessons' = Without(lessons, {Asks(c).id})
  /\ removed' = removed \union {Asks(c).id}
  /\ UNCHANGED <<stacks, nodes, recipes>>

(* scrubSkillRefs, scrubRecipeSkillIds: the columns that name a removed    *)
(* skill are written as they were read, without it.                        *)
ScrubbedNodes(ids, read) ==
  [n \in DOMAIN nodes |-> IF n \in DOMAIN read /\ read[n].needs \intersect ids # {}
                          THEN [nodes[n] EXCEPT !.needs = read[n].needs \ ids] ELSE nodes[n]]
RequiredOnly(ids, read) ==
  [r \in Role |-> IF read[r].required \intersect ids # {} THEN [read[r] EXCEPT !.required = @ \ ids] ELSE recipes[r]]
ScrubbedRecipes(ids, read) ==
  [r \in Role |-> IF (read[r].required \union read[r].optional) \intersect ids # {}
                  THEN [read[r] EXCEPT !.required = @ \ ids, !.optional = @ \ ids] ELSE recipes[r]]

(* The rows below a removed one go with it.                                *)
DeleteSkill(c) ==
  LET id == Asks(c).id
      below == Children(lessons, {id})
  IN  /\ Ends(c, "deleteSkill")
      /\ nodes' = Without(ScrubbedNodes({id}, clerk[c].nodes), {id})
      /\ recipes' = ScrubbedRecipes({id}, clerk[c].recipes)
      /\ lessons' = Without(lessons, below)
      /\ removed' = removed \union {id} \union below
      /\ UNCHANGED stacks

Unread(read, stack) == {}
SkillsOf(read, stack) == Children(read, {stack})
DeleteStack(c) ==
  LET id == Asks(c).id
      gone == Children(nodes, {id})
      below == Children(lessons, gone)
      scrubbed == SkillsOf(clerk[c].nodes, id)
  IN  /\ Ends(c, "deleteStack")
      /\ stacks' = Without(stacks, {id})
      /\ nodes' = Without(ScrubbedNodes(scrubbed, clerk[c].nodes), gone)
      /\ recipes' = ScrubbedRecipes(scrubbed, clerk[c].recipes)
      /\ lessons' = Without(lessons, below)
      /\ removed' = removed \union {id} \union gone \union below
-----------------------------------------------------------------------------
(* importCatalogJson: of a stack, its skills with what they need (also of  *)
(* other stacks), a lesson of each, and a recipe that takes all skills of  *)
(* the stack.  What is there is updated if that is wished, the rest        *)
(* inserted; needs are written whenever the pack names any.                *)
PackStack(pack) == IdOf(Root, pack.stack)
PackNode(pack, slug) == IdOf(PackStack(pack), slug)
PackNodes(pack) == {PackNode(pack, slug) : slug \in DOMAIN pack.needs}
PackLessons(pack) == {IdOf(n, CHOOSE l \in LessonSlug : TRUE) : n \in PackNodes(pack)}

Refreshed(table, ids, overwrite) ==
  [id \in DOMAIN table \union ids |->
     IF id \notin DOMAIN table THEN [active |-> TRUE]
     ELSE IF id \in ids /\ overwrite THEN [table[id] EXCEPT !.active = TRUE] ELSE table[id]]

PackNeeds(pack, slug, present) == {id \in present : <<id[1][2], id[2]>> \in pack.needs[slug]}
ImportedNodes(pack, overwrite) ==
  LET table == Refreshed(nodes, PackNodes(pack), overwrite)
  IN  [id \in DOMAIN table |->
         [active |-> table[id].active,
          needs |-> IF id \in PackNodes(pack) /\ pack.needs[id[2]] # {} THEN PackNeeds(pack, id[2], DOMAIN table)
                    ELSE IF id \in DOMAIN nodes THEN nodes[id].needs ELSE {}]]

ImportedRecipe(pack, old, overwrite, ids) ==
  IF old.version > 0 /\ ~overwrite THEN old
  ELSE [version |-> old.version + 1, required |-> IF pack.required THEN ids ELSE {},
        optional |-> IF pack.required THEN {} ELSE ids]

Import ==
  /\ edits < MaxEdits /\ edits' = edits + 1
  /\ \E pack \in Packs, overwrite \in BOOLEAN :
       /\ stacks' = Refreshed(stacks, {PackStack(pack)}, overwrite)
       /\ nodes' = ImportedNodes(pack, overwrite)
       /\ lessons' = Refreshed(lessons, PackLessons(pack), overwrite)
       /\ recipes' = [recipes EXCEPT ![pack.role] =
                        ImportedRecipe(pack, @, overwrite, Children(nodes', {PackStack(pack)}))]
  /\ crossed' = (crossed \/ \E c \in Clerk : clerk[c].kind \in Removal)
  /\ UNCHANGED <<removed, clerk>>

(* wipeLearningData, at a start that is told to.                           *)
Wipe ==
  /\ \A c \in Clerk : clerk[c] = Idle
  /\ stacks' = Nothing /\ nodes' = Nothing /\ lessons' = Nothing
  /\ recipes' = [r \in Role |-> NoRecipe]
  /\ removed' = removed \union DOMAIN stacks \union DOMAIN nodes \union DOMAIN lessons
  /\ UNCHANGED <<clerk, edits, crossed>>

Next ==
  \/ Import \/ Wipe
  \/ \E c \in Clerk :
       \/ Begin(c) \/ CreateStack(c) \/ CreateSkill(c) \/ CreateLesson(c)
       \/ UpdateStack(c) \/ UpdateSkill(c) \/ UpdateLesson(c)
       \/ DeleteLesson(c) \/ DeleteSkill(c) \/ DeleteStack(c)

Spec == Init /\ [][Next]_graphVars
-----------------------------------------------------------------------------
(* Rows of tech_stacks and lesson_templates, of skill_nodes and recipes.   *)
StackRow == [active : BOOLEAN]
LessonRow == [active : BOOLEAN]
NodeRow == [active : BOOLEAN, needs : SUBSET (DOMAIN nodes \union removed)]
RecipeRow == [version : Nat, required : SUBSET (DOMAIN nodes \union removed),
              optional : SUBSET (DOMAIN nodes \union removed)]

TypeOK ==
  /\ Range(stacks) \subseteq StackRow /\ Range(lessons) \subseteq LessonRow
  /\ Range(nodes) \subseteq NodeRow /\ Range(recipes) \subseteq RecipeRow
  /\ edits \in 0..MaxEdits /\ crossed \in BOOLEAN

(* What prerequisites and recipes name is there, so long as no removal ran *)
(* together with something else: creations, updates and imports may        *)
(* overlap as they like.  Skills may need each other in a circle.          *)
NamesResolve ==
  ~crossed =>
    /\ \A n \in DOMAIN nodes : nodes[n].needs \subseteq DOMAIN nodes
    /\ \A r \in Role : recipes[r].required \union recipes[r].optional \subseteq DOMAIN nodes

GraphAssumption ==
  /\ MaxEdits \in Nat
  /\ \A pack \in Packs : /\ pack.stack \in StackSlug /\ pack.role \in Role
                         /\ \A slug \in DOMAIN pack.needs : slug \in SkillSlug /\ pack.needs[slug] \subseteq StackSlug \X SkillSlug
=============================================================================
