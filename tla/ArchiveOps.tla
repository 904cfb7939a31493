------------------------------- MODULE ArchiveOps -------------------------------
(***************************************************************************)
(* The content of a multi-workspace file and what each store operation     *)
(* makes of it: the `mutate` functions of session/multi_workspace_store.cpp*)
(*                                                                         *)
(* The manifest (archive.json) lists sources with their display names, the *)
(* experiments and the tab order; the groups hold the datasets, each with a*)
(* summary that repeats its name, the experiments and the recipes.  What a *)
(* dataset or an experiment contains is one of `Datas`; of the tab order   *)
(* only the open datasets are kept, of a recipe only its name.             *)
(***************************************************************************)
EXTENDS Naturals, FiniteSets

CONSTANTS
    Sources,        \* ids of embedded datasets
    Names,          \* display names
    OwnName,        \* the name a dataset has when it was never renamed
    Datas,          \* what a dataset or an experiment may contain
    MaxExpId,       \* experiment ids are 1 (for "exp"), 2 (for "exp_2") ...
    Recipes,        \* names of stored recipes
    NoFile,         \* there is no file
    Stale           \* a temporary file that a crash left, whole or not

ASSUME OwnNameAssumption == OwnName \in Names
ASSUME MaxExpIdAssumption == MaxExpId \in Nat

ExpIds == 1 .. MaxExpId

(* Functions on some of the elements of S. *)
Some(S, T) == UNION {[D -> T] : D \in SUBSET S}

Put(f, x, v) == [y \in DOMAIN f \cup {x} |-> IF y = x THEN v ELSE f[y]]

Drop(f, x) == [y \in DOMAIN f \ {x} |-> f[y]]

Groups == [data : Datas, name : Names]

Archives ==
  [ sources     : Some(Sources, Names),     \* manifest: source -> display name
    tabOrder    : SUBSET Sources,           \* manifest: datasets to reopen
    listedExps  : SUBSET ExpIds,            \* manifest: experiments
    groups      : Some(Sources, Groups),    \* sources/<id>, with its @summary
    experiments : Some(ExpIds, Datas),      \* experiments/<id>
    recipes     : SUBSET Recipes ]          \* recipes/<name>

Empty ==
  [ sources |-> [x \in {} |-> OwnName], tabOrder |-> {}, listedExps |-> {},
    groups |-> [x \in {} |-> OwnName], experiments |-> [x \in {} |-> OwnName],
    recipes |-> {} ]

-----------------------------------------------------------------------------
AddSource(c, id, data) ==
  [c EXCEPT !.groups  = Put(@, id, [data |-> data, name |-> OwnName]),
            !.sources = Put(@, id, OwnName)]

RemoveSource(c, id) ==
  [c EXCEPT !.groups = Drop(@, id), !.sources = Drop(@, id)]

(* The summary follows the manifest when the group is there. *)
RenameSource(c, id, name) ==
  [c EXCEPT !.sources[id] = name,
            !.groups = IF id \in DOMAIN @ THEN [@ EXCEPT ![id].name = name] ELSE @]

\* Mutant of SaveSource: the saved dataset gets its own name back
SaveSourceRenames(c, id, data) ==
  [c EXCEPT !.groups = Put(@, id, [data |-> data, name |-> OwnName])]

(* Save-back: the display name comes from the manifest, and only a dataset   *)
(* the manifest does not list falls back to its own.                         *)
SaveSource(c, id, data) ==
  LET name == IF id \in DOMAIN c.sources THEN c.sources[id] ELSE OwnName
  IN  [c EXCEPT !.groups = Put(@, id, [data |-> data, name |-> name])]

SaveTabOrder(c, order) == [c EXCEPT !.tabOrder = order]

ExperimentWrite(c, id, data) ==
  [c EXCEPT !.experiments = Put(@, id, data), !.listedExps = @ \cup {id}]

ExperimentRemove(c, id) ==
  [c EXCEPT !.experiments = Drop(@, id), !.listedExps = @ \ {id}]

RecipeWrite(c, name) == [c EXCEPT !.recipes = @ \cup {name}]

RecipeRemove(c, name) == [c EXCEPT !.recipes = @ \ {name}]

-----------------------------------------------------------------------------
(* The operations, as the callers request them. *)
Operations ==
  [kind : {"create"}]
    \cup [kind : {"addSource", "saveSource"}, id : Sources, data : Datas]
    \cup [kind : {"removeSource"}, id : Sources]
    \cup [kind : {"renameSource"}, id : Sources, name : Names]
    \cup [kind : {"saveTabOrder"}, order : SUBSET Sources]
    \cup [kind : {"experimentWrite"}, id : ExpIds, data : Datas]
    \cup [kind : {"experimentRemove"}, id : ExpIds]
    \cup [kind : {"recipeWrite", "recipeRemove"}, name : Recipes]

(* Renaming a dataset the manifest does not list throws. *)
Throws(o, c) == o.kind = "renameSource" /\ o.id \notin DOMAIN c.sources

(* What the operation makes of the content it finds. *)
Applied(o, c) ==
  CASE o.kind = "create"           -> Empty
    [] o.kind = "addSource"        -> AddSource(c, o.id, o.data)
    [] o.kind = "removeSource"     -> RemoveSource(c, o.id)
    [] o.kind = "renameSource"     -> RenameSource(c, o.id, o.name)
    [] o.kind = "saveSource"       -> SaveSource(c, o.id, o.data)
    [] o.kind = "saveTabOrder"     -> SaveTabOrder(c, o.order)
    [] o.kind = "experimentWrite"  -> ExperimentWrite(c, o.id, o.data)
    [] o.kind = "experimentRemove" -> ExperimentRemove(c, o.id)
    [] o.kind = "recipeWrite"      -> RecipeWrite(c, o.name)
    [] o.kind = "recipeRemove"     -> RecipeRemove(c, o.name)
================================================================================
