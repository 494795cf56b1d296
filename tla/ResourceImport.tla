--------------------------- MODULE ResourceImport ---------------------------
(***************************************************************************)
(* Importing types, plugins and entrypoints from an archive or a git       *)
(* repository, in the order of its configuration and under a strategy for  *)
(* names that are taken: fail, update what is there, or delete it first.   *)
(*                                                                         *)
(* The import calls the services of the resources in one session and       *)
(* commits at its end; but the services that delete, and the two that      *)
(* append plugins to an entrypoint, commit what is pending themselves.     *)
(* Others commit in between.  The contents of files, and what a job does   *)
(* with a pinned snapshot (EntrypointLinks), are left out.                 *)
(***************************************************************************)
EXTENDS Naturals, Sequences, FiniteSets

CONSTANTS
  MaxId,        \* bound: resources in the database and in the sessions
  Keys,         \* kind and name of a resource: [kind, name]
  Configs,      \* the configurations to import: sequences of items
  Workers,      \* worker processes of the REST API
  MaxImports,   \* bound: imports begun in one behaviour
  MaxOthers,    \* bound: resources that others create or delete
  None

Ids == 1..MaxId
Strategies == {"fail", "update", "overwrite"}

\* An item names the keys it uses: the types of a plugin, the plugins and the
\* artifact plugins of an entrypoint.
Item == [key : Keys, uses : SUBSET Keys, artifacts : SUBSET Keys]
ASSUME KeysAssumption == \A k \in Keys : k.kind \in {"type", "plugin", "entrypoint"}
ASSUME ConfigsAssumption == Configs \subseteq Seq(Item)

\* The types are imported first, then the plugins, then the entrypoints.
Below(kind) ==
  CASE kind = "type" -> {}
    [] kind = "plugin" -> {"type"}
    [] kind = "entrypoint" -> {"type", "plugin"}
ASSUME OrderAssumption ==
  \A c \in Configs : \A n \in 1..Len(c) :
    /\ \A k \in c[n].uses \cup c[n].artifacts : k.kind \in Below(c[n].key.kind)
    /\ \A p \in n..Len(c) : c[p].key.kind \notin Below(c[n].key.kind)
    /\ c[n].key.kind # "entrypoint" => c[n].artifacts = {}
ASSUME BoundsAssumption ==
  MaxId \in Nat /\ MaxImports \in Nat /\ MaxOthers \in Nat

VARIABLES
  res,        \* the committed resources, None when there is none
  import,     \* the import each worker is serving, None when idle
  begun, others

vars == <<res, import, begun, others>>

\* "whole": all the files of the plugin are registered.
Row == [key : Keys, uses : SUBSET Ids, whole : BOOLEAN]
Resource == [row : Row, deleted : BOOLEAN]
Import ==
  [strategy : Strategies, config : Configs, at : Nat,
   step : {"look", "delete", "write", "files", "append", "append_artifacts"},
   found : Ids \cup {None},              \* what has the name of the item
   pending : [Ids -> Row \cup {None}],   \* flushed and not committed
   made : [Keys -> Ids \cup {None}],     \* the dictionaries of the import
   had : SUBSET Keys,                    \* history: what there was when it began
   disturbed : BOOLEAN]                  \* history: others committed meanwhile
ASSUME RecordAssumption ==
  None \notin Ids /\ None \notin Row /\ None \notin Resource /\ None \notin Import

TypeOK ==
  /\ res \in [Ids -> Resource \cup {None}]
  /\ import \in [Workers -> Import \cup {None}]
  /\ begun \in Nat /\ others \in Nat

Init ==
  /\ res = [i \in Ids |-> None]
  /\ import = [w \in Workers |-> None]
  /\ begun = 0 /\ others = 0

-----------------------------------------------------------------------------
(* What the session of an import sees: its own rows and committed ones     *)

NothingPending == [i \in Ids |-> None]
Live(i) == res[i] # None /\ ~res[i].deleted
Seen(m, i) ==
  IF res[i] = None THEN m.pending[i] # None ELSE ~res[i].deleted
RowOf(m, i) == IF m.pending[i] # None THEN m.pending[i] ELSE res[i].row
Named(m, k) == {i \in Ids : Seen(m, i) /\ RowOf(m, i).key = k}

\* Ids are only names: the smallest free one stands for what the sequence of
\* the database hands out.
FreeIds ==
  {i \in Ids : res[i] = None /\ \A w \in Workers :
                 import[w] # None => import[w].pending[i] = None}
IsNewId(i) == i \in FreeIds /\ \A j \in FreeIds : i <= j

Current(m) == m.config[m.at]
Serving(w, step) ==
  import[w] # None /\ import[w].at <= Len(import[w].config) /\ import[w].step = step

\* What res becomes when everything pending of the import is committed.
Committed(m) ==
  [i \in Ids |->
    IF m.pending[i] = None THEN res[i]
    ELSE [row |-> m.pending[i], deleted |-> res[i] # None /\ res[i].deleted]]

\* The import of w goes on as m; a commit disturbs the other imports.
GoOn(w, m) ==
  import' = [v \in Workers |->
    IF v = w THEN m
    ELSE IF import[v] # None /\ res' # res THEN [import[v] EXCEPT !.disturbed = TRUE]
    ELSE import[v]]

NextItem(m) == [m EXCEPT !.at = @ + 1, !.step = "look", !.found = None]

-----------------------------------------------------------------------------
(* The import                                                              *)

Begin(w, strategy, config) ==
  /\ import[w] = None
  /\ begun < MaxImports
  /\ begun' = begun + 1
  /\ import' = [import EXCEPT ![w] =
       [strategy |-> strategy, config |-> config, at |-> 1, step |-> "look",
        found |-> None, pending |-> NothingPending,
        made |-> [k \in Keys |-> None],
        had |-> {res[i].row.key : i \in {j \in Ids : Live(j)}}, disturbed |-> FALSE]]
  /\ UNCHANGED <<res, others>>

\* Any step may raise: a file is missing or not valid, tasks or parameters
\* share a name, a service refuses.  The session is rolled back.
Fail(w) ==
  /\ import[w] # None /\ import[w].at <= Len(import[w].config)
  /\ import' = [import EXCEPT ![w] = None]
  /\ UNCHANGED <<res, begun, others>>

\* Under "fail" nothing is looked up: create() refuses a name that is taken.
Look(w) ==
  /\ Serving(w, "look")
  /\ LET m == import[w]
         same == Named(m, Current(m).key)
     IN IF m.strategy = "fail" \/ same = {}
        THEN import' = [import EXCEPT ![w].step = "write"]
        ELSE \E i \in same :
               import' = [import EXCEPT
                 ![w].found = i,
                 ![w].step = IF m.strategy = "update" THEN "write" ELSE "delete"]
  /\ UNCHANGED <<res, begun, others>>

\* Mutant: the deletion is committed alone.
DeleteApart(w) ==
  /\ Serving(w, "delete")
  /\ LET m == import[w] IN
     /\ res[m.found] # None /\ Live(m.found)
     /\ res' = [res EXCEPT ![m.found].deleted = TRUE]
     /\ GoOn(w, [m EXCEPT !.found = None, !.step = "write"])
  /\ UNCHANGED <<begun, others>>

\* The service deletes and commits, with everything that is pending.  What
\* is gone by now is no error for a type; the others raise (Fail).
Delete(w) ==
  /\ Serving(w, "delete")
  /\ LET m == import[w] IN
     /\ Current(m).key.kind = "type" \/ Seen(m, m.found)
     /\ res' = [Committed(m) EXCEPT ![m.found].deleted = TRUE]
     /\ GoOn(w, [m EXCEPT !.pending = NothingPending, !.found = None, !.step = "write"])
  /\ UNCHANGED <<begun, others>>

Resolved(m, keys) == {m.made[k] : k \in keys}
Declared(m) ==
  \A k \in Current(m).uses \cup Current(m).artifacts : m.made[k] # None

\* The step after the row of an item is written.
StepAfter(m, kind) ==
  CASE kind = "plugin" -> "files"
    [] kind = "entrypoint" /\ m.found # None -> "append"
    [] OTHER -> "look"

WithRow(m, i, row) ==
  LET n == [m EXCEPT !.pending[i] = row, !.made[row.key] = i,
                     !.step = StepAfter(m, row.key.kind)]
  IN IF n.step = "look" THEN NextItem(n) ELSE n

\* Mutant: the services commit what they write.
WriteRowAndCommit(w, i, row) ==
  LET n == WithRow(import[w], i, row)
  IN res' = Committed(n) /\ GoOn(w, [n EXCEPT !.pending = NothingPending])

WriteRow(w, i, row) ==
  import' = [import EXCEPT ![w] = WithRow(import[w], i, row)] /\ UNCHANGED res

\* The service's create(), which refuses a name that is taken.
Create(w) ==
  /\ Serving(w, "write") /\ import[w].found = None
  /\ Declared(import[w])
  /\ LET m == import[w]
         item == Current(m)
     IN /\ Named(m, item.key) = {}
        /\ \E i \in Ids : IsNewId(i) /\
             WriteRow(w, i,
               [key |-> item.key,
                uses |-> IF item.key.kind = "entrypoint"
                         THEN Resolved(m, item.uses \cup item.artifacts) ELSE {},
                whole |-> item.key.kind # "plugin"])
  /\ UNCHANGED <<begun, others>>

\* The service's modify(): a plugin keeps its files and an entrypoint its
\* plugins; what is gone by now is refused (Fail).
Modify(w) ==
  /\ Serving(w, "write") /\ import[w].found # None
  /\ Declared(import[w])
  /\ LET m == import[w] IN
     /\ Seen(m, m.found)
     /\ WriteRow(w, m.found, [RowOf(m, m.found) EXCEPT
          !.whole = Current(m).key.kind # "plugin"])
  /\ UNCHANGED <<begun, others>>

\* Mutant: the services that write files commit.
RegisterFilesAndCommit(w) ==
  /\ Serving(w, "files")
  /\ LET m == import[w]
         i == m.made[Current(m).key]
         n == [m EXCEPT !.pending[i].whole = TRUE,
                        !.pending[i].uses = @ \cup Resolved(m, Current(m).uses)]
     IN /\ res' = Committed(n)
        /\ GoOn(w, NextItem([n EXCEPT !.pending = NothingPending]))
  /\ UNCHANGED <<begun, others>>

\* The files of the plugin, with their tasks, are created or modified.
RegisterFiles(w) ==
  /\ Serving(w, "files")
  /\ LET m == import[w]
         i == m.made[Current(m).key]
     IN import' = [import EXCEPT ![w] =
          NextItem([m EXCEPT !.pending[i].whole = TRUE,
                             !.pending[i].uses = @ \cup Resolved(m, Current(m).uses)])]
  /\ UNCHANGED <<res, begun, others>>

\* The row of the entrypoint, with the plugins of these names appended.
Appended(m, keys) ==
  [m EXCEPT !.pending[m.found] =
    [RowOf(m, m.found) EXCEPT !.uses = @ \cup Resolved(m, keys)]]

\* Two services append plugins to an entrypoint that is there, and commit.
AppendTo(m, keys) ==
  /\ Seen(m, m.found) /\ \A i \in Resolved(m, keys) : Seen(m, i)
  /\ res' = Committed(Appended(m, keys))

AppendPlugins(w) ==
  /\ Serving(w, "append")
  /\ LET m == import[w] IN
     /\ AppendTo(m, Current(m).uses)
     /\ GoOn(w, [m EXCEPT !.pending = NothingPending, !.step = "append_artifacts"])
  /\ UNCHANGED <<begun, others>>

\* Mutant: the artifact plugins are not appended.
AppendNoArtifacts(w) ==
  /\ Serving(w, "append_artifacts")
  /\ LET m == import[w] IN
     /\ AppendTo(m, {})
     /\ GoOn(w, NextItem([m EXCEPT !.pending = NothingPending]))
  /\ UNCHANGED <<begun, others>>

AppendArtifactPlugins(w) ==
  /\ Serving(w, "append_artifacts")
  /\ LET m == import[w] IN
     /\ AppendTo(m, Current(m).artifacts)
     /\ GoOn(w, NextItem([m EXCEPT !.pending = NothingPending]))
  /\ UNCHANGED <<begun, others>>

Finish(w) ==
  /\ import[w] # None /\ import[w].at > Len(import[w].config)
  /\ res' = Committed(import[w])
  /\ GoOn(w, None)
  /\ UNCHANGED <<begun, others>>

-----------------------------------------------------------------------------
(* Other requests, in one step each                                        *)

Other ==
  /\ others < MaxOthers
  /\ others' = others + 1
  /\ import' = [w \in Workers |->
       IF import[w] = None THEN None ELSE [import[w] EXCEPT !.disturbed = TRUE]]
  /\ UNCHANGED begun

OtherCreates(i, k) ==
  /\ IsNewId(i)
  /\ \A j \in Ids : Live(j) => res[j].row.key # k
  /\ res' = [res EXCEPT ![i] =
       [row |-> [key |-> k, uses |-> {}, whole |-> TRUE], deleted |-> FALSE]]
  /\ Other

OtherDeletes(i) ==
  /\ Live(i)
  /\ res' = [res EXCEPT ![i].deleted = TRUE]
  /\ Other

Next ==
  \/ \E w \in Workers :
       \/ \E strategy \in Strategies, config \in Configs : Begin(w, strategy, config)
       \/ Fail(w) \/ Look(w) \/ Delete(w) \/ Create(w) \/ Modify(w) \/ RegisterFiles(w)
       \/ AppendPlugins(w) \/ AppendArtifactPlugins(w) \/ Finish(w)
  \/ \E i \in Ids : OtherDeletes(i) \/ \E k \in Keys : OtherCreates(i, k)

Spec == Init /\ [][Next]_vars

-----------------------------------------------------------------------------
(* Properties                                                              *)

\* Every plugin in the database has all the files of its import, also when
\* the import failed: the commits in its middle fall between the plugins.
PluginsAreCommittedWhole == \A i \in Ids : res[i] # None => res[i].row.whole

Completes(w) ==
  /\ import[w] # None /\ import[w].at > Len(import[w].config)
  /\ import'[w] = None
Advances(w) ==
  /\ import[w] # None
  /\ \/ import'[w] = None
     \/ <<import'[w].at, import'[w].step>> # <<import[w].at, import[w].step>>

\* An import under "fail" writes everything when it completes or nothing:
\* a name clash, however late, leaves no trace in the database.
FailImportsAllOrNothing ==
  [][\A w \in Workers :
       Advances(w) /\ import[w].strategy = "fail" /\ res' # res => Completes(w)]_vars

Delivered(m, item) ==
  LET i == m.made[item.key] IN
  /\ res'[i] # None /\ ~res'[i].deleted
  /\ Resolved(m, item.uses \cup item.artifacts) \subseteq res'[i].row.uses
  /\ \A j \in Resolved(m, item.uses \cup item.artifacts) : ~res'[j].deleted

\* Two plugins of a configuration may have one name, at different paths, and
\* types are not compared at all: the last item of a name is what lasts.
Lasting(c, n) == \A p \in (n + 1)..Len(c) : c[p].key # c[n].key

\* When an import completes that nobody disturbed, the last item of each name
\* is a live resource and uses what the import made of the names it gives, live
\* as well, whatever was there before and whatever the strategy did with it.
ImportsDeliver ==
  [][\A w \in Workers : Completes(w) /\ ~import[w].disturbed =>
       \A n \in 1..Len(import[w].config) : Lasting(import[w].config, n) =>
         Delivered(import[w], import[w].config[n])]_vars

Lost(m) ==
  {k \in m.had : /\ \E n \in 1..Len(m.config) : m.config[n].key = k
                 /\ \A i \in Ids : res'[i] # None /\ res'[i].row.key = k => res'[i].deleted}

\* An import that fails, and that nobody disturbed, leaves at most one name of
\* its configuration without the resource it had: each deletion commits what
\* replaces the one before it.
FailuresLoseAtMostOne ==
  [][\A w \in Workers :
       import[w] # None /\ import'[w] = None /\ ~import[w].disturbed =>
         Cardinality(Lost(import[w])) <= 1]_vars
=============================================================================
