-------------------------- MODULE EntrypointLinks --------------------------
(***************************************************************************)
(* What hangs together in a run: experiments link entrypoints, entrypoints *)
(* link queues and plugins, every snapshot of an entrypoint pins versions  *)
(* of plugins (for tasks or for artifacts), and a job is registered for an *)
(* experiment, an entrypoint and a queue.                                  *)
(*                                                                         *)
(* Links are rows of resource_dependencies and belong to the resource, not *)
(* to a snapshot.  A request loads the links of a parent and the commit    *)
(* deletes and inserts the rows in which the list it wants differs from    *)
(* the list it loaded; another worker may commit in between.               *)
(***************************************************************************)
EXTENDS Naturals, FiniteSets

CONSTANTS
  Experiments, Entrypoints, Queues, Plugins,   \* resource ids
  Workers,          \* worker processes of the REST API
  MaxRequests,      \* bound: requests received in one behaviour
  None

Ids == Experiments \cup Entrypoints \cup Queues \cup Plugins
ASSUME IdsAssumption ==
  /\ Experiments \cap Entrypoints = {} /\ Experiments \cap Queues = {}
  /\ Experiments \cap Plugins = {} /\ Entrypoints \cap Queues = {}
  /\ Entrypoints \cap Plugins = {} /\ Queues \cap Plugins = {}
  /\ None \notin Ids
ASSUME BoundAssumption == MaxRequests \in Nat

VARIABLES
  created,     \* experiments and entrypoints that exist
  deleted,     \* resources with a delete lock
  version,     \* the latest snapshot of each plugin
  snapshots,   \* the snapshots of each entrypoint
  linked,      \* rows of resource_dependencies: parent and child
  jobs,        \* jobs registered
  request,     \* what each worker is serving, None when idle
  clock, received,
  overlapped   \* history: parents with two requests served at a time

vars == <<created, deleted, version, snapshots, linked, jobs, request, clock,
          received, overlapped>>

Roles == {"task", "artifact"}
Pin == [role : Roles, plugin : Plugins, version : Nat]
Snapshot == [pins : SUBSET Pin, at : Nat]
Given == [role : Roles \cup {"queue", "entrypoint"}, id : Ids]
Job == [experiment : Experiments, entrypoint : Entrypoints, queue : Queues,
        snapshot : Snapshot]

\* Operations on an entrypoint that write a snapshot, and that do not.
Rewriting == {"modify", "append_plugins", "remove_plugin"}
Relinking == {"append_queues", "set_queues", "clear_queues", "unlink_queue"}
\* Operations on an experiment.
Grouping == {"set_entrypoints", "append_entrypoints", "clear_entrypoints",
             "unlink_entrypoint"}
Request ==
  [op : Rewriting \cup Relinking \cup Grouping \cup {"create", "delete", "run"},
   on : Experiments \cup Entrypoints,
   given : SUBSET Given,           \* what the body of the request lists
   seen : Snapshot \cup {None},    \* the snapshot of the entrypoint it read
   loaded : SUBSET Ids,            \* the children it loaded
   wanted : SUBSET Ids,            \* the children it is to have
   built : Snapshot \cup {None},   \* the snapshot it writes
   phase : {"received", "loaded", "built"}]
ASSUME RecordAssumption == None \notin Snapshot /\ None \notin Request

TypeOK ==
  /\ created \in SUBSET (Experiments \cup Entrypoints)
  /\ deleted \in SUBSET Ids
  /\ version \in [Plugins -> Nat]
  /\ snapshots \in [Entrypoints -> SUBSET Snapshot]
  /\ linked \in SUBSET ((Experiments \cup Entrypoints) \X Ids)
  /\ jobs \in SUBSET Job
  /\ request \in [Workers -> Request \cup {None}]
  /\ clock \in Nat /\ received \in Nat
  /\ overlapped \in SUBSET (Experiments \cup Entrypoints)

\* Queues and plugins exist.
Init ==
  /\ created = {}
  /\ deleted = {}
  /\ version = [p \in Plugins |-> 1]
  /\ snapshots = [e \in Entrypoints |-> {}]
  /\ linked = {} /\ jobs = {}
  /\ request = [w \in Workers |-> None]
  /\ clock = 0 /\ received = 0
  /\ overlapped = {}

-----------------------------------------------------------------------------
(* What a query sees                                                       *)

Live == (created \cup Queues \cup Plugins) \ deleted
Children(r) == {c \in Ids : <<r, c>> \in linked}

Latest(e) == CHOOSE s \in snapshots[e] : \A t \in snapshots[e] : t.at <= s.at
Listed(given, roles) == {g.id : g \in {h \in given : h.role \in roles}}
PinnedBy(s) == {n.plugin : n \in s.pins}
Serving(w, phases) == request[w] # None /\ request[w].phase \in phases

-----------------------------------------------------------------------------
(* Receiving a request                                                     *)

Order(op, r, given) ==
  [op |-> op, on |-> r, given |-> given,
   seen |-> IF r \in Entrypoints /\ snapshots[r] # {} THEN Latest(r) ELSE None,
   loaded |-> {}, wanted |-> {}, built |-> None, phase |-> "received"]

Answered(w) == request' = [request EXCEPT ![w] = None]

\* A parent that is not found is refused here and leaves no trace.
Receive(w, q) ==
  /\ request[w] = None
  /\ received < MaxRequests
  /\ received' = received + 1
  /\ request' = [request EXCEPT ![w] = q]
  /\ overlapped' = IF \E v \in Workers : request[v] # None /\ request[v].on = q.on
                   THEN overlapped \cup {q.on} ELSE overlapped
  /\ UNCHANGED <<created, deleted, version, snapshots, linked, jobs, clock>>

QueueLists == {{[role |-> "queue", id |-> q] : q \in S} : S \in SUBSET Queues}
EntrypointLists ==
  {{[role |-> "entrypoint", id |-> e] : e \in S} : S \in SUBSET Entrypoints}
PluginLists(roles) ==
  SUBSET {g \in Given : g.role \in roles /\ g.id \in Plugins}

CreateEntrypoint(w, e) ==
  /\ e \in Entrypoints \ created
  /\ ~\E v \in Workers : request[v] # None /\ request[v].on = e
  /\ \E pins \in PluginLists(Roles), queues \in QueueLists :
       Receive(w, Order("create", e, pins \cup queues))

CreateExperiment(w, x) ==
  /\ x \in Experiments \ created
  /\ ~\E v \in Workers : request[v] # None /\ request[v].on = x
  /\ \E list \in EntrypointLists : Receive(w, Order("create", x, list))

ChangeEntrypoint(w, e) ==
  /\ e \in Live
  /\ \/ \E list \in QueueLists, op \in {"modify", "set_queues", "append_queues"} :
          Receive(w, Order(op, e, list))
     \/ \E role \in Roles : \E list \in PluginLists({role}) :
          list # {} /\ Receive(w, Order("append_plugins", e, list))
     \/ \E n \in Latest(e).pins :
          Receive(w, Order("remove_plugin", e, {[role |-> n.role, id |-> n.plugin]}))
     \/ \E q \in Queues :
          Receive(w, Order("unlink_queue", e, {[role |-> "queue", id |-> q]}))
     \/ \E op \in {"clear_queues", "delete"} : Receive(w, Order(op, e, {}))

\* modify() of an experiment sets the list as set_entrypoints() does; its
\* name and description are left to ResourceStore.  Entrypoints that are
\* not found are refused here; one to unlink may be deleted.
ChangeExperiment(w, x) ==
  /\ x \in Live
  /\ \/ \E list \in EntrypointLists, op \in {"set_entrypoints", "append_entrypoints"} :
          /\ Listed(list, {"entrypoint"}) \subseteq Live
          /\ Receive(w, Order(op, x, list))
     \/ \E e \in Entrypoints \cap created :
          Receive(w, Order("unlink_entrypoint", x, {[role |-> "entrypoint", id |-> e]}))
     \/ \E op \in {"clear_entrypoints", "delete"} : Receive(w, Order(op, x, {}))

\* Mutant: the entrypoint may be any with that queue.
MayRunAnyEntrypoint(x, e, q) ==
  /\ x \in Live
  /\ \E d \in Entrypoints : <<x, d>> \in linked /\ <<d, q>> \in linked

\* JobService.create(): the entrypoint is linked to the experiment and the
\* queue to some entrypoint of the experiment, deleted ones included.
MayRun(x, e, q) ==
  /\ x \in Live
  /\ <<x, e>> \in linked
  /\ \E d \in Entrypoints : <<x, d>> \in linked /\ <<d, q>> \in linked

RunEntrypoint(w, x) ==
  \E e \in Entrypoints, q \in Queues :
    /\ MayRun(x, e, q)
    /\ Receive(w, Order("run", x, {[role |-> "entrypoint", id |-> e],
                                   [role |-> "queue", id |-> q]}))

-----------------------------------------------------------------------------
(* Loading the children of the parent                                      *)

LoadEntrypoint(w) ==
  /\ Serving(w, {"received"})
  /\ request[w].op \in Rewriting \cup Relinking
  /\ LET q == request[w]
         children == Children(q.on) IN
     IF q.op = "unlink_queue" /\ Listed(q.given, {"queue"}) \cap children = {}
     THEN Answered(w)
     ELSE request' = [request EXCEPT ![w].phase = "loaded", ![w].loaded = children]
  /\ UNCHANGED <<created, deleted, version, snapshots, linked, jobs, clock,
                 received, overlapped>>

\* set_resource_children(), append_resource_children(), unlink_child() and
\* the assignment of an empty list.
WantedEntrypoints(q, children) ==
  LET given == Listed(q.given, {"entrypoint"}) IN
  CASE q.op = "set_entrypoints" -> given
    [] q.op = "append_entrypoints" -> children \cup given
    [] q.op = "clear_entrypoints" -> {}
    [] q.op = "unlink_entrypoint" -> children \ given

LoadExperiment(w) ==
  /\ Serving(w, {"received"})
  /\ request[w].op \in Grouping
  /\ LET q == request[w]
         children == Children(q.on) IN
     request' = [request EXCEPT ![w].phase = "built", ![w].loaded = children,
                   ![w].wanted = WantedEntrypoints(q, children)]
  /\ UNCHANGED <<created, deleted, version, snapshots, linked, jobs, clock,
                 received, overlapped>>

-----------------------------------------------------------------------------
(* Building the snapshot and the list of children                          *)

\* The resources of the list that are fetched, and must be found.
Fetched(q) ==
  CASE q.op = "append_queues" -> Listed(q.given, {"queue"}) \ q.loaded
    [] q.op \in {"unlink_queue", "remove_plugin"} -> {}
    [] OTHER -> {g.id : g \in q.given}

LatestPins(given) ==
  {[role |-> g.role, plugin |-> g.id, version |-> version[g.id]] :
     g \in {h \in given : h.role \in Roles}}

\* Mutant: plugins that are given again are kept beside their new version.
BuiltPinsDoubled(q) ==
  CASE q.op = "create" -> LatestPins(q.given)
    [] q.op = "modify" -> q.seen.pins
    [] q.op = "append_plugins" -> q.seen.pins \cup LatestPins(q.given)
    [] q.op = "remove_plugin" ->
         {n \in q.seen.pins : [role |-> n.role, id |-> n.plugin] \notin q.given}

\* The pins of a new snapshot: those of the snapshot read, without the ones
\* given, and the latest versions of those to be appended.
BuiltPins(q) ==
  LET kept == {n \in q.seen.pins : [role |-> n.role, id |-> n.plugin] \notin q.given} IN
  CASE q.op = "create" -> LatestPins(q.given)
    [] q.op = "modify" -> q.seen.pins
    [] q.op = "append_plugins" -> kept \cup LatestPins(q.given)
    [] q.op = "remove_plugin" -> kept

\* Mutant: set_queues() drops the plugins.
WantedOnlyQueues(q, pinned) ==
  LET queues == Listed(q.given, {"queue"}) IN
  CASE q.op \in {"create", "modify"} -> pinned \cup queues
    [] q.op \in {"append_plugins", "remove_plugin"} -> pinned \cup (q.loaded \cap Queues)
    [] q.op = "set_queues" -> queues
    [] q.op = "append_queues" -> q.loaded \cup queues
    [] q.op = "clear_queues" -> q.loaded \cap Plugins
    [] q.op = "unlink_queue" -> q.loaded \ queues

\* The children that the entrypoint is to have; pinned are the plugins of
\* the snapshot being written, in either role.
Wanted(q, pinned) ==
  LET queues == Listed(q.given, {"queue"}) IN
  CASE q.op \in {"create", "modify"} -> pinned \cup queues
    [] q.op \in {"append_plugins", "remove_plugin"} -> pinned \cup (q.loaded \cap Queues)
    [] q.op = "set_queues" -> (q.loaded \cap Plugins) \cup queues
    [] q.op = "append_queues" -> q.loaded \cup queues
    [] q.op = "clear_queues" -> q.loaded \cap Plugins
    [] q.op = "unlink_queue" -> q.loaded \ queues

Build(w) ==
  /\ \/ Serving(w, {"loaded"})
     \/ Serving(w, {"received"}) /\ request[w].op = "create"
                                 /\ request[w].on \in Entrypoints
  /\ LET q == request[w]
         rewrites == q.op \in Rewriting \cup {"create"}
         snapshot == [pins |-> BuiltPins(q), at |-> clock + 1] IN
     IF ~(Fetched(q) \subseteq Live)
     THEN Answered(w) /\ UNCHANGED clock
     ELSE /\ clock' = IF rewrites THEN clock + 1 ELSE clock
          /\ request' = [request EXCEPT
               ![w].phase = "built",
               ![w].built = IF rewrites THEN snapshot ELSE None,
               ![w].wanted = Wanted(q, IF rewrites THEN PinnedBy(snapshot) ELSE {})]
  /\ UNCHANGED <<created, deleted, version, snapshots, linked, jobs, received,
                 overlapped>>

BuildExperiment(w) ==
  /\ Serving(w, {"received"})
  /\ request[w].op = "create" /\ request[w].on \in Experiments
  /\ LET q == request[w] IN
     IF ~(Fetched(q) \subseteq Live)
     THEN Answered(w)
     ELSE request' = [request EXCEPT ![w].phase = "built",
                                     ![w].wanted = Listed(q.given, {"entrypoint"})]
  /\ UNCHANGED <<created, deleted, version, snapshots, linked, jobs, clock,
                 received, overlapped>>

\* The queue and the entrypoint are fetched, the latter in its latest
\* snapshot or in the one that the request names.
BuildJob(w) ==
  /\ Serving(w, {"received"}) /\ request[w].op = "run"
  /\ IF ~(Fetched(request[w]) \subseteq Live)
     THEN Answered(w)
     ELSE \E e \in Listed(request[w].given, {"entrypoint"}) : \E s \in snapshots[e] :
            request' = [request EXCEPT ![w].phase = "built", ![w].built = s]
  /\ UNCHANGED <<created, deleted, version, snapshots, linked, jobs, clock,
                 received, overlapped>>

-----------------------------------------------------------------------------
(* Commits                                                                 *)

\* Mutant: the flush writes the whole list that the request wants.
FlushedWhole(q) ==
  {l \in linked : l[1] # q.on} \cup {<<q.on, c>> : c \in q.wanted}

\* The flush deletes and inserts the rows in which the lists differ.
Flushed(q) ==
  (linked \ {<<q.on, c>> : c \in q.loaded \ q.wanted})
    \cup {<<q.on, c>> : c \in q.wanted \ q.loaded}

\* Inserting a row that exists violates the key, deleting one that does not
\* is noticed by its row count: both roll the transaction back.
Conflicts(q) ==
  \/ \E c \in q.wanted \ q.loaded : <<q.on, c>> \in linked
  \/ \E c \in q.loaded \ q.wanted : <<q.on, c>> \notin linked

CommitLinks(w) ==
  /\ Serving(w, {"built"}) /\ request[w].op # "run"
  /\ LET q == request[w] IN
     IF Conflicts(q)
     THEN UNCHANGED <<created, snapshots, linked>>
     ELSE /\ linked' = Flushed(q)
          /\ created' = IF q.op = "create" THEN created \cup {q.on} ELSE created
          /\ snapshots' = IF q.built # None
                          THEN [snapshots EXCEPT ![q.on] = @ \cup {q.built}]
                          ELSE snapshots
  /\ Answered(w)
  /\ UNCHANGED <<deleted, version, jobs, clock, received, overlapped>>

CommitJob(w) ==
  /\ Serving(w, {"built"}) /\ request[w].op = "run"
  /\ LET q == request[w] IN
     \E e \in Listed(q.given, {"entrypoint"}), u \in Listed(q.given, {"queue"}) :
       jobs' = jobs \cup
         {[experiment |-> q.on, entrypoint |-> e, queue |-> u, snapshot |-> q.built]}
  /\ Answered(w)
  /\ UNCHANGED <<created, deleted, version, snapshots, linked, clock, received,
                 overlapped>>

\* The lock row of a resource deleted meanwhile exists already: no change.
CommitDeletion(w) ==
  /\ Serving(w, {"received"}) /\ request[w].op = "delete"
  /\ deleted' = deleted \cup {request[w].on}
  /\ Answered(w)
  /\ UNCHANGED <<created, version, snapshots, linked, jobs, clock, received,
                 overlapped>>

\* Changes of queues and plugins, whose own requests are modelled elsewhere.
ChangeChild ==
  /\ received < MaxRequests
  /\ received' = received + 1
  /\ \/ /\ \E c \in (Queues \cup Plugins) \ deleted : deleted' = deleted \cup {c}
        /\ UNCHANGED version
     \/ /\ \E p \in Plugins \ deleted : version' = [version EXCEPT ![p] = @ + 1]
        /\ UNCHANGED deleted
  /\ UNCHANGED <<created, snapshots, linked, jobs, request, clock, overlapped>>

Arrive(w) ==
  \/ \E e \in Entrypoints : CreateEntrypoint(w, e) \/ ChangeEntrypoint(w, e)
  \/ \E x \in Experiments :
       CreateExperiment(w, x) \/ ChangeExperiment(w, x) \/ RunEntrypoint(w, x)

Serve(w) ==
  \/ LoadEntrypoint(w) \/ LoadExperiment(w)
  \/ Build(w) \/ BuildExperiment(w) \/ BuildJob(w)
  \/ CommitLinks(w) \/ CommitJob(w) \/ CommitDeletion(w)

Next == ChangeChild \/ \E w \in Workers : Arrive(w) \/ Serve(w)

Spec == Init /\ [][Next]_vars

-----------------------------------------------------------------------------
(* Properties                                                              *)

\* A snapshot pins one version of a plugin for its tasks and one for its
\* artifacts: a bundle has no place for two, whatever requests overlapped.
OnePinPerRole ==
  \A e \in Entrypoints : \A s \in snapshots[e] : \A m, n \in s.pins :
    m.role = n.role /\ m.plugin = n.plugin => m = n

\* The plugins linked to an entrypoint are those its latest snapshot pins,
\* for tasks or for artifacts, unless requests for it overlapped: the two
\* are written by different statements from different reads.
PinnedPluginsAreLinked ==
  \A e \in (Entrypoints \cap created) \ overlapped :
    Children(e) \cap Plugins = PinnedBy(Latest(e))

\* Later snapshots never pin an older version of a plugin than earlier ones
\* do, unless requests for the entrypoint overlapped and a stale read came
\* last: appending a plugin again only ever brings it forward.
PinsNeverGoBack ==
  \A e \in Entrypoints \ overlapped : \A s, t \in snapshots[e] :
    \A m \in s.pins, n \in t.pins :
      s.at < t.at /\ m.role = n.role /\ m.plugin = n.plugin => m.version <= n.version

\* A child is linked only by a request that lists it or whose snapshot pins
\* it, and unlinked only by one that loaded it: a request that carries a
\* stale list along neither brings back nor drops what another one changed.
LinksFollowRequests ==
  [][\A r \in created, c \in Ids :
       (<<r, c>> \in linked) # (<<r, c>> \in linked') =>
         \E w \in Workers :
           /\ request[w] # None /\ request'[w] = None /\ request[w].on = r
           /\ IF <<r, c>> \in linked
              THEN c \in request[w].loaded
              ELSE \/ c \in {g.id : g \in request[w].given}
                   \/ request[w].built # None /\ c \in PinnedBy(request[w].built)]_vars

\* An entrypoint appended to an experiment that nobody else is changing is
\* in its list beside those that were there.
AppendKeepsTheOthers ==
  [][\A w \in Workers :
       LET q == request[w] IN
       /\ q # None /\ request'[w] = None
       /\ q.phase = "built" /\ q.op = "append_entrypoints"
       /\ q.on \notin overlapped
       => {c \in Ids : <<q.on, c>> \in linked'} =
            Children(q.on) \cup Listed(q.given, {"entrypoint"})]_vars

\* The queue of a job is linked to the job's entrypoint when it is registered.
JobQueuesServeTheirEntrypoint ==
  [][\A j \in jobs' \ jobs : <<j.entrypoint, j.queue>> \in linked]_vars

\* A job runs a snapshot of its entrypoint, and the entrypoint is linked to
\* its experiment when the job is registered, unless a request for the
\* experiment overlapped the registration.
JobsRunLinkedEntrypoints ==
  [][\A j \in jobs' \ jobs :
       /\ j.snapshot \in snapshots[j.entrypoint]
       /\ j.experiment \notin overlapped => <<j.experiment, j.entrypoint>> \in linked]_vars
=============================================================================
