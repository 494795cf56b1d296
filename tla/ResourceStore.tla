--------------------------- MODULE ResourceStore ----------------------------
(***************************************************************************)
(* Named resources in the database of the REST API: registration, change   *)
(* and deletion through the resource services, and the built-in plugin     *)
(* parameter types of a group.                                             *)
(*                                                                         *)
(* Every worker process of the API serves one request at a time.  A        *)
(* request first reads the database (the service's get, the checks of the  *)
(* repository, the look-up of the name) and then commits, and another      *)
(* worker may commit in between: the database has no constraint that keeps *)
(* the names of these resources apart.  Snapshots carry the time at which  *)
(* the service built them and the latest is the one with the largest time. *)
(* Only what the latest snapshot says is kept here, since no service reads *)
(* an older one to decide anything.                                        *)
(***************************************************************************)
EXTENDS Naturals, FiniteSets

CONSTANTS
  Resources,        \* resource ids the database can hand out
  Groups,           \* owning groups
  DefaultGroup,     \* the group that the first user registration creates
  Names,            \* names a client may send
  Kinds,            \* the resource types of an instance
  BuiltinNames,     \* the names of the built-in parameter types
  Normal,           \* name.strip().lower(), on Names
  Workers,          \* worker processes of the REST API
  MaxRequests,      \* bound: requests received in one behaviour
  None

\* Types served through a repository of the unit of work ...
RepositoryKinds == {"queue", "experiment", "plugin_task_parameter_type"}
\* ... and types whose service queries the session itself.
ServiceKinds == {"plugin", "entry_point", "ml_model"}
ParameterType == "plugin_task_parameter_type"

ASSUME KindsAssumption ==
  Kinds \subseteq RepositoryKinds \cup ServiceKinds /\ ParameterType \in Kinds
ASSUME NamesAssumption ==
  /\ BuiltinNames \subseteq Names
  /\ Normal \in [Names -> Names]
  /\ \A b \in BuiltinNames : Normal[b] = b
ASSUME NoneAssumption ==
  /\ None \notin Resources /\ None \notin Kinds
  /\ None \notin Groups /\ None \notin Names
ASSUME GroupsAssumption == DefaultGroup \in Groups
ASSUME BoundAssumption == MaxRequests \in Nat

VARIABLES
  kind, group,   \* of each resource; None for an id not handed out yet
  latest,        \* name and build time of its latest snapshot
  locks,         \* its rows in resource_locks
  builtins,      \* the built-in types of the default group
  request,       \* what each worker is serving, with the answer it gave
  clock, received

database == <<kind, group, latest, locks, builtins>>
vars == <<kind, group, latest, locks, builtins, request, clock, received>>

LockTypes == {"delete", "readonly"}
Snapshot == [name : Names \cup {None}, at : Nat]
Operations == {"create", "modify", "delete", "create_all"}
Answers == {"ok", "not_found", "deleted", "exists", "read_only",
            "builtin_name", "conflict", "lost"}
Request == [op : Operations,
            kind : Kinds \cup {None}, group : Groups \cup {None},
            target : Resources \cup {None},
            name : Names \cup {None}, seen : Names \cup {None}, at : Nat,
            phase : {"received", "fetched", "checked", "answered"},
            answer : Answers \cup {None}]
ASSUME RequestAssumption == None \notin Request

TypeOK ==
  /\ kind \in [Resources -> Kinds \cup {None}]
  /\ group \in [Resources -> Groups \cup {None}]
  /\ latest \in [Resources -> Snapshot]
  /\ locks \in [Resources -> SUBSET LockTypes]
  /\ builtins \in {"none", "registering", "registered"}
  /\ request \in [Workers -> Request \cup {None}]
  /\ clock \in Nat /\ received \in Nat

Init ==
  /\ kind = [r \in Resources |-> None]
  /\ group = [r \in Resources |-> None]
  /\ latest = [r \in Resources |-> [name |-> None, at |-> 0]]
  /\ locks = [r \in Resources |-> {}]
  /\ builtins = "none"
  /\ request = [w \in Workers |-> None]
  /\ clock = 0 /\ received = 0

-----------------------------------------------------------------------------
(* What a query sees                                                       *)

Stored == {r \in Resources : kind[r] # None}
IsDeleted(r) == "delete" \in locks[r]
IsReadonly(r) == "readonly" \in locks[r]
Live == {r \in Stored : ~IsDeleted(r)}

\* resource_exists() joins the resource with its locks and keeps the rows
\* with a delete lock or without any lock, so a resource whose only lock is
\* the read-only one yields no row.
ResourceExists(r) ==
  IF r \in Stored /\ IsDeleted(r) THEN "DELETED"
  ELSE IF r \in Stored /\ locks[r] = {} THEN "EXISTS"
  ELSE "DOES_NOT_EXIST"

\* A live resource other than r holds the name.
NameTaken(k, g, n, r) ==
  \E s \in Live \ {r} : kind[s] = k /\ group[s] = g /\ latest[s].name = n

-----------------------------------------------------------------------------
(* The checks of an operation: the error it raises, or "accepted"          *)

\* create() of any service: the name check is the only one that depends on
\* other resources; parameter types refuse the names of the built-in ones.
CreateVerdict(q) ==
  IF q.kind = ParameterType /\ Normal[q.name] \in BuiltinNames THEN "builtin_name"
  ELSE IF NameTaken(q.kind, q.group, q.name, None) THEN "exists"
  ELSE "accepted"

\* get() at the head of modify(): a deleted resource is not found.
FetchVerdict(q) == IF q.target \in Live THEN "accepted" ELSE "not_found"

\* Mutant: modify() of a parameter type forgets the built-in names.
SnapshotVerdictBuiltinsForgotten(q) ==
  IF ResourceExists(q.target) = "DOES_NOT_EXIST" THEN "not_found"
  ELSE IF ResourceExists(q.target) = "DELETED" THEN "deleted"
  ELSE IF IsReadonly(q.target) THEN "read_only"
  ELSE IF NameTaken(q.kind, q.group, q.name, q.target) THEN "exists"
  ELSE "accepted"

\* create_snapshot() of a repository.
SnapshotVerdict(q) ==
  IF q.kind = ParameterType /\ Normal[q.name] \in BuiltinNames THEN "builtin_name"
  ELSE IF ResourceExists(q.target) = "DOES_NOT_EXIST" THEN "not_found"
  ELSE IF ResourceExists(q.target) = "DELETED" THEN "deleted"
  ELSE IF IsReadonly(q.target) THEN "read_only"
  ELSE IF NameTaken(q.kind, q.group, q.name, q.target) THEN "exists"
  ELSE "accepted"

\* Mutant: the condition that saves the look-up is inverted.
ServiceModifyVerdictInverted(q) ==
  IF q.name = q.seen /\ NameTaken(q.kind, q.group, q.name, q.target)
  THEN "exists" ELSE "accepted"

\* modify() of the other services: the name is looked up only when it is to
\* change, and the lock rows are not read again after get().
ServiceModifyVerdict(q) ==
  IF q.name # q.seen /\ NameTaken(q.kind, q.group, q.name, None)
  THEN "exists" ELSE "accepted"

\* add_resource_lock_types(), for the delete lock: the lock rows are read a
\* second time, all of them.  A lock already there is skipped.
AddLockVerdict(q) ==
  IF IsDeleted(q.target) THEN "ok"
  ELSE IF IsReadonly(q.target) THEN "read_only"
  ELSE "accepted"

\* Mutant: the resource is looked up as the services of plugins, entrypoints
\* and models do, with a query that asks only whether it was deleted.
DeleteResourceVerdictOwnQuery(q) ==
  IF q.target \in Live THEN "accepted" ELSE "not_found"

\* delete_resource(): deleting twice is a no-op that succeeds.  The two reads
\* are one step, the second: only a deletion can commit between them, and
\* AddLockVerdict then skips the lock as the first read would have.
DeleteResourceVerdict(q) ==
  IF ResourceExists(q.target) = "DOES_NOT_EXIST" THEN "not_found"
  ELSE IF ResourceExists(q.target) = "DELETED" THEN "ok"
  ELSE AddLockVerdict(q)

\* delete() of the other services: only a resource not yet deleted is found.
ServiceDeleteVerdict(q) == IF q.target \in Live THEN "accepted" ELSE "not_found"

\* create_all(): each built-in type goes through the repository's checks.
CreateAllVerdict(q) ==
  IF \E b \in BuiltinNames : NameTaken(ParameterType, q.group, b, None)
  THEN "exists" ELSE "accepted"

Verdict(q) ==
  CASE q.op = "create" -> CreateVerdict(q)
    [] q.op = "modify" /\ q.kind \in RepositoryKinds -> SnapshotVerdict(q)
    [] q.op = "modify" /\ q.kind \notin RepositoryKinds -> ServiceModifyVerdict(q)
    [] q.op = "delete" /\ q.kind \in RepositoryKinds -> DeleteResourceVerdict(q)
    [] q.op = "delete" /\ q.kind \notin RepositoryKinds -> ServiceDeleteVerdict(q)
    [] q.op = "create_all" -> CreateAllVerdict(q)

-----------------------------------------------------------------------------
(* Serving a request                                                       *)

Serving(w, phases) == request[w] # None /\ request[w].phase \in phases

Order(op, k, g, r, n) ==
  [op |-> op, kind |-> k, group |-> g, target |-> r, name |-> n,
   seen |-> None, at |-> 0, phase |-> "received", answer |-> None]

CreateRequest(k, g, n) == Order("create", k, g, None, n)
\* The endpoint names the type, so an id of another type is not looked up.
ModifyRequest(r, n) == Order("modify", kind[r], group[r], r, n)
DeleteRequest(r) == Order("delete", kind[r], group[r], r, None)
CreateAllRequest == Order("create_all", ParameterType, DefaultGroup, None, None)

Serve(w, q) == request' = [request EXCEPT ![w] = q]

\* The first user registration commits the default group and then asks for
\* its built-in types; before it there is no user to send anything else, and
\* no later registration asks again.
Receive(w) ==
  /\ request[w] = None \/ Serving(w, {"answered"})
  /\ received < MaxRequests
  /\ received' = received + 1
  /\ \/ /\ builtins = "none"
        /\ builtins' = "registering"
        /\ Serve(w, CreateAllRequest)
     \/ /\ builtins # "none"
        /\ \/ \E k \in Kinds, g \in Groups, n \in Names :
                Serve(w, CreateRequest(k, g, n))
           \/ \E r \in Stored, n \in Names : Serve(w, ModifyRequest(r, n))
           \/ \E r \in Stored : Serve(w, DeleteRequest(r))
        /\ UNCHANGED builtins
  /\ UNCHANGED <<kind, group, latest, locks, clock>>

Answer(w, a) ==
  request' = [request EXCEPT ![w].phase = "answered", ![w].answer = a]

\* modify() reads the resource it is about to change.
Fetch(w) ==
  /\ Serving(w, {"received"}) /\ request[w].op = "modify"
  /\ LET q == request[w] IN
     IF FetchVerdict(q) = "accepted"
     THEN request' = [request EXCEPT ![w].phase = "fetched",
                                     ![w].seen = latest[q.target].name]
     ELSE Answer(w, FetchVerdict(q))
  /\ UNCHANGED <<database, clock, received>>

\* The checks, and the snapshot built with the current time.
Check(w) ==
  /\ \/ Serving(w, {"received"}) /\ request[w].op # "modify"
     \/ Serving(w, {"fetched"})
  /\ LET q == request[w] IN
     IF Verdict(q) = "accepted"
     THEN /\ clock' = clock + 1
          /\ request' = [request EXCEPT ![w].phase = "checked", ![w].at = clock + 1]
     ELSE Answer(w, Verdict(q)) /\ UNCHANGED clock
  /\ UNCHANGED <<database, received>>

-----------------------------------------------------------------------------
(* The commits                                                             *)

CommitCreate(w) ==
  /\ Serving(w, {"checked"}) /\ request[w].op = "create"
  /\ LET q == request[w] IN
     \E r \in Resources \ Stored :
        /\ kind' = [kind EXCEPT ![r] = q.kind]
        /\ group' = [group EXCEPT ![r] = q.group]
        /\ latest' = [latest EXCEPT ![r] = [name |-> q.name, at |-> q.at]]
  /\ Answer(w, "ok")
  /\ UNCHANGED <<locks, builtins, clock, received>>

\* A snapshot built before the latest one does not become the latest.
CommitSnapshot(w) ==
  /\ Serving(w, {"checked"}) /\ request[w].op = "modify"
  /\ LET q == request[w] IN
     latest' = IF q.at > latest[q.target].at
               THEN [latest EXCEPT ![q.target] = [name |-> q.name, at |-> q.at]]
               ELSE latest
  /\ Answer(w, "ok")
  /\ UNCHANGED <<kind, group, locks, builtins, clock, received>>

\* The row (resource, "delete") is a primary key of resource_locks.
CommitDelete(w) ==
  /\ Serving(w, {"checked"}) /\ request[w].op = "delete"
  /\ LET r == request[w].target IN
     IF IsDeleted(r)
     THEN Answer(w, "conflict") /\ UNCHANGED locks
     ELSE /\ Answer(w, "ok")
          /\ locks' = [locks EXCEPT ![r] = @ \cup {"delete"}]
  /\ UNCHANGED <<kind, group, latest, builtins, clock, received>>

\* One transaction stores every built-in type with its read-only lock.
CommitCreateAll(w) ==
  /\ Serving(w, {"checked"}) /\ request[w].op = "create_all"
  /\ LET q == request[w] IN
     \E new \in [BuiltinNames -> Resources \ Stored] :
        /\ \A b, c \in BuiltinNames : new[b] = new[c] => b = c
        /\ LET ids == {new[b] : b \in BuiltinNames}
               nameOf(r) == CHOOSE b \in BuiltinNames : new[b] = r
           IN /\ kind' = [r \in Resources |->
                            IF r \in ids THEN ParameterType ELSE kind[r]]
              /\ group' = [r \in Resources |-> IF r \in ids THEN q.group ELSE group[r]]
              /\ latest' = [r \in Resources |->
                              IF r \in ids THEN [name |-> nameOf(r), at |-> q.at]
                              ELSE latest[r]]
              /\ locks' = [r \in Resources |->
                             IF r \in ids THEN {"readonly"} ELSE locks[r]]
  /\ builtins' = "registered"
  /\ Answer(w, "ok")
  /\ UNCHANGED <<clock, received>>

\* The worker dies, or its commit fails: the transaction is rolled back.
Lose(w) ==
  /\ Serving(w, {"received", "fetched", "checked"})
  /\ Answer(w, "lost")
  /\ UNCHANGED <<database, clock, received>>

Commit(w) ==
  CommitCreate(w) \/ CommitSnapshot(w) \/ CommitDelete(w) \/ CommitCreateAll(w)

Next == \E w \in Workers :
           Receive(w) \/ Fetch(w) \/ Check(w) \/ Commit(w) \/ Lose(w)

Spec == Init /\ [][Next]_vars
-----------------------------------------------------------------------------
(* Correctness                                                             *)

\* Live resources of one type and group have different names: get_by_name
\* has one answer.  (Consistency rule of every create() and create_snapshot();
\* it rests on requests that do not overlap.)
NamesUnique ==
  \A r, s \in Live : kind[r] = kind[s] /\ group[r] = group[s]
                    /\ latest[r].name = latest[s].name => r = s

\* Live types of the default group whose name reads as a built-in one.
BuiltinHolders ==
  {r \in Live : kind[r] = ParameterType /\ group[r] = DefaultGroup
               /\ Normal[latest[r].name] \in BuiltinNames}

\* Once registered, every built-in type can be found by its name, and no other
\* type reads as one of them, whatever clients create, rename and delete: the
\* service that fetches them raises an error on any other count.
BuiltinsComplete ==
  builtins = "registered" =>
     /\ \A r \in BuiltinHolders : IsReadonly(r)
     /\ \A b \in BuiltinNames : \E r \in BuiltinHolders :
           /\ latest[r].name = b
           /\ \A s \in BuiltinHolders :
                 Normal[latest[s].name] = b => s = r

\* A read-only resource is never renamed nor deleted, whoever asks and with
\* whichever query the operation looks it up: resource_exists() does not show
\* such a resource at all, the second read of its locks refuses it, and a
\* query that joins neither would let it through.
ReadonlyKept ==
  [][\A r \in Resources : IsReadonly(r) =>
        latest'[r] = latest[r] /\ locks'[r] = locks[r]]_vars

\* A deleted resource gets no further snapshot.
DeletedKept ==
  [][\A r \in Resources : IsDeleted(r) => latest'[r] = latest[r]]_vars

\* How a resource is found: by type, owner and name.
EntryOf(r) ==
  [id |-> r, kind |-> kind[r], group |-> group[r], name |-> latest[r].name]
Entries == {EntryOf(r) : r \in Live}

Directory == INSTANCE NameDirectory WITH Ids <- Resources, entries <- Entries

\* The store is a directory of names.
ImplementsDirectory == Directory!Spec

=============================================================================
