# A verification of Dioptra

Dioptra is a testbed for machine-learning experiments: a REST API over a
relational database, a Redis queue, workers that run experiments, an MLflow
server that stores runs, a Python client, and a task engine that executes the
task graph of an entrypoint.  This directory holds TLA+ models of the parts of
it whose correctness depends on order, overlap and failure, the TLC
configurations that check them on small instances, and theorems checked by
TLAPS.  Paths are relative to `src/src/dioptra`; `v1`, `db` and `repository`
stand for `restapi/v1`, `restapi/db` and `restapi/db/repository` there, and file
names of the documentation for files under `src/docs`.

## 1. Inventory

| Component | State it keeps | Operations | Talks to | Modules |
|---|---|---|---|---|
| **Job lifecycle** (`restapi/v1/jobs`, `v1/shared/rq_service.py`, `rq/tasks`, `worker`, `sdk/utilities/run_dioptra_job.py`) | job snapshots (status, `created_on`), delete locks, `JobMlflowRun` rows, the Redis queue, the process of each runner | create and submit, set status, reset, record the MLflow run, delete, run `main()` | clients and runners call the API over HTTP; the API pushes to Redis; workers pop; runners write to MLflow | `JobLifecycle`, `JobStatus` |
| **Resource store** (`db/models/resources.py`, `locks.py`, `db/repository`, services of queues, experiments, entrypoints, plugins, parameter types, models) | resources, snapshots, delete and read-only locks, names unique in a group | create, create snapshot, delete, create the built-in types | every service of the API; one transaction per request | `ResourceStore`, `NameDirectory` |
| **Users, groups, authentication** (`repository/users.py`, `groups.py`, `v1/users`, `v1/auth`) | users, password and `alternative_id`, user locks, the default group and its members, sessions | register, modify, change password, delete, log in, log out, log out everywhere | the login manager loads a user by `alternative_id` on every request | `Accounts`, `Sessions` |
| **Plugins and their files** (`v1/plugins`, `db/models/plugins.py`) | snapshots of plugins and of files, which file snapshots a plugin snapshot lists | register, change, delete a file or a plugin | resource store, bundles for the engine | `PluginFiles` |
| **Children and job registration** (`repository/utils/resources.py`, `v1/experiments`, `v1/entrypoints`, `v1/jobs`) | rows of `resource_dependencies`, plugin snapshots pinned by entrypoint snapshots, jobs | set, append, unlink children; rewrite an entrypoint; register a job | resource store | `EntrypointLinks` |
| **Drafts** (`repository/drafts.py`, `v1/shared/drafts`, `v1/workflows`) | drafts of new resources and of modifications | create, catch up, discard, commit | reads the resource store and writes it through the services | `Drafts` |
| **Import** (`v1/workflows/service.py`) | what one import has written and not yet committed | import under three strategies | the services of types, plugins and entrypoints | `ResourceImport` |
| **Logs, metrics, artifacts, model versions** (`sdk/utilities/logging`, `v1/jobs`, `v1/artifacts`, `v1/models`) | the buffer of a runner's log handler; rows of logs, metrics, artifacts and versions | emit, flush, close; report; register, describe; new version | runners call the API | `JobRecords` |
| **Task engine** (`task_engine/`) | the outputs of the steps run so far | validate, order, resolve references, run | plugins; MLflow through the runner | `TaskEngine` |
| **Type system** (`task_engine/type_registry.py`, `type_validation.py`, `types.py`) | the registry of the types of a description | build types, infer, compare | validation of descriptions | `TypeSystem` |
| **Tags** (`v1/tags`, `v1/shared/tags`) | tags of a group, their resources | create, rename, delete, attach | resource store | section 8 |
| **Client, frontend, object-detection SDK, signature analysis, plugin registry, schemas and views, search and paging, migrations, deployment, docs** | - | - | - | section 8 |

### What is hard here

- *Overlap.*  Gunicorn runs several API processes over one database, each
  request is a transaction at READ COMMITTED, and the checks of a request (is
  the name free? may the status change? does the resource exist?) are made
  before it commits and are not repeated.  Only primary keys, unique indexes
  and triggers arbitrate.
- *Order.*  The latest snapshot of a resource is the one built last, not the
  one committed last; ids are given when rows are flushed, later still.
- *Stale reads.*  A new snapshot of a plugin or an entrypoint is assembled from
  the one the request read first.
- *Partial failure.*  A job is committed and then submitted to Redis; an import
  calls services that commit in its middle; a runner reports its outcome, and
  its logs, over a network that may lose the answer.
- *Abrupt ends.*  A runner may be killed, time out, or leave through `exit(1)`,
  which its handler does not catch.
- *Liveness.*  A submitted job should get an outcome; a log handler that waits
  for an answer must not block the job.

### Properties that make each component correct

- Job lifecycle: a status change is legal with respect to a status the job
  really had; only one runner executes a job that was not reset, and it is the
  one whose MLflow run the job records; submitted jobs settle.
- Resource store: names are unique among the undeleted resources of a type in a
  group and deleted is final (true of one process, section 7); read-only
  resources never change; the built-in parameter types stay complete.
- Users: changing the password or logging out everywhere ends every session;
  closed stays closed; a deleted user cannot act.  User names *should* identify
  a user and do not (section 7).
- Plugins: the latest snapshot lists every live file in its latest version, and
  no file twice.
- Links: what an entrypoint pins and what it is linked to agree; a job runs
  what is linked.
- Drafts: one modification per user and resource; nothing that was changed
  after the base of a draft is overwritten by it; a draft is written or dropped
  once.
- Import: a plugin is never committed without its files; "fail" is all or
  nothing; what a completed import promises is there, and a failed one takes
  at most one name with it.
- Records: no log record is stored twice, and none is overtaken, or lost but by
  a post that broke or was answered with an error; a metric reads as reported; a uri belongs to one artifact;
  version numbers tell versions apart.
- Task engine: a step runs after everything it depends on, exactly once, and a
  reference delivers what validation took it for.
- Type system: an accepted argument is a value of the declared type, and no
  literal that is one is refused.

`PROJECT.json` lists the hazards line by line, with the property that covers
each or the reason why none does.

## 2. Plan

All modules that were planned are written: `JobLifecycle` with `JobStatus`,
`ResourceStore` with `NameDirectory`, `Accounts` with `Sessions`, `TaskEngine`, `PluginFiles`,
`EntrypointLinks`, `Drafts`, `ResourceImport`, `JobRecords`, `TypeSystem`.  What
is left, in this order:

1. tags, beside `ResourceStore`: names without snapshots or locks, and the
   rows of `resource_tags` that `EntrypointLinks` already has a model of
   (`Flushed`);
2. types in `TaskEngine`: a reference whose type is that of an artifact and
   whose value is that of a step.

## 3. The modules and the code

`PROJECT.json` gives, for each definition, the lines it models.  Conventions
shared by the modules:

- A request to the API is a record in a variable (`request[w]` for the worker
  process that serves it, or a member of `requests`) that goes through phases.
  The split between phases is where the code reads, where it stamps what it
  builds, and where it commits: what a request read may be stale when it
  commits.  There is no phase between two statements that touch only the
  request's own data.
- A commit is one action with everything the transaction writes.  A constraint
  the database enforces (a primary key) is a guard of the commit and an action
  or a branch for the conflict; a rule that only the Python code enforces is
  part of the check phase and *not* of the commit.
- `clock` gives the stamps of snapshots (`created_on`); the latest snapshot of a
  resource is the one with the largest stamp.
- `overlapped`, `disturbed`, `failed` and `refused` are history: the subjects of
  requests that were served at the same time, imports with others' commits in
  between, jobs with a broken post, records answered with an error.  Nothing in
  a step depends on them.  Properties that
  the code keeps only for requests one after another say so with them, and
  section 7 says what happens otherwise.  Such a property does not catch the
  overlap itself: it shows that the checks of a request suffice when nobody
  interferes, over any sequence of requests, and the "note" of the hazard in
  `PROJECT.json` says what is left open.
- An operator that is preceded by `Mutant:` is not part of the model.  It is the
  definition it varies with one plausible bug (a check that is dropped, a
  swapped case), and shows that a property would catch it.

### JobLifecycle and JobStatus

| State | In the code |
|---|---|
| `snaps`, `clock` | rows of `jobs` / `resource_snapshots`; `stamp` is `created_on`, `base` the snapshot the request was checked against, `by` who asked |
| `deleted` | the delete lock of the job's resource |
| `mlflowRun` | the row in `job_mlflow_runs`; a run is identified with the runner that started it |
| `creating`, `rq` | jobs between `db.session.commit()` and `RQServiceV1.submit`; the Redis list |
| `requests` | PUT status, POST mlflowRun and DELETE under way: `sent`, `read` (checked), `built` (snapshot constructed, so stamped) |
| `pc`, `runOf`, `tracked` | where each run of `main()` is, its job, and the state of its MLflow run |

`CommitNewJob`, `SubmitNewJob` and `LoseNewJob` are the two halves of
`JobService.create` and the loss of the second.  `ApiRead`/`ApiReject`,
`ApiBuild`, `ApiCommit`, `ApiConflict` are the services for status, MLflow run
and deletion; `ApiCommitUnanswered` and `ApiCrash` their failures.  The
`Runner...` actions are the steps of `main()` at which the outside world may
intervene: `RunnerDequeue` (worker forks, `started` is requested), `RunnerFetch`
(`jobs.get_by_id`, outside the `try`), `RunnerTrack` (MLflow run),
`RunnerSucceed`, `RunnerFail` and `HandleException` (the handler reports
`failed` and raises again), `RunnerSysExit` (`exit(1)` is not an `Exception`),
`RunnerTimeout` (`JobTimeoutException`, raised at any point, also while the
handler waits).  A request whose runner has gone on is still served.
`JobStatus` is the automaton of `JOB_STATUS_TRANSITIONS` with counters of
attempts and claims, and `JobLifecycle` with one API process implements it.

### ResourceStore and NameDirectory

`kind`, `group`, `latest` and `locks` are the resource, its owner, the name and
build time of its latest snapshot, and its rows in `resource_locks`.  Only the
latest snapshot is kept, because no service reads an older one to decide
anything; `CommitSnapshot` leaves `latest` alone when the snapshot it adds was
built before.  `Receive`, `Fetch` (the `get` at the head of `modify`), `Check`
and the four commits are the phases of a request.  The two families of services
differ and are both modelled: those built on a repository (`RepositoryKinds`)
check existence, deletion, the read-only lock and the name in
`create_snapshot`; the others (`ServiceKinds`) look the name up only when it
changes.  `ResourceExists` keeps a peculiarity of the query in `checks.py`: a
resource whose only lock is the read-only one is reported as non-existent.  A
deletion has a second guard, `AddLockVerdict`: `add_resource_lock_types` reads
the lock rows again and refuses a read-only resource.
`CommitCreateAll` stores the built-in parameter types of the default group.
`Normal` is `strip().lower()` on the names of the instance.  `NameDirectory`
says what clients rely on: a name leads to at most one resource of a type and
group.

### Accounts and Sessions

`user`, `group` and `jar` are the rows of users (with their lock), of default
groups with their members, and the cookies of clients with the password each
was obtained with (a history variable: the code does not keep it).  An
`alternative_id` is a number never handed out before (`uuid4`).  A request with
a cookie is first loaded (`Load`, the login manager's `load_user`), then
checked, then committed.  `CheckChange` compares the password with the row
loaded at the start of the request when the target is the current user: the
session's identity map returns the loaded object.  `CommitModify` has no check
because `UserCurrentService.modify` has none.  `Expire` is the age limit of a
password.  `Sessions` is what a client may count on: passwords, users that are
gone and open sessions, with each operation one step.  A user that is not there
has no password, a session is a cookie that leads to a user; the requests, the
alternative ids and the groups are hidden.  A login that was overtaken by a
change of the password sets a cookie that leads nowhere, which is the `LogOut`
of the jar in `Sessions`.

### TaskEngine

One run of one description: `Validate`, `LoadArtifacts`, `ResolveParameters`,
then groups of steps (`NextBatch`, `RunStep`), then `SaveArtifacts`, with the
failures of each.  The description is chosen by `Init` from `Descriptions` and
read-only from then on; it is abstracted to names, outputs and references.
`ReferentOf` is what validation takes a reference for, `Resolve` what the
engine context returns for it: they look at different tables in a different
order, and that they agree on accepted descriptions is the main property.
`short` records that a plugin or an artifact returned fewer values than
declared, which `zip` in `_update_output_map` accepts silently.  The values of
an artifact carry the names that the artifact's own task has for its outputs
(`supplied`), not those that the description gives to the outputs of the
artifact input (`inputs`).  Registration of the job compares number and types
only (`v1/jobs/service.py:355`), so any names of the right number are accepted.
`ReferencesMeanWhatWasChecked` therefore lets a reference find nothing in two
cases, a value that is missing and an output that is `Misnamed`, and in no case
lets it find something else.  Since types are abstracted, it does not tell two
outputs of one artifact apart whose names are swapped (section 7).  References in
`buried` are those below an argument mapping with a key `task`, which
`get_references` does not follow but the type checker and the engine do.
Some names of the module begin with `Engine` because `JobRunProofs` extends it
together with `JobRecords`.

### PluginFiles

`plugin` and `file` hold the delete lock and the latest snapshot of each; a
plugin snapshot is the set of file snapshots in `plugin_plugin_files`.  A request
is *fetched* (it has read the plugin: `seen`), *stamped* (the new plugin
snapshot is constructed, after the look-up of the filename), *built* (so is the
file's, later: the plugin's stamp is the smaller one) and committed.
`FileList` is what the new snapshot lists, taken from `seen`; `doomed` are the
files a deletion found and locks.  `CreateFile`, `ModifyFile`, `DeleteFile`,
`DeleteAllFiles`, `ModifyPlugin`, `DeletePlugin`, `CreatePlugin` are the requests, one
commit action each.  Errors of the tasks of a file are the request that goes no
further.

### EntrypointLinks

`linked` are the rows of `resource_dependencies`, `snapshots` the snapshots of
entrypoints with their pins (role, plugin, version), `version` the latest
snapshot of each plugin, `jobs` the registrations.  A request is *received*,
*loaded* (it has read the children, and the snapshot for requests that rewrite)
and *built*; the commit is SQLAlchemy's unit of work, which writes the
*difference* between the list that was loaded and the list that is wanted
(`Flushed`) and fails on a row that is there or gone already (`Conflicts`).
`Wanted`, `WantedEntrypoints` and `BuiltPins` are what each service computes.
`MayRun` is the three queries of `JobService.create`, with what the third one
really asks.  `ChangeChild` is everything others do to queues and plugins: new
plugin snapshots and deletions.

### Drafts

A resource is a set of snapshots with an id (given at the flush) and a stamp
(given at the build); `follows` is history, the base of the draft a snapshot
was written from.  A draft has the resource it modifies, its base, and whether
it is open; `written` and `dropped` are history.  A commit of a draft is
*fetched* (checked by `UpToDate`), *built*, *flushed* and committed, or it
becomes *nothing*, when the service finds the resource gone and returns `None`:
the workflow deletes the draft and answers with success.  `CatchUp` is the change of a
draft with a new base, which the repository accepts if it is not below the old
one (`MayMoveTo`).  `Modify` is any other change of the resource.

### ResourceImport

`res` are the committed rows, `import[w]` the import that worker serves: the
item it is at, the step within it, what it has flushed (`pending`) and the
dictionaries it resolves names with (`made`).  An item is looked up, perhaps
deleted, written, and given its files or its plugins, each a step that may
fail (`Fail`) and lose what is pending.  The services that delete,
and the two that append plugins, commit everything that is pending; so a
deletion is in the database before what replaces the resource is written.
`OtherCreates` and `OtherDeletes` are other requests.

### JobRecords

`handler[j]` is the log handler of a runner: *open*, *posted* (its lock held,
the post sent), *served* (the API has it), *closed*, and its buffer.  Only jobs
in `Forwarded` have one, since only the worker's task installs it.  `WithoutBuffer` is
what `flush()` does after the post: whatever the answer, the records are
forgotten.  `RejectLogs` is an answer with an error (the job was deleted, the
login has ended, the transaction was rolled back).  The client of the handler is
of the kind "response" (`sdk/utilities/logging/config.py:79`), which returns such
an answer and raises nothing, so the handler goes on as after a success;
`refused` keeps the records of these posts.
`PostFails` breaks a post before or while it is served, so a batch may be
stored although the handler saw an error; `WorkerDies` loses a transaction.  A
metric row has the two columns of the code (a value that is finite, and a text
for the others) and the request writes the columns that differ from the row it
read.  An artifact is a set of snapshots with one uri; a uri is a run and a
file.  `RegisterArtifact` looks for it in the run the job has recorded and
among the job's artifacts, `RecordRun` and `DropRun` are the effects on that row of a new
attempt and of a reset.  `NextNumber` adds one to the number of the version
whose snapshot is the latest.

### TypeSystem

`Init` chooses type definitions.  `BuildType` builds one whose dependencies are
built, and `Refuse` ends a description whose definitions cannot be sorted or are
not legal.  Then one argument or default is inferred (`Infer`) and checked
(`Compatible`, with one operator for the elements of lists and tuples, one for
the properties of mappings, one for the structures).  What a type *means* is
defined apart from the checker: `Has(t, v)` says which values belong to a type,
`MayBe(spec, v)` which values a written argument can stand for.  The module is
written with RECURSIVE operators, over types as deep as the code takes, and is
for TLC only.

## 4. The runs

| Run | Instance | Distinct states | Shows |
|---|---|---|---|
| `lifecycle_races` | 1 job, 1 worker runner and 1 connected runner, 1 user with 2 requests, 2 API processes, no faults | 194,346 | status changes are legal, the recorded run is that of the runner at work, and submitted jobs settle, though all requests overlap |
| `lifecycle_faults` | the same with 1 API process, resets and deferrals, all six faults | 225,393 | nothing runs unreported, every runner ends, `JobStatus` is implemented |
| `store_serial` | 1 worker, 3 resources, 2 groups, 4 names, one kind of each family, 5 requests | 835,536 | `NameDirectory` is implemented, built-in types stay complete, read-only resources never change |
| `accounts_races` | 2 workers, 2 users, 2 groups, 2 jars, 2 passwords, 5 requests, 1 expiry | 423,590 | sessions follow the password, closed cookies stay closed, deleted users act no more, `Sessions` is implemented |
| `engine_runs` | 50,400 descriptions over three names and two outputs | 208,042 | references mean what was checked, order, completeness |
| `plugin_files` | 1 plugin, 3 files, 2 names, 2 workers, 5 requests | 48,648 | no file twice under any overlap; nothing lost without one |
| `entrypoint_links` | 1 experiment, 2 entrypoints, 1 queue, 1 plugin, 2 workers, 4 requests | 744,064 | links change as asked under any overlap; pins and links agree; jobs run what is linked |
| `job_queue` | 2 queues, 1 worker | violation | a job is put on a queue its entrypoint is not linked to |
| `drafts` | 2 resources, 2 drafts, 2 users, 2 workers, 6 requests | 149,169 | one modification per user, nothing overwritten, drafts written or dropped once and never stuck |
| `import` | 3 configurations, 3 strategies, 8 ids, 1 worker, 2 imports, 2 requests of others | 215,472 | plugins are whole, "fail" is all or nothing, imports deliver, a failure loses one name at most |
| `job_records` | 2 jobs of which 1 forwards logs, capacity 2, 2 records, 1 metric, 2 values, 2 runs, 1 model with 3 versions, 2 workers, 3 requests | 889,828 | logs once and in order, complete but for posts that broke or were refused; metrics as reported, one artifact per uri, numbers unique, the handler closes |
| `types` | 282 sets of definitions, written values up to two levels | 174,254 | what is accepted fits, and literals that fit are accepted |

Why the bounds suffice for the cases that matter:

- *Lifecycle.*  Jobs share nothing but the time of the API processes and
  workers, so one job shows what a job can do.  A race for it needs two runners
  (a worker and a "connected" run are the only way to have two), and a stale
  check needs one request that overtakes another: two processes.  Two user
  requests allow a reset and a deletion, or two resets, so three attempts.
  Faults are separate from overlapping requests, since a job settles only
  without them and `JobStatus` is followed only with one process.
- *Store.*  Five requests are the creation of the built-in types followed by
  four more: two resources created, one renamed or deleted and its name
  reused.  The third resource is the built-in type.  " Integer " reads as the
  built-in name without being equal to it.  Overlapping requests are left to
  the theorems: `BuiltinsStayComplete` and `ReadonlyResourcesKept` hold for any number of
  workers, the other properties for one.
- *Accounts.*  Five requests are a registration, a log in, a change of password
  and two more to overlap with them.  Users, groups, jars, passwords, mail
  addresses and workers are each interchangeable, names are not: a user may take
  only one of them later (`NewNames`).
- *Engine.*  Two steps make a cycle; the third name plays each part a name can
  play, and two parts at once.  The task of an artifact names its one or two
  outputs as the description does, otherwise, or in another order.
- *Plugin files.*  Two files that change at the same time, and a third that is
  created meanwhile; a name taken and one free.  Five requests are two creations
  and three changes or deletions that overlap.
- *Links.*  Two entrypoints tell a list that replaces from one that adds, and
  the queue of one from the queue of the other; four requests are two
  creations, a link and a request that overlaps with it or depends on it.
- *Drafts.*  A modification by each user of one resource, and a draft of a new
  one; six requests are the resource, its draft, a change, a catch-up and a
  commit, with one more in between.
- *Import.*  A second import meets what a first one left or lost.  One
  configuration has all four roles (type, plugin, artifact plugin, entrypoint),
  one has two plugins of one name that use different types, and one repeats a
  type.  Eight ids are enough for two imports of the first under "overwrite".
- *Records.*  Capacity two and two records: a post at the limit, one at an
  error, one at the close, and one whose predecessor is still being served.
  Two runs of one job or of two, so that a uri may belong to the wrong one.
  Three requests are two that overlap and one before or after.
- *Types.*  Every form of definition, alone and with the other name inside;
  values that are too short, too long, or of the wrong keys.

`CHECK_DEADLOCK` is on in `engine_runs`, so that a description that validates
never gets stuck.  The other systems stop when the requests of the bound are
served, or when a description is checked.

## 5. Fairness

`JobLifecycle` and `JobRecords` have liveness properties.  In `JobLifecycle`
weak fairness is assumed of

- `SubmitNewJob(j)`: a process that committed a job goes on to the next
  statement (unless `LoseNewJob`, its crash, happens);
- the steps of the API: some request under way is served next.  Gunicorn
  workers are loops, every request the client waits for has a process in the
  end, and only finitely many requests are made;
- the steps of each runner: a worker polls and `main()` proceeds.

In `JobRecords` it is assumed of

- the commits of each API worker, for the same reason;
- `Close(j)`: the task's `with` statement closes the handler however the job
  ends, and a job logs finitely often;
- `PostFails(j)`: a post that nobody answers ends with an error.  The client
  sets no timeout (`client/sessions.py:89`), so this rests on others: Gunicorn
  kills a worker that does not answer in time, which breaks the connection, and
  the time limit of Redis Queue raises an exception in the job, which
  `_send_buffered_logs` catches like any other.  Where neither limit strikes, the
  handler waits for ever; `HandlersClose` shows that it goes on after every kind
  of answer, and no more than that.

No fairness is assumed of faults, of users, of `RunnerConnect`, `ServeLogs` or
`WorkerDies`, nor between the outcomes of a step: the experiment may fail as
well as succeed.  `SubmittedJobsSettle` is checked without faults only.  It
cannot hold with them, since a runner that was killed reports nothing.
`RunnersEnd` is checked under all faults, `HandlersClose` while posts break and workers
die.

## 6. Proofs

The proofs hold for every value of the constants that the named assumptions of
the modules allow: the types of the constants, distinctness of the null value,
and, where a theorem says so, `OneWorker` or `OneProcess`.  No finiteness is
assumed but that of the names of one description.

- **`JobLifecycleProofs`.**  `BaseInv` strengthens the type invariant: a
  registered job has a latest snapshot, a runner that left "idle" has a job,
  and requests are well formed.  Types alone are not inductive, since
  `LatestSnapshot` is a `CHOOSE`.  A lemma reduces every step to one of five
  effects on snapshots, clock and requests (`DataStep`), so that the invariants
  about statuses are shown for five cases and not for every action.  `StampInv`
  orders the stamps: none is issued twice, and a request is stamped later than
  the snapshot it was checked against.  `SeenInv` says that this snapshot is
  still there and allows what the request asks for (`LegalInv` for what is
  stored), because snapshots are never removed or changed.
  `StatusChangesLegal` and `UniqueStamps` follow; the argument needs no lock
  and no isolation, which is why it holds for any number of processes.
  `RunsDroppedByRequeue` and `SubmittedRegistered` rest on the same invariants.
  `RunnersInv` ties each runner to the row of its run and to its requests:
  `StartIsReported`, `ExecutionIsExclusive` (the primary key of the run decides
  which runner executes).  `FinishedInv` adds who may report "finished";
  `FinishedHaveTheirRun` assumes that users do not report it themselves
  (`"finished" \notin UserStatuses`).  With one process (`OneProcess`) requests
  are served whole: `SingleInv` says that what a request was checked against is
  still the latest, `FiniteInv` that there are finitely many snapshots to count
  attempts by, and `OneProcessImplementsStatus` is the refinement.
  `AttemptsHaveOneOwner` is the theorem about `JobStatus` itself, one claim per
  attempt, from an invariant that ties the counters to the status
  (`StatusInv`); `OneProcessOneClaim` transports it through the refinement.
- **`ResourceStoreProofs`.**  `BaseInv` describes each request by its phase.
  `ReadonlyInv` says that no request that passed its check aims at a read-only
  resource: a read-only lock is set only when its id is handed out, so no
  request can have aimed at it before.  `BuiltinsInv` says that the built-in
  types of a registered group stand under their names and that no checked
  request is about to take one, under any overlap.  `DirectoryInv`, under `OneWorker`,
  says that the name a checked request will write is still free;
  `OneWorkerKeepsNamesUnique`, with one lemma per kind of commit
  `OneWorkerImplementsDirectory`, and `OneWorkerKeepsTheDeleted` follow.  The
  assumption cannot be dropped (section 7).
- **`AccountsProofs`.**  The invariant for sessions is about pairs of an
  alternative id and a password.  A cookie, and a login about to set one,
  carries such a pair, and the pair is sound if every row with the id has the
  password.  A step either leaves the pair of a row alone or gives the row an id
  never handed out, so a sound pair stays sound, also when its row gets another
  password.  Ids that were replaced are never handed out again: `ClosedForGood`.
  `EveryUserBelongs` and `TheDeletedAreLeftAlone` are about the rows.
  `AccountsImplementSessions` is the refinement.  A cookie leads to at most one
  user, and a step changes at most one row (`OneRowWritten`); a row that gets a
  new id or a deletion lock leads no cookie any more (`RenewalEnds`,
  `NoSessionsOf`), and all other cookies lead where they led (`SessionsEnd`).
  One lemma per operation then names the step of `Sessions` that its commit is;
  receiving, checking, losing a request and the age of a password are stutters.
- **`JobRunProofs`**, about the task engine and about the records of a job.
  *Engine:* `EngineInv` has one conjunct per table of the engine: what is loaded
  and produced is what artifacts and tasks name, and all of it unless `short`;
  the steps of the batch have all their predecessors among those that ran.
  `NothingReadyNothingLeft` is the graph argument (a set of steps of which each
  waits for another one has a cycle), `CheckedReferenceFound` the case analysis
  of both look-ups.  *Records:* `LogInv` says where the records of a job may be:
  those stored, those of a post under way and those in the buffer are apart,
  each once and in order, and a post that is not the one the handler waits for
  holds only records older than the buffer; as long as no post of the job broke, what
  is stored followed by the buffer is increasing and has exactly the records that
  were emitted and not refused.  Hence
  `RecordsStoredOnce`, which holds under every fault, and
  `RecordsCompleteInOrder`.  `OverlapInv` (two requests for one subject have
  been noted) carries the rest: `MetricInv` (what a report read is still the row)
  for `ReportsAreRead`, `RunInv` (no run belongs to two jobs) and `UriInv` for
  `UrisNameOneArtifact`, and `VersionInv` (a version with a later snapshot has a
  larger number, the one under way the largest) for `VersionsAreNumbered`.
- **`PluginFilesProofs`.**  `FilesInv`, under any overlap: a list of files holds
  one snapshot per file, also the one that a request carries, and a request that
  writes has the lists it made from `seen`.  `FilesAreListedOnce` and
  `OnlyStaleDrop` follow.  `AloneInv` is about plugins that were never
  overlapped: at most one request is under way, it has seen the latest snapshot,
  and its stamp is above all others, so that what it commits becomes the latest.
  `AloneCorrect` gives `LiveFilesListed` and `NoFileSurvives`, and
  `NamesKeptApart` that two live files of such a plugin never share a name.
- **`EntrypointLinksProofs`.**  `LinksInv`, under any overlap: pins are unique in
  every snapshot, stored or built; what a request wants comes from what it
  loaded, was given, or pins; jobs hold stored snapshots.  `PinsAreUnique`,
  `LinksChangeOnRequest`.  `AloneInv` for parents that were never overlapped:
  loaded is linked, seen is latest, linked is pinned.  `PinsAndLinksAgree`,
  `JobsRunWhatIsLinked`, `AppendsAdd`.
- **`DraftsProofs`.**  `DraftInv`, under any overlap: snapshots are never
  removed, the base of a draft is a snapshot of its resource, and a request is
  about a resource and a draft that exist.  `CatchingUp` follows: whatever the
  requests, an open draft has a base it may move to.  `AloneInv`, for subjects whose
  requests never overlapped: the snapshots of a resource have the same order by id as
  by stamp, the one a request is about to write comes after all of them, and
  its base is the last; a draft that a commit has read is still open.
  `NoChangeLost`, `OneDraft` and `DraftsEndOnce` follow.
- **`ResourceImportProofs`.**  `ImportInv`: a plugin that lacks files is pending
  and is the one the import is at, in the step that registers them, and every
  commit in the middle of an import is outside of it.  `PluginsWhole` follows.
  An import under "fail" never reaches a step that commits before the end:
  `FailIsAllOrNothing`.  `SessionInv` is about imports that nobody disturbed.
  What they have made is there (`MadeOK`), what they found is there too, but
  for the name whose resource has just been deleted (`HadOK`), the items dealt with
  use what was made of their names (`DoneOK`), and in the *database* at most one
  name is lost (`LossOK`).  The last conjunct is what a deletion needs: it
  commits the replacement of what was deleted before, which `HadOK` says is in the
  session.  The order of a configuration (`OrderAssumption`: types, plugins,
  entrypoints) is why no later item touches what an earlier one uses.
  `UndisturbedDeliver`, `LosesAtMostOne`.

Some theorems are about definitions that no run checks, because the theorem
answers the question once and for all: `TypeOK` of the modules,
`StampsAreUnique`, `RunIsDroppedOnlyByRequeue`, `SubmittedJobsAreRegistered`,
`OneClaimPerAttempt`, `SessionsHoldThePassword` (which `ImplementsSessions`
entails), `NamesUnique`, `DeletedKept`, `UsersBelongToPublic`, `NoFileSurvives`,
`PinsNeverGoBack`, `AppendKeepsTheOthers`.

Only model-checked: the liveness properties `SubmittedJobsSettle`, `RunnersEnd`
and `HandlersClose` (fairness is beyond the prover), and all of `TypeSystem`
(recursion over types is, too).  Every other property of a passing run is the
subject of a theorem.

## 7. Where the code and its documents disagree

One run ends in a counterexample, quoted in `PROJECT.json`: the queue of a job
is accepted if *some* entrypoint of the experiment is linked to it
(`v1/jobs/service.py:228`), while the comment at line 214 says that it is
"registered to the entrypoint" (`job_queue`).

The models contain the following behaviour as well.  No property that is checked
excludes it.

- *Reset.*  A reset job goes back to "queued" in the database
  (`v1/jobs/service.py:1142`), and nothing submits it to Redis Queue;
  `client/experiments.py:411` presents the reset as the way to run it again.
- *`exit(1)`.*  A runner that leaves this way reports no outcome and its job
  stays "started", which `jobs-reference.rst:79` reserves for jobs that run.
- *Names.*  Names are checked before the commit and not by the database: two
  workers register one name (`repository/queues.py:69` states that they are unique in a group).
- *Users.*  The own name and mail address can be changed to those of another
  user (`v1/users/service.py:342`); `repository/users.py:88` and the tests treat
  the name as unique.
- *Names of artifact outputs.*  The engine stores the values of an artifact under
  the names of its own task's outputs (`task_engine.py:587`), registration compares
  number and types, and `task-engine-reference.rst:449` says that the values are
  available like any result of a task, under the names of the description.  A
  reference that validation accepted finds nothing and the job fails (`Misnamed`).
  If the two lists hold the same names in another order, it finds the value of
  another position, perhaps of another type than the one checked.
- *Buried references.*  A reference below an argument mapping with a key `task`
  makes no dependency, against `task-engine-reference.rst:646`; the step may run
  before the one it refers to.
- *Files of overlapping requests.*  Two files of a plugin can get one name, and
  the bundle (`v1/file_types.py:110`) then holds one of them; a file
  that another request changed disappears from the latest plugin snapshot.
- *Plugins of one name.*  An import compares the paths of its plugins
  (`v1/workflows/service.py:532`) and names them by the last part of the path
  (`:549`).  Two of one name pass; under "overwrite" the second deletes the
  first, under "update" its files are added to those of the first.  So
  `ImportsDeliver` speaks of the last item of a name.
- *Versions of a model.*  A modification of version 1 of 2 makes version 1 the
  latest (`v1/models/service.py:353`), so the next one created is a second number 2
  (`:533`), although numbers are how versions are found.
- *Artifacts.*  A job lists an artifact once per snapshot, since the query of
  `JobIdService.get` (`v1/jobs/service.py:525`, and `_build_job_dict`) does not ask for the
  latest one; a described artifact appears twice.
- *Rejected log posts.*  An answer with an error raises nothing in the client of
  the log handler, which clears its buffer (`handlers.py:91`): the records of that
  post are lost, and nobody is told.  `_send_buffered_logs` reports the records
  of a post that raised.
- *Metrics.*  A value that is not finite is replaced by 0 when a row is new, and
  stored as it came when it is updated (`v1/jobs/service.py:755`).  The text column
  keeps the reading right.
- *Types.*  An empty mapping is refused where a mapping with integer keys is
  declared (`type_validation.py:255`); a definition `union: []` at the top level
  becomes a simple type.
- *Read-only resources.*  Deleting one is answered with "not found" and not with
  the documented `ReadOnlyLockError` (`repository/utils/resources.py:577`):
  `checks.py:155` hides the resource, and the guard of `add_resource_lock_types`
  (`:695`) that would raise the error is not reached.
- *Default group.*  Two overlapping first registrations create two
  (`v1/users/service.py:190`), while `groups-reference.rst:37` speaks of one.
- *Deferral.*  With two API processes and a user who asks for "deferred", a stale
  "deferred" can supersede "started", and the job never settles.
- *Name space of references.*  `_check_name_collisions` (`validation.py:220`) does
  not look at artifact inputs although `task_engine.py:177` relies on unique
  names.  The type checker (`type_validation.py:70`) takes a shared name for the
  artifact and the run for the step, so a value of another type than the one
  checked is passed.

## 8. Not modelled

Nothing is claimed of what follows.  It makes up most of the repository's lines,
which is why the definitions cover a small part of them: the models are about
state that several actors change, and most of this code has none.

- *Data.*  File contents, descriptions, wording, parameters and values of a job,
  and everything else that is stored and returned as it came.
- *Controllers and schemas* (`v1/*/controller.py`, `schema.py`, `v1/utils.py`,
  `errors.py`, `routes.py`): routing, validation of the form of a request, views,
  translation of errors.  One controller calls one service.
- *Search, sorting and paging*: query strings turned into SQL; reads only.
- *Group membership of the requesting user*, in the resource services: every
  client of an instance may send every request.
- *Groups other than the default one, managers and permissions*: their services
  have no route, and nothing reads the permissions.
- *Tags*: names that are looked up before the commit, as in `ResourceStore`, and
  rows of `resource_tags` that are written as `EntrypointLinks` writes those of
  `resource_dependencies`.  They have neither snapshots nor locks.
- *Signature analysis* (`v1/shared/signature_analysis.py`): a function of a source file.
- *Export*: a read of the latest snapshots.
- *Contents of artifacts* and the plugin task that loads one.
- *Client* (`client/`): one method per endpoint.  What it does about lost answers is
  in `JobLifecycle` and `JobRecords`.
- *Plugin registry and generics* (`pyplugs`, `sdk/generics`): functions registered
  at import time; `TaskEngine` treats a call as one step.
- *Object-detection SDK*: numerical code.
- *Frontend*: a user interface; what it may ask of the API any client of the models
  may ask.
- *Database migrations*: run once by an operator with the API stopped.
- *Deployment, containers, templates, examples, documentation*: nothing that keeps
  state while the system runs.
- *MLflow, Redis and the database* appear through how `src/dioptra` uses them:
  MLflow as a table of runs, Redis as a set of waiting jobs, the database as
  transactions at READ COMMITTED with their primary keys.
