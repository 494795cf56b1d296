----------------------------- MODULE JobRecords -----------------------------
(***************************************************************************)
(* What jobs leave behind: the log records that a worker forwards to the   *)
(* API, the metrics that a job reports, the artifacts that it registers    *)
(* and the versions of a model that they become.                           *)
(*                                                                         *)
(* A worker process of the API reads, and commits later; another may       *)
(* commit in between.  The handler of a runner keeps records in a buffer   *)
(* and posts it when it is full, at an error and when it is closed; it     *)
(* waits for the answer with its lock held, and forgets the records        *)
(* whatever the answer is.  Its client is of the kind that returns the     *)
(* response: an answer with an error raises nothing, and the records of    *)
(* that post are gone as well.                                             *)
(***************************************************************************)
EXTENDS Naturals, Sequences, FiniteSets

CONSTANTS
  Jobs,
  Forwarded,     \* the jobs that a worker runs: their logs are forwarded
  Capacity,      \* of the handler's buffer
  MaxRecords,    \* bound: log records of a job
  Values,        \* metric values
  Special,       \* those that are not finite: stored as 0.0 and a text
  Metrics,       \* what a row of metrics is about: a job, a name and a step
  MaxRuns,       \* bound: runs in MLflow
  Files,         \* what a run may save: with the run, the uri of an artifact
  Models,
  MaxVersions,   \* bound: versions of a model
  Workers,       \* worker processes of the REST API
  MaxRequests,   \* bound: requests about metrics, runs, artifacts, versions
  None

ASSUME BoundsAssumption ==
  /\ Capacity \in Nat \ {0} /\ MaxRecords \in Nat
  /\ MaxRuns \in Nat /\ MaxVersions \in Nat /\ MaxRequests \in Nat
ASSUME JobsAssumption == Forwarded \subseteq Jobs
ASSUME ValuesAssumption == Special \subseteq Values /\ 0 \in Values \ Special

VARIABLES
  handler,   \* of each job: where its logging handler is, and its buffer
  emitted,   \* of each job: records logged so far; they are 1, 2, ...
  logs,      \* the stored records of each job, in the order of their ids
  failed,    \* history: jobs with a post that was not answered
  refused,   \* history: of each job, the records answered with an error
  metric,    \* the stored row of each metric, or None
  runs,      \* MLflow runs so far; they are 1, 2, ...
  run,       \* the recorded run of each job, 0 when there is none
  artifacts, \* of each job: the snapshots of its artifacts
  versions,  \* of each model: the versions, with their latest snapshot
  request,   \* what each API worker is serving, None when idle
  clock, received,
  overlapped, described   \* history: rows, uris and models with two
                          \* requests at a time; models with a version that was modified

vars == <<handler, emitted, logs, failed, refused, metric, runs, run, artifacts,
          versions, request, clock, received, overlapped, described>>
logVars == <<handler, emitted, logs, failed, refused>>
artifactVars == <<runs, run, artifacts>>
rowVars == <<metric, artifactVars, versions, clock, received, overlapped, described>>

Records == 1..MaxRecords
Handler ==
  [state : {"open", "posted", "served", "closed"}, closing : BOOLEAN,
   buffer : Seq(Records)]
Uris == (1..MaxRuns) \X Files
Artifact == [id : Nat, uri : Uris, at : Nat]
Row == [value : Values, special : Special \cup {None}]
Version == [number : Nat, id : Nat, at : Nat]
LogRequest == [op : {"logs"}, job : Jobs, batch : Seq(Records)]
MetricRequest ==
  [op : {"metric"}, metric : Metrics, value : Values, seen : Row \cup {None}]
ArtifactRequest == [op : {"artifact"}, job : Jobs, artifact : Artifact]
VersionRequest == [op : {"version", "describe"}, model : Models, version : Version]
ASSUME RecordAssumption ==
  /\ None \notin Row /\ None \notin Values
  /\ None \notin LogRequest \cup MetricRequest \cup ArtifactRequest \cup VersionRequest

TypeOK ==
  /\ handler \in [Jobs -> Handler]
  /\ emitted \in [Jobs -> Nat] /\ logs \in [Jobs -> Seq(Records)]
  /\ failed \in SUBSET Jobs /\ refused \in [Jobs -> SUBSET Records]
  /\ metric \in [Metrics -> Row \cup {None}]
  /\ runs \in 0..MaxRuns /\ run \in [Jobs -> 0..runs]
  /\ artifacts \in [Jobs -> SUBSET Artifact]
  /\ versions \in [Models -> SUBSET Version]
  /\ request \in [Workers ->
       LogRequest \cup MetricRequest \cup ArtifactRequest \cup VersionRequest
         \cup {None}]
  /\ clock \in Nat /\ received \in Nat
  /\ overlapped \in SUBSET (Metrics \cup Uris \cup Models)
  /\ described \in SUBSET Models

Init ==
  /\ handler = [j \in Jobs |-> [state |-> IF j \in Forwarded THEN "open" ELSE "closed", closing |-> FALSE, buffer |-> <<>>]]
  /\ emitted = [j \in Jobs |-> 0]
  /\ logs = [j \in Jobs |-> <<>>]
  /\ failed = {} /\ refused = [j \in Jobs |-> {}]
  /\ metric = [m \in Metrics |-> None]
  /\ runs = 0 /\ run = [j \in Jobs |-> 0] /\ artifacts = [j \in Jobs |-> {}]
  /\ versions = [m \in Models |-> {}]
  /\ request = [w \in Workers |-> None]
  /\ clock = 0 /\ received = 0
  /\ overlapped = {} /\ described = {}

Members(l) == {l[i] : i \in 1..Len(l)}

Serving(w, op) == request[w] # None /\ request[w].op = op
Answered(w) == request' = [request EXCEPT ![w] = None]

-----------------------------------------------------------------------------
(* The logging handler of a runner                                         *)

ShouldFlush(buffer, severe) == Len(buffer) >= Capacity \/ severe

\* The job logs a record; the lock of the handler keeps others out while a
\* post is not answered.
Emit(j, severe) ==
  /\ handler[j].state = "open" /\ emitted[j] < MaxRecords
  /\ emitted' = [emitted EXCEPT ![j] = @ + 1]
  /\ LET buffer == Append(handler[j].buffer, emitted[j] + 1) IN
     handler' = [handler EXCEPT
       ![j].buffer = buffer,
       ![j].state = IF ShouldFlush(buffer, severe) THEN "posted" ELSE "open"]
  /\ UNCHANGED <<logs, failed, refused, request, rowVars>>

\* Mutant: close() drops what is in the buffer.
CloseUnflushed(j) ==
  /\ handler[j].state = "open"
  /\ handler' = [handler EXCEPT ![j].state = "closed", ![j].buffer = <<>>]
  /\ UNCHANGED <<emitted, logs, failed, refused, request, rowVars>>

\* The end of the run, however it ends, closes the handler: close() flushes.
Close(j) ==
  /\ handler[j].state = "open"
  /\ handler' = [handler EXCEPT
       ![j].state = IF handler[j].buffer = <<>> THEN "closed" ELSE "posted",
       ![j].closing = TRUE]
  /\ UNCHANGED <<emitted, logs, failed, refused, request, rowVars>>

\* Mutant: a post is repeated until it is answered.
WithoutBufferOnceAnswered(h, answered) ==
  IF answered
  THEN [h EXCEPT !.buffer = <<>>, !.state = IF h.closing THEN "closed" ELSE "open"]
  ELSE [h EXCEPT !.state = "posted"]

\* flush() clears the buffer after the post, whether it raised or not.
WithoutBuffer(h, answered) ==
  [h EXCEPT !.buffer = <<>>, !.state = IF h.closing THEN "closed" ELSE "open"]

ServeLogs(w, j) ==
  /\ request[w] = None /\ handler[j].state = "posted"
  /\ request' = [request EXCEPT ![w] =
       [op |-> "logs", job |-> j, batch |-> handler[j].buffer]]
  /\ handler' = [handler EXCEPT ![j].state = "served"]
  /\ UNCHANGED <<emitted, logs, failed, refused, rowVars>>

\* The handler goes on if it still waits for the answer to this post.
AnswerHandler(q) ==
  handler' = IF handler[q.job].state = "served" /\ handler[q.job].buffer = q.batch
             THEN [handler EXCEPT ![q.job] = WithoutBuffer(@, TRUE)] ELSE handler

\* add_logs() stores the records of a post in one transaction, in their order.
CommitLogs(w) ==
  /\ Serving(w, "logs")
  /\ LET q == request[w] IN
     logs' = [logs EXCEPT ![q.job] = @ \o q.batch] /\ AnswerHandler(q)
  /\ Answered(w)
  /\ UNCHANGED <<emitted, failed, refused, rowVars>>

\* The answer is an error: the job was deleted, the login has ended, the
\* transaction was rolled back.  To the handler it is an answer like any other.
RejectLogs(w) ==
  /\ Serving(w, "logs")
  /\ LET q == request[w] IN
     refused' = [refused EXCEPT ![q.job] = @ \cup Members(q.batch)] /\ AnswerHandler(q)
  /\ Answered(w)
  /\ UNCHANGED <<emitted, logs, failed, rowVars>>

\* The connection breaks, before or while the post is served.
PostFails(j) ==
  /\ handler[j].state \in {"posted", "served"}
  /\ handler' = [handler EXCEPT ![j] = WithoutBuffer(@, FALSE)]
  /\ failed' = failed \cup {j}
  /\ UNCHANGED <<emitted, logs, refused, request, rowVars>>

\* A worker process dies with the transaction of its request.
WorkerDies(w) == request[w] # None /\ Answered(w) /\ UNCHANGED <<logVars, rowVars>>

-----------------------------------------------------------------------------
(* Metrics                                                                 *)

Subject(q) ==
  CASE q.op = "metric" -> {q.metric}
    [] q.op = "artifact" -> {q.artifact.uri}
    [] q.op \in {"version", "describe"} -> {q.model}
    [] OTHER -> {}
InService == UNION {Subject(request[w]) : w \in {v \in Workers : request[v] # None}}

Receive(w, q) ==
  /\ request[w] = None /\ received < MaxRequests
  /\ received' = received + 1
  /\ request' = [request EXCEPT ![w] = q]
  /\ overlapped' = overlapped \cup (Subject(q) \cap InService)

\* update() reads the row of the metric and its step.
ReportMetric(w, m, v) ==
  /\ Receive(w, [op |-> "metric", metric |-> m, value |-> v, seen |-> metric[m]])
  /\ UNCHANGED <<logVars, metric, artifactVars, versions, clock, described>>

SpecialOf(v) == IF v \in Special THEN v ELSE None
NewRow(q) ==
  [value |-> IF q.value \in Special THEN 0 ELSE q.value,
   special |-> SpecialOf(q.value)]

\* Mutant: the text of the special value is left as it is.
ChangedRowSpecialKept(row, q) == [row EXCEPT !.value = q.value]

\* The UPDATE sets the columns that differ from the row that was read; the
\* value is the one that was sent.
ChangedRow(row, q) ==
  [value |-> IF q.value # q.seen.value THEN q.value ELSE row.value,
   special |-> IF SpecialOf(q.value) # q.seen.special THEN SpecialOf(q.value)
               ELSE row.special]

\* The key of a metric row refuses the second of two overlapping inserts.
CommitMetric(w) ==
  /\ Serving(w, "metric")
  /\ LET q == request[w] IN
     metric' = CASE q.seen = None /\ metric[q.metric] = None ->
                      [metric EXCEPT ![q.metric] = NewRow(q)]
                 [] q.seen # None -> [metric EXCEPT ![q.metric] = ChangedRow(@, q)]
                 [] OTHER -> metric
  /\ Answered(w)
  /\ UNCHANGED <<logVars, artifactVars, versions, clock, received, overlapped, described>>

-----------------------------------------------------------------------------
(* Artifacts                                                               *)

\* main() starts a run in MLflow and records it for the job, whose row holds
\* one run at most; JobLifecycle has the steps of it.
RecordRun(j) ==
  /\ run[j] = 0 /\ runs < MaxRuns
  /\ runs' = runs + 1
  /\ run' = [run EXCEPT ![j] = runs + 1]
  /\ UNCHANGED <<logVars, metric, artifacts, versions, request, clock, received,
                 overlapped, described>>

\* A reset deletes the row of the run; the artifacts stay.
DropRun(j) ==
  /\ run[j] # 0 /\ received < MaxRequests
  /\ received' = received + 1
  /\ run' = [run EXCEPT ![j] = 0]
  /\ UNCHANGED <<logVars, metric, runs, artifacts, versions, request, clock,
                 overlapped, described>>

\* Mutant: the run in the uri is not compared with the run of the job.
FoundInAnyRun(j, uri) == run[j] # 0 /\ uri[1] \in 1..runs

\* find_artifact(): the uri names a file of the run that the job has recorded.
FoundInRun(j, uri) == run[j] # 0 /\ uri[1] = run[j]

RegisterArtifact(w, j, uri) ==
  /\ FoundInRun(j, uri)
  /\ \A a \in artifacts[j] : a.uri # uri
  /\ clock' = clock + 1
  /\ Receive(w, [op |-> "artifact", job |-> j,
                 artifact |-> [id |-> clock + 1, uri |-> uri, at |-> clock + 1]])
  /\ UNCHANGED <<logVars, metric, artifactVars, versions, described>>

LatestArtifacts(j) ==
  {a \in artifacts[j] : \A b \in artifacts[j] : b.id = a.id => b.at <= a.at}

\* A new description is a new snapshot with the uri of the old one.
DescribeArtifact(w, j, a) ==
  /\ a \in LatestArtifacts(j)
  /\ clock' = clock + 1
  /\ Receive(w, [op |-> "artifact", job |-> j, artifact |-> [a EXCEPT !.at = clock + 1]])
  /\ UNCHANGED <<logVars, metric, artifactVars, versions, described>>

\* No index is on the uri: the snapshot is added whatever came in between.
CommitArtifact(w) ==
  /\ Serving(w, "artifact")
  /\ LET q == request[w] IN
     artifacts' = [artifacts EXCEPT ![q.job] = @ \cup {q.artifact}]
  /\ Answered(w)
  /\ UNCHANGED <<logVars, metric, runs, run, versions, clock, received, overlapped,
                 described>>

-----------------------------------------------------------------------------
(* Versions of a model                                                     *)

\* Mutant: the order of the versions is ascending.
EarliestVersion(m) == CHOOSE v \in versions[m] : \A u \in versions[m] : u.at >= v.at

\* ModelIdService.get(): of the latest snapshots of a model's versions, the
\* one that was created last.
LatestVersion(m) == CHOOSE v \in versions[m] : \A u \in versions[m] : u.at <= v.at

NextNumber(m) == IF versions[m] = {} THEN 1 ELSE LatestVersion(m).number + 1

CreateVersion(w, m) ==
  /\ Cardinality(versions[m]) < MaxVersions
  /\ clock' = clock + 1
  /\ Receive(w, [op |-> "version", model |-> m,
                 version |-> [number |-> NextNumber(m), id |-> clock + 1, at |-> clock + 1]])
  /\ UNCHANGED <<logVars, metric, artifactVars, versions, described>>

\* A new snapshot of the version with a given number: one of them, if several
\* have the number.
DescribeVersion(w, m, v) ==
  /\ v \in versions[m]
  /\ clock' = clock + 1
  /\ Receive(w, [op |-> "describe", model |-> m,
                 version |-> [v EXCEPT !.at = clock + 1]])
  /\ UNCHANGED <<logVars, metric, artifactVars, versions, described>>

CommitVersion(w) ==
  /\ \E op \in {"version", "describe"} : Serving(w, op)
  /\ LET q == request[w]
         same == {v \in versions[q.model] : v.id = q.version.id}
     IN /\ versions' = [versions EXCEPT ![q.model] =
             IF \E v \in same : v.at > q.version.at THEN @
             ELSE (@ \ same) \cup {q.version}]
        /\ described' = IF q.op = "describe" THEN described \cup {q.model} ELSE described
  /\ Answered(w)
  /\ UNCHANGED <<logVars, metric, artifactVars, clock, received, overlapped>>

Next ==
  \/ \E j \in Jobs : \/ \E severe \in BOOLEAN : Emit(j, severe)
                     \/ Close(j) \/ PostFails(j)
                     \/ RecordRun(j) \/ DropRun(j)
  \/ \E w \in Workers :
       \/ \E j \in Jobs : ServeLogs(w, j)
       \/ \E m \in Metrics, v \in Values : ReportMetric(w, m, v)
       \/ \E j \in Jobs : \/ \E uri \in Uris : RegisterArtifact(w, j, uri)
                         \/ \E a \in artifacts[j] : DescribeArtifact(w, j, a)
       \/ \E m \in Models : CreateVersion(w, m)
       \/ \E m \in Models : \E v \in versions[m] : DescribeVersion(w, m, v)
       \/ CommitLogs(w) \/ RejectLogs(w) \/ CommitMetric(w)
       \/ CommitArtifact(w) \/ CommitVersion(w)
       \/ WorkerDies(w)

Spec == Init /\ [][Next]_vars

\* The workers of the API go on; a job that ended closes its handler, and a
\* post that nobody serves any more breaks.
Fairness ==
  /\ \A w \in Workers : WF_vars(CommitLogs(w) \/ RejectLogs(w) \/ CommitMetric(w)
                                  \/ CommitArtifact(w) \/ CommitVersion(w))
  /\ \A j \in Jobs : WF_vars(Close(j)) /\ WF_vars(PostFails(j))
FairSpec == Spec /\ Fairness

-----------------------------------------------------------------------------
(* Properties                                                              *)

\* A record is never stored twice, also when a post was served whose answer
\* was lost: what was posted once is not posted again.
LogsStoredOnce == \A j \in Jobs : Cardinality(Members(logs[j])) = Len(logs[j])

Increasing(l) == \A i, k \in 1..Len(l) : i < k => l[i] < l[k]

\* While no post of a job breaks, its records are stored in the order in which
\* they were logged, and those missing are in the buffer or were in a post that
\* the API answered with an error: the end of a run drops none, and no record
\* is overtaken by a later one.
LogsCompleteInOrder ==
  \A j \in Jobs \ failed :
    LET kept == logs[j] \o handler[j].buffer IN
    /\ Increasing(kept)
    /\ Members(kept) = (1..emitted[j]) \ refused[j]

\* A metric reads as its last report, unless reports of it overlapped: value
\* and text are columns of their own and an update writes what it changes.
MetricsReadAsReported ==
  [][\A w \in Workers :
       CommitMetric(w) /\ request[w].metric \notin overlapped
       => LET row == metric'[request[w].metric] IN
          (IF row.special # None THEN row.special ELSE row.value) = request[w].value]_vars

\* Versions have different numbers, which is how they are found, unless
\* requests overlapped or a version was modified.
NumbersUnique ==
  \A m \in Models \ (overlapped \cup described) :
    \A u, v \in versions[m] : u.number = v.number => u = v

\* No two artifacts, of one job or of two, have the same uri, unless requests
\* with it overlapped: only the job that recorded a run finds its files, also
\* when a reset made it forget the run, and it finds each of them once.
ArtifactsHaveTheirUri ==
  \A i, j \in Jobs : \A a \in artifacts[i], b \in artifacts[j] :
    a.uri = b.uri /\ a.uri \notin overlapped => i = j /\ a.id = b.id

\* Every handler is closed in the end: no lost answer blocks the job.
HandlersClose == \A j \in Jobs : <>(handler[j].state = "closed")

=============================================================================
