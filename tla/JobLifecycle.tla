---------------------------- MODULE JobLifecycle ----------------------------
(***************************************************************************)
(* The life of a Dioptra job, from its registration with the REST API to   *)
(* the report of its outcome.                                              *)
(*                                                                         *)
(*   - The REST API runs in ApiWorkers processes over one database.  Every *)
(*     request is a transaction at READ COMMITTED: what it read may be     *)
(*     stale by the time it commits.                                       *)
(*   - A job's status is the status of its latest snapshot, the one with   *)
(*     the greatest created_on.  created_on is taken when the object is    *)
(*     built, not when it is committed.                                    *)
(*   - Redis Queue hands each submitted job to one worker, which runs      *)
(*     main() of run_dioptra_job.  One runner is one run of main(): forked *)
(*     by a worker, or started from a shell in "connected" mode.           *)
(*   - MLflow keeps a run for each runner that got far enough to start one.*)
(***************************************************************************)
EXTENDS Naturals, FiniteSets

CONSTANTS
    Jobs,              \* jobs that may be registered
    WorkerRunners,     \* runs of main() forked by Redis Queue workers
    ConnectedRunners,  \* runs of main() started by "run_dioptra_job connected"
    Users,             \* clients other than the workers
    None,              \* no runner
    ApiWorkers,        \* processes that serve the REST API (gunicorn "workers")
    UserStatuses,      \* the statuses users ask for
    MaxUserRequests,   \* bound: requests made by users
    Faults             \* the faults that may happen, a subset of FaultKinds

FaultKinds ==
    {"api_crash", "lost_response", "worker_crash", "timeout", "sys_exit", "login"}

Statuses == {"queued", "started", "deferred", "finished", "failed"}
RequestStatuses == Statuses \cup {"reset"}

Runners == WorkerRunners \cup ConnectedRunners

ASSUME ConstantsAssumption ==
    /\ WorkerRunners \cap ConnectedRunners = {}
    /\ Users \cap Runners = {}
    /\ None \notin Runners
    /\ ApiWorkers \in Nat \ {0}
    /\ MaxUserRequests \in Nat
    /\ UserStatuses \subseteq RequestStatuses
    /\ Faults \subseteq FaultKinds

VARIABLES
    snaps,         \* job -> its committed snapshots
    deleted,       \* job -> does it hold a delete lock?
    mlflowRun,     \* job -> the runner whose MLflow run it records, or None
    clock,         \* the next created_on timestamp
    creating,      \* jobs committed by JobService.create but not yet submitted
    rq,            \* jobs waiting in the Redis queue
    requests,      \* requests on their way to, or being served by, the API
    userRequests,  \* requests users have made so far
    pc,            \* runner -> where it is in main()
    runOf,         \* runner -> the job it runs, or None
    tracked        \* runner -> state of its run on the MLflow server

database == <<snaps, deleted, mlflowRun, clock>>
runnerVars == <<pc, runOf, tracked>>
vars == <<snaps, deleted, mlflowRun, clock, creating, rq, requests,
          userRequests, pc, runOf, tracked>>

Live  == {"starting", "fetching", "preparing", "tracking", "running",
          "finishing", "failing"}
Ended == {"done", "raised", "exited", "crashed"}

Snapshot ==
    [stamp: Nat, status: Statuses, base: Nat, by: Users \cup Runners]

\* "sent": not served yet; "read": checks done; "built": snapshot constructed.
\* seen is the stamp of the snapshot the request was checked against, drop the
\* MLflow run its DELETE statement matched.
Request ==
    [client: Users \cup Runners, job: Jobs,
     kind: RequestStatuses \cup {"mlflow", "delete"},
     phase: {"sent", "read", "built"},
     seen: Nat, stamp: Nat, drop: Runners \cup {None}]

TypeOK ==
    /\ snaps \in [Jobs -> SUBSET Snapshot]
    /\ deleted \in [Jobs -> BOOLEAN]
    /\ mlflowRun \in [Jobs -> Runners \cup {None}]
    /\ clock \in Nat
    /\ creating \subseteq Jobs
    /\ rq \subseteq Jobs
    /\ requests \subseteq Request
    /\ userRequests \in Nat
    /\ pc \in [Runners -> {"idle"} \cup Live \cup Ended]
    /\ runOf \in [Runners -> Jobs \cup {None}]
    /\ tracked \in [Runners -> {"none", "running", "finished", "failed"}]

-----------------------------------------------------------------------------
(* The statuses a job may be asked to take, by its present one.            *)

\* Mutant: a finished job may still be reported as failed.
TransitionsLateFailure ==
    [queued   |-> {"started", "deferred", "reset"},
     started  |-> {"finished", "failed", "reset"},
     deferred |-> {"started", "reset"},
     failed   |-> {"reset"},
     finished |-> {"failed", "reset"}]

JOB_STATUS_TRANSITIONS ==
    [queued   |-> {"started", "deferred", "reset"},
     started  |-> {"finished", "failed", "reset"},
     deferred |-> {"started", "reset"},
     failed   |-> {"reset"},
     finished |-> {"reset"}]

\* A reset is recorded as a new "queued" snapshot.
RecordedStatus(kind) == IF kind = "reset" THEN "queued" ELSE kind

Registered(j) == snaps[j] # {}

LatestSnapshot(j) ==
    CHOOSE s \in snaps[j] : \A t \in snaps[j] : t.stamp <= s.stamp

Status(j) == IF Registered(j) THEN LatestSnapshot(j).status ELSE "none"

\* JobIdService.get finds the job.
Visible(j) == Registered(j) /\ ~deleted[j]

NewRequest(client, job, kind) ==
    [client |-> client, job |-> job, kind |-> kind, phase |-> "sent",
     seen |-> 0, stamp |-> 0, drop |-> None]

Serving == {q \in requests : q.phase # "sent"}

\* A process of the API is free to take a request.
ApiFree == Cardinality(Serving) + Cardinality(creating) < ApiWorkers

Init ==
    /\ snaps = [j \in Jobs |-> {}]
    /\ deleted = [j \in Jobs |-> FALSE]
    /\ mlflowRun = [j \in Jobs |-> None]
    /\ clock = 1
    /\ creating = {}
    /\ rq = {}
    /\ requests = {}
    /\ userRequests = 0
    /\ pc = [r \in Runners |-> "idle"]
    /\ runOf = [r \in Runners |-> None]
    /\ tracked = [r \in Runners |-> "none"]

-----------------------------------------------------------------------------
(* JobService.create: commit the job, then submit it to Redis Queue.       *)

CommitNewJob(u, j) ==
    /\ ~Registered(j)
    /\ ApiFree
    /\ snaps' = [snaps EXCEPT ![j] =
           {[stamp |-> clock, status |-> "queued", base |-> 0, by |-> u]}]
    /\ clock' = clock + 1
    /\ creating' = creating \cup {j}
    /\ UNCHANGED <<deleted, mlflowRun, rq, requests, userRequests, runnerVars>>

SubmitNewJob(j) ==
    /\ j \in creating
    /\ creating' = creating \ {j}
    /\ rq' = rq \cup {j}
    /\ UNCHANGED <<database, requests, userRequests, runnerVars>>

\* The process dies, or Redis cannot be reached, after the commit.
LoseNewJob(j) ==
    /\ "api_crash" \in Faults
    /\ j \in creating
    /\ creating' = creating \ {j}
    /\ UNCHANGED <<database, rq, requests, userRequests, runnerVars>>

-----------------------------------------------------------------------------
(* What a runner does with the answer to a request: main() blocks on each  *)
(* request, so only the request it is blocked on moves it.                 *)

Awaits(r, kind) ==
    <<pc[r], kind>> \in {<<"starting", "started">>, <<"tracking", "mlflow">>,
                         <<"finishing", "finished">>, <<"failing", "failed">>}

\* Where main() goes from each of them when the request succeeds.
Succeeds(from, to) ==
    <<from, to>> \in {<<"starting", "fetching">>, <<"tracking", "running">>,
                      <<"finishing", "done">>, <<"failing", "raised">>}

\* Mutant: the failure is not reported, and main() waits for an answer.
HandleExceptionSilently(r, rest) ==
    /\ pc' = [pc EXCEPT ![r] = "failing"]
    /\ tracked' = [tracked EXCEPT ![r] = IF @ = "running" THEN "failed" ELSE @]
    /\ requests' = rest
    /\ UNCHANGED runOf

\* The handler of main(): report the failure, then re-raise.  An MLflow run
\* that was started is ended with "FAILED" first.
HandleException(r, rest) ==
    /\ pc' = [pc EXCEPT ![r] = "failing"]
    /\ tracked' = [tracked EXCEPT ![r] = IF @ = "running" THEN "failed" ELSE @]
    /\ requests' = rest \cup {NewRequest(r, runOf[r], "failed")}
    /\ UNCHANGED runOf

\* The request q is answered with success and leaves the API.
ReplyOk(q) ==
    /\ requests' = requests \ {q}
    /\ UNCHANGED <<runOf, tracked>>
    /\ IF q.client \in Runners /\ Awaits(q.client, q.kind)
       THEN \E to \in Live \cup Ended :
                /\ Succeeds(pc[q.client], to)
                /\ pc' = [pc EXCEPT ![q.client] = to]
       ELSE UNCHANGED pc

\* Mutant: errors are swallowed, main() goes on as if it had succeeded.
ReplyErrorSwallowed(q) == ReplyOk(q)

\* The request q is answered with an error status, or not at all.
ReplyError(q) ==
    IF q.client \in Runners /\ Awaits(q.client, q.kind)
    THEN IF q.kind = "mlflow"
         THEN HandleException(q.client, requests \ {q})
         ELSE /\ pc' = [pc EXCEPT ![q.client] =
                    IF @ = "starting" THEN "exited" ELSE "raised"]
              /\ requests' = requests \ {q}
              /\ UNCHANGED <<runOf, tracked>>
    ELSE /\ requests' = requests \ {q}
         /\ UNCHANGED runnerVars

-----------------------------------------------------------------------------
(* The REST API serves a request: read and check, build, commit.           *)

\* Mutant: any status may follow any other.
AcceptsAnyTransition(q) ==
    /\ Visible(q.job)
    /\ q.kind = "mlflow" => mlflowRun[q.job] = None

\* The checks a request passes before it is carried out.
Accepts(q) ==
    /\ Visible(q.job)
    /\ q.kind \in RequestStatuses =>
           q.kind \in JOB_STATUS_TRANSITIONS[Status(q.job)]
    /\ q.kind = "mlflow" => mlflowRun[q.job] = None

Checked(q) ==
    [client |-> q.client, job |-> q.job, kind |-> q.kind, phase |-> "read",
     seen |-> LatestSnapshot(q.job).stamp, stamp |-> 0, drop |-> None]

Built(q, drop) ==
    [client |-> q.client, job |-> q.job, kind |-> q.kind, phase |-> "built",
     seen |-> q.seen, stamp |-> clock, drop |-> drop]

ApiRead(q) ==
    /\ q.phase = "sent"
    /\ ApiFree
    /\ Accepts(q)
    /\ requests' = (requests \ {q}) \cup {Checked(q)}
    /\ UNCHANGED <<database, creating, rq, userRequests, runnerVars>>

ApiReject(q) ==
    /\ q.phase = "sent"
    /\ ApiFree
    /\ ~Accepts(q)
    /\ ReplyError(q)
    /\ UNCHANGED <<database, creating, rq, userRequests>>

\* ExperimentJobIdStatusService.modify: a reset first deletes the MLflow run it
\* finds; then the new snapshot is built, which stamps it.
ApiBuild(q) ==
    /\ q.phase = "read"
    /\ q.kind \in RequestStatuses
    /\ requests' = (requests \ {q}) \cup
           {Built(q, IF q.kind = "reset" THEN mlflowRun[q.job] ELSE None)}
    /\ clock' = clock + 1
    /\ UNCHANGED <<snaps, deleted, mlflowRun, creating, rq, userRequests, runnerVars>>

\* Effect of the commit on the database.
CommitStatus(q) ==
    /\ q.phase = "built"
    /\ snaps' = [snaps EXCEPT ![q.job] = @ \cup
           {[stamp |-> q.stamp, status |-> RecordedStatus(q.kind),
             base |-> q.seen, by |-> q.client]}]
    /\ mlflowRun' = [mlflowRun EXCEPT ![q.job] = IF @ = q.drop THEN None ELSE @]
    /\ UNCHANGED <<deleted, clock>>

\* Mutant: no primary key protects the MLflow run of a job.
MlflowRunOverwritten(q) ==
    /\ q.kind = "mlflow"
    /\ q.phase = "read"
    /\ mlflowRun' = [mlflowRun EXCEPT ![q.job] = q.client]
    /\ UNCHANGED <<snaps, deleted, clock>>

CommitMlflowRun(q) ==
    /\ q.kind = "mlflow"
    /\ q.phase = "read"
    /\ mlflowRun[q.job] = None
    /\ mlflowRun' = [mlflowRun EXCEPT ![q.job] = q.client]
    /\ UNCHANGED <<snaps, deleted, clock>>

CommitDelete(q) ==
    /\ q.kind = "delete"
    /\ q.phase = "read"
    /\ ~deleted[q.job]
    /\ deleted' = [deleted EXCEPT ![q.job] = TRUE]
    /\ UNCHANGED <<snaps, mlflowRun, clock>>

Commit(q) == CommitStatus(q) \/ CommitMlflowRun(q) \/ CommitDelete(q)

ApiCommit(q) ==
    /\ Commit(q)
    /\ ReplyOk(q)
    /\ UNCHANGED <<creating, rq, userRequests>>

\* The row was inserted by another request in the meantime: a primary key is
\* violated and the transaction rolled back.
ApiConflict(q) ==
    /\ q.phase = "read"
    /\ \/ q.kind = "mlflow" /\ mlflowRun[q.job] # None
       \/ q.kind = "delete" /\ deleted[q.job]
    /\ ReplyError(q)
    /\ UNCHANGED <<database, creating, rq, userRequests>>

\* The transaction commits but the client never sees the answer.
ApiCommitUnanswered(q) ==
    /\ "lost_response" \in Faults
    /\ Commit(q)
    /\ ReplyError(q)
    /\ UNCHANGED <<creating, rq, userRequests>>

\* The process serving the request dies: nothing is committed.
ApiCrash(q) ==
    /\ "api_crash" \in Faults
    /\ q.phase # "sent"
    /\ ReplyError(q)
    /\ UNCHANGED <<database, creating, rq, userRequests>>

-----------------------------------------------------------------------------
(* Users ask for a status, for instance a reset, or delete a job.  Nobody  *)
(* observes a user's request before the API reads it, and one that is      *)
(* rejected leaves no trace: a request appears when it is read.            *)

UserRequest(u, j, kind) ==
    /\ kind \in UserStatuses \cup {"delete"}
    /\ userRequests < MaxUserRequests
    /\ ApiFree
    /\ Accepts(NewRequest(u, j, kind))
    /\ \A q \in requests : q.client # u
    /\ requests' = requests \cup {Checked(NewRequest(u, j, kind))}
    /\ userRequests' = userRequests + 1
    /\ UNCHANGED <<database, creating, rq, runnerVars>>

-----------------------------------------------------------------------------
(* run_dioptra_job.main, one action for each step at which the outside     *)
(* world may intervene.                                                    *)

Begin(r, j) ==
    /\ pc' = [pc EXCEPT ![r] = "starting"]
    /\ runOf' = [runOf EXCEPT ![r] = j]
    /\ requests' = requests \cup {NewRequest(r, j, "started")}
    /\ UNCHANGED <<database, creating, userRequests, tracked>>

\* A worker takes the job off the queue and forks a runner for it.
RunnerDequeue(r) ==
    /\ r \in WorkerRunners
    /\ pc[r] = "idle"
    /\ \E j \in rq : rq' = rq \ {j} /\ Begin(r, j)

RunnerConnect(r) ==
    /\ r \in ConnectedRunners
    /\ pc[r] = "idle"
    /\ \E j \in Jobs : Registered(j) /\ Begin(r, j)
    /\ UNCHANGED rq

\* Logging in to the API fails before anything is reported.
RunnerLoginFails(r) ==
    /\ "login" \in Faults
    /\ r \in WorkerRunners
    /\ pc[r] = "idle"
    /\ \E j \in rq : rq' = rq \ {j} /\ runOf' = [runOf EXCEPT ![r] = j]
    /\ pc' = [pc EXCEPT ![r] = "raised"]
    /\ UNCHANGED <<database, creating, requests, userRequests, tracked>>

RunnerMoves(r, from, to) ==
    /\ pc[r] = from
    /\ pc' = [pc EXCEPT ![r] = to]

\* jobs.get_by_id is not within the try statement.
RunnerFetch(r) ==
    /\ RunnerMoves(r, "fetching", IF Visible(runOf[r]) THEN "preparing" ELSE "raised")
    /\ UNCHANGED <<database, creating, rq, requests, userRequests, runOf, tracked>>

\* Everything is downloaded and valid: start an MLflow run and record it.
RunnerTrack(r) ==
    /\ RunnerMoves(r, "preparing", "tracking")
    /\ tracked' = [tracked EXCEPT ![r] = "running"]
    /\ requests' = requests \cup {NewRequest(r, runOf[r], "mlflow")}
    /\ UNCHANGED <<database, creating, rq, userRequests, runOf>>

\* Mutant: main() ends without reporting success.
SucceedSilently(r) ==
    /\ RunnerMoves(r, "running", "done")
    /\ tracked' = [tracked EXCEPT ![r] = "finished"]
    /\ UNCHANGED <<database, creating, rq, requests, userRequests, runOf>>

\* The experiment ran and its artifacts are registered.
RunnerSucceed(r) ==
    /\ RunnerMoves(r, "running", "finishing")
    /\ tracked' = [tracked EXCEPT ![r] = "finished"]
    /\ requests' = requests \cup {NewRequest(r, runOf[r], "finished")}
    /\ UNCHANGED <<database, creating, rq, userRequests, runOf>>

\* An exception inside the try statement of main().
RunnerFail(r) ==
    /\ pc[r] \in {"preparing", "running"}
    /\ HandleException(r, requests)
    /\ UNCHANGED <<database, creating, rq, userRequests>>

\* exit(1) raises SystemExit, which "except Exception" does not catch.
RunnerSysExit(r) ==
    /\ "sys_exit" \in Faults
    /\ pc[r] \in {"preparing", "running"}
    /\ pc' = [pc EXCEPT ![r] = "exited"]
    /\ UNCHANGED <<database, creating, rq, requests, userRequests, runOf, tracked>>

\* Redis Queue raises JobTimeoutException in the runner, at any point.
RunnerTimeout(r) ==
    /\ "timeout" \in Faults
    /\ r \in WorkerRunners
    /\ \/ /\ pc[r] \in {"preparing", "tracking", "running"}
          /\ HandleException(r, requests)
       \/ /\ pc[r] \in {"starting", "fetching", "finishing", "failing"}
          /\ pc' = [pc EXCEPT ![r] = "raised"]
          /\ UNCHANGED <<requests, runOf, tracked>>
    /\ UNCHANGED <<database, creating, rq, userRequests>>

RunnerCrash(r) ==
    /\ "worker_crash" \in Faults
    /\ pc[r] \in Live
    /\ pc' = [pc EXCEPT ![r] = "crashed"]
    /\ UNCHANGED <<database, creating, rq, requests, userRequests, runOf, tracked>>

-----------------------------------------------------------------------------

CreateStep ==
    \E j \in Jobs :
        \/ \E u \in Users : CommitNewJob(u, j)
        \/ SubmitNewJob(j)
        \/ LoseNewJob(j)

ApiStep(q) ==
    \/ ApiRead(q) \/ ApiReject(q) \/ ApiBuild(q) \/ ApiCommit(q) \/ ApiConflict(q)

ApiFault(q) == ApiCommitUnanswered(q) \/ ApiCrash(q)

UserStep == \E u \in Users, j \in Jobs, k \in RequestStatuses \cup {"delete"} :
                UserRequest(u, j, k)

RunnerStep(r) ==
    \/ RunnerDequeue(r) \/ RunnerFetch(r) \/ RunnerTrack(r)
    \/ RunnerSucceed(r) \/ RunnerFail(r)

RunnerOther(r) ==
    \/ RunnerConnect(r) \/ RunnerLoginFails(r) \/ RunnerSysExit(r)
    \/ RunnerTimeout(r) \/ RunnerCrash(r)

Next ==
    \/ CreateStep
    \/ \E q \in requests : ApiStep(q) \/ ApiFault(q)
    \/ UserStep
    \/ \E r \in Runners : RunnerStep(r) \/ RunnerOther(r)

Spec == Init /\ [][Next]_vars

\* The API keeps serving, an API process that committed a job goes on to submit
\* it, workers keep polling and running: each is a loop of its own process.
Fairness ==
    /\ \A j \in Jobs : WF_vars(SubmitNewJob(j))
    /\ WF_vars(\E q \in requests : ApiStep(q))
    /\ \A r \in Runners : WF_vars(RunnerStep(r))

FairSpec == Spec /\ Fairness

-----------------------------------------------------------------------------
(* Properties.                                                             *)

\* A later snapshot put the job back in the queue.
Requeued(j) == \E s \in snaps[j] : s.status = "queued" /\ s.base # 0

\* Redis never holds a job the database does not: JobService.create commits
\* before it submits, so the worker that dequeues the job finds it.
SubmittedJobsAreRegistered == \A j \in rq \cup creating : Registered(j)

\* Every status change was allowed by JOB_STATUS_TRANSITIONS from a status the
\* job really had, earlier: requests may overlap, and be delayed for any time
\* between their check and their commit, but none invents a transition.
StatusChangesAreLegal ==
    \A j \in Jobs : \A s \in snaps[j] : s.base # 0 =>
        \E t \in snaps[j] :
            /\ t.stamp = s.base
            /\ t.stamp < s.stamp
            /\ \E k \in JOB_STATUS_TRANSITIONS[t.status] :
                   s.status = RecordedStatus(k)

\* created_on identifies the snapshots of a job, and none is from the future:
\* "the latest snapshot" is always one snapshot.
StampsAreUnique ==
    \A j \in Jobs : \A s, t \in snaps[j] :
        s.stamp < clock /\ (s.stamp = t.stamp => s = t)

\* A job that was never reset is reported as finished only by the runner whose
\* MLflow run the job records, and only when that run ended successfully, even
\* when several runners were started for the job.
FinishedJobsHaveTheirRun ==
    \A j \in Jobs : \A s \in snaps[j] :
        s.status = "finished" /\ ~Requeued(j) =>
            mlflowRun[j] = s.by /\ tracked[s.by] = "finished"

\* A runner that executes the experiment is the one the job records, unless the
\* job was reset under it: at most one runner executes a job that was not reset,
\* although several may have been told that they started it.
RunningRunnersAreRecorded ==
    \A r \in Runners : pc[r] \in {"running", "finishing"} =>
        mlflowRun[runOf[r]] = r \/ Requeued(runOf[r])

\* Task code runs only after the job was reported as started by its runner.
RunnersReportStart ==
    \A r \in Runners :
        pc[r] \in {"fetching", "preparing", "tracking", "running", "finishing",
                  "failing", "done"}
        => \E s \in snaps[runOf[r]] : s.by = r /\ s.status = "started"

\* The MLflow run a job records is dropped only by the commit that requeues the
\* job, and never replaced by another run in one step.
RunIsDroppedOnlyByRequeue ==
    [][\A j \in Jobs : mlflowRun[j] # None /\ mlflowRun'[j] # mlflowRun[j] =>
           /\ mlflowRun'[j] = None
           /\ \E s \in snaps'[j] \ snaps[j] : s.status = "queued"]_vars

\* With a single API process requests do not overlap, and the status of a job
\* behaves as the automaton of JobStatus.
Promise == INSTANCE JobStatus WITH
    status   <- [j \in Jobs |-> Status(j)],
    attempts <- [j \in Jobs |-> Cardinality({s \in snaps[j] : s.status = "queued"})],
    claims   <- [j \in Jobs |-> Cardinality({s \in snaps[j] : s.status = "started"})]

ImplementsJobStatus == Promise!StatusSpec

\* Each attempt at a job is claimed by one runner (single API process).
OneClaimPerAttempt == Promise!AtMostOneClaimPerAttempt

Settled(j) == \E s \in snaps[j] : s.status \in {"finished", "failed"}

\* Without faults, a job that was submitted gets an outcome, unless it is
\* deleted or reset before that.
SubmittedJobsSettle ==
    \A j \in Jobs : j \in rq ~> Settled(j) \/ deleted[j] \/ Requeued(j)

\* Whatever fails, a runner never hangs: every request it waits for is answered,
\* also when another request won the race for the row it wanted to insert.
RunnersEnd == \A r \in Runners : pc[r] # "idle" ~> pc[r] \in Ended

=============================================================================
