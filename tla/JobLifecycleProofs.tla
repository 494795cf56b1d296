------------------------- MODULE JobLifecycleProofs -------------------------
(***************************************************************************)
(* Proofs about JobLifecycle for any number of jobs, runners, users and    *)
(* API processes, and under every fault.                                   *)
(*                                                                         *)
(* BaseInv is type correctness; LegalInv says that stamps are handed out   *)
(* in order and that what a request has seen is still recorded; RunnersInv *)
(* and FinishedInv relate a runner to the job and the MLflow run it        *)
(* records; SingleInv, for one API process, says that what a request has   *)
(* seen is still the present state, from which the refinement follows.     *)
(***************************************************************************)
EXTENDS JobLifecycle, FiniteSetTheorems, TLAPS

USE DEF Runners

\* Every registered job has a latest snapshot: LatestSnapshot is never a CHOOSE
\* from an empty set of candidates.
LatestExists ==
    \A j \in Jobs : Registered(j) =>
        \E s \in snaps[j] : \A t \in snaps[j] : t.stamp <= s.stamp

\* A runner that left "idle" runs a job.
RunnersHaveJobs == \A r \in Runners : pc[r] # "idle" => runOf[r] \in Jobs

\* Only a change of status builds a snapshot, only a reset drops a run, only
\* runners record MLflow runs.
WellFormed(q) ==
    /\ q.phase = "built" => q.kind \in RequestStatuses
    /\ q.kind = "mlflow" => q.client \in Runners
    /\ q.drop # None => q.kind = "reset"

BaseInv ==
    TypeOK /\ LatestExists /\ RunnersHaveJobs /\ \A q \in requests : WellFormed(q)

RunnerTypeOK ==
    /\ requests \subseteq Request
    /\ \A q \in requests : WellFormed(q)
    /\ pc \in [Runners -> {"idle"} \cup Live \cup Ended]
    /\ runOf \in [Runners -> Jobs \cup {None}]
    /\ tracked \in [Runners -> {"none", "running", "finished", "failed"}]

LEMMA NewRequestType ==
    ASSUME NEW c \in Users \cup Runners, NEW j \in Jobs,
           NEW k \in RequestStatuses \cup {"mlflow", "delete"}
    PROVE  /\ NewRequest(c, j, k) \in Request
           /\ (k = "mlflow" => c \in Runners)
              => WellFormed(NewRequest(c, j, k))
BY DEF NewRequest, Request, WellFormed

LEMMA LatestSnapshotFacts ==
    ASSUME LatestExists, NEW j \in Jobs, Registered(j)
    PROVE  /\ LatestSnapshot(j) \in snaps[j]
           /\ \A t \in snaps[j] : t.stamp <= LatestSnapshot(j).stamp
BY DEF LatestExists, LatestSnapshot

LEMMA CheckedType ==
    ASSUME BaseInv, NEW q \in Request, Accepts(q)
    PROVE  /\ Checked(q) \in Request
           /\ WellFormed(q) => WellFormed(Checked(q))
           /\ LatestSnapshot(q.job) \in snaps[q.job]
           /\ LatestSnapshot(q.job) \in Snapshot
<1>1. q.job \in Jobs /\ Registered(q.job)
  BY DEF Accepts, Visible, Request
<1>2. LatestSnapshot(q.job) \in snaps[q.job]
  BY <1>1, LatestSnapshotFacts DEF BaseInv
<1>3. LatestSnapshot(q.job) \in Snapshot
  BY <1>1, <1>2 DEF BaseInv, TypeOK
<1>4. LatestSnapshot(q.job).stamp \in Nat
  BY <1>3 DEF Snapshot
<1> QED
  BY <1>2, <1>3, <1>4 DEF Checked, Request, WellFormed

-----------------------------------------------------------------------------
(* Replies and exceptions keep the runners' state well typed.              *)

LEMMA HandleExceptionType ==
    ASSUME BaseInv, NEW r \in Runners, pc[r] # "idle",
           NEW rest \in SUBSET Request, \A q \in rest : WellFormed(q),
           HandleException(r, rest)
    PROVE  RunnerTypeOK' /\ RunnersHaveJobs'
<1>1. NewRequest(r, runOf[r], "failed") \in Request /\ WellFormed(NewRequest(r, runOf[r], "failed"))
  BY NewRequestType DEF BaseInv, RunnersHaveJobs, RequestStatuses, Statuses
<1> QED
  BY <1>1 DEF HandleException, BaseInv, TypeOK, RunnerTypeOK, RunnersHaveJobs, Live

LEMMA ReplyOkType ==
    ASSUME BaseInv, NEW q \in requests, ReplyOk(q)
    PROVE  RunnerTypeOK' /\ RunnersHaveJobs'
<1>1. CASE q.client \in Runners /\ Awaits(q.client, q.kind)
  <2>1. PICK to \in Live \cup Ended :
            /\ Succeeds(pc[q.client], to)
            /\ pc' = [pc EXCEPT ![q.client] = to]
    BY <1>1 DEF ReplyOk
  <2>2. pc[q.client] # "idle"
    BY <1>1 DEF Awaits
  <2> QED
    BY <1>1, <2>1, <2>2 DEF ReplyOk, BaseInv, TypeOK, RunnerTypeOK, RunnersHaveJobs
<1>2. CASE ~(q.client \in Runners /\ Awaits(q.client, q.kind))
  BY <1>2 DEF ReplyOk, BaseInv, TypeOK, RunnerTypeOK, RunnersHaveJobs
<1> QED
  BY <1>1, <1>2

LEMMA ReplyErrorType ==
    ASSUME BaseInv, NEW q \in requests, ReplyError(q)
    PROVE  RunnerTypeOK' /\ RunnersHaveJobs'
<1>1. CASE q.client \in Runners /\ Awaits(q.client, q.kind)
  <2>1. pc[q.client] # "idle"
    BY <1>1 DEF Awaits
  <2>2. CASE q.kind = "mlflow"
    <3>1. requests \ {q} \in SUBSET Request /\ \A p \in requests \ {q} : WellFormed(p)
      BY DEF BaseInv, TypeOK
    <3> QED
      BY <1>1, <2>1, <2>2, <3>1, HandleExceptionType DEF ReplyError
  <2>3. CASE q.kind # "mlflow"
    BY <1>1, <2>1, <2>3 DEF ReplyError, BaseInv, TypeOK, RunnerTypeOK, RunnersHaveJobs, Ended
  <2> QED
    BY <2>2, <2>3
<1>2. CASE ~(q.client \in Runners /\ Awaits(q.client, q.kind))
  BY <1>2 DEF ReplyError, BaseInv, TypeOK, RunnerTypeOK, RunnersHaveJobs, runnerVars
<1> QED
  BY <1>1, <1>2

-----------------------------------------------------------------------------
(* Type correctness.                                                       *)

LEMMA BaseInit == Init => BaseInv
BY ConstantsAssumption DEF Init, BaseInv, TypeOK, LatestExists, RunnersHaveJobs,
   Registered

\* A step of a runner on its own changes neither the database nor the queue.
RunnerOnly == UNCHANGED <<snaps, deleted, mlflowRun, clock, creating, userRequests>>

LEMMA RunnerOnlyBase ==
    ASSUME BaseInv, RunnerOnly, rq' \subseteq rq, RunnerTypeOK', RunnersHaveJobs'
    PROVE  BaseInv'
BY DEF BaseInv, TypeOK, LatestExists, RunnersHaveJobs, RunnerTypeOK, RunnerOnly,
       Registered

LEMMA BeginType ==
    ASSUME BaseInv, NEW r \in Runners, NEW j \in Jobs, Begin(r, j)
    PROVE  RunnerTypeOK' /\ RunnersHaveJobs'
<1>1. NewRequest(r, j, "started") \in Request /\ WellFormed(NewRequest(r, j, "started"))
  BY NewRequestType DEF RequestStatuses, Statuses
<1> QED
  BY <1>1 DEF Begin, BaseInv, TypeOK, RunnerTypeOK, RunnersHaveJobs, Live

LEMMA RunnerStepBase ==
    ASSUME BaseInv, NEW r \in Runners, RunnerStep(r) \/ RunnerOther(r)
    PROVE  BaseInv'
<1> USE DEF RunnerOnly, database
<1>1. CASE RunnerDequeue(r)
  <2>1. PICK j \in rq : rq' = rq \ {j} /\ Begin(r, j)
    BY <1>1 DEF RunnerDequeue
  <2>2. j \in Jobs
    BY DEF BaseInv, TypeOK
  <2> QED
    BY <2>1, <2>2, BeginType, RunnerOnlyBase DEF Begin
<1>2. CASE RunnerConnect(r)
  BY <1>2, BeginType, RunnerOnlyBase DEF RunnerConnect, Begin
<1>3. CASE RunnerLoginFails(r)
  <2>1. RunnerTypeOK' /\ RunnersHaveJobs'
    BY <1>3 DEF RunnerLoginFails, BaseInv, TypeOK, RunnerTypeOK, RunnersHaveJobs, Ended
  <2> QED
    BY <1>3, <2>1, RunnerOnlyBase DEF RunnerLoginFails
<1>4. CASE RunnerFetch(r)
  <2>1. RunnerTypeOK' /\ RunnersHaveJobs'
    BY <1>4 DEF RunnerFetch, RunnerMoves, BaseInv, TypeOK, RunnerTypeOK,
                RunnersHaveJobs, Live, Ended
  <2> QED
    BY <1>4, <2>1, RunnerOnlyBase DEF RunnerFetch
<1>5. CASE RunnerTrack(r)
  <2>1. /\ NewRequest(r, runOf[r], "mlflow") \in Request
        /\ WellFormed(NewRequest(r, runOf[r], "mlflow"))
    BY <1>5, NewRequestType DEF RunnerTrack, RunnerMoves, BaseInv, RunnersHaveJobs
  <2>2. RunnerTypeOK' /\ RunnersHaveJobs'
    BY <1>5, <2>1 DEF RunnerTrack, RunnerMoves, BaseInv, TypeOK, RunnerTypeOK,
                      RunnersHaveJobs, Live
  <2> QED
    BY <1>5, <2>2, RunnerOnlyBase DEF RunnerTrack
<1>6. CASE RunnerSucceed(r)
  <2>1. /\ NewRequest(r, runOf[r], "finished") \in Request
        /\ WellFormed(NewRequest(r, runOf[r], "finished"))
    BY <1>6, NewRequestType DEF RunnerSucceed, RunnerMoves, BaseInv, RunnersHaveJobs,
                                RequestStatuses, Statuses
  <2>2. RunnerTypeOK' /\ RunnersHaveJobs'
    BY <1>6, <2>1 DEF RunnerSucceed, RunnerMoves, BaseInv, TypeOK, RunnerTypeOK,
                      RunnersHaveJobs, Live
  <2> QED
    BY <1>6, <2>2, RunnerOnlyBase DEF RunnerSucceed
<1>7. CASE RunnerFail(r)
  <2>1. pc[r] # "idle" /\ requests \in SUBSET Request /\ \A p \in requests : WellFormed(p)
    BY <1>7 DEF RunnerFail, BaseInv, TypeOK
  <2> QED
    BY <1>7, <2>1, HandleExceptionType, RunnerOnlyBase DEF RunnerFail
<1>8. CASE RunnerSysExit(r)
  <2>1. RunnerTypeOK' /\ RunnersHaveJobs'
    BY <1>8 DEF RunnerSysExit, BaseInv, TypeOK, RunnerTypeOK, RunnersHaveJobs, Ended
  <2> QED
    BY <1>8, <2>1, RunnerOnlyBase DEF RunnerSysExit
<1>9. CASE RunnerTimeout(r)
  <2>1. CASE HandleException(r, requests) /\ pc[r] \in {"preparing", "tracking", "running"}
    <3>1. pc[r] # "idle" /\ requests \in SUBSET Request /\ \A p \in requests : WellFormed(p)
      BY <2>1 DEF BaseInv, TypeOK
    <3> QED
      BY <1>9, <2>1, <3>1, HandleExceptionType, RunnerOnlyBase DEF RunnerTimeout
  <2>2. CASE /\ pc[r] \in {"starting", "fetching", "finishing", "failing"}
             /\ pc' = [pc EXCEPT ![r] = "raised"]
             /\ UNCHANGED <<requests, runOf, tracked>>
    <3>1. RunnerTypeOK' /\ RunnersHaveJobs'
      BY <2>2 DEF BaseInv, TypeOK, RunnerTypeOK, RunnersHaveJobs, Ended
    <3> QED
      BY <1>9, <3>1, RunnerOnlyBase DEF RunnerTimeout
  <2> QED
    BY <1>9, <2>1, <2>2 DEF RunnerTimeout
<1>10. CASE RunnerCrash(r)
  <2>1. RunnerTypeOK' /\ RunnersHaveJobs'
    BY <1>10 DEF RunnerCrash, BaseInv, TypeOK, RunnerTypeOK, RunnersHaveJobs, Ended, Live
  <2> QED
    BY <1>10, <2>1, RunnerOnlyBase DEF RunnerCrash
<1> QED
  BY <1>1, <1>2, <1>3, <1>4, <1>5, <1>6, <1>7, <1>8, <1>9, <1>10
     DEF RunnerStep, RunnerOther

\* Adding one snapshot leaves a job with a latest snapshot.
LEMMA AddSnapshot ==
    ASSUME BaseInv, NEW j \in Jobs, NEW s \in Snapshot,
           snaps' = [snaps EXCEPT ![j] = @ \cup {s}]
    PROVE  LatestExists' /\ snaps' \in [Jobs -> SUBSET Snapshot]
<1>1. snaps' \in [Jobs -> SUBSET Snapshot]
  BY DEF BaseInv, TypeOK
<1>2. ASSUME NEW k \in Jobs, snaps'[k] # {}
      PROVE  \E t \in snaps'[k] : \A u \in snaps'[k] : u.stamp <= t.stamp
  <2>1. CASE k # j
    BY <1>2, <2>1 DEF BaseInv, TypeOK, LatestExists, Registered
  <2>2. CASE k = j /\ snaps[j] = {}
    <3>1. snaps'[k] = {s} /\ s.stamp <= s.stamp
      BY <2>2 DEF BaseInv, TypeOK, Snapshot
    <3> QED
      BY <3>1
  <2>3. CASE k = j /\ snaps[j] # {}
    <3>1. PICK t \in snaps[j] : \A u \in snaps[j] : u.stamp <= t.stamp
      BY <2>3 DEF BaseInv, LatestExists, Registered
    <3>2. /\ snaps'[k] = snaps[j] \cup {s}
          /\ \A u \in snaps[j] \cup {s} : u.stamp \in Nat
          /\ t \in snaps'[k] /\ s \in snaps'[k]
      BY <2>3, <3>1 DEF BaseInv, TypeOK, Snapshot
    <3>3. CASE s.stamp <= t.stamp
      BY <3>1, <3>2, <3>3
    <3>4. CASE t.stamp <= s.stamp
      <4>1. \A u \in snaps'[k] : u.stamp <= s.stamp
        BY <3>1, <3>2, <3>4
      <4> QED
        BY <3>2, <4>1
    <3> QED
      BY <3>2, <3>3, <3>4
  <2> QED
    BY <2>1, <2>2, <2>3
<1> QED
  BY <1>1, <1>2 DEF LatestExists, Registered

LEMMA CommitBase ==
    ASSUME BaseInv, NEW q \in requests, Commit(q),
           ReplyOk(q) \/ ReplyError(q), UNCHANGED <<creating, rq, userRequests>>
    PROVE  BaseInv'
<1>1. RunnerTypeOK' /\ RunnersHaveJobs'
  BY ReplyOkType, ReplyErrorType
<1>2. q \in Request /\ WellFormed(q)
  BY DEF BaseInv, TypeOK
<1>3. CASE CommitStatus(q)
  <2> DEFINE s == [stamp |-> q.stamp, status |-> RecordedStatus(q.kind),
                   base |-> q.seen, by |-> q.client]
  <2>1. s \in Snapshot
    BY <1>2, <1>3 DEF CommitStatus, WellFormed, Snapshot, Request, RecordedStatus,
                      RequestStatuses, Statuses
  <2>2. LatestExists' /\ snaps' \in [Jobs -> SUBSET Snapshot]
    <3>1. snaps' = [snaps EXCEPT ![q.job] = @ \cup {s}] /\ q.job \in Jobs
      BY <1>2, <1>3 DEF CommitStatus, Request
    <3> QED
      BY <2>1, <3>1, AddSnapshot
  <2> QED
    BY <1>1, <1>2, <1>3, <2>2 DEF CommitStatus, BaseInv, TypeOK, RunnerTypeOK, Request
<1>4. CASE CommitMlflowRun(q)
  BY <1>1, <1>2, <1>4 DEF CommitMlflowRun, BaseInv, TypeOK, RunnerTypeOK, Request,
                          WellFormed, LatestExists, Registered
<1>5. CASE CommitDelete(q)
  BY <1>1, <1>2, <1>5 DEF CommitDelete, BaseInv, TypeOK, RunnerTypeOK, Request,
                          LatestExists, Registered
<1> QED
  BY <1>3, <1>4, <1>5 DEF Commit


\* A step that leaves the database alone and whose requests are well typed.
LEMMA QuietBase ==
    ASSUME BaseInv, UNCHANGED database, creating' \subseteq Jobs, rq' \subseteq Jobs,
           userRequests' \in Nat, RunnerTypeOK', RunnersHaveJobs'
    PROVE  BaseInv'
BY DEF BaseInv, TypeOK, LatestExists, Registered, RunnerTypeOK, database

LEMMA CreateBase ==
    ASSUME BaseInv, CreateStep
    PROVE  BaseInv'
<1>1. RunnerTypeOK /\ RunnersHaveJobs
  BY DEF BaseInv, TypeOK, RunnerTypeOK
<1>2. PICK j \in Jobs : \/ \E u \in Users : CommitNewJob(u, j)
                        \/ SubmitNewJob(j)
                        \/ LoseNewJob(j)
  BY DEF CreateStep
<1>3. ASSUME NEW u \in Users, CommitNewJob(u, j)
      PROVE  BaseInv'
  <2> DEFINE s == [stamp |-> clock, status |-> "queued", base |-> 0, by |-> u]
  <2>1. s \in Snapshot
    BY DEF BaseInv, TypeOK, Snapshot, Statuses
  <2>2. snaps' = [snaps EXCEPT ![j] = @ \cup {s}]
    BY <1>3 DEF CommitNewJob, Registered, BaseInv, TypeOK
  <2>3. LatestExists' /\ snaps' \in [Jobs -> SUBSET Snapshot]
    BY <2>1, <2>2, AddSnapshot
  <2> QED
    BY <1>1, <1>3, <2>3 DEF CommitNewJob, BaseInv, TypeOK, RunnersHaveJobs, runnerVars
<1>4. CASE SubmitNewJob(j)
  BY <1>1, <1>4, QuietBase DEF SubmitNewJob, BaseInv, TypeOK, RunnerTypeOK,
                               RunnersHaveJobs, runnerVars
<1>5. CASE LoseNewJob(j)
  BY <1>1, <1>5, QuietBase DEF LoseNewJob, BaseInv, TypeOK, RunnerTypeOK,
                               RunnersHaveJobs, runnerVars
<1> QED
  BY <1>2, <1>3, <1>4, <1>5

LEMMA ApiBase ==
    ASSUME BaseInv, NEW q \in requests, ApiStep(q) \/ ApiFault(q)
    PROVE  BaseInv'
<1>1. q \in Request /\ WellFormed(q)
  BY DEF BaseInv, TypeOK
<1>2. CASE ApiRead(q)
  <2>1. Checked(q) \in Request /\ WellFormed(Checked(q))
    BY <1>1, <1>2, CheckedType DEF ApiRead
  <2>2. RunnerTypeOK' /\ RunnersHaveJobs'
    BY <1>2, <2>1 DEF ApiRead, BaseInv, TypeOK, RunnerTypeOK, RunnersHaveJobs, runnerVars
  <2> QED
    BY <1>2, <2>2, QuietBase DEF ApiRead, BaseInv, TypeOK
<1>3. CASE ApiBuild(q)
  <2> DEFINE b == Built(q, IF q.kind = "reset" THEN mlflowRun[q.job] ELSE None)
  <2>1. b \in Request /\ WellFormed(b)
    BY <1>1, <1>3 DEF ApiBuild, Built, Request, WellFormed, BaseInv, TypeOK,
                      RequestStatuses, Statuses
  <2>2. requests' = (requests \ {q}) \cup {b}
    BY <1>3 DEF ApiBuild
  <2> HIDE DEF b
  <2>3. RunnerTypeOK' /\ RunnersHaveJobs'
    BY <1>3, <2>1, <2>2 DEF ApiBuild, BaseInv, TypeOK, RunnerTypeOK, RunnersHaveJobs,
                            runnerVars
  <2> QED
    BY <1>3, <2>3 DEF ApiBuild, BaseInv, TypeOK, LatestExists, Registered, RunnerTypeOK
<1>4. CASE ApiCommit(q) \/ ApiCommitUnanswered(q)
  BY <1>4, CommitBase DEF ApiCommit, ApiCommitUnanswered
<1>5. CASE ApiReject(q) \/ ApiConflict(q) \/ ApiCrash(q)
  <2>1. RunnerTypeOK' /\ RunnersHaveJobs'
    BY <1>5, ReplyErrorType DEF ApiReject, ApiConflict, ApiCrash
  <2> QED
    BY <1>5, <2>1, QuietBase DEF ApiReject, ApiConflict, ApiCrash, BaseInv, TypeOK
<1> QED
  BY <1>2, <1>3, <1>4, <1>5 DEF ApiStep, ApiFault

LEMMA UserBase ==
    ASSUME BaseInv, UserStep
    PROVE  BaseInv'
<1>1. PICK u \in Users, j \in Jobs, k \in RequestStatuses \cup {"delete"} :
          UserRequest(u, j, k)
  BY DEF UserStep
<1> DEFINE n == NewRequest(u, j, k)
<1>2. n \in Request /\ WellFormed(n)
  BY NewRequestType DEF RequestStatuses, Statuses
<1>3. Checked(n) \in Request /\ WellFormed(Checked(n))
  BY <1>1, <1>2, CheckedType DEF UserRequest
<1>4. requests' = requests \cup {Checked(n)}
  BY <1>1 DEF UserRequest
<1> HIDE DEF n
<1>5. RunnerTypeOK' /\ RunnersHaveJobs'
  BY <1>1, <1>3, <1>4 DEF UserRequest, BaseInv, TypeOK, RunnerTypeOK, RunnersHaveJobs,
                          runnerVars
<1> QED
  BY <1>1, <1>5, QuietBase DEF UserRequest, BaseInv, TypeOK

LEMMA BaseNext == BaseInv /\ [Next]_vars => BaseInv'
<1> SUFFICES ASSUME BaseInv, [Next]_vars
             PROVE  BaseInv'
  OBVIOUS
<1>1. CASE UNCHANGED vars
  BY <1>1 DEF BaseInv, TypeOK, LatestExists, RunnersHaveJobs, Registered, vars
<1> QED
  BY <1>1, CreateBase, ApiBase, UserBase, RunnerStepBase DEF Next

\* Whatever overlaps, fails or is lost, the state stays well typed: in
\* particular a snapshot only ever carries one of the five statuses, never the
\* "reset" a client may ask for.
THEOREM TypeCorrect == Spec => []TypeOK
<1>1. BaseInv => TypeOK
  BY DEF BaseInv
<1> QED
  BY <1>1, BaseInit, BaseNext, PTL DEF Spec

THEOREM BaseCorrect == Spec => []BaseInv
BY BaseInit, BaseNext, PTL DEF Spec

-----------------------------------------------------------------------------
(* Status changes.  What a step does to snapshots, the clock and the       *)
(* requests being served is one of five things.                            *)

NothingNew == \A p \in requests' : p \in requests \/ p.phase = "sent"

RunsKept == \A j \in Jobs : mlflowRun[j] # None => mlflowRun'[j] = mlflowRun[j]

QuietStep == UNCHANGED <<snaps, clock>> /\ NothingNew /\ RunsKept

RegisterStep(j, u) ==
    /\ ~Registered(j)
    /\ snaps' = [snaps EXCEPT ![j] =
           {[stamp |-> clock, status |-> "queued", base |-> 0, by |-> u]}]
    /\ clock' = clock + 1
    /\ requests' = requests
    /\ RunsKept

ReadStep(p) ==
    /\ ApiFree
    /\ Accepts(p)
    /\ UNCHANGED <<snaps, clock>>
    /\ \A q \in requests' : q \in requests \/ q = Checked(p)
    /\ RunsKept

BuildStep(q, drop) ==
    /\ q.phase = "read"
    /\ q.kind \in RequestStatuses
    /\ snaps' = snaps
    /\ clock' = clock + 1
    /\ \A p \in requests' : p \in requests \ {q} \/ p = Built(q, drop)
    /\ RunsKept

CommitStep(q) ==
    /\ CommitStatus(q)
    /\ \A p \in requests' : p \in requests \ {q} \/ p.phase = "sent"

DataStep ==
    \/ QuietStep
    \/ \E j \in Jobs, u \in Users : RegisterStep(j, u)
    \/ \E p \in Request : ReadStep(p)
    \/ \E q \in requests, d \in Runners \cup {None} : BuildStep(q, d)
    \/ \E q \in requests : CommitStep(q)

\* A reply ends its request and, at most, adds one that is not served yet.
LEMMA ReplyRequests ==
    ASSUME NEW q \in requests, ReplyOk(q) \/ ReplyError(q)
    PROVE  \A p \in requests' : p \in requests \ {q} \/ p.phase = "sent"
BY DEF ReplyOk, ReplyError, HandleException, NewRequest

LEMMA RunnerQuiet ==
    ASSUME NEW r \in Runners, RunnerStep(r) \/ RunnerOther(r)
    PROVE  QuietStep
<1>1. UNCHANGED <<snaps, clock, mlflowRun>>
  BY DEF RunnerStep, RunnerOther, RunnerDequeue, RunnerConnect, RunnerLoginFails,
         RunnerFetch, RunnerTrack, RunnerSucceed, RunnerFail, RunnerSysExit,
         RunnerTimeout, RunnerCrash, Begin, database
<1>2. CASE RunnerDequeue(r) \/ RunnerConnect(r)
  BY <1>1, <1>2 DEF RunnerDequeue, RunnerConnect, Begin, NewRequest, QuietStep,
                    NothingNew, RunsKept
<1>3. CASE RunnerTrack(r) \/ RunnerSucceed(r)
  BY <1>1, <1>3 DEF RunnerTrack, RunnerSucceed, NewRequest, QuietStep, NothingNew,
                    RunsKept
<1>4. CASE RunnerFail(r) \/ RunnerTimeout(r)
  BY <1>1, <1>4 DEF RunnerFail, RunnerTimeout, HandleException, NewRequest,
                    QuietStep, NothingNew, RunsKept
<1>5. CASE RunnerLoginFails(r) \/ RunnerFetch(r) \/ RunnerSysExit(r) \/ RunnerCrash(r)
  BY <1>1, <1>5 DEF RunnerLoginFails, RunnerFetch, RunnerSysExit, RunnerCrash,
                    QuietStep, NothingNew, RunsKept
<1> QED
  BY <1>2, <1>3, <1>4, <1>5 DEF RunnerStep, RunnerOther

LEMMA CommitData ==
    ASSUME BaseInv, NEW q \in requests, Commit(q),
           \A p \in requests' : p \in requests \ {q} \/ p.phase = "sent"
    PROVE  QuietStep \/ CommitStep(q)
<1>1. CASE CommitStatus(q)
  BY <1>1 DEF CommitStep
<1>2. CASE CommitMlflowRun(q) \/ CommitDelete(q)
  BY <1>2 DEF CommitMlflowRun, CommitDelete, QuietStep, NothingNew, RunsKept,
              BaseInv, TypeOK
<1> QED
  BY <1>1, <1>2 DEF Commit

LEMMA ApiData ==
    ASSUME BaseInv, NEW q \in requests, ApiStep(q) \/ ApiFault(q)
    PROVE  DataStep
<1>1. q \in Request
  BY DEF BaseInv, TypeOK
<1>2. CASE ApiRead(q)
  <2>1. ReadStep(q)
    BY <1>2 DEF ApiRead, ReadStep, RunsKept, database
  <2> QED
    BY <1>1, <2>1 DEF DataStep
<1>3. CASE ApiBuild(q)
  <2> DEFINE d == IF q.kind = "reset" THEN mlflowRun[q.job] ELSE None
  <2>1. d \in Runners \cup {None}
    BY <1>1 DEF BaseInv, TypeOK, Request
  <2>2. requests' = (requests \ {q}) \cup {Built(q, d)}
    BY <1>3 DEF ApiBuild
  <2> HIDE DEF d
  <2>3. BuildStep(q, d)
    BY <1>3, <2>2 DEF ApiBuild, BuildStep, RunsKept
  <2> QED
    BY <2>1, <2>3 DEF DataStep
<1>4. CASE ApiCommit(q) \/ ApiCommitUnanswered(q)
  <2>1. Commit(q) /\ \A p \in requests' : p \in requests \ {q} \/ p.phase = "sent"
    BY <1>4, ReplyRequests DEF ApiCommit, ApiCommitUnanswered
  <2> QED
    BY <2>1, CommitData DEF DataStep
<1>5. CASE ApiReject(q) \/ ApiConflict(q) \/ ApiCrash(q)
  <2>1. UNCHANGED database /\ \A p \in requests' : p \in requests \ {q} \/ p.phase = "sent"
    BY <1>5, ReplyRequests DEF ApiReject, ApiConflict, ApiCrash
  <2> QED
    BY <2>1 DEF DataStep, QuietStep, NothingNew, RunsKept, database
<1> QED
  BY <1>2, <1>3, <1>4, <1>5 DEF ApiStep, ApiFault

LEMMA NextData ==
    ASSUME BaseInv, [Next]_vars
    PROVE  DataStep
<1>1. CASE UNCHANGED vars
  BY <1>1 DEF vars, DataStep, QuietStep, NothingNew, RunsKept
<1>2. CASE CreateStep
  <2>1. PICK j \in Jobs : \/ \E u \in Users : CommitNewJob(u, j)
                          \/ SubmitNewJob(j)
                          \/ LoseNewJob(j)
    BY <1>2 DEF CreateStep
  <2>2. ASSUME NEW u \in Users, CommitNewJob(u, j)
        PROVE  RegisterStep(j, u)
    BY <2>2 DEF CommitNewJob, RegisterStep, RunsKept
  <2>3. CASE SubmitNewJob(j) \/ LoseNewJob(j)
    BY <2>3 DEF SubmitNewJob, LoseNewJob, DataStep, QuietStep, NothingNew, RunsKept,
                database
  <2> QED
    BY <2>1, <2>2, <2>3 DEF DataStep
<1>3. CASE \E q \in requests : ApiStep(q) \/ ApiFault(q)
  BY <1>3, ApiData
<1>4. CASE UserStep
  <2>1. PICK u \in Users, j \in Jobs, k \in RequestStatuses \cup {"delete"} :
            UserRequest(u, j, k)
    BY <1>4 DEF UserStep
  <2>2. NewRequest(u, j, k) \in Request
    BY NewRequestType DEF RequestStatuses, Statuses
  <2>3. ReadStep(NewRequest(u, j, k))
    BY <2>1 DEF UserRequest, ReadStep, RunsKept, database
  <2> QED
    BY <2>2, <2>3 DEF DataStep
<1>5. CASE \E r \in Runners : RunnerStep(r) \/ RunnerOther(r)
  BY <1>5, RunnerQuiet DEF DataStep
<1> QED
  BY <1>1, <1>2, <1>3, <1>4, <1>5 DEF Next

\* Stamps are issued once, in increasing order, and a request is stamped later
\* than the snapshot it was checked against.
StampInv ==
    /\ clock > 0
    /\ \A j \in Jobs : \A s \in snaps[j] : 0 < s.stamp /\ s.stamp < clock
    /\ \A j \in Jobs : \A s, t \in snaps[j] : s.stamp = t.stamp => s = t
    /\ \A q \in requests : q.phase # "sent" => 0 < q.seen /\ q.seen < clock
    /\ \A q \in requests : q.phase = "built" =>
           /\ q.seen < q.stamp
           /\ q.stamp < clock
           /\ \A s \in snaps[q.job] : s.stamp # q.stamp
    /\ \A p, q \in requests :
           p.phase = "built" /\ q.phase = "built" /\ p.stamp = q.stamp => p = q

\* What was checked when a request was read is still recorded: the snapshot it
\* saw is never removed, and it allows the status the request asks for.
SeenInv ==
    \A q \in requests : q.phase # "sent" /\ q.kind \in RequestStatuses =>
        \E t \in snaps[q.job] :
            t.stamp = q.seen /\ q.kind \in JOB_STATUS_TRANSITIONS[t.status]

LegalInv == StampInv /\ SeenInv /\ StatusChangesAreLegal

LEMMA LegalInit == Init => LegalInv
BY DEF Init, LegalInv, StampInv, SeenInv, StatusChangesAreLegal

LEMMA LegalQuiet ==
    ASSUME BaseInv, LegalInv, QuietStep
    PROVE  LegalInv'
BY DEF BaseInv, TypeOK, LegalInv, StampInv, SeenInv, StatusChangesAreLegal,
       QuietStep, NothingNew

LEMMA LegalRegister ==
    ASSUME BaseInv, LegalInv, NEW j \in Jobs, NEW u \in Users, RegisterStep(j, u)
    PROVE  LegalInv'
<1> DEFINE s == [stamp |-> clock, status |-> "queued", base |-> 0, by |-> u]
<1>1. /\ snaps[j] = {} /\ snaps'[j] = {s}
      /\ \A k \in Jobs \ {j} : snaps'[k] = snaps[k]
      /\ clock' = clock + 1 /\ requests' = requests /\ clock \in Nat
  BY DEF RegisterStep, Registered, BaseInv, TypeOK
<1>2. \A k \in Jobs : \A t \in snaps[k] : t \in Snapshot
  BY DEF BaseInv, TypeOK
<1>3. \A q \in requests : q \in Request
  BY DEF BaseInv, TypeOK
<1>4. StampInv'
  BY <1>1, <1>2, <1>3 DEF LegalInv, StampInv, Snapshot, Request
<1>5. SeenInv'
  BY <1>1, <1>3 DEF LegalInv, SeenInv, Request
<1>6. StatusChangesAreLegal'
  BY <1>1 DEF LegalInv, StatusChangesAreLegal
<1> QED
  BY <1>4, <1>5, <1>6 DEF LegalInv

LEMMA LegalRead ==
    ASSUME BaseInv, LegalInv, NEW p \in Request, ReadStep(p)
    PROVE  LegalInv'
<1> DEFINE l == LatestSnapshot(p.job)
<1>1. p.job \in Jobs /\ Accepts(p) /\ Registered(p.job)
  BY DEF ReadStep, Request, Accepts, Visible
<1>2. l \in snaps[p.job] /\ l \in Snapshot
  BY <1>1, CheckedType
<1>3. 0 < l.stamp /\ l.stamp < clock
  BY <1>1, <1>2 DEF LegalInv, StampInv
<1>4. p.kind \in RequestStatuses => p.kind \in JOB_STATUS_TRANSITIONS[l.status]
  BY <1>1 DEF Accepts, Status
<1>5. /\ snaps' = snaps /\ clock' = clock
      /\ \A q \in requests' : q \in requests \/ q = Checked(p)
  BY DEF ReadStep
<1>6. /\ Checked(p).phase = "read" /\ Checked(p).seen = l.stamp
      /\ Checked(p).job = p.job /\ Checked(p).kind = p.kind
  BY DEF Checked
<1> HIDE DEF l
<1>7. StampInv'
  BY <1>3, <1>5, <1>6 DEF LegalInv, StampInv
<1>8. SeenInv'
  BY <1>2, <1>4, <1>5, <1>6 DEF LegalInv, SeenInv
<1> QED
  BY <1>5, <1>7, <1>8 DEF LegalInv, StatusChangesAreLegal

LEMMA LegalBuild ==
    ASSUME BaseInv, LegalInv, NEW q \in requests, NEW d \in Runners \cup {None},
           BuildStep(q, d)
    PROVE  LegalInv'
<1> DEFINE b == Built(q, d)
<1>1. /\ b.phase = "built" /\ b.seen = q.seen /\ b.stamp = clock
      /\ b.job = q.job /\ b.kind = q.kind
  BY DEF Built
<1>2. /\ q \in Request /\ \A r \in requests : r \in Request
      /\ \A k \in Jobs : \A t \in snaps[k] : t \in Snapshot
      /\ clock \in Nat
  BY DEF BaseInv, TypeOK
<1>3. /\ snaps' = snaps /\ clock' = clock + 1 /\ q.phase = "read"
      /\ \A p \in requests' : p \in requests \/ p = b
  BY DEF BuildStep
<1> HIDE DEF b
<1>4. StampInv'
  <2>1. \A j \in Jobs : \A s \in snaps[j] : s.stamp < clock + 1 /\ s.stamp # clock
    BY <1>2 DEF LegalInv, StampInv, Snapshot
  <2>2. \A p \in requests : /\ p.phase # "sent" => 0 < p.seen /\ p.seen < clock + 1
                            /\ p.phase = "built" => p.stamp < clock /\ p.stamp < clock + 1
    BY <1>2 DEF LegalInv, StampInv, Request
  <2>3. 0 < b.seen /\ b.seen < b.stamp /\ b.stamp < clock + 1 /\ b.seen < clock + 1
    BY <1>1, <1>2, <1>3 DEF LegalInv, StampInv, Request
  <2>4. \A p \in requests : p.phase = "built" => p.stamp # b.stamp
    BY <1>1, <1>2, <2>2 DEF Request
  <2> QED
    BY <1>1, <1>2, <1>3, <2>1, <2>2, <2>3, <2>4 DEF LegalInv, StampInv, Request
<1>5. SeenInv'
  BY <1>1, <1>3 DEF LegalInv, SeenInv
<1> QED
  BY <1>3, <1>4, <1>5 DEF LegalInv, StatusChangesAreLegal

LEMMA LegalCommit ==
    ASSUME BaseInv, LegalInv, NEW q \in requests, CommitStep(q)
    PROVE  LegalInv'
<1> DEFINE n == [stamp |-> q.stamp, status |-> RecordedStatus(q.kind),
                 base |-> q.seen, by |-> q.client]
<1>1. /\ q \in Request /\ WellFormed(q) /\ \A r \in requests : r \in Request
      /\ \A k \in Jobs : \A t \in snaps[k] : t \in Snapshot
      /\ clock \in Nat
  BY DEF BaseInv, TypeOK
<1>2. /\ snaps' = [snaps EXCEPT ![q.job] = @ \cup {n}] /\ q.job \in Jobs
      /\ clock' = clock /\ q.phase = "built" /\ q.kind \in RequestStatuses
      /\ \A p \in requests' : p \in requests \ {q} \/ p.phase = "sent"
  BY <1>1 DEF CommitStep, CommitStatus, WellFormed, Request
<1>3. /\ snaps'[q.job] = snaps[q.job] \cup {n}
      /\ \A k \in Jobs \ {q.job} : snaps'[k] = snaps[k]
  BY <1>2 DEF BaseInv, TypeOK
<1>4. n.stamp = q.stamp /\ n.base = q.seen /\ n.status = RecordedStatus(q.kind)
  OBVIOUS
<1>5. 0 < q.seen /\ q.seen < q.stamp /\ q.stamp < clock /\ 0 < q.stamp
  BY <1>1, <1>2 DEF LegalInv, StampInv, Request
<1> HIDE DEF n
<1>6. StampInv'
  <2>1. \A j \in Jobs : \A s \in snaps'[j] : 0 < s.stamp /\ s.stamp < clock
    BY <1>2, <1>3, <1>4, <1>5 DEF LegalInv, StampInv
  <2>2. \A j \in Jobs : \A s, t \in snaps'[j] : s.stamp = t.stamp => s = t
    BY <1>2, <1>3, <1>4 DEF LegalInv, StampInv
  <2>3. ASSUME NEW p \in requests', p.phase = "built"
        PROVE  /\ p.seen < p.stamp /\ p.stamp < clock
               /\ \A s \in snaps'[p.job] : s.stamp # p.stamp
    BY <1>1, <1>2, <1>3, <1>4, <2>3 DEF LegalInv, StampInv, Request
  <2> QED
    BY <1>2, <2>1, <2>2, <2>3 DEF LegalInv, StampInv
<1>7. SeenInv'
  BY <1>1, <1>2, <1>3 DEF LegalInv, SeenInv, Request
<1>8. StatusChangesAreLegal'
  <2>1. \E t \in snaps'[q.job] : /\ t.stamp = n.base /\ t.stamp < n.stamp
                                 /\ \E k \in JOB_STATUS_TRANSITIONS[t.status] :
                                        n.status = RecordedStatus(k)
    BY <1>2, <1>3, <1>4, <1>5 DEF LegalInv, SeenInv
  <2> QED
    BY <1>2, <1>3, <2>1 DEF LegalInv, StatusChangesAreLegal
<1> QED
  BY <1>6, <1>7, <1>8 DEF LegalInv

LEMMA LegalNext == BaseInv /\ LegalInv /\ [Next]_vars => LegalInv'
<1> SUFFICES ASSUME BaseInv, LegalInv, [Next]_vars
             PROVE  LegalInv'
  OBVIOUS
<1>1. DataStep
  BY NextData
<1> QED
  BY <1>1, LegalQuiet, LegalRegister, LegalRead, LegalBuild, LegalCommit DEF DataStep

\* Every status change is one JOB_STATUS_TRANSITIONS allows from a status the
\* job had earlier, whatever requests overlap it.
THEOREM StatusChangesLegal == Spec => []StatusChangesAreLegal
<1>1. LegalInv => StatusChangesAreLegal
  BY DEF LegalInv
<1> QED
  BY <1>1, BaseInit, BaseNext, LegalInit, LegalNext, PTL DEF Spec

\* "The latest snapshot" is one snapshot: created_on identifies the snapshots
\* of a job.
THEOREM UniqueStamps == Spec => []StampsAreUnique
<1>1. LegalInv => StampsAreUnique
  BY DEF LegalInv, StampInv, StampsAreUnique
<1> QED
  BY <1>1, BaseInit, BaseNext, LegalInit, LegalNext, PTL DEF Spec

\* Only the commit of a reset drops the MLflow run of a job, and in the same
\* step the job is queued again.
THEOREM RunsDroppedByRequeue == Spec => RunIsDroppedOnlyByRequeue
<1> DEFINE Dropped == \A j \in Jobs : mlflowRun[j] # None /\ mlflowRun'[j] # mlflowRun[j] =>
               /\ mlflowRun'[j] = None
               /\ \E s \in snaps'[j] \ snaps[j] : s.status = "queued"
<1>1. ASSUME BaseInv, LegalInv, DataStep
      PROVE  Dropped
  <2>1. CASE RunsKept
    BY <2>1 DEF RunsKept
  <2>2. ASSUME NEW q \in requests, CommitStep(q)
        PROVE  Dropped
    <3> SUFFICES ASSUME NEW j \in Jobs, mlflowRun[j] # None, mlflowRun'[j] # mlflowRun[j]
                 PROVE  /\ mlflowRun'[j] = None
                        /\ \E s \in snaps'[j] \ snaps[j] : s.status = "queued"
      OBVIOUS
    <3> DEFINE n == [stamp |-> q.stamp, status |-> RecordedStatus(q.kind),
                     base |-> q.seen, by |-> q.client]
    <3>1. q \in Request /\ WellFormed(q)
      BY <1>1 DEF BaseInv, TypeOK
    <3>2. /\ q.phase = "built" /\ snaps' = [snaps EXCEPT ![q.job] = @ \cup {n}]
          /\ mlflowRun' = [mlflowRun EXCEPT ![q.job] =
                 IF mlflowRun[q.job] = q.drop THEN None ELSE mlflowRun[q.job]]
      BY <2>2 DEF CommitStep, CommitStatus
    <3>3. n.stamp = q.stamp /\ n.status = RecordedStatus(q.kind)
      OBVIOUS
    <3> HIDE DEF n
    <3>4. j = q.job /\ mlflowRun[j] = q.drop /\ mlflowRun'[j] = None
      BY <1>1, <3>1, <3>2 DEF BaseInv, TypeOK, Request
    <3>5. n \in snaps'[j] /\ n.status = "queued"
      BY <1>1, <3>1, <3>2, <3>3, <3>4 DEF BaseInv, TypeOK, WellFormed, RecordedStatus
    <3>6. n \notin snaps[j]
      BY <1>1, <3>2, <3>3, <3>4 DEF LegalInv, StampInv
    <3> QED
      BY <3>4, <3>5, <3>6
  <2> QED
    BY <1>1, <2>1, <2>2 DEF DataStep, QuietStep, RegisterStep, ReadStep, BuildStep
<1>2. BaseInv /\ LegalInv /\ [Next]_vars => [Dropped]_vars
  BY <1>1, NextData
<1> QED
  BY <1>2, BaseInit, BaseNext, LegalInit, LegalNext, PTL
     DEF Spec, RunIsDroppedOnlyByRequeue

-----------------------------------------------------------------------------
(* The queue.                                                              *)

LEMMA RegistrationIsPermanent ==
    ASSUME BaseInv, DataStep, NEW j \in Jobs, Registered(j)
    PROVE  Registered(j)'
<1>1. ASSUME NEW q \in requests, CommitStep(q)
      PROVE  Registered(j)'
  BY <1>1 DEF CommitStep, CommitStatus, Registered, BaseInv, TypeOK
<1>2. ASSUME NEW k \in Jobs, NEW u \in Users, RegisterStep(k, u)
      PROVE  Registered(j)'
  BY <1>2 DEF RegisterStep, Registered, BaseInv, TypeOK
<1> QED
  BY <1>1, <1>2 DEF DataStep, QuietStep, ReadStep, BuildStep, Registered

LEMMA QueueStep ==
    ASSUME BaseInv, [Next]_vars
    PROVE  \A j \in rq' \cup creating' : j \in rq \cup creating \/ Registered(j)'
<1>1. CASE UNCHANGED vars
  BY <1>1 DEF vars
<1>2. CASE CreateStep
  <2>1. PICK j \in Jobs : \/ \E u \in Users : CommitNewJob(u, j)
                          \/ SubmitNewJob(j)
                          \/ LoseNewJob(j)
    BY <1>2 DEF CreateStep
  <2>2. ASSUME NEW u \in Users, CommitNewJob(u, j)
        PROVE  Registered(j)' /\ rq' = rq /\ creating' = creating \cup {j}
    BY <2>2 DEF CommitNewJob, Registered, BaseInv, TypeOK
  <2> QED
    BY <2>1, <2>2 DEF SubmitNewJob, LoseNewJob
<1>3. CASE (\E q \in requests : ApiStep(q) \/ ApiFault(q)) \/ UserStep
  BY <1>3 DEF ApiStep, ApiFault, UserStep, ApiRead, ApiReject, ApiBuild, ApiCommit,
              ApiConflict, ApiCommitUnanswered, ApiCrash, UserRequest
<1>4. CASE \E r \in Runners : RunnerStep(r) \/ RunnerOther(r)
  BY <1>4 DEF RunnerStep, RunnerOther, RunnerDequeue, RunnerConnect, RunnerLoginFails,
              RunnerFetch, RunnerTrack, RunnerSucceed, RunnerFail, RunnerSysExit,
              RunnerTimeout, RunnerCrash, Begin
<1> QED
  BY <1>1, <1>2, <1>3, <1>4 DEF Next

\* JobService.create commits before it submits: the queue never holds a job the
\* database does not.
THEOREM SubmittedRegistered == Spec => []SubmittedJobsAreRegistered
<1>1. Init => SubmittedJobsAreRegistered
  BY DEF Init, SubmittedJobsAreRegistered
<1>2. BaseInv /\ SubmittedJobsAreRegistered /\ [Next]_vars => SubmittedJobsAreRegistered'
  BY QueueStep, NextData, RegistrationIsPermanent DEF SubmittedJobsAreRegistered, BaseInv, TypeOK
<1> QED
  BY <1>1, <1>2, BaseInit, BaseNext, PTL DEF Spec
-----------------------------------------------------------------------------
(* The runners.  What a step may do to the data that relates a runner to   *)
(* the job it runs, and then the invariants that follow.                   *)

\* A requeue is permanent, and so is everything else a job has recorded; the
\* MLflow run of a job is dropped by a requeue only; "finished" is recorded for
\* a request for it.
DataGrows ==
    /\ \A j \in Jobs : snaps[j] \subseteq snaps'[j]
    /\ \A j \in Jobs : mlflowRun[j] # None =>
           mlflowRun'[j] = mlflowRun[j] \/ Requeued(j)'
    /\ \A j \in Jobs : \A s \in snaps'[j] : s.status = "finished" =>
           s \in snaps[j] \/ \E q \in requests :
               q.kind = "finished" /\ q.job = j /\ q.client = s.by

LEMMA DataDoesGrow ==
    ASSUME BaseInv, LegalInv, DataStep
    PROVE  DataGrows
<1>1. CASE snaps' = snaps /\ RunsKept
  BY <1>1 DEF DataGrows, RunsKept
<1>2. ASSUME NEW j \in Jobs, NEW u \in Users, RegisterStep(j, u)
      PROVE  DataGrows
  <2>1. RunsKept /\ snaps[j] = {}
        /\ snaps' = [snaps EXCEPT ![j] =
               {[stamp |-> clock, status |-> "queued", base |-> 0, by |-> u]}]
    BY <1>2 DEF RegisterStep, Registered
  <2> QED
    BY <2>1 DEF DataGrows, RunsKept, BaseInv, TypeOK
<1>3. ASSUME NEW q \in requests, CommitStep(q)
      PROVE  DataGrows
  <2> DEFINE n == [stamp |-> q.stamp, status |-> RecordedStatus(q.kind),
                   base |-> q.seen, by |-> q.client]
  <2>1. q \in Request /\ WellFormed(q) /\ q.job \in Jobs
    BY DEF BaseInv, TypeOK, Request
  <2>2. /\ q.phase = "built" /\ snaps' = [snaps EXCEPT ![q.job] = @ \cup {n}]
        /\ mlflowRun' = [mlflowRun EXCEPT ![q.job] =
               IF mlflowRun[q.job] = q.drop THEN None ELSE mlflowRun[q.job]]
    BY <1>3 DEF CommitStep, CommitStatus
  <2>3. n.status = RecordedStatus(q.kind) /\ n.base = q.seen /\ n.by = q.client
    OBVIOUS
  <2> HIDE DEF n
  <2>4. /\ \A k \in Jobs \ {q.job} : snaps'[k] = snaps[k] /\ mlflowRun'[k] = mlflowRun[k]
        /\ snaps'[q.job] = snaps[q.job] \cup {n}
    BY <2>1, <2>2 DEF BaseInv, TypeOK
  <2>5. n.status = "finished" => q.kind = "finished"
    BY <2>1, <2>2, <2>3 DEF WellFormed, RecordedStatus
  <2>6. ASSUME mlflowRun[q.job] # None, mlflowRun'[q.job] # mlflowRun[q.job]
        PROVE  Requeued(q.job)'
    <3>1. q.drop # None
      BY <2>1, <2>2, <2>6 DEF BaseInv, TypeOK
    <3>2. n.status = "queued" /\ n.base # 0
      BY <2>1, <2>2, <2>3, <3>1 DEF WellFormed, RecordedStatus, LegalInv, StampInv, Request
    <3> QED
      BY <2>4, <3>2 DEF Requeued
  <2>7. \A k \in Jobs : snaps[k] \subseteq snaps'[k]
    BY <2>4
  <2>8. \A k \in Jobs : mlflowRun[k] # None =>
            mlflowRun'[k] = mlflowRun[k] \/ Requeued(k)'
    BY <2>4, <2>6
  <2>9. ASSUME NEW k \in Jobs, NEW s \in snaps'[k], s.status = "finished", s \notin snaps[k]
        PROVE  q.kind = "finished" /\ q.job = k /\ q.client = s.by
    BY <2>3, <2>4, <2>5, <2>9
  <2> QED
    BY <2>7, <2>8, <2>9 DEF DataGrows
<1> QED
  BY <1>1, <1>2, <1>3 DEF DataStep, QuietStep, ReadStep, BuildStep

Reported == {"fetching", "preparing", "tracking", "running", "finishing",
             "failing", "done"}
Executing == {"running", "finishing"}
Over == {"finishing"} \cup Ended

HasStarted(r) == \E s \in snaps[runOf[r]] : s.by = r /\ s.status = "started"

\* A runner keeps its job; it goes past the report of its start, and of its
\* MLflow run, only when that report is committed; and it never returns from
\* the end of a successful experiment.
Goes(r) ==
    /\ pc[r] # "idle" => pc'[r] # "idle" /\ runOf'[r] = runOf[r]
    /\ pc[r] \in Over /\ tracked[r] = "finished" =>
           pc'[r] \in Over /\ tracked'[r] = "finished"
    /\ pc'[r] \in Reported => pc[r] \in Reported \/ (pc[r] # "idle" /\ HasStarted(r)')
    /\ pc'[r] \in Executing =>
           pc[r] \in Executing \/ (pc[r] # "idle" /\ mlflowRun'[runOf[r]] = r)

\* A request is an earlier one at a later stage, or that of a user, or that of
\* a runner for its job; "finished" is asked for at the end of the experiment.
Comes(p) ==
    \/ \E q \in requests : p.client = q.client /\ p.job = q.job /\ p.kind = q.kind
    \/ p.client \in Users /\ p.kind \in UserStatuses \cup {"delete"}
    \/ /\ p.client \in Runners
       /\ pc'[p.client] # "idle" /\ p.job = runOf'[p.client]
       /\ p.kind = "finished" => /\ pc[p.client] = "running"
                                 /\ pc'[p.client] = "finishing"
                                 /\ tracked'[p.client] = "finished"

RunnersGo == (\A r \in Runners : Goes(r)) /\ (\A p \in requests' : Comes(p))

\* A runner that does nothing.
Stays(r) == pc'[r] = pc[r] /\ runOf'[r] = runOf[r] /\ tracked'[r] = tracked[r]

LEMMA StaysGoes ==
    ASSUME NEW r \in Runners, Stays(r)
    PROVE  Goes(r)
BY DEF Stays, Goes

LEMMA HandleExceptionGoes ==
    ASSUME BaseInv, NEW r \in Runners, pc[r] \in {"preparing", "tracking", "running"},
           NEW rest \in SUBSET requests, HandleException(r, rest)
    PROVE  RunnersGo
<1>1. /\ pc' = [pc EXCEPT ![r] = "failing"] /\ runOf' = runOf
      /\ \A x \in Runners \ {r} : tracked'[x] = tracked[x]
      /\ requests' = rest \cup {NewRequest(r, runOf[r], "failed")}
      /\ pc \in [Runners -> {"idle"} \cup Live \cup Ended]
  BY DEF HandleException, BaseInv, TypeOK
<1>2. \A x \in Runners \ {r} : Goes(x)
  BY <1>1, StaysGoes DEF Stays
<1>3. Goes(r)
  BY <1>1 DEF Goes, Reported, Executing, Over, Ended
<1>4. Comes(NewRequest(r, runOf[r], "failed"))
  BY <1>1 DEF Comes, NewRequest
<1>5. \A p \in rest : Comes(p)
  BY DEF Comes
<1> QED
  BY <1>1, <1>2, <1>3, <1>4, <1>5 DEF RunnersGo

\* One runner moves, and asks for nothing.
LEMMA MoveGoes ==
    ASSUME BaseInv, NEW r \in Runners, NEW to, pc' = [pc EXCEPT ![r] = to],
           runOf' = runOf, tracked' = tracked, requests' \subseteq requests, Goes(r)
    PROVE  RunnersGo
<1>1. \A x \in Runners \ {r} : Goes(x)
  BY StaysGoes DEF Stays, BaseInv, TypeOK
<1>2. \A p \in requests' : Comes(p)
  BY DEF Comes
<1> QED
  BY <1>1, <1>2 DEF RunnersGo

LEMMA ReplyErrorGoes ==
    ASSUME BaseInv, NEW q \in requests, ReplyError(q)
    PROVE  RunnersGo
<1> DEFINE r == q.client
<1>1. CASE ~(r \in Runners /\ Awaits(r, q.kind))
  <2>1. requests' \subseteq requests /\ UNCHANGED runnerVars
    BY <1>1 DEF ReplyError
  <2> QED
    BY <2>1, StaysGoes DEF RunnersGo, Stays, runnerVars, Comes
<1>2. CASE r \in Runners /\ Awaits(r, q.kind) /\ q.kind = "mlflow"
  <2>1. HandleException(r, requests \ {q}) /\ pc[r] = "tracking"
    BY <1>2 DEF ReplyError, Awaits
  <2> QED
    BY <1>2, <2>1, HandleExceptionGoes
<1>3. CASE r \in Runners /\ Awaits(r, q.kind) /\ q.kind # "mlflow"
  <2>1. PICK to \in {"exited", "raised"} :
            /\ pc' = [pc EXCEPT ![r] = to]
            /\ runOf' = runOf /\ tracked' = tracked /\ requests' \subseteq requests
    BY <1>3 DEF ReplyError
  <2>2. pc'[r] = to /\ pc[r] # "idle"
    BY <1>3, <2>1 DEF Awaits, BaseInv, TypeOK
  <2>3. Goes(r)
    BY <1>3, <2>1, <2>2 DEF Goes, Reported, Executing, Over, Ended
  <2> QED
    BY <1>3, <2>1, <2>3, MoveGoes
<1> QED
  BY <1>1, <1>2, <1>3

\* Every runner's request is for the job it runs.
OwnRequests ==
    \A q \in requests : q.client \in Runners =>
        pc[q.client] # "idle" /\ q.job = runOf[q.client]

LEMMA ApiCommitGoes ==
    ASSUME BaseInv, OwnRequests, NEW q \in requests, ApiCommit(q)
    PROVE  RunnersGo
<1> DEFINE r == q.client
<1>1. ReplyOk(q) /\ Commit(q) /\ requests' \subseteq requests
      /\ runOf' = runOf /\ tracked' = tracked
  BY DEF ApiCommit, ReplyOk
<1>2. CASE ~(r \in Runners /\ Awaits(r, q.kind))
  <2>1. pc' = pc
    BY <1>1, <1>2 DEF ReplyOk
  <2> QED
    BY <1>1, <2>1, StaysGoes DEF RunnersGo, Stays, Comes
<1>3. CASE r \in Runners /\ Awaits(r, q.kind)
  <2>1. PICK to : Succeeds(pc[r], to) /\ pc' = [pc EXCEPT ![r] = to]
    BY <1>1, <1>3 DEF ReplyOk
  <2>2. /\ pc'[r] = to /\ pc[r] # "idle" /\ q.job = runOf[r] /\ q.job \in Jobs
        /\ snaps \in [Jobs -> SUBSET Snapshot]
        /\ mlflowRun \in [Jobs -> Runners \cup {None}]
    BY <1>3, <2>1 DEF OwnRequests, BaseInv, TypeOK, Request
  <2>3. CASE pc[r] = "starting"
    <3>1. q.kind = "started" /\ to = "fetching"
      BY <1>3, <2>1, <2>3 DEF Awaits, Succeeds
    <3>2. CommitStatus(q)
      BY <1>1, <3>1 DEF Commit, CommitMlflowRun, CommitDelete
    <3> DEFINE n == [stamp |-> q.stamp, status |-> RecordedStatus(q.kind),
                     base |-> q.seen, by |-> q.client]
    <3>3. n \in snaps'[runOf'[r]]
      BY <1>1, <2>2, <3>2 DEF CommitStatus
    <3>4. n.by = r /\ n.status = "started"
      BY <3>1 DEF RecordedStatus
    <3>5. HasStarted(r)'
      BY <3>3, <3>4 DEF HasStarted
    <3>6. Goes(r)
      BY <1>1, <2>2, <2>3, <3>1, <3>5 DEF Goes, Executing, Over, Ended
    <3> QED
      BY <1>1, <1>3, <2>1, <3>6, MoveGoes
  <2>4. CASE pc[r] = "tracking"
    <3>1. q.kind = "mlflow" /\ to = "running"
      BY <1>3, <2>1, <2>4 DEF Awaits, Succeeds
    <3>2. CommitMlflowRun(q)
      <4>1. q.phase = "built" => q.kind \in RequestStatuses
        BY DEF BaseInv, WellFormed
      <4> QED
        BY <1>1, <3>1, <4>1 DEF Commit, CommitStatus, CommitDelete, RequestStatuses, Statuses
    <3>3. mlflowRun'[runOf[r]] = r
      BY <2>2, <3>2 DEF CommitMlflowRun
    <3>4. Goes(r)
      BY <1>1, <2>2, <2>4, <3>1, <3>3 DEF Goes, Reported, Over, Ended
    <3> QED
      BY <1>1, <1>3, <2>1, <3>4, MoveGoes
  <2>5. CASE pc[r] \in {"finishing", "failing"}
    <3>1. to \in {"done", "raised"}
      BY <2>1, <2>5 DEF Succeeds
    <3>2. Goes(r)
      BY <1>1, <2>2, <2>5, <3>1 DEF Goes, Reported, Executing, Over, Ended
    <3> QED
      BY <1>1, <1>3, <2>1, <3>2, MoveGoes
  <2> QED
    BY <1>3, <2>3, <2>4, <2>5 DEF Awaits
<1> QED
  BY <1>2, <1>3

LEMMA ApiGoes ==
    ASSUME BaseInv, OwnRequests, NEW q \in requests, ApiStep(q) \/ ApiFault(q)
    PROVE  RunnersGo
<1>1. CASE ApiReject(q) \/ ApiConflict(q) \/ ApiCommitUnanswered(q) \/ ApiCrash(q)
  BY <1>1, ReplyErrorGoes DEF ApiReject, ApiConflict, ApiCommitUnanswered, ApiCrash
<1>2. CASE ApiCommit(q)
  BY <1>2, ApiCommitGoes
<1>3. CASE ApiRead(q) \/ ApiBuild(q)
  <2>1. UNCHANGED runnerVars
    BY <1>3 DEF ApiRead, ApiBuild
  <2>2. \A p \in requests' : p \in requests \/
            (p.client = q.client /\ p.job = q.job /\ p.kind = q.kind)
    BY <1>3 DEF ApiRead, ApiBuild, Checked, Built
  <2>3. \A p \in requests' : Comes(p)
    BY <2>2 DEF Comes
  <2> QED
    BY <2>1, <2>3, StaysGoes DEF RunnersGo, Stays, runnerVars
<1> QED
  BY <1>1, <1>2, <1>3 DEF ApiStep, ApiFault

LEMMA RunnerGoes ==
    ASSUME BaseInv, NEW r \in Runners, RunnerStep(r) \/ RunnerOther(r)
    PROVE  RunnersGo
<1>0. pc \in [Runners -> {"idle"} \cup Live \cup Ended]
      /\ runOf \in [Runners -> Jobs \cup {None}]
      /\ tracked \in [Runners -> {"none", "running", "finished", "failed"}]
  BY DEF BaseInv, TypeOK
<1> DEFINE Others == \A x \in Runners \ {r} : Stays(x)
<1>g. ASSUME Others, Goes(r), \A p \in requests' : Comes(p)
      PROVE  RunnersGo
  BY <1>g, StaysGoes DEF RunnersGo
<1>c. ASSUME NEW p \in requests PROVE Comes(p)
  BY <1>c DEF Comes
<1>1. CASE RunnerDequeue(r) \/ RunnerConnect(r)
  <2>1. PICK j : Begin(r, j) /\ pc[r] = "idle"
    BY <1>1 DEF RunnerDequeue, RunnerConnect
  <2>2. Others /\ pc'[r] = "starting" /\ runOf'[r] = j
    BY <1>0, <2>1 DEF Begin, Stays
  <2>3. Goes(r)
    BY <2>1, <2>2 DEF Goes, Reported, Executing, Over, Ended
  <2>4. Comes(NewRequest(r, j, "started"))
    BY <2>2 DEF Comes, NewRequest
  <2>5. \A p \in requests' : Comes(p)
    BY <1>c, <2>1, <2>4 DEF Begin
  <2> QED
    BY <1>g, <2>2, <2>3, <2>5
<1>2. CASE RunnerLoginFails(r)
  <2>1. Others /\ pc[r] = "idle" /\ pc'[r] = "raised" /\ requests' = requests
    BY <1>0, <1>2 DEF RunnerLoginFails, Stays
  <2>2. Goes(r)
    BY <2>1 DEF Goes, Reported, Executing, Over, Ended
  <2> QED
    BY <1>c, <1>g, <2>1, <2>2
<1>3. CASE RunnerFetch(r) \/ RunnerSysExit(r) \/ RunnerCrash(r)
  <2>1. PICK to \in {"preparing", "raised", "exited", "crashed"} :
            /\ pc' = [pc EXCEPT ![r] = to] /\ UNCHANGED <<requests, runOf, tracked>>
            /\ to = "preparing" => pc[r] = "fetching"
    BY <1>3 DEF RunnerFetch, RunnerSysExit, RunnerCrash, RunnerMoves
  <2>2. pc[r] # "idle" /\ pc'[r] = to
        /\ (pc[r] \in Over => to \in Ended)
    BY <1>0, <1>3, <2>1 DEF RunnerFetch, RunnerSysExit, RunnerCrash, RunnerMoves, Live,
                            Over, Ended
  <2>3. Goes(r)
    BY <2>1, <2>2 DEF Goes, Reported, Executing, Over, Ended
  <2> QED
    BY <2>1, <2>3, MoveGoes
<1>4. CASE RunnerTrack(r)
  <2>1. /\ Others /\ pc[r] = "preparing" /\ pc'[r] = "tracking" /\ runOf' = runOf
        /\ requests' = requests \cup {NewRequest(r, runOf[r], "mlflow")}
    BY <1>0, <1>4 DEF RunnerTrack, RunnerMoves, Stays
  <2>2. Goes(r)
    BY <2>1 DEF Goes, Reported, Executing, Over, Ended
  <2>3. Comes(NewRequest(r, runOf[r], "mlflow"))
    BY <2>1 DEF Comes, NewRequest
  <2> QED
    BY <1>c, <1>g, <2>1, <2>2, <2>3
<1>5. CASE RunnerSucceed(r)
  <2>1. /\ Others /\ pc[r] = "running" /\ pc'[r] = "finishing" /\ runOf' = runOf
        /\ tracked'[r] = "finished"
        /\ requests' = requests \cup {NewRequest(r, runOf[r], "finished")}
    BY <1>0, <1>5 DEF RunnerSucceed, RunnerMoves, Stays
  <2>2. Goes(r)
    BY <2>1 DEF Goes, Reported, Executing, Over, Ended
  <2>3. Comes(NewRequest(r, runOf[r], "finished"))
    BY <2>1 DEF Comes, NewRequest
  <2> QED
    BY <1>c, <1>g, <2>1, <2>2, <2>3
<1>6. CASE \/ RunnerFail(r)
           \/ RunnerTimeout(r) /\ HandleException(r, requests)
                              /\ pc[r] \in {"preparing", "tracking", "running"}
  BY <1>6, HandleExceptionGoes DEF RunnerFail
<1>7. CASE /\ pc[r] \in {"starting", "fetching", "finishing", "failing"}
           /\ pc' = [pc EXCEPT ![r] = "raised"]
           /\ UNCHANGED <<requests, runOf, tracked>>
  <2>1. Goes(r)
    BY <1>0, <1>7 DEF Goes, Reported, Executing, Over, Ended
  <2> QED
    BY <1>7, <2>1, MoveGoes
<1> QED
  BY <1>1, <1>2, <1>3, <1>4, <1>5, <1>6, <1>7 DEF RunnerStep, RunnerOther, RunnerTimeout

LEMMA NextGoes ==
    ASSUME BaseInv, OwnRequests, [Next]_vars
    PROVE  RunnersGo
<1>1. CASE UNCHANGED <<requests, runnerVars>>
  BY <1>1, StaysGoes DEF runnerVars, RunnersGo, Stays, Comes
<1>2. CASE UserStep
  <2>1. PICK u \in Users, j \in Jobs, k \in RequestStatuses \cup {"delete"} :
            UserRequest(u, j, k)
    BY <1>2 DEF UserStep
  <2>2. /\ UNCHANGED runnerVars /\ k \in UserStatuses \cup {"delete"}
        /\ requests' = requests \cup {Checked(NewRequest(u, j, k))}
    BY <2>1 DEF UserRequest
  <2>3. Comes(Checked(NewRequest(u, j, k)))
    BY <2>2 DEF Comes, Checked, NewRequest
  <2>4. \A p \in requests' : Comes(p)
    BY <2>2, <2>3 DEF Comes
  <2> QED
    BY <2>2, <2>4, StaysGoes DEF RunnersGo, Stays, runnerVars
<1>3. CASE CreateStep
  BY <1>1, <1>3 DEF CreateStep, CommitNewJob, SubmitNewJob, LoseNewJob
<1> QED
  BY <1>1, <1>2, <1>3, ApiGoes, RunnerGoes DEF Next, vars, runnerVars
\* The run of the runner was a success and its job recorded it, or was reset.
Recorded(r) == mlflowRun[runOf[r]] = r \/ Requeued(runOf[r])
Past(r) == pc[r] \in Over /\ tracked[r] = "finished" /\ Recorded(r)

RunnersInv ==
    /\ OwnRequests
    /\ RunnersReportStart
    /\ RunningRunnersAreRecorded

\* "finished" is asked for, and recorded, only at the end of such a run.
FinishedInv ==
    /\ \A q \in requests : q.kind = "finished" => q.client \in Runners /\ Past(q.client)
    /\ \A j \in Jobs : \A s \in snaps[j] : s.status = "finished" =>
           s.by \in Runners /\ runOf[s.by] = j /\ Past(s.by)

LEMMA RecordedStays ==
    ASSUME BaseInv, DataGrows, NEW r \in Runners, Goes(r), pc[r] # "idle", Recorded(r)
    PROVE  Recorded(r)'
<1>1. runOf'[r] = runOf[r] /\ runOf[r] \in Jobs /\ r # None
  BY ConstantsAssumption DEF Goes, BaseInv, RunnersHaveJobs
<1>2. CASE Requeued(runOf[r])
  BY <1>1, <1>2 DEF DataGrows, Recorded, Requeued
<1>3. CASE mlflowRun[runOf[r]] = r
  BY <1>1, <1>3 DEF DataGrows, Recorded, Requeued
<1> QED
  BY <1>2, <1>3 DEF Recorded

LEMMA PastStays ==
    ASSUME BaseInv, DataGrows, NEW r \in Runners, Goes(r), Past(r)
    PROVE  Past(r)'
<1>1. pc[r] # "idle"
  BY DEF Past, Over, Ended
<1> QED
  BY <1>1, RecordedStays DEF Past, Goes

LEMMA RunnersNext == BaseInv /\ LegalInv /\ RunnersInv /\ [Next]_vars => RunnersInv'
<1> SUFFICES ASSUME BaseInv, LegalInv, RunnersInv, [Next]_vars
             PROVE  RunnersInv'
  OBVIOUS
<1>1. DataGrows /\ RunnersGo
  BY NextData, DataDoesGrow, NextGoes DEF RunnersInv
<1>2. BaseInv'
  BY BaseNext
<1>3. ASSUME NEW p \in requests', p.client \in Runners
      PROVE  pc'[p.client] # "idle" /\ p.job = runOf'[p.client]
  <2>1. Comes(p) /\ Goes(p.client)
    BY <1>1, <1>3 DEF RunnersGo
  <2>2. CASE \E q \in requests : p.client = q.client /\ p.job = q.job /\ p.kind = q.kind
    BY <1>3, <2>1, <2>2 DEF RunnersInv, OwnRequests, Goes
  <2>3. CASE p.client \in Users
    BY <1>3, <2>3, ConstantsAssumption
  <2> QED
    BY <2>1, <2>2, <2>3 DEF Comes
<1>4. ASSUME NEW r \in Runners, pc'[r] \in Reported
      PROVE  HasStarted(r)'
  <2>1. Goes(r)
    BY <1>1 DEF RunnersGo
  <2>2. CASE pc[r] \in Reported
    <3>1. HasStarted(r) /\ pc[r] # "idle"
      BY <2>2 DEF RunnersInv, RunnersReportStart, Reported, HasStarted
    <3>2. runOf'[r] = runOf[r] /\ runOf[r] \in Jobs
      BY <2>1, <3>1 DEF Goes, BaseInv, RunnersHaveJobs
    <3> QED
      BY <1>1, <3>1, <3>2 DEF DataGrows, HasStarted
  <2> QED
    BY <1>4, <2>1, <2>2 DEF Goes
<1>5. ASSUME NEW r \in Runners, pc'[r] \in Executing
      PROVE  Recorded(r)'
  <2>1. Goes(r)
    BY <1>1 DEF RunnersGo
  <2>2. CASE pc[r] \in Executing
    <3>1. Recorded(r) /\ pc[r] # "idle"
      BY <2>2 DEF RunnersInv, RunningRunnersAreRecorded, Executing, Recorded
    <3> QED
      BY <1>1, <2>1, <3>1, RecordedStays
  <2>3. CASE pc[r] # "idle" /\ mlflowRun'[runOf[r]] = r
    BY <2>1, <2>3 DEF Goes, Recorded
  <2> QED
    BY <1>5, <2>1, <2>2, <2>3 DEF Goes
<1> QED
  BY <1>3, <1>4, <1>5
     DEF RunnersInv, OwnRequests, RunnersReportStart, RunningRunnersAreRecorded,
         Reported, Executing, HasStarted, Recorded

LEMMA RunnersInit == Init => RunnersInv
BY DEF Init, RunnersInv, OwnRequests, RunnersReportStart, RunningRunnersAreRecorded

LEMMA FinishedNext ==
    ASSUME "finished" \notin UserStatuses, BaseInv, LegalInv, RunnersInv, FinishedInv,
           [Next]_vars
    PROVE  FinishedInv'
<1>1. DataGrows /\ RunnersGo
  BY NextData, DataDoesGrow, NextGoes DEF RunnersInv
<1>2. RunnersInv'
  BY RunnersNext
<1>3. ASSUME NEW r \in Runners, Past(r)
      PROVE  Past(r)' /\ runOf'[r] = runOf[r]
  <2>1. Goes(r) /\ pc[r] # "idle"
    BY <1>1, <1>3 DEF RunnersGo, Past, Over, Ended
  <2> QED
    BY <1>1, <1>3, <2>1, PastStays DEF Goes
<1>4. ASSUME NEW p \in requests', p.kind = "finished"
      PROVE  p.client \in Runners /\ Past(p.client)'
  <2>1. Comes(p)
    BY <1>1 DEF RunnersGo
  <2>2. CASE \E q \in requests : p.client = q.client /\ p.job = q.job /\ p.kind = q.kind
    BY <1>3, <1>4, <2>2 DEF FinishedInv
  <2>3. CASE p.kind \in UserStatuses \cup {"delete"}
    BY <1>4, <2>3
  <2>4. CASE /\ p.client \in Runners /\ pc[p.client] = "running"
             /\ pc'[p.client] = "finishing" /\ tracked'[p.client] = "finished"
    <3>1. Recorded(p.client)'
      BY <1>2, <2>4 DEF RunnersInv, RunningRunnersAreRecorded, Recorded
    <3> QED
      BY <2>4, <3>1 DEF Past, Over
  <2> QED
    BY <1>4, <2>1, <2>2, <2>3, <2>4 DEF Comes
<1>5. ASSUME NEW j \in Jobs, NEW s \in snaps'[j], s.status = "finished"
      PROVE  s.by \in Runners /\ runOf'[s.by] = j /\ Past(s.by)'
  <2>1. CASE s \in snaps[j]
    BY <1>3, <1>5, <2>1 DEF FinishedInv
  <2>2. ASSUME NEW q \in requests, q.kind = "finished", q.job = j, q.client = s.by
        PROVE  s.by \in Runners /\ runOf'[s.by] = j /\ Past(s.by)'
    <3>1. s.by \in Runners /\ Past(s.by) /\ runOf[s.by] = j
      BY <2>2 DEF FinishedInv, RunnersInv, OwnRequests
    <3> QED
      BY <1>3, <3>1
  <2> QED
    BY <1>1, <1>5, <2>1, <2>2 DEF DataGrows
<1> QED
  BY <1>4, <1>5 DEF FinishedInv

LEMMA FinishedInit == Init => FinishedInv
BY DEF Init, FinishedInv

\* Task code runs only for a job that its runner has reported as started,
\* whatever is lost or crashes, and however many runners share the job
\* (run_dioptra_job.main waits for each answer).
THEOREM StartIsReported == Spec => []RunnersReportStart
<1>1. RunnersInv => RunnersReportStart
  BY DEF RunnersInv
<1> QED
  BY <1>1, BaseInit, BaseNext, LegalInit, LegalNext, RunnersInit, RunnersNext, PTL
     DEF Spec

\* The primary key of the MLflow run of a job lets one runner through: whoever
\* executes the job is the recorded one, unless the job was reset.
THEOREM ExecutionIsExclusive == Spec => []RunningRunnersAreRecorded
<1>1. RunnersInv => RunningRunnersAreRecorded
  BY DEF RunnersInv
<1> QED
  BY <1>1, BaseInit, BaseNext, LegalInit, LegalNext, RunnersInit, RunnersNext, PTL
     DEF Spec

\* When no user reports an outcome, a job that was not reset is finished only
\* by the runner whose MLflow run it records, and that run was a success.
THEOREM FinishedHaveTheirRun ==
    ASSUME "finished" \notin UserStatuses
    PROVE  Spec => []FinishedJobsHaveTheirRun
<1>1. BaseInv /\ FinishedInv => FinishedJobsHaveTheirRun
  BY DEF FinishedInv, FinishedJobsHaveTheirRun, Past, Recorded
<1>2. BaseInv /\ LegalInv /\ RunnersInv /\ FinishedInv /\ [Next]_vars => FinishedInv'
  BY FinishedNext
<1> QED
  BY <1>1, <1>2, BaseInit, BaseNext, LegalInit, LegalNext, RunnersInit, RunnersNext,
     FinishedInit, PTL DEF Spec
-----------------------------------------------------------------------------
(* One API process: requests do not overlap, and the jobs behave as the    *)
(* automaton of JobStatus.                                                 *)

FiniteInv ==
    /\ IsFiniteSet(requests) /\ IsFiniteSet(creating)
    /\ \A j \in Jobs : IsFiniteSet(snaps[j])

\* The set grows by one element at most.
Grows(S, T) == \E x : T \subseteq S \cup {x}

LEMMA GrowsFinite ==
    ASSUME NEW S, NEW T, IsFiniteSet(S), Grows(S, T)
    PROVE  IsFiniteSet(T)
<1>1. PICK x : T \subseteq S \cup {x}
  BY DEF Grows
<1>2. IsFiniteSet(S \cup {x})
  BY FS_AddElement
<1> QED
  BY <1>1, <1>2, FS_Subset

LEMMA RequestsGrow ==
    ASSUME [Next]_vars
    PROVE  Grows(requests, requests')
<1>1. ASSUME NEW q \in requests, ReplyOk(q) \/ ReplyError(q)
      PROVE  Grows(requests, requests')
  BY <1>1 DEF ReplyOk, ReplyError, HandleException, Grows
<1>2. ASSUME NEW q \in requests, ApiStep(q) \/ ApiFault(q)
      PROVE  Grows(requests, requests')
  BY <1>1, <1>2 DEF ApiStep, ApiFault, ApiRead, ApiReject, ApiBuild, ApiCommit,
                    ApiConflict, ApiCommitUnanswered, ApiCrash, Grows
<1>3. ASSUME NEW r \in Runners, RunnerStep(r) \/ RunnerOther(r)
      PROVE  Grows(requests, requests')
  BY <1>3 DEF RunnerStep, RunnerOther, RunnerDequeue, RunnerConnect, RunnerLoginFails,
              RunnerFetch, RunnerTrack, RunnerSucceed, RunnerFail, RunnerSysExit,
              RunnerTimeout, RunnerCrash, Begin, HandleException, Grows
<1>4. CASE CreateStep \/ UNCHANGED vars
  BY <1>4 DEF CreateStep, CommitNewJob, SubmitNewJob, LoseNewJob, vars, Grows
<1>5. CASE UserStep
  BY <1>5 DEF UserStep, UserRequest, Grows
<1> QED
  BY <1>2, <1>3, <1>4, <1>5 DEF Next

LEMMA CreatingGrows ==
    ASSUME [Next]_vars
    PROVE  Grows(creating, creating')
<1>1. CASE CreateStep
  BY <1>1 DEF CreateStep, CommitNewJob, SubmitNewJob, LoseNewJob, Grows
<1>2. CASE UNCHANGED creating
  BY <1>2 DEF Grows
<1> QED
  BY <1>1, <1>2
     DEF Next, vars, ApiStep, ApiFault, ApiRead, ApiReject, ApiBuild, ApiCommit,
         ApiConflict, ApiCommitUnanswered, ApiCrash, UserStep, UserRequest, RunnerStep,
         RunnerOther, RunnerDequeue, RunnerConnect, RunnerLoginFails, RunnerFetch,
         RunnerTrack, RunnerSucceed, RunnerFail, RunnerSysExit, RunnerTimeout,
         RunnerCrash, Begin

\* A step adds one snapshot to one job, or leaves the snapshots alone.
Adds(k, n) ==
    /\ n \notin snaps[k]
    /\ snaps' = [snaps EXCEPT ![k] = snaps[k] \cup {n}]

RegisteredSnapshot(u) == [stamp |-> clock, status |-> "queued", base |-> 0, by |-> u]

CommittedSnapshot(q) ==
    [stamp |-> q.stamp, status |-> RecordedStatus(q.kind), base |-> q.seen, by |-> q.client]

LEMMA StepsAdd ==
    ASSUME BaseInv, LegalInv
    PROVE  /\ \A j \in Jobs, u \in Users :
                  RegisterStep(j, u) => snaps[j] = {} /\ Adds(j, RegisteredSnapshot(u))
           /\ \A q \in requests : CommitStep(q) => Adds(q.job, CommittedSnapshot(q))
<1>1. ASSUME NEW j \in Jobs, NEW u \in Users, RegisterStep(j, u)
      PROVE  snaps[j] = {} /\ Adds(j, RegisteredSnapshot(u))
  BY <1>1 DEF RegisterStep, Registered, Adds, RegisteredSnapshot
<1>2. ASSUME NEW q \in requests, CommitStep(q)
      PROVE  Adds(q.job, CommittedSnapshot(q))
  <2>1. q.phase = "built" /\ \A s \in snaps[q.job] : s.stamp # q.stamp
    BY <1>2 DEF CommitStep, CommitStatus, LegalInv, StampInv
  <2>2. CommittedSnapshot(q) \notin snaps[q.job]
    BY <2>1 DEF CommittedSnapshot
  <2> QED
    BY <1>2, <2>2 DEF CommitStep, CommitStatus, Adds, CommittedSnapshot
<1> QED
  BY <1>1, <1>2

LEMMA FiniteNext ==
    ASSUME BaseInv, LegalInv, FiniteInv, [Next]_vars
    PROVE  FiniteInv'
<1>1. ASSUME NEW j \in Jobs PROVE Grows(snaps[j], snaps'[j])
  <2>1. ASSUME NEW k \in Jobs, NEW n, Adds(k, n) PROVE Grows(snaps[j], snaps'[j])
    BY <2>1 DEF Adds, Grows, BaseInv, TypeOK
  <2>2. CASE snaps' = snaps
    BY <2>2 DEF Grows
  <2>3. \A q \in requests : q.job \in Jobs
    BY DEF BaseInv, TypeOK, Request
  <2> QED
    BY <2>1, <2>2, <2>3, StepsAdd, NextData
       DEF DataStep, QuietStep, ReadStep, BuildStep
<1> QED
  BY <1>1, RequestsGrow, CreatingGrows, GrowsFinite DEF FiniteInv

\* One request at a time is served, and what it was checked against is still
\* the present state of its job.
SingleInv ==
    /\ \A p, q \in Serving : p = q
    /\ \A q \in Serving :
           /\ Registered(q.job)
           /\ q.seen = LatestSnapshot(q.job).stamp
           /\ q.kind \in RequestStatuses =>
                  q.kind \in JOB_STATUS_TRANSITIONS[LatestSnapshot(q.job).status]

OneProcess == ApiWorkers = 1

LEMMA FreeMeansNoneServed ==
    ASSUME OneProcess, FiniteInv, ApiFree
    PROVE  Serving = {}
<1>1. IsFiniteSet(Serving)
  BY FS_Subset DEF FiniteInv, Serving
<1>2. Cardinality(Serving) \in Nat /\ Cardinality(creating) \in Nat
  BY <1>1, FS_CardinalityType DEF FiniteInv
<1>3. Cardinality(Serving) = 0
  BY <1>2 DEF ApiFree, OneProcess
<1> QED
  BY <1>1, <1>3, FS_EmptySet

LEMMA SingleNext ==
    ASSUME OneProcess, BaseInv, LegalInv, FiniteInv, SingleInv, [Next]_vars
    PROVE  SingleInv'
<1>1. DataStep
  BY NextData
<1>2. CASE Serving' \subseteq Serving /\ snaps' = snaps
  BY <1>2 DEF SingleInv, Registered, LatestSnapshot
<1>3. CASE QuietStep
  BY <1>2, <1>3 DEF QuietStep, NothingNew, Serving
<1>4. ASSUME NEW j \in Jobs, NEW u \in Users, RegisterStep(j, u)
      PROVE  SingleInv'
  <2>1. Serving' = Serving /\ ~Registered(j)
    BY <1>4 DEF RegisterStep, Serving
  <2>2. \A k \in Jobs \ {j} : snaps'[k] = snaps[k]
    BY <1>4 DEF RegisterStep, BaseInv, TypeOK
  <2>3. \A q \in Serving : q.job \in Jobs \ {j}
    BY <2>1 DEF SingleInv, Serving, BaseInv, TypeOK, Request
  <2> QED
    BY <2>1, <2>2, <2>3 DEF SingleInv, Registered, LatestSnapshot
<1>5. ASSUME NEW p \in Request, ReadStep(p) PROVE SingleInv'
  <2>1. Serving = {}
    BY <1>5, FreeMeansNoneServed DEF ReadStep
  <2>2. Serving' \subseteq {Checked(p)} /\ snaps' = snaps
    BY <1>5, <2>1 DEF ReadStep, Serving
  <2>3. /\ Registered(p.job) /\ Checked(p).job = p.job /\ Checked(p).kind = p.kind
        /\ Checked(p).seen = LatestSnapshot(p.job).stamp
        /\ p.kind \in RequestStatuses =>
               p.kind \in JOB_STATUS_TRANSITIONS[LatestSnapshot(p.job).status]
    BY <1>5 DEF ReadStep, Accepts, Visible, Checked, Status
  <2>4. LatestSnapshot(p.job)' = LatestSnapshot(p.job) /\ Registered(p.job)'
    BY <2>2, <2>3 DEF LatestSnapshot, Registered
  <2> QED
    BY <2>2, <2>3, <2>4 DEF SingleInv
<1>6. ASSUME NEW q \in requests, NEW d \in Runners \cup {None}, BuildStep(q, d)
      PROVE  SingleInv'
  <2>1. q \in Serving /\ snaps' = snaps
    BY <1>6 DEF BuildStep, Serving
  <2>2. Serving' \subseteq {Built(q, d)}
    BY <1>6, <2>1 DEF BuildStep, Serving, SingleInv
  <2>3. Built(q, d).job = q.job /\ Built(q, d).kind = q.kind /\ Built(q, d).seen = q.seen
    BY DEF Built
  <2>4. LatestSnapshot(q.job)' = LatestSnapshot(q.job) /\ Registered(q.job)'
    BY <2>1 DEF LatestSnapshot, Registered, SingleInv
  <2> QED
    BY <2>1, <2>2, <2>3, <2>4 DEF SingleInv
<1>7. ASSUME NEW q \in requests, CommitStep(q) PROVE SingleInv'
  <2>1. q \in Serving
    BY <1>7 DEF CommitStep, CommitStatus, Serving
  <2>2. Serving' = {}
    BY <1>7, <2>1 DEF CommitStep, Serving, SingleInv
  <2> QED
    BY <2>2 DEF SingleInv
<1> QED
  BY <1>1, <1>3, <1>4, <1>5, <1>6, <1>7 DEF DataStep
\* The snapshot with the greatest stamp is the latest one.
LEMMA GreatestIsChosen ==
    ASSUME NEW S, NEW n \in S, \A t \in S : t.stamp \in Nat,
           \A s, t \in S : s.stamp = t.stamp => s = t,
           \A t \in S : t.stamp <= n.stamp
    PROVE  (CHOOSE s \in S : \A t \in S : t.stamp <= s.stamp) = n
<1> DEFINE c == CHOOSE s \in S : \A t \in S : t.stamp <= s.stamp
<1>1. c \in S /\ \A t \in S : t.stamp <= c.stamp
  OBVIOUS
<1> HIDE DEF c
<1>2. c.stamp <= n.stamp /\ n.stamp <= c.stamp /\ c.stamp \in Nat /\ n.stamp \in Nat
  BY <1>1
<1>3. c = n
  BY <1>1, <1>2
<1> QED
  BY <1>3 DEF c

\* Statuses, attempts and claims as JobStatus counts them.
StatusOf == [j \in Jobs |-> Status(j)]
Queuings(j) == {s \in snaps[j] : s.status = "queued"}
Claimings(j) == {s \in snaps[j] : s.status = "started"}
AttemptsOf == [j \in Jobs |-> Cardinality(Queuings(j))]
ClaimsOf == [j \in Jobs |-> Cardinality(Claimings(j))]

LEMMA OneMoreSnapshot ==
    ASSUME BaseInv, FiniteInv, BaseInv', LegalInv', NEW k \in Jobs, NEW n, Adds(k, n),
           \A t \in snaps[k] : t.stamp <= n.stamp
    PROVE  /\ StatusOf' = [StatusOf EXCEPT ![k] = n.status]
           /\ AttemptsOf' = IF n.status = "queued"
                            THEN [AttemptsOf EXCEPT ![k] = @ + 1] ELSE AttemptsOf
           /\ ClaimsOf' = IF n.status = "started"
                          THEN [ClaimsOf EXCEPT ![k] = @ + 1] ELSE ClaimsOf
<1>1. /\ snaps'[k] = snaps[k] \cup {n} /\ n \notin snaps[k]
      /\ \A j \in Jobs \ {k} : snaps'[j] = snaps[j]
  BY DEF Adds, BaseInv, TypeOK
<1>2. /\ \A t \in snaps'[k] : t.stamp \in Nat
      /\ \A s, t \in snaps'[k] : s.stamp = t.stamp => s = t
  BY DEF BaseInv, TypeOK, Snapshot, LegalInv, StampInv
<1>3. \A t \in snaps'[k] : t.stamp <= n.stamp
  BY <1>1, <1>2
<1>4. Status(k)' = n.status
  <2>1. LatestSnapshot(k)' = n
    BY <1>1, <1>2, <1>3, GreatestIsChosen DEF LatestSnapshot
  <2> QED
    BY <1>1, <2>1 DEF Status, Registered
<1>5. ASSUME NEW j \in Jobs \ {k} PROVE Status(j)' = Status(j)
  <2>1. snaps'[j] = snaps[j]
    BY <1>1
  <2>2. LatestSnapshot(j)' = LatestSnapshot(j)
    BY <2>1 DEF LatestSnapshot
  <2> QED
    BY <2>1, <2>2 DEF Status, Registered
<1>6. StatusOf' = [StatusOf EXCEPT ![k] = n.status]
  BY <1>4, <1>5 DEF StatusOf
<1>7. /\ \A j \in Jobs \ {k} : Queuings(j)' = Queuings(j) /\ Claimings(j)' = Claimings(j)
      /\ Queuings(k)' = IF n.status = "queued" THEN Queuings(k) \cup {n} ELSE Queuings(k)
      /\ Claimings(k)' = IF n.status = "started" THEN Claimings(k) \cup {n}
                                                 ELSE Claimings(k)
      /\ n \notin Queuings(k) /\ n \notin Claimings(k)
  BY <1>1 DEF Queuings, Claimings
<1>8. IsFiniteSet(Queuings(k)) /\ IsFiniteSet(Claimings(k))
  BY FS_Subset DEF FiniteInv, Queuings, Claimings
<1>9. /\ Cardinality(Queuings(k) \cup {n}) = Cardinality(Queuings(k)) + 1
      /\ Cardinality(Claimings(k) \cup {n}) = Cardinality(Claimings(k)) + 1
  BY <1>7, <1>8, FS_AddElement
<1>10. AttemptsOf' = IF n.status = "queued"
                     THEN [AttemptsOf EXCEPT ![k] = @ + 1] ELSE AttemptsOf
  BY <1>7, <1>9 DEF AttemptsOf
<1>11. ClaimsOf' = IF n.status = "started"
                   THEN [ClaimsOf EXCEPT ![k] = @ + 1] ELSE ClaimsOf
  BY <1>7, <1>9 DEF ClaimsOf
<1> QED
  BY <1>6, <1>10, <1>11

\* JobStatus over these functions.
NextStatus(k, from, to) == StatusOf[k] \in from /\ StatusOf' = [StatusOf EXCEPT ![k] = to]
OneAttempt(k) == AttemptsOf' = [AttemptsOf EXCEPT ![k] = @ + 1]
OneClaim(k) == ClaimsOf' = [ClaimsOf EXCEPT ![k] = @ + 1]

StatusMoves(k) ==
    \/ /\ NextStatus(k, {"none"}, "queued")
       /\ OneAttempt(k) /\ ClaimsOf' = ClaimsOf
    \/ /\ NextStatus(k, {"queued", "started", "deferred", "finished", "failed"}, "queued")
       /\ OneAttempt(k) /\ ClaimsOf' = ClaimsOf
    \/ /\ NextStatus(k, {"queued", "deferred"}, "started")
       /\ OneClaim(k) /\ AttemptsOf' = AttemptsOf
    \/ /\ \/ NextStatus(k, {"started"}, "finished")
          \/ NextStatus(k, {"started"}, "failed")
          \/ NextStatus(k, {"queued"}, "deferred")
       /\ AttemptsOf' = AttemptsOf /\ ClaimsOf' = ClaimsOf

StatusStays == StatusOf' = StatusOf /\ AttemptsOf' = AttemptsOf /\ ClaimsOf' = ClaimsOf

LEMMA StatusSteps ==
    ASSUME BaseInv, LegalInv, FiniteInv, SingleInv, BaseInv', LegalInv', DataStep
    PROVE  StatusStays \/ \E k \in Jobs : StatusMoves(k)
<1>1. CASE snaps' = snaps
  <2>1. /\ \A j \in Jobs : Status(j)' = Status(j)
        /\ \A j \in Jobs : Queuings(j)' = Queuings(j) /\ Claimings(j)' = Claimings(j)
    BY <1>1 DEF Status, Registered, LatestSnapshot, Queuings, Claimings
  <2> QED
    BY <2>1 DEF StatusStays, StatusOf, AttemptsOf, ClaimsOf
<1>2. ASSUME NEW k \in Jobs, NEW u \in Users, RegisterStep(k, u)
      PROVE  StatusMoves(k)
  <2> DEFINE n == RegisteredSnapshot(u)
  <2>1. snaps[k] = {} /\ Adds(k, n) /\ n.status = "queued"
    BY <1>2, StepsAdd DEF RegisteredSnapshot
  <2>2. StatusOf[k] = "none"
    BY <2>1 DEF StatusOf, Status, Registered
  <2> HIDE DEF n
  <2>3. \A t \in snaps[k] : t.stamp <= n.stamp
    BY <2>1
  <2>4. /\ StatusOf' = [StatusOf EXCEPT ![k] = "queued"]
        /\ OneAttempt(k) /\ ClaimsOf' = ClaimsOf
    BY <2>1, <2>3, OneMoreSnapshot DEF OneAttempt
  <2> QED
    BY <2>2, <2>4 DEF StatusMoves, NextStatus
<1>3. ASSUME NEW q \in requests, CommitStep(q)
      PROVE  q.job \in Jobs /\ StatusMoves(q.job)
  <2> DEFINE k == q.job
             n == CommittedSnapshot(q)
  <2>1. q \in Request /\ q.phase = "built" /\ k \in Jobs /\ q.kind \in RequestStatuses
    BY <1>3 DEF BaseInv, TypeOK, Request, WellFormed, CommitStep, CommitStatus
  <2>2. /\ Registered(k) /\ q.seen = LatestSnapshot(k).stamp
        /\ q.kind \in JOB_STATUS_TRANSITIONS[LatestSnapshot(k).status]
    BY <2>1 DEF SingleInv, Serving
  <2>3. n.stamp = q.stamp /\ n.status = RecordedStatus(q.kind) /\ Adds(k, n)
    BY <1>3, StepsAdd DEF CommittedSnapshot
  <2>4. LatestSnapshot(k) \in snaps[k]
        /\ \A t \in snaps[k] : t.stamp <= LatestSnapshot(k).stamp
    BY <2>1, <2>2, LatestSnapshotFacts DEF BaseInv
  <2>5. \A t \in snaps[k] : t.stamp \in Nat
    BY <2>1 DEF BaseInv, TypeOK, Snapshot
  <2>6. q.seen < q.stamp /\ q.stamp \in Nat
    BY <2>1 DEF LegalInv, StampInv, Request
  <2> HIDE DEF n
  <2>7. \A t \in snaps[k] : t.stamp <= n.stamp
    BY <2>2, <2>3, <2>4, <2>5, <2>6
  <2>8. /\ StatusOf' = [StatusOf EXCEPT ![k] = n.status]
        /\ AttemptsOf' = IF n.status = "queued"
                         THEN [AttemptsOf EXCEPT ![k] = @ + 1] ELSE AttemptsOf
        /\ ClaimsOf' = IF n.status = "started"
                       THEN [ClaimsOf EXCEPT ![k] = @ + 1] ELSE ClaimsOf
    BY <2>1, <2>3, <2>7, OneMoreSnapshot
  <2>9. StatusOf[k] = LatestSnapshot(k).status
    BY <2>1, <2>2 DEF StatusOf, Status
  <2>10. LatestSnapshot(k).status \in Statuses
    BY <2>1, <2>4 DEF BaseInv, TypeOK, Snapshot
  <2>11. \/ n.status = "queued"
         \/ n.status = "started" /\ StatusOf[k] \in {"queued", "deferred"}
         \/ n.status \in {"finished", "failed"} /\ StatusOf[k] = "started"
         \/ n.status = "deferred" /\ StatusOf[k] = "queued"
    BY <2>2, <2>3, <2>9, <2>10 DEF JOB_STATUS_TRANSITIONS, Statuses, RecordedStatus
  <2>12. StatusOf[k] \in {"queued", "started", "deferred", "finished", "failed"}
    BY <2>9, <2>10 DEF Statuses
  <2> QED
    BY <2>1, <2>8, <2>11, <2>12 DEF StatusMoves, NextStatus, OneAttempt, OneClaim
<1> QED
  BY <1>1, <1>2, <1>3 DEF DataStep, QuietStep, ReadStep, BuildStep

LEMMA StatusStepsRefine ==
    ASSUME StatusStays \/ \E k \in Jobs : StatusMoves(k)
    PROVE  [Promise!StatusNext]_(Promise!statusVars)
<1>1. CASE StatusStays
  BY <1>1 DEF StatusStays, Promise!statusVars, StatusOf, AttemptsOf, ClaimsOf,
              Queuings, Claimings
<1>2. ASSUME NEW k \in Jobs, StatusMoves(k) PROVE Promise!StatusNext
  <2>1. \/ Promise!Register(k) \/ Promise!Reset(k) \/ Promise!Claim(k)
        \/ Promise!Settle(k)
    BY <1>2 DEF StatusMoves, NextStatus, OneAttempt, OneClaim, StatusOf, AttemptsOf,
                ClaimsOf, Queuings, Claimings, Promise!Register, Promise!Reset,
                Promise!Queue, Promise!Claim, Promise!Settle, Promise!Enter
  <2> QED
    BY <2>1 DEF Promise!StatusNext
<1> QED
  BY <1>1, <1>2

LEMMA SingleInit ==
    Init => FiniteInv /\ SingleInv /\ Promise!StatusInit
<1> SUFFICES ASSUME Init PROVE FiniteInv /\ SingleInv /\ Promise!StatusInit
  OBVIOUS
<1>1. FiniteInv /\ SingleInv
  BY FS_EmptySet DEF Init, FiniteInv, SingleInv, Serving
<1>2. \A j \in Jobs : /\ Status(j) = "none"
                      /\ {s \in snaps[j] : s.status = "queued"} = {}
                      /\ {s \in snaps[j] : s.status = "started"} = {}
  BY DEF Init, Status, Registered
<1>3. Promise!StatusInit
  BY <1>2, FS_EmptySet DEF Promise!StatusInit
<1> QED
  BY <1>1, <1>3

\* With one API process the jobs behave as the automaton of JobStatus, whatever
\* crashes and whatever answers are lost: a committed status is checked against
\* the present one, for requests do not overlap.
THEOREM OneProcessImplementsStatus ==
    ASSUME OneProcess
    PROVE  Spec => ImplementsJobStatus
<1>1. BaseInv /\ LegalInv /\ FiniteInv /\ [Next]_vars => FiniteInv'
  BY FiniteNext
<1>2. BaseInv /\ LegalInv /\ FiniteInv /\ SingleInv /\ [Next]_vars => SingleInv'
  BY SingleNext
<1>3. BaseInv /\ LegalInv /\ FiniteInv /\ SingleInv /\ BaseInv' /\ LegalInv' /\ [Next]_vars
      => [Promise!StatusNext]_(Promise!statusVars)
  BY NextData, StatusSteps, StatusStepsRefine
<1> QED
  BY <1>1, <1>2, <1>3, SingleInit, BaseInit, BaseNext, LegalInit, LegalNext, PTL
     DEF Spec, ImplementsJobStatus, Promise!StatusSpec

-----------------------------------------------------------------------------
(* What the automaton of JobStatus guarantees, for the statuses of the jobs *)

\* A job that may still be claimed has been claimed less often than queued.
ClaimableHasSpareAttempt ==
  \A j \in Jobs : StatusOf[j] \in {"queued", "deferred"} => ClaimsOf[j] < AttemptsOf[j]

StatusInv ==
  Promise!StatusTypeOK /\ Promise!AtMostOneClaimPerAttempt /\ ClaimableHasSpareAttempt

LEMMA PromiseVariables ==
    /\ Promise!StatusTypeOK <=>
         /\ StatusOf \in [Jobs -> {"none", "queued", "started", "deferred",
                                   "finished", "failed"}]
         /\ AttemptsOf \in [Jobs -> Nat]
         /\ ClaimsOf \in [Jobs -> Nat]
    /\ Promise!AtMostOneClaimPerAttempt <=>
         \A j \in Jobs : ClaimsOf[j] <= AttemptsOf[j]
BY DEF Promise!StatusTypeOK, Promise!AtMostOneClaimPerAttempt, StatusOf, AttemptsOf,
       ClaimsOf, Queuings, Claimings

LEMMA StatusInvInit == Promise!StatusInit => StatusInv
BY DEF Promise!StatusInit, StatusInv, Promise!StatusTypeOK,
       Promise!AtMostOneClaimPerAttempt, ClaimableHasSpareAttempt, StatusOf,
       AttemptsOf, ClaimsOf, Queuings, Claimings

\* A step of the automaton in the names of the refinement.
AutomatonStep(j, from, to) ==
  /\ StatusOf[j] \in from
  /\ StatusOf' = [StatusOf EXCEPT ![j] = to]
  /\ AttemptsOf' = IF to = "queued" THEN [AttemptsOf EXCEPT ![j] = @ + 1] ELSE AttemptsOf
  /\ ClaimsOf' = IF to = "started" THEN [ClaimsOf EXCEPT ![j] = @ + 1] ELSE ClaimsOf

LEMMA AutomatonSteps ==
    ASSUME Promise!StatusNext
    PROVE  \E j \in Jobs :
             \/ \E from \in SUBSET {"none", "queued", "started", "deferred",
                                    "finished", "failed"} :
                  AutomatonStep(j, from, "queued")
             \/ AutomatonStep(j, {"queued", "deferred"}, "started")
             \/ AutomatonStep(j, {"started"}, "finished")
             \/ AutomatonStep(j, {"started"}, "failed")
             \/ AutomatonStep(j, {"queued"}, "deferred")
BY DEF Promise!StatusNext, Promise!Register, Promise!Reset, Promise!Queue,
       Promise!Claim, Promise!Settle, Promise!Enter, AutomatonStep, StatusOf,
       AttemptsOf, ClaimsOf, Queuings, Claimings

LEMMA StatusInvNext == StatusInv /\ [Promise!StatusNext]_(Promise!statusVars) => StatusInv'
<1> SUFFICES ASSUME StatusInv, [Promise!StatusNext]_(Promise!statusVars)
             PROVE  StatusInv'
  OBVIOUS
<1>1. /\ StatusOf \in [Jobs -> {"none", "queued", "started", "deferred",
                                "finished", "failed"}]
      /\ AttemptsOf \in [Jobs -> Nat] /\ ClaimsOf \in [Jobs -> Nat]
      /\ \A j \in Jobs : ClaimsOf[j] <= AttemptsOf[j]
  BY PromiseVariables DEF StatusInv
<1>2. SUFFICES /\ StatusOf' \in [Jobs -> {"none", "queued", "started", "deferred",
                                          "finished", "failed"}]
               /\ AttemptsOf' \in [Jobs -> Nat] /\ ClaimsOf' \in [Jobs -> Nat]
               /\ \A j \in Jobs : ClaimsOf'[j] <= AttemptsOf'[j]
               /\ ClaimableHasSpareAttempt'
  BY DEF StatusInv, Promise!StatusTypeOK, Promise!AtMostOneClaimPerAttempt, StatusOf,
         AttemptsOf, ClaimsOf, Queuings, Claimings
<1>3. CASE Promise!StatusNext
  <2>1. PICK j \in Jobs :
             \/ \E from \in SUBSET {"none", "queued", "started", "deferred",
                                    "finished", "failed"} :
                  AutomatonStep(j, from, "queued")
             \/ AutomatonStep(j, {"queued", "deferred"}, "started")
             \/ AutomatonStep(j, {"started"}, "finished")
             \/ AutomatonStep(j, {"started"}, "failed")
             \/ AutomatonStep(j, {"queued"}, "deferred")
    BY <1>3, AutomatonSteps
  <2>2. ASSUME NEW from, AutomatonStep(j, from, "queued")
        PROVE  ClaimableHasSpareAttempt'
               /\ \A i \in Jobs : ClaimsOf'[i] <= AttemptsOf'[i]
    BY <1>1, <2>2 DEF StatusInv, AutomatonStep, ClaimableHasSpareAttempt
  <2>3. ASSUME AutomatonStep(j, {"queued", "deferred"}, "started")
        PROVE  ClaimableHasSpareAttempt'
               /\ \A i \in Jobs : ClaimsOf'[i] <= AttemptsOf'[i]
    BY <1>1, <2>3 DEF StatusInv, AutomatonStep, ClaimableHasSpareAttempt
  <2>4. ASSUME \/ AutomatonStep(j, {"started"}, "finished")
               \/ AutomatonStep(j, {"started"}, "failed")
               \/ AutomatonStep(j, {"queued"}, "deferred")
        PROVE  ClaimableHasSpareAttempt'
               /\ \A i \in Jobs : ClaimsOf'[i] <= AttemptsOf'[i]
    BY <1>1, <2>4 DEF StatusInv, AutomatonStep, ClaimableHasSpareAttempt
  <2>5. /\ StatusOf' \in [Jobs -> {"none", "queued", "started", "deferred",
                                   "finished", "failed"}]
        /\ AttemptsOf' \in [Jobs -> Nat] /\ ClaimsOf' \in [Jobs -> Nat]
    BY <1>1, <2>1 DEF AutomatonStep
  <2> QED
    BY <2>1, <2>2, <2>3, <2>4, <2>5
<1>4. CASE UNCHANGED Promise!statusVars
  BY <1>1, <1>4 DEF Promise!statusVars, StatusInv, ClaimableHasSpareAttempt, StatusOf,
       AttemptsOf, ClaimsOf, Queuings, Claimings
<1> QED
  BY <1>3, <1>4

\* However often a job is reset, it is never claimed more often than it was put
\* in the queue, as long as its status follows the automaton.
THEOREM AttemptsHaveOneOwner == ImplementsJobStatus => []OneClaimPerAttempt
<1>1. StatusInv => OneClaimPerAttempt
  BY DEF StatusInv, OneClaimPerAttempt, Promise!AtMostOneClaimPerAttempt
<1> QED
  BY StatusInvInit, StatusInvNext, <1>1, PTL DEF ImplementsJobStatus, Promise!StatusSpec

\* With one API process each attempt at a job is claimed by one runner.
THEOREM OneProcessOneClaim ==
    ASSUME OneProcess
    PROVE  Spec => []OneClaimPerAttempt
BY OneProcessImplementsStatus, AttemptsHaveOneOwner, PTL

=============================================================================
