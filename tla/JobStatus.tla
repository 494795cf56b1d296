------------------------------ MODULE JobStatus ------------------------------
(***************************************************************************)
(* What the status of a job promises, without the API, the queue and the   *)
(* workers that bring it about: the automaton JOB_STATUS_TRANSITIONS       *)
(* draws, with how often each job was queued and how often claimed.        *)
(***************************************************************************)
EXTENDS Naturals

CONSTANT Jobs

VARIABLES
    status,    \* job -> its status, "none" before it is registered
    attempts,  \* job -> how often it was put in "queued"
    claims     \* job -> how often it was put in "started"

statusVars == <<status, attempts, claims>>

StatusInit ==
    /\ status = [j \in Jobs |-> "none"]
    /\ attempts = [j \in Jobs |-> 0]
    /\ claims = [j \in Jobs |-> 0]

Enter(j, from, to) ==
    /\ status[j] \in from
    /\ status' = [status EXCEPT ![j] = to]

\* The job is registered, or reset: one more attempt may claim it.
Queue(j, from) ==
    /\ Enter(j, from, "queued")
    /\ attempts' = [attempts EXCEPT ![j] = @ + 1]
    /\ UNCHANGED claims

Register(j) == Queue(j, {"none"})
Reset(j)    == Queue(j, {"queued", "started", "deferred", "finished", "failed"})

Claim(j) ==
    /\ Enter(j, {"queued", "deferred"}, "started")
    /\ claims' = [claims EXCEPT ![j] = @ + 1]
    /\ UNCHANGED attempts

Settle(j) ==
    /\ \/ Enter(j, {"started"}, "finished")
       \/ Enter(j, {"started"}, "failed")
       \/ Enter(j, {"queued"}, "deferred")
    /\ UNCHANGED <<attempts, claims>>

StatusNext == \E j \in Jobs : Register(j) \/ Reset(j) \/ Claim(j) \/ Settle(j)

StatusSpec == StatusInit /\ [][StatusNext]_statusVars

StatusTypeOK ==
    /\ status \in [Jobs -> {"none", "queued", "started", "deferred",
                            "finished", "failed"}]
    /\ attempts \in [Jobs -> Nat]
    /\ claims \in [Jobs -> Nat]

\* A job is claimed at most once for each time it was queued: two workers never
\* both own one attempt (main() of run_dioptra_job.py takes the acceptance of
\* "started" as its claim on the job).
AtMostOneClaimPerAttempt == \A j \in Jobs : claims[j] <= attempts[j]

=============================================================================
