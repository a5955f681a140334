----------------------------- MODULE SiblingJob -----------------------------
(***************************************************************************)
(* Running one component of the sim-to-real loop as a sibling Kubernetes   *)
(* Job (workflows/sim2real/engine.py): the driver applies a Job, waits for *)
(* it, collects its logs, deletes it and, unless the Job is an indexed     *)
(* one, downloads the result its pod wrote to object storage.              *)
(*                                                                         *)
(* Calls run concurrently (the VLM pool) or one after the other (a rerun). *)
(* Pods, the Job controller and whoever else can delete a Job take their   *)
(* steps between any two kubectl calls of the driver.                      *)
(***************************************************************************)
EXTENDS Naturals

CONSTANTS
    Calls,        \* executions of _run_image_component or its indexed sibling
    FixedUri,     \* the calls whose output URI names the run, not the attempt
    RunUri,       \* that URI
    Nobody,       \* no call
    Stages,       \* the sets of calls that a stage of the loop makes together
    Shards,       \* per call the pods of its Job that must succeed (shard_count, else 1)
    IndexedCalls, \* the calls whose Job is an indexed one
    MaxTries,     \* NPA_SIM2REAL_COMPONENT_DOWNLOAD_RETRIES
    MaxFaults     \* bound: failed kubectl calls and foreign deletions

ASSUME CallsAssumption == FixedUri \subseteq Calls /\ RunUri \notin Calls /\ Nobody \notin Calls
ASSUME StagesAssumption == Stages \subseteq SUBSET Calls
ASSUME ShardsAssumption == Shards \in [Calls -> Nat \ {0}] /\ IndexedCalls \subseteq Calls
ASSUME BoundAssumption == MaxTries \in Nat \ {0} /\ MaxFaults \in Nat

VARIABLES
    \* the cluster, per call
    present,    \* whether the Job object exists
    condition,  \* its Complete or Failed condition; "failing" while pods are being killed
    succeeded,  \* its status.succeeded
    failed,     \* its status.failed
    wrote,      \* whether its pod uploaded the result
    \* object storage, per URI
    writer,     \* the call whose pod wrote the object last
    \* the driver, per call
    pc,         \* where the call is
    verdict,    \* what _wait_kubernetes_job returned
    tries,      \* download attempts made
    result,     \* the call whose output was downloaded
    \* history, read by properties only
    vanished,   \* the Job was deleted by somebody else
    trouble,    \* a kubectl call of this call raised or failed to delete
    faults      \* failures so far (a bound)

jobVars == <<present, condition, succeeded, failed>>
podVars == <<wrote, writer>>
callVars == <<pc, verdict, tries, result>>
historyVars == <<vanished, trouble, faults>>
vars == <<jobVars, podVars, callVars, historyVars>>

Uris == Calls \cup {RunUri}

\* Fault for mutation runs: every component writes under the run alone.
OutputUri_RunOnly(c) == RunUri

\* _component_output_uri puts a fresh attempt id into the URI; the results of
\* cosmos2_transfer and policy_actions are named by the run alone.
OutputUri(c) == IF c \in FixedUri THEN RunUri ELSE c

\* "{.status.succeeded} {.status.failed}" prints nothing for a count that is
\* absent, and Kubernetes leaves a zero count out: split() then finds the
\* failed count first.
ParsedSucceeded(c) == IF succeeded[c] > 0 THEN succeeded[c] ELSE failed[c]
ParsedFailed(c) == IF succeeded[c] > 0 THEN failed[c] ELSE 0

Running(c) == IF present[c] /\ condition[c] = "none"
              THEN Shards[c] - (succeeded[c] + failed[c]) ELSE 0

Ended(c) == pc[c] \in {"returned", "raised"}
Active(c) == pc[c] # "unused" /\ ~Ended(c)

Init ==
    /\ present = [c \in Calls |-> FALSE]
    /\ condition = [c \in Calls |-> "none"]
    /\ succeeded = [c \in Calls |-> 0]
    /\ failed = [c \in Calls |-> 0]
    /\ wrote = [c \in Calls |-> FALSE]
    /\ writer = [u \in Uris |-> Nobody]
    /\ \E calls \in Stages :
         pc = [c \in Calls |-> IF c \in calls THEN "applying" ELSE "unused"]
    /\ verdict = [c \in Calls |-> "none"]
    /\ tries = [c \in Calls |-> 0]
    /\ result = [c \in Calls |-> Nobody]
    /\ vanished = [c \in Calls |-> FALSE]
    /\ trouble = [c \in Calls |-> FALSE]
    /\ faults = 0

-----------------------------------------------------------------------------
(***************************************************************************)
(* The cluster.  The manifest asks for restartPolicy Never and             *)
(* backoffLimit 0: a failed pod is not replaced and fails the Job.  Counts *)
(* are updated before the condition is set.                                *)
(***************************************************************************)

\* The pod of a component uploads its result JSON.
PodWrites(c) ==
    /\ Running(c) > 0
    /\ ~wrote[c]
    /\ wrote' = [wrote EXCEPT ![c] = TRUE]
    /\ writer' = [writer EXCEPT ![OutputUri(c)] = c]
    /\ UNCHANGED <<jobVars, callVars, historyVars>>

PodSucceeds(c) ==
    /\ Running(c) > 0
    /\ wrote[c] \/ c \in IndexedCalls
    /\ succeeded' = [succeeded EXCEPT ![c] = @ + 1]
    /\ UNCHANGED <<present, condition, failed, podVars, callVars, historyVars>>

PodFails(c) ==
    /\ Running(c) > 0
    /\ failed' = [failed EXCEPT ![c] = @ + 1]
    /\ UNCHANGED <<present, condition, succeeded, podVars, callVars, historyVars>>

JobCompletes(c) ==
    /\ present[c] /\ condition[c] = "none"
    /\ succeeded[c] = Shards[c]
    /\ condition' = [condition EXCEPT ![c] = "complete"]
    /\ UNCHANGED <<present, succeeded, failed, podVars, callVars, historyVars>>

\* The pods still running are killed; some are counted as failed at once, the
\* rest when they have ended.
KillPods(c, before, after) ==
    /\ present[c] /\ condition[c] = before
    /\ condition' = [condition EXCEPT ![c] = after]
    /\ \E n \in 0..(Shards[c] - (succeeded[c] + failed[c])) :
         failed' = [failed EXCEPT ![c] = @ + n]
    /\ UNCHANGED <<present, succeeded, podVars, callVars, historyVars>>

BackoffLimitReached(c) == failed[c] >= 1 /\ KillPods(c, "none", "failing")

\* Fault for mutation runs: the manifest sets no activeDeadlineSeconds.
DeadlineExceeded_Never(c) == FALSE /\ KillPods(c, "none", "failing")

\* activeDeadlineSeconds of the manifest.
DeadlineExceeded(c) == Running(c) > 0 /\ KillPods(c, "none", "failing")

JobFails(c) == KillPods(c, "failing", "failed")

Fault == faults < MaxFaults /\ faults' = faults + 1

\* An operator, or a cleanup of the namespace, deletes the Job.
ForeignDelete(c) ==
    /\ Fault
    /\ present[c] /\ Active(c)
    /\ present' = [present EXCEPT ![c] = FALSE]
    /\ vanished' = [vanished EXCEPT ![c] = TRUE]
    /\ UNCHANGED <<condition, succeeded, failed, podVars, callVars, trouble>>

-----------------------------------------------------------------------------
(***************************************************************************)
(* The driver.                                                             *)
(***************************************************************************)

\* _kubectl(["apply", "-f", "-"]) and _log_sibling_job_applied.
Apply(c) ==
    /\ pc[c] = "applying"
    /\ present' = [present EXCEPT ![c] = TRUE]
    /\ pc' = [pc EXCEPT ![c] = "applied"]
    /\ UNCHANGED <<condition, succeeded, failed, podVars, verdict, tries, result, historyVars>>

\* _wait_kubernetes_job returns v.
Decide(c, v) ==
    /\ pc' = [pc EXCEPT ![c] = "reporting"]
    /\ verdict' = [verdict EXCEPT ![c] = v]
    /\ UNCHANGED <<jobVars, podVars, tries, result, historyVars>>

GoTo(c, next) ==
    /\ pc' = [pc EXCEPT ![c] = next]
    /\ UNCHANGED <<jobVars, podVars, verdict, tries, result, historyVars>>

\* The status read right after the apply: failed is looked at first.
InitialStatus(c) ==
    /\ pc[c] = "applied"
    /\ \/ ~present[c] /\ Decide(c, "failed")
       \/ present[c] /\ ParsedFailed(c) >= 1 /\ Decide(c, "failed")
       \/ present[c] /\ ParsedFailed(c) = 0 /\ ParsedSucceeded(c) >= Shards[c]
            /\ Decide(c, "complete")
       \/ present[c] /\ ParsedFailed(c) = 0 /\ ParsedSucceeded(c) < Shards[c]
            /\ GoTo(c, "waiting")

\* kubectl wait --for=condition=complete.  It does not return for a Job that
\* failed, so a failure is noticed when the wait times out.
WaitForComplete(c) ==
    /\ pc[c] = "waiting"
    /\ \/ ~present[c] /\ Decide(c, "failed")
       \/ present[c] /\ condition[c] = "complete" /\ GoTo(c, "verifying")
       \/ condition[c] # "complete" /\ GoTo(c, "checking")

\* The count is read again; any other answer leads to the poll loop.
VerifyComplete(c) ==
    /\ pc[c] = "verifying"
    /\ IF present[c] /\ ParsedSucceeded(c) >= Shards[c]
       THEN Decide(c, "complete") ELSE GoTo(c, "polling")

\* kubectl wait --for=condition=failed --timeout=1s.
CheckFailed(c) ==
    /\ pc[c] = "checking"
    /\ IF present[c] /\ condition[c] = "failed"
       THEN Decide(c, "failed") ELSE GoTo(c, "polling")

\* Fault for mutation runs: one successful pod is enough.
Poll_OneIsEnough(c) ==
    /\ pc[c] = "polling"
    /\ \/ ~present[c] /\ Decide(c, "failed")
       \/ present[c] /\ ParsedSucceeded(c) >= 1 /\ Decide(c, "complete")
       \/ present[c] /\ ParsedSucceeded(c) < 1 /\ ParsedFailed(c) >= 1
            /\ Decide(c, "failed")

\* Fault for mutation runs: anything but a success is a failure.
Poll_Impatient(c) ==
    /\ pc[c] = "polling"
    /\ IF present[c] /\ ParsedSucceeded(c) >= Shards[c]
       THEN Decide(c, "complete") ELSE Decide(c, "failed")

\* One get of the poll loop: succeeded is looked at first.
Poll(c) ==
    /\ pc[c] = "polling"
    /\ \/ ~present[c] /\ Decide(c, "failed")
       \/ present[c] /\ ParsedSucceeded(c) >= Shards[c] /\ Decide(c, "complete")
       \/ present[c] /\ ParsedSucceeded(c) < Shards[c] /\ ParsedFailed(c) >= 1
            /\ Decide(c, "failed")

\* The poll loop runs out of time.
GiveUp(c) == pc[c] = "polling" /\ Decide(c, "timeout")

\* Pod info, logs and, unless complete, events are read.
Report(c) == pc[c] = "reporting" /\ GoTo(c, "deleting")

AfterDelete(c) ==
    IF verdict[c] # "complete" THEN "raised"
    ELSE IF c \in IndexedCalls THEN "returned" ELSE "downloading"

\* Fault for mutation runs: only a complete Job is deleted.
DeleteJob_OnlyComplete(c) ==
    /\ pc[c] = "deleting"
    /\ present' = [present EXCEPT ![c] = @ /\ verdict[c] # "complete"]
    /\ pc' = [pc EXCEPT ![c] = AfterDelete(c)]
    /\ UNCHANGED <<condition, succeeded, failed, podVars, verdict, tries, result, historyVars>>

\* _cleanup_component_job, then the check of the verdict.
DeleteJob(c) ==
    /\ pc[c] = "deleting"
    /\ present' = [present EXCEPT ![c] = FALSE]
    /\ pc' = [pc EXCEPT ![c] = AfterDelete(c)]
    /\ UNCHANGED <<condition, succeeded, failed, podVars, verdict, tries, result, historyVars>>

\* Fault for mutation runs: a missing result is tried for ever.
DownloadMissing_Forever(c) ==
    /\ pc[c] = "downloading"
    /\ writer[OutputUri(c)] = Nobody
    /\ tries' = [tries EXCEPT ![c] = (@ + 1) % MaxTries]
    /\ UNCHANGED <<jobVars, podVars, pc, verdict, result, historyVars>>

\* _download_component_output finds nothing and tries again or raises.
DownloadMissing(c) ==
    /\ pc[c] = "downloading"
    /\ writer[OutputUri(c)] = Nobody
    /\ tries' = [tries EXCEPT ![c] = @ + 1]
    /\ pc' = [pc EXCEPT ![c] = IF tries[c] + 1 < MaxTries THEN "downloading" ELSE "raised"]
    /\ UNCHANGED <<jobVars, podVars, verdict, result, historyVars>>

Download(c) ==
    /\ pc[c] = "downloading"
    /\ writer[OutputUri(c)] # Nobody
    /\ result' = [result EXCEPT ![c] = writer[OutputUri(c)]]
    /\ pc' = [pc EXCEPT ![c] = "returned"]
    /\ UNCHANGED <<jobVars, podVars, verdict, tries, historyVars>>

(***************************************************************************)
(* Failures of the driver's own calls.                                     *)
(***************************************************************************)

\* A kubectl call with check=False answers with another error.
StatusError(c) ==
    /\ Fault
    /\ \/ pc[c] = "applied" /\ pc' = [pc EXCEPT ![c] = "waiting"]
       \/ pc[c] = "waiting" /\ pc' = [pc EXCEPT ![c] = "checking"]
       \/ pc[c] \in {"verifying", "checking"} /\ pc' = [pc EXCEPT ![c] = "polling"]
    /\ UNCHANGED <<jobVars, podVars, verdict, tries, result, vanished, trouble>>

DeleteFails(c) ==
    /\ Fault
    /\ pc[c] = "deleting"
    /\ pc' = [pc EXCEPT ![c] = AfterDelete(c)]
    /\ trouble' = [trouble EXCEPT ![c] = TRUE]
    /\ UNCHANGED <<jobVars, podVars, verdict, tries, result, vanished>>

\* The apply is refused, a kubectl subprocess runs into its own timeout, a
\* download raises, or the driver dies: nothing on the way up deletes the Job.
\* The interrupted call may have had its effect.
Interrupted(c) ==
    /\ Fault
    /\ Active(c)
    /\ pc' = [pc EXCEPT ![c] = "raised"]
    /\ trouble' = [trouble EXCEPT ![c] = TRUE]
    /\ \/ present' = present
       \/ pc[c] = "applying" /\ present' = [present EXCEPT ![c] = TRUE]
       \/ pc[c] = "deleting" /\ present' = [present EXCEPT ![c] = FALSE]
    /\ UNCHANGED <<condition, succeeded, failed, podVars, verdict, tries, result, vanished>>

Pods(c) == PodWrites(c) \/ PodSucceeds(c) \/ PodFails(c)

Controller(c) ==
    \/ JobCompletes(c) \/ BackoffLimitReached(c) \/ DeadlineExceeded(c) \/ JobFails(c)

Driver(c) ==
    \/ Apply(c) \/ InitialStatus(c) \/ WaitForComplete(c) \/ VerifyComplete(c)
    \/ CheckFailed(c) \/ Poll(c) \/ GiveUp(c) \/ Report(c) \/ DeleteJob(c)
    \/ DownloadMissing(c) \/ Download(c)

Failure(c) == ForeignDelete(c) \/ StatusError(c) \/ DeleteFails(c) \/ Interrupted(c)

Next == \E c \in Calls : Pods(c) \/ Controller(c) \/ Driver(c) \/ Failure(c)

Spec == Init /\ [][Next]_vars

\* The driver is a sequential program whose calls all carry a timeout, and
\* the Job controller enforces the deadline it was given; pods owe nothing.
FairSpec == Spec /\ \A c \in Calls : WF_vars(Driver(c)) /\ WF_vars(Controller(c))

-----------------------------------------------------------------------------
TypeOK ==
    /\ present \in [Calls -> BOOLEAN]
    /\ condition \in [Calls -> {"none", "failing", "complete", "failed"}]
    /\ succeeded \in [Calls -> Nat]
    /\ failed \in [Calls -> Nat]
    /\ wrote \in [Calls -> BOOLEAN]
    /\ writer \in [Uris -> Calls \cup {Nobody}]
    /\ pc \in [Calls -> {"unused", "applying", "applied", "waiting", "verifying", "checking",
                         "polling", "reporting", "deleting", "downloading",
                         "returned", "raised"}]
    /\ verdict \in [Calls -> {"none", "complete", "failed", "timeout"}]
    /\ tries \in [Calls -> Nat]
    /\ result \in [Calls -> Calls \cup {Nobody}]
    /\ vanished \in [Calls -> BOOLEAN]
    /\ trouble \in [Calls -> BOOLEAN]
    /\ faults \in Nat

\* "Poll a sibling Job until it succeeds, fails, or times out"
\* (_wait_kubernetes_job): a call that returns had all its pods succeed.
NoFalseSuccess == \A c \in Calls : pc[c] = "returned" => succeeded[c] >= Shards[c]

\* What "complete" does mean, in the code as it is: all pods succeeded, or
\* none did and as many failed.  A mix of the two is never taken for success,
\* whatever the order in which counts and conditions move between the reads.
CompleteIsCounted ==
    \A c \in Calls : verdict[c] = "complete" =>
        \/ succeeded[c] = Shards[c]
        \/ succeeded[c] = 0 /\ failed[c] = Shards[c]

\* A healthy Job is never reported as failed: a pod or the Job has failed, or
\* the Job was deleted by somebody else.
NoFalseFailure ==
    \A c \in Calls : verdict[c] = "failed" =>
        failed[c] >= 1 \/ condition[c] = "failed" \/ vanished[c]

\* The inductive invariant behind the safety properties of this module: no pod is
\* counted twice, every verdict is backed by counts that cannot move any
\* more, an ended call has its Job deleted, and each object in storage was
\* written by a call it belongs to.
CallInv(c) ==
    /\ succeeded[c] + failed[c] <= Shards[c]
    /\ verdict[c] = "complete" =>
         \/ succeeded[c] = Shards[c]
         \/ succeeded[c] = 0 /\ failed[c] = Shards[c]
    /\ verdict[c] = "failed" => failed[c] >= 1 \/ condition[c] = "failed" \/ vanished[c]
    /\ pc[c] \in {"applied", "waiting", "verifying", "checking", "polling"} =>
         present[c] \/ vanished[c]
    /\ pc[c] \in {"downloading", "returned", "raised"} /\ present[c] => trouble[c]
    /\ pc[c] = "returned" => c \in IndexedCalls \/ result[c] # Nobody
    /\ result[c] # Nobody => OutputUri(result[c]) = OutputUri(c)

StorageInv == \A u \in Uris : writer[u] # Nobody => OutputUri(writer[u]) = u

IInv == (\A c \in Calls : CallInv(c)) /\ StorageInv

\* A call that ends leaves no Job behind, unless one of its kubectl calls
\* raised or the deletion itself failed.
JobIsCleanedUp == \A c \in Calls : Ended(c) /\ present[c] => trouble[c]

\* The result a call returns was written by its own Job, if its URI names the
\* attempt: an earlier attempt of the same component cannot be mistaken for it.
OwnResult ==
    \A c \in Calls \ (FixedUri \cup IndexedCalls) : pc[c] = "returned" => result[c] = c

\* The driver never deletes pods that could still succeed: at a deletion by
\* the driver the verdict is "timeout", or a pod has failed, or none runs.
DeletesNoLiveWork ==
    [][\A c \in Calls :
         present[c] /\ ~present'[c] /\ pc[c] = "deleting" =>
            vanished'[c] \/ verdict[c] = "timeout" \/ failed[c] >= 1 \/ Running(c) = 0]_vars

\* Every call returns or raises.
EveryCallEnds == \A c \in Calls : <>~Active(c)

\* The GPUs of a Job are released, also when its driver died before deleting it.
GpusAreReleased == \A c \in Calls : Running(c) > 0 ~> Running(c) = 0
=============================================================================
