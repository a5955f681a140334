-------------------------- MODULE EvaluationProofs --------------------------
(* Proofs about SiblingJob, about VlmPool, and about the evaluation that runs  *)
(* the calls of the one in the threads of the other.                           *)
EXTENDS Evaluation, FiniteSetTheorems, TLAPS

(***************************************************************************)
(* SiblingJob: what a component call guarantees, for any number of calls,  *)
(* pods, download attempts and failures.                                   *)
(***************************************************************************)

USE DEF jobVars, podVars, callVars, historyVars

\* No pod is counted twice.
Counted == TypeOK /\ \A c \in Calls : succeeded[c] + failed[c] <= Shards[c]

LEMMA CountedAtFirst == Init => Counted
BY ShardsAssumption DEF Init, Counted, TypeOK, Uris

LEMMA CountedStep == Counted /\ [Next]_vars => Counted'
<1> SUFFICES ASSUME Counted, [Next]_vars PROVE Counted'
  OBVIOUS
<1> USE ShardsAssumption, CallsAssumption DEF Counted, TypeOK
<1>1. ASSUME NEW c \in Calls, Pods(c) PROVE Counted'
  <2>1. CASE PodWrites(c)
    BY <2>1 DEF PodWrites, Uris
  <2>2. CASE PodSucceeds(c)
    BY <2>2 DEF PodSucceeds, Running
  <2>3. CASE PodFails(c)
    BY <2>3 DEF PodFails, Running
  <2> QED BY <1>1, <2>1, <2>2, <2>3 DEF Pods
<1>2. ASSUME NEW c \in Calls, Controller(c) PROVE Counted'
  <2>1. CASE JobCompletes(c)
    BY <2>1 DEF JobCompletes
  <2>2. ASSUME NEW before, NEW after \in {"failing", "failed"}, KillPods(c, before, after)
        PROVE Counted'
    BY <2>2 DEF KillPods
  <2> QED BY <1>2, <2>1, <2>2 DEF Controller, BackoffLimitReached, DeadlineExceeded, JobFails
<1>3. ASSUME NEW c \in Calls, Driver(c) PROVE Counted'
  <2>1. CASE Apply(c)
    BY <2>1 DEF Apply
  <2>2. ASSUME NEW v \in {"complete", "failed", "timeout"}, Decide(c, v) PROVE Counted'
    BY <2>2 DEF Decide
  <2>3. ASSUME NEW next \in {"waiting", "verifying", "checking", "polling", "deleting"}, GoTo(c, next)
        PROVE Counted'
    BY <2>3 DEF GoTo
  <2>4. CASE DeleteJob(c)
    BY <2>4 DEF DeleteJob, AfterDelete
  <2>5. CASE DownloadMissing(c)
    BY <2>5 DEF DownloadMissing
  <2>6. CASE Download(c)
    BY <2>6 DEF Download, OutputUri, Uris
  <2> QED
    BY <1>3, <2>1, <2>2, <2>3, <2>4, <2>5, <2>6
    DEF Driver, InitialStatus, WaitForComplete, VerifyComplete, CheckFailed, Poll, GiveUp, Report
<1>4. ASSUME NEW c \in Calls, Failure(c) PROVE Counted'
  <2>1. CASE ForeignDelete(c)
    BY <2>1 DEF ForeignDelete, Fault
  <2>2. CASE StatusError(c)
    BY <2>2 DEF StatusError, Fault
  <2>3. CASE DeleteFails(c)
    BY <2>3 DEF DeleteFails, Fault, AfterDelete
  <2>4. CASE Interrupted(c)
    <3>0. present \in [Calls -> BOOLEAN]
      OBVIOUS
    <3>1. present' \in [Calls -> BOOLEAN]
      <4>1. CASE present' = present
        BY <3>0, <4>1
      <4>2. CASE present' = [present EXCEPT ![c] = TRUE]
        BY <3>0, <4>2
      <4>3. CASE present' = [present EXCEPT ![c] = FALSE]
        BY <3>0, <4>3
      <4> QED BY <2>4, <4>1, <4>2, <4>3 DEF Interrupted
    <3>2. /\ faults' = faults + 1
          /\ pc' = [pc EXCEPT ![c] = "raised"]
          /\ trouble' = [trouble EXCEPT ![c] = TRUE]
          /\ UNCHANGED <<condition, succeeded, failed, podVars, verdict, tries, result, vanished>>
      BY <2>4 DEF Interrupted, Fault
    <3> QED BY <3>1, <3>2
  <2> QED BY <1>4, <2>1, <2>2, <2>3, <2>4 DEF Failure
<1>5. CASE UNCHANGED vars
  BY <1>5 DEF vars
<1> QED BY <1>1, <1>2, <1>3, <1>4, <1>5 DEF Next

\* Every state of the calls, their Jobs and the storage is well typed, and no pod is counted
\* twice (the whole of _run_kubernetes_image_component and of the Job it starts).
THEOREM TypeCorrect == Spec => [](TypeOK /\ \A c \in Calls : succeeded[c] + failed[c] <= Shards[c])
BY CountedAtFirst, CountedStep, PTL DEF Spec, Counted

\* The invariant holds of the calls other than the one that moved: nothing it
\* speaks of changes for them.
LEMMA OthersKeepInv ==
  ASSUME NEW c \in Calls, NEW d \in Calls, d # c, CallInv(d),
         succeeded'[d] = succeeded[d], failed'[d] = failed[d],
         condition'[d] = condition[d], verdict'[d] = verdict[d],
         vanished'[d] = vanished[d], pc'[d] = pc[d], present'[d] = present[d],
         trouble'[d] = trouble[d], result'[d] = result[d]
  PROVE CallInv(d)'
BY DEF CallInv, OutputUri

LEMMA BackedAtFirst == Init => IInv
BY ShardsAssumption DEF Init, IInv, CallInv, StorageInv

LEMMA BackedStep == TypeOK /\ IInv /\ [Next]_vars => IInv'
<1> SUFFICES ASSUME TypeOK, IInv, [Next]_vars PROVE IInv'
  OBVIOUS
<1> USE ShardsAssumption, CallsAssumption
<1>t. /\ present \in [Calls -> BOOLEAN]
      /\ condition \in [Calls -> {"none", "failing", "complete", "failed"}]
      /\ succeeded \in [Calls -> Nat]
      /\ failed \in [Calls -> Nat]
      /\ writer \in [Uris -> Calls \cup {Nobody}]
      /\ DOMAIN pc = Calls /\ DOMAIN verdict = Calls /\ DOMAIN result = Calls
      /\ result \in [Calls -> Calls \cup {Nobody}]
      /\ DOMAIN vanished = Calls /\ DOMAIN trouble = Calls
  BY DEF TypeOK
<1>i. (\A d \in Calls : CallInv(d)) /\ StorageInv
  BY DEF IInv
<1>1. ASSUME NEW c \in Calls, PodWrites(c) PROVE IInv'
  <2>1. StorageInv'
    BY <1>1, <1>t, <1>i DEF PodWrites, StorageInv, OutputUri
  <2>2. ASSUME NEW d \in Calls PROVE CallInv(d)'
    BY <1>1, <1>i DEF PodWrites, CallInv, OutputUri
  <2> QED BY <2>1, <2>2 DEF IInv
\* Every other action leaves the storage alone and moves one call: it is
\* enough that it keeps the invariant of that call.
<1>2. ASSUME NEW c \in Calls, Next, CallInv(c)', UNCHANGED writer,
             \A d \in Calls \ {c} :
               /\ succeeded'[d] = succeeded[d] /\ failed'[d] = failed[d]
               /\ condition'[d] = condition[d] /\ verdict'[d] = verdict[d]
               /\ vanished'[d] = vanished[d] /\ pc'[d] = pc[d]
               /\ present'[d] = present[d] /\ trouble'[d] = trouble[d]
               /\ result'[d] = result[d]
      PROVE IInv'
  <2>1. StorageInv'
    BY <1>2, <1>i DEF StorageInv, OutputUri
  <2>2. ASSUME NEW d \in Calls PROVE CallInv(d)'
    <3>1. CASE d = c
      BY <3>1, <1>2
    <3>2. CASE d # c
      <4>1. CallInv(d)
        BY <1>i
      <4> QED BY <3>2, <4>1, <1>2, OthersKeepInv
    <3> QED BY <3>1, <3>2
  <2> QED BY <2>1, <2>2 DEF IInv
<1>3. ASSUME NEW c \in Calls, PodSucceeds(c) \/ PodFails(c) \/ Controller(c)
      PROVE IInv'
  <2>0. CallInv(c)
    BY <1>i
  <2>1. CASE PodSucceeds(c)
    <3>1. CallInv(c)'
      BY <2>0, <2>1, <1>t DEF PodSucceeds, Running, CallInv, OutputUri
    <3> QED BY <3>1, <1>2, <2>1, <1>t DEF PodSucceeds, Next, Pods
  <2>2. CASE PodFails(c)
    <3>1. CallInv(c)'
      BY <2>0, <2>2, <1>t DEF PodFails, Running, CallInv, OutputUri
    <3> QED BY <3>1, <1>2, <2>2, <1>t DEF PodFails, Next, Pods
  <2>3. CASE JobCompletes(c)
    <3>1. CallInv(c)'
      BY <2>0, <2>3, <1>t DEF JobCompletes, CallInv, OutputUri
    <3> QED BY <3>1, <1>2, <2>3, <1>t DEF JobCompletes, Next, Controller
  <2>4. ASSUME NEW before \in {"none", "failing"}, NEW after \in {"failing", "failed"},
               KillPods(c, before, after), Next
        PROVE IInv'
    <3>1. CallInv(c)'
      BY <2>0, <2>4, <1>t DEF KillPods, CallInv, OutputUri
    <3> QED BY <3>1, <1>2, <2>4, <1>t DEF KillPods
  <2> QED
    BY <1>3, <2>1, <2>2, <2>3, <2>4
    DEF Controller, BackoffLimitReached, DeadlineExceeded, JobFails, Next
<1>4. ASSUME NEW c \in Calls, Driver(c) PROVE IInv'
  <2>0. CallInv(c) /\ Next
    BY <1>i, <1>4 DEF Next
  <2>1. CASE Apply(c)
    <3>1. CallInv(c)'
      BY <2>0, <2>1, <1>t DEF Apply, CallInv, OutputUri
    <3> QED BY <2>0, <3>1, <1>2, <2>1, <1>t DEF Apply
  <2>2. ASSUME NEW v \in {"complete", "failed", "timeout"}, Decide(c, v),
               pc[c] \in {"applied", "waiting", "verifying", "checking", "polling"},
               v = "complete" => ParsedSucceeded(c) >= Shards[c],
               v = "failed" => \/ ~present[c] \/ ParsedFailed(c) >= 1 \/ condition[c] = "failed"
        PROVE IInv'
    <3>1. CallInv(c)'
      <4>1. present[c] \/ vanished[c]
        BY <2>0, <2>2 DEF CallInv
      <4> QED BY <2>0, <2>2, <1>t, <4>1 DEF Decide, CallInv, OutputUri, ParsedSucceeded, ParsedFailed
    <3> QED BY <2>0, <3>1, <1>2, <2>2, <1>t DEF Decide
  <2>3. ASSUME NEW next \in {"waiting", "verifying", "checking", "polling", "deleting"}, GoTo(c, next),
               \/ next = "deleting"
               \/ pc[c] \in {"applied", "waiting", "verifying", "checking", "polling"}
        PROVE IInv'
    <3>1. CallInv(c)'
      BY <2>0, <2>3, <1>t DEF GoTo, CallInv, OutputUri
    <3> QED BY <2>0, <3>1, <1>2, <2>3, <1>t DEF GoTo
  <2>4. CASE DeleteJob(c)
    <3>1. CallInv(c)'
      BY <2>0, <2>4, <1>t DEF DeleteJob, AfterDelete, CallInv, OutputUri
    <3> QED BY <2>0, <3>1, <1>2, <2>4, <1>t DEF DeleteJob
  <2>5. CASE DownloadMissing(c)
    <3>1. CallInv(c)'
      BY <2>0, <2>5, <1>t DEF DownloadMissing, CallInv, OutputUri
    <3> QED BY <2>0, <3>1, <1>2, <2>5, <1>t DEF DownloadMissing
  <2>6. CASE Download(c)
    <3>1. CallInv(c)'
      <4>1. OutputUri(writer[OutputUri(c)]) = OutputUri(c)
        BY <2>6, <1>i DEF Download, StorageInv, OutputUri, Uris
      <4> QED BY <2>0, <2>6, <4>1, <1>t DEF Download, CallInv, OutputUri
    <3> QED BY <2>0, <3>1, <1>2, <2>6, <1>t DEF Download
  <2> QED
    BY <1>4, <2>1, <2>2, <2>3, <2>4, <2>5, <2>6
    DEF Driver, InitialStatus, WaitForComplete, VerifyComplete, CheckFailed, Poll, GiveUp, Report
<1>5. ASSUME NEW c \in Calls, Failure(c) PROVE IInv'
  <2>0. CallInv(c) /\ Next
    BY <1>i, <1>5 DEF Next
  <2>1. CASE ForeignDelete(c)
    <3>1. CallInv(c)'
      BY <2>0, <2>1, <1>t DEF ForeignDelete, CallInv, OutputUri
    <3> QED BY <2>0, <3>1, <1>2, <2>1, <1>t DEF ForeignDelete
  <2>2. CASE StatusError(c)
    <3>1. CallInv(c)'
      BY <2>0, <2>2, <1>t DEF StatusError, CallInv, OutputUri
    <3> QED BY <2>0, <3>1, <1>2, <2>2, <1>t DEF StatusError
  <2>3. CASE DeleteFails(c)
    <3>1. CallInv(c)'
      BY <2>0, <2>3, <1>t DEF DeleteFails, AfterDelete, CallInv, OutputUri
    <3> QED BY <2>0, <3>1, <1>2, <2>3, <1>t DEF DeleteFails
  <2>4. CASE Interrupted(c)
    <3>1. CallInv(c)'
      BY <2>0, <2>4, <1>t DEF Interrupted, CallInv, OutputUri
    <3>2. \A d \in Calls \ {c} : present'[d] = present[d]
      BY <2>4, <1>t DEF Interrupted
    <3> QED BY <2>0, <3>1, <3>2, <1>2, <2>4, <1>t DEF Interrupted
  <2> QED BY <1>5, <2>1, <2>2, <2>3, <2>4 DEF Failure
<1>6. CASE UNCHANGED vars
  BY <1>6, <1>i DEF vars, IInv, CallInv, StorageInv, OutputUri
<1> QED BY <1>1, <1>3, <1>4, <1>5, <1>6 DEF Next, Pods

\* Every verdict stays backed by the counts, and an ended call has no Job.
THEOREM InvariantHolds == Spec => []IInv
BY BackedAtFirst, BackedStep, TypeCorrect, PTL DEF Spec

\* No healthy Job is reported as failed.
THEOREM HealthyJobsDoNotFail == Spec => []NoFalseFailure
<1>1. IInv => NoFalseFailure
  BY DEF IInv, CallInv, NoFalseFailure
<1> QED BY <1>1, InvariantHolds, PTL

\* "complete" is never read off a mix of successes and failures.
THEOREM CompleteIsBacked == Spec => []CompleteIsCounted
<1>1. IInv => CompleteIsCounted
  BY DEF IInv, CallInv, CompleteIsCounted
<1> QED BY <1>1, InvariantHolds, PTL

\* No Job outlives its call unless a kubectl call of it raised or the deletion failed.
THEOREM NoJobIsLeft == Spec => []JobIsCleanedUp
<1>1. IInv => JobIsCleanedUp
  BY DEF IInv, CallInv, JobIsCleanedUp, Ended
<1> QED BY <1>1, InvariantHolds, PTL

\* A result whose URI names the attempt was written by the call's own Job.
THEOREM ResultIsOwn == Spec => []OwnResult
<1>1. TypeOK /\ IInv => OwnResult
  BY CallsAssumption DEF TypeOK, IInv, CallInv, OwnResult, OutputUri
<1> QED BY <1>1, InvariantHolds, TypeCorrect, PTL

\* A call reports and deletes only after it has a verdict.
Judged == \A c \in Calls : pc[c] \in {"reporting", "deleting"} => verdict[c] # "none"

\* The driver deletes no pod that could still succeed, unless it ran out of time.
THEOREM LiveWorkIsKept == Spec => DeletesNoLiveWork
<1> DEFINE Counts == TypeOK /\ \A c \in Calls : succeeded[c] + failed[c] <= Shards[c]
           Spared(c) == vanished'[c] \/ verdict[c] = "timeout" \/ failed[c] >= 1 \/ Running(c) = 0
           Spares == \A c \in Calls :
                        present[c] /\ ~present'[c] /\ pc[c] = "deleting" => Spared(c)
<1>1. Init => Judged
  BY DEF Init, Judged
<1>2. TypeOK /\ Judged /\ [Next]_vars => Judged'
  <2> SUFFICES ASSUME TypeOK, Judged, [Next]_vars, NEW d \in Calls,
                      pc'[d] \in {"reporting", "deleting"}
               PROVE  verdict'[d] # "none"
    BY DEF Judged
  <2>0. /\ DOMAIN pc = Calls /\ DOMAIN verdict = Calls
        /\ pc[d] \in {"reporting", "deleting"} => verdict[d] # "none"
    BY DEF TypeOK, Judged
  <2>1. ASSUME NEW c \in Calls, Pods(c) \/ Controller(c)
        PROVE  pc' = pc /\ verdict' = verdict
    BY <2>1 DEF Pods, Controller, PodWrites, PodSucceeds, PodFails, JobCompletes,
                BackoffLimitReached, DeadlineExceeded, JobFails, KillPods
  <2>2. ASSUME NEW c \in Calls, Driver(c) PROVE verdict'[d] # "none"
    <3>1. ASSUME NEW v \in {"complete", "failed", "timeout"}, Decide(c, v)
          PROVE  verdict'[d] # "none"
      BY <2>0, <3>1 DEF Decide
    <3>2. ASSUME NEW next, GoTo(c, next),
                 next \in {"waiting", "verifying", "checking", "polling"} \/ pc[c] = "reporting"
          PROVE  verdict'[d] # "none"
      BY <2>0, <3>2 DEF GoTo, Judged
    <3>3. CASE Apply(c) \/ DeleteJob(c) \/ DownloadMissing(c) \/ Download(c)
      BY <2>0, <3>3 DEF Apply, DeleteJob, AfterDelete, DownloadMissing, Download
    <3>4. QED
      BY <2>2, <3>1, <3>2, <3>3
      DEF Driver, InitialStatus, WaitForComplete, VerifyComplete, CheckFailed, Poll, GiveUp, Report
  <2>3. ASSUME NEW c \in Calls, Failure(c) PROVE verdict'[d] # "none"
    BY <2>0, <2>3 DEF Failure, ForeignDelete, StatusError, DeleteFails, AfterDelete, Interrupted
  <2>4. CASE UNCHANGED vars
    BY <2>0, <2>4 DEF vars
  <2>5. QED
    BY <2>0, <2>1, <2>2, <2>3, <2>4 DEF Next
<1>3. ASSUME Counts, IInv, Judged, [Next]_vars PROVE Spares
  <2> SUFFICES ASSUME NEW c \in Calls, present[c], ~present'[c], pc[c] = "deleting"
               PROVE  Spared(c)
    OBVIOUS
  <2>1. vanished[c] => vanished'[c]
    <3>1. ASSUME NEW d \in Calls, Pods(d) \/ Controller(d) \/ Driver(d)
          PROVE  vanished' = vanished
      BY <3>1 DEF Pods, Controller, PodWrites, PodSucceeds, PodFails, JobCompletes,
                  BackoffLimitReached, DeadlineExceeded, JobFails, KillPods,
                  Driver, Apply, InitialStatus, WaitForComplete, VerifyComplete, CheckFailed,
                  Poll, GiveUp, Report, DeleteJob, DownloadMissing, Download, Decide, GoTo
    <3>2. ASSUME NEW d \in Calls, Failure(d) PROVE vanished[c] => vanished'[c]
      BY <1>3, <3>2 DEF Failure, ForeignDelete, StatusError, DeleteFails, Interrupted, TypeOK
    <3>3. QED
      BY <1>3, <3>1, <3>2 DEF Next, vars
  <2>2. CASE verdict[c] = "complete"
    <3>1. \/ succeeded[c] = Shards[c]
          \/ succeeded[c] = 0 /\ failed[c] = Shards[c]
      BY <1>3, <2>2 DEF IInv, CallInv
    <3>2. /\ succeeded[c] \in Nat /\ failed[c] \in Nat /\ Shards[c] \in Nat /\ Shards[c] >= 1
          /\ succeeded[c] + failed[c] <= Shards[c]
      BY <1>3, ShardsAssumption DEF TypeOK
    <3>3. QED
      BY <3>1, <3>2 DEF Running
  <2>3. CASE verdict[c] = "failed"
    <3>1. failed[c] >= 1 \/ condition[c] = "failed" \/ vanished[c]
      BY <1>3, <2>3 DEF IInv, CallInv
    <3>2. QED
      BY <2>1, <3>1 DEF Running
  <2>4. verdict[c] \in {"complete", "failed", "timeout"}
    BY <1>3 DEF TypeOK, Judged
  <2>5. QED
    BY <2>2, <2>3, <2>4
<1>4. Spec => []Judged
  BY <1>1, <1>2, TypeCorrect, PTL DEF Spec
<1>5. ASSUME Counts, IInv, Judged, [Next]_vars PROVE [Spares]_vars
  BY <1>3, <1>5
<1>6. QED
  BY <1>4, <1>5, TypeCorrect, InvariantHolds, PTL DEF Spec, DeletesNoLiveWork

(***************************************************************************)
(* VlmPool: the bound on GPU Jobs and a clean end, for any number of       *)
(* rollouts and any cap.                                                   *)
(***************************************************************************)

\* A Job runs only inside an evaluation that runs, and only as many run at once as there
\* are threads; the driver is past collecting only with a reason for it.
PoolInv ==
    /\ PoolTypeOK
    /\ Cardinality(Busy) <= Threads
    /\ \A r \in Rollouts, k \in Components :
         job[r][k] = "running" => kubernetes /\ state[r] = "running"
    /\ \A r \in collected : outcome \in {"collecting", "returned"} => state[r] = "ok"
    /\ \A r \in collected : state[r] \in {"ok", "failed"}
    /\ outcome = "returned" => collected = Rollouts
    /\ outcome # "collecting" /\ ~Pool => \A r \in Rollouts : state[r] # "running"
    /\ outcome \in {"returned", "raised"} /\ Pool =>
         \A r \in Rollouts : state[r] \in {"ok", "failed"}
    /\ ~Pool => \A r \in Rollouts :
         state[r] # "queued" => \A q \in 1..(r - 1) : q \in collected

\* The library's facts about the sets the bound speaks of.
LEMMA PoolFinite ==
    ASSUME PoolTypeOK
    PROVE  /\ IsFiniteSet(Busy) /\ Cardinality(Busy) \in Nat
           /\ IsFiniteSet(Components) /\ Cardinality(Components) \in {1, 2}
<1>1. IsFiniteSet(Rollouts)
  BY FS_Interval, CountAssumption DEF Rollouts
<1>2. Busy \subseteq Rollouts
  BY DEF Busy
<1>3. IsFiniteSet(Busy)
  BY <1>1, <1>2, FS_Subset
<1>4. Cardinality(Busy) \in Nat
  BY <1>3, FS_CardinalityType
<1> QED
  BY <1>3, <1>4, ComponentsAssumption

\* The pool has at least one thread, and what its threads can have running stays within
\* the bound of GpuBound.
LEMMA ThreadsFit ==
    /\ Threads \in Nat \ {0}
    /\ Threads * JobsPerRollout <= Larger(MaxGpus, JobsPerRollout)
<1>1. JobsPerRollout \in {1, 2}
  BY ComponentsAssumption DEF JobsPerRollout
<1>2. CASE ~Pool
  BY <1>1, <1>2, CapAssumption DEF Threads, Larger
<1>3. CASE Pool
  <2>1. /\ MaxWorkers \in Nat \ {0}
        /\ MaxWorkers <= Larger(1, MaxGpus \div JobsPerRollout)
    BY <1>1, CountAssumption, CapAssumption DEF MaxWorkers, Smaller, Larger
  <2>2. CASE JobsPerRollout = 1
    BY <2>1, <2>2, <1>3, CapAssumption DEF Threads, Larger
  <2>3. CASE JobsPerRollout = 2
    <3>1. MaxGpus \div 2 \in Nat /\ 2 * (MaxGpus \div 2) <= MaxGpus
      BY CapAssumption
    <3>2. MaxWorkers <= 1 \/ MaxWorkers <= MaxGpus \div 2
      BY <2>1, <2>3, <3>1 DEF Larger
    <3> QED
      BY <2>1, <2>3, <1>3, <3>1, <3>2, CapAssumption DEF Threads, Larger
  <2> QED
    BY <1>1, <2>2, <2>3
<1> QED
  BY <1>2, <1>3

\* Taking a rollout adds one evaluation to those that run, ending one takes it away.
LEMMA OneMore ==
    ASSUME PoolTypeOK, NEW r \in Rollouts, state[r] # "running",
           state' = [state EXCEPT ![r] = "running"]
    PROVE  Cardinality(Busy') = Cardinality(Busy) + 1
<1>1. Busy' = Busy \cup {r} /\ r \notin Busy
  BY DEF Busy, PoolTypeOK
<1> QED
  BY <1>1, PoolFinite, FS_AddElement

LEMMA OneLess ==
    ASSUME PoolTypeOK, NEW r \in Rollouts, NEW res, res # "running",
           state' = [state EXCEPT ![r] = res]
    PROVE  Cardinality(Busy') <= Cardinality(Busy)
<1>1. Busy' \subseteq Busy
  BY DEF Busy, PoolTypeOK
<1> QED
  BY <1>1, PoolFinite, FS_Subset

\* The initial states are typed, with nothing running.
LEMMA PoolInitHolds == PoolInit => PoolInv
<1> SUFFICES ASSUME PoolInit PROVE PoolInv
  OBVIOUS
<1>1. PoolTypeOK
  BY DEF PoolInit, PoolTypeOK
<1>2. Busy = {} /\ Cardinality(Busy) = 0
  BY FS_EmptySet DEF PoolInit, Busy
<1>3. Cardinality(Busy) <= Threads
  BY <1>2, ThreadsFit
<1> QED
  BY <1>1, <1>3 DEF PoolInit, PoolInv, Rollouts

\* Threads depends on nothing that changes.
LEMMA SamePool == kubernetes' = kubernetes => (Pool' <=> Pool) /\ Threads' = Threads
BY DEF Pool, Threads, MaxWorkers, JobsPerRollout, Smaller, Larger

\* Types are kept by every step.
LEMMA PoolTypeStep == PoolTypeOK /\ [PoolNext]_poolVars => PoolTypeOK'
<1> SUFFICES ASSUME PoolTypeOK, [PoolNext]_poolVars PROVE PoolTypeOK'
  OBVIOUS
<1>1. ASSUME NEW r \in Rollouts, StartRollout(r) PROVE PoolTypeOK'
  BY <1>1 DEF StartRollout, PoolTypeOK
<1>2. ASSUME NEW r \in Rollouts, FinishRollout(r) PROVE PoolTypeOK'
  BY <1>2 DEF FinishRollout, PoolTypeOK
<1>3. ASSUME NEW r \in Rollouts, EvaluateHere(r) PROVE PoolTypeOK'
  BY <1>3 DEF EvaluateHere, PoolTypeOK
<1>4. ASSUME NEW r \in Rollouts, NEW k \in Components, StartJob(r, k) PROVE PoolTypeOK'
  BY <1>4 DEF StartJob, PoolTypeOK
<1>5. ASSUME NEW r \in Rollouts, NEW k \in Components, EndJob(r, k) PROVE PoolTypeOK'
  <2> PICK res \in {"ok", "failed"} : job' = [job EXCEPT ![r][k] = res]
    BY <1>5 DEF EndJob
  <2> QED
    BY <1>5 DEF EndJob, PoolTypeOK
<1>6. ASSUME NEW r \in Rollouts, Collect(r) PROVE PoolTypeOK'
  BY <1>6 DEF Collect, PoolTypeOK
<1>7. CASE Return
  BY <1>7 DEF Return, PoolTypeOK
<1>8. CASE Raise
  BY <1>8 DEF Raise, PoolTypeOK
<1>9. CASE UNCHANGED poolVars
  BY <1>9 DEF poolVars, PoolTypeOK
<1> QED
  BY <1>1, <1>2, <1>3, <1>4, <1>5, <1>6, <1>7, <1>8, <1>9 DEF PoolNext, Work

\* A rollout is taken by a free thread; without a pool only when the one before is done.
LEMMA StartKeeps ==
    ASSUME PoolInv, PoolTypeOK', NEW r \in Rollouts, StartRollout(r)
    PROVE  PoolInv'
<1>1. state[r] = "queued" /\ state' = [state EXCEPT ![r] = "running"]
      /\ UNCHANGED <<kubernetes, job, collected, outcome>> /\ Cardinality(Busy) < Threads
  BY DEF StartRollout
<1>2. (Pool' <=> Pool) /\ Threads' = Threads
  BY <1>1, SamePool
<1>3. Cardinality(Busy') <= Threads'
  <2>1. Cardinality(Busy') = Cardinality(Busy) + 1
    BY <1>1, OneMore DEF PoolInv
  <2> QED
    BY <1>1, <1>2, <2>1, PoolFinite, ThreadsFit DEF PoolInv
<1>4. \A q \in Rollouts : q # r => state'[q] = state[q]
  BY <1>1 DEF PoolInv, PoolTypeOK
<1>5. state'[r] = "running"
  BY <1>1 DEF PoolInv, PoolTypeOK
<1>6. r \notin collected
  BY <1>1 DEF PoolInv
<1>7. outcome # "returned" /\ (Pool => outcome # "raised")
  BY <1>1 DEF PoolInv
<1>8. ~Pool => outcome = "collecting" /\ \A q \in 1..(r - 1) : q \in collected
  BY DEF StartRollout
<1>9. collected \subseteq Rollouts
  BY DEF PoolInv, PoolTypeOK
<1>10. /\ \A q \in Rollouts, k \in Components :
            job'[q][k] = "running" => kubernetes' /\ state'[q] = "running"
       /\ \A q \in collected' :
            (outcome' \in {"collecting", "returned"} => state'[q] = "ok")
            /\ state'[q] \in {"ok", "failed"}
  BY <1>1, <1>4, <1>5, <1>6, <1>9 DEF PoolInv
<1>11. /\ outcome' # "collecting" /\ ~Pool' => \A q \in Rollouts : state'[q] # "running"
       /\ outcome' \in {"returned", "raised"} /\ Pool' =>
            \A q \in Rollouts : state'[q] \in {"ok", "failed"}
       /\ outcome' = "returned" => collected' = Rollouts
  BY <1>1, <1>2, <1>7, <1>8 DEF PoolInv
<1>12. ~Pool' => \A q \in Rollouts :
         state'[q] # "queued" => \A p \in 1..(q - 1) : p \in collected'
  BY <1>1, <1>2, <1>4, <1>8 DEF PoolInv
<1> QED
  BY <1>3, <1>10, <1>11, <1>12 DEF PoolInv, Rollouts

\* An evaluation that ends has no Job that runs.
LEMMA EndKeeps ==
    ASSUME PoolInv, PoolTypeOK', NEW r \in Rollouts, FinishRollout(r) \/ EvaluateHere(r)
    PROVE  PoolInv'
<1>1. PICK res \in {"ok", "failed"} : state' = [state EXCEPT ![r] = res]
  BY DEF FinishRollout, EvaluateHere
<1>2. state[r] = "running" /\ UNCHANGED <<kubernetes, job, collected, outcome>>
      /\ \A k \in Components : job[r][k] # "running"
  BY DEF FinishRollout, EvaluateHere, PoolInv
<1>3. (Pool' <=> Pool) /\ Threads' = Threads
  BY <1>2, SamePool
<1>4. \A q \in Rollouts : q # r => state'[q] = state[q]
  BY <1>1 DEF PoolInv, PoolTypeOK
<1>5. state'[r] = res
  BY <1>1 DEF PoolInv, PoolTypeOK
<1>6. Cardinality(Busy') <= Threads'
  <2>1. Cardinality(Busy') <= Cardinality(Busy)
    BY <1>1, OneLess DEF PoolInv
  <2>2. Cardinality(Busy') \in Nat
    <3>1. Busy' \subseteq Busy
      BY <1>1, <1>2, <1>4, <1>5 DEF Busy
    <3> QED
      BY <3>1, PoolFinite, FS_Subset, FS_CardinalityType DEF PoolInv
  <2> QED
    BY <1>3, <2>1, <2>2, PoolFinite, ThreadsFit DEF PoolInv
<1>7. r \notin collected
  BY <1>2 DEF PoolInv
<1>8. collected \subseteq Rollouts
  BY DEF PoolInv, PoolTypeOK
<1>9. /\ \A q \in Rollouts, k \in Components :
           job'[q][k] = "running" => kubernetes' /\ state'[q] = "running"
      /\ \A q \in collected' :
           (outcome' \in {"collecting", "returned"} => state'[q] = "ok")
           /\ state'[q] \in {"ok", "failed"}
  BY <1>2, <1>4, <1>7, <1>8 DEF PoolInv
<1>10. /\ outcome' # "collecting" /\ ~Pool' => \A q \in Rollouts : state'[q] # "running"
       /\ outcome' \in {"returned", "raised"} /\ Pool' =>
            \A q \in Rollouts : state'[q] \in {"ok", "failed"}
       /\ outcome' = "returned" => collected' = Rollouts
  BY <1>2, <1>3, <1>4, <1>5 DEF PoolInv
<1>11. ~Pool' => \A q \in Rollouts :
         state'[q] # "queued" => \A p \in 1..(q - 1) : p \in collected'
  BY <1>2, <1>3, <1>4 DEF PoolInv
<1> QED
  BY <1>6, <1>9, <1>10, <1>11 DEF PoolInv, Rollouts

\* Jobs start and end within an evaluation that runs.
LEMMA JobKeeps ==
    ASSUME PoolInv, PoolTypeOK', NEW r \in Rollouts, NEW c \in Components,
           StartJob(r, c) \/ EndJob(r, c)
    PROVE  PoolInv'
<1>1. UNCHANGED <<kubernetes, state, collected, outcome>> /\ kubernetes /\ state[r] = "running"
  BY DEF StartJob, EndJob, PoolInv
<1>2. \A q \in Rollouts, k \in Components :
        job'[q][k] = "running" => job[q][k] = "running" \/ q = r
  BY DEF StartJob, EndJob, PoolInv, PoolTypeOK
<1>3. (Pool' <=> Pool) /\ Threads' = Threads /\ Busy' = Busy
  BY <1>1, SamePool DEF Busy
<1> QED
  BY <1>1, <1>2, <1>3 DEF PoolInv, Rollouts

\* What the driver collects has ended, and with success if it goes on.
LEMMA DriverKeeps ==
    ASSUME PoolInv, PoolTypeOK', (\E r \in Rollouts : Collect(r)) \/ Return \/ Raise
    PROVE  PoolInv'
<1>1. UNCHANGED <<kubernetes, state, job>>
  BY DEF Collect, Return, Raise
<1>2. (Pool' <=> Pool) /\ Threads' = Threads /\ Busy' = Busy
  BY <1>1, SamePool DEF Busy
<1>3. ASSUME NEW r \in Rollouts, Collect(r) PROVE PoolInv'
  <2>1. /\ outcome = "collecting" /\ outcome' \in {"collecting", "draining"}
        /\ collected' = collected \cup {r} /\ r \notin collected
        /\ state[r] \in {"ok", "failed"}
        /\ outcome' = "collecting" => state[r] = "ok"
    BY <1>3 DEF Collect
  <2>2. ~Pool => \A q \in Rollouts : state[q] # "running"
    <3> SUFFICES ASSUME ~Pool, NEW q \in Rollouts, state[q] = "running" PROVE FALSE
      OBVIOUS
    <3>1. q \notin collected /\ q # r
      BY <2>1 DEF PoolInv
    <3>2. ~(r \in 1..(q - 1)) /\ ~(q \in 1..(r - 1))
      BY <2>1, <3>1 DEF PoolInv
    <3> QED
      BY <3>1, <3>2, CountAssumption DEF Rollouts
  <2> QED
    BY <1>1, <1>2, <2>1, <2>2 DEF PoolInv, Rollouts
<1>4. CASE Return
  <2>1. /\ outcome = "collecting" /\ collected = Rollouts /\ collected' = collected
        /\ outcome' \in {"returned", "raised"}
    BY <1>4 DEF Return
  <2>2. \A r \in Rollouts : state[r] = "ok"
    BY <2>1 DEF PoolInv
  <2> QED
    BY <1>1, <1>2, <2>1, <2>2 DEF PoolInv, Rollouts
<1>5. CASE Raise
  <2>1. /\ outcome = "draining" /\ collected' = collected /\ outcome' = "raised"
        /\ Pool => \A r \in Rollouts : state[r] \in {"ok", "failed"}
    BY <1>5 DEF Raise
  <2> QED
    BY <1>1, <1>2, <2>1 DEF PoolInv, Rollouts
<1> QED
  BY <1>3, <1>4, <1>5

LEMMA PoolStep == PoolInv /\ [PoolNext]_poolVars => PoolInv'
<1> SUFFICES ASSUME PoolInv, [PoolNext]_poolVars PROVE PoolInv'
  OBVIOUS
<1>1. PoolTypeOK'
  BY PoolTypeStep DEF PoolInv
<1>2. CASE UNCHANGED poolVars
  <2>1. Busy' = Busy /\ (Pool' <=> Pool) /\ Threads' = Threads
    BY <1>2, SamePool DEF poolVars, Busy
  <2> QED
    BY <1>1, <1>2, <2>1 DEF poolVars, PoolInv, Rollouts
<1>3. CASE PoolNext
  BY <1>1, <1>3, StartKeeps, EndKeeps, JobKeeps, DriverKeeps DEF PoolNext, Work
<1> QED
  BY <1>2, <1>3

\* The inductive invariant holds in every state.
THEOREM PoolInvariantHolds == PoolSpec => []PoolInv
BY PoolInitHolds, PoolStep, PTL DEF PoolSpec

\* Every variable has its type, for any number of rollouts and GPUs.
THEOREM PoolTypeCorrect == PoolSpec => []PoolTypeOK
<1>1. PoolInv => PoolTypeOK
  BY DEF PoolInv
<1> QED
  BY PoolInvariantHolds, <1>1, PTL

\* What the evaluations that run can have running stays within the bound.
LEMMA JobsFit == PoolInv => GpuBound
<1> SUFFICES ASSUME PoolInv PROVE GpuBound
  OBVIOUS
<1>1. GpuJobs \subseteq Busy \X Components
  BY DEF PoolInv, GpuJobs, Busy
<1>2. PoolTypeOK
  BY DEF PoolInv
<1>3. /\ IsFiniteSet(Busy \X Components)
      /\ Cardinality(Busy \X Components) = Cardinality(Busy) * Cardinality(Components)
  BY <1>2, PoolFinite, FS_Product
<1>4. IsFiniteSet(GpuJobs) /\ Cardinality(GpuJobs) <= Cardinality(Busy) * JobsPerRollout
  BY <1>1, <1>3, FS_Subset DEF JobsPerRollout
<1>5. Cardinality(GpuJobs) \in Nat
  BY <1>4, FS_CardinalityType
<1>6. JobsPerRollout \in {1, 2}
  BY ComponentsAssumption DEF JobsPerRollout
<1>7. Cardinality(Busy) * JobsPerRollout <= Threads * JobsPerRollout
  BY <1>2, <1>6, PoolFinite, ThreadsFit DEF PoolInv
<1>8. Larger(MaxGpus, JobsPerRollout) \in Nat
  BY <1>6, CapAssumption DEF Larger
<1>9. Cardinality(Busy) \in Nat /\ Threads \in Nat
  BY <1>2, PoolFinite, ThreadsFit
<1> QED
  BY <1>4, <1>5, <1>6, <1>7, <1>8, <1>9, ThreadsFit DEF GpuBound

\* The pool of run_inner_loop never has more GPU Jobs than the cap, or than one
\* evaluation needs, for any number of rollouts and any cap.
THEOREM GpusAreBounded == PoolSpec => []GpuBound
BY PoolInvariantHolds, JobsFit, PTL

\* The loop over the rollouts returns only with each of them evaluated, and leaves
\* nothing behind that runs or would still be started, also when it raises.
THEOREM PoolEndsClean == PoolSpec => []EndsClean
<1>1. PoolInv => EndsClean
  BY DEF PoolInv, EndsClean, Busy, GpuJobs
<1> QED
  BY PoolInvariantHolds, <1>1, PTL

(***************************************************************************)
(* Evaluation: the threads of the pool and the calls they make.            *)
(***************************************************************************)

\* What a call downloaded was written, after a Job that was found complete.
Downloaded(c) ==
    /\ pc[c] \in {"downloading", "returned"} => verdict[c] = "complete"
    /\ result[c] # Nobody => wrote[result[c]]

Written == \A u \in Uris : writer[u] # Nobody => wrote[writer[u]]

\* A thread is where its call is; a call that no thread has begun has no Job; and a rollout
\* is evaluated only by threads that ended well.
Woven(r, k) ==
    /\ job[r][k] = "idle" <=> pc[<<r, k>>] = "unused"
    /\ job[r][k] \in {"ok", "failed"} => Ended(<<r, k>>)
    /\ job[r][k] = "ok" => pc[<<r, k>>] = "returned"
    /\ pc[<<r, k>>] = "unused" => ~present[<<r, k>>]
    /\ kubernetes /\ state[r] = "ok" => job[r][k] = "ok"

EvaluationInv ==
    /\ Counted /\ IInv /\ PoolInv
    /\ (\A c \in Calls : Downloaded(c)) /\ Written
    /\ \A r \in Rollouts, k \in Components : Woven(r, k)

\* One call that is under way moves on, and the storage stays as it is.
Alone(c) ==
    /\ Active(c)
    /\ UNCHANGED <<wrote, writer>>
    /\ \A d \in Calls \ {c} : /\ pc'[d] = pc[d] /\ present'[d] = present[d]
                              /\ verdict'[d] = verdict[d] /\ result'[d] = result[d]
    /\ pc'[c] # "unused" /\ Downloaded(c)'

\* A step of the calls neither begins one nor moves one that has ended, and a call downloads
\* only what is there, for a Job found complete.
LEMMA CallsMove ==
    ASSUME TypeOK, \A d \in Calls : Downloaded(d), Written, Next
    PROVE  /\ \A d \in Calls : /\ pc'[d] = "unused" <=> pc[d] = "unused"
                               /\ Ended(d) => pc'[d] = pc[d]
                               /\ pc[d] = "unused" => present'[d] = present[d]
                               /\ Downloaded(d)'
           /\ Written'
<1>t. /\ present \in [Calls -> BOOLEAN] /\ wrote \in [Calls -> BOOLEAN]
      /\ writer \in [Uris -> Calls \cup {Nobody}] /\ result \in [Calls -> Calls \cup {Nobody}]
      /\ DOMAIN pc = Calls /\ DOMAIN verdict = Calls
  BY DEF TypeOK
<1>1. ASSUME NEW c \in Calls, PodWrites(c)
      PROVE  /\ pc' = pc /\ present' = present
             /\ \A d \in Calls : Downloaded(d)'
             /\ Written'
  BY <1>1, <1>t DEF PodWrites, Downloaded, Written, OutputUri, Uris
<1>2. ASSUME NEW c \in Calls, PodSucceeds(c) \/ PodFails(c) \/ Controller(c)
      PROVE  UNCHANGED <<pc, present, verdict, result, wrote, writer>>
  BY <1>2 DEF PodSucceeds, PodFails, Controller, JobCompletes, BackoffLimitReached,
     DeadlineExceeded, JobFails, KillPods
<1>3. ASSUME NEW c \in Calls, Driver(c) \/ Failure(c)
      PROVE  Alone(c)
  <2> USE DEF Alone
  <2>0. Downloaded(c) /\ Written
    OBVIOUS
  <2>1. CASE Apply(c)
    BY <2>0, <2>1, <1>t DEF Apply, Active, Ended, Downloaded
  <2>2. ASSUME NEW v, Decide(c, v),
               pc[c] \in {"applied", "waiting", "verifying", "checking", "polling"}
        PROVE  Alone(c)
    BY <2>0, <2>2, <1>t DEF Decide, Active, Ended, Downloaded
  <2>3. ASSUME NEW next \in {"waiting", "verifying", "checking", "polling", "deleting"},
               GoTo(c, next),
               pc[c] \in {"applied", "waiting", "verifying", "checking", "reporting"}
        PROVE  Alone(c)
    BY <2>0, <2>3, <1>t DEF GoTo, Active, Ended, Downloaded
  <2>4. CASE DeleteJob(c) \/ DeleteFails(c)
    BY <2>0, <2>4, <1>t DEF DeleteJob, DeleteFails, AfterDelete, Active, Ended, Downloaded
  <2>5. CASE DownloadMissing(c)
    BY <2>0, <2>5, <1>t DEF DownloadMissing, Active, Ended, Downloaded
  <2>6. CASE Download(c)
    BY <2>0, <2>6, <1>t DEF Download, Active, Ended, Downloaded, Written, OutputUri, Uris
  <2>7. CASE StatusError(c) \/ ForeignDelete(c) \/ Interrupted(c)
    BY <2>0, <2>7, <1>t DEF StatusError, ForeignDelete, Interrupted, Active, Ended, Downloaded
  <2> QED
    BY <1>3, <2>1, <2>2, <2>3, <2>4, <2>5, <2>6, <2>7
    DEF Driver, Failure, InitialStatus, WaitForComplete, VerifyComplete, CheckFailed, Poll,
        GiveUp, Report
<1>4. ASSUME NEW c \in Calls, PodSucceeds(c) \/ PodFails(c) \/ Controller(c)
      PROVE  (\A d \in Calls : Downloaded(d)') /\ Written'
  BY <1>2, <1>4 DEF Downloaded, Written, Uris
<1>5. ASSUME NEW c \in Calls, Driver(c) \/ Failure(c)
      PROVE  (\A d \in Calls : Downloaded(d)') /\ Written'
  BY <1>3, <1>5 DEF Alone, Downloaded, Written, Uris
<1> QED
  BY <1>1, <1>2, <1>3, <1>4, <1>5 DEF Alone, Next, Pods, Active, Ended

\* What an iteration begins with.
LEMMA EvaluationAtFirst ==
    ASSUME EvaluationCalls, EvaluationInit
    PROVE  EvaluationInv
<1>1. Counted /\ IInv /\ PoolInv
  BY CountedAtFirst, BackedAtFirst, PoolInitHolds DEF EvaluationInit
<1>2. pc = [c \in Calls |-> "unused"]
  BY DEF EvaluationInit, Init, EvaluationCalls
<1>3. (\A c \in Calls : Downloaded(c)) /\ Written
  BY <1>2 DEF EvaluationInit, Init, Downloaded, Written
<1>4. ASSUME NEW r \in Rollouts, NEW k \in Components PROVE Woven(r, k)
  <2>1. <<r, k>> \in Calls
    BY DEF EvaluationCalls
  <2>2. pc[<<r, k>>] = "unused" /\ ~present[<<r, k>>]
    BY <1>2, <2>1 DEF EvaluationInit, Init
  <2>3. job[r][k] = "idle" /\ state[r] = "queued"
    BY DEF EvaluationInit, PoolInit
  <2> QED
    BY <2>2, <2>3 DEF Woven
<1> QED
  BY <1>1, <1>3, <1>4 DEF EvaluationInv

\* Every step of the composition is a step of the pool or leaves it alone.
LEMMA PoolMoves ==
    ASSUME [EvaluationNext]_allVars
    PROVE  [PoolNext]_poolVars
BY DEF EvaluationNext, Threading, Scheduling, Enter, Leave, Calling, PoolNext, Work,
   allVars, poolVars

\* A thread begins its call.
LEMMA EnterKeeps ==
    ASSUME EvaluationCalls, EvaluationInv, NEW r \in Rollouts, NEW k \in Components,
           Enter(r, k)
    PROVE  /\ Counted' /\ IInv'
           /\ (\A c \in Calls : Downloaded(c)') /\ Written'
           /\ \A q \in Rollouts, j \in Components : Woven(q, j)'
<1>1. <<r, k>> \in Calls /\ TypeOK /\ PoolTypeOK
  BY DEF EvaluationCalls, EvaluationInv, Counted, PoolInv
<1>2. /\ pc' = [pc EXCEPT ![<<r, k>>] = "applying"]
      /\ UNCHANGED <<jobVars, podVars, verdict, tries, result, historyVars, kubernetes, state>>
      /\ job' = [job EXCEPT ![r][k] = "running"] /\ job[r][k] = "idle"
  BY DEF Enter, StartJob
<1>3. Counted'
  BY <1>1, <1>2 DEF EvaluationInv, Counted, TypeOK
<1>4. IInv'
  <2>1. ASSUME NEW c \in Calls PROVE CallInv(c)'
    <3>1. CallInv(c) /\ (pc'[c] = pc[c] \/ pc'[c] = "applying")
      BY <1>1, <1>2 DEF EvaluationInv, IInv, TypeOK
    <3> QED
      BY <1>2, <3>1 DEF CallInv, OutputUri
  <2>2. StorageInv'
    BY <1>2 DEF EvaluationInv, IInv, StorageInv, OutputUri
  <2> QED
    BY <2>1, <2>2 DEF IInv
<1>5. (\A c \in Calls : Downloaded(c)') /\ Written'
  <2>1. ASSUME NEW c \in Calls PROVE Downloaded(c)'
    BY <1>1, <1>2 DEF EvaluationInv, Downloaded, TypeOK
  <2> QED
    BY <1>2, <2>1 DEF EvaluationInv, Written, Uris
<1>6. ASSUME NEW q \in Rollouts, NEW j \in Components PROVE Woven(q, j)'
  <2>1. Woven(q, j) /\ <<q, j>> \in Calls
    BY DEF EvaluationInv, EvaluationCalls
  <2>2. CASE q = r /\ j = k
    BY <1>1, <1>2, <2>1, <2>2 DEF Woven, Ended, TypeOK, PoolTypeOK
  <2>3. CASE ~(q = r /\ j = k)
    <3>1. pc'[<<q, j>>] = pc[<<q, j>>] /\ job'[q][j] = job[q][j]
      BY <1>1, <1>2, <2>1, <2>3 DEF TypeOK, PoolTypeOK
    <3> QED
      BY <1>2, <2>1, <3>1 DEF Woven, Ended
  <2> QED
    BY <2>2, <2>3
<1> QED
  BY <1>3, <1>4, <1>5, <1>6

\* A thread ends as its call has.
LEMMA LeaveKeeps ==
    ASSUME EvaluationCalls, EvaluationInv, NEW r \in Rollouts, NEW k \in Components,
           Leave(r, k)
    PROVE  \A q \in Rollouts, j \in Components : Woven(q, j)'
<1>1. PoolTypeOK /\ PoolInv
  BY DEF EvaluationInv, PoolInv
<1>2. /\ UNCHANGED <<vars, kubernetes, state>> /\ job[r][k] = "running" /\ Ended(<<r, k>>)
      /\ job'[r][k] = "ok" => pc[<<r, k>>] = "returned"
  BY DEF Leave, EndJob
<1>3. PICK res \in {"ok", "failed"} : job' = [job EXCEPT ![r][k] = res]
  BY DEF Leave, EndJob
<1>4. state[r] = "running"
  BY <1>1, <1>2 DEF PoolInv
<1>5. ASSUME NEW q \in Rollouts, NEW j \in Components PROVE Woven(q, j)'
  <2>1. Woven(q, j) /\ pc' = pc /\ present' = present
    BY <1>2 DEF EvaluationInv, vars
  <2>2. CASE q = r /\ j = k
    <3>1. job'[q][j] = res
      BY <1>1, <1>3, <2>2 DEF PoolTypeOK
    <3> QED
      BY <1>2, <1>4, <2>1, <2>2, <3>1 DEF Woven, Ended
  <2>3. CASE ~(q = r /\ j = k)
    <3>1. job'[q][j] = job[q][j]
      BY <1>1, <1>3, <2>3 DEF PoolTypeOK
    <3> QED
      BY <1>2, <2>1, <3>1 DEF Woven, Ended
  <2> QED
    BY <2>2, <2>3
<1> QED
  BY <1>5

\* A rollout is evaluated only when its threads have all ended well.
LEMMA SchedulingKeeps ==
    ASSUME EvaluationCalls, EvaluationInv, Scheduling
    PROVE  \A q \in Rollouts, j \in Components : Woven(q, j)'
<1>1. PoolTypeOK /\ UNCHANGED <<vars, kubernetes, job>>
  BY DEF EvaluationInv, PoolInv, Scheduling, StartRollout, FinishRollout, EvaluateHere,
     Collect, Return, Raise
<1>2. ASSUME NEW q \in Rollouts, NEW j \in Components, kubernetes, state'[q] = "ok"
      PROVE  job[q][j] = "ok"
  <2>1. Woven(q, j)
    BY DEF EvaluationInv
  <2>2. ASSUME NEW r \in Rollouts, StartRollout(r) PROVE state[q] = "ok"
    BY <1>1, <1>2, <2>2 DEF StartRollout, PoolTypeOK
  <2>3. ASSUME NEW r \in Rollouts, FinishRollout(r) PROVE job[q][j] = "ok"
    BY <1>1, <1>2, <2>1, <2>3 DEF FinishRollout, PoolTypeOK, Woven
  <2>4. ASSUME state' = state PROVE state[q] = "ok"
    BY <1>2, <2>4
  <2> QED
    BY <1>2, <2>1, <2>2, <2>3, <2>4 DEF Scheduling, EvaluateHere, Collect, Return, Raise, Woven
<1>3. ASSUME NEW q \in Rollouts, NEW j \in Components PROVE Woven(q, j)'
  <2>1. Woven(q, j) /\ pc' = pc /\ present' = present
    BY <1>1 DEF EvaluationInv, vars
  <2> QED
    BY <1>1, <1>2, <2>1 DEF Woven, Ended
<1> QED
  BY <1>3

\* The calls move under threads that have begun and not ended.
LEMMA CallingKeeps ==
    ASSUME EvaluationCalls, EvaluationInv, Calling
    PROVE  /\ (\A c \in Calls : Downloaded(c)') /\ Written'
           /\ \A q \in Rollouts, j \in Components : Woven(q, j)'
<1>1. /\ \A d \in Calls : /\ pc'[d] = "unused" <=> pc[d] = "unused"
                          /\ Ended(d) => pc'[d] = pc[d]
                          /\ pc[d] = "unused" => present'[d] = present[d]
                          /\ Downloaded(d)'
      /\ Written'
  BY CallsMove DEF EvaluationInv, Counted, Calling
<1>2. ASSUME NEW q \in Rollouts, NEW j \in Components PROVE Woven(q, j)'
  <2>1. Woven(q, j) /\ <<q, j>> \in Calls /\ UNCHANGED <<kubernetes, state, job>>
    BY DEF EvaluationInv, EvaluationCalls, Calling, poolVars
  <2> QED
    BY <1>1, <2>1 DEF Woven, Ended
<1> QED
  BY <1>1, <1>2

LEMMA EvaluationStep ==
    ASSUME EvaluationCalls, EvaluationInv, [EvaluationNext]_allVars
    PROVE  EvaluationInv'
<1>1. PoolInv'
  BY PoolMoves, PoolStep DEF EvaluationInv
<1>2. ASSUME NEW r \in Rollouts, NEW k \in Components, Enter(r, k) PROVE EvaluationInv'
  BY <1>1, <1>2, EnterKeeps DEF EvaluationInv
<1>3. ASSUME [Next]_vars PROVE Counted' /\ IInv'
  BY <1>3, CountedStep, BackedStep DEF EvaluationInv, Counted
<1>4. ASSUME UNCHANGED vars
      PROVE  (\A c \in Calls : Downloaded(c)') /\ Written'
  BY <1>4 DEF EvaluationInv, vars, Downloaded, Written, Uris
<1>5. ASSUME NEW r \in Rollouts, NEW k \in Components, Leave(r, k) PROVE EvaluationInv'
  <2>1. UNCHANGED vars
    BY <1>5 DEF Leave
  <2> QED
    BY <1>1, <1>3, <1>4, <1>5, <2>1, LeaveKeeps DEF EvaluationInv
<1>6. CASE Scheduling
  <2>1. UNCHANGED vars
    BY <1>6 DEF Scheduling
  <2> QED
    BY <1>1, <1>3, <1>4, <1>6, <2>1, SchedulingKeeps DEF EvaluationInv
<1>7. CASE Calling
  <2>1. Next
    BY <1>7 DEF Calling
  <2> QED
    BY <1>1, <1>3, <1>7, <2>1, CallingKeeps DEF EvaluationInv
<1>8. CASE UNCHANGED allVars
  <2>1. UNCHANGED vars /\ UNCHANGED poolVars
    BY <1>8 DEF allVars
  <2>2. \A q \in Rollouts, j \in Components : Woven(q, j)'
    BY <2>1 DEF EvaluationInv, Woven, Ended, vars, poolVars, Rollouts
  <2> QED
    BY <1>1, <1>3, <1>4, <2>1, <2>2 DEF EvaluationInv
<1> QED
  BY <1>2, <1>5, <1>6, <1>7, <1>8 DEF EvaluationNext, Threading

\* The pool's threads, their calls and the Jobs of the calls stay in step.
THEOREM EvaluationInvariantHolds ==
    ASSUME EvaluationCalls
    PROVE  EvaluationSpec => []EvaluationInv
<1>1. EvaluationInit => EvaluationInv
  BY EvaluationAtFirst
<1>2. EvaluationInv /\ [EvaluationNext]_allVars => EvaluationInv'
  BY EvaluationStep
<1> QED
  BY <1>1, <1>2, PTL DEF EvaluationSpec

\* An evaluation whose threads make calls of SiblingJob is one of VlmPool: what the pool
\* promises with threads that end as they like holds of threads that end as their calls do.
THEOREM EvaluationIsAPool == EvaluationSpec => PoolSpec
<1>1. EvaluationInit => PoolInit
  BY DEF EvaluationInit
<1>2. [EvaluationNext]_allVars => [PoolNext]_poolVars
  BY PoolMoves
<1> QED
  BY <1>1, <1>2, PTL DEF EvaluationSpec, PoolSpec

\* k8s_max_parallel_gpus, which sizes a thread pool, holds of the Jobs in the cluster: for
\* any cap, rollouts, one model or two, pods, failures and orders of the kubectl calls.
THEOREM JobsAreBounded ==
    ASSUME EvaluationCalls
    PROVE  EvaluationSpec => []JobsWithinCap
<1>1. EvaluationInv => JobsWithinCap
  <2> SUFFICES ASSUME EvaluationInv PROVE JobsWithinCap
    OBVIOUS
  <2> DEFINE There == {c \in Calls : present[c] /\ ~trouble[c]}
  <2>1. There \subseteq GpuJobs
    <3> SUFFICES ASSUME NEW r \in Rollouts, NEW k \in Components,
                        present[<<r, k>>], ~trouble[<<r, k>>]
                 PROVE  job[r][k] = "running"
      BY DEF EvaluationCalls, GpuJobs
    <3>1. <<r, k>> \in Calls /\ Woven(r, k) /\ PoolTypeOK
      BY DEF EvaluationCalls, EvaluationInv, PoolInv
    <3>2. ~Ended(<<r, k>>)
      BY <3>1 DEF EvaluationInv, IInv, CallInv, Ended
    <3> QED
      BY <3>1, <3>2 DEF Woven, PoolTypeOK
  <2>2. IsFiniteSet(GpuJobs)
    <3>1. GpuJobs \subseteq Rollouts \X Components
      BY DEF GpuJobs
    <3>2. IsFiniteSet(Rollouts) /\ IsFiniteSet(Components)
      BY FS_Interval, CountAssumption, ComponentsAssumption DEF Rollouts
    <3> QED
      BY <3>1, <3>2, FS_Product, FS_Subset
  <2>3. /\ Cardinality(There) <= Cardinality(GpuJobs)
        /\ Cardinality(There) \in Nat /\ Cardinality(GpuJobs) \in Nat
    BY <2>1, <2>2, FS_Subset, FS_CardinalityType
  <2>4. Cardinality(GpuJobs) <= Larger(MaxGpus, JobsPerRollout)
    BY JobsFit DEF EvaluationInv, GpuBound
  <2>5. Larger(MaxGpus, JobsPerRollout) \in Nat
    BY CapAssumption, ComponentsAssumption DEF Larger, JobsPerRollout
  <2> HIDE DEF There
  <2>6. Cardinality(There) <= Larger(MaxGpus, JobsPerRollout)
    BY <2>3, <2>4, <2>5
  <2> QED
    BY <2>6 DEF There, JobsWithinCap
<1> QED
  BY <1>1, EvaluationInvariantHolds, PTL

\* The inner loop trains on judgments that the Jobs of their own rollout and model wrote, and
\* leaves no Job of its own behind.
THEOREM JudgmentsAreTrue ==
    ASSUME EvaluationCalls
    PROVE  EvaluationSpec => []JudgmentsAreOwn
<1>1. EvaluationInv => JudgmentsAreOwn
  <2> SUFFICES ASSUME EvaluationInv PROVE JudgmentsAreOwn
    OBVIOUS
  <2>0. EndsClean
    BY DEF EvaluationInv, PoolInv, EndsClean, Busy, GpuJobs
  <2>1. ASSUME outcome = "returned", kubernetes, NEW r \in Rollouts, NEW k \in Components
        PROVE  LET c == <<r, k>>
               IN result[c] = c /\ wrote[c] /\ verdict[c] = "complete"
    <3>1. pc[<<r, k>>] = "returned"
      BY <2>0, <2>1 DEF EndsClean, EvaluationInv, Woven
    <3>2. <<r, k>> \in Calls
      BY DEF EvaluationCalls
    <3>3. /\ result[<<r, k>>] # Nobody /\ result[<<r, k>>] \in Calls
          /\ OutputUri(result[<<r, k>>]) = OutputUri(<<r, k>>)
      BY <3>1, <3>2 DEF EvaluationInv, IInv, CallInv, EvaluationCalls, Counted, TypeOK
    <3>4. result[<<r, k>>] = <<r, k>>
      BY <3>3 DEF OutputUri, EvaluationCalls
    <3> QED
      BY <3>1, <3>2, <3>3, <3>4 DEF EvaluationInv, Downloaded
  <2>2. ASSUME outcome \in {"returned", "raised"}, NEW r \in Rollouts, NEW k \in Components,
               present[<<r, k>>]
        PROVE  trouble[<<r, k>>]
    <3>1. <<r, k>> \in Calls /\ Woven(r, k) /\ PoolTypeOK
      BY DEF EvaluationCalls, EvaluationInv, PoolInv
    <3>2. job[r][k] # "running"
      BY <2>0, <2>2 DEF EndsClean, GpuJobs
    <3>3. Ended(<<r, k>>)
      BY <2>2, <3>1, <3>2 DEF Woven, PoolTypeOK
    <3> QED
      BY <2>2, <3>1, <3>3 DEF EvaluationInv, IInv, CallInv, Ended
  <2> QED
    BY <2>1, <2>2 DEF JudgmentsAreOwn, EvaluationCalls
<1> QED
  BY <1>1, EvaluationInvariantHolds, PTL

\* A call that moves does so in the calls as SiblingJob has them.
LEMMA BegunMoves ==
    ASSUME TypeOK, NEW c \in Calls, NEW x, x # "unused", pc' = [pc EXCEPT ![c] = x]
    PROVE  Begun' = [Begun EXCEPT ![c] = x]
<1>1. pc' = [d \in Calls |-> IF d = c THEN x ELSE pc[d]]
  BY DEF TypeOK
<1> QED
  BY <1>1 DEF Begun

\* Where a call is, unless it is yet to begin.
LEMMA BegunIs ==
    ASSUME NEW c \in Calls
    PROVE  /\ pc[c] # "unused" => Begun[c] = pc[c]
           /\ Active(c) => Jobs!Active(c)
BY DEF Begun, Active, Ended, Jobs!Active, Jobs!Ended

\* A step of the calls is one of SiblingJob's.
LEMMA CallsAreCalls ==
    ASSUME TypeOK, NEW c \in Calls,
           Pods(c) \/ Controller(c) \/ Driver(c) \/ Failure(c)
    PROVE  Jobs!Next
<1> USE DEF Jobs!jobVars, Jobs!podVars, Jobs!callVars, Jobs!historyVars
<1>a. pc' = pc => Begun' = Begun
  BY DEF Begun
<1>1. ASSUME Pods(c) PROVE Jobs!Pods(c)
  <2>1. Begun' = Begun
    BY <1>a, <1>1 DEF Pods, PodWrites, PodSucceeds, PodFails
  <2> QED
    BY <1>1, <2>1 DEF Pods, PodWrites, PodSucceeds, PodFails, Running, OutputUri,
       Jobs!Pods, Jobs!PodWrites, Jobs!PodSucceeds, Jobs!PodFails, Jobs!Running, Jobs!OutputUri
<1>2. ASSUME Controller(c) PROVE Jobs!Controller(c)
  <2>1. Begun' = Begun
    BY <1>a, <1>2 DEF Controller, JobCompletes, BackoffLimitReached, DeadlineExceeded,
       JobFails, KillPods
  <2>2. CASE JobCompletes(c)
    BY <2>1, <2>2 DEF JobCompletes, Jobs!JobCompletes, Jobs!Controller
  <2>3. ASSUME NEW before, NEW after, KillPods(c, before, after)
        PROVE  Jobs!KillPods(c, before, after)
    BY <2>1, <2>3 DEF KillPods, Jobs!KillPods
  <2> QED
    BY <1>2, <2>2, <2>3 DEF Controller, BackoffLimitReached, DeadlineExceeded, JobFails, Running,
       Jobs!Controller, Jobs!BackoffLimitReached, Jobs!DeadlineExceeded, Jobs!JobFails,
       Jobs!Running
<1>3. ASSUME Driver(c) PROVE Jobs!Driver(c)
  <2>1. ASSUME NEW v, Decide(c, v) PROVE Jobs!Decide(c, v)
    BY <2>1, BegunMoves DEF Decide, Jobs!Decide
  <2>2. ASSUME NEW next, next # "unused", GoTo(c, next) PROVE Jobs!GoTo(c, next)
    BY <2>2, BegunMoves DEF GoTo, Jobs!GoTo
  <2>3. CASE Apply(c)
    BY <2>3, BegunMoves, BegunIs DEF Apply, Jobs!Apply, Jobs!Driver
  <2>4. CASE InitialStatus(c)
    <3>1. Jobs!InitialStatus(c)
      BY <2>1, <2>2, <2>4, BegunIs DEF InitialStatus, ParsedFailed, ParsedSucceeded,
         Jobs!InitialStatus, Jobs!ParsedFailed, Jobs!ParsedSucceeded
    <3> QED
      BY <3>1 DEF Jobs!Driver
  <2>5. CASE WaitForComplete(c) \/ VerifyComplete(c) \/ CheckFailed(c)
    <3>1. Jobs!WaitForComplete(c) \/ Jobs!VerifyComplete(c) \/ Jobs!CheckFailed(c)
      BY <2>1, <2>2, <2>5, BegunIs DEF WaitForComplete, VerifyComplete, CheckFailed,
         ParsedSucceeded, Jobs!WaitForComplete, Jobs!VerifyComplete, Jobs!CheckFailed,
         Jobs!ParsedSucceeded
    <3> QED
      BY <3>1 DEF Jobs!Driver
  <2>6. CASE Poll(c) \/ GiveUp(c) \/ Report(c)
    <3>1. Jobs!Poll(c) \/ Jobs!GiveUp(c) \/ Jobs!Report(c)
      BY <2>1, <2>2, <2>6, BegunIs DEF Poll, GiveUp, Report, ParsedFailed, ParsedSucceeded,
         Jobs!Poll, Jobs!GiveUp, Jobs!Report, Jobs!ParsedFailed, Jobs!ParsedSucceeded
    <3> QED
      BY <3>1 DEF Jobs!Driver
  <2>7. CASE DeleteJob(c)
    BY <2>7, BegunMoves, BegunIs DEF DeleteJob, AfterDelete, Jobs!DeleteJob, Jobs!AfterDelete,
       Jobs!Driver
  <2>8. CASE DownloadMissing(c)
    BY <2>8, BegunMoves, BegunIs DEF DownloadMissing, OutputUri, Jobs!DownloadMissing,
       Jobs!OutputUri, Jobs!Driver
  <2>9. CASE Download(c)
    BY <2>9, BegunMoves, BegunIs DEF Download, OutputUri, Jobs!Download, Jobs!OutputUri,
       Jobs!Driver
  <2> QED
    BY <1>3, <2>3, <2>4, <2>5, <2>6, <2>7, <2>8, <2>9 DEF Driver
<1>4. ASSUME Failure(c) PROVE Jobs!Failure(c)
  <2> USE DEF Fault, Jobs!Fault
  <2>1. CASE ForeignDelete(c)
    BY <1>a, <2>1, BegunIs DEF ForeignDelete, Jobs!ForeignDelete, Jobs!Failure
  <2>2. CASE StatusError(c)
    <3>1. Jobs!StatusError(c)
      <4>1. CASE pc[c] = "applied" /\ pc' = [pc EXCEPT ![c] = "waiting"]
        BY <2>2, <4>1, BegunMoves, BegunIs DEF StatusError, Jobs!StatusError
      <4>2. CASE pc[c] = "waiting" /\ pc' = [pc EXCEPT ![c] = "checking"]
        BY <2>2, <4>2, BegunMoves, BegunIs DEF StatusError, Jobs!StatusError
      <4>3. CASE pc[c] \in {"verifying", "checking"} /\ pc' = [pc EXCEPT ![c] = "polling"]
        BY <2>2, <4>3, BegunMoves, BegunIs DEF StatusError, Jobs!StatusError
      <4> QED
        BY <2>2, <4>1, <4>2, <4>3 DEF StatusError
    <3> QED
      BY <3>1 DEF Jobs!Failure
  <2>3. CASE DeleteFails(c)
    BY <2>3, BegunMoves, BegunIs DEF DeleteFails, AfterDelete, Jobs!DeleteFails,
       Jobs!AfterDelete, Jobs!Failure
  <2>4. CASE Interrupted(c)
    BY <2>4, BegunMoves, BegunIs DEF Interrupted, Active, Ended, Jobs!Interrupted, Jobs!Failure
  <2> QED
    BY <1>4, <2>1, <2>2, <2>3, <2>4 DEF Failure
<1> QED
  BY <1>1, <1>2, <1>3, <1>4 DEF Jobs!Next

\* Begun by threads of the pool at any time, the calls are calls of SiblingJob: what that
\* module promises of calls made together holds of them too.
THEOREM EvaluationMakesSiblingJobs ==
    ASSUME EvaluationCalls
    PROVE  EvaluationSpec => CallsAreSiblingJobs
<1>1. EvaluationInit => Jobs!Init
  <2> SUFFICES ASSUME EvaluationInit PROVE Jobs!Init
    OBVIOUS
  <2>1. Begun = [c \in Calls |-> IF c \in Calls THEN "applying" ELSE "unused"]
    BY DEF EvaluationInit, Init, EvaluationCalls, Begun
  <2> QED
    BY <2>1 DEF EvaluationInit, Init, Jobs!Init, Uris, Jobs!Uris
<1>2. EvaluationInv /\ [EvaluationNext]_allVars => [Jobs!Next]_(Jobs!vars)
  <2> SUFFICES ASSUME EvaluationInv, [EvaluationNext]_allVars PROVE [Jobs!Next]_(Jobs!vars)
    OBVIOUS
  <2> USE DEF Jobs!vars, Jobs!jobVars, Jobs!podVars, Jobs!callVars, Jobs!historyVars
  <2>1. CASE Calling
    BY <2>1, CallsAreCalls DEF Calling, Next, EvaluationInv, Counted
  <2>2. ASSUME UNCHANGED vars PROVE UNCHANGED Jobs!vars
    BY <2>2 DEF vars, Begun
  <2>3. ASSUME NEW r \in Rollouts, NEW k \in Components, Enter(r, k) PROVE UNCHANGED Jobs!vars
    <3>1. /\ <<r, k>> \in Calls /\ pc[<<r, k>>] = "unused" /\ TypeOK
          /\ pc' = [pc EXCEPT ![<<r, k>>] = "applying"]
      BY <2>3 DEF Enter, StartJob, EvaluationInv, Woven, Counted, EvaluationCalls
    <3>2. Begun' = Begun
      BY <3>1, BegunMoves DEF Begun
    <3> QED
      BY <2>3, <3>2 DEF Enter
  <2> QED
    BY <2>1, <2>2, <2>3 DEF EvaluationNext, Threading, Scheduling, Leave, allVars
<1> QED
  BY <1>1, <1>2, EvaluationInvariantHolds, PTL DEF EvaluationSpec, CallsAreSiblingJobs, Jobs!Spec

(***************************************************************************)
(* Nothing goes in circles: what is left to do is counted, call by call and *)
(* rollout by rollout, and no step adds to any of the counts.              *)
(***************************************************************************)

\* Where a call is on its way, with the download attempts it still has.
Place == [unused |-> MaxTries + 10, applying |-> MaxTries + 9, applied |-> MaxTries + 8,
          waiting |-> MaxTries + 7, verifying |-> MaxTries + 6, checking |-> MaxTries + 6,
          polling |-> MaxTries + 5, reporting |-> MaxTries + 4, deleting |-> MaxTries + 3,
          returned |-> 0, raised |-> 0]
CallLeft(c) == IF pc[c] = "downloading" THEN 1 + (MaxTries - tries[c]) ELSE Place[pc[c]]

\* The pods that have not ended, the upload, and the conditions of the Job.
JobLeft(c) ==
    (Shards[c] - (succeeded[c] + failed[c])) + (IF wrote[c] THEN 0 ELSE 1)
      + (IF condition[c] = "none" THEN 2 ELSE IF condition[c] = "failing" THEN 1 ELSE 0)

FaultsLeft == MaxFaults - faults

\* A download is attempted only when the Job is deleted, and not too often.
Attempts(c) ==
    /\ pc[c] \notin {"downloading", "returned", "raised"} => tries[c] = 0
    /\ pc[c] = "downloading" => tries[c] < MaxTries
Bounded == (\A c \in Calls : Attempts(c)) /\ faults <= MaxFaults

CallsForward ==
    /\ \A c \in Calls : CallLeft(c)' <= CallLeft(c) /\ JobLeft(c)' <= JobLeft(c)
    /\ FaultsLeft' <= FaultsLeft
CallsProgress ==
    \/ \E c \in Calls : CallLeft(c)' < CallLeft(c) \/ JobLeft(c)' < JobLeft(c)
    \/ FaultsLeft' < FaultsLeft
CallsOnward == CallsForward /\ CallsProgress

CallsCount ==
    /\ \A c \in Calls : CallLeft(c) \in Nat /\ JobLeft(c) \in Nat
    /\ FaultsLeft \in Nat

\* The threads that are to be started or to end, the rollouts to be evaluated and
\* collected, and the driver's way out.
ThreadLeft(r, k) == IF job[r][k] = "idle" THEN 2 ELSE IF job[r][k] = "running" THEN 1 ELSE 0
RolloutLeft(r) ==
    (IF state[r] = "queued" THEN 2 ELSE IF state[r] = "running" THEN 1 ELSE 0)
      + (IF r \in collected THEN 0 ELSE 1)
DriverLeft == IF outcome = "collecting" THEN 2 ELSE IF outcome = "draining" THEN 1 ELSE 0

PoolForward ==
    /\ \A r \in Rollouts : /\ RolloutLeft(r)' <= RolloutLeft(r)
                           /\ \A k \in Components : ThreadLeft(r, k)' <= ThreadLeft(r, k)
    /\ DriverLeft' <= DriverLeft
PoolProgress ==
    \/ \E r \in Rollouts : \/ RolloutLeft(r)' < RolloutLeft(r)
                           \/ \E k \in Components : ThreadLeft(r, k)' < ThreadLeft(r, k)
    \/ DriverLeft' < DriverLeft

LEMMA LeftIsCounted ==
    ASSUME Counted, Bounded
    PROVE  CallsCount
<1>1. ASSUME NEW c \in Calls PROVE CallLeft(c) \in Nat
  BY <1>1, BoundAssumption DEF Counted, TypeOK, Bounded, Attempts, CallLeft, Place
<1>2. ASSUME NEW c \in Calls PROVE JobLeft(c) \in Nat
  <2>1. /\ Shards[c] \in Nat /\ succeeded[c] \in Nat /\ failed[c] \in Nat
        /\ succeeded[c] + failed[c] <= Shards[c]
    BY ShardsAssumption DEF Counted, TypeOK
  <2> QED
    BY <2>1 DEF JobLeft
<1> QED
  BY <1>1, <1>2, BoundAssumption DEF Counted, TypeOK, Bounded, FaultsLeft, CallsCount

LEMMA LeftIsCountedNext ==
    ASSUME Counted', Bounded'
    PROVE  /\ \A c \in Calls : CallLeft(c)' \in Nat /\ JobLeft(c)' \in Nat
           /\ FaultsLeft' \in Nat
<1>1. ASSUME NEW c \in Calls PROVE CallLeft(c)' \in Nat
  BY <1>1, BoundAssumption DEF Counted, TypeOK, Bounded, Attempts, CallLeft, Place
<1>2. ASSUME NEW c \in Calls PROVE JobLeft(c)' \in Nat
  <2>1. /\ Shards[c] \in Nat /\ succeeded'[c] \in Nat /\ failed'[c] \in Nat
        /\ succeeded'[c] + failed'[c] <= Shards[c]
    BY ShardsAssumption DEF Counted, TypeOK
  <2> QED
    BY <2>1 DEF JobLeft
<1>3. FaultsLeft' \in Nat
  <2>1. faults' \in Nat /\ faults' <= MaxFaults
    BY DEF Counted, TypeOK, Bounded
  <2>2. FaultsLeft' = MaxFaults - faults'
    BY DEF FaultsLeft
  <2>3. MaxFaults \in Nat
    BY BoundAssumption
  <2>4. \A m, n \in Nat : n <= m => m - n \in Nat
    OBVIOUS
  <2>5. MaxFaults - faults' \in Nat
    BY <2>1, <2>3, <2>4
  <2> QED
    BY <2>2, <2>5
<1> QED
  BY <1>1, <1>2, <1>3

\* A step that leaves a call and its pods alone leaves what they have to do.
LEMMA LeftAlone ==
    ASSUME NEW d \in Calls, pc'[d] = pc[d], tries'[d] = tries[d],
           succeeded'[d] = succeeded[d], failed'[d] = failed[d],
           condition'[d] = condition[d], wrote'[d] = wrote[d]
    PROVE  CallLeft(d)' = CallLeft(d) /\ JobLeft(d)' = JobLeft(d)
BY DEF CallLeft, Place, JobLeft

\* The driver moves on with each step, in success and failure.
LEMMA DriverAdvances ==
    ASSUME Counted, Bounded, NEW c \in Calls, Driver(c) \/ Failure(c)
    PROVE  /\ UNCHANGED <<succeeded, failed, condition, wrote>>
           /\ \A d \in Calls \ {c} : pc'[d] = pc[d] /\ tries'[d] = tries[d]
           /\ Attempts(c)'
           /\ \/ faults' = faults /\ CallLeft(c)' < CallLeft(c)
              \/ /\ faults' = faults + 1 /\ faults < MaxFaults
                 /\ CallLeft(c)' <= CallLeft(c)
<1> DEFINE Rest == /\ UNCHANGED <<succeeded, failed, condition, wrote>>
                   /\ \A d \in Calls \ {c} : pc'[d] = pc[d] /\ tries'[d] = tries[d]
           Moves == /\ Attempts(c)'
                    /\ CallLeft(c)' < CallLeft(c)
<1>t. /\ DOMAIN pc = Calls /\ DOMAIN tries = Calls /\ DOMAIN verdict = Calls
      /\ \A d \in Calls : tries[d] \in Nat
      /\ MaxTries \in Nat \ {0}
  BY BoundAssumption DEF Counted, TypeOK
<1>a. /\ pc[c] \notin {"downloading", "returned", "raised"} => tries[c] = 0
      /\ pc[c] = "downloading" => tries[c] < MaxTries
  BY DEF Bounded, Attempts
<1>v. /\ pc[c] = "downloading" => CallLeft(c) = 1 + (MaxTries - tries[c])
      /\ pc[c] # "downloading" => CallLeft(c) = Place[pc[c]]
      /\ pc'[c] = "downloading" => CallLeft(c)' = 1 + (MaxTries - tries'[c])
      /\ pc'[c] # "downloading" => CallLeft(c)' = Place[pc'[c]]
      /\ Attempts(c)' <=> /\ pc'[c] \notin {"downloading", "returned", "raised"} => tries'[c] = 0
                          /\ pc'[c] = "downloading" => tries'[c] < MaxTries
  BY DEF CallLeft, Place, Attempts
<1>p. /\ Place.applying = MaxTries + 9 /\ Place.applied = MaxTries + 8
      /\ Place.waiting = MaxTries + 7 /\ Place.verifying = MaxTries + 6
      /\ Place.checking = MaxTries + 6 /\ Place.polling = MaxTries + 5
      /\ Place.reporting = MaxTries + 4 /\ Place.deleting = MaxTries + 3
      /\ Place.returned = 0 /\ Place.raised = 0
  BY DEF Place
<1>1. CASE Apply(c)
  BY <1>1, <1>t, <1>a, <1>v, <1>p DEF Apply
<1>2. ASSUME NEW v, Decide(c, v),
             pc[c] \in {"applied", "waiting", "verifying", "checking", "polling"}
      PROVE  Rest /\ Moves /\ faults' = faults
  BY <1>2, <1>t, <1>a, <1>v, <1>p DEF Decide
<1>3. ASSUME NEW next, GoTo(c, next),
             <<pc[c], next>> \in {<<"applied", "waiting">>, <<"waiting", "verifying">>,
               <<"waiting", "checking">>, <<"verifying", "polling">>, <<"checking", "polling">>,
               <<"reporting", "deleting">>}
      PROVE  Rest /\ Moves /\ faults' = faults
  BY <1>3, <1>t, <1>a, <1>v, <1>p DEF GoTo
<1>4. CASE DeleteJob(c)
  BY <1>4, <1>t, <1>a, <1>v, <1>p DEF DeleteJob, AfterDelete
<1>5. CASE DownloadMissing(c)
  BY <1>5, <1>t, <1>a, <1>v, <1>p DEF DownloadMissing
<1>6. CASE Download(c)
  BY <1>6, <1>t, <1>a, <1>v, <1>p DEF Download
<1>7. CASE DeleteFails(c)
  BY <1>7, <1>t, <1>a, <1>v, <1>p DEF DeleteFails, Fault, AfterDelete
<1>8. CASE StatusError(c)
  BY <1>8, <1>t, <1>a, <1>v, <1>p DEF StatusError, Fault
<1>9. CASE Interrupted(c)
  <2>1. /\ pc' = [pc EXCEPT ![c] = "raised"] /\ pc[c] \notin {"unused", "returned", "raised"}
        /\ UNCHANGED <<condition, succeeded, failed, podVars, tries>>
        /\ faults' = faults + 1 /\ faults < MaxFaults
    BY <1>9 DEF Interrupted, Fault, Active, Ended
  <2>2. CallLeft(c) \in Nat
    BY LeftIsCounted DEF CallsCount
  <2>3. CallLeft(c)' = 0
    BY <2>1, <1>t, <1>a, <1>v, <1>p DEF Active
  <2>4. Attempts(c)'
    BY <2>1, <1>t, <1>a, <1>v, <1>p DEF Attempts
  <2> QED
    BY <2>1, <2>2, <2>3, <2>4, <1>t
<1>10. CASE ForeignDelete(c)
  <2>1. /\ UNCHANGED <<condition, succeeded, failed, podVars, pc, tries>>
        /\ faults' = faults + 1 /\ faults < MaxFaults
    BY <1>10 DEF ForeignDelete, Fault
  <2>2. CallLeft(c) \in Nat
    BY LeftIsCounted DEF CallsCount
  <2>3. CallLeft(c)' = CallLeft(c) /\ Attempts(c)'
    BY <2>1, <1>t, <1>a, <1>v, <1>p DEF CallLeft, Place, Attempts
  <2> QED
    BY <2>1, <2>2, <2>3
<1> QED
  <2>1. CASE InitialStatus(c)
    BY <1>2, <1>3, <2>1 DEF InitialStatus
  <2>2. CASE WaitForComplete(c)
    BY <1>2, <1>3, <2>2 DEF WaitForComplete
  <2>3. CASE VerifyComplete(c)
    BY <1>2, <1>3, <2>3 DEF VerifyComplete
  <2>4. CASE CheckFailed(c)
    BY <1>2, <1>3, <2>4 DEF CheckFailed
  <2>5. CASE Poll(c) \/ GiveUp(c)
    BY <1>2, <2>5 DEF Poll, GiveUp
  <2>6. CASE Report(c)
    BY <1>3, <2>6 DEF Report
  <2> QED
    BY <1>1, <1>4, <1>5, <1>6, <1>7, <1>8, <1>9, <1>10, <2>1, <2>2, <2>3, <2>4, <2>5, <2>6
    DEF Driver, Failure

\* Pods and the Job controller move on with each step.
LEMMA JobAdvances ==
    ASSUME Counted, Counted', NEW c \in Calls, Pods(c) \/ Controller(c)
    PROVE  /\ UNCHANGED <<pc, tries, faults>>
           /\ \A d \in Calls \ {c} : /\ succeeded'[d] = succeeded[d] /\ failed'[d] = failed[d]
                                     /\ condition'[d] = condition[d] /\ wrote'[d] = wrote[d]
           /\ JobLeft(c)' < JobLeft(c)
<1>t. /\ Shards[c] \in Nat /\ succeeded \in [Calls -> Nat] /\ failed \in [Calls -> Nat]
      /\ condition \in [Calls -> {"none", "failing", "complete", "failed"}]
      /\ wrote \in [Calls -> BOOLEAN]
      /\ succeeded[c] + failed[c] <= Shards[c]
  BY ShardsAssumption DEF Counted, TypeOK
<1>u. /\ succeeded'[c] \in Nat /\ failed'[c] \in Nat
      /\ succeeded'[c] + failed'[c] <= Shards[c]
  BY DEF Counted, TypeOK
<1>1. CASE PodWrites(c)
  BY <1>1, <1>t DEF PodWrites, JobLeft
<1>2. CASE PodSucceeds(c)
  BY <1>2, <1>t, <1>u DEF PodSucceeds, JobLeft
<1>3. CASE PodFails(c)
  BY <1>3, <1>t, <1>u DEF PodFails, JobLeft
<1>4. CASE JobCompletes(c)
  BY <1>4, <1>t DEF JobCompletes, JobLeft
<1>5. ASSUME NEW before, NEW after, KillPods(c, before, after),
             <<before, after>> \in {<<"none", "failing">>, <<"failing", "failed">>}
      PROVE  /\ UNCHANGED <<pc, tries, faults>>
             /\ \A d \in Calls \ {c} : /\ succeeded'[d] = succeeded[d] /\ failed'[d] = failed[d]
                                       /\ condition'[d] = condition[d] /\ wrote'[d] = wrote[d]
             /\ JobLeft(c)' < JobLeft(c)
  <2>1. PICK n \in 0..(Shards[c] - (succeeded[c] + failed[c])) :
          failed' = [failed EXCEPT ![c] = @ + n]
    BY <1>5 DEF KillPods
  <2>2. /\ condition' = [condition EXCEPT ![c] = after] /\ condition[c] = before
        /\ UNCHANGED <<succeeded, wrote, pc, tries, faults>>
    BY <1>5 DEF KillPods
  <2>3. failed'[c] >= failed[c] /\ condition'[c] = after
    BY <2>1, <2>2, <1>t
  <2> QED
    BY <1>5, <1>t, <1>u, <2>1, <2>2, <2>3 DEF JobLeft
<1> QED
  BY <1>1, <1>2, <1>3, <1>4, <1>5
  DEF Pods, Controller, BackoffLimitReached, DeadlineExceeded, JobFails

LEMMA CallsAdvance ==
    ASSUME Counted, Counted', Bounded, Next
    PROVE  CallsOnward /\ Bounded'
<1>1. ASSUME NEW c \in Calls, Driver(c) \/ Failure(c) PROVE CallsOnward /\ Bounded'
  <2>1. /\ \A d \in Calls \ {c} : CallLeft(d)' = CallLeft(d) /\ JobLeft(d)' = JobLeft(d)
        /\ JobLeft(c)' = JobLeft(c)
    <3>1. \A d \in Calls \ {c} : CallLeft(d)' = CallLeft(d) /\ JobLeft(d)' = JobLeft(d)
      BY <1>1, DriverAdvances, LeftAlone
    <3>2. JobLeft(c)' = JobLeft(c)
      BY <1>1, DriverAdvances DEF JobLeft
    <3> QED
      BY <3>1, <3>2
  <2>2. /\ \A d \in Calls : CallLeft(d) \in Nat /\ JobLeft(d) \in Nat
        /\ faults \in Nat /\ MaxFaults \in Nat /\ faults <= MaxFaults
    BY LeftIsCounted, BoundAssumption DEF Counted, TypeOK, Bounded, CallsCount
  <2>3. \/ faults' = faults /\ CallLeft(c)' < CallLeft(c)
        \/ faults' = faults + 1 /\ faults < MaxFaults /\ CallLeft(c)' <= CallLeft(c)
    BY <1>1, DriverAdvances
  <2>4. Bounded'
    <3>1. \A d \in Calls \ {c} : Attempts(d)'
      BY <1>1, DriverAdvances DEF Bounded, Attempts
    <3>2. Attempts(c)'
      BY <1>1, DriverAdvances
    <3> QED
      BY <2>2, <2>3, <3>1, <3>2 DEF Bounded
  <2>5. /\ \/ CallLeft(c)' < CallLeft(c) /\ FaultsLeft' = FaultsLeft
           \/ CallLeft(c)' <= CallLeft(c) /\ FaultsLeft' < FaultsLeft
        /\ CallLeft(c)' \in Nat /\ JobLeft(c)' \in Nat /\ FaultsLeft' \in Nat
    BY <2>2, <2>3, <2>4, LeftIsCountedNext DEF FaultsLeft
  <2>6. FaultsLeft \in Nat
    BY <2>2 DEF FaultsLeft
  <2>7. \A d \in Calls : CallLeft(d)' <= CallLeft(d) /\ JobLeft(d)' <= JobLeft(d)
    BY <2>1, <2>2, <2>5
  <2>8. /\ FaultsLeft' <= FaultsLeft
        /\ CallLeft(c)' < CallLeft(c) \/ FaultsLeft' < FaultsLeft
    BY <2>5, <2>6
  <2>9. CallsOnward
    BY <2>7, <2>8 DEF CallsOnward, CallsForward, CallsProgress
  <2> QED
    BY <2>4, <2>9
<1>2. ASSUME NEW c \in Calls, Pods(c) \/ Controller(c) PROVE CallsOnward /\ Bounded'
  <2>1. /\ \A d \in Calls \ {c} : CallLeft(d)' = CallLeft(d) /\ JobLeft(d)' = JobLeft(d)
        /\ CallLeft(c)' = CallLeft(c) /\ FaultsLeft' = FaultsLeft
    <3>1. \A d \in Calls \ {c} : CallLeft(d)' = CallLeft(d) /\ JobLeft(d)' = JobLeft(d)
      BY <1>2, JobAdvances, LeftAlone
    <3>2. CallLeft(c)' = CallLeft(c) /\ FaultsLeft' = FaultsLeft
      BY <1>2, JobAdvances DEF CallLeft, Place, FaultsLeft
    <3> QED
      BY <3>1, <3>2
  <2>2. Bounded'
    BY <1>2, JobAdvances DEF Bounded, Attempts
  <2>3. /\ \A d \in Calls : /\ CallLeft(d) \in Nat /\ JobLeft(d) \in Nat
                            /\ CallLeft(d)' \in Nat /\ JobLeft(d)' \in Nat
        /\ FaultsLeft \in Nat
    BY <2>2, LeftIsCounted, LeftIsCountedNext DEF CallsCount
  <2>4. JobLeft(c)' < JobLeft(c)
    BY <1>2, JobAdvances
  <2> QED
    BY <2>1, <2>2, <2>3, <2>4 DEF CallsOnward, CallsForward, CallsProgress
<1> QED
  BY <1>1, <1>2 DEF Next

LEMMA BoundedAtFirst == Init => Bounded
BY BoundAssumption DEF Init, Bounded, Attempts

\* Every step of the calls, their pods, the Job controller and of whoever interferes uses up
\* something of which there is only so much: a call makes a bounded number of kubectl
\* calls, whatever they answer, and nothing is done over (_run_image_component has no
\* retry but that of the download).
THEOREM CallsAreBounded == Spec => []CallsCount /\ [][CallsOnward]_vars
<1>1. Init => Bounded
  BY BoundedAtFirst
<1>2. Bounded /\ Counted /\ Counted' /\ [Next]_vars => Bounded'
  <2>1. ASSUME Bounded, UNCHANGED vars PROVE Bounded'
    BY <2>1 DEF Bounded, Attempts, vars
  <2> QED
    BY <2>1, CallsAdvance
<1>3. Bounded /\ Counted /\ Counted' /\ [Next]_vars => [CallsOnward]_vars
  BY CallsAdvance
<1>4. Counted /\ Bounded => CallsCount
  BY LeftIsCounted
<1>5. Spec => []Counted
  BY CountedAtFirst, CountedStep, PTL DEF Spec
<1> QED
  BY <1>1, <1>2, <1>3, <1>4, <1>5, PTL DEF Spec

\* The threads and the driver of the pool go on with each step, too.
LEMMA PoolAdvances ==
    ASSUME PoolTypeOK, PoolNext
    PROVE  PoolForward /\ PoolProgress
<1> USE DEF PoolForward, PoolProgress
<1>t. /\ state \in [Rollouts -> {"queued", "running", "ok", "failed"}]
      /\ job \in [Rollouts -> [Components -> {"idle", "running", "ok", "failed"}]]
      /\ collected \subseteq Rollouts
  BY DEF PoolTypeOK
<1>1. ASSUME NEW r \in Rollouts, NEW s \in {"running", "ok", "failed"},
             state' = [state EXCEPT ![r] = s], UNCHANGED <<job, collected, outcome>>,
             state[r] = "queued" \/ (state[r] = "running" /\ s # "running")
      PROVE  PoolForward /\ PoolProgress
  <2>1. /\ RolloutLeft(r)' < RolloutLeft(r)
        /\ \A q \in Rollouts : RolloutLeft(q)' <= RolloutLeft(q)
    BY <1>1, <1>t DEF RolloutLeft
  <2>2. /\ \A q \in Rollouts, k \in Components : ThreadLeft(q, k)' <= ThreadLeft(q, k)
        /\ DriverLeft' <= DriverLeft
    BY <1>1 DEF ThreadLeft, DriverLeft
  <2> QED
    BY <2>1, <2>2
<1>2. ASSUME NEW r \in Rollouts, NEW k \in Components, NEW s \in {"running", "ok", "failed"},
             job' = [job EXCEPT ![r][k] = s], UNCHANGED <<state, collected, outcome>>,
             job[r][k] = "idle" \/ (job[r][k] = "running" /\ s # "running")
      PROVE  PoolForward /\ PoolProgress
  <2>1. /\ ThreadLeft(r, k)' < ThreadLeft(r, k)
        /\ \A q \in Rollouts, j \in Components : ThreadLeft(q, j)' <= ThreadLeft(q, j)
    BY <1>2, <1>t DEF ThreadLeft
  <2>2. (\A q \in Rollouts : RolloutLeft(q)' <= RolloutLeft(q)) /\ DriverLeft' <= DriverLeft
    BY <1>2 DEF RolloutLeft, DriverLeft
  <2> QED
    BY <2>1, <2>2
<1>3. ASSUME NEW r \in Rollouts, Collect(r) PROVE PoolForward /\ PoolProgress
  <2>1. /\ RolloutLeft(r)' < RolloutLeft(r)
        /\ \A q \in Rollouts : RolloutLeft(q)' <= RolloutLeft(q)
    BY <1>3, <1>t DEF Collect, RolloutLeft
  <2>2. /\ \A q \in Rollouts, k \in Components : ThreadLeft(q, k)' <= ThreadLeft(q, k)
        /\ DriverLeft' <= DriverLeft
    BY <1>3 DEF Collect, ThreadLeft, DriverLeft
  <2> QED
    BY <2>1, <2>2
<1>4. ASSUME Return \/ Raise PROVE PoolForward /\ PoolProgress
  <2>1. /\ \A q \in Rollouts : /\ RolloutLeft(q)' <= RolloutLeft(q)
                               /\ \A k \in Components : ThreadLeft(q, k)' <= ThreadLeft(q, k)
    BY <1>4 DEF Return, Raise, RolloutLeft, ThreadLeft
  <2>2. DriverLeft' < DriverLeft /\ DriverLeft' <= DriverLeft
    BY <1>4 DEF Return, Raise, DriverLeft
  <2> QED
    BY <2>1, <2>2
<1>5. ASSUME NEW r \in Rollouts, Work(r) PROVE PoolForward /\ PoolProgress
  <2>1. CASE StartRollout(r)
    BY <1>1, <2>1 DEF StartRollout
  <2>2. CASE FinishRollout(r)
    BY <1>1, <2>2 DEF FinishRollout
  <2>3. CASE EvaluateHere(r)
    BY <1>1, <2>3 DEF EvaluateHere
  <2>4. ASSUME NEW k \in Components, StartJob(r, k) \/ EndJob(r, k)
        PROVE  PoolForward /\ PoolProgress
    BY <1>2, <2>4 DEF StartJob, EndJob
  <2> QED
    BY <1>5, <2>1, <2>2, <2>3, <2>4 DEF Work
<1> QED
  BY <1>3, <1>4, <1>5 DEF PoolNext

LEMMA EnterAdvances ==
    ASSUME EvaluationCalls, Counted, Bounded, NEW r \in Rollouts, NEW k \in Components,
           pc[<<r, k>>] = "unused", Enter(r, k)
    PROVE  CallsForward /\ Bounded'
<1>1. <<r, k>> \in Calls
  BY DEF EvaluationCalls
<1>2. /\ pc' = [pc EXCEPT ![<<r, k>>] = "applying"]
      /\ UNCHANGED <<succeeded, failed, condition, wrote, tries, faults>>
  BY DEF Enter
<1>3. DOMAIN pc = Calls
  BY DEF Counted, TypeOK
<1>4. Bounded'
  BY <1>1, <1>2, <1>3 DEF Bounded, Attempts
<1>5. ASSUME NEW c \in Calls
      PROVE  CallLeft(c)' <= CallLeft(c) /\ JobLeft(c)' <= JobLeft(c)
  <2>1. CallLeft(c) \in Nat /\ JobLeft(c) \in Nat
    BY LeftIsCounted DEF CallsCount
  <2>2. JobLeft(c)' = JobLeft(c)
    BY <1>2 DEF JobLeft
  <2>3. CASE c = <<r, k>>
    <3>1. pc[c] = "unused" /\ pc'[c] = "applying"
      BY <1>1, <1>2, <1>3, <2>3
    <3>2. CallLeft(c) = MaxTries + 10 /\ CallLeft(c)' = MaxTries + 9
      BY <3>1 DEF CallLeft, Place
    <3> QED
      BY <2>1, <2>2, <3>2, BoundAssumption
  <2>4. CASE c # <<r, k>>
    <3>1. CallLeft(c)' = CallLeft(c)
      BY <1>1, <1>2, <1>3, <2>4 DEF CallLeft, Place
    <3> QED
      BY <2>1, <2>2, <3>1
  <2> QED
    BY <2>3, <2>4
<1>6. FaultsLeft' <= FaultsLeft
  BY <1>2, LeftIsCounted DEF FaultsLeft, CallsCount
<1> QED
  BY <1>4, <1>5, <1>6 DEF CallsForward

\* The same of a whole evaluation: threads, calls, Jobs and driver have a bounded number of
\* steps between them, for any rollouts, cap, pods and failures, so that it cannot go on
\* for ever (run_inner_loop with evaluate_rollout_with_vlm).
THEOREM EvaluationIsBounded ==
    ASSUME EvaluationCalls
    PROVE  EvaluationSpec =>
             /\ []CallsCount
             /\ [][/\ CallsForward /\ PoolForward
                   /\ CallsProgress \/ PoolProgress]_allVars
<1> DEFINE Onward == CallsForward /\ PoolForward /\ (CallsProgress \/ PoolProgress)
<1>1. EvaluationInit => Bounded
  BY BoundedAtFirst DEF EvaluationInit
<1>2. ASSUME Bounded, EvaluationInv, EvaluationInv', [EvaluationNext]_allVars
      PROVE  Bounded' /\ [Onward]_allVars
  <2>0. Counted /\ Counted' /\ PoolTypeOK /\ CallsCount
    BY <1>2, LeftIsCounted DEF EvaluationInv, PoolInv
  <2>1. ASSUME UNCHANGED vars PROVE Bounded' /\ CallsForward
    <3>1. Bounded'
      BY <1>2, <2>1 DEF Bounded, Attempts, vars
    <3>2. /\ \A c \in Calls : CallLeft(c)' = CallLeft(c) /\ JobLeft(c)' = JobLeft(c)
          /\ FaultsLeft' = FaultsLeft
      BY <2>1 DEF vars, CallLeft, Place, JobLeft, FaultsLeft
    <3> QED
      BY <2>0, <3>1, <3>2 DEF CallsForward, CallsCount
  <2>2. ASSUME UNCHANGED poolVars PROVE PoolForward
    BY <2>2 DEF poolVars, PoolForward, RolloutLeft, ThreadLeft, DriverLeft
  <2>3. CASE Calling
    <3>1. Next /\ UNCHANGED poolVars
      BY <2>3 DEF Calling
    <3> QED
      BY <1>2, <2>0, <2>2, <3>1, CallsAdvance DEF CallsOnward
  <2>4. CASE Threading
    <3>1. PoolNext
      BY <2>4 DEF Threading, Scheduling, Enter, Leave, PoolNext, Work
    <3>2. PoolForward /\ PoolProgress
      BY <2>0, <3>1, PoolAdvances
    <3>3. Bounded' /\ CallsForward
      <4>1. CASE UNCHANGED vars
        BY <2>1, <4>1
      <4>2. ASSUME NEW r \in Rollouts, NEW k \in Components, Enter(r, k)
            PROVE  Bounded' /\ CallsForward
        <5>1. pc[<<r, k>>] = "unused"
          BY <1>2, <4>2 DEF EvaluationInv, Woven, Enter, StartJob
        <5> QED
          BY <1>2, <2>0, <4>2, <5>1, EnterAdvances
      <4> QED
        BY <2>4, <4>1, <4>2 DEF Threading, Scheduling, Leave
    <3> QED
      BY <3>2, <3>3
  <2>5. CASE UNCHANGED allVars
    BY <2>1, <2>5 DEF allVars
  <2> QED
    BY <1>2, <2>3, <2>4, <2>5 DEF EvaluationNext
<1>3. EvaluationInv /\ Bounded => CallsCount
  BY LeftIsCounted DEF EvaluationInv
<1> QED
  BY <1>1, <1>2, <1>3, EvaluationInvariantHolds, PTL DEF EvaluationSpec
=============================================================================
