------------------------------ MODULE VlmPool ------------------------------
(***************************************************************************)
(* Evaluation of the rollouts of one inner iteration (run_inner_loop and   *)
(* evaluate_rollout_with_vlm in workflows/sim2real/engine.py).  With       *)
(* sibling Jobs and several rollouts a thread pool works through them;     *)
(* each evaluation starts one GPU Job, or two at once in dual-reason mode, *)
(* and the driver collects the results as they complete.  Otherwise the    *)
(* driver evaluates one rollout after the other itself.                    *)
(***************************************************************************)
EXTENDS Naturals, FiniteSets

CONSTANTS
    RolloutCount,  \* rollouts of the iteration
    MaxGpus,       \* k8s_max_parallel_gpus
    Components     \* the Jobs of one evaluation: Reason2 and Reason3, or one model

ASSUME CountAssumption == RolloutCount \in Nat \ {0}
ASSUME CapAssumption == MaxGpus \in Nat \ {0}   \* checked by the config
ASSUME ComponentsAssumption == IsFiniteSet(Components) /\ Cardinality(Components) \in {1, 2}

VARIABLES
    kubernetes, \* vlm_k8s_parallel: sibling Jobs, not a command or a local reference
    state,      \* per rollout: queued, running, or its future's result
    job,        \* per rollout and component: idle, running, ok, failed
    collected,  \* rollouts whose result as_completed has yielded
    outcome     \* of the driver thread

poolVars == <<kubernetes, state, job, collected, outcome>>

Rollouts == 1..RolloutCount
JobsPerRollout == Cardinality(Components)

Pool == kubernetes /\ RolloutCount > 1

Smaller(a, b) == IF a <= b THEN a ELSE b
Larger(a, b) == IF a <= b THEN b ELSE a

MaxWorkers == Smaller(RolloutCount, Larger(1, MaxGpus \div JobsPerRollout))

Threads == IF Pool THEN MaxWorkers ELSE 1

Busy == {r \in Rollouts : state[r] = "running"}
GpuJobs == {rk \in Rollouts \X Components : job[rk[1]][rk[2]] = "running"}

PoolInit ==
    /\ kubernetes \in BOOLEAN
    /\ state = [r \in Rollouts |-> "queued"]
    /\ job = [r \in Rollouts |-> [k \in Components |-> "idle"]]
    /\ collected = {}
    /\ outcome = "collecting"

\* A free worker takes the rollout submitted first; without a pool the driver goes on to
\* it when the one before has its signal.
StartRollout(r) ==
    /\ state[r] = "queued"
    /\ \A q \in 1..(r - 1) : state[q] # "queued"
    /\ Cardinality(Busy) < Threads
    /\ Pool \/ (outcome = "collecting" /\ 1..(r - 1) \subseteq collected)
    /\ state' = [state EXCEPT ![r] = "running"]
    /\ UNCHANGED <<kubernetes, job, collected, outcome>>

\* Fault for mutation runs: the two calls are submitted to the pool of the
\* rollouts itself.
StartJob_SamePool(r, k) ==
    /\ kubernetes /\ state[r] = "running"
    /\ job[r][k] = "idle"
    /\ Cardinality(Busy) + Cardinality(GpuJobs) < MaxWorkers
    /\ job' = [job EXCEPT ![r][k] = "running"]
    /\ UNCHANGED <<kubernetes, state, collected, outcome>>

\* One of the (one or two) threads of the evaluation applies its Job.
StartJob(r, k) ==
    /\ kubernetes /\ state[r] = "running"
    /\ job[r][k] = "idle"
    /\ job' = [job EXCEPT ![r][k] = "running"]
    /\ UNCHANGED <<kubernetes, state, collected, outcome>>

\* The component call returned or raised.
EndJob(r, k) ==
    /\ job[r][k] = "running"
    /\ \E res \in {"ok", "failed"} : job' = [job EXCEPT ![r][k] = res]
    /\ UNCHANGED <<kubernetes, state, collected, outcome>>

\* The inner pool has joined both threads; a failed one makes result() raise.
FinishRollout(r) ==
    /\ kubernetes /\ state[r] = "running"
    /\ \A k \in Components : job[r][k] \in {"ok", "failed"}
    /\ state' = [state EXCEPT ![r] =
                    IF \A k \in Components : job[r][k] = "ok" THEN "ok" ELSE "failed"]
    /\ UNCHANGED <<kubernetes, job, collected, outcome>>

\* The command of byo_vlm_command, or the local reference.
EvaluateHere(r) ==
    /\ ~kubernetes /\ state[r] = "running"
    /\ \E res \in {"ok", "failed"} : state' = [state EXCEPT ![r] = res]
    /\ UNCHANGED <<kubernetes, job, collected, outcome>>

\* as_completed yields a future and result() returns, or raises out of the loop into the
\* exit of the pool's with block.  Without a pool the evaluation returned or raised right
\* here, and so did its conversion to a signal.
Collect(r) ==
    /\ outcome = "collecting"
    /\ state[r] \in {"ok", "failed"} /\ r \notin collected
    /\ collected' = collected \cup {r}
    /\ \/ state[r] = "ok" /\ outcome' = "collecting"
       \/ (state[r] = "failed" \/ ~Pool) /\ outcome' = "draining"
    /\ UNCHANGED <<kubernetes, state, job>>

\* All results are in.  Those of a pool are turned into training signals only now.
Return ==
    /\ outcome = "collecting"
    /\ collected = Rollouts
    /\ outcome' \in IF Pool THEN {"returned", "raised"} ELSE {"returned"}
    /\ UNCHANGED <<kubernetes, state, job, collected>>

\* Fault for mutation runs: the exception leaves the pool at once.
Raise_AtOnce ==
    /\ outcome = "draining"
    /\ outcome' = "raised"
    /\ UNCHANGED <<kubernetes, state, job, collected>>

\* shutdown(wait=True) cancels nothing: rollouts still queued are evaluated
\* too before the exception goes on.
Raise ==
    /\ outcome = "draining"
    /\ Pool => \A r \in Rollouts : state[r] \in {"ok", "failed"}
    /\ outcome' = "raised"
    /\ UNCHANGED <<kubernetes, state, job, collected>>

Work(r) ==
    \/ StartRollout(r) \/ FinishRollout(r) \/ EvaluateHere(r)
    \/ \E k \in Components : StartJob(r, k) \/ EndJob(r, k)

PoolNext == (\E r \in Rollouts : Work(r) \/ Collect(r)) \/ Return \/ Raise

PoolSpec == PoolInit /\ [][PoolNext]_poolVars

-----------------------------------------------------------------------------
PoolTypeOK ==
    /\ kubernetes \in BOOLEAN
    /\ state \in [Rollouts -> {"queued", "running", "ok", "failed"}]
    /\ job \in [Rollouts -> [Components -> {"idle", "running", "ok", "failed"}]]
    /\ collected \subseteq Rollouts
    /\ outcome \in {"collecting", "draining", "returned", "raised"}

\* Never more GPU Jobs than the cap, or than one evaluation needs if that is
\* more (a cap of one does not stop a dual-reason evaluation from using two).
GpuBound == Cardinality(GpuJobs) <= Larger(MaxGpus, JobsPerRollout)

\* The inner loop goes on to the trainer only with every rollout evaluated, and once it
\* has ended, normally or by an exception, nothing evaluates any more or is left for a
\* thread of the pool to take.
EndsClean ==
    /\ outcome = "returned" => \A r \in Rollouts : state[r] = "ok"
    /\ outcome \in {"returned", "raised"} =>
         /\ Busy = {} /\ GpuJobs = {}
         /\ Pool => \A r \in Rollouts : state[r] # "queued"

\* The evaluation of the rollouts always ends.
PoolEnds == <>(outcome \in {"returned", "raised"})
=============================================================================
