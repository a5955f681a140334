----------------------------- MODULE Evaluation -----------------------------
(***************************************************************************)
(* The evaluation of an inner iteration with the sibling Jobs it makes:    *)
(* each thread that VlmPool gives to a rollout and a model is a component  *)
(* call of SiblingJob (_evaluate_reason_rollout_k8s calls                  *)
(* _run_image_component), and ends as that call ends.                      *)
(***************************************************************************)
EXTENDS SiblingJob, VlmPool

\* One call per rollout and model, none of them made when the iteration begins; its Job is
\* not an indexed one, and its output URI names the attempt.
EvaluationCalls ==
    /\ Calls = Rollouts \X Components
    /\ Stages = {{}}
    /\ FixedUri = {} /\ IndexedCalls = {}

allVars == <<vars, poolVars>>

EvaluationInit == Init /\ PoolInit

\* A thread begins the call of its rollout and model.
Enter(r, k) ==
    /\ StartJob(r, k)
    /\ pc' = [pc EXCEPT ![<<r, k>>] = "applying"]
    /\ UNCHANGED <<jobVars, podVars, verdict, tries, result, historyVars>>

\* Fault for mutation runs: a call that raised is made once more, as the same attempt.
Leave_Again(r, k) ==
    /\ kubernetes /\ job[r][k] = "running" /\ Ended(<<r, k>>)
    /\ \/ /\ pc[<<r, k>>] = "returned"
          /\ job' = [job EXCEPT ![r][k] = "ok"]
          /\ UNCHANGED vars
       \/ /\ pc[<<r, k>>] = "raised"
          /\ pc' = [pc EXCEPT ![<<r, k>>] = "applying"]
          /\ UNCHANGED <<jobVars, podVars, verdict, tries, result, historyVars, job>>
    /\ UNCHANGED <<kubernetes, state, collected, outcome>>

\* The thread ends when the call has returned or raised; what a call returned may still
\* turn out not to be a judgment.
Leave(r, k) ==
    /\ EndJob(r, k)
    /\ Ended(<<r, k>>)
    /\ job'[r][k] = "ok" => pc[<<r, k>>] = "returned"
    /\ UNCHANGED vars

\* The threads of the pool and the driver that collects.
Scheduling ==
    /\ \/ \E r \in Rollouts :
            StartRollout(r) \/ FinishRollout(r) \/ EvaluateHere(r) \/ Collect(r)
       \/ Return \/ Raise
    /\ UNCHANGED vars

Threading == Scheduling \/ \E r \in Rollouts, k \in Components : Enter(r, k) \/ Leave(r, k)

Calling == Next /\ UNCHANGED poolVars

EvaluationNext == Threading \/ Calling

EvaluationSpec == EvaluationInit /\ [][EvaluationNext]_allVars

\* The threads run; the calls and the Job controller are as fair as in SiblingJob.
FairEvaluationSpec ==
    /\ EvaluationSpec
    /\ WF_allVars(Threading)
    /\ \A c \in Calls : /\ WF_allVars(Driver(c) /\ UNCHANGED poolVars)
                        /\ WF_allVars(Controller(c) /\ UNCHANGED poolVars)

-----------------------------------------------------------------------------
\* The calls as SiblingJob has them: there a call that nobody has begun is about to apply.
Begun == [c \in Calls |-> IF pc[c] = "unused" THEN "applying" ELSE pc[c]]

Jobs == INSTANCE SiblingJob WITH pc <- Begun, Stages <- {Calls}

\* Whatever order the threads begin and end their calls in, they are calls of SiblingJob.
CallsAreSiblingJobs == Jobs!Spec

\* k8s_max_parallel_gpus holds in the cluster: never more Jobs of this iteration exist than
\* the cap, or than one evaluation needs, beside those that a failed kubectl call left.
JobsWithinCap ==
    Cardinality({c \in Calls : present[c] /\ ~trouble[c]}) <= Larger(MaxGpus, JobsPerRollout)

\* The loop goes on only with judgments that the Jobs of their own rollout and model wrote
\* and that a complete Job backs, and when it has ended none of its Jobs is left, beside
\* those that a failed kubectl call left.
JudgmentsAreOwn ==
    /\ outcome = "returned" /\ kubernetes =>
         \A c \in Calls : result[c] = c /\ wrote[c] /\ verdict[c] = "complete"
    /\ outcome \in {"returned", "raised"} => \A c \in Calls : present[c] => trouble[c]
=============================================================================
