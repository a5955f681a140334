----------------------------- MODULE StagedLoop -----------------------------
(***************************************************************************)
(* The staged sim-to-real run (workflows/sim2real/runner.py, state.py and  *)
(* the state handling of engine.py): preamble, outer iterations until the  *)
(* threshold gate promotes a checkpoint or the iterations are used up,     *)
(* finalize.  workflow_state.json on the local disk carries a run from one *)
(* process to the next; a copy of it is pushed to S3 for status polling.   *)
(*                                                                         *)
(* The engine and the runner both write that file after an iteration, the  *)
(* runner from a snapshot it loaded before it.  A process can die between  *)
(* any two writes, or inside one, and is then started again.               *)
(***************************************************************************)
EXTENDS Naturals, Sequences

CONSTANTS
    OuterIterations,  \* outer_iterations of the config
    Commands,         \* how a process is started: "run" (run_staged) or "full-loop" (run)
    TornWrites,       \* whether a crash can leave the state file half written
    MaxProcesses,     \* bound: processes started
    MaxCrashes        \* bound: processes that die

ASSUME IterationsAssumption == OuterIterations \in Nat \ {0}   \* checked by the config
ASSUME CommandsAssumption == Commands \subseteq {"run", "full-loop"} /\ TornWrites \in BOOLEAN
ASSUME BoundAssumption == MaxProcesses \in Nat /\ MaxCrashes \in Nat

VARIABLES
    disk,       \* state/workflow_state.json
    s3,         \* its copy in the bucket
    candidate,  \* the iteration that wrote checkpoints/candidate, 0 if none
    report,     \* the history the E2E report was made from
    \* the process
    pc,
    state,      \* the runner's WorkflowState object
    iteration,  \* outer_iteration
    quality,    \* where initial_quality comes from: the iteration that produced it
    decision,   \* what the threshold gate of this iteration decided
    processes, crashes

fileVars == <<disk, s3, candidate, report>>
localVars == <<state, iteration, quality, decision>>
boundVars == <<processes, crashes>>
vars == <<fileVars, pc, localVars, boundVars>>

Promote == "promote_checkpoint"
LoopBack == "loop_back_to_inner_loop"
Decisions == {Promote, LoopBack}

\* A quality is named by the iteration that produced it, 0 for the preamble.
\* loopStages: whether components lists stages 7 to 11.
Entries == [outer_iteration: Nat, decision: Decisions]

States ==
    [status: {"absent", "torn", "preamble_completed", "outer_iteration_completed", "completed"},
     history: Seq(Entries),
     quality: Nat, next: Nat, loopStages: BOOLEAN]

Blank(status) ==
    [status |-> status, history |-> <<>>, quality |-> 0, next |-> 1, loopStages |-> FALSE]

\* final_decision, which is always that of the last iteration recorded.
FinalDecision(s) ==
    IF s.history = <<>> THEN "none" ELSE s.history[Len(s.history)].decision

Entry == [outer_iteration |-> iteration, decision |-> decision]

\* Both writers record an iteration in the same fields.
Recorded(s) ==
    [s EXCEPT !.status = "outer_iteration_completed",
              !.history = Append(s.history, Entry),
              !.quality = iteration,
              !.next = iteration + 1]

\* A write of the state file, followed by sync_workflow_state_to_s3, which
\* may fail without a consequence.
Write(s) ==
    /\ disk' = s
    /\ s3' \in {s3, s}

Init ==
    /\ disk = Blank("absent") /\ s3 = Blank("absent")
    /\ candidate = 0
    /\ report = <<>>
    /\ pc = "down"
    /\ state = Blank("absent")
    /\ iteration = 1 /\ quality = 0 /\ decision = LoopBack
    /\ processes = 0 /\ crashes = 0

\* Fault for mutation runs: a run is resumed at the last iteration recorded.
Resume_LastIteration ==
    /\ disk.status \notin {"absent", "torn"}
    /\ state' = disk
    /\ iteration' = IF disk.next > 1 THEN disk.next - 1 ELSE 1
    /\ pc' = "loop"

\* run_staged finds a state: it goes on at next_outer_iteration.
Resume ==
    /\ disk.status \notin {"absent", "torn"}
    /\ state' = disk
    /\ iteration' = disk.next
    /\ pc' = "loop"

\* run_staged or run is called.  A torn file makes run_staged raise.
Start ==
    /\ pc = "down" /\ processes < MaxProcesses
    /\ processes' = processes + 1
    /\ \/ "run" \in Commands /\ Resume
       \/ /\ "full-loop" \in Commands \/ ("run" \in Commands /\ disk.status = "absent")
          /\ pc' = "preamble"
          /\ UNCHANGED <<state, iteration>>
    /\ UNCHANGED <<fileVars, quality, decision, crashes>>

\* Stages 1-6; the state is written once, at their end.
RunPreamble ==
    /\ pc = "preamble"
    /\ Write(Blank("preamble_completed"))
    /\ state' = Blank("preamble_completed")
    /\ iteration' = 1
    /\ pc' = "loop"
    /\ UNCHANGED <<candidate, report, quality, decision, boundVars>>

\* run_outer_iteration loads the state and starts stages 7-11 from its quality.
BeginIteration ==
    /\ pc = "loop" /\ iteration <= OuterIterations
    /\ state' = disk
    /\ quality' = disk.quality
    /\ pc' = "iterating"
    /\ UNCHANGED <<fileVars, iteration, decision, boundVars>>

\* run_inner_loop, run_heldout_eval and threshold_decision.
Decide(d) ==
    /\ pc = "iterating"
    /\ decision' = d
    /\ candidate' = IF d = Promote THEN iteration ELSE candidate
    /\ pc' = "appending"
    /\ UNCHANGED <<disk, s3, report, state, iteration, quality, boundVars>>

\* _append_outer_iteration_workflow_state merges the iteration, and the
\* records of stages 7-11, into the file.
EngineAppends ==
    /\ pc = "appending"
    /\ Write([Recorded(disk) EXCEPT !.loopStages = TRUE])
    /\ pc' = "saving"
    /\ UNCHANGED <<candidate, report, localVars, boundVars>>

\* Fault for mutation runs: the runner reloads the state before it adds its
\* own entry.
RunnerSaves_Reloading ==
    /\ pc = "saving"
    /\ Write(Recorded(disk))
    /\ state' = Recorded(disk)
    /\ IF decision = Promote
       THEN pc' = "finalizing" /\ UNCHANGED iteration
       ELSE pc' = "loop" /\ iteration' = iteration + 1
    /\ UNCHANGED <<candidate, report, quality, decision, boundVars>>

\* The runner writes its snapshot from before the iteration, with its own
\* entry added; a promotion ends the loop.
RunnerSaves ==
    /\ pc = "saving"
    /\ Write(Recorded(state))
    /\ state' = Recorded(state)
    /\ IF decision = Promote
       THEN pc' = "finalizing" /\ UNCHANGED iteration
       ELSE pc' = "loop" /\ iteration' = iteration + 1
    /\ UNCHANGED <<candidate, report, quality, decision, boundVars>>

\* Fault for mutation runs: off by one.
EndLoop_OffByOne ==
    /\ pc = "loop" /\ iteration > OuterIterations + 1
    /\ pc' = IF state.status = "completed" THEN "reporting" ELSE "finalizing"
    /\ UNCHANGED <<fileVars, localVars, boundVars>>

\* A run that was completed, and has no iteration left, only makes the
\* report again.
EndLoop ==
    /\ pc = "loop" /\ iteration > OuterIterations
    /\ pc' = IF state.status = "completed" THEN "reporting" ELSE "finalizing"
    /\ UNCHANGED <<fileVars, localVars, boundVars>>

\* Fault for mutation runs: the state is marked completed before the report.
BeginFinalize_MarkingFirst ==
    /\ pc = "finalizing"
    /\ state' = disk
    /\ Write([disk EXCEPT !.status = "completed"])
    /\ pc' = IF disk.history = <<>> THEN "down" ELSE "reporting"
    /\ UNCHANGED <<candidate, report, iteration, quality, decision, boundVars>>

\* run_finalize of the runner: it needs a completed outer iteration.
BeginFinalize ==
    /\ pc = "finalizing"
    /\ state' = disk
    /\ pc' = IF disk.history = <<>> THEN "down" ELSE "reporting"
    /\ UNCHANGED <<fileVars, iteration, quality, decision, boundVars>>

\* run_finalize of the engine: stages 12-14, the report and its upload.
WriteReport ==
    /\ pc = "reporting"
    /\ report' = state.history
    /\ pc' = IF state.status = "completed" THEN "down" ELSE "completing"
    /\ UNCHANGED <<disk, s3, candidate, localVars, boundVars>>

\* The state is saved as completed, read back, written and pushed again.
SaveCompleted ==
    /\ pc = "completing"
    /\ Write([state EXCEPT !.status = "completed"])
    /\ pc' = "down"
    /\ UNCHANGED <<candidate, report, localVars, boundVars>>

\* The process is killed, or a stage raises.  write_text truncates the file
\* before it fills it.
Crash ==
    /\ pc # "down" /\ crashes < MaxCrashes
    /\ crashes' = crashes + 1
    /\ pc' = "down"
    /\ \/ UNCHANGED disk
       \/ /\ TornWrites
          /\ pc \in {"preamble", "appending", "saving", "completing"}
          /\ disk' = Blank("torn")
    /\ UNCHANGED <<s3, candidate, report, localVars, processes>>

Process ==
    \/ RunPreamble \/ BeginIteration \/ EngineAppends \/ RunnerSaves \/ EndLoop
    \/ BeginFinalize \/ WriteReport \/ SaveCompleted
    \/ \E d \in Decisions : Decide(d)

Next == Start \/ Process \/ Crash

Spec == Init /\ [][Next]_vars

\* A process keeps running, and an operator starts it again after a crash.
FairSpec == Spec /\ WF_vars(Process) /\ WF_vars(Start)

-----------------------------------------------------------------------------
TypeOK ==
    /\ disk \in States /\ s3 \in States /\ state \in States
    /\ candidate \in Nat
    /\ report \in Seq(Entries)
    /\ pc \in {"down", "preamble", "loop", "iterating", "appending", "saving",
               "finalizing", "reporting", "completing"}
    /\ iteration \in Nat /\ quality \in Nat
    /\ decision \in Decisions
    /\ processes \in Nat /\ crashes \in Nat

\* The history of a state has one entry per iteration, in order, although two
\* writers record each iteration and any of the writes may be the last one
\* of a process; the next iteration and its quality are those that follow.
InOrder(s) ==
    /\ Len(s.history) + 1 = s.next
    /\ \A i \in 1..Len(s.history) : s.history[i].outer_iteration = i
    /\ s.quality = Len(s.history)

HistoryInOrder == InOrder(disk) /\ InOrder(s3)

\* Each iteration starts from the quality the one before it produced.
QualityIsChained == pc \in {"iterating", "appending", "saving"} => quality = iteration - 1

\* A run is marked completed only with a report made from its whole history.
ReportIsCurrent == disk.status = "completed" => report = disk.history

\* The inductive invariant: where the process is in an iteration, the file
\* and its snapshot are that many entries long, and at the second write the
\* file is the snapshot with the entry already added.
IInv ==
    /\ TypeOK
    /\ InOrder(disk) /\ InOrder(s3) /\ InOrder(state)
    /\ disk.status \in {"absent", "torn", "preamble_completed"} => disk.history = <<>>
    /\ disk.status = "completed" => report = disk.history /\ disk.history # <<>>
    /\ pc = "preamble" => disk.status = "absent" \/ "full-loop" \in Commands
    /\ pc = "loop" => state = disk /\ iteration = disk.next
    /\ pc \in {"loop", "iterating", "appending"} => disk.status \notin {"absent", "torn"}
    /\ pc \in {"iterating", "appending"} =>
         state = disk /\ iteration = disk.next /\ quality = disk.quality
    /\ pc = "saving" =>
         /\ disk = [Recorded(state) EXCEPT !.loopStages = TRUE]
         /\ iteration = state.next /\ quality = state.quality
    /\ pc \in {"reporting", "completing"} =>
         state = disk /\ state.history # <<>>
    /\ pc = "completing" => report = state.history

Outer == INSTANCE OuterLoop WITH
    record <- disk.history, finished <- disk.status = "completed",
    restarting <- disk.status = "torn" \/ pc = "preamble"

\* What is recorded is never rewritten: every write of the file adds one
\* decision, marks the run finished, or leaves the record alone; only a torn
\* write and the preamble of a full loop drop it.
RecordIsKept == Outer!Spec

\* A run that is started again after each crash is completed, unless a crash
\* left its state file unreadable.
RunCompletes == <>(disk.status \in {"completed", "torn"})
=============================================================================
