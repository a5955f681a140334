------------------------------ MODULE DurableRun ------------------------------
(***************************************************************************)
(* A SkyPilot workflow submitted with --durable-s3                         *)
(* (orchestration/skypilot/workflow_state.py, workflow.py and the workflow *)
(* commands of cli/workbench/workflow/__init__.py).                        *)
(*                                                                         *)
(* The run prefix in the bucket holds a manifest and one status file per   *)
(* stage.  The submit command writes the manifest before and after it      *)
(* launches the managed job; the pods of the stages overwrite it, and      *)
(* write their status files, from a prelude and an EXIT trap around the    *)
(* stage's script; `status --watch` reads all of it object by object and   *)
(* asks the job queue besides; `cancel` takes the job id from the manifest.*)
(*                                                                         *)
(* Nothing locks the prefix: a workflow submitted again under the same run *)
(* id (the default is the name of its YAML) shares it with the job before. *)
(***************************************************************************)
EXTENDS Naturals, FiniteSets

CONSTANTS
    Stages,      \* the stages of the workflow
    Waits,       \* per stage: the stages it runs after (execution: serial)
    MaxSubmits,  \* bound: submissions under the run prefix
    MaxFaults    \* bound: lost pods, lost writes, failed calls

ASSUME StagesAssumption == Stages # {}
ASSUME WaitsAssumption == Waits \in [Stages -> SUBSET Stages]
ASSUME BoundAssumption == MaxSubmits \in Nat /\ MaxFaults \in Nat

NoJob == 0                  \* the empty sky_job_id
Jobs == 1..MaxSubmits       \* a submission's managed job, if it got one
StatusStates == {"none", "RUNNING", "SUCCEEDED", "FAILED"}
QueueStates == {"none", "PENDING", "RUNNING", "RECOVERING", "SUCCEEDED", "FAILED", "CANCELLED"}
EndedStates == {"SUCCEEDED", "FAILED", "CANCELLED"}

VARIABLES
    manifest,  \* sky_job_id of manifest.json
    status,    \* per stage: state of logs/<stage>/status.json
    \* the submit command
    cli, submits, parsed,
    \* SkyPilot
    queue,     \* per job and stage: its row in sky jobs queue
    podKnows,  \* whether SKYPILOT_MANAGED_JOB_ID is set in the pods
    \* the instrumented scripts, per job and stage
    pod,       \* where the script is
    existing,  \* the sky_job_id it read
    outcome,   \* how its stage ended
    \* status --watch
    watch, since, watched, unread, seen, answer,
    cancelling,  \* the job id the cancel command read
    \* history and bounds
    earned,    \* <<job, stage>>: the stage's own script exited with 0
    hurt,      \* <<job, stage>>: its script failed or was killed, or the job cancelled
    faults

s3Vars == <<manifest, status>>
cliVars == <<cli, submits, parsed>>
podVars == <<pod, existing, outcome>>
watchVars == <<watch, since, watched, unread, seen, answer>>
userVars == <<watchVars, cancelling>>
historyVars == <<earned, hurt>>
vars == <<s3Vars, cliVars, queue, podKnows, podVars, userVars, historyVars, faults>>

Init ==
    /\ manifest = NoJob
    /\ status = [s \in Stages |-> "none"]
    /\ cli = "idle" /\ submits = 0 /\ parsed = NoJob
    /\ queue = [j \in Jobs |-> [s \in Stages |-> "none"]]
    /\ podKnows \in BOOLEAN
    /\ pod = [j \in Jobs |-> [s \in Stages |-> "none"]]
    /\ existing = [j \in Jobs |-> [s \in Stages |-> NoJob]]
    /\ outcome = [j \in Jobs |-> [s \in Stages |-> "none"]]
    /\ watch = "idle" /\ since = NoJob /\ watched = NoJob
    /\ unread = {} /\ seen = [s \in Stages |-> "none"] /\ answer = "none"
    /\ cancelling = NoJob
    /\ earned = {} /\ hurt = {}
    /\ faults = 0

Fault == faults < MaxFaults /\ faults' = faults + 1

(***************************************************************************)
(* submit_cmd and submit_workflow.                                         *)
(***************************************************************************)

\* The manifest is written without a job id; status files of an earlier
\* submission stay.
Submit ==
    /\ cli = "idle" /\ submits < MaxSubmits
    /\ submits' = submits + 1
    /\ manifest' = NoJob
    /\ cli' = "launching"
    /\ UNCHANGED <<status, parsed, queue, podKnows, podVars, userVars, historyVars, faults>>

Queued == queue' = [queue EXCEPT ![submits] = [s \in Stages |-> "PENDING"]]

\* sky jobs launch returns 0 and prints the job's id.
Launched ==
    /\ cli = "launching"
    /\ Queued
    /\ parsed' = submits
    /\ cli' = "recording"
    /\ UNCHANGED <<s3Vars, submits, podKnows, podVars, userVars, historyVars, faults>>

\* Its output has no id that _parse_job_id knows.
LaunchedUnparsed ==
    /\ Fault
    /\ cli = "launching"
    /\ Queued
    /\ parsed' = NoJob
    /\ cli' = "recording"
    /\ UNCHANGED <<s3Vars, submits, podKnows, podVars, userVars, historyVars>>

\* The launch fails, or times out when the job may have been accepted.
LaunchFails ==
    /\ Fault
    /\ cli = "launching"
    /\ Queued \/ UNCHANGED queue
    /\ cli' = "idle"
    /\ UNCHANGED <<s3Vars, submits, parsed, podKnows, podVars, userVars, historyVars>>

\* The second write_manifest puts the instrumented manifest over whatever the
\* pods have written.
RecordJob ==
    /\ cli = "recording"
    /\ manifest' = parsed
    /\ cli' = "idle"
    /\ UNCHANGED <<status, submits, parsed, queue, podKnows, podVars, userVars, historyVars, faults>>

\* The put raises, or the process dies before it.
RecordFails ==
    /\ Fault
    /\ cli = "recording"
    /\ cli' = "idle"
    /\ UNCHANGED <<s3Vars, submits, parsed, queue, podKnows, podVars, userVars, historyVars>>

(***************************************************************************)
(* The instrumented run script of a stage, and the SkyPilot that runs it.  *)
(***************************************************************************)

SetPod(j, s, phase) == pod' = [pod EXCEPT ![j][s] = phase]
SetQueue(j, s, state) == queue' = [queue EXCEPT ![j][s] = state]

\* A stage is started when those before it have succeeded, and started again
\* when its pod was lost.
StageStarts(j, s) ==
    /\ queue[j][s] \in {"PENDING", "RECOVERING"}
    /\ \A t \in Waits[s] : queue[j][t] = "SUCCEEDED"
    /\ SetQueue(j, s, "RUNNING")
    /\ SetPod(j, s, "reading")
    /\ UNCHANGED <<s3Vars, cliVars, podKnows, existing, outcome, userVars, historyVars, faults>>

\* npa_workflow_write_manifest reads the manifest that is there; one that cannot
\* be parsed counts as empty...
ReadManifest(j, s) ==
    /\ pod[j][s] = "reading"
    /\ \/ existing' = [existing EXCEPT ![j][s] = manifest] /\ UNCHANGED faults
       \/ existing' = [existing EXCEPT ![j][s] = NoJob] /\ Fault
    /\ SetPod(j, s, "writing")
    /\ UNCHANGED <<s3Vars, cliVars, queue, podKnows, outcome, userVars, historyVars>>

\* Fault for mutation runs: the manifest that was read is not asked.
OwnJobId_WithoutExisting(j, s) == IF podKnows THEN j ELSE NoJob

\* The environment names the job, or else the manifest that was read.
OwnJobId(j, s) == IF podKnows THEN j ELSE existing[j][s]

\* ... and writes the submission's manifest, with the job id, over it.
WriteManifest(j, s) ==
    /\ pod[j][s] = "writing"
    /\ manifest' = OwnJobId(j, s)
    /\ SetPod(j, s, "starting")
    /\ UNCHANGED <<status, cliVars, queue, podKnows, existing, outcome, userVars, historyVars, faults>>

\* npa_workflow_write_status RUNNING; then the EXIT trap is set.
WriteRunning(j, s) ==
    /\ pod[j][s] = "starting"
    /\ status' = [status EXCEPT ![s] = "RUNNING"]
    /\ SetPod(j, s, "running")
    /\ UNCHANGED <<manifest, cliVars, queue, podKnows, existing, outcome, userVars, historyVars, faults>>

\* Fault for mutation runs: the trap is set after the script, too late.
ScriptExits_NoTrap(j, s, result) ==
    /\ pod[j][s] = "running"
    /\ outcome' = [outcome EXCEPT ![j][s] = result]
    /\ IF result = "SUCCEEDED"
       THEN earned' = earned \cup {<<j, s>>} /\ UNCHANGED hurt
       ELSE hurt' = hurt \cup {<<j, s>>} /\ UNCHANGED earned
    /\ SetPod(j, s, "exited")
    /\ UNCHANGED <<s3Vars, cliVars, queue, podKnows, existing, userVars, faults>>

\* The stage's own script exits.
ScriptExits(j, s, result) ==
    /\ pod[j][s] = "running"
    /\ outcome' = [outcome EXCEPT ![j][s] = result]
    /\ IF result = "SUCCEEDED"
       THEN earned' = earned \cup {<<j, s>>} /\ UNCHANGED hurt
       ELSE hurt' = hurt \cup {<<j, s>>} /\ UNCHANGED earned
    /\ SetPod(j, s, "ending")
    /\ UNCHANGED <<s3Vars, cliVars, queue, podKnows, existing, userVars, faults>>

\* npa_workflow_finalize, from the trap.
WriteFinal(j, s) ==
    /\ pod[j][s] = "ending"
    /\ status' = [status EXCEPT ![s] = outcome[j][s]]
    /\ SetPod(j, s, "exited")
    /\ UNCHANGED <<manifest, cliVars, queue, podKnows, existing, outcome, userVars, historyVars, faults>>

\* Under set +e a failed write is not noticed.
FinalLost(j, s) ==
    /\ Fault
    /\ pod[j][s] = "ending"
    /\ SetPod(j, s, "exited")
    /\ UNCHANGED <<s3Vars, cliVars, queue, podKnows, existing, outcome, userVars, historyVars>>

\* Under set -e a failed write of the prelude ends the stage, before the trap.
PreludeFails(j, s) ==
    /\ Fault
    /\ pod[j][s] \in {"reading", "writing", "starting"}
    /\ outcome' = [outcome EXCEPT ![j][s] = "FAILED"]
    /\ hurt' = hurt \cup {<<j, s>>}
    /\ SetPod(j, s, "exited")
    /\ UNCHANGED <<s3Vars, cliVars, queue, podKnows, existing, userVars, earned>>

\* The controller sees the exit; a failure cancels the stages not yet started.
StageEnds(j, s) ==
    /\ pod[j][s] = "exited"
    /\ queue' = [queue EXCEPT ![j] =
                    [t \in Stages |->
                        IF t = s THEN outcome[j][s]
                        ELSE IF outcome[j][s] = "FAILED" /\ @[t] = "PENDING" THEN "CANCELLED"
                        ELSE @[t]]]
    /\ SetPod(j, s, "none")
    /\ UNCHANGED <<s3Vars, cliVars, podKnows, existing, outcome, userVars, historyVars, faults>>

\* A signal runs the trap of a running script; a lost node does not.
TrapMayRun(killed) ==
    \/ UNCHANGED status
    \/ \E s \in killed : status' = [status EXCEPT ![s] = "FAILED"]

\* The pod is preempted or lost: the stage will be run again.
PodLost(j, s) ==
    /\ Fault
    /\ pod[j][s] # "none"
    /\ SetQueue(j, s, "RECOVERING")
    /\ SetPod(j, s, "none")
    /\ TrapMayRun({t \in {s} : pod[j][t] = "running"})
    /\ hurt' = hurt \cup {<<j, s>>}
    /\ UNCHANGED <<manifest, cliVars, podKnows, existing, outcome, userVars, earned>>

\* cancel_cmd reads the manifest, and gives up when it names no job...
ReadJobToCancel ==
    /\ Fault
    /\ manifest # NoJob
    /\ cancelling' = manifest
    /\ UNCHANGED <<s3Vars, cliVars, queue, podKnows, podVars, watchVars, historyVars>>

\* ... and cancels the job that it read: its pods are killed.
Cancel(j) ==
    /\ cancelling = j
    /\ cancelling' = NoJob
    /\ LET open == {s \in Stages : queue[j][s] \notin EndedStates}
       IN /\ queue' = [queue EXCEPT ![j] =
                          [s \in Stages |-> IF s \in open THEN "CANCELLED" ELSE @[s]]]
          /\ pod' = [pod EXCEPT ![j] = [s \in Stages |-> "none"]]
          /\ TrapMayRun({s \in open : pod[j][s] = "running"})
          /\ hurt' = hurt \cup {<<j, s>> : s \in open}
    /\ UNCHANGED <<manifest, cliVars, podKnows, existing, outcome, watchVars, earned, faults>>

(***************************************************************************)
(* status --watch: _durable_workflow_status, again and again.              *)
(***************************************************************************)

\* _status_from_queue_payload over the rows of job j (of FAILED and CANCELLED the
\* code takes the row listed first; both end the watch).
QueueStatus(j) ==
    LET rows == {queue[j][s] : s \in Stages}
        Picked(states) == rows \cap states # {}
    IN  IF j = NoJob THEN "none"
        ELSE IF Picked({"none"}) THEN "UNKNOWN"
        ELSE IF Picked({"FAILED"}) THEN "FAILED"
        ELSE IF Picked({"CANCELLED"}) THEN "CANCELLED"
        ELSE IF rows = {"SUCCEEDED"} THEN "SUCCEEDED"
        ELSE IF Picked({"RUNNING"}) THEN "RUNNING"
        ELSE IF Picked({"RECOVERING"}) THEN "RECOVERING"
        ELSE "PENDING"

\* Faults for mutation runs: stages without a status are passed over; a
\* workflow none of whose stages runs has failed; the queue is not asked.
Aggregate_PassingOver(states, live) ==
    IF "FAILED" \in states THEN "FAILED"
    ELSE IF states \ {"none"} = {"SUCCEEDED"} THEN "SUCCEEDED"
    ELSE IF live # "none" THEN live
    ELSE IF "RUNNING" \in states THEN "RUNNING" ELSE "UNKNOWN"
Aggregate_RunningOrFailed(states, live) ==
    IF "FAILED" \in states THEN "FAILED"
    ELSE IF states = {"SUCCEEDED"} THEN "SUCCEEDED"
    ELSE IF live # "none" THEN live
    ELSE IF "RUNNING" \in states THEN "RUNNING" ELSE "FAILED"
Aggregate_WithoutQueue(states, live) ==
    IF "FAILED" \in states THEN "FAILED"
    ELSE IF states = {"SUCCEEDED"} THEN "SUCCEEDED"
    ELSE IF "RUNNING" \in states THEN "RUNNING" ELSE "UNKNOWN"

\* _aggregate_stage_status.
Aggregate(states, live) ==
    IF "FAILED" \in states THEN "FAILED"
    ELSE IF states = {"SUCCEEDED"} THEN "SUCCEEDED"
    ELSE IF live # "none" THEN live
    ELSE IF "RUNNING" \in states THEN "RUNNING" ELSE "UNKNOWN"

StartWatch ==
    /\ watch = "idle" /\ submits > 0
    /\ watch' = "manifest" /\ since' = submits
    /\ UNCHANGED <<s3Vars, cliVars, queue, podKnows, podVars, watched, unread, seen, answer, cancelling, historyVars, faults>>

FetchManifest ==
    /\ watch = "manifest"
    /\ watched' = manifest
    /\ unread' = Stages
    /\ watch' = "stages"
    /\ UNCHANGED <<s3Vars, cliVars, queue, podKnows, podVars, since, seen, answer, cancelling, historyVars, faults>>

\* read_stage_status: the files are fetched one by one, and one that cannot be
\* fetched counts as not there.
FetchStatus(s) ==
    /\ watch = "stages" /\ s \in unread
    /\ unread' = unread \ {s}
    /\ \/ seen' = [seen EXCEPT ![s] = status[s]] /\ UNCHANGED faults
       \/ seen' = [seen EXCEPT ![s] = "none"] /\ Fault
    /\ UNCHANGED <<s3Vars, cliVars, queue, podKnows, podVars, watch, since, watched, answer, cancelling, historyVars>>

\* The queue is asked, if the manifest names a job; a failure counts as no
\* answer.  A terminal status ends the watch.
Report ==
    /\ watch = "stages" /\ unread = {}
    /\ \E live \in {QueueStatus(watched), "none"} :
         /\ answer' = Aggregate({seen[s] : s \in Stages}, live)
         /\ IF live = QueueStatus(watched) THEN UNCHANGED faults ELSE Fault
    /\ watch' = IF answer' \in EndedStates THEN "returned" ELSE "manifest"
    /\ watched' = NoJob /\ seen' = [s \in Stages |-> "none"]
    /\ UNCHANGED <<s3Vars, cliVars, queue, podKnows, podVars, since, unread, cancelling, historyVars>>

\* Fetching the manifest raises, or a status file is not JSON.
WatchFails ==
    /\ Fault
    /\ watch = "manifest" \/ (watch = "stages" /\ unread # {})
    /\ watch' = "failed"
    /\ UNCHANGED <<s3Vars, cliVars, queue, podKnows, podVars, since, watched, unread, seen, answer, cancelling, historyVars>>

-----------------------------------------------------------------------------
Cli == Submit \/ Launched \/ RecordJob
CliFailure == LaunchedUnparsed \/ LaunchFails \/ RecordFails

Script(j, s) ==
    \/ ReadManifest(j, s) \/ WriteManifest(j, s) \/ WriteRunning(j, s)
    \/ \E result \in {"SUCCEEDED", "FAILED"} : ScriptExits(j, s, result)
    \/ WriteFinal(j, s)
Stage(j, s) == StageStarts(j, s) \/ Script(j, s) \/ StageEnds(j, s)
StageFailure(j, s) == FinalLost(j, s) \/ PreludeFails(j, s) \/ PodLost(j, s)

Watch == StartWatch \/ FetchManifest \/ (\E s \in Stages : FetchStatus(s)) \/ Report

Next ==
    \/ Cli \/ CliFailure
    \/ ReadJobToCancel
    \/ \E j \in Jobs : Cancel(j) \/ \E s \in Stages : Stage(j, s) \/ StageFailure(j, s)
    \/ Watch \/ WatchFails

Spec == Init /\ [][Next]_vars

\* Only the watch needs fairness: it polls in a loop until it returns.
FairSpec == Spec /\ WF_vars(Watch)

-----------------------------------------------------------------------------
TypeOK ==
    /\ manifest \in Jobs \cup {NoJob}
    /\ status \in [Stages -> StatusStates]
    /\ cli \in {"idle", "launching", "recording"}
    /\ submits \in 0..MaxSubmits
    /\ cli # "idle" => submits \in Jobs
    /\ parsed \in Jobs \cup {NoJob}
    /\ queue \in [Jobs -> [Stages -> QueueStates]]
    /\ podKnows \in BOOLEAN
    /\ pod \in [Jobs -> [Stages -> {"none", "reading", "writing", "starting",
                                    "running", "ending", "exited"}]]
    /\ existing \in [Jobs -> [Stages -> Jobs \cup {NoJob}]]
    /\ outcome \in [Jobs -> [Stages -> {"none", "SUCCEEDED", "FAILED"}]]
    /\ watch \in {"idle", "manifest", "stages", "returned", "failed"}
    /\ since \in 0..MaxSubmits
    /\ watched \in Jobs \cup {NoJob}
    /\ unread \subseteq Stages
    /\ seen \in [Stages -> StatusStates]
    /\ answer \in QueueStates \cup {"UNKNOWN"}
    /\ cancelling \in Jobs \cup {NoJob}
    /\ earned \subseteq Jobs \X Stages /\ hurt \subseteq Jobs \X Stages
    /\ faults \in 0..MaxFaults

EverEarned(s) == \E j \in Jobs : <<j, s>> \in earned

\* The watch reports success only when each stage's script has exited with 0
\* under this prefix, although the files are fetched one by one while pods
\* write them, are lost and run again, and some fetches fail.
SuccessIsEarned == answer = "SUCCEEDED" => \A s \in Stages : EverEarned(s)

\* It reports a failure only when some script failed or was killed, or the
\* job was cancelled: never for a stage that merely has no status yet.
FailureIsEarned == answer \in {"FAILED", "CANCELLED"} => hurt # {}

\* "The run prefix is the source of truth": without faults, a stage that ended
\* for SkyPilot has ended the same way in its status file, before SkyPilot
\* can tell.
StatusIsSettled ==
    \A j \in Jobs, s \in Stages :
        submits = 1 /\ faults = 0 /\ queue[j][s] \in {"SUCCEEDED", "FAILED"} =>
            status[s] = queue[j][s]

\* Cancel and the watch's question to the queue need the job id in the manifest,
\* which three kinds of writers overwrite.  Once a submission has ended well, the
\* id is there and no order of its own write and the pods' reads and writes takes
\* it out again, but for the one the code does lose: pods that are not told their
\* job, one of which read the manifest before the id was in it.
HasRead(s) == pod[1][s] \in {"writing", "starting"} \/ status[s] # "none"
JobIdCanBeFound ==
    submits = 1 /\ faults = 0 /\ cli = "idle" /\ manifest = NoJob =>
        ~podKnows /\ \E s \in Stages : HasRead(s) /\ existing[1][s] = NoJob

\* The inductive invariant behind SuccessIsEarned and FailureIsEarned: a state
\* goes from the script to its outcome, the status file or the queue row, and
\* to the watch, and what it stands for stays true.
Means(state, s, done, harm) ==
    /\ state = "SUCCEEDED" => \E j \in Jobs : <<j, s>> \in done
    /\ state \in {"FAILED", "CANCELLED"} => harm # {}

FilesMean == \A s \in Stages : Means(status[s], s, earned, hurt)
SeenMeans == \A s \in Stages : Means(seen[s], s, earned, hurt)
QueueMeans == \A j \in Jobs, s \in Stages : Means(queue[j][s], s, earned, hurt)
OutcomesMean == \A j \in Jobs, s \in Stages : Means(outcome[j][s], s, earned, hurt)
AnswerMeans == \A s \in Stages : Means(answer, s, earned, hurt)
ExitsAreKnown ==
    \A j \in Jobs, s \in Stages : pod[j][s] \in {"ending", "exited"} => outcome[j][s] # "none"

IInv ==
    /\ TypeOK
    /\ FilesMean /\ SeenMeans /\ QueueMeans /\ OutcomesMean /\ AnswerMeans
    /\ ExitsAreKnown

\* Once the job the manifest names has ended, the watch returns: also when a
\* lost pod left its stage RUNNING or without a status.
JobEnded(j) == \A s \in Stages : queue[j][s] \in EndedStates
WatchReturns ==
    <>[](manifest # NoJob /\ JobEnded(manifest)) => <>(watch \in {"returned", "failed"})

\* "Refresh status until the workflow reaches a terminal state" (--watch): when
\* the watch returns, the last submission made before it was started is over.
Over(j) ==
    \/ \A s \in Stages : <<j, s>> \in earned
    \/ \E s \in Stages : <<j, s>> \in hurt
    \/ cli = "idle" /\ \A s \in Stages : queue[j][s] = "none"
WatchWaitsForTheRun ==
    [][watch # "returned" /\ watch' = "returned" => Over(since)]_vars
=============================================================================
