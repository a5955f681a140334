# Verification of the Nebius physical-AI control plane

TLA+ models, TLC runs and TLAPS proofs for the control code of `npa` (`npa/src/npa/`): the code that
decides *when* to launch, wait, record, retry, report and tear down. What the launched programs compute
(policies, renderings, datasets) is data here and is abstracted to what the decisions depend on.

Paths below are relative to `npa/src/npa/` unless they say otherwise.

## 1. Inventory

| Component | Code | State it keeps | Operations | Interacts with | Modules |
|---|---|---|---|---|---|
| Retrigger | `workflows/sim_to_real_trigger.py` | the watermark (S3 or file) | load, list pages, launch, save | uploaders through the bucket; other watchers through the watermark; the runner by a subprocess | `Trigger`, `DatasetCoverage` |
| Sibling Jobs | `workflows/sim2real/engine.py` (`_run_*_image_component`, `_wait_kubernetes_job`, ...) | none of its own; the Job, its conditions and counts, the result object | apply, wait, poll, collect, delete, download | Job controller and pods through `kubectl`, object storage | `SiblingJob` |
| VLM evaluation pool | `engine.py` (`run_inner_loop`, `evaluate_rollout_with_vlm`) | futures of a thread pool | submit, start Jobs, collect, raise | sibling Jobs | `VlmPool`, `Evaluation` |
| Staged run | `workflows/sim2real/runner.py`, `state.py`, `engine.py` | `workflow_state.json`, its S3 copy, candidate, report | preamble, outer iterations, finalize, resume | engine and runner through one file | `StagedLoop`, `OuterLoop` |
| Durable workflow run | `orchestration/skypilot/workflow_state.py`, `workflow.py`, `cli/workbench/workflow/__init__.py` | manifest and one status file per stage in a bucket prefix | submit, pod prelude and trap, `status --watch`, cancel | SkyPilot's queue; CLI, pods and watch through the prefix | `DurableRun` |
| Wrapper scripts, their teardown, run cleanup | `npa/scripts/run_isaac_lab_rl.py`, `run_bdd100k_pipeline.py`, `run_sim_to_real_quickstart.py`; `orchestration/skypilot/signal_teardown.py`, `cleanup.py` | `_launched`, `_done`, a lock | mark, submit, wait, cleanup, teardown, signal handler | SkyPilot by name pattern | `SkyTeardown` |
| Serverless jobs, endpoints | `clients/serverless.py` and the commands of `cli/` that use it | `serverless_job` and `endpoint_id` in `config.yaml` | look up, create, recover, poll, record, cancel; deploy, replace, destroy | the Nebius CLI; other terminals through a job's name | `Serverless` |
| Workbench deploy commands | `cli/groot`, `cli/isaac_lab`, `cli/fiftyone`, `cli/cosmos`, `cli/genesis`, `cli/workbench/lerobot.py` | none of their own | deploy, update, destroy, cleanup-partial | terraform, VMs over SSH, `config.yaml` | `WorkbenchDeploy` |
| Provisioning | `deploy/provisioner.py`, `clients/nebius.py` | terraform's state in a bucket, without a lock | plan, analyse, apply, outputs, destroy | the deploy commands | `WorkbenchDeploy` |
| Configuration | `clients/config.py`, `credentials.py` | YAML files in `~/.npa` | load, merge, write, remove | every command, through the file | `WorkbenchDeploy` (the file) |
| Kubernetes clusters | `cluster/api.py`, `state.py`, `cli/cluster/*` | `cluster.json`, `node-groups/*.json` and a kubeconfig per target in `~/.npa/clusters`; a terraform state | deploy, destroy, status, list, up, down; node-group add, remove, list | the Nebius CLI, terraform; other terminals through the target's name and directory | `ManagedCluster` |
| Policy server | `server/app.py` | the loaded policy, a checkpoint cache | load, unload, predict | S3, HTTP clients | planned: `ModelServer` |
| Monitor | `workflows/sim2real/monitor.py` | none | aggregate stage status | S3, Kubernetes | read-only, not modelled |
| Rest of the sim-to-real loop | `sim2real/config.py`, `cli.py`, `k8s_submit.py`, `sim2real_loop.py` | none | configuration, rendering | | not modelled |
| Distillation on two VMs, other tool commands, viewers, data services | `cli/workbench/*`, `workbench/*`, `sim2real_rerun_serve.py` | none of their own | one-shot commands | | not modelled |
| Terraform modules, images, manifests | `deploy/` of the repository | | | | not modelled |

The components talk almost only through objects nobody locks: a watermark, a state file, a manifest, a
Job, `config.yaml`, a terraform state, the name of a serverless job. So the hard behaviours are
interleavings of read-then-write sequences on such an object, processes that die or raise between two of
these steps, several pieces of a status read one after the other, calls that time out after they took
effect, and waiting for somebody who will not answer. `PROJECT.json` lists them line by line under
`hazards`, each with the properties that would catch it going wrong, or a note where the code does go wrong
and the properties name the case as their exception.

What makes each component correct:

* **Retrigger.** No data slips behind the cursor without a run that saw it; data is covered eventually;
  a batch is launched for once.
* **Sibling Jobs.** A verdict is true of the pods; a result belongs to the call that returns it; Jobs and
  GPUs do not outlive the call.
* **VLM pool.** No more GPU Jobs in the cluster than configured; no thread keeps starting Jobs after the pool
  ended; the loop goes on only with judgments of its own rollouts; the pool ends.
* **Staged run.** Iterations are recorded once and in order, each continues the one before it, a completed
  run was reported on in full, and a run that is started again completes.
* **Durable run.** What `status` reports is true of the stages; the job id stays findable; `--watch` returns.
* **Wrapper scripts.** An exit code of 0 means a finished run and no clusters left; nothing that was
  submitted goes without a teardown, whenever a signal comes; a cleanup without errors has stopped the job;
  the script ends.
* **Deploy commands.** What the cloud runs is on record and what is on record runs; `healthy` was observed;
  a VM is taken down only by a command that was told to.
* **Kubernetes clusters.** No cluster runs without a record, and no reported deletion was none; the kubeconfig
  belongs to the cluster on record; a cluster that was reported ready is taken down on demand only.
* **Serverless.** The answer to a command that waited is final; Ctrl-C stops the job; nothing that is paid
  for runs on without the operator having been told.

## 2. Modules

| Module | What it is |
|---|---|
| `DatasetCoverage` | abstract promise of the retrigger: data is settled only after some run covered it |
| `Trigger` | the retrigger; implements `DatasetCoverage` (property `CoverageKept`) |
| `SiblingJob` | one component call per Job, with the Job controller, pods and storage |
| `VlmPool` | the pool that makes such calls; in it a call just ends, well or not |
| `Evaluation` | both together: the threads of `VlmPool` make the calls of `SiblingJob`, and the whole implements each of the two |
| `OuterLoop` | abstract promise of a staged run: an append-only record of decisions |
| `StagedLoop` | `runner.py` and the engine's state writer; implements `OuterLoop` (property `RecordIsKept`) |
| `DurableRun` | submit command, instrumented pods, SkyPilot's queue, watch and cancel on one run prefix |
| `SkyTeardown` | a wrapper script with its signal handlers on one thread, and SkyPilot beside it |
| `WorkbenchDeploy` | the deploy commands of six tools, terraform and `config.yaml`, several terminals |
| `Serverless` | submissions, waits and cancellations of serverless jobs, and the cosmos endpoint |
| `ManagedCluster` | the `npa cluster` commands on one target, the cloud's cluster and node groups, the files they share |
| `MC*` | the instances TLC checks |
| `*Proofs` | theorems and their proofs |

Operators named `X_Something` are broken variants of `X` for mutation runs; nothing uses them unless a
mutation run puts them in the place of `X`, to see that a property notices.

### Trigger and the code

`watermark` is `TriggerWatermark` in the store; `previous`, `page` and `objects` are the locals of
`run_once` per watcher, `pc` its position in it. An object is a key, an ETag (size included) and its
`LastModified`; `IsNew` and `Advanced` are `new_lerobot_objects` and `advance_watermark`. `LoadWatermark`,
`ListPage`, `PassIdle`, `Launch`, `SaveWatermark` are the calls of `run_once` in order; `Crash` and
`LaunchFails` are the exceptions nobody catches, `Restart` a new process. `Put`, `Delete` and `Tick` are the
uploader and S3's clock: two uploads can carry the same time, and a page is served from the bucket as it is
at that moment. A run reads the whole prefix, so a launch covers what is present (`covered`).

### SiblingJob and the code

`pc` walks `_run_kubernetes_image_component` / `..._indexed_...`: `Apply`, `InitialStatus`,
`WaitForComplete`, `VerifyComplete`, `CheckFailed`, `Poll`, `Report`, `DeleteJob`, `Download`.
`ParsedSucceeded` and `ParsedFailed` do to an absent count what `"{.status.succeeded} {.status.failed}"` and
`strip().split()` do to it. The controller counts pods before it sets a condition (`backoffLimit: 0`,
`activeDeadlineSeconds`), and kills the rest of the pods when the Job fails. `Interrupted` is a `kubectl` call
that raises, with or without its effect. `FixedUri` are the calls whose output URI names
the run alone; `Stages` holds the sets of calls that a stage of the loop makes together,
`Shards` the pods of each call's Job, and `IndexedCalls` the calls whose Job is an indexed one.

### VlmPool and the code

`state` holds the futures, `job` the one or two component calls inside each evaluation, `outcome` the
driver. `kubernetes` is `vlm_k8s_parallel`: with it and several rollouts there is a `Pool`, whose size is
`MaxWorkers` of `run_inner_loop`; else the driver evaluates one rollout after the other, by its Jobs or, for a
command or a local reference, by itself (`EvaluateHere`), and the first failure raises at once. With a pool
`Raise` waits for every rollout, because `ThreadPoolExecutor.__exit__` is `shutdown(wait=True)` without
cancelling, and results become training signals only when all are in, which may fail too (`Return`).

### Evaluation and the code

`_evaluate_reason_rollout_k8s` calls `_run_image_component` in the thread that evaluates a rollout with a model.
So there is one call per rollout and model (`EvaluationCalls`), none of them made at first; `Enter` begins the
call of a thread (`StartJob` and the call's first position), `Leave` ends the thread when the call has returned or
raised (`Ended`, `EndJob`). `Scheduling` are the other steps of the pool, `Calling` those of the calls, the Job
controller, the pods and the storage. A thread that ends well has a call that returned; one whose call returned
may still find the result to be no judgment. `Begun` reads a call that no thread has begun as one that is
about to apply; with it, `Jobs` is `SiblingJob` with all the calls made at once.

### StagedLoop and the code

`disk` is `workflow_state.json`, `s3` its pushed copy, `state` the `WorkflowState` object the runner holds.
`EngineAppends` is `_append_outer_iteration_workflow_state`; `RunnerSaves` is the save by the runner, from the
snapshot `BeginIteration` took. A quality is named by the iteration that produced it. `Start` covers `run`
(resume) and `full-loop` (from scratch); `Crash` can leave the file truncated (`write_text` is not atomic).

### DurableRun and the code

`manifest` is the `sky_job_id` of `manifest.json`, `status` the `state` of each status file. `cli` is the
submit command (`Submit`, the launch, `RecordJob` or a failure of each). `pod` is the position in the
instrumented script: `ReadManifest`, `WriteManifest`, `WriteRunning`, `ScriptExits`, `WriteFinal` (the EXIT
trap). `queue` has a row per job and stage; `StageStarts`, `StageEnds` and `PodLost` are SkyPilot's.
`FetchManifest`, one `FetchStatus` per stage and `Report` are a round of the watch. `podKnows` leaves open
whether SkyPilot sets `SKYPILOT_MANAGED_JOB_ID`, which the prelude falls back from: to `existing`, the id it read
in the manifest before it overwrites it (`OwnJobId`). `earned` and `hurt` are
histories: which scripts really exited with 0, which failed or were killed.

### SkyTeardown and the code

Python runs a signal handler on the main thread, between two of its bytecodes, so the thread is a `stack` of
program counters: `stack[1]` is the script, each further entry a handler on top of it, and only the last
entry moves. `lock`, `launched` and `done` are the fields of `SignalTeardown`.

* The script: `MarkLaunched` (once before and once after the submission), `SubmitWorkflow` for the scripts
  with a managed job, `Launch` and `LaunchReturns` for the quickstart's `sky launch`, `WaitEnds`, and with
  `--cleanup` `cleanup_all_for_run` as `MatchJobs`, `CancelJob` and one `CleanupDown` per pattern.
* `teardown`: `TeardownEnters` takes the lock, `TeardownStarts` looks at the two flags, `TeardownDown` is one
  `sky down` per pattern, `TeardownPolls` a round of `_wait_until_absent`. The same steps serve the script's
  `finally` and a handler; a handler ends in `Unwind("signal")`, its `SystemExit`.
* `CommandTimesOut` is `TimeoutExpired` of any `subprocess.run`. `Unwind` takes an exception through the stack
  to the script's `finally`, which runs the teardown again unless the exception came from there; a teardown
  that was under way stays where it was (`Abandoned`).
* `BringUp`, `JobEnds` and `Reap` are SkyPilot: a live job makes clusters, also while they are taken down; the
  jobs controller takes those of an ended job down, `sky launch` does not.

### WorkbenchDeploy and the code

Every command is a process: `proc` holds its command line, position and locals. `cfg` is `config.yaml` (the
saved terraform backend and an entry per alias), `infra` what the terraform state of an alias has in the cloud
(its VM, if any, and other parts), `app` what runs on each host. `clean` is a history: the aliases that were
not disturbed, by an overlap, a kill or a terraform failure, since a deploy last ran terraform.

The first half of the module has the steps all tools share. `Load` and `Dump` are the two halves of
`write_config` and `remove_workbench_config`: what others wrote between them is lost. `Plan` is
`provisioner.plan` with `analyze_terraform_plan`, which refuses to destroy without `--replace`; `Apply` plans
anew, so it acts on what is there by then; `Destroy` works in the bucket the command was told of. `Unfinished`
is what a terraform run that failed or was killed may have done. `Install` and `HealthCheck` are the SSH side.
`Classify` is `classify_alias_state` of `cleanup-partial`, `Kill` a command that dies, also in the middle of a
dump. The second half has per tool its own sequence `Gate`, `Bootstrap`, `Infra`, `Read`, `Register`, `App`:
groot updates an alias that is there over SSH, isaac-lab, fiftyone and cosmos go on without terraform, lerobot
and genesis have no gate and no plan; three of them save a backend, and each asks for health in its own way or
not at all.

### Serverless and the code

`jobs` has the state of the job of each name, `endpoint` the one endpoint of the alias with its id, `record`
and `entry` what `config.yaml` says of them. A *flow* is what tells the ten submitting commands apart: whether
they look for a job of that name first, record it, and turn a job that failed into a failure of the command.
`Lookup`, `CreateJob`, `Recover`, `PollJob`, `Record`, `CheckJob`, `CancelJob` are the calls of `create_job`,
`poll_job` (with its one tolerated error), `update_workbench_serverless_job` and `cancel_job` in order;
`CheckEntry`, `ResolveEntry`, `FindEndpoint`, `DeleteEndpoint`, `CreateEndpoint`, `WaitForRunning`,
`SaveEndpoint`, `RemoveEntry` those of deploy, replace and destroy of the cosmos endpoint. Each call of the
Nebius CLI may fail or time out; one that timed out may be carried out later (`late`, `LateJob`,
`LateEndpoint`). `Interrupt` is Ctrl-C, which only `poll_job` handles.

Histories: `told` and `toldEp` have the jobs and endpoints that a message named, a failure's or the command's
output;
`unnamed` and `unnamedEp` those whose command ended, after it may have made them, without one. The message of a
failed call names the job or endpoint, but for an answer that is no JSON (`JobFailsUnnamed`: a `ValueError`, whose
text is printed alone and which `poll_job` does not tolerate even once) and for the listing that precedes every
query of an endpoint, whose message names the project (`clients/serverless.py:593`) or the command line (942);
`EndpointFails` leaves open which it was. Of Ctrl-C there is a message only if it strikes after the warning that
a creation timed out (789-796), or when the cancellation by `poll_job` fails. `crossed` says that a destroy ran
beside
another endpoint command.

### ManagedCluster and the code

`cluster`, `cpu` and `gpu` are what Nebius has under the target's name; `local`, `groupFile` and `kubeconfig`
the files in its directory (of a record, the cluster's id and whether it names a kubeconfig); `tf` the cluster
in the terraform state. `proc` holds per terminal the command, its position and its locals. Deploy is
`FindCluster`, `AdoptCluster`, `CreateCluster`, `CreateCpuGroup` and `Rollback` of `create_cluster`, then
`SaveState`, the poll (`PollCluster` and `PollGroups` are two calls), `SaveReady`, `WriteKubeconfig` and
`SaveWithKubeconfig` of `deploy_cmd`. Up is `Guard`, `Apply` and `Applied` and the same end, down
`TerraformDestroy`. The others begin with `Load`, and `FindTarget` looks for what was loaded: destroy goes on
with `DeleteCluster`, `WaitGone`, `Forget`, status and list with `WriteBack`, and the node-group commands have
steps of the same kind. `get_cluster` asks by id and, when that fails for whatever reason, by name with the id as
the name; the "not found" of this second query is what its callers see (`api.py:289-319`, and 344-370 for node
groups). So `FindTarget`, `FindGroup`, `WaitGone` and `WaitGroupGone` may all end in "not there" while the thing
runs,
and `DeleteCluster` and `DeleteGroup` may do nothing and go on; `misread` has what a destroy or remove gave up
in this way (`GivesUp`). A call that creates may be carried out without being answered, and `_run` repeats it
(`Again`, `Retry`); then the name exists and the repetition is refused. Calls that read or delete are repeated
too, but to no effect that a single one does not have. `told`, `vouched`, `crossed` and `misread` are histories:
clusters
whose name an unfinished command had announced, clusters reported ready, and which commands overlapped. No guard
reads a history.

## 3. What the runs check

| Run | Instance | What it shows |
|---|---|---|
| `trigger_shared` | 2 watchers, 2 keys, 2 pages, 2 clock values | nothing is uncovered behind the cursor, and the promise is implemented, while listings are paged during uploads and a slow watcher moves the cursor back |
| `trigger_live` | 1 watcher, 1 fault | every object is covered or removed in the end; without the fault no object is launched for twice |
| `sibling_calls` | 2 plain calls of 1 pod each, or 1 indexed Job of 3 pods; 2 download tries, 1 fault | results belong to their call, verdicts are backed by counts, Jobs are deleted unless a call raised, no live pod is deleted, every call ends, GPUs are released even if the driver died |
| `sibling_verdict` (violation) | 1 indexed Job of 3 pods, no fault | finding: all pods failed, read as complete |
| `evaluation_calls` | 2 rollouts evaluated by Jobs of 1 pod, or here; cap 1, 1 fault | the cap holds of the Jobs in the cluster, judgments are of their own rollout, a clean end on success and failure, termination; the calls the threads make are those of `SiblingJob` |
| `staged_resume` | 3 iterations, 3 processes, 2 crashes, torn writes | the invariant with the history in order, quality chained, report current, record kept, completion |
| `durable_watch` | 2 serial stages, 1 submission, 2 faults | reported success and failure are true, status files are settled before SkyPilot's rows, the job can be found through the manifest, the watch returns |
| `durable_resubmit` (violation) | 2 stages, 2 submissions, no fault | finding: the watch returns with the status of the run before |
| `teardown_exit` | 3 clusters under 2 patterns, 2 signals, 2 polls, all three scripts | a zero exit leaves nothing, no submission is abandoned, a clean cleanup stopped the job, the script ends unless a signal finds the lock held |
| `deploy_shared` | 2 of 18 command lines on one alias, one after the other or at once, 1 kill | what is recorded is there, healthy was earned, VMs are replaced on purpose |
| `cluster_target` | 3 of 9 commands in 2 terminals on a target that is new, deployed or brought up by terraform; 2 attempts a call, 1 kill | no cluster is forgotten and gone means gone, both but for a query that failed and was read as "not found"; the kubeconfig is of the record, what was deployed is kept |
| `serverless_shared` | 3 of 11 command lines in 2 terminals, 1 Ctrl-C | answers are final, Ctrl-C stops the job, nothing is forgotten, but for what its command ended without naming |

**Bounds.** `MaxClock`, `MaxFaults`, `MaxProcesses`, `MaxCrashes`, `MaxSubmits`, `MaxTries`, `MaxSignals`,
`MaxCommands`, `MaxIds`, `MaxKills` and `MaxInterrupts` stand in guards only; `MaxPolls` is the deadline of
`_wait_until_absent` counted in polls. Two keys on two pages are the least with which
an upload can land on a page already read; two clock values the least with which times can be equal or
differ. Three pods make the mix of succeeded, failed and running pods; two calls the mix of attempt and run
URIs. Two rollouts under a cap of one are one that waits while the other's Job lives; with a fault, a thread may
leave its Job behind and the next one start. Larger caps, more rollouts and dual-reason evaluations (two Jobs
each, where the division by two leaves a rest) are too many states with the Jobs in detail; the theorems about
`Evaluation` cover them, and they alone cover threads whose calls are under way at once. Three iterations have a
first, a middle and a last one, and three processes allow a crash at any two
places. Two serial stages give a stage that waits and one that is read before it started; two faults allow a
lost pod followed by a lost write. Two signals are a handler interrupted by a handler, and a second glob with
two clusters a `sky down` that fails between two of them. Two deploy commands are all that an alias needs for
a lost update, a second command on what the first one left, and a kill before either; the initial states
add what a longer history would leave (a ghost entry). Three serverless commands are a job or endpoint, a
second command that meets it, and a third that meets what these two left; likewise for a cluster target, where
`MaxIds` leaves each of them a cluster or node group to make and `Retries` = 2 a creation to repeat.
The theorems hold without these bounds. `serverless_shared` and `cluster_target` explore through a `VIEW`, stated
and
justified in their MC modules: of the histories of what was named, vouched for or given up, which no step reads, it
keeps what the properties may still ask for, and of a command's locals those it still reads. The crash of a shared
watermark is not combined with two watchers by TLC (state space); the proofs
cover that combination.

**Fairness.** `Trigger`: a watcher's loop goes on (`while True` in `watch`) and a dead one is restarted; uploads
and the clock owe nothing. `SiblingJob`: the driver is sequential and each `kubectl` call has a timeout; the
controller enforces the deadline; pods owe nothing. `Evaluation`: threads run (`Threading`), and the calls and
the controller are as fair as in `SiblingJob`; that a call ends is not assumed but follows. `StagedLoop`: a
process runs on and is started again. `DurableRun`: only the watch, which polls
in a loop; pods, SkyPilot and the submit command owe nothing. `SkyTeardown`: the script's thread, since each
command it starts has a timeout and each loop a deadline; SkyPilot owes nothing. All of it is weak fairness.
`WorkbenchDeploy`, `Serverless` and `ManagedCluster` state none: a terminal may be left alone at any step, and
their properties
are safety. Deadlock is checked where the system polls for ever (`Trigger`) and switched off where calls,
runs, watches, scripts and commands end.

## 4. Findings

Two are runs that TLC refutes, quoted with their lines in `PROJECT.json`:

1. `NoFalseSuccess`: Kubernetes leaves a zero count out of a Job's status, and the parser then takes the failed
   count for the succeeded one. The unit test stubs `"0 1"`, which `kubectl` never prints.
2. `WatchWaitsForTheRun`: submitting again under a run id (by default the name of the YAML) leaves the old
   status files in place, and the watch returns with them.

The following were met while modelling. They have no run of their own; the properties state what does hold,
and name the exception where there is one.

* *Retrigger.* The watermark is saved after the launch, so a crash in between launches a batch twice although
  the docstring says "once" (`OncePerBatchUnlessFault`). The other order would lose batches, which
  `NothingBehindTheCursor` rules out. A launch that times out after it was accepted leaves a job nobody has
  the id of (`LaunchFails`).
* *VLM pool.* With `k8s_max_parallel_gpus = 1` a dual-reason evaluation still uses two GPUs (`GpuBound`,
  `JobsWithinCap`).
* *Staged run.* `run_staged` resumes without looking at the decision it loads, so a run started again goes on
  after a promotion (`docs/workbench/guides/sim2real-architecture.md:220`). The snapshot the runner saves drops the
  records of stages 7 to 11 that the engine has just merged (docstring at `engine.py:329`).
* *Wrapper scripts.* A signal inside `mark_launched` or the flag check of `teardown` waits for a lock its own
  thread holds (`LockedOut`, the exception in `ScriptEnds`). The handler drops the result of its teardown, and
  a handler that finds `_done` set ends the script while the teardown below it is unfinished
  (`td.state = "cut"`). Output of `sky status` that is no JSON counts as no clusters (`td.blind`), and a queue
  query that fails counts as no jobs, against the docstring of `cleanup.py:218` (`cleaned = "blind"`). Without
  `--cleanup` the wrappers take clusters down and leave the managed job alone, so a job that is still live
  brings them up again. Jobs are matched by substring of the name.
* *Deploy commands.* `--destroy` of lerobot (`lerobot.py:2015`), cosmos (2264) and genesis (1819) prefers the
  environment's bucket to the saved one, against the docstring at `clients/config.py:884`: it then destroys an
  empty state and forgets a VM that runs. lerobot and genesis apply without plan and gate, contrary to
  `docs/workbench/troubleshooting/known-footguns.md:75-85`. `cleanup-partial` is blind to an apply that failed
  before the entry was
  written. A BYOVM deploy may write the project's storage block over the saved terraform backend. An update in
  place to `byovm` leaves the alias' VM running without a record. `--destroy --runtime byovm` unregisters an alias
  without asking whether it is one: that of a managed workbench runs on unrecorded (the exception in
  `RecordedIsThere`). An entry without a host blocks plain deploys
  until `--replace`.
* *Durable run.* A pod that is not told its job id reads the manifest before `RecordJob` and writes it after: the
  id is gone, `cancel` finds no job and the watch no queue (the exception in `JobIdCanBeFound`;
  `workflow_state.py:603-614`). The EXIT trap of a preempted pod writes FAILED although SkyPilot runs the stage
  again, and the watch ends with it (`FailureIsEarned` counts the lost pod as harm).
* *Serverless.* A command given again under the default name finds the old job and reports the *new*
  `--output-path`, where nothing was written, and all but fiftyone's `eval`/`curate` and golden-eval exit with
  0 even if that job failed (`strict`). After a `deploy --wait` that failed or timed out, the endpoint runs
  without an entry: its name blocks further deploys, and neither `--replace` nor `--destroy`, which go by the
  saved id, reaches it. The operator was told its name (`toldEp`), but not when the wait ended with a failed
  listing, with an
  answer that is no JSON, or with Ctrl-C (`unnamedEp`). Of a job likewise nothing is said when an answer cannot be
  parsed, which also ends `poll_job` at once although it tolerates one failed query, or on Ctrl-C outside
  `poll_job` (`unnamed`). A default name is found by giving the command again, but golden-eval's `run_id`
  (`smoke/serverless_runner.py:86`) was never shown. `--destroy` removes whatever entry the alias
  has by the end, also one another terminal has just saved (`crossed`). Serverless training of lerobot
  overwrites the `runtime` of the alias' entry. A cancellation that fails after Ctrl-C is only logged.

* *Kubernetes clusters.* A query by id that fails for any reason is followed by one by name, with the id as the
name,
  whose "not found" hides the failure (`api.py:294-314`, 349-368). After such an error `destroy` says that the
  cluster "no longer exists remotely" (`destroy.py:74-78`) or that it was destroyed, removes the record and exits
  with 0 while the cluster runs; `delete_cluster` returns without deleting; `node-group remove` does the same with a
  group. `ClusterNotFoundError` is documented as "not found in Nebius or local state" (`cluster/exceptions.py:15`).
  It is the exception `misread` in `NoClusterIsForgotten` and `GoneMeansGone`.
  `create_cluster` rolls back whatever failed after the cluster was made. A creation of
  the CPU group that timed out after it was accepted is repeated and refused, so a cluster that is complete is
  deleted; and a second deploy that has found the cluster meanwhile loses it (the exception in `DeployedIsKept`).
  A cluster whose own creation was accepted, timed out and was then refused is neither rolled back nor recorded
  (`told`). `status` and `list` save the record they loaded earlier: they bring back one that destroy has
  removed, or an older cluster's. Destroy by a stale record says "no longer exists" and forgets a newer cluster
  of that name that runs (both need an overlap, `crossed`). `down` leaves the record and the kubeconfig behind.
  A GPU node group counts towards the expected CPU nodes of `wait_for_ready` (`api.py:485`).

## 5. What is proved

TLAPS checks the following for every value of the constants, from the named assumptions of the modules
(constants are of the right kind; nothing about the environment).

**`TriggerProofs`**: `TypeCorrect`, `InvariantHolds`, `CursorIsSafe` (`NothingBehindTheCursor`),
`TriggerKeepsPromise` (`CoverageKept`). The property is not inductive: a watcher that loaded a watermark long
ago may still save past it. `IInv` says that every watermark in play, saved or loaded, is *sound* for the
bucket and the clock, and that between a launch and its save the batch is covered up to its latest time.
`AdvancedIsSound` carries that over the save, `SoundnessIsKept` over uploads: a new object is stamped with the
present, so it is new, or has the cursor's own time and a signature that is not in it or was covered.
`OneWatcherLaunchesOnce` (`OncePerBatchUnlessFault`): while there is one watcher and no fault, `OnceInv` says
that it works on the saved watermark itself and that whatever was launched for is behind that watermark, or in
the batch that is about to be saved (`AdvancedKeepsOld`: advancing forgets nothing), so a new batch repeats none.

**`EvaluationProofs`** has three parts, for any rollouts, cap, one or two models, calls, pods and failures.

*`SiblingJob`*: `TypeCorrect` (counts never exceed the pods), `InvariantHolds`, and from it
`HealthyJobsDoNotFail`, `CompleteIsBacked`, `NoJobIsLeft`, `ResultIsOwn`. `IInv` ties each verdict to counts
that cannot move any more, and each object in storage to a call it belongs to. `LiveWorkIsKept`
(`DeletesNoLiveWork`) adds `Judged`, that a delete comes only after a verdict, and reads from `IInv` what is
left of the pods of a Job with that verdict.

*`VlmPool`*: `PoolInvariantHolds`, `PoolTypeCorrect`, `GpusAreBounded` (`GpuBound`), `PoolEndsClean`
(`EndsClean`). `PoolInv` says that at most `Threads` evaluations run, that a call runs only inside one of them, and
that the driver goes on only past results that were good. Then the running calls are a subset of
`Busy \X Components`, and `ThreadsFit` shows from the rounding of the division that
`Threads * JobsPerRollout` is within the bound.

*Both together*: `EvaluationInvariantHolds`, whose invariant puts `IInv` and `PoolInv` beside `Woven`, that a call
is
where its thread is, `Downloaded` and `Written`, that a result a call returned was downloaded, by a call with
the verdict "complete", and that objects come from pods of Jobs that were applied. `EvaluationIsAPool` says that
the whole implements `VlmPool`, so the pool's theorems are about it as well. `JobsAreBounded` (`JobsWithinCap`)
carries the bound from threads to the cluster: a Job that is present without trouble belongs to a call under way
(`NoJobIsLeft` for those that ended), thus to a thread. `JudgmentsAreTrue` (`JudgmentsAreOwn`) takes the same
road from "all collected" to the result of each call. `EvaluationMakesSiblingJobs` (`CallsAreSiblingJobs`): under
`Begun`, a thread's beginning is a stutter, and each step of a call one of `SiblingJob`. These assume
`EvaluationCalls`, which says what `Calls` are made of.

`CallsAreBounded` and `EvaluationIsBounded` give each call, each Job with its pods, the faults, each thread and
the driver a number that none of their steps raises, and each step of the system lowers one of them
(`CallsProgress`, `PoolProgress`), so an evaluation of finitely many rollouts cannot go on for ever.

**`StagedLoopProofs`**: `InvariantHolds`, `HistoryStaysInOrder`, `QualityFollows`, `ReportFollows`, and
`StagedRunKeepsRecord` (it implements `OuterLoop`). The two writers are the difficulty: `IInv` says that at the
second write the file is the snapshot with the entry already added, so that the write repeats the entry
instead of adding another. `ProcessIsBounded`: a process has at most `4 * OuterIterations + 5` steps, from
whatever state file it resumed, since it begins no iteration beyond the config (`Numbered`).

**`DurableRunProofs`**: `TypeCorrect`, `InvariantHolds`, `SuccessIsTrue`, `FailureIsTrue`.
`Means(state, s, done, harm)` says what a state stands for; `IInv` says it of status files, queue rows,
outcomes, what the watch has fetched and what it answered. The histories only grow (`MeaningLasts`), so a
status made of pieces read at different moments is still true. `StatusSettlesFirst` (`StatusIsSettled`) is about
order instead: with one submission and no fault the job's own pods are the only writers of the status file, and
`SettledInv` follows the row of the queue, the pod and the file, so that what the queue calls finished has its
last status written (`RowIsSettled`). `JobIdsAreFound` (`JobIdCanBeFound`) follows the id through the two writes of
the submit command and those of the pods: under `SettledInv` only pods of the one job write the manifest, so it can
lack the id only if one of them, not told its job, wrote what it had read too early, and that pod's `existing`
still shows it (`FoundInv`).

**`ServerlessProofs`**: `InvariantHolds`, `TypeCorrect`, `AnswersStayFinal`, `InterruptStops`, for any number of
terminals, commands and interrupts. An answer is read in one step and recorded or returned in a later one,
while other terminals cancel and create. `IInv` is the types with `Sound(p, jobs)` for each command (what it
has seen of its job was true, and of a state that ended is still true) and the same of `record`. It is kept
because jobs only *settle*: no step takes a name from an ended state back to a live one. `NothingGetsLost`
(`NothingIsForgotten`) needs two more: `JobsHeld`, that a job that may still run was told of, left
unnamed (`Said`) or is in the hands of a command, and `EndpointInv`, that ids are given out once, that the
endpoint a deploy waits for is the one it
made, and that a destroy that no deploy overlaps forgets only what it has deleted.

**`SkyTeardownProofs`**: `InvariantHolds`, `TypeCorrect`, `ZeroExitIsClean` (`ZeroExitLeavesNothing`),
`SubmissionsAreTornDown` (`NoSubmissionIsAbandoned`), `CleanupStopsTheJob` (`CleanCleanupStopsTheJob`), for any
clusters, patterns, number of signals and polls. The stack of handlers is what makes it hard: `StackInv` says
that all handlers are inside `teardown` and that at most one entry of the whole stack is past the two flags;
`GuardInv` that a teardown that was cut short has left an exception on its way, so the script cannot end with
0, and that it leaves its `finally` only after the teardown of what it marked. `CleanInv` and `ZeroInv` carry
the cancelled job and the return code through the steps of SkyPilot in between. `ScriptIsBounded` counts what the
script has before it in one number, `StepsLeft`: the signals that may still come, the phase of the script, and the
distance of the top entry of the stack from its end, as digits. Each step of the script or of a handler lowers
it and SkyPilot never raises it.

**`ManagedClusterProofs`**: `InvariantHolds`, `TypeCorrect`, `DeletionsAreDone` (`GoneMeansGone`),
`ReadyClustersStay` (`DeployedIsKept`), `ClustersAreRemembered` (`NoClusterIsForgotten`), `CredentialsFit`
(`KubeconfigIsOfRecord`), for any number of terminals, retries, commands and deaths. There are three layers.
`Inv` has the types, the places each of the nine commands can be in, and `Bounded`: an id is given out once, so
that what a deletion saw gone (`Gone`) stays gone whatever other terminals make; what it gave up without
that is in `misread`. `OwnInv` says that what a deploy
may still roll back was never vouched for, and is neither terraform's nor an `up`'s. `LoneInv` says what holds
while no two commands that write `cluster.json` have overlapped: such a command relies on the record as it loaded
it and works on the one cluster of its name (`Work`), and then record, credentials and cluster agree (`Papers`).
Each step is taken three times, once per layer: what it does to its own command and the world (`Steps`), to the
ids others rely on (`Books`), and to the files (`PapersKept`).

**`WorkbenchDeployProofs`**: `InvariantHolds`, `TypeCorrect`, `RecordIsTrue` (`RecordedIsThere`), `HealthIsTrue`
(`HealthyIsEarned`), `VmsAreReplacedOnPurpose` (`ReplacedOnPurpose`), for any aliases, finitely many terminals, and
any number of commands and kills, out of any of the command lines. An alias is judged while nobody works on
it, so the invariant must say what holds in between. `AliasInv` does: a clean alias has at most one command
at work, and that command is `OnTrack`: until it touches the cloud or the entry both agree (`Before`), from
the registration on the entry names the host that it works on (`After`), `healthy` is not written before the
answer it stands for (`Installing`), and an entry is removed when nothing is left of it. `ProcessInv` holds of
clean aliases and others: who reads `config.yaml` is about to write it, and who comes to apply was told to
replace, does not plan, or saw no VM in its plan; this gives the action property. `Room` counts the commands that
may still make a VM against those given, so that there is a name for each VM: the type of `born` needs it. A step
of one command is then three facts (`Frame`): what it owes itself, what it owes its alias, and that it leaves
the others' entries, clouds and servers alone; `Dump` owes the last only because losing somebody's write takes
that alias out of `clean`.

`TypeOK` and `IInv` of these modules are theorems and not run again, except where a run checks `IInv` because
its conjuncts are the properties.

**Only model-checked**: liveness (`EveryObjectIsCovered`, `EveryCallEnds`, `GpusAreReleased`, `PoolEnds`,
`RunCompletes`, `WatchReturns`, `ScriptEnds`), which is beyond this prover. Every invariant and every action
property of a passing run is a theorem. Of `EveryCallEnds`, `PoolEnds`, `RunCompletes` and `ScriptEnds` one half is
proved, that nothing goes in circles (`CallsAreBounded`, `EvaluationIsBounded`, `ProcessIsBounded`,
`ScriptIsBounded`); that a step is possible as long as the end is not reached needs ENABLED and fairness, and is
checked by TLC only.

## 6. Not modelled

* Retrigger: `--render-only` launches, `max_polls`, a torn *local* watermark file (the store is taken to be S3).
* Sibling Jobs: manifests and logs, the grace period before a download, keeping Jobs for debugging
  (`NPA_SIM2REAL_DELETE_COMPONENT_JOBS=0`), elapsed time.
* VLM pool: what an evaluation answers, and how its score becomes a training signal.
* Staged run: the `preamble`, `outer-iteration` and `finalize` subcommands called by hand, the override of the
  initial quality, single stages of the preamble.
* Durable run: rendering of YAML, the health check of the jobs controller, log redaction, artifact listing,
  images without python (their stages write nothing), and the teardown commands.
* Run cleanup: `cleanup_jobs_controller`, `cleanup_workflow` and the `skypilot_workflow` context manager, which
  end in the function that is modelled.
* Deploy commands: a reader that meets a half-written `config.yaml`, `dry_run`, `--tf-dir`, the Kubernetes
  variant of fiftyone and the restart command it saves, the serverless branch of cosmos (see `Serverless`),
  checkpoint preload, ingress, the commands of the tools other than deploy and cleanup, the credentials file.
* Serverless: autoscale, start, stop, logs, list and status of jobs and endpoints (single calls), inference
  requests, an error that is taken for "not found" by its wording. That a name is unique at Nebius is assumed
  (`docs/testing/e2e-serverless.md:101`).
* Kubernetes clusters: further node groups (`add-cpu` is like the GPU group), what `validate` asks of kubectl, the
  SkyPilot smoke test and the quota preflight, `status --terraform-dir` (which may make a record of what
  terraform knows), capacity blocks, deletions by others than these commands, a half-written `cluster.json`. An
  error is taken for "not found" by its wording (`api.py:639`); the model takes that to be right.
* `sim2real_loop.py` is an older duplicate of `engine.py`; the model follows `engine.py`.
* The components marked so in the inventory, with the reasons in `PROJECT.json`.

The map covers a small share of the repository's lines: most of them render manifests, commands and
reports, parse options, or run one program over SSH, and have no state of their own.

## 7. Plan

The order is by what goes wrong most expensively: launches and GPU Jobs first, then the records a run is
resumed and judged by, then clean-up and the machines behind it.

1. *Done:* `Trigger`, `SiblingJob`, `VlmPool`, `Evaluation`, `StagedLoop`, `DurableRun`, `SkyTeardown`,
`WorkbenchDeploy`,
   `Serverless`, `ManagedCluster`, with the proofs above.
2. `ModelServer`: the servers that `npa workbench cosmos serve` and `npa workbench groot serve` embed
   (`cli/cosmos/__init__.py:987-1180`, `cli/groot/__init__.py:1033-1098`). Their `_load` is a check-then-set
   without a lock, `/infer` loads the default model again, and the answer is labelled with `_loaded_model` as it is
   when the answer is written. The policy server (`server/app.py`) serves one request at a time; what could go
   wrong there is the reuse of a checkpoint cache after an interrupted download.
3. Composition: `VlmPool` over `SiblingJob` is done (`Evaluation`); next, `Serverless` and `WorkbenchDeploy` over
   one `config.yaml`.
