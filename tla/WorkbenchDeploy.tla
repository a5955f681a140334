---------------------------- MODULE WorkbenchDeploy ----------------------------
(***************************************************************************)
(* npa workbench <tool> deploy, deploy --destroy and cleanup-partial for   *)
(* the six tools that keep a VM: groot, lerobot, genesis, isaac-lab,       *)
(* fiftyone and cosmos.                                                    *)
(*                                                                         *)
(* Each command is a process of the operator's machine.  All of them share *)
(* ~/.npa/config.yaml, which write_config loads, merges and writes back    *)
(* without a lock, and the Terraform state of each alias, whose S3 backend *)
(* has no lock either.  A command may be killed at any step.               *)
(*                                                                         *)
(* The first half has the steps that all tools take, the second half each  *)
(* tool's own sequence of them.                                            *)
(***************************************************************************)
EXTENDS Integers, FiniteSets

CONSTANTS
    Procs,        \* terminals, each runs one command at a time
    Aliases,      \* workbench names of the project
    Commands,     \* the command lines that may be given
    MaxCommands,  \* bound: commands given
    MaxKills      \* bound: commands killed

Tools == {"groot", "lerobot", "genesis", "isaac", "fiftyone", "cosmos"}
Gpus == {"l40s", "h100"}

\* gpu stands for every variable that makes Terraform replace the VM; bucket is the one
\* NPA_CHECKPOINT_BUCKET or the project's storage block names, "own" when unset.
CommandLines ==
    [op : {"deploy", "destroy", "cleanup"}, tool : Tools, alias : Aliases,
     gpu : Gpus, runtime : {"vm", "container", "byovm"},
     replace : BOOLEAN, skipInfra : BOOLEAN, skipApp : BOOLEAN,
     bucket : {"own", "other"}]

ASSUME CommandAssumption == Commands \subseteq CommandLines /\ Commands # {}
ASSUME ProcsAssumption == IsFiniteSet(Procs)
ASSUME BoundAssumption == MaxCommands \in Nat \ {0} /\ MaxKills \in Nat

Nowhere == 0
Byo == -1                                      \* the operator's own host
Vms == 1..MaxCommands
Hosts == Vms \cup {Nowhere, Byo}
NoEntry == [host |-> Nowhere, runtime |-> "none", tool |-> "none", status |-> "absent"]
Nothing == [vm |-> Nowhere, tool |-> "none", gpu |-> "none", parts |-> FALSE]
EmptyConfig == [saved |-> "none", wb |-> [a \in Aliases |-> NoEntry]]
Ghost == [NoEntry EXCEPT !.status = "installing"]
Idle == [pc |-> "idle", cmd |-> CHOOSE c \in Commands : TRUE, host |-> Nowhere,
         inPlace |-> FALSE, bucket |-> "own", seen |-> Nowhere,
         reading |-> FALSE, loaded |-> EmptyConfig]

VARIABLES
    cfg,      \* config.yaml: terraform_state of the project, and its workbenches
    infra,    \* per alias what its Terraform state holds in the cloud
    app,      \* per alias and host the tool's server there
    proc,     \* the commands that run
    born,     \* VMs made so far
    given,    \* commands given so far
    kills,    \* commands killed so far
    clean     \* history: aliases undisturbed since a deploy last ran Terraform

vars == <<cfg, infra, app, proc, born, given, kills, clean>>

\* The first day, or one after a terminal set the status of an alias that another one had
\* removed, and a later deploy was killed in Terraform: the alias has parts in the cloud
\* and an entry without a host.
Init ==
    /\ \/ cfg = EmptyConfig /\ clean = Aliases /\ infra = [a \in Aliases |-> Nothing]
       \/ /\ cfg = [saved |-> "own", wb |-> [a \in Aliases |-> Ghost]]
          /\ infra = [a \in Aliases |-> [Nothing EXCEPT !.parts = TRUE]]
          /\ clean = {}
    /\ app = [a \in Aliases |-> [h \in Hosts |-> "none"]]
    /\ proc = [p \in Procs |-> Idle]
    /\ born = 0 /\ given = 0 /\ kills = 0

At(p, pc) == proc[p].pc = pc
Goto(p, pc) == proc' = [proc EXCEPT ![p].pc = pc]
Cmd(p) == proc[p].cmd
Alias(p) == Cmd(p).alias
Entry(p) == cfg.wb[Alias(p)]
Others(p) == {q \in Procs \ {p} : ~At(q, "idle") /\ Alias(q) = Alias(p)}
Disturbed(p) == clean' = clean \ {Alias(p)}

\* Up to what is at the address: the alias' VM, or the operator's own host.
Alive(a, h) == h = Byo \/ (h # Nowhere /\ h = infra[a].vm)

(* config.yaml *)

Writes == {"project", "state", "remove", "register", "installing", "installed",
           "strategy", "mark", "failed"}

\* _load_yaml at the start of write_config and remove_workbench_config.
Load(p) ==
    /\ proc[p].pc \in Writes /\ ~proc[p].reading
    /\ proc' = [proc EXCEPT ![p].reading = TRUE, ![p].loaded = cfg]
    /\ UNCHANGED <<cfg, infra, app, born, given, kills, clean>>

\* The merged file replaces what is there by now: other commands' writes since the
\* load are lost.
Dump(p, new, pc) ==
    /\ proc[p].reading
    /\ cfg' = new
    /\ clean' = {a \in clean : cfg.wb[a] = proc[p].loaded.wb[a]}
    /\ proc' = [proc EXCEPT ![p].pc = pc, ![p].reading = FALSE, ![p].loaded = EmptyConfig]
    /\ UNCHANGED <<infra, app, born, given, kills>>

Status(p, status) == [proc[p].loaded EXCEPT !.wb[Alias(p)].status = status]

\* update_workbench_app_status, also for an entry that is gone by now.
Mark(p, at, status, pc) == At(p, at) /\ Dump(p, Status(p, status), pc)

\* remove_workbench_config: the project goes with its last workbench.
Removed(old, a) ==
    LET wb == [old.wb EXCEPT ![a] = NoEntry]
    IN  [saved |-> IF \A b \in Aliases : wb[b] = NoEntry THEN "none" ELSE old.saved,
         wb |-> wb]

RemoveEntry(p) ==
    /\ At(p, "remove")
    /\ LET old == proc[p].loaded
       IN  Dump(p, IF old.wb[Alias(p)] = NoEntry THEN cfg ELSE Removed(old, Alias(p)), "done")

(* the gate on an alias that is there *)

\* alias_has_terraform_state, workbench_is_byovm
IsByovm(p) == Entry(p).runtime = "byovm"
IsManaged(p) == ~IsByovm(p) /\ Entry(p) # NoEntry /\ cfg.saved # "none"

Begin(p) ==
    Goto(p, IF Cmd(p).runtime = "byovm" \/ Cmd(p).skipInfra THEN "read" ELSE "bootstrap")

Deploys(p, tool) == At(p, "gate") /\ Cmd(p).tool = tool
Step(p) == UNCHANGED <<cfg, infra, app, born, given, kills, clean>>

\* isaac-lab, fiftyone and cosmos go on without Terraform.
InPlaceGate(p) ==
    \/ /\ Cmd(p).replace /\ IsByovm(p)
       /\ Goto(p, "error")
    \/ /\ ~Cmd(p).replace /\ (IsManaged(p) \/ IsByovm(p))
       /\ proc' = [proc EXCEPT ![p].pc = "read", ![p].inPlace = TRUE]
    \/ /\ IF Cmd(p).replace THEN ~IsByovm(p) ELSE ~IsManaged(p) /\ ~IsByovm(p)
       /\ Begin(p)

(* Terraform *)

Of(p, tool) == Cmd(p).tool = tool

\* bootstrap_environment makes the service account and the bucket, or fails; fiftyone's
\* destroy only asks for a token when it has saved credentials.
Bootstrap(p) ==
    /\ At(p, "bootstrap")
    /\ LET reuse == Of(p, "fiftyone") /\ Cmd(p).op = "destroy" /\ cfg.saved # "none"
       IN  Goto(p, IF reuse THEN "state" ELSE "project") \/ Goto(p, "error")
    /\ Step(p)

WriteProject(p, pc) == At(p, "project") /\ Dump(p, proc[p].loaded, pc)

\* write_config of terraform_state with the backend this command uses.
SaveState(p, bucket, pc) ==
    /\ At(p, "state") /\ proc[p].reading
    /\ cfg' = [proc[p].loaded EXCEPT !.saved = bucket]
    /\ clean' = {a \in clean : cfg.wb[a] = proc[p].loaded.wb[a]}
    /\ proc' = [proc EXCEPT ![p].pc = pc, ![p].bucket = bucket,
                            ![p].reading = FALSE, ![p].loaded = EmptyConfig]
    /\ UNCHANGED <<infra, app, born, given, kills>>

\* _apply_saved_terraform_state, and apply_storage_env_vars: the environment goes before
\* what was saved.
SavedBucket(old) == IF old.saved = "none" THEN "own" ELSE old.saved
OverriddenBucket(p, old) == IF Cmd(p).bucket = "other" THEN "other" ELSE SavedBucket(old)

Fits(p) == infra[Alias(p)].vm # Nowhere
           /\ infra[Alias(p)].tool = Cmd(p).tool /\ infra[Alias(p)].gpu = Cmd(p).gpu

Plan_NoRefusal(p) ==                  \* the analysis is printed, not enforced
    /\ At(p, "plan")
    /\ \/ /\ Fits(p)
          /\ proc' = [proc EXCEPT ![p].pc = "register", ![p].host = infra[Alias(p)].vm]
          /\ clean' = IF Others(p) = {} THEN clean \cup {Alias(p)} ELSE clean
       \/ /\ ~Fits(p)
          /\ proc' = [proc EXCEPT ![p].pc = "apply", ![p].seen = infra[Alias(p)].vm]
          /\ UNCHANGED clean
       \/ Goto(p, "error") /\ UNCHANGED clean
    /\ UNCHANGED <<cfg, infra, app, born, given, kills>>
\* provisioner.plan and analyze_terraform_plan: anything to destroy needs --replace.
Plan(p) ==
    /\ At(p, "plan")
    /\ \/ /\ Fits(p)
          /\ proc' = [proc EXCEPT ![p].pc = "register", ![p].host = infra[Alias(p)].vm]
          /\ clean' = IF Others(p) = {} THEN clean \cup {Alias(p)} ELSE clean
       \/ /\ ~Fits(p) /\ (infra[Alias(p)].vm = Nowhere \/ Cmd(p).replace)
          /\ proc' = [proc EXCEPT ![p].pc = "apply", ![p].seen = infra[Alias(p)].vm]
          /\ UNCHANGED clean
       \/ Goto(p, "error") /\ UNCHANGED clean        \* replacement refused, or plan failed
    /\ UNCHANGED <<cfg, infra, app, born, given, kills>>

\* What a terraform apply that was not finished may have done: nothing, taken the old VM
\* down, or made the new one without getting to the end.
NewVm(p) == [vm |-> born + 1, tool |-> Cmd(p).tool, gpu |-> Cmd(p).gpu, parts |-> TRUE]
Unfinished(p) ==
    \/ UNCHANGED <<infra, born>>
    \/ /\ ~Fits(p)
       /\ \/ infra' = [infra EXCEPT ![Alias(p)] = [Nothing EXCEPT !.parts = TRUE]] /\ UNCHANGED born
          \/ infra' = [infra EXCEPT ![Alias(p)] = NewVm(p)] /\ born' = born + 1

Apply_StaleOutputs(p) ==              \* outputs read before the apply
    /\ At(p, "apply")
    /\ \/ /\ IF Fits(p) THEN UNCHANGED <<infra, born>>
             ELSE infra' = [infra EXCEPT ![Alias(p)] = NewVm(p)] /\ born' = born + 1
          /\ proc' = [proc EXCEPT ![p].pc = "register", ![p].host = infra[Alias(p)].vm]
          /\ clean' = IF Others(p) = {} THEN clean \cup {Alias(p)} ELSE clean
       \/ Unfinished(p) /\ Goto(p, "error") /\ Disturbed(p)
    /\ UNCHANGED <<cfg, app, given, kills>>
\* provisioner.apply plans anew: it acts on what is there now.
Apply(p) ==
    /\ At(p, "apply")
    /\ \/ /\ IF Fits(p) THEN UNCHANGED <<infra, born>>
             ELSE infra' = [infra EXCEPT ![Alias(p)] = NewVm(p)] /\ born' = born + 1
          /\ proc' = [proc EXCEPT ![p].pc = "register", ![p].host = infra'[Alias(p)].vm]
          /\ clean' = IF Others(p) = {} THEN clean \cup {Alias(p)} ELSE clean
       \/ Unfinished(p) /\ Goto(p, "error") /\ Disturbed(p)
    /\ UNCHANGED <<cfg, app, given, kills>>

\* terraform destroy in the bucket the command was told of: another bucket than the one
\* the VM was made with holds an empty state, so there is nothing to destroy.
Destroy(p) ==
    /\ At(p, "destroy")
    /\ \/ /\ proc[p].bucket = "own"
          /\ infra' = [infra EXCEPT ![Alias(p)] = Nothing]
          /\ Goto(p, "remove")
          /\ UNCHANGED <<born, clean>>
       \/ proc[p].bucket = "other" /\ Goto(p, "remove") /\ Disturbed(p) /\ UNCHANGED <<infra, born>>
       \/ /\ \/ UNCHANGED infra
             \/ proc[p].bucket = "own"
                /\ infra' = [infra EXCEPT ![Alias(p)] = [Nothing EXCEPT !.parts = TRUE]]
          /\ Goto(p, "error") /\ Disturbed(p) /\ UNCHANGED born
    /\ UNCHANGED <<cfg, app, given, kills>>

\* --skip-infra, an update in place, or BYOVM: the host comes from the outputs of the
\* Terraform state, from the entry, or from the command line.
Read(p, fromState) ==
    /\ At(p, "read")
    /\ \/ \E h \in IF Cmd(p).runtime = "byovm" THEN {Byo}
                   ELSE {Entry(p).host} \cup (IF fromState THEN {infra[Alias(p)].vm} ELSE {}) :
            /\ h # Nowhere
            /\ proc' = [proc EXCEPT ![p].pc = "register", ![p].host = h]
       \/ Goto(p, "error")
    /\ Step(p)

\* Outputs need a working directory, whose state is in the saved bucket.
FromState(p) == ~proc[p].inPlace /\ cfg.saved = "own"

(* registration and the application *)

\* _terraform_state_config: a command that bootstrapped saves its backend again, an update
\* in place has no credentials to save, --skip-infra those that were saved, before which
\* lerobot and cosmos take the environment's, and BYOVM those of the project's storage,
\* which fall back on what was saved.
SavedAfter(p) ==
    LET kept == {proc[p].loaded.saved}
        told == {Cmd(p).bucket} \ {"own"}
    IN  IF Cmd(p).runtime = "byovm" THEN kept \cup told
        ELSE IF proc[p].inPlace THEN kept
        ELSE IF ~Cmd(p).skipInfra THEN {"own"}
        ELSE IF Cmd(p).tool \in {"lerobot", "cosmos"} THEN kept \cup told ELSE kept

Register(p, saved, status, pc) ==
    /\ At(p, "register")
    /\ Dump(p, [saved |-> saved,
                wb |-> [proc[p].loaded.wb EXCEPT ![Alias(p)] =
                          [host |-> proc[p].host, runtime |-> Cmd(p).runtime,
                           tool |-> Cmd(p).tool, status |-> status]]], pc)

AppPc(p) == IF Cmd(p).skipApp THEN "done" ELSE "installing"

\* SSH, then the install or the container: the server may come up or not, and SSH to a
\* host that is gone fails.
Install(p, pc) ==
    /\ At(p, "install")
    /\ \/ /\ Alive(Alias(p), proc[p].host)
          /\ \E s \in {"up", "down"} : app' = [app EXCEPT ![Alias(p)][proc[p].host] = s]
          /\ Goto(p, pc) \/ Goto(p, "failed")
       \/ Goto(p, "failed") /\ UNCHANGED app
    /\ UNCHANGED <<cfg, infra, born, given, kills, clean>>

Serving(p) == Alive(Alias(p), proc[p].host) /\ app[Alias(p)][proc[p].host] = "up"

HealthCheck_WarningOnly(p, pc, otherwise) ==    \* an unhealthy server only warns
    At(p, "health") /\ (Goto(p, pc) \/ Goto(p, otherwise)) /\ Step(p)
HealthCheck(p, pc, otherwise) ==
    /\ At(p, "health")
    /\ \/ Serving(p) /\ Goto(p, pc)
       \/ Goto(p, otherwise)
    /\ Step(p)

MarkFailed(p) == Mark(p, "failed", "install_failed", "error")
MarkHealthy(p) == Mark(p, "mark", "healthy", "done")
MarkInstalling(p) == Mark(p, "installing", "installing", "install")
WriteStrategy(p) == At(p, "strategy") /\ Dump(p, proc[p].loaded, "mark")

\* Where a bootstrapped command goes on.
Infra(p, pc) == IF Cmd(p).op = "destroy" THEN "destroy" ELSE pc

(* groot *)

GrootGate(p) ==
    /\ Deploys(p, "groot")
    /\ \/ Cmd(p).replace /\ IsByovm(p) /\ Goto(p, "error")
       \/ ~Cmd(p).replace /\ (IsManaged(p) \/ IsByovm(p)) /\ Goto(p, "env")
       \/ /\ IF Cmd(p).replace THEN ~IsByovm(p) ELSE ~IsManaged(p) /\ ~IsByovm(p)
          /\ Begin(p)
    /\ Step(p)

\* _update_existing_deployment: new credentials, a restart and a health check over SSH.
GrootEnvUpdate(p) ==
    /\ At(p, "env")
    /\ LET h == Entry(p).host
       IN  \/ /\ Alive(Alias(p), h)
              /\ app' = [app EXCEPT ![Alias(p)][h] = "up"]
              /\ Goto(p, "done")
              /\ UNCHANGED clean
           \/ /\ \/ Alive(Alias(p), h) /\ app' = [app EXCEPT ![Alias(p)][h] = "down"]
                 \/ UNCHANGED app
              /\ Goto(p, "error") /\ Disturbed(p)
    /\ UNCHANGED <<cfg, infra, born, given, kills>>

GrootBootstrap(p) ==
    /\ Of(p, "groot")
    /\ \/ WriteProject(p, "state")
       \/ SaveState(p, IF Cmd(p).op = "destroy" THEN SavedBucket(proc[p].loaded) ELSE "own",
                    Infra(p, "plan"))

GrootInfra(p) == Of(p, "groot") /\ (Plan(p) \/ Apply(p))
GrootRead(p) == Of(p, "groot") /\ Read(p, FromState(p))
GrootRegister(p) ==
    Of(p, "groot") /\ \E s \in SavedAfter(p) : Register(p, s, "provisioned", AppPc(p))
GrootApp(p) ==
    /\ Of(p, "groot")
    /\ \/ MarkInstalling(p) \/ Install(p, "health") \/ HealthCheck(p, "strategy", "failed")
       \/ WriteStrategy(p)

(* lerobot: no gate, no plan *)

LerobotGate(p) == Deploys(p, "lerobot") /\ Begin(p) /\ Step(p)

LerobotBootstrap(p) ==
    /\ Of(p, "lerobot")
    /\ \/ WriteProject(p, "state")
       \/ SaveState(p, IF Cmd(p).op = "destroy" THEN OverriddenBucket(p, proc[p].loaded) ELSE "own",
                    Infra(p, "apply"))

LerobotInfra(p) == Of(p, "lerobot") /\ Apply(p)
LerobotRead(p) == Of(p, "lerobot") /\ Read(p, FromState(p))
LerobotRegister(p) ==
    Of(p, "lerobot") /\ \E s \in SavedAfter(p) : Register(p, s, "provisioned", AppPc(p))
LerobotApp(p) ==
    /\ Of(p, "lerobot")
    /\ MarkInstalling(p) \/ Install(p, "health") \/ HealthCheck(p, "mark", "failed")

(* genesis: no gate, no plan, no backend saved; only a container is started at all *)

GenesisGate(p) == Deploys(p, "genesis") /\ Begin(p) /\ Step(p)
GenesisBootstrap(p) ==
    /\ Of(p, "genesis")
    /\ \/ WriteProject(p, IF Cmd(p).op = "destroy" THEN "backend" ELSE "apply")
       \/ /\ At(p, "backend")
          /\ proc' = [proc EXCEPT ![p].pc = "destroy", ![p].bucket = OverriddenBucket(p, cfg)]
          /\ Step(p)
GenesisInfra(p) == Of(p, "genesis") /\ Apply(p)
GenesisRead(p) == Of(p, "genesis") /\ Read(p, FALSE)
GenesisRegister(p) ==
    /\ Of(p, "genesis")
    /\ Register(p, proc[p].loaded.saved, "provisioned",
                IF Cmd(p).runtime = "vm" THEN "mark" ELSE "connect")
GenesisApp(p) ==
    /\ Of(p, "genesis")
    /\ \/ /\ At(p, "connect")
          /\ \/ Alive(Alias(p), proc[p].host) /\ Goto(p, "installing")
             \/ Goto(p, "failed")
          /\ Step(p)
       \/ MarkInstalling(p) \/ Install(p, "mark")

(* isaac-lab: no saved backend, no health check *)

IsaacGate(p) == Deploys(p, "isaac") /\ InPlaceGate(p) /\ Step(p)
IsaacBootstrap(p) == Of(p, "isaac") /\ WriteProject(p, Infra(p, "plan"))
IsaacInfra(p) == Of(p, "isaac") /\ (Plan(p) \/ Apply(p))
IsaacRead(p) == Of(p, "isaac") /\ Read(p, FromState(p))
IsaacRegister(p) ==
    Of(p, "isaac") /\ Register(p, proc[p].loaded.saved, "provisioned", AppPc(p))
IsaacApp(p) == Of(p, "isaac") /\ (MarkInstalling(p) \/ Install(p, "mark"))

(* fiftyone *)

FiftyoneGate(p) == Deploys(p, "fiftyone") /\ InPlaceGate(p) /\ Step(p)
FiftyoneBootstrap(p) ==
    /\ Of(p, "fiftyone")
    /\ \/ WriteProject(p, "state")
       \/ SaveState(p, IF Cmd(p).op = "destroy" THEN SavedBucket(proc[p].loaded) ELSE "own",
                    Infra(p, "plan"))
FiftyoneInfra(p) == Of(p, "fiftyone") /\ (Plan(p) \/ Apply(p))
FiftyoneRead(p) == Of(p, "fiftyone") /\ Read(p, FromState(p))

\* Without Terraform the status stays until the application is looked at (the code reads
\* it at the gate, here it is read with the rest of the file).
FiftyoneRegister(p) ==
    /\ Of(p, "fiftyone")
    /\ LET kept == (Cmd(p).skipInfra \/ Cmd(p).runtime = "byovm" \/ proc[p].inPlace) /\ ~Cmd(p).skipApp
           was == proc[p].loaded.wb[Alias(p)].status
       IN  \E s \in SavedAfter(p) :
               Register(p, s, IF ~kept THEN "provisioned" ELSE IF was = "absent" THEN "unset" ELSE was,
                        AppPc(p))

\* An app that does not answer is only warned about.
FiftyoneApp(p) ==
    /\ Of(p, "fiftyone")
    /\ \/ MarkInstalling(p) \/ Install(p, "installed")
       \/ Mark(p, "installed", "provisioned", "health")
       \/ HealthCheck(p, "strategy", "done")
       \/ WriteStrategy(p)

(* cosmos *)

CosmosGate(p) == Deploys(p, "cosmos") /\ InPlaceGate(p) /\ Step(p)
CosmosBootstrap(p) ==
    /\ Of(p, "cosmos")
    /\ \/ WriteProject(p, "state")
       \/ SaveState(p, IF Cmd(p).op = "destroy" THEN OverriddenBucket(p, proc[p].loaded) ELSE "own",
                    Infra(p, "plan"))
CosmosInfra(p) == Of(p, "cosmos") /\ (Plan(p) \/ Apply(p))
CosmosRead(p) == Of(p, "cosmos") /\ Read(p, FromState(p))
CosmosRegister(p) ==
    Of(p, "cosmos") /\ \E s \in SavedAfter(p) : Register(p, s, "provisioned", AppPc(p))
CosmosApp(p) ==
    /\ Of(p, "cosmos")
    /\ \/ MarkInstalling(p) \/ Install(p, "health") \/ HealthCheck(p, "strategy", "failed")
       \/ WriteStrategy(p)

(* cleanup-partial, the same in groot, isaac-lab, fiftyone and cosmos *)

\* classify_alias_state: only an entry without a host is partial.
Classify(p) ==
    /\ At(p, "classify")
    /\ \/ (Entry(p) = NoEntry \/ IsByovm(p)) /\ Goto(p, "done")
       \/ Entry(p) # NoEntry /\ ~IsByovm(p) /\ Entry(p).host # Nowhere /\ Goto(p, "error")
       \/ /\ Entry(p) # NoEntry /\ ~IsByovm(p) /\ Entry(p).host = Nowhere
          /\ \/ /\ cfg.saved # "none"
                /\ proc' = [proc EXCEPT ![p].pc = "destroy", ![p].bucket = cfg.saved]
             \/ Goto(p, "error")
    /\ Step(p)

(* a command's life *)

Start(p) ==
    /\ At(p, "idle") /\ given < MaxCommands
    /\ given' = given + 1
    /\ \E c \in Commands :
        /\ proc' = [proc EXCEPT ![p] = [Idle EXCEPT !.cmd = c,
              !.pc = CASE c.op = "cleanup" -> "classify"
                       [] c.op = "deploy" -> "gate"
                       [] OTHER -> IF c.runtime = "byovm" THEN "remove" ELSE "bootstrap"]]
        /\ clean' = IF \/ \E q \in Procs : ~At(q, "idle") /\ Alias(q) = c.alias
                       \/ c.op = "destroy" /\ c.runtime = "byovm" /\ infra[c.alias] # Nothing
                    THEN clean \ {c.alias} ELSE clean
    /\ UNCHANGED <<cfg, infra, app, born, kills>>

End(p) ==
    /\ proc[p].pc \in {"done", "error"}
    /\ proc' = [proc EXCEPT ![p] = Idle]
    /\ Step(p)

\* Ctrl-C or worse: Terraform stops where it is, and the file that was being dumped has
\* been truncated already.
Kill(p) ==
    /\ ~At(p, "idle") /\ kills < MaxKills
    /\ kills' = kills + 1
    /\ proc' = [proc EXCEPT ![p] = Idle]
    /\ \/ cfg' = cfg /\ Disturbed(p)
       \/ proc[p].reading /\ cfg' = EmptyConfig /\ clean' = {}
    /\ \/ proc[p].pc # "apply" /\ UNCHANGED <<infra, born>>
       \/ proc[p].pc = "apply" /\ Unfinished(p)
       \/ /\ proc[p].pc = "destroy" /\ proc[p].bucket = "own" /\ UNCHANGED born
          /\ infra' = [infra EXCEPT ![Alias(p)] = [Nothing EXCEPT !.parts = TRUE]]
    /\ UNCHANGED <<app, given>>

Groot(p) ==
    \/ GrootGate(p) \/ GrootEnvUpdate(p) \/ GrootBootstrap(p) \/ GrootInfra(p)
    \/ GrootRead(p) \/ GrootRegister(p) \/ GrootApp(p)
Lerobot(p) ==
    \/ LerobotGate(p) \/ LerobotBootstrap(p) \/ LerobotInfra(p)
    \/ LerobotRead(p) \/ LerobotRegister(p) \/ LerobotApp(p)
Genesis(p) ==
    \/ GenesisGate(p) \/ GenesisBootstrap(p) \/ GenesisInfra(p)
    \/ GenesisRead(p) \/ GenesisRegister(p) \/ GenesisApp(p)
Isaac(p) ==
    \/ IsaacGate(p) \/ IsaacBootstrap(p) \/ IsaacInfra(p)
    \/ IsaacRead(p) \/ IsaacRegister(p) \/ IsaacApp(p)
Fiftyone(p) ==
    \/ FiftyoneGate(p) \/ FiftyoneBootstrap(p) \/ FiftyoneInfra(p)
    \/ FiftyoneRead(p) \/ FiftyoneRegister(p) \/ FiftyoneApp(p)
Cosmos(p) ==
    \/ CosmosGate(p) \/ CosmosBootstrap(p) \/ CosmosInfra(p)
    \/ CosmosRead(p) \/ CosmosRegister(p) \/ CosmosApp(p)

Next ==
    \E p \in Procs :
        \/ Start(p) \/ End(p) \/ Kill(p)
        \/ Load(p) \/ Bootstrap(p) \/ Destroy(p) \/ RemoveEntry(p)
        \/ MarkHealthy(p) \/ MarkFailed(p) \/ Classify(p)
        \/ Groot(p) \/ Lerobot(p) \/ Genesis(p) \/ Isaac(p) \/ Fiftyone(p) \/ Cosmos(p)

Spec == Init /\ [][Next]_vars

-----------------------------------------------------------------------------
Entries ==
    [host : Hosts, runtime : {"none", "vm", "container", "byovm"}, tool : Tools \cup {"none"},
     status : {"absent", "unset", "provisioned", "installing", "install_failed", "healthy"}]
Configs == [saved : {"none", "own", "other"}, wb : [Aliases -> Entries]]
Pcs == Writes \cup {"idle", "gate", "env", "bootstrap", "plan", "apply", "destroy", "read",
                    "install", "health", "connect", "backend", "classify", "done", "error"}
Processes ==
    [pc : Pcs, cmd : CommandLines, host : Hosts, inPlace : BOOLEAN, bucket : {"own", "other"},
     seen : Vms \cup {Nowhere}, reading : BOOLEAN, loaded : Configs]

\* Between commands a terminal remembers nothing, so the next command starts afresh.
TypeOK ==
    /\ cfg \in Configs
    /\ infra \in [Aliases -> [vm : Vms \cup {Nowhere}, tool : Tools \cup {"none"},
                              gpu : Gpus \cup {"none"}, parts : BOOLEAN]]
    /\ app \in [Aliases -> [Hosts -> {"none", "up", "down"}]]
    /\ proc \in [Procs -> Processes]
    /\ \A p \in Procs : At(p, "idle") => proc[p] = Idle
    /\ born \in 0..MaxCommands /\ given \in 0..MaxCommands /\ kills \in 0..MaxKills
    /\ clean \subseteq Aliases

Quiet(a) == \A p \in Procs : At(p, "idle") \/ Alias(p) # a

\* What runs is on record and what is on record runs: unless commands overlapped, one was
\* killed, Terraform failed or an alias with a VM was unregistered as if it were the
\* operator's own host (--destroy --runtime byovm does not ask) since a deploy last ran
\* Terraform, the cloud holds something for an alias only if the alias has an entry, and
\* the entry's host is there.
RecordedIsThere ==
    \A a \in clean : Quiet(a) =>
        \/ cfg.wb[a] = NoEntry /\ infra[a] = Nothing
        \/ cfg.wb[a] # NoEntry /\ Alive(a, cfg.wb[a].host)

\* A status of healthy is earned: the server answered on the host the entry names. Genesis
\* and isaac-lab never ask.
HealthyIsEarned ==
    \A a \in clean : Quiet(a) /\ cfg.wb[a].status = "healthy" =>
        \/ app[a][cfg.wb[a].host] = "up"
        \/ cfg.wb[a].tool \in {"genesis", "isaac"}

\* Only who asked for it takes a VM down: deploy --destroy, cleanup-partial, --replace, the
\* two tools that apply without a plan, and a VM the plan had not seen (apply plans anew).
ReplacedOnPurpose ==
    [][\A a \in Aliases : infra[a].vm # Nowhere /\ infra'[a].vm # infra[a].vm =>
           \E p \in Procs :
               /\ At(p, "apply") \/ At(p, "destroy")
               /\ Alias(p) = a
               /\ \/ Cmd(p).op # "deploy" \/ Cmd(p).replace
                  \/ Cmd(p).tool \in {"lerobot", "genesis"}
                  \/ proc[p].seen # infra[a].vm]_vars
=============================================================================
