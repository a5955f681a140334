---------------------------- MODULE ManagedCluster ----------------------------
(***************************************************************************)
(* One managed Kubernetes cluster target of npa (cluster/api.py and        *)
(* cluster/state.py, cli/cluster): npa cluster deploy, destroy, status,    *)
(* list, up and down, and npa cluster node-group add, remove and list.     *)
(*                                                                         *)
(* Several terminals give commands for the same target.  Each step is one  *)
(* call of the nebius CLI or terraform, with its retries, or one access to *)
(* the target's directory under ~/.npa/clusters, which nobody locks.  The  *)
(* cloud allows one cluster of a name, and one node group of a name in it. *)
(***************************************************************************)
EXTENDS Naturals

CONSTANTS
    Terminals,
    Retries,        \* MK8sClient.retries
    MaxCommands,    \* bound: commands given
    MaxIds,         \* bound: clusters and GPU groups made
    MaxKills        \* bound: commands that die

ASSUME BoundAssumption == Retries \in Nat \ {0} /\ {MaxCommands, MaxIds, MaxKills} \subseteq Nat

VARIABLES
    \* the cloud
    cluster,    \* the cluster of that name: its id and state
    cpu,        \* state of its first node group, name-cpu
    gpu,        \* its GPU node group: id and state
    \* files
    local,      \* cluster.json: cluster_id, and whether kubeconfig_path is set
    groupFile,  \* node-groups/*.json: node_group_id
    kubeconfig, \* the cluster whose credentials the kubeconfig holds
    tf,         \* the cluster in the terraform state
    \* the commands
    proc,       \* per terminal its command line, position and locals
    given,      \* commands so far
    ids,        \* ids the cloud has given out
    kills,      \* commands that died
    \* history
    told,       \* clusters whose name a command that failed or died had announced
    vouched,    \* clusters a command has reported ready
    crossed,    \* which kinds of commands overlapped
    misread     \* what destroy and remove gave up because a query of it failed

cloudVars == <<cluster, cpu, gpu, ids>>
fileVars == <<local, groupFile, kubeconfig>>
historyVars == <<told, vouched, crossed, misread>>
vars == <<cloudVars, fileVars, tf, proc, given, kills, historyVars>>

None == 0
NoCluster == [id |-> None, state |-> "none"]
NoRecord == [id |-> None, kube |-> FALSE]
Idle == [pc |-> "idle", op |-> "none", wait |-> FALSE, id |-> None, gid |-> None, made |-> None,
         snap |-> NoRecord, gsnap |-> None, tries |-> 0, seen |-> "none"]

\* The target is new, or was deployed, or was brought up by terraform.
Init ==
    /\ \E way \in {"none", "deploy", "up"} :
        /\ cluster = IF way = "none" THEN NoCluster ELSE [id |-> 1, state |-> "running"]
        /\ cpu = IF way = "none" THEN "none" ELSE "running"
        /\ local = IF way = "none" THEN NoRecord ELSE [id |-> 1, kube |-> TRUE]
        /\ kubeconfig = IF way = "none" THEN None ELSE 1
        /\ tf = IF way = "up" THEN 1 ELSE None
        /\ ids = IF way = "none" THEN 0 ELSE 1
        /\ vouched = IF way = "none" THEN {} ELSE {1}
    /\ gpu = NoCluster /\ groupFile = None
    /\ proc = [t \in Terminals |-> Idle]
    /\ given = 0 /\ kills = 0 /\ told = {} /\ crossed = {} /\ misread = {}

At(t, pc) == proc[t].pc = pc
Busy(t) == ~At(t, "idle") /\ ~At(t, "done")
Goto(t, pc) == proc' = [proc EXCEPT ![t].pc = pc]
\* What a finished command leaves to see is a deletion that it reported with exit code 0.
Ended(p, code) ==
    IF code = "zero" /\ p.op \in {"destroy", "remove"}
    THEN [Idle EXCEPT !.pc = "done", !.op = p.op, !.id = p.id, !.gid = p.gid] ELSE Idle
Exits(t, code) == proc' = [proc EXCEPT ![t] = Ended(@, code)]

\* get_cluster by id or name; get_node_group likewise.
Exists(id) == cluster.state # "none" /\ cluster.id = id
GroupExists(gid) == gpu.state # "none" /\ gpu.id = gid
Usable == cluster.state \notin {"none", "deleting"}

\* A command that creates has said what it is creating before it fails or is killed, so its
\* operator knows of the cluster that bears the name then.
Tells(t) == told' = IF proc[t].op \in {"deploy", "up"} THEN told \cup {cluster'.id} ELSE told
Fails(t) == Exits(t, "one") /\ Tells(t)

Ops == {"deploy", "destroy", "status", "list", "up", "down", "add", "remove", "groups"}
Entry(op) == CASE op = "deploy" -> "find" [] op = "up" -> "guard" [] op = "down" -> "tfdestroy"
               [] OTHER -> "load"

\* The overlaps that the properties except: two commands that write cluster.json, and of these
\* two deploys.
Writers == {"deploy", "up", "destroy", "status", "list"}
Overlap(op, other) ==
    (IF {op, other} \subseteq Writers THEN {"record"} ELSE {})
      \cup (IF {op, other} = {"deploy"} THEN {"deploy"} ELSE {})

Start(t) ==
    /\ At(t, "idle") /\ given < MaxCommands
    /\ given' = given + 1
    /\ \E op \in Ops, wait \in BOOLEAN :
        /\ wait => op \in {"deploy", "up", "add"}
        /\ proc' = [proc EXCEPT ![t] = [Idle EXCEPT !.pc = Entry(op), !.op = op, !.wait = wait]]
        /\ crossed' = crossed \cup UNION {Overlap(op, proc[u].op) : u \in {v \in Terminals : Busy(v)}}
    /\ UNCHANGED <<cloudVars, fileVars, tf, kills, told, vouched, misread>>

End(t) ==
    /\ At(t, "done")
    /\ proc' = [proc EXCEPT ![t] = Idle]
    /\ UNCHANGED <<cloudVars, fileVars, tf, given, kills, historyVars>>

\* Ctrl-C or a dead process: no except clause of these commands handles it.
Kill(t) ==
    /\ Busy(t) /\ kills < MaxKills
    /\ kills' = kills + 1
    /\ proc' = [proc EXCEPT ![t] = Idle]
    /\ UNCHANGED <<cloudVars, fileVars, tf, given, vouched, crossed, misread>>
    /\ Tells(t)

\* What a step that only reads or calls leaves alone.
SameRest == UNCHANGED <<tf, given, kills, crossed>>
CallOnly == SameRest /\ UNCHANGED <<fileVars, vouched>>
ReadOnly == CallOnly /\ UNCHANGED cloudVars
FileOnly == SameRest /\ UNCHANGED <<cloudVars, told>>

-----------------------------------------------------------------------------
(* npa cluster deploy *)

FindCluster(t) ==
    /\ At(t, "find") /\ ReadOnly
    /\ \/ /\ IF cluster.state = "none" THEN Goto(t, "create")
             ELSE proc' = [proc EXCEPT ![t].pc = "groups", ![t].id = cluster.id]
          /\ UNCHANGED told
       \/ Fails(t)

\* An existing cluster is taken over as it is, if it has a node group.
AdoptCluster(t) ==
    /\ At(t, "groups") /\ ReadOnly
    /\ \/ /\ Goto(t, IF Exists(proc[t].id) /\ (cpu # "none" \/ gpu.state # "none") THEN "save" ELSE "cpu")
          /\ UNCHANGED told
       \/ Fails(t)

\* _run: an attempt that timed out or met a transient error is repeated.
Again(t) == proc[t].tries + 1 < Retries
Retry(t) == proc' = [proc EXCEPT ![t].tries = @ + 1] /\ UNCHANGED told

MakeCluster ==
    /\ cluster.state = "none" /\ ids < MaxIds
    /\ ids' = ids + 1
    /\ cluster' = [id |-> ids + 1, state |-> "provisioning"]
    /\ UNCHANGED <<cpu, gpu>>

CreateCluster(t) ==
    /\ At(t, "create")
    /\ \/ /\ MakeCluster
          /\ \/ /\ proc' = [proc EXCEPT ![t].pc = "cpu", ![t].id = ids', ![t].made = ids', ![t].tries = 0]
                /\ UNCHANGED told
             \/ /\ Again(t)                                        \* carried out, not answered
                /\ proc' = [proc EXCEPT ![t].tries = @ + 1, ![t].made = ids'] /\ UNCHANGED told
             \/ Fails(t)
       \/ UNCHANGED cloudVars /\ ((Again(t) /\ Retry(t)) \/ Fails(t)) \* refused, or not answered
    /\ CallOnly

\* The except clause of create_cluster, which a cluster that was found is not subject to.
CreationFails(t) == IF proc[t].made # None THEN Goto(t, "rollback") /\ UNCHANGED told ELSE Fails(t)

CreateCpuGroup(t) ==
    /\ At(t, "cpu")
    /\ \/ /\ Exists(proc[t].id) /\ Usable /\ cpu = "none"
          /\ cpu' = "provisioning" /\ UNCHANGED <<cluster, gpu, ids>>
          /\ \/ Goto(t, "save") /\ UNCHANGED told
             \/ Again(t) /\ Retry(t)
             \/ CreationFails(t)
       \/ UNCHANGED cloudVars /\ ((Again(t) /\ Retry(t)) \/ CreationFails(t))
    /\ CallOnly

\* nebius mk8s cluster delete.
TakeDown(id) ==
    /\ cluster' = IF Exists(id) THEN [cluster EXCEPT !.state = "deleting"] ELSE cluster
    /\ UNCHANGED <<cpu, gpu, ids>>

\* delete_cluster, whose errors are dropped.
Rollback(t) ==
    /\ At(t, "rollback")
    /\ TakeDown(proc[t].id) \/ UNCHANGED cloudVars
    /\ Fails(t)
    /\ CallOnly

SaveCluster_KeepsPath(id) == local' = [id |-> id, kube |-> local.kube]
\* save_cluster_state with the state of _state_from_cluster, which has no kubeconfig path.
SaveCluster(id) == local' = [id |-> id, kube |-> FALSE]

SaveState(t) ==
    /\ At(t, "save")
    /\ SaveCluster(proc[t].id)
    /\ Goto(t, IF proc[t].wait THEN "ready" ELSE "credentials")
    /\ UNCHANGED <<groupFile, kubeconfig, vouched>> /\ FileOnly

PollCluster_CleansUp(t) ==                   \* a deploy that does not get ready is cleaned up
    /\ At(t, "ready") /\ ReadOnly
    /\ \/ /\ Exists(proc[t].id)
          /\ proc' = [proc EXCEPT ![t].pc = "readygroups", ![t].seen = cluster.state]
       \/ Goto(t, "rollback")
    /\ UNCHANGED told
\* wait_for_ready: get_cluster, then list_node_groups, in each round.
PollCluster(t) ==
    /\ At(t, "ready") /\ ReadOnly
    /\ \/ /\ Exists(proc[t].id)
          /\ proc' = [proc EXCEPT ![t].pc = "readygroups", ![t].seen = cluster.state]
          /\ UNCHANGED told
       \/ Fails(t)                           \* an error, not found, the deadline

GroupStates(id) == IF Exists(id) THEN {cpu, gpu.state} ELSE {}

PollGroups(t) ==
    /\ At(t, "readygroups") /\ ReadOnly
    /\ LET groups == GroupStates(proc[t].id)
           failed == "error" \in {proc[t].seen} \cup groups
           ready == proc[t].seen = "running" /\ "running" \in groups
       IN  \/ /\ ~failed
             /\ proc' = [proc EXCEPT ![t].pc = IF ready THEN "resave" ELSE "ready", ![t].seen = "none"]
             /\ UNCHANGED told
           \/ Fails(t)

SaveReady(t) ==
    /\ At(t, "resave")
    /\ SaveCluster(proc[t].id)
    /\ vouched' = vouched \cup {proc[t].id}
    /\ Goto(t, "credentials")
    /\ UNCHANGED <<groupFile, kubeconfig>> /\ FileOnly

\* get-credentials --force, of deploy and up.
WriteKubeconfig(t) ==
    /\ At(t, "credentials") /\ UNCHANGED cloudVars
    /\ \/ /\ Exists(proc[t].id)
          /\ kubeconfig' = proc[t].id
          /\ Goto(t, "finalsave") /\ UNCHANGED told
       \/ Fails(t) /\ UNCHANGED kubeconfig
    /\ UNCHANGED <<local, groupFile, vouched>> /\ SameRest

SaveWithKubeconfig(t) ==
    /\ At(t, "finalsave")
    /\ local' = [id |-> proc[t].id, kube |-> TRUE]
    /\ IF proc[t].op = "up" /\ proc[t].wait THEN Goto(t, "validate") ELSE Exits(t, "zero")
    /\ UNCHANGED <<groupFile, kubeconfig, vouched>> /\ FileOnly

Deploy(t) ==
    /\ \/ FindCluster(t) \/ AdoptCluster(t) \/ CreateCluster(t) \/ CreateCpuGroup(t) \/ Rollback(t)
       \/ SaveState(t) \/ PollCluster(t) \/ PollGroups(t) \/ SaveReady(t)
       \/ WriteKubeconfig(t) \/ SaveWithKubeconfig(t)
    /\ UNCHANGED misread

-----------------------------------------------------------------------------
(* npa cluster up and down, over terraform *)

\* _guard_unmanaged_duplicate.
Guard(t) ==
    /\ At(t, "guard") /\ ReadOnly
    /\ \/ /\ cluster.state = "none" \/ cluster.id = tf
          /\ Goto(t, "apply") /\ UNCHANGED told
       \/ Fails(t)

\* terraform apply: nothing to do, a creation, or a failure.
Apply(t) ==
    /\ At(t, "apply") /\ UNCHANGED tf
    /\ \/ /\ Exists(tf) /\ Usable /\ UNCHANGED cloudVars
          /\ proc' = [proc EXCEPT ![t].pc = "credentials", ![t].id = tf] /\ UNCHANGED told
       \/ /\ MakeCluster
          /\ proc' = [proc EXCEPT ![t].pc = "applying", ![t].made = ids'] /\ UNCHANGED told
       \/ UNCHANGED cloudVars /\ Fails(t)
    /\ UNCHANGED <<fileVars, vouched, given, kills, crossed>>

\* It waits for what it made; one that is killed at the timeout has not written its state.
Applied(t) ==
    /\ At(t, "applying") /\ UNCHANGED <<cluster, gpu, ids>>
    /\ \/ /\ Exists(proc[t].made) /\ cluster.state = "running"
          /\ cpu' = "running" /\ tf' = proc[t].made
          /\ proc' = [proc EXCEPT ![t].pc = "credentials", ![t].id = proc[t].made] /\ UNCHANGED told
       \/ UNCHANGED cpu /\ tf' \in {tf, proc[t].made} /\ Fails(t)
    /\ UNCHANGED <<fileVars, vouched, given, kills, crossed>>

\* _validate_cluster.
Validate(t) ==
    /\ At(t, "validate") /\ UNCHANGED cloudVars
    /\ \/ /\ Exists(proc[t].id)
          /\ vouched' = vouched \cup {proc[t].id}
          /\ Exits(t, "zero") /\ UNCHANGED told
       \/ Fails(t) /\ UNCHANGED vouched
    /\ SameRest /\ UNCHANGED fileVars

\* terraform destroy, which waits for the cluster to go; the target's directory stays.
TerraformDestroy(t) ==
    /\ At(t, "tfdestroy")
    /\ \/ /\ IF Exists(tf) THEN cluster' = NoCluster /\ cpu' = "none" /\ gpu' = NoCluster
             ELSE UNCHANGED <<cluster, cpu, gpu>>
          /\ tf' = None /\ Exits(t, "zero") /\ UNCHANGED ids
       \/ Exits(t, "one") /\ UNCHANGED tf /\ (TakeDown(tf) \/ UNCHANGED cloudVars)
    /\ UNCHANGED <<fileVars, given, kills, told, vouched, crossed>>

Terraform(t) ==
    /\ Guard(t) \/ Apply(t) \/ Applied(t) \/ Validate(t) \/ TerraformDestroy(t)
    /\ UNCHANGED misread

-----------------------------------------------------------------------------
(* The commands that begin with the local record *)

\* load_cluster_state, list_local_clusters, and remove's load_node_group_state.
Load(t) ==
    /\ At(t, "load")
    /\ proc' = [proc EXCEPT ![t].pc = "target", ![t].snap = local,
                            ![t].gsnap = IF proc[t].op = "remove" THEN groupFile ELSE None]
    /\ UNCHANGED <<fileVars, vouched>> /\ FileOnly

\* By the recorded id if there is a record, else by name; list_cmd by name first.
Found(t) ==
    /\ cluster.state # "none"
    /\ proc[t].snap.id = None \/ proc[t].op = "list" \/ cluster.id = proc[t].snap.id

AfterTarget == [destroy |-> "delete", status |-> "writeback", list |-> "writeback",
                add |-> "addgroup", remove |-> "findgroup", groups |-> "readgroups"]

WithTarget(t) ==
    IF AfterTarget[proc[t].op] = "writeback" /\ proc[t].snap.id = None THEN Exits(t, "zero")
    ELSE proc' = [proc EXCEPT ![t].pc = AfterTarget[proc[t].op], ![t].id = cluster.id]

\* Not found: destroy and remove forget what they have on record.
WithoutTarget(t) ==
    CASE proc[t].op = "destroy" /\ proc[t].snap.id # None ->
            proc' = [proc EXCEPT ![t].pc = "forget", ![t].id = proc[t].snap.id] /\ UNCHANGED told
      [] proc[t].op = "remove" /\ proc[t].gsnap # None -> Goto(t, "forgetgroup") /\ UNCHANGED told
      [] proc[t].op \in {"add", "groups"} -> Fails(t)
      [] OTHER -> Exits(t, "zero") /\ UNCHANGED told

\* get_cluster and get_node_group ask by id and, if that query fails for any reason, by name with
\* the id as the name: the "not found" of the second hides the error of the first.  What is there
\* is then given up.
GivesUp(id, there) == misread' = IF there THEN misread \cup {id} ELSE misread

\* _find_destroy_target, _resolve_cluster, and the lookups of status and list.
FindTarget(t) ==
    /\ At(t, "target") /\ ReadOnly
    /\ \/ Found(t) /\ WithTarget(t) /\ UNCHANGED <<told, misread>>
       \/ /\ ~Found(t) \/ Exists(proc[t].snap.id)
          /\ WithoutTarget(t)
          /\ GivesUp(proc[t].snap.id, Exists(proc[t].snap.id) /\ proc[t].op = "destroy")
       \/ Fails(t) /\ UNCHANGED misread

DeleteCluster_DropsErrors(t) ==              \* a refused deletion counts as done
    /\ At(t, "delete")
    /\ \/ TakeDown(proc[t].id) /\ Goto(t, "gone")
       \/ UNCHANGED cloudVars /\ Goto(t, "forget")
    /\ UNCHANGED <<told, misread>>
    /\ CallOnly
\* delete_cluster looks the cluster up again, and does nothing if that finds none.
DeleteCluster(t) ==
    /\ At(t, "delete")
    /\ \/ TakeDown(proc[t].id) /\ ((Goto(t, "gone") /\ UNCHANGED told) \/ Fails(t))
       \/ UNCHANGED cloudVars /\ ((Goto(t, "gone") /\ UNCHANGED told) \/ Fails(t))
    /\ CallOnly /\ UNCHANGED misread

WaitGone_Quits(t) ==                         \* the deadline ends it well
    /\ At(t, "gone") /\ ReadOnly
    /\ Goto(t, "forget") /\ UNCHANGED <<told, misread>>
\* wait_for_deleted: only "not found" ends it well.
WaitGone(t) ==
    /\ At(t, "gone") /\ ReadOnly
    /\ \/ /\ Goto(t, "forget") /\ UNCHANGED told
          /\ GivesUp(proc[t].id, Exists(proc[t].id))
       \/ Fails(t) /\ UNCHANGED misread

\* delete_cluster_state removes the whole directory.
Forget(t) ==
    /\ At(t, "forget")
    /\ local' = NoRecord /\ groupFile' = None /\ kubeconfig' = None
    /\ Exits(t, "zero")
    /\ UNCHANGED vouched /\ FileOnly

\* _row_for_cluster saves the record it has loaded, with a new last_seen_state.
WriteBack(t) ==
    /\ At(t, "writeback")
    /\ \/ local' = proc[t].snap /\ Exits(t, "zero")
       \/ UNCHANGED local /\ Exits(t, "one")          \* list_node_groups fails
    /\ UNCHANGED <<groupFile, kubeconfig, vouched>> /\ FileOnly

OnRecord(t) ==
    \/ FindTarget(t) \/ DeleteCluster(t) \/ WaitGone(t)
    \/ (Load(t) \/ Forget(t) \/ WriteBack(t)) /\ UNCHANGED misread

-----------------------------------------------------------------------------
(* npa cluster node-group *)

AddGroup(t) ==
    /\ At(t, "addgroup")
    /\ \/ /\ Exists(proc[t].id) /\ Usable /\ gpu.state = "none" /\ ids < MaxIds
          /\ ids' = ids + 1 /\ gpu' = [id |-> ids + 1, state |-> "provisioning"]
          /\ UNCHANGED <<cluster, cpu>>
          /\ \/ proc' = [proc EXCEPT ![t].pc = "savegroup", ![t].gid = ids + 1] /\ UNCHANGED told
             \/ Again(t) /\ Retry(t)
             \/ Fails(t)
       \/ UNCHANGED cloudVars /\ ((Again(t) /\ Retry(t)) \/ Fails(t))
    /\ CallOnly

SaveGroup(t) ==
    /\ At(t, "savegroup")
    /\ groupFile' = proc[t].gid
    /\ IF proc[t].wait
       THEN proc' = [proc EXCEPT ![t].pc = "groupready", ![t].wait = FALSE]
       ELSE Exits(t, "zero")
    /\ UNCHANGED <<local, kubeconfig, vouched>> /\ FileOnly

\* wait_for_node_group_ready, then the second save.
WaitGroupReady(t) ==
    /\ At(t, "groupready") /\ ReadOnly
    /\ \/ GroupExists(proc[t].gid) /\ gpu.state = "running" /\ Goto(t, "savegroup") /\ UNCHANGED told
       \/ Fails(t)

\* By the recorded id, then by name.
FindGroup(t) ==
    /\ At(t, "findgroup") /\ ReadOnly
    /\ \/ /\ GroupExists(proc[t].gsnap) \/ (Exists(proc[t].id) /\ gpu.state # "none")
          /\ proc' = [proc EXCEPT ![t].pc = "deletegroup", ![t].gid = gpu.id]
          /\ UNCHANGED <<told, misread>>
       \/ /\ IF proc[t].gsnap = None THEN Exits(t, "zero")
             ELSE proc' = [proc EXCEPT ![t].pc = "forgetgroup", ![t].gid = proc[t].gsnap]
          /\ GivesUp(proc[t].gsnap, GroupExists(proc[t].gsnap)) /\ UNCHANGED told
       \/ Fails(t) /\ UNCHANGED misread

\* delete_node_group, which does nothing if its own lookup finds none.
DeleteGroup(t) ==
    /\ At(t, "deletegroup")
    /\ \/ /\ gpu' = IF GroupExists(proc[t].gid) THEN [gpu EXCEPT !.state = "deleting"] ELSE gpu
          /\ UNCHANGED <<cluster, cpu, ids>>
       \/ UNCHANGED cloudVars
    /\ (Goto(t, "groupgone") /\ UNCHANGED told) \/ Fails(t)
    /\ CallOnly /\ UNCHANGED misread

\* wait_for_node_group_deleted.
WaitGroupGone(t) ==
    /\ At(t, "groupgone") /\ ReadOnly
    /\ \/ /\ Goto(t, "forgetgroup") /\ UNCHANGED told
          /\ GivesUp(proc[t].gid, GroupExists(proc[t].gid))
       \/ Fails(t) /\ UNCHANGED misread

ForgetGroup(t) ==
    /\ At(t, "forgetgroup")
    /\ groupFile' = None
    /\ Exits(t, "zero")
    /\ UNCHANGED <<local, kubeconfig, vouched>> /\ FileOnly

\* _collect_rows: the files, then list_node_groups.
ReadGroups(t) ==
    /\ At(t, "readgroups")
    /\ proc' = [proc EXCEPT ![t].pc = "lookgroups", ![t].gsnap = groupFile]
    /\ UNCHANGED <<fileVars, vouched>> /\ FileOnly

LookGroups(t) ==
    /\ At(t, "lookgroups") /\ ReadOnly
    /\ \/ /\ IF Exists(proc[t].id) /\ gpu.state # "none" /\ proc[t].gsnap # None
             THEN proc' = [proc EXCEPT ![t].pc = "writegroup", ![t].gid = gpu.id]
             ELSE Exits(t, "zero")
          /\ UNCHANGED told
       \/ Fails(t)

\* _row_for_node_group.
WriteGroup(t) ==
    /\ At(t, "writegroup")
    /\ groupFile' = proc[t].gid
    /\ Exits(t, "zero")
    /\ UNCHANGED <<local, kubeconfig, vouched>> /\ FileOnly

NodeGroups(t) ==
    \/ FindGroup(t) \/ DeleteGroup(t) \/ WaitGroupGone(t)
    \/ /\ \/ AddGroup(t) \/ SaveGroup(t) \/ WaitGroupReady(t) \/ ForgetGroup(t)
          \/ ReadGroups(t) \/ LookGroups(t) \/ WriteGroup(t)
       /\ UNCHANGED misread

-----------------------------------------------------------------------------
(* The cloud *)

ClusterSettles ==
    /\ cluster.state = "provisioning"
    /\ \E s \in {"running", "error"} : cluster' = [cluster EXCEPT !.state = s]
    /\ UNCHANGED <<cpu, gpu, ids>>

GroupSettles ==
    /\ Usable
    /\ \E s \in {"running", "error"} :
        \/ cpu = "provisioning" /\ cpu' = s /\ UNCHANGED gpu
        \/ gpu.state = "provisioning" /\ gpu' = [gpu EXCEPT !.state = s] /\ UNCHANGED cpu
    /\ UNCHANGED <<cluster, ids>>

ClusterGoes ==
    /\ cluster.state = "deleting"
    /\ cluster' = NoCluster /\ cpu' = "none" /\ gpu' = NoCluster
    /\ UNCHANGED ids

GroupGoes ==
    /\ gpu.state = "deleting"
    /\ gpu' = NoCluster
    /\ UNCHANGED <<cluster, cpu, ids>>

Cloud ==
    /\ ClusterSettles \/ GroupSettles \/ ClusterGoes \/ GroupGoes
    /\ UNCHANGED <<fileVars, tf, proc, given, kills, historyVars>>

Next ==
    \/ Cloud
    \/ \E t \in Terminals :
         Start(t) \/ End(t) \/ Kill(t) \/ Deploy(t) \/ Terraform(t) \/ OnRecord(t) \/ NodeGroups(t)

Spec == Init /\ [][Next]_vars

-----------------------------------------------------------------------------
(* Properties *)

\* A cluster that is there and not on its way out is on record, in cluster.json or in the
\* terraform state, or in the hands of a command that makes it, or one that failed or was killed
\* has named it; except where a command that removes or rewrites the record overlapped, and where
\* destroy gave it up because a query of it had failed (api.py:313).
NoClusterIsForgotten ==
    Usable =>
        \/ cluster.id \in {local.id, tf} \cup told \cup misread
        \/ \E t \in Terminals : Busy(t) /\ cluster.id \in {proc[t].id, proc[t].made}
        \/ "record" \in crossed

\* A cluster that was reported ready is taken down by destroy or down alone: a deploy that finds
\* it and fails must not clean it up.  A deploy that made it may, when another deploy that ran at
\* the same time has reported it ready.
DeployedIsKept ==
    [][\A id \in vouched :
         (cluster.id = id /\ Usable /\ ~(cluster'.id = id /\ Usable')) =>
           \E t \in Terminals :
             \/ proc[t].pc \in {"delete", "tfdestroy"} /\ proc'[t].pc # proc[t].pc
             \/ At(t, "rollback") /\ proc[t].made = id /\ "deploy" \in crossed]_vars

\* The cluster or node group that a destroy or node-group remove that exits with zero has deleted,
\* or not found any more, is gone; except where its own query of it failed and was read as "not
\* found" (api.py:313, 367). A remove that does not find the cluster only says so, and nothing of
\* the group.
GoneMeansGone ==
    \A t \in Terminals : At(t, "done") =>
        /\ proc[t].op = "destroy" => ~Exists(proc[t].id) \/ proc[t].id \in misread
        /\ proc[t].op = "remove" => ~GroupExists(proc[t].gid) \/ proc[t].gid \in misread

\* A record that names a kubeconfig never comes with the credentials of an earlier cluster.
KubeconfigIsOfRecord == local.kube => kubeconfig >= local.id \/ "record" \in crossed
===============================================================================
