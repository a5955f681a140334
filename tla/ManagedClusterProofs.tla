--------------------------- MODULE ManagedClusterProofs ---------------------------
(* What the commands on a cluster target report, and what the records under  *)
(* ~/.npa/clusters are worth, for any number of terminals, retries, commands *)
(* and deaths.                                                               *)
EXTENDS ManagedCluster, TLAPS

USE DEF None, At, cloudVars, fileVars, historyVars

Pcs == {"idle", "done", "find", "groups", "create", "cpu", "rollback", "save", "ready",
        "readygroups", "resave", "credentials", "finalsave", "guard", "apply", "applying",
        "validate", "tfdestroy", "load", "target", "delete", "gone", "forget", "writeback",
        "addgroup", "savegroup", "groupready", "findgroup", "deletegroup", "groupgone",
        "forgetgroup", "readgroups", "lookgroups", "writegroup"}
States == {"none", "provisioning", "running", "error", "deleting"}
Records == [id : Nat, kube : BOOLEAN]
Processes ==
    [pc : Pcs, op : Ops \cup {"none"}, wait : BOOLEAN, id : Nat, gid : Nat, made : Nat,
     snap : Records, gsnap : Nat, tries : Nat, seen : States]

TypeOK ==
    /\ cluster \in [id : Nat, state : States] /\ cpu \in States
    /\ gpu \in [id : Nat, state : States] /\ ids \in Nat
    /\ local \in Records /\ groupFile \in Nat /\ kubeconfig \in Nat /\ tf \in Nat
    /\ proc \in [Terminals -> Processes]
    /\ given \in Nat /\ kills \in Nat
    /\ told \subseteq Nat /\ vouched \subseteq Nat /\ crossed \subseteq {"record", "deploy"}
    /\ misread \subseteq Nat


\* Where each command can be.
Places ==
    [none |-> {"idle"}, down |-> {"tfdestroy"},
     deploy |-> {"find", "groups", "create", "cpu", "rollback", "save", "ready", "readygroups",
                 "resave", "credentials", "finalsave"},
     up |-> {"guard", "apply", "applying", "credentials", "finalsave", "validate"},
     destroy |-> {"load", "target", "delete", "gone", "forget", "done"},
     status |-> {"load", "target", "writeback"}, list |-> {"load", "target", "writeback"},
     add |-> {"load", "target", "addgroup", "savegroup", "groupready"},
     remove |-> {"load", "target", "findgroup", "deletegroup", "groupgone", "forgetgroup", "done"},
     groups |-> {"load", "target", "readgroups", "lookgroups", "writegroup"}]

\* Nothing of that id is among c, a cluster or a node group.
Gone(c, id) == c.state = "none" \/ c.id # id

\* What is known of the locals of a command p, when n ids are given out and the cloud has the
\* cluster c and the GPU group g and m was given up: what it deleted is gone once it is about to
\* forget it, or it gave it up, and what it may roll back is what it made.
Local(p, n, c, g, m) ==
    /\ p \in Processes /\ p.pc \in Places[p.op]
    /\ p.id <= n /\ p.gid <= n /\ p.made <= n /\ p.snap.id <= n /\ p.gsnap <= n
    /\ p.pc \in {"load", "target"} => p.id = 0 /\ p.gid = 0
    /\ p.pc = "findgroup" => p.gid = 0
    /\ p.pc \in {"find", "groups"} => p.made = 0
    /\ p.pc = "rollback" => p.made # 0
    /\ p.pc \in {"cpu", "rollback"} /\ p.made # 0 => p.id = p.made
    /\ p.op = "destroy" /\ p.pc \in {"forget", "done"} => Gone(c, p.id) \/ p.id \in m
    /\ p.op = "remove" /\ p.pc \in {"forgetgroup", "done"} => Gone(g, p.gid) \/ p.gid \in m

\* Ids are given out once.
Bounded ==
    /\ cluster.id <= ids /\ gpu.id <= ids /\ tf <= ids /\ local.id <= ids /\ groupFile <= ids
    /\ cluster.state # "none" => cluster.id # 0
    /\ gpu.state # "none" => gpu.id # 0
    /\ \A id \in vouched : id <= ids

Inv ==
    /\ TypeOK /\ Bounded
    /\ \A t \in Terminals : Local(proc[t], ids, cluster, gpu, misread)

-----------------------------------------------------------------------------
(* What a step does to the command that takes it, and to the world *)

\* Command t goes on with the locals q, and no other command is touched.
Becomes(t, q) == proc' = [proc EXCEPT ![t] = q]

\* The world stays of its kind, and what is gone does not come back.
WorldMoves ==
    /\ cluster' \in [id : Nat, state : States] /\ cpu' \in States
    /\ gpu' \in [id : Nat, state : States] /\ ids' \in Nat
    /\ local' \in Records /\ groupFile' \in Nat /\ kubeconfig' \in Nat /\ tf' \in Nat
    /\ given' \in Nat /\ kills' \in Nat
    /\ told' \subseteq Nat /\ vouched' \subseteq Nat /\ crossed' \subseteq {"record", "deploy"}
    /\ Bounded' /\ ids <= ids' /\ misread' \subseteq Nat /\ misread \subseteq misread'
    /\ \A id \in Nat : id <= ids /\ Gone(cluster, id) => Gone(cluster', id)
    /\ \A id \in Nat : id <= ids /\ Gone(gpu, id) => Gone(gpu', id)

\* What was given up stays so.
Kept == misread' \subseteq Nat /\ misread \subseteq misread'

\* The two together.
Steps(t) ==
    /\ WorldMoves
    /\ \E q : Becomes(t, q) /\ Local(q, ids', cluster', gpu', misread')

LEMMA IdleIsLocal ==
  ASSUME NEW n \in Nat, NEW c, NEW g, NEW m
  PROVE Local(Idle, n, c, g, m)
BY DEF Idle, Local, Places, Processes, Pcs, States, Records, NoRecord

\* A command that fails or is killed leaves nothing of itself.
LEMMA Failing ==
  ASSUME Inv, NEW t \in Terminals, Exits(t, "one")
  PROVE Becomes(t, Idle)
BY DEF Exits, Ended, Becomes, Inv, TypeOK

LEMMA Going ==
  ASSUME Inv, NEW t \in Terminals, NEW pc, Goto(t, pc)
  PROVE Becomes(t, [proc[t] EXCEPT !.pc = pc])
BY DEF Goto, Becomes, Inv, TypeOK

\* One that ends well leaves what it deleted, if it was asked to delete.
LEMMA Ending ==
  ASSUME Inv, NEW t \in Terminals, Exits(t, "zero"), ids' \in Nat, ids <= ids',
         proc[t].op = "destroy" => Gone(cluster', proc[t].id) \/ proc[t].id \in misread',
         proc[t].op = "remove" => Gone(gpu', proc[t].gid) \/ proc[t].gid \in misread'
  PROVE \E q : Becomes(t, q) /\ Local(q, ids', cluster', gpu', misread')
<1> DEFINE q == Ended(proc[t], "zero")
<1>1. Becomes(t, q)
  BY DEF Exits, Becomes, Inv, TypeOK
<1>2. Local(q, ids', cluster', gpu', misread')
  <2>1. CASE proc[t].op \in {"destroy", "remove"}
    <3>1. q = [Idle EXCEPT !.pc = "done", !.op = proc[t].op, !.id = proc[t].id, !.gid = proc[t].gid]
      BY <2>1 DEF Ended
    <3>2. Local(proc[t], ids, cluster, gpu, misread) /\ ids \in Nat
      BY DEF Inv, TypeOK
    <3> HIDE DEF q
    <3>3. q \in Processes /\ q.pc = "done" /\ q.op = proc[t].op /\ q.id = proc[t].id
           /\ q.gid = proc[t].gid /\ q.made = 0 /\ q.snap.id = 0 /\ q.gsnap = 0
      BY <3>1, <3>2 DEF Local, Idle, Processes, Pcs, States, Records, NoRecord
    <3>4. q.id <= ids' /\ q.gid <= ids'
      BY <3>2, <3>3 DEF Local, Processes
    <3> QED BY <2>1, <3>3, <3>4 DEF Local, Places
  <2>2. CASE proc[t].op \notin {"destroy", "remove"}
    BY <2>2, IdleIsLocal DEF Ended
  <2> QED BY <2>1, <2>2
<1> QED BY <1>1, <1>2

-----------------------------------------------------------------------------
(* The world *)

\* What a command has said is the id of a cluster, or nothing.
LEMMA Saying ==
  ASSUME Inv, NEW t \in Terminals, Tells(t) \/ UNCHANGED told, cluster'.id \in Nat
  PROVE told' \subseteq Nat
BY DEF Inv, TypeOK, Tells

LEMMA ReadingMovesNothing ==
  ASSUME Inv, Kept, ReadOnly, NEW t \in Terminals, Tells(t) \/ UNCHANGED told
  PROVE WorldMoves /\ UNCHANGED <<ids, cluster, gpu>>
<1>1. told' \subseteq Nat
  BY Saying DEF Inv, TypeOK, ReadOnly
<1> QED BY <1>1 DEF Inv, TypeOK, Bounded, ReadOnly, CallOnly, SameRest, Kept, WorldMoves

LEMMA FilesMove ==
  ASSUME Inv, Kept, FileOnly, local' \in Records, groupFile' \in Nat, kubeconfig' \in Nat,
         local'.id <= ids, groupFile' <= ids,
         vouched' \subseteq Nat, \A id \in vouched' : id <= ids
  PROVE WorldMoves /\ UNCHANGED <<ids, cluster, gpu>>
BY DEF Inv, TypeOK, Bounded, FileOnly, SameRest, Kept, WorldMoves

\* Nebius makes a cluster under a fresh id, or changes the state of what there is.
LEMMA MakingIsFresh ==
  ASSUME Inv, Kept, MakeCluster, NEW t \in Terminals, Tells(t) \/ UNCHANGED told,
         UNCHANGED <<fileVars, vouched, tf, given, kills, crossed>>
  PROVE WorldMoves /\ ids' = ids + 1 /\ cluster'.id = ids' /\ UNCHANGED gpu
<1>1. ids' = ids + 1 /\ cluster' = [id |-> ids', state |-> "provisioning"]
  BY DEF MakeCluster
<1>2. told' \subseteq Nat
  BY <1>1, Saying DEF Inv, TypeOK
<1>3. cluster' \in [id : Nat, state : States]
  BY <1>1 DEF Inv, TypeOK, States
<1> QED BY <1>1, <1>2, <1>3 DEF Inv, TypeOK, Bounded, Records, Kept, WorldMoves, MakeCluster, Gone

LEMMA TakingDownMoves ==
  ASSUME Inv, Kept, NEW id, TakeDown(id) \/ UNCHANGED cloudVars, NEW t \in Terminals,
         Tells(t) \/ UNCHANGED told, UNCHANGED <<fileVars, vouched, tf, given, kills, crossed>>
  PROVE WorldMoves /\ UNCHANGED <<ids, gpu>> /\ (UNCHANGED cluster \/ cluster' = [cluster EXCEPT !.state = "deleting"])
<1>1. \/ UNCHANGED cluster
      \/ cluster' = [cluster EXCEPT !.state = "deleting"] /\ cluster.state # "none"
  BY DEF TakeDown, Exists
<1>2. UNCHANGED <<ids, gpu, cpu>>
  BY DEF TakeDown
<1>3. cluster' \in [id : Nat, state : States] /\ cluster'.id = cluster.id
      /\ (cluster.state = "none" => cluster'.state = "none")
      /\ (cluster'.state # "none" => cluster.state # "none")
  BY <1>1 DEF Inv, TypeOK, States
<1>4. told' \subseteq Nat
  BY <1>3, Saying
<1> QED BY <1>1, <1>2, <1>3, <1>4 DEF Inv, TypeOK, Bounded, Kept, WorldMoves, Gone

\* The same of a node group: made under a fresh id, changed, or gone.
LEMMA GroupsMove ==
  ASSUME Inv, Kept, UNCHANGED cluster, cpu' \in States, NEW t \in Terminals, Tells(t) \/ UNCHANGED told,
         UNCHANGED <<fileVars, vouched, tf, given, kills, crossed>>,
         gpu' \in [id : Nat, state : States],
         \/ ids' = ids /\ gpu'.id = gpu.id /\ (gpu.state = "none" => gpu'.state = "none")
         \/ ids' = ids + 1 /\ gpu'.id = ids'
  PROVE WorldMoves
<1>1. told' \subseteq Nat
  BY Saying DEF Inv, TypeOK
<1> QED BY <1>1 DEF Inv, TypeOK, Bounded, Records, Kept, WorldMoves, Gone

\* Of a cluster that went nothing is left.
LEMMA NothingLeft ==
  ASSUME Inv, Kept, cluster' = NoCluster, gpu' = NoCluster, cpu' = "none", tf' \in {tf, None},
         UNCHANGED <<ids, fileVars, vouched, told, given, kills, crossed>>
  PROVE WorldMoves
BY DEF Inv, TypeOK, Bounded, Kept, WorldMoves, Gone, NoCluster, States

-----------------------------------------------------------------------------
(* The commands: each step keeps what is known of the command that takes it *)

LEMMA Failed ==
  ASSUME Inv, NEW t \in Terminals, Fails(t), WorldMoves
  PROVE Steps(t)
<1>1. Becomes(t, Idle)
  BY Failing DEF Fails
<1> QED BY <1>1, IdleIsLocal DEF Steps, WorldMoves

\* Where a command is tells which it is.
LEMMA PlacesTell ==
  ASSUME NEW p \in Processes, p.pc \in Places[p.op]
  PROVE /\ p.pc \in {"find", "groups", "create", "cpu", "rollback", "save", "ready", "readygroups",
                     "resave"} => p.op = "deploy"
        /\ p.pc \in {"guard", "apply", "applying", "validate"} => p.op = "up"
        /\ p.pc \in {"credentials", "finalsave"} => p.op \in {"deploy", "up"}
        /\ p.pc = "tfdestroy" => p.op = "down"
        /\ p.pc \in {"load", "target"} =>
              p.op \in {"destroy", "status", "list", "add", "remove", "groups"}
        /\ p.pc \in {"delete", "gone", "forget"} => p.op = "destroy"
        /\ p.pc = "writeback" => p.op \in {"status", "list"}
        /\ p.pc \in {"addgroup", "savegroup", "groupready"} => p.op = "add"
        /\ p.pc \in {"findgroup", "deletegroup", "groupgone", "forgetgroup"} => p.op = "remove"
        /\ p.pc \in {"readgroups", "lookgroups", "writegroup"} => p.op = "groups"
        /\ p.pc = "idle" <=> p.op = "none"
        /\ p.pc = "done" => p.op \in {"destroy", "remove"}
BY DEF Processes, Ops, Places

\* The steps that only go on, to a place that asks for nothing.
LEMMA WentOn ==
  ASSUME Inv, NEW t \in Terminals, WorldMoves, NEW pc \in Places[proc[t].op], Goto(t, pc),
         pc \notin {"load", "target", "findgroup", "find", "groups", "rollback", "cpu", "forget",
                    "done", "forgetgroup"}
  PROVE Steps(t)
<1> DEFINE p == proc[t]
           q == [p EXCEPT !.pc = pc]
<1>0. Local(p, ids, cluster, gpu, misread) /\ p \in Processes /\ ids \in Nat /\ ids' \in Nat /\ ids <= ids'
  BY DEF Inv, TypeOK, WorldMoves
<1>1. Becomes(t, q)
  BY Going
<1>2. pc \in Pcs
  BY <1>0 DEF Processes, Ops, Places, Pcs
<1>3. q \in Processes /\ q.pc = pc /\ q.op = p.op /\ q.id = p.id /\ q.gid = p.gid /\ q.made = p.made
      /\ q.snap = p.snap /\ q.gsnap = p.gsnap
  BY <1>0, <1>2 DEF Processes
<1>4. Local(q, ids', cluster', gpu', misread')
  <2> HIDE DEF q
  <2> QED BY <1>0, <1>3 DEF Local, Processes, Records
<1> QED BY <1>1, <1>4 DEF Steps

\* Those that set locals as well.
LEMMA WentOnWith ==
  ASSUME Inv, NEW t \in Terminals, WorldMoves, NEW q, Becomes(t, q), Local(q, ids', cluster', gpu', misread')
  PROVE Steps(t)
BY DEF Steps

\* A repeated call keeps everything.
LEMMA Repeated ==
  ASSUME Inv, NEW t \in Terminals, WorldMoves, Retry(t),
         proc[t].pc \in {"create", "cpu", "addgroup"}
  PROVE Steps(t)
<1> DEFINE p == proc[t]
           q == [p EXCEPT !.tries = @ + 1]
<1>0. Local(p, ids, cluster, gpu, misread) /\ p \in Processes /\ ids \in Nat /\ ids' \in Nat /\ ids <= ids'
  BY DEF Inv, TypeOK, WorldMoves
<1>1. Becomes(t, q)
  BY DEF Becomes, Retry
<1>2. q \in Processes /\ q.pc = p.pc /\ q.op = p.op /\ q.id = p.id /\ q.gid = p.gid /\ q.made = p.made
      /\ q.snap = p.snap /\ q.gsnap = p.gsnap
  BY <1>0 DEF Processes
<1>3. Local(q, ids', cluster', gpu', misread')
  <2> HIDE DEF q
  <2> QED BY <1>0, <1>2 DEF Local, Processes, Records
<1> QED BY <1>1, <1>3, WentOnWith

LEMMA DeployingSteps ==
  ASSUME Inv, NEW t \in Terminals, Deploy(t)
  PROVE Steps(t)
<1> DEFINE p == proc[t]
<1>0. Local(p, ids, cluster, gpu, misread) /\ p \in Processes /\ ids \in Nat /\ cluster.id \in Nat
      /\ cluster.state \in States /\ cluster.id <= ids
  BY DEF Inv, TypeOK, Bounded, Local
<1>m. Kept /\ UNCHANGED misread
  BY DEF Deploy, Kept, Inv, TypeOK
<1> USE <1>m
<1>p. /\ p.pc \in {"find", "groups", "create", "cpu", "rollback", "save", "ready", "readygroups",
                   "resave"} => p.op = "deploy"
      /\ p.pc \in {"credentials", "finalsave"} => p.op \in {"deploy", "up"}
  BY <1>0, PlacesTell DEF Local
<1>1. CASE FindCluster(t)
  <2>1. Tells(t) \/ UNCHANGED told
    BY <1>1 DEF FindCluster, Fails
  <2>2. WorldMoves /\ UNCHANGED <<ids, cluster, gpu>>
    BY <1>1, <2>1, ReadingMovesNothing DEF FindCluster
  <2>3. CASE Fails(t)
    BY <2>2, <2>3, Failed
  <2>4. CASE Goto(t, "create")
    BY <1>p, <1>1, <2>2, <2>4, WentOn DEF FindCluster, Places
  <2>5. CASE proc' = [proc EXCEPT ![t].pc = "groups", ![t].id = cluster.id]
    <3> DEFINE q == [p EXCEPT !.pc = "groups", !.id = cluster.id]
    <3>1. Becomes(t, q)
      BY <2>5 DEF Becomes
    <3>2. q \in Processes /\ q.pc = "groups" /\ q.op = p.op /\ q.id = cluster.id /\ q.gid = p.gid
          /\ q.made = p.made
          /\ q.snap = p.snap /\ q.gsnap = p.gsnap
      BY <1>0 DEF Processes, Pcs
    <3>3. Local(q, ids, cluster, gpu, misread)
      <4> HIDE DEF q
      <4> QED BY <1>0, <1>p, <1>1, <3>2 DEF FindCluster, Local, Places
    <3> QED BY <2>2, <3>1, <3>3, WentOnWith
  <2> QED BY <1>1, <2>3, <2>4, <2>5 DEF FindCluster
<1>2. CASE AdoptCluster(t)
  <2>1. Tells(t) \/ UNCHANGED told
    BY <1>2 DEF AdoptCluster, Fails
  <2>2. WorldMoves /\ UNCHANGED <<ids, cluster, gpu>>
    BY <1>2, <2>1, ReadingMovesNothing DEF AdoptCluster
  <2>3. CASE Fails(t)
    BY <2>2, <2>3, Failed
  <2>4. CASE Goto(t, "save")
    BY <1>p, <1>2, <2>2, <2>4, WentOn DEF AdoptCluster, Places
  <2>5. CASE Goto(t, "cpu")
    <3> DEFINE q == [p EXCEPT !.pc = "cpu"]
    <3>1. Becomes(t, q)
      BY <2>5, Going
    <3>2. q \in Processes /\ q.pc = "cpu" /\ q.op = p.op /\ q.id = p.id /\ q.gid = p.gid /\ q.made = p.made
          /\ q.snap = p.snap /\ q.gsnap = p.gsnap
      BY <1>0 DEF Processes, Pcs
    <3>3. Local(q, ids, cluster, gpu, misread)
      <4> HIDE DEF q
      <4> QED BY <1>0, <1>p, <1>2, <3>2 DEF AdoptCluster, Local, Places
    <3> QED BY <2>2, <3>1, <3>3, WentOnWith
  <2> QED BY <1>2, <2>3, <2>4, <2>5 DEF AdoptCluster
<1>3. CASE CreateCluster(t)
  <2>0. p.pc = "create" /\ (Tells(t) \/ UNCHANGED told)
        /\ UNCHANGED <<fileVars, vouched, tf, given, kills, crossed>>
    BY <1>3 DEF CreateCluster, Fails, Retry, CallOnly, SameRest
  <2>1. CASE MakeCluster
    <3>1. WorldMoves /\ ids' = ids + 1 /\ UNCHANGED gpu
      BY <2>0, <2>1, MakingIsFresh
    <3>n. ids' \in Nat
      BY <3>1 DEF WorldMoves
    <3>2. CASE Fails(t)
      BY <3>1, <3>2, Failed
    <3>3. CASE proc' = [proc EXCEPT ![t].pc = "cpu", ![t].id = ids', ![t].made = ids', ![t].tries = 0]
      <4> DEFINE q == [p EXCEPT !.pc = "cpu", !.id = ids', !.made = ids', !.tries = 0]
      <4>1. Becomes(t, q)
        BY <3>3 DEF Becomes
      <4>2. q \in Processes /\ q.pc = "cpu" /\ q.op = p.op /\ q.id = ids' /\ q.gid = p.gid /\ q.made = ids'
          /\ q.snap = p.snap /\ q.gsnap = p.gsnap
        BY <1>0, <3>n DEF Processes, Pcs
      <4>3. Local(q, ids', cluster', gpu', misread')
        <5> HIDE DEF q
        <5> QED BY <1>0, <1>p, <2>0, <3>1, <4>2 DEF Local, Places, Processes, Records
      <4> QED BY <3>1, <4>1, <4>3, WentOnWith
    <3>4. CASE proc' = [proc EXCEPT ![t].tries = @ + 1, ![t].made = ids']
      <4> DEFINE q == [p EXCEPT !.tries = @ + 1, !.made = ids']
      <4>1. Becomes(t, q)
        BY <3>4 DEF Becomes
      <4>0. p.tries + 1 \in Nat
        BY <1>0 DEF Processes
      <4>2. q \in Processes /\ q.pc = p.pc /\ q.op = p.op /\ q.id = p.id /\ q.gid = p.gid /\ q.made = ids'
          /\ q.snap = p.snap /\ q.gsnap = p.gsnap
        <5> DEFINE n == p.tries + 1
        <5>1. q = [p EXCEPT !.tries = n, !.made = ids']
          OBVIOUS
        <5> HIDE DEF n
        <5> QED BY <1>0, <3>n, <4>0, <5>1 DEF Processes
      <4>3. Local(q, ids', cluster', gpu', misread')
        <5> HIDE DEF q
        <5> QED BY <1>0, <1>p, <2>0, <3>1, <4>2 DEF Local, Places, Processes, Records
      <4> QED BY <3>1, <4>1, <4>3, WentOnWith
    <3> QED BY <1>3, <2>1, <3>2, <3>3, <3>4 DEF CreateCluster, MakeCluster, Inv, TypeOK
  <2>2. CASE UNCHANGED cloudVars /\ (Retry(t) \/ Fails(t))
    <3>1. WorldMoves
      BY <2>0, <2>2, ReadingMovesNothing DEF ReadOnly, CallOnly, SameRest
    <3> QED BY <2>0, <2>2, <3>1, Failed, Repeated
  <2> QED BY <1>3, <2>1, <2>2 DEF CreateCluster
<1>4. CASE CreateCpuGroup(t)
  <2>0. p.pc = "cpu" /\ (Tells(t) \/ UNCHANGED told)
        /\ UNCHANGED <<fileVars, vouched, tf, given, kills, crossed, cluster, gpu, ids>>
    BY <1>4 DEF CreateCpuGroup, CreationFails, Fails, Retry, CallOnly, SameRest
  <2>1. WorldMoves
    <3>1. cpu' \in States
      BY <1>4 DEF CreateCpuGroup, Inv, TypeOK, States
    <3> QED BY <2>0, <3>1, GroupsMove DEF Inv, TypeOK
  <2>2. CASE Goto(t, "save")
    BY <1>p, <2>0, <2>1, <2>2, WentOn DEF Places
  <2>3. CASE Goto(t, "rollback") /\ p.made # None
    <3> DEFINE q == [p EXCEPT !.pc = "rollback"]
    <3>1. Becomes(t, q)
      BY <2>3, Going
    <3>2. q \in Processes /\ q.pc = "rollback" /\ q.op = p.op /\ q.id = p.id /\ q.gid = p.gid
          /\ q.made = p.made
          /\ q.snap = p.snap /\ q.gsnap = p.gsnap
      BY <1>0 DEF Processes, Pcs
    <3>3. Local(q, ids', cluster', gpu', misread')
      <4> HIDE DEF q
      <4> QED BY <1>0, <1>p, <2>0, <2>3, <3>2 DEF Local, Places
    <3> QED BY <2>1, <3>1, <3>3, WentOnWith
  <2> QED BY <1>4, <2>0, <2>1, <2>2, <2>3, Failed, Repeated DEF CreateCpuGroup, CreationFails
<1>5. CASE Rollback(t)
  <2>1. WorldMoves
    BY <1>5, TakingDownMoves DEF Rollback, Fails, CallOnly, SameRest
  <2> QED BY <1>5, <2>1, Failed DEF Rollback
<1>6. CASE SaveState(t)
  <2>1. WorldMoves
    BY <1>0, <1>6, FilesMove DEF SaveState, SaveCluster, Records, Processes, Local, Inv, TypeOK, Bounded
  <2> QED BY <1>p, <1>6, <2>1, WentOn DEF SaveState, Places
<1>7. CASE PollCluster(t)
  <2>1. WorldMoves /\ UNCHANGED <<ids, cluster, gpu>>
    BY <1>7, ReadingMovesNothing DEF PollCluster, Fails
  <2>2. CASE Fails(t)
    BY <2>1, <2>2, Failed
  <2>3. CASE proc' = [proc EXCEPT ![t].pc = "readygroups", ![t].seen = cluster.state]
    <3> DEFINE q == [p EXCEPT !.pc = "readygroups", !.seen = cluster.state]
    <3>1. Becomes(t, q)
      BY <2>3 DEF Becomes
    <3>2. q \in Processes /\ q.pc = "readygroups" /\ q.op = p.op /\ q.id = p.id /\ q.gid = p.gid
          /\ q.made = p.made
          /\ q.snap = p.snap /\ q.gsnap = p.gsnap
      BY <1>0 DEF Processes, Pcs
    <3>3. Local(q, ids, cluster, gpu, misread)
      <4> HIDE DEF q
      <4> QED BY <1>0, <1>p, <1>7, <3>2 DEF PollCluster, Local, Places
    <3> QED BY <2>1, <3>1, <3>3, WentOnWith
  <2> QED BY <1>7, <2>2, <2>3 DEF PollCluster
<1>8. CASE PollGroups(t)
  <2>1. WorldMoves /\ UNCHANGED <<ids, cluster, gpu>>
    BY <1>8, ReadingMovesNothing DEF PollGroups, Fails
  <2>2. CASE Fails(t)
    BY <2>1, <2>2, Failed
  <2>3. CASE ~Fails(t)
    <3>1. PICK pc \in {"resave", "ready"} : proc' = [proc EXCEPT ![t].pc = pc, ![t].seen = "none"]
      BY <1>8, <2>3 DEF PollGroups
    <3> DEFINE q == [p EXCEPT !.pc = pc, !.seen = "none"]
    <3>2. Becomes(t, q)
      BY <3>1 DEF Becomes
    <3>3. q \in Processes /\ q.pc = pc /\ q.op = p.op /\ q.id = p.id /\ q.gid = p.gid /\ q.made = p.made
          /\ q.snap = p.snap /\ q.gsnap = p.gsnap
      BY <1>0 DEF Processes, Pcs, States
    <3>4. Local(q, ids, cluster, gpu, misread)
      <4> HIDE DEF q
      <4> QED BY <1>0, <1>p, <1>8, <3>3 DEF PollGroups, Local, Places
    <3> QED BY <2>1, <3>2, <3>4, WentOnWith
  <2> QED BY <2>2, <2>3
<1>9. CASE SaveReady(t)
  <2>1. WorldMoves
    <3>1. p.id \in Nat /\ p.id <= ids
      BY <1>0 DEF Local, Processes
    <3> QED BY <3>1, <1>9, FilesMove DEF SaveReady, SaveCluster, Records, Inv, TypeOK, Bounded
  <2> QED BY <1>p, <1>9, <2>1, WentOn DEF SaveReady, Places
<1>10. CASE WriteKubeconfig(t)
  <2>0. Tells(t) \/ UNCHANGED told
    BY <1>10 DEF WriteKubeconfig, Fails
  <2>1. told' \subseteq Nat
    BY <1>0, <1>10, <2>0, Saying DEF WriteKubeconfig
  <2>2. p.id \in Nat
    BY <1>0 DEF Processes
  <2>3. WorldMoves
    BY <1>10, <2>1, <2>2 DEF WriteKubeconfig, SameRest, WorldMoves, Inv, TypeOK, Bounded
  <2>4. CASE Fails(t)
    BY <2>3, <2>4, Failed
  <2>5. CASE Goto(t, "finalsave")
    BY <1>p, <1>10, <2>3, <2>5, WentOn DEF WriteKubeconfig, Places
  <2> QED BY <1>10, <2>4, <2>5 DEF WriteKubeconfig
<1>11. CASE SaveWithKubeconfig(t)
  <2>1. WorldMoves
    BY <1>0, <1>11, FilesMove DEF SaveWithKubeconfig, Records, Processes, Local, Inv, TypeOK, Bounded
  <2>2. CASE p.op = "up" /\ Goto(t, "validate")
    BY <1>p, <1>11, <2>1, <2>2, WentOn DEF SaveWithKubeconfig, Places
  <2>3. CASE Exits(t, "zero")
    <3>1. p.op \notin {"destroy", "remove"}
      BY <1>p, <1>11 DEF SaveWithKubeconfig
    <3>2. \E q : Becomes(t, q) /\ Local(q, ids', cluster', gpu', misread')
      BY <1>0, <2>1, <2>3, <3>1, Ending DEF WorldMoves
    <3> QED BY <2>1, <3>2 DEF Steps
  <2> QED BY <1>11, <2>2, <2>3 DEF SaveWithKubeconfig
<1> QED BY <1>1, <1>2, <1>3, <1>4, <1>5, <1>6, <1>7, <1>8, <1>9, <1>10, <1>11 DEF Deploy

LEMMA TerraformingSteps ==
  ASSUME Inv, NEW t \in Terminals, Terraform(t)
  PROVE Steps(t)
<1> DEFINE p == proc[t]
<1>0. Local(p, ids, cluster, gpu, misread) /\ p \in Processes /\ ids \in Nat /\ cluster.id \in Nat
      /\ cluster.state \in States /\ cluster.id <= ids /\ gpu.id \in Nat /\ gpu.id <= ids
      /\ gpu.state \in States /\ tf \in Nat /\ tf <= ids
  BY DEF Inv, TypeOK, Bounded, Local
<1>m. Kept /\ UNCHANGED misread
  BY DEF Terraform, Kept, Inv, TypeOK
<1> USE <1>m
<1>p. /\ p.pc \in {"guard", "apply", "applying", "validate"} => p.op = "up"
      /\ p.pc = "tfdestroy" => p.op = "down"
  BY <1>0, PlacesTell DEF Local
<1>1. CASE Guard(t)
  <2>1. WorldMoves
    BY <1>1, ReadingMovesNothing DEF Guard, Fails
  <2>2. CASE Goto(t, "apply")
    BY <1>p, <1>1, <2>1, <2>2, WentOn DEF Guard, Places
  <2> QED BY <1>1, <2>1, <2>2, Failed DEF Guard
<1>2. CASE Apply(t)
  <2>0. p.pc = "apply" /\ (Tells(t) \/ UNCHANGED told)
        /\ UNCHANGED <<fileVars, vouched, tf, given, kills, crossed>>
    BY <1>2 DEF Apply, Fails
  <2>1. CASE UNCHANGED cloudVars /\ Fails(t)
    <3>1. WorldMoves
      BY <2>0, <2>1, ReadingMovesNothing DEF ReadOnly, CallOnly, SameRest
    <3> QED BY <2>1, <3>1, Failed
  <2>2. CASE UNCHANGED cloudVars /\ proc' = [proc EXCEPT ![t].pc = "credentials", ![t].id = tf]
    <3>w. WorldMoves
      BY <2>0, <2>2, ReadingMovesNothing DEF ReadOnly, CallOnly, SameRest
    <3> DEFINE q == [p EXCEPT !.pc = "credentials", !.id = tf]
    <3>1. Becomes(t, q)
      BY <2>2 DEF Becomes
    <3>2. q \in Processes /\ q.pc = "credentials" /\ q.op = p.op /\ q.id = tf /\ q.gid = p.gid /\ q.made = p.made
          /\ q.snap = p.snap /\ q.gsnap = p.gsnap
      BY <1>0 DEF Processes, Pcs
    <3>3. Local(q, ids', cluster', gpu', misread')
      <4> HIDE DEF q
      <4> QED BY <1>0, <1>p, <2>0, <2>2, <3>2 DEF Local, Places, Processes
    <3> QED BY <3>w, <3>1, <3>3, WentOnWith
  <2>3. CASE MakeCluster /\ proc' = [proc EXCEPT ![t].pc = "applying", ![t].made = ids']
    <3>w. WorldMoves /\ ids' = ids + 1 /\ UNCHANGED gpu
      BY <2>0, <2>3, MakingIsFresh
    <3>n. ids' \in Nat
      BY <3>w DEF WorldMoves
    <3> DEFINE q == [p EXCEPT !.pc = "applying", !.made = ids']
    <3>1. Becomes(t, q)
      BY <2>3 DEF Becomes
    <3>2. q \in Processes /\ q.pc = "applying" /\ q.op = p.op /\ q.id = p.id /\ q.gid = p.gid /\ q.made = ids'
          /\ q.snap = p.snap /\ q.gsnap = p.gsnap
      BY <1>0, <3>n DEF Processes, Pcs
    <3>3. Local(q, ids', cluster', gpu', misread')
      <4> HIDE DEF q
      <4> QED BY <1>0, <1>p, <2>0, <3>w, <3>2 DEF Local, Places, Processes, Records
    <3> QED BY <3>w, <3>1, <3>3, WentOnWith
  <2> QED BY <1>2, <2>1, <2>2, <2>3 DEF Apply
<1>3. CASE Applied(t)
  <2>0. p.pc = "applying" /\ (Tells(t) \/ UNCHANGED told) /\ p.made \in Nat /\ p.made <= ids
        /\ UNCHANGED <<fileVars, vouched, given, kills, crossed, cluster, gpu, ids>>
    BY <1>0, <1>3 DEF Applied, Fails, Local, Processes
  <2>1. WorldMoves
    <3>1. cpu' \in States /\ tf' \in {tf, p.made}
      BY <1>3 DEF Applied, States, Inv, TypeOK
    <3>2. told' \subseteq Nat
      BY <1>0, <2>0, Saying
    <3>3. tf' \in Nat /\ tf' <= ids
      BY <1>0, <2>0, <3>1
    <3> QED BY <2>0, <3>1, <3>2, <3>3 DEF WorldMoves, Inv, TypeOK, Bounded
  <2>2. CASE proc' = [proc EXCEPT ![t].pc = "credentials", ![t].id = p.made]
    <3> DEFINE q == [p EXCEPT !.pc = "credentials", !.id = p.made]
    <3>1. Becomes(t, q)
      BY <2>2 DEF Becomes
    <3>2. q \in Processes /\ q.pc = "credentials" /\ q.op = p.op /\ q.id = p.made /\ q.gid = p.gid /\ q.made = p.made
          /\ q.snap = p.snap /\ q.gsnap = p.gsnap
      BY <1>0, <2>0 DEF Processes, Pcs
    <3>3. Local(q, ids', cluster', gpu', misread')
      <4> HIDE DEF q
      <4> QED BY <1>0, <1>p, <2>0, <3>2 DEF Local, Places, Processes
    <3> QED BY <2>1, <3>1, <3>3, WentOnWith
  <2> QED BY <1>3, <2>1, <2>2, Failed DEF Applied
<1>4. CASE Validate(t)
  <2>0. p.pc = "validate" /\ (Tells(t) \/ UNCHANGED told) /\ p.id \in Nat /\ p.id <= ids
        /\ UNCHANGED <<fileVars, tf, given, kills, crossed, cluster, gpu, cpu, ids>>
    BY <1>0, <1>4 DEF Validate, Fails, SameRest, Local, Processes
  <2>1. WorldMoves
    <3>1. vouched' \subseteq Nat /\ \A id \in vouched' : id <= ids
      BY <1>4, <2>0 DEF Validate, Inv, TypeOK, Bounded
    <3>2. told' \subseteq Nat
      BY <1>0, <2>0, Saying
    <3> QED BY <2>0, <3>1, <3>2 DEF WorldMoves, Inv, TypeOK, Bounded
  <2>2. CASE Exits(t, "zero")
    <3>1. \E q : Becomes(t, q) /\ Local(q, ids', cluster', gpu', misread')
      BY <1>0, <1>p, <2>0, <2>2, Ending
    <3> QED BY <2>1, <3>1 DEF Steps
  <2> QED BY <1>4, <2>1, <2>2, Failed DEF Validate
<1>5. CASE TerraformDestroy(t)
  <2>0. p.pc = "tfdestroy" /\ UNCHANGED <<fileVars, given, kills, told, vouched, crossed>>
    BY <1>5 DEF TerraformDestroy
  <2>1. CASE Exits(t, "zero") /\ tf' = None /\ UNCHANGED ids
             /\ IF Exists(tf) THEN cluster' = NoCluster /\ cpu' = "none" /\ gpu' = NoCluster
                ELSE UNCHANGED <<cluster, cpu, gpu>>
    <3>1. WorldMoves
      <4>1. CASE Exists(tf)
        BY <2>0, <2>1, <4>1, NothingLeft
      <4>2. CASE ~Exists(tf)
        BY <2>0, <2>1, <4>2 DEF WorldMoves, Inv, TypeOK, Bounded
      <4> QED BY <4>1, <4>2
    <3>2. \E q : Becomes(t, q) /\ Local(q, ids', cluster', gpu', misread')
      BY <1>0, <1>p, <2>0, <2>1, Ending
    <3> QED BY <3>1, <3>2 DEF Steps
  <2>2. CASE Exits(t, "one") /\ UNCHANGED tf /\ (TakeDown(tf) \/ UNCHANGED cloudVars)
    <3>1. WorldMoves
      BY <2>0, <2>2, TakingDownMoves
    <3>2. Becomes(t, Idle) /\ Local(Idle, ids', cluster', gpu', misread')
      BY <2>2, <3>1, Failing, IdleIsLocal DEF WorldMoves
    <3> QED BY <3>1, <3>2 DEF Steps
  <2> QED BY <1>5, <2>1, <2>2 DEF TerraformDestroy
<1> QED BY <1>1, <1>2, <1>3, <1>4, <1>5 DEF Terraform

LEMMA RecordingSteps ==
  ASSUME Inv, NEW t \in Terminals, OnRecord(t)
  PROVE Steps(t)
<1> DEFINE p == proc[t]
<1>0. Local(p, ids, cluster, gpu, misread) /\ p \in Processes /\ ids \in Nat /\ cluster.id \in Nat
      /\ cluster.state \in States /\ cluster.id <= ids /\ gpu.id \in Nat /\ gpu.id <= ids
      /\ gpu.state \in States /\ tf \in Nat /\ tf <= ids
  BY DEF Inv, TypeOK, Bounded, Local
<1>p. /\ p.pc \in {"load", "target"} =>
            p.op \in {"destroy", "status", "list", "add", "remove", "groups"}
      /\ p.pc \in {"delete", "gone", "forget"} => p.op = "destroy"
      /\ p.pc = "writeback" => p.op \in {"status", "list"}
  BY <1>0, PlacesTell DEF Local
<1>k. Kept /\ (Load(t) \/ Forget(t) \/ WriteBack(t) => UNCHANGED misread)
  <2>1. p.id \in Nat /\ p.snap.id \in Nat
    BY <1>0 DEF Processes, Records
  <2>2. misread' = misread \/ misread' = misread \cup {p.id} \/ misread' = misread \cup {p.snap.id}
    BY DEF OnRecord, FindTarget, DeleteCluster, WaitGone, GivesUp
  <2>3. Load(t) \/ Forget(t) \/ WriteBack(t) => UNCHANGED misread
    BY DEF OnRecord, Load, Forget, WriteBack, FindTarget, DeleteCluster, WaitGone
  <2> QED BY <2>1, <2>2, <2>3 DEF Kept, Inv, TypeOK
<1>1. CASE Load(t)
  <2>1. WorldMoves /\ UNCHANGED <<ids, cluster, gpu>>
    BY <1>1, <1>k, FilesMove DEF Load, Inv, TypeOK, Bounded
  <2> DEFINE n == IF p.op = "remove" THEN groupFile ELSE None
             q == [p EXCEPT !.pc = "target", !.snap = local, !.gsnap = n]
  <2>2. Becomes(t, q)
    BY <1>1 DEF Becomes, Load
  <2>3. n \in Nat /\ local \in Records /\ n <= ids /\ local.id <= ids
    BY DEF Inv, TypeOK, Bounded
  <2>4. q \in Processes /\ q.pc = "target" /\ q.op = p.op /\ q.id = p.id /\ q.gid = p.gid
        /\ q.made = p.made
          /\ q.snap = local /\ q.gsnap = n
    <3> HIDE DEF n
    <3> QED BY <1>0, <2>3 DEF Processes, Pcs
  <2>5. Local(q, ids, cluster, gpu, misread')
    <3> HIDE DEF q, n
    <3>1. p.pc = "load" /\ p.op \in Ops
      BY <1>1, <1>p DEF Load, Ops
    <3>2. p.id = 0 /\ p.gid = 0 /\ "target" \in Places[p.op]
      BY <1>0, <1>p, <3>1 DEF Local, Places
    <3>3. UNCHANGED misread
      BY <1>1, <1>k
    <3> QED BY <1>0, <2>3, <2>4, <3>1, <3>2, <3>3 DEF Local
  <2> QED BY <2>1, <2>2, <2>5, WentOnWith
<1>2. CASE FindTarget(t)
  <2>1. WorldMoves /\ UNCHANGED <<ids, cluster, gpu>> /\ p.pc = "target"
    BY <1>2, <1>k, ReadingMovesNothing DEF FindTarget, Fails, WithoutTarget, WithTarget
  <2>2. Gone(cluster, 0) /\ Gone(gpu, 0) /\ p.id = 0 /\ p.gid = 0
    BY <1>0, <2>1 DEF Local, Gone, Inv, Bounded
  <2>3. CASE Exits(t, "zero")
    <3>1. \E q : Becomes(t, q) /\ Local(q, ids', cluster', gpu', misread')
      BY <1>0, <2>1, <2>2, <2>3, Ending
    <3> QED BY <2>1, <3>1 DEF Steps
  <2>4. CASE WithTarget(t) /\ ~Exits(t, "zero")
    <3> DEFINE pc == AfterTarget[p.op]
               q == [p EXCEPT !.pc = pc, !.id = cluster.id]
    <3>1. Becomes(t, q)
      BY <2>4 DEF WithTarget, Becomes
    <3>2. pc \in Pcs /\ pc \in Places[p.op]
          /\ pc \notin {"load", "target", "find", "groups", "rollback", "cpu", "forget", "done", "forgetgroup"}
      BY <1>p, <2>1 DEF AfterTarget, Pcs, Places
    <3>3. q \in Processes /\ q.pc = pc /\ q.op = p.op /\ q.id = cluster.id /\ q.gid = p.gid
          /\ q.made = p.made
          /\ q.snap = p.snap /\ q.gsnap = p.gsnap
      <4> HIDE DEF pc
      <4> QED BY <1>0, <3>2 DEF Processes
    <3>4. Local(q, ids, cluster, gpu, misread')
      <4> HIDE DEF q, pc
      <4> QED BY <1>0, <2>2, <3>2, <3>3 DEF Local
    <3> QED BY <2>1, <3>1, <3>4, WentOnWith
  <2>5. CASE /\ p.op = "destroy" /\ proc' = [proc EXCEPT ![t].pc = "forget", ![t].id = p.snap.id]
             /\ (~Found(t) /\ p.snap.id # 0) \/ p.snap.id \in misread'
    <3> DEFINE q == [p EXCEPT !.pc = "forget", !.id = p.snap.id]
    <3>1. Becomes(t, q)
      BY <2>5 DEF Becomes
    <3>2. q \in Processes /\ q.pc = "forget" /\ q.op = p.op /\ q.id = p.snap.id /\ q.gid = p.gid
          /\ q.made = p.made
          /\ q.snap = p.snap /\ q.gsnap = p.gsnap
      BY <1>0 DEF Processes, Pcs, Records
    <3>3. Gone(cluster, p.snap.id) \/ p.snap.id \in misread'
      BY <2>5 DEF Found, Gone
    <3>4. Local(q, ids, cluster, gpu, misread')
      <4> HIDE DEF q
      <4> QED BY <1>0, <2>2, <2>5, <3>2, <3>3 DEF Local, Places
    <3> QED BY <2>1, <3>1, <3>4, WentOnWith
  <2>6. CASE p.op = "remove" /\ Goto(t, "forgetgroup")
    <3> DEFINE q == [p EXCEPT !.pc = "forgetgroup"]
    <3>1. Becomes(t, q)
      BY <2>6, Going
    <3>2. q \in Processes /\ q.pc = "forgetgroup" /\ q.op = p.op /\ q.id = p.id /\ q.gid = p.gid
          /\ q.made = p.made
          /\ q.snap = p.snap /\ q.gsnap = p.gsnap
      BY <1>0 DEF Processes, Pcs
    <3>3. Local(q, ids, cluster, gpu, misread')
      <4> HIDE DEF q
      <4> QED BY <1>0, <2>2, <2>6, <3>2 DEF Local, Places
    <3> QED BY <2>1, <3>1, <3>3, WentOnWith
  <2>7. CASE Fails(t)
    BY <2>1, <2>7, Failed
  <2>8. CASE /\ ~Found(t) \/ Exists(p.snap.id)
             /\ WithoutTarget(t)
             /\ GivesUp(p.snap.id, Exists(p.snap.id) /\ p.op = "destroy")
    <3>1. p.op = "destroy" => (~Found(t) \/ p.snap.id \in misread')
      BY <2>8 DEF GivesUp
    <3> QED BY <2>3, <2>5, <2>6, <2>7, <2>8, <3>1 DEF WithoutTarget
  <2> QED BY <1>2, <2>3, <2>4, <2>7, <2>8 DEF FindTarget
<1>3. CASE DeleteCluster(t)
  <2>1. WorldMoves
    BY <1>3, <1>k, TakingDownMoves DEF DeleteCluster, Fails, CallOnly, SameRest
  <2>2. CASE Goto(t, "gone")
    BY <1>p, <1>3, <2>1, <2>2, WentOn DEF DeleteCluster, Places
  <2> QED BY <1>3, <2>1, <2>2, Failed DEF DeleteCluster
<1>4. CASE WaitGone(t)
  <2>1. WorldMoves /\ UNCHANGED <<ids, cluster, gpu>>
    BY <1>4, <1>k, ReadingMovesNothing DEF WaitGone, Fails
  <2>2. CASE Goto(t, "forget") /\ GivesUp(p.id, Exists(p.id))
    <3> DEFINE q == [p EXCEPT !.pc = "forget"]
    <3>1. Becomes(t, q)
      BY <2>2, Going
    <3>2. q \in Processes /\ q.pc = "forget" /\ q.op = p.op /\ q.id = p.id /\ q.gid = p.gid
          /\ q.made = p.made
          /\ q.snap = p.snap /\ q.gsnap = p.gsnap
      BY <1>0 DEF Processes, Pcs
    <3>3. Local(q, ids, cluster, gpu, misread')
      <4> HIDE DEF q
      <4> QED BY <1>0, <1>p, <1>k, <1>4, <2>2, <3>2 DEF WaitGone, Local, Places, Exists, Gone, GivesUp
    <3> QED BY <2>1, <3>1, <3>3, WentOnWith
  <2> QED BY <1>4, <2>1, <2>2, Failed DEF WaitGone
<1>5. CASE Forget(t)
  <2>1. WorldMoves /\ UNCHANGED <<ids, cluster, gpu>>
    BY <1>5, <1>k, FilesMove DEF Forget, NoRecord, Records, Inv, TypeOK, Bounded
  <2>2. p.op = "destroy" /\ (Gone(cluster, p.id) \/ p.id \in misread)
    BY <1>0, <1>p, <1>5 DEF Forget, Local
  <2>3. \E q : Becomes(t, q) /\ Local(q, ids', cluster', gpu', misread')
    BY <1>0, <1>k, <1>5, <2>1, <2>2, Ending DEF Forget, Kept
  <2> QED BY <2>1, <2>3 DEF Steps
<1>6. CASE WriteBack(t)
  <2>1. WorldMoves /\ UNCHANGED <<ids, cluster, gpu>>
    <3>1. p.snap \in Records /\ p.snap.id <= ids
      BY <1>0 DEF Processes, Local
    <3> QED BY <1>0, <1>6, <1>k, <3>1, FilesMove DEF WriteBack, Inv, TypeOK, Bounded
  <2>2. CASE Exits(t, "zero")
    <3>1. \E q : Becomes(t, q) /\ Local(q, ids', cluster', gpu', misread')
      BY <1>0, <1>p, <1>6, <2>1, <2>2, Ending DEF WriteBack
    <3> QED BY <2>1, <3>1 DEF Steps
  <2>3. CASE Exits(t, "one")
    <3>1. Becomes(t, Idle) /\ Local(Idle, ids', cluster', gpu', misread')
      BY <2>1, <2>3, Failing, IdleIsLocal DEF WorldMoves
    <3> QED BY <2>1, <3>1 DEF Steps
  <2> QED BY <1>6, <2>2, <2>3 DEF WriteBack
<1> QED BY <1>1, <1>2, <1>3, <1>4, <1>5, <1>6 DEF OnRecord

LEMMA GroupingSteps ==
  ASSUME Inv, NEW t \in Terminals, NodeGroups(t)
  PROVE Steps(t)
<1> DEFINE p == proc[t]
<1>0. Local(p, ids, cluster, gpu, misread) /\ p \in Processes /\ ids \in Nat /\ cluster.id \in Nat
      /\ cluster.state \in States /\ cluster.id <= ids /\ gpu.id \in Nat /\ gpu.id <= ids
      /\ gpu.state \in States /\ tf \in Nat /\ tf <= ids
  BY DEF Inv, TypeOK, Bounded, Local
<1>p. /\ p.pc \in {"addgroup", "savegroup", "groupready"} => p.op = "add"
      /\ p.pc \in {"findgroup", "deletegroup", "groupgone", "forgetgroup"} => p.op = "remove"
      /\ p.pc \in {"readgroups", "lookgroups", "writegroup"} => p.op = "groups"
  BY <1>0, PlacesTell DEF Local
<1>k. Kept
  <2>1. p.gid \in Nat /\ p.gsnap \in Nat
    BY <1>0 DEF Processes
  <2>2. misread' = misread \/ misread' = misread \cup {p.gid} \/ misread' = misread \cup {p.gsnap}
    BY DEF NodeGroups, FindGroup, DeleteGroup, WaitGroupGone, GivesUp
  <2> QED BY <2>1, <2>2 DEF Kept, Inv, TypeOK
<1>1. CASE AddGroup(t)
  <2>0. p.pc = "addgroup" /\ (Tells(t) \/ UNCHANGED told)
        /\ UNCHANGED <<fileVars, vouched, tf, given, kills, crossed, cluster, cpu>>
    BY <1>1 DEF AddGroup, Fails, Retry, CallOnly, SameRest
  <2>1. WorldMoves
    <3>1. CASE UNCHANGED cloudVars
      BY <2>0, <3>1, <1>k, ReadingMovesNothing DEF ReadOnly, CallOnly, SameRest
    <3>2. CASE ids' = ids + 1 /\ gpu' = [id |-> ids + 1, state |-> "provisioning"]
      <4>1. gpu' \in [id : Nat, state : States] /\ gpu'.id = ids' /\ cpu \in States
        BY <1>0, <3>2 DEF States, Inv, TypeOK
      <4> QED BY <2>0, <3>2, <4>1, <1>k, GroupsMove
    <3> QED BY <1>1, <3>1, <3>2 DEF AddGroup
  <2>2. CASE ids' = ids + 1 /\ proc' = [proc EXCEPT ![t].pc = "savegroup", ![t].gid = ids + 1]
    <3>n. ids + 1 \in Nat
      BY <1>0
    <3> DEFINE q == [p EXCEPT !.pc = "savegroup", !.gid = ids + 1]
    <3>1. Becomes(t, q)
      BY <2>2 DEF Becomes
    <3>2. q \in Processes /\ q.pc = "savegroup" /\ q.op = p.op /\ q.id = p.id /\ q.gid = ids + 1 /\ q.made = p.made
          /\ q.snap = p.snap /\ q.gsnap = p.gsnap
      BY <1>0, <3>n DEF Processes, Pcs
    <3>3. Local(q, ids', cluster', gpu', misread')
      <4> HIDE DEF q
      <4> QED BY <1>0, <1>p, <2>0, <2>2, <3>2 DEF Local, Places, Processes, Records
    <3> QED BY <2>1, <3>1, <3>3, WentOnWith
  <2> QED BY <1>1, <2>0, <2>1, <2>2, Failed, Repeated DEF AddGroup
<1>2. CASE SaveGroup(t)
  <2>1. WorldMoves /\ UNCHANGED <<ids, cluster, gpu>>
    <3>1. p.gid \in Nat /\ p.gid <= ids
      BY <1>0 DEF Processes, Local
    <3> QED BY <1>2, <3>1, <1>k, FilesMove DEF SaveGroup, Inv, TypeOK, Bounded
  <2>2. CASE proc' = [proc EXCEPT ![t].pc = "groupready", ![t].wait = FALSE]
    <3> DEFINE q == [p EXCEPT !.pc = "groupready", !.wait = FALSE]
    <3>1. Becomes(t, q)
      BY <2>2 DEF Becomes
    <3>2. q \in Processes /\ q.pc = "groupready" /\ q.op = p.op /\ q.id = p.id /\ q.gid = p.gid /\ q.made = p.made
          /\ q.snap = p.snap /\ q.gsnap = p.gsnap
      BY <1>0 DEF Processes, Pcs
    <3>3. Local(q, ids', cluster', gpu', misread')
      <4> HIDE DEF q
      <4> QED BY <1>0, <1>p, <1>2, <2>1, <3>2 DEF SaveGroup, Local, Places, Processes
    <3> QED BY <2>1, <3>1, <3>3, WentOnWith
  <2>3. CASE Exits(t, "zero")
    <3>1. \E q : Becomes(t, q) /\ Local(q, ids', cluster', gpu', misread')
      BY <1>0, <1>p, <1>2, <2>1, <2>3, Ending DEF SaveGroup
    <3> QED BY <2>1, <3>1 DEF Steps
  <2> QED BY <1>2, <2>2, <2>3 DEF SaveGroup
<1>3. CASE WaitGroupReady(t)
  <2>1. WorldMoves
    BY <1>3, <1>k, ReadingMovesNothing DEF WaitGroupReady, Fails
  <2>2. CASE Goto(t, "savegroup")
    BY <1>p, <1>3, <2>1, <2>2, WentOn DEF WaitGroupReady, Places
  <2> QED BY <1>3, <2>1, <2>2, Failed DEF WaitGroupReady
<1>4. CASE FindGroup(t)
  <2>1. WorldMoves /\ UNCHANGED <<ids, cluster, gpu>> /\ p.pc = "findgroup" /\ p.op = "remove"
    BY <1>p, <1>4, <1>k, ReadingMovesNothing DEF FindGroup, Fails
  <2>2. Gone(gpu, 0) /\ p.gid = 0
    BY <1>0, <2>1 DEF Local, Gone, Inv, Bounded
  <2>3. CASE Exits(t, "zero")
    <3>1. \E q : Becomes(t, q) /\ Local(q, ids', cluster', gpu', misread')
      BY <1>0, <2>1, <2>2, <2>3, Ending
    <3> QED BY <2>1, <3>1 DEF Steps
  <2>4. CASE /\ proc' = [proc EXCEPT ![t].pc = "forgetgroup", ![t].gid = p.gsnap]
             /\ GivesUp(p.gsnap, GroupExists(p.gsnap))
    <3> DEFINE q == [p EXCEPT !.pc = "forgetgroup", !.gid = p.gsnap]
    <3>1. Becomes(t, q)
      BY <2>4 DEF Becomes
    <3>2. q \in Processes /\ q.pc = "forgetgroup" /\ q.op = p.op /\ q.id = p.id /\ q.gid = p.gsnap
          /\ q.made = p.made /\ q.snap = p.snap /\ q.gsnap = p.gsnap
      BY <1>0 DEF Processes, Pcs
    <3>3. Gone(gpu, p.gsnap) \/ p.gsnap \in misread'
      BY <2>4 DEF GivesUp, GroupExists, Gone
    <3>4. Local(q, ids, cluster, gpu, misread')
      <4> HIDE DEF q
      <4> QED BY <1>0, <2>1, <2>2, <3>2, <3>3 DEF Local, Places
    <3> QED BY <2>1, <3>1, <3>4, WentOnWith
  <2>5. CASE proc' = [proc EXCEPT ![t].pc = "deletegroup", ![t].gid = gpu.id]
    <3> DEFINE q == [p EXCEPT !.pc = "deletegroup", !.gid = gpu.id]
    <3>1. Becomes(t, q)
      BY <2>5 DEF Becomes
    <3>2. q \in Processes /\ q.pc = "deletegroup" /\ q.op = p.op /\ q.id = p.id /\ q.gid = gpu.id
          /\ q.made = p.made /\ q.snap = p.snap /\ q.gsnap = p.gsnap
      BY <1>0 DEF Processes, Pcs
    <3>3. Local(q, ids', cluster', gpu', misread')
      <4> HIDE DEF q
      <4> QED BY <1>0, <1>p, <2>1, <3>2 DEF Local, Places, Processes
    <3> QED BY <2>1, <3>1, <3>3, WentOnWith
  <2>7. CASE Fails(t)
    BY <2>1, <2>7, Failed
  <2> QED BY <1>4, <2>3, <2>4, <2>5, <2>7 DEF FindGroup
<1>5. CASE DeleteGroup(t)
  <2>0. p.pc = "deletegroup" /\ (Tells(t) \/ UNCHANGED told)
        /\ UNCHANGED <<fileVars, vouched, tf, given, kills, crossed, cluster, cpu, ids>>
    BY <1>5 DEF DeleteGroup, Fails, CallOnly, SameRest
  <2>1. WorldMoves
    <3>1. \/ gpu' = gpu
          \/ gpu' = [gpu EXCEPT !.state = "deleting"] /\ gpu.state # "none"
      BY <1>5 DEF DeleteGroup, GroupExists
    <3>2. gpu' \in [id : Nat, state : States] /\ gpu'.id = gpu.id
          /\ (gpu.state = "none" => gpu'.state = "none") /\ cpu \in States
      BY <3>1 DEF Inv, TypeOK, States
    <3> QED BY <2>0, <3>2, <1>k, GroupsMove
  <2>2. CASE Goto(t, "groupgone")
    BY <1>p, <2>0, <2>1, <2>2, WentOn DEF Places
  <2> QED BY <1>5, <2>1, <2>2, Failed DEF DeleteGroup
<1>6. CASE WaitGroupGone(t)
  <2>1. WorldMoves /\ UNCHANGED <<ids, cluster, gpu>>
    BY <1>6, <1>k, ReadingMovesNothing DEF WaitGroupGone, Fails
  <2>2. CASE Goto(t, "forgetgroup") /\ GivesUp(p.gid, GroupExists(p.gid))
    <3> DEFINE q == [p EXCEPT !.pc = "forgetgroup"]
    <3>1. Becomes(t, q)
      BY <2>2, Going
    <3>2. q \in Processes /\ q.pc = "forgetgroup" /\ q.op = p.op /\ q.id = p.id /\ q.gid = p.gid
          /\ q.made = p.made
          /\ q.snap = p.snap /\ q.gsnap = p.gsnap
      BY <1>0 DEF Processes, Pcs
    <3>3. Local(q, ids, cluster, gpu, misread')
      <4> HIDE DEF q
      <4> QED BY <1>0, <1>p, <1>k, <1>6, <2>2, <3>2 DEF WaitGroupGone, Local, Places, GroupExists, Gone, GivesUp
    <3> QED BY <2>1, <3>1, <3>3, WentOnWith
  <2> QED BY <1>6, <2>1, <2>2, Failed DEF WaitGroupGone
<1>7. CASE ForgetGroup(t)
  <2>1. WorldMoves /\ UNCHANGED <<ids, cluster, gpu>>
    BY <1>7, <1>k, FilesMove DEF ForgetGroup, Inv, TypeOK, Bounded
  <2>2. p.op = "remove" /\ (Gone(gpu, p.gid) \/ p.gid \in misread)
    BY <1>0, <1>p, <1>7 DEF ForgetGroup, Local
  <2>4. Gone(gpu', p.gid) \/ p.gid \in misread'
    BY <1>k, <2>1, <2>2 DEF Kept
  <2>3. \E q : Becomes(t, q) /\ Local(q, ids', cluster', gpu', misread')
    BY <1>0, <1>7, <2>1, <2>2, <2>4, Ending DEF ForgetGroup
  <2> QED BY <2>1, <2>3 DEF Steps
<1>8. CASE ReadGroups(t)
  <2>1. WorldMoves /\ groupFile \in Nat /\ groupFile <= ids /\ UNCHANGED <<ids, cluster, gpu>>
    BY <1>8, <1>k, FilesMove DEF ReadGroups, Inv, TypeOK, Bounded
  <2>2. proc' = [proc EXCEPT ![t].pc = "lookgroups", ![t].gsnap = groupFile]
    BY <1>8 DEF ReadGroups
  <2> DEFINE q == [p EXCEPT !.pc = "lookgroups", !.gsnap = groupFile]
  <2>3. Becomes(t, q)
    BY <2>2 DEF Becomes
  <2>4. q \in Processes /\ q.pc = "lookgroups" /\ q.op = p.op /\ q.id = p.id /\ q.gid = p.gid /\ q.made = p.made
          /\ q.snap = p.snap /\ q.gsnap = groupFile
    BY <1>0, <2>1 DEF Processes, Pcs
  <2>5. Local(q, ids', cluster', gpu', misread')
    <3> HIDE DEF q
    <3> QED BY <1>0, <1>p, <1>8, <2>1, <2>4 DEF ReadGroups, Local, Places, Processes
  <2> QED BY <2>1, <2>3, <2>5, WentOnWith
<1>9. CASE LookGroups(t)
  <2>1. WorldMoves /\ UNCHANGED <<ids, cluster, gpu>>
    BY <1>9, <1>k, ReadingMovesNothing DEF LookGroups, Fails
  <2>2. CASE proc' = [proc EXCEPT ![t].pc = "writegroup", ![t].gid = gpu.id]
    <3> DEFINE q == [p EXCEPT !.pc = "writegroup", !.gid = gpu.id]
    <3>1. Becomes(t, q)
      BY <2>2 DEF Becomes
    <3>2. q \in Processes /\ q.pc = "writegroup" /\ q.op = p.op /\ q.id = p.id /\ q.gid = gpu.id /\ q.made = p.made
          /\ q.snap = p.snap /\ q.gsnap = p.gsnap
      BY <1>0 DEF Processes, Pcs
    <3>3. Local(q, ids', cluster', gpu', misread')
      <4> HIDE DEF q
      <4> QED BY <1>0, <1>p, <1>9, <2>1, <3>2 DEF LookGroups, Local, Places, Processes
    <3> QED BY <2>1, <3>1, <3>3, WentOnWith
  <2>3. CASE Exits(t, "zero")
    <3>1. \E q : Becomes(t, q) /\ Local(q, ids', cluster', gpu', misread')
      BY <1>0, <1>p, <1>9, <2>1, <2>3, Ending DEF LookGroups
    <3> QED BY <2>1, <3>1 DEF Steps
  <2> QED BY <1>9, <2>1, <2>2, <2>3, Failed DEF LookGroups
<1>10. CASE WriteGroup(t)
  <2>1. WorldMoves /\ UNCHANGED <<ids, cluster, gpu>>
    <3>1. p.gid \in Nat /\ p.gid <= ids
      BY <1>0 DEF Processes, Local
    <3> QED BY <1>10, <3>1, <1>k, FilesMove DEF WriteGroup, Inv, TypeOK, Bounded
  <2>2. \E q : Becomes(t, q) /\ Local(q, ids', cluster', gpu', misread')
    BY <1>0, <1>p, <1>10, <2>1, Ending DEF WriteGroup
  <2> QED BY <2>1, <2>2 DEF Steps
<1> QED BY <1>1, <1>2, <1>3, <1>4, <1>5, <1>6, <1>7, <1>8, <1>9, <1>10 DEF NodeGroups

LEMMA StartingSteps ==
  ASSUME Inv, NEW t \in Terminals, Start(t)
  PROVE Steps(t)
<1>0. ids \in Nat /\ UNCHANGED <<cloudVars, fileVars, tf, kills, told, vouched, misread>>
  BY DEF Start, Inv, TypeOK
<1>1. PICK op \in Ops, wait \in BOOLEAN :
        proc' = [proc EXCEPT ![t] = [Idle EXCEPT !.pc = Entry(op), !.op = op, !.wait = wait]]
  BY DEF Start
<1>2. WorldMoves
  <2>1. crossed' \subseteq {"record", "deploy"}
    BY DEF Start, Overlap, Inv, TypeOK
  <2>2. given' \in Nat
    BY DEF Start, Inv, TypeOK
  <2> QED BY <1>0, <2>1, <2>2 DEF WorldMoves, Inv, TypeOK, Bounded
<1> DEFINE pc == Entry(op)
           q == [Idle EXCEPT !.pc = pc, !.op = op, !.wait = wait]
<1>3. pc \in Pcs /\ pc \in Places[op] /\ pc \in {"find", "guard", "tfdestroy", "load"}
  BY DEF Entry, Ops, Places, Pcs
<1>4. Becomes(t, q)
  BY <1>1 DEF Becomes
<1>5. q \in Processes /\ q.pc = pc /\ q.op = op /\ q.id = 0 /\ q.gid = 0 /\ q.made = 0
     /\ q.snap.id = 0 /\ q.gsnap = 0
  <2>1. Idle \in Processes /\ Idle.id = 0 /\ Idle.gid = 0 /\ Idle.made = 0 /\ Idle.snap.id = 0
        /\ Idle.gsnap = 0
    BY DEF Processes, Idle, Pcs, States, Records, NoRecord
  <2> HIDE DEF pc
  <2> QED BY <1>3, <2>1 DEF Processes
<1>6. Local(q, ids', cluster', gpu', misread')
  <2>1. pc \notin {"findgroup", "groups", "rollback", "cpu", "forget", "done", "forgetgroup"}
    BY <1>3
  <2> HIDE DEF q, pc
  <2> QED BY <1>0, <1>3, <1>5, <2>1 DEF Local
<1> QED BY <1>2, <1>4, <1>6, WentOnWith

LEMMA StoppingSteps ==
  ASSUME Inv, NEW t \in Terminals, End(t) \/ Kill(t)
  PROVE Steps(t)
<1>1. Becomes(t, Idle) /\ UNCHANGED <<cloudVars, fileVars, tf, given, vouched, crossed, misread>>
      /\ (Tells(t) \/ UNCHANGED told) /\ kills' \in {kills, kills + 1}
  BY DEF End, Kill, Becomes
<1>2. told' \subseteq Nat
  BY <1>1, Saying DEF Inv, TypeOK
<1>3. WorldMoves
  BY <1>1, <1>2 DEF WorldMoves, Inv, TypeOK, Bounded
<1> QED BY <1>1, <1>3, IdleIsLocal, WentOnWith DEF WorldMoves

\* What happens at Nebius is like a step of the world that no command takes.
LEMMA CloudMoves ==
  ASSUME Inv, Cloud
  PROVE WorldMoves /\ UNCHANGED proc
<1>0. UNCHANGED <<fileVars, tf, proc, given, kills, told, vouched, crossed, misread>>
  BY DEF Cloud
<1>1. CASE ClusterSettles
  <2>1. UNCHANGED <<cpu, gpu, ids>> /\ cluster.state # "none" /\ cluster' \in [id : Nat, state : States]
        /\ cluster'.id = cluster.id
    BY <1>1 DEF ClusterSettles, Inv, TypeOK, States
  <2> QED BY <1>0, <2>1 DEF WorldMoves, Inv, TypeOK, Bounded, Gone
<1>2. CASE GroupSettles
  <2>1. UNCHANGED <<cluster, ids>> /\ cpu' \in States /\ gpu' \in [id : Nat, state : States]
        /\ gpu'.id = gpu.id /\ (gpu.state = "none" => gpu'.state = "none")
    BY <1>2 DEF GroupSettles, Inv, TypeOK, States
  <2>2. gpu'.state # "none" => gpu.state # "none"
    BY <2>1
  <2> QED BY <1>0, <2>1, <2>2 DEF WorldMoves, Inv, TypeOK, Bounded, Gone
<1>3. CASE ClusterGoes
  BY <1>0, <1>3, NothingLeft DEF ClusterGoes, Kept, Inv, TypeOK
<1>4. CASE GroupGoes
  BY <1>0, <1>4 DEF GroupGoes, NoCluster, WorldMoves, Inv, TypeOK, Bounded, Gone, States
<1> QED BY <1>0, <1>1, <1>2, <1>3, <1>4 DEF Cloud

-----------------------------------------------------------------------------
(* Theorems *)

LEMMA StepsKeepInv ==
  ASSUME Inv, [Next]_vars
  PROVE Inv'
<1>1. CASE UNCHANGED vars
  BY <1>1 DEF vars, Inv, TypeOK, Bounded
<1>2. CASE Cloud
  <2>1. WorldMoves /\ UNCHANGED proc
    BY <1>2, CloudMoves
  <2>2. ASSUME NEW u \in Terminals PROVE Local(proc[u], ids', cluster', gpu', misread')
    <3>1. Local(proc[u], ids, cluster, gpu, misread) /\ ids \in Nat /\ ids' \in Nat
      BY <2>1 DEF Inv, TypeOK, WorldMoves
    <3>2. proc[u].id \in Nat /\ proc[u].gid \in Nat /\ proc[u].made \in Nat
          /\ proc[u].snap.id \in Nat /\ proc[u].gsnap \in Nat
      BY <3>1 DEF Local, Processes, Records
    <3> QED BY <2>1, <3>1, <3>2 DEF Local, WorldMoves
  <2> QED BY <2>1, <2>2 DEF Inv, TypeOK, WorldMoves
<1>3. ASSUME NEW t \in Terminals,
             Start(t) \/ End(t) \/ Kill(t) \/ Deploy(t) \/ Terraform(t) \/ OnRecord(t) \/ NodeGroups(t)
      PROVE Inv'
  <2>1. Steps(t)
    BY <1>3, StartingSteps, StoppingSteps, DeployingSteps, TerraformingSteps, RecordingSteps,
       GroupingSteps
  <2>2. WorldMoves
    BY <2>1 DEF Steps
  <2>3. PICK q : Becomes(t, q) /\ Local(q, ids', cluster', gpu', misread')
    BY <2>1 DEF Steps
  <2>4. proc' \in [Terminals -> Processes] /\ proc'[t] = q
    BY <2>3 DEF Becomes, Local, Inv, TypeOK
  <2>5. ASSUME NEW u \in Terminals, u # t PROVE Local(proc[u], ids', cluster', gpu', misread') /\ proc'[u] = proc[u]
    <3>1. Local(proc[u], ids, cluster, gpu, misread) /\ ids \in Nat /\ ids' \in Nat
      BY <2>2 DEF Inv, TypeOK, WorldMoves
    <3>2. proc[u].id \in Nat /\ proc[u].gid \in Nat /\ proc[u].made \in Nat
          /\ proc[u].snap.id \in Nat /\ proc[u].gsnap \in Nat
      BY <3>1 DEF Local, Processes, Records
    <3>3. Local(proc[u], ids', cluster', gpu', misread')
      BY <2>2, <3>1, <3>2 DEF Local, WorldMoves
    <3> QED BY <2>3, <2>5, <3>3 DEF Becomes, Inv, TypeOK
  <2>6. \A u \in Terminals : Local(proc'[u], ids', cluster', gpu', misread')
    <3> TAKE u \in Terminals
    <3>1. CASE u = t
      BY <2>3, <2>4, <3>1
    <3>2. CASE u # t
      BY <2>5, <3>2
    <3> QED BY <3>1, <3>2
  <2> QED BY <2>2, <2>4, <2>6 DEF Inv, TypeOK, WorldMoves
<1> QED BY <1>1, <1>2, <1>3 DEF Next

LEMMA InitIsInv == Init => Inv
<1> SUFFICES ASSUME Init PROVE Inv
  OBVIOUS
<1>1. PICK way \in {"none", "deploy", "up"} :
        /\ cluster = IF way = "none" THEN NoCluster ELSE [id |-> 1, state |-> "running"]
        /\ cpu = IF way = "none" THEN "none" ELSE "running"
        /\ local = IF way = "none" THEN NoRecord ELSE [id |-> 1, kube |-> TRUE]
        /\ kubeconfig = IF way = "none" THEN None ELSE 1
        /\ tf = IF way = "up" THEN 1 ELSE None
        /\ ids = IF way = "none" THEN 0 ELSE 1
        /\ vouched = IF way = "none" THEN {} ELSE {1}
  BY DEF Init
<1>2. cluster \in [id : Nat, state : States] /\ cpu \in States /\ local \in Records
      /\ kubeconfig \in Nat /\ tf \in Nat /\ ids \in Nat /\ vouched \subseteq Nat
      /\ cluster.id <= ids /\ tf <= ids /\ local.id <= ids /\ (cluster.state # "none" => cluster.id # 0)
      /\ \A id \in vouched : id <= ids
  BY <1>1 DEF NoCluster, NoRecord, Records, States
<1>3. gpu \in [id : Nat, state : States] /\ gpu.id = 0 /\ gpu.state = "none" /\ groupFile = 0
      /\ given = 0 /\ kills = 0 /\ told = {} /\ crossed = {} /\ misread = {} /\ proc = [t \in Terminals |-> Idle]
  BY DEF Init, NoCluster, States
<1>4. Local(Idle, ids, cluster, gpu, misread)
  BY <1>2, IdleIsLocal
<1>5. Idle \in Processes
  BY <1>4 DEF Local
<1> QED BY <1>2, <1>3, <1>4, <1>5 DEF Inv, TypeOK, Bounded

\* Inv holds throughout: every variable has its type, every command is where its kind can be with
\* the ids it can have.
THEOREM InvariantHolds == Spec => []Inv
<1>1. Init => Inv
  BY InitIsInv
<1>2. Inv /\ [Next]_vars => Inv'
  BY StepsKeepInv
<1> QED BY <1>1, <1>2, PTL DEF Spec

\* Every variable keeps its type.
THEOREM TypeCorrect == Spec => []TypeOK
<1>1. Inv => TypeOK
  BY DEF Inv
<1> QED BY <1>1, InvariantHolds, PTL

\* destroy and node-group remove say "deleted", with exit code 0, of what is gone: for any number
\* of terminals that give other commands in between, and any ids Nebius gives out meanwhile.
THEOREM DeletionsAreDone == Spec => []GoneMeansGone
<1>1. Inv => GoneMeansGone
  BY DEF Inv, Local, GoneMeansGone, Exists, GroupExists, Gone
<1> QED BY <1>1, InvariantHolds, PTL

-----------------------------------------------------------------------------
(* What was reported ready stays *)

\* The places of a deploy that may still roll back.
Makings == {"create", "cpu", "rollback"}

\* Two deploys at once are noted, and what a deploy may roll back nobody else has had to do with.
Own(m) ==
    /\ m \notin vouched /\ m # tf
    /\ \A u \in Terminals : proc[u].op = "up" => m \notin {proc[u].id, proc[u].made}
OwnInv ==
    /\ \A t, u \in Terminals :
          t # u /\ proc[t].op = "deploy" /\ proc[u].op = "deploy" => "deploy" \in crossed
    /\ \A t \in Terminals :
          proc[t].pc \in Makings /\ proc[t].made # 0 => "deploy" \in crossed \/ Own(proc[t].made)

\* What a step of command t does to the ids it knows, and to what others rely on.
Books(t) ==
    /\ proc'[t].op \in {proc[t].op, "none"} /\ crossed' = crossed
    /\ proc'[t].made \in {proc[t].made, 0} \/ (proc'[t].made = ids + 1 /\ ids' = ids + 1)
    /\ proc[t].op = "up" => proc'[t].id \in {proc[t].id, 0, tf, proc[t].made}
    /\ tf' \in {tf, 0} \/ (proc[t].op = "up" /\ tf' = proc[t].made)
    /\ \/ vouched' = vouched
       \/ /\ proc[t].op \in {"deploy", "up"} /\ vouched' = vouched \cup {proc[t].id}
          /\ proc'[t].pc \notin Makings
    /\ proc'[t].pc \in Makings /\ proc'[t].made # 0 =>
         \/ proc'[t].made = ids + 1 /\ vouched' = vouched /\ tf' = tf
         \/ proc'[t].made = proc[t].made /\ proc[t].pc \in Makings
    /\ (Usable /\ ~(cluster'.id = cluster.id /\ Usable')) =>
         \/ proc[t].pc \in {"delete", "tfdestroy"} /\ proc'[t].pc # proc[t].pc
         \/ proc[t].pc = "rollback" /\ proc[t].id = cluster.id

\* Most steps leave alone what Books is about.
Calm(t) ==
    /\ UNCHANGED <<crossed, tf, vouched>>
    /\ UNCHANGED cluster \/ ~Usable \/ proc[t].pc = "delete"

LEMMA CalmSettings ==
  ASSUME Inv, NEW t \in Terminals, NEW q, Becomes(t, q), Calm(t), q.pc # "delete" \/ UNCHANGED cluster,
         q.op \in {proc[t].op, "none"}, q.made \in {proc[t].made, 0},
         proc[t].op = "up" => q.id \in {proc[t].id, 0, tf, proc[t].made},
         q.pc \in Makings => proc[t].pc \in Makings \/ q.made = 0
  PROVE Books(t)
<1>1. proc'[t] = q
  BY DEF Becomes, Inv, TypeOK
<1>2. (Usable /\ ~(cluster'.id = cluster.id /\ Usable')) => proc[t].pc = "delete" /\ q.pc # "delete"
  BY DEF Calm, Usable
<1> HIDE DEF Usable
<1> QED BY <1>1, <1>2 DEF Calm, Books, Makings

LEMMA CalmFailures ==
  ASSUME Inv, NEW t \in Terminals, Fails(t) \/ Exits(t, "one"), Calm(t)
  PROVE Books(t)
<1>1. Becomes(t, Idle)
  BY Failing DEF Fails
<1>2. Idle.pc = "idle" /\ Idle.op = "none" /\ Idle.made = 0 /\ Idle.id = 0
  BY DEF Idle
<1> QED BY <1>1, <1>2, CalmSettings DEF Makings

LEMMA CalmMoves ==
  ASSUME Inv, NEW t \in Terminals, NEW pc, Goto(t, pc), Calm(t), pc # "delete",
         pc \in Makings => proc[t].pc \in Makings \/ proc[t].made = 0
  PROVE Books(t)
<1> DEFINE q == [proc[t] EXCEPT !.pc = pc]
<1>1. Becomes(t, q)
  BY Going
<1>2. q.pc = pc /\ q.op = proc[t].op /\ q.id = proc[t].id /\ q.made = proc[t].made
  BY DEF Inv, TypeOK, Processes
<1> HIDE DEF q
<1> QED BY <1>1, <1>2, CalmSettings

LEMMA CalmRetries ==
  ASSUME Inv, NEW t \in Terminals, Retry(t), Calm(t), proc[t].pc # "delete"
  PROVE Books(t)
<1> DEFINE q == [proc[t] EXCEPT !.tries = @ + 1]
<1>1. Becomes(t, q)
  BY DEF Becomes, Retry
<1>2. q.pc = proc[t].pc /\ q.op = proc[t].op /\ q.id = proc[t].id /\ q.made = proc[t].made
  BY DEF Inv, TypeOK, Processes
<1> HIDE DEF q
<1> QED BY <1>1, <1>2, CalmSettings

LEMMA CalmEndings ==
  ASSUME Inv, NEW t \in Terminals, Exits(t, "zero"), Calm(t)
  PROVE Books(t)
<1> DEFINE q == Ended(proc[t], "zero")
<1>1. Becomes(t, q)
  BY DEF Exits, Becomes, Inv, TypeOK
<1>2. q.pc \in {"idle", "done"} /\ q.op \in {proc[t].op, "none"} /\ q.made = 0
  BY DEF Ended, Idle
<1>3. proc[t].op = "up" => q.id = 0
  BY DEF Ended, Idle
<1> HIDE DEF q
<1> QED BY <1>1, <1>2, <1>3, CalmSettings DEF Makings

LEMMA DeployingBooks ==
  ASSUME Inv, NEW t \in Terminals, Deploy(t)
  PROVE Books(t)
<1> DEFINE p == proc[t]
<1>0. Local(p, ids, cluster, gpu, misread) /\ p \in Processes /\ proc \in [Terminals -> Processes]
  BY DEF Inv, TypeOK
<1>p. /\ p.pc \in {"find", "groups", "create", "cpu", "rollback", "save", "ready", "readygroups",
                   "resave"} => p.op = "deploy"
      /\ p.pc \in {"credentials", "finalsave"} => p.op \in {"deploy", "up"}
  BY <1>0, PlacesTell DEF Local
<1>q. /\ p.pc \in {"find", "groups"} => p.made = 0
      /\ p.op \in Ops \cup {"none"}
  BY <1>0 DEF Local, Processes
<1>1. CASE FindCluster(t)
  <2>1. Calm(t) /\ UNCHANGED cluster
    BY <1>1 DEF FindCluster, Calm, CallOnly, SameRest, ReadOnly
  <2>2. CASE Goto(t, "create")
    BY <1>q, <1>1, <2>1, <2>2, CalmMoves DEF FindCluster
  <2>3. CASE proc' = [proc EXCEPT ![t].pc = "groups", ![t].id = cluster.id]
    <3> DEFINE q == [p EXCEPT !.pc = "groups", !.id = cluster.id]
    <3>1. Becomes(t, q)
      BY <2>3 DEF Becomes
    <3>2. q.pc = "groups" /\ q.op = p.op /\ q.id = cluster.id /\ q.made = p.made
      BY <1>0 DEF Processes
    <3> QED
      <4> HIDE DEF q
      <4> QED BY <1>p, <1>1, <2>1, <3>1, <3>2, CalmSettings DEF Makings, FindCluster
  <2> QED BY <1>1, <2>1, <2>2, <2>3, CalmFailures DEF FindCluster
<1>2. CASE AdoptCluster(t)
  <2>1. Calm(t)
    BY <1>2 DEF AdoptCluster, Calm, CallOnly, SameRest, ReadOnly
  <2>2. CASE Goto(t, "save") \/ Goto(t, "cpu")
    BY <1>q, <1>2, <2>1, <2>2, CalmMoves DEF AdoptCluster
  <2> QED BY <1>2, <2>1, <2>2, CalmFailures DEF AdoptCluster
<1>3. CASE CreateCluster(t)
  <2>1. Calm(t)
    BY <1>3 DEF CreateCluster, MakeCluster, Calm, Usable, CallOnly, SameRest, ReadOnly
  <2>2. CASE MakeCluster /\ proc' = [proc EXCEPT ![t].pc = "cpu", ![t].id = ids', ![t].made = ids', ![t].tries = 0]
    <3>1. ids' = ids + 1 /\ ~Usable
      BY <2>2 DEF MakeCluster, Usable
    <3>2. proc'[t].op = p.op /\ proc'[t].made = ids' /\ proc'[t].pc = "cpu"
      BY <1>0, <2>2 DEF Processes
    <3> QED BY <1>p, <1>3, <2>1, <3>1, <3>2 DEF CreateCluster, Calm, Books, Makings
  <2>3. CASE MakeCluster /\ proc' = [proc EXCEPT ![t].tries = @ + 1, ![t].made = ids']
    <3>1. ids' = ids + 1 /\ ~Usable
      BY <2>3 DEF MakeCluster, Usable
    <3>2. proc'[t].op = p.op /\ proc'[t].made = ids' /\ proc'[t].pc = p.pc
      BY <1>0, <2>3 DEF Processes
    <3> QED BY <1>p, <1>3, <2>1, <3>1, <3>2 DEF CreateCluster, Calm, Books, Makings
  <2> QED BY <1>3, <2>1, <2>2, <2>3, CalmFailures, CalmRetries DEF CreateCluster
<1>4. CASE CreateCpuGroup(t)
  <2>1. Calm(t) /\ p.pc = "cpu"
    BY <1>4 DEF CreateCpuGroup, Calm, CallOnly, SameRest, ReadOnly
  <2>2. CASE Goto(t, "save") \/ Goto(t, "rollback")
    BY <2>1, <2>2, CalmMoves DEF Makings
  <2> QED BY <1>4, <2>1, <2>2, CalmFailures, CalmRetries DEF CreateCpuGroup, CreationFails
<1>5. CASE Rollback(t)
  BY <1>0, <1>p, <1>q, <1>5 DEF Rollback, Fails, Exits, Ended, Idle, Goto, CallOnly, FileOnly, ReadOnly, SameRest,
     Usable, Exists, TakeDown, Books, Makings
<1>6. CASE SaveState(t)
  BY <1>0, <1>p, <1>q, <1>6 DEF SaveState, Fails, Exits, Ended, Idle, Goto, CallOnly, FileOnly, ReadOnly, SameRest,
     Usable, Exists, TakeDown, Books, Makings
<1>7. CASE PollCluster(t)
  <2>1. Calm(t) /\ UNCHANGED cluster
    BY <1>7 DEF PollCluster, Calm, CallOnly, SameRest, ReadOnly
  <2>2. CASE proc' = [proc EXCEPT ![t].pc = "readygroups", ![t].seen = cluster.state]
    <3> DEFINE q == [p EXCEPT !.pc = "readygroups", !.seen = cluster.state]
    <3>1. Becomes(t, q)
      BY <2>2 DEF Becomes
    <3>2. q.pc = "readygroups" /\ q.op = p.op /\ q.id = p.id /\ q.made = p.made
      BY <1>0 DEF Processes
    <3> QED
      <4> HIDE DEF q
      <4> QED BY <1>7, <2>1, <3>1, <3>2, CalmSettings DEF Makings, PollCluster
  <2> QED BY <1>7, <2>1, <2>2, CalmFailures DEF PollCluster
<1>8. CASE PollGroups(t)
  <2>1. Calm(t) /\ UNCHANGED cluster
    BY <1>8 DEF PollGroups, Calm, CallOnly, SameRest, ReadOnly
  <2>2. CASE ~Fails(t)
    <3>0. PICK pc \in {"resave", "ready"} : proc' = [proc EXCEPT ![t].pc = pc, ![t].seen = "none"]
      BY <1>8, <2>2 DEF PollGroups
    <3> DEFINE q == [p EXCEPT !.pc = pc, !.seen = "none"]
    <3>1. Becomes(t, q)
      BY <3>0 DEF Becomes
    <3>2. q.pc = pc /\ q.op = p.op /\ q.id = p.id /\ q.made = p.made
      BY <1>0 DEF Processes
    <3> QED
      <4> HIDE DEF q
      <4> QED BY <1>8, <2>1, <3>1, <3>2, CalmSettings DEF Makings, PollGroups
  <2> QED BY <2>1, <2>2, CalmFailures
<1>9. CASE SaveReady(t)
  BY <1>0, <1>p, <1>q, <1>9 DEF SaveReady, Fails, Exits, Ended, Idle, Goto, CallOnly, FileOnly, ReadOnly, SameRest,
     Usable, Exists, TakeDown, Books, Makings
<1>10. CASE WriteKubeconfig(t)
  <2>1. Calm(t)
    BY <1>10 DEF WriteKubeconfig, Calm, SameRest
  <2> QED BY <1>10, <2>1, CalmFailures, CalmMoves DEF WriteKubeconfig, Makings
<1>11. CASE SaveWithKubeconfig(t)
  <2>1. Calm(t)
    BY <1>11 DEF SaveWithKubeconfig, Calm, FileOnly, SameRest
  <2> QED BY <1>11, <2>1, CalmEndings, CalmMoves DEF SaveWithKubeconfig, Makings
<1> QED BY <1>1, <1>2, <1>3, <1>4, <1>5, <1>6, <1>7, <1>8, <1>9, <1>10, <1>11 DEF Deploy

LEMMA TerraformingBooks ==
  ASSUME Inv, NEW t \in Terminals, Terraform(t)
  PROVE Books(t)
<1> DEFINE p == proc[t]
<1>0. Local(p, ids, cluster, gpu, misread) /\ p \in Processes /\ proc \in [Terminals -> Processes]
  BY DEF Inv, TypeOK
<1>p. /\ p.pc \in {"guard", "apply", "applying", "validate"} => p.op = "up"
      /\ p.pc = "tfdestroy" => p.op = "down"
  BY <1>0, PlacesTell DEF Local
<1>q. /\ p.pc \in {"find", "groups"} => p.made = 0
      /\ p.op \in Ops \cup {"none"}
  BY <1>0 DEF Local, Processes
<1>1. CASE Guard(t)
  <2>1. Calm(t)
    BY <1>1 DEF Guard, Calm, CallOnly, SameRest, ReadOnly
  <2> QED BY <1>1, <2>1, CalmFailures, CalmMoves DEF Guard, Makings
<1>2. CASE Apply(t)
  <2>1. Calm(t) /\ p.pc = "apply"
    BY <1>2 DEF Apply, MakeCluster, Calm, Usable
  <2>2. CASE proc' = [proc EXCEPT ![t].pc = "credentials", ![t].id = tf]
    <3> DEFINE q == [p EXCEPT !.pc = "credentials", !.id = tf]
    <3>1. Becomes(t, q)
      BY <2>2 DEF Becomes
    <3>2. q.pc = "credentials" /\ q.op = p.op /\ q.id = tf /\ q.made = p.made
      BY <1>0 DEF Processes
    <3> QED
      <4> HIDE DEF q
      <4> QED BY <1>p, <2>1, <3>1, <3>2, CalmSettings DEF Makings
  <2>3. CASE MakeCluster /\ proc' = [proc EXCEPT ![t].pc = "applying", ![t].made = ids']
    <3>1. ids' = ids + 1 /\ ~Usable
      BY <2>3 DEF MakeCluster, Usable
    <3>2. proc'[t].op = p.op /\ proc'[t].made = ids' /\ proc'[t].pc = "applying" /\ proc'[t].id = p.id
      BY <1>0, <2>3 DEF Processes
    <3> QED BY <1>p, <2>1, <3>1, <3>2 DEF Calm, Books, Makings
  <2> QED BY <1>2, <2>1, <2>2, <2>3, CalmFailures DEF Apply
<1>3. CASE Applied(t)
  <2>1. p.pc = "applying" /\ UNCHANGED <<cluster, vouched, crossed>> /\ tf' \in {tf, p.made}
    BY <1>3 DEF Applied
  <2>2. p.op = "up" /\ Usable' = Usable
    BY <1>p, <2>1 DEF Usable
  <2>3. CASE Fails(t)
    <3>1. Becomes(t, Idle)
      BY <2>3, Failing DEF Fails
    <3>2. proc'[t] = Idle
      BY <3>1 DEF Becomes, Inv, TypeOK
    <3> QED BY <2>1, <2>2, <3>2 DEF Idle, Books, Makings
  <2>4. CASE proc' = [proc EXCEPT ![t].pc = "credentials", ![t].id = p.made]
    <3>1. proc'[t].op = p.op /\ proc'[t].made = p.made /\ proc'[t].pc = "credentials" /\ proc'[t].id = p.made
      BY <1>0, <2>4 DEF Processes
    <3> QED BY <2>1, <2>2, <3>1 DEF Books, Makings
  <2> QED BY <1>3, <2>3, <2>4 DEF Applied
<1>4. CASE Validate(t)
  BY <1>0, <1>p, <1>q, <1>4 DEF Validate, Fails, Exits, Ended, Idle, Goto, CallOnly, FileOnly, ReadOnly, SameRest,
     Usable, Exists, TakeDown, Books, Makings
<1>5. CASE TerraformDestroy(t)
  BY <1>0, <1>p, <1>q, <1>5 DEF TerraformDestroy, Fails, Exits, Ended, Idle, Goto, CallOnly, FileOnly, ReadOnly, SameRest,
     Usable, Exists, TakeDown, Books, Makings
<1> QED BY <1>1, <1>2, <1>3, <1>4, <1>5 DEF Terraform

LEMMA RecordingBooks ==
  ASSUME Inv, NEW t \in Terminals, OnRecord(t)
  PROVE Books(t)
<1> DEFINE p == proc[t]
<1>0. Local(p, ids, cluster, gpu, misread) /\ p \in Processes /\ proc \in [Terminals -> Processes]
  BY DEF Inv, TypeOK
<1>p. /\ p.pc \in {"load", "target"} =>
            p.op \in {"destroy", "status", "list", "add", "remove", "groups"}
      /\ p.pc \in {"delete", "gone", "forget"} => p.op = "destroy"
      /\ p.pc = "writeback" => p.op \in {"status", "list"}
  BY <1>0, PlacesTell DEF Local
<1>q. /\ p.pc \in {"find", "groups"} => p.made = 0
      /\ p.op \in Ops \cup {"none"}
  BY <1>0 DEF Local, Processes
<1>1. CASE Load(t)
  BY <1>0, <1>p, <1>q, <1>1 DEF Load, Fails, Exits, Ended, Idle, Goto, CallOnly, FileOnly, ReadOnly, SameRest,
     Usable, Exists, TakeDown, Books, Makings
<1>2. CASE FindTarget(t)
  <2>1. Calm(t) /\ UNCHANGED cluster /\ p.pc = "target"
    BY <1>2 DEF FindTarget, Calm, CallOnly, SameRest, ReadOnly
  <2>2. CASE WithTarget(t) /\ ~Exits(t, "zero")
    <3> DEFINE pc == AfterTarget[p.op]
               q == [p EXCEPT !.pc = pc, !.id = cluster.id]
    <3>1. Becomes(t, q)
      BY <2>2 DEF WithTarget, Becomes
    <3>2. pc \notin Makings /\ p.op # "up"
      BY <1>p, <2>1 DEF AfterTarget, Makings
    <3>3. q.pc = pc /\ q.op = p.op /\ q.made = p.made
      BY <1>0 DEF Processes
    <3> QED
      <4> HIDE DEF q, pc
      <4> QED BY <2>1, <3>1, <3>2, <3>3, CalmSettings
  <2>3. CASE WithoutTarget(t)
    <3>1. CASE p.op = "destroy" /\ proc' = [proc EXCEPT ![t].pc = "forget", ![t].id = p.snap.id]
      <4> DEFINE q == [p EXCEPT !.pc = "forget", !.id = p.snap.id]
      <4>1. Becomes(t, q)
        BY <3>1 DEF Becomes
      <4>2. q.pc = "forget" /\ q.op = p.op /\ q.made = p.made
        BY <1>0 DEF Processes
      <4> QED
        <5> HIDE DEF q
        <5> QED BY <2>1, <3>1, <4>1, <4>2, CalmSettings DEF Makings
    <3>2. Exits(t, "zero") \/ Fails(t) \/ Goto(t, "forgetgroup") 
        \/ (p.op = "destroy" /\ proc' = [proc EXCEPT ![t].pc = "forget", ![t].id = p.snap.id])
      BY <2>3 DEF WithoutTarget
    <3> QED BY <2>1, <3>1, <3>2, CalmEndings, CalmFailures, CalmMoves DEF Makings
  <2> QED BY <1>2, <2>1, <2>2, <2>3, CalmFailures, CalmEndings DEF FindTarget
<1>3. CASE DeleteCluster(t)
  <2>1. Calm(t)
    BY <1>3 DEF DeleteCluster, Calm, CallOnly, SameRest, ReadOnly
  <2> QED BY <1>3, <2>1, CalmFailures, CalmMoves DEF DeleteCluster, Makings
<1>4. CASE WaitGone(t)
  <2>1. Calm(t)
    BY <1>4 DEF WaitGone, Calm, CallOnly, SameRest, ReadOnly
  <2> QED BY <1>4, <2>1, CalmFailures, CalmMoves DEF WaitGone, Makings
<1>5. CASE Forget(t)
  BY <1>0, <1>p, <1>q, <1>5 DEF Forget, Fails, Exits, Ended, Idle, Goto, CallOnly, FileOnly, ReadOnly, SameRest,
     Usable, Exists, TakeDown, Books, Makings
<1>6. CASE WriteBack(t)
  BY <1>0, <1>p, <1>q, <1>6 DEF WriteBack, Fails, Exits, Ended, Idle, Goto, CallOnly, FileOnly, ReadOnly, SameRest,
     Usable, Exists, TakeDown, Books, Makings
<1> QED BY <1>1, <1>2, <1>3, <1>4, <1>5, <1>6 DEF OnRecord

LEMMA GroupingBooks ==
  ASSUME Inv, NEW t \in Terminals, NodeGroups(t)
  PROVE Books(t)
<1> DEFINE p == proc[t]
<1>0. Local(p, ids, cluster, gpu, misread) /\ p \in Processes /\ proc \in [Terminals -> Processes]
  BY DEF Inv, TypeOK
<1>p. /\ p.pc \in {"addgroup", "savegroup", "groupready"} => p.op = "add"
      /\ p.pc \in {"findgroup", "deletegroup", "groupgone", "forgetgroup"} => p.op = "remove"
      /\ p.pc \in {"readgroups", "lookgroups", "writegroup"} => p.op = "groups"
  BY <1>0, PlacesTell DEF Local
<1>q. /\ p.pc \in {"find", "groups"} => p.made = 0
      /\ p.op \in Ops \cup {"none"}
  BY <1>0 DEF Local, Processes
<1>1. CASE AddGroup(t)
  <2>1. Calm(t) /\ p.pc = "addgroup"
    BY <1>1 DEF AddGroup, Calm, CallOnly, SameRest, ReadOnly
  <2>2. CASE proc' = [proc EXCEPT ![t].pc = "savegroup", ![t].gid = ids + 1]
    <3> DEFINE q == [p EXCEPT !.pc = "savegroup", !.gid = ids + 1]
    <3>1. Becomes(t, q)
      BY <2>2 DEF Becomes
    <3>2. q.pc = "savegroup" /\ q.op = p.op /\ q.id = p.id /\ q.made = p.made
      BY <1>0 DEF Processes
    <3> QED
      <4> HIDE DEF q
      <4> QED BY <1>p, <2>1, <3>1, <3>2, CalmSettings DEF Makings
  <2> QED BY <1>1, <2>1, <2>2, CalmFailures, CalmRetries DEF AddGroup
<1>2. CASE SaveGroup(t)
  <2>1. Calm(t) /\ p.pc = "savegroup"
    BY <1>2 DEF SaveGroup, Calm, FileOnly, SameRest
  <2>2. CASE proc' = [proc EXCEPT ![t].pc = "groupready", ![t].wait = FALSE]
    <3> DEFINE q == [p EXCEPT !.pc = "groupready", !.wait = FALSE]
    <3>1. Becomes(t, q)
      BY <2>2 DEF Becomes
    <3>2. q.pc = "groupready" /\ q.op = p.op /\ q.id = p.id /\ q.made = p.made
      BY <1>0 DEF Processes
    <3> QED
      <4> HIDE DEF q
      <4> QED BY <1>p, <2>1, <3>1, <3>2, CalmSettings DEF Makings
  <2> QED BY <1>2, <2>1, <2>2, CalmEndings DEF SaveGroup
<1>3. CASE WaitGroupReady(t)
  <2>1. Calm(t)
    BY <1>3 DEF WaitGroupReady, Calm, CallOnly, SameRest, ReadOnly
  <2> QED BY <1>3, <2>1, CalmFailures, CalmMoves DEF WaitGroupReady, Makings
<1>4. CASE FindGroup(t)
  <2>1. Calm(t) /\ p.pc = "findgroup"
    BY <1>4 DEF FindGroup, Calm, CallOnly, SameRest, ReadOnly
  <2>2. CASE proc' = [proc EXCEPT ![t].pc = "deletegroup", ![t].gid = gpu.id]
    <3> DEFINE q == [p EXCEPT !.pc = "deletegroup", !.gid = gpu.id]
    <3>1. Becomes(t, q)
      BY <2>2 DEF Becomes
    <3>2. q.pc = "deletegroup" /\ q.op = p.op /\ q.id = p.id /\ q.made = p.made
      BY <1>0 DEF Processes
    <3> QED
      <4> HIDE DEF q
      <4> QED BY <1>p, <2>1, <3>1, <3>2, CalmSettings DEF Makings
  <2>3. CASE proc' = [proc EXCEPT ![t].pc = "forgetgroup", ![t].gid = p.gsnap]
    <3> DEFINE q == [p EXCEPT !.pc = "forgetgroup", !.gid = p.gsnap]
    <3>1. Becomes(t, q)
      BY <2>3 DEF Becomes
    <3>2. q.pc = "forgetgroup" /\ q.op = p.op /\ q.id = p.id /\ q.made = p.made
      BY <1>0 DEF Processes
    <3> QED
      <4> HIDE DEF q
      <4> QED BY <1>p, <2>1, <3>1, <3>2, CalmSettings DEF Makings
  <2> QED BY <1>4, <2>1, <2>2, <2>3, CalmFailures, CalmEndings DEF FindGroup
<1>5. CASE DeleteGroup(t)
  <2>1. Calm(t)
    BY <1>5 DEF DeleteGroup, Calm, CallOnly, SameRest, ReadOnly
  <2> QED BY <1>5, <2>1, CalmFailures, CalmMoves DEF DeleteGroup, Makings
<1>6. CASE WaitGroupGone(t)
  <2>1. Calm(t)
    BY <1>6 DEF WaitGroupGone, Calm, CallOnly, SameRest, ReadOnly
  <2> QED BY <1>6, <2>1, CalmFailures, CalmMoves DEF WaitGroupGone, Makings
<1>7. CASE ForgetGroup(t)
  BY <1>0, <1>p, <1>q, <1>7 DEF ForgetGroup, Fails, Exits, Ended, Idle, Goto, CallOnly, FileOnly, ReadOnly, SameRest,
     Usable, Exists, TakeDown, Books, Makings
<1>8. CASE ReadGroups(t)
  BY <1>0, <1>p, <1>q, <1>8 DEF ReadGroups, Fails, Exits, Ended, Idle, Goto, CallOnly, FileOnly, ReadOnly, SameRest,
     Usable, Exists, TakeDown, Books, Makings
<1>9. CASE LookGroups(t)
  <2>1. Calm(t) /\ p.pc = "lookgroups"
    BY <1>9 DEF LookGroups, Calm, CallOnly, SameRest, ReadOnly
  <2>2. CASE proc' = [proc EXCEPT ![t].pc = "writegroup", ![t].gid = gpu.id]
    <3> DEFINE q == [p EXCEPT !.pc = "writegroup", !.gid = gpu.id]
    <3>1. Becomes(t, q)
      BY <2>2 DEF Becomes
    <3>2. q.pc = "writegroup" /\ q.op = p.op /\ q.id = p.id /\ q.made = p.made
      BY <1>0 DEF Processes
    <3> QED
      <4> HIDE DEF q
      <4> QED BY <1>p, <2>1, <3>1, <3>2, CalmSettings DEF Makings
  <2> QED BY <1>9, <2>1, <2>2, CalmFailures, CalmEndings DEF LookGroups
<1>10. CASE WriteGroup(t)
  BY <1>0, <1>p, <1>q, <1>10 DEF WriteGroup, Fails, Exits, Ended, Idle, Goto, CallOnly, FileOnly, ReadOnly, SameRest,
     Usable, Exists, TakeDown, Books, Makings
<1> QED BY <1>1, <1>2, <1>3, <1>4, <1>5, <1>6, <1>7, <1>8, <1>9, <1>10 DEF NodeGroups

LEMMA OtherCommandsStay ==
  ASSUME Inv, NEW t \in Terminals, Steps(t)
  PROVE \A u \in Terminals : u # t => proc'[u] = proc[u]
BY DEF Steps, Becomes, Inv, TypeOK

\* What is known of a command in usable form.
LEMMA Known ==
  ASSUME Inv, NEW t \in Terminals
  PROVE /\ proc[t].id \in Nat /\ proc[t].id <= ids /\ proc[t].made \in Nat /\ proc[t].made <= ids
        /\ ids \in Nat /\ tf \in Nat /\ tf <= ids
        /\ proc[t].pc \in Makings => proc[t].op = "deploy"
        /\ proc[t].pc = "rollback" => proc[t].made # 0 /\ proc[t].id = proc[t].made
        /\ proc[t].op = "deploy" => Busy(t)
<1>1. Local(proc[t], ids, cluster, gpu, misread) /\ proc[t] \in Processes
  BY DEF Inv, Local
<1>2. proc[t].pc \in Makings => proc[t].op = "deploy"
  BY <1>1, PlacesTell DEF Local, Makings
<1>3. proc[t].op = "deploy" => proc[t].pc \notin {"idle", "done"}
  BY <1>1, PlacesTell DEF Local
<1> QED BY <1>1, <1>2, <1>3 DEF Local, Processes, Inv, TypeOK, Bounded, Busy

LEMMA BooksKeepOwn ==
  ASSUME Inv, Inv', OwnInv, NEW t \in Terminals, Books(t), Steps(t)
  PROVE OwnInv'
<1>0. \A u \in Terminals : u # t => proc'[u] = proc[u]
  BY OtherCommandsStay
<1>k. \A u \in Terminals :
        /\ proc[u].id \in Nat /\ proc[u].id <= ids /\ proc[u].made \in Nat /\ proc[u].made <= ids
        /\ ids \in Nat /\ tf \in Nat /\ tf <= ids
        /\ proc[u].pc \in Makings => proc[u].op = "deploy"
  BY Known
<1>v. \A id \in vouched : id <= ids
  BY DEF Inv, Bounded
<1>1. ASSUME NEW u \in Terminals, NEW w \in Terminals, u # w, proc'[u].op = "deploy", proc'[w].op = "deploy"
      PROVE "deploy" \in crossed'
  <2>1. proc[u].op = "deploy" /\ proc[w].op = "deploy"
    BY <1>0, <1>1 DEF Books
  <2> QED BY <1>1, <2>1 DEF OwnInv, Books
<1>2. ASSUME NEW w \in Terminals, proc'[w].pc \in Makings, proc'[w].made # 0, "deploy" \notin crossed'
      PROVE Own(proc[w].made)'
  <2>0. "deploy" \notin crossed
    BY <1>2 DEF Books
  <2> DEFINE m == proc'[w].made
  <2>1. CASE w # t
    <3>1. m = proc[w].made /\ proc[w].pc \in Makings /\ m \in Nat /\ m <= ids /\ m # 0
      BY <1>0, <1>2, <1>k, <2>1
    <3>2. Own(proc[w].made)
      BY <1>2, <2>0, <3>1 DEF OwnInv
    <3>3. m \notin vouched /\ m # tf
          /\ \A u \in Terminals : proc[u].op = "up" => m \notin {proc[u].id, proc[u].made}
      BY <3>1, <3>2 DEF Own
    <3>4. proc[t].op # "deploy"
      BY <1>k, <2>0, <2>1, <3>1 DEF OwnInv
    <3> HIDE DEF m
    <3>5. m \notin vouched'
      BY <3>3, <3>4 DEF Books
    <3>6. m # tf'
      BY <3>1, <3>3 DEF Books
    <3>7. ASSUME NEW u \in Terminals, proc'[u].op = "up" PROVE m \notin {proc'[u].id, proc'[u].made}
      <4>1. CASE u # t
        BY <1>0, <3>3, <3>7, <4>1
      <4>2. CASE u = t
        <5>1. proc[t].op = "up"
          BY <3>7, <4>2 DEF Books
        <5> QED BY <1>k, <3>1, <3>3, <4>2, <5>1 DEF Books
      <4> QED BY <4>1, <4>2
    <3> QED BY <3>5, <3>6, <3>7 DEF Own, m
  <2>2. CASE w = t
    <3>1. proc'[t].op # "up"
      BY <1>2, <2>2, Known DEF Inv, Makings, Places, Local
    <3>2. CASE m = ids + 1 /\ vouched' = vouched /\ tf' = tf
      <4>1. m \notin vouched' /\ m # tf'
        BY <1>k, <1>v, <3>2 DEF Inv, TypeOK
      <4>2. ASSUME NEW u \in Terminals, proc'[u].op = "up" PROVE m \notin {proc'[u].id, proc'[u].made}
        <5>1. u # t
          BY <3>1, <4>2
        <5> QED BY <1>0, <1>k, <3>2, <5>1
      <4> QED BY <4>1, <4>2 DEF Own
    <3>3. CASE m = proc[t].made /\ proc[t].pc \in Makings
      <4>1. Own(proc[t].made) /\ proc[t].op = "deploy"
        BY <1>2, <1>k, <2>0, <2>2, <3>3 DEF OwnInv
      <4>2. m \notin vouched /\ m # tf /\ m # 0
            /\ \A u \in Terminals : proc[u].op = "up" => m \notin {proc[u].id, proc[u].made}
        BY <1>2, <2>2, <3>3, <4>1 DEF Own
      <4>3. vouched' = vouched /\ tf' \in {tf, 0}
        BY <1>2, <2>2, <4>1 DEF Books
      <4>4. ASSUME NEW u \in Terminals, proc'[u].op = "up" PROVE m \notin {proc'[u].id, proc'[u].made}
        <5>1. u # t
          BY <3>1, <4>4
        <5> QED BY <1>0, <4>2, <4>4, <5>1
      <4> QED BY <4>2, <4>3, <4>4 DEF Own
    <3> QED BY <1>2, <2>2, <3>2, <3>3 DEF Books
  <2> QED BY <2>1, <2>2
<1> QED BY <1>1, <1>2 DEF OwnInv

LEMMA StartKeepsOwn ==
  ASSUME Inv, Inv', OwnInv, NEW t \in Terminals, Start(t)
  PROVE OwnInv'
<1>0. Steps(t)
  BY StartingSteps
<1>1. \A u \in Terminals : u # t => proc'[u] = proc[u]
  BY <1>0, OtherCommandsStay
<1>2. PICK op \in Ops, wait \in BOOLEAN :
        /\ proc' = [proc EXCEPT ![t] = [Idle EXCEPT !.pc = Entry(op), !.op = op, !.wait = wait]]
        /\ crossed' = crossed \cup UNION {Overlap(op, proc[u].op) : u \in {v \in Terminals : Busy(v)}}
  BY DEF Start
<1>3. proc'[t].op = op /\ proc'[t].id = 0 /\ proc'[t].made = 0
  BY <1>2 DEF Idle, Inv, TypeOK
<1>4. UNCHANGED <<vouched, tf>> /\ crossed \subseteq crossed'
  BY <1>2 DEF Start
<1>5. ASSUME NEW u \in Terminals, u # t, op = "deploy", proc[u].op = "deploy" PROVE "deploy" \in crossed'
  <2>1. Busy(u)
    BY <1>5, Known
  <2>2. "deploy" \in Overlap(op, proc[u].op)
    BY <1>5 DEF Overlap
  <2> QED BY <1>2, <2>1, <2>2
<1>6. ASSUME NEW u \in Terminals, NEW w \in Terminals, u # w, proc'[u].op = "deploy", proc'[w].op = "deploy"
      PROVE "deploy" \in crossed'
  <2>1. CASE u # t /\ w # t
    BY <1>1, <1>4, <1>6, <2>1 DEF OwnInv
  <2>2. CASE u = t
    BY <1>1, <1>3, <1>5, <1>6, <2>2
  <2>3. CASE w = t
    BY <1>1, <1>3, <1>5, <1>6, <2>3
  <2> QED BY <2>1, <2>2, <2>3
<1>7. ASSUME NEW w \in Terminals, proc'[w].pc \in Makings, proc'[w].made # 0, "deploy" \notin crossed'
      PROVE Own(proc[w].made)'
  <2>1. w # t /\ proc'[w] = proc[w]
    BY <1>1, <1>3, <1>7
  <2>2. Own(proc[w].made)
    BY <1>4, <1>7, <2>1 DEF OwnInv
  <2> DEFINE m == proc[w].made
  <2>3. m \notin vouched' /\ m # tf' /\ m # 0
        /\ \A u \in Terminals : proc[u].op = "up" => m \notin {proc[u].id, proc[u].made}
    BY <1>4, <1>7, <2>1, <2>2 DEF Own
  <2>4. \A u \in Terminals : proc'[u].op = "up" => m \notin {proc'[u].id, proc'[u].made}
    BY <1>1, <1>3, <2>3
  <2> QED BY <2>1, <2>3, <2>4 DEF Own
<1> QED BY <1>6, <1>7 DEF OwnInv

\* A command that ends or is killed leaves its claims.
LEMMA StopKeepsOwn ==
  ASSUME Inv, NEW t \in Terminals, End(t) \/ Kill(t)
  PROVE Books(t)
<1>1. Becomes(t, Idle) /\ Calm(t)
  BY DEF End, Kill, Becomes, Calm
<1>2. Idle.pc = "idle" /\ Idle.op = "none" /\ Idle.made = 0 /\ Idle.id = 0
  BY DEF Idle
<1> QED BY <1>1, <1>2, CalmSettings DEF Makings

LEMMA StepsAreBooked ==
  ASSUME Inv, NEW t \in Terminals,
         End(t) \/ Kill(t) \/ Deploy(t) \/ Terraform(t) \/ OnRecord(t) \/ NodeGroups(t)
  PROVE Steps(t) /\ Books(t)
BY StoppingSteps, DeployingSteps, TerraformingSteps, RecordingSteps, GroupingSteps,
   StopKeepsOwn, DeployingBooks, TerraformingBooks, RecordingBooks, GroupingBooks

LEMMA OwnIsKept ==
  ASSUME Inv, Inv', OwnInv, [Next]_vars
  PROVE OwnInv'
<1>1. CASE UNCHANGED vars
  BY <1>1 DEF vars, OwnInv, Own
<1>2. CASE Cloud
  BY <1>2 DEF Cloud, OwnInv, Own
<1>3. ASSUME NEW t \in Terminals, Start(t)
      PROVE OwnInv'
  BY <1>3, StartKeepsOwn
<1>4. ASSUME NEW t \in Terminals,
             End(t) \/ Kill(t) \/ Deploy(t) \/ Terraform(t) \/ OnRecord(t) \/ NodeGroups(t)
      PROVE OwnInv'
  BY <1>4, StepsAreBooked, BooksKeepOwn
<1> QED BY <1>1, <1>2, <1>3, <1>4 DEF Next

LEMMA VouchedIsKept ==
  ASSUME Inv, OwnInv, [Next]_vars, NEW id \in vouched,
         cluster.id = id, Usable, ~(cluster'.id = id /\ Usable')
  PROVE \E t \in Terminals :
          \/ proc[t].pc \in {"delete", "tfdestroy"} /\ proc'[t].pc # proc[t].pc
          \/ At(t, "rollback") /\ proc[t].made = id /\ "deploy" \in crossed
<1>1. CASE UNCHANGED vars
  BY <1>1 DEF vars, Usable
<1>2. CASE Cloud
  <2>1. CASE ClusterSettles
    BY <2>1 DEF ClusterSettles, Usable, Inv, TypeOK
  <2>2. CASE ~ClusterSettles
    BY <1>2, <2>2 DEF Cloud, GroupSettles, ClusterGoes, GroupGoes, Usable
  <2> QED BY <2>1, <2>2
<1>3. ASSUME NEW t \in Terminals, Start(t)
      PROVE FALSE
  BY <1>3 DEF Start, Usable
<1>4. ASSUME NEW t \in Terminals,
             End(t) \/ Kill(t) \/ Deploy(t) \/ Terraform(t) \/ OnRecord(t) \/ NodeGroups(t)
      PROVE \E u \in Terminals :
              \/ proc[u].pc \in {"delete", "tfdestroy"} /\ proc'[u].pc # proc[u].pc
              \/ At(u, "rollback") /\ proc[u].made = id /\ "deploy" \in crossed
  <2>1. Books(t)
    BY <1>4, StepsAreBooked
  <2>2. CASE proc[t].pc = "rollback" /\ proc[t].id = cluster.id
    <3>1. proc[t].made # 0 /\ proc[t].made = id /\ proc[t].pc \in Makings
      BY <2>2, Known DEF Makings
    <3>2. "deploy" \in crossed
      BY <3>1 DEF OwnInv, Own
    <3> QED BY <2>2, <3>1, <3>2
  <2> QED BY <2>1, <2>2 DEF Books
<1> QED BY <1>1, <1>2, <1>3, <1>4 DEF Next

\* Only a destroy or a down takes down a cluster that a deploy or an up has reported ready, for any
\* number of terminals and commands: the rollback of a failed deploy has its own creation in hand,
\* which nobody has vouched for, unless another deploy ran at the same time.
THEOREM ReadyClustersStay == Spec => DeployedIsKept
<1>1. Init => Inv /\ OwnInv
  <2>1. Init => OwnInv
    BY DEF Init, OwnInv, Idle, Makings
  <2> QED BY <2>1, InitIsInv
<1>2. Inv /\ OwnInv /\ [Next]_vars => (Inv /\ OwnInv)'
  BY StepsKeepInv, OwnIsKept
<1>3. Inv /\ OwnInv /\ [Next]_vars =>
        [\A id \in vouched :
           (cluster.id = id /\ Usable /\ ~(cluster'.id = id /\ Usable')) =>
             \E t \in Terminals :
               \/ proc[t].pc \in {"delete", "tfdestroy"} /\ proc'[t].pc # proc[t].pc
               \/ At(t, "rollback") /\ proc[t].made = id /\ "deploy" \in crossed]_vars
  BY VouchedIsKept
<1> QED BY <1>1, <1>2, <1>3, PTL DEF Spec, DeployedIsKept

-----------------------------------------------------------------------------
(* What the records are worth *)

\* A command that may write cluster.json.
Works(p) == p.op \in Writers /\ p.pc \notin {"idle", "done"}

\* Past here a deploy or an up works on the cluster it has found or made.
Past == {"groups", "cpu", "rollback", "save", "ready", "readygroups", "resave", "credentials",
         "finalsave", "validate"}

\* What a command p that is alone in writing relies on, with the cluster c, the files l and k
\* and m given up: what it has loaded is what is there, and the cluster it works on is the only one of its name.
Work(p, c, l, k, m) ==
    /\ p.op \in {"destroy", "status", "list"} /\ p.pc \in {"target", "delete", "gone", "forget", "writeback"}
          => p.snap = l
    /\ p.pc \in {"delete", "gone"} => p.snap.id \in {0, p.id}
    /\ p.pc = "forget" => Gone(c, p.snap.id) \/ p.snap.id \in m
    /\ p.pc \in {"guard", "apply"} => p.made = 0
    /\ p.pc \in Past => p.made \in {0, p.id} /\ (c.state # "none" => c.id = p.id)
    /\ p.pc = "validate" => l.id = p.id
    /\ p.pc = "finalsave" => k = p.id

\* The record is of the present cluster or an earlier one, and so are the credentials it names.
Below == local.id <= ids /\ (cluster.state # "none" => local.id <= cluster.id)
Credited == local.kube => kubeconfig >= local.id
Held ==
    Usable =>
        \/ cluster.id \in {local.id, tf} \cup told \cup misread
        \/ \E u \in Terminals : proc[u].op \in {"deploy", "up"} /\ cluster.id \in {proc[u].id, proc[u].made}
Papers == Below /\ Credited /\ Held

LoneInv ==
    "record" \notin crossed =>
        /\ \A t, u \in Terminals : t # u => ~(Works(proc[t]) /\ Works(proc[u]))
        /\ \A t \in Terminals : Work(proc[t], cluster, local, kubeconfig, misread)
        /\ Papers

\* What a step of command t is to keep of this.
PapersKept(t) == crossed' = crossed /\ Work(proc'[t], cluster', local', kubeconfig', misread') /\ Papers'

\* The names under which a cluster that stays is known stay, when t goes on with q.
NamesKept(t, q) ==
    \/ proc[t].op \notin {"deploy", "up"}
    \/ cluster'.id \in told'
    \/ q.op = proc[t].op /\ {proc[t].id, proc[t].made} \subseteq {q.id, q.made, 0}
SameOrDeleting == UNCHANGED cluster \/ cluster' = [cluster EXCEPT !.state = "deleting"]

LEMMA QuietPapers ==
  ASSUME Inv, Inv', Papers, NEW t \in Terminals, NEW q, Becomes(t, q), Steps(t),
         UNCHANGED <<local, kubeconfig, tf, crossed>>, told \subseteq told', ids <= ids',
         SameOrDeleting, cluster.state = "none" => cluster'.state = "none", NamesKept(t, q),
         Work(q, cluster', local, kubeconfig, misread')
  PROVE PapersKept(t)
<1>1. proc'[t] = q
  BY DEF Becomes, Inv, TypeOK
<1>2. \A u \in Terminals : u # t => proc'[u] = proc[u]
  BY OtherCommandsStay
<1>3. cluster'.id = cluster.id /\ (cluster'.state # "none" => cluster.state # "none") /\ (Usable' => Usable)
  BY DEF SameOrDeleting, Inv, TypeOK, Usable
<1>4. Below' /\ Credited'
  BY <1>3 DEF Papers, Below, Credited, Inv, TypeOK, Records
<1>5. Held'
  <2> SUFFICES ASSUME Usable'
               PROVE \/ cluster'.id \in {local'.id, tf'} \cup told' \cup misread'
                     \/ \E u \in Terminals : proc'[u].op \in {"deploy", "up"} /\ cluster'.id \in {proc'[u].id, proc'[u].made}
    BY DEF Held
  <2>1. Usable /\ cluster.id # 0
    BY <1>3 DEF Inv, Bounded, Usable
  <2>2. CASE cluster.id \in {local.id, tf} \cup told \cup misread
    BY <1>3, <2>2 DEF Steps, WorldMoves
  <2>3. CASE \E u \in Terminals : proc[u].op \in {"deploy", "up"} /\ cluster.id \in {proc[u].id, proc[u].made}
    <3>1. PICK u \in Terminals : proc[u].op \in {"deploy", "up"} /\ cluster.id \in {proc[u].id, proc[u].made}
      BY <2>3
    <3>2. CASE u # t
      BY <1>2, <1>3, <3>1, <3>2
    <3>3. CASE u = t
      BY <1>1, <1>3, <2>1, <3>1, <3>3 DEF NamesKept
    <3> QED BY <3>2, <3>3
  <2> QED BY <2>1, <2>2, <2>3 DEF Papers, Held
<1> QED BY <1>1, <1>4, <1>5 DEF PapersKept, Papers

\* The steps that move one command from one such place to another, or end it.
LEMMA IdleWorks == \A c, l, k, m : Work(Idle, c, l, k, m)
BY DEF Work, Idle, Past

LEMMA FailedPapers ==
  ASSUME Inv, Inv', Papers, NEW t \in Terminals, Fails(t), Steps(t),
         UNCHANGED <<local, kubeconfig, tf, crossed>>, ids <= ids',
         SameOrDeleting, cluster.state = "none" => cluster'.state = "none"
  PROVE PapersKept(t)
<1>1. Becomes(t, Idle)
  BY Failing DEF Fails
<1>2. told \subseteq told' /\ NamesKept(t, Idle)
  BY DEF Fails, Tells, NamesKept
<1> QED BY <1>1, <1>2, IdleWorks, QuietPapers

LEMMA EndedPapers ==
  ASSUME Inv, Inv', Papers, NEW t \in Terminals, Exits(t, "zero") \/ Exits(t, "one"), Steps(t),
         UNCHANGED <<local, kubeconfig, tf, crossed, told>>, ids <= ids',
         SameOrDeleting, cluster.state = "none" => cluster'.state = "none",
         proc[t].op \notin {"deploy", "up"}
  PROVE PapersKept(t)
<1>1. PICK code \in {"zero", "one"} : Exits(t, code)
  OBVIOUS
<1> DEFINE q == Ended(proc[t], code)
<1>2. Becomes(t, q)
  BY <1>1 DEF Exits, Becomes, Inv, TypeOK
<1>3. q.pc \in {"idle", "done"}
  BY DEF Ended, Idle
<1>4. Work(q, cluster', local, kubeconfig, misread')
  <2> HIDE DEF q
  <2> QED BY <1>3 DEF Work, Past
<1> QED BY <1>2, <1>4, QuietPapers DEF NamesKept

LEMMA MovedPapers ==
  ASSUME Inv, Inv', Papers, NEW t \in Terminals, NEW pc, Goto(t, pc), Steps(t),
         UNCHANGED <<local, kubeconfig, tf, crossed, told>>, ids <= ids',
         SameOrDeleting, cluster.state = "none" => cluster'.state = "none",
         Work([proc[t] EXCEPT !.pc = pc], cluster', local, kubeconfig, misread')
  PROVE PapersKept(t)
<1>1. Becomes(t, [proc[t] EXCEPT !.pc = pc])
  BY Going
<1>2. [proc[t] EXCEPT !.pc = pc].op = proc[t].op /\ [proc[t] EXCEPT !.pc = pc].id = proc[t].id
      /\ [proc[t] EXCEPT !.pc = pc].made = proc[t].made
  BY DEF Inv, TypeOK, Processes
<1>3. NamesKept(t, [proc[t] EXCEPT !.pc = pc])
  BY <1>2 DEF NamesKept
<1> QED BY <1>1, <1>3, QuietPapers

\* What was said stays said.
LEMMA ToldGrows ==
  ASSUME NEW t \in Terminals, Deploy(t) \/ Terraform(t) \/ OnRecord(t) \/ NodeGroups(t)
  PROVE told \subseteq told'
<1>1. Tells(t) => told \subseteq told'
  BY DEF Tells
<1>2. Tells(t) \/ UNCHANGED told
  <2>1. CASE Deploy(t)
    BY <2>1 DEF Deploy, FindCluster, AdoptCluster, CreateCluster, CreateCpuGroup, CreationFails, Rollback,
       SaveState, PollCluster, PollGroups, SaveReady, WriteKubeconfig, SaveWithKubeconfig, Fails, Retry, FileOnly
  <2>2. CASE Terraform(t)
    BY <2>2 DEF Terraform, Guard, Apply, Applied, Validate, TerraformDestroy, Fails
  <2>3. CASE OnRecord(t)
    BY <2>3 DEF OnRecord, Load, FindTarget, WithoutTarget, DeleteCluster, WaitGone, Forget, WriteBack,
       Fails, FileOnly
  <2>4. CASE NodeGroups(t)
    BY <2>4 DEF NodeGroups, AddGroup, SaveGroup, WaitGroupReady, FindGroup, WithoutTarget, DeleteGroup,
       WaitGroupGone, ForgetGroup, ReadGroups, LookGroups, WriteGroup, Fails, Retry, FileOnly
  <2> QED BY <2>1, <2>2, <2>3, <2>4
<1> QED BY <1>1, <1>2

LEMMA DeployingPapers ==
  ASSUME Inv, Inv', Papers, NEW t \in Terminals, Work(proc[t], cluster, local, kubeconfig, misread), Deploy(t)
  PROVE PapersKept(t)
<1> DEFINE p == proc[t]
<1>0. p \in Processes /\ Local(p, ids, cluster, gpu, misread) /\ ids \in Nat /\ cluster.id \in Nat
      /\ p.id \in Nat /\ p.made \in Nat /\ p.id <= ids /\ p.made <= ids
  BY DEF Inv, TypeOK, Local, Processes
<1>w. Work(p, cluster, local, kubeconfig, misread)
  OBVIOUS
<1>s. Steps(t) /\ told \subseteq told' /\ misread \subseteq misread'
  BY DeployingSteps, ToldGrows DEF Steps, WorldMoves
<1>p. /\ p.pc \in {"find", "groups", "create", "cpu", "rollback", "save", "ready", "readygroups",
                   "resave"} => p.op = "deploy"
      /\ p.pc \in {"credentials", "finalsave"} => p.op \in {"deploy", "up"}
  BY <1>0, PlacesTell DEF Local
<1>q. p.pc = "find" => p.made = 0
  BY <1>0 DEF Local
<1>o. \A u \in Terminals : u # t => proc'[u] = proc[u]
  BY <1>s, OtherCommandsStay
<1>1. CASE FindCluster(t)
  <2>1. UNCHANGED <<local, kubeconfig, tf, crossed, cluster, ids>>
    BY <1>1 DEF FindCluster, ReadOnly, CallOnly, SameRest
  <2>2. CASE Fails(t)
    BY <1>0, <1>s, <2>1, <2>2, FailedPapers DEF SameOrDeleting
  <2>3. CASE Goto(t, "create")
    <3> DEFINE q == [p EXCEPT !.pc = "create"]
    <3>1. Becomes(t, q)
      BY <2>3, Going
    <3>2. q.pc = "create" /\ q.op = p.op /\ q.id = p.id /\ q.made = p.made /\ q.snap = p.snap
      BY <1>0 DEF Processes
    <3>3. Work(q, cluster', local, kubeconfig, misread') /\ NamesKept(t, q)
      <4> HIDE DEF q
      <4> QED BY <1>p, <1>w, <1>1, <2>1, <3>2 DEF Work, Past, NamesKept
    <3> QED BY <1>0, <1>s, <2>1, <3>1, <3>3, QuietPapers DEF SameOrDeleting
  <2>4. CASE cluster.state # "none" /\ proc' = [proc EXCEPT ![t].pc = "groups", ![t].id = cluster.id]
    <3> DEFINE q == [p EXCEPT !.pc = "groups", !.id = cluster.id]
    <3>1. proc'[t] = q
      BY <2>4 DEF Inv, TypeOK
    <3>2. q.pc = "groups" /\ q.op = p.op /\ q.id = cluster.id /\ q.made = p.made
      BY <1>0 DEF Processes
    <3>3. p.op = "deploy" /\ p.made = 0
      BY <1>p, <1>q, <1>1 DEF FindCluster
    <3>4. Work(q, cluster', local', kubeconfig', misread')
      <4> HIDE DEF q
      <4> QED BY <2>1, <3>2, <3>3 DEF Work, Past
    <3>5. Held'
      <4> HIDE DEF q
      <4> QED BY <2>1, <3>1, <3>2, <3>3 DEF Held
    <3> QED BY <2>1, <3>1, <3>4, <3>5 DEF PapersKept, Papers, Below, Credited
  <2> QED BY <1>1, <2>2, <2>3, <2>4 DEF FindCluster
<1>2. CASE AdoptCluster(t)
  <2>1. UNCHANGED <<local, kubeconfig, tf, crossed, cluster, ids>>
    BY <1>2 DEF AdoptCluster, ReadOnly, CallOnly, SameRest
  <2>2. CASE Fails(t)
    BY <1>0, <1>s, <2>1, <2>2, FailedPapers DEF SameOrDeleting
  <2>3. CASE Goto(t, "save")
    <3> DEFINE q == [p EXCEPT !.pc = "save"]
    <3>1. Becomes(t, q)
      BY <2>3, Going
    <3>2. q.pc = "save" /\ q.op = p.op /\ q.id = p.id /\ q.made = p.made /\ q.snap = p.snap
      BY <1>0 DEF Processes
    <3>3. Work(q, cluster', local, kubeconfig, misread') /\ NamesKept(t, q)
      <4> HIDE DEF q
      <4> QED BY <1>p, <1>w, <1>2, <2>1, <3>2 DEF Work, Past, NamesKept, AdoptCluster
    <3> QED BY <1>0, <1>s, <2>1, <3>1, <3>3, QuietPapers DEF SameOrDeleting
  <2>4. CASE Goto(t, "cpu")
    <3> DEFINE q == [p EXCEPT !.pc = "cpu"]
    <3>1. Becomes(t, q)
      BY <2>4, Going
    <3>2. q.pc = "cpu" /\ q.op = p.op /\ q.id = p.id /\ q.made = p.made /\ q.snap = p.snap
      BY <1>0 DEF Processes
    <3>3. Work(q, cluster', local, kubeconfig, misread') /\ NamesKept(t, q)
      <4> HIDE DEF q
      <4> QED BY <1>p, <1>w, <1>2, <2>1, <3>2 DEF Work, Past, NamesKept, AdoptCluster
    <3> QED BY <1>0, <1>s, <2>1, <3>1, <3>3, QuietPapers DEF SameOrDeleting
  <2> QED BY <1>2, <2>2, <2>3, <2>4 DEF AdoptCluster
<1>3. CASE CreateCluster(t)
  <2>1. UNCHANGED <<local, kubeconfig, tf, crossed>> /\ p.pc = "create" /\ p.op = "deploy"
    BY <1>p, <1>3 DEF CreateCluster, CallOnly, SameRest
  <2>2. CASE MakeCluster
    <3>1. ids' = ids + 1 /\ cluster'.id = ids' /\ cluster'.state = "provisioning"
      BY <2>2 DEF MakeCluster
    <3>2. Below' /\ Credited'
      BY <1>0, <2>1, <3>1 DEF Papers, Below, Credited, Inv, TypeOK, Records
    <3>3. CASE Fails(t)
      <4>1. Becomes(t, Idle)
        BY <3>3, Failing DEF Fails
      <4>2. proc'[t] = Idle
        BY <4>1 DEF Becomes, Inv, TypeOK
      <4>3. cluster'.id \in told'
        BY <2>1, <3>3 DEF Fails, Tells
      <4> QED BY <2>1, <3>2, <4>2, <4>3, IdleWorks DEF PapersKept, Papers, Held
    <3>4. CASE proc' = [proc EXCEPT ![t].pc = "cpu", ![t].id = ids', ![t].made = ids', ![t].tries = 0]
      <4>1. proc'[t].pc = "cpu" /\ proc'[t].op = "deploy" /\ proc'[t].id = ids' /\ proc'[t].made = ids'
        BY <1>0, <2>1, <3>4 DEF Processes, Inv, TypeOK
      <4>2. Work(proc'[t], cluster', local', kubeconfig', misread')
        BY <3>1, <4>1 DEF Work, Past
      <4>3. Held'
        BY <3>1, <4>1 DEF Held
      <4> QED BY <2>1, <3>2, <4>2, <4>3 DEF PapersKept, Papers
    <3>5. CASE proc' = [proc EXCEPT ![t].tries = @ + 1, ![t].made = ids']
      <4>1. proc'[t].pc = "create" /\ proc'[t].op = "deploy" /\ proc'[t].made = ids'
        BY <1>0, <2>1, <3>5 DEF Processes, Inv, TypeOK
      <4>2. Work(proc'[t], cluster', local', kubeconfig', misread')
        BY <4>1 DEF Work, Past
      <4>3. Held'
        BY <3>1, <4>1 DEF Held
      <4> QED BY <2>1, <3>2, <4>2, <4>3 DEF PapersKept, Papers
    <3> QED BY <1>3, <2>2, <3>3, <3>4, <3>5 DEF CreateCluster, MakeCluster, Inv, TypeOK
  <2>3. CASE UNCHANGED cloudVars /\ Fails(t)
    BY <1>0, <1>s, <2>1, <2>3, FailedPapers DEF SameOrDeleting
  <2>4. CASE UNCHANGED cloudVars /\ Retry(t)
    <3> DEFINE q == [p EXCEPT !.tries = @ + 1]
    <3>1. Becomes(t, q)
      BY <2>4 DEF Becomes, Retry
    <3>2. q.pc = p.pc /\ q.op = p.op /\ q.id = p.id /\ q.made = p.made /\ q.snap = p.snap
      BY <1>0 DEF Processes
    <3>3. Work(q, cluster', local, kubeconfig, misread') /\ NamesKept(t, q)
      <4> HIDE DEF q
      <4> QED BY <1>p, <1>w, <2>1, <2>4, <3>2 DEF Work, Past, NamesKept
    <3> QED BY <1>0, <1>s, <2>1, <2>4, <3>1, <3>3, QuietPapers DEF SameOrDeleting
  <2> QED BY <1>3, <2>2, <2>3, <2>4 DEF CreateCluster
<1>4. CASE CreateCpuGroup(t)
  <2>1. UNCHANGED <<local, kubeconfig, tf, crossed, cluster, ids>> /\ p.pc = "cpu" /\ p.op = "deploy"
    BY <1>p, <1>4 DEF CreateCpuGroup, CallOnly, SameRest
  <2>2. CASE Fails(t)
    BY <1>0, <1>s, <2>1, <2>2, FailedPapers DEF SameOrDeleting
  <2>3. CASE Goto(t, "save")
    <3> DEFINE q == [p EXCEPT !.pc = "save"]
    <3>1. Becomes(t, q)
      BY <2>3, Going
    <3>2. q.pc = "save" /\ q.op = p.op /\ q.id = p.id /\ q.made = p.made /\ q.snap = p.snap
      BY <1>0 DEF Processes
    <3>3. Work(q, cluster', local, kubeconfig, misread') /\ NamesKept(t, q)
      <4> HIDE DEF q
      <4> QED BY <1>p, <1>w, <2>1, <3>2 DEF Work, Past, NamesKept
    <3> QED BY <1>0, <1>s, <2>1, <3>1, <3>3, QuietPapers DEF SameOrDeleting
  <2>4. CASE Goto(t, "rollback")
    <3> DEFINE q == [p EXCEPT !.pc = "rollback"]
    <3>1. Becomes(t, q)
      BY <2>4, Going
    <3>2. q.pc = "rollback" /\ q.op = p.op /\ q.id = p.id /\ q.made = p.made /\ q.snap = p.snap
      BY <1>0 DEF Processes
    <3>3. Work(q, cluster', local, kubeconfig, misread') /\ NamesKept(t, q)
      <4> HIDE DEF q
      <4> QED BY <1>p, <1>w, <2>1, <3>2 DEF Work, Past, NamesKept
    <3> QED BY <1>0, <1>s, <2>1, <3>1, <3>3, QuietPapers DEF SameOrDeleting
  <2>5. CASE Retry(t)
    <3> DEFINE q == [p EXCEPT !.tries = @ + 1]
    <3>1. Becomes(t, q)
      BY <2>5 DEF Becomes, Retry
    <3>2. q.pc = p.pc /\ q.op = p.op /\ q.id = p.id /\ q.made = p.made /\ q.snap = p.snap
      BY <1>0 DEF Processes
    <3>3. Work(q, cluster', local, kubeconfig, misread') /\ NamesKept(t, q)
      <4> HIDE DEF q
      <4> QED BY <1>p, <1>w, <2>1, <3>2 DEF Work, Past, NamesKept
    <3> QED BY <1>0, <1>s, <2>1, <3>1, <3>3, QuietPapers DEF SameOrDeleting
  <2> QED BY <1>4, <2>2, <2>3, <2>4, <2>5 DEF CreateCpuGroup, CreationFails
<1>5. CASE Rollback(t)
  <2>1. UNCHANGED <<local, kubeconfig, tf, crossed, ids>> /\ SameOrDeleting
        /\ (cluster.state = "none" => cluster'.state = "none") /\ Fails(t)
    BY <1>5 DEF Rollback, TakeDown, Exists, SameOrDeleting, CallOnly, SameRest
  <2> QED BY <1>0, <1>s, <2>1, FailedPapers
<1>6. CASE SaveState(t)
  <2>1. UNCHANGED <<cluster, ids, tf, kubeconfig, told, crossed>> /\ local' = [id |-> p.id, kube |-> FALSE]
        /\ p.op = "deploy" /\ p.pc \in Past
    BY <1>p, <1>6 DEF SaveState, SaveCluster, FileOnly, SameRest, Past
  <2>2. PICK pc \in {"ready", "credentials"} : Goto(t, pc)
    BY <1>6 DEF SaveState
  <2>3. proc'[t].pc \in {"ready", "credentials"} /\ proc'[t].op = p.op /\ proc'[t].id = p.id /\ proc'[t].made = p.made
    BY <1>0, <2>2 DEF Goto, Processes, Inv, TypeOK
  <2>4. p.made \in {0, p.id} /\ (cluster.state # "none" => cluster.id = p.id)
    BY <1>w, <2>1 DEF Work
  <2>5. Work(proc'[t], cluster', local', kubeconfig', misread')
    BY <2>1, <2>3, <2>4 DEF Work, Past
  <2>6. Below' /\ Credited' /\ Held'
    BY <1>0, <2>1, <2>4 DEF Below, Credited, Held, Usable
  <2> QED BY <2>1, <2>5, <2>6 DEF PapersKept, Papers
<1>7. CASE PollCluster(t)
  <2>1. UNCHANGED <<local, kubeconfig, tf, crossed, cluster, ids>>
    BY <1>7 DEF PollCluster, ReadOnly, CallOnly, SameRest
  <2>2. CASE Fails(t)
    BY <1>0, <1>s, <2>1, <2>2, FailedPapers DEF SameOrDeleting
  <2>3. CASE proc' = [proc EXCEPT ![t].pc = "readygroups", ![t].seen = cluster.state]
    <3> DEFINE q == [p EXCEPT !.pc = "readygroups", !.seen = cluster.state]
    <3>1. Becomes(t, q)
      BY <2>3 DEF Becomes
    <3>2. q.pc = "readygroups" /\ q.op = p.op /\ q.id = p.id /\ q.made = p.made /\ q.snap = p.snap
      BY <1>0 DEF Processes
    <3>3. Work(q, cluster', local, kubeconfig, misread') /\ NamesKept(t, q)
      <4> HIDE DEF q
      <4> QED BY <1>p, <1>w, <1>7, <2>1, <3>2 DEF Work, Past, NamesKept, PollCluster
    <3> QED BY <1>0, <1>s, <2>1, <3>1, <3>3, QuietPapers DEF SameOrDeleting
  <2> QED BY <1>7, <2>2, <2>3 DEF PollCluster
<1>8. CASE PollGroups(t)
  <2>1. UNCHANGED <<local, kubeconfig, tf, crossed, cluster, ids>>
    BY <1>8 DEF PollGroups, ReadOnly, CallOnly, SameRest
  <2>2. CASE Fails(t)
    BY <1>0, <1>s, <2>1, <2>2, FailedPapers DEF SameOrDeleting
  <2>3. CASE ~Fails(t)
    <3>0. PICK pc \in {"resave", "ready"} : proc' = [proc EXCEPT ![t].pc = pc, ![t].seen = "none"]
      BY <1>8, <2>3 DEF PollGroups
    <3> DEFINE q == [p EXCEPT !.pc = pc, !.seen = "none"]
    <3>1. Becomes(t, q)
      BY <3>0 DEF Becomes
    <3>2. q.pc = pc /\ q.op = p.op /\ q.id = p.id /\ q.made = p.made /\ q.snap = p.snap
      BY <1>0 DEF Processes
    <3>3. Work(q, cluster', local, kubeconfig, misread') /\ NamesKept(t, q)
      <4> HIDE DEF q
      <4> QED BY <1>p, <1>w, <1>8, <2>1, <3>0, <3>2 DEF Work, Past, NamesKept, PollGroups
    <3> QED BY <1>0, <1>s, <2>1, <3>1, <3>3, QuietPapers DEF SameOrDeleting
  <2> QED BY <2>2, <2>3
<1>9. CASE SaveReady(t)
  <2>1. UNCHANGED <<cluster, ids, tf, kubeconfig, told, crossed>> /\ local' = [id |-> p.id, kube |-> FALSE]
        /\ p.op = "deploy" /\ p.pc \in Past
    BY <1>p, <1>9 DEF SaveReady, SaveCluster, FileOnly, SameRest, Past
  <2>2. PICK pc \in {"credentials"} : Goto(t, pc)
    BY <1>9 DEF SaveReady
  <2>3. proc'[t].pc \in {"credentials"} /\ proc'[t].op = p.op /\ proc'[t].id = p.id /\ proc'[t].made = p.made
    BY <1>0, <2>2 DEF Goto, Processes, Inv, TypeOK
  <2>4. p.made \in {0, p.id} /\ (cluster.state # "none" => cluster.id = p.id)
    BY <1>w, <2>1 DEF Work
  <2>5. Work(proc'[t], cluster', local', kubeconfig', misread')
    BY <2>1, <2>3, <2>4 DEF Work, Past
  <2>6. Below' /\ Credited' /\ Held'
    BY <1>0, <2>1, <2>4 DEF Below, Credited, Held, Usable
  <2> QED BY <2>1, <2>5, <2>6 DEF PapersKept, Papers
<1>10. CASE WriteKubeconfig(t)
  <2>1. UNCHANGED <<local, tf, crossed, cluster, ids>> /\ p.pc = "credentials"
    BY <1>10 DEF WriteKubeconfig, SameRest
  <2>2. CASE Fails(t) /\ UNCHANGED kubeconfig
    BY <1>0, <1>s, <2>1, <2>2, FailedPapers DEF SameOrDeleting
  <2>3. CASE Exists(p.id) /\ kubeconfig' = p.id /\ Goto(t, "finalsave") /\ UNCHANGED told
    <3>1. proc'[t].pc = "finalsave" /\ proc'[t].op = p.op /\ proc'[t].id = p.id /\ proc'[t].made = p.made
      BY <1>0, <2>3 DEF Goto, Processes, Inv, TypeOK
    <3>2. Work(proc'[t], cluster', local', kubeconfig', misread')
      BY <1>p, <1>w, <2>1, <2>3, <3>1 DEF Work, Past
    <3>3. Below' /\ Credited'
      BY <1>0, <2>1, <2>3 DEF Papers, Below, Credited, Exists, Inv, TypeOK, Records
    <3>4. Held'
      BY <1>o, <1>s, <2>1, <2>3, <3>1 DEF Papers, Held, Usable
    <3> QED BY <2>1, <3>2, <3>3, <3>4 DEF PapersKept, Papers
  <2> QED BY <1>10, <2>2, <2>3 DEF WriteKubeconfig
<1>11. CASE SaveWithKubeconfig(t)
  <2>1. UNCHANGED <<cluster, ids, tf, kubeconfig, told, crossed>> /\ local' = [id |-> p.id, kube |-> TRUE]
        /\ p.pc = "finalsave"
    BY <1>11 DEF SaveWithKubeconfig, FileOnly, SameRest
  <2>2. p.made \in {0, p.id} /\ (cluster.state # "none" => cluster.id = p.id) /\ kubeconfig = p.id
    BY <1>w, <2>1 DEF Work, Past
  <2>3. Work(proc'[t], cluster', local', kubeconfig', misread')
    <3>1. CASE p.op = "up" /\ Goto(t, "validate")
      <4>1. proc'[t].pc = "validate" /\ proc'[t].op = p.op /\ proc'[t].id = p.id /\ proc'[t].made = p.made
        BY <1>0, <3>1 DEF Goto, Processes, Inv, TypeOK
      <4> QED BY <2>1, <2>2, <3>1, <4>1 DEF Work, Past
    <3>2. CASE Exits(t, "zero")
      <4>1. proc'[t] = Ended(p, "zero") /\ p.op \in {"deploy", "up"}
        BY <1>p, <2>1, <3>2 DEF Exits, Inv, TypeOK
      <4>2. proc'[t] = Idle
        BY <4>1 DEF Ended
      <4> QED BY <4>2, IdleWorks
    <3> QED BY <1>11, <3>1, <3>2 DEF SaveWithKubeconfig
  <2>4. Below' /\ Credited' /\ Held'
    BY <1>0, <2>1, <2>2 DEF Below, Credited, Held, Usable
  <2> QED BY <2>1, <2>3, <2>4 DEF PapersKept, Papers
<1> QED BY <1>1, <1>2, <1>3, <1>4, <1>5, <1>6, <1>7, <1>8, <1>9, <1>10, <1>11 DEF Deploy

LEMMA TerraformingPapers ==
  ASSUME Inv, Inv', Papers, NEW t \in Terminals, Work(proc[t], cluster, local, kubeconfig, misread), Terraform(t)
  PROVE PapersKept(t)
<1> DEFINE p == proc[t]
<1>0. p \in Processes /\ Local(p, ids, cluster, gpu, misread) /\ ids \in Nat /\ cluster.id \in Nat
      /\ p.id \in Nat /\ p.made \in Nat /\ p.id <= ids /\ p.made <= ids
  BY DEF Inv, TypeOK, Local, Processes
<1>w. Work(p, cluster, local, kubeconfig, misread)
  OBVIOUS
<1>s. Steps(t) /\ told \subseteq told' /\ misread \subseteq misread'
  BY TerraformingSteps, ToldGrows DEF Steps, WorldMoves
<1>p. /\ p.pc \in {"guard", "apply", "applying", "validate"} => p.op = "up"
      /\ p.pc = "tfdestroy" => p.op = "down"
  BY <1>0, PlacesTell DEF Local
<1>o. \A u \in Terminals : u # t => proc'[u] = proc[u]
  BY <1>s, OtherCommandsStay
<1>1. CASE Guard(t)
  <2>1. UNCHANGED <<local, kubeconfig, tf, crossed, cluster, ids>>
    BY <1>1 DEF Guard, ReadOnly, CallOnly, SameRest
  <2>2. CASE Fails(t)
    BY <1>0, <1>s, <2>1, <2>2, FailedPapers DEF SameOrDeleting
  <2>3. CASE Goto(t, "apply")
    <3> DEFINE q == [p EXCEPT !.pc = "apply"]
    <3>1. Becomes(t, q)
      BY <2>3, Going
    <3>2. q.pc = "apply" /\ q.op = p.op /\ q.id = p.id /\ q.made = p.made /\ q.snap = p.snap
      BY <1>0 DEF Processes
    <3>3. Work(q, cluster', local, kubeconfig, misread') /\ NamesKept(t, q)
      <4> HIDE DEF q
      <4> QED BY <1>p, <1>w, <1>1, <2>1, <3>2 DEF Work, Past, NamesKept, Guard
    <3> QED BY <1>0, <1>s, <2>1, <3>1, <3>3, QuietPapers DEF SameOrDeleting
  <2> QED BY <1>1, <2>2, <2>3 DEF Guard
<1>2. CASE Apply(t)
  <2>1. UNCHANGED <<local, kubeconfig, tf, crossed>> /\ p.pc = "apply" /\ p.op = "up" /\ p.made = 0
    BY <1>p, <1>w, <1>2 DEF Apply, Work
  <2>2. CASE Exists(tf) /\ UNCHANGED cloudVars /\ proc' = [proc EXCEPT ![t].pc = "credentials", ![t].id = tf]
    <3>1. proc'[t].pc = "credentials" /\ proc'[t].op = "up" /\ proc'[t].id = tf /\ proc'[t].made = 0
      BY <1>0, <2>1, <2>2 DEF Processes, Inv, TypeOK
    <3>2. Work(proc'[t], cluster', local', kubeconfig', misread')
      BY <2>2, <3>1 DEF Work, Past, Exists
    <3>3. Below' /\ Credited' /\ Held'
      BY <2>1, <2>2 DEF Papers, Below, Credited, Held, Exists
    <3> QED BY <2>1, <3>2, <3>3 DEF PapersKept, Papers
  <2>3. CASE MakeCluster /\ proc' = [proc EXCEPT ![t].pc = "applying", ![t].made = ids']
    <3>1. ids' = ids + 1 /\ cluster'.id = ids' /\ cluster'.state = "provisioning"
      BY <2>3 DEF MakeCluster
    <3>2. Below' /\ Credited'
      BY <1>0, <2>1, <3>1 DEF Papers, Below, Credited, Inv, TypeOK, Records
    <3>3. proc'[t].pc = "applying" /\ proc'[t].op = "up" /\ proc'[t].made = ids'
      BY <1>0, <2>1, <2>3 DEF Processes, Inv, TypeOK
    <3>4. Work(proc'[t], cluster', local', kubeconfig', misread')
      BY <3>3 DEF Work, Past
    <3>5. Held'
      BY <3>1, <3>3 DEF Held
    <3> QED BY <2>1, <3>2, <3>4, <3>5 DEF PapersKept, Papers
  <2>4. CASE UNCHANGED cloudVars /\ Fails(t)
    BY <1>0, <1>s, <2>1, <2>4, FailedPapers DEF SameOrDeleting
  <2> QED BY <1>2, <2>2, <2>3, <2>4 DEF Apply
<1>3. CASE Applied(t)
  <2>1. UNCHANGED <<local, kubeconfig, crossed, cluster, ids>> /\ p.pc = "applying" /\ p.op = "up"
    BY <1>p, <1>3 DEF Applied
  <2>2. Below' /\ Credited'
    BY <2>1 DEF Papers, Below, Credited
  <2>3. CASE Fails(t)
    <3>1. Becomes(t, Idle)
      BY <2>3, Failing DEF Fails
    <3>2. proc'[t] = Idle
      BY <3>1 DEF Becomes, Inv, TypeOK
    <3>3. cluster'.id \in told'
      BY <2>1, <2>3 DEF Fails, Tells
    <3> QED BY <2>1, <2>2, <3>2, <3>3, IdleWorks DEF PapersKept, Papers, Held
  <2>4. CASE Exists(p.made) /\ tf' = p.made /\ proc' = [proc EXCEPT ![t].pc = "credentials", ![t].id = p.made]
    <3>1. proc'[t].pc = "credentials" /\ proc'[t].op = "up" /\ proc'[t].id = p.made /\ proc'[t].made = p.made
      BY <1>0, <2>1, <2>4 DEF Processes, Inv, TypeOK
    <3>2. Work(proc'[t], cluster', local', kubeconfig', misread')
      BY <2>1, <2>4, <3>1 DEF Work, Past, Exists
    <3>3. Held'
      BY <2>1, <2>4 DEF Held, Exists
    <3> QED BY <2>1, <2>2, <3>2, <3>3 DEF PapersKept, Papers
  <2> QED BY <1>3, <2>3, <2>4 DEF Applied
<1>4. CASE Validate(t)
  <2>1. UNCHANGED <<local, kubeconfig, tf, crossed, cluster, ids>> /\ p.pc = "validate" /\ p.op = "up"
    BY <1>p, <1>4 DEF Validate, SameRest
  <2>2. CASE Fails(t)
    BY <1>0, <1>s, <2>1, <2>2, FailedPapers DEF SameOrDeleting
  <2>3. CASE Exists(p.id) /\ Exits(t, "zero")
    <3>1. proc'[t] = Idle
      BY <2>1, <2>3 DEF Exits, Ended, Inv, TypeOK
    <3>2. local.id = p.id
      BY <1>w, <2>1 DEF Work
    <3>3. Below' /\ Credited' /\ Held'
      BY <2>1, <2>3, <3>2 DEF Papers, Below, Credited, Held, Exists
    <3> QED BY <2>1, <3>1, <3>3, IdleWorks DEF PapersKept, Papers
  <2> QED BY <1>4, <2>2, <2>3 DEF Validate
<1>5. CASE TerraformDestroy(t)
  <2>1. UNCHANGED <<local, kubeconfig, told, crossed, ids>> /\ p.op = "down"
    BY <1>p, <1>5 DEF TerraformDestroy, TakeDown
  <2>2. CASE Exits(t, "zero") /\ IF Exists(tf) THEN cluster' = NoCluster ELSE UNCHANGED cluster
    <3>1. proc'[t] = Idle
      BY <2>1, <2>2 DEF Exits, Ended, Inv, TypeOK
    <3>2. Below' /\ Credited'
      BY <2>1, <2>2 DEF Papers, Below, Credited, NoCluster
    <3>3. Held'
      <4>1. CASE Exists(tf)
        BY <2>2, <4>1 DEF Held, Usable, NoCluster
      <4>2. CASE ~Exists(tf)
        BY <1>o, <1>s, <2>1, <2>2, <4>2 DEF Papers, Held, Usable, Exists
      <4> QED BY <4>1, <4>2
    <3> QED BY <2>1, <3>1, <3>2, <3>3, IdleWorks DEF PapersKept, Papers
  <2>3. CASE Exits(t, "one") /\ UNCHANGED tf /\ (TakeDown(tf) \/ UNCHANGED cloudVars)
    <3>1. SameOrDeleting /\ (cluster.state = "none" => cluster'.state = "none")
      BY <2>3 DEF SameOrDeleting, TakeDown, Exists
    <3> QED BY <1>0, <1>s, <2>1, <2>3, <3>1, EndedPapers
  <2> QED BY <1>5, <2>2, <2>3 DEF TerraformDestroy
<1> QED BY <1>1, <1>2, <1>3, <1>4, <1>5 DEF Terraform

LEMMA RecordingPapers ==
  ASSUME Inv, Inv', Papers, NEW t \in Terminals, Work(proc[t], cluster, local, kubeconfig, misread), OnRecord(t)
  PROVE PapersKept(t)
<1> DEFINE p == proc[t]
<1>0. p \in Processes /\ Local(p, ids, cluster, gpu, misread) /\ ids \in Nat /\ cluster.id \in Nat
      /\ p.id \in Nat /\ p.made \in Nat /\ p.id <= ids /\ p.made <= ids
  BY DEF Inv, TypeOK, Local, Processes
<1>w. Work(p, cluster, local, kubeconfig, misread)
  OBVIOUS
<1>s. Steps(t) /\ told \subseteq told' /\ misread \subseteq misread'
  BY RecordingSteps, ToldGrows DEF Steps, WorldMoves
<1>p. /\ p.pc \in {"load", "target"} =>
            p.op \in {"destroy", "status", "list", "add", "remove", "groups"}
      /\ p.pc \in {"delete", "gone", "forget"} => p.op = "destroy"
      /\ p.pc = "writeback" => p.op \in {"status", "list"}
  BY <1>0, PlacesTell DEF Local
<1>o. \A u \in Terminals : u # t => proc'[u] = proc[u]
  BY <1>s, OtherCommandsStay
<1>1. CASE Load(t)
  <2>1. UNCHANGED <<local, kubeconfig, tf, crossed, cluster, ids>> /\ p.pc = "load"
    BY <1>1 DEF Load, FileOnly, SameRest
  <2> DEFINE q == [p EXCEPT !.pc = "target", !.snap = local,
                            !.gsnap = IF p.op = "remove" THEN groupFile ELSE None]
  <2>2. Becomes(t, q)
    BY <1>1 DEF Becomes, Load
  <2>3. q.pc = "target" /\ q.op = p.op /\ q.snap = local
    BY <1>0 DEF Processes
  <2>4. Work(q, cluster', local, kubeconfig, misread') /\ NamesKept(t, q)
    <3> HIDE DEF q
    <3> QED BY <1>p, <2>1, <2>3 DEF Work, Past, NamesKept
  <2> QED BY <1>0, <1>s, <2>1, <2>2, <2>4, QuietPapers DEF SameOrDeleting
<1>2. CASE FindTarget(t)
  <2>1. UNCHANGED <<local, kubeconfig, tf, crossed, cluster, ids>> /\ p.pc = "target"
        /\ p.op \in {"destroy", "status", "list", "add", "remove", "groups"}
    BY <1>p, <1>2 DEF FindTarget, ReadOnly, CallOnly, SameRest
  <2>2. CASE Fails(t)
    BY <1>0, <1>s, <2>1, <2>2, FailedPapers DEF SameOrDeleting
  <2>3. CASE Exits(t, "zero") /\ UNCHANGED told
    BY <1>0, <1>s, <2>1, <2>3, EndedPapers DEF SameOrDeleting
  <2>4. CASE Found(t) /\ WithTarget(t) /\ ~Exits(t, "zero")
    <3> DEFINE pc == AfterTarget[p.op]
               q == [p EXCEPT !.pc = pc, !.id = cluster.id]
    <3>1. Becomes(t, q)
      BY <2>4 DEF WithTarget, Becomes
    <3>2. q.pc = pc /\ q.op = p.op /\ q.id = cluster.id /\ q.snap = p.snap
      BY <1>0 DEF Processes
    <3>3. /\ pc \notin {"gone", "forget", "guard", "apply"} \cup Past
          /\ pc = "delete" => p.op = "destroy"
      BY <2>1 DEF AfterTarget, Past
    <3>4. p.op = "destroy" => p.snap.id \in {0, cluster.id}
      BY <2>4 DEF Found
    <3>5. Work(q, cluster', local, kubeconfig, misread') /\ NamesKept(t, q)
      <4> HIDE DEF q, pc
      <4> QED BY <1>w, <2>1, <3>2, <3>3, <3>4 DEF Work, Past, NamesKept
    <3> QED BY <1>0, <1>s, <2>1, <3>1, <3>5, QuietPapers DEF SameOrDeleting
  <2>5. CASE /\ p.op = "destroy" /\ p.snap.id # None /\ (~Found(t) \/ p.snap.id \in misread')
             /\ proc' = [proc EXCEPT ![t].pc = "forget", ![t].id = p.snap.id]
    <3>0. Gone(cluster, p.snap.id) \/ p.snap.id \in misread'
      BY <2>5 DEF Found, Gone
    <3> DEFINE q == [p EXCEPT !.pc = "forget", !.id = p.snap.id]
    <3>1. Becomes(t, q)
      BY <2>5 DEF Becomes
    <3>2. q.pc = "forget" /\ q.op = p.op /\ q.snap = p.snap
      BY <1>0 DEF Processes
    <3>3. Work(q, cluster', local, kubeconfig, misread') /\ NamesKept(t, q)
      <4> HIDE DEF q
      <4> QED BY <1>w, <2>1, <2>5, <3>0, <3>2 DEF Work, Past, NamesKept
    <3> QED BY <1>0, <1>s, <2>1, <3>1, <3>3, QuietPapers DEF SameOrDeleting
  <2>6. CASE Goto(t, "forgetgroup")
    <3> DEFINE q == [p EXCEPT !.pc = "forgetgroup"]
    <3>1. Becomes(t, q)
      BY <2>6, Going
    <3>2. q.pc = "forgetgroup"
      BY <1>0 DEF Processes
    <3>3. Work(q, cluster', local, kubeconfig, misread') /\ NamesKept(t, q)
      <4> HIDE DEF q
      <4> QED BY <2>1, <3>2 DEF Work, Past, NamesKept
    <3> QED BY <1>0, <1>s, <2>1, <3>1, <3>3, QuietPapers DEF SameOrDeleting
  <2>7. CASE /\ ~Found(t) \/ Exists(p.snap.id)
             /\ WithoutTarget(t)
             /\ GivesUp(p.snap.id, Exists(p.snap.id) /\ p.op = "destroy")
    <3>1. p.op = "destroy" => (~Found(t) \/ p.snap.id \in misread')
      BY <2>7 DEF GivesUp
    <3> QED BY <2>2, <2>3, <2>5, <2>6, <2>7, <3>1 DEF WithoutTarget
  <2> QED BY <1>2, <2>2, <2>3, <2>4, <2>7 DEF FindTarget
<1>3. CASE DeleteCluster(t)
  <2>1. UNCHANGED <<local, kubeconfig, tf, crossed, ids>> /\ SameOrDeleting /\ p.pc = "delete"
        /\ (cluster.state = "none" => cluster'.state = "none")
    BY <1>3 DEF DeleteCluster, TakeDown, Exists, SameOrDeleting, CallOnly, SameRest
  <2>2. CASE Fails(t)
    BY <1>0, <1>s, <2>1, <2>2, FailedPapers
  <2>3. CASE Goto(t, "gone")
    <3> DEFINE q == [p EXCEPT !.pc = "gone"]
    <3>1. Becomes(t, q)
      BY <2>3, Going
    <3>2. q.pc = "gone" /\ q.op = p.op /\ q.id = p.id /\ q.made = p.made /\ q.snap = p.snap
      BY <1>0 DEF Processes
    <3>3. Work(q, cluster', local, kubeconfig, misread') /\ NamesKept(t, q)
      <4> HIDE DEF q
      <4> QED BY <1>p, <1>w, <2>1, <3>2 DEF Work, Past, NamesKept
    <3> QED BY <1>0, <1>s, <2>1, <3>1, <3>3, QuietPapers
  <2> QED BY <1>3, <2>2, <2>3 DEF DeleteCluster
<1>4. CASE WaitGone(t)
  <2>1. UNCHANGED <<local, kubeconfig, tf, crossed, cluster, ids>>
    BY <1>4 DEF WaitGone, ReadOnly, CallOnly, SameRest
  <2>2. CASE Fails(t)
    BY <1>0, <1>s, <2>1, <2>2, FailedPapers DEF SameOrDeleting
  <2>3. CASE Goto(t, "forget") /\ GivesUp(p.id, Exists(p.id))
    <3>0. p.pc = "gone" /\ p.op = "destroy"
      BY <1>p, <1>4 DEF WaitGone
    <3>g. Gone(cluster, p.snap.id) \/ p.snap.id \in misread'
      <4>1. p.snap.id \in {0, p.id}
        BY <1>w, <3>0 DEF Work
      <4> QED BY <2>3, <4>1 DEF GivesUp, Exists, Gone, Inv, Bounded
    <3> DEFINE q == [p EXCEPT !.pc = "forget"]
    <3>1. Becomes(t, q)
      BY <2>3, Going
    <3>2. q.pc = "forget" /\ q.op = p.op /\ q.snap = p.snap
      BY <1>0 DEF Processes
    <3>3. Work(q, cluster', local, kubeconfig, misread') /\ NamesKept(t, q)
      <4> HIDE DEF q
      <4> QED BY <1>w, <2>1, <3>0, <3>g, <3>2 DEF Work, Past, NamesKept
    <3> QED BY <1>0, <1>s, <2>1, <3>1, <3>3, QuietPapers DEF SameOrDeleting
  <2> QED BY <1>4, <2>2, <2>3 DEF WaitGone
<1>5. CASE Forget(t)
  <2>1. local' = NoRecord /\ UNCHANGED <<tf, told, crossed, cluster, ids>> /\ p.pc = "forget" /\ p.op = "destroy"
    BY <1>p, <1>5 DEF Forget, FileOnly, SameRest
  <2>2. Gone(cluster, local.id) \/ local.id \in misread
    BY <1>w, <2>1 DEF Work
  <2>3. proc'[t].pc \in {"idle", "done"} /\ proc'[t].op \in {"destroy", "none"}
    BY <1>5, <2>1 DEF Forget, Exits, Ended, Idle, Inv, TypeOK
  <2>4. Work(proc'[t], cluster', local', kubeconfig', misread')
    BY <2>3 DEF Work, Past
  <2>5. Below' /\ Credited'
    BY <1>0, <2>1 DEF Below, Credited, NoRecord
  <2>6. Held'
    BY <1>o, <1>s, <2>1, <2>2 DEF Papers, Held, Usable, Gone
  <2> QED BY <2>1, <2>4, <2>5, <2>6 DEF PapersKept, Papers
<1>6. CASE WriteBack(t)
  <2>1. UNCHANGED <<kubeconfig, tf, told, crossed, cluster, ids>> /\ p.pc = "writeback"
        /\ p.op \in {"status", "list"}
    BY <1>p, <1>6 DEF WriteBack, FileOnly, SameRest
  <2>2. p.snap = local
    BY <1>w, <2>1 DEF Work
  <2>3. UNCHANGED local /\ (Exits(t, "zero") \/ Exits(t, "one"))
    BY <1>6, <2>2 DEF WriteBack
  <2> QED BY <1>0, <1>s, <2>1, <2>3, EndedPapers DEF SameOrDeleting
<1> QED BY <1>1, <1>2, <1>3, <1>4, <1>5, <1>6 DEF OnRecord

LEMMA GroupingPapers ==
  ASSUME Inv, Inv', Papers, NEW t \in Terminals, NodeGroups(t)
  PROVE PapersKept(t)
<1> DEFINE p == proc[t]
<1>0. p \in Processes /\ Local(p, ids, cluster, gpu, misread) /\ ids \in Nat
  BY DEF Inv, TypeOK, Local
<1>s. Steps(t) /\ told \subseteq told' /\ misread \subseteq misread'
  BY GroupingSteps, ToldGrows DEF Steps, WorldMoves
<1>1. UNCHANGED <<local, kubeconfig, tf, crossed, cluster>> /\ ids <= ids'
  BY <1>0 DEF NodeGroups, AddGroup, SaveGroup, WaitGroupReady, FindGroup, DeleteGroup, WaitGroupGone,
     ForgetGroup, ReadGroups, LookGroups, WriteGroup, ReadOnly, CallOnly, FileOnly, SameRest
<1>2. p.pc \in {"addgroup", "savegroup", "groupready", "findgroup", "deletegroup", "groupgone",
               "forgetgroup", "readgroups", "lookgroups", "writegroup"}
  BY DEF NodeGroups, AddGroup, SaveGroup, WaitGroupReady, FindGroup, DeleteGroup, WaitGroupGone,
     ForgetGroup, ReadGroups, LookGroups, WriteGroup
<1>3. p.op \in {"add", "remove", "groups"}
  BY <1>0, <1>2, PlacesTell DEF Local
<1>4. PICK q : Becomes(t, q) /\ Local(q, ids', cluster', gpu', misread')
  BY <1>s DEF Steps
<1>5. proc'[t] = q
  BY <1>4 DEF Becomes, Inv, TypeOK
<1>6. q.op \in {p.op, "none"} /\ q \in Processes
  BY <1>4, <1>5, GroupingBooks DEF Books, Local
<1>7. q.op \in {"add", "remove", "groups", "none"}
  BY <1>3, <1>6
<1>8. Work(q, cluster', local, kubeconfig, misread')
  <2>1. q.pc \notin {"delete", "gone", "forget", "guard", "apply"} \cup Past
    BY <1>4, <1>6, <1>7, PlacesTell DEF Local, Past
  <2> QED BY <1>7, <2>1 DEF Work, Past
<1> QED BY <1>1, <1>3, <1>4, <1>8, <1>s, QuietPapers DEF SameOrDeleting, NamesKept

LEMMA StoppingPapers ==
  ASSUME Inv, Inv', Papers, NEW t \in Terminals, End(t) \/ Kill(t)
  PROVE PapersKept(t)
<1>1. Becomes(t, Idle) /\ UNCHANGED <<local, kubeconfig, tf, crossed, cluster, ids>>
  BY DEF End, Kill, Becomes
<1>2. told \subseteq told'
  BY DEF End, Kill, Tells
<1>3. Local(proc[t], ids, cluster, gpu, misread) /\ proc[t] \in Processes /\ ids \in Nat
  BY DEF Inv, TypeOK, Local
<1>4. NamesKept(t, Idle)
  <2>1. CASE End(t)
    BY <1>3, <2>1, PlacesTell DEF End, Local, NamesKept
  <2>2. CASE Kill(t)
    BY <2>2 DEF Kill, Tells, NamesKept
  <2> QED BY <2>1, <2>2
<1>5. Steps(t)
  BY StoppingSteps
<1> QED BY <1>1, <1>2, <1>3, <1>4, <1>5, IdleWorks, QuietPapers DEF SameOrDeleting

\* A command that does not write cluster.json leaves the others' view of it.
Aside ==
    /\ UNCHANGED <<local, kubeconfig>>
    /\ cluster'.state # "none" => cluster.state # "none" /\ cluster'.id = cluster.id

LEMMA AsideKeepsWork ==
  ASSUME Aside, misread \subseteq misread', NEW p, Work(p, cluster, local, kubeconfig, misread)
  PROVE Work(p, cluster', local', kubeconfig', misread')
BY DEF Aside, Work, Gone

LEMMA IdlersNeedNothing ==
  ASSUME NEW p \in Processes, p.pc \in Places[p.op], ~Works(p), NEW c, NEW l, NEW k, NEW m
  PROVE Work(p, c, l, k, m)
<1>1. /\ p.pc \in {"find", "groups", "create", "cpu", "rollback", "save", "ready", "readygroups",
                   "resave"} => p.op = "deploy"
      /\ p.pc \in {"guard", "apply", "applying", "validate"} => p.op = "up"
      /\ p.pc \in {"credentials", "finalsave"} => p.op \in {"deploy", "up"}
      /\ p.pc \in {"delete", "gone", "forget"} => p.op = "destroy"
  BY PlacesTell
<1>2. CASE p.op \notin Writers
  BY <1>1, <1>2 DEF Work, Past, Writers
<1>3. CASE p.pc \in {"idle", "done"}
  BY <1>3 DEF Work, Past
<1> QED BY <1>2, <1>3 DEF Works

LEMMA NonWritersAreAside ==
  ASSUME Inv, NEW t \in Terminals, proc[t].op \notin Writers,
         End(t) \/ Kill(t) \/ Deploy(t) \/ Terraform(t) \/ OnRecord(t) \/ NodeGroups(t)
  PROVE Aside
<1> DEFINE p == proc[t]
<1>0. p \in Processes /\ p.pc \in Places[p.op]
  BY DEF Inv, TypeOK, Local
<1>1. /\ p.pc \notin {"find", "groups", "create", "cpu", "rollback", "save", "ready", "readygroups", "resave"}
      /\ p.pc \notin {"guard", "apply", "applying", "validate", "credentials", "finalsave"}
      /\ p.pc \notin {"delete", "gone", "forget", "writeback"}
  BY <1>0, PlacesTell DEF Writers
<1>2. CASE End(t) \/ Kill(t)
  BY <1>2 DEF End, Kill, Aside
<1>3. CASE Deploy(t)
  BY <1>1, <1>3 DEF Deploy, FindCluster, AdoptCluster, CreateCluster, CreateCpuGroup, Rollback,
     SaveState, PollCluster, PollGroups, SaveReady, WriteKubeconfig, SaveWithKubeconfig
<1>4. CASE Terraform(t)
  <2>1. TerraformDestroy(t)
    BY <1>1, <1>4 DEF Terraform, Guard, Apply, Applied, Validate
  <2>2. UNCHANGED <<local, kubeconfig>>
    BY <2>1 DEF TerraformDestroy
  <2>3. cluster' = NoCluster \/ UNCHANGED cluster \/ (TakeDown(tf) /\ cluster.state \in States)
    BY <2>1 DEF TerraformDestroy, Inv, TypeOK
  <2> QED BY <2>2, <2>3 DEF Aside, TakeDown, Exists, NoCluster, Inv, TypeOK
<1>5. CASE OnRecord(t)
  <2>1. Load(t) \/ FindTarget(t)
    BY <1>1, <1>5 DEF OnRecord, DeleteCluster, WaitGone, Forget, WriteBack
  <2> QED BY <2>1 DEF Load, FindTarget, Aside, ReadOnly, CallOnly, FileOnly
<1>6. CASE NodeGroups(t)
  BY <1>6 DEF NodeGroups, AddGroup, SaveGroup, WaitGroupReady, FindGroup, DeleteGroup, WaitGroupGone,
     ForgetGroup, ReadGroups, LookGroups, WriteGroup, ReadOnly, CallOnly, FileOnly, Aside
<1> QED BY <1>2, <1>3, <1>4, <1>5, <1>6

LEMMA StepsKeepLone ==
  ASSUME Inv, Inv', LoneInv, NEW t \in Terminals,
         End(t) \/ Kill(t) \/ Deploy(t) \/ Terraform(t) \/ OnRecord(t) \/ NodeGroups(t)
  PROVE LoneInv'
<1>b. Books(t) /\ Steps(t)
  BY StepsAreBooked
<1> SUFFICES ASSUME "record" \notin crossed
             PROVE LoneInv'
  BY <1>b DEF Books, LoneInv
<1>1. /\ \A u, w \in Terminals : u # w => ~(Works(proc[u]) /\ Works(proc[w]))
      /\ \A u \in Terminals : Work(proc[u], cluster, local, kubeconfig, misread)
      /\ Papers
  BY DEF LoneInv
<1>2. \A u \in Terminals : u # t => proc'[u] = proc[u]
  BY <1>b, OtherCommandsStay
<1>3. PapersKept(t)
  BY <1>1, StoppingPapers, DeployingPapers, TerraformingPapers, RecordingPapers, GroupingPapers
<1>l. \A u \in Terminals : proc[u] \in Processes /\ proc[u].pc \in Places[proc[u].op]
  BY DEF Inv, Local
<1>4. Works(proc'[t]) => Works(proc[t])
  <2>1. CASE End(t)
    BY <2>1 DEF End, Idle, Works, Inv, TypeOK
  <2>2. CASE ~End(t)
    <3>1. proc[t].pc # "done"
      <4>1. CASE Kill(t)
        BY <4>1 DEF Kill, Busy
      <4>2. CASE Deploy(t)
        BY <4>2 DEF Deploy, FindCluster, AdoptCluster, CreateCluster, CreateCpuGroup, Rollback,
           SaveState, PollCluster, PollGroups, SaveReady, WriteKubeconfig, SaveWithKubeconfig
      <4>3. CASE Terraform(t)
        BY <4>3 DEF Terraform, Guard, Apply, Applied, Validate, TerraformDestroy
      <4>4. CASE OnRecord(t)
        BY <4>4 DEF OnRecord, Load, FindTarget, DeleteCluster, WaitGone, Forget, WriteBack
      <4>5. CASE NodeGroups(t)
        BY <4>5 DEF NodeGroups, AddGroup, SaveGroup, WaitGroupReady, FindGroup, DeleteGroup,
           WaitGroupGone, ForgetGroup, ReadGroups, LookGroups, WriteGroup
      <4> QED BY <2>2, <4>1, <4>2, <4>3, <4>4, <4>5
    <3>2. proc[t].pc = "idle" => proc[t].op = "none"
      BY <1>l, PlacesTell
    <3>3. proc'[t].op \in {proc[t].op, "none"} /\ "none" \notin Writers
      BY <1>b DEF Books, Writers
    <3> QED BY <3>1, <3>2, <3>3 DEF Works
  <2> QED BY <2>1, <2>2
<1>5. \A u, w \in Terminals : u # w => ~(Works(proc'[u]) /\ Works(proc'[w]))
  BY <1>1, <1>2, <1>4
<1>6. ASSUME NEW u \in Terminals
      PROVE Work(proc'[u], cluster', local', kubeconfig', misread')
  <2>1. CASE u = t
    BY <1>3, <2>1 DEF PapersKept
  <2>2. CASE u # t /\ Works(proc[t])
    <3>1. ~Works(proc[u]) /\ proc'[u] = proc[u]
      BY <1>1, <1>2, <2>2
    <3> QED BY <1>l, <3>1, IdlersNeedNothing
  <2>3. CASE u # t /\ ~Works(proc[t])
    <3>1. Aside
      <4>1. CASE proc[t].op \notin Writers
        BY <4>1, NonWritersAreAside
      <4>2. CASE End(t)
        BY <4>2 DEF End, Aside
      <4>3. CASE proc[t].op \in Writers /\ ~End(t)
        <5>1. proc[t].pc \in {"idle", "done"}
          BY <2>3, <4>3 DEF Works
        <5>2. proc[t].pc # "idle"
          BY <1>l, <4>3, PlacesTell DEF Writers
        <5>3. proc[t].pc = "done"
          BY <5>1, <5>2
        <5> QED BY <4>3, <5>3 DEF Kill, Busy, Deploy, FindCluster, AdoptCluster, CreateCluster,
              CreateCpuGroup, Rollback, SaveState, PollCluster, PollGroups, SaveReady, WriteKubeconfig,
              SaveWithKubeconfig, Terraform, Guard, Apply, Applied, Validate, TerraformDestroy, OnRecord,
              Load, FindTarget, DeleteCluster, WaitGone, Forget, WriteBack, NodeGroups, AddGroup,
              SaveGroup, WaitGroupReady, FindGroup, DeleteGroup, WaitGroupGone, ForgetGroup, ReadGroups,
              LookGroups, WriteGroup
      <4> QED BY <4>1, <4>2, <4>3
    <3> QED BY <1>1, <1>2, <1>b, <2>3, <3>1, AsideKeepsWork DEF Steps, WorldMoves
  <2> QED BY <2>1, <2>2, <2>3
<1> QED BY <1>3, <1>5, <1>6 DEF LoneInv, PapersKept

LEMMA StartKeepsLone ==
  ASSUME Inv, Inv', LoneInv, NEW t \in Terminals, Start(t)
  PROVE LoneInv'
<1> SUFFICES ASSUME "record" \notin crossed'
             PROVE LoneInv'
  BY DEF LoneInv
<1>0. Steps(t)
  BY StartingSteps
<1>1. \A u \in Terminals : u # t => proc'[u] = proc[u]
  BY <1>0, OtherCommandsStay
<1>2. PICK op \in Ops, wait \in BOOLEAN :
        /\ proc' = [proc EXCEPT ![t] = [Idle EXCEPT !.pc = Entry(op), !.op = op, !.wait = wait]]
        /\ crossed' = crossed \cup UNION {Overlap(op, proc[u].op) : u \in {v \in Terminals : Busy(v)}}
  BY DEF Start
<1> DEFINE pc == Entry(op)
           q == [Idle EXCEPT !.pc = pc, !.op = op, !.wait = wait]
<1>3. proc'[t] = q /\ pc \in {"find", "guard", "tfdestroy", "load"}
  BY <1>2 DEF Inv, TypeOK, Entry, Ops
<1>4. q.pc = pc /\ q.op = op /\ q.made = 0
  <2> HIDE DEF pc
  <2> QED BY DEF Idle
<1>5. UNCHANGED <<cluster, ids, local, kubeconfig, tf, told, misread>> /\ "record" \notin crossed /\ proc[t].pc = "idle"
  BY <1>2 DEF Start
<1>6. /\ \A u, w \in Terminals : u # w => ~(Works(proc[u]) /\ Works(proc[w]))
      /\ \A u \in Terminals : Work(proc[u], cluster, local, kubeconfig, misread)
      /\ Papers
  BY <1>5 DEF LoneInv
<1>7. ASSUME NEW u \in Terminals, u # t, op \in Writers PROVE ~Works(proc[u])
  <2> SUFFICES ASSUME Works(proc[u])
               PROVE FALSE
    OBVIOUS
  <2>1. Busy(u)
    BY DEF Works, Busy
  <2>2. "record" \in Overlap(op, proc[u].op)
    BY <1>7 DEF Works, Overlap
  <2> QED BY <1>2, <2>1, <2>2
<1>8. \A u, w \in Terminals : u # w => ~(Works(proc'[u]) /\ Works(proc'[w]))
  <2>1. Works(proc'[t]) => op \in Writers
    <3> HIDE DEF q
    <3> QED BY <1>3, <1>4 DEF Works
  <2> QED BY <1>1, <1>6, <1>7, <2>1
<1>9. ASSUME NEW u \in Terminals
      PROVE Work(proc'[u], cluster', local', kubeconfig', misread')
  <2>1. CASE u = t
    <3> HIDE DEF q, pc
    <3> QED BY <1>3, <1>4, <2>1 DEF Work, Past
  <2>2. CASE u # t
    BY <1>1, <1>5, <1>6, <2>2
  <2> QED BY <2>1, <2>2
<1>10. Papers'
  <2>1. proc[t].op \notin {"deploy", "up"}
    BY <1>5, PlacesTell DEF Inv, Local
  <2>2. Held'
    BY <1>1, <1>5, <1>6, <2>1 DEF Papers, Held, Usable
  <2> QED BY <1>5, <1>6, <2>2 DEF Papers, Below, Credited
<1> QED BY <1>8, <1>9, <1>10 DEF LoneInv

LEMMA CloudKeepsLone ==
  ASSUME Inv, Inv', LoneInv, Cloud
  PROVE LoneInv'
<1> SUFFICES ASSUME "record" \notin crossed
             PROVE LoneInv'
  BY DEF Cloud, LoneInv
<1>1. UNCHANGED <<local, kubeconfig, tf, told, crossed, misread, proc, ids>>
  BY DEF Cloud, ClusterSettles, GroupSettles, ClusterGoes, GroupGoes
<1>2. (cluster'.state # "none" => cluster.state # "none" /\ cluster'.id = cluster.id) /\ (Usable' => Usable)
  BY DEF Cloud, ClusterSettles, GroupSettles, ClusterGoes, GroupGoes, NoCluster, Usable, Inv, TypeOK
<1>3. Aside
  BY <1>1, <1>2 DEF Aside
<1>4. \A u \in Terminals : Work(proc'[u], cluster', local', kubeconfig', misread')
  BY <1>1, <1>3, AsideKeepsWork DEF LoneInv
<1>5. Usable' => cluster'.id = cluster.id
  BY <1>2 DEF Usable
<1>6. Papers'
  BY <1>1, <1>2, <1>5 DEF LoneInv, Papers, Below, Credited, Held
<1> QED BY <1>1, <1>4, <1>6 DEF LoneInv

LEMMA LoneIsKept ==
  ASSUME Inv, Inv', LoneInv, [Next]_vars
  PROVE LoneInv'
<1>1. CASE UNCHANGED vars
  BY <1>1 DEF vars, LoneInv, Papers, Below, Credited, Held, Usable
<1> QED BY <1>1, CloudKeepsLone, StartKeepsLone, StepsKeepLone DEF Next

LEMMA InitIsLone == Init => LoneInv
<1> SUFFICES ASSUME Init PROVE LoneInv
  OBVIOUS
<1>1. proc = [t \in Terminals |-> Idle]
  BY DEF Init
<1>2. \A t \in Terminals : ~Works(proc[t]) /\ Work(proc[t], cluster, local, kubeconfig, misread)
  BY <1>1, IdleWorks DEF Works, Idle
<1>3. Below /\ Credited /\ (Usable => cluster.id = local.id)
  BY DEF Init, Below, Credited, Usable, NoCluster, NoRecord
<1> QED BY <1>2, <1>3 DEF LoneInv, Papers, Held

LEMMA LoneHolds == Spec => [](Inv /\ LoneInv)
<1>1. Init => Inv /\ LoneInv
  BY InitIsInv, InitIsLone
<1>2. Inv /\ LoneInv /\ [Next]_vars => (Inv /\ LoneInv)'
  BY StepsKeepInv, LoneIsKept
<1> QED BY <1>1, <1>2, PTL DEF Spec

\* A cluster that stays is on record, in hand or named, for any number of terminals, retries and
\* deaths, unless two commands that write the record overlapped: a deploy or an up that is alone
\* works on the one cluster of the name, and a destroy forgets a record only of what is gone.
THEOREM ClustersAreRemembered == Spec => []NoClusterIsForgotten
<1>1. Inv /\ LoneInv => NoClusterIsForgotten
  <2> SUFFICES ASSUME Inv, LoneInv, Usable, "record" \notin crossed
               PROVE \/ cluster.id \in {local.id, tf} \cup told \cup misread
                     \/ \E t \in Terminals : Busy(t) /\ cluster.id \in {proc[t].id, proc[t].made}
    BY DEF NoClusterIsForgotten
  <2>1. \A t \in Terminals : proc[t].op \in {"deploy", "up"} => Busy(t)
    BY PlacesTell DEF Inv, Local, Busy
  <2> QED BY <2>1 DEF LoneInv, Papers, Held
<1> QED BY <1>1, LoneHolds, PTL

\* The kubeconfig that a record names is never of an earlier cluster than the record.
THEOREM CredentialsFit == Spec => []KubeconfigIsOfRecord
<1>1. LoneInv => KubeconfigIsOfRecord
  BY DEF LoneInv, Papers, Credited, KubeconfigIsOfRecord
<1> QED BY <1>1, LoneHolds, PTL

===================================================================================
