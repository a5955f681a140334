-------------------------- MODULE WorkbenchDeployProofs --------------------------
(* Proofs about WorkbenchDeploy: types, what is recorded is there, healthy is   *)
(* earned, and VMs are replaced on purpose, for any command lines, terminals    *)
(* and aliases.                                                                 *)
EXTENDS WorkbenchDeploy, FiniteSetTheorems, TLAPS

\* Commands that may still make a VM: each makes at most one, so MaxCommands bounds them.
Making == {"gate", "bootstrap", "project", "state", "plan", "apply"}
Makers == {p \in Procs : proc[p].pc \in Making}
Room == born + Cardinality(Makers) <= given

\* A command reads config.yaml only to write it, and knows what it was told to do.
ProcessInv(p) ==
    /\ proc[p].reading => proc[p].pc \in Writes
    /\ proc[p].pc \in {"backend", "classify", "destroy"} => Cmd(p).op # "deploy"
    /\ At(p, "apply") => \/ Cmd(p).op # "deploy" \/ Cmd(p).replace
                         \/ Cmd(p).tool \in {"lerobot", "genesis"}
                         \/ proc[p].seen = Nowhere

\* Of an alias that is clean: the entry and the cloud agree, and healthy was earned.
Synced(a) ==
    \/ cfg.wb[a] = NoEntry /\ infra[a] = Nothing
    \/ cfg.wb[a] # NoEntry /\ Alive(a, cfg.wb[a].host)
Answered(a) == app[a][cfg.wb[a].host] = "up" \/ cfg.wb[a].tool \in {"genesis", "isaac"}
Earned(a) == cfg.wb[a].status = "healthy" => Answered(a)

\* Where a command has not touched the entry, where it knows the host to register, and
\* where it has registered it.
Before == {"gate", "env", "bootstrap", "project", "state", "backend", "classify", "plan",
           "apply", "read", "destroy", "done", "error"}
Installing == {"install", "installed", "health", "strategy", "mark"}
After == Installing \cup {"connect", "installing", "failed"}

Registered(p) ==
    /\ Alive(Alias(p), proc[p].host)
    /\ Entry(p).host = proc[p].host /\ Entry(p).tool = Cmd(p).tool

\* What holds of a clean alias while its only command is at work.
OnTrack(p) ==
    /\ proc[p].reading => proc[p].loaded.wb[Alias(p)] = Entry(p)
    /\ proc[p].pc \in Before => Synced(Alias(p)) /\ Earned(Alias(p))
    /\ At(p, "register") => Alive(Alias(p), proc[p].host)
    /\ proc[p].pc \in After => Registered(p)
    /\ proc[p].pc \in Installing => Entry(p).status # "healthy"
    /\ At(p, "strategy") => app[Alias(p)][proc[p].host] = "up"
    /\ At(p, "mark") => Answered(Alias(p))
    /\ At(p, "remove") => infra[Alias(p)] = Nothing

AliasInv(a) ==
    a \in clean =>
        /\ Quiet(a) => Synced(a) /\ Earned(a)
        /\ \A p \in Procs : ~At(p, "idle") /\ Alias(p) = a => Others(p) = {} /\ OnTrack(p)

IInv == TypeOK /\ Room /\ (\A p \in Procs : ProcessInv(p)) /\ (\A a \in Aliases : AliasInv(a))

(***************************************************************************)
(* Frames                                                                  *)
(***************************************************************************)

Clouds == [vm : Vms \cup {Nowhere}, tool : Tools \cup {"none"}, gpu : Gpus \cup {"none"},
           parts : BOOLEAN]

\* One command that runs moves, and nothing is started or ended.
Moved(p, r) ==
    /\ ~At(p, "idle")
    /\ proc' = [proc EXCEPT ![p] = r]
    /\ r \in Processes /\ r.pc # "idle" /\ r.cmd = proc[p].cmd

\* What the types say of one command.
LEMMA ProcessFacts ==
    ASSUME TypeOK, NEW p \in Procs
    PROVE  /\ proc[p] \in Processes /\ Cmd(p) \in CommandLines /\ Alias(p) \in Aliases
           /\ cfg \in Configs /\ Entry(p) \in Entries /\ infra[Alias(p)] \in Clouds
           /\ proc[p].loaded \in Configs /\ proc[p].host \in Hosts
BY DEF TypeOK, Processes, CommandLines, Cmd, Alias, Entry, Configs, Clouds

\* The constants of the types are of the types.
LEMMA Constants ==
    /\ EmptyConfig \in Configs /\ NoEntry \in Entries /\ Nothing \in Clouds
    /\ Idle \in Processes /\ Idle.pc = "idle" /\ ~Idle.reading
    /\ 0 \in Hosts /\ -1 \in Hosts /\ Vms \subseteq Hosts
<1>1. 0 \in Hosts /\ -1 \in Hosts /\ Vms \subseteq Hosts
  BY DEF Hosts, Nowhere, Byo
<1>2. NoEntry \in Entries /\ Nothing \in Clouds
  BY <1>1 DEF NoEntry, Nothing, Entries, Clouds, Nowhere
<1>3. EmptyConfig \in Configs
  BY <1>2 DEF EmptyConfig, Configs
<1>4. (CHOOSE c \in Commands : TRUE) \in CommandLines
  BY CommandAssumption
<1>5. Idle \in Processes /\ Idle.pc = "idle" /\ ~Idle.reading
  BY <1>1, <1>3, <1>4 DEF Idle, Processes, Pcs, Nowhere
<1> QED
  BY <1>1, <1>2, <1>3, <1>5

\* A move of one command leaves who is at work on what as it was.
LEMMA SameCommands ==
    ASSUME TypeOK, NEW p \in Procs, NEW r, Moved(p, r)
    PROVE  /\ proc'[p] = r
           /\ \A q \in Procs \ {p} : proc'[q] = proc[q]
           /\ \A q \in Procs : /\ Cmd(q)' = Cmd(q) /\ Alias(q)' = Alias(q)
                               /\ At(q, "idle")' <=> At(q, "idle")
           /\ \A q \in Procs : Others(q)' = Others(q)
           /\ \A a \in Aliases : Quiet(a)' <=> Quiet(a)
<1>1. /\ proc'[p] = r
      /\ \A q \in Procs \ {p} : proc'[q] = proc[q]
  BY DEF Moved, TypeOK
<1>2. \A q \in Procs : /\ Cmd(q)' = Cmd(q) /\ Alias(q)' = Alias(q)
                       /\ At(q, "idle")' <=> At(q, "idle")
  BY <1>1 DEF Moved, Cmd, Alias, At
<1>3. \A q \in Procs : Others(q)' = Others(q)
  BY <1>2 DEF Others
<1>4. \A a \in Aliases : Quiet(a)' <=> Quiet(a)
  BY <1>2 DEF Quiet
<1> QED
  BY <1>1, <1>2, <1>3, <1>4

\* Room for the VMs that commands may still make.
LEMMA MakersFinite ==
    IsFiniteSet(Makers) /\ Cardinality(Makers) \in Nat
<1>1. Makers \subseteq Procs
  BY DEF Makers
<1> QED
  BY <1>1, ProcsAssumption, FS_Subset, FS_CardinalityType

LEMMA RoomKept ==
    ASSUME TypeOK, Room, born' = born, given' = given, Makers' \subseteq Makers
    PROVE  Room'
<1>1. Cardinality(Makers') <= Cardinality(Makers) /\ Cardinality(Makers') \in Nat
  BY MakersFinite, FS_Subset, FS_CardinalityType
<1> QED
  BY <1>1, MakersFinite DEF Room, TypeOK

LEMMA RoomSpent ==
    ASSUME TypeOK, Room, NEW p \in Makers, born' \in {born, born + 1}, given' = given,
           Makers' \subseteq Makers \ {p}
    PROVE  Room'
<1>1. /\ Cardinality(Makers \ {p}) = Cardinality(Makers) - 1
      /\ IsFiniteSet(Makers \ {p})
  BY MakersFinite, FS_RemoveElement
<1>2. Cardinality(Makers') <= Cardinality(Makers) - 1 /\ Cardinality(Makers') \in Nat
  BY <1>1, FS_Subset, FS_CardinalityType
<1> QED
  BY <1>2, MakersFinite DEF Room, TypeOK

LEMMA RoomMade ==
    ASSUME TypeOK, Room, NEW p, born' = born, given' = given + 1,
           Makers' \subseteq Makers \cup {p}
    PROVE  Room'
<1>0. /\ IsFiniteSet(Makers \cup {p})
      /\ Cardinality(Makers \cup {p}) =
           IF p \in Makers THEN Cardinality(Makers) ELSE Cardinality(Makers) + 1
  BY MakersFinite, FS_AddElement
<1>1. /\ Cardinality(Makers \cup {p}) <= Cardinality(Makers) + 1
      /\ IsFiniteSet(Makers \cup {p}) /\ Cardinality(Makers \cup {p}) \in Nat
  BY <1>0, MakersFinite
<1>2. Cardinality(Makers') <= Cardinality(Makers) + 1 /\ Cardinality(Makers') \in Nat
  BY <1>1, MakersFinite, FS_Subset, FS_CardinalityType
<1> QED
  BY <1>2, MakersFinite DEF Room, TypeOK

\* There is always a name for one more VM.
LEMMA NameLeft ==
    ASSUME TypeOK, Room, NEW p \in Makers
    PROVE  born + 1 \in Vms /\ born + 1 \in 0..MaxCommands
<1>1. Cardinality(Makers) # 0
  <2>1. Makers # {}
    OBVIOUS
  <2> QED
    BY <2>1, MakersFinite, FS_EmptySet
<1>2. born \in 0..MaxCommands /\ given \in 0..MaxCommands
  BY DEF TypeOK
<1>3. born + 1 <= given
  BY <1>1, <1>2, MakersFinite, BoundAssumption DEF Room
<1> QED
  BY <1>2, <1>3, BoundAssumption DEF Vms

LEMMA MovedRoom ==
    ASSUME TypeOK, Room, NEW p \in Procs, NEW r, Moved(p, r), born' = born, given' = given,
           r.pc \in Making => proc[p].pc \in Making
    PROVE  Room'
<1>1. Makers' \subseteq Makers
  BY SameCommands DEF Makers
<1> QED
  BY <1>1, RoomKept

\* What a step of one command owes: to itself, to its alias, and to leave the others' alone.
LEMMA Frame ==
    ASSUME IInv, TypeOK', Room', NEW p \in Procs, NEW r, Moved(p, r),
           ProcessInv(p)',
           Alias(p) \in clean' => Others(p) = {} /\ OnTrack(p)',
           \A b \in Aliases \ {Alias(p)} :
               /\ infra'[b] = infra[b] /\ app'[b] = app[b]
               /\ b \in clean' => b \in clean /\ cfg'.wb[b] = cfg.wb[b]
    PROVE  IInv'
<1> USE DEF IInv
<1>1. \A q \in Procs : ProcessInv(q)'
  BY SameCommands DEF ProcessInv, Cmd, At
<1>2. ASSUME NEW b \in Aliases
      PROVE  AliasInv(b)'
  <2> SUFFICES ASSUME b \in clean' PROVE AliasInv(b)'
    BY DEF AliasInv
  <2>1. CASE b = Alias(p)
    <3>1. ~Quiet(b)'
      BY <2>1, SameCommands DEF Quiet, Moved
    <3>2. \A q \in Procs : ~At(q, "idle") /\ Alias(q) = b => q = p
      BY <2>1 DEF Others
    <3> QED
      BY <2>1, <3>1, <3>2, SameCommands DEF AliasInv
  <2>2. CASE b # Alias(p)
    <3>1. /\ infra'[b] = infra[b] /\ app'[b] = app[b] /\ b \in clean
          /\ cfg'.wb[b] = cfg.wb[b]
      BY <2>2
    <3>2. \A h : Alive(b, h)' <=> Alive(b, h)
      BY <3>1 DEF Alive
    <3>3. /\ Synced(b)' <=> Synced(b)
          /\ Answered(b)' <=> Answered(b)
          /\ Earned(b)' <=> Earned(b)
      BY <3>1, <3>2 DEF Synced, Answered, Earned
    <3>4. ASSUME NEW q \in Procs, ~At(q, "idle"), Alias(q) = b
          PROVE  Others(q)' = {} /\ OnTrack(q)'
      <4>1. q # p /\ proc'[q] = proc[q] /\ Cmd(q)' = Cmd(q) /\ Alias(q)' = Alias(q)
            /\ Others(q)' = Others(q)
        BY <2>2, <3>4, SameCommands
      <4>2. Others(q) = {} /\ OnTrack(q)
        BY <3>1, <3>4 DEF AliasInv
      <4>3. Entry(q)' = Entry(q)
        BY <3>1, <3>4, <4>1 DEF Entry
      <4>4. Registered(q)' <=> Registered(q)
        BY <3>2, <3>4, <4>1, <4>3 DEF Registered
      <4> QED
        BY <3>1, <3>2, <3>3, <3>4, <4>1, <4>2, <4>3, <4>4 DEF OnTrack, At
    <3> QED
      BY <3>1, <3>3, <3>4, SameCommands DEF AliasInv
  <2> QED
    BY <2>1, <2>2
<1> QED
  BY <1>1, <1>2

\* A command whose alias is clean is alone on it, and on track.
LEMMA Alone ==
    ASSUME IInv, NEW p \in Procs, ~At(p, "idle"), Alias(p) \in clean
    PROVE  Others(p) = {} /\ OnTrack(p)
BY ProcessFacts DEF IInv, AliasInv

LEMMA TypeMoved ==
    ASSUME TypeOK, NEW p \in Procs, NEW r, Moved(p, r),
           cfg' \in Configs, infra' \in [Aliases -> Clouds],
           app' \in [Aliases -> [Hosts -> {"none", "up", "down"}]],
           born' \in 0..MaxCommands, given' = given, kills' = kills, clean' \subseteq Aliases
    PROVE  TypeOK'
<1>1. proc' \in [Procs -> Processes]
  BY DEF TypeOK, Moved
<1>2. \A q \in Procs : At(q, "idle")' => proc'[q] = Idle
  BY SameCommands DEF TypeOK, At, Moved
<1>3. given' \in 0..MaxCommands /\ kills' \in 0..MaxKills
  BY DEF TypeOK
<1> QED
  BY <1>1, <1>2, <1>3 DEF TypeOK, Clouds

(***************************************************************************)
(* Steps that change nothing but the place of the command                  *)
(***************************************************************************)

LEMMA HopKeeps ==
    ASSUME IInv, NEW p \in Procs, NEW r, Moved(p, r), Step(p), ~r.reading,
           r.pc \in Making => proc[p].pc \in Making,
           r.pc \in {"backend", "classify", "destroy"} => Cmd(p).op # "deploy",
           r.pc = "apply" => Cmd(p).replace \/ r.seen = Nowhere,
           Alias(p) \in clean /\ OnTrack(p) => OnTrack(p)'
    PROVE  IInv'
<1>1. TypeOK /\ Room
  BY DEF IInv
<1>2. TypeOK'
  <2>1. /\ cfg \in Configs /\ infra \in [Aliases -> Clouds] /\ born \in 0..MaxCommands
        /\ app \in [Aliases -> [Hosts -> {"none", "up", "down"}]] /\ clean \subseteq Aliases
    BY <1>1 DEF TypeOK, Clouds
  <2> QED
    BY <1>1, <2>1, TypeMoved DEF Step
<1>3. Room'
  BY <1>1, MovedRoom DEF Step
<1>4. ProcessInv(p)'
  BY <1>1, SameCommands DEF ProcessInv, Cmd, At
<1>5. Alias(p) \in clean' => Others(p) = {} /\ OnTrack(p)'
  BY Alone DEF Step, Moved
<1> QED
  BY <1>2, <1>3, <1>4, <1>5, Frame DEF Step

\* From a place before the cloud or the entry was touched to another.
LEMMA HopBefore ==
    ASSUME IInv, NEW p \in Procs, NEW r, Moved(p, r), Step(p), ~r.reading,
           r.pc \in Making => proc[p].pc \in Making,
           r.pc \in {"backend", "classify", "destroy"} => Cmd(p).op # "deploy",
           r.pc = "apply" => Cmd(p).replace \/ r.seen = Nowhere,
           proc[p].pc \in Before, r.pc \in Before
    PROVE  IInv'
<1>1. proc'[p] = r /\ Alias(p)' = Alias(p)
  BY SameCommands DEF IInv
<1>2. r.pc \notin After /\ r.pc \notin Installing /\ r.pc \notin {"register", "strategy", "mark", "remove"}
  BY DEF Before, After, Installing
<1>3. OnTrack(p) => OnTrack(p)'
  <2>1. /\ Synced(Alias(p))' <=> Synced(Alias(p))
        /\ Earned(Alias(p))' <=> Earned(Alias(p))
    BY <1>1 DEF Step, Synced, Earned, Answered, Alive
  <2> QED
    BY <1>1, <1>2, <2>1 DEF OnTrack, At
<1> QED
  BY <1>3, HopKeeps

\* From a place where the host is registered to another.
LEMMA HopAfter ==
    ASSUME IInv, NEW p \in Procs, NEW r, Moved(p, r), Step(p), ~r.reading,
           proc[p].pc \in After, r.pc \in After, r.host = proc[p].host,
           r.pc \in Installing => proc[p].pc \in Installing,
           r.pc \in {"strategy", "mark"} => app[Alias(p)][proc[p].host] = "up"
    PROVE  IInv'
<1>1. proc'[p] = r /\ Alias(p)' = Alias(p) /\ Cmd(p)' = Cmd(p)
  BY SameCommands DEF IInv
<1>2. r.pc \notin Before /\ r.pc \notin Making
      /\ r.pc \notin {"register", "remove", "backend", "classify", "destroy", "apply"}
  BY DEF Before, After, Installing, Making
<1>3. OnTrack(p) => OnTrack(p)'
  <2> SUFFICES ASSUME OnTrack(p) PROVE OnTrack(p)'
    OBVIOUS
  <2>1. Entry(p)' = Entry(p)
    BY <1>1 DEF Step, Entry
  <2>2. Registered(p) /\ Registered(p)'
    BY <1>1, <2>1 DEF OnTrack, Registered, Step, Alive
  <2>3. r.pc = "mark" => Answered(Alias(p))'
    BY <1>1, <2>1, <2>2 DEF Registered, Answered, Entry, Step
  <2> QED
    BY <1>1, <1>2, <2>1, <2>2, <2>3 DEF OnTrack, At, Step
<1> QED
  BY <1>2, <1>3, HopKeeps

(***************************************************************************)
(* Steps that read or write config.yaml                                    *)
(***************************************************************************)

LEMMA LoadKeeps ==
    ASSUME IInv, NEW p \in Procs, Load(p)
    PROVE  IInv'
<1> DEFINE r == [proc[p] EXCEPT !.reading = TRUE, !.loaded = cfg]
<1>1. TypeOK /\ Room /\ ProcessInv(p)
  BY DEF IInv
<1>2. /\ proc[p].pc \in Writes /\ proc' = [proc EXCEPT ![p] = r]
      /\ UNCHANGED <<cfg, infra, app, born, given, kills, clean>>
  BY DEF Load
<1>3. Moved(p, r) /\ r.pc = proc[p].pc /\ r.host = proc[p].host /\ r.seen = proc[p].seen
      /\ r.reading /\ r.loaded = cfg
  <2>1. proc[p] \in Processes /\ cfg \in Configs
    BY <1>1, ProcessFacts
  <2>2. r \in Processes /\ r.cmd = proc[p].cmd /\ r.pc = proc[p].pc /\ r.host = proc[p].host
        /\ r.seen = proc[p].seen /\ r.reading /\ r.loaded = cfg
    BY <2>1 DEF Processes
  <2> QED
    BY <1>2, <2>2 DEF Moved, At, Writes
<1> HIDE DEF r
<1>4. proc'[p] = r /\ Alias(p)' = Alias(p) /\ Cmd(p)' = Cmd(p)
  BY <1>1, <1>3, SameCommands
<1>5. TypeOK'
  <2>1. /\ cfg \in Configs /\ infra \in [Aliases -> Clouds] /\ born \in 0..MaxCommands
        /\ app \in [Aliases -> [Hosts -> {"none", "up", "down"}]] /\ clean \subseteq Aliases
    BY <1>1 DEF TypeOK, Clouds
  <2> QED
    BY <1>1, <1>2, <1>3, <2>1, TypeMoved
<1>6. Room'
  BY <1>1, <1>2, <1>3, MovedRoom
<1>7. ProcessInv(p)'
  BY <1>1, <1>2, <1>3, <1>4 DEF ProcessInv, At
<1>8. OnTrack(p) => OnTrack(p)'
  <2>1. Entry(p)' = Entry(p) /\ Entry(p) = cfg.wb[Alias(p)]
    BY <1>2, <1>4 DEF Entry
  <2>2. /\ Synced(Alias(p))' <=> Synced(Alias(p))
        /\ Answered(Alias(p))' <=> Answered(Alias(p))
        /\ Earned(Alias(p))' <=> Earned(Alias(p))
        /\ Registered(p)' <=> Registered(p)
        /\ Alive(Alias(p), proc[p].host)' <=> Alive(Alias(p), proc[p].host)
    BY <1>2, <1>3, <1>4, <2>1 DEF Synced, Earned, Answered, Alive, Registered
  <2> QED
    BY <1>2, <1>3, <1>4, <2>1, <2>2 DEF OnTrack, At
<1>9. Alias(p) \in clean' => Others(p) = {} /\ OnTrack(p)'
  BY <1>2, <1>3, <1>8, Alone DEF Moved
<1> QED
  BY <1>2, <1>3, <1>5, <1>6, <1>7, <1>9, Frame

\* A write by Dump or SaveState, after which the command is r.
Dumped(p, new, r) ==
    /\ proc[p].reading
    /\ cfg' = new
    /\ clean' = {a \in clean : cfg.wb[a] = proc[p].loaded.wb[a]}
    /\ Moved(p, r) /\ ~r.reading
    /\ UNCHANGED <<infra, app, born, given, kills>>

\* Lost writes of others take their aliases out of clean; what the command writes of its own
\* alias is its own business.
LEMMA DumpKeeps ==
    ASSUME IInv, NEW p \in Procs, NEW new \in Configs, NEW r, Dumped(p, new, r),
           r.pc \in Making => proc[p].pc \in Making,
           r.pc \in {"backend", "classify", "destroy"} => Cmd(p).op # "deploy",
           r.pc = "apply" => Cmd(p).op # "deploy" \/ Cmd(p).tool \in {"lerobot", "genesis"},
           \A b \in Aliases \ {Alias(p)} : new.wb[b] \in {cfg.wb[b], proc[p].loaded.wb[b]},
           OnTrack(p) /\ proc[p].loaded.wb[Alias(p)] = Entry(p) => OnTrack(p)'
    PROVE  IInv'
<1>1. TypeOK /\ Room /\ Moved(p, r)
  BY DEF IInv, Dumped
<1>2. proc'[p] = r /\ Alias(p)' = Alias(p) /\ Cmd(p)' = Cmd(p)
  BY <1>1, SameCommands
<1>3. TypeOK'
  <2>1. /\ infra \in [Aliases -> Clouds] /\ born \in 0..MaxCommands
        /\ app \in [Aliases -> [Hosts -> {"none", "up", "down"}]] /\ clean \subseteq Aliases
    BY <1>1 DEF TypeOK, Clouds
  <2> QED
    BY <1>1, <2>1, TypeMoved DEF Dumped
<1>4. Room'
  BY <1>1, MovedRoom DEF Dumped
<1>5. ProcessInv(p)'
  BY <1>2 DEF ProcessInv, At, Dumped
<1>6. Alias(p) \in clean' => Others(p) = {} /\ OnTrack(p)'
  BY Alone DEF Dumped, Moved, Entry, OnTrack
<1>7. ASSUME NEW b \in Aliases \ {Alias(p)}, b \in clean'
      PROVE  b \in clean /\ cfg'.wb[b] = cfg.wb[b]
  BY <1>7 DEF Dumped
<1> QED
  BY <1>1, <1>3, <1>4, <1>5, <1>6, <1>7, Frame DEF Dumped

LEMMA DumpMoves ==
    ASSUME IInv, NEW p \in Procs, NEW new, NEW pc \in Pcs \ {"idle"}, Dump(p, new, pc)
    PROVE  \E r : /\ Dumped(p, new, r) /\ r.pc = pc /\ r.host = proc[p].host
                  /\ proc[p].pc \in Writes /\ proc[p].loaded \in Configs
<1> DEFINE r == [proc[p] EXCEPT !.pc = pc, !.reading = FALSE, !.loaded = EmptyConfig]
<1>1. TypeOK /\ ProcessInv(p)
  BY DEF IInv
<1>2. proc[p].reading /\ proc' = [proc EXCEPT ![p] = r]
  BY DEF Dump
<1>3. proc[p] \in Processes /\ EmptyConfig \in Configs /\ proc[p].loaded \in Configs
  BY <1>1, ProcessFacts, Constants
<1>4. r \in Processes /\ r.cmd = proc[p].cmd /\ r.pc = pc /\ ~r.reading
      /\ r.host = proc[p].host
  BY <1>3 DEF Processes
<1>5. proc[p].pc \in Writes /\ ~At(p, "idle")
  BY <1>1, <1>2 DEF ProcessInv, At, Writes
<1>6. Moved(p, r)
  BY <1>2, <1>4, <1>5 DEF Moved
<1>7. Dumped(p, new, r)
  BY <1>4, <1>6 DEF Dump, Dumped
<1> QED
  BY <1>3, <1>4, <1>5, <1>7

LEMMA SaveMoves ==
    ASSUME IInv, NEW p \in Procs, NEW bucket \in {"own", "other"}, NEW pc \in Pcs \ {"idle"},
           SaveState(p, bucket, pc)
    PROVE  \E r : /\ Dumped(p, [proc[p].loaded EXCEPT !.saved = bucket], r) /\ r.pc = pc
                  /\ At(p, "state") /\ proc[p].loaded \in Configs
<1> DEFINE r == [proc[p] EXCEPT !.pc = pc, !.bucket = bucket, !.reading = FALSE,
                                !.loaded = EmptyConfig]
<1>1. TypeOK /\ ProcessInv(p)
  BY DEF IInv
<1>2. proc[p].reading /\ proc' = [proc EXCEPT ![p] = r] /\ At(p, "state")
  BY DEF SaveState
<1>3. proc[p] \in Processes /\ EmptyConfig \in Configs /\ proc[p].loaded \in Configs
  BY <1>1, ProcessFacts, Constants
<1>4. r \in Processes /\ r.cmd = proc[p].cmd /\ r.pc = pc /\ ~r.reading
  BY <1>3 DEF Processes
<1>6. Moved(p, r)
  BY <1>2, <1>4 DEF Moved, At
<1>7. Dumped(p, [proc[p].loaded EXCEPT !.saved = bucket], r)
  BY <1>4, <1>6 DEF SaveState, Dumped
<1> QED
  BY <1>2, <1>3, <1>4, <1>7

\* Writes of project and backend settings leave every workbench alone.
LEMMA SettingsKeep ==
    ASSUME IInv, NEW p \in Procs, NEW new \in Configs, NEW r, Dumped(p, new, r),
           new.wb = proc[p].loaded.wb, proc[p].pc \in Making, r.pc \in Before,
           r.pc \in {"backend", "classify", "destroy"} => Cmd(p).op # "deploy",
           r.pc = "apply" => Cmd(p).op # "deploy" \/ Cmd(p).tool \in {"lerobot", "genesis"}
    PROVE  IInv'
<1>1. proc'[p] = r /\ Alias(p)' = Alias(p)
  BY SameCommands DEF IInv, Dumped
<1>2. /\ r.pc \notin After /\ r.pc \notin Installing
      /\ r.pc \notin {"register", "strategy", "mark", "remove"}
      /\ proc[p].pc \in Before
  BY DEF Before, After, Installing, Making
<1>3. ASSUME OnTrack(p), proc[p].loaded.wb[Alias(p)] = Entry(p)
      PROVE  OnTrack(p)'
  <2>1. cfg'.wb[Alias(p)] = cfg.wb[Alias(p)] /\ infra' = infra /\ app' = app /\ ~r.reading
    BY <1>3 DEF Dumped, Entry
  <2>2. /\ Synced(Alias(p))' <=> Synced(Alias(p))
        /\ Earned(Alias(p))' <=> Earned(Alias(p))
    BY <1>1, <2>1 DEF Synced, Earned, Answered, Alive
  <2> QED
    BY <1>1, <1>2, <1>3, <2>1, <2>2 DEF OnTrack, At
<1> QED
  BY <1>3, DumpKeeps

\* register: the entry names a host that is there.
LEMMA RegisterKeeps ==
    ASSUME IInv, NEW p \in Procs, NEW pc \in {"done", "installing", "mark", "connect"},
           NEW saved \in {"none", "own", "other"},
           NEW status \in {"unset", "provisioned", "installing", "install_failed", "healthy"},
           Register(p, saved, status, pc),
           pc \in {"done", "mark"} => status # "healthy",
           pc = "mark" => Cmd(p).tool = "genesis"
    PROVE  IInv'
<1> DEFINE e == [host |-> proc[p].host, runtime |-> Cmd(p).runtime,
                 tool |-> Cmd(p).tool, status |-> status]
           new == [saved |-> saved, wb |-> [proc[p].loaded.wb EXCEPT ![Alias(p)] = e]]
<1>1. At(p, "register") /\ Dump(p, new, pc)
  BY DEF Register
<1>2. pc \in Pcs \ {"idle"}
  BY DEF Pcs, Writes
<1>3. PICK r : /\ Dumped(p, new, r) /\ r.pc = pc /\ r.host = proc[p].host
               /\ proc[p].pc \in Writes /\ proc[p].loaded \in Configs
  BY <1>1, <1>2, DumpMoves
<1>4. TypeOK
  BY DEF IInv
<1>5. e \in Entries /\ e.host = proc[p].host /\ e.tool = Cmd(p).tool /\ e.status = status
  BY <1>4, ProcessFacts DEF CommandLines, Entries
<1> HIDE DEF e
<1>6. new \in Configs /\ new.wb[Alias(p)] = e
      /\ \A b \in Aliases \ {Alias(p)} : new.wb[b] = proc[p].loaded.wb[b]
  BY <1>3, <1>4, <1>5, ProcessFacts DEF Configs
<1> HIDE DEF new
<1>7. proc'[p] = r /\ Alias(p)' = Alias(p) /\ Cmd(p)' = Cmd(p)
  BY <1>3, <1>4, SameCommands DEF Dumped
<1>8. ASSUME OnTrack(p) PROVE OnTrack(p)'
  <2>1. Alive(Alias(p), proc[p].host)
    BY <1>1, <1>8 DEF OnTrack
  <2>2. Entry(p)' = e /\ ~r.reading
    BY <1>3, <1>6, <1>7 DEF Entry, Dumped
  <2>3. /\ Registered(p)' /\ Alive(Alias(p), cfg.wb[Alias(p)].host)' /\ e # NoEntry
        /\ cfg'.wb[Alias(p)] = e
    <3>1. cfg'.wb[Alias(p)] = e
      BY <1>3, <1>6 DEF Dumped
    <3>2. Alive(Alias(p), proc[p].host)' /\ Alive(Alias(p), cfg.wb[Alias(p)].host)'
      BY <1>3, <1>5, <1>7, <2>1, <3>1 DEF Alive, Dumped
    <3>3. proc[p].host # Nowhere
      BY <2>1 DEF Alive, Byo, Nowhere
    <3> QED
      BY <1>3, <1>5, <1>7, <2>2, <3>1, <3>2, <3>3 DEF Registered, NoEntry
  <2>4. Synced(Alias(p))'
    BY <1>7, <2>3 DEF Synced
  <2>5. pc # "installing" /\ pc # "connect" => Earned(Alias(p))' /\ e.status # "healthy"
    BY <1>5, <1>7, <2>3 DEF Earned
  <2>6. pc = "mark" => Answered(Alias(p))'
    BY <1>5, <1>7, <2>3 DEF Answered
  <2> QED
    BY <1>3, <1>7, <2>2, <2>3, <2>4, <2>5, <2>6 DEF OnTrack, At, Before, After, Installing
<1> QED
  BY <1>3, <1>6, <1>8, DumpKeeps DEF Making

\* A status other than healthy, or healthy where it is earned.
LEMMA MarkKeeps ==
    ASSUME IInv, NEW p \in Procs, NEW at, NEW pc \in {"error", "done", "install", "health"},
           NEW status \in {"provisioned", "installing", "install_failed", "healthy"},
           Mark(p, at, status, pc), at \in After,
           status = "healthy" => at = "mark" /\ pc = "done"
    PROVE  IInv'
<1> DEFINE new == Status(p, status)
<1>1. At(p, at) /\ Dump(p, new, pc)
  BY DEF Mark
<1>2. pc \in Pcs \ {"idle"}
  BY DEF Pcs
<1>3. PICK r : /\ Dumped(p, new, r) /\ r.pc = pc /\ r.host = proc[p].host
               /\ proc[p].pc \in Writes /\ proc[p].loaded \in Configs
  BY <1>1, <1>2, DumpMoves
<1>4. TypeOK /\ Alias(p) \in Aliases
  BY ProcessFacts DEF IInv
<1> DEFINE e == [proc[p].loaded.wb[Alias(p)] EXCEPT !.status = status]
<1>5. /\ e \in Entries /\ e.host = proc[p].loaded.wb[Alias(p)].host
      /\ e.tool = proc[p].loaded.wb[Alias(p)].tool /\ e.status = status
  BY <1>3, <1>4 DEF Configs, Entries
<1>6. new \in Configs /\ new.wb[Alias(p)] = e
      /\ \A b \in Aliases \ {Alias(p)} : new.wb[b] = proc[p].loaded.wb[b]
  BY <1>3, <1>4, <1>5 DEF Configs, Status
<1> HIDE DEF new, e
<1>7. proc'[p] = r /\ Alias(p)' = Alias(p) /\ Cmd(p)' = Cmd(p)
  BY <1>3, <1>4, SameCommands DEF Dumped
<1>8. ASSUME OnTrack(p), proc[p].loaded.wb[Alias(p)] = Entry(p)
      PROVE  OnTrack(p)'
  <2>1. Registered(p) /\ (at = "mark" => Answered(Alias(p)))
    BY <1>1, <1>8 DEF OnTrack, At
  <2>2. Entry(p)' = e /\ ~r.reading /\ cfg'.wb[Alias(p)] = e
    BY <1>3, <1>6, <1>7 DEF Entry, Dumped
  <2>3. /\ Registered(p)' /\ e # NoEntry
        /\ Alive(Alias(p), cfg.wb[Alias(p)].host)'
    <3>1. e.host = proc[p].host /\ e.tool = Cmd(p).tool
      BY <1>5, <1>8, <2>1 DEF Registered
    <3>2. Alive(Alias(p), proc[p].host)' /\ Alive(Alias(p), cfg.wb[Alias(p)].host)'
      BY <1>3, <1>7, <2>1, <2>2, <3>1 DEF Registered, Alive, Dumped
    <3>3. proc[p].host # Nowhere
      BY <2>1 DEF Registered, Alive, Byo, Nowhere
    <3> QED
      BY <1>3, <1>7, <2>2, <3>1, <3>2, <3>3 DEF Registered, NoEntry
  <2>4. Synced(Alias(p))'
    BY <1>7, <2>2, <2>3 DEF Synced
  <2>5. at = "mark" => Answered(Alias(p))'
    BY <1>3, <1>5, <1>7, <1>8, <2>1, <2>2 DEF Answered, Dumped, Entry
  <2>6. Earned(Alias(p))'
    BY <1>5, <1>7, <2>2, <2>5 DEF Earned
  <2> QED
    BY <1>3, <1>5, <1>7, <2>2, <2>3, <2>4, <2>6 DEF OnTrack, At, Before, After, Installing
<1> QED
  BY <1>3, <1>6, <1>8, DumpKeeps DEF Making

\* The environment's strategy is recorded with the project.
LEMMA StrategyKeeps ==
    ASSUME IInv, NEW p \in Procs, WriteStrategy(p)
    PROVE  IInv'
<1>1. At(p, "strategy") /\ Dump(p, proc[p].loaded, "mark")
  BY DEF WriteStrategy
<1>2. PICK r : /\ Dumped(p, proc[p].loaded, r) /\ r.pc = "mark" /\ r.host = proc[p].host
               /\ proc[p].pc \in Writes /\ proc[p].loaded \in Configs
  BY <1>1, DumpMoves DEF Pcs, Writes
<1>3. TypeOK
  BY DEF IInv
<1>4. proc'[p] = r /\ Alias(p)' = Alias(p) /\ Cmd(p)' = Cmd(p)
  BY <1>2, <1>3, SameCommands DEF Dumped
<1>5. ASSUME OnTrack(p), proc[p].loaded.wb[Alias(p)] = Entry(p)
      PROVE  OnTrack(p)'
  <2>1. /\ Registered(p) /\ Entry(p).status # "healthy"
        /\ app[Alias(p)][proc[p].host] = "up"
    BY <1>1, <1>5 DEF OnTrack, At, After, Installing
  <2>2. /\ Entry(p)' = Entry(p) /\ ~r.reading /\ infra' = infra /\ app' = app
        /\ cfg'.wb[Alias(p)] = Entry(p)
    BY <1>2, <1>4, <1>5 DEF Entry, Dumped
  <2>3. Registered(p)'
    BY <1>2, <1>4, <2>1, <2>2 DEF Registered, Alive
  <2>4. Answered(Alias(p))'
    BY <1>4, <2>1, <2>2 DEF Answered, Registered
  <2> QED
    BY <1>2, <1>4, <2>1, <2>2, <2>3, <2>4 DEF OnTrack, At, Before, After, Installing
<1> QED
  BY <1>2, <1>5, DumpKeeps DEF Making

LEMMA RemoveKeeps ==
    ASSUME IInv, NEW p \in Procs, RemoveEntry(p)
    PROVE  IInv'
<1> DEFINE old == proc[p].loaded
           new == IF old.wb[Alias(p)] = NoEntry THEN cfg ELSE Removed(old, Alias(p))
<1>1. At(p, "remove") /\ Dump(p, new, "done")
  BY DEF RemoveEntry
<1>2. PICK r : /\ Dumped(p, new, r) /\ r.pc = "done"
               /\ proc[p].pc \in Writes /\ old \in Configs
  BY <1>1, DumpMoves DEF Pcs
<1>3. TypeOK /\ Alias(p) \in Aliases /\ cfg \in Configs
  BY ProcessFacts DEF IInv
<1>4. Removed(old, Alias(p)) \in Configs
  BY <1>2, Constants DEF Removed, Configs
<1>5. /\ new \in Configs
      /\ \A b \in Aliases \ {Alias(p)} : new.wb[b] \in {cfg.wb[b], old.wb[b]}
      /\ old.wb[Alias(p)] = Entry(p) => new.wb[Alias(p)] = NoEntry
  BY <1>2, <1>3, <1>4 DEF Removed, Configs, Entry
<1> HIDE DEF new
<1>6. proc'[p] = r /\ Alias(p)' = Alias(p)
  BY <1>2, <1>3, SameCommands DEF Dumped
<1>7. ASSUME OnTrack(p), old.wb[Alias(p)] = Entry(p)
      PROVE  OnTrack(p)'
  <2>1. infra[Alias(p)] = Nothing
    BY <1>1, <1>7 DEF OnTrack
  <2>2. Synced(Alias(p))' /\ Earned(Alias(p))' /\ ~r.reading
    BY <1>2, <1>5, <1>6, <1>7, <2>1 DEF Synced, Earned, NoEntry, Dumped
  <2> QED
    BY <1>2, <1>6, <2>2 DEF OnTrack, At, Before, After, Installing
<1> QED
  BY <1>2, <1>5, <1>7, DumpKeeps DEF Making

(***************************************************************************)
(* Terraform                                                               *)
(***************************************************************************)

\* From Terraform to the registration of the host it answered with.
LEMMA InfraDone ==
    ASSUME IInv, NEW p \in Procs, NEW r, Moved(p, r), TypeOK', Room',
           cfg' = cfg, app' = app, ~r.reading, r.pc = "register",
           r.host = infra'[Alias(p)].vm, r.host # Nowhere,
           \A b \in Aliases \ {Alias(p)} : infra'[b] = infra[b],
           clean' = IF Others(p) = {} THEN clean \cup {Alias(p)} ELSE clean
    PROVE  IInv'
<1>1. proc'[p] = r /\ Alias(p)' = Alias(p) /\ Cmd(p)' = Cmd(p)
  BY SameCommands DEF IInv
<1>2. ProcessInv(p)'
  BY <1>1 DEF ProcessInv, At
<1>3. Alias(p) \in clean' => Others(p) = {}
  BY Alone DEF Moved
<1>4. OnTrack(p)'
  BY <1>1 DEF OnTrack, At, Before, After, Installing, Alive
<1> QED
  BY <1>2, <1>3, <1>4, Frame

LEMMA PlanKeeps ==
    ASSUME IInv, NEW p \in Procs, Plan(p)
    PROVE  IInv'
<1>1. TypeOK /\ Room /\ ProcessInv(p) /\ At(p, "plan")
  BY DEF IInv, Plan
<1>2. /\ proc[p] \in Processes /\ Alias(p) \in Aliases /\ infra[Alias(p)].vm \in Vms \cup {Nowhere}
      /\ infra[Alias(p)].vm \in Hosts /\ ~proc[p].reading
  <2>1. proc[p] \in Processes /\ Alias(p) \in Aliases /\ infra[Alias(p)] \in Clouds
    BY <1>1, ProcessFacts
  <2> QED
    BY <1>1, <2>1 DEF Clouds, Hosts, ProcessInv, At, Writes
<1>3. CASE /\ Fits(p)
           /\ proc' = [proc EXCEPT ![p].pc = "register", ![p].host = infra[Alias(p)].vm]
           /\ clean' = IF Others(p) = {} THEN clean \cup {Alias(p)} ELSE clean
           /\ UNCHANGED <<cfg, infra, app, born, given, kills>>
  <2> DEFINE r == [proc[p] EXCEPT !.pc = "register", !.host = infra[Alias(p)].vm]
  <2>1. /\ r \in Processes /\ r.cmd = proc[p].cmd /\ r.pc = "register" /\ ~r.reading
        /\ r.host = infra[Alias(p)].vm
    BY <1>2 DEF Processes, Pcs, Writes
  <2>2. Moved(p, r)
    BY <1>1, <1>3, <2>1 DEF Moved, At
  <2> HIDE DEF r
  <2>3. r.host # Nowhere
    BY <1>3, <2>1 DEF Fits
  <2>4. TypeOK'
    <3>1. /\ cfg \in Configs /\ infra \in [Aliases -> Clouds] /\ born \in 0..MaxCommands
          /\ app \in [Aliases -> [Hosts -> {"none", "up", "down"}]] /\ clean' \subseteq Aliases
      BY <1>1, <1>2, <1>3 DEF TypeOK, Clouds
    <3> QED
      BY <1>1, <1>3, <2>2, <3>1, TypeMoved
  <2>5. Room'
    BY <1>1, <1>3, <2>1, <2>2, MovedRoom DEF Making
  <2> QED
    BY <1>3, <2>1, <2>2, <2>3, <2>4, <2>5, InfraDone
<1>4. CASE /\ ~Fits(p) /\ (infra[Alias(p)].vm = Nowhere \/ Cmd(p).replace)
           /\ proc' = [proc EXCEPT ![p].pc = "apply", ![p].seen = infra[Alias(p)].vm]
           /\ UNCHANGED clean
           /\ UNCHANGED <<cfg, infra, app, born, given, kills>>
  <2> DEFINE r == [proc[p] EXCEPT !.pc = "apply", !.seen = infra[Alias(p)].vm]
  <2>1. /\ r \in Processes /\ r.cmd = proc[p].cmd /\ r.pc = "apply" /\ ~r.reading
        /\ r.seen = infra[Alias(p)].vm
    BY <1>2 DEF Processes, Pcs, Writes
  <2>2. Moved(p, r)
    BY <1>1, <1>4, <2>1 DEF Moved, At
  <2> HIDE DEF r
  <2> QED
    BY <1>1, <1>4, <2>1, <2>2, HopBefore DEF Before, Making, Step, At
<1>5. CASE Goto(p, "error") /\ UNCHANGED clean /\ UNCHANGED <<cfg, infra, app, born, given, kills>>
  <2> DEFINE r == [proc[p] EXCEPT !.pc = "error"]
  <2>1. r \in Processes /\ r.cmd = proc[p].cmd /\ r.pc = "error" /\ ~r.reading
    BY <1>2 DEF Processes, Pcs, Writes
  <2>2. Moved(p, r)
    BY <1>1, <1>5, <2>1 DEF Moved, At, Goto
  <2> HIDE DEF r
  <2> QED
    BY <1>1, <1>5, <2>1, <2>2, HopBefore DEF Before, Making, Step, At
<1> QED
  BY <1>3, <1>4, <1>5 DEF Plan

\* A Terraform that fails leaves the alias out of clean, whatever it did to its cloud.
LEMMA TerraformFails ==
    ASSUME IInv, TypeOK', Room', NEW p \in Procs, NEW r, Moved(p, r),
           r.pc = "error", ~r.reading, cfg' = cfg, app' = app, Disturbed(p),
           \A b \in Aliases \ {Alias(p)} : infra'[b] = infra[b]
    PROVE  IInv'
<1>1. proc'[p] = r /\ Alias(p)' = Alias(p) /\ Cmd(p)' = Cmd(p)
  BY SameCommands DEF IInv
<1>2. ProcessInv(p)'
  BY <1>1 DEF ProcessInv, At
<1> QED
  BY <1>2, Frame DEF Disturbed

\* A new VM has a name of its own.
LEMMA NewVmFits ==
    ASSUME IInv, NEW p \in Procs, At(p, "apply")
    PROVE  /\ NewVm(p) \in Clouds /\ NewVm(p).vm = born + 1
           /\ born + 1 \in Vms /\ born + 1 \in 0..MaxCommands /\ p \in Makers
<1>1. p \in Makers /\ TypeOK /\ Room
  BY DEF Makers, Making, At, IInv
<1>2. born + 1 \in Vms /\ born + 1 \in 0..MaxCommands
  BY <1>1, NameLeft
<1> QED
  BY <1>1, <1>2, ProcessFacts DEF NewVm, Clouds, CommandLines, Cmd

\* What an apply, finished or not, may do to the cloud.
LEMMA InfraTyped ==
    ASSUME IInv, NEW p \in Procs, At(p, "apply"),
           \/ UNCHANGED <<infra, born>>
           \/ infra' = [infra EXCEPT ![Alias(p)] = NewVm(p)] /\ born' = born + 1
           \/ infra' = [infra EXCEPT ![Alias(p)] = [Nothing EXCEPT !.parts = TRUE]]
              /\ born' = born
    PROVE  /\ infra' \in [Aliases -> Clouds] /\ born' \in 0..MaxCommands
           /\ born' \in {born, born + 1}
           /\ \A b \in Aliases \ {Alias(p)} : infra'[b] = infra[b]
<1>1. infra \in [Aliases -> Clouds] /\ born \in 0..MaxCommands /\ TypeOK
  BY DEF IInv, TypeOK, Clouds
<1>2. [Nothing EXCEPT !.parts = TRUE] \in Clouds
  BY Constants DEF Clouds
<1> QED
  BY <1>1, <1>2, NewVmFits

LEMMA SpentRoom ==
    ASSUME IInv, NEW p \in Procs, At(p, "apply"), NEW r, Moved(p, r), r.pc \notin Making,
           born' \in {born, born + 1}, given' = given
    PROVE  Room'
<1>1. TypeOK /\ Room
  BY DEF IInv
<1>2. Makers' \subseteq Makers \ {p}
  BY <1>1, SameCommands DEF Makers
<1> QED
  BY <1>1, <1>2, NewVmFits, RoomSpent

LEMMA ApplyKeeps ==
    ASSUME IInv, NEW p \in Procs, Apply(p)
    PROVE  IInv'
<1>1. TypeOK /\ Room /\ ProcessInv(p) /\ At(p, "apply")
  BY DEF IInv, Apply
<1>2. /\ proc[p] \in Processes /\ Alias(p) \in Aliases /\ infra[Alias(p)] \in Clouds
      /\ ~proc[p].reading
      /\ app \in [Aliases -> [Hosts -> {"none", "up", "down"}]] /\ clean \subseteq Aliases
      /\ cfg \in Configs
  BY <1>1, ProcessFacts DEF TypeOK, ProcessInv, At, Writes
<1>3. CASE /\ IF Fits(p) THEN UNCHANGED <<infra, born>>
              ELSE infra' = [infra EXCEPT ![Alias(p)] = NewVm(p)] /\ born' = born + 1
           /\ proc' = [proc EXCEPT ![p].pc = "register", ![p].host = infra'[Alias(p)].vm]
           /\ clean' = IF Others(p) = {} THEN clean \cup {Alias(p)} ELSE clean
           /\ UNCHANGED <<cfg, app, given, kills>>
  <2> DEFINE r == [proc[p] EXCEPT !.pc = "register", !.host = infra'[Alias(p)].vm]
  <2>1. /\ infra' \in [Aliases -> Clouds] /\ born' \in 0..MaxCommands
        /\ born' \in {born, born + 1}
        /\ \A b \in Aliases \ {Alias(p)} : infra'[b] = infra[b]
    BY <1>1, <1>3, InfraTyped
  <2>2. infra'[Alias(p)].vm \in Hosts /\ infra'[Alias(p)].vm # Nowhere
    <3>1. infra'[Alias(p)].vm \in Hosts
      BY <1>2, <2>1 DEF Clouds, Hosts
    <3>2. CASE Fits(p)
      BY <1>3, <3>1, <3>2 DEF Fits
    <3>3. CASE ~Fits(p)
      <4>1. infra'[Alias(p)] = NewVm(p)
        BY <1>1, <1>2, <1>3, <3>3 DEF TypeOK
      <4>2. NewVm(p).vm \in Vms
        BY <1>1, NewVmFits
      <4>3. 0 \notin Vms
        BY BoundAssumption DEF Vms
      <4> QED
        BY <3>1, <4>1, <4>2, <4>3 DEF Nowhere
    <3> QED
      BY <3>2, <3>3
  <2>3. /\ r \in Processes /\ r.cmd = proc[p].cmd /\ r.pc = "register" /\ ~r.reading
        /\ r.host = infra'[Alias(p)].vm
    BY <1>2, <2>2 DEF Processes, Pcs, Writes
  <2>4. Moved(p, r)
    BY <1>1, <1>3, <2>3 DEF Moved, At
  <2> HIDE DEF r
  <2>5. TypeOK'
    BY <1>1, <1>2, <1>3, <2>1, <2>4, TypeMoved
  <2>6. Room'
    BY <1>1, <1>3, <2>1, <2>3, <2>4, SpentRoom DEF Making
  <2> QED
    BY <1>3, <2>1, <2>2, <2>3, <2>4, <2>5, <2>6, InfraDone
<1>4. CASE Unfinished(p) /\ Goto(p, "error") /\ Disturbed(p) /\ UNCHANGED <<cfg, app, given, kills>>
  <2> DEFINE r == [proc[p] EXCEPT !.pc = "error"]
  <2>1. /\ infra' \in [Aliases -> Clouds] /\ born' \in 0..MaxCommands
        /\ born' \in {born, born + 1}
        /\ \A b \in Aliases \ {Alias(p)} : infra'[b] = infra[b]
    BY <1>1, <1>4, InfraTyped DEF Unfinished
  <2>2. r \in Processes /\ r.cmd = proc[p].cmd /\ r.pc = "error" /\ ~r.reading
    BY <1>2 DEF Processes, Pcs, Writes
  <2>3. Moved(p, r)
    BY <1>1, <1>4, <2>2 DEF Moved, At, Goto
  <2> HIDE DEF r
  <2>4. TypeOK'
    BY <1>1, <1>2, <1>4, <2>1, <2>3, TypeMoved DEF Disturbed
  <2>5. Room'
    BY <1>1, <1>4, <2>1, <2>2, <2>3, SpentRoom DEF Making
  <2> QED
    BY <1>4, <2>1, <2>2, <2>3, <2>4, <2>5, TerraformFails
<1> QED
  BY <1>3, <1>4 DEF Apply

LEMMA DestroyKeeps ==
    ASSUME IInv, NEW p \in Procs, Destroy(p)
    PROVE  IInv'
<1>1. TypeOK /\ Room /\ ProcessInv(p) /\ At(p, "destroy")
  BY DEF IInv, Destroy
<1>2. /\ proc[p] \in Processes /\ Alias(p) \in Aliases /\ ~proc[p].reading
      /\ app \in [Aliases -> [Hosts -> {"none", "up", "down"}]] /\ clean \subseteq Aliases
      /\ cfg \in Configs /\ born \in 0..MaxCommands /\ infra \in [Aliases -> Clouds]
  BY <1>1, ProcessFacts DEF TypeOK, ProcessInv, At, Writes, Clouds
<1>3. /\ infra' \in [Aliases -> Clouds] /\ clean' \subseteq Aliases
      /\ UNCHANGED <<cfg, app, born, given, kills>>
      /\ \A b \in Aliases \ {Alias(p)} : infra'[b] = infra[b]
  <2>1. [Nothing EXCEPT !.parts = TRUE] \in Clouds /\ Nothing \in Clouds
    BY Constants DEF Clouds
  <2> QED
    BY <1>2, <2>1 DEF Destroy, Disturbed
<1>4. ASSUME NEW pc \in {"remove", "error"}, Goto(p, pc),
             Alias(p) \in clean' => pc = "remove" /\ infra'[Alias(p)] = Nothing,
             clean' \subseteq clean
      PROVE  IInv'
  <2> DEFINE r == [proc[p] EXCEPT !.pc = pc]
  <2>1. r \in Processes /\ r.cmd = proc[p].cmd /\ r.pc = pc /\ ~r.reading
    BY <1>2 DEF Processes, Pcs, Writes
  <2>2. Moved(p, r)
    BY <1>1, <1>4, <2>1 DEF Moved, At, Goto
  <2> HIDE DEF r
  <2>3. proc'[p] = r /\ Alias(p)' = Alias(p) /\ Cmd(p)' = Cmd(p)
    BY <1>1, <2>2, SameCommands
  <2>4. TypeOK'
    BY <1>1, <1>2, <1>3, <2>2, TypeMoved
  <2>5. Room'
    BY <1>1, <1>3, <2>1, <2>2, MovedRoom DEF Making
  <2>6. ProcessInv(p)'
    BY <2>1, <2>3 DEF ProcessInv, At
  <2>7. Alias(p) \in clean' => Others(p) = {} /\ OnTrack(p)'
    BY <1>4, <2>1, <2>2, <2>3, Alone DEF OnTrack, At, Before, After, Installing, Moved
  <2> QED
    BY <1>3, <1>4, <2>2, <2>4, <2>5, <2>6, <2>7, Frame
<1>5. CASE infra' = [infra EXCEPT ![Alias(p)] = Nothing] /\ Goto(p, "remove") /\ UNCHANGED clean
  BY <1>2, <1>4, <1>5
<1>6. CASE Goto(p, "remove") /\ Disturbed(p)
  BY <1>4, <1>6 DEF Disturbed
<1>7. CASE Goto(p, "error") /\ Disturbed(p)
  BY <1>4, <1>7 DEF Disturbed
<1> QED
  BY <1>5, <1>6, <1>7 DEF Destroy

(***************************************************************************)
(* The other steps                                                         *)
(***************************************************************************)

\* A command that runs, and the same command elsewhere.
LEMMA MoveTo ==
    ASSUME IInv, NEW p \in Procs, NEW pc \in Pcs \ {"idle"}, Goto(p, pc), ~At(p, "idle"),
           proc[p].pc \notin Writes
    PROVE  \E r : Moved(p, r) /\ r.pc = pc /\ r.host = proc[p].host /\ ~r.reading
<1> DEFINE r == [proc[p] EXCEPT !.pc = pc]
<1>1. proc[p] \in Processes /\ ~proc[p].reading
  BY ProcessFacts DEF IInv, ProcessInv
<1>2. r \in Processes /\ r.cmd = proc[p].cmd /\ r.pc = pc /\ ~r.reading /\ r.host = proc[p].host
  BY <1>1 DEF Processes
<1> QED
  BY <1>2 DEF Moved, Goto

LEMMA GotoBefore ==
    ASSUME IInv, NEW p \in Procs, NEW pc \in Before \ {"backend", "classify", "destroy", "apply"},
           Goto(p, pc), Step(p), proc[p].pc \in Before \ Writes,
           pc \in Making => proc[p].pc \in Making
    PROVE  IInv'
<1>1. pc \in Pcs \ {"idle"} /\ ~At(p, "idle")
  BY DEF Before, Pcs, Writes, At
<1>2. PICK r : Moved(p, r) /\ r.pc = pc /\ r.host = proc[p].host /\ ~r.reading
  BY <1>1, MoveTo
<1> QED
  BY <1>2, HopBefore

LEMMA GotoAfter ==
    ASSUME IInv, NEW p \in Procs, NEW pc \in After, Goto(p, pc), Step(p),
           proc[p].pc \in After \ Writes,
           pc \in Installing => proc[p].pc \in Installing,
           pc \in {"strategy", "mark"} => Serving(p)
    PROVE  IInv'
<1>1. pc \in Pcs \ {"idle"} /\ ~At(p, "idle")
  BY DEF After, Installing, Pcs, Writes, At
<1>2. PICK r : Moved(p, r) /\ r.pc = pc /\ r.host = proc[p].host /\ ~r.reading
  BY <1>1, MoveTo
<1> QED
  BY <1>2, HopAfter DEF Serving

\* Where the destruction will go on, and in which bucket.
LEMMA GotoDestroy ==
    ASSUME IInv, NEW p \in Procs, NEW bucket \in {"own", "other"}, Step(p),
           proc' = [proc EXCEPT ![p].pc = "destroy", ![p].bucket = bucket],
           proc[p].pc \in {"backend", "classify"}, Cmd(p).op # "deploy"
    PROVE  IInv'
<1> DEFINE r == [proc[p] EXCEPT !.pc = "destroy", !.bucket = bucket]
<1>1. proc[p] \in Processes /\ ~proc[p].reading
  BY ProcessFacts DEF IInv, ProcessInv, Writes
<1>2. r \in Processes /\ r.cmd = proc[p].cmd /\ r.pc = "destroy" /\ ~r.reading
  BY <1>1 DEF Processes, Pcs
<1>3. Moved(p, r)
  BY <1>2 DEF Moved, At
<1> HIDE DEF r
<1> QED
  BY <1>2, <1>3, HopBefore DEF Before, Making

LEMMA BootstrapKeeps ==
    ASSUME IInv, NEW p \in Procs, Bootstrap(p)
    PROVE  IInv'
BY GotoBefore DEF Bootstrap, Before, Writes, Making, At

LEMMA ReadKeeps ==
    ASSUME IInv, NEW p \in Procs, NEW fromState \in BOOLEAN, Read(p, fromState)
    PROVE  IInv'
<1>1. At(p, "read") /\ Step(p) /\ TypeOK /\ ProcessInv(p)
  BY DEF Read, IInv
<1>2. CASE Goto(p, "error")
  BY <1>1, <1>2, GotoBefore DEF Before, Writes, Making, At
<1>3. ASSUME NEW h \in IF Cmd(p).runtime = "byovm" THEN {Byo}
                       ELSE {Entry(p).host} \cup
                            (IF fromState THEN {infra[Alias(p)].vm} ELSE {}),
             h # Nowhere,
             proc' = [proc EXCEPT ![p].pc = "register", ![p].host = h]
      PROVE  IInv'
  <2> DEFINE r == [proc[p] EXCEPT !.pc = "register", !.host = h]
  <2>1. /\ proc[p] \in Processes /\ ~proc[p].reading /\ Entry(p) \in Entries
        /\ infra[Alias(p)] \in Clouds
    BY <1>1, ProcessFacts DEF ProcessInv, At, Writes
  <2>2. h \in Hosts
    BY <1>3, <2>1, Constants DEF Entries, Clouds, Hosts, Byo
  <2>3. r \in Processes /\ r.cmd = proc[p].cmd /\ r.pc = "register" /\ ~r.reading /\ r.host = h
    BY <2>1, <2>2 DEF Processes, Pcs, Writes
  <2>4. Moved(p, r)
    BY <1>1, <1>3, <2>3 DEF Moved, At
  <2> HIDE DEF r
  <2>5. proc'[p] = r /\ Alias(p)' = Alias(p)
    BY <1>1, <2>4, SameCommands
  <2>6. Synced(Alias(p)) => Alive(Alias(p), h)
    BY <1>3 DEF Synced, Alive, Entry, NoEntry
  <2>7. OnTrack(p) => OnTrack(p)'
    <3>1. OnTrack(p) => Alive(Alias(p), h)
      BY <1>1, <2>6 DEF OnTrack, At, Before
    <3>2. Alive(Alias(p), h) => (\A g : g = h => Alive(Alias(p), g)')
      BY <1>1, <2>5 DEF Step, Alive
    <3> QED
      BY <2>3, <2>5, <3>1, <3>2 DEF OnTrack, At, Before, After, Installing
  <2> QED
    BY <1>1, <2>3, <2>4, <2>7, HopKeeps DEF Making
<1> QED
  BY <1>1, <1>2, <1>3 DEF Read

\* The server is started again, or not.
LEMMA InstallKeeps ==
    ASSUME IInv, NEW p \in Procs, NEW pc \in {"health", "installed", "mark"}, Install(p, pc),
           pc = "mark" => Cmd(p).tool \in {"genesis", "isaac"}
    PROVE  IInv'
<1>1. /\ At(p, "install") /\ TypeOK /\ Room /\ ProcessInv(p)
      /\ UNCHANGED <<cfg, infra, born, given, kills, clean>>
  BY DEF Install, IInv
<1>2. /\ proc[p] \in Processes /\ Alias(p) \in Aliases /\ clean \subseteq Aliases
      /\ app \in [Aliases -> [Hosts -> {"none", "up", "down"}]]
      /\ cfg \in Configs /\ born \in 0..MaxCommands /\ infra \in [Aliases -> Clouds]
  BY <1>1, ProcessFacts DEF TypeOK, Clouds
<1>3. PICK to \in {pc, "failed"} : Goto(p, to)
  BY DEF Install
<1>4. /\ app' \in [Aliases -> [Hosts -> {"none", "up", "down"}]]
      /\ \A b \in Aliases \ {Alias(p)} : app'[b] = app[b]
  BY <1>2 DEF Install
<1>5. to \in After \cap Pcs /\ to # "idle" /\ to \notin Making
  BY DEF After, Installing, Pcs, Writes, Making
<1>6. PICK r : Moved(p, r) /\ r.pc = to /\ r.host = proc[p].host /\ ~r.reading
  BY <1>1, <1>3, <1>5, MoveTo DEF At, Writes
<1>7. proc'[p] = r /\ Alias(p)' = Alias(p) /\ Cmd(p)' = Cmd(p)
  BY <1>1, <1>6, SameCommands
<1>8. TypeOK'
  BY <1>1, <1>2, <1>4, <1>6, TypeMoved
<1>9. Room'
  BY <1>1, <1>5, <1>6, MovedRoom
<1>10. ProcessInv(p)'
  BY <1>6, <1>7 DEF ProcessInv, At
<1>11. ASSUME OnTrack(p) PROVE OnTrack(p)'
  <2>1. Registered(p) /\ Entry(p).status # "healthy"
    BY <1>1, <1>11 DEF OnTrack, At, After, Installing
  <2>2. Entry(p)' = Entry(p) /\ Entry(p) = cfg'.wb[Alias(p)]
    BY <1>1, <1>7 DEF Entry
  <2>3. Registered(p)'
    BY <1>1, <1>6, <1>7, <2>1, <2>2 DEF Registered, Alive
  <2>4. to = "mark" => Answered(Alias(p))'
    BY <1>7, <2>1, <2>2 DEF Answered, Registered
  <2> QED
    BY <1>6, <1>7, <2>1, <2>2, <2>3, <2>4 DEF OnTrack, At, Before, After, Installing
<1> QED
  BY <1>1, <1>4, <1>6, <1>8, <1>9, <1>10, <1>11, Alone, Frame DEF Moved

\* groot brings new credentials to the server that the entry names.
LEMMA EnvKeeps ==
    ASSUME IInv, NEW p \in Procs, GrootEnvUpdate(p)
    PROVE  IInv'
<1>1. /\ At(p, "env") /\ TypeOK /\ Room /\ ProcessInv(p)
      /\ UNCHANGED <<cfg, infra, born, given, kills>>
  BY DEF GrootEnvUpdate, IInv
<1>2. /\ proc[p] \in Processes /\ Alias(p) \in Aliases /\ clean \subseteq Aliases
      /\ app \in [Aliases -> [Hosts -> {"none", "up", "down"}]] /\ Entry(p).host \in Hosts
      /\ cfg \in Configs /\ born \in 0..MaxCommands /\ infra \in [Aliases -> Clouds]
  BY <1>1, ProcessFacts DEF TypeOK, Clouds, Entries
<1>3. PICK to \in {"done", "error"} :
          /\ Goto(p, to)
          /\ \/ /\ to = "done" /\ clean' = clean
                /\ app' = [app EXCEPT ![Alias(p)][Entry(p).host] = "up"]
             \/ Disturbed(p)
  BY DEF GrootEnvUpdate
<1>4. /\ app' \in [Aliases -> [Hosts -> {"none", "up", "down"}]]
      /\ \A b \in Aliases \ {Alias(p)} : app'[b] = app[b]
      /\ clean' \subseteq clean
  BY <1>2 DEF GrootEnvUpdate, Disturbed
<1>5. to \in Before /\ to \in Pcs /\ to # "idle" /\ to \notin Making
  BY DEF Before, Pcs, Writes, Making
<1>6. PICK r : Moved(p, r) /\ r.pc = to /\ r.host = proc[p].host /\ ~r.reading
  BY <1>1, <1>3, <1>5, MoveTo DEF At, Writes
<1>7. proc'[p] = r /\ Alias(p)' = Alias(p) /\ Cmd(p)' = Cmd(p)
  BY <1>1, <1>6, SameCommands
<1>8. TypeOK'
  BY <1>1, <1>2, <1>4, <1>6, TypeMoved
<1>9. Room'
  BY <1>1, <1>5, <1>6, MovedRoom
<1>10. ProcessInv(p)'
  BY <1>6, <1>7 DEF ProcessInv, At
<1>11. ASSUME OnTrack(p), app' = [app EXCEPT ![Alias(p)][Entry(p).host] = "up"]
       PROVE  OnTrack(p)'
  <2>1. Synced(Alias(p))
    BY <1>1, <1>11 DEF OnTrack, At, Before
  <2>2. Synced(Alias(p))'
    BY <1>1, <1>7, <2>1 DEF Synced, Alive
  <2>3. Earned(Alias(p))'
    BY <1>1, <1>2, <1>7, <1>11 DEF Earned, Answered, Entry
  <2> QED
    BY <1>6, <1>7, <2>2, <2>3 DEF OnTrack, At, Before, After, Installing
<1>12. Alias(p) \in clean' => Others(p) = {} /\ OnTrack(p)'
  BY <1>1, <1>3, <1>4, <1>6, <1>11, Alone DEF Disturbed, Moved
<1> QED
  BY <1>1, <1>4, <1>6, <1>8, <1>9, <1>10, <1>12, Frame

LEMMA ClassifyKeeps ==
    ASSUME IInv, NEW p \in Procs, Classify(p)
    PROVE  IInv'
<1>1. /\ At(p, "classify") /\ Step(p) /\ cfg \in Configs
      /\ Cmd(p).op # "deploy"
  BY ProcessFacts DEF Classify, IInv, ProcessInv, At
<1>2. CASE Goto(p, "done") \/ Goto(p, "error")
  BY <1>1, <1>2, GotoBefore DEF Before, Writes, Making, At
<1>3. CASE /\ cfg.saved # "none"
           /\ proc' = [proc EXCEPT ![p].pc = "destroy", ![p].bucket = cfg.saved]
  <2>1. cfg.saved \in {"own", "other"}
    BY <1>1, <1>3 DEF Configs
  <2> QED
    BY <1>1, <1>3, <2>1, GotoDestroy DEF At
<1> QED
  BY <1>1, <1>2, <1>3 DEF Classify

(***************************************************************************)
(* The life of a command                                                   *)
(***************************************************************************)

LEMMA StartKeeps ==
    ASSUME IInv, NEW p \in Procs, Start(p)
    PROVE  IInv'
<1>1. PICK c \in Commands :
        /\ proc' = [proc EXCEPT ![p] = [Idle EXCEPT !.cmd = c,
              !.pc = CASE c.op = "cleanup" -> "classify"
                       [] c.op = "deploy" -> "gate"
                       [] OTHER -> IF c.runtime = "byovm" THEN "remove" ELSE "bootstrap"]]
        /\ clean' = IF \/ \E q \in Procs : ~At(q, "idle") /\ Alias(q) = c.alias
                       \/ c.op = "destroy" /\ c.runtime = "byovm" /\ infra[c.alias] # Nothing
                    THEN clean \ {c.alias} ELSE clean
  BY DEF Start
<1>2. /\ At(p, "idle") /\ given < MaxCommands /\ given' = given + 1
      /\ UNCHANGED <<cfg, infra, app, born, kills>>
  BY DEF Start
<1>3. TypeOK /\ Room /\ c \in CommandLines
  BY CommandAssumption DEF IInv
<1> DEFINE pc == CASE c.op = "cleanup" -> "classify"
                   [] c.op = "deploy" -> "gate"
                   [] OTHER -> IF c.runtime = "byovm" THEN "remove" ELSE "bootstrap"
           r == [Idle EXCEPT !.cmd = c, !.pc = pc]
<1>4. /\ pc \in {"classify", "gate", "remove", "bootstrap"}
      /\ pc = "classify" => c.op # "deploy"
      /\ pc = "remove" => c.op = "destroy" /\ c.runtime = "byovm"
  BY <1>3 DEF CommandLines
<1> HIDE DEF pc
<1>5. r \in Processes /\ r.cmd = c /\ r.pc = pc /\ ~r.reading
  <2>1. pc \in Pcs
    BY <1>4 DEF Pcs, Writes
  <2> QED
    BY <1>3, <2>1, Constants DEF Processes
<1>6. proc' = [proc EXCEPT ![p] = r] /\ proc \in [Procs -> Processes]
  BY <1>1, <1>3 DEF TypeOK, pc
<1> HIDE DEF r
<1>7. /\ proc'[p] = r /\ \A q \in Procs \ {p} : proc'[q] = proc[q]
      /\ proc' \in [Procs -> Processes]
  BY <1>5, <1>6
<1>8. /\ Cmd(p)' = c /\ Alias(p)' = c.alias /\ ~At(p, "idle")'
      /\ \A q \in Procs \ {p} : /\ Cmd(q)' = Cmd(q) /\ Alias(q)' = Alias(q)
                                /\ At(q, "idle")' <=> At(q, "idle")
  BY <1>4, <1>5, <1>7 DEF Cmd, Alias, At
<1>9. TypeOK'
  <2>1. \A q \in Procs : At(q, "idle")' => proc'[q] = Idle
    BY <1>3, <1>7, <1>8 DEF TypeOK
  <2>2. given' \in 0..MaxCommands
    BY <1>2, <1>3, BoundAssumption DEF TypeOK
  <2>3. clean' \subseteq Aliases
    BY <1>1, <1>3 DEF TypeOK
  <2> QED
    BY <1>2, <1>3, <1>7, <2>1, <2>2, <2>3 DEF TypeOK
<1>10. Room'
  <2>1. Makers' \subseteq Makers \cup {p}
    BY <1>7 DEF Makers
  <2> QED
    BY <1>2, <1>3, <2>1, RoomMade
<1>11. \A q \in Procs : ProcessInv(q)'
  <2>1. ProcessInv(p)'
    BY <1>4, <1>5, <1>7, <1>8 DEF ProcessInv, At
  <2>2. ASSUME NEW q \in Procs \ {p} PROVE ProcessInv(q)'
    BY <1>7, <1>8 DEF ProcessInv, At, IInv
  <2> QED
    BY <2>1, <2>2
<1>12. ASSUME NEW b \in Aliases PROVE AliasInv(b)'
  <2> SUFFICES ASSUME b \in clean' PROVE AliasInv(b)'
    BY DEF AliasInv
  <2>1. b \in clean /\ AliasInv(b)
    BY <1>1 DEF IInv
  <2>2. /\ Synced(b)' <=> Synced(b)
        /\ Earned(b)' <=> Earned(b)
    BY <1>2 DEF Synced, Earned, Answered, Alive
  <2>3. CASE b = c.alias
    <3>1. /\ \A q \in Procs : At(q, "idle") \/ Alias(q) # b
          /\ pc = "remove" => infra[b] = Nothing
      BY <1>1, <1>4, <2>3
    <3>2. Synced(b) /\ Earned(b)
      BY <2>1, <3>1 DEF AliasInv, Quiet
    <3>3. Others(p)' = {}
      BY <1>8, <2>3, <3>1 DEF Others
    <3>4. OnTrack(p)'
      BY <1>2, <1>4, <1>5, <1>7, <1>8, <2>2, <2>3, <3>1, <3>2
      DEF OnTrack, At, Before, After, Installing
    <3>5. ~Quiet(b)'
      BY <1>8, <2>3 DEF Quiet
    <3>6. \A q \in Procs : ~At(q, "idle")' /\ Alias(q)' = b => q = p
      BY <1>8, <3>1
    <3> QED
      BY <3>3, <3>4, <3>5, <3>6 DEF AliasInv
  <2>4. CASE b # c.alias
    <3>1. Quiet(b)' => Quiet(b)
      BY <1>2, <1>8, <2>4 DEF Quiet
    <3>2. ASSUME NEW q \in Procs, ~At(q, "idle")', Alias(q)' = b
          PROVE  Others(q)' = {} /\ OnTrack(q)'
      <4>1. q # p /\ proc'[q] = proc[q] /\ Cmd(q)' = Cmd(q) /\ Alias(q)' = Alias(q)
        BY <1>7, <1>8, <2>4, <3>2
      <4>2. Others(q) = {} /\ OnTrack(q)
        BY <1>8, <2>1, <3>2, <4>1 DEF AliasInv
      <4>3. Others(q)' = {}
        BY <1>8, <2>4, <3>2, <4>1, <4>2 DEF Others
      <4>4. OnTrack(q)'
        BY <1>2, <2>2, <3>2, <4>1, <4>2 DEF OnTrack, At, Registered, Entry, Alive, Answered,
           Synced, Earned
      <4> QED
        BY <4>3, <4>4
    <3> QED
      BY <2>1, <2>2, <3>1, <3>2 DEF AliasInv
  <2> QED
    BY <2>3, <2>4
<1> QED
  BY <1>9, <1>10, <1>11, <1>12 DEF IInv

\* A command that ends, or is killed, leaves the others' aliases alone, and its own as it was
\* between commands.
LEMMA LeaveKeeps ==
    ASSUME IInv, TypeOK', Room', NEW p \in Procs, ~At(p, "idle"),
           proc' = [proc EXCEPT ![p] = Idle], app' = app,
           NEW a \in Aliases, a = Alias(p),
           a \in clean' => Others(p) = {} /\ Synced(a)' /\ Earned(a)',
           \A b \in Aliases \ {a} :
               /\ infra'[b] = infra[b]
               /\ b \in clean' => b \in clean /\ cfg'.wb[b] = cfg.wb[b]
    PROVE  IInv'
<1>1. TypeOK
  BY DEF IInv
<1>2. /\ proc'[p] = Idle /\ \A q \in Procs \ {p} : proc'[q] = proc[q]
  BY <1>1 DEF TypeOK
<1>3. /\ At(p, "idle")'
      /\ \A q \in Procs \ {p} : /\ Cmd(q)' = Cmd(q) /\ Alias(q)' = Alias(q)
                                /\ At(q, "idle")' <=> At(q, "idle")
  BY <1>2, Constants DEF Cmd, Alias, At
<1>4. \A q \in Procs : ProcessInv(q)'
  <2>1. ProcessInv(p)'
    BY <1>2, Constants DEF ProcessInv, At
  <2>2. ASSUME NEW q \in Procs \ {p} PROVE ProcessInv(q)'
    BY <1>2, <1>3 DEF ProcessInv, At, IInv
  <2> QED
    BY <2>1, <2>2
<1>5. ASSUME NEW b \in Aliases PROVE AliasInv(b)'
  <2> SUFFICES ASSUME b \in clean' PROVE AliasInv(b)'
    BY DEF AliasInv
  <2>1. CASE b = a
    BY <1>3, <2>1 DEF AliasInv, Others
  <2>2. CASE b # a
    <3>1. /\ infra'[b] = infra[b] /\ app'[b] = app[b] /\ b \in clean
          /\ cfg'.wb[b] = cfg.wb[b] /\ AliasInv(b)
      BY <2>2 DEF IInv
    <3>2. /\ Synced(b)' <=> Synced(b)
          /\ Earned(b)' <=> Earned(b)
          /\ Answered(b)' <=> Answered(b)
          /\ \A h : Alive(b, h)' <=> Alive(b, h)
      BY <3>1 DEF Synced, Earned, Answered, Alive
    <3>3. Quiet(b)' => Quiet(b)
      BY <1>3, <2>2 DEF Quiet
    <3>4. ASSUME NEW q \in Procs, ~At(q, "idle")', Alias(q)' = b
          PROVE  Others(q)' = {} /\ OnTrack(q)'
      <4>1. q # p /\ proc'[q] = proc[q] /\ Cmd(q)' = Cmd(q) /\ Alias(q)' = Alias(q)
        BY <1>2, <1>3, <3>4
      <4>2. Others(q) = {} /\ OnTrack(q)
        BY <1>3, <3>1, <3>4, <4>1 DEF AliasInv
      <4>3. Others(q)' = {}
        BY <1>3, <4>1, <4>2 DEF Others
      <4>4. Entry(q)' = Entry(q)
        BY <3>1, <3>4, <4>1 DEF Entry
      <4>5. Registered(q)' <=> Registered(q)
        BY <3>2, <3>4, <4>1, <4>4 DEF Registered
      <4> QED
        BY <3>1, <3>2, <3>4, <4>1, <4>2, <4>3, <4>4, <4>5 DEF OnTrack, At
    <3> QED
      BY <3>1, <3>2, <3>3, <3>4 DEF AliasInv
  <2> QED
    BY <2>1, <2>2
<1> QED
  BY <1>4, <1>5 DEF IInv

LEMMA EndKeeps ==
    ASSUME IInv, NEW p \in Procs, End(p)
    PROVE  IInv'
<1>1. /\ proc[p].pc \in {"done", "error"} /\ proc' = [proc EXCEPT ![p] = Idle]
      /\ UNCHANGED <<cfg, infra, app, born, given, kills, clean>>
  BY DEF End, Step
<1>2. TypeOK /\ Room /\ ~At(p, "idle")
  BY <1>1 DEF IInv, At
<1>3. TypeOK'
  BY <1>1, <1>2, Constants DEF TypeOK, At
<1>4. Makers' \subseteq Makers
  BY <1>1, <1>2, Constants DEF Makers, Making, TypeOK
<1>5. Room'
  BY <1>1, <1>2, <1>4, RoomKept
<1>6. PICK a \in Aliases : a = Alias(p)
  BY <1>2, ProcessFacts
<1>7. ASSUME a \in clean'
      PROVE  Others(p) = {} /\ Synced(a)' /\ Earned(a)'
  <2>1. Others(p) = {} /\ Synced(a) /\ Earned(a)
    BY <1>1, <1>2, <1>6, <1>7, Alone DEF OnTrack, Before
  <2> QED
    BY <1>1, <2>1 DEF Synced, Earned, Answered, Alive
<1> QED
  BY <1>1, <1>2, <1>3, <1>5, <1>6, <1>7, LeaveKeeps

LEMMA KillKeeps ==
    ASSUME IInv, NEW p \in Procs, Kill(p)
    PROVE  IInv'
<1>1. /\ ~At(p, "idle") /\ kills < MaxKills /\ kills' = kills + 1
      /\ proc' = [proc EXCEPT ![p] = Idle] /\ UNCHANGED <<app, given>>
  BY DEF Kill
<1>2. TypeOK /\ Room
  BY DEF IInv
<1>3. \/ cfg' = cfg /\ clean' = clean \ {Alias(p)}
      \/ cfg' = EmptyConfig /\ clean' = {}
  BY DEF Kill, Disturbed
<1>4. /\ infra' \in [Aliases -> Clouds] /\ born' \in 0..MaxCommands
      /\ \A b \in Aliases \ {Alias(p)} : infra'[b] = infra[b]
      /\ born' = born \/ (p \in Makers /\ born' = born + 1)
  <2>1. infra \in [Aliases -> Clouds] /\ born \in 0..MaxCommands
    BY <1>2 DEF TypeOK, Clouds
  <2>2. CASE UNCHANGED <<infra, born>>
    BY <2>1, <2>2
  <2>3. CASE proc[p].pc = "apply" /\ Unfinished(p)
    BY <2>3, InfraTyped, NewVmFits DEF Unfinished, At
  <2>4. CASE /\ UNCHANGED born
             /\ infra' = [infra EXCEPT ![Alias(p)] = [Nothing EXCEPT !.parts = TRUE]]
    <3>1. [Nothing EXCEPT !.parts = TRUE] \in Clouds
      BY Constants DEF Clouds
    <3> QED
      BY <2>1, <2>4, <3>1
  <2> QED
    BY <2>2, <2>3, <2>4 DEF Kill
<1>5. Makers' \subseteq Makers \ {p}
  BY <1>1, <1>2, Constants DEF Makers, Making, TypeOK
<1>6. Room'
  <2>1. CASE p \in Makers
    BY <1>1, <1>2, <1>4, <1>5, <2>1, RoomSpent
  <2>2. CASE p \notin Makers
    BY <1>1, <1>2, <1>4, <1>5, <2>2, RoomKept
  <2> QED
    BY <2>1, <2>2
<1>7. TypeOK'
  <2>1. proc' \in [Procs -> Processes]
    BY <1>1, <1>2, Constants DEF TypeOK
  <2>2. \A q \in Procs : At(q, "idle")' => proc'[q] = Idle
    BY <1>1, <1>2 DEF TypeOK, At
  <2>3. cfg' \in Configs /\ clean' \subseteq Aliases
    BY <1>2, <1>3, Constants DEF TypeOK
  <2>4. kills' \in 0..MaxKills
    BY <1>1, <1>2, BoundAssumption DEF TypeOK
  <2> QED
    BY <1>1, <1>2, <1>4, <2>1, <2>2, <2>3, <2>4 DEF TypeOK, Clouds
<1>8. PICK a \in Aliases : a = Alias(p)
  BY <1>2, ProcessFacts
<1>9. a \notin clean'
  BY <1>3, <1>8
<1>10. \A b \in Aliases \ {a} :
         /\ infra'[b] = infra[b]
         /\ b \in clean' => b \in clean /\ cfg'.wb[b] = cfg.wb[b]
  BY <1>3, <1>4, <1>8
<1> QED
  BY <1>1, <1>6, <1>7, <1>8, <1>9, <1>10, LeaveKeeps

(***************************************************************************)
(* The tools                                                               *)
(***************************************************************************)

LEMMA BeginKeeps ==
    ASSUME IInv, NEW p \in Procs, Begin(p), Step(p), At(p, "gate")
    PROVE  IInv'
BY GotoBefore DEF Begin, Before, Writes, Making, At

\* The gate of isaac-lab, fiftyone and cosmos.
LEMMA GateKeeps ==
    ASSUME IInv, NEW p \in Procs, At(p, "gate"), InPlaceGate(p), Step(p)
    PROVE  IInv'
<1>1. CASE Goto(p, "error")
  BY <1>1, GotoBefore DEF Before, Writes, Making, At
<1>2. CASE Begin(p)
  BY <1>2, BeginKeeps
<1>3. CASE proc' = [proc EXCEPT ![p].pc = "read", ![p].inPlace = TRUE]
  <2> DEFINE r == [proc[p] EXCEPT !.pc = "read", !.inPlace = TRUE]
  <2>1. proc[p] \in Processes /\ ~proc[p].reading
    BY ProcessFacts DEF IInv, ProcessInv, Writes, At
  <2>2. r \in Processes /\ r.cmd = proc[p].cmd /\ r.pc = "read" /\ ~r.reading
    BY <2>1 DEF Processes, Pcs
  <2>3. Moved(p, r)
    BY <1>3, <2>2 DEF Moved, At
  <2> HIDE DEF r
  <2> QED
    BY <2>2, <2>3, HopBefore DEF Before, Making, At
<1> QED
  BY <1>1, <1>2, <1>3 DEF InPlaceGate

\* The project's ids, after which the state, Terraform or a destruction is next.
LEMMA ProjectKeeps ==
    ASSUME IInv, NEW p \in Procs,
           NEW pc \in {"state", "plan", "apply", "backend", "destroy"}, WriteProject(p, pc),
           pc \in {"backend", "destroy"} => Cmd(p).op # "deploy",
           pc = "apply" => Cmd(p).tool \in {"lerobot", "genesis"}
    PROVE  IInv'
<1>1. At(p, "project") /\ Dump(p, proc[p].loaded, pc)
  BY DEF WriteProject
<1>2. pc \in Pcs \ {"idle"} /\ pc \in Before /\ pc # "classify"
  BY DEF Pcs, Writes, Before
<1>3. PICK r : /\ Dumped(p, proc[p].loaded, r) /\ r.pc = pc /\ proc[p].loaded \in Configs
  BY <1>1, <1>2, DumpMoves
<1> QED
  BY <1>1, <1>2, <1>3, SettingsKeep DEF Making, At

LEMMA StateKeeps ==
    ASSUME IInv, NEW p \in Procs, NEW bucket, NEW pc \in {"plan", "apply", "destroy"},
           proc[p].loaded \in Configs => bucket \in {"own", "other"},
           SaveState(p, bucket, pc),
           pc = "destroy" => Cmd(p).op # "deploy",
           pc = "apply" => Cmd(p).tool \in {"lerobot", "genesis"}
    PROVE  IInv'
<1>1. pc \in Pcs \ {"idle"} /\ pc \in Before /\ pc \notin {"backend", "classify"}
  BY DEF Pcs, Writes, Before
<1>2. bucket \in {"own", "other"}
  BY ProcessFacts DEF IInv
<1> DEFINE new == [proc[p].loaded EXCEPT !.saved = bucket]
<1>0. \E r : /\ Dumped(p, new, r) /\ r.pc = pc
             /\ At(p, "state") /\ proc[p].loaded \in Configs
  BY <1>1, <1>2, SaveMoves, Zenon
<1>3. PICK r : /\ Dumped(p, new, r) /\ r.pc = pc /\ At(p, "state")
               /\ proc[p].loaded \in Configs
  BY <1>0
<1>4. new \in Configs /\ new.wb = proc[p].loaded.wb
  BY <1>2, <1>3 DEF Configs
<1> HIDE DEF new
<1> QED
  BY <1>1, <1>3, <1>4, SettingsKeep DEF Making, At

\* The buckets a command can be told of.
LEMMA Buckets ==
    ASSUME IInv, NEW p \in Procs, NEW old \in Configs
    PROVE  SavedBucket(old) \in {"own", "other"} /\ OverriddenBucket(p, old) \in {"own", "other"}
BY DEF SavedBucket, OverriddenBucket, Configs

LEMMA SavedAfterTyped ==
    ASSUME IInv, NEW p \in Procs, At(p, "register")
    PROVE  SavedAfter(p) \subseteq {"none", "own", "other"}
<1>1. proc[p].loaded.saved \in {"none", "own", "other"} /\ Cmd(p).bucket \in {"own", "other"}
  BY ProcessFacts DEF IInv, Configs, CommandLines
<1> QED
  BY <1>1 DEF SavedAfter

LEMMA ProvisionedKeeps ==
    ASSUME IInv, NEW p \in Procs, NEW s \in SavedAfter(p) \cup {proc[p].loaded.saved},
           Register(p, s, "provisioned", AppPc(p))
    PROVE  IInv'
<1>1. At(p, "register")
  BY DEF Register
<1>2. proc[p].loaded.saved \in {"none", "own", "other"}
  BY ProcessFacts DEF IInv, Configs
<1>3. s \in {"none", "own", "other"} /\ AppPc(p) \in {"done", "installing"}
  BY <1>1, <1>2, SavedAfterTyped DEF AppPc
<1> QED
  BY <1>3, RegisterKeeps

LEMMA InstallingKeeps ==
    ASSUME IInv, NEW p \in Procs, MarkInstalling(p)
    PROVE  IInv'
BY MarkKeeps DEF MarkInstalling, After

LEMMA FailedKeeps ==
    ASSUME IInv, NEW p \in Procs, MarkFailed(p)
    PROVE  IInv'
BY MarkKeeps DEF MarkFailed, After

LEMMA HealthyKeeps ==
    ASSUME IInv, NEW p \in Procs, MarkHealthy(p)
    PROVE  IInv'
BY MarkKeeps DEF MarkHealthy, After, Installing

\* Only a server that answers gets past the health check.
LEMMA HealthKeeps ==
    ASSUME IInv, NEW p \in Procs, NEW pc \in {"strategy", "mark"}, HealthCheck(p, pc, "failed")
    PROVE  IInv'
<1>1. At(p, "health") /\ Step(p)
  BY DEF HealthCheck
<1>2. CASE Serving(p) /\ Goto(p, pc)
  BY <1>1, <1>2, GotoAfter DEF After, Installing, Writes, At
<1>3. CASE Goto(p, "failed")
  BY <1>1, <1>3, GotoAfter DEF After, Installing, Writes, At
<1> QED
  BY <1>2, <1>3 DEF HealthCheck

\* fiftyone ends with a warning when its app does not answer.
LEMMA WarningKeeps ==
    ASSUME IInv, NEW p \in Procs, HealthCheck(p, "strategy", "done")
    PROVE  IInv'
<1>1. At(p, "health") /\ Step(p) /\ TypeOK
  BY DEF HealthCheck, IInv
<1>2. CASE Serving(p) /\ Goto(p, "strategy")
  BY <1>1, <1>2, GotoAfter DEF After, Installing, Writes, At
<1>3. CASE Goto(p, "done")
  <2>1. PICK r : Moved(p, r) /\ r.pc = "done" /\ r.host = proc[p].host /\ ~r.reading
    BY <1>1, <1>3, MoveTo DEF Pcs, Writes, At
  <2>2. proc'[p] = r /\ Alias(p)' = Alias(p)
    BY <1>1, <2>1, SameCommands
  <2>3. OnTrack(p) => OnTrack(p)'
    <3> SUFFICES ASSUME OnTrack(p) PROVE OnTrack(p)'
      OBVIOUS
    <3>1. Registered(p) /\ Entry(p).status # "healthy"
      BY <1>1 DEF OnTrack, At, After, Installing
    <3>2. Synced(Alias(p)) /\ Earned(Alias(p))
      BY <3>1 DEF Registered, Synced, Earned, Alive, Entry, NoEntry, Nowhere, Byo
    <3>3. Synced(Alias(p))' /\ Earned(Alias(p))'
      BY <1>1, <2>2, <3>2 DEF Step, Synced, Earned, Answered, Alive
    <3> QED
      BY <2>1, <2>2, <3>3 DEF OnTrack, At, Before, After, Installing
  <2> QED
    BY <1>1, <2>1, <2>3, HopKeeps DEF Making
<1> QED
  BY <1>2, <1>3 DEF HealthCheck

LEMMA GrootKeeps ==
    ASSUME IInv, NEW p \in Procs, Groot(p)
    PROVE  IInv'
<1>1. CASE GrootGate(p)
  <2>1. CASE Goto(p, "error") \/ Goto(p, "env")
    BY <1>1, <2>1, GotoBefore DEF GrootGate, Deploys, Before, Writes, Making, At
  <2> QED
    BY <1>1, <2>1, BeginKeeps DEF GrootGate, Deploys
<1>2. CASE GrootBootstrap(p)
  <2>1. CASE WriteProject(p, "state")
    BY <2>1, ProjectKeeps
  <2>2. CASE SaveState(p, IF Cmd(p).op = "destroy" THEN SavedBucket(proc[p].loaded) ELSE "own",
                       Infra(p, "plan"))
    BY <2>2, StateKeeps, Buckets DEF Infra
  <2> QED
    BY <1>2, <2>1, <2>2 DEF GrootBootstrap
<1>3. CASE GrootApp(p)
  BY <1>3, InstallingKeeps, InstallKeeps, HealthKeeps, StrategyKeeps DEF GrootApp
<1>4. CASE GrootRead(p)
  BY <1>4, ReadKeeps DEF GrootRead, FromState
<1>5. CASE GrootRegister(p)
  BY <1>5, ProvisionedKeeps DEF GrootRegister
<1> QED
  BY <1>1, <1>2, <1>3, <1>4, <1>5, EnvKeeps, PlanKeeps, ApplyKeeps DEF Groot, GrootInfra

LEMMA LerobotKeeps ==
    ASSUME IInv, NEW p \in Procs, Lerobot(p)
    PROVE  IInv'
<1>1. CASE LerobotGate(p)
  BY <1>1, BeginKeeps DEF LerobotGate, Deploys
<1>2. CASE LerobotBootstrap(p)
  <2>1. CASE WriteProject(p, "state")
    BY <2>1, ProjectKeeps
  <2>2. CASE /\ Of(p, "lerobot")
             /\ SaveState(p, IF Cmd(p).op = "destroy" THEN OverriddenBucket(p, proc[p].loaded)
                             ELSE "own", Infra(p, "apply"))
    BY <2>2, StateKeeps, Buckets DEF Infra, Of
  <2> QED
    BY <1>2, <2>1, <2>2 DEF LerobotBootstrap
<1>3. CASE LerobotApp(p)
  BY <1>3, InstallingKeeps, InstallKeeps, HealthKeeps DEF LerobotApp
<1>4. CASE LerobotRead(p)
  BY <1>4, ReadKeeps DEF LerobotRead, FromState
<1>5. CASE LerobotRegister(p)
  BY <1>5, ProvisionedKeeps DEF LerobotRegister
<1> QED
  BY <1>1, <1>2, <1>3, <1>4, <1>5, ApplyKeeps DEF Lerobot, LerobotInfra

LEMMA GenesisKeeps ==
    ASSUME IInv, NEW p \in Procs, Genesis(p)
    PROVE  IInv'
<1>1. CASE GenesisGate(p)
  BY <1>1, BeginKeeps DEF GenesisGate, Deploys
<1>2. CASE GenesisBootstrap(p)
  <2>1. CASE /\ Of(p, "genesis")
             /\ WriteProject(p, IF Cmd(p).op = "destroy" THEN "backend" ELSE "apply")
    <3>1. CASE Cmd(p).op = "destroy"
      BY <2>1, <3>1, ProjectKeeps
    <3>2. CASE Cmd(p).op # "destroy"
      BY <2>1, <3>2, ProjectKeeps DEF Of
    <3> QED
      BY <3>1, <3>2
  <2>2. CASE /\ At(p, "backend") /\ Step(p)
             /\ proc' = [proc EXCEPT ![p].pc = "destroy", ![p].bucket = OverriddenBucket(p, cfg)]
    <3>1. cfg \in Configs /\ Cmd(p).op # "deploy"
      BY <2>2 DEF IInv, TypeOK, ProcessInv, At
    <3> QED
      BY <2>2, <3>1, Buckets, GotoDestroy DEF At
  <2> QED
    BY <1>2, <2>1, <2>2 DEF GenesisBootstrap
<1>3. CASE GenesisApp(p)
  <2>1. CASE At(p, "connect") /\ Step(p) /\ (Goto(p, "installing") \/ Goto(p, "failed"))
    BY <2>1, GotoAfter DEF After, Installing, Writes, At
  <2> QED
    BY <1>3, <2>1, InstallingKeeps, InstallKeeps DEF GenesisApp, Of
<1>4. CASE GenesisRead(p)
  BY <1>4, ReadKeeps DEF GenesisRead
<1>5. CASE GenesisRegister(p)
  <2>1. proc[p].loaded.saved \in {"none", "own", "other"}
    BY ProcessFacts DEF IInv, Configs
  <2> QED
    BY <1>5, <2>1, RegisterKeeps DEF GenesisRegister, Of
<1> QED
  BY <1>1, <1>2, <1>3, <1>4, <1>5, ApplyKeeps DEF Genesis, GenesisInfra

LEMMA IsaacKeeps ==
    ASSUME IInv, NEW p \in Procs, Isaac(p)
    PROVE  IInv'
<1>1. CASE IsaacGate(p)
  BY <1>1, GateKeeps DEF IsaacGate, Deploys
<1>2. CASE IsaacBootstrap(p)
  <2>1. WriteProject(p, Infra(p, "plan"))
    BY <1>2 DEF IsaacBootstrap
  <2> QED
    BY <2>1, ProjectKeeps DEF Infra
<1>3. CASE IsaacApp(p)
  BY <1>3, InstallingKeeps, InstallKeeps DEF IsaacApp, Of
<1>4. CASE IsaacRead(p)
  BY <1>4, ReadKeeps DEF IsaacRead, FromState
<1>5. CASE IsaacRegister(p)
  BY <1>5, ProvisionedKeeps DEF IsaacRegister
<1> QED
  BY <1>1, <1>2, <1>3, <1>4, <1>5, PlanKeeps, ApplyKeeps DEF Isaac, IsaacInfra

LEMMA FiftyoneKeeps ==
    ASSUME IInv, NEW p \in Procs, Fiftyone(p)
    PROVE  IInv'
<1>1. CASE FiftyoneGate(p)
  BY <1>1, GateKeeps DEF FiftyoneGate, Deploys
<1>2. CASE FiftyoneBootstrap(p)
  <2>1. CASE WriteProject(p, "state")
    BY <2>1, ProjectKeeps
  <2>2. CASE SaveState(p, IF Cmd(p).op = "destroy" THEN SavedBucket(proc[p].loaded) ELSE "own",
                       Infra(p, "plan"))
    BY <2>2, StateKeeps, Buckets DEF Infra
  <2> QED
    BY <1>2, <2>1, <2>2 DEF FiftyoneBootstrap
<1>3. CASE FiftyoneApp(p)
  <2>1. CASE Mark(p, "installed", "provisioned", "health")
    BY <2>1, MarkKeeps DEF After, Installing
  <2> QED
    BY <1>3, <2>1, InstallingKeeps, InstallKeeps, WarningKeeps, StrategyKeeps DEF FiftyoneApp
<1>4. CASE FiftyoneRead(p)
  BY <1>4, ReadKeeps DEF FiftyoneRead, FromState
<1>5. CASE FiftyoneRegister(p)
  <2> DEFINE kept == (Cmd(p).skipInfra \/ Cmd(p).runtime = "byovm" \/ proc[p].inPlace)
                     /\ ~Cmd(p).skipApp
             was == proc[p].loaded.wb[Alias(p)].status
             status == IF ~kept THEN "provisioned" ELSE IF was = "absent" THEN "unset" ELSE was
  <2>1. PICK s \in SavedAfter(p) : Register(p, s, status, AppPc(p))
    BY <1>5 DEF FiftyoneRegister
  <2>2. s \in {"none", "own", "other"}
    BY <2>1, SavedAfterTyped DEF Register
  <2>3. was \in {"absent", "unset", "provisioned", "installing", "install_failed", "healthy"}
    <3>1. proc[p].loaded \in Configs /\ Alias(p) \in Aliases
      BY ProcessFacts DEF IInv
    <3> QED
      BY <3>1 DEF Configs, Entries
  <2>4. /\ status \in {"unset", "provisioned", "installing", "install_failed", "healthy"}
        /\ AppPc(p) \in {"done", "installing"}
        /\ AppPc(p) = "done" => status # "healthy"
    BY <2>3 DEF AppPc
  <2> QED
    BY <2>1, <2>2, <2>4, RegisterKeeps
<1> QED
  BY <1>1, <1>2, <1>3, <1>4, <1>5, PlanKeeps, ApplyKeeps DEF Fiftyone, FiftyoneInfra

LEMMA CosmosKeeps ==
    ASSUME IInv, NEW p \in Procs, Cosmos(p)
    PROVE  IInv'
<1>1. CASE CosmosGate(p)
  BY <1>1, GateKeeps DEF CosmosGate, Deploys
<1>2. CASE CosmosBootstrap(p)
  <2>1. CASE WriteProject(p, "state")
    BY <2>1, ProjectKeeps
  <2>2. CASE SaveState(p, IF Cmd(p).op = "destroy" THEN OverriddenBucket(p, proc[p].loaded)
                          ELSE "own", Infra(p, "plan"))
    BY <2>2, StateKeeps, Buckets DEF Infra
  <2> QED
    BY <1>2, <2>1, <2>2 DEF CosmosBootstrap
<1>3. CASE CosmosApp(p)
  BY <1>3, InstallingKeeps, InstallKeeps, HealthKeeps, StrategyKeeps DEF CosmosApp
<1>4. CASE CosmosRead(p)
  BY <1>4, ReadKeeps DEF CosmosRead, FromState
<1>5. CASE CosmosRegister(p)
  BY <1>5, ProvisionedKeeps DEF CosmosRegister
<1> QED
  BY <1>1, <1>2, <1>3, <1>4, <1>5, PlanKeeps, ApplyKeeps DEF Cosmos, CosmosInfra

(***************************************************************************)
(* The theorems                                                            *)
(***************************************************************************)

LEMMA InitHolds == Init => IInv
<1> SUFFICES ASSUME Init PROVE IInv
  OBVIOUS
<1>1. \A p \in Procs : proc[p] = Idle /\ At(p, "idle")
  BY Constants DEF Init, At
<1>2. TypeOK
  <2>1. /\ [Nothing EXCEPT !.parts = TRUE] \in Clouds /\ Ghost \in Entries
    BY Constants DEF Clouds, Ghost, Entries
  <2>2. cfg \in Configs /\ infra \in [Aliases -> Clouds] /\ clean \subseteq Aliases
    <3>1. EmptyConfig \in Configs /\ [saved |-> "own", wb |-> [a \in Aliases |-> Ghost]] \in Configs
      BY <2>1, Constants DEF Configs
    <3> QED
      BY <2>1, <3>1, Constants DEF Init
  <2>3. /\ app \in [Aliases -> [Hosts -> {"none", "up", "down"}]]
        /\ proc \in [Procs -> Processes] /\ born = 0 /\ given = 0 /\ kills = 0
    BY Constants DEF Init
  <2> QED
    BY <1>1, <2>2, <2>3, BoundAssumption DEF TypeOK, Clouds
<1>3. Room
  <2>1. Makers = {}
    BY <1>1, Constants DEF Makers, Making, At
  <2> QED
    BY <2>1, FS_EmptySet DEF Room, Init
<1>4. \A p \in Procs : ProcessInv(p)
  BY <1>1, Constants DEF ProcessInv, At
<1>5. ASSUME NEW a \in Aliases PROVE AliasInv(a)
  <2>1. a \in clean => cfg.wb[a] = NoEntry /\ infra[a] = Nothing
    BY DEF Init, EmptyConfig
  <2>2. a \in clean => Synced(a) /\ Earned(a)
    BY <2>1 DEF Synced, Earned, NoEntry
  <2> QED
    BY <1>1, <2>2 DEF AliasInv
<1> QED
  BY <1>2, <1>3, <1>4, <1>5 DEF IInv

LEMMA NextKeeps == IInv /\ [Next]_vars => IInv'
<1>1. ASSUME IInv, NEW p \in Procs,
             \/ Start(p) \/ End(p) \/ Kill(p)
             \/ Load(p) \/ Bootstrap(p) \/ Destroy(p) \/ RemoveEntry(p)
             \/ MarkHealthy(p) \/ MarkFailed(p) \/ Classify(p)
             \/ Groot(p) \/ Lerobot(p) \/ Genesis(p) \/ Isaac(p) \/ Fiftyone(p) \/ Cosmos(p)
      PROVE  IInv'
  BY <1>1, StartKeeps, EndKeeps, KillKeeps, LoadKeeps, BootstrapKeeps, DestroyKeeps,
     RemoveKeeps, HealthyKeeps, FailedKeeps, ClassifyKeeps, GrootKeeps, LerobotKeeps,
     GenesisKeeps, IsaacKeeps, FiftyoneKeeps, CosmosKeeps
<1>2. ASSUME IInv, UNCHANGED vars PROVE IInv'
  <2>1. /\ cfg' = cfg /\ infra' = infra /\ app' = app /\ proc' = proc /\ born' = born
        /\ given' = given /\ kills' = kills /\ clean' = clean
    BY <1>2 DEF vars
  <2>2. TypeOK'
    BY <1>2, <2>1 DEF IInv, TypeOK, At
  <2>3. Room'
    BY <1>2, <2>1, RoomKept DEF IInv, Makers
  <2>4. \A p \in Procs : ProcessInv(p)'
    BY <1>2, <2>1 DEF IInv, ProcessInv, Cmd, At
  <2>5. ASSUME NEW a \in Aliases PROVE AliasInv(a)'
    <3>1. AliasInv(a)
      BY <1>2 DEF IInv
    <3>2. /\ Quiet(a)' <=> Quiet(a)
          /\ Synced(a)' <=> Synced(a)
          /\ Earned(a)' <=> Earned(a)
          /\ \A p \in Procs : Others(p)' = Others(p)
      BY <2>1 DEF Quiet, Others, Synced, Earned, Answered, Alive, At, Alias, Cmd
    <3>3. ASSUME a \in clean' PROVE Quiet(a)' => Synced(a)' /\ Earned(a)'
      BY <2>1, <3>1, <3>2, <3>3 DEF AliasInv
    <3>4. ASSUME NEW p \in Procs, a \in clean', ~At(p, "idle")', Alias(p)' = a
          PROVE  Others(p)' = {} /\ OnTrack(p)'
      <4>1. Others(p) = {} /\ OnTrack(p)
        BY <2>1, <3>1, <3>4 DEF AliasInv, At, Alias, Cmd
      <4>2. /\ Registered(p)' <=> Registered(p)
            /\ Alive(Alias(p), proc[p].host)' <=> Alive(Alias(p), proc[p].host)
        BY <2>1 DEF Registered, Alive, Entry, Alias, Cmd
      <4>3. /\ Synced(Alias(p))' <=> Synced(Alias(p))
            /\ Earned(Alias(p))' <=> Earned(Alias(p))
            /\ Answered(Alias(p))' <=> Answered(Alias(p))
        BY <2>1 DEF Synced, Earned, Answered, Alive, Alias, Cmd
      <4>4. OnTrack(p)'
        BY <2>1, <4>1, <4>2, <4>3 DEF OnTrack, At, Entry, Alias, Cmd
      <4> QED
        BY <3>2, <4>1, <4>4
    <3> QED
      BY <3>3, <3>4 DEF AliasInv
  <2> QED
    BY <2>2, <2>3, <2>4, <2>5 DEF IInv
<1> QED
  BY <1>1, <1>2 DEF Next

\* The types, the room for VMs, and what a clean alias owes to its commands hold in every
\* state (all commands of deploy, --destroy and cleanup-partial, killed anywhere).
THEOREM InvariantHolds == Spec => []IInv
BY InitHolds, NextKeeps, PTL DEF Spec

\* Types, and that a terminal starts every command afresh: none of the commands leaves a
\* module global or a half-read config.yaml behind for the next.
THEOREM TypeCorrect == Spec => []TypeOK
<1>1. IInv => TypeOK
  BY DEF IInv
<1> QED
  BY <1>1, InvariantHolds, PTL

\* What runs is on record and what is on record runs, for every combination of command lines
\* of the six tools (deploy, --destroy and cleanup-partial over config.yaml and Terraform).
THEOREM RecordIsTrue == Spec => []RecordedIsThere
<1>1. IInv => RecordedIsThere
  BY DEF IInv, TypeOK, AliasInv, Synced, RecordedIsThere
<1> QED
  BY <1>1, InvariantHolds, PTL

\* A status of healthy was earned by the server on the host that the entry names.
THEOREM HealthIsTrue == Spec => []HealthyIsEarned
<1>1. IInv => HealthyIsEarned
  BY DEF IInv, TypeOK, AliasInv, Earned, Answered, HealthyIsEarned
<1> QED
  BY <1>1, InvariantHolds, PTL

\* Only an apply or a destroy, finished or not, touches the cloud, and of its own alias alone.
LEMMA CloudMoves ==
    ASSUME IInv, NEW p \in Procs,
           \/ Start(p) \/ End(p) \/ Kill(p)
           \/ Load(p) \/ Bootstrap(p) \/ Destroy(p) \/ RemoveEntry(p)
           \/ MarkHealthy(p) \/ MarkFailed(p) \/ Classify(p)
           \/ Groot(p) \/ Lerobot(p) \/ Genesis(p) \/ Isaac(p) \/ Fiftyone(p) \/ Cosmos(p)
    PROVE  \/ infra' = infra
           \/ /\ At(p, "apply") \/ At(p, "destroy")
              /\ \A b \in Aliases \ {Alias(p)} : infra'[b] = infra[b]
<1>1. infra \in [Aliases -> Clouds]
  BY DEF IInv, TypeOK, Clouds
<1>2. CASE Plan(p)
  BY <1>2 DEF Plan
<1>3. CASE Apply(p)
  BY <1>1, <1>3 DEF Apply, Unfinished
<1>4. CASE Destroy(p)
  BY <1>1, <1>4 DEF Destroy
<1>5. CASE Kill(p)
  BY <1>1, <1>5 DEF Kill, Unfinished, At
<1>6. CASE Start(p) \/ End(p) \/ Load(p) \/ Bootstrap(p) \/ Classify(p)
  BY <1>6 DEF Start, End, Load, Bootstrap, Classify, Step
<1>7. CASE RemoveEntry(p) \/ MarkHealthy(p) \/ MarkFailed(p)
  BY <1>7 DEF RemoveEntry, MarkHealthy, MarkFailed, Mark, Dump
<1>8. CASE GrootGate(p) \/ LerobotGate(p) \/ GenesisGate(p) \/ IsaacGate(p) \/ FiftyoneGate(p)
           \/ CosmosGate(p)
  BY <1>8 DEF GrootGate, LerobotGate, GenesisGate, IsaacGate, FiftyoneGate, CosmosGate, Step
<1>9. CASE GrootBootstrap(p) \/ LerobotBootstrap(p) \/ GenesisBootstrap(p) \/ IsaacBootstrap(p)
           \/ FiftyoneBootstrap(p) \/ CosmosBootstrap(p)
  BY <1>9 DEF GrootBootstrap, LerobotBootstrap, GenesisBootstrap, IsaacBootstrap,
     FiftyoneBootstrap, CosmosBootstrap, WriteProject, SaveState, Dump, Step
<1>10. CASE GrootRead(p) \/ LerobotRead(p) \/ GenesisRead(p) \/ IsaacRead(p) \/ FiftyoneRead(p)
            \/ CosmosRead(p)
  BY <1>10 DEF GrootRead, LerobotRead, GenesisRead, IsaacRead, FiftyoneRead, CosmosRead, Read, Step
<1>11. CASE GrootRegister(p) \/ LerobotRegister(p) \/ GenesisRegister(p) \/ IsaacRegister(p)
            \/ FiftyoneRegister(p) \/ CosmosRegister(p)
  BY <1>11 DEF GrootRegister, LerobotRegister, GenesisRegister, IsaacRegister, FiftyoneRegister,
     CosmosRegister, Register, Dump
<1>12. CASE GrootApp(p) \/ LerobotApp(p) \/ GenesisApp(p) \/ IsaacApp(p) \/ FiftyoneApp(p)
            \/ CosmosApp(p) \/ GrootEnvUpdate(p)
  BY <1>12 DEF GrootApp, LerobotApp, GenesisApp, IsaacApp, FiftyoneApp, CosmosApp,
     GrootEnvUpdate, MarkInstalling, Mark, Dump, Install, HealthCheck, WriteStrategy, Step
<1> QED
  BY <1>2, <1>3, <1>4, <1>5, <1>6, <1>7, <1>8, <1>9, <1>10, <1>11, <1>12
  DEF Groot, Lerobot, Genesis, Isaac, Fiftyone, Cosmos,
      GrootInfra, LerobotInfra, GenesisInfra, IsaacInfra, FiftyoneInfra, CosmosInfra

\* A VM is taken down only by a command that asked for it, or by an apply that planned anew
\* (provisioner.plan, analyze_terraform_plan and provisioner.apply of the six tools).
THEOREM VmsAreReplacedOnPurpose == Spec => ReplacedOnPurpose
<1>1. ASSUME IInv, Next, NEW a \in Aliases,
             infra[a].vm # Nowhere, infra'[a].vm # infra[a].vm
      PROVE  \E p \in Procs :
               /\ At(p, "apply") \/ At(p, "destroy")
               /\ Alias(p) = a
               /\ \/ Cmd(p).op # "deploy" \/ Cmd(p).replace
                  \/ Cmd(p).tool \in {"lerobot", "genesis"}
                  \/ proc[p].seen # infra[a].vm
  <2>1. PICK p \in Procs :
           /\ At(p, "apply") \/ At(p, "destroy")
           /\ \A b \in Aliases \ {Alias(p)} : infra'[b] = infra[b]
    BY <1>1, CloudMoves DEF Next
  <2>2. Alias(p) = a
    BY <1>1, <2>1
  <2>3. ProcessInv(p)
    BY <1>1 DEF IInv
  <2> QED
    BY <1>1, <2>1, <2>2, <2>3 DEF ProcessInv, At
<1>2. IInv /\ [Next]_vars =>
        [\A a \in Aliases : infra[a].vm # Nowhere /\ infra'[a].vm # infra[a].vm =>
           \E p \in Procs :
               /\ At(p, "apply") \/ At(p, "destroy")
               /\ Alias(p) = a
               /\ \/ Cmd(p).op # "deploy" \/ Cmd(p).replace
                  \/ Cmd(p).tool \in {"lerobot", "genesis"}
                  \/ proc[p].seen # infra[a].vm]_vars
  BY <1>1
<1> QED
  BY <1>2, InvariantHolds, PTL DEF Spec, ReplacedOnPurpose
=============================================================================
