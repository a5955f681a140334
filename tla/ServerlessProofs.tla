---------------------------- MODULE ServerlessProofs ----------------------------
(* What the commands on serverless jobs and endpoints say and leave behind,  *)
(* for any number of terminals, command lines, commands and interrupts.      *)
EXTENDS Serverless, TLAPS

USE DEF jobLog, epLog, jobVars, epVars, At, Goto, Cmd, Name, Default

\* What a command that is where p is may rely on, with the jobs j: its subcommand, that a
\* job it cancels exists, and what it saw of a job that ended. No tool that records the job
\* makes its exit code depend on it.
Sound(p, j) ==
    /\ p.pc \in {"lookup", "recover", "poll", "record"} => p.cmd.op = "job"
    /\ p.pc \in {"check", "cancel"} => p.interrupted \/ p.cmd.op = "cancel"
    /\ p.pc \in {"entry", "resolve", "find", "delete", "wait", "save", "remove"} =>
         p.cmd.op \in {"deploy", "destroy"}
    /\ p.interrupted => p.pc \in {"check", "cancel", "done"}
    /\ p.pc = "cancel" => j[p.name] # "none"
    /\ p.pc = "record" => /\ p.seen \in EndedJob => j[p.name] = p.seen
                          /\ p.cmd.detach \/ p.seen \in EndedJob
                          /\ ~p.cmd.flow.strict
    /\ p.pc = "done" /\ p.cmd.op = "job" /\ ~p.cmd.detach /\ p.exit = "zero" =>
         /\ j[p.name] \in EndedJob
         /\ p.cmd.flow.strict => j[p.name] = "succeeded"
    /\ p.pc = "done" /\ p.interrupted /\ p.cancel = "ok" => j[p.name] \notin {"none", "live"}

\* A job that has ended stays as it is, one that is being stopped never runs on, and none
\* disappears.
Settles(a, b) ==
    /\ a \in EndedJob => b = a
    /\ a \notin {"none", "live"} => b \notin {"none", "live"}
    /\ a # "none" => b # "none"

\* The inductive invariant.
IInv ==
    /\ TypeOK
    /\ \A t \in Terminals : Sound(proc[t], jobs)
    /\ record.status \in EndedJob => jobs[record.name] = record.status

\* Other steps do not take away what a command relies on.
LEMMA SoundPersists ==
  ASSUME NEW p \in Processes, NEW j \in [Names -> JobStates], NEW k \in [Names -> JobStates],
         Sound(p, j), \A n \in Names : Settles(j[n], k[n])
  PROVE Sound(p, k)
<1>1. p.name \in Names
  BY DEF Processes
<1>2. Settles(j[p.name], k[p.name])
  BY <1>1
<1> QED BY <1>1, <1>2 DEF Sound, Settles, EndedJob

\* A step that moves one terminal to a sound place keeps every terminal sound.
LEMMA OneTerminalMoves ==
  ASSUME TypeOK, \A u \in Terminals : Sound(proc[u], jobs),
         NEW t \in Terminals, NEW p \in Processes, proc' = [proc EXCEPT ![t] = p],
         jobs' \in [Names -> JobStates], \A n \in Names : Settles(jobs[n], jobs'[n]),
         Sound(p, jobs')
  PROVE /\ proc' \in [Terminals -> Processes]
        /\ \A u \in Terminals : Sound(proc'[u], jobs')
<1>1. proc \in [Terminals -> Processes] /\ jobs \in [Names -> JobStates]
  BY DEF TypeOK
<1>2. proc' \in [Terminals -> Processes]
  BY <1>1
<1>3. ASSUME NEW u \in Terminals PROVE Sound(proc'[u], jobs')
  <2>1. CASE u = t
    BY <2>1, <1>1
  <2>2. CASE u # t
    <3>1. proc'[u] = proc[u] /\ proc[u] \in Processes
      BY <2>2, <1>1
    <3>2. Sound(proc[u], jobs')
      BY <3>1, <1>1, SoundPersists
    <3> QED BY <3>1, <3>2
  <2> QED BY <2>1, <2>2
<1> QED BY <1>2, <1>3

\* A job that stays the same settles.
LEMMA Unchanged ==
  ASSUME TypeOK, jobs' = jobs
  PROVE jobs' \in [Names -> JobStates] /\ \A n \in Names : Settles(jobs[n], jobs'[n])
BY DEF TypeOK, Settles

\* So does one that is changed alone, by a change that settles.
LEMMA OneJobChanges ==
  ASSUME TypeOK, NEW n \in Names, NEW s \in JobStates, Settles(jobs[n], s),
         jobs' = [jobs EXCEPT ![n] = s]
  PROVE jobs' \in [Names -> JobStates] /\ \A m \in Names : Settles(jobs[m], jobs'[m])
BY DEF TypeOK, Settles

LEMMA InitialSound == Init => IInv
<1> SUFFICES ASSUME Init PROVE IInv
  OBVIOUS
<1>1. Waits \in Flows /\ NoCommand \in CommandLines \cup {NoCommand}
  BY DEF Flows, SonicTrain
<1>2. Idle \in Processes
  BY <1>1, BoundAssumption DEF Idle, Processes, Pcs, JobStates, Names
<1>3. TypeOK
  <2>1. jobs \in [Names -> JobStates] /\ 0 \in Names
    BY BoundAssumption DEF Init, JobStates, Names
  <2>2. endpoint \in [id : Names, state : EndpointStates]
    BY <2>1 DEF Init, NoEndpoint, EndpointStates
  <2>3. record \in [name : Names, status : JobStates \cup {"unknown"}]
    BY <2>1 DEF Init, JobStates
  <2>4. proc \in [Terminals -> Processes]
    BY <1>2 DEF Init
  <2>5. given \in 0..MaxCommands /\ intrs \in 0..MaxInterrupts
    BY BoundAssumption DEF Init
  <2> QED BY <2>1, <2>2, <2>3, <2>4, <2>5 DEF Init, TypeOK
<1>4. \A t \in Terminals : Sound(proc[t], jobs)
  BY DEF Init, Sound, Idle, NoCommand
<1> QED BY <1>3, <1>4 DEF Init, IInv, EndedJob

\* A step of a command changes fields of its own record only.
LEMMA ExitsMoves ==
  ASSUME TypeOK, NEW t \in Terminals, NEW code \in {"zero", "one"}, Exits(t, code)
  PROVE \E p \in Processes :
          /\ proc' = [proc EXCEPT ![t] = p]
          /\ p.pc = "done" /\ p.exit = code /\ p.name = proc[t].name /\ p.cmd = proc[t].cmd
          /\ p.interrupted = proc[t].interrupted /\ p.cancel = proc[t].cancel
<1> DEFINE p == [proc[t] EXCEPT !.pc = "done", !.exit = code, !.ref = 0, !.seen = "none",
                                !.tolerated = FALSE]
<1>1. proc \in [Terminals -> Processes] /\ proc[t] \in Processes
  BY DEF TypeOK
<1>2. proc' = [proc EXCEPT ![t] = p]
  BY <1>1 DEF Exits
<1>3. p \in Processes
  <2>1. "done" \in Pcs /\ "none" \in JobStates \cup {"unknown"} /\ 0 \in Names
    BY BoundAssumption DEF Pcs, JobStates, Names
  <2>2. \A pc \in Pcs, s \in JobStates \cup {"unknown"}, r \in Names :
          [proc[t] EXCEPT !.pc = pc, !.exit = code, !.ref = r, !.seen = s, !.tolerated = FALSE] \in Processes
    BY <1>1 DEF Processes
  <2> QED BY <2>1, <2>2
<1>4. /\ p.pc = "done" /\ p.exit = code /\ p.name = proc[t].name /\ p.cmd = proc[t].cmd
      /\ p.interrupted = proc[t].interrupted /\ p.cancel = proc[t].cancel
  BY <1>1 DEF Processes
<1> HIDE DEF p
<1> QED BY <1>2, <1>3, <1>4

LEMMA GotoMoves ==
  ASSUME TypeOK, NEW t \in Terminals, NEW pc \in Pcs, Goto(t, pc)
  PROVE \E p \in Processes :
          /\ proc' = [proc EXCEPT ![t] = p]
          /\ p.pc = pc /\ p.name = proc[t].name /\ p.cmd = proc[t].cmd
          /\ p.interrupted = proc[t].interrupted
<1> DEFINE p == [proc[t] EXCEPT !.pc = pc]
<1>1. proc \in [Terminals -> Processes] /\ proc[t] \in Processes
  BY DEF TypeOK
<1>2. proc' = [proc EXCEPT ![t] = p]
  BY <1>1 DEF Goto
<1>3. p \in Processes
  BY <1>1 DEF Processes
<1>4. p.pc = pc /\ p.name = proc[t].name /\ p.cmd = proc[t].cmd /\ p.interrupted = proc[t].interrupted
  BY <1>1 DEF Processes
<1> HIDE DEF p
<1> QED BY <1>2, <1>3, <1>4

LEMMA CancelledMoves ==
  ASSUME TypeOK, NEW t \in Terminals, NEW how \in {"ok", "failed"}, Cancelled(t, how)
  PROVE \E p \in Processes :
          /\ proc' = [proc EXCEPT ![t] = p]
          /\ p.pc = "done" /\ p.name = proc[t].name /\ p.cmd = proc[t].cmd
          /\ p.interrupted = proc[t].interrupted /\ p.cancel = how
          /\ p.interrupted => p.exit = "one"
<1> DEFINE code == IF how = "failed" \/ proc[t].interrupted THEN "one" ELSE "zero"
           p == [proc[t] EXCEPT !.pc = "done", !.cancel = how, !.exit = code]
<1>1. proc \in [Terminals -> Processes] /\ proc[t] \in Processes
  BY DEF TypeOK
<1>2. proc' = [proc EXCEPT ![t] = p]
  BY <1>1 DEF Cancelled
<1>3. p \in Processes
  BY <1>1 DEF Processes, Pcs
<1>4. /\ p.pc = "done" /\ p.name = proc[t].name /\ p.cmd = proc[t].cmd
      /\ p.interrupted = proc[t].interrupted /\ p.cancel = how
      /\ p.interrupted => p.exit = "one"
  BY <1>1 DEF Processes
<1> HIDE DEF p
<1> QED BY <1>2, <1>3, <1>4

\* Where a command may go with no more known of it than that it was not interrupted.
LEMMA FreeToMove ==
  ASSUME IInv, NEW t \in Terminals,
         jobs' \in [Names -> JobStates], \A n \in Names : Settles(jobs[n], jobs'[n]),
         \/ Exits(t, "one")
         \/ /\ Exits(t, "zero")
            /\ proc[t].pc = "record" \/ proc[t].cmd.op \in {"deploy", "destroy"}
         \/ /\ ~proc[t].interrupted
            /\ \E pc \in Pcs :
                 /\ Goto(t, pc)
                 /\ pc \in {"recover", "poll"} => proc[t].cmd.op = "job"
                 /\ pc \in {"resolve", "find", "delete", "wait", "save", "remove"} =>
                      proc[t].cmd.op \in {"deploy", "destroy"}
                 /\ pc \in {"create", "recover", "poll", "resolve", "find", "delete", "wait",
                            "save", "remove"},
         ~proc[t].interrupted
  PROVE /\ proc' \in [Terminals -> Processes]
        /\ \A u \in Terminals : Sound(proc'[u], jobs')
<1>0. TypeOK /\ proc[t] \in Processes /\ proc[t].name \in Names /\ Sound(proc[t], jobs)
  BY DEF IInv, TypeOK, Processes
<1>1. CASE Exits(t, "one")
  <2>1. PICK p \in Processes :
          /\ proc' = [proc EXCEPT ![t] = p]
          /\ p.pc = "done" /\ p.exit = "one" /\ p.name = proc[t].name /\ p.cmd = proc[t].cmd
          /\ p.interrupted = proc[t].interrupted /\ p.cancel = proc[t].cancel
    BY <1>0, <1>1, ExitsMoves
  <2>2. Sound(p, jobs')
    BY <2>1 DEF Sound
  <2> QED BY <2>1, <2>2, <1>0, OneTerminalMoves DEF IInv
<1>2. CASE /\ Exits(t, "zero")
           /\ proc[t].pc = "record" \/ proc[t].cmd.op \in {"deploy", "destroy"}
  <2>1. PICK p \in Processes :
          /\ proc' = [proc EXCEPT ![t] = p]
          /\ p.pc = "done" /\ p.exit = "zero" /\ p.name = proc[t].name /\ p.cmd = proc[t].cmd
          /\ p.interrupted = proc[t].interrupted /\ p.cancel = proc[t].cancel
    BY <1>0, <1>2, ExitsMoves
  <2>2. Settles(jobs[p.name], jobs'[p.name])
    BY <2>1, <1>0
  <2>3. ASSUME proc[t].pc = "record" PROVE Sound(p, jobs')
    <3>1. /\ ~p.cmd.flow.strict /\ ~p.interrupted
          /\ p.cmd.detach \/ jobs[p.name] \in EndedJob
      BY <2>1, <2>3, <1>0 DEF Sound
    <3>2. p.cmd.detach \/ jobs'[p.name] \in EndedJob
      BY <3>1, <2>2 DEF Settles
    <3> QED BY <3>1, <3>2, <2>1, <2>3 DEF Sound
  <2>4. ASSUME proc[t].cmd.op \in {"deploy", "destroy"} PROVE Sound(p, jobs')
    BY <2>1, <2>4 DEF Sound
  <2>5. Sound(p, jobs')
    BY <2>3, <2>4, <1>2
  <2> QED BY <2>1, <2>5, <1>0, OneTerminalMoves DEF IInv
<1>3. CASE \E pc \in Pcs :
                 /\ Goto(t, pc)
                 /\ pc \in {"recover", "poll"} => proc[t].cmd.op = "job"
                 /\ pc \in {"resolve", "find", "delete", "wait", "save", "remove"} =>
                      proc[t].cmd.op \in {"deploy", "destroy"}
                 /\ pc \in {"create", "recover", "poll", "resolve", "find", "delete", "wait",
                            "save", "remove"}
  <2>1. PICK pc \in Pcs :
                 /\ Goto(t, pc)
                 /\ pc \in {"recover", "poll"} => proc[t].cmd.op = "job"
                 /\ pc \in {"resolve", "find", "delete", "wait", "save", "remove"} =>
                      proc[t].cmd.op \in {"deploy", "destroy"}
                 /\ pc \in {"create", "recover", "poll", "resolve", "find", "delete", "wait",
                            "save", "remove"}
    BY <1>3
  <2>2. PICK p \in Processes :
          /\ proc' = [proc EXCEPT ![t] = p]
          /\ p.pc = pc /\ p.name = proc[t].name /\ p.cmd = proc[t].cmd
          /\ p.interrupted = proc[t].interrupted
    BY <1>0, <2>1, GotoMoves
  <2>3. Sound(p, jobs')
    BY <2>1, <2>2 DEF Sound
  <2> QED BY <2>2, <2>3, <1>0, OneTerminalMoves DEF IInv
<1> QED BY <1>1, <1>2, <1>3

\* A submission may end once its job has, or without waiting for it.
LEMMA FinishIsSound ==
  ASSUME IInv, NEW t \in Terminals, NEW status \in JobStates \cup {"unknown"}, Finish(t, status),
         proc[t].cmd.op = "job", ~proc[t].interrupted,
         jobs' \in [Names -> JobStates], \A n \in Names : Settles(jobs[n], jobs'[n]),
         status \in EndedJob => jobs'[proc[t].name] = status,
         proc[t].cmd.detach \/ status \in EndedJob
  PROVE /\ proc' \in [Terminals -> Processes]
        /\ \A u \in Terminals : Sound(proc'[u], jobs')
        /\ told' \subseteq Names /\ unnamed' \subseteq Names
<1>0. TypeOK /\ proc \in [Terminals -> Processes] /\ proc[t] \in Processes /\ proc[t].name \in Names
  BY DEF IInv, TypeOK, Processes
<1>1. CASE proc[t].cmd.flow.records
  <2> DEFINE p == [proc[t] EXCEPT !.pc = "record", !.seen = status, !.tolerated = FALSE]
  <2>1. proc' = [proc EXCEPT ![t] = p]
    BY <1>0, <1>1 DEF Finish
  <2>2. p \in Processes
    BY <1>0 DEF Processes, Pcs
  <2>3. /\ p.pc = "record" /\ p.seen = status /\ p.name = proc[t].name /\ p.cmd = proc[t].cmd
        /\ p.interrupted = proc[t].interrupted
    BY <1>0 DEF Processes
  <2>5. ~proc[t].cmd.flow.strict
    <3>1. proc[t].cmd \in CommandLines \cup {NoCommand}
      BY <1>0 DEF Processes
    <3>2. proc[t].cmd.flow \in Flows
      BY <3>1 DEF CommandLines, NoCommand, Flows, SonicTrain
    <3>3. \A f \in Flows : ~(f.records /\ f.strict)
      BY DEF Flows, Waits, LerobotTrain, LerobotProfileTrain, SonicTrain, IsaacLabTrain,
             CosmosTrain, GenesisTrainTeacher, GrootInfer, FiftyoneLoadDataset, FiftyoneJob,
             GoldenEval
    <3> QED BY <3>2, <3>3, <1>1
  <2> HIDE DEF p
  <2>4. Sound(p, jobs')
    BY <2>3, <2>5 DEF Sound
  <2> QED BY <1>0, <2>1, <2>2, <2>4, OneTerminalMoves DEF IInv, Finish, TypeOK
<1>2. CASE ~proc[t].cmd.flow.records
  <2> DEFINE code == IF proc[t].cmd.flow.strict /\ ~proc[t].cmd.detach /\ status # "succeeded"
                     THEN "one" ELSE "zero"
  <2>1. Exits(t, code) /\ code \in {"zero", "one"}
    BY <1>2 DEF Finish
  <2>2. code = "zero" /\ proc[t].cmd.flow.strict /\ ~proc[t].cmd.detach => status = "succeeded"
    OBVIOUS
  <2> HIDE DEF code
  <2>3. PICK p \in Processes :
          /\ proc' = [proc EXCEPT ![t] = p]
          /\ p.pc = "done" /\ p.exit = code /\ p.name = proc[t].name /\ p.cmd = proc[t].cmd
          /\ p.interrupted = proc[t].interrupted /\ p.cancel = proc[t].cancel
    BY <1>0, <2>1, ExitsMoves
  <2>4. Sound(p, jobs')
    BY <2>2, <2>3 DEF Sound, EndedJob
  <2> QED BY <1>0, <2>3, <2>4, OneTerminalMoves DEF IInv, Finish, TypeOK
<1> QED BY <1>1, <1>2

\* cancel_job answers, for whoever called it.
LEMMA CancelledIsSound ==
  ASSUME IInv, NEW t \in Terminals, NEW how \in {"ok", "failed"}, Cancelled(t, how),
         proc[t].pc \in {"check", "cancel"},
         jobs' \in [Names -> JobStates], \A n \in Names : Settles(jobs[n], jobs'[n]),
         how = "ok" => jobs'[proc[t].name] \notin {"none", "live"}
  PROVE /\ proc' \in [Terminals -> Processes]
        /\ \A u \in Terminals : Sound(proc'[u], jobs')
        /\ told' \subseteq Names /\ unnamed' \subseteq Names
<1>0. TypeOK /\ proc[t] \in Processes /\ proc[t].name \in Names /\ Sound(proc[t], jobs)
  BY DEF IInv, TypeOK, Processes
<1>1. PICK p \in Processes :
          /\ proc' = [proc EXCEPT ![t] = p]
          /\ p.pc = "done" /\ p.name = proc[t].name /\ p.cmd = proc[t].cmd
          /\ p.interrupted = proc[t].interrupted /\ p.cancel = how
          /\ p.interrupted => p.exit = "one"
  BY <1>0, CancelledMoves
<1>2. Sound(p, jobs')
  BY <1>0, <1>1 DEF Sound
<1>3. told' \subseteq Names /\ unnamed' \subseteq Names
  BY <1>0 DEF Cancelled, TypeOK
<1> QED BY <1>0, <1>1, <1>2, <1>3, OneTerminalMoves DEF IInv

\* TypeOK without the jobs and the commands.
RestOK ==
    /\ late \subseteq Names /\ told \subseteq Names /\ unnamed \subseteq Names
    /\ endpoint \in [id : Names, state : EndpointStates]
    /\ lateEp \subseteq Names /\ entry \in Names /\ crossed \in BOOLEAN
    /\ toldEp \subseteq Names /\ unnamedEp \subseteq Names
    /\ record \in [name : Names, status : JobStates \cup {"unknown"}]
    /\ given \in 0..MaxCommands /\ intrs \in 0..MaxInterrupts

\* What is left to show of a step, when the record of config.yaml is not written.
LEMMA Assemble ==
  ASSUME IInv, RestOK', record' = record,
         jobs' \in [Names -> JobStates], \A n \in Names : Settles(jobs[n], jobs'[n]),
         proc' \in [Terminals -> Processes], \A u \in Terminals : Sound(proc'[u], jobs')
  PROVE IInv'
<1>1. TypeOK'
  BY DEF TypeOK, RestOK
<1>2. record'.status \in EndedJob => jobs'[record'.name] = record'.status
  BY DEF IInv, TypeOK, Settles
<1> QED BY <1>1, <1>2 DEF IInv

\* Steps on the endpoint.
LEMMA EndpointSteps ==
  ASSUME IInv, NEW t \in Terminals, Endpoint(t)
  PROVE IInv'
<1>0. /\ TypeOK /\ RestOK /\ proc[t] \in Processes /\ proc[t].name \in Names
      /\ proc[t].ref \in Names /\ Sound(proc[t], jobs)
  BY DEF IInv, TypeOK, RestOK, Processes
<1>1. /\ jobs' = jobs /\ record' = record /\ late' = late /\ UNCHANGED jobLog
      /\ given' = given /\ intrs' = intrs /\ crossed' = crossed
      /\ proc[t].pc \in {"entry", "resolve", "find", "delete", "create", "wait", "save", "remove"}
      /\ proc[t].pc = "create" => proc[t].cmd.op = "deploy"
  BY DEF Endpoint, CheckEntry, ResolveEntry, FindEndpoint, DeleteEndpoint, CreateEndpoint,
         WaitForRunning, SaveEndpoint, RemoveEntry
<1>2. jobs' \in [Names -> JobStates] /\ \A n \in Names : Settles(jobs[n], jobs'[n])
  BY <1>0, <1>1, Unchanged
<1>3. ~proc[t].interrupted /\ proc[t].cmd.op \in {"deploy", "destroy"}
  BY <1>0, <1>1 DEF Sound
<1>4. NoEndpoint \in [id : Names, state : EndpointStates]
  BY BoundAssumption DEF NoEndpoint, Names, EndpointStates
<1>5. \A id \in Names : Made(id) \in [id : Names, state : EndpointStates]
  BY <1>0 DEF Made, RestOK, EndpointStates
<1>6. RestOK'
  <2>1. endpoint' \in [id : Names, state : EndpointStates]
    BY <1>0, <1>4, <1>5 DEF RestOK, WithoutRef, Endpoint, CheckEntry, ResolveEntry, FindEndpoint,
       DeleteEndpoint, CreateEndpoint, WaitForRunning, SaveEndpoint, RemoveEntry
  <2>2. lateEp' \subseteq Names /\ toldEp' \subseteq Names /\ unnamedEp' \subseteq Names
    BY <1>0 DEF RestOK, EndpointFails, Endpoint, CheckEntry, ResolveEntry, FindEndpoint,
       DeleteEndpoint, CreateEndpoint, WaitForRunning, SaveEndpoint, RemoveEntry
  <2>3. entry' \in Names
    BY <1>0, BoundAssumption DEF RestOK, Names, Endpoint, CheckEntry, ResolveEntry, FindEndpoint,
       DeleteEndpoint, CreateEndpoint, WaitForRunning, SaveEndpoint, RemoveEntry
  <2> QED BY <1>0, <1>1, <2>1, <2>2, <2>3 DEF RestOK
<1>7. \/ /\ proc' = [proc EXCEPT ![t].pc = "find", ![t].ref = entry]
         /\ ResolveEntry(t)
      \/ Exits(t, "one") \/ Exits(t, "zero")
      \/ \E pc \in {"create", "resolve", "remove", "delete", "save", "wait"} : Goto(t, pc)
  BY DEF Deleted, EndpointFails, Endpoint, CheckEntry, ResolveEntry, FindEndpoint,
       DeleteEndpoint, CreateEndpoint, WaitForRunning, SaveEndpoint, RemoveEntry
<1>8. CASE proc' = [proc EXCEPT ![t].pc = "find", ![t].ref = entry] /\ ResolveEntry(t)
  <2> DEFINE p == [proc[t] EXCEPT !.pc = "find", !.ref = entry]
  <2>1. proc' = [proc EXCEPT ![t] = p]
    BY <1>8, <1>0 DEF TypeOK
  <2>2. p \in Processes
    BY <1>0 DEF Processes, Pcs, RestOK
  <2>3. p.pc = "find" /\ p.cmd = proc[t].cmd /\ ~p.interrupted
    BY <1>0, <1>3 DEF Processes
  <2> HIDE DEF p
  <2>4. Sound(p, jobs')
    BY <1>3, <2>3 DEF Sound
  <2> QED BY <1>0, <1>1, <1>2, <1>6, <2>1, <2>2, <2>4, OneTerminalMoves, Assemble DEF IInv
<1>9. ASSUME \E pc \in {"create", "resolve", "remove", "delete", "save", "wait"} : Goto(t, pc)
      PROVE \E pc \in Pcs :
                 /\ Goto(t, pc)
                 /\ pc \in {"recover", "poll"} => proc[t].cmd.op = "job"
                 /\ pc \in {"resolve", "find", "delete", "wait", "save", "remove"} =>
                      proc[t].cmd.op \in {"deploy", "destroy"}
                 /\ pc \in {"create", "recover", "poll", "resolve", "find", "delete", "wait",
                            "save", "remove"}
  <2>1. PICK pc \in {"create", "resolve", "remove", "delete", "save", "wait"} : Goto(t, pc)
    BY <1>9
  <2>2. pc \in Pcs /\ pc \notin {"recover", "poll"}
    BY DEF Pcs
  <2> HIDE DEF Goto
  <2> QED BY <2>1, <2>2, <1>3
<1>10. ASSUME Exits(t, "one") \/ Exits(t, "zero")
              \/ \E pc \in {"create", "resolve", "remove", "delete", "save", "wait"} : Goto(t, pc)
       PROVE proc' \in [Terminals -> Processes] /\ \A u \in Terminals : Sound(proc'[u], jobs')
  BY <1>10, <1>2, <1>3, <1>9, FreeToMove
<1> QED BY <1>1, <1>2, <1>6, <1>7, <1>8, <1>10, Assemble

\* Every submission step after the record is found or made.
LEMMA CreatedIsSound ==
  ASSUME IInv, NEW t \in Terminals, Created(t), proc[t].cmd.op = "job", ~proc[t].interrupted,
         jobs' \in [Names -> JobStates], \A n \in Names : Settles(jobs[n], jobs'[n])
  PROVE /\ proc' \in [Terminals -> Processes]
        /\ \A u \in Terminals : Sound(proc'[u], jobs')
        /\ told' \subseteq Names /\ unnamed' \subseteq Names
<1>1. CASE proc[t].cmd.detach
  <2>1. Finish(t, "live") /\ "live" \in JobStates /\ "live" \notin EndedJob
    BY <1>1 DEF Created, JobStates, EndedJob
  <2> QED BY <1>1, <2>1, FinishIsSound
<1>2. CASE ~proc[t].cmd.detach
  <2>1. Goto(t, "poll") /\ "poll" \in Pcs /\ UNCHANGED jobLog
    BY <1>2 DEF Created, Pcs
  <2>2. told' \subseteq Names /\ unnamed' \subseteq Names
    BY <2>1 DEF IInv, TypeOK
  <2> HIDE DEF Goto
  <2> QED BY <2>1, <2>2, FreeToMove
<1> QED BY <1>1, <1>2

\* Submission, polling and cancellation of jobs, but for the write of the record.
LEMMA JobSteps ==
  ASSUME IInv, NEW t \in Terminals,
         Lookup(t) \/ CreateJob(t) \/ Recover(t) \/ PollJob(t) \/ CheckJob(t) \/ CancelJob(t)
  PROVE IInv'
<1>0. /\ TypeOK /\ RestOK /\ proc[t] \in Processes /\ proc[t].name \in Names
      /\ Sound(proc[t], jobs) /\ jobs[proc[t].name] \in JobStates
  BY DEF IInv, TypeOK, RestOK, Processes
<1>1. record' = record /\ UNCHANGED <<epVars, given, intrs>>
  BY DEF Lookup, CreateJob, Recover, PollJob, CheckJob, CancelJob
<1>2. "live" \in JobStates /\ "cancelling" \in JobStates /\ "live" \notin EndedJob
      /\ "unknown" \notin EndedJob
  BY DEF JobStates, EndedJob
<1>3. /\ jobs' \in [Names -> JobStates] /\ \A n \in Names : Settles(jobs[n], jobs'[n])
      /\ late' \subseteq Names
  <2>1. CASE Lookup(t) \/ Recover(t) \/ PollJob(t) \/ CheckJob(t)
    <3>1. jobs' = jobs /\ late' = late
      BY <2>1 DEF Lookup, Recover, PollJob, CheckJob
    <3> QED BY <3>1, <1>0, Unchanged DEF RestOK
  <2>2. CASE CreateJob(t)
    <3>1. /\ late' \subseteq Names
          /\ jobs' = jobs \/ (jobs[proc[t].name] = "none" /\ jobs' = [jobs EXCEPT ![proc[t].name] = "live"])
      BY <2>2, <1>0 DEF CreateJob, RestOK
    <3>2. jobs[proc[t].name] = "none" => Settles(jobs[proc[t].name], "live")
      BY DEF Settles, EndedJob
    <3> QED BY <3>1, <3>2, <1>0, <1>2, Unchanged, OneJobChanges
  <2>3. CASE CancelJob(t)
    <3> DEFINE s == IF jobs[proc[t].name] = "live" THEN "cancelling" ELSE jobs[proc[t].name]
    <3>1. late' = late /\ (jobs' = jobs \/ jobs' = [jobs EXCEPT ![proc[t].name] = s])
      BY <2>3, <1>0 DEF CancelJob, TypeOK
    <3>2. s \in JobStates /\ Settles(jobs[proc[t].name], s)
      BY <1>0, <1>2 DEF Settles, EndedJob
    <3> HIDE DEF s
    <3> QED BY <3>1, <3>2, <1>0, Unchanged, OneJobChanges DEF RestOK
  <2> QED BY <2>1, <2>2, <2>3
<1>4. (JobFails(t) \/ JobFailsUnnamed(t)) /\ ~proc[t].interrupted =>
        /\ proc' \in [Terminals -> Processes]
        /\ \A u \in Terminals : Sound(proc'[u], jobs')
        /\ told' \subseteq Names /\ unnamed' \subseteq Names
  BY <1>0, <1>3, FreeToMove DEF JobFails, JobFailsUnnamed, RestOK
<1>5. ASSUME NEW pc \in {"create", "recover", "poll"}, Goto(t, pc), ~proc[t].interrupted,
             proc[t].cmd.op = "job",
             UNCHANGED jobLog
      PROVE /\ proc' \in [Terminals -> Processes]
            /\ \A u \in Terminals : Sound(proc'[u], jobs')
            /\ told' \subseteq Names /\ unnamed' \subseteq Names
  <2>1. pc \in Pcs
    BY DEF Pcs
  <2> HIDE DEF Goto
  <2> QED BY <2>1, <1>0, <1>3, <1>5, FreeToMove DEF RestOK
<1>6. /\ proc' \in [Terminals -> Processes]
      /\ \A u \in Terminals : Sound(proc'[u], jobs')
      /\ told' \subseteq Names /\ unnamed' \subseteq Names
  <2>1. CASE Lookup(t)
    <3>1. proc[t].cmd.op = "job" /\ ~proc[t].interrupted /\ jobs' = jobs
      BY <2>1, <1>0 DEF Lookup, Sound
    <3>2. CASE Goto(t, "create") /\ UNCHANGED jobLog
      BY <3>1, <3>2, <1>5
    <3>3. CASE \E s \in Answers(proc[t].name) :
                 IF proc[t].cmd.detach \/ s \in EndedJob THEN Finish(t, s)
                 ELSE Goto(t, "poll") /\ UNCHANGED jobLog
      <4>1. PICK s \in Answers(proc[t].name) :
                 IF proc[t].cmd.detach \/ s \in EndedJob THEN Finish(t, s)
                 ELSE Goto(t, "poll") /\ UNCHANGED jobLog
        BY <3>3
      <4>2. s \in JobStates \cup {"unknown"} /\ (s \in EndedJob => jobs[proc[t].name] = s)
        BY <1>0, <1>2 DEF Answers
      <4>3. CASE proc[t].cmd.detach \/ s \in EndedJob
        BY <4>1, <4>2, <4>3, <3>1, <1>3, FinishIsSound
      <4>4. CASE ~(proc[t].cmd.detach \/ s \in EndedJob)
        BY <4>1, <4>4, <3>1, <1>5
      <4> QED BY <4>3, <4>4
    <3>4. CASE Exits(t, "one") /\ UNCHANGED jobLog
      BY <3>1, <3>4, <1>0, <1>3, FreeToMove DEF RestOK
    <3> QED BY <2>1, <3>2, <3>3, <3>4 DEF Lookup
  <2>2. CASE CreateJob(t)
    <3>1. proc[t].cmd.op = "job" /\ ~proc[t].interrupted
      BY <2>2, <1>0 DEF CreateJob, Sound
    <3>2. \/ Created(t) \/ JobFails(t) \/ JobFailsUnnamed(t)
          \/ Goto(t, "recover") /\ UNCHANGED jobLog
      BY <2>2 DEF CreateJob
    <3> QED BY <3>1, <3>2, <1>3, <1>4, <1>5, CreatedIsSound
  <2>3. CASE Recover(t)
    <3>1. proc[t].cmd.op = "job" /\ ~proc[t].interrupted
      BY <2>3, <1>0 DEF Recover, Sound
    <3>2. Created(t) \/ JobFails(t)
      BY <2>3 DEF Recover
    <3> QED BY <3>1, <3>2, <1>3, <1>4, CreatedIsSound
  <2>4. CASE PollJob(t)
    <3>1. proc[t].pc = "poll" /\ proc[t].cmd.op = "job" /\ ~proc[t].interrupted /\ jobs' = jobs
      BY <2>4, <1>0 DEF PollJob, Sound
    <3>2. ASSUME NEW s \in Answers(proc[t].name), s \in EndedJob, Finish(t, s)
          PROVE /\ proc' \in [Terminals -> Processes]
                /\ \A u \in Terminals : Sound(proc'[u], jobs')
                /\ told' \subseteq Names /\ unnamed' \subseteq Names
      <4>1. s \in JobStates \cup {"unknown"} /\ jobs[proc[t].name] = s
        BY <3>2, <1>0, <1>2 DEF Answers
      <4> QED BY <4>1, <3>1, <3>2, <1>3, FinishIsSound
    <3>3. ASSUME NEW b \in BOOLEAN, proc' = [proc EXCEPT ![t].tolerated = b], UNCHANGED jobLog
          PROVE /\ proc' \in [Terminals -> Processes]
                /\ \A u \in Terminals : Sound(proc'[u], jobs')
                /\ told' \subseteq Names /\ unnamed' \subseteq Names
      <4> DEFINE p == [proc[t] EXCEPT !.tolerated = b]
      <4>1. proc' = [proc EXCEPT ![t] = p]
        BY <3>3, <1>0 DEF TypeOK
      <4>2. p \in Processes
        BY <1>0 DEF Processes
      <4>3. p.pc = "poll" /\ p.cmd = proc[t].cmd /\ ~p.interrupted
        BY <1>0, <3>1 DEF Processes
      <4> HIDE DEF p
      <4>4. Sound(p, jobs')
        BY <3>1, <4>3 DEF Sound
      <4> QED BY <1>0, <1>3, <3>3, <4>1, <4>2, <4>4, OneTerminalMoves DEF IInv, RestOK
    <3>4. CASE JobFails(t) \/ JobFailsUnnamed(t)
      BY <3>1, <3>4, <1>4
    <3>5. CASE ~(JobFails(t) \/ JobFailsUnnamed(t))
      <4>1. \/ \E s \in Answers(proc[t].name) :
                 \/ s \in EndedJob /\ Finish(t, s)
                 \/ proc' = [proc EXCEPT ![t].tolerated = FALSE] /\ UNCHANGED jobLog
            \/ proc' = [proc EXCEPT ![t].tolerated = TRUE] /\ UNCHANGED jobLog
        BY <2>4, <3>5 DEF PollJob
      <4> QED BY <4>1, <3>2, <3>3
    <3> QED BY <3>4, <3>5
  <2>5. CASE CheckJob(t)
    <3>1. proc[t].pc = "check" /\ jobs' = jobs
      BY <2>5 DEF CheckJob
    <3>2. CASE Cancelled(t, "failed")
      BY <3>1, <3>2, <1>3, CancelledIsSound
    <3>3. ASSUME NEW s \in Answers(proc[t].name), s \in EndedJob, Cancelled(t, "ok")
          PROVE /\ proc' \in [Terminals -> Processes]
                /\ \A u \in Terminals : Sound(proc'[u], jobs')
                /\ told' \subseteq Names /\ unnamed' \subseteq Names
      <4>1. jobs'[proc[t].name] \notin {"none", "live"}
        BY <3>1, <3>3, <1>2 DEF Answers, EndedJob
      <4> QED BY <4>1, <3>1, <3>3, <1>3, CancelledIsSound
    <3>4. ASSUME jobs[proc[t].name] # "none", Goto(t, "cancel"), UNCHANGED jobLog
          PROVE /\ proc' \in [Terminals -> Processes]
                /\ \A u \in Terminals : Sound(proc'[u], jobs')
                /\ told' \subseteq Names /\ unnamed' \subseteq Names
      <4>1. PICK p \in Processes :
              /\ proc' = [proc EXCEPT ![t] = p]
              /\ p.pc = "cancel" /\ p.name = proc[t].name /\ p.cmd = proc[t].cmd
              /\ p.interrupted = proc[t].interrupted
        <5>1. "cancel" \in Pcs
          BY DEF Pcs
        <5> HIDE DEF Goto
        <5> QED BY <5>1, <3>4, <1>0, GotoMoves
      <4>2. Sound(p, jobs')
        BY <4>1, <3>1, <3>4, <1>0 DEF Sound
      <4> QED BY <4>1, <4>2, <3>4, <1>0, <1>3, OneTerminalMoves DEF IInv, RestOK
    <3> QED BY <2>5, <3>2, <3>3, <3>4 DEF CheckJob
  <2>6. CASE CancelJob(t)
    <3>1. proc[t].pc = "cancel" /\ jobs[proc[t].name] # "none"
      BY <2>6, <1>0 DEF CancelJob, Sound
    <3>2. CASE Cancelled(t, "failed")
      BY <3>1, <3>2, <1>3, CancelledIsSound
    <3>3. CASE /\ Cancelled(t, "ok")
               /\ jobs' = [jobs EXCEPT ![proc[t].name] = IF @ = "live" THEN "cancelling" ELSE @]
      <4>1. jobs'[proc[t].name] \notin {"none", "live"}
        BY <3>1, <3>3, <1>0 DEF TypeOK
      <4> QED BY <4>1, <3>1, <3>3, <1>3, CancelledIsSound
    <3> QED BY <2>6, <3>2, <3>3 DEF CancelJob
  <2> QED BY <2>1, <2>2, <2>3, <2>4, <2>5, <2>6
<1>7. RestOK'
  BY <1>0, <1>1, <1>3, <1>6 DEF RestOK
<1> QED BY <1>1, <1>3, <1>6, <1>7, Assemble

LEMMA RecordStep ==
  ASSUME IInv, NEW t \in Terminals, Record(t)
  PROVE IInv'
<1>0. /\ TypeOK /\ RestOK /\ proc[t] \in Processes /\ proc[t].name \in Names
      /\ proc[t].seen \in JobStates \cup {"unknown"} /\ Sound(proc[t], jobs)
      /\ proc[t].pc = "record" /\ jobs' = jobs
  BY DEF IInv, TypeOK, RestOK, Processes, Record
<1>1. jobs' \in [Names -> JobStates] /\ \A n \in Names : Settles(jobs[n], jobs'[n])
  BY <1>0, Unchanged
<1>2. proc' \in [Terminals -> Processes] /\ \A u \in Terminals : Sound(proc'[u], jobs')
  <2>1. ~proc[t].interrupted /\ Exits(t, "zero")
    BY <1>0 DEF Sound, Record
  <2> QED BY <2>1, <1>0, <1>1, FreeToMove
<1>3. /\ record' \in [name : Names, status : JobStates \cup {"unknown"}]
      /\ record'.status \in EndedJob => jobs'[record'.name] = record'.status
  BY <1>0 DEF Record, Sound
<1>4. RestOK'
  BY <1>0, <1>3 DEF Record, RestOK
<1> QED BY <1>1, <1>2, <1>3, <1>4 DEF IInv, TypeOK, RestOK

\* A command begins.
LEMMA StartStep ==
  ASSUME IInv, NEW t \in Terminals, Start(t)
  PROVE IInv'
<1>0. TypeOK /\ RestOK /\ jobs' = jobs /\ record' = record
  BY DEF IInv, TypeOK, RestOK, Start
<1>1. jobs' \in [Names -> JobStates] /\ \A n \in Names : Settles(jobs[n], jobs'[n])
  BY <1>0, Unchanged
<1>2. given \in Nat /\ given + 1 \in 0..MaxCommands /\ given' = given + 1 /\ 0 \in Names
  BY <1>0, BoundAssumption DEF Start, RestOK, Names
<1>3. RestOK'
  <2>1. crossed' \in BOOLEAN
    BY <1>0 DEF Start, RestOK
  <2>2. /\ late' = late /\ UNCHANGED jobLog /\ endpoint' = endpoint /\ lateEp' = lateEp
        /\ entry' = entry /\ UNCHANGED epLog /\ intrs' = intrs
    BY DEF Start
  <2> QED BY <1>0, <1>2, <2>1, <2>2 DEF RestOK
<1>4. PICK c \in Commands :
        proc' = [proc EXCEPT ![t] = [Idle EXCEPT !.cmd = c,
              !.name = IF c.flow.looksUp /\ Concerns(c) = "job" THEN 0 ELSE given + 1,
              !.pc = CASE c.op = "job" -> IF c.flow.looksUp THEN "lookup" ELSE "create"
                       [] c.op = "cancel" -> "check"
                       [] c.op = "deploy" -> "entry"
                       [] c.op = "destroy" -> "resolve"]]
  BY DEF Start
<1> DEFINE n == IF c.flow.looksUp /\ Concerns(c) = "job" THEN 0 ELSE given + 1
           pc == CASE c.op = "job" -> IF c.flow.looksUp THEN "lookup" ELSE "create"
                   [] c.op = "cancel" -> "check"
                   [] c.op = "deploy" -> "entry"
                   [] c.op = "destroy" -> "resolve"
           p == [Idle EXCEPT !.cmd = c, !.name = n, !.pc = pc]
<1>5. c \in CommandLines /\ c.op \in {"job", "cancel", "deploy", "destroy"}
  BY CommandAssumption DEF CommandLines
<1>6. n \in Names
  BY <1>2 DEF Names
<1>7. /\ pc \in Pcs
      /\ pc = "lookup" => c.op = "job"
      /\ pc = "check" => c.op = "cancel"
      /\ pc \in {"entry", "resolve"} => c.op \in {"deploy", "destroy"}
      /\ pc \in {"lookup", "create", "check", "entry", "resolve"}
  BY <1>5 DEF Pcs
<1>8. proc' = [proc EXCEPT ![t] = p]
  BY <1>4
<1> HIDE DEF n, pc
<1>9. p \in Processes
  BY <1>2, <1>5, <1>6, <1>7 DEF Idle, Processes, JobStates
<1>10. p.pc = pc /\ p.cmd = c /\ ~p.interrupted
  BY DEF Idle
<1> HIDE DEF p
<1>11. Sound(p, jobs')
  BY <1>7, <1>10 DEF Sound
<1> QED BY <1>0, <1>1, <1>3, <1>8, <1>9, <1>11, OneTerminalMoves, Assemble DEF IInv

LEMMA EndStep ==
  ASSUME IInv, NEW t \in Terminals, End(t)
  PROVE IInv'
<1>0. TypeOK /\ RestOK' /\ jobs' = jobs /\ record' = record
  BY DEF IInv, TypeOK, RestOK, End
<1>1. jobs' \in [Names -> JobStates] /\ \A n \in Names : Settles(jobs[n], jobs'[n])
  BY <1>0, Unchanged
<1>2. Idle \in Processes
  BY BoundAssumption DEF Idle, Processes, Pcs, JobStates, Names
<1>3. Sound(Idle, jobs')
  BY DEF Idle, Sound
<1>4. proc' = [proc EXCEPT ![t] = Idle]
  BY DEF End
<1> QED BY <1>0, <1>1, <1>2, <1>3, <1>4, OneTerminalMoves, Assemble DEF IInv

LEMMA InterruptStep ==
  ASSUME IInv, NEW t \in Terminals, Interrupt(t)
  PROVE IInv'
<1>0. /\ TypeOK /\ RestOK /\ proc[t] \in Processes /\ proc[t].name \in Names
      /\ Sound(proc[t], jobs) /\ jobs' = jobs /\ record' = record
  BY DEF IInv, TypeOK, RestOK, Processes, Interrupt
<1>1. jobs' \in [Names -> JobStates] /\ \A n \in Names : Settles(jobs[n], jobs'[n])
  BY <1>0, Unchanged
<1>2. intrs' \in 0..MaxInterrupts
  BY <1>0, BoundAssumption DEF Interrupt, RestOK
<1>3. RestOK'
  BY <1>0, <1>2 DEF Interrupt, RestOK
<1>4. CASE proc[t].pc = "poll"
  <2> DEFINE p == [proc[t] EXCEPT !.pc = "check", !.interrupted = TRUE, !.tolerated = FALSE]
  <2>1. proc' = [proc EXCEPT ![t] = p]
    BY <1>0, <1>4 DEF Interrupt, TypeOK
  <2>2. p \in Processes
    BY <1>0 DEF Processes, Pcs
  <2>3. p.pc = "check" /\ p.interrupted
    BY <1>0 DEF Processes
  <2> HIDE DEF p
  <2>4. Sound(p, jobs')
    BY <2>3 DEF Sound
  <2> QED BY <1>0, <1>1, <1>3, <2>1, <2>2, <2>4, OneTerminalMoves, Assemble DEF IInv
<1>5. CASE proc[t].pc # "poll"
  <2> DEFINE p == [proc[t] EXCEPT !.pc = "done", !.exit = "one", !.cancel = "failed"]
  <2>1. proc' = [proc EXCEPT ![t] = p]
    BY <1>0, <1>5 DEF Interrupt, TypeOK
  <2>2. p \in Processes
    BY <1>0 DEF Processes, Pcs
  <2>3. p.pc = "done" /\ p.exit = "one" /\ p.cancel = "failed"
    BY <1>0 DEF Processes
  <2> HIDE DEF p
  <2>4. Sound(p, jobs')
    BY <2>3 DEF Sound
  <2> QED BY <1>0, <1>1, <1>3, <2>1, <2>2, <2>4, OneTerminalMoves, Assemble DEF IInv
<1> QED BY <1>4, <1>5

\* What Nebius does leaves every command where it is.
LEMMA NebiusSteps ==
  ASSUME IInv, LateJob \/ JobEnds \/ LateEndpoint \/ EndpointStarts
  PROVE IInv'
<1>0. TypeOK /\ RestOK /\ proc' = proc /\ record' = record
  BY DEF IInv, TypeOK, RestOK, LateJob, JobEnds, LateEndpoint, EndpointStarts
<1>1. jobs' \in [Names -> JobStates] /\ \A n \in Names : Settles(jobs[n], jobs'[n])
  <2>1. CASE LateJob
    <3>1. PICK n \in late : jobs' = [jobs EXCEPT ![n] = IF @ = "none" THEN "live" ELSE @]
      BY <2>1 DEF LateJob
    <3> DEFINE s == IF jobs[n] = "none" THEN "live" ELSE jobs[n]
    <3>2. n \in Names /\ s \in JobStates /\ Settles(jobs[n], s)
      BY <1>0 DEF RestOK, TypeOK, JobStates, EndedJob, Settles
    <3>3. jobs' = [jobs EXCEPT ![n] = s]
      BY <3>1, <3>2, <1>0 DEF TypeOK
    <3> HIDE DEF s
    <3> QED BY <3>2, <3>3, <1>0, OneJobChanges
  <2>2. CASE JobEnds
    <3>1. PICK n \in Names : jobs[n] \in {"live", "cancelling"}
                             /\ \E s \in EndedJob : jobs' = [jobs EXCEPT ![n] = s]
      BY <2>2 DEF JobEnds
    <3>2. PICK s \in EndedJob : jobs' = [jobs EXCEPT ![n] = s]
      BY <3>1
    <3>3. s \in JobStates /\ Settles(jobs[n], s)
      BY <3>1 DEF JobStates, EndedJob, Settles
    <3> QED BY <3>2, <3>3, <1>0, OneJobChanges
  <2>3. CASE LateEndpoint \/ EndpointStarts
    BY <2>3, <1>0, Unchanged DEF LateEndpoint, EndpointStarts
  <2> QED BY <2>1, <2>2, <2>3
<1>2. RestOK'
  <2>1. CASE LateJob \/ JobEnds
    BY <2>1, <1>0 DEF LateJob, JobEnds, RestOK
  <2>2. CASE LateEndpoint
    <3>1. \A id \in Names : Made(id) \in [id : Names, state : EndpointStates]
      BY <1>0 DEF Made, RestOK, EndpointStates
    <3> QED BY <2>2, <3>1, <1>0 DEF LateEndpoint, RestOK
  <2>3. CASE EndpointStarts
    BY <2>3, <1>0 DEF EndpointStarts, RestOK, EndpointStates
  <2> QED BY <2>1, <2>2, <2>3
<1>3. proc' \in [Terminals -> Processes] /\ \A u \in Terminals : Sound(proc'[u], jobs')
  <2>1. proc \in [Terminals -> Processes] /\ jobs \in [Names -> JobStates]
    BY <1>0 DEF TypeOK
  <2>2. ASSUME NEW u \in Terminals PROVE Sound(proc[u], jobs')
    BY <2>1, <1>1, SoundPersists DEF IInv
  <2> QED BY <2>1, <2>2, <1>0
<1> QED BY <1>0, <1>1, <1>2, <1>3, Assemble

\* The invariant: whatever the terminals, Nebius and the operator do, every command knows
\* of its job what it acts on, and the record of config.yaml is true of an ended job.
THEOREM InvariantHolds == Spec => []IInv
<1>1. Init => IInv
  BY InitialSound
<1>2. IInv /\ [Next]_vars => IInv'
  <2> SUFFICES ASSUME IInv, [Next]_vars PROVE IInv'
    OBVIOUS
  <2>1. ASSUME NEW t \in Terminals, Job(t) PROVE IInv'
    BY <2>1, JobSteps, RecordStep DEF Job
  <2>2. ASSUME NEW t \in Terminals, Start(t) \/ End(t) \/ Endpoint(t) \/ Interrupt(t) PROVE IInv'
    BY <2>2, StartStep, EndStep, EndpointSteps, InterruptStep
  <2>3. CASE LateJob \/ JobEnds \/ LateEndpoint \/ EndpointStarts
    BY <2>3, NebiusSteps
  <2>4. CASE UNCHANGED vars
    BY <2>4 DEF vars, IInv, TypeOK, Sound
  <2> QED BY <2>1, <2>2, <2>3, <2>4 DEF Next
<1> QED BY <1>1, <1>2, PTL DEF Spec

\* Every variable has its type.
THEOREM TypeCorrect == Spec => []TypeOK
<1>1. IInv => TypeOK
  BY DEF IInv
<1> QED BY <1>1, InvariantHolds, PTL

\* A command that waited and exits with zero has seen its job end, with success where the
\* exit code stands for that, and an ended status in config.yaml is the job's.
THEOREM AnswersStayFinal == Spec => []AnswersAreFinal
<1>1. IInv => AnswersAreFinal
  BY DEF IInv, AnswersAreFinal, Sound
<1> QED BY <1>1, InvariantHolds, PTL

\* A job whose waiting command was interrupted and cancelled it does not run on.
THEOREM InterruptStops == Spec => []InterruptStopsTheJob
<1>1. IInv => InterruptStopsTheJob
  BY DEF IInv, InterruptStopsTheJob, Sound
<1> QED BY <1>1, InvariantHolds, PTL
-----------------------------------------------------------------------------
(* Nothing that is paid for is forgotten.                                  *)

\* The jobs, and the endpoints, of which the operator was told or which the program loses.
Said == told \cup unnamed
SaidEp == toldEp \cup unnamedEp
USE DEF Said, SaidEp

\* What each kind of move does to the command that makes it, and to no other.
OthersStay(t) == \A u \in Terminals : u # t => proc'[u] = proc[u]

LEMMA GotoEffect ==
  ASSUME TypeOK, NEW t \in Terminals, NEW pc, Goto(t, pc)
  PROVE /\ OthersStay(t)
        /\ proc'[t].pc = pc /\ proc'[t].cmd = proc[t].cmd
        /\ proc'[t].name = proc[t].name /\ proc'[t].ref = proc[t].ref
<1>1. proc \in [Terminals -> Processes] /\ proc[t] \in Processes
  BY DEF TypeOK
<1> QED BY <1>1 DEF Goto, OthersStay, Processes

LEMMA ExitsEffect ==
  ASSUME TypeOK, NEW t \in Terminals, NEW code, Exits(t, code)
  PROVE /\ OthersStay(t)
        /\ proc'[t].pc = "done" /\ proc'[t].cmd = proc[t].cmd
        /\ proc'[t].name = proc[t].name /\ proc'[t].ref = 0
<1>1. proc \in [Terminals -> Processes] /\ proc[t] \in Processes
  BY DEF TypeOK
<1> QED BY <1>1 DEF Exits, OthersStay, Processes

LEMMA CancelledEffect ==
  ASSUME TypeOK, NEW t \in Terminals, NEW how, Cancelled(t, how)
  PROVE /\ OthersStay(t)
        /\ proc'[t].pc = "done" /\ proc'[t].cmd = proc[t].cmd
        /\ proc'[t].name = proc[t].name /\ proc'[t].ref = proc[t].ref
        /\ Said \subseteq Said'
        /\ how = "failed" /\ proc[t].cmd.op = "job" => proc[t].name \in Said'
<1>1. proc \in [Terminals -> Processes] /\ proc[t] \in Processes
  BY DEF TypeOK
<1> QED BY <1>1 DEF Cancelled, OthersStay, Processes

LEMMA FinishEffect ==
  ASSUME TypeOK, NEW t \in Terminals, NEW s, Finish(t, s)
  PROVE /\ OthersStay(t)
        /\ proc'[t].pc \in {"record", "done"} /\ proc'[t].cmd = proc[t].cmd
        /\ proc'[t].name = proc[t].name /\ proc'[t].ref \in {0, proc[t].ref}
        /\ Said \subseteq Said' /\ (proc'[t].pc = "record" \/ proc[t].name \in Said')
<1>1. proc \in [Terminals -> Processes] /\ proc[t] \in Processes
  BY DEF TypeOK
<1>2. Said \subseteq Said' /\ (~proc[t].cmd.flow.records => proc[t].name \in Said')
  BY DEF Finish
<1>3. CASE proc[t].cmd.flow.records
  <2>1. proc' = [proc EXCEPT ![t].pc = "record", ![t].seen = s, ![t].tolerated = FALSE]
    BY <1>3 DEF Finish
  <2> QED BY <1>1, <1>2, <2>1 DEF OthersStay, Processes
<1>4. CASE ~proc[t].cmd.flow.records
  <2>1. PICK code : Exits(t, code)
    BY <1>4 DEF Finish
  <2> QED BY <1>2, <1>4, <2>1, ExitsEffect
<1> QED BY <1>3, <1>4

\* A job that runs, or of which a creation is still out, needs somebody to know of it.
Exposed(n, j, l) == j[n] = "live" \/ (n \in l /\ j[n] = "none")
Holds(p, n) ==
    /\ p.pc \in {"create", "recover", "poll", "record", "check", "cancel"}
    /\ p.cmd.op = "job"
    /\ p.name = n
JobsHeld ==
    \A n \in Names : Exposed(n, jobs, late) => n \in Said \/ \E t \in Terminals : Holds(proc[t], n)

\* A step of one command keeps that, if it leaves the other jobs as they are and the own
\* job told of, held or not running.
LEMMA JobsStayHeld ==
  ASSUME JobsHeld, NEW t \in Terminals, OthersStay(t), Said \subseteq Said', NEW n, n = proc[t].name,
         \A m \in Names \ {n} : Exposed(m, jobs', late') => Exposed(m, jobs, late),
         \/ n \in Said'
         \/ Holds(proc'[t], n)
         \/ ~Exposed(n, jobs', late')
         \/ ~Holds(proc[t], n) /\ (Exposed(n, jobs', late') => Exposed(n, jobs, late))
  PROVE JobsHeld'
<1> SUFFICES ASSUME NEW m \in Names, Exposed(m, jobs', late')
             PROVE  m \in Said' \/ \E u \in Terminals : Holds(proc'[u], m)
  BY DEF JobsHeld, Exposed
<1>1. CASE m = n /\ (n \in Said' \/ Holds(proc'[t], n))
  BY <1>1
<1>2. CASE ~(m = n /\ (n \in Said' \/ Holds(proc'[t], n)))
  <2>1. Exposed(m, jobs, late) /\ ~Holds(proc[t], m)
    BY <1>2 DEF Holds
  <2>2. m \in Said \/ \E u \in Terminals : Holds(proc[u], m)
    BY <2>1 DEF JobsHeld
  <2> QED BY <2>1, <2>2 DEF OthersStay
<1> QED BY <1>1, <1>2

LEMMA JobStepsHold ==
  ASSUME IInv, JobsHeld, NEW t \in Terminals, Job(t)
  PROVE JobsHeld'
<1>0. /\ TypeOK /\ proc[t] \in Processes /\ proc[t].name \in Names /\ Sound(proc[t], jobs)
      /\ \A s \in EndedJob : s \notin {"none", "live"}
      /\ "unknown" \notin EndedJob
  BY DEF IInv, TypeOK, Processes, EndedJob
<1> DEFINE n == proc[t].name
<1>1. ASSUME proc[t].cmd.op = "job", Created(t) \/ JobFails(t) \/ JobFailsUnnamed(t)
      PROVE  OthersStay(t) /\ Said \subseteq Said' /\ (n \in Said' \/ Holds(proc'[t], n))
  <2>1. CASE JobFails(t) \/ JobFailsUnnamed(t)
    BY <2>1, <1>0, ExitsEffect DEF JobFails, JobFailsUnnamed
  <2>2. CASE Created(t) /\ proc[t].cmd.detach
    BY <2>2, <1>0, <1>1, FinishEffect DEF Created, Holds
  <2>3. CASE Created(t) /\ ~proc[t].cmd.detach
    <3>1. Goto(t, "poll") /\ Said' = Said
      BY <2>3 DEF Created
    <3> QED BY <1>0, <1>1, <3>1, GotoEffect DEF Holds
  <2> QED BY <1>1, <2>1, <2>2, <2>3
<1>2. ASSUME NEW s \in EndedJob, s \in Answers(n), jobs' = jobs
      PROVE  ~Exposed(n, jobs', late)
  BY <1>0, <1>2 DEF Answers, Exposed
<1>3. CASE Lookup(t)
  <2>1. ~Holds(proc[t], n) /\ jobs' = jobs /\ late' = late
    BY <1>3 DEF Lookup, Holds
  <2>2. OthersStay(t) /\ Said \subseteq Said'
    BY <1>0, <1>3, GotoEffect, ExitsEffect, FinishEffect DEF Lookup
  <2> QED BY <2>1, <2>2, JobsStayHeld
<1>4. CASE CreateJob(t)
  <2>1. proc[t].pc = "create" /\ proc[t].cmd.op = "job"
    BY <1>4 DEF CreateJob
  <2>2. OthersStay(t) /\ Said \subseteq Said' /\ (n \in Said' \/ Holds(proc'[t], n))
    <3>1. CASE Goto(t, "recover") /\ UNCHANGED jobLog
      BY <1>0, <2>1, <3>1, GotoEffect DEF Holds
    <3> QED BY <1>1, <1>4, <2>1, <3>1 DEF CreateJob
  <2>3. \A m \in Names \ {n} : Exposed(m, jobs', late') => Exposed(m, jobs, late)
    BY <1>0, <1>4 DEF CreateJob, Exposed, TypeOK
  <2> QED BY <2>2, <2>3, JobsStayHeld
<1>5. CASE Recover(t)
  <2>1. proc[t].cmd.op = "job" /\ jobs' = jobs /\ late' = late
    BY <1>0, <1>5 DEF Recover, Sound
  <2>2. OthersStay(t) /\ Said \subseteq Said' /\ (n \in Said' \/ Holds(proc'[t], n))
    BY <1>1, <1>5, <2>1 DEF Recover
  <2> QED BY <2>1, <2>2, JobsStayHeld
<1>6. CASE PollJob(t)
  <2>1. proc[t].pc = "poll" /\ proc[t].cmd.op = "job" /\ jobs' = jobs /\ late' = late
    BY <1>0, <1>6 DEF PollJob, Sound
  <2>2. ASSUME NEW s \in Answers(n), s \in EndedJob, Finish(t, s) PROVE JobsHeld'
    BY <1>0, <1>2, <2>1, <2>2, FinishEffect, JobsStayHeld
  <2>3. ASSUME NEW b \in BOOLEAN, proc' = [proc EXCEPT ![t].tolerated = b], Said' = Said
        PROVE JobsHeld'
    <3>1. OthersStay(t) /\ Holds(proc'[t], n)
      BY <1>0, <2>1, <2>3 DEF OthersStay, Holds, TypeOK, Processes
    <3> QED BY <2>1, <2>3, <3>1, JobsStayHeld
  <2>4. CASE JobFails(t) \/ JobFailsUnnamed(t)
    BY <1>0, <2>1, <2>4, ExitsEffect, JobsStayHeld DEF JobFails, JobFailsUnnamed
  <2> QED BY <1>6, <2>2, <2>3, <2>4 DEF PollJob
<1>7. CASE Record(t)
  <2>1. n \in Said' /\ Said \subseteq Said' /\ jobs' = jobs /\ late' = late
    BY <1>7 DEF Record
  <2> QED BY <1>0, <1>7, <2>1, ExitsEffect, JobsStayHeld DEF Record
<1>8. CASE CheckJob(t)
  <2>1. proc[t].pc = "check" /\ jobs' = jobs /\ late' = late
    BY <1>8 DEF CheckJob
  <2>2. ASSUME NEW s \in Answers(n), s \in EndedJob, Cancelled(t, "ok") PROVE JobsHeld'
    BY <1>0, <1>2, <2>1, <2>2, CancelledEffect, JobsStayHeld
  <2>3. ASSUME Goto(t, "cancel"), Said' = Said PROVE JobsHeld'
    <3>1. OthersStay(t) /\ (Holds(proc'[t], n) \/ ~Holds(proc[t], n))
      BY <1>0, <2>1, <2>3, GotoEffect DEF Holds
    <3> QED BY <2>1, <2>3, <3>1, JobsStayHeld
  <2>4. CASE Cancelled(t, "failed")
    BY <1>0, <2>1, <2>4, CancelledEffect, JobsStayHeld DEF Holds
  <2> QED BY <1>8, <2>2, <2>3, <2>4 DEF CheckJob
<1>9. CASE CancelJob(t)
  <2>1. proc[t].pc = "cancel" /\ late' = late /\ jobs[n] # "none"
    BY <1>0, <1>9 DEF CancelJob, Sound
  <2>2. /\ \A m \in Names \ {n} : jobs'[m] = jobs[m]
        /\ jobs'[n] # "none"
    BY <1>0, <1>9, <2>1 DEF CancelJob, TypeOK
  <2>3. \A m \in Names \ {n} : Exposed(m, jobs', late') => Exposed(m, jobs, late)
    BY <2>1, <2>2 DEF Exposed
  <2>4. CASE Cancelled(t, "failed")
    <3>1. Exposed(n, jobs', late') => Exposed(n, jobs, late)
      BY <1>0, <1>9, <2>1, <2>2 DEF CancelJob, Exposed, TypeOK
    <3> QED BY <1>0, <2>3, <2>4, <3>1, CancelledEffect, JobsStayHeld DEF Holds
  <2>5. CASE Cancelled(t, "ok") /\ jobs' = [jobs EXCEPT ![n] = IF @ = "live" THEN "cancelling" ELSE @]
    <3>1. ~Exposed(n, jobs', late')
      BY <1>0, <2>1, <2>2, <2>5 DEF Exposed, TypeOK
    <3> QED BY <1>0, <2>3, <2>5, <3>1, CancelledEffect, JobsStayHeld
  <2> QED BY <1>9, <2>4, <2>5 DEF CancelJob
<1> QED BY <1>3, <1>4, <1>5, <1>6, <1>7, <1>8, <1>9 DEF Job

\* Every other step keeps the jobs known.
LEMMA OtherStepsHold ==
  ASSUME IInv, JobsHeld, [Next]_vars, \A t \in Terminals : ~Job(t)
  PROVE JobsHeld'
<1>0. TypeOK
  BY DEF IInv
<1>1. ASSUME NEW t \in Terminals, Start(t) \/ End(t) PROVE JobsHeld'
  <2>1. /\ jobs' = jobs /\ late' = late /\ Said' = Said /\ proc[t].pc \in {"idle", "done"}
        /\ OthersStay(t)
    BY <1>0, <1>1 DEF Start, End, OthersStay, TypeOK
  <2>2. ~Holds(proc[t], proc[t].name)
    BY <2>1 DEF Holds
  <2> QED BY <2>1, <2>2, JobsStayHeld
<1>2. ASSUME NEW t \in Terminals, Endpoint(t) PROVE JobsHeld'
  <2>1. jobs' = jobs /\ late' = late /\ Said' = Said
    BY <1>2 DEF Endpoint, CheckEntry, ResolveEntry, FindEndpoint, DeleteEndpoint, CreateEndpoint,
                WaitForRunning, SaveEndpoint, RemoveEntry
  <2>2. ~Holds(proc[t], proc[t].name)
    BY <1>2 DEF Endpoint, CheckEntry, ResolveEntry, FindEndpoint, DeleteEndpoint, CreateEndpoint,
                WaitForRunning, SaveEndpoint, RemoveEntry, Holds
  <2>3. OthersStay(t)
    <3>1. CASE CheckEntry(t)
      BY <1>0, <3>1, GotoEffect, ExitsEffect DEF CheckEntry
    <3>2. CASE ResolveEntry(t)
      <4>1. CASE proc' = [proc EXCEPT ![t].pc = "find", ![t].ref = entry]
        BY <1>0, <4>1 DEF TypeOK, OthersStay
      <4> QED BY <1>0, <3>2, <4>1, GotoEffect, ExitsEffect DEF ResolveEntry
    <3>3. CASE FindEndpoint(t) \/ DeleteEndpoint(t)
      BY <1>0, <3>3, GotoEffect, ExitsEffect DEF FindEndpoint, DeleteEndpoint, Deleted, EndpointFails
    <3>4. CASE CreateEndpoint(t) \/ WaitForRunning(t)
      BY <1>0, <3>4, GotoEffect, ExitsEffect DEF CreateEndpoint, WaitForRunning, EndpointFails
    <3>5. CASE SaveEndpoint(t) \/ RemoveEntry(t)
      BY <1>0, <3>5, ExitsEffect DEF SaveEndpoint, RemoveEntry
    <3> QED BY <1>2, <3>1, <3>2, <3>3, <3>4, <3>5 DEF Endpoint
  <2> QED BY <2>1, <2>2, <2>3, JobsStayHeld
<1>3. ASSUME NEW t \in Terminals, Interrupt(t) PROVE JobsHeld'
  <2> DEFINE n == proc[t].name
  <2>0. proc[t] \in Processes /\ OthersStay(t) /\ jobs' = jobs /\ Said \subseteq Said'
        /\ \A m \in Names \ {n} : m \in late' => m \in late
    BY <1>0, <1>3 DEF Interrupt, OthersStay, TypeOK
  <2>1. \A m \in Names \ {n} : Exposed(m, jobs', late') => Exposed(m, jobs, late)
    BY <2>0 DEF Exposed
  <2>2. CASE proc[t].pc = "poll"
    <3>1. late' = late /\ (Holds(proc'[t], n) \/ ~Holds(proc[t], n))
      BY <1>0, <1>3, <2>0, <2>2 DEF Interrupt, Holds, TypeOK, Processes
    <3> QED BY <2>0, <2>1, <3>1, JobsStayHeld
  <2>3. CASE proc[t].pc # "poll" /\ proc[t].cmd.op = "job"
    <3>1. n \in Said' \/ (late' = late /\ ~Holds(proc[t], n))
      BY <1>3, <2>3 DEF Interrupt, Holds
    <3> QED BY <2>0, <2>1, <3>1, JobsStayHeld
  <2>4. CASE proc[t].pc # "poll" /\ proc[t].cmd.op # "job"
    <3>1. late' = late /\ ~Holds(proc[t], n)
      BY <1>3, <2>4 DEF Interrupt, Holds
    <3> QED BY <2>0, <2>1, <3>1, JobsStayHeld
  <2> QED BY <2>2, <2>3, <2>4
<1>4. CASE LateJob \/ JobEnds \/ LateEndpoint \/ EndpointStarts \/ UNCHANGED vars
  <2>1. proc' = proc /\ Said' = Said
    BY <1>4 DEF LateJob, JobEnds, LateEndpoint, EndpointStarts, vars
  <2>2. \A n \in Names : Exposed(n, jobs', late') => Exposed(n, jobs, late)
    <3>1. CASE LateJob
      BY <1>0, <3>1 DEF LateJob, Exposed, TypeOK
    <3>2. CASE JobEnds
      BY <1>0, <3>2 DEF JobEnds, Exposed, TypeOK, EndedJob
    <3>3. CASE LateEndpoint \/ EndpointStarts \/ UNCHANGED vars
      BY <3>3 DEF LateEndpoint, EndpointStarts, vars, Exposed
    <3> QED BY <1>4, <3>1, <3>2, <3>3
  <2> QED BY <2>1, <2>2 DEF JobsHeld, Exposed
<1> QED BY <1>1, <1>2, <1>3, <1>4 DEF Next

\* A deploy makes its endpoint under an id that nothing else names yet; the endpoint it
\* waits for is its own. With no destroy beside another command, a destroy's endpoint is
\* the one of the entry until the entry goes.
Deploying(t) == proc[t].pc \notin {"idle", "done"} /\ proc[t].cmd.op = "deploy"
IdsAreFresh ==
    /\ entry <= given
    /\ \A t \in Terminals : proc[t].ref <= given
    /\ \A t \in Terminals : Deploying(t) =>
         /\ proc[t].name \in 1..given
         /\ entry # proc[t].name
         /\ \A u \in Terminals : proc[u].ref # proc[t].name
         /\ \A u \in Terminals : u # t /\ Deploying(u) => proc[u].name # proc[t].name
MadeIsOwn ==
    \A t \in Terminals : proc[t].pc \in {"wait", "save"} =>
        proc[t].cmd.op = "deploy" /\ endpoint.id = proc[t].name
DestroyIsAlone ==
    ~crossed => \A t, u \in Terminals :
        t # u /\ proc[t].pc # "idle" /\ proc[t].cmd.op = "destroy" /\ proc[u].pc # "idle" =>
            proc[u].cmd.op \notin {"deploy", "destroy"}
DestroyKnows ==
    /\ \A t \in Terminals : proc[t].pc = "remove" => proc[t].cmd.op = "destroy"
    /\ ~crossed => \A t \in Terminals : proc[t].cmd.op = "destroy" =>
         /\ proc[t].pc \in {"find", "delete", "remove"} => proc[t].ref = entry /\ entry # 0
         /\ proc[t].pc = "remove" => endpoint.id # entry \/ endpoint.id \in SaidEp
EndpointHeld ==
    endpoint # NoEndpoint /\ ~crossed =>
        \/ endpoint.id \in {entry} \cup SaidEp
        \/ \E t \in Terminals : proc[t].pc \in {"wait", "save"} /\ proc[t].name = endpoint.id
EndpointInv ==
    /\ IdsAreFresh /\ MadeIsOwn /\ DestroyIsAlone /\ DestroyKnows /\ EndpointHeld
    /\ lateEp \subseteq SaidEp

LEMMA EndpointStepsHold ==
  ASSUME IInv, EndpointInv, NEW t \in Terminals, Endpoint(t)
  PROVE EndpointInv'
<1>0. /\ TypeOK /\ proc[t] \in Processes /\ Sound(proc[t], jobs) /\ proc[t].pc \notin {"idle", "done"}
      /\ endpoint.id \in Nat /\ entry \in Nat /\ given \in Nat
      /\ \A u \in Terminals : proc[u].name \in Nat /\ proc[u].ref \in Nat
      /\ given' = given /\ crossed' = crossed /\ SaidEp \subseteq SaidEp'
  BY BoundAssumption
  DEF IInv, TypeOK, Processes, Names, Endpoint, CheckEntry, ResolveEntry, FindEndpoint,
      DeleteEndpoint, CreateEndpoint, WaitForRunning, SaveEndpoint, RemoveEntry, EndpointFails
<1> HIDE DEF Goto
<1> USE DEF EndpointInv, IdsAreFresh, MadeIsOwn, DestroyIsAlone, DestroyKnows, EndpointHeld,
            Deploying, OthersStay
<1>1. CASE CheckEntry(t)
  <2>1. proc[t].pc = "entry" /\ endpoint' = endpoint /\ entry' = entry /\ lateEp' = lateEp /\ SaidEp' = SaidEp
    BY <1>1 DEF CheckEntry
  <2>2. /\ OthersStay(t) /\ proc'[t].pc \in {"create", "resolve", "done"}
        /\ proc'[t].cmd = proc[t].cmd /\ proc'[t].name = proc[t].name
        /\ proc'[t].ref \in {0, proc[t].ref}
    BY <1>0, <1>1, GotoEffect, ExitsEffect DEF CheckEntry
  <2> QED BY <1>0, <2>1, <2>2
<1>2. CASE ResolveEntry(t)
  <2>1. proc[t].pc = "resolve" /\ endpoint' = endpoint /\ entry' = entry /\ lateEp' = lateEp /\ SaidEp' = SaidEp
    BY <1>2 DEF ResolveEntry
  <2>2. /\ OthersStay(t) /\ proc'[t].cmd = proc[t].cmd /\ proc'[t].name = proc[t].name
        /\ \/ proc'[t].pc = "find" /\ proc'[t].ref = entry /\ entry # 0
           \/ proc'[t].pc \in {"create", "done"} /\ proc'[t].ref \in {0, proc[t].ref}
    <3>1. CASE proc' = [proc EXCEPT ![t].pc = "find", ![t].ref = entry]
      BY <1>0, <1>2, <3>1, BoundAssumption
      DEF ResolveEntry, TypeOK, Processes, Goto, Exits
    <3> QED BY <1>0, <1>2, <3>1, GotoEffect, ExitsEffect DEF ResolveEntry
  <2> QED BY <1>0, <2>1, <2>2
<1>3. CASE FindEndpoint(t)
  <2>1. proc[t].pc = "find" /\ endpoint' = endpoint /\ entry' = entry /\ lateEp' = lateEp
    BY <1>3 DEF FindEndpoint
  <2>2. /\ OthersStay(t) /\ proc'[t].cmd = proc[t].cmd /\ proc'[t].name = proc[t].name
        /\ proc'[t].ref \in {0, proc[t].ref}
        /\ \/ proc'[t].pc = "create" /\ proc[t].cmd.op = "deploy"
           \/ /\ proc'[t].pc = "remove" /\ proc[t].cmd.op # "deploy"
              /\ endpoint.id # proc[t].ref /\ proc'[t].ref = proc[t].ref
           \/ proc'[t].pc = "delete" /\ proc'[t].ref = proc[t].ref
           \/ proc'[t].pc = "done"
    BY <1>0, <1>3, GotoEffect, ExitsEffect DEF FindEndpoint, Deleted, EndpointFails
  <2>3. proc[t].cmd.op \in {"deploy", "destroy"}
    BY <1>0, <2>1 DEF Sound
  <2> QED BY <1>0, <2>1, <2>2, <2>3
<1>4. CASE DeleteEndpoint(t)
  <2>1. proc[t].pc = "delete" /\ entry' = entry /\ lateEp' = lateEp
    BY <1>4 DEF DeleteEndpoint
  <2>2. /\ OthersStay(t) /\ proc'[t].cmd = proc[t].cmd /\ proc'[t].name = proc[t].name
        /\ proc'[t].ref \in {0, proc[t].ref}
        /\ \/ /\ proc'[t].pc = "create" /\ proc[t].cmd.op = "deploy"
              /\ endpoint' = WithoutRef(t)
           \/ /\ proc'[t].pc = "remove" /\ proc[t].cmd.op # "deploy"
              /\ endpoint' = WithoutRef(t) /\ proc'[t].ref = proc[t].ref
           \/ proc'[t].pc = "done" /\ endpoint' \in {endpoint, WithoutRef(t)}
    <3>1. CASE Deleted(t) /\ endpoint' = WithoutRef(t)
      BY <1>0, <3>1, GotoEffect DEF Deleted
    <3>2. CASE Exits(t, "one") /\ endpoint' \in {endpoint, WithoutRef(t)}
      BY <1>0, <3>2, ExitsEffect
    <3> QED BY <1>4, <3>1, <3>2 DEF DeleteEndpoint
  <2>3. proc[t].cmd.op \in {"deploy", "destroy"}
    BY <1>0, <2>1 DEF Sound
  <2>4. endpoint' = endpoint \/ (endpoint' = NoEndpoint /\ endpoint.id = proc[t].ref)
    BY <2>2 DEF WithoutRef
  <2>5. endpoint' = WithoutRef(t) => endpoint'.id # proc[t].ref \/ proc[t].ref = 0
    BY DEF WithoutRef, NoEndpoint
  <2>6. NoEndpoint.id = 0
    BY DEF NoEndpoint
  <2>7. IdsAreFresh' /\ DestroyIsAlone' /\ lateEp' \subseteq SaidEp'
    BY <1>0, <2>1, <2>2
  <2>8. MadeIsOwn'
    BY <1>0, <2>1, <2>2, <2>4
  <2>9. DestroyKnows'
    BY <1>0, <2>1, <2>2, <2>3, <2>4, <2>5, <2>6
  <2>10. EndpointHeld'
    BY <1>0, <2>1, <2>2, <2>4
  <2> QED BY <2>7, <2>8, <2>9, <2>10
<1>5. CASE CreateEndpoint(t)
  <2>1. proc[t].pc = "create" /\ proc[t].cmd.op = "deploy" /\ entry' = entry
    BY <1>5 DEF CreateEndpoint
  <2>2. /\ OthersStay(t) /\ proc'[t].cmd = proc[t].cmd /\ proc'[t].name = proc[t].name
        /\ proc'[t].ref \in {0, proc[t].ref} /\ lateEp' \subseteq SaidEp'
        /\ \/ /\ proc'[t].pc \in {"wait", "save"}
              /\ endpoint = NoEndpoint /\ endpoint' = Made(proc[t].name)
           \/ /\ proc'[t].pc = "done" /\ proc[t].name \in SaidEp'
              /\ endpoint' = endpoint \/ (endpoint = NoEndpoint /\ endpoint' = Made(proc[t].name))
    <3>1. ASSUME NEW pc \in {"wait", "save"}, Goto(t, pc)
          PROVE  /\ OthersStay(t) /\ proc'[t].cmd = proc[t].cmd /\ proc'[t].name = proc[t].name
                 /\ proc'[t].ref = proc[t].ref /\ proc'[t].pc = pc
      BY <1>0, <3>1, GotoEffect
    <3> DEFINE FailsNamed == /\ Exits(t, "one") /\ toldEp' = toldEp \cup {proc[t].name}
                             /\ UNCHANGED unnamedEp
    <3>2. ASSUME EndpointFails(t) \/ FailsNamed
          PROVE  /\ OthersStay(t) /\ proc'[t].cmd = proc[t].cmd /\ proc'[t].name = proc[t].name
                 /\ proc'[t].ref = 0 /\ proc'[t].pc = "done" /\ proc[t].name \in SaidEp'
      BY <1>0, <3>2, ExitsEffect DEF EndpointFails
    <3>3. \/ /\ endpoint = NoEndpoint /\ endpoint' = Made(proc[t].name) /\ lateEp' = lateEp
             /\ \/ Goto(t, IF proc[t].cmd.detach THEN "save" ELSE "wait")
                \/ EndpointFails(t)
          \/ /\ FailsNamed /\ endpoint' = endpoint
             /\ lateEp' \in {lateEp, lateEp \cup {proc[t].name}}
      BY <1>5 DEF CreateEndpoint
    <3>4. lateEp' \subseteq SaidEp'
      BY <1>0, <3>2, <3>3
    <3> QED BY <3>1, <3>2, <3>3, <3>4
  <2>3. endpoint = NoEndpoint => Made(proc[t].name).id = proc[t].name
    BY DEF Made
  <2>4. NoEndpoint.id = 0
    BY DEF NoEndpoint
  <2>5. IdsAreFresh' /\ DestroyIsAlone'
    BY <1>0, <2>1, <2>2
  <2>6. MadeIsOwn'
    BY <1>0, <2>1, <2>2, <2>3, <2>4
  <2>7. DestroyKnows'
    BY <1>0, <2>1, <2>2, <2>3
  <2>8. EndpointHeld'
    BY <1>0, <2>1, <2>2, <2>3
  <2> QED BY <2>2, <2>5, <2>6, <2>7, <2>8
<1>6. CASE WaitForRunning(t)
  <2>1. proc[t].pc = "wait" /\ endpoint' = endpoint /\ entry' = entry /\ lateEp' = lateEp
    BY <1>6 DEF WaitForRunning
  <2>2. /\ OthersStay(t) /\ proc'[t].cmd = proc[t].cmd /\ proc'[t].name = proc[t].name
        /\ proc'[t].ref \in {0, proc[t].ref}
        /\ \/ proc'[t].pc = "save"
           \/ proc'[t].pc = "done" /\ proc[t].name \in SaidEp'
    <3>1. CASE Goto(t, "save")
      BY <1>0, <3>1, GotoEffect
    <3>2. CASE EndpointFails(t)
      BY <1>0, <3>2, ExitsEffect DEF EndpointFails
    <3> QED BY <1>6, <3>1, <3>2 DEF WaitForRunning
  <2> QED BY <1>0, <2>1, <2>2
<1>7. CASE SaveEndpoint(t)
  <2>1. /\ proc[t].pc = "save" /\ endpoint' = endpoint /\ entry' = proc[t].name
        /\ lateEp' = lateEp /\ SaidEp' = SaidEp /\ proc[t].cmd.op = "deploy"
    BY <1>7 DEF SaveEndpoint
  <2>2. /\ OthersStay(t) /\ proc'[t].cmd = proc[t].cmd /\ proc'[t].name = proc[t].name
        /\ proc'[t].ref = 0 /\ proc'[t].pc = "done"
    BY <1>0, <1>7, ExitsEffect DEF SaveEndpoint
  <2> QED BY <1>0, <2>1, <2>2
<1>8. CASE RemoveEntry(t)
  <2>1. /\ proc[t].pc = "remove" /\ endpoint' = endpoint /\ entry' = 0
        /\ lateEp' = lateEp /\ SaidEp' = SaidEp /\ proc[t].cmd.op = "destroy"
    BY <1>8 DEF RemoveEntry
  <2>2. /\ OthersStay(t) /\ proc'[t].cmd = proc[t].cmd /\ proc'[t].name = proc[t].name
        /\ proc'[t].ref = 0 /\ proc'[t].pc = "done"
    BY <1>0, <1>8, ExitsEffect DEF RemoveEntry
  <2> QED BY <1>0, <2>1, <2>2
<1> QED BY <1>1, <1>2, <1>3, <1>4, <1>5, <1>6, <1>7, <1>8 DEF Endpoint

\* A destroy beside a deploy or another destroy is noted.
LEMMA DestroyBesides ==
  ASSUME NEW a, NEW b, a = "destroy" \/ b = "destroy", {a, b} \subseteq {"deploy", "destroy"}
  PROVE {a, b} \in {{"deploy", "destroy"}, {"destroy"}}
<1>1. a \in {"deploy", "destroy"} /\ b \in {"deploy", "destroy"}
  OBVIOUS
<1>2. CASE a = "deploy" \/ b = "deploy"
  <2>1. {a, b} = {"deploy", "destroy"}
    BY <1>1, <1>2
  <2> QED BY <2>1
<1>3. CASE a = "destroy" /\ b = "destroy"
  <2>1. {a, b} = {"destroy"}
    BY <1>3
  <2> QED BY <2>1
<1> QED BY <1>1, <1>2, <1>3

\* A command that begins takes an id that is new; crossed notes a destroy beside another.
LEMMA StartKeepsEndpoint ==
  ASSUME IInv, EndpointInv, NEW t \in Terminals, Start(t)
  PROVE EndpointInv'
<1>0. /\ TypeOK /\ proc[t].pc = "idle" /\ given \in Nat /\ given' = given + 1
      /\ endpoint.id \in Nat /\ entry \in Nat
      /\ \A u \in Terminals : proc[u].name \in Nat /\ proc[u].ref \in Nat
      /\ endpoint' = endpoint /\ entry' = entry /\ lateEp' = lateEp /\ SaidEp' = SaidEp
  BY BoundAssumption DEF IInv, TypeOK, Processes, Names, Start
<1>1. PICK c \in Commands :
        /\ OthersStay(t)
        /\ proc'[t].cmd = c /\ proc'[t].ref = 0
        /\ proc'[t].pc \in {"lookup", "create", "check", "entry", "resolve"}
        /\ c.op \in {"deploy", "destroy"} => proc'[t].name = given + 1
        /\ crossed' = (crossed \/ \E u \in Terminals :
             proc[u].pc # "idle" /\ {c.op, proc[u].cmd.op} \in {{"deploy", "destroy"}, {"destroy"}})
  <2>1. PICK c \in Commands :
        /\ proc' = [proc EXCEPT ![t] = [Idle EXCEPT !.cmd = c,
              !.name = IF c.flow.looksUp /\ Concerns(c) = "job" THEN 0 ELSE given + 1,
              !.pc = CASE c.op = "job" -> IF c.flow.looksUp THEN "lookup" ELSE "create"
                       [] c.op = "cancel" -> "check"
                       [] c.op = "deploy" -> "entry"
                       [] c.op = "destroy" -> "resolve"]]
        /\ crossed' = (crossed \/ \E u \in Terminals :
             proc[u].pc # "idle" /\ {c.op, proc[u].cmd.op} \in {{"deploy", "destroy"}, {"destroy"}})
    BY DEF Start
  <2>2. c.op \in {"job", "cancel", "deploy", "destroy"}
    BY CommandAssumption DEF CommandLines
  <2>3. /\ proc'[t] = [Idle EXCEPT !.cmd = c,
              !.name = IF c.flow.looksUp /\ Concerns(c) = "job" THEN 0 ELSE given + 1,
              !.pc = CASE c.op = "job" -> IF c.flow.looksUp THEN "lookup" ELSE "create"
                       [] c.op = "cancel" -> "check"
                       [] c.op = "deploy" -> "entry"
                       [] c.op = "destroy" -> "resolve"]
        /\ OthersStay(t)
    BY <1>0, <2>1 DEF TypeOK, OthersStay
  <2>4. /\ proc'[t].cmd = c /\ proc'[t].ref = 0
        /\ proc'[t].pc \in {"lookup", "create", "check", "entry", "resolve"}
        /\ c.op \in {"deploy", "destroy"} => proc'[t].name = given + 1
    BY <2>2, <2>3 DEF Idle, Concerns
  <2> QED BY <2>1, <2>3, <2>4
<1> USE DEF EndpointInv, IdsAreFresh, MadeIsOwn, DestroyIsAlone, DestroyKnows, EndpointHeld,
            Deploying, OthersStay
<1>2. IdsAreFresh'
  BY <1>0, <1>1
<1>3. MadeIsOwn' /\ EndpointHeld' /\ lateEp' \subseteq SaidEp'
  BY <1>0, <1>1
<1>4. ASSUME ~crossed'
      PROVE  /\ ~crossed
             /\ \A u \in Terminals : u # t /\ proc[u].pc # "idle" =>
                  /\ c.op = "destroy" => proc[u].cmd.op \notin {"deploy", "destroy"}
                  /\ c.op \in {"deploy", "destroy"} => proc[u].cmd.op # "destroy"
  <2>1. ~crossed
    BY <1>1, <1>4
  <2>2. ASSUME NEW u \in Terminals, proc[u].pc # "idle"
        PROVE  {c.op, proc[u].cmd.op} \notin {{"deploy", "destroy"}, {"destroy"}}
    BY <1>1, <1>4, <2>2
  <2>3. ASSUME NEW u \in Terminals, proc[u].pc # "idle", c.op \in {"deploy", "destroy"},
               proc[u].cmd.op \in {"deploy", "destroy"}
        PROVE  c.op # "destroy" /\ proc[u].cmd.op # "destroy"
    <3>1. {c.op, proc[u].cmd.op} \subseteq {"deploy", "destroy"}
      BY <2>3
    <3> QED BY <2>2, <2>3, <3>1, DestroyBesides
  <2> QED BY <2>1, <2>3
<1>5. DestroyIsAlone'
  BY <1>0, <1>1, <1>4
<1>6. DestroyKnows'
  BY <1>0, <1>1, <1>4
<1> QED BY <1>2, <1>3, <1>5, <1>6

\* A step of a command on a job, and the end of any command.
LEMMA RestKeepsEndpoint ==
  ASSUME EndpointInv, TypeOK, NEW t \in Terminals, OthersStay(t),
         endpoint' = endpoint, entry' = entry, lateEp' \subseteq SaidEp', SaidEp \subseteq SaidEp',
         crossed' = crossed, given' = given, proc'[t].ref \in {0, proc[t].ref},
         \/ /\ proc'[t].pc \notin {"entry", "resolve", "find", "delete", "wait", "save", "remove"}
            /\ proc'[t].cmd = proc[t].cmd /\ proc'[t].name = proc[t].name
            /\ proc[t].pc \notin {"idle", "done", "wait", "save"}
         \/ /\ proc'[t].pc = "done" /\ proc'[t].cmd = proc[t].cmd /\ proc[t].pc # "idle"
            /\ proc[t].name \in SaidEp' \/ proc[t].pc \notin {"wait", "save"}
         \/ proc'[t].pc = "idle" /\ proc[t].pc = "done"
  PROVE EndpointInv'
<1>0. given \in Nat /\ entry \in Nat /\ \A u \in Terminals : proc[u].ref \in Nat
  BY BoundAssumption DEF TypeOK, Processes, Names
<1> USE DEF EndpointInv, IdsAreFresh, MadeIsOwn, DestroyIsAlone, DestroyKnows, EndpointHeld,
            Deploying, OthersStay
<1>1. IdsAreFresh'
  BY <1>0
<1>2. MadeIsOwn' /\ EndpointHeld'
  OBVIOUS
<1>3. DestroyIsAlone'
  OBVIOUS
<1>4. DestroyKnows'
  OBVIOUS
<1> QED BY <1>1, <1>2, <1>3, <1>4

\* The steps that are not a command's on an endpoint keep it too.
LEMMA EndpointIsKept ==
  ASSUME IInv, EndpointInv, [Next]_vars
  PROVE EndpointInv'
<1>0. /\ TypeOK /\ proc \in [Terminals -> Processes]
      /\ \A t \in Terminals : Sound(proc[t], jobs)
      /\ lateEp \subseteq SaidEp
  BY DEF IInv, TypeOK, EndpointInv
<1> HIDE DEF Goto
<1>1. ASSUME NEW t \in Terminals, Job(t) PROVE EndpointInv'
  <2>1. /\ endpoint' = endpoint /\ entry' = entry /\ lateEp' = lateEp /\ SaidEp' = SaidEp
        /\ crossed' = crossed /\ given' = given
    BY <1>1 DEF Job, Lookup, CreateJob, Recover, PollJob, Record, CheckJob, CancelJob
  <2>2. proc[t].pc \in {"lookup", "create", "recover", "poll", "record", "check", "cancel"}
    BY <1>1 DEF Job, Lookup, CreateJob, Recover, PollJob, Record, CheckJob, CancelJob
  <2> DEFINE Rests(pc) ==
        /\ OthersStay(t) /\ proc'[t].cmd = proc[t].cmd /\ proc'[t].name = proc[t].name
        /\ proc'[t].ref \in {0, proc[t].ref} /\ proc'[t].pc = pc
  <2>3. ASSUME NEW pc \in {"create", "recover", "poll", "record", "cancel", "done"}, Rests(pc)
        PROVE  EndpointInv'
    BY <1>0, <2>1, <2>2, <2>3, RestKeepsEndpoint
  <2>4. ASSUME NEW pc \in {"create", "recover", "poll", "cancel"}, Goto(t, pc) PROVE EndpointInv'
    BY <1>0, <2>3, <2>4, GotoEffect
  <2>5. ASSUME NEW s, Finish(t, s) PROVE EndpointInv'
    BY <1>0, <2>3, <2>5, FinishEffect
  <2>6. ASSUME NEW code, Exits(t, code) PROVE EndpointInv'
    BY <1>0, <2>3, <2>6, ExitsEffect
  <2>7. ASSUME NEW how, Cancelled(t, how) PROVE EndpointInv'
    BY <1>0, <2>3, <2>7, CancelledEffect
  <2>8. ASSUME NEW b \in BOOLEAN, proc' = [proc EXCEPT ![t].tolerated = b], proc[t].pc = "poll"
        PROVE  EndpointInv'
    <3>1. Rests("poll")
      BY <1>0, <2>8 DEF OthersStay, Processes
    <3> QED BY <2>3, <3>1
  <2> HIDE DEF Rests
  <2>9. CASE Lookup(t)
    BY <2>4, <2>5, <2>6, <2>9 DEF Lookup
  <2>10. CASE CreateJob(t) \/ Recover(t)
    BY <2>4, <2>5, <2>6, <2>10 DEF CreateJob, Recover, Created, JobFails, JobFailsUnnamed
  <2>11. CASE PollJob(t)
    BY <2>5, <2>6, <2>8, <2>11 DEF PollJob, JobFails, JobFailsUnnamed
  <2>12. CASE Record(t)
    BY <2>6, <2>12 DEF Record
  <2>13. CASE CheckJob(t) \/ CancelJob(t)
    BY <2>4, <2>7, <2>13 DEF CheckJob, CancelJob
  <2> QED BY <1>1, <2>9, <2>10, <2>11, <2>12, <2>13 DEF Job
<1>2. ASSUME NEW t \in Terminals, End(t) PROVE EndpointInv'
  <2>1. OthersStay(t) /\ proc'[t].pc = "idle" /\ proc[t].pc = "done" /\ proc'[t].ref = 0
    BY <1>0, <1>2 DEF End, OthersStay, Idle
  <2> QED BY <1>0, <1>2, <2>1, RestKeepsEndpoint DEF End
<1>3. ASSUME NEW t \in Terminals, Interrupt(t) PROVE EndpointInv'
  <2>1. /\ OthersStay(t) /\ proc'[t].cmd = proc[t].cmd /\ proc'[t].name = proc[t].name
        /\ proc'[t].ref = proc[t].ref
        /\ proc'[t].pc = IF proc[t].pc = "poll" THEN "check" ELSE "done"
    BY <1>0, <1>3 DEF Interrupt, OthersStay, Processes
  <2>2. /\ proc[t].pc \notin {"idle", "done"} /\ endpoint' = endpoint /\ entry' = entry
        /\ crossed' = crossed /\ given' = given
        /\ lateEp' \subseteq SaidEp' /\ SaidEp \subseteq SaidEp'
    BY <1>0, <1>3 DEF Interrupt
  <2>3. proc[t].pc \in {"wait", "save"} => proc[t].name \in SaidEp'
    BY <1>0, <1>3 DEF Interrupt, Sound, Concerns
  <2> QED BY <1>0, <2>1, <2>2, <2>3, RestKeepsEndpoint
<1>4. CASE LateJob \/ JobEnds \/ UNCHANGED vars
  <2>1. /\ proc' = proc /\ endpoint' = endpoint /\ entry' = entry /\ lateEp' = lateEp
        /\ SaidEp' = SaidEp /\ crossed' = crossed /\ given' = given
    BY <1>4 DEF LateJob, JobEnds, vars
  <2> QED
    BY <2>1 DEF EndpointInv, IdsAreFresh, MadeIsOwn, DestroyIsAlone, DestroyKnows, EndpointHeld, Deploying
<1>5. CASE LateEndpoint \/ EndpointStarts
  <2>1. /\ proc' = proc /\ entry' = entry /\ SaidEp' = SaidEp /\ crossed' = crossed /\ given' = given
        /\ lateEp' \subseteq SaidEp'
    BY <1>0, <1>5 DEF LateEndpoint, EndpointStarts
  <2>2. \/ endpoint'.id = endpoint.id /\ endpoint # NoEndpoint
        \/ endpoint = NoEndpoint /\ endpoint'.id \in SaidEp'
        \/ endpoint' = endpoint
    <3>1. CASE LateEndpoint
      BY <1>0, <3>1 DEF LateEndpoint, Made
    <3>2. CASE EndpointStarts
      BY <1>0, <3>2 DEF EndpointStarts, TypeOK, NoEndpoint
    <3> QED BY <1>5, <3>1, <3>2
  <2>3. \A t \in Terminals : Deploying(t) => proc[t].name # 0
    BY DEF EndpointInv, IdsAreFresh
  <2>4. MadeIsOwn'
    BY <2>1, <2>2, <2>3 DEF EndpointInv, MadeIsOwn, Deploying, NoEndpoint
  <2> QED
    BY <2>1, <2>2, <2>4 DEF EndpointInv, IdsAreFresh, DestroyIsAlone, DestroyKnows, EndpointHeld, Deploying
<1> QED
  BY <1>1, <1>2, <1>3, <1>4, <1>5, EndpointStepsHold, StartKeepsEndpoint DEF Next

\* A job that runs has a command at work on it or an operator who was told, and so has an
\* endpoint, unless it is the one of config.yaml.
THEOREM NothingGetsLost == Spec => []NothingIsForgotten
<1>1. Init => JobsHeld /\ EndpointInv
  <2>1. ASSUME Init PROVE JobsHeld
    BY <2>1 DEF Init, JobsHeld, Exposed
  <2>2. ASSUME Init PROVE EndpointInv
    BY <2>2 DEF Init, EndpointInv, IdsAreFresh, MadeIsOwn, DestroyIsAlone, DestroyKnows,
                EndpointHeld, Deploying, Idle, NoCommand
  <2> QED BY <2>1, <2>2
<1>2. IInv /\ JobsHeld /\ EndpointInv /\ [Next]_vars => (JobsHeld /\ EndpointInv)'
  BY JobStepsHold, OtherStepsHold, EndpointIsKept
<1>3. JobsHeld /\ EndpointInv => NothingIsForgotten
  <2>1. \A t \in Terminals : \A n : Holds(proc[t], n) => AtWork(t) /\ proc[t].name = n
    BY DEF Holds, AtWork
  <2>2. \A t \in Terminals : proc[t].pc \in {"wait", "save"} => AtWork(t)
    BY DEF AtWork
  <2>3. ASSUME JobsHeld, NEW n \in Names, jobs[n] = "live"
        PROVE  n \in Said \/ \E t \in Terminals : AtWork(t) /\ proc[t].name = n
    BY <2>1, <2>3 DEF JobsHeld, Exposed
  <2>4. ASSUME EndpointInv, endpoint # NoEndpoint, ~crossed
        PROVE  \/ endpoint.id \in {entry} \cup SaidEp
               \/ \E t \in Terminals : AtWork(t) /\ proc[t].name = endpoint.id
    BY <2>2, <2>4 DEF EndpointInv, EndpointHeld
  <2> QED BY <2>3, <2>4 DEF NothingIsForgotten
<1> QED BY <1>1, <1>2, <1>3, InvariantHolds, PTL DEF Spec
=============================================================================
