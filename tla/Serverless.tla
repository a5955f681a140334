------------------------------- MODULE Serverless -------------------------------
(***************************************************************************)
(* Nebius serverless jobs and endpoints (clients/serverless.py) as the npa *)
(* commands use them: train, infer, eval and golden-eval with --runtime    *)
(* serverless, cosmos train cancel, and cosmos deploy and deploy --destroy *)
(* with --runtime serverless.                                              *)
(*                                                                         *)
(* Commands of several terminals run at once.  Each step is one call of    *)
(* the nebius CLI, which may fail, or time out before or after it took     *)
(* effect.  By default the name of a job is made from the project, the     *)
(* workbench and the tool, so a command given again means the same job.    *)
(***************************************************************************)
EXTENDS Naturals

CONSTANTS
    Terminals,
    Commands,       \* the command lines that may be given
    MaxCommands,    \* bound: commands given
    MaxInterrupts   \* bound: Ctrl-C

(***************************************************************************)
(* What tells the tools' submissions apart: whether an existing job of     *)
(* that name is looked for, whether the job is recorded in config.yaml,    *)
(* and whether anything but success is a failure of the command.           *)
(***************************************************************************)
Waits == [looksUp |-> TRUE, records |-> FALSE, strict |-> FALSE]
LerobotTrain == [Waits EXCEPT !.records = TRUE]
LerobotProfileTrain == [Waits EXCEPT !.records = TRUE]
SonicTrain == Waits
IsaacLabTrain == Waits
CosmosTrain == Waits
GenesisTrainTeacher == Waits
GrootInfer == Waits
FiftyoneLoadDataset == Waits
FiftyoneJob == [Waits EXCEPT !.strict = TRUE]
GoldenEval == [looksUp |-> FALSE, records |-> FALSE, strict |-> TRUE]
Flows == {LerobotTrain, LerobotProfileTrain, SonicTrain, IsaacLabTrain, CosmosTrain,
          GenesisTrainTeacher, GrootInfer, FiftyoneLoadDataset, FiftyoneJob, GoldenEval}

\* detach is --submit-only of a job and the absence of --wait of an endpoint.
CommandLines ==
    [op : {"job", "cancel", "deploy", "destroy"}, flow : Flows,
     detach : BOOLEAN, replace : BOOLEAN]

ASSUME CommandAssumption == Commands \subseteq CommandLines
ASSUME BoundAssumption == MaxCommands \in Nat /\ MaxInterrupts \in Nat

\* The name of a job made from project, workbench and tool, where golden-eval makes a new
\* one each time; or the id of an endpoint, new with every creation, and its absence.
Default == 0
Names == 0..MaxCommands
EndedJob == {"succeeded", "failed", "cancelled"}
JobStates == {"none", "live", "cancelling"} \cup EndedJob
EndpointStates == {"none", "starting", "running", "failed"}

VARIABLES
    jobs,       \* per name the state of the job
    endpoint,   \* the cosmos endpoint of the alias' name: its id and state
    late,       \* names of jobs whose creation may still be carried out
    lateEp,     \* ids of endpoints of which the same holds
    record,     \* serverless_job in config.yaml: its name and last_status
    entry,      \* endpoint_id in the alias' entry of config.yaml
    proc,       \* per terminal the command that runs
    given,      \* commands given so far
    intrs,      \* interrupts so far
    told,       \* history: jobs whose operator was told that they may be running
    toldEp,     \* history: the same of endpoints
    unnamed,    \* history: jobs whose command ended with no word of them
    unnamedEp,  \* history: the same of endpoints
    crossed     \* history: a destroy and another endpoint command ran at once

jobLog == <<told, unnamed>>
epLog == <<toldEp, unnamedEp>>
jobVars == <<jobs, late, record, jobLog>>
epVars == <<endpoint, lateEp, entry, epLog, crossed>>
vars == <<jobVars, epVars, proc, given, intrs>>

NoEndpoint == [id |-> Default, state |-> "none"]
NoCommand == [op |-> "none", flow |-> Waits, detach |-> FALSE, replace |-> FALSE]
Idle == [pc |-> "idle", cmd |-> NoCommand, name |-> Default, ref |-> Default, seen |-> "none",
         tolerated |-> FALSE, interrupted |-> FALSE, cancel |-> "none", exit |-> "none"]

Init ==
    /\ jobs = [n \in Names |-> "none"] /\ late = {} /\ told = {} /\ unnamed = {}
    /\ endpoint = NoEndpoint /\ lateEp = {} /\ entry = Default /\ crossed = FALSE
    /\ toldEp = {} /\ unnamedEp = {}
    /\ record = [name |-> Default, status |-> "none"]
    /\ proc = [t \in Terminals |-> Idle]
    /\ given = 0 /\ intrs = 0

At(t, pc) == proc[t].pc = pc
Goto(t, pc) == proc' = [proc EXCEPT ![t].pc = pc]
Cmd(t) == proc[t].cmd
Name(t) == proc[t].name
Exits(t, code) ==
    proc' = [proc EXCEPT ![t].pc = "done", ![t].exit = code,
                         ![t].ref = Default, ![t].seen = "none", ![t].tolerated = FALSE]

\* Most errors name the job or the endpoint. An answer that is no JSON does not, and neither
\* does a listing of endpoints that fails.
JobFails(t) == Exits(t, "one") /\ told' = told \cup {Name(t)} /\ UNCHANGED unnamed
JobFailsUnnamed(t) == Exits(t, "one") /\ unnamed' = unnamed \cup {Name(t)} /\ UNCHANGED told
EndpointFails(t) ==
    /\ Exits(t, "one")
    /\ \/ toldEp' = toldEp \cup {Name(t)} /\ UNCHANGED unnamedEp
       \/ unnamedEp' = unnamedEp \cup {Name(t)} /\ UNCHANGED toldEp

Concerns(c) == IF c.op \in {"deploy", "destroy"} THEN "endpoint" ELSE "job"

Start(t) ==
    /\ At(t, "idle") /\ given < MaxCommands
    /\ given' = given + 1
    /\ \E c \in Commands :
        /\ proc' = [proc EXCEPT ![t] = [Idle EXCEPT !.cmd = c,
              !.name = IF c.flow.looksUp /\ Concerns(c) = "job" THEN Default ELSE given + 1,
              !.pc = CASE c.op = "job" -> IF c.flow.looksUp THEN "lookup" ELSE "create"
                       [] c.op = "cancel" -> "check"
                       [] c.op = "deploy" -> "entry"
                       [] c.op = "destroy" -> "resolve"]]
        /\ crossed' = (crossed \/ \E u \in Terminals :
                         ~At(u, "idle") /\ {c.op, Cmd(u).op} \in {{"deploy", "destroy"}, {"destroy"}})
    /\ UNCHANGED <<jobVars, endpoint, lateEp, entry, epLog, intrs>>

End(t) ==
    /\ At(t, "done")
    /\ proc' = [proc EXCEPT ![t] = Idle]
    /\ UNCHANGED <<jobVars, epVars, given, intrs>>

(* jobs *)

\* get_job: the job's state, or one that _job_status does not know.
Answers(n) == {jobs[n], "unknown"}

\* The end of a submission: update_workbench_serverless_job, then the job's name and status
\* and the exit code.
Finish(t, status) ==
    LET c == Cmd(t)
        code == IF c.flow.strict /\ ~c.detach /\ status # "succeeded" THEN "one" ELSE "zero"
    IN  /\ IF c.flow.records
           THEN /\ proc' = [proc EXCEPT ![t].pc = "record", ![t].seen = status, ![t].tolerated = FALSE]
                /\ UNCHANGED told
           ELSE Exits(t, code) /\ told' = told \cup {Name(t)}
        /\ UNCHANGED unnamed

Lookup(t) ==
    /\ At(t, "lookup")
    /\ \/ /\ jobs[Name(t)] = "none"
          /\ Goto(t, "create") /\ UNCHANGED jobLog
       \/ /\ jobs[Name(t)] # "none"
          /\ \E s \in Answers(Name(t)) :
               IF Cmd(t).detach \/ s \in EndedJob THEN Finish(t, s)
               ELSE Goto(t, "poll") /\ UNCHANGED jobLog
       \/ Exits(t, "one") /\ UNCHANGED jobLog        \* subnet, storage or CLI error
    /\ UNCHANGED <<jobs, late, record, epVars, given, intrs>>

Created(t) == IF Cmd(t).detach THEN Finish(t, "live") ELSE Goto(t, "poll") /\ UNCHANGED jobLog

\* nebius ai job create: carried out, refused (the name is taken, or no quota), or not
\* answered in time, which leaves open whether it ever will be.
CreateJob(t) ==
    /\ At(t, "create") /\ Cmd(t).op = "job"
    /\ LET n == Name(t)
           done == jobs' = [jobs EXCEPT ![n] = "live"]
       IN  \/ /\ jobs[n] = "none" /\ done /\ UNCHANGED late
              /\ Created(t) \/ JobFails(t) \/ JobFailsUnnamed(t)
           \/ JobFails(t) /\ UNCHANGED <<jobs, late>>
           \/ /\ \/ UNCHANGED <<jobs, late>>
                 \/ jobs[n] = "none" /\ done /\ UNCHANGED late
                 \/ late' = late \cup {n} /\ UNCHANGED jobs
              /\ Goto(t, "recover") /\ UNCHANGED jobLog
    /\ UNCHANGED <<record, epVars, given, intrs>>

\* Lookup by name after a creation that timed out, of which a warning has named the job.
Recover(t) ==
    /\ At(t, "recover")
    /\ \/ jobs[Name(t)] # "none" /\ Created(t)
       \/ JobFails(t)
    /\ UNCHANGED <<jobs, late, record, epVars, given, intrs>>

PollJob_Ceiling(t) ==                 \* the ceiling returns what was seen last
    /\ At(t, "poll")
    /\ \/ \E s \in Answers(Name(t)) : Finish(t, s)
       \/ JobFails(t) \/ JobFailsUnnamed(t)
    /\ UNCHANGED <<jobs, late, record, epVars, given, intrs>>
\* poll_job: one round, which ends with a terminal status, at the ceiling, with the second
\* failed query in a row, or with the first answer that is no JSON.
PollJob(t) ==
    /\ At(t, "poll")
    /\ \/ \E s \in Answers(Name(t)) :
            IF s \in EndedJob THEN Finish(t, s)
            ELSE proc' = [proc EXCEPT ![t].tolerated = FALSE] /\ UNCHANGED jobLog
       \/ ~proc[t].tolerated /\ proc' = [proc EXCEPT ![t].tolerated = TRUE] /\ UNCHANGED jobLog
       \/ JobFails(t) \/ JobFailsUnnamed(t)
    /\ UNCHANGED <<jobs, late, record, epVars, given, intrs>>

Record(t) ==
    /\ At(t, "record")
    /\ record' = [name |-> Name(t), status |-> proc[t].seen]
    /\ Exits(t, "zero")
    /\ told' = told \cup {Name(t)}
    /\ UNCHANGED <<jobs, late, unnamed, epVars, given, intrs>>

\* cancel_job, for an interrupted poll, which raises whatever becomes of it, and for
\* cosmos train cancel. A failure is told with the name of the job, but for an answer that is
\* no JSON.
Cancelled(t, how) ==
    /\ proc' = [proc EXCEPT ![t].pc = "done", ![t].cancel = how,
                            ![t].exit = IF how = "failed" \/ proc[t].interrupted THEN "one" ELSE "zero"]
    /\ IF how = "ok" THEN UNCHANGED jobLog
       ELSE \/ told' = told \cup {Name(t)} /\ UNCHANGED unnamed
            \/ /\ unnamed' = IF Cmd(t).op = "job" THEN unnamed \cup {Name(t)} ELSE unnamed
               /\ UNCHANGED told

CheckJob_Unknown(t) ==                \* only a job known to run is cancelled
    /\ At(t, "check")
    /\ \/ /\ jobs[Name(t)] # "none"
          /\ \E s \in Answers(Name(t)) :
               IF s # "live" THEN Cancelled(t, "ok") ELSE Goto(t, "cancel") /\ UNCHANGED jobLog
       \/ Cancelled(t, "failed")
    /\ UNCHANGED <<jobs, late, record, epVars, given, intrs>>
CheckJob(t) ==
    /\ At(t, "check")
    /\ \/ /\ jobs[Name(t)] # "none"
          /\ \E s \in Answers(Name(t)) :
               IF s \in EndedJob THEN Cancelled(t, "ok") ELSE Goto(t, "cancel") /\ UNCHANGED jobLog
       \/ Cancelled(t, "failed")                     \* no such job, or a CLI error
    /\ UNCHANGED <<jobs, late, record, epVars, given, intrs>>

CancelJob(t) ==
    /\ At(t, "cancel")
    /\ LET stopped == [jobs EXCEPT ![Name(t)] = IF @ = "live" THEN "cancelling" ELSE @]
       IN  \/ jobs' = stopped /\ Cancelled(t, "ok")
           \/ jobs' \in {jobs, stopped} /\ Cancelled(t, "failed")
    /\ UNCHANGED <<late, record, epVars, given, intrs>>

(* endpoints *)

\* An alias that is there needs --replace.
CheckEntry(t) ==
    /\ At(t, "entry")
    /\ \/ entry = Default /\ Goto(t, "create")
       \/ entry # Default /\ Cmd(t).replace /\ Goto(t, "resolve")
       \/ Exits(t, "one")                            \* subnet or configuration error too
    /\ UNCHANGED <<jobVars, epVars, given, intrs>>

\* What is to be deleted is the endpoint whose id is saved, whatever the name means now.
ResolveEntry(t) ==
    /\ At(t, "resolve")
    /\ IF entry # Default
       THEN proc' = [proc EXCEPT ![t].pc = "find", ![t].ref = entry]
       ELSE IF Cmd(t).op = "deploy" THEN Goto(t, "create") ELSE Exits(t, "one")
    /\ UNCHANGED <<jobVars, epVars, given, intrs>>

Deleted(t) == Goto(t, IF Cmd(t).op = "deploy" THEN "create" ELSE "remove")

\* delete_endpoint: the lookup first; an endpoint that is not there counts as deleted. After
\* a failure the entry still has the endpoint, whatever the message says.
FindEndpoint(t) ==
    /\ At(t, "find")
    /\ \/ endpoint.id # proc[t].ref /\ Deleted(t)
       \/ endpoint.id = proc[t].ref /\ Goto(t, "delete")
       \/ Exits(t, "one")
    /\ UNCHANGED <<jobVars, epVars, given, intrs>>

WithoutRef(t) == IF endpoint.id = proc[t].ref THEN NoEndpoint ELSE endpoint

DeleteEndpoint_AnyError(t) ==         \* every error is taken for a missing endpoint
    /\ At(t, "delete")
    /\ endpoint' \in {WithoutRef(t), endpoint}
    /\ Deleted(t)
    /\ UNCHANGED <<jobVars, lateEp, entry, epLog, crossed, given, intrs>>
DeleteEndpoint(t) ==
    /\ At(t, "delete")
    /\ \/ endpoint' = WithoutRef(t) /\ Deleted(t)
       \/ endpoint' \in {WithoutRef(t), endpoint} /\ Exits(t, "one")
    /\ UNCHANGED <<jobVars, lateEp, entry, epLog, crossed, given, intrs>>

Made(id) == IF endpoint = NoEndpoint THEN [id |-> id, state |-> "starting"] ELSE endpoint

CreateEndpoint(t) ==
    /\ At(t, "create") /\ Cmd(t).op = "deploy"
    /\ \/ /\ endpoint = NoEndpoint /\ endpoint' = Made(Name(t)) /\ UNCHANGED lateEp
          /\ \/ Goto(t, IF Cmd(t).detach THEN "save" ELSE "wait") /\ UNCHANGED epLog
             \/ EndpointFails(t)
       \/ /\ Exits(t, "one") /\ toldEp' = toldEp \cup {Name(t)} /\ UNCHANGED unnamedEp
          /\ lateEp' \in {lateEp, lateEp \cup {Name(t)}} /\ UNCHANGED endpoint
    /\ UNCHANGED <<jobVars, entry, crossed, given, intrs>>

\* wait_for_running: no query may fail, and an endpoint that fails or takes too long is
\* left as it is, without an entry.
WaitForRunning(t) ==
    /\ At(t, "wait")
    /\ \/ endpoint = [id |-> Name(t), state |-> "running"] /\ Goto(t, "save") /\ UNCHANGED epLog
       \/ EndpointFails(t)
    /\ UNCHANGED <<jobVars, endpoint, lateEp, entry, crossed, given, intrs>>

SaveEndpoint(t) ==
    /\ At(t, "save")
    /\ entry' = Name(t)
    /\ Exits(t, "zero")
    /\ UNCHANGED <<jobVars, endpoint, lateEp, epLog, crossed, given, intrs>>

RemoveEntry(t) ==
    /\ At(t, "remove")
    /\ entry' = Default
    /\ Exits(t, "zero")
    /\ UNCHANGED <<jobVars, endpoint, lateEp, epLog, crossed, given, intrs>>

(* Ctrl-C: only poll_job handles it; elsewhere the command ends without a word *)

Interrupt(t) ==
    /\ ~At(t, "idle") /\ ~At(t, "done") /\ intrs < MaxInterrupts
    /\ intrs' = intrs + 1
    /\ IF At(t, "poll")
       THEN /\ proc' = [proc EXCEPT ![t].pc = "check", ![t].interrupted = TRUE, ![t].tolerated = FALSE]
            /\ UNCHANGED <<jobLog, epLog, late, lateEp>>
       ELSE /\ proc' = [proc EXCEPT ![t].pc = "done", ![t].exit = "one", ![t].cancel = "failed"]
            /\ CASE Cmd(t).op = "job" ->
                      /\ told' = IF At(t, "recover") THEN told \cup {Name(t)} ELSE told
                      /\ unnamed' = IF proc[t].pc \in {"create", "record", "check", "cancel"}
                                    THEN unnamed \cup {Name(t)} ELSE unnamed
                      /\ late' = IF At(t, "create") THEN late \cup {Name(t)} ELSE late
                      /\ UNCHANGED <<epLog, lateEp>>
                 [] Cmd(t).op \in {"deploy", "destroy"} ->
                      /\ unnamedEp' = IF proc[t].pc \in {"create", "wait", "save"}
                                      THEN unnamedEp \cup {Name(t)} ELSE unnamedEp
                      /\ lateEp' = IF At(t, "create") THEN lateEp \cup {Name(t)} ELSE lateEp
                      /\ UNCHANGED <<toldEp, jobLog, late>>
                 [] OTHER -> UNCHANGED <<jobLog, epLog, late, lateEp>>
    /\ UNCHANGED <<jobs, record, endpoint, entry, crossed, given>>

Job(t) == Lookup(t) \/ CreateJob(t) \/ Recover(t) \/ PollJob(t) \/ Record(t)
          \/ CheckJob(t) \/ CancelJob(t)
Endpoint(t) == CheckEntry(t) \/ ResolveEntry(t) \/ FindEndpoint(t) \/ DeleteEndpoint(t) \/ CreateEndpoint(t)
               \/ WaitForRunning(t) \/ SaveEndpoint(t) \/ RemoveEntry(t)

(* Nebius *)

\* A name is given to one job and one endpoint at a time.
LateJob ==
    \E n \in late :
        /\ late' = late \ {n}
        /\ jobs' = [jobs EXCEPT ![n] = IF @ = "none" THEN "live" ELSE @]
        /\ UNCHANGED <<record, jobLog, epVars, proc, given, intrs>>

JobEnds ==
    \E n \in Names :
        /\ jobs[n] \in {"live", "cancelling"}
        /\ \E s \in EndedJob : jobs' = [jobs EXCEPT ![n] = s]
        /\ UNCHANGED <<late, record, jobLog, epVars, proc, given, intrs>>

LateEndpoint ==
    \E id \in lateEp :
        /\ lateEp' = lateEp \ {id}
        /\ endpoint' = Made(id)
        /\ UNCHANGED <<jobVars, entry, epLog, crossed, proc, given, intrs>>

EndpointStarts ==
    /\ endpoint.state = "starting"
    /\ \E s \in {"running", "failed"} : endpoint' = [endpoint EXCEPT !.state = s]
    /\ UNCHANGED <<jobVars, lateEp, entry, epLog, crossed, proc, given, intrs>>

Next ==
    \/ \E t \in Terminals : Start(t) \/ End(t) \/ Job(t) \/ Endpoint(t) \/ Interrupt(t)
    \/ LateJob \/ JobEnds \/ LateEndpoint \/ EndpointStarts

Spec == Init /\ [][Next]_vars

-----------------------------------------------------------------------------
Pcs == {"idle", "lookup", "create", "recover", "poll", "record", "check", "cancel",
        "entry", "resolve", "find", "delete", "wait", "save", "remove", "done"}
Processes ==
    [pc : Pcs, cmd : CommandLines \cup {NoCommand}, name : Names, ref : Names,
     seen : JobStates \cup {"unknown"}, tolerated : BOOLEAN, interrupted : BOOLEAN,
     cancel : {"none", "ok", "failed"}, exit : {"none", "zero", "one"}]

TypeOK ==
    /\ jobs \in [Names -> JobStates] /\ late \subseteq Names
    /\ told \subseteq Names /\ unnamed \subseteq Names
    /\ endpoint \in [id : Names, state : EndpointStates]
    /\ lateEp \subseteq Names /\ entry \in Names /\ crossed \in BOOLEAN
    /\ toldEp \subseteq Names /\ unnamedEp \subseteq Names
    /\ record \in [name : Names, status : JobStates \cup {"unknown"}]
    /\ proc \in [Terminals -> Processes]
    /\ given \in 0..MaxCommands /\ intrs \in 0..MaxInterrupts

\* What a command that waited says of its job is final: the job has ended, the way the
\* record in config.yaml has it, and with success where the exit code stands for that.
AnswersAreFinal ==
    /\ \A t \in Terminals :
         At(t, "done") /\ Cmd(t).op = "job" /\ ~Cmd(t).detach /\ proc[t].exit = "zero" =>
            /\ jobs[Name(t)] \in EndedJob
            /\ Cmd(t).flow.strict => jobs[Name(t)] = "succeeded"
    /\ record.status \in EndedJob => jobs[record.name] = record.status

AtWork(t) == ~At(t, "idle") /\ ~At(t, "done")

\* Nothing that is paid for is forgotten: a job that runs has a command at work on it, or
\* its operator was told its name, by a failure or by the command's output; an endpoint is
\* the one recorded in config.yaml, or being made, or its operator was told its name, unless
\* a destroy and another command were at work at once. What the program does lose are those
\* whose command ended, after it may have made them, with an answer that is no JSON, with a
\* listing of endpoints that failed, or with Ctrl-C outside poll_job.
NothingIsForgotten ==
    /\ \A n \in Names : jobs[n] = "live" =>
         n \in told \cup unnamed \/ \E t \in Terminals : AtWork(t) /\ Name(t) = n
    /\ endpoint # NoEndpoint /\ ~crossed =>
         \/ endpoint.id \in {entry} \cup toldEp \cup unnamedEp
         \/ \E t \in Terminals : AtWork(t) /\ Name(t) = endpoint.id

\* Ctrl-C at a waiting command stops its job, unless cancelling fails or is interrupted
\* itself, whoever else waits for the job.
InterruptStopsTheJob ==
    \A t \in Terminals :
        At(t, "done") /\ proc[t].interrupted /\ proc[t].cancel = "ok" => jobs[Name(t)] # "live"
=============================================================================
