------------------------------ MODULE SkyTeardown ------------------------------
(***************************************************************************)
(* A wrapper script that submits a SkyPilot run, waits for it and takes    *)
(* its clusters down (scripts/run_isaac_lab_rl.py and                      *)
(* run_bdd100k_pipeline.py, which launch a managed job, and                *)
(* run_sim_to_real_quickstart.py, which runs sky launch), with             *)
(* orchestration/skypilot/signal_teardown.py and cleanup.py.               *)
(*                                                                         *)
(* Everything happens on one thread.  A signal handler runs on top of      *)
(* whatever the thread is doing, so the thread is a stack of program       *)
(* counters: stack[1] is the script, each later entry a handler in the     *)
(* middle of its teardown.  Only the last entry moves.  The SystemExit of  *)
(* a handler unwinds all of them down to the script's finally.             *)
(*                                                                         *)
(* SkyPilot goes on by itself meanwhile: a live job brings clusters up,    *)
(* the jobs controller takes those of an ended job down.                   *)
(***************************************************************************)
EXTENDS Naturals, Sequences, FiniteSets

CONSTANTS
    Clusters,    \* the clusters SkyPilot makes for the run
    Patterns,    \* cluster_name_patterns_for_run: per glob the clusters it matches
    MaxSignals,  \* bound: signals sent to the script
    MaxPolls     \* bound: status polls before the teardown's deadline

ASSUME PatternsAssumption ==
    /\ Patterns \in Seq(SUBSET Clusters) /\ Len(Patterns) > 0
    /\ Clusters = UNION {Patterns[i] : i \in DOMAIN Patterns}
ASSUME BoundAssumption == MaxSignals \in Nat /\ MaxPolls \in Nat \ {0}

Free == 0
TryBody == {"mark", "marking", "submit", "remark", "remarking", "launching", "wait",
            "queue", "cancel", "cdown"}           \* stack[1] inside the try block
TeardownSteps == {"enter", "inside", "down", "poll"}
Pcs == TryBody \cup TeardownSteps \cup {"restore", "exited"}
LiveJob == {"running", "cancelling"}
EndedJob == {"succeeded", "failed", "cancelled"}

VARIABLES
    kind,      \* "pipeline": a managed job; "quickstart": sky launch
    cleanup,   \* whether --cleanup was given
    \* the thread
    stack,     \* program counters, the script's first
    lock,      \* SignalTeardown._lock: the stack entry that holds it
    pending,   \* the exception on its way through the script
    code,      \* return_code of the script
    exit,      \* how the process ended
    \* SignalTeardown
    launched,  \* _launched
    done,      \* _done
    td,        \* the teardown that passed the checks
    errors,    \* CleanupResult.errors of the last teardown in the finally block
    \* cleanup_all_for_run
    next,      \* the pattern it takes down next
    cleaned,   \* "none", then "ok" until an error, "blind" when the queue was not read
    \* SkyPilot
    job,       \* the run's job, or its sky launch request
    up,        \* clusters of the run that exist
    signals    \* signals sent so far

scriptVars == <<kind, cleanup>>
threadVars == <<stack, lock, pending, code, exit>>
guardVars == <<launched, done>>
cleanVars == <<next, cleaned>>
skyVars == <<job, up>>
vars == <<scriptVars, threadVars, guardVars, td, errors, cleanVars, skyVars, signals>>

Idle == [state |-> "none", next |-> 1, polls |-> 0, seen |-> {}, blind |-> FALSE]

Init ==
    /\ kind \in {"pipeline", "quickstart"}
    /\ cleanup \in IF kind = "pipeline" THEN BOOLEAN ELSE {FALSE}
    /\ stack = <<"mark">> /\ lock = Free
    /\ pending = "none" /\ code = "one" /\ exit = "no"
    /\ launched = FALSE /\ done = FALSE
    /\ td = Idle /\ errors = FALSE
    /\ next = 1 /\ cleaned = "none"
    /\ job = "none" /\ up = {}
    /\ signals = 0

Top == stack[Len(stack)]
InScript == Len(stack) = 1
At(pc) == exit = "no" /\ Top = pc
Goto(pc) == stack' = [stack EXCEPT ![Len(stack)] = pc]
Step(pc) == Goto(pc) /\ UNCHANGED <<pending, exit>>

(***************************************************************************)
(* An exception leaves every entry of the stack.  The script's finally     *)
(* runs the teardown once more, unless the exception comes from there.  A  *)
(* teardown that was under way is abandoned where it was.                  *)
(***************************************************************************)
Unwind_NoFinally(exception) ==        \* teardown after the try block, not in its finally
    stack' = <<"exited">> /\ exit' = exception /\ lock' = Free /\ UNCHANGED pending
Unwind(exception) ==
    /\ IF stack[1] \in TryBody
       THEN stack' = <<"enter">> /\ pending' = exception /\ UNCHANGED exit
       ELSE stack' = <<"exited">> /\ exit' = exception /\ UNCHANGED pending
    /\ lock' = Free

Abandoned == IF td.state = "going" THEN [td EXCEPT !.state = "cut"] ELSE td

(* _submit_and_wait *)

MarkAcquires(from, to) ==
    /\ At(from) /\ lock = Free
    /\ lock' = Len(stack)
    /\ Step(to)
    /\ UNCHANGED <<scriptVars, code, guardVars, td, errors, cleanVars, skyVars, signals>>

MarkReleases(from, to) ==
    /\ At(from)
    /\ launched' = TRUE
    /\ lock' = Free
    /\ Step(to)
    /\ UNCHANGED <<scriptVars, code, done, td, errors, cleanVars, skyVars, signals>>

MarkLaunched ==
    \/ MarkAcquires("mark", "marking") \/ MarkReleases("marking", "submit")
    \/ MarkAcquires("remark", "remarking") \/ MarkReleases("remarking", "wait")

\* sky jobs launch: a refusal and a timeout raise, and after a timeout, or when the
\* job id cannot be read from the output, the job may be running all the same.
SubmitWorkflow ==
    /\ At("submit") /\ kind = "pipeline"
    /\ \/ job' = "running" /\ Step("remark") /\ UNCHANGED <<lock, td>>
       \/ job' \in {"none", "running"} /\ Unwind("one") /\ td' = Abandoned
    /\ UNCHANGED <<scriptVars, code, guardVars, errors, cleanVars, up, signals>>

\* sky launch runs until the task has ended.
Launch ==
    /\ At("submit") /\ kind = "quickstart"
    /\ job' \in {"none", "running"}             \* refused, or under way
    /\ Step("launching")
    /\ UNCHANGED <<scriptVars, lock, code, guardVars, td, errors, cleanVars, up, signals>>

LaunchReturns ==
    /\ At("launching")
    /\ \/ job \in EndedJob /\ code' = IF job = "succeeded" THEN "zero" ELSE "one"
       \/ code' = "one"                              \* refused, failed or timed out
    /\ Step("enter")
    /\ UNCHANGED <<scriptVars, lock, guardVars, td, errors, cleanVars, skyVars, signals>>

\* The loop over workflow_status ends with a terminal status or at the deadline.
WaitEnds ==
    /\ At("wait")
    /\ \/ job \in EndedJob /\ code' = IF job = "succeeded" THEN "zero" ELSE "one"
       \/ code' = "one"
    /\ Step(IF cleanup THEN "queue" ELSE "enter")
    /\ UNCHANGED <<scriptVars, lock, guardVars, td, errors, cleanVars, skyVars, signals>>

(* cleanup_all_for_run *)

\* _matching_jobs: a queue that cannot be read holds no jobs.
MatchJobs ==
    /\ At("queue")
    /\ \/ cleaned' = "ok" /\ Step(IF job \in LiveJob THEN "cancel" ELSE "cdown")
       \/ cleaned' = "blind" /\ Step("cdown")
    /\ UNCHANGED <<scriptVars, lock, code, guardVars, td, errors, next, skyVars, signals>>

CancelJob_ErrorDropped ==             \* the result of the cancel is not extended
    /\ At("cancel")
    /\ job' \in {job, IF job \in LiveJob THEN "cancelling" ELSE job}
    /\ Step("cdown")
    /\ UNCHANGED <<scriptVars, lock, code, guardVars, td, errors, cleanVars, up, signals>>
CancelJob ==
    /\ At("cancel")
    /\ \/ job' = (IF job \in LiveJob THEN "cancelling" ELSE job) /\ UNCHANGED cleaned
       \/ cleaned' = "errors" /\ UNCHANGED job
    /\ Step("cdown")
    /\ UNCHANGED <<scriptVars, lock, code, guardVars, td, errors, next, up, signals>>

\* sky down takes down the clusters of a glob, or fails after some of them.
SkyDown(i) ==
    \E gone \in SUBSET (Patterns[i] \cap up) :
        /\ up' = up \ gone

CleanupDown ==
    /\ At("cdown")
    /\ SkyDown(next)
    /\ cleaned' \in {cleaned, "errors"}
    /\ cleaned' = cleaned => up' \cap Patterns[next] = {}
    /\ next' = next + 1
    /\ Step(IF next = Len(Patterns) THEN "enter" ELSE "cdown")
    /\ UNCHANGED <<scriptVars, lock, code, guardVars, td, errors, job, signals>>

(* SignalTeardown.teardown, in the script's finally or in a handler *)

TeardownEnters ==
    /\ At("enter") /\ lock = Free
    /\ lock' = Len(stack)
    /\ Step("inside")
    /\ UNCHANGED <<scriptVars, code, guardVars, td, errors, cleanVars, skyVars, signals>>

\* The script goes on with restore_signal_handlers, a handler raises SystemExit.
TeardownReturns(failed) ==
    IF InScript
    THEN errors' = failed /\ Step("restore") /\ lock' = Free
    ELSE Unwind("signal") /\ UNCHANGED errors

TeardownStarts ==
    /\ At("inside")
    /\ IF done \/ ~launched
       THEN TeardownReturns(FALSE) /\ td' = Abandoned /\ UNCHANGED done
       ELSE /\ done' = TRUE /\ lock' = Free
            /\ td' = [Idle EXCEPT !.state = "going"]
            /\ Step("down")
            /\ UNCHANGED errors
    /\ UNCHANGED <<scriptVars, code, launched, cleanVars, skyVars, signals>>

\* An error of sky down is only ever reported next to clusters that stayed.
TeardownDown ==
    /\ At("down")
    /\ SkyDown(td.next)
    /\ td' = [td EXCEPT !.next = @ + 1]
    /\ Step(IF td.next = Len(Patterns) THEN "poll" ELSE "down")
    /\ UNCHANGED <<scriptVars, lock, code, guardVars, errors, cleanVars, job, signals>>

\* _wait_until_absent: sky status fails, lists the clusters, or answers with
\* something that is no JSON and counts as an empty list.  The matches of the last
\* answer stay when a later call fails.
Poll_NoDeadline(seen, failed, blind) ==
    LET absent == ~failed /\ seen = {}
    IN  /\ td' = [td EXCEPT !.polls = (@ + 1) % MaxPolls, !.seen = seen, !.blind = blind,
                            !.state = IF absent THEN "ended" ELSE "going"]
        /\ IF absent THEN TeardownReturns(FALSE) ELSE Step("poll") /\ UNCHANGED <<lock, errors>>
Poll(seen, failed, blind) ==
    \E late \in BOOLEAN :
        LET absent == ~failed /\ seen = {}
            over == absent \/ late
        IN  /\ late \/ td.polls + 1 < MaxPolls
            /\ td' = [td EXCEPT !.polls = @ + 1, !.seen = seen, !.blind = blind,
                                !.state = IF over THEN "ended" ELSE "going"]
            /\ IF over THEN TeardownReturns(failed \/ ~absent)
                       ELSE Step("poll") /\ UNCHANGED <<lock, errors>>

TeardownPolls ==
    /\ At("poll")
    /\ \/ Poll(up, FALSE, FALSE)
       \/ Poll({}, FALSE, TRUE)
       \/ Poll(td.seen, TRUE, FALSE)
    /\ UNCHANGED <<scriptVars, code, guardVars, cleanVars, skyVars, signals>>

\* subprocess.run raises TimeoutExpired, which nobody between it and the script's
\* finally handles.
CommandTimesOut ==
    /\ exit = "no"
    /\ Top \in {"wait", "queue", "cancel", "cdown", "down", "poll"}
    /\ Unwind("one")
    /\ td' = Abandoned
    /\ UNCHANGED <<scriptVars, code, guardVars, errors, cleanVars, skyVars, signals>>

\* restore_signal_handlers, and out: with the exception, or with the return code.
Exit_ErrorsIgnored ==                 \* return return_code
    /\ At("restore")
    /\ stack' = <<"exited">>
    /\ exit' = IF pending # "none" THEN pending ELSE code
    /\ UNCHANGED <<scriptVars, lock, pending, code, guardVars, td, errors, cleanVars, skyVars, signals>>
Exit ==
    /\ At("restore")
    /\ stack' = <<"exited">>
    /\ exit' = IF pending # "none" THEN pending ELSE IF errors THEN "one" ELSE code
    /\ UNCHANGED <<scriptVars, lock, pending, code, guardVars, td, errors, cleanVars, skyVars, signals>>

\* SIGTERM or SIGINT: _handle_signal starts on top of whatever runs.
Signal ==
    /\ exit = "no" /\ signals < MaxSignals
    /\ signals' = signals + 1
    /\ stack' = Append(stack, "enter")
    /\ UNCHANGED <<scriptVars, lock, pending, code, exit, guardVars, td, errors, cleanVars, skyVars>>

Script ==
    \/ MarkLaunched \/ SubmitWorkflow \/ Launch \/ LaunchReturns \/ WaitEnds
    \/ MatchJobs \/ CancelJob \/ CleanupDown
    \/ TeardownEnters \/ TeardownStarts \/ TeardownDown \/ TeardownPolls
    \/ CommandTimesOut \/ Exit

(* SkyPilot *)

BringUp ==
    /\ job = "running"
    /\ \E c \in Clusters \ up : up' = up \cup {c}
    /\ UNCHANGED <<scriptVars, threadVars, guardVars, td, errors, cleanVars, job, signals>>

JobEnds ==
    /\ job \in LiveJob
    /\ job' \in IF job = "running" THEN {"succeeded", "failed"} ELSE {"cancelled"}
    /\ UNCHANGED <<scriptVars, threadVars, guardVars, td, errors, cleanVars, up, signals>>

\* The jobs controller takes down what its ended job has left; sky launch does not.
Reap ==
    /\ kind = "pipeline" /\ job \in EndedJob
    /\ \E c \in up : up' = up \ {c}
    /\ UNCHANGED <<scriptVars, threadVars, guardVars, td, errors, cleanVars, job, signals>>

Next == Script \/ Signal \/ BringUp \/ JobEnds \/ Reap

Spec == Init /\ [][Next]_vars

\* The thread runs while it can; no call waits for ever, each has a timeout.
FairSpec == Spec /\ WF_vars(Script)

-----------------------------------------------------------------------------
TypeOK ==
    /\ kind \in {"pipeline", "quickstart"} /\ cleanup \in BOOLEAN
    /\ stack \in Seq(Pcs) /\ stack # <<>>
    /\ lock \in 0..Len(stack)
    /\ pending \in {"none", "one", "signal"} /\ code \in {"zero", "one"}
    /\ exit \in {"no", "zero", "one", "signal"}
    /\ launched \in BOOLEAN /\ done \in BOOLEAN /\ errors \in BOOLEAN
    /\ td \in [state : {"none", "going", "cut", "ended"}, next : 1..(Len(Patterns) + 1),
              polls : 0..MaxPolls, seen : SUBSET Clusters, blind : BOOLEAN]
    /\ next \in 1..(Len(Patterns) + 1) /\ cleaned \in {"none", "ok", "blind", "errors"}
    /\ job \in {"none"} \cup LiveJob \cup EndedJob /\ up \subseteq Clusters
    /\ signals \in 0..MaxSignals

\* A script that exits with 0 leaves nothing behind and nothing to come: its job has
\* succeeded and its clusters are gone for good, unless the status it believed was no
\* JSON (_matching_clusters takes that for no clusters).
ZeroExitLeavesNothing ==
    exit = "zero" => job = "succeeded" /\ (up = {} \/ td.blind)

\* However the script ends, a job or launch request that reached SkyPilot has had its
\* teardown, and where that was cut short a signal or a timed out command did it
\* (mark_launched before the submission, teardown in the finally).
NoSubmissionIsAbandoned ==
    exit # "no" /\ job # "none" =>
        \/ td.state = "ended"
        \/ td.state = "cut" /\ exit # "zero"

\* A cleanup that read the queue and reports no error has stopped the job for good: no
\* cluster of it comes up again (cleanup_all_for_run with errors = []).
CleanCleanupStopsTheJob ==
    cleaned = "ok" /\ next > Len(Patterns) => job # "running"

\* The handler waits for a lock that its own thread holds further down.
LockedOut == exit = "no" /\ Top = "enter" /\ lock # Free

\* The script ends, however often it is signalled and whatever SkyPilot answers, but
\* for a signal inside mark_launched or the flag check of teardown.
ScriptEnds == <>(exit # "no" \/ LockedOut)
=============================================================================
