--------------------------- MODULE SkyTeardownProofs ---------------------------
(* Proofs about SkyTeardown: types, what an exit code of zero stands for,   *)
(* no submission without its teardown, and a cleanup that stops the job.    *)
EXTENDS SkyTeardown, TLAPS

\* A teardown past the checks.
Under(i) == stack[i] \in {"down", "poll"}

\* Handlers are in the middle of a teardown, at most one entry is past the checks, and
\* then the last teardown is going on.
StackInv ==
    /\ exit # "no" <=> stack[1] = "exited"
    /\ exit # "no" => Len(stack) = 1
    /\ \A i \in 2..Len(stack) : stack[i] \in TeardownSteps
    /\ \A i, j \in 1..Len(stack) : Under(i) /\ Under(j) => i = j
    /\ (\E i \in 1..Len(stack) : Under(i)) <=> td.state = "going"
    /\ stack[1] = "restore" => td.state # "going"

\* What was submitted was marked, and the script is through its finally, or out, only
\* after the teardown of what was marked; one that did not run to its end, or not in the
\* script's finally, has left an exception.
GuardInv ==
    /\ done <=> td.state # "none"
    /\ job # "none" => launched
    /\ stack[1] \in TryBody \ {"mark", "marking"} => launched
    /\ stack[1] \in {"mark", "marking", "submit"} => job = "none"
    /\ stack[1] \in {"restore", "exited"} => (launched => done)
    /\ td.state = "cut" => pending # "none" \/ exit \in {"one", "signal"}
    /\ td.state = "ended" => pending # "none" \/ stack[1] \in {"restore", "exited"}

\* The patterns and polls that are left.
CountInv ==
    /\ stack[1] \in TryBody \ {"cdown"} => next = 1
    /\ stack[1] = "cdown" => next <= Len(Patterns)
    /\ td.state = "going" => td.polls < MaxPolls
    /\ (\E i \in 1..Len(stack) : stack[i] = "down") => td.next <= Len(Patterns)

\* From its cancellation on a job stays stopped.
CleanInv ==
    /\ stack[1] \in TryBody \ {"cancel", "cdown"} => cleaned = "none"
    /\ stack[1] = "cdown" \/ next > Len(Patterns) => (cleaned = "ok" => job # "running")

\* A return code of zero stands for a job that succeeded, and with no errors after the
\* script's own teardown for clusters that are gone.
ZeroInv ==
    /\ code = "zero" => job = "succeeded"
    /\ stack[1] = "restore" /\ pending = "none" /\ ~errors /\ code = "zero" =>
         up = {} \/ td.blind
    /\ exit = "zero" => pending = "none" /\ job = "succeeded" /\ (up = {} \/ td.blind)

IInv == TypeOK /\ StackInv /\ GuardInv /\ CountInv /\ CleanInv /\ ZeroInv

(***************************************************************************)
(* The stack                                                               *)
(***************************************************************************)

\* The entries of the stack, and the one on top.
LEMMA StackFacts ==
    ASSUME TypeOK
    PROVE  /\ Len(stack) \in Nat \ {0}
           /\ \A i \in 1..Len(stack) : stack[i] \in Pcs
           /\ Top \in Pcs /\ stack[1] \in Pcs
BY DEF TypeOK, Top

\* Only the top entry moves.
LEMMA GotoMoves ==
    ASSUME TypeOK, NEW pc \in Pcs, Goto(pc)
    PROVE  /\ stack' \in Seq(Pcs) /\ stack' # <<>> /\ Len(stack') = Len(stack)
           /\ stack'[Len(stack)] = pc
           /\ \A i \in 1..Len(stack) : i # Len(stack) => stack'[i] = stack[i]
<1>1. stack' = [stack EXCEPT ![Len(stack)] = pc] /\ stack \in Seq(Pcs) /\ stack # <<>>
  BY DEF Goto, TypeOK
<1>2. Len(stack) \in 1..Len(stack)
  BY <1>1
<1> QED
  BY <1>1, <1>2

\* A handler starts on top of what is there.
LEMMA HandlerStarts ==
    ASSUME TypeOK, stack' = Append(stack, "enter")
    PROVE  /\ stack' \in Seq(Pcs) /\ stack' # <<>> /\ Len(stack') = Len(stack) + 1
           /\ stack'[Len(stack) + 1] = "enter"
           /\ \A i \in 1..Len(stack) : stack'[i] = stack[i]
<1>1. "enter" \in Pcs /\ stack \in Seq(Pcs)
  BY DEF Pcs, TeardownSteps, TypeOK
<1> QED
  BY <1>1

\* A script at its own work has no handler on top of it and no teardown going on.
LEMMA ScriptAlone ==
    ASSUME TypeOK, StackInv, Top \in TryBody \cup {"restore"}
    PROVE  /\ Len(stack) = 1 /\ stack[1] = Top /\ td.state # "going"
           /\ stack = <<Top>>
<1>1. Top \notin TeardownSteps
  BY DEF TryBody, TeardownSteps
<1>2. Len(stack) = 1
  <2>1. Len(stack) \in Nat \ {0}
    BY StackFacts
  <2>2. Len(stack) \notin 2..Len(stack)
    BY <1>1 DEF StackInv, Top
  <2>3. \A n \in Nat \ {0} : n \notin 2..n => n = 1
    OBVIOUS
  <2> QED
    BY <2>1, <2>2, <2>3
<1>3. stack[1] = Top /\ stack = <<Top>>
  BY <1>2 DEF Top, TypeOK
<1>4. ~Under(1)
  BY <1>3 DEF Under, TryBody
<1> QED
  BY <1>2, <1>3, <1>4 DEF StackInv

\* Between steps of the script before its finally the stack has one entry.
LEMMA ScriptMoves ==
    ASSUME TypeOK, StackInv, NEW from, NEW to \in Pcs,
           from \in TryBody, to \in TryBody \cup {"enter"},
           At(from), Step(to), td' = td
    PROVE  /\ stack[1] = from /\ Len(stack) = 1 /\ td.state # "going" /\ exit = "no"
           /\ stack' \in Seq(Pcs) /\ stack' # <<>> /\ Len(stack') = 1 /\ stack'[1] = to
           /\ StackInv'
<1>1. Top = from /\ exit = "no" /\ Goto(to) /\ UNCHANGED <<pending, exit>>
  BY DEF At, Step
<1>2. Len(stack) = 1 /\ stack[1] = from /\ td.state # "going"
  BY <1>1, ScriptAlone
<1>3. stack' \in Seq(Pcs) /\ stack' # <<>> /\ Len(stack') = 1 /\ stack'[1] = to
  BY <1>1, <1>2, GotoMoves
<1>4. to # "exited" /\ to \notin {"down", "poll"}
  BY DEF TryBody
<1>5. StackInv'
  BY <1>1, <1>2, <1>3, <1>4 DEF StackInv, Under
<1> QED
  BY <1>1, <1>2, <1>3, <1>5

\* An exception goes to the script's finally, or out of it.
LEMMA UnwindMoves ==
    ASSUME TypeOK, StackInv, exit = "no", NEW e \in {"one", "signal"}, Unwind(e),
           td'.state # "going"
    PROVE  /\ stack' \in Seq(Pcs) /\ stack' # <<>> /\ Len(stack') = 1 /\ lock' = Free
           /\ \/ stack[1] \in TryBody /\ stack'[1] = "enter" /\ pending' = e /\ exit' = "no"
              \/ stack[1] \notin TryBody /\ stack'[1] = "exited" /\ exit' = e /\ pending' = pending
           /\ StackInv'
<1>1. "enter" \in Pcs /\ "exited" \in Pcs
  BY DEF Pcs, TeardownSteps
<1>2. \/ stack[1] \in TryBody /\ stack' = <<"enter">> /\ pending' = e /\ exit' = "no"
      \/ stack[1] \notin TryBody /\ stack' = <<"exited">> /\ exit' = e /\ pending' = pending
  BY DEF Unwind
<1>3. lock' = Free
  BY DEF Unwind
<1>4. stack' \in Seq(Pcs) /\ stack' # <<>> /\ Len(stack') = 1 /\ stack'[1] \in {"enter", "exited"}
  <2>1. \A pc \in Pcs : <<pc>> \in Seq(Pcs) /\ <<pc>> # <<>> /\ Len(<<pc>>) = 1 /\ <<pc>>[1] = pc
    OBVIOUS
  <2>2. PICK pc \in {"enter", "exited"} : stack' = <<pc>>
    BY <1>2
  <2> QED
    BY <1>1, <2>1, <2>2
<1>5. stack'[1] = "exited" <=> exit' # "no"
  BY <1>2
<1>6. StackInv'
  BY <1>4, <1>5 DEF StackInv, Under
<1> QED
  BY <1>2, <1>3, <1>4, <1>6

(***************************************************************************)
(* The script up to its finally                                            *)
(***************************************************************************)

LEMMA InitHolds == Init => IInv
<1> SUFFICES ASSUME Init PROVE IInv
  OBVIOUS
<1>1. stack = <<"mark">> /\ stack \in Seq(Pcs) /\ Len(stack) = 1 /\ stack[1] = "mark" /\ stack # <<>>
  BY DEF Init, Pcs, TryBody
<1>2. td = [state |-> "none", next |-> 1, polls |-> 0, seen |-> {}, blind |-> FALSE]
  BY DEF Init, Idle
<1>3. Len(Patterns) \in Nat /\ Len(Patterns) > 0
  BY PatternsAssumption
<1>4. TypeOK
  <2>1. kind \in {"pipeline", "quickstart"} /\ cleanup \in BOOLEAN
    BY DEF Init
  <2>2. td \in [state : {"none", "going", "cut", "ended"}, next : 1..(Len(Patterns) + 1),
                polls : 0..MaxPolls, seen : SUBSET Clusters, blind : BOOLEAN]
    BY <1>2, <1>3, BoundAssumption
  <2>3. lock \in 0..Len(stack) /\ signals \in 0..MaxSignals /\ next \in 1..(Len(Patterns) + 1)
    BY <1>1, <1>3, BoundAssumption DEF Init, Free
  <2> QED
    BY <1>1, <2>1, <2>2, <2>3 DEF Init, TypeOK
<1>5. StackInv
  BY <1>1, <1>2 DEF Init, StackInv, Under
<1>6. GuardInv /\ ZeroInv
  BY <1>1, <1>2 DEF Init, GuardInv, ZeroInv, TryBody
<1>7. CountInv /\ CleanInv
  BY <1>1, <1>2, <1>3 DEF Init, CountInv, CleanInv, TryBody
<1> QED
  BY <1>4, <1>5, <1>6, <1>7 DEF IInv

\* mark_launched, before the submission and after it.
LEMMA MarkKeeps == ASSUME IInv, MarkLaunched PROVE IInv'
<1>1. ASSUME NEW from, NEW to, <<from, to>> \in {<<"mark", "marking">>, <<"remark", "remarking">>},
             MarkAcquires(from, to)
      PROVE  IInv'
  <2>1. from \in TryBody /\ to \in TryBody /\ to \in Pcs
    BY <1>1 DEF TryBody, Pcs
  <2>2. At(from) /\ Step(to) /\ td' = td /\ lock' = Len(stack)
        /\ UNCHANGED <<scriptVars, code, guardVars, td, errors, cleanVars, skyVars, signals>>
    BY <1>1 DEF MarkAcquires
  <2>3. /\ stack[1] = from /\ Len(stack) = 1 /\ td.state # "going" /\ exit = "no"
        /\ stack' \in Seq(Pcs) /\ stack' # <<>> /\ Len(stack') = 1 /\ stack'[1] = to
        /\ StackInv'
    BY <2>1, <2>2, ScriptMoves DEF IInv
  <2>4. TypeOK'
    BY <2>2, <2>3 DEF IInv, TypeOK, Step, scriptVars, guardVars, cleanVars, skyVars
  <2>5. GuardInv'
    BY <1>1, <2>2, <2>3 DEF IInv, GuardInv, Step, TryBody, scriptVars, guardVars, cleanVars, skyVars
  <2>6. CountInv' /\ CleanInv' /\ ZeroInv'
    BY <1>1, <2>2, <2>3 DEF IInv, CountInv, CleanInv, ZeroInv, Step, TryBody, scriptVars, guardVars,
                            cleanVars, skyVars
  <2> QED
    BY <2>3, <2>4, <2>5, <2>6 DEF IInv
<1>2. ASSUME NEW from, NEW to, <<from, to>> \in {<<"marking", "submit">>, <<"remarking", "wait">>},
             MarkReleases(from, to)
      PROVE  IInv'
  <2>1. from \in TryBody /\ to \in TryBody /\ to \in Pcs
    BY <1>2 DEF TryBody, Pcs
  <2>2. At(from) /\ Step(to) /\ td' = td /\ lock' = Free /\ launched' = TRUE
        /\ UNCHANGED <<scriptVars, code, done, td, errors, cleanVars, skyVars, signals>>
    BY <1>2 DEF MarkReleases
  <2>3. /\ stack[1] = from /\ Len(stack) = 1 /\ td.state # "going" /\ exit = "no"
        /\ stack' \in Seq(Pcs) /\ stack' # <<>> /\ Len(stack') = 1 /\ stack'[1] = to
        /\ StackInv'
    BY <2>1, <2>2, ScriptMoves DEF IInv
  <2>4. TypeOK'
    BY <2>2, <2>3 DEF IInv, TypeOK, Step, Free, scriptVars, cleanVars, skyVars
  <2>5. GuardInv'
    BY <1>2, <2>2, <2>3 DEF IInv, GuardInv, Step, TryBody, scriptVars, cleanVars, skyVars
  <2>6. CountInv' /\ CleanInv' /\ ZeroInv'
    BY <1>2, <2>2, <2>3 DEF IInv, CountInv, CleanInv, ZeroInv, Step, TryBody, scriptVars,
                            cleanVars, skyVars
  <2> QED
    BY <2>3, <2>4, <2>5, <2>6 DEF IInv
<1> QED
  BY <1>1, <1>2 DEF MarkLaunched

\* The submission, or sky launch: what reaches SkyPilot was marked.
LEMMA SubmitKeeps == ASSUME IInv, SubmitWorkflow \/ Launch PROVE IInv'
<1>1. ASSUME NEW to, to \in {"remark", "launching"}, job' \in {"none", "running"},
             At("submit"), Step(to), td' = td,
             UNCHANGED <<scriptVars, lock, code, guardVars, errors, cleanVars, up, signals>>
      PROVE  IInv'
  <2>1. "submit" \in TryBody /\ to \in TryBody /\ to \in Pcs
    BY <1>1 DEF TryBody, Pcs
  <2>2. /\ stack[1] = "submit" /\ Len(stack) = 1 /\ td.state # "going" /\ exit = "no"
        /\ stack' \in Seq(Pcs) /\ stack' # <<>> /\ Len(stack') = 1 /\ stack'[1] = to
        /\ StackInv'
    BY <1>1, <2>1, ScriptMoves DEF IInv
  <2>3. TypeOK'
    BY <1>1, <2>2 DEF IInv, TypeOK, Step, LiveJob, scriptVars, guardVars, cleanVars
  <2>4. GuardInv'
    BY <1>1, <2>2 DEF IInv, GuardInv, Step, TryBody, scriptVars, guardVars, cleanVars
  <2>5. next = 1 /\ Len(Patterns) > 0 /\ Len(Patterns) \in Nat /\ job = "none"
    BY <2>2, PatternsAssumption DEF IInv, CountInv, GuardInv, TryBody
  <2>6. CountInv' /\ CleanInv' /\ ZeroInv'
    BY <1>1, <2>2, <2>5 DEF IInv, CountInv, CleanInv, ZeroInv, Step, TryBody, scriptVars, guardVars,
                            cleanVars
  <2> QED
    BY <2>2, <2>3, <2>4, <2>6 DEF IInv
<1>2. ASSUME SubmitWorkflow, job' \in {"none", "running"}, Unwind("one"), td' = Abandoned
      PROVE  IInv'
  <2>1. At("submit") /\ UNCHANGED <<scriptVars, code, guardVars, errors, cleanVars, up, signals>>
    BY <1>2 DEF SubmitWorkflow
  <2>2. Len(stack) = 1 /\ stack[1] = "submit" /\ td.state # "going" /\ exit = "no"
    BY <2>1, ScriptAlone DEF IInv, At, TryBody
  <2>3. td' = td
    BY <1>2, <2>2 DEF Abandoned
  <2>4. /\ stack' \in Seq(Pcs) /\ stack' # <<>> /\ Len(stack') = 1 /\ lock' = Free
        /\ stack'[1] = "enter" /\ pending' = "one" /\ exit' = "no" /\ StackInv'
    BY <1>2, <2>2, <2>3, UnwindMoves DEF IInv, TryBody
  <2>5. TypeOK'
    BY <1>2, <2>1, <2>3, <2>4 DEF IInv, TypeOK, LiveJob, Free, scriptVars, guardVars, cleanVars
  <2>6. GuardInv'
    BY <1>2, <2>1, <2>2, <2>3, <2>4 DEF IInv, GuardInv, TryBody, guardVars
  <2>7. next = 1 /\ Len(Patterns) > 0 /\ Len(Patterns) \in Nat /\ job = "none"
    BY <2>2, PatternsAssumption DEF IInv, CountInv, GuardInv, TryBody
  <2>8. CountInv' /\ CleanInv' /\ ZeroInv'
    BY <1>2, <2>1, <2>2, <2>3, <2>4, <2>7 DEF IInv, CountInv, CleanInv, ZeroInv, TryBody, cleanVars
  <2> QED
    BY <2>4, <2>5, <2>6, <2>8 DEF IInv
<1>3. CASE Launch
  BY <1>1, <1>3 DEF Launch
<1>4. CASE SubmitWorkflow
  BY <1>1, <1>2, <1>4 DEF SubmitWorkflow
<1> QED
  BY <1>3, <1>4

\* sky launch or the wait for the job: a return code of zero is a job that succeeded.
LEMMA WaitKeeps == ASSUME IInv, LaunchReturns \/ WaitEnds PROVE IInv'
<1>1. PICK from \in {"launching", "wait"}, to \in {"enter", "queue"} :
        /\ At(from) /\ Step(to)
        /\ \/ code' = "zero" /\ job = "succeeded"
           \/ code' = "one"
        /\ UNCHANGED <<scriptVars, lock, guardVars, td, errors, cleanVars, skyVars, signals>>
  BY DEF LaunchReturns, WaitEnds
<1>2. from \in TryBody /\ to \in TryBody \cup {"enter"} /\ to \in Pcs
  BY <1>1 DEF TryBody, Pcs, TeardownSteps
<1>3. /\ stack[1] = from /\ Len(stack) = 1 /\ td.state # "going" /\ exit = "no"
      /\ stack' \in Seq(Pcs) /\ stack' # <<>> /\ Len(stack') = 1 /\ stack'[1] = to
      /\ StackInv'
  BY <1>1, <1>2, ScriptMoves DEF IInv
<1>4. TypeOK'
  BY <1>1, <1>3 DEF IInv, TypeOK, Step, scriptVars, guardVars, cleanVars, skyVars
<1>5. GuardInv'
  BY <1>1, <1>3 DEF IInv, GuardInv, Step, TryBody, guardVars, skyVars
<1>6. CountInv' /\ CleanInv' /\ ZeroInv'
  BY <1>1, <1>3 DEF IInv, CountInv, CleanInv, ZeroInv, Step, TryBody, cleanVars, skyVars
<1> QED
  BY <1>3, <1>4, <1>5, <1>6 DEF IInv

\* cleanup_all_for_run: from the cancellation on the job is no longer running.
LEMMA CleanupKeeps == ASSUME IInv, MatchJobs \/ CancelJob \/ CleanupDown PROVE IInv'
<1>0. Len(Patterns) \in Nat /\ Len(Patterns) > 0
  BY PatternsAssumption
<1>1. CASE MatchJobs
  <2>1. PICK to \in {"cancel", "cdown"} :
          /\ At("queue") /\ Step(to)
          /\ cleaned' \in {"ok", "blind"}
          /\ to = "cdown" /\ cleaned' = "ok" => job \notin LiveJob
          /\ UNCHANGED <<scriptVars, lock, code, guardVars, td, errors, next, skyVars, signals>>
    BY <1>1 DEF MatchJobs
  <2>2. "queue" \in TryBody /\ to \in TryBody /\ to \in Pcs
    BY <2>1 DEF TryBody, Pcs
  <2>3. /\ stack[1] = "queue" /\ Len(stack) = 1 /\ td.state # "going" /\ exit = "no"
        /\ stack' \in Seq(Pcs) /\ stack' # <<>> /\ Len(stack') = 1 /\ stack'[1] = to
        /\ StackInv'
    BY <2>1, <2>2, ScriptMoves DEF IInv
  <2>4. TypeOK'
    BY <2>1, <2>3 DEF IInv, TypeOK, Step, scriptVars, guardVars, skyVars
  <2>5. GuardInv'
    BY <2>1, <2>3 DEF IInv, GuardInv, Step, TryBody, guardVars, skyVars
  <2>6. CountInv' /\ CleanInv' /\ ZeroInv'
    BY <1>0, <2>1, <2>3 DEF IInv, CountInv, CleanInv, ZeroInv, Step, TryBody, LiveJob, skyVars
  <2> QED
    BY <2>3, <2>4, <2>5, <2>6 DEF IInv
<1>2. CASE CancelJob
  <2>1. /\ At("cancel") /\ Step("cdown")
        /\ \/ job' = (IF job \in LiveJob THEN "cancelling" ELSE job) /\ UNCHANGED cleaned
           \/ cleaned' = "errors" /\ UNCHANGED job
        /\ UNCHANGED <<scriptVars, lock, code, guardVars, td, errors, next, up, signals>>
    BY <1>2 DEF CancelJob
  <2>2. "cancel" \in TryBody /\ "cdown" \in TryBody /\ "cdown" \in Pcs
    BY DEF TryBody, Pcs
  <2>3. /\ stack[1] = "cancel" /\ Len(stack) = 1 /\ td.state # "going" /\ exit = "no"
        /\ stack' \in Seq(Pcs) /\ stack' # <<>> /\ Len(stack') = 1 /\ stack'[1] = "cdown"
        /\ StackInv'
    BY <2>1, <2>2, ScriptMoves DEF IInv
  <2>4. TypeOK'
    BY <2>1, <2>3 DEF IInv, TypeOK, Step, LiveJob, scriptVars, guardVars
  <2>5. GuardInv'
    BY <2>1, <2>3 DEF IInv, GuardInv, Step, TryBody, LiveJob, guardVars
  <2>6. CountInv' /\ CleanInv' /\ ZeroInv'
    BY <1>0, <2>1, <2>3 DEF IInv, CountInv, CleanInv, ZeroInv, Step, TryBody, LiveJob
  <2> QED
    BY <2>3, <2>4, <2>5, <2>6 DEF IInv
<1>3. CASE CleanupDown
  <2>1. PICK to \in {"enter", "cdown"} :
          /\ At("cdown") /\ Step(to)
          /\ next = Len(Patterns) <=> to = "enter"
          /\ up' \subseteq up /\ cleaned' \in {cleaned, "errors"} /\ next' = next + 1
          /\ UNCHANGED <<scriptVars, lock, code, guardVars, td, errors, job, signals>>
    BY <1>3 DEF CleanupDown, SkyDown
  <2>2. "cdown" \in TryBody /\ to \in TryBody \cup {"enter"} /\ to \in Pcs
    BY <2>1 DEF TryBody, Pcs, TeardownSteps
  <2>3. /\ stack[1] = "cdown" /\ Len(stack) = 1 /\ td.state # "going" /\ exit = "no"
        /\ stack' \in Seq(Pcs) /\ stack' # <<>> /\ Len(stack') = 1 /\ stack'[1] = to
        /\ StackInv'
    BY <2>1, <2>2, ScriptMoves DEF IInv
  <2>4. next \in Nat /\ next <= Len(Patterns) /\ next \in 1..(Len(Patterns) + 1)
    BY <1>0, <2>3 DEF IInv, CountInv, TypeOK
  <2>5. TypeOK'
    <3>1. next' \in 1..(Len(Patterns) + 1)
      BY <1>0, <2>1, <2>4
    <3> QED
      BY <2>1, <2>3, <3>1 DEF IInv, TypeOK, Step, scriptVars, guardVars
  <2>6. GuardInv'
    BY <2>1, <2>3 DEF IInv, GuardInv, Step, TryBody, guardVars
  <2>7. CountInv' /\ CleanInv'
    BY <1>0, <2>1, <2>3, <2>4 DEF IInv, CountInv, CleanInv, Step, TryBody
  <2>8. ZeroInv'
    BY <2>1, <2>3 DEF IInv, ZeroInv, Step
  <2> QED
    BY <2>3, <2>5, <2>6, <2>7, <2>8 DEF IInv
<1> QED
  BY <1>1, <1>2, <1>3

(***************************************************************************)
(* The teardown, in the finally or in a handler                            *)
(***************************************************************************)

\* A step of the top entry within teardown leaves the script where it is, unless it is
\* the script's own.
LEMMA TeardownMoves ==
    ASSUME TypeOK, StackInv, NEW from \in TeardownSteps, NEW to \in TeardownSteps,
           At(from), Step(to)
    PROVE  /\ stack' \in Seq(Pcs) /\ stack' # <<>> /\ Len(stack') = Len(stack)
           /\ stack[Len(stack)] = from /\ stack'[Len(stack)] = to
           /\ \A i \in 1..Len(stack) : i # Len(stack) => stack'[i] = stack[i]
           /\ Len(stack) \in Nat \ {0} /\ 1 \in 1..Len(stack) /\ Len(stack) \in 1..Len(stack)
           /\ \/ stack'[1] = stack[1]
              \/ stack[1] \in TeardownSteps /\ stack'[1] \in TeardownSteps
           /\ stack'[1] # "exited" /\ stack[1] # "exited" /\ exit = "no" /\ exit' = "no"
           /\ \A i \in 2..Len(stack') : stack'[i] \in TeardownSteps
<1>1. Top = from /\ exit = "no" /\ Goto(to) /\ UNCHANGED <<pending, exit>> /\ to \in Pcs
  BY DEF At, Step, Pcs
<1>2. /\ stack' \in Seq(Pcs) /\ stack' # <<>> /\ Len(stack') = Len(stack)
      /\ stack'[Len(stack)] = to
      /\ \A i \in 1..Len(stack) : i # Len(stack) => stack'[i] = stack[i]
  BY <1>1, GotoMoves
<1>3. stack[Len(stack)] = from /\ Len(stack) \in Nat \ {0}
  BY <1>1, StackFacts DEF Top
<1>4. 1 \in 1..Len(stack) /\ Len(stack) \in 1..Len(stack)
  BY <1>3
<1>5. stack[1] # "exited"
  BY <1>1 DEF StackInv
<1>6. \/ stack'[1] = stack[1]
      \/ stack[1] \in TeardownSteps /\ stack'[1] \in TeardownSteps
  BY <1>2, <1>3, <1>4
<1>7. stack'[1] # "exited"
  BY <1>5, <1>6 DEF TeardownSteps
<1>8. \A i \in 2..Len(stack') : stack'[i] \in TeardownSteps
  BY <1>2, <1>3 DEF StackInv
<1> QED
  BY <1>1, <1>2, <1>3, <1>4, <1>5, <1>6, <1>7, <1>8

\* Past the checks there is one entry, and it is on top.
LEMMA UnderMoves ==
    ASSUME TypeOK, StackInv, NEW from \in TeardownSteps, NEW to \in {"down", "poll"},
           At(from), Step(to), td'.state = "going", stack[1] # "restore",
           td.state = "going" => from \in {"down", "poll"}
    PROVE  /\ StackInv'
           /\ \A i \in 1..Len(stack') : stack'[i] = "down" => to = "down"
<1>1. to \in TeardownSteps
  BY DEF TeardownSteps
<1>2. /\ Len(stack') = Len(stack) /\ stack[Len(stack)] = from /\ stack'[Len(stack)] = to
      /\ \A i \in 1..Len(stack) : i # Len(stack) => stack'[i] = stack[i]
      /\ Len(stack) \in 1..Len(stack)
      /\ stack'[1] # "exited" /\ exit' = "no" /\ stack'[1] # "restore"
      /\ \A i \in 2..Len(stack') : stack'[i] \in TeardownSteps
  BY <1>1, TeardownMoves DEF TeardownSteps
<1>3. \A i \in 1..Len(stack) : i # Len(stack) => stack[i] \notin {"down", "poll"}
  <2>1. CASE td.state = "going"
    BY <1>2, <2>1 DEF StackInv, Under
  <2>2. CASE td.state # "going"
    BY <2>2 DEF StackInv, Under
  <2> QED
    BY <2>1, <2>2
<1>4. \A i \in 1..Len(stack') : stack'[i] \in {"down", "poll"} <=> i = Len(stack)
  BY <1>2, <1>3
<1>5. StackInv'
  BY <1>2, <1>4 DEF StackInv, Under
<1>6. \A i \in 1..Len(stack') : stack'[i] = "down" => to = "down"
  BY <1>2, <1>4
<1> QED
  BY <1>5, <1>6

\* The teardown takes the lock.
LEMMA EnterKeeps == ASSUME IInv, TeardownEnters PROVE IInv'
<1>1. /\ At("enter") /\ Step("inside") /\ lock' = Len(stack)
      /\ UNCHANGED <<scriptVars, code, guardVars, td, errors, cleanVars, skyVars, signals>>
  BY DEF TeardownEnters
<1>2. "enter" \in TeardownSteps /\ "inside" \in TeardownSteps
  BY DEF TeardownSteps
<1>3. /\ stack' \in Seq(Pcs) /\ stack' # <<>> /\ Len(stack') = Len(stack)
      /\ stack[Len(stack)] = "enter" /\ stack'[Len(stack)] = "inside"
      /\ \A i \in 1..Len(stack) : i # Len(stack) => stack'[i] = stack[i]
      /\ Len(stack) \in Nat \ {0} /\ Len(stack) \in 1..Len(stack)
      /\ \/ stack'[1] = stack[1]
         \/ stack[1] \in TeardownSteps /\ stack'[1] \in TeardownSteps
      /\ stack'[1] # "exited" /\ stack[1] # "exited" /\ exit = "no" /\ exit' = "no"
      /\ \A i \in 2..Len(stack') : stack'[i] \in TeardownSteps
  BY <1>1, <1>2, TeardownMoves DEF IInv
<1>4. \A i \in 1..Len(stack) : Under(i)' <=> Under(i)
  BY <1>3 DEF Under
<1>5. StackInv'
  <2>1. stack'[1] = "restore" => stack[1] = "restore"
    BY <1>3 DEF TeardownSteps
  <2> QED
    BY <1>1, <1>3, <1>4, <2>1 DEF IInv, StackInv, Under
<1>6. TypeOK'
  <2>1. lock' \in 0..Len(stack')
    BY <1>1, <1>3
  <2> QED
    BY <1>1, <1>3, <2>1 DEF IInv, TypeOK, Step, scriptVars, guardVars, cleanVars, skyVars
<1>7. GuardInv'
  BY <1>1, <1>3 DEF IInv, GuardInv, Step, TryBody, TeardownSteps, guardVars, skyVars
<1>8. CountInv' /\ CleanInv' /\ ZeroInv'
  <2>1. (\E i \in 1..Len(stack') : stack'[i] = "down") => \E i \in 1..Len(stack) : stack[i] = "down"
    BY <1>3
  <2> QED
    BY <1>1, <1>3, <2>1 DEF IInv, CountInv, CleanInv, ZeroInv, Step, TryBody, TeardownSteps,
                            cleanVars, skyVars
<1> QED
  BY <1>5, <1>6, <1>7, <1>8 DEF IInv

\* The members of the record td.
Td == [state : {"none", "going", "cut", "ended"}, next : 1..(Len(Patterns) + 1),
       polls : 0..MaxPolls, seen : SUBSET Clusters, blind : BOOLEAN]

LEMMA TdIsRecord == TypeOK => td \in Td
BY DEF TypeOK, Td

\* A teardown that is left unfinished stays the last one.
LEMMA AbandonedFacts ==
    ASSUME TypeOK
    PROVE  /\ Abandoned \in Td /\ Abandoned.state # "going" /\ Abandoned.blind = td.blind
           /\ Abandoned.state = "none" <=> td.state = "none"
           /\ Abandoned.state = "ended" <=> td.state = "ended"
           /\ td.state # "going" => Abandoned = td
BY TdIsRecord DEF Abandoned, Td

\* An exception out of a handler or a command.
LEMMA ExceptionKeeps ==
    ASSUME IInv, exit = "no", NEW e \in {"one", "signal"}, Unwind(e),
           td' \in Td, td'.state # "going",
           td'.state = "none" <=> td.state = "none",
           stack[1] \notin TryBody => (launched => done),
           UNCHANGED <<scriptVars, code, guardVars, errors, cleanVars, skyVars, signals>>
    PROVE  IInv'
<1>1. /\ stack' \in Seq(Pcs) /\ stack' # <<>> /\ Len(stack') = 1 /\ lock' = Free
      /\ \/ stack[1] \in TryBody /\ stack'[1] = "enter" /\ pending' = e /\ exit' = "no"
         \/ stack[1] \notin TryBody /\ stack'[1] = "exited" /\ exit' = e /\ pending' = pending
      /\ StackInv'
  BY UnwindMoves DEF IInv
<1>2. TypeOK'
  BY <1>1 DEF IInv, TypeOK, Td, Free, scriptVars, guardVars, cleanVars, skyVars
<1>3. GuardInv'
  BY <1>1 DEF IInv, GuardInv, TryBody, guardVars, skyVars
<1>4. CountInv'
  BY <1>1 DEF IInv, CountInv, TryBody, cleanVars
<1>5. CleanInv'
  <2>1. CASE stack[1] = "cdown" \/ next > Len(Patterns)
    BY <1>1, <2>1 DEF IInv, CleanInv, TryBody, cleanVars, skyVars
  <2>2. CASE ~(next > Len(Patterns))
    BY <1>1, <2>2 DEF IInv, CleanInv, TryBody, cleanVars, skyVars
  <2> QED
    BY <2>1, <2>2
<1>6. ZeroInv'
  BY <1>1 DEF IInv, ZeroInv, skyVars
<1> QED
  BY <1>1, <1>2, <1>3, <1>4, <1>5, <1>6 DEF IInv

\* teardown returns in the script's finally: a handler's unwinds.
LEMMA FinallyKeeps ==
    ASSUME IInv, exit = "no", NEW from \in TeardownSteps, At(from), InScript, Step("restore"),
           lock' = Free, td' \in Td, td'.state # "going",
           td'.state = "none" <=> td.state = "none",
           launched => done,
           td'.state = "cut" => td.state = "cut",
           pending = "none" /\ ~errors' /\ code = "zero" => up = {} \/ td'.blind,
           errors' \in BOOLEAN,
           UNCHANGED <<scriptVars, code, guardVars, cleanVars, skyVars, signals>>
    PROVE  IInv'
<1>1. Goto("restore") /\ UNCHANGED <<pending, exit>> /\ "restore" \in Pcs /\ Len(stack) = 1
      /\ stack[1] = from
  BY DEF Step, Pcs, InScript, At, Top
<1>2. stack' \in Seq(Pcs) /\ stack' # <<>> /\ Len(stack') = 1 /\ stack'[1] = "restore"
  BY <1>1, GotoMoves DEF IInv
<1>3. StackInv'
  BY <1>1, <1>2 DEF IInv, StackInv, Under
<1>4. TypeOK'
  BY <1>1, <1>2 DEF IInv, TypeOK, Td, Free, scriptVars, guardVars, cleanVars, skyVars
<1>5. GuardInv'
  BY <1>1, <1>2 DEF IInv, GuardInv, TryBody, guardVars, skyVars
<1>6. CountInv' /\ CleanInv'
  BY <1>1, <1>2 DEF IInv, CountInv, CleanInv, TryBody, TeardownSteps, cleanVars, skyVars
<1>7. ZeroInv'
  BY <1>1, <1>2 DEF IInv, ZeroInv, skyVars
<1> QED
  BY <1>3, <1>4, <1>5, <1>6, <1>7 DEF IInv

\* The two flags: the teardown goes on, or there is nothing for it to do.
LEMMA StartsKeeps == ASSUME IInv, TeardownStarts PROVE IInv'
<1>1. /\ At("inside") /\ "inside" \in TeardownSteps /\ exit = "no"
      /\ UNCHANGED <<scriptVars, code, launched, cleanVars, skyVars, signals>>
  BY DEF TeardownStarts, TeardownSteps, At
<1>2. Len(stack) \in 1..Len(stack) /\ stack[Len(stack)] = "inside"
  BY <1>1, StackFacts DEF IInv, At, Top
<1>3. ASSUME done \/ ~launched PROVE IInv'
  <2>1. TeardownReturns(FALSE) /\ td' = Abandoned /\ done' = done
    BY <1>3 DEF TeardownStarts
  <2>2. td' \in Td /\ td'.state # "going" /\ (td'.state = "none" <=> td.state = "none")
    BY <2>1, AbandonedFacts DEF IInv
  <2>3. CASE InScript
    <3>1. errors' = FALSE /\ Step("restore") /\ lock' = Free
      BY <2>1, <2>3 DEF TeardownReturns
    <3>2. stack[1] = "inside"
      BY <1>2, <2>3 DEF InScript
    <3>3. td.state # "going"
      BY <1>2, <2>3, <3>2 DEF IInv, StackInv, InScript, Under
    <3>4. td' = td
      BY <2>1, <3>3, AbandonedFacts DEF IInv
    <3>5. ~(pending = "none" /\ code = "zero")
      <4>1. CASE ~launched
        BY <4>1 DEF IInv, GuardInv, ZeroInv
      <4>2. CASE done
        <5>1. td.state \in {"cut", "ended"}
          BY <4>2, <3>3, TdIsRecord DEF IInv, GuardInv, Td
        <5> QED
          BY <1>1, <3>2, <5>1 DEF IInv, GuardInv
      <4> QED
        BY <1>3, <4>1, <4>2
    <3> QED
      BY <1>1, <1>3, <2>1, <2>2, <2>3, <3>1, <3>4, <3>5, FinallyKeeps DEF guardVars
  <2>4. CASE ~InScript
    BY <1>1, <1>3, <2>1, <2>2, <2>4, ExceptionKeeps DEF TeardownReturns, guardVars
  <2> QED
    BY <2>3, <2>4
<1>4. ASSUME ~done, launched PROVE IInv'
  <2>1. /\ done' = TRUE /\ lock' = Free /\ errors' = errors
        /\ td' = [Idle EXCEPT !.state = "going"]
        /\ Step("down")
    BY <1>4 DEF TeardownStarts
  <2>2. /\ td.state = "none" /\ td'.state = "going" /\ td'.next = 1 /\ td'.polls = 0
        /\ td' \in Td
    <3>1. td.state = "none"
      BY <1>4 DEF IInv, GuardInv
    <3>2. td' = [state |-> "going", next |-> 1, polls |-> 0, seen |-> {}, blind |-> FALSE]
      BY <2>1 DEF Idle
    <3>3. 1 \in 1..(Len(Patterns) + 1) /\ 0 \in 0..MaxPolls
      BY PatternsAssumption, BoundAssumption
    <3>4. td' \in Td
      BY <3>2, <3>3 DEF Td
    <3> QED
      BY <3>1, <3>2, <3>4
  <2>3. StackInv'
    <3>1. stack[1] # "restore"
      BY <1>4 DEF IInv, GuardInv
    <3> QED
      BY <1>1, <2>1, <2>2, <3>1, UnderMoves DEF IInv
  <2>4. /\ stack' \in Seq(Pcs) /\ stack' # <<>> /\ Len(stack') = Len(stack)
        /\ Len(stack) \in Nat \ {0}
        /\ \/ stack'[1] = stack[1]
           \/ stack[1] \in TeardownSteps /\ stack'[1] \in TeardownSteps
        /\ stack'[1] # "exited" /\ stack[1] # "exited" /\ exit = "no" /\ exit' = "no"
    BY <1>1, <2>1, TeardownMoves DEF IInv, TeardownSteps
  <2>5. TypeOK'
    BY <1>1, <2>1, <2>2, <2>4 DEF IInv, TypeOK, Td, Step, Free, scriptVars, cleanVars, skyVars
  <2>6. GuardInv'
    BY <1>1, <1>4, <2>1, <2>2, <2>4 DEF IInv, GuardInv, Step, TryBody, TeardownSteps, skyVars
  <2>7. CountInv'
    BY <1>1, <2>1, <2>2, <2>4, PatternsAssumption, BoundAssumption
       DEF IInv, CountInv, TryBody, TeardownSteps, cleanVars
  <2>8. CleanInv'
    BY <1>1, <2>4 DEF IInv, CleanInv, TryBody, TeardownSteps, cleanVars, skyVars
  <2>9. ZeroInv'
    <3>1. stack[1] # "restore" /\ stack'[1] # "restore"
      BY <1>4, <2>4 DEF IInv, GuardInv, TeardownSteps
    <3> QED
      BY <1>1, <2>4, <3>1 DEF IInv, ZeroInv, skyVars
  <2> QED
    BY <2>3, <2>5, <2>6, <2>7, <2>8, <2>9 DEF IInv
<1> QED
  BY <1>3, <1>4 DEF IInv, TypeOK

\* sky down for each pattern; the teardown itself goes on.
LEMMA DownKeeps == ASSUME IInv, TeardownDown PROVE IInv'
<1>1. PICK to \in {"down", "poll"} :
        /\ At("down") /\ Step(to)
        /\ td.next = Len(Patterns) <=> to = "poll"
        /\ td' = [td EXCEPT !.next = @ + 1]
        /\ up' \subseteq up
        /\ UNCHANGED <<scriptVars, lock, code, guardVars, errors, cleanVars, job, signals>>
  BY DEF TeardownDown, SkyDown
<1>2. "down" \in TeardownSteps /\ to \in TeardownSteps
  BY DEF TeardownSteps
<1>3. /\ stack' \in Seq(Pcs) /\ stack' # <<>> /\ Len(stack') = Len(stack)
      /\ stack[Len(stack)] = "down" /\ Len(stack) \in 1..Len(stack)
      /\ \/ stack'[1] = stack[1]
         \/ stack[1] \in TeardownSteps /\ stack'[1] \in TeardownSteps
      /\ stack'[1] # "exited" /\ stack[1] # "exited" /\ exit = "no" /\ exit' = "no"
  BY <1>1, <1>2, TeardownMoves DEF IInv
<1>4. td.state = "going" /\ td.next <= Len(Patterns)
  BY <1>3 DEF IInv, StackInv, CountInv, Under
<1>5. td \in Td /\ td.next \in 1..(Len(Patterns) + 1) /\ Len(Patterns) \in Nat
  BY TdIsRecord, PatternsAssumption DEF IInv, Td
<1>6. td.next + 1 \in 1..(Len(Patterns) + 1)
  BY <1>4, <1>5
<1>7. td' \in Td /\ td'.state = "going" /\ td'.next = td.next + 1 /\ td'.polls = td.polls
      /\ td'.blind = td.blind
  BY <1>1, <1>4, <1>5, <1>6 DEF Td
<1>8. StackInv' /\ \A i \in 1..Len(stack') : stack'[i] = "down" => to = "down"
  <2>1. stack[1] # "restore"
    BY <1>4 DEF IInv, StackInv
  <2> QED
    BY <1>1, <1>2, <1>7, <2>1, UnderMoves DEF IInv
<1>9. TypeOK'
  <2>1. up' \subseteq Clusters
    BY <1>1 DEF IInv, TypeOK
  <2>2. lock' \in 0..Len(stack')
    BY <1>1, <1>3 DEF IInv, TypeOK
  <2>3. /\ UNCHANGED <<kind, cleanup, launched, done, code, errors, next, cleaned, job, signals>>
        /\ UNCHANGED <<pending, exit>>
    BY <1>1 DEF Step, scriptVars, guardVars, cleanVars
  <2>4. TypeOK
    BY DEF IInv
  <2> QED
    BY <1>3, <1>7, <2>1, <2>2, <2>3, <2>4 DEF TypeOK, Td
<1>10. GuardInv'
  BY <1>1, <1>3, <1>4, <1>7 DEF IInv, GuardInv, Step, TryBody, TeardownSteps, guardVars
<1>11. CountInv'
  <2>1. (\E i \in 1..Len(stack') : stack'[i] = "down") => td'.next <= Len(Patterns)
    BY <1>1, <1>4, <1>5, <1>7, <1>8
  <2> QED
    BY <1>1, <1>3, <1>4, <1>7, <2>1 DEF IInv, CountInv, TryBody, TeardownSteps, cleanVars
<1>12. CleanInv'
  BY <1>1, <1>3 DEF IInv, CleanInv, TryBody, TeardownSteps, cleanVars
<1>13. ZeroInv'
  <2>1. stack'[1] = "restore" => stack[1] = "restore"
    BY <1>3 DEF TeardownSteps
  <2> QED
    BY <1>1, <1>3, <1>7, <2>1 DEF IInv, ZeroInv, Step
<1> QED
  BY <1>8, <1>9, <1>10, <1>11, <1>12, <1>13 DEF IInv

\* A round of the poll.  Only an answer that listed nothing ends it without an error: then
\* the clusters are gone, or the answer was no JSON.
LEMMA PollKeeps == ASSUME IInv, TeardownPolls PROVE IInv'
<1>1. PICK seen \in SUBSET Clusters, failed \in BOOLEAN, blind \in BOOLEAN :
        /\ Poll(seen, failed, blind)
        /\ ~failed => blind \/ seen = up
  <2>1. up \in SUBSET Clusters /\ {} \in SUBSET Clusters
    BY DEF IInv, TypeOK
  <2>2. td.seen \in SUBSET Clusters
    BY TdIsRecord DEF IInv, Td
  <2> QED
    BY <2>1, <2>2 DEF TeardownPolls
<1>2. /\ At("poll") /\ "poll" \in TeardownSteps /\ exit = "no"
      /\ UNCHANGED <<scriptVars, code, guardVars, cleanVars, skyVars, signals>>
  BY DEF TeardownPolls, TeardownSteps, At
<1>3. stack[Len(stack)] = "poll" /\ Len(stack) \in 1..Len(stack)
  BY <1>2, StackFacts DEF IInv, At, Top
<1>4. td.state = "going" /\ td \in Td /\ td.polls \in Nat /\ td.polls < MaxPolls /\ MaxPolls \in Nat
  <2>1. td.state = "going"
    BY <1>3 DEF IInv, StackInv, Under
  <2> QED
    BY <2>1, TdIsRecord, BoundAssumption DEF IInv, CountInv, Td
<1>5. launched => done
  BY <1>4 DEF IInv, GuardInv
<1>6. PICK late \in BOOLEAN :
        /\ late \/ td.polls + 1 < MaxPolls
        /\ td' = [td EXCEPT !.polls = @ + 1, !.seen = seen, !.blind = blind,
                            !.state = IF (~failed /\ seen = {}) \/ late THEN "ended" ELSE "going"]
        /\ IF (~failed /\ seen = {}) \/ late
           THEN TeardownReturns(failed \/ ~(~failed /\ seen = {}))
           ELSE Step("poll") /\ UNCHANGED <<lock, errors>>
  BY <1>1 DEF Poll
<1>7. td.polls + 1 \in 0..MaxPolls
  BY <1>4
<1>8. td' \in Td /\ td'.blind = blind /\ td'.polls = td.polls + 1 /\ td'.next = td.next
      /\ td'.state = IF (~failed /\ seen = {}) \/ late THEN "ended" ELSE "going"
  BY <1>4, <1>6, <1>7 DEF Td
<1>9. CASE (~failed /\ seen = {}) \/ late
  <2>1. TeardownReturns(failed \/ ~(~failed /\ seen = {})) /\ td'.state = "ended"
    BY <1>6, <1>8, <1>9
  <2>2. CASE InScript
    <3>1. errors' = (failed \/ ~(~failed /\ seen = {})) /\ Step("restore") /\ lock' = Free
      BY <2>1, <2>2 DEF TeardownReturns
    <3>2. ~errors' => up = {} \/ td'.blind
      BY <1>1, <1>8, <3>1
    <3>3. errors' \in BOOLEAN
      BY <3>1
    <3> QED
      BY <1>2, <1>4, <1>5, <1>8, <2>1, <2>2, <3>1, <3>2, <3>3, FinallyKeeps
  <2>3. CASE ~InScript
    <3>1. Unwind("signal") /\ errors' = errors
      BY <2>1, <2>3 DEF TeardownReturns
    <3> QED
      BY <1>2, <1>4, <1>5, <1>8, <2>1, <3>1, ExceptionKeeps
  <2> QED
    BY <2>2, <2>3
<1>10. CASE ~((~failed /\ seen = {}) \/ late)
  <2>1. Step("poll") /\ lock' = lock /\ errors' = errors /\ td'.state = "going"
        /\ td'.polls < MaxPolls
    BY <1>4, <1>6, <1>8, <1>10
  <2>2. StackInv' /\ \A i \in 1..Len(stack') : stack'[i] = "down" => "poll" = "down"
    <3>1. stack[1] # "restore"
      BY <1>4 DEF IInv, StackInv
    <3> QED
      BY <1>2, <2>1, <3>1, UnderMoves DEF IInv
  <2>3. /\ stack' \in Seq(Pcs) /\ stack' # <<>> /\ Len(stack') = Len(stack)
        /\ \/ stack'[1] = stack[1]
           \/ stack[1] \in TeardownSteps /\ stack'[1] \in TeardownSteps
        /\ stack'[1] # "exited" /\ stack[1] # "exited" /\ exit' = "no"
    BY <1>2, <2>1, TeardownMoves DEF IInv
  <2>4. TypeOK'
    BY <1>2, <1>8, <2>1, <2>3 DEF IInv, TypeOK, Td, Step, scriptVars, guardVars, cleanVars, skyVars
  <2>5. GuardInv'
    BY <1>2, <1>4, <2>1, <2>3 DEF IInv, GuardInv, Step, TryBody, TeardownSteps, guardVars, skyVars
  <2>6. CountInv'
    BY <1>2, <2>1, <2>2, <2>3 DEF IInv, CountInv, TryBody, TeardownSteps, cleanVars
  <2>7. CleanInv'
    BY <1>2, <2>3 DEF IInv, CleanInv, TryBody, TeardownSteps, cleanVars, skyVars
  <2>8. ZeroInv'
    <3>1. stack[1] # "restore"
      BY <1>4 DEF IInv, StackInv
    <3> QED
      BY <1>2, <2>1, <2>3, <3>1 DEF IInv, ZeroInv, TeardownSteps, skyVars
  <2> QED
    BY <2>2, <2>4, <2>5, <2>6, <2>7, <2>8 DEF IInv
<1> QED
  BY <1>9, <1>10

(***************************************************************************)
(* The end, signals, and SkyPilot                                          *)
(***************************************************************************)

\* A command that times out: a teardown it belongs to is left unfinished.
LEMMA TimeoutKeeps == ASSUME IInv, CommandTimesOut PROVE IInv'
<1>1. /\ exit = "no" /\ Unwind("one") /\ td' = Abandoned
      /\ Top \in {"wait", "queue", "cancel", "cdown", "down", "poll"}
      /\ UNCHANGED <<scriptVars, code, guardVars, errors, cleanVars, skyVars, signals>>
  BY DEF CommandTimesOut
<1>2. td' \in Td /\ td'.state # "going" /\ (td'.state = "none" <=> td.state = "none")
  BY <1>1, AbandonedFacts DEF IInv
<1>3. stack[1] \notin TryBody => (launched => done)
  <2>1. CASE Top \in {"down", "poll"}
    <3>1. Under(Len(stack)) /\ Len(stack) \in 1..Len(stack)
      BY <2>1, StackFacts DEF IInv, Under, Top
    <3> QED
      BY <3>1 DEF IInv, StackInv, GuardInv
  <2>2. CASE Top \in {"wait", "queue", "cancel", "cdown"}
    BY <2>2, ScriptAlone DEF IInv, TryBody
  <2> QED
    BY <1>1, <2>1, <2>2
<1> QED
  BY <1>1, <1>2, <1>3, ExceptionKeeps

\* The way out: zero only without an exception and without errors.
LEMMA ExitKeeps == ASSUME IInv, Exit PROVE IInv'
<1>1. /\ At("restore") /\ stack' = <<"exited">>
      /\ exit' = IF pending # "none" THEN pending ELSE IF errors THEN "one" ELSE code
      /\ UNCHANGED <<scriptVars, lock, pending, code, guardVars, td, errors, cleanVars, skyVars, signals>>
  BY DEF Exit
<1>2. Len(stack) = 1 /\ stack[1] = "restore" /\ td.state # "going" /\ exit = "no"
  BY <1>1, ScriptAlone DEF IInv, At
<1>3. stack' \in Seq(Pcs) /\ stack' # <<>> /\ Len(stack') = 1 /\ stack'[1] = "exited"
  BY <1>1 DEF Pcs
<1>4. exit' \in {"zero", "one", "signal"} /\ (pending # "none" => exit' \in {"one", "signal"})
  BY <1>1 DEF IInv, TypeOK
<1>5. TypeOK'
  BY <1>1, <1>2, <1>3, <1>4 DEF IInv, TypeOK, scriptVars, guardVars, cleanVars, skyVars
<1>6. StackInv'
  BY <1>1, <1>2, <1>3, <1>4 DEF IInv, StackInv, Under
<1>7. GuardInv'
  BY <1>1, <1>2, <1>3, <1>4 DEF IInv, GuardInv, TryBody, guardVars, skyVars
<1>8. CountInv' /\ CleanInv'
  BY <1>1, <1>2, <1>3 DEF IInv, CountInv, CleanInv, TryBody, cleanVars, skyVars
<1>9. ZeroInv'
  <2>1. exit' = "zero" => pending = "none" /\ ~errors /\ code = "zero"
    BY <1>1, <1>4
  <2> QED
    BY <1>1, <1>2, <1>3, <2>1 DEF IInv, ZeroInv, skyVars
<1> QED
  BY <1>5, <1>6, <1>7, <1>8, <1>9 DEF IInv

\* A signal disturbs nothing but the top of the stack.
LEMMA SignalKeeps == ASSUME IInv, Signal PROVE IInv'
<1>1. /\ exit = "no" /\ signals < MaxSignals /\ signals' = signals + 1
      /\ stack' = Append(stack, "enter")
      /\ UNCHANGED <<scriptVars, lock, pending, code, exit, guardVars, td, errors, cleanVars, skyVars>>
  BY DEF Signal
<1>2. /\ stack' \in Seq(Pcs) /\ stack' # <<>> /\ Len(stack') = Len(stack) + 1
      /\ stack'[Len(stack) + 1] = "enter"
      /\ \A i \in 1..Len(stack) : stack'[i] = stack[i]
      /\ Len(stack) \in Nat \ {0}
  BY <1>1, HandlerStarts, StackFacts DEF IInv
<1>3. stack'[1] = stack[1]
  BY <1>2
<1>4. TypeOK'
  <2>1. lock' \in 0..Len(stack') /\ signals' \in 0..MaxSignals
    BY <1>1, <1>2, BoundAssumption DEF IInv, TypeOK
  <2> QED
    BY <1>1, <1>2, <2>1 DEF IInv, TypeOK, scriptVars, guardVars, cleanVars, skyVars
<1>5. StackInv'
  <2>1. \A i \in 1..Len(stack') : i \in 1..Len(stack) \/ i = Len(stack) + 1
    BY <1>2
  <2>2. \A i \in 1..Len(stack') : Under(i)' <=> i \in 1..Len(stack) /\ Under(i)
    BY <1>2, <2>1 DEF Under
  <2>3. \A i \in 2..Len(stack') : stack'[i] \in TeardownSteps
    BY <1>2, <2>1 DEF IInv, StackInv, TeardownSteps
  <2>4. (\E i \in 1..Len(stack') : Under(i)') <=> (\E i \in 1..Len(stack) : Under(i))
    BY <1>2, <2>2
  <2> QED
    BY <1>1, <1>3, <2>2, <2>3, <2>4 DEF IInv, StackInv, Under
<1>6. GuardInv'
  BY <1>1, <1>3 DEF IInv, GuardInv, guardVars, skyVars
<1>7. CountInv'
  <2>1. (\E i \in 1..Len(stack') : stack'[i] = "down") => \E i \in 1..Len(stack) : stack[i] = "down"
    BY <1>2
  <2> QED
    BY <1>1, <1>3, <2>1 DEF IInv, CountInv, cleanVars
<1>8. CleanInv' /\ ZeroInv'
  BY <1>1, <1>3 DEF IInv, CleanInv, ZeroInv, cleanVars, skyVars
<1> QED
  BY <1>4, <1>5, <1>6, <1>7, <1>8 DEF IInv

\* SkyPilot starts nothing for a job that was stopped or has ended.
LEMMA SkyKeeps == ASSUME IInv, BringUp \/ JobEnds \/ Reap PROVE IInv'
<1>1. /\ UNCHANGED <<scriptVars, threadVars, guardVars, td, errors, cleanVars, signals>>
      /\ job' \in {job} \cup EndedJob /\ (job \notin LiveJob => job' = job)
      /\ job # "running" => up' \subseteq up
      /\ up' \in SUBSET Clusters
  BY DEF BringUp, JobEnds, Reap, IInv, TypeOK, EndedJob
<1>2. TypeOK'
  BY <1>1 DEF IInv, TypeOK, EndedJob, LiveJob, scriptVars, threadVars, guardVars, cleanVars
<1>3. StackInv' /\ CountInv'
  BY <1>1 DEF IInv, StackInv, CountInv, Under, threadVars, cleanVars
<1>4. GuardInv'
  BY <1>1 DEF IInv, GuardInv, LiveJob, threadVars, guardVars
<1>5. CleanInv'
  BY <1>1 DEF IInv, CleanInv, EndedJob, threadVars, cleanVars
<1>6. ZeroInv'
  BY <1>1 DEF IInv, ZeroInv, LiveJob, threadVars
<1> QED
  BY <1>2, <1>3, <1>4, <1>5, <1>6 DEF IInv

(***************************************************************************)
(* The theorems                                                            *)
(***************************************************************************)

\* The inductive invariant holds in every state.
THEOREM InvariantHolds == Spec => []IInv
<1>1. IInv /\ [Next]_vars => IInv'
  <2> SUFFICES ASSUME IInv, [Next]_vars PROVE IInv'
    OBVIOUS
  <2>1. CASE UNCHANGED vars
    BY <2>1 DEF vars, scriptVars, threadVars, guardVars, cleanVars, skyVars, IInv, TypeOK, StackInv,
                GuardInv, CountInv, CleanInv, ZeroInv, Under
  <2>2. CASE Script
    BY <2>2, MarkKeeps, SubmitKeeps, WaitKeeps, CleanupKeeps, EnterKeeps, StartsKeeps, DownKeeps,
       PollKeeps, TimeoutKeeps, ExitKeeps DEF Script
  <2>3. CASE Signal \/ BringUp \/ JobEnds \/ Reap
    BY <2>3, SignalKeeps, SkyKeeps
  <2> QED
    BY <2>1, <2>2, <2>3 DEF Next
<1> QED
  BY InitHolds, <1>1, PTL DEF Spec

\* Every variable has its type, for any clusters, patterns, signals and polls.
THEOREM TypeCorrect == Spec => []TypeOK
<1>1. IInv => TypeOK
  BY DEF IInv
<1> QED
  BY InvariantHolds, <1>1, PTL

\* A script that exits with 0 has a job that succeeded, and its clusters are gone unless
\* the status it believed was no JSON.
THEOREM ZeroExitIsClean == Spec => []ZeroExitLeavesNothing
<1>1. IInv => ZeroExitLeavesNothing
  BY DEF IInv, ZeroInv, ZeroExitLeavesNothing
<1> QED
  BY InvariantHolds, <1>1, PTL

\* What reached SkyPilot has had its teardown when the script has ended, however often
\* and wherever it was signalled (mark_launched, the finally, and the handler).
THEOREM SubmissionsAreTornDown == Spec => []NoSubmissionIsAbandoned
<1>1. IInv => NoSubmissionIsAbandoned
  <2> SUFFICES ASSUME IInv, exit # "no", job # "none"
               PROVE  td.state = "ended" \/ (td.state = "cut" /\ exit # "zero")
    BY DEF NoSubmissionIsAbandoned
  <2>1. stack[1] = "exited" /\ Len(stack) = 1
    BY DEF IInv, StackInv
  <2>2. td.state # "going"
    BY <2>1 DEF IInv, StackInv, Under
  <2>3. td.state # "none"
    BY <2>1 DEF IInv, GuardInv
  <2>4. td.state \in {"cut", "ended"}
    BY <2>2, <2>3, TdIsRecord DEF IInv, Td
  <2>5. td.state = "cut" => exit # "zero"
    BY DEF IInv, GuardInv, ZeroInv
  <2> QED
    BY <2>4, <2>5
<1> QED
  BY InvariantHolds, <1>1, PTL

\* cleanup_all_for_run that read the queue and reports no error has stopped the job.
THEOREM CleanupStopsTheJob == Spec => []CleanCleanupStopsTheJob
<1>1. IInv => CleanCleanupStopsTheJob
  BY DEF IInv, CleanInv, CleanCleanupStopsTheJob
<1> QED
  BY InvariantHolds, <1>1, PTL

(***************************************************************************)
(* The script cannot go on for ever: the steps it has left are counted.    *)
(***************************************************************************)

Globs == Len(Patterns)

\* How far the top entry is from its end: each step of it moves it on, takes the next
\* pattern, or polls once more.
Rest == [exited |-> 0, restore |-> 1, inside |-> MaxPolls + Globs + 4,
         enter |-> MaxPolls + Globs + 5, cancel |-> MaxPolls + 2 * Globs + 7,
         queue |-> MaxPolls + 2 * Globs + 8, wait |-> MaxPolls + 2 * Globs + 9,
         remarking |-> MaxPolls + 2 * Globs + 10, remark |-> MaxPolls + 2 * Globs + 11,
         launching |-> MaxPolls + 2 * Globs + 12, submit |-> MaxPolls + 2 * Globs + 13,
         marking |-> MaxPolls + 2 * Globs + 14, mark |-> MaxPolls + 2 * Globs + 15]

Ahead(pc) ==
    CASE pc = "poll" -> 2 + (MaxPolls - td.polls)
      [] pc = "down" -> MaxPolls + 3 + (Globs + 1 - td.next)
      [] pc = "cdown" -> MaxPolls + Globs + 6 + (Globs + 1 - next)
      [] OTHER -> Rest[pc]

\* An exception takes the script from the try block to its finally, and out of it.
Phase(pc) == IF pc \in TryBody THEN 2 ELSE IF pc = "exited" THEN 0 ELSE 1

Whole == MaxPolls + 2 * Globs + 16
StepsLeft == (3 * (MaxSignals - signals) + Phase(stack[1])) * Whole + Ahead(Top)

\* Digits of a number to the base Whole.
LEMMA Lexical ==
    ASSUME NEW w \in Nat, NEW a \in Nat, NEW b \in Nat, NEW x \in 0..(w - 1), NEW y \in 0..(w - 1),
           a < b \/ (a = b /\ x < y)
    PROVE  a * w + x < b * w + y /\ a * w + x \in Nat
<1>1. a * w \in Nat /\ b * w \in Nat
  OBVIOUS
<1>2. CASE a < b
  <2>1. PICK d \in Nat : b = a + 1 + d
    <3>1. b - a - 1 \in Nat /\ b = a + 1 + (b - a - 1)
      BY <1>2
    <3> QED
      BY <3>1
  <2>2. b * w = a * w + w + d * w /\ d * w \in Nat
    BY <2>1
  <2> QED
    BY <1>1, <2>2
<1>3. CASE a = b /\ x < y
  BY <1>1, <1>3
<1> QED
  BY <1>1, <1>2, <1>3

LEMMA AheadFits ==
    ASSUME TypeOK, NEW pc \in Pcs
    PROVE  /\ Ahead(pc) \in 0..(Whole - 1) /\ Whole \in Nat
           /\ Phase(pc) \in 0..2
<1>1. Globs \in Nat /\ MaxPolls \in Nat
  BY PatternsAssumption, BoundAssumption DEF Globs
<1>2. td.polls \in 0..MaxPolls /\ td.next \in 1..(Globs + 1) /\ next \in 1..(Globs + 1)
  BY DEF TypeOK, Globs
<1> QED
  BY <1>1, <1>2 DEF Ahead, Rest, Whole, Phase, Pcs, TryBody, TeardownSteps

\* Fewer steps are left where the script is further, or the top entry is.
LEMMA Fewer ==
    ASSUME TypeOK, TypeOK', signals' = signals,
           \/ Phase(stack'[1]) < Phase(stack[1])
           \/ Phase(stack'[1]) <= Phase(stack[1]) /\ Ahead(Top)' < Ahead(Top)
    PROVE  StepsLeft' < StepsLeft
<1>1. /\ Top \in Pcs /\ stack[1] \in Pcs /\ Top' \in Pcs /\ stack'[1] \in Pcs
  BY DEF TypeOK, Top
<1>2. /\ Ahead(Top) \in 0..(Whole - 1) /\ Whole \in Nat
      /\ Phase(stack[1]) \in 0..2 /\ Phase(stack'[1]) \in 0..2
  BY <1>1, AheadFits DEF Phase
<1>3. \A pc \in Pcs : Ahead(pc)' \in 0..(Whole - 1)
  <2>1. Globs \in Nat /\ MaxPolls \in Nat
    BY PatternsAssumption, BoundAssumption DEF Globs
  <2>2. /\ td'.polls \in 0..MaxPolls /\ td'.next \in 1..(Globs + 1)
        /\ next' \in 1..(Globs + 1)
    BY DEF TypeOK, Globs
  <2> QED
    BY <2>1, <2>2 DEF Ahead, Rest, Whole, Pcs, TryBody, TeardownSteps
<1>4. Ahead(Top)' \in 0..(Whole - 1)
  BY <1>1, <1>3
<1>5. 3 * (MaxSignals - signals) \in Nat
  BY BoundAssumption DEF TypeOK
<1> DEFINE old == 3 * (MaxSignals - signals) + Phase(stack[1])
           new == 3 * (MaxSignals - signals) + Phase(stack'[1])
<1>6. old \in Nat /\ new \in Nat /\ (new < old \/ (new = old /\ Ahead(Top)' < Ahead(Top)))
  BY <1>2, <1>5
<1>7. new * Whole + Ahead(Top)' < old * Whole + Ahead(Top)
  <2> HIDE DEF old, new
  <2> QED
    BY <1>2, <1>4, <1>6, Lexical
<1>8. StepsLeft = old * Whole + Ahead(Top)
  BY DEF StepsLeft
<1>9. StepsLeft' = new * Whole + Ahead(Top)'
  BY DEF StepsLeft, Whole, Globs, Phase
<1> QED
  BY <1>7, <1>8, <1>9

\* The top entry goes on.
LEMMA HopAdvances ==
    ASSUME TypeOK, TypeOK', NEW from \in Pcs, NEW to \in Pcs, At(from), Step(to),
           signals' = signals, Phase(to) <= Phase(from), Ahead(to)' < Ahead(from)
    PROVE  StepsLeft' < StepsLeft
<1>1. Top = from /\ Goto(to)
  BY DEF At, Step
<1>2. /\ Len(stack) \in Nat \ {0} /\ Len(stack') = Len(stack) /\ stack'[Len(stack)] = to
      /\ \A i \in 1..Len(stack) : i # Len(stack) => stack'[i] = stack[i]
      /\ stack[1] \in Pcs
  BY <1>1, GotoMoves, StackFacts
<1>3. Top' = to
  BY <1>2 DEF Top
<1>4. Ahead(Top)' < Ahead(Top)
  BY <1>1, <1>3 DEF Ahead
<1>5. Phase(stack'[1]) <= Phase(stack[1])
  <2>1. CASE Len(stack) = 1
    BY <1>1, <1>2, <2>1 DEF Top
  <2>2. CASE Len(stack) # 1
    BY <1>2, <2>2, AheadFits
  <2> QED
    BY <2>1, <2>2
<1> QED
  BY <1>4, <1>5, Fewer

\* An exception takes the script to its next phase.
LEMMA UnwindAdvances ==
    ASSUME TypeOK, TypeOK', StackInv, exit = "no", NEW e, Unwind(e), signals' = signals
    PROVE  StepsLeft' < StepsLeft
<1>1. stack[1] # "exited"
  BY DEF StackInv
<1>2. \/ stack[1] \in TryBody /\ stack' = <<"enter">>
      \/ stack[1] \notin TryBody /\ stack' = <<"exited">>
  BY DEF Unwind
<1>3. \A pc : <<pc>>[1] = pc
  OBVIOUS
<1>4. Phase(stack'[1]) < Phase(stack[1])
  BY <1>1, <1>2, <1>3 DEF Phase, TryBody
<1> QED
  BY <1>4, Fewer

\* The counts that the distances are made of.
LEMMA Counts ==
    ASSUME TypeOK
    PROVE  /\ Globs \in Nat /\ MaxPolls \in Nat
           /\ td.polls \in 0..MaxPolls /\ td.next \in 1..(Globs + 1) /\ next \in 1..(Globs + 1)
BY PatternsAssumption, BoundAssumption DEF TypeOK, Globs

\* The distances of the places, now and after a step.
LEMMA Places ==
    /\ \A pc : pc \notin {"poll", "down", "cdown"} => Ahead(pc) = Rest[pc] /\ Ahead(pc)' = Rest[pc]
    /\ Ahead("poll") = 2 + (MaxPolls - td.polls)
    /\ Ahead("poll")' = 2 + (MaxPolls - td'.polls)
    /\ Ahead("down") = MaxPolls + 3 + (Globs + 1 - td.next)
    /\ Ahead("down")' = MaxPolls + 3 + (Globs + 1 - td'.next)
    /\ Ahead("cdown") = MaxPolls + Globs + 6 + (Globs + 1 - next)
    /\ Ahead("cdown")' = MaxPolls + Globs + 6 + (Globs + 1 - next')
<1>1. \A pc : pc \notin {"poll", "down", "cdown"} => Ahead(pc) = Rest[pc]
  BY DEF Ahead
<1>2. \A pc : pc \notin {"poll", "down", "cdown"} => Ahead(pc)' = Rest[pc]
  BY DEF Ahead, Rest, Globs
<1>3. /\ Ahead("poll")' = 2 + (MaxPolls - td'.polls)
      /\ Ahead("down")' = MaxPolls + 3 + (Globs + 1 - td'.next)
      /\ Ahead("cdown")' = MaxPolls + Globs + 6 + (Globs + 1 - next')
  BY DEF Ahead, Globs
<1>4. /\ Ahead("poll") = 2 + (MaxPolls - td.polls)
      /\ Ahead("down") = MaxPolls + 3 + (Globs + 1 - td.next)
      /\ Ahead("cdown") = MaxPolls + Globs + 6 + (Globs + 1 - next)
  BY DEF Ahead
<1> QED
  BY <1>1, <1>2, <1>3, <1>4

LEMMA ScriptAdvances ==
    ASSUME IInv, TypeOK', Script
    PROVE  StepsLeft' < StepsLeft
<1>t. TypeOK /\ StackInv
  BY DEF IInv
<1>n. /\ Globs \in Nat /\ MaxPolls \in Nat
      /\ td.polls \in 0..MaxPolls /\ td.next \in 1..(Globs + 1) /\ next \in 1..(Globs + 1)
      /\ td'.polls \in 0..MaxPolls /\ td'.next \in 1..(Globs + 1) /\ next' \in 1..(Globs + 1)
  <2>1. /\ td'.polls \in 0..MaxPolls /\ td'.next \in 1..(Globs + 1)
        /\ next' \in 1..(Globs + 1)
    BY DEF TypeOK, Globs
  <2> QED
    BY <1>t, <2>1, Counts
<1>s. signals' = signals
  BY DEF Script, MarkLaunched, MarkAcquires, MarkReleases, SubmitWorkflow, Launch, LaunchReturns,
     WaitEnds, MatchJobs, CancelJob, CleanupDown, TeardownEnters, TeardownStarts, TeardownDown,
     TeardownPolls, CommandTimesOut, Exit
<1> DEFINE Hops(from, to) == At(from) /\ Step(to)
<1>1. ASSUME NEW from \in {"mark", "marking", "submit", "remark", "remarking", "launching",
                           "wait", "queue", "cancel", "enter", "inside"},
             NEW to \in Pcs, Hops(from, to), Phase(to) <= Phase(from), Ahead(to)' < Ahead(from)
      PROVE  StepsLeft' < StepsLeft
  BY <1>1, <1>t, <1>s, HopAdvances DEF Pcs, TryBody, TeardownSteps
<1>2. CASE MarkLaunched \/ Launch
  <2>1. PICK from \in {"mark", "marking", "submit", "remark", "remarking"},
             to \in {"marking", "submit", "remarking", "wait", "launching"} :
          Hops(from, to) /\ <<from, to>> \in
            {<<"mark", "marking">>, <<"marking", "submit">>, <<"remark", "remarking">>,
             <<"remarking", "wait">>, <<"submit", "launching">>}
    BY <1>2 DEF MarkLaunched, MarkAcquires, MarkReleases, Launch
  <2>2. to \in Pcs /\ Phase(to) <= Phase(from)
    BY <2>1 DEF Pcs, TryBody, Phase
  <2>3. Ahead(to)' < Ahead(from)
    BY <2>1, <1>n, Places DEF Rest
  <2> QED
    BY <1>1, <2>1, <2>2, <2>3
<1>3. CASE LaunchReturns \/ WaitEnds \/ MatchJobs \/ CancelJob
  <2>1. PICK from \in {"launching", "wait", "queue", "cancel"},
             to \in {"enter", "queue", "cancel", "cdown"} :
          Hops(from, to) /\ <<from, to>> \in
            {<<"launching", "enter">>, <<"wait", "enter">>, <<"wait", "queue">>,
             <<"queue", "cancel">>, <<"queue", "cdown">>, <<"cancel", "cdown">>}
    BY <1>3 DEF LaunchReturns, WaitEnds, MatchJobs, CancelJob
  <2>2. to \in Pcs /\ Phase(to) <= Phase(from)
    BY <2>1 DEF Pcs, TryBody, TeardownSteps, Phase
  <2>3. Ahead(to)' < Ahead(from)
    BY <2>1, <1>n, Places DEF Rest
  <2> QED
    BY <1>1, <2>1, <2>2, <2>3
<1>4. CASE SubmitWorkflow
  <2>1. CASE Hops("submit", "remark")
    <3>1. Phase("remark") <= Phase("submit") /\ Ahead("remark")' < Ahead("submit")
      BY <1>n DEF Ahead, Rest, Globs, Phase, TryBody
    <3> QED
      BY <1>1, <2>1, <3>1 DEF Pcs, TryBody
  <2>2. CASE Unwind("one")
    BY <1>4, <1>t, <1>s, <2>2, UnwindAdvances DEF SubmitWorkflow, At
  <2> QED
    BY <1>4, <2>1, <2>2 DEF SubmitWorkflow
<1>5. CASE CleanupDown
  <2>1. PICK to \in {"enter", "cdown"} : Hops("cdown", to) /\ next' = next + 1
    BY <1>5 DEF CleanupDown
  <2>2. to \in Pcs /\ "cdown" \in Pcs /\ Phase(to) <= Phase("cdown")
    BY DEF Pcs, TryBody, TeardownSteps, Phase
  <2>3. Ahead(to)' < Ahead("cdown")
    BY <1>n, <2>1, Places DEF Rest
  <2> QED
    BY <1>t, <1>s, <2>1, <2>2, <2>3, HopAdvances
<1>6. CASE TeardownEnters
  <2>1. Hops("enter", "inside")
    BY <1>6 DEF TeardownEnters
  <2>2. Phase("inside") <= Phase("enter") /\ Ahead("inside")' < Ahead("enter")
    BY <1>n DEF Ahead, Rest, Globs, Phase, TryBody
  <2> QED
    BY <1>1, <2>1, <2>2 DEF Pcs, TeardownSteps
<1>7. ASSUME NEW failed, TeardownReturns(failed), Top \in {"inside", "poll"}, exit = "no"
      PROVE  StepsLeft' < StepsLeft
  <2>1. CASE InScript
    <3>1. At(Top) /\ Step("restore")
      BY <1>7, <2>1 DEF TeardownReturns, At
    <3>2. Phase("restore") <= Phase(Top) /\ Ahead("restore")' < Ahead(Top)
      BY <1>7, <1>n, Places DEF Rest, Phase, TryBody
    <3> QED
      BY <1>7, <1>t, <1>s, <3>1, <3>2, HopAdvances DEF Pcs, TeardownSteps
  <2>2. CASE ~InScript
    BY <1>7, <1>t, <1>s, <2>2, UnwindAdvances DEF TeardownReturns
  <2> QED
    BY <2>1, <2>2
<1>8. CASE TeardownStarts
  <2>1. CASE done \/ ~launched
    BY <1>7, <1>8, <2>1 DEF TeardownStarts, At
  <2>2. CASE ~(done \/ ~launched)
    <3>1. Hops("inside", "down") /\ td'.next = 1
      BY <1>8, <2>2 DEF TeardownStarts, Idle
    <3>2. Phase("down") <= Phase("inside") /\ Ahead("down")' < Ahead("inside")
      BY <1>n, <3>1 DEF Ahead, Rest, Globs, Phase, TryBody
    <3> QED
      BY <1>1, <3>1, <3>2 DEF Pcs, TeardownSteps
  <2> QED
    BY <2>1, <2>2
<1>9. CASE TeardownDown
  <2>1. PICK to \in {"poll", "down"} : Hops("down", to) /\ td' = [td EXCEPT !.next = @ + 1]
    BY <1>9 DEF TeardownDown
  <2>2. td'.next = td.next + 1 /\ td'.polls = td.polls
    BY <1>t, <2>1 DEF TypeOK
  <2>3. to \in Pcs /\ "down" \in Pcs /\ Phase(to) <= Phase("down")
    BY DEF Pcs, TryBody, TeardownSteps, Phase
  <2>4. Ahead(to)' < Ahead("down")
    BY <1>n, <2>2, Places DEF Rest
  <2> QED
    BY <1>t, <1>s, <2>1, <2>3, <2>4, HopAdvances
<1>10. CASE TeardownPolls
  <2>1. PICK seen, failed, blind : At("poll") /\ Poll(seen, failed, blind)
    BY <1>10 DEF TeardownPolls
  <2>2. CASE \E f : TeardownReturns(f)
    BY <1>7, <2>1, <2>2 DEF At
  <2>3. CASE Step("poll")
    <3>1. td'.polls = td.polls + 1
      BY <1>t, <2>1 DEF Poll, TypeOK
    <3>2. Ahead("poll")' < Ahead("poll") /\ Phase("poll") <= Phase("poll")
      BY <1>n, <3>1 DEF Ahead, Phase, TryBody
    <3> QED
      BY <1>t, <1>s, <2>1, <2>3, <3>2, HopAdvances DEF Pcs, TeardownSteps
  <2> QED
    BY <2>1, <2>2, <2>3 DEF Poll
<1>11. CASE CommandTimesOut
  BY <1>11, <1>t, <1>s, UnwindAdvances DEF CommandTimesOut
<1>12. CASE Exit
  <2>1. Top = "restore" /\ stack' = <<"exited">>
    BY <1>12 DEF Exit, At
  <2>2. stack[1] = "restore"
    BY <1>t, <2>1, ScriptAlone
  <2>3. Phase(stack'[1]) < Phase(stack[1])
    BY <2>1, <2>2 DEF Phase, TryBody
  <2> QED
    BY <1>t, <1>s, <2>3, Fewer
<1> QED
  BY <1>2, <1>3, <1>4, <1>5, <1>6, <1>8, <1>9, <1>10, <1>11, <1>12 DEF Script

LEMMA SignalAdvances ==
    ASSUME TypeOK, TypeOK', Signal
    PROVE  StepsLeft' < StepsLeft
<1>1. /\ stack'[1] = stack[1] /\ Top' = "enter" /\ signals' = signals + 1 /\ signals < MaxSignals
      /\ td' = td /\ next' = next
  BY HandlerStarts, StackFacts DEF Signal, Top, cleanVars
<1>2. /\ Top \in Pcs /\ stack[1] \in Pcs /\ "enter" \in Pcs
  BY DEF TypeOK, Top, Pcs, TeardownSteps
<1>3. /\ Ahead(Top) \in 0..(Whole - 1) /\ Ahead("enter") \in 0..(Whole - 1)
      /\ Whole \in Nat /\ Phase(stack[1]) \in 0..2
  BY <1>2, AheadFits
<1>4. Ahead(Top)' = Ahead("enter")
  BY <1>1 DEF Ahead, Rest, Globs
<1>5. signals \in Nat /\ MaxSignals \in Nat /\ signals <= MaxSignals
  BY BoundAssumption DEF TypeOK
<1> DEFINE old == 3 * (MaxSignals - signals) + Phase(stack[1])
           new == 3 * (MaxSignals - signals') + Phase(stack[1])
<1>6. old \in Nat /\ new \in Nat /\ new < old
  BY <1>1, <1>3, <1>5
<1>7. new * Whole + Ahead("enter") < old * Whole + Ahead(Top)
  <2> HIDE DEF old, new
  <2> QED
    BY <1>3, <1>6, Lexical
<1>8. StepsLeft' = new * Whole + Ahead("enter")
  BY <1>1, <1>4 DEF StepsLeft, Whole, Globs, Phase
<1> QED
  BY <1>7, <1>8 DEF StepsLeft

\* However often the script is signalled, whatever SkyPilot answers and does meanwhile, it
\* can take only so many more steps: no retry, handler or poll takes it back to where it
\* was (the finally, the handler, _wait_until_absent and its deadline).
THEOREM ScriptIsBounded ==
    Spec => /\ [](StepsLeft \in Nat)
            /\ [][/\ Script \/ Signal => StepsLeft' < StepsLeft
                  /\ StepsLeft' <= StepsLeft]_vars
<1>1. TypeOK => StepsLeft \in Nat
  <2> SUFFICES ASSUME TypeOK PROVE StepsLeft \in Nat
    OBVIOUS
  <2>1. Top \in Pcs /\ stack[1] \in Pcs
    BY StackFacts
  <2>2. Ahead(Top) \in Nat /\ Whole \in Nat /\ Phase(stack[1]) \in Nat
    BY <2>1, AheadFits
  <2>3. 3 * (MaxSignals - signals) \in Nat
    BY BoundAssumption DEF TypeOK
  <2> DEFINE digit == 3 * (MaxSignals - signals) + Phase(stack[1])
  <2>4. digit \in Nat
    BY <2>2, <2>3
  <2>5. digit * Whole + Ahead(Top) \in Nat
    <3> HIDE DEF digit
    <3> QED
      BY <2>2, <2>4
  <2> QED
    BY <2>5 DEF StepsLeft
<1>2. ASSUME IInv, TypeOK, TypeOK', StepsLeft \in Nat, (StepsLeft \in Nat)', [Next]_vars
      PROVE  [/\ Script \/ Signal => StepsLeft' < StepsLeft
              /\ StepsLeft' <= StepsLeft]_vars
  <2>1. Script => StepsLeft' < StepsLeft
    BY <1>2, ScriptAdvances
  <2>2. Signal => StepsLeft' < StepsLeft
    BY <1>2, SignalAdvances
  <2>3. BringUp \/ JobEnds \/ Reap => StepsLeft' = StepsLeft
    <3> SUFFICES ASSUME UNCHANGED <<stack, td, next, signals>>
                 PROVE  StepsLeft' = StepsLeft
      BY DEF BringUp, JobEnds, Reap, threadVars, cleanVars
    <3>1. Top' = Top /\ Phase(stack[1])' = Phase(stack[1]) /\ Whole' = Whole
      BY DEF Top, Phase, Whole, Globs
    <3>2. Ahead(Top)' = Ahead(Top)
      BY <3>1 DEF Ahead, Rest, Globs
    <3> QED
      BY <3>1, <3>2 DEF StepsLeft
  <2>4. StepsLeft' < StepsLeft \/ StepsLeft' = StepsLeft => StepsLeft' <= StepsLeft
    <3> HIDE DEF StepsLeft
    <3> QED
      BY <1>2
  <2> QED
    BY <1>2, <2>1, <2>2, <2>3, <2>4 DEF Next
<1> QED
  BY <1>1, <1>2, InvariantHolds, TypeCorrect, PTL DEF Spec
=============================================================================
