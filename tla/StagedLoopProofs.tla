-------------------------- MODULE StagedLoopProofs --------------------------
(* The state file of a staged run, for any number of iterations, processes   *)
(* and crashes, with or without torn writes.                                 *)
EXTENDS StagedLoop, TLAPS

USE DEF fileVars, localVars, boundVars

\* A fresh state is in order.
LEMMA BlankInOrder ==
  ASSUME NEW status \in {"absent", "torn", "preamble_completed"}
  PROVE /\ Blank(status) \in States
        /\ InOrder(Blank(status))
        /\ Blank(status).history = <<>>
        /\ Blank(status).status = status
        /\ Blank(status).next = 1 /\ Blank(status).quality = 0
BY DEF Blank, States, InOrder

\* Adding the entry of the next iteration keeps a state in order.
LEMMA RecordedInOrder ==
  ASSUME NEW s \in States, InOrder(s), iteration = s.next, iteration \in Nat,
         decision \in Decisions, NEW b \in BOOLEAN,
         NEW r, r = [Recorded(s) EXCEPT !.loopStages = b]
  PROVE /\ r \in States
        /\ InOrder(r)
        /\ r.history = Append(s.history, Entry)
        /\ r.history # <<>>
        /\ r.status = "outer_iteration_completed"
        /\ r.next = iteration + 1 /\ r.quality = iteration
<1> DEFINE h == Append(s.history, Entry)
<1>1. /\ s.history \in Seq(Entries) /\ Entry \in Entries
      /\ Entry.outer_iteration = iteration
  BY DEF States, Entries, Entry
<1>2. /\ h \in Seq(Entries)
      /\ Len(h) = Len(s.history) + 1
      /\ \A i \in 1..Len(s.history) : h[i] = s.history[i]
      /\ h[Len(s.history) + 1] = Entry
      /\ Len(s.history) \in Nat
  BY <1>1
<1>3. r = [status |-> "outer_iteration_completed", history |-> h,
           quality |-> iteration, next |-> iteration + 1, loopStages |-> b]
  BY DEF Recorded, States
<1>4. h # <<>>
  BY <1>2
<1> HIDE DEF h
<1>5. /\ r.status = "outer_iteration_completed" /\ r.history = h
      /\ r.quality = iteration /\ r.next = iteration + 1
  BY <1>3
<1>6. r \in States
  <2>1. h \in Seq(Entries) /\ iteration \in Nat /\ iteration + 1 \in Nat /\ b \in BOOLEAN
    BY <1>2
  <2>2. "outer_iteration_completed" \in
          {"absent", "torn", "preamble_completed", "outer_iteration_completed", "completed"}
    OBVIOUS
  <2>3. \A st \in {"absent", "torn", "preamble_completed", "outer_iteration_completed", "completed"},
          hh \in Seq(Entries), q \in Nat, n \in Nat, l \in BOOLEAN :
            [status |-> st, history |-> hh, quality |-> q, next |-> n, loopStages |-> l] \in States
    BY DEF States
  <2>4. [status |-> "outer_iteration_completed", history |-> h, quality |-> iteration,
         next |-> iteration + 1, loopStages |-> b] \in States
    BY <2>1, <2>2, <2>3
  <2> QED BY <1>3, <2>4
<1>7. InOrder(r)
  <2>1. Len(h) = iteration
    BY <1>2 DEF InOrder
  <2>2. ASSUME NEW i \in 1..Len(h) PROVE h[i].outer_iteration = i
    <3>1. CASE i = Len(s.history) + 1
      BY <3>1, <1>1, <1>2, <2>1
    <3>2. CASE i # Len(s.history) + 1
      BY <3>2, <1>2 DEF InOrder
    <3> QED BY <3>1, <3>2
  <2> QED BY <1>5, <2>1, <2>2 DEF InOrder
<1> QED BY <1>4, <1>5, <1>6, <1>7 DEF h

\* The invariant of the state file: whichever write a process died after, the
\* file, its copy and the snapshot each hold every iteration once, in order.
THEOREM InvariantHolds == Spec => []IInv
<1>1. Init => IInv
  BY BlankInOrder DEF Init, IInv, TypeOK, Decisions
<1>2. IInv /\ [Next]_vars => IInv'
  <2> SUFFICES ASSUME IInv, [Next]_vars PROVE IInv'
    OBVIOUS
  <2> USE DEF IInv, TypeOK
  <2>1. CASE Start
    <3>1. CASE Resume
      BY <2>1, <3>1 DEF Start, Resume, States
    <3>2. CASE /\ "full-loop" \in Commands \/ disk.status = "absent"
               /\ pc' = "preamble" /\ UNCHANGED <<state, iteration>>
      BY <2>1, <3>2 DEF Start
    <3> QED BY <2>1, <3>1, <3>2 DEF Start
  <2>2. CASE RunPreamble
    BY <2>2, BlankInOrder DEF RunPreamble, Write
  <2>3. CASE BeginIteration
    BY <2>3 DEF BeginIteration, States
  <2>4. ASSUME NEW d \in Decisions, Decide(d) PROVE IInv'
    BY <2>4 DEF Decide
  <2>5. CASE EngineAppends
    <3> DEFINE r == [Recorded(disk) EXCEPT !.loopStages = TRUE]
    <3>1. /\ disk' = r /\ s3' \in {s3, r} /\ pc = "appending" /\ pc' = "saving"
          /\ UNCHANGED <<candidate, report, localVars, boundVars>>
      BY <2>5 DEF EngineAppends, Write
    <3>2. /\ r \in States /\ InOrder(r) /\ r.history # <<>>
          /\ r.status = "outer_iteration_completed"
      BY <3>1, RecordedInOrder
    <3>3. disk' = [Recorded(state) EXCEPT !.loopStages = TRUE]' /\ iteration' = state'.next
            /\ quality' = state'.quality
      BY <3>1 DEF Recorded, Entry
    <3> HIDE DEF r
    <3> QED BY <3>1, <3>2, <3>3
  <2>6. CASE RunnerSaves
    <3> DEFINE r == Recorded(state)
    <3>1. /\ disk' = r /\ state' = r /\ s3' \in {s3, r} /\ pc = "saving"
          /\ \/ pc' = "finalizing" /\ iteration' = iteration
             \/ pc' = "loop" /\ iteration' = iteration + 1
          /\ UNCHANGED <<candidate, report, quality, decision, boundVars>>
      BY <2>6 DEF RunnerSaves, Write
    <3>2. r = [Recorded(state) EXCEPT !.loopStages = state.loopStages]
      BY DEF Recorded, States
    <3>3. /\ r \in States /\ InOrder(r) /\ r.history # <<>>
          /\ r.status = "outer_iteration_completed" /\ r.next = iteration + 1
      <4>1. state.loopStages \in BOOLEAN
        BY DEF States
      <4> QED BY <3>1, <3>2, <4>1, RecordedInOrder
    <3> HIDE DEF r
    <3> QED BY <3>1, <3>3
  <2>7. CASE EndLoop
    BY <2>7 DEF EndLoop, InOrder, States
  <2>8. CASE BeginFinalize
    BY <2>8 DEF BeginFinalize, States
  <2>9. CASE WriteReport
    BY <2>9 DEF WriteReport, States
  <2>10. CASE SaveCompleted
    <3> DEFINE r == [state EXCEPT !.status = "completed"]
    <3>1. /\ disk' = r /\ s3' \in {s3, r} /\ pc = "completing" /\ pc' = "down"
          /\ UNCHANGED <<candidate, report, localVars, boundVars>>
      BY <2>10 DEF SaveCompleted, Write
    <3>2. /\ r \in States /\ r.history = state.history /\ r.status = "completed"
          /\ r.next = state.next /\ r.quality = state.quality
      BY DEF States
    <3>3. InOrder(r)
      BY <3>2 DEF InOrder
    <3> HIDE DEF r
    <3> QED BY <3>1, <3>2, <3>3
  <2>11. CASE Crash
    BY <2>11, BlankInOrder DEF Crash
  <2>12. CASE UNCHANGED vars
    BY <2>12 DEF vars, InOrder, Recorded, Entry
  <2> QED
    BY <2>1, <2>2, <2>3, <2>4, <2>5, <2>6, <2>7, <2>8, <2>9, <2>10, <2>11, <2>12
    DEF Next, Process
<1> QED BY <1>1, <1>2, PTL DEF Spec

\* Every iteration is recorded once and in order, locally and for pollers.
THEOREM HistoryStaysInOrder == Spec => []HistoryInOrder
<1>1. IInv => HistoryInOrder
  BY DEF IInv, HistoryInOrder
<1> QED BY <1>1, InvariantHolds, PTL

\* No iteration starts from a stale quality.
THEOREM QualityFollows == Spec => []QualityIsChained
<1>1. IInv => QualityIsChained
  <2> SUFFICES ASSUME IInv, pc \in {"iterating", "appending", "saving"}
               PROVE quality = iteration - 1
    BY DEF QualityIsChained
  <2>1. /\ InOrder(disk) /\ disk.history \in Seq(Entries)
        /\ InOrder(state) /\ state.history \in Seq(Entries)
    BY DEF IInv, TypeOK, States
  <2>2. disk.quality = disk.next - 1 /\ state.quality = state.next - 1
    BY <2>1 DEF InOrder
  <2>3. \/ iteration = disk.next /\ quality = disk.quality
        \/ iteration = state.next /\ quality = state.quality
    BY DEF IInv
  <2> QED BY <2>2, <2>3
<1> QED BY <1>1, InvariantHolds, PTL

\* A completed run has a report made from its whole history.
THEOREM ReportFollows == Spec => []ReportIsCurrent
<1>1. IInv => ReportIsCurrent
  BY DEF IInv, ReportIsCurrent
<1> QED BY <1>1, InvariantHolds, PTL

\* The staged run implements the outer loop: the record only grows, by the
\* next iteration, and only a full loop or a torn write discards it, as a whole.
THEOREM StagedRunKeepsRecord == Spec => RecordIsKept
<1> DEFINE Restarting == disk.status = "torn" \/ pc = "preamble"
<1>1. Init => Outer!Init
  BY BlankInOrder DEF Init, Outer!Init
<1>2. IInv /\ [Next]_vars => [Outer!Next]_(Outer!vars)
  <2> SUFFICES ASSUME IInv, [Next]_vars
               PROVE Outer!Next
    OBVIOUS
  <2>0. CASE disk'.history = disk.history /\ disk'.status = disk.status
    BY <2>0 DEF Outer!Next, Outer!Restart
  <2>1. CASE RunPreamble
    <3>1. disk'.history = <<>> /\ (disk'.status = "completed") = FALSE
      BY <2>1, BlankInOrder DEF RunPreamble, Write
    <3>2. Restarting
      BY <2>1 DEF RunPreamble
    <3> QED BY <3>1, <3>2 DEF Outer!Next, Outer!Discard
  <2>2. CASE EngineAppends
    <3> DEFINE r == [Recorded(disk) EXCEPT !.loopStages = TRUE]
    <3>1. disk' = r
      BY <2>2 DEF EngineAppends, Write
    <3>2. r.history = Append(disk.history, Entry) /\ r.status = "outer_iteration_completed"
      BY <2>2, RecordedInOrder DEF IInv, TypeOK, EngineAppends
    <3>3. Entry = [outer_iteration |-> Len(disk.history) + 1, decision |-> decision]
      BY <2>2 DEF IInv, InOrder, EngineAppends, Entry
    <3>4. decision \in Decisions
      BY DEF IInv, TypeOK
    <3> HIDE DEF r
    <3>5. disk'.history = Append(disk.history, Entry) /\ (disk'.status = "completed") = FALSE
      BY <3>1, <3>2
    <3>6. ~Restarting /\ ~Restarting'
      BY <2>2, <3>1, <3>2 DEF EngineAppends, IInv
    <3> QED BY <3>3, <3>4, <3>5, <3>6 DEF Outer!Next, Outer!Record
  <2>3. CASE RunnerSaves
    <3>1. /\ disk = [Recorded(state) EXCEPT !.loopStages = TRUE]
          /\ disk' = Recorded(state) /\ state \in States
      BY <2>3 DEF IInv, TypeOK, RunnerSaves, Write
    <3>2. disk'.history = disk.history /\ disk'.status = disk.status
      BY <3>1 DEF Recorded, States
    <3> QED BY <2>0, <3>2
  <2>4. CASE SaveCompleted
    <3>1. /\ disk' = [disk EXCEPT !.status = "completed"] /\ disk.history # <<>>
          /\ disk \in States
      BY <2>4 DEF IInv, TypeOK, SaveCompleted, Write
    <3>2. disk'.history = disk.history /\ disk'.status = "completed"
      BY <3>1 DEF States
    <3>3. ~Restarting /\ ~Restarting'
      BY <2>4, <3>1, <3>2 DEF SaveCompleted, IInv
    <3> QED BY <3>1, <3>2, <3>3 DEF Outer!Next, Outer!Finish
  <2>5. CASE Crash /\ TornWrites /\ disk' = Blank("torn")
    <3>1. disk'.history = <<>> /\ disk'.status = "torn"
      BY <2>5, BlankInOrder
    <3>2. Restarting' /\ (disk'.status = "completed") = FALSE
      BY <3>1
    <3> QED BY <3>1, <3>2 DEF Outer!Next, Outer!Discard
  <2>6. CASE UNCHANGED disk
    BY <2>6, <2>0
  <2> QED
    BY <2>1, <2>2, <2>3, <2>4, <2>5, <2>6
    DEF Next, Process, Start, BeginIteration, Decide, EndLoop, BeginFinalize, WriteReport, Crash, vars
<1> QED BY <1>1, <1>2, InvariantHolds, PTL DEF Spec, RecordIsKept, Outer!Spec

-----------------------------------------------------------------------------
\* What a process has before it: the outer iterations that are left, of four steps
\* each, and the steps of the finalize stage.
Rounds == IF iteration <= OuterIterations THEN OuterIterations + 1 - iteration ELSE 0

StepsLeft ==
    CASE pc = "preamble"   -> 4 * OuterIterations + 5
      [] pc = "loop"       -> 4 * Rounds + 4
      [] pc = "iterating"  -> 4 * Rounds + 3
      [] pc = "appending"  -> 4 * Rounds + 2
      [] pc = "saving"     -> 4 * Rounds + 1
      [] pc = "finalizing" -> 3
      [] pc = "reporting"  -> 2
      [] pc = "completing" -> 1
      [] pc = "down"       -> 0

\* An iteration is begun only if the config allows for it, and is numbered from 1.
Numbered ==
    /\ iteration >= 1
    /\ pc \in {"iterating", "appending", "saving"} => iteration <= OuterIterations

LEMMA NumberedHolds == Spec => []Numbered
<1>1. Init => Numbered
  BY DEF Init, Numbered
<1>2. IInv /\ Numbered /\ [Next]_vars => Numbered'
  <2> SUFFICES ASSUME IInv, Numbered, [Next]_vars PROVE Numbered'
    OBVIOUS
  <2> USE DEF Numbered
  <2>0. iteration \in Nat
    BY DEF IInv, TypeOK
  <2>1. CASE Start
    <3>1. disk \in States /\ Len(disk.history) \in Nat /\ disk.next >= 1
      BY DEF IInv, TypeOK, States, InOrder
    <3> QED BY <2>1, <3>1 DEF Start, Resume
  <2>2. CASE RunPreamble
    BY <2>2 DEF RunPreamble
  <2>3. CASE BeginIteration
    BY <2>3 DEF BeginIteration
  <2>4. ASSUME NEW d \in Decisions, Decide(d) PROVE Numbered'
    BY <2>4 DEF Decide
  <2>5. CASE EngineAppends
    BY <2>5 DEF EngineAppends
  <2>6. CASE RunnerSaves
    BY <2>0, <2>6 DEF RunnerSaves
  <2>7. CASE EndLoop
    BY <2>7 DEF EndLoop
  <2>8. CASE BeginFinalize
    BY <2>8 DEF BeginFinalize
  <2>9. CASE WriteReport
    BY <2>9 DEF WriteReport
  <2>10. CASE SaveCompleted
    BY <2>10 DEF SaveCompleted
  <2>11. CASE Crash
    BY <2>11 DEF Crash
  <2>12. CASE UNCHANGED vars
    BY <2>12 DEF vars
  <2> QED
    BY <2>1, <2>2, <2>3, <2>4, <2>5, <2>6, <2>7, <2>8, <2>9, <2>10, <2>11, <2>12
    DEF Next, Process
<1> QED BY <1>1, <1>2, InvariantHolds, PTL DEF Spec

LEMMA StepsAreCounted ==
  ASSUME IInv, Numbered
  PROVE  /\ StepsLeft \in 0..(4 * OuterIterations + 5)
         /\ StepsLeft \in Nat
<1>1. /\ iteration \in Nat /\ iteration >= 1 /\ OuterIterations \in Nat
      /\ pc \in {"down", "preamble", "loop", "iterating", "appending", "saving",
                 "finalizing", "reporting", "completing"}
  BY IterationsAssumption DEF IInv, TypeOK, Numbered
<1>2. Rounds \in 0..OuterIterations
  BY <1>1 DEF Rounds
<1> HIDE DEF Rounds
<1>3. \/ StepsLeft = 4 * OuterIterations + 5
      \/ \E k \in 1..4 : StepsLeft = 4 * Rounds + k
      \/ StepsLeft \in 0..3
  BY <1>1 DEF StepsLeft
<1> HIDE DEF StepsLeft
<1> QED BY <1>1, <1>2, <1>3

\* A process of the staged run ends after 4 * OuterIterations + 5 steps at the latest,
\* wherever in the state file it resumed: no decision of the threshold gate and no
\* earlier crash lets it run more outer iterations than the config allows, or the
\* same one again (the loop of run_staged over next_outer_iteration).
THEOREM ProcessIsBounded ==
    Spec => /\ [](StepsLeft \in 0..(4 * OuterIterations + 5))
            /\ [][Process => StepsLeft' < StepsLeft]_vars
<1>1. IInv /\ Numbered => StepsLeft \in 0..(4 * OuterIterations + 5)
  BY StepsAreCounted
<1>2. IInv /\ Numbered /\ IInv' /\ Numbered' /\ [Next]_vars
        => [Process => StepsLeft' < StepsLeft]_vars
  <2> SUFFICES ASSUME IInv, Numbered, Numbered', Process PROVE StepsLeft' < StepsLeft
    OBVIOUS
  <2>0. iteration \in Nat /\ iteration >= 1 /\ OuterIterations \in Nat
    BY IterationsAssumption DEF IInv, TypeOK, Numbered
  <2>1. CASE RunPreamble
    <3>1. Rounds' = OuterIterations
      BY <2>0, <2>1 DEF RunPreamble, Rounds
    <3> HIDE DEF Rounds
    <3> QED BY <2>0, <2>1, <3>1 DEF RunPreamble, StepsLeft
  <2>2. CASE BeginIteration
    BY <2>0, <2>2 DEF BeginIteration, StepsLeft, Rounds
  <2>3. ASSUME NEW d \in Decisions, Decide(d) PROVE StepsLeft' < StepsLeft
    BY <2>0, <2>3 DEF Decide, StepsLeft, Rounds
  <2>4. CASE EngineAppends
    BY <2>0, <2>4 DEF EngineAppends, StepsLeft, Rounds
  <2>5. CASE RunnerSaves
    <3>1. /\ pc = "saving" /\ iteration <= OuterIterations
          /\ \/ pc' = "finalizing"
             \/ pc' = "loop" /\ iteration' = iteration + 1
      BY <2>5 DEF RunnerSaves, Numbered
    <3>2. StepsLeft = 4 * (OuterIterations + 1 - iteration) + 1
      BY <2>0, <3>1 DEF StepsLeft, Rounds
    <3>3. CASE pc' = "finalizing"
      <4>1. StepsLeft' = 3
        BY <3>3 DEF StepsLeft
      <4> QED BY <2>0, <3>1, <3>2, <4>1
    <3>4. CASE pc' = "loop" /\ iteration' = iteration + 1
      <4>1. Rounds' = OuterIterations - iteration
        BY <2>0, <3>1, <3>4 DEF Rounds
      <4>2. StepsLeft' = 4 * (OuterIterations - iteration) + 4
        BY <3>4, <4>1 DEF StepsLeft
      <4> QED BY <2>0, <3>2, <4>2
    <3> QED BY <3>1, <3>3, <3>4
  <2>6. CASE EndLoop
    BY <2>0, <2>6 DEF EndLoop, StepsLeft, Rounds
  <2>7. CASE BeginFinalize
    BY <2>7 DEF BeginFinalize, StepsLeft
  <2>8. CASE WriteReport
    BY <2>8 DEF WriteReport, StepsLeft
  <2>9. CASE SaveCompleted
    BY <2>9 DEF SaveCompleted, StepsLeft
  <2> QED
    BY <2>1, <2>2, <2>3, <2>4, <2>5, <2>6, <2>7, <2>8, <2>9 DEF Process
<1> QED BY <1>1, <1>2, InvariantHolds, NumberedHolds, PTL DEF Spec
=============================================================================
