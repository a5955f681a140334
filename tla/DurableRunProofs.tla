-------------------------- MODULE DurableRunProofs --------------------------
(* What the watch reports is true of the run: proofs about DurableRun.      *)
EXTENDS DurableRun, TLAPS

\* What a state stands for stays true while the histories grow.
LEMMA MeaningLasts ==
    ASSUME NEW state, NEW s, NEW done, NEW done2, NEW harm, NEW harm2,
           done \subseteq done2, harm \subseteq harm2, Means(state, s, done, harm)
    PROVE  Means(state, s, done2, harm2)
BY DEF Means

\* A state that stands for no end stands for nothing.
LEMMA OpenStatesMeanNothing ==
    ASSUME NEW state, state \notin EndedStates, NEW s, NEW done, NEW harm
    PROVE  Means(state, s, done, harm)
BY DEF Means, EndedStates

\* The job queue's word on a job is true if its rows are.
LEMMA QueueTellsTheTruth ==
    ASSUME TypeOK, NEW j \in Jobs \cup {NoJob}, NEW t \in Stages,
           \A i \in Jobs, s \in Stages : Means(queue[i][s], s, earned, hurt)
    PROVE  /\ Means(QueueStatus(j), t, earned, hurt)
           /\ QueueStatus(j) \in QueueStates \cup {"UNKNOWN"}
<1> DEFINE rows == {queue[j][s] : s \in Stages}
<1>1. CASE j = NoJob
  BY <1>1 DEF QueueStatus, Means, QueueStates
<1>2. CASE j # NoJob
  <2>1. QueueStatus(j) \in QueueStates \cup {"UNKNOWN"}
    BY <1>2 DEF QueueStatus, QueueStates
  <2>2. ASSUME QueueStatus(j) = "SUCCEEDED" PROVE rows = {"SUCCEEDED"}
    BY <1>2, <2>2 DEF QueueStatus
  <2>3. ASSUME QueueStatus(j) \in {"FAILED", "CANCELLED"}
        PROVE  \E s \in Stages : queue[j][s] \in {"FAILED", "CANCELLED"}
    BY <1>2, <2>3 DEF QueueStatus
  <2>4. j \in Jobs
    BY <1>2
  <2>5. ASSUME QueueStatus(j) = "SUCCEEDED" PROVE queue[j][t] = "SUCCEEDED"
    <3>1. queue[j][t] \in rows
      OBVIOUS
    <3>2. QED
      BY <2>2, <2>5, <3>1
  <2>6. QED
    BY <2>1, <2>3, <2>4, <2>5 DEF Means
<1>3. QED
  BY <1>1, <1>2

\* An answer made from true states is true.
LEMMA AggregateTellsTheTruth ==
    ASSUME NEW live, NEW t \in Stages,
           Means(live, t, earned, hurt),
           \A s \in Stages : Means(seen[s], s, earned, hurt)
    PROVE  Means(Aggregate({seen[s] : s \in Stages}, live), t, earned, hurt)
<1> DEFINE states == {seen[s] : s \in Stages}
<1> SUFFICES Means(Aggregate(states, live), t, earned, hurt)
  OBVIOUS
<1>1. ASSUME "FAILED" \in states PROVE hurt # {}
  BY <1>1 DEF Means
<1>2. ASSUME states = {"SUCCEEDED"} PROVE \E j \in Jobs : <<j, t>> \in earned
  <2>1. seen[t] \in states
    OBVIOUS
  <2>2. QED
    BY <1>2, <2>1 DEF Means
<1> HIDE DEF states
<1>3. CASE "FAILED" \in states
  BY <1>1, <1>3 DEF Aggregate, Means
<1>4. CASE "FAILED" \notin states /\ states = {"SUCCEEDED"}
  BY <1>2, <1>4 DEF Aggregate, Means
<1>5. CASE "FAILED" \notin states /\ states # {"SUCCEEDED"} /\ live # "none"
  <2>1. Aggregate(states, live) = live
    BY <1>5 DEF Aggregate
  <2>2. QED
    BY <2>1
<1>6. CASE "FAILED" \notin states /\ states # {"SUCCEEDED"} /\ live = "none"
  BY <1>6 DEF Aggregate, Means
<1>7. QED
  BY <1>3, <1>4, <1>5, <1>6

-----------------------------------------------------------------------------
\* Every state of a durable run is well typed.
THEOREM TypeCorrect == Spec => []TypeOK
<1> USE DEF TypeOK, StatusStates, QueueStates, NoJob
<1>1. Init => TypeOK
  <2> SUFFICES ASSUME Init PROVE TypeOK
    OBVIOUS
  <2>1. 0 \in 0..MaxSubmits /\ 0 \in 0..MaxFaults
    BY BoundAssumption
  <2>2. /\ queue \in [Jobs -> [Stages -> QueueStates]]
        /\ existing \in [Jobs -> [Stages -> Jobs \cup {NoJob}]]
        /\ outcome \in [Jobs -> [Stages -> {"none", "SUCCEEDED", "FAILED"}]]
    BY DEF Init
  <2>3. QED
    BY <2>1, <2>2 DEF Init
<1>2. TypeOK /\ [Next]_vars => TypeOK'
  <2> SUFFICES ASSUME TypeOK, [Next]_vars PROVE TypeOK'
    OBVIOUS
  <2> USE DEF s3Vars, cliVars, podVars, userVars, watchVars, historyVars
  <2>0. Fault => faults' \in 0..MaxFaults
    BY BoundAssumption DEF Fault
  <2>1. CASE Submit
    <3>1. submits' \in 0..MaxSubmits /\ submits' \in Jobs
      BY <2>1, BoundAssumption DEF Submit, Jobs
    <3>2. QED
      BY <2>1, <3>1 DEF Submit
  <2>2. CASE Launched
    <3>1. submits \in Jobs
      BY <2>2 DEF Launched
    <3>2. queue' \in [Jobs -> [Stages -> QueueStates]]
      BY <2>2, <3>1 DEF Launched, Queued
    <3>3. QED
      BY <2>2, <3>1, <3>2 DEF Launched
  <2>3. CASE RecordJob
    BY <2>3 DEF RecordJob
  <2>4. CASE CliFailure
    <3>1. cli \in {"launching", "recording"} /\ Fault /\ cli' \in {"recording", "idle"}
      BY <2>4 DEF CliFailure, LaunchedUnparsed, LaunchFails, RecordFails
    <3>2. submits \in Jobs /\ submits' = submits
      BY <2>4, <3>1 DEF CliFailure, LaunchedUnparsed, LaunchFails, RecordFails
    <3>3. queue' \in [Jobs -> [Stages -> QueueStates]]
      BY <2>4, <3>2
      DEF CliFailure, LaunchedUnparsed, LaunchFails, RecordFails, Queued
    <3>4. parsed' \in Jobs \cup {NoJob}
      BY <2>4 DEF CliFailure, LaunchedUnparsed, LaunchFails, RecordFails
    <3>5. QED
      BY <2>0, <2>4, <3>1, <3>2, <3>3, <3>4
      DEF CliFailure, LaunchedUnparsed, LaunchFails, RecordFails
  <2>5. ASSUME NEW j \in Jobs, Cancel(j) PROVE TypeOK'
    <3>1. status' \in [Stages -> StatusStates]
      BY <2>5 DEF Cancel, TrapMayRun
    <3>2. /\ queue' \in [Jobs -> [Stages -> QueueStates]] /\ hurt' \subseteq Jobs \X Stages
      BY <2>5 DEF Cancel
    <3>3. QED
      BY <2>0, <2>5, <3>1, <3>2 DEF Cancel
  <2>6. ASSUME NEW j \in Jobs, NEW s \in Stages, Stage(j, s) PROVE TypeOK'
    <3>1. CASE StageStarts(j, s)
      BY <3>1 DEF StageStarts, SetPod, SetQueue
    <3>2. CASE ReadManifest(j, s)
      <4>1. existing' \in [Jobs -> [Stages -> Jobs \cup {NoJob}]]
        <5>1. PICK read \in Jobs \cup {NoJob} :
                existing' = [existing EXCEPT ![j][s] = read]
          BY <3>2 DEF ReadManifest
        <5>2. QED
          BY <5>1
      <4>2. faults' \in 0..MaxFaults
        BY <2>0, <3>2 DEF ReadManifest
      <4>3. pod' = [pod EXCEPT ![j][s] = "writing"]
        BY <3>2 DEF ReadManifest, SetPod
      <4>4. QED
        BY <3>2, <4>1, <4>2, <4>3 DEF ReadManifest
    <3>3. CASE WriteManifest(j, s)
      BY <3>3 DEF WriteManifest, SetPod, OwnJobId
    <3>4. CASE WriteRunning(j, s)
      BY <3>4 DEF WriteRunning, SetPod
    <3>5. ASSUME NEW result \in {"SUCCEEDED", "FAILED"}, ScriptExits(j, s, result)
          PROVE  TypeOK'
      BY <3>5 DEF ScriptExits, SetPod
    <3>6. CASE WriteFinal(j, s)
      BY <3>6 DEF WriteFinal, SetPod
    <3>7. CASE StageEnds(j, s)
      BY <3>7 DEF StageEnds, SetPod
    <3>8. QED
      BY <2>6, <3>1, <3>2, <3>3, <3>4, <3>5, <3>6, <3>7 DEF Stage, Script
  <2>7. ASSUME NEW j \in Jobs, NEW s \in Stages, StageFailure(j, s) PROVE TypeOK'
    <3>1. CASE FinalLost(j, s)
      BY <2>0, <3>1 DEF FinalLost, SetPod
    <3>2. CASE PreludeFails(j, s)
      BY <2>0, <3>2 DEF PreludeFails, SetPod
    <3>3. CASE PodLost(j, s)
      <4>1. status' \in [Stages -> StatusStates]
        BY <3>3 DEF PodLost, TrapMayRun
      <4>2. QED
        BY <2>0, <3>3, <4>1 DEF PodLost, SetPod, SetQueue
    <3>4. QED
      BY <2>7, <3>1, <3>2, <3>3 DEF StageFailure
  <2>8. CASE Watch
    <3>1. CASE StartWatch
      BY <3>1 DEF StartWatch
    <3>2. CASE FetchManifest
      BY <3>2 DEF FetchManifest
    <3>3. ASSUME NEW s \in Stages, FetchStatus(s) PROVE TypeOK'
      <4>1. faults' \in 0..MaxFaults /\ unread' \subseteq Stages
        BY <2>0, <3>3 DEF FetchStatus
      <4>2. seen' \in [Stages -> StatusStates]
        BY <3>3 DEF FetchStatus
      <4>3. QED
        BY <3>3, <4>1, <4>2 DEF FetchStatus
    <3>4. CASE Report
      <4>1. PICK live \in {QueueStatus(watched), "none"} :
              answer' = Aggregate({seen[s] : s \in Stages}, live)
        BY <3>4 DEF Report
      <4>2. QueueStatus(watched) \in QueueStates \cup {"UNKNOWN"}
        BY DEF QueueStatus
      <4>3. answer' \in QueueStates \cup {"UNKNOWN"}
        BY <4>1, <4>2 DEF Aggregate
      <4>4. faults' \in 0..MaxFaults
        BY <2>0, <3>4 DEF Report
      <4>5. QED
        BY <3>4, <4>3, <4>4 DEF Report
    <3>5. QED
      BY <2>8, <3>1, <3>2, <3>3, <3>4 DEF Watch
  <2>9. CASE WatchFails \/ ReadJobToCancel
    BY <2>0, <2>9 DEF WatchFails, ReadJobToCancel
  <2>10. CASE UNCHANGED vars
    BY <2>10 DEF vars
  <2>11. QED
    BY <2>1, <2>2, <2>3, <2>4, <2>5, <2>6, <2>7, <2>8, <2>9, <2>10 DEF Next, Cli
<1>3. QED
  BY <1>1, <1>2, PTL DEF Spec

-----------------------------------------------------------------------------
\* What a step does not touch means what it meant.
LEMMA UntouchedMeansTheSame ==
    ASSUME IInv, earned \subseteq earned', hurt \subseteq hurt'
    PROVE  /\ UNCHANGED status => FilesMean'
           /\ UNCHANGED seen => SeenMeans'
           /\ UNCHANGED queue => QueueMeans'
           /\ UNCHANGED outcome => OutcomesMean'
           /\ UNCHANGED answer => AnswerMeans'
           /\ UNCHANGED <<pod, outcome>> => ExitsAreKnown'
<1>1. ASSUME UNCHANGED status PROVE FilesMean'
  BY <1>1, MeaningLasts DEF IInv, FilesMean
<1>2. ASSUME UNCHANGED seen PROVE SeenMeans'
  BY <1>2, MeaningLasts DEF IInv, SeenMeans
<1>3. ASSUME UNCHANGED queue PROVE QueueMeans'
  BY <1>3, MeaningLasts DEF IInv, QueueMeans
<1>4. ASSUME UNCHANGED outcome PROVE OutcomesMean'
  BY <1>4, MeaningLasts DEF IInv, OutcomesMean
<1>5. ASSUME UNCHANGED answer PROVE AnswerMeans'
  BY <1>5, MeaningLasts DEF IInv, AnswerMeans
<1>6. ASSUME UNCHANGED <<pod, outcome>> PROVE ExitsAreKnown'
  BY <1>6 DEF IInv, ExitsAreKnown
<1>7. QED
  BY <1>1, <1>2, <1>3, <1>4, <1>5, <1>6

\* What every file, queue row and answer of a run says is true of the run.
THEOREM InvariantHolds == Spec => []IInv
<1> USE DEF s3Vars, cliVars, podVars, userVars, watchVars, historyVars
<1>1. Init /\ TypeOK => IInv
  <2>1. ASSUME NEW s PROVE Means("none", s, earned, hurt)
    BY OpenStatesMeanNothing DEF EndedStates
  <2>2. QED
    BY <2>1 DEF Init, IInv, FilesMean, SeenMeans, QueueMeans, OutcomesMean,
                AnswerMeans, ExitsAreKnown
<1>2. IInv /\ TypeOK' /\ [Next]_vars => IInv'
  <2> SUFFICES ASSUME IInv, TypeOK', [Next]_vars PROVE IInv'
    OBVIOUS
  <2>0. TypeOK
    BY DEF IInv
  <2>1. ASSUME NEW j \in Jobs, NEW s \in Stages, Stage(j, s) PROVE IInv'
    <3>1. CASE StageStarts(j, s)
      <4>0. earned' = earned /\ hurt' = hurt
        BY <3>1 DEF StageStarts
      <4>1. queue' = [queue EXCEPT ![j][s] = "RUNNING"]
        BY <3>1 DEF StageStarts, SetQueue
      <4>2. QueueMeans'
        BY <2>0, <4>0, <4>1, OpenStatesMeanNothing
        DEF TypeOK, IInv, QueueMeans, EndedStates
      <4>3. ExitsAreKnown'
        BY <2>0, <3>1 DEF TypeOK, IInv, ExitsAreKnown, StageStarts, SetPod
      <4>4. QED
        BY <3>1, <4>0, <4>2, <4>3, UntouchedMeansTheSame DEF StageStarts, IInv
    <3>2. CASE ReadManifest(j, s) \/ WriteManifest(j, s)
      <4>0. /\ outcome' = outcome
            /\ \/ pod' = [pod EXCEPT ![j][s] = "writing"]
               \/ pod' = [pod EXCEPT ![j][s] = "starting"]
        BY <3>2 DEF ReadManifest, WriteManifest, SetPod
      <4>1. ExitsAreKnown'
        <5> SUFFICES ASSUME NEW i \in Jobs, NEW t \in Stages,
                            pod'[i][t] \in {"ending", "exited"}
                     PROVE  outcome'[i][t] # "none"
          BY DEF ExitsAreKnown
        <5>1. pod'[i][t] = pod[i][t]
          <6>1. CASE i = j /\ t = s
            BY <2>0, <4>0, <6>1 DEF TypeOK
          <6>2. CASE ~(i = j /\ t = s)
            BY <2>0, <4>0, <6>2 DEF TypeOK
          <6>3. QED
            BY <6>1, <6>2
        <5>2. QED
          BY <4>0, <5>1 DEF IInv, ExitsAreKnown
      <4>2. QED
        BY <3>2, <4>1, UntouchedMeansTheSame DEF ReadManifest, WriteManifest, IInv
    <3>3. CASE WriteRunning(j, s)
      <4>0. earned' = earned /\ hurt' = hurt
        BY <3>3 DEF WriteRunning
      <4>1. FilesMean'
        BY <2>0, <3>3, <4>0, OpenStatesMeanNothing
        DEF TypeOK, IInv, FilesMean, WriteRunning, EndedStates
      <4>2. ExitsAreKnown'
        BY <2>0, <3>3 DEF TypeOK, IInv, ExitsAreKnown, WriteRunning, SetPod
      <4>3. QED
        BY <3>3, <4>0, <4>1, <4>2, UntouchedMeansTheSame DEF WriteRunning, IInv
    <3>4. ASSUME NEW result \in {"SUCCEEDED", "FAILED"}, ScriptExits(j, s, result)
          PROVE  IInv'
      <4>1. earned \subseteq earned' /\ hurt \subseteq hurt'
        BY <3>4 DEF ScriptExits
      <4>2. Means(result, s, earned', hurt')
        BY <3>4 DEF ScriptExits, Means
      <4>3. ASSUME NEW i \in Jobs, NEW t \in Stages
            PROVE  outcome'[i][t] = outcome[i][t] \/ (t = s /\ outcome'[i][t] = result)
        BY <2>0, <3>4 DEF TypeOK, ScriptExits
      <4>4. OutcomesMean'
        <5> SUFFICES ASSUME NEW i \in Jobs, NEW t \in Stages
                     PROVE  Means(outcome'[i][t], t, earned', hurt')
          BY DEF OutcomesMean
        <5>1. Means(outcome[i][t], t, earned', hurt')
          BY <4>1, MeaningLasts DEF IInv, OutcomesMean
        <5>2. QED
          BY <4>2, <4>3, <5>1
      <4>5. ExitsAreKnown'
        BY <2>0, <3>4 DEF TypeOK, IInv, ExitsAreKnown, ScriptExits, SetPod
      <4>6. QED
        BY <3>4, <4>1, <4>4, <4>5, UntouchedMeansTheSame DEF ScriptExits, IInv
    <3>5. CASE WriteFinal(j, s)
      <4>0. earned' = earned /\ hurt' = hurt
        BY <3>5 DEF WriteFinal
      <4>1. FilesMean'
        BY <2>0, <3>5, <4>0 DEF TypeOK, IInv, FilesMean, OutcomesMean, WriteFinal
      <4>2. ExitsAreKnown'
        BY <2>0, <3>5 DEF TypeOK, IInv, ExitsAreKnown, WriteFinal, SetPod
      <4>3. QED
        BY <3>5, <4>0, <4>1, <4>2, UntouchedMeansTheSame DEF WriteFinal, IInv
    <3>6. CASE StageEnds(j, s)
      <4>0. earned' = earned /\ hurt' = hurt
        BY <3>6 DEF StageEnds
      <4>1. QueueMeans'
        <5> SUFFICES ASSUME NEW i \in Jobs, NEW t \in Stages
                     PROVE  Means(queue'[i][t], t, earned', hurt')
          BY DEF QueueMeans
        <5>1. Means(queue[i][t], t, earned, hurt) /\ Means(outcome[j][s], s, earned, hurt)
          BY DEF IInv, QueueMeans, OutcomesMean
        <5>2. outcome[j][s] = "FAILED" => Means("CANCELLED", t, earned, hurt)
          BY <5>1 DEF Means
        <5>3. \/ queue'[i][t] = queue[i][t]
              \/ i = j /\ t = s /\ queue'[i][t] = outcome[j][s]
              \/ outcome[j][s] = "FAILED" /\ queue'[i][t] = "CANCELLED"
          BY <2>0, <3>6 DEF TypeOK, StageEnds
        <5>4. QED
          BY <4>0, <5>1, <5>2, <5>3
      <4>2. ExitsAreKnown'
        BY <2>0, <3>6 DEF TypeOK, IInv, ExitsAreKnown, StageEnds, SetPod
      <4>3. QED
        BY <3>6, <4>0, <4>1, <4>2, UntouchedMeansTheSame DEF StageEnds, IInv
    <3>7. QED
      BY <2>1, <3>1, <3>2, <3>3, <3>4, <3>5, <3>6 DEF Stage, Script
  <2>2. ASSUME NEW j \in Jobs, NEW s \in Stages, StageFailure(j, s) PROVE IInv'
    <3>1. CASE FinalLost(j, s)
      <4>1. ExitsAreKnown'
        BY <2>0, <3>1 DEF TypeOK, IInv, ExitsAreKnown, FinalLost, SetPod
      <4>2. QED
        BY <3>1, <4>1, UntouchedMeansTheSame DEF FinalLost, IInv
    <3>2. CASE PreludeFails(j, s)
      <4>1. earned' = earned /\ hurt \subseteq hurt' /\ hurt' # {}
        BY <3>2 DEF PreludeFails
      <4>2. OutcomesMean'
        <5> SUFFICES ASSUME NEW i \in Jobs, NEW t \in Stages
                     PROVE  Means(outcome'[i][t], t, earned', hurt')
          BY DEF OutcomesMean
        <5>1. Means(outcome[i][t], t, earned', hurt')
          BY <4>1, MeaningLasts DEF IInv, OutcomesMean
        <5>2. outcome'[i][t] = outcome[i][t] \/ outcome'[i][t] = "FAILED"
          BY <2>0, <3>2 DEF TypeOK, PreludeFails
        <5>3. QED
          BY <4>1, <5>1, <5>2 DEF Means
      <4>3. ExitsAreKnown'
        BY <2>0, <3>2 DEF TypeOK, IInv, ExitsAreKnown, PreludeFails, SetPod
      <4>4. QED
        BY <3>2, <4>1, <4>2, <4>3, UntouchedMeansTheSame DEF PreludeFails, IInv
    <3>3. CASE PodLost(j, s)
      <4>1. earned' = earned /\ hurt \subseteq hurt' /\ hurt' # {}
        BY <3>3 DEF PodLost
      <4>2. ASSUME NEW t \in Stages
            PROVE  status'[t] = status[t] \/ status'[t] = "FAILED"
        BY <2>0, <3>3 DEF TypeOK, PodLost, TrapMayRun
      <4>3. FilesMean'
        <5> SUFFICES ASSUME NEW t \in Stages PROVE Means(status'[t], t, earned', hurt')
          BY DEF FilesMean
        <5>1. Means(status[t], t, earned', hurt')
          BY <4>1, MeaningLasts DEF IInv, FilesMean
        <5>2. QED
          BY <4>1, <4>2, <5>1 DEF Means
      <4>4. QueueMeans'
        <5> SUFFICES ASSUME NEW i \in Jobs, NEW t \in Stages
                     PROVE  Means(queue'[i][t], t, earned', hurt')
          BY DEF QueueMeans
        <5>1. Means(queue[i][t], t, earned', hurt')
          BY <4>1, MeaningLasts DEF IInv, QueueMeans
        <5>2. queue'[i][t] = queue[i][t] \/ queue'[i][t] = "RECOVERING"
          BY <2>0, <3>3 DEF TypeOK, PodLost, SetQueue
        <5>3. QED
          BY <5>1, <5>2 DEF Means
      <4>5. ExitsAreKnown'
        BY <2>0, <3>3 DEF TypeOK, IInv, ExitsAreKnown, PodLost, SetPod
      <4>6. QED
        BY <3>3, <4>1, <4>3, <4>4, <4>5, UntouchedMeansTheSame DEF PodLost, IInv
    <3>4. QED
      BY <2>2, <3>1, <3>2, <3>3 DEF StageFailure
  <2>3. ASSUME NEW j \in Jobs, Cancel(j) PROVE IInv'
    <3> DEFINE open == {s \in Stages : queue[j][s] \notin EndedStates}
    <3>1. earned' = earned /\ hurt \subseteq hurt' /\ (open # {} => hurt' # {})
      BY <2>3 DEF Cancel
    <3>2. FilesMean'
      <4> SUFFICES ASSUME NEW t \in Stages PROVE Means(status'[t], t, earned', hurt')
        BY DEF FilesMean
      <4>1. Means(status[t], t, earned', hurt')
        BY <3>1, MeaningLasts DEF IInv, FilesMean
      <4>2. status'[t] = status[t] \/ (status'[t] = "FAILED" /\ open # {})
        BY <2>0, <2>3 DEF TypeOK, Cancel, TrapMayRun
      <4>3. QED
        BY <3>1, <4>1, <4>2 DEF Means
    <3>3. QueueMeans'
      <4> SUFFICES ASSUME NEW i \in Jobs, NEW t \in Stages
                   PROVE  Means(queue'[i][t], t, earned', hurt')
        BY DEF QueueMeans
      <4>1. Means(queue[i][t], t, earned', hurt')
        BY <3>1, MeaningLasts DEF IInv, QueueMeans
      <4>2. queue'[i][t] = queue[i][t] \/ (queue'[i][t] = "CANCELLED" /\ open # {})
        BY <2>0, <2>3 DEF TypeOK, Cancel
      <4>3. QED
        BY <3>1, <4>1, <4>2 DEF Means
    <3>4. ExitsAreKnown'
      BY <2>0, <2>3 DEF TypeOK, IInv, ExitsAreKnown, Cancel
    <3>5. QED
      BY <2>3, <3>1, <3>2, <3>3, <3>4, UntouchedMeansTheSame DEF Cancel, IInv
  <2>4. CASE Submit \/ RecordJob \/ RecordFails
    BY <2>4, UntouchedMeansTheSame DEF Submit, RecordJob, RecordFails, IInv
  <2>5. CASE Launched \/ LaunchedUnparsed \/ LaunchFails
    <3>1. earned' = earned /\ hurt' = hurt
      BY <2>5 DEF Launched, LaunchedUnparsed, LaunchFails
    <3>2. QueueMeans'
      <4> SUFFICES ASSUME NEW i \in Jobs, NEW t \in Stages
                   PROVE  Means(queue'[i][t], t, earned, hurt)
        BY <3>1 DEF QueueMeans
      <4>1. Means(queue[i][t], t, earned, hurt)
        BY DEF IInv, QueueMeans
      <4>2. \/ UNCHANGED queue
            \/ queue' = [queue EXCEPT ![submits] = [u \in Stages |-> "PENDING"]]
        BY <2>5 DEF Launched, LaunchedUnparsed, LaunchFails, Queued
      <4>3. queue'[i][t] = queue[i][t] \/ queue'[i][t] = "PENDING"
        BY <2>0, <4>2 DEF TypeOK
      <4>4. QED
        BY <4>1, <4>3 DEF Means
    <3>3. QED
      BY <2>5, <3>1, <3>2, UntouchedMeansTheSame
      DEF Launched, LaunchedUnparsed, LaunchFails, IInv
  <2>6. CASE StartWatch \/ FetchManifest \/ WatchFails \/ ReadJobToCancel
    BY <2>6, UntouchedMeansTheSame
    DEF StartWatch, FetchManifest, WatchFails, ReadJobToCancel, IInv
  <2>7. ASSUME NEW s \in Stages, FetchStatus(s) PROVE IInv'
    <3>1. earned' = earned /\ hurt' = hurt
      BY <2>7 DEF FetchStatus
    <3>2. SeenMeans'
      <4> SUFFICES ASSUME NEW t \in Stages PROVE Means(seen'[t], t, earned, hurt)
        BY <3>1 DEF SeenMeans
      <4>1. Means(seen[t], t, earned, hurt) /\ Means(status[t], t, earned, hurt)
        BY DEF IInv, SeenMeans, FilesMean
      <4>2. \/ seen'[t] = seen[t]
            \/ seen'[t] = status[t]
            \/ seen'[t] = "none"
        BY <2>0, <2>7 DEF TypeOK, FetchStatus
      <4>3. QED
        BY <4>1, <4>2 DEF Means
    <3>3. QED
      BY <2>7, <3>1, <3>2, UntouchedMeansTheSame DEF FetchStatus, IInv
  <2>8. CASE Report
    <3>1. earned' = earned /\ hurt' = hurt
      BY <2>8 DEF Report
    <3>2. PICK live \in {QueueStatus(watched), "none"} :
            answer' = Aggregate({seen[s] : s \in Stages}, live)
      BY <2>8 DEF Report
    <3>3. AnswerMeans'
      <4> SUFFICES ASSUME NEW t \in Stages PROVE Means(answer', t, earned, hurt)
        BY <3>1 DEF AnswerMeans
      <4>1. Means(QueueStatus(watched), t, earned, hurt)
        <5>1. watched \in Jobs \cup {NoJob}
          BY <2>0 DEF TypeOK
        <5>2. QED
          BY <2>0, <5>1, QueueTellsTheTruth DEF IInv, QueueMeans
      <4>2. Means("none", t, earned, hurt)
        BY DEF Means
      <4>3. Means(live, t, earned, hurt)
        BY <4>1, <4>2
      <4>4. QED
        BY <3>2, <4>3, AggregateTellsTheTruth DEF IInv, SeenMeans
    <3>4. SeenMeans'
      BY <2>8 DEF Report, SeenMeans, Means
    <3>5. QED
      BY <2>8, <3>1, <3>3, <3>4, UntouchedMeansTheSame DEF Report, IInv
  <2>9. CASE UNCHANGED vars
    BY <2>9, UntouchedMeansTheSame DEF vars, IInv
  <2>10. QED
    BY <2>1, <2>2, <2>3, <2>4, <2>5, <2>6, <2>7, <2>8, <2>9
    DEF Next, Cli, CliFailure, Watch
<1>3. QED
  BY <1>1, <1>2, TypeCorrect, PTL DEF Spec

\* The watch reports success only when each stage's script has exited with 0.
THEOREM SuccessIsTrue == Spec => []SuccessIsEarned
<1>1. IInv => SuccessIsEarned
  BY DEF IInv, AnswerMeans, Means, SuccessIsEarned, EverEarned
<1>2. QED
  BY <1>1, InvariantHolds, PTL

\* The watch reports a failure or a cancellation only when there was one.
THEOREM FailureIsTrue == Spec => []FailureIsEarned
<1>1. IInv => FailureIsEarned
  BY StagesAssumption DEF IInv, AnswerMeans, Means, FailureIsEarned
<1>2. QED
  BY <1>1, InvariantHolds, PTL

-----------------------------------------------------------------------------
\* One job under the prefix and no fault: the pods of that job are the only
\* writers of status files, each stage's pod runs while its row says RUNNING,
\* and its last write comes before SkyPilot sees it exit.
Quiet == faults = 0 /\ submits <= 1

RowIsSettled(j, s) ==
    /\ queue[j][s] # "none" => j = submits /\ cli # "launching"
    /\ pod[j][s] # "none" => queue[j][s] = "RUNNING"
    /\ pod[j][s] = "exited" => status[s] = outcome[j][s]
    /\ queue[j][s] \in {"SUCCEEDED", "FAILED"} => status[s] = queue[j][s]

SettledInv ==
    Quiet => cancelling = NoJob /\ \A j \in Jobs, s \in Stages : RowIsSettled(j, s)

\* What moves the counters and the job to cancel.
LEMMA WhatMovesTheBounds ==
    ASSUME [Next]_vars
    PROVE  /\ faults' = faults \/ Fault
           /\ submits' = submits \/ (Submit /\ submits' = submits + 1)
           /\ cancelling' = cancelling \/ ReadJobToCancel \/ \E j \in Jobs : Cancel(j)
<1> USE DEF s3Vars, cliVars, podVars, userVars, watchVars, historyVars
<1>1. CASE Cli
  BY <1>1 DEF Cli, Submit, Launched, RecordJob
<1>2. CASE CliFailure \/ ReadJobToCancel \/ WatchFails
  BY <1>2 DEF CliFailure, LaunchedUnparsed, LaunchFails, RecordFails, ReadJobToCancel, WatchFails
<1>3. ASSUME NEW j \in Jobs, Cancel(j)
      PROVE  faults' = faults /\ submits' = submits
  BY <1>3 DEF Cancel
<1>4. ASSUME NEW j \in Jobs, NEW s \in Stages, Stage(j, s)
      PROVE  /\ faults' = faults \/ Fault
             /\ submits' = submits /\ cancelling' = cancelling
  <2>1. CASE StageStarts(j, s) \/ StageEnds(j, s) \/ WriteFinal(j, s)
    BY <2>1 DEF StageStarts, StageEnds, WriteFinal
  <2>2. CASE ReadManifest(j, s) \/ WriteManifest(j, s) \/ WriteRunning(j, s)
    BY <2>2 DEF ReadManifest, WriteManifest, WriteRunning
  <2>3. ASSUME NEW result, ScriptExits(j, s, result)
        PROVE  faults' = faults /\ submits' = submits /\ cancelling' = cancelling
    BY <2>3 DEF ScriptExits
  <2>4. QED
    BY <1>4, <2>1, <2>2, <2>3 DEF Stage, Script
<1>5. ASSUME NEW j \in Jobs, NEW s \in Stages, StageFailure(j, s)
      PROVE  Fault /\ submits' = submits /\ cancelling' = cancelling
  BY <1>5 DEF StageFailure, FinalLost, PreludeFails, PodLost
<1>6. CASE Watch
  BY <1>6 DEF Watch, StartWatch, FetchManifest, FetchStatus, Report
<1>7. CASE UNCHANGED vars
  BY <1>7 DEF vars
<1>8. QED
  BY <1>1, <1>2, <1>3, <1>4, <1>5, <1>6, <1>7 DEF Next

\* A step that ends without a fault and under one submission started so.
LEMMA QuietIsKept ==
    ASSUME TypeOK, [Next]_vars, Quiet'
    PROVE  /\ Quiet /\ faults' = faults
           /\ ~Submit => submits' = submits
<1>1. faults \in Nat /\ submits \in Nat
  BY BoundAssumption DEF TypeOK
<1>2. QED
  BY <1>1, WhatMovesTheBounds DEF Quiet, Fault

\* The rows of a quiet run are settled.
THEOREM RowsSettle == Spec => []SettledInv
<1> USE DEF s3Vars, cliVars, podVars, userVars, watchVars, historyVars
<1>1. Init => SettledInv
  BY DEF Init, SettledInv, RowIsSettled
<1>2. TypeOK /\ TypeOK' /\ SettledInv /\ [Next]_vars => SettledInv'
  <2> SUFFICES ASSUME TypeOK, TypeOK', SettledInv, [Next]_vars, Quiet'
               PROVE  cancelling' = NoJob /\ \A j \in Jobs, s \in Stages : RowIsSettled(j, s)'
    BY DEF SettledInv
  <2>1. /\ Quiet /\ faults' = faults /\ (~Submit => submits' = submits)
        /\ submits \in Nat /\ faults \in Nat
    BY QuietIsKept, BoundAssumption DEF TypeOK
  <2>2. cancelling = NoJob /\ \A j \in Jobs, s \in Stages : RowIsSettled(j, s)
    BY <2>1 DEF SettledInv
  <2>3. ~Fault
    BY <2>1 DEF Fault
  <2>4. \A j \in Jobs : ~Cancel(j)
    BY <2>2 DEF Cancel, NoJob, Jobs
  <2>5. cancelling' = NoJob
    BY <2>2, <2>3, <2>4, WhatMovesTheBounds DEF ReadJobToCancel
  <2>6. SUFFICES ASSUME NEW i \in Jobs, NEW t \in Stages PROVE RowIsSettled(i, t)'
    BY <2>5
  <2>7. RowIsSettled(i, t)
    BY <2>2
  <2>8. ASSUME UNCHANGED <<status, cli, submits, queue, pod, outcome>>
        PROVE  RowIsSettled(i, t)'
    BY <2>7, <2>8 DEF RowIsSettled
  <2>9. CASE Submit
    <3>1. submits = 0
      BY <2>1, <2>9 DEF Submit, Quiet
    <3>2. queue[i][t] = "none" /\ pod[i][t] = "none"
      BY <2>7, <3>1 DEF RowIsSettled, Jobs
    <3>3. QED
      BY <2>9, <3>2 DEF Submit, RowIsSettled
  <2>10. CASE Launched
    <3>1. queue[i][t] = "none" /\ pod[i][t] = "none"
      BY <2>7, <2>10 DEF Launched, RowIsSettled
    <3>2. queue'[i][t] # "none" => i = submits /\ queue'[i][t] = "PENDING"
      BY <2>10, <3>1 DEF Launched, Queued, TypeOK
    <3>3. QED
      BY <2>10, <3>1, <3>2 DEF Launched, RowIsSettled
  <2>11. CASE RecordJob
    BY <2>7, <2>11 DEF RecordJob, RowIsSettled
  <2>12. ASSUME NEW j \in Jobs, NEW s \in Stages, Stage(j, s) PROVE RowIsSettled(i, t)'
    <3>0. RowIsSettled(j, s) /\ RowIsSettled(i, s) /\ cli' = cli /\ submits' = submits
      BY <2>1, <2>2, <2>12
      DEF Submit, Stage, Script, StageStarts, ReadManifest, WriteManifest, WriteRunning,
          ScriptExits, WriteFinal, StageEnds
    <3>1. CASE StageStarts(j, s)
      <4>1. /\ queue[j][s] \in {"PENDING", "RECOVERING"} /\ queue[j][s] # "none"
            /\ status' = status /\ outcome' = outcome
        BY <3>1 DEF StageStarts
      <4>2. /\ queue'[i][t] = IF i = j /\ t = s THEN "RUNNING" ELSE queue[i][t]
            /\ pod'[i][t] = IF i = j /\ t = s THEN "reading" ELSE pod[i][t]
        BY <3>1 DEF StageStarts, SetPod, SetQueue, TypeOK
      <4>3. QED
        BY <2>7, <3>0, <4>1, <4>2 DEF RowIsSettled
    <3>2. CASE ReadManifest(j, s) \/ WriteManifest(j, s)
      <4>1. /\ pod[j][s] # "none"
            /\ status' = status /\ outcome' = outcome /\ queue' = queue
        BY <3>2 DEF ReadManifest, WriteManifest
      <4>2. pod'[i][t] = pod[i][t] \/ (i = j /\ t = s /\ pod'[i][t] \in {"writing", "starting"})
        BY <3>2 DEF ReadManifest, WriteManifest, SetPod, TypeOK
      <4>3. QED
        BY <2>7, <3>0, <4>1, <4>2 DEF RowIsSettled
    <3>3. CASE WriteRunning(j, s)
      <4>1. /\ pod[j][s] = "starting" /\ outcome' = outcome /\ queue' = queue
            /\ status'[t] = IF t = s THEN "RUNNING" ELSE status[t]
        BY <3>3 DEF WriteRunning, TypeOK
      <4>2. pod'[i][t] = IF i = j /\ t = s THEN "running" ELSE pod[i][t]
        BY <3>3 DEF WriteRunning, SetPod, TypeOK
      <4>3. QED
        BY <2>7, <3>0, <4>1, <4>2 DEF RowIsSettled
    <3>4. ASSUME NEW result \in {"SUCCEEDED", "FAILED"}, ScriptExits(j, s, result)
          PROVE  RowIsSettled(i, t)'
      <4>1. pod[j][s] = "running" /\ status' = status /\ queue' = queue
        BY <3>4 DEF ScriptExits
      <4>2. /\ pod'[i][t] = IF i = j /\ t = s THEN "ending" ELSE pod[i][t]
            /\ outcome'[i][t] = IF i = j /\ t = s THEN result ELSE outcome[i][t]
        BY <3>4 DEF ScriptExits, SetPod, TypeOK
      <4>3. QED
        BY <2>7, <3>0, <4>1, <4>2 DEF RowIsSettled
    <3>5. CASE WriteFinal(j, s)
      <4>1. /\ pod[j][s] = "ending" /\ outcome' = outcome /\ queue' = queue
            /\ status'[t] = IF t = s THEN outcome[j][s] ELSE status[t]
        BY <3>5 DEF WriteFinal, TypeOK
      <4>2. pod'[i][t] = IF i = j /\ t = s THEN "exited" ELSE pod[i][t]
        BY <3>5 DEF WriteFinal, SetPod, TypeOK
      <4>3. QED
        BY <2>7, <3>0, <4>1, <4>2 DEF RowIsSettled
    <3>6. CASE StageEnds(j, s)
      <4>1. pod[j][s] = "exited" /\ outcome' = outcome /\ status' = status
        BY <3>6 DEF StageEnds
      <4>2. /\ pod'[i][t] = IF i = j /\ t = s THEN "none" ELSE pod[i][t]
            /\ \/ i = j /\ t = s /\ queue'[i][t] = outcome[j][s]
               \/ queue'[i][t] = queue[i][t] /\ ~(i = j /\ t = s)
               \/ queue[i][t] = "PENDING" /\ queue'[i][t] = "CANCELLED" /\ ~(i = j /\ t = s)
        BY <3>6 DEF StageEnds, SetPod, TypeOK
      <4>3. QED
        BY <2>7, <3>0, <4>1, <4>2 DEF RowIsSettled
    <3>7. QED
      BY <2>12, <3>1, <3>2, <3>3, <3>4, <3>5, <3>6 DEF Stage, Script
  <2>13. ASSUME NEW j \in Jobs, NEW s \in Stages PROVE ~StageFailure(j, s)
    BY <2>3 DEF StageFailure, FinalLost, PreludeFails, PodLost
  <2>14. CASE Watch
    BY <2>8, <2>14 DEF Watch, StartWatch, FetchManifest, FetchStatus, Report
  <2>15. ~(CliFailure \/ ReadJobToCancel \/ WatchFails)
    BY <2>3 DEF CliFailure, LaunchedUnparsed, LaunchFails, RecordFails, ReadJobToCancel, WatchFails
  <2>16. CASE UNCHANGED vars
    BY <2>8, <2>16 DEF vars
  <2>17. QED
    BY <2>4, <2>9, <2>10, <2>11, <2>12, <2>13, <2>14, <2>15, <2>16 DEF Next, Cli
<1>3. QED
  BY TypeCorrect, <1>1, <1>2, PTL DEF Spec

\* With one submission and no fault, a stage that has ended for SkyPilot has
\* ended the same way in its status file.
THEOREM StatusSettlesFirst == Spec => []StatusIsSettled
<1>1. TypeOK /\ SettledInv => StatusIsSettled
  BY DEF TypeOK, SettledInv, Quiet, RowIsSettled, StatusIsSettled
<1>2. QED
  BY <1>1, TypeCorrect, RowsSettle, PTL

-----------------------------------------------------------------------------
\* What a submission is about to record is its job; what it recorded is found.
FoundInv ==
    /\ Quiet /\ cli = "recording" => parsed # NoJob
    /\ JobIdCanBeFound

\* A submission that ended well can be found through the manifest, unless a pod
\* that is not told its job read the manifest before the id was in it.
THEOREM JobIdsAreFound == Spec => []JobIdCanBeFound
<1> USE DEF s3Vars, cliVars, podVars, userVars, watchVars, historyVars
<1>1. Init => FoundInv
  BY DEF Init, FoundInv, JobIdCanBeFound
<1>2. IInv /\ SettledInv /\ FoundInv /\ [Next]_vars => FoundInv'
  <2> SUFFICES ASSUME IInv, SettledInv, FoundInv, [Next]_vars, Quiet'
               PROVE  /\ cli' = "recording" => parsed' # NoJob
                      /\ JobIdCanBeFound'
    BY DEF FoundInv, JobIdCanBeFound, Quiet
  <2> DEFINE Lost(s) == HasRead(s) /\ existing[1][s] = NoJob
  <2>0. TypeOK /\ ExitsAreKnown
    BY DEF IInv
  <2>1. /\ Quiet /\ faults' = faults /\ (~Submit => submits' = submits)
        /\ submits \in Nat /\ faults \in Nat
    BY <2>0, QuietIsKept, BoundAssumption DEF TypeOK
  <2>2. ~Fault
    BY <2>1 DEF Fault
  <2>3. ~(CliFailure \/ ReadJobToCancel \/ WatchFails)
    BY <2>2 DEF CliFailure, LaunchedUnparsed, LaunchFails, RecordFails, ReadJobToCancel, WatchFails
  <2>4. cancelling = NoJob /\ \A j \in Jobs, s \in Stages : RowIsSettled(j, s)
    BY <2>1 DEF SettledInv
  <2>5. \A j \in Jobs : ~Cancel(j)
    BY <2>4 DEF Cancel, NoJob, Jobs
  <2>6. ASSUME UNCHANGED <<manifest, status, cli, submits, parsed, podKnows, pod, existing, faults>>
        PROVE  (cli' = "recording" => parsed' # NoJob) /\ JobIdCanBeFound'
    BY <2>1, <2>6 DEF FoundInv, JobIdCanBeFound, HasRead
  <2>7. CASE Submit
    BY <2>7 DEF Submit, JobIdCanBeFound
  <2>8. CASE Launched
    BY <2>0, <2>8 DEF Launched, JobIdCanBeFound, TypeOK, NoJob, Jobs
  <2>9. CASE RecordJob
    BY <2>1, <2>9 DEF RecordJob, JobIdCanBeFound, FoundInv
  <2>10. ASSUME NEW j \in Jobs, NEW s \in Stages, Stage(j, s)
         PROVE  (cli' = "recording" => parsed' # NoJob) /\ JobIdCanBeFound'
    <3>1. /\ UNCHANGED <<cliVars, podKnows>>
          /\ RowIsSettled(j, s)
      BY <2>4, <2>10
      DEF Stage, Script, StageStarts, ReadManifest, WriteManifest, WriteRunning,
          ScriptExits, WriteFinal, StageEnds
    <3>2. (cli' = "recording" => parsed' # NoJob)
      BY <2>1, <3>1 DEF FoundInv
    <3>3. SUFFICES ASSUME submits = 1, cli = "idle", manifest' = NoJob, faults' = 0
                   PROVE  ~podKnows /\ \E t \in Stages : Lost(t)'
      BY <3>1, <3>2 DEF JobIdCanBeFound
    <3>4. CASE WriteManifest(j, s)
      <4>1. ~podKnows /\ existing[j][s] = NoJob
        BY <3>3, <3>4 DEF WriteManifest, OwnJobId, NoJob, Jobs
      <4>2. j = 1
        BY <3>1, <3>3, <3>4 DEF WriteManifest, RowIsSettled
      <4>3. pod'[1][s] = "starting" /\ existing' = existing
        BY <2>0, <3>4, <4>2 DEF WriteManifest, SetPod, TypeOK
      <4>4. QED
        BY <4>1, <4>2, <4>3 DEF HasRead
    <3>5. CASE ~WriteManifest(j, s)
      <4>1. manifest' = manifest
        BY <2>10, <3>5 DEF Stage, Script, StageStarts, ReadManifest, WriteRunning,
                           ScriptExits, WriteFinal, StageEnds
      <4>2. PICK t \in Stages : Lost(t)
        BY <2>1, <3>3, <4>1 DEF FoundInv, JobIdCanBeFound
      <4>3. ~podKnows
        BY <2>1, <3>3, <4>1 DEF FoundInv, JobIdCanBeFound
      <4>4. Lost(t)'
        <5>1. CASE StageStarts(j, s)
          <6>1. pod[j][s] = "none" /\ status' = status /\ existing' = existing
            BY <3>1, <5>1 DEF StageStarts, RowIsSettled
          <6>2. pod'[1][t] = pod[1][t] \/ (j = 1 /\ s = t)
            BY <2>0, <5>1 DEF StageStarts, SetPod, TypeOK
          <6>3. QED
            BY <4>2, <6>1, <6>2 DEF HasRead
        <5>2. CASE ReadManifest(j, s)
          <6>1. existing' = [existing EXCEPT ![j][s] = NoJob] /\ status' = status
            BY <2>2, <3>3, <4>1, <5>2 DEF ReadManifest
          <6>2. pod'[1][t] = pod[1][t] \/ pod'[1][t] = "writing"
            BY <2>0, <5>2 DEF ReadManifest, SetPod, TypeOK
          <6>3. existing'[1][t] = NoJob
            BY <2>0, <4>2, <6>1 DEF TypeOK
          <6>4. QED
            BY <4>2, <6>1, <6>2, <6>3 DEF HasRead
        <5>3. CASE WriteRunning(j, s)
          <6>1. /\ status'[t] = IF t = s THEN "RUNNING" ELSE status[t]
                /\ pod'[1][t] = pod[1][t] \/ t = s
                /\ existing' = existing
            BY <2>0, <5>3 DEF WriteRunning, SetPod, TypeOK
          <6>2. QED
            BY <4>2, <6>1 DEF HasRead
        <5>4. ASSUME NEW result \in {"SUCCEEDED", "FAILED"}, ScriptExits(j, s, result)
              PROVE  Lost(t)'
          <6>1. /\ status' = status /\ existing' = existing /\ pod[j][s] = "running"
                /\ pod'[1][t] = pod[1][t] \/ (j = 1 /\ s = t)
            BY <2>0, <5>4 DEF ScriptExits, SetPod, TypeOK
          <6>2. QED
            BY <4>2, <6>1 DEF HasRead
        <5>5. CASE WriteFinal(j, s)
          <6>1. /\ status'[t] = IF t = s THEN outcome[j][s] ELSE status[t]
                /\ pod'[1][t] = pod[1][t] \/ t = s
                /\ existing' = existing /\ outcome[j][s] # "none"
            BY <2>0, <5>5 DEF WriteFinal, SetPod, TypeOK, ExitsAreKnown
          <6>2. QED
            BY <4>2, <6>1 DEF HasRead
        <5>6. CASE StageEnds(j, s)
          <6>1. /\ status' = status /\ existing' = existing /\ pod[j][s] = "exited"
                /\ pod'[1][t] = pod[1][t] \/ (j = 1 /\ s = t)
            BY <2>0, <5>6 DEF StageEnds, SetPod, TypeOK
          <6>2. QED
            BY <4>2, <6>1 DEF HasRead
        <5>7. QED
          BY <2>10, <3>5, <5>1, <5>2, <5>3, <5>4, <5>5, <5>6 DEF Stage, Script
      <4>5. QED
        BY <4>3, <4>4, <3>1
    <3>6. QED
      BY <3>4, <3>5
  <2>11. ASSUME NEW j \in Jobs, NEW s \in Stages PROVE ~StageFailure(j, s)
    BY <2>2 DEF StageFailure, FinalLost, PreludeFails, PodLost
  <2>12. CASE Watch
    BY <2>1, <2>6, <2>12 DEF Watch, StartWatch, FetchManifest, FetchStatus, Report
  <2>13. CASE UNCHANGED vars
    BY <2>6, <2>13 DEF vars
  <2>14. QED
    BY <2>3, <2>5, <2>7, <2>8, <2>9, <2>10, <2>11, <2>12, <2>13 DEF Next, Cli
<1>3. FoundInv => JobIdCanBeFound
  BY DEF FoundInv
<1>4. QED
  BY InvariantHolds, RowsSettle, <1>1, <1>2, <1>3, PTL DEF Spec
=============================================================================
