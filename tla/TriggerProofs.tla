--------------------------- MODULE TriggerProofs ---------------------------
(***************************************************************************)
(* Proofs about Trigger for any keys, contents, pages and watchers, and    *)
(* for any bounds: type correctness, the inductive invariant, and the two  *)
(* results it was found for, that nothing slips uncovered behind the       *)
(* cursor and that the trigger implements DatasetCoverage.                 *)
(***************************************************************************)
EXTENDS Trigger, TLAPS

USE DEF NoCursor, Objects, Signatures, Watermarks, EmptyWatermark, Signature

\* Type correctness of the trigger's state, for any instance.
THEOREM TypeCorrect == Spec => []TypeOK
<1>1. Init => TypeOK
  BY DEF Init, TypeOK
<1>2. TypeOK /\ [Next]_vars => TypeOK'
  <2> SUFFICES ASSUME TypeOK, [Next]_vars PROVE TypeOK'
    OBVIOUS
  <2> USE DEF TypeOK, s3Vars, passVars, historyVars
  <2>1. ASSUME NEW k \in Keys, NEW e \in Etags, Put(k, e) PROVE TypeOK'
    BY <2>1 DEF Put
  <2>2. ASSUME NEW k \in Keys, Delete(k) PROVE TypeOK'
    BY <2>2 DEF Delete
  <2>3. CASE Tick
    BY <2>3 DEF Tick
  <2>4. ASSUME NEW w \in Watchers, LoadWatermark(w) PROVE TypeOK'
    BY <2>4 DEF LoadWatermark
  <2>5. ASSUME NEW w \in Watchers, ListPage(w) PROVE TypeOK'
    BY <2>5 DEF ListPage
  <2>6. ASSUME NEW w \in Watchers, PassIdle(w) PROVE TypeOK'
    BY <2>6 DEF PassIdle, PassEnds
  <2>7. ASSUME NEW w \in Watchers, Launch(w) PROVE TypeOK'
    BY <2>7 DEF Launch, RunStarted, Batch, NewObjects
  <2>8. ASSUME NEW w \in Watchers, SaveWatermark(w) PROVE TypeOK'
    <3>1. watermark' \in Watermarks
      BY <2>8 DEF SaveWatermark, Advanced, Batch, NewObjects
    <3>2. QED
      BY <2>8, <3>1, LimitAssumption DEF SaveWatermark, PassEnds
  <2>9. ASSUME NEW w \in Watchers, Crash(w) PROVE TypeOK'
    BY <2>9 DEF Crash, PassEnds, Fault
  <2>10. ASSUME NEW w \in Watchers, LaunchFails(w) PROVE TypeOK'
    BY <2>10 DEF LaunchFails, RunStarted, Batch, NewObjects, PassEnds, Fault
  <2>11. ASSUME NEW w \in Watchers, Restart(w) PROVE TypeOK'
    BY <2>11 DEF Restart
  <2>12. CASE UNCHANGED vars
    BY <2>12 DEF vars
  <2>13. QED
    BY <2>1, <2>2, <2>3, <2>4, <2>5, <2>6, <2>7, <2>8, <2>9, <2>10, <2>11,
       <2>12 DEF Next, Pass
<1>3. QED
  BY <1>1, <1>2, PTL DEF Spec

-----------------------------------------------------------------------------
\* A record with an object's three fields is the object itself.
LEMMA ObjectIsItsFields ==
    \A o \in Objects : o = [key |-> o.key, etag |-> o.etag, time |-> o.time]
  OBVIOUS

\* A sound watermark stays sound when objects come and go, time passes and
\* more becomes covered: what a put adds carries the current time, which no
\* sound watermark is past.
LEMMA SoundnessIsKept ==
    ASSUME NEW wm \in Watermarks,
           NEW objs \in SUBSET Objects, NEW objs2 \in SUBSET Objects,
           NEW now \in Nat, NEW now2 \in Nat, now <= now2,
           NEW seen, NEW seen2, seen \subseteq seen2,
           Sound(wm, objs, now, seen),
           \A o \in objs2 : o \in objs \/ o.time = now
    PROVE  Sound(wm, objs2, now2, seen2)
<1>1. wm.time \in Nat /\ wm.time <= now
  BY DEF Sound
<1>2. ASSUME NEW o \in objs2 PROVE IsNew(o, wm) \/ o \in seen2
  <2>0. o.time \in Nat /\ o = [key |-> o.key, etag |-> o.etag, time |-> o.time]
    BY ObjectIsItsFields
  <2>1. CASE o \in objs
    BY <2>1 DEF Sound
  <2>2. CASE o.time = now /\ wm.time # now
    BY <1>1, <2>0, <2>2 DEF IsNew
  <2>3. CASE o.time = now /\ wm.time = now /\ Signature(o) \in wm.signatures
    <3>1. CASE wm.time = NoCursor
      BY <3>1 DEF IsNew
    <3>2. CASE wm.time # NoCursor
      <4>1. [key |-> Signature(o).key, etag |-> Signature(o).etag, time |-> wm.time] \in seen
        BY <2>3, <3>2 DEF Sound
      <4>2. QED
        BY <2>0, <2>3, <4>1
    <3>3. QED
      BY <3>1, <3>2
  <2>4. CASE o.time = now /\ wm.time = now /\ Signature(o) \notin wm.signatures
    BY <2>4 DEF IsNew
  <2>5. QED
    BY <2>1, <2>2, <2>3, <2>4
<1>3. QED
  BY <1>1, <1>2 DEF Sound

\* Saving after the launch of a batch makes a sound watermark.
LEMMA AdvancedIsSound ==
    ASSUME NEW wm \in Watermarks, NEW batch \in SUBSET Objects,
           NEW objs \in SUBSET Objects, NEW now \in Nat, NEW seen,
           Sound(wm, objs, now, seen), Stamped(batch, now),
           Launched(batch, objs, seen),
           NEW t \in {o.time : o \in batch}, IsLatest(t, batch)
    PROVE  Sound(Advanced(wm, batch, t), objs, now, seen)
<1> DEFINE new == Advanced(wm, batch, t)
<1>1. t \in Nat /\ t >= 1 /\ t <= now /\ new.time = t
  BY DEF Advanced, Stamped
<1>2. ASSUME NEW s \in new.signatures
      PROVE  [key |-> s.key, etag |-> s.etag, time |-> t] \in seen
  <2>1. CASE \E o \in batch : o.time = t /\ s = Signature(o)
    <3>1. PICK o \in batch : o.time = t /\ s = Signature(o)
      BY <2>1
    <3>2. o = [key |-> s.key, etag |-> s.etag, time |-> t]
      BY <3>1, ObjectIsItsFields
    <3>3. QED
      BY <3>1, <3>2 DEF Launched
  <2>2. CASE t = wm.time /\ s \in wm.signatures
    BY <1>1, <2>2 DEF Sound
  <2>3. QED
    BY <1>2, <2>1, <2>2 DEF Advanced
<1>3. ASSUME NEW o \in objs PROVE IsNew(o, new) \/ o \in seen
  <2>1. o.time \in Nat /\ o = [key |-> o.key, etag |-> o.etag, time |-> o.time]
    BY ObjectIsItsFields
  <2>2. CASE o.time < t
    BY <2>2 DEF Launched
  <2>3. CASE o.time = t /\ Signature(o) \in new.signatures
    <3>1. [key |-> Signature(o).key, etag |-> Signature(o).etag, time |-> t] \in seen
      BY <1>2, <2>3
    <3>2. QED
      BY <2>1, <2>3, <3>1
  <2>4. CASE o.time > t \/ (o.time = t /\ Signature(o) \notin new.signatures)
    BY <1>1, <2>4 DEF IsNew
  <2>5. QED
    BY <1>1, <2>1, <2>2, <2>3, <2>4
<1>4. QED
  BY <1>1, <1>2, <1>3 DEF Sound

-----------------------------------------------------------------------------
\* A launch makes the watcher's batch ready to be saved.
LEMMA RunStartedLaunches ==
    ASSUME TypeOK, NEW w \in Watchers, RunStarted(w)
    PROVE  Launched(Batch(w), bucket, covered')
  BY DEF RunStarted, Launched

\* The invariant's part about one watcher, on the state that a step leaves.
WatcherSound(w) ==
    /\ Sound(previous[w], bucket, clock, covered)
    /\ Stamped(objects[w], clock)
    /\ pc[w] = "saving" => Launched(Batch(w), bucket, covered)

\* What a step that changes neither bucket nor clock, and loses no coverage,
\* keeps of a watcher whose pass it does not move.
LEMMA WatcherUndisturbed ==
    ASSUME TypeOK, TypeOK', NEW w \in Watchers, WatcherSound(w),
           bucket' = bucket, clock' = clock, covered \subseteq covered',
           previous'[w] = previous[w], objects'[w] = objects[w],
           pc'[w] = pc[w] \/ pc'[w] # "saving"
    PROVE  WatcherSound(w)'
<1>1. Sound(previous'[w], bucket', clock', covered')
  <2>1. /\ previous[w] \in Watermarks /\ Sound(previous[w], bucket, clock, covered)
        /\ bucket \in SUBSET Objects /\ clock \in Nat /\ clock <= clock
    BY DEF WatcherSound, TypeOK
  <2>2. QED
    BY <2>1, SoundnessIsKept
<1>2. pc'[w] = "saving" => Launched(Batch(w)', bucket', covered')
  BY DEF WatcherSound, Launched, Batch
<1>3. QED
  BY <1>1, <1>2 DEF WatcherSound

\* A watcher whose pass ended, holding no watermark and no listing, is sound.
LEMMA EndedPassIsSound ==
    ASSUME TypeOK, TypeOK', NEW w \in Watchers, PassEnds(w), pc'[w] # "saving"
    PROVE  WatcherSound(w)'
  BY DEF TypeOK, PassEnds, WatcherSound, Sound, Stamped, IsNew

\* The empty watermark is sound for every state.
LEMMA EmptyIsSound ==
    ASSUME NEW objs \in SUBSET Objects, NEW now \in Nat, NEW seen
    PROVE  Sound(EmptyWatermark, objs, now, seen)
  BY DEF Sound, IsNew

\* The inductive invariant of the trigger.
THEOREM InvariantHolds == Spec => []IInv
<1>1. Init => IInv
  BY EmptyIsSound DEF Init, IInv, Stamped, Sound, IsNew
<1>2. TypeOK /\ TypeOK' /\ IInv /\ [Next]_vars => IInv'
  <2> SUFFICES ASSUME TypeOK, TypeOK', IInv, [Next]_vars PROVE IInv'
    OBVIOUS
  <2> USE DEF s3Vars, passVars, historyVars
  <2>0. /\ clock >= 1 /\ Stamped(bucket, clock)
        /\ Sound(watermark, bucket, clock, covered)
        /\ \A v \in Watchers : WatcherSound(v)
    BY DEF IInv, WatcherSound
  <2>t. /\ bucket \in SUBSET Objects /\ bucket' \in SUBSET Objects
        /\ clock \in Nat /\ clock <= clock
        /\ watermark \in Watermarks /\ watermark' \in Watermarks
        /\ \A v \in Watchers : /\ previous[v] \in Watermarks
                               /\ objects[v] \in SUBSET Objects
    BY DEF TypeOK
  \* The steps that change the bucket or the time.
  <2>a. ASSUME clock' = clock \/ clock' = clock + 1,
               \A o \in bucket' : o \in bucket \/ (o.time = clock),
               UNCHANGED <<watermark, pc, passVars, historyVars>>
        PROVE  IInv'
    <3>1. clock <= clock' /\ clock' \in Nat /\ clock' >= 1
      BY <2>0, <2>a DEF TypeOK
    <3>2. Stamped(bucket', clock')
      BY <2>0, <2>a, <3>1 DEF Stamped, TypeOK
    <3>3. Sound(watermark', bucket', clock', covered')
      <4>1. /\ watermark' = watermark /\ covered' = covered
            /\ Sound(watermark, bucket, clock, covered)
        BY <2>0, <2>a
      <4>2. QED
        BY <2>a, <2>t, <3>1, <4>1, SoundnessIsKept
    <3>4. ASSUME NEW v \in Watchers PROVE WatcherSound(v)'
      <4>1. Sound(previous'[v], bucket', clock', covered')
        <5>1. previous'[v] = previous[v] /\ Sound(previous[v], bucket, clock, covered)
          BY <2>0, <2>a DEF WatcherSound
        <5>2. QED
          BY <2>a, <2>t, <3>1, <5>1, SoundnessIsKept
      <4>2. Stamped(objects'[v], clock')
        BY <2>0, <2>a, <3>1 DEF WatcherSound, Stamped, TypeOK
      <4>3. ASSUME pc'[v] = "saving" PROVE Launched(Batch(v)', bucket', covered')
        <5>1. Batch(v)' = Batch(v) /\ Launched(Batch(v), bucket, covered)
          BY <2>0, <2>a, <4>3 DEF WatcherSound, Batch
        <5>2. \A o \in Batch(v) : o.time \in Nat /\ o.time <= clock
          <6>1. Batch(v) \subseteq objects[v] /\ Stamped(objects[v], clock)
            BY <2>0 DEF WatcherSound, Batch, NewObjects
          <6>2. QED
            BY <2>t, <6>1 DEF Stamped
        <5>3. \A o \in bucket' : o.time \in Nat
          BY DEF TypeOK
        <5>4. QED
          BY <2>a, <5>1, <5>2, <5>3 DEF Launched, TypeOK
      <4>4. QED
        BY <4>1, <4>2, <4>3 DEF WatcherSound
    <3>5. QED
      BY <3>1, <3>2, <3>3, <3>4 DEF IInv, WatcherSound
  \* The steps of a watcher, which change neither.
  <2>b. ASSUME NEW w \in Watchers, UNCHANGED s3Vars, covered \subseteq covered',
               \A v \in Watchers \ {w} : /\ previous'[v] = previous[v]
                                         /\ objects'[v] = objects[v]
                                         /\ pc'[v] = pc[v],
               WatcherSound(w)', Sound(watermark', bucket, clock, covered)
        PROVE  IInv'
    <3>1. Sound(watermark', bucket', clock', covered')
      <4>1. Sound(watermark', bucket, clock, covered')
        BY <2>b, <2>t, SoundnessIsKept
      <4>2. QED
        BY <2>b, <4>1
    <3>2. \A v \in Watchers : WatcherSound(v)'
      BY <2>0, <2>b, WatcherUndisturbed
    <3>3. QED
      BY <2>0, <2>b, <3>1, <3>2 DEF IInv, WatcherSound
  <2>1. ASSUME NEW k \in Keys, NEW e \in Etags, Put(k, e) PROVE IInv'
    BY <2>1, <2>a DEF Put
  <2>2. ASSUME NEW k \in Keys, Delete(k) PROVE IInv'
    BY <2>2, <2>a DEF Delete
  <2>3. CASE Tick
    BY <2>3, <2>a DEF Tick
  <2>4. ASSUME NEW w \in Watchers, LoadWatermark(w) PROVE IInv'
    <3>1. WatcherSound(w)'
      BY <2>0, <2>4 DEF LoadWatermark, WatcherSound, TypeOK
    <3>2. QED
      BY <2>0, <2>4, <2>b, <3>1 DEF LoadWatermark, TypeOK
  <2>5. ASSUME NEW w \in Watchers, ListPage(w) PROVE IInv'
    <3>1. WatcherSound(w)'
      BY <2>0, <2>5 DEF ListPage, WatcherSound, Stamped, TypeOK
    <3>2. QED
      BY <2>0, <2>5, <2>b, <3>1 DEF ListPage, TypeOK
  <2>6. ASSUME NEW w \in Watchers, PassIdle(w) PROVE IInv'
    <3>1. WatcherSound(w)'
      BY <2>6, EndedPassIsSound DEF PassIdle, TypeOK
    <3>2. QED
      BY <2>0, <2>6, <2>b, <3>1 DEF PassIdle, PassEnds, TypeOK
  <2>7. ASSUME NEW w \in Watchers, Launch(w) PROVE IInv'
    <3>1. covered \subseteq covered' /\ Launched(Batch(w), bucket, covered')
      BY <2>7, RunStartedLaunches DEF Launch, RunStarted
    <3>2. Sound(previous'[w], bucket', clock', covered')
      <4>1. /\ Sound(previous[w], bucket, clock, covered)
            /\ previous' = previous /\ bucket' = bucket /\ clock' = clock
        BY <2>0, <2>7 DEF Launch, WatcherSound
      <4>2. QED
        BY <2>t, <3>1, <4>1, SoundnessIsKept
    <3>3. WatcherSound(w)'
      BY <2>0, <2>7, <3>1, <3>2 DEF Launch, WatcherSound, Batch
    <3>4. QED
      BY <2>0, <2>7, <2>b, <3>1, <3>3 DEF Launch, TypeOK
  <2>8. ASSUME NEW w \in Watchers, SaveWatermark(w) PROVE IInv'
    <3>1. WatcherSound(w)'
      BY <2>8, EndedPassIsSound DEF SaveWatermark, TypeOK
    <3>2. Sound(watermark', bucket, clock, covered)
      <4>1. PICK t \in {o.time : o \in Batch(w)} :
                   /\ IsLatest(t, Batch(w))
                   /\ watermark' = Advanced(previous[w], Batch(w), t)
        BY <2>8 DEF SaveWatermark
      <4>2. Batch(w) \in SUBSET Objects /\ Stamped(Batch(w), clock)
        BY <2>0 DEF WatcherSound, Batch, NewObjects, Stamped, TypeOK
      <4>3. /\ Launched(Batch(w), bucket, covered)
            /\ Sound(previous[w], bucket, clock, covered)
        BY <2>0, <2>8 DEF WatcherSound, SaveWatermark
      <4>4. QED
        BY <4>1, <4>2, <4>3, AdvancedIsSound DEF TypeOK
    <3>3. QED
      BY <2>8, <2>b, <3>1, <3>2 DEF SaveWatermark, PassEnds, TypeOK
  <2>9. ASSUME NEW w \in Watchers, Crash(w) PROVE IInv'
    <3>1. WatcherSound(w)'
      BY <2>9, EndedPassIsSound DEF Crash, TypeOK
    <3>2. QED
      BY <2>0, <2>9, <2>b, <3>1 DEF Crash, PassEnds, TypeOK
  <2>10. ASSUME NEW w \in Watchers, LaunchFails(w) PROVE IInv'
    <3>1. WatcherSound(w)'
      BY <2>10, EndedPassIsSound DEF LaunchFails, TypeOK
    <3>2. covered \subseteq covered'
      BY <2>10 DEF LaunchFails, RunStarted
    <3>3. QED
      BY <2>0, <2>10, <2>b, <3>1, <3>2 DEF LaunchFails, PassEnds, TypeOK
  <2>11. ASSUME NEW w \in Watchers, Restart(w) PROVE IInv'
    <3>1. WatcherSound(w)'
      BY <2>0, <2>11, WatcherUndisturbed DEF Restart, TypeOK
    <3>2. QED
      BY <2>0, <2>11, <2>b, <3>1 DEF Restart, TypeOK
  <2>12. CASE UNCHANGED vars
    BY <2>12, <2>a DEF vars
  <2>13. QED
    BY <2>1, <2>2, <2>3, <2>4, <2>5, <2>6, <2>7, <2>8, <2>9, <2>10, <2>11,
       <2>12 DEF Next, Pass
<1>3. QED
  BY TypeCorrect, <1>1, <1>2, PTL DEF Spec

-----------------------------------------------------------------------------
\* Nothing slips uncovered behind the cursor, whatever the number of watchers,
\* pages, crashes and failed launches.
THEOREM CursorIsSafe == Spec => []NothingBehindTheCursor
<1>1. IInv => NothingBehindTheCursor
  BY DEF IInv, Sound, NothingBehindTheCursor
<1>2. QED
  BY InvariantHolds, <1>1, PTL

\* The trigger implements the abstract promise: every step is a change of the
\* data, the start of a run over all of it, a cursor move, or a stutter.
THEOREM TriggerKeepsPromise == Spec => CoverageKept
<1>1. Init => Promise!Init
  BY DEF Init, Promise!Init, Settled
<1>2. TypeOK /\ TypeOK' /\ IInv /\ IInv' /\ [Next]_vars => [Promise!Next]_(Promise!vars)
  <2> SUFFICES ASSUME TypeOK, TypeOK', IInv, IInv', [Next]_vars
               PROVE  [Promise!Next]_(Promise!vars)
    OBVIOUS
  <2> USE DEF s3Vars, passVars, historyVars
  <2>1. Settled \subseteq covered \cap bucket /\ Settled' \subseteq covered' \cap bucket'
    BY DEF IInv, Sound, Settled
  <2>2. ASSUME UNCHANGED <<bucket, watermark, covered>>
        PROVE  UNCHANGED Promise!vars
    BY <2>2 DEF Promise!vars, Settled
  <2>3. ASSUME UNCHANGED <<watermark, covered>> PROVE Promise!Change
    <3>1. bucket' \in SUBSET Objects
      BY DEF TypeOK
    <3>2. Settled \cap bucket' \subseteq Settled'
      BY <2>3 DEF Settled
    <3>3. QED
      BY <2>1, <2>3, <3>1, <3>2 DEF Promise!Change
  <2>4. ASSUME NEW w \in Watchers, RunStarted(w), UNCHANGED <<bucket, watermark>>
        PROVE  Promise!StartRun
    BY <2>4 DEF RunStarted, Promise!StartRun, Settled
  <2>5. ASSUME UNCHANGED <<bucket, covered>> PROVE Promise!Settle
    BY <2>1, <2>5 DEF Promise!Settle
  <2>6. ASSUME NEW k \in Keys, NEW e \in Etags, Put(k, e) PROVE Promise!Next
    BY <2>6, <2>3 DEF Put, Promise!Next
  <2>7. ASSUME NEW k \in Keys, Delete(k) PROVE Promise!Next
    BY <2>7, <2>3 DEF Delete, Promise!Next
  <2>8. ASSUME NEW w \in Watchers, SaveWatermark(w) PROVE Promise!Next
    BY <2>8, <2>5 DEF SaveWatermark, Promise!Next
  <2>9. ASSUME NEW w \in Watchers, Launch(w) PROVE Promise!Next
    BY <2>9, <2>4 DEF Launch, Promise!Next
  <2>10. ASSUME NEW w \in Watchers, LaunchFails(w)
         PROVE  Promise!Next \/ UNCHANGED Promise!vars
    BY <2>10, <2>2, <2>4 DEF LaunchFails, Promise!Next
  <2>11. ASSUME NEW w \in Watchers,
                LoadWatermark(w) \/ ListPage(w) \/ PassIdle(w) \/ Crash(w) \/ Restart(w)
         PROVE  UNCHANGED Promise!vars
    BY <2>11, <2>2 DEF LoadWatermark, ListPage, PassIdle, Crash, Restart
  <2>12. CASE Tick \/ UNCHANGED vars
    BY <2>12, <2>2 DEF Tick, vars
  <2>13. QED
    BY <2>6, <2>7, <2>8, <2>9, <2>10, <2>11, <2>12 DEF Next, Pass
<1>3. QED
  BY TypeCorrect, InvariantHolds, <1>1, <1>2, PTL DEF Spec, CoverageKept, Promise!Spec

-----------------------------------------------------------------------------
\* What a watermark, or the batch that is about to be saved with it, calls old
\* stays old when the watermark advances past a batch that was new to it.
LEMMA AdvancedKeepsOld ==
    ASSUME NEW wm \in Watermarks, NEW batch \in SUBSET Objects,
           \A o \in batch : o.time >= 1 /\ IsNew(o, wm),
           NEW t \in {o.time : o \in batch}, IsLatest(t, batch),
           NEW o \in Objects, ~IsNew(o, wm) \/ o \in batch
    PROVE  ~IsNew(o, Advanced(wm, batch, t))
<1> DEFINE new == Advanced(wm, batch, t)
<1>1. /\ t \in Nat /\ t >= 1 /\ wm.time \in Nat /\ o.time \in Nat
      /\ new.time = t
      /\ new.signatures = {Signature(p) : p \in {p \in batch : p.time = t}}
                            \cup (IF t = wm.time THEN wm.signatures ELSE {})
  BY DEF Advanced
<1>2. wm.time <= t
  <2>1. PICK p \in batch : p.time = t
    OBVIOUS
  <2>2. p.time \in Nat /\ IsNew(p, wm)
    OBVIOUS
  <2>3. QED
    BY <1>1, <2>1, <2>2 DEF IsNew
<1>3. CASE o \in batch
  <2>1. o.time <= t
    BY <1>3 DEF IsLatest
  <2>2. o.time = t => Signature(o) \in new.signatures
    BY <1>1, <1>3
  <2>3. QED
    BY <1>1, <2>1, <2>2 DEF IsNew
<1>4. CASE ~IsNew(o, wm)
  <2>1. /\ wm.time # NoCursor /\ o.time <= wm.time
        /\ o.time = wm.time => Signature(o) \in wm.signatures
    BY <1>1, <1>4 DEF IsNew
  <2>2. o.time = t => t = wm.time /\ Signature(o) \in new.signatures
    BY <1>1, <1>2, <2>1
  <2>3. QED
    BY <1>1, <1>2, <2>1, <2>2 DEF IsNew
<1>5. QED
  BY <1>3, <1>4

\* The invariant of a lone watcher that meets no fault: its pass works on the
\* saved watermark, and what was launched for is behind that watermark or in
\* the batch it is about to save.
OnceInv ==
    faults = 0 =>
        /\ refired = {}
        /\ \A w \in Watchers : pc[w] \in {"listing", "saving"} => previous[w] = watermark
        /\ \A o \in triggered :
             \/ ~IsNew(o, watermark)
             \/ \E w \in Watchers : pc[w] = "saving" /\ o \in Batch(w)

\* A single watcher launches once for each object as long as nothing fails,
\* whatever the timestamps of the uploads (the promise of the module docstring).
THEOREM OneWatcherLaunchesOnce ==
    ASSUME \A v, w \in Watchers : v = w
    PROVE  Spec => []OncePerBatchUnlessFault
<1>1. Init => OnceInv
  BY DEF Init, OnceInv
<1>2. TypeOK /\ TypeOK' /\ IInv /\ OnceInv /\ [Next]_vars => OnceInv'
  <2> SUFFICES ASSUME TypeOK, TypeOK', IInv, OnceInv, [Next]_vars, faults' = 0
               PROVE  OnceInv'
    BY DEF OnceInv
  <2> USE DEF s3Vars, passVars, historyVars
  <2>1. ~\E w \in Watchers : Crash(w) \/ LaunchFails(w)
    BY DEF Crash, LaunchFails, Fault, TypeOK
  <2>2. ASSUME faults' # faults PROVE FALSE
    BY <2>1, <2>2 DEF Next, Pass, Put, Delete, Tick, LoadWatermark, ListPage, PassIdle,
                      Launch, SaveWatermark, Restart, vars
  <2>3. /\ refired = {}
        /\ \A w \in Watchers : pc[w] \in {"listing", "saving"} => previous[w] = watermark
        /\ \A o \in triggered :
             \/ ~IsNew(o, watermark)
             \/ \E w \in Watchers : pc[w] = "saving" /\ o \in Batch(w)
    BY <2>2 DEF OnceInv
  <2>4. ASSUME UNCHANGED <<watermark, pc, passVars, historyVars>> PROVE OnceInv'
    BY <2>3, <2>4 DEF OnceInv, Batch
  <2>5. ASSUME NEW w \in Watchers, LoadWatermark(w) \/ ListPage(w) \/ PassIdle(w) \/ Restart(w)
        PROVE  OnceInv'
    <3>1. /\ watermark' = watermark /\ triggered' = triggered /\ refired' = refired
          /\ pc[w] # "saving"
      BY <2>5 DEF LoadWatermark, ListPage, PassIdle, Restart
    <3>2. pc'[w] = "listing" => previous'[w] = watermark
      BY <2>3, <2>5 DEF LoadWatermark, ListPage, PassIdle, Restart, TypeOK
    <3>3. pc'[w] # "saving"
      BY <2>5 DEF LoadWatermark, ListPage, PassIdle, Restart, TypeOK
    <3>4. \A o \in triggered : ~IsNew(o, watermark)
      BY <2>3, <3>1
    <3>5. QED
      BY <2>3, <3>1, <3>2, <3>3, <3>4 DEF OnceInv
  <2>6. ASSUME NEW w \in Watchers, Launch(w) PROVE OnceInv'
    <3>1. /\ previous[w] = watermark /\ \A o \in triggered : ~IsNew(o, watermark)
      BY <2>3, <2>6 DEF Launch
    <3>2. Batch(w) \cap triggered = {}
      BY <3>1 DEF Batch, NewObjects
    <3>3. /\ refired' = {} /\ triggered' = triggered \cup Batch(w)
          /\ watermark' = watermark /\ previous' = previous /\ objects' = objects
      BY <2>3, <2>6, <3>2 DEF Launch, RunStarted
    <3>4. pc'[w] = "saving" /\ Batch(w)' = Batch(w)
      BY <2>6, <3>3 DEF Launch, Batch, TypeOK
    <3>5. QED
      BY <2>3, <3>1, <3>3, <3>4 DEF OnceInv
  <2>7. ASSUME NEW w \in Watchers, SaveWatermark(w) PROVE OnceInv'
    <3>1. previous[w] = watermark
      BY <2>3, <2>7 DEF SaveWatermark
    <3>2. PICK t \in {o.time : o \in Batch(w)} :
                 /\ IsLatest(t, Batch(w))
                 /\ watermark' = Advanced(watermark, Batch(w), t)
      BY <2>7, <3>1 DEF SaveWatermark
    <3>3. /\ Batch(w) \in SUBSET Objects
          /\ \A o \in Batch(w) : o.time >= 1 /\ IsNew(o, watermark)
      BY <3>1 DEF IInv, Stamped, Batch, NewObjects, TypeOK
    <3>4. \A o \in triggered : o \in Objects /\ (~IsNew(o, watermark) \/ o \in Batch(w))
      BY <2>3 DEF TypeOK
    <3>5. \A o \in triggered : ~IsNew(o, watermark')
      BY <3>2, <3>3, <3>4, AdvancedKeepsOld DEF TypeOK
    <3>6. pc'[w] \notin {"listing", "saving"} /\ triggered' = triggered /\ refired' = refired
      BY <2>7 DEF SaveWatermark, TypeOK
    <3>7. QED
      BY <2>3, <3>5, <3>6 DEF OnceInv
  <2>8. QED
    BY <2>1, <2>4, <2>5, <2>6, <2>7 DEF Next, Pass, Put, Delete, Tick, vars
<1>3. OnceInv => OncePerBatchUnlessFault
  BY DEF OnceInv, OncePerBatchUnlessFault
<1>4. QED
  BY TypeCorrect, InvariantHolds, <1>1, <1>2, <1>3, PTL DEF Spec
=============================================================================
