------------------------------ MODULE Trigger ------------------------------
(***************************************************************************)
(* The S3-backed retrigger of the sim-to-real pipeline                     *)
(* (workflows/sim_to_real_trigger.py).  A watcher polls a bucket prefix,   *)
(* compares what it lists with a persisted cursor (the watermark), launches *)
(* one pipeline run for the objects that are new and then saves the cursor *)
(* past them.                                                              *)
(*                                                                         *)
(* Several watchers may share one watermark (nothing in the code claims    *)
(* it), uploads go on while a listing is being paged through, and a pass   *)
(* can end by an exception or a crash at any of its S3 or launch calls.    *)
(***************************************************************************)
EXTENDS Naturals, FiniteSets

CONSTANTS
    Keys,        \* object keys under the prefix that is_lerobot_key accepts
    Etags,       \* contents an object can have (ETag and size together)
    Pages,       \* number of pages of one listing
    Page,        \* the page of a listing each key falls on (keys are sorted)
    Watchers,    \* processes running run_once or watch
    MaxLaunches, \* watch's max_launches; 0 means no limit, as in the code
    MaxClock,    \* bound: the last LastModified value S3 hands out
    MaxFaults    \* bound: crashes, S3 errors and failed launches in a behaviour

ASSUME PagesAssumption == Pages \in Nat \ {0}
ASSUME PageAssumption == Page \in [Keys -> 1..Pages]
ASSUME LimitAssumption == MaxLaunches \in Nat
ASSUME BoundAssumption == MaxClock \in Nat /\ MaxFaults \in Nat

VARIABLES
    bucket,     \* the objects present: records [key, etag, time]
    clock,      \* the time S3 stamps on a put as LastModified
    watermark,  \* the persisted cursor
    pc,         \* per watcher: where its pass is
    previous,   \* per watcher: the watermark it loaded
    page,       \* per watcher: the next page to list
    objects,    \* per watcher: the objects listed so far
    launches,   \* per watcher: launches made by this watch call, if limited
    \* history, read by properties only
    triggered,  \* objects that were in the batch of some launched run
    covered,    \* objects of a launched batch, or present at a launch
    refired,    \* objects that were in the batches of two launched runs
    faults      \* failures so far (a bound)

s3Vars == <<bucket, clock>>
passVars == <<previous, page, objects>>
historyVars == <<triggered, covered, refired>>
vars == <<bucket, clock, watermark, pc, passVars, launches, historyVars, faults>>

\* LastModified values start at 1: 0 is the empty cursor_last_modified.
NoCursor == 0
Objects == [key: Keys, etag: Etags, time: Nat]
Signatures == [key: Keys, etag: Etags]
Watermarks == [time: Nat, signatures: SUBSET Signatures]
EmptyWatermark == [time |-> NoCursor, signatures |-> {}]

Signature(o) == [key |-> o.key, etag |-> o.etag]

(***************************************************************************)
(* new_lerobot_objects and advance_watermark.                              *)
(***************************************************************************)

\* Fault for mutation runs: the cursor alone decides.
IsNew_IgnoringSignatures(o, wm) == wm.time = NoCursor \/ o.time > wm.time

IsNew(o, wm) ==
    \/ wm.time = NoCursor
    \/ o.time > wm.time
    \/ o.time = wm.time /\ Signature(o) \notin wm.signatures

NewObjects(objs, wm) == {o \in objs : IsNew(o, wm)}

\* The latest LastModified of a batch, stated as a relation: a nonempty
\* finite batch has exactly one.
IsLatest(t, batch) ==
    /\ t \in {o.time : o \in batch}
    /\ \A o \in batch : o.time <= t

\* Fault for mutation runs: the signatures saved at an unchanged cursor time
\* are forgotten.
Advanced_ForgettingSignatures(wm, batch, t) ==
    [time |-> t, signatures |-> {Signature(o) : o \in {p \in batch : p.time = t}}]

\* The watermark saved after a launch of batch, whose latest time is t.
Advanced(wm, batch, t) ==
    [time |-> t,
     signatures |-> {Signature(o) : o \in {p \in batch : p.time = t}}
                      \cup IF t = wm.time THEN wm.signatures ELSE {}]

Batch(w) == NewObjects(objects[w], previous[w])

-----------------------------------------------------------------------------
Init ==
    /\ bucket = {}
    /\ clock = 1
    /\ watermark = EmptyWatermark
    /\ pc = [w \in Watchers |-> "idle"]
    /\ previous = [w \in Watchers |-> EmptyWatermark]
    /\ page = [w \in Watchers |-> 1]
    /\ objects = [w \in Watchers |-> {}]
    /\ launches = [w \in Watchers |-> 0]
    /\ triggered = {} /\ covered = {} /\ refired = {}
    /\ faults = 0

(***************************************************************************)
(* The uploader and S3: a put replaces the key's object and stamps it with *)
(* the current time, a delete removes it.                                  *)
(***************************************************************************)

Put(k, e) ==
    /\ bucket' = {o \in bucket : o.key # k}
                    \cup {[key |-> k, etag |-> e, time |-> clock]}
    /\ UNCHANGED <<clock, watermark, pc, passVars, launches, historyVars, faults>>

Delete(k) ==
    /\ bucket' = {o \in bucket : o.key # k}
    /\ UNCHANGED <<clock, watermark, pc, passVars, launches, historyVars, faults>>

Tick ==
    /\ clock < MaxClock
    /\ clock' = clock + 1
    /\ UNCHANGED <<bucket, watermark, pc, passVars, launches, historyVars, faults>>

(***************************************************************************)
(* One pass of run_once by watcher w.                                      *)
(***************************************************************************)

\* The locals of run_once go out of scope.
PassEnds(w) ==
    /\ previous' = [previous EXCEPT ![w] = EmptyWatermark]
    /\ page' = [page EXCEPT ![w] = 1]
    /\ objects' = [objects EXCEPT ![w] = {}]

\* store.load()
LoadWatermark(w) ==
    /\ pc[w] = "idle"
    /\ pc' = [pc EXCEPT ![w] = "listing"]
    /\ previous' = [previous EXCEPT ![w] = watermark]
    /\ UNCHANGED <<s3Vars, watermark, page, objects, launches, historyVars, faults>>

\* One list_objects_v2 page: the objects it holds when it is served.
ListPage(w) ==
    /\ pc[w] = "listing"
    /\ page[w] <= Pages
    /\ page' = [page EXCEPT ![w] = @ + 1]
    /\ objects' = [objects EXCEPT ![w] =
                      @ \cup {o \in bucket : Page[o.key] = page[w]}]
    /\ UNCHANGED <<s3Vars, watermark, pc, previous, launches, historyVars, faults>>

\* Nothing new: the pass is idle and watch sleeps.
PassIdle(w) ==
    /\ pc[w] = "listing"
    /\ page[w] > Pages
    /\ Batch(w) = {}
    /\ pc' = [pc EXCEPT ![w] = "idle"]
    /\ PassEnds(w)
    /\ UNCHANGED <<s3Vars, watermark, launches, historyVars, faults>>

\* Fault for mutation runs: the run reads only what the watermark calls new.
RunStarted_BatchOnly(w) ==
    /\ triggered' = triggered \cup Batch(w)
    /\ covered' = covered \cup Batch(w)
    /\ refired' = refired \cup (Batch(w) \cap triggered)

\* A pipeline run is started; its input is the whole prefix, so it reads
\* every object present, not only the batch.
RunStarted(w) ==
    /\ triggered' = triggered \cup Batch(w)
    /\ covered' = covered \cup bucket \cup Batch(w)
    /\ refired' = refired \cup (Batch(w) \cap triggered)

\* launcher.launch() returns: the runner exited with code 0.
Launch(w) ==
    /\ pc[w] = "listing"
    /\ page[w] > Pages
    /\ Batch(w) # {}
    /\ RunStarted(w)
    /\ pc' = [pc EXCEPT ![w] = "saving"]
    /\ UNCHANGED <<s3Vars, watermark, passVars, launches, faults>>

\* advance_watermark and store.save(); watch returns at max_launches.
SaveWatermark(w) ==
    /\ pc[w] = "saving"
    /\ \E t \in {o.time : o \in Batch(w)} :
         /\ IsLatest(t, Batch(w))
         /\ watermark' = Advanced(previous[w], Batch(w), t)
    /\ launches' = [launches EXCEPT ![w] = IF MaxLaunches = 0 THEN 0 ELSE @ + 1]
    /\ pc' = [pc EXCEPT ![w] =
                 IF MaxLaunches > 0 /\ launches'[w] >= MaxLaunches
                 THEN "stopped" ELSE "idle"]
    /\ PassEnds(w)
    /\ UNCHANGED <<s3Vars, historyVars, faults>>

(***************************************************************************)
(* Failures.  Nothing in run_once or watch catches an exception, so each   *)
(* of them ends the watcher; a new one starts from the saved watermark.    *)
(***************************************************************************)

Fault == faults < MaxFaults /\ faults' = faults + 1

\* A crash, or an S3 call (load, list, save) that raises.
Crash(w) ==
    /\ Fault
    /\ pc[w] \in {"idle", "listing", "saving"}
    /\ pc' = [pc EXCEPT ![w] = "down"]
    /\ PassEnds(w)
    /\ UNCHANGED <<s3Vars, watermark, launches, historyVars>>

\* The runner exits with another code: launch raises.  The runner's own
\* submit may have timed out after the run was accepted.
LaunchFails(w) ==
    /\ Fault
    /\ pc[w] = "listing"
    /\ page[w] > Pages
    /\ Batch(w) # {}
    /\ RunStarted(w) \/ UNCHANGED historyVars
    /\ pc' = [pc EXCEPT ![w] = "down"]
    /\ PassEnds(w)
    /\ UNCHANGED <<s3Vars, watermark, launches>>

Restart(w) ==
    /\ pc[w] = "down"
    /\ pc' = [pc EXCEPT ![w] = "idle"]
    /\ launches' = [launches EXCEPT ![w] = 0]
    /\ UNCHANGED <<s3Vars, watermark, passVars, historyVars, faults>>

Pass(w) ==
    \/ LoadWatermark(w)
    \/ ListPage(w)
    \/ PassIdle(w)
    \/ Launch(w)
    \/ SaveWatermark(w)

Next ==
    \/ \E k \in Keys, e \in Etags : Put(k, e)
    \/ \E k \in Keys : Delete(k)
    \/ Tick
    \/ \E w \in Watchers : Pass(w) \/ Crash(w) \/ LaunchFails(w) \/ Restart(w)

Spec == Init /\ [][Next]_vars

\* A watcher that runs keeps polling (watch's loop), and one that died is
\* started again by whoever runs it; uploads and time owe nothing.
FairSpec ==
    /\ Spec
    /\ \A w \in Watchers : WF_vars(Pass(w)) /\ WF_vars(Restart(w))

-----------------------------------------------------------------------------
TypeOK ==
    /\ bucket \subseteq Objects
    /\ clock \in Nat
    /\ watermark \in Watermarks
    /\ pc \in [Watchers -> {"idle", "listing", "saving", "stopped", "down"}]
    /\ previous \in [Watchers -> Watermarks]
    /\ page \in [Watchers -> Nat]
    /\ objects \in [Watchers -> SUBSET Objects]
    /\ launches \in [Watchers -> Nat]
    /\ triggered \subseteq Objects
    /\ covered \subseteq Objects
    /\ refired \subseteq Objects
    /\ faults \in Nat

\* Nothing slips behind the cursor: an object the next pass would not count
\* as new was launched for, or was present when some run was launched.  It
\* holds although listings are paged while uploads go on, passes of several
\* watchers overlap, a stale watcher can move the cursor backwards, and a
\* pass can die anywhere.
NothingBehindTheCursor ==
    \A o \in bucket : IsNew(o, watermark) \/ o \in covered

\* Everything in objs that wm calls old is in seen, and so would be an object
\* put right now with a signature that wm already holds.
Sound(wm, objs, now, seen) ==
    /\ wm.time <= now
    /\ \A o \in objs : IsNew(o, wm) \/ o \in seen
    /\ wm.time # NoCursor =>
         \A s \in wm.signatures :
            [key |-> s.key, etag |-> s.etag, time |-> wm.time] \in seen

\* Once its run has started, a batch can be put behind the cursor.
Launched(batch, objs, seen) ==
    /\ batch \subseteq seen
    /\ \A t \in {o.time : o \in batch} :
         IsLatest(t, batch) => \A o \in objs : o.time < t => o \in seen

\* Times run from 1 to the present.
Stamped(objs, now) == \A o \in objs : o.time >= 1 /\ o.time <= now

\* The inductive invariant behind NothingBehindTheCursor and CoverageKept: every
\* watermark in play is sound, and between a launch and its save the batch
\* keeps the watermark about to be saved sound.
IInv ==
    /\ clock >= 1
    /\ Stamped(bucket, clock)
    /\ Sound(watermark, bucket, clock, covered)
    /\ \A w \in Watchers :
         /\ Sound(previous[w], bucket, clock, covered)
         /\ Stamped(objects[w], clock)
         /\ pc[w] = "saving" => Launched(Batch(w), bucket, covered)

\* The trigger implements the abstract promise, with the objects that the next
\* pass would not count as new as the settled ones.
Settled == {o \in bucket : ~IsNew(o, watermark)}

Promise == INSTANCE DatasetCoverage WITH
    Data <- Objects, present <- bucket, covered <- covered, settled <- Settled

\* Every step of the trigger is a step of the promise or leaves it alone: a
\* put that lands behind the cursor, a watermark saved for data no run saw,
\* or a run that loses coverage would each be none of them.
CoverageKept == Promise!Spec

\* "launches the current sim-to-real pipeline once for each batch of newly
\* observed data" (module docstring): as long as nothing fails, no run is started
\* for an object that a run was already started for, whatever the timestamps of
\* the uploads and however often a key is overwritten.
OncePerBatchUnlessFault == faults = 0 => refired = {}

\* Every object is eventually covered by a run, or gone from the bucket.
EveryObjectIsCovered ==
    \A k \in Keys, e \in Etags, t \in 1..MaxClock :
        LET o == [key |-> k, etag |-> e, time |-> t]
        IN o \in bucket ~> (o \in covered \/ o \notin bucket)
=============================================================================
