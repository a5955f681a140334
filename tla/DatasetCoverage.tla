-------------------------- MODULE DatasetCoverage --------------------------
(***************************************************************************)
(* What the retrigger promises, without cursor, listing, watcher or fault: *)
(* the data under a prefix changes, runs start over all of it, and a piece *)
(* of data is settled (never again a reason to start a run) only once some *)
(* run has covered it.                                                     *)
(***************************************************************************)
CONSTANT Data \* everything that can ever be uploaded

VARIABLES present, covered, settled

vars == <<present, covered, settled>>

Init == present = {} /\ covered = {} /\ settled = {}

\* Data is added, replaced or removed.  What was settled stays so while it is
\* there, and data that a run has already seen may come back settled.
Change ==
    /\ present' \in SUBSET Data
    /\ settled \cap present' \subseteq settled'
    /\ settled' \subseteq covered \cap present'
    /\ UNCHANGED covered

\* A run starts over everything present.
StartRun ==
    /\ present \subseteq covered'
    /\ covered \subseteq covered'
    /\ UNCHANGED <<present, settled>>

\* The launcher moves its cursor, in either direction.
Settle ==
    /\ settled' \in SUBSET (covered \cap present)
    /\ UNCHANGED <<present, covered>>

Next == Change \/ StartRun \/ Settle

Spec == Init /\ [][Next]_vars
=============================================================================
