----------------------------- MODULE OuterLoop -----------------------------
(* What a sim-to-real run promises of its outer loop: the decision of each  *)
(* iteration is recorded once and in order, what is recorded is never       *)
(* rewritten, and a run is finished only on the strength of some decision.  *)
EXTENDS Naturals, Sequences

CONSTANT Decisions  \* what the threshold gate can decide

VARIABLES
    record,      \* the iterations decided so far
    finished,    \* whether the run was finalized after the last of them
    restarting   \* whether the record is lost, or the run is started from scratch

vars == <<record, finished, restarting>>

Init == record = <<>> /\ finished = FALSE /\ restarting = FALSE

\* The iteration that follows those recorded has been decided.
Record(d) ==
    /\ ~restarting /\ ~restarting'
    /\ record' = Append(record, [outer_iteration |-> Len(record) + 1, decision |-> d])
    /\ finished' = FALSE

Finish ==
    /\ ~restarting /\ ~restarting'
    /\ record # <<>> /\ finished' = TRUE /\ record' = record

\* Only a run that starts over can throw its record away, and then all of it.
Discard ==
    /\ restarting \/ restarting'
    /\ record' = <<>> /\ finished' = FALSE

\* A run may be started from scratch, or give that up before anything is lost.
Restart == restarting' \in BOOLEAN /\ UNCHANGED <<record, finished>>

Next == (\E d \in Decisions : Record(d)) \/ Finish \/ Discard \/ Restart

Spec == Init /\ [][Next]_vars
=============================================================================
