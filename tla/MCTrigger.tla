----------------------------- MODULE MCTrigger -----------------------------
(* Small instances of Trigger for TLC.                                      *)
EXTENDS Trigger, TLC

CONSTANTS k1, k2, w1, w2

\* k1 sorts before k2: k1 is on the first page, k2 on the last.
MCPage == (k1 :> 1) @@ (k2 :> Pages)
Symmetry == Permutations(Watchers)
=============================================================================
