---------------------------- MODULE MCDurableRun ----------------------------
(* Small instances of DurableRun for TLC.                                   *)
EXTENDS DurableRun, TLC

CONSTANTS s1, s2

\* execution: serial, s1 before s2.
MCWaits == (s1 :> {}) @@ (s2 :> {s1})
=============================================================================
