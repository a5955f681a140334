---------------------------- MODULE MCSiblingJob ----------------------------
(* Small instances of SiblingJob for TLC.                                   *)
EXTENDS SiblingJob, TLC

CONSTANTS c1, c2, c3

\* c1 and c2 have one pod each, c3 is an indexed Job of three.
MCShards == [c \in Calls |-> IF c = c3 THEN 3 ELSE 1]
MCStages == IF Calls = {c3} THEN {{c3}} ELSE {{c1, c2}, {c3}}
=============================================================================
