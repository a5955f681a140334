-------------------------- MODULE MCManagedCluster --------------------------
(* Small instances of ManagedCluster for TLC.                               *)
EXTENDS ManagedCluster, TLC

CONSTANTS t1, t2

Symmetry == Permutations(Terminals)

\* No step reads the histories, ids are given out once, and the properties ask only whether the
\* cluster or group that is there is in them; and a command does not read its locals any more
\* after their last use.  States that differ in nothing else are explored once.
There == (IF cluster.state # "none" THEN {cluster.id} ELSE {})
           \cup (IF gpu.state # "none" THEN {gpu.id} ELSE {})
Live(p) ==
    [p EXCEPT !.tries = IF p.pc \in {"create", "cpu", "addgroup"} THEN @ ELSE 0,
              !.snap = IF p.pc \in {"target", "writeback"} THEN @ ELSE NoRecord,
              !.gsnap = IF p.pc \in {"target", "findgroup", "lookgroups"} THEN @ ELSE None]
View == <<cloudVars, fileVars, tf, [t \in Terminals |-> Live(proc[t])], given, kills, crossed,
          told \cap There, vouched \cap There, misread \cap There>>
=============================================================================
