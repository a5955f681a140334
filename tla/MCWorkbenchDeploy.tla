--------------------------- MODULE MCWorkbenchDeploy ---------------------------
(* Small instances of WorkbenchDeploy for TLC.                              *)
EXTENDS WorkbenchDeploy, TLC

CONSTANTS p1, p2, a1

Symmetry == Permutations(Procs)

Line(op, tool, gpu, runtime) ==
    [op |-> op, tool |-> tool, alias |-> a1, gpu |-> gpu, runtime |-> runtime,
     replace |-> FALSE, skipInfra |-> FALSE, skipApp |-> FALSE, bucket |-> "own"]
Replacing(line) == [line EXCEPT !.replace = TRUE]
WithoutInfra(line) == [line EXCEPT !.skipInfra = TRUE]
Elsewhere(line) == [line EXCEPT !.bucket = "other"]

\* Every tool's first deploy, the ways to deploy again, and the ways to get rid of it.
MCCommands ==
    {Line("deploy", t, "l40s", "vm") : t \in Tools}
      \cup {Replacing(Line("deploy", t, "h100", "vm")) : t \in {"groot", "cosmos"}}
      \cup {Line("deploy", "genesis", "h100", "container"),
            Line("deploy", "groot", "l40s", "byovm"),
            Replacing(Line("deploy", "isaac", "l40s", "byovm")),
            Elsewhere(WithoutInfra(Line("deploy", "lerobot", "l40s", "vm"))),
            WithoutInfra(Line("deploy", "genesis", "l40s", "vm"))}
      \cup {Line("destroy", t, "l40s", "vm") : t \in {"fiftyone", "genesis"}}
      \cup {Elsewhere(Line("destroy", "cosmos", "l40s", "vm")),
            Line("destroy", "groot", "l40s", "byovm"), Line("cleanup", "groot", "l40s", "vm")}
=============================================================================
