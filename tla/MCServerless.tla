------------------------------ MODULE MCServerless ------------------------------
(* Small instances of Serverless for TLC.                                  *)
EXTENDS Serverless, TLC

CONSTANTS t1, t2

Symmetry == Permutations(Terminals)

Line(op, flow) == [op |-> op, flow |-> flow, detach |-> FALSE, replace |-> FALSE]
Detached(line) == [line EXCEPT !.detach = TRUE]
Replacing(line) == [line EXCEPT !.replace = TRUE]

\* One command line of every kind that the model tells apart.
MCCommands ==
    {Line("job", f) : f \in Flows}
      \cup {Detached(Line("job", LerobotTrain)), Detached(Line("job", FiftyoneJob)),
            Line("cancel", CosmosTrain), Line("deploy", CosmosTrain),
            Detached(Line("deploy", CosmosTrain)), Replacing(Line("deploy", CosmosTrain)),
            Line("destroy", CosmosTrain)}

\* No step reads what the operator was told, and the property only asks whether the name of a
\* job that runs, or of the endpoint that is there, is in told or unnamed: states that differ
\* in no more than the names of what has ended for good are explored once.
Known(n) == n \in told \cup unnamed /\ jobs[n] \in {"none", "live"}
KnownEp(id) ==
    /\ id \in toldEp \cup unnamedEp
    /\ id \in {endpoint.id} \cup lateEp \/ \E t \in Terminals : AtWork(t) /\ Name(t) = id
View == <<jobs, late, record, {n \in Names : Known(n)},
          endpoint, lateEp, entry, {id \in Names : KnownEp(id)}, crossed, proc, given, intrs>>
=============================================================================
