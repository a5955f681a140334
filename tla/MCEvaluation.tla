---------------------------- MODULE MCEvaluation ----------------------------
(* Small instances of Evaluation for TLC.                                   *)
EXTENDS Evaluation

CONSTANT reason

MCCalls == (1..RolloutCount) \X Components
MCStages == {{}}
MCShards == [c \in Calls |-> 1]

ASSUME CallsOfTheEvaluation == EvaluationCalls
=============================================================================
