---------------------------- MODULE MCStagedLoop ----------------------------
(* Small instances of StagedLoop for TLC.                                   *)
EXTENDS StagedLoop
=============================================================================
