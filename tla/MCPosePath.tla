----------------------------- MODULE MCPosePath -----------------------------
(***************************************************************************)
(* PosePath for TLC.  MCPosePath: two applications that ask the broker,    *)
(* with failures.  MCPoseStuck: the application without a context waits    *)
(* behind the broker's connection.                                         *)
(***************************************************************************)
EXTENDS PosePath
=============================================================================
