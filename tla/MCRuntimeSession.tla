-------------------------- MODULE MCRuntimeSession --------------------------
(***************************************************************************)
(* RuntimeSession for TLC: the values are in MCRuntimeSession.cfg.  Three  *)
(* images as in the code; eight pending events hold a create, a begin and  *)
(* an end that the application has not polled, the longest backlog of one  *)
(* session; two numbered frames, each sent or failed.                      *)
(***************************************************************************)
EXTENDS RuntimeSession
=============================================================================
