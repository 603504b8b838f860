---------------------------- MODULE MCImageServer ----------------------------
(***************************************************************************)
(* ImageServer for TLC: clients that follow one another, headers in two    *)
(* parts, a frame without and one with a payload, and a frame limit.       *)
(***************************************************************************)
EXTENDS ImageServer
=============================================================================
