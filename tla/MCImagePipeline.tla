-------------------------- MODULE MCImagePipeline --------------------------
(***************************************************************************)
(* ImagePipeline for TLC: connections that follow one another, payloads of *)
(* two pieces and two instances of the application.                        *)
(***************************************************************************)
EXTENDS ImagePipeline
=============================================================================
