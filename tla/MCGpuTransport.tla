--------------------------- MODULE MCGpuTransport ---------------------------
(***************************************************************************)
(* GpuTransport for TLC: frames of up to two planes, and a process with    *)
(* one number to spare.                                                    *)
(***************************************************************************)
EXTENDS GpuTransport
=============================================================================
