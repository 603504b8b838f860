-------------------------- MODULE MCVideoTransport --------------------------
(***************************************************************************)
(* VideoTransport for TLC.  MCVideoTransport: two runs of the sender that  *)
(* share their ids, frames of two sizes, and one datagram lost or          *)
(* delivered again, for a receiver with a frame limit.  MCVideoBlocked:    *)
(* the documented promise that two runs break.                             *)
(***************************************************************************)
EXTENDS VideoTransport
=============================================================================
