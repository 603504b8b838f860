---------------------------- MODULE MCHostBridge ----------------------------
(***************************************************************************)
(* HostBridge for TLC.  MCHostBridge: each outcome of the set-up, failing  *)
(* calls and restarts of the application.  MCHostLive: what must happen,   *)
(* on Windows with a complete swapchain and in the headless Linux build.   *)
(* MCHostLayers: frames of two layers.                                     *)
(***************************************************************************)
EXTENDS HostBridge

\* A pixel every frame reaches, and one that only frames as large as the
\* projection do.
MCSpots == {"corner", "far"}

\* A number that a small frame has in one run a large one has in the next.
MCCovers == [f \in AppFrames |-> IF (f.run + f.seq) % 2 = 1 THEN {"corner"}
                                                          ELSE MCSpots]
=============================================================================
