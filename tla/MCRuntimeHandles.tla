-------------------------- MODULE MCRuntimeHandles --------------------------
(***************************************************************************)
(* RuntimeHandles for TLC: both hands, a path that is too long, and the    *)
(* path it is cut to.                                                      *)
(***************************************************************************)
EXTENDS RuntimeHandles

AllTexts == {"left", "right", "long", "longCut"}

CutTexts == [t \in AllTexts |-> IF t = "long" THEN "longCut" ELSE t]
=============================================================================
