----------------------------- MODULE MCVTSwitch -----------------------------
(* VTSwitch with two visuals: the second is on the list but its flags are   *)
(* not the helper's, and closing the first frees the flags the helper reads. *)
EXTENDS VTSwitch

CONSTANTS v1, v2

MCVis == {v1, v2}
=============================================================================
