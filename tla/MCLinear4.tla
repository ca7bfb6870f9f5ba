----------------------------- MODULE MCLinear4 ------------------------------
(* Linear4 with three rows of three bytes and two frames: room for overlaps *)
(* in both directions and for odd and even ends on both sides.  The smaller *)
(* clipping rectangle starts and ends within a byte.                        *)
EXTENDS Linear4

MCClips ==
  {[left |-> 0, top |-> 0, right |-> 6, bottom |-> 3],
   [left |-> 1, top |-> 1, right |-> 5, bottom |-> 3]}
MCXs == -3..5
MCYs == -1..2
MCWs == 1..7
MCHs == {1, 2, 4}
=============================================================================
