---------------------------- MODULE MCVncUpdate -----------------------------
(* VncUpdate with a screen of 2 x 2 pixels in a frame of 3 x 3: it can be    *)
(* moved to the side, up and down, and across.  The flags are set together,  *)
(* the viewer asks for the screen, or for a part that is cut off at its      *)
(* edge.                                                                     *)
EXTENDS VncUpdate

\* A pixel of the left edge and one of a corner: one or both are on the screen.
MCProbes == {Coord(0, 1), Coord(2, 2)}
MCModes == {<<FALSE, FALSE>>, <<TRUE, TRUE>>}
MCBoxes == {Rect(0, 1, 2, 2)}
MCRequests == {Rect(0, 0, 2, 2), Rect(1, 0, 4, 1)}
=============================================================================
