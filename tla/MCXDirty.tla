------------------------------- MODULE MCXDirty -------------------------------
(* Small instances of XDirty for TLC. *)
EXTENDS XDirty

\* starts left of, on and at the last column or row of a 3 x 2 frame
MCCoords == {-1, 0, 1, 2}
\* starts and ends on a 2 x 2 frame
MCCorners == {0, 1}
MCLens == {1, 2}

\* the calls each target can be relied on for
MCCalls == [a \in BOOLEAN |-> IF a THEN {"line"} ELSE {"copy", "text"}]
MCNoCalls == [a \in BOOLEAN |-> {}]
MCCopies == [a \in BOOLEAN |-> {"copy"}]

\* the whole frame, a rectangle that clips on the left and at the bottom, and
\* one that ggiSetGCClipping refuses
MCClipBoxes == {[left |-> 0, top |-> 0, right |-> VirtX, bottom |-> VirtY],
                [left |-> 1, top |-> 0, right |-> VirtX, bottom |-> VirtY - 1],
                [left |-> 0, top |-> 0, right |-> VirtX + 1, bottom |-> VirtY]}
=============================================================================
