----------------------------- MODULE MCVisualDL -----------------------------
(* Values of the constants of VisualDL for TLC.                            *)
EXTENDS VisualDL, TLC

CONSTANTS h1, h2, h3

MCHandle == {h1, h2, h3}
Symmetry == Permutations(MCHandle)

\* What the libraries under display/ and default/ return.
MCProvides == {{OpDisplay}, {OpDisplay, OpDraw}, {OpDraw}, {OpColor},
               {OpColor, OpDraw}, {OpDraw, OpGC}}

=============================================================================
