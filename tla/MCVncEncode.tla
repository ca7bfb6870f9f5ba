---------------------------- MODULE MCVncEncode -----------------------------
(* VncEncode with all tiles of two and three colours in a few small shapes,  *)
(* and with large ones in which many colours come in runs of one length:     *)
(* they make each subencoding the best one, and each limit bite.             *)
EXTENDS VncEncode

All(w, h, colours) == {Tile(w, h, px) : px \in [1..w * h -> colours]}

InRuns(w, h, colours, length) ==
  Tile(w, h, [i \in 1..w * h |-> 1 + (((i - 1) \div length) % colours)])

Small ==
  All(3, 1, 1..3) \cup All(1, 5, 1..3) \cup All(2, 2, 1..3) \cup All(3, 3, 1..2)

Large ==
  {InRuns(6, 6, c, n) : c \in {2, 3, 5, 17, 18}, n \in {1, 2, 20}}
  \cup {InRuns(9, 1, 2, n) : n \in 1..4}
  \cup {InRuns(5, 2, c, 1) : c \in {4, 5}} \cup {InRuns(17, 2, 2, 17)}

\* A run longer than the room reckons with, after pixels of many colours.
Long == Tile(32, 3, [i \in 1..96 |-> IF i <= 46 THEN i % 20 ELSE 20])

MCTiles == Small \cup Large \cup {Long}
Narrow == {[bpp |-> 1, cbpp |-> 1], [bpp |-> 2, cbpp |-> 2], [bpp |-> 4, cbpp |-> 3]}
Wide == {[bpp |-> 4, cbpp |-> 4]}
=============================================================================
