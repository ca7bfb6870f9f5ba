SPECIFICATION Spec
CONSTANTS
  Formats <- Wide
  Codings = {"trle"}
  Tiles <- MCTiles
  MaxPalette = 17
  MaxByte = 15
INVARIANT ShownAsDrawn
