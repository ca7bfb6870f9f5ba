SPECIFICATION Spec
CONSTANTS
  Formats <- Narrow
  Codings = {"trle", "zrle", "hextile", "rre", "corre"}
  Tiles <- MCTiles
  MaxPalette = 17
  MaxByte = 15
INVARIANTS ShownAsDrawn InStep RoomSuffices TakenApart
