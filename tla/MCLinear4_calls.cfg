SPECIFICATION Spec
CONSTANTS
  VirtX = 6
  VirtY = 3
  Frames = {0, 1}
  Bytes = 12
  Clips <- MCClips
  Xs <- MCXs
  Ys <- MCYs
  Ws <- MCWs
  Hs <- MCHs
  AlignedAcross = FALSE
  MaxCalls = 1
INVARIANT TypeOK
PROPERTY ScreenSpec
CHECK_DEADLOCK FALSE
