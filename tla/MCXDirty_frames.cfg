SPECIFICATION Spec
CONSTANTS
  VirtX = 2
  VirtY = 2
  Frames = 2
  Accels = {TRUE}
  Shm = TRUE
  Tidy = FALSE
  Calls <- MCNoCalls
  Coords <- MCCorners
  Lens <- MCLens
  ClipBoxes = {}
INVARIANTS
  DirtyCoversStale
  FlushServesRequest
PROPERTIES
  LeaveFrameClean
