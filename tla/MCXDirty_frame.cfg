SPECIFICATION Spec
CONSTANTS
  VirtX = 3
  VirtY = 2
  Frames = 1
  Accels = {TRUE, FALSE}
  Shm = FALSE
  Tidy = FALSE
  Calls <- MCCalls
  Coords <- MCCoords
  Lens <- MCLens
  ClipBoxes <- MCClipBoxes
INVARIANTS
  TypeOK
  RegionOnScreen
  DirtyCoversStale
  FlushServesRequest
PROPERTIES
  LeaveFrameClean
