SPECIFICATION Spec
CONSTANTS
  VirtX = 2
  VirtY = 2
  Frames = 1
  Accels = {TRUE}
  Shm = FALSE
  Tidy = FALSE
  Calls <- MCCopies
  Coords <- MCCorners
  Lens <- MCLens
  ClipBoxes <- MCClipBoxes
INVARIANTS
  DirtyCoversStale
