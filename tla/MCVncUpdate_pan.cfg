SPECIFICATION Spec
CONSTANTS
  X = 2
  Y = 2
  VirtX = 3
  VirtY = 3
  Probes <- MCProbes
  Modes <- MCModes
  Boxes <- MCBoxes
  Requests <- MCRequests
INVARIANTS TypeOK Covered RequestKept NothingHeldBack
