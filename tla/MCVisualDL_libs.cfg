SPECIFICATION Spec
CONSTANTS
  h1 = h1
  h2 = h2
  h3 = h3
  Handle <- MCHandle
  Provides <- MCProvides
SYMMETRY Symmetry
INVARIANTS TypeOK UseCountExact MasterListExact DisplayStaysLoaded
PROPERTIES DisplayClosedLast LifecycleSpec
