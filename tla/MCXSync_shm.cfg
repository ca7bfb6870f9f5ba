SPECIFICATION Spec
CONSTANTS
  Frames = 2
  FlagSets <- EveryMode
  Shm = TRUE
  Apart = TRUE
INVARIANTS TypeOK MansyncMatchesMode NotLeftMuted StopAssertion DeinitAssertion TaskHasItsHook
PROPERTIES CallsReturn SyncShows
