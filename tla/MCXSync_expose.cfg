SPECIFICATION Spec
CONSTANTS
  Frames = 1
  FlagSets <- SyncAndTidy
  Shm = FALSE
  Apart = TRUE
PROPERTIES SyncShows
