SPECIFICATION Spec
CONSTANTS
  v1 = v1
  v2 = v2
  Vis <- MCVis
  NoVis = NoVis
  MaxKeys = 4
INVARIANTS TypeOK FollowsConsole UnmappedWhileAway RequestHeard
PROPERTIES RequestAnswered ProgramResumes
CHECK_DEADLOCK FALSE
