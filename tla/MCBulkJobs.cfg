CONSTANTS
  j1 = j1
  j2 = j2
  s1 = s1
  s2 = s2
  u1 = u1
  None = None
  Jobs = {j1, j2}
  Slots = {s1, s2}
  Owner <- OneUser
  MaxJobs = 2
  Loads <- MCLoads
SPECIFICATION FairSpec
CHECK_DEADLOCK FALSE
INVARIANTS
  OneRunnerPerJob
  
  CheckpointsAreTrue
  UncertainIsVisible
  ShutdownSettles
PROPERTIES
  EventuallyRests
