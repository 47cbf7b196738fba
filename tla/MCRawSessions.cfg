CONSTANTS
    s1 = s1
    s2 = s2
    r1 = r1
    r2 = r2
    r3 = r3
    Sessions = {s1, s2}
    Reqs = {r1, r2, r3}
    Owner <- MCOwner
    Console <- MCConsole
    Loads <- MCLoads
    MaximumLive = 1
    MaximumOwned = 1
    MaximumPending = 2
    None = None
SPECIFICATION Spec
INVARIANTS
  OperationIsOwned
  WholeRunIsAtomic
  ShutdownClosesEverything
PROPERTIES
  
  StoppedRunsStop
  RawEventuallyRests
CHECK_DEADLOCK FALSE
