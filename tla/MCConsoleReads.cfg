CONSTANTS
  e1 = e1
  e2 = e2
  o1 = o1
  f1 = f1
  f2 = f2
  i1 = i1
  Execs <- TwoExecs
  Protected <- OneExec
  Others <- OneOther
  Clients <- AllClients
  Identities <- OneIdentity
  Console <- OwnConsole
  Identity <- SameIdentity
  Stmts <- OneStmt
  Fetchers <- TwoFetchers
  Loads <- ReadLoads
  Pages = 2
  MaximumTotal = 2
  MaximumPerIdentity = 2
  MaximumLive = 1
  MaximumLivePerIdentity = 1
SPECIFICATION ReadsSpec
CHECK_DEADLOCK FALSE
INVARIANTS
  ReadsInv
  PermitsAreCounted
  PagesInSequence
  CancelledHasNoRows

  
