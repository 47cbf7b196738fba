CONSTANTS
  e1 = e1
  e2 = e2
  o1 = o1
  f1 = f1
  f2 = f2
  i1 = i1
  Execs <- TwoExecs
  Protected <- OneExec
  Others <- OneOther
  Clients <- AllClients
  Identities <- OneIdentity
  Console <- OwnConsole
  Identity <- SameIdentity
  Stmts <- TwoStmts
  Fetchers <- TwoFetchers
  Loads <- StreamLoads
  Streamed <- OneExec
  Pages = 2
  MaximumTotal = 2
  MaximumPerIdentity = 2
  MaximumLive = 1
  MaximumLivePerIdentity = 1
SPECIFICATION FairStreamSpec
CHECK_DEADLOCK FALSE
INVARIANTS
  StreamsCleanUp
PROPERTIES
  StreamsEnd
