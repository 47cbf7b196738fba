CONSTANTS
  t1 = t1
  t2 = t2
  x1 = x1
  x2 = x2
  c1 = c1
  c2 = c2
  p1 = p1
  None = None
  Txs <- TwoTxs
  Runs <- TwoRuns
  Finishers <- TwoFinishers
  Pollers <- OnePoller
  Loads <- OneLoad
SPECIFICATION Spec
CHECK_DEADLOCK FALSE
INVARIANT
  CommittedIsTrue
