CONSTANTS
  w1 = w1
  w2 = w2
  o1 = o1
  e1 = e1
  e2 = e2
  t1 = t1
  t2 = t2
  d1 = d1
  c1 = c1
  c2 = c2
  None = None
  InitContent = c1
  Workers <- TwoWorkers
  Operators <- OneOperator
  Execs <- OneExec
  Xids <- TwoXids
  Drifts <- NoDrift
  Contents <- OneContent
  FreshSnapshots <- Nobody
  Budgets <- CrashBudgets
SPECIFICATION FairSpec
CHECK_DEADLOCK FALSE
INVARIANTS
  MigrationInv
  AppliedAtMostOnce
  OutcomeIsTrue
PROPERTIES
  ReceiptHistory
  EventuallyRecorded
