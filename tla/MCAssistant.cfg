CONSTANTS
  k1 = k1
  k2 = k2
  r1 = r1
  r2 = r2
  Tasks <- TwoTasks
  Requests <- TwoRequests
  MaxTurns = 2
  MaxProposals = 2
  MaxRounds = 2
  Budgets <- AssistantBudgets
SPECIFICATION FairSpec
CHECK_DEADLOCK FALSE
INVARIANTS
  
  AppliedOnce

  
  
