SPECIFICATION FairSpec
CONSTANTS
  acme = acme
  beta = beta
  t1 = t1
  t2 = t2
  t3 = t3
  s1 = s1
  s2 = s2
  s3 = s3
  NoTask = NoTask
  NoCall = NoCall
  NoSlot = NoSlot
  Org = {acme, beta}
  Task = {t1, t2}
  Slot = {s1, s2, s3}
  Worker = {w1, w2}
  Call <- GatedCalls
  TaskOf <- CallTask
  OrderIndex <- CallOrder
  RiskLevel <- GatedRisks
  EstimatedCost <- Costs
  TaskOrg <- TasksOfAcme
  RequiredSlotType <- TwoTypesOfTasks
  SlotOrg <- TwoOrgSlots
  SlotType <- TwoTypesOfSlots
  MaxConcurrentSlots <- One
  AutoApproveThreshold <- One
  Chain <- Chains
  StepsFitLease = TRUE
  MaxCrashes = 1
INVARIANTS
  PlanLimitHeld
PROPERTIES
  PoolSpec
  EveryTaskEnds
  RequestsAreResolved
