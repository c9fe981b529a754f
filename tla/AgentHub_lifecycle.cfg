SPECIFICATION Spec
CONSTANTS
  acme = acme
  beta = beta
  t1 = t1
  t2 = t2
  t3 = t3
  s1 = s1
  s2 = s2
  s3 = s3
  NoTask = NoTask
  NoCall = NoCall
  NoSlot = NoSlot
  Org = {acme}
  Task = {t1, t2}
  Slot = {s1, s2}
  Worker = {w1, w2}
  Call <- MixedCalls
  TaskOf <- CallTask
  OrderIndex <- CallOrder
  RiskLevel <- MixedRisks
  EstimatedCost <- Costs
  TaskOrg <- TasksOfAcme
  RequiredSlotType <- StandardTasks
  SlotOrg <- SlotsOfAcme
  SlotType <- StandardSlots
  MaxConcurrentSlots <- Two
  AutoApproveThreshold <- One
  Chain <- Chains
  StepsFitLease = TRUE
  MaxCrashes = 1
SYMMETRY Symmetry
INVARIANTS
  SlotsMatchExecutions
  StatusesAgree
  OneRunner
  CallsInOrder
  CompletedMeansAllDone
  BilledIffCompleted
PROPERTIES
  CompletedCallStays
  ChangesAreJournalled
