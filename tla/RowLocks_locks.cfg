SPECIFICATION LockSpec
CONSTANTS
  acme = acme
  t1 = t1
  NoTask = NoTask
  NoCall = NoCall
  NoSlot = NoSlot
  Org = {acme}
  Task = {t1}
  Slot = {s1}
  Worker = {w1, w2}
  Client = {k1, k2}
  Call <- OneCall
  TaskOf <- CallTask
  OrderIndex <- CallOrder
  RiskLevel <- Destructive
  EstimatedCost <- Costs
  TaskOrg <- TasksOfAcme
  RequiredSlotType <- StandardTasks
  SlotOrg <- SlotsOfAcme
  SlotType <- StandardSlots
  MaxConcurrentSlots <- One
  AutoApproveThreshold <- One
  Chain <- Chains
  StepsFitLease = FALSE
  MaxCrashes = 1
SYMMETRY LockSymmetry
INVARIANTS
  OnlyCancelDeadlocks
  LockInv
PROPERTIES
  HubSpec
