SPECIFICATION ListSpec
CONSTANTS
  acme = acme
  beta = beta
  t1 = t1
  t2 = t2
  t3 = t3
  t4 = t4
  s1 = s1
  s2 = s2
  s3 = s3
  NoTask = NoTask
  Org = {acme, beta}
  Task = {t1, t2, t3, t4}
  Slot = {s1, s2, s3}
  Worker = {w1, w2}
  TaskOrg <- Owners
  RequiredSlotType <- Types
  Priority <- Priorities
  CreatedAt <- Ages
  SlotOrg <- SlotOwners
  SlotType <- Standard
  Limit = 1
  MaxConcurrentSlots <- One
INVARIANTS
  PickedStaysQueued
  PagesMissNothing
PROPERTIES
  NobodyStarves
