SPECIFICATION Spec
CONSTANTS
  acme = acme
  beta = beta
  k1 = k1
  small = small
  large = large
  wrong = wrong
  untitled = untitled
  credit = credit
  r1 = r1
  r2 = r2
  r3 = r3
  r4 = r4
  r5 = r5
  r6 = r6
  NoKey = NoKey
  NoTask = NoTask
  Org = {acme, beta}
  Request = {r1, r2, r3, r4, r5, r6}
  Key = {k1}
  Body = {small, large, wrong, untitled, credit}
  OrgOf <- MixedOrgs
  KeyOf <- MixedKeys
  BodyOf <- MixedBodies
  Valid = {small, large, wrong, credit}
  Resolvable = {small, large, untitled, credit}
  Estimates <- Mixed
  Subscribed = {acme}
  Budget <- TenCents
  PeriodMonth <- FirstMonth
  LastMonth = 2
INVARIANTS
  TypeOK
  KeyMeansOneTask
  RetryIsNeverRefused
  EstimatesFitBudget
PROPERTIES
  RefusedOnlyOverBudget
  ShownIsNotTooLittle
CHECK_DEADLOCK FALSE
