SPECIFICATION Spec
CONSTANTS
  acme = acme
  beta = beta
  k1 = k1
  small = small
  large = large
  wrong = wrong
  untitled = untitled
  credit = credit
  r1 = r1
  r2 = r2
  r3 = r3
  r4 = r4
  r5 = r5
  r6 = r6
  NoKey = NoKey
  NoTask = NoTask
  Org = {acme}
  Request = {r1, r2}
  Key = {k1}
  Body = {small, large, wrong, untitled, credit}
  OrgOf <- AllAcme
  KeyOf <- NoKeys
  BodyOf <- AllLarge
  Valid = {small, large, wrong, credit}
  Resolvable = {small, large, untitled, credit}
  Estimates <- Cents
  Subscribed = {acme}
  Budget <- TwoCents
  PeriodMonth <- FirstMonth
  LastMonth = 1
PROPERTIES
  QueuedWithinBudget
CHECK_DEADLOCK FALSE
