CONSTANTS
  r1 = r1
  r2 = r2
  a1 = a1
  a2 = a2
  a3 = a3
  t1 = t1
  t2 = t2
  u1 = u1
  k1 = k1
  None = None
  Tenants = {t1}
  Users = {u1}
  Requests = {r1, r2}
  Attempts = {a1, a2}
  Keys = {}
  Costs = {1, 2}
  Limits = {3}
  Deltas <- Corrections
  Quota <- Unlimited
  LeaseTtl = 1
  MaxSettled = 4
  Overrun = TRUE
SPECIFICATION Spec
INVARIANTS
  TypeOK
  ReservedIsOpenHolds
  SettledIsPaidHolds
  HoldFollowsAttempt
PROPERTIES
  
  ImplementsBudget
  
SYMMETRY Symmetry
