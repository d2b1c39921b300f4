CONSTANTS
  r1 = r1
  r2 = r2
  a1 = a1
  a2 = a2
  a3 = a3
  t1 = t1
  t2 = t2
  u1 = u1
  k1 = k1
  None = None
  Tenants = {t1}
  Users = {u1}
  Requests = {r1, r2}
  Attempts = {a1, a2, a3}
  Keys = {k1}
  Costs = {1, 2}
  Limits = {}
  Deltas = {}
  Quota <- ThreeEach
  LeaseTtl = 1
  MaxSettled = 2
  Overrun = FALSE
SPECIFICATION Spec
INVARIANTS
  OneRequestPerKey
  UsageFollowsRequest
  QuotaNeverExceeded
SYMMETRY Symmetry
