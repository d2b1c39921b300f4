CONSTANTS
  q1 = q1
  q2 = q2
  q3 = q3
  q4 = q4
  u1 = u1
  u2 = u2
  None = None
  Requests = {q1, q2, q3, q4}
  Users = {u1, u2}
  ExecutingPerUser = 1
  QueuedPerUser = 2
  QueueLimit <- Sixteen
  Jobs <- StrictOnly
SPECIFICATION Spec
PROPERTY
  RefusedOnlyWhenFull
SYMMETRY Symmetry
