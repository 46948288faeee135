\* No fault at all: two purchases with one key.
CONSTANTS
  r1 = r1
  r2 = r2
  r3 = r3
  k1 = k1
  c1 = c1
  Request <- TwoRequests
  Key <- OneKey
  CorrId = {}
  BadKey = BadKey
  UnknownId = UnknownId
  None = None
  Op = {"purchase"}
  RetryAttempts = 1
  Faults = {}
SPECIFICATION Spec
INVARIANT
  KeysPreventDuplicates
\* Clients send finitely many requests: the system stops when all are done.
CHECK_DEADLOCK FALSE
