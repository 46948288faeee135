\* Two requests that may share a key or a correlation id, every kind of fault.
CONSTANTS
  r1 = r1
  r2 = r2
  r3 = r3
  k1 = k1
  c1 = c1
  Request <- TwoRequests
  Key <- OneKey
  CorrId <- OneCorrId
  BadKey = BadKey
  UnknownId = UnknownId
  None = None
  Op = {"purchase", "cancel"}
  RetryAttempts = 2
  Faults = {"crash", "database", "build", "reply"}
SPECIFICATION Spec
SYMMETRY Symmetry
INVARIANTS
  TypeOK
  ChargePromises
  LedgerAgrees
PROPERTIES
  ImplementsContract
\* Clients send finitely many requests: the system stops when all are done.
CHECK_DEADLOCK FALSE
