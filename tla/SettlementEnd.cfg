\* Progress with both writers of the table: an authorization, and what
\* captures or voids it; answers may get lost.
CONSTANTS
  r1 = r1
  r2 = r2
  r3 = r3
  c1 = c1
  Request <- TwoRequests
  Key = {}
  CorrId = {}
  BadKey = BadKey
  UnknownId = UnknownId
  None = None
  Op = {"authorize", "capture", "cancel"}
  RetryAttempts = 1
  Faults = {"reply"}
  SameId = {"capture", "cancel"}
SPECIFICATION SettlementFairSpec
INVARIANTS
  NotesOK
  LedgerSettles
PROPERTIES
  SettledMovesByNotice
  EveryRequestEnds
  RowsSettle
  ChargesAreBooked
\* Clients send finitely many requests: the system stops when all are done.
CHECK_DEADLOCK FALSE
