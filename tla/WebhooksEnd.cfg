\* Progress, with two notifications about one subscription that the API cancels
\* and reactivates: the handlers' own statements may fail, and so may the adding
\* of a job, before or after it is done.
CONSTANTS
  d1 = d1
  d2 = d2
  e1 = e1
  t1 = t1
  s1 = s1
  g1 = g1
  api = api
  worker = worker
  Delivery <- TwoDeliveries
  EventId <- OneEvent
  GatewayId <- OneId
  Txn = {}
  Sub <- OneSub
  Stored = {"active", "cancelled"}
  None = None
  Notice <- SubNotices
  Host <- ApiOnly
  Api = api
  Connected <- ApiOnly
  MaxAttempts = 3
  MaxRetries = 3
  Faults = {"handler", "queue", "answer"}
SPECIFICATION FairSpec
INVARIANTS
  FailedEventsAreDeadLettered
PROPERTIES
  StatusMovesInTurn
  QueuedEventsAreDecided
  AcknowledgedIsQueued
\* Finitely many deliveries: the system stops when all are handled.
CHECK_DEADLOCK FALSE
