\* No fault at all: the API process and the worker as deployed.
CONSTANTS
  d1 = d1
  d2 = d2
  e1 = e1
  t1 = t1
  s1 = s1
  g1 = g1
  api = api
  worker = worker
  Delivery <- TwoDeliveries
  EventId <- OneEvent
  GatewayId <- OneId
  Txn <- OneTxn
  Sub = {}
  Stored = {"completed"}
  None = None
  Notice <- OneNotice
  Host <- ApiAndWorker
  Api = api
  Connected <- ApiOnly
  MaxAttempts = 3
  MaxRetries = 3
  Faults = {}
SPECIFICATION Spec
INVARIANTS
  FailedEventsAreDeadLettered
\* Finitely many deliveries: the system stops when all are handled.
CHECK_DEADLOCK FALSE
