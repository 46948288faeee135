\* Redelivery, two notifications about one transaction that the API writes too,
\* faults of every kind but a lost answer, crashes and stalled jobs;
\* the API process and the worker as deployed.
CONSTANTS
  d1 = d1
  d2 = d2
  e1 = e1
  t1 = t1
  s1 = s1
  g1 = g1
  api = api
  worker = worker
  Delivery <- TwoDeliveries
  EventId <- OneEvent
  GatewayId <- OneId
  Txn <- OneTxn
  Sub = {}
  Stored = {"completed"}
  None = None
  Notice <- PaymentNotices
  Host <- ApiAndWorker
  Api = api
  Connected <- ApiOnly
  MaxAttempts = 2
  MaxRetries = 2
  Faults = {"crash", "events", "handler", "queue", "letter"}
SPECIFICATION Spec
SYMMETRY Symmetry
INVARIANTS
  TypeOK
  RowAgreesWithBull
PROPERTIES
  StatusMovesInTurn
  ImplementsEventLife
\* Finitely many deliveries: the system stops when all are handled.
CHECK_DEADLOCK FALSE
