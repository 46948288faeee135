SPECIFICATION Spec
CONSTANTS
  Subscription = {s1}
  Runner = {r1, r2}
  Client = {c1, c2}
  s1 = s1
  s2 = s2
  r1 = r1
  r2 = r2
  c1 = c1
  c2 = c2
  Operations = {"create", "update", "cancel"}
  NewStatus = {"active"}
  NamesAmount = {TRUE}
  NoticeStatus = {"active", "cancelled"}
  Interval = {1}
  Overflow = {0, 1}
  Cycles = 2
  MaxRetries = 1
  Disturbances = {"statement", "answer", "crash", "shutdown", "trigger", "overlap", "notice"}
  MaxDisturbed = 1
  MaxMonth = 2
SYMMETRY Symmetry
INVARIANTS TypeOK BilledOnSchedule CyclesCounted GatewayAgrees
PROPERTIES OnlyActiveIsBilled CancelledStays
