SPECIFICATION Spec
CONSTANTS
  Subscription = {s1}
  Runner = {r1}
  Client = {c1, c2}
  s1 = s1
  s2 = s2
  r1 = r1
  r2 = r2
  c1 = c1
  c2 = c2
  Operations = {"create", "update"}
  NewStatus = {}
  NamesAmount = {TRUE, FALSE}
  NoticeStatus = {}
  Interval = {1}
  Overflow = {0}
  Cycles = 2
  MaxRetries = 1
  Disturbances = {}
  MaxDisturbed = 0
  MaxMonth = 2
INVARIANT PositiveAmounts
