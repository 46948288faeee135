\* Both entry points, two connections, two signals, and every trouble; few
\* metrics, so that the limit is reached.
CONSTANTS
  d1 = d1
  d2 = d2
  MaxMetrics = 8
  RetentionHours = 1
  Duration = {2}
  MemoryUse = {50, 90}
  TimeThreshold <- Thresholds
  ErrorPercent = 10
  MemoryPercent = 80
  Loads <- LoadsOfBoth
  Sampled = {"request", "database", "external"}
  Entry = {"index", "server"}
  Connection = {d1, d2}
  Webcrypto = {TRUE, FALSE}
  Troubles = {"connect", "close", "hang", "abort", "rejection", "exception"}
SPECIFICATION ServerSpec
INVARIANTS
  TypeOK
  ServedWhileConnected
  CleanExit
  OneSignalEndsCleanly
  MetricsBounded
  SummaryIsExact
  FailuresAreAlerted
PROPERTIES
  SignalEndsProcess
\* The process exits.
CHECK_DEADLOCK FALSE
