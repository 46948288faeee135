----------------------------- MODULE Monitoring -----------------------------
(***************************************************************************)
(* services/MetricsService.ts and services/AlertService.ts: four lists of  *)
(* samples that share one limit, a summary of the last hour computed from  *)
(* them, and alerts raised from the summary at every check.                *)
(*                                                                         *)
(* Every method runs without an await, so each is one step.  Time is       *)
(* counted in hours.  A duration is a small number and a rate is compared  *)
(* in percent.  What runs the timers is in Server.                         *)
(***************************************************************************)
EXTENDS Integers, Sequences, SequencesExt, FiniteSets

CONSTANTS
  MaxMetrics,      \* maxMetricsCount: 10000 in the code
  RetentionHours,  \* metricsRetentionHours: 24 in the code
  Duration,        \* what a request, query or call may take
  MemoryUse,       \* percentages of the heap in use
  TimeThreshold,   \* what an average duration may be, for each category
  ErrorPercent,    \* errorRateThreshold: 10 in the code
  MemoryPercent,   \* memoryUsageThreshold: 80 in the code
  Sampled,         \* categories the application records
  Loads            \* bounds of a behaviour: see Load

Timed == {"request", "database", "external"}
Category == Timed \union {"custom"}

ASSUME LimitsAssumption == MaxMetrics \in Nat /\ RetentionHours \in Nat \ {0}
ASSUME SamplesAssumption ==
  Sampled \subseteq Timed /\ Duration \subseteq Nat /\ MemoryUse \subseteq 0 .. 100
ASSUME ThresholdsAssumption ==
  /\ TimeThreshold \in [Timed -> Nat]
  /\ ErrorPercent \in 0 .. 100 /\ MemoryPercent \in 0 .. 100
(* How often something is recorded, how often it is checked or reported,   *)
(* how many hours pass, and the requests and signals (Server).             *)
Load == [recorded : Nat, reports : Nat, hours : Nat, requests : Nat, signals : Nat]

ASSUME LoadsAssumption == Loads \subseteq Load

VARIABLES
  lists,     \* metrics, requestMetrics, databaseMetrics, externalApiMetrics
  recorded,  \* recorded[c]: all samples of a timed category ever taken
  dropped,   \* whether the limit made the service drop samples
  alerts,    \* every alert ever raised
  active,    \* activeAlerts, by id
  reports,   \* how often alerts were raised, or would have been at a check
  fresh,     \* whether it was checked since the last record
  hour,      \* the clock
  load       \* the bounds of this behaviour

metricVars == <<lists, recorded, dropped>>
alertVars == <<alerts, active, reports>>
monitoringVars == <<metricVars, alertVars, fresh, hour, load>>

Sample == [at : Nat, took : Nat, ok : BOOLEAN]
AlertType == Timed \union {"errors", "memory", "bottleneck", "rejection", "exception"}
AlertId == Nat \X AlertType

MonitoringInit ==
  /\ lists = [custom |-> <<>>, request |-> <<>>, database |-> <<>>, external |-> <<>>]
  /\ recorded = [c \in Timed |-> <<>>]
  /\ dropped = FALSE
  /\ alerts = {} /\ active = {} /\ reports = 0
  /\ fresh = TRUE
  /\ hour = 0
  /\ load \in Loads

-----------------------------------------------------------------------------
(* MetricsService                                                          *)

Total(L) ==
  Len(L.custom) + Len(L.request) + Len(L.database) + Len(L.external)

\* mutant of Excess: rounded down
ExcessDown(L) == IF Total(L) > MaxMetrics THEN (Total(L) - MaxMetrics) \div 4 ELSE 0
(* How many samples each category loses.                                   *)
Excess(L) ==
  IF Total(L) > MaxMetrics THEN (Total(L) - MaxMetrics + 3) \div 4 ELSE 0

Without(s, n) == SubSeq(s, n + 1, Len(s))

(* enforceMetricsLimit: the oldest of every category, whichever is large.  *)
Enforce(L) ==
  LET n == Excess(L)
  IN  [custom |-> Without(L.custom, n), request |-> Without(L.request, n),
       database |-> Without(L.database, n), external |-> Without(L.external, n)]

Push(L, c, s) == Enforce([L EXCEPT ![c] = Append(@, s)])

Custom == [at |-> hour, took |-> 0, ok |-> TRUE]
Measure(L) == Push(L, "custom", Custom)

(* The lists after a record of category c, with the custom metrics it adds.*)
Recorded(c, s) ==
  CASE c = "request"  -> Measure(Measure(Push(lists, c, s)))
    [] c = "custom"   -> Measure(lists)
    [] OTHER          -> Measure(Push(lists, c, s))

(* The six system metrics.                                                 *)
SystemRecorded ==
  Measure(Measure(Measure(Measure(Measure(Measure(lists))))))

Store(L, n) ==
  /\ lists' = L
  /\ dropped' = (dropped \/ Total(L) < Total(lists) + n)

(* recordRequestMetric, recordDatabaseMetric, recordExternalApiMetric.     *)
RecordTimed(c, took, ok) ==
  LET s == [at |-> hour, took |-> took, ok |-> ok]
  IN  /\ Len(recorded.request) + Len(recorded.database)
           + Len(recorded.external) < load.recorded
      /\ Store(Recorded(c, s), IF c = "request" THEN 3 ELSE 2)
      /\ recorded' = [recorded EXCEPT ![c] = Append(@, s)]
      /\ fresh' = FALSE
      /\ UNCHANGED <<alertVars, hour, load>>

(* recordMetric, as server.ts calls it once it listens.                    *)
RecordMetric ==
  /\ Store(Recorded("custom", Custom), 1)
  /\ UNCHANGED recorded

CollectSystemMetrics ==
  /\ Store(SystemRecorded, 6)
  /\ UNCHANGED <<recorded, alertVars, fresh, hour, load>>

(* filter(m => m.timestamp > cutoff), from the first sample to the last.   *)
Younger(s, cutoff) ==
  LET keep[i \in 0 .. Len(s)] ==
        IF i = 0 THEN <<>>
        ELSE IF s[i].at > cutoff THEN Append(keep[i - 1], s[i]) ELSE keep[i - 1]
  IN  keep[Len(s)]

\* mutant of Kept: only what is as old as the summary looks back is kept
KeptShort(s) == Younger(s, hour)

Kept(s) == Younger(s, hour - RetentionHours)

CleanupOldMetrics ==
  /\ lists' = [custom |-> Kept(lists.custom), request |-> Kept(lists.request),
                database |-> Kept(lists.database), external |-> Kept(lists.external)]
  /\ UNCHANGED <<recorded, dropped, alertVars, fresh, hour, load>>

-----------------------------------------------------------------------------
(* The summary of the last hour                                            *)

\* mutant of Recent: the cutoff is the present
RecentNow(s) == Younger(s, hour)

Recent(s) == Younger(s, hour - 1)

(* Math.round of the average duration, 0 without samples.                  *)
Average(s) ==
  LET sum == FoldLeft(LAMBDA x, m : x + m.took, 0, s)
  IN  IF s = <<>> THEN 0 ELSE (2 * sum + Len(s)) \div (2 * Len(s))

Failures(s) == {i \in DOMAIN s : ~s[i].ok}

Summary(L) ==
  [c \in Timed |-> LET s == Recent(L[c])
                   IN  [total |-> Len(s), average |-> Average(s),
                        errors |-> Cardinality(Failures(s))]]

-----------------------------------------------------------------------------
(* AlertService                                                            *)

(* What is above the given percentage of its threshold.                    *)
Above(percent, memory) ==
  LET sum == Summary(lists)
  IN  {c \in Timed : 100 * sum[c].average > percent * TimeThreshold[c]}
      \union (IF 10000 * sum["request"].errors
                   > percent * ErrorPercent * sum["request"].total
              THEN {"errors"} ELSE {})
      \union (IF 100 * memory > percent * MemoryPercent THEN {"memory"} ELSE {})

(* checkForBottlenecks and detectOverallBottlenecks: nothing is left out   *)
(* because it was reported before.                                         *)
Raised(memory) ==
  Above(100, memory)
  \union (IF Cardinality(Above(80, memory)) >= 2 THEN {"bottleneck"} ELSE {})

CreateAlerts(types) ==
  /\ alerts' = alerts \union {[id |-> <<reports, t>>, at |-> hour, resolved |-> FALSE] :
                                t \in types}
  /\ active' = active \union {<<reports, t>> : t \in types}
  /\ reports' = reports + 1

CheckForBottlenecks(memory) ==
  /\ reports < load.reports
  /\ CreateAlerts(Raised(memory))
  /\ fresh' = TRUE
  /\ UNCHANGED <<metricVars, hour, load>>

ResolveAlert(i) ==
  /\ i \in active
  /\ alerts' = {[a EXCEPT !.resolved = (@ \/ a.id = i)] : a \in alerts}
  /\ active' = active \ {i}
  /\ UNCHANGED <<metricVars, reports, fresh, hour, load>>

(* The checks come every minute, so none misses an hour.                   *)
HourPasses ==
  /\ hour < load.hours
  /\ hour' = hour + 1
  /\ UNCHANGED <<metricVars, alertVars, fresh, load>>
=============================================================================
