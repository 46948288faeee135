---------------------------- MODULE ServerProofs ----------------------------
(***************************************************************************)
(* Proofs about Server: whatever the entry point, the connections, the     *)
(* limits and the troubles, no store is closed under a request whose       *)
(* client waits, the process exits with 0 only when everything is closed,  *)
(* and its monitoring is exact until it drops samples.                     *)
(***************************************************************************)
EXTENDS Server, MonitoringProofs

(* Every variable of the alerts and of the process has its type.           *)
AlertsTyped ==
  /\ alerts \subseteq [id : AlertId, at : Nat, resolved : BOOLEAN]
  /\ active \subseteq AlertId
  /\ reports \in Nat /\ fresh \in BOOLEAN

ProcessTyped ==
  /\ load \in Loads
  /\ entry \in Entry /\ webcrypto \in Webcrypto
  /\ phase \in Phase /\ database \in {"open", "closed"} /\ redis \in 0 .. 2
  /\ timers \subseteq Timer
  /\ conn \in [Connection -> {"none", "busy", "stuck", "idle", "aborted", "gone"}]
  /\ requests \in 0 .. load.requests /\ signals \in 0 .. load.signals
  /\ closings \in Seq(Step)
  /\ exit \in {None, "0", "1", "7", "killed"} /\ cause \in Cause

StartPhase == {"database", "redis", "services", "listen"}

(* Until it serves nothing happened that could need a shutdown.            *)
StartInv ==
  phase \in StartPhase =>
    /\ closings = <<>> /\ signals = 0
    /\ \A c \in Connection : conn[c] = "none"
    /\ \A c \in Timed : recorded[c] = <<>>

(* What is connected in which phase of the start.                          *)
PhaseInv ==
  /\ phase = "database" => database = "closed" /\ redis = 0
  /\ phase = "redis" => entry = "index" /\ database = "open" /\ redis \in {0, 1}
  /\ phase = "services" => entry = "server" /\ database = "open"
  /\ phase = "listen" => Connected
  /\ phase = "serving" => closings = <<>>

EntryInv ==
  /\ entry = "index" => timers = {}
  /\ entry = "server" => redis = 0

(* While no shutdown is past its server.close everything is connected, and *)
(* from then on no connection is left, only handlers without one may be.   *)
ShutdownInv ==
  /\ Handlers /\ (\A i \in DOMAIN closings : closings[i] = "waiting") => Connected
  /\ \A i \in DOMAIN closings : closings[i] # "waiting" => Drained
  /\ \A i \in DOMAIN closings : closings[i] = "done" => database = "closed"

(* How far each of the shutdowns is, by entry point.                       *)
ClosingsInv ==
  /\ entry = "index" =>
       \A i \in DOMAIN closings :
         /\ i > 1 => closings[i] = "waiting"
         /\ closings[i] = "redis" => redis = 2
         /\ closings[i] = "queue" => redis = 1
         /\ closings[i] \in {"database", "done"} => redis = 0
  /\ entry = "server" =>
       \A i \in DOMAIN closings :
         /\ closings[i] \in {"waiting", "database", "done"}
         /\ closings[i] # "waiting" => "metrics" \notin timers /\ "alerts" \notin timers

SignalsInv == Len(closings) <= signals

ExitInv == exit = None <=> phase # "exited"

(* When failures are watched for, and when all of r are alerted but those  *)
(* of the hour h, and those too if f says that a check was made since.     *)
Watched ==
  /\ entry = "server" /\ Alive /\ "alerts" \in timers /\ ~dropped
  /\ Len(recorded["request"]) * ErrorPercent < 100

Alerted(r, al, h, f) ==
  \A i \in DOMAIN r : ~r[i].ok /\ (r[i].at < h \/ f) =>
    \E a \in al : a.id[2] = "errors" /\ a.at = r[i].at

(* A failed request has its alert, or the check that will raise it is due  *)
(* before the hour is over.                                                *)
AlertedInv == Watched => Alerted(recorded["request"], alerts, hour, fresh)

(* The inductive invariant: of the process, and with its monitoring.       *)
ProcInv ==
  /\ ProcessTyped /\ StartInv /\ PhaseInv /\ EntryInv /\ ShutdownInv /\ ClosingsInv
  /\ SignalsInv /\ ExitInv /\ CleanExit /\ OneSignalEndsCleanly

SInv == MetricsInv /\ AlertsTyped /\ ProcInv /\ AlertedInv

-----------------------------------------------------------------------------
(* Steps of the process                                                    *)

(* What of the monitoring the process depends on.                          *)
Undisturbed == load' = load /\ (recorded' = recorded \/ phase \notin StartPhase)

LEMMA ProcUnchanged ==
  ASSUME ProcInv, UNCHANGED serverVars, Undisturbed
  PROVE  ProcInv'
<1>1. /\ entry' = entry /\ webcrypto' = webcrypto /\ phase' = phase
      /\ database' = database /\ redis' = redis /\ timers' = timers /\ conn' = conn
      /\ requests' = requests /\ signals' = signals /\ closings' = closings
      /\ exit' = exit /\ cause' = cause /\ load' = load
  BY DEF serverVars, Undisturbed
<1>2. ProcessTyped'
  BY <1>1 DEF ProcInv, ProcessTyped
<1>3. StartInv'
  BY <1>1 DEF ProcInv, StartInv, Undisturbed
<1>4. PhaseInv' /\ EntryInv'
  BY <1>1 DEF ProcInv, PhaseInv, EntryInv, Connected
<1>5. ShutdownInv'
  BY <1>1 DEF ProcInv, ShutdownInv, Connected, Drained, Handlers
<1>6. ClosingsInv'
  BY <1>1 DEF ProcInv, ClosingsInv
<1>7. SignalsInv' /\ ExitInv' /\ CleanExit' /\ OneSignalEndsCleanly'
  BY <1>1 DEF ProcInv, SignalsInv, ExitInv, CleanExit, OneSignalEndsCleanly, Drained
<1>. QED  BY <1>2, <1>3, <1>4, <1>5, <1>6, <1>7 DEF ProcInv

(* Whatever ends the process keeps the invariant, if the exit code is      *)
(* deserved.                                                               *)
LEMMA ProcExit ==
  ASSUME ProcInv, NEW code \in {"0", "1", "7", "killed"}, NEW why \in Cause,
         Exit(code, why), load' = load,
         code = "0" => /\ Drained /\ database = "closed" /\ redis = 0
                       /\ "metrics" \notin timers /\ "alerts" \notin timers,
         code = "1" /\ signals = 1 => why \in {"store", "forced", "uncaught"}
  PROVE  ProcInv'
<1>1. /\ phase' = "exited" /\ exit' = code /\ cause' = why
      /\ entry' = entry /\ webcrypto' = webcrypto
      /\ database' = database /\ redis' = redis /\ timers' = timers /\ conn' = conn
      /\ requests' = requests /\ signals' = signals /\ closings' = closings
  BY DEF Exit
<1>2. ProcessTyped'
  BY <1>1 DEF ProcInv, ProcessTyped, Phase
<1>3. StartInv' /\ PhaseInv'
  BY <1>1 DEF StartInv, StartPhase, PhaseInv
<1>4. EntryInv' /\ SignalsInv'
  BY <1>1 DEF ProcInv, EntryInv, SignalsInv
<1>5. ShutdownInv'
  BY <1>1 DEF ProcInv, ShutdownInv, Connected, Drained, Handlers
<1>6. ClosingsInv'
  BY <1>1 DEF ProcInv, ClosingsInv
<1>7. ExitInv' /\ CleanExit' /\ OneSignalEndsCleanly'
  BY <1>1 DEF ExitInv, None, CleanExit, OneSignalEndsCleanly, Drained
<1>. QED  BY <1>2, <1>3, <1>4, <1>5, <1>6, <1>7 DEF ProcInv

LEMMA StartKeeps ==
  ASSUME ProcInv, MetricsInv,
         ConnectDatabase \/ ConnectRedis \/ InitializeServices \/ Listen
  PROVE  ProcInv'
<1>1. /\ ProcessTyped /\ StartInv /\ PhaseInv /\ EntryInv /\ ExitInv
      /\ phase \in StartPhase /\ entry \in {"index", "server"}
  <2>1. ProcessTyped /\ entry \in {"index", "server"}
    BY EntryAssumption DEF ProcInv, ProcessTyped
  <2>. QED
  BY <2>1 DEF ProcInv, ConnectDatabase, ConnectRedis, InitializeServices, Listen, Starting, StartPhase
<1>2. closings = <<>> /\ signals = 0 /\ DOMAIN closings = {} /\ Len(closings) = 0
  BY <1>1 DEF StartInv
<1>3. /\ entry' = entry /\ webcrypto' = webcrypto /\ conn' = conn
      /\ requests' = requests /\ signals' = signals /\ closings' = closings
      /\ exit' = exit /\ cause' = cause /\ load' = load /\ recorded' = recorded
  BY DEF ConnectDatabase, ConnectRedis, InitializeServices, Listen, monitoringVars,
         metricVars, RecordMetric
<1>4. /\ phase' \in StartPhase \union {"serving"} /\ phase' # "exited" /\ phase # "exited"
      /\ database' \in {"open", "closed"} /\ redis' \in 0 .. 2 /\ timers' \subseteq Timer
      /\ PhaseInv' /\ EntryInv'
      /\ phase' = "serving" => Connected'
  <2>1. CASE ConnectDatabase
    BY <1>1, <1>2, <1>3, <2>1 DEF ConnectDatabase, Starting, StartPhase, PhaseInv, EntryInv,
         Connected, ProcessTyped
  <2>2. CASE ConnectRedis
    BY <1>1, <1>2, <1>3, <2>2 DEF ConnectRedis, Starting, StartPhase, PhaseInv, EntryInv,
         Connected, ProcessTyped
  <2>3. CASE InitializeServices
    BY <1>1, <1>2, <1>3, <2>3 DEF InitializeServices, Starting, StartPhase, PhaseInv, EntryInv,
         Connected, ProcessTyped
  <2>4. CASE Listen
    BY <1>1, <1>2, <1>3, <2>4 DEF Listen, Starting, StartPhase, PhaseInv, EntryInv,
         Connected, ProcessTyped
  <2>. QED  BY <2>1, <2>2, <2>3, <2>4
<1>5. ProcessTyped'
  BY <1>1, <1>3, <1>4 DEF ProcessTyped, Phase, StartPhase
<1>6. StartInv'
  BY <1>1, <1>3 DEF StartInv
<1>7. ShutdownInv'
  BY <1>2, <1>3, <1>4 DEF ShutdownInv, Handlers, StartPhase, Connected
<1>8. ClosingsInv' /\ SignalsInv'
  BY <1>2, <1>3 DEF ClosingsInv, SignalsInv
<1>9. ExitInv' /\ CleanExit' /\ OneSignalEndsCleanly'
  BY <1>1, <1>3, <1>4 DEF ExitInv, None, CleanExit, OneSignalEndsCleanly
<1>. QED  BY <1>4, <1>5, <1>6, <1>7, <1>8, <1>9 DEF ProcInv

(* A connection is used only while it can be: once a close has called      *)
(* back, handlers without one only come to their end.                      *)
LEMMA ConnectionKeeps ==
  ASSUME ProcInv, NEW c \in Connection, Request(c) \/ Serve(c) \/ Abort(c) \/ IdleTimeout(c)
  PROVE  ProcInv'
<1>1. /\ ProcessTyped /\ StartInv /\ PhaseInv /\ EntryInv /\ ShutdownInv /\ ClosingsInv
      /\ SignalsInv /\ ExitInv /\ CleanExit /\ OneSignalEndsCleanly
  BY DEF ProcInv
<1>2. /\ entry' = entry /\ webcrypto' = webcrypto /\ phase' = phase
      /\ database' = database /\ redis' = redis /\ timers' = timers
      /\ signals' = signals /\ closings' = closings
      /\ exit' = exit /\ cause' = cause /\ load' = load /\ recorded' = recorded
      /\ Handlers
  BY DEF Request, Serve, Respond, Hang, Abort, IdleTimeout, Becomes, monitoringVars, metricVars
<1>3. /\ \E s \in {"busy", "idle", "stuck", "aborted", "gone"} :
           /\ conn' = [conn EXCEPT ![c] = s]
           /\ conn[c] \in {"none", "gone", "aborted"} =>
                s = "gone" \/ (phase = "serving" /\ conn[c] = "none")
      /\ requests' \in 0 .. load.requests
  <2>1. load.requests \in Nat
    BY <1>1, LoadsAssumption DEF ProcessTyped, Load
  <2>2. CASE Request(c)
    BY <1>1, <2>1, <2>2 DEF Request, Becomes, ProcessTyped
  <2>3. CASE ~Request(c)
    BY <1>1, <2>3 DEF Serve, Respond, Hang, Abort, IdleTimeout, Becomes, ProcessTyped
  <2>. QED  BY <2>2, <2>3
<1>4. phase \notin StartPhase /\ phase # "exited" /\ exit = None
  BY <1>1, <1>2 DEF Handlers, StartPhase, ExitInv
<1>5. ASSUME NEW i \in DOMAIN closings, closings[i] # "waiting"  PROVE Drained'
  <2>1. Drained /\ closings # <<>>
    <3>1. DOMAIN <<>> = {}
      OBVIOUS
    <3>. QED  BY <1>1, <1>5, <3>1 DEF ShutdownInv
  <2>2. phase # "serving" /\ conn[c] \in {"none", "gone", "aborted"}
    BY <1>1, <2>1 DEF PhaseInv, Drained
  <2>3. conn' = [conn EXCEPT ![c] = "gone"]
    BY <1>3, <2>2
  <2>. QED  BY <1>1, <2>1, <2>3 DEF Drained, ProcessTyped
<1>6. ProcessTyped'
  <2>1. conn' \in [Connection -> {"none", "busy", "stuck", "idle", "aborted", "gone"}]
    BY <1>1, <1>3 DEF ProcessTyped
  <2>. QED  BY <1>1, <1>2, <1>3, <2>1 DEF ProcessTyped
<1>7. StartInv' /\ PhaseInv' /\ EntryInv' /\ ClosingsInv'
  BY <1>1, <1>2, <1>4 DEF StartInv, PhaseInv, EntryInv, ClosingsInv, Connected
<1>8. ShutdownInv'
  BY <1>1, <1>2, <1>5 DEF ShutdownInv, Handlers, Connected
<1>9. SignalsInv' /\ ExitInv' /\ CleanExit' /\ OneSignalEndsCleanly'
  BY <1>1, <1>2, <1>4 DEF SignalsInv, ExitInv, None, CleanExit, OneSignalEndsCleanly
<1>. QED  BY <1>6, <1>7, <1>8, <1>9 DEF ProcInv

LEMMA SignalKeeps ==
  ASSUME ProcInv, Signal
  PROVE  ProcInv'
<1>1. /\ ProcessTyped /\ StartInv /\ PhaseInv /\ EntryInv /\ ShutdownInv /\ ClosingsInv
      /\ SignalsInv /\ ExitInv /\ CleanExit /\ OneSignalEndsCleanly
  BY DEF ProcInv
<1>2. /\ entry' = entry /\ webcrypto' = webcrypto /\ conn' = conn /\ requests' = requests
      /\ database' = database /\ redis' = redis /\ timers' = timers /\ load' = load
      /\ phase # "exited" /\ exit = None
      /\ signals < load.signals /\ signals' = signals + 1
  BY <1>1 DEF Signal, Alive, monitoringVars, ExitInv
<1>3. /\ load.signals \in Nat /\ signals \in Nat /\ signals' \in 0 .. load.signals
      /\ closings \in Seq(Step) /\ Len(closings) \in Nat
  <2>1. load.signals \in Nat
    BY <1>1, LoadsAssumption DEF ProcessTyped, Load
  <2>2. closings \in Seq(Step) /\ Len(closings) \in Nat
    BY <1>1, LenProperties DEF ProcessTyped
  <2>. QED  BY <1>1, <1>2, <2>1, <2>2 DEF ProcessTyped
<1>4. CASE Handlers
  <2>1. /\ phase' = "closing" /\ closings' = Append(closings, "waiting")
        /\ exit' = exit /\ cause' = cause
    BY <1>4 DEF Signal
  <2>2. /\ closings' \in Seq(Step) /\ Len(closings') = Len(closings) + 1
        /\ DOMAIN closings = 1 .. Len(closings) /\ DOMAIN closings' = 1 .. Len(closings) + 1
        /\ closings'[Len(closings) + 1] = "waiting"
        /\ \A i \in DOMAIN closings : closings'[i] = closings[i]
    BY <1>3, <2>1, AppendProperties, LenProperties DEF Step
  <2>3. \A i \in DOMAIN closings' :
          closings'[i] = "waiting" \/ (i \in DOMAIN closings /\ closings'[i] = closings[i])
    BY <1>3, <2>2
  <2>4. \A i \in DOMAIN closings : i \in DOMAIN closings'
    <3>1. \A n \in Nat : \A i \in 1 .. n : i \in 1 .. n + 1
      OBVIOUS
    <3>. QED  BY <1>3, <2>2, <3>1
  <2>5. ProcessTyped'
    BY <1>1, <1>2, <1>3, <2>1, <2>2 DEF ProcessTyped, Phase
  <2>6. StartInv' /\ PhaseInv' /\ EntryInv'
    BY <1>1, <1>2, <2>1 DEF StartInv, StartPhase, PhaseInv, EntryInv
  <2>7. ShutdownInv'
    <3>1. Connected' = Connected /\ Drained' = Drained
      BY <1>2 DEF Connected, Drained
    <3>2. (\A i \in DOMAIN closings' : closings'[i] = "waiting") =>
            \A i \in DOMAIN closings : closings[i] = "waiting"
      BY <2>2, <2>4
    <3>. QED  BY <1>1, <1>2, <1>4, <2>3, <3>1, <3>2 DEF ShutdownInv
  <2>8. ClosingsInv'
    BY <1>1, <1>2, <2>3 DEF ClosingsInv
  <2>9. SignalsInv'
    BY <1>1, <1>2, <1>3, <2>2 DEF SignalsInv
  <2>10. ExitInv' /\ CleanExit' /\ OneSignalEndsCleanly'
    BY <1>2, <2>1 DEF ExitInv, None, CleanExit, OneSignalEndsCleanly
  <2>. QED  BY <2>5, <2>6, <2>7, <2>8, <2>9, <2>10 DEF ProcInv
<1>5. CASE ~Handlers
  <2>1. phase' = "exited" /\ exit' = "killed" /\ cause' = "signal" /\ closings' = closings
    BY <1>5 DEF Signal
  <2>2. ProcessTyped'
    BY <1>1, <1>2, <1>3, <2>1 DEF ProcessTyped, Phase, Cause
  <2>3. StartInv' /\ PhaseInv' /\ EntryInv'
    BY <1>1, <1>2, <2>1 DEF StartInv, StartPhase, PhaseInv, EntryInv
  <2>4. ShutdownInv' /\ ClosingsInv'
    BY <1>1, <1>2, <2>1 DEF ShutdownInv, ClosingsInv, Handlers, Drained
  <2>5. SignalsInv'
    BY <1>1, <1>2, <1>3, <2>1 DEF SignalsInv
  <2>6. ExitInv' /\ CleanExit' /\ OneSignalEndsCleanly'
    BY <2>1 DEF ExitInv, None, CleanExit, OneSignalEndsCleanly
  <2>. QED  BY <2>2, <2>3, <2>4, <2>5, <2>6 DEF ProcInv
<1>. QED  BY <1>4, <1>5

-----------------------------------------------------------------------------
(* Steps of a shutdown                                                     *)

(* A shutdown under way is one after a signal in a process that served.    *)
LEMMA ClosingFacts ==
  ASSUME ProcInv, Alive, NEW i \in DOMAIN closings
  PROVE  /\ phase = "closing" /\ Handlers /\ exit = None
         /\ closings \in Seq(Step) /\ Len(closings) \in Nat
         /\ i \in 1 .. Len(closings) /\ DOMAIN closings = 1 .. Len(closings)
<1>1. closings # <<>>
  <2>1. DOMAIN <<>> = {}
    OBVIOUS
  <2>. QED  BY <2>1
<1>2. phase \in Phase /\ phase \notin StartPhase /\ phase # "serving" /\ phase # "exited"
  BY <1>1 DEF ProcInv, ProcessTyped, StartInv, PhaseInv, Alive
<1>3. closings \in Seq(Step)
  BY DEF ProcInv, ProcessTyped
<1>. QED  BY <1>2, <1>3, LenProperties DEF Phase, StartPhase, Handlers, ProcInv, ExitInv

LEMMA ClosingsStep ==
  ASSUME ProcInv, Alive, NEW i \in DOMAIN closings, NEW s \in Step, Closings(i, s)
  PROVE  /\ closings' \in Seq(Step) /\ Len(closings') = Len(closings)
         /\ DOMAIN closings' = DOMAIN closings
         /\ closings'[i] = s
         /\ \A j \in DOMAIN closings : j # i => closings'[j] = closings[j]
<1>1. closings \in Seq(Step) /\ i \in 1 .. Len(closings) /\ DOMAIN closings = 1 .. Len(closings)
  BY ClosingFacts
<1>2. closings' = [closings EXCEPT ![i] = s]
  BY DEF Closings
<1>3. closings' \in Seq(Step) /\ Len(closings') = Len(closings)
  BY <1>1, <1>2, ExceptSeq
<1>4. \A j \in 1 .. Len(closings) : closings'[j] = IF j = i THEN s ELSE closings[j]
  BY <1>1, <1>2, ExceptSeq
<1>. QED  BY <1>1, <1>3, <1>4, LenProperties

(* What a step of a shutdown leaves alone it does not disturb.             *)
LEMMA ClosingStepKeeps ==
  ASSUME ProcInv, Alive, NEW i \in DOMAIN closings, NEW s \in Step \ {"waiting"},
         Closings(i, s), Drained,
         UNCHANGED <<entry, webcrypto, phase, conn, requests, signals, exit, cause, load>>,
         ClosingsInv', EntryInv', database' \in {"open", "closed"}, redis' \in 0 .. 2,
         timers' \subseteq Timer,
         \A j \in DOMAIN closings : closings'[j] = "done" => database' = "closed"
  PROVE  ProcInv'
<1>1. /\ phase = "closing" /\ exit = None /\ i \in DOMAIN closings
      /\ closings' \in Seq(Step) /\ Len(closings') = Len(closings)
      /\ DOMAIN closings' = DOMAIN closings /\ closings'[i] = s
  BY ClosingFacts, ClosingsStep
<1>2. ProcessTyped'
  BY <1>1 DEF ProcInv, ProcessTyped
<1>3. StartInv' /\ PhaseInv'
  BY <1>1 DEF StartInv, StartPhase, PhaseInv
<1>4. ShutdownInv'
  <2>1. Drained'
    BY DEF Drained
  <2>2. ~ (\A j \in DOMAIN closings' : closings'[j] = "waiting")
    BY <1>1
  <2>. QED  BY <1>1, <2>1, <2>2 DEF ShutdownInv
<1>5. SignalsInv' /\ ExitInv' /\ CleanExit' /\ OneSignalEndsCleanly'
  BY <1>1 DEF ProcInv, SignalsInv, ExitInv, None, CleanExit, OneSignalEndsCleanly
<1>. QED  BY <1>2, <1>3, <1>4, <1>5 DEF ProcInv

LEMMA CallbackKeeps ==
  ASSUME ProcInv, Alive, NEW i \in DOMAIN closings, CallbackIndex(i) \/ CallbackServer(i)
  PROVE  ProcInv'
<1>1. /\ phase = "closing" /\ Handlers /\ Len(closings) \in Nat
      /\ i \in 1 .. Len(closings) /\ DOMAIN closings = 1 .. Len(closings)
  BY ClosingFacts
<1>2. /\ ProcessTyped /\ EntryInv /\ ShutdownInv /\ ClosingsInv /\ SignalsInv
      /\ closings[i] = "waiting" /\ Drained /\ load' = load
  BY DEF ProcInv, CallbackIndex, CallbackServer, MayClose, monitoringVars
<1>3. CASE CallbackIndex(i) /\ WithError(i)
  <2>1. Exit("1", "error")
    BY <1>3 DEF CallbackIndex
  <2>2. signals # 1
    BY <1>1, <1>2, <1>3 DEF WithError, SignalsInv
  <2>. QED  BY <1>2, <2>1, <2>2, ProcExit DEF Cause
<1>4. CASE CallbackIndex(i) /\ ~WithError(i)
  <2>1. /\ entry = "index" /\ Closings(i, "redis") /\ i = 1
        /\ UNCHANGED <<entry, webcrypto, phase, database, redis, timers, conn,
                       requests, signals, exit, cause>>
    BY <1>1, <1>4 DEF CallbackIndex, WithError
  <2>2. /\ DOMAIN closings' = DOMAIN closings /\ closings'[i] = "redis"
        /\ \A j \in DOMAIN closings : j # i => closings'[j] = closings[j]
    BY <2>1, ClosingsStep DEF Step
  <2>3. \A j \in DOMAIN closings : closings[j] = "waiting"
    <3>1. \A j \in DOMAIN closings : j > 1 => closings[j] = "waiting"
      BY <1>2, <2>1 DEF ClosingsInv
    <3>. QED  BY <1>1, <1>2, <2>1, <3>1
  <2>4. redis = 2
    BY <1>1, <1>2, <2>1, <2>3 DEF ShutdownInv, Connected
  <2>5. \A j \in DOMAIN closings : closings'[j] = IF j = 1 THEN "redis" ELSE "waiting"
    BY <2>1, <2>2, <2>3
  <2>6. ClosingsInv'
    BY <2>1, <2>2, <2>4, <2>5 DEF ClosingsInv
  <2>7. EntryInv'
    BY <1>2, <2>1 DEF EntryInv
  <2>. QED  BY <1>2, <2>1, <2>5, <2>6, <2>7, ClosingStepKeeps DEF Step, ProcessTyped
<1>5. CASE CallbackServer(i)
  <2>1. /\ entry = "server" /\ Closings(i, "database")
        /\ timers' = timers \ {"metrics", "alerts"}
        /\ UNCHANGED <<entry, webcrypto, phase, database, redis, conn,
                       requests, signals, exit, cause>>
    BY <1>5 DEF CallbackServer
  <2>2. /\ DOMAIN closings' = DOMAIN closings /\ closings'[i] = "database"
        /\ \A j \in DOMAIN closings : j # i => closings'[j] = closings[j]
    BY <2>1, ClosingsStep DEF Step
  <2>3. ClosingsInv'
    BY <1>2, <2>1, <2>2 DEF ClosingsInv
  <2>4. EntryInv' /\ timers' \subseteq Timer
    BY <1>2, <2>1 DEF EntryInv, ProcessTyped
  <2>5. \A j \in DOMAIN closings : closings'[j] = "done" => database' = "closed"
    BY <1>2, <2>1, <2>2 DEF ShutdownInv
  <2>. QED  BY <1>2, <2>1, <2>3, <2>4, <2>5, ClosingStepKeeps DEF Step, ProcessTyped
<1>. QED  BY <1>3, <1>4, <1>5

LEMMA QuitKeeps ==
  ASSUME ProcInv, Alive, NEW i \in DOMAIN closings, QuitRedis(i)
  PROVE  ProcInv'
<1>1. /\ i \in 1 .. Len(closings) /\ DOMAIN closings = 1 .. Len(closings) /\ Len(closings) \in Nat
  BY ClosingFacts
<1>2. /\ ProcessTyped /\ EntryInv /\ ShutdownInv /\ ClosingsInv
      /\ closings[i] \in {"redis", "queue"} /\ redis' = redis - 1 /\ load' = load
      /\ Closings(i, IF closings[i] = "redis" THEN "queue" ELSE "database")
      /\ UNCHANGED <<entry, webcrypto, phase, database, timers, conn,
                     requests, signals, exit, cause>>
  BY DEF ProcInv, QuitRedis, monitoringVars
<1>3. Drained
  BY <1>2 DEF ShutdownInv
<1>4. entry = "index" /\ i = 1
  <2>1. entry \in {"index", "server"}
    BY <1>2, EntryAssumption DEF ProcessTyped
  <2>2. entry # "server"
    BY <1>2 DEF ClosingsInv
  <2>3. ~ (i > 1)
    BY <1>2, <2>1, <2>2 DEF ClosingsInv
  <2>. QED  BY <1>1, <2>1, <2>2, <2>3
<1>5. PICK s \in Step \ {"waiting"} :
        /\ Closings(i, s)
        /\ \/ closings[i] = "redis" /\ s = "queue" /\ redis = 2
           \/ closings[i] = "queue" /\ s = "database" /\ redis = 1
  BY <1>2, <1>4 DEF ClosingsInv, Step
<1>6. /\ DOMAIN closings' = DOMAIN closings /\ closings'[i] = s
      /\ \A j \in DOMAIN closings : j # i => closings'[j] = closings[j]
  BY <1>5, ClosingsStep
<1>7. \A j \in DOMAIN closings : closings'[j] = IF j = 1 THEN s ELSE "waiting"
  <2>1. \A j \in DOMAIN closings : j # 1 => closings[j] = "waiting"
    BY <1>1, <1>2, <1>4 DEF ClosingsInv
  <2>. QED  BY <1>4, <1>6, <2>1
<1>8. ClosingsInv'
  BY <1>2, <1>4, <1>5, <1>6, <1>7 DEF ClosingsInv
<1>9. EntryInv' /\ redis' \in 0 .. 2
  BY <1>2, <1>4, <1>5 DEF EntryInv
<1>10. s # "done"
  BY <1>5
<1>. QED  BY <1>2, <1>3, <1>5, <1>7, <1>8, <1>9, <1>10, ClosingStepKeeps DEF ProcessTyped

LEMMA DestroyKeeps ==
  ASSUME ProcInv, Alive, NEW i \in DOMAIN closings, Destroy(i)
  PROVE  ProcInv'
<1>1. i \in 1 .. Len(closings) /\ DOMAIN closings = 1 .. Len(closings) /\ Len(closings) \in Nat
  BY ClosingFacts
<1>2. /\ ProcessTyped /\ EntryInv /\ ShutdownInv /\ ClosingsInv
      /\ closings[i] = "database" /\ database' = "closed" /\ Closings(i, "done") /\ load' = load
      /\ UNCHANGED <<entry, webcrypto, phase, redis, timers, conn, requests, signals,
                     exit, cause>>
  BY DEF ProcInv, Destroy, monitoringVars
<1>3. Drained
  BY <1>2 DEF ShutdownInv
<1>4. /\ DOMAIN closings' = DOMAIN closings /\ closings'[i] = "done"
      /\ \A j \in DOMAIN closings : j # i => closings'[j] = closings[j]
  BY <1>2, ClosingsStep DEF Step
<1>5. ClosingsInv'
  BY <1>2, <1>4 DEF ClosingsInv
<1>6. EntryInv'
  BY <1>2 DEF EntryInv
<1>. QED  BY <1>2, <1>3, <1>4, <1>5, <1>6, ClosingStepKeeps DEF Step, ProcessTyped

LEMMA EndKeeps ==
  ASSUME ProcInv, Alive, NEW i \in DOMAIN closings, Finish(i) \/ CloseFails(i)
  PROVE  ProcInv'
<1>1. i \in 1 .. Len(closings) /\ DOMAIN closings = 1 .. Len(closings) /\ Len(closings) \in Nat
  BY ClosingFacts
<1>2. /\ ProcessTyped /\ EntryInv /\ ShutdownInv /\ ClosingsInv /\ SignalsInv /\ load' = load
  BY DEF ProcInv, Finish, CloseFails, monitoringVars
<1>3. CASE Finish(i)
  <2>1. closings[i] = "done" /\ Exit("0", "shutdown")
    BY <1>3 DEF Finish
  <2>2. Drained /\ database = "closed"
    BY <1>2, <2>1 DEF ShutdownInv
  <2>3. redis = 0 /\ "metrics" \notin timers /\ "alerts" \notin timers
    <3>1. entry \in {"index", "server"}
      BY <1>2, EntryAssumption DEF ProcessTyped
    <3>. QED  BY <1>2, <2>1, <3>1 DEF ClosingsInv, EntryInv
  <2>. QED  BY <1>2, <2>1, <2>2, <2>3, ProcExit DEF Cause
<1>4. CASE CloseFails(i)
  <2>1. CASE Exit("1", "store")
    BY <1>2, <2>1, ProcExit DEF Cause
  <2>2. CASE Second(i) /\ Exit("1", "error")
    <3>1. PICK j \in 1 .. i - 1 : closings[j] \in {"database", "done"}
      BY <2>2 DEF Second
    <3>2. signals # 1
      BY <1>1, <1>2, <3>1 DEF SignalsInv
    <3>. QED  BY <1>2, <2>2, <3>2, ProcExit DEF Cause
  <2>. QED  BY <1>4, <2>1, <2>2 DEF CloseFails
<1>. QED  BY <1>3, <1>4

-----------------------------------------------------------------------------
(* The process as a whole                                                  *)

LEMMA ForcedKeeps ==
  ASSUME ProcInv, StartFails \/ ForcedExit
  PROVE  ProcInv'
<1>1. CASE StartFails
  <2>1. Exit("1", "start") /\ load' = load /\ phase \in StartPhase
    BY <1>1 DEF StartFails, StartPhase, monitoringVars
  <2>2. signals = 0
    BY <2>1 DEF ProcInv, StartInv
  <2>. QED  BY <2>1, <2>2, ProcExit DEF Cause
<1>2. CASE ForcedExit
  <2>1. Exit("1", "forced") /\ load' = load
    BY <1>2 DEF ForcedExit, monitoringVars
  <2>. QED  BY <2>1, ProcExit DEF Cause
<1>. QED  BY <1>1, <1>2

LEMMA ErrorsKeep ==
  ASSUME ProcInv, UncaughtException \/ UnhandledRejection
  PROVE  ProcInv'
<1>1. CASE \E code \in {"1", "7"} : Exit(code, "uncaught") /\ load' = load
  BY <1>1, ProcExit DEF Cause
<1>2. CASE UNCHANGED serverVars /\ load' = load /\ recorded' = recorded
  BY <1>2, ProcUnchanged DEF Undisturbed
<1>3. UncaughtException =>
        \E code \in {"1", "7"} : Exit(code, "uncaught") /\ load' = load
  BY DEF UncaughtException, Report, monitoringVars
<1>4. UnhandledRejection =>
        \/ \E code \in {"1", "7"} : Exit(code, "uncaught") /\ load' = load
        \/ UNCHANGED serverVars /\ load' = load /\ recorded' = recorded
  BY DEF UnhandledRejection, Report, monitoringVars, metricVars
<1>. QED  BY <1>1, <1>2, <1>3, <1>4

LEMMA MonitorKeeps ==
  ASSUME ProcInv, Monitor
  PROVE  ProcInv'
<1>1. \/ \E code \in {"1", "7"} : Exit(code, "uncaught") /\ load' = load
      \/ UNCHANGED serverVars /\ Undisturbed
  <2>1. ASSUME NEW memory \in MemoryUse, Check(memory)
        PROVE  \/ \E code \in {"1", "7"} : Exit(code, "uncaught") /\ load' = load
               \/ UNCHANGED serverVars /\ Undisturbed
    BY <2>1 DEF Check, CheckForBottlenecks, monitoringVars, metricVars, Undisturbed
  <2>2. ASSUME NEW c \in Sampled, NEW took \in Duration, NEW ok \in BOOLEAN,
               Handlers, RecordTimed(c, took, ok)
        PROVE  Undisturbed
    BY <2>2 DEF RecordTimed, Undisturbed, Handlers, StartPhase
  <2>3. ASSUME NEW i \in active, ResolveAlert(i)
        PROVE  Undisturbed
    BY <2>3 DEF ResolveAlert, metricVars, Undisturbed
  <2>4. CollectSystemMetrics \/ CleanupOldMetrics \/ HourPasses => Undisturbed
    BY DEF CollectSystemMetrics, CleanupOldMetrics, HourPasses, metricVars, Undisturbed
  <2>. QED  BY <2>1, <2>2, <2>3, <2>4 DEF Monitor
<1>. QED  BY <1>1, ProcExit, ProcUnchanged DEF Cause

LEMMA ProcNext ==
  ASSUME ProcInv, MetricsInv, ServerNext
  PROVE  ProcInv'
<1>1. CASE Startup
  BY <1>1, StartKeeps, ForcedKeeps DEF Startup
<1>2. ASSUME NEW i \in DOMAIN closings, Closing(i)
      PROVE  ProcInv'
  BY <1>2, CallbackKeeps, QuitKeeps, DestroyKeeps, EndKeeps DEF Closing
<1>3. ASSUME NEW c \in Connection, Request(c) \/ Serve(c) \/ Abort(c) \/ IdleTimeout(c)
      PROVE  ProcInv'
  BY <1>3, ConnectionKeeps
<1>. QED  BY <1>1, <1>2, <1>3, SignalKeeps, ForcedKeeps, ErrorsKeep, MonitorKeeps DEF ServerNext

-----------------------------------------------------------------------------
(* The metrics                                                             *)

(* The steps in which no sample is taken and no hour passes.               *)
LEMMA MetricsUnchanged ==
  ASSUME MetricsInv, UNCHANGED <<metricVars, hour>>
  PROVE  MetricsInv'
BY DEF MetricsInv, metricVars

(* What a step does to the metrics.                                        *)
MetricsStep ==
  \/ UNCHANGED <<metricVars, hour>>
  \/ \E c \in Timed, took \in Nat, ok \in BOOLEAN : RecordTimed(c, took, ok)
  \/ RecordMetric /\ UNCHANGED <<alertVars, fresh, hour, load>>
  \/ CollectSystemMetrics
  \/ CleanupOldMetrics
  \/ HourPasses

LEMMA MetricsStepOf ==
  ASSUME ServerNext
  PROVE  MetricsStep
<1>1. UNCHANGED monitoringVars => UNCHANGED <<metricVars, hour>>
  BY DEF monitoringVars
<1>2. Startup => MetricsStep
  BY <1>1 DEF Startup, ConnectDatabase, ConnectRedis, InitializeServices, Listen, StartFails,
       MetricsStep
<1>3. \A c \in Connection : Request(c) \/ Serve(c) \/ Abort(c) \/ IdleTimeout(c) => UNCHANGED monitoringVars
  BY DEF Request, Serve, Respond, Hang, Abort, IdleTimeout, Becomes
<1>4. Signal \/ ForcedExit => UNCHANGED monitoringVars
  BY DEF Signal, ForcedExit
<1>5. \A i \in DOMAIN closings : Closing(i) => UNCHANGED monitoringVars
  BY DEF Closing, CallbackIndex, CallbackServer, QuitRedis, Destroy, Finish, CloseFails
<1>6. UncaughtException \/ UnhandledRejection => UNCHANGED <<metricVars, hour>>
  BY <1>1 DEF UncaughtException, UnhandledRejection, Report
<1>7. Monitor => MetricsStep
  <2>1. \A memory \in MemoryUse : Check(memory) => UNCHANGED <<metricVars, hour>>
    BY <1>1 DEF Check, CheckForBottlenecks
  <2>2. \A i \in active : ResolveAlert(i) => UNCHANGED <<metricVars, hour>>
    BY DEF ResolveAlert
  <2>3. Sampled \subseteq Timed /\ Duration \subseteq Nat
    BY SamplesAssumption
  <2>. QED  BY <2>1, <2>2, <2>3 DEF Monitor, MetricsStep
<1>. QED  BY <1>1, <1>2, <1>3, <1>4, <1>5, <1>6, <1>7 DEF ServerNext, MetricsStep

LEMMA MetricsNext ==
  ASSUME MetricsInv, MetricsStep
  PROVE  MetricsInv'
<1>1. ASSUME NEW c \in Timed, NEW took \in Nat, NEW ok \in BOOLEAN, RecordTimed(c, took, ok)
      PROVE  MetricsInv'
  BY <1>1, RecordTimedKeeps
<1>. QED  BY <1>1, MetricsUnchanged, RecordMetricKeeps, CollectKeeps, CleanupKeeps, HourKeeps
            DEF MetricsStep

-----------------------------------------------------------------------------
(* The alerts                                                              *)

(* No alert is lost: it may be resolved.                                   *)
AlertsKept == \A a \in alerts : \E b \in alerts' : b.id = a.id /\ b.at = a.at

LEMMA CreateKeeps ==
  ASSUME AlertsTyped, hour \in Nat, NEW types \in SUBSET AlertType, CreateAlerts(types),
         fresh' \in BOOLEAN
  PROVE  /\ AlertsTyped' /\ AlertsKept
         /\ \A t \in types : \E a \in alerts' : a.id[2] = t /\ a.at = hour
<1>. DEFINE new(t) == [id |-> <<reports, t>>, at |-> hour, resolved |-> FALSE]
<1>1. \A t \in types : /\ <<reports, t>> \in AlertId
                       /\ new(t) \in [id : AlertId, at : Nat, resolved : BOOLEAN]
                       /\ new(t).id[2] = t /\ new(t).at = hour
  BY DEF AlertsTyped, AlertId
<1>2. /\ alerts' = alerts \union {new(t) : t \in types}
      /\ active' = active \union {<<reports, t>> : t \in types}
      /\ reports' = reports + 1
  BY DEF CreateAlerts
<1>. HIDE DEF new
<1>3. AlertsTyped'
  <2>1. alerts' \subseteq [id : AlertId, at : Nat, resolved : BOOLEAN]
    <3>. DEFINE Alert == [id : AlertId, at : Nat, resolved : BOOLEAN]
    <3>1. alerts \subseteq Alert /\ \A t \in types : new(t) \in Alert
      BY <1>1 DEF AlertsTyped
    <3>. HIDE DEF Alert
    <3>2. alerts' \subseteq Alert
      BY <1>2, <3>1
    <3>. QED  BY <3>2 DEF Alert
  <2>2. active' \subseteq AlertId
    BY <1>1, <1>2 DEF AlertsTyped
  <2>3. reports' \in Nat
    BY <1>2 DEF AlertsTyped
  <2>. QED  BY <2>1, <2>2, <2>3 DEF AlertsTyped
<1>4. AlertsKept
  BY <1>2, Zenon DEF AlertsKept
<1>5. \A t \in types : new(t) \in alerts'
  BY <1>2, Zenon
<1>6. \A t \in types : \E a \in alerts' : a.id[2] = t /\ a.at = hour
  BY <1>1, <1>5, Zenon
<1>. QED  BY <1>3, <1>4, <1>6

LEMMA ResolveKeeps ==
  ASSUME AlertsTyped, NEW i \in active, ResolveAlert(i)
  PROVE  AlertsTyped' /\ AlertsKept
<1>. DEFINE Alert == [id : AlertId, at : Nat, resolved : BOOLEAN]
            after(a) == [a EXCEPT !.resolved = (@ \/ a.id = i)]
<1>1. \A a \in Alert : after(a) \in Alert /\ after(a).id = a.id /\ after(a).at = a.at
  <2>. TAKE a \in Alert
  <2>1. (a.resolved \/ a.id = i) \in BOOLEAN
    OBVIOUS
  <2>2. after(a) \in Alert
    BY <2>1, Zenon
  <2>3. after(a).id = a.id /\ after(a).at = a.at
    OBVIOUS
  <2>. QED  BY <2>2, <2>3
<1>2. /\ alerts' = {after(a) : a \in alerts} /\ alerts \subseteq Alert
      /\ active' = active \ {i} /\ UNCHANGED <<reports, fresh>>
  BY DEF ResolveAlert, AlertsTyped
<1>. HIDE DEF after, Alert
<1>3. AlertsKept
  BY <1>1, <1>2 DEF AlertsKept
<1>4. alerts' \subseteq Alert
  BY <1>1, <1>2
<1>. QED  BY <1>2, <1>3, <1>4 DEF AlertsTyped, Alert

(* Only what the service can raise is raised.                              *)
LEMMA RaisedTypes ==
  ASSUME NEW memory
  PROVE  Raised(memory) \subseteq AlertType
<1>1. Above(100, memory) \subseteq Timed \union {"errors", "memory"}
  BY DEF Above
<1>. QED  BY <1>1 DEF Raised, AlertType

LEMMA AlertsNext ==
  ASSUME AlertsTyped, hour \in Nat, ServerNext
  PROVE  AlertsTyped' /\ AlertsKept
<1>1. CASE UNCHANGED <<alertVars, fresh>>
  <2>1. alerts' = alerts /\ active' = active /\ reports' = reports /\ fresh' = fresh
    BY <1>1 DEF alertVars
  <2>. QED  BY <2>1 DEF AlertsTyped, AlertsKept
<1>2. UNCHANGED monitoringVars => UNCHANGED <<alertVars, fresh>>
  BY DEF monitoringVars
<1>3. Startup => UNCHANGED <<alertVars, fresh>>
  BY <1>2 DEF Startup, ConnectDatabase, ConnectRedis, InitializeServices, Listen, StartFails
<1>4. \A c \in Connection : Request(c) \/ Serve(c) \/ Abort(c) \/ IdleTimeout(c) => UNCHANGED monitoringVars
  BY DEF Request, Serve, Respond, Hang, Abort, IdleTimeout, Becomes
<1>5. Signal \/ ForcedExit => UNCHANGED monitoringVars
  BY DEF Signal, ForcedExit
<1>6. \A i \in DOMAIN closings : Closing(i) => UNCHANGED monitoringVars
  BY DEF Closing, CallbackIndex, CallbackServer, QuitRedis, Destroy, Finish, CloseFails
<1>7. ASSUME NEW type \in {"exception", "rejection"}, Report(type)
      PROVE  AlertsTyped' /\ AlertsKept
  <2>1. {type} \in SUBSET AlertType /\ CreateAlerts({type}) /\ fresh' \in BOOLEAN
    BY <1>7 DEF Report, AlertType, AlertsTyped
  <2>. QED  BY <2>1, CreateKeeps
<1>8. UncaughtException \/ UnhandledRejection =>
        \/ UNCHANGED <<alertVars, fresh>>
        \/ \E type \in {"exception", "rejection"} : Report(type)
  BY <1>2 DEF UncaughtException, UnhandledRejection
<1>9. ASSUME NEW memory \in MemoryUse, CheckForBottlenecks(memory)
      PROVE  AlertsTyped' /\ AlertsKept
  <2>1. /\ Raised(memory) \in SUBSET AlertType /\ CreateAlerts(Raised(memory))
        /\ fresh' \in BOOLEAN
    BY <1>9, RaisedTypes DEF CheckForBottlenecks
  <2>. QED  BY <2>1, CreateKeeps
<1>10. \A memory \in MemoryUse : Check(memory) =>
         UNCHANGED <<alertVars, fresh>> \/ CheckForBottlenecks(memory)
  BY <1>2 DEF Check
<1>11. ASSUME \E c \in Sampled, took \in Duration, ok \in BOOLEAN : RecordTimed(c, took, ok)
       PROVE  AlertsTyped' /\ AlertsKept
  <2>1. UNCHANGED alertVars /\ fresh' = FALSE
    BY <1>11 DEF RecordTimed
  <2>2. alerts' = alerts /\ active' = active /\ reports' = reports
    BY <2>1 DEF alertVars
  <2>. QED  BY <2>1, <2>2 DEF AlertsTyped, AlertsKept
<1>12. CollectSystemMetrics \/ CleanupOldMetrics \/ HourPasses => UNCHANGED <<alertVars, fresh>>
  BY DEF CollectSystemMetrics, CleanupOldMetrics, HourPasses
<1>13. Monitor => AlertsTyped' /\ AlertsKept
  BY <1>1, <1>9, <1>10, <1>11, <1>12, ResolveKeeps DEF Monitor
<1>. QED  BY <1>1, <1>2, <1>3, <1>4, <1>5, <1>6, <1>7, <1>8, <1>13 DEF ServerNext

(* How the watch goes on: it was there before, unless the services are     *)
(* being initialised.                                                      *)
WatchStep ==
  \/ Watched /\ UNCHANGED <<recorded, hour, fresh>>
  \/ Watched /\ \E c \in Timed, took \in Nat, ok \in BOOLEAN : RecordTimed(c, took, ok)
  \/ Watched /\ \E memory \in MemoryUse : CheckForBottlenecks(memory)
  \/ Watched /\ fresh /\ HourPasses
  \/ recorded["request"] = <<>> /\ UNCHANGED recorded

LEMMA WatchStepOf ==
  ASSUME SInv, ServerNext, Watched'
  PROVE  WatchStep
<1>1. /\ entry' = "server" /\ phase' # "exited" /\ "alerts" \in timers' /\ ~dropped'
      /\ Len(recorded'["request"]) * ErrorPercent < 100
  BY DEF Watched, Alive
<1>2. ASSUME entry = "server", phase # "exited", "alerts" \in timers, ~dropped,
             UNCHANGED <<recorded, hour, fresh>>
      PROVE  WatchStep
  <2>1. Watched
    BY <1>1, <1>2 DEF Watched, Alive
  <2>. QED  BY <1>2, <2>1 DEF WatchStep
<1>3. UNCHANGED monitoringVars => UNCHANGED <<recorded, dropped, hour, fresh>>
  BY DEF monitoringVars, metricVars
<1>4. CASE Startup
  <2>1. CASE InitializeServices
    <3>1. phase \in StartPhase /\ recorded' = recorded /\ "request" \in Timed
      BY <2>1 DEF InitializeServices, Starting, StartPhase, monitoringVars, metricVars, Timed
    <3>. QED  BY <3>1 DEF SInv, ProcInv, StartInv, WatchStep
  <2>2. CASE ConnectDatabase \/ ConnectRedis
    <3>1. entry' = entry /\ timers' = timers /\ phase # "exited"
      BY <2>2 DEF ConnectDatabase, ConnectRedis, Starting
    <3>2. UNCHANGED <<recorded, dropped, hour, fresh>>
      BY <1>3, <2>2 DEF ConnectDatabase, ConnectRedis
    <3>. QED  BY <1>1, <1>2, <3>1, <3>2
  <2>3. CASE Listen
    <3>1. entry' = entry /\ timers' = timers /\ phase # "exited"
      BY <2>3 DEF Listen, Starting
    <3>2. entry = "server" /\ RecordMetric /\ UNCHANGED <<hour, fresh>>
      BY <1>1, <2>3, <3>1 DEF Listen
    <3>3. recorded' = recorded /\ ~dropped
      BY <1>1, <3>2 DEF RecordMetric, Store
    <3>. QED  BY <1>1, <1>2, <3>1, <3>2, <3>3
  <2>4. ~StartFails
    BY <1>1 DEF StartFails, Exit
  <2>. QED  BY <1>4, <2>1, <2>2, <2>3, <2>4 DEF Startup
<1>5. CASE \E c \in Connection : Request(c) \/ Serve(c) \/ Abort(c) \/ IdleTimeout(c)
  <2>1. entry' = entry /\ timers' = timers /\ phase' = phase /\ UNCHANGED monitoringVars
    BY <1>5 DEF Request, Serve, Respond, Hang, Abort, IdleTimeout, Becomes
  <2>. QED  BY <1>1, <1>2, <1>3, <2>1
<1>6. CASE Signal
  <2>1. entry' = entry /\ timers' = timers /\ phase # "exited" /\ UNCHANGED monitoringVars
    BY <1>6 DEF Signal, Alive
  <2>. QED  BY <1>1, <1>2, <1>3, <2>1
<1>7. CASE \E i \in DOMAIN closings : Closing(i)
  <2>1. phase # "exited" /\ UNCHANGED monitoringVars
    BY <1>7 DEF Closing, Alive, CallbackIndex, CallbackServer, QuitRedis, Destroy, Finish,
         CloseFails
  <2>2. entry' = entry /\ timers' \subseteq timers
    BY <1>7 DEF Closing, CallbackIndex, CallbackServer, QuitRedis, Destroy, Finish,
         CloseFails, Exit
  <2>. QED  BY <1>1, <1>2, <1>3, <2>1, <2>2
<1>8. ~ForcedExit /\ ~UncaughtException
  BY <1>1 DEF ForcedExit, UncaughtException, Exit
<1>9. CASE UnhandledRejection
  <2>1. UNCHANGED serverVars /\ Report("rejection")
    BY <1>1, <1>9 DEF UnhandledRejection, Exit
  <2>2. entry' = entry /\ timers' = timers /\ phase' = phase
    BY <2>1 DEF serverVars
  <2>3. UNCHANGED <<recorded, dropped, hour, fresh>>
    BY <2>1 DEF Report, metricVars
  <2>. QED  BY <1>1, <1>2, <2>2, <2>3
<1>10. CASE Monitor
  <2>1. ASSUME NEW memory \in MemoryUse, Check(memory)
        PROVE  UNCHANGED serverVars /\ CheckForBottlenecks(memory)
    BY <1>1, <2>1 DEF Check, Exit
  <2>2. UNCHANGED serverVars
    BY <1>10, <2>1 DEF Monitor
  <2>3. entry = "server" /\ phase # "exited" /\ "alerts" \in timers
    BY <1>1, <2>2 DEF serverVars
  <2>4. CASE \E c \in Sampled, took \in Duration, ok \in BOOLEAN : RecordTimed(c, took, ok)
    <3>1. PICK c \in Timed, took \in Nat, ok \in BOOLEAN : RecordTimed(c, took, ok)
      BY <2>4, SamplesAssumption
    <3>2. ~dropped
      BY <1>1, <3>1 DEF RecordTimed, Store
    <3>3. Len(recorded["request"]) * ErrorPercent < 100
      <4>. DEFINE m == Len(recorded["request"])
                  n == Len(recorded'["request"])
      <4>1. m \in Nat /\ n \in {m, m + 1}
        <5>1. "request" \in Timed /\ recorded \in [Timed -> Seq(Sample)]
              /\ recorded["request"] \in Seq(Sample)
          BY DEF SInv, MetricsInv, Timed
        <5>2. /\ m \in Nat
              /\ \A x : Len(Append(recorded["request"], x)) = m + 1
          BY <5>1, LenProperties
        <5>. QED  BY <3>1, <5>1, <5>2 DEF RecordTimed
      <4>2. n * ErrorPercent < 100 /\ ErrorPercent \in Nat
        BY <1>1, ThresholdsAssumption
      <4>. HIDE DEF m, n
      <4>3. m * ErrorPercent < 100
        <5>1. (m + 1) * ErrorPercent = m * ErrorPercent + ErrorPercent /\ m * ErrorPercent \in Nat
          BY <4>1, <4>2
        <5>. QED  BY <4>1, <4>2, <5>1
      <4>. QED  BY <4>3 DEF m
    <3>4. Watched
      BY <2>3, <3>2, <3>3 DEF Watched, Alive
    <3>. QED  BY <3>1, <3>4 DEF WatchStep
  <2>5. CASE \E i \in active : ResolveAlert(i)
    BY <1>1, <1>2, <2>3, <2>5 DEF ResolveAlert, metricVars
  <2>6. CASE CollectSystemMetrics
    BY <1>1, <1>2, <2>3, <2>6 DEF CollectSystemMetrics, Store
  <2>7. CASE CleanupOldMetrics
    BY <1>1, <1>2, <2>3, <2>7 DEF CleanupOldMetrics
  <2>8. CASE HourPasses /\ (Alive /\ "alerts" \in timers => fresh)
    <3>1. UNCHANGED <<recorded, dropped>> /\ fresh
      BY <2>3, <2>8 DEF HourPasses, metricVars, Alive
    <3>2. Watched
      BY <1>1, <2>3, <3>1 DEF Watched, Alive
    <3>. QED  BY <2>8, <3>1, <3>2 DEF WatchStep
  <2>9. CASE \E memory \in MemoryUse : Check(memory)
    <3>1. PICK memory \in MemoryUse : CheckForBottlenecks(memory)
      BY <2>1, <2>9
    <3>2. UNCHANGED <<recorded, dropped>>
      BY <3>1 DEF CheckForBottlenecks, metricVars
    <3>3. Watched
      BY <1>1, <2>3, <3>2 DEF Watched, Alive
    <3>. QED  BY <3>1, <3>3 DEF WatchStep
  <2>. QED  BY <1>10, <2>4, <2>5, <2>6, <2>7, <2>8, <2>9 DEF Monitor
<1>. QED  BY <1>4, <1>5, <1>6, <1>7, <1>8, <1>9, <1>10 DEF ServerNext

(* The watch finds what it should, whichever way it goes on.               *)
LEMMA WatchKeeps ==
  ASSUME SInv, ServerNext, Watched'
  PROVE  Alerted(recorded'["request"], alerts', hour', fresh')
<1>. DEFINE r == recorded["request"]
<1>1. /\ MetricsInv /\ AlertsTyped /\ AlertedInv /\ hour \in Nat /\ "request" \in Timed
      /\ r \in Seq(Sample) /\ InOrder(r, hour) /\ Len(r) \in Nat
  <2>1. MetricsInv /\ AlertsTyped /\ AlertedInv /\ hour \in Nat /\ "request" \in Timed
    BY DEF SInv, MetricsInv, Timed
  <2>2. r \in Seq(Sample) /\ InOrder(r, hour)
    BY <2>1 DEF MetricsInv
  <2>. QED  BY <2>1, <2>2, LenProperties
<1>2. DOMAIN r = 1 .. Len(r) /\ \A i \in DOMAIN r : r[i].at \in Nat /\ r[i].at <= hour
  BY <1>1, ListFacts DEF InOrder
<1>3. AlertsKept
  BY <1>1, AlertsNext
<1>4. ASSUME Watched, NEW i \in DOMAIN r, ~r[i].ok, r[i].at < hour \/ fresh
      PROVE  \E a \in alerts' : a.id[2] = "errors" /\ a.at = r[i].at
  <2>1. PICK a \in alerts : a.id[2] = "errors" /\ a.at = r[i].at
    BY <1>1, <1>4 DEF AlertedInv, Alerted
  <2>. QED  BY <1>3, <2>1 DEF AlertsKept
<1>5. WatchStep
  BY WatchStepOf
<1>6. CASE Watched /\ UNCHANGED <<recorded, hour, fresh>>
  BY <1>4, <1>6 DEF Alerted
<1>7. CASE Watched /\ \E c \in Timed, took \in Nat, ok \in BOOLEAN : RecordTimed(c, took, ok)
  <2>1. PICK c \in Timed, took \in Nat, ok \in BOOLEAN : RecordTimed(c, took, ok)
    BY <1>7
  <2>. DEFINE x == [at |-> hour, took |-> took, ok |-> ok]
              q == recorded'["request"]
  <2>2. x \in Sample /\ x.at = hour /\ hour' = hour /\ fresh' = FALSE
    BY <1>1, <2>1 DEF RecordTimed, Sample
  <2>3. q = r \/ q = Append(r, x)
    <3>1. recorded' = [recorded EXCEPT ![c] = Append(@, x)] /\ recorded \in [Timed -> Seq(Sample)]
      BY <1>1, <2>1 DEF RecordTimed, MetricsInv
    <3>. HIDE DEF x
    <3>. QED  BY <1>1, <3>1
  <2>. HIDE DEF x, q, r
  <2>4. \A i \in DOMAIN q : (i \in DOMAIN r /\ q[i] = r[i]) \/ q[i] = x
    <3>1. CASE q = r
      BY <3>1
    <3>2. CASE q = Append(r, x)
      <4>1. /\ Append(r, x) \in Seq(Sample) /\ Len(Append(r, x)) = Len(r) + 1
            /\ \A i \in 1 .. Len(r) : Append(r, x)[i] = r[i]
            /\ Append(r, x)[Len(r) + 1] = x
        BY <1>1, <2>2, AppendProperties
      <4>2. DOMAIN q = 1 .. Len(r) + 1
        BY <3>2, <4>1, LenProperties
      <4>3. \A i \in 1 .. Len(r) + 1 : i \in 1 .. Len(r) \/ i = Len(r) + 1
        BY <1>1
      <4>. QED  BY <1>2, <3>2, <4>1, <4>2, <4>3
    <3>. QED  BY <2>3, <3>1, <3>2
  <2>5. ~ (x.at < hour)
    BY <1>1, <2>2
  <2>6. Alerted(q, alerts', hour', fresh')
    <3>. SUFFICES ASSUME NEW i \in DOMAIN q, ~q[i].ok, q[i].at < hour
                  PROVE  \E a \in alerts' : a.id[2] = "errors" /\ a.at = q[i].at
      BY <2>2 DEF Alerted
    <3>. QED  BY <1>4, <1>7, <2>4, <2>5
  <2>. QED  BY <2>6 DEF q
<1>8. CASE Watched /\ \E memory \in MemoryUse : CheckForBottlenecks(memory)
  <2>1. PICK memory \in MemoryUse : CheckForBottlenecks(memory)
    BY <1>8
  <2>2. recorded' = recorded /\ hour' = hour /\ fresh' = TRUE /\ CreateAlerts(Raised(memory))
    BY <2>1 DEF CheckForBottlenecks, metricVars
  <2>3. \A t \in Raised(memory) : \E a \in alerts' : a.id[2] = t /\ a.at = hour
    BY <1>1, <2>2, RaisedTypes, CreateKeeps
  <2>4. ASSUME NEW i \in DOMAIN r, ~r[i].ok
        PROVE  \E a \in alerts' : a.id[2] = "errors" /\ a.at = r[i].at
    <3>1. CASE r[i].at < hour
      BY <1>4, <1>8, <2>4, <3>1
    <3>2. CASE r[i].at = hour
      <4>1. ~dropped /\ Len(r) * ErrorPercent < 100
        BY <1>8 DEF Watched
      <4>2. "errors" \in Raised(memory)
        BY <1>1, <2>4, <3>2, <4>1, FailureRaises
      <4>. QED  BY <2>3, <3>2, <4>2
    <3>. QED  BY <1>1, <1>2, <3>1, <3>2
  <2>. QED  BY <2>2, <2>4 DEF Alerted
<1>9. CASE Watched /\ fresh /\ HourPasses
  <2>1. recorded' = recorded
    BY <1>9 DEF HourPasses, metricVars
  <2>. QED  BY <1>4, <1>9, <2>1 DEF Alerted
<1>10. CASE recorded["request"] = <<>> /\ UNCHANGED recorded
  <2>1. DOMAIN <<>> = {}
    OBVIOUS
  <2>. QED  BY <1>10, <2>1 DEF Alerted
<1>. QED  BY <1>5, <1>6, <1>7, <1>8, <1>9, <1>10 DEF WatchStep

-----------------------------------------------------------------------------
(* The theorems                                                            *)

LEMMA SInit ==
  ASSUME ServerInit
  PROVE  SInv
<1>1. MetricsInv
  BY MetricsInit DEF ServerInit
<1>2. /\ alerts = {} /\ active = {} /\ reports = 0 /\ fresh = TRUE /\ load \in Loads
      /\ \A c \in Timed : recorded[c] = <<>>
      /\ entry \in Entry /\ webcrypto \in Webcrypto
      /\ phase = "database" /\ database = "closed" /\ redis = 0 /\ timers = {}
      /\ conn = [c \in Connection |-> "none"] /\ requests = 0 /\ signals = 0
      /\ closings = <<>> /\ exit = None /\ cause = "none"
  BY DEF ServerInit, MonitoringInit
<1>3. AlertsTyped
  BY <1>2 DEF AlertsTyped
<1>4. /\ <<>> \in Seq(Step) /\ DOMAIN <<>> = {} /\ Len(<<>>) = 0
  BY EmptySeq
<1>5. load.requests \in Nat /\ load.signals \in Nat
  BY <1>2, LoadsAssumption DEF Load
<1>6. ProcessTyped
  BY <1>2, <1>4, <1>5 DEF ProcessTyped, Phase, Cause
<1>7. StartInv /\ PhaseInv /\ EntryInv
  BY <1>2 DEF StartInv, PhaseInv, EntryInv
<1>8. ShutdownInv /\ ClosingsInv /\ SignalsInv
  BY <1>2, <1>4 DEF ShutdownInv, ClosingsInv, SignalsInv, Handlers
<1>9. ExitInv /\ CleanExit /\ OneSignalEndsCleanly
  BY <1>2 DEF ExitInv, None, CleanExit, OneSignalEndsCleanly
<1>10. AlertedInv
  BY <1>2 DEF AlertedInv, Watched
<1>. QED  BY <1>1, <1>3, <1>6, <1>7, <1>8, <1>9, <1>10 DEF SInv, ProcInv

LEMMA SNext ==
  ASSUME SInv, [ServerNext]_allVars
  PROVE  SInv'
<1>1. CASE ServerNext
  <2>1. MetricsInv' /\ ProcInv'
    BY <1>1, ProcNext, MetricsStepOf, MetricsNext DEF SInv
  <2>2. AlertsTyped'
    BY <1>1, AlertsNext DEF SInv, MetricsInv
  <2>3. AlertedInv'
    BY <1>1, WatchKeeps DEF AlertedInv
  <2>. QED  BY <2>1, <2>2, <2>3 DEF SInv
<1>2. CASE UNCHANGED allVars
  <2>1. UNCHANGED <<metricVars, hour>> /\ UNCHANGED serverVars /\ UNCHANGED <<alertVars, fresh>>
        /\ load' = load
    BY <1>2 DEF allVars, monitoringVars
  <2>2. MetricsInv'
    BY <2>1, MetricsUnchanged DEF SInv
  <2>3. ProcInv'
    BY <2>1, ProcUnchanged DEF SInv, Undisturbed, metricVars
  <2>4. AlertsTyped'
    BY <2>1 DEF SInv, AlertsTyped, alertVars
  <2>5. AlertedInv'
    BY <2>1 DEF SInv, AlertedInv, Watched, Alive, serverVars, metricVars, alertVars
  <2>. QED  BY <2>2, <2>3, <2>4, <2>5 DEF SInv
<1>. QED  BY <1>1, <1>2

(* The inductive invariant holds.                                          *)
THEOREM ServerInvariant == ServerSpec => []SInv
<1>1. ServerInit => SInv
  BY SInit
<1>2. SInv /\ [ServerNext]_allVars => SInv'
  BY SNext
<1>. QED  BY <1>1, <1>2, PTL DEF ServerSpec

(* Every variable of the process and of its monitoring has its type.       *)
THEOREM ServerTyped == ServerSpec => []TypeOK
<1>1. SInv => TypeOK
  BY DEF SInv, MetricsInv, AlertsTyped, ProcInv, ProcessTyped, Lists, TypeOK
<1>. QED  BY <1>1, ServerInvariant, PTL

(* A handler has everything the entry point has connected, unless its      *)
(* client went away and a close of the server called back (index.ts and    *)
(* server.ts).                                                             *)
THEOREM RequestsHaveStores == ServerSpec => []ServedWhileConnected
<1>1. SInv => ServedWhileConnected
  <2>. SUFFICES ASSUME SInv, Alive, NEW c \in Connection,
                       conn[c] \in {"busy", "stuck", "aborted"}, ~Connected
                PROVE  /\ conn[c] = "aborted"
                       /\ \E i \in DOMAIN closings : closings[i] # "waiting"
    BY DEF ServedWhileConnected
  <2>1. phase \notin StartPhase
    BY DEF SInv, ProcInv, StartInv
  <2>2. Handlers
    BY <2>1 DEF SInv, ProcInv, ProcessTyped, Phase, StartPhase, Alive, Handlers
  <2>3. PICK i \in DOMAIN closings : closings[i] # "waiting"
    BY <2>2 DEF SInv, ProcInv, ShutdownInv
  <2>4. Drained
    BY <2>3 DEF SInv, ProcInv, ShutdownInv
  <2>. QED  BY <2>3, <2>4 DEF Drained
<1>. QED  BY <1>1, ServerInvariant, PTL

(* Exit code 0 is deserved: connections served, stores closed, timers off. *)
THEOREM ZeroMeansClosed == ServerSpec => []CleanExit
<1>1. SInv => CleanExit
  BY DEF SInv, ProcInv
<1>. QED  BY <1>1, ServerInvariant, PTL

(* With one signal, exit code 1 has a cause other than the signal.         *)
THEOREM OneSignalSuffices == ServerSpec => []OneSignalEndsCleanly
<1>1. SInv => OneSignalEndsCleanly
  BY DEF SInv, ProcInv
<1>. QED  BY <1>1, ServerInvariant, PTL

(* The four lists together keep to the limit.                              *)
THEOREM MetricsKeepLimit == ServerSpec => []MetricsBounded
<1>1. SInv => MetricsBounded
  BY DEF SInv, MetricsInv, MetricsBounded
<1>. QED  BY <1>1, ServerInvariant, PTL

(* The lists are the most recent samples, and until the limit is reached   *)
(* the summary of the last hour is the summary of all that was recorded.   *)
THEOREM SummaryExact == ServerSpec => []SummaryIsExact
<1>1. SInv => SummaryIsExact
  <2>. SUFFICES ASSUME SInv PROVE SummaryIsExact
    OBVIOUS
  <2>1. ASSUME NEW c \in Timed PROVE IsSuffix(lists[c], recorded[c])
    BY EndsIsSuffix, TimedFacts DEF SInv, MetricsInv, Lists
  <2>2. ASSUME ~dropped, NEW c \in Timed
        PROVE  Summary(lists)[c] = Summary(recorded)[c]
    <3>1. Recent(lists[c]) = Recent(recorded[c])
      BY <2>2, RecentExact DEF SInv
    <3>. QED  BY <3>1 DEF Summary
  <2>. QED  BY <2>1, <2>2 DEF SummaryIsExact
<1>. QED  BY <1>1, ServerInvariant, PTL

(* While failures are watched for, none of a past hour is without alert.   *)
THEOREM FailuresFound == ServerSpec => []FailuresAreAlerted
<1>1. SInv => FailuresAreAlerted
  BY DEF SInv, AlertedInv, Watched, Alerted, FailuresAreAlerted
<1>. QED  BY <1>1, ServerInvariant, PTL
=============================================================================
