------------------------------- MODULE Server -------------------------------
(***************************************************************************)
(* The life of the API process: start, service, graceful shutdown and the  *)
(* ways it dies, for both entry points of the repository.  index.ts is     *)
(* what the Dockerfile and package.json start; server.ts also runs the     *)
(* monitoring of module Monitoring.                                        *)
(*                                                                         *)
(* Each await of the start-up and of the closing is a step.  Of Node the   *)
(* module has what the code leans on: server.close stops listening and     *)
(* calls back when the last connection is gone; a second close calls back  *)
(* at the same moment, with an error; a connection serves one request      *)
(* after the other and is closed when it idles for keepAliveTimeout.  A    *)
(* client may go while its request is worked on: then the connection is    *)
(* gone, for server.close too, and the handler of Express runs on.         *)
(***************************************************************************)
EXTENDS Monitoring

CONSTANTS
  Entry,        \* entry points: a subset of {"index", "server"}
  Connection,   \* of clients
  Webcrypto,    \* whether the runtime has a global crypto: not Node 18
  Troubles      \* a subset of TroubleKinds

TroubleKinds == {"connect", "close", "hang", "abort", "rejection", "exception"}

ASSUME EntryAssumption == Entry \subseteq {"index", "server"}
ASSUME TroublesAssumption ==
  Troubles \subseteq TroubleKinds /\ Webcrypto \subseteq BOOLEAN

VARIABLES
  entry,      \* which of the two runs
  webcrypto,  \* what its runtime has
  phase,      \* how far it is
  database,   \* AppDataSource
  redis,      \* how many of the two Redis connections are up
  timers,     \* the interval timers of the monitoring
  conn,       \* conn[c]: what the connection is doing, or without it its handler
  requests,   \* how many requests were received
  signals,    \* how many signals were
  closings,   \* shutdowns under way: where each of them is
  exit,       \* the exit code
  cause       \* what ended the process

serverVars == <<entry, webcrypto, phase, database, redis, timers, conn,
                requests, signals, closings, exit, cause>>
allVars == <<monitoringVars, serverVars>>

Phase == {"database", "redis", "services", "listen", "serving", "closing", "exited"}
Timer == {"metrics", "alerts", "cleanup"}
Step == {"waiting", "redis", "queue", "database", "done"}
Cause == {"none", "signal", "start", "shutdown", "error", "store", "forced", "uncaught"}
None == "none"

ServerInit ==
  /\ MonitoringInit
  /\ entry \in Entry /\ webcrypto \in Webcrypto
  /\ phase = "database" /\ database = "closed" /\ redis = 0
  /\ timers = {}
  /\ conn = [c \in Connection |-> "none"]
  /\ requests = 0 /\ signals = 0
  /\ closings = <<>>
  /\ exit = None /\ cause = "none"

Alive == phase # "exited"
Handlers == phase \in {"serving", "closing"}  \* process.on was called

(* process.exit: connections are cut, the operating system closes the rest.*)
Exit(code, why) ==
  /\ phase' = "exited" /\ exit' = code /\ cause' = why
  /\ UNCHANGED <<entry, webcrypto, database, redis, timers, conn, requests,
                 signals, closings>>

-----------------------------------------------------------------------------
(* Start                                                                   *)

Trouble(kind) == kind \in Troubles

Starting(p, next) == phase = p /\ phase' = next

(* initializeDatabase, AppDataSource.initialize.                           *)
ConnectDatabase ==
  /\ Starting("database", IF entry = "index" THEN "redis" ELSE "services")
  /\ database' = "open"
  /\ UNCHANGED <<monitoringVars, entry, webcrypto, redis, timers, conn, requests,
                 signals, closings, exit, cause>>

\* mutant of ConnectRedis: the second connection is not waited for
ConnectRedisOne ==
  /\ Starting("redis", "listen")
  /\ redis' = redis + 1
  /\ UNCHANGED <<monitoringVars, entry, webcrypto, database, timers, conn,
                 requests, signals, closings, exit, cause>>

(* initializeRedis: redis.connect, then queueRedis.connect.                *)
ConnectRedis ==
  /\ Starting("redis", IF redis = 0 THEN "redis" ELSE "listen")
  /\ redis' = redis + 1
  /\ UNCHANGED <<monitoringVars, entry, webcrypto, database, timers, conn,
                 requests, signals, closings, exit, cause>>

(* metricsService.initialize, alertService.initialize.                     *)
InitializeServices ==
  /\ Starting("services", "listen")
  /\ timers' = Timer
  /\ UNCHANGED <<monitoringVars, entry, webcrypto, database, redis, conn,
                 requests, signals, closings, exit, cause>>

(* createApp, app.listen, and the handlers of signals and errors.          *)
Listen ==
  /\ Starting("listen", "serving")
  /\ IF entry = "server"
     THEN RecordMetric /\ UNCHANGED <<alertVars, fresh, hour, load>>
     ELSE UNCHANGED monitoringVars
  /\ UNCHANGED <<entry, webcrypto, database, redis, timers, conn, requests,
                 signals, closings, exit, cause>>

StartFails ==
  /\ phase \in {"database", "redis"} /\ Trouble("connect")
  /\ Exit("1", "start")
  /\ UNCHANGED monitoringVars

-----------------------------------------------------------------------------
(* Service                                                                 *)

Becomes(c, s) ==
  /\ conn' = [conn EXCEPT ![c] = s]
  /\ UNCHANGED <<monitoringVars, entry, webcrypto, phase, database, redis, timers,
                 signals, closings, exit, cause>>

(* A new connection, while the server listens, or the next request on one  *)
(* that is open.                                                           *)
Request(c) ==
  /\ Handlers /\ requests < load.requests
  /\ \/ conn[c] = "none" /\ phase = "serving"
     \/ conn[c] = "idle"
  /\ Becomes(c, "busy")
  /\ requests' = requests + 1

(* The handler is over, and with it the request; the connection, if there  *)
(* still is one, waits for the next.                                       *)
Respond(c) ==
  /\ Handlers /\ conn[c] \in {"busy", "aborted"}
  /\ Becomes(c, IF conn[c] = "busy" THEN "idle" ELSE "gone")
  /\ UNCHANGED requests

(* A handler that never answers, as a lost gateway answer leaves one.      *)
Hang(c) ==
  /\ Handlers /\ conn[c] \in {"busy", "aborted"} /\ Trouble("hang")
  /\ Becomes(c, IF conn[c] = "busy" THEN "stuck" ELSE "gone")
  /\ UNCHANGED requests

(* The client closes its connection before the answer.  A handler at work  *)
(* goes on ("aborted"); of one that hangs nothing is left to do.           *)
Abort(c) ==
  /\ Handlers /\ conn[c] \in {"busy", "stuck"} /\ Trouble("abort")
  /\ Becomes(c, IF conn[c] = "busy" THEN "aborted" ELSE "gone")
  /\ UNCHANGED requests

(* The server closes the connection, or the client does.                   *)
IdleTimeout(c) ==
  /\ Handlers /\ conn[c] = "idle"
  /\ Becomes(c, "gone") /\ UNCHANGED requests

(* What server.close waits for: that no connection is left.                *)
Drained == \A c \in Connection : conn[c] \in {"none", "gone", "aborted"}

-----------------------------------------------------------------------------
(* Shutdown                                                                *)

(* A signal: server.close with a callback; before the handlers are set it  *)
(* kills the process.                                                      *)
Signal ==
  /\ Alive /\ signals < load.signals
  /\ signals' = signals + 1
  /\ IF Handlers
     THEN /\ phase' = "closing"
          /\ closings' = Append(closings, "waiting")
          /\ UNCHANGED <<exit, cause>>
     ELSE /\ phase' = "exited" /\ exit' = "killed" /\ cause' = "signal"
          /\ UNCHANGED closings
  /\ UNCHANGED <<monitoringVars, entry, webcrypto, database, redis, timers, conn,
                 requests>>

\* mutant of MayClose: the callback does not wait for the connections
MayCloseAtOnce(i) == closings[i] = "waiting"

(* When the callback of the i-th close is due: once all connections are    *)
(* gone, in the order of the signals.                                      *)
MayClose(i) ==
  /\ closings[i] = "waiting" /\ Drained
  /\ \A j \in 1 .. i - 1 : closings[j] # "waiting"

Closings(i, s) == closings' = [closings EXCEPT ![i] = s]

\* mutant of WithError: the condition is the wrong way round
WithoutError(i) == i = 1

(* The server was not running any more when it was closed.                 *)
WithError(i) == i > 1

(* index.ts: the callback of a close that failed gives up at once.         *)
CallbackIndex(i) ==
  /\ entry = "index" /\ MayClose(i)
  /\ IF WithError(i)
     THEN Exit("1", "error")
     ELSE /\ Closings(i, "redis")
          /\ UNCHANGED <<entry, webcrypto, phase, database, redis, timers, conn,
                         requests, signals, exit, cause>>
  /\ UNCHANGED monitoringVars

(* server.ts: every callback stops the timers and closes the database; the *)
(* hourly cleanup of the metrics is not among the timers it stops.         *)
CallbackServer(i) ==
  /\ entry = "server" /\ MayClose(i)
  /\ Closings(i, "database")
  /\ timers' = timers \ {"metrics", "alerts"}
  /\ UNCHANGED <<monitoringVars, entry, webcrypto, phase, database, redis, conn,
                 requests, signals, exit, cause>>

(* closeRedis: redis.quit, then queueRedis.quit.                           *)
QuitRedis(i) ==
  /\ closings[i] \in {"redis", "queue"}
  /\ redis' = redis - 1
  /\ Closings(i, IF closings[i] = "redis" THEN "queue" ELSE "database")
  /\ UNCHANGED <<monitoringVars, entry, webcrypto, phase, database, timers, conn,
                 requests, signals, exit, cause>>

(* An earlier signal has begun to close the database.                      *)
Second(i) == \E j \in 1 .. i - 1 : closings[j] \in {"database", "done"}

(* AppDataSource.destroy; of two at a time the second fails.               *)
Destroy(i) ==
  /\ closings[i] = "database" /\ ~Second(i)
  /\ database' = "closed" /\ Closings(i, "done")
  /\ UNCHANGED <<monitoringVars, entry, webcrypto, phase, redis, timers, conn,
                 requests, signals, exit, cause>>

Finish(i) ==
  /\ closings[i] = "done"
  /\ Exit("0", "shutdown")
  /\ UNCHANGED monitoringVars

CloseFails(i) ==
  /\ \/ /\ closings[i] \in {"redis", "queue", "database"} /\ Trouble("close")
        /\ Exit("1", "store")
     \/ closings[i] = "database" /\ Second(i) /\ Exit("1", "error")
  /\ UNCHANGED monitoringVars

\* mutant of MayForce: there is no timer
MayForceNever == FALSE

(* server.ts gives a shutdown 30 seconds.                                  *)
MayForce == entry = "server" /\ phase = "closing"

ForcedExit ==
  /\ MayForce
  /\ Exit("1", "forced")
  /\ UNCHANGED monitoringVars

-----------------------------------------------------------------------------
(* Errors nobody caught                                                    *)

(* createAlert, outside of a check.                                        *)
Report(type) ==
  /\ CreateAlerts({type})
  /\ UNCHANGED <<metricVars, fresh, hour, load>>

(* Without a handler Node exits with 1.  The handler of server.ts raises   *)
(* an alert first; without crypto that throws and Node exits with 7.       *)
UncaughtException ==
  /\ Alive /\ Trouble("exception")
  /\ IF entry = "server" /\ Handlers /\ webcrypto
     THEN Report("exception") /\ Exit("1", "uncaught")
     ELSE /\ Exit(IF entry = "server" /\ Handlers THEN "7" ELSE "1", "uncaught")
          /\ UNCHANGED monitoringVars

(* The handler of server.ts survives a rejection if it can raise an alert. *)
UnhandledRejection ==
  /\ Handlers /\ Trouble("rejection") /\ reports < load.reports
  /\ IF entry = "server" /\ webcrypto
     THEN Report("rejection") /\ UNCHANGED serverVars
     ELSE /\ Exit(IF entry = "server" THEN "7" ELSE "1", "uncaught")
          /\ UNCHANGED monitoringVars

-----------------------------------------------------------------------------
(* Monitoring in this process                                              *)

(* A check whose alert cannot be created ends in an unhandled rejection.   *)
Check(memory) ==
  /\ Alive /\ "alerts" \in timers
  /\ IF webcrypto \/ Raised(memory) = {}
     THEN CheckForBottlenecks(memory) /\ UNCHANGED serverVars
     ELSE /\ Exit(IF Handlers THEN "7" ELSE "1", "uncaught")
          /\ UNCHANGED monitoringVars

Monitor ==
  \/ /\ Handlers
     /\ \/ \E c \in Sampled, took \in Duration, ok \in BOOLEAN : RecordTimed(c, took, ok)
        \/ \E i \in active : ResolveAlert(i)
     /\ UNCHANGED serverVars
  \/ /\ Alive /\ "metrics" \in timers
     /\ CollectSystemMetrics /\ UNCHANGED serverVars
  \/ /\ Alive /\ "cleanup" \in timers
     /\ CleanupOldMetrics /\ UNCHANGED serverVars
  \/ /\ Alive /\ "alerts" \in timers => fresh
     /\ HourPasses /\ UNCHANGED serverVars
  \/ \E memory \in MemoryUse : Check(memory)

Startup ==
  ConnectDatabase \/ ConnectRedis \/ InitializeServices \/ Listen \/ StartFails

Serve(c) == Respond(c) \/ Hang(c)

Closing(i) ==
  Alive /\ (\/ CallbackIndex(i) \/ CallbackServer(i)
            \/ QuitRedis(i) \/ Destroy(i) \/ Finish(i) \/ CloseFails(i))

ServerNext ==
  \/ Startup
  \/ \E c \in Connection : Request(c) \/ Serve(c) \/ Abort(c) \/ IdleTimeout(c)
  \/ Signal
  \/ \E i \in DOMAIN closings : Closing(i)
  \/ ForcedExit
  \/ UncaughtException
  \/ UnhandledRejection
  \/ Monitor

(* Handlers run to their answer or hang, idle connections time out, what   *)
(* is awaited at shutdown comes back, and the timer of server.ts fires.    *)
ServerFairness ==
  /\ \A c \in Connection : WF_allVars(Serve(c)) /\ WF_allVars(IdleTimeout(c))
  /\ WF_allVars(\E i \in DOMAIN closings : Closing(i))
  /\ WF_allVars(ForcedExit)

ServerSpec == ServerInit /\ [][ServerNext]_allVars /\ ServerFairness

-----------------------------------------------------------------------------
(* Properties                                                              *)

(* Every variable of the process and of its monitoring has its type.       *)
TypeOK ==
  /\ lists \in [Category -> Seq(Sample)]
  /\ recorded \in [Timed -> Seq(Sample)] /\ dropped \in BOOLEAN
  /\ alerts \subseteq [id : AlertId, at : Nat, resolved : BOOLEAN]
  /\ active \subseteq AlertId
  /\ reports \in Nat /\ fresh \in BOOLEAN
  /\ hour \in Nat /\ load \in Loads
  /\ entry \in Entry /\ webcrypto \in Webcrypto
  /\ phase \in Phase /\ database \in {"open", "closed"} /\ redis \in 0 .. 2
  /\ timers \subseteq Timer
  /\ conn \in [Connection -> {"none", "busy", "stuck", "idle", "aborted", "gone"}]
  /\ requests \in 0 .. load.requests /\ signals \in 0 .. load.signals
  /\ closings \in Seq(Step)
  /\ exit \in {None, "0", "1", "7", "killed"} /\ cause \in Cause

Connected == database = "open" /\ (entry = "index" => redis = 2)

(* A handler has everything the entry point has connected: none starts     *)
(* before, and at shutdown the stores are closed under a handler only if   *)
(* its client has gone away, and only after server.close called back.      *)
ServedWhileConnected ==
  Alive =>
    \A c \in Connection :
      /\ conn[c] \in {"busy", "stuck"} => Connected
      /\ conn[c] = "aborted" /\ ~Connected =>
           \E i \in DOMAIN closings : closings[i] # "waiting"

(* Exit code 0 says that every connection was closed, that the stores were *)
(* closed, and that the timers of the monitoring were stopped.  It does    *)
(* not say that every handler came to its end.                             *)
CleanExit ==
  exit = "0" =>
    /\ Drained
    /\ database = "closed" /\ redis = 0
    /\ "metrics" \notin timers /\ "alerts" \notin timers

(* A single signal never ends in exit code 1 by itself: a store that fails *)
(* to close, something thrown or the 30 seconds of server.ts do that.      *)
OneSignalEndsCleanly ==
  exit = "1" /\ signals = 1 => cause \in {"store", "forced", "uncaught"}

(* However much is recorded, the four lists together keep to the limit.    *)
MetricsBounded == Total(lists) <= MaxMetrics

(* What the lists have of requests, queries and calls are always the most  *)
(* recent ones, in their order.  Until the limit is reached for the first  *)
(* time the summary of the last hour is the summary of everything recorded *)
(* in it, whatever was cleaned up; after that it may miss samples.         *)
SummaryIsExact ==
  /\ \A c \in Timed : IsSuffix(lists[c], recorded[c])
  /\ ~dropped => \A c \in Timed : Summary(lists)[c] = Summary(recorded)[c]

(* While server.ts runs and no sample was dropped, a failed request leads  *)
(* to an error-rate alert before the hour is over, as long as the requests *)
(* are so few that one failure exceeds the threshold.                      *)
FailuresAreAlerted ==
  entry = "server" /\ Alive /\ "alerts" \in timers /\ ~dropped
  /\ Len(recorded["request"]) * ErrorPercent < 100 =>
    \A i \in DOMAIN recorded["request"] :
      LET s == recorded["request"][i]
      IN  ~s.ok /\ s.at < hour =>
            \E a \in alerts : a.id[2] = "errors" /\ a.at = s.at

(* A signal ends the process if its clients stop asking: with server.ts in *)
(* any case, with index.ts unless a request hangs whose client waits on    *)
(* for ever.                                                               *)
SignalEndsProcess ==
  signals > 0 ~>
    \/ phase = "exited"
    \/ entry = "index" /\ [](\E c \in Connection : conn[c] = "stuck")
=============================================================================
