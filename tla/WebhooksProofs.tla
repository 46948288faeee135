--------------------------- MODULE WebhooksProofs ---------------------------
(***************************************************************************)
(* Machine-checked proofs about Webhooks, for every set of deliveries,     *)
(* processes and subjects, every kind of fault and every pair of limits    *)
(* with max_retries at least the attempts of Bull.                         *)
(***************************************************************************)
EXTENDS Webhooks, TLAPS

(* The handler of a delivery, its row and its job are where each other     *)
(* says they are.                                                          *)
IntakeAgrees ==
  \A d \in Delivery :
    /\ http[d] = "done" <=> reply[d] # None
    /\ http[d] \in {"idle", "finding", "saving"} => rows[d] = None
    /\ http[d] \in {"finding", "saving", "adding"} => notice[d] # None
    /\ http[d] = "adding" => rows[d] # None /\ job[d] = "none"
    /\ rows[d] # None => notice[d] # None /\ rows[d].event = EventOf(d)
    /\ job[d] # "none" => rows[d] # None /\ http[d] \in {"done", "lost"}
    /\ http[d] = "idle" => notice[d] = None

(* event_id is unique.                                                     *)
EventsUnique ==
  \A c, d \in Delivery :
    rows[c] # None /\ rows[d] # None /\ rows[c].event = rows[d].event => c = d

(* A process works on an active job, and on a job works one process.       *)
HostsAgree ==
  /\ \A h \in Host : /\ at[h] = "idle" <=> work[h] = None
                     /\ work[h] # None => job[work[h]] = "active"
  /\ \A g, h \in Host : work[g] # None /\ work[g] = work[h] => g = h

(* Before the catch block of a try has counted it.                         *)
Uncounted == Trying \union {"reading", "recording", "acking"}

(* The two counters: Bull has not given up a job that is not over, and the *)
(* row is ahead by one at most, and only after its try has counted itself. *)
CountersAgree ==
  /\ \A d \in Delivery :
       /\ job[d] \in {"waiting", "delayed", "active"} =>
            attempts[d] < MaxAttempts /\ stalls[d] <= 1
       /\ job[d] = "none" =>
            /\ attempts[d] = 0 /\ stalls[d] = 0
            /\ rows[d] # None => rows[d].retries = 0
       /\ job[d] = "active" => rows[d].retries <= attempts[d] + stalls[d] + 1
  /\ \A h \in Host : work[h] # None =>
       /\ at[h] \in Uncounted =>
            rows[work[h]].retries <= attempts[work[h]] + stalls[work[h]]
       /\ at[h] = "recording" => seen[h] = rows[work[h]].retries

(* A dead letter was written by the last try, which has only to throw.     *)
LettersAgree ==
  /\ \A d \in Delivery : job[d] = "none" => dead[d] = 0
  /\ \A h \in Host : work[h] # None =>
       /\ dead[work[h]] > 0 /\ stalls[work[h]] = 0 => at[h] = "throwing"
       /\ at[h] = "burying" =>
            rows[work[h]].status = "failed" /\ rows[work[h]].retries >= MaxRetries

(* What is about to be completed was dealt with.                           *)
EffectsAgree ==
  \A h \in Host :
    work[h] # None /\ at[h] \in {"finishing", "acking"} =>
      effect[work[h]] # "none"

WInv ==
  /\ TypeOK /\ IntakeAgrees /\ EventsUnique /\ HostsAgree
  /\ CountersAgree /\ LettersAgree /\ EffectsAgree
  /\ ProcessedMeansHandled /\ RowAgreesWithBull

LEMMA InitWebhooks == Init => WInv
<1> SUFFICES ASSUME Init PROVE WInv
  OBVIOUS
<1>1. TypeOK
  <2>1. MaxAttempts \in Nat
    BY LimitAssumption
  <2>2. /\ job \in [Delivery -> JobState] /\ attempts \in [Delivery -> 0..MaxAttempts]
        /\ stalls \in [Delivery -> 0..2] /\ dead \in [Delivery -> Nat]
        /\ work \in [Host -> Delivery \union {None}] /\ at \in [Host -> Stage]
        /\ seen \in [Host -> Nat] /\ subject \in [Subject -> Status]
        /\ found \in [Host -> Subject \union {None}]
    BY <2>1 DEF Init, JobState, Stage, Status
  <2>. QED  BY <2>2 DEF Init, TypeOK
<1>2. IntakeAgrees /\ EventsUnique /\ HostsAgree
  BY DEF Init, IntakeAgrees, EventsUnique, HostsAgree
<1>3. CountersAgree /\ LettersAgree /\ EffectsAgree
  BY DEF Init, CountersAgree, LettersAgree, EffectsAgree
<1>4. ProcessedMeansHandled /\ RowAgreesWithBull
  BY DEF Init, ProcessedMeansHandled, RowAgreesWithBull, RetriesWereAttempts,
         DeadLettersAreFinal, Queued
<1>. QED  BY <1>1, <1>2, <1>3, <1>4 DEF WInv

-----------------------------------------------------------------------------
(* What a process at work knows.                                           *)

LEMMA AtWork ==
  ASSUME WInv, NEW h \in Host, at[h] # "idle"
  PROVE  /\ work[h] \in Delivery /\ work[h] # None
         /\ rows[work[h]] \in Row /\ rows[work[h]] # None
         /\ notice[work[h]] \in Notice
         /\ job[work[h]] = "active"
         /\ attempts[work[h]] \in Nat /\ attempts[work[h]] < MaxAttempts
         /\ stalls[work[h]] \in {0, 1} /\ dead[work[h]] \in Nat
BY LimitAssumption
DEF WInv, TypeOK, HostsAgree, IntakeAgrees, CountersAgree, JobState

LEMMA EventType1 ==
  ASSUME WInv, NEW d \in Delivery, notice[d] # None
  PROVE  EventOf(d) \in EventId \union Delivery
BY NoticeAssumption DEF WInv, TypeOK, EventOf

LEMMA ProcessedType ==
  ASSUME NEW raw \in RawType, NEW status \in Status
  PROVE  Processed(mapAuthorizeNetEventType(raw), status) \in Status
<1>1. mapAuthorizeNetEventType(raw) \in EventType
  BY DEF RawType, mapAuthorizeNetEventType, EventType
<1>2. ASSUME NEW type \in EventType PROVE Processed(type, status) \in Status
  BY <1>2 DEF EventType, Processed, PaymentTypes, processPayment,
              processSubscription, Status, TxnStatus, SubStatus
<1>. QED  BY <1>1, <1>2

-----------------------------------------------------------------------------
(* Types.                                                                  *)

LEMMA TypeStep == WInv /\ [Next]_vars => TypeOK'
<1> SUFFICES ASSUME WInv, [Next]_vars PROVE TypeOK'
  OBVIOUS
<1> USE DEF JobState, Stage, Trying, Handling, queue, tables
<1>0. TypeOK
  BY DEF WInv
<1>1. ASSUME NEW d \in Delivery,
             Arrive(d) \/ Reject(d) \/ FindDuplicate(d) \/ IntakeFails(d)
      PROVE  TypeOK'
  BY <1>0, <1>1
     DEF TypeOK, Arrive, Reject, FindDuplicate, IntakeFails, Tell, hosts
<1>2. ASSUME NEW d \in Delivery, SaveEvent(d) PROVE TypeOK'
  <2>1. EventOf(d) \in EventId \union Delivery
    BY <1>2, EventType1 DEF SaveEvent, WInv, IntakeAgrees
  <2>2. [event |-> EventOf(d), status |-> "pending", retries |-> 0] \in Row
    BY <2>1 DEF Row
  <2>. QED  BY <1>0, <1>2, <2>2 DEF TypeOK, SaveEvent, hosts
<1>3. ASSUME NEW d \in Delivery, AddJob(d) \/ Promote(d) PROVE TypeOK'
  BY <1>0, <1>3 DEF TypeOK, AddJob, Promote, Tell, intake, hosts
<1>4. ASSUME NEW d \in Delivery, Recover(d) PROVE TypeOK'
  <2>1. stalls[d] \in 0..1
    BY <1>0, <1>4 DEF WInv, CountersAgree, Recover, TypeOK
  <2>. QED  BY <1>0, <1>4, <2>1 DEF TypeOK, Recover, intake, hosts
<1>5. ASSUME NEW h \in Host, NEW d \in Delivery, Take(h, d) PROVE TypeOK'
  BY <1>0, <1>5 DEF TypeOK, Take, intake
<1>6. ASSUME NEW h \in Host, Crash(h) \/ ShutdownWorker(h) PROVE TypeOK'
  <2>1. CASE Crash(h)
    <3>1. http' \in [Delivery -> Handling \union {"idle", "done", "lost"}]
      BY <1>0, <2>1 DEF TypeOK, Crash
    <3>. QED  BY <1>0, <2>1, <3>1 DEF TypeOK, Crash, Release
  <2>2. CASE ShutdownWorker(h)
    BY <1>0, <2>2 DEF TypeOK, ShutdownWorker, intake, hosts
  <2>. QED  BY <1>6, <2>1, <2>2
<1>7. ASSUME NEW r \in Subject, ApiWrites(r) PROVE TypeOK'
  <2>1. ids' \in [Subject -> GatewayId \union {None}]
    BY <1>0, <1>7 DEF TypeOK, ApiWrites, updateTransactionStatus,
                createSubscription, saveSubscription
  <2>2. /\ "active" \in Status
        /\ Stored \intersect TxnStatus \subseteq Status
        /\ Stored \intersect SubStatus \subseteq Status
    BY DEF Status, TxnStatus, SubStatus
  <2>3. subject' \in [Subject -> Status]
    BY <1>0, <1>7, <2>2 DEF TypeOK, ApiWrites, updateTransactionStatus,
                createSubscription, saveSubscription
  <2>. QED  BY <1>0, <1>7, <2>1, <2>3 DEF TypeOK, ApiWrites, intake, hosts
<1>8. ASSUME NEW h \in Host,
             MarkProcessing(h) \/ MarkProcessed(h) \/ RecordRetry(h)
      PROVE  TypeOK'
  <2>1. /\ work[h] \in Delivery /\ rows[work[h]] \in Row
    BY <1>8, AtWork DEF MarkProcessing, MarkProcessed, RecordRetry, Step
  <2>2. \A status \in {"pending", "processing", "processed", "failed", "retrying"},
           n \in Nat :
          /\ [rows[work[h]] EXCEPT !.status = status] \in Row
          /\ [rows[work[h]] EXCEPT !.status = status, !.retries = n] \in Row
    BY <2>1 DEF Row
  <2>3. seen[h] + 1 \in Nat
    BY <1>0 DEF TypeOK
  <2>4. ASSUME NEW status \in {"processing", "processed"},
               rows' = [rows EXCEPT ![work[h]].status = status],
               MarkProcessing(h) \/ MarkProcessed(h)
        PROVE  TypeOK'
    <3> DEFINE new == [rows[work[h]] EXCEPT !.status = status]
    <3>1. new \in Row
      BY <2>2
    <3>2. rows' = [rows EXCEPT ![work[h]] = new]
      BY <2>4
    <3> HIDE DEF new
    <3>. QED  BY <1>0, <2>1, <2>4, <3>1, <3>2
              DEF TypeOK, MarkProcessing, MarkProcessed, Step, intake
  <2>5. CASE RecordRetry(h)
    <3> DEFINE n == seen[h] + 1
               new == [rows[work[h]] EXCEPT
                         !.status = IF MaxReached(n) THEN "failed" ELSE "retrying",
                         !.retries = n]
    <3>1. new \in Row
      BY <2>2, <2>3
    <3>2. rows' = [rows EXCEPT ![work[h]] = new]
      BY <2>5 DEF RecordRetry
    <3> HIDE DEF new
    <3>. QED  BY <1>0, <2>1, <2>5, <3>1, <3>2
              DEF TypeOK, RecordRetry, Step, intake
  <2>. QED  BY <1>8, <2>4, <2>5 DEF MarkProcessing, MarkProcessed
<1>9. ASSUME NEW h \in Host, LoadEvent(h) \/ FindSubject(h) PROVE TypeOK'
  <2>1. CASE LoadEvent(h)
    BY <1>0, <2>1 DEF TypeOK, LoadEvent, Step, intake
  <2>2. CASE FindSubject(h)
    <3>1. Table(Type(work[h])) \subseteq Subject
      BY DEF Table, Subject
    <3>2. \/ UNCHANGED found
          \/ \E r \in Subject : found' = [found EXCEPT ![h] = r]
      BY <2>2, <3>1 DEF FindSubject
    <3>3. found' \in [Host -> Subject \union {None}]
      BY <1>0, <3>2 DEF TypeOK
    <3>4. /\ UNCHANGED <<intake, work, rows, queue, seen, tables>>
          /\ at' \in [Host -> Stage]
          /\ effect' \in [Delivery -> {"none", "applied", "nothing"}]
      BY <1>0, <2>2 DEF TypeOK, FindSubject, Step
    <3>. QED  BY <1>0, <3>3, <3>4 DEF TypeOK, intake
  <2>. QED  BY <1>9, <2>1, <2>2
<1>10. ASSUME NEW h \in Host, UpdateSubject(h) PROVE TypeOK'
  <2> DEFINE d == work[h]
             r == found[h]
  <2>1. d \in Delivery /\ notice[d].type \in RawType
    BY <1>10, AtWork, NoticeAssumption DEF UpdateSubject, Step
  <2>2. r \in Subject => Processed(Type(d), subject[r]) \in Status
    BY <1>0, <2>1, ProcessedType DEF TypeOK, Type
  <2>3. subject' \in [Subject -> Status]
    BY <1>0, <1>10, <2>2 DEF TypeOK, UpdateSubject
  <2>. QED  BY <1>0, <1>10, <2>3 DEF TypeOK, UpdateSubject, Step, intake
<1>11. ASSUME NEW h \in Host, TryFails(h) \/ ReadRetries(h) \/ CatchFails(h)
       PROVE  TypeOK'
  <2>1. work[h] \in Delivery /\ rows[work[h]] \in Row
    BY <1>11, AtWork DEF TryFails, ReadRetries, CatchFails, Step
  <2>2. rows[work[h]].retries \in Nat
    BY <2>1 DEF Row
  <2>. QED
    BY <1>0, <1>11, <2>2
    DEF TypeOK, TryFails, ReadRetries, CatchFails, Caught, Step, intake
<1>12. ASSUME NEW h \in Host, Bury(h) PROVE TypeOK'
  <2>1. dead' \in [Delivery -> Nat]
    BY <1>0, <1>12, AtWork DEF TypeOK, Bury, Step
  <2>. QED  BY <1>0, <1>12, <2>1 DEF TypeOK, Bury, Step, intake
<1>13. ASSUME NEW h \in Host, Throw(h) \/ Complete(h) PROVE TypeOK'
  <2>1. work[h] \in Delivery /\ attempts[work[h]] + 1 \in 0..MaxAttempts
    BY <1>13, AtWork, LimitAssumption DEF Throw, Complete
  <2>. QED  BY <1>0, <1>13, <2>1 DEF TypeOK, Throw, Complete, Release, intake
<1>14. CASE UNCHANGED vars
  BY <1>0, <1>14 DEF TypeOK, vars, intake, hosts
<1>. QED
  BY <1>1, <1>2, <1>3, <1>4, <1>5, <1>6, <1>7, <1>8, <1>9, <1>10, <1>11,
     <1>12, <1>13, <1>14
  DEF Next, Intake, Process

-----------------------------------------------------------------------------
(* What a step of a process leaves alone.                                  *)

LEMMA RowWritten ==
  ASSUME WInv, NEW h \in Host, at[h] # "idle", NEW new \in Row,
         new.event = rows[work[h]].event,
         rows' = [rows EXCEPT ![work[h]] = new]
  PROVE  /\ rows'[work[h]] = new /\ new # None
         /\ \A d \in Delivery \ {work[h]} : rows'[d] = rows[d]
BY AtWork, NoneAssumption DEF WInv, TypeOK

(* The three statements that write the row.                                *)
LEMMA RowAfter ==
  ASSUME WInv, NEW h \in Host, at[h] # "idle"
  PROVE  /\ MarkProcessing(h) => rows'[work[h]].status = "processing"
              /\ rows'[work[h]].retries = rows[work[h]].retries
         /\ MarkProcessed(h) => rows'[work[h]].status = "processed"
              /\ rows'[work[h]].retries = rows[work[h]].retries
         /\ RecordRetry(h) =>
              /\ rows'[work[h]].status =
                   IF MaxReached(seen[h] + 1) THEN "failed" ELSE "retrying"
              /\ rows'[work[h]].retries = seen[h] + 1
         /\ MarkProcessing(h) \/ MarkProcessed(h) \/ RecordRetry(h) =>
              /\ rows'[work[h]] \in Row /\ rows'[work[h]] # None
              /\ rows'[work[h]].event = rows[work[h]].event
              /\ \A d \in Delivery \ {work[h]} : rows'[d] = rows[d]
<1> DEFINE old == rows[work[h]]
<1>1. old \in Row /\ seen[h] + 1 \in Nat /\ old.retries \in Nat
  BY AtWork DEF WInv, TypeOK, Row
<1>2. ASSUME NEW status \in {"pending", "processing", "processed", "failed", "retrying"},
             rows' = [rows EXCEPT ![work[h]].status = status]
      PROVE  /\ rows'[work[h]].status = status
             /\ rows'[work[h]].retries = old.retries
             /\ rows'[work[h]] \in Row /\ rows'[work[h]] # None
             /\ rows'[work[h]].event = old.event
             /\ \A d \in Delivery \ {work[h]} : rows'[d] = rows[d]
  <2> DEFINE new == [old EXCEPT !.status = status]
  <2>1. /\ new \in Row /\ new.event = old.event
        /\ new.status = status /\ new.retries = old.retries
    BY <1>1 DEF Row
  <2>2. rows' = [rows EXCEPT ![work[h]] = new]
    BY <1>2
  <2> HIDE DEF new
  <2>. QED  BY <2>1, <2>2, RowWritten
<1>3. ASSUME RecordRetry(h)
      PROVE  /\ rows'[work[h]].status =
                  IF MaxReached(seen[h] + 1) THEN "failed" ELSE "retrying"
             /\ rows'[work[h]].retries = seen[h] + 1
             /\ rows'[work[h]] \in Row /\ rows'[work[h]] # None
             /\ rows'[work[h]].event = old.event
             /\ \A d \in Delivery \ {work[h]} : rows'[d] = rows[d]
  <2> DEFINE n == seen[h] + 1
             status == IF MaxReached(n) THEN "failed" ELSE "retrying"
             new == [old EXCEPT !.status = status, !.retries = n]
  <2>1. /\ new \in Row /\ new.event = old.event
        /\ new.status = status /\ new.retries = n
    BY <1>1 DEF Row
  <2>2. rows' = [rows EXCEPT ![work[h]] = new]
    BY <1>3 DEF RecordRetry
  <2> HIDE DEF new
  <2>. QED  BY <2>1, <2>2, RowWritten
<1>4. /\ MarkProcessing(h) => rows' = [rows EXCEPT ![work[h]].status = "processing"]
      /\ MarkProcessed(h) => rows' = [rows EXCEPT ![work[h]].status = "processed"]
  BY DEF MarkProcessing, MarkProcessed
<1> HIDE DEF old
<1>. QED  BY <1>2, <1>3, <1>4 DEF old

LEMMA ProcessFrame ==
  ASSUME WInv, NEW h \in Host, Process(h)
  PROVE  /\ at[h] # "idle"
         /\ UNCHANGED <<intake, http, notice, reply, stalls>>
         /\ \A d \in Delivery \ {work[h]} :
              /\ rows'[d] = rows[d] /\ job'[d] = job[d]
              /\ attempts'[d] = attempts[d] /\ dead'[d] = dead[d]
              /\ effect'[d] = effect[d]
         /\ \A g \in Host \ {h} :
              work'[g] = work[g] /\ at'[g] = at[g] /\ seen'[g] = seen[g]
         /\ rows'[work[h]] \in Row /\ rows'[work[h]] # None
         /\ rows'[work[h]].event = rows[work[h]].event
         /\ \/ /\ job'[work[h]] = "active" /\ work'[h] = work[h]
               /\ at'[h] # "idle"
            \/ /\ job'[work[h]] \in {"delayed", "failed", "completed"}
               /\ work'[h] = None /\ at'[h] = "idle"
         /\ effect[work[h]] # "none" => effect'[work[h]] # "none"
<1> USE DEF queue, intake
<1>1. ASSUME MarkProcessing(h) \/ MarkProcessed(h) \/ RecordRetry(h)
      PROVE  /\ at[h] # "idle"
             /\ UNCHANGED <<http, notice, reply, stalls, job, attempts, dead, effect, work>>
             /\ at' = [at EXCEPT ![h] = at'[h]] /\ at'[h] # "idle"
             /\ \A g \in Host \ {h} : at'[g] = at[g] /\ seen'[g] = seen[g]
  BY <1>1 DEF MarkProcessing, MarkProcessed, RecordRetry, Step, WInv, TypeOK
<1>2. CASE MarkProcessing(h) \/ MarkProcessed(h) \/ RecordRetry(h)
  BY <1>1, <1>2, RowAfter, AtWork
<1>3. CASE LoadEvent(h) \/ FindSubject(h) \/ UpdateSubject(h)
  <2>1. /\ at[h] # "idle" /\ at'[h] # "idle"
        /\ UNCHANGED <<http, notice, reply, stalls, rows, job, attempts, dead, work>>
        /\ \A g \in Host \ {h} : at'[g] = at[g] /\ seen'[g] = seen[g]
        /\ \A d \in Delivery \ {work[h]} : effect'[d] = effect[d]
        /\ effect[work[h]] # "none" => effect'[work[h]] # "none"
    BY <1>3 DEF LoadEvent, FindSubject, UpdateSubject, Step, WInv, TypeOK
  <2>. QED  BY <2>1, AtWork
<1>4. CASE TryFails(h) \/ ReadRetries(h) \/ CatchFails(h)
  <2>1. /\ at[h] # "idle" /\ at'[h] # "idle"
        /\ UNCHANGED <<http, notice, reply, stalls, rows, job, attempts, dead, work, effect>>
        /\ \A g \in Host \ {h} : at'[g] = at[g] /\ seen'[g] = seen[g]
    BY <1>4 DEF TryFails, ReadRetries, CatchFails, Caught, Trying, Step, WInv, TypeOK
  <2>. QED  BY <2>1, AtWork
<1>5. CASE Bury(h)
  <2>1. /\ at[h] # "idle" /\ at'[h] # "idle"
        /\ UNCHANGED <<http, notice, reply, stalls, rows, job, attempts, work, effect, seen>>
        /\ \A g \in Host \ {h} : at'[g] = at[g]
        /\ \A d \in Delivery \ {work[h]} : dead'[d] = dead[d]
    BY <1>5 DEF Bury, Step, WInv, TypeOK
  <2>. QED  BY <2>1, AtWork
<1>6. CASE Throw(h) \/ Complete(h)
  <2>1. at[h] # "idle"
    BY <1>6 DEF Throw, Complete
  <2>2. /\ UNCHANGED <<http, notice, reply, stalls, rows, dead, effect>>
        /\ work'[h] = None /\ at'[h] = "idle"
        /\ \A g \in Host \ {h} : /\ work'[g] = work[g] /\ at'[g] = at[g]
                                 /\ seen'[g] = seen[g]
        /\ \A d \in Delivery \ {work[h]} :
             job'[d] = job[d] /\ attempts'[d] = attempts[d]
        /\ job'[work[h]] \in {"delayed", "failed", "completed"}
    BY <1>6, <2>1, AtWork DEF Throw, Complete, Release, WInv, TypeOK
  <2>. QED  BY <2>1, <2>2, AtWork
<1>. QED  BY <1>2, <1>3, <1>4, <1>5, <1>6 DEF Process

-----------------------------------------------------------------------------
(* The intake.                                                             *)

LEMMA IntakeKept ==
  ASSUME WInv, UNCHANGED intake,
         \A d \in Delivery :
           /\ rows'[d] = None <=> rows[d] = None
           /\ rows[d] # None => rows'[d].event = rows[d].event
           /\ job'[d] = "none" <=> job[d] = "none"
  PROVE  IntakeAgrees' /\ EventsUnique'
<1>1. UNCHANGED <<http, notice, reply>>
  BY DEF intake
<1>2. IntakeAgrees'
  BY <1>1 DEF WInv, IntakeAgrees, EventOf
<1>3. EventsUnique'
  BY DEF WInv, EventsUnique
<1>. QED  BY <1>2, <1>3

(* The handler of one delivery moves on before it has queued a job.        *)
LEMMA IntakeMoved ==
  ASSUME WInv, NEW d \in Delivery, UNCHANGED <<rows, job>>,
         http[d] \in {"idle", "finding", "saving", "adding"},
         \A c \in Delivery \ {d} : /\ http'[c] = http[c] /\ reply'[c] = reply[c]
                                  /\ notice'[c] = notice[c],
         \/ /\ http'[d] = "done" /\ reply'[d] # None /\ notice'[d] = notice[d]
         \/ /\ http'[d] \in {"finding", "saving"} /\ reply'[d] = None
            /\ notice'[d] # None /\ rows[d] = None
  PROVE  IntakeAgrees'
<1>1. job[d] = "none"
  BY DEF WInv, IntakeAgrees
<1>. QED  BY <1>1 DEF WInv, IntakeAgrees, EventOf

LEMMA IntakeStep == WInv /\ [Next]_vars => IntakeAgrees' /\ EventsUnique'
<1> SUFFICES ASSUME WInv, [Next]_vars PROVE IntakeAgrees' /\ EventsUnique'
  OBVIOUS
<1>1. ASSUME NEW d \in Delivery,
             Arrive(d) \/ Reject(d) \/ FindDuplicate(d) \/ IntakeFails(d)
      PROVE  IntakeAgrees' /\ EventsUnique'
  <2>1. UNCHANGED <<rows, job>>
    BY <1>1 DEF Arrive, Reject, FindDuplicate, IntakeFails, queue
  <2>2. EventsUnique'
    BY <2>1 DEF WInv, EventsUnique
  <2>3. /\ http[d] \in {"idle", "finding", "saving", "adding"}
        /\ \A c \in Delivery \ {d} : /\ http'[c] = http[c] /\ reply'[c] = reply[c]
                                    /\ notice'[c] = notice[c]
    BY <1>1 DEF Arrive, Reject, FindDuplicate, IntakeFails, IntakeBreaks, Tell,
                WInv, TypeOK
  <2>4. ASSUME Arrive(d)
        PROVE  http'[d] = "finding" /\ notice'[d] # None /\ rows[d] = None
               /\ reply'[d] = None
    <3>1. PICK n \in Notice : notice' = [notice EXCEPT ![d] = n]
      BY <2>4 DEF Arrive
    <3>2. n # None
      BY DeliveryAssumption
    <3>. QED  BY <2>4, <3>1, <3>2 DEF Arrive, WInv, TypeOK, IntakeAgrees
  <2>5. ASSUME Reject(d) \/ FindDuplicate(d) \/ IntakeFails(d)
        PROVE  /\ notice'[d] = notice[d]
               /\ \/ http'[d] = "done" /\ reply'[d] # None
                  \/ /\ http'[d] = "saving" /\ reply'[d] = None
                     /\ notice[d] # None /\ rows[d] = None
    BY <2>5, NoneAssumption
       DEF Reject, FindDuplicate, IntakeFails, Tell, WInv, TypeOK, IntakeAgrees
  <2>. QED  BY <1>1, <2>1, <2>2, <2>3, <2>4, <2>5, IntakeMoved
<1>2. ASSUME NEW d \in Delivery, SaveEvent(d)
      PROVE  IntakeAgrees' /\ EventsUnique'
  <2> DEFINE new == [event |-> EventOf(d), status |-> "pending", retries |-> 0]
  <2>1. new \in Row /\ new # None /\ new.event = EventOf(d)
    BY <1>2, EventType1, NoneAssumption DEF SaveEvent, WInv, IntakeAgrees, Row
  <2>2. rows' = [rows EXCEPT ![d] = new]
    BY <1>2 DEF SaveEvent
  <2> HIDE DEF new
  <2>3. IntakeAgrees'
    BY <1>2, <2>1, <2>2
       DEF WInv, TypeOK, IntakeAgrees, EventOf, SaveEvent, queue
  <2>4. EventsUnique'
    BY <1>2, <2>1, <2>2
       DEF WInv, TypeOK, EventsUnique, SaveEvent, Insertable, Saved
  <2>. QED  BY <2>3, <2>4
<1>3. ASSUME NEW d \in Delivery, AddJob(d)
      PROVE  IntakeAgrees' /\ EventsUnique'
  BY <1>3, NoneAssumption
     DEF WInv, TypeOK, IntakeAgrees, EventsUnique, EventOf, AddJob, Tell
<1>4. ASSUME NEW d \in Delivery, Promote(d) \/ Recover(d)
      PROVE  IntakeAgrees' /\ EventsUnique'
  <2>1. /\ UNCHANGED <<intake, rows>>
        /\ \A c \in Delivery : job'[c] = "none" <=> job[c] = "none"
    BY <1>4 DEF Promote, Recover, WInv, TypeOK
  <2>. QED  BY <2>1, IntakeKept
<1>5. ASSUME NEW h \in Host, NEW d \in Delivery, Take(h, d)
      PROVE  IntakeAgrees' /\ EventsUnique'
  <2>1. /\ UNCHANGED <<intake, rows>>
        /\ \A c \in Delivery : job'[c] = "none" <=> job[c] = "none"
    BY <1>5 DEF Take, WInv, TypeOK
  <2>. QED  BY <2>1, IntakeKept
<1>6. ASSUME NEW h \in Host, Crash(h)
      PROVE  IntakeAgrees' /\ EventsUnique'
  <2>1. /\ UNCHANGED <<notice, reply, rows, job>>
        /\ \A d \in Delivery :
             \/ http'[d] = http[d]
             \/ http[d] \in {"finding", "saving", "adding"} /\ http'[d] = "lost"
    BY <1>6 DEF Crash, Handling, queue, WInv, TypeOK
  <2>. QED  BY <2>1 DEF WInv, IntakeAgrees, EventsUnique, EventOf
<1>7. ASSUME NEW h \in Host, Process(h)
      PROVE  IntakeAgrees' /\ EventsUnique'
  <2>1. /\ UNCHANGED intake
        /\ rows'[work[h]] # None /\ rows'[work[h]].event = rows[work[h]].event
        /\ job'[work[h]] # "none"
        /\ \A d \in Delivery \ {work[h]} : rows'[d] = rows[d] /\ job'[d] = job[d]
    BY <1>7, ProcessFrame
  <2>2. rows[work[h]] # None /\ job[work[h]] # "none"
    BY <1>7, ProcessFrame, AtWork
  <2>. QED  BY <2>1, <2>2, IntakeKept
<1>8. CASE UNCHANGED <<intake, rows, job>>
  BY <1>8, IntakeKept
<1>. QED
  BY <1>1, <1>2, <1>3, <1>4, <1>5, <1>6, <1>7, <1>8
  DEF Next, Intake, ShutdownWorker, ApiWrites, vars, queue

-----------------------------------------------------------------------------
(* The processes and their jobs.                                           *)

LEMMA HostsStep == WInv /\ [Next]_vars => HostsAgree'
<1> SUFFICES ASSUME WInv, [Next]_vars PROVE HostsAgree'
  OBVIOUS
<1> USE DEF WInv
<1>1. ASSUME NEW h \in Host, NEW d \in Delivery, Take(h, d)
      PROVE  HostsAgree'
  BY <1>1, DeliveryAssumption DEF TypeOK, HostsAgree, Take
<1>2. ASSUME NEW d \in Delivery, AddJob(d) \/ Promote(d) \/ Recover(d)
      PROVE  HostsAgree'
  <2>1. /\ UNCHANGED <<work, at>>
        /\ \A h \in Host : work[h] # d
        /\ \A c \in Delivery \ {d} : job'[c] = job[c]
    <3>1. /\ UNCHANGED <<work, at>> /\ d # None
          /\ \A c \in Delivery \ {d} : job'[c] = job[c]
          /\ job[d] \in {"none", "delayed"} \/ \A h \in Host : work[h] # d
      BY <1>2, DeliveryAssumption
         DEF AddJob, Promote, Recover, hosts, TypeOK, IntakeAgrees
    <3>. QED  BY <3>1 DEF HostsAgree
  <2>. QED  BY <2>1 DEF TypeOK, HostsAgree
<1>3. ASSUME NEW h \in Host, Crash(h) PROVE HostsAgree'
  BY <1>3 DEF TypeOK, HostsAgree, Crash, Release, queue
<1>4. ASSUME NEW h \in Host, Process(h) PROVE HostsAgree'
  <2>1. /\ at[h] # "idle" /\ work[h] \in Delivery /\ work[h] # None
        /\ \A d \in Delivery \ {work[h]} : job'[d] = job[d]
        /\ \A g \in Host \ {h} : work'[g] = work[g] /\ at'[g] = at[g]
        /\ \/ job'[work[h]] = "active" /\ work'[h] = work[h] /\ at'[h] # "idle"
           \/ work'[h] = None /\ at'[h] = "idle"
    BY <1>4, ProcessFrame, AtWork
  <2>. QED  BY <2>1 DEF TypeOK, HostsAgree
<1>5. CASE UNCHANGED <<work, at, job>>
  BY <1>5 DEF HostsAgree
<1>. QED
  BY <1>1, <1>2, <1>3, <1>4, <1>5
  DEF Next, Intake, Arrive, Reject, FindDuplicate, SaveEvent, IntakeFails,
      ShutdownWorker, ApiWrites, vars, queue, hosts

-----------------------------------------------------------------------------
(* The counters.                                                           *)

(* The job a process works on, after its step.                             *)
LEMMA CountAfter ==
  ASSUME WInv, NEW h \in Host, Process(h)
  PROVE  /\ job'[work[h]] \in {"delayed", "active"} =>
              attempts'[work[h]] < MaxAttempts
         /\ rows'[work[h]].retries <=
              attempts'[work[h]] + stalls[work[h]]
                + IF job'[work[h]] = "active" THEN 1 ELSE 0
         /\ job'[work[h]] = "active" =>
              /\ at'[h] \in Uncounted =>
                   rows'[work[h]].retries <= attempts'[work[h]] + stalls[work[h]]
              /\ at'[h] = "recording" => seen'[h] = rows'[work[h]].retries
<1> DEFINE d == work[h]
<1>1. /\ at[h] # "idle" /\ d \in Delivery /\ d # None
      /\ rows[d] \in Row /\ job[d] = "active"
      /\ attempts[d] \in Nat /\ attempts[d] < MaxAttempts
      /\ stalls[d] \in Nat /\ MaxAttempts \in Nat
  BY ProcessFrame, AtWork, LimitAssumption
<1>2. /\ rows[d].retries \in Nat
      /\ rows[d].retries <= attempts[d] + stalls[d] + 1
      /\ at[h] \in Uncounted => rows[d].retries <= attempts[d] + stalls[d]
      /\ at[h] = "recording" => seen[h] = rows[d].retries
  BY <1>1 DEF WInv, CountersAgree, Row
<1> HIDE DEF d
<1>3. CASE MarkProcessing(h) \/ MarkProcessed(h)
  <2>1. /\ rows'[d].retries = rows[d].retries /\ at[h] \in Uncounted
        /\ UNCHANGED <<job, attempts>> /\ at'[h] # "recording"
    BY <1>1, <1>3, RowAfter
       DEF d, MarkProcessing, MarkProcessed, Step, queue, Uncounted, Trying,
           WInv, TypeOK
  <2>. QED  BY <1>1, <1>2, <2>1 DEF d
<1>4. CASE LoadEvent(h) \/ FindSubject(h) \/ UpdateSubject(h)
  <2>1. /\ UNCHANGED <<rows, job, attempts>> /\ at[h] \in Uncounted
        /\ at'[h] # "recording"
    BY <1>4 DEF LoadEvent, FindSubject, UpdateSubject, Step, queue, Uncounted,
                Trying, WInv, TypeOK
  <2>. QED  BY <1>1, <1>2, <2>1 DEF d
<1>5. CASE TryFails(h) \/ ReadRetries(h)
  <2>1. /\ UNCHANGED <<rows, job, attempts>> /\ at[h] \in Uncounted
        /\ at'[h] = "recording" => seen'[h] = rows[d].retries
    BY <1>5 DEF d, TryFails, ReadRetries, Caught, Step, queue, Uncounted,
                Trying, WInv, TypeOK
  <2>. QED  BY <1>1, <1>2, <2>1 DEF d
<1>6. CASE RecordRetry(h)
  <2>1. /\ rows'[d].retries = seen[h] + 1 /\ at[h] = "recording"
        /\ UNCHANGED <<job, attempts>> /\ at'[h] \notin Uncounted
        /\ at'[h] # "recording"
    BY <1>1, <1>6, RowAfter
       DEF d, RecordRetry, Step, queue, Uncounted, Trying, WInv, TypeOK
  <2>2. rows'[d].retries <= attempts[d] + stalls[d] + 1
    BY <1>1, <1>2, <2>1 DEF Uncounted
  <2>. QED  BY <1>1, <2>1, <2>2 DEF d
<1>7. CASE Bury(h) \/ CatchFails(h)
  <2>1. /\ UNCHANGED <<rows, job, attempts>> /\ at'[h] = "throwing"
    BY <1>7 DEF Bury, CatchFails, Step, queue, WInv, TypeOK
  <2>2. "throwing" \notin Uncounted
    BY DEF Uncounted, Trying
  <2>. QED  BY <1>1, <1>2, <2>1, <2>2 DEF d
<1>8. CASE Throw(h)
  <2>1. /\ attempts'[d] = attempts[d] + 1 /\ rows' = rows
        /\ job'[d] = IF LastAttempt(d) THEN "failed" ELSE "delayed"
    BY <1>1, <1>8 DEF d, Throw, WInv, TypeOK
  <2>. QED  BY <1>1, <1>2, <2>1 DEF d, LastAttempt
<1>9. CASE Complete(h)
  <2>1. /\ UNCHANGED <<rows, attempts>> /\ job'[d] = "completed"
        /\ at[h] \in Uncounted
    BY <1>1, <1>9 DEF d, Complete, Uncounted, WInv, TypeOK
  <2>. QED  BY <1>1, <1>2, <2>1 DEF d
<1>. QED
  BY <1>3, <1>4, <1>5, <1>6, <1>7, <1>8, <1>9 DEF Process

LEMMA CountersStep ==
  WInv /\ [Next]_vars => CountersAgree' /\ RetriesWereAttempts'
<1> SUFFICES ASSUME WInv, [Next]_vars
             PROVE  CountersAgree' /\ RetriesWereAttempts'
  OBVIOUS
<1>0. /\ \A d \in Delivery : /\ attempts[d] \in Nat /\ stalls[d] \in Nat
                             /\ rows[d] # None => rows[d].retries \in Nat
      /\ MaxAttempts \in Nat \ {0}
      /\ CountersAgree /\ RetriesWereAttempts
  BY LimitAssumption DEF WInv, TypeOK, Row, RowAgreesWithBull
<1>1. ASSUME NEW d \in Delivery, SaveEvent(d)
      PROVE  CountersAgree' /\ RetriesWereAttempts'
  <2>1. /\ rows[d] = None /\ job[d] = "none" /\ rows'[d].retries = 0
        /\ \A c \in Delivery \ {d} : rows'[c] = rows[c]
        /\ \A h \in Host : work[h] # None => work[h] # d /\ work[h] \in Delivery
    <3> DEFINE new == [event |-> EventOf(d), status |-> "pending", retries |-> 0]
    <3>1. new.retries = 0 /\ rows' = [rows EXCEPT ![d] = new]
      BY <1>1 DEF SaveEvent
    <3> HIDE DEF new
    <3>2. rows'[d].retries = 0 /\ \A c \in Delivery \ {d} : rows'[c] = rows[c]
      BY <3>1 DEF WInv, TypeOK
    <3>3. rows[d] = None /\ job[d] = "none"
      BY <1>1 DEF SaveEvent, WInv, TypeOK, IntakeAgrees
    <3>4. \A h \in Host : work[h] # None => work[h] # d /\ work[h] \in Delivery
      BY <3>3 DEF WInv, TypeOK, HostsAgree
    <3>. QED  BY <3>2, <3>3, <3>4
  <2>2. UNCHANGED <<job, attempts, stalls, work, at, seen>>
    BY <1>1 DEF SaveEvent, queue, hosts
  <2>. QED  BY <1>0, <2>1, <2>2 DEF CountersAgree, RetriesWereAttempts, Queued
<1>2. ASSUME NEW d \in Delivery, AddJob(d)
      PROVE  CountersAgree' /\ RetriesWereAttempts'
  <2>1. /\ job[d] = "none" /\ rows[d] # None /\ job'[d] = "waiting"
        /\ \A c \in Delivery \ {d} : job'[c] = job[c]
    BY <1>2 DEF AddJob, WInv, TypeOK, IntakeAgrees
  <2>2. UNCHANGED <<rows, attempts, stalls, work, at, seen>>
    BY <1>2 DEF AddJob, hosts
  <2>. QED  BY <1>0, <2>1, <2>2 DEF CountersAgree, RetriesWereAttempts, Queued
<1>3. ASSUME NEW d \in Delivery, Promote(d)
      PROVE  CountersAgree' /\ RetriesWereAttempts'
  <2>1. /\ job[d] = "delayed" /\ job'[d] = "waiting"
        /\ \A c \in Delivery \ {d} : job'[c] = job[c]
    BY <1>3 DEF Promote, WInv, TypeOK
  <2>2. UNCHANGED <<rows, attempts, stalls, work, at, seen>>
    BY <1>3 DEF Promote, hosts
  <2>. QED  BY <1>0, <2>1, <2>2 DEF CountersAgree, RetriesWereAttempts, Queued
<1>4. ASSUME NEW d \in Delivery, Recover(d)
      PROVE  CountersAgree' /\ RetriesWereAttempts'
  <2>1. /\ job[d] = "active" /\ stalls'[d] = stalls[d] + 1
        /\ job'[d] = IF stalls[d] = 0 THEN "waiting" ELSE "failed"
        /\ \A c \in Delivery \ {d} : job'[c] = job[c] /\ stalls'[c] = stalls[c]
        /\ \A h \in Host : work[h] # d
        /\ \A h \in Host : work[h] # None => work[h] \in Delivery
    BY <1>4 DEF Recover, WInv, TypeOK
  <2>2. UNCHANGED <<rows, attempts, work, at, seen>>
    BY <1>4 DEF Recover, hosts
  <2>3. rows[d].retries \in Nat
    BY <1>0, <2>1 DEF WInv, IntakeAgrees
  <2>. QED
    BY <1>0, <2>1, <2>2, <2>3 DEF CountersAgree, RetriesWereAttempts, Queued
<1>5. ASSUME NEW h \in Host, NEW d \in Delivery, Take(h, d)
      PROVE  CountersAgree' /\ RetriesWereAttempts'
  <2>1. /\ job[d] = "waiting" /\ job'[d] = "active"
        /\ \A c \in Delivery \ {d} : job'[c] = job[c]
        /\ work'[h] = d /\ at'[h] = "marking"
        /\ \A g \in Host \ {h} : work'[g] = work[g] /\ at'[g] = at[g]
    BY <1>5 DEF Take, WInv, TypeOK
  <2>2. UNCHANGED <<rows, attempts, stalls, seen>>
    BY <1>5 DEF Take
  <2>3. /\ rows[d].retries \in Nat
        /\ rows[d].retries <= attempts[d] + stalls[d]
    BY <1>0, <2>1 DEF WInv, IntakeAgrees, RetriesWereAttempts, Queued
  <2>. QED
    BY <1>0, <2>1, <2>2, <2>3 DEF CountersAgree, RetriesWereAttempts, Queued
<1>6. ASSUME NEW h \in Host, Crash(h)
      PROVE  CountersAgree' /\ RetriesWereAttempts'
  <2>1. /\ UNCHANGED <<rows, job, attempts, stalls>> /\ work'[h] = None
        /\ \A g \in Host \ {h} : /\ work'[g] = work[g] /\ at'[g] = at[g]
                                 /\ seen'[g] = seen[g]
    BY <1>6 DEF Crash, Release, queue, WInv, TypeOK
  <2>. QED  BY <1>0, <2>1 DEF CountersAgree, RetriesWereAttempts, Queued
<1>7. ASSUME NEW h \in Host, Process(h)
      PROVE  CountersAgree' /\ RetriesWereAttempts'
  <2> DEFINE d == work[h]
  <2>1. /\ d \in Delivery /\ d # None /\ job[d] = "active" /\ rows[d] # None
        /\ \A g \in Host \ {h} : work[g] # None => work[g] \in Delivery \ {d}
    BY <1>7, ProcessFrame, AtWork DEF WInv, TypeOK, HostsAgree
  <2>2. /\ UNCHANGED stalls
        /\ \A c \in Delivery \ {d} : /\ rows'[c] = rows[c] /\ job'[c] = job[c]
                                     /\ attempts'[c] = attempts[c]
        /\ \A g \in Host \ {h} : /\ work'[g] = work[g] /\ at'[g] = at[g]
                                 /\ seen'[g] = seen[g]
        /\ \/ job'[d] = "active" /\ work'[h] = d
           \/ job'[d] \in {"delayed", "failed", "completed"} /\ work'[h] = None
    BY <1>7, ProcessFrame
  <2>3. /\ job'[d] \in {"delayed", "active"} => attempts'[d] < MaxAttempts
        /\ rows'[d].retries <= attempts'[d] + stalls[d]
             + IF job'[d] = "active" THEN 1 ELSE 0
        /\ job'[d] = "active" =>
             /\ at'[h] \in Uncounted =>
                  rows'[d].retries <= attempts'[d] + stalls[d]
             /\ at'[h] = "recording" => seen'[h] = rows'[d].retries
    BY <1>7, CountAfter
  <2>4. /\ rows'[d].retries \in Nat /\ attempts'[d] \in Nat
        /\ stalls[d] \in Nat /\ stalls[d] <= 1
    BY <1>0, <1>7, <2>1, TypeStep, ProcessFrame DEF TypeOK, Row, CountersAgree
  <2> HIDE DEF d
  <2>5. CountersAgree'
    BY <1>0, <2>1, <2>2, <2>3, <2>4 DEF CountersAgree
  <2>6. RetriesWereAttempts'
    BY <1>0, <2>1, <2>2, <2>3, <2>4 DEF RetriesWereAttempts, Queued
  <2>. QED  BY <2>5, <2>6
<1>8. CASE UNCHANGED <<rows, job, attempts, stalls, work, at, seen>>
  BY <1>0, <1>8 DEF CountersAgree, RetriesWereAttempts, Queued
<1>. QED
  BY <1>1, <1>2, <1>3, <1>4, <1>5, <1>6, <1>7, <1>8
  DEF Next, Intake, Arrive, Reject, FindDuplicate, IntakeFails,
      ShutdownWorker, ApiWrites, vars, queue, hosts

-----------------------------------------------------------------------------
(* The dead letters.                                                       *)

LEMMA LetterAfter ==
  ASSUME WInv, NEW h \in Host, Process(h)
  PROVE  /\ dead'[work[h]] > 0 /\ stalls[work[h]] = 0 =>
              /\ dead'[work[h]] = 1
              /\ rows'[work[h]].status = "failed"
              /\ rows'[work[h]].retries = MaxRetries
              /\ \/ job'[work[h]] = "active" /\ at'[h] = "throwing"
                 \/ job'[work[h]] = "failed"
         /\ job'[work[h]] = "active" /\ at'[h] = "burying" =>
              rows'[work[h]].status = "failed" /\ rows'[work[h]].retries >= MaxRetries
<1> DEFINE d == work[h]
<1>1. /\ at[h] # "idle" /\ d \in Delivery /\ d # None
      /\ rows[d] \in Row /\ rows[d] # None /\ job[d] = "active"
      /\ attempts[d] \in Nat /\ attempts[d] < MaxAttempts
      /\ stalls[d] \in Nat /\ dead[d] \in Nat
      /\ MaxAttempts \in Nat /\ MaxRetries \in Nat /\ MaxRetries >= MaxAttempts
  BY ProcessFrame, AtWork, LimitAssumption
<1>2. /\ rows[d].retries \in Nat
      /\ rows[d].retries <= attempts[d] + stalls[d] + 1
      /\ dead[d] > 0 /\ stalls[d] = 0 =>
           /\ dead[d] = 1 /\ at[h] = "throwing"
           /\ rows[d].status = "failed" /\ rows[d].retries = MaxRetries
      /\ at[h] = "burying" =>
           rows[d].status = "failed" /\ rows[d].retries >= MaxRetries
  BY <1>1 DEF WInv, CountersAgree, LettersAgree, RowAgreesWithBull,
              DeadLettersAreFinal, Row
<1> HIDE DEF d
<1>3. CASE MarkProcessing(h) \/ LoadEvent(h) \/ FindSubject(h)
           \/ UpdateSubject(h) \/ MarkProcessed(h) \/ TryFails(h)
           \/ ReadRetries(h) \/ Complete(h)
  <2>1. /\ dead' = dead /\ at[h] # "throwing" /\ at'[h] # "burying"
    BY <1>3
       DEF MarkProcessing, LoadEvent, FindSubject, UpdateSubject, MarkProcessed,
           TryFails, ReadRetries, Complete, Release, Caught, Trying, Step,
           queue, WInv, TypeOK
  <2>. QED  BY <1>1, <1>2, <2>1 DEF d
<1>4. CASE RecordRetry(h)
  <2>1. /\ dead' = dead /\ at[h] # "throwing" /\ seen[h] \in Nat
        /\ at'[h] = "burying" <=> MaxReached(seen[h] + 1)
        /\ rows'[d].status = IF MaxReached(seen[h] + 1) THEN "failed" ELSE "retrying"
        /\ rows'[d].retries = seen[h] + 1
    BY <1>1, <1>4, RowAfter DEF d, RecordRetry, Step, queue, WInv, TypeOK
  <2>. QED  BY <1>1, <1>2, <2>1 DEF d, MaxReached
<1>5. CASE Bury(h)
  <2>1. /\ dead'[d] = dead[d] + 1 /\ at[h] = "burying" /\ at'[h] = "throwing"
        /\ UNCHANGED <<rows, job>>
    BY <1>1, <1>5 DEF d, Bury, Step, WInv, TypeOK
  <2>. QED  BY <1>1, <1>2, <2>1 DEF d
<1>6. CASE CatchFails(h)
  <2>1. /\ at[h] # "throwing" /\ at'[h] = "throwing"
        /\ UNCHANGED <<rows, job, dead>>
    BY <1>6 DEF CatchFails, Step, queue, WInv, TypeOK
  <2>. QED  BY <1>1, <1>2, <2>1 DEF d
<1>7. CASE Throw(h)
  <2>1. /\ UNCHANGED <<rows, dead>>
        /\ job'[d] = IF LastAttempt(d) THEN "failed" ELSE "delayed"
    BY <1>1, <1>7 DEF d, Throw, WInv, TypeOK
  <2>2. dead[d] > 0 /\ stalls[d] = 0 => LastAttempt(d)
    BY <1>1, <1>2 DEF LastAttempt
  <2>. QED  BY <1>1, <1>2, <2>1, <2>2 DEF d
<1>. QED
  BY <1>3, <1>4, <1>5, <1>6, <1>7 DEF Process

LEMMA LettersStep ==
  WInv /\ [Next]_vars => LettersAgree' /\ DeadLettersAreFinal'
<1> SUFFICES ASSUME WInv, [Next]_vars
             PROVE  LettersAgree' /\ DeadLettersAreFinal'
  OBVIOUS
<1>0. LettersAgree /\ DeadLettersAreFinal
  BY DEF WInv, RowAgreesWithBull
<1>1. ASSUME NEW d \in Delivery, SaveEvent(d)
      PROVE  LettersAgree' /\ DeadLettersAreFinal'
  <2>1. /\ job[d] = "none" /\ dead[d] = 0
        /\ \A c \in Delivery \ {d} : rows'[c] = rows[c]
        /\ \A h \in Host : work[h] # None => work[h] # d /\ work[h] \in Delivery
    BY <1>0, <1>1 DEF SaveEvent, WInv, TypeOK, IntakeAgrees, HostsAgree, LettersAgree
  <2>2. UNCHANGED <<job, dead, stalls, work, at>>
    BY <1>1 DEF SaveEvent, queue, hosts
  <2>. QED  BY <1>0, <2>1, <2>2 DEF LettersAgree, DeadLettersAreFinal
<1>2. ASSUME NEW d \in Delivery, AddJob(d) \/ Promote(d)
      PROVE  LettersAgree' /\ DeadLettersAreFinal'
  <2>1. /\ job[d] \in {"none", "delayed"} /\ job'[d] = "waiting"
        /\ \A c \in Delivery \ {d} : job'[c] = job[c]
    BY <1>2 DEF AddJob, Promote, WInv, TypeOK, IntakeAgrees
  <2>2. UNCHANGED <<rows, dead, stalls, work, at>>
    BY <1>2 DEF AddJob, Promote, hosts
  <2>. QED  BY <1>0, <2>1, <2>2 DEF LettersAgree, DeadLettersAreFinal
<1>3. ASSUME NEW d \in Delivery, Recover(d)
      PROVE  LettersAgree' /\ DeadLettersAreFinal'
  <2>1. /\ job[d] = "active" /\ job'[d] # "none"
        /\ stalls'[d] = stalls[d] + 1 /\ stalls[d] \in Nat
        /\ \A c \in Delivery \ {d} : job'[c] = job[c] /\ stalls'[c] = stalls[c]
        /\ \A h \in Host : work[h] # d
        /\ \A h \in Host : work[h] # None => work[h] \in Delivery
    BY <1>3 DEF Recover, WInv, TypeOK
  <2>2. UNCHANGED <<rows, dead, work, at>>
    BY <1>3 DEF Recover, hosts
  <2>. QED  BY <1>0, <2>1, <2>2 DEF LettersAgree, DeadLettersAreFinal
<1>4. ASSUME NEW h \in Host, NEW d \in Delivery, Take(h, d)
      PROVE  LettersAgree' /\ DeadLettersAreFinal'
  <2>1. /\ job[d] = "waiting" /\ job'[d] = "active"
        /\ \A c \in Delivery \ {d} : job'[c] = job[c]
        /\ work'[h] = d /\ at'[h] = "marking"
        /\ \A g \in Host \ {h} : work'[g] = work[g] /\ at'[g] = at[g]
    BY <1>4 DEF Take, WInv, TypeOK
  <2>2. UNCHANGED <<rows, dead, stalls>>
    BY <1>4 DEF Take
  <2>3. ~(dead[d] > 0 /\ stalls[d] = 0)
    BY <1>0, <2>1 DEF DeadLettersAreFinal
  <2>. QED  BY <1>0, <2>1, <2>2, <2>3 DEF LettersAgree, DeadLettersAreFinal
<1>5. ASSUME NEW h \in Host, Crash(h)
      PROVE  LettersAgree' /\ DeadLettersAreFinal'
  <2>1. /\ UNCHANGED <<rows, job, dead, stalls>> /\ work'[h] = None
        /\ \A g \in Host \ {h} : work'[g] = work[g] /\ at'[g] = at[g]
    BY <1>5 DEF Crash, Release, queue, WInv, TypeOK
  <2>. QED  BY <1>0, <2>1 DEF LettersAgree, DeadLettersAreFinal
<1>6. ASSUME NEW h \in Host, Process(h)
      PROVE  LettersAgree' /\ DeadLettersAreFinal'
  <2> DEFINE d == work[h]
  <2>1. /\ d \in Delivery /\ d # None
        /\ \A g \in Host \ {h} : work[g] # None => work[g] \in Delivery \ {d}
    BY <1>6, ProcessFrame, AtWork DEF WInv, TypeOK, HostsAgree
  <2>2. /\ UNCHANGED stalls
        /\ \A c \in Delivery \ {d} : /\ rows'[c] = rows[c] /\ job'[c] = job[c]
                                     /\ dead'[c] = dead[c]
        /\ \A g \in Host \ {h} : work'[g] = work[g] /\ at'[g] = at[g]
        /\ \/ job'[d] = "active" /\ work'[h] = d
           \/ job'[d] \in {"delayed", "failed", "completed"} /\ work'[h] = None
    BY <1>6, ProcessFrame
  <2>3. /\ dead'[d] > 0 /\ stalls[d] = 0 =>
             /\ dead'[d] = 1
             /\ rows'[d].status = "failed" /\ rows'[d].retries = MaxRetries
             /\ \/ job'[d] = "active" /\ at'[h] = "throwing"
                \/ job'[d] = "failed"
        /\ job'[d] = "active" /\ at'[h] = "burying" =>
             rows'[d].status = "failed" /\ rows'[d].retries >= MaxRetries
    BY <1>6, LetterAfter
  <2> HIDE DEF d
  <2>4. LettersAgree'
    BY <1>0, <2>1, <2>2, <2>3 DEF LettersAgree
  <2>5. DeadLettersAreFinal'
    BY <1>0, <2>1, <2>2, <2>3 DEF DeadLettersAreFinal
  <2>. QED  BY <2>4, <2>5
<1>7. CASE UNCHANGED <<rows, job, dead, stalls, work, at>>
  BY <1>0, <1>7 DEF LettersAgree, DeadLettersAreFinal
<1>. QED
  BY <1>1, <1>2, <1>3, <1>4, <1>5, <1>6, <1>7
  DEF Next, Intake, Arrive, Reject, FindDuplicate, IntakeFails,
      ShutdownWorker, ApiWrites, vars, queue, hosts

-----------------------------------------------------------------------------
(* The effects.                                                            *)

LEMMA EffectAfter ==
  ASSUME WInv, NEW h \in Host, Process(h)
  PROVE  /\ job'[work[h]] = "active" /\ at'[h] \in {"finishing", "acking"} =>
              effect'[work[h]] # "none"
         /\ rows'[work[h]].status = "processed" => effect'[work[h]] # "none"
<1> DEFINE d == work[h]
<1>1. /\ at[h] # "idle" /\ d \in Delivery /\ d # None /\ rows[d] # None
      /\ rows[d].status = "processed" => effect[d] # "none"
      /\ at[h] \in {"finishing", "acking"} => effect[d] # "none"
      /\ effect \in [Delivery -> {"none", "applied", "nothing"}]
  BY ProcessFrame, AtWork DEF WInv, ProcessedMeansHandled, EffectsAgree, TypeOK
<1> HIDE DEF d
<1>2. CASE MarkProcessing(h) \/ MarkProcessed(h) \/ RecordRetry(h)
  <2>1. /\ effect' = effect
        /\ at'[h] \in {"finishing", "acking"} => at[h] = "finishing"
        /\ rows'[d].status = "processed" => at[h] = "finishing"
    BY <1>1, <1>2, RowAfter
       DEF d, MarkProcessing, MarkProcessed, RecordRetry, Step, WInv, TypeOK
  <2>. QED  BY <1>1, <2>1 DEF d
<1>3. CASE LoadEvent(h) \/ FindSubject(h) \/ UpdateSubject(h)
  <2>1. /\ rows' = rows
        /\ at'[h] \in {"finishing", "acking"} => effect'[d] # "none"
        /\ effect[d] # "none" => effect'[d] # "none"
    BY <1>1, <1>3
       DEF d, LoadEvent, FindSubject, UpdateSubject, Step, WInv, TypeOK
  <2>. QED  BY <1>1, <2>1 DEF d
<1>4. CASE TryFails(h) \/ ReadRetries(h) \/ CatchFails(h) \/ Bury(h)
           \/ Throw(h) \/ Complete(h)
  <2>1. UNCHANGED <<rows, effect>> /\ at'[h] \notin {"finishing", "acking"}
    BY <1>4 DEF TryFails, ReadRetries, CatchFails, Bury, Throw, Complete,
                Release, Caught, Step, WInv, TypeOK
  <2>. QED  BY <1>1, <2>1 DEF d
<1>. QED  BY <1>2, <1>3, <1>4 DEF Process

LEMMA EffectsStep ==
  WInv /\ [Next]_vars => EffectsAgree' /\ ProcessedMeansHandled'
<1> SUFFICES ASSUME WInv, [Next]_vars
             PROVE  EffectsAgree' /\ ProcessedMeansHandled'
  OBVIOUS
<1>0. EffectsAgree /\ ProcessedMeansHandled
  BY DEF WInv
<1>1. ASSUME NEW d \in Delivery, SaveEvent(d)
      PROVE  EffectsAgree' /\ ProcessedMeansHandled'
  <2>1. /\ rows'[d].status = "pending"
        /\ \A c \in Delivery \ {d} : rows'[c] = rows[c]
    <3> DEFINE new == [event |-> EventOf(d), status |-> "pending", retries |-> 0]
    <3>1. new.status = "pending" /\ rows' = [rows EXCEPT ![d] = new]
      BY <1>1 DEF SaveEvent
    <3> HIDE DEF new
    <3>. QED  BY <3>1 DEF WInv, TypeOK
  <2>2. UNCHANGED <<effect, work, at>>
    BY <1>1 DEF SaveEvent, hosts
  <2>. QED  BY <1>0, <2>1, <2>2 DEF EffectsAgree, ProcessedMeansHandled
<1>2. ASSUME NEW h \in Host, Crash(h) \/ (\E d \in Delivery : Take(h, d))
      PROVE  EffectsAgree' /\ ProcessedMeansHandled'
  <2>1. /\ UNCHANGED <<rows, effect>> /\ at'[h] \notin {"finishing", "acking"}
        /\ \A g \in Host \ {h} : work'[g] = work[g] /\ at'[g] = at[g]
    BY <1>2 DEF Crash, Take, Release, WInv, TypeOK
  <2>. QED  BY <1>0, <2>1 DEF EffectsAgree, ProcessedMeansHandled
<1>3. ASSUME NEW h \in Host, Process(h)
      PROVE  EffectsAgree' /\ ProcessedMeansHandled'
  <2> DEFINE d == work[h]
  <2>1. /\ d \in Delivery /\ d # None
        /\ \A g \in Host \ {h} : work[g] # None => work[g] \in Delivery \ {d}
    BY <1>3, ProcessFrame, AtWork DEF WInv, TypeOK, HostsAgree
  <2>2. /\ \A c \in Delivery \ {d} : rows'[c] = rows[c] /\ effect'[c] = effect[c]
        /\ \A g \in Host \ {h} : work'[g] = work[g] /\ at'[g] = at[g]
        /\ \/ job'[d] = "active" /\ work'[h] = d
           \/ work'[h] = None
    BY <1>3, ProcessFrame
  <2>3. /\ job'[d] = "active" /\ at'[h] \in {"finishing", "acking"} =>
             effect'[d] # "none"
        /\ rows'[d].status = "processed" => effect'[d] # "none"
    BY <1>3, EffectAfter
  <2> HIDE DEF d
  <2>. QED
    BY <1>0, <2>1, <2>2, <2>3 DEF EffectsAgree, ProcessedMeansHandled
<1>4. CASE UNCHANGED <<rows, effect, work, at>>
  BY <1>0, <1>4 DEF EffectsAgree, ProcessedMeansHandled
<1>. QED
  BY <1>1, <1>2, <1>3, <1>4
  DEF Next, Intake, Arrive, Reject, FindDuplicate, AddJob, IntakeFails,
      Promote, Recover, ShutdownWorker, ApiWrites, vars, queue, hosts

-----------------------------------------------------------------------------
(* The theorems.                                                           *)

LEMMA WebhooksStep == WInv /\ [Next]_vars => WInv'
BY TypeStep, IntakeStep, HostsStep, CountersStep, LettersStep, EffectsStep
DEF WInv, RowAgreesWithBull

(* Whatever crashes, fails, stalls or is delivered twice, the invariant    *)
(* holds in every state.                                                   *)
THEOREM WebhooksInvariant == Spec => []WInv
BY InitWebhooks, WebhooksStep, PTL DEF Spec

(* Every state is well typed: Bull never counts more than the attempts it  *)
(* was given, and no job stalls more than twice.                           *)
THEOREM WebhooksTyped == Spec => []TypeOK
<1>1. WInv => TypeOK
  BY DEF WInv
<1>. QED  BY WebhooksInvariant, <1>1, PTL

(* No row says "processed" of an event that nobody dealt with.             *)
THEOREM ProcessedWasHandled == Spec => []ProcessedMeansHandled
<1>1. WInv => ProcessedMeansHandled
  BY DEF WInv
<1>. QED  BY WebhooksInvariant, <1>1, PTL

(* The row's retries are attempts or stalls that Bull has counted, and a   *)
(* dead letter of a job that never stalled is single and final.            *)
THEOREM CountersCompatible == Spec => []RowAgreesWithBull
<1>1. WInv => RowAgreesWithBull
  BY DEF WInv
<1>. QED  BY WebhooksInvariant, <1>1, PTL

-----------------------------------------------------------------------------
(* What the notifications do to the transactions and subscriptions.        *)

(* The table of event types and the handlers make of every notification    *)
(* what it says, whatever the row said before.                             *)
LEMMA ProcessedSays ==
  ASSUME NEW raw \in RawType, NEW status
  PROVE  Says(raw, Processed(mapAuthorizeNetEventType(raw), status))
BY DEF RawType, Says, mapAuthorizeNetEventType, Processed, PaymentTypes,
       processPayment, processSubscription

(* The event of a job that is being worked on is not over: no other row    *)
(* has it.                                                                 *)
LEMMA WorkIsOpen ==
  ASSUME WInv, NEW h \in Host, at[h] # "idle"
  PROVE  EventOf(work[h]) \notin Over
<1> DEFINE d == work[h]
<1>1. /\ d \in Delivery /\ rows[d] # None /\ rows[d].event = EventOf(d)
      /\ job[d] = "active"
  BY AtWork DEF WInv, IntakeAgrees
<1>2. \A c \in Delivery : job[c] \in {"completed", "failed"} =>
        rows[c] # None /\ c # d
  BY <1>1 DEF WInv, IntakeAgrees
<1> HIDE DEF d
<1>3. \A c \in Delivery :
        job[c] \in {"completed", "failed"} => rows[c].event # EventOf(d)
  BY <1>1, <1>2 DEF WInv, EventsUnique
<1>. QED  BY <1>3 DEF d, Over

LEMMA SubjectStep ==
  ASSUME WInv, [Next]_vars, NEW r \in Subject, subject'[r] # subject[r]
  PROVE  \/ ApiWrites(r)
         \/ \E h \in Host : /\ work[h] # None /\ found[h] = r
                            /\ Says(notice[work[h]].type, subject'[r])
                            /\ EventOf(work[h]) \notin Over
<1>1. ASSUME NEW h \in Host, UpdateSubject(h)
      PROVE  /\ work[h] # None /\ found[h] = r
             /\ Says(notice[work[h]].type, subject'[r])
             /\ EventOf(work[h]) \notin Over
  <2>1. at[h] # "idle"
    BY <1>1 DEF UpdateSubject, Step
  <2>2. found[h] = r /\ subject'[r] = Processed(Type(work[h]), subject[r])
    BY <1>1 DEF UpdateSubject, WInv, TypeOK
  <2>3. work[h] # None /\ notice[work[h]].type \in RawType
    BY <2>1, AtWork, NoticeAssumption
  <2>. QED  BY <2>1, <2>2, <2>3, ProcessedSays, WorkIsOpen DEF Type
<1>2. ASSUME NEW c \in Subject, ApiWrites(c) PROVE ApiWrites(r)
  <2>1. c = r
    BY <1>2 DEF ApiWrites, updateTransactionStatus, createSubscription,
                saveSubscription, WInv, TypeOK
  <2>. QED  BY <1>2, <2>1
<1>3. CASE UNCHANGED subject
  BY <1>3
<1>. QED
  BY <1>1, <1>2, <1>3
  DEF Next, Intake, Process, Arrive, Reject, FindDuplicate, SaveEvent, AddJob,
      IntakeFails, Promote, Recover, Take, MarkProcessing, LoadEvent, FindSubject,
      MarkProcessed, TryFails, ReadRetries, RecordRetry, Bury, CatchFails, Throw,
      Complete, Crash, ShutdownWorker, vars, tables

(* Whatever the API, the scheduler and the workers do to a row in whatever *)
(* order, with every fault: a worker writes what its notification says,    *)
(* and never for an event that was already completed or given up.          *)
THEOREM NoEventComesBack == Spec => StatusMovesInTurn
<1>1. WInv /\ [Next]_vars =>
        [\A r \in Subject : subject'[r] # subject[r] =>
           \/ ApiWrites(r)
           \/ \E h \in Host : /\ work[h] # None /\ found[h] = r
                              /\ Says(notice[work[h]].type, subject'[r])
                              /\ EventOf(work[h]) \notin Over]_subject
  BY SubjectStep
<1>. QED  BY WebhooksInvariant, <1>1, PTL DEF Spec, StatusMovesInTurn

-----------------------------------------------------------------------------
(* When the two counters run in step.                                      *)

(* Every process has its data source, nothing fails but the handlers'      *)
(* statements and the adding of jobs, and the row is given as many retries *)
(* as Bull has attempts: what the documentation of the dead letter queue   *)
(* takes for granted.                                                      *)
InStep ==
  /\ Host \subseteq Connected
  /\ Faults \subseteq {"handler", "queue", "answer"}
  /\ MaxRetries = MaxAttempts

(* No job loses its process, so none stalls; the row is ahead by the try   *)
(* that has counted itself and the last try buries before it throws.       *)
LockStep ==
  /\ \A d \in Delivery :
       /\ stalls[d] = 0
       /\ job[d] = "active" => \E h \in Host : work[h] = d
       /\ job[d] \in {"waiting", "delayed"} => rows[d].retries = attempts[d]
       /\ job[d] = "failed" => dead[d] > 0
       /\ job[d] = "completed" => rows[d].status = "processed"
  /\ \A h \in Host : work[h] # None =>
       /\ at[h] \in Uncounted => rows[work[h]].retries = attempts[work[h]]
       /\ at[h] \in {"burying", "throwing"} =>
            rows[work[h]].retries = attempts[work[h]] + 1
       /\ at[h] = "throwing" /\ LastAttempt(work[h]) => dead[work[h]] > 0
       /\ at[h] = "acking" => rows[work[h]].status = "processed"

(* The job a process works on, after its step.                             *)
LEMMA LockAfter ==
  ASSUME InStep, WInv, LockStep, NEW h \in Host, Process(h)
  PROVE  /\ job'[work[h]] = "delayed" =>
              rows'[work[h]].retries = attempts'[work[h]]
         /\ job'[work[h]] = "failed" => dead'[work[h]] > 0
         /\ job'[work[h]] = "completed" => rows'[work[h]].status = "processed"
         /\ job'[work[h]] = "active" =>
              /\ at'[h] \in Uncounted =>
                   rows'[work[h]].retries = attempts'[work[h]]
              /\ at'[h] \in {"burying", "throwing"} =>
                   rows'[work[h]].retries = attempts'[work[h]] + 1
              /\ at'[h] = "throwing" /\ attempts'[work[h]] + 1 >= MaxAttempts =>
                   dead'[work[h]] > 0
              /\ at'[h] = "acking" => rows'[work[h]].status = "processed"
<1> DEFINE d == work[h]
<1>1. /\ at[h] # "idle" /\ d \in Delivery /\ d # None
      /\ rows[d] \in Row /\ job[d] = "active"
      /\ attempts[d] \in Nat /\ dead[d] \in Nat
      /\ MaxAttempts \in Nat /\ MaxRetries = MaxAttempts
  BY ProcessFrame, AtWork, LimitAssumption DEF InStep
<1>2. /\ rows[d].retries \in Nat
      /\ at[h] \in Uncounted => rows[d].retries = attempts[d]
      /\ at[h] \in {"burying", "throwing"} => rows[d].retries = attempts[d] + 1
      /\ at[h] = "throwing" /\ attempts[d] + 1 >= MaxAttempts => dead[d] > 0
      /\ at[h] = "acking" => rows[d].status = "processed"
      /\ at[h] = "recording" => seen[h] = rows[d].retries
  BY <1>1 DEF LockStep, LastAttempt, WInv, CountersAgree, Row
<1> HIDE DEF d
<1>3. CASE MarkProcessing(h) \/ MarkProcessed(h)
  <2>1. /\ rows'[d].retries = rows[d].retries /\ at[h] \in Uncounted
        /\ UNCHANGED <<job, attempts>> /\ at'[h] \notin {"burying", "throwing"}
        /\ at'[h] = "acking" => rows'[d].status = "processed"
    BY <1>1, <1>3, RowAfter
       DEF d, MarkProcessing, MarkProcessed, Step, queue, Uncounted, Trying,
           WInv, TypeOK
  <2>. QED  BY <1>1, <1>2, <2>1 DEF d
<1>4. CASE LoadEvent(h) \/ FindSubject(h) \/ UpdateSubject(h)
  <2>1. /\ UNCHANGED <<rows, job, attempts>> /\ at[h] \in Uncounted
        /\ at'[h] \notin {"burying", "throwing", "acking"}
    BY <1>4 DEF LoadEvent, FindSubject, UpdateSubject, Step, queue, Uncounted,
                Trying, WInv, TypeOK
  <2>. QED  BY <1>1, <1>2, <2>1 DEF d
<1>5. CASE TryFails(h) \/ ReadRetries(h)
  <2>1. /\ UNCHANGED <<rows, job, attempts>> /\ at[h] \in Uncounted
        /\ at'[h] \notin {"burying", "throwing", "acking"}
    BY <1>5 DEF TryFails, ReadRetries, Caught, Step, queue, Uncounted,
                Trying, WInv, TypeOK
  <2>. QED  BY <1>1, <1>2, <2>1 DEF d
<1>6. CASE RecordRetry(h)
  <2>1. /\ rows'[d].retries = seen[h] + 1 /\ at[h] = "recording"
        /\ UNCHANGED <<job, attempts, dead>>
        /\ at'[h] = IF MaxReached(seen[h] + 1) THEN "burying" ELSE "throwing"
    BY <1>1, <1>6, RowAfter DEF d, RecordRetry, Step, queue, WInv, TypeOK
  <2>2. /\ at[h] \in Uncounted /\ at'[h] \notin Uncounted /\ at'[h] # "acking"
    BY <2>1 DEF Uncounted, Trying
  <2>3. rows'[d].retries = attempts[d] + 1
    BY <1>2, <2>1, <2>2
  <2>4. at'[h] = "throwing" => attempts[d] + 1 < MaxAttempts
    BY <1>1, <1>2, <2>1, <2>2 DEF MaxReached
  <2>. QED  BY <1>1, <2>1, <2>2, <2>3, <2>4 DEF d
<1>7. CASE Bury(h)
  <2>1. /\ UNCHANGED <<rows, job, attempts>> /\ at'[h] = "throwing"
        /\ at[h] = "burying" /\ dead'[d] = dead[d] + 1
    BY <1>1, <1>7 DEF d, Bury, Step, WInv, TypeOK
  <2>2. "throwing" \notin Uncounted
    BY DEF Uncounted, Trying
  <2>. QED  BY <1>1, <1>2, <2>1, <2>2 DEF d
<1>8. ~CatchFails(h)
  BY DEF InStep, CatchFails, Breaks
<1>9. CASE Throw(h)
  <2>1. /\ attempts'[d] = attempts[d] + 1 /\ UNCHANGED <<rows, dead>>
        /\ job'[d] = IF LastAttempt(d) THEN "failed" ELSE "delayed"
        /\ at[h] = "throwing"
    BY <1>1, <1>9 DEF d, Throw, WInv, TypeOK
  <2>. QED  BY <1>1, <1>2, <2>1 DEF d, LastAttempt
<1>10. CASE Complete(h)
  <2>1. /\ rows' = rows /\ job'[d] = "completed" /\ at[h] = "acking"
    BY <1>1, <1>10 DEF d, Complete, WInv, TypeOK
  <2>. QED  BY <1>1, <1>2, <2>1 DEF d
<1>. QED
  BY <1>3, <1>4, <1>5, <1>6, <1>7, <1>8, <1>9, <1>10 DEF Process

LEMMA InitLockStep == Init => LockStep
BY DEF Init, LockStep

LEMMA LockStepKept ==
  ASSUME InStep PROVE WInv /\ LockStep /\ [Next]_vars => LockStep'
<1> SUFFICES ASSUME WInv, LockStep, [Next]_vars PROVE LockStep'
  OBVIOUS
<1>0. /\ \A d \in Delivery : /\ attempts[d] \in Nat /\ dead[d] \in Nat
                             /\ rows[d] # None => rows[d].retries \in Nat
      /\ \A h \in Host : at[h] = "idle" <=> work[h] = None
      /\ MaxAttempts \in Nat \ {0}
  BY LimitAssumption DEF WInv, TypeOK, Row, HostsAgree
<1> USE DEF LastAttempt
<1>1. ASSUME NEW d \in Delivery, SaveEvent(d) PROVE LockStep'
  <2>1. /\ rows[d] = None /\ job[d] = "none"
        /\ \A c \in Delivery \ {d} : rows'[c] = rows[c]
        /\ \A h \in Host : work[h] # None => work[h] \in Delivery \ {d}
    <3> DEFINE new == [event |-> EventOf(d), status |-> "pending", retries |-> 0]
    <3>1. rows' = [rows EXCEPT ![d] = new]
      BY <1>1 DEF SaveEvent
    <3> HIDE DEF new
    <3>2. \A c \in Delivery \ {d} : rows'[c] = rows[c]
      BY <3>1 DEF WInv, TypeOK
    <3>3. rows[d] = None /\ job[d] = "none"
      BY <1>1 DEF SaveEvent, WInv, IntakeAgrees
    <3>4. \A h \in Host : work[h] # None => work[h] \in Delivery \ {d}
      BY <3>3 DEF WInv, TypeOK, HostsAgree
    <3>. QED  BY <3>2, <3>3, <3>4
  <2>2. UNCHANGED <<job, attempts, stalls, dead, work, at, seen>>
    BY <1>1 DEF SaveEvent, queue, hosts
  <2>. QED  BY <2>1, <2>2 DEF LockStep
<1>2. ASSUME NEW d \in Delivery, AddJob(d) \/ Promote(d) PROVE LockStep'
  <2>1. /\ job[d] \in {"none", "delayed"} /\ job'[d] = "waiting"
        /\ \A c \in Delivery \ {d} : job'[c] = job[c]
        /\ UNCHANGED <<rows, attempts, stalls, dead, work, at, seen>>
    BY <1>2 DEF AddJob, Promote, hosts, WInv, TypeOK, IntakeAgrees
  <2>2. rows[d].retries = attempts[d]
    <3>1. CASE job[d] = "none"
      BY <1>2, <2>1, <3>1 DEF AddJob, Promote, WInv, IntakeAgrees, CountersAgree
    <3>2. CASE job[d] = "delayed"
      BY <3>2 DEF LockStep
    <3>. QED  BY <2>1, <3>1, <3>2
  <2>. QED  BY <2>1, <2>2 DEF LockStep
<1>3. ASSUME NEW d \in Delivery PROVE ~Recover(d)
  BY DEF Recover, LockStep
<1>4. ASSUME NEW h \in Host PROVE ~Crash(h)
  BY DEF Crash, InStep
<1>5. ASSUME NEW h \in Host, NEW d \in Delivery, Take(h, d) PROVE LockStep'
  <2>1. /\ job[d] = "waiting" /\ job'[d] = "active" /\ work[h] = None
        /\ \A c \in Delivery \ {d} : job'[c] = job[c]
        /\ work'[h] = d /\ at'[h] = "marking"
        /\ \A g \in Host \ {h} : work'[g] = work[g] /\ at'[g] = at[g]
        /\ UNCHANGED <<rows, attempts, stalls, dead, seen>>
    BY <1>5 DEF Take, WInv, TypeOK
  <2>2. None \notin Delivery
    BY DeliveryAssumption
  <2>3. rows[d].retries = attempts[d]
    BY <2>1 DEF LockStep
  <2>4. ASSUME NEW c \in Delivery, job'[c] = "active"
        PROVE  \E g \in Host : work'[g] = c
    <3>1. CASE c = d
      BY <2>1, <3>1
    <3>2. CASE c # d
      <4>1. PICK g \in Host : work[g] = c
        BY <2>1, <2>4, <3>2 DEF LockStep
      <4>2. g # h
        BY <2>1, <2>2, <4>1
      <4>. QED  BY <2>1, <4>1, <4>2
    <3>. QED  BY <3>1, <3>2
  <2>5. \A c \in Delivery :
          /\ stalls'[c] = 0
          /\ job'[c] \in {"waiting", "delayed"} => rows'[c].retries = attempts'[c]
          /\ job'[c] = "failed" => dead'[c] > 0
          /\ job'[c] = "completed" => rows'[c].status = "processed"
    BY <2>1 DEF LockStep
  <2>6. \A g \in Host : work'[g] # None =>
          /\ at'[g] \in Uncounted => rows'[work'[g]].retries = attempts'[work'[g]]
          /\ at'[g] \in {"burying", "throwing"} =>
               rows'[work'[g]].retries = attempts'[work'[g]] + 1
          /\ at'[g] = "throwing" /\ attempts'[work'[g]] + 1 >= MaxAttempts =>
               dead'[work'[g]] > 0
          /\ at'[g] = "acking" => rows'[work'[g]].status = "processed"
    BY <2>1, <2>3 DEF LockStep
  <2>. QED  BY <2>4, <2>5, <2>6 DEF LockStep
<1>6. ASSUME NEW h \in Host, Process(h) PROVE LockStep'
  <2> DEFINE d == work[h]
  <2>1. /\ d \in Delivery /\ d # None /\ job[d] = "active"
        /\ \A g \in Host \ {h} : work[g] # None => work[g] \in Delivery \ {d}
    BY <1>6, ProcessFrame, AtWork DEF WInv, TypeOK, HostsAgree
  <2>2. /\ UNCHANGED stalls
        /\ \A c \in Delivery \ {d} : /\ rows'[c] = rows[c] /\ job'[c] = job[c]
                                     /\ attempts'[c] = attempts[c]
                                     /\ dead'[c] = dead[c]
        /\ \A g \in Host \ {h} : work'[g] = work[g] /\ at'[g] = at[g]
        /\ \/ job'[d] = "active" /\ work'[h] = d
           \/ job'[d] \in {"delayed", "failed", "completed"} /\ work'[h] = None
    BY <1>6, ProcessFrame
  <2>3. /\ job'[d] = "delayed" => rows'[d].retries = attempts'[d]
        /\ job'[d] = "failed" => dead'[d] > 0
        /\ job'[d] = "completed" => rows'[d].status = "processed"
        /\ job'[d] = "active" =>
             /\ at'[h] \in Uncounted => rows'[d].retries = attempts'[d]
             /\ at'[h] \in {"burying", "throwing"} =>
                  rows'[d].retries = attempts'[d] + 1
             /\ at'[h] = "throwing" /\ attempts'[d] + 1 >= MaxAttempts =>
                  dead'[d] > 0
             /\ at'[h] = "acking" => rows'[d].status = "processed"
    BY <1>6, LockAfter
  <2> HIDE DEF d
  <2>4. \A c \in Delivery :
          /\ stalls'[c] = 0
          /\ job'[c] = "active" => \E g \in Host : work'[g] = c
          /\ job'[c] \in {"waiting", "delayed"} => rows'[c].retries = attempts'[c]
          /\ job'[c] = "failed" => dead'[c] > 0
          /\ job'[c] = "completed" => rows'[c].status = "processed"
    <3> SUFFICES ASSUME NEW c \in Delivery
                 PROVE  /\ stalls'[c] = 0
                        /\ job'[c] = "active" => \E g \in Host : work'[g] = c
                        /\ job'[c] \in {"waiting", "delayed"} =>
                             rows'[c].retries = attempts'[c]
                        /\ job'[c] = "failed" => dead'[c] > 0
                        /\ job'[c] = "completed" => rows'[c].status = "processed"
      OBVIOUS
    <3>1. CASE c = d
      BY <2>1, <2>2, <2>3, <3>1 DEF LockStep
    <3>2. CASE c # d
      BY <2>1, <2>2, <3>2 DEF LockStep, d
    <3>. QED  BY <3>1, <3>2
  <2>5. \A g \in Host : work'[g] # None =>
          /\ at'[g] \in Uncounted => rows'[work'[g]].retries = attempts'[work'[g]]
          /\ at'[g] \in {"burying", "throwing"} =>
               rows'[work'[g]].retries = attempts'[work'[g]] + 1
          /\ at'[g] = "throwing" /\ attempts'[work'[g]] + 1 >= MaxAttempts =>
               dead'[work'[g]] > 0
          /\ at'[g] = "acking" => rows'[work'[g]].status = "processed"
    BY <2>1, <2>2, <2>3 DEF LockStep
  <2>. QED  BY <2>4, <2>5 DEF LockStep
<1>7. CASE UNCHANGED <<rows, job, attempts, stalls, dead, work, at>>
  BY <1>7 DEF LockStep
<1>. QED
  BY <1>1, <1>2, <1>3, <1>4, <1>5, <1>6, <1>7
  DEF Next, Intake, Arrive, Reject, FindDuplicate, IntakeFails,
      ShutdownWorker, ApiWrites, vars, queue, hosts

(* An event that Bull gave up is in the dead letter queue, as the          *)
(* documentation says: in a deployment whose processes all have a data     *)
(* source, where only the handlers' statements and the adding of jobs fail *)
(* and the limits agree.                                                   *)
THEOREM FailedReachDeadLetters ==
  ASSUME InStep PROVE Spec => []FailedEventsAreDeadLettered
<1>1. WInv /\ LockStep /\ [Next]_vars => WInv' /\ LockStep'
  BY WebhooksStep, LockStepKept
<1>2. Init => WInv /\ LockStep
  BY InitWebhooks, InitLockStep
<1>3. LockStep => FailedEventsAreDeadLettered
  BY DEF LockStep, FailedEventsAreDeadLettered
<1>. QED  BY <1>1, <1>2, <1>3, PTL DEF Spec

(* In that deployment the row and Bull agree on every event that is over:  *)
(* it is processed in both, or failed in both and dead-lettered once.      *)
THEOREM OverIsDecided ==
  ASSUME InStep
  PROVE  Spec => [](\A d \in Delivery :
                      job[d] \in {"completed", "failed"} =>
                        Decided(d) /\ dead[d] <= 1)
<1>1. WInv /\ LockStep /\ [Next]_vars => WInv' /\ LockStep'
  BY WebhooksStep, LockStepKept
<1>2. Init => WInv /\ LockStep
  BY InitWebhooks, InitLockStep
<1>3. WInv /\ LockStep =>
        \A d \in Delivery : job[d] \in {"completed", "failed"} =>
          Decided(d) /\ dead[d] <= 1
  <2> SUFFICES ASSUME WInv, LockStep, NEW d \in Delivery,
                      job[d] \in {"completed", "failed"}
               PROVE  Decided(d) /\ dead[d] <= 1
    OBVIOUS
  <2>1. /\ stalls[d] = 0 /\ dead[d] \in Nat
        /\ dead[d] > 0 => /\ dead[d] = 1 /\ rows[d].status = "failed"
                          /\ job[d] \in {"active", "failed"}
    BY DEF LockStep, WInv, TypeOK, RowAgreesWithBull, DeadLettersAreFinal
  <2>2. /\ job[d] = "failed" => dead[d] > 0
        /\ job[d] = "completed" => rows[d].status = "processed"
    BY DEF LockStep
  <2>. QED  BY <2>1, <2>2 DEF Decided
<1>. QED  BY <1>1, <1>2, <1>3, PTL DEF Spec

-----------------------------------------------------------------------------
(* What the senders were told.                                             *)

(* The notification of a delivery never changes.                           *)
LEMMA NoticesKept ==
  ASSUME WInv, [Next]_vars, NEW d \in Delivery, notice[d] # None
  PROVE  notice'[d] = notice[d]
<1>1. ASSUME NEW c \in Delivery, Arrive(c) PROVE notice'[d] = notice[d]
  <2>1. c # d
    BY <1>1 DEF Arrive, WInv, IntakeAgrees
  <2>. QED  BY <1>1, <2>1 DEF Arrive, WInv, TypeOK
<1>2. ASSUME NEW h \in Host, Process(h) PROVE notice' = notice
  BY <1>2, ProcessFrame
<1>3. CASE UNCHANGED notice
  BY <1>3
<1>. QED
  BY <1>1, <1>2, <1>3
  DEF Next, Intake, Reject, FindDuplicate, SaveEvent, AddJob, IntakeFails,
      Promote, Recover, Take, Crash, ShutdownWorker, ApiWrites, vars, intake

(* "queued" is said of a delivery with a job, "already processed" of one   *)
(* that stored nothing because another row has its event id.               *)
AnswersTrue ==
  \A d \in Delivery :
    /\ reply[d] = "queued" => Queued(d)
    /\ reply[d] = "duplicate" =>
         /\ notice[d] # None /\ rows[d] = None
         /\ \E c \in Delivery : rows[c] # None /\ rows[c].event = EventOf(d)

(* An event that was stored has a job, or its handler has yet to add one,  *)
(* or was stopped between the INSERT and the job.                          *)
StoredIsQueued ==
  \A d \in Delivery : rows[d] # None =>
    Queued(d) \/ http[d] \in {"adding", "lost"} \/ reply[d] = "error"

(* Rows keep their events and jobs are not forgotten.                      *)
LEMMA RowsStay ==
  ASSUME WInv, [Next]_vars, NEW d \in Delivery
  PROVE  /\ rows[d] # None => rows'[d] # None /\ rows'[d].event = rows[d].event
         /\ job[d] # "none" => job'[d] # "none"
         /\ rows[d] = None /\ rows'[d] # None => SaveEvent(d)
<1> USE DEF WInv, TypeOK
<1>1. ASSUME NEW c \in Delivery, SaveEvent(c)
      PROVE  /\ UNCHANGED job
             /\ rows[c] = None /\ \A e \in Delivery \ {c} : rows'[e] = rows[e]
  BY <1>1 DEF SaveEvent, queue, IntakeAgrees
<1>2. ASSUME NEW c \in Delivery, AddJob(c) \/ Promote(c) \/ Recover(c)
      PROVE  rows' = rows /\ (job[d] # "none" => job'[d] # "none")
  BY <1>2 DEF AddJob, Promote, Recover
<1>3. ASSUME NEW h \in Host, NEW c \in Delivery, Take(h, c)
      PROVE  rows' = rows /\ (job[d] # "none" => job'[d] # "none")
  BY <1>3 DEF Take
<1>4. ASSUME NEW h \in Host, Process(h)
      PROVE  /\ rows[d] # None => rows'[d] # None /\ rows'[d].event = rows[d].event
             /\ job[d] # "none" => job'[d] # "none"
             /\ rows[d] = None => rows'[d] = None
  <2>1. rows[work[h]] # None
    BY <1>4, ProcessFrame, AtWork
  <2>. QED  BY <1>4, <2>1, ProcessFrame
<1>5. CASE UNCHANGED <<rows, job>>
  BY <1>5
<1>. QED
  BY <1>1, <1>2, <1>3, <1>4, <1>5
  DEF Next, Intake, Arrive, Reject, FindDuplicate, IntakeFails, Crash,
      ShutdownWorker, ApiWrites, vars, queue

LEMMA AnswersStep == WInv /\ AnswersTrue /\ [Next]_vars => AnswersTrue'
<1> SUFFICES ASSUME WInv, AnswersTrue, [Next]_vars, NEW d \in Delivery
             PROVE  /\ reply'[d] = "queued" => Queued(d)'
                    /\ reply'[d] = "duplicate" =>
                         /\ notice'[d] # None /\ rows'[d] = None
                         /\ \E c \in Delivery :
                              rows'[c] # None /\ rows'[c].event = EventOf(d)'
  BY DEF AnswersTrue
<1>0. WInv /\ TypeOK /\ IntakeAgrees
  BY DEF WInv
<1>1. \/ reply'[d] = reply[d]
      \/ AddJob(d)
      \/ FindDuplicate(d) /\ reply'[d] = "duplicate" /\ Saved(EventOf(d)) # {}
      \/ reply'[d] \in {"rejected", "error"}
  <2>1. ASSUME NEW c \in Delivery,
               Reject(c) \/ FindDuplicate(c) \/ AddJob(c) \/ IntakeFails(c)
        PROVE  \/ reply'[d] = reply[d]
               \/ AddJob(d)
               \/ FindDuplicate(d) /\ reply'[d] = "duplicate"
                    /\ Saved(EventOf(d)) # {}
               \/ reply'[d] \in {"rejected", "error"}
    BY <1>0, <2>1 DEF Reject, FindDuplicate, AddJob, IntakeFails, Tell, TypeOK
  <2>2. ASSUME NEW h \in Host, Process(h) PROVE reply' = reply
    BY <1>0, <2>2, ProcessFrame
  <2>3. CASE UNCHANGED reply
    BY <2>3
  <2>. QED
    BY <2>1, <2>2, <2>3
    DEF Next, Intake, Arrive, SaveEvent, Promote, Recover, Take, Crash,
        ShutdownWorker, ApiWrites, vars, intake
<1>2. CASE AddJob(d)
  <2>1. Queued(d)'
    BY <1>0, <1>2 DEF AddJob, Queued, TypeOK
  <2>2. reply'[d] # "duplicate"
    BY <1>0, <1>2, NoneAssumption DEF AddJob, Tell, TypeOK, IntakeAgrees
  <2>. QED  BY <2>1, <2>2
<1>3. ASSUME NEW c \in Delivery, rows[c] # None, rows[c].event = EventOf(d),
             notice[d] # None
      PROVE  rows'[c] # None /\ rows'[c].event = EventOf(d)'
  BY <1>0, <1>3, RowsStay, NoticesKept DEF EventOf
<1>4. CASE FindDuplicate(d) /\ reply'[d] = "duplicate" /\ Saved(EventOf(d)) # {}
  <2>1. http[d] = "finding" /\ UNCHANGED <<rows, notice>>
    BY <1>4 DEF FindDuplicate
  <2>2. notice[d] # None /\ rows[d] = None
    BY <1>0, <2>1 DEF IntakeAgrees
  <2>3. PICK c \in Delivery : rows[c] # None /\ rows[c].event = EventOf(d)
    BY <1>4 DEF Saved
  <2>. QED  BY <1>3, <1>4, <2>1, <2>2, <2>3
<1>5. CASE reply'[d] = reply[d]
  <2>1. CASE reply[d] = "queued"
    BY <1>0, <1>5, <2>1, RowsStay DEF AnswersTrue, Queued
  <2>2. CASE reply[d] = "duplicate"
    <3>1. PICK c \in Delivery : rows[c] # None /\ rows[c].event = EventOf(d)
      BY <2>2 DEF AnswersTrue
    <3>2. notice[d] # None /\ rows[d] = None
      BY <2>2 DEF AnswersTrue
    <3>3. notice'[d] # None
      BY <3>2, NoticesKept
    <3>4. http[d] = "done"
      BY <1>0, <2>2, NoneAssumption DEF IntakeAgrees
    <3>5. ~SaveEvent(d)
      BY <3>4 DEF SaveEvent
    <3>6. rows'[d] = None
      BY <1>0, <3>2, <3>5, RowsStay
    <3>. QED  BY <1>3, <1>5, <2>2, <3>1, <3>2, <3>3, <3>6
  <2>. QED  BY <1>5, <2>1, <2>2
<1>. QED  BY <1>1, <1>2, <1>4, <1>5

(* Nobody is told "queued" of a notification without a job, or "already    *)
(* processed" of one whose event id no stored event has.                   *)
THEOREM SendersToldTruth == Spec => []AnswersTrue
<1>1. Init => AnswersTrue
  <2>1. None # "queued" /\ None # "duplicate"
    BY NoneAssumption
  <2>2. Init => reply = [d \in Delivery |-> None]
    BY DEF Init
  <2>. QED  BY <2>1, <2>2 DEF AnswersTrue
<1>. QED  BY WebhooksInvariant, AnswersStep, <1>1, PTL DEF Spec

LEMMA StoredStep == WInv /\ StoredIsQueued /\ [Next]_vars => StoredIsQueued'
<1> SUFFICES ASSUME WInv, StoredIsQueued, [Next]_vars, NEW d \in Delivery,
                    rows'[d] # None
             PROVE  \/ Queued(d)' \/ http'[d] \in {"adding", "lost"}
                    \/ reply'[d] = "error"
  BY DEF StoredIsQueued
<1>0. TypeOK /\ IntakeAgrees
  BY DEF WInv
<1>1. CASE rows[d] = None
  <2>1. SaveEvent(d)
    BY <1>1, RowsStay
  <2>. QED  BY <1>0, <2>1 DEF SaveEvent, TypeOK
<1>2. CASE Queued(d)
  BY <1>2, RowsStay DEF Queued
<1>3. CASE http[d] \in {"adding", "lost"} \/ reply[d] = "error"
  <2>1. http[d] \in {"adding", "lost"} \/ (http[d] = "done" /\ reply[d] = "error")
    BY <1>0, <1>3, NoneAssumption DEF IntakeAgrees
  <2>2. ASSUME NEW c \in Delivery,
               \/ Arrive(c) \/ Reject(c) \/ FindDuplicate(c) \/ SaveEvent(c)
               \/ AddJob(c) \/ IntakeFails(c)
        PROVE  \/ http'[d] = http[d] /\ reply'[d] = reply[d]
               \/ reply'[d] = "error" \/ AddJob(d)
    BY <1>0, <2>1, <2>2
       DEF Arrive, Reject, FindDuplicate, SaveEvent, AddJob, IntakeFails,
           IntakeBreaks, Tell, TypeOK
  <2>3. AddJob(d) => Queued(d)'
    BY <1>0 DEF AddJob, Queued, TypeOK
  <2>4. ASSUME NEW h \in Host, Process(h) PROVE UNCHANGED <<http, reply>>
    BY <2>4, ProcessFrame
  <2>5. ASSUME NEW h \in Host, Crash(h)
        PROVE  reply' = reply /\ http'[d] \in {http[d], "lost"}
    BY <1>0, <2>5 DEF Crash, TypeOK
  <2>6. CASE UNCHANGED <<http, reply>>
    BY <2>1, <2>6
  <2>. QED
    BY <2>1, <2>2, <2>3, <2>4, <2>5, <2>6
    DEF Next, Intake, Promote, Recover, Take, ShutdownWorker, ApiWrites, vars,
        intake
<1>. QED  BY <1>1, <1>2, <1>3 DEF StoredIsQueued

(* A job for the event of d is in the queue or about to be added, or d was *)
(* told "already processed" of an event whose delivery could not queue it. *)
QueuedFor(d) ==
  \E c \in Delivery :
    /\ notice[d] # None /\ rows[c] # None /\ rows[c].event = EventOf(d)
    /\ \/ Queued(c) \/ http[c] = "adding"
       \/ reply[d] = "duplicate" /\ (reply[c] = "error" \/ http[c] = "lost")

(* A sender that was told "queued" or "already processed" may forget the   *)
(* notification, unless it was told "already processed" of an event whose  *)
(* first delivery failed between the row and the job.  This is what        *)
(* AcknowledgedIsQueued promises, but for the fairness of the adding.      *)
THEOREM AcknowledgedIsKept ==
  Spec => [](\A d \in Delivery :
               reply[d] \in {"queued", "duplicate"} => QueuedFor(d))
<1>1. Init => StoredIsQueued
  BY DEF Init, StoredIsQueued
<1>2. WInv /\ StoredIsQueued /\ AnswersTrue =>
        \A d \in Delivery :
          reply[d] \in {"queued", "duplicate"} => QueuedFor(d)
  <2> SUFFICES ASSUME WInv, StoredIsQueued, AnswersTrue, NEW d \in Delivery,
                      reply[d] \in {"queued", "duplicate"}
               PROVE  QueuedFor(d)
    OBVIOUS
  <2>1. CASE reply[d] = "queued"
    <3>1. Queued(d)
      BY <2>1 DEF AnswersTrue
    <3>2. notice[d] # None /\ rows[d] # None /\ rows[d].event = EventOf(d)
      BY <3>1 DEF WInv, IntakeAgrees, Queued
    <3>. QED  BY <3>1, <3>2 DEF QueuedFor
  <2>2. CASE reply[d] = "duplicate"
    BY <2>2 DEF AnswersTrue, StoredIsQueued, QueuedFor
  <2>. QED  BY <2>1, <2>2
<1>. QED
  BY WebhooksInvariant, SendersToldTruth, StoredStep, <1>1, <1>2, PTL DEF Spec

-----------------------------------------------------------------------------
(* The webhook path implements the life of an event.                       *)

LEMMA LifeStep ==
  ASSUME WInv, [Next]_vars
  PROVE  Unseen \/ Life!Next \/ UNCHANGED Life!vars
<1>0. /\ TypeOK /\ IntakeAgrees /\ EventsUnique /\ HostsAgree /\ EffectsAgree
  BY DEF WInv
<1>1. CASE UNCHANGED <<rows, job, effect, reply>>
  BY <1>1 DEF Unseen
<1>2. ASSUME NEW d \in Delivery, Reject(d)
      PROVE  Life!Refuse(d)
  <2>1. /\ UNCHANGED <<rows, job, effect>> /\ reply[d] = None /\ rows[d] = None
        /\ reply' = [reply EXCEPT ![d] = "rejected"]
    BY <1>0, <1>2 DEF Reject, queue, IntakeAgrees
  <2>. QED  BY <2>1 DEF Life!Refuse, EventIn, StageOf, HandledOf, Queued
<1>3. ASSUME NEW d \in Delivery, FindDuplicate(d), Saved(EventOf(d)) # {}
      PROVE  Life!Refuse(d)
  <2>1. /\ UNCHANGED <<rows, job, effect>> /\ reply[d] = None /\ rows[d] = None
        /\ reply' = [reply EXCEPT ![d] = "duplicate"]
        /\ \E c \in Delivery : rows[c] # None
    BY <1>0, <1>3 DEF FindDuplicate, Tell, Saved, queue, IntakeAgrees
  <2>. QED  BY <2>1 DEF Life!Refuse, EventIn, StageOf, HandledOf, Queued
<1>4. ASSUME NEW d \in Delivery, IntakeFails(d)
      PROVE  Life!Refuse(d)
  <2>1. /\ UNCHANGED <<rows, job, effect>> /\ reply[d] = None
        /\ rows[d] = None \/ job[d] = "none"
        /\ reply' = [reply EXCEPT ![d] = "error"]
    BY <1>0, <1>4 DEF IntakeFails, IntakeBreaks, Tell, queue, IntakeAgrees
  <2>. QED  BY <2>1 DEF Life!Refuse, EventIn, StageOf, HandledOf, Queued
<1>5. ASSUME NEW d \in Delivery, SaveEvent(d)
      PROVE  \E e \in EventId \union Delivery : Life!Accept(d, e)
  <2> DEFINE new == [event |-> EventOf(d), status |-> "pending", retries |-> 0]
  <2>1. /\ new \in Row /\ new.event = EventOf(d)
        /\ EventOf(d) \in EventId \union Delivery
    BY <1>5, EventType1 DEF SaveEvent, WInv, IntakeAgrees, Row
  <2>2. new # None /\ EventOf(d) # None
    BY <2>1, NoneAssumption, DeliveryAssumption
  <2>3. rows' = [rows EXCEPT ![d] = new]
    BY <1>5 DEF SaveEvent
  <2> HIDE DEF new
  <2>4. /\ rows[d] = None /\ job[d] = "none" /\ UNCHANGED <<job, effect, reply>>
        /\ \A c \in Delivery : rows[c] # None => rows[c].event # EventOf(d)
    BY <1>0, <1>5 DEF SaveEvent, Insertable, Saved, IntakeAgrees, queue
  <2>5. /\ rows'[d] # None /\ rows'[d].event = EventOf(d)
        /\ \A c \in Delivery \ {d} : rows'[c] = rows[c]
    BY <1>0, <2>1, <2>2, <2>3 DEF TypeOK
  <2>6. EventIn' = [EventIn EXCEPT ![d] = EventOf(d)]
    BY <2>5 DEF EventIn
  <2>7. StageOf' = [StageOf EXCEPT ![d] = "stored"] /\ StageOf[d] = "new"
    BY <2>4, <2>5 DEF StageOf, Queued
  <2>8. UNCHANGED <<HandledOf, reply>>
    BY <2>4 DEF HandledOf
  <2>9. \A c \in Delivery : EventIn[c] # EventOf(d)
    BY <2>2, <2>4 DEF EventIn
  <2>. QED  BY <2>1, <2>6, <2>7, <2>8, <2>9 DEF Life!Accept, Life!Move
<1>6. ASSUME NEW d \in Delivery, AddJob(d)
      PROVE  Life!Queue(d)
  <2>1. /\ UNCHANGED <<rows, effect>> /\ reply[d] = None /\ rows[d] # None
        /\ job[d] = "none"
        /\ \/ reply' = reply
           \/ \E answer \in {"queued", "error"} :
                reply' = [reply EXCEPT ![d] = answer]
        /\ job' = [job EXCEPT ![d] = "waiting"]
    BY <1>0, <1>6 DEF AddJob, Tell, IntakeAgrees
  <2>2. job'[d] = "waiting" /\ \A c \in Delivery \ {d} : job'[c] = job[c]
    BY <1>0, <2>1 DEF TypeOK
  <2>3. /\ StageOf'[d] = "queued" /\ StageOf[d] = "stored"
        /\ \A c \in Delivery \ {d} : StageOf'[c] = StageOf[c]
    BY <2>1, <2>2 DEF StageOf, Queued
  <2>4. StageOf' = [StageOf EXCEPT ![d] = "queued"]
    BY <2>3 DEF StageOf
  <2>. QED  BY <2>1, <2>3, <2>4 DEF Life!Queue, Life!Move, EventIn, HandledOf
<1>7. ASSUME NEW d \in Delivery, job[d] \in {"waiting", "delayed", "active"},
             job' = [job EXCEPT ![d] = job'[d]],
             job'[d] \in {"waiting", "delayed", "active", "failed"},
             UNCHANGED <<rows, effect, reply>>
      PROVE  Life!GiveUp(d) \/ UNCHANGED <<EventIn, StageOf, HandledOf, reply>>
  <2>1. rows[d] # None
    BY <1>0, <1>7 DEF IntakeAgrees
  <2>2. UNCHANGED <<EventIn, HandledOf>>
    BY <1>7 DEF EventIn, HandledOf
  <2>3. CASE job'[d] = "failed"
    <3>1. \A c \in Delivery \ {d} : job'[c] = job[c]
      BY <1>0, <1>7 DEF TypeOK
    <3>2. job[d] \notin {"none", "failed", "completed"}
      BY <1>7
    <3>3. \A c \in Delivery \ {d} : StageOf'[c] = StageOf[c]
      BY <1>7, <3>1 DEF StageOf, Queued
    <3>4. StageOf[d] = "queued" /\ StageOf'[d] = "given up"
      BY <1>7, <2>1, <2>3, <3>2 DEF StageOf, Queued
    <3>5. StageOf = [c \in Delivery |-> StageOf[c]]
      BY DEF StageOf
    <3>6. StageOf' = [c \in Delivery |-> StageOf'[c]]
      BY DEF StageOf
    <3>7. StageOf' = [StageOf EXCEPT ![d] = "given up"] /\ StageOf[d] = "queued"
      BY <3>3, <3>4, <3>5, <3>6
    <3>. QED  BY <1>7, <2>2, <3>7 DEF Life!GiveUp, Life!Move
  <2>4. CASE job'[d] # "failed"
    <3>1. UNCHANGED StageOf
      BY <1>0, <1>7, <2>1, <2>4 DEF StageOf, Queued, TypeOK
    <3>. QED  BY <1>7, <2>2, <3>1
  <2>. QED  BY <2>3, <2>4
<1>8. ASSUME NEW d \in Delivery, Promote(d) \/ Recover(d)
      PROVE  Life!GiveUp(d) \/ UNCHANGED <<EventIn, StageOf, HandledOf, reply>>
  BY <1>0, <1>7, <1>8 DEF Promote, Recover, intake, TypeOK
<1>9. ASSUME NEW h \in Host, NEW d \in Delivery, Take(h, d)
      PROVE  Life!GiveUp(d) \/ UNCHANGED <<EventIn, StageOf, HandledOf, reply>>
  BY <1>0, <1>7, <1>9 DEF Take, intake, TypeOK
<1>10. ASSUME NEW h \in Host, Throw(h)
       PROVE  \/ \E d \in Delivery : Life!GiveUp(d)
              \/ UNCHANGED <<EventIn, StageOf, HandledOf, reply>>
  <2>1. work[h] \in Delivery /\ job[work[h]] = "active"
    BY <1>10, AtWork DEF Throw
  <2>. QED  BY <1>0, <1>7, <1>10, <2>1 DEF Throw, intake, TypeOK
<1>11. ASSUME NEW h \in Host, Complete(h)
       PROVE  \E d \in Delivery : Life!Finish(d)
  <2> DEFINE d == work[h]
  <2>1. /\ d \in Delivery /\ job[d] = "active" /\ rows[d] # None
        /\ effect[d] # "none"
    BY <1>0, <1>11, AtWork DEF Complete, EffectsAgree
  <2>2. /\ UNCHANGED <<rows, effect, reply>>
        /\ job' = [job EXCEPT ![d] = "completed"]
    BY <1>11 DEF Complete, intake
  <2> HIDE DEF d
  <2>3. StageOf' = [StageOf EXCEPT ![d] = "processed"] /\ StageOf[d] = "queued"
    BY <1>0, <2>1, <2>2 DEF StageOf, Queued, TypeOK
  <2>4. Life!Finish(d)
    BY <2>1, <2>2, <2>3 DEF Life!Finish, Life!Move, EventIn, HandledOf
  <2>. QED  BY <2>1, <2>4
<1>12. ASSUME NEW h \in Host, LoadEvent(h) \/ FindSubject(h) \/ UpdateSubject(h)
       PROVE  \/ \E d \in Delivery : Life!Handle(d)
              \/ UNCHANGED <<EventIn, StageOf, HandledOf, reply>>
  <2> DEFINE d == work[h]
  <2>1. d \in Delivery /\ job[d] = "active" /\ rows[d] # None
    BY <1>12, AtWork DEF LoadEvent, FindSubject, UpdateSubject, Step
  <2>2. /\ UNCHANGED <<rows, job, reply>>
        /\ \A c \in Delivery \ {d} : effect'[c] = effect[c]
        /\ effect[d] # "none" => effect'[d] # "none"
    BY <1>0, <1>12 DEF LoadEvent, FindSubject, UpdateSubject, Step, intake, queue,
                       TypeOK
  <2> HIDE DEF d
  <2>3. UNCHANGED <<EventIn, StageOf>> /\ StageOf[d] = "queued"
    BY <2>1, <2>2 DEF EventIn, StageOf, Queued
  <2>4. HandledOf' = HandledOf \/ HandledOf' = HandledOf \union {d}
    BY <2>1, <2>2 DEF HandledOf
  <2>. QED  BY <2>1, <2>2, <2>3, <2>4 DEF Life!Handle
<1>13. ASSUME NEW h \in Host,
              MarkProcessing(h) \/ MarkProcessed(h) \/ RecordRetry(h)
       PROVE  UNCHANGED <<EventIn, StageOf, HandledOf, reply>>
  <2> DEFINE d == work[h]
  <2>1. /\ d \in Delivery /\ rows[d] # None /\ rows'[d] # None
        /\ rows'[d].event = rows[d].event
        /\ \A c \in Delivery \ {d} : rows'[c] = rows[c]
    BY <1>13, ProcessFrame, AtWork DEF Process
  <2>2. UNCHANGED <<job, effect, reply>>
    BY <1>13 DEF MarkProcessing, MarkProcessed, RecordRetry, Step, intake, queue
  <2> HIDE DEF d
  <2>. QED  BY <2>1, <2>2 DEF EventIn, StageOf, HandledOf, Queued
<1>14. ASSUME NEW h \in Host,
              \/ TryFails(h) \/ ReadRetries(h) \/ Bury(h) \/ CatchFails(h)
              \/ Crash(h) \/ ShutdownWorker(h)
       PROVE  UNCHANGED <<rows, job, effect, reply>>
  BY <1>14 DEF TryFails, ReadRetries, Bury, CatchFails, Crash, ShutdownWorker,
               Step, intake, queue
<1>15. ASSUME NEW d \in Delivery,
              Arrive(d) \/ (FindDuplicate(d) /\ Saved(EventOf(d)) = {})
       PROVE  UNCHANGED <<rows, job, effect, reply>>
  BY <1>15 DEF Arrive, FindDuplicate, queue
<1>16. ASSUME NEW r \in Subject, ApiWrites(r)
       PROVE  UNCHANGED <<rows, job, effect, reply>>
  BY <1>16 DEF ApiWrites, intake, queue
<1>17. CASE UNCHANGED vars
  BY <1>1, <1>17 DEF vars, intake, queue
<1>. QED
  BY <1>1, <1>2, <1>3, <1>4, <1>5, <1>6, <1>8, <1>9, <1>10, <1>11, <1>12,
     <1>13, <1>14, <1>15, <1>16, <1>17
  DEF Next, Intake, Process, Life!Next, Life!vars

(* With all faults the path keeps what EventLife promises: one accepted    *)
(* delivery and one job per event, nothing completed before it was dealt   *)
(* with, no answer "queued" without a job.                                 *)
THEOREM WebhooksImplementEventLife == Spec => ImplementsEventLife
<1>1. Init => Life!Init
  BY DEF Init, Life!Init, EventIn, StageOf, HandledOf
<1>2. WInv /\ [Next]_vars => [Unseen \/ Life!Next]_(Life!vars)
  BY LifeStep
<1>. QED
  BY WebhooksInvariant, <1>1, <1>2, PTL DEF Spec, ImplementsEventLife

-----------------------------------------------------------------------------
(* What the life of an event is worth                                      *)

(* Of the deliveries with one event id a single one is accepted, and what  *)
(* is processed was dealt with.                                            *)
OneLife ==
  /\ \A c, d \in Delivery :
       EventIn[c] = EventIn[d] /\ StageOf[c] # "new" /\ StageOf[d] # "new" => c = d
  /\ \A d \in Delivery : StageOf[d] = "processed" => d \in HandledOf

(* An event that is over stays so, an accepted one keeps its id, what was  *)
(* done is not undone, and a sender gets one answer.                       *)
Lasting(d) ==
  /\ StageOf[d] \in {"processed", "given up"} => StageOf'[d] = StageOf[d]
  /\ StageOf[d] # "new" => StageOf'[d] # "new" /\ EventIn'[d] = EventIn[d]
  /\ d \in HandledOf => d \in HandledOf'
  /\ reply[d] # None => reply'[d] = reply[d]

Answers == reply = [d \in Delivery |-> reply[d]]

LEMMA LifeStepKeeps ==
  ASSUME OneLife, Answers, [Unseen \/ Life!Next]_(Life!vars)
  PROVE  OneLife' /\ Answers' /\ \A d \in Delivery : Lasting(d)
<1>. DEFINE Kept == OneLife' /\ Answers' /\ \A d \in Delivery : Lasting(d)
<1>1. /\ EventIn = [d \in Delivery |-> EventIn[d]] /\ StageOf = [d \in Delivery |-> StageOf[d]]
      /\ None \notin {"queued", "duplicate", "error", "rejected"}
  BY NoneAssumption DEF EventIn, StageOf
<1>2. ASSUME NEW d \in Delivery, NEW e \in EventId \union Delivery, Life!Accept(d, e) PROVE Kept
  BY <1>1, <1>2 DEF Life!Accept, Life!Move, OneLife, Answers, Lasting
<1>3. ASSUME NEW d \in Delivery, Life!Queue(d) PROVE Kept
  BY <1>1, <1>3 DEF Life!Queue, Life!Move, OneLife, Answers, Lasting
<1>4. ASSUME NEW d \in Delivery, Life!Handle(d) PROVE Kept
  BY <1>1, <1>4 DEF Life!Handle, OneLife, Answers, Lasting
<1>5. ASSUME NEW d \in Delivery, Life!Finish(d) \/ Life!GiveUp(d) PROVE Kept
  BY <1>1, <1>5 DEF Life!Finish, Life!GiveUp, Life!Move, OneLife, Answers, Lasting
<1>6. ASSUME NEW d \in Delivery, Life!Refuse(d) PROVE Kept
  <2>1. PICK answer \in {"rejected", "error", "duplicate"} :
          /\ reply' = [reply EXCEPT ![d] = answer] /\ reply[d] = None
          /\ UNCHANGED <<EventIn, StageOf, HandledOf>>
    BY <1>6 DEF Life!Refuse
  <2>. QED  BY <1>1, <2>1 DEF OneLife, Answers, Lasting
<1>7. CASE UNCHANGED <<EventIn, StageOf, HandledOf, reply>>
  BY <1>7 DEF OneLife, Answers, Lasting
<1>8. Unseen \/ UNCHANGED Life!vars => UNCHANGED <<EventIn, StageOf, HandledOf, reply>>
  BY DEF Unseen, Life!vars, EventIn, StageOf, HandledOf, Queued
<1>. QED  BY <1>2, <1>3, <1>4, <1>5, <1>6, <1>7, <1>8 DEF Life!Next

(* Whatever implements the life of an event has both properties.           *)
LEMMA LifeWorth ==
  ImplementsEventLife => []OneLife /\ [][\A d \in Delivery : Lasting(d)]_(Life!vars)
<1>1. Life!Init => OneLife /\ Answers
  BY NoneAssumption DEF Life!Init, OneLife, Answers
<1>2. OneLife /\ Answers /\ [Unseen \/ Life!Next]_(Life!vars) => OneLife' /\ Answers'
  BY LifeStepKeeps
<1>3. OneLife /\ Answers /\ [Unseen \/ Life!Next]_(Life!vars) =>
        [\A d \in Delivery : Lasting(d)]_(Life!vars)
  BY LifeStepKeeps
<1>. QED  BY <1>1, <1>2, <1>3, PTL DEF ImplementsEventLife

(* Of all deliveries of a notification one is accepted (the unique         *)
(* event_id), and it is completed only after its handler ran, whatever is  *)
(* rerun, retried or lost.                                                 *)
THEOREM EventsLiveOnce == Spec => []OneLife
BY WebhooksImplementEventLife, LifeWorth, PTL

(* No step takes back an end, an acceptance, an effect or an answer.       *)
THEOREM EventsLast == Spec => [][\A d \in Delivery : Lasting(d)]_(Life!vars)
BY WebhooksImplementEventLife, LifeWorth, PTL

=============================================================================
