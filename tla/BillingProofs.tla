---------------------------- MODULE BillingProofs ----------------------------
(***************************************************************************)
(* Proofs about Billing, for any number of subscriptions, clients and      *)
(* activations of the scheduler, any disturbances and any limits.          *)
(*                                                                         *)
(* First the shape of the state: what an activation or a request holds     *)
(* when it waits for a statement, and where the rows come from.  Then, for *)
(* each subscription that met no exposure: one actor at most holds a copy  *)
(* of its row, the copy is fresh until it was charged, the next due date   *)
(* lies behind every charge, and what is retried had its last cycle.  At   *)
(* the end two promises the runs find broken, with what it takes to keep   *)
(* them: that a cancellation stops billing, and that amounts are positive. *)
(*                                                                         *)
(* What is said of one activation or one request is an operator on its     *)
(* record, so that a step needs to look only at the records it changes.    *)
(***************************************************************************)
EXTENDS Billing, TLAPS

(* Rows the code makes.                                                    *)
SoundRow == {e \in Row : Cycles > 0 => e.done <= Cycles}

Processing == {"saving", "noting", "scheduling", "reading", "updating"}
Statements == Processing \union {"idle", "listing", "looping", "fetching", "refetching"}
Goals == {"none", "expire", "suspend", "schedule", "clear"}

RunType ==
  [at : Statements, loop : {"due", "retry", "hand"}, todo : SUBSET SoundRow,
   queue : SUBSET Subscription, id : Subscription \union {NoRow},
   copy : SoundRow \union {NoRow}, found : SoundRow \union {NoRow}, goal : Goals,
   caught : BOOLEAN]

(* What an activation holds where it stands; X are the ids in the table.   *)
RunSound(u, X) ==
  /\ u.at \in Processing =>
       u.copy \in SoundRow /\ u.copy.id = u.id /\ u.id \in X
  /\ u.at \notin Processing => u.copy = NoRow
  /\ u.at = "updating" => u.found \in SoundRow /\ u.found.id = u.id
  /\ u.at \in {"fetching", "refetching"} => u.id \in Subscription
  /\ u.at = "fetching" => u.loop # "due"
  /\ u.at \in {"fetching", "refetching"} /\ u.loop = "retry" => u.id \in X
  /\ u.at = "refetching" => u.loop = "retry"
  /\ u.at = "looping" => u.loop # "hand"
  /\ u.at \in {"idle", "listing"} => u.todo = {} /\ u.queue = {} /\ u.loop = "due"
  /\ u.loop # "due" => u.todo = {}
  /\ u.queue \subseteq X
  /\ \A e \in u.todo : e.id \in X /\ (u.copy # NoRow => e.id # u.id)
  /\ \A e, f \in u.todo : e.id = f.id => e = f

CallStages == {"unsent", "creating", "hanging", "inserting", "confirming", "reading",
               "writing", "answered", "refused", "lost"}

CallType ==
  [at : CallStages, kind : OperationKinds \union {"none"},
   id : Subscription \union {NoRow}, copy : SoundRow \union {NoRow},
   status : Status \union {"none"}, interval : Interval \union {0}, paid : BOOLEAN]

CallSound(u, X) ==
  /\ u.at = "unsent" => u.kind = "none"
  /\ u.at # "unsent" => u.kind # "none" /\ u.id \in Subscription
  /\ u.at \in {"creating", "inserting", "confirming"} =>
       /\ u.kind = "create" /\ u.copy \in SoundRow
       /\ u.copy.id = u.id /\ u.copy.status = "active"
  /\ u.at \in {"creating", "inserting"} => u.copy.done = 0
  /\ u.at \in {"reading", "writing"} =>
       /\ u.kind \in {"update", "cancel"}
       /\ u.kind = "cancel" => u.status = "cancelled"
  /\ u.at = "writing" => u.copy \in SoundRow /\ u.copy.id = u.id /\ u.id \in X
  /\ u.at = "confirming" => u.id \in X

Table == {s \in Subscription : Exists(s)}

Types ==
  /\ rows \in [Subscription -> SoundRow \union {NoRow}]
  /\ \A s \in Table : rows[s].id = s
  /\ gateway \subseteq Subscription
  /\ retries \in [Subscription -> [count : 0 .. MaxRetries, ready : BOOLEAN]]
  /\ initialized \in BOOLEAN
  /\ run \in [Runner -> RunType]
  /\ call \in [Client -> CallType]
  /\ month \in 0 .. MaxMonth /\ disturbed \in 0 .. MaxDisturbed
  /\ bills \in [Subscription -> Seq(Nat)]
  /\ exposed \subseteq Subscription

Retried(s) == retries[s].count > 0 \/ retries[s].ready

Shape ==
  /\ Types
  /\ \A r \in Runner : RunSound(run[r], Table)
  /\ \A c \in Client : CallSound(call[c], Table)
  /\ \A s \in Subscription : Retried(s) => s \in Table

(* One request creates a subscription, at the gateway first.               *)
Creations ==
  /\ \A c, d \in Client :
       /\ call[c].kind = "create" /\ call[d].kind = "create" /\ call[c].id = call[d].id
       => c = d
  /\ \A s \in gateway : \E c \in Client : call[c].kind = "create" /\ call[c].id = s
  /\ \A s \in Table :
       /\ s \in gateway
       /\ \E c \in Client : /\ call[c].kind = "create" /\ call[c].id = s
                            /\ call[c].at \notin {"creating", "inserting", "hanging"}
  /\ \A c \in Client : call[c].kind = "create" =>
       /\ call[c].at = "creating" => call[c].id \notin gateway
       /\ call[c].at \in {"inserting", "confirming"} => call[c].id \in gateway
       /\ call[c].at = "answered" => call[c].id \in Table
       /\ call[c].at = "refused" /\ call[c].id \notin exposed => call[c].id \notin gateway

(* Holding a copy of the row of a subscription.                            *)
RunHas(u, s) == (\E e \in u.todo : e.id = s) \/ (u.id = s /\ u.copy # NoRow)
CallHas(u, s) == u.id = s /\ u.at \in {"writing", "confirming"}

(* A retry of s is among those that are still to be processed.             *)
Awaits(u, s) == s \in u.queue \/ (u.id = s /\ u.at = "fetching" /\ u.loop = "retry")

Exclusive(s) ==
  /\ \A r, q \in Runner : RunHas(run[r], s) /\ RunHas(run[q], s) => r = q
  /\ \A c, d \in Client : CallHas(call[c], s) /\ CallHas(call[d], s) => c = d
  /\ \A r \in Runner, c \in Client : ~ (RunHas(run[r], s) /\ CallHas(call[c], s))

(* What holders of a copy may rely on: row and b are the row and the bills *)
(* of s, m is the month.                                                   *)
RunFresh(u, s, row, b, m) ==
  /\ \A e \in u.todo : e.id = s => e = row /\ e.status = "active" /\ e.next <= m
  /\ u.id = s /\ u.at = "saving" =>
       /\ row.status = "active" /\ u.copy.status = "active" /\ ~CyclesDone(row)
       /\ u.copy.done = 1 + Len(b) /\ u.copy.last < u.copy.next
       /\ \A i \in 1 .. Len(b) : b[i] <= u.copy.last
       /\ u.loop # "retry"
  /\ u.id = s /\ u.at \in Processing \ {"saving"} =>
       /\ CyclesDone(row) /\ row.status # "cancelled"
       /\ \/ u.at = "noting"
          \/ u.at \in {"reading", "updating"} /\ u.goal = "expire"
          => u.copy = row
       /\ u.at \in {"reading", "updating"} => u.goal # "clear"
       /\ u.at = "updating" => u.found = row

CallFresh(u, s, row, b) ==
  /\ u.id = s /\ u.at = "writing" => u.copy = row
  /\ u.id = s /\ u.at = "confirming" =>
       row.status = "active" /\ row.done = 0 /\ b = <<>> /\ u.copy.done = 1

(* The row tells what was billed, and the next date was not billed yet.    *)
Counts(row, b) ==
  /\ row.done = 1 + Len(b)
  /\ \A i \in 1 .. Len(b) : b[i] <= row.last /\ b[i] < row.next

Counted(s) ==
  /\ s \notin Table => bills[s] = <<>>
  /\ s \in Table /\ ~Recording(s) /\ ~Creating(s) => Counts(rows[s], bills[s])

Billed(s) ==
  /\ Exclusive(s)
  /\ \A r \in Runner : RunFresh(run[r], s, rows[s], bills[s], month)
  /\ \A c \in Client : CallFresh(call[c], s, rows[s], bills[s])
  /\ Counted(s)
  /\ OnSchedule(s)
  /\ Retried(s) \/ (\E r \in Runner : Awaits(run[r], s)) => CyclesDone(rows[s])

BInv == Shape /\ Creations /\ \A s \in Subscription \ exposed : Billed(s)

-----------------------------------------------------------------------------
(* Operators on rows and records                                           *)

LEMMA NoRowIsNone == NoRow \notin SoundRow
BY DEF NoRow, SoundRow, Row, Status

LEMMA MoreRows ==
  ASSUME NEW X, NEW Y, X \subseteq Y
  PROVE  /\ \A u : RunSound(u, X) => RunSound(u, Y)
         /\ \A u : CallSound(u, X) => CallSound(u, Y)
BY DEF RunSound, CallSound

LEMMA IdleSound ==
  ASSUME NEW X
  PROVE  Idle \in RunType /\ RunSound(Idle, X)
BY DEF Idle, RunType, RunSound, Statements, Processing, Goals

LEMMA NextDate ==
  ASSUME NEW from \in Nat, NEW i \in Interval, NEW n \in calculateNextBillingDate(from, i)
  PROVE  n \in Nat /\ n > from
BY IntervalAssumption DEF calculateNextBillingDate

LEMMA ResumeSound ==
  ASSUME NEW X, NEW u \in RunType, RunSound(u, X)
  PROVE  Resume(u) \in RunType /\ RunSound(Resume(u), X)
<1>1. CASE u.loop = "hand"
  BY <1>1, IdleSound DEF Resume
<1>2. CASE u.loop # "hand"
  <2>. DEFINE v == [Idle EXCEPT !.at = "looping", !.loop = u.loop, !.todo = u.todo,
                                !.queue = u.queue]
  <2>1. Resume(u) = v
    BY <1>2 DEF Resume
  <2>2. v \in RunType
    BY IdleSound DEF RunType, Statements
  <2>3. /\ v.at = "looping" /\ v.loop = u.loop /\ v.todo = u.todo
        /\ v.queue = u.queue /\ v.copy = Idle.copy
    BY IdleSound DEF RunType
  <2>4. Idle.copy = NoRow
    BY DEF Idle
  <2>. HIDE DEF v
  <2>5. RunSound(v, X)
    BY <1>2, <2>3, <2>4 DEF RunSound, Processing
  <2>. QED  BY <2>1, <2>2, <2>5
<1>. QED  BY <1>1, <1>2

LEMMA LoopingSound ==
  ASSUME NEW X
  PROVE  /\ [Idle EXCEPT !.at = "looping"] \in RunType
         /\ RunSound([Idle EXCEPT !.at = "looping"], X)
<1>. DEFINE v == [Idle EXCEPT !.at = "looping"]
<1>1. v \in RunType
  BY IdleSound DEF RunType, Statements
<1>2. /\ v.at = "looping" /\ v.loop = Idle.loop /\ v.todo = Idle.todo
      /\ v.queue = Idle.queue /\ v.copy = Idle.copy
  BY IdleSound DEF RunType
<1>3. Idle.copy = NoRow /\ Idle.loop = "due" /\ Idle.todo = {} /\ Idle.queue = {}
  BY DEF Idle
<1>. HIDE DEF v
<1>4. RunSound(v, X)
  BY <1>2, <1>3 DEF RunSound, Processing
<1>. QED  BY <1>1, <1>4 DEF v

LEMMA UpdatedSound ==
  ASSUME NEW e \in SoundRow, NEW goal
  PROVE  LET f == Updated(e, goal) IN
         /\ f \in SoundRow /\ f.id = e.id /\ f.done = e.done
         /\ f.last = e.last /\ f.next = e.next
         /\ f.status = e.status \/ f.status \in {"expired", "suspended"}
<1>. DEFINE st == CASE goal = "expire" -> "expired" [] goal = "suspend" -> "suspended"
                    [] OTHER -> e.status
            f == [e EXCEPT !.status = st]
<1>1. e \in Row /\ (Cycles > 0 => e.done <= Cycles)
  BY DEF SoundRow
<1>2. st = e.status \/ st \in {"expired", "suspended"}
  BY Zenon
<1>3. st \in Status
  BY <1>1, <1>2 DEF Row, Status
<1>. HIDE DEF st
<1>4. f \in Row
  BY <1>1, <1>3, Zenon DEF Row
<1>5. /\ f.id = e.id /\ f.done = e.done /\ f.last = e.last /\ f.next = e.next
      /\ f.status = st
  BY <1>1 DEF Row
<1>6. Updated(e, goal) = f
  BY DEF Updated, st
<1>. HIDE DEF f
<1>. QED  BY <1>1, <1>2, <1>4, <1>5, <1>6 DEF SoundRow

LEMMA AbandonSound ==
  ASSUME NEW X, NEW u \in RunType
  PROVE  Abandon(u) \in RunType /\ RunSound(Abandon(u), X)
BY LoopingSound, IdleSound DEF Abandon

LEMMA ThrownSound ==
  ASSUME NEW X, NEW u \in RunType, RunSound(u, X),
         u.at \in Processing \/ (u.at = "fetching" /\ u.loop = "retry")
  PROVE  Thrown(u) \in RunType /\ RunSound(Thrown(u), X)
<1>1. CASE u.caught
  BY <1>1, AbandonSound DEF Thrown
<1>2. CASE ~u.caught /\ u.loop = "retry"
  <2>. DEFINE v == [u EXCEPT !.at = "refetching", !.caught = TRUE, !.goal = "none",
                             !.found = NoRow, !.copy = NoRow]
  <2>1. Thrown(u) = v
    BY <1>2 DEF Thrown
  <2>2. v \in RunType
    BY DEF RunType, Statements, Goals, Processing
  <2>3. /\ v.at = "refetching" /\ v.loop = "retry" /\ v.copy = NoRow
        /\ v.todo = u.todo /\ v.queue = u.queue /\ v.id = u.id
    BY <1>2 DEF RunType
  <2>4. u.todo = {} /\ u.queue \subseteq X /\ u.id \in X /\ u.id \in Subscription
    BY <1>2 DEF RunType, RunSound, Processing, SoundRow, Row
  <2>. HIDE DEF v
  <2>5. RunSound(v, X)
    BY <2>3, <2>4 DEF RunSound, Processing
  <2>. QED  BY <2>1, <2>2, <2>5
<1>3. CASE ~u.caught /\ u.loop # "retry"
  <2>. DEFINE v == [u EXCEPT !.at = "scheduling", !.caught = TRUE, !.goal = "none",
                             !.found = NoRow, !.copy = u.copy]
  <2>1. Thrown(u) = v
    BY <1>3 DEF Thrown, RunType
  <2>2. v \in RunType
    BY DEF RunType, Statements, Goals, Processing
  <2>3. /\ v.at = "scheduling" /\ v.loop = u.loop /\ v.copy = u.copy
        /\ v.todo = u.todo /\ v.queue = u.queue /\ v.id = u.id
    BY DEF RunType
  <2>4. u.at \in Processing
    BY <1>3
  <2>. HIDE DEF v
  <2>5. RunSound(v, X)
    BY <2>3, <2>4 DEF RunSound, Processing
  <2>. QED  BY <2>1, <2>2, <2>5
<1>. QED  BY <1>1, <1>2, <1>3

(* What processBilling leaves for the activation to wait for.              *)
BillingLeaves(r, u, e, v) ==
  /\ run' = [run EXCEPT ![r] = v] /\ RunSound(v, Table)
  /\ v.id = e.id /\ v.todo = u.todo /\ v.loop = u.loop /\ v.queue = u.queue
  /\ \/ /\ CyclesDone(e) /\ v.at = "reading" /\ v.goal = "expire"
        /\ v.copy = e /\ bills' = bills
     \/ /\ ~CyclesDone(e) /\ v.at = "saving"
        /\ v.copy.status = e.status /\ v.copy.done = e.done + 1
        /\ v.copy.last = month /\ v.copy.next > month
        /\ bills'[e.id] = Append(bills[e.id], e.next)

LEMMA BillingSound ==
  ASSUME Types, NEW r \in Runner, NEW u \in RunType, NEW e \in SoundRow,
         processBilling(r, u, e),
         e.id \in Table, u.queue \subseteq Table,
         u.loop # "due" => u.todo = {},
         \A f \in u.todo : f.id \in Table /\ f.id # e.id,
         \A f, g \in u.todo : f.id = g.id => f = g
  PROVE  /\ bills' \in [Subscription -> Seq(Nat)]
         /\ \A s \in Subscription : s # e.id => bills'[s] = bills[s]
         /\ \E v \in RunType : BillingLeaves(r, u, e, v)
<1>. DEFINE w == [u EXCEPT !.id = e.id, !.copy = e]
<1>1. e.id \in Subscription /\ e.next \in Nat /\ e.done \in Nat /\ e.interval \in Interval
  BY DEF SoundRow, Row
<1>2. w \in RunType /\ w.id = e.id /\ w.copy = e
  BY <1>1 DEF RunType
<1>3. w.todo = u.todo /\ w.queue = u.queue /\ w.loop = u.loop
  BY DEF RunType
<1>4. CASE CyclesDone(e)
  <2>. DEFINE v == [w EXCEPT !.at = "reading", !.goal = "expire"]
  <2>1. run' = [run EXCEPT ![r] = v] /\ bills' = bills
    BY <1>4 DEF processBilling
  <2>. HIDE DEF w
  <2>2. v \in RunType
    BY <1>2 DEF RunType, Statements, Processing, Goals
  <2>3. /\ v.at = "reading" /\ v.goal = "expire" /\ v.id = e.id /\ v.copy = e
        /\ v.todo = u.todo /\ v.queue = u.queue /\ v.loop = u.loop
    BY <1>2, <1>3 DEF RunType
  <2>. HIDE DEF v
  <2>4. RunSound(v, Table)
    BY <2>3 DEF RunSound, Processing
  <2>. QED  BY <1>4, <2>1, <2>2, <2>3, <2>4 DEF Types, BillingLeaves
<1>5. CASE ~CyclesDone(e)
  <2>1. PICK n \in calculateNextBillingDate(month, e.interval) :
          run' = [run EXCEPT ![r] = [w EXCEPT !.at = "saving", !.copy.done = @ + 1,
                                              !.copy.last = month, !.copy.next = n]]
    BY <1>5 DEF processBilling
  <2>2. bills' = [bills EXCEPT ![e.id] = Append(@, e.next)]
    BY <1>5 DEF processBilling
  <2>3. month \in Nat
    BY BoundsAssumption DEF Types
  <2>4. n \in Nat /\ n > month
    BY <1>1, <2>3, NextDate
  <2>. DEFINE f == [e EXCEPT !.done = @ + 1, !.last = month, !.next = n]
              v == [w EXCEPT !.at = "saving", !.copy = f]
  <2>5. /\ f \in SoundRow /\ f.id = e.id /\ f.status = e.status
        /\ f.done = e.done + 1 /\ f.last = month /\ f.next = n
    <3>1. e \in Row
      BY DEF SoundRow
    <3>2. e.done + 1 \in Nat
      BY <1>1
    <3>3. f \in Row
      BY <2>3, <2>4, <3>1, <3>2, Zenon DEF Row
    <3>4. /\ f.id = e.id /\ f.status = e.status
          /\ f.done = e.done + 1 /\ f.last = month /\ f.next = n
      BY <3>1 DEF Row
    <3>. HIDE DEF f
    <3>. QED  BY <1>1, <1>5, <3>3, <3>4, BoundsAssumption DEF SoundRow, CyclesDone
  <2>6. [w EXCEPT !.at = "saving", !.copy.done = @ + 1, !.copy.last = month,
                  !.copy.next = n] = v
    BY <1>2 DEF RunType
  <2>7. run' = [run EXCEPT ![r] = v]
    BY <2>1, <2>6
  <2>. HIDE DEF w, f
  <2>8. v \in RunType
    BY <1>2, <2>5 DEF RunType, Statements, Processing
  <2>9. /\ v.at = "saving" /\ v.id = e.id /\ v.copy = f
        /\ v.todo = u.todo /\ v.queue = u.queue /\ v.loop = u.loop
    BY <1>2, <1>3 DEF RunType
  <2>. HIDE DEF v
  <2>10. RunSound(v, Table)
    BY <2>5, <2>9 DEF RunSound, Processing
  <2>11. /\ bills' \in [Subscription -> Seq(Nat)]
         /\ bills'[e.id] = Append(bills[e.id], e.next)
         /\ \A s \in Subscription : s # e.id => bills'[s] = bills[s]
    BY <1>1, <2>2 DEF Types
  <2>. QED  BY <1>5, <2>4, <2>5, <2>7, <2>8, <2>9, <2>10, <2>11 DEF BillingLeaves
<1>. QED  BY <1>4, <1>5

-----------------------------------------------------------------------------
(* The shape of the state                                                  *)

LEMMA RowWritten ==
  ASSUME Types, NEW s \in Subscription, NEW e \in SoundRow, e.id = s,
         rows' = [rows EXCEPT ![s] = e]
  PROVE  /\ rows' \in [Subscription -> SoundRow \union {NoRow}]
         /\ Table' = Table \union {s}
         /\ \A t \in Table' : rows'[t].id = t
         /\ rows'[s] = e /\ \A t \in Subscription : t # s => rows'[t] = rows[t]
<1>1. /\ rows' \in [Subscription -> SoundRow \union {NoRow}]
      /\ rows'[s] = e /\ \A t \in Subscription : t # s => rows'[t] = rows[t]
  BY DEF Types
<1>2. Table' = Table \union {s}
  BY <1>1, NoRowIsNone DEF Table, Exists
<1>. QED  BY <1>1, <1>2 DEF Types

(* An activation takes a step.                                             *)
LEMMA ShapeByRun ==
  ASSUME Shape, NEW r \in Runner, NEW v \in RunType, RunSound(v, Table'),
         run' = [run EXCEPT ![r] = v], UNCHANGED <<gateway, call, month, initialized>>,
         rows' \in [Subscription -> SoundRow \union {NoRow}],
         Table \subseteq Table', \A t \in Table' : rows'[t].id = t,
         retries' \in [Subscription -> [count : 0 .. MaxRetries, ready : BOOLEAN]],
         disturbed' \in 0 .. MaxDisturbed,
         bills' \in [Subscription -> Seq(Nat)],
         exposed' \subseteq Subscription,
         \A s \in Subscription : Retried(s)' => s \in Table'
  PROVE  Shape'
<1>1. run' \in [Runner -> RunType]
  BY DEF Shape, Types
<1>2. Types'
  BY <1>1 DEF Shape, Types
<1>3. \A q \in Runner : RunSound(run'[q], Table')
  <2>. TAKE q \in Runner
  <2>1. CASE q = r
    BY <2>1 DEF Shape, Types
  <2>2. CASE q # r
    BY <2>2, MoreRows DEF Shape, Types
  <2>. QED  BY <2>1, <2>2
<1>4. \A c \in Client : CallSound(call'[c], Table')
  BY MoreRows DEF Shape
<1>. QED  BY <1>2, <1>3, <1>4 DEF Shape

(* A request takes a step.                                                 *)
LEMMA ShapeByCall ==
  ASSUME Shape, NEW c \in Client, NEW v \in CallType, CallSound(v, Table'),
         call' = [call EXCEPT ![c] = v],
         UNCHANGED <<run, month, initialized, retries, bills>>,
         gateway' \subseteq Subscription,
         rows' \in [Subscription -> SoundRow \union {NoRow}],
         Table \subseteq Table', \A t \in Table' : rows'[t].id = t,
         disturbed' \in 0 .. MaxDisturbed,
         exposed' \subseteq Subscription
  PROVE  Shape'
<1>1. call' \in [Client -> CallType]
  BY DEF Shape, Types
<1>2. Types'
  BY <1>1 DEF Shape, Types
<1>3. \A d \in Client : CallSound(call'[d], Table')
  <2>. TAKE d \in Client
  <2>1. CASE d = c
    BY <2>1 DEF Shape, Types
  <2>2. CASE d # c
    BY <2>2, MoreRows DEF Shape, Types
  <2>. QED  BY <2>1, <2>2
<1>4. \A q \in Runner : RunSound(run'[q], Table')
  BY MoreRows DEF Shape
<1>5. \A s \in Subscription : Retried(s)' => s \in Table'
  BY DEF Shape, Retried
<1>. QED  BY <1>2, <1>3, <1>4, <1>5 DEF Shape

-----------------------------------------------------------------------------
(* What is billed                                                          *)

LEMMA HoldersFresh ==
  ASSUME NEW X, NEW u \in RunType, RunSound(u, X), NEW s, ~RunHas(u, s),
         NEW row, NEW b, NEW m
  PROVE  RunFresh(u, s, row, b, m)
BY NoRowIsNone DEF RunSound, RunHas, RunFresh, Processing

LEMMA HoldersListed ==
  ASSUME Shape, NEW s, s \notin Table
  PROVE  (\A r \in Runner : ~RunHas(run[r], s)) /\ (\A c \in Client : ~CallHas(call[c], s))
BY DEF Shape, RunSound, CallSound, RunHas, CallHas

LEMMA HeldMeans ==
  ASSUME NEW s, ~Held(s)
  PROVE  (\A r \in Runner : ~RunHas(run[r], s)) /\ (\A c \in Client : ~CallHas(call[c], s))
BY DEF Held, RunHolds, CallHolds, RunHas, CallHas

LEMMA OneMoreBill ==
  ASSUME NEW s \in Subscription, Types, OnSchedule(s), month' = month,
         NEW x \in Nat, x <= month,
         \A i \in 1 .. Len(bills[s]) : bills[s][i] < x,
         bills'[s] = Append(bills[s], x)
  PROVE  OnSchedule(s)' /\ Len(bills'[s]) = Len(bills[s]) + 1
<1>1. bills[s] \in Seq(Nat)
  BY DEF Types
<1>2. /\ Len(bills'[s]) = Len(bills[s]) + 1 /\ bills'[s][Len(bills[s]) + 1] = x
      /\ \A i \in 1 .. Len(bills[s]) : bills'[s][i] = bills[s][i]
      /\ Len(bills[s]) \in Nat
  BY <1>1
<1>3. ASSUME NEW i \in 1 .. Len(bills'[s])
      PROVE  bills'[s][i] <= month /\ (i > 1 => bills'[s][i - 1] < bills'[s][i])
  <2>1. CASE i = Len(bills[s]) + 1
    <3>1. i > 1 => i - 1 \in 1 .. Len(bills[s])
      BY <1>2, <2>1
    <3>. QED  BY <1>2, <2>1, <3>1
  <2>2. CASE i # Len(bills[s]) + 1
    <3>1. i \in 1 .. Len(bills[s]) /\ (i > 1 => i - 1 \in 1 .. Len(bills[s]))
      BY <1>2, <1>3, <2>2
    <3>. QED  BY <1>2, <3>1 DEF OnSchedule
  <2>. QED  BY <2>1, <2>2
<1>. QED  BY <1>2, <1>3 DEF OnSchedule

(* An activation takes a step.                                             *)
LEMMA BilledByRun ==
  ASSUME BInv, NEW r \in Runner, NEW v \in RunType, RunSound(v, Table), Table' = Table,
         run' = [run EXCEPT ![r] = v], UNCHANGED <<call, month>>,
         NEW s \in Subscription, s \notin exposed,
         RunHas(v, s) /\ ~RunHas(run[r], s) => ~Held(s),
         \/ RunHas(v, s) \/ RunHas(run[r], s)
         \/ rows'[s] = rows[s] /\ bills'[s] = bills[s],
         RunFresh(v, s, rows'[s], bills'[s], month),
         \/ v.id = s /\ v.at = "saving"
         \/ Counts(rows'[s], bills'[s])
         \/ /\ rows'[s] = rows[s] /\ bills'[s] = bills[s]
            /\ ~(run[r].id = s /\ run[r].at = "saving"),
         OnSchedule(s)',
         Retried(s)' \/ Awaits(v, s) => CyclesDone(rows'[s]),
         CyclesDone(rows[s]) => CyclesDone(rows'[s])
  PROVE  Billed(s)'
<1>. USE DEF BInv
<1>1. /\ run'[r] = v /\ \A q \in Runner : q # r => run'[q] = run[q]
      /\ \A q \in Runner : run[q] \in RunType /\ RunSound(run[q], Table)
  BY DEF Shape, Types
<1>2. Billed(s)
  OBVIOUS
<1>3. ASSUME RunHas(v, s) \/ RunHas(run[r], s)
      PROVE  /\ \A q \in Runner : q # r => ~RunHas(run[q], s)
             /\ \A c \in Client : ~CallHas(call[c], s)
  BY <1>2, <1>3, HeldMeans DEF Billed, Exclusive
<1>4. Exclusive(s)'
  <2>1. ASSUME NEW q \in Runner, NEW p \in Runner, RunHas(run'[q], s), RunHas(run'[p], s)
        PROVE  q = p
    BY <1>1, <1>2, <1>3, <2>1 DEF Billed, Exclusive
  <2>2. ASSUME NEW q \in Runner, NEW c \in Client
        PROVE  ~(RunHas(run'[q], s) /\ CallHas(call'[c], s))
    BY <1>1, <1>2, <1>3 DEF Billed, Exclusive
  <2>. QED  BY <1>2, <2>1, <2>2 DEF Billed, Exclusive
<1>5. \A q \in Runner : RunFresh(run'[q], s, rows'[s], bills'[s], month')
  <2>. TAKE q \in Runner
  <2>1. CASE q = r
    BY <1>1, <2>1
  <2>2. CASE q # r /\ ~RunHas(run[q], s)
    BY <1>1, <2>2, HoldersFresh
  <2>3. CASE q # r /\ RunHas(run[q], s)
    BY <1>1, <1>2, <1>3, <2>3 DEF Billed
  <2>. QED  BY <2>1, <2>2, <2>3
<1>6. \A c \in Client : CallFresh(call'[c], s, rows'[s], bills'[s])
  <2>. TAKE c \in Client
  <2>1. CASE ~CallHas(call[c], s)
    BY <2>1 DEF CallHas, CallFresh
  <2>2. CASE CallHas(call[c], s)
    BY <1>2, <1>3, <2>2 DEF Billed
  <2>. QED  BY <2>1, <2>2
<1>7. Counted(s)'
  <2>1. s \notin Table => bills'[s] = <<>>
    <3>1. s \notin Table => ~RunHas(v, s) /\ ~RunHas(run[r], s)
      BY HoldersListed DEF RunSound, RunHas
    <3>. QED  BY <1>2, <3>1 DEF Billed, Counted
  <2>2. ASSUME s \in Table, ~Recording(s)', ~Creating(s)'
        PROVE  Counts(rows'[s], bills'[s])
    <3>1. ~(v.id = s /\ v.at = "saving")
      BY <1>1, <2>2 DEF Recording
    <3>2. CASE /\ rows'[s] = rows[s] /\ bills'[s] = bills[s]
               /\ ~(run[r].id = s /\ run[r].at = "saving")
      <4>1. ~Recording(s) /\ ~Creating(s)
        BY <1>1, <2>2, <3>2 DEF Recording, Creating
      <4>. QED  BY <1>2, <2>2, <3>2, <4>1 DEF Billed, Counted
    <3>. QED  BY <3>1, <3>2
  <2>. QED  BY <2>1, <2>2 DEF Counted
<1>8. (\E q \in Runner : Awaits(run'[q], s)) => CyclesDone(rows'[s])
  BY <1>1, <1>2 DEF Billed
<1>. QED  BY <1>4, <1>5, <1>6, <1>7, <1>8 DEF Billed

LEMMA StepByRun ==
  ASSUME BInv, NEW r \in Runner, NEW v \in RunType, RunSound(v, Table), Table' = Table,
         run' = [run EXCEPT ![r] = v], UNCHANGED <<gateway, call, month, initialized>>,
         rows' \in [Subscription -> SoundRow \union {NoRow}],
         \A t \in Table' : rows'[t].id = t,
         retries' \in [Subscription -> [count : 0 .. MaxRetries, ready : BOOLEAN]],
         \A s \in Subscription : Retried(s)' => s \in Table,
         disturbed' \in 0 .. MaxDisturbed,
         bills' \in [Subscription -> Seq(Nat)],
         exposed \subseteq exposed', exposed' \subseteq Subscription,
         \A s \in Subscription \ exposed' : Billed(s)'
  PROVE  BInv'
<1>1. Shape'
  BY ShapeByRun DEF BInv
<1>2. Creations'
  BY DEF BInv, Creations
<1>. QED  BY <1>1, <1>2 DEF BInv

LEMMA NoRetryType ==
  /\ NoRetry \in [count : 0 .. MaxRetries, ready : BOOLEAN]
  /\ NoRetry.count = 0 /\ ~NoRetry.ready
<1>1. 0 \in 0 .. MaxRetries
  BY BoundsAssumption
<1>2. NoRetry \in [count : 0 .. MaxRetries, ready : BOOLEAN]
  BY <1>1, Zenon DEF NoRetry
<1>. QED  BY <1>2 DEF NoRetry

LEMMA RetriesDropped ==
  ASSUME Types,
         \/ retries' = retries
         \/ \E s \in Subscription : retries' = [retries EXCEPT ![s] = NoRetry]
  PROVE  /\ retries' \in [Subscription -> [count : 0 .. MaxRetries, ready : BOOLEAN]]
         /\ \A s \in Subscription : Retried(s)' => Retried(s)
<1>. DEFINE R == [count : 0 .. MaxRetries, ready : BOOLEAN]
<1>1. retries \in [Subscription -> R] /\ NoRetry \in R
  BY NoRetryType DEF Types
<1>. HIDE DEF R
<1>2. CASE retries' = retries
  BY <1>1, <1>2 DEF Retried, R
<1>3. ASSUME NEW t \in Subscription, retries' = [retries EXCEPT ![t] = NoRetry]
      PROVE  \A s \in Subscription : Retried(s)' => Retried(s)
  <2>1. /\ retries' \in [Subscription -> R] /\ retries'[t] = NoRetry
        /\ \A s \in Subscription : s # t => retries'[s] = retries[s]
    BY <1>1, <1>3
  <2>. QED  BY <2>1, NoRetryType DEF Retried
<1>4. retries' \in [Subscription -> R]
  BY <1>1, <1>2, <1>3
<1>. QED  BY <1>2, <1>3, <1>4 DEF R

(* It only waits for something else, or loads a copy nobody holds.         *)
LEMMA QuietRun ==
  ASSUME BInv, NEW r \in Runner, NEW v \in RunType, RunSound(v, Table),
         run' = [run EXCEPT ![r] = v],
         UNCHANGED <<rows, gateway, call, month, initialized, bills>>,
         \/ retries' = retries
         \/ \E s \in Subscription : retries' = [retries EXCEPT ![s] = NoRetry],
         disturbed' \in 0 .. MaxDisturbed,
         exposed \subseteq exposed', exposed' \subseteq Subscription,
         v.at # "saving", run[r].at # "saving" \/ run[r].id \in exposed',
         \A s \in Subscription \ exposed' :
           /\ RunHas(v, s) /\ ~RunHas(run[r], s) => ~Held(s)
           /\ RunFresh(v, s, rows[s], bills[s], month)
           /\ Awaits(v, s) => Awaits(run[r], s) \/ Retried(s)
  PROVE  BInv'
<1>. USE DEF BInv
<1>1. Table' = Table
  BY DEF Table, Exists
<1>2. /\ retries' \in [Subscription -> [count : 0 .. MaxRetries, ready : BOOLEAN]]
      /\ \A s \in Subscription : Retried(s)' => Retried(s)
  BY RetriesDropped DEF BInv, Shape
<1>3. ASSUME NEW s \in Subscription \ exposed' PROVE Billed(s)'
  <2>1. Billed(s) /\ s \notin exposed
    BY <1>3
  <2>2. OnSchedule(s)'
    BY <2>1 DEF Billed, OnSchedule
  <2>3. Retried(s)' \/ Awaits(v, s) => CyclesDone(rows'[s])
    BY <1>2, <1>3, <2>1 DEF Billed
  <2>4. ~(run[r].id = s /\ run[r].at = "saving")
    BY <1>3
  <2>. QED  BY <1>1, <1>3, <2>1, <2>2, <2>3, <2>4, BilledByRun
<1>4. /\ rows' \in [Subscription -> SoundRow \union {NoRow}]
      /\ \A t \in Table' : rows'[t].id = t
      /\ bills' \in [Subscription -> Seq(Nat)]
      /\ \A s \in Subscription : Retried(s)' => s \in Table
  BY <1>1, <1>2 DEF Shape, Types
<1>. QED  BY <1>1, <1>2, <1>3, <1>4, StepByRun

LEMMA RunNow ==
  ASSUME BInv, NEW r \in Runner
  PROVE  /\ run[r] \in RunType /\ RunSound(run[r], Table)
         /\ \A s \in Subscription \ exposed : RunFresh(run[r], s, rows[s], bills[s], month)
         /\ disturbed \in 0 .. MaxDisturbed /\ exposed \subseteq Subscription
BY DEF BInv, Shape, Types, Billed

LEMMA IdleHolds == \A s : ~RunHas(Idle, s) /\ ~Awaits(Idle, s)
BY DEF Idle, RunHas, Awaits

LEMMA ResumeHolds ==
  ASSUME NEW X, NEW u \in RunType, RunSound(u, X)
  PROVE  /\ Resume(u).at # "saving"
         /\ \A s : Awaits(Resume(u), s) => Awaits(u, s)
         /\ \A s : RunHas(Resume(u), s) => \E e \in u.todo : e.id = s
         /\ \A s, row, b, m : RunFresh(u, s, row, b, m) => RunFresh(Resume(u), s, row, b, m)
<1>1. CASE u.loop = "hand"
  BY <1>1, IdleHolds, IdleSound, HoldersFresh DEF Resume, Idle
<1>2. CASE u.loop # "hand"
  <2>. DEFINE v == [Idle EXCEPT !.at = "looping", !.loop = u.loop, !.todo = u.todo,
                                !.queue = u.queue]
  <2>1. Resume(u) = v
    BY <1>2 DEF Resume
  <2>2. /\ v.at = "looping" /\ v.todo = u.todo /\ v.queue = u.queue
        /\ v.copy = Idle.copy /\ Idle.copy = NoRow
    BY IdleSound DEF RunType, Idle
  <2>. HIDE DEF v
  <2>. QED  BY <2>1, <2>2 DEF RunHas, RunFresh, Awaits, Processing
<1>. QED  BY <1>1, <1>2

LEMMA AbandonHolds ==
  ASSUME NEW u \in RunType
  PROVE  Abandon(u).at # "saving" /\ \A s : ~RunHas(Abandon(u), s) /\ ~Awaits(Abandon(u), s)
<1>. DEFINE v == [Idle EXCEPT !.at = "looping"]
<1>1. v.at = "looping" /\ v.todo = Idle.todo /\ v.copy = Idle.copy /\ v.queue = Idle.queue
  BY IdleSound DEF RunType
<1>2. Idle.copy = NoRow /\ Idle.todo = {} /\ Idle.at = "idle" /\ Idle.queue = {}
  BY DEF Idle
<1>3. Abandon(u) = v \/ Abandon(u) = Idle
  BY DEF Abandon
<1>. HIDE DEF v
<1>. QED  BY <1>1, <1>2, <1>3 DEF RunHas, Awaits

LEMMA ThrownHolds ==
  ASSUME NEW X, NEW u \in RunType, RunSound(u, X),
         u.at \in Processing \ {"saving"} \/ (u.at = "fetching" /\ u.loop = "retry")
  PROVE  /\ Thrown(u).at # "saving"
         /\ \A s : Awaits(Thrown(u), s) => Awaits(u, s)
         /\ \A s : RunHas(Thrown(u), s) => RunHas(u, s)
         /\ \A s, row, b, m : RunFresh(u, s, row, b, m) => RunFresh(Thrown(u), s, row, b, m)
<1>1. CASE u.caught
  BY <1>1, AbandonHolds, AbandonSound, HoldersFresh DEF Thrown
<1>2. CASE ~u.caught /\ u.loop = "retry"
  <2>. DEFINE v == [u EXCEPT !.at = "refetching", !.caught = TRUE, !.goal = "none",
                             !.found = NoRow, !.copy = NoRow]
  <2>1. Thrown(u) = v
    BY <1>2 DEF Thrown
  <2>2. v.at = "refetching" /\ v.copy = NoRow /\ v.todo = u.todo /\ v.queue = u.queue
    BY DEF RunType
  <2>. HIDE DEF v
  <2>. QED  BY <2>1, <2>2 DEF RunHas, RunFresh, Awaits, Processing
<1>3. CASE ~u.caught /\ u.loop # "retry"
  <2>. DEFINE v == [u EXCEPT !.at = "scheduling", !.caught = TRUE, !.goal = "none",
                             !.found = NoRow, !.copy = u.copy]
  <2>1. Thrown(u) = v
    BY <1>3 DEF Thrown, RunType
  <2>2. /\ v.at = "scheduling" /\ v.copy = u.copy /\ v.todo = u.todo /\ v.id = u.id
        /\ v.queue = u.queue
    BY DEF RunType
  <2>3. u.at \in Processing \ {"saving"}
    BY <1>3
  <2>. HIDE DEF v
  <2>. QED  BY <2>1, <2>2, <2>3 DEF RunHas, RunFresh, Awaits, Processing
<1>. QED  BY <1>1, <1>2, <1>3

-----------------------------------------------------------------------------
(* The scheduler, step by step                                             *)

LEMMA Disturbed ==
  ASSUME disturbed \in 0 .. MaxDisturbed, NEW kind, UNCHANGED disturbed \/ Disturb(kind)
  PROVE  disturbed' \in 0 .. MaxDisturbed
BY BoundsAssumption DEF Disturb

LEMMA StartCycleKeeps ==
  ASSUME BInv, NEW r \in Runner, StartCycle(r)
  PROVE  BInv'
<1>. DEFINE v == [run[r] EXCEPT !.at = "listing"]
<1>1. /\ run[r] \in RunType /\ RunSound(run[r], Table) /\ run[r].at = "idle"
      /\ run' = [run EXCEPT ![r] = v]
  BY RunNow DEF StartCycle
<1>2. v \in RunType
  BY <1>1 DEF RunType, Statements
<1>3. /\ v.at = "listing" /\ v.todo = {} /\ v.queue = {} /\ v.loop = "due"
      /\ v.copy = NoRow
  BY <1>1 DEF RunType, RunSound, Processing
<1>4. disturbed' \in 0 .. MaxDisturbed
  BY RunNow, Disturbed DEF StartCycle
<1>. HIDE DEF v
<1>5. RunSound(v, Table)
  BY <1>3 DEF RunSound, Processing
<1>6. \A s : ~RunHas(v, s) /\ ~Awaits(v, s)
  BY <1>3 DEF RunHas, Awaits
<1>7. \A s \in Subscription \ exposed : RunFresh(v, s, rows[s], bills[s], month)
  BY <1>2, <1>5, <1>6, HoldersFresh
<1>. QED  BY <1>1, <1>2, <1>3, <1>4, <1>5, <1>6, <1>7, RunNow, QuietRun DEF StartCycle

LEMMA TriggerKeeps ==
  ASSUME BInv, NEW r \in Runner, NEW t \in Subscription, Trigger(r, t)
  PROVE  BInv'
<1>. DEFINE v == [run[r] EXCEPT !.at = "fetching", !.loop = "hand", !.id = t]
<1>1. /\ run[r] \in RunType /\ RunSound(run[r], Table) /\ run[r].at = "idle"
      /\ run' = [run EXCEPT ![r] = v]
  BY RunNow DEF Trigger
<1>2. v \in RunType
  BY <1>1 DEF RunType, Statements
<1>3. /\ v.at = "fetching" /\ v.todo = {} /\ v.queue = {} /\ v.loop = "hand"
      /\ v.copy = NoRow /\ v.id = t
  BY <1>1 DEF RunType, RunSound, Processing
<1>4. disturbed' \in 0 .. MaxDisturbed
  BY RunNow, Disturbed DEF Trigger
<1>. HIDE DEF v
<1>5. RunSound(v, Table)
  BY <1>3 DEF RunSound, Processing
<1>6. \A s : ~RunHas(v, s) /\ ~Awaits(v, s)
  BY <1>3 DEF RunHas, Awaits
<1>7. \A s \in Subscription \ exposed : RunFresh(v, s, rows[s], bills[s], month)
  BY <1>2, <1>5, <1>6, HoldersFresh
<1>. QED  BY <1>1, <1>2, <1>3, <1>4, <1>5, <1>6, <1>7, RunNow, QuietRun DEF Trigger

LEMMA ListDueKeeps ==
  ASSUME BInv, NEW r \in Runner, ListDue(r)
  PROVE  BInv'
<1>. DEFINE due == {s \in Subscription : Due(s)}
            listed == {rows[s] : s \in due}
            v == [run[r] EXCEPT !.at = "looping", !.todo = listed]
<1>1. /\ run[r] \in RunType /\ RunSound(run[r], Table) /\ run[r].at = "listing"
      /\ run' = [run EXCEPT ![r] = v]
      /\ exposed' = exposed \cup {s \in due : Held(s)}
  BY RunNow DEF ListDue, Expose
<1>2. \A e \in listed :
        /\ e \in SoundRow /\ e.id \in Table /\ e = rows[e.id]
        /\ e.id \in due /\ e.status = "active" /\ e.next <= month
  BY DEF BInv, Shape, Types, Table, Due, Exists
<1>. HIDE DEF listed
<1>3. v \in RunType
  BY <1>1, <1>2 DEF RunType, Statements
<1>4. /\ v.at = "looping" /\ v.todo = listed /\ v.queue = {} /\ v.loop = "due"
      /\ v.copy = NoRow
  BY <1>1 DEF RunType, RunSound, Processing
<1>. HIDE DEF v
<1>5. RunSound(v, Table)
  BY <1>2, <1>4 DEF RunSound, Processing
<1>6. ASSUME NEW s \in Subscription \ exposed'
      PROVE  /\ RunHas(v, s) /\ ~RunHas(run[r], s) => ~Held(s)
             /\ RunFresh(v, s, rows[s], bills[s], month)
             /\ ~Awaits(v, s)
  BY <1>1, <1>2, <1>4, <1>6 DEF RunHas, RunFresh, Awaits, Processing
<1>7. exposed' \subseteq Subscription
  BY <1>1, RunNow
<1>. QED  BY <1>1, <1>3, <1>4, <1>5, <1>6, <1>7, RunNow, QuietRun DEF ListDue

LEMMA ListFailsKeeps ==
  ASSUME BInv, NEW r \in Runner, ListFails(r)
  PROVE  BInv'
<1>. DEFINE v == [run[r] EXCEPT !.at = "looping"]
<1>1. /\ run[r] \in RunType /\ RunSound(run[r], Table) /\ run[r].at = "listing"
      /\ run' = [run EXCEPT ![r] = v]
  BY RunNow DEF ListFails
<1>2. v \in RunType
  BY <1>1 DEF RunType, Statements
<1>3. /\ v.at = "looping" /\ v.todo = {} /\ v.queue = {} /\ v.loop = "due"
      /\ v.copy = NoRow
  BY <1>1 DEF RunType, RunSound, Processing
<1>4. disturbed' \in 0 .. MaxDisturbed
  BY RunNow, Disturbed DEF ListFails
<1>. HIDE DEF v
<1>5. RunSound(v, Table)
  BY <1>3 DEF RunSound, Processing
<1>6. \A s : ~RunHas(v, s) /\ ~Awaits(v, s)
  BY <1>3 DEF RunHas, Awaits
<1>7. \A s \in Subscription \ exposed : RunFresh(v, s, rows[s], bills[s], month)
  BY <1>2, <1>5, <1>6, HoldersFresh
<1>. QED  BY <1>1, <1>2, <1>3, <1>4, <1>5, <1>6, <1>7, RunNow, QuietRun DEF ListFails

LEMMA NextRetryKeeps ==
  ASSUME BInv, NEW r \in Runner, NextRetry(r)
  PROVE  BInv'
<1>1. /\ run[r] \in RunType /\ RunSound(run[r], Table) /\ run[r].at = "looping"
      /\ run[r].todo = {} /\ disturbed \in 0 .. MaxDisturbed
      /\ exposed \subseteq Subscription
  BY RunNow DEF NextRetry
<1>2. Queue(r) \subseteq Table /\ Table \subseteq Subscription
  BY <1>1 DEF Queue, RunSound, BInv, Shape, Retried, Table
<1>3. CASE Queue(r) = {}
  BY <1>1, <1>3, IdleSound, IdleHolds, HoldersFresh, QuietRun DEF NextRetry, Idle
<1>4. CASE Queue(r) # {}
  <2>1. PICK t \in Queue(r) :
          run' = [run EXCEPT ![r].at = "fetching", ![r].loop = "retry",
                             ![r].queue = Queue(r) \ {t}, ![r].id = t]
    BY <1>4 DEF NextRetry
  <2>. DEFINE Q == Queue(r) \ {t}
              v == [run[r] EXCEPT !.at = "fetching", !.loop = "retry", !.queue = Q, !.id = t]
  <2>2. run' = [run EXCEPT ![r] = v]
    BY <2>1
  <2>3. Q \subseteq Table /\ t \in Table
    BY <1>2
  <2>. HIDE DEF Q
  <2>4. v \in RunType
    BY <1>1, <1>2, <2>3 DEF RunType, Statements
  <2>5. /\ v.at = "fetching" /\ v.todo = {} /\ v.queue = Q /\ v.loop = "retry"
        /\ v.copy = NoRow /\ v.id = t
    BY <1>1 DEF RunType, RunSound, Processing
  <2>. HIDE DEF v
  <2>6. RunSound(v, Table)
    BY <1>2, <2>3, <2>5 DEF RunSound, Processing
  <2>7. \A s : ~RunHas(v, s) /\ (Awaits(v, s) => Awaits(run[r], s) \/ Retried(s))
    BY <2>5 DEF RunHas, Awaits, Q, Queue, Retried
  <2>8. \A s \in Subscription \ exposed : RunFresh(v, s, rows[s], bills[s], month)
    BY <2>4, <2>6, <2>7, HoldersFresh
  <2>. QED  BY <1>1, <2>2, <2>4, <2>5, <2>6, <2>7, <2>8, QuietRun DEF NextRetry
<1>. QED  BY <1>3, <1>4

LEMMA ThrownKeeps ==
  ASSUME BInv, NEW r \in Runner,
         \/ run[r].at \in Processing \ {"saving"}
         \/ run[r].at = "fetching" /\ run[r].loop = "retry",
         run' = [run EXCEPT ![r] = Thrown(run[r])],
         UNCHANGED <<rows, gateway, retries, initialized, call, month, bills, exposed>>,
         disturbed' \in 0 .. MaxDisturbed
  PROVE  BInv'
<1>. DEFINE v == Thrown(run[r])
<1>1. /\ run[r] \in RunType /\ RunSound(run[r], Table) /\ exposed \subseteq Subscription
      /\ \A s \in Subscription \ exposed : RunFresh(run[r], s, rows[s], bills[s], month)
  BY RunNow
<1>2. v \in RunType /\ RunSound(v, Table)
  BY <1>1, ThrownSound
<1>3. /\ v.at # "saving"
      /\ \A s : (RunHas(v, s) => RunHas(run[r], s)) /\ (Awaits(v, s) => Awaits(run[r], s))
  BY <1>1, ThrownHolds
<1>4. \A s \in Subscription \ exposed : RunFresh(v, s, rows[s], bills[s], month)
  BY <1>1, ThrownHolds
<1>5. run[r].at # "saving"
  BY DEF Processing
<1>. HIDE DEF v
<1>. QED  BY <1>1, <1>2, <1>3, <1>4, <1>5, QuietRun DEF v

LEMMA FetchFailsKeeps ==
  ASSUME BInv, NEW r \in Runner, FetchFails(r)
  PROVE  BInv'
<1>1. /\ run[r] \in RunType /\ RunSound(run[r], Table) /\ run[r].at = "fetching"
      /\ exposed \subseteq Subscription /\ disturbed' \in 0 .. MaxDisturbed
      /\ \A s \in Subscription \ exposed : RunFresh(run[r], s, rows[s], bills[s], month)
  BY RunNow, Disturbed DEF FetchFails
<1>2. CASE run[r].loop = "hand"
  BY <1>1, <1>2, IdleSound, IdleHolds, HoldersFresh, QuietRun DEF FetchFails, Idle
<1>3. CASE run[r].loop # "hand"
  <2>1. run[r].loop = "retry"
    BY <1>1, <1>3 DEF RunSound, RunType
  <2>2. run' = [run EXCEPT ![r] = Thrown(run[r])]
    BY <1>3 DEF FetchFails
  <2>. QED  BY <1>1, <2>1, <2>2, ThrownKeeps DEF FetchFails
<1>. QED  BY <1>2, <1>3

LEMMA RefetchKeeps ==
  ASSUME BInv, NEW r \in Runner, Refetch(r)
  PROVE  BInv'
<1>. DEFINE v == [run[r] EXCEPT !.at = "scheduling", !.copy = rows[run[r].id]]
<1>1. /\ run[r] \in RunType /\ RunSound(run[r], Table) /\ run[r].at = "refetching"
      /\ exposed \subseteq Subscription /\ disturbed \in 0 .. MaxDisturbed
      /\ run' = [run EXCEPT ![r] = v] /\ exposed' = exposed \cup {run[r].id}
  BY RunNow DEF Refetch, Expose
<1>2. /\ run[r].id \in Table /\ run[r].id \in Subscription /\ run[r].todo = {}
      /\ run[r].loop = "retry" /\ run[r].queue \subseteq Table
  BY <1>1 DEF RunSound
<1>3. rows[run[r].id] \in SoundRow /\ rows[run[r].id].id = run[r].id
  BY <1>2 DEF BInv, Shape, Types, Table, Exists
<1>4. v \in RunType
  BY <1>1, <1>3 DEF RunType, Statements, Processing
<1>5. /\ v.at = "scheduling" /\ v.todo = {} /\ v.queue = run[r].queue /\ v.loop = "retry"
      /\ v.copy = rows[run[r].id] /\ v.id = run[r].id
  BY <1>1, <1>2 DEF RunType
<1>. HIDE DEF v
<1>6. RunSound(v, Table)
  BY <1>2, <1>3, <1>5 DEF RunSound, Processing
<1>7. \A s : (RunHas(v, s) => s = run[r].id) /\ (Awaits(v, s) => Awaits(run[r], s))
  BY <1>5 DEF RunHas, Awaits
<1>8. \A s \in Subscription \ exposed' : RunFresh(v, s, rows[s], bills[s], month)
  BY <1>1, <1>4, <1>6, <1>7, HoldersFresh
<1>. QED  BY <1>1, <1>2, <1>4, <1>5, <1>6, <1>7, <1>8, QuietRun DEF Refetch

LEMMA RefetchFailsKeeps ==
  ASSUME BInv, NEW r \in Runner, RefetchFails(r)
  PROVE  BInv'
<1>1. /\ run[r] \in RunType /\ run[r].at = "refetching"
      /\ exposed \subseteq Subscription /\ disturbed' \in 0 .. MaxDisturbed
  BY RunNow, Disturbed DEF RefetchFails
<1>. QED  BY <1>1, AbandonSound, AbandonHolds, HoldersFresh, QuietRun DEF RefetchFails

LEMMA SaveFailsKeeps ==
  ASSUME BInv, NEW r \in Runner, SaveFails(r)
  PROVE  BInv'
<1>. DEFINE u == run[r]
            v == [run[r] EXCEPT !.at = "noting"]
<1>1. /\ u \in RunType /\ RunSound(u, Table) /\ u.at = "saving"
      /\ \A s \in Subscription \ exposed : RunFresh(u, s, rows[s], bills[s], month)
      /\ run' = [run EXCEPT ![r] = v] /\ exposed' = exposed \cup {u.id}
      /\ exposed \subseteq Subscription /\ disturbed' \in 0 .. MaxDisturbed
  BY RunNow, Disturbed DEF SaveFails, Expose
<1>2. v \in RunType
  BY <1>1 DEF RunType, Statements, Processing
<1>3. /\ v.at = "noting" /\ v.id = u.id /\ v.copy = u.copy /\ v.todo = u.todo
      /\ v.queue = u.queue /\ v.loop = u.loop
  BY <1>1 DEF RunType
<1>. HIDE DEF v, u
<1>4. RunSound(v, Table)
  BY <1>1, <1>3 DEF RunSound, Processing
<1>5. \A s : (RunHas(v, s) => RunHas(u, s)) /\ (Awaits(v, s) => Awaits(u, s))
  BY <1>3 DEF RunHas, Awaits
<1>6. \A s \in Subscription \ exposed' : RunFresh(v, s, rows[s], bills[s], month)
  BY <1>1, <1>3 DEF RunFresh
<1>7. u.id \in Subscription
  BY <1>1 DEF RunSound, Processing, SoundRow, Row
<1>. QED  BY <1>1, <1>2, <1>3, <1>4, <1>5, <1>6, <1>7, QuietRun DEF SaveFails, u

LEMMA NoteFailsKeeps ==
  ASSUME BInv, NEW r \in Runner, NoteFails(r)
  PROVE  BInv'
<1>1. run[r].at \in Processing \ {"saving"}
  BY DEF NoteFails, Processing
<1>2. disturbed' \in 0 .. MaxDisturbed
  BY RunNow, Disturbed DEF NoteFails
<1>. QED  BY <1>1, <1>2, ThrownKeeps DEF NoteFails

LEMMA FindKeeps ==
  ASSUME BInv, NEW r \in Runner, Find(r)
  PROVE  BInv'
<1>. DEFINE u == run[r]
            v == [run[r] EXCEPT !.at = "updating", !.found = rows[run[r].id]]
<1>1. /\ u \in RunType /\ RunSound(u, Table) /\ u.at = "reading"
      /\ \A s \in Subscription \ exposed : RunFresh(u, s, rows[s], bills[s], month)
      /\ run' = [run EXCEPT ![r] = v]
      /\ exposed \subseteq Subscription /\ disturbed \in 0 .. MaxDisturbed
  BY RunNow DEF Find
<1>2. u.id \in Table /\ rows[u.id] \in SoundRow /\ rows[u.id].id = u.id
  BY <1>1 DEF RunSound, Processing, BInv, Shape, Types, Table, Exists
<1>3. v \in RunType
  BY <1>1, <1>2 DEF RunType, Statements, Processing
<1>4. /\ v.at = "updating" /\ v.id = u.id /\ v.copy = u.copy /\ v.todo = u.todo
      /\ v.queue = u.queue /\ v.loop = u.loop /\ v.found = rows[u.id] /\ v.goal = u.goal
  BY <1>1 DEF RunType
<1>. HIDE DEF v, u
<1>5. RunSound(v, Table)
  BY <1>1, <1>2, <1>4 DEF RunSound, Processing
<1>6. \A s : (RunHas(v, s) => RunHas(u, s)) /\ (Awaits(v, s) => Awaits(u, s))
  BY <1>4 DEF RunHas, Awaits
<1>7. \A s \in Subscription \ exposed : RunFresh(v, s, rows[s], bills[s], month)
  BY <1>1, <1>4 DEF RunFresh, Processing
<1>. QED  BY <1>1, <1>3, <1>4, <1>5, <1>6, <1>7, QuietRun DEF Find, u

LEMMA UpdateFailsKeeps ==
  ASSUME BInv, NEW r \in Runner, UpdateFails(r)
  PROVE  BInv'
<1>. DEFINE u == run[r]
<1>1. /\ u \in RunType /\ RunSound(u, Table) /\ u.at \in {"reading", "updating"}
      /\ \A s \in Subscription \ exposed : RunFresh(u, s, rows[s], bills[s], month)
      /\ exposed \subseteq Subscription /\ disturbed' \in 0 .. MaxDisturbed
  BY RunNow, Disturbed DEF UpdateFails
<1>2. CASE u.goal # "expire"
  <2>1. run' = [run EXCEPT ![r] = Thrown(run[r])]
    BY <1>2 DEF UpdateFails
  <2>2. run[r].at \in Processing \ {"saving"}
    BY <1>1 DEF Processing
  <2>. QED  BY <1>1, <2>1, <2>2, ThrownKeeps DEF UpdateFails
<1>3. CASE u.goal = "expire"
  <2>. DEFINE v == [run[r] EXCEPT !.at = "noting", !.found = NoRow, !.goal = "none"]
  <2>1. run' = [run EXCEPT ![r] = v]
    BY <1>3 DEF UpdateFails
  <2>2. v \in RunType
    BY <1>1 DEF RunType, Statements, Processing, Goals
  <2>3. /\ v.at = "noting" /\ v.id = u.id /\ v.copy = u.copy /\ v.todo = u.todo
        /\ v.queue = u.queue /\ v.loop = u.loop
    BY <1>1 DEF RunType
  <2>. HIDE DEF v, u
  <2>4. RunSound(v, Table)
    BY <1>1, <2>3 DEF RunSound, Processing
  <2>5. \A s : (RunHas(v, s) => RunHas(u, s)) /\ (Awaits(v, s) => Awaits(u, s))
    BY <2>3 DEF RunHas, Awaits
  <2>6. \A s \in Subscription \ exposed : RunFresh(v, s, rows[s], bills[s], month)
    BY <1>1, <1>3, <2>3 DEF RunFresh, Processing
  <2>. QED  BY <1>1, <2>1, <2>2, <2>3, <2>4, <2>5, <2>6, QuietRun DEF UpdateFails, u
<1>. QED  BY <1>2, <1>3

LEMMA ScheduleKeeps ==
  ASSUME BInv, NEW r \in Runner, Schedule(r)
  PROVE  BInv'
<1>. DEFINE u == run[r]
            attempt == retries[u.id].count + 1
            goal == IF TooMany(attempt) THEN "suspend" ELSE "schedule"
            entry == [count |-> attempt, ready |-> FALSE]
            v == [run[r] EXCEPT !.at = "reading", !.goal = goal]
            R == [count : 0 .. MaxRetries, ready : BOOLEAN]
<1>1. /\ u \in RunType /\ RunSound(u, Table) /\ u.at = "scheduling"
      /\ \A s \in Subscription \ exposed : RunFresh(u, s, rows[s], bills[s], month)
      /\ run' = [run EXCEPT ![r] = v]
      /\ retries' = IF TooMany(attempt) THEN retries ELSE [retries EXCEPT ![u.id] = entry]
      /\ exposed \subseteq Subscription /\ disturbed \in 0 .. MaxDisturbed
  BY RunNow DEF Schedule
<1>2. u.id \in Table /\ Table \subseteq Subscription
  BY <1>1 DEF RunSound, Processing, Table
<1>3. retries \in [Subscription -> R] /\ retries[u.id].count \in 0 .. MaxRetries
  BY <1>2 DEF BInv, Shape, Types
<1>4. ~TooMany(attempt) => attempt \in 0 .. MaxRetries
  BY <1>3, BoundsAssumption DEF TooMany
<1>5. ~TooMany(attempt) => entry \in R
  BY <1>4, Zenon
<1>6. v \in RunType
  BY <1>1 DEF RunType, Statements, Processing, Goals
<1>7. /\ v.at = "reading" /\ v.id = u.id /\ v.copy = u.copy /\ v.todo = u.todo
      /\ v.queue = u.queue /\ v.loop = u.loop /\ v.goal \in {"suspend", "schedule"}
  BY <1>1 DEF RunType
<1>. HIDE DEF v, entry, R, attempt
<1>8. retries' \in [Subscription -> R]
  BY <1>1, <1>2, <1>3, <1>5
<1>9. \A s \in Subscription : Retried(s)' => Retried(s) \/ s = u.id
  BY <1>1, <1>3 DEF Retried
<1>. HIDE DEF u
<1>10. RunSound(v, Table)
  BY <1>1, <1>7 DEF RunSound, Processing
<1>11. \A s : (RunHas(v, s) => RunHas(u, s)) /\ (Awaits(v, s) => Awaits(u, s))
  BY <1>7 DEF RunHas, Awaits
<1>12. \A s \in Subscription \ exposed : RunFresh(v, s, rows[s], bills[s], month)
  BY <1>1, <1>7 DEF RunFresh, Processing
<1>13. UNCHANGED <<rows, bills, exposed, call, month, gateway, initialized, disturbed>>
  BY DEF Schedule
<1>14. Table' = Table
  BY <1>13 DEF Table, Exists
<1>15. ASSUME NEW s \in Subscription \ exposed PROVE Billed(s)'
  <2>1. Billed(s)
    BY DEF BInv
  <2>2. OnSchedule(s)'
    BY <1>13, <2>1 DEF Billed, OnSchedule
  <2>3. s = u.id => CyclesDone(rows[s])
    BY <1>1 DEF RunFresh, Processing
  <2>4. Retried(s)' \/ Awaits(v, s) => CyclesDone(rows'[s])
    BY <1>9, <1>11, <1>13, <2>1, <2>3 DEF Billed, u
  <2>5. ~(run[r].id = s /\ run[r].at = "saving")
    BY <1>1 DEF u
  <2>. QED  BY <1>1, <1>6, <1>10, <1>11, <1>12, <1>13, <1>14, <2>2, <2>4, <2>5, BilledByRun DEF u
<1>16. /\ rows' \in [Subscription -> SoundRow \union {NoRow}]
       /\ \A t \in Table' : rows'[t].id = t
       /\ bills' \in [Subscription -> Seq(Nat)]
  BY <1>13, <1>14 DEF BInv, Shape, Types
<1>17. \A s \in Subscription : Retried(s)' => s \in Table
  BY <1>2, <1>9 DEF BInv, Shape
<1>. QED  BY <1>1, <1>6, <1>8, <1>10, <1>13, <1>14, <1>15, <1>16, <1>17, StepByRun DEF R

(* Who holds the only copy knows that the row counts the bills.            *)
LEMMA CountsNow ==
  ASSUME BInv, NEW s \in Table \ exposed,
         \/ ~Held(s)
         \/ \E r \in Runner : RunHas(run[r], s) /\ ~(run[r].id = s /\ run[r].at = "saving")
  PROVE  Counts(rows[s], bills[s])
<1>1. s \in Subscription /\ Billed(s)
  BY DEF BInv, Table
<1>2. \A r \in Runner : run[r].id = s /\ run[r].at = "saving" => RunHas(run[r], s)
  BY NoRowIsNone DEF BInv, Shape, RunSound, Processing, RunHas
<1>3. \A c \in Client : call[c].id = s /\ call[c].at = "confirming" => CallHas(call[c], s)
  BY DEF CallHas
<1>4. ~Recording(s) /\ ~Creating(s)
  BY <1>1, <1>2, <1>3, HeldMeans DEF Billed, Exclusive, Recording, Creating
<1>. QED  BY <1>1, <1>4 DEF Billed, Counted

(* processBilling works on a fresh row that is due, or had its last cycle. *)
LEMMA BillingFresh ==
  ASSUME BInv, NEW s \in Table \ exposed, month' = month, NEW v,
         Counts(rows[s], bills[s]),
         rows[s].status = "active", rows[s].next <= month \/ CyclesDone(rows[s]),
         v.loop = "retry" => CyclesDone(rows[s]),
         v.id = s, \A f \in v.todo : f.id # s,
         \/ /\ CyclesDone(rows[s]) /\ v.at = "reading" /\ v.goal = "expire"
            /\ v.copy = rows[s] /\ bills'[s] = bills[s]
         \/ /\ ~CyclesDone(rows[s]) /\ v.at = "saving"
            /\ v.copy.status = rows[s].status /\ v.copy.done = rows[s].done + 1
            /\ v.copy.last = month /\ v.copy.next > month
            /\ bills'[s] = Append(bills[s], rows[s].next)
  PROVE  OnSchedule(s)' /\ RunFresh(v, s, rows[s], bills'[s], month)
<1>1. s \in Subscription /\ OnSchedule(s) /\ Types
  BY DEF BInv, Shape, Billed, Table
<1>2. CASE CyclesDone(rows[s])
  <2>1. OnSchedule(s)'
    BY <1>1, <1>2 DEF OnSchedule
  <2>2. RunFresh(v, s, rows[s], bills'[s], month)
    BY <1>2 DEF RunFresh, Processing
  <2>. QED  BY <2>1, <2>2
<1>3. CASE ~CyclesDone(rows[s])
  <2>1. rows[s].next \in Nat /\ rows[s].done \in Nat
    BY DEF BInv, Shape, Types, Table, Exists, SoundRow, Row
  <2>2. OnSchedule(s)' /\ Len(bills'[s]) = Len(bills[s]) + 1
    BY <1>1, <1>3, <2>1, OneMoreBill DEF Counts
  <2>3. bills[s] \in Seq(Nat) /\ Len(bills[s]) \in Nat
    BY <1>1 DEF Types
  <2>4. v.copy.done = 1 + Len(bills'[s])
    BY <1>3, <2>1, <2>2, <2>3 DEF Counts
  <2>5. \A i \in 1 .. Len(bills'[s]) : bills'[s][i] <= v.copy.last
    BY <1>3, <2>2 DEF OnSchedule
  <2>6. month \in Nat
    BY <1>1, BoundsAssumption DEF Types
  <2>7. v.copy.last < v.copy.next
    BY <1>3, <2>6
  <2>8. RunFresh(v, s, rows[s], bills'[s], month)
    BY <1>3, <2>4, <2>5, <2>7 DEF RunFresh, Processing
  <2>. QED  BY <2>2, <2>8
<1>. QED  BY <1>2, <1>3

LEMMA NextDueKeeps ==
  ASSUME BInv, NEW r \in Runner, NextDue(r)
  PROVE  BInv'
<1>1. PICK e \in run[r].todo : processBilling(r, [run[r] EXCEPT !.todo = @ \ {e}], e)
  BY DEF NextDue
<1>. DEFINE u == [run[r] EXCEPT !.todo = @ \ {e}]
<1>2. /\ run[r] \in RunType /\ RunSound(run[r], Table) /\ run[r].at = "looping"
      /\ run[r].loop = "due" /\ run[r].copy = NoRow
      /\ \A s \in Subscription \ exposed : RunFresh(run[r], s, rows[s], bills[s], month)
      /\ exposed \subseteq Subscription /\ disturbed \in 0 .. MaxDisturbed
  BY RunNow DEF NextDue, RunSound, Processing
<1>3. UNCHANGED <<rows, gateway, retries, initialized, call, month, disturbed, exposed>>
  BY DEF NextDue
<1>4. /\ u \in RunType /\ u.todo = run[r].todo \ {e} /\ u.queue = run[r].queue
      /\ u.loop = "due"
  BY <1>2 DEF RunType
<1>5. /\ e \in SoundRow /\ e.id \in Table /\ u.queue \subseteq Table
      /\ \A f \in u.todo : f.id \in Table /\ f.id # e.id
      /\ \A f, g \in u.todo : f.id = g.id => f = g
  BY <1>2, <1>4 DEF RunSound, RunType
<1>6. Types /\ Table \subseteq Subscription
  BY DEF BInv, Shape, Table
<1>7. processBilling(r, u, e)
  BY <1>1
<1>. HIDE DEF u
<1>8. /\ bills' \in [Subscription -> Seq(Nat)]
      /\ \A s \in Subscription : s # e.id => bills'[s] = bills[s]
  BY <1>4, <1>5, <1>6, <1>7, BillingSound
<1>9. PICK v \in RunType : BillingLeaves(r, u, e, v)
  BY <1>4, <1>5, <1>6, <1>7, BillingSound
<1>. USE <1>9 DEF BillingLeaves
<1>10. Table' = Table
  BY <1>3 DEF Table, Exists
<1>11. \A s : (RunHas(v, s) => RunHas(run[r], s)) /\ (Awaits(v, s) => Awaits(run[r], s))
  BY <1>4, <1>9 DEF RunHas, Awaits
<1>12. ASSUME NEW s \in Subscription \ exposed'
       PROVE  OnSchedule(s)' /\ RunFresh(v, s, rows'[s], bills'[s], month)
  <2>1. s \in Subscription /\ s \notin exposed /\ OnSchedule(s)
    BY <1>3 DEF BInv, Billed
  <2>2. CASE s # e.id
    <3>1. bills'[s] = bills[s]
      BY <1>8, <2>1, <2>2
    <3>. QED  BY <1>2, <1>3, <1>4, <1>9, <2>1, <2>2, <3>1 DEF OnSchedule, RunFresh
  <2>3. CASE s = e.id
    <3>1. e = rows[s] /\ e.status = "active" /\ e.next <= month
      BY <1>2, <2>1, <2>3 DEF RunFresh
    <3>2. RunHas(run[r], s) /\ run[r].at # "saving"
      BY <1>2, <2>3 DEF RunHas
    <3>3. Counts(rows[s], bills[s])
      BY <1>5, <2>1, <2>3, <3>2, CountsNow
    <3>4. s \in Table \ exposed /\ v.loop # "retry" /\ \A f \in v.todo : f.id # s
      BY <1>4, <1>5, <1>9, <2>1, <2>3
    <3>. HIDE DEF u
    <3>. QED  BY <1>3, <1>9, <2>3, <3>1, <3>3, <3>4, BillingFresh
  <2>. QED  BY <2>2, <2>3
<1>13. ASSUME NEW s \in Subscription \ exposed' PROVE Billed(s)'
  <2>1. s \in Subscription /\ s \notin exposed /\ Billed(s)
    BY <1>3 DEF BInv
  <2>2. Retried(s)' \/ Awaits(v, s) => CyclesDone(rows'[s])
    BY <1>3, <1>11, <2>1 DEF Billed, Retried
  <2>3. RunHas(run[r], s) \/ bills'[s] = bills[s]
    BY <1>8, <2>1 DEF RunHas
  <2>4. \/ v.id = s /\ v.at = "saving"
        \/ rows'[s] = rows[s] /\ bills'[s] = bills[s] /\ ~(run[r].id = s /\ run[r].at = "saving")
    BY <1>2, <1>3, <1>8, <1>9, <2>1
  <2>. QED  BY <1>3, <1>9, <1>10, <1>11, <1>12, <2>1, <2>2, <2>3, <2>4, BilledByRun
<1>14. /\ rows' \in [Subscription -> SoundRow \union {NoRow}]
       /\ \A t \in Table' : rows'[t].id = t
       /\ retries' \in [Subscription -> [count : 0 .. MaxRetries, ready : BOOLEAN]]
       /\ \A s \in Subscription : Retried(s)' => s \in Table
  BY <1>3, <1>10 DEF BInv, Shape, Types, Retried
<1>. QED  BY <1>2, <1>3, <1>8, <1>9, <1>10, <1>13, <1>14, StepByRun

LEMMA FetchKeeps ==
  ASSUME BInv, NEW r \in Runner, Fetch(r)
  PROVE  BInv'
<1>. DEFINE u == run[r]
            t == run[r].id
            e == rows[run[r].id]
            wanted == Exists(t) /\ (u.loop = "hand" \/ rows[t].status = "active")
<1>1. /\ u \in RunType /\ RunSound(u, Table) /\ u.at = "fetching"
      /\ u.copy = NoRow /\ t \in Subscription /\ u.loop \in {"retry", "hand"}
      /\ u.todo = {} /\ u.queue \subseteq Table
      /\ \A s \in Subscription \ exposed : RunFresh(u, s, rows[s], bills[s], month)
      /\ exposed \subseteq Subscription /\ disturbed \in 0 .. MaxDisturbed
  BY RunNow DEF Fetch, RunSound, RunType, Processing
<1>2. UNCHANGED <<rows, gateway, initialized, call, month, disturbed>>
  BY DEF Fetch
<1>3. CASE ~wanted
  <2>. DEFINE v == Resume(u)
  <2>1. /\ run' = [run EXCEPT ![r] = v]
        /\ retries' = retries \/ retries' = [retries EXCEPT ![t] = NoRetry]
        /\ UNCHANGED <<bills, exposed>>
    BY <1>3 DEF Fetch
  <2>2. v \in RunType /\ RunSound(v, Table)
    BY <1>1, ResumeSound
  <2>3. /\ v.at # "saving"
        /\ \A s : (RunHas(v, s) => RunHas(u, s)) /\ (Awaits(v, s) => Awaits(u, s))
    BY <1>1, ResumeHolds
  <2>4. \A s \in Subscription \ exposed : RunFresh(v, s, rows[s], bills[s], month)
    BY <1>1, ResumeHolds
  <2>. HIDE DEF v
  <2>. QED  BY <1>1, <1>2, <2>1, <2>2, <2>3, <2>4, QuietRun
<1>4. CASE wanted
  <2>1. /\ processBilling(r, u, e) /\ UNCHANGED retries
        /\ exposed' = exposed \cup
             (IF Held(t) \/ (u.loop = "hand" /\ ~Due(t)) THEN {t} ELSE {})
    BY <1>4 DEF Fetch, Expose
  <2>2. t \in Table /\ Types /\ Table \subseteq Subscription
    BY <1>1, <1>4 DEF Table, BInv, Shape
  <2>3. e \in SoundRow /\ e.id = t
    BY <2>2 DEF Types, Table, Exists
  <2>4. /\ bills' \in [Subscription -> Seq(Nat)]
        /\ \A s \in Subscription : s # t => bills'[s] = bills[s]
    BY <1>1, <2>1, <2>2, <2>3, BillingSound
  <2>5. PICK v \in RunType : BillingLeaves(r, u, e, v)
    BY <1>1, <2>1, <2>2, <2>3, BillingSound
  <2>. USE <2>5 DEF BillingLeaves
  <2>6. Table' = Table
    BY <1>2 DEF Table, Exists
  <2>7. \A s : (RunHas(v, s) => s = t) /\ (Awaits(v, s) => Awaits(u, s))
    BY <1>1, <2>3 DEF RunHas, Awaits
  <2>8. ASSUME t \notin exposed'
        PROVE  /\ ~Held(t) /\ rows[t].status = "active"
               /\ rows[t].next <= month \/ CyclesDone(rows[t])
               /\ v.loop = "retry" => CyclesDone(rows[t])
    <3>1. ~Held(t) /\ t \notin exposed /\ (u.loop = "hand" => Due(t))
      BY <2>1, <2>8
    <3>2. CASE u.loop = "hand"
      BY <3>1, <3>2 DEF Due
    <3>3. CASE u.loop = "retry"
      <4>1. Awaits(u, t)
        BY <1>1, <3>3 DEF Awaits
      <4>2. CyclesDone(rows[t])
        BY <1>1, <3>1, <4>1 DEF BInv, Billed
      <4>. QED  BY <1>4, <3>1, <3>3, <4>2
    <3>. QED  BY <1>1, <3>2, <3>3
  <2>9. ASSUME NEW s \in Subscription \ exposed'
        PROVE  OnSchedule(s)' /\ RunFresh(v, s, rows'[s], bills'[s], month)
    <3>1. s \in Subscription /\ s \notin exposed /\ OnSchedule(s)
      BY <2>1 DEF BInv, Billed
    <3>2. CASE s # t
      <4>1. bills'[s] = bills[s]
        BY <2>4, <3>1, <3>2
      <4>2. OnSchedule(s)'
        BY <1>2, <3>1, <4>1 DEF OnSchedule
      <4>3. ~RunHas(v, s)
        BY <2>7, <3>2
      <4>. QED  BY <4>2, <4>3, HoldersFresh
    <3>3. CASE s = t
      <4>1. Counts(rows[s], bills[s])
        BY <2>2, <2>8, <3>1, <3>3, CountsNow
      <4>2. s \in Table \ exposed /\ \A f \in v.todo : f.id # s
        BY <1>1, <2>2, <3>1, <3>3
      <4>3. v.id = s
        BY <2>3, <3>3
      <4>. QED  BY <1>2, <2>8, <3>3, <4>1, <4>2, <4>3, BillingFresh
    <3>. QED  BY <3>2, <3>3
  <2>10. ASSUME NEW s \in Subscription \ exposed' PROVE Billed(s)'
    <3>1. s \in Subscription /\ s \notin exposed /\ Billed(s)
      BY <2>1 DEF BInv
    <3>2. Retried(s)' \/ Awaits(v, s) => CyclesDone(rows'[s])
      BY <1>2, <2>1, <2>7, <3>1 DEF Billed, Retried
    <3>3. RunHas(v, s) => ~Held(s)
      BY <2>7, <2>8, <2>10
    <3>4. s = t => RunHas(v, s)
      BY <2>3, NoRowIsNone DEF RunHas, RunSound, Processing
    <3>5. \/ v.id = s /\ v.at = "saving"
          \/ rows'[s] = rows[s] /\ bills'[s] = bills[s] /\ ~(u.id = s /\ u.at = "saving")
      BY <1>1, <1>2, <2>3, <2>4, <3>1
    <3>. QED  BY <1>2, <2>4, <2>6, <2>9, <3>1, <3>2, <3>3, <3>4, <3>5, BilledByRun
  <2>11. /\ rows' \in [Subscription -> SoundRow \union {NoRow}]
         /\ \A s \in Table' : rows'[s].id = s
         /\ retries' \in [Subscription -> [count : 0 .. MaxRetries, ready : BOOLEAN]]
         /\ \A s \in Subscription : Retried(s)' => s \in Table
    BY <1>2, <2>1, <2>6 DEF BInv, Shape, Types, Retried
  <2>12. exposed \subseteq exposed' /\ exposed' \subseteq Subscription
    BY <1>1, <2>1
  <2>. QED  BY <1>1, <1>2, <2>4, <2>6, <2>10, <2>11, <2>12, StepByRun
<1>. QED  BY <1>3, <1>4

(* An activation that holds the row of t saves e.                          *)
LEMMA WriteByRun ==
  ASSUME BInv, NEW r \in Runner, run[r].at \in Processing,
         NEW t, t = run[r].id, NEW e \in SoundRow, e.id = t,
         rows' = [rows EXCEPT ![t] = e],
         NEW v \in RunType, RunSound(v, Table), run' = [run EXCEPT ![r] = v],
         UNCHANGED <<gateway, initialized, call, month, disturbed, bills, exposed>>,
         \/ retries' = retries
         \/ retries' = [retries EXCEPT ![t] = NoRetry],
         v.at # "saving",
         \A s : (RunHas(v, s) => RunHas(run[r], s)) /\ (Awaits(v, s) => Awaits(run[r], s)),
         t \notin exposed =>
           /\ RunFresh(v, t, e, bills[t], month) /\ Counts(e, bills[t])
           /\ CyclesDone(rows[t]) => CyclesDone(e),
         \A s \in Subscription \ exposed : s # t => RunFresh(v, s, rows[s], bills[s], month)
  PROVE  BInv'
<1>1. /\ run[r] \in RunType /\ RunSound(run[r], Table) /\ exposed \subseteq Subscription
      /\ disturbed \in 0 .. MaxDisturbed
  BY RunNow
<1>2. t \in Table /\ t \in Subscription /\ run[r].copy # NoRow
  BY <1>1, NoRowIsNone DEF RunSound, Table
<1>3. Types
  BY DEF BInv, Shape
<1>4. /\ rows' \in [Subscription -> SoundRow \union {NoRow}] /\ Table' = Table
      /\ \A s \in Table' : rows'[s].id = s
      /\ rows'[t] = e /\ \A s \in Subscription : s # t => rows'[s] = rows[s]
  <2>1. Table' = Table \union {t}
    BY <1>2, <1>3, RowWritten
  <2>2. /\ rows' \in [Subscription -> SoundRow \union {NoRow}]
        /\ \A s \in Table' : rows'[s].id = s
    BY <1>2, <1>3, RowWritten
  <2>3. rows'[t] = e /\ \A s \in Subscription : s # t => rows'[s] = rows[s]
    BY <1>2, <1>3 DEF Types
  <2>. QED  BY <1>2, <2>1, <2>2, <2>3
<1>5. /\ retries' \in [Subscription -> [count : 0 .. MaxRetries, ready : BOOLEAN]]
      /\ \A s \in Subscription : Retried(s)' => Retried(s)
  BY <1>2, <1>3, RetriesDropped DEF BInv, Shape
<1>6. ASSUME NEW s \in Subscription \ exposed PROVE Billed(s)'
  <2>1. Billed(s) /\ s \in Subscription /\ s \notin exposed
    BY DEF BInv
  <2>2. OnSchedule(s)'
    BY <2>1 DEF Billed, OnSchedule
  <2>3. RunFresh(v, s, rows'[s], bills'[s], month)
    BY <1>4, <2>1
  <2>4. CyclesDone(rows[s]) => CyclesDone(rows'[s])
    BY <1>4, <2>1
  <2>5. Retried(s)' \/ Awaits(v, s) => CyclesDone(rows'[s])
    BY <1>5, <2>1, <2>4 DEF Billed
  <2>6. CASE s = t
    <3>1. RunHas(run[r], s) /\ Counts(rows'[s], bills'[s])
      BY <1>2, <1>4, <2>1, <2>6 DEF RunHas
    <3>. QED  BY <1>4, <2>1, <2>2, <2>3, <2>4, <2>5, <3>1, BilledByRun
  <2>7. CASE s # t
    <3>1. rows'[s] = rows[s] /\ bills'[s] = bills[s] /\ ~(run[r].id = s /\ run[r].at = "saving")
      BY <1>4, <2>1, <2>7
    <3>. QED  BY <1>4, <2>1, <2>2, <2>3, <2>4, <2>5, <3>1, BilledByRun
  <2>. QED  BY <2>6, <2>7
<1>7. /\ bills' \in [Subscription -> Seq(Nat)]
      /\ \A s \in Subscription : Retried(s)' => s \in Table
  BY <1>5 DEF BInv, Shape, Types
<1>. QED  BY <1>1, <1>4, <1>5, <1>6, <1>7, StepByRun

LEMMA SaveKeeps ==
  ASSUME BInv, NEW r \in Runner, Save(r)
  PROVE  BInv'
<1>. DEFINE u == run[r]
            t == run[r].id
            e == run[r].copy
            v == IF u.loop = "retry" THEN [u EXCEPT !.at = "reading", !.goal = "clear"]
                 ELSE Resume(u)
<1>1. /\ u \in RunType /\ RunSound(u, Table) /\ u.at = "saving"
      /\ \A s \in Subscription \ exposed : RunFresh(u, s, rows[s], bills[s], month)
      /\ run' = [run EXCEPT ![r] = v] /\ rows' = [rows EXCEPT ![t] = e]
      /\ retries' = [retries EXCEPT ![t] = NoRetry]
  BY RunNow DEF Save
<1>2. /\ e \in SoundRow /\ e.id = t /\ t \in Subscription /\ u.at \in Processing
      /\ e # NoRow
  BY <1>1, NoRowIsNone DEF RunSound, Processing, SoundRow, Row
<1>3. /\ v \in RunType /\ RunSound(v, Table) /\ v.at # "saving"
      /\ \A s : (RunHas(v, s) => RunHas(u, s)) /\ (Awaits(v, s) => Awaits(u, s))
      /\ \A s \in Subscription \ exposed : s # t => RunFresh(v, s, rows[s], bills[s], month)
      /\ u.loop # "retry" => \A s : RunHas(v, s) => \E f \in u.todo : f.id = s
  <2>1. CASE u.loop # "retry"
    BY <1>1, <2>1, ResumeSound, ResumeHolds DEF RunHas
  <2>2. CASE u.loop = "retry"
    <3>. DEFINE w == [u EXCEPT !.at = "reading", !.goal = "clear"]
    <3>1. w \in RunType
      BY <1>1 DEF RunType, Statements, Processing, Goals
    <3>2. /\ w.at = "reading" /\ w.id = u.id /\ w.copy = u.copy /\ w.todo = u.todo
          /\ w.queue = u.queue /\ w.loop = u.loop
      BY <1>1 DEF RunType
    <3>3. v = w
      BY <2>2
    <3>. HIDE DEF w, v
    <3>4. RunSound(w, Table)
      BY <1>1, <3>2 DEF RunSound, Processing
    <3>5. \A s : (RunHas(w, s) => RunHas(u, s)) /\ (Awaits(w, s) => Awaits(u, s))
      BY <3>2 DEF RunHas, Awaits
    <3>6. \A s \in Subscription \ exposed : s # t => RunFresh(w, s, rows[s], bills[s], month)
      BY <1>1, <3>2 DEF RunFresh, Processing
    <3>. QED  BY <2>2, <3>1, <3>2, <3>3, <3>4, <3>5, <3>6
  <2>. QED  BY <2>1, <2>2
<1>. HIDE DEF v
<1>4. ASSUME t \notin exposed
      PROVE  /\ RunFresh(v, t, e, bills[t], month) /\ Counts(e, bills[t])
             /\ CyclesDone(rows[t]) => CyclesDone(e)
  <2>1. RunFresh(u, t, rows[t], bills[t], month)
    BY <1>1, <1>2, <1>4
  <2>2. ~CyclesDone(rows[t]) /\ u.loop # "retry"
    BY <1>1, <2>1 DEF RunFresh
  <2>3. ~RunHas(v, t)
    BY <1>1, <1>2, <1>3, <2>2 DEF RunSound
  <2>4. RunFresh(v, t, e, bills[t], month)
    BY <1>3, <2>3, HoldersFresh
  <2>5. bills[t] \in Seq(Nat) /\ e.last \in Nat /\ e.next \in Nat
    BY <1>2 DEF BInv, Shape, Types, SoundRow, Row
  <2>6. Counts(e, bills[t])
    BY <1>1, <2>1, <2>5 DEF RunFresh, Counts
  <2>. QED  BY <2>2, <2>4, <2>6
<1>. QED  BY <1>1, <1>2, <1>3, <1>4, WriteByRun DEF Save

LEMMA NoteKeeps ==
  ASSUME BInv, NEW r \in Runner, Note(r)
  PROVE  BInv'
<1>. DEFINE u == run[r]
            t == run[r].id
            e == run[r].copy
            v == [run[r] EXCEPT !.at = "scheduling"]
<1>1. /\ u \in RunType /\ RunSound(u, Table) /\ u.at = "noting"
      /\ \A s \in Subscription \ exposed : RunFresh(u, s, rows[s], bills[s], month)
      /\ run' = [run EXCEPT ![r] = v] /\ rows' = [rows EXCEPT ![t] = e]
  BY RunNow DEF Note
<1>2. /\ e \in SoundRow /\ e.id = t /\ t \in Subscription /\ t \in Table
      /\ u.at \in Processing /\ e # NoRow
  BY <1>1, NoRowIsNone DEF RunSound, Processing, SoundRow, Row
<1>3. v \in RunType
  BY <1>1 DEF RunType, Statements, Processing
<1>4. /\ v.at = "scheduling" /\ v.id = u.id /\ v.copy = u.copy /\ v.todo = u.todo
      /\ v.queue = u.queue /\ v.loop = u.loop
  BY <1>1 DEF RunType
<1>. HIDE DEF v
<1>5. RunSound(v, Table)
  BY <1>1, <1>4 DEF RunSound, Processing
<1>6. \A s : (RunHas(v, s) => RunHas(u, s)) /\ (Awaits(v, s) => Awaits(u, s))
  BY <1>4 DEF RunHas, Awaits
<1>7. \A s \in Subscription \ exposed : RunFresh(v, s, rows[s], bills[s], month)
  BY <1>1, <1>4 DEF RunFresh, Processing
<1>8. t \notin exposed => e = rows[t] /\ Counts(rows[t], bills[t])
  <2>1. t \notin exposed => e = rows[t]
    BY <1>1, <1>2 DEF RunFresh, Processing
  <2>2. RunHas(u, t) /\ u.at # "saving"
    BY <1>1, <1>2 DEF RunHas
  <2>. QED  BY <1>2, <2>1, <2>2, CountsNow
<1>. QED  BY <1>1, <1>2, <1>3, <1>4, <1>5, <1>6, <1>7, <1>8, WriteByRun DEF Note

LEMMA UpdateKeeps ==
  ASSUME BInv, NEW r \in Runner, Update(r)
  PROVE  BInv'
<1>. DEFINE u == run[r]
            t == run[r].id
            e == Updated(run[r].found, run[r].goal)
            v == IF u.goal = "expire"
                 THEN [u EXCEPT !.at = "scheduling", !.found = NoRow, !.goal = "none"]
                 ELSE Resume(u)
<1>1. /\ u \in RunType /\ RunSound(u, Table) /\ u.at = "updating"
      /\ \A s \in Subscription \ exposed : RunFresh(u, s, rows[s], bills[s], month)
      /\ run' = [run EXCEPT ![r] = v] /\ rows' = [rows EXCEPT ![t] = e]
      /\ retries' = retries \/ retries' = [retries EXCEPT ![t] = NoRetry]
  BY RunNow DEF Update
<1>2. /\ u.found \in SoundRow /\ u.found.id = t /\ t \in Subscription /\ t \in Table
      /\ u.at \in Processing /\ u.copy # NoRow
  BY <1>1, NoRowIsNone DEF RunSound, Processing, Table
<1>3. /\ e \in SoundRow /\ e.id = t /\ e.done = u.found.done
      /\ e.last = u.found.last /\ e.next = u.found.next
      /\ e.status = u.found.status \/ e.status \in {"expired", "suspended"}
  BY <1>2, UpdatedSound
<1>4. /\ v \in RunType /\ RunSound(v, Table) /\ v.at # "saving"
      /\ \A s : (RunHas(v, s) => RunHas(u, s)) /\ (Awaits(v, s) => Awaits(u, s))
      /\ \A s \in Subscription \ exposed : s # t => RunFresh(v, s, rows[s], bills[s], month)
      /\ \/ v.at = "scheduling" /\ v.id = t /\ \A f \in v.todo : f.id # t
         \/ ~RunHas(v, t)
  <2>1. CASE u.goal # "expire"
    <3>1. ~RunHas(Resume(u), t)
      BY <1>1, <1>2, ResumeHolds DEF RunSound
    <3>. QED  BY <1>1, <2>1, <3>1, ResumeSound, ResumeHolds DEF RunHas
  <2>2. CASE u.goal = "expire"
    <3>. DEFINE w == [u EXCEPT !.at = "scheduling", !.found = NoRow, !.goal = "none"]
    <3>1. w \in RunType
      BY <1>1 DEF RunType, Statements, Processing, Goals
    <3>2. /\ w.at = "scheduling" /\ w.id = u.id /\ w.copy = u.copy /\ w.todo = u.todo
          /\ w.queue = u.queue /\ w.loop = u.loop
      BY <1>1 DEF RunType
    <3>3. v = w
      BY <2>2
    <3>. HIDE DEF w, v
    <3>4. RunSound(w, Table)
      BY <1>1, <3>2 DEF RunSound, Processing
    <3>5. \A s : (RunHas(w, s) => RunHas(u, s)) /\ (Awaits(w, s) => Awaits(u, s))
      BY <3>2 DEF RunHas, Awaits
    <3>6. \A s \in Subscription \ exposed : s # t => RunFresh(w, s, rows[s], bills[s], month)
      BY <1>1, <3>2 DEF RunFresh, Processing
    <3>7. \A f \in w.todo : f.id # t
      BY <1>1, <1>2, <3>2 DEF RunSound
    <3>. QED  BY <3>1, <3>2, <3>3, <3>4, <3>5, <3>6, <3>7
  <2>. QED  BY <2>1, <2>2
<1>. HIDE DEF v, e
<1>5. ASSUME t \notin exposed
      PROVE  /\ RunFresh(v, t, e, bills[t], month) /\ Counts(e, bills[t])
             /\ CyclesDone(rows[t]) => CyclesDone(e)
  <2>1. u.found = rows[t] /\ CyclesDone(rows[t]) /\ rows[t].status # "cancelled"
    BY <1>1, <1>2, <1>5 DEF RunFresh, Processing
  <2>2. CyclesDone(e) /\ e.status # "cancelled"
    BY <1>3, <2>1 DEF CyclesDone
  <2>3. RunHas(u, t) /\ u.at # "saving"
    BY <1>1, <1>2 DEF RunHas
  <2>4. Counts(e, bills[t])
    BY <1>2, <1>3, <1>5, <2>1, <2>3, CountsNow DEF Counts
  <2>5. RunFresh(v, t, e, bills[t], month)
    <3>1. CASE ~RunHas(v, t)
      BY <1>4, <3>1, HoldersFresh
    <3>2. CASE v.at = "scheduling" /\ v.id = t /\ \A f \in v.todo : f.id # t
      BY <2>2, <3>2 DEF RunFresh, Processing
    <3>. QED  BY <1>4, <3>1, <3>2
  <2>. QED  BY <2>2, <2>4, <2>5
<1>. QED  BY <1>1, <1>2, <1>3, <1>4, <1>5, WriteByRun DEF Update

-----------------------------------------------------------------------------
(* The clients, step by step                                               *)

LEMMA NoCallType == NoCall \in CallType
BY Zenon DEF NoCall, CallType, CallStages

LEMMA EndedSound ==
  ASSUME NEW X, NEW u \in CallType, CallSound(u, X), u.at # "unsent",
         NEW how \in {"answered", "refused", "hanging", "lost"}
  PROVE  /\ Ended(u, how) \in CallType /\ CallSound(Ended(u, how), X)
         /\ Ended(u, how).at = how /\ Ended(u, how).kind = u.kind /\ Ended(u, how).id = u.id
<1>. DEFINE v == [NoCall EXCEPT !.at = how, !.kind = u.kind, !.id = u.id]
<1>1. v \in CallType
  BY NoCallType DEF CallType, CallStages
<1>2. v.at = how /\ v.kind = u.kind /\ v.id = u.id
  BY NoCallType DEF CallType
<1>. HIDE DEF v
<1>3. CallSound(v, X)
  BY <1>2 DEF CallSound
<1>4. Ended(u, how) = v
  BY DEF Ended, v
<1>. QED  BY <1>1, <1>2, <1>3, <1>4

LEMMA CallNow ==
  ASSUME BInv, NEW c \in Client
  PROVE  /\ call[c] \in CallType /\ CallSound(call[c], Table)
         /\ \A s \in Subscription \ exposed : CallFresh(call[c], s, rows[s], bills[s])
         /\ disturbed \in 0 .. MaxDisturbed /\ exposed \subseteq Subscription
         /\ gateway \subseteq Subscription /\ month \in Nat
BY BoundsAssumption DEF BInv, Shape, Types, Billed

LEMMA BilledByCall ==
  ASSUME BInv, NEW c \in Client, NEW v \in CallType, Table \subseteq Table',
         call' = [call EXCEPT ![c] = v], UNCHANGED <<run, month, retries, bills>>,
         NEW s \in Subscription, s \notin exposed,
         CallHas(v, s) /\ ~CallHas(call[c], s) => ~Held(s),
         CallHas(v, s) \/ CallHas(call[c], s) \/ rows'[s] = rows[s],
         CallFresh(v, s, rows'[s], bills[s]),
         \/ v.id = s /\ v.at = "confirming"
         \/ Counts(rows'[s], bills[s])
         \/ /\ rows'[s] = rows[s] /\ (s \in Table' => s \in Table)
            /\ ~(call[c].id = s /\ call[c].at = "confirming"),
         s \in Table /\ CyclesDone(rows[s]) => CyclesDone(rows'[s])
  PROVE  Billed(s)'
<1>. USE DEF BInv
<1>1. /\ call'[c] = v /\ \A d \in Client : d # c => call'[d] = call[d]
      /\ \A q \in Runner : run[q] \in RunType /\ RunSound(run[q], Table)
  BY DEF Shape, Types
<1>2. Billed(s)
  OBVIOUS
<1>3. ASSUME CallHas(v, s) \/ CallHas(call[c], s)
      PROVE  /\ \A d \in Client : d # c => ~CallHas(call[d], s)
             /\ \A r \in Runner : ~RunHas(run[r], s)
  BY <1>2, <1>3, HeldMeans DEF Billed, Exclusive
<1>4. Exclusive(s)'
  <2>1. ASSUME NEW d \in Client, NEW f \in Client, CallHas(call'[d], s), CallHas(call'[f], s)
        PROVE  d = f
    BY <1>1, <1>2, <1>3, <2>1 DEF Billed, Exclusive
  <2>2. ASSUME NEW r \in Runner, NEW d \in Client
        PROVE  ~(RunHas(run'[r], s) /\ CallHas(call'[d], s))
    BY <1>1, <1>2, <1>3 DEF Billed, Exclusive
  <2>. QED  BY <1>2, <2>1, <2>2 DEF Billed, Exclusive
<1>5. \A r \in Runner : RunFresh(run'[r], s, rows'[s], bills'[s], month')
  <2>. TAKE r \in Runner
  <2>1. CASE ~RunHas(run[r], s)
    BY <1>1, <2>1, HoldersFresh
  <2>2. CASE RunHas(run[r], s)
    BY <1>2, <1>3, <2>2 DEF Billed
  <2>. QED  BY <2>1, <2>2
<1>6. \A d \in Client : CallFresh(call'[d], s, rows'[s], bills'[s])
  <2>. TAKE d \in Client
  <2>1. CASE d = c
    BY <1>1, <2>1
  <2>2. CASE d # c /\ ~CallHas(call[d], s)
    BY <1>1, <2>2 DEF CallHas, CallFresh
  <2>3. CASE d # c /\ CallHas(call[d], s)
    BY <1>1, <1>2, <1>3, <2>3 DEF Billed
  <2>. QED  BY <2>1, <2>2, <2>3
<1>7. Counted(s)'
  <2>1. s \notin Table' => bills'[s] = <<>>
    BY <1>2 DEF Billed, Counted
  <2>2. ASSUME s \in Table', ~Recording(s)', ~Creating(s)'
        PROVE  Counts(rows'[s], bills'[s])
    <3>1. ~(v.id = s /\ v.at = "confirming")
      BY <1>1, <2>2 DEF Creating
    <3>2. CASE /\ rows'[s] = rows[s] /\ (s \in Table' => s \in Table)
               /\ ~(call[c].id = s /\ call[c].at = "confirming")
      <4>1. ~Recording(s) /\ ~Creating(s)
        BY <1>1, <2>2, <3>2 DEF Recording, Creating
      <4>. QED  BY <1>2, <2>2, <3>2, <4>1 DEF Billed, Counted
    <3>. QED  BY <3>1, <3>2
  <2>. QED  BY <2>1, <2>2 DEF Counted
<1>8. Retried(s)' \/ (\E r \in Runner : Awaits(run'[r], s)) => CyclesDone(rows'[s])
  <2>1. Retried(s) \/ (\E r \in Runner : Awaits(run[r], s)) => s \in Table
    BY <1>1 DEF Shape, Awaits, RunSound
  <2>. QED  BY <1>2, <2>1 DEF Billed, Retried
<1>9. OnSchedule(s)'
  BY <1>2 DEF Billed, OnSchedule
<1>. QED  BY <1>4, <1>5, <1>6, <1>7, <1>8, <1>9 DEF Billed

(* What a request may do to the gateway and to the creations.              *)
LEMMA CreationsByCall ==
  ASSUME BInv, NEW c \in Client, NEW v \in CallType, Table \subseteq Table',
         call' = [call EXCEPT ![c] = v], exposed \subseteq exposed',
         gateway \subseteq gateway',
         gateway' \subseteq gateway \cup {v.id}, v.kind # "create" => gateway' = gateway,
         \A s \in Table' \ Table :
           s = v.id /\ v.kind = "create" /\ v.at = "confirming" /\ s \in gateway',
         call[c].kind = "create" => v.kind = "create" /\ v.id = call[c].id,
         v.kind = "create" =>
           \/ call[c].kind = "create"
           \/ \A d \in Client : ~(call[d].kind = "create" /\ call[d].id = v.id),
         call[c].kind = "create" /\ call[c].at \notin {"creating", "inserting", "hanging"} =>
           v.at \notin {"creating", "inserting", "hanging"},
         v.kind = "create" =>
           /\ v.at = "creating" => v.id \notin gateway'
           /\ v.at \in {"inserting", "confirming"} => v.id \in gateway'
           /\ v.at = "answered" => v.id \in Table'
           /\ v.at = "refused" /\ v.id \notin exposed' => v.id \notin gateway'
  PROVE  Creations'
<1>1. /\ call'[c] = v /\ \A d \in Client : d # c => call'[d] = call[d]
      /\ Creations
  BY DEF BInv, Shape, Types
<1>2. ASSUME NEW d \in Client, NEW f \in Client, call'[d].kind = "create",
             call'[f].kind = "create", call'[d].id = call'[f].id
      PROVE  d = f
  BY <1>1, <1>2 DEF Creations
<1>3. ASSUME NEW s \in Table'
      PROVE  /\ s \in gateway'
             /\ \E d \in Client : /\ call'[d].kind = "create" /\ call'[d].id = s
                                  /\ call'[d].at \notin {"creating", "inserting", "hanging"}
  <2>1. CASE s \notin Table
    BY <1>1, <1>3, <2>1
  <2>2. CASE s \in Table
    BY <1>1, <2>2 DEF Creations
  <2>. QED  BY <2>1, <2>2
<1>4. ASSUME NEW d \in Client, call'[d].kind = "create"
      PROVE  /\ call'[d].at = "creating" => call'[d].id \notin gateway'
             /\ call'[d].at \in {"inserting", "confirming"} => call'[d].id \in gateway'
             /\ call'[d].at = "answered" => call'[d].id \in Table'
             /\ call'[d].at = "refused" /\ call'[d].id \notin exposed' =>
                  call'[d].id \notin gateway'
  <2>1. CASE d = c
    BY <1>1, <1>4, <2>1
  <2>2. CASE d # c
    <3>1. v.kind = "create" => v.id # call[d].id
      BY <1>1, <1>4, <2>2 DEF Creations
    <3>2. call[d].id \in gateway' <=> call[d].id \in gateway
      BY <3>1
    <3>. QED  BY <1>1, <1>4, <2>2, <3>2 DEF Creations
  <2>. QED  BY <2>1, <2>2
<1>5. \A s \in gateway' : \E d \in Client : call'[d].kind = "create" /\ call'[d].id = s
  <2>. TAKE s \in gateway'
  <2>1. CASE s \in gateway
    BY <1>1, <2>1 DEF Creations
  <2>2. CASE s \notin gateway
    BY <1>1, <2>2
  <2>. QED  BY <2>1, <2>2
<1>. QED  BY <1>2, <1>3, <1>4, <1>5 DEF Creations

LEMMA StepByCall ==
  ASSUME BInv, NEW c \in Client, NEW v \in CallType, CallSound(v, Table'),
         call' = [call EXCEPT ![c] = v],
         UNCHANGED <<run, month, initialized, retries, bills>>,
         gateway' \subseteq Subscription,
         rows' \in [Subscription -> SoundRow \union {NoRow}],
         Table \subseteq Table', \A t \in Table' : rows'[t].id = t,
         disturbed' \in 0 .. MaxDisturbed,
         exposed' \subseteq Subscription, Creations',
         \A s \in Subscription \ exposed' : Billed(s)'
  PROVE  BInv'
BY ShapeByCall DEF BInv

(* It sends something, gets an answer, or is over: the table stays.        *)
LEMMA QuietCall ==
  ASSUME BInv, NEW c \in Client, NEW v \in CallType, CallSound(v, Table),
         call' = [call EXCEPT ![c] = v],
         UNCHANGED <<rows, run, month, initialized, retries, bills>>,
         gateway' \subseteq Subscription, disturbed' \in 0 .. MaxDisturbed,
         exposed \subseteq exposed', exposed' \subseteq Subscription,
         Table' = Table => Creations',
         call[c].at # "confirming" \/ call[c].id \in exposed',
         \A s \in Subscription \ exposed' :
           /\ CallHas(v, s) /\ ~CallHas(call[c], s) => ~Held(s)
           /\ CallFresh(v, s, rows[s], bills[s])
  PROVE  BInv'
<1>1. Table' = Table
  BY DEF Table, Exists
<1>2. ASSUME NEW s \in Subscription \ exposed' PROVE Billed(s)'
  <2>1. s \in Subscription /\ s \notin exposed
    BY <1>2
  <2>2. ~(call[c].id = s /\ call[c].at = "confirming")
    BY <1>2
  <2>. QED  BY <1>1, <1>2, <2>1, <2>2, BilledByCall
<1>3. /\ rows' \in [Subscription -> SoundRow \union {NoRow}]
      /\ \A t \in Table' : rows'[t].id = t
  BY <1>1 DEF BInv, Shape, Types
<1>. QED  BY <1>1, <1>2, <1>3, StepByCall

LEMMA AskCreateKeeps ==
  ASSUME BInv, NEW c \in Client, NEW t \in Subscription, AskCreate(c, t)
  PROVE  BInv'
<1>1. PICK i \in Interval, start \in 0 .. MaxMonth :
        \E n \in calculateNextBillingDate(start, i) :
          call' = [call EXCEPT ![c] =
                     [NoCall EXCEPT !.at = "creating", !.kind = "create", !.id = t,
                      !.copy = [id |-> t, status |-> "active", interval |-> i, paid |-> TRUE,
                                last |-> start, next |-> n, done |-> 0]]]
  BY DEF AskCreate
<1>2. PICK n \in calculateNextBillingDate(start, i) :
        call' = [call EXCEPT ![c] =
                   [NoCall EXCEPT !.at = "creating", !.kind = "create", !.id = t,
                    !.copy = [id |-> t, status |-> "active", interval |-> i, paid |-> TRUE,
                              last |-> start, next |-> n, done |-> 0]]]
  BY <1>1
<1>. DEFINE e == [id |-> t, status |-> "active", interval |-> i, paid |-> TRUE,
                  last |-> start, next |-> n, done |-> 0]
            v == [NoCall EXCEPT !.at = "creating", !.kind = "create", !.id = t, !.copy = e]
<1>3. /\ call[c] \in CallType /\ CallSound(call[c], Table) /\ call[c].at = "unsent"
      /\ disturbed \in 0 .. MaxDisturbed /\ exposed \subseteq Subscription
      /\ gateway \subseteq Subscription /\ month \in Nat
      /\ \A s \in Subscription \ exposed : CallFresh(call[c], s, rows[s], bills[s])
  BY CallNow DEF AskCreate
<1>4. start \in Nat /\ n \in Nat
  BY <1>3, NextDate
<1>5. e \in Row
  BY <1>4, Zenon DEF Row, Status
<1>6. e \in SoundRow /\ e.id = t /\ e.status = "active" /\ e.done = 0
  BY <1>5, BoundsAssumption DEF SoundRow
<1>7. call' = [call EXCEPT ![c] = v]
  BY <1>2
<1>. HIDE DEF e
<1>8. v \in CallType
  BY <1>6, NoCallType DEF CallType, CallStages, OperationKinds
<1>9. v.at = "creating" /\ v.kind = "create" /\ v.id = t /\ v.copy = e
  BY NoCallType DEF CallType
<1>. HIDE DEF v
<1>10. CallSound(v, Table)
  BY <1>6, <1>9 DEF CallSound
<1>11. /\ UNCHANGED <<rows, gateway, retries, initialized, run, month, disturbed, bills, exposed>>
       /\ \A d \in Client : ~(call[d].kind = "create" /\ call[d].id = t)
  BY DEF AskCreate
<1>12. call[c].kind # "create"
  BY <1>3 DEF CallSound
<1>13. ASSUME Table' = Table PROVE Creations'
  <2>1. v.id \notin gateway
    BY <1>9, <1>11 DEF BInv, Creations
  <2>. QED  BY <1>7, <1>8, <1>9, <1>11, <1>12, <1>13, <2>1, CreationsByCall
<1>14. \A s : ~CallHas(v, s) /\ CallFresh(v, s, rows[s], bills[s])
  BY <1>9 DEF CallHas, CallFresh
<1>. QED  BY <1>3, <1>7, <1>8, <1>10, <1>11, <1>13, <1>14, QuietCall

LEMMA AskChangeKeeps ==
  ASSUME BInv, NEW c \in Client, NEW t \in Subscription, AskChange(c, t)
  PROVE  BInv'
<1>1. /\ call[c] \in CallType /\ CallSound(call[c], Table) /\ call[c].at = "unsent"
      /\ disturbed \in 0 .. MaxDisturbed /\ exposed \subseteq Subscription
      /\ gateway \subseteq Subscription
  BY CallNow DEF AskChange
<1>. DEFINE Asks(v) ==
              /\ call' = [call EXCEPT ![c] = v]
              /\ v.at = "reading" /\ v.id = t /\ v.kind \in {"update", "cancel"}
              /\ v.kind = "cancel" => v.status = "cancelled"
<1>2. PICK v \in CallType : Asks(v)
  <2>1. ASSUME call' = [call EXCEPT ![c].at = "reading", ![c].kind = "cancel", ![c].id = t,
                                    ![c].status = "cancelled"]
        PROVE  \E v \in CallType : Asks(v)
    <3>. DEFINE w == [call[c] EXCEPT !.at = "reading", !.kind = "cancel", !.id = t,
                                     !.status = "cancelled"]
    <3>1. w \in CallType
      BY <1>1 DEF CallType, CallStages, OperationKinds, Status
    <3>2. /\ w.at = "reading" /\ w.id = t /\ w.kind = "cancel" /\ w.status = "cancelled"
      BY <1>1 DEF CallType
    <3>3. call' = [call EXCEPT ![c] = w]
      BY <2>1
    <3>. HIDE DEF w
    <3>. QED  BY <3>1, <3>2, <3>3
  <2>2. ASSUME NEW st \in NewStatus \cup {"none"}, NEW i \in Interval \cup {0},
               NEW p \in NamesAmount,
               call' = [call EXCEPT ![c].at = "reading", ![c].kind = "update", ![c].id = t,
                                    ![c].status = st, ![c].interval = i, ![c].paid = p]
        PROVE  \E v \in CallType : Asks(v)
    <3>. DEFINE w == [call[c] EXCEPT !.at = "reading", !.kind = "update", !.id = t,
                                     !.status = st, !.interval = i, !.paid = p]
    <3>1. w \in CallType
      BY <1>1, StatusAssumption, UpdateAssumption DEF CallType, CallStages, OperationKinds
    <3>2. w.at = "reading" /\ w.id = t /\ w.kind = "update"
      BY <1>1 DEF CallType
    <3>3. call' = [call EXCEPT ![c] = w]
      BY <2>2
    <3>. HIDE DEF w
    <3>. QED  BY <3>1, <3>2, <3>3
  <2>. HIDE DEF Asks
  <2>3. ASSUME "update" \in Operations,
               \E st \in NewStatus \cup {"none"}, i \in Interval \cup {0}, p \in NamesAmount :
                 call' = [call EXCEPT ![c].at = "reading", ![c].kind = "update", ![c].id = t,
                                      ![c].status = st, ![c].interval = i, ![c].paid = p]
        PROVE  \E v \in CallType : Asks(v)
    BY <2>2, <2>3
  <2>. QED  BY <2>1, <2>3 DEF AskChange
<1>3. CallSound(v, Table)
  BY <1>2 DEF CallSound
<1>4. UNCHANGED <<rows, gateway, retries, initialized, run, month, disturbed, bills, exposed>>
  BY DEF AskChange
<1>5. call[c].kind # "create"
  BY <1>1 DEF CallSound
<1>6. ASSUME Table' = Table PROVE Creations'
  BY <1>2, <1>4, <1>5, <1>6, CreationsByCall
<1>7. \A s : ~CallHas(v, s) /\ CallFresh(v, s, rows[s], bills[s])
  BY <1>2 DEF CallHas, CallFresh
<1>. QED  BY <1>1, <1>2, <1>3, <1>4, <1>6, <1>7, QuietCall

(* The handler is over, one way or the other.                              *)
LEMMA EndKeeps ==
  ASSUME BInv, NEW c \in Client, NEW how \in {"answered", "refused", "hanging"}, End(c, how),
         call[c].at \in {"creating", "inserting", "confirming", "reading", "writing"},
         UNCHANGED <<rows, run, month, initialized, retries, bills>>,
         gateway \subseteq gateway', gateway' \subseteq gateway \cup {call[c].id},
         gateway' # gateway => call[c].at = "creating" /\ how = "hanging",
         disturbed' \in 0 .. MaxDisturbed,
         exposed \subseteq exposed', exposed' \subseteq Subscription,
         call[c].kind = "create" =>
           \/ how = "hanging" /\ call[c].at = "creating"
           \/ how = "refused" /\ (call[c].at = "creating" \/ call[c].id \in exposed'),
         how = "answered" => call[c].kind # "create"
  PROVE  BInv'
<1>. DEFINE u == call[c]
            v == Ended(call[c], how)
<1>1. /\ u \in CallType /\ CallSound(u, Table)
      /\ gateway \subseteq Subscription
  BY CallNow
<1>2. u.id \in Subscription
  BY <1>1 DEF CallSound
<1>3. /\ v \in CallType /\ CallSound(v, Table)
      /\ v.at = how /\ v.kind = u.kind /\ v.id = u.id
  BY <1>1, EndedSound
<1>4. call' = [call EXCEPT ![c] = v]
  BY DEF End
<1>5. u.at = "confirming" => u.id \in exposed'
  BY <1>1 DEF CallSound
<1>6. u.kind = "create" /\ u.at = "creating" => u.id \notin gateway
  BY DEF BInv, Creations
<1>7. u.at = "creating" => u.kind = "create"
  BY <1>1 DEF CallSound
<1>. HIDE DEF v
<1>8. ASSUME Table' = Table PROVE Creations'
  BY <1>3, <1>4, <1>6, <1>7, <1>8, CreationsByCall
<1>9. \A s : ~CallHas(v, s) /\ CallFresh(v, s, rows[s], bills[s])
  BY <1>3 DEF CallHas, CallFresh
<1>. QED  BY <1>1, <1>2, <1>3, <1>4, <1>5, <1>8, <1>9, QuietCall

LEMMA GatewayAnswersKeeps ==
  ASSUME BInv, NEW c \in Client, GatewayAnswers(c)
  PROVE  BInv'
<1>. DEFINE u == call[c]
            v == [call[c] EXCEPT !.at = "inserting"]
<1>1. /\ u \in CallType /\ CallSound(u, Table) /\ u.at = "creating"
      /\ disturbed \in 0 .. MaxDisturbed /\ exposed \subseteq Subscription
      /\ gateway \subseteq Subscription
  BY CallNow DEF GatewayAnswers
<1>2. /\ UNCHANGED <<rows, retries, initialized, run, month, disturbed, bills, exposed>>
      /\ u.kind = "create" /\ u.id \in Subscription
  BY <1>1 DEF GatewayAnswers, CallSound
<1>3. CASE gateway' = gateway /\ End(c, "refused")
  BY <1>1, <1>2, <1>3, EndKeeps
<1>4. CASE gateway' = gateway \cup {u.id} /\ To(c, "inserting")
  <2>1. v \in CallType
    BY <1>1 DEF CallType, CallStages
  <2>2. v.at = "inserting" /\ v.kind = u.kind /\ v.id = u.id /\ v.copy = u.copy
    BY <1>1 DEF CallType
  <2>3. call' = [call EXCEPT ![c] = v]
    BY <1>4 DEF To
  <2>. HIDE DEF v
  <2>4. CallSound(v, Table)
    BY <1>1, <2>2 DEF CallSound
  <2>5. ASSUME Table' = Table PROVE Creations'
    BY <1>1, <1>2, <1>4, <2>1, <2>2, <2>3, <2>5, CreationsByCall
  <2>6. \A s : ~CallHas(v, s) /\ CallFresh(v, s, rows[s], bills[s])
    BY <2>2 DEF CallHas, CallFresh
  <2>. QED  BY <1>1, <1>2, <1>4, <2>1, <2>3, <2>4, <2>5, <2>6, QuietCall
<1>. QED  BY <1>3, <1>4 DEF GatewayAnswers

LEMMA AnswerLostKeeps ==
  ASSUME BInv, NEW c \in Client, AnswerLost(c)
  PROVE  BInv'
<1>1. /\ call[c] \in CallType /\ CallSound(call[c], Table) /\ call[c].at = "creating"
      /\ disturbed' \in 0 .. MaxDisturbed /\ exposed \subseteq Subscription
      /\ gateway \subseteq Subscription
  BY CallNow, Disturbed DEF AnswerLost
<1>2. call[c].id \in Subscription
  BY <1>1 DEF CallSound
<1>. QED  BY <1>1, <1>2, EndKeeps DEF AnswerLost

LEMMA CallFailsKeeps ==
  ASSUME BInv, NEW c \in Client, CallFails(c)
  PROVE  BInv'
<1>1. /\ call[c] \in CallType /\ CallSound(call[c], Table)
      /\ call[c].at \in {"inserting", "confirming", "reading", "writing"}
      /\ disturbed' \in 0 .. MaxDisturbed /\ exposed \subseteq Subscription
      /\ gateway \subseteq Subscription
  BY CallNow, Disturbed DEF CallFails
<1>2. call[c].id \in Subscription
  BY <1>1 DEF CallSound
<1>. QED  BY <1>1, <1>2, EndKeeps DEF CallFails, Expose

LEMMA InsertKeeps ==
  ASSUME BInv, NEW c \in Client, Insert(c)
  PROVE  BInv'
<1>. DEFINE u == call[c]
            t == call[c].id
            e == call[c].copy
            f == [call[c].copy EXCEPT !.done = 1, !.last = month]
            v == [call[c] EXCEPT !.at = "confirming", !.copy = f]
<1>1. /\ u \in CallType /\ CallSound(u, Table) /\ u.at = "inserting"
      /\ disturbed \in 0 .. MaxDisturbed /\ exposed \subseteq Subscription
      /\ gateway \subseteq Subscription /\ month \in Nat
  BY CallNow DEF Insert
<1>2. /\ u.kind = "create" /\ t \in Subscription /\ e \in SoundRow /\ e.id = t
      /\ e.status = "active" /\ e.done = 0
  BY <1>1 DEF CallSound
<1>3. /\ UNCHANGED <<gateway, retries, initialized, run, month, disturbed, bills, exposed>>
      /\ rows' = [rows EXCEPT ![t] = e]
  BY DEF Insert
<1>4. t \notin Table
  BY <1>1, <1>2 DEF BInv, Creations
<1>5. f \in SoundRow /\ f.id = t /\ f.status = "active" /\ f.done = 1
  <2>1. e \in Row
    BY <1>2 DEF SoundRow
  <2>2. f \in Row
    BY <1>1, <2>1, Zenon DEF Row
  <2>3. f.id = e.id /\ f.status = e.status /\ f.done = 1
    BY <2>1 DEF Row
  <2>. HIDE DEF f
  <2>. QED  BY <1>2, <2>2, <2>3, BoundsAssumption DEF SoundRow
<1>6. call' = [call EXCEPT ![c] = v]
  <2>1. [u EXCEPT !.at = "confirming", !.copy.done = 1, !.copy.last = month] = v
    BY <1>1 DEF CallType
  <2>2. call' = [call EXCEPT ![c] =
                   [u EXCEPT !.at = "confirming", !.copy.done = 1, !.copy.last = month]]
    BY DEF Insert
  <2>. QED  BY <2>1, <2>2
<1>. HIDE DEF f
<1>7. v \in CallType
  BY <1>1, <1>5 DEF CallType, CallStages
<1>8. v.at = "confirming" /\ v.kind = "create" /\ v.id = t /\ v.copy = f
  BY <1>1, <1>2 DEF CallType
<1>. HIDE DEF v, u, e
<1>9. Types
  BY DEF BInv, Shape
<1>10. /\ rows' \in [Subscription -> SoundRow \union {NoRow}]
       /\ Table' = Table \union {t}
       /\ \A s \in Table' : rows'[s].id = s
       /\ rows'[t] = e /\ \A s \in Subscription : s # t => rows'[s] = rows[s]
  BY <1>2, <1>3, <1>9, RowWritten
<1>11. CallSound(v, Table')
  BY <1>2, <1>5, <1>8, <1>10 DEF CallSound
<1>12. t \in gateway
  BY <1>1, <1>2 DEF BInv, Creations, u
<1>13. Creations'
  <2>1. \A s \in Table' \ Table :
          s = v.id /\ v.kind = "create" /\ v.at = "confirming" /\ s \in gateway'
    BY <1>3, <1>8, <1>10, <1>12
  <2>2. call[c].kind = "create" /\ v.id = call[c].id /\ call[c].at = "inserting"
    BY <1>1, <1>2, <1>8 DEF u
  <2>3. Table \subseteq Table' /\ v.id \in gateway' /\ gateway' = gateway /\ exposed' = exposed
    BY <1>3, <1>8, <1>10, <1>12
  <2>. QED  BY <1>6, <1>7, <1>8, <2>1, <2>2, <2>3, CreationsByCall
<1>14. ASSUME NEW s \in Subscription \ exposed' PROVE Billed(s)'
  <2>1. s \in Subscription /\ s \notin exposed /\ Billed(s)
    BY <1>3 DEF BInv
  <2>2. CASE s = t
    <3>1. ~Held(s) /\ s \notin Table
      BY <1>4, <2>2, HoldersListed DEF Held, RunHolds, CallHolds, RunHas, CallHas, BInv
    <3>2. bills[s] = <<>>
      BY <2>1, <3>1 DEF Billed, Counted
    <3>3. CallFresh(v, s, rows'[s], bills[s])
      BY <1>2, <1>5, <1>8, <1>10, <2>2, <3>2 DEF CallFresh
    <3>4. CallHas(v, s)
      BY <1>8, <2>2 DEF CallHas
    <3>. QED  BY <1>3, <1>6, <1>7, <1>8, <1>10, <2>1, <2>2, <3>1, <3>3, <3>4, BilledByCall
  <2>3. CASE s # t
    <3>1. ~CallHas(v, s) /\ CallFresh(v, s, rows'[s], bills[s]) /\ ~(u.id = s)
      BY <1>8, <2>3 DEF CallHas, CallFresh, u
    <3>2. rows'[s] = rows[s] /\ (s \in Table' => s \in Table)
      BY <1>10, <2>1, <2>3
    <3>. QED  BY <1>3, <1>6, <1>7, <1>10, <2>1, <3>1, <3>2, BilledByCall DEF u
  <2>. QED  BY <2>2, <2>3
<1>. QED  BY <1>1, <1>3, <1>6, <1>7, <1>10, <1>11, <1>13, <1>14, StepByCall

LEMMA ReadKeeps ==
  ASSUME BInv, NEW c \in Client, Read(c)
  PROVE  BInv'
<1>. DEFINE u == call[c]
            t == call[c].id
            v == [call[c] EXCEPT !.at = "writing", !.copy = rows[call[c].id]]
<1>1. /\ u \in CallType /\ CallSound(u, Table) /\ u.at = "reading"
      /\ disturbed \in 0 .. MaxDisturbed /\ exposed \subseteq Subscription
      /\ gateway \subseteq Subscription
  BY CallNow DEF Read
<1>2. /\ UNCHANGED <<rows, gateway, retries, initialized, run, month, disturbed, bills>>
      /\ u.kind \in {"update", "cancel"} /\ t \in Subscription
      /\ u.kind = "cancel" => u.status = "cancelled"
  BY <1>1 DEF Read, CallSound
<1>3. CASE ~Exists(t)
  <2>1. End(c, "refused") /\ UNCHANGED exposed
    BY <1>3 DEF Read
  <2>. QED  BY <1>1, <1>2, <2>1, EndKeeps
<1>4. CASE Exists(t)
  <2>1. /\ call' = [call EXCEPT ![c] = v]
        /\ exposed' = exposed \cup (IF Held(t) THEN {t} ELSE {})
    BY <1>4 DEF Read, Expose
  <2>2. t \in Table /\ rows[t] \in SoundRow /\ rows[t].id = t
    BY <1>2, <1>4 DEF Table, Exists, BInv, Shape, Types
  <2>3. v \in CallType
    BY <1>1, <2>2 DEF CallType, CallStages
  <2>4. /\ v.at = "writing" /\ v.kind = u.kind /\ v.id = t /\ v.copy = rows[t]
        /\ v.status = u.status
    BY <1>1 DEF CallType
  <2>. HIDE DEF v
  <2>5. CallSound(v, Table)
    BY <1>2, <2>2, <2>4 DEF CallSound
  <2>6. ASSUME Table' = Table PROVE Creations'
    BY <1>2, <2>1, <2>3, <2>4, <2>6, CreationsByCall
  <2>7. exposed \subseteq exposed' /\ exposed' \subseteq Subscription
    BY <1>1, <1>2, <2>1
  <2>8. \A s \in Subscription \ exposed' :
          /\ CallHas(v, s) /\ ~CallHas(call[c], s) => ~Held(s)
          /\ CallFresh(v, s, rows[s], bills[s])
    BY <2>1, <2>4 DEF CallHas, CallFresh
  <2>. QED  BY <1>1, <1>2, <2>1, <2>3, <2>5, <2>6, <2>7, <2>8, QuietCall
<1>. QED  BY <1>3, <1>4

(* A request that holds the row of t saves e, and is answered.             *)
LEMMA WriteByCall ==
  ASSUME BInv, NEW c \in Client, call[c].at \in {"writing", "confirming"},
         NEW t, t = call[c].id, NEW e \in SoundRow, e.id = t,
         rows' = [rows EXCEPT ![t] = e], End(c, "answered"),
         UNCHANGED <<gateway, retries, initialized, run, month, disturbed, bills, exposed>>,
         t \notin exposed =>
           Counts(e, bills[t]) /\ (CyclesDone(rows[t]) => CyclesDone(e))
  PROVE  BInv'
<1>. DEFINE u == call[c]
            v == Ended(call[c], "answered")
<1>1. /\ u \in CallType /\ CallSound(u, Table)
      /\ disturbed \in 0 .. MaxDisturbed /\ exposed \subseteq Subscription
      /\ gateway \subseteq Subscription
  BY CallNow
<1>2. t \in Table /\ t \in Subscription /\ u.at # "unsent"
  BY <1>1 DEF CallSound, Table
<1>3. /\ v \in CallType /\ \A X : CallSound(u, X) => CallSound(v, X)
      /\ v.at = "answered" /\ v.kind = u.kind /\ v.id = u.id
  BY <1>1, <1>2, EndedSound
<1>4. call' = [call EXCEPT ![c] = v]
  BY DEF End
<1>5. Types
  BY DEF BInv, Shape
<1>. HIDE DEF v
<1>6. Table' = Table \union {t}
  BY <1>2, <1>5, RowWritten
<1>7. /\ rows' \in [Subscription -> SoundRow \union {NoRow}]
      /\ \A s \in Table' : rows'[s].id = s
  BY <1>2, <1>5, RowWritten
<1>8. rows'[t] = e /\ \A s \in Subscription : s # t => rows'[s] = rows[s]
  BY <1>2, <1>5 DEF Types
<1>9. Table' = Table
  BY <1>2, <1>6
<1>10. Creations'
  BY <1>2, <1>3, <1>4, <1>9, CreationsByCall
<1>11. ASSUME NEW s \in Subscription \ exposed PROVE Billed(s)'
  <2>1. s \in Subscription /\ s \notin exposed /\ ~CallHas(v, s)
        /\ CallFresh(v, s, rows'[s], bills[s])
    BY <1>3 DEF CallHas, CallFresh
  <2>2. CASE s = t
    <3>1. CallHas(call[c], s)
      BY <2>2 DEF CallHas
    <3>. QED  BY <1>3, <1>4, <1>8, <1>9, <2>1, <2>2, <3>1, BilledByCall
  <2>3. CASE s # t
    <3>1. rows'[s] = rows[s] /\ call[c].id # s
      BY <1>8, <2>1, <2>3
    <3>. QED  BY <1>3, <1>4, <1>9, <2>1, <3>1, BilledByCall
  <2>. QED  BY <2>2, <2>3
<1>. QED  BY <1>1, <1>3, <1>4, <1>7, <1>9, <1>10, <1>11, StepByCall

LEMMA ConfirmKeeps ==
  ASSUME BInv, NEW c \in Client, Confirm(c)
  PROVE  BInv'
<1>. DEFINE u == call[c]
            t == call[c].id
            e == call[c].copy
<1>1. /\ u \in CallType /\ CallSound(u, Table) /\ u.at = "confirming"
      /\ \A s \in Subscription \ exposed : CallFresh(u, s, rows[s], bills[s])
  BY CallNow DEF Confirm
<1>2. e \in SoundRow /\ e.id = t /\ t \in Table /\ t \in Subscription
  BY <1>1 DEF CallSound, Table
<1>3. t \notin exposed => Counts(e, bills[t]) /\ ~CyclesDone(rows[t])
  <2>. SUFFICES ASSUME t \notin exposed
                PROVE  Counts(e, bills[t]) /\ ~CyclesDone(rows[t])
    OBVIOUS
  <2>1. rows[t].done = 0 /\ bills[t] = <<>> /\ e.done = 1
    BY <1>1, <1>2 DEF CallFresh
  <2>. QED  BY <2>1, BoundsAssumption DEF Counts, CyclesDone
<1>. QED  BY <1>1, <1>2, <1>3, WriteByCall DEF Confirm

(* What an update or a cancellation makes of the copy.                     *)
LEMMA ChangedSound ==
  ASSUME NEW c \in Client, call[c] \in CallType, call[c].copy \in SoundRow,
         NEW e \in Changed(c)
  PROVE  LET g == call[c].copy IN
         /\ e \in SoundRow /\ e.id = g.id /\ e.done = g.done /\ e.last = g.last
         /\ e.next = g.next \/ e.next > g.last
         /\ e.status = g.status \/ e.status = call[c].status
<1>. DEFINE u == call[c]
            g == call[c].copy
            f == [g EXCEPT !.paid = IF u.kind = "update" THEN u.paid ELSE @]
            h == IF u.status = "none" THEN f ELSE [f EXCEPT !.status = u.status]
<1>1. g \in Row /\ g.last \in Nat /\ (Cycles > 0 => g.done <= Cycles)
  BY DEF SoundRow, Row
<1>2. u.status \in Status \cup {"none"} /\ u.interval \in Interval \cup {0} /\ u.paid \in BOOLEAN
  BY DEF CallType
<1>3. f \in Row
  BY <1>1, <1>2, Zenon DEF Row
<1>4. /\ f.id = g.id /\ f.done = g.done /\ f.last = g.last /\ f.next = g.next
      /\ f.status = g.status
  BY <1>1 DEF Row
<1>5. e \in (IF u.interval = 0 THEN {h}
            ELSE {[h EXCEPT !.interval = u.interval, !.next = n] :
                    n \in calculateNextBillingDate(h.last, u.interval)})
  BY DEF Changed
<1>. HIDE DEF f, g
<1>6. h \in Row
  BY <1>2, <1>3, Zenon DEF Row
<1>7. /\ h.id = g.id /\ h.done = g.done /\ h.last = g.last /\ h.next = g.next
      /\ h.status = g.status \/ h.status = u.status
  BY <1>3, <1>4 DEF Row
<1>. HIDE DEF h, u
<1>8. CASE u.interval = 0
  BY <1>1, <1>5, <1>6, <1>7, <1>8 DEF SoundRow, g, u
<1>9. CASE u.interval # 0
  <2>1. PICK n \in calculateNextBillingDate(h.last, u.interval) :
          e = [h EXCEPT !.interval = u.interval, !.next = n]
    BY <1>5, <1>9
  <2>2. u.interval \in Interval
    BY <1>2, <1>9
  <2>3. n \in Nat /\ n > h.last
    BY <1>1, <1>7, <2>2, NextDate
  <2>4. e \in Row
    BY <1>6, <2>1, <2>2, <2>3, Zenon DEF Row
  <2>5. /\ e.id = h.id /\ e.done = h.done /\ e.last = h.last /\ e.next = n
        /\ e.status = h.status
    BY <1>6, <2>1 DEF Row
  <2>. QED  BY <1>1, <1>7, <2>3, <2>4, <2>5 DEF SoundRow, g, u
<1>. QED  BY <1>8, <1>9

(* Beside a request that holds the row nobody charges or creates it.       *)
LEMMA NoneBeside ==
  ASSUME BInv, NEW c \in Client, NEW t \in Subscription, t \notin exposed,
         CallHas(call[c], t), call[c].at = "writing"
  PROVE  ~Recording(t) /\ ~Creating(t)
<1>1. Exclusive(t)
  BY DEF BInv, Billed
<1>2. \A r \in Runner : run[r].id = t /\ run[r].at = "saving" => RunHas(run[r], t)
  BY NoRowIsNone DEF BInv, Shape, RunSound, Processing, RunHas
<1>3. \A d \in Client : call[d].id = t /\ call[d].at = "confirming" => CallHas(call[d], t)
  BY DEF CallHas
<1>. QED  BY <1>1, <1>2, <1>3 DEF Exclusive, Recording, Creating

LEMMA WriteKeeps ==
  ASSUME BInv, NEW c \in Client, Write(c)
  PROVE  BInv'
<1>. DEFINE u == call[c]
            t == call[c].id
            g == call[c].copy
<1>1. /\ u \in CallType /\ CallSound(u, Table) /\ u.at = "writing"
      /\ \A s \in Subscription \ exposed : CallFresh(u, s, rows[s], bills[s])
  BY CallNow DEF Write
<1>2. g \in SoundRow /\ g.id = t /\ t \in Table /\ t \in Subscription
  BY <1>1 DEF CallSound, Table
<1>3. PICK e \in Changed(c) : rows' = [rows EXCEPT ![e.id] = e]
  BY DEF Write
<1>4. /\ e \in SoundRow /\ e.id = t /\ e.done = g.done /\ e.last = g.last
      /\ e.next = g.next \/ e.next > g.last
  BY <1>1, <1>2, <1>3, ChangedSound
<1>5. ASSUME t \notin exposed
      PROVE  Counts(e, bills[t]) /\ (CyclesDone(rows[t]) => CyclesDone(e))
  <2>1. g = rows[t]
    BY <1>1, <1>2, <1>5 DEF CallFresh
  <2>2. CallHas(u, t)
    BY <1>1 DEF CallHas
  <2>3. ~Recording(t) /\ ~Creating(t)
    BY <1>1, <1>2, <1>5, <2>2, NoneBeside
  <2>4. Counts(rows[t], bills[t])
    BY <1>2, <1>5, <2>3 DEF BInv, Billed, Counted
  <2>5. bills[t] \in Seq(Nat) /\ g.last \in Nat
    BY <1>2 DEF BInv, Shape, Types, SoundRow, Row
  <2>6. \A i \in 1 .. Len(bills[t]) : bills[t][i] \in Nat
    BY <2>5
  <2>7. e.next \in Nat
    BY <1>4 DEF SoundRow, Row
  <2>8. \A i \in 1 .. Len(bills[t]) : bills[t][i] <= e.last /\ bills[t][i] < e.next
    <3>. TAKE i \in 1 .. Len(bills[t])
    <3>1. bills[t][i] <= g.last /\ bills[t][i] < g.next /\ bills[t][i] \in Nat
      BY <2>1, <2>4, <2>6 DEF Counts
    <3>. QED  BY <1>4, <2>5, <2>7, <3>1
  <2>. QED  BY <1>4, <2>1, <2>4, <2>8 DEF Counts, CyclesDone
<1>. QED  BY <1>1, <1>2, <1>3, <1>4, <1>5, WriteByCall DEF Write

-----------------------------------------------------------------------------
(* The clock, retries that fall due, notifications and crashes             *)

(* Holders keep what they have; s is neither charged nor forgotten.        *)
LEMMA BilledStill ==
  ASSUME BInv, NEW s \in Subscription \ exposed, UNCHANGED <<run, call, bills>>,
         Table' = Table, month' \in Nat, month' >= month,
         rows'[s] = rows[s] \/ ~Held(s),
         s \in Table => /\ rows'[s].done = rows[s].done /\ rows'[s].last = rows[s].last
                        /\ rows'[s].next = rows[s].next,
         Retried(s)' => Retried(s)
  PROVE  Billed(s)'
<1>1. /\ Billed(s) /\ month \in Nat /\ s \in Subscription
      /\ \A r \in Runner : run[r] \in RunType /\ RunSound(run[r], Table)
  BY BoundsAssumption DEF BInv, Shape, Types
<1>2. Exclusive(s)'
  BY <1>1 DEF Billed, Exclusive
<1>3. \A r \in Runner : RunFresh(run'[r], s, rows'[s], bills'[s], month')
  <2>. TAKE r \in Runner
  <2>1. CASE ~Held(s)
    BY <1>1, <2>1, HeldMeans, HoldersFresh
  <2>2. CASE rows'[s] = rows[s]
    <3>1. \A e \in run[r].todo : e.next \in Nat
      BY <1>1 DEF RunType, SoundRow, Row
    <3>2. RunFresh(run[r], s, rows[s], bills[s], month)
      BY <1>1 DEF Billed
    <3>. QED  BY <1>1, <2>2, <3>1, <3>2 DEF RunFresh
  <2>. QED  BY <2>1, <2>2
<1>4. \A c \in Client : CallFresh(call'[c], s, rows'[s], bills'[s])
  <2>. TAKE c \in Client
  <2>1. CASE ~Held(s)
    BY <2>1, HeldMeans DEF CallHas, CallFresh
  <2>2. CASE rows'[s] = rows[s]
    BY <1>1, <2>2 DEF Billed
  <2>. QED  BY <2>1, <2>2
<1>5. Counted(s)'
  BY <1>1 DEF Billed, Counted, Counts, Recording, Creating
<1>6. OnSchedule(s)'
  <2>1. bills[s] \in Seq(Nat)
    BY <1>1 DEF BInv, Shape, Types
  <2>2. \A i \in 1 .. Len(bills[s]) : bills[s][i] \in Nat
    BY <2>1
  <2>. QED  BY <1>1, <2>2 DEF Billed, OnSchedule
<1>7. Retried(s)' \/ (\E r \in Runner : Awaits(run'[r], s)) => CyclesDone(rows'[s])
  <2>1. Retried(s) \/ (\E r \in Runner : Awaits(run[r], s)) => s \in Table
    BY <1>1 DEF BInv, Shape, Awaits, RunSound
  <2>. QED  BY <1>1, <2>1 DEF Billed, CyclesDone
<1>. QED  BY <1>2, <1>3, <1>4, <1>5, <1>6, <1>7 DEF Billed

LEMMA QuietStep ==
  ASSUME BInv, UNCHANGED <<gateway, run, call, bills>>,
         rows' \in [Subscription -> SoundRow \union {NoRow}],
         Table' = Table, \A t \in Table' : rows'[t].id = t,
         retries' \in [Subscription -> [count : 0 .. MaxRetries, ready : BOOLEAN]],
         \A s \in Subscription : Retried(s)' => Retried(s),
         initialized' \in BOOLEAN, month' \in 0 .. MaxMonth, month' >= month,
         disturbed' \in 0 .. MaxDisturbed,
         exposed \subseteq exposed', exposed' \subseteq Subscription,
         \A s \in Subscription \ exposed' : rows'[s] = rows[s] \/ ~Held(s),
         \A s \in Table : /\ rows'[s].done = rows[s].done /\ rows'[s].last = rows[s].last
                          /\ rows'[s].next = rows[s].next
  PROVE  BInv'
<1>1. Shape'
  <2>1. Types'
    BY DEF BInv, Shape, Types
  <2>. QED  BY <2>1 DEF BInv, Shape
<1>2. Creations'
  BY DEF BInv, Creations
<1>3. month' \in Nat
  BY BoundsAssumption
<1>4. \A s \in Subscription \ exposed' : Billed(s)'
  BY <1>3, BilledStill
<1>. QED  BY <1>1, <1>2, <1>4 DEF BInv

LEMMA SwitchKeeps ==
  ASSUME BInv, Start \/ Stop
  PROVE  BInv'
<1>1. /\ UNCHANGED <<rows, gateway, retries, run, call, month, bills, exposed>>
      /\ initialized' \in BOOLEAN
  BY DEF Start, Stop
<1>2. disturbed' \in 0 .. MaxDisturbed
  BY Disturbed DEF Start, Stop, BInv, Shape, Types
<1>3. Table' = Table
  BY <1>1 DEF Table, Exists
<1>4. month \in Nat /\ \A s \in Subscription : Retried(s)' => Retried(s)
  BY <1>1, BoundsAssumption DEF Retried, BInv, Shape, Types
<1>. QED  BY <1>1, <1>2, <1>3, <1>4, QuietStep DEF BInv, Shape, Types

LEMMA TickKeeps ==
  ASSUME BInv, Tick
  PROVE  BInv'
<1>1. UNCHANGED <<rows, gateway, retries, initialized, run, call, disturbed, bills, exposed>>
  BY DEF Tick
<1>2. month' \in 0 .. MaxMonth /\ month' >= month
  BY BoundsAssumption DEF Tick, BInv, Shape, Types
<1>3. Table' = Table
  BY <1>1 DEF Table, Exists
<1>4. \A s \in Subscription : Retried(s)' => Retried(s)
  BY <1>1 DEF Retried
<1>. QED  BY <1>1, <1>2, <1>3, <1>4, QuietStep DEF BInv, Shape, Types

LEMMA RetryDueKeeps ==
  ASSUME BInv, NEW t \in Subscription, RetryDue(t)
  PROVE  BInv'
<1>. DEFINE R == [count : 0 .. MaxRetries, ready : BOOLEAN]
            x == [retries[t] EXCEPT !.ready = TRUE]
<1>1. /\ UNCHANGED <<rows, gateway, initialized, run, call, month, disturbed, bills, exposed>>
      /\ retries' = [retries EXCEPT ![t] = x] /\ retries[t].count > 0
  BY DEF RetryDue
<1>2. retries \in [Subscription -> R] /\ retries[t] \in R
  BY DEF BInv, Shape, Types
<1>3. x \in R
  BY <1>2, Zenon
<1>. HIDE DEF R, x
<1>4. /\ retries' \in [Subscription -> R] /\ retries'[t] = x
      /\ \A s \in Subscription : s # t => retries'[s] = retries[s]
  BY <1>1, <1>2, <1>3
<1>5. \A s \in Subscription : Retried(s)' => Retried(s)
  BY <1>1, <1>4 DEF Retried
<1>6. Table' = Table
  BY <1>1 DEF Table, Exists
<1>7. month \in Nat
  BY BoundsAssumption DEF BInv, Shape, Types
<1>. QED  BY <1>1, <1>4, <1>5, <1>6, <1>7, QuietStep DEF BInv, Shape, Types, R

LEMMA NotifiedKeeps ==
  ASSUME BInv, NEW t \in Subscription, Notified(t)
  PROVE  BInv'
<1>1. PICK st \in NoticeStatus : rows' = [rows EXCEPT ![t].status = st]
  BY DEF Notified
<1>. DEFINE e == [rows[t] EXCEPT !.status = st]
<1>2. /\ UNCHANGED <<gateway, retries, initialized, run, call, month, bills>>
      /\ exposed' = exposed \cup (IF Held(t) THEN {t} ELSE {})
      /\ disturbed' \in 0 .. MaxDisturbed
  BY Disturbed DEF Notified, Expose, BInv, Shape, Types
<1>3. t \in Table /\ rows[t] \in SoundRow /\ rows[t].id = t /\ Types
  BY DEF Notified, Table, Exists, BInv, Shape, Types
<1>4. st \in Status
  BY UpdateAssumption DEF Status
<1>5. e \in SoundRow /\ e.id = t /\ e.done = rows[t].done /\ e.last = rows[t].last
      /\ e.next = rows[t].next
  <2>1. rows[t] \in Row
    BY <1>3 DEF SoundRow
  <2>2. e \in Row
    BY <1>4, <2>1, Zenon DEF Row
  <2>3. e.id = rows[t].id /\ e.done = rows[t].done /\ e.last = rows[t].last
        /\ e.next = rows[t].next
    BY <2>1 DEF Row
  <2>. HIDE DEF e
  <2>. QED  BY <1>3, <2>2, <2>3 DEF SoundRow
<1>6. rows' = [rows EXCEPT ![t] = e]
  BY <1>1
<1>. HIDE DEF e
<1>7. Table' = Table \union {t}
  BY <1>3, <1>5, <1>6, RowWritten
<1>8. /\ rows' \in [Subscription -> SoundRow \union {NoRow}]
      /\ \A s \in Table' : rows'[s].id = s
  BY <1>3, <1>5, <1>6, RowWritten
<1>9. rows'[t] = e /\ \A s \in Subscription : s # t => rows'[s] = rows[s]
  BY <1>3, <1>6 DEF Types
<1>10. Table' = Table /\ \A s \in Table : s \in Subscription
  BY <1>3, <1>7 DEF Table
<1>11. \A s \in Table : /\ rows'[s].done = rows[s].done /\ rows'[s].last = rows[s].last
                        /\ rows'[s].next = rows[s].next
  BY <1>5, <1>9, <1>10
<1>12. \A s \in Subscription \ exposed' : rows'[s] = rows[s] \/ ~Held(s)
  BY <1>2, <1>9
<1>13. /\ month \in Nat /\ \A s \in Subscription : Retried(s)' => Retried(s)
       /\ exposed \subseteq exposed' /\ exposed' \subseteq Subscription
  BY <1>2, BoundsAssumption DEF Retried, BInv, Shape, Types
<1>. QED  BY <1>2, <1>8, <1>10, <1>11, <1>12, <1>13, QuietStep DEF BInv, Shape, Types

LEMMA CrashKeeps ==
  ASSUME BInv, Crash
  PROVE  BInv'
<1>. DEFINE over(c) == call[c].at \in {"unsent", "answered", "refused"}
<1>1. /\ UNCHANGED <<rows, gateway, month, bills>> /\ initialized' = FALSE
      /\ run' = [r \in Runner |-> Idle]
      /\ call' = [c \in Client |-> IF over(c) THEN call[c] ELSE Ended(call[c], "lost")]
      /\ retries' = [s \in Subscription |-> NoRetry]
      /\ disturbed' \in 0 .. MaxDisturbed
      /\ exposed' = exposed \cup ({run[r].id : r \in {q \in Runner : run[q].at = "saving"}}
            \cup {call[c].id : c \in {d \in Client : call[d].at = "confirming"}})
  BY Disturbed DEF Crash, Expose, BInv, Shape, Types
<1>2. Table' = Table
  BY <1>1 DEF Table, Exists
<1>3. ASSUME NEW c \in Client
      PROVE  /\ call'[c] \in CallType /\ CallSound(call'[c], Table)
             /\ call'[c].kind = call[c].kind /\ call'[c].id = call[c].id
             /\ call'[c] = call[c] \/ call'[c].at = "lost"
             /\ call'[c].at \in {"unsent", "answered", "refused", "lost"}
  <2>1. call[c] \in CallType /\ CallSound(call[c], Table)
    BY CallNow
  <2>. QED  BY <1>1, <2>1, EndedSound
<1>4. exposed \subseteq exposed' /\ exposed' \subseteq Subscription
  <2>1. \A r \in Runner : run[r].at = "saving" => run[r].id \in Subscription
    BY DEF BInv, Shape, RunSound, Processing, SoundRow, Row
  <2>2. \A c \in Client : call[c].at = "confirming" => call[c].id \in Subscription
    BY DEF BInv, Shape, CallSound
  <2>. QED  BY <1>1, <2>1, <2>2 DEF BInv, Shape, Types
<1>5. \A s \in Subscription : ~Retried(s)'
  BY <1>1, NoRetryType DEF Retried
<1>6. Shape'
  <2>1. run' \in [Runner -> RunType] /\ \A r \in Runner : RunSound(run'[r], Table')
    BY <1>1, IdleSound
  <2>2. call' \in [Client -> CallType] /\ \A c \in Client : CallSound(call'[c], Table')
    BY <1>1, <1>2, <1>3
  <2>3. retries' \in [Subscription -> [count : 0 .. MaxRetries, ready : BOOLEAN]]
    BY <1>1, NoRetryType
  <2>4. Types'
    BY <1>1, <1>2, <1>4, <2>1, <2>2, <2>3 DEF BInv, Shape, Types
  <2>. QED  BY <1>5, <2>1, <2>2, <2>4 DEF Shape
<1>7. Creations'
  <2>1. \A c, d \in Client :
          call'[c].kind = "create" /\ call'[d].kind = "create" /\ call'[c].id = call'[d].id
          => c = d
    BY <1>3 DEF BInv, Creations
  <2>2. \A s \in gateway' : \E c \in Client : call'[c].kind = "create" /\ call'[c].id = s
    BY <1>1, <1>3 DEF BInv, Creations
  <2>3. \A s \in Table' :
          /\ s \in gateway'
          /\ \E c \in Client : /\ call'[c].kind = "create" /\ call'[c].id = s
                               /\ call'[c].at \notin {"creating", "inserting", "hanging"}
    BY <1>1, <1>2, <1>3 DEF BInv, Creations
  <2>4. ASSUME NEW c \in Client, call'[c].kind = "create"
        PROVE  /\ call'[c].at = "creating" => call'[c].id \notin gateway'
               /\ call'[c].at \in {"inserting", "confirming"} => call'[c].id \in gateway'
               /\ call'[c].at = "answered" => call'[c].id \in Table'
               /\ call'[c].at = "refused" /\ call'[c].id \notin exposed' =>
                    call'[c].id \notin gateway'
    BY <1>1, <1>2, <1>3, <1>4, <2>4 DEF BInv, Creations
  <2>. QED  BY <2>1, <2>2, <2>3, <2>4 DEF Creations
<1>8. ASSUME NEW s \in Subscription \ exposed' PROVE Billed(s)'
  <2>1. Billed(s) /\ s \in Subscription
    BY <1>4, <1>8 DEF BInv
  <2>2. \A r \in Runner : run'[r] = Idle
    BY <1>1
  <2>3. \A r \in Runner : /\ ~RunHas(run'[r], s) /\ ~Awaits(run'[r], s)
                          /\ RunFresh(run'[r], s, rows'[s], bills'[s], month')
    BY <2>2, IdleHolds, IdleSound, HoldersFresh
  <2>4. \A c \in Client : /\ ~CallHas(call'[c], s)
                          /\ CallFresh(call'[c], s, rows'[s], bills'[s])
    BY <1>3 DEF CallHas, CallFresh
  <2>5. ~Recording(s) /\ ~Creating(s)
    BY <1>1, <1>8 DEF Recording, Creating
  <2>6. Counted(s)'
    BY <1>1, <1>2, <2>1, <2>5 DEF Billed, Counted
  <2>7. OnSchedule(s)'
    BY <1>1, <2>1 DEF Billed, OnSchedule
  <2>. QED  BY <1>5, <2>1, <2>3, <2>4, <2>6, <2>7 DEF Billed, Exclusive
<1>. QED  BY <1>6, <1>7, <1>8 DEF BInv

-----------------------------------------------------------------------------
(* Theorems                                                                *)

LEMMA InitBilling == Init => BInv
<1>. SUFFICES ASSUME Init PROVE BInv
  OBVIOUS
<1>. USE DEF Init
<1>1. Table = {} /\ \A s \in Subscription : ~Retried(s)
  BY NoRetryType DEF Table, Exists, Retried
<1>2. Types
  <2>1. 0 \in 0 .. MaxMonth /\ 0 \in 0 .. MaxDisturbed /\ <<>> \in Seq(Nat)
    BY BoundsAssumption
  <2>2. retries \in [Subscription -> [count : 0 .. MaxRetries, ready : BOOLEAN]]
    BY NoRetryType
  <2>3. run \in [Runner -> RunType] /\ call \in [Client -> CallType]
    BY IdleSound, NoCallType
  <2>4. rows \in [Subscription -> SoundRow \union {NoRow}]
    OBVIOUS
  <2>. QED  BY <1>1, <2>1, <2>2, <2>3, <2>4 DEF Types
<1>3. \A c \in Client : CallSound(call[c], Table) /\ call[c].kind = "none" /\ call[c].at = "unsent"
  BY DEF NoCall, CallSound
<1>4. Shape
  BY <1>1, <1>2, <1>3, IdleSound DEF Shape
<1>5. Creations
  BY <1>1, <1>3 DEF Creations
<1>6. ASSUME NEW s \in Subscription PROVE Billed(s)
  <2>1. \A r \in Runner : /\ ~RunHas(run[r], s) /\ ~Awaits(run[r], s)
                          /\ RunFresh(run[r], s, rows[s], bills[s], month)
    BY IdleHolds, IdleSound, HoldersFresh
  <2>2. \A c \in Client : ~CallHas(call[c], s) /\ CallFresh(call[c], s, rows[s], bills[s])
    BY <1>3 DEF CallHas, CallFresh
  <2>3. Counted(s) /\ OnSchedule(s)
    BY <1>1 DEF Counted, OnSchedule
  <2>. QED  BY <1>1, <2>1, <2>2, <2>3 DEF Billed, Exclusive
<1>. QED  BY <1>4, <1>5, <1>6 DEF BInv

LEMMA BillingStep == BInv /\ [Next]_vars => BInv'
<1>. SUFFICES ASSUME BInv, [Next]_vars PROVE BInv'
  OBVIOUS
<1>1. ASSUME NEW c \in Client, ClientStep(c) PROVE BInv'
  BY <1>1, AskCreateKeeps, AskChangeKeeps, GatewayAnswersKeeps, AnswerLostKeeps,
     InsertKeeps, ConfirmKeeps, ReadKeeps, WriteKeeps, CallFailsKeeps DEF ClientStep
<1>2. ASSUME NEW r \in Runner, SchedulerStep(r) PROVE BInv'
  BY <1>2, StartCycleKeeps, ListDueKeeps, NextDueKeeps, NextRetryKeeps, FetchKeeps,
     RefetchKeeps, SaveKeeps, NoteKeeps, ScheduleKeeps, FindKeeps, UpdateKeeps
     DEF SchedulerStep
<1>3. ASSUME NEW r \in Runner, SchedulerFails(r) PROVE BInv'
  BY <1>3, ListFailsKeeps, FetchFailsKeeps, SaveFailsKeeps, NoteFailsKeeps,
     UpdateFailsKeeps, RefetchFailsKeeps DEF SchedulerFails
<1>4. ASSUME NEW r \in Runner, NEW s \in Subscription, Trigger(r, s) PROVE BInv'
  BY <1>4, TriggerKeeps
<1>5. CASE Start \/ Stop \/ Tick \/ Crash
  BY <1>5, SwitchKeeps, TickKeeps, CrashKeeps
<1>6. ASSUME NEW s \in Subscription, RetryDue(s) \/ Notified(s) PROVE BInv'
  BY <1>6, RetryDueKeeps, NotifiedKeeps
<1>7. CASE UNCHANGED vars
  <2>1. UNCHANGED <<rows, gateway, retries, initialized, run, call, month, disturbed, bills,
                    exposed>>
    BY <1>7 DEF vars
  <2>2. Table' = Table /\ month \in Nat /\ \A s \in Subscription : Retried(s)' => Retried(s)
    BY <2>1, BoundsAssumption DEF Table, Exists, Retried, BInv, Shape, Types
  <2>. QED  BY <2>1, <2>2, QuietStep DEF BInv, Shape, Types
<1>. QED  BY <1>1, <1>2, <1>3, <1>4, <1>5, <1>6, <1>7 DEF Next

(* The inductive invariant holds in every reachable state.                 *)
THEOREM BillingInvariant == Spec => []BInv
BY InitBilling, BillingStep, PTL DEF Spec

(* Every variable is well typed, a row keeps its id, and no retry entry    *)
(* counts more than maxRetries attempts (schedulePaymentRetry).            *)
THEOREM BillingTyped == Spec => []TypeOK
<1>1. BInv => TypeOK
  <2>. SUFFICES ASSUME BInv PROVE TypeOK
    OBVIOUS
  <2>1. \A s \in Subscription : rows[s] = NoRow \/ (rows[s] \in Row /\ rows[s].id = s)
    BY DEF BInv, Shape, Types, Table, Exists, SoundRow
  <2>2. \A s \in Subscription : retries[s].count \in 0 .. MaxRetries /\ retries[s].ready \in BOOLEAN
    BY DEF BInv, Shape, Types
  <2>3. ASSUME NEW r \in Runner
        PROVE  /\ run[r].at \in {"idle", "listing", "looping", "fetching", "refetching", "saving",
                                 "noting", "scheduling", "reading", "updating"}
               /\ run[r].loop \in {"due", "retry", "hand"}
               /\ run[r].queue \subseteq Subscription
               /\ run[r].goal \in {"none", "expire", "suspend", "schedule", "clear"}
    BY RunNow DEF RunType, Statements, Processing, Goals
  <2>4. ASSUME NEW r \in Runner
        PROVE  /\ run[r].at \in {"saving", "noting", "scheduling", "reading", "updating"} =>
                    run[r].copy \in Row /\ run[r].copy.id = run[r].id
               /\ run[r].at = "updating" => run[r].found \in Row /\ run[r].found.id = run[r].id
    BY RunNow DEF RunSound, Processing, SoundRow
  <2>5. ASSUME NEW c \in Client
        PROVE  /\ call[c].at \in {"unsent", "creating", "hanging", "inserting", "confirming",
                                  "reading", "writing", "answered", "refused", "lost"}
               /\ call[c].at \in {"inserting", "confirming", "writing"} =>
                    call[c].copy \in Row /\ call[c].copy.id = call[c].id
    BY CallNow DEF CallType, CallStages, CallSound, SoundRow
  <2>. QED  BY <2>1, <2>2, <2>3, <2>4, <2>5 DEF TypeOK, BInv, Shape, Types
<1>. QED  BY <1>1, BillingInvariant, PTL

(* A subscription nothing exposed is charged for a due date once, in order,*)
(* and not before that date has come (executeBillingCycle).                *)
THEOREM ChargedOnSchedule == Spec => []BilledOnSchedule
<1>1. BInv => BilledOnSchedule
  BY DEF BInv, Billed, BilledOnSchedule
<1>. QED  BY <1>1, BillingInvariant, PTL

(* Cycles never pass the total, and outside the exposures they count the   *)
(* charges and the first payment (processBilling).                         *)
THEOREM CyclesAgree == Spec => []CyclesCounted
<1>1. BInv => CyclesCounted
  <2>. SUFFICES ASSUME BInv PROVE CyclesCounted
    OBVIOUS
  <2>1. \A s \in Subscription : Exists(s) /\ Cycles > 0 => rows[s].done <= Cycles
    BY DEF BInv, Shape, Types, Exists, SoundRow
  <2>2. \A s \in Subscription \ exposed :
          Exists(s) /\ ~Recording(s) /\ ~Creating(s) => rows[s].done = 1 + Len(bills[s])
    BY DEF BInv, Billed, Counted, Counts, Table
  <2>. QED  BY <2>1, <2>2 DEF CyclesCounted
<1>. QED  BY <1>1, BillingInvariant, PTL

(* A row stands for a subscription of the gateway, and who was answered    *)
(* about a creation finds both or none (createSubscription).               *)
THEOREM RowsAtGateway == Spec => []GatewayAgrees
<1>1. BInv => GatewayAgrees
  <2>. SUFFICES ASSUME BInv PROVE GatewayAgrees
    OBVIOUS
  <2>1. \A s \in Table : s \in gateway
    BY DEF BInv, Creations
  <2>2. \A c \in Client : call[c].kind = "create" =>
          /\ call[c].id \in Subscription
          /\ call[c].at = "answered" => call[c].id \in Table
          /\ call[c].at = "refused" /\ call[c].id \notin exposed => call[c].id \notin gateway
    BY DEF BInv, Shape, CallSound, Creations
  <2>. QED  BY <2>1, <2>2 DEF GatewayAgrees, Table
<1>. QED  BY <1>1, BillingInvariant, PTL

LEMMA BilledStep ==
  ASSUME BInv, [Next]_vars, NEW s \in Subscription, bills'[s] # bills[s], s \notin exposed'
  PROVE  rows[s].status = "active"
<1>1. ASSUME NEW r \in Runner, NextDue(r) PROVE rows[s].status = "active"
  <2>1. PICK e \in run[r].todo : processBilling(r, [run[r] EXCEPT !.todo = @ \ {e}], e)
    BY <1>1 DEF NextDue
  <2>2. s = e.id
    BY <2>1 DEF processBilling, BInv, Shape, Types
  <2>3. s \notin exposed
    BY <1>1 DEF NextDue
  <2>. QED  BY <2>2, <2>3, RunNow DEF RunFresh
<1>2. ASSUME NEW r \in Runner, Fetch(r) PROVE rows[s].status = "active"
  <2>1. /\ processBilling(r, run[r], rows[run[r].id])
        /\ run[r].loop = "hand" \/ rows[run[r].id].status = "active"
        /\ Exists(run[r].id)
        /\ exposed' = exposed \cup
             (IF Held(run[r].id) \/ (run[r].loop = "hand" /\ ~Due(run[r].id))
              THEN {run[r].id} ELSE {})
    BY <1>2 DEF Fetch, Expose
  <2>2. run[r].id \in Subscription
    BY <1>2, RunNow DEF RunSound, Fetch
  <2>3. s = run[r].id
    BY <2>1, <2>2 DEF processBilling, BInv, Shape, Types, Table, Exists
  <2>. QED  BY <2>1, <2>3 DEF Due
<1>3. ASSUME NEW c \in Client, ClientStep(c) PROVE UNCHANGED bills
  BY <1>3 DEF ClientStep, AskCreate, AskChange, GatewayAnswers, AnswerLost, Insert,
     Confirm, Read, Write, CallFails
<1>4. ASSUME NEW r \in Runner, SchedulerStep(r), ~NextDue(r), ~Fetch(r) PROVE UNCHANGED bills
  BY <1>4 DEF SchedulerStep, StartCycle, ListDue, NextRetry, Refetch, Save, Note,
     Schedule, Find, Update
<1>5. ASSUME NEW r \in Runner, SchedulerFails(r) PROVE UNCHANGED bills
  BY <1>5 DEF SchedulerFails, ListFails, FetchFails, SaveFails, NoteFails,
     UpdateFails, RefetchFails
<1>6. ASSUME NEW r \in Runner, NEW t \in Subscription, Trigger(r, t) PROVE UNCHANGED bills
  BY <1>6 DEF Trigger
<1>7. CASE Start \/ Stop \/ Tick \/ Crash
  BY <1>7 DEF Start, Stop, Tick, Crash
<1>8. ASSUME NEW t \in Subscription, RetryDue(t) \/ Notified(t) PROVE UNCHANGED bills
  BY <1>8 DEF RetryDue, Notified
<1>. QED  BY <1>1, <1>2, <1>3, <1>4, <1>5, <1>6, <1>7, <1>8 DEF Next, vars

(* Whatever copies the scheduler decides by, what it charges is active.    *)
THEOREM BilledWhenActive == Spec => OnlyActiveIsBilled
<1>1. BInv /\ [Next]_vars =>
        [\A s \in Subscription :
           bills'[s] # bills[s] /\ s \notin exposed' => rows[s].status = "active"]_vars
  BY BilledStep
<1>. QED  BY <1>1, BillingInvariant, PTL DEF OnlyActiveIsBilled, Spec

LEMMA RevivedStep ==
  ASSUME BInv, [Next]_vars, NEW s \in Subscription, s \notin exposed',
         rows[s].status = "cancelled", rows'[s].status # "cancelled"
  PROVE  \/ \E c \in Client : call[c].kind = "update" /\ call[c].id = s
                                /\ call[c].at = "writing" /\ call'[c].at = "answered"
         \/ "active" \in NoticeStatus /\ <<run, call>>' = <<run, call>>
<1>. DEFINE Revives(c) == /\ call[c].kind = "update" /\ call[c].id = s
                         /\ call[c].at = "writing" /\ call'[c].at = "answered"
            Told == "active" \in NoticeStatus /\ <<run, call>>' = <<run, call>>
<1>1. /\ s \in Table /\ rows'[s] # rows[s]
      /\ rows \in [Subscription -> SoundRow \union {NoRow}]
      /\ call \in [Client -> CallType]
  BY DEF Table, Exists, NoRow, BInv, Shape, Types
<1>2. ASSUME NEW c \in Client, Insert(c) PROVE FALSE
  <2>1. call[c].kind = "create" /\ rows' = [rows EXCEPT ![call[c].id] = call[c].copy]
    BY <1>2, CallNow DEF Insert, CallSound
  <2>2. call[c].id = s
    BY <1>1, <2>1
  <2>3. PICK d \in Client : /\ call[d].kind = "create" /\ call[d].id = s
                            /\ call[d].at \notin {"creating", "inserting", "hanging"}
    BY <1>1 DEF BInv, Creations
  <2>. QED  BY <1>2, <2>1, <2>2, <2>3 DEF BInv, Creations, Insert
<1>3. ASSUME NEW c \in Client, Confirm(c) PROVE FALSE
  <2>1. rows' = [rows EXCEPT ![call[c].id] = call[c].copy] /\ exposed' = exposed
    BY <1>3 DEF Confirm
  <2>2. call[c].id = s /\ s \notin exposed
    BY <1>1, <2>1
  <2>. QED  BY <1>3, <2>2, CallNow DEF Confirm, CallFresh
<1>4. ASSUME NEW c \in Client, Write(c) PROVE Revives(c)
  <2>1. PICK e \in Changed(c) : rows' = [rows EXCEPT ![e.id] = e]
    BY <1>4 DEF Write
  <2>2. /\ call[c] \in CallType /\ call[c].at = "writing" /\ exposed' = exposed
        /\ call[c].copy \in SoundRow /\ call[c].copy.id = call[c].id
        /\ call[c].kind \in {"update", "cancel"}
        /\ call[c].kind = "cancel" => call[c].status = "cancelled"
        /\ call' = [call EXCEPT ![c] = Ended(call[c], "answered")]
    BY <1>4, CallNow DEF Write, End, CallSound
  <2>3. e.id = call[c].id /\ (e.status = call[c].copy.status \/ e.status = call[c].status)
    BY <2>1, <2>2, ChangedSound
  <2>4. call[c].id = s /\ rows'[s] = e /\ s \notin exposed
    BY <1>1, <2>1, <2>2, <2>3
  <2>5. call[c].copy = rows[s]
    BY <2>2, <2>4, CallNow DEF CallFresh
  <2>6. call[c].kind = "update"
    BY <2>2, <2>3, <2>4, <2>5
  <2>7. CallSound(call[c], Table)
    BY CallNow
  <2>8. call'[c].at = "answered"
    BY <1>1, <2>2, <2>7, EndedSound
  <2>. QED  BY <2>2, <2>4, <2>6, <2>8
<1>5. ASSUME NEW r \in Runner, Save(r) \/ Note(r) PROVE FALSE
  <2>1. rows' = [rows EXCEPT ![run[r].id] = run[r].copy] /\ exposed' = exposed
    BY <1>5 DEF Save, Note
  <2>2. run[r].id = s /\ s \notin exposed
    BY <1>1, <2>1
  <2>3. RunFresh(run[r], s, rows[s], bills[s], month)
    BY <2>2, RunNow
  <2>4. CASE run[r].at = "saving"
    BY <2>2, <2>3, <2>4 DEF RunFresh
  <2>5. CASE run[r].at = "noting"
    BY <2>2, <2>3, <2>5 DEF RunFresh, Processing
  <2>. QED  BY <1>5, <2>4, <2>5 DEF Save, Note
<1>6. ASSUME NEW r \in Runner, Update(r) PROVE FALSE
  <2>1. /\ rows' = [rows EXCEPT ![run[r].id] = Updated(run[r].found, run[r].goal)]
        /\ exposed' = exposed /\ run[r].at = "updating"
    BY <1>6 DEF Update
  <2>2. run[r].id = s /\ s \notin exposed
    BY <1>1, <2>1
  <2>. QED  BY <2>1, <2>2, RunNow DEF RunFresh, Processing
<1>7. ASSUME NEW t \in Subscription, Notified(t) PROVE Told
  <2>1. PICK st \in NoticeStatus : rows' = [rows EXCEPT ![t].status = st]
    BY <1>7 DEF Notified
  <2>2. s = t /\ rows[s] \in SoundRow /\ rows' = [rows EXCEPT ![s] = [rows[s] EXCEPT !.status = st]]
    BY <1>1, <2>1 DEF Table, Exists
  <2>3. rows'[s].status = st
    BY <1>1, <2>2 DEF SoundRow, Row
  <2>4. "active" \in NoticeStatus
    BY <2>1, <2>3, UpdateAssumption
  <2>. QED  BY <1>7, <2>4 DEF Notified
<1>8. ASSUME NEW c \in Client, ClientStep(c), ~Insert(c), ~Confirm(c), ~Write(c)
      PROVE  UNCHANGED rows
  BY <1>8 DEF ClientStep, AskCreate, AskChange, GatewayAnswers, AnswerLost, Read, CallFails
<1>9. ASSUME NEW r \in Runner, SchedulerStep(r), ~Save(r), ~Note(r), ~Update(r)
      PROVE  UNCHANGED rows
  BY <1>9 DEF SchedulerStep, StartCycle, ListDue, NextDue, NextRetry, Fetch, Refetch,
     Schedule, Find
<1>10. ASSUME NEW r \in Runner, SchedulerFails(r) PROVE UNCHANGED rows
  BY <1>10 DEF SchedulerFails, ListFails, FetchFails, SaveFails, NoteFails,
     UpdateFails, RefetchFails
<1>11. ASSUME NEW r \in Runner, NEW t \in Subscription, Trigger(r, t) PROVE UNCHANGED rows
  BY <1>11 DEF Trigger
<1>12. CASE Start \/ Stop \/ Tick \/ Crash
  BY <1>1, <1>12 DEF Start, Stop, Tick, Crash
<1>13. ASSUME NEW t \in Subscription, RetryDue(t) PROVE UNCHANGED rows
  BY <1>13 DEF RetryDue
<1>14. ASSUME NEW c \in Client, ClientStep(c) PROVE Revives(c)
  BY <1>1, <1>2, <1>3, <1>4, <1>8, <1>14
<1>15. ~ \E r \in Runner : SchedulerStep(r)
  BY <1>1, <1>5, <1>6, <1>9
<1>. QED  BY <1>1, <1>7, <1>10, <1>11, <1>12, <1>13, <1>14, <1>15 DEF Next, vars

(* Of the statements that save a whole row, only an update a client asked  *)
(* for and a notification take a subscription out of "cancelled".          *)
THEOREM CancelledKept == Spec => CancelledStays
<1>1. BInv /\ [Next]_vars =>
        [\A s \in Subscription \ exposed' :
           rows[s].status = "cancelled" /\ rows'[s].status # "cancelled" =>
             \/ \E c \in Client : call[c].kind = "update" /\ call[c].id = s
                                   /\ call[c].at = "writing" /\ call'[c].at = "answered"
             \/ "active" \in NoticeStatus /\ <<run, call>>' = <<run, call>>]_vars
  BY RevivedStep
<1>. QED  BY <1>1, BillingInvariant, PTL DEF CancelledStays, Spec

-----------------------------------------------------------------------------
(* What a cancellation is worth                                            *)

(* The client of c was told that its subscription is cancelled, and nobody *)
(* asked to update that subscription.                                      *)
Cancelled(c) ==
  /\ call[c].kind = "cancel" /\ call[c].at = "answered"
  /\ \A d \in Client : call[d].kind = "update" => call[d].id # call[c].id

CancelHeld ==
  \A c \in Client : Cancelled(c) /\ call[c].id \notin exposed =>
    rows[call[c].id].status = "cancelled"

(* A request stays what it is, and only Write answers a cancellation.      *)
CallGoesOn(c) ==
  /\ call[c].at # "unsent" => call'[c].kind = call[c].kind /\ call'[c].id = call[c].id
  /\ call'[c].kind = "cancel" /\ call'[c].at = "answered" => call'[c] = call[c] \/ Write(c)

LEMMA EndGoesOn ==
  ASSUME BInv, NEW c \in Client, call[c].at # "unsent",
         NEW how \in {"answered", "refused", "hanging", "lost"}, End(c, how)
  PROVE  call'[c].kind = call[c].kind /\ call'[c].id = call[c].id /\ call'[c].at = how
<1>1. call[c] \in CallType /\ CallSound(call[c], Table)
  BY CallNow
<1>2. call'[c] = Ended(call[c], how)
  BY DEF End, BInv, Shape, Types
<1>. QED  BY <1>1, <1>2, EndedSound

LEMMA CallsGoOn ==
  ASSUME BInv, [Next]_vars
  PROVE  (\A c \in Client : CallGoesOn(c)) /\ exposed \subseteq exposed'
<1>. DEFINE Other(c) == \A d \in Client : d # c => call'[d] = call[d]
            Moved(c, stage) == /\ call'[c].kind = call[c].kind /\ call'[c].id = call[c].id
                               /\ call'[c].at = stage
<1>1. call \in [Client -> CallType]
  BY DEF BInv, Shape, Types
<1>2. ASSUME NEW c \in Client, NEW s \in Subscription, AskCreate(c, s) \/ AskChange(c, s)
      PROVE  Other(c) /\ CallGoesOn(c) /\ exposed' = exposed
  <2>1. CASE AskCreate(c, s)
    <3>1. PICK g : call' = [call EXCEPT ![c] =
                              [NoCall EXCEPT !.at = "creating", !.kind = "create", !.id = s,
                                             !.copy = g]]
      BY <2>1 DEF AskCreate
    <3>2. Other(c)
      BY <1>1, <3>1
    <3>3. call'[c].kind = "create"
      BY <1>1, <3>1 DEF NoCall
    <3>. QED  BY <2>1, <3>2, <3>3 DEF AskCreate, CallGoesOn
  <2>2. CASE AskChange(c, s)
    <3>. DEFINE Asks == Other(c) /\ call'[c].at = "reading"
                Ends == call' = [call EXCEPT ![c].at = "reading", ![c].kind = "cancel",
                                             ![c].id = s, ![c].status = "cancelled"]
                Asked(st, i, p) ==
                  call' = [call EXCEPT ![c].at = "reading", ![c].kind = "update", ![c].id = s,
                                       ![c].status = st, ![c].interval = i, ![c].paid = p]
    <3>1. Ends \/ \E st \in NewStatus \cup {"none"}, i \in Interval \cup {0}, p \in NamesAmount :
                     Asked(st, i, p)
      BY <2>2, Zenon DEF AskChange
    <3>2. Ends => Asks
      BY <1>1 DEF CallType
    <3>3. ASSUME NEW st, NEW i, NEW p, Asked(st, i, p) PROVE Asks
      BY <1>1, <3>3 DEF CallType
    <3>. HIDE DEF Ends, Asked, Asks
    <3>4. Asks
      BY <3>1, <3>2, <3>3
    <3>. USE DEF Asks
    <3>. QED  BY <2>2, <3>4 DEF AskChange, CallGoesOn
  <2>. QED  BY <1>2, <2>1, <2>2
<1>3. ASSUME NEW c \in Client,
             \/ GatewayAnswers(c) \/ AnswerLost(c) \/ Insert(c) \/ Confirm(c)
             \/ Read(c) \/ CallFails(c)
      PROVE  Other(c) /\ CallGoesOn(c) /\ exposed \subseteq exposed'
  <2>1. exposed \subseteq exposed' /\ call[c].at # "unsent"
    BY <1>3 DEF GatewayAnswers, AnswerLost, Insert, Confirm, Read, CallFails, Expose
  <2>2. Other(c)
    BY <1>1, <1>3 DEF GatewayAnswers, AnswerLost, Insert, Confirm, Read, CallFails, End, To
  <2>3. CASE Confirm(c)
    <3>1. call[c].kind = "create" /\ Moved(c, "answered")
      BY <2>1, <2>3, CallNow, EndGoesOn DEF Confirm, CallSound
    <3>. QED  BY <2>1, <2>2, <3>1 DEF CallGoesOn
  <2>4. CASE ~Confirm(c)
    <3>1. CASE \E how \in {"refused", "hanging"} : End(c, how)
      BY <2>1, <2>2, <3>1, EndGoesOn DEF CallGoesOn
    <3>2. CASE ~\E how \in {"refused", "hanging"} : End(c, how)
      <4>1. \/ To(c, "inserting")
            \/ call' = [call EXCEPT ![c].at = "confirming", ![c].copy.done = 1,
                                    ![c].copy.last = month]
            \/ call' = [call EXCEPT ![c].at = "writing", ![c].copy = rows[call[c].id]]
        BY <1>3, <2>4, <3>2 DEF GatewayAnswers, AnswerLost, Insert, Read, CallFails
      <4>2. \E stage \in {"inserting", "confirming", "writing"} : Moved(c, stage)
        BY <1>1, <4>1 DEF To, CallType
      <4>. QED  BY <2>1, <2>2, <4>2 DEF CallGoesOn
    <3>. QED  BY <3>1, <3>2
  <2>. QED  BY <2>3, <2>4
<1>4. ASSUME NEW c \in Client, Write(c)
      PROVE  Other(c) /\ CallGoesOn(c) /\ exposed' = exposed
  <2>1. Other(c) /\ exposed' = exposed /\ End(c, "answered") /\ call[c].at # "unsent"
    BY <1>1, <1>4 DEF Write, End
  <2>. QED  BY <1>4, <2>1, EndGoesOn DEF CallGoesOn
<1>5. CASE Crash
  <2>1. ASSUME NEW c \in Client PROVE CallGoesOn(c)
    <3>1. call[c] \in CallType /\ CallSound(call[c], Table)
      BY CallNow
    <3>2. call'[c] = IF call[c].at \in {"unsent", "answered", "refused"} THEN call[c]
                     ELSE Ended(call[c], "lost")
      BY <1>5 DEF Crash
    <3>. QED  BY <3>1, <3>2, EndedSound DEF CallGoesOn
  <2>. QED  BY <1>5, <2>1 DEF Crash, Expose
<1>6. ASSUME NEW r \in Runner, SchedulerStep(r) PROVE call' = call /\ exposed \subseteq exposed'
  BY <1>6 DEF SchedulerStep, StartCycle, ListDue, NextDue, NextRetry, Fetch, Refetch, Save,
     Note, Schedule, Find, Update, Expose
<1>7. ASSUME NEW r \in Runner, SchedulerFails(r) PROVE call' = call /\ exposed \subseteq exposed'
  BY <1>7 DEF SchedulerFails, ListFails, FetchFails, SaveFails, NoteFails, UpdateFails,
     RefetchFails, Expose
<1>8. ASSUME NEW r \in Runner, NEW s \in Subscription, Trigger(r, s)
      PROVE  call' = call /\ exposed \subseteq exposed'
  BY <1>8 DEF Trigger
<1>9. CASE Start \/ Stop \/ Tick
  BY <1>9 DEF Start, Stop, Tick, CallGoesOn
<1>10. ASSUME NEW s \in Subscription, RetryDue(s) \/ Notified(s)
       PROVE  call' = call /\ exposed \subseteq exposed'
  BY <1>10 DEF RetryDue, Notified, Expose
<1>11. ASSUME NEW c \in Client, ClientStep(c)
       PROVE  (\A d \in Client : CallGoesOn(d)) /\ exposed \subseteq exposed'
  <2>1. Other(c) /\ CallGoesOn(c) /\ exposed \subseteq exposed'
    BY <1>2, <1>3, <1>4, <1>11 DEF ClientStep
  <2>. QED  BY <2>1 DEF CallGoesOn
<1>12. CASE UNCHANGED vars
  BY <1>12 DEF vars, CallGoesOn
<1>13. call' = call => \A c \in Client : CallGoesOn(c)
  BY DEF CallGoesOn
<1>. QED  BY <1>5, <1>6, <1>7, <1>8, <1>9, <1>10, <1>11, <1>12, <1>13 DEF Next

LEMMA CancelHeldStep ==
  ASSUME "active" \notin NoticeStatus
  PROVE  BInv /\ CancelHeld /\ [Next]_vars => CancelHeld'
<1>. SUFFICES ASSUME BInv, CancelHeld, [Next]_vars,
                     NEW c \in Client, Cancelled(c)', call'[c].id \notin exposed'
              PROVE  rows'[call'[c].id].status = "cancelled"
  BY DEF CancelHeld
<1>1. /\ \A d \in Client : CallGoesOn(d)
      /\ exposed \subseteq exposed'
      /\ call'[c].kind = "cancel" /\ call'[c].at = "answered"
  BY CallsGoOn DEF Cancelled
<1>2. CASE call'[c] = call[c]
  <2>1. \A d \in Client : call[d].kind = "update" =>
          call'[d].kind = "update" /\ call'[d].id = call[d].id
    BY <1>1, CallNow DEF CallGoesOn, CallSound
  <2>2. Cancelled(c) /\ call[c].id \notin exposed
    BY <1>1, <1>2, <2>1 DEF Cancelled
  <2>3. call[c].id \in Subscription /\ rows[call[c].id].status = "cancelled"
    BY <2>2, CallNow DEF CancelHeld, Cancelled, CallSound
  <2>4. ~\E d \in Client : call[d].kind = "update" /\ call[d].id = call[c].id
    BY <2>2 DEF Cancelled
  <2>. QED  BY <1>2, <2>3, <2>4, RevivedStep
<1>3. CASE Write(c)
  <2>1. PICK e \in Changed(c) : rows' = [rows EXCEPT ![e.id] = e]
    BY <1>3 DEF Write
  <2>2. /\ call[c] \in CallType /\ call[c].at = "writing" /\ CallSound(call[c], Table)
        /\ call'[c].kind = call[c].kind /\ call'[c].id = call[c].id
    BY <1>1, <1>3, CallNow DEF Write, CallGoesOn
  <2>3. /\ call[c].copy \in SoundRow /\ call[c].copy.id = call[c].id
        /\ call[c].id \in Subscription /\ call[c].status = "cancelled"
    BY <1>1, <2>2 DEF CallSound
  <2>4. e.id = call[c].id
    BY <2>2, <2>3, ChangedSound
  <2>5. e.status = "cancelled"
    <3>. DEFINE f == [call[c].copy EXCEPT
                        !.paid = IF call[c].kind = "update" THEN call[c].paid ELSE @]
                h == [f EXCEPT !.status = "cancelled"]
    <3>1. call[c].copy \in Row
      BY <2>3 DEF SoundRow
    <3>2. h.status = "cancelled"
      BY <3>1 DEF Row
    <3>3. \A i, n : [h EXCEPT !.interval = i, !.next = n].status = "cancelled"
      BY <3>1 DEF Row
    <3>4. e = h \/ \E n : e = [h EXCEPT !.interval = call[c].interval, !.next = n]
      BY <2>3 DEF Changed
    <3>. HIDE DEF h
    <3>. QED  BY <3>2, <3>3, <3>4
  <2>6. rows \in [Subscription -> SoundRow \union {NoRow}]
    BY DEF BInv, Shape, Types
  <2>. QED  BY <2>1, <2>2, <2>3, <2>4, <2>5, <2>6
<1>. QED  BY <1>1, <1>2, <1>3 DEF CallGoesOn

(* tasks/006-subscription-management.md: "Cancellation stops future        *)
(* billing".  Once a client was told so, its subscription is not charged   *)
(* again, unless it met an exposure (a loop of the scheduler held a copy of*)
(* its row when the request came, as the run billing_cancel shows, or the  *)
(* other way round), a client asked to update it, or a late notification   *)
(* makes it active again.                                                  *)
THEOREM CancelledIsNotBilled ==
  ASSUME "active" \notin NoticeStatus
  PROVE  Spec => [][\A c \in Client : Cancelled(c) /\ call[c].id \notin exposed' =>
                      bills'[call[c].id] = bills[call[c].id]]_vars
<1>1. Init => BInv /\ CancelHeld
  BY InitBilling DEF Init, NoCall, CancelHeld, Cancelled
<1>2. BInv /\ CancelHeld /\ [Next]_vars => BInv' /\ CancelHeld'
  BY BillingStep, CancelHeldStep
<1>3. ASSUME BInv, CancelHeld, [Next]_vars, NEW c \in Client, Cancelled(c),
             call[c].id \notin exposed', bills'[call[c].id] # bills[call[c].id]
      PROVE  FALSE
  <2>1. exposed \subseteq exposed' /\ call[c].id \in Subscription
    BY <1>3, CallsGoOn, CallNow DEF Cancelled, CallSound
  <2>2. rows[call[c].id].status = "cancelled"
    BY <1>3, <2>1 DEF CancelHeld
  <2>3. rows[call[c].id].status = "active"
    BY <1>3, <2>1, BilledStep
  <2>. QED  BY <2>2, <2>3
<1>4. BInv /\ CancelHeld /\ [Next]_vars =>
        [\A c \in Client : Cancelled(c) /\ call[c].id \notin exposed' =>
           bills'[call[c].id] = bills[call[c].id]]_vars
  BY <1>3
<1>. QED  BY <1>1, <1>2, <1>4, PTL DEF Spec

-----------------------------------------------------------------------------
(* What an amount is worth                                                 *)

Paid(e) == e # NoRow => e.paid
RunPaid(u) == Paid(u.copy) /\ Paid(u.found) /\ \A e \in u.todo : Paid(e)
CallPaid(u) == Paid(u.copy) /\ u.paid

(* The copies are paid for as the rows are: each of them may be saved.     *)
AllPaid ==
  /\ \A s \in Subscription : Paid(rows[s])
  /\ \A r \in Runner : RunPaid(run[r])
  /\ \A c \in Client : CallPaid(call[c])

LEMMA IdlePaid == Paid(NoRow) /\ RunPaid(Idle) /\ CallPaid(NoCall)
BY DEF Paid, RunPaid, CallPaid, Idle, NoCall, NoRow

LEMMA PaidByRun ==
  ASSUME BInv, AllPaid, NEW r \in Runner, NEW u, run' = [run EXCEPT ![r] = u], RunPaid(u),
         call' = call, \A s \in Subscription : Paid(rows'[s])
  PROVE  AllPaid'
BY DEF AllPaid, BInv, Shape, Types

LEMMA PaidByCall ==
  ASSUME BInv, AllPaid, NEW c \in Client, NEW u, call' = [call EXCEPT ![c] = u], CallPaid(u),
         run' = run, \A s \in Subscription : Paid(rows'[s])
  PROVE  AllPaid'
BY DEF AllPaid, BInv, Shape, Types

LEMMA PaidWritten ==
  ASSUME BInv, AllPaid, NEW s \in Subscription, NEW e \in SoundRow, Paid(e),
         rows' = [rows EXCEPT ![s] = e]
  PROVE  \A t \in Subscription : Paid(rows'[t])
BY DEF AllPaid, BInv, Shape, Types

(* Assignments to other fields of a row leave the amount alone.            *)
LEMMA PaidStays ==
  ASSUME NEW e \in SoundRow, Paid(e)
  PROVE  /\ \A x : Paid([e EXCEPT !.status = x])
         /\ \A x, y : Paid([e EXCEPT !.done = x, !.last = y])
<1>1. e \in Row /\ e.paid
  BY NoRowIsNone DEF SoundRow, Paid
<1>. QED  BY <1>1 DEF Row, Paid

LEMMA ResumePaid ==
  ASSUME NEW u \in RunType, RunPaid(u)
  PROVE  RunPaid(Resume(u)) /\ RunPaid(Abandon(u)) /\ RunPaid(Thrown(u))
<1>1. \A x, y, z : RunPaid([Idle EXCEPT !.at = x, !.loop = y, !.todo = u.todo, !.queue = z])
  BY IdlePaid DEF RunPaid, Idle
<1>2. RunPaid([Idle EXCEPT !.at = "looping"])
  BY IdlePaid DEF RunPaid, Idle
<1>3. \A x : /\ RunPaid([u EXCEPT !.at = x, !.caught = TRUE, !.goal = "none", !.found = NoRow,
                                  !.copy = NoRow])
             /\ RunPaid([u EXCEPT !.at = x, !.caught = TRUE, !.goal = "none", !.found = NoRow])
  BY IdlePaid DEF RunPaid, RunType
<1>4. RunPaid(Resume(u)) /\ RunPaid(Abandon(u))
  BY <1>1, <1>2, IdlePaid DEF Resume, Abandon
<1>5. RunPaid(Thrown(u))
  <2>1. CASE u.caught
    BY <1>4, <2>1 DEF Thrown
  <2>2. CASE ~u.caught /\ u.loop = "retry"
    BY <1>3, <2>2 DEF Thrown
  <2>3. CASE ~u.caught /\ u.loop # "retry"
    <3>1. Thrown(u) = [u EXCEPT !.at = "scheduling", !.caught = TRUE, !.goal = "none",
                                !.found = NoRow, !.copy = u.copy]
      BY <2>3 DEF Thrown
    <3>. QED  BY <3>1, IdlePaid DEF RunPaid, RunType
  <2>. QED  BY <2>1, <2>2, <2>3
<1>. QED  BY <1>4, <1>5

(* The copy that processBilling prepares.                                  *)
LEMMA BillingPaid ==
  ASSUME BInv, AllPaid, NEW r \in Runner, NEW u \in RunType, RunPaid(u),
         NEW e \in SoundRow, Paid(e), processBilling(r, u, e),
         call' = call, rows' = rows
  PROVE  AllPaid'
<1>. DEFINE w == [u EXCEPT !.id = e.id, !.copy = e]
<1>1. e \in Row /\ e.id \in Subscription
  BY DEF SoundRow, Row
<1>2. w \in RunType /\ w.copy = e /\ w.found = u.found /\ w.todo = u.todo
  BY <1>1 DEF RunType
<1>3. \A s \in Subscription : Paid(rows'[s])
  BY DEF AllPaid
<1>4. CASE CyclesDone(e)
  <2>. DEFINE v == [w EXCEPT !.at = "reading", !.goal = "expire"]
  <2>1. run' = [run EXCEPT ![r] = v]
    BY <1>4 DEF processBilling
  <2>. HIDE DEF w
  <2>2. v.copy = e /\ v.found = u.found /\ v.todo = u.todo
    BY <1>2 DEF RunType
  <2>. HIDE DEF v
  <2>3. RunPaid(v)
    BY <2>2 DEF RunPaid
  <2>. QED  BY <1>3, <2>1, <2>3, PaidByRun
<1>5. CASE ~CyclesDone(e)
  <2>1. PICK n \in calculateNextBillingDate(month, e.interval) :
          run' = [run EXCEPT ![r] = [w EXCEPT !.at = "saving", !.copy.done = @ + 1,
                                              !.copy.last = month, !.copy.next = n]]
    BY <1>5 DEF processBilling
  <2>. DEFINE f == [e EXCEPT !.done = @ + 1, !.last = month, !.next = n]
              v == [w EXCEPT !.at = "saving", !.copy = f]
  <2>2. [w EXCEPT !.at = "saving", !.copy.done = @ + 1, !.copy.last = month,
                  !.copy.next = n] = v
    BY <1>2 DEF RunType
  <2>3. run' = [run EXCEPT ![r] = v]
    BY <2>1, <2>2
  <2>4. f.paid = e.paid
    BY <1>1 DEF Row
  <2>5. Paid(f)
    BY <2>4, NoRowIsNone DEF Paid
  <2>. HIDE DEF w, f
  <2>6. v.copy = f /\ v.found = u.found /\ v.todo = u.todo
    BY <1>2 DEF RunType
  <2>. HIDE DEF v
  <2>7. RunPaid(v)
    BY <2>5, <2>6 DEF RunPaid
  <2>. QED  BY <1>3, <2>3, <2>7, PaidByRun
<1>. QED  BY <1>4, <1>5

LEMMA PaidNow ==
  ASSUME BInv, AllPaid
  PROVE  /\ \A r \in Runner : run[r] \in RunType /\ RunPaid(run[r]) /\ RunSound(run[r], Table)
         /\ \A c \in Client : call[c] \in CallType /\ CallPaid(call[c])
         /\ \A s \in Subscription : Paid(rows[s])
BY RunNow, CallNow DEF AllPaid

(* The statement of an activation changes, and its copies do not.          *)
LEMMA PaidQuiet ==
  ASSUME BInv, AllPaid, NEW r \in Runner, NEW u, run' = [run EXCEPT ![r] = u],
         u.copy = run[r].copy, u.found = run[r].found, u.todo = run[r].todo,
         call' = call, rows' = rows
  PROVE  AllPaid'
BY PaidByRun, PaidNow DEF RunPaid

LEMMA PaidByLoop ==
  ASSUME BInv, AllPaid, NEW r \in Runner,
         StartCycle(r) \/ ListDue(r) \/ ListFails(r) \/ NextDue(r) \/ NextRetry(r) \/ Fetch(r)
         \/ FetchFails(r) \/ (\E s \in Subscription : Trigger(r, s))
  PROVE  AllPaid'
<1>. DEFINE u == run[r]
<1>1. u \in RunType /\ RunPaid(u) /\ RunSound(u, Table) /\ \A s \in Subscription : Paid(rows[s])
  BY PaidNow
<1>2. call' = call /\ rows' = rows
  BY DEF StartCycle, ListDue, ListFails, NextDue, NextRetry, Fetch, FetchFails, Trigger
<1>3. CASE StartCycle(r) \/ ListFails(r)
  <2>1. PICK x : run' = [run EXCEPT ![r] = [u EXCEPT !.at = x]]
    BY <1>3 DEF StartCycle, ListFails
  <2>. DEFINE v == [u EXCEPT !.at = x]
  <2>2. v.copy = u.copy /\ v.found = u.found /\ v.todo = u.todo
    BY <1>1 DEF RunType
  <2>. HIDE DEF v
  <2>. QED  BY <1>2, <2>1, <2>2, PaidQuiet DEF v
<1>4. ASSUME NEW s \in Subscription, Trigger(r, s) PROVE AllPaid'
  <2>. DEFINE v == [u EXCEPT !.at = "fetching", !.loop = "hand", !.id = s]
  <2>1. v.copy = u.copy /\ v.found = u.found /\ v.todo = u.todo
    BY <1>1 DEF RunType
  <2>2. run' = [run EXCEPT ![r] = v]
    BY <1>4 DEF Trigger
  <2>. HIDE DEF v
  <2>. QED  BY <1>2, <2>1, <2>2, PaidQuiet
<1>5. CASE ListDue(r)
  <2>. DEFINE T == {rows[s] : s \in {t \in Subscription : Due(t)}}
              v == [u EXCEPT !.at = "looping", !.todo = T]
  <2>1. \A e \in T : Paid(e)
    BY <1>1
  <2>2. run' = [run EXCEPT ![r] = v]
    BY <1>5 DEF ListDue
  <2>. HIDE DEF T
  <2>3. v.copy = u.copy /\ v.found = u.found /\ v.todo = T
    BY <1>1 DEF RunType
  <2>. HIDE DEF v
  <2>4. RunPaid(v)
    BY <1>1, <2>1, <2>3 DEF RunPaid
  <2>. QED  BY <1>1, <1>2, <2>2, <2>4, PaidByRun
<1>6. CASE NextDue(r)
  <2>1. PICK e \in u.todo : processBilling(r, [u EXCEPT !.todo = @ \ {e}], e)
    BY <1>6 DEF NextDue
  <2>. DEFINE v == [u EXCEPT !.todo = u.todo \ {e}]
  <2>2. /\ v \in RunType /\ e \in SoundRow /\ processBilling(r, v, e)
        /\ v.copy = u.copy /\ v.found = u.found /\ v.todo = u.todo \ {e}
    BY <1>1, <2>1 DEF RunType
  <2>. HIDE DEF v
  <2>3. RunPaid(v) /\ Paid(e)
    BY <1>1, <2>2 DEF RunPaid
  <2>. QED  BY <1>2, <2>2, <2>3, BillingPaid
<1>7. CASE NextRetry(r)
  <2>1. CASE run' = [run EXCEPT ![r] = Idle]
    BY <1>1, <1>2, <2>1, IdlePaid, PaidByRun
  <2>2. ASSUME NEW q, NEW s,
               run' = [run EXCEPT ![r].at = "fetching", ![r].loop = "retry",
                                  ![r].queue = q, ![r].id = s]
        PROVE  AllPaid'
    <3>. DEFINE v == [u EXCEPT !.at = "fetching", !.loop = "retry", !.queue = q, !.id = s]
    <3>1. v.copy = u.copy /\ v.found = u.found /\ v.todo = u.todo
      BY <1>1 DEF RunType
    <3>2. run' = [run EXCEPT ![r] = v]
      BY <2>2
    <3>. HIDE DEF v
    <3>. QED  BY <1>2, <3>1, <3>2, PaidQuiet
  <2>. QED  BY <1>7, <2>1, <2>2, Zenon DEF NextRetry
<1>8. CASE Fetch(r)
  <2>1. u.id \in Subscription
    BY <1>1, <1>8 DEF Fetch, RunSound
  <2>2. CASE processBilling(r, u, rows[u.id]) /\ Exists(u.id)
    <3>1. rows[u.id] \in SoundRow
      BY <2>1, <2>2 DEF Exists, BInv, Shape, Types
    <3>. QED  BY <1>1, <1>2, <2>1, <2>2, <3>1, BillingPaid
  <2>3. CASE run' = [run EXCEPT ![r] = Resume(u)]
    BY <1>1, <1>2, <2>3, ResumePaid, PaidByRun
  <2>. QED  BY <1>8, <2>2, <2>3 DEF Fetch
<1>9. CASE FetchFails(r)
  <2>1. \E v : run' = [run EXCEPT ![r] = v] /\ RunPaid(v)
    BY <1>1, <1>9, ResumePaid, IdlePaid DEF FetchFails
  <2>. QED  BY <1>1, <1>2, <2>1, PaidByRun
<1>. QED  BY <1>3, <1>4, <1>5, <1>6, <1>7, <1>8, <1>9

LEMMA PaidByStatement ==
  ASSUME BInv, AllPaid, NEW r \in Runner,
         Refetch(r) \/ Schedule(r) \/ Find(r) \/ SaveFails(r) \/ NoteFails(r)
         \/ UpdateFails(r) \/ RefetchFails(r)
  PROVE  AllPaid'
<1>. DEFINE u == run[r]
<1>1. u \in RunType /\ RunPaid(u) /\ RunSound(u, Table) /\ \A s \in Subscription : Paid(rows[s])
  BY PaidNow
<1>2. call' = call /\ rows' = rows
  BY DEF Refetch, Schedule, Find, SaveFails, NoteFails, UpdateFails, RefetchFails
<1>3. u.at \in Processing \union {"refetching"} => u.id \in Subscription
  BY <1>1 DEF RunSound, Processing, SoundRow, Row
<1>4. CASE Refetch(r) \/ Find(r)
  <2>1. Paid(rows[u.id])
    BY <1>1, <1>3, <1>4 DEF Refetch, Find, Processing
  <2>. DEFINE e == rows[u.id]
              v == [u EXCEPT !.at = "scheduling", !.copy = e]
              w == [u EXCEPT !.at = "updating", !.found = e]
  <2>2. run' = [run EXCEPT ![r] = v] \/ run' = [run EXCEPT ![r] = w]
    BY <1>4 DEF Refetch, Find
  <2>. HIDE DEF e
  <2>3. /\ v.copy = e /\ v.found = u.found /\ v.todo = u.todo
        /\ w.copy = u.copy /\ w.found = e /\ w.todo = u.todo
    BY <1>1 DEF RunType
  <2>. HIDE DEF v, w
  <2>4. RunPaid(v) /\ RunPaid(w)
    BY <1>1, <2>1, <2>3 DEF RunPaid, e
  <2>. QED  BY <1>1, <1>2, <2>2, <2>4, PaidByRun
<1>5. CASE Schedule(r) \/ SaveFails(r)
  <2>. DEFINE g == IF TooMany(retries[u.id].count + 1) THEN "suspend" ELSE "schedule"
              v == [u EXCEPT !.at = "reading", !.goal = g]
              w == [u EXCEPT !.at = "noting"]
  <2>1. run' = [run EXCEPT ![r] = v] \/ run' = [run EXCEPT ![r] = w]
    BY <1>5 DEF Schedule, SaveFails
  <2>. HIDE DEF g
  <2>2. /\ v.copy = u.copy /\ v.found = u.found /\ v.todo = u.todo
        /\ w.copy = u.copy /\ w.found = u.found /\ w.todo = u.todo
    BY <1>1 DEF RunType
  <2>. HIDE DEF v, w
  <2>. QED  BY <1>2, <2>1, <2>2, PaidQuiet
<1>6. CASE NoteFails(r) \/ RefetchFails(r)
  BY <1>1, <1>2, <1>6, ResumePaid, PaidByRun DEF NoteFails, RefetchFails
<1>7. CASE UpdateFails(r)
  <2>. DEFINE v == [u EXCEPT !.at = "noting", !.found = NoRow, !.goal = "none"]
  <2>1. v.copy = u.copy /\ v.found = NoRow /\ v.todo = u.todo
    BY <1>1 DEF RunType
  <2>2. run' = [run EXCEPT ![r] = IF u.goal = "expire" THEN v ELSE Thrown(u)]
    BY <1>7 DEF UpdateFails
  <2>. HIDE DEF v
  <2>3. RunPaid(v)
    BY <1>1, <2>1, IdlePaid DEF RunPaid
  <2>. QED  BY <1>1, <1>2, <2>2, <2>3, ResumePaid, PaidByRun
<1>. QED  BY <1>4, <1>5, <1>6, <1>7

LEMMA PaidBySave ==
  ASSUME BInv, AllPaid, NEW r \in Runner, Save(r) \/ Note(r) \/ Update(r)
  PROVE  AllPaid'
<1>. DEFINE u == run[r]
<1>1. u \in RunType /\ RunPaid(u) /\ RunSound(u, Table)
  BY PaidNow
<1>2. u.at \in Processing /\ call' = call
  BY DEF Save, Note, Update, Processing
<1>3. u.copy \in SoundRow /\ u.id \in Subscription
  BY <1>1, <1>2 DEF RunSound, SoundRow, Row
<1>4. \A s \in Subscription : Paid(rows'[s])
  <2>1. CASE Save(r) \/ Note(r)
    BY <1>1, <1>3, <2>1, PaidWritten DEF Save, Note, RunPaid
  <2>2. CASE Update(r)
    <3>1. u.found \in SoundRow /\ Paid(u.found)
      BY <1>1, <2>2 DEF Update, RunSound, RunPaid
    <3>2. Updated(u.found, u.goal) \in SoundRow
      BY <3>1, UpdatedSound
    <3>3. Paid(Updated(u.found, u.goal))
      BY <3>1, PaidStays DEF Updated
    <3>. QED  BY <1>3, <2>2, <3>2, <3>3, PaidWritten DEF Update
  <2>. QED  BY <2>1, <2>2
<1>. DEFINE v == [u EXCEPT !.at = "reading", !.goal = "clear"]
            w == [u EXCEPT !.at = "scheduling"]
            x == [u EXCEPT !.at = "scheduling", !.found = NoRow, !.goal = "none"]
<1>5. \/ run' = [run EXCEPT ![r] = v] \/ run' = [run EXCEPT ![r] = w]
      \/ run' = [run EXCEPT ![r] = x] \/ run' = [run EXCEPT ![r] = Resume(u)]
  BY DEF Save, Note, Update
<1>6. /\ v.copy = u.copy /\ v.found = u.found /\ v.todo = u.todo
      /\ w.copy = u.copy /\ w.found = u.found /\ w.todo = u.todo
      /\ x.copy = u.copy /\ x.found = NoRow /\ x.todo = u.todo
  BY <1>1 DEF RunType
<1>. HIDE DEF v, w, x
<1>7. RunPaid(v) /\ RunPaid(w) /\ RunPaid(x) /\ RunPaid(Resume(u))
  BY <1>1, <1>6, IdlePaid, ResumePaid DEF RunPaid
<1>. QED  BY <1>2, <1>4, <1>5, <1>7, PaidByRun

LEMMA EndedPaid == \A u, how : CallPaid(Ended(u, how))
BY IdlePaid DEF CallPaid, Ended, NoCall

LEMMA PaidByClient ==
  ASSUME NamesAmount \subseteq {TRUE}, BInv, AllPaid, NEW c \in Client, ClientStep(c)
  PROVE  AllPaid'
<1>. DEFINE u == call[c]
<1>1. u \in CallType /\ CallPaid(u) /\ CallSound(u, Table) /\ \A s \in Subscription : Paid(rows[s])
  BY PaidNow, CallNow
<1>2. run' = run
  BY DEF ClientStep, AskCreate, AskChange, GatewayAnswers, AnswerLost, Insert, Confirm, Read,
     Write, CallFails
<1>3. CASE \A s \in Subscription : Paid(rows'[s])
  <2>1. ASSUME NEW how, End(c, how) PROVE AllPaid'
    BY <1>2, <1>3, <2>1, EndedPaid, PaidByCall DEF End
  <2>2. ASSUME NEW s \in Subscription, AskCreate(c, s) PROVE AllPaid'
    <3>1. PICK i, start, n : call' = [call EXCEPT ![c] =
                  [NoCall EXCEPT !.at = "creating", !.kind = "create", !.id = s,
                   !.copy = [id |-> s, status |-> "active", interval |-> i, paid |-> TRUE,
                             last |-> start, next |-> n, done |-> 0]]]
      BY <2>2 DEF AskCreate
    <3>. DEFINE e == [id |-> s, status |-> "active", interval |-> i, paid |-> TRUE,
                      last |-> start, next |-> n, done |-> 0]
    <3>2. Paid(e)
      BY DEF Paid
    <3>. HIDE DEF e
    <3>3. CallPaid([NoCall EXCEPT !.at = "creating", !.kind = "create", !.id = s, !.copy = e])
      BY <3>2 DEF CallPaid, NoCall
    <3>. QED  BY <1>2, <1>3, <3>1, <3>3, PaidByCall DEF e
  <2>3. ASSUME NEW s \in Subscription, AskChange(c, s) PROVE AllPaid'
    <3>. DEFINE Ends == call' = [call EXCEPT ![c].at = "reading", ![c].kind = "cancel",
                                             ![c].id = s, ![c].status = "cancelled"]
                Asked(st, i, p) ==
                  call' = [call EXCEPT ![c].at = "reading", ![c].kind = "update", ![c].id = s,
                                       ![c].status = st, ![c].interval = i, ![c].paid = p]
    <3>1. Ends \/ \E st \in NewStatus \cup {"none"}, i \in Interval \cup {0}, p \in NamesAmount :
                     Asked(st, i, p)
      BY <2>3, Zenon DEF AskChange
    <3>2. ASSUME Ends PROVE AllPaid'
      <4>. DEFINE v == [u EXCEPT !.at = "reading", !.kind = "cancel", !.id = s,
                                 !.status = "cancelled"]
      <4>1. call' = [call EXCEPT ![c] = v]
        BY <3>2
      <4>2. CallPaid(v)
        BY <1>1 DEF CallPaid, CallType
      <4>. HIDE DEF v
      <4>. QED  BY <1>2, <1>3, <4>1, <4>2, PaidByCall
    <3>3. ASSUME NEW st, NEW i, NEW p \in NamesAmount, Asked(st, i, p) PROVE AllPaid'
      <4>. DEFINE v == [u EXCEPT !.at = "reading", !.kind = "update", !.id = s,
                                 !.status = st, !.interval = i, !.paid = p]
      <4>1. call' = [call EXCEPT ![c] = v]
        BY <3>3
      <4>2. CallPaid(v)
        BY <1>1 DEF CallPaid, CallType
      <4>. HIDE DEF v
      <4>. QED  BY <1>2, <1>3, <4>1, <4>2, PaidByCall
    <3>. HIDE DEF Ends, Asked
    <3>. QED  BY <3>1, <3>2, <3>3
  <2>4. ASSUME To(c, "inserting") PROVE AllPaid'
    <3>1. CallPaid([u EXCEPT !.at = "inserting"])
      BY <1>1 DEF CallPaid, CallType
    <3>. QED  BY <1>2, <1>3, <2>4, <3>1, PaidByCall DEF To
  <2>5. CASE Insert(c)
    <3>. DEFINE e == [u.copy EXCEPT !.done = 1, !.last = month]
    <3>1. Paid(e)
      BY <1>1, <2>5, PaidStays DEF Insert, CallSound, CallPaid
    <3>2. call' = [call EXCEPT ![c] = [u EXCEPT !.at = "confirming", !.copy = e]]
      BY <1>1, <2>5 DEF Insert, CallType
    <3>. HIDE DEF e
    <3>3. CallPaid([u EXCEPT !.at = "confirming", !.copy = e])
      BY <1>1, <3>1 DEF CallPaid, CallType
    <3>. QED  BY <1>2, <1>3, <3>2, <3>3, PaidByCall
  <2>6. CASE Read(c) /\ ~End(c, "refused")
    <3>. DEFINE e == rows[u.id]
    <3>1. Paid(e) /\ call' = [call EXCEPT ![c] = [u EXCEPT !.at = "writing", !.copy = e]]
      BY <1>1, <2>6 DEF Read, CallSound
    <3>. HIDE DEF e
    <3>2. CallPaid([u EXCEPT !.at = "writing", !.copy = e])
      BY <1>1, <3>1 DEF CallPaid, CallType
    <3>. QED  BY <1>2, <1>3, <3>1, <3>2, PaidByCall
  <2>. QED  BY <2>1, <2>2, <2>3, <2>4, <2>5, <2>6
         DEF ClientStep, GatewayAnswers, AnswerLost, Confirm, Write, CallFails, Read
<1>4. \A s \in Subscription : Paid(rows'[s])
  <2>1. CASE Insert(c) \/ Confirm(c)
    <3>1. u.copy \in SoundRow /\ u.id \in Subscription
      BY <1>1, <2>1 DEF Insert, Confirm, CallSound
    <3>. QED  BY <1>1, <2>1, <3>1, PaidWritten DEF Insert, Confirm, CallPaid
  <2>2. CASE Write(c)
    <3>1. PICK e \in Changed(c) : rows' = [rows EXCEPT ![e.id] = e]
      BY <2>2 DEF Write
    <3>2. /\ u.copy \in SoundRow /\ u.copy.id = u.id /\ u.id \in Subscription
          /\ Paid(u.copy) /\ u.paid
      BY <1>1, <2>2 DEF Write, CallSound, CallPaid
    <3>3. e \in SoundRow /\ e.id = u.id
      BY <1>1, <3>2, ChangedSound
    <3>4. Paid(e)
      <4>. DEFINE p == IF u.kind = "update" THEN u.paid ELSE u.copy.paid
                  f == [u.copy EXCEPT !.paid = p]
                  h == IF u.status = "none" THEN f ELSE [f EXCEPT !.status = u.status]
      <4>1. u.copy \in Row /\ u.copy.paid /\ p
        BY <3>2, NoRowIsNone DEF SoundRow, Paid
      <4>. HIDE DEF p
      <4>2. h.paid = p /\ \A i, n : [h EXCEPT !.interval = i, !.next = n].paid = p
        BY <4>1 DEF Row
      <4>3. e = h \/ \E n : e = [h EXCEPT !.interval = u.interval, !.next = n]
        BY <3>1 DEF Changed, p
      <4>. HIDE DEF h
      <4>. QED  BY <4>1, <4>2, <4>3 DEF Paid
    <3>. QED  BY <3>1, <3>2, <3>3, <3>4, PaidWritten
  <2>3. CASE rows' = rows
    BY <1>1, <2>3
  <2>. QED  BY <2>1, <2>2, <2>3 DEF ClientStep, AskCreate, AskChange, GatewayAnswers,
         AnswerLost, Read, CallFails
<1>. QED  BY <1>3, <1>4

LEMMA AllPaidStep ==
  ASSUME NamesAmount \subseteq {TRUE}
  PROVE  BInv /\ AllPaid /\ [Next]_vars => AllPaid'
<1>. SUFFICES ASSUME BInv, AllPaid, [Next]_vars PROVE AllPaid'
  OBVIOUS
<1>1. ASSUME NEW s \in Subscription, Notified(s) PROVE AllPaid'
  <2>1. PICK st : rows' = [rows EXCEPT ![s].status = st]
    BY <1>1 DEF Notified
  <2>2. rows[s] \in SoundRow /\ Paid(rows[s]) /\ UNCHANGED <<run, call>>
    BY <1>1 DEF Notified, Exists, AllPaid, BInv, Shape, Types
  <2>. DEFINE e == [rows[s] EXCEPT !.status = st]
  <2>3. Paid(e)
    BY <2>2, PaidStays
  <2>4. rows' = [rows EXCEPT ![s] = e]
    BY <2>1
  <2>. HIDE DEF e
  <2>. QED  BY <2>2, <2>3, <2>4 DEF AllPaid, BInv, Shape, Types
<1>2. CASE Crash
  BY <1>2, IdlePaid, EndedPaid DEF Crash, AllPaid
<1>3. CASE UNCHANGED <<rows, run, call>>
  BY <1>3 DEF AllPaid
<1>4. Start \/ Stop \/ Tick \/ UNCHANGED vars \/ (\E s \in Subscription : RetryDue(s))
      => UNCHANGED <<rows, run, call>>
  BY DEF Start, Stop, Tick, RetryDue, vars
<1>. QED  BY <1>1, <1>2, <1>3, <1>4, PaidByClient, PaidByLoop, PaidByStatement, PaidBySave
       DEF Next, SchedulerStep, SchedulerFails

(* controllers/subscriptionController.ts, "Amount must be a positive       *)
(* number".  What every row asks for is positive whatever copies are saved,*)
(* where each update names an amount: the 0 the controller passes on for an*)
(* amount that is not named is the only way to another (billing_amount).   *)
THEOREM NamedAmountsStayPositive ==
  ASSUME NamesAmount \subseteq {TRUE} PROVE Spec => []PositiveAmounts
<1>1. Init => BInv /\ AllPaid
  BY InitBilling, IdlePaid DEF Init, AllPaid
<1>2. BInv /\ AllPaid /\ [Next]_vars => BInv' /\ AllPaid'
  BY BillingStep, AllPaidStep
<1>3. AllPaid => PositiveAmounts
  BY DEF AllPaid, PositiveAmounts, Paid, Exists
<1>. QED  BY <1>1, <1>2, <1>3, PTL DEF Spec

=============================================================================
