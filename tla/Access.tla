------------------------------- MODULE Access -------------------------------
(***************************************************************************)
(* Who gets in: API keys with their rate limit (middleware/apiKeyAuth.ts)  *)
(* and user accounts (controllers/authController.ts, entities/User.ts).    *)
(*                                                                         *)
(* Keys, revocations and request counts live in the memory of the process  *)
(* and are gone after a restart; users are rows of the database.  A caller *)
(* either presents a key or registers and then logs in.  validateApiKey    *)
(* runs without an await, so it is one step; what it decided is sent after *)
(* the audit record was tried.  The handlers of registration and login     *)
(* yield at each of their statements.                                      *)
(*                                                                         *)
(* Time is counted in ticks, MinuteTicks of them to the minute the rate    *)
(* limit speaks of.                                                        *)
(***************************************************************************)
EXTENDS Naturals, Sequences, FiniteSets

CONSTANTS
  Caller,       \* requests with a key, and people who register
  Configured,   \* API_KEYS_CONFIG: a sequence of [hash, id, active]
  NewKey,       \* hashes generateApiKey may come up with
  Ip,           \* addresses of callers
  Whitelist,    \* Whitelist[h]: ipWhitelist of the key with hash h
  Expires,      \* Expires[h]: expiresAt
  Permissions,  \* Permissions[h]
  Needed,       \* permissions the routes require
  Limit,        \* rateLimitPerMinute
  MinuteTicks,  \* 60000 ms in the code
  Name, Email,  \* what people register with; they may overlap
  Asks,         \* what the callers may come with
  Faults,       \* a subset of {"statement", "reply"}
  MaxTime,      \* the clock stops here
  MaxRestarts   \* how often the process may be restarted

Hash == NewKey \union {Configured[i].hash : i \in DOMAIN Configured}
KeyId == {Configured[i].id : i \in DOMAIN Configured}
None == "none"

(* What a caller comes with, if it comes at all.                           *)
KeyRequest == [kind : {"key"}, hash : Hash, ip : Ip, needs : Needed]
Join == [kind : {"join"}, name : Name, email : Email]
Silent == [kind |-> "none"]

ASSUME ConfiguredAssumption ==
  /\ Len(Configured) \in Nat /\ DOMAIN Configured = 1 .. Len(Configured)
  /\ \A i \in DOMAIN Configured : Configured[i].active \in BOOLEAN
ASSUME LimitAssumption == Limit \in Nat \ {0} /\ MinuteTicks \in Nat \ {0}
ASSUME BoundsAssumption == MaxTime \in Nat /\ MaxRestarts \in Nat
ASSUME KeysAssumption ==
  /\ Expires \in [Hash -> Nat]
  /\ Whitelist \in [Hash -> SUBSET Ip]
  /\ Permissions \in [Hash -> SUBSET (Needed \union {"admin"})]
ASSUME AsksAssumption == Asks \subseteq [Caller -> KeyRequest \union Join \union {Silent}]
ASSUME FaultsAssumption == Faults \subseteq {"statement", "reply"}

VARIABLES
  keys,     \* apiKeys, in the order of insertion
  tracker,  \* rateLimitTracker
  users,    \* the users table
  ask,      \* ask[c]: what the caller wants
  stage,    \* stage[c]: how far the handler of its request is
  answer,   \* answer[c]: the response decided on, sent once stage is "done"
  found,    \* found[c]: the owner of the row the login loaded
  now,      \* the clock
  life,     \* how often the process was restarted
  counted,  \* requests the limiter let through, with the time
  named,    \* ids whose revocation was confirmed since the last restart
  created,  \* callers whose registration was answered 201
  broken    \* callers whose row was stored although the statement failed

process == <<keys, tracker, named, life>>
database == <<users, broken>>
handlers == <<stage, answer, found>>
vars == <<keys, tracker, users, ask, stage, answer, found, now, life, counted,
          named, created, broken>>

Stage == {"start", "auditing", "hashing", "stored", "registered", "comparing",
          "done", "lost"}
InFlight == {"auditing", "hashing", "stored", "comparing"}
Answer == {None, "next", "200", "201", "401", "403", "409", "500"}

(* loadApiKeys; a key is active unless the configuration says it is not.   *)
Loaded == [i \in DOMAIN Configured |->
             [hash |-> Configured[i].hash, id |-> Configured[i].id,
              active |-> Configured[i].active]]

Init ==
  /\ keys = Loaded
  /\ tracker = <<>>
  /\ users = {}
  /\ ask \in Asks
  /\ stage = [c \in Caller |-> "start"]
  /\ answer = [c \in Caller |-> None]
  /\ found = [c \in Caller |-> None]
  /\ now = 0 /\ life = 0
  /\ counted = {} /\ named = {} /\ created = {} /\ broken = {}

To(c, s) == stage' = [stage EXCEPT ![c] = s]
Decide(c, a, s) == To(c, s) /\ answer' = [answer EXCEPT ![c] = a]

-----------------------------------------------------------------------------
(* The key manager                                                         *)

Known(h) == \E i \in DOMAIN keys : keys[i].hash = h
KeyOf(h) == keys[CHOOSE i \in DOMAIN keys : keys[i].hash = h]

\* mutant of Acceptable: isActive is not looked at
AcceptableUnrevoked(c) ==
  LET h == ask[c].hash
  IN  /\ Known(h) /\ ~(now > Expires[h])
      /\ Whitelist[h] = {} \/ ask[c].ip \in Whitelist[h]

(* The checks of validateApiKey before the rate limit.                     *)
Acceptable(c) ==
  LET h == ask[c].hash
  IN  /\ Known(h) /\ KeyOf(h).active
      /\ ~(now > Expires[h])
      /\ Whitelist[h] = {} \/ ask[c].ip \in Whitelist[h]

Pair(c) == <<ask[c].hash, ask[c].ip>>
MinuteOf(t) == (t \div MinuteTicks) * MinuteTicks
NextMinute == MinuteOf(now) + MinuteTicks

Over(w) == now > w.reset

(* The window a request falls into: the one on record, or a new one.       *)
Window(c) ==
  IF Pair(c) \notin DOMAIN tracker \/ Over(tracker[Pair(c)])
  THEN [count |-> 0, reset |-> NextMinute]
  ELSE tracker[Pair(c)]

Track(c, w) ==
  tracker' = [p \in DOMAIN tracker \union {Pair(c)} |->
                IF p = Pair(c) THEN w ELSE tracker[p]]

\* mutant of Full: the limit may be passed by one
FullLate(w) == w.count > Limit

Full(w) == w.count >= Limit

Permitted(c) == {"admin", ask[c].needs} \intersect Permissions[ask[c].hash] # {}

AsksWithKey(c) == stage[c] = "start" /\ ask[c].kind = "key"

Refuse(c) ==
  /\ AsksWithKey(c) /\ ~Acceptable(c)
  /\ Decide(c, "401", "auditing")
  /\ UNCHANGED <<process, database, ask, found, now, counted, created>>

Throttle(c) ==
  /\ AsksWithKey(c) /\ Acceptable(c) /\ Full(Window(c))
  /\ Track(c, Window(c))
  /\ Decide(c, "401", "auditing")
  /\ UNCHANGED <<keys, named, life, database, ask, found, now, counted, created>>

(* The request is counted before its permission is looked at.              *)
Admit(c) ==
  /\ AsksWithKey(c) /\ Acceptable(c) /\ ~Full(Window(c))
  /\ Track(c, [Window(c) EXCEPT !.count = @ + 1])
  /\ counted' = counted \union
       {[by |-> c, at |-> now, life |-> life, late |-> KeyOf(ask[c].hash).id \in named]}
  /\ Decide(c, IF Permitted(c) THEN "next" ELSE "403", "auditing")
  /\ UNCHANGED <<keys, named, life, database, ask, found, now, created>>

(* logSecurityEvent came back; whether it could save makes no difference.  *)
Audited(c) ==
  /\ stage[c] = "auditing"
  /\ To(c, "done")
  /\ UNCHANGED <<process, database, ask, answer, found, now, counted, created>>

\* mutant of CleanupRateLimitTracker: it drops the windows in use, too
ClearTracker ==
  /\ tracker # <<>>
  /\ tracker' = <<>>
  /\ UNCHANGED <<keys, named, life, database, ask, handlers, now, counted, created>>

(* cleanupRateLimitTracker, each minute.                                   *)
CleanupRateLimitTracker ==
  /\ \E p \in DOMAIN tracker : Over(tracker[p])
  /\ tracker' = [p \in {q \in DOMAIN tracker : ~Over(tracker[q])} |-> tracker[p]]
  /\ UNCHANGED <<keys, named, life, database, ask, handlers, now, counted, created>>

AddApiKey(h, id) ==
  /\ ~Known(h)
  /\ keys' = Append(keys, [hash |-> h, id |-> id, active |-> TRUE])
  /\ UNCHANGED <<tracker, named, life, database, ask, handlers, now, counted, created>>

(* The first key with the id, whether it is active or not.                 *)
RevokeApiKey(id) ==
  /\ \E i \in DOMAIN keys :
       /\ keys[i].id = id
       /\ \A j \in 1 .. i - 1 : keys[j].id # id
       /\ keys' = [keys EXCEPT ![i].active = FALSE]
  /\ named' = named \union {id}
  /\ UNCHANGED <<tracker, life, database, ask, handlers, now, counted, created>>

-----------------------------------------------------------------------------
(* Accounts                                                                *)

Fails(c, kind) == kind \in Faults /\ Decide(c, "500", "done")

(* register: is there a user of that name or with that address?            *)
CheckExisting(c) ==
  /\ stage[c] = "start" /\ ask[c].kind = "join"
  /\ \/ Fails(c, "statement")
     \/ /\ \E u \in users : u.name = ask[c].name \/ u.email = ask[c].email
        /\ Decide(c, "409", "done")
     \/ /\ \A u \in users : u.name # ask[c].name /\ u.email # ask[c].email
        /\ To(c, "hashing") /\ UNCHANGED answer
  /\ UNCHANGED <<process, database, ask, found, now, counted, created>>

\* mutant of Unique: the table has no unique constraints
UniqueAny(c) == TRUE

(* The unique constraints of the users table.                              *)
Unique(c) == \A u \in users : u.name # ask[c].name /\ u.email # ask[c].email

Row(c) == [owner |-> c, name |-> ask[c].name, email |-> ask[c].email]

\* mutant of SaveUser: the row is stored, whatever the answer
SaveUserFirst(c) ==
  /\ stage[c] = "hashing" /\ Unique(c)
  /\ users' = users \union {Row(c)}
  /\ \/ To(c, "stored") /\ UNCHANGED answer
     \/ Fails(c, "statement")
  /\ UNCHANGED <<process, broken, ask, found, now, counted, created>>

(* register: setPassword, then save.                                       *)
SaveUser(c) ==
  /\ stage[c] = "hashing" /\ Unique(c)
  /\ users' = users \union {Row(c)}
  /\ \/ To(c, "stored") /\ UNCHANGED <<answer, broken>>
     \/ Fails(c, "reply") /\ broken' = broken \union {c}
  /\ UNCHANGED <<process, ask, found, now, counted, created>>

SaveUserFails(c) ==
  /\ stage[c] = "hashing"
  /\ ~Unique(c) \/ "statement" \in Faults
  /\ Decide(c, "500", "done")
  /\ UNCHANGED <<process, database, ask, found, now, counted, created>>

Registered(c) ==
  /\ stage[c] = "stored"
  /\ Decide(c, "201", "registered")
  /\ created' = created \union {c}
  /\ UNCHANGED <<process, database, ask, found, now, counted>>

\* mutant of Holders: only names are compared
HoldersByName(x) == {u \in users : u.name = x}

(* login: WHERE username = x OR email = x; the first of them in any order. *)
Holders(x) == {u \in users : x \in {u.name, u.email}}

(* The caller gives its name or its address, and its password.             *)
FindUser(c) ==
  /\ stage[c] = "registered"
  /\ \/ Fails(c, "statement") /\ UNCHANGED found
     \/ \E x \in {ask[c].name, ask[c].email} :
          \/ Holders(x) = {} /\ Decide(c, "401", "done") /\ UNCHANGED found
          \/ \E u \in Holders(x) :
               /\ found' = [found EXCEPT ![c] = u.owner]
               /\ To(c, "comparing") /\ UNCHANGED answer
  /\ UNCHANGED <<process, database, ask, now, counted, created>>

(* validatePassword; the tokens name the row that was loaded.              *)
ValidatePassword(c) ==
  /\ stage[c] = "comparing"
  /\ Decide(c, IF found[c] = c THEN "200" ELSE "401", "done")
  /\ UNCHANGED <<process, database, ask, found, now, counted, created>>

-----------------------------------------------------------------------------
(* The process and the clock                                               *)

Restart ==
  /\ life < MaxRestarts
  /\ life' = life + 1
  /\ keys' = Loaded /\ tracker' = <<>> /\ named' = {}
  /\ stage' = [c \in Caller |-> IF stage[c] \in InFlight THEN "lost" ELSE stage[c]]
  /\ UNCHANGED <<database, ask, answer, found, now, counted, created>>

Tick ==
  /\ now < MaxTime
  /\ now' = now + 1
  /\ UNCHANGED <<process, database, ask, handlers, counted, created>>

Start(c) == Refuse(c) \/ Throttle(c) \/ Admit(c) \/ CheckExisting(c) \/ FindUser(c)

Continue(c) ==
  \/ Audited(c)
  \/ SaveUser(c) \/ SaveUserFails(c)
  \/ Registered(c)
  \/ ValidatePassword(c)

Next ==
  \/ \E c \in Caller : Start(c) \/ Continue(c)
  \/ CleanupRateLimitTracker
  \/ \E h \in NewKey, id \in KeyId : AddApiKey(h, id)
  \/ \E id \in KeyId : RevokeApiKey(id)
  \/ Restart
  \/ Tick

Spec == Init /\ [][Next]_vars

-----------------------------------------------------------------------------
(* Properties                                                              *)

(* Everything has the values it should have.                               *)
TypeOK ==
  /\ keys \in Seq([hash : Hash, id : KeyId, active : BOOLEAN])
  /\ DOMAIN tracker \subseteq Hash \X Ip
  /\ \A p \in DOMAIN tracker : tracker[p] \in [count : 0 .. Limit, reset : Nat]
  /\ users \subseteq [owner : Caller, name : Name, email : Email]
  /\ ask \in [Caller -> KeyRequest \union Join \union {Silent}]
  /\ stage \in [Caller -> Stage] /\ answer \in [Caller -> Answer]
  /\ found \in [Caller -> Caller \union {None}]
  /\ now \in 0 .. MaxTime /\ life \in 0 .. MaxRestarts
  /\ counted \subseteq [by : Caller, at : Nat, life : Nat, late : BOOLEAN]
  /\ named \subseteq KeyId
  /\ created \subseteq Caller /\ broken \subseteq Caller

(* What a key's limit means for the minutes of the code, from one address  *)
(* and until a restart, which counts anew: after the first instant of a    *)
(* minute at most Limit requests are let through, however the lazy reset   *)
(* and the cleanup of the windows fall together.  At that first instant    *)
(* the window of the minute before is still in use (now > resetTime), so   *)
(* with what it had left the minute may see up to Limit - 1 more.          *)
WindowKept ==
  \A g \in counted :
    LET minute == {f \in counted : /\ Pair(f.by) = Pair(g.by) /\ f.life = g.life
                                  /\ MinuteOf(f.at) = MinuteOf(g.at)}
    IN  /\ Cardinality({f \in minute : f.at # MinuteOf(f.at)}) <= Limit
        /\ Cardinality(minute) <= 2 * Limit - 1

(* After revokeApiKey returned true for an id, no request with that id is  *)
(* let through before the next restart, unless several keys have the id:   *)
(* then only the first of them is revoked, however often one asks.         *)
RevokedStaysOut ==
  \A g \in counted :
    g.late /\ g.life = life =>
      \E i, j \in DOMAIN keys :
        /\ i < j /\ keys[i].id = keys[j].id
        /\ keys[j].hash = ask[g.by].hash

(* Of overlapping registrations for one name or one address at most one is *)
(* answered 201, although the check and the insert are separate statements.*)
CreatedOnce ==
  \A c, d \in created :
    c # d => ask[c].name # ask[d].name /\ ask[c].email # ask[d].email

(* Besides, who was told 409 or 500 has no account, unless the database    *)
(* stored the row and its answer got lost; who was told 201 has one, and   *)
(* keeps it through restarts.                                              *)
AnswersMatchRows ==
  /\ CreatedOnce
  /\ \A u \in users :
       u.owner \in created \union broken \/ stage[u.owner] \in {"stored", "lost"}
  /\ \A c \in created : Row(c) \in users

(* Another account whose name is the address of this one, or the reverse:  *)
(* registration compares names with names and addresses with addresses.    *)
Mistakable(c) ==
  \E u \in users : u.owner # c /\ (u.name = ask[c].email \/ u.email = ask[c].name)

(* Who was told that it is registered is never turned away when it logs in *)
(* with its name or its address, unless accounts can be mistaken.          *)
LoginFindsOwner ==
  \A c \in created :
    stage[c] = "done" /\ answer[c] = "401" => Mistakable(c)

=============================================================================
