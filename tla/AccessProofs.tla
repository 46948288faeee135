---------------------------- MODULE AccessProofs ----------------------------
(***************************************************************************)
(* Proofs about Access, for any set of callers, keys and names and any     *)
(* limit.  The inductive invariant AccessInv has three parts that do not   *)
(* need each other beyond types: the accounts, the request windows, and    *)
(* the revocations.                                                        *)
(***************************************************************************)
EXTENDS Access, FiniteSetTheorems, TLAPS

(* Where each registration and login has come, and what it left behind.    *)
Place ==
  \A c \in Caller :
    /\ stage[c] = "auditing" => ask[c].kind = "key"
    /\ stage[c] \in {"hashing", "stored", "registered", "comparing"} =>
         ask[c].kind = "join"
    /\ c \in created =>
         /\ ask[c].kind = "join" /\ Row(c) \in users
         /\ stage[c] \in {"registered", "comparing", "done", "lost"}
    /\ stage[c] \in {"registered", "comparing"} => c \in created
    /\ stage[c] \in {"start", "hashing"} => \A u \in users : u.owner # c
    /\ stage[c] = "stored" => Row(c) \in users

(* Rows say what their owners asked for, and the constraints hold.         *)
RowsUnique ==
  /\ \A u \in users : u = Row(u.owner)
  /\ \A u, v \in users : u.name = v.name \/ u.email = v.email => u = v

RowsOwned ==
  \A u \in users :
    u.owner \in created \union broken \/ stage[u.owner] \in {"stored", "lost"}

(* A login that loaded another row than its own could mistake it.          *)
Logins ==
  \A c \in Caller :
    /\ stage[c] = "comparing" /\ found[c] # c => Mistakable(c)
    /\ c \in created /\ stage[c] = "done" /\ answer[c] = "401" => Mistakable(c)

Accounts == Place /\ RowsUnique /\ RowsOwned /\ Logins

(* Requests of this life that fall into the minute of the clock; those at  *)
(* its first instant, and the others.                                      *)
Fellows(p) ==
  {f \in counted : /\ Pair(f.by) = p /\ f.life = life
                   /\ MinuteOf(f.at) = MinuteOf(now)}
First(p) == {f \in Fellows(p) : f.at = MinuteOf(now)}
Later(p) == {f \in Fellows(p) : f.at # MinuteOf(now)}

InWindow(p) == p \in DOMAIN tracker /\ ~Over(tracker[p])

(* How the requests of this minute were counted: all by its own window;    *)
(* or, at the first instant, by a window of the minute before, which had   *)
(* counted more; or first by that one and later by the own window; or      *)
(* there were none.                                                        *)
WholeMinute(p) ==
  /\ InWindow(p) /\ tracker[p].reset = NextMinute
  /\ Cardinality(Fellows(p)) <= tracker[p].count
OldWindow(p) ==
  /\ InWindow(p) /\ tracker[p].reset = MinuteOf(now)
  /\ Cardinality(Fellows(p)) < tracker[p].count
AfterOld(p) ==
  /\ MinuteOf(now) < now
  /\ Cardinality(First(p)) < Limit
  /\ IF InWindow(p)
     THEN tracker[p].reset = NextMinute /\ Cardinality(Later(p)) <= tracker[p].count
     ELSE Later(p) = {}
NoneYet(p) == ~InWindow(p) /\ Fellows(p) = {}
Accounted(p) == WholeMinute(p) \/ OldWindow(p) \/ AfterOld(p) \/ NoneYet(p)

(* A window exists because it counted a request.                           *)
Windows ==
  /\ IsFiniteSet(counted)
  /\ \A f \in counted : f.at <= now /\ f.life <= life
  /\ \A p \in DOMAIN tracker : tracker[p].count > 0
  /\ \A c \in Caller : Accounted(Pair(c))

(* The first key with a confirmed id is the one that was revoked.          *)
NamedRevoked ==
  \A id \in named :
    \E i \in DOMAIN keys :
      /\ keys[i].id = id /\ ~keys[i].active
      /\ \A j \in 1 .. i - 1 : keys[j].id # id

AccessInv ==
  /\ TypeOK /\ Accounts
  /\ Windows /\ WindowKept
  /\ NamedRevoked /\ RevokedStaysOut

-----------------------------------------------------------------------------
(* Minutes                                                                 *)

(* The boundaries of a minute: its first instant belongs to it.            *)
LEMMA MinuteBounds ==
  ASSUME NEW t \in Nat
  PROVE  /\ \E m \in Nat : MinuteOf(t) = m * MinuteTicks
         /\ MinuteOf(t) \in Nat /\ MinuteOf(t) <= t
         /\ t < MinuteOf(t) + MinuteTicks
<1>1. MinuteTicks \in Nat \ {0}
  BY LimitAssumption
<1>2. PICK m \in Nat : m = t \div MinuteTicks
  BY <1>1
<1>3. m * MinuteTicks <= t /\ t < m * MinuteTicks + MinuteTicks
  BY <1>1, <1>2
<1>4. MinuteOf(t) = m * MinuteTicks
  BY <1>2 DEF MinuteOf
<1>. QED  BY <1>1, <1>3, <1>4

(* A window that is made now ends after now.                               *)
LEMMA NextMinuteLater ==
  ASSUME now \in Nat
  PROVE  NextMinute \in Nat /\ NextMinute > now
BY MinuteBounds, LimitAssumption DEF NextMinute

(* The next instant is in the same minute, or it is the first of the next. *)
LEMMA MinuteGoesOn ==
  ASSUME NEW t \in Nat
  PROVE  \/ MinuteOf(t + 1) = MinuteOf(t)
         \/ MinuteOf(t + 1) = t + 1 /\ t + 1 = MinuteOf(t) + MinuteTicks
<1>1. MinuteTicks \in Nat \ {0} /\ t + 1 \in Nat
  BY LimitAssumption
<1>2. PICK m \in Nat : MinuteOf(t) = m * MinuteTicks
  BY MinuteBounds
<1>3. PICK n \in Nat : MinuteOf(t + 1) = n * MinuteTicks
  BY <1>1, MinuteBounds
<1>4. /\ m * MinuteTicks <= t /\ t < m * MinuteTicks + MinuteTicks
      /\ n * MinuteTicks <= t + 1 /\ t + 1 < n * MinuteTicks + MinuteTicks
  BY <1>1, <1>2, <1>3, MinuteBounds
<1>5. ~(n <= m - 1)
  <2>1. SUFFICES ASSUME n + 1 <= m  PROVE FALSE
    OBVIOUS
  <2>2. (n + 1) * MinuteTicks <= m * MinuteTicks
    BY <1>1, <2>1
  <2>. QED  BY <1>1, <1>4, <2>2
<1>6. ~(n >= m + 2)
  <2>1. SUFFICES ASSUME m + 2 <= n  PROVE FALSE
    OBVIOUS
  <2>2. (m + 2) * MinuteTicks <= n * MinuteTicks
    BY <1>1, <2>1
  <2>. QED  BY <1>1, <1>4, <2>2
<1>7. n = m \/ n = m + 1
  BY <1>5, <1>6
<1>8. CASE n = m + 1
  <2>1. n * MinuteTicks = m * MinuteTicks + MinuteTicks
    BY <1>1, <1>8
  <2>. QED  BY <1>1, <1>2, <1>3, <1>4, <2>1
<1>. QED  BY <1>2, <1>3, <1>7, <1>8

(* Time does not go back.                                                  *)
LEMMA MinuteMonotone ==
  ASSUME NEW s \in Nat, NEW t \in Nat, s <= t
  PROVE  MinuteOf(s) <= t
BY MinuteBounds

-----------------------------------------------------------------------------
(* Types                                                                   *)

LEMMA LoadedType == Loaded \in Seq([hash : Hash, id : KeyId, active : BOOLEAN])
<1>1. PICK n \in Nat : DOMAIN Configured = 1 .. n
  BY ConfiguredAssumption
<1>2. \A i \in 1 .. n : /\ Configured[i].hash \in Hash
                        /\ Configured[i].id \in KeyId
                        /\ Configured[i].active \in BOOLEAN
  BY <1>1, ConfiguredAssumption DEF Hash, KeyId
<1>. QED  BY <1>1, <1>2 DEF Loaded

(* The key a request presents, when it is known.                           *)
LEMMA KeyFound ==
  ASSUME TypeOK, NEW h, Known(h)
  PROVE  \E i \in DOMAIN keys : KeyOf(h) = keys[i] /\ keys[i].hash = h
<1>1. PICK j \in DOMAIN keys : keys[j].hash = h
  BY DEF Known
<1>2. (CHOOSE i \in DOMAIN keys : keys[i].hash = h) \in DOMAIN keys
  BY <1>1
<1>3. keys[CHOOSE i \in DOMAIN keys : keys[i].hash = h].hash = h
  BY <1>1
<1>. QED  BY <1>2, <1>3 DEF KeyOf

(* The window of a caller is one the limiter could have on record.         *)
LEMMA WindowType ==
  ASSUME TypeOK, NEW c \in Caller
  PROVE  Window(c) \in [count : 0 .. Limit, reset : Nat]
<1>1. NextMinute \in Nat
  BY NextMinuteLater DEF TypeOK
<1>. QED  BY <1>1, LimitAssumption DEF Window, TypeOK

LEMMA InitAccess == Init => AccessInv
<1>. SUFFICES ASSUME Init  PROVE AccessInv
  OBVIOUS
<1>1. DOMAIN tracker = {} /\ \A p \in DOMAIN tracker : FALSE
  BY DEF Init
<1>2. TypeOK
  BY <1>1, LoadedType, BoundsAssumption, AsksAssumption
     DEF Init, TypeOK, Stage, Answer
<1>3. Accounts
  BY DEF Init, Accounts, Place, RowsUnique, RowsOwned, Logins
<1>4. Windows
  BY <1>1, FS_EmptySet DEF Init, Windows, Accounted, NoneYet, InWindow, Fellows
<1>5. WindowKept /\ NamedRevoked /\ RevokedStaysOut
  BY DEF Init, WindowKept, NamedRevoked, RevokedStaysOut
<1>. QED  BY <1>2, <1>3, <1>4, <1>5 DEF AccessInv

(* Every action keeps the types.                                           *)
LEMMA TypeStep == TypeOK /\ Place /\ [Next]_vars => TypeOK'
<1>. SUFFICES ASSUME TypeOK, Place, [Next]_vars  PROVE TypeOK'
  OBVIOUS
<1>. USE DEF process, database, handlers
<1>1. ASSUME NEW c \in Caller, Refuse(c)  PROVE TypeOK'
  BY <1>1 DEF TypeOK, Refuse, Decide, To, Stage, Answer
<1>2. ASSUME NEW c \in Caller, NEW w \in [count : 0 .. Limit, reset : Nat],
             ask[c].kind = "key", Track(c, w)
      PROVE  /\ DOMAIN tracker' \subseteq Hash \X Ip
             /\ \A p \in DOMAIN tracker' : tracker'[p] \in [count : 0 .. Limit, reset : Nat]
  <2>1. ask[c] \in KeyRequest
    BY <1>2 DEF TypeOK, Join, Silent
  <2>2. Pair(c) \in Hash \X Ip
    BY <2>1 DEF Pair, KeyRequest
  <2>. QED  BY <1>2, <2>2 DEF Track, TypeOK
<1>3. ASSUME NEW c \in Caller, Throttle(c)  PROVE TypeOK'
  <2>1. /\ DOMAIN tracker' \subseteq Hash \X Ip
        /\ \A p \in DOMAIN tracker' : tracker'[p] \in [count : 0 .. Limit, reset : Nat]
    BY <1>2, <1>3, WindowType DEF Throttle, AsksWithKey
  <2>. QED  BY <1>3, <2>1 DEF TypeOK, Throttle, Decide, To, Stage, Answer
<1>4. ASSUME NEW c \in Caller, Admit(c)  PROVE TypeOK'
  <2>1. /\ Window(c) \in [count : 0 .. Limit, reset : Nat]
        /\ [Window(c) EXCEPT !.count = @ + 1] \in [count : 0 .. Limit, reset : Nat]
    BY <1>4, WindowType, LimitAssumption DEF Admit, Full
  <2>2. /\ DOMAIN tracker' \subseteq Hash \X Ip
        /\ \A p \in DOMAIN tracker' : tracker'[p] \in [count : 0 .. Limit, reset : Nat]
    BY <1>2, <1>4, <2>1 DEF Admit, AsksWithKey
  <2>3. counted' \subseteq [by : Caller, at : Nat, life : Nat, late : BOOLEAN]
    <3>. DEFINE g == [by |-> c, at |-> now, life |-> life,
                      late |-> KeyOf(ask[c].hash).id \in named]
    <3>1. (KeyOf(ask[c].hash).id \in named) \in BOOLEAN
      OBVIOUS
    <3>2. now \in Nat /\ life \in Nat
      BY BoundsAssumption DEF TypeOK
    <3>3. g \in [by : Caller, at : Nat, life : Nat, late : BOOLEAN]
      BY <3>1, <3>2, Zenon
    <3>4. counted' = counted \union {g}
      BY <1>4 DEF Admit
    <3>. HIDE DEF g
    <3>. QED  BY <3>3, <3>4 DEF TypeOK
  <2>4. stage' \in [Caller -> Stage] /\ answer' \in [Caller -> Answer]
    BY <1>4 DEF TypeOK, Admit, Decide, To, Stage, Answer
  <2>. QED  BY <1>4, <2>2, <2>3, <2>4 DEF TypeOK, Admit
<1>5. ASSUME NEW c \in Caller, Audited(c)  PROVE TypeOK'
  BY <1>5 DEF TypeOK, Audited, To, Stage
<1>6. CASE CleanupRateLimitTracker
  BY <1>6 DEF TypeOK, CleanupRateLimitTracker
<1>7. ASSUME NEW h \in NewKey, NEW id \in KeyId, AddApiKey(h, id)  PROVE TypeOK'
  BY <1>7 DEF TypeOK, AddApiKey, Hash
<1>8. ASSUME NEW id \in KeyId, RevokeApiKey(id)  PROVE TypeOK'
  <2>1. PICK i \in DOMAIN keys : keys' = [keys EXCEPT ![i].active = FALSE]
    BY <1>8 DEF RevokeApiKey
  <2>. DEFINE K == [hash : Hash, id : KeyId, active : BOOLEAN]
  <2>2. keys \in Seq(K) /\ keys[i] \in K
    <3>1. keys \in Seq(K)
      BY DEF TypeOK
    <3>. HIDE DEF K
    <3>. QED  BY <2>1, <3>1
  <2>3. [keys[i] EXCEPT !.active = FALSE] \in K
    BY <2>2
  <2>4. keys' = [keys EXCEPT ![i] = [keys[i] EXCEPT !.active = FALSE]]
    BY <2>1
  <2>5. keys' \in Seq(K)
    <3>. HIDE DEF K
    <3>. QED  BY <2>1, <2>2, <2>3, <2>4
  <2>. QED  BY <1>8, <2>5 DEF TypeOK, RevokeApiKey
<1>9. ASSUME NEW c \in Caller, CheckExisting(c)  PROVE TypeOK'
  BY <1>9 DEF TypeOK, CheckExisting, Fails, Decide, To, Stage, Answer
<1>10. ASSUME NEW c \in Caller, SaveUser(c)  PROVE TypeOK'
  <2>1. ask[c] \in Join
    BY <1>10 DEF TypeOK, Place, SaveUser, KeyRequest, Silent
  <2>2. Row(c) \in [owner : Caller, name : Name, email : Email]
    BY <2>1 DEF Row, Join
  <2>. QED  BY <1>10, <2>2 DEF TypeOK, SaveUser, Fails, Decide, To, Stage, Answer
<1>11. ASSUME NEW c \in Caller, SaveUserFails(c)  PROVE TypeOK'
  BY <1>11 DEF TypeOK, SaveUserFails, Decide, To, Stage, Answer
<1>12. ASSUME NEW c \in Caller, Registered(c)  PROVE TypeOK'
  BY <1>12 DEF TypeOK, Registered, Decide, To, Stage, Answer
<1>13. ASSUME NEW c \in Caller, FindUser(c)  PROVE TypeOK'
  BY <1>13 DEF TypeOK, FindUser, Holders, Fails, Decide, To, Stage, Answer
<1>14. ASSUME NEW c \in Caller, ValidatePassword(c)  PROVE TypeOK'
  BY <1>14 DEF TypeOK, ValidatePassword, Decide, To, Stage, Answer
<1>15. CASE Restart
  <2>1. life' \in 0 .. MaxRestarts
    BY <1>15, BoundsAssumption DEF TypeOK, Restart
  <2>2. stage' \in [Caller -> Stage]
    BY <1>15 DEF TypeOK, Restart, Stage
  <2>3. DOMAIN tracker' = {}
    BY <1>15 DEF Restart
  <2>. QED  BY <1>15, <2>1, <2>2, <2>3, LoadedType DEF TypeOK, Restart
<1>16. CASE Tick
  BY <1>16, BoundsAssumption DEF TypeOK, Tick
<1>17. CASE UNCHANGED vars
  BY <1>17 DEF TypeOK, vars
<1>. QED
  BY <1>1, <1>3, <1>4, <1>5, <1>6, <1>7, <1>8, <1>9, <1>10, <1>11, <1>12,
     <1>13, <1>14, <1>15, <1>16, <1>17 DEF Next, Start, Continue

-----------------------------------------------------------------------------
(* Accounts                                                                *)

(* What has no part in registration and login leaves the accounts alone.   *)
LEMMA AccountsKept ==
  ASSUME TypeOK, Accounts, UNCHANGED <<users, broken, created, found, ask>>,
         \A c \in Caller :
           \/ stage'[c] = stage[c] /\ answer'[c] = answer[c]
           \/ /\ ask[c].kind = "key" /\ stage[c] \in {"start", "auditing"}
              /\ stage'[c] \in {"auditing", "done"}
  PROVE  Accounts'
<1>1. \A c \in Caller : Row(c)' = Row(c) /\ (Mistakable(c)' <=> Mistakable(c))
  BY DEF Row, Mistakable
<1>2. \A c \in Caller : ~(ask[c].kind = "key" /\ ask[c].kind = "join")
  OBVIOUS
<1>3. Place'
  BY <1>1, <1>2 DEF Accounts, Place
<1>4. RowsUnique'
  BY <1>1 DEF Accounts, RowsUnique, TypeOK
<1>5. \A u \in users : u = Row(u.owner) /\ u.owner \in Caller
  BY DEF Accounts, RowsUnique, TypeOK
<1>6. RowsOwned'
  <2>. SUFFICES ASSUME NEW u \in users, stage[u.owner] \in {"stored", "lost"},
                       u.owner \notin created \union broken
                PROVE  stage'[u.owner] \in {"stored", "lost"}
    BY DEF Accounts, RowsOwned
  <2>. QED  BY <1>5, <1>2 DEF Accounts, Place
<1>7. Logins'
  BY <1>1, <1>2 DEF Accounts, Logins, Place
<1>. QED  BY <1>3, <1>4, <1>6, <1>7 DEF Accounts

LEMMA AccountsStep == TypeOK /\ Accounts /\ [Next]_vars => Accounts'
<1>. SUFFICES ASSUME TypeOK, Accounts, [Next]_vars  PROVE Accounts'
  OBVIOUS
<1>. USE DEF process, database, handlers
<1>1. ASSUME NEW c \in Caller, Refuse(c) \/ Throttle(c) \/ Admit(c) \/ Audited(c)
      PROVE  Accounts'
  <2>1. UNCHANGED <<users, broken, created, found, ask>> /\ ask[c].kind = "key"
        /\ stage[c] \in {"start", "auditing"}
    BY <1>1 DEF Refuse, Throttle, Admit, Audited, AsksWithKey, Accounts, Place
  <2>2. /\ stage' = [stage EXCEPT ![c] = stage'[c]] /\ stage'[c] \in {"auditing", "done"}
        /\ answer' = [answer EXCEPT ![c] = answer'[c]]
    BY <1>1 DEF Refuse, Throttle, Admit, Audited, Decide, To, TypeOK
  <2>. QED  BY <2>1, <2>2, AccountsKept DEF TypeOK
<1>2. CASE \/ CleanupRateLimitTracker
           \/ \E h \in NewKey, id \in KeyId : AddApiKey(h, id)
           \/ \E id \in KeyId : RevokeApiKey(id)
           \/ Tick \/ UNCHANGED vars
  <2>1. UNCHANGED <<users, broken, created, found, ask, stage, answer>>
    BY <1>2 DEF CleanupRateLimitTracker, AddApiKey, RevokeApiKey, Tick, vars
  <2>. QED  BY <2>1, AccountsKept
<1>3. ASSUME NEW c \in Caller, CheckExisting(c) \/ SaveUserFails(c)
      PROVE  Accounts'
  <2>1. /\ UNCHANGED <<users, broken, created, found, ask>> /\ ask[c].kind = "join"
        /\ stage[c] \in {"start", "hashing"} /\ c \notin created
    BY <1>3 DEF CheckExisting, SaveUserFails, Accounts, Place
  <2>2. /\ stage' = [stage EXCEPT ![c] = stage'[c]] /\ stage'[c] \in {"hashing", "done"}
        /\ answer' = [answer EXCEPT ![c] = answer'[c]]
    BY <1>3 DEF CheckExisting, SaveUserFails, Fails, Decide, To, TypeOK
  <2>3. /\ \A d \in Caller : Row(d)' = Row(d) /\ (Mistakable(d)' <=> Mistakable(d))
        /\ \A d \in Caller \ {c} : stage'[d] = stage[d] /\ answer'[d] = answer[d]
    BY <2>1, <2>2 DEF Row, Mistakable, TypeOK
  <2>4. Place'
    BY <2>1, <2>2, <2>3 DEF Accounts, Place
  <2>5. RowsUnique' /\ \A u \in users : u.owner \in Caller \ {c}
    BY <2>1, <2>3 DEF Accounts, RowsUnique, Place, TypeOK
  <2>6. RowsOwned'
    BY <2>1, <2>3, <2>5 DEF Accounts, RowsOwned
  <2>7. Logins'
    BY <2>1, <2>2, <2>3 DEF Accounts, Logins
  <2>. QED  BY <2>4, <2>5, <2>6, <2>7 DEF Accounts
<1>4. ASSUME NEW c \in Caller, SaveUser(c)  PROVE Accounts'
  <2>1. /\ UNCHANGED <<created, found, ask>> /\ ask[c].kind = "join"
        /\ stage[c] = "hashing" /\ c \notin created /\ Unique(c)
        /\ users' = users \union {Row(c)}
    BY <1>4 DEF SaveUser, Accounts, Place
  <2>2. /\ stage' = [stage EXCEPT ![c] = stage'[c]] /\ stage'[c] \in {"stored", "done"}
        /\ answer' = [answer EXCEPT ![c] = answer'[c]]
        /\ broken \subseteq broken'
        /\ stage'[c] = "stored" \/ c \in broken'
    BY <1>4 DEF SaveUser, Fails, Decide, To, TypeOK
  <2>3. /\ \A d \in Caller : Row(d)' = Row(d) /\ (Mistakable(d) => Mistakable(d)')
        /\ \A d \in Caller \ {c} : stage'[d] = stage[d] /\ answer'[d] = answer[d]
    BY <2>1, <2>2 DEF Row, Mistakable, TypeOK
  <2>4. Row(c).owner = c /\ Row(c).name = ask[c].name /\ Row(c).email = ask[c].email
    BY DEF Row
  <2>5. Place'
    BY <2>1, <2>2, <2>3, <2>4 DEF Accounts, Place
  <2>6. \A u \in users : u.owner \in Caller \ {c}
    BY <2>1 DEF Accounts, Place, TypeOK
  <2>7. RowsUnique'
    BY <2>1, <2>3, <2>4, <2>6 DEF Accounts, RowsUnique, Unique
  <2>8. RowsOwned'
    BY <2>1, <2>2, <2>3, <2>4, <2>6 DEF Accounts, RowsOwned
  <2>9. Logins'
    BY <2>1, <2>2, <2>3 DEF Accounts, Logins
  <2>. QED  BY <2>5, <2>7, <2>8, <2>9 DEF Accounts
<1>5. ASSUME NEW c \in Caller, Registered(c)  PROVE Accounts'
  <2>1. /\ UNCHANGED <<users, broken, found, ask>> /\ ask[c].kind = "join"
        /\ stage[c] = "stored" /\ Row(c) \in users
        /\ created' = created \union {c}
    BY <1>5 DEF Registered, Accounts, Place
  <2>2. /\ stage' = [stage EXCEPT ![c] = "registered"]
        /\ answer' = [answer EXCEPT ![c] = answer'[c]]
    BY <1>5 DEF Registered, Decide, To, TypeOK
  <2>3. /\ \A d \in Caller : Row(d)' = Row(d) /\ (Mistakable(d)' <=> Mistakable(d))
        /\ \A d \in Caller \ {c} : stage'[d] = stage[d] /\ answer'[d] = answer[d]
        /\ stage'[c] = "registered"
    BY <2>1, <2>2 DEF Row, Mistakable, TypeOK
  <2>4. Place'
    BY <2>1, <2>3 DEF Accounts, Place
  <2>5. RowsUnique' /\ \A u \in users : u.owner \in Caller
    BY <2>1, <2>3 DEF Accounts, RowsUnique, TypeOK
  <2>6. RowsOwned'
    BY <2>1, <2>3, <2>5 DEF Accounts, RowsOwned
  <2>7. Logins'
    BY <2>1, <2>3 DEF Accounts, Logins
  <2>. QED  BY <2>4, <2>5, <2>6, <2>7 DEF Accounts
<1>6. ASSUME NEW c \in Caller, FindUser(c) \/ ValidatePassword(c)
      PROVE  Accounts'
  <2>1. /\ UNCHANGED <<users, broken, created, ask>> /\ ask[c].kind = "join"
        /\ stage[c] \in {"registered", "comparing"} /\ c \in created /\ Row(c) \in users
    BY <1>6 DEF FindUser, ValidatePassword, Accounts, Place
  <2>2. /\ stage' = [stage EXCEPT ![c] = stage'[c]] /\ stage'[c] \in {"comparing", "done"}
        /\ answer' = [answer EXCEPT ![c] = answer'[c]]
        /\ found' = [found EXCEPT ![c] = found'[c]]
    BY <1>6 DEF FindUser, ValidatePassword, Fails, Decide, To, TypeOK
  <2>3. /\ \A d \in Caller : Row(d)' = Row(d) /\ (Mistakable(d)' <=> Mistakable(d))
        /\ \A d \in Caller \ {c} :
             stage'[d] = stage[d] /\ answer'[d] = answer[d] /\ found'[d] = found[d]
    BY <2>1, <2>2 DEF Row, Mistakable, TypeOK
  <2>4. Place'
    BY <2>1, <2>2, <2>3 DEF Accounts, Place
  <2>5. RowsUnique' /\ \A u \in users : u.owner \in Caller
    BY <2>1, <2>3 DEF Accounts, RowsUnique, TypeOK
  <2>6. RowsOwned'
    BY <2>1, <2>3, <2>5 DEF Accounts, RowsOwned
  <2>7. Row(c).owner = c /\ Row(c).name = ask[c].name /\ Row(c).email = ask[c].email
    BY DEF Row
  <2>8. ASSUME NEW u \in users, u.owner # c,
               NEW x \in {ask[c].name, ask[c].email}, x \in {u.name, u.email}
        PROVE  Mistakable(c)
    <3>1. u.name # ask[c].name /\ u.email # ask[c].email
      BY <2>1, <2>7, <2>8 DEF Accounts, RowsUnique
    <3>. QED  BY <2>8, <3>1 DEF Mistakable
  <2>9. /\ stage'[c] = "comparing" /\ found'[c] # c => Mistakable(c)
        /\ stage'[c] = "done" /\ answer'[c] = "401" => Mistakable(c)
    <3>1. CASE ValidatePassword(c)
      BY <3>1, <2>2 DEF ValidatePassword, Decide, To, Accounts, Logins, TypeOK
    <3>2. CASE FindUser(c)
      <4>1. \A x \in {ask[c].name, ask[c].email} : Row(c) \in Holders(x)
        BY <2>1, <2>7 DEF Holders
      <4>2. \A x \in {ask[c].name, ask[c].email} : \A u \in Holders(x) :
              u.owner # c => Mistakable(c)
        BY <2>8 DEF Holders
      <4>3. CASE Fails(c, "statement")
        BY <3>2, <4>3 DEF Fails, Decide, To, TypeOK
      <4>4. CASE \E x \in {ask[c].name, ask[c].email} : \E u \in Holders(x) :
                   /\ found' = [found EXCEPT ![c] = u.owner]
                   /\ To(c, "comparing")
        BY <4>2, <4>4 DEF To, TypeOK
      <4>. QED  BY <3>2, <4>1, <4>3, <4>4 DEF FindUser
    <3>. QED  BY <1>6, <3>1, <3>2
  <2>10. Logins'
    BY <2>1, <2>3, <2>9 DEF Accounts, Logins
  <2>. QED  BY <2>4, <2>5, <2>6, <2>10 DEF Accounts
<1>7. CASE Restart
  <2>1. /\ UNCHANGED <<users, broken, created, ask, answer, found>>
        /\ \A d \in Caller : stage'[d] = IF stage[d] \in InFlight THEN "lost" ELSE stage[d]
    BY <1>7 DEF Restart
  <2>2. \A d \in Caller : Row(d)' = Row(d) /\ (Mistakable(d)' <=> Mistakable(d))
    BY <2>1 DEF Row, Mistakable
  <2>3. Place'
    BY <2>1, <2>2 DEF Accounts, Place, InFlight
  <2>4. RowsUnique' /\ \A u \in users : u.owner \in Caller
    BY <2>1, <2>2 DEF Accounts, RowsUnique, TypeOK
  <2>5. RowsOwned'
    BY <2>1, <2>4 DEF Accounts, RowsOwned, InFlight
  <2>6. Logins'
    BY <2>1, <2>2 DEF Accounts, Logins, InFlight
  <2>. QED  BY <2>3, <2>4, <2>5, <2>6 DEF Accounts
<1>. QED  BY <1>1, <1>2, <1>3, <1>4, <1>5, <1>6, <1>7 DEF Next, Start, Continue

-----------------------------------------------------------------------------
(* Request windows                                                         *)

Peers(g) ==
  {f \in counted : /\ Pair(f.by) = Pair(g.by) /\ f.life = g.life
                   /\ MinuteOf(f.at) = MinuteOf(g.at)}
LatePeers(g) == {f \in Peers(g) : f.at # MinuteOf(f.at)}

LEMMA KeptByPeers ==
  WindowKept <=> \A g \in counted : /\ Cardinality(LatePeers(g)) <= Limit
                                    /\ Cardinality(Peers(g)) <= 2 * Limit - 1
BY DEF WindowKept, Peers, LatePeers

(* As long as nothing is counted and the clock stands still.               *)
LEMMA FellowsStill ==
  ASSUME UNCHANGED <<counted, ask, life, now>>, WindowKept
  PROVE  /\ WindowKept' /\ \A p : Fellows(p)' = Fellows(p)
         /\ \A c \in Caller : Pair(c)' = Pair(c)
<1>1. \A c : Pair(c)' = Pair(c)
  BY DEF Pair
<1>2. \A p : Fellows(p)' = Fellows(p)
  BY <1>1 DEF Fellows
<1>3. \A g : Peers(g)' = Peers(g) /\ LatePeers(g)' = LatePeers(g)
  BY <1>1 DEF Peers, LatePeers
<1>. QED  BY <1>1, <1>2, <1>3, KeptByPeers DEF WindowKept, Peers, LatePeers

LEMMA AccountedStill ==
  ASSUME UNCHANGED <<counted, ask, life, now>>, NEW c \in Caller,
         Fellows(Pair(c))' = Fellows(Pair(c)), Pair(c)' = Pair(c),
         InWindow(Pair(c))' <=> InWindow(Pair(c)),
         InWindow(Pair(c)) => tracker'[Pair(c)] = tracker[Pair(c)],
         Accounted(Pair(c))
  PROVE  Accounted(Pair(c))'
<1>. DEFINE p == Pair(c)
<1>1. First(p)' = First(p) /\ Later(p)' = Later(p) /\ NextMinute' = NextMinute
  BY DEF First, Later, NextMinute
<1>. QED  BY <1>1 DEF Accounted, WholeMinute, OldWindow, AfterOld, NoneYet

(* The two parts of a minute.                                              *)
LEMMA Parts ==
  ASSUME NEW F, IsFiniteSet(F), NEW t
  PROVE  LET S == {f \in F : f.at = t}
             R == {f \in F : f.at # t}
         IN  /\ IsFiniteSet(S) /\ IsFiniteSet(R)
             /\ Cardinality(S) \in Nat /\ Cardinality(R) \in Nat /\ Cardinality(F) \in Nat
             /\ Cardinality(F) <= Cardinality(S) + Cardinality(R)
             /\ Cardinality(R) <= Cardinality(F)
<1>. DEFINE S == {f \in F : f.at = t}
            R == {f \in F : f.at # t}
<1>1. S \subseteq F /\ R \subseteq F /\ F = S \union R
  OBVIOUS
<1>. HIDE DEF S, R
<1>2. IsFiniteSet(S) /\ IsFiniteSet(R)
  BY <1>1, FS_Subset
<1>3. /\ Cardinality(S) \in Nat /\ Cardinality(R) \in Nat /\ Cardinality(F) \in Nat
      /\ IsFiniteSet(S \intersect R) /\ Cardinality(S \intersect R) \in Nat
  BY <1>1, <1>2, FS_CardinalityType, FS_Subset, FS_Intersection
<1>4. Cardinality(F) = Cardinality(S) + Cardinality(R) - Cardinality(S \intersect R)
  BY <1>1, <1>2, FS_Union
<1>5. Cardinality(R) <= Cardinality(F)
  BY <1>1, FS_Subset
<1>. QED  BY <1>2, <1>3, <1>4, <1>5 DEF S, R

(* A request that is let through, the window it falls into, and the        *)
(* requests of its minute.                                                 *)
LEMMA AdmitAccounts ==
  ASSUME TypeOK, Windows, NEW c \in Caller, Admit(c)
  PROVE  /\ Accounted(Pair(c))' /\ (tracker[Pair(c)].count)' > 0
         /\ Cardinality(Later(Pair(c))') <= Limit
         /\ Cardinality(Fellows(Pair(c))') <= 2 * Limit - 1
<1>. DEFINE n == [by |-> c, at |-> now, life |-> life,
                  late |-> KeyOf(ask[c].hash).id \in named]
            w == [Window(c) EXCEPT !.count = @ + 1]
            p == Pair(c)
            F == Fellows(p)
            B == MinuteOf(now)
<1>1. /\ UNCHANGED <<ask, life, now>> /\ Track(c, w) /\ ~Full(Window(c))
      /\ counted' = counted \union {n}
  BY DEF Admit
<1>2. n.by = c /\ n.at = now /\ n.life = life
  OBVIOUS
<1>3. /\ w.count = Window(c).count + 1 /\ w.reset = Window(c).reset
      /\ Window(c).count \in Nat /\ w.count <= Limit /\ Limit \in Nat /\ Limit >= 1
      /\ w.reset \in Nat /\ now \in Nat /\ life \in Nat
  BY <1>1, WindowType, LimitAssumption DEF Full, TypeOK
<1>. HIDE DEF n, w
<1>4. /\ \A d : Pair(d)' = Pair(d)
      /\ NextMinute' = NextMinute /\ MinuteOf(now)' = B
      /\ NextMinute \in Nat /\ NextMinute > now /\ B \in Nat /\ B <= now
  BY <1>1, <1>3, NextMinuteLater, MinuteBounds DEF Pair, NextMinute
<1>5. Fellows(p)' = F \union {n}
  BY <1>1, <1>2, <1>4 DEF Fellows
<1>6. /\ p' = p /\ p \in DOMAIN tracker' /\ tracker'[p] = w
  BY <1>1, <1>4 DEF Track
<1>7. InWindow(p)' <=> ~(now > w.reset)
  BY <1>1, <1>4, <1>6 DEF InWindow, Over
<1>8. /\ InWindow(p) => Window(c) = tracker[p]
      /\ ~InWindow(p) => Window(c) = [count |-> 0, reset |-> NextMinute]
  BY DEF InWindow, Window
<1>9. /\ IsFiniteSet(F) /\ Cardinality(F) \in Nat
      /\ IsFiniteSet(First(p)) /\ Cardinality(First(p)) \in Nat
      /\ IsFiniteSet(Later(p)) /\ Cardinality(Later(p)) \in Nat
      /\ Cardinality(F) <= Cardinality(First(p)) + Cardinality(Later(p))
      /\ Cardinality(Later(p)) <= Cardinality(F)
  <2>1. IsFiniteSet(F)
    BY FS_Subset DEF Windows, Fellows
  <2>. QED  BY <2>1, Parts DEF First, Later
<1>10. /\ IsFiniteSet(F \union {n}) /\ Cardinality(F \union {n}) \in Nat
       /\ Cardinality(F \union {n}) <= Cardinality(F) + 1
       /\ Cardinality(Later(p) \union {n}) <= Cardinality(Later(p)) + 1
       /\ Cardinality(Later(p) \union {n}) \in Nat
  <2>1. ASSUME NEW S, IsFiniteSet(S)
        PROVE  /\ IsFiniteSet(S \union {n}) /\ Cardinality(S \union {n}) \in Nat
               /\ Cardinality(S \union {n}) <= Cardinality(S) + 1
    <3>1. IsFiniteSet(S \union {n}) /\ Cardinality(S) \in Nat
      BY <2>1, FS_AddElement, FS_CardinalityType
    <3>2. Cardinality(S \union {n}) = Cardinality(S) \/ Cardinality(S \union {n}) = Cardinality(S) + 1
      BY <2>1, FS_AddElement
    <3>. QED  BY <3>1, <3>2
  <2>. HIDE DEF F
  <2>. QED  BY <1>9, <2>1
<1>11. /\ Cardinality(Later(p)') \in Nat /\ Cardinality(First(p)') \in Nat
       /\ Cardinality(Fellows(p)') <= Cardinality(First(p)') + Cardinality(Later(p)')
       /\ Cardinality(Later(p)') <= Cardinality(Fellows(p)')
  BY <1>4, <1>5, <1>10, Parts DEF First, Later
<1>12. now > B => First(p)' = First(p) /\ Later(p)' = Later(p) \union {n}
  BY <1>2, <1>4, <1>5 DEF First, Later
<1>13. Accounted(p)
  BY DEF Windows
<1>14. CASE WholeMinute(p) \/ OldWindow(p) \/ NoneYet(p)
  <2>1. /\ Cardinality(Fellows(p)') <= w.count
        /\ WholeMinute(p)' \/ OldWindow(p)'
    <3>1. CASE WholeMinute(p)
      BY <1>3, <1>4, <1>5, <1>6, <1>7, <1>8, <1>9, <1>10, <3>1 DEF WholeMinute
    <3>2. CASE OldWindow(p)
      BY <1>3, <1>4, <1>5, <1>6, <1>7, <1>8, <1>9, <1>10, <3>2 DEF OldWindow, InWindow, Over
    <3>3. CASE NoneYet(p)
      <4>1. Cardinality(F) = 0
        BY <3>3, FS_EmptySet DEF NoneYet
      <4>. QED  BY <1>3, <1>4, <1>5, <1>6, <1>7, <1>8, <1>9, <1>10, <3>3, <4>1
                DEF WholeMinute, NoneYet
    <3>. QED  BY <1>14, <3>1, <3>2, <3>3
  <2>2. Cardinality(Fellows(p)') \in Nat
    BY <1>5, <1>10
  <2>. QED  BY <1>3, <1>4, <1>6, <1>11, <2>1, <2>2 DEF Accounted
<1>15. CASE AfterOld(p)
  <2>1. now > B /\ Cardinality(First(p)) < Limit /\ First(p)' = First(p)
        /\ Later(p)' = Later(p) \union {n}
    BY <1>4, <1>12, <1>15 DEF AfterOld
  <2>2. w.reset = NextMinute /\ Cardinality(Later(p)) <= Window(c).count
    BY <1>3, <1>8, <1>15, FS_EmptySet DEF AfterOld
  <2>3. Cardinality(Later(p)') <= w.count /\ InWindow(p)'
    BY <1>3, <1>4, <1>7, <1>9, <1>10, <2>1, <2>2
  <2>4. AfterOld(p)'
    BY <1>1, <1>4, <1>6, <2>1, <2>2, <2>3 DEF AfterOld
  <2>5. Cardinality(Fellows(p)') \in Nat
    BY <1>5, <1>10
  <2>. QED  BY <1>3, <1>4, <1>6, <1>9, <1>11, <2>1, <2>3, <2>4, <2>5 DEF Accounted
<1>. QED  BY <1>13, <1>14, <1>15 DEF Accounted

(* A request that the limiter refuses changes nothing: its window is on    *)
(* record.                                                                 *)
LEMMA ThrottleStill ==
  ASSUME TypeOK, NEW c \in Caller, Throttle(c)
  PROVE  /\ UNCHANGED <<counted, ask, life, now>> /\ DOMAIN tracker' = DOMAIN tracker
         /\ \A p \in DOMAIN tracker : tracker'[p] = tracker[p]
<1>1. /\ UNCHANGED <<counted, ask, life, now>> /\ Track(c, Window(c)) /\ Full(Window(c))
  BY DEF Throttle, database
<1>2. InWindow(Pair(c)) /\ Window(c) = tracker[Pair(c)]
  BY <1>1, LimitAssumption DEF Full, InWindow, Window
<1>3. DOMAIN tracker \union {Pair(c)} = DOMAIN tracker
  BY <1>2 DEF InWindow
<1>4. tracker' = [p \in DOMAIN tracker |-> tracker[p]]
  BY <1>1, <1>2, <1>3 DEF Track
<1>. QED  BY <1>1, <1>4

(* The clock goes on.                                                      *)
LEMMA TickAccounts ==
  ASSUME TypeOK, Windows, NEW c \in Caller, Tick
  PROVE  Accounted(Pair(c))'
<1>. DEFINE p == Pair(c)
            B == MinuteOf(now)
<1>1. UNCHANGED <<tracker, counted, ask, life>> /\ now' = now + 1 /\ now \in Nat
  BY DEF Tick, TypeOK, process
<1>2. /\ \A d : Pair(d)' = Pair(d)
      /\ p' = p /\ (\A q : q \in DOMAIN tracker' <=> q \in DOMAIN tracker)
      /\ InWindow(p)' <=> p \in DOMAIN tracker /\ ~(now + 1 > tracker[p].reset)
      /\ InWindow(p) <=> p \in DOMAIN tracker /\ ~(now > tracker[p].reset)
      /\ p \in DOMAIN tracker => /\ tracker[p].reset \in Nat /\ tracker[p].count \in Nat
                                 /\ tracker[p].count > 0 /\ tracker[p].count <= Limit
  BY <1>1, LimitAssumption DEF Pair, InWindow, Over, TypeOK, Windows
<1>3. /\ B \in Nat /\ B <= now /\ now < B + MinuteTicks /\ NextMinute = B + MinuteTicks
      /\ MinuteTicks \in Nat \ {0} /\ Limit \in Nat \ {0}
  BY <1>1, MinuteBounds, LimitAssumption DEF NextMinute
<1>4. \A f \in counted : f.at \in Nat /\ f.at <= now
  BY DEF TypeOK, Windows
<1>5. Accounted(p)
  BY DEF Windows
<1>6. CASE MinuteOf(now + 1) = B
  <2>1. /\ Fellows(p)' = Fellows(p) /\ First(p)' = First(p) /\ Later(p)' = Later(p)
        /\ NextMinute' = NextMinute /\ MinuteOf(now)' = B /\ now + 1 < NextMinute
    <3>1. now + 1 < B + MinuteTicks
      BY <1>1, <1>6, MinuteBounds
    <3>2. Fellows(p)' = Fellows(p) /\ MinuteOf(now)' = B
      BY <1>1, <1>2, <1>6 DEF Fellows
    <3>. QED  BY <1>1, <1>3, <3>1, <3>2 DEF First, Later, NextMinute
  <2>2. CASE WholeMinute(p)
    BY <1>1, <1>2, <1>3, <2>1, <2>2 DEF WholeMinute, Accounted
  <2>3. CASE OldWindow(p)
    <3>1. Fellows(p) \subseteq counted /\ IsFiniteSet(Fellows(p))
      BY FS_Subset DEF Windows, Fellows
    <3>2. now = B /\ ~InWindow(p)'
      BY <1>1, <1>2, <1>3, <2>3 DEF OldWindow
    <3>3. Later(p) = {} /\ First(p) = Fellows(p)
      <4>1. \A f \in Fellows(p) : f.at = B
        <5>. TAKE f \in Fellows(p)
        <5>1. f.at \in Nat /\ f.at <= B /\ MinuteOf(f.at) = B
          BY <1>4, <3>1, <3>2 DEF Fellows
        <5>. QED  BY <5>1, MinuteBounds
      <4>. QED  BY <4>1 DEF First, Later
    <3>4. Cardinality(First(p)) < Limit
      BY <1>2, <1>3, <2>3, <3>1, <3>3, FS_CardinalityType DEF OldWindow
    <3>. QED  BY <1>1, <1>2, <1>3, <2>1, <3>2, <3>3, <3>4 DEF AfterOld, Accounted
  <2>4. CASE AfterOld(p)
    <3>1. /\ MinuteOf(now)' < now' /\ Cardinality(First(p)') < Limit
      BY <1>1, <1>3, <2>1, <2>4 DEF AfterOld
    <3>2. CASE InWindow(p)
      BY <1>1, <1>2, <1>3, <2>1, <2>4, <3>1, <3>2 DEF AfterOld, Accounted
    <3>3. CASE ~InWindow(p)
      <4>1. ~InWindow(p)'
        BY <1>1, <1>2, <3>3
      <4>. QED  BY <1>1, <1>2, <2>1, <2>4, <3>1, <3>3, <4>1 DEF AfterOld, Accounted
    <3>. QED  BY <3>2, <3>3
  <2>5. CASE NoneYet(p)
    BY <1>1, <1>2, <2>1, <2>5 DEF NoneYet, Accounted
  <2>. QED  BY <1>5, <2>2, <2>3, <2>4, <2>5 DEF Accounted
<1>7. CASE MinuteOf(now + 1) # B
  <2>1. MinuteOf(now + 1) = now + 1 /\ now + 1 = NextMinute
    BY <1>1, <1>3, <1>7, MinuteGoesOn
  <2>2. Fellows(p)' = {}
    <3>1. ASSUME NEW f \in counted  PROVE MinuteOf(f.at) # now + 1
      BY <1>1, <1>4, <3>1, MinuteMonotone, MinuteBounds
    <3>. QED  BY <1>1, <2>1, <3>1 DEF Fellows
  <2>3. CASE InWindow(p)'
    <3>1. InWindow(p) /\ tracker[p].reset >= now + 1
      BY <1>1, <1>2, <2>3
    <3>2. tracker[p].reset = NextMinute
      BY <1>1, <1>2, <1>3, <1>5, <2>1, <3>1
         DEF Accounted, WholeMinute, OldWindow, AfterOld, NoneYet
    <3>3. OldWindow(p)'
      BY <1>1, <1>2, <2>1, <2>2, <2>3, <3>2, FS_EmptySet DEF OldWindow
    <3>. QED  BY <1>2, <3>3 DEF Accounted
  <2>4. CASE ~InWindow(p)'
    BY <1>2, <2>2, <2>4 DEF Accounted, NoneYet
  <2>. QED  BY <2>3, <2>4
<1>. QED  BY <1>6, <1>7

LEMMA WindowsStep ==
  TypeOK /\ Windows /\ WindowKept /\ [Next]_vars => Windows' /\ WindowKept'
<1>. SUFFICES ASSUME TypeOK, Windows, WindowKept, [Next]_vars
              PROVE  Windows' /\ WindowKept'
  OBVIOUS
<1>. USE DEF process, database, handlers
<1>1. ASSUME UNCHANGED <<counted, ask, life, now>>,
             \A p : InWindow(p)' <=> InWindow(p),
             \A p : InWindow(p) => tracker'[p] = tracker[p],
             \A p \in DOMAIN tracker' : p \in DOMAIN tracker /\ tracker'[p] = tracker[p]
      PROVE  Windows' /\ WindowKept'
  <2>1. WindowKept' /\ \A c \in Caller : /\ Pair(c)' = Pair(c)
                                         /\ Fellows(Pair(c))' = Fellows(Pair(c))
    BY <1>1, FellowsStill DEF Fellows, Pair
  <2>2. \A c \in Caller : Accounted(Pair(c))'
    BY <1>1, <2>1, AccountedStill DEF Windows
  <2>. QED  BY <1>1, <2>1, <2>2 DEF Windows
<1>2. CASE UNCHANGED <<tracker, counted, ask, life, now>>
  BY <1>1, <1>2 DEF InWindow, Over
<1>3. ASSUME NEW c \in Caller, Admit(c)  PROVE Windows' /\ WindowKept'
  <2>. DEFINE n == [by |-> c, at |-> now, life |-> life,
                    late |-> KeyOf(ask[c].hash).id \in named]
              w == [Window(c) EXCEPT !.count = @ + 1]
  <2>1. /\ UNCHANGED <<ask, life, now>> /\ Track(c, w) /\ counted' = counted \union {n}
    BY <1>3 DEF Admit
  <2>2. n.by = c /\ n.at = now /\ n.life = life /\ now \in Nat /\ life \in Nat
    BY DEF TypeOK
  <2>. HIDE DEF n, w
  <2>3. \A d : Pair(d)' = Pair(d)
    BY <2>1 DEF Pair
  <2>4. \A d \in Caller : Pair(d) # Pair(c) => Fellows(Pair(d))' = Fellows(Pair(d))
    BY <2>1, <2>2, <2>3 DEF Fellows
  <2>5. /\ DOMAIN tracker' = DOMAIN tracker \union {Pair(c)}
        /\ \A p \in DOMAIN tracker : p # Pair(c) => tracker'[p] = tracker[p]
    BY <2>1 DEF Track
  <2>6. /\ Accounted(Pair(c))' /\ (tracker[Pair(c)].count)' > 0
        /\ Cardinality(Later(Pair(c))') <= Limit
        /\ Cardinality(Fellows(Pair(c))') <= 2 * Limit - 1
    BY <1>3, AdmitAccounts
  <2>7. ASSUME NEW d \in Caller  PROVE Accounted(Pair(d))'
    <3>1. CASE Pair(d) = Pair(c)
      <4>1. Pair(d)' = Pair(c)'
        BY <2>3, <3>1
      <4>. QED  BY <2>6, <4>1 DEF Accounted, WholeMinute, OldWindow, AfterOld, NoneYet,
                  InWindow, Fellows, First, Later
    <3>2. CASE Pair(d) # Pair(c)
      <4>. DEFINE p == Pair(d)
      <4>1. /\ InWindow(p)' <=> InWindow(p)
            /\ InWindow(p) => tracker'[p] = tracker[p]
        BY <2>1, <2>3, <2>5, <3>2 DEF InWindow, Over
      <4>2. Fellows(p)' = Fellows(p) /\ p' = p /\ Accounted(p)
        BY <2>3, <2>4, <3>2 DEF Windows
      <4>3. First(p)' = First(p) /\ Later(p)' = Later(p) /\ NextMinute' = NextMinute
        BY <2>1, <4>2 DEF First, Later, NextMinute
      <4>. QED  BY <2>1, <4>1, <4>2, <4>3
                DEF Accounted, WholeMinute, OldWindow, AfterOld, NoneYet
    <3>. QED  BY <3>1, <3>2
  <2>8. \A p \in DOMAIN tracker' : tracker'[p].count > 0
    BY <2>3, <2>5, <2>6 DEF Windows
  <2>9. IsFiniteSet(counted') /\ \A f \in counted' : f.at <= now' /\ f.life <= life'
    BY <2>1, <2>2, FS_AddElement DEF Windows
  <2>10. ASSUME NEW g \in counted'
         PROVE  /\ Cardinality(LatePeers(g)') <= Limit
                /\ Cardinality(Peers(g)') <= 2 * Limit - 1
    <3>1. CASE Pair(g.by) = Pair(c) /\ g.life = life /\ MinuteOf(g.at) = MinuteOf(now)
      <4>1. Peers(g)' = Fellows(Pair(c))'
        BY <2>1, <2>2, <2>3, <3>1 DEF Peers, Fellows
      <4>2. LatePeers(g)' = Later(Pair(c))'
        BY <2>1, <4>1, <3>1 DEF Peers, LatePeers, Later
      <4>. QED  BY <2>6, <4>1, <4>2
    <3>2. CASE ~(Pair(g.by) = Pair(c) /\ g.life = life /\ MinuteOf(g.at) = MinuteOf(now))
      <4>1. g \in counted /\ Peers(g)' = Peers(g)
        BY <2>1, <2>2, <2>3, <3>2 DEF Peers
      <4>2. LatePeers(g)' = LatePeers(g)
        BY <4>1 DEF LatePeers
      <4>. QED  BY <4>1, <4>2, KeptByPeers
    <3>. QED  BY <3>1, <3>2
  <2>11. WindowKept'
    BY <2>10 DEF WindowKept, Peers, LatePeers
  <2>. QED  BY <2>7, <2>8, <2>9, <2>11 DEF Windows
<1>4. CASE CleanupRateLimitTracker
  <2>1. /\ UNCHANGED <<counted, ask, life, now>>
        /\ tracker' = [p \in {q \in DOMAIN tracker : ~Over(tracker[q])} |-> tracker[p]]
    BY <1>4 DEF CleanupRateLimitTracker
  <2>. QED  BY <1>1, <2>1 DEF InWindow, Over
<1>5. CASE Restart
  <2>1. UNCHANGED <<counted, ask, now>> /\ life' = life + 1 /\ DOMAIN tracker' = {}
    BY <1>5 DEF Restart
  <2>2. life \in Nat /\ \A f \in counted : f.life \in Nat /\ f.life <= life
    BY BoundsAssumption DEF TypeOK, Windows
  <2>3. \A d : Pair(d)' = Pair(d)
    BY <2>1 DEF Pair
  <2>4. \A d : Fellows(Pair(d))' = {} /\ ~InWindow(Pair(d))'
    BY <2>1, <2>2, <2>3 DEF Fellows, InWindow
  <2>5. \A g : Peers(g)' = Peers(g) /\ LatePeers(g)' = LatePeers(g)
    BY <2>1, <2>3 DEF Peers, LatePeers
  <2>6. WindowKept'
    BY <2>1, <2>5, KeptByPeers DEF WindowKept, Peers, LatePeers
  <2>. QED  BY <2>1, <2>2, <2>4, <2>6 DEF Windows, Accounted, NoneYet
<1>6. CASE Tick
  <2>1. UNCHANGED <<tracker, counted, ask, life>> /\ now' = now + 1 /\ now \in Nat
    BY <1>6 DEF Tick, TypeOK
  <2>2. \A d : Pair(d)' = Pair(d)
    BY <2>1 DEF Pair
  <2>3. \A g : Peers(g)' = Peers(g) /\ LatePeers(g)' = LatePeers(g)
    BY <2>1, <2>2 DEF Peers, LatePeers
  <2>4. WindowKept'
    BY <2>1, <2>3, KeptByPeers DEF WindowKept, Peers, LatePeers
  <2>5. \A c \in Caller : Accounted(Pair(c))'
    BY <1>6, TickAccounts
  <2>6. \A f \in counted : f.at <= now + 1
    BY <2>1 DEF Windows, TypeOK
  <2>. QED  BY <2>1, <2>4, <2>5, <2>6 DEF Windows
<1>7. ASSUME NEW c \in Caller,
             \/ Refuse(c) \/ Audited(c) \/ CheckExisting(c) \/ SaveUser(c) \/ SaveUserFails(c)
             \/ Registered(c) \/ FindUser(c) \/ ValidatePassword(c)
      PROVE  UNCHANGED <<tracker, counted, ask, life, now>>
  BY <1>7 DEF Refuse, Audited, CheckExisting, SaveUser, SaveUserFails, Registered,
              FindUser, ValidatePassword
<1>8. \/ \E h \in NewKey, id \in KeyId : AddApiKey(h, id)
      \/ \E id \in KeyId : RevokeApiKey(id)
      \/ UNCHANGED vars
      => UNCHANGED <<tracker, counted, ask, life, now>>
  BY DEF AddApiKey, RevokeApiKey, vars
<1>9. ASSUME NEW c \in Caller, Throttle(c)  PROVE Windows' /\ WindowKept'
  <2>1. /\ UNCHANGED <<counted, ask, life, now>> /\ DOMAIN tracker' = DOMAIN tracker
        /\ \A p \in DOMAIN tracker : tracker'[p] = tracker[p]
    BY <1>9, ThrottleStill
  <2>. QED  BY <1>1, <2>1 DEF InWindow, Over
<1>. QED  BY <1>2, <1>3, <1>4, <1>5, <1>6, <1>7, <1>8, <1>9 DEF Next, Start, Continue

-----------------------------------------------------------------------------
(* Revocations                                                             *)

LEMMA RevokedStep ==
  /\ TypeOK /\ Windows /\ NamedRevoked /\ RevokedStaysOut
  /\ [Next]_vars
  => NamedRevoked' /\ RevokedStaysOut'
<1>. SUFFICES ASSUME TypeOK, Windows, NamedRevoked, RevokedStaysOut, [Next]_vars
              PROVE  NamedRevoked' /\ RevokedStaysOut'
  OBVIOUS
<1>. USE DEF process, database, handlers
<1>1. CASE UNCHANGED <<keys, named, counted, ask, life>>
  BY <1>1 DEF NamedRevoked, RevokedStaysOut
<1>2. ASSUME NEW c \in Caller, Admit(c)  PROVE NamedRevoked' /\ RevokedStaysOut'
  <2>. DEFINE n == [by |-> c, at |-> now, life |-> life,
                    late |-> KeyOf(ask[c].hash).id \in named]
  <2>1. /\ UNCHANGED <<keys, named, ask, life>> /\ counted' = counted \union {n}
        /\ Known(ask[c].hash) /\ KeyOf(ask[c].hash).active
    BY <1>2 DEF Admit, Acceptable
  <2>2. n.by = c /\ (n.late <=> KeyOf(ask[c].hash).id \in named)
    OBVIOUS
  <2>. HIDE DEF n
  <2>3. PICK j \in DOMAIN keys : /\ KeyOf(ask[c].hash) = keys[j]
                                 /\ keys[j].hash = ask[c].hash
    BY <2>1, KeyFound
  <2>4. ASSUME n.late
        PROVE  \E i \in DOMAIN keys : i < j /\ keys[i].id = keys[j].id
    <3>1. PICK i \in DOMAIN keys :
            /\ keys[i].id = keys[j].id /\ ~keys[i].active
            /\ \A k \in 1 .. i - 1 : keys[k].id # keys[j].id
      BY <2>2, <2>3, <2>4 DEF NamedRevoked
    <3>2. i # j /\ j \notin 1 .. i - 1 /\ i \in Nat /\ j \in Nat /\ j >= 1
      BY <2>1, <2>3, <3>1 DEF TypeOK
    <3>. QED  BY <3>1, <3>2
  <2>. QED  BY <2>1, <2>2, <2>3, <2>4 DEF NamedRevoked, RevokedStaysOut
<1>3. ASSUME NEW h \in NewKey, NEW id \in KeyId, AddApiKey(h, id)
      PROVE  NamedRevoked' /\ RevokedStaysOut'
  <2>. DEFINE new == [hash |-> h, id |-> id, active |-> TRUE]
              K == [hash : Hash, id : KeyId, active : BOOLEAN]
  <2>1. keys \in Seq(K) /\ new \in K
    BY DEF TypeOK, Hash
  <2>2. UNCHANGED <<named, counted, ask, life>> /\ keys' = Append(keys, new)
    BY <1>3 DEF AddApiKey
  <2>. HIDE DEF new, K
  <2>3. /\ DOMAIN keys \subseteq DOMAIN keys'
        /\ \A i \in DOMAIN keys : keys'[i] = keys[i]
        /\ \A i \in DOMAIN keys : \A j \in 1 .. i - 1 : j \in DOMAIN keys
    BY <2>1, <2>2
  <2>. QED  BY <2>2, <2>3 DEF NamedRevoked, RevokedStaysOut
<1>4. ASSUME NEW id \in KeyId, RevokeApiKey(id)
      PROVE  NamedRevoked' /\ RevokedStaysOut'
  <2>1. PICK r \in DOMAIN keys :
          /\ keys[r].id = id
          /\ \A j \in 1 .. r - 1 : keys[j].id # id
          /\ keys' = [keys EXCEPT ![r].active = FALSE]
    BY <1>4 DEF RevokeApiKey
  <2>2. UNCHANGED <<counted, ask, life>> /\ named' = named \union {id}
    BY <1>4 DEF RevokeApiKey
  <2>. DEFINE K == [hash : Hash, id : KeyId, active : BOOLEAN]
  <2>3. \A i \in DOMAIN keys : keys[i] \in K
    <3>1. keys \in Seq(K)
      BY DEF TypeOK
    <3>. HIDE DEF K
    <3>. QED  BY <3>1
  <2>4. /\ DOMAIN keys' = DOMAIN keys
        /\ \A i \in DOMAIN keys : /\ keys'[i].hash = keys[i].hash
                                  /\ keys'[i].id = keys[i].id
                                  /\ ~keys[i].active => ~keys'[i].active
        /\ ~keys'[r].active
    BY <2>1, <2>3
  <2>5. \A i \in DOMAIN keys : \A j \in 1 .. i - 1 : j \in DOMAIN keys
    BY DEF TypeOK
  <2>. QED  BY <2>1, <2>2, <2>4, <2>5 DEF NamedRevoked, RevokedStaysOut
<1>5. CASE Restart
  <2>1. UNCHANGED <<counted, ask>> /\ life' = life + 1 /\ named' = {}
    BY <1>5 DEF Restart
  <2>2. life \in Nat /\ \A g \in counted : g.life \in Nat /\ g.life <= life
    BY BoundsAssumption DEF TypeOK, Windows
  <2>. QED  BY <2>1, <2>2 DEF NamedRevoked, RevokedStaysOut
<1>6. ASSUME NEW c \in Caller,
             \/ Refuse(c) \/ Throttle(c) \/ Audited(c) \/ CheckExisting(c) \/ SaveUser(c)
             \/ SaveUserFails(c) \/ Registered(c) \/ FindUser(c) \/ ValidatePassword(c)
      PROVE  UNCHANGED <<keys, named, counted, ask, life>>
  BY <1>6 DEF Refuse, Throttle, Audited, CheckExisting, SaveUser, SaveUserFails,
              Registered, FindUser, ValidatePassword
<1>7. CleanupRateLimitTracker \/ Tick \/ UNCHANGED vars
      => UNCHANGED <<keys, named, counted, ask, life>>
  BY DEF CleanupRateLimitTracker, Tick, vars
<1>. QED  BY <1>1, <1>2, <1>3, <1>4, <1>5, <1>6, <1>7 DEF Next, Start, Continue

-----------------------------------------------------------------------------
(* Theorems                                                                *)

LEMMA AccessStep == AccessInv /\ [Next]_vars => AccessInv'
BY TypeStep, AccountsStep, WindowsStep, RevokedStep DEF AccessInv, Accounts

(* The inductive invariant holds in every reachable state.                 *)
THEOREM AccessInvariant == Spec => []AccessInv
BY InitAccess, AccessStep, PTL DEF Spec

(* Every variable of the key manager and of the accounts is well typed,    *)
(* and no window counts more than the limit.                               *)
THEOREM AccessTyped == Spec => []TypeOK
<1>1. AccessInv => TypeOK
  BY DEF AccessInv
<1>. QED  BY <1>1, AccessInvariant, PTL

(* After the first instant of a minute a key is let through at most as     *)
(* often as its limit says, and in all of it less than twice as often, for *)
(* any limit and any number of callers (validateApiKey and the cleanup).   *)
THEOREM LimitKept == Spec => []WindowKept
<1>1. AccessInv => WindowKept
  BY DEF AccessInv
<1>. QED  BY <1>1, AccessInvariant, PTL

(* A request with a revoked id is let through only if several keys have    *)
(* that id (revokeApiKey).                                                 *)
THEOREM RevocationHolds == Spec => []RevokedStaysOut
<1>1. AccessInv => RevokedStaysOut
  BY DEF AccessInv
<1>. QED  BY <1>1, AccessInvariant, PTL

(* Who was told 201 has a row, two never have the same name or address,    *)
(* and who was told otherwise has none unless the answer of the database   *)
(* was lost (register).                                                    *)
THEOREM RegistrationsAnswered == Spec => []AnswersMatchRows
<1>1. AccessInv => AnswersMatchRows
  <2>. SUFFICES ASSUME AccessInv  PROVE AnswersMatchRows
    OBVIOUS
  <2>1. /\ created \subseteq Caller /\ \A c \in created : Row(c) \in users
        /\ \A c \in Caller : Row(c).owner = c /\ Row(c).name = ask[c].name
                             /\ Row(c).email = ask[c].email
    BY DEF AccessInv, Accounts, Place, TypeOK, Row
  <2>2. CreatedOnce
    BY <2>1 DEF AccessInv, Accounts, RowsUnique, CreatedOnce
  <2>. QED  BY <2>1, <2>2 DEF AccessInv, Accounts, RowsOwned, AnswersMatchRows
<1>. QED  BY <1>1, AccessInvariant, PTL

(* Who was told 201 can log in by its name or its address, unless another  *)
(* account's name is its address or the reverse (login).                   *)
THEOREM OwnersLogIn == Spec => []LoginFindsOwner
<1>1. AccessInv => LoginFindsOwner
  BY DEF AccessInv, Accounts, Logins, LoginFindsOwner, TypeOK
<1>. QED  BY <1>1, AccessInvariant, PTL

=============================================================================
