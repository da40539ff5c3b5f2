------------------------ MODULE SessionTableProofs ------------------------
(***************************************************************************)
(* When entries leave the session table: for any number of entries and     *)
(* requests, any timeouts and any period of the sweeper.                   *)
(***************************************************************************)
EXTENDS SessionTable, TLAPS

\* An entry whose ages are not bounded by Cap.
AnyEntry == [keyed: BOOLEAN, pending: BOOLEAN, age: Nat, rest: Nat]

\* How old an entry can be when the last sweep was n ticks ago.
YoungFor(e, n) ==
    IF e.pending
    THEN e.age <= PendingTTL + n
    ELSE e.rest <= loosest.idle + n /\ e.age <= loosest.max + n

Typed ==
    /\ idle \in Nat /\ max \in Nat
    /\ loosest \in [idle: Nat, max: Nat]
    /\ due \in 0 .. SweepEvery
    /\ DOMAIN req = Req /\ DOMAIN tbl = Sess
    /\ \A s \in Sess : tbl[s] \in AnyEntry \cup {Nil}

\* The age of an entry is bounded by the time since the last sweep, which is what
\* the next sweep needs to find it in time.
AgeInv == Typed /\ \A s \in Sess : tbl[s] # Nil => YoungFor(tbl[s], due)

\* The greater and the lesser of two numbers.
LEMMA MaxOfTwo ==
    ASSUME NEW a \in Nat, NEW b \in Nat
    PROVE  Max({a, b}) \in Nat /\ Max({a, b}) >= a /\ Max({a, b}) >= b
<1>1. \E x \in {a, b} : \A y \in {a, b} : x >= y
    OBVIOUS
<1> QED BY <1>1 DEF Max

\* A new entry and a request without a session.
LEMMA Fresh ==
    ASSUME NEW k \in BOOLEAN, NEW p \in BOOLEAN, Typed
    PROVE  /\ NewEntry(k, p) \in AnyEntry /\ NewEntry(k, p) # Nil
           /\ YoungFor(NewEntry(k, p), due)
BY TableAssumption DEF NewEntry, AnyEntry, YoungFor, Typed

\* A step that leaves every entry as it is, removes it or makes it younger.
LEMMA AgeKept ==
    ASSUME AgeInv, DOMAIN tbl' = Sess, DOMAIN req' = Req, UNCHANGED <<idle, max, due, loosest>>,
           \A s \in Sess : \/ tbl'[s] = tbl[s] \/ tbl'[s] = Nil
                           \/ tbl'[s] \in AnyEntry /\ YoungFor(tbl'[s], due)
    PROVE  AgeInv'
BY DEF AgeInv, Typed, YoungFor

\* A tick makes an entry one tick older at most.
LEMMA OneOlder ==
    ASSUME NEW e \in AnyEntry
    PROVE  /\ Older(e) \in AnyEntry /\ Older(e).pending = e.pending
           /\ Older(e).age <= e.age + 1 /\ Older(e).rest <= e.rest + 1
<1>1. \A n \in Nat : Later(n) \in Nat /\ Later(n) <= n + 1
    BY DEF Later
<1>2. e.age \in Nat /\ e.rest \in Nat
    BY DEF AnyEntry
<1>3. Older(e) = [e EXCEPT !.age = Later(e.age), !.rest = Later(e.rest)]
    BY DEF Older
<1>4. /\ Older(e).age = Later(e.age) /\ Older(e).rest = Later(e.rest)
      /\ Older(e).pending = e.pending
    BY <1>3 DEF AnyEntry
<1>5. Older(e) \in AnyEntry
    BY <1>1, <1>2, <1>3 DEF AnyEntry
<1> QED BY <1>1, <1>2, <1>4, <1>5

\* What a handler does to the table.
LEMMA AgeHandler == ASSUME AgeInv, NEW r \in Req, Handler(r) PROVE AgeInv'
<1> USE DEF AgeInv, Typed
<1>1. ASSUME NEW s \in Sess, Preauth(r, s) PROVE AgeInv'
    BY <1>1, Fresh, AgeKept DEF Preauth
<1>2. ASSUME NEW s \in Sess, NEW t \in BOOLEAN, Get(r, s, t) PROVE AgeInv'
  <2>1. Refreshed(tbl[s]) \in AnyEntry /\ YoungFor(Refreshed(tbl[s]), due)
    BY <1>2 DEF Get, Refreshed, AnyEntry, YoungFor
  <2> QED BY <1>2, <2>1, AgeKept DEF Get
<1>3. CASE Done(r)
    BY <1>3, AgeKept DEF Done
<1>4. CASE Delete(r)
    BY <1>4, AgeKept DEF Delete
<1>5. CASE Promote(r)
    BY <1>5, Fresh, AgeKept DEF Promote
<1>6. ASSUME NEW n \in Sess, NEW p \in BOOLEAN, Login(r, n, p) PROVE AgeInv'
    BY <1>6, Fresh, AgeKept DEF Login
<1>7. ASSUME NEW i \in IdleValues, NEW m \in MaxValues, SetTimeouts(r, i, m) PROVE AgeInv'
  <2>1. i \in Nat /\ m \in Nat
    BY TableAssumption
  <2>2. /\ loosest'.idle \in Nat /\ loosest'.max \in Nat
        /\ loosest'.idle >= loosest.idle /\ loosest'.max >= loosest.max
        /\ loosest' \in [idle: Nat, max: Nat]
    BY <1>7, <2>1, MaxOfTwo DEF SetTimeouts
  <2>3. \A s \in Sess : tbl[s] # Nil => YoungFor(tbl[s], due)'
    BY <1>7, <2>2 DEF SetTimeouts, YoungFor, AnyEntry
  <2> QED BY <1>7, <2>1, <2>2, <2>3 DEF SetTimeouts
<1> QED BY <1>1, <1>2, <1>3, <1>4, <1>5, <1>6, <1>7 DEF Handler

\* The sweep removes what a tick later would be too old.
LEMMA AgeStep == AgeInv /\ [Next]_vars => AgeInv'
<1> SUFFICES ASSUME AgeInv, [Next]_vars PROVE AgeInv'
    OBVIOUS
<1>1. ASSUME NEW s \in Sess, GetExpired(s) PROVE AgeInv'
    BY <1>1, AgeKept DEF GetExpired, AgeInv, Typed
<1>2. CASE EvictExpired
  <2>1. \A s \in Sess : tbl'[s] = IF tbl[s] # Nil /\ expired(tbl[s]) THEN Nil ELSE tbl[s]
    BY <1>2 DEF EvictExpired
  <2>2. loosest' = [idle |-> idle, max |-> max] /\ due' = 0
    BY <1>2 DEF EvictExpired
  <2>3. ASSUME NEW s \in Sess, tbl'[s] # Nil PROVE YoungFor(tbl[s], due)'
    <3>1. tbl'[s] = tbl[s] /\ ~expired(tbl[s]) /\ tbl[s] \in AnyEntry
      BY <2>1, <2>3 DEF AgeInv, Typed
    <3> QED BY <2>2, <3>1, TableAssumption DEF expired, YoungFor, AnyEntry, AgeInv, Typed
  <2> QED BY <1>2, <2>1, <2>2, <2>3 DEF EvictExpired, AgeInv, Typed
<1>3. CASE Tick
  <2>1. \A s \in Sess : tbl'[s] = IF tbl[s] = Nil THEN Nil ELSE Older(tbl[s])
    BY <1>3 DEF Tick
  <2>2. /\ due' = due + 1 /\ due < SweepEvery
        /\ UNCHANGED <<idle, max, req, loosest>> /\ DOMAIN tbl' = Sess
    BY <1>3 DEF Tick
  <2>3. ASSUME NEW s \in Sess, tbl[s] # Nil
        PROVE  tbl'[s] \in AnyEntry /\ YoungFor(tbl[s], due)'
    <3>1. /\ Older(tbl[s]) \in AnyEntry /\ Older(tbl[s]).pending = tbl[s].pending
          /\ Older(tbl[s]).age <= tbl[s].age + 1 /\ Older(tbl[s]).rest <= tbl[s].rest + 1
      BY <2>3, OneOlder DEF AgeInv, Typed
    <3> QED BY <2>1, <2>2, <2>3, <3>1, TableAssumption DEF YoungFor, AnyEntry, AgeInv, Typed
  <2> QED BY <2>1, <2>2, <2>3, TableAssumption DEF AgeInv, Typed
<1>4. CASE UNCHANGED vars
    BY <1>4, AgeKept DEF vars, AgeInv, Typed
<1> QED BY <1>1, <1>2, <1>3, <1>4, AgeHandler DEF Next

LEMMA AgeInit == Init => AgeInv
BY TableAssumption DEF Init, AgeInv, Typed

\* Whatever requests, logins and changes of the timeouts run beside the sweeper, an
\* entry is gone at the latest one sweep after its timeout.
THEOREM KeysScrubbedInTime == Spec => []ScrubbedInTime
<1>1. AgeInv => ScrubbedInTime
    BY TableAssumption DEF AgeInv, Typed, YoungFor, ScrubbedInTime, AnyEntry
<1> QED BY <1>1, AgeInit, AgeStep, PTL DEF Spec

\* An entry that disappears within the timeouts in force does so because a handler
\* that holds it locks it or logs in anew: no sweep, no Get and no change of the
\* settings removes it.
THEOREM NobodyLoggedOutEarly == Spec => NoEarlyEviction
<1> DEFINE Early(s) ==
             /\ tbl[s] # Nil /\ tbl'[s] = Nil
             /\ IF tbl[s].pending THEN tbl[s].age <= PendingTTL
                                  ELSE tbl[s].rest <= idle /\ tbl[s].age <= max
           Holder(s) == \E r \in Req : req[r].sess = s /\ req'[r] = NoReq
<1>1. AgeInv /\ [Next]_vars => [\A s \in Sess : Early(s) => Holder(s)]_vars
  <2> SUFFICES ASSUME AgeInv, Next, NEW s \in Sess, Early(s) PROVE Holder(s)
    BY DEF vars
  <2>0. tbl[s] \in AnyEntry /\ ~expired(tbl[s]) /\ DOMAIN req = Req /\ DOMAIN tbl = Sess
    BY TableAssumption DEF AgeInv, Typed, expired, AnyEntry
  <2>1. ASSUME NEW t \in Sess, GetExpired(t) PROVE FALSE
    BY <2>0, <2>1 DEF GetExpired
  <2>2. CASE EvictExpired
    BY <2>0, <2>2 DEF EvictExpired
  <2>3. CASE Tick
    <3>1. Older(tbl[s]) \in AnyEntry
      BY <2>0, OneOlder
    <3> QED BY <2>3, <3>1, TableAssumption DEF Tick, AnyEntry
  <2>4. ASSUME NEW r \in Req, Handler(r) PROVE Holder(s)
    <3>1. ASSUME NEW t \in Sess, Preauth(r, t) PROVE FALSE
      BY <2>0, <3>1 DEF Preauth, Free
    <3>2. ASSUME NEW t \in Sess, NEW p \in BOOLEAN, Get(r, t, p) PROVE FALSE
      <4>1. Refreshed(tbl[s]) \in AnyEntry
        BY <2>0 DEF Refreshed, AnyEntry
      <4> QED BY <2>0, <3>2, <4>1, TableAssumption DEF Get, AnyEntry
    <3>3. CASE Delete(r) \/ Promote(r)
      BY <2>0, <3>3 DEF Delete, Promote
    <3>4. ASSUME NEW n \in Sess, NEW p \in BOOLEAN, Login(r, n, p) PROVE Holder(s)
      BY <2>0, <3>4 DEF Login, Free
    <3>5. ~Done(r) /\ \A i \in IdleValues, m \in MaxValues : ~SetTimeouts(r, i, m)
      BY DEF Done, SetTimeouts
    <3> QED BY <2>4, <3>1, <3>2, <3>3, <3>4, <3>5 DEF Handler
  <2> QED BY <2>1, <2>2, <2>3, <2>4 DEF Next
<1> QED BY <1>1, AgeInit, AgeStep, PTL DEF Spec, NoEarlyEviction

=============================================================================
