---------------------------- MODULE SessionTable ----------------------------
(***************************************************************************)
(* The in-memory session table: when an entry, and with it a data key,     *)
(* leaves memory.                                                          *)
(*                                                                         *)
(* Time is a tick (a minute); an entry records the time since it was       *)
(* created and since it was last used.  A request finds its entry with Get *)
(* and acts on it later, so the entry can be evicted, promoted or replaced *)
(* in between.  Ages stop counting at Cap, which no entry should reach.     *)
(***************************************************************************)
EXTENDS Integers, FiniteSets, FiniteSetsExt

CONSTANTS
    Sess,       \* entries of the table
    Req,        \* requests that can be in flight together
    IdleValues, \* idle timeouts the settings page can set
    MaxValues,  \* absolute lifetimes the settings page can set
    PendingTTL, \* lifetime of an entry whose TOTP code is outstanding
    SweepEvery, \* period of the sweeper
    Nil

ASSUME TableAssumption ==
    /\ IdleValues \subseteq Nat /\ MaxValues \subseteq Nat
    /\ IsFiniteSet(IdleValues \cup MaxValues)
    /\ IdleValues # {} /\ MaxValues # {}
    /\ PendingTTL \in Nat /\ SweepEvery \in Nat \ {0}
    /\ Nil \notin Sess
    /\ Nil \notin [keyed: BOOLEAN, pending: BOOLEAN, age: Nat, rest: Nat]

Cap == Max(IdleValues \cup MaxValues \cup {PendingTTL}) + SweepEvery + 1

VARIABLES
    idle, max, \* the timeouts in force
    tbl,       \* tbl[s]: the entry, or Nil when s is not in the map
    req,       \* req[r]: the session pointer a request holds, and its handler
    due,       \* ticks since the last sweep
    loosest    \* history: the longest timeouts in force since the last sweep

vars == <<idle, max, tbl, req, due, loosest>>

Entry == [keyed: BOOLEAN, pending: BOOLEAN, age: 0 .. Cap - 1, rest: 0 .. Cap - 1]
NoReq == [sess |-> Nil, totp |-> FALSE, open |-> FALSE]

TypeOK ==
    /\ idle \in IdleValues /\ max \in MaxValues
    /\ tbl \in [Sess -> Entry \cup {Nil}]
    /\ req \in [Req -> [sess: Sess \cup {Nil}, totp: BOOLEAN, open: BOOLEAN]]
    /\ due \in 0 .. SweepEvery
    /\ loosest \in [idle: IdleValues, max: MaxValues]

Init ==
    /\ idle \in IdleValues /\ max \in MaxValues
    /\ tbl = [s \in Sess |-> Nil]
    /\ req = [r \in Req |-> NoReq]
    /\ due = 0
    /\ loosest = [idle |-> idle, max |-> max]

---------------------------------------------------------------------------

Unlocked(e) == e # Nil /\ e.keyed /\ ~e.pending

ExpiredIdleOnly(e) == IF e.pending THEN e.age > PendingTTL ELSE e.rest > idle
ExpiredNoPending(e) == ~e.pending /\ (e.rest > idle \/ e.age > max)
ExpiredEarly(e) ==
    IF e.pending THEN e.age >= PendingTTL ELSE e.rest >= idle \/ e.age > max
expired(e) == IF e.pending THEN e.age > PendingTTL ELSE e.rest > idle \/ e.age > max

Free == {s \in Sess : tbl[s] = Nil /\ \A r \in Req : req[r].sess # s}

NewEntry(keyed, pending) == [keyed |-> keyed, pending |-> pending, age |-> 0, rest |-> 0]

---------------------------------------------------------------------------

\* Get, in sessionMW: an expired entry is evicted and the request has no
\* session; otherwise the idle timer is refreshed, unless the entry is pending.
GetExpired(s) ==
    /\ tbl[s] # Nil /\ expired(tbl[s])
    /\ tbl' = [tbl EXCEPT ![s] = Nil]
    /\ UNCHANGED <<idle, max, req, due, loosest>>

Refreshed(e) == IF e.pending THEN e ELSE [e EXCEPT !.rest = 0]

\* totp: the handler is postUnlockTOTP, which wants a keyed, pending entry.
\* open: needDEK finds the vault unlocked.
Get(r, s, totp) ==
    /\ req[r] = NoReq /\ tbl[s] # Nil /\ ~expired(tbl[s])
    /\ totp => tbl[s].keyed /\ tbl[s].pending
    /\ tbl' = [tbl EXCEPT ![s] = Refreshed(@)]
    /\ req' = [req EXCEPT ![r] = [sess |-> s, totp |-> totp, open |-> Unlocked(tbl[s])]]
    /\ UNCHANGED <<idle, max, due, loosest>>

\* preauth: a login form without a session creates one that holds no key.
Preauth(r, s) ==
    /\ req[r] = NoReq /\ s \in Free
    /\ tbl' = [tbl EXCEPT ![s] = NewEntry(FALSE, FALSE)]
    /\ req' = [req EXCEPT ![r] = [NoReq EXCEPT !.sess = s]]
    /\ UNCHANGED <<idle, max, due, loosest>>

\* The handler ends without touching the table.
Done(r) ==
    /\ req[r] # NoReq
    /\ req' = [req EXCEPT ![r] = NoReq]
    /\ UNCHANGED <<idle, max, tbl, due, loosest>>

\* postLock.
Delete(r) ==
    /\ req[r] # NoReq
    /\ tbl' = [tbl EXCEPT ![req[r].sess] = Nil]
    /\ req' = [req EXCEPT ![r] = NoReq]
    /\ UNCHANGED <<idle, max, due, loosest>>

\* postSetup and postUnlock: Delete, then New with a key.
Login(r, n, pending) ==
    /\ req[r] # NoReq /\ ~req[r].totp /\ n \in Free
    /\ tbl' = [tbl EXCEPT ![req[r].sess] = Nil, ![n] = NewEntry(TRUE, pending)]
    /\ req' = [req EXCEPT ![r] = NoReq]
    /\ UNCHANGED <<idle, max, due, loosest>>

\* postUnlockTOTP: Promote, if the entry is still in the map.
Promote(r) ==
    /\ req[r].totp
    /\ tbl' = [tbl EXCEPT ![req[r].sess] = IF @ = Nil THEN Nil ELSE NewEntry(TRUE, FALSE)]
    /\ req' = [req EXCEPT ![r] = NoReq]
    /\ UNCHANGED <<idle, max, due, loosest>>

\* saveSessionConfig, whose session may be evicted while it runs.
SetTimeouts(r, i, m) ==
    /\ req[r].open /\ i <= m
    /\ idle' = i /\ max' = m
    /\ loosest' = [idle |-> Max({loosest.idle, i}), max |-> Max({loosest.max, m})]
    /\ req' = [req EXCEPT ![r] = NoReq]
    /\ UNCHANGED <<tbl, due>>

\* EvictExpired, called by the sweeper's ticker.
EvictExpired ==
    /\ due = SweepEvery
    /\ tbl' = [s \in Sess |-> IF tbl[s] # Nil /\ expired(tbl[s]) THEN Nil ELSE tbl[s]]
    /\ due' = 0
    /\ loosest' = [idle |-> idle, max |-> max]
    /\ UNCHANGED <<idle, max, req>>

Later(n) == IF n = Cap THEN Cap ELSE n + 1
Older(e) == [e EXCEPT !.age = Later(@), !.rest = Later(@)]

Tick ==
    /\ due < SweepEvery
    /\ due' = due + 1
    /\ tbl' = [s \in Sess |-> IF tbl[s] = Nil THEN Nil ELSE Older(tbl[s])]
    /\ UNCHANGED <<idle, max, req, loosest>>

Handler(r) ==
    \/ \E s \in Sess : Preauth(r, s) \/ \E t \in BOOLEAN : Get(r, s, t)
    \/ Done(r) \/ Delete(r) \/ Promote(r)
    \/ \E n \in Sess, p \in BOOLEAN : Login(r, n, p)
    \/ \E i \in IdleValues, m \in MaxValues : SetTimeouts(r, i, m)

Next ==
    \/ \E r \in Req : Handler(r)
    \/ \E s \in Sess : GetExpired(s)
    \/ EvictExpired
    \/ Tick

Spec == Init /\ [][Next]_vars

\* Time passes and the ticker of sweep() fires: nothing else is promised.
FairSpec == Spec /\ WF_vars(Tick) /\ WF_vars(EvictExpired)

---------------------------------------------------------------------------

\* An entry, and the data key in it, is gone at the latest one sweep after its
\* timeout, whether or not anybody asks for it: a pending entry after PendingTTL,
\* which its requests cannot extend, any other after the idle timeout and after
\* the absolute lifetime, the longest in force since the last sweep if they were
\* changed.
ScrubbedInTime ==
    \A s \in Sess : tbl[s] # Nil =>
        IF tbl[s].pending
        THEN tbl[s].age <= PendingTTL + SweepEvery
        ELSE /\ tbl[s].rest <= loosest.idle + SweepEvery
             /\ tbl[s].age <= loosest.max + SweepEvery

\* Nobody is logged out early: an entry within the timeouts in force disappears
\* only because a handler that holds it locks it or replaces it by a login.
NoEarlyEviction ==
    [][\A s \in Sess :
          /\ tbl[s] # Nil /\ tbl'[s] = Nil
          /\ IF tbl[s].pending THEN tbl[s].age <= PendingTTL
                               ELSE tbl[s].rest <= idle /\ tbl[s].age <= max
          => \E r \in Req : req[r].sess = s /\ req'[r] = NoReq]_vars

\* No session lives forever: however busy its browser, and whatever the settings
\* page does, every entry leaves the table.
AbsoluteLifetime == \A s \in Sess : (tbl[s] # Nil) ~> (tbl[s] = Nil)

=============================================================================
