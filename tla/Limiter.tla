------------------------------ MODULE Limiter ------------------------------
(***************************************************************************)
(* The login throttle: a bucket of failures per client IP and one for all  *)
(* clients, each with a fixed window and a lockout.  An attempt asks       *)
(* Allowed, spends time verifying a passphrase or a code, and then reports *)
(* Fail or Reset; attempts of different requests overlap in between.       *)
(*                                                                         *)
(* A bucket that is missing from the map is one whose times are Go's zero  *)
(* time, which lies more than a window in the past.                        *)
(***************************************************************************)
EXTENDS Integers, FiniteSets, FiniteSetsExt

CONSTANTS
    IP,      \* client addresses
    Req,     \* attempts that can be in flight together
    MaxIP,   \* failures from one address that lock it
    MaxAll,  \* failures from anywhere that lock everybody
    Window,  \* failures older than this decay
    Lockout, \* length of a lockout
    Sec,     \* ticks of the clock in a second, the unit of the Retry-After header
    MaxNow,  \* bound: the clock
    Nil

ASSUME LimiterAssumption ==
    /\ MaxIP \in Nat \ {0} /\ MaxAll \in Nat \ {0}
    /\ Window \in Nat /\ Lockout \in Nat /\ MaxNow \in Nat
    /\ Sec \in Nat \ {0}
    /\ Nil \notin IP

VARIABLES
    now,    \* the clock
    perIP,  \* perIP[ip]: the bucket of ip
    global, \* the bucket of all addresses
    req,    \* req[r]: the address of the attempt r that Allowed admitted, or Nil
    recent, \* history: recent[ip][k], how long ago the k-th last failure of ip was,
            \* since its last success
    seen,   \* history: seen[k], how long ago the k-th last failure from anywhere was
    told    \* history: told[ip], when the wait ends that the last refusal of ip
            \* advertised, or 0: a later failure took over, or there was no refusal

vars == <<now, perIP, global, req, recent, seen, told>>
history == <<recent, seen, told>>

Long == -(Window + 1)
NoBucket == [fails |-> 0, first |-> Long, until |-> Long]
Bucket == [fails: Nat, first: Int, until: Int]

\* The history of the last n failures; Window + 1 is any time outside the window.
Ages(n) == [1 .. n -> 0 .. Window + 1]
None(n) == [k \in 1 .. n |-> Window + 1]
Older(h) == [k \in DOMAIN h |-> IF h[k] > Window THEN h[k] ELSE h[k] + 1]
Failed(h) == [k \in DOMAIN h |-> IF k = 1 THEN 0 ELSE h[k - 1]]

TypeOK ==
    /\ now \in 0 .. MaxNow
    /\ perIP \in [IP -> Bucket]
    /\ global \in Bucket
    /\ req \in [Req -> IP \cup {Nil}]
    /\ recent \in [IP -> Ages(2 * MaxIP)]
    /\ seen \in Ages(2 * MaxAll)
    /\ told \in [IP -> Nat]

Init ==
    /\ now = 0
    /\ perIP = [ip \in IP |-> NoBucket]
    /\ global = NoBucket
    /\ req = [r \in Req |-> Nil]
    /\ recent = [ip \in IP |-> None(2 * MaxIP)]
    /\ seen = None(2 * MaxAll)
    /\ told = [ip \in IP |-> 0]

---------------------------------------------------------------------------

Allowed(ip) == now >= global.until /\ now >= perIP[ip].until

\* One failure in bucket b: a decayed bucket is replaced, until included.
CountLate(b, max) ==
    LET c == IF now - b.first > Window THEN [NoBucket EXCEPT !.first = now] ELSE b
    IN  [c EXCEPT !.fails = @ + 1,
                  !.until = IF c.fails >= max THEN now + Lockout ELSE @]
Count(b, max) ==
    LET c == IF now - b.first > Window THEN [NoBucket EXCEPT !.first = now] ELSE b
    IN  [c EXCEPT !.fails = @ + 1,
                  !.until = IF c.fails + 1 >= max THEN now + Lockout ELSE @]

\* How long until attempts from ip are allowed again.
RetryAfterIP(ip) == Max({perIP[ip].until - now, 0})
RetryAfter(ip) == Max({global.until - now, perIP[ip].until - now, 0})

\* retryAfterSecs: whole seconds, the fraction cut off, and at least one.
Header(d) == IF d < Sec THEN Sec ELSE d - (d % Sec)

---------------------------------------------------------------------------

\* postUnlock, postUnlockTOTP, changePassphrase and rekey ask first.
Begin(r, ip) ==
    /\ req[r] = Nil /\ Allowed(ip)
    /\ req' = [req EXCEPT ![r] = ip]
    /\ UNCHANGED <<now, perIP, global, history>>

\* An attempt that Allowed refuses: 429 with the header.
Refuse(ip) ==
    /\ ~Allowed(ip)
    /\ told' = [told EXCEPT ![ip] = now + Header(RetryAfter(ip))]
    /\ UNCHANGED <<now, perIP, global, req, recent, seen>>

Fail(r) ==
    /\ req[r] # Nil
    /\ perIP' = [perIP EXCEPT ![req[r]] = Count(@, MaxIP)]
    /\ global' = Count(global, MaxAll)
    /\ recent' = [recent EXCEPT ![req[r]] = Failed(@)]
    /\ seen' = Failed(seen)
    /\ told' = [ip \in IP |-> IF ip = req[r] \/ global'.until > global.until
                              THEN 0 ELSE told[ip]]
    /\ req' = [req EXCEPT ![r] = Nil]
    /\ UNCHANGED now

\* The global bucket is not reset.
Reset(r) ==
    /\ req[r] # Nil
    /\ perIP' = [perIP EXCEPT ![req[r]] = NoBucket]
    /\ recent' = [recent EXCEPT ![req[r]] = None(2 * MaxIP)]
    /\ req' = [req EXCEPT ![r] = Nil]
    /\ UNCHANGED <<now, global, seen, told>>

\* A right passphrase with TOTP enabled, or a request that ends before it
\* verifies anything, reports neither.
Abandon(r) ==
    /\ req[r] # Nil
    /\ req' = [req EXCEPT ![r] = Nil]
    /\ UNCHANGED <<now, perIP, global, history>>

SweepDecayed == {ip \in IP : now - perIP[ip].first > Window}
Decayed == {ip \in IP : now > perIP[ip].until /\ now - perIP[ip].first > Window}

Sweep ==
    /\ \E ip \in Decayed : perIP[ip] # NoBucket
    /\ perIP' = [ip \in IP |-> IF ip \in Decayed THEN NoBucket ELSE perIP[ip]]
    /\ UNCHANGED <<now, global, req, history>>

Tick ==
    /\ now < MaxNow
    /\ now' = now + 1
    /\ recent' = [ip \in IP |-> Older(recent[ip])]
    /\ seen' = Older(seen)
    /\ UNCHANGED <<perIP, global, req, told>>

Next ==
    \/ \E r \in Req, ip \in IP : Begin(r, ip)
    \/ \E ip \in IP : Refuse(ip)
    \/ \E r \in Req : Fail(r) \/ Reset(r) \/ Abandon(r)
    \/ Sweep
    \/ Tick

Spec == Init /\ [][Next]_vars

---------------------------------------------------------------------------

\* While an address is locked out its lockout is not shortened, and while
\* everybody is locked out that lockout is not shortened: not by a failure, a
\* success, a sweep or the end of the window.
LockoutHolds ==
    [][/\ global.until > now => global'.until >= global.until
       /\ \A ip \in IP : perIP[ip].until > now => perIP'[ip].until >= perIP[ip].until]_vars

\* A global lockout is not shortened before it ends.
GlobalLockoutHolds == [][global.until > now => global'.until >= global.until]_vars

\* The window is fixed, not sliding: over any stretch of Window an address, and
\* all addresses together, get in at most the failures of two windows, less one,
\* however the failures fall on a window's edge and whatever addresses they
\* come from: the failure before those is more than Window ago.
FailureBound ==
    /\ \A ip \in IP : recent[ip][2 * MaxIP] > Window
    /\ seen[2 * MaxAll] > Window

\* A client that was refused and waits a second longer than it was told is admitted,
\* whatever lockout it ran into, whoever is refused, swept, admitted or fails in the
\* meantime; only a failure of its own address or one that locks everybody can
\* make it wait again.
WaitSuffices == \A ip \in IP : told[ip] # 0 /\ now >= told[ip] + Sec => Allowed(ip)

\* A client that waits as long as it was told is admitted.
HeaderSuffices == \A ip \in IP : told[ip] # 0 /\ now >= told[ip] => Allowed(ip)

=============================================================================
