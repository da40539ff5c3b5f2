--------------------------- MODULE LimiterProofs ---------------------------
(***************************************************************************)
(* Proofs about Limiter, for every set of addresses, every pair of         *)
(* thresholds and every window and lockout.                                *)
(***************************************************************************)
EXTENDS Limiter, TLAPS

\* One attempt at a time.
Serial == \A r, q \in Req : r = q

\* No lockout concerns an attempt that Allowed admitted.
AdmittedUnlocked ==
    \A r \in Req : req[r] # Nil => now >= global.until /\ now >= perIP[req[r]].until

Times == now \in Nat /\ perIP \in [IP -> Bucket] /\ global \in Bucket
         /\ req \in [Req -> IP \cup {Nil}]

LimiterInv == Times /\ AdmittedUnlocked

\* Go's zero time is an integer in the past, and a missing bucket is a bucket.
LEMMA LongInt == Long \in Int /\ Long < 0 /\ NoBucket \in Bucket
BY LimiterAssumption DEF Long, NoBucket, Bucket

\* A failure turns a bucket into a bucket.
LEMMA CountBucket ==
    ASSUME NEW b \in Bucket, NEW max, now \in Int
    PROVE  Count(b, max) \in Bucket
<1> DEFINE c == IF now - b.first > Window THEN [NoBucket EXCEPT !.first = now] ELSE b
<1>1. c \in Bucket
    BY LongInt DEF Bucket
<1> HIDE DEF c
<1>2. [c EXCEPT !.fails = @ + 1,
                !.until = IF c.fails + 1 >= max THEN now + Lockout ELSE @] \in Bucket
  <2>1. c.fails + 1 \in Nat /\ now + Lockout \in Int /\ c.until \in Int
    BY <1>1, LimiterAssumption DEF Bucket
  <2> QED BY <1>1, <2>1 DEF Bucket
<1>3. Count(b, max) = [c EXCEPT !.fails = @ + 1,
                                !.until = IF c.fails + 1 >= max THEN now + Lockout ELSE @]
    BY Zenon DEF Count, c
<1> QED BY <1>2, <1>3

\* Nothing is locked at the start.
LEMMA LimiterInit == Init => LimiterInv
BY LongInt, LimiterAssumption DEF Init, LimiterInv, Times, AdmittedUnlocked

\* An attempt that was admitted stays outside every lockout while it is alone.
LEMMA LimiterNext ==
    ASSUME Serial
    PROVE  LimiterInv /\ [Next]_vars => LimiterInv'
<1> SUFFICES ASSUME LimiterInv, [Next]_vars PROVE LimiterInv'
    OBVIOUS
<1> USE LimiterAssumption DEF LimiterInv, Times
<1>1. ASSUME NEW r \in Req, NEW ip \in IP, Begin(r, ip) PROVE LimiterInv'
    BY <1>1 DEF Begin, Allowed, AdmittedUnlocked
<1>0. ASSUME NEW ip \in IP, Refuse(ip) PROVE LimiterInv'
    BY <1>0 DEF Refuse, AdmittedUnlocked
<1>2. ASSUME NEW r \in Req, Fail(r) \/ Reset(r) \/ Abandon(r) PROVE LimiterInv'
  <2>1. \A q \in Req : req'[q] = Nil
    BY <1>2 DEF Serial, Fail, Reset, Abandon
  <2>2. Times'
    BY <1>2, CountBucket, LongInt DEF Fail, Reset, Abandon
  <2> QED BY <2>1, <2>2 DEF AdmittedUnlocked
<1>3. CASE Sweep
  <2>1. perIP' \in [IP -> Bucket]
    BY <1>3, LongInt DEF Sweep
  <2>2. ASSUME NEW ip \in IP, now >= perIP[ip].until PROVE now >= perIP'[ip].until
    <3>1. CASE ip \in Decayed
      <4>1. perIP'[ip].until = Long
        BY <1>3, <3>1 DEF Sweep, NoBucket
      <4> QED BY <4>1, LongInt DEF TypeOK
    <3>2. CASE ip \notin Decayed
      BY <1>3, <2>2, <3>2 DEF Sweep
    <3> QED BY <3>1, <3>2
  <2> QED BY <1>3, <2>1, <2>2 DEF Sweep, AdmittedUnlocked
<1>4. CASE Tick
    BY <1>4 DEF Tick, AdmittedUnlocked, Bucket
<1>5. CASE UNCHANGED vars
    BY <1>5 DEF vars, AdmittedUnlocked
<1> QED BY <1>0, <1>1, <1>2, <1>3, <1>4, <1>5 DEF Next

\* With one attempt in flight at a time no step shortens a lockout, per address
\* or global, whatever the thresholds, the window and the lockout are.
THEOREM SerialLockoutHolds ==
    ASSUME Serial
    PROVE  Spec => LockoutHolds
<1> DEFINE Step == /\ global.until > now => global'.until >= global.until
                   /\ \A ip \in IP : perIP[ip].until > now =>
                                        perIP'[ip].until >= perIP[ip].until
<1>1. LimiterInv /\ [Next]_vars => [Step]_vars
  <2> SUFFICES ASSUME LimiterInv, [Next]_vars, ~UNCHANGED vars PROVE Step
    OBVIOUS
  <2> USE DEF LimiterInv, Times, Bucket
  <2>0. ASSUME NEW ip \in IP, Refuse(ip) PROVE Step
    BY <2>0 DEF Refuse
  <2>1. ASSUME NEW r \in Req, NEW ip \in IP, Begin(r, ip) PROVE Step
    BY <2>1 DEF Begin
  <2>2. ASSUME NEW r \in Req, Fail(r) \/ Reset(r) \/ Abandon(r) PROVE Step
    <3>1. req[r] \in IP /\ ~(global.until > now) /\ ~(perIP[req[r]].until > now)
      BY <2>2, LimiterAssumption DEF Fail, Reset, Abandon, AdmittedUnlocked
    <3>2. \A ip \in IP : ip # req[r] => perIP'[ip] = perIP[ip]
      BY <2>2, <3>1 DEF Fail, Reset, Abandon
    <3> QED BY <3>1, <3>2
  <2>3. CASE Sweep
    BY <2>3 DEF Sweep, Decayed
  <2>4. CASE Tick
    BY <2>4 DEF Tick
  <2> QED BY <2>0, <2>1, <2>2, <2>3, <2>4 DEF Next
<1> QED BY <1>1, LimiterInit, LimiterNext, PTL DEF Spec, LockoutHolds

---------------------------------------------------------------------------
\* How many failures fit into a window.

\* A bucket b with the threshold max, and the last 2 * max failures h that it or its
\* predecessors counted.  The failures of the bucket's window begin with its first one;
\* of those before, at most max - 1 were less than a window ago when it began.
WindowOK(b, h, max, t) ==
    /\ h \in Ages(2 * max) /\ b.first <= t
    /\ b.fails <= max
    /\ b.fails = 0 => b.first = Long
    /\ b.fails = max => b.until >= b.first + Lockout
    /\ b.fails > 0 => \A k \in 1 .. 2 * max : k >= b.fails => h[k] > Window \/ h[k] >= t - b.first
    /\ \A k \in 1 .. 2 * max : k >= b.fails + max => h[k] > Window

WindowInv ==
    /\ \A ip \in IP : WindowOK(perIP[ip], recent[ip], MaxIP, now)
    /\ WindowOK(global, seen, MaxAll, now)
    /\ DOMAIN recent = IP

\* A missing bucket, whatever was counted long enough ago.
LEMMA WindowNone ==
    ASSUME NEW max \in Nat \ {0}, NEW h \in Ages(2 * max),
           \A k \in 1 .. 2 * max : k >= max => h[k] > Window, NEW t \in Nat
    PROVE  WindowOK(NoBucket, h, max, t)
BY LimiterAssumption, LongInt DEF WindowOK, NoBucket

\* One failure, outside a lockout.
LEMMA WindowCount ==
    ASSUME NEW max \in Nat \ {0}, NEW b \in Bucket, NEW h, now \in Nat, Lockout > Window,
           WindowOK(b, h, max, now), now >= b.until
    PROVE  WindowOK(Count(b, max), Failed(h), max, now)
<1> USE LimiterAssumption
<1>0. /\ b.fails \in Nat /\ b.first \in Int /\ b.until \in Int /\ h \in Ages(2 * max)
      /\ DOMAIN h = 1 .. 2 * max /\ \A k \in 1 .. 2 * max : h[k] \in 0 .. Window + 1
    BY DEF Bucket, WindowOK, Ages
<1>1. /\ Failed(h) \in Ages(2 * max) /\ Failed(h)[1] = 0
      /\ \A k \in 1 .. 2 * max : k # 1 => k - 1 \in 1 .. 2 * max /\ Failed(h)[k] = h[k - 1]
    BY <1>0 DEF Failed, Ages
<1>w. /\ b.first <= now /\ b.fails <= max
      /\ b.fails = 0 => b.first = Long
      /\ b.fails = max => b.until >= b.first + Lockout
      /\ b.fails > 0 => \A k \in 1 .. 2 * max : k >= b.fails => h[k] > Window \/ h[k] >= now - b.first
      /\ \A k \in 1 .. 2 * max : k >= b.fails + max => h[k] > Window
    BY DEF WindowOK
<1>2. CASE now - b.first > Window
  <2> DEFINE c == [NoBucket EXCEPT !.first = now]
             d == [c EXCEPT !.fails = @ + 1, !.until = IF c.fails + 1 >= max THEN now + Lockout ELSE @]
  <2>1. Count(b, max) = d
    BY <1>2 DEF Count
  <2>2. d.fails = 1 /\ d.first = now /\ (1 >= max => d.until = now + Lockout)
    BY DEF NoBucket
  <2> HIDE DEF c, d
  <2>3. ASSUME NEW k \in 1 .. 2 * max, k >= 1 + max PROVE Failed(h)[k] > Window
    <3>1. k - 1 \in 1 .. 2 * max /\ Failed(h)[k] = h[k - 1] /\ h[k - 1] \in 0 .. Window + 1 /\ k - 1 >= max
      BY <1>0, <1>1, <2>3
    <3>2. CASE b.fails > 0
      <4>1. k - 1 >= b.fails
        BY <1>0, <1>w, <3>1
      <4>2. h[k - 1] > Window \/ h[k - 1] >= now - b.first
        BY <1>w, <3>1, <3>2, <4>1
      <4> QED BY <1>0, <1>2, <3>1, <4>2
    <3>3. CASE b.fails = 0
      BY <1>w, <3>1, <3>3
    <3> QED BY <1>0, <3>2, <3>3
  <2>4. \A k \in 1 .. 2 * max : Failed(h)[k] >= 0
    BY <1>1 DEF Ages
  <2>5. WindowOK(d, Failed(h), max, now)
    BY <1>1, <2>2, <2>3, <2>4 DEF WindowOK
  <2> QED BY <2>1, <2>5
<1>3. CASE ~(now - b.first > Window)
  <2> DEFINE d == [b EXCEPT !.fails = @ + 1, !.until = IF b.fails + 1 >= max THEN now + Lockout ELSE @]
  <2>1. Count(b, max) = d
    BY <1>3 DEF Count
  <2>2. /\ d.fails = b.fails + 1 /\ d.first = b.first
        /\ b.fails + 1 >= max => d.until = now + Lockout
    BY DEF Bucket
  <2> HIDE DEF d
  <2>3. b.fails > 0
    BY <1>0, <1>3 DEF WindowOK, Long
  <2>4. b.fails # max
    <3>1. b.fails = max => b.until >= b.first + Lockout
      BY <1>w
    <3> QED BY <1>0, <1>3, <3>1
  <2>5. now >= b.first /\ (b.fails + 1 = max => d.until >= d.first + Lockout)
    BY <1>0, <2>2 DEF WindowOK
  <2>6. \A k \in 1 .. 2 * max : k >= d.fails => Failed(h)[k] > Window \/ Failed(h)[k] >= now - d.first
    <3> SUFFICES ASSUME NEW k \in 1 .. 2 * max, k >= d.fails
                 PROVE  Failed(h)[k] > Window \/ Failed(h)[k] >= now - d.first
      OBVIOUS
    <3>1. k - 1 \in 1 .. 2 * max /\ Failed(h)[k] = h[k - 1] /\ k - 1 >= b.fails
      <4>1. k # 1 /\ k - 1 >= b.fails
        BY <1>0, <2>2, <2>3
      <4> QED BY <1>1, <4>1
    <3> QED BY <1>w, <2>2, <2>3, <3>1
  <2>7. \A k \in 1 .. 2 * max : k >= d.fails + max => Failed(h)[k] > Window
    <3> SUFFICES ASSUME NEW k \in 1 .. 2 * max, k >= d.fails + max PROVE Failed(h)[k] > Window
      OBVIOUS
    <3>1. k - 1 \in 1 .. 2 * max /\ Failed(h)[k] = h[k - 1] /\ k - 1 >= b.fails + max
      <4>1. k # 1 /\ k - 1 >= b.fails + max
        BY <1>0, <2>2, <2>3
      <4> QED BY <1>1, <4>1
    <3> QED BY <1>w, <3>1
  <2>8. d.first <= now /\ d.fails <= max /\ d.fails # 0 /\ (d.fails = max => d.until >= d.first + Lockout)
    BY <1>0, <1>w, <2>2, <2>3, <2>4, <2>5
  <2>9. WindowOK(d, Failed(h), max, now)
    BY <1>1, <2>6, <2>7, <2>8 DEF WindowOK
  <2> QED BY <2>1, <2>9
<1> QED BY <1>2, <1>3

\* A tick: the failures are longer ago, by one unless they were long ago.
LEMMA WindowTick ==
    ASSUME NEW max \in Nat \ {0}, NEW b \in Bucket, NEW h, NEW t \in Nat, WindowOK(b, h, max, t)
    PROVE  WindowOK(b, Older(h), max, t + 1)
<1> USE LimiterAssumption
<1>0. /\ b.fails \in Nat /\ b.first \in Int /\ b.until \in Int /\ h \in Ages(2 * max)
      /\ DOMAIN h = 1 .. 2 * max /\ \A k \in 1 .. 2 * max : h[k] \in 0 .. Window + 1
    BY DEF Bucket, WindowOK, Ages
<1>1. /\ Older(h) \in Ages(2 * max)
      /\ \A k \in 1 .. 2 * max : Older(h)[k] = IF h[k] > Window THEN h[k] ELSE h[k] + 1
    BY <1>0 DEF Older, Ages
<1>2. b.fails > 0 => \A k \in 1 .. 2 * max : k >= b.fails =>
          Older(h)[k] > Window \/ Older(h)[k] >= (t + 1) - b.first
  <2> SUFFICES ASSUME b.fails > 0, NEW k \in 1 .. 2 * max, k >= b.fails
               PROVE  Older(h)[k] > Window \/ Older(h)[k] >= (t + 1) - b.first
    OBVIOUS
  <2>1. h[k] > Window \/ h[k] >= t - b.first
    BY DEF WindowOK
  <2> QED BY <1>0, <1>1, <2>1
<1>3. \A k \in 1 .. 2 * max : k >= b.fails + max => Older(h)[k] > Window
    BY <1>0, <1>1 DEF WindowOK
<1> QED BY <1>0, <1>1, <1>2, <1>3 DEF WindowOK

\* A sweep: what the bucket counted is at least a window ago, but for max - 1 failures.
LEMMA WindowSweep ==
    ASSUME NEW max \in Nat \ {0}, NEW b \in Bucket, NEW h, NEW t \in Nat, WindowOK(b, h, max, t),
           t - b.first > Window
    PROVE  WindowOK(NoBucket, h, max, t)
<1>0. /\ b.fails \in Nat /\ b.first \in Int /\ h \in Ages(2 * max)
      /\ \A k \in 1 .. 2 * max : h[k] \in 0 .. Window + 1
    BY DEF Bucket, WindowOK, Ages
<1>1. \A k \in 1 .. 2 * max : k >= max => h[k] > Window
    BY <1>0, LimiterAssumption DEF WindowOK
<1> QED BY <1>0, <1>1, WindowNone

LEMMA NoneAges ==
    ASSUME NEW max \in Nat \ {0}
    PROVE  None(2 * max) \in Ages(2 * max) /\ \A k \in 1 .. 2 * max : None(2 * max)[k] > Window
BY LimiterAssumption DEF None, Ages

LEMMA WindowInit == Init => WindowInv
BY LimiterAssumption, NoneAges, WindowNone DEF Init, WindowInv

LEMMA WindowNext ==
    ASSUME Serial, Lockout > Window
    PROVE  LimiterInv /\ WindowInv /\ [Next]_vars => WindowInv'
<1> SUFFICES ASSUME LimiterInv, WindowInv, [Next]_vars PROVE WindowInv'
    OBVIOUS
<1> USE LimiterAssumption DEF LimiterInv, Times
<1>1. ASSUME UNCHANGED <<now, perIP, global, recent, seen>> PROVE WindowInv'
    BY <1>1 DEF WindowInv
<1>2. ASSUME NEW r \in Req, Fail(r) PROVE WindowInv'
  <2> PICK i \in IP : i = req[r]
    BY <1>2 DEF Fail
  <2>1. now >= global.until /\ now >= perIP[i].until
    BY <1>2 DEF AdmittedUnlocked, Fail
  <2>2. WindowOK(Count(perIP[i], MaxIP), Failed(recent[i]), MaxIP, now)
    BY <2>1, WindowCount DEF WindowInv
  <2>3. WindowOK(Count(global, MaxAll), Failed(seen), MaxAll, now)
    BY <2>1, WindowCount DEF WindowInv
  <2>4. /\ perIP'[i] = Count(perIP[i], MaxIP) /\ recent'[i] = Failed(recent[i])
        /\ \A ip \in IP : ip # i => perIP'[ip] = perIP[ip] /\ recent'[ip] = recent[ip]
        /\ global' = Count(global, MaxAll) /\ seen' = Failed(seen) /\ now' = now /\ DOMAIN recent' = IP
    BY <1>2 DEF Fail, WindowInv
  <2> QED BY <2>2, <2>3, <2>4 DEF WindowInv
<1>3. ASSUME NEW r \in Req, Reset(r) PROVE WindowInv'
  <2> PICK i \in IP : i = req[r]
    BY <1>3 DEF Reset
  <2>1. /\ perIP'[i] = NoBucket /\ recent'[i] = None(2 * MaxIP)
        /\ \A ip \in IP : ip # i => perIP'[ip] = perIP[ip] /\ recent'[ip] = recent[ip]
        /\ UNCHANGED <<now, global, seen>> /\ DOMAIN recent' = IP
    BY <1>3 DEF Reset, WindowInv
  <2>2. WindowOK(NoBucket, None(2 * MaxIP), MaxIP, now)
    BY NoneAges, WindowNone
  <2> QED BY <2>1, <2>2 DEF WindowInv
<1>4. CASE Sweep
  <2>1. ASSUME NEW ip \in IP PROVE WindowOK(perIP'[ip], recent[ip], MaxIP, now)
    <3>1. CASE ip \in Decayed
      <4>1. now - perIP[ip].first > Window /\ perIP'[ip] = NoBucket
        BY <1>4, <3>1 DEF Sweep, Decayed
      <4> QED BY <4>1, WindowSweep DEF WindowInv
    <3>2. CASE ip \notin Decayed
      BY <1>4, <3>2 DEF Sweep, WindowInv
    <3> QED BY <3>1, <3>2
  <2> QED BY <1>4, <2>1 DEF Sweep, WindowInv, history
<1>5. CASE Tick
  <2>1. \A ip \in IP : WindowOK(perIP[ip], Older(recent[ip]), MaxIP, now + 1)
    BY WindowTick DEF WindowInv
  <2>2. WindowOK(global, Older(seen), MaxAll, now + 1)
    BY WindowTick DEF WindowInv
  <2> QED BY <1>5, <2>1, <2>2 DEF Tick, WindowInv
<1>6. ASSUME NEW r \in Req, Abandon(r) \/ \E ip \in IP : Begin(r, ip) PROVE WindowInv'
    BY <1>1, <1>6 DEF Abandon, Begin, history
<1>8. ASSUME NEW ip \in IP, Refuse(ip) PROVE WindowInv'
    BY <1>1, <1>8 DEF Refuse
<1>7. CASE UNCHANGED vars
    BY <1>1, <1>7 DEF vars, history
<1> QED BY <1>2, <1>3, <1>4, <1>5, <1>6, <1>7, <1>8 DEF Next

\* With one attempt at a time and a lockout longer than the window, as NewLimiter has
\* them, at most 2 * max - 1 failures fit into any stretch of Window, from one address
\* and from all together.
THEOREM SerialFailureBound ==
    ASSUME Serial, Lockout > Window
    PROVE  Spec => []FailureBound
<1>1. WindowInv /\ LimiterInv => FailureBound
  <2> SUFFICES ASSUME WindowInv, LimiterInv PROVE FailureBound
    OBVIOUS
  <2>1. ASSUME NEW max \in Nat \ {0}, NEW b \in Bucket, NEW h, WindowOK(b, h, max, now)
        PROVE  h[2 * max] > Window
    BY <2>1 DEF WindowOK, Bucket
  <2> QED BY <2>1, LimiterAssumption DEF FailureBound, WindowInv, LimiterInv, Times
<1> QED BY <1>1, LimiterInit, LimiterNext, WindowInit, WindowNext, PTL DEF Spec

---------------------------------------------------------------------------

\* The times are numbers, also when attempts overlap.
LEMMA TimesNext == Times /\ [Next]_vars => Times'
<1> SUFFICES ASSUME Times, [Next]_vars PROVE Times'
    OBVIOUS
<1> USE LimiterAssumption DEF Times
<1>1. ASSUME NEW r \in Req, Fail(r) \/ Reset(r) \/ Abandon(r) \/ \E ip \in IP : Begin(r, ip) PROVE Times'
    BY <1>1, CountBucket, LongInt DEF Fail, Reset, Abandon, Begin
<1>2. CASE Sweep
    BY <1>2, LongInt DEF Sweep
<1>3. CASE Tick \/ \E ip \in IP : Refuse(ip)
    BY <1>3 DEF Tick, Refuse
<1>4. CASE UNCHANGED vars
    BY <1>4 DEF vars
<1> QED BY <1>1, <1>2, <1>3, <1>4 DEF Next

\* The larger of three numbers.
LEMMA MaxOfThree ==
    ASSUME NEW a \in Int, NEW b \in Int, NEW c \in Int
    PROVE  /\ Max({a, b, c}) \in {a, b, c}
           /\ Max({a, b, c}) >= a /\ Max({a, b, c}) >= b /\ Max({a, b, c}) >= c
<1>1. PICK x \in {a, b, c} : \A y \in {a, b, c} : x >= y
  <2>1. CASE a >= b /\ a >= c
    BY <2>1
  <2>2. CASE b >= a /\ b >= c
    BY <2>2
  <2>3. CASE c >= a /\ c >= b
    BY <2>3
  <2> QED BY <2>1, <2>2, <2>3
<1>2. Max({a, b, c}) \in {a, b, c} /\ \A y \in {a, b, c} : Max({a, b, c}) >= y
    BY <1>1 DEF Max
<1> QED BY <1>2

\* The header is less than a second short of the wait.
LEMMA HeaderBound ==
    ASSUME NEW d \in Nat
    PROVE  Header(d) \in Nat /\ Header(d) > 0 /\ Header(d) + Sec >= d
<1>1. Sec \in Nat /\ Sec > 0
    BY LimiterAssumption
<1>2. d % Sec \in 0 .. Sec - 1
    BY <1>1
<1>3. CASE d < Sec
    BY <1>1, <1>3 DEF Header
<1>4. CASE ~(d < Sec)
  <2> DEFINE m == d % Sec
  <2>1. Header(d) = d - m /\ m \in 0 .. Sec - 1
    BY <1>2, <1>4 DEF Header
  <2> HIDE DEF m
  <2> QED BY <1>1, <1>4, <2>1
<1> QED BY <1>3, <1>4

\* No lockout that concerns an address outlives by a second what it was told.
ToldInv ==
    /\ told \in [IP -> Nat]
    /\ \A ip \in IP : told[ip] # 0 => /\ told[ip] + Sec >= global.until
                                      /\ told[ip] + Sec >= perIP[ip].until

\* A refusal tells of both lockouts; a failure that makes one longer takes over; a
\* success, a sweep and a decayed window make none longer.
LEMMA ToldNext == Times /\ ToldInv /\ [Next]_vars => ToldInv'
<1> SUFFICES ASSUME Times, ToldInv, [Next]_vars PROVE ToldInv'
    OBVIOUS
<1> USE LimiterAssumption DEF Times
<1>1. ASSUME UNCHANGED <<perIP, global, told>> PROVE ToldInv'
    BY <1>1 DEF ToldInv
<1>2. ASSUME NEW ip \in IP, Refuse(ip) PROVE ToldInv'
  <2> DEFINE g == global.until - now
             p == perIP[ip].until - now
             h == Header(RetryAfter(ip))
  <2>1. now \in Nat /\ global.until \in Int /\ perIP[ip].until \in Int
    BY DEF Bucket
  <2>2. /\ RetryAfter(ip) \in {g, p, 0}
        /\ RetryAfter(ip) >= g /\ RetryAfter(ip) >= p /\ RetryAfter(ip) >= 0
    <3>1. g \in Int /\ p \in Int /\ 0 \in Int /\ RetryAfter(ip) = Max({g, p, 0})
      BY <2>1 DEF RetryAfter
    <3> HIDE DEF g, p
    <3> QED BY <3>1, MaxOfThree
  <2>3. RetryAfter(ip) \in Nat
    BY <2>1, <2>2
  <2>4. h \in Nat /\ h + Sec >= RetryAfter(ip)
    BY <2>3, HeaderBound
  <2>5. told' = [told EXCEPT ![ip] = now + h] /\ UNCHANGED <<perIP, global>>
    BY <1>2 DEF Refuse
  <2> HIDE DEF h
  <2>6. now + h + Sec >= global.until /\ now + h + Sec >= perIP[ip].until
    BY <2>1, <2>2, <2>3, <2>4
  <2> QED BY <2>1, <2>4, <2>5, <2>6 DEF ToldInv
<1>3. ASSUME NEW r \in Req, Fail(r) PROVE ToldInv'
  <2>1. global' \in Bucket /\ global \in Bucket
    BY <1>3, CountBucket, LongInt DEF Fail
  <2>2. /\ told' = [ip \in IP |-> IF ip = req[r] \/ global'.until > global.until
                                  THEN 0 ELSE told[ip]]
        /\ \A ip \in IP : ip # req[r] => perIP'[ip] = perIP[ip]
    BY <1>3 DEF Fail
  <2>3. ASSUME NEW ip \in IP, told'[ip] # 0
        PROVE  told'[ip] + Sec >= global'.until /\ told'[ip] + Sec >= perIP'[ip].until
    <3>1. /\ told'[ip] = told[ip] /\ perIP'[ip] = perIP[ip]
          /\ ~(global'.until > global.until)
      BY <2>2, <2>3
    <3> QED BY <2>1, <2>3, <3>1 DEF ToldInv, Bucket
  <2> QED BY <2>2, <2>3 DEF ToldInv
<1>4. ASSUME NEW r \in Req, Reset(r) PROVE ToldInv'
  <2>1. /\ \A ip \in IP : perIP'[ip] = perIP[ip] \/ perIP'[ip].until = Long
        /\ UNCHANGED <<global, told>>
    BY <1>4 DEF Reset, NoBucket
  <2> QED BY <2>1, LongInt DEF ToldInv
<1>5. CASE Sweep
  <2>1. /\ \A ip \in IP : perIP'[ip] = perIP[ip] \/ perIP'[ip].until = Long
        /\ UNCHANGED <<global, told>>
    BY <1>5 DEF Sweep, NoBucket, history
  <2> QED BY <2>1, LongInt DEF ToldInv
<1> QED BY <1>1, <1>2, <1>3, <1>4, <1>5 DEF Next, Begin, Abandon, Tick, vars, history

\* Whatever attempts overlap, a client that was refused and waits a second longer than
\* its Retry-After header said is admitted, unless a failure locked its address or
\* everybody again in the meantime.
THEOREM AdvertisedWait == Spec => []WaitSuffices
<1>1. Init => Times /\ ToldInv
    BY LimiterInit DEF LimiterInv, Init, ToldInv
<1>2. Times /\ ToldInv /\ [Next]_vars => (Times /\ ToldInv)'
    BY TimesNext, ToldNext
<1>3. Times /\ ToldInv => WaitSuffices
  <2> SUFFICES ASSUME Times, ToldInv, NEW ip \in IP, told[ip] # 0, now >= told[ip] + Sec
               PROVE  Allowed(ip)
    BY DEF WaitSuffices
  <2>1. told[ip] + Sec >= global.until /\ told[ip] + Sec >= perIP[ip].until
    BY DEF ToldInv
  <2>2. now \in Int /\ global.until \in Int /\ perIP[ip].until \in Int /\ told[ip] + Sec \in Int
    BY LimiterAssumption DEF Times, ToldInv, Bucket
  <2> QED BY <2>1, <2>2 DEF Allowed
<1> QED BY <1>1, <1>2, <1>3, PTL DEF Spec

=============================================================================
