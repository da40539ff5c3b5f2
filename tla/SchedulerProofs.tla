-------------------------- MODULE SchedulerProofs --------------------------
(***************************************************************************)
(* For any handlers, zones and hours: a live change of the schedule is not *)
(* lost, untilNext is exact while the clocks stand, and no day passes      *)
(* without a backup, whatever the clocks do.                               *)
(***************************************************************************)
EXTENDS Scheduler, TLAPS

\* The loop's timer is a record, so that counting it down keeps its schedule; and
\* there is a flag for each handler.
TimerOK == /\ DOMAIN timer = {"at", "left"}
           /\ DOMAIN set = Req /\ \A r \in Req : set[r] \in BOOLEAN
           /\ pc \in {"load", "arm", "wait", "snapshot", "down"}

TokenInv == TimerOK /\ ReloadNotLost

\* A step of a handler: the schedule and the flag, or the flag and the token.
LEMMA TokenHandler ==
    ASSUME TokenInv, NEW r \in Req, Reload(r) \/ \E a \in At \cup {Off} : SetSchedule(r, a)
    PROVE  TokenInv'
<1>1. CASE Reload(r)
    BY <1>1 DEF Reload, TokenInv, TimerOK, ReloadNotLost
<1>2. ASSUME NEW a \in At \cup {Off}, SetSchedule(r, a) PROVE TokenInv'
    BY <1>2 DEF SetSchedule, TokenInv, TimerOK, ReloadNotLost
<1> QED BY <1>1, <1>2

\* A step of the loop, of the clock or of the process.
LEMMA TokenLoop ==
    ASSUME TokenInv,
           \/ Load \/ Arm \/ Reloaded \/ Fire \/ Snapshot \/ Tick \/ Down
           \/ \E a \in At \cup {Off} : Boot(a)
    PROVE  TokenInv'
<1>1. CASE Load
    BY <1>1 DEF Load, TokenInv, TimerOK, ReloadNotLost
<1>2. CASE Arm
  <2>1. DOMAIN timer' = {"at", "left"} /\ timer'.at = timer.at
    BY <1>2 DEF Arm, NoTimer, TokenInv, TimerOK
  <2> QED BY <1>2, <2>1 DEF Arm, TokenInv, TimerOK, ReloadNotLost
<1>3. CASE Reloaded
    BY <1>3 DEF Reloaded, NoTimer, TokenInv, TimerOK, ReloadNotLost
<1>4. CASE Fire
    BY <1>4 DEF Fire, TokenInv, TimerOK, ReloadNotLost
<1>5. CASE Snapshot
    BY <1>5 DEF Snapshot, NoTimer, TokenInv, TimerOK, ReloadNotLost
<1>6. CASE Tick
  <2>1. DOMAIN timer' = {"at", "left"} /\ timer'.at = timer.at
    BY <1>6 DEF Tick, TokenInv, TimerOK
  <2> QED BY <1>6, <2>1 DEF Tick, TokenInv, TimerOK, ReloadNotLost
<1>7. CASE Down
    BY <1>7 DEF Down, NoTimer, TokenInv, TimerOK, ReloadNotLost
<1>8. ASSUME NEW a \in At \cup {Off}, Boot(a) PROVE TokenInv'
    BY <1>8 DEF Boot, TokenInv, TimerOK, ReloadNotLost
<1> QED BY <1>1, <1>2, <1>3, <1>4, <1>5, <1>6, <1>7, <1>8

\* A change saved while Run computes, waits or takes a snapshot reaches it: whenever
\* Run is about to wait for, or waits for, another schedule than the one in force, a
\* token is in the channel or the handler that saved has yet to send it, although
\* a second token is dropped.
THEOREM ChangeNotLost == Spec => []ReloadNotLost
<1>1. Init => TokenInv
    BY DEF Init, NoTimer, TokenInv, TimerOK, ReloadNotLost
<1>2. TokenInv /\ [Next]_vars => TokenInv'
  <2>1. TokenInv /\ UNCHANGED vars => TokenInv'
    BY DEF vars, TokenInv, TimerOK, ReloadNotLost
  <2> QED BY <2>1, TokenHandler, TokenLoop DEF Next
<1>3. TokenInv => ReloadNotLost
    BY DEF TokenInv
<1> QED BY <1>1, <1>2, <1>3, PTL DEF Spec

---------------------------------------------------------------------------
\* The wall clock.

ClockOK == now \in Int /\ zone \in Zones

\* Division by the hours of a day.
LEMMA DayHour ==
    ASSUME NEW t \in Int
    PROVE  /\ t \div Hours \in Int /\ t % Hours \in 0 .. Hours - 1
           /\ t = (t \div Hours) * Hours + (t % Hours)
BY DEF Hours

\* The remainder of a sum of whole days and hours.
LEMMA SameHour ==
    ASSUME NEW q \in Int, NEW m \in 0 .. Hours - 1
    PROVE  (q * Hours + m) % Hours = m
<1> DEFINE t == q * Hours + m
<1>1. t \in Int
    BY DEF Hours
<1>2. t \div Hours \in Int /\ t % Hours \in 0 .. Hours - 1 /\ t = (t \div Hours) * Hours + (t % Hours)
    BY <1>1, DayHour
<1>3. ASSUME NEW d \in Int, NEW r \in 0 .. Hours - 1, q * Hours + m = d * Hours + r PROVE r = m
    BY <1>3 DEF Hours
<1> HIDE DEF t
<1>4. q * Hours + m = (t \div Hours) * Hours + (t % Hours)
    BY <1>2 DEF t
<1>5. t % Hours = m
    BY <1>2, <1>3, <1>4
<1> QED BY <1>5 DEF t

\* An offset is the one of winter or that of summer, and those differ by an hour at most.
LEMMA Offsets ==
    ASSUME ClockOK, NEW t \in Int
    PROVE  /\ Offset(t) \in Int
           /\ \A u \in Int : Offset(u) \in {Offset(t) - 1, Offset(t), Offset(t) + 1}
<1>1. zone.winter \in Int /\ zone.summer \in {zone.winter, zone.winter + 1}
    BY SchedulerAssumption DEF ClockOK
<1>2. \A u \in Int : Offset(u) = zone.summer \/ Offset(u) = zone.winter
    BY DEF Offset
<1> QED BY <1>1, <1>2

\* time.Date is off by no more than an hour from what the offset of now gives.
LEMMA DateNear ==
    ASSUME ClockOK, NEW w \in Int
    PROVE  Date(w) \in Int /\ w - Date(w) \in {Offset(now) - 1, Offset(now), Offset(now) + 1}
<1>1. /\ now \in Int /\ Offset(now) \in Int
      /\ \A u \in Int : Offset(u) \in {Offset(now) - 1, Offset(now), Offset(now) + 1}
    BY Offsets DEF ClockOK
<1>2. Offset(w) \in Int /\ w - Offset(w) \in Int
    BY <1>1
<1>3. Offset(w - Offset(w)) \in {Offset(now) - 1, Offset(now), Offset(now) + 1}
    BY <1>1, <1>2
<1>4. Offset(w) \in {Offset(now) - 1, Offset(now), Offset(now) + 1}
    BY <1>1
<1> QED BY <1>1, <1>3, <1>4 DEF Date

\* Today at the hour a: on the wall clock, from now.
LEMMA TodayAt ==
    ASSUME ClockOK, NEW a \in 0 .. Hours - 1
    PROVE  /\ Midnight(now) + a \in Int /\ Hour(now) \in 0 .. Hours - 1
           /\ Midnight(now) + a = Local(now) - Hour(now) + a
           /\ (Midnight(now) + a) % Hours = a
<1>1. Local(now) \in Int
    BY Offsets DEF ClockOK, Local
<1> DEFINE q == Local(now) \div Hours
<1>2. q \in Int /\ Hour(now) \in 0 .. Hours - 1 /\ Local(now) = q * Hours + Hour(now)
    BY <1>1, DayHour DEF Hour
<1>3. Midnight(now) = q * Hours
    BY DEF Midnight
<1> HIDE DEF q
<1>4. (q * Hours + a) % Hours = a
    BY <1>2, SameHour
<1>5. Midnight(now) \in Int /\ Midnight(now) = Local(now) - Hour(now)
    BY <1>1, <1>2, <1>3 DEF Hours
<1>6. (Midnight(now) + a) % Hours = a
    BY <1>3, <1>4
<1>7. Midnight(now) + a \in Int /\ Midnight(now) + a = Local(now) - Hour(now) + a
  <2>1. a \in Int
    BY DEF Hours
  <2> QED BY <2>1, <1>5
<1> QED BY <1>2, <1>6, <1>7

\* The wait that untilNext computes is a day and an hour at most, whatever the clocks do.
LEMMA UntilNextRange ==
    ASSUME ClockOK, NEW a \in 0 .. Hours - 1
    PROVE  untilNext(a) \in 0 .. Hours + 1
<1> DEFINE w == Midnight(now) + a
           d == Date(w)
           next == IF Hour(d) # a THEN d + 1 ELSE d
<1>1. untilNext(a) = IF next <= now THEN next + Hours - now ELSE next - now
    BY DEF untilNext
<1>2. /\ w \in Int /\ Hour(now) \in 0 .. Hours - 1 /\ w = now + Offset(now) - Hour(now) + a
      /\ now \in Int /\ Offset(now) \in Int
    BY TodayAt, Offsets DEF ClockOK, Local
<1>3. d \in Int /\ w - d \in {Offset(now) - 1, Offset(now), Offset(now) + 1}
    BY <1>2, DateNear
<1>4. next \in {d, d + 1}
    OBVIOUS
<1> HIDE DEF w, d, next
<1>5. d - now \in -Hours .. Hours
    BY <1>2, <1>3 DEF Hours
<1>6. next - now \in -Hours .. Hours + 1 /\ next \in Int
    BY <1>2, <1>3, <1>4, <1>5 DEF Hours
<1> QED BY <1>1, <1>2, <1>6 DEF Hours

\* While the clocks are not changed, from a day before now to a day after, it is the
\* wait for the next hour that reads a.
LEMMA UntilNextSteady ==
    ASSUME ClockOK, NEW a \in 0 .. Hours - 1, Steady(now)
    PROVE  untilNext(a) = NextOccurrence(a)
<1> DEFINE o == Offset(now)
           h == Hour(now)
           w == Midnight(now) + a
<1>0. /\ now \in Int /\ o \in Int /\ h \in 0 .. Hours - 1 /\ w \in Int
      /\ w = now + o - h + a /\ w % Hours = a
      /\ \A u \in Int : Offset(u) \in {o - 1, o, o + 1}
    BY TodayAt, Offsets DEF ClockOK, Local
<1>1. ASSUME NEW u \in Int, u - now \in -Hours .. Hours + 1 PROVE Offset(u) = o
  <2> DEFINE d == u - now
  <2>1. now + d = u
    BY <1>0
  <2> HIDE DEF d
  <2>2. d \in -Hours .. Hours + 1
    BY <1>1 DEF d
  <2>3. Offset(now + d) = o
    BY <2>2 DEF Steady
  <2> QED BY <2>1, <2>3
<1> HIDE DEF o, h, w
<1>2. Date(w) = w - o
  <2>1. Offset(w) \in {o - 1, o, o + 1}
    BY <1>0
  <2>2. CASE Offset(w) = 0
    <3>1. w - now \in -Hours .. Hours
      BY <1>0, <2>1, <2>2 DEF Hours
    <3>2. o = 0
      BY <1>0, <1>1, <2>2, <3>1 DEF Hours
    <3> QED BY <1>0, <2>2, <3>2 DEF Date
  <2>3. CASE Offset(w) # 0
    <3>1. w - Offset(w) \in Int /\ (w - Offset(w)) - now \in -Hours .. Hours + 1
      BY <1>0, <2>1 DEF Hours
    <3>2. Offset(w - Offset(w)) = o
      BY <1>1, <3>1
    <3> QED BY <2>3, <3>2 DEF Date
  <2> QED BY <2>2, <2>3
<1>3. Hour(w - o) = a
  <2>1. w - o \in Int /\ (w - o) - now \in -Hours .. Hours + 1
    BY <1>0 DEF Hours
  <2>2. Offset(w - o) = o
    BY <1>1, <2>1
  <2>3. (w - o) + o = w
    BY <1>0
  <2> QED BY <1>0, <2>2, <2>3 DEF Hour, Local
<1> DEFINE u == IF a > h THEN a - h ELSE a - h + Hours
<1>4. untilNext(a) = u
  <2>1. untilNext(a) = IF w - o <= now THEN (w - o) + Hours - now ELSE (w - o) - now
    BY <1>2, <1>3 DEF untilNext, w
  <2> QED BY <1>0, <2>1 DEF Hours
<1>5. u \in 1 .. Hours
    BY <1>0 DEF Hours
\* The hour that the wall clock reads e hours from now.
<1>6. ASSUME NEW e \in 1 .. Hours + 1
      PROVE  Hour(now + e) = IF h + e < Hours THEN h + e
                             ELSE IF h + e < 2 * Hours THEN h + e - Hours ELSE h + e - 2 * Hours
  <2>1. now + e \in Int /\ (now + e) - now \in -Hours .. Hours + 1
    BY <1>0 DEF Hours
  <2>2. Offset(now + e) = o
    BY <1>1, <2>1
  <2> DEFINE q == Local(now) \div Hours
  <2>3. q \in Int /\ now + o = q * Hours + h
    <3>1. Local(now) = now + o /\ Local(now) \in Int
      BY <1>0 DEF Local, o
    <3>2. q \in Int /\ Local(now) = q * Hours + (Local(now) % Hours)
      BY <3>1, DayHour
    <3> QED BY <3>1, <3>2 DEF h, Hour
  <2> HIDE DEF q
  <2>4. Hour(now + e) = (q * Hours + (h + e)) % Hours
    <3>1. Local(now + e) = q * Hours + (h + e)
      BY <1>0, <2>2, <2>3 DEF Local, Hours
    <3> QED BY <3>1 DEF Hour
  <2>5. CASE h + e < Hours
    <3>1. h + e \in 0 .. Hours - 1
      BY <1>0, <2>5 DEF Hours
    <3> QED BY <2>3, <2>4, <2>5, <3>1, SameHour
  <2>6. CASE h + e >= Hours /\ h + e < 2 * Hours
    <3>1. h + e - Hours \in 0 .. Hours - 1 /\ q + 1 \in Int
      BY <1>0, <2>3, <2>6 DEF Hours
    <3>2. q * Hours + (h + e) = (q + 1) * Hours + (h + e - Hours)
      BY <1>0, <2>3 DEF Hours
    <3>3. ((q + 1) * Hours + (h + e - Hours)) % Hours = h + e - Hours
      BY <3>1, SameHour
    <3> QED BY <1>0, <2>4, <2>6, <3>2, <3>3 DEF Hours
  <2>7. CASE h + e >= 2 * Hours
    <3>1. h + e - 2 * Hours \in 0 .. Hours - 1 /\ q + 2 \in Int
      BY <1>0, <2>3, <2>7 DEF Hours
    <3>2. q * Hours + (h + e) = (q + 2) * Hours + (h + e - 2 * Hours)
      BY <1>0, <2>3 DEF Hours
    <3>3. ((q + 2) * Hours + (h + e - 2 * Hours)) % Hours = h + e - 2 * Hours
      BY <3>1, SameHour
    <3> QED BY <1>0, <2>4, <2>7, <3>2, <3>3 DEF Hours
  <2> QED BY <1>0, <2>5, <2>6, <2>7 DEF Hours
<1> DEFINE Is(d) == Hour(now + d) = a /\ \A e \in 1 .. d - 1 : Hour(now + e) # a
<1>7. u \in 1 .. Hours + 1 /\ Is(u)
    BY <1>0, <1>5, <1>6 DEF Hours
<1>8. ASSUME NEW d \in 1 .. Hours + 1, Is(d) PROVE d = u
  <2>1. ~(d < u)
    BY <1>0, <1>5, <1>6, <1>8 DEF Hours
  <2>2. ~(u < d)
    <3>1. u < d => u \in 1 .. d - 1
      BY <1>5 DEF Hours
    <3> QED BY <1>7, <1>8, <3>1
  <2> QED BY <1>5, <2>1, <2>2 DEF Hours
<1>9. NextOccurrence(a) = CHOOSE d \in 1 .. Hours + 1 : Is(d)
    BY DEF NextOccurrence
<1> HIDE DEF Is, u
<1> QED BY <1>4, <1>7, <1>8, <1>9

\* The clock is a time of the year, the location one of those allowed.
LEMMA ClockStep == ClockOK /\ [Next]_vars => ClockOK'
<1>1. ASSUME ClockOK, Tick PROVE ClockOK'
  <2>1. Year \in Int /\ Year > 0
    BY SchedulerAssumption DEF Year, Hours
  <2>2. (now + 1) % Year \in Int
    BY <1>1, <2>1 DEF ClockOK
  <2> QED BY <1>1, <2>2 DEF Tick, ClockOK
<1>2. ASSUME ClockOK, [Next]_vars, ~Tick PROVE ClockOK'
  <2>1. now' = now /\ zone' = zone
    BY <1>2 DEF Next, vars, Reload, SetSchedule, Load, Arm, Reloaded, Fire, Snapshot, Down, Boot
  <2> QED BY <1>2, <2>1 DEF ClockOK
<1> QED BY <1>1, <1>2

\* The clock is set at first.
LEMMA ClockInit == Init => ClockOK
BY DEF Init, ClockOK

\* What untilNext says while the clocks are not changed is the next hour that reads the
\* one scheduled, neither the current one nor the one after next, in every zone and at
\* every time of the year.
THEOREM NextOccurrenceExact == Spec => []UntilNextExact
<1>1. ClockOK => UntilNextExact
    BY UntilNextSteady, SchedulerAssumption DEF UntilNextExact
<1> QED BY <1>1, ClockInit, ClockStep, PTL DEF Spec

---------------------------------------------------------------------------
\* A backup every day.

\* What has passed since the last backup and what the timer has left make a day and an
\* hour at most; before the timer is set, and with no timer, nothing has passed.
WaitInv ==
    /\ ClockOK /\ TimerOK
    /\ at \in At \cup {Off} /\ timer.at \in At \cup {Off}
    /\ since \in Nat /\ timer.left \in Nat
    /\ pc \in {"load", "arm", "down"} => since = 0
    /\ pc = "down" => timer.at = Off
    /\ pc = "wait" => IF timer.at = Off THEN since = 0 ELSE since + timer.left <= Hours + 1
    /\ pc = "snapshot" => since <= Hours + 1

\* A handler that saves does not touch the timer.
LEMMA WaitHandler ==
    ASSUME WaitInv, ClockOK', NEW r \in Req,
           Reload(r) \/ \E a \in At \cup {Off} : SetSchedule(r, a)
    PROVE  WaitInv'
<1>1. CASE Reload(r)
    BY <1>1 DEF Reload, WaitInv, TimerOK
<1>2. ASSUME NEW a \in At \cup {Off}, SetSchedule(r, a) PROVE WaitInv'
    BY <1>2 DEF SetSchedule, WaitInv, TimerOK
<1> QED BY <1>1, <1>2

\* The steps of Run and of the clock.
LEMMA WaitLoop ==
    ASSUME WaitInv, ClockOK',
           \/ Load \/ Arm \/ Reloaded \/ Fire \/ Snapshot \/ Tick \/ Down
           \/ \E a \in At \cup {Off} : Boot(a)
    PROVE  WaitInv'
<1>1. CASE Load
    BY <1>1 DEF Load, WaitInv, TimerOK
<1>2. CASE Arm
  <2>1. CASE timer.at = Off
    BY <1>2, <2>1 DEF Arm, NoTimer, WaitInv, TimerOK
  <2>2. CASE timer.at # Off
    <3>1. untilNext(timer.at) \in 0 .. Hours + 1
      BY <2>2, UntilNextRange, SchedulerAssumption DEF WaitInv
    <3>2. /\ DOMAIN timer' = {"at", "left"}
          /\ timer'.at = timer.at /\ timer'.left = untilNext(timer.at)
      BY <1>2, <2>2 DEF Arm, WaitInv, TimerOK
    <3>3. timer'.left \in Nat /\ 0 + timer'.left <= Hours + 1
      BY <3>1, <3>2 DEF Hours
    <3> QED BY <1>2, <2>2, <3>2, <3>3 DEF Arm, WaitInv, TimerOK
  <2> QED BY <2>1, <2>2
<1>3. CASE Reloaded
    BY <1>3 DEF Reloaded, NoTimer, WaitInv, TimerOK
<1>4. CASE Fire
  <2>1. since <= Hours + 1
    BY <1>4 DEF Fire, Due, WaitInv
  <2> QED BY <1>4, <2>1 DEF Fire, Due, WaitInv, TimerOK
<1>5. CASE Snapshot
    BY <1>5 DEF Snapshot, NoTimer, WaitInv, TimerOK
<1>6. CASE Tick
  <2>1. CASE timer.at = Off
    BY <1>6, <2>1 DEF Tick, WaitInv, TimerOK
  <2>2. CASE timer.at # Off
    <3>1. pc = "wait" /\ timer.left # 0 /\ since + timer.left <= Hours + 1
      BY <1>6, <2>2 DEF Tick, Due, WaitInv
    <3>2. /\ DOMAIN timer' = {"at", "left"}
          /\ timer'.at = timer.at /\ timer'.left = timer.left - 1 /\ since' = since + 1
      BY <1>6, <2>2 DEF Tick, WaitInv, TimerOK
    <3>3. timer'.left \in Nat /\ since' \in Nat /\ since' + timer'.left <= Hours + 1
      BY <3>1, <3>2 DEF WaitInv, Hours
    <3> QED BY <1>6, <2>2, <3>1, <3>2, <3>3 DEF Tick, WaitInv, TimerOK
  <2> QED BY <2>1, <2>2
<1>7. CASE Down
    BY <1>7 DEF Down, NoTimer, WaitInv, TimerOK
<1>8. ASSUME NEW a \in At \cup {Off}, Boot(a) PROVE WaitInv'
    BY <1>8 DEF Boot, WaitInv, TimerOK
<1> QED BY <1>1, <1>2, <1>3, <1>4, <1>5, <1>6, <1>7, <1>8

\* The types and the sum of WaitInv are kept by every step.
LEMMA WaitStep == WaitInv /\ [Next]_vars => WaitInv'
<1> SUFFICES ASSUME WaitInv, [Next]_vars PROVE WaitInv'
    OBVIOUS
<1>1. ClockOK'
    BY ClockStep DEF WaitInv
<1>2. CASE UNCHANGED vars
    BY <1>1, <1>2 DEF vars, WaitInv, TimerOK
<1>3. CASE Next
    BY <1>1, <1>3, WaitHandler, WaitLoop DEF Next
<1> QED BY <1>2, <1>3

\* Unless the schedule is saved or the process starts, a day and an hour never pass
\* without a backup while one is scheduled: also when the clocks are changed, in
\* every zone, and when the hour is skipped or comes twice.
THEOREM BackupEveryDay == Spec => []DailyBackup
<1>1. Init => WaitInv
    BY ClockInit DEF Init, NoTimer, WaitInv, TimerOK
<1>2. WaitInv => DailyBackup
  <2> SUFFICES ASSUME WaitInv PROVE DailyBackup
    OBVIOUS
  <2>1. CASE pc = "wait" /\ timer.at # Off
    BY <2>1 DEF WaitInv, DailyBackup, Hours
  <2>2. CASE pc = "wait" /\ timer.at = Off
    BY <2>2 DEF WaitInv, DailyBackup, Hours
  <2>3. CASE pc # "wait"
    BY <2>3 DEF WaitInv, TimerOK, DailyBackup, Hours
  <2> QED BY <2>1, <2>2, <2>3
<1> QED BY <1>1, <1>2, WaitStep, PTL DEF Spec

---------------------------------------------------------------------------
\* The hour at which a backup is taken.

\* Division by a positive number.
LEMMA DivisionByYear ==
    ASSUME NEW u \in Int, NEW y \in Nat \ {0}
    PROVE  /\ u \div y \in Int /\ u % y \in 0 .. y - 1
           /\ u = y * (u \div y) + (u % y)
OBVIOUS

\* A year is a whole number of days, so the wall clock reads the same a year earlier.
LEMMA YearBefore ==
    ASSUME ClockOK, NEW t \in Int
    PROVE  Offset(t - Year) = Offset(t) /\ Hour(t - Year) = Hour(t)
<1>1. Year \in Nat \ {0} /\ Days \in Nat \ {0} /\ Year = Hours * Days
    BY SchedulerAssumption DEF Year, Hours
<1>2. (t - Year) % Year = t % Year
  <2>1. /\ t \div Year \in Int /\ t % Year \in 0 .. Year - 1
        /\ t = Year * (t \div Year) + (t % Year)
    BY <1>1, DivisionByYear
  <2>2. /\ (t - Year) \div Year \in Int /\ (t - Year) % Year \in 0 .. Year - 1
        /\ t - Year = Year * ((t - Year) \div Year) + ((t - Year) % Year)
    <3>1. t - Year \in Int
      BY <1>1
    <3> QED BY <1>1, <3>1, DivisionByYear
  <2>3. ASSUME NEW y \in Nat \ {0}, NEW p \in Int, NEW q \in Int, NEW a \in 0 .. y - 1, NEW b \in 0 .. y - 1,
               t = y * p + a, t - y = y * q + b
        PROVE  a = b
    <3> DEFINE e == p - q - 1
    <3>1. e \in Int /\ y * e = b - a
      BY <2>3
    <3> HIDE DEF e
    <3>2. ~(e >= 1)
      <4>1. e >= 1 => y * e >= y
        BY <3>1, <2>3
      <4> QED BY <3>1, <4>1
    <3>3. ~(e <= -1)
      <4>1. e <= -1 => y * e <= -y
        BY <3>1, <2>3
      <4> QED BY <3>1, <4>1
    <3>4. e = 0
      BY <3>1, <3>2, <3>3
    <3> QED BY <3>1, <3>4
  <2> QED BY <1>1, <2>1, <2>2, <2>3
<1>3. Offset(t - Year) = Offset(t)
    BY <1>2 DEF Offset
<1>4. Offset(t) \in Int
    BY Offsets
<1> DEFINE l == t + Offset(t)
           q == l \div Hours
           m == l % Hours
<1>5. l \in Int /\ q \in Int /\ m \in 0 .. Hours - 1 /\ l = q * Hours + m
    BY <1>4, DayHour
<1>6. Local(t) = l /\ Local(t - Year) = l - Year
    BY <1>1, <1>3, <1>4 DEF Local
<1>7. Hour(t) = m
    BY <1>6 DEF Hour
<1> HIDE DEF l, q, m
<1>8. l - Year = (q - Days) * Hours + m /\ q - Days \in Int
    BY <1>1, <1>5 DEF Hours
<1>9. Hour(t - Year) = m
    BY <1>5, <1>6, <1>8, SameHour DEF Hour
<1> QED BY <1>3, <1>7, <1>9

\* At t a backup set for the hour a is on time, or as late or early as a change allows.
OnTimeAt(t, a) ==
    \/ Hour(t) = a
    \/ ~Steady(t - Hours) /\ (Hour(t) - a) % Hours \in {1, 2, Hours - 1}

\* It is so a year earlier too.
LEMMA OnTimeYearBefore ==
    ASSUME ClockOK, NEW t \in Int, NEW a, OnTimeAt(t, a)
    PROVE  OnTimeAt(t - Year, a)
<1>1. Year \in Int /\ Hours \in Int
    BY SchedulerAssumption DEF Year, Hours
<1>2. Hour(t - Year) = Hour(t)
    BY YearBefore
<1>3. ASSUME Steady((t - Year) - Hours) PROVE Steady(t - Hours)
  <2> SUFFICES ASSUME NEW d \in -Hours .. Hours + 1 PROVE Offset((t - Hours) + d) = Offset(t - Hours)
    BY DEF Steady
  <2>1. Offset(((t - Year) - Hours) + d) = Offset((t - Year) - Hours)
    BY <1>3 DEF Steady
  <2>2. /\ (t - Hours) + d \in Int /\ t - Hours \in Int
        /\ ((t - Year) - Hours) + d = ((t - Hours) + d) - Year
        /\ (t - Year) - Hours = (t - Hours) - Year
    BY <1>1
  <2>3. /\ Offset(((t - Hours) + d) - Year) = Offset((t - Hours) + d)
        /\ Offset((t - Hours) - Year) = Offset(t - Hours)
    BY <2>2, YearBefore
  <2> QED BY <2>1, <2>2, <2>3
<1> QED BY <1>2, <1>3 DEF OnTimeAt

\* A wall time and the time that Date makes of it.
LEMMA DateOffset ==
    ASSUME ClockOK, NEW w \in Int
    PROVE  \E o \in {zone.winter, zone.summer} :
              /\ o \in Int /\ Date(w) = w - o
              /\ \E u \in Int : u - Date(w) \in -1 .. 1 /\ Offset(u) = o
<1>1. zone.winter \in Int /\ zone.summer \in {zone.winter, zone.winter + 1}
    BY SchedulerAssumption DEF ClockOK
<1>2. \A u \in Int : Offset(u) \in {zone.winter, zone.summer}
    BY DEF Offset
<1>3. CASE Offset(w) = 0
  <2>1. Date(w) = w - Offset(w) /\ w - Date(w) = 0
    BY <1>3 DEF Date
  <2> QED BY <1>1, <1>2, <1>3, <2>1
<1>4. CASE Offset(w) # 0
  <2> DEFINE v == w - Offset(w)
             o == Offset(v)
  <2>1. v \in Int /\ o \in {zone.winter, zone.summer} /\ Date(w) = w - o
    BY <1>1, <1>2, <1>4 DEF Date
  <2>2. v - Date(w) \in -1 .. 1
    BY <1>1, <1>2, <2>1
  <2> QED BY <1>1, <2>1, <2>2
<1> QED BY <1>3, <1>4

\* Where the timer will be when it has run out.
LEMMA ArmedOnTime ==
    ASSUME ClockOK, NEW a \in 0 .. Hours - 1
    PROVE  OnTimeAt(now + untilNext(a), a)
<1> DEFINE w == Midnight(now) + a
           d == Date(w)
           next == IF Hour(d) # a THEN d + 1 ELSE d
           f == now + untilNext(a)
<1>1. w \in Int /\ w % Hours = a /\ now \in Int /\ a \in Int
    BY TodayAt DEF ClockOK, Hours
<1>2. untilNext(a) = IF next <= now THEN next + Hours - now ELSE next - now
    BY DEF untilNext
<1>3. PICK o \in {zone.winter, zone.summer} :
            /\ o \in Int /\ d = w - o
            /\ \E u \in Int : u - d \in -1 .. 1 /\ Offset(u) = o
    BY <1>1, DateOffset
<1>4. PICK v \in Int : v - d \in -1 .. 1 /\ Offset(v) = o
    BY <1>3
<1>5. zone.winter \in Int /\ zone.summer \in {zone.winter, zone.winter + 1}
    BY SchedulerAssumption DEF ClockOK
<1>6. \A u \in Int : Offset(u) \in {zone.winter, zone.summer}
    BY DEF Offset
<1> DEFINE q == w \div Hours
<1>7. q \in Int /\ w = q * Hours + a
    BY <1>1, DayHour
<1>8. /\ d \in Int /\ next \in {d, d + 1} /\ next \in Int
      /\ Hour(d) = a => next = d
      /\ Hour(d) # a => next = d + 1
    BY <1>1, <1>3
<1> HIDE DEF w, d, next, q
<1>9. f \in {next, next + Hours} /\ f \in Int
    BY <1>1, <1>2, <1>8 DEF Hours
<1> HIDE DEF f
\* What the wall clock reads at u, next to the hour it should read.
<1>10. ASSUME NEW u \in Int
       PROVE  Local(u) = q * Hours + (a + (u - d) + (Offset(u) - o)) /\ Offset(u) - o \in -1 .. 1
  <2>1. Offset(u) \in {zone.winter, zone.summer}
    BY <1>6
  <2> QED BY <1>1, <1>3, <1>5, <1>7, <1>8, <2>1 DEF Local, Hours
<1>11. \A u \in Int : u - d = 0 /\ Offset(u) = o => Hour(u) = a
  <2> TAKE u \in Int
  <2> HAVE u - d = 0 /\ Offset(u) = o
  <2>1. Local(u) = q * Hours + a
    BY <1>1, <1>3, <1>10, <1>7 DEF Hours
  <2> QED BY <1>7, <2>1, SameHour DEF Hour
<1>12. ASSUME Steady(f - Hours) PROVE OnTimeAt(f, a)
  <2> DEFINE p == Offset(f - Hours)
  <2>1. ASSUME NEW u \in Int, u - f \in -2 * Hours .. 1 PROVE Offset(u) = p
    <3> DEFINE e == u - (f - Hours)
    <3>1. e \in -Hours .. Hours + 1 /\ (f - Hours) + e = u
      BY <1>9, <2>1 DEF Hours
    <3> HIDE DEF e
    <3>2. Offset((f - Hours) + e) = p
      BY <1>12, <3>1 DEF Steady
    <3> QED BY <3>1, <3>2
  <2> HIDE DEF p
  <2>2. v - f \in -2 * Hours .. 1 /\ d - f \in -2 * Hours .. 1 /\ f - f \in -2 * Hours .. 1
    BY <1>4, <1>8, <1>9 DEF Hours
  <2>3. Offset(v) = p /\ Offset(d) = p /\ Offset(f) = p
    BY <1>4, <1>8, <1>9, <2>1, <2>2
  <2>4. o = p /\ d - d = 0
    BY <1>4, <1>8, <2>3
  <2>5. Hour(d) = a
    BY <1>8, <1>11, <2>3, <2>4
  <2>6. f - d = 0 \/ f - d = Hours
    BY <1>8, <1>9, <2>5 DEF Hours
  <2>7. Local(f) = q * Hours + a \/ Local(f) = (q + 1) * Hours + a
    <3>1. Local(f) = q * Hours + (a + (f - d) + (Offset(f) - o))
      BY <1>9, <1>10
    <3>2. Offset(f) - o = 0
      BY <1>3, <2>3, <2>4
    <3>3. CASE f - d = 0
      <4>1. Local(f) = q * Hours + (a + 0 + 0)
        BY <3>1, <3>2, <3>3
      <4> QED BY <1>1, <4>1
    <3>4. CASE f - d = Hours
      <4>1. Local(f) = q * Hours + (a + Hours + 0)
        BY <3>1, <3>2, <3>4
      <4>2. q * Hours + (a + Hours + 0) = (q + 1) * Hours + a
        BY <1>1, <1>7 DEF Hours
      <4> QED BY <4>1, <4>2
    <3> QED BY <2>6, <3>3, <3>4
  <2>8. (q * Hours + a) % Hours = a /\ ((q + 1) * Hours + a) % Hours = a
    BY <1>7, SameHour
  <2>9. Hour(f) = a
    BY <2>7, <2>8 DEF Hour
  <2> QED BY <2>9 DEF OnTimeAt
<1>13. ASSUME ~Steady(f - Hours) PROVE OnTimeAt(f, a)
  <2>1. PICK e \in -1 .. 2, k \in Int : Local(f) = k * Hours + (a + e)
    <3> DEFINE x == Offset(f) - o
    <3>1. x \in -1 .. 1 /\ Local(f) = q * Hours + (a + (f - d) + x)
      BY <1>9, <1>10
    <3> HIDE DEF x
    <3>2. CASE f - d \in {0, 1}
      <4>1. (f - d) + x \in -1 .. 2 /\ Local(f) = q * Hours + (a + ((f - d) + x))
        BY <1>1, <1>8, <1>9, <3>1, <3>2
      <4> QED BY <1>7, <4>1
    <3>3. CASE f - d \in {Hours, Hours + 1}
      <4>1. /\ (f - d) - Hours + x \in -1 .. 2 /\ q + 1 \in Int
            /\ Local(f) = (q + 1) * Hours + (a + ((f - d) - Hours + x))
        BY <1>1, <1>7, <1>8, <1>9, <3>1, <3>3 DEF Hours
      <4> QED BY <4>1
    <3>4. f - d \in {0, 1, Hours, Hours + 1}
      BY <1>8, <1>9 DEF Hours
    <3> QED BY <3>2, <3>3, <3>4
  <2>2. Hour(f) = (k * Hours + (a + e)) % Hours
    BY <2>1 DEF Hour
  <2>3. CASE a + e \in 0 .. Hours - 1
    <3>1. Hour(f) = a + e
      BY <2>2, <2>3, SameHour
    <3>2. Hour(f) - a = e
      BY <1>1, <3>1
    <3>3. Hour(f) = a \/ (Hour(f) - a) % Hours \in {1, 2, Hours - 1}
      BY <1>1, <3>1, <3>2 DEF Hours
    <3> QED BY <1>13, <3>3 DEF OnTimeAt
  <2>4. CASE a + e < 0
    <3>1. k * Hours + (a + e) = (k - 1) * Hours + (a + e + Hours) /\ k - 1 \in Int
          /\ a + e + Hours \in 0 .. Hours - 1
      BY <1>1, <2>4 DEF Hours
    <3>2. Hour(f) = a + e + Hours
      BY <2>2, <3>1, SameHour
    <3>3. e = -1 /\ Hour(f) - a = 23
      BY <1>1, <2>4, <3>2 DEF Hours
    <3> QED BY <1>13, <3>3 DEF OnTimeAt, Hours
  <2>5. CASE a + e >= Hours
    <3>1. k * Hours + (a + e) = (k + 1) * Hours + (a + e - Hours) /\ k + 1 \in Int
          /\ a + e - Hours \in 0 .. Hours - 1
      BY <1>1, <2>5 DEF Hours
    <3>2. Hour(f) = a + e - Hours
      BY <2>2, <3>1, SameHour
    <3>3. e \in {1, 2} /\ Hour(f) - a = e - 24
      BY <1>1, <2>5, <3>2 DEF Hours
    <3>4. (Hour(f) - a) % Hours \in {1, 2}
      BY <3>3 DEF Hours
    <3> QED BY <1>13, <3>4 DEF OnTimeAt
  <2> QED BY <1>1, <2>3, <2>4, <2>5 DEF Hours
<1> QED BY <1>12, <1>13 DEF f

\* While Run waits, the timer will run out at a time that is right for its hour.
FireInv ==
    /\ WaitInv /\ now \in 0 .. Year - 1
    /\ pc = "wait" /\ timer.at # Off => OnTimeAt(now + timer.left, timer.at)

\* An hour passes, perhaps the last one of the year.
LEMMA FireTick ==
    ASSUME FireInv, Tick, WaitInv'
    PROVE  FireInv'
<1>1. Year \in Nat \ {0}
    BY SchedulerAssumption DEF Year, Hours
<1>2. now \in 0 .. Year - 1 /\ now' = (now + 1) % Year /\ pc' = pc /\ ClockOK
    BY DEF FireInv, Tick, WaitInv
<1>3. now' \in 0 .. Year - 1 /\ (now' = now + 1 \/ now' = now + 1 - Year)
  <2>1. CASE now + 1 < Year
    <3>1. (now + 1) % Year = now + 1
      BY <1>1, <1>2, <2>1
    <3> QED BY <1>1, <1>2, <2>1, <3>1
  <2>2. CASE now + 1 = Year
    <3>1. Year % Year = 0
      BY <1>1
    <3> QED BY <1>1, <1>2, <2>2, <3>1
  <2> QED BY <1>1, <1>2, <2>1, <2>2
<1>4. ASSUME pc' = "wait", timer'.at # Off PROVE OnTimeAt(now + timer.left, timer.at)'
  <2>1. timer.at # Off /\ timer'.at = timer.at /\ timer'.left = timer.left - 1 /\ timer.left \in Nat
    BY <1>4 DEF Tick, FireInv, WaitInv, TimerOK
  <2>2. OnTimeAt(now + timer.left, timer.at)
    BY <1>2, <1>4, <2>1 DEF FireInv
  <2> DEFINE f == now + timer.left
             g == now' + timer'.left
  <2>3. f \in Int /\ (g = f \/ g = f - Year)
    BY <1>1, <1>2, <1>3, <2>1
  <2>4. OnTimeAt(f - Year, timer.at)
    BY <1>2, <2>2, <2>3, OnTimeYearBefore
  <2> HIDE DEF f, g
  <2>5. OnTimeAt(g, timer.at)
    BY <2>2, <2>3, <2>4 DEF f
  <2>6. zone' = zone
    BY DEF Tick
  <2> QED BY <2>1, <2>5, <2>6 DEF g, OnTimeAt, Hour, Local, Offset, Steady
<1> QED BY <1>3, <1>4 DEF FireInv

\* Every step keeps the timer right; it is set by Arm, and moves with the clock.
LEMMA FireStep ==
    ASSUME FireInv, [Next]_vars, WaitInv'
    PROVE  FireInv'
<1>1. CASE Tick
    BY <1>1, FireTick
<1>2. ASSUME ~Tick PROVE now' = now /\ zone' = zone
    BY <1>2 DEF Next, vars, Reload, SetSchedule, Load, Arm, Reloaded, Fire, Snapshot, Down, Boot
<1>3. CASE Arm
  <2>1. ~Tick
    BY <1>3 DEF Arm, Tick
  <2>2. now' = now /\ zone' = zone
    BY <1>2, <2>1
  <2>3. ASSUME timer'.at # Off PROVE OnTimeAt(now + timer.left, timer.at)'
    <3>1. timer.at # Off /\ timer'.at = timer.at /\ timer'.left = untilNext(timer.at)
      BY <1>3, <2>3 DEF Arm, NoTimer, FireInv, WaitInv, TimerOK
    <3>2. timer.at \in 0 .. Hours - 1 /\ ClockOK
      BY <3>1, SchedulerAssumption DEF FireInv, WaitInv
    <3>3. OnTimeAt(now + untilNext(timer.at), timer.at)
      BY <3>2, ArmedOnTime
    <3>4. OnTimeAt(now' + timer'.left, timer'.at)
      BY <2>2, <3>1, <3>3
    <3> QED BY <2>2, <3>4 DEF OnTimeAt, Hour, Local, Offset, Steady
  <2> QED BY <2>2, <2>3 DEF FireInv
<1>4. CASE ~Tick /\ ~Arm
  <2>1. now' = now /\ zone' = zone
    BY <1>2, <1>4
  <2>2. pc' = "wait" => pc = "wait" /\ timer' = timer
    BY <1>4 DEF Next, vars, Reload, SetSchedule, Load, Reloaded, Fire, Snapshot, Down, Boot
  <2>3. ASSUME pc' = "wait", timer'.at # Off PROVE OnTimeAt(now + timer.left, timer.at)'
    <3>1. OnTimeAt(now' + timer'.left, timer'.at)
      BY <2>1, <2>2, <2>3 DEF FireInv
    <3> QED BY <2>1, <3>1 DEF OnTimeAt, Hour, Local, Offset, Steady
  <2> QED BY <2>1, <2>3 DEF FireInv
<1> QED BY <1>1, <1>3, <1>4

\* A backup is taken at its hour, in every zone and at every time of the year; only when
\* the clocks have been changed within two days it may be an hour early or an hour or two
\* late, as when the hour is skipped or Run set its timer before the change.
THEOREM BackupOnTime == Spec => OnTime
<1>1. Init => WaitInv
    BY ClockInit DEF Init, NoTimer, WaitInv, TimerOK
<1>2. Init => FireInv
    BY <1>1 DEF Init, FireInv
<1>3. FireInv /\ [Next]_vars => FireInv'
  <2>1. FireInv /\ [Next]_vars => WaitInv'
    BY WaitStep DEF FireInv
  <2> QED BY <2>1, FireStep
<1> DEFINE A == Fire =>
        \/ Hour(now) = timer.at
        \/ /\ ~Steady(now - Hours)
           /\ (Hour(now) - timer.at) % Hours \in {1, 2, Hours - 1}
<1>4. FireInv /\ [Next]_vars => [A]_vars
  <2> SUFFICES ASSUME FireInv, Fire PROVE OnTimeAt(now, timer.at)
    BY DEF OnTimeAt
  <2>1. OnTimeAt(now + timer.left, timer.at) /\ timer.left = 0 /\ now \in Int
    BY DEF Fire, Due, FireInv, WaitInv, ClockOK
  <2>2. now + timer.left = now
    BY <2>1
  <2> QED BY <2>1, <2>2
<1> HIDE DEF A
<1>5. Spec => [][A]_vars
    BY <1>2, <1>3, <1>4, PTL DEF Spec
<1> QED BY <1>5 DEF A, OnTime

=============================================================================
