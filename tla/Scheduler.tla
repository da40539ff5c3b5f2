----------------------------- MODULE Scheduler -----------------------------
(***************************************************************************)
(* The daily backup: the loop Run of backup.Scheduler with its timer, the  *)
(* live change of the schedule through the one-slot channel reload, and    *)
(* untilNext on a wall clock with summer time.                             *)
(*                                                                         *)
(* Time is counted in hours of UTC and wraps around after a short year     *)
(* with one change to summer time and one back.  The timer counts down     *)
(* what untilNext returned.  Between two statements of a handler, while    *)
(* the loop has something to receive and while a snapshot is written the   *)
(* clock stands still: none of that takes an hour.                         *)
(***************************************************************************)
EXTENDS Integers

CONSTANTS
    Req,    \* handlers that change the schedule
    Zones,  \* time zones: offsets in winter and summer, and when they change
    At,     \* the hours a backup may be scheduled for
    Days,   \* days in a year
    Off     \* the empty schedule

Hours == 24
Year == Hours * Days

ASSUME SchedulerAssumption ==
    /\ Days \in Nat \ {0} /\ At \subseteq 0 .. Hours - 1 /\ Off \notin Int
    /\ \A z \in Zones : /\ z.winter \in Int /\ z.summer \in {z.winter, z.winter + 1}
                        /\ z.spring \in 0 .. Year - 1 /\ z.autumn \in z.spring + 1 .. Year - 1

VARIABLES
    now,    \* UTC, in hours
    zone,   \* the location of the process
    at,     \* Scheduler.at
    reload, \* whether the channel holds a token
    pc,     \* Run: "load", "arm", "wait", "snapshot", or "down"
    timer,  \* the schedule Run has read, and the hours left
    set,    \* set[r]: whether SetSchedule has stored the schedule and not yet sent
    since   \* history: hours since a backup, a start or a reload

vars == <<now, zone, at, reload, pc, timer, set, since>>

MaxWait == Hours + 1
NoTimer == [at |-> Off, left |-> 0]

TypeOK ==
    /\ now \in 0 .. Year - 1 /\ zone \in Zones /\ at \in At \cup {Off}
    /\ reload \in BOOLEAN /\ pc \in {"load", "arm", "wait", "snapshot", "down"}
    /\ timer \in [at: At \cup {Off}, left: 0 .. MaxWait]
    /\ set \in [Req -> BOOLEAN] /\ since \in Nat

Init ==
    /\ now \in 0 .. Year - 1 /\ zone \in Zones
    /\ at \in At \cup {Off}
    /\ reload = FALSE /\ pc = "load" /\ timer = NoTimer
    /\ set = [r \in Req |-> FALSE] /\ since = 0

---------------------------------------------------------------------------
\* The wall clock.

Offset(t) == IF t % Year \in zone.spring .. zone.autumn - 1 THEN zone.summer ELSE zone.winter
Local(t) == t + Offset(t)
Hour(t) == Local(t) % Hours
Midnight(t) == (Local(t) \div Hours) * Hours

\* time.Date: the offset looked up at the wall time as if it were UTC, and looked up
\* again at the result when that is on the other side of a change.
Date(w) == IF Offset(w) = 0 THEN w ELSE w - Offset(w - Offset(w))

\* untilNext: today at that hour; one hour more if there is no such hour today; a
\* day more if it is not after now.
untilNextUTC(a) == IF a = now % Hours THEN Hours ELSE (a - now) % Hours
untilNextSkips(a) ==
    LET d == Date(Midnight(now) + a)
        next == IF Hour(d) # a THEN d + Hours ELSE d
    IN  IF next <= now THEN next + Hours - now ELSE next - now
untilNext(a) ==
    LET d == Date(Midnight(now) + a)
        next == IF Hour(d) # a THEN d + 1 ELSE d
    IN  IF next <= now THEN next + Hours - now ELSE next - now

---------------------------------------------------------------------------
\* SetSchedule: the schedule under the mutex, then the token, if there is room.

SetSchedule(r, a) ==
    /\ pc # "down" /\ ~set[r]
    /\ at' = a /\ set' = [set EXCEPT ![r] = TRUE]
    /\ UNCHANGED <<now, zone, reload, pc, timer, since>>

ReloadUnbuffered(r) ==
    /\ set[r] /\ set' = [set EXCEPT ![r] = FALSE]
    /\ reload' = (pc = "wait")
    /\ UNCHANGED <<now, zone, at, pc, timer, since>>
Reload(r) ==
    /\ set[r] /\ set' = [set EXCEPT ![r] = FALSE]
    /\ reload' = TRUE
    /\ UNCHANGED <<now, zone, at, pc, timer, since>>

---------------------------------------------------------------------------
\* Run: the schedule is read, the timer set, and one of what is ready received.

Load ==
    /\ pc = "load" /\ pc' = "arm"
    /\ timer' = [at |-> at, left |-> 0]
    /\ UNCHANGED <<now, zone, at, reload, set, since>>

Arm ==
    /\ pc = "arm" /\ pc' = "wait"
    /\ timer' = IF timer.at = Off THEN NoTimer ELSE [timer EXCEPT !.left = untilNext(timer.at)]
    /\ UNCHANGED <<now, zone, at, reload, set, since>>

Due == pc = "wait" /\ timer.at # Off /\ timer.left = 0

\* The timer is stopped; had it run out, this backup does not take place.
Reloaded ==
    /\ pc = "wait" /\ reload
    /\ reload' = FALSE /\ pc' = "load" /\ timer' = NoTimer /\ since' = 0
    /\ UNCHANGED <<now, zone, at, set>>

FireForgotten ==
    /\ Due /\ pc' = "load" /\ since' = 0
    /\ UNCHANGED <<now, zone, at, reload, timer, set>>
Fire ==
    /\ Due /\ pc' = "snapshot"
    /\ UNCHANGED <<now, zone, at, reload, timer, set, since>>

\* Snapshot returns, with a file or with an error that is logged.
SnapshotTicker ==
    /\ pc = "snapshot" /\ pc' = "wait" /\ timer' = [timer EXCEPT !.left = Hours] /\ since' = 0
    /\ UNCHANGED <<now, zone, at, reload, set>>
Snapshot ==
    /\ pc = "snapshot" /\ pc' = "load" /\ timer' = NoTimer /\ since' = 0
    /\ UNCHANGED <<now, zone, at, reload, set>>

---------------------------------------------------------------------------

Down ==
    /\ pc # "down" /\ pc' = "down"
    /\ timer' = NoTimer /\ reload' = FALSE /\ set' = [r \in Req |-> FALSE] /\ since' = 0
    /\ UNCHANGED <<now, zone, at>>

\* New, with the schedule the configuration gives by then.
Boot(a) ==
    /\ pc = "down" /\ pc' = "load"
    /\ at' = a
    /\ UNCHANGED <<now, zone, reload, timer, set, since>>

Tick ==
    /\ pc \in {"wait", "down"} /\ ~Due /\ ~reload /\ \A r \in Req : ~set[r]
    /\ now' = (now + 1) % Year
    /\ timer' = IF timer.at = Off THEN timer ELSE [timer EXCEPT !.left = @ - 1]
    /\ since' = IF timer.at = Off THEN 0 ELSE since + 1
    /\ UNCHANGED <<zone, at, reload, pc, set>>

Next ==
    \/ \E r \in Req : Reload(r) \/ \E a \in At \cup {Off} : SetSchedule(r, a)
    \/ Load \/ Arm \/ Reloaded \/ Fire \/ Snapshot
    \/ Tick \/ Down \/ \E a \in At \cup {Off} : Boot(a)

Spec == Init /\ [][Next]_vars

\* The goroutine of Run and the handlers are scheduled, snapshots return, and time
\* goes on.  Nobody has to change the schedule, and the process may stay up or down.
Fairness ==
    /\ WF_vars(Load) /\ WF_vars(Arm) /\ WF_vars(Reloaded) /\ WF_vars(Fire) /\ WF_vars(Snapshot)
    /\ WF_vars(Tick) /\ \A r \in Req : WF_vars(Reload(r))

FairSpec == Spec /\ Fairness

---------------------------------------------------------------------------

\* Whether the clocks stay as they are from a day before t to a day after it.
Steady(t) == \A d \in -Hours .. Hours + 1 : Offset(t + d) = Offset(t)

\* The reference for untilNext: the next hour that reads a on the wall clock.
NextOccurrence(a) == CHOOSE d \in 1 .. Hours + 1 :
                        /\ Hour(now + d) = a
                        /\ \A e \in 1 .. d - 1 : Hour(now + e) # a

\* "untilNext returns the duration from now to the next occurrence": exactly, while
\* the clocks are not changed.
UntilNextExact == \A a \in At : Steady(now) => untilNext(a) = NextOccurrence(a)

\* A live change is never lost: while Run holds another schedule than the one in
\* force, a token is in the channel or about to be sent.
ReloadNotLost ==
    pc \in {"arm", "wait"} /\ timer.at # at => reload \/ \E r \in Req : set[r]

\* A backup is attempted every day: while nobody saves the schedule and the process
\* runs, no more than a day and an hour pass without a call of Snapshot, also when the
\* clocks are changed. A call that fails counts: Run logs the error and waits for the
\* next day, it does not try again.
DailyBackup == since <= Hours + 1

\* A backup is taken at the hour, or an hour off, two at most, if the clocks have
\* been changed within two days.
OnTime ==
    [][Fire =>
        \/ Hour(now) = timer.at
        \/ /\ ~Steady(now - Hours)
           /\ (Hour(now) - timer.at) % Hours \in {1, 2, Hours - 1}]_vars

\* Once the schedule stays enabled, backups go on for ever.
BackupsGoOn ==
    <>[](at # Off /\ pc # "down" /\ \A r \in Req : ~set[r]) => []<>(pc = "snapshot")

\* Of a wall time that does not exist today, backup.go says that time.Date
\* "normalizes it backwards an hour; nudge it forward to the intended time": the
\* backup is taken when the clocks have been put forward.
NudgedToIntended ==
    \A a \in At : Hour(Date(Midnight(now) + a)) # a /\ now \in Midnight(now) - zone.winter .. zone.spring - 1
        => now + untilNext(a) = zone.spring

=============================================================================
