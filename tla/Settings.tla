------------------------------ MODULE Settings ------------------------------
(***************************************************************************)
(* The configuration: the environment of the process, the settings stored  *)
(* in the database, what is in force, and the start of the process with    *)
(* the migrations of the schema.                                           *)
(*                                                                         *)
(* A handler stores the settings in one transaction and applies them in a  *)
(* later step.  A migration and its version are one transaction.  The      *)
(* process may die at any step, and be started with another environment or *)
(* on a database from an older or newer release.                           *)
(***************************************************************************)
EXTENDS Integers, Sequences

CONSTANTS
    Req,          \* handlers in flight together
    Envs,         \* environments the process is started with
    BackupForms,  \* forms posted to saveBackupConfig
    SessionForms, \* forms posted to saveSessionConfig
    Rows,         \* settings a database comes with, or its rows are edited to
    DefaultAt,    \* 03:00
    DefaultPar,   \* the number of processors, four at most
    MaxCrash,     \* bound: deaths of the process
    Off, Unset, Bad, Nil \* the empty time, no such variable, not parseable, no such row

Latest == 4       \* len(migrations)
SettingsTable == 3 \* the migration that creates app_settings

Text == Seq(Int \X {"h", "m", "s"}) \* a duration as it is written

ASSUME SettingsAssumption ==
    /\ MaxCrash \in Nat /\ DefaultPar \in 1 .. 4
    /\ {Unset, Bad, Nil} \cap Int = {} /\ {Bad, Nil} \cap Text = {}
    /\ DefaultAt \notin {Unset, Bad, Nil}
    /\ \A e \in Envs : {e.keep, e.idle, e.max, e.mem, e.time, e.par} \subseteq Int \cup {Unset, Bad}
    /\ \A f \in BackupForms : f.at # Nil /\ f.keep \in Int \cup {Bad}
    /\ \A f \in SessionForms : f.idle \in Int /\ f.max \in Int

VARIABLES
    pc,      \* "down", "open" (migrating), "merge", "up"
    env,     \* the environment
    disk,    \* the database: schema version, migrations in it, stored settings
    live,    \* what is in force: the schedule, the timeouts, the parameters of the KDF
    merged,  \* whether the stored settings were used at the start
    req,     \* req[r]: what the handler r has stored and is about to apply
    alone,   \* whether saves come one at a time
    crashes

vars == <<pc, env, disk, live, merged, req, alone, crashes>>

Blank == [at |-> Nil, keep |-> Nil, idle |-> Nil, max |-> Nil]
Idle == [pc |-> "idle"]

---------------------------------------------------------------------------
\* Durations, in seconds, and their text: numbers with units.

Seconds(unit) == CASE unit = "h" -> 3600 [] unit = "m" -> 60 [] OTHER -> 1

\* Duration.String: hours and minutes only if there are any.
String(d) ==
    LET h == <<d \div 3600, "h">>
        m == <<(d \div 60) % 60, "m">>
        s == <<d % 60, "s">>
    IN  IF d >= 3600 THEN <<h, m, s>> ELSE IF d >= 60 THEN <<m, s>> ELSE <<s>>

\* Drop the last number of the text t if it is 0 of this unit and not the first.
Trim(t, unit) ==
    IF Len(t) > 1 /\ t[Len(t)] = <<0, unit>> THEN SubSeq(t, 1, Len(t) - 1) ELSE t

\* A suffix "0m" of the text is taken for no minutes: 30m loses its unit.
TrimLoose(t, unit) ==
    IF t[Len(t)][1] % 10 = 0 /\ t[Len(t)][2] = unit
    THEN IF t[Len(t)][1] = 0 THEN SubSeq(t, 1, Len(t) - 1) ELSE Bad
    ELSE t
shortDurLoose(d) == TrimLoose(Trim(String(d), "s"), "m")
shortDur(d) == Trim(Trim(String(d), "s"), "m")

\* ParseDuration: the sum, or Nil.
ParseDuration(t) ==
    LET sum[k \in 0 .. Len(t)] == IF k = 0 THEN 0 ELSE sum[k - 1] + t[k][1] * Seconds(t[k][2])
    IN  IF t = Bad THEN Nil ELSE sum[Len(t)]

ASSUME RowsAssumption == \A kv \in Rows :
    /\ DOMAIN kv = DOMAIN Blank /\ kv.keep \in Int \cup {Nil, Bad}
    /\ \A t \in {kv.idle, kv.max} : t \in {Nil, Bad} \/ ParseDuration(t) \in Int

---------------------------------------------------------------------------
\* config.go.

\* env, to which an empty variable is none, and envInt and envDur, which ignore what
\* they cannot parse.
EnvText(v, default) == IF v \in {Unset, Off} THEN default ELSE v
EnvNum(v, default) == IF v \in {Unset, Bad} THEN default ELSE v

\* loadArgon: in range as integers, then narrowed to 32 and 8 bits; or Nil.
loadArgon(e) ==
    LET mem == EnvNum(e.mem, 64)
        time == EnvNum(e.time, 3)
        par == EnvNum(e.par, DefaultPar)
    IN  IF mem \in 19 .. 4096 /\ time \in 2 .. 30 /\ par \in 1 .. 255
        THEN [mem |-> mem * 1024, time |-> time, par |-> par % 256] ELSE Nil

\* Validate: Nil for a time that does not parse, the rest is raised to its floor.
AtLeast(n, floor) == IF n < floor THEN floor ELSE n
Validate(c) ==
    LET idle == IF c.idle <= 0 THEN 1800 ELSE c.idle
    IN  IF c.at = Bad THEN Nil
        ELSE [c EXCEPT !.keep = AtLeast(@, 1), !.idle = idle, !.max = AtLeast(@, idle)]

Load(e) ==
    IF loadArgon(e) = Nil THEN Nil
    ELSE Validate([at |-> EnvText(e.at, DefaultAt), keep |-> EnvNum(e.keep, 14),
                   idle |-> EnvNum(e.idle, 1800), max |-> EnvNum(e.max, 43200),
                   kdf |-> loadArgon(e)])

\* WithOverrides: a stored time replaces the default as it is, a stored number only
\* if it parses; then all of it is validated.
Overridden(c, kv) ==
    LET num(v, default) == IF v \in {Nil, Bad} THEN default ELSE v
        dur(v, default) == IF v = Nil THEN default ELSE num(ParseDuration(v), default)
    IN  [c EXCEPT !.at = IF kv.at = Nil THEN @ ELSE kv.at, !.keep = num(kv.keep, @),
                  !.idle = dur(kv.idle, @), !.max = dur(kv.max, @)]
WithOverridesParsed(c, kv) == IF kv.at = Bad THEN Nil ELSE Overridden(c, kv)
WithOverrides(c, kv) == Validate(Overridden(c, kv))

---------------------------------------------------------------------------
\* The start: Load, Open with its migrations, the stored settings.

\* A database of the schema v, with the settings of its time.
Database(v) ==
    {[ver |-> v, tables |-> 1 .. v, kv |-> kv] : kv \in IF v < SettingsTable THEN {Blank} ELSE Rows}

Init ==
    /\ pc = "down" /\ env \in Envs
    /\ \E v \in 0 .. Latest + 1 : disk \in Database(v)
    /\ live = Nil /\ merged = FALSE
    /\ req = [r \in Req |-> Idle] /\ alone \in BOOLEAN
    /\ crashes = 0

Start ==
    /\ pc = "down" /\ Load(env) # Nil /\ disk.ver <= Latest
    /\ pc' = "open"
    /\ UNCHANGED <<env, disk, live, merged, req, alone, crashes>>

\* One migration, which fails if its tables are there already.
MigrateSkip ==
    /\ pc = "open" /\ disk.ver < Latest
    /\ disk' = [disk EXCEPT !.ver = @ + 1,
                            !.tables = IF disk.ver = 0 THEN @ ELSE @ \cup {disk.ver + 1}]
    /\ UNCHANGED <<pc, env, live, merged, req, alone, crashes>>
MigrateUnversioned ==
    /\ pc = "open" /\ disk.ver < Latest
    /\ IF disk.ver + 1 \in disk.tables THEN pc' = "down" /\ UNCHANGED disk
       ELSE \/ /\ disk' = [disk EXCEPT !.ver = @ + 1, !.tables = @ \cup {disk.ver + 1}]
               /\ UNCHANGED pc
            \/ disk' = [disk EXCEPT !.tables = @ \cup {disk.ver + 1}] /\ pc' = "down"
    /\ UNCHANGED <<env, live, merged, req, alone, crashes>>
Migrate ==
    /\ pc = "open" /\ disk.ver < Latest
    /\ disk.ver + 1 \notin disk.tables
    /\ disk' = [disk EXCEPT !.ver = @ + 1, !.tables = @ \cup {disk.ver + 1}]
    /\ UNCHANGED <<pc, env, live, merged, req, alone, crashes>>

Opened ==
    /\ pc = "open" /\ disk.ver = Latest
    /\ pc' = "merge"
    /\ UNCHANGED <<env, disk, live, merged, req, alone, crashes>>

\* The stored settings, or the environment alone if they do not validate or cannot
\* be read.
Merge ==
    /\ pc = "merge" /\ pc' = "up"
    /\ \E readable \in BOOLEAN :
          /\ merged' = (readable /\ WithOverrides(Load(env), disk.kv) # Nil)
          /\ live' = IF merged' THEN WithOverrides(Load(env), disk.kv) ELSE Load(env)
    /\ UNCHANGED <<env, disk, req, alone, crashes>>

Crash ==
    /\ pc # "down" /\ crashes < MaxCrash
    /\ pc' = "down" /\ live' = Nil /\ merged' = FALSE /\ req' = [r \in Req |-> Idle]
    /\ crashes' = crashes + 1
    /\ UNCHANGED <<env, disk, alone>>

\* While the process is down: another environment, a row edited by hand or deleted, a
\* snapshot of an earlier time or release restored.
Configure(e) ==
    /\ pc = "down" /\ env' = e
    /\ UNCHANGED <<pc, disk, live, merged, req, alone, crashes>>

Edit(k) ==
    /\ pc = "down" /\ SettingsTable \in disk.tables
    /\ \E kv \in Rows : disk' = [disk EXCEPT !.kv[k] = kv[k]]
    /\ UNCHANGED <<pc, env, live, merged, req, alone, crashes>>

Restored(v) ==
    /\ pc = "down" /\ disk.ver = Latest
    /\ disk' \in Database(v)
    /\ UNCHANGED <<pc, env, live, merged, req, alone, crashes>>

---------------------------------------------------------------------------
\* The handlers: validate, store in one transaction, apply.

MayBegin(r) == pc = "up" /\ req[r] = Idle /\ (alone => \A q \in Req : req[q] = Idle)

SaveBackup(r, f) ==
    /\ MayBegin(r) /\ f.at # Bad /\ f.keep # Bad /\ f.keep >= 1
    /\ disk' = [disk EXCEPT !.kv.at = f.at, !.kv.keep = f.keep]
    /\ req' = [req EXCEPT ![r] = [pc |-> "backup", at |-> f.at, keep |-> f.keep]]
    /\ UNCHANGED <<pc, env, live, merged, alone, crashes>>

SaveSession(r, f) ==
    /\ MayBegin(r) /\ f.idle > 0 /\ f.max > 0 /\ f.max >= f.idle
    /\ disk' = [disk EXCEPT !.kv.idle = shortDur(f.idle), !.kv.max = shortDur(f.max)]
    /\ req' = [req EXCEPT ![r] = [pc |-> "session", idle |-> f.idle, max |-> f.max]]
    /\ UNCHANGED <<pc, env, live, merged, alone, crashes>>

\* SetSchedule and SetTimeouts.
SetSchedule(r) ==
    /\ req[r].pc = "backup"
    /\ live' = [live EXCEPT !.at = req[r].at, !.keep = AtLeast(req[r].keep, 1)]
    /\ req' = [req EXCEPT ![r] = Idle]
    /\ UNCHANGED <<pc, env, disk, merged, alone, crashes>>

SetTimeouts(r) ==
    /\ req[r].pc = "session"
    /\ live' = [live EXCEPT !.idle = req[r].idle, !.max = req[r].max]
    /\ req' = [req EXCEPT ![r] = Idle]
    /\ UNCHANGED <<pc, env, disk, merged, alone, crashes>>

---------------------------------------------------------------------------

Next ==
    \/ Start \/ Migrate \/ Opened \/ Merge \/ Crash
    \/ \E e \in Envs : Configure(e)
    \/ \E k \in DOMAIN Blank : Edit(k)
    \/ \E v \in 1 .. Latest : Restored(v)
    \/ \E r \in Req : \/ \E f \in BackupForms : SaveBackup(r, f)
                      \/ \E f \in SessionForms : SaveSession(r, f)
                      \/ SetSchedule(r) \/ SetTimeouts(r)

Spec == Init /\ [][Next]_vars

\* The restart policy starts the process again, and a start goes on.
Fairness == WF_vars(Start) /\ WF_vars(Migrate) /\ WF_vars(Opened) /\ WF_vars(Merge)

FairSpec == Spec /\ Fairness

---------------------------------------------------------------------------

\* What is in force satisfies the floors, whatever the environment and the rows
\* hold, parseable or not, in range or not, and however saves overlap: a time that
\* parses, a snapshot kept, an idle timeout that is positive and not beyond the
\* absolute one, and a key derivation with the parameters asked for, none of which
\* wrapped around into its range.
InForce ==
    pc = "up" => /\ live.at # Bad /\ live.keep >= 1
                 /\ 0 < live.idle /\ live.idle <= live.max
                 /\ live.kdf = [mem |-> 1024 * EnvNum(env.mem, 64), time |-> EnvNum(env.time, 3),
                               par |-> EnvNum(env.par, DefaultPar)]

\* "saved and applied": when saves come one at a time and none is under way, what
\* is in force is what a restart would load, of rows that the last start used.  A
\* start that could not read the rows, or discarded all of them for a time that does
\* not parse, runs on the environment until the next one; what is saved in between
\* is applied to that.
AppliedIsStored ==
    alone /\ pc = "up" /\ merged /\ (\A r \in Req : req[r] = Idle)
        => live = WithOverrides(Load(env), disk.kv)

\* The same for saves that overlap.
AppliedIsStoredAlways ==
    pc = "up" /\ merged /\ (\A r \in Req : req[r] = Idle)
        => live = WithOverrides(Load(env), disk.kv)

\* Requests are served on the newest schema only, with all of its tables.
SchemaComplete == pc = "up" => disk.ver = Latest /\ disk.tables = 1 .. Latest

\* An interrupted migration is resumed: with an environment that is valid and a
\* database that is not from a newer release, the process comes up and stays up.
ComesUp ==
    <>[](Load(env) # Nil /\ disk.ver <= Latest) => <>[](pc = "up")

\* "Unknown or unparseable values are ignored": a malformed row does not affect
\* what the other rows say.
MalformedIgnored ==
    pc = "up" /\ (\A r \in Req : req[r] = Idle)
    /\ disk.kv.idle \notin {Nil, Bad} /\ ParseDuration(disk.kv.idle) > 0
        => live.idle = ParseDuration(disk.kv.idle)

\* "empty disables": with an empty GRAFTED_BACKUP_AT and no stored time, nothing is
\* scheduled.
EmptyDisables ==
    pc = "up" /\ env.at = Off /\ disk.kv.at = Nil => live.at = Off

=============================================================================
