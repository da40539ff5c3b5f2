--------------------------- MODULE BackupRestore ---------------------------
(***************************************************************************)
(* The database file, its snapshots, and the restore that replaces it.     *)
(*                                                                         *)
(* A snapshot is a VACUUM INTO a file named by the second it was asked     *)
(* for, followed by a prune of the names beyond the retention.  A restore  *)
(* copies its source to restore-pending.db.tmp, validates the copy, takes  *)
(* a snapshot, renames the copy to restore-pending.db and asks for a       *)
(* restart; the next boot swaps it in.  The process can die at any step;   *)
(* what is on disk survives.                                               *)
(*                                                                         *)
(* The content of a file is a version of the vault; or Torn, the pages of  *)
(* more than one version or not all the pages of one, with enough of a     *)
(* vault among them to pass the validation, which counts no pages and      *)
(* checks no integrity; or Junk, what does not pass it (empty, half        *)
(* written, not a vault); or Blank, a database Open has just created.      *)
(***************************************************************************)
EXTENDS Integers, Sequences, FiniteSets

CONSTANTS
    Req,        \* handlers (the scheduler's goroutine among them) in flight together
    Ino,        \* files behind the names restore-pending.db and .tmp
    Keeps,      \* retentions the settings can hold
    ClockStep,  \* how far the local clock moves from one snapshot's name to the next
    Suffix,     \* random suffixes of snapshot names
    MaxVer,     \* bound: versions of the vault
    MaxOps,     \* bound: backups and restores
    MaxCrash,   \* bound: crashes
    Faults,     \* whether VACUUM INTO can fail
    LateWrites, \* whether other requests write between a restore's snapshot and the exit
    Torn, Junk, Blank, Nil

Version == 0 .. MaxVer
Vault == Version \cup {Torn}
Content == Vault \cup {Junk, Blank}

ASSUME BackupAssumption ==
    /\ Keeps \subseteq Nat \ {0} /\ ClockStep \subseteq Int /\ Suffix \subseteq Int
    /\ MaxVer \in Nat /\ MaxOps \in Nat /\ MaxCrash \in Nat
    /\ Faults \in BOOLEAN /\ LateWrites \in BOOLEAN
    /\ Torn \notin Int /\ Junk \notin Int /\ Blank \notin Int /\ Nil \notin Int
    /\ Torn \notin {Junk, Blank, Nil} /\ Junk # Blank /\ Nil # Junk /\ Nil # Blank
    /\ Nil \notin Ino /\ Nil \notin Req

VARIABLES
    phase,   \* "up", "stopping", "down", or the step applyPendingRestore is at
    live,    \* grafted.db, together with its WAL, or Nil
    wal,     \* whether grafted.db-wal exists
    ino,     \* ino[i]: the content of file i
    tmp,     \* the file named restore-pending.db.tmp, or Nil
    pending, \* the file named restore-pending.db, or Nil
    snaps,   \* the backup directory, in the order the files were made
    clock,   \* the timestamp of the last snapshot name
    keep,    \* Scheduler.keep
    conn,    \* the handler that holds the only database connection, or Nil
    req,     \* req[r]: a handler's program counter and local variables
    nver, nops, ncrash

counters == <<nver, nops, ncrash>>
disk == <<live, wal, ino, tmp, pending, snaps>>
vars == <<phase, disk, clock, keep, conn, req, counters>>

Name == [ts: Int, suf: Suffix]
Local == [pc: {"idle", "copy", "check", "name", "vacuum", "vacuuming", "list", "prune",
               "commit", "restart"},
          restoring: BOOLEAN, src: Content \cup {Nil}, fd: Ino \cup {Nil},
          name: Name \cup {Nil}, del: SUBSET Name, keep: Keeps \cup {0}]
Idle == [pc |-> "idle", restoring |-> FALSE, src |-> Nil, fd |-> Nil,
         name |-> Nil, del |-> {}, keep |-> 0]

TypeOK ==
    /\ phase \in {"up", "stopping", "down", "rm", "rmwal", "mv", "open"}
    /\ live \in Content \cup {Nil} /\ wal \in BOOLEAN
    /\ ino \in [Ino -> Content]
    /\ tmp \in Ino \cup {Nil} /\ pending \in Ino \cup {Nil}
    /\ snaps \in Seq([name: Name, ver: Content])
    /\ clock \in Int /\ keep \in Keeps
    /\ conn \in Req \cup {Nil}
    /\ req \in [Req -> Local]
    /\ nver \in Version /\ nops \in 0 .. MaxOps /\ ncrash \in 0 .. MaxCrash

Init ==
    /\ phase = "up" /\ live = 0 /\ wal = TRUE
    /\ ino = [i \in Ino |-> Junk] /\ tmp = Nil /\ pending = Nil
    /\ snaps = <<>> /\ clock = 0 /\ keep \in Keeps /\ conn = Nil
    /\ req = [r \in Req |-> Idle]
    /\ nver = 0 /\ nops = 0 /\ ncrash = 0

---------------------------------------------------------------------------

\* ValidateVaultFile: a known schema number and one vault row, no more than that.
Valid(c) == c \in Vault

Names == {snaps[i].name : i \in DOMAIN snaps}
Newer(m, n) == m.ts > n.ts \/ (m.ts = n.ts /\ m.suf > n.suf)

\* The names prune removes: all but the first keep in descending order.
BeyondOff == {n \in Names : Cardinality({m \in Names : Newer(m, n)}) >= keep - 1}
BeyondLess == {n \in Names : Cardinality({m \in Names : Newer(m, n)}) > keep}
Beyond == {n \in Names : Cardinality({m \in Names : Newer(m, n)}) >= keep}
Newest(ns) == CHOOSE n \in ns : \A m \in ns : ~Newer(m, n)

Set(r, l) == req' = [req EXCEPT ![r] = l]
Goto(r, pc) == Set(r, [req[r] EXCEPT !.pc = pc])
Serving == phase \in {"up", "stopping"}

\* Where Snapshot returns to: its error, like prune's, changes nothing.
Returned(r) ==
    IF req[r].restoring THEN [req[r] EXCEPT !.pc = "commit", !.del = {}, !.keep = 0] ELSE Idle

---------------------------------------------------------------------------
\* The vault in use.

Committing == \E r \in Req : req[r].restoring /\ req[r].pc \in {"list", "prune", "commit", "restart"}

\* Any handler that changes the database, in WAL mode.  It repairs no page it does
\* not write.
Write ==
    /\ Serving /\ conn = Nil /\ nver < MaxVer
    /\ LateWrites \/ ~(Committing \/ phase = "stopping")
    /\ nver' = nver + 1 /\ live' = IF live = Torn THEN Torn ELSE nver + 1
    /\ UNCHANGED <<phase, wal, ino, tmp, pending, snaps, clock, keep, conn, req, nops, ncrash>>

\* saveBackupConfig.
SetSchedule(k) ==
    /\ phase = "up" /\ k # keep
    /\ keep' = k
    /\ UNCHANGED <<phase, disk, clock, conn, req, counters>>

---------------------------------------------------------------------------
\* Snapshot, called by backupNow, by the scheduler and by restore.

Backup(r) ==
    /\ phase = "up" /\ req[r] = Idle /\ nops < MaxOps
    /\ nops' = nops + 1
    /\ Goto(r, "name")
    /\ UNCHANGED <<phase, disk, clock, keep, conn, nver, ncrash>>

\* The name carries the local time to the second and a random suffix.
NameSnapshot(r) ==
    /\ Serving /\ req[r].pc = "name"
    /\ \E d \in ClockStep, x \in Suffix :
          LET n == [ts |-> clock + d, suf |-> x]
          IN  /\ n \notin Names /\ \A q \in Req : req[q].name # n
              /\ clock' = clock + d
              /\ Set(r, [req[r] EXCEPT !.pc = "vacuum", !.name = n])
    /\ UNCHANGED <<phase, disk, keep, conn, counters>>

\* VACUUM INTO creates the file, and holds the connection until it has filled it.
\* What is there before that, and after a crash, may or may not pass for a vault.
VacuumBegin(r) ==
    /\ Serving /\ req[r].pc = "vacuum" /\ conn = Nil
    /\ conn' = r
    /\ \E c \in {Junk, Torn} : snaps' = Append(snaps, [name |-> req[r].name, ver |-> c])
    /\ Goto(r, "vacuuming")
    /\ UNCHANGED <<phase, live, wal, ino, tmp, pending, clock, keep, counters>>

VacuumEnd(r) ==
    /\ Serving /\ req[r].pc = "vacuuming"
    /\ conn' = Nil
    /\ snaps' = [i \in DOMAIN snaps |->
                   IF snaps[i].name = req[r].name THEN [snaps[i] EXCEPT !.ver = live]
                                                  ELSE snaps[i]]
    /\ Goto(r, "list")
    /\ UNCHANGED <<phase, live, wal, ino, tmp, pending, clock, keep, counters>>

\* The directory cannot be made, the disk is full, a page of the database cannot be
\* read: prune does not run.
VacuumFail(r) ==
    /\ Serving
    /\ Faults \/ live = Torn
    /\ req[r].pc = "vacuum" \/ req[r].pc = "vacuuming"
    /\ conn' = IF conn = r THEN Nil ELSE conn
    /\ Set(r, Returned(r))
    /\ UNCHANGED <<phase, disk, clock, keep, counters>>

\* prune reads the directory and the retention.
List(r) ==
    /\ Serving /\ req[r].pc = "list"
    /\ Set(r, IF Beyond = {} THEN Returned(r)
              ELSE [req[r] EXCEPT !.pc = "prune", !.del = Beyond, !.keep = keep])
    /\ UNCHANGED <<phase, disk, clock, keep, conn, counters>>

\* The directory without the file n.
Without(n) ==
    LET i == CHOOSE i \in DOMAIN snaps : snaps[i].name = n
    IN  [j \in 1 .. Len(snaps) - 1 |-> IF j < i THEN snaps[j] ELSE snaps[j + 1]]

\* It removes the files one by one, newest first; the first that is gone already ends it.
Remove(r) ==
    /\ Serving /\ req[r].pc = "prune"
    /\ LET n == Newest(req[r].del)
       IN  /\ snaps' = IF n \in Names THEN Without(n) ELSE snaps
           /\ Set(r, IF n \in Names /\ req[r].del # {n}
                     THEN [req[r] EXCEPT !.del = @ \ {n}] ELSE Returned(r))
    /\ UNCHANGED <<phase, live, wal, ino, tmp, pending, clock, keep, conn, counters>>

---------------------------------------------------------------------------
\* restore.

Sources == {snaps[i].ver : i \in DOMAIN snaps} \cup {0, Torn, Junk}
FreeIno == {i \in Ino : i # tmp /\ i # pending /\ \A r \in Req : req[r].fd # i}

\* restoreSource opens a listed snapshot or an upload (version 0, downloaded
\* earlier, a damaged vault, or a file that is none); the temporary file is created,
\* or truncated if it exists.
Stage(r) ==
    /\ phase = "up" /\ req[r] = Idle /\ nops < MaxOps
    /\ nops' = nops + 1
    /\ \E c \in Sources, i \in IF tmp = Nil THEN FreeIno ELSE {tmp} :
          /\ tmp' = i /\ ino' = [ino EXCEPT ![i] = Junk]
          /\ Set(r, [Idle EXCEPT !.pc = "copy", !.restoring = TRUE, !.src = c, !.fd = i])
    /\ UNCHANGED <<phase, live, wal, pending, snaps, clock, keep, conn, nver, ncrash>>

\* Two handlers that write the same file can leave a mixture, which may have a
\* first page and a vault row to validate.
Copied(r) ==
    IF ino[req[r].fd] = Junk /\ \A q \in Req \ {r} : req[q].fd # req[r].fd
    THEN {req[r].src} ELSE {req[r].src, Torn, Junk}

Copy(r) ==
    /\ Serving /\ req[r].pc = "copy"
    /\ \E c \in Copied(r) : ino' = [ino EXCEPT ![req[r].fd] = c]
    /\ Set(r, [req[r] EXCEPT !.pc = "check", !.fd = Nil])
    /\ UNCHANGED <<phase, live, wal, tmp, pending, snaps, clock, keep, conn, counters>>

\* A copy that fails or that is not valid is removed.
CopyFail(r) ==
    /\ Serving /\ Faults /\ req[r].pc = "copy"
    /\ tmp' = Nil
    /\ Set(r, Idle)
    /\ UNCHANGED <<phase, live, wal, ino, pending, snaps, clock, keep, conn, counters>>

CheckNoSnapshot(r) ==
    /\ Serving /\ req[r].pc = "check"
    /\ IF tmp # Nil /\ Valid(ino[tmp])
       THEN Goto(r, "commit") /\ UNCHANGED tmp
       ELSE Set(r, Idle) /\ tmp' = Nil
    /\ UNCHANGED <<phase, live, wal, ino, pending, snaps, clock, keep, conn, counters>>
Check(r) ==
    /\ Serving /\ req[r].pc = "check"
    /\ IF tmp # Nil /\ Valid(ino[tmp])
       THEN Goto(r, "name") /\ UNCHANGED tmp
       ELSE Set(r, Idle) /\ tmp' = Nil
    /\ UNCHANGED <<phase, live, wal, ino, pending, snaps, clock, keep, conn, counters>>

\* The rename; without a temporary file it fails and there is no restart.
Commit(r) ==
    /\ Serving /\ req[r].pc = "commit"
    /\ IF tmp # Nil THEN Goto(r, "restart") /\ pending' = tmp
                    ELSE Set(r, Idle) /\ UNCHANGED pending
    /\ tmp' = Nil
    /\ UNCHANGED <<phase, live, wal, ino, snaps, clock, keep, conn, counters>>

\* restart: SIGTERM to the process itself.
Restart(r) ==
    /\ Serving /\ req[r].pc = "restart"
    /\ phase' = "stopping"
    /\ Set(r, Idle)
    /\ UNCHANGED <<disk, clock, keep, conn, counters>>

---------------------------------------------------------------------------
\* The process.

Dead == phase' = "down" /\ conn' = Nil /\ req' = [r \in Req |-> Idle]

\* Shutdown waits for the handlers, for ten seconds; the scheduler is not waited
\* for.  Closing the database folds in and removes its WAL, unless it is in use.
Exit ==
    /\ phase = "stopping"
    /\ Dead
    /\ wal' = (conn # Nil)
    /\ UNCHANGED <<live, ino, tmp, pending, snaps, clock, keep, counters>>

Crash ==
    /\ phase # "down" /\ ncrash < MaxCrash
    /\ Dead
    /\ ncrash' = ncrash + 1
    /\ UNCHANGED <<disk, clock, keep, nver, nops>>

\* applyPendingRestore, step by step.  A staged file that is not valid is discarded.
BootCheckUnvalidated ==
    /\ phase = "down"
    /\ phase' = IF pending # Nil THEN "rm" ELSE "open"
    /\ UNCHANGED <<disk, clock, keep, conn, req, counters>>
BootCheckDiscards ==
    /\ phase = "down"
    /\ phase' = "open" /\ pending' = Nil
    /\ UNCHANGED <<live, wal, ino, tmp, snaps, clock, keep, conn, req, counters>>
BootCheck ==
    /\ phase = "down"
    /\ phase' = IF pending # Nil /\ Valid(ino[pending]) THEN "rm" ELSE "open"
    /\ pending' = IF pending # Nil /\ Valid(ino[pending]) THEN pending ELSE Nil
    /\ UNCHANGED <<live, wal, ino, tmp, snaps, clock, keep, conn, req, counters>>

RemoveLiveMustExist ==
    /\ phase = "rm" /\ live # Nil
    /\ phase' = "rmwal" /\ live' = Nil
    /\ UNCHANGED <<wal, ino, tmp, pending, snaps, clock, keep, conn, req, counters>>
RemoveLive ==
    /\ phase = "rm"
    /\ phase' = "rmwal" /\ live' = Nil
    /\ UNCHANGED <<wal, ino, tmp, pending, snaps, clock, keep, conn, req, counters>>

RemoveWalForgotten == phase = "rmwal" /\ phase' = "mv" /\ UNCHANGED <<disk, clock, keep, conn, req, counters>>
RemoveWal ==
    /\ phase = "rmwal"
    /\ phase' = "mv" /\ wal' = FALSE
    /\ UNCHANGED <<live, ino, tmp, pending, snaps, clock, keep, conn, req, counters>>

\* A WAL of the old database, if there were one, would be replayed into the new.
Swap ==
    /\ phase = "mv"
    /\ phase' = "open" /\ pending' = Nil
    /\ live' = IF wal THEN Junk ELSE ino[pending]
    /\ UNCHANGED <<wal, ino, tmp, snaps, clock, keep, conn, req, counters>>

\* store.Open replays a WAL it finds, and creates a missing database.  The
\* retention comes from the settings of the database now live.
Open ==
    /\ phase = "open"
    /\ phase' = "up" /\ wal' = TRUE
    /\ live' = IF live = Nil THEN Blank ELSE live
    /\ keep' \in Keeps
    /\ UNCHANGED <<ino, tmp, pending, snaps, clock, conn, req, counters>>

Handler(r) ==
    \/ NameSnapshot(r) \/ VacuumBegin(r) \/ VacuumEnd(r) \/ List(r) \/ Remove(r)
    \/ Copy(r) \/ Check(r) \/ Commit(r) \/ Restart(r)
Failure(r) == VacuumFail(r) \/ CopyFail(r)
Boot == BootCheck \/ RemoveLive \/ RemoveWal \/ Swap \/ Open

Next ==
    \/ Write
    \/ \E k \in Keeps : SetSchedule(k)
    \/ \E r \in Req : Backup(r) \/ Stage(r) \/ Handler(r) \/ Failure(r)
    \/ Exit \/ Crash \/ Boot

Spec == Init /\ [][Next]_vars

\* A handler that has begun runs to its end, a signalled process exits, and the
\* container's restart policy boots it again.
FairSpec == Spec /\ WF_vars(Boot) /\ WF_vars(Exit) /\ \A r \in Req : WF_vars(Handler(r))

---------------------------------------------------------------------------

\* Whatever step the process dies at, a process that serves requests serves what
\* the validation accepts: never the blank database Open creates when the file is
\* missing, never one that a WAL left by another database has damaged.  It may be
\* Torn: that is OneVersionServed.
VaultServed == Serving => Valid(live)

\* What validates is on disk at every moment, as the live database or as a staged
\* file the next boot will swap in.
VaultOnDisk == Valid(live) \/ (pending # Nil /\ Valid(ino[pending]))

\* "confirms it is a usable Grafted vault database": what passed the validation and
\* is served is one version of the vault, not a mixture or a part of one.
OneVersionServed == Serving => live \in Version

\* What is staged as restore-pending.db has passed validation, and stays so
\* until the boot that uses it.
StagedValid == pending # Nil => Valid(ino[pending])

\* The safety snapshot: when a boot removes a whole vault, a retained snapshot holds
\* the version that disappears.
NothingLost ==
    [][live' = Nil /\ live \in Version => \E i \in DOMAIN snaps : snaps[i].ver = live]_vars

Snapshotting(r) == req[r].pc \in {"name", "vacuum", "vacuuming", "list", "prune"}

\* The backup directory does not grow: when a snapshot that wrote its file ends,
\* and no other is under way, at most the files it keeps are left, whatever prunes
\* overlapped, failed or were cut short before.
RetentionBound ==
    [][\A r \in Req :
          /\ req[r].pc \in {"list", "prune"} /\ ~Snapshotting(r)' /\ Serving'
          /\ \A q \in Req \ {r} : ~Snapshotting(q)
          => Len(snaps') <= IF req[r].pc = "prune" THEN req[r].keep ELSE keep]_vars

\* A good backup is replaced by a good backup: while the vault in use is whole, once
\* a snapshot holds a whole version there is one that does at every later time, the
\* partial files of crashed or failed snapshots notwithstanding.
GoodBackupKept ==
    [][(\E i \in DOMAIN snaps : snaps[i].ver \in Version) /\ live \in Version
       => \E i \in DOMAIN snaps' : snaps'[i].ver \in Version]_vars

\* A restore that got as far as asking for the restart is carried out, through
\* any crash: the staged file becomes the live one.
RestoreApplied ==
    \A r \in Req, v \in Vault :
        (req[r].pc = "restart" /\ pending # Nil /\ ino[pending] = v) ~> (phase = "open" /\ live = v)

\* The service comes back.
ComesBack == phase # "up" ~> phase = "up"

\* The refinement: the current database is the live one, or, once a boot has
\* removed that, the staged file.
Staged == IF pending # Nil /\ Valid(ino[pending]) THEN ino[pending] ELSE Nil
Current == IF live # Nil THEN live ELSE Staged

Atomic == INSTANCE AtomicRestore WITH cur <- Current, staged <- Staged, up <- Serving

\* "the swap is clean and atomic": the four file operations of a boot, retried
\* after crashes, on a file that overlapping restores copied, validated and
\* renamed, implement a single replacement of the database in use by what is staged.
\* Whether that is one version of the vault is not said here, and the validation
\* does not see to it.
AtomicallyRestored == Atomic!Spec

=============================================================================
