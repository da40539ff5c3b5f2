------------------------ MODULE BackupRestoreProofs ------------------------
(* The crash safety of the restore, for every number of handlers, files,     *)
(* snapshots, versions and crashes; and what retention and the safety        *)
(* snapshot keep, for one operation at a time.                               *)
EXTENDS BackupRestore, SequenceTheorems, FiniteSetTheorems, TLAPS

\* The inductive strengthening of VaultServed and VaultOnDisk.  Only a boot has
\* no live database, and then a valid staged file waits for it; from the check
\* of that file to the swap it stays in place, no WAL survives to the swap, and what is
\* opened is not staged any more.
Recoverable ==
    /\ nver \in Version
    /\ phase \in {"up", "stopping", "down", "rm", "rmwal", "mv", "open"}
    /\ live # Nil => Valid(live)
    /\ live = Nil => phase \in {"down", "rm", "rmwal", "mv"}
    /\ phase \in {"rmwal", "mv"} => live = Nil
    /\ phase = "open" => pending = Nil
    /\ live = Nil \/ phase \in {"rm", "rmwal", "mv"} => pending # Nil /\ Valid(ino[pending])
    /\ phase = "mv" => ~wal

\* A step of a running process keeps a valid live database live.
LEMMA ServingStep ==
    ASSUME Recoverable, Serving, live' # Nil, Valid(live'), nver' \in Version,
           phase' \in {"up", "stopping", "down"}
    PROVE  Recoverable'
  BY DEF Recoverable, Serving, Valid

\* The initial state: a vault is in use and nothing is staged.
LEMMA RecoverableInit == Init => Recoverable
  BY BackupAssumption DEF Init, Recoverable, Valid, Vault, Version

\* A step of a handler leaves the live database and the versions alone.
LEMMA RequestStep ==
    ASSUME NEW r \in Req, Backup(r) \/ Stage(r) \/ Handler(r) \/ Failure(r)
    PROVE  Serving /\ live' = live /\ nver' = nver /\ phase' \in {"up", "stopping"}
  <1>1. CASE Backup(r)
    BY <1>1 DEF Backup, Serving, disk, counters
  <1>2. CASE Stage(r)
    BY <1>2 DEF Stage, Serving
  <1>3. CASE NameSnapshot(r)
    BY <1>3 DEF NameSnapshot, Serving, disk, counters
  <1>4. CASE VacuumBegin(r)
    BY <1>4 DEF VacuumBegin, Serving, counters
  <1>5. CASE VacuumEnd(r)
    BY <1>5 DEF VacuumEnd, Serving, counters
  <1>6. CASE List(r)
    BY <1>6 DEF List, Serving, disk, counters
  <1>7. CASE Remove(r)
    BY <1>7 DEF Remove, Serving, counters
  <1>8. CASE Copy(r)
    BY <1>8 DEF Copy, Serving, counters
  <1>9. CASE Check(r)
    BY <1>9 DEF Check, Serving, counters
  <1>10. CASE Commit(r)
    BY <1>10 DEF Commit, Serving, counters
  <1>11. CASE Restart(r)
    BY <1>11 DEF Restart, Serving, disk, counters
  <1>12. CASE VacuumFail(r)
    BY <1>12 DEF VacuumFail, Serving, disk, counters
  <1>13. CASE CopyFail(r)
    BY <1>13 DEF CopyFail, Serving, counters
  <1> QED
    BY <1>1, <1>2, <1>3, <1>4, <1>5, <1>6, <1>7, <1>8, <1>9, <1>10, <1>11,
       <1>12, <1>13 DEF Handler, Failure

\* Every step keeps the vault recoverable.
LEMMA RecoverableNext == Recoverable /\ [Next]_vars => Recoverable'
  <1> SUFFICES ASSUME Recoverable, [Next]_vars PROVE Recoverable'
    OBVIOUS
  <1>1. CASE Write
    <2>1. nver + 1 \in Version /\ nver + 1 # Nil /\ Torn # Nil
      BY <1>1, BackupAssumption DEF Write, Recoverable, Version
    <2>2. live' # Nil /\ Valid(live')
      BY <1>1, <2>1 DEF Write, Valid, Vault
    <2> QED
      BY <1>1, <2>1, <2>2, ServingStep DEF Write, Serving
  <1>2. ASSUME NEW k \in Keeps, SetSchedule(k) PROVE Recoverable'
    BY <1>2 DEF SetSchedule, disk, counters, Recoverable, Valid
  <1>3. ASSUME NEW r \in Req, Backup(r) \/ Stage(r) \/ Handler(r) \/ Failure(r)
        PROVE  Recoverable'
    <2>1. Serving /\ live' = live /\ nver' = nver /\ phase' \in {"up", "stopping"}
      BY <1>3, RequestStep
    <2>2. live # Nil /\ Valid(live)
      BY <2>1 DEF Recoverable, Serving
    <2> QED
      BY <2>1, <2>2, ServingStep DEF Recoverable, Valid
  <1>4. CASE Exit
    <2>1. Serving /\ live # Nil /\ Valid(live)
      BY <1>4 DEF Exit, Serving, Recoverable
    <2> QED
      BY <1>4, <2>1, ServingStep DEF Exit, Dead, counters, Recoverable, Valid
  <1>5. CASE Crash
    BY <1>5 DEF Crash, Dead, disk, Recoverable, Valid
  <1>6. CASE BootCheck
    BY <1>6 DEF BootCheck, counters, Recoverable, Valid
  <1>7. CASE RemoveLive
    BY <1>7 DEF RemoveLive, counters, Recoverable, Valid
  <1>8. CASE RemoveWal
    BY <1>8 DEF RemoveWal, counters, Recoverable, Valid
  <1>9. CASE Swap
    <2>1. /\ live' = ino[pending] /\ Valid(live') /\ pending' = Nil
          /\ phase' = "open" /\ nver' = nver
      BY <1>9 DEF Swap, counters, Recoverable, Valid
    <2>2. live' # Nil
      BY <2>1, BackupAssumption DEF Valid, Vault, Version
    <2> QED
      BY <2>1, <2>2 DEF Recoverable, Valid
  <1>10. CASE Open
    BY <1>10 DEF Open, counters, Recoverable, Valid
  <1>11. CASE UNCHANGED vars
    BY <1>11 DEF vars, disk, counters, Recoverable, Valid
  <1> QED
    BY <1>1, <1>2, <1>3, <1>4, <1>5, <1>6, <1>7, <1>8, <1>9, <1>10, <1>11 DEF Next, Boot

\* Whatever step of a snapshot, a restore, a shutdown or a boot the process dies
\* at, and however often, a database that validates stays on disk, live or staged,
\* and a process that serves requests serves one: never a blank database and never
\* one mixed with another's WAL.  A Torn one validates too.
THEOREM CrashSafe == Spec => [](VaultServed /\ VaultOnDisk)
  <1>1. Recoverable => VaultServed /\ VaultOnDisk
    BY DEF Recoverable, VaultServed, VaultOnDisk, Serving
  <1> QED
    BY <1>1, RecoverableInit, RecoverableNext, PTL DEF Spec

---------------------------------------------------------------------------
(* The refinement                                                          *)

\* What a request does to the files is a step of AtomicRestore, or none.
LEMMA ServingImplements ==
    ASSUME Recoverable, Serving, Serving', live' # Nil, Valid(live'),
           live' = live \/ (UNCHANGED <<ino, pending>>)
    PROVE  [Atomic!Next]_(Atomic!vars)
  <1>1. live # Nil
    BY DEF Recoverable, Serving
  <1>2. Current = live /\ Current' = live'
    BY <1>1 DEF Current
  <1>3. Staged' \in Vault \cup {Nil}
    BY DEF Staged, Valid
  <1>4. CASE live' = live
    <2>1. Atomic!Stage
      BY <1>2, <1>3, <1>4 DEF Atomic!Stage
    <2> QED
      BY <2>1 DEF Atomic!Next
  <1>5. CASE UNCHANGED <<ino, pending>>
    <2>1. Atomic!Write
      BY <1>2, <1>5 DEF Atomic!Write, Staged, Valid
    <2> QED
      BY <2>1 DEF Atomic!Next
  <1> QED
    BY <1>4, <1>5

\* What leaves the version in use, the staged one and the service as they are.
LEMMA Unseen ==
    ASSUME Current' = Current, Staged' = Staged, Serving' <=> Serving
    PROVE  [Atomic!Next]_(Atomic!vars)
  BY DEF Atomic!vars

\* The end of the process, from whatever step.
LEMMA DeathImplements ==
    ASSUME Recoverable, phase' = "down", UNCHANGED <<live, ino, pending>>
    PROVE  [Atomic!Next]_(Atomic!vars)
  <1>1. Current' = Current /\ Staged' = Staged /\ ~Serving'
    BY DEF Current, Staged, Valid, Serving
  <1>2. CASE Serving
    <2>1. Atomic!Stop
      BY <1>1, <1>2 DEF Atomic!Stop
    <2> QED
      BY <2>1 DEF Atomic!Next
  <1>3. CASE ~Serving
    BY <1>1, <1>3, Unseen
  <1> QED
    BY <1>2, <1>3

\* The file operations of a boot: removing the live database is the replacement,
\* renaming the staged file is the end of its being staged, the rest is not seen.
LEMMA BootImplements ==
    ASSUME Recoverable, Recoverable', Boot
    PROVE  [Atomic!Next]_(Atomic!vars)
  <1>1. CASE BootCheck
    <2>1. Staged' = Staged
      BY <1>1 DEF BootCheck, Staged, Valid
    <2>2. Current' = Current /\ (Serving' <=> Serving)
      BY <1>1, <2>1 DEF BootCheck, Current, Serving
    <2> QED
      BY <2>1, <2>2, Unseen
  <1>2. CASE RemoveLive
    <2>1. Staged' = Staged /\ Staged = ino[pending] /\ Valid(Staged) /\ ~Serving /\ (Serving' <=> Serving)
      BY <1>2 DEF RemoveLive, Recoverable, Staged, Valid, Serving
    <2>2. Staged # Nil
      BY <2>1, BackupAssumption DEF Valid, Vault, Version
    <2>3. Current' = Staged
      BY <1>2, <2>1 DEF RemoveLive, Current
    <2>4. Atomic!Replace
      BY <2>1, <2>2, <2>3 DEF Atomic!Replace, Serving
    <2> QED
      BY <2>4 DEF Atomic!Next
  <1>3. CASE RemoveWal
    <2>1. Staged' = Staged /\ Current' = Current /\ (Serving' <=> Serving)
      BY <1>3 DEF RemoveWal, Staged, Current, Valid, Serving
    <2> QED
      BY <2>1, Unseen
  <1>4. CASE Swap
    <2>1. Staged = ino[pending] /\ Current = Staged
      BY <1>4 DEF Swap, Recoverable, Staged, Current
    <2>2. live' = ino[pending] /\ Staged' = Nil /\ ~Serving /\ (Serving' <=> Serving)
      BY <1>4 DEF Swap, Recoverable, Staged, Serving
    <2>3. live' # Nil
      BY <1>4 DEF Swap, Recoverable
    <2>4. Current' = Current
      BY <2>1, <2>2, <2>3 DEF Current
    <2>5. Atomic!Done
      BY <2>1, <2>2, <2>4 DEF Atomic!Done, Serving
    <2> QED
      BY <2>5 DEF Atomic!Next
  <1>5. CASE Open
    <2>1. live # Nil /\ live' = live /\ Staged = Nil /\ Staged' = Nil
      BY <1>5 DEF Open, Recoverable, Staged
    <2>2. Current' = Current /\ ~Serving /\ Serving'
      BY <1>5, <2>1 DEF Open, Current, Serving
    <2>3. Atomic!Start
      BY <2>1, <2>2 DEF Atomic!Start
    <2> QED
      BY <2>3 DEF Atomic!Next
  <1> QED
    BY <1>1, <1>2, <1>3, <1>4, <1>5 DEF Boot

\* Every step of the files is a step of AtomicRestore, or none.
LEMMA StepImplements ==
    ASSUME Recoverable, Recoverable', [Next]_vars
    PROVE  [Atomic!Next]_(Atomic!vars)
  <1>1. CASE Write
    BY <1>1, ServingImplements DEF Write, Serving, Recoverable
  <1>2. ASSUME NEW k \in Keeps, SetSchedule(k) PROVE [Atomic!Next]_(Atomic!vars)
    <2>1. UNCHANGED <<live, ino, pending, phase>>
      BY <1>2 DEF SetSchedule, disk
    <2> QED
      BY <2>1, Unseen DEF Current, Staged, Valid, Serving
  <1>3. ASSUME NEW r \in Req, Backup(r) \/ Stage(r) \/ Handler(r) \/ Failure(r)
        PROVE  [Atomic!Next]_(Atomic!vars)
    <2>1. Serving /\ live' = live /\ nver' = nver /\ phase' \in {"up", "stopping"}
      BY <1>3, RequestStep
    <2> QED
      BY <2>1, ServingImplements DEF Serving, Recoverable
  <1>4. CASE Exit
    BY <1>4, DeathImplements DEF Exit, Dead
  <1>5. CASE Crash
    BY <1>5, DeathImplements DEF Crash, Dead, disk
  <1>6. CASE Boot
    BY <1>6, BootImplements
  <1>7. CASE UNCHANGED vars
    <2>1. UNCHANGED <<live, ino, pending, phase>>
      BY <1>7 DEF vars, disk
    <2> QED
      BY <2>1, Unseen DEF Current, Staged, Valid, Serving
  <1> QED
    BY <1>1, <1>2, <1>3, <1>4, <1>5, <1>6, <1>7 DEF Next

\* The swap is atomic, for any number of overlapping restores and snapshots and any
\* number of crashes: the staging, the four file operations of a boot and their
\* repetition after a crash implement AtomicRestore, in which what is staged replaces
\* the database in use in a single step and nothing else is ever served.  What is
\* staged passed the validation, which a mixture of two uploads can.
THEOREM RestoreIsAtomic == Spec => AtomicallyRestored
  <1>1. Init => Atomic!Init
    <2> SUFFICES ASSUME Init PROVE Atomic!Init
      OBVIOUS
    <2>1. Staged = Nil /\ Current = 0 /\ 0 \in Vault /\ Serving
      BY BackupAssumption DEF Init, Staged, Current, Vault, Version, Serving
    <2> QED
      BY <2>1 DEF Atomic!Init
  <1>2. Recoverable /\ Recoverable' /\ [Next]_vars => [Atomic!Next]_(Atomic!vars)
    BY StepImplements
  <1> QED
    BY <1>1, <1>2, RecoverableInit, RecoverableNext, PTL
       DEF Spec, AtomicallyRestored, Atomic!Spec

---------------------------------------------------------------------------
(* Retention, for one operation at a time                                  *)

\* One handler, and a clock that moves on from one snapshot to the next.  VACUUM INTO
\* may fail, and other requests write at any time.
OneByOne == (\A q, r \in Req : q = r) /\ ClockStep \subseteq Nat \ {0}

File == [name: Name, ver: Content]

\* The files are in the order of their names, none of them from the future.
Ordered(s, c) ==
    /\ s \in Seq(File)
    /\ \A i \in 1 .. Len(s) : s[i].name.ts <= c
    /\ \A i, j \in 1 .. Len(s) : i < j => s[i].name.ts < s[j].name.ts

\* Each file has its own name.
LEMMA OrderedFacts ==
    ASSUME NEW s, NEW c \in Int, Ordered(s, c)
    PROVE  /\ Len(s) \in Nat /\ DOMAIN s = 1 .. Len(s)
           /\ \A i \in 1 .. Len(s) : /\ s[i] \in File /\ s[i].name \in Name
                                     /\ s[i].name.ts \in Int /\ s[i].name.suf \in Int
                                     /\ s[i].ver \in Content
           /\ \A i, j \in 1 .. Len(s) : s[i].name = s[j].name => i = j
  <1>1. Len(s) \in Nat /\ DOMAIN s = 1 .. Len(s) /\ \A i \in 1 .. Len(s) : s[i] \in File
    BY DEF Ordered
  <1>2. \A i \in 1 .. Len(s) : /\ s[i].name \in Name /\ s[i].name.ts \in Int
                               /\ s[i].name.suf \in Int /\ s[i].ver \in Content
    BY <1>1, BackupAssumption DEF File, Name
  <1>3. ASSUME NEW i \in 1 .. Len(s), NEW j \in 1 .. Len(s), s[i].name = s[j].name PROVE i = j
    <2>1. s[i].name.ts = s[j].name.ts /\ s[i].name.ts \in Int /\ i \in Int /\ j \in Int
      BY <1>1, <1>2, <1>3
    <2>2. ~(i < j) /\ ~(j < i)
      BY <2>1 DEF Ordered
    <2> QED
      BY <2>1, <2>2
  <1> QED
    BY <1>1, <1>2, <1>3

\* A new file at the end.
LEMMA OrderedAppend ==
    ASSUME NEW s, NEW c \in Int, Ordered(s, c), NEW f \in File, f.name.ts = c,
           \A i \in 1 .. Len(s) : s[i].name.ts < c
    PROVE  /\ Ordered(Append(s, f), c) /\ Len(Append(s, f)) = Len(s) + 1
           /\ Append(s, f)[Len(s) + 1] = f /\ \A i \in 1 .. Len(s) : Append(s, f)[i] = s[i]
  <1>1. s \in Seq(File) /\ Len(s) \in Nat
    BY DEF Ordered
  <1> DEFINE t == Append(s, f)
  <1>2. t \in Seq(File) /\ Len(t) = Len(s) + 1 /\ t[Len(s) + 1] = f /\ \A i \in 1 .. Len(s) : t[i] = s[i]
    BY <1>1, AppendProperties
  <1> HIDE DEF t
  <1>3. \A i \in 1 .. Len(t) : i \in 1 .. Len(s) \/ i = Len(s) + 1
    BY <1>1, <1>2
  <1>4. \A i \in 1 .. Len(t) : t[i].name.ts <= c
    BY <1>2, <1>3 DEF Ordered
  <1>5. \A i, j \in 1 .. Len(t) : i < j => t[i].name.ts < t[j].name.ts
    BY <1>1, <1>2, <1>3 DEF Ordered
  <1> QED
    BY <1>2, <1>4, <1>5 DEF Ordered, t

\* New contents of the files.
LEMMA OrderedFill ==
    ASSUME NEW s, NEW c \in Int, Ordered(s, c), NEW t, DOMAIN t = DOMAIN s, t = [i \in DOMAIN s |-> t[i]],
           \A i \in DOMAIN s : t[i] \in File /\ t[i].name = s[i].name
    PROVE  Ordered(t, c) /\ Len(t) = Len(s)
  <1>1. Len(s) \in Nat /\ DOMAIN s = 1 .. Len(s)
    BY DEF Ordered
  <1>2. t \in [1 .. Len(s) -> File]
    BY <1>1
  <1>3. t \in Seq(File) /\ Len(t) = Len(s)
    BY <1>1, <1>2
  <1> QED
    BY <1>1, <1>3 DEF Ordered

\* One file less.
Dropped(s, i) == [j \in 1 .. Len(s) - 1 |-> IF j < i THEN s[j] ELSE s[j + 1]]

\* It leaves the others in order.
LEMMA OrderedDrop ==
    ASSUME NEW s, NEW c \in Int, Ordered(s, c), NEW k \in 1 .. Len(s)
    PROVE  Ordered(Dropped(s, k), c) /\ Len(Dropped(s, k)) = Len(s) - 1
  <1>1. Len(s) \in Nat /\ DOMAIN s = 1 .. Len(s) /\ \A i \in 1 .. Len(s) : s[i] \in File
    BY DEF Ordered
  <1> DEFINE t == Dropped(s, k)
             n == Len(s) - 1
  <1>2. n \in Nat /\ \A j \in 1 .. n : t[j] = IF j < k THEN s[j] ELSE s[j + 1]
    BY <1>1 DEF Dropped
  <1>3. t \in [1 .. n -> File]
    BY <1>1 DEF Dropped
  <1> HIDE DEF t, n
  <1>4. t \in Seq(File) /\ Len(t) = n
    BY <1>2, <1>3
  <1>5. \A j \in 1 .. n : j \in 1 .. Len(s) /\ j + 1 \in 1 .. Len(s)
    BY <1>1 DEF n
  <1>6. \A j \in 1 .. Len(t) : t[j].name.ts <= c
    BY <1>2, <1>4, <1>5 DEF Ordered
  <1>7. \A i, j \in 1 .. Len(t) : i < j => t[i].name.ts < t[j].name.ts
    <2> SUFFICES ASSUME NEW i \in 1 .. n, NEW j \in 1 .. n, i < j PROVE t[i].name.ts < t[j].name.ts
      BY <1>4
    <2>1. \E a, b \in 1 .. Len(s) : a < b /\ t[i] = s[a] /\ t[j] = s[b]
      <3>1. CASE j < k
        BY <1>2, <1>5, <3>1
      <3>2. CASE ~(j < k) /\ i < k
        <4>1. i < j + 1 /\ t[i] = s[i] /\ t[j] = s[j + 1]
          BY <1>2, <3>2
        <4> QED
          BY <1>5, <4>1
      <3>3. CASE ~(j < k) /\ ~(i < k)
        <4>1. i + 1 < j + 1 /\ t[i] = s[i + 1] /\ t[j] = s[j + 1]
          BY <1>2, <3>3
        <4> QED
          BY <1>5, <4>1
      <3> QED
        BY <3>1, <3>2, <3>3
    <2> QED
      BY <2>1 DEF Ordered
  <1> QED
    BY <1>4, <1>6, <1>7 DEF Ordered, t, n

\* The names beyond the retention k are those of all but the last k files.
Excess(s, k) == {s[i].name : i \in 1 .. Len(s) - k}

\* The files newer than the i-th are those made after it.
LEMMA NewerCount ==
    ASSUME NEW s, NEW c \in Int, Ordered(s, c), NEW i \in 1 .. Len(s)
    PROVE  LET N == {s[j].name : j \in DOMAIN s}
           IN  Cardinality({m \in N : Newer(m, s[i].name)}) = Len(s) - i
  <1> DEFINE N == {s[j].name : j \in DOMAIN s}
             later == i + 1 .. Len(s)
             f == [j \in later |-> s[j].name]
             T == {m \in N : Newer(m, s[i].name)}
  <1>1. /\ Len(s) \in Nat /\ DOMAIN s = 1 .. Len(s)
        /\ \A j \in 1 .. Len(s) : s[j].name.ts \in Int /\ s[j].name.suf \in Int
        /\ \A a, b \in 1 .. Len(s) : s[a].name = s[b].name => a = b
    BY OrderedFacts
  <1>2. later \subseteq 1 .. Len(s)
    BY <1>1
  <1>3. \A j \in 1 .. Len(s) : Newer(s[j].name, s[i].name) <=> j \in later
    <2> TAKE j \in 1 .. Len(s)
    <2>1. j > i => s[j].name.ts > s[i].name.ts
      BY <1>1 DEF Ordered
    <2>2. j < i => s[i].name.ts > s[j].name.ts
      BY <1>1 DEF Ordered
    <2>3. j \in later <=> j > i
      BY <1>1
    <2>4. CASE j = i
      BY <1>1, <2>3, <2>4 DEF Newer
    <2>5. CASE j > i
      BY <2>1, <2>3, <2>5 DEF Newer
    <2>6. CASE j < i
      BY <1>1, <2>2, <2>3, <2>6 DEF Newer
    <2> QED
      BY <1>1, <2>4, <2>5, <2>6
  <1> HIDE DEF later
  <1>4. T = {s[j].name : j \in later}
    BY <1>1, <1>2, <1>3
  <1>5. f \in Bijection(later, T)
    <2>1. f \in [later -> T]
      BY <1>4
    <2>2. \A a, b \in later : f[a] = f[b] => a = b
      BY <1>1, <1>2
    <2>3. \A m \in T : \E j \in later : f[j] = m
      BY <1>4
    <2> QED
      BY <2>1, <2>2, <2>3 DEF Bijection, Injection, Surjection, IsInjective
  <1>6. IsFiniteSet(later) /\ Cardinality(later) = Len(s) - i
    BY <1>1, FS_Interval DEF later
  <1>7. Cardinality(T) = Cardinality(later)
    BY <1>5, <1>6, FS_Bijection DEF ExistsBijection
  <1> QED
    BY <1>6, <1>7

\* What prune lists, when the files are in the order of their names.
LEMMA BeyondIsExcess ==
    ASSUME NEW c \in Int, Ordered(snaps, c), keep \in Nat \ {0}
    PROVE  Beyond = Excess(snaps, keep)
  <1>1. /\ Len(snaps) \in Nat /\ DOMAIN snaps = 1 .. Len(snaps)
    BY OrderedFacts
  <1>2. \A i \in 1 .. Len(snaps) :
          Cardinality({m \in Names : Newer(m, snaps[i].name)}) = Len(snaps) - i
    BY NewerCount DEF Names
  <1>3. \A i \in 1 .. Len(snaps) : Len(snaps) - i >= keep <=> i \in 1 .. Len(snaps) - keep
    BY <1>1
  <1>4. \A i \in 1 .. Len(snaps) - keep : i \in 1 .. Len(snaps)
    BY <1>1
  <1>5. \A i \in 1 .. Len(snaps) : snaps[i].name \in Beyond <=> i \in 1 .. Len(snaps) - keep
    <2>1. \A i \in 1 .. Len(snaps) : snaps[i].name \in Names
      BY <1>1 DEF Names
    <2> QED
      BY <1>2, <1>3, <2>1 DEF Beyond
  <1>6. \A n \in Beyond : \E i \in 1 .. Len(snaps) : n = snaps[i].name
    BY <1>1 DEF Beyond, Names
  <1> QED
    BY <1>4, <1>5, <1>6 DEF Excess

\* The newest of the files beyond the retention is the last of them.
LEMMA NewestOfExcess ==
    ASSUME NEW s, NEW c \in Int, Ordered(s, c), NEW k \in Nat \ {0}, Len(s) > k
    PROVE  Newest(Excess(s, k)) = s[Len(s) - k].name /\ Excess(s, k) # {}
  <1> DEFINE n == Len(s) - k
  <1>1. /\ Len(s) \in Nat /\ DOMAIN s = 1 .. Len(s)
        /\ \A j \in 1 .. Len(s) : s[j].name.ts \in Int /\ s[j].name.suf \in Int
    BY OrderedFacts
  <1>2. n \in 1 .. n /\ n \in 1 .. Len(s) /\ \A i \in 1 .. n : i \in 1 .. Len(s)
    BY <1>1
  <1>3. s[n].name \in Excess(s, k)
    BY <1>2 DEF Excess
  <1>4. \A i \in 1 .. n : i # n => s[i].name.ts < s[n].name.ts
    <2>0. n \in Int
      BY <1>1
    <2> HIDE DEF n
    <2> TAKE i \in 1 .. n
    <2>1. i # n => i < n
      BY <2>0
    <2> QED
      BY <1>2, <2>1 DEF Ordered
  <1>5. \A m \in Excess(s, k) : ~Newer(m, s[n].name)
    <2> SUFFICES ASSUME NEW i \in 1 .. n PROVE ~Newer(s[i].name, s[n].name)
      BY DEF Excess
    <2>1. s[i].name.ts \in Int /\ s[n].name.ts \in Int /\ s[n].name.suf \in Int
      BY <1>1, <1>2
    <2> QED
      BY <1>4, <2>1 DEF Newer
  <1>6. ASSUME NEW x \in Excess(s, k), \A m \in Excess(s, k) : ~Newer(m, x) PROVE x = s[n].name
    <2> PICK i \in 1 .. n : x = s[i].name
      BY <1>6 DEF Excess
    <2>1. ~Newer(s[n].name, s[i].name)
      BY <1>3, <1>6
    <2>2. s[i].name.ts \in Int /\ s[n].name.ts \in Int
      BY <1>1, <1>2
    <2> QED
      BY <1>4, <2>1, <2>2 DEF Newer
  <1> HIDE DEF n
  <1>7. Newest(Excess(s, k)) = s[n].name
    BY <1>3, <1>5, <1>6 DEF Newest
  <1> QED
    BY <1>3, <1>7 DEF n

\* A handler alone: what it knows of the directory.  Its new file is the last one,
\* and what is left to remove is all beyond the retention.
Progress(q, s, c) ==
    /\ DOMAIN q = DOMAIN Idle
    /\ q.pc = "vacuum" => /\ q.name \in Name /\ q.name.ts = c
                          /\ \A i \in 1 .. Len(s) : s[i].name.ts < c
    /\ q.pc = "vacuuming" => Len(s) > 0 /\ s[Len(s)].name = q.name
    /\ q.pc \in {"list", "prune"} => Len(s) > 0
    /\ q.pc = "prune" => /\ q.keep \in Nat \ {0} /\ Len(s) > q.keep
                         /\ q.del = Excess(s, q.keep)

RetInv ==
    /\ Recoverable
    /\ clock \in Int /\ keep \in Keeps
    /\ Ordered(snaps, clock)
    /\ DOMAIN req = Req
    /\ \A r \in Req : Progress(req[r], snaps, clock)

\* A handler that has nothing to do with the directory now.
LEMMA ProgressElsewhere ==
    ASSUME NEW q, NEW s, NEW c, DOMAIN q = DOMAIN Idle,
           q.pc \notin {"vacuum", "vacuuming", "list", "prune"}
    PROVE  Progress(q, s, c)
  BY DEF Progress

\* An idle handler says nothing of the directory.
LEMMA IdleProgress == \A s, c : Progress(Idle, s, c)
  <1>1. Idle.pc = "idle"
    BY DEF Idle
  <1> QED
    BY <1>1, ProgressElsewhere

\* A step of a handler is a step of the only one.
LEMMA OnlyOne ==
    ASSUME OneByOne, DOMAIN req = Req, NEW r \in Req, NEW l, Set(r, l)
    PROVE  DOMAIN req' = Req /\ \A q \in Req : q = r /\ req'[q] = l
  BY DEF OneByOne, Set

\* Neither does one that Snapshot has returned to.
LEMMA ReturnedProgress ==
    ASSUME NEW r \in Req, DOMAIN req[r] = DOMAIN Idle
    PROVE  /\ Returned(r).pc \in {"idle", "commit"} /\ DOMAIN Returned(r) = DOMAIN Idle
           /\ \A s, c : Progress(Returned(r), s, c)
  <1>1. Returned(r).pc \in {"idle", "commit"} /\ DOMAIN Returned(r) = DOMAIN Idle
    BY DEF Returned, Idle
  <1> QED
    BY <1>1, ProgressElsewhere

\* A step that leaves the directory and the clock alone.
LEMMA RetStep ==
    ASSUME OneByOne, RetInv, Recoverable', snaps' = snaps, clock' = clock, keep' \in Keeps,
           NEW r \in Req, NEW l, Set(r, l), Progress(l, snaps, clock)
    PROVE  RetInv'
  BY OnlyOne DEF RetInv

\* The clock moves on.
LEMMA ClockLater ==
    ASSUME NEW s, NEW c \in Int, Ordered(s, c), NEW d \in Nat \ {0}
    PROVE  Ordered(s, c + d) /\ \A i \in 1 .. Len(s) : s[i].name.ts < c + d
  <1>1. \A i \in 1 .. Len(s) : s[i].name.ts \in Int /\ s[i].name.ts <= c
    BY OrderedFacts DEF Ordered
  <1>2. \A i \in 1 .. Len(s) : s[i].name.ts < c + d /\ s[i].name.ts <= c + d
    BY <1>1
  <1> QED
    BY <1>2 DEF Ordered

\* The steps of a snapshot.
LEMMA RetName ==
    ASSUME OneByOne, RetInv, Recoverable', NEW r \in Req, NameSnapshot(r)
    PROVE  RetInv'
  <1> PICK d \in ClockStep, x \in Suffix :
          /\ clock' = clock + d
          /\ Set(r, [req[r] EXCEPT !.pc = "vacuum", !.name = [ts |-> clock + d, suf |-> x]])
    BY DEF NameSnapshot
  <1> DEFINE l == [req[r] EXCEPT !.pc = "vacuum", !.name = [ts |-> clock + d, suf |-> x]]
  <1>1. d \in Nat \ {0} /\ clock \in Int /\ clock' \in Int
    BY DEF OneByOne, RetInv
  <1>2. Ordered(snaps, clock') /\ \A i \in 1 .. Len(snaps) : snaps[i].name.ts < clock'
    BY <1>1, ClockLater DEF RetInv
  <1>3. DOMAIN req[r] = DOMAIN Idle
    BY DEF RetInv, Progress
  <1>4. /\ DOMAIN l = DOMAIN Idle /\ l.pc = "vacuum"
        /\ l.name = [ts |-> clock', suf |-> x]
    BY <1>3 DEF Idle
  <1>5. l.name \in Name /\ l.name.ts = clock'
    BY <1>1, <1>4 DEF Name
  <1>6. snaps' = snaps /\ keep' = keep
    BY DEF NameSnapshot, disk
  <1>7. DOMAIN req' = Req /\ \A q \in Req : req'[q] = l
    BY OnlyOne DEF RetInv
  <1> HIDE DEF l
  <1>8. Progress(l, snaps, clock')
    BY <1>2, <1>4, <1>5 DEF Progress
  <1> QED
    BY <1>1, <1>2, <1>6, <1>7, <1>8 DEF RetInv

\* VACUUM INTO creates the newest file.
LEMMA RetVacuumBegin ==
    ASSUME OneByOne, RetInv, Recoverable', NEW r \in Req, VacuumBegin(r)
    PROVE  RetInv' /\ \A i \in 1 .. Len(snaps) : i \in 1 .. Len(snaps') /\ snaps'[i] = snaps[i]
  <1> PICK c \in {Junk, Torn} : snaps' = Append(snaps, [name |-> req[r].name, ver |-> c])
    BY DEF VacuumBegin
  <1> DEFINE f == [name |-> req[r].name, ver |-> c]
             l == [req[r] EXCEPT !.pc = "vacuuming"]
  <1>1. snaps' = Append(snaps, f) /\ Set(r, l) /\ clock' = clock /\ keep' = keep
        /\ req[r].pc = "vacuum"
    BY DEF VacuumBegin, Goto
  <1>2. /\ DOMAIN req[r] = DOMAIN Idle /\ req[r].name \in Name /\ req[r].name.ts = clock
        /\ \A i \in 1 .. Len(snaps) : snaps[i].name.ts < clock
    BY <1>1 DEF RetInv, Progress
  <1>3. f \in File /\ f.name = req[r].name /\ f.name.ts = clock
    BY <1>2 DEF File, Content, Vault
  <1>4. l.pc = "vacuuming" /\ DOMAIN l = DOMAIN Idle /\ l.name = req[r].name
    BY <1>2 DEF Idle
  <1>5. DOMAIN req' = Req /\ \A q \in Req : req'[q] = l
    BY <1>1, OnlyOne DEF RetInv
  <1> HIDE DEF f, l
  <1>6. /\ Ordered(snaps', clock) /\ Len(snaps') = Len(snaps) + 1
        /\ snaps'[Len(snaps) + 1] = f /\ \A i \in 1 .. Len(snaps) : snaps'[i] = snaps[i]
    BY <1>1, <1>2, <1>3, OrderedAppend DEF RetInv
  <1>7. Len(snaps) \in Nat
    BY OrderedFacts DEF RetInv
  <1>8. Progress(l, snaps', clock)
    BY <1>3, <1>4, <1>6, <1>7 DEF Progress
  <1> QED
    BY <1>1, <1>5, <1>6, <1>7, <1>8 DEF RetInv

\* It fills the newest file with the version in use.
LEMMA RetVacuumEnd ==
    ASSUME OneByOne, RetInv, Recoverable', NEW r \in Req, VacuumEnd(r)
    PROVE  /\ RetInv' /\ Len(snaps') = Len(snaps) /\ Len(snaps) \in Nat \ {0}
           /\ snaps'[Len(snaps)].ver = live /\ Valid(live)
  <1> DEFINE l == [req[r] EXCEPT !.pc = "list"]
  <1>1. /\ Set(r, l) /\ clock' = clock /\ keep' = keep /\ req[r].pc = "vacuuming" /\ Serving
        /\ snaps' = [i \in DOMAIN snaps |->
                       IF snaps[i].name = req[r].name THEN [snaps[i] EXCEPT !.ver = live]
                                                      ELSE snaps[i]]
    BY DEF VacuumEnd, Goto
  <1>2. DOMAIN req[r] = DOMAIN Idle /\ Len(snaps) > 0 /\ snaps[Len(snaps)].name = req[r].name
    BY <1>1 DEF RetInv, Progress
  <1>3. Valid(live) /\ live \in Content
    BY <1>1 DEF RetInv, Recoverable, Serving, Valid, Content
  <1>4. /\ Len(snaps) \in Nat /\ DOMAIN snaps = 1 .. Len(snaps)
        /\ \A i \in 1 .. Len(snaps) : snaps[i] \in File
    BY OrderedFacts DEF RetInv
  <1>5. \A i \in DOMAIN snaps : LET g == [snaps[i] EXCEPT !.ver = live]
                                IN  g \in File /\ g.name = snaps[i].name /\ g.ver = live
    BY <1>3, <1>4 DEF File
  <1>6. /\ DOMAIN snaps' = DOMAIN snaps
        /\ \A i \in DOMAIN snaps : snaps'[i] \in File /\ snaps'[i].name = snaps[i].name
    BY <1>1, <1>4, <1>5
  <1>7. snaps' = [i \in DOMAIN snaps |-> snaps'[i]]
    BY <1>1
  <1>8. Len(snaps) \in DOMAIN snaps /\ snaps'[Len(snaps)].ver = live
    BY <1>1, <1>2, <1>4, <1>5
  <1>9. Ordered(snaps', clock) /\ Len(snaps') = Len(snaps)
    BY <1>6, <1>7, OrderedFill DEF RetInv
  <1>10. l.pc = "list" /\ DOMAIN l = DOMAIN Idle
    BY <1>2 DEF Idle
  <1>11. DOMAIN req' = Req /\ \A q \in Req : req'[q] = l
    BY <1>1, OnlyOne DEF RetInv
  <1> HIDE DEF l
  <1>12. Progress(l, snaps', clock)
    BY <1>2, <1>3, <1>8, <1>9, <1>10 DEF Progress
  <1>13. RetInv'
    BY <1>1, <1>9, <1>11, <1>12 DEF RetInv
  <1> QED
    BY <1>2, <1>3, <1>4, <1>8, <1>9, <1>13

\* prune lists what is beyond the retention; if that is nothing, it is done.
LEMMA RetList ==
    ASSUME OneByOne, RetInv, Recoverable', NEW r \in Req, List(r)
    PROVE  /\ RetInv' /\ snaps' = snaps /\ Len(snaps) \in Nat /\ keep \in Nat
           /\ req'[r].pc # "prune" => Len(snaps) <= keep
  <1>1. /\ Set(r, IF Beyond = {} THEN Returned(r)
                  ELSE [req[r] EXCEPT !.pc = "prune", !.del = Beyond, !.keep = keep])
        /\ snaps' = snaps /\ clock' = clock /\ keep' = keep /\ req[r].pc = "list"
    BY DEF List, disk
  <1>2. DOMAIN req[r] = DOMAIN Idle /\ Len(snaps) > 0
    BY <1>1 DEF RetInv, Progress
  <1>3. keep \in Nat \ {0} /\ Len(snaps) \in Nat /\ Beyond = Excess(snaps, keep)
    BY BeyondIsExcess, OrderedFacts, BackupAssumption DEF RetInv
  <1>4. Len(snaps) > keep <=> Beyond # {}
    <2>1. CASE Len(snaps) > keep
      BY <1>3, <2>1, NewestOfExcess DEF RetInv
    <2>2. CASE ~(Len(snaps) > keep)
      <3>1. 1 .. Len(snaps) - keep = {}
        BY <1>3, <2>2
      <3> QED
        BY <1>3, <2>2, <3>1 DEF Excess
    <2> QED
      BY <2>1, <2>2
  <1>5. CASE Beyond = {}
    <2>1. RetInv'
      BY <1>1, <1>2, <1>5, RetStep, ReturnedProgress DEF RetInv
    <2> QED
      BY <1>1, <1>3, <1>4, <1>5, <2>1
  <1>6. CASE Beyond # {}
    <2> DEFINE l == [req[r] EXCEPT !.pc = "prune", !.del = Beyond, !.keep = keep]
    <2>1. l.pc = "prune" /\ l.del = Beyond /\ l.keep = keep /\ DOMAIN l = DOMAIN Idle
      BY <1>2 DEF Idle
    <2>2. Set(r, l)
      BY <1>1, <1>6
    <2>3. req'[r] = l
      BY <2>2, OnlyOne DEF RetInv
    <2> HIDE DEF l
    <2>4. Progress(l, snaps, clock)
      BY <1>2, <1>3, <1>4, <1>6, <2>1 DEF Progress
    <2>5. RetInv'
      BY <1>1, <2>2, <2>4, RetStep DEF RetInv
    <2> QED
      BY <1>1, <1>3, <2>1, <2>3, <2>5
  <1> QED
    BY <1>5, <1>6

\* The directory without its k-th file, for the file that prune removes next.
LEMMA WithoutDrops ==
    ASSUME NEW c \in Int, Ordered(snaps, c), NEW k \in 1 .. Len(snaps)
    PROVE  snaps[k].name \in Names /\ Without(snaps[k].name) = Dropped(snaps, k)
  <1>1. /\ DOMAIN snaps = 1 .. Len(snaps)
        /\ \A i, j \in 1 .. Len(snaps) : snaps[i].name = snaps[j].name => i = j
    BY OrderedFacts
  <1>2. (CHOOSE i \in DOMAIN snaps : snaps[i].name = snaps[k].name) = k
    BY <1>1
  <1>3. snaps[k].name \in Names
    BY <1>1 DEF Names
  <1> QED
    BY <1>2, <1>3 DEF Without, Dropped

\* What is beyond the retention once the newest of it is gone.
LEMMA ExcessDrop ==
    ASSUME NEW s, NEW c \in Int, Ordered(s, c), NEW k \in Nat \ {0}, Len(s) > k
    PROVE  LET n == Len(s) - k
           IN  /\ Excess(s, k) \ {s[n].name} = Excess(Dropped(s, n), k)
               /\ Excess(s, k) = {s[n].name} <=> n = 1
               /\ Dropped(s, n)[Len(s) - 1] = s[Len(s)]
  <1> DEFINE n == Len(s) - k
             t == Dropped(s, n)
  <1>1. /\ Len(s) \in Nat
        /\ \A i, j \in 1 .. Len(s) : s[i].name = s[j].name => i = j
    BY OrderedFacts
  <1>2. n \in 1 .. Len(s) /\ n \in Int /\ n < Len(s) /\ Len(s) - 1 \in 1 .. Len(s) - 1
    BY <1>1
  <1>3. \A j \in 1 .. Len(s) - 1 : t[j] = IF j < n THEN s[j] ELSE s[j + 1]
    BY <1>1 DEF Dropped
  <1>4. Len(t) - k = n - 1
    BY <1>1, <1>2, OrderedDrop
  <1>5. t[Len(s) - 1] = s[Len(s)]
    <2>1. ~(Len(s) - 1 < n) /\ (Len(s) - 1) + 1 = Len(s)
      BY <1>1, <1>2
    <2> QED
      BY <1>2, <1>3, <2>1
  <1>6. Excess(s, k) = {s[i].name : i \in 1 .. n}
    BY DEF Excess
  <1>7. Excess(t, k) = {t[i].name : i \in 1 .. n - 1}
    BY <1>4 DEF Excess
  <1> HIDE DEF n, t
  <1>8. \A i \in 1 .. n - 1 : i \in 1 .. n /\ i \in 1 .. Len(s) - 1 /\ i < n /\ i \in 1 .. Len(s)
    BY <1>1, <1>2
  <1>9. \A i \in 1 .. n : i \in 1 .. Len(s) /\ (i = n \/ i \in 1 .. n - 1)
    BY <1>1, <1>2
  <1>10. Excess(t, k) = {s[i].name : i \in 1 .. n - 1}
    <2>1. \A i \in 1 .. n - 1 : t[i].name = s[i].name
      BY <1>3, <1>8
    <2> QED
      BY <1>7, <2>1
  <1>11. \A i \in 1 .. n - 1 : s[i].name # s[n].name
    <2> TAKE i \in 1 .. n - 1
    <2>1. i # n
      BY <1>2
    <2> QED
      BY <1>1, <1>2, <1>8, <2>1
  <1>12. Excess(s, k) \ {s[n].name} = Excess(t, k)
    BY <1>6, <1>8, <1>9, <1>10, <1>11
  <1>13. Excess(s, k) = {s[n].name} <=> n = 1
    <2>1. CASE n = 1
      <3>1. \A i \in 1 .. n : i = n
        BY <2>1
      <3>2. n \in 1 .. n
        BY <2>1
      <3> QED
        BY <1>6, <2>1, <3>1, <3>2
    <2>2. CASE n # 1
      <3>1. 1 \in 1 .. n - 1
        BY <1>2, <2>2
      <3>2. s[1].name \in Excess(s, k) /\ s[1].name # s[n].name
        BY <1>6, <1>8, <1>11, <3>1
      <3> QED
        BY <2>2, <3>2
    <2> QED
      BY <2>1, <2>2
  <1> QED
    BY <1>5, <1>12, <1>13 DEF n, t

\* prune removes the newest of the files beyond the retention, and is done when
\* there are as many as it keeps.
LEMMA RetRemove ==
    ASSUME OneByOne, RetInv, Recoverable', NEW r \in Req, Remove(r)
    PROVE  LET k == req[r].keep
               n == Len(snaps) - k
           IN  /\ RetInv' /\ k \in Nat \ {0} /\ Len(snaps) \in Nat /\ Len(snaps) > k
               /\ snaps' = Dropped(snaps, n)
               /\ Len(snaps') = Len(snaps) - 1
               /\ snaps'[Len(snaps')] = snaps[Len(snaps)]
               /\ req'[r].pc # "prune" => Len(snaps') = k
  <1> DEFINE k == req[r].keep
             n == Len(snaps) - k
             l == [req[r] EXCEPT !.del = @ \ {snaps[n].name}]
  <1>1. /\ req[r].pc = "prune" /\ clock' = clock /\ keep' = keep /\ clock \in Int
        /\ Ordered(snaps, clock) /\ DOMAIN req = Req
    BY DEF Remove, RetInv
  <1>2. /\ DOMAIN req[r] = DOMAIN Idle /\ k \in Nat \ {0} /\ Len(snaps) > k
        /\ req[r].del = Excess(snaps, k)
    BY <1>1 DEF RetInv, Progress
  <1>3. Len(snaps) \in Nat /\ n \in 1 .. Len(snaps) /\ Len(snaps) - 1 > 0
    BY <1>1, <1>2, OrderedFacts
  <1>4. Newest(req[r].del) = snaps[n].name
    BY <1>1, <1>2, NewestOfExcess
  <1>5. snaps[n].name \in Names /\ Without(snaps[n].name) = Dropped(snaps, n)
    BY <1>1, <1>3, WithoutDrops
  <1>6. /\ snaps' = Dropped(snaps, n)
        /\ Set(r, IF req[r].del # {snaps[n].name} THEN l ELSE Returned(r))
    BY <1>4, <1>5 DEF Remove
  <1>7. Ordered(snaps', clock) /\ Len(snaps') = Len(snaps) - 1
    BY <1>1, <1>3, <1>6, OrderedDrop
  <1>8. /\ req[r].del \ {snaps[n].name} = Excess(snaps', k)
        /\ req[r].del = {snaps[n].name} <=> n = 1
        /\ snaps'[Len(snaps')] = snaps[Len(snaps)]
    <2>1. /\ Excess(snaps, k) \ {snaps[n].name} = Excess(Dropped(snaps, n), k)
          /\ Excess(snaps, k) = {snaps[n].name} <=> n = 1
          /\ Dropped(snaps, n)[Len(snaps) - 1] = snaps[Len(snaps)]
      BY <1>1, <1>2, ExcessDrop
    <2> HIDE DEF n, k
    <2> QED
      BY <1>2, <1>6, <1>7, <2>1
  <1>9. n = 1 <=> Len(snaps') = k
    BY <1>2, <1>3, <1>7
  <1>10. CASE req[r].del = {snaps[n].name}
    <2>1. DOMAIN req' = Req /\ \A q \in Req : req'[q] = Returned(r)
      BY <1>1, <1>6, <1>10, OnlyOne
    <2>2. Progress(Returned(r), snaps', clock)
      BY <1>2, ReturnedProgress
    <2>3. RetInv'
      BY <1>1, <1>7, <2>1, <2>2 DEF RetInv
    <2> QED
      BY <1>2, <1>3, <1>6, <1>7, <1>8, <1>9, <1>10, <2>3
  <1>11. CASE req[r].del # {snaps[n].name}
    <2>1. DOMAIN req' = Req /\ \A q \in Req : req'[q] = l
      BY <1>1, <1>6, <1>11, OnlyOne
    <2>2. /\ DOMAIN l = DOMAIN Idle /\ l.pc = "prune" /\ l.keep = k
          /\ l.del = req[r].del \ {snaps[n].name}
      BY <1>1, <1>2 DEF Idle
    <2>3. Len(snaps') > k
      BY <1>2, <1>3, <1>7, <1>8, <1>9, <1>11
    <2> HIDE DEF l, n, k
    <2>4. Progress(l, snaps', clock)
      BY <1>2, <1>3, <1>7, <1>8, <2>2, <2>3 DEF Progress
    <2>5. RetInv'
      BY <1>1, <1>7, <2>1, <2>4 DEF RetInv
    <2>6. req'[r].pc = "prune"
      BY <2>1, <2>2
    <2> QED
      BY <1>2, <1>3, <1>6, <1>7, <1>8, <2>5, <2>6 DEF n, k
  <1> QED
    BY <1>10, <1>11

\* There are no files at first.
LEMMA RetInit == Init => RetInv
  <1> SUFFICES ASSUME Init PROVE RetInv
    OBVIOUS
  <1>1. snaps = <<>> /\ clock = 0 /\ keep \in Keeps /\ req = [r \in Req |-> Idle]
    BY DEF Init
  <1>2. Ordered(snaps, clock)
    BY <1>1 DEF Ordered
  <1> QED
    BY <1>1, <1>2, IdleProgress, RecoverableInit DEF RetInv

\* What leaves the directory, the clock and the handlers alone, or ends them all.
LEMMA RetApart ==
    ASSUME RetInv, Recoverable', UNCHANGED <<snaps, clock>>, keep' \in Keeps,
           req' = req \/ req' = [r \in Req |-> Idle]
    PROVE  RetInv'
  BY IdleProgress DEF RetInv

\* The steps that are no part of a snapshot.
NotSnapshot(r) == Backup(r) \/ Stage(r) \/ Copy(r) \/ Check(r) \/ Commit(r) \/ Restart(r) \/ Failure(r)

\* They leave the directory as it is.
LEMMA RetOther ==
    ASSUME OneByOne, RetInv, Recoverable', NEW r \in Req, NotSnapshot(r)
    PROVE  /\ RetInv' /\ snaps' = snaps /\ req[r].pc \notin {"list", "prune"}
           /\ \A q \in Req : req'[q].pc \notin {"list", "prune"}
  <1>1. DOMAIN req[r] = DOMAIN Idle
    BY DEF RetInv, Progress
  <1>2. \A pc : LET l == [req[r] EXCEPT !.pc = pc] IN DOMAIN l = DOMAIN Idle /\ l.pc = pc
    BY <1>1 DEF Idle
  <1>3. Idle.pc = "idle"
    BY DEF Idle
  <1>4. \A pc : pc \notin {"vacuum", "vacuuming", "list", "prune"}
                => /\ Progress([req[r] EXCEPT !.pc = pc], snaps, clock)
                   /\ [req[r] EXCEPT !.pc = pc].pc = pc
    BY <1>2, ProgressElsewhere
  <1>5. /\ Progress(Idle, snaps, clock) /\ Progress(Returned(r), snaps, clock)
        /\ Returned(r).pc \in {"idle", "commit"}
    BY <1>1, IdleProgress, ReturnedProgress
  <1> DEFINE Goal == \E l : Set(r, l) /\ Progress(l, snaps, clock) /\ l.pc \notin {"list", "prune"}
  <1>10. ASSUME NEW pc \in {"name", "commit", "restart"}, Goto(r, pc) PROVE Goal
    <2> DEFINE l == [req[r] EXCEPT !.pc = pc]
    <2>1. Progress(l, snaps, clock) /\ l.pc = pc /\ Set(r, l)
      BY <1>4, <1>10 DEF Goto
    <2> HIDE DEF l
    <2> QED
      BY <2>1
  <1>6. Goal
    <2>1. CASE Backup(r)
      BY <1>10, <2>1 DEF Backup
    <2>2. CASE Stage(r)
      <3> PICK c, i : Set(r, [Idle EXCEPT !.pc = "copy", !.restoring = TRUE, !.src = c, !.fd = i])
        BY <2>2 DEF Stage
      <3> DEFINE l == [Idle EXCEPT !.pc = "copy", !.restoring = TRUE, !.src = c, !.fd = i]
      <3>1. DOMAIN l = DOMAIN Idle /\ l.pc = "copy"
        BY DEF Idle
      <3> QED
        BY <3>1, ProgressElsewhere
    <2>3. CASE Copy(r)
      <3> DEFINE l == [req[r] EXCEPT !.pc = "check", !.fd = Nil]
      <3>1. DOMAIN l = DOMAIN Idle /\ l.pc = "check"
        BY <1>1 DEF Idle
      <3> QED
        BY <2>3, <3>1, ProgressElsewhere DEF Copy
    <2>4. CASE Check(r)
      BY <1>3, <1>5, <1>10, <2>4 DEF Check
    <2>5. CASE Commit(r)
      BY <1>3, <1>5, <1>10, <2>5 DEF Commit
    <2>6. CASE Restart(r)
      BY <1>3, <1>5, <2>6 DEF Restart
    <2>7. CASE VacuumFail(r)
      BY <1>3, <1>5, <2>7 DEF VacuumFail
    <2>8. CASE CopyFail(r)
      BY <1>3, <1>5, <2>8 DEF CopyFail
    <2> QED
      BY <2>1, <2>2, <2>3, <2>4, <2>5, <2>6, <2>7, <2>8 DEF NotSnapshot, Failure
  <1>7. UNCHANGED <<snaps, clock, keep>> /\ req[r].pc \notin {"list", "prune"}
    BY <1>3 DEF NotSnapshot, Failure, Backup, Stage, Copy, Check, Commit, Restart, VacuumFail, CopyFail, disk
  <1>8. keep' \in Keeps
    BY <1>7 DEF RetInv
  <1> PICK l : Set(r, l) /\ Progress(l, snaps, clock) /\ l.pc \notin {"list", "prune"}
    BY <1>6
  <1>9. \A q \in Req : req'[q] = l
    BY OnlyOne DEF RetInv
  <1> QED
    BY <1>7, <1>8, <1>9, RetStep

\* Every step keeps the directory in order; only a snapshot or a prune changes it.
LEMMA RetNext ==
    ASSUME OneByOne, RetInv, [Next]_vars
    PROVE  /\ RetInv'
           /\ \/ \E r \in Req : VacuumBegin(r) \/ VacuumEnd(r) \/ List(r) \/ Remove(r)
              \/ /\ snaps' = snaps
                 /\ \A r \in Req : req[r].pc \in {"list", "prune"} => req'[r] = req[r] \/ ~Serving'
                 /\ \A r \in Req : req'[r].pc \in {"list", "prune"} => req[r].pc \in {"list", "prune"}
  <1>1. Recoverable'
    BY RecoverableNext DEF RetInv
  <1>2. ASSUME NEW r \in Req, Backup(r) \/ Stage(r) \/ Handler(r) \/ Failure(r)
        PROVE  /\ RetInv'
               /\ \/ \E q \in Req : VacuumBegin(q) \/ VacuumEnd(q) \/ List(q) \/ Remove(q)
                  \/ /\ snaps' = snaps
                     /\ \A q \in Req : req[q].pc \notin {"list", "prune"}
                     /\ \A q \in Req : req'[q].pc \notin {"list", "prune"}
    <2>0. \A q \in Req : q = r
      BY DEF OneByOne
    <2>1. CASE NotSnapshot(r)
      BY <1>1, <2>0, <2>1, RetOther
    <2>2. CASE NameSnapshot(r)
      <3>1. snaps' = snaps /\ req[r].pc = "name" /\ DOMAIN req[r] = DOMAIN Idle
        BY <2>2 DEF NameSnapshot, disk, RetInv, Progress
      <3>2. PICK n : Set(r, [req[r] EXCEPT !.pc = "vacuum", !.name = n])
        BY <2>2 DEF NameSnapshot
      <3>3. [req[r] EXCEPT !.pc = "vacuum", !.name = n].pc = "vacuum"
        BY <3>1 DEF Idle
      <3>4. \A q \in Req : req'[q].pc = "vacuum"
        BY <3>2, <3>3, OnlyOne DEF RetInv
      <3> QED
        BY <1>1, <2>0, <2>2, <3>1, <3>4, RetName
    <2>3. CASE VacuumBegin(r)
      BY <1>1, <2>3, RetVacuumBegin
    <2>4. CASE VacuumEnd(r)
      BY <1>1, <2>4, RetVacuumEnd
    <2>5. CASE List(r)
      BY <1>1, <2>5, RetList
    <2>6. CASE Remove(r)
      BY <1>1, <2>6, RetRemove
    <2> QED
      BY <1>2, <2>1, <2>2, <2>3, <2>4, <2>5, <2>6 DEF NotSnapshot, Handler
  <1>3. CASE \E r \in Req : Backup(r) \/ Stage(r) \/ Handler(r) \/ Failure(r)
    BY <1>2, <1>3
  <1>4. CASE Write \/ (\E k \in Keeps : SetSchedule(k)) \/ Exit \/ Crash \/ Boot \/ UNCHANGED vars
    <2>1. /\ UNCHANGED <<snaps, clock>>
          /\ req' = req \/ (req' = [r \in Req |-> Idle] /\ ~Serving')
          /\ keep' \in Keeps
      <3>1. CASE Write
        BY <3>1 DEF Write, RetInv
      <3>2. CASE \E k \in Keeps : SetSchedule(k)
        BY <3>2 DEF SetSchedule, disk
      <3>3. CASE Exit
        BY <3>3 DEF Exit, Dead, Serving, RetInv
      <3>4. CASE Crash
        BY <3>4 DEF Crash, Dead, disk, Serving, RetInv
      <3>5. CASE Boot
        BY <3>5 DEF Boot, BootCheck, RemoveLive, RemoveWal, Swap, Open, RetInv
      <3>6. CASE UNCHANGED vars
        BY <3>6 DEF vars, disk, RetInv
      <3> QED
        BY <1>4, <3>1, <3>2, <3>3, <3>4, <3>5, <3>6
    <2>2. RetInv'
      BY <1>1, <2>1, RetApart
    <2>3. Idle.pc = "idle"
      BY DEF Idle
    <2> QED
      BY <2>1, <2>2, <2>3
  <1> QED
    BY <1>3, <1>4 DEF Next

\* Retention removes enough: a snapshot that wrote its file ends with at most as many
\* files as it keeps, however many the directory held, and although the snapshots
\* before it may have failed or been cut short by a crash.
THEOREM RetentionRemovesEnough == OneByOne => (Spec => RetentionBound)
  <1> SUFFICES ASSUME OneByOne PROVE Spec => RetentionBound
    OBVIOUS
  <1> DEFINE A == \A r \in Req :
          /\ req[r].pc \in {"list", "prune"} /\ ~Snapshotting(r)' /\ Serving'
          /\ \A q \in Req \ {r} : ~Snapshotting(q)
          => Len(snaps') <= IF req[r].pc = "prune" THEN req[r].keep ELSE keep
  <1>1. RetInv /\ [Next]_vars => RetInv'
    BY RetNext
  <1>2. RetInv /\ [Next]_vars => A
    <2> SUFFICES ASSUME RetInv, [Next]_vars, NEW r \in Req,
                        req[r].pc \in {"list", "prune"}, ~Snapshotting(r)', Serving'
                 PROVE  Len(snaps') <= IF req[r].pc = "prune" THEN req[r].keep ELSE keep
      OBVIOUS
    <2>1. req'[r] # req[r] /\ req'[r].pc # "prune"
      BY DEF Snapshotting
    <2>2. PICK q \in Req : VacuumBegin(q) \/ VacuumEnd(q) \/ List(q) \/ Remove(q)
      BY <2>1, RetNext
    <2>3. q = r
      BY DEF OneByOne
    <2>4. Recoverable'
      BY RecoverableNext DEF RetInv
    <2>5. CASE List(r)
      <3>1. req[r].pc = "list"
        BY <2>5 DEF List
      <3> QED
        BY <2>1, <2>4, <2>5, <3>1, RetList
    <2>6. CASE Remove(r)
      <3>1. req[r].pc = "prune"
        BY <2>6 DEF Remove
      <3>2. req[r].keep \in Nat /\ Len(snaps') = req[r].keep
        BY <2>1, <2>4, <2>6, RetRemove
      <3> QED
        BY <3>1, <3>2
    <2>7. ~VacuumBegin(r) /\ ~VacuumEnd(r)
      BY DEF VacuumBegin, VacuumEnd
    <2> QED
      BY <2>2, <2>3, <2>5, <2>6, <2>7
  <1>3. RetInv /\ [Next]_vars => [A]_vars
    BY <1>2
  <1> HIDE DEF A
  <1>4. Spec => [][A]_vars
    BY <1>1, <1>3, RetInit, PTL DEF Spec
  <1> QED
    BY <1>4 DEF A, RetentionBound

\* From the moment a snapshot has filled its file to the end of its prune, that file
\* is the newest and holds a whole version, if the database in use is whole.
WholeInv ==
    /\ ~Serving => \A r \in Req : req[r].pc = "idle"
    /\ live \in Version => \A r \in Req : req[r].pc \in {"list", "prune"} => snaps[Len(snaps)].ver \in Version

\* No handler has begun at first.
LEMMA WholeInit == Init => WholeInv
  <1>1. Idle.pc = "idle"
    BY DEF Idle
  <1> QED
    BY <1>1 DEF Init, WholeInv

\* A step that makes no vault whole.
LEMMA LiveStaysTorn ==
    ASSUME RetInv, WholeInv, [Next]_vars
    PROVE  /\ ~Serving' => \A r \in Req : req'[r].pc = "idle"
           /\ live' \in Version => live \in Version \/ \A r \in Req : req'[r].pc = "idle"
  <1>0. Idle.pc = "idle" /\ Recoverable
    BY DEF Idle, RetInv
  <1>1. CASE Write
    BY <1>0, <1>1, BackupAssumption DEF Write, WholeInv, Recoverable, Serving, Valid, Vault, Version
  <1>2. CASE \E k \in Keeps : SetSchedule(k)
    BY <1>2 DEF SetSchedule, disk, WholeInv, Serving
  <1>3. CASE \E r \in Req : Backup(r) \/ Stage(r) \/ Handler(r) \/ Failure(r)
    BY <1>3, RequestStep DEF Serving
  <1>4. CASE Exit \/ Crash
    BY <1>0, <1>4 DEF Exit, Crash, Dead
  <1>5. CASE Boot
    <2>1. ~Serving /\ req' = req
      BY <1>5 DEF Boot, BootCheck, RemoveLive, RemoveWal, Swap, Open, Serving
    <2> QED
      BY <2>1 DEF WholeInv
  <1>6. CASE UNCHANGED vars
    BY <1>6 DEF vars, disk, WholeInv, Serving
  <1> QED
    BY <1>1, <1>2, <1>3, <1>4, <1>5, <1>6 DEF Next

\* Every step keeps the newest file whole.
LEMMA WholeNext ==
    ASSUME OneByOne, RetInv, WholeInv, [Next]_vars
    PROVE  WholeInv'
  <1>0. Recoverable' /\ \A q, r \in Req : q = r
    BY RecoverableNext DEF RetInv, OneByOne
  <1>1. /\ ~Serving' => \A r \in Req : req'[r].pc = "idle"
        /\ live' \in Version => live \in Version \/ \A r \in Req : req'[r].pc = "idle"
    BY LiveStaysTorn
  <1> SUFFICES ASSUME live' \in Version, live \in Version, NEW q \in Req,
                      req'[q].pc \in {"list", "prune"}
               PROVE  snaps'[Len(snaps')].ver \in Version
    BY <1>1 DEF WholeInv
  <1>2. CASE VacuumBegin(q)
    <2>1. DOMAIN req = Req /\ DOMAIN req[q] = DOMAIN Idle
      BY DEF RetInv, Progress
    <2>2. Goto(q, "vacuuming")
      BY <1>2 DEF VacuumBegin
    <2>3. req'[q].pc = "vacuuming"
      BY <2>1, <2>2 DEF Goto, Set, Idle
    <2> QED
      BY <2>3
  <1>3. CASE VacuumEnd(q)
    <2>1. Len(snaps') = Len(snaps) /\ snaps'[Len(snaps)].ver = live
      BY <1>0, <1>3, RetVacuumEnd
    <2> QED
      BY <2>1
  <1>4. CASE List(q)
    BY <1>4 DEF List, disk, WholeInv
  <1>5. CASE Remove(q)
    <2>1. snaps'[Len(snaps')] = snaps[Len(snaps)] /\ req[q].pc = "prune"
      BY <1>0, <1>5, RetRemove DEF Remove
    <2> QED
      BY <2>1 DEF WholeInv
  <1>6. CASE snaps' = snaps /\ req[q].pc \in {"list", "prune"}
    BY <1>6 DEF WholeInv
  <1>7. \/ \E r \in Req : VacuumBegin(r) \/ VacuumEnd(r) \/ List(r) \/ Remove(r)
        \/ snaps' = snaps /\ req[q].pc \in {"list", "prune"}
    BY RetNext
  <1> QED
    BY <1>0, <1>2, <1>3, <1>4, <1>5, <1>6, <1>7

\* A good backup stays: with one operation at a time, while the database in use is
\* whole, once a snapshot holds a whole version there is one that does at every later
\* time.  What prune removes is older than the file its snapshot has just written,
\* and that file is whole.
THEOREM LastGoodKept == OneByOne => (Spec => GoodBackupKept)
  <1> SUFFICES ASSUME OneByOne PROVE Spec => GoodBackupKept
    OBVIOUS
  <1> DEFINE A == (\E i \in DOMAIN snaps : snaps[i].ver \in Version) /\ live \in Version
                  => \E i \in DOMAIN snaps' : snaps'[i].ver \in Version
  <1>1. RetInv /\ WholeInv /\ [Next]_vars => RetInv' /\ WholeInv'
    BY RetNext, WholeNext
  <1>2. RetInv /\ WholeInv /\ [Next]_vars => A
    <2> SUFFICES ASSUME RetInv, WholeInv, [Next]_vars, live \in Version,
                        NEW i \in DOMAIN snaps, snaps[i].ver \in Version
                 PROVE  \E j \in DOMAIN snaps' : snaps'[j].ver \in Version
      OBVIOUS
    <2>1. Recoverable' /\ RetInv'
      BY <1>1, RecoverableNext DEF RetInv
    <2>2. DOMAIN snaps = 1 .. Len(snaps) /\ DOMAIN snaps' = 1 .. Len(snaps')
      BY <2>1, OrderedFacts DEF RetInv
    <2>3. ASSUME NEW r \in Req, VacuumBegin(r) PROVE \E j \in DOMAIN snaps' : snaps'[j].ver \in Version
      BY <2>1, <2>2, <2>3, RetVacuumBegin
    <2>4. ASSUME NEW r \in Req, VacuumEnd(r) PROVE \E j \in DOMAIN snaps' : snaps'[j].ver \in Version
      <3>1. /\ Len(snaps') = Len(snaps) /\ Len(snaps) \in Nat \ {0}
            /\ snaps'[Len(snaps)].ver = live
        BY <2>1, <2>4, RetVacuumEnd
      <3>2. Len(snaps) \in DOMAIN snaps'
        BY <2>2, <3>1
      <3> QED
        BY <3>1, <3>2
    <2>5. ASSUME NEW r \in Req, List(r) PROVE snaps' = snaps
      BY <2>1, <2>5, RetList
    <2>6. ASSUME NEW r \in Req, Remove(r) PROVE \E j \in DOMAIN snaps' : snaps'[j].ver \in Version
      <3>1. /\ req[r].keep \in Nat \ {0} /\ Len(snaps) \in Nat /\ Len(snaps) > req[r].keep
            /\ Len(snaps') = Len(snaps) - 1 /\ snaps'[Len(snaps')] = snaps[Len(snaps)]
        BY <2>1, <2>6, RetRemove
      <3>2. snaps[Len(snaps)].ver \in Version
        BY <2>6 DEF WholeInv, Remove
      <3>3. Len(snaps') \in 1 .. Len(snaps')
        BY <3>1
      <3> QED
        BY <2>2, <3>1, <3>2, <3>3
    <2>7. (\E r \in Req : VacuumBegin(r) \/ VacuumEnd(r) \/ List(r) \/ Remove(r)) \/ snaps' = snaps
      BY RetNext
    <2> QED
      BY <2>3, <2>4, <2>5, <2>6, <2>7
  <1>3. RetInv /\ WholeInv /\ [Next]_vars => [A]_vars
    BY <1>2
  <1> HIDE DEF A
  <1>4. Spec => [][A]_vars
    BY <1>1, <1>3, RetInit, WholeInit, PTL DEF Spec
  <1> QED
    BY <1>4 DEF A, GoodBackupKept

---------------------------------------------------------------------------
(* The safety snapshot                                                     *)

\* The newest file holds the version in use, if that is a whole one.
Safe == live \in Version => Len(snaps) > 0 /\ snaps[Len(snaps)].ver = live

\* From the safety snapshot of a restore to the boot that removes the live database,
\* the newest file holds the version that will disappear: nothing is written, no
\* other snapshot begins and prune leaves that file alone.
SafeInv ==
    /\ \A r \in Req : req[r].pc \in {"commit", "restart"} => req[r].restoring
    /\ \A r \in Req : req[r].restoring /\ req[r].pc \in {"list", "prune", "commit", "restart"} => Safe
    /\ pending # Nil /\ live # Nil => Safe
    /\ pending # Nil /\ Serving => phase = "stopping" \/ \E r \in Req : req[r].pc = "restart"
    /\ phase # "up" => \A r \in Req : req[r].pc = "idle"

\* Nothing is staged at first.
LEMMA SafeInit == Init => SafeInv
  <1>1. Idle.pc = "idle"
    BY DEF Idle
  <1> QED
    BY <1>1 DEF Init, SafeInv

\* A step of the handler, of a process that goes on.
LEMMA SafeStep ==
    ASSUME OneByOne, RetInv, NEW r \in Req, NEW l, Set(r, l), phase' = "up", live' = live,
           pending' # Nil => l.pc = "restart",
           l.pc \in {"commit", "restart"} => l.restoring,
           l.restoring /\ l.pc \in {"list", "prune", "commit", "restart"} => Safe'
    PROVE  SafeInv'
  <1>1. \A q \in Req : req'[q] = l
    BY OnlyOne DEF RetInv
  <1>2. Safe' \/ pending' = Nil
    OBVIOUS
  <1> HIDE DEF Safe
  <1>3. pending' # Nil => \E q \in Req : req'[q].pc = "restart"
    BY <1>1
  <1> QED
    BY <1>1, <1>2, <1>3 DEF SafeInv

\* One operation at a time, snapshots that succeed unless the database is Torn, and nobody who writes between the
\* safety snapshot and the exit.
Quiet == OneByOne /\ ~Faults /\ ~LateWrites

\* The steps of the handler, the restart it asks for included.
LEMMA SafeHandler ==
    ASSUME Quiet, RetInv, RetInv', SafeInv, NEW r \in Req,
           Backup(r) \/ Stage(r) \/ Handler(r) \/ Failure(r)
    PROVE  SafeInv'
  <1>1. DOMAIN req[r] = DOMAIN Idle /\ Idle.pc = "idle" /\ ~Idle.restoring /\ OneByOne
    BY DEF RetInv, Progress, Idle, Quiet
  <1>2. Serving /\ live' = live /\ phase' \in {"up", "stopping"}
    BY RequestStep
  <1>3. req[r].pc # "idle" => phase = "up"
    BY DEF SafeInv
  <1>4. phase = "up" /\ req[r].pc # "restart" => pending = Nil
    BY <1>1 DEF SafeInv, Serving, OneByOne
  <1>5. \A pc : LET l == [req[r] EXCEPT !.pc = pc]
                IN  l.pc = pc /\ l.restoring = req[r].restoring
    BY <1>1 DEF Idle
  <1>6. CASE Backup(r)
    <2>1. Goto(r, "name") /\ phase' = "up" /\ pending' = Nil
      BY <1>1, <1>4, <1>6 DEF Backup, disk
    <2> QED
      BY <1>1, <1>2, <1>5, <2>1, SafeStep DEF Goto
  <1>7. CASE Stage(r)
    <2>1. PICK c, i : Set(r, [Idle EXCEPT !.pc = "copy", !.restoring = TRUE, !.src = c, !.fd = i])
      BY <1>7 DEF Stage
    <2> DEFINE l == [Idle EXCEPT !.pc = "copy", !.restoring = TRUE, !.src = c, !.fd = i]
    <2>2. l.pc = "copy"
      BY DEF Idle
    <2>3. phase' = "up" /\ pending' = Nil
      BY <1>1, <1>4, <1>7 DEF Stage
    <2> HIDE DEF l
    <2>4. Set(r, l)
      BY <2>1 DEF l
    <2> QED
      BY <1>1, <1>2, <2>2, <2>3, <2>4, SafeStep
  <1>8. CASE NameSnapshot(r)
    <2>1. PICK n : Set(r, [req[r] EXCEPT !.pc = "vacuum", !.name = n])
      BY <1>8 DEF NameSnapshot
    <2> DEFINE l == [req[r] EXCEPT !.pc = "vacuum", !.name = n]
    <2>2. l.pc = "vacuum"
      BY <1>1 DEF Idle
    <2>3. phase' = "up" /\ pending' = Nil
      BY <1>3, <1>4, <1>8 DEF NameSnapshot, disk
    <2> HIDE DEF l
    <2>4. Set(r, l)
      BY <2>1 DEF l
    <2> QED
      BY <1>1, <1>2, <2>2, <2>3, <2>4, SafeStep
  <1>9. CASE VacuumBegin(r)
    <2>1. Goto(r, "vacuuming") /\ phase' = "up" /\ pending' = Nil
      BY <1>3, <1>4, <1>9 DEF VacuumBegin
    <2> QED
      BY <1>1, <1>2, <1>5, <2>1, SafeStep DEF Goto
  <1>10. CASE VacuumEnd(r)
    <2>1. Goto(r, "list") /\ phase' = "up" /\ pending' = Nil
      BY <1>3, <1>4, <1>10 DEF VacuumEnd
    <2>2. Recoverable'
      BY DEF RetInv
    <2>3. Safe'
      BY <1>1, <1>2, <1>10, <2>2, RetVacuumEnd DEF Safe
    <2> QED
      BY <1>1, <1>2, <1>5, <2>1, <2>3, SafeStep DEF Goto
  <1>11. /\ Returned(r).pc \in {"idle", "commit"}
         /\ Returned(r).pc = "commit" \/ Returned(r).restoring => req[r].restoring /\ Returned(r).restoring
    BY <1>1 DEF Returned, Idle
  <1>12. CASE List(r)
    <2>1. /\ phase' = "up" /\ pending' = Nil /\ req[r].pc = "list"
          /\ Set(r, IF Beyond = {} THEN Returned(r)
                    ELSE [req[r] EXCEPT !.pc = "prune", !.del = Beyond, !.keep = keep])
          /\ snaps' = snaps
      BY <1>3, <1>4, <1>12 DEF List, disk
    <2>2. req[r].restoring => Safe'
      BY <1>2, <2>1 DEF SafeInv, Safe
    <2>3. CASE Beyond = {}
      BY <1>1, <1>2, <1>11, <2>1, <2>2, <2>3, SafeStep
    <2>4. CASE Beyond # {}
      <3> DEFINE l == [req[r] EXCEPT !.pc = "prune", !.del = Beyond, !.keep = keep]
      <3>1. l.pc = "prune" /\ l.restoring = req[r].restoring
        BY <1>1 DEF Idle
      <3> HIDE DEF l
      <3>2. Set(r, l)
        BY <2>1, <2>4 DEF l
      <3> QED
        BY <1>1, <1>2, <2>1, <2>2, <3>1, <3>2, SafeStep
    <2> QED
      BY <2>3, <2>4
  <1>13. CASE Remove(r)
    <2>1. phase' = "up" /\ pending' = Nil /\ req[r].pc = "prune"
      BY <1>3, <1>4, <1>13 DEF Remove
    <2>2. /\ req[r].keep \in Nat \ {0} /\ Len(snaps) \in Nat /\ Len(snaps) > req[r].keep
          /\ Len(snaps') = Len(snaps) - 1 /\ snaps'[Len(snaps')] = snaps[Len(snaps)]
      BY <1>1, <1>13, RetRemove DEF RetInv
    <2>3. req[r].restoring => Safe'
      BY <1>2, <2>1, <2>2 DEF SafeInv, Safe
    <2>4. PICK n : Set(r, IF n \in Names /\ req[r].del # {n}
                          THEN [req[r] EXCEPT !.del = @ \ {n}] ELSE Returned(r))
      BY <1>13 DEF Remove
    <2>5. CASE n \in Names /\ req[r].del # {n}
      <3> DEFINE l == [req[r] EXCEPT !.del = @ \ {n}]
      <3>1. l.pc = "prune" /\ l.restoring = req[r].restoring
        BY <1>1, <2>1 DEF Idle
      <3> HIDE DEF l
      <3>2. Set(r, l)
        BY <2>4, <2>5 DEF l
      <3> QED
        BY <1>1, <1>2, <2>1, <2>3, <3>1, <3>2, SafeStep
    <2>6. CASE ~(n \in Names /\ req[r].del # {n})
      BY <1>1, <1>2, <1>11, <2>1, <2>3, <2>4, <2>6, SafeStep
    <2> QED
      BY <2>5, <2>6
  <1>14. CASE Copy(r)
    <2> DEFINE l == [req[r] EXCEPT !.pc = "check", !.fd = Nil]
    <2>1. l.pc = "check"
      BY <1>1 DEF Idle
    <2>2. phase' = "up" /\ pending' = Nil
      BY <1>3, <1>4, <1>14 DEF Copy
    <2> HIDE DEF l
    <2>3. Set(r, l)
      BY <1>14 DEF Copy, l
    <2> QED
      BY <1>1, <1>2, <2>1, <2>2, <2>3, SafeStep
  <1>15. CASE Check(r)
    <2>1. phase' = "up" /\ pending' = Nil /\ (Goto(r, "name") \/ Set(r, Idle))
      BY <1>3, <1>4, <1>15 DEF Check
    <2> QED
      BY <1>1, <1>2, <1>5, <2>1, SafeStep DEF Goto
  <1>16. CASE Commit(r)
    <2>1. /\ phase' = "up" /\ req[r].pc = "commit" /\ snaps' = snaps
          /\ Goto(r, "restart") \/ (Set(r, Idle) /\ pending' = Nil)
      BY <1>3, <1>4, <1>16 DEF Commit
    <2>2. req[r].restoring /\ Safe'
      BY <1>2, <2>1 DEF SafeInv, Safe
    <2> QED
      BY <1>1, <1>2, <1>5, <2>1, <2>2, SafeStep DEF Goto
  <1>17. CASE Restart(r)
    <2>1. /\ phase' = "stopping" /\ snaps' = snaps /\ pending' = pending /\ live' = live
          /\ \A q \in Req : req'[q] = Idle
      BY <1>1, <1>17, OnlyOne DEF Restart, RetInv, disk
    <2>2. Safe' <=> Safe
      BY <2>1 DEF Safe
    <2> QED
      BY <1>1, <2>1, <2>2 DEF SafeInv
  <1>18. CASE Failure(r)
    <2>1. /\ VacuumFail(r) /\ live = Torn /\ live' = Torn /\ Torn \notin Version
          /\ req[r].pc \in {"vacuum", "vacuuming"} /\ phase' = phase /\ pending' = pending
          /\ Set(r, Returned(r))
      BY <1>18, BackupAssumption DEF Failure, VacuumFail, CopyFail, Quiet, disk, Version
    <2>2. phase' = "up" /\ pending' = Nil /\ Safe'
      BY <1>3, <1>4, <2>1 DEF Safe
    <2> QED
      BY <1>1, <1>2, <1>11, <2>1, <2>2, SafeStep
  <1> QED
    BY <1>6, <1>7, <1>8, <1>9, <1>10, <1>12, <1>13, <1>14, <1>15, <1>16, <1>17, <1>18 DEF Handler

\* Every step keeps the newest file what it has to be.
LEMMA SafeNext == Quiet /\ RetInv /\ RetInv' /\ SafeInv /\ [Next]_vars => SafeInv'
  <1> SUFFICES ASSUME Quiet, RetInv, RetInv', SafeInv, [Next]_vars PROVE SafeInv'
    OBVIOUS
  <1>0. Idle.pc = "idle" /\ Recoverable
    BY DEF Idle, RetInv
  <1>1. CASE Write
    <2>1. phase = "up" /\ phase' = "up" /\ ~Committing /\ UNCHANGED <<pending, req>>
      BY <1>1 DEF Write, Serving, Quiet
    <2>2. /\ \A r \in Req : ~(req[r].restoring /\ req[r].pc \in {"list", "prune", "commit", "restart"})
          /\ \A r \in Req : req[r].pc \notin {"commit", "restart"}
      BY <2>1 DEF Committing, SafeInv
    <2>3. pending = Nil
      BY <2>1, <2>2 DEF SafeInv, Serving
    <2> QED
      BY <2>1, <2>2, <2>3 DEF SafeInv
  <1>2. ASSUME NEW k \in Keeps, SetSchedule(k) PROVE SafeInv'
    BY <1>2 DEF SetSchedule, disk, SafeInv, Safe, Serving
  <1>3. ASSUME NEW r \in Req, Backup(r) \/ Stage(r) \/ Handler(r) \/ Failure(r) PROVE SafeInv'
    BY <1>3, SafeHandler
  <1>4. CASE Exit \/ Crash
    <2>1. /\ phase' = "down" /\ UNCHANGED <<live, snaps, pending>>
          /\ \A r \in Req : req'[r] = Idle
      BY <1>4 DEF Exit, Crash, Dead, disk
    <2>2. Safe' <=> Safe
      BY <2>1 DEF Safe
    <2>3. ~Serving'
      BY <2>1 DEF Serving
    <2> QED
      BY <1>0, <2>1, <2>2, <2>3 DEF SafeInv
  <1>5. CASE Boot
    <2>1. /\ phase \notin {"up", "stopping"} /\ UNCHANGED <<snaps, req>>
          /\ pending' = Nil \/ (pending' = pending /\ (live' = live \/ live' = Nil) /\ ~Serving')
      <3>1. CASE BootCheck
        BY <3>1 DEF BootCheck, Serving
      <3>2. CASE RemoveLive
        BY <3>2 DEF RemoveLive, Serving
      <3>3. CASE RemoveWal
        BY <3>3 DEF RemoveWal, Serving
      <3>4. CASE Swap
        BY <3>4 DEF Swap
      <3>5. CASE Open
        BY <1>0, <3>5 DEF Open, Recoverable
      <3> QED
        BY <1>5, <3>1, <3>2, <3>3, <3>4, <3>5 DEF Boot
    <2>2. \A r \in Req : req'[r].pc = "idle"
      BY <2>1 DEF SafeInv
    <2>3. pending' # Nil /\ live' # Nil => Safe'
      BY <2>1 DEF SafeInv, Safe
    <2> QED
      BY <2>1, <2>2, <2>3 DEF SafeInv
  <1>6. CASE UNCHANGED vars
    BY <1>6 DEF vars, disk, SafeInv, Safe, Serving
  <1> QED
    BY <1>1, <1>2, <1>3, <1>4, <1>5, <1>6 DEF Next

\* The safety snapshot keeps what a restore replaces: when a boot removes a whole
\* vault, a file in the backup directory holds its version, through any crashes.
\* BackupRestore_nosafety is what happens when VACUUM INTO may fail, and
\* BackupRestore_latewrites when others write before the exit.
THEOREM ReplacedIsKept == Quiet => (Spec => NothingLost)
  <1> SUFFICES ASSUME Quiet PROVE Spec => NothingLost
    OBVIOUS
  <1> DEFINE A == live' = Nil /\ live \in Version => \E i \in DOMAIN snaps : snaps[i].ver = live
  <1>0. OneByOne
    BY DEF Quiet
  <1>1. RetInv /\ [Next]_vars => RetInv'
    BY <1>0, RetNext
  <1>2. RetInv /\ SafeInv /\ [Next]_vars => [A]_vars
    <2> SUFFICES ASSUME RetInv, SafeInv, [Next]_vars, live' = Nil, live \in Version
                 PROVE  \E i \in DOMAIN snaps : snaps[i].ver = live
      OBVIOUS
    <2>1. Recoverable' /\ live # Nil
      BY RecoverableNext, BackupAssumption DEF RetInv, Version
    <2>2. pending # Nil
      <3>1. CASE Write
        BY <3>1, <2>1, BackupAssumption DEF Write, Recoverable, Serving
      <3>2. CASE \E k \in Keeps : SetSchedule(k)
        BY <2>1, <3>2 DEF SetSchedule, disk
      <3>3. CASE \E r \in Req : Backup(r) \/ Stage(r) \/ Handler(r) \/ Failure(r)
        BY <2>1, <3>3, RequestStep
      <3>4. CASE Exit \/ Crash
        BY <2>1, <3>4 DEF Exit, Crash, disk
      <3>5. CASE Boot
        BY <3>5, <2>1 DEF Boot, BootCheck, RemoveLive, RemoveWal, Swap, Open, Recoverable, RetInv
      <3>6. CASE UNCHANGED vars
        BY <2>1, <3>6 DEF vars, disk
      <3> QED
        BY <3>1, <3>2, <3>3, <3>4, <3>5, <3>6 DEF Next
    <2>3. Len(snaps) > 0 /\ snaps[Len(snaps)].ver = live
      BY <2>1, <2>2 DEF SafeInv, Safe
    <2>4. Len(snaps) \in Nat /\ DOMAIN snaps = 1 .. Len(snaps)
      BY OrderedFacts DEF RetInv
    <2>5. Len(snaps) \in DOMAIN snaps
      BY <2>3, <2>4
    <2> QED
      BY <2>3, <2>5
  <1>3. RetInv /\ RetInv' /\ SafeInv /\ [Next]_vars => SafeInv'
    BY SafeNext
  <1> HIDE DEF A
  <1>4. Spec => [][A]_vars
    BY <1>1, <1>2, <1>3, RetInit, SafeInit, PTL DEF Spec
  <1> QED
    BY <1>4 DEF A, NothingLost

=============================================================================
