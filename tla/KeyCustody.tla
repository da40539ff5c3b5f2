---------------------------- MODULE KeyCustody ----------------------------
(***************************************************************************)
(* Custody of the data key (DEK) of the vault.                             *)
(*                                                                         *)
(* The vault row holds the DEK wrapped under a passphrase; every encrypted *)
(* column of the database is sealed under a DEK; every unlocked session    *)
(* holds the DEK in a byte buffer of its own.  needDEK hands a handler the *)
(* slice itself, so a handler in flight sees the buffer being zeroed by a  *)
(* lock, an expiry or a key rotation.  A handler is a sequence of steps:   *)
(* one database statement or transaction, or one critical section of the   *)
(* session table, is one step, and the handlers of the requests in Req     *)
(* interleave between them.                                                *)
(*                                                                         *)
(* A key is a number: 0 is the all-zero key a scrubbed buffer holds, k > 0 *)
(* is the k-th DEK drawn from the random source.  A ciphertext is          *)
(* represented by the key that opens it (AES-GCM opens under no other).    *)
(*                                                                         *)
(* A definition placed directly above another with the same parameters and *)
(* a name that says what is wrong (UnscrubbedBuf above ScrubbedBuf) is a   *)
(* mutant of it: PROJECT.json pairs it with the property it must break.    *)
(***************************************************************************)
EXTENDS Integers, FiniteSets

CONSTANTS
    Req,      \* requests that can be in flight together
    Sess,     \* entries of the session table that hold a DEK
    Buf,      \* byte buffers that hold a DEK
    Rec,      \* encrypted columns of projects, environments, folders, ...
    Totp,     \* the vault.totp_enc column, one of Rec
    Pass,     \* passphrases
    MaxDEK,   \* bound: DEKs drawn in one behaviour
    MaxEpoch, \* bound: the vault epoch
    Overlap,  \* TRUE: requests interleave; FALSE: a request waits for the one before
    Nil       \* the nil pointer

ASSUME ConstAssumption ==
    /\ Totp \in Rec
    /\ MaxDEK \in Nat /\ MaxEpoch \in Nat
    /\ Overlap \in BOOLEAN
    /\ Nil \notin Sess /\ Nil \notin Buf /\ Nil \notin Pass

VARIABLES
    vault,   \* the vault row: epoch (0: no row) and the wrapped DEK
    rec,     \* rec[i]: the key that opens column i, or Absent
    ndek,    \* DEKs drawn so far
    buf,     \* buf[b]: content of buffer b
    dek,     \* dek[s]: the DEK buffer of session s, Nil when s is not in the table
    pending, \* sessions whose TOTP code is outstanding
    req      \* req[r]: progress and local variables of request r

vars == <<vault, rec, ndek, buf, dek, pending, req>>

Zero == 0
Key == 0 .. MaxDEK
Absent == -1

PC == {"idle", "seal", "store", "rekey_unlock", "rekey_tx", "rekey_set",
       "chpass_read", "chpass_write", "setup_data", "setup_init",
       "unlock_totp", "unlock_new", "totp_verify", "totp_promote", "setup_new"}

\* Local variables of a handler: the session it runs for and that session's DEK
\* slice as needDEK passed it; a DEK buffer of its own on its way to a session;
\* a DEK or ciphertext held by value; an epoch; a passphrase; a column; whether
\* the session it will create is pending; whether a read of the database failed.
Local == [pc: PC, sess: Sess \cup {Nil}, alias: Buf \cup {Nil},
          own: Buf \cup {Nil}, key: Key, epoch: 0 .. MaxEpoch,
          pass: Pass \cup {Nil}, col: Rec, pend: BOOLEAN, err: BOOLEAN]

Idle == [pc |-> "idle", sess |-> Nil, alias |-> Nil, own |-> Nil, key |-> 0,
         epoch |-> 0, pass |-> Nil, col |-> Totp, pend |-> FALSE, err |-> FALSE]

\* The wrapped DEK: openable with the KEK of kek and the AAD of epoch aad only.
Wrap == [kek: Pass \cup {Nil}, aad: 0 .. MaxEpoch, dek: Key]
NoVault == [epoch |-> 0, wrapped |-> [kek |-> Nil, aad |-> 0, dek |-> 0]]

TypeOK ==
    /\ vault \in [epoch: 0 .. MaxEpoch, wrapped: Wrap]
    /\ rec \in [Rec -> Key \cup {Absent}]
    /\ ndek \in Key
    /\ buf \in [Buf -> Key]
    /\ dek \in [Sess -> Buf \cup {Nil}]
    /\ pending \in SUBSET Sess
    /\ req \in [Req -> Local]

Init ==
    /\ vault = NoVault
    /\ rec = [i \in Rec |-> Absent]
    /\ ndek = 0
    /\ buf = [b \in Buf |-> Zero]
    /\ dek = [s \in Sess |-> Nil]
    /\ pending = {}
    /\ req = [r \in Req |-> Idle]

---------------------------------------------------------------------------
(* Vault row                                                               *)

Initialized == vault.epoch > 0

WrapRowOldAAD(p, e, k) == [epoch |-> e, wrapped |-> [kek |-> p, aad |-> e - 1, dek |-> k]]
WrapRow(p, e, k) == [epoch |-> e, wrapped |-> [kek |-> p, aad |-> e, dek |-> k]]

\* vault.Unlock: the row read by GetVault opens under p (the AAD is rebuilt
\* from the row's own epoch).
Opens(p) == Initialized /\ vault.wrapped.kek = p /\ vault.wrapped.aad = vault.epoch

---------------------------------------------------------------------------
(* Buffers and the session table                                           *)

Held == {dek[s] : s \in Sess} \cup {req[r].alias : r \in Req}
            \cup {req[r].own : r \in Req}
Unused == Buf \ Held
NewBuf == CHOOSE b \in Unused : TRUE

\* Sessions no handler points at, and not in the table.
FreeSess(r) == {s \in Sess : dek[s] = Nil /\ \A q \in Req \ {r} : req[q].sess # s}

\* evict: zero the buffer, drop the entry.
UnscrubbedBuf(s) == buf
ScrubbedBuf(s) == [b \in Buf |-> IF b = dek[s] THEN Zero ELSE buf[b]]
Evicted(s) == [dek EXCEPT ![s] = Nil]

---------------------------------------------------------------------------
(* Admission of a request                                                  *)

Quiet == \A r \in Req : req[r].pc = "idle"
Ready(r) == req[r].pc = "idle" /\ (Overlap \/ Quiet)

UnlockedPending(s) == dek[s] # Nil
Unlocked(s) == dek[s] # Nil /\ s \notin pending

Finish(r) == req' = [req EXCEPT ![r] = Idle]
Goto(r, loc) == req' = [req EXCEPT ![r] = loc]

---------------------------------------------------------------------------
(* Handlers that seal one column and store it: create/update of a project, *)
(* environment, folder, secret or attachment, and totpConfirm.             *)

BeginWrite(r, s, i) ==
    /\ Ready(r) /\ Unlocked(s)
    /\ Goto(r, [Idle EXCEPT !.pc = "seal", !.sess = s, !.alias = dek[s], !.col = i])
    /\ UNCHANGED <<vault, rec, ndek, buf, dek, pending>>

Seal(r) ==
    /\ req[r].pc = "seal"
    /\ Goto(r, [req[r] EXCEPT !.pc = "store", !.key = buf[req[r].alias]])
    /\ UNCHANGED <<vault, rec, ndek, buf, dek, pending>>

Store(r) ==
    /\ req[r].pc = "store"
    /\ rec' = [rec EXCEPT ![req[r].col] = req[r].key]
    /\ Finish(r)
    /\ UNCHANGED <<vault, ndek, buf, dek, pending>>

\* Deletes and totpDisable use the session only for admission.
DeleteRecord(r, s, i) ==
    /\ Ready(r) /\ Unlocked(s) /\ rec[i] # Absent
    /\ rec' = [rec EXCEPT ![i] = Absent]
    /\ UNCHANGED <<vault, ndek, buf, dek, pending, req>>

---------------------------------------------------------------------------
(* First-run setup                                                         *)

BeginSetup(r, p) ==
    /\ Ready(r) /\ ~Initialized
    /\ Goto(r, [Idle EXCEPT !.pc = "setup_data", !.pass = p])
    /\ UNCHANGED <<vault, rec, ndek, buf, dek, pending>>

\* HasData, then the DEK is drawn; orphan data refuses the setup.
SetupData(r) ==
    /\ req[r].pc = "setup_data"
    /\ \/ /\ \A i \in Rec : rec[i] = Absent
          /\ Unused # {} /\ ndek < MaxDEK
          /\ ndek' = ndek + 1
          /\ buf' = [buf EXCEPT ![NewBuf] = ndek']
          /\ Goto(r, [req[r] EXCEPT !.pc = "setup_init", !.own = NewBuf])
       \/ /\ \E i \in Rec : rec[i] # Absent
          /\ Finish(r)
          /\ UNCHANGED <<ndek, buf>>
    /\ UNCHANGED <<vault, rec, dek, pending>>

\* InitVault inserts the row with id 1: the primary key refuses a second one.
SetupReplace(r) ==
    /\ req[r].pc = "setup_init" /\ MaxEpoch >= 1
    /\ vault' = WrapRow(req[r].pass, 1, buf[req[r].own])
    /\ Goto(r, [req[r] EXCEPT !.pc = "setup_new"])
    /\ UNCHANGED <<buf, rec, ndek, dek, pending>>
SetupInit(r) ==
    /\ req[r].pc = "setup_init"
    /\ \/ /\ ~Initialized /\ MaxEpoch >= 1
          /\ vault' = WrapRow(req[r].pass, 1, buf[req[r].own])
          /\ Goto(r, [req[r] EXCEPT !.pc = "setup_new"])
          /\ UNCHANGED buf
       \/ /\ Initialized
          /\ buf' = [buf EXCEPT ![req[r].own] = Zero]
          /\ Finish(r)
          /\ UNCHANGED vault
    /\ UNCHANGED <<rec, ndek, dek, pending>>

---------------------------------------------------------------------------
(* Login                                                                   *)

\* postUnlock, from GetVault to the opened wrap.  s is the session of the
\* cookie: Nil for a pre-auth session, which holds no DEK.
BeginUnlock(r, s, p) ==
    /\ Ready(r) /\ Opens(p)
    /\ s # Nil => dek[s] # Nil
    /\ Unused # {}
    /\ buf' = [buf EXCEPT ![NewBuf] = vault.wrapped.dek]
    /\ Goto(r, [Idle EXCEPT !.pc = "unlock_totp", !.sess = s, !.own = NewBuf])
    /\ UNCHANGED <<vault, rec, ndek, dek, pending>>

\* TOTPEnabled reads the row again.  Its error is discarded: a read that fails
\* counts as a vault without a second factor.
UnlockTotpUnchecked(r) ==
    /\ req[r].pc = "unlock_totp"
    /\ Goto(r, [req[r] EXCEPT !.pc = "unlock_new"])
    /\ UNCHANGED <<vault, rec, ndek, buf, dek, pending>>
UnlockTotp(r) ==
    /\ req[r].pc = "unlock_totp"
    /\ \/ Goto(r, [req[r] EXCEPT !.pc = "unlock_new", !.pend = (rec[Totp] # Absent)])
       \/ Goto(r, [req[r] EXCEPT !.pc = "unlock_new", !.err = TRUE])
    /\ UNCHANGED <<vault, rec, ndek, buf, dek, pending>>

\* Delete(sess.ID), then New(dek, pending).
InstallReused(r, n) ==
    /\ n \in FreeSess(r)
    /\ dek' = [dek EXCEPT ![n] = IF req[r].sess # Nil THEN dek[req[r].sess] ELSE req[r].own]
    /\ Finish(r)
    /\ UNCHANGED <<vault, rec, ndek, buf, pending>>
InstallSession(r, n) ==
    /\ LET s == req[r].sess
           old == IF s = Nil THEN {} ELSE {s}
       IN  /\ n \in FreeSess(r) \cup {t \in old : \A q \in Req \ {r} : req[q].sess # t}
           /\ buf' = [b \in Buf |-> IF \E t \in old : b = dek[t] THEN Zero ELSE buf[b]]
           /\ dek' = [t \in Sess |-> IF t = n THEN req[r].own
                                     ELSE IF t \in old THEN Nil ELSE dek[t]]
           /\ pending' = (pending \ (old \cup {n})) \cup (IF req[r].pend THEN {n} ELSE {})
    /\ Finish(r)
    /\ UNCHANGED <<vault, rec, ndek>>

NewSession(r) ==
    /\ req[r].pc \in {"setup_new", "unlock_new"}
    /\ \E n \in Sess : InstallSession(r, n)

\* postUnlockTOTP: the pending session's slice is used to open totp_enc.
BeginTotp(r, s) ==
    /\ Ready(r) /\ dek[s] # Nil /\ s \in pending
    /\ Goto(r, [Idle EXCEPT !.pc = "totp_verify", !.sess = s, !.alias = dek[s]])
    /\ UNCHANGED <<vault, rec, ndek, buf, dek, pending>>

\* VerifyLoginTOTP: the column must open and the code be right.
TotpVerify(r) ==
    /\ req[r].pc = "totp_verify"
    /\ \/ /\ rec[Totp] = buf[req[r].alias]
          /\ Goto(r, [req[r] EXCEPT !.pc = "totp_promote"])
       \/ Finish(r)
    /\ UNCHANGED <<vault, rec, ndek, buf, dek, pending>>

\* Promote finds the entry unless it was evicted meanwhile.
TotpPromote(r) ==
    /\ req[r].pc = "totp_promote"
    /\ pending' = IF dek[req[r].sess] # Nil THEN pending \ {req[r].sess} ELSE pending
    /\ Finish(r)
    /\ UNCHANGED <<vault, rec, ndek, buf, dek>>

---------------------------------------------------------------------------
(* Rotation of the DEK                                                     *)

\* GetVault: the epoch the new row will be numbered from.
BeginRekey(r, s, p) ==
    /\ Ready(r) /\ Unlocked(s) /\ Initialized
    /\ Goto(r, [Idle EXCEPT !.pc = "rekey_unlock", !.sess = s, !.alias = dek[s],
                            !.pass = p, !.epoch = vault.epoch])
    /\ UNCHANGED <<vault, rec, ndek, buf, dek, pending>>

\* Unlock reads the row a second time and yields the old DEK; the new one is drawn.
RekeyUnlock(r) ==
    /\ req[r].pc = "rekey_unlock"
    /\ \/ /\ Opens(req[r].pass)
          /\ Unused # {} /\ ndek < MaxDEK
          /\ ndek' = ndek + 1
          /\ buf' = [buf EXCEPT ![NewBuf] = ndek']
          /\ Goto(r, [req[r] EXCEPT !.pc = "rekey_tx", !.own = NewBuf,
                                    !.key = vault.wrapped.dek])
       \/ /\ ~Opens(req[r].pass)
          /\ Finish(r)
          /\ UNCHANGED <<ndek, buf>>
    /\ UNCHANGED <<vault, rec, dek, pending>>

\* encryptedColumns and totp_enc, each sealed under k.
ResealedNoTotp(k) == [i \in Rec |-> IF rec[i] = Absent \/ i = Totp THEN rec[i] ELSE k]
Resealed(k) == [i \in Rec |-> IF rec[i] = Absent THEN Absent ELSE k]

\* One transaction: every column opens under the old DEK and is sealed under the
\* new one and the row is replaced, or nothing happens and the new DEK is zeroed.
RekeyTx(r) ==
    /\ req[r].pc = "rekey_tx"
    /\ \/ /\ \A i \in Rec : rec[i] \in {Absent, req[r].key}
          /\ req[r].epoch < MaxEpoch
          /\ rec' = Resealed(buf[req[r].own])
          /\ vault' = WrapRow(req[r].pass, req[r].epoch + 1, buf[req[r].own])
          /\ Goto(r, [req[r] EXCEPT !.pc = "rekey_set", !.key = 0])
          /\ UNCHANGED buf
       \/ /\ \E i \in Rec : rec[i] \notin {Absent, req[r].key}
          /\ buf' = [buf EXCEPT ![req[r].own] = Zero]
          /\ Finish(r)
          /\ UNCHANGED <<vault, rec>>
    /\ UNCHANGED <<ndek, dek, pending>>

\* SetDEK: the old buffer is zeroed and the new one takes its place, if the
\* session is still in the table; otherwise nothing happens to either.
RekeySetForgotten(r) ==
    /\ req[r].pc = "rekey_set"
    /\ Finish(r)
    /\ UNCHANGED <<vault, rec, ndek, buf, dek, pending>>
RekeySetZeroed(r) ==
    /\ req[r].pc = "rekey_set" /\ dek[req[r].sess] # Nil
    /\ buf' = [ScrubbedBuf(req[r].sess) EXCEPT ![req[r].own] = Zero]
    /\ dek' = [dek EXCEPT ![req[r].sess] = req[r].own]
    /\ Finish(r)
    /\ UNCHANGED <<vault, rec, ndek, pending>>
RekeySet(r) ==
    /\ req[r].pc = "rekey_set"
    /\ LET s == req[r].sess IN
         \/ /\ dek[s] # Nil
            /\ buf' = ScrubbedBuf(s)
            /\ dek' = [dek EXCEPT ![s] = req[r].own]
         \/ /\ dek[s] = Nil
            /\ UNCHANGED <<buf, dek>>
    /\ Finish(r)
    /\ UNCHANGED <<vault, rec, ndek, pending>>

---------------------------------------------------------------------------
(* Change of the passphrase                                                *)

\* vault.Unlock(current): the DEK the current passphrase yields.
BeginChangePassphrase(r, s, p, np) ==
    /\ Ready(r) /\ Unlocked(s) /\ Opens(p)
    /\ Goto(r, [Idle EXCEPT !.pc = "chpass_read", !.sess = s, !.alias = dek[s],
                            !.pass = np, !.key = vault.wrapped.dek])
    /\ UNCHANGED <<vault, rec, ndek, buf, dek, pending>>

ChangeReadTwice(r) ==
    /\ req[r].pc = "chpass_read"
    /\ Goto(r, [req[r] EXCEPT !.pc = "chpass_write", !.epoch = vault.epoch + 1])
    /\ UNCHANGED <<vault, rec, ndek, buf, dek, pending>>
ChangeRead(r) ==
    /\ req[r].pc = "chpass_read"
    /\ Goto(r, [req[r] EXCEPT !.pc = "chpass_write", !.epoch = vault.epoch])
    /\ UNCHANGED <<vault, rec, ndek, buf, dek, pending>>

ChangeWrite(r) ==
    /\ req[r].pc = "chpass_write" /\ req[r].epoch < MaxEpoch
    /\ vault' = WrapRow(req[r].pass, req[r].epoch + 1, req[r].key)
    /\ Finish(r)
    /\ UNCHANGED <<rec, ndek, buf, dek, pending>>

---------------------------------------------------------------------------
(* Lock, expiry, restart                                                   *)

\* postLock, Get on an expired entry, and the EvictExpired of the sweeper, which is
\* no request and waits for none: the entry goes, its buffer is zeroed, and
\* handlers that hold the slice keep it.
Evict(s) ==
    /\ dek[s] # Nil
    /\ buf' = ScrubbedBuf(s)
    /\ dek' = Evicted(s)
    /\ pending' = pending \ {s}
    /\ UNCHANGED <<vault, rec, ndek, req>>

\* The process ends, anywhere in a handler, and starts again on the same file.
Restart ==
    /\ buf' = [b \in Buf |-> Zero]
    /\ dek' = [s \in Sess |-> Nil]
    /\ pending' = {}
    /\ req' = [r \in Req |-> Idle]
    /\ UNCHANGED <<vault, rec, ndek>>

---------------------------------------------------------------------------

Write(r) == Seal(r) \/ Store(r)
Setup(r) == SetupData(r) \/ SetupInit(r)
Rekey(r) == RekeyUnlock(r) \/ RekeyTx(r) \/ RekeySet(r)
ChangePassphrase(r) == ChangeRead(r) \/ ChangeWrite(r)
Login(r) == UnlockTotp(r) \/ NewSession(r) \/ TotpVerify(r) \/ TotpPromote(r)

Arrive(r) ==
    \/ \E s \in Sess, i \in Rec : BeginWrite(r, s, i) \/ DeleteRecord(r, s, i)
    \/ \E p \in Pass : BeginSetup(r, p)
    \/ \E s \in Sess \cup {Nil}, p \in Pass : BeginUnlock(r, s, p)
    \/ \E s \in Sess : BeginTotp(r, s)
    \/ \E s \in Sess, p \in Pass : BeginRekey(r, s, p)
    \/ \E s \in Sess, p, np \in Pass : BeginChangePassphrase(r, s, p, np)

Next ==
    \/ \E r \in Req : Arrive(r)
    \/ \E r \in Req : Write(r)
    \/ \E r \in Req : Setup(r)
    \/ \E r \in Req : Rekey(r)
    \/ \E r \in Req : ChangePassphrase(r)
    \/ \E r \in Req : Login(r)
    \/ \E s \in Sess : Evict(s)
    \/ Restart

Spec == Init /\ [][Next]_vars

---------------------------------------------------------------------------
(* Properties that hold for any interleaving                               *)

\* No two sessions share a DEK buffer, and a DEK on its way to a session is in
\* a buffer no session holds: Delete and SetDEK, which zero in place, destroy
\* the key of the one session they are called for.
NoSharedKeyBuffer ==
    /\ \A s, t \in Sess : s # t /\ dek[s] # Nil => dek[s] # dek[t]
    /\ \A r \in Req, s \in Sess : req[r].own # Nil => req[r].own # dek[s]
    /\ \A r, q \in Req : r # q /\ req[r].own # Nil => req[r].own # req[q].own

\* The slice needDEK gave a handler is either the buffer its session still uses,
\* or it has been zeroed: a lock, an expiry or a rotation leaves no handler with
\* a copy of the key.
AliasCurrentOrScrubbed ==
    \A r \in Req : req[r].alias # Nil =>
        \/ \E s \in Sess : req[r].sess = s /\ dek[s] = req[r].alias
        \/ buf[req[r].alias] = Zero

\* The stored wrap is bound to the epoch stored next to it, so the passphrase it
\* was made with opens it after any crash, and it never wraps the all-zero key.
WrapOpens ==
    Initialized => /\ vault.wrapped.aad = vault.epoch
                   /\ vault.wrapped.kek \in Pass
                   /\ vault.wrapped.dek # Zero

\* A session in the table holds a DEK that was drawn, never a zeroed buffer: no
\* step zeroes a buffer that a session goes on using.
SessionKeyIntact == \A s \in Sess : dek[s] # Nil => buf[dek[s]] # Zero

\* Of two concurrent first-run setups one makes the vault.  Until the first row is
\* replaced, a setup on its way to its session holds the very key the row wraps: the
\* other setup, between its HasData and its InitVault, cannot have put its own there.
FirstKeyHolds ==
    \A r \in Req : req[r].pc = "setup_new" /\ vault.epoch = 1 =>
        buf[req[r].own] = vault.wrapped.dek

InCustody(b) == (\E s \in Sess : dek[s] = b) \/ (\E r \in Req : req[r].own = b)

\* A buffer that no session and no handler answers for any more has been zeroed, by
\* whatever path its owner ended (a lost setup race, a refused rotation, a replaced
\* or expired session), with one exception, the new key of a rotation whose
\* session went before SetDEK.
LeftZeroed ==
    \A b \in Buf : InCustody(b) /\ ~InCustody(b)' =>
        \/ buf'[b] = Zero
        \/ \E r \in Req : /\ req[r].pc = "rekey_set" /\ req[r].own = b
                          /\ dek[req[r].sess] = Nil
KeysLeaveZeroed == [][LeftZeroed]_vars

\* Outside handlers and sessions no buffer holds a key: what the exception of
\* KeysLeaveZeroed breaks.
KeysOnlyInCustody == \A b \in Buf : buf[b] # Zero => InCustody(b)

---------------------------------------------------------------------------
(* Properties of a single browser whose requests do not overlap            *)

\* No stored ciphertext is under a DEK that a rotation has retired, after any
\* sequence of writes, rotations, passphrase changes, locks, crashes, and
\* expiries in the middle of them.
NoRecordUnderRetiredKey ==
    Initialized => \A i \in Rec : rec[i] \in {Absent, Zero, vault.wrapped.dek}

\* Between two requests a session holds the current DEK.
SessionsCurrent ==
    Quiet => \A s \in Sess : dek[s] # Nil => buf[dek[s]] = vault.wrapped.dek

\* A rotation keeps the passphrase, a passphrase change keeps the DEK, and each
\* numbers the new row with the next epoch.
OneChangeAtATime ==
    [][Initialized /\ vault' # vault =>
         /\ vault'.epoch = vault.epoch + 1
         /\ vault'.wrapped.kek = vault.wrapped.kek \/ vault'.wrapped.dek = vault.wrapped.dek]_vars

\* When the wrapped DEK is replaced, every stored ciphertext opens under the new
\* one: the row is never re-wrapped around a stale key.
KeyChangeReseals ==
    [][Initialized /\ vault'.wrapped.dek # vault.wrapped.dek =>
         \A i \in Rec : rec'[i] \in {Absent, vault'.wrapped.dek}]_vars

\* No stored ciphertext is under the all-zero key of a scrubbed buffer.
NoRecordUnderZeroKey == \A i \in Rec : rec[i] # Zero

\* While the second factor is on, a session is opened only by giving a code.
CodeAsked ==
    [][\A s \in Sess : rec[Totp] # Absent /\ ~Unlocked(s) /\ Unlocked(s)' =>
          \E r \in Req : req[r].pc = "totp_promote"]_vars

---------------------------------------------------------------------------
(* The vault as a user of one browser sees it                              *)

AdmittedPC == {"seal", "store", "rekey_unlock", "rekey_tx", "rekey_set",
               "chpass_read", "chpass_write"}

User == INSTANCE UserVault WITH
            pass <- vault.wrapped.kek,
            stored <- {i \in Rec : Initialized /\ rec[i] = vault.wrapped.dek},
            lost <- {i \in Rec : Initialized /\ rec[i] = Zero},
            open <- {s \in Sess : dek[s] # Nil /\ s \notin pending},
            half <- {s \in Sess : dek[s] # Nil /\ s \in pending},
            busy <- \E r \in Req : req[r].pc \in AdmittedPC,
            unread <- \E r \in Req : req[r].err

\* The handlers, statement by statement, with a crash or an expiry between any two,
\* implement the vault of UserVault: what a live session stored can be read until it
\* is deleted, only a request that an open session admitted writes, a login that could
\* read the flag asks for the code while TOTP is on, and a rotation or an
\* interrupted one is not seen from outside.
ServesUser == User!Spec

=============================================================================
