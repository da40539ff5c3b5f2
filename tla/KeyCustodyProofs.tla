------------------------- MODULE KeyCustodyProofs -------------------------
(***************************************************************************)
(* Proofs about KeyCustody, for every set of requests, sessions, buffers,  *)
(* columns and passphrases and every bound.                                *)
(***************************************************************************)
EXTENDS KeyCustody, TLAPS

\* Program points at which a handler holds a DEK buffer of its own.
OwnPC == {"setup_init", "setup_new", "unlock_totp", "unlock_new",
          "rekey_tx", "rekey_set"}

\* What a handler has in its local variables at each program point.
LocOK(l) ==
    /\ l \in Local
    /\ l.pc \in {"seal", "totp_verify"} => l.alias # Nil
    /\ (l.own # Nil) <=> (l.pc \in OwnPC)
    /\ l.pc \in {"rekey_unlock", "rekey_tx", "rekey_set", "totp_verify", "totp_promote"}
          => l.sess # Nil
    /\ l.pc \in {"setup_data", "setup_init", "rekey_unlock", "rekey_tx",
                 "chpass_read", "chpass_write"} => l.pass # Nil

LocalsOK == \A r \in Req : LocOK(req[r])

TypeInv == TypeOK /\ LocalsOK

\* The all-zero key of a scrubbed buffer is a key.
LEMMA ZeroKey == Zero \in Key
BY ConstAssumption DEF Zero, Key

\* The buffer CHOOSE picks is one that neither a session nor a handler refers to.
LEMMA NewBufUnused ==
    ASSUME Unused # {}
    PROVE  NewBuf \in Buf /\ NewBuf \notin Held
BY DEF NewBuf, Unused

\* The locals of an idle request.
LEMMA IdleFields ==
    /\ Idle \in Local
    /\ Idle.pc = "idle" /\ Idle.sess = Nil /\ Idle.alias = Nil /\ Idle.own = Nil
    /\ Idle.pass = Nil /\ Idle.key = 0 /\ Idle.pend = FALSE /\ Idle.err = FALSE
BY ConstAssumption DEF Idle, Local, PC, Key

\* The locals of an idle request are well formed.
LEMMA IdleOK == LocOK(Idle)
BY IdleFields DEF LocOK, OwnPC

\* Replacing one request's locals by well-formed ones keeps all of them so.
LEMMA LocalStep ==
    ASSUME TypeInv, NEW r \in Req, NEW loc, LocOK(loc), Goto(r, loc)
    PROVE  req' \in [Req -> Local] /\ LocalsOK'
<1>1. req' = [req EXCEPT ![r] = loc]
    BY DEF Goto
<1>2. \A q \in Req : req'[q] = IF q = r THEN loc ELSE req[q]
    BY <1>1 DEF TypeInv, TypeOK
<1>3. loc \in Local
    BY DEF LocOK
<1>4. \A q \in Req : LocOK(req'[q])
    BY <1>2 DEF TypeInv, LocalsOK
<1> QED BY <1>1, <1>3, <1>4 DEF TypeInv, TypeOK, LocalsOK

\* A handler that ends leaves all locals well formed.
LEMMA FinishStep ==
    ASSUME TypeInv, NEW r \in Req, Finish(r)
    PROVE  req' \in [Req -> Local] /\ LocalsOK'
<1>1. Goto(r, Idle)
    BY DEF Finish, Goto
<1> QED BY <1>1, IdleOK, LocalStep

\* An empty database with no request in flight is well typed.
LEMMA TypeInvInit == Init => TypeInv
<1> SUFFICES ASSUME Init PROVE TypeInv
    OBVIOUS
<1> USE ConstAssumption
<1>1. Idle \in Local
    BY IdleOK DEF LocOK
<1>2. TypeOK
    BY <1>1 DEF Init, TypeOK, NoVault, Wrap, Key, Absent, Zero
<1>3. LocalsOK
    BY IdleOK DEF Init, LocalsOK
<1> QED BY <1>2, <1>3 DEF TypeInv

\* Arrival of a request.
LEMMA TypeInvArrive ==
    ASSUME TypeInv, NEW r \in Req, Arrive(r)
    PROVE  TypeInv'
<1> USE ConstAssumption
<1> DEFINE Touch(loc) == LocOK(loc) /\ Goto(r, loc) /\ UNCHANGED <<vault, rec, ndek, dek, pending>>
<1>0. ASSUME NEW loc, Touch(loc), buf' \in [Buf -> Key]
      PROVE  TypeInv'
    BY <1>0, LocalStep DEF TypeInv, TypeOK
<1>1. ASSUME NEW s \in Sess, NEW i \in Rec, BeginWrite(r, s, i)
      PROVE  TypeInv'
  <2> DEFINE loc == [Idle EXCEPT !.pc = "seal", !.sess = s, !.alias = dek[s], !.col = i]
  <2>1. LocOK(loc)
    BY <1>1, IdleFields DEF BeginWrite, Unlocked, LocOK, Local, PC, OwnPC, Key, TypeInv, TypeOK
  <2> QED BY <2>1, <1>1, <1>0 DEF BeginWrite, TypeInv, TypeOK
<1>2. ASSUME NEW s \in Sess, NEW i \in Rec, DeleteRecord(r, s, i)
      PROVE  TypeInv'
    BY <1>2 DEF DeleteRecord, TypeInv, TypeOK, LocalsOK
<1>3. ASSUME NEW p \in Pass, BeginSetup(r, p)
      PROVE  TypeInv'
  <2> DEFINE loc == [Idle EXCEPT !.pc = "setup_data", !.pass = p]
  <2>1. LocOK(loc)
    BY <1>3, IdleFields DEF BeginSetup, LocOK, Local, PC, OwnPC, Key, TypeInv, TypeOK
  <2> QED BY <2>1, <1>3, <1>0 DEF BeginSetup, TypeInv, TypeOK
<1>4. ASSUME NEW s \in Sess \cup {Nil}, NEW p \in Pass, BeginUnlock(r, s, p)
      PROVE  TypeInv'
  <2> DEFINE loc == [Idle EXCEPT !.pc = "unlock_totp", !.sess = s, !.own = NewBuf]
  <2>1. NewBuf \in Buf
    BY <1>4, NewBufUnused DEF BeginUnlock
  <2>2. LocOK(loc)
    BY <2>1, IdleFields DEF LocOK, Local, PC, OwnPC, Key
  <2>3. buf' \in [Buf -> Key]
    BY <1>4 DEF BeginUnlock, TypeInv, TypeOK, Wrap
  <2> QED BY <2>2, <2>3, <1>4, <1>0 DEF BeginUnlock
<1>5. ASSUME NEW s \in Sess, BeginTotp(r, s)
      PROVE  TypeInv'
  <2> DEFINE loc == [Idle EXCEPT !.pc = "totp_verify", !.sess = s, !.alias = dek[s]]
  <2>1. LocOK(loc)
    BY <1>5, IdleFields DEF BeginTotp, LocOK, Local, PC, OwnPC, Key, TypeInv, TypeOK
  <2> QED BY <2>1, <1>5, <1>0 DEF BeginTotp, TypeInv, TypeOK
<1>6. ASSUME NEW s \in Sess, NEW p \in Pass, BeginRekey(r, s, p)
      PROVE  TypeInv'
  <2> DEFINE loc == [Idle EXCEPT !.pc = "rekey_unlock", !.sess = s, !.alias = dek[s],
                                 !.pass = p, !.epoch = vault.epoch]
  <2>1. LocOK(loc)
    BY <1>6, IdleFields DEF BeginRekey, Unlocked, LocOK, Local, PC, OwnPC, Key, TypeInv, TypeOK
  <2> QED BY <2>1, <1>6, <1>0 DEF BeginRekey, TypeInv, TypeOK
<1>7. ASSUME NEW s \in Sess, NEW p \in Pass, NEW np \in Pass,
             BeginChangePassphrase(r, s, p, np)
      PROVE  TypeInv'
  <2> DEFINE loc == [Idle EXCEPT !.pc = "chpass_read", !.sess = s, !.alias = dek[s],
                                 !.pass = np, !.key = vault.wrapped.dek]
  <2>1. LocOK(loc)
    BY <1>7, IdleFields DEF BeginChangePassphrase, LocOK, Local, PC, OwnPC, Key, TypeInv, TypeOK, Wrap
  <2> QED BY <2>1, <1>7, <1>0 DEF BeginChangePassphrase, TypeInv, TypeOK
<1> QED BY <1>1, <1>2, <1>3, <1>4, <1>5, <1>6, <1>7 DEF Arrive

\* Steps of handlers in flight, of the sweeper, and a restart.
LEMMA TypeInvStep ==
    ASSUME TypeInv, NEW r \in Req,
           Write(r) \/ Setup(r) \/ Rekey(r) \/ ChangePassphrase(r) \/ Login(r)
    PROVE  TypeInv'
<1> USE ConstAssumption
<1>0. req[r] \in Local /\ LocOK(req[r])
    BY DEF TypeInv, TypeOK, LocalsOK
<1>1. CASE Seal(r)
  <2>1. LocOK([req[r] EXCEPT !.pc = "store", !.key = buf[req[r].alias]])
    BY <1>0, <1>1 DEF Seal, LocOK, Local, PC, OwnPC, TypeInv, TypeOK
  <2> QED BY <1>1, <2>1, LocalStep DEF Seal, TypeInv, TypeOK
<1>2. CASE Store(r)
    BY <1>0, <1>2, FinishStep DEF Store, TypeInv, TypeOK, Local
<1>3. CASE SetupData(r)
  <2>1. CASE Unused # {} /\ ndek < MaxDEK /\ ndek' = ndek + 1
             /\ buf' = [buf EXCEPT ![NewBuf] = ndek']
             /\ Goto(r, [req[r] EXCEPT !.pc = "setup_init", !.own = NewBuf])
    <3>1. NewBuf \in Buf
      BY <2>1, NewBufUnused
    <3>2. LocOK([req[r] EXCEPT !.pc = "setup_init", !.own = NewBuf])
      BY <1>0, <1>3, <3>1 DEF SetupData, LocOK, Local, PC, OwnPC
    <3>3. ndek' \in Key
      BY <2>1 DEF TypeInv, TypeOK, Key
    <3> QED BY <1>3, <2>1, <3>1, <3>2, <3>3, LocalStep DEF SetupData, TypeInv, TypeOK
  <2>2. CASE Finish(r) /\ UNCHANGED <<ndek, buf>>
    BY <1>3, <2>2, FinishStep DEF SetupData, TypeInv, TypeOK
  <2> QED BY <1>3, <2>1, <2>2 DEF SetupData
<1>4. CASE SetupInit(r)
  <2>1. req[r].own \in Buf /\ req[r].pass \in Pass
    BY <1>0, <1>4 DEF SetupInit, LocOK, Local, OwnPC
  <2>2. CASE MaxEpoch >= 1 /\ vault' = WrapRow(req[r].pass, 1, buf[req[r].own])
             /\ Goto(r, [req[r] EXCEPT !.pc = "setup_new"]) /\ UNCHANGED buf
    <3>1. LocOK([req[r] EXCEPT !.pc = "setup_new"])
      BY <1>0, <1>4 DEF SetupInit, LocOK, Local, PC, OwnPC
    <3>2. vault' \in [epoch: 0 .. MaxEpoch, wrapped: Wrap]
      BY <2>1, <2>2 DEF WrapRow, Wrap, TypeInv, TypeOK
    <3> QED BY <1>4, <2>2, <3>1, <3>2, LocalStep DEF SetupInit, TypeInv, TypeOK
  <2>3. CASE buf' = [buf EXCEPT ![req[r].own] = Zero] /\ Finish(r) /\ UNCHANGED vault
    <3>1. buf' \in [Buf -> Key]
      BY <2>3, ZeroKey DEF TypeInv, TypeOK
    <3> QED BY <1>4, <2>3, <3>1, FinishStep DEF SetupInit, TypeInv, TypeOK
  <2> QED BY <1>4, <2>2, <2>3 DEF SetupInit
<1>5. CASE RekeyUnlock(r)
  <2>1. CASE Unused # {} /\ ndek < MaxDEK /\ ndek' = ndek + 1
             /\ buf' = [buf EXCEPT ![NewBuf] = ndek']
             /\ Goto(r, [req[r] EXCEPT !.pc = "rekey_tx", !.own = NewBuf,
                                       !.key = vault.wrapped.dek])
    <3>1. NewBuf \in Buf
      BY <2>1, NewBufUnused
    <3>2. LocOK([req[r] EXCEPT !.pc = "rekey_tx", !.own = NewBuf, !.key = vault.wrapped.dek])
      BY <1>0, <1>5, <3>1 DEF RekeyUnlock, LocOK, Local, PC, OwnPC, TypeInv, TypeOK, Wrap
    <3>3. ndek' \in Key
      BY <2>1 DEF TypeInv, TypeOK, Key
    <3> QED BY <1>5, <2>1, <3>1, <3>2, <3>3, LocalStep DEF RekeyUnlock, TypeInv, TypeOK
  <2>2. CASE Finish(r) /\ UNCHANGED <<ndek, buf>>
    BY <1>5, <2>2, FinishStep DEF RekeyUnlock, TypeInv, TypeOK
  <2> QED BY <1>5, <2>1, <2>2 DEF RekeyUnlock
<1>6. CASE RekeyTx(r)
  <2>1. req[r].own \in Buf /\ req[r].pass \in Pass /\ req[r].epoch \in 0 .. MaxEpoch
    BY <1>0, <1>6 DEF RekeyTx, LocOK, Local, OwnPC
  <2>2. CASE /\ req[r].epoch < MaxEpoch
             /\ rec' = Resealed(buf[req[r].own])
             /\ vault' = WrapRow(req[r].pass, req[r].epoch + 1, buf[req[r].own])
             /\ Goto(r, [req[r] EXCEPT !.pc = "rekey_set", !.key = 0])
             /\ UNCHANGED buf
    <3>1. LocOK([req[r] EXCEPT !.pc = "rekey_set", !.key = 0])
      BY <1>0, <1>6, ZeroKey DEF RekeyTx, LocOK, Local, PC, OwnPC, Zero
    <3>2. vault' \in [epoch: 0 .. MaxEpoch, wrapped: Wrap]
      BY <2>1, <2>2 DEF WrapRow, Wrap, TypeInv, TypeOK
    <3>3. rec' \in [Rec -> Key \cup {Absent}]
      BY <2>1, <2>2 DEF Resealed, TypeInv, TypeOK
    <3> QED BY <1>6, <2>2, <3>1, <3>2, <3>3, LocalStep DEF RekeyTx, TypeInv, TypeOK
  <2>3. CASE buf' = [buf EXCEPT ![req[r].own] = Zero] /\ Finish(r) /\ UNCHANGED <<vault, rec>>
    <3>1. buf' \in [Buf -> Key]
      BY <2>3, ZeroKey DEF TypeInv, TypeOK
    <3> QED BY <1>6, <2>3, <3>1, FinishStep DEF RekeyTx, TypeInv, TypeOK
  <2> QED BY <1>6, <2>2, <2>3 DEF RekeyTx
<1>7. CASE RekeySet(r)
  <2>1. req[r].sess \in Sess /\ req[r].own \in Buf
    BY <1>0, <1>7 DEF RekeySet, LocOK, Local, OwnPC
  <2>2. buf' \in [Buf -> Key] /\ dek' \in [Sess -> Buf \cup {Nil}]
    BY <1>7, <2>1 DEF RekeySet, ScrubbedBuf, TypeInv, TypeOK, Zero, Key
  <2> QED BY <1>7, <2>2, FinishStep DEF RekeySet, TypeInv, TypeOK
<1>8. CASE ChangeRead(r)
  <2>1. LocOK([req[r] EXCEPT !.pc = "chpass_write", !.epoch = vault.epoch])
    BY <1>0, <1>8 DEF ChangeRead, LocOK, Local, PC, OwnPC, TypeInv, TypeOK
  <2> QED BY <1>8, <2>1, LocalStep DEF ChangeRead, TypeInv, TypeOK
<1>9. CASE ChangeWrite(r)
  <2>1. vault' \in [epoch: 0 .. MaxEpoch, wrapped: Wrap]
    BY <1>0, <1>9 DEF ChangeWrite, WrapRow, Wrap, LocOK, Local
  <2> QED BY <1>9, <2>1, FinishStep DEF ChangeWrite, TypeInv, TypeOK
<1>10. CASE UnlockTotp(r)
  <2>1. LocOK([req[r] EXCEPT !.pc = "unlock_new", !.pend = (rec[Totp] # Absent)])
    BY <1>0, <1>10 DEF UnlockTotp, LocOK, Local, PC, OwnPC
  <2>2. LocOK([req[r] EXCEPT !.pc = "unlock_new", !.err = TRUE])
    BY <1>0, <1>10 DEF UnlockTotp, LocOK, Local, PC, OwnPC
  <2> QED BY <1>10, <2>1, <2>2, LocalStep DEF UnlockTotp, TypeInv, TypeOK
<1>11. CASE NewSession(r)
  <2>1. PICK n \in Sess : InstallSession(r, n)
    BY <1>11 DEF NewSession
  <2>2. req[r].own \in Buf
    BY <1>0, <1>11 DEF NewSession, LocOK, Local, OwnPC
  <2>3. buf' \in [Buf -> Key]
    BY <2>1 DEF InstallSession, TypeInv, TypeOK, Zero, Key
  <2>4. dek' \in [Sess -> Buf \cup {Nil}]
    BY <2>1, <2>2 DEF InstallSession, TypeInv, TypeOK
  <2>5. pending' \in SUBSET Sess
    BY <2>1 DEF InstallSession, TypeInv, TypeOK
  <2> QED BY <2>1, <2>3, <2>4, <2>5, FinishStep DEF InstallSession, TypeInv, TypeOK
<1>12. CASE TotpVerify(r)
  <2>1. LocOK([req[r] EXCEPT !.pc = "totp_promote"])
    BY <1>0, <1>12 DEF TotpVerify, LocOK, Local, PC, OwnPC
  <2> QED BY <1>12, <2>1, LocalStep, FinishStep DEF TotpVerify, TypeInv, TypeOK
<1>13. CASE TotpPromote(r)
    BY <1>13, FinishStep DEF TotpPromote, TypeInv, TypeOK
<1> QED BY <1>1, <1>2, <1>3, <1>4, <1>5, <1>6, <1>7, <1>8, <1>9, <1>10, <1>11, <1>12, <1>13
        DEF Write, Setup, Rekey, ChangePassphrase, Login

\* Every step of a handler, the sweeper or a restart keeps the types.
LEMMA TypeInvNext == TypeInv /\ [Next]_vars => TypeInv'
<1> SUFFICES ASSUME TypeInv, [Next]_vars PROVE TypeInv'
    OBVIOUS
<1>1. ASSUME NEW s \in Sess, Evict(s) PROVE TypeInv'
    BY <1>1, ConstAssumption
    DEF Evict, ScrubbedBuf, Evicted, TypeInv, TypeOK, LocalsOK, Zero, Key
<1>2. CASE Restart
  <2>1. req' \in [Req -> Local] /\ LocalsOK'
    BY <1>2, IdleFields, IdleOK DEF Restart, LocalsOK
  <2> QED BY <1>2, <2>1, ConstAssumption DEF Restart, TypeInv, TypeOK, Zero, Key
<1>3. CASE UNCHANGED vars
    BY <1>3 DEF vars, TypeInv, TypeOK, LocalsOK
<1> QED BY <1>1, <1>2, <1>3, TypeInvArrive, TypeInvStep DEF Next

\* Type correctness: every behaviour keeps the row, the columns, the buffers, the
\* session table and the locals of the handlers of KeyCustody within their types.
THEOREM TypeCorrect == Spec => []TypeOK
<1>1. TypeInv => TypeOK
    BY DEF TypeInv
<1> QED BY TypeInvInit, TypeInvNext, <1>1, PTL DEF Spec

---------------------------------------------------------------------------
(* Who owns which buffer                                                   *)

\* A DEK on its way to a session is in a buffer that no handler was handed, and
\* it is a DEK that was drawn.
OwnPrivate ==
    \A r \in Req : req[r].own # Nil =>
        /\ buf[req[r].own] # Zero
        /\ \A q \in Req : req[q].alias # req[r].own

\* The DEK a passphrase change is about to wrap was drawn.
ChangeKeyed ==
    \A r \in Req : req[r].pc \in {"chpass_read", "chpass_write"} => req[r].key # Zero

Custody ==
    /\ NoSharedKeyBuffer
    /\ AliasCurrentOrScrubbed
    /\ OwnPrivate
    /\ SessionKeyIntact
    /\ ChangeKeyed
    /\ WrapOpens

\* Reading the locals after a step of r.
LEMMA ReqAfter ==
    ASSUME TypeInv, NEW r \in Req, NEW loc, Goto(r, loc)
    PROVE  /\ req'[r] = loc
           /\ \A q \in Req : q # r => req'[q] = req[q]
BY DEF Goto, TypeInv, TypeOK

\* A step that changes only one request's locals, and gives it no buffer but the
\* slice of a session in the table.
LEMMA CustodyLocal ==
    ASSUME TypeInv, Custody, NEW r \in Req, NEW loc, Goto(r, loc),
           UNCHANGED <<buf, dek>>, WrapOpens',
           loc.own \in {Nil, req[r].own},
           \/ loc.alias = Nil
           \/ loc.alias = req[r].alias /\ loc.sess = req[r].sess
           \/ loc.sess \in Sess /\ loc.alias = dek[loc.sess],
           loc.pc \in {"chpass_read", "chpass_write"} => loc.key # Zero
    PROVE  Custody'
<1>1. /\ req'[r] = loc
      /\ \A q \in Req : q # r => req'[q] = req[q]
    BY ReqAfter
<1>2. NoSharedKeyBuffer'
    BY <1>1 DEF Custody, NoSharedKeyBuffer
<1>3. AliasCurrentOrScrubbed'
    BY <1>1 DEF Custody, AliasCurrentOrScrubbed
<1>4. OwnPrivate'
    BY <1>1, ConstAssumption DEF Custody, OwnPrivate, NoSharedKeyBuffer
<1>5. SessionKeyIntact' /\ ChangeKeyed'
    BY <1>1 DEF Custody, SessionKeyIntact, ChangeKeyed
<1> QED BY <1>2, <1>3, <1>4, <1>5 DEF Custody

\* A step that draws or unwraps a DEK into a buffer nobody refers to.
LEMMA CustodyAlloc ==
    ASSUME TypeInv, Custody, NEW r \in Req, NEW loc, Goto(r, loc),
           UNCHANGED <<vault, dek>>, Unused # {},
           NEW k, k # Zero, buf' = [buf EXCEPT ![NewBuf] = k],
           loc.own = NewBuf, loc.alias = Nil \/ (loc.alias = req[r].alias /\ loc.sess = req[r].sess),
           loc.pc \notin {"chpass_read", "chpass_write"}
    PROVE  Custody'
<1>1. /\ req'[r] = loc
      /\ \A q \in Req : q # r => req'[q] = req[q]
    BY ReqAfter
<1>2. /\ NewBuf \in Buf
      /\ \A s \in Sess : dek[s] # NewBuf
      /\ \A q \in Req : req[q].alias # NewBuf /\ req[q].own # NewBuf
    BY NewBufUnused DEF Held
<1>3. /\ buf'[NewBuf] = k
      /\ \A b : b # NewBuf => buf'[b] = buf[b]
    BY <1>2 DEF TypeInv, TypeOK
<1>4. NoSharedKeyBuffer'
    BY <1>1, <1>2 DEF Custody, NoSharedKeyBuffer
<1>5. AliasCurrentOrScrubbed'
    BY <1>1, <1>2, <1>3 DEF Custody, AliasCurrentOrScrubbed
<1>6. OwnPrivate'
    BY <1>1, <1>2, <1>3, ConstAssumption DEF Custody, OwnPrivate
<1>7. SessionKeyIntact'
    BY <1>2, <1>3 DEF Custody, SessionKeyIntact
<1>8. ChangeKeyed' /\ WrapOpens'
    BY <1>1 DEF Custody, ChangeKeyed, WrapOpens, Initialized
<1> QED BY <1>4, <1>5, <1>6, <1>7, <1>8 DEF Custody

\* A handler that fails zeroes the DEK it holds and ends.
LEMMA CustodyDrop ==
    ASSUME TypeInv, Custody, NEW r \in Req, Finish(r), UNCHANGED <<vault, dek>>,
           req[r].own # Nil, buf' = [buf EXCEPT ![req[r].own] = Zero]
    PROVE  Custody'
<1>1. /\ req'[r] = Idle
      /\ \A q \in Req : q # r => req'[q] = req[q]
    BY ReqAfter DEF Finish, Goto
<1>2. \A b : b # req[r].own => buf'[b] = buf[b]
    BY DEF TypeInv, TypeOK
<1>3. NoSharedKeyBuffer'
    BY <1>1, IdleFields DEF Custody, NoSharedKeyBuffer
<1>4. AliasCurrentOrScrubbed'
    BY <1>1, <1>2, IdleFields DEF Custody, AliasCurrentOrScrubbed, OwnPrivate
<1>5. OwnPrivate'
    BY <1>1, <1>2, IdleFields, ConstAssumption DEF Custody, OwnPrivate, NoSharedKeyBuffer
<1>6. SessionKeyIntact'
    BY <1>2 DEF Custody, SessionKeyIntact, NoSharedKeyBuffer
<1>7. ChangeKeyed' /\ WrapOpens'
    BY <1>1, IdleFields DEF Custody, ChangeKeyed, WrapOpens, Initialized
<1> QED BY <1>3, <1>4, <1>5, <1>6, <1>7 DEF Custody

\* A lock or an expiry zeroes the buffer of one session and of no other.
LEMMA CustodyEvict ==
    ASSUME TypeInv, Custody, NEW s \in Sess, Evict(s)
    PROVE  Custody'
<1>1. dek'[s] = Nil /\ \A t \in Sess : t # s => dek'[t] = dek[t]
    BY DEF Evict, Evicted, TypeInv, TypeOK
<1>2. /\ \A b \in Buf : b # dek[s] => buf'[b] = buf[b]
      /\ dek[s] \in Buf /\ buf'[dek[s]] = Zero
    BY DEF Evict, ScrubbedBuf, TypeInv, TypeOK
<1>3. NoSharedKeyBuffer'
    BY <1>1 DEF Evict, Custody, NoSharedKeyBuffer
<1>4. AliasCurrentOrScrubbed'
  <2>1. \A r \in Req : req[r].alias \in Buf \cup {Nil}
    BY DEF TypeInv, TypeOK, Local
  <2> QED BY <1>1, <1>2, <2>1 DEF Evict, Custody, AliasCurrentOrScrubbed
<1>5. OwnPrivate'
  <2>1. \A r \in Req : req[r].own \in Buf \cup {Nil}
    BY DEF TypeInv, TypeOK, Local
  <2> QED BY <1>2, <2>1 DEF Evict, Custody, OwnPrivate, NoSharedKeyBuffer
<1>6. SessionKeyIntact'
    BY <1>1, <1>2 DEF Custody, SessionKeyIntact, NoSharedKeyBuffer, TypeInv, TypeOK
<1>7. ChangeKeyed' /\ WrapOpens'
    BY DEF Evict, Custody, ChangeKeyed, WrapOpens, Initialized
<1> QED BY <1>3, <1>4, <1>5, <1>6, <1>7 DEF Custody

\* SetDEK zeroes the superseded buffer and installs the handler's own.
LEMMA CustodyRekeySet ==
    ASSUME TypeInv, Custody, NEW r \in Req, RekeySet(r)
    PROVE  Custody'
<1> DEFINE s == req[r].sess
           o == req[r].own
<1>1. /\ req'[r] = Idle
      /\ \A q \in Req : q # r => req'[q] = req[q]
    BY ReqAfter DEF RekeySet, Finish, Goto
<1>2. s \in Sess /\ o \in Buf /\ o # Nil
    BY DEF RekeySet, TypeInv, TypeOK, LocalsOK, LocOK, Local, OwnPC
<1>3. \A q \in Req : req[q].alias \in Buf \cup {Nil} /\ req[q].own \in Buf \cup {Nil}
    BY DEF TypeInv, TypeOK, Local
<1>4. ChangeKeyed' /\ WrapOpens'
    BY <1>1, IdleFields DEF RekeySet, Custody, ChangeKeyed, WrapOpens, Initialized
<1>5. CASE dek[s] = Nil
  <2>1. UNCHANGED <<buf, dek>>
    BY <1>2, <1>5 DEF RekeySet
  <2>2. Goto(r, Idle)
    BY DEF RekeySet, Finish, Goto
  <2> QED BY <1>4, <2>1, <2>2, IdleFields, CustodyLocal
<1>6. CASE dek[s] # Nil
  <2>1. /\ dek'[s] = o /\ \A t \in Sess : t # s => dek'[t] = dek[t]
        /\ dek[s] \in Buf /\ buf'[dek[s]] = Zero
        /\ \A b \in Buf : b # dek[s] => buf'[b] = buf[b]
    BY <1>2, <1>6 DEF RekeySet, ScrubbedBuf, TypeInv, TypeOK
  <2>2. NoSharedKeyBuffer'
    BY <1>1, <1>2, <2>1, IdleFields DEF Custody, NoSharedKeyBuffer
  <2>3. AliasCurrentOrScrubbed'
    BY <1>1, <1>2, <1>3, <2>1, IdleFields
    DEF Custody, AliasCurrentOrScrubbed, NoSharedKeyBuffer
  <2>4. OwnPrivate'
    <3> SUFFICES ASSUME NEW q \in Req, req'[q].own # Nil
                 PROVE  /\ buf'[req'[q].own] # Zero
                        /\ \A x \in Req : req'[x].alias # req'[q].own
      BY DEF OwnPrivate
    <3>1. q # r /\ req'[q] = req[q] /\ req[q].own \in Buf /\ req[q].own # dek[s]
      BY <1>1, <1>2, <1>3, IdleFields DEF Custody, NoSharedKeyBuffer
    <3>2. buf'[req[q].own] # Zero
      BY <2>1, <3>1 DEF Custody, OwnPrivate
    <3>3. \A x \in Req : req'[x].alias # req[q].own
      BY <1>1, <3>1, IdleFields DEF Custody, OwnPrivate
    <3> QED BY <3>1, <3>2, <3>3
  <2>5. SessionKeyIntact'
    BY <1>2, <2>1 DEF Custody, SessionKeyIntact, NoSharedKeyBuffer, OwnPrivate, TypeInv, TypeOK
  <2> QED BY <1>4, <2>2, <2>3, <2>4, <2>5 DEF Custody
<1> QED BY <1>5, <1>6

\* Delete of the cookie's session, then New with the handler's own buffer.
LEMMA CustodyNewSession ==
    ASSUME TypeInv, Custody, NEW r \in Req, NewSession(r)
    PROVE  Custody'
<1> DEFINE s == req[r].sess
           o == req[r].own
<1>1. /\ req'[r] = Idle
      /\ \A q \in Req : q # r => req'[q] = req[q]
    BY ReqAfter DEF NewSession, InstallSession, Finish, Goto
<1>2. s \in Sess \cup {Nil} /\ o \in Buf /\ o # Nil
    BY DEF NewSession, TypeInv, TypeOK, LocalsOK, LocOK, Local, OwnPC
<1>3. \A q \in Req : req[q].alias \in Buf \cup {Nil} /\ req[q].own \in Buf \cup {Nil}
    BY DEF TypeInv, TypeOK, Local
<1>4. PICK n \in Sess : InstallSession(r, n)
    BY DEF NewSession
<1>5. /\ \A q \in Req : q # r => req[q].sess # n
      /\ n # s => dek[n] = Nil
    BY <1>4 DEF InstallSession, FreeSess
<1>6. /\ dek'[n] = o
      /\ \A t \in Sess : t # n /\ t # s => dek'[t] = dek[t]
      /\ \A t \in Sess : t # n /\ t = s => dek'[t] = Nil
    BY <1>4, ConstAssumption DEF InstallSession
<1>7. \A b \in Buf : \/ buf'[b] = buf[b] /\ (s \in Sess => b # dek[s])
                     \/ buf'[b] = Zero /\ s \in Sess /\ b = dek[s]
    BY <1>2, <1>4, ConstAssumption DEF InstallSession
<1>8. NoSharedKeyBuffer'
    BY <1>1, <1>2, <1>6, IdleFields DEF Custody, NoSharedKeyBuffer
<1>9. AliasCurrentOrScrubbed'
  <2> SUFFICES ASSUME NEW q \in Req, req'[q].alias # Nil
               PROVE  \/ \E t \in Sess : req'[q].sess = t /\ dek'[t] = req'[q].alias
                      \/ buf'[req'[q].alias] = Zero
    BY DEF AliasCurrentOrScrubbed
  <2>1. q # r /\ req'[q] = req[q] /\ req[q].alias \in Buf
    BY <1>1, <1>3, IdleFields
  <2>2. CASE buf[req[q].alias] = Zero
    BY <1>7, <2>1, <2>2
  <2>3. CASE \E t \in Sess : req[q].sess = t /\ dek[t] = req[q].alias
    BY <1>5, <1>6, <1>7, <2>1, <2>3
  <2> QED BY <2>1, <2>2, <2>3 DEF Custody, AliasCurrentOrScrubbed
<1>10. OwnPrivate'
    BY <1>1, <1>3, <1>7, IdleFields, ConstAssumption DEF Custody, OwnPrivate, NoSharedKeyBuffer
<1>11. SessionKeyIntact'
  <2>1. buf'[o] # Zero
    BY <1>2, <1>7 DEF Custody, NoSharedKeyBuffer, OwnPrivate
  <2>2. \A t \in Sess : t # n /\ t # s /\ dek[t] # Nil => buf'[dek[t]] # Zero
    BY <1>7 DEF Custody, NoSharedKeyBuffer, SessionKeyIntact, TypeInv, TypeOK
  <2> QED BY <1>6, <2>1, <2>2 DEF SessionKeyIntact
<1>12. ChangeKeyed' /\ WrapOpens'
    BY <1>1, <1>4, IdleFields DEF InstallSession, Custody, ChangeKeyed, WrapOpens, Initialized
<1> QED BY <1>8, <1>9, <1>10, <1>11, <1>12 DEF Custody

\* The three steps that write the vault row wrap a DEK that was drawn under the
\* epoch they store.
LEMMA WrapRowOpens ==
    ASSUME NEW p \in Pass, NEW e, NEW k, k # Zero, vault' = WrapRow(p, e, k)
    PROVE  WrapOpens'
BY DEF WrapRow, WrapOpens, Initialized

\* A step that leaves the vault row alone keeps it openable.
LEMMA WrapKept ==
    ASSUME Custody, UNCHANGED vault
    PROVE  WrapOpens'
BY DEF Custody, WrapOpens, Initialized

\* Arrivals hand out slices of sessions in the table and nothing else.
LEMMA CustodyArrive ==
    ASSUME TypeInv, Custody, NEW r \in Req, Arrive(r)
    PROVE  Custody'
<1>1. ASSUME NEW s \in Sess, NEW i \in Rec, BeginWrite(r, s, i)
      PROVE  Custody'
    BY <1>1, WrapKept, CustodyLocal, IdleFields DEF BeginWrite, Local
<1>2. ASSUME NEW s \in Sess, NEW i \in Rec, DeleteRecord(r, s, i)
      PROVE  Custody'
    BY <1>2, WrapKept DEF DeleteRecord, Custody, NoSharedKeyBuffer, AliasCurrentOrScrubbed,
       OwnPrivate, SessionKeyIntact, ChangeKeyed
<1>3. ASSUME NEW p \in Pass, BeginSetup(r, p)
      PROVE  Custody'
    BY <1>3, WrapKept, CustodyLocal, IdleFields DEF BeginSetup, Local
<1>4. ASSUME NEW s \in Sess \cup {Nil}, NEW p \in Pass, BeginUnlock(r, s, p)
      PROVE  Custody'
  <2>1. vault.wrapped.dek # Zero
    BY <1>4 DEF BeginUnlock, Opens, Custody, WrapOpens
  <2> DEFINE loc == [Idle EXCEPT !.pc = "unlock_totp", !.sess = s, !.own = NewBuf]
  <2>2. loc.own = NewBuf /\ loc.alias = Nil /\ loc.pc = "unlock_totp"
    BY IdleFields DEF Local
  <2> HIDE DEF loc
  <2>3. Goto(r, loc) /\ UNCHANGED <<vault, dek>> /\ Unused # {}
        /\ buf' = [buf EXCEPT ![NewBuf] = vault.wrapped.dek]
    BY <1>4 DEF BeginUnlock, loc
  <2> QED BY <2>1, <2>2, <2>3, CustodyAlloc
<1>5. ASSUME NEW s \in Sess, BeginTotp(r, s)
      PROVE  Custody'
    BY <1>5, WrapKept, CustodyLocal, IdleFields DEF BeginTotp, Local
<1>6. ASSUME NEW s \in Sess, NEW p \in Pass, BeginRekey(r, s, p)
      PROVE  Custody'
    BY <1>6, WrapKept, CustodyLocal, IdleFields DEF BeginRekey, Local
<1>7. ASSUME NEW s \in Sess, NEW p \in Pass, NEW np \in Pass,
             BeginChangePassphrase(r, s, p, np)
      PROVE  Custody'
  <2>1. vault.wrapped.dek # Zero
    BY <1>7 DEF BeginChangePassphrase, Opens, Custody, WrapOpens
  <2> QED BY <1>7, <2>1, WrapKept, CustodyLocal, IdleFields DEF BeginChangePassphrase, Local
<1> QED BY <1>1, <1>2, <1>3, <1>4, <1>5, <1>6, <1>7 DEF Arrive

\* Steps of handlers in flight.
LEMMA CustodyStep ==
    ASSUME TypeInv, Custody, NEW r \in Req,
           Write(r) \/ Setup(r) \/ Rekey(r) \/ ChangePassphrase(r) \/ Login(r)
    PROVE  Custody'
<1>0. req[r] \in Local /\ LocOK(req[r])
    BY DEF TypeInv, TypeOK, LocalsOK
<1>1. CASE Seal(r)
    BY <1>0, <1>1, WrapKept, CustodyLocal DEF Seal, Local
<1>f. ASSUME Finish(r), UNCHANGED <<buf, dek>>, WrapOpens' PROVE Custody'
  <2>1. Goto(r, Idle)
    BY <1>f DEF Finish, Goto
  <2> QED BY <1>f, <2>1, CustodyLocal, IdleFields
<1>2. CASE Store(r)
    BY <1>2, <1>f, WrapKept DEF Store
<1>3. CASE SetupData(r)
  <2>1. CASE Unused # {} /\ ndek' = ndek + 1 /\ buf' = [buf EXCEPT ![NewBuf] = ndek']
             /\ Goto(r, [req[r] EXCEPT !.pc = "setup_init", !.own = NewBuf])
    <3>1. ndek' # Zero
      BY <2>1, ConstAssumption DEF TypeInv, TypeOK, Key, Zero
    <3> DEFINE loc == [req[r] EXCEPT !.pc = "setup_init", !.own = NewBuf]
    <3>2. /\ loc.own = NewBuf /\ loc.alias = req[r].alias /\ loc.sess = req[r].sess
          /\ loc.pc = "setup_init"
      BY <1>0 DEF Local
    <3> HIDE DEF loc
    <3>3. Goto(r, loc) /\ UNCHANGED <<vault, dek>>
      BY <1>3, <2>1 DEF SetupData, loc
    <3> QED BY <2>1, <3>1, <3>2, <3>3, CustodyAlloc
  <2>2. CASE Finish(r) /\ UNCHANGED <<ndek, buf>>
    BY <1>3, <1>f, <2>2, WrapKept DEF SetupData
  <2> QED BY <1>3, <2>1, <2>2 DEF SetupData
<1>4. CASE SetupInit(r)
  <2>1. req[r].own # Nil /\ req[r].pass \in Pass
    BY <1>0, <1>4 DEF SetupInit, LocOK, Local, OwnPC
  <2>2. CASE vault' = WrapRow(req[r].pass, 1, buf[req[r].own])
             /\ Goto(r, [req[r] EXCEPT !.pc = "setup_new"]) /\ UNCHANGED buf
    <3>1. WrapOpens'
      BY <2>1, <2>2, WrapRowOpens DEF Custody, OwnPrivate
    <3> QED BY <1>0, <1>4, <2>2, <3>1, CustodyLocal DEF SetupInit, Local
  <2>3. CASE buf' = [buf EXCEPT ![req[r].own] = Zero] /\ Finish(r) /\ UNCHANGED vault
    BY <1>4, <2>1, <2>3, CustodyDrop DEF SetupInit
  <2> QED BY <1>4, <2>2, <2>3 DEF SetupInit
<1>5. CASE RekeyUnlock(r)
  <2>1. CASE Unused # {} /\ ndek' = ndek + 1 /\ buf' = [buf EXCEPT ![NewBuf] = ndek']
             /\ Goto(r, [req[r] EXCEPT !.pc = "rekey_tx", !.own = NewBuf,
                                       !.key = vault.wrapped.dek])
    <3>1. ndek' # Zero
      BY <2>1, ConstAssumption DEF TypeInv, TypeOK, Key, Zero
    <3> DEFINE loc == [req[r] EXCEPT !.pc = "rekey_tx", !.own = NewBuf, !.key = vault.wrapped.dek]
    <3>2. /\ loc.own = NewBuf /\ loc.alias = req[r].alias /\ loc.sess = req[r].sess
          /\ loc.pc = "rekey_tx"
      BY <1>0 DEF Local
    <3> HIDE DEF loc
    <3>3. Goto(r, loc) /\ UNCHANGED <<vault, dek>>
      BY <1>5, <2>1 DEF RekeyUnlock, loc
    <3> QED BY <2>1, <3>1, <3>2, <3>3, CustodyAlloc
  <2>2. CASE Finish(r) /\ UNCHANGED <<ndek, buf>>
    BY <1>5, <1>f, <2>2, WrapKept DEF RekeyUnlock
  <2> QED BY <1>5, <2>1, <2>2 DEF RekeyUnlock
<1>6. CASE RekeyTx(r)
  <2>1. req[r].own # Nil /\ req[r].pass \in Pass
    BY <1>0, <1>6 DEF RekeyTx, LocOK, Local, OwnPC
  <2>2. CASE /\ vault' = WrapRow(req[r].pass, req[r].epoch + 1, buf[req[r].own])
             /\ Goto(r, [req[r] EXCEPT !.pc = "rekey_set", !.key = 0])
             /\ UNCHANGED buf
    <3>1. WrapOpens'
      BY <2>1, <2>2, WrapRowOpens DEF Custody, OwnPrivate
    <3> QED BY <1>0, <1>6, <2>2, <3>1, CustodyLocal DEF RekeyTx, Local
  <2>3. CASE buf' = [buf EXCEPT ![req[r].own] = Zero] /\ Finish(r) /\ UNCHANGED <<vault, rec>>
    BY <1>6, <2>1, <2>3, CustodyDrop DEF RekeyTx
  <2> QED BY <1>6, <2>2, <2>3 DEF RekeyTx
<1>7. CASE RekeySet(r)
    BY <1>7, CustodyRekeySet
<1>8. CASE ChangeRead(r)
    BY <1>0, <1>8, WrapKept, CustodyLocal DEF ChangeRead, Local, Custody, ChangeKeyed
<1>9. CASE ChangeWrite(r)
  <2>1. req[r].pass \in Pass /\ req[r].key # Zero
    BY <1>0, <1>9 DEF ChangeWrite, LocOK, Local, Custody, ChangeKeyed
  <2>2. WrapOpens'
    BY <1>9, <2>1, WrapRowOpens DEF ChangeWrite
  <2> QED BY <1>9, <1>f, <2>2 DEF ChangeWrite
<1>10. CASE UnlockTotp(r)
    BY <1>0, <1>10, WrapKept, CustodyLocal DEF UnlockTotp, Local
<1>11. CASE NewSession(r)
    BY <1>11, CustodyNewSession
<1>12. CASE TotpVerify(r)
    BY <1>0, <1>12, <1>f, WrapKept, CustodyLocal DEF TotpVerify, Local
<1>13. CASE TotpPromote(r)
    BY <1>13, <1>f, WrapKept DEF TotpPromote
<1> QED BY <1>1, <1>2, <1>3, <1>4, <1>5, <1>6, <1>7, <1>8, <1>9, <1>10, <1>11, <1>12, <1>13
        DEF Write, Setup, Rekey, ChangePassphrase, Login

\* Before setup no buffer, session or wrap exists.
LEMMA CustodyInit == Init => Custody
BY IdleFields, ConstAssumption DEF Init, Custody, NoSharedKeyBuffer, AliasCurrentOrScrubbed,
   OwnPrivate, SessionKeyIntact, ChangeKeyed, WrapOpens, Initialized, NoVault

\* Every step keeps the custody of the DEK buffers and of the wrap.
LEMMA CustodyNext == TypeInv /\ Custody /\ [Next]_vars => Custody'
<1> SUFFICES ASSUME TypeInv, Custody, [Next]_vars PROVE Custody'
    OBVIOUS
<1>1. CASE Restart
  <2>1. \A r \in Req : req'[r] = Idle
    BY <1>1 DEF Restart
  <2>2. \A s \in Sess : dek'[s] = Nil
    BY <1>1 DEF Restart
  <2> QED BY <1>1, <2>1, <2>2, WrapKept, IdleFields DEF Restart, Custody, NoSharedKeyBuffer,
          AliasCurrentOrScrubbed, OwnPrivate, SessionKeyIntact, ChangeKeyed
<1>2. CASE UNCHANGED vars
    BY <1>2 DEF vars, Custody, NoSharedKeyBuffer, AliasCurrentOrScrubbed,
       OwnPrivate, SessionKeyIntact, ChangeKeyed, WrapOpens, Initialized
<1> QED BY <1>1, <1>2, CustodyArrive, CustodyStep, CustodyEvict DEF Next

\* Buffer discipline, for any interleaving of handlers, locks, expiries and
\* crashes: sessions never share a DEK buffer, a handler's slice is its session's
\* buffer or has been zeroed, a session in the table never holds a zeroed key,
\* and the stored wrap always opens under the epoch stored with it.
THEOREM BufferDiscipline ==
    Spec => [](NoSharedKeyBuffer /\ AliasCurrentOrScrubbed /\ SessionKeyIntact /\ WrapOpens)
<1>1. Init => TypeInv /\ Custody
    BY TypeInvInit, CustodyInit
<1>2. TypeInv /\ Custody /\ [Next]_vars => (TypeInv /\ Custody)'
    BY TypeInvNext, CustodyNext
<1>3. TypeInv /\ Custody =>
        NoSharedKeyBuffer /\ AliasCurrentOrScrubbed /\ SessionKeyIntact /\ WrapOpens
    BY DEF Custody
<1> QED BY <1>1, <1>2, <1>3, PTL DEF Spec

\* The slice needDEK handed out is never a copy of a key that a lock, an expiry or
\* a rotation has ended: it is the session's own buffer, or zeros.
THEOREM AliasesScrubbed == Spec => []AliasCurrentOrScrubbed
BY BufferDiscipline, PTL

\* No lock, expiry, rotation or failed login zeroes a key that a session in the
\* table goes on using.
THEOREM SessionKeysIntact == Spec => []SessionKeyIntact
BY BufferDiscipline, PTL

\* After any crash the passphrase of the stored wrap opens it, under the epoch that
\* is stored beside it, and yields a key that was drawn.
THEOREM WrapAlwaysOpens == Spec => []WrapOpens
BY BufferDiscipline, PTL

---------------------------------------------------------------------------
(* One browser whose requests do not overlap                               *)

\* What a handler holds, relative to the vault row v and the buffers b, when no
\* other request is in flight.
InFlight(l, v, b) ==
    /\ l.pc = "seal" => v.epoch > 0 /\ b[l.alias] \in {Zero, v.wrapped.dek}
    /\ l.pc = "store" => v.epoch > 0 /\ l.key \in {Zero, v.wrapped.dek}
    /\ l.pc \in {"rekey_tx", "chpass_read", "chpass_write"}
          => v.epoch > 0 /\ l.key = v.wrapped.dek
    /\ l.pc \in {"setup_new", "unlock_totp", "unlock_new", "rekey_set"}
          => v.epoch > 0 /\ b[l.own] = v.wrapped.dek
    /\ l.pc \in {"rekey_unlock", "rekey_tx", "chpass_write"}
          => v.epoch > 0 /\ l.epoch = v.epoch
    /\ l.pc = "rekey_tx" => l.pass = v.wrapped.kek

OneBusy == \A r, q \in Req : r # q => req[r].pc = "idle" \/ req[q].pc = "idle"

EmptyBeforeSetup ==
    ~Initialized => (\A i \in Rec : rec[i] = Absent) /\ (\A s \in Sess : dek[s] = Nil)

\* The session's buffer is stale only between RekeyTx and SetDEK.
SessionCurrentOrRotating ==
    \A s \in Sess : dek[s] # Nil =>
        \/ buf[dek[s]] = vault.wrapped.dek
        \/ \E r \in Req : req[r].pc = "rekey_set"

SerialInv ==
    /\ OneBusy
    /\ EmptyBeforeSetup
    /\ NoRecordUnderRetiredKey
    /\ SessionCurrentOrRotating
    /\ \A r \in Req : InFlight(req[r], vault, buf)

\* The deployment of the theorems below.
Serial == ~Overlap /\ \A s, t \in Sess : s = t

\* In a step of r every other request is idle, before and after.
LEMMA SerialStep ==
    ASSUME TypeInv, NEW r \in Req, NEW loc, Goto(r, loc),
           \A q \in Req : q # r => req[q].pc = "idle",
           EmptyBeforeSetup', NoRecordUnderRetiredKey',
           \A s \in Sess : dek'[s] # Nil =>
              buf'[dek'[s]] = vault'.wrapped.dek \/ loc.pc = "rekey_set",
           InFlight(loc, vault', buf')
    PROVE  SerialInv'
<1>1. /\ req'[r] = loc
      /\ \A q \in Req : q # r => req'[q] = req[q]
    BY ReqAfter
<1>2. OneBusy'
    BY <1>1 DEF OneBusy
<1>3. SessionCurrentOrRotating'
    BY <1>1 DEF SessionCurrentOrRotating
<1>4. \A q \in Req : InFlight(req'[q], vault', buf')
    BY <1>1 DEF InFlight
<1> QED BY <1>2, <1>3, <1>4 DEF SerialInv

\* A request that arrives finds nobody in flight and the session current.
LEMMA SerialArrive ==
    ASSUME Serial, TypeInv, Custody, SerialInv, NEW r \in Req, Arrive(r)
    PROVE  SerialInv'
<1> USE DEF TypeInv, TypeOK
<1>0. ASSUME Ready(r)
      PROVE  /\ \A q \in Req : req[q].pc = "idle"
             /\ \A s \in Sess : dek[s] # Nil => Initialized /\ buf[dek[s]] = vault.wrapped.dek
    BY <1>0 DEF Serial, Ready, Quiet, SerialInv, SessionCurrentOrRotating, EmptyBeforeSetup
<1>g. ASSUME UNCHANGED <<vault, rec, dek>>
      PROVE  EmptyBeforeSetup' /\ NoRecordUnderRetiredKey'
    BY <1>g DEF SerialInv, EmptyBeforeSetup, NoRecordUnderRetiredKey, Initialized
<1>1. ASSUME NEW s \in Sess, NEW i \in Rec, BeginWrite(r, s, i)
      PROVE  SerialInv'
  <2> DEFINE loc == [Idle EXCEPT !.pc = "seal", !.sess = s, !.alias = dek[s], !.col = i]
  <2>1. loc.pc = "seal" /\ loc.alias = dek[s]
    BY IdleFields DEF Local
  <2> HIDE DEF loc
  <2>2. Goto(r, loc) /\ UNCHANGED <<vault, rec, ndek, buf, dek, pending>> /\ Ready(r) /\ dek[s] # Nil
    BY <1>1 DEF BeginWrite, Unlocked, loc
  <2>3. InFlight(loc, vault', buf')
    BY <1>0, <2>1, <2>2 DEF InFlight, Initialized
  <2> QED BY <1>0, <1>g, <2>2, <2>3, SerialStep
<1>2. ASSUME NEW s \in Sess, NEW i \in Rec, DeleteRecord(r, s, i)
      PROVE  SerialInv'
  <2>1. rec' = [rec EXCEPT ![i] = Absent] /\ UNCHANGED <<vault, buf, dek, req>>
    BY <1>2 DEF DeleteRecord
  <2> QED BY <2>1 DEF SerialInv, OneBusy, EmptyBeforeSetup, NoRecordUnderRetiredKey,
          SessionCurrentOrRotating, Initialized
<1>3. ASSUME NEW p \in Pass, BeginSetup(r, p)
      PROVE  SerialInv'
  <2> DEFINE loc == [Idle EXCEPT !.pc = "setup_data", !.pass = p]
  <2>1. loc.pc = "setup_data"
    BY IdleFields DEF Local
  <2> HIDE DEF loc
  <2>2. Goto(r, loc) /\ UNCHANGED <<vault, rec, ndek, buf, dek, pending>> /\ Ready(r)
    BY <1>3 DEF BeginSetup, loc
  <2>3. InFlight(loc, vault', buf')
    BY <2>1 DEF InFlight
  <2> QED BY <1>0, <1>g, <2>2, <2>3, SerialStep
<1>4. ASSUME NEW s \in Sess \cup {Nil}, NEW p \in Pass, BeginUnlock(r, s, p)
      PROVE  SerialInv'
  <2> DEFINE loc == [Idle EXCEPT !.pc = "unlock_totp", !.sess = s, !.own = NewBuf]
  <2>1. loc.pc = "unlock_totp" /\ loc.own = NewBuf
    BY IdleFields DEF Local
  <2> HIDE DEF loc
  <2>2. /\ Goto(r, loc) /\ UNCHANGED <<vault, rec, ndek, dek, pending>> /\ Ready(r)
        /\ Initialized /\ Unused # {} /\ buf' = [buf EXCEPT ![NewBuf] = vault.wrapped.dek]
    BY <1>4 DEF BeginUnlock, Opens, loc
  <2>3. NewBuf \in Buf /\ buf'[NewBuf] = vault.wrapped.dek
    BY <2>2, NewBufUnused
  <2>4. InFlight(loc, vault', buf')
    BY <2>1, <2>2, <2>3 DEF InFlight, Initialized
  <2>5. \A t \in Sess : dek'[t] # Nil => buf'[dek'[t]] = vault'.wrapped.dek
    BY <1>0, <2>2, <2>3
  <2> QED BY <1>0, <1>g, <2>2, <2>4, <2>5, SerialStep
<1>5. ASSUME NEW s \in Sess, BeginTotp(r, s)
      PROVE  SerialInv'
  <2> DEFINE loc == [Idle EXCEPT !.pc = "totp_verify", !.sess = s, !.alias = dek[s]]
  <2>1. loc.pc = "totp_verify"
    BY IdleFields DEF Local
  <2> HIDE DEF loc
  <2>2. Goto(r, loc) /\ UNCHANGED <<vault, rec, ndek, buf, dek, pending>> /\ Ready(r)
    BY <1>5 DEF BeginTotp, loc
  <2>3. InFlight(loc, vault', buf')
    BY <2>1 DEF InFlight
  <2> QED BY <1>0, <1>g, <2>2, <2>3, SerialStep
<1>6. ASSUME NEW s \in Sess, NEW p \in Pass, BeginRekey(r, s, p)
      PROVE  SerialInv'
  <2> DEFINE loc == [Idle EXCEPT !.pc = "rekey_unlock", !.sess = s, !.alias = dek[s],
                                 !.pass = p, !.epoch = vault.epoch]
  <2>1. loc.pc = "rekey_unlock" /\ loc.epoch = vault.epoch
    BY IdleFields DEF Local
  <2> HIDE DEF loc
  <2>2. Goto(r, loc) /\ UNCHANGED <<vault, rec, ndek, buf, dek, pending>> /\ Ready(r) /\ Initialized
    BY <1>6 DEF BeginRekey, loc
  <2>3. InFlight(loc, vault', buf')
    BY <2>1, <2>2 DEF InFlight, Initialized
  <2> QED BY <1>0, <1>g, <2>2, <2>3, SerialStep
<1>7. ASSUME NEW s \in Sess, NEW p \in Pass, NEW np \in Pass,
             BeginChangePassphrase(r, s, p, np)
      PROVE  SerialInv'
  <2> DEFINE loc == [Idle EXCEPT !.pc = "chpass_read", !.sess = s, !.alias = dek[s],
                                 !.pass = np, !.key = vault.wrapped.dek]
  <2>1. loc.pc = "chpass_read" /\ loc.key = vault.wrapped.dek
    BY IdleFields DEF Local
  <2> HIDE DEF loc
  <2>2. Goto(r, loc) /\ UNCHANGED <<vault, rec, ndek, buf, dek, pending>> /\ Ready(r) /\ Initialized
    BY <1>7 DEF BeginChangePassphrase, Opens, loc
  <2>3. InFlight(loc, vault', buf')
    BY <2>1, <2>2 DEF InFlight, Initialized
  <2> QED BY <1>0, <1>g, <2>2, <2>3, SerialStep
<1> QED BY <1>1, <1>2, <1>3, <1>4, <1>5, <1>6, <1>7 DEF Arrive

\* A handler in flight is alone: what it read is still so when it writes.
LEMMA SerialHandler ==
    ASSUME Serial, TypeInv, Custody, SerialInv, NEW r \in Req,
           Write(r) \/ Setup(r) \/ Rekey(r) \/ ChangePassphrase(r) \/ Login(r)
    PROVE  SerialInv'
<1> USE DEF TypeInv, TypeOK
<1>0. req[r] \in Local /\ LocOK(req[r]) /\ InFlight(req[r], vault, buf)
    BY DEF LocalsOK, SerialInv
<1>b. ASSUME req[r].pc # "idle"
      PROVE  \A q \in Req : q # r => req[q].pc = "idle"
    BY <1>b DEF SerialInv, OneBusy
<1>c. ASSUME req[r].pc # "idle", req[r].pc # "rekey_set"
      PROVE  \A s \in Sess : dek[s] # Nil => buf[dek[s]] = vault.wrapped.dek
    BY <1>b, <1>c DEF SerialInv, SessionCurrentOrRotating
<1>g. ASSUME UNCHANGED <<vault, rec, dek>>
      PROVE  EmptyBeforeSetup' /\ NoRecordUnderRetiredKey'
    BY <1>g DEF SerialInv, EmptyBeforeSetup, NoRecordUnderRetiredKey, Initialized
<1>i. InFlight(Idle, vault', buf')
    BY IdleFields DEF InFlight
<1>f. ASSUME Finish(r), req[r].pc # "idle", EmptyBeforeSetup', NoRecordUnderRetiredKey',
             \A s \in Sess : dek'[s] # Nil => buf'[dek'[s]] = vault'.wrapped.dek
      PROVE  SerialInv'
  <2>1. Goto(r, Idle)
    BY <1>f DEF Finish, Goto
  <2> QED BY <1>b, <1>f, <1>i, <2>1, SerialStep
<1>1. CASE Seal(r)
  <2> DEFINE loc == [req[r] EXCEPT !.pc = "store", !.key = buf[req[r].alias]]
  <2>1. loc.pc = "store" /\ loc.key = buf[req[r].alias]
    BY <1>0 DEF Local
  <2> HIDE DEF loc
  <2>2. /\ Goto(r, loc) /\ UNCHANGED <<vault, rec, ndek, buf, dek, pending>>
        /\ req[r].pc = "seal"
    BY <1>1 DEF Seal, loc
  <2>3. InFlight(loc, vault', buf')
    BY <1>0, <2>1, <2>2 DEF InFlight
  <2> QED BY <1>b, <1>c, <1>g, <2>2, <2>3, SerialStep
<1>2. CASE Store(r)
  <2>1. /\ rec' = [rec EXCEPT ![req[r].col] = req[r].key] /\ req[r].pc = "store"
        /\ UNCHANGED <<vault, buf, dek>> /\ Finish(r)
    BY <1>2 DEF Store
  <2>2. Initialized /\ req[r].key \in {Zero, vault.wrapped.dek}
    BY <1>0, <2>1 DEF InFlight, Initialized
  <2>3. EmptyBeforeSetup' /\ NoRecordUnderRetiredKey'
    BY <2>1, <2>2 DEF SerialInv, EmptyBeforeSetup, NoRecordUnderRetiredKey, Initialized
  <2> QED BY <1>c, <1>f, <2>1, <2>3
<1>3. CASE SetupData(r)
  <2>0. req[r].pc = "setup_data" /\ UNCHANGED <<vault, rec, dek>>
    BY <1>3 DEF SetupData
  <2>1. CASE Unused # {} /\ ndek' = ndek + 1 /\ buf' = [buf EXCEPT ![NewBuf] = ndek']
             /\ Goto(r, [req[r] EXCEPT !.pc = "setup_init", !.own = NewBuf])
    <3> DEFINE loc == [req[r] EXCEPT !.pc = "setup_init", !.own = NewBuf]
    <3>1. loc.pc = "setup_init"
      BY <1>0 DEF Local
    <3> HIDE DEF loc
    <3>2. Goto(r, loc)
      BY <2>1 DEF loc
    <3>3. InFlight(loc, vault', buf')
      BY <3>1 DEF InFlight
    <3>4. \A s \in Sess : dek'[s] # Nil => buf'[dek'[s]] = vault'.wrapped.dek
      BY <1>c, <2>0, <2>1, NewBufUnused DEF Held
    <3> QED BY <1>b, <1>g, <2>0, <3>2, <3>3, <3>4, SerialStep
  <2>2. CASE Finish(r) /\ UNCHANGED <<ndek, buf>>
    BY <1>c, <1>f, <1>g, <2>0, <2>2
  <2> QED BY <1>3, <2>1, <2>2 DEF SetupData
<1>4. CASE SetupInit(r)
  <2>0. req[r].pc = "setup_init" /\ UNCHANGED <<rec, dek>>
    BY <1>4 DEF SetupInit
  <2>1. req[r].own \in Buf /\ \A s \in Sess : dek[s] # req[r].own
    BY <1>0, <1>4 DEF SetupInit, LocOK, Local, OwnPC, Custody, NoSharedKeyBuffer
  <2>2. CASE ~Initialized /\ vault' = WrapRow(req[r].pass, 1, buf[req[r].own])
             /\ Goto(r, [req[r] EXCEPT !.pc = "setup_new"]) /\ UNCHANGED buf
    <3> DEFINE loc == [req[r] EXCEPT !.pc = "setup_new"]
    <3>1. loc.pc = "setup_new" /\ loc.own = req[r].own
      BY <1>0 DEF Local
    <3> HIDE DEF loc
    <3>2. Goto(r, loc)
      BY <2>2 DEF loc
    <3>3. vault'.epoch = 1 /\ vault'.wrapped.dek = buf[req[r].own]
      BY <2>2 DEF WrapRow
    <3>4. InFlight(loc, vault', buf')
      BY <2>2, <3>1, <3>3 DEF InFlight
    <3>5. (\A i \in Rec : rec[i] = Absent) /\ (\A s \in Sess : dek[s] = Nil)
      BY <2>2 DEF SerialInv, EmptyBeforeSetup
    <3>6. EmptyBeforeSetup' /\ NoRecordUnderRetiredKey'
      BY <2>0, <3>3, <3>5 DEF EmptyBeforeSetup, NoRecordUnderRetiredKey, Initialized
    <3> QED BY <1>b, <2>0, <3>2, <3>4, <3>5, <3>6, SerialStep
  <2>3. CASE buf' = [buf EXCEPT ![req[r].own] = Zero] /\ Finish(r) /\ UNCHANGED vault
    <3>1. \A s \in Sess : dek'[s] # Nil => buf'[dek'[s]] = vault'.wrapped.dek
      BY <1>c, <2>0, <2>1, <2>3
    <3> QED BY <1>f, <1>g, <2>0, <2>3, <3>1
  <2> QED BY <1>4, <2>2, <2>3 DEF SetupInit
<1>5. CASE RekeyUnlock(r)
  <2>0. req[r].pc = "rekey_unlock" /\ UNCHANGED <<vault, rec, dek>>
    BY <1>5 DEF RekeyUnlock
  <2>1. CASE Opens(req[r].pass) /\ Unused # {} /\ ndek' = ndek + 1
             /\ buf' = [buf EXCEPT ![NewBuf] = ndek']
             /\ Goto(r, [req[r] EXCEPT !.pc = "rekey_tx", !.own = NewBuf,
                                       !.key = vault.wrapped.dek])
    <3> DEFINE loc == [req[r] EXCEPT !.pc = "rekey_tx", !.own = NewBuf, !.key = vault.wrapped.dek]
    <3>1. /\ loc.pc = "rekey_tx" /\ loc.key = vault.wrapped.dek
          /\ loc.pass = req[r].pass /\ loc.epoch = req[r].epoch
      BY <1>0 DEF Local
    <3> HIDE DEF loc
    <3>2. Goto(r, loc)
      BY <2>1 DEF loc
    <3>3. InFlight(loc, vault', buf')
      BY <1>0, <2>0, <2>1, <3>1 DEF InFlight, Opens
    <3>4. \A s \in Sess : dek'[s] # Nil => buf'[dek'[s]] = vault'.wrapped.dek
      BY <1>c, <2>0, <2>1, NewBufUnused DEF Held
    <3> QED BY <1>b, <1>g, <2>0, <3>2, <3>3, <3>4, SerialStep
  <2>2. CASE Finish(r) /\ UNCHANGED <<ndek, buf>>
    BY <1>c, <1>f, <1>g, <2>0, <2>2
  <2> QED BY <1>5, <2>1, <2>2 DEF RekeyUnlock
<1>6. CASE RekeyTx(r)
  <2>0. req[r].pc = "rekey_tx" /\ UNCHANGED dek
    BY <1>6 DEF RekeyTx
  <2>1. req[r].own \in Buf /\ \A s \in Sess : dek[s] # req[r].own
    BY <1>0, <2>0 DEF LocOK, Local, OwnPC, Custody, NoSharedKeyBuffer
  <2>2. CASE /\ rec' = Resealed(buf[req[r].own])
             /\ vault' = WrapRow(req[r].pass, req[r].epoch + 1, buf[req[r].own])
             /\ Goto(r, [req[r] EXCEPT !.pc = "rekey_set", !.key = 0])
             /\ UNCHANGED buf
    <3> DEFINE loc == [req[r] EXCEPT !.pc = "rekey_set", !.key = 0]
    <3>1. loc.pc = "rekey_set" /\ loc.own = req[r].own
      BY <1>0 DEF Local
    <3> HIDE DEF loc
    <3>2. Goto(r, loc)
      BY <2>2 DEF loc
    <3>3. vault'.epoch = req[r].epoch + 1 /\ vault'.wrapped.dek = buf[req[r].own]
      BY <2>2 DEF WrapRow
    <3>4. vault'.epoch > 0
      BY <1>0, <3>3, ConstAssumption DEF Local
    <3>5. InFlight(loc, vault', buf')
      BY <2>2, <3>1, <3>3, <3>4 DEF InFlight
    <3>6. EmptyBeforeSetup' /\ NoRecordUnderRetiredKey'
      BY <2>2, <3>3, <3>4 DEF Resealed, EmptyBeforeSetup, NoRecordUnderRetiredKey, Initialized
    <3> QED BY <1>b, <2>0, <3>1, <3>2, <3>5, <3>6, SerialStep
  <2>3. CASE buf' = [buf EXCEPT ![req[r].own] = Zero] /\ Finish(r) /\ UNCHANGED <<vault, rec>>
    <3>1. \A s \in Sess : dek'[s] # Nil => buf'[dek'[s]] = vault'.wrapped.dek
      BY <1>c, <2>0, <2>1, <2>3
    <3> QED BY <1>f, <1>g, <2>0, <2>3, <3>1
  <2> QED BY <1>6, <2>2, <2>3 DEF RekeyTx
<1>7. CASE RekeySet(r)
  <2>0. /\ req[r].pc = "rekey_set" /\ UNCHANGED <<vault, rec>> /\ Finish(r)
        /\ req[r].sess \in Sess /\ req[r].own \in Buf
    BY <1>0, <1>7 DEF RekeySet, LocOK, Local, OwnPC
  <2>1. \A s \in Sess : s = req[r].sess
    BY <2>0 DEF Serial
  <2>2. Initialized /\ buf[req[r].own] = vault.wrapped.dek
    BY <1>0, <2>0 DEF InFlight, Initialized
  <2>3. \A s \in Sess : dek'[s] # Nil => buf'[dek'[s]] = vault'.wrapped.dek
    <3>1. CASE dek[req[r].sess] = Nil
      BY <1>7, <2>0, <2>1, <3>1 DEF RekeySet
    <3>2. CASE dek[req[r].sess] # Nil
      <4>1. buf' = ScrubbedBuf(req[r].sess) /\ dek' = [dek EXCEPT ![req[r].sess] = req[r].own]
        BY <1>7, <3>2 DEF RekeySet
      <4>2. req[r].own # dek[req[r].sess]
        BY <1>0, <2>0 DEF Custody, NoSharedKeyBuffer, LocOK, OwnPC
      <4> QED BY <2>0, <2>1, <2>2, <4>1, <4>2 DEF ScrubbedBuf
    <3> QED BY <3>1, <3>2
  <2>4. EmptyBeforeSetup' /\ NoRecordUnderRetiredKey'
    BY <2>0, <2>2 DEF SerialInv, EmptyBeforeSetup, NoRecordUnderRetiredKey, Initialized
  <2> QED BY <1>f, <2>0, <2>3, <2>4
<1>8. CASE ChangeRead(r)
  <2> DEFINE loc == [req[r] EXCEPT !.pc = "chpass_write", !.epoch = vault.epoch]
  <2>1. loc.pc = "chpass_write" /\ loc.epoch = vault.epoch /\ loc.key = req[r].key
    BY <1>0 DEF Local
  <2> HIDE DEF loc
  <2>2. /\ Goto(r, loc) /\ UNCHANGED <<vault, rec, ndek, buf, dek, pending>>
        /\ req[r].pc = "chpass_read"
    BY <1>8 DEF ChangeRead, loc
  <2>3. InFlight(loc, vault', buf')
    BY <1>0, <2>1, <2>2 DEF InFlight
  <2> QED BY <1>b, <1>c, <1>g, <2>2, <2>3, SerialStep
<1>9. CASE ChangeWrite(r)
  <2>1. /\ req[r].pc = "chpass_write" /\ UNCHANGED <<rec, buf, dek>> /\ Finish(r)
        /\ vault' = WrapRow(req[r].pass, req[r].epoch + 1, req[r].key)
    BY <1>9 DEF ChangeWrite
  <2>2. Initialized /\ req[r].key = vault.wrapped.dek
    BY <1>0, <2>1 DEF InFlight, Initialized
  <2>3. vault'.epoch > 0 /\ vault'.wrapped.dek = vault.wrapped.dek
    BY <1>0, <2>1, <2>2, ConstAssumption DEF WrapRow, Local
  <2>4. EmptyBeforeSetup' /\ NoRecordUnderRetiredKey'
    BY <2>1, <2>2, <2>3 DEF SerialInv, EmptyBeforeSetup, NoRecordUnderRetiredKey, Initialized
  <2> QED BY <1>c, <1>f, <2>1, <2>3, <2>4
<1>10. CASE UnlockTotp(r)
  <2>1. PICK loc \in Local : /\ Goto(r, loc) /\ loc.pc = "unlock_new" /\ loc.own = req[r].own
    <3> DEFINE asked == [req[r] EXCEPT !.pc = "unlock_new", !.pend = (rec[Totp] # Absent)]
               unasked == [req[r] EXCEPT !.pc = "unlock_new", !.err = TRUE]
    <3>1. /\ asked \in Local /\ asked.pc = "unlock_new" /\ asked.own = req[r].own
          /\ unasked \in Local /\ unasked.pc = "unlock_new" /\ unasked.own = req[r].own
      BY <1>0 DEF Local, PC
    <3>2. Goto(r, asked) \/ Goto(r, unasked)
      BY <1>10 DEF UnlockTotp
    <3> HIDE DEF asked, unasked
    <3> QED BY <3>1, <3>2
  <2>2. UNCHANGED <<vault, rec, ndek, buf, dek, pending>> /\ req[r].pc = "unlock_totp"
    BY <1>10 DEF UnlockTotp
  <2>3. InFlight(loc, vault', buf')
    BY <1>0, <2>1, <2>2 DEF InFlight
  <2> QED BY <1>b, <1>c, <1>g, <2>1, <2>2, <2>3, SerialStep
<1>11. CASE NewSession(r)
  <2>1. PICK n \in Sess : InstallSession(r, n)
    BY <1>11 DEF NewSession
  <2>2. /\ req[r].pc \in {"setup_new", "unlock_new"} /\ UNCHANGED <<vault, rec>> /\ Finish(r)
        /\ req[r].own \in Buf /\ \A s \in Sess : dek[s] # req[r].own
    BY <1>0, <1>11, <2>1
    DEF NewSession, InstallSession, LocOK, Local, OwnPC, Custody, NoSharedKeyBuffer
  <2>3. Initialized /\ buf[req[r].own] = vault.wrapped.dek
    BY <1>0, <2>2 DEF InFlight, Initialized
  <2>4. \A s \in Sess : s = n
    BY DEF Serial
  <2>5. dek'[n] = req[r].own /\ buf'[req[r].own] = buf[req[r].own]
    <3>1. dek'[n] = req[r].own
      BY <2>1 DEF InstallSession
    <3>2. \A t : t \in (IF req[r].sess = Nil THEN {} ELSE {req[r].sess}) => t \in Sess
      BY <1>0 DEF Local
    <3> QED BY <2>1, <2>2, <3>1, <3>2 DEF InstallSession
  <2>6. EmptyBeforeSetup' /\ NoRecordUnderRetiredKey'
    BY <2>2, <2>3 DEF SerialInv, EmptyBeforeSetup, NoRecordUnderRetiredKey, Initialized
  <2> QED BY <1>f, <2>2, <2>3, <2>4, <2>5, <2>6
<1>12. CASE TotpVerify(r)
  <2> DEFINE loc == [req[r] EXCEPT !.pc = "totp_promote"]
  <2>1. loc.pc = "totp_promote"
    BY <1>0 DEF Local
  <2> HIDE DEF loc
  <2>2. /\ Goto(r, loc) \/ Finish(r)
        /\ UNCHANGED <<vault, rec, ndek, buf, dek, pending>>
        /\ req[r].pc = "totp_verify"
    BY <1>12 DEF TotpVerify, loc
  <2>3. InFlight(loc, vault', buf')
    BY <2>1 DEF InFlight
  <2> QED BY <1>b, <1>c, <1>f, <1>g, <2>2, <2>3, SerialStep
<1>13. CASE TotpPromote(r)
  <2>1. UNCHANGED <<vault, rec, buf, dek>> /\ Finish(r) /\ req[r].pc = "totp_promote"
    BY <1>13 DEF TotpPromote
  <2> QED BY <1>c, <1>f, <1>g, <2>1
<1> QED BY <1>1, <1>2, <1>3, <1>4, <1>5, <1>6, <1>7, <1>8, <1>9, <1>10, <1>11, <1>12, <1>13
        DEF Write, Setup, Rekey, ChangePassphrase, Login

\* Before setup the serial invariant holds vacuously.
LEMMA SerialInit == Init => SerialInv
BY IdleFields DEF Init, SerialInv, OneBusy, EmptyBeforeSetup, NoRecordUnderRetiredKey,
   SessionCurrentOrRotating, InFlight, Initialized, NoVault

\* When requests do not overlap, every step keeps sessions and handlers on the current
\* DEK, and columns on it or on the zero key.
LEMMA SerialNext ==
    ASSUME Serial
    PROVE  TypeInv /\ Custody /\ SerialInv /\ [Next]_vars => SerialInv'
<1> SUFFICES ASSUME TypeInv, Custody, SerialInv, [Next]_vars PROVE SerialInv'
    OBVIOUS
<1>1. ASSUME NEW s \in Sess, Evict(s) PROVE SerialInv'
  <2>1. /\ UNCHANGED <<vault, rec, req>> /\ dek' = [dek EXCEPT ![s] = Nil] /\ dek[s] \in Buf
        /\ \A b \in Buf : buf'[b] = IF b = dek[s] THEN Zero ELSE buf[b]
    BY <1>1 DEF Evict, Evicted, ScrubbedBuf, TypeInv, TypeOK
  <2>2. \A t \in Sess : dek'[t] = Nil
    BY <2>1 DEF Serial, TypeInv, TypeOK
  <2>3. ASSUME NEW r \in Req PROVE InFlight(req[r], vault, buf')
    <3>1. InFlight(req[r], vault, buf) /\ LocOK(req[r]) /\ req[r] \in Local
      BY DEF SerialInv, TypeInv, TypeOK, LocalsOK
    <3>2. req[r].pc = "seal" => buf'[req[r].alias] \in {Zero, buf[req[r].alias]}
      BY <2>1, <3>1 DEF LocOK, Local
    <3>3. req[r].own # Nil => buf'[req[r].own] = buf[req[r].own]
      BY <2>1, <3>1 DEF Custody, NoSharedKeyBuffer, Local
    <3>4. req[r].pc \in {"setup_new", "unlock_totp", "unlock_new", "rekey_set"} => req[r].own # Nil
      BY <3>1 DEF LocOK, OwnPC
    <3> QED BY <3>1, <3>2, <3>3, <3>4 DEF InFlight
  <2>4. \A r \in Req : InFlight(req'[r], vault', buf')
    BY <2>1, <2>3
  <2> QED BY <2>1, <2>2, <2>4 DEF SerialInv, OneBusy, EmptyBeforeSetup, NoRecordUnderRetiredKey,
          SessionCurrentOrRotating, Initialized
<1>2. CASE Restart
  <2>1. /\ UNCHANGED <<vault, rec>> /\ \A q \in Req : req'[q] = Idle
        /\ \A t \in Sess : dek'[t] = Nil
    BY <1>2 DEF Restart
  <2> QED BY <2>1, IdleFields DEF SerialInv, OneBusy, EmptyBeforeSetup, NoRecordUnderRetiredKey,
          SessionCurrentOrRotating, InFlight, Initialized
<1>3. CASE UNCHANGED vars
    BY <1>3 DEF vars, SerialInv, OneBusy, EmptyBeforeSetup, NoRecordUnderRetiredKey,
       SessionCurrentOrRotating, InFlight, Initialized
<1> QED BY <1>1, <1>2, <1>3, SerialArrive, SerialHandler DEF Next

\* With one browser whose requests do not overlap, no stored ciphertext is under a
\* DEK that a rotation has retired: it opens under the wrapped DEK, or it was sealed
\* under zeros, after any sequence of writes, rotations, passphrase changes, logins,
\* locks and crashes and with the sweeper expiring the session at any of their steps.
THEOREM SerialReadable ==
    ASSUME Serial
    PROVE  Spec => []NoRecordUnderRetiredKey
<1> DEFINE IInv == TypeInv /\ Custody /\ SerialInv
<1>1. Init => IInv
    BY TypeInvInit, CustodyInit, SerialInit
<1>2. IInv /\ [Next]_vars => IInv'
    BY TypeInvNext, CustodyNext, SerialNext
<1>3. IInv => NoRecordUnderRetiredKey
    BY DEF SerialInv
<1> QED BY <1>1, <1>2, <1>3, PTL DEF Spec

\* With one browser whose requests do not overlap, its session holds the DEK that the
\* vault row wraps whenever no request is in flight, also after a rotation, and however
\* the sweeper interleaves with its requests.
THEOREM SerialSessions ==
    ASSUME Serial
    PROVE  Spec => []SessionsCurrent
<1> DEFINE IInv == TypeInv /\ Custody /\ SerialInv
<1>1. Init => IInv
    BY TypeInvInit, CustodyInit, SerialInit
<1>2. IInv /\ [Next]_vars => IInv'
    BY TypeInvNext, CustodyNext, SerialNext
<1>3. IInv => SessionsCurrent
    BY DEF SerialInv, SessionCurrentOrRotating, SessionsCurrent, Quiet
<1> QED BY <1>1, <1>2, <1>3, PTL DEF Spec

\* Only a setup, a rotation and a passphrase change write the vault row.
LEMMA VaultWriters ==
    ASSUME [Next]_vars, vault' # vault
    PROVE  \E r \in Req : SetupInit(r) \/ RekeyTx(r) \/ ChangeWrite(r)
<1>1. ASSUME NEW r \in Req, Arrive(r) PROVE FALSE
    BY <1>1 DEF Arrive, BeginWrite, DeleteRecord, BeginSetup, BeginUnlock, BeginTotp,
       BeginRekey, BeginChangePassphrase
<1>2. ASSUME NEW r \in Req, Write(r) \/ Login(r) PROVE FALSE
    BY <1>2 DEF Write, Seal, Store, Login, UnlockTotp, NewSession, InstallSession,
       TotpVerify, TotpPromote
<1>3. ASSUME NEW r \in Req, SetupData(r) \/ RekeyUnlock(r) \/ RekeySet(r) \/ ChangeRead(r)
      PROVE  FALSE
    BY <1>3 DEF SetupData, RekeyUnlock, RekeySet, ChangeRead
<1>4. ASSUME NEW s \in Sess, Evict(s) PROVE FALSE
    BY <1>4 DEF Evict
<1>5. ~Restart /\ ~UNCHANGED vars
    BY DEF Restart, vars
<1> QED BY <1>1, <1>2, <1>3, <1>4, <1>5 DEF Next, Setup, Rekey, ChangePassphrase

\* With one browser whose requests do not overlap, a rotation keeps the passphrase,
\* a passphrase change keeps the DEK, and the epoch counts the changes one by one.
THEOREM SerialOneChange ==
    ASSUME Serial
    PROVE  Spec => OneChangeAtATime
<1> DEFINE IInv == TypeInv /\ Custody /\ SerialInv
           Step == Initialized /\ vault' # vault =>
                      /\ vault'.epoch = vault.epoch + 1
                      /\ \/ vault'.wrapped.kek = vault.wrapped.kek
                         \/ vault'.wrapped.dek = vault.wrapped.dek
<1>1. Init => IInv
    BY TypeInvInit, CustodyInit, SerialInit
<1>2. IInv /\ [Next]_vars => IInv'
    BY TypeInvNext, CustodyNext, SerialNext
<1>3. IInv /\ [Next]_vars => [Step]_vars
  <2> SUFFICES ASSUME IInv, [Next]_vars, Initialized, vault' # vault
               PROVE  /\ vault'.epoch = vault.epoch + 1
                      /\ \/ vault'.wrapped.kek = vault.wrapped.kek
                         \/ vault'.wrapped.dek = vault.wrapped.dek
    OBVIOUS
  <2>1. PICK r \in Req : SetupInit(r) \/ RekeyTx(r) \/ ChangeWrite(r)
    BY VaultWriters
  <2>2. InFlight(req[r], vault, buf)
    BY DEF SerialInv
  <2>3. CASE SetupInit(r)
    BY <2>3 DEF SetupInit
  <2>4. CASE RekeyTx(r)
    BY <2>2, <2>4 DEF RekeyTx, InFlight, WrapRow
  <2>5. CASE ChangeWrite(r)
    BY <2>2, <2>5 DEF ChangeWrite, InFlight, WrapRow
  <2> QED BY <2>1, <2>3, <2>4, <2>5
<1> QED BY <1>1, <1>2, <1>3, PTL DEF Spec, OneChangeAtATime

---------------------------------------------------------------------------
(* The refinement of UserVault                                             *)

\* Program points of a login's second half.
TotpPC == {"totp_verify", "totp_promote"}

\* What the session of a handler, if the sweeper has left it, and what the handler has
\* read of totp_enc, are when no other request is in flight.
Admitted(l, v, rc, b, d, p) ==
    /\ l.pc \in AdmittedPC => l.sess \in Sess /\ l.sess \notin p
    /\ l.pc = "seal" => d[l.sess] \in {Nil, l.alias}
    /\ l.pc = "store" => d[l.sess] = Nil \/ l.key # Zero
    /\ l.pc \in TotpPC => /\ l.sess \in Sess /\ v.epoch > 0
                          /\ d[l.sess] # Nil => l.sess \in p
    /\ l.pc = "totp_verify" => d[l.sess] = Nil \/ b[l.alias] = v.wrapped.dek
    /\ l.pc = "totp_promote" => d[l.sess] = Nil \/ rc[Totp] = v.wrapped.dek
    /\ l.pc \in {"setup_data", "setup_init", "setup_new"} => ~l.pend
    /\ l.pc = "setup_new" => rc[Totp] = Absent
    /\ l.pc = "unlock_totp" => ~l.pend
    /\ l.pc = "unlock_new" => IF l.err THEN ~l.pend ELSE l.pend <=> rc[Totp] # Absent
    /\ l.err => l.pc = "unlock_new"

NoRowNoPass == ~Initialized => vault.wrapped.kek = Nil

UserInv ==
    /\ NoRowNoPass
    /\ \A r \in Req : Admitted(req[r], vault, rec, buf, dek, pending)

\* A step of r, which is alone.
LEMMA UserStep ==
    ASSUME TypeInv, UserInv, NEW r \in Req, NEW loc, Goto(r, loc),
           \A q \in Req : q # r => req[q].pc = "idle",
           NoRowNoPass', Admitted(loc, vault', rec', buf', dek', pending')
    PROVE  UserInv'
<1>1. /\ req'[r] = loc
      /\ \A q \in Req : q # r => req'[q] = req[q]
    BY ReqAfter
<1>2. \A q \in Req : Admitted(req'[q], vault', rec', buf', dek', pending')
    BY <1>1 DEF UserInv, Admitted, AdmittedPC, TotpPC
<1> QED BY <1>2 DEF UserInv

\* An idle request has nothing to be admitted to.
LEMMA IdleAdmitted ==
    ASSUME NEW v, NEW rc, NEW b, NEW d, NEW p PROVE Admitted(Idle, v, rc, b, d, p)
BY IdleFields DEF Admitted, AdmittedPC, TotpPC

\* A request that arrives is admitted with the session as it is.
LEMMA UserArrive ==
    ASSUME Serial, TypeInv, Custody, SerialInv, UserInv, NEW r \in Req, Arrive(r)
    PROVE  UserInv'
<1> USE DEF TypeInv, TypeOK
<1>0. ASSUME Ready(r)
      PROVE  /\ \A q \in Req : req[q].pc = "idle"
             /\ \A s \in Sess : dek[s] # Nil => Initialized /\ buf[dek[s]] = vault.wrapped.dek
    BY <1>0 DEF Serial, Ready, Quiet, SerialInv, SessionCurrentOrRotating, EmptyBeforeSetup
<1>g. ASSUME UNCHANGED vault PROVE NoRowNoPass'
    BY <1>g DEF UserInv, NoRowNoPass, Initialized
<1>1. ASSUME NEW s \in Sess, NEW i \in Rec, BeginWrite(r, s, i)
      PROVE  UserInv'
  <2> DEFINE loc == [Idle EXCEPT !.pc = "seal", !.sess = s, !.alias = dek[s], !.col = i]
  <2>1. loc.pc = "seal" /\ loc.sess = s /\ loc.alias = dek[s] /\ loc.err = FALSE
    BY IdleFields DEF Local
  <2> HIDE DEF loc
  <2>2. Goto(r, loc) /\ UNCHANGED <<vault, rec, ndek, buf, dek, pending>> /\ Ready(r) /\ Unlocked(s)
    BY <1>1 DEF BeginWrite, loc
  <2>3. Admitted(loc, vault', rec', buf', dek', pending')
    BY <2>1, <2>2 DEF Admitted, AdmittedPC, TotpPC, Unlocked
  <2> QED BY <1>0, <1>g, <2>2, <2>3, UserStep
<1>2. ASSUME NEW s \in Sess, NEW i \in Rec, DeleteRecord(r, s, i)
      PROVE  UserInv'
  <2>1. UNCHANGED <<vault, buf, dek, pending, req>> /\ \A q \in Req : req[q].pc = "idle"
    BY <1>0, <1>2 DEF DeleteRecord
  <2> QED BY <1>g, <2>1 DEF UserInv, Admitted, AdmittedPC, TotpPC
<1>3. ASSUME NEW p \in Pass, BeginSetup(r, p)
      PROVE  UserInv'
  <2> DEFINE loc == [Idle EXCEPT !.pc = "setup_data", !.pass = p]
  <2>1. loc.pc = "setup_data" /\ loc.pend = FALSE /\ loc.err = FALSE
    BY IdleFields DEF Local
  <2> HIDE DEF loc
  <2>2. Goto(r, loc) /\ UNCHANGED <<vault, rec, ndek, buf, dek, pending>> /\ Ready(r)
    BY <1>3 DEF BeginSetup, loc
  <2>3. Admitted(loc, vault', rec', buf', dek', pending')
    BY <2>1 DEF Admitted, AdmittedPC, TotpPC
  <2> QED BY <1>0, <1>g, <2>2, <2>3, UserStep
<1>4. ASSUME NEW s \in Sess \cup {Nil}, NEW p \in Pass, BeginUnlock(r, s, p)
      PROVE  UserInv'
  <2> DEFINE loc == [Idle EXCEPT !.pc = "unlock_totp", !.sess = s, !.own = NewBuf]
  <2>1. loc.pc = "unlock_totp" /\ loc.pend = FALSE /\ loc.err = FALSE
    BY IdleFields DEF Local
  <2> HIDE DEF loc
  <2>2. Goto(r, loc) /\ UNCHANGED <<vault, rec, ndek, dek, pending>> /\ Ready(r)
    BY <1>4 DEF BeginUnlock, loc
  <2>3. Admitted(loc, vault', rec', buf', dek', pending')
    BY <2>1 DEF Admitted, AdmittedPC, TotpPC
  <2> QED BY <1>0, <1>g, <2>2, <2>3, UserStep
<1>5. ASSUME NEW s \in Sess, BeginTotp(r, s)
      PROVE  UserInv'
  <2> DEFINE loc == [Idle EXCEPT !.pc = "totp_verify", !.sess = s, !.alias = dek[s]]
  <2>1. loc.pc = "totp_verify" /\ loc.sess = s /\ loc.alias = dek[s] /\ loc.err = FALSE
    BY IdleFields DEF Local
  <2> HIDE DEF loc
  <2>2. /\ Goto(r, loc) /\ UNCHANGED <<vault, rec, ndek, buf, dek, pending>> /\ Ready(r)
        /\ dek[s] # Nil /\ s \in pending
    BY <1>5 DEF BeginTotp, loc
  <2>3. Admitted(loc, vault', rec', buf', dek', pending')
    BY <1>0, <2>1, <2>2 DEF Admitted, AdmittedPC, TotpPC, Initialized
  <2> QED BY <1>0, <1>g, <2>2, <2>3, UserStep
<1>6. ASSUME NEW s \in Sess, NEW p \in Pass, BeginRekey(r, s, p)
      PROVE  UserInv'
  <2> DEFINE loc == [Idle EXCEPT !.pc = "rekey_unlock", !.sess = s, !.alias = dek[s],
                                 !.pass = p, !.epoch = vault.epoch]
  <2>1. loc.pc = "rekey_unlock" /\ loc.sess = s /\ loc.err = FALSE
    BY IdleFields DEF Local
  <2> HIDE DEF loc
  <2>2. Goto(r, loc) /\ UNCHANGED <<vault, rec, ndek, buf, dek, pending>> /\ Ready(r) /\ Unlocked(s)
    BY <1>6 DEF BeginRekey, loc
  <2>3. Admitted(loc, vault', rec', buf', dek', pending')
    BY <2>1, <2>2 DEF Admitted, AdmittedPC, TotpPC, Unlocked
  <2> QED BY <1>0, <1>g, <2>2, <2>3, UserStep
<1>7. ASSUME NEW s \in Sess, NEW p \in Pass, NEW np \in Pass,
             BeginChangePassphrase(r, s, p, np)
      PROVE  UserInv'
  <2> DEFINE loc == [Idle EXCEPT !.pc = "chpass_read", !.sess = s, !.alias = dek[s],
                                 !.pass = np, !.key = vault.wrapped.dek]
  <2>1. loc.pc = "chpass_read" /\ loc.sess = s /\ loc.err = FALSE
    BY IdleFields DEF Local
  <2> HIDE DEF loc
  <2>2. Goto(r, loc) /\ UNCHANGED <<vault, rec, ndek, buf, dek, pending>> /\ Ready(r) /\ Unlocked(s)
    BY <1>7 DEF BeginChangePassphrase, loc
  <2>3. Admitted(loc, vault', rec', buf', dek', pending')
    BY <2>1, <2>2 DEF Admitted, AdmittedPC, TotpPC, Unlocked
  <2> QED BY <1>0, <1>g, <2>2, <2>3, UserStep
<1> QED BY <1>1, <1>2, <1>3, <1>4, <1>5, <1>6, <1>7 DEF Arrive

\* What a login knows of the second factor when it has asked, or has failed to.
LEMMA LoginRead ==
    ASSUME NEW r \in Req, req[r] \in Local, UnlockTotp(r),
           Admitted(req[r], vault, rec, buf, dek, pending)
    PROVE  \E loc \in Local :
              /\ Goto(r, loc) /\ loc.pc = "unlock_new"
              /\ IF loc.err THEN ~loc.pend ELSE loc.pend <=> rec[Totp] # Absent
<1> DEFINE asked == [req[r] EXCEPT !.pc = "unlock_new", !.pend = (rec[Totp] # Absent)]
           unasked == [req[r] EXCEPT !.pc = "unlock_new", !.err = TRUE]
<1>1. req[r].pend = FALSE /\ req[r].err = FALSE
  <2>1. req[r].pc = "unlock_totp"
    BY DEF UnlockTotp
  <2> QED BY <2>1 DEF Admitted, Local
<1>2. /\ asked \in Local /\ asked.pc = "unlock_new" /\ asked.err = FALSE
      /\ asked.pend <=> rec[Totp] # Absent
  BY <1>1 DEF Local, PC
<1>3. /\ unasked \in Local /\ unasked.pc = "unlock_new" /\ unasked.err = TRUE
      /\ unasked.pend = FALSE
  BY <1>1 DEF Local, PC
<1>4. Goto(r, asked) \/ Goto(r, unasked)
  BY DEF UnlockTotp
<1> HIDE DEF asked, unasked
<1> QED BY <1>2, <1>3, <1>4

\* While a handler is in flight nobody enrols and no other session takes the place of
\* its own, which the sweeper may remove.
LEMMA UserHandler ==
    ASSUME Serial, TypeInv, Custody, SerialInv, UserInv, NEW r \in Req,
           Write(r) \/ Setup(r) \/ Rekey(r) \/ ChangePassphrase(r) \/ Login(r)
    PROVE  UserInv'
<1> USE DEF TypeInv, TypeOK
<1>0. /\ req[r] \in Local /\ LocOK(req[r]) /\ InFlight(req[r], vault, buf)
      /\ Admitted(req[r], vault, rec, buf, dek, pending)
    BY DEF LocalsOK, SerialInv, UserInv
<1>b. ASSUME req[r].pc # "idle"
      PROVE  \A q \in Req : q # r => req[q].pc = "idle"
    BY <1>b DEF SerialInv, OneBusy
<1>g. ASSUME UNCHANGED vault PROVE NoRowNoPass'
    BY <1>g DEF UserInv, NoRowNoPass, Initialized
<1>f. ASSUME Finish(r), req[r].pc # "idle", NoRowNoPass'
      PROVE  UserInv'
  <2>1. Goto(r, Idle)
    BY <1>f DEF Finish, Goto
  <2> QED BY <1>b, <1>f, <2>1, UserStep, IdleAdmitted
<1>1. CASE Seal(r)
  <2> DEFINE loc == [req[r] EXCEPT !.pc = "store", !.key = buf[req[r].alias]]
  <2>1. /\ loc.pc = "store" /\ loc.sess = req[r].sess /\ loc.err = req[r].err
        /\ loc.key = buf[req[r].alias]
    BY <1>0 DEF Local
  <2> HIDE DEF loc
  <2>2. /\ Goto(r, loc) /\ UNCHANGED <<vault, rec, ndek, buf, dek, pending>>
        /\ req[r].pc = "seal"
    BY <1>1 DEF Seal, loc
  <2>3. dek[req[r].sess] # Nil => loc.key # Zero
    BY <1>0, <2>1, <2>2 DEF Admitted, AdmittedPC, Custody, SessionKeyIntact
  <2>4. Admitted(loc, vault', rec', buf', dek', pending')
    BY <1>0, <2>1, <2>2, <2>3 DEF Admitted, AdmittedPC, TotpPC
  <2> QED BY <1>b, <1>g, <2>2, <2>4, UserStep
<1>2. CASE Store(r)
    BY <1>2, <1>f, <1>g DEF Store
<1>3. CASE SetupData(r)
  <2>0. req[r].pc = "setup_data" /\ UNCHANGED <<vault, rec, dek, pending>>
    BY <1>3 DEF SetupData
  <2>1. CASE Goto(r, [req[r] EXCEPT !.pc = "setup_init", !.own = NewBuf])
    <3> DEFINE loc == [req[r] EXCEPT !.pc = "setup_init", !.own = NewBuf]
    <3>1. loc.pc = "setup_init" /\ loc.pend = req[r].pend /\ loc.err = req[r].err
      BY <1>0 DEF Local
    <3> HIDE DEF loc
    <3>2. Goto(r, loc)
      BY <2>1 DEF loc
    <3>3. Admitted(loc, vault', rec', buf', dek', pending')
      BY <1>0, <2>0, <3>1 DEF Admitted, AdmittedPC, TotpPC
    <3> QED BY <1>b, <1>g, <2>0, <3>2, <3>3, UserStep
  <2> QED BY <1>3, <1>f, <1>g, <2>0, <2>1 DEF SetupData
<1>4. CASE SetupInit(r)
  <2>0. req[r].pc = "setup_init" /\ UNCHANGED <<rec, dek, pending>>
    BY <1>4 DEF SetupInit
  <2>1. CASE ~Initialized /\ vault' = WrapRow(req[r].pass, 1, buf[req[r].own])
             /\ Goto(r, [req[r] EXCEPT !.pc = "setup_new"])
    <3> DEFINE loc == [req[r] EXCEPT !.pc = "setup_new"]
    <3>1. loc.pc = "setup_new" /\ loc.pend = req[r].pend /\ loc.err = req[r].err
      BY <1>0 DEF Local
    <3> HIDE DEF loc
    <3>2. Goto(r, loc)
      BY <2>1 DEF loc
    <3>3. NoRowNoPass'
      BY <2>1 DEF WrapRow, NoRowNoPass, Initialized
    <3>4. rec'[Totp] = Absent
      BY <2>0, <2>1, ConstAssumption DEF SerialInv, EmptyBeforeSetup
    <3>5. Admitted(loc, vault', rec', buf', dek', pending')
      BY <1>0, <2>0, <3>1, <3>4 DEF Admitted, AdmittedPC, TotpPC
    <3> QED BY <1>b, <2>0, <3>2, <3>3, <3>5, UserStep
  <2> QED BY <1>4, <1>f, <1>g, <2>0, <2>1 DEF SetupInit
<1>5. CASE RekeyUnlock(r)
  <2>0. req[r].pc = "rekey_unlock" /\ UNCHANGED <<vault, rec, dek, pending>>
    BY <1>5 DEF RekeyUnlock
  <2>1. CASE Goto(r, [req[r] EXCEPT !.pc = "rekey_tx", !.own = NewBuf, !.key = vault.wrapped.dek])
    <3> DEFINE loc == [req[r] EXCEPT !.pc = "rekey_tx", !.own = NewBuf, !.key = vault.wrapped.dek]
    <3>1. loc.pc = "rekey_tx" /\ loc.sess = req[r].sess /\ loc.err = req[r].err
      BY <1>0 DEF Local
    <3> HIDE DEF loc
    <3>2. Goto(r, loc)
      BY <2>1 DEF loc
    <3>3. Admitted(loc, vault', rec', buf', dek', pending')
      BY <1>0, <2>0, <3>1 DEF Admitted, AdmittedPC, TotpPC
    <3> QED BY <1>b, <1>g, <2>0, <3>2, <3>3, UserStep
  <2> QED BY <1>5, <1>f, <1>g, <2>0, <2>1 DEF RekeyUnlock
<1>6. CASE RekeyTx(r)
  <2>0. req[r].pc = "rekey_tx" /\ UNCHANGED <<dek, pending>>
    BY <1>6 DEF RekeyTx
  <2>1. CASE /\ vault' = WrapRow(req[r].pass, req[r].epoch + 1, buf[req[r].own])
             /\ Goto(r, [req[r] EXCEPT !.pc = "rekey_set", !.key = 0])
    <3> DEFINE loc == [req[r] EXCEPT !.pc = "rekey_set", !.key = 0]
    <3>1. loc.pc = "rekey_set" /\ loc.sess = req[r].sess /\ loc.err = req[r].err
      BY <1>0 DEF Local
    <3> HIDE DEF loc
    <3>2. Goto(r, loc)
      BY <2>1 DEF loc
    <3>3. NoRowNoPass'
      BY <1>0, <2>1, ConstAssumption DEF WrapRow, NoRowNoPass, Initialized, Local
    <3>4. Admitted(loc, vault', rec', buf', dek', pending')
      BY <1>0, <2>0, <3>1 DEF Admitted, AdmittedPC, TotpPC
    <3> QED BY <1>b, <2>0, <3>2, <3>3, <3>4, UserStep
  <2> QED BY <1>6, <1>f, <1>g, <2>0, <2>1 DEF RekeyTx
<1>7. CASE RekeySet(r)
    BY <1>7, <1>f, <1>g DEF RekeySet
<1>8. CASE ChangeRead(r)
  <2> DEFINE loc == [req[r] EXCEPT !.pc = "chpass_write", !.epoch = vault.epoch]
  <2>1. loc.pc = "chpass_write" /\ loc.sess = req[r].sess /\ loc.err = req[r].err
    BY <1>0 DEF Local
  <2> HIDE DEF loc
  <2>2. /\ Goto(r, loc) /\ UNCHANGED <<vault, rec, ndek, buf, dek, pending>>
        /\ req[r].pc = "chpass_read"
    BY <1>8 DEF ChangeRead, loc
  <2>3. Admitted(loc, vault', rec', buf', dek', pending')
    BY <1>0, <2>1, <2>2 DEF Admitted, AdmittedPC, TotpPC
  <2> QED BY <1>b, <1>g, <2>2, <2>3, UserStep
<1>9. CASE ChangeWrite(r)
  <2>1. NoRowNoPass'
    BY <1>0, <1>9, ConstAssumption DEF ChangeWrite, WrapRow, NoRowNoPass, Initialized, Local
  <2> QED BY <1>9, <1>f, <2>1 DEF ChangeWrite
<1>10. CASE UnlockTotp(r)
  <2>1. PICK loc \in Local :
          /\ Goto(r, loc) /\ loc.pc = "unlock_new"
          /\ IF loc.err THEN ~loc.pend ELSE loc.pend <=> rec[Totp] # Absent
    BY <1>0, <1>10, LoginRead
  <2>2. UNCHANGED <<vault, rec, ndek, buf, dek, pending>> /\ req[r].pc = "unlock_totp"
    BY <1>10 DEF UnlockTotp
  <2>3. Admitted(loc, vault', rec', buf', dek', pending')
    BY <2>1, <2>2 DEF Admitted, AdmittedPC, TotpPC
  <2> QED BY <1>b, <1>g, <2>1, <2>2, <2>3, UserStep
<1>11. CASE NewSession(r)
    BY <1>11, <1>f, <1>g DEF NewSession, InstallSession
<1>12. CASE TotpVerify(r)
  <2>0. req[r].pc = "totp_verify" /\ UNCHANGED <<vault, rec, ndek, buf, dek, pending>>
    BY <1>12 DEF TotpVerify
  <2>1. CASE rec[Totp] = buf[req[r].alias] /\ Goto(r, [req[r] EXCEPT !.pc = "totp_promote"])
    <3> DEFINE loc == [req[r] EXCEPT !.pc = "totp_promote"]
    <3>1. loc.pc = "totp_promote" /\ loc.sess = req[r].sess /\ loc.err = req[r].err
      BY <1>0 DEF Local
    <3> HIDE DEF loc
    <3>2. Goto(r, loc)
      BY <2>1 DEF loc
    <3>3. Admitted(loc, vault', rec', buf', dek', pending')
      BY <1>0, <2>0, <2>1, <3>1 DEF Admitted, AdmittedPC, TotpPC
    <3> QED BY <1>b, <1>g, <2>0, <3>2, <3>3, UserStep
  <2> QED BY <1>12, <1>f, <1>g, <2>0, <2>1 DEF TotpVerify
<1>13. CASE TotpPromote(r)
    BY <1>13, <1>f, <1>g DEF TotpPromote
<1> QED BY <1>1, <1>2, <1>3, <1>4, <1>5, <1>6, <1>7, <1>8, <1>9, <1>10, <1>11, <1>12, <1>13
        DEF Write, Setup, Rekey, ChangePassphrase, Login

\* At first nobody is in flight and there is no row.
LEMMA UserInit == Init => UserInv
BY IdleAdmitted DEF Init, UserInv, NoRowNoPass, NoVault

\* Every step keeps the handler in flight admitted.
LEMMA UserNext ==
    ASSUME Serial
    PROVE  TypeInv /\ Custody /\ SerialInv /\ UserInv /\ [Next]_vars => UserInv'
<1> SUFFICES ASSUME TypeInv, Custody, SerialInv, UserInv, [Next]_vars PROVE UserInv'
    OBVIOUS
<1>1. ASSUME NEW s \in Sess, Evict(s) PROVE UserInv'
  <2>1. /\ UNCHANGED <<vault, rec, req>> /\ \A t \in Sess : dek'[t] = Nil
        /\ pending' = pending \ {s}
    BY <1>1 DEF Evict, Evicted, Serial, TypeInv, TypeOK
  <2>2. \A r \in Req : Admitted(req[r], vault, rec, buf', dek', pending')
    <3> SUFFICES ASSUME NEW r \in Req PROVE Admitted(req[r], vault, rec, buf', dek', pending')
      OBVIOUS
    <3>1. Admitted(req[r], vault, rec, buf, dek, pending)
      BY DEF UserInv
    <3>2. dek'[req[r].sess] = Nil \/ req[r].sess \notin Sess
      BY <2>1
    <3> QED BY <2>1, <3>1, <3>2 DEF Admitted, AdmittedPC, TotpPC
  <2> QED BY <2>1, <2>2 DEF UserInv, NoRowNoPass, Initialized
<1>2. CASE Restart
  <2>1. UNCHANGED vault /\ \A q \in Req : req'[q] = Idle
    BY <1>2 DEF Restart
  <2> QED BY <2>1, IdleAdmitted DEF UserInv, NoRowNoPass, Initialized
<1>3. CASE UNCHANGED vars
    BY <1>3 DEF vars, UserInv, Admitted, NoRowNoPass, Initialized
<1> QED BY <1>1, <1>2, <1>3, UserArrive, UserHandler DEF Next

\* The columns, the sessions and the requests, as the mapping has them.
Stored == {i \in Rec : Initialized /\ rec[i] = vault.wrapped.dek}
Lost == {i \in Rec : Initialized /\ rec[i] = Zero}
OpenSess == {s \in Sess : dek[s] # Nil /\ s \notin pending}
HalfSess == {s \in Sess : dek[s] # Nil /\ s \in pending}
Busy == \E r \in Req : req[r].pc \in AdmittedPC
Unread == \E r \in Req : req[r].err

\* Whether a request is seen.
LEMMA RequestsUnseen ==
    ASSUME Busy' <=> Busy, Unread' <=> Unread
    PROVE  Busy' = Busy /\ Unread' = Unread
BY DEF Busy, Unread

\* What the user sees when a step leaves all of it alone.
LEMMA UserUnseen ==
    ASSUME vault'.wrapped.kek = vault.wrapped.kek,
           Stored' = Stored, Lost' = Lost, OpenSess' = OpenSess, HalfSess' = HalfSess,
           Busy' <=> Busy, Unread' <=> Unread
    PROVE  UNCHANGED User!vars
<1>1. Busy' = Busy /\ Unread' = Unread
    BY RequestsUnseen
<1> QED BY <1>1 DEF User!vars, Stored, Lost, OpenSess, HalfSess, Busy, Unread

\* The request in flight is the only one the user can see.
LEMMA SeenBefore ==
    ASSUME UserInv, NEW r \in Req, \A q \in Req : q # r => req[q].pc = "idle"
    PROVE  (Busy <=> req[r].pc \in AdmittedPC) /\ (Unread <=> req[r].err)
<1>1. \A q \in Req : q # r => req[q].pc \notin AdmittedPC /\ ~req[q].err
    BY DEF UserInv, Admitted, AdmittedPC
<1> QED BY <1>1 DEF Busy, Unread

LEMMA SeenAfter ==
    ASSUME TypeInv, UserInv, NEW r \in Req, \A q \in Req : q # r => req[q].pc = "idle",
           NEW loc, Goto(r, loc)
    PROVE  (Busy' <=> loc.pc \in AdmittedPC) /\ (Unread' <=> loc.err)
<1>1. /\ req'[r] = loc
      /\ \A q \in Req : q # r => req'[q] = req[q]
    BY ReqAfter
<1>2. \A q \in Req : q # r => req'[q].pc \notin AdmittedPC /\ ~req'[q].err
    BY <1>1 DEF UserInv, Admitted, AdmittedPC
<1> QED BY <1>1, <1>2 DEF Busy, Unread

\* When nobody is in flight the user sees no request.
LEMMA SeenQuiet ==
    ASSUME UserInv, \A q \in Req : req[q].pc = "idle"
    PROVE  ~Busy /\ ~Unread
BY DEF UserInv, Admitted, AdmittedPC, Busy, Unread

\* A request that ends.
LEMMA SeenFinish ==
    ASSUME TypeInv, UserInv, NEW r \in Req, \A q \in Req : q # r => req[q].pc = "idle",
           Finish(r)
    PROVE  ~Busy' /\ ~Unread'
<1>1. Goto(r, Idle)
    BY DEF Finish, Goto
<1> QED BY <1>1, SeenAfter, IdleFields DEF AdmittedPC

\* A step of a handler on its locals and the buffers that leaves it where the user
\* sees it.
LEMMA UserUnseenLocal ==
    ASSUME TypeInv, UserInv, NEW r \in Req, \A q \in Req : q # r => req[q].pc = "idle",
           NEW loc, Goto(r, loc), UNCHANGED <<vault, rec, dek, pending>>,
           loc.pc \in AdmittedPC <=> req[r].pc \in AdmittedPC, loc.err <=> req[r].err
    PROVE  [User!Next]_(User!vars)
<1>1. (Busy' <=> Busy) /\ (Unread' <=> Unread)
    BY SeenBefore, SeenAfter
<1>2. /\ vault'.wrapped.kek = vault.wrapped.kek
      /\ Stored' = Stored /\ Lost' = Lost /\ OpenSess' = OpenSess /\ HalfSess' = HalfSess
    BY DEF Stored, Lost, OpenSess, HalfSess, Initialized
<1> QED BY <1>1, <1>2, UserUnseen

\* The user's steps in the terms above.
LEMMA Seen ==
    /\ User!Answered <=> Busy /\ ~Busy' /\ OpenSess' = OpenSess /\ HalfSess' = HalfSess
                              /\ Unread' = Unread
    /\ User!Admit <=> /\ ~Busy /\ Busy' /\ OpenSess # {}
                      /\ vault'.wrapped.kek = vault.wrapped.kek
                      /\ Stored' = Stored /\ Lost' = Lost
                      /\ OpenSess' = OpenSess /\ HalfSess' = HalfSess /\ Unread' = Unread
BY DEF User!Answered, User!Admit, Stored, Lost, OpenSess, HalfSess, Busy, Unread

\* A request of an open session that is admitted is seen, and so is a delete, which is
\* one statement.
LEMMA ArriveImplements ==
    ASSUME Serial, TypeInv, SerialInv, UserInv, NEW r \in Req, Arrive(r)
    PROVE  [User!Next]_(User!vars)
<1> USE DEF TypeInv, TypeOK
<1>0. ASSUME Ready(r)
      PROVE  \A q \in Req : req[q].pc = "idle"
    BY <1>0 DEF Serial, Ready, Quiet
<1>a. ASSUME NEW s \in Sess, NEW loc, Ready(r), Unlocked(s), Goto(r, loc),
             UNCHANGED <<vault, rec, dek, pending>>, loc.pc \in AdmittedPC, loc.err = FALSE
      PROVE  User!Next
  <2>1. ~Busy /\ ~Unread /\ Busy' /\ ~Unread'
    BY <1>0, <1>a, SeenQuiet, SeenAfter
  <2>2. Unread' = Unread
    BY <2>1 DEF Unread
  <2>3. /\ vault'.wrapped.kek = vault.wrapped.kek /\ s \in OpenSess
        /\ Stored' = Stored /\ Lost' = Lost /\ OpenSess' = OpenSess /\ HalfSess' = HalfSess
    BY <1>a DEF Unlocked, Stored, Lost, OpenSess, HalfSess, Initialized
  <2>4. User!Admit
    BY <2>1, <2>2, <2>3, Seen
  <2> QED BY <2>4 DEF User!Next
<1>u. ASSUME NEW loc, Ready(r), Goto(r, loc), UNCHANGED <<vault, rec, dek, pending>>,
             loc.pc \notin AdmittedPC, loc.err = FALSE
      PROVE  [User!Next]_(User!vars)
  <2>1. req[r].pc \notin AdmittedPC /\ ~req[r].err
    BY <1>0, <1>u DEF AdmittedPC, UserInv, Admitted
  <2> QED BY <1>0, <1>u, <2>1, UserUnseenLocal
<1>1. ASSUME NEW s \in Sess, NEW i \in Rec, DeleteRecord(r, s, i)
      PROVE  User!Next
  <2>1. /\ rec' = [rec EXCEPT ![i] = Absent] /\ UNCHANGED <<vault, dek, pending, req>>
        /\ s \in OpenSess
    BY <1>1 DEF DeleteRecord, Unlocked, OpenSess
  <2>2. vault.wrapped.dek # Absent /\ Zero # Absent
    BY ConstAssumption DEF Wrap, Key, Absent, Zero
  <2>3. Stored' = Stored \ {i} /\ Lost' = Lost \ {i}
    BY <2>1, <2>2 DEF Stored, Lost, Initialized
  <2>4. User!Drop(i)
    BY <2>1, <2>3 DEF User!Drop, Stored, Lost, OpenSess
  <2> QED BY <2>4 DEF User!Next
<1>2. ASSUME NEW s \in Sess, NEW i \in Rec, BeginWrite(r, s, i)
      PROVE  User!Next
  <2> DEFINE loc == [Idle EXCEPT !.pc = "seal", !.sess = s, !.alias = dek[s], !.col = i]
  <2>1. loc.pc \in AdmittedPC /\ loc.err = FALSE
    BY IdleFields DEF Local, AdmittedPC
  <2> HIDE DEF loc
  <2>2. /\ Goto(r, loc) /\ UNCHANGED <<vault, rec, dek, pending>> /\ Ready(r) /\ Unlocked(s)
    BY <1>2 DEF BeginWrite, loc
  <2> QED BY <1>a, <2>1, <2>2
<1>3. ASSUME NEW p \in Pass, BeginSetup(r, p)
      PROVE  [User!Next]_(User!vars)
  <2> DEFINE loc == [Idle EXCEPT !.pc = "setup_data", !.pass = p]
  <2>1. loc.pc \notin AdmittedPC /\ loc.err = FALSE
    BY IdleFields DEF Local, AdmittedPC
  <2> HIDE DEF loc
  <2>2. /\ Goto(r, loc) /\ UNCHANGED <<vault, rec, dek, pending>> /\ Ready(r)
    BY <1>3 DEF BeginSetup, loc
  <2> QED BY <1>u, <2>1, <2>2
<1>4. ASSUME NEW s \in Sess \cup {Nil}, NEW p \in Pass, BeginUnlock(r, s, p)
      PROVE  [User!Next]_(User!vars)
  <2> DEFINE loc == [Idle EXCEPT !.pc = "unlock_totp", !.sess = s, !.own = NewBuf]
  <2>1. loc.pc \notin AdmittedPC /\ loc.err = FALSE
    BY IdleFields DEF Local, AdmittedPC
  <2> HIDE DEF loc
  <2>2. /\ Goto(r, loc) /\ UNCHANGED <<vault, rec, dek, pending>> /\ Ready(r)
    BY <1>4 DEF BeginUnlock, loc
  <2> QED BY <1>u, <2>1, <2>2
<1>5. ASSUME NEW s \in Sess, BeginTotp(r, s)
      PROVE  [User!Next]_(User!vars)
  <2> DEFINE loc == [Idle EXCEPT !.pc = "totp_verify", !.sess = s, !.alias = dek[s]]
  <2>1. loc.pc \notin AdmittedPC /\ loc.err = FALSE
    BY IdleFields DEF Local, AdmittedPC
  <2> HIDE DEF loc
  <2>2. /\ Goto(r, loc) /\ UNCHANGED <<vault, rec, dek, pending>> /\ Ready(r)
    BY <1>5 DEF BeginTotp, loc
  <2> QED BY <1>u, <2>1, <2>2
<1>6. ASSUME NEW s \in Sess, NEW p \in Pass, BeginRekey(r, s, p)
      PROVE  User!Next
  <2> DEFINE loc == [Idle EXCEPT !.pc = "rekey_unlock", !.sess = s, !.alias = dek[s],
                                 !.pass = p, !.epoch = vault.epoch]
  <2>1. loc.pc \in AdmittedPC /\ loc.err = FALSE
    BY IdleFields DEF Local, AdmittedPC
  <2> HIDE DEF loc
  <2>2. /\ Goto(r, loc) /\ UNCHANGED <<vault, rec, dek, pending>> /\ Ready(r) /\ Unlocked(s)
    BY <1>6 DEF BeginRekey, loc
  <2> QED BY <1>a, <2>1, <2>2
<1>7. ASSUME NEW s \in Sess, NEW p \in Pass, NEW np \in Pass,
             BeginChangePassphrase(r, s, p, np)
      PROVE  User!Next
  <2> DEFINE loc == [Idle EXCEPT !.pc = "chpass_read", !.sess = s, !.alias = dek[s],
                                 !.pass = np, !.key = vault.wrapped.dek]
  <2>1. loc.pc \in AdmittedPC /\ loc.err = FALSE
    BY IdleFields DEF Local, AdmittedPC
  <2> HIDE DEF loc
  <2>2. /\ Goto(r, loc) /\ UNCHANGED <<vault, rec, dek, pending>> /\ Ready(r) /\ Unlocked(s)
    BY <1>7 DEF BeginChangePassphrase, loc
  <2> QED BY <1>a, <2>1, <2>2
<1> QED BY <1>1, <1>2, <1>3, <1>4, <1>5, <1>6, <1>7 DEF Arrive

\* A write, a setup, a rotation and a passphrase change: of the statements of each at
\* most one changes what the user sees, and of a rotation none; each is answered once.
LEMMA WriteImplements ==
    ASSUME Serial, TypeInv, Custody, SerialInv, UserInv, NEW r \in Req,
           Write(r) \/ Setup(r) \/ Rekey(r) \/ ChangePassphrase(r)
    PROVE  [User!Next]_(User!vars)
<1> USE DEF TypeInv, TypeOK
<1>0. /\ req[r] \in Local /\ LocOK(req[r]) /\ InFlight(req[r], vault, buf)
      /\ Admitted(req[r], vault, rec, buf, dek, pending)
    BY DEF LocalsOK, SerialInv, UserInv
<1>b. req[r].pc # "idle"
    BY DEF Write, Setup, Rekey, ChangePassphrase, Seal, Store, SetupData, SetupInit,
       RekeyUnlock, RekeyTx, RekeySet, ChangeRead, ChangeWrite
<1>c. \A q \in Req : q # r => req[q].pc = "idle"
    BY <1>b DEF SerialInv, OneBusy
<1>u. ASSUME NEW loc, Goto(r, loc), UNCHANGED <<vault, rec, dek, pending>>,
             loc.pc \in AdmittedPC <=> req[r].pc \in AdmittedPC, loc.err = req[r].err
      PROVE  [User!Next]_(User!vars)
    BY <1>c, <1>u, UserUnseenLocal
<1>a. ASSUME Finish(r), req[r].pc \in AdmittedPC
      PROVE  Busy /\ ~Busy' /\ Unread' = Unread
  <2>1. ~req[r].err
    BY <1>0, <1>a DEF Admitted, AdmittedPC
  <2>2. Busy /\ ~Unread /\ ~Busy' /\ ~Unread'
    BY <1>a, <1>c, <2>1, SeenBefore, SeenFinish
  <2> QED BY <2>2 DEF Unread
<1>n. ASSUME Finish(r), req[r].pc \in AdmittedPC, UNCHANGED <<vault, rec, pending>>,
             OpenSess' = OpenSess, HalfSess' = HalfSess
      PROVE  User!Next
  <2>1. Stored' = Stored /\ Lost' = Lost
    BY <1>n DEF Stored, Lost, Initialized
  <2>2. User!NoChange
    BY <1>a, <1>n, <2>1, Seen DEF User!NoChange, Stored, Lost
  <2> QED BY <2>2 DEF User!Next
<1>m. ASSUME UNCHANGED <<dek, pending>> PROVE OpenSess' = OpenSess /\ HalfSess' = HalfSess
    BY <1>m DEF OpenSess, HalfSess
<1>k. \A k \in Key : k # Absent
    BY ConstAssumption DEF Key, Absent
<1>1. CASE Seal(r)
  <2> DEFINE loc == [req[r] EXCEPT !.pc = "store", !.key = buf[req[r].alias]]
  <2>1. loc.pc \in AdmittedPC /\ req[r].pc \in AdmittedPC /\ loc.err = req[r].err
    BY <1>0, <1>1 DEF Seal, Local, AdmittedPC
  <2> HIDE DEF loc
  <2>2. Goto(r, loc) /\ UNCHANGED <<vault, rec, dek, pending>>
    BY <1>1 DEF Seal, loc
  <2> QED BY <1>u, <2>1, <2>2
<1>2. CASE SetupData(r)
  <2>0. req[r].pc = "setup_data" /\ UNCHANGED <<vault, rec, dek, pending>>
    BY <1>2 DEF SetupData
  <2>1. CASE Goto(r, [req[r] EXCEPT !.pc = "setup_init", !.own = NewBuf])
    <3> DEFINE loc == [req[r] EXCEPT !.pc = "setup_init", !.own = NewBuf]
    <3>1. loc.pc = "setup_init" /\ loc.err = req[r].err
      BY <1>0 DEF Local
    <3> HIDE DEF loc
    <3>2. Goto(r, loc)
      BY <2>1 DEF loc
    <3> QED BY <1>u, <2>0, <3>1, <3>2 DEF AdmittedPC
  <2>2. CASE Finish(r)
    <3>1. Goto(r, Idle) /\ ~req[r].err
      BY <1>0, <2>0, <2>2 DEF Finish, Goto, Admitted
    <3> QED BY <1>0, <1>u, <2>0, <3>1, IdleFields DEF AdmittedPC, Local
  <2> QED BY <1>2, <2>1, <2>2 DEF SetupData
<1>3. CASE Store(r)
  <2>1. /\ rec' = [rec EXCEPT ![req[r].col] = req[r].key] /\ req[r].pc = "store"
        /\ UNCHANGED <<vault, dek, pending>> /\ req[r].col \in Rec /\ Finish(r)
    BY <1>0, <1>3 DEF Store, Local
  <2>2. Initialized /\ req[r].key \in {Zero, vault.wrapped.dek} /\ vault.wrapped.dek # Zero
    BY <1>0, <2>1 DEF InFlight, Initialized, Custody, WrapOpens
  <2>3. User!Answered
    BY <1>a, <1>m, <2>1, Seen DEF AdmittedPC
  <2> PICK i \in Rec : i = req[r].col
    BY <2>1
  <2>4. CASE req[r].key # Zero
    <3>1. Stored' = Stored \cup {i} /\ Lost' = Lost \ {i}
      BY <2>1, <2>2, <2>4 DEF Stored, Lost, Initialized
    <3>2. User!Put(i)
      BY <2>1, <2>3, <3>1 DEF User!Put, Stored, Lost
    <3> QED BY <3>2 DEF User!Next
  <2>5. CASE req[r].key = Zero
    <3>1. Stored' = Stored \ {i} /\ Lost' = Lost \cup {i}
      BY <2>1, <2>2, <2>5 DEF Stored, Lost, Initialized
    <3>2. dek[req[r].sess] = Nil /\ req[r].sess \in Sess
      BY <1>0, <2>1, <2>5 DEF Admitted, AdmittedPC
    <3>3. OpenSess = {}
      BY <3>2 DEF OpenSess, Serial
    <3>4. User!Put(i)
      BY <2>1, <2>3, <3>1, <3>3 DEF User!Put, Stored, Lost, OpenSess
    <3> QED BY <3>4 DEF User!Next
  <2> QED BY <2>4, <2>5
<1>4. CASE SetupInit(r)
  <2>0. /\ req[r].pc = "setup_init" /\ ~req[r].err /\ UNCHANGED <<rec, dek, pending>>
    BY <1>0, <1>4 DEF SetupInit, Admitted
  <2>1. CASE /\ ~Initialized /\ vault' = WrapRow(req[r].pass, 1, buf[req[r].own])
             /\ Goto(r, [req[r] EXCEPT !.pc = "setup_new"])
    <3> DEFINE loc == [req[r] EXCEPT !.pc = "setup_new"]
    <3>a. loc.pc = "setup_new" /\ loc.err = req[r].err
      BY <1>0 DEF Local
    <3> HIDE DEF loc
    <3>b. Goto(r, loc)
      BY <2>1 DEF loc
    <3>c. ~Busy /\ ~Busy' /\ ~Unread /\ ~Unread'
      BY <1>c, <2>0, <3>a, <3>b, SeenBefore, SeenAfter DEF AdmittedPC
    <3>1. /\ vault'.wrapped.kek = req[r].pass /\ vault'.wrapped.dek = buf[req[r].own]
          /\ req[r].pass \in Pass /\ req[r].own \in Buf
      BY <1>0, <2>0, <2>1 DEF WrapRow, LocOK, Local, OwnPC
    <3>2. \A i \in Rec : rec[i] = Absent
      BY <2>1 DEF SerialInv, EmptyBeforeSetup
    <3>3. Stored = {} /\ Stored' = {} /\ Lost = {} /\ Lost' = {}
      BY <1>k, <2>0, <2>1, <3>1, <3>2, ZeroKey DEF Stored, Lost
    <3>4. vault.wrapped.kek = Nil
      BY <2>1 DEF UserInv, NoRowNoPass
    <3>5. Busy' = Busy /\ Unread' = Unread
      BY <3>c, RequestsUnseen
    <3>6. User!Create
      BY <1>m, <2>0, <3>1, <3>3, <3>4, <3>5
      DEF User!Create, Stored, Lost, OpenSess, HalfSess, Busy, Unread
    <3> QED BY <3>6 DEF User!Next
  <2>2. CASE Finish(r) /\ UNCHANGED vault
    <3>1. Goto(r, Idle)
      BY <2>2 DEF Finish, Goto
    <3> QED BY <1>0, <1>u, <2>0, <2>2, <3>1, IdleFields DEF AdmittedPC, Local
  <2> QED BY <1>4, <2>1, <2>2 DEF SetupInit
<1>5. CASE RekeyUnlock(r)
  <2>0. req[r].pc = "rekey_unlock" /\ UNCHANGED <<vault, rec, dek, pending>>
    BY <1>5 DEF RekeyUnlock
  <2>1. CASE Goto(r, [req[r] EXCEPT !.pc = "rekey_tx", !.own = NewBuf, !.key = vault.wrapped.dek])
    <3> DEFINE loc == [req[r] EXCEPT !.pc = "rekey_tx", !.own = NewBuf, !.key = vault.wrapped.dek]
    <3>1. loc.pc = "rekey_tx" /\ loc.err = req[r].err
      BY <1>0 DEF Local
    <3> HIDE DEF loc
    <3>2. Goto(r, loc)
      BY <2>1 DEF loc
    <3> QED BY <1>u, <2>0, <3>1, <3>2 DEF AdmittedPC
  <2>2. CASE Finish(r)
    BY <1>m, <1>n, <2>0, <2>2 DEF AdmittedPC
  <2> QED BY <1>5, <2>1, <2>2 DEF RekeyUnlock
<1>6. CASE RekeyTx(r)
  <2>0. req[r].pc = "rekey_tx" /\ UNCHANGED <<dek, pending>>
    BY <1>6 DEF RekeyTx
  <2>1. CASE /\ \A i \in Rec : rec[i] \in {Absent, req[r].key}
             /\ rec' = Resealed(buf[req[r].own])
             /\ vault' = WrapRow(req[r].pass, req[r].epoch + 1, buf[req[r].own])
             /\ Goto(r, [req[r] EXCEPT !.pc = "rekey_set", !.key = 0])
    <3> DEFINE loc == [req[r] EXCEPT !.pc = "rekey_set", !.key = 0]
    <3>a. loc.pc = "rekey_set" /\ loc.err = req[r].err
      BY <1>0 DEF Local
    <3> HIDE DEF loc
    <3>b. Goto(r, loc)
      BY <2>1 DEF loc
    <3>c. (Busy' <=> Busy) /\ (Unread' <=> Unread)
      BY <1>c, <2>0, <3>a, <3>b, SeenBefore, SeenAfter DEF AdmittedPC
    <3>1. /\ vault'.wrapped.kek = vault.wrapped.kek /\ vault'.wrapped.dek = buf[req[r].own]
          /\ vault'.epoch = req[r].epoch + 1 /\ req[r].epoch = vault.epoch
          /\ req[r].own \in Buf /\ Initialized /\ req[r].key = vault.wrapped.dek
      BY <1>0, <2>0, <2>1 DEF InFlight, WrapRow, LocOK, Local, OwnPC, Initialized
    <3>2. Initialized'
      BY <3>1, ConstAssumption DEF Initialized
    <3>3. \A i \in Rec : rec[i] \in {Absent, vault.wrapped.dek}
      BY <2>1, <3>1
    <3>4. \A i \in Rec : rec'[i] = IF rec[i] = Absent THEN Absent ELSE buf[req[r].own]
      BY <2>1 DEF Resealed
    <3>5. /\ vault.wrapped.dek # Absent /\ buf[req[r].own] # Absent /\ Zero # Absent
          /\ vault.wrapped.dek # Zero /\ buf[req[r].own] # Zero
      <4>1. vault.wrapped.dek # Zero /\ buf[req[r].own] # Zero
        BY <1>0, <2>0, <3>1 DEF Custody, WrapOpens, OwnPrivate, LocOK, OwnPC
      <4> QED BY <1>k, <3>1, <4>1, ZeroKey DEF Wrap
    <3>6. \A i \in Rec : /\ rec'[i] = vault'.wrapped.dek <=> rec[i] = vault.wrapped.dek
                         /\ rec'[i] # Zero /\ rec[i] # Zero
      BY <3>1, <3>3, <3>4, <3>5
    <3>7. Stored' = Stored /\ Lost' = Lost
      BY <3>1, <3>2, <3>6 DEF Stored, Lost
    <3> QED BY <1>m, <2>0, <3>1, <3>7, <3>c, UserUnseen
  <2>2. CASE Finish(r) /\ UNCHANGED <<vault, rec>>
    BY <1>m, <1>n, <2>0, <2>2 DEF AdmittedPC
  <2> QED BY <1>6, <2>1, <2>2 DEF RekeyTx
<1>7. CASE RekeySet(r)
  <2>1. /\ UNCHANGED <<vault, rec, pending>> /\ req[r].sess \in Sess /\ req[r].own # Nil
        /\ \/ dek[req[r].sess] # Nil /\ dek' = [dek EXCEPT ![req[r].sess] = req[r].own]
           \/ UNCHANGED dek
        /\ req[r].pc = "rekey_set" /\ Finish(r)
    BY <1>0, <1>7 DEF RekeySet, LocOK, Local, OwnPC
  <2>2. \A s \in Sess : dek'[s] # Nil <=> dek[s] # Nil
    BY <2>1
  <2>3. OpenSess' = OpenSess /\ HalfSess' = HalfSess
    BY <2>1, <2>2 DEF OpenSess, HalfSess
  <2> QED BY <1>n, <2>1, <2>3 DEF AdmittedPC
<1>8. CASE ChangeRead(r)
  <2> DEFINE loc == [req[r] EXCEPT !.pc = "chpass_write", !.epoch = vault.epoch]
  <2>1. loc.pc \in AdmittedPC /\ req[r].pc \in AdmittedPC /\ loc.err = req[r].err
    BY <1>0, <1>8 DEF ChangeRead, Local, AdmittedPC
  <2> HIDE DEF loc
  <2>2. Goto(r, loc) /\ UNCHANGED <<vault, rec, dek, pending>>
    BY <1>8 DEF ChangeRead, loc
  <2> QED BY <1>u, <2>1, <2>2
<1>9. CASE ChangeWrite(r)
  <2>1. /\ vault'.wrapped.kek = req[r].pass /\ vault'.wrapped.dek = vault.wrapped.dek
        /\ vault'.epoch = vault.epoch + 1 /\ vault.epoch > 0 /\ req[r].pass \in Pass
        /\ UNCHANGED <<rec, dek, pending>> /\ req[r].pc = "chpass_write" /\ Finish(r)
    BY <1>0, <1>9 DEF ChangeWrite, InFlight, WrapRow, LocOK, Local
  <2>2. Stored' = Stored /\ Lost' = Lost
    BY <2>1 DEF Stored, Lost, Initialized
  <2>3. User!Answered
    BY <1>a, <1>m, <2>1, Seen DEF AdmittedPC
  <2>4. User!Change
    BY <2>1, <2>2, <2>3 DEF User!Change, Stored, Lost
  <2> QED BY <2>4 DEF User!Next
<1> QED BY <1>1, <1>2, <1>3, <1>4, <1>5, <1>6, <1>7, <1>8, <1>9 DEF Write, Setup, Rekey, ChangePassphrase

\* A login ends in one step: the old entry goes, the new one is there, half open
\* while TOTP is on and the read of it did not fail.
LEMMA LoginImplements ==
    ASSUME Serial, TypeInv, Custody, SerialInv, UserInv, NEW r \in Req, Login(r)
    PROVE  [User!Next]_(User!vars)
<1> USE DEF TypeInv, TypeOK
<1>0. /\ req[r] \in Local /\ LocOK(req[r]) /\ InFlight(req[r], vault, buf)
      /\ Admitted(req[r], vault, rec, buf, dek, pending)
    BY DEF LocalsOK, SerialInv, UserInv
<1>b. req[r].pc \in {"setup_new", "unlock_totp", "unlock_new", "totp_verify", "totp_promote"}
    BY DEF Login, UnlockTotp, NewSession, TotpVerify, TotpPromote
<1>c. \A q \in Req : q # r => req[q].pc = "idle"
    BY <1>b DEF SerialInv, OneBusy
<1>d. ~Busy /\ (Unread <=> req[r].err)
    BY <1>b, <1>c, SeenBefore DEF AdmittedPC
<1>n. req[r].pc # "unlock_new" => ~req[r].err
    BY <1>0 DEF Admitted
<1>f. ASSUME Finish(r), UNCHANGED <<vault, rec, dek, pending>>, req[r].pc # "unlock_new"
      PROVE  [User!Next]_(User!vars)
  <2>1. Goto(r, Idle)
    BY <1>f DEF Finish, Goto
  <2>2. req[r].pc \notin AdmittedPC /\ Idle.pc \notin AdmittedPC /\ (Idle.err <=> req[r].err)
    BY <1>b, <1>f, <1>n, IdleFields DEF AdmittedPC
  <2> QED BY <1>c, <1>f, <2>1, <2>2, UserUnseenLocal
<1>1. CASE UnlockTotp(r)
  <2>1. PICK loc \in Local :
           /\ Goto(r, loc) /\ loc.pc = "unlock_new"
           /\ IF loc.err THEN ~loc.pend ELSE loc.pend <=> rec[Totp] # Absent
    BY <1>0, <1>1, LoginRead
  <2>2. req[r].pc = "unlock_totp" /\ UNCHANGED <<vault, rec, dek, pending>>
    BY <1>1 DEF UnlockTotp
  <2>3. CASE loc.err
    <3>1. ~Busy' /\ Unread' /\ ~Unread
      BY <1>c, <1>d, <1>n, <2>1, <2>2, <2>3, SeenAfter DEF AdmittedPC
    <3>2. Busy' = Busy
      BY <1>d, <3>1 DEF Busy
    <3>3. User!FailedRead
      BY <2>2, <3>1, <3>2 DEF User!FailedRead, Busy, Unread, Initialized
    <3> QED BY <3>3 DEF User!Next
  <2>4. CASE ~loc.err
    <3>1. loc.pc \notin AdmittedPC /\ req[r].pc \notin AdmittedPC /\ (loc.err <=> req[r].err)
      BY <1>n, <2>1, <2>2, <2>4 DEF AdmittedPC
    <3> QED BY <1>c, <2>1, <2>2, <3>1, UserUnseenLocal
  <2> QED BY <2>3, <2>4
<1>2. CASE NewSession(r)
  <2>1. PICK n \in Sess : InstallSession(r, n)
    BY <1>2 DEF NewSession
  <2> PICK old \in Sess \cup {Nil} : old = req[r].sess
    BY <1>0 DEF Local
  <2> DEFINE gone == IF old = Nil THEN {} ELSE {old}
  <2>2. /\ req[r].pc \in {"setup_new", "unlock_new"} /\ UNCHANGED <<vault, rec>>
        /\ req[r].own # Nil /\ Finish(r)
    BY <1>0, <1>2, <2>1 DEF NewSession, InstallSession, LocOK, Local, OwnPC
  <2>3. /\ \A t \in Sess : dek'[t] = IF t = n THEN req[r].own ELSE IF t \in gone THEN Nil ELSE dek[t]
        /\ pending' = (pending \ (gone \cup {n})) \cup (IF req[r].pend THEN {n} ELSE {})
    BY <2>1 DEF InstallSession
  <2>4. Initialized
    BY <1>0, <2>2 DEF InFlight, Initialized
  <2>5. vault.wrapped.kek # Nil
    BY <2>4, ConstAssumption DEF Custody, WrapOpens
  <2>6. req[r].pend <=> rec[Totp] # Absent /\ ~Unread
    BY <1>0, <1>d, <2>2 DEF Admitted
  <2>7. rec[Totp] # Absent <=> Totp \in Stored \cup Lost
    <3>1. rec[Totp] \in {Absent, Zero, vault.wrapped.dek}
      BY <2>4, ConstAssumption DEF SerialInv, NoRecordUnderRetiredKey
    <3>2. vault.wrapped.dek # Absent /\ Zero # Absent
      BY ConstAssumption DEF Wrap, Key, Absent, Zero
    <3> QED BY <2>4, <3>1, <3>2, ConstAssumption DEF Stored, Lost
  <2>8. \A t \in Sess : t \in gone <=> t = old
    BY ConstAssumption
  <2>s. Stored' = Stored /\ Lost' = Lost /\ vault'.wrapped.kek = vault.wrapped.kek
    BY <2>2 DEF Stored, Lost, Initialized
  <2>r. ~Unread' /\ Busy' = Busy
    <3>1. ~Busy' /\ ~Unread'
      BY <1>c, <2>2, SeenFinish
    <3> QED BY <1>d, <3>1 DEF Busy
  <2>9. CASE req[r].pend
    <3>1. OpenSess' = OpenSess \ {n, old} /\ HalfSess' = (HalfSess \ {old}) \cup {n}
      BY <2>2, <2>3, <2>8, <2>9 DEF OpenSess, HalfSess
    <3>2. User!Login(n, old)
      BY <2>5, <2>6, <2>7, <2>9, <2>s, <2>r, <3>1
      DEF User!Login, User!TotpOn, Stored, Lost, OpenSess, HalfSess, Busy, Unread
    <3> QED BY <3>2 DEF User!Next
  <2>10. CASE ~req[r].pend
    <3>1. OpenSess' = (OpenSess \ {old}) \cup {n} /\ HalfSess' = HalfSess \ {n, old}
      BY <2>2, <2>3, <2>8, <2>10 DEF OpenSess, HalfSess
    <3>2. User!Login(n, old)
      BY <2>5, <2>6, <2>7, <2>10, <2>s, <2>r, <3>1
      DEF User!Login, User!TotpOn, Stored, Lost, OpenSess, HalfSess, Busy, Unread
    <3> QED BY <3>2 DEF User!Next
  <2> QED BY <2>9, <2>10
<1>3. CASE TotpVerify(r)
  <2>1. req[r].pc = "totp_verify" /\ UNCHANGED <<vault, rec, dek, pending>>
    BY <1>3 DEF TotpVerify
  <2>2. CASE Goto(r, [req[r] EXCEPT !.pc = "totp_promote"])
    <3> DEFINE loc == [req[r] EXCEPT !.pc = "totp_promote"]
    <3>1. loc.pc = "totp_promote" /\ loc.err = req[r].err
      BY <1>0 DEF Local
    <3> HIDE DEF loc
    <3>2. Goto(r, loc)
      BY <2>2 DEF loc
    <3>3. loc.pc \notin AdmittedPC /\ req[r].pc \notin AdmittedPC /\ (loc.err <=> req[r].err)
      BY <2>1, <3>1 DEF AdmittedPC
    <3> QED BY <1>c, <2>1, <3>2, <3>3, UserUnseenLocal
  <2>3. CASE Finish(r)
    BY <1>f, <2>1, <2>3
  <2> QED BY <1>3, <2>2, <2>3 DEF TotpVerify
<1>4. CASE TotpPromote(r)
  <2>0. req[r].pc = "totp_promote" /\ req[r].sess \in Sess
    BY <1>0, <1>4 DEF TotpPromote, Admitted, TotpPC
  <2> PICK s \in Sess : s = req[r].sess
    BY <2>0
  <2>1. /\ req[r].pc = "totp_promote" /\ UNCHANGED <<vault, rec, dek>> /\ Finish(r)
        /\ pending' = IF dek[s] # Nil THEN pending \ {s} ELSE pending
    BY <1>4 DEF TotpPromote
  <2>2. CASE dek[s] = Nil
    BY <1>f, <2>1, <2>2
  <2>3. CASE dek[s] # Nil
    <3>1. s \in pending /\ Initialized /\ rec[Totp] = vault.wrapped.dek
      BY <1>0, <2>1, <2>3 DEF Admitted, TotpPC, Initialized
    <3>2. s \in HalfSess /\ Totp \in Stored
      BY <2>3, <3>1, ConstAssumption DEF HalfSess, Stored
    <3>3. OpenSess' = OpenSess \cup {s} /\ HalfSess' = HalfSess \ {s}
      BY <2>1, <2>3, <3>1 DEF OpenSess, HalfSess
    <3>4. Stored' = Stored /\ Lost' = Lost /\ vault'.wrapped.kek = vault.wrapped.kek
      BY <2>1 DEF Stored, Lost, Initialized
    <3>5. Busy' = Busy /\ Unread' = Unread
      <4>1. ~Busy' /\ ~Unread' /\ ~Unread
        BY <1>c, <1>d, <1>n, <2>1, SeenFinish
      <4> QED BY <1>d, <4>1, RequestsUnseen
    <3>6. User!Confirm(s)
      BY <3>2, <3>3, <3>4, <3>5
      DEF User!Confirm, Stored, Lost, OpenSess, HalfSess, Busy, Unread
    <3> QED BY <3>6 DEF User!Next
  <2> QED BY <2>2, <2>3
<1> QED BY <1>1, <1>2, <1>3, <1>4 DEF Login

\* With one browser whose requests do not overlap, the handlers of KeyCustody, with a
\* crash or an expiry between any two of their steps, implement UserVault: what was
\* stored is read back until it is deleted, unless the session ended while it was
\* being written; a rotation is not seen; a session opens by the passphrase and, while
\* TOTP is on, the code, unless the login failed to read that it is on.
THEOREM SerialServesUser ==
    ASSUME Serial
    PROVE  Spec => ServesUser
<1> DEFINE IInv == TypeInv /\ Custody /\ SerialInv /\ UserInv
<1>1. Init => IInv
    BY TypeInvInit, CustodyInit, SerialInit, UserInit
<1>2. IInv /\ [Next]_vars => IInv'
    BY TypeInvNext, CustodyNext, SerialNext, UserNext
<1>3. Init => User!Init
    BY IdleFields DEF Init, User!Init, NoVault, Initialized, AdmittedPC
<1>4. IInv /\ [Next]_vars => [User!Next]_(User!vars)
  <2> SUFFICES ASSUME IInv, [Next]_vars PROVE [User!Next]_(User!vars)
    OBVIOUS
  <2>1. ASSUME NEW s \in Sess, Evict(s) PROVE User!Next
    <3>1. /\ UNCHANGED <<vault, rec, req>> /\ dek' = [dek EXCEPT ![s] = Nil]
          /\ pending' = pending \ {s}
      BY <2>1 DEF Evict, Evicted
    <3>2. OpenSess' = OpenSess \ {s} /\ HalfSess' = HalfSess \ {s}
      BY <3>1 DEF OpenSess, HalfSess, TypeInv, TypeOK
    <3>3. Busy' = Busy /\ Unread' = Unread
      BY <3>1 DEF Busy, Unread
    <3>4. User!Lock(s)
      BY <3>1, <3>2, <3>3 DEF User!Lock, OpenSess, HalfSess, Busy, Unread, Initialized
    <3> QED BY <3>4 DEF User!Next
  <2>2. ASSUME Restart PROVE User!Next
    <3>1. \A q \in Req : req'[q] = Idle
      BY <2>2 DEF Restart
    <3>2. ~Busy' /\ ~Unread'
      BY <3>1, IdleFields DEF Busy, Unread, AdmittedPC
    <3>3. User!Restart
      BY <2>2, <3>2 DEF Restart, User!Restart, Busy, Unread, Initialized
    <3> QED BY <3>3 DEF User!Next
  <2>3. ASSUME UNCHANGED vars PROVE UNCHANGED User!vars
    BY <2>3 DEF vars, User!vars, Initialized
  <2> QED BY <2>1, <2>2, <2>3, ArriveImplements, WriteImplements, LoginImplements DEF Next
<1> QED BY <1>1, <1>2, <1>3, <1>4, PTL DEF Spec, ServesUser, User!Spec

---------------------------------------------------------------------------
(* Where keys are                                                          *)

\* A step of r that drops no buffer.
LEMMA KeysKept ==
    ASSUME TypeInv, NEW r \in Req, NEW loc, Goto(r, loc), UNCHANGED dek,
           req[r].own \in {Nil, loc.own}
    PROVE  LeftZeroed
<1>1. /\ req'[r] = loc
      /\ \A q \in Req : q # r => req'[q] = req[q]
    BY ReqAfter
<1>2. ASSUME NEW b \in Buf, InCustody(b) PROVE InCustody(b)'
  <2>1. CASE \E s \in Sess : dek[s] = b
    BY <2>1 DEF InCustody
  <2>2. CASE \E q \in Req : req[q].own = b
    BY <1>1, <2>2, ConstAssumption DEF InCustody
  <2> QED BY <1>2, <2>1, <2>2 DEF InCustody
<1> QED BY <1>2 DEF LeftZeroed

\* A step of r that ends it: its buffer is zeroed or given to a session, or it is a
\* rotation without one; a buffer that a session gives up is zeroed.
LEMMA KeysGiven ==
    ASSUME TypeInv, NEW r \in Req, Finish(r),
           \A s \in Sess : dek'[s] = dek[s] \/ dek[s] = Nil \/ buf'[dek[s]] = Zero,
           \/ req[r].own = Nil \/ buf'[req[r].own] = Zero
           \/ \E s \in Sess : dek'[s] = req[r].own
           \/ req[r].pc = "rekey_set" /\ dek[req[r].sess] = Nil
    PROVE  LeftZeroed
<1>1. /\ req'[r] = Idle
      /\ \A q \in Req : q # r => req'[q] = req[q]
    BY ReqAfter DEF Finish, Goto
<1>2. ASSUME NEW b \in Buf, InCustody(b), ~InCustody(b)', buf'[b] # Zero
      PROVE  req[r].pc = "rekey_set" /\ req[r].own = b /\ dek[req[r].sess] = Nil
  <2>1. ~\E s \in Sess : dek[s] = b
    BY <1>2, ConstAssumption DEF InCustody
  <2>2. req[r].own = b
    BY <1>1, <1>2, <2>1 DEF InCustody
  <2> QED BY <1>2, <2>2, ConstAssumption DEF InCustody
<1> QED BY <1>2 DEF LeftZeroed

\* A request that arrives owned no buffer.
LEMMA KeysArrive ==
    ASSUME TypeInv, NEW r \in Req, Arrive(r)
    PROVE  LeftZeroed
<1>1. ASSUME NEW loc, Goto(r, loc), UNCHANGED dek, Ready(r) PROVE LeftZeroed
  <2>1. req[r].own = Nil
    BY <1>1 DEF Ready, TypeInv, LocalsOK, LocOK, OwnPC
  <2> QED BY <1>1, <2>1, KeysKept
<1>2. ASSUME NEW s \in Sess, NEW i \in Rec, DeleteRecord(r, s, i) PROVE LeftZeroed
    BY <1>2 DEF DeleteRecord, LeftZeroed, InCustody
<1> QED BY <1>1, <1>2 DEF Arrive, BeginWrite, BeginSetup, BeginUnlock, BeginTotp, BeginRekey,
           BeginChangePassphrase

\* A handler that ends has zeroed its buffer or given it to its session.
LEMMA KeysHandler ==
    ASSUME TypeInv, NEW r \in Req,
           Write(r) \/ Setup(r) \/ Rekey(r) \/ ChangePassphrase(r) \/ Login(r)
    PROVE  LeftZeroed
<1> USE DEF TypeInv, TypeOK
<1>0. req[r] \in Local /\ LocOK(req[r])
    BY DEF LocalsOK
<1>k. ASSUME NEW loc, Goto(r, loc), UNCHANGED dek, req[r].own = Nil \/ loc.own = req[r].own
      PROVE  LeftZeroed
    BY <1>k, KeysKept
<1>1. CASE Seal(r)
    BY <1>0, <1>1, <1>k DEF Seal, Local
<1>2. CASE Store(r) \/ ChangeWrite(r) \/ TotpPromote(r)
  <2>1. UNCHANGED dek /\ Finish(r) /\ req[r].own = Nil
    BY <1>0, <1>2 DEF Store, ChangeWrite, TotpPromote, LocOK, OwnPC
  <2> QED BY <2>1, KeysGiven
<1>3. CASE SetupData(r) \/ RekeyUnlock(r)
  <2>1. req[r].own = Nil /\ UNCHANGED dek
    BY <1>0, <1>3 DEF SetupData, RekeyUnlock, LocOK, OwnPC
  <2>2. \E loc : Goto(r, loc)
    BY <1>3 DEF SetupData, RekeyUnlock, Finish, Goto
  <2> QED BY <1>k, <2>1, <2>2
<1>4. CASE SetupInit(r)
  <2>0. req[r].own \in Buf /\ UNCHANGED dek
    BY <1>0, <1>4 DEF SetupInit, LocOK, OwnPC, Local
  <2>1. CASE Goto(r, [req[r] EXCEPT !.pc = "setup_new"])
    BY <1>0, <1>k, <2>0, <2>1 DEF Local
  <2>2. CASE buf' = [buf EXCEPT ![req[r].own] = Zero] /\ Finish(r)
    BY <2>0, <2>2, KeysGiven
  <2> QED BY <1>4, <2>1, <2>2 DEF SetupInit
<1>5. CASE RekeyTx(r)
  <2>0. req[r].own \in Buf /\ UNCHANGED dek
    BY <1>0, <1>5 DEF RekeyTx, LocOK, OwnPC, Local
  <2>1. CASE Goto(r, [req[r] EXCEPT !.pc = "rekey_set", !.key = 0])
    BY <1>0, <1>k, <2>0, <2>1 DEF Local
  <2>2. CASE buf' = [buf EXCEPT ![req[r].own] = Zero] /\ Finish(r)
    BY <2>0, <2>2, KeysGiven
  <2> QED BY <1>5, <2>1, <2>2 DEF RekeyTx
<1>6. CASE RekeySet(r)
  <2>0. req[r].sess \in Sess /\ Finish(r) /\ req[r].pc = "rekey_set"
    BY <1>0, <1>6 DEF RekeySet, LocOK, Local
  <2>1. CASE dek[req[r].sess] = Nil
    <3>1. UNCHANGED dek
      BY <1>6, <2>1 DEF RekeySet
    <3> QED BY <2>0, <2>1, <3>1, KeysGiven
  <2>2. CASE dek[req[r].sess] # Nil
    <3>1. /\ buf' = ScrubbedBuf(req[r].sess)
          /\ dek' = [dek EXCEPT ![req[r].sess] = req[r].own]
      BY <1>6, <2>2 DEF RekeySet
    <3>2. buf'[dek[req[r].sess]] = Zero /\ dek'[req[r].sess] = req[r].own
      BY <2>0, <2>2, <3>1 DEF ScrubbedBuf
    <3>3. \A s \in Sess : dek'[s] = dek[s] \/ buf'[dek[s]] = Zero
      BY <2>0, <3>1, <3>2
    <3> QED BY <2>0, <3>2, <3>3, KeysGiven
  <2> QED BY <2>1, <2>2
<1>7. CASE ChangeRead(r)
    BY <1>0, <1>7, <1>k DEF ChangeRead, Local
<1>8. CASE UnlockTotp(r)
    BY <1>0, <1>8, <1>k DEF UnlockTotp, Local
<1>9. CASE NewSession(r)
  <2>1. PICK n \in Sess : InstallSession(r, n)
    BY <1>9 DEF NewSession
  <2> DEFINE gone == IF req[r].sess = Nil THEN {} ELSE {req[r].sess}
  <2>2. /\ Finish(r)
        /\ buf' = [b \in Buf |-> IF \E t \in gone : b = dek[t] THEN Zero ELSE buf[b]]
        /\ \A t \in Sess : dek'[t] = IF t = n THEN req[r].own ELSE IF t \in gone THEN Nil ELSE dek[t]
        /\ dek[n] = Nil \/ n \in gone
    BY <2>1 DEF InstallSession, FreeSess
  <2>3. \A s \in Sess : dek'[s] = dek[s] \/ dek[s] = Nil \/ buf'[dek[s]] = Zero
    <3> SUFFICES ASSUME NEW s \in Sess, dek'[s] # dek[s], dek[s] # Nil PROVE buf'[dek[s]] = Zero
      OBVIOUS
    <3>1. s \in gone /\ dek[s] \in Buf
      BY <2>2
    <3> QED BY <2>2, <3>1
  <2>4. dek'[n] = req[r].own
    BY <2>2
  <2> QED BY <2>2, <2>3, <2>4, KeysGiven
<1>10. CASE TotpVerify(r)
  <2>1. req[r].own = Nil /\ UNCHANGED dek
    BY <1>0, <1>10 DEF TotpVerify, LocOK, OwnPC
  <2>2. \E loc : Goto(r, loc)
    BY <1>10 DEF TotpVerify, Finish, Goto
  <2> QED BY <1>k, <2>1, <2>2
<1> QED BY <1>1, <1>2, <1>3, <1>4, <1>5, <1>6, <1>7, <1>8, <1>9, <1>10
        DEF Write, Setup, Rekey, ChangePassphrase, Login

\* For any interleaving of handlers, logins, locks, expiries and crashes, whatever a
\* session or a handler leaves behind of a key has been zeroed; the one exception is
\* named, the new key of a rotation whose session ended before SetDEK.
THEOREM KeysLeaveOnlyZeroed == Spec => KeysLeaveZeroed
<1>1. TypeInv /\ [Next]_vars => LeftZeroed
  <2> SUFFICES ASSUME TypeInv, [Next]_vars PROVE LeftZeroed
    OBVIOUS
  <2>1. ASSUME NEW s \in Sess, Evict(s) PROVE LeftZeroed
    <3>1. /\ \A b \in Buf : buf'[b] = IF b = dek[s] THEN Zero ELSE buf[b]
          /\ \A t \in Sess : dek'[t] = IF t = s THEN Nil ELSE dek[t]
          /\ UNCHANGED req
      BY <2>1 DEF Evict, Evicted, ScrubbedBuf, TypeInv, TypeOK
    <3> QED BY <3>1 DEF LeftZeroed, InCustody
  <2>2. CASE Restart
    BY <2>2 DEF Restart, LeftZeroed
  <2>3. CASE UNCHANGED vars
    BY <2>3 DEF vars, LeftZeroed, InCustody
  <2> QED BY <2>1, <2>2, <2>3, KeysArrive, KeysHandler DEF Next
<1> QED BY <1>1, TypeInvInit, TypeInvNext, PTL DEF Spec, KeysLeaveZeroed

---------------------------------------------------------------------------
(* Concurrent setups                                                       *)

\* What a setup and the writers of a later row know of the row: a rotation or a
\* passphrase change that gets as far as an epoch has one to count from.
First(l, v, b) ==
    /\ l.pc = "setup_new" => v.epoch > 0 /\ (v.epoch = 1 => b[l.own] = v.wrapped.dek)
    /\ l.pc \in {"rekey_unlock", "rekey_tx", "chpass_write"} => l.epoch > 0
    /\ l.pc = "chpass_read" => v.epoch > 0

FirstInv == \A r \in Req : First(req[r], vault, buf)

\* A step of r: the row is the one it was, or a later one than the first, or was not
\* there; the buffers of the other handlers are as they were.
LEMMA FirstStep ==
    ASSUME TypeInv, FirstInv, NEW r \in Req, NEW loc, Goto(r, loc), First(loc, vault', buf'),
           vault'.epoch \in Nat,
           \/ vault' = vault \/ vault'.epoch > 1
           \/ ~Initialized /\ vault'.epoch = 1,
           \A q \in Req : q # r /\ req[q].own # Nil => buf'[req[q].own] = buf[req[q].own]
    PROVE  FirstInv'
<1>1. /\ req'[r] = loc
      /\ \A q \in Req : q # r => req'[q] = req[q]
    BY ReqAfter
<1>2. ASSUME NEW q \in Req, q # r PROVE First(req[q], vault', buf')
  <2>1. First(req[q], vault, buf) /\ req[q] \in Local /\ LocOK(req[q]) /\ vault.epoch \in Nat
    BY ConstAssumption DEF FirstInv, TypeInv, TypeOK, LocalsOK
  <2>2. req[q].pc = "setup_new" => buf'[req[q].own] = buf[req[q].own]
    BY <1>2, <2>1 DEF LocOK, OwnPC
  <2> QED BY <2>1, <2>2 DEF First, Initialized
<1> QED BY <1>1, <1>2 DEF FirstInv

\* A step that fills no buffer and leaves the row alone.
LEMMA FirstLocal ==
    ASSUME TypeInv, FirstInv, NEW r \in Req, NEW loc, Goto(r, loc), UNCHANGED vault,
           \A q \in Req : q # r /\ req[q].own # Nil => buf'[req[q].own] = buf[req[q].own],
           loc.pc # "setup_new",
           loc.pc \in {"rekey_unlock", "rekey_tx", "chpass_write"} => loc.epoch > 0,
           loc.pc = "chpass_read" => Initialized
    PROVE  FirstInv'
<1>1. First(loc, vault', buf') /\ vault'.epoch \in Nat
    BY ConstAssumption DEF First, Initialized, TypeInv, TypeOK
<1> QED BY <1>1, FirstStep

\* A request that arrives.
LEMMA FirstArrive ==
    ASSUME TypeInv, Custody, FirstInv, NEW r \in Req, Arrive(r)
    PROVE  FirstInv'
<1>k. ASSUME UNCHANGED buf
      PROVE  \A q \in Req : q # r /\ req[q].own # Nil => buf'[req[q].own] = buf[req[q].own]
    BY <1>k
<1>1. ASSUME NEW s \in Sess, NEW i \in Rec, BeginWrite(r, s, i) PROVE FirstInv'
    BY <1>1, <1>k, FirstLocal, IdleFields DEF BeginWrite, Local
<1>2. ASSUME NEW s \in Sess, NEW i \in Rec, DeleteRecord(r, s, i) PROVE FirstInv'
    BY <1>2 DEF DeleteRecord, FirstInv, First
<1>3. ASSUME NEW p \in Pass, BeginSetup(r, p) PROVE FirstInv'
    BY <1>3, <1>k, FirstLocal, IdleFields DEF BeginSetup, Local
<1>4. ASSUME NEW s \in Sess \cup {Nil}, NEW p \in Pass, BeginUnlock(r, s, p)
      PROVE  FirstInv'
  <2> DEFINE loc == [Idle EXCEPT !.pc = "unlock_totp", !.sess = s, !.own = NewBuf]
  <2>1. loc.pc = "unlock_totp"
    BY IdleFields DEF Local
  <2> HIDE DEF loc
  <2>2. /\ Goto(r, loc) /\ UNCHANGED vault /\ Unused # {}
        /\ buf' = [buf EXCEPT ![NewBuf] = vault.wrapped.dek]
    BY <1>4 DEF BeginUnlock, loc
  <2>3. \A q \in Req : q # r /\ req[q].own # Nil => buf'[req[q].own] = buf[req[q].own]
    BY <2>2, NewBufUnused DEF Held, TypeInv, TypeOK, Local
  <2> QED BY <2>1, <2>2, <2>3, FirstLocal
<1>5. ASSUME NEW s \in Sess, BeginTotp(r, s) PROVE FirstInv'
    BY <1>5, <1>k, FirstLocal, IdleFields DEF BeginTotp, Local
<1>6. ASSUME NEW s \in Sess, NEW p \in Pass, BeginRekey(r, s, p) PROVE FirstInv'
  <2> DEFINE loc == [Idle EXCEPT !.pc = "rekey_unlock", !.sess = s, !.alias = dek[s],
                                 !.pass = p, !.epoch = vault.epoch]
  <2>1. loc.pc = "rekey_unlock" /\ loc.epoch = vault.epoch
    BY IdleFields DEF Local
  <2> HIDE DEF loc
  <2>2. Goto(r, loc) /\ UNCHANGED <<vault, buf>> /\ vault.epoch > 0
    BY <1>6 DEF BeginRekey, loc, Initialized
  <2> QED BY <1>k, <2>1, <2>2, FirstLocal
<1>7. ASSUME NEW s \in Sess, NEW p \in Pass, NEW np \in Pass,
             BeginChangePassphrase(r, s, p, np)
      PROVE  FirstInv'
  <2> DEFINE loc == [Idle EXCEPT !.pc = "chpass_read", !.sess = s, !.alias = dek[s],
                                 !.pass = np, !.key = vault.wrapped.dek]
  <2>1. loc.pc = "chpass_read"
    BY IdleFields DEF Local
  <2> HIDE DEF loc
  <2>2. Goto(r, loc) /\ UNCHANGED <<vault, buf>> /\ Initialized
    BY <1>7 DEF BeginChangePassphrase, Opens, loc
  <2> QED BY <1>k, <2>1, <2>2, FirstLocal
<1> QED BY <1>1, <1>2, <1>3, <1>4, <1>5, <1>6, <1>7 DEF Arrive

\* A step of a handler.  Of the steps that zero or fill a buffer none touches that of
\* another handler.
LEMMA FirstHandler ==
    ASSUME TypeInv, Custody, FirstInv, NEW r \in Req,
           Write(r) \/ Setup(r) \/ Rekey(r) \/ ChangePassphrase(r) \/ Login(r)
    PROVE  FirstInv'
<1> USE DEF TypeInv, TypeOK
<1>0. req[r] \in Local /\ LocOK(req[r]) /\ First(req[r], vault, buf)
    BY DEF LocalsOK, FirstInv
<1>k. ASSUME UNCHANGED buf
      PROVE  \A q \in Req : q # r /\ req[q].own # Nil => buf'[req[q].own] = buf[req[q].own]
    BY <1>k
<1>a. ASSUME Unused # {}, NEW k, buf' = [buf EXCEPT ![NewBuf] = k]
      PROVE  \A q \in Req : q # r /\ req[q].own # Nil => buf'[req[q].own] = buf[req[q].own]
    BY <1>a, NewBufUnused DEF Held, Local
<1>z. ASSUME buf' = [buf EXCEPT ![req[r].own] = Zero], req[r].own # Nil
      PROVE  \A q \in Req : q # r /\ req[q].own # Nil => buf'[req[q].own] = buf[req[q].own]
    BY <1>z DEF Local, Custody, NoSharedKeyBuffer
<1>f. ASSUME Finish(r), UNCHANGED vault,
             \A q \in Req : q # r /\ req[q].own # Nil => buf'[req[q].own] = buf[req[q].own]
      PROVE  FirstInv'
  <2>1. Goto(r, Idle)
    BY <1>f DEF Finish, Goto
  <2> QED BY <1>f, <2>1, IdleFields, FirstLocal
<1>1. CASE Seal(r)
    BY <1>0, <1>1, <1>k, FirstLocal DEF Seal, Local
<1>2. CASE Store(r) \/ TotpPromote(r)
    BY <1>2, <1>f, <1>k DEF Store, TotpPromote
<1>3. CASE SetupData(r)
  <2>1. CASE Unused # {} /\ buf' = [buf EXCEPT ![NewBuf] = ndek']
             /\ Goto(r, [req[r] EXCEPT !.pc = "setup_init", !.own = NewBuf])
    <3> DEFINE loc == [req[r] EXCEPT !.pc = "setup_init", !.own = NewBuf]
    <3>1. loc.pc = "setup_init"
      BY <1>0 DEF Local
    <3> HIDE DEF loc
    <3>2. Goto(r, loc) /\ UNCHANGED vault
      BY <1>3, <2>1 DEF SetupData, loc
    <3>3. \A q \in Req : q # r /\ req[q].own # Nil => buf'[req[q].own] = buf[req[q].own]
      BY <1>a, <2>1
    <3> QED BY <3>1, <3>2, <3>3, FirstLocal
  <2>2. CASE Finish(r) /\ UNCHANGED <<ndek, buf>>
    BY <1>3, <1>f, <1>k, <2>2 DEF SetupData
  <2> QED BY <1>3, <2>1, <2>2 DEF SetupData
<1>4. CASE SetupInit(r)
  <2>0. req[r].own \in Buf /\ req[r].own # Nil
    BY <1>0, <1>4 DEF SetupInit, LocOK, OwnPC, Local
  <2>1. CASE /\ ~Initialized /\ vault' = WrapRow(req[r].pass, 1, buf[req[r].own])
             /\ Goto(r, [req[r] EXCEPT !.pc = "setup_new"]) /\ UNCHANGED buf
    <3> DEFINE loc == [req[r] EXCEPT !.pc = "setup_new"]
    <3>1. loc.pc = "setup_new" /\ loc.own = req[r].own
      BY <1>0 DEF Local
    <3> HIDE DEF loc
    <3>2. Goto(r, loc)
      BY <2>1 DEF loc
    <3>3. vault'.epoch = 1 /\ vault'.wrapped.dek = buf[req[r].own]
      BY <2>1 DEF WrapRow
    <3>4. First(loc, vault', buf')
      BY <2>1, <3>1, <3>3 DEF First
    <3> QED BY <1>k, <2>1, <3>2, <3>3, <3>4, FirstStep
  <2>2. CASE buf' = [buf EXCEPT ![req[r].own] = Zero] /\ Finish(r) /\ UNCHANGED vault
    BY <1>f, <1>z, <2>0, <2>2
  <2> QED BY <1>4, <2>1, <2>2 DEF SetupInit
<1>5. CASE RekeyUnlock(r)
  <2>1. CASE Unused # {} /\ buf' = [buf EXCEPT ![NewBuf] = ndek']
             /\ Goto(r, [req[r] EXCEPT !.pc = "rekey_tx", !.own = NewBuf,
                                       !.key = vault.wrapped.dek])
    <3> DEFINE loc == [req[r] EXCEPT !.pc = "rekey_tx", !.own = NewBuf, !.key = vault.wrapped.dek]
    <3>1. loc.pc = "rekey_tx" /\ loc.epoch = req[r].epoch
      BY <1>0 DEF Local
    <3> HIDE DEF loc
    <3>2. Goto(r, loc) /\ UNCHANGED vault /\ loc.epoch > 0
      BY <1>0, <1>5, <2>1, <3>1 DEF RekeyUnlock, loc, First
    <3>3. \A q \in Req : q # r /\ req[q].own # Nil => buf'[req[q].own] = buf[req[q].own]
      BY <1>a, <2>1
    <3> QED BY <3>1, <3>2, <3>3, FirstLocal
  <2>2. CASE Finish(r) /\ UNCHANGED <<ndek, buf>>
    BY <1>5, <1>f, <1>k, <2>2 DEF RekeyUnlock
  <2> QED BY <1>5, <2>1, <2>2 DEF RekeyUnlock
<1>6. CASE RekeyTx(r)
  <2>0. req[r].own \in Buf /\ req[r].own # Nil /\ req[r].epoch > 0 /\ req[r].epoch \in Nat
    BY <1>0, <1>6, ConstAssumption DEF RekeyTx, LocOK, OwnPC, Local, First
  <2>1. CASE /\ vault' = WrapRow(req[r].pass, req[r].epoch + 1, buf[req[r].own])
             /\ Goto(r, [req[r] EXCEPT !.pc = "rekey_set", !.key = 0]) /\ UNCHANGED buf
    <3> DEFINE loc == [req[r] EXCEPT !.pc = "rekey_set", !.key = 0]
    <3>1. loc.pc = "rekey_set"
      BY <1>0 DEF Local
    <3> HIDE DEF loc
    <3>2. Goto(r, loc)
      BY <2>1 DEF loc
    <3>3. vault'.epoch > 1 /\ vault'.epoch \in Nat
      BY <2>0, <2>1 DEF WrapRow
    <3>4. First(loc, vault', buf')
      BY <3>1 DEF First
    <3> QED BY <1>k, <2>1, <3>2, <3>3, <3>4, FirstStep
  <2>2. CASE buf' = [buf EXCEPT ![req[r].own] = Zero] /\ Finish(r) /\ UNCHANGED <<vault, rec>>
    BY <1>f, <1>z, <2>0, <2>2
  <2> QED BY <1>6, <2>1, <2>2 DEF RekeyTx
<1>7. CASE RekeySet(r)
  <2>1. req[r].sess \in Sess /\ Finish(r) /\ UNCHANGED vault
        /\ (buf' = ScrubbedBuf(req[r].sess) \/ UNCHANGED buf)
    BY <1>0, <1>7 DEF RekeySet, LocOK, Local
  <2>2. \A q \in Req : q # r /\ req[q].own # Nil => buf'[req[q].own] = buf[req[q].own]
    BY <2>1 DEF ScrubbedBuf, Local, Custody, NoSharedKeyBuffer
  <2> QED BY <1>f, <2>1, <2>2
<1>8. CASE ChangeRead(r)
  <2> DEFINE loc == [req[r] EXCEPT !.pc = "chpass_write", !.epoch = vault.epoch]
  <2>1. loc.pc = "chpass_write" /\ loc.epoch = vault.epoch
    BY <1>0 DEF Local
  <2> HIDE DEF loc
  <2>2. Goto(r, loc) /\ UNCHANGED <<vault, buf>> /\ vault.epoch > 0
    BY <1>0, <1>8 DEF ChangeRead, First, loc
  <2> QED BY <1>k, <2>1, <2>2, FirstLocal
<1>9. CASE ChangeWrite(r)
  <2>1. /\ Finish(r) /\ UNCHANGED buf /\ vault'.epoch = req[r].epoch + 1
        /\ req[r].epoch \in Nat /\ req[r].epoch > 0
    BY <1>0, <1>9, ConstAssumption DEF ChangeWrite, WrapRow, First, Local
  <2>2. Goto(r, Idle) /\ First(Idle, vault', buf') /\ vault'.epoch > 1 /\ vault'.epoch \in Nat
    BY <2>1, IdleFields DEF Finish, Goto, First
  <2> QED BY <1>k, <2>1, <2>2, FirstStep
<1>10. CASE UnlockTotp(r)
  <2>1. \E loc \in Local : Goto(r, loc) /\ loc.pc = "unlock_new"
    <3> DEFINE asked == [req[r] EXCEPT !.pc = "unlock_new", !.pend = (rec[Totp] # Absent)]
               unasked == [req[r] EXCEPT !.pc = "unlock_new", !.err = TRUE]
    <3>1. asked \in Local /\ asked.pc = "unlock_new"
      BY <1>0 DEF Local, PC
    <3>2. unasked \in Local /\ unasked.pc = "unlock_new"
      BY <1>0 DEF Local, PC
    <3>3. Goto(r, asked) \/ Goto(r, unasked)
      BY <1>10 DEF UnlockTotp
    <3> HIDE DEF asked, unasked
    <3> QED BY <3>1, <3>2, <3>3
  <2>2. UNCHANGED <<vault, buf>>
    BY <1>10 DEF UnlockTotp
  <2> QED BY <1>k, <2>1, <2>2, FirstLocal
<1>11. CASE NewSession(r)
  <2>1. PICK n \in Sess : InstallSession(r, n)
    BY <1>11 DEF NewSession
  <2> DEFINE gone == IF req[r].sess = Nil THEN {} ELSE {req[r].sess}
  <2>2. /\ Finish(r) /\ UNCHANGED vault /\ gone \subseteq Sess
        /\ buf' = [b \in Buf |-> IF \E t \in gone : b = dek[t] THEN Zero ELSE buf[b]]
    BY <1>0, <2>1 DEF InstallSession, Local
  <2>3. \A q \in Req : q # r /\ req[q].own # Nil => buf'[req[q].own] = buf[req[q].own]
    BY <2>2 DEF Local, Custody, NoSharedKeyBuffer
  <2> QED BY <1>f, <2>2, <2>3
<1>12. CASE TotpVerify(r)
  <2>1. PICK loc : Goto(r, loc) /\ loc.pc \in {"totp_promote", "idle"}
    BY <1>0, <1>12, IdleFields DEF TotpVerify, Finish, Goto, Local
  <2>2. UNCHANGED <<vault, buf>>
    BY <1>12 DEF TotpVerify
  <2> QED BY <1>k, <2>1, <2>2, FirstLocal
<1> QED BY <1>1, <1>2, <1>3, <1>4, <1>5, <1>6, <1>7, <1>8, <1>9, <1>10, <1>11, <1>12
        DEF Write, Setup, Rekey, ChangePassphrase, Login

\* Of first-run setups that overlap in any way, one makes the vault: the key that a
\* setup brings to its session is the one in the first row, for as long as that row
\* is the first.
THEOREM FirstKey == Spec => []FirstKeyHolds
<1> DEFINE IInv == TypeInv /\ Custody /\ FirstInv
<1>1. Init => IInv
  <2>1. Init => FirstInv
    BY IdleFields DEF Init, FirstInv, First
  <2> QED BY <2>1, TypeInvInit, CustodyInit
<1>2. IInv /\ [Next]_vars => FirstInv'
  <2> SUFFICES ASSUME IInv, [Next]_vars PROVE FirstInv'
    OBVIOUS
  <2>1. ASSUME NEW s \in Sess, Evict(s) PROVE FirstInv'
    <3>1. UNCHANGED <<vault, req>> /\ buf' = ScrubbedBuf(s)
      BY <2>1 DEF Evict
    <3>2. ASSUME NEW q \in Req PROVE First(req[q], vault, buf')
      <4>1. First(req[q], vault, buf) /\ req[q] \in Local /\ LocOK(req[q])
        BY DEF FirstInv, TypeInv, TypeOK, LocalsOK
      <4>2. req[q].own # Nil => buf'[req[q].own] = buf[req[q].own]
        BY <3>1, <4>1 DEF ScrubbedBuf, Local, Custody, NoSharedKeyBuffer
      <4> QED BY <4>1, <4>2 DEF First, LocOK, OwnPC
    <3> QED BY <3>1, <3>2 DEF FirstInv
  <2>2. CASE Restart
    BY <2>2, IdleFields DEF Restart, FirstInv, First
  <2>3. CASE UNCHANGED vars
    BY <2>3 DEF vars, FirstInv, First
  <2> QED BY <2>1, <2>2, <2>3, FirstArrive, FirstHandler DEF Next
<1>3. IInv /\ [Next]_vars => IInv'
    BY <1>2, TypeInvNext, CustodyNext
<1>4. IInv => FirstKeyHolds
    BY DEF FirstInv, First, FirstKeyHolds
<1> QED BY <1>1, <1>3, <1>4, PTL DEF Spec

=============================================================================
