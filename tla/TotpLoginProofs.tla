-------------------------- MODULE TotpLoginProofs --------------------------
(***************************************************************************)
(* Proofs about TotpLogin, for any number of handlers and secrets and any  *)
(* length of time.                                                         *)
(***************************************************************************)
EXTENDS TotpLogin, TLAPS

\* What a handler that has passed the check is about to store is a step of the
\* window, which only moves forward.
InWindow(l) == l.pc \in {"accept", "enrol"} => l.code.step <= now + 1

\* What a handler has read is still so when no other request is in flight.
StillSo(l, v) ==
    /\ l.pc = "verify" => l.secret = v.secret /\ l.last = v.last
    /\ l.pc = "accept" => l.code.secret = v.secret /\ l.code.step > v.last

\* Under the current enrolment only steps up to totp_last have been used, each once.
UsedUpToLast ==
    \A c \in Code : /\ uses[c] <= 1
                    /\ uses[c] > 0 => c.secret = row.secret /\ c.step <= row.last

GuardInv ==
    /\ TypeOK
    /\ LastNotAhead
    /\ \A r \in Req : InWindow(req[r])
    /\ alone => /\ \A r, q \in Req : r # q => req[r] = Idle \/ req[q] = Idle
                /\ \A r \in Req : StillSo(req[r], row)
                /\ UsedUpToLast

\* The parts of a handler's local state.
LEMMA Locals ==
    ASSUME TypeOK, NEW r \in Req
    PROVE  /\ req[r] \in {Idle} \cup Local
           /\ req[r].pc \in {"idle", "verify", "accept", "enrol"}
           /\ req[r].pc = "idle" <=> req[r] = Idle
           /\ req[r].pc # "idle" => req[r] \in Local /\ req[r].code \in Code
           /\ req[r].pc = "verify" => req[r].secret \in Secret /\ req[r].last \in {0} \cup Step
<1>1. req[r] \in {Idle} \cup Local
    BY DEF TypeOK
<1>2. CASE req[r] = Idle
    BY <1>2 DEF Idle
<1>3. CASE req[r] \in [pc: {"verify"}, code: Code, secret: Secret, last: {0} \cup Step]
    BY <1>3 DEF Idle, Local
<1>4. CASE req[r] \in [pc: {"accept", "enrol"}, code: Code]
    BY <1>4 DEF Idle, Local
<1> QED BY <1>1, <1>2, <1>3, <1>4 DEF Local

\* The handler r goes on with l, the others stay as they are.
LEMMA Gone ==
    ASSUME TypeOK, NEW r \in Req, NEW l, Goto(r, l)
    PROVE  /\ req'[r] = l
           /\ \A q \in Req : q # r => req'[q] = req[q]
           /\ l \in {Idle} \cup Local => req' \in [Req -> {Idle} \cup Local]
BY DEF TypeOK, Goto

\* Codes and steps are what they should be for the comparisons of the guard.
LEMMA Steps == /\ Step \subseteq Int /\ 0 \in Int /\ Idle.pc = "idle"
               /\ \A c \in Code : c.secret \in Secret /\ c.step \in Step /\ c.step \in Int
BY TotpAssumption DEF Step, Code, Idle

LEMMA GuardInit == Init => GuardInv
<1> SUFFICES ASSUME Init PROVE GuardInv
    OBVIOUS
<1>1. TypeOK
    BY TotpAssumption DEF Init, TypeOK, Unused, Local, Step
<1>2. LastNotAhead
    BY TotpAssumption DEF Init, LastNotAhead
<1>3. \A r \in Req : req[r] = Idle
    BY DEF Init
<1>4. \A c \in Code : uses[c] = 0
    BY DEF Init, Unused
<1> QED BY <1>1, <1>2, <1>3, <1>4, Steps DEF GuardInv, InWindow, StillSo, UsedUpToLast

\* A step of the handler r that goes on with l: what is to be shown of it.
LEMMA HandlerStep ==
    ASSUME GuardInv, NEW r \in Req, NEW l \in {Idle} \cup Local, Goto(r, l), now' = now, alone' = alone,
           req[r] # Idle \/ MayBegin(r),
           row' \in [secret: Secret \cup {Nil}, last: {0} \cup Step],
           uses' \in [Code -> 0 .. MaxUses],
           LastNotAhead', InWindow(l),
           alone => StillSo(l, row') /\ UsedUpToLast'
    PROVE  GuardInv'
<1>1. /\ req'[r] = l
      /\ \A q \in Req : q # r => req'[q] = req[q]
      /\ req' \in [Req -> {Idle} \cup Local]
    BY Gone DEF GuardInv
<1>2. TypeOK'
    BY <1>1 DEF GuardInv, TypeOK
<1>3. \A q \in Req : InWindow(req[q])'
    BY <1>1 DEF GuardInv, InWindow
<1>4. ASSUME alone PROVE \A q \in Req : q # r => req'[q] = Idle
    BY <1>1, <1>4 DEF GuardInv, MayBegin
<1>5. alone => \A q \in Req : StillSo(req'[q], row')
    BY <1>1, <1>4, Steps DEF StillSo
<1> QED BY <1>1, <1>2, <1>3, <1>4, <1>5 DEF GuardInv

\* Reading the row: what is read is so.
LEMMA GuardVerifyRead ==
    ASSUME GuardInv, NEW r \in Req, NEW c \in Code, VerifyRead(r, c)
    PROVE  GuardInv'
<1> DEFINE l == [pc |-> "verify", code |-> c, secret |-> row.secret, last |-> row.last]
<1>1. l \in Local /\ l.pc = "verify" /\ l.secret = row.secret /\ l.last = row.last
    BY DEF VerifyRead, GuardInv, TypeOK, Local
<1>2. Goto(r, l) /\ MayBegin(r) /\ UNCHANGED <<now, row, alone, uses>>
    BY DEF VerifyRead
<1>3. LastNotAhead' /\ (alone => UsedUpToLast')
    BY <1>2 DEF GuardInv, LastNotAhead, UsedUpToLast
<1>4. InWindow(l) /\ StillSo(l, row')
    BY <1>1, <1>2 DEF InWindow, StillSo
<1> HIDE DEF l
<1> QED BY <1>1, <1>2, <1>3, <1>4, HandlerStep DEF GuardInv, TypeOK

\* The check lets a code pass that is of the window and newer than what was read.
LEMMA GuardVerifyCheck ==
    ASSUME GuardInv, NEW r \in Req, VerifyCheck(r)
    PROVE  GuardInv'
<1>1. /\ req[r].pc = "verify" /\ req[r] # Idle /\ req[r].code \in Code
      /\ UNCHANGED <<now, row, alone, uses>>
    BY Locals, Steps DEF VerifyCheck, GuardInv
<1>2. LastNotAhead' /\ (alone => UsedUpToLast')
    BY <1>1 DEF GuardInv, LastNotAhead, UsedUpToLast
<1>3. CASE ValidateTOTP(req[r].secret, req[r].code, req[r].last)
  <2> DEFINE l == [pc |-> "accept", code |-> req[r].code]
  <2>1. l \in Local /\ l.pc = "accept" /\ l.code = req[r].code
    BY <1>1 DEF Local
  <2>2. Goto(r, l)
    BY <1>3 DEF VerifyCheck
  <2>3. InWindow(l)
    BY <1>1, <1>3, <2>1, Steps DEF InWindow, ValidateTOTP, Window, GuardInv, TypeOK
  <2>4. alone => StillSo(l, row')
    BY <1>1, <1>3, <2>1 DEF StillSo, ValidateTOTP, GuardInv
  <2> HIDE DEF l
  <2> QED BY <1>1, <1>2, <2>1, <2>2, <2>3, <2>4, HandlerStep DEF GuardInv, TypeOK
<1>4. CASE ~ValidateTOTP(req[r].secret, req[r].code, req[r].last)
  <2>1. Goto(r, Idle) /\ InWindow(Idle) /\ StillSo(Idle, row')
    BY <1>4, Steps DEF VerifyCheck, InWindow, StillSo
  <2> QED BY <1>1, <1>2, <2>1, HandlerStep DEF GuardInv, TypeOK
<1> QED BY <1>3, <1>4

\* The guard moves to the accepted step; the code had not been used.
LEMMA GuardVerifyStore ==
    ASSUME GuardInv, NEW r \in Req, VerifyStore(r)
    PROVE  GuardInv'
<1> DEFINE c == req[r].code
<1>1. /\ req[r].pc = "accept" /\ req[r] # Idle /\ c \in Code /\ c.step \in Step /\ c.step \in Int
      /\ Goto(r, Idle) /\ UNCHANGED <<now, alone>>
    BY Locals, Steps DEF VerifyStore, GuardInv
<1>2. row.secret \in Secret \cup {Nil} /\ row' = [secret |-> row.secret, last |-> c.step]
    BY <1>1 DEF VerifyStore, GuardInv, TypeOK
<1>3. row' \in [secret: Secret \cup {Nil}, last: {0} \cup Step] /\ row'.last = c.step /\ row'.secret = row.secret
    BY <1>1, <1>2
<1>4. LastNotAhead'
    BY <1>1, <1>3 DEF GuardInv, InWindow, LastNotAhead
<1>5. Counted(c) \in 0 .. MaxUses /\ (uses[c] = 0 => Counted(c) = 1)
    BY <1>1, TotpAssumption DEF Counted, GuardInv, TypeOK
<1>6. uses' \in [Code -> 0 .. MaxUses]
    BY <1>1, <1>5 DEF VerifyStore, GuardInv, TypeOK
<1>7. ASSUME alone PROVE UsedUpToLast'
  <2>1. c.secret = row.secret /\ c.step > row.last
    BY <1>1, <1>7 DEF GuardInv, StillSo
  <2>2. row.last \in Int
    BY Steps DEF GuardInv, TypeOK
  <2>3. uses[c] = 0
    BY <1>1, <1>7, <2>1, <2>2 DEF GuardInv, UsedUpToLast, TypeOK
  <2>4. uses' = [uses EXCEPT ![c] = 1]
    BY <1>5, <2>1, <2>3 DEF VerifyStore
  <2> SUFFICES ASSUME NEW d \in Code
               PROVE  uses'[d] <= 1 /\ (uses'[d] > 0 => d.secret = row'.secret /\ d.step <= row'.last)
    BY DEF UsedUpToLast
  <2>5. d.step \in Int
    BY Steps
  <2>6. CASE d = c
    BY <1>1, <1>3, <2>1, <2>4, <2>6 DEF GuardInv, TypeOK
  <2>7. CASE d # c
    BY <1>1, <1>3, <1>7, <2>1, <2>2, <2>4, <2>5, <2>7 DEF GuardInv, TypeOK, UsedUpToLast
  <2> QED BY <2>6, <2>7
<1>8. InWindow(Idle) /\ StillSo(Idle, row')
    BY Steps DEF InWindow, StillSo
<1> QED BY <1>1, <1>3, <1>4, <1>6, <1>7, <1>8, HandlerStep

\* The code that confirms an enrolment is of the window.
LEMMA GuardConfirmCheck ==
    ASSUME GuardInv, NEW r \in Req, NEW c \in Code, ConfirmCheck(r, c)
    PROVE  GuardInv'
<1> DEFINE l == [pc |-> "enrol", code |-> c]
<1>1. l \in Local /\ l.pc = "enrol" /\ l.code = c
    BY DEF Local
<1>2. Goto(r, l) /\ MayBegin(r) /\ UNCHANGED <<now, row, alone, uses>>
    BY DEF ConfirmCheck
<1>3. LastNotAhead' /\ (alone => UsedUpToLast')
    BY <1>2 DEF GuardInv, LastNotAhead, UsedUpToLast
<1>4. InWindow(l) /\ StillSo(l, row')
    BY <1>1, Steps DEF InWindow, StillSo, ConfirmCheck, ValidateTOTP, Window, GuardInv, TypeOK
<1> HIDE DEF l
<1> QED BY <1>1, <1>2, <1>3, <1>4, HandlerStep DEF GuardInv, TypeOK

\* A new enrolment: the code that confirmed it is the only one used.
LEMMA GuardSetTOTP ==
    ASSUME GuardInv, NEW r \in Req, SetTOTP(r)
    PROVE  GuardInv'
<1> DEFINE c == req[r].code
<1>1. /\ req[r].pc = "enrol" /\ req[r] # Idle /\ c \in Code
      /\ c.step \in Step /\ c.step \in Int /\ c.secret \in Secret
      /\ Goto(r, Idle) /\ UNCHANGED <<now, alone>>
    BY Locals, Steps DEF SetTOTP, GuardInv
<1>2. row' = [secret |-> c.secret, last |-> c.step] /\ uses' = [Unused EXCEPT ![c] = 1]
    BY DEF SetTOTP
<1>3. row' \in [secret: Secret \cup {Nil}, last: {0} \cup Step] /\ row'.last = c.step /\ row'.secret = c.secret
    BY <1>1, <1>2
<1>4. LastNotAhead'
    BY <1>1, <1>3 DEF GuardInv, InWindow, LastNotAhead
<1>5. uses' \in [Code -> 0 .. MaxUses] /\ \A d \in Code : uses'[d] = IF d = c THEN 1 ELSE 0
    BY <1>1, <1>2, TotpAssumption DEF Unused
<1>6. UsedUpToLast'
    BY <1>1, <1>3, <1>5 DEF UsedUpToLast
<1>7. InWindow(Idle) /\ StillSo(Idle, row')
    BY Steps DEF InWindow, StillSo
<1> QED BY <1>1, <1>3, <1>4, <1>5, <1>6, <1>7, HandlerStep

\* An UPDATE that fails changes nothing.
LEMMA GuardStoreFails ==
    ASSUME GuardInv, NEW r \in Req, StoreFails(r)
    PROVE  GuardInv'
<1>1. req[r] # Idle /\ Goto(r, Idle) /\ UNCHANGED <<now, row, alone, uses>>
    BY Steps DEF StoreFails
<1>2. LastNotAhead' /\ (alone => UsedUpToLast')
    BY <1>1 DEF GuardInv, LastNotAhead, UsedUpToLast
<1>3. InWindow(Idle) /\ StillSo(Idle, row')
    BY Steps DEF InWindow, StillSo
<1> QED BY <1>1, <1>2, <1>3, HandlerStep DEF GuardInv, TypeOK

\* Without an enrolment nothing has been used.
LEMMA GuardClearTOTP ==
    ASSUME GuardInv, NEW r \in Req, ClearTOTP(r)
    PROVE  GuardInv'
<1>1. row'.last = 0 /\ row' \in [secret: Secret \cup {Nil}, last: {0} \cup Step]
    BY DEF ClearTOTP
<1>2. uses' \in [Code -> 0 .. MaxUses] /\ \A c \in Code : uses'[c] = 0
    BY TotpAssumption DEF ClearTOTP, Unused
<1>3. TypeOK' /\ LastNotAhead' /\ UsedUpToLast'
    BY <1>1, <1>2, TotpAssumption DEF ClearTOTP, GuardInv, TypeOK, LastNotAhead, UsedUpToLast
<1>4. \A q \in Req : InWindow(req[q])'
    BY DEF ClearTOTP, GuardInv, InWindow
<1>5. alone => \A q \in Req : req'[q] = Idle
    BY DEF ClearTOTP, MayBegin
<1> QED BY <1>3, <1>4, <1>5, Steps DEF ClearTOTP, GuardInv, StillSo

\* Time passes, and the window with it.
LEMMA GuardTick == ASSUME GuardInv, Tick PROVE GuardInv'
<1>1. now \in Start .. MaxStep /\ now < MaxStep /\ row.last \in {0} \cup Step
    BY DEF Tick, GuardInv, TypeOK
<1>2. now \in Int /\ row.last \in Int /\ now' = now + 1 /\ now' \in Start .. MaxStep
    BY <1>1, TotpAssumption DEF Tick, Step
<1>3. TypeOK' /\ LastNotAhead'
    BY <1>2 DEF Tick, GuardInv, TypeOK, LastNotAhead
<1>4. ASSUME NEW r \in Req PROVE InWindow(req[r])'
    BY <1>2, Locals, Steps DEF Tick, GuardInv, InWindow
<1> QED BY <1>3, <1>4 DEF Tick, GuardInv, StillSo, UsedUpToLast

LEMMA GuardNext == GuardInv /\ [Next]_vars => GuardInv'
<1> SUFFICES ASSUME GuardInv, [Next]_vars PROVE GuardInv'
    OBVIOUS
<1>1. CASE UNCHANGED vars
    BY <1>1 DEF vars, GuardInv, TypeOK, LastNotAhead, InWindow, StillSo, UsedUpToLast
<1> QED BY <1>1, GuardTick, GuardVerifyRead, GuardVerifyCheck, GuardVerifyStore,
           GuardConfirmCheck, GuardSetTOTP, GuardStoreFails, GuardClearTOTP DEF Next

\* However logins, enrolments and disabling overlap, the stored guard is never more
\* than one step ahead of the clock: nobody is locked out by a stale update.
THEOREM GuardNotAhead == Spec => []LastNotAhead
<1>1. GuardInv => LastNotAhead
    BY DEF GuardInv
<1> QED BY <1>1, GuardInit, GuardNext, PTL DEF Spec

\* When requests come one at a time, VerifyLoginTOTP accepts no code twice under one
\* enrolment, and not the code that confirmed the enrolment.
THEOREM NoReplayAlone == Spec => []CodeUsedOnceAlone
<1>1. GuardInv => CodeUsedOnceAlone
    BY DEF GuardInv, UsedUpToLast, CodeUsedOnceAlone, CodeUsedOnce
<1> QED BY <1>1, GuardInit, GuardNext, PTL DEF Spec

=============================================================================
