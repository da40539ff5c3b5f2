----------------------------- MODULE TotpLogin -----------------------------
(***************************************************************************)
(* Time-based one-time codes: enrolment, login with a code, disabling, and *)
(* the replay guard totp_last in the vault row.                            *)
(*                                                                         *)
(* Time is counted in steps of 30 seconds.  A code is the secret and the   *)
(* step it was made for; that codes of two steps in one window may be      *)
(* equal by chance is left out.  Each database statement is a step, and    *)
(* the clock is read between them.                                         *)
(***************************************************************************)
EXTENDS Integers, FiniteSets

CONSTANTS
    Req,     \* handlers in flight together
    Secret,  \* the secrets of the enrolment pages that are open
    Start,   \* the step at which the behaviour begins
    MaxStep, \* bound: the last step of the clock
    MaxUses, \* bound: how often one code is counted
    Nil

ASSUME TotpAssumption ==
    /\ Start \in Nat /\ MaxStep \in Nat /\ MaxUses \in Nat
    /\ Start >= 2 /\ MaxStep >= Start /\ MaxUses >= 2
    /\ Nil \notin Secret

VARIABLES
    now,   \* the clock
    row,   \* totp_enc and totp_last of the vault row
    req,   \* req[r]: what the handler r is about to do
    alone, \* whether requests come one at a time
    uses   \* history: how often a code was accepted under the current enrolment

vars == <<now, row, req, alone, uses>>

Step == (Start - 1) .. (MaxStep + 1)
Code == [secret: Secret, step: Step]
Idle == [pc |-> "idle"]
Local == [pc: {"verify"}, code: Code, secret: Secret, last: {0} \cup Step]
            \cup [pc: {"accept", "enrol"}, code: Code]

TypeOK ==
    /\ now \in Start .. MaxStep
    /\ row \in [secret: Secret \cup {Nil}, last: {0} \cup Step]
    /\ req \in [Req -> {Idle} \cup Local]
    /\ alone \in BOOLEAN
    /\ uses \in [Code -> 0 .. MaxUses]

Unused == [c \in Code |-> 0]

Init ==
    /\ now = Start
    /\ row = [secret |-> Nil, last |-> 0]
    /\ req = [r \in Req |-> Idle]
    /\ alone \in BOOLEAN
    /\ uses = Unused

---------------------------------------------------------------------------

\* ValidateTOTP: the code is that of the step before, this step or the next, and
\* its step is newer than last.
Window(c) == c.step \in (now - 1) .. (now + 1)
ValidateWide(secret, c, last) ==
    c.secret = secret /\ c.step \in (now - 2) .. (now + 2) /\ c.step > last
ValidateNoReplay(secret, c, last) == c.secret = secret /\ Window(c) /\ c.step >= last
ValidateTOTP(secret, c, last) == c.secret = secret /\ Window(c) /\ c.step > last

MayBegin(r) == req[r] = Idle /\ (alone => \A q \in Req : req[q] = Idle)
Goto(r, l) == req' = [req EXCEPT ![r] = l]

\* postUnlockTOTP, VerifyLoginTOTP: the row is read; without an enrolment there is
\* no secret to open and the code is refused.
VerifyRead(r, c) ==
    /\ MayBegin(r) /\ row.secret # Nil
    /\ Goto(r, [pc |-> "verify", code |-> c, secret |-> row.secret, last |-> row.last])
    /\ UNCHANGED <<now, row, alone, uses>>

VerifyCheck(r) ==
    /\ req[r].pc = "verify"
    /\ IF ValidateTOTP(req[r].secret, req[r].code, req[r].last)
       THEN Goto(r, [pc |-> "accept", code |-> req[r].code])
       ELSE Goto(r, Idle)
    /\ UNCHANGED <<now, row, alone, uses>>

\* UpdateTOTPLast, whatever the row holds by now; then the login goes on.
Counted(c) == IF uses[c] = MaxUses THEN MaxUses ELSE uses[c] + 1
VerifyStore(r) ==
    /\ req[r].pc = "accept"
    /\ row' = [row EXCEPT !.last = req[r].code.step]
    /\ uses' = IF req[r].code.secret = row.secret
               THEN [uses EXCEPT ![req[r].code] = Counted(req[r].code)] ELSE uses
    /\ Goto(r, Idle)
    /\ UNCHANGED <<now, alone>>

\* totpConfirm, ConfirmTOTP: the secret comes back from the enrolment page, and no
\* step counts as used.
ConfirmCheck(r, c) ==
    /\ MayBegin(r) /\ ValidateTOTP(c.secret, c, -1)
    /\ Goto(r, [pc |-> "enrol", code |-> c])
    /\ UNCHANGED <<now, row, alone, uses>>

\* SetTOTP: the code that confirmed the enrolment counts as used.
SetTOTP(r) ==
    /\ req[r].pc = "enrol"
    /\ row' = [secret |-> req[r].code.secret, last |-> req[r].code.step]
    /\ uses' = [Unused EXCEPT ![req[r].code] = 1]
    /\ Goto(r, Idle)
    /\ UNCHANGED <<now, alone>>

\* The UPDATE fails: the login is refused, the enrolment is not made.
StoreFails(r) ==
    /\ req[r].pc \in {"accept", "enrol"}
    /\ Goto(r, Idle)
    /\ UNCHANGED <<now, row, alone, uses>>

\* totpDisable, ClearTOTP.
ClearTOTP(r) ==
    /\ MayBegin(r)
    /\ row' = [secret |-> Nil, last |-> 0] /\ uses' = Unused
    /\ UNCHANGED <<now, req, alone>>

Tick == now < MaxStep /\ now' = now + 1 /\ UNCHANGED <<row, req, alone, uses>>

Next ==
    \/ Tick
    \/ \E r \in Req :
          \/ \E c \in Code : VerifyRead(r, c) \/ ConfirmCheck(r, c)
          \/ VerifyCheck(r) \/ VerifyStore(r) \/ SetTOTP(r) \/ StoreFails(r) \/ ClearTOTP(r)

Spec == Init /\ [][Next]_vars

---------------------------------------------------------------------------

\* The guard is never ahead of what the window admits, however enrolments and
\* logins overlap: two steps later at most the current code is newer than it, so a
\* stale or lost update of totp_last locks nobody out.
LastNotAhead == row.last <= now + 1

\* VerifyLoginTOTP "rejects already-used time steps": under one enrolment a code
\* is accepted once, the code that confirmed the enrolment included.
CodeUsedOnce == \A c \in Code : uses[c] <= 1

\* It holds as long as requests come one at a time.
CodeUsedOnceAlone == alone => CodeUsedOnce

=============================================================================
