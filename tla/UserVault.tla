----------------------------- MODULE UserVault -----------------------------
(***************************************************************************)
(* The vault as its user sees it, without keys: a passphrase, the columns  *)
(* that can be read back and those that cannot, the sessions, one request  *)
(* at a time.  A second factor is on while the column Totp is there.  A    *)
(* rotation of the data key is a request that changes nothing here, and    *)
(* neither does a crash in the middle of one.                              *)
(***************************************************************************)
CONSTANTS Sess, Rec, Totp, Pass, Nil

VARIABLES
    pass,   \* the passphrase, or Nil before the first run
    stored, \* the columns that can be read back
    lost,   \* the columns that are there and open under no key of the vault
    open,   \* sessions that may read and write
    half,   \* sessions that have yet to give their code
    busy,   \* a request that an open session admitted has not been answered
    unread  \* a login has failed to read whether the second factor is on

vars == <<pass, stored, lost, open, half, busy, unread>>

Init == /\ pass = Nil /\ stored = {} /\ lost = {} /\ open = {} /\ half = {}
        /\ ~busy /\ ~unread

TotpOn == Totp \in stored \cup lost

Create == /\ pass = Nil /\ pass' \in Pass
          /\ UNCHANGED <<stored, lost, open, half, busy, unread>>

\* A login, which ends the session the browser had before.
FailedRead == /\ ~unread /\ unread'
              /\ UNCHANGED <<pass, stored, lost, open, half, busy>>
Login(s, old) ==
    /\ pass # Nil
    /\ IF TotpOn /\ ~unread
       THEN open' = open \ {s, old} /\ half' = (half \ {old}) \cup {s}
       ELSE open' = (open \ {old}) \cup {s} /\ half' = half \ {s, old}
    /\ ~unread'
    /\ UNCHANGED <<pass, stored, lost, busy>>

\* The code is checked against a secret that can be read.
Confirm(s) ==
    /\ s \in half /\ Totp \in stored
    /\ open' = open \cup {s} /\ half' = half \ {s}
    /\ UNCHANGED <<pass, stored, lost, busy, unread>>

Admit == ~busy /\ open # {} /\ busy' /\ UNCHANGED <<pass, stored, lost, open, half, unread>>
Answered == busy /\ ~busy' /\ UNCHANGED <<open, half, unread>>

\* A write is readable, unless every session ended while it was under way.
Put(i) == /\ Answered
          /\ \/ stored' = stored \cup {i} /\ lost' = lost \ {i}
             \/ open = {} /\ stored' = stored \ {i} /\ lost' = lost \cup {i}
          /\ UNCHANGED pass
Change == Answered /\ pass' \in Pass /\ UNCHANGED <<stored, lost>>
NoChange == Answered /\ UNCHANGED <<pass, stored, lost>>

Drop(i) == /\ open # {} /\ stored' = stored \ {i} /\ lost' = lost \ {i}
           /\ UNCHANGED <<pass, open, half, busy, unread>>

Lock(s) == /\ open' = open \ {s} /\ half' = half \ {s}
           /\ UNCHANGED <<pass, stored, lost, busy, unread>>
Restart == /\ open' = {} /\ half' = {} /\ ~busy' /\ ~unread'
           /\ UNCHANGED <<pass, stored, lost>>

Next ==
    \/ Create \/ Change \/ NoChange \/ Admit \/ FailedRead \/ Restart
    \/ \E i \in Rec : Put(i) \/ Drop(i)
    \/ \E s \in Sess : Confirm(s) \/ Lock(s) \/ \E old \in Sess \cup {Nil} : Login(s, old)

Spec == Init /\ [][Next]_vars

=============================================================================
