--------------------------- MODULE AtomicRestore ---------------------------
(***************************************************************************)
(* What a restore promises, without files: there is one current database   *)
(* at every moment, one the validation accepts.  It changes by writes      *)
(* while the service is up.  Another can be staged; the next start waits   *)
(* until that has become the current one in a single step.                 *)
(***************************************************************************)
CONSTANTS
    Vault, \* the databases the validation accepts
    Nil

VARIABLES
    cur,    \* the database in use
    staged, \* the one the next start will use instead, or Nil
    up      \* whether requests are served

vars == <<cur, staged, up>>

Init == cur \in Vault /\ staged = Nil /\ up = TRUE

\* Requests, while the service is up.
Write == up /\ cur' \in Vault /\ UNCHANGED <<staged, up>>
Stage == up /\ staged' \in Vault \cup {Nil} /\ UNCHANGED <<cur, up>>

Stop == up /\ up' = FALSE /\ UNCHANGED <<cur, staged>>

\* While it is down: the staged database replaces the current one, is then no
\* longer staged, and only then is the service up again.
Replace == ~up /\ staged # Nil /\ cur' = staged /\ UNCHANGED <<staged, up>>
Done == ~up /\ cur = staged /\ staged' = Nil /\ UNCHANGED <<cur, up>>
Start == ~up /\ staged = Nil /\ up' = TRUE /\ UNCHANGED <<cur, staged>>

Next == Write \/ Stage \/ Stop \/ Replace \/ Done \/ Start

Spec == Init /\ [][Next]_vars

=============================================================================
