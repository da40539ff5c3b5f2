----------------------------- MODULE MCLimiter -----------------------------
(* Instances of Limiter for TLC.  Lockout is longer than Window, as in       *)
(* NewLimiter (15 and 10 minutes), and MaxAll exceeds MaxIP (20 and 5).      *)
EXTENDS Limiter, TLC

Symmetry == Permutations(Req) \cup Permutations(IP)

=============================================================================
