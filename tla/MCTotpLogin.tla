---------------------------- MODULE MCTotpLogin ----------------------------
(* Instances of TotpLogin for TLC. *)
EXTENDS TotpLogin, TLC

Symmetry == Permutations(Req) \cup Permutations(Secret)

=============================================================================
