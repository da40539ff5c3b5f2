--------------------------- MODULE MCSessionTable ---------------------------
(* Instances of SessionTable for TLC.  SweepEvery < PendingTTL < idle < max, *)
(* as in the program (1 and 2 minutes, then minutes and hours).              *)
EXTENDS SessionTable, TLC

Symmetry == Permutations(Sess) \cup Permutations(Req)

=============================================================================
