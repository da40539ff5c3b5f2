---------------------------- MODULE MCKeyCustody ----------------------------
(* Instances of KeyCustody for TLC.  Requests and sessions are               *)
(* interchangeable; buffers are not, because NewBuf chooses one of them.     *)
EXTENDS KeyCustody, TLC

Symmetry == Permutations(Req) \cup Permutations(Sess)

=============================================================================
