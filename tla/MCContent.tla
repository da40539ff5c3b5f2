----------------------------- MODULE MCContent -----------------------------
(* Instances of Content for TLC.  The files have one name, a name twice, and *)
(* a line that normalises to no name at all.                                 *)
EXTENDS Content

CONSTANTS a

OneName == {<<a>>}
Repeated == {<<a, Empty, a>>}

Symmetry == Permutations(Req)

=============================================================================
