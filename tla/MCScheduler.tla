---------------------------- MODULE MCScheduler ----------------------------
(* Instances of Scheduler for TLC: a year of six days, with the clocks put     *)
(* forward on the second and back on the fifth, as in London, Berlin and New   *)
(* York, and not at all.                                                       *)
EXTENDS Scheduler

Places == {[winter |-> 0, summer |-> 0, spring |-> 25, autumn |-> 97],
           [winter |-> 0, summer |-> 1, spring |-> 25, autumn |-> 97],
           [winter |-> 1, summer |-> 2, spring |-> 25, autumn |-> 97],
           [winter |-> -5, summer |-> -4, spring |-> 31, autumn |-> 102]}

=============================================================================
