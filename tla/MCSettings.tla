----------------------------- MODULE MCSettings -----------------------------
(* Instances of Settings for TLC.  The environments: nothing set; values below  *)
(* their floors and one that does not parse; an empty time and a negative       *)
(* timeout; a number of lanes that would wrap around in 8 bits; a time that     *)
(* does not parse.                                                              *)
EXTENDS Settings

CONSTANTS t1, t2

Plain == [at |-> Unset, keep |-> Unset, idle |-> Unset, max |-> Unset,
          mem |-> Unset, time |-> Unset, par |-> Unset]
Low == [Plain EXCEPT !.at = t1, !.keep = 0, !.idle = 7200, !.max = 60, !.mem = Bad]
Negative == [Plain EXCEPT !.at = Off, !.idle = -1, !.max = Bad, !.mem = 4096, !.time = 2]
Wrapping == [Plain EXCEPT !.par = 257]
BadTime == [Plain EXCEPT !.at = Bad]
SomeEnvs == {Plain, Low, Negative, Wrapping, BadTime}

Schedules == {[at |-> t1, keep |-> 1], [at |-> Off, keep |-> 2], [at |-> t1, keep |-> 0],
              [at |-> Bad, keep |-> 1]}
Timeouts == {[idle |-> 1800, max |-> 43200], [idle |-> 3645, max |-> 3645],
             [idle |-> 3600, max |-> 1800]}

\* No row; what a form has stored; 2h and 1h, which contradict each other, and no
\* snapshot kept; a negative timeout among rows that do not parse.
SomeRows == {Blank,
             [at |-> t1, keep |-> 1, idle |-> shortDur(1800), max |-> shortDur(43200)],
             [at |-> Off, keep |-> 0, idle |-> <<<<2, "h">>>>, max |-> <<<<1, "h">>>>],
             [at |-> Bad, keep |-> Bad, idle |-> <<<<-1, "h">>>>, max |-> Bad]}

=============================================================================
