------------------------------- MODULE MCClockSync -------------------------------
(* Drifts for ClockSync: none, the largest that is plausible, and one that is   *)
(* not.                                                                          *)
EXTENDS ClockSync

MCDrift == {NoDrift, [num |-> -1, den |-> 5], [num |-> -3, den |-> 4]}
================================================================================
