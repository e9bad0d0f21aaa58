---------------------------------- MODULE MCGain ----------------------------------
(* Three volumes, the middle one with the 1.5-power curve's gain of 35%. *)
EXTENDS Gain

SmallCurve == [v \in {0, 50, 100} |-> CASE v = 0 -> 0 [] v = 50 -> 7 [] v = 100 -> 20]
================================================================================
