---------------------------- MODULE MCSyncCorrection ----------------------------
(* Readings in each of the planner's bands, on both sides. *)
EXTENDS SyncCorrection

BothSides == {-6, -3, -2, 0, 2, 3, 6}
================================================================================
