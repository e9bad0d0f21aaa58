------------------------------ MODULE MCConnection ------------------------------
(* Model values for Connection. *)
EXTENDS Connection

CONSTANTS c1, c2
================================================================================
