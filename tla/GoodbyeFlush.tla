------------------------------ MODULE GoodbyeFlush ------------------------------
(***************************************************************************)
(* What one connection promises to whoever holds its guard, and all that   *)
(* ConnectionManager knows of it: a reader that runs until the peer leaves *)
(* or the guard is given up, and a disconnect that answers Ok only after   *)
(* the goodbye is on the wire (ConnectionGuard, src/src/protocol/client.rs)*)
(***************************************************************************)
VARIABLES
    reader, \* "running" or "ended"
    said,   \* the goodbye is on the wire
    result  \* how the guard ended: "none" while it is held

vars == <<reader, said, result>>

Init == reader = "running" /\ said = FALSE /\ result = "none"

PeerCloses ==
    /\ reader = "running"
    /\ reader' = "ended"
    /\ UNCHANGED <<said, result>>

Say ==
    /\ ~said
    /\ said' = TRUE
    /\ UNCHANGED <<reader, result>>

\* The guard is consumed: with Ok, an error, or by dropping it.
End(r) ==
    /\ result = "none"
    /\ r = "ok" => said
    /\ reader' = "ended"
    /\ result' = r
    /\ UNCHANGED said

Next == PeerCloses \/ Say \/ \E r \in {"ok", "err", "dropped"} : End(r)

Spec == Init /\ [][Next]_vars
================================================================================
