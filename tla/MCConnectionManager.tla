-------------------------- MODULE MCConnectionManager --------------------------
(* Small instances of ConnectionManager for TLC. *)
EXTENDS ConnectionManager, TLC

CONSTANTS s1, s2, r1, r2

\* A player, and two discovery servers of which one may be the last played.
MCHellos == {[id |-> s1, reason |-> "playback"],
             [id |-> s1, reason |-> "discovery"],
             [id |-> s2, reason |-> "discovery"]}

\* One hello that wins every time, one that wins only when alone.
LiveHellos == {[id |-> s1, reason |-> "playback"], [id |-> s2, reason |-> "discovery"]}

\* Reasons of the disconnect calls.
MCReasonOf == [r \in Req |-> IF r = r1 THEN "shutdown" ELSE "user_request"]

Symmetry == Permutations(Conn)
================================================================================
