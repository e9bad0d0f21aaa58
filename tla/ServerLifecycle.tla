---------------------------- MODULE ServerLifecycle ----------------------------
(***************************************************************************)
(* What ConnectionManager (src/src/protocol/manager.rs) promises of the    *)
(* connections it manages, whatever tasks and channels it uses to keep it: *)
(* a connection moves only forward, from pending through serving and       *)
(* leaving to closed; at most one serves; one that is turned away is       *)
(* turned away for a server that serves; and leaving comes to an end.      *)
(***************************************************************************)
CONSTANT Conn

VARIABLE stage

Stage == {"absent", "pending", "serving", "leaving", "closed"}

Serving == {c \in Conn : stage[c] = "serving"}

Init == stage = [c \in Conn |-> "absent"]

\* The handshake completed.
Arrive(c) ==
    /\ stage[c] = "absent"
    /\ stage' = [stage EXCEPT ![c] = "pending"]

\* c wins: the one that served leaves, or is closed already.
Elect(c) ==
    /\ stage[c] = "pending"
    /\ \E after \in {"leaving", "closed"} :
          stage' = [d \in Conn |-> IF d = c THEN "serving"
                                   ELSE IF d \in Serving THEN after
                                   ELSE stage[d]]

\* c loses against a server that serves.
Reject(c) ==
    /\ stage[c] = "pending"
    /\ Serving # {}
    /\ stage' = [stage EXCEPT ![c] = "leaving"]

\* The application disconnects the server.
Dismiss(c) ==
    /\ stage[c] = "serving"
    /\ stage' = [stage EXCEPT ![c] = "leaving"]

\* Connections end: their peer left, their flush is over, or all are torn down.
Close(S) ==
    /\ S # {}
    /\ \A c \in S : stage[c] \in {"pending", "serving", "leaving"}
    /\ stage' = [c \in Conn |-> IF c \in S THEN "closed" ELSE stage[c]]

Next ==
    \/ \E c \in Conn : Arrive(c) \/ Elect(c) \/ Reject(c) \/ Dismiss(c)
    \/ \E S \in SUBSET Conn : Close(S)

Spec == Init /\ [][Next]_stage

\* A goodbye does not take for ever.
LeavingEnds(c) == stage[c] = "leaving" /\ Close({c})

FairSpec == Spec /\ \A c \in Conn : WF_stage(LeavingEnds(c))
================================================================================
