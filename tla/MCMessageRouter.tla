----------------------------- MODULE MCMessageRouter -----------------------------
(* Frames for MessageRouter: the hello, one frame of every other sort, and the  *)
(* starts and ends of streams of one and of several roles.                      *)
EXTENDS MessageRouter

Text(m)       == [kind |-> "text", msg |-> m]
Stream(m, rs) == [kind |-> "text", msg |-> m, roles |-> rs]
Bin(t, n)     == [kind |-> "binary", type |-> t, len |-> n]
Bare(k)       == [kind |-> k]

MCFrames ==
    {Text("hello"), Text("time"), Text("garbled"), Bare("close"),
     Bin(4, 9), Bin(4, 8), Bin(11, 9), Bin(20, 12),
     Stream("start", {"player"}), Stream("start", {"artwork", "visualizer"}),
     Stream("end", {"artwork"}), Stream("end", AllRoles)}
================================================================================
