---------------------------- MODULE MCPlaybackQueue ----------------------------
(* Mixed arrivals: any three buffers of one or two frames near each other.      *)
(* Gapless arrivals: every way to cut an unbroken stream into four buffers,     *)
(* from every phase of the grid of timestamps.  Both are in units of 8 to 3     *)
(* frames, so that a frame is not a whole number of them.                       *)
EXTENDS PlaybackQueue

Near == [ts : {0, 3, 5, 8}, frames : {1, 2}]

MixedArrivals == [1..3 -> Near]

Floor(f) == (f * Second) \div Rate

Cuts(f) == {<<[ts |-> Floor(f), frames |-> a],
              [ts |-> Floor(f + a), frames |-> b],
              [ts |-> Floor(f + a + b), frames |-> c],
              [ts |-> Floor(f + a + b + c), frames |-> d]>> :
                a \in 1..3, b \in 1..3, c \in 1..3, d \in 1..2}

GaplessArrivals == UNION {Cuts(f) : f \in 0..(Rate - 1)}

MCArrivals == MixedArrivals \cup GaplessArrivals
================================================================================
