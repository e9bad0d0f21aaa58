------------------------------ MODULE PlaybackQueue ------------------------------
(***************************************************************************)
(* The playback queue over time: the application pushes buffers and clears *)
(* (SyncedPlayer), the callback reads frames and moves the cursor          *)
(* (AudioRenderer::render).  When the callback moves it, and to what time, *)
(* is left open here.                                                      *)
(***************************************************************************)
EXTENDS PlaybackQueueOps

CONSTANTS
    Arrivals,  \* sequences of buffers that may arrive
    Times,     \* times the cursor may be moved to
    MaxMoves,  \* bound: times the cursor is moved
    MaxClears  \* bound: calls of clear

ASSUME ArrivalsAssumption ==
    /\ \A s \in Arrivals : s \in Seq([ts : Int, frames : Nat])
    /\ Times \subseteq Int
    /\ MaxMoves \in Nat /\ MaxClears \in Nat

VARIABLES
    pq,       \* the queue
    arriving, \* buffers yet to be pushed
    pushed,   \* buffers pushed in this generation
    heard,    \* frames played in this generation
    anchor,   \* where the cursor was last set
    count,    \* frames played since
    moves     \* times the cursor was moved

vars == <<pq, arriving, pushed, heard, anchor, count, moves>>

Init ==
    /\ pq = Fresh(0)
    /\ arriving \in Arrivals
    /\ pushed = <<>>
    /\ heard = <<>>
    /\ anchor = 0
    /\ count = 0
    /\ moves = 0

\* SyncedPlayer::enqueue
Enqueue ==
    /\ arriving # <<>>
    /\ pq' = Pushed(pq, Head(arriving))
    /\ arriving' = Tail(arriving)
    /\ pushed' = Append(pushed, Head(arriving))
    /\ IF pq.initialized THEN UNCHANGED <<anchor, count>>
                         ELSE anchor' = Head(arriving).ts /\ count' = 0
    /\ UNCHANGED <<heard, moves>>

\* SyncedPlayer::clear
Clear ==
    /\ pq.generation < MaxClears
    /\ pq' = Cleared(pq)
    /\ pushed' = <<>>
    /\ heard' = <<>>
    /\ anchor' = 0
    /\ count' = 0
    /\ UNCHANGED <<arriving, moves>>

\* The callback asks for a frame.
NextFrame ==
    /\ pq' = FrameRead(pq)
    /\ IF HasFrame(pq)
         THEN /\ heard' = Append(heard, [ts    |-> Ready(pq).current.ts,
                                         frame |-> Ready(pq).index,
                                         at    |-> Ready(pq).cursor,
                                         new   |-> NeedsBuffer(pq)])
              /\ count' = count + 1
         ELSE UNCHANGED <<heard, count>>
    /\ UNCHANGED <<arriving, pushed, anchor, moves>>

\* Startup, or a new static delay: the cursor goes to the first audio at or
\* after t, if there is any.
Handoff(t) ==
    /\ pq.initialized
    /\ pq.force
    /\ moves < MaxMoves
    /\ \E c \in FirstPlayable(pq, t) :
          /\ pq' = [Sought(pq, c) EXCEPT !.force = FALSE]
          /\ anchor' = c
    /\ count' = 0
    /\ moves' = moves + 1
    /\ UNCHANGED <<arriving, pushed, heard>>

\* A gross error: the cursor goes to t, whatever is queued.
Reanchor(t) ==
    /\ moves < MaxMoves
    /\ pq' = Sought(pq, t)
    /\ anchor' = t
    /\ count' = 0
    /\ moves' = moves + 1
    /\ UNCHANGED <<arriving, pushed, heard>>

Next ==
    \/ Enqueue \/ Clear \/ NextFrame
    \/ \E t \in Times : Handoff(t) \/ Reanchor(t)

Spec == Init /\ [][Next]_vars

---------------------------------------------------------------------------
(* Properties *)

TypeOK ==
    /\ pq \in [queue : Seq(Buffer), current : Buffer, index : Nat, cursor : Int,
               remainder : 0..(Rate - 1), initialized : BOOLEAN, generation : 0..MaxClears,
               force : BOOLEAN]
    /\ pq.index <= pq.current.frames
    /\ arriving \in Seq(Buffer) /\ pushed \in Seq(Buffer)
    /\ heard \in Seq([ts : Int, frame : Nat, at : Int, new : BOOLEAN])
    /\ anchor \in Int /\ count \in Nat /\ moves \in 0..MaxMoves

\* In whatever order buffers arrive, and however the server rebases its time
\* line, the queue is one time line, in order and nothing in it twice; and a buffer
\* is never played from a frame wholly behind the cursor: what a rebase or a moved
\* cursor left behind is skipped, not repeated.
OneTimeline ==
    /\ \A i, j \in DOMAIN pq.queue :
          i < j => /\ pq.queue[i].ts <= pq.queue[j].ts
                   /\ Overlap(pq.queue[i], pq.queue[j]) < FrameTime
    /\ \A i \in DOMAIN heard :
          heard[i].new =>
              heard[i].ts * Rate + (heard[i].frame + 1) * Second > heard[i].at * Rate

\* The cursor is exactly the frames played since it was set, however many there
\* are: no rounding builds up, and an underrun does not move it.
CursorCountsFrames ==
    pq.cursor * Rate + pq.remainder = anchor * Rate + count * Second

\* Frames before the i-th buffer of s.
Before(s, i) == FramesOfFirst(s)[i - 1]

\* s is an unbroken stream, stamped with the floor of each buffer's exact time.
Gapless(s) ==
    \E f \in 0..(Rate - 1) :
        \A i \in DOMAIN s :
            s[i].ts - s[1].ts = ((f + Before(s, i)) * Second) \div Rate - (f * Second) \div Rate

\* An unbroken stream is played frame by frame, none lost to a rounding of
\* timestamps and none twice, for any rate, buffer sizes and underruns.
GaplessIsLossless ==
    moves = 0 /\ Gapless(pushed) =>
        /\ Len(heard) + QueuedFrames(pq) = Frames(pushed)
        /\ \A i \in DOMAIN heard :
              \E k \in DOMAIN pushed :
                  /\ heard[i].ts = pushed[k].ts
                  /\ heard[i].frame < pushed[k].frames
                  /\ Before(pushed, k) + heard[i].frame = i - 1
================================================================================
