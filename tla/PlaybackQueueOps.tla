---------------------------- MODULE PlaybackQueueOps ----------------------------
(***************************************************************************)
(* PlaybackQueue (src/src/audio/renderer.rs) as operators on a record pq:  *)
(* buffers ordered by server time, the buffer being played, and a cursor,  *)
(* the server time being played, which advances by whole time units and    *)
(* keeps the remainder.  Shared by the callback thread and the application *)
(* under one mutex, so each operation is one step wherever it is used.     *)
(*                                                                         *)
(* A buffer is its timestamp and its number of frames; its samples are not *)
(* modelled, and every buffer has the format of the stream.                *)
(***************************************************************************)
EXTENDS Integers, Sequences, SequencesExt, FiniteSetsExt

CONSTANTS
    Second, \* time units (microseconds in the code) in one second
    Rate    \* frames in one second

ASSUME QueueAssumption ==
    /\ Second \in Nat \ {0}
    /\ Rate \in Nat \ {0}

Buffer   == [ts : Int, frames : Nat]
NoBuffer == [ts |-> 0, frames |-> 0]

---------------------------------------------------------------------------
(* Buffers *)

\* AudioFormat::duration_us: to the nearest unit.
Duration(n) == (n * Second + Rate \div 2) \div Rate

EndOf(b) == b.ts + Duration(b.frames)

\* One frame, rounded up: a shorter overlap is timestamp rounding.
FrameTime == (Second + Rate - 1) \div Rate

\* Of two buffers, the time both cover; negative for a gap.
Overlap(a, b) == Min({EndOf(a), EndOf(b)}) - Max({a.ts, b.ts})

---------------------------------------------------------------------------
(* Operations of the queue *)

\* PlaybackQueue::new, at generation 0.
Fresh(generation) ==
    [queue |-> <<>>, current |-> NoBuffer, index |-> 0, cursor |-> 0,
     remainder |-> 0, initialized |-> FALSE, generation |-> generation,
     force |-> TRUE]

\* clear
Cleared(pq) == Fresh(pq.generation + 1)

\* Mutant of Retained: any overlap evicts.
EvictAny(q, b) == SelectSeq(q, LAMBDA a : Overlap(a, b) <= 0)

\* Queued buffers that b does not replace, of the first i for each i.
KeptOf(q, b) ==
    LET kept[i \in 0..Len(q)] ==
            IF i = 0 THEN <<>>
            ELSE IF Overlap(q[i], b) < FrameTime THEN Append(kept[i - 1], q[i])
            ELSE kept[i - 1]
    IN  kept

Retained(q, b) == KeptOf(q, b)[Len(q)]

\* Mutant of Inserted: at the end.
AtTheEnd(q, b) == Append(q, b)

\* b goes before the first buffer that starts later.
Inserted(q, b) ==
    LET later == {i \in DOMAIN q : q[i].ts > b.ts}
    IN  IF later = {} THEN Append(q, b) ELSE InsertAt(q, Min(later), b)

\* push: the first buffer sets the cursor.
Pushed(pq, b) ==
    LET first == ~pq.initialized
    IN  [pq EXCEPT !.cursor      = IF first THEN b.ts ELSE @,
                   !.remainder   = IF first THEN 0 ELSE @,
                   !.initialized = TRUE,
                   !.queue       = Inserted(Retained(@, b), b)]

\* Frames of b behind the cursor when it is taken.
Skip(pq, b) ==
    IF pq.initialized /\ b.ts < pq.cursor
    THEN Min({((pq.cursor - b.ts) * Rate) \div Second, b.frames})
    ELSE 0

\* Buffers at the front that end before the cursor.
Stale(pq) == {i \in DOMAIN pq.queue :
                 pq.initialized /\ \A j \in 1..i : EndOf(pq.queue[j]) < pq.cursor}

\* A buffer is popped until one is left with a frame to play; that one is current.
Taken(pq) ==
    LET q    == pq.queue
        good == {i \in DOMAIN q \ Stale(pq) : Skip(pq, q[i]) < q[i].frames}
        k    == Min(good)
    IN  IF good = {}
        THEN [pq EXCEPT !.queue = <<>>, !.current = NoBuffer, !.index = 0]
        ELSE [pq EXCEPT !.queue       = SubSeq(q, k + 1, Len(q)),
                        !.current     = q[k],
                        !.index       = Skip(pq, q[k]),
                        !.cursor      = IF pq.initialized THEN @ ELSE q[k].ts,
                        !.remainder   = IF pq.initialized THEN @ ELSE 0,
                        !.initialized = TRUE]

\* The current buffer (none has no frames) has been played.
NeedsBuffer(pq) == pq.index >= pq.current.frames

\* pq with a buffer in hand, if there is one to play.
Ready(pq) == IF NeedsBuffer(pq) THEN Taken(pq) ELSE pq

\* next_frame returns Some.
HasFrame(pq) == ~NeedsBuffer(Ready(pq))

\* Mutant of Advanced: the remainder is lost.
NoRemainder(pq) ==
    [pq EXCEPT !.cursor = @ + (pq.remainder + Second) \div Rate, !.remainder = 0]

\* Mutant of Advanced: the remainder is not reduced.
RemainderGrows(pq) ==
    [pq EXCEPT !.cursor    = @ + (pq.remainder + Second) \div Rate,
               !.remainder = @ + Second]

\* advance_cursor: one frame's time, the remainder kept.
Advanced(pq) ==
    [pq EXCEPT !.cursor    = @ + (pq.remainder + Second) \div Rate,
               !.remainder = (@ + Second) % Rate]

\* next_frame: one frame is played, or on an underrun nothing moves.
FrameRead(pq) ==
    LET r == Ready(pq)
    IN  IF NeedsBuffer(r) THEN r ELSE Advanced([r EXCEPT !.index = @ + 1])

\* first_playable_cursor_at_or_after, as a set of at most one time.
FirstPlayable(pq, t) ==
    LET c     == pq.current
        start == Max({c.ts, pq.cursor})
        later == {i \in DOMAIN pq.queue : EndOf(pq.queue[i]) > t}
    IN  IF c # NoBuffer /\ EndOf(c) > Max({t, start}) THEN {Max({start, t})}
        ELSE IF later # {} THEN {Max({pq.queue[Min(later)].ts, t})}
        ELSE {}

\* The renderer moves the cursor; the buffer in hand stays where it is.
Sought(pq, t) == [pq EXCEPT !.cursor = t, !.remainder = 0]

\* Frames in the first i buffers of s, for each i.
FramesOfFirst(s) ==
    LET frames[i \in 0..Len(s)] == IF i = 0 THEN 0 ELSE frames[i - 1] + s[i].frames
    IN  frames

Frames(s) == FramesOfFirst(s)[Len(s)]

\* queued_frames
QueuedFrames(pq) == (pq.current.frames - pq.index) + Frames(pq.queue)
================================================================================
