--------------------------- MODULE PlaybackQueue_proofs ---------------------------
(***************************************************************************)
(* Proofs about PlaybackQueue for any buffers, rates and arrivals: the     *)
(* queue is one time line in order, the cursor counts the frames played,   *)
(* and an unbroken stream is played without losing a frame.                *)
(***************************************************************************)
EXTENDS PlaybackQueue, PlaybackQueueOps_proofs

---------------------------------------------------------------------------
(* The state is of its type, and the queue is in order *)

Played == [ts : Int, frame : Nat, at : Int, new : BOOLEAN]

\* TypeOK and OneTimeline with what they rest on: a queue that is not initialized
\* is empty.
QueueInv ==
    /\ GoodQueue(pq) /\ pq.generation \in 0..MaxClears
    /\ arriving \in Seq(Buffer) /\ pushed \in Seq(Buffer) /\ heard \in Seq(Played)
    /\ anchor \in Int /\ count \in Nat /\ moves \in 0..MaxMoves
    /\ \A i \in DOMAIN heard :
          heard[i].new =>
              heard[i].ts * Rate + (heard[i].frame + 1) * Second > heard[i].at * Rate

LEMMA QueueInit == ASSUME Init PROVE QueueInv
<1>1. 0 \in 0..MaxClears /\ 0 \in 0..MaxMoves
  BY ArrivalsAssumption
<1>2. arriving \in Seq(Buffer)
  BY ArrivalsAssumption DEF Init, Buffer
<1>3. GoodQueue(pq) /\ pq.generation \in 0..MaxClears
  BY <1>1, FreshGood DEF Init
<1>4. pushed = <<>> /\ heard = <<>> /\ anchor = 0 /\ count = 0 /\ moves = 0
  BY DEF Init
<1> QED BY <1>1, <1>2, <1>3, <1>4 DEF QueueInv

LEMMA EnqueueKeeps == ASSUME QueueInv, Enqueue PROVE QueueInv'
<1> USE DEF QueueInv
<1>1. PICK b : b = Head(arriving)
  OBVIOUS
<1>2. b \in Buffer /\ arriving' \in Seq(Buffer)
  BY <1>1 DEF Enqueue
<1>3. pq' = Pushed(pq, b) /\ pushed' = Append(pushed, b)
  BY <1>1 DEF Enqueue
<1>4. GoodQueue(pq') /\ pq'.generation \in 0..MaxClears
  BY <1>2, <1>3, PushedGood
<1>5. anchor' \in Int /\ count' \in Nat /\ heard' = heard /\ moves' = moves
  BY <1>1, <1>2, BufferFacts DEF Enqueue
<1> QED BY <1>2, <1>3, <1>4, <1>5

LEMMA ClearKeeps == ASSUME QueueInv, Clear PROVE QueueInv'
<1> USE DEF QueueInv
<1>1. pq.generation \in 0..MaxClears /\ pq.generation < MaxClears
  BY DEF Clear
<1>2. pq.generation + 1 \in 0..MaxClears
  BY <1>1, ArrivalsAssumption
<1>3. GoodQueue(pq') /\ pq'.generation \in 0..MaxClears
  BY <1>2, FreshGood DEF Clear, Cleared
<1>4. /\ pushed' = <<>> /\ heard' = <<>> /\ anchor' = 0 /\ count' = 0
      /\ arriving' = arriving /\ moves' = moves
  BY DEF Clear
<1> QED BY <1>3, <1>4

\* The frame that is heard, and that it is the one after the cursor.
LEMMA HeardFacts ==
    ASSUME QueueInv, NextFrame, HasFrame(pq)
    PROVE  \E x \in Played :
              /\ heard' = Append(heard, x)
              /\ x.ts = Ready(pq).current.ts /\ x.frame = Ready(pq).index
              /\ x.new => x.ts * Rate + (x.frame + 1) * Second > x.at * Rate
<1>1. PICK r : r = Ready(pq)
  OBVIOUS
<1> DEFINE x == [ts |-> r.current.ts, frame |-> r.index, at |-> r.cursor,
                 new |-> NeedsBuffer(pq)]
<1>2. GoodQueue(pq) /\ GoodQueue(r) /\ SameCursor(pq, r) /\ ~NeedsBuffer(r)
  BY <1>1, ReadyGood DEF QueueInv, HasFrame
<1>3. r.current \in Buffer /\ r.index \in Nat /\ r.cursor \in Int /\ r.cursor = pq.cursor
  BY <1>2 DEF GoodQueue, QueueType, SameCursor
<1>4. heard' = Append(heard, x)
  BY <1>1 DEF NextFrame
<1>5. x \in Played
  <2>1. NeedsBuffer(pq) \in BOOLEAN
    BY DEF NeedsBuffer
  <2>2. r.current.ts \in Int
    BY <1>3, BufferFacts
  <2> QED BY <1>3, <2>1, <2>2 DEF Played
<1>6. ASSUME NeedsBuffer(pq)
      PROVE  r.current.ts * Rate + (r.index + 1) * Second > r.cursor * Rate
  <2>1. /\ r.index = Skip(pq, r.current) /\ r.index < r.current.frames
        /\ pq.initialized
    BY <1>1, <1>2, <1>6, ReadyGood
  <2> QED BY <1>2, <1>3, <2>1, SkipFacts
<1> QED BY <1>1, <1>4, <1>5, <1>6

LEMMA NextFrameKeeps == ASSUME QueueInv, NextFrame PROVE QueueInv'
<1>1. GoodQueue(pq') /\ pq'.generation \in 0..MaxClears
  BY ReadGood DEF QueueInv, NextFrame
<1>2. arriving' = arriving /\ pushed' = pushed /\ anchor' = anchor /\ moves' = moves
  BY DEF NextFrame
<1>3. CASE HasFrame(pq)
  <2>1. count' \in Nat
    BY <1>3 DEF NextFrame, QueueInv
  <2>2. PICK x \in Played :
           /\ heard' = Append(heard, x)
           /\ x.new => x.ts * Rate + (x.frame + 1) * Second > x.at * Rate
    BY <1>3, HeardFacts
  <2>3. heard \in Seq(Played)
    BY DEF QueueInv
  <2>4. heard' \in Seq(Played)
    BY <2>2, <2>3
  <2>5. \A i \in DOMAIN heard' :
          heard'[i].new =>
              heard'[i].ts * Rate + (heard'[i].frame + 1) * Second > heard'[i].at * Rate
    <3> SUFFICES ASSUME NEW i \in DOMAIN heard', heard'[i].new
                 PROVE  heard'[i].ts * Rate + (heard'[i].frame + 1) * Second
                            > heard'[i].at * Rate
      OBVIOUS
    <3>1. CASE i \in DOMAIN heard
      <4>1. heard'[i] = heard[i]
        BY <2>2, <2>3, <3>1
      <4> QED BY <3>1, <4>1 DEF QueueInv
    <3>2. CASE i \notin DOMAIN heard
      <4>1. heard'[i] = x
        BY <2>2, <2>3, <3>2
      <4> QED BY <2>2, <4>1
    <3> QED BY <3>1, <3>2
  <2> QED BY <1>1, <1>2, <2>1, <2>4, <2>5 DEF QueueInv
<1>4. CASE ~HasFrame(pq)
  <2>1. heard' = heard /\ count' = count
    BY <1>4 DEF NextFrame
  <2> QED BY <1>1, <1>2, <2>1 DEF QueueInv
<1> QED BY <1>3, <1>4

LEMMA MoveKeeps ==
    ASSUME QueueInv, NEW t \in Times, Handoff(t) \/ Reanchor(t)
    PROVE  QueueInv'
<1>1. t \in Int
  BY ArrivalsAssumption
<1>2. GoodQueue(pq) /\ pq.generation \in 0..MaxClears
  BY DEF QueueInv
<1>3. moves' \in 0..MaxMoves
  BY ArrivalsAssumption DEF QueueInv, Handoff, Reanchor
<1>4. /\ arriving' = arriving /\ pushed' = pushed /\ heard' = heard /\ count' = 0
  BY DEF Handoff, Reanchor
<1>5. CASE Handoff(t)
  <2>1. PICK c \in FirstPlayable(pq, t) :
           pq' = [Sought(pq, c) EXCEPT !.force = FALSE] /\ anchor' = c
    BY <1>5 DEF Handoff
  <2>2. c \in Int
    BY <1>1, <1>2, PlayableFacts
  <2>3. GoodQueue(pq') /\ pq'.generation \in 0..MaxClears
    <3>1. PICK p : p = pq'
      OBVIOUS
    <3>2. p = HandedOff(pq, c)
      BY <2>1, <3>1 DEF HandedOff
    <3>3. GoodQueue(p) /\ p.generation = pq.generation
      BY <1>2, <2>2, <3>2, HandoffGood
    <3> QED BY <1>2, <3>1, <3>3
  <2> QED BY <1>3, <1>4, <2>1, <2>2, <2>3 DEF QueueInv
<1>6. CASE Reanchor(t)
  <2>1. pq' = Sought(pq, t) /\ anchor' = t
    BY <1>6 DEF Reanchor
  <2>2. GoodQueue(pq') /\ pq'.generation \in 0..MaxClears
    BY <1>1, <1>2, <2>1, SoughtGood
  <2> QED BY <1>1, <1>3, <1>4, <2>1, <2>2 DEF QueueInv
<1> QED BY <1>5, <1>6

LEMMA QueueNext == ASSUME QueueInv, [Next]_vars PROVE QueueInv'
<1>1. CASE UNCHANGED vars
  BY <1>1 DEF vars, QueueInv
<1> QED BY <1>1, EnqueueKeeps, ClearKeeps, NextFrameKeeps, MoveKeeps DEF Next

LEMMA QueueHolds == Spec => []QueueInv
<1>1. Init => QueueInv
  BY QueueInit
<1>2. QueueInv /\ [Next]_vars => QueueInv'
  BY QueueNext
<1> QED BY <1>1, <1>2, PTL DEF Spec

\* Buffers, indices and cursors are of their types, whatever arrives and however
\* the cursor is moved: no index goes past its buffer, and the remainder stays
\* below the rate.
THEOREM TypeCorrect == Spec => []TypeOK
<1>1. QueueInv => TypeOK
  BY DEF QueueInv, GoodQueue, QueueType, Played, TypeOK
<1> QED BY <1>1, QueueHolds, PTL

\* push keeps the queue one time line in order, for any buffers in any order of
\* arrival, and next_frame never begins a buffer at a frame wholly behind the
\* cursor.
THEOREM TimelineCorrect == Spec => []OneTimeline
<1>1. QueueInv => OneTimeline
  BY DEF QueueInv, GoodQueue, Ordered, Follows, OneTimeline
<1> QED BY <1>1, QueueHolds, PTL

---------------------------------------------------------------------------
(* The cursor counts the frames *)

LEMMA CursorAdvances ==
    ASSUME NEW c \in Int, NEW r \in 0..(Rate - 1), NEW a \in Int, NEW k \in Nat,
           c * Rate + r = a * Rate + k * Second,
           NEW d, NEW m, d = (r + Second) \div Rate, m = (r + Second) % Rate
    PROVE  (c + d) * Rate + m = a * Rate + (k + 1) * Second
<1>1. Rate \in Nat \ {0} /\ Second \in Nat /\ r \in Int /\ r + Second \in Int
  BY RateFacts
<1>2. d \in Int /\ m \in Int /\ r + Second = Rate * d + m
  BY <1>1, Division
<1>3. (c + d) * Rate = c * Rate + Rate * d
  BY <1>1, <1>2
<1>4. (k + 1) * Second = k * Second + Second
  BY <1>1
<1>5. /\ c * Rate \in Int /\ Rate * d \in Int /\ a * Rate \in Int /\ k * Second \in Int
  BY <1>1, <1>2
<1>6. PICK x \in Int, y \in Int, z \in Int, w \in Int :
         x = c * Rate /\ y = Rate * d /\ z = a * Rate /\ w = k * Second
  BY <1>5
<1>7. x + r = z + w /\ r + Second = y + m
  BY <1>2, <1>6
<1>8. (x + y) + m = z + (w + Second)
  BY <1>1, <1>2, <1>7
<1> QED BY <1>3, <1>4, <1>6, <1>8

LEMMA CursorStep ==
    ASSUME QueueInv, CursorCountsFrames, [Next]_vars
    PROVE  CursorCountsFrames'
<1> USE DEF CursorCountsFrames
<1>0. /\ GoodQueue(pq) /\ pq.cursor \in Int /\ pq.remainder \in 0..(Rate - 1)
      /\ anchor \in Int /\ count \in Nat /\ Rate \in Nat /\ Second \in Nat
  BY RateFacts DEF QueueInv, GoodQueue, QueueType
<1>1. CASE Enqueue
  <2>1. PICK b : b = Head(arriving)
    OBVIOUS
  <2>2. b \in Buffer /\ pq' = Pushed(pq, b)
    BY <1>1, <2>1 DEF Enqueue, QueueInv
  <2>3. /\ pq'.cursor = (IF pq.initialized THEN pq.cursor ELSE b.ts)
        /\ pq'.remainder = (IF pq.initialized THEN pq.remainder ELSE 0)
    BY <1>0, <2>2, PushedGood
  <2>4. b.ts \in Int
    BY <2>2, BufferFacts
  <2>5. CASE pq.initialized
    <3>1. anchor' = anchor /\ count' = count
      BY <1>1, <2>5 DEF Enqueue
    <3> QED BY <2>3, <2>5, <3>1
  <2>6. CASE ~pq.initialized
    <3>1. anchor' = b.ts /\ count' = 0
      BY <1>1, <2>1, <2>6 DEF Enqueue
    <3>2. b.ts * Rate + 0 = b.ts * Rate + 0 * Second
      BY <1>0, <2>4
    <3> QED BY <2>3, <2>6, <3>1, <3>2
  <2> QED BY <2>5, <2>6
<1>2. CASE Clear
  <2>1. pq' = Fresh(pq.generation + 1) /\ anchor' = 0 /\ count' = 0
    BY <1>2 DEF Clear, Cleared
  <2>2. pq'.cursor = 0 /\ pq'.remainder = 0
    BY <2>1 DEF Fresh
  <2>3. 0 * Rate + 0 = 0 * Rate + 0 * Second
    BY <1>0
  <2> QED BY <2>1, <2>2, <2>3
<1>3. CASE NextFrame
  <2>1. pq' = FrameRead(pq) /\ anchor' = anchor
    BY <1>3 DEF NextFrame
  <2>2. CASE HasFrame(pq)
    <3>1. count' = count + 1 /\ ~NeedsBuffer(Ready(pq))
      BY <1>3, <2>2 DEF NextFrame, HasFrame
    <3>2. /\ pq'.cursor = pq.cursor + (pq.remainder + Second) \div Rate
          /\ pq'.remainder = (pq.remainder + Second) % Rate
      BY <1>0, <2>1, <3>1, ReadGood
    <3>3. PICK d, m : d = (pq.remainder + Second) \div Rate
                      /\ m = (pq.remainder + Second) % Rate
      OBVIOUS
    <3>4. (pq.cursor + d) * Rate + m = anchor * Rate + (count + 1) * Second
      <4>1. PICK c, r, a, k : c = pq.cursor /\ r = pq.remainder /\ a = anchor /\ k = count
        OBVIOUS
      <4>2. c \in Int /\ r \in 0..(Rate - 1) /\ a \in Int /\ k \in Nat
        BY <1>0, <4>1
      <4>3. c * Rate + r = a * Rate + k * Second
        BY <4>1
      <4>4. d = (r + Second) \div Rate /\ m = (r + Second) % Rate
        BY <3>3, <4>1
      <4>5. (c + d) * Rate + m = a * Rate + (k + 1) * Second
        BY <4>2, <4>3, <4>4, CursorAdvances
      <4> QED BY <4>1, <4>5
    <3>5. pq'.cursor = pq.cursor + d /\ pq'.remainder = m
      BY <3>2, <3>3
    <3> QED BY <2>1, <3>1, <3>4, <3>5
  <2>3. CASE ~HasFrame(pq)
    <3>1. count' = count /\ NeedsBuffer(Ready(pq))
      BY <1>3, <2>3 DEF NextFrame, HasFrame
    <3>2. pq'.cursor = pq.cursor /\ pq'.remainder = pq.remainder
      BY <1>0, <2>1, <3>1, ReadGood, ReadyGood DEF SameCursor
    <3> QED BY <2>1, <3>1, <3>2
  <2> QED BY <2>2, <2>3
<1>4. ASSUME NEW t \in Times, Handoff(t) \/ Reanchor(t) PROVE CursorCountsFrames'
  <2>1. t \in Int
    BY ArrivalsAssumption
  <2>2. count' = 0
    BY <1>4 DEF Handoff, Reanchor
  <2>3. pq'.cursor = anchor' /\ pq'.remainder = 0 /\ anchor' \in Int
    <3>1. CASE Handoff(t)
      <4>1. PICK c \in FirstPlayable(pq, t) :
               pq' = [Sought(pq, c) EXCEPT !.force = FALSE] /\ anchor' = c
        BY <3>1 DEF Handoff
      <4>2. c \in Int
        BY <1>0, <2>1, PlayableFacts
      <4>3. PICK p : p = pq'
        OBVIOUS
      <4>4. p = HandedOff(pq, c)
        BY <4>1, <4>3 DEF HandedOff
      <4>5. p.cursor = c /\ p.remainder = 0
        <5>1. GoodQueue(pq)
          BY DEF QueueInv
        <5> HIDE DEF CursorCountsFrames
        <5> QED BY <4>2, <4>4, <5>1, HandoffGood
      <4> QED BY <4>1, <4>2, <4>3, <4>5
    <3>2. CASE Reanchor(t)
      BY <1>0, <2>1, <3>2, SoughtGood DEF Reanchor
    <3> QED BY <1>4, <3>1, <3>2
  <2>4. anchor' * Rate + 0 = anchor' * Rate + 0 * Second
    BY <1>0, <2>3
  <2> QED BY <2>2, <2>3, <2>4
<1>5. CASE UNCHANGED vars
  BY <1>5 DEF vars
<1> QED BY <1>1, <1>2, <1>3, <1>4, <1>5 DEF Next

\* advance_cursor loses nothing to rounding, for any rate and any number of frames;
\* neither an underrun nor a buffer that is skipped moves the cursor.
THEOREM CursorCorrect == Spec => []CursorCountsFrames
<1>1. Init => CursorCountsFrames
  BY RateFacts DEF Init, Fresh, CursorCountsFrames
<1>2. QueueInv /\ CursorCountsFrames /\ [Next]_vars => CursorCountsFrames'
  BY CursorStep
<1> QED BY <1>1, <1>2, QueueHolds, PTL DEF Spec

---------------------------------------------------------------------------
(* An unbroken stream on its grid of timestamps *)

LEMMA Scaled ==
    ASSUME NEW n \in Nat \ {0}, NEW x \in Int, NEW k \in Int, n * x > n * k - n
    PROVE  x >= k
<1>1. SUFFICES ASSUME x < k PROVE FALSE
  OBVIOUS
<1>2. (k - 1) - x \in Nat
  BY <1>1
<1>3. n * ((k - 1) - x) \in Nat
  BY <1>2, Product
<1>4. n * ((k - 1) - x) = n * k - n - n * x /\ n * k \in Int /\ n * x \in Int
  OBVIOUS
<1> QED BY <1>3, <1>4

OnGrid(s, f) ==
    \A i \in DOMAIN s :
        s[i].ts - s[1].ts = ((f + Before(s, i)) * Second) \div Rate - (f * Second) \div Rate

LEMMA GaplessGrid == \A s : Gapless(s) <=> \E f \in 0..(Rate - 1) : OnGrid(s, f)
  BY DEF Gapless, OnGrid

\* Two buffers of the stream are no closer than the frames between them, but for
\* the rounding of one unit.
LEMMA GridStep ==
    ASSUME NEW s \in Seq(Buffer), NEW f \in 0..(Rate - 1), OnGrid(s, f),
           NEW i \in 1..Len(s), NEW j \in 1..Len(s), i <= j,
           NEW d, d = FramesOfFirst(s)[j - 1] - FramesOfFirst(s)[i - 1]
    PROVE  /\ d \in Nat /\ d * Second \in Nat
           /\ Rate * (s[j].ts - s[i].ts) > d * Second - Rate
           /\ s[i].ts <= s[j].ts
<1> DEFINE p == FramesOfFirst(s)[i - 1]
           q == FramesOfFirst(s)[j - 1]
           a == (f + p) * Second
           c == (f + q) * Second
<1>1. /\ Len(s) \in Nat /\ DOMAIN s = 1..Len(s)
      /\ i - 1 \in 0..Len(s) /\ j - 1 \in 0..Len(s) /\ i - 1 <= j - 1
      /\ 1 \in 1..Len(s)
  OBVIOUS
<1>2. p \in Nat /\ q \in Nat /\ p <= q
  BY <1>1, FramesFacts, FramesGrow
<1>3. s[i].ts \in Int /\ s[j].ts \in Int /\ s[1].ts \in Int
  <2>1. s[i] \in Buffer /\ s[j] \in Buffer /\ s[1] \in Buffer
    BY <1>1
  <2> QED BY <2>1, BufferFacts
<1>4. /\ s[i].ts - s[1].ts = a \div Rate - (f * Second) \div Rate
      /\ s[j].ts - s[1].ts = c \div Rate - (f * Second) \div Rate
  BY <1>1 DEF OnGrid, Before
<1>5. d \in Nat /\ d = q - p
  BY <1>2
<1> HIDE DEF p, q
<1>6. Rate \in Nat \ {0} /\ Second \in Nat /\ d * Second \in Nat
  BY <1>5, RateFacts, Product
<1>7. a \in Nat /\ c \in Nat /\ c = a + d * Second /\ f * Second \in Nat
  <2>1. f + p \in Nat /\ f + q \in Nat /\ f \in Nat
    BY <1>2, <1>6
  <2>2. a \in Nat /\ c \in Nat /\ f * Second \in Nat
    BY <1>6, <2>1, Product
  <2>3. f + q = (f + p) + d
    BY <1>2, <1>5, <2>1
  <2>4. (f + q) * Second = (f + p) * Second + d * Second
    BY <1>5, <1>6, <2>1, <2>3
  <2> QED BY <2>2, <2>4
<1> HIDE DEF a, c
<1>8. PICK x, y, z, v, w : /\ x = a \div Rate /\ y = c \div Rate
                           /\ z = (f * Second) \div Rate
                           /\ v = a % Rate /\ w = c % Rate
  OBVIOUS
<1>9. /\ x \in Int /\ v \in 0..(Rate - 1) /\ a = Rate * x + v /\ Rate * x \in Int
      /\ y \in Int /\ w \in 0..(Rate - 1) /\ c = Rate * y + w /\ Rate * y \in Int
      /\ z \in Int
  <2>1. a \in Int /\ c \in Int /\ f * Second \in Int /\ Rate \in Nat \ {0}
    BY <1>6, <1>7
  <2>2. a \div Rate \in Int /\ a % Rate \in 0..(Rate - 1)
        /\ a = Rate * (a \div Rate) + (a % Rate) /\ Rate * (a \div Rate) \in Int
    BY <2>1, Division
  <2>3. c \div Rate \in Int /\ c % Rate \in 0..(Rate - 1)
        /\ c = Rate * (c \div Rate) + (c % Rate) /\ Rate * (c \div Rate) \in Int
    BY <2>1, Division
  <2>4. (f * Second) \div Rate \in Int
    BY <2>1, Division
  <2> QED BY <1>8, <2>2, <2>3, <2>4
<1>10. x \in Int /\ y \in Int /\ z \in Int
  BY <1>9
<1>11. s[j].ts - s[i].ts = y - x
  <2>1. PICK ti \in Int, tj \in Int, t \in Int : ti = s[i].ts /\ tj = s[j].ts /\ t = s[1].ts
    BY <1>3
  <2>2. ti - t = x - z /\ tj - t = y - z
    BY <1>4, <1>8, <2>1
  <2>3. tj - ti = y - x
    BY <1>10, <2>2
  <2> QED BY <2>1, <2>3
<1>12. Rate * (y - x) = Rate * y - Rate * x
  BY <1>6, <1>10
<1>13. Rate * (y - x) > d * Second - Rate
  <2>1. PICK k \in Nat, rx \in Int, ry \in Int :
           k = d * Second /\ rx = Rate * x /\ ry = Rate * y
    BY <1>6, <1>9
  <2>2. a = rx + v /\ c = ry + w /\ c = a + k
    BY <1>7, <1>9, <2>1
  <2>3. Rate \in Nat /\ v \in 0..(Rate - 1) /\ w \in 0..(Rate - 1) /\ a \in Nat /\ c \in Nat
    BY <1>6, <1>7, <1>9
  <2>4. ry - rx > k - Rate
    BY <2>2, <2>3
  <2> QED BY <1>12, <2>1, <2>4
<1>14. y - x >= 0
  <2>1. PICK k \in Nat, z2 \in Int : k = d * Second /\ z2 = Rate * (y - x)
    BY <1>6, <1>10
  <2>2. z2 > k - Rate
    BY <1>13, <2>1
  <2>3. z2 > 0 - Rate
    BY <1>6, <2>2
  <2>4. Rate * 0 = 0
    BY <1>6
  <2>5. Rate * (y - x) > Rate * 0 - Rate
    BY <2>1, <2>3, <2>4
  <2>6. y - x \in Int /\ 0 \in Int
    BY <1>10
  <2> QED BY <1>6, <2>5, <2>6, Scaled
<1>15. s[i].ts <= s[j].ts
  <2>1. PICK ti \in Int, tj \in Int : ti = s[i].ts /\ tj = s[j].ts
    BY <1>3
  <2>2. tj - ti >= 0
    BY <1>11, <1>14, <2>1
  <2> QED BY <2>1, <2>2
<1>16. Rate * (s[j].ts - s[i].ts) > d * Second - Rate
  BY <1>11, <1>13
<1> QED BY <1>5, <1>6, <1>15, <1>16

LEMMA FrameTimeFacts == ASSUME Rate < Second PROVE FrameTime \in Int /\ FrameTime >= 2
<1>1. Rate \in Nat \ {0} /\ Second \in Nat /\ Second + Rate - 1 \in Int
  BY RateFacts
<1>2. PICK k, m : k = (Second + Rate - 1) \div Rate /\ m = (Second + Rate - 1) % Rate
  OBVIOUS
<1>3. k \in Int /\ m \in 0..(Rate - 1) /\ Second + Rate - 1 = Rate * k + m
      /\ Rate * k \in Int
  BY <1>1, <1>2, Division
<1>4. Rate * k > Rate * 2 - Rate
  <2>1. PICK r \in Int : r = Rate * k
    BY <1>3
  <2>2. Second + Rate - 1 = r + m
    BY <1>3, <2>1
  <2>3. r > Rate * 2 - Rate
    BY <1>1, <1>3, <2>2
  <2> QED BY <2>1, <2>3
<1>5. k >= 2
  BY <1>1, <1>3, <1>4, Scaled
<1> QED BY <1>2, <1>3, <1>5 DEF FrameTime

\* No two buffers of the stream overlap by a frame.
LEMMA GridOverlap ==
    ASSUME Rate < Second, NEW s \in Seq(Buffer), NEW f \in 0..(Rate - 1), OnGrid(s, f),
           NEW i \in 1..Len(s), NEW j \in 1..Len(s), i < j
    PROVE  Overlap(s[i], s[j]) < FrameTime
<1>1. PICK a, b : a = s[i] /\ b = s[j]
  OBVIOUS
<1>2. PICK d : d = FramesOfFirst(s)[j - 1] - FramesOfFirst(s)[i - 1]
  OBVIOUS
<1>3. /\ d \in Nat /\ d * Second \in Nat
      /\ Rate * (b.ts - a.ts) > d * Second - Rate
      /\ a.ts <= b.ts
  <2>1. i <= j
    OBVIOUS
  <2> QED BY <1>1, <1>2, <2>1, GridStep
<1>4. a \in Buffer /\ b \in Buffer
  BY <1>1
<1>5. /\ a.ts \in Int /\ b.ts \in Int /\ a.frames \in Nat
      /\ EndOf(a) \in Int /\ EndOf(b) \in Int
  BY <1>4, BufferFacts
<1>6. a.frames <= d
  <2>1. /\ i \in 0..Len(s) /\ j - 1 \in 0..Len(s) /\ i - 1 \in 0..Len(s) /\ i <= j - 1
        /\ i \in 1..Len(s)
    OBVIOUS
  <2>2. FramesOfFirst(s)[i] <= FramesOfFirst(s)[j - 1]
    BY <2>1, FramesGrow
  <2>3. FramesOfFirst(s)[i] = FramesOfFirst(s)[i - 1] + a.frames
    BY <1>1, <2>1, FramesFacts
  <2>4. /\ FramesOfFirst(s)[i] \in Nat /\ FramesOfFirst(s)[i - 1] \in Nat
        /\ FramesOfFirst(s)[j - 1] \in Nat
    BY <2>1, FramesFacts
  <2> QED BY <1>2, <1>5, <2>2, <2>3, <2>4
<1>7. Rate \in Nat \ {0} /\ Second \in Nat /\ Rate \div 2 \in Nat /\ Rate \div 2 < Rate
  BY RateFacts
<1>8. PICK e : e = Duration(a.frames)
  OBVIOUS
<1>9. /\ e \in Nat /\ Rate * e \in Int /\ a.frames * Second \in Nat
      /\ Rate * e <= a.frames * Second + Rate \div 2
      /\ EndOf(a) = a.ts + e
  BY <1>5, <1>8, DurationFacts DEF EndOf
<1>10. a.frames * Second <= d * Second
  <2>1. (d - a.frames) * Second \in Nat
    <3>1. d - a.frames \in Nat
      BY <1>3, <1>5, <1>6
    <3> QED BY <1>7, <3>1, Product
  <2>2. (d - a.frames) * Second = d * Second - a.frames * Second
    BY <1>3, <1>5, <1>7
  <2> QED BY <1>3, <1>9, <2>1, <2>2
<1>11. PICK x \in Int : x = EndOf(a) - b.ts
  BY <1>5
<1>12. x <= 1
  <2>1. PICK t \in Int : t = b.ts - a.ts
    BY <1>5
  <2>2. x = e - t
    <3>1. e \in Nat /\ EndOf(a) = a.ts + e
      BY <1>9
    <3>2. PICK ta \in Int, tb \in Int : ta = a.ts /\ tb = b.ts
      BY <1>5
    <3>3. x = (ta + e) - tb /\ t = tb - ta
      BY <1>11, <2>1, <3>1, <3>2
    <3> QED BY <3>1, <3>3
  <2>3. Rate * (-x) = Rate * t - Rate * e /\ Rate * t \in Int
    <3>1. e \in Int /\ Rate \in Int
      BY <1>7, <1>9
    <3>2. -x = t - e
      BY <2>2, <3>1
    <3>3. Rate * (t - e) = Rate * t - Rate * e /\ Rate * t \in Int
      BY <3>1
    <3> QED BY <3>2, <3>3
  <2>4. Rate * (-x) > Rate * (-1) - Rate
    <3>1. PICK re \in Int, rt \in Int, u \in Nat, v \in Nat :
             re = Rate * e /\ rt = Rate * t /\ u = a.frames * Second /\ v = d * Second
      BY <1>3, <1>9, <2>3
    <3>2. rt > v - Rate /\ re <= u + Rate \div 2 /\ u <= v
      BY <1>3, <1>9, <1>10, <2>1, <3>1
    <3>3. rt - re > (-Rate) - Rate
      BY <1>7, <3>2
    <3>4. Rate * (-1) = -Rate
      BY <1>7
    <3> QED BY <2>3, <3>1, <3>3, <3>4
  <2>5. -x \in Int /\ -1 \in Int
    OBVIOUS
  <2>6. -x >= -1
    BY <1>7, <2>4, <2>5, Scaled
  <2> QED BY <2>6
<1>13. Overlap(a, b) \in Int /\ Overlap(a, b) <= EndOf(a) - b.ts
  <2>1. PICK ta \in Int, tb \in Int, ea \in Int, eb \in Int, o \in Int :
           ta = a.ts /\ tb = b.ts /\ ea = EndOf(a) /\ eb = EndOf(b) /\ o = Overlap(a, b)
    BY <1>4, <1>5, OverlapFacts
  <2>2. o = (IF ea <= eb THEN ea ELSE eb) - (IF ta >= tb THEN ta ELSE tb)
    BY <1>4, <2>1, OverlapFacts
  <2>3. ta <= tb
    BY <1>3, <2>1
  <2>4. o <= ea - tb
    BY <2>2, <2>3
  <2> QED BY <2>1, <2>4
<1>14. Overlap(a, b) <= 1
  BY <1>11, <1>12, <1>13
<1> QED BY <1>1, <1>13, <1>14, FrameTimeFacts

\* After h frames the cursor is behind no buffer that begins h frames in or later.
LEMMA GridCursor ==
    ASSUME NEW s \in Seq(Buffer), NEW f \in 0..(Rate - 1), OnGrid(s, f),
           NEW j \in 1..Len(s), NEW h \in Nat, h <= FramesOfFirst(s)[j - 1],
           NEW c \in Int, NEW r \in 0..(Rate - 1),
           c * Rate + r = s[1].ts * Rate + h * Second
    PROVE  c <= s[j].ts
<1>1. PICK o, t : o = s[1].ts /\ t = s[j].ts
  OBVIOUS
<1>2. PICK d : d = FramesOfFirst(s)[j - 1] - FramesOfFirst(s)[1 - 1]
  OBVIOUS
<1>3. d \in Nat /\ d * Second \in Nat /\ Rate * (t - o) > d * Second - Rate
  <2>1. 1 \in 1..Len(s) /\ 1 <= j
    OBVIOUS
  <2> QED BY <1>1, <1>2, <2>1, GridStep
<1>4. o \in Int /\ t \in Int
  <2>1. s[1] \in Buffer /\ s[j] \in Buffer
    OBVIOUS
  <2> QED BY <1>1, <2>1, BufferFacts
<1>5. h <= d
  <2>1. 1 - 1 = 0 /\ FramesOfFirst(s)[0] = 0
    BY FramesFacts
  <2>2. FramesOfFirst(s)[j - 1] \in Nat
    <3>1. j - 1 \in 0..Len(s)
      OBVIOUS
    <3> QED BY <3>1, FramesFacts
  <2> QED BY <1>2, <2>1, <2>2
<1>6. Rate \in Nat \ {0} /\ Second \in Nat /\ r \in Int /\ 0 <= r
  BY RateFacts
<1>7. h * Second <= d * Second /\ h * Second \in Nat
  <2>1. d - h \in Nat
    BY <1>3, <1>5
  <2>2. (d - h) * Second \in Nat /\ h * Second \in Nat
    BY <1>6, <2>1, Product
  <2>3. (d - h) * Second = d * Second - h * Second
    BY <1>3, <1>6
  <2> QED BY <1>3, <2>2, <2>3
<1>8. Rate * (t - o) > Rate * (c - o) - Rate
  <2>1. c * Rate + r = o * Rate + h * Second
    BY <1>1
  <2>2. Rate * (c - o) = c * Rate - o * Rate /\ c * Rate \in Int /\ o * Rate \in Int
    BY <1>4, <1>6
  <2>3. PICK x \in Int, y \in Int, u \in Nat, v \in Nat :
           x = c * Rate /\ y = o * Rate /\ u = h * Second /\ v = d * Second
    BY <1>3, <1>7, <2>2
  <2>4. PICK z \in Int : z = Rate * (t - o)
    BY <1>4, <1>6
  <2>5. x + r = y + u /\ z > v - Rate /\ u <= v
    BY <1>3, <1>7, <2>1, <2>3, <2>4
  <2>6. z > (x - y) - Rate
    BY <1>6, <2>5
  <2> QED BY <2>2, <2>3, <2>4, <2>6
<1>9. t - o >= c - o
  <2>1. t - o \in Int /\ c - o \in Int
    BY <1>4
  <2> QED BY <1>6, <1>8, <2>1, Scaled
<1> QED BY <1>1, <1>4, <1>9

---------------------------------------------------------------------------
(* The queue is the rest of the stream *)

\* After h frames the first m buffers of s have been taken, the last of them is in
\* hand, and the queue holds the others.
AlongAt(p, s, h, m) ==
    /\ m \in 0..Len(s)
    /\ Len(p.queue) = Len(s) - m
    /\ \A i \in 1..Len(p.queue) : p.queue[i] = s[m + i]
    /\ h + (p.current.frames - p.index) = FramesOfFirst(s)[m]
    /\ p.index < p.current.frames => m # 0 /\ p.current = s[m]

\* The frames heard are those of s, from the first.
HeardOf(hd, s) ==
    \A i \in DOMAIN hd :
        \E k \in DOMAIN s :
            /\ hd[i].ts = s[k].ts
            /\ hd[i].frame < s[k].frames
            /\ Before(s, k) + hd[i].frame = i - 1

LEMMA FramesEmpty ==
    ASSUME NEW s \in Seq(Buffer), NEW m \in 0..Len(s), NEW k \in Nat, m + k <= Len(s),
           \A i \in 1..k : s[m + i].frames = 0
    PROVE  FramesOfFirst(s)[m + k] = FramesOfFirst(s)[m]
<1> DEFINE f == FramesOfFirst(s)
           S == {i \in 0..k : f[m + i] = f[m]}
<1>1. /\ f \in [0..Len(s) -> Nat] /\ Len(s) \in Nat
      /\ \A i \in 1..Len(s) : f[i] = f[i - 1] + s[i].frames
  BY FramesFacts
<1> HIDE DEF f
<1>2. 0 \in S
  BY <1>1
<1>3. ASSUME NEW i \in 0..(k - 1), i \in S PROVE i + 1 \in S
  <2>1. m + (i + 1) \in 1..Len(s) /\ i + 1 \in 1..k /\ m + i \in 0..Len(s)
        /\ (m + (i + 1)) - 1 = m + i
    BY <1>1
  <2>2. f[m + (i + 1)] = f[m + i] + s[m + (i + 1)].frames
    BY <1>1, <2>1
  <2>3. s[m + (i + 1)].frames = 0 /\ f[m + i] \in Nat /\ f[m + i] = f[m]
    BY <1>1, <1>3, <2>1
  <2>4. f[m + (i + 1)] = f[m]
    BY <2>2, <2>3
  <2> QED BY <2>1, <2>4
<1>4. \A i \in 0..k : i \in S
  <2> HIDE DEF S
  <2> QED BY <1>2, <1>3, Induction
<1>5. k \in S
  BY <1>4
<1> QED BY <1>5 DEF f

\* With no buffer behind the cursor, the next one that has a frame is taken from
\* its first.
LEMMA ReadyAlong ==
    ASSUME NEW p, GoodQueue(p), NEW s \in Seq(Buffer), NEW h \in Nat,
           NEW m \in 0..Len(s), AlongAt(p, s, h, m),
           NeedsBuffer(p) => \A j \in (m + 1)..Len(s) : p.cursor <= s[j].ts
    PROVE  \E k \in 0..Len(s) : AlongAt(Ready(p), s, h, k)
<1>1. CASE ~NeedsBuffer(p)
  BY <1>1 DEF Ready
<1>2. CASE NeedsBuffer(p)
  <2> DEFINE q == p.queue
             n == Len(s)
             f == FramesOfFirst(s)
  <2>1. /\ q \in Seq(Buffer) /\ n \in Nat /\ Len(q) = n - m /\ DOMAIN q = 1..(n - m)
        /\ \A i \in 1..(n - m) : q[i] = s[m + i] /\ q[i] \in Buffer
    BY DEF GoodQueue, QueueType, AlongAt
  <2>2. f[m] = h
    <3>1. p.current.frames \in Nat /\ p.index \in Nat /\ p.index <= p.current.frames
      BY BufferFacts DEF GoodQueue, QueueType
    <3>2. p.current.frames - p.index = 0
      BY <1>2, <3>1 DEF NeedsBuffer
    <3> QED BY <3>2 DEF AlongAt
  <2>3. f \in [0..n -> Nat] /\ \A i \in 1..n : f[i] = f[i - 1] + s[i].frames
    BY FramesFacts
  <2>4. Ready(p) = Taken(p)
    BY <1>2 DEF Ready
  <2>5. ASSUME NEW i \in 1..(n - m)
        PROVE  Skip(p, q[i]) = 0 /\ i \notin Stale(p)
    <3>1. m + i \in (m + 1)..n
      BY <2>1
    <3>2. p.cursor <= q[i].ts /\ q[i] \in Buffer
      BY <1>2, <2>1, <3>1
    <3>3. /\ p.cursor \in Int /\ q[i].ts \in Int /\ EndOf(q[i]) \in Int
          /\ q[i].ts <= EndOf(q[i])
      BY <3>2, BufferFacts DEF GoodQueue, QueueType
    <3>4. ~(EndOf(q[i]) < p.cursor)
      BY <3>2, <3>3
    <3>5. i \in 1..i
      OBVIOUS
    <3>6. i \notin Stale(p)
      BY <3>4, <3>5 DEF Stale
    <3>7. Skip(p, q[i]) = 0
      BY <3>2, <3>3, SkipFacts
    <3> QED BY <3>6, <3>7
  <2>6. ASSUME NEW i \in 1..(n - m),
               i \in Stale(p) \/ ~(Skip(p, q[i]) < q[i].frames)
        PROVE  s[m + i].frames = 0
    <3>1. ~(0 < q[i].frames)
      BY <2>5, <2>6
    <3>2. q[i].frames \in Nat /\ q[i] = s[m + i]
      BY <2>1, BufferFacts
    <3> QED BY <3>1, <3>2
  <2> HIDE DEF q, n, f
  <2>7. CASE /\ Taken(p).queue = <<>> /\ Taken(p).current = NoBuffer /\ Taken(p).index = 0
             /\ \A i \in DOMAIN q :
                   i \in Stale(p) \/ ~(Skip(p, q[i]) < q[i].frames)
    <3>1. n - m \in Nat /\ m + (n - m) = n /\ m + (n - m) <= n
      BY <2>1 DEF n
    <3>2. \A i \in 1..(n - m) : s[m + i].frames = 0
      BY <2>1, <2>6, <2>7
    <3>3. f[m + (n - m)] = f[m]
      BY <3>1, <3>2, FramesEmpty DEF n, f
    <3>4. f[n] = h
      BY <2>2, <3>1, <3>3
    <3>5. h + (0 - 0) = h /\ n \in 0..n /\ Len(<<>>) = n - n
      BY <2>1
    <3>6. AlongAt(Taken(p), s, h, n)
      BY <2>1, <2>7, <3>4, <3>5, NoBufferFacts DEF AlongAt, n, f
    <3> QED BY <2>4, <3>5, <3>6 DEF n
  <2>8. CASE \E k \in 1..Len(q) :
                /\ Taken(p).queue = SubSeq(q, k + 1, Len(q))
                /\ Taken(p).current = q[k]
                /\ Taken(p).index = Skip(p, q[k])
                /\ Skip(p, q[k]) < q[k].frames
                /\ \A i \in 1..(k - 1) :
                      i \in Stale(p) \/ ~(Skip(p, q[i]) < q[i].frames)
    <3>1. PICK k \in 1..(n - m) :
                /\ Taken(p).queue = SubSeq(q, k + 1, Len(q))
                /\ Taken(p).current = q[k]
                /\ Taken(p).index = Skip(p, q[k])
                /\ \A i \in 1..(k - 1) :
                      i \in Stale(p) \/ ~(Skip(p, q[i]) < q[i].frames)
      BY <2>1, <2>8
    <3>2. /\ m \in 0..n /\ n \in Nat /\ k - 1 \in Nat /\ m + (k - 1) <= n
          /\ \A i \in 1..(k - 1) : i \in 1..(n - m)
          /\ m + k \in 1..n /\ m + k \in 0..n /\ (m + k) - 1 = m + (k - 1)
      <4>1. m \in 0..n /\ n \in Nat /\ k \in 1..(n - m)
        BY <2>1 DEF n
      <4> QED BY <4>1
    <3>3. f[m + (k - 1)] = h
      <4>1. \A i \in 1..(k - 1) : s[m + i].frames = 0
        BY <2>6, <3>1, <3>2
      <4> QED BY <2>2, <3>2, <4>1, FramesEmpty DEF n, f
    <3>4. q[k] = s[m + k] /\ Skip(p, q[k]) = 0 /\ q[k].frames \in Nat
      <4>1. q[k] \in Buffer
        BY <2>1
      <4> QED BY <2>1, <2>5, <4>1, BufferFacts
    <3>5. h + (q[k].frames - 0) = f[m + k]
      <4>1. f[m + k] = f[m + (k - 1)] + s[m + k].frames
        BY <2>3, <3>2
      <4> QED BY <3>3, <3>4, <4>1
    <3>6. PICK r : r = SubSeq(q, k + 1, Len(q))
      OBVIOUS
    <3>7. Len(r) = n - (m + k) /\ \A i \in 1..Len(r) : r[i] = s[(m + k) + i]
      <4>1. k \in 1..Len(q) /\ Ordered(q)
        BY <2>1 DEF GoodQueue, q
      <4>2. Len(r) = Len(q) - k /\ \A i \in 1..(Len(q) - k) : r[i] = q[k + i]
        BY <2>1, <3>6, <4>1, OrderedPart
      <4>3. Len(q) - k = n - (m + k)
        BY <2>1, <3>2
      <4>4. ASSUME NEW i \in 1..(n - (m + k)) PROVE r[i] = s[(m + k) + i]
        <5>1. k + i \in 1..(n - m) /\ m + (k + i) = (m + k) + i
          BY <3>2
        <5> QED BY <2>1, <4>2, <4>3, <5>1
      <4> QED BY <4>2, <4>3, <4>4
    <3>8. Taken(p).queue = r /\ Taken(p).current = s[m + k] /\ Taken(p).index = 0
      BY <3>1, <3>4, <3>6
    <3>9. h + (Taken(p).current.frames - Taken(p).index) = f[m + k]
      BY <3>4, <3>5, <3>8
    <3>10. AlongAt(Taken(p), s, h, m + k)
      <4>1. PICK l : l = m + k
        OBVIOUS
      <4>2. /\ l \in 0..n /\ l # 0
            /\ Len(r) = n - l /\ \A i \in 1..Len(r) : r[i] = s[l + i]
            /\ Taken(p).current = s[l]
            /\ h + (Taken(p).current.frames - Taken(p).index) = f[l]
        <5>1. l \in 0..n /\ l # 0
          BY <3>2, <4>1
        <5>2. Len(r) = n - l /\ \A i \in 1..Len(r) : r[i] = s[l + i]
          BY <3>7, <4>1
        <5>3. /\ Taken(p).current = s[l]
              /\ h + (Taken(p).current.frames - Taken(p).index) = f[l]
          BY <3>8, <3>9, <4>1
        <5> QED BY <5>1, <5>2, <5>3
      <4>3. AlongAt(Taken(p), s, h, l)
        BY <3>8, <4>2 DEF AlongAt, n, f
      <4> QED BY <4>1, <4>3
    <3> QED BY <2>4, <3>2, <3>10 DEF n
  <2> QED BY <2>7, <2>8, TakenGood DEF q
<1> QED BY <1>1, <1>2

\* A frame is read: it is the next of s.
LEMMA ReadAlong ==
    ASSUME NEW r, GoodQueue(r), NEW s \in Seq(Buffer), NEW h \in Nat,
           NEW m \in 0..Len(s), AlongAt(r, s, h, m), ~NeedsBuffer(r),
           NEW p, p.queue = r.queue, p.current = r.current, p.index = r.index + 1
    PROVE  /\ AlongAt(p, s, h + 1, m)
           /\ \E k \in DOMAIN s :
                 /\ r.current.ts = s[k].ts /\ r.index < s[k].frames
                 /\ Before(s, k) + r.index = h
<1>1. /\ r.current.frames \in Nat /\ r.index \in Nat /\ r.index < r.current.frames
  BY BufferFacts DEF GoodQueue, QueueType, NeedsBuffer
<1>2. m \in 1..Len(s) /\ r.current = s[m] /\ m \in DOMAIN s
  BY <1>1 DEF AlongAt
<1> DEFINE f == FramesOfFirst(s)
<1>3. f[m] = f[m - 1] + s[m].frames /\ f[m] \in Nat /\ f[m - 1] \in Nat
  <2>1. m - 1 \in 0..Len(s)
    BY <1>2
  <2> QED BY <1>2, <2>1, FramesFacts
<1>4. h + (r.current.frames - r.index) = f[m]
  BY DEF AlongAt
<1> HIDE DEF f
<1>5. PICK n \in Nat, i \in Nat, a \in Nat, b \in Nat :
         n = r.current.frames /\ i = r.index /\ a = f[m] /\ b = f[m - 1]
  BY <1>1, <1>3
<1>6. b + i = h /\ (h + 1) + (n - (i + 1)) = a
  <2>1. s[m].frames = n
    BY <1>2, <1>5
  <2>2. a = b + n /\ h + (n - i) = a
    BY <1>3, <1>4, <1>5, <2>1
  <2> QED BY <2>2
<1>7. (h + 1) + (p.current.frames - p.index) = f[m]
  <2>1. p.current.frames = n /\ p.index = i + 1
    BY <1>5
  <2> QED BY <1>5, <1>6, <2>1
<1>8. AlongAt(p, s, h + 1, m)
  BY <1>2, <1>7 DEF AlongAt, f
<1>9. Before(s, m) + r.index = h
  BY <1>5, <1>6 DEF Before, f
<1> QED BY <1>1, <1>2, <1>8, <1>9

---------------------------------------------------------------------------
(* An unbroken stream is played without a loss *)

LosslessInv ==
    /\ pq.initialized <=> pushed # <<>>
    /\ pushed = <<>> => heard = <<>>
    /\ moves = 0 /\ pushed # <<>> => anchor = pushed[1].ts /\ count = Len(heard)
    /\ moves = 0 /\ Gapless(pushed) =>
          /\ \E m \in 0..Len(pushed) : AlongAt(pq, pushed, Len(heard), m)
          /\ HeardOf(heard, pushed)

\* What is longer by a buffer agrees on the rest.
LEMMA Appended ==
    ASSUME NEW s \in Seq(Buffer), NEW b \in Buffer
    PROVE  \E t \in Seq(Buffer) :
              /\ t = Append(s, b) /\ Len(t) = Len(s) + 1 /\ t[Len(s) + 1] = b
              /\ \A i \in 1..Len(s) : t[i] = s[i]
              /\ \A i \in 0..Len(s) : FramesOfFirst(t)[i] = FramesOfFirst(s)[i]
<1>0. PICK t : t = Append(s, b)
  OBVIOUS
<1>1. /\ Len(s) \in Nat
      /\ t \in Seq(Buffer) /\ Len(t) = Len(s) + 1 /\ t[Len(s) + 1] = b
      /\ \A i \in 1..Len(s) : t[i] = s[i]
  BY <1>0
<1> DEFINE n == Len(s)
<1>2. /\ 0 \in Nat /\ n \in Nat /\ n <= Len(s) /\ 0 + n <= Len(t)
      /\ \A i \in 1..n : s[i] = t[0 + i]
  BY <1>1
<1>3. \A i \in 0..n : FramesOfFirst(s)[i] = FramesOfFirst(t)[0 + i] - FramesOfFirst(t)[0]
  <2> HIDE DEF n
  <2> QED BY <1>1, <1>2, FramesWithin
<1>4. FramesOfFirst(t)[0] = 0 /\ \A i \in 0..n : FramesOfFirst(t)[i] \in Nat
  <2>1. \A i \in 0..n : i \in 0..Len(t)
    BY <1>1
  <2> QED BY <1>1, <2>1, FramesFacts
<1>5. \A i \in 0..n : FramesOfFirst(t)[i] = FramesOfFirst(s)[i]
  <2> SUFFICES ASSUME NEW i \in 0..n PROVE FramesOfFirst(t)[i] = FramesOfFirst(s)[i]
    OBVIOUS
  <2>1. 0 + i = i
    OBVIOUS
  <2> HIDE DEF n
  <2> QED BY <1>3, <1>4, <2>1
<1> QED BY <1>0, <1>1, <1>5

LEMMA GaplessPrefix ==
    ASSUME NEW s \in Seq(Buffer), NEW b \in Buffer, Gapless(Append(s, b))
    PROVE  Gapless(s)
<1>1. PICK t \in Seq(Buffer) :
         /\ t = Append(s, b) /\ Len(t) = Len(s) + 1
         /\ \A i \in 1..Len(s) : t[i] = s[i]
         /\ \A i \in 0..Len(s) : FramesOfFirst(t)[i] = FramesOfFirst(s)[i]
  BY Appended
<1>2. PICK f \in 0..(Rate - 1) : OnGrid(t, f)
  BY <1>1, GaplessGrid
<1>3. /\ t \in Seq(Buffer) /\ Len(t) = Len(s) + 1 /\ \A i \in 1..Len(s) : t[i] = s[i]
      /\ \A i \in 0..Len(s) : FramesOfFirst(t)[i] = FramesOfFirst(s)[i]
  BY <1>1
<1>4. OnGrid(s, f)
  <2> SUFFICES ASSUME NEW i \in 1..Len(s)
               PROVE  s[i].ts - s[1].ts =
                         ((f + Before(s, i)) * Second) \div Rate - (f * Second) \div Rate
    BY DEF OnGrid
  <2>1. i \in DOMAIN t /\ t[i] = s[i] /\ t[1] = s[1] /\ i - 1 \in 0..Len(s)
    BY <1>3
  <2>2. Before(t, i) = Before(s, i)
    BY <1>3, <2>1 DEF Before
  <2>3. t[i].ts - t[1].ts =
            ((f + Before(t, i)) * Second) \div Rate - (f * Second) \div Rate
    BY <1>2, <2>1 DEF OnGrid
  <2> QED BY <2>1, <2>2, <2>3
<1> QED BY <1>4, GaplessGrid

LEMMA InsertedLast ==
    ASSUME NEW q \in Seq(Buffer), NEW b \in Buffer, \A i \in DOMAIN q : q[i].ts <= b.ts
    PROVE  Inserted(q, b) = Append(q, b)
<1>1. \A i \in DOMAIN q : q[i].ts \in Int /\ b.ts \in Int
  <2>1. \A i \in DOMAIN q : q[i] \in Buffer
    OBVIOUS
  <2> QED BY <2>1, BufferFacts
<1>2. {i \in DOMAIN q : q[i].ts > b.ts} = {}
  BY <1>1
<1> QED BY <1>2 DEF Inserted

LEMMA LosslessEnqueue ==
    ASSUME Rate < Second, QueueInv, LosslessInv, Enqueue
    PROVE  LosslessInv'
<1>1. PICK b : b = Head(arriving)
  OBVIOUS
<1>2. b \in Buffer
  BY <1>1 DEF QueueInv, Enqueue
<1> DEFINE n == Len(pushed)
<1>3. pushed \in Seq(Buffer) /\ heard \in Seq(Played) /\ GoodQueue(pq) /\ n \in Nat
  BY DEF QueueInv
<1>4. PICK t \in Seq(Buffer) :
         /\ t = Append(pushed, b) /\ Len(t) = n + 1 /\ t[n + 1] = b
         /\ \A i \in 1..n : t[i] = pushed[i]
         /\ \A i \in 0..n : FramesOfFirst(t)[i] = FramesOfFirst(pushed)[i]
  BY <1>2, <1>3, Appended
<1>5. pushed' = t /\ heard' = heard /\ moves' = moves /\ pq' = Pushed(pq, b)
  BY <1>1, <1>4 DEF Enqueue
<1>6. /\ pq'.queue = Inserted(Retained(pq.queue, b), b)
      /\ pq'.current = pq.current /\ pq'.index = pq.index /\ pq'.initialized
  BY <1>2, <1>3, <1>5, PushedGood
<1>7. t # <<>>
  BY <1>3, <1>4
<1>8. moves = 0 => anchor' = t[1].ts /\ count' = Len(heard)
  <2>1. CASE pq.initialized
    <3>1. anchor' = anchor /\ count' = count /\ pushed # <<>>
      BY <2>1 DEF Enqueue, LosslessInv
    <3>2. t[1] = pushed[1]
      <4>1. 1 \in 1..n
        BY <1>3, <3>1
      <4> QED BY <1>4, <4>1
    <3> QED BY <3>1, <3>2 DEF LosslessInv
  <2>2. CASE ~pq.initialized
    <3>1. anchor' = b.ts /\ count' = 0 /\ pushed = <<>> /\ heard = <<>>
      BY <1>1, <2>2 DEF Enqueue, LosslessInv
    <3>2. t[1] = b
      BY <1>4, <3>1
    <3> QED BY <3>1, <3>2
  <2> QED BY <2>1, <2>2
<1>9. ASSUME moves = 0, Gapless(t)
      PROVE  /\ \E m \in 0..(n + 1) : AlongAt(pq', t, Len(heard), m)
             /\ HeardOf(heard, t)
  <2>1. Gapless(pushed)
    BY <1>2, <1>3, <1>4, <1>9, GaplessPrefix
  <2>2. PICK m \in 0..n : AlongAt(pq, pushed, Len(heard), m)
    BY <1>9, <2>1 DEF LosslessInv
  <2>3. PICK f \in 0..(Rate - 1) : OnGrid(t, f)
    BY <1>9, GaplessGrid
  <2>4. PICK q \in Seq(Buffer) : q = pq.queue
    BY <1>3 DEF GoodQueue, QueueType
  <2>5. Len(q) = n - m /\ DOMAIN q = 1..(n - m) /\ \A i \in 1..(n - m) : q[i] = pushed[m + i]
    <3>1. Len(q) = n - m /\ \A i \in 1..Len(q) : q[i] = pushed[m + i]
      BY <2>2, <2>4 DEF AlongAt
    <3> QED BY <2>4, <3>1
  <2>6. ASSUME NEW i \in 1..(n - m)
        PROVE  /\ q[i] = t[m + i]
               /\ Overlap(q[i], b) < FrameTime /\ q[i].ts <= b.ts
    <3>1. /\ m + i \in 1..n /\ m + i \in 1..Len(t) /\ n + 1 \in 1..Len(t)
          /\ m + i < n + 1 /\ m + i <= n + 1
      BY <1>3, <1>4
    <3>2. q[i] = t[m + i]
      BY <1>4, <2>5, <3>1
    <3>3. Overlap(t[m + i], t[n + 1]) < FrameTime
      BY <2>3, <3>1, GridOverlap
    <3>4. t[m + i].ts <= t[n + 1].ts
      <4>1. PICK d : d = FramesOfFirst(t)[(n + 1) - 1] - FramesOfFirst(t)[(m + i) - 1]
        OBVIOUS
      <4> QED BY <2>3, <3>1, <4>1, GridStep
    <3> QED BY <1>4, <3>2, <3>3, <3>4
  <2>7. pq'.queue = Append(q, b)
    <3>1. Retained(q, b) = q
      BY <1>2, <2>5, <2>6, RetainedAll
    <3>2. Inserted(q, b) = Append(q, b)
      BY <1>2, <2>5, <2>6, InsertedLast
    <3> QED BY <1>6, <2>4, <3>1, <3>2
  <2>8. PICK r : r = Append(q, b)
    OBVIOUS
  <2>9. Len(r) = (n + 1) - m /\ \A i \in 1..Len(r) : r[i] = t[m + i]
    <3>1. /\ Len(r) = Len(q) + 1 /\ r[Len(q) + 1] = b
          /\ \A i \in 1..Len(q) : r[i] = q[i]
      BY <1>2, <2>8
    <3>2. Len(q) + 1 = (n + 1) - m
      BY <1>3, <2>5
    <3>3. ASSUME NEW i \in 1..((n + 1) - m) PROVE r[i] = t[m + i]
      <4>1. CASE i = Len(q) + 1
        <5>1. m + i = n + 1
          BY <1>3, <3>2, <4>1
        <5> QED BY <1>4, <3>1, <4>1, <5>1
      <4>2. CASE i # Len(q) + 1
        <5>1. i \in 1..Len(q) /\ i \in 1..(n - m)
          <6>1. Len(q) = n - m /\ n \in Nat
            BY <1>3, <2>5
          <6> HIDE DEF n
          <6> QED BY <3>2, <4>2, <6>1
        <5> QED BY <2>6, <3>1, <5>1
      <4> QED BY <4>1, <4>2
    <3> QED BY <3>1, <3>2, <3>3
  <2>10. AlongAt(pq', t, Len(heard), m)
    <3>1. m \in 0..(n + 1) /\ m \in 0..n
      BY <1>3
    <3>2. FramesOfFirst(t)[m] = FramesOfFirst(pushed)[m]
      BY <1>4
    <3>3. m # 0 => t[m] = pushed[m]
      <4>1. m # 0 => m \in 1..n
        BY <1>3
      <4> QED BY <1>4, <4>1
    <3>4. /\ Len(pq'.queue) = Len(t) - m
          /\ \A i \in 1..Len(pq'.queue) : pq'.queue[i] = t[m + i]
      BY <1>4, <2>7, <2>8, <2>9
    <3>5. /\ Len(heard) + (pq'.current.frames - pq'.index) = FramesOfFirst(t)[m]
          /\ pq'.index < pq'.current.frames => m # 0 /\ pq'.current = t[m]
      BY <1>6, <2>2, <3>2, <3>3 DEF AlongAt
    <3> QED BY <1>4, <3>1, <3>4, <3>5 DEF AlongAt
  <2>11. HeardOf(heard, t)
    <3> SUFFICES ASSUME NEW i \in DOMAIN heard
                 PROVE  \E k \in DOMAIN t :
                           /\ heard[i].ts = t[k].ts
                           /\ heard[i].frame < t[k].frames
                           /\ Before(t, k) + heard[i].frame = i - 1
      BY DEF HeardOf
    <3>1. PICK k \in DOMAIN pushed : /\ heard[i].ts = pushed[k].ts
                                     /\ heard[i].frame < pushed[k].frames
                                     /\ Before(pushed, k) + heard[i].frame = i - 1
      BY <1>9, <2>1 DEF LosslessInv, HeardOf
    <3>2. k \in 1..n /\ k \in DOMAIN t /\ k - 1 \in 0..n
      BY <1>3, <1>4
    <3>3. t[k] = pushed[k] /\ Before(t, k) = Before(pushed, k)
      BY <1>4, <3>2 DEF Before
    <3> QED BY <3>1, <3>2, <3>3
  <2>12. m \in 0..(n + 1)
    BY <1>3
  <2> QED BY <2>10, <2>11, <2>12
<1> QED BY <1>4, <1>5, <1>6, <1>7, <1>8, <1>9 DEF LosslessInv

LEMMA LosslessEmpty ==
    ASSUME NEW g \in 0..MaxClears
    PROVE  AlongAt(Fresh(g), <<>>, 0, 0) /\ HeardOf(<<>>, <<>>)
<1>1. <<>> \in Seq(Buffer) /\ Len(<<>>) = 0
  OBVIOUS
<1>2. FramesOfFirst(<<>>)[0] = 0
  BY <1>1, FramesFacts
<1>3. /\ Fresh(g).queue = <<>> /\ Fresh(g).current = NoBuffer /\ Fresh(g).index = 0
  BY FreshGood
<1>4. AlongAt(Fresh(g), <<>>, 0, 0)
  BY <1>1, <1>2, <1>3, NoBufferFacts DEF AlongAt
<1> QED BY <1>4 DEF HeardOf

LEMMA LosslessClear ==
    ASSUME QueueInv, LosslessInv, Clear
    PROVE  LosslessInv'
<1>1. pq.generation \in 0..MaxClears /\ pq.generation < MaxClears
  BY DEF Clear, QueueInv, GoodQueue, QueueType
<1>2. PICK g \in 0..MaxClears : g = pq.generation + 1
  BY <1>1, ArrivalsAssumption
<1>3. pq' = Fresh(g) /\ pushed' = <<>> /\ heard' = <<>>
  BY <1>2 DEF Clear, Cleared
<1>4. ~pq'.initialized
  BY <1>3, FreshGood
<1>5. AlongAt(pq', pushed', Len(heard'), 0) /\ HeardOf(heard', pushed')
  BY <1>3, LosslessEmpty
<1>6. 0 \in 0..Len(pushed')
  BY <1>3
<1> QED BY <1>3, <1>4, <1>5, <1>6 DEF LosslessInv

LEMMA LosslessNextFrame ==
    ASSUME QueueInv, CursorCountsFrames, LosslessInv, NextFrame
    PROVE  LosslessInv'
<1> DEFINE n == Len(pushed)
           h == Len(heard)
<1>1. /\ GoodQueue(pq) /\ pushed \in Seq(Buffer) /\ heard \in Seq(Played)
      /\ n \in Nat /\ h \in Nat
  BY DEF QueueInv
<1>2. pushed' = pushed /\ anchor' = anchor /\ moves' = moves /\ pq' = FrameRead(pq)
  BY DEF NextFrame
<1>3. PICK r : r = Ready(pq)
  OBVIOUS
<1>4. GoodQueue(r) /\ SameCursor(pq, r)
  BY <1>1, <1>3, ReadyGood
<1>5. pq'.initialized = pq.initialized
  BY <1>1, <1>2, <1>3, <1>4, ReadGood DEF SameCursor
<1>6. ASSUME moves = 0, Gapless(pushed)
      PROVE  /\ HeardOf(heard, pushed)
             /\ \E m \in 0..n : AlongAt(r, pushed, h, m)
  <2>1. PICK m \in 0..n : AlongAt(pq, pushed, h, m)
    BY <1>6 DEF LosslessInv
  <2>2. PICK f \in 0..(Rate - 1) : OnGrid(pushed, f)
    BY <1>6, GaplessGrid
  <2>3. ASSUME NeedsBuffer(pq), NEW j \in (m + 1)..n
        PROVE  pq.cursor <= pushed[j].ts
    <3>1. j \in 1..n /\ m \in 0..n /\ j - 1 \in 0..n /\ m <= j - 1 /\ n # 0
      BY <1>1
    <3>2. h <= FramesOfFirst(pushed)[j - 1]
      <4>1. pq.current.frames \in Nat /\ pq.index \in Nat /\ pq.index <= pq.current.frames
        BY <1>1, BufferFacts DEF GoodQueue, QueueType
      <4>2. pq.current.frames - pq.index = 0
        BY <2>3, <4>1 DEF NeedsBuffer
      <4>3. FramesOfFirst(pushed)[m] = h
        BY <1>1, <2>1, <4>2 DEF AlongAt
      <4>4. FramesOfFirst(pushed)[m] <= FramesOfFirst(pushed)[j - 1]
        BY <1>1, <3>1, FramesGrow
      <4> QED BY <4>3, <4>4
    <3>3. anchor = pushed[1].ts /\ count = h
      BY <1>1, <1>6, <3>1 DEF LosslessInv
    <3>4. PICK c \in Int, x \in 0..(Rate - 1) : c = pq.cursor /\ x = pq.remainder
      BY <1>1 DEF GoodQueue, QueueType
    <3>5. c * Rate + x = pushed[1].ts * Rate + h * Second
      BY <3>3, <3>4 DEF CursorCountsFrames
    <3>6. c <= pushed[j].ts
      <4> HIDE DEF n, h
      <4>1. PICK s \in Seq(Buffer) : s = pushed
        BY <1>1
      <4>2. /\ OnGrid(s, f) /\ j \in 1..Len(s) /\ h <= FramesOfFirst(s)[j - 1]
            /\ c * Rate + x = s[1].ts * Rate + h * Second
        BY <2>2, <3>1, <3>2, <3>5, <4>1 DEF n
      <4>3. c <= s[j].ts
        BY <1>1, <4>2, GridCursor
      <4> QED BY <4>1, <4>3
    <3> QED BY <3>4, <3>6
  <2>4. \E k \in 0..n : AlongAt(r, pushed, h, k)
    BY <1>1, <1>3, <2>1, <2>3, ReadyAlong
  <2> QED BY <1>6, <2>4 DEF LosslessInv
<1>7. CASE NeedsBuffer(r)
  <2>1. pq' = r /\ heard' = heard /\ count' = count
    BY <1>1, <1>2, <1>3, <1>7, ReadGood DEF NextFrame, HasFrame
  <2> QED BY <1>2, <1>5, <1>6, <2>1 DEF LosslessInv
<1>8. CASE ~NeedsBuffer(r)
  <2>1. HasFrame(pq)
    BY <1>3, <1>8 DEF HasFrame
  <2>2. PICK x \in Played : /\ heard' = Append(heard, x)
                            /\ x.ts = r.current.ts /\ x.frame = r.index
    BY <1>3, <2>1, HeardFacts
  <2>3. count' = count + 1
    BY <2>1 DEF NextFrame
  <2>4. /\ Len(heard') = h + 1 /\ heard'[h + 1] = x
        /\ \A i \in 1..h : heard'[i] = heard[i]
        /\ DOMAIN heard' = 1..(h + 1)
    BY <1>1, <2>2
  <2>5. /\ pq'.queue = r.queue /\ pq'.current = r.current /\ pq'.index = r.index + 1
    BY <1>1, <1>2, <1>3, <1>8, ReadGood
  <2>6. pushed # <<>>
    <3>1. r.current # NoBuffer
      BY <1>4, <1>8, NoBufferFacts DEF NeedsBuffer, GoodQueue, QueueType
    <3>2. r.initialized
      BY <1>4, <3>1 DEF GoodQueue
    <3> QED BY <1>4, <3>2 DEF SameCursor, LosslessInv
  <2>7. ASSUME moves = 0, Gapless(pushed)
        PROVE  /\ \E m \in 0..n : AlongAt(pq', pushed, h + 1, m)
               /\ HeardOf(heard', pushed)
    <3>1. PICK m \in 0..n : AlongAt(r, pushed, h, m)
      BY <1>6, <2>7
    <3>2. PICK p : p = pq'
      OBVIOUS
    <3>3. p.queue = r.queue /\ p.current = r.current /\ p.index = r.index + 1
      BY <2>5, <3>2
    <3>4. /\ AlongAt(p, pushed, h + 1, m)
          /\ \E k \in DOMAIN pushed :
                /\ r.current.ts = pushed[k].ts /\ r.index < pushed[k].frames
                /\ Before(pushed, k) + r.index = h
      BY <1>1, <1>4, <1>8, <3>1, <3>3, ReadAlong
    <3>5. HeardOf(heard', pushed)
      <4> SUFFICES ASSUME NEW i \in 1..(h + 1)
                   PROVE  \E k \in DOMAIN pushed :
                             /\ heard'[i].ts = pushed[k].ts
                             /\ heard'[i].frame < pushed[k].frames
                             /\ Before(pushed, k) + heard'[i].frame = i - 1
        BY <2>4 DEF HeardOf
      <4>1. CASE i = h + 1
        <5>1. heard'[i] = x /\ i - 1 = h
          BY <1>1, <2>4, <4>1
        <5> QED BY <2>2, <3>4, <5>1
      <4>2. CASE i # h + 1
        <5>1. i \in 1..h /\ i \in DOMAIN heard
          BY <1>1, <4>2
        <5>2. heard'[i] = heard[i]
          BY <2>4, <5>1
        <5>3. HeardOf(heard, pushed)
          BY <1>6, <2>7
        <5> QED BY <5>1, <5>2, <5>3 DEF HeardOf
      <4> QED BY <4>1, <4>2
    <3> QED BY <3>2, <3>4, <3>5
  <2>8. moves = 0 => count' = h + 1 /\ anchor' = pushed[1].ts
    BY <1>2, <2>3, <2>6 DEF LosslessInv
  <2>9. pq'.initialized <=> pushed # <<>>
    BY <1>5 DEF LosslessInv
  <2> QED BY <1>2, <2>4, <2>6, <2>7, <2>8, <2>9 DEF LosslessInv
<1> QED BY <1>7, <1>8

LEMMA LosslessMove ==
    ASSUME QueueInv, LosslessInv, NEW t \in Times, Handoff(t) \/ Reanchor(t)
    PROVE  LosslessInv'
<1>1. moves' # 0 /\ pushed' = pushed /\ heard' = heard
  BY DEF Handoff, Reanchor, QueueInv
<1>2. GoodQueue(pq)
  BY DEF QueueInv
<1>3. pq'.initialized = pq.initialized
  <2>1. CASE Handoff(t)
    <3>1. PICK c : pq' = [Sought(pq, c) EXCEPT !.force = FALSE]
      BY <2>1 DEF Handoff
    <3> QED BY <1>2, <3>1 DEF Sought, GoodQueue, QueueType
  <2>2. CASE Reanchor(t)
    BY <1>2, <2>2 DEF Reanchor, Sought, GoodQueue, QueueType
  <2> QED BY <2>1, <2>2
<1> QED BY <1>1, <1>3 DEF LosslessInv

LEMMA LosslessStep ==
    ASSUME Rate < Second, QueueInv, CursorCountsFrames, LosslessInv, [Next]_vars
    PROVE  LosslessInv'
<1>1. CASE UNCHANGED vars
  BY <1>1 DEF vars, LosslessInv, AlongAt, HeardOf
<1> QED BY <1>1, LosslessEnqueue, LosslessClear, LosslessNextFrame, LosslessMove DEF Next

LEMMA LosslessInit == ASSUME Init PROVE LosslessInv
<1>1. 0 \in 0..MaxClears
  BY ArrivalsAssumption
<1>2. pq = Fresh(0) /\ pushed = <<>> /\ heard = <<>> /\ Len(<<>>) = 0
  BY DEF Init
<1>3. ~pq.initialized
  BY <1>1, <1>2, FreshGood
<1>4. AlongAt(pq, pushed, Len(heard), 0) /\ HeardOf(heard, pushed)
  BY <1>1, <1>2, LosslessEmpty
<1>5. 0 \in 0..Len(pushed)
  BY <1>2
<1> QED BY <1>2, <1>3, <1>4, <1>5 DEF LosslessInv

LEMMA LosslessMeans == ASSUME QueueInv, LosslessInv PROVE GaplessIsLossless
<1> SUFFICES ASSUME moves = 0, Gapless(pushed)
             PROVE  /\ Len(heard) + QueuedFrames(pq) = Frames(pushed)
                    /\ HeardOf(heard, pushed)
  BY DEF GaplessIsLossless, HeardOf
<1>1. PICK n \in Nat, q \in Seq(Buffer), s \in Seq(Buffer), h \in Nat :
         n = Len(pushed) /\ q = pq.queue /\ s = pushed /\ h = Len(heard)
  BY DEF QueueInv, GoodQueue, QueueType
<1>2. PICK m \in 0..n : AlongAt(pq, s, h, m)
  BY <1>1 DEF LosslessInv
<1>3. /\ Len(q) = n - m /\ \A i \in 1..Len(q) : q[i] = s[m + i]
      /\ h + (pq.current.frames - pq.index) = FramesOfFirst(s)[m]
      /\ Len(s) = n
  BY <1>1, <1>2 DEF AlongAt
<1>4. Frames(q) = FramesOfFirst(s)[n] - FramesOfFirst(s)[m]
  <2>1. PICK k \in Nat : k = n - m
    <3>1. n - m \in Nat
      OBVIOUS
    <3> QED BY <3>1
  <2>2. /\ m \in Nat /\ k <= Len(q) /\ m + k <= Len(s) /\ k \in 0..k /\ m + k = n
        /\ \A i \in 1..k : q[i] = s[m + i]
    BY <1>1, <1>3, <2>1
  <2>3. FramesOfFirst(q)[k] = FramesOfFirst(s)[m + k] - FramesOfFirst(s)[m]
    <3>1. \A i \in 0..k :
             FramesOfFirst(q)[i] = FramesOfFirst(s)[m + i] - FramesOfFirst(s)[m]
      BY <2>2, FramesWithin
    <3> QED BY <2>2, <3>1
  <2> QED BY <1>3, <2>1, <2>2, <2>3 DEF Frames
<1>5. /\ FramesOfFirst(s)[n] \in Nat /\ FramesOfFirst(s)[m] \in Nat
  BY <1>1, <1>3, FramesFacts
<1>6. PICK c \in Int, a \in Nat, b \in Nat, z \in Int :
         /\ c = pq.current.frames - pq.index
         /\ a = FramesOfFirst(s)[n] /\ b = FramesOfFirst(s)[m] /\ z = Frames(q)
  <2>1. pq.current \in Buffer /\ pq.index \in Nat
    BY DEF QueueInv, GoodQueue, QueueType
  <2>2. pq.current.frames \in Nat
    BY <2>1, BufferFacts
  <2>3. Frames(q) \in Int
    BY <1>4, <1>5
  <2> QED BY <1>5, <2>1, <2>2, <2>3
<1>7. h + c = b /\ z = a - b
  BY <1>3, <1>4, <1>6
<1>8. h + (c + z) = a
  BY <1>7
<1>9. QueuedFrames(pq) = c + z /\ Frames(pushed) = a
  BY <1>1, <1>6 DEF QueuedFrames, Frames
<1> QED BY <1>1, <1>8, <1>9 DEF LosslessInv

\* For any rate below one frame in a time unit, any buffers cut from an unbroken
\* stream and any interleaving of push and next_frame, no frame is dropped by
\* push's eviction or next_frame's skipping, and none is played twice.
THEOREM LosslessCorrect == Rate < Second => (Spec => []GaplessIsLossless)
<1> SUFFICES ASSUME Rate < Second PROVE Spec => []GaplessIsLossless
  OBVIOUS
<1>1. Init => LosslessInv
  BY LosslessInit
<1>2. QueueInv /\ CursorCountsFrames /\ LosslessInv /\ [Next]_vars => LosslessInv'
  BY LosslessStep
<1>3. QueueInv /\ LosslessInv => GaplessIsLossless
  BY LosslessMeans
<1> QED BY <1>1, <1>2, <1>3, QueueHolds, CursorCorrect, PTL DEF Spec
================================================================================
