----------------------------- MODULE Renderer_proofs -----------------------------
(***************************************************************************)
(* Proofs about the renderer (Renderer), for any buffers, delays,          *)
(* latencies and callback sizes: what a callback puts out was anchored by  *)
(* one that knew its generation, and the correction is driven as           *)
(* SyncCorrection describes, so that what is proved of it is true of the   *)
(* renderer.                                                               *)
(***************************************************************************)
EXTENDS RendererReadings, SyncCorrection_proofs, PlaybackQueueOps_proofs

---------------------------------------------------------------------------
(* The renderer: its correction *)

LEMMA MinOfOne == ASSUME NEW a \in Int PROVE Min({a}) = a
<1>1. {a, a} = {a} /\ (IF a <= a THEN a ELSE a) = a
  OBVIOUS
<1> QED BY <1>1, MinOfTwo

\* A correction as a callback leaves it.
CorrOK(c) == c \in CorrSet /\ c.filter.next < c.filter.window /\ ~c.schedule.reanchor

LEMMA NewCorrOK ==
    ASSUME NEW n \in Nat, NEW c, c = [NewCorr EXCEPT !.filter = ForPeriod(@, n)]
    PROVE  CorrOK(c) /\ c.schedule = Idle
  BY NewFacts, IdleFacts DEF Good, Ring, CorrOK

LEMMA RestartedOK ==
    ASSUME NEW c \in CorrSet, NEW d, d = Restarted(c)
    PROVE  CorrOK(d) /\ d.schedule = Idle
<1>1. Good(d, <<>>) /\ d.schedule = Idle
  BY RestartedFacts
<1>2. d \in CorrSet /\ Ring(d.filter, <<>>)
  BY <1>1 DEF Good
<1>3. d.filter.next < d.filter.window
  BY <1>2 DEF Ring
<1> QED BY <1>1, <1>2, <1>3, IdleFacts DEF CorrOK

LEMMA SettlingOK ==
    ASSUME NEW c, CorrOK(c), NEW st \in BOOLEAN, NEW d, d = Settling(c, st)
    PROVE  CorrOK(d) /\ d.schedule = c.schedule
<1>1. CASE ~(st /\ ~c.seen)
  BY <1>1 DEF Settling
<1>2. CASE st /\ ~c.seen
  <2>1. PICK a : a = Forgotten(c)
    OBVIOUS
  <2>2. a \in CorrSet /\ a.schedule = c.schedule /\ Ring(a.filter, <<>>)
    BY <2>1, ForgottenFacts DEF CorrOK
  <2>3. a = [filter |-> a.filter, streak |-> a.streak, schedule |-> a.schedule,
             seen |-> a.seen]
    BY <2>2, CorrFields
  <2>4. d = [a EXCEPT !.seen = TRUE]
    BY <1>2, <2>1 DEF Settling
  <2>5. d = [filter |-> a.filter, streak |-> a.streak, schedule |-> a.schedule,
             seen |-> TRUE]
    BY <2>3, <2>4
  <2>6. d \in CorrSet /\ d.filter = a.filter /\ d.schedule = a.schedule
    BY <2>2, <2>5, CorrFields DEF CorrSet
  <2>7. d.filter.next < d.filter.window
    BY <2>2, <2>6 DEF Ring
  <2> QED BY <2>2, <2>6, <2>7 DEF CorrOK
<1> QED BY <1>1, <1>2

LEMMA MeasuredOK ==
    ASSUME NEW c, CorrOK(c), NEW raw \in Int, NEW st \in BOOLEAN,
           NEW d, d = Measured(c, raw, st)
    PROVE  d \in CorrSet /\ d.filter.next < d.filter.window
<1>1. c \in CorrSet /\ c.filter \in FilterSet /\ c.filter.next < c.filter.window
  BY CorrFields DEF CorrOK
<1>2. PICK f : f = Recorded(c.filter, raw)
  OBVIOUS
<1>3. d \in CorrSet /\ d.filter = f
  BY <1>1, <1>2, MeasuredFacts
<1>4. Writes(c.filter, raw, f)
  BY <1>1, <1>2, RecordedWrites
<1>5. c.filter.next \in Nat /\ c.filter.window \in Nat \ {0}
  BY <1>1, FilterFields
<1>6. f.next = (c.filter.next + 1) % c.filter.window /\ f.window = c.filter.window
  BY <1>4 DEF Writes
<1>7. f.next < f.window
  BY <1>1, <1>5, <1>6, NextPlace
<1> QED BY <1>3, <1>7

---------------------------------------------------------------------------
(* The renderer: its record *)

RendererSet == [started : BOOLEAN, gen : 0..MaxClears, floor : SUBSET Deltas,
                insertIn : Nat, dropIn : Nat, corr : CorrSet]

\* The counters run within the schedule, and of latencies at most one is the least.
GoodRenderer(s) ==
    /\ s \in RendererSet
    /\ s.floor = {} \/ \E d \in Deltas : s.floor = {d}
    /\ CorrOK(s.corr)
    /\ s.insertIn <= s.corr.schedule.insert
    /\ s.dropIn <= s.corr.schedule.drop

\* What a change of the correction leaves alone.
SameCallback(s, t) == t.started = s.started /\ t.gen = s.gen /\ t.floor = s.floor

LEMMA RendererFields ==
    ASSUME NEW s \in RendererSet
    PROVE  /\ s.started \in BOOLEAN /\ s.gen \in 0..MaxClears /\ s.floor \subseteq Deltas
           /\ s.insertIn \in Nat /\ s.dropIn \in Nat /\ s.corr \in CorrSet
           /\ s = [started |-> s.started, gen |-> s.gen, floor |-> s.floor,
                   insertIn |-> s.insertIn, dropIn |-> s.dropIn, corr |-> s.corr]
  BY DEF RendererSet

LEMMA ScheduleFields ==
    ASSUME NEW c, CorrOK(c)
    PROVE  /\ c \in CorrSet /\ c.schedule \in Schedule
           /\ c.schedule.insert \in Nat /\ c.schedule.drop \in Nat
  BY CorrFields DEF CorrOK, Schedule

\* A renderer is good that has a good correction and its counters within it.
LEMMA RendererMade ==
    ASSUME NEW b \in BOOLEAN, NEW g \in 0..MaxClears, NEW l, l \subseteq Deltas,
           l = {} \/ \E d \in Deltas : l = {d},
           NEW n \in Nat, NEW k \in Nat, NEW c, CorrOK(c),
           n <= c.schedule.insert, k <= c.schedule.drop,
           NEW t, t = [started |-> b, gen |-> g, floor |-> l, insertIn |-> n,
                       dropIn |-> k, corr |-> c]
    PROVE  GoodRenderer(t)
<1>1. c \in CorrSet
  BY DEF CorrOK
<1>2. t \in RendererSet
  BY <1>1 DEF RendererSet
<1>3. t.floor = l /\ t.corr = c /\ t.insertIn = n /\ t.dropIn = k
  OBVIOUS
<1> QED BY <1>2, <1>3 DEF GoodRenderer

LEMMA ResetGood ==
    ASSUME NEW s \in RendererSet, s.floor = {} \/ \E d \in Deltas : s.floor = {d},
           NEW t, t = Reset(s)
    PROVE  GoodRenderer(t) /\ SameCallback(s, t)
<1>1. PICK c : c = Restarted(s.corr)
  OBVIOUS
<1>2. CorrOK(c) /\ c.schedule = Idle
  BY <1>1, RendererFields, RestartedOK
<1>3. 0 <= c.schedule.insert /\ 0 <= c.schedule.drop
  BY <1>2, IdleFacts
<1>4. t = [started |-> s.started, gen |-> s.gen, floor |-> s.floor, insertIn |-> 0,
           dropIn |-> 0, corr |-> c]
  <2>1. s = [started |-> s.started, gen |-> s.gen, floor |-> s.floor,
             insertIn |-> s.insertIn, dropIn |-> s.dropIn, corr |-> s.corr]
    BY RendererFields
  <2>2. t = [s EXCEPT !.corr = c, !.insertIn = 0, !.dropIn = 0]
    BY <1>1, <2>1 DEF Reset
  <2> QED BY <2>1, <2>2
<1>5. /\ s.started \in BOOLEAN /\ s.gen \in 0..MaxClears /\ s.floor \subseteq Deltas
  BY RendererFields
<1>6. GoodRenderer(t)
  BY <1>2, <1>3, <1>4, <1>5, RendererMade
<1> QED BY <1>4, <1>6 DEF SameCallback

LEMMA AdoptsGood ==
    ASSUME NEW s, GoodRenderer(s), NEW c, CorrOK(c), NEW t, t = Adopts(s, c)
    PROVE  GoodRenderer(t) /\ SameCallback(s, t)
<1>1. /\ s.started \in BOOLEAN /\ s.gen \in 0..MaxClears /\ s.floor \subseteq Deltas
      /\ s.insertIn \in Nat /\ s.dropIn \in Nat
      /\ s.floor = {} \/ \E d \in Deltas : s.floor = {d}
      /\ s = [started |-> s.started, gen |-> s.gen, floor |-> s.floor,
              insertIn |-> s.insertIn, dropIn |-> s.dropIn, corr |-> s.corr]
  BY RendererFields DEF GoodRenderer
<1>2. c.schedule.insert \in Nat /\ c.schedule.drop \in Nat
  BY ScheduleFields
<1>3. CASE c.schedule = s.corr.schedule
  <2>1. t = [s EXCEPT !.corr = c]
    BY <1>3 DEF Adopts
  <2>2. t = [started |-> s.started, gen |-> s.gen, floor |-> s.floor,
             insertIn |-> s.insertIn, dropIn |-> s.dropIn, corr |-> c]
    BY <1>1, <2>1
  <2>3. s.insertIn <= c.schedule.insert /\ s.dropIn <= c.schedule.drop
    BY <1>3 DEF GoodRenderer
  <2>4. GoodRenderer(t)
    BY <1>1, <2>2, <2>3, RendererMade
  <2> QED BY <2>2, <2>4 DEF SameCallback
<1>4. CASE c.schedule # s.corr.schedule
  <2>1. PICK n \in Nat, k \in Nat : n = c.schedule.insert /\ k = c.schedule.drop
    BY <1>2
  <2>2. t = [s EXCEPT !.corr = c, !.insertIn = n, !.dropIn = k]
    BY <1>4, <2>1 DEF Adopts
  <2>3. t = [started |-> s.started, gen |-> s.gen, floor |-> s.floor,
             insertIn |-> n, dropIn |-> k, corr |-> c]
    BY <1>1, <2>2
  <2>4. n <= c.schedule.insert /\ k <= c.schedule.drop
    BY <1>2, <2>1
  <2>5. GoodRenderer(t)
    BY <1>1, <2>1, <2>3, <2>4, RendererMade
  <2> QED BY <2>3, <2>5 DEF SameCallback
<1> QED BY <1>3, <1>4

---------------------------------------------------------------------------
(* The output of a callback *)

\* Queues of a generation, and what a callback makes of one: counters that never
\* exceed n and k, and frames put out.
Queues(g, f) == {p \in QueueType : GoodQueue(p) /\ p.generation = g /\ p.force = f}

OutputSet(g, f, n, k) ==
    [pq : Queues(g, f), insertIn : 0..n, dropIn : 0..k, out : Seq(SUBSET Int)]

LEMMA OutputFields ==
    ASSUME NEW g, NEW f, NEW n \in Nat, NEW k \in Nat, NEW s \in OutputSet(g, f, n, k)
    PROVE  /\ s.pq \in Queues(g, f) /\ s.insertIn \in 0..n /\ s.dropIn \in 0..k
           /\ s.out \in Seq(SUBSET Int)
           /\ s = [pq |-> s.pq, insertIn |-> s.insertIn, dropIn |-> s.dropIn,
                   out |-> s.out]
  BY DEF OutputSet

LEMMA OutputMade ==
    ASSUME NEW g, NEW f, NEW n \in Nat, NEW k \in Nat, NEW p \in Queues(g, f),
           NEW i \in 0..n, NEW d \in 0..k, NEW o \in Seq(SUBSET Int)
    PROVE  [pq |-> p, insertIn |-> i, dropIn |-> d, out |-> o] \in OutputSet(g, f, n, k)
  BY DEF OutputSet

LEMMA QueueRead ==
    ASSUME NEW g, NEW f, NEW p \in Queues(g, f)
    PROVE  FrameRead(p) \in Queues(g, f)
<1>1. GoodQueue(p) /\ p.generation = g /\ p.force = f
  BY DEF Queues
<1>2. PICK q : q = FrameRead(p)
  OBVIOUS
<1>3. GoodQueue(q) /\ q.generation = g /\ q.force = f
  BY <1>1, <1>2, ReadGood
<1>4. q \in QueueType
  BY <1>3 DEF GoodQueue
<1>5. q \in Queues(g, f)
  BY <1>3, <1>4 DEF Queues
<1> QED BY <1>2, <1>5

\* The server time of the frame that is read.
LEMMA FrameTimeIsNumber ==
    ASSUME NEW p, GoodQueue(p)
    PROVE  Ready(p).current.ts + Duration(Ready(p).index) \in Int
<1>1. Ready(p).current \in Buffer /\ Ready(p).index \in Nat
  BY ReadyGood DEF GoodQueue, QueueType
<1>2. Ready(p).current.ts \in Int /\ Duration(Ready(p).index) \in Int
  BY <1>1, BufferFacts, DurationFacts
<1> QED BY <1>2

LEMMA PlayedStays ==
    ASSUME NEW g, NEW f, NEW n \in Nat, NEW k \in Nat, NEW s \in OutputSet(g, f, n, k),
           NEW q \in Queues(g, f), NEW t, t = Played(s, q)
    PROVE  t \in OutputSet(g, f, n, k)
<1>1. PICK p : p = FrameRead(q)
  OBVIOUS
<1>2. p \in Queues(g, f)
  BY <1>1, QueueRead
<1>3. PICK x : x = IF HasFrame(q) THEN {Ready(q).current.ts + Duration(Ready(q).index)}
                   ELSE {}
  OBVIOUS
<1>4. x \in SUBSET Int
  <2>1. GoodQueue(q)
    BY DEF Queues
  <2>2. PICK y : y = Ready(q).current.ts + Duration(Ready(q).index)
    OBVIOUS
  <2>3. y \in Int
    BY <2>1, <2>2, FrameTimeIsNumber
  <2> QED BY <1>3, <2>2, <2>3
<1>5. PICK o : o = Append(s.out, x)
  OBVIOUS
<1>6. o \in Seq(SUBSET Int)
  BY <1>4, <1>5, OutputFields
<1>7. t = [s EXCEPT !.pq = p, !.out = o]
  BY <1>1, <1>3, <1>5 DEF Played
<1>8. t = [pq |-> p, insertIn |-> s.insertIn, dropIn |-> s.dropIn, out |-> o]
  <2>1. s = [pq |-> s.pq, insertIn |-> s.insertIn, dropIn |-> s.dropIn, out |-> s.out]
    BY OutputFields, Zenon
  <2> QED BY <1>7, <2>1
<1> QED BY <1>2, <1>6, <1>8, OutputFields, OutputMade

\* saturating_sub
LEMMA OneLess ==
    ASSUME NEW n \in Nat, NEW a \in 0..n, NEW b, b = Max({a - 1, 0})
    PROVE  b \in 0..n
<1>1. PICK c \in Int : c = a - 1
  OBVIOUS
<1>2. b = IF c >= 0 THEN c ELSE 0
  BY <1>1, MaxOfTwo
<1> QED BY <1>1, <1>2

\* One frame of output keeps the counters within the schedule.
LEMMA FrameStays ==
    ASSUME NEW g, NEW f, NEW n \in Nat, NEW k \in Nat,
           n = r.corr.schedule.insert, k = r.corr.schedule.drop,
           NEW s \in OutputSet(g, f, n, k), NEW u, u = OutputFrame(s)
    PROVE  u \in OutputSet(g, f, n, k)
<1>1. /\ s.pq \in Queues(g, f) /\ s.insertIn \in 0..n /\ s.dropIn \in 0..k
      /\ s.out \in Seq(SUBSET Int)
      /\ s = [pq |-> s.pq, insertIn |-> s.insertIn, dropIn |-> s.dropIn, out |-> s.out]
  <2>1. s.pq \in Queues(g, f) /\ s.insertIn \in 0..n /\ s.dropIn \in 0..k
    BY OutputFields, Zenon
  <2>2. s.out \in Seq(SUBSET Int)
    BY OutputFields, Zenon
  <2>3. s = [pq |-> s.pq, insertIn |-> s.insertIn, dropIn |-> s.dropIn, out |-> s.out]
    BY DEF OutputSet
  <2> QED BY <2>1, <2>2, <2>3, Zenon
<1>2. PICK d : d = Max({s.dropIn - 1, 0})
  OBVIOUS
<1>3. PICK i : i = Max({s.insertIn - 1, 0})
  OBVIOUS
<1>4. d \in 0..k
  BY <1>1, <1>2, OneLess
<1>5. i \in 0..n
  BY <1>1, <1>3, OneLess
<1>6. PICK e : e = IF k > 0 /\ d = 0 THEN k ELSE IF k > 0 THEN d ELSE s.dropIn
  OBVIOUS
<1>7. e \in 0..k
  BY <1>1, <1>4, <1>6
<1>8. PICK t : t = [s EXCEPT !.dropIn = e]
  OBVIOUS
<1>9. t = [pq |-> s.pq, insertIn |-> s.insertIn, dropIn |-> e, out |-> s.out]
  BY <1>1, <1>8
<1>10. t \in OutputSet(g, f, n, k)
  BY <1>1, <1>7, <1>9, OutputMade
<1>11. u = IF k > 0 /\ d = 0 THEN Played(t, FrameRead(s.pq))
           ELSE IF n > 0 /\ i = 0 THEN [t EXCEPT !.insertIn = n, !.out = Append(@, {})]
           ELSE Played([t EXCEPT !.insertIn = IF n > 0 THEN i ELSE @], s.pq)
  BY <1>2, <1>3, <1>6, <1>8 DEF OutputFrame
<1>12. CASE k > 0 /\ d = 0
  <2>1. FrameRead(s.pq) \in Queues(g, f)
    BY <1>1, QueueRead
  <2> QED BY <1>10, <1>11, <1>12, <2>1, PlayedStays
<1>13. CASE ~(k > 0 /\ d = 0) /\ (n > 0 /\ i = 0)
  <2>1. u = [t EXCEPT !.insertIn = n, !.out = Append(t.out, {})]
    BY <1>11, <1>13
  <2>2. PICK o : o = Append(s.out, {})
    OBVIOUS
  <2>3. o \in Seq(SUBSET Int)
    BY <1>1, <2>2
  <2>4. u = [pq |-> s.pq, insertIn |-> n, dropIn |-> e, out |-> o]
    BY <1>9, <2>1, <2>2
  <2>5. n \in 0..n
    OBVIOUS
  <2> QED BY <1>1, <1>7, <2>3, <2>4, <2>5, OutputMade
<1>14. CASE ~(k > 0 /\ d = 0) /\ ~(n > 0 /\ i = 0)
  <2>1. PICK j : j = IF n > 0 THEN i ELSE t.insertIn
    OBVIOUS
  <2>2. PICK v : v = [t EXCEPT !.insertIn = j]
    OBVIOUS
  <2>3. u = Played(v, s.pq)
    BY <1>11, <1>14, <2>1, <2>2
  <2>4. j \in 0..n
    BY <1>1, <1>5, <1>9, <2>1
  <2>5. v = [pq |-> s.pq, insertIn |-> j, dropIn |-> e, out |-> s.out]
    BY <1>9, <2>2
  <2>6. v \in OutputSet(g, f, n, k)
    BY <1>1, <1>7, <2>4, <2>5, OutputMade
  <2> QED BY <1>1, <2>3, <2>6, PlayedStays
<1> QED BY <1>12, <1>13, <1>14

\* The whole callback's output.
LEMMA OutputsStay ==
    ASSUME NEW g, NEW f, NEW n \in Nat, NEW k \in Nat,
           n = r.corr.schedule.insert, k = r.corr.schedule.drop,
           pq \in Queues(g, f), r.insertIn \in 0..n, r.dropIn \in 0..k
    PROVE  Outputs[Period] \in OutputSet(g, f, n, k)
<1> DEFINE D == OutputSet(g, f, n, k)
           base == [pq |-> pq, insertIn |-> r.insertIn, dropIn |-> r.dropIn, out |-> <<>>]
           step == [i \in 1..Period |-> [s \in D |-> OutputFrame(s)]]
           IsOutput(h) ==
               h = [i \in 0..Period |-> IF i = 0 THEN base ELSE OutputFrame(h[i - 1])]
<1>1. Period \in Nat
  BY RendererAssumption
<1>2. base \in D
  <2>1. <<>> \in Seq(SUBSET Int)
    OBVIOUS
  <2> QED BY <2>1, OutputMade
<1>3. \A s \in D : OutputFrame(s) \in D
  BY FrameStays
<1>4. step \in [1..Period -> [D -> D]]
  <2> HIDE DEF D
  <2> QED BY <1>3
<1>5. PICK h \in [0..Period -> D] : Runs(h, Period, base, step)
  <2> HIDE DEF D, base, step
  <2> QED BY <1>1, <1>2, <1>4, Recursion
<1>6. h[0] = base /\ \A i \in 1..Period : h[i] = OutputFrame(h[i - 1])
  <2> HIDE DEF D, base
  <2>1. h[0] = base /\ \A i \in 1..Period : h[i] = step[i][h[i - 1]]
    BY <1>5 DEF Runs
  <2>2. \A i \in 1..Period : h[i - 1] \in D
    BY <1>1, <1>5
  <2> QED BY <2>1, <2>2
<1>7. IsOutput(h)
  <2> HIDE DEF D, base
  <2> DEFINE rhs == [i \in 0..Period |-> IF i = 0 THEN base ELSE OutputFrame(h[i - 1])]
  <2>1. \A i \in 0..Period : rhs[i] = h[i]
    <3> SUFFICES ASSUME NEW i \in 0..Period PROVE rhs[i] = h[i]
      OBVIOUS
    <3>1. CASE i = 0
      BY <1>6, <3>1
    <3>2. CASE i # 0
      <4>1. i \in 1..Period
        BY <1>1, <3>2
      <4>2. rhs[i] = OutputFrame(h[i - 1])
        BY <3>2
      <4> HIDE DEF rhs
      <4> QED BY <1>6, <4>1, <4>2
    <3> QED BY <3>1, <3>2
  <2>2. rhs = [i \in 0..Period |-> rhs[i]] /\ h = [i \in 0..Period |-> h[i]]
    BY <1>5
  <2>3. rhs = h
    <3> HIDE DEF rhs
    <3> QED BY <2>1, <2>2
  <2> QED BY <2>3
<1>8. IsOutput(Outputs)
  BY <1>7, Zenon DEF Outputs
<1>9. PICK o : o = Outputs
  OBVIOUS
<1>10. o = [i \in 0..Period |-> IF i = 0 THEN base ELSE OutputFrame(o[i - 1])]
  BY <1>8, <1>9
<1> HIDE DEF D, base
<1>11. o[0] = base /\ \A i \in 1..Period : o[i] = OutputFrame(o[i - 1])
  <2> DEFINE rhs == [i \in 0..Period |-> IF i = 0 THEN base ELSE OutputFrame(o[i - 1])]
  <2>1. rhs[0] = base
    BY <1>1
  <2>2. ASSUME NEW i \in 1..Period PROVE rhs[i] = OutputFrame(o[i - 1])
    <3>1. i \in 0..Period /\ i # 0
      BY <1>1
    <3> QED BY <3>1
  <2>3. o = rhs
    BY <1>10
  <2> HIDE DEF rhs
  <2> QED BY <2>1, <2>2, <2>3
<1> DEFINE S == {i \in 0..Period : o[i] \in D}
<1>12. \A i \in 0..Period : i \in S
  <2>1. 0 \in S
    BY <1>1, <1>2, <1>11
  <2>2. ASSUME NEW i \in 0..(Period - 1), i \in S PROVE i + 1 \in S
    <3>1. i + 1 \in 1..Period /\ (i + 1) - 1 = i /\ i + 1 \in 0..Period
      BY <1>1
    <3>2. o[i + 1] = OutputFrame(o[i])
      BY <1>11, <3>1
    <3>3. o[i] \in D
      BY <2>2
    <3> QED BY <1>3, <3>1, <3>2, <3>3
  <2> HIDE DEF S
  <2> QED BY <1>1, <2>1, <2>2, Induction
<1>13. o[Period] \in D
  BY <1>1, <1>12
<1> QED BY <1>9, <1>13 DEF D

---------------------------------------------------------------------------
(* The invariant *)

CallbackSet ==
    [at : {"idle", "sync", "handoff", "plan", "render"}, gen : 0..MaxClears,
     cursor : SUBSET Int, force : BOOLEAN, delta : Deltas \cup {0},
     delay : 0..MaxDelay]

\* A callback holds at most one cursor, and one when it has passed "sync".
GoodCallback(c) ==
    /\ c \in CallbackSet
    /\ c.cursor = {} \/ \E x \in Int : c.cursor = {x}
    /\ c.at \in {"handoff", "plan"} => c.cursor # {}

\* What the application and the router leave.
StateOK ==
    /\ GoodQueue(pq) /\ pq.generation \in 0..MaxClears
    /\ arriving \in Seq(Buffer)
    /\ clock \in {"dark", "warm", "settled", "lost"}
    /\ delay \in 0..MaxDelay /\ setter \in {"idle", "stored"} /\ sets \in 0..MaxSets
    /\ now \in Nat /\ blind \in Nat

\* A callback under way knows the generation that the renderer plays; that has
\* been anchored since the callback planned, and ever since playback started.
Anchored ==
    /\ ~pq.force => handoff.gen = pq.generation
    /\ cb.at # "idle" => cb.gen = r.gen /\ r.floor # {}
    /\ cb.at = "sync" /\ ~cb.force => handoff.gen = cb.gen
    /\ cb.at = "plan" => handoff.gen = cb.gen
    /\ r.started => handoff.gen = r.gen
    /\ cb.at = "render" => r.started
    /\ heard.by = heard.saw

RenderInv == StateOK /\ GoodCallback(cb) /\ GoodRenderer(r) /\ Anchored

LEMMA NoCallbackGood == GoodCallback(NoCallback) /\ NoCallback.at = "idle"
<1>1. 0 \in 0..MaxClears /\ 0 \in 0..MaxDelay
  BY RendererAssumption
<1>2. NoCallback \in CallbackSet
  BY <1>1 DEF NoCallback, CallbackSet
<1>3. NoCallback.cursor = {} /\ NoCallback.at = "idle"
  BY DEF NoCallback
<1> QED BY <1>2, <1>3 DEF GoodCallback

LEMMA CallbackFields ==
    ASSUME NEW c \in CallbackSet
    PROVE  /\ c.at \in {"idle", "sync", "handoff", "plan", "render"}
           /\ c.gen \in 0..MaxClears /\ c.cursor \in SUBSET Int /\ c.force \in BOOLEAN
           /\ c.delta \in Deltas \cup {0} /\ c.delay \in 0..MaxDelay
           /\ c = [at |-> c.at, gen |-> c.gen, cursor |-> c.cursor, force |-> c.force,
                   delta |-> c.delta, delay |-> c.delay]
  BY DEF CallbackSet

LEMMA CallbackMade ==
    ASSUME NEW a \in {"idle", "sync", "handoff", "plan", "render"}, NEW g \in 0..MaxClears,
           NEW x, x = {} \/ \E y \in Int : x = {y}, a \in {"handoff", "plan"} => x # {},
           NEW f \in BOOLEAN, NEW d \in Deltas \cup {0}, NEW l \in 0..MaxDelay,
           NEW c, c = [at |-> a, gen |-> g, cursor |-> x, force |-> f, delta |-> d,
                       delay |-> l]
    PROVE  GoodCallback(c)
<1>1. x \in SUBSET Int
  OBVIOUS
<1>2. c \in CallbackSet
  BY <1>1 DEF CallbackSet
<1>3. c.cursor = x /\ c.at = a
  OBVIOUS
<1> QED BY <1>2, <1>3 DEF GoodCallback

LEMMA PeriodIsNumber == PeriodTime \in Nat
<1>1. Period \in Nat /\ Second \in Nat /\ Rate \in Nat \ {0}
  BY RendererAssumption, QueueAssumption
<1>2. Period * Second \in Nat
  BY <1>1
<1> QED BY <1>1, <1>2 DEF PeriodTime

LEMMA RendererInit == ASSUME Init PROVE RenderInv
<1>1. 0 \in 0..MaxClears /\ 0 \in 0..MaxDelay /\ 0 \in 0..MaxSets /\ Period \in Nat
  BY RendererAssumption
<1>2. GoodQueue(pq) /\ pq.generation \in 0..MaxClears /\ pq.force
  BY <1>1, FreshGood DEF Init
<1>3. arriving \in Seq(Buffer)
  BY RendererAssumption DEF Init
<1>4. /\ clock = "dark" /\ delay = 0 /\ setter = "idle" /\ sets = 0 /\ now = 0
      /\ cb = NoCallback /\ blind = 0
  BY DEF Init
<1>5. StateOK
  BY <1>1, <1>2, <1>3, <1>4 DEF StateOK
<1>6. GoodRenderer(r) /\ ~r.started
  <2>1. PeriodTime \in Nat
    BY PeriodIsNumber
  <2>2. PICK c : c = [NewCorr EXCEPT !.filter = ForPeriod(@, PeriodTime)]
    OBVIOUS
  <2>3. CorrOK(c) /\ c.schedule = Idle
    BY <2>1, <2>2, NewCorrOK
  <2>4. r = [started |-> FALSE, gen |-> 0, floor |-> {}, insertIn |-> 0, dropIn |-> 0,
             corr |-> c]
    BY <2>2 DEF Init
  <2>5. 0 <= c.schedule.insert /\ 0 <= c.schedule.drop
    BY <2>3, IdleFacts
  <2>6. GoodRenderer(r)
    <3>1. PICK l : l = {}
      OBVIOUS
    <3>2. l \subseteq Deltas /\ FALSE \in BOOLEAN /\ 0 \in Nat
      BY <3>1
    <3> QED BY <1>1, <2>3, <2>4, <2>5, <3>1, <3>2, RendererMade
  <2> QED BY <2>4, <2>6
<1>7. heard.by = heard.saw
  BY DEF Init
<1> QED BY <1>2, <1>4, <1>5, <1>6, <1>7, NoCallbackGood DEF RenderInv, Anchored

---------------------------------------------------------------------------
(* Steps of the application and the router *)

LEMMA EnqueueKeeps == ASSUME RenderInv, Enqueue PROVE RenderInv'
<1>1. PICK b : b = Head(arriving)
  OBVIOUS
<1>2. arriving \in Seq(Buffer) /\ arriving # <<>>
  BY DEF RenderInv, StateOK, Enqueue
<1>3. b \in Buffer /\ arriving' \in Seq(Buffer) /\ pq' = Pushed(pq, b)
  BY <1>1, <1>2 DEF Enqueue
<1>4. GoodQueue(pq)
  BY DEF RenderInv, StateOK
<1>5. GoodQueue(pq') /\ pq'.generation = pq.generation /\ pq'.force = pq.force
  BY <1>3, <1>4, PushedGood
<1>6. UNCHANGED <<clock, delay, setter, sets, now, cb, r, handoff, heard, blind>>
  BY DEF Enqueue, ghosts
<1>7. StateOK'
  BY <1>3, <1>5, <1>6 DEF RenderInv, StateOK
<1> QED BY <1>5, <1>6, <1>7 DEF RenderInv, Anchored

LEMMA ClearKeeps == ASSUME RenderInv, Clear PROVE RenderInv'
<1>1. pq.generation \in 0..MaxClears /\ pq.generation < MaxClears
  BY DEF RenderInv, StateOK, Clear
<1>2. pq.generation + 1 \in 0..MaxClears
  BY <1>1, RendererAssumption
<1>3. GoodQueue(pq') /\ pq'.generation \in 0..MaxClears /\ pq'.force
  BY <1>2, FreshGood DEF Clear, Cleared
<1>4. UNCHANGED <<arriving, clock, delay, setter, sets, now, cb, r, handoff, heard, blind>>
  BY DEF Clear, appVars, ghosts
<1>5. StateOK'
  BY <1>3, <1>4 DEF RenderInv, StateOK
<1> QED BY <1>3, <1>4, <1>5 DEF RenderInv, Anchored

LEMMA StoreDelayKeeps == ASSUME RenderInv, NEW d \in Delays, StoreDelay(d) PROVE RenderInv'
<1>1. d \in Nat /\ MaxDelay \in Nat /\ MaxSets \in Nat
  BY RendererAssumption
<1>2. delay' \in 0..MaxDelay
  <2>1. Clamped(d) = IF d <= MaxDelay THEN d ELSE MaxDelay
    BY <1>1, MinOfTwo DEF Clamped
  <2> QED BY <1>1, <2>1 DEF StoreDelay
<1>3. sets' \in 0..MaxSets /\ setter' = "stored"
  BY <1>1 DEF RenderInv, StateOK, StoreDelay
<1>4. UNCHANGED <<pq, arriving, clock, now, cb, r, handoff, heard, blind>>
  BY DEF StoreDelay, ghosts
<1>5. StateOK'
  BY <1>2, <1>3, <1>4 DEF RenderInv, StateOK
<1> QED BY <1>4, <1>5 DEF RenderInv, Anchored

LEMMA FlagDelayKeeps == ASSUME RenderInv, FlagDelay PROVE RenderInv'
<1>1. GoodQueue(pq) /\ pq.force \in BOOLEAN /\ pq.initialized \in BOOLEAN
  BY DEF RenderInv, StateOK, GoodQueue, QueueType
<1>2. PICK f : f = (pq.force \/ pq.initialized)
  OBVIOUS
<1>3. f \in BOOLEAN /\ pq' = [pq EXCEPT !.force = f]
  BY <1>1, <1>2 DEF FlagDelay
<1>4. GoodQueue(pq') /\ SameBuffers(pq, pq') /\ pq'.force = f
  BY <1>1, <1>3, FlaggedGood
<1>5. pq'.generation = pq.generation /\ (pq.force => pq'.force)
  BY <1>2, <1>4 DEF SameBuffers
<1>6. /\ setter' = "idle"
      /\ UNCHANGED <<arriving, delay, sets, clock, now, cb, r, handoff, heard, blind>>
  BY DEF FlagDelay, ghosts
<1>7. StateOK'
  BY <1>4, <1>5, <1>6 DEF RenderInv, StateOK
<1> QED BY <1>5, <1>6, <1>7 DEF RenderInv, Anchored

LEMMA ClockUpdateKeeps == ASSUME RenderInv, ClockUpdate PROVE RenderInv'
<1>1. clock' \in {"dark", "warm", "settled", "lost"}
  BY DEF ClockUpdate, Update
<1>2. UNCHANGED <<pq, arriving, delay, setter, sets, now, cb, r, handoff, heard, blind>>
  BY DEF ClockUpdate, Update, appVars, ghosts
<1>3. StateOK'
  BY <1>1, <1>2 DEF RenderInv, StateOK
<1> QED BY <1>2, <1>3 DEF RenderInv, Anchored

---------------------------------------------------------------------------
(* Steps of the callback *)

LEMMA SilentKeeps ==
    ASSUME RenderInv, Silent
    PROVE  now' \in Nat /\ GoodCallback(cb') /\ cb'.at = "idle"
<1>1. now \in Nat /\ Period \in Nat
  BY RendererAssumption DEF RenderInv, StateOK
<1> QED BY <1>1, NoCallbackGood DEF Silent

LEMMA GoesKeeps ==
    ASSUME RenderInv, Goes(r.started)
    PROVE  /\ now' \in Nat /\ GoodCallback(cb')
           /\ cb'.at = "idle" \/ (cb'.at = "render" /\ r.started /\ cb'.gen = cb.gen)
<1>1. CASE ~r.started
  BY <1>1, SilentKeeps DEF Goes
<1>2. CASE r.started
  <2>1. PICK b, c : b = cb /\ c = cb'
    OBVIOUS
  <2>2. b \in CallbackSet /\ (b.cursor = {} \/ \E x \in Int : b.cursor = {x})
    BY <2>1 DEF RenderInv, GoodCallback
  <2>3. c = [b EXCEPT !.at = "render"] /\ now' = now
    BY <1>2, <2>1 DEF Goes
  <2>4. c = [at |-> "render", gen |-> b.gen, cursor |-> b.cursor, force |-> b.force,
             delta |-> b.delta, delay |-> b.delay]
    BY <2>2, <2>3, CallbackFields
  <2>5. GoodCallback(c)
    BY <2>2, <2>4, CallbackFields, CallbackMade
  <2>6. c.at = "render" /\ c.gen = b.gen
    BY <2>4
  <2>7. now \in Nat
    BY DEF RenderInv, StateOK
  <2> QED BY <1>2, <2>1, <2>3, <2>5, <2>6, <2>7
<1> QED BY <1>1, <1>2

\* The floor of latencies after a callback with d.
LEMMA LowestFacts ==
    ASSUME RenderInv, NEW d \in Deltas
    PROVE  \E e \in Deltas : {Lowest(d)} = {e}
<1>1. Deltas \subseteq Int
  BY RendererAssumption
<1>2. CASE r.floor = {}
  <2>1. r.floor \cup {d} = {d}
    BY <1>2
  <2>2. Lowest(d) = d
    BY <1>1, <2>1, MinOfOne DEF Lowest
  <2> QED BY <2>2
<1>3. CASE r.floor # {}
  <2>1. PICK e \in Deltas : r.floor = {e}
    BY <1>3 DEF RenderInv, GoodRenderer
  <2>2. r.floor \cup {d} = {e, d}
    BY <2>1
  <2>3. Lowest(d) = IF e <= d THEN e ELSE d
    BY <1>1, <2>2, MinOfTwo DEF Lowest
  <2> QED BY <2>3
<1> QED BY <1>2, <1>3

\* A renderer keeps the rest as it is under another floor.
LEMMA FloorChanged ==
    ASSUME NEW s, GoodRenderer(s), NEW l, \E e \in Deltas : l = {e},
           NEW t, t = [s EXCEPT !.floor = l]
    PROVE  GoodRenderer(t) /\ t.started = s.started /\ t.gen = s.gen /\ t.floor = l
<1>1. /\ s \in RendererSet /\ CorrOK(s.corr) /\ s.insertIn <= s.corr.schedule.insert
      /\ s.dropIn <= s.corr.schedule.drop
  BY DEF GoodRenderer
<1>2. /\ s.started \in BOOLEAN /\ s.gen \in 0..MaxClears
      /\ s.insertIn \in Nat /\ s.dropIn \in Nat
      /\ s = [started |-> s.started, gen |-> s.gen, floor |-> s.floor,
              insertIn |-> s.insertIn, dropIn |-> s.dropIn, corr |-> s.corr]
  BY <1>1, RendererFields
<1>3. t = [started |-> s.started, gen |-> s.gen, floor |-> l, insertIn |-> s.insertIn,
           dropIn |-> s.dropIn, corr |-> s.corr]
  BY <1>2
<1>4. l \subseteq Deltas
  OBVIOUS
<1>5. GoodRenderer(t)
  BY <1>1, <1>2, <1>3, <1>4, RendererMade
<1> QED BY <1>3, <1>5

LEMMA SnapshotKeeps ==
    ASSUME RenderInv, NEW d \in Deltas, Snapshot(d)
    PROVE  RenderInv'
<1>1. PICK c, s, t : c = cb' /\ s = r /\ t = r'
  OBVIOUS
<1>2. /\ GoodQueue(pq) /\ pq.generation \in 0..MaxClears /\ pq.cursor \in Int
      /\ pq.force \in BOOLEAN
  BY DEF RenderInv, StateOK, GoodQueue, QueueType
<1>3. PICK x : x = IF pq.initialized THEN {pq.cursor} ELSE {}
  OBVIOUS
<1>4. c = [at |-> "sync", gen |-> pq.generation, cursor |-> x, force |-> pq.force,
           delta |-> d, delay |-> 0]
  BY <1>1, <1>3 DEF Snapshot
<1>5. GoodCallback(c)
  <2>1. 0 \in 0..MaxDelay /\ d \in Deltas \cup {0}
    BY RendererAssumption
  <2>2. x = {} \/ \E y \in Int : x = {y}
    BY <1>2, <1>3
  <2>3. "sync" \in {"idle", "sync", "handoff", "plan", "render"}
        /\ "sync" \notin {"handoff", "plan"}
    OBVIOUS
  <2> QED BY <1>2, <1>4, <2>1, <2>2, <2>3, CallbackMade
<1>6. c.at = "sync" /\ c.gen = pq.generation /\ c.force = pq.force
  BY <1>4
<1>7. GoodRenderer(s)
  BY <1>1 DEF RenderInv
<1>8. GoodRenderer(t) /\ t.gen = pq.generation /\ t.floor # {}
      /\ (t.started => s.started /\ t.gen = s.gen)
  <2>1. CASE pq.generation = s.gen
    <3>1. PICK l : l = {Lowest(d)}
      OBVIOUS
    <3>2. \E e \in Deltas : l = {e}
      BY <3>1, LowestFacts
    <3>3. t = [s EXCEPT !.floor = l]
      BY <1>1, <2>1, <3>1 DEF Snapshot
    <3>4. GoodRenderer(t) /\ t.started = s.started /\ t.gen = s.gen /\ t.floor = l
      BY <1>7, <3>2, <3>3, FloorChanged
    <3> QED BY <2>1, <3>2, <3>4
  <2>2. CASE pq.generation # s.gen
    <3>1. PICK e : e = Restarted(s.corr)
      OBVIOUS
    <3>2. CorrOK(e) /\ e.schedule = Idle
      BY <1>7, <3>1, RendererFields, RestartedOK DEF GoodRenderer
    <3>3. PICK l : l = {d}
      OBVIOUS
    <3>4. t = [started |-> FALSE, gen |-> pq.generation, floor |-> l,
               insertIn |-> 0, dropIn |-> 0, corr |-> e]
      BY <1>1, <2>2, <3>1, <3>3 DEF Snapshot
    <3>5. /\ l \subseteq Deltas /\ (l = {} \/ \E y \in Deltas : l = {y})
          /\ FALSE \in BOOLEAN /\ 0 \in Nat
          /\ 0 <= e.schedule.insert /\ 0 <= e.schedule.drop
      BY <3>2, <3>3, IdleFacts
    <3>6. GoodRenderer(t)
      BY <1>2, <3>2, <3>4, <3>5, RendererMade
    <3> QED BY <3>3, <3>4, <3>6
  <2> QED BY <2>1, <2>2
<1>9. UNCHANGED <<pq, arriving, delay, setter, sets, clock, now, handoff, heard>> /\ blind' \in Nat
  BY DEF Snapshot, appVars, RenderInv, StateOK
<1>10. StateOK'
  BY <1>9 DEF RenderInv, StateOK
<1>11. Anchored'
  BY <1>1, <1>6, <1>8, <1>9 DEF RenderInv, Anchored
<1> QED BY <1>1, <1>5, <1>8, <1>10, <1>11 DEF RenderInv

LEMMA DropsAreNumbers == ASSUME RenderInv PROVE Drops \in Nat
<1>1. PICK c, d : c = r.corr /\ d = c.schedule.drop
  OBVIOUS
<1>2. d \in Nat
  BY <1>1, ScheduleFields DEF RenderInv, GoodRenderer
<1>3. Period \in Nat \ {0}
  BY RendererAssumption
<1>4. d > 0 => (Period - 1) \div d \in Nat
  BY <1>2, <1>3
<1> QED BY <1>1, <1>2, <1>4 DEF Drops

LEMMA SkipSyncKeeps == ASSUME RenderInv, SkipSync PROVE RenderInv'
<1>1. UNCHANGED <<pq, arriving, delay, setter, sets, clock, r, handoff, heard>>
      /\ cb.at = "sync" /\ blind' = blind + Drops
  BY DEF SkipSync, appVars
<1>2. /\ now' \in Nat /\ GoodCallback(cb')
      /\ cb'.at = "idle" \/ (cb'.at = "render" /\ r.started /\ cb'.gen = cb.gen)
  BY GoesKeeps DEF SkipSync
<1>3. blind' \in Nat
  BY <1>1, DropsAreNumbers DEF RenderInv, StateOK
<1>4. StateOK'
  BY <1>1, <1>2, <1>3 DEF RenderInv, StateOK
<1>5. Anchored'
  BY <1>1, <1>2 DEF RenderInv, Anchored
<1> QED BY <1>1, <1>2, <1>4, <1>5 DEF RenderInv

\* A renderer under another correction with the same schedule.
LEMMA CorrChanged ==
    ASSUME NEW s, GoodRenderer(s), NEW e, CorrOK(e), e.schedule = s.corr.schedule,
           NEW t, t = [s EXCEPT !.corr = e]
    PROVE  GoodRenderer(t) /\ SameCallback(s, t)
<1>1. /\ s \in RendererSet /\ s.insertIn <= e.schedule.insert /\ s.dropIn <= e.schedule.drop
      /\ (s.floor = {} \/ \E d \in Deltas : s.floor = {d})
  BY DEF GoodRenderer
<1>2. /\ s.started \in BOOLEAN /\ s.gen \in 0..MaxClears /\ s.floor \subseteq Deltas
      /\ s.insertIn \in Nat /\ s.dropIn \in Nat
      /\ s = [started |-> s.started, gen |-> s.gen, floor |-> s.floor,
              insertIn |-> s.insertIn, dropIn |-> s.dropIn, corr |-> s.corr]
  BY <1>1, RendererFields
<1>3. t = [started |-> s.started, gen |-> s.gen, floor |-> s.floor,
           insertIn |-> s.insertIn, dropIn |-> s.dropIn, corr |-> e]
  BY <1>2
<1>4. GoodRenderer(t)
  BY <1>1, <1>2, <1>3, RendererMade
<1> QED BY <1>3, <1>4 DEF SameCallback

LEMMA SyncKeeps == ASSUME RenderInv, Sync PROVE RenderInv'
<1>1. PICK b, c, s, t : b = cb /\ c = cb' /\ s = r /\ t = r'
  OBVIOUS
<1>2. PICK a : a = IF b.force THEN "handoff" ELSE "plan"
  OBVIOUS
<1>3. /\ b \in CallbackSet /\ b.cursor # {} /\ b.at = "sync"
      /\ \E x \in Int : b.cursor = {x}
  BY <1>1 DEF RenderInv, GoodCallback, Sync
<1>4. c = [at |-> a, gen |-> b.gen, cursor |-> b.cursor, force |-> b.force,
           delta |-> b.delta, delay |-> delay]
  <2>1. c = [b EXCEPT !.at = a, !.delay = delay]
    BY <1>1, <1>2 DEF Sync
  <2>2. b = [at |-> b.at, gen |-> b.gen, cursor |-> b.cursor, force |-> b.force,
             delta |-> b.delta, delay |-> b.delay]
    BY <1>3, CallbackFields
  <2> QED BY <2>1, <2>2
<1>5. delay \in 0..MaxDelay
  BY DEF RenderInv, StateOK
<1>6. GoodCallback(c)
  <2>1. a \in {"idle", "sync", "handoff", "plan", "render"}
    BY <1>2
  <2> QED BY <1>3, <1>4, <1>5, <2>1, CallbackFields, CallbackMade
<1>7. /\ c.at = a /\ c.gen = b.gen /\ a \in {"handoff", "plan"}
      /\ (a = "plan" => ~b.force)
  BY <1>2, <1>4
<1>8. GoodRenderer(t) /\ SameCallback(s, t)
  <2>1. GoodRenderer(s) /\ CorrOK(s.corr)
    BY <1>1 DEF RenderInv, GoodRenderer
  <2>2. PICK e : e = Settling(s.corr, Settled)
    OBVIOUS
  <2>3. Settled \in BOOLEAN
    BY DEF Settled
  <2>4. CorrOK(e) /\ e.schedule = s.corr.schedule
    BY <2>1, <2>2, <2>3, SettlingOK
  <2>5. t = [s EXCEPT !.corr = e]
    BY <1>1, <2>2 DEF Sync
  <2> QED BY <2>1, <2>4, <2>5, CorrChanged
<1>9. UNCHANGED <<pq, arriving, delay, setter, sets, clock, now, handoff, heard, blind>>
  BY DEF Sync, appVars, ghosts
<1>10. StateOK'
  BY <1>9 DEF RenderInv, StateOK
<1>11. Anchored'
  BY <1>1, <1>3, <1>7, <1>8, <1>9 DEF RenderInv, Anchored, SameCallback
<1> QED BY <1>1, <1>6, <1>8, <1>10, <1>11 DEF RenderInv

\* The instants a handoff and a plan compute with are numbers.
LEMMA FloorIsNumber ==
    ASSUME RenderInv, cb.at # "idle"
    PROVE  Min(r.floor) \in Int
<1>1. PICK e \in Deltas : r.floor = {e}
  BY DEF RenderInv, GoodRenderer, Anchored
<1>2. e \in Int
  BY RendererAssumption
<1> QED BY <1>1, <1>2, MinOfOne

LEMMA InstantsAreNumbers ==
    ASSUME RenderInv
    PROVE  now \in Int /\ cb.delay \in Int /\ cb.delta \in Int
<1>1. cb.delay \in 0..MaxDelay /\ cb.delta \in Deltas \cup {0}
  BY CallbackFields DEF RenderInv, GoodCallback
<1>2. now \in Int
  BY DEF RenderInv, StateOK
<1>3. Deltas \subseteq Int /\ MaxDelay \in Nat
  BY RendererAssumption
<1>4. cb.delta \in Int
  <2>1. \A x \in Deltas \cup {0} : x \in Int
    BY <1>3
  <2> QED BY <1>1, <2>1, Zenon
<1> QED BY <1>1, <1>2, <1>3, <1>4

LEMMA TargetIsNumber ==
    ASSUME RenderInv, cb.at # "idle"
    PROVE  Target \in Int
<1>1. now \in Int /\ cb.delay \in Int /\ Min(r.floor) \in Int
  BY FloorIsNumber, InstantsAreNumbers
<1>2. Duration(Period) \in Int
  <2>1. Period \in Nat
    BY RendererAssumption
  <2> QED BY <2>1, DurationFacts
<1> QED BY <1>1, <1>2 DEF Target

LEMMA ErrorIsNumber ==
    ASSUME RenderInv, cb.at = "plan"
    PROVE  RawError \in Int
<1>1. now \in Int /\ cb.delay \in Int /\ cb.delta \in Int
  BY InstantsAreNumbers
<1>2. Min(cb.cursor) \in Int
  <2>1. PICK x \in Int : cb.cursor = {x}
    BY DEF RenderInv, GoodCallback
  <2> QED BY <2>1, MinOfOne
<1> QED BY <1>1, <1>2 DEF RawError

\* The handoff is of the generation that the callback knows.
LEMMA HandoffKeeps == ASSUME RenderInv, Handoff PROVE RenderInv'
<1>1. UNCHANGED <<arriving, delay, setter, sets, clock, heard, blind>> /\ cb.at = "handoff"
  BY DEF Handoff, appVars
<1>2. CASE HandoffCursor = {}
  <2>1. UNCHANGED <<pq, r, handoff>> /\ Silent
    BY <1>2 DEF Handoff
  <2>2. now' \in Nat /\ GoodCallback(cb') /\ cb'.at = "idle"
    BY <2>1, SilentKeeps
  <2>3. StateOK'
    BY <1>1, <2>1, <2>2 DEF RenderInv, StateOK
  <2>4. Anchored'
    BY <1>1, <2>1, <2>2 DEF RenderInv, Anchored
  <2> QED BY <2>1, <2>2, <2>3, <2>4 DEF RenderInv
<1>3. CASE HandoffCursor # {}
  <2>1. PICK x \in HandoffCursor :
           /\ pq' = [Sought(pq, x) EXCEPT !.force = FALSE]
           /\ r' = Reset(r)
           /\ handoff' = [gen |-> cb.gen, delay |-> cb.delay]
           /\ IF r.started
                THEN cb' = [cb EXCEPT !.at = "plan", !.cursor = {x}] /\ now' = now
                ELSE Silent
    BY <1>3 DEF Handoff
  <2>2. pq.generation = cb.gen /\ x \in FirstPlayable(pq, Target)
    BY <2>1 DEF HandoffCursor
  <2>3. GoodQueue(pq) /\ pq.generation \in 0..MaxClears /\ now \in Nat
    BY DEF RenderInv, StateOK
  <2>4. x \in Int
    <3>1. Target \in Int
      BY <1>1, TargetIsNumber
    <3> QED BY <2>2, <2>3, <3>1, PlayableFacts
  <2>5. GoodQueue(pq') /\ ~pq'.force /\ pq'.generation = pq.generation
    <3>1. PICK p : p = pq'
      OBVIOUS
    <3>2. p = HandedOff(pq, x)
      BY <2>1, <3>1 DEF HandedOff
    <3>3. GoodQueue(p) /\ ~p.force /\ p.generation = pq.generation
      BY <2>3, <2>4, <3>2, HandoffGood
    <3> QED BY <3>1, <3>3
  <2>6. GoodRenderer(r') /\ SameCallback(r, r')
    <3>1. PICK s, t : s = r /\ t = r'
      OBVIOUS
    <3>2. s \in RendererSet /\ (s.floor = {} \/ \E d \in Deltas : s.floor = {d})
      BY <3>1 DEF RenderInv, GoodRenderer
    <3>3. t = Reset(s)
      BY <2>1, <3>1
    <3>4. GoodRenderer(t) /\ SameCallback(s, t)
      BY <3>2, <3>3, ResetGood
    <3> QED BY <3>1, <3>4
  <2>7. handoff'.gen = cb.gen
    BY <2>1
  <2>8. /\ now' \in Nat /\ GoodCallback(cb')
        /\ cb'.at = "idle" \/ (cb'.at = "plan" /\ r.started /\ cb'.gen = cb.gen)
    <3>1. CASE ~r.started
      BY <2>1, <3>1, SilentKeeps
    <3>2. CASE r.started
      <4>1. PICK b, c : b = cb /\ c = cb'
        OBVIOUS
      <4>2. b \in CallbackSet
        BY <4>1 DEF RenderInv, GoodCallback
      <4>3. PICK y : y = {x}
        OBVIOUS
      <4>4. c = [b EXCEPT !.at = "plan", !.cursor = y] /\ now' = now
        BY <2>1, <3>2, <4>1, <4>3
      <4>5. b = [at |-> b.at, gen |-> b.gen, cursor |-> b.cursor, force |-> b.force,
                 delta |-> b.delta, delay |-> b.delay]
        BY <4>2, CallbackFields
      <4>6. c = [at |-> "plan", gen |-> b.gen, cursor |-> y, force |-> b.force,
                 delta |-> b.delta, delay |-> b.delay]
        BY <4>4, <4>5
      <4>7. y # {} /\ \E z \in Int : y = {z}
        BY <2>4, <4>3
      <4>8. GoodCallback(c)
        BY <4>2, <4>6, <4>7, CallbackFields, CallbackMade
      <4>9. c.at = "plan" /\ c.gen = b.gen
        BY <4>6
      <4> QED BY <2>3, <3>2, <4>1, <4>4, <4>8, <4>9
    <3> QED BY <3>1, <3>2
  <2>9. StateOK'
    BY <1>1, <2>3, <2>5, <2>8 DEF RenderInv, StateOK
  <2>10. Anchored'
    BY <1>1, <2>2, <2>5, <2>6, <2>7, <2>8 DEF RenderInv, Anchored, SameCallback
  <2> QED BY <2>6, <2>8, <2>9, <2>10 DEF RenderInv
<1> QED BY <1>2, <1>3

LEMMA StaysSilentKeeps == ASSUME RenderInv, StaysSilent PROVE RenderInv'
<1>1. UNCHANGED <<pq, arriving, delay, setter, sets, clock, r, handoff, heard, blind>>
  BY DEF StaysSilent, appVars, ghosts
<1>2. now' \in Nat /\ GoodCallback(cb') /\ cb'.at = "idle"
  BY SilentKeeps DEF StaysSilent
<1>3. StateOK'
  BY <1>1, <1>2 DEF RenderInv, StateOK
<1>4. Anchored'
  BY <1>1, <1>2 DEF RenderInv, Anchored
<1> QED BY <1>1, <1>2, <1>3, <1>4 DEF RenderInv

LEMMA PlanBlindKeeps == ASSUME RenderInv, PlanBlind PROVE RenderInv'
<1>1. UNCHANGED <<pq, arriving, delay, setter, sets, clock, handoff, heard, blind>>
      /\ cb.at = "plan"
  BY DEF PlanBlind, appVars, ghosts
<1>2. /\ now' \in Nat /\ GoodCallback(cb')
      /\ cb'.at = "idle" \/ (cb'.at = "render" /\ r.started /\ cb'.gen = cb.gen)
  BY GoesKeeps DEF PlanBlind
<1>3. GoodRenderer(r') /\ SameCallback(r, r')
  <2>1. PICK s, t : s = r /\ t = r'
    OBVIOUS
  <2>2. /\ GoodRenderer(s)
        /\ s \in RendererSet /\ (s.floor = {} \/ \E d \in Deltas : s.floor = {d})
    BY <2>1 DEF RenderInv, GoodRenderer
  <2>3. t = Reset(s) \/ t = s
    BY <2>1 DEF PlanBlind
  <2>4. GoodRenderer(t) /\ SameCallback(s, t)
    BY <2>2, <2>3, ResetGood DEF SameCallback
  <2> QED BY <2>1, <2>4
<1>4. StateOK'
  BY <1>1, <1>2 DEF RenderInv, StateOK
<1>5. Anchored'
  BY <1>1, <1>2, <1>3 DEF RenderInv, Anchored, SameCallback
<1> QED BY <1>2, <1>3, <1>4, <1>5 DEF RenderInv

\* A renderer that starts, or plays on, under a new correction.
LEMMA StartedGood ==
    ASSUME NEW s, GoodRenderer(s), NEW e \in CorrSet,
           NEW t, t = [s EXCEPT !.started = TRUE, !.corr = e]
    PROVE  /\ t \in RendererSet /\ (t.floor = {} \/ \E d \in Deltas : t.floor = {d})
           /\ t.started /\ t.gen = s.gen /\ t.floor = s.floor
<1>1. s \in RendererSet /\ (s.floor = {} \/ \E d \in Deltas : s.floor = {d})
  BY DEF GoodRenderer
<1>2. t = [started |-> TRUE, gen |-> s.gen, floor |-> s.floor,
           insertIn |-> s.insertIn, dropIn |-> s.dropIn, corr |-> e]
  <2>1. s = [started |-> s.started, gen |-> s.gen, floor |-> s.floor,
             insertIn |-> s.insertIn, dropIn |-> s.dropIn, corr |-> s.corr]
    BY <1>1, RendererFields
  <2> QED BY <2>1
<1>3. t \in RendererSet
  <2>1. /\ s.gen \in 0..MaxClears /\ s.floor \subseteq Deltas
        /\ s.insertIn \in Nat /\ s.dropIn \in Nat
    BY <1>1, RendererFields
  <2> QED BY <1>2, <2>1 DEF RendererSet
<1> QED BY <1>1, <1>2, <1>3

LEMMA PlayingGood ==
    ASSUME NEW s, GoodRenderer(s), NEW t, t = [s EXCEPT !.started = TRUE]
    PROVE  GoodRenderer(t) /\ t.started /\ t.gen = s.gen /\ t.floor = s.floor
<1>1. /\ s \in RendererSet /\ CorrOK(s.corr) /\ s.insertIn <= s.corr.schedule.insert
      /\ s.dropIn <= s.corr.schedule.drop
      /\ (s.floor = {} \/ \E d \in Deltas : s.floor = {d})
  BY DEF GoodRenderer
<1>2. /\ s.gen \in 0..MaxClears /\ s.floor \subseteq Deltas
      /\ s.insertIn \in Nat /\ s.dropIn \in Nat
      /\ s = [started |-> s.started, gen |-> s.gen, floor |-> s.floor,
              insertIn |-> s.insertIn, dropIn |-> s.dropIn, corr |-> s.corr]
  BY <1>1, RendererFields
<1>3. t = [started |-> TRUE, gen |-> s.gen, floor |-> s.floor,
           insertIn |-> s.insertIn, dropIn |-> s.dropIn, corr |-> s.corr]
  BY <1>2
<1>4. TRUE \in BOOLEAN
  OBVIOUS
<1>5. GoodRenderer(t)
  BY <1>1, <1>2, <1>3, <1>4, RendererMade
<1> QED BY <1>3, <1>5

LEMMA CorrectKeeps == ASSUME RenderInv, Correct PROVE RenderInv'
<1>1. PICK s, t, e : s = r /\ t = r' /\ e = Measured(r.corr, RawError, Settled)
  OBVIOUS
<1>2. /\ UNCHANGED <<arriving, delay, setter, sets, clock, now, handoff, heard, blind>>
      /\ cb.at = "plan" /\ cb' = [cb EXCEPT !.at = "render"]
  BY DEF Correct, appVars, ghosts
<1>3. GoodRenderer(s)
  BY <1>1 DEF RenderInv
<1>4. e \in CorrSet /\ e.filter.next < e.filter.window
  <2>1. CorrOK(s.corr)
    BY <1>3 DEF GoodRenderer
  <2>2. PICK raw \in Int, st \in BOOLEAN : raw = RawError /\ st = Settled
    <3>1. Settled \in BOOLEAN
      BY DEF Settled
    <3> QED BY <1>2, <3>1, ErrorIsNumber
  <2>3. e = Measured(s.corr, raw, st)
    BY <1>1, <2>2
  <2> QED BY <2>1, <2>3, MeasuredOK
<1>5. GoodQueue(pq) /\ pq.generation \in 0..MaxClears /\ now \in Nat
  BY DEF RenderInv, StateOK
<1>6. /\ GoodRenderer(t) /\ t.started /\ t.gen = s.gen /\ t.floor = s.floor
      /\ GoodQueue(pq') /\ pq'.generation = pq.generation /\ pq'.force = pq.force
  <2>1. CASE e.schedule.reanchor
    <3>1. PICK u : u = [s EXCEPT !.started = TRUE, !.corr = e]
      OBVIOUS
    <3>2. /\ u \in RendererSet /\ (u.floor = {} \/ \E d \in Deltas : u.floor = {d})
          /\ u.started /\ u.gen = s.gen /\ u.floor = s.floor
      BY <1>3, <1>4, <3>1, StartedGood
    <3>3. PICK x : x = now + Min(r.floor) + cb.delay
      OBVIOUS
    <3>4. t = Reset(u) /\ pq' = Sought(pq, x)
      BY <1>1, <2>1, <3>1, <3>3 DEF Correct
    <3>5. GoodRenderer(t) /\ SameCallback(u, t)
      BY <3>2, <3>4, ResetGood
    <3>6. x \in Int
      <4>1. now \in Int /\ Min(r.floor) \in Int /\ cb.delay \in Int
        BY <1>2, FloorIsNumber, InstantsAreNumbers
      <4> QED BY <3>3, <4>1
    <3>7. GoodQueue(pq') /\ pq'.generation = pq.generation /\ pq'.force = pq.force
      BY <1>5, <3>4, <3>6, SoughtGood
    <3> QED BY <3>2, <3>5, <3>7 DEF SameCallback
  <2>2. CASE ~e.schedule.reanchor
    <3>1. PICK u : u = [s EXCEPT !.started = TRUE]
      OBVIOUS
    <3>2. GoodRenderer(u) /\ u.started /\ u.gen = s.gen /\ u.floor = s.floor
      BY <1>3, <3>1, PlayingGood
    <3>3. t = Adopts(u, e) /\ pq' = pq
      BY <1>1, <2>2, <3>1 DEF Correct
    <3>4. CorrOK(e)
      BY <1>4, <2>2 DEF CorrOK
    <3>5. GoodRenderer(t) /\ SameCallback(u, t)
      BY <3>2, <3>3, <3>4, AdoptsGood
    <3> QED BY <1>5, <3>2, <3>3, <3>5 DEF SameCallback
  <2> QED BY <2>1, <2>2
<1>7. GoodCallback(cb') /\ cb'.at = "render" /\ cb'.gen = cb.gen
  <2>1. PICK b, c : b = cb /\ c = cb'
    OBVIOUS
  <2>2. b \in CallbackSet /\ \E x \in Int : b.cursor = {x}
    BY <1>2, <2>1 DEF RenderInv, GoodCallback
  <2>3. b = [at |-> b.at, gen |-> b.gen, cursor |-> b.cursor, force |-> b.force,
             delta |-> b.delta, delay |-> b.delay]
    BY <2>2, CallbackFields
  <2>4. c = [at |-> "render", gen |-> b.gen, cursor |-> b.cursor, force |-> b.force,
             delta |-> b.delta, delay |-> b.delay]
    BY <1>2, <2>1, <2>3
  <2>5. GoodCallback(c)
    BY <2>2, <2>4, CallbackFields, CallbackMade
  <2> QED BY <2>1, <2>4, <2>5
<1>8. StateOK'
  BY <1>2, <1>5, <1>6 DEF RenderInv, StateOK
<1>9. Anchored'
  BY <1>1, <1>2, <1>6, <1>7 DEF RenderInv, Anchored
<1> QED BY <1>1, <1>6, <1>7, <1>8, <1>9 DEF RenderInv

\* What is heard was anchored by the generation that the callback knows.
LEMMA RenderKeeps == ASSUME RenderInv, Render PROVE RenderInv'
<1>1. PICK s, t : s = r /\ t = r'
  OBVIOUS
<1>2. PICK o : o = Outputs[Period]
  OBVIOUS
<1>3. /\ UNCHANGED <<arriving, delay, setter, sets, clock, handoff, blind>> /\ Silent
      /\ cb.at = "render" /\ pq' = o.pq
      /\ t = [s EXCEPT !.insertIn = o.insertIn, !.dropIn = o.dropIn]
      /\ heard'.saw = cb.gen /\ heard'.by = handoff.gen
  BY <1>1, <1>2 DEF Render, appVars
<1>4. /\ s \in RendererSet /\ CorrOK(s.corr) /\ s.insertIn <= s.corr.schedule.insert
      /\ s.dropIn <= s.corr.schedule.drop
      /\ (s.floor = {} \/ \E d \in Deltas : s.floor = {d})
  BY <1>1 DEF RenderInv, GoodRenderer
<1>5. PICK n \in Nat, k \in Nat : n = s.corr.schedule.insert /\ k = s.corr.schedule.drop
  BY <1>4, ScheduleFields
<1>6. PICK g, f : g = pq.generation /\ f = pq.force
  OBVIOUS
<1>7. o \in OutputSet(g, f, n, k)
  <2>1. GoodQueue(pq) /\ pq \in QueueType
    BY DEF RenderInv, StateOK, GoodQueue
  <2>2. pq \in Queues(g, f)
    BY <1>6, <2>1 DEF Queues
  <2>3. s.insertIn \in Nat /\ s.dropIn \in Nat
    BY <1>4, RendererFields
  <2>4. r.insertIn \in 0..n /\ r.dropIn \in 0..k
    BY <1>1, <1>4, <1>5, <2>3
  <2>5. n = r.corr.schedule.insert /\ k = r.corr.schedule.drop
    BY <1>1, <1>5
  <2> QED BY <1>2, <2>2, <2>4, <2>5, OutputsStay
<1>8. o.pq \in Queues(g, f) /\ o.insertIn \in 0..n /\ o.dropIn \in 0..k
  BY <1>7, OutputFields
<1>9. GoodQueue(pq') /\ pq'.generation = pq.generation /\ pq'.force = pq.force
  BY <1>3, <1>6, <1>8 DEF Queues
<1>10. GoodRenderer(t) /\ SameCallback(s, t)
  <2>1. PICK i \in 0..n, d \in 0..k : i = o.insertIn /\ d = o.dropIn
    BY <1>8
  <2>2. /\ s.started \in BOOLEAN /\ s.gen \in 0..MaxClears /\ s.floor \subseteq Deltas
        /\ s = [started |-> s.started, gen |-> s.gen, floor |-> s.floor,
                insertIn |-> s.insertIn, dropIn |-> s.dropIn, corr |-> s.corr]
    BY <1>4, RendererFields
  <2>3. t = [started |-> s.started, gen |-> s.gen, floor |-> s.floor,
             insertIn |-> i, dropIn |-> d, corr |-> s.corr]
    BY <1>3, <2>1, <2>2
  <2>4. /\ i \in Nat /\ d \in Nat
        /\ i <= s.corr.schedule.insert /\ d <= s.corr.schedule.drop
    BY <1>5, <2>1
  <2>5. GoodRenderer(t)
    BY <1>4, <2>2, <2>3, <2>4, RendererMade
  <2> QED BY <2>3, <2>5 DEF SameCallback
<1>11. now' \in Nat /\ GoodCallback(cb') /\ cb'.at = "idle"
  BY <1>3, SilentKeeps
<1>12. StateOK'
  BY <1>3, <1>9, <1>11 DEF RenderInv, StateOK
<1>13. Anchored'
  BY <1>1, <1>3, <1>9, <1>10, <1>11 DEF RenderInv, Anchored, SameCallback
<1> QED BY <1>1, <1>10, <1>11, <1>12, <1>13 DEF RenderInv

---------------------------------------------------------------------------
(* The theorems *)

LEMMA RenderNext == ASSUME RenderInv, [Next]_vars PROVE RenderInv'
<1>1. CASE UNCHANGED vars
  <2>1. UNCHANGED <<pq, arriving, delay, setter, sets, clock, now, cb, r, handoff, heard, blind>>
    BY <1>1 DEF vars, appVars, ghosts
  <2>2. StateOK' /\ Anchored'
    BY <2>1 DEF RenderInv, StateOK, Anchored
  <2> QED BY <2>1, <2>2 DEF RenderInv
<1>2. CASE App
  BY <1>2, EnqueueKeeps, ClearKeeps, FlagDelayKeeps, StoreDelayKeeps DEF App
<1>3. CASE ClockUpdate
  BY <1>3, ClockUpdateKeeps
<1>4. CASE Callback
  BY <1>4, SnapshotKeeps, SkipSyncKeeps, SyncKeeps, HandoffKeeps, CorrectKeeps,
     StaysSilentKeeps, PlanBlindKeeps, RenderKeeps DEF Callback
<1> QED BY <1>1, <1>2, <1>3, <1>4 DEF Next

LEMMA RenderHolds == Spec => []RenderInv
<1>1. Init => RenderInv
  BY RendererInit
<1>2. RenderInv /\ [Next]_vars => RenderInv'
  BY RenderNext
<1> QED BY <1>1, <1>2, PTL DEF Spec

\* Whatever arrives and in whatever order the threads take the mutexes, the queue,
\* the callback and the renderer are of their types: the frame counters never
\* exceed the schedule in force, and no callback leaves a plan to move the cursor.
THEOREM TypeCorrect == Spec => []TypeOK
<1>1. RenderInv => TypeOK
  <2> SUFFICES ASSUME RenderInv PROVE TypeOK
    OBVIOUS
  <2>1. /\ pq.generation \in 0..MaxClears /\ pq.remainder \in 0..(Rate - 1)
        /\ pq.index \in 0..pq.current.frames
    <3>1. pq.current.frames \in Nat
      BY BufferFacts DEF RenderInv, StateOK, GoodQueue, QueueType
    <3> QED BY <3>1 DEF RenderInv, StateOK, GoodQueue, QueueType
  <2>2. /\ clock \in {"dark", "warm", "settled", "lost"} /\ blind \in Nat
        /\ delay \in 0..MaxDelay /\ setter \in {"idle", "stored"} /\ sets \in 0..MaxSets
    BY DEF RenderInv, StateOK
  <2>3. /\ cb.at \in {"idle", "sync", "handoff", "plan", "render"}
        /\ cb.gen \in 0..MaxClears /\ cb.delta \in Deltas \cup {0}
    BY CallbackFields DEF RenderInv, GoodCallback
  <2>4. /\ r.started \in BOOLEAN /\ r.floor \subseteq Deltas
        /\ r.insertIn \in Nat /\ r.dropIn \in Nat
    BY RendererFields DEF RenderInv, GoodRenderer
  <2>5. /\ r.corr.schedule \in Schedule /\ ~r.corr.schedule.reanchor
        /\ r.corr.schedule.insert \in Nat /\ r.corr.schedule.drop \in Nat
        /\ r.insertIn <= r.corr.schedule.insert /\ r.dropIn <= r.corr.schedule.drop
    BY ScheduleFields DEF RenderInv, GoodRenderer, CorrOK
  <2> QED BY <2>1, <2>2, <2>3, <2>4, <2>5 DEF TypeOK
<1> QED BY <1>1, RenderHolds, PTL

\* However clear, enqueue, set_static_delay and the clock's updates fall between
\* the steps of a callback, what a callback that knew the current generation puts
\* out was anchored by a handoff of that generation.
THEOREM AnchoredCorrect == Spec => []AnchoredBeforeHeard
<1>1. RenderInv => AnchoredBeforeHeard
  BY DEF RenderInv, Anchored, AnchoredBeforeHeard
<1> QED BY <1>1, RenderHolds, PTL

\* Under handoffs, gross moves, clears and late arrivals too, the renderer's queue is
\* one time line: in order, and nothing in it twice but the rounding of a timestamp.
THEOREM RendererTimeline == Spec => []Ordered(pq.queue)
<1>1. RenderInv => Ordered(pq.queue)
  BY DEF RenderInv, StateOK, GoodQueue
<1> QED BY <1>1, RenderHolds, PTL

---------------------------------------------------------------------------
(* What the renderer corrects *)

\* A correction in force goes one way, is no faster than the highest speed, and is
\* for a floor that the filter has readings of, in the state that the clock is in.
CorrectsTheFloor ==
    LET s == r.corr.schedule
        f == r.corr.filter
    IN  IsCorrecting(s) =>
            /\ Settled /\ f.len > 0
            /\ s.drop > 0   => s.insert = 0 /\ s.drop >= MinInterval /\ Floor(f) > Deadband
            /\ s.insert > 0 => s.drop = 0 /\ s.insert >= MinInterval /\ Floor(f) < -Deadband

Fits(c, st) ==
    /\ Steady(c.schedule)
    /\ Justified(c)
    /\ IsCorrecting(c.schedule) => st /\ c.seen /\ c.filter.len > 0

\* From "sync" to the end of "plan" the router cannot settle the clock, so that
\* what is planned with a settled clock is planned on readings of one.
FloorInv ==
    /\ RenderInv
    /\ Fits(r.corr, Settled)
    /\ cb.at \in {"handoff", "plan"} /\ Settled => r.corr.seen

LEMMA RestartedFits ==
    ASSUME NEW c \in CorrSet, NEW d, d = Restarted(c), NEW st
    PROVE  Fits(d, st) /\ d.seen = c.seen
<1>1. Good(d, <<>>) /\ d.schedule = Idle
  BY RestartedFacts
<1>2. PICK b : b = Forgotten(c)
  OBVIOUS
<1>3. b \in CorrSet /\ b.seen = c.seen
  BY <1>2, ForgottenFacts
<1>4. b = [filter |-> b.filter, streak |-> b.streak, schedule |-> b.schedule,
           seen |-> b.seen]
  BY <1>3, CorrFields
<1>5. d = [b EXCEPT !.schedule = Idle]
  BY <1>2 DEF Restarted
<1>6. d.seen = c.seen
  BY <1>3, <1>4, <1>5
<1> QED BY <1>1, <1>6, IdleFacts DEF Fits, Good

LEMMA SettlingFits ==
    ASSUME NEW c \in CorrSet, NEW st \in BOOLEAN, Fits(c, st),
           NEW d, d = Settling(c, st)
    PROVE  Fits(d, st) /\ (st => d.seen)
<1>1. CASE ~(st /\ ~c.seen)
  BY <1>1 DEF Settling
<1>2. CASE st /\ ~c.seen
  <2>1. PICK b : b = Forgotten(c)
    OBVIOUS
  <2>2. b \in CorrSet /\ b.schedule = c.schedule /\ b.filter.len = 0
    BY <2>1, ForgottenFacts
  <2>3. b = [filter |-> b.filter, streak |-> b.streak, schedule |-> b.schedule,
             seen |-> b.seen]
    BY <2>2, CorrFields
  <2>4. d = [b EXCEPT !.seen = TRUE]
    BY <1>2, <2>1 DEF Settling
  <2>5. d.filter = b.filter /\ d.schedule = c.schedule /\ d.seen
    BY <2>2, <2>3, <2>4
  <2>6. ~IsCorrecting(c.schedule)
    BY <1>2 DEF Fits
  <2>7. ~(d.filter.len > 0)
    BY <2>2, <2>5
  <2> QED BY <2>5, <2>6, <2>7 DEF Fits, Justified
<1> QED BY <1>1, <1>2

LEMMA MeasuredFits ==
    ASSUME NEW c, CorrOK(c), NEW raw \in Int, NEW st \in BOOLEAN, st => c.seen,
           NEW d, d = Measured(c, raw, st), ~d.schedule.reanchor
    PROVE  Fits(d, st)
<1>1. c \in CorrSet /\ c.filter \in FilterSet /\ c.filter.next < c.filter.window
  BY CorrFields DEF CorrOK
<1>2. PICK f : f = Recorded(c.filter, raw)
  OBVIOUS
<1>3. /\ d.filter = f /\ d.seen = c.seen /\ Justified(d)
      /\ Steady(d.schedule) /\ (IsCorrecting(d.schedule) => st)
  BY <1>1, <1>2, MeasuredFacts
<1>4. f.len > 0
  <2>1. Writes(c.filter, raw, f)
    BY <1>1, <1>2, RecordedWrites
  <2>2. c.filter.len \in Nat /\ c.filter.window \in Nat \ {0}
    BY <1>1, FilterFields
  <2> QED BY <2>1, <2>2 DEF Writes
<1> QED BY <1>3, <1>4 DEF Fits

\* What the helpers of the renderer do to its correction.
LEMMA CorrOf ==
    ASSUME NEW s \in RendererSet, NEW c
    PROVE  /\ Reset(s).corr = Restarted(s.corr)
           /\ Adopts(s, c).corr = c
<1>1. s = [started |-> s.started, gen |-> s.gen, floor |-> s.floor,
           insertIn |-> s.insertIn, dropIn |-> s.dropIn, corr |-> s.corr]
  BY RendererFields
<1>2. PICK e : e = Restarted(s.corr)
  OBVIOUS
<1>3. Reset(s) = [s EXCEPT !.corr = e, !.insertIn = 0, !.dropIn = 0]
  BY <1>1, <1>2 DEF Reset
<1>4. Reset(s).corr = e
  BY <1>1, <1>3
<1>5. Adopts(s, c).corr = c
  BY <1>1 DEF Adopts
<1> QED BY <1>2, <1>4, <1>5

LEMMA FloorInit == ASSUME Init PROVE FloorInv
<1>1. PICK c : c = [NewCorr EXCEPT !.filter = ForPeriod(@, PeriodTime)]
  OBVIOUS
<1>2. r.corr = c /\ cb = NoCallback
  BY <1>1 DEF Init
<1>3. c.schedule = Idle /\ c.filter.len = 0
  BY <1>1, PeriodIsNumber, NewFacts
<1>4. Fits(c, Settled)
  BY <1>3, IdleFacts DEF Fits, Justified
<1> QED BY <1>2, <1>4, RendererInit, NoCallbackGood DEF FloorInv

LEMMA FloorKept ==
    ASSUME FloorInv, RenderInv', r'.corr = r.corr, Settled => Settled',
           cb'.at \in {"handoff", "plan"} =>
               cb.at \in {"handoff", "plan"} /\ (Settled' => Settled)
    PROVE  FloorInv'
<1>1. PICK c : c = r.corr
  OBVIOUS
<1>2. r'.corr = c /\ Fits(c, Settled)
  BY <1>1 DEF FloorInv
<1>3. Fits(c, Settled')
  BY <1>2 DEF Fits
<1>4. Fits(r.corr, Settled)'
  BY <1>2, <1>3
<1>5. cb'.at \in {"handoff", "plan"} /\ Settled' => r'.corr.seen
  BY DEF FloorInv
<1> QED BY <1>4, <1>5 DEF FloorInv

LEMMA RenderLeaves ==
    ASSUME RenderInv, Render
    PROVE  r'.corr = r.corr /\ clock' = clock /\ cb'.at = "idle"
<1>1. PICK s, t : s = r /\ t = r'
  OBVIOUS
<1>2. PICK i, d : t = [s EXCEPT !.insertIn = i, !.dropIn = d]
  BY <1>1 DEF Render
<1>3. s \in RendererSet
  BY <1>1 DEF RenderInv, GoodRenderer
<1>4. t.corr = s.corr
  <2>1. s = [started |-> s.started, gen |-> s.gen, floor |-> s.floor,
             insertIn |-> s.insertIn, dropIn |-> s.dropIn, corr |-> s.corr]
    BY <1>3, RendererFields
  <2> QED BY <1>2, <2>1
<1>5. clock' = clock /\ cb'.at = "idle"
  BY SilentKeeps DEF Render
<1> QED BY <1>1, <1>4, <1>5

\* Steps that leave the correction alone.
LEMMA FloorIdleSteps ==
    ASSUME FloorInv, RenderInv',
           App \/ ClockUpdate \/ SkipSync \/ StaysSilent \/ Render
    PROVE  FloorInv'
<1>1. GoodRenderer(r) /\ RenderInv
  BY DEF FloorInv, RenderInv
<1>2. CASE App
  <2>1. UNCHANGED <<r, cb, clock>>
    BY <1>2 DEF App, Enqueue, Clear, StoreDelay, FlagDelay, appVars, ghosts
  <2> QED BY <2>1, FloorKept DEF Settled
<1>3. CASE ClockUpdate
  <2>1. /\ UNCHANGED <<r, cb>> /\ cb.at \notin {"handoff", "plan"}
        /\ Settled => Settled'
    BY <1>3 DEF ClockUpdate, Update, Settled, appVars, ghosts
  <2> QED BY <2>1, FloorKept
<1>4. CASE SkipSync \/ StaysSilent
  <2>1. UNCHANGED <<r, clock>>
    BY <1>4 DEF SkipSync, StaysSilent
  <2>2. cb'.at \in {"idle", "render"}
    BY <1>1, <1>4, GoesKeeps, SilentKeeps DEF SkipSync, StaysSilent
  <2> QED BY <2>1, <2>2, FloorKept DEF Settled
<1>5. CASE Render
  BY <1>1, <1>5, RenderLeaves, FloorKept DEF Settled
<1> QED BY <1>2, <1>3, <1>4, <1>5

\* Steps that give the correction up, or leave it.
LEMMA FloorResetSteps ==
    ASSUME FloorInv, RenderInv',
           (\E d \in Deltas : Snapshot(d)) \/ Handoff \/ PlanBlind
    PROVE  FloorInv'
<1>1. PICK s, t : s = r /\ t = r'
  OBVIOUS
<1>2. s \in RendererSet /\ s.corr \in CorrSet /\ RenderInv
  BY <1>1, RendererFields DEF FloorInv, RenderInv, GoodRenderer
<1>3. clock' = clock
  BY DEF Snapshot, Handoff, PlanBlind, appVars
<1>4. t.corr = s.corr \/ t.corr = Restarted(s.corr)
  <2>1. CASE \E d \in Deltas : Snapshot(d)
    <3> PICK d \in Deltas : Snapshot(d)
      BY <2>1
    <3>1. PICK l, e : l = {Lowest(d)} /\ e = Restarted(s.corr)
      OBVIOUS
    <3>2. s = [started |-> s.started, gen |-> s.gen, floor |-> s.floor,
               insertIn |-> s.insertIn, dropIn |-> s.dropIn, corr |-> s.corr]
      BY <1>2, RendererFields
    <3>3. \/ t = [s EXCEPT !.floor = l]
          \/ t = [started |-> FALSE, gen |-> pq.generation, floor |-> {d},
                  insertIn |-> 0, dropIn |-> 0, corr |-> e]
      BY <1>1, <3>1 DEF Snapshot
    <3> QED BY <3>1, <3>2, <3>3
  <2>2. CASE Handoff
    <3>1. t = s \/ t = Reset(s)
      BY <1>1, <2>2 DEF Handoff
    <3> QED BY <1>2, <3>1, CorrOf
  <2>3. CASE PlanBlind
    <3>1. t = s \/ t = Reset(s)
      BY <1>1, <2>3 DEF PlanBlind
    <3> QED BY <1>2, <3>1, CorrOf
  <2> QED BY <2>1, <2>2, <2>3
<1>5. cb'.at \in {"handoff", "plan"} => cb.at \in {"handoff", "plan"}
  <2>1. CASE \E d \in Deltas : Snapshot(d)
    BY <2>1 DEF Snapshot
  <2>2. CASE Handoff \/ PlanBlind
    BY <2>2 DEF Handoff, PlanBlind
  <2> QED BY <2>1, <2>2
<1>6. CASE t.corr = s.corr
  BY <1>1, <1>3, <1>5, <1>6, FloorKept DEF Settled
<1>7. CASE t.corr = Restarted(s.corr)
  <2>1. Fits(t.corr, Settled') /\ t.corr.seen = s.corr.seen
    BY <1>2, <1>7, RestartedFits
  <2>2. cb'.at \in {"handoff", "plan"} /\ Settled' => r'.corr.seen
    BY <1>1, <1>3, <1>5, <2>1 DEF FloorInv, Settled
  <2>3. Fits(r.corr, Settled)'
    BY <1>1, <2>1
  <2> QED BY <2>2, <2>3 DEF FloorInv
<1> QED BY <1>4, <1>6, <1>7

LEMMA FloorSync == ASSUME FloorInv, RenderInv', Sync PROVE FloorInv'
<1>1. PICK s, t, e : s = r /\ t = r' /\ e = Settling(r.corr, Settled)
  OBVIOUS
<1>2. s \in RendererSet /\ s.corr \in CorrSet /\ Fits(s.corr, Settled)
  BY <1>1, RendererFields DEF FloorInv, RenderInv, GoodRenderer
<1>3. t = [s EXCEPT !.corr = e] /\ clock' = clock
  BY <1>1 DEF Sync
<1>4. t.corr = e
  BY <1>2, <1>3, RendererFields
<1>5. Fits(e, Settled) /\ (Settled => e.seen)
  <2>1. Settled \in BOOLEAN
    BY DEF Settled
  <2> QED BY <1>1, <1>2, <2>1, SettlingFits
<1>6. Settled' = Settled
  BY <1>3 DEF Settled
<1>7. Fits(r.corr, Settled)'
  BY <1>1, <1>4, <1>5, <1>6
<1> QED BY <1>1, <1>4, <1>5, <1>6, <1>7 DEF FloorInv

LEMMA CorrectLeaves ==
    ASSUME RenderInv, Correct, NEW e, e = Measured(r.corr, RawError, Settled)
    PROVE  /\ RawError \in Int /\ Settled \in BOOLEAN /\ e \in CorrSet
           /\ r'.corr = IF e.schedule.reanchor THEN Restarted(e) ELSE e
<1>1. PICK s, t : s = r /\ t = r'
  OBVIOUS
<1>2. GoodRenderer(s) /\ s \in RendererSet /\ CorrOK(s.corr)
  BY <1>1, RendererFields DEF RenderInv, GoodRenderer
<1>3. RawError \in Int
  BY ErrorIsNumber DEF Correct
<1>4. Settled \in BOOLEAN
  BY DEF Settled
<1>5. e \in CorrSet
  BY <1>1, <1>2, <1>3, <1>4, MeasuredOK
<1>6. CASE e.schedule.reanchor
  <2>1. PICK u : u = [s EXCEPT !.started = TRUE, !.corr = e]
    OBVIOUS
  <2>2. t = Reset(u)
    BY <1>1, <1>6, <2>1 DEF Correct
  <2>3. s = [started |-> s.started, gen |-> s.gen, floor |-> s.floor,
             insertIn |-> s.insertIn, dropIn |-> s.dropIn, corr |-> s.corr]
    BY <1>2, RendererFields
  <2>4. u \in RendererSet /\ u.corr = e
    BY <1>2, <1>5, <2>1, <2>3, StartedGood
  <2>5. t.corr = Restarted(e)
    BY <2>2, <2>4, CorrOf
  <2> QED BY <1>1, <1>3, <1>4, <1>5, <1>6, <2>5
<1>7. CASE ~e.schedule.reanchor
  <2>1. PICK u : u = [s EXCEPT !.started = TRUE]
    OBVIOUS
  <2>2. t = Adopts(u, e)
    BY <1>1, <1>7, <2>1 DEF Correct
  <2>3. u \in RendererSet
    BY <1>2, <2>1, PlayingGood DEF GoodRenderer
  <2>4. t.corr = e
    BY <2>2, <2>3, CorrOf
  <2> QED BY <1>1, <1>3, <1>4, <1>5, <1>7, <2>4
<1> QED BY <1>6, <1>7

LEMMA FloorCorrects == ASSUME FloorInv, RenderInv', Correct PROVE FloorInv'
<1>1. PICK c, e : c = r.corr /\ e = Measured(r.corr, RawError, Settled)
  OBVIOUS
<1>2. CorrOK(c) /\ RenderInv
  BY <1>1 DEF FloorInv, RenderInv, GoodRenderer
<1>3. cb.at = "plan" /\ clock' = clock /\ cb' = [cb EXCEPT !.at = "render"]
  BY DEF Correct
<1>4. cb'.at = "render"
  BY <1>2, <1>3, CallbackFields DEF RenderInv, GoodCallback
<1>5. Settled' = Settled /\ (Settled => c.seen)
  BY <1>1, <1>3 DEF Settled, FloorInv
<1>6. PICK d : d = r'.corr
  OBVIOUS
<1>7. /\ RawError \in Int /\ Settled \in BOOLEAN /\ e \in CorrSet
      /\ d = IF e.schedule.reanchor THEN Restarted(e) ELSE e
  BY <1>1, <1>2, <1>6, CorrectLeaves
<1>8. CASE e.schedule.reanchor
  <2>1. Fits(d, Settled)
    BY <1>7, <1>8, RestartedFits
  <2>2. Fits(r.corr, Settled)'
    BY <1>5, <1>6, <2>1
  <2> QED BY <1>4, <2>2 DEF FloorInv
<1>9. CASE ~e.schedule.reanchor
  <2>1. Fits(d, Settled)
    BY <1>1, <1>2, <1>5, <1>7, <1>9, MeasuredFits
  <2>2. Fits(r.corr, Settled)'
    BY <1>5, <1>6, <2>1
  <2> QED BY <1>4, <2>2 DEF FloorInv
<1> QED BY <1>8, <1>9

LEMMA FloorNext == ASSUME FloorInv, [Next]_vars PROVE FloorInv'
<1>1. RenderInv'
  BY RenderNext DEF FloorInv
<1>2. CASE UNCHANGED vars
  <2>1. UNCHANGED <<r, cb, clock>>
    BY <1>2 DEF vars
  <2> QED BY <1>1, <2>1, FloorKept DEF Settled
<1>3. CASE App \/ ClockUpdate \/ SkipSync \/ StaysSilent \/ Render
  BY <1>1, <1>3, FloorIdleSteps
<1>4. CASE (\E d \in Deltas : Snapshot(d)) \/ Handoff \/ PlanBlind
  BY <1>1, <1>4, FloorResetSteps
<1>5. CASE Sync
  BY <1>1, <1>5, FloorSync
<1>6. CASE Correct
  BY <1>1, <1>6, FloorCorrects
<1> QED BY <1>2, <1>3, <1>4, <1>5, <1>6 DEF Next, Callback

LEMMA FloorHolds == Spec => []FloorInv
<1>1. Init => FloorInv
  BY FloorInit
<1>2. FloorInv /\ [Next]_vars => FloorInv'
  BY FloorNext
<1> QED BY <1>1, <1>2, PTL DEF Spec

\* Frames are dropped or repeated for what was measured: in every state a correction
\* in force is one for the floor of the readings that the filter holds, planned with
\* a settled clock, whatever resets, handoffs, clears and clock updates came between
\* the reading and the frames.
THEOREM RendererCorrects == Spec => []CorrectsTheFloor
<1>1. FloorInv => CorrectsTheFloor
  <2> SUFFICES ASSUME FloorInv, IsCorrecting(r.corr.schedule)
               PROVE  CorrectsTheFloor
    BY DEF CorrectsTheFloor
  <2>1. Fits(r.corr, Settled)
    BY DEF FloorInv
  <2> QED BY <2>1 DEF Fits, Steady, Justified, CorrectsTheFloor
<1> QED BY <1>1, FloorHolds, PTL

---------------------------------------------------------------------------
(* The renderer implements SyncCorrection *)

\* The theorems about SyncCorrection, with the renderer's state for its variables.
Proved == INSTANCE SyncCorrection_proofs
          WITH corr <- r.corr, settled <- Settled, readings <- measured,
               Errors <- Int, Periods <- {PeriodTime}

\* An instance has operators of its own, which are those of the renderer.
LEMMA SameFilter ==
    ASSUME NEW f, NEW raw, NEW p
    PROVE  /\ Correction!Recorded(f, raw) = Recorded(f, raw)
           /\ Proved!Recorded(f, raw) = Recorded(f, raw)
           /\ Correction!Floor(f) = Floor(f) /\ Proved!Floor(f) = Floor(f)
           /\ Correction!IsWarm(f) = IsWarm(f) /\ Proved!IsWarm(f) = IsWarm(f)
<1>1. Correction!Recorded(f, raw) = Recorded(f, raw) /\ Proved!Recorded(f, raw) = Recorded(f, raw)
  BY DEF Correction!Recorded, Proved!Recorded, Recorded
<1>2. Correction!Floor(f) = Floor(f) /\ Proved!Floor(f) = Floor(f)
  BY DEF Correction!Floor, Proved!Floor, Floor, Correction!Min, Proved!Min, Min
<1>3. Correction!IsWarm(f) = IsWarm(f) /\ Proved!IsWarm(f) = IsWarm(f)
  BY DEF Correction!IsWarm, Proved!IsWarm, IsWarm
<1> QED BY <1>1, <1>2, <1>3

LEMMA SamePlan ==
    ASSUME NEW e, NEW correcting
    PROVE  /\ Correction!Plan(e, correcting) = Plan(e, correcting)
           /\ Proved!Plan(e, correcting) = Plan(e, correcting)
<1>1. Correction!Abs(e) = Abs(e) /\ Proved!Abs(e) = Abs(e)
  BY DEF Correction!Abs, Proved!Abs, Abs
<1>2. Correction!Interval(e) = Interval(e) /\ Proved!Interval(e) = Interval(e)
  BY <1>1 DEF Correction!Interval, Proved!Interval, Interval,
              Correction!Max, Proved!Max, Max
<1>3. Correction!Idle = Idle /\ Proved!Idle = Idle
  BY DEF Correction!Idle, Proved!Idle, Idle
<1> QED BY <1>1, <1>2, <1>3 DEF Correction!Plan, Proved!Plan, Plan

LEMMA SameGate ==
    ASSUME NEW s, NEW correcting
    PROVE  /\ Correction!IsCorrecting(s) = IsCorrecting(s)
           /\ Proved!IsCorrecting(s) = IsCorrecting(s)
           /\ Correction!Passes(s, correcting) = Passes(s, correcting)
           /\ Proved!Passes(s, correcting) = Passes(s, correcting)
  BY DEF Correction!IsCorrecting, Proved!IsCorrecting, IsCorrecting,
         Correction!Passes, Proved!Passes, Passes

LEMMA SameMeasured ==
    ASSUME NEW c, NEW raw, NEW st
    PROVE  /\ Correction!Measured(c, raw, st) = Measured(c, raw, st)
           /\ Proved!Measured(c, raw, st) = Measured(c, raw, st)
<1>1. PICK f, correcting : f = Recorded(c.filter, raw) /\ correcting = IsCorrecting(c.schedule)
  OBVIOUS
<1>2. PICK planned : planned = Plan(Floor(f), correcting)
  OBVIOUS
<1>3. PICK passes : passes = Passes(planned, correcting)
  OBVIOUS
<1>4. PICK streak : streak = IF passes THEN 0 ELSE Min({c.streak + 1, StreakPlans})
  OBVIOUS
<1>5. PICK admitted : admitted = IF passes \/ (IsWarm(f) /\ streak >= StreakPlans)
                                 THEN planned ELSE Idle
  OBVIOUS
<1>6. Correction!Idle = Idle /\ Proved!Idle = Idle
  BY DEF Correction!Idle, Proved!Idle, Idle
<1>7. \A S : Correction!Min(S) = Min(S) /\ Proved!Min(S) = Min(S)
  BY DEF Correction!Min, Proved!Min, Min
<1>8. Measured(c, raw, st) =
        [c EXCEPT !.filter = f, !.streak = streak,
                  !.schedule = IF st \/ admitted.reanchor THEN admitted ELSE Idle]
  BY <1>1, <1>2, <1>3, <1>4, <1>5 DEF Measured
<1>9. Correction!Measured(c, raw, st) =
        [c EXCEPT !.filter = f, !.streak = streak,
                  !.schedule = IF st \/ admitted.reanchor THEN admitted ELSE Idle]
  <2>1. /\ Correction!Recorded(c.filter, raw) = f
        /\ Correction!IsCorrecting(c.schedule) = correcting
    BY <1>1, SameFilter, SameGate
  <2>2. Correction!Floor(f) = Floor(f) /\ Correction!IsWarm(f) = IsWarm(f)
    BY SameFilter
  <2>3. Correction!Plan(Floor(f), correcting) = planned
    BY <1>2, SamePlan
  <2>4. Correction!Passes(planned, correcting) = passes
    BY <1>3, SameGate
  <2> QED BY <1>4, <1>5, <1>6, <1>7, <2>1, <2>2, <2>3, <2>4 DEF Correction!Measured
<1>10. Proved!Measured(c, raw, st) =
        [c EXCEPT !.filter = f, !.streak = streak,
                  !.schedule = IF st \/ admitted.reanchor THEN admitted ELSE Idle]
  <2>1. /\ Proved!Recorded(c.filter, raw) = f
        /\ Proved!IsCorrecting(c.schedule) = correcting
    BY <1>1, SameFilter, SameGate
  <2>2. Proved!Floor(f) = Floor(f) /\ Proved!IsWarm(f) = IsWarm(f)
    BY SameFilter
  <2>3. Proved!Plan(Floor(f), correcting) = planned
    BY <1>2, SamePlan
  <2>4. Proved!Passes(planned, correcting) = passes
    BY <1>3, SameGate
  <2> QED BY <1>4, <1>5, <1>6, <1>7, <2>1, <2>2, <2>3, <2>4 DEF Proved!Measured
<1> QED BY <1>8, <1>9, <1>10

LEMMA SameResets ==
    ASSUME NEW c, NEW st
    PROVE  /\ Correction!Restarted(c) = Restarted(c) /\ Proved!Restarted(c) = Restarted(c)
           /\ Correction!Settling(c, st) = Settling(c, st)
           /\ Proved!Settling(c, st) = Settling(c, st)
<1>1. Correction!Restarted(c) = Restarted(c) /\ Proved!Restarted(c) = Restarted(c)
  BY DEF Correction!Restarted, Proved!Restarted, Restarted, Correction!Forgotten,
         Proved!Forgotten, Forgotten, Correction!FilterReset, Proved!FilterReset,
         FilterReset, Correction!Idle, Proved!Idle, Idle
<1>2. Correction!Settling(c, st) = Settling(c, st) /\ Proved!Settling(c, st) = Settling(c, st)
  BY DEF Correction!Settling, Proved!Settling, Settling, Correction!Forgotten,
         Proved!Forgotten, Forgotten, Correction!FilterReset, Proved!FilterReset, FilterReset
<1> QED BY <1>1, <1>2

\* What the steps of SyncCorrection do to the renderer's correction.
StaysPut  == r'.corr = r.corr /\ measured' = measured
GivesUp   == r'.corr = Restarted(r.corr) /\ measured' = <<>>
SeesClock == /\ r'.corr = Settling(r.corr, Settled)
             /\ measured' = IF Settled /\ ~r.corr.seen THEN <<>> ELSE measured
Reads ==
    LET after == Measured(r.corr, RawError, Settled)
    IN  /\ Settled => r.corr.seen
        /\ r'.corr = IF after.schedule.reanchor THEN Restarted(after) ELSE after
        /\ measured' = IF after.schedule.reanchor THEN <<>>
                       ELSE LastOf(Append(measured, RawError), MaxWindow)

\* One of them is every step of the renderer, and the clock settles beside them.
Driven ==
    \/ (StaysPut \/ GivesUp \/ SeesClock) /\ Settled' = Settled
    \/ cb.at = "plan" /\ Reads /\ Settled' = Settled
    \/ StaysPut /\ ~Settled /\ Settled'

LEMMA SameLast ==
    ASSUME NEW s, NEW n
    PROVE  Correction!LastOf(s, n) = LastOf(s, n) /\ Proved!LastOf(s, n) = LastOf(s, n)
  BY DEF Correction!LastOf, Proved!LastOf, LastOf, Correction!Max, Proved!Max, Max

LEMMA IdleDrives ==
    ASSUME RenderInv, App \/ ClockUpdate \/ SkipSync \/ StaysSilent \/ Render,
           UNCHANGED measured
    PROVE  Driven
<1>1. CASE App \/ SkipSync \/ StaysSilent
  <2>1. UNCHANGED <<r, clock>>
    BY <1>1 DEF App, Enqueue, Clear, StoreDelay, FlagDelay, SkipSync, StaysSilent, appVars, ghosts
  <2> QED BY <2>1 DEF Driven, StaysPut, Settled
<1>2. CASE ClockUpdate
  <2>1. r' = r /\ (Settled => Settled') /\ Settled \in BOOLEAN /\ Settled' \in BOOLEAN
    BY <1>2 DEF ClockUpdate, Update, Settled, appVars, ghosts
  <2> QED BY <2>1 DEF Driven, StaysPut
<1>3. CASE Render
  BY <1>3, RenderLeaves DEF Driven, StaysPut, Settled
<1> QED BY <1>1, <1>2, <1>3

LEMMA ResetDrives ==
    ASSUME RenderInv,
           \/ \E d \in Deltas : Snapshot(d) /\ Forgets(pq.generation # r.gen)
           \/ Handoff /\ Forgets(HandoffCursor # {})
           \/ PlanBlind /\ Forgets(IsCorrecting(r.corr.schedule))
    PROVE  Driven
<1>1. PICK s, t : s = r /\ t = r'
  OBVIOUS
<1>2. s \in RendererSet /\ s.corr \in CorrSet
  BY <1>1, RendererFields DEF RenderInv, GoodRenderer
<1>3. Settled' = Settled
  BY DEF Snapshot, Handoff, PlanBlind, appVars, Settled
<1>4. \/ t.corr = s.corr /\ measured' = measured
      \/ t.corr = Restarted(s.corr) /\ measured' = <<>>
  <2>1. CASE \E d \in Deltas : Snapshot(d) /\ Forgets(pq.generation # r.gen)
    <3> PICK d \in Deltas : Snapshot(d) /\ Forgets(pq.generation # r.gen)
      BY <2>1
    <3>1. PICK l, e : l = {Lowest(d)} /\ e = Restarted(s.corr)
      OBVIOUS
    <3>2. s = [started |-> s.started, gen |-> s.gen, floor |-> s.floor,
               insertIn |-> s.insertIn, dropIn |-> s.dropIn, corr |-> s.corr]
      BY <1>2, RendererFields
    <3>3. \/ t = [s EXCEPT !.floor = l] /\ measured' = measured
          \/ /\ t = [started |-> FALSE, gen |-> pq.generation, floor |-> {d},
                     insertIn |-> 0, dropIn |-> 0, corr |-> e]
             /\ measured' = <<>>
      BY <1>1, <3>1 DEF Snapshot, Forgets
    <3> QED BY <3>1, <3>2, <3>3
  <2>2. CASE Handoff /\ Forgets(HandoffCursor # {})
    <3>1. \/ t = s /\ measured' = measured
          \/ t = Reset(s) /\ measured' = <<>>
      BY <1>1, <2>2 DEF Handoff, Forgets
    <3> QED BY <1>2, <3>1, CorrOf
  <2>3. CASE PlanBlind /\ Forgets(IsCorrecting(r.corr.schedule))
    <3>1. \/ t = s /\ measured' = measured
          \/ t = Reset(s) /\ measured' = <<>>
      BY <1>1, <2>3 DEF PlanBlind, Forgets
    <3> QED BY <1>2, <3>1, CorrOf
  <2> QED BY <2>1, <2>2, <2>3
<1> QED BY <1>1, <1>3, <1>4 DEF Driven, StaysPut, GivesUp

LEMMA SyncDrives ==
    ASSUME RenderInv, Sync, Forgets(Settled /\ ~r.corr.seen)
    PROVE  Driven
<1>1. PICK s, t, e : s = r /\ t = r' /\ e = Settling(r.corr, Settled)
  OBVIOUS
<1>2. s \in RendererSet
  BY <1>1 DEF RenderInv, GoodRenderer
<1>3. t = [s EXCEPT !.corr = e] /\ clock' = clock
  BY <1>1 DEF Sync
<1>4. t.corr = e
  BY <1>2, <1>3, RendererFields
<1> QED BY <1>1, <1>3, <1>4 DEF Driven, SeesClock, Forgets, Settled

LEMMA CorrectDrives == ASSUME FloorInv, CorrectReads PROVE Driven
<1>1. Correct /\ RenderInv /\ cb.at = "plan" /\ Settled' = Settled
  BY DEF CorrectReads, Correct, FloorInv, Settled
<1>2. Settled => r.corr.seen
  BY <1>1 DEF FloorInv
<1>3. PICK e : e = Measured(r.corr, RawError, Settled)
  OBVIOUS
<1>4. r'.corr = IF e.schedule.reanchor THEN Restarted(e) ELSE e
  BY <1>1, <1>3, CorrectLeaves
<1>5. measured' = IF e.schedule.reanchor THEN <<>>
                  ELSE LastOf(Append(measured, RawError), MaxWindow)
  BY <1>3, SameLast DEF CorrectReads
<1>6. Reads
  BY <1>2, <1>3, <1>4, <1>5 DEF Reads
<1> QED BY <1>1, <1>6 DEF Driven

LEMMA ReadingsDrive == ASSUME FloorInv, [ReadingsNext]_readingsVars PROVE Driven
<1>1. RenderInv
  BY DEF FloorInv
<1>2. CASE UNCHANGED readingsVars
  <2>1. UNCHANGED <<r, clock, measured>>
    BY <1>2 DEF readingsVars, vars
  <2> QED BY <2>1 DEF Driven, StaysPut, Settled
<1>3. CASE (App \/ ClockUpdate \/ SkipSync \/ StaysSilent \/ Render) /\ UNCHANGED measured
  BY <1>1, <1>3, IdleDrives
<1>4. CASE \/ \E d \in Deltas : Snapshot(d) /\ Forgets(pq.generation # r.gen)
           \/ Handoff /\ Forgets(HandoffCursor # {})
           \/ PlanBlind /\ Forgets(IsCorrecting(r.corr.schedule))
  BY <1>1, <1>4, ResetDrives
<1>5. CASE Sync /\ Forgets(Settled /\ ~r.corr.seen)
  BY <1>1, <1>5, SyncDrives
<1>6. CASE CorrectReads
  BY <1>6, CorrectDrives
<1> QED BY <1>2, <1>3, <1>4, <1>5, <1>6 DEF ReadingsNext

\* Those are the steps of SyncCorrection, in either instance of it.
LEMMA DrivenSteps ==
    ASSUME Driven
    PROVE  /\ \/ Correction!Restart \/ Correction!Settle \/ Correction!ClockSettles
              \/ cb.at = "plan" /\ Correction!Measure(RawError)
              \/ UNCHANGED Correction!corrVars
           /\ \/ Proved!Restart \/ Proved!Settle \/ Proved!ClockSettles
              \/ Proved!Measure(RawError) /\ cb.at = "plan"
              \/ UNCHANGED Proved!corrVars
<1>1. CASE StaysPut /\ Settled' = Settled
  BY <1>1 DEF StaysPut, Correction!corrVars, Proved!corrVars
<1>2. CASE GivesUp /\ Settled' = Settled
  BY <1>2, SameResets DEF GivesUp, Correction!Restart, Proved!Restart
<1>3. CASE SeesClock /\ Settled' = Settled
  BY <1>3, SameResets DEF SeesClock, Correction!Settle, Proved!Settle
<1>4. CASE cb.at = "plan" /\ Reads /\ Settled' = Settled
  <2>1. PICK e : e = Measured(r.corr, RawError, Settled)
    OBVIOUS
  <2>2. /\ Correction!Measured(r.corr, RawError, Settled) = e
        /\ Proved!Measured(r.corr, RawError, Settled) = e
        /\ Correction!Restarted(e) = Restarted(e) /\ Proved!Restarted(e) = Restarted(e)
    BY <2>1, SameMeasured, SameResets
  <2>3. PICK l : l = LastOf(Append(measured, RawError), MaxWindow)
    OBVIOUS
  <2>4. /\ Correction!LastOf(Append(measured, RawError), MaxWindow) = l
        /\ Proved!LastOf(Append(measured, RawError), MaxWindow) = l
    BY <2>3, SameLast
  <2>5. /\ Settled => r.corr.seen
        /\ r'.corr = IF e.schedule.reanchor THEN Restarted(e) ELSE e
        /\ measured' = IF e.schedule.reanchor THEN <<>> ELSE l
    BY <1>4, <2>1, <2>3 DEF Reads
  <2>6. Correction!Measure(RawError)
    BY <1>4, <2>2, <2>4, <2>5 DEF Correction!Measure
  <2>7. Proved!Measure(RawError)
    BY <1>4, <2>2, <2>4, <2>5 DEF Proved!Measure
  <2> QED BY <1>4, <2>6, <2>7
<1>5. CASE StaysPut /\ ~Settled /\ Settled'
  <2>1. Settled' = TRUE
    BY <1>5 DEF Settled
  <2> QED BY <1>5, <2>1 DEF StaysPut, Correction!ClockSettles, Proved!ClockSettles
<1> QED BY <1>1, <1>2, <1>3, <1>4, <1>5 DEF Driven

LEMMA ReadingsStart ==
    ASSUME ReadingsInit PROVE Correction!CorrInit /\ Proved!CorrInit
<1>1. Correction!NewCorr = NewCorr /\ Proved!NewCorr = NewCorr
  BY DEF Correction!NewCorr, Proved!NewCorr, NewCorr, Correction!NewFilter,
         Proved!NewFilter, NewFilter, Correction!Idle, Proved!Idle, Idle
<1>2. ASSUME NEW p
      PROVE  Correction!WindowLen(p) = WindowLen(p) /\ Proved!WindowLen(p) = WindowLen(p)
  BY DEF Correction!WindowLen, Proved!WindowLen, WindowLen, Correction!Max, Proved!Max, Max,
         Correction!Min, Proved!Min, Min
<1>3. ASSUME NEW f, NEW p
      PROVE  /\ Correction!ForPeriod(f, p) = ForPeriod(f, p)
             /\ Proved!ForPeriod(f, p) = ForPeriod(f, p)
  BY <1>2 DEF Correction!ForPeriod, Proved!ForPeriod, ForPeriod, Correction!FilterReset,
              Proved!FilterReset, FilterReset
<1>4. r.corr = [NewCorr EXCEPT !.filter = ForPeriod(@, PeriodTime)]
  BY DEF ReadingsInit, Init
<1>5. Settled = FALSE /\ measured = <<>>
  BY DEF ReadingsInit, Init, Settled
<1>6. Correction!CorrInit
  BY <1>1, <1>3, <1>4, <1>5 DEF Correction!CorrInit
<1>7. Proved!CorrInit
  BY <1>1, <1>3, <1>4, <1>5 DEF Proved!CorrInit
<1> QED BY <1>6, <1>7

\* The readings are beside the renderer, and change nothing in it.
LEMMA ReadingsFloor == ReadingsSpec => []FloorInv
<1>1. ReadingsInit => Init
  BY DEF ReadingsInit
<1>2. [ReadingsNext]_readingsVars => [Next]_vars
  BY DEF ReadingsNext, CorrectReads, readingsVars, Next, Callback
<1>3. ReadingsSpec => Spec
  BY <1>1, <1>2, PTL DEF ReadingsSpec, Spec
<1> QED BY <1>3, FloorHolds, PTL

\* Every callback drives the correction as SyncCorrection does, whatever clears,
\* delays, updates of the clock and early returns it meets: a reading is planned on
\* only by a callback that has seen whether the clock is settled, and is forgotten
\* wherever the cursor moves, the generation changes or the clock is lost.
THEOREM CorrectionDriven == ReadingsSpec => DrivesCorrection
<1>1. ReadingsInit => Correction!CorrInit
  BY ReadingsStart
<1>2. FloorInv /\ [ReadingsNext]_readingsVars =>
        [ \/ Correction!Restart \/ Correction!Settle \/ Correction!ClockSettles
          \/ cb.at = "plan" /\ Correction!Measure(RawError) ]_Correction!corrVars
  BY ReadingsDrive, DrivenSteps
<1> QED BY <1>1, <1>2, ReadingsFloor, PTL DEF ReadingsSpec, DrivesCorrection

\* The renderer implements SyncCorrection, with any readings and one period.
THEOREM CorrectionImplemented == ReadingsSpec => Proved!CorrSpec
<1>1. ReadingsInit => Proved!CorrInit
  BY ReadingsStart
<1>2. FloorInv /\ [ReadingsNext]_readingsVars => [Proved!CorrNext]_Proved!corrVars
  <2> SUFFICES ASSUME FloorInv, [ReadingsNext]_readingsVars
               PROVE  [Proved!CorrNext]_Proved!corrVars
    OBVIOUS
  <2>1. \/ Proved!Restart \/ Proved!Settle \/ Proved!ClockSettles
        \/ Proved!Measure(RawError) /\ cb.at = "plan"
        \/ UNCHANGED Proved!corrVars
    BY ReadingsDrive, DrivenSteps
  <2>2. cb.at = "plan" => RawError \in Int
    BY ErrorIsNumber DEF FloorInv
  <2> QED BY <2>1, <2>2 DEF Proved!CorrNext
<1> QED BY <1>1, <1>2, ReadingsFloor, PTL DEF ReadingsSpec, Proved!CorrSpec

\* So its floor is that of the latest readings of one window, since the last reset,
THEOREM RendererFloor == ReadingsSpec => []Proved!FloorOfWindow
<1>1. Proved!CorrSpec => []Proved!FloorOfWindow
  BY Proved!FloorCorrect, CorrectionAssumption, PeriodIsNumber
<1> QED BY <1>1, CorrectionImplemented, PTL

\* a correction in force is for the error at hand and ends with it,
THEOREM RendererError == ReadingsSpec => []Proved!CorrectsTheError
<1>1. Proved!CorrSpec => []Proved!CorrectsTheError
  BY Proved!CorrectionCorrect, CorrectionAssumption, PeriodIsNumber
<1> QED BY <1>1, CorrectionImplemented, PTL

\* and it drops frames only with a full window of late readings of a settled clock.
THEOREM RendererEvidence == ReadingsSpec => Proved!DropsNeedEvidence
<1>1. Proved!CorrSpec => Proved!DropsNeedEvidence
  BY Proved!EvidenceCorrect, CorrectionAssumption, PeriodIsNumber
<1> QED BY <1>1, CorrectionImplemented, PTL
================================================================================
