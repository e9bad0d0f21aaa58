------------------------------ MODULE Player_proofs -------------------------------
(***************************************************************************)
(* Proofs about what is beside the renderer in a player: the PipeWire      *)
(* player's thread (PwPlayer) and its gain (Gain).                         *)
(*                                                                         *)
(* PwPlayer, for any gaps, rates, steps and capacity, and any number of    *)
(* requests: the variables keep their types, no callback writes more than  *)
(* its buffer holds, and a thread that died on its own has said so.        *)
(*                                                                         *)
(* Gain, for any threads, volumes, curve, ramp and callbacks: the gain     *)
(* stays in range, and one ramp after a target was first seen it is there. *)
(***************************************************************************)
EXTENDS PwPlayer, Gain, SequenceTheorems, TLAPS

---------------------------------------------------------------------------
(* The PipeWire player *)

\* A callback fills no more frames than the buffer holds, whatever is requested.
LEMMA FillFits ==
    ASSUME NEW r \in Nat, NEW c \in Nat PROVE FramesToFill(r, c) \in 0..c
BY DEF FramesToFill

\* The requests that wait were accepted after the ones that were served.
CountsOK == Len(requests) + served <= sent

\* TypeOK and what it rests on.
TypeInv == TypeOK /\ CountsOK

LEMMA TypeInit == Init => TypeInv
<1> SUFFICES ASSUME Init PROVE TypeInv
  OBVIOUS
<1>1. <<>> \in Seq(Gaps) /\ Len(<<>>) = 0
  BY EmptySeq
<1>2. requests \in Seq(Gaps) /\ Len(requests) = 0
  BY <1>1 DEF Init
<1>3. sent = 0 /\ served = 0 /\ left = 0 /\ filled = 0
  BY DEF Init
<1>4. owner = "held" /\ thread = "setup" /\ stream = "none"
  BY DEF Init
<1>5. running \in BOOLEAN /\ lastError \in BOOLEAN /\ told \in BOOLEAN
  BY DEF Init
<1> QED BY <1>2, <1>3, <1>4, <1>5, PwAssumption DEF TypeInv, TypeOK, CountsOK

LEMMA TypeStep == TypeInv /\ [Next]_vars => TypeInv'
<1> SUFFICES ASSUME TypeInv, [Next]_vars PROVE TypeInv'
  OBVIOUS
<1> USE PwAssumption DEF TypeInv, TypeOK, CountsOK
<1>1. ASSUME NEW g \in Gaps, Reconnect(g) PROVE TypeInv'
  <2>1. requests' \in Seq(Gaps) /\ Len(requests') = Len(requests) + 1
    BY <1>1, AppendProperties DEF Reconnect
  <2> QED BY <1>1, <2>1 DEF Reconnect, threadVars, ownerVars, errorVars, clockVars
<1>2. CASE TakeError
  BY <1>2 DEF TakeError, threadVars, ownerVars, clockVars, requestVars
<1>3. CASE Drop
  BY <1>3 DEF Drop, threadVars, errorVars, clockVars, requestVars
<1>4. CASE Joined
  BY <1>4 DEF Joined, threadVars, errorVars, clockVars, requestVars
<1>5. CASE PollRequests
  <2>1. left' \in Nat /\ Len(requests) \in Nat
    <3>1. Head(requests) \in Gaps
      BY <1>5, HeadTailProperties DEF PollRequests
    <3> QED BY <1>5, <3>1, LenProperties DEF PollRequests
  <2>2. requests' \in Seq(Gaps) /\ Len(requests') = 0
    <3>1. <<>> \in Seq(Gaps) /\ Len(<<>>) = 0
      BY EmptySeq
    <3> QED BY <1>5, <3>1 DEF PollRequests
  <2>3. UNCHANGED <<stream, sent, served, owner, running, lastError, told, filled>>
        /\ thread' = "disconnect"
    BY <1>5 DEF PollRequests, Goes, ownerVars, errorVars, clockVars
  <2> QED BY <2>1, <2>2, <2>3
<1>6. CASE Disconnect
  <2>1. Len(requests) \in Nat
    BY LenProperties
  <2> QED BY <1>6, <2>1 DEF Disconnect, Goes, ownerVars, errorVars, clockVars
<1>7. CASE IdleRound
  BY <1>7 DEF IdleRound, Goes, ownerVars, errorVars, clockVars, requestVars
<1>8. CASE SetupFails \/ SetupConnects \/ StoreError \/ LoopRuns \/ LoopEnds \/ PollEmpty
           \/ IdleEnds \/ IdleOver \/ Connect \/ StreamDestroyed
  <2> USE <1>8 DEF SetupFails, SetupConnects, StoreError, LoopRuns, LoopEnds, PollEmpty,
      IdleEnds, IdleOver, Connect, StreamDestroyed, Goes
  <2>1. UNCHANGED <<owner, running, requests, sent, served, told, filled>>
    BY DEF ownerVars, errorVars, clockVars, requestVars
  <2>2. /\ thread' \in {"failed", "loop", "poll", "check", "connect", "ending", "done"}
        /\ left' \in Nat
    BY DEF ownerVars
  <2>3. stream' \in {"none", "connected", "disconnected"}
    BY DEF ownerVars
  <2>4. lastError' \in BOOLEAN
    BY DEF errorVars
  <2> HIDE <1>8 DEF SetupFails, SetupConnects, StoreError, LoopRuns, LoopEnds, PollEmpty,
      IdleEnds, IdleOver, Connect, StreamDestroyed, Goes
  <2> QED BY <2>1, <2>2, <2>3, <2>4
<1>9. ASSUME NEW s, NEW rate, NEW r \in Requested, Process(s, rate, r) PROVE TypeInv'
  <2>1. filled' \in 0..Capacity
    BY <1>9, FillFits DEF Process
  <2> QED BY <1>9, <2>1 DEF Process, threadVars, ownerVars, errorVars, requestVars
<1>10. CASE UNCHANGED vars
  BY <1>10 DEF vars, threadVars, ownerVars, errorVars, clockVars, requestVars
<1> QED BY <1>1, <1>2, <1>3, <1>4, <1>5, <1>6, <1>7, <1>8, <1>9, <1>10
      DEF Next, App, Thread, Callback

\* TypeOK: the variables keep their types; a callback writes no more than the buffer
\* holds (frames_to_fill), and a served request was an accepted one.
THEOREM TypeCorrect == Spec => []TypeOK
<1>1. TypeInv => TypeOK
  BY DEF TypeInv
<1> QED BY <1>1, TypeInit, TypeStep, PTL DEF Spec

---------------------------------------------------------------------------
(* The end of the thread *)

\* While the flag is up the thread leaves its loop by no way, so it has failed in the
\* setup; and what it stored there is kept until the application takes it.
EndInv ==
    /\ thread = "ending" => ~running
    /\ DeadThreadReported

LEMMA EndInit == Init => EndInv
BY DEF Init, EndInv, DeadThreadReported

LEMMA EndStep == TypeOK /\ EndInv /\ [Next]_vars => EndInv'
<1> SUFFICES ASSUME TypeOK, EndInv, [Next]_vars PROVE EndInv'
  OBVIOUS
<1> USE DEF EndInv, DeadThreadReported
<1>1. CASE App
  <2>1. CASE TakeError
    BY <1>1, <2>1 DEF TakeError, threadVars, ownerVars
  <2>2. CASE Drop
    BY <1>1, <2>2 DEF Drop
  <2>3. CASE Joined
    BY <1>1, <2>3 DEF Joined, threadVars, errorVars
  <2>4. ASSUME NEW g \in Gaps, Reconnect(g) PROVE EndInv'
    BY <2>4 DEF Reconnect, threadVars, ownerVars, errorVars
  <2> QED BY <1>1, <2>1, <2>2, <2>3, <2>4 DEF App
<1>2. CASE Thread
  BY <1>2 DEF Thread, SetupFails, SetupConnects, StoreError, LoopRuns, LoopEnds, PollEmpty,
      PollRequests, Disconnect, IdleRound, IdleEnds, IdleOver, Connect, StreamDestroyed, Goes,
      ownerVars, errorVars
<1>3. CASE Callback
  BY <1>3 DEF Callback, Process, threadVars, ownerVars, errorVars
<1>4. CASE UNCHANGED vars
  BY <1>4 DEF vars, threadVars, ownerVars, errorVars
<1> QED BY <1>1, <1>2, <1>3, <1>4 DEF Next

\* DeadThreadReported: an audio thread that has ended under a player nobody dropped
\* has stored its error (the closure of new), however the application polls for it.
THEOREM DeathReported == Spec => []DeadThreadReported
<1>1. EndInv => DeadThreadReported
  BY DEF EndInv
<1> QED BY <1>1, EndInit, EndStep, TypeCorrect, PTL DEF Spec

---------------------------------------------------------------------------
(* The device clock *)

Sample == [ticks : Nat, now : Nat]

\* The estimator has no unit yet, or its last sample is the one at which the device's
\* ticks last moved, and it measures from no earlier than the last break.
Follows(a, c, l) ==
    /\ est = [short |-> {a}, cumulative |-> {c}, last |-> {l}, rate |-> {device.rate}]
    /\ broken <= a.now /\ broken <= c.now
    /\ l.now = device.moved /\ l.ticks = device.ticks

ClockInv ==
    /\ device \in [ticks : Nat, now : Nat, moved : Nat, rate : Nat]
    /\ broken \in Nat /\ broken <= device.now /\ device.moved <= device.now
    /\ \/ est = NewEstimator /\ device.rate = 0
       \/ \E a, c, l \in Sample : Follows(a, c, l)
    /\ ReportsOneTimeline

LEMMA ClockInit == Init => ClockInv
BY DEF Init, ClockInv, ReportsOneTimeline

\* What a callback is told is a sample, no older than the one before, and new ticks
\* come with a new time.
LEMMA ToldSample ==
    ASSUME ClockInv, NEW d \in Nat, NEW s \in Told(d)
    PROVE  /\ s \in Sample /\ s.now >= device.now
           /\ s.ticks # device.ticks => s.now > device.now
BY DEF ClockInv, Told, Sample

LEMMA AnchorStep ==
    ASSUME NEW s \in Sample, NEW rate \in Nat, s.now >= device.now, ClockInv,
           est' = Anchored(s, rate), report' = {}, broken' = s.now,
           device' = [ticks |-> s.ticks, now |-> s.now, rate |-> rate, moved |-> s.now]
    PROVE  ClockInv'
<1>1. Follows(s, s, s)'
  BY DEF Follows, Anchored, Sample
<1>2. ReportsOneTimeline'
  BY DEF ReportsOneTimeline
<1>3. device' \in [ticks : Nat, now : Nat, moved : Nat, rate : Nat]
  BY DEF Sample
<1>4. broken' \in Nat /\ broken' <= device'.now /\ device'.moved <= device'.now
  BY DEF Sample
<1> QED BY <1>1, <1>2, <1>3, <1>4 DEF ClockInv

LEMMA ProcessStep ==
    ASSUME ClockInv, NEW d \in Nat, NEW s \in Told(d), NEW rate \in Nat, NEW r,
           Process(s, rate, r)
    PROVE  ClockInv'
<1>1. s \in Sample /\ s.now >= device.now /\ (s.ticks # device.ticks => s.now > device.now)
  BY ToldSample
<1>2. est' = Fed(est, s, rate).est /\ report' = Fed(est, s, rate).report
  BY DEF Process
<1>3. CASE rate = 0
  <2>1. est' = est /\ report' = {} /\ UNCHANGED <<device, broken>>
    BY <1>2, <1>3 DEF Process, Fed, NoReport
  <2> QED BY <2>1 DEF ClockInv, ReportsOneTimeline, Follows
<1>4. CASE rate # 0 /\ rate # device.rate
  <2>1. est.rate # {rate}
    BY <1>4 DEF ClockInv, NewEstimator, Follows
  <2>2. est' = Anchored(s, rate) /\ report' = {}
    BY <1>2, <1>4, <2>1 DEF Fed, NoReport
  <2>3. broken' = s.now
        /\ device' = [ticks |-> s.ticks, now |-> s.now, rate |-> rate, moved |-> s.now]
    BY <1>4 DEF Process, Breaks
  <2> QED BY <1>1, <2>2, <2>3, AnchorStep
<1>5. CASE rate # 0 /\ rate = device.rate
  <2>1. PICK a \in Sample, c \in Sample, l \in Sample : Follows(a, c, l)
    BY <1>5 DEF ClockInv
  <2>2. /\ est = [short |-> {a}, cumulative |-> {c}, last |-> {l}, rate |-> {rate}]
        /\ broken <= a.now /\ broken <= c.now
        /\ l.now = device.moved /\ l.ticks = device.ticks
    BY <2>1, <1>5 DEF Follows
  <2>3. (CHOOSE x \in est.short : TRUE) = a /\ (CHOOSE x \in est.last : TRUE) = l
    BY <2>2
  <2>4. Fed(est, s, rate) = IF Frozen(l, s) THEN NoReport(est)
                            ELSE IF Broken(l, s) THEN NoReport(Anchored(s, rate))
                            ELSE Measured(est, a, s, rate)
    BY <1>5, <2>2, <2>3 DEF Fed, Continued
  <2>5. broken' = IF Breaks(s, rate) THEN s.now ELSE broken
    BY <1>5 DEF Process
  <2>6. device' = [ticks |-> s.ticks, now |-> s.now, rate |-> rate,
                   moved |-> IF s.ticks = device.ticks THEN device.moved ELSE s.now]
    BY <1>5 DEF Process
  <2>7. device.now \in Nat /\ device.moved \in Nat /\ device.ticks \in Nat /\ broken \in Nat
        /\ broken <= device.now /\ device.moved <= device.now
    BY DEF ClockInv
  <2>8. s.now \in Nat /\ s.ticks \in Nat /\ s = [ticks |-> s.ticks, now |-> s.now]
    BY <1>1 DEF Sample
  <2>9. device' \in [ticks : Nat, now : Nat, moved : Nat, rate : Nat]
    BY <2>6, <2>7, <2>8
  <2>10. device'.moved <= device'.now
    BY <1>1, <2>6, <2>7, <2>8
  <2>11. CASE Frozen(l, s)
    <3>1. s.ticks = device.ticks
      BY <1>1, <2>2, <2>7, <2>8, <2>11 DEF Frozen
    <3>2. est' = est /\ report' = {}
      BY <1>2, <2>4, <2>11 DEF NoReport
    <3>3. broken' = broken /\ device'.moved = device.moved /\ device'.ticks = device.ticks
          /\ device'.rate = rate /\ device'.now = s.now
      BY <1>5, <2>5, <2>6, <2>7, <3>1 DEF Breaks
    <3>4. Follows(a, c, l)'
      BY <2>2, <3>2, <3>3 DEF Follows
    <3>5. ReportsOneTimeline'
      BY <3>2 DEF ReportsOneTimeline
    <3>6. broken' \in Nat /\ broken' <= device'.now
      BY <1>1, <2>7, <2>8, <3>3
    <3> QED BY <2>9, <2>10, <3>4, <3>5, <3>6 DEF ClockInv
  <2>12. CASE ~Frozen(l, s)
    <3>1. s.ticks # device.ticks
      BY <2>2, <2>12 DEF Frozen
    <3>2. Broken(l, s) <=> Breaks(s, rate)
      BY <1>1, <1>5, <2>2, <2>7, <2>8, <2>12, <3>1, DeviceClockAssumption DEF Broken, Breaks
    <3>3. device' = [ticks |-> s.ticks, now |-> s.now, rate |-> rate, moved |-> s.now]
      BY <2>6, <3>1
    <3>4. ASSUME est' = Anchored(s, rate), report' = {} PROVE ClockInv'
      <4>1. broken' \in Nat /\ broken' <= s.now
        BY <1>1, <2>5, <2>7, <2>8
      <4>2. Follows(s, s, s)'
        BY <3>3, <3>4, <4>1 DEF Follows, Anchored
      <4>3. ReportsOneTimeline'
        BY <3>4 DEF ReportsOneTimeline
      <4> QED BY <1>1, <2>9, <2>10, <3>3, <4>1, <4>2, <4>3 DEF ClockInv
    <3>5. CASE Broken(l, s)
      BY <1>2, <2>4, <2>12, <3>4, <3>5 DEF NoReport
    <3>6. CASE ~Broken(l, s)
      <4>1. broken' = broken /\ broken' \in Nat /\ broken' <= device'.now
        BY <1>1, <2>5, <2>7, <2>8, <3>2, <3>3, <3>6
      <4>2. Fed(est, s, rate) = Measured(est, a, s, rate)
        BY <2>4, <2>12, <3>6
      <4>3. CASE s.now - a.now < Window
        <5>1. est' = [est EXCEPT !.last = {s}] /\ report' = {}
          BY <1>2, <4>2, <4>3 DEF Measured, NoReport
        <5>2. est' = [short |-> {a}, cumulative |-> {c}, last |-> {s}, rate |-> {rate}]
          BY <2>2, <5>1
        <5>3. Follows(a, c, s)'
          BY <2>2, <3>3, <4>1, <5>2 DEF Follows
        <5>4. ReportsOneTimeline'
          BY <5>1 DEF ReportsOneTimeline
        <5> QED BY <1>1, <2>9, <2>10, <4>1, <5>3, <5>4 DEF ClockInv
      <4>4. CASE ~(s.now - a.now < Window) /\ ~PlausibleRate(a, s)
        BY <1>2, <3>4, <4>2, <4>4 DEF Measured, NoReport
      <4>5. CASE ~(s.now - a.now < Window) /\ PlausibleRate(a, s)
        <5>1. est' = [est EXCEPT !.last = {s}, !.short = {s}]
          BY <1>2, <2>2, <4>2, <4>5 DEF Measured
        <5>2. est' = [short |-> {s}, cumulative |-> {c}, last |-> {s}, rate |-> {rate}]
          BY <2>2, <5>1
        <5>3. report' = {[from |-> a, to |-> s, cumulative |-> c]}
          BY <1>2, <2>2, <4>2, <4>5 DEF Measured
        <5>4. broken' <= s.now
          BY <3>3, <4>1
        <5>5. Follows(s, c, s)'
          BY <2>2, <3>3, <4>1, <5>2, <5>4 DEF Follows
        <5>6. ReportsOneTimeline'
          BY <2>2, <4>1, <5>3 DEF ReportsOneTimeline
        <5> QED BY <1>1, <2>9, <2>10, <4>1, <5>5, <5>6 DEF ClockInv
      <4> QED BY <4>3, <4>4, <4>5
    <3> QED BY <3>5, <3>6
  <2> QED BY <2>11, <2>12
<1> QED BY <1>3, <1>4, <1>5

LEMMA ClockStep == ClockInv /\ [Next]_vars => ClockInv'
<1> SUFFICES ASSUME ClockInv, [Next]_vars PROVE ClockInv'
  OBVIOUS
<1>1. CASE Callback
  BY <1>1, ProcessStep, PwAssumption DEF Callback
<1>2. ASSUME UNCHANGED <<device, est, report, broken>> PROVE ClockInv'
  BY <1>2 DEF ClockInv, ReportsOneTimeline, Follows
<1>3. CASE App
  BY <1>2, <1>3 DEF App, Drop, Joined, TakeError, Reconnect, clockVars
<1>4. CASE Thread
  BY <1>2, <1>4 DEF Thread, SetupFails, SetupConnects, StoreError, LoopRuns, LoopEnds,
      PollEmpty, PollRequests, Disconnect, IdleRound, IdleEnds, IdleOver, Connect,
      StreamDestroyed, clockVars
<1>5. CASE UNCHANGED vars
  BY <1>2, <1>5 DEF vars, clockVars
<1> QED BY <1>1, <1>3, <1>4, <1>5 DEF Next

\* ReportsOneTimeline: whatever the window, the pause allowed and the tolerance, no
\* report of the device clock (DeviceClockEstimator::update) spans a restart of the
\* counter, a new unit, or a stall longer than the pause.
THEOREM ReportsCorrect == Spec => []ReportsOneTimeline
<1>1. ClockInv => ReportsOneTimeline
  BY DEF ClockInv
<1> QED BY <1>1, ClockInit, ClockStep, PTL DEF Spec

---------------------------------------------------------------------------
(* The gain *)

LEMMA MinOfTwo ==
    ASSUME NEW a \in Int, NEW b \in Int
    PROVE  Min({a, b}) = IF a <= b THEN a ELSE b
<1> DEFINE m == IF a <= b THEN a ELSE b
<1>1. m \in {a, b} /\ \A y \in {a, b} : m <= y
  OBVIOUS
<1>2. \A x \in {a, b} : (\A y \in {a, b} : x <= y) => x = m
  OBVIOUS
<1> QED BY <1>1, <1>2 DEF Min

LEMMA MaxOfTwo ==
    ASSUME NEW a \in Int, NEW b \in Int
    PROVE  Max({a, b}) = IF a >= b THEN a ELSE b
<1> DEFINE m == IF a >= b THEN a ELSE b
<1>1. m \in {a, b} /\ \A y \in {a, b} : m >= y
  OBVIOUS
<1>2. \A x \in {a, b} : (\A y \in {a, b} : x >= y) => x = m
  OBVIOUS
<1> QED BY <1>1, <1>2 DEF Max

\* The clamp of apply and advance keeps the gain in range.
LEMMA ClampRange == ASSUME NEW g \in Int PROVE Clamp(g) \in 0..Unity
<1>1. Unity \in Nat
  BY GainAssumption
<1>2. PICK m : m = Min({g, Unity})
  OBVIOUS
<1>3. m \in Int /\ m <= Unity
  BY <1>1, <1>2, MinOfTwo
<1>4. Max({0, m}) = IF 0 >= m THEN 0 ELSE m
  BY <1>3, MaxOfTwo
<1>5. Max({0, m}) \in 0..Unity
  BY <1>1, <1>3, <1>4
<1> QED BY <1>2, <1>5 DEF Clamp

\* A step of the ramp is no longer than the way.
LEMMA QuotientRange ==
    ASSUME NEW a \in Int, NEW n \in Nat \ {0}, -Unity <= a, a <= Unity
    PROVE  Quotient(a, n) \in (-Unity)..Unity
<1>1. Unity \in Nat
  BY GainAssumption
<1>2. ASSUME NEW b \in Nat PROVE b \div n \in 0..b
  OBVIOUS
<1>3. CASE a < 0
  <2>1. -a \in Nat
    BY <1>3
  <2>2. (-a) \div n \in 0..(-a)
    BY <1>2, <2>1
  <2> HIDE DEF Quotient
  <2>3. Quotient(a, n) = -((-a) \div n)
    BY <1>3 DEF Quotient
  <2> QED BY <1>1, <2>1, <2>2, <2>3
<1>4. CASE ~(a < 0)
  <2>1. a \in Nat
    BY <1>4
  <2>2. a \div n \in 0..a
    BY <1>2, <2>1
  <2>3. Quotient(a, n) = a \div n
    BY <1>4 DEF Quotient
  <2> QED BY <1>1, <2>1, <2>2, <2>3
<1> QED BY <1>3, <1>4

---------------------------------------------------------------------------
(* The ramp *)

Ramp == [current : 0..Unity, remaining : 0..RampFrames, step : (-Unity)..Unity,
         last : 0..Unity]

\* A ramp that has come to its end is at its target, and one under way has run for as
\* long as its target is known.
Settling(p, n) ==
    /\ p.remaining = 0 => p.current = p.last
    /\ p.remaining > 0 => n + p.remaining = RampFrames

\* update_target: a new target starts a whole ramp, unless ramps take no time.
LEMMA UpdatedRamp ==
    ASSUME NEW p \in Ramp, NEW t \in 0..Unity, NEW n \in Nat, Settling(p, n)
    PROVE  /\ Updated(p, t) \in Ramp
           /\ Updated(p, t).last = t
           /\ Settling(Updated(p, t), IF t = p.last THEN n ELSE 0)
<1> USE GainAssumption
<1>1. CASE t = p.last
  <2>1. Updated(p, t) = p
    BY <1>1 DEF Updated
  <2> QED BY <1>1, <2>1
<1>2. CASE t # p.last /\ RampFrames = 0
  <2>1. Updated(p, t) = [p EXCEPT !.current = t, !.last = t]
    BY <1>2 DEF Updated
  <2>2. /\ Updated(p, t) \in Ramp /\ Updated(p, t).current = t /\ Updated(p, t).last = t
        /\ Updated(p, t).remaining = p.remaining
    <3>1. p \in Ramp /\ t \in 0..Unity
      OBVIOUS
    <3> HIDE DEF Updated
    <3>2. PICK q : q = Updated(p, t)
      OBVIOUS
    <3>3. q = [p EXCEPT !.current = t, !.last = t]
      BY <2>1, <3>2
    <3>4. q \in Ramp
      BY <3>1, <3>3 DEF Ramp
    <3>5. q.current = t /\ q.last = t /\ q.remaining = p.remaining
      BY <3>1, <3>3, <3>4 DEF Ramp
    <3> QED BY <3>2, <3>4, <3>5
  <2>3. p.remaining = 0
    BY <1>2 DEF Ramp
  <2> QED BY <1>2, <2>2, <2>3 DEF Settling
<1>3. CASE t # p.last /\ RampFrames # 0
  <2> DEFINE q == Quotient(t - p.current, RampFrames)
  <2>1. q \in (-Unity)..Unity
    <3>1. t - p.current \in Int /\ -Unity <= t - p.current /\ t - p.current <= Unity
      BY DEF Ramp
    <3> QED BY <1>3, <3>1, QuotientRange
  <2> HIDE DEF q
  <2>2. Updated(p, t) = [p EXCEPT !.remaining = RampFrames, !.step = q, !.last = t]
    BY <1>3 DEF Updated, q
  <2>3. RampFrames \in 0..RampFrames
    OBVIOUS
  <2>4. Updated(p, t) \in Ramp /\ Updated(p, t).remaining = RampFrames
        /\ Updated(p, t).last = t
    <3>1. p \in Ramp /\ t \in 0..Unity
      OBVIOUS
    <3>2. PICK u : u = Updated(p, t)
      OBVIOUS
    <3>3. u = [p EXCEPT !.remaining = RampFrames, !.step = q, !.last = t]
      BY <2>2, <3>2
    <3>4. u \in Ramp
      BY <2>1, <2>3, <3>1, <3>3 DEF Ramp
    <3>5. u.remaining = RampFrames /\ u.last = t
      BY <3>1, <3>3, <3>4 DEF Ramp
    <3> QED BY <3>2, <3>4, <3>5
  <2> QED BY <1>3, <2>4 DEF Settling
<1> QED BY <1>1, <1>2, <1>3

\* n frames of a ramp to t.
LEMMA RampedRamp ==
    ASSUME NEW p \in Ramp, NEW n \in Nat \ {0}, NEW m \in Nat, m <= RampFrames,
           Settling(p, m)
    PROVE  /\ Ramped(p, n, p.last) \in Ramp
           /\ Ramped(p, n, p.last).last = p.last
           /\ Settling(Ramped(p, n, p.last), Min({RampFrames, m + n}))
<1> USE GainAssumption
<1> DEFINE k == Min({n, p.remaining})
           q == Ramped(p, n, p.last)
           g == IF k = 0 THEN p.current
                ELSE IF k = p.remaining THEN p.last ELSE Clamp(p.current + k * p.step)
<1>1. p.remaining \in 0..RampFrames /\ p.last \in 0..Unity /\ p.current \in 0..Unity
      /\ p.step \in Int
  BY DEF Ramp
<1>2. k = (IF n <= p.remaining THEN n ELSE p.remaining)
  BY <1>1, MinOfTwo
<1>3. k \in 0..p.remaining
  BY <1>1, <1>2
<1>4. g \in 0..Unity
  <2>1. k * p.step \in Int
    BY <1>1, <1>3
  <2> HIDE DEF k
  <2>2. Clamp(p.current + k * p.step) \in 0..Unity
    BY <1>1, <2>1, ClampRange
  <2> QED BY <1>1, <2>2
<1> HIDE DEF k, g
<1>5. q = [p EXCEPT !.remaining = p.remaining - k, !.current = g]
  BY DEF Ramped, k, g, q
<1>6. q \in Ramp /\ q.last = p.last /\ q.current = g /\ q.remaining = p.remaining - k
  <2>1. p.remaining - k \in 0..RampFrames
    BY <1>1, <1>3
  <2>2. p \in Ramp
    OBVIOUS
  <2> HIDE DEF q
  <2>3. PICK u : u = q
    OBVIOUS
  <2>4. PICK r : r = p.remaining - k
    OBVIOUS
  <2>5. u = [p EXCEPT !.remaining = r, !.current = g]
    BY <1>5, <2>3, <2>4
  <2>6. u \in Ramp
    BY <1>4, <2>1, <2>2, <2>4, <2>5 DEF Ramp
  <2>7. u.remaining = r /\ u.current = g /\ u.last = p.last
    BY <2>2, <2>5, <2>6 DEF Ramp
  <2> QED BY <2>3, <2>4, <2>6, <2>7
<1> HIDE DEF q
<1>7. q.remaining = 0 => q.current = q.last
  <2>1. CASE k = 0
    BY <1>1, <1>2, <1>6, <2>1 DEF g, Settling
  <2>2. CASE k # 0
    BY <1>1, <1>3, <1>6, <2>2 DEF g
  <2> QED BY <2>1, <2>2
<1>8. q.remaining > 0 => Min({RampFrames, m + n}) + q.remaining = RampFrames
  <2>1. SUFFICES ASSUME q.remaining > 0 PROVE Min({RampFrames, m + n}) + q.remaining = RampFrames
    OBVIOUS
  <2>2. k = n /\ n < p.remaining
    BY <1>1, <1>2, <1>6, <2>1
  <2>3. m + p.remaining = RampFrames
    BY <1>1, <2>2 DEF Settling
  <2>4. Min({RampFrames, m + n}) = m + n
    BY <1>1, <2>2, <2>3, MinOfTwo
  <2> QED BY <1>1, <1>6, <2>2, <2>3, <2>4
<1> QED BY <1>6, <1>7, <1>8 DEF Settling, q

---------------------------------------------------------------------------
(* The way of a ramp *)

\* The steps left lead to the target, short of it by less than one frame each.
Straight(p) ==
    LET rest == (p.last - p.current) - p.remaining * p.step
    IN  p.remaining > 0 =>
            /\ -(Unity \div RampFrames) <= p.step /\ p.step <= Unity \div RampFrames
            /\ -RampFrames < rest /\ rest < RampFrames
            /\ p.step > 0 => rest >= 0
            /\ p.step < 0 => rest <= 0

LEMMA Division ==
    ASSUME NEW b \in Nat, NEW n \in Nat \ {0}
    PROVE  b \div n \in Nat /\ 0 <= b - n * (b \div n) /\ b - n * (b \div n) < n
  OBVIOUS

LEMMA DivisionGrows ==
    ASSUME NEW b \in Nat, NEW c \in Nat, b <= c, NEW n \in Nat \ {0}
    PROVE  b \div n <= c \div n
  OBVIOUS

LEMMA Product ==
    ASSUME NEW k \in Nat, NEW a \in Int, NEW b \in Int, a <= b
    PROVE  k * a <= k * b /\ k * a \in Int /\ k * b \in Int
  OBVIOUS

LEMMA ProductGrows ==
    ASSUME NEW k \in Nat, NEW n \in Nat, k <= n, NEW a \in Nat
    PROVE  k * a <= n * a /\ k * a \in Nat /\ n * a \in Nat
  OBVIOUS

LEMMA ProductSplits ==
    ASSUME NEW k \in Int, NEW n \in Int, NEW a \in Int
    PROVE  (k - n) * a = k * a - n * a /\ k * a \in Int /\ n * a \in Int
  OBVIOUS

LEMMA ProductSign ==
    ASSUME NEW k \in Nat, NEW a \in Int
    PROVE  /\ k * a \in Int
           /\ a >= 0 => k * a >= 0
           /\ a <= 0 => k * a <= 0
  OBVIOUS

LEMMA ProductNegated ==
    ASSUME NEW k \in Int, NEW a \in Int PROVE k * (-a) = -(k * a) /\ k * a \in Int
  OBVIOUS

\* The quotient towards zero: no steeper than a full range, and short of the way.
LEMMA QuotientShort ==
    ASSUME NEW a \in Int, NEW n \in Nat \ {0}, -Unity <= a, a <= Unity
    PROVE  LET q == Quotient(a, n)
           IN  /\ q \in Int /\ -(Unity \div n) <= q /\ q <= Unity \div n
               /\ -n < a - n * q /\ a - n * q < n
               /\ q > 0 => a - n * q >= 0
               /\ q < 0 => a - n * q <= 0
<1>1. Unity \in Nat
  BY GainAssumption
<1>2. PICK s : s = Unity \div n
  OBVIOUS
<1>3. s \in Nat
  BY <1>1, <1>2, Division
<1>4. CASE a >= 0
  <2>1. PICK d : d = a \div n
    OBVIOUS
  <2>2. d \in Nat /\ 0 <= a - n * d /\ a - n * d < n
    BY <1>4, <2>1, Division
  <2>3. d <= s
    BY <1>1, <1>2, <1>4, <2>1, DivisionGrows
  <2>4. Quotient(a, n) = d
    BY <1>4, <2>1 DEF Quotient
  <2>5. -s <= d
    BY <1>3, <2>2
  <2>6. n * d \in Int
    BY <2>2
  <2>7. -n < a - n * d
    BY <2>2, <2>6
  <2> QED BY <1>2, <2>2, <2>3, <2>4, <2>5, <2>7
<1>5. CASE ~(a >= 0)
  <2>1. PICK b, d : b = -a /\ d = b \div n
    OBVIOUS
  <2>2. b \in Nat /\ b <= Unity
    BY <1>1, <1>5, <2>1
  <2>3. d \in Nat /\ 0 <= b - n * d /\ b - n * d < n
    BY <2>1, <2>2, Division
  <2>4. d <= s
    BY <1>1, <1>2, <2>1, <2>2, DivisionGrows
  <2>5. Quotient(a, n) = -d
    BY <1>5, <2>1 DEF Quotient
  <2>6. n * d \in Int /\ n * (-d) = -(n * d)
    BY <2>3, ProductNegated
  <2>7. PICK x : x = n * d
    OBVIOUS
  <2>8. x \in Int /\ n * (-d) = -x /\ 0 <= b - x /\ b - x < n
    BY <2>3, <2>6, <2>7
  <2>9. -n < a - n * (-d) /\ a - n * (-d) <= 0 /\ a - n * (-d) < n
    BY <2>1, <2>8
  <2>10. ~(-d > 0) /\ -d \in Int /\ -s <= -d /\ -d <= s
    BY <1>3, <2>3, <2>4
  <2> QED BY <1>2, <2>5, <2>9, <2>10
<1> QED BY <1>4, <1>5

\* A new target starts a straight way to it.
LEMMA UpdatedStraight ==
    ASSUME NEW p \in Ramp, NEW t \in 0..Unity, RampFrames > 0, Straight(p),
           NEW u, u = Updated(p, t)
    PROVE  Straight(u) /\ u.current = p.current
<1>1. /\ p.current \in 0..Unity /\ p.remaining \in 0..RampFrames /\ p.last \in 0..Unity
      /\ Unity \in Nat /\ RampFrames \in Nat \ {0}
      /\ p = [current |-> p.current, remaining |-> p.remaining, step |-> p.step,
              last |-> p.last]
  BY GainAssumption DEF Ramp
<1>2. CASE t = p.last
  BY <1>2 DEF Updated
<1>3. CASE t # p.last
  <2>1. PICK a, q : a = t - p.current /\ q = Quotient(a, RampFrames)
    OBVIOUS
  <2>2. a \in Int /\ -Unity <= a /\ a <= Unity
    BY <1>1, <2>1
  <2>3. /\ q \in Int /\ -(Unity \div RampFrames) <= q /\ q <= Unity \div RampFrames
        /\ -RampFrames < a - RampFrames * q /\ a - RampFrames * q < RampFrames
        /\ q > 0 => a - RampFrames * q >= 0
        /\ q < 0 => a - RampFrames * q <= 0
    BY <1>1, <2>1, <2>2, QuotientShort
  <2>4. u = [p EXCEPT !.remaining = RampFrames, !.step = q, !.last = t]
    BY <1>1, <1>3, <2>1 DEF Updated
  <2>5. u = [current |-> p.current, remaining |-> RampFrames, step |-> q, last |-> t]
    BY <1>1, <2>4
  <2>6. u.current = p.current /\ u.remaining = RampFrames /\ u.step = q /\ u.last = t
    BY <2>5
  <2> QED BY <2>1, <2>3, <2>6 DEF Straight
<1> QED BY <1>2, <1>3

LEMMA ClampInside == ASSUME NEW g \in 0..Unity PROVE Clamp(g) = g
<1>1. Unity \in Nat
  BY GainAssumption
<1>2. PICK m : m = Min({g, Unity})
  OBVIOUS
<1>3. m = g
  BY <1>1, <1>2, MinOfTwo
<1>4. Max({0, g}) = g
  BY <1>1, MaxOfTwo
<1> QED BY <1>2, <1>3, <1>4 DEF Clamp

\* n frames of a straight way: it stays straight, and no frame takes more than its
\* share, but for the snap at the end.
LEMMA RampedStraight ==
    ASSUME NEW p \in Ramp, NEW n \in Nat \ {0}, RampFrames > 0, Straight(p),
           NEW u, u = Ramped(p, n, p.last)
    PROVE  /\ Straight(u)
           /\ u.current - p.current <= n * (Unity \div RampFrames) + RampFrames
           /\ p.current - u.current <= n * (Unity \div RampFrames) + RampFrames
<1>1. PICK c, k, s, l : c = p.current /\ k = p.remaining /\ s = p.step /\ l = p.last
  OBVIOUS
<1>2. /\ c \in 0..Unity /\ k \in Nat /\ s \in Int /\ l \in 0..Unity
      /\ Unity \in Nat /\ RampFrames \in Nat \ {0}
      /\ p = [current |-> c, remaining |-> k, step |-> s, last |-> l]
  BY <1>1, GainAssumption DEF Ramp
<1>3. PICK m : m = Unity \div RampFrames
  OBVIOUS
<1>4. m \in Nat
  BY <1>2, <1>3, Division
<1>5. PICK ks, ns, km, nm : ks = k * s /\ ns = n * s /\ km = k * m /\ nm = n * m
  OBVIOUS
<1>6. PICK j : j = Min({n, k})
  OBVIOUS
<1>7. j = IF n <= k THEN n ELSE k
  BY <1>2, <1>6, MinOfTwo
<1>8. nm \in Nat
  BY <1>4, <1>5, ProductGrows
<1>9. CASE k = 0
  <2>1. j = 0
    BY <1>7, <1>9
  <2>2. u = [p EXCEPT !.remaining = k - j, !.current = c]
    BY <1>1, <1>6, <2>1 DEF Ramped
  <2>3. k - j = 0
    BY <1>9, <2>1
  <2>4. u = [current |-> c, remaining |-> 0, step |-> s, last |-> l]
    BY <1>2, <2>2, <2>3
  <2>5. u.current = c /\ u.remaining = 0
    BY <2>4
  <2>6. u.current - p.current = 0 /\ p.current - u.current = 0 /\ 0 <= nm + RampFrames
    BY <1>1, <1>2, <1>8, <2>5
  <2>7. Straight(u)
    BY <2>5 DEF Straight
  <2> QED BY <1>3, <1>5, <2>6, <2>7
<1>10. CASE k > 0
  <2>1. /\ -m <= s /\ s <= m
        /\ -RampFrames < (l - c) - ks /\ (l - c) - ks < RampFrames
        /\ s > 0 => (l - c) - ks >= 0
        /\ s < 0 => (l - c) - ks <= 0
    BY <1>1, <1>3, <1>5, <1>10 DEF Straight
  <2>2. ks \in Int /\ ns \in Int /\ km \in Nat
    BY <1>2, <1>4, <1>5, ProductSplits, ProductGrows
  <2>3. CASE k <= n
    <3>1. j = k /\ j # 0 /\ k - j = 0
      BY <1>2, <1>7, <1>10, <2>3
    <3>2. u = [p EXCEPT !.remaining = k - j, !.current = l]
      BY <1>1, <1>6, <3>1 DEF Ramped
    <3>8. u = [current |-> l, remaining |-> 0, step |-> s, last |-> l]
      BY <1>2, <3>1, <3>2
    <3>3. u.current = l /\ u.remaining = 0
      BY <3>8
    <3>4. ks <= km
      BY <1>2, <1>4, <1>5, <2>1, Product
    <3>5. -km <= ks
      <4>1. k * (-m) <= k * s
        BY <1>2, <1>4, <2>1, Product
      <4>2. k * (-m) = -(k * m)
        BY <1>2, <1>4, ProductNegated
      <4> QED BY <1>5, <4>1, <4>2
    <3>6. km <= nm
      BY <1>2, <1>4, <1>5, <2>3, ProductGrows
    <3>7. l - c <= nm + RampFrames /\ c - l <= nm + RampFrames
      BY <1>2, <1>8, <2>1, <2>2, <3>4, <3>5, <3>6
    <3> QED BY <1>1, <1>3, <1>5, <3>3, <3>7 DEF Straight
  <2>4. CASE n < k
    <3>1. j = n /\ j # 0 /\ j # k
      BY <1>2, <1>7, <2>4
    <3>2. PICK x : x = (k - n) * s
      OBVIOUS
    <3>3. x = ks - ns /\ x \in Int
      BY <1>2, <1>5, <3>2, <2>2, ProductSplits
    <3>4. (s >= 0 => ns >= 0 /\ x >= 0) /\ (s <= 0 => ns <= 0 /\ x <= 0)
      <4>1. k - n \in Nat
        BY <1>2, <2>4
      <4> QED BY <1>2, <1>5, <3>2, <4>1, ProductSign
    <3>5. c + ns \in 0..Unity
      <4>1. CASE s > 0
        BY <1>2, <2>1, <2>2, <3>3, <3>4, <4>1
      <4>2. CASE s < 0
        BY <1>2, <2>1, <2>2, <3>3, <3>4, <4>2
      <4>3. CASE s = 0
        BY <1>2, <2>2, <3>4, <4>3
      <4> QED BY <1>2, <4>1, <4>2, <4>3
    <3>6. Clamp(c + ns) = c + ns
      BY <3>5, ClampInside
    <3>7. u = [p EXCEPT !.remaining = k - n, !.current = c + ns]
      BY <1>1, <1>5, <1>6, <3>1, <3>6 DEF Ramped
    <3>8. u = [current |-> c + ns, remaining |-> k - n, step |-> s, last |-> l]
      BY <1>2, <3>7
    <3>9. u.current = c + ns /\ u.remaining = k - n /\ u.step = s /\ u.last = l
      BY <3>8
    <3>10. ns <= nm /\ -nm <= ns
      <4>1. n * s <= n * m
        BY <1>2, <1>4, <2>1, Product
      <4>2. n * (-m) <= n * s
        BY <1>2, <1>4, <2>1, Product
      <4>3. n * (-m) = -(n * m)
        BY <1>4, ProductNegated
      <4> QED BY <1>5, <4>1, <4>2, <4>3
    <3>11. PICK rest : rest = (l - c) - ks
      OBVIOUS
    <3>12. (l - (c + ns)) - x = rest
      BY <1>2, <2>2, <3>3, <3>11
    <3>13. Straight(u)
      <4>1. (u.last - u.current) - u.remaining * u.step = rest
        BY <3>2, <3>9, <3>12
      <4> QED BY <1>3, <2>1, <3>9, <3>11, <4>1 DEF Straight
    <3>14. (c + ns) - c <= nm + RampFrames /\ c - (c + ns) <= nm + RampFrames
      BY <1>2, <1>8, <2>2, <3>10
    <3> QED BY <1>1, <1>3, <1>5, <3>9, <3>13, <3>14
  <2> QED BY <1>2, <2>3, <2>4
<1> QED BY <1>2, <1>9, <1>10

---------------------------------------------------------------------------
(* The specification *)

RampInv == GainTypeOK /\ Settling(ramp, steady)

LEMMA RampInit == GainInit => RampInv
<1> SUFFICES ASSUME GainInit PROVE RampInv
  OBVIOUS
<1> DEFINE g == IF muted THEN 0 ELSE target
<1>1. target \in 0..Unity /\ g \in 0..Unity /\ volume \in Volume
  BY GainAssumption DEF GainInit
<1> HIDE DEF g
<1>2. ramp = [current |-> g, remaining |-> 0, step |-> 0, last |-> g]
  BY DEF GainInit, g
<1>3. ramp \in Ramp /\ ramp.remaining = 0 /\ ramp.current = ramp.last
  BY <1>1, <1>2, GainAssumption DEF Ramp
<1>4. steady \in 0..RampFrames /\ callback \subseteq BOOLEAN
      /\ \A s \in Setter : setter[s] \subseteq Volume
  BY GainAssumption DEF GainInit
<1>5. muted \in BOOLEAN
  BY DEF GainInit
<1> QED BY <1>1, <1>3, <1>4, <1>5 DEF RampInv, GainTypeOK, Settling, Ramp

LEMMA ApplyStep ==
    ASSUME RampInv, NEW n \in 0..MaxBatch, Apply(n) PROVE RampInv'
<1> DEFINE t == IF TRUE \in callback THEN 0 ELSE target
<1>1. /\ ramp \in Ramp /\ steady \in 0..RampFrames /\ Settling(ramp, steady)
      /\ RampFrames \in Nat /\ Unity \in Nat /\ t \in 0..Unity
  <2>1. ramp \in Ramp
    BY DEF RampInv, GainTypeOK, Ramp
  <2>2. t \in 0..Unity
    <3>1. target \in 0..Unity /\ 0 \in 0..Unity
      BY GainAssumption DEF RampInv, GainTypeOK
    <3>2. t = 0 \/ t = target
      OBVIOUS
    <3> HIDE DEF t
    <3> QED BY <3>1, <3>2
  <2>3. steady \in 0..RampFrames /\ Settling(ramp, steady)
    BY DEF RampInv, GainTypeOK
  <2> QED BY <2>1, <2>2, <2>3, GainAssumption
<1>2. n \in Nat
  BY GainAssumption
<1> HIDE DEF t
<1>3. callback' = {} /\ UNCHANGED <<target, volume, muted, setter>>
  BY DEF Apply, state
<1>4. CASE n = 0
  <2>1. ramp' = ramp /\ steady' = steady
    BY <1>4 DEF Apply
  <2> QED BY <1>3, <2>1 DEF RampInv, GainTypeOK, Settling
<1>5. CASE n # 0
  <2> DEFINE m == IF t = ramp.last THEN steady ELSE 0
             p == Updated(ramp, t)
  <2>1. p \in Ramp /\ p.last = t /\ Settling(p, m)
    BY <1>1, UpdatedRamp
  <2>2. m \in Nat /\ m <= RampFrames /\ n \in Nat \ {0}
    BY <1>1, <1>2, <1>5
  <2>3. ramp' = Ramped(p, n, p.last)
    BY <1>5, <2>1 DEF Apply, t
  <2>4. steady' = Min({RampFrames, m + n})
    <3>1. steady' = Min({RampFrames, IF t = ramp.last THEN steady + n ELSE n})
      BY <1>5 DEF Apply, t
    <3>2. (IF t = ramp.last THEN steady + n ELSE n) = m + n
      BY <1>1, <1>2
    <3> QED BY <3>1, <3>2
  <2> HIDE DEF m, p
  <2>5. ramp' \in Ramp /\ Settling(ramp', steady')
    BY <2>1, <2>2, <2>3, <2>4, RampedRamp
  <2>6. steady' \in 0..RampFrames
    BY <1>1, <2>2, <2>4, MinOfTwo
  <2> QED BY <1>3, <2>5, <2>6 DEF RampInv, GainTypeOK, Ramp, Settling
<1> QED BY <1>4, <1>5

LEMMA RampStep == RampInv /\ [GainNext]_gainVars => RampInv'
<1> SUFFICES ASSUME RampInv, [GainNext]_gainVars PROVE RampInv'
  OBVIOUS
<1>1. ASSUME NEW s \in Setter, NEW v \in Volume, StoreGain(s, v) PROVE RampInv'
  <2>1. target' \in 0..Unity
    BY <1>1, GainAssumption DEF StoreGain
  <2>2. \A z \in Setter : setter'[z] \subseteq Volume
    BY <1>1 DEF StoreGain, RampInv, GainTypeOK
  <2> QED BY <1>1, <2>1, <2>2 DEF StoreGain, RampInv, GainTypeOK, Settling
<1>2. ASSUME NEW s \in Setter, StoreVolume(s) PROVE RampInv'
  <2>1. volume' \in Volume /\ \A z \in Setter : setter'[z] \subseteq Volume
    BY <1>2 DEF StoreVolume, RampInv, GainTypeOK
  <2> QED BY <1>2, <2>1 DEF StoreVolume, RampInv, GainTypeOK, Settling
<1>3. ASSUME NEW m \in BOOLEAN, SetMute(m) PROVE RampInv'
  BY <1>3 DEF SetMute, RampInv, GainTypeOK, Settling
<1>4. CASE ReadMuted
  <2>1. callback' \subseteq BOOLEAN
    BY <1>4 DEF ReadMuted, RampInv, GainTypeOK
  <2> QED BY <1>4, <2>1 DEF ReadMuted, state, RampInv, GainTypeOK, Settling
<1>5. CASE UNCHANGED gainVars
  BY <1>5 DEF gainVars, state, RampInv, GainTypeOK, Settling
<1> QED BY <1>1, <1>2, <1>3, <1>4, <1>5, ApplyStep DEF GainNext

\* GainTypeOK: the gain, the target and the ramp stay in range whatever is set and however
\* the frames are cut (GainRamp::apply and advance clamp).
THEOREM GainTypeCorrect == GainSpec => []GainTypeOK
<1>1. RampInv => GainTypeOK
  BY DEF RampInv
<1> QED BY <1>1, RampInit, RampStep, PTL DEF GainSpec

\* SettlesInOneRamp: one ramp after the callback first saw a target, the gain is that
\* target exactly (the snap of GainRamp::apply), from wherever it started.
THEOREM SettlingCorrect == GainSpec => []SettlesInOneRamp
<1>1. RampInv => SettlesInOneRamp
  BY GainAssumption DEF RampInv, GainTypeOK, Settling, SettlesInOneRamp
<1> QED BY <1>1, RampInit, RampStep, PTL DEF GainSpec

---------------------------------------------------------------------------
(* No click *)

\* What a callback meets: a ramp in range, on a straight way unless ramps take no time.
ClickInv == RampInv /\ (RampFrames > 0 => Straight(ramp))

LEMMA ApplyStraight ==
    ASSUME NEW n \in 0..MaxBatch, RampInv, RampFrames > 0, Straight(ramp), Apply(n)
    PROVE  /\ Straight(ramp')
           /\ n > 0 => /\ ramp'.current - ramp.current <= n * (Unity \div RampFrames) + RampFrames
                       /\ ramp.current - ramp'.current <= n * (Unity \div RampFrames) + RampFrames
<1> DEFINE t == IF TRUE \in callback THEN 0 ELSE target
<1>1. ramp \in Ramp /\ Settling(ramp, steady) /\ steady \in Nat
  BY GainAssumption DEF RampInv, GainTypeOK, Ramp, Settling
<1>2. t \in 0..Unity
  <2>1. target \in 0..Unity /\ 0 \in 0..Unity
    BY GainAssumption DEF RampInv, GainTypeOK
  <2>2. t = 0 \/ t = target
    OBVIOUS
  <2> HIDE DEF t
  <2> QED BY <2>1, <2>2
<1> HIDE DEF t
<1>3. CASE n = 0
  <2>1. ramp' = ramp
    BY <1>3 DEF Apply
  <2> QED BY <1>3, <2>1 DEF Straight
<1>4. CASE n # 0
  <2>1. n \in Nat \ {0}
    BY <1>4, GainAssumption
  <2>2. PICK r, p, u : r = ramp /\ p = Updated(ramp, t) /\ u = ramp'
    OBVIOUS
  <2>3. p \in Ramp /\ p.last = t
    BY <1>1, <1>2, <2>2, UpdatedRamp
  <2>4. Straight(p) /\ p.current = r.current
    BY <1>1, <1>2, <2>2, UpdatedStraight
  <2>5. u = Ramped(p, n, p.last)
    BY <1>4, <2>2, <2>3 DEF Apply, t
  <2>6. /\ Straight(u)
        /\ u.current - p.current <= n * (Unity \div RampFrames) + RampFrames
        /\ p.current - u.current <= n * (Unity \div RampFrames) + RampFrames
    BY <2>1, <2>3, <2>4, <2>5, RampedStraight
  <2>7. Straight(ramp')
    BY <2>2, <2>6 DEF Straight
  <2> QED BY <2>2, <2>4, <2>6, <2>7
<1> QED BY <1>3, <1>4

LEMMA ClickInit == GainInit => ClickInv
<1>1. GainInit => ramp.remaining = 0
  BY DEF GainInit
<1>2. SUFFICES ASSUME GainInit, RampFrames > 0 PROVE Straight(ramp)
  BY RampInit DEF ClickInv
<1>3. ramp.remaining = 0
  BY <1>1, <1>2
<1> QED BY <1>3 DEF Straight

LEMMA ClickStep == ClickInv /\ [GainNext]_gainVars => ClickInv'
<1> SUFFICES ASSUME ClickInv, [GainNext]_gainVars, RampFrames > 0 PROVE Straight(ramp')
  BY RampStep DEF ClickInv, Straight
<1>1. RampInv /\ Straight(ramp)
  BY DEF ClickInv
<1>2. CASE ramp' = ramp
  BY <1>1, <1>2 DEF Straight
<1>3. ASSUME NEW n \in 0..MaxBatch, Apply(n) PROVE Straight(ramp')
  BY <1>1, <1>3, ApplyStraight
<1>4. ramp' = ramp \/ \E n \in 0..MaxBatch : Apply(n)
  BY DEF GainNext, StoreGain, StoreVolume, SetMute, ReadMuted, gainVars
<1> QED BY <1>2, <1>3, <1>4

\* NoClick: in a callback of n frames the gain moves by no more than n steps of a ramp
\* over the full range, up to what rounding leaves for the snap (GainRamp::apply),
\* wherever the target goes and whatever the ramp was doing.
THEOREM ClickCorrect == GainSpec => NoClick
<1>1. ASSUME ClickInv, NEW n \in 1..MaxBatch, Apply(n), RampFrames > 0
      PROVE  Max({ramp'.current - ramp.current, ramp.current - ramp'.current})
                 <= n * (Unity \div RampFrames) + RampFrames
  <2>1. n \in 0..MaxBatch /\ n > 0
    BY <1>1, GainAssumption
  <2>2. RampInv /\ Straight(ramp)
    BY <1>1 DEF ClickInv
  <2>3. /\ ramp'.current - ramp.current <= n * (Unity \div RampFrames) + RampFrames
        /\ ramp.current - ramp'.current <= n * (Unity \div RampFrames) + RampFrames
    BY <1>1, <2>1, <2>2, ApplyStraight
  <2>4. GainNext
    BY <1>1, <2>1 DEF GainNext
  <2>5. RampInv'
    BY <2>2, <2>4, RampStep
  <2>6. ramp.current \in Int /\ ramp'.current \in Int
    BY <2>2, <2>5, GainAssumption DEF RampInv, GainTypeOK
  <2>7. PICK a, b : a = ramp'.current - ramp.current /\ b = ramp.current - ramp'.current
    OBVIOUS
  <2>8. a \in Int /\ b \in Int
    BY <2>6, <2>7
  <2>9. Max({a, b}) = a \/ Max({a, b}) = b
    BY <2>8, MaxOfTwo
  <2> QED BY <2>3, <2>7, <2>9
<1>2. ClickInv /\ [GainNext]_gainVars =>
        [\A n \in 1..MaxBatch :
            Apply(n) /\ RampFrames > 0 =>
                Max({ramp'.current - ramp.current, ramp.current - ramp'.current})
                    <= n * (Unity \div RampFrames) + RampFrames]_gainVars
  BY <1>1
<1> QED BY <1>2, ClickInit, ClickStep, PTL DEF GainSpec, NoClick
================================================================================
