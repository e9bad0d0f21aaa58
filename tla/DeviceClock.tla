-------------------------------- MODULE DeviceClock --------------------------------
(***************************************************************************)
(* DeviceClockEstimator (src/src/audio/device_clock.rs) as operators on a  *)
(* record e: the samples (ticks, now) a measurement may start from and the *)
(* last one, each a set of at most one, and the unit of the ticks.         *)
(***************************************************************************)
EXTENDS Integers

CONSTANTS
    Window,   \* span of a report (10 s)
    MaxGap,   \* longest pause between samples (250 ms)
    Tolerance \* percent a rate may be off (MAX_PLAUSIBLE_PPM, 10)

ASSUME DeviceClockAssumption ==
    Window \in Nat \ {0} /\ MaxGap \in Nat /\ Tolerance \in 0..100

\* DeviceClockEstimator::new
NewEstimator == [short |-> {}, cumulative |-> {}, last |-> {}, rate |-> {}]

\* anchor, and reset, which only counts besides.
Anchored(sample, rate) ==
    [short |-> {sample}, cumulative |-> {sample}, last |-> {sample}, rate |-> {rate}]

\* No report: a frozen clock or a frozen counter says nothing new.
Frozen(a, b) == b.now = a.now \/ b.ticks = a.ticks

\* From a to b the stream was not continuous.
Broken(a, b) ==
    \/ b.now < a.now \/ b.ticks < a.ticks
    \/ b.now - a.now > MaxGap

\* The rate from a to b is off by no more than the tolerance: the ticks are counted
\* in their nominal time.
PlausibleRate(a, b) ==
    LET span == b.now - a.now
        off  == (b.ticks - a.ticks) - span
    IN  100 * off <= Tolerance * span /\ -100 * off <= Tolerance * span

\* update of e with a sample: the estimator after it, and the span of the report, as
\* a set of at most one.
NoReport(e) == [est |-> e, report |-> {}]

Measured(e, a, sample, rate) ==
    LET next == [e EXCEPT !.last = {sample}]
    IN  IF sample.now - a.now < Window THEN NoReport(next)
        ELSE IF ~PlausibleRate(a, sample) THEN NoReport(Anchored(sample, rate))
        ELSE [est    |-> [next EXCEPT !.short = {sample}],
              report |-> {[from |-> a, to |-> sample, cumulative |-> c] : c \in e.cumulative}]

\* Mutant of Continued: a frozen sample becomes the last one.
FrozenKept(e, a, sample, rate) ==
    LET last == CHOOSE l \in e.last : TRUE
    IN  IF Frozen(last, sample) THEN NoReport([e EXCEPT !.last = {sample}])
        ELSE IF Broken(last, sample) THEN NoReport(Anchored(sample, rate))
        ELSE Measured(e, a, sample, rate)

Continued(e, a, sample, rate) ==
    LET last == CHOOSE l \in e.last : TRUE
    IN  IF Frozen(last, sample) THEN NoReport(e)
        ELSE IF Broken(last, sample) THEN NoReport(Anchored(sample, rate))
        ELSE Measured(e, a, sample, rate)

\* update: a unit of zero is refused and a new one starts over.
Fed(e, sample, rate) ==
    IF rate = 0 THEN NoReport(e)
    ELSE IF e.rate # {rate} THEN NoReport(Anchored(sample, rate))
    ELSE Continued(e, CHOOSE a \in e.short : TRUE, sample, rate)
================================================================================
