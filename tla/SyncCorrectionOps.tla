---------------------------- MODULE SyncCorrectionOps ----------------------------
(***************************************************************************)
(* Drift correction (src/src/audio/sync_correction.rs) as operators: the   *)
(* planner, the windowed minimum it plans on, and the gate that an idle    *)
(* stream must pass before frames are dropped or repeated.  Together they  *)
(* are a record corr of the renderer.                                      *)
(*                                                                         *)
(* An error is the playback instant less the instant due: positive is late.*)
(***************************************************************************)
EXTENDS Integers, FiniteSetsExt

CONSTANTS
    Deadband,    \* a running correction stops at this error,
    Engage,      \* a new one starts above this one,
    Gross,       \* and from this one on the cursor is moved instead
    TargetTime,  \* time in which a correction should be done
    MinInterval, \* frames between corrections at the highest speed
    MaxWindow, MinWindow, \* readings in the window
    Span,        \* time the window may cover
    StreakPlans  \* plans in a row before a correction engages

ASSUME CorrectionAssumption ==
    /\ Deadband \in Nat /\ Engage \in Nat /\ Gross \in Nat
    /\ 0 < Deadband /\ Deadband < Engage /\ Engage < Gross
    /\ TargetTime \in Nat \ {0} /\ MinInterval \in Nat \ {0}
    /\ MinWindow \in Nat \ {0} /\ MaxWindow \in Nat /\ MinWindow <= MaxWindow
    /\ Span \in Nat \ {0}
    /\ StreakPlans \in Nat

---------------------------------------------------------------------------
(* CorrectionPlanner *)

Schedule == [insert : Nat, drop : Nat, reanchor : BOOLEAN]
Idle     == [insert |-> 0, drop |-> 0, reanchor |-> FALSE]

IsCorrecting(s) == s.insert > 0 \/ s.drop > 0 \/ s.reanchor

Abs(e) == IF e < 0 THEN -e ELSE e

\* One correction in so many frames undoes the error in TargetTime, to the
\* nearest frame, but never faster than the highest speed.
Interval(e) ==
    Max({1, MinInterval, (2 * TargetTime + Abs(e)) \div (2 * Abs(e))})

\* Mutant of Plan: late and early are taken for each other.
WrongWay(e, correcting) ==
    CASE Abs(e) <= (IF correcting THEN Deadband ELSE Engage) -> Idle
      [] Abs(e) >= Gross -> [Idle EXCEPT !.reanchor = TRUE]
      [] e < 0 -> [Idle EXCEPT !.drop = Interval(e)]
      [] e > 0 -> [Idle EXCEPT !.insert = Interval(e)]

\* plan: nothing in the band, which is narrower for a running correction; move
\* the cursor for a gross error; else drop when late and repeat when early.
Plan(e, correcting) ==
    LET band == IF correcting THEN Deadband ELSE Engage
    IN  CASE Abs(e) <= band -> Idle
          [] Abs(e) > band /\ Abs(e) >= Gross -> [Idle EXCEPT !.reanchor = TRUE]
          [] Abs(e) > band /\ Abs(e) < Gross /\ e > 0 -> [Idle EXCEPT !.drop = Interval(e)]
          [] Abs(e) > band /\ Abs(e) < Gross /\ e < 0 -> [Idle EXCEPT !.insert = Interval(e)]

---------------------------------------------------------------------------
(* SyncErrorFilter: a ring buffer *)

\* window_len_for_period: as many readings as fit the span.
WindowLen(period) ==
    IF period = 0 THEN MaxWindow
    ELSE Max({MinWindow, Min({MaxWindow, (Span + period - 1) \div period})})

NewFilter == [samples |-> [i \in 0..(MaxWindow - 1) |-> 0],
              len |-> 0, next |-> 0, window |-> MaxWindow]

\* reset: the samples stay, and are not read.
FilterReset(f) == [f EXCEPT !.len = 0, !.next = 0]

\* Mutant of ForPeriod: a new window keeps the old readings.
HistoryKept(f, period) == [f EXCEPT !.window = WindowLen(period)]

\* set_callback_period: a new window starts empty.
ForPeriod(f, period) ==
    IF WindowLen(period) = f.window THEN f
    ELSE FilterReset([f EXCEPT !.window = WindowLen(period)])

IsWarm(f) == f.len = f.window

\* Mutant of Recorded: the write position does not wrap.
NoWrap(f, raw) ==
    [f EXCEPT !.samples[f.next % f.window] = raw,
              !.next = @ + 1,
              !.len  = IF @ < f.window THEN @ + 1 ELSE @]

\* update
Recorded(f, raw) ==
    [f EXCEPT !.samples[f.next] = raw,
              !.next = (@ + 1) % f.window,
              !.len  = IF @ < f.window THEN @ + 1 ELSE @]

\* The minimum of the live samples.
Floor(f) == Min({f.samples[i] : i \in 0..(f.len - 1)})

---------------------------------------------------------------------------
(* EngageGate, and the three together as the renderer uses them *)

NewCorr == [filter |-> NewFilter, streak |-> 0, schedule |-> Idle, seen |-> FALSE]

\* error_filter.reset() and engage_gate.reset()
Forgotten(corr) == [corr EXCEPT !.filter = FilterReset(@), !.streak = 0]

\* A new generation, a handoff or a moved cursor: nothing measured before counts.
Restarted(corr) == [Forgotten(corr) EXCEPT !.schedule = Idle]

\* The first callback that finds the clock settled starts measuring afresh.
Settling(corr, settled) ==
    IF settled /\ ~corr.seen THEN [Forgotten(corr) EXCEPT !.seen = TRUE] ELSE corr

\* Mutant of Passes: every plan passes.
AllPass(planned, correcting) == TRUE

\* admit: plans that do not wait for a streak.
Passes(planned, correcting) == planned.reanchor \/ correcting \/ ~IsCorrecting(planned)

\* A reading: plan on the floor, pass the gate, and until the clock has settled
\* hold back all but a gross plan.
Measured(corr, raw, settled) ==
    LET f          == Recorded(corr.filter, raw)
        correcting == IsCorrecting(corr.schedule)
        planned    == Plan(Floor(f), correcting)
        passes     == Passes(planned, correcting)
        streak     == IF passes THEN 0 ELSE Min({corr.streak + 1, StreakPlans})
        admitted   == IF passes \/ (IsWarm(f) /\ streak >= StreakPlans) THEN planned ELSE Idle
    IN  [corr EXCEPT !.filter   = f,
                     !.streak   = streak,
                     !.schedule = IF settled \/ admitted.reanchor THEN admitted ELSE Idle]
================================================================================
