------------------------------ MODULE SyncCorrection ------------------------------
(***************************************************************************)
(* Drift correction over the callbacks of one stream, as AudioRenderer::   *)
(* render drives it.  The readings are whatever the clocks and the sound   *)
(* system give; the callback period may change from one to the next.       *)
(***************************************************************************)
EXTENDS SyncCorrectionOps, Sequences, SequencesExt

CONSTANTS
    Errors,  \* readings
    Periods  \* callback periods

ASSUME ReadingsAssumption == Errors \subseteq Int /\ Periods \subseteq Nat

VARIABLES
    corr,     \* filter, gate and schedule
    settled,  \* ClockSync::is_settled
    readings  \* the readings the filter should know of, at most MaxWindow

corrVars == <<corr, settled, readings>>

\* The first callback has told its period.
CorrInit ==
    /\ \E p \in Periods : corr = [NewCorr EXCEPT !.filter = ForPeriod(@, p)]
    /\ settled = FALSE
    /\ readings = <<>>

\* The last n of s.
LastOf(s, n) == SubSeq(s, Max({1, Len(s) - n + 1}), Len(s))

\* A callback of another period.
SetPeriod(p) ==
    /\ corr' = [corr EXCEPT !.filter = ForPeriod(@, p)]
    /\ readings' = IF WindowLen(p) = corr.filter.window THEN readings ELSE <<>>
    /\ UNCHANGED settled

\* A callback that finds the clock settled, whatever it goes on to do.
Settle ==
    /\ corr' = Settling(corr, settled)
    /\ readings' = IF settled /\ ~corr.seen THEN <<>> ELSE readings
    /\ UNCHANGED settled

\* It reads the error and plans.  A gross plan moves the cursor in the same
\* callback and starts afresh.
Measure(raw) ==
    LET after == Measured(corr, raw, settled)
    IN  /\ settled => corr.seen
        /\ corr' = IF after.schedule.reanchor THEN Restarted(after) ELSE after
        /\ readings' = IF after.schedule.reanchor THEN <<>>
                       ELSE LastOf(Append(readings, raw), MaxWindow)
        /\ UNCHANGED settled

\* A new generation or a handoff; or, during a correction, the clock's conversions
\* are not available.
Restart ==
    /\ corr' = Restarted(corr)
    /\ readings' = <<>>
    /\ UNCHANGED settled

ClockSettles ==
    /\ ~settled
    /\ settled' = TRUE
    /\ UNCHANGED <<corr, readings>>

CorrNext ==
    \/ \E p \in Periods : SetPeriod(p)
    \/ \E raw \in Errors : Measure(raw)
    \/ Settle \/ Restart \/ ClockSettles

CorrSpec == CorrInit /\ [][CorrNext]_corrVars

---------------------------------------------------------------------------
(* Properties *)

CorrTypeOK ==
    /\ corr.filter \in [samples : [0..(MaxWindow - 1) -> Int], len : 0..MaxWindow,
                        next : 0..(MaxWindow - 1), window : MinWindow..MaxWindow]
    /\ corr.streak \in 0..StreakPlans
    /\ corr.schedule \in Schedule
    /\ corr.seen \in BOOLEAN /\ settled \in BOOLEAN
    /\ readings \in Seq(Errors)

ToSetOf(s) == {s[i] : i \in DOMAIN s}

\* The window of readings, as documented.
Window == LastOf(readings, corr.filter.window)

\* Whatever resets, period changes and wraps came before, the floor is that of
\* the latest readings of one window, no staler and no fewer.
FloorOfWindow ==
    corr.filter.len > 0 =>
        /\ corr.filter.len = Len(Window)
        /\ Floor(corr.filter) = Min(ToSetOf(Window))

Dropping  == corr.schedule.drop > 0
Repeating == corr.schedule.insert > 0

\* Frames are dropped only on sustained evidence: a stream that was playing
\* untouched starts to drop only with a full window of readings, all of them
\* late, of a settled clock.
DropsNeedEvidence ==
    [][~IsCorrecting(corr.schedule) /\ Dropping' =>
          /\ settled
          /\ Len(Window') = corr'.filter.window
          /\ \A e \in ToSetOf(Window') : e > Engage]_corrVars

\* A correction is for the error at hand: it ends with the error, and is never
\* faster than the highest speed.  (A change of period leaves a correction in
\* force until the next reading.)
CorrectsTheError ==
    IsCorrecting(corr.schedule) /\ Window # <<>> =>
        /\ settled
        /\ Dropping => \A e \in ToSetOf(Window) : e > Deadband
        /\ Repeating => \E e \in ToSetOf(Window) : e < -Deadband
        /\ Dropping # Repeating
        /\ corr.schedule.drop + corr.schedule.insert >= MinInterval
================================================================================
