----------------------------- MODULE RendererReadings -----------------------------
(***************************************************************************)
(* The renderer with the readings of the error that its filter should      *)
(* know of, and with it the claim that a callback's lock scopes, handoffs  *)
(* and early returns drive the correction as SyncCorrection describes, so  *)
(* that what is true of SyncCorrection is true of the renderer.            *)
(***************************************************************************)
EXTENDS Renderer

VARIABLE measured \* readings, oldest first, at most MaxWindow

readingsVars == <<vars, measured>>

Correction == INSTANCE SyncCorrection
              WITH corr <- r.corr, settled <- Settled, readings <- measured,
                   Errors <- Int, Periods <- {PeriodTime}

ReadingsInit == Init /\ measured = <<>>

\* The readings are forgotten where the code resets the filter.
Forgets(forgets) == measured' = IF forgets THEN <<>> ELSE measured

CorrectReads ==
    /\ Correct
    /\ measured' = IF Measured(r.corr, RawError, Settled).schedule.reanchor THEN <<>>
                   ELSE Correction!LastOf(Append(measured, RawError), MaxWindow)

ReadingsNext ==
    \/ (App \/ ClockUpdate \/ SkipSync \/ StaysSilent \/ Render) /\ UNCHANGED measured
    \/ \E d \in Deltas : Snapshot(d) /\ Forgets(pq.generation # r.gen)
    \/ Sync /\ Forgets(Settled /\ ~r.corr.seen)
    \/ Handoff /\ Forgets(HandoffCursor # {})
    \/ PlanBlind /\ Forgets(IsCorrecting(r.corr.schedule))
    \/ CorrectReads

ReadingsSpec == ReadingsInit /\ [][ReadingsNext]_readingsVars

---------------------------------------------------------------------------
(* Properties *)

\* The renderer corrects as SyncCorrection does, one step for each: readings are
\* taken only while a callback plans, on a clock whose settling it has seen, and
\* are forgotten with every new generation, handoff, moved cursor and blind plan.
DrivesCorrection ==
    /\ Correction!CorrInit
    /\ [][ \/ Correction!Restart \/ Correction!Settle \/ Correction!ClockSettles
           \/ cb.at = "plan" /\ Correction!Measure(RawError) ]_Correction!corrVars
================================================================================
