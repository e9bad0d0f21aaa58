----------------------------------- MODULE Gain -----------------------------------
(***************************************************************************)
(* Volume, mute and the ramp (src/src/audio/gain.rs).  GainControl is      *)
(* three atomics that any thread sets; the callback reads two of them and  *)
(* ramps from frame to frame to what it read.  Gains are whole steps of    *)
(* 1/Unity; the ramp's step is rounded towards zero where the code's is    *)
(* rounded to a float.                                                     *)
(***************************************************************************)
EXTENDS Integers, FiniteSetsExt

CONSTANTS
    Setter,     \* threads that set the volume
    Volume,     \* volumes they set
    Curve,      \* the gain of each volume
    Unity,      \* the gain of full volume
    RampFrames, \* frames of a ramp
    MaxBatch    \* bound: frames of a callback

ASSUME GainAssumption ==
    /\ Unity \in Nat \ {0} /\ RampFrames \in Nat /\ MaxBatch \in Nat
    /\ Curve \in [Volume -> 0..Unity]
    /\ Volume # {}

VARIABLES
    target, volume, muted, \* GainState: target_gain_bits, volume_pct, muted
    setter,   \* by thread, the volumes it has yet to store
    callback, \* the values of muted the callback has read, if it has
    ramp,     \* GainRamp
    steady    \* frames since the ramp was last given a new target

state == <<target, volume, muted>>
gainVars == <<state, setter, callback, ramp, steady>>

\* GainControl::new and GainRamp::new
GainInit ==
    /\ volume \in Volume
    /\ target = Curve[volume]
    /\ muted \in BOOLEAN
    /\ setter = [s \in Setter |-> {}]
    /\ callback = {}
    /\ ramp = LET g == IF muted THEN 0 ELSE target
              IN  [current |-> g, remaining |-> 0, step |-> 0, last |-> g]
    /\ steady = 0

---------------------------------------------------------------------------
(* GainControl *)

\* set_volume: the gain is stored first,
StoreGain(s, v) ==
    /\ setter[s] = {}
    /\ target' = Curve[v]
    /\ setter' = [setter EXCEPT ![s] = {v}]
    /\ UNCHANGED <<volume, muted, callback, ramp, steady>>

\* then the volume.
StoreVolume(s) ==
    /\ \E v \in setter[s] : volume' = v
    /\ setter' = [setter EXCEPT ![s] = {}]
    /\ UNCHANGED <<target, muted, callback, ramp, steady>>

SetMute(m) ==
    /\ muted' = m
    /\ UNCHANGED <<target, volume, setter, callback, ramp, steady>>

---------------------------------------------------------------------------
(* GainRamp *)

\* Towards zero.
Quotient(a, n) == IF a < 0 THEN -((-a) \div n) ELSE a \div n

Clamp(g) == Max({0, Min({g, Unity})})

\* Mutant of Updated: a ramp under way keeps the time it has left.
TimeKept(p, t) ==
    IF t = p.last THEN p
    ELSE IF RampFrames = 0 THEN [p EXCEPT !.current = t, !.last = t]
    ELSE [p EXCEPT !.remaining = IF @ = 0 THEN RampFrames ELSE @,
                   !.step = Quotient(t - p.current, RampFrames), !.last = t]

\* update_target: a new target starts the ramp over, from where the gain is.
Updated(p, t) ==
    IF t = p.last THEN p
    ELSE IF RampFrames = 0 THEN [p EXCEPT !.current = t, !.last = t]
    ELSE [p EXCEPT !.remaining = RampFrames,
                   !.step = Quotient(t - p.current, RampFrames), !.last = t]

\* Mutant of Ramped: no snap to the target.
NoSnap(p, n, t) ==
    LET k == Min({n, p.remaining})
    IN  [p EXCEPT !.remaining = @ - k, !.current = Clamp(@ + k * p.step)]

\* n frames of the ramp, heard (apply) or silent (advance): the last one snaps to
\* the target.
Ramped(p, n, t) ==
    LET k == Min({n, p.remaining})
    IN  [p EXCEPT !.remaining = @ - k,
                  !.current = IF k = 0 THEN @
                              ELSE IF k = p.remaining THEN t
                              ELSE Clamp(@ + k * p.step)]

\* gain(): muted is read,
ReadMuted ==
    /\ callback = {}
    /\ callback' = {muted}
    /\ UNCHANGED <<state, setter, ramp, steady>>

\* then the gain; a callback of no frames changes nothing.
Apply(n) ==
    LET t == IF TRUE \in callback THEN 0 ELSE target
    IN  /\ callback # {}
        /\ callback' = {}
        /\ ramp' = IF n = 0 THEN ramp ELSE Ramped(Updated(ramp, t), n, t)
        /\ steady' = IF n = 0 THEN steady
                     ELSE Min({RampFrames, IF t = ramp.last THEN steady + n ELSE n})
        /\ UNCHANGED <<state, setter>>

---------------------------------------------------------------------------
GainNext ==
    \/ \E s \in Setter : StoreVolume(s) \/ \E v \in Volume : StoreGain(s, v)
    \/ \E m \in BOOLEAN : SetMute(m)
    \/ ReadMuted
    \/ \E n \in 0..MaxBatch : Apply(n)

GainSpec == GainInit /\ [][GainNext]_gainVars

---------------------------------------------------------------------------
(* Properties *)

GainTypeOK ==
    /\ target \in 0..Unity /\ volume \in Volume /\ muted \in BOOLEAN
    /\ \A s \in Setter : setter[s] \subseteq Volume
    /\ callback \subseteq BOOLEAN
    /\ ramp \in [current : 0..Unity, remaining : 0..RampFrames, step : (-Unity)..Unity,
                 last : 0..Unity]
    /\ steady \in 0..RampFrames

\* The gain is exactly the last target one ramp after it was first seen, however
\* often the target moved before, in mid-ramp too, and however the frames were cut
\* into callbacks.
SettlesInOneRamp ==
    steady = RampFrames /\ RampFrames > 0 => ramp.current = ramp.last

\* No click: within a callback the gain moves no faster than a ramp over the full
\* range, up to rounding, wherever the target goes.
NoClick ==
    [][\A n \in 1..MaxBatch :
          Apply(n) /\ RampFrames > 0 =>
              Max({ramp'.current - ramp.current, ramp.current - ramp'.current})
                  <= n * (Unity \div RampFrames) + RampFrames]_gainVars
================================================================================
