--------------------------------- MODULE ClockSync ---------------------------------
(***************************************************************************)
(* Clock synchronisation: the pings of the clock-sync task and the answers *)
(* the router hands to ClockSync::update (src/src/protocol/client.rs), and *)
(* the filter behind it (src/src/sync/clock.rs).                           *)
(*                                                                         *)
(* The server's clock is the client's plus Offset; the network delays each *)
(* way as it likes, and answers may overtake each other or come twice.     *)
(* The first two samples are computed as in the code.  From the third on   *)
(* the Kalman gain is a choice: the offset lands on the prediction or the  *)
(* measurement, and the drift anywhere in Drift, significant or not.  A    *)
(* drift is a fraction [num, den].  Two readings of the clock are an even  *)
(* number of units apart, so that the halves of update are exact.          *)
(***************************************************************************)
EXTENDS Integers, FiniteSetsExt

CONSTANTS
    Offset,     \* the server's clock minus the client's
    MaxRtt,     \* a longer round trip is discarded (100 ms)
    Baseline,   \* MIN_DRIFT_BASELINE_MICROS (100 ms)
    FastStart, Interval, \* pause after the first ping, and after later ones
    CountCap,   \* the filter counts samples up to here (100)
    Drift,      \* drifts a Kalman step may end in
    Delays,     \* what the clock advances between two events
    MaxNow,     \* bound: the clock
    MaxFlight   \* bound: messages under way

Positive == Nat \ {0}
Fraction == [num : Int, den : Positive]

ASSUME ClockAssumption ==
    /\ Offset \in Int
    /\ MaxRtt \in Positive /\ Baseline \in Positive
    /\ FastStart \in Nat /\ Interval \in Nat
    /\ CountCap \in Nat /\ 3 <= CountCap
    /\ Drift \subseteq Fraction
    /\ \A d \in Delays : d \in Positive /\ d % 2 = 0
    /\ MaxNow \in Nat /\ MaxFlight \in Nat

VARIABLES
    now,     \* the client's raw clock
    due,     \* when the clock-sync task wakes
    pings,   \* how many it has sent
    flight,  \* messages under way: pings [t1], answers [t1, t2, t3]
    filter,  \* TimeFilter, with the variance of its offset while that is exact
    rtt      \* rtt_micros, as a set of at most one

vars == <<now, due, pings, flight, filter, rtt>>

NoDrift == [num |-> 0, den |-> 1]

\* TimeFilter::new
NewFilter == [last |-> 0, count |-> 0, offset |-> 0, error |-> 0,
              drift |-> NoDrift, useDrift |-> FALSE]

Init ==
    /\ now = 1
    /\ due = 1
    /\ pings = 0
    /\ flight = {}
    /\ filter = NewFilter
    /\ rtt = {}

---------------------------------------------------------------------------
(* Arithmetic *)

Sqr(n) == n * n
Mag(n) == IF n < 0 THEN -n ELSE n

\* round(): n/d to the nearest integer, halves away from zero.
Rounded(n, d) == IF n < 0 THEN -((2 * (-n) + d) \div (2 * d)) ELSE (2 * n + d) \div (2 * d)

---------------------------------------------------------------------------
(* TimeFilter *)

\* drift_is_plausible: at most MAX_DRIFT, a fifth.
Plausible(d) == 5 * Mag(d.num) <= d.den

\* Mutant of Significant: one sigma.
OneSigma(delta, variance) == Sqr(delta) >= variance

\* drift_has_sufficient_snr of a drift delta/dt whose variance is variance/dt^2:
\* at least DRIFT_SNR_SIGMA, two.
Significant(delta, variance) == Sqr(delta) >= 4 * variance

\* update, the first sample.  Its drift of zero counts as significant.
First(m, error, t4) ==
    [last |-> t4, count |-> 1, offset |-> m, error |-> error,
     drift |-> NoDrift, useDrift |-> TRUE]

\* update, the second sample: the drift is the quotient, unless the two came so
\* close that it is taken as zero.
Second(f, m, error, t4) ==
    LET dt       == t4 - f.last
        delta    == IF dt < Baseline THEN 0 ELSE m - f.offset
        variance == Sqr(f.error) + Sqr(error)
    IN  [last |-> t4, count |-> 2, offset |-> m, error |-> error,
         drift |-> [num |-> delta, den |-> dt],
         useDrift |-> Significant(delta, variance)]

\* update, a later sample: the gain is in 0..1.
Predicted(f, t4)   == f.offset + Rounded(f.drift.num * (t4 - f.last), f.drift.den)
Corrected(p, m)    == {p, m}
Later(f, m, t4) ==
    {[last |-> t4, count |-> Min({f.count + 1, CountCap}), offset |-> o, error |-> 0,
      drift |-> d, useDrift |-> u] :
        o \in Corrected(Predicted(f, t4), m), d \in Drift, u \in BOOLEAN}

\* Mutant of Monotonic: an equal time is let through.
NotBackwards(f, t4) == t4 >= f.last

\* update refuses a sample that is not newer than the last one it took.
Monotonic(f, t4) == t4 > f.last

\* TimeFilter::update
Filtered(f, m, error, t4) ==
    CASE ~Monotonic(f, t4) -> {f}
      [] Monotonic(f, t4) /\ f.count = 0 -> {First(m, error, t4)}
      [] Monotonic(f, t4) /\ f.count = 1 -> {Second(f, m, error, t4)}
      [] OTHER -> Later(f, m, t4)

\* Mutant of Blocked: a drift in use blocks nothing.
NeverBlocked(f) == FALSE

\* conversions_blocked
Blocked(f) == f.useDrift /\ ~Plausible(f.drift)

\* effective_drift
Effective(f) == IF f.useDrift THEN f.drift ELSE NoDrift

\* compute_server_time and compute_client_time
ServerTime(f, c) ==
    LET d == Effective(f)
    IN  c + Rounded(f.offset * d.den + d.num * (c - f.last), d.den)
ClientTime(f, s) ==
    LET d == Effective(f)
    IN  Rounded((s - f.offset) * d.den + d.num * f.last, d.den + d.num)

---------------------------------------------------------------------------
(* ClockSync *)

IsSynchronized == filter.count >= 2
Converts       == IsSynchronized /\ ~Blocked(filter)

\* update: the round trip, the offset to the nearest unit, and its error, which is
\* never zero.
RoundTrip(a)   == (now - a.t1) - (a.t3 - a.t2)
Measurement(a) == Rounded((a.t2 - a.t1) + (a.t3 - now), 2)
MaxError(a)    == Max({RoundTrip(a) \div 2, 1})

Valid(a) == RoundTrip(a) \in 0..MaxRtt

\* ClockSync::update with answer a: a round trip out of range changes nothing; one
\* in range is recorded, whether or not the filter takes the sample.
Update(a) ==
    IF Valid(a)
    THEN /\ rtt' = {RoundTrip(a)}
         /\ filter' \in Filtered(filter, Measurement(a), MaxError(a), now)
    ELSE UNCHANGED <<rtt, filter>>

---------------------------------------------------------------------------
(* The clock-sync task, the network and the server, and the router *)

Advance(d) ==
    /\ now + d <= MaxNow
    /\ now' = now + d
    /\ UNCHANGED <<due, pings, flight, filter, rtt>>

\* The task reads the clock, sends, and sleeps: shortly after the first ping.
SendPing ==
    /\ now >= due
    /\ Cardinality(flight) < MaxFlight
    /\ flight' = flight \cup {[kind |-> "ping", t1 |-> now]}
    /\ pings' = Min({pings + 1, 2})
    /\ due' = now + (IF pings = 0 THEN FastStart ELSE Interval)
    /\ UNCHANGED <<now, filter, rtt>>

\* The server stamps a ping on arrival and its answer on departure.
Answer(p) ==
    /\ p.kind = "ping"
    /\ flight' = (flight \ {p}) \cup
           {[kind |-> "answer", t1 |-> p.t1, t2 |-> now + Offset, t3 |-> now + Offset]}
    /\ UNCHANGED <<now, due, pings, filter, rtt>>

\* The router hands server/time to the clock with the time it read it; the message
\* may come again.
Receive(a) ==
    /\ a.kind = "answer"
    /\ Update(a)
    /\ flight' \in {flight, flight \ {a}}
    /\ UNCHANGED <<now, due, pings>>

Next ==
    \/ \E d \in Delays : Advance(d)
    \/ SendPing
    \/ \E p \in flight : Answer(p) \/ Receive(p)

Spec == Init /\ [][Next]_vars

---------------------------------------------------------------------------
(* Properties *)

\* While the filter holds nothing but the first samples, the noise of the network is
\* never taken for drift: conversions are available from the second sample on, and
\* off by no more than the error the sample was credited with, however long after,
\* however lopsided or late the two round trips and however close together.
NoiseIsNotDrift ==
    filter.count = 2 =>
        /\ Converts
        /\ \A c \in {filter.last, now, MaxNow, 10 * MaxNow} :
              Mag(ServerTime(filter, c) - (c + Offset)) <= filter.error

\* Whenever conversions are available, with whatever drift, they keep the order of
\* times and a round trip ends within a unit of where it began.
ConversionsInvert ==
    Converts =>
        \A c \in (now - 3)..(now + 3) :
            /\ Mag(ClientTime(filter, ServerTime(filter, c)) - c) <= 1
            /\ Mag(ServerTime(filter, ClientTime(filter, c)) - c) <= 1
            /\ ServerTime(filter, c) <= ServerTime(filter, c + 1)
            /\ ClientTime(filter, c) <= ClientTime(filter, c + 1)

\* The estimate moves only on news: a sample that arrived after every earlier one
\* and took a short round trip.  Late, repeated and simultaneous answers leave the
\* conversions as they are.
EstimateMovesForward ==
    [][filter' # filter => /\ filter'.last > filter.last
                           /\ filter'.last = now
                           /\ \A t \in rtt' : t \in 0..MaxRtt
                           /\ rtt' # {}]_vars
================================================================================
