----------------------------- MODULE ClockSync_proofs -----------------------------
(* Proofs about clock synchronisation, for any offset, delays, limits and drifts. *)
EXTENDS ClockSync, TLAPS

---------------------------------------------------------------------------
(* Arithmetic *)

LEMMA MaxOfTwo ==
    ASSUME NEW a \in Int, NEW b \in Int
    PROVE  Max({a, b}) = IF a >= b THEN a ELSE b
<1> DEFINE m == IF a >= b THEN a ELSE b
<1>1. m \in {a, b} /\ \A y \in {a, b} : m >= y
  OBVIOUS
<1>2. \A x \in {a, b} : (\A y \in {a, b} : x >= y) => x = m
  OBVIOUS
<1> QED BY <1>1, <1>2 DEF Max

LEMMA MinOfTwo ==
    ASSUME NEW a \in Int, NEW b \in Int
    PROVE  Min({a, b}) = IF a <= b THEN a ELSE b
<1> DEFINE m == IF a <= b THEN a ELSE b
<1>1. m \in {a, b} /\ \A y \in {a, b} : m <= y
  OBVIOUS
<1>2. \A x \in {a, b} : (\A y \in {a, b} : x <= y) => x = m
  OBVIOUS
<1> QED BY <1>1, <1>2 DEF Min

LEMMA RoundedHalf == ASSUME NEW a \in Int PROVE Rounded(2 * a, 2) = a
<1>1. CASE a < 0
  BY <1>1 DEF Rounded
<1>2. CASE a >= 0
  BY <1>2 DEF Rounded
<1> QED BY <1>1, <1>2

LEMMA RoundedWhole == ASSUME NEW a \in Int PROVE Rounded(a, 1) = a
<1>1. CASE a < 0
  BY <1>1 DEF Rounded
<1>2. CASE a >= 0
  BY <1>2 DEF Rounded
<1> QED BY <1>1, <1>2

\* A difference that two errors explain is not significant.
LEMMA NoiseInsignificant ==
    ASSUME NEW a \in Nat \ {0}, NEW b \in Nat \ {0}, NEW d \in Int, Mag(d) <= a + b
    PROVE  ~Significant(d, Sqr(a) + Sqr(b))
<1>1. PICK m \in Nat : m = Mag(d) /\ d * d = m * m /\ m <= a + b
  BY DEF Mag
<1>2. m * m <= (a + b) * (a + b)
  <2>1. m * m <= m * (a + b)
    BY <1>1
  <2>2. m * (a + b) <= (a + b) * (a + b)
    BY <1>1
  <2> QED BY <2>1, <2>2
<1>3. (a - b) * (a - b) >= 0
  OBVIOUS
<1>4. (a + b) * (a + b) = 2 * (a * a + b * b) - (a - b) * (a - b)
  OBVIOUS
<1>5. a * a > 0 /\ b * b > 0
  OBVIOUS
<1>6. d * d < 4 * (a * a + b * b)
  BY <1>1, <1>2, <1>3, <1>4, <1>5
<1> QED BY <1>6 DEF Significant, Sqr

---------------------------------------------------------------------------
(* The filter *)

\* A sample the filter takes is newer than every one it took before.
LEMMA FilteredMoves ==
    ASSUME NEW f, NEW m, NEW error, NEW t4, NEW g \in Filtered(f, m, error, t4), g # f
    PROVE  t4 > f.last /\ g.last = t4
<1>1. CASE ~Monotonic(f, t4)
  BY <1>1 DEF Filtered
<1>2. CASE Monotonic(f, t4)
  <2>1. t4 > f.last
    BY <1>2 DEF Monotonic
  <2>2. CASE f.count = 0
    BY <1>2, <2>1, <2>2 DEF Filtered, First
  <2>3. CASE f.count = 1
    BY <1>2, <2>1, <2>3 DEF Filtered, Second
  <2>4. CASE f.count # 0 /\ f.count # 1
    <3>1. g \in Later(f, m, t4)
      BY <1>2, <2>4 DEF Filtered
    <3> QED BY <2>1, <3>1 DEF Later
  <2> QED BY <2>2, <2>3, <2>4
<1> QED BY <1>1, <1>2

\* EstimateMovesForward: whatever the network does with pings and answers, and
\* whatever the Kalman gain, only a newer sample of a short round trip moves the
\* estimate.
THEOREM ForwardCorrect == Spec => EstimateMovesForward
<1> DEFINE Forward == filter' # filter => /\ filter'.last > filter.last
                                          /\ filter'.last = now
                                          /\ \A t \in rtt' : t \in 0..MaxRtt
                                          /\ rtt' # {}
<1>1. ASSUME Next, filter' # filter PROVE Forward
  <2>1. PICK a \in flight : Receive(a)
    BY <1>1 DEF Next, Advance, SendPing, Answer
  <2>2. Valid(a) /\ rtt' = {RoundTrip(a)}
        /\ filter' \in Filtered(filter, Measurement(a), MaxError(a), now)
    BY <1>1, <2>1 DEF Receive, Update
  <2>3. now > filter.last /\ filter'.last = now
    BY <1>1, <2>2, FilteredMoves
  <2> QED BY <2>2, <2>3 DEF Valid
<1>2. [Next]_vars => [Forward]_vars
  BY <1>1 DEF vars
<1> QED BY <1>2, PTL DEF Spec, EstimateMovesForward

---------------------------------------------------------------------------
(* The first two samples *)

Odd(n) == n \in Int /\ n % 2 = 1

\* A message under way at time n bears times of the past.
Stamped(p, n) ==
    /\ p.kind = "ping" => Odd(p.t1) /\ p.t1 <= n
    /\ p.kind = "answer" =>
          /\ Odd(p.t1)
          /\ \E u \in Int : p.t1 <= u /\ u <= n /\ p.t2 = u + Offset /\ p.t3 = u + Offset

\* While there are no more than two samples, the offset is that of the last one, off by
\* no more than its error, and no drift is in use after the second.
Credible(f) ==
    f.count \in {1, 2} =>
        /\ f.offset \in Int /\ f.error \in Positive
        /\ Mag(f.offset - Offset) <= f.error
        /\ f.count = 2 => f.useDrift = FALSE

NoiseInv ==
    /\ Odd(now)
    /\ \A p \in flight : Stamped(p, now)
    /\ filter.count \in Nat /\ filter.last \in Int
    /\ Credible(filter)

\* update: an answer's measurement is off by no more than half its round trip.
LEMMA MeasurementCredible ==
    ASSUME Odd(now), NEW a, Stamped(a, now), a.kind = "answer"
    PROVE  /\ Measurement(a) \in Int /\ MaxError(a) \in Positive
           /\ Mag(Measurement(a) - Offset) <= MaxError(a)
<1>1. PICK u \in Int : a.t1 <= u /\ u <= now /\ a.t2 = u + Offset /\ a.t3 = u + Offset
  BY DEF Stamped
<1>2. now \in Int /\ a.t1 \in Int /\ Offset \in Int /\ now % 2 = 1 /\ a.t1 % 2 = 1
  BY ClockAssumption DEF Stamped, Odd
<1>3. PICK h \in Nat : now - a.t1 = 2 * h
  <2>1. now - a.t1 = 2 * ((now - a.t1) \div 2) /\ (now - a.t1) \div 2 \in Nat
    BY <1>1, <1>2
  <2> QED BY <2>1
<1>4. Measurement(a) = Offset + (u - a.t1 - h)
  <2>1. (a.t2 - a.t1) + (a.t3 - now) = 2 * (Offset + (u - a.t1 - h))
    BY <1>1, <1>2, <1>3
  <2>2. Offset + (u - a.t1 - h) \in Int
    BY <1>1, <1>2, <1>3
  <2> QED BY <2>1, <2>2, RoundedHalf DEF Measurement
<1>5. RoundTrip(a) = 2 * h
  BY <1>1, <1>2, <1>3 DEF RoundTrip
<1>6. MaxError(a) = IF h >= 1 THEN h ELSE 1
  <2>1. RoundTrip(a) \div 2 = h
    BY <1>3, <1>5
  <2> QED BY <1>3, <2>1, MaxOfTwo DEF MaxError
<1>7. u - a.t1 - h <= h /\ -(u - a.t1 - h) <= h
  BY <1>1, <1>2, <1>3
<1>8. Mag(Measurement(a) - Offset) <= h
  BY <1>1, <1>2, <1>3, <1>4, <1>7 DEF Mag
<1> QED BY <1>1, <1>2, <1>3, <1>4, <1>6, <1>8 DEF Positive, Mag

\* update: the sample keeps the filter credible.
LEMMA FilteredCredible ==
    ASSUME NEW f, f.count \in Nat, f.last \in Int, Credible(f),
           NEW m \in Int, NEW e \in Positive, Mag(m - Offset) <= e, NEW t4 \in Int,
           NEW g \in Filtered(f, m, e, t4)
    PROVE  g.count \in Nat /\ g.last \in Int /\ Credible(g)
<1>1. CASE ~Monotonic(f, t4)
  BY <1>1 DEF Filtered
<1>2. CASE Monotonic(f, t4) /\ f.count = 0
  <2>1. g = First(m, e, t4)
    BY <1>2 DEF Filtered
  <2> QED BY <2>1 DEF First, Credible
<1>3. CASE Monotonic(f, t4) /\ f.count = 1
  <2>1. g = Second(f, m, e, t4)
    BY <1>3 DEF Filtered
  <2> DEFINE delta == IF t4 - f.last < Baseline THEN 0 ELSE m - f.offset
  <2>2. f.offset \in Int /\ f.error \in Nat \ {0} /\ e \in Nat \ {0}
        /\ Mag(f.offset - Offset) <= f.error
    BY <1>3 DEF Credible, Positive
  <2>3. delta \in Int /\ Mag(delta) <= f.error + e
    <3>1. Offset \in Int
      BY ClockAssumption
    <3>2. Mag(m - f.offset) <= f.error + e
      BY <2>2, <3>1 DEF Mag
    <3>3. Mag(0) <= f.error + e
      BY <2>2 DEF Mag
    <3>4. delta \in Int
      BY <2>2
    <3> QED BY <3>2, <3>3, <3>4
  <2>4. ~Significant(delta, Sqr(f.error) + Sqr(e))
    <3> HIDE DEF delta
    <3> QED BY <2>2, <2>3, NoiseInsignificant
  <2>5. g.count = 2 /\ g.last = t4 /\ g.offset = m /\ g.error = e
    BY <2>1 DEF Second
  <2>6. g.useDrift = Significant(delta, Sqr(f.error) + Sqr(e))
    BY <2>1 DEF Second
  <2>7. Significant(delta, Sqr(f.error) + Sqr(e)) = FALSE
    BY <2>4 DEF Significant
  <2> QED BY <2>5, <2>6, <2>7 DEF Credible
<1>4. CASE Monotonic(f, t4) /\ f.count # 0 /\ f.count # 1
  <2>1. g \in Later(f, m, t4)
    BY <1>4 DEF Filtered
  <2>2. g.last = t4 /\ g.count = Min({f.count + 1, CountCap})
    <3> DEFINE n == Min({f.count + 1, CountCap})
    <3>1. Later(f, m, t4) =
             {[last |-> t4, count |-> n, offset |-> o, error |-> 0, drift |-> d,
               useDrift |-> u] :
                 o \in Corrected(Predicted(f, t4), m), d \in Drift, u \in BOOLEAN}
      BY DEF Later
    <3> HIDE DEF n
    <3>2. g.last = t4 /\ g.count = n
      BY <2>1, <3>1
    <3> QED BY <3>2 DEF n
  <2>3. f.count + 1 \in Int /\ f.count + 1 >= 3 /\ CountCap \in Nat /\ CountCap >= 3
    BY <1>4, ClockAssumption
  <2>4. g.count \in Nat /\ g.count >= 3
    BY <2>2, <2>3, MinOfTwo
  <2> QED BY <2>2, <2>4 DEF Credible
<1> QED BY <1>1, <1>2, <1>3, <1>4

LEMMA NoiseStep == NoiseInv /\ [Next]_vars => NoiseInv'
<1> SUFFICES ASSUME NoiseInv, [Next]_vars PROVE NoiseInv'
  OBVIOUS
<1>1. ASSUME NEW d \in Delays, Advance(d) PROVE NoiseInv'
  <2>1. now \in Int /\ now % 2 = 1 /\ d \in Nat /\ d % 2 = 0 /\ now' = now + d
        /\ UNCHANGED <<flight, filter>>
    BY <1>1, ClockAssumption DEF Advance, NoiseInv, Odd, Positive
  <2>2. Odd(now')
    BY <2>1 DEF Odd
  <2>3. ASSUME NEW p \in flight PROVE Stamped(p, now')
    <3>1. Stamped(p, now)
      BY DEF NoiseInv
    <3>2. p.kind = "ping" => Odd(p.t1) /\ p.t1 <= now'
      BY <2>1, <3>1 DEF Stamped, Odd
    <3>3. p.kind = "answer" =>
            /\ Odd(p.t1)
            /\ \E u \in Int : p.t1 <= u /\ u <= now' /\ p.t2 = u + Offset /\ p.t3 = u + Offset
      <4> SUFFICES ASSUME p.kind = "answer"
                   PROVE  /\ Odd(p.t1)
                          /\ \E u \in Int : p.t1 <= u /\ u <= now' /\ p.t2 = u + Offset
                                            /\ p.t3 = u + Offset
        OBVIOUS
      <4>1. PICK u \in Int : p.t1 <= u /\ u <= now /\ p.t2 = u + Offset /\ p.t3 = u + Offset
        BY <3>1 DEF Stamped
      <4>2. u <= now'
        BY <2>1, <4>1
      <4> QED BY <3>1, <4>1, <4>2 DEF Stamped
    <3> QED BY <3>2, <3>3 DEF Stamped
  <2> QED BY <2>1, <2>2, <2>3 DEF NoiseInv, Credible
<1>2. CASE SendPing
  <2>1. Stamped([kind |-> "ping", t1 |-> now], now)
    BY DEF Stamped, NoiseInv, Odd
  <2>2. /\ now' = now /\ filter' = filter
        /\ flight' = flight \cup {[kind |-> "ping", t1 |-> now]}
    BY <1>2 DEF SendPing
  <2>3. \A p \in flight' : Stamped(p, now)
    BY <2>1, <2>2 DEF NoiseInv
  <2> QED BY <2>2, <2>3 DEF NoiseInv, Credible
<1>3. ASSUME NEW p \in flight, Answer(p) PROVE NoiseInv'
  <2>1. Stamped([kind |-> "answer", t1 |-> p.t1, t2 |-> now + Offset, t3 |-> now + Offset], now)
    BY <1>3 DEF Answer, Stamped, NoiseInv, Odd
  <2>2. /\ now' = now /\ filter' = filter
        /\ flight' = (flight \ {p}) \cup
               {[kind |-> "answer", t1 |-> p.t1, t2 |-> now + Offset, t3 |-> now + Offset]}
    BY <1>3 DEF Answer
  <2>3. \A q \in flight' : Stamped(q, now)
    BY <2>1, <2>2 DEF NoiseInv
  <2> QED BY <2>2, <2>3 DEF NoiseInv, Credible
<1>4. ASSUME NEW a \in flight, Receive(a) PROVE NoiseInv'
  <2>1. now' = now /\ flight' \subseteq flight /\ a.kind = "answer" /\ Stamped(a, now)
    BY <1>4 DEF Receive, NoiseInv
  <2>2. filter'.count \in Nat /\ filter'.last \in Int /\ Credible(filter')
    <3>1. CASE ~Valid(a)
      BY <1>4, <3>1 DEF Receive, Update, NoiseInv
    <3>2. CASE Valid(a)
      <4>1. filter' \in Filtered(filter, Measurement(a), MaxError(a), now)
        BY <1>4, <3>2 DEF Receive, Update
      <4>2. /\ Measurement(a) \in Int /\ MaxError(a) \in Positive
            /\ Mag(Measurement(a) - Offset) <= MaxError(a)
        BY <2>1, MeasurementCredible DEF NoiseInv
      <4>3. now \in Int /\ filter.count \in Nat /\ filter.last \in Int /\ Credible(filter)
        BY DEF NoiseInv, Odd
      <4> QED BY <4>1, <4>2, <4>3, FilteredCredible
    <3> QED BY <3>1, <3>2
  <2> QED BY <2>1, <2>2 DEF NoiseInv, Credible
<1>5. CASE UNCHANGED vars
  BY <1>5 DEF vars, NoiseInv, Credible
<1> QED BY <1>1, <1>2, <1>3, <1>4, <1>5 DEF Next

\* NoiseIsNotDrift: for any offset and any delays of the network, two samples give
\* conversions, and these are off by no more than the error of the second.
THEOREM NoiseCorrect == Spec => []NoiseIsNotDrift
<1>1. Init => NoiseInv
  BY DEF Init, NoiseInv, NewFilter, Credible, Odd
<1>2. NoiseInv => NoiseIsNotDrift
  <2> SUFFICES ASSUME NoiseInv, filter.count = 2 PROVE NoiseIsNotDrift
    BY DEF NoiseIsNotDrift
  <2>1. filter.offset \in Int /\ filter.error \in Positive
        /\ Mag(filter.offset - Offset) <= filter.error /\ filter.useDrift = FALSE
        /\ filter.last \in Int /\ now \in Int /\ MaxNow \in Int /\ Offset \in Int
    BY ClockAssumption DEF NoiseInv, Credible, Odd
  <2>2. Converts
    BY <2>1 DEF Converts, IsSynchronized, Blocked
  <2>3. ASSUME NEW c \in Int PROVE Mag(ServerTime(filter, c) - (c + Offset)) <= filter.error
    <3>1. Effective(filter) = NoDrift
      BY <2>1 DEF Effective
    <3>2. ServerTime(filter, c) = c + Rounded(filter.offset * 1 + 0 * (c - filter.last), 1)
      BY <3>1 DEF ServerTime, NoDrift
    <3>3. filter.offset * 1 + 0 * (c - filter.last) = filter.offset
      BY <2>1
    <3>4. ServerTime(filter, c) = c + filter.offset
      BY <2>1, <3>2, <3>3, RoundedWhole
    <3>5. ServerTime(filter, c) - (c + Offset) = filter.offset - Offset
      BY <2>1, <3>4
    <3> QED BY <2>1, <3>5
  <2>4. 10 * MaxNow \in Int
    BY <2>1
  <2> QED BY <2>1, <2>2, <2>3, <2>4 DEF NoiseIsNotDrift
<1> QED BY <1>1, <1>2, NoiseStep, PTL DEF Spec

---------------------------------------------------------------------------
(* Rounding *)

LEMMA Division ==
    ASSUME NEW b \in Nat, NEW n \in Nat \ {0}
    PROVE  b \div n \in Nat /\ 0 <= b - n * (b \div n) /\ b - n * (b \div n) < n
  OBVIOUS

LEMMA DivisionGrows ==
    ASSUME NEW b \in Nat, NEW c \in Nat, b <= c, NEW n \in Nat \ {0}
    PROVE  b \div n <= c \div n
  OBVIOUS

LEMMA ProductGrows ==
    ASSUME NEW k \in Int, NEW n \in Int, k <= n, NEW a \in Nat
    PROVE  k * a <= n * a /\ k * a \in Int /\ n * a \in Int
  OBVIOUS

\* round() is off by no more than a half.
LEMMA RoundedNear ==
    ASSUME NEW n \in Int, NEW d \in Positive, NEW k, k = Rounded(n, d)
    PROVE  k \in Int /\ k * d \in Int /\ 2 * (k * d) <= 2 * n + d /\ 2 * n <= 2 * (k * d) + d
<1>1. d \in Nat \ {0}
  BY DEF Positive
<1>2. PICK e : e = 2 * d
  OBVIOUS
<1>3. e \in Nat \ {0}
  BY <1>1, <1>2
<1>4. CASE n < 0
  <2>1. PICK b, q : b = 2 * (-n) + d /\ q = b \div e
    OBVIOUS
  <2>2. b \in Nat
    BY <1>1, <1>4, <2>1
  <2>3. q \in Nat /\ 0 <= b - e * q /\ b - e * q < e
    BY <1>3, <2>1, <2>2, Division
  <2>4. k = -q
    BY <1>2, <1>4, <2>1 DEF Rounded
  <2>5. PICK y : y = q * d
    OBVIOUS
  <2>6. y \in Nat /\ e * q = 2 * y /\ k * d = -y /\ k \in Int
    BY <1>1, <1>2, <2>3, <2>4, <2>5
  <2> QED BY <1>1, <1>2, <2>1, <2>3, <2>6
<1>5. CASE n >= 0
  <2>1. PICK b, q : b = 2 * n + d /\ q = b \div e
    OBVIOUS
  <2>2. b \in Nat
    BY <1>1, <1>5, <2>1
  <2>3. q \in Nat /\ 0 <= b - e * q /\ b - e * q < e
    BY <1>3, <2>1, <2>2, Division
  <2>4. k = q
    BY <1>2, <1>5, <2>1 DEF Rounded
  <2>5. PICK y : y = q * d
    OBVIOUS
  <2>6. y \in Nat /\ e * q = 2 * y /\ k * d = y /\ k \in Int
    BY <1>1, <1>2, <2>3, <2>4, <2>5
  <2>7. 0 <= b - 2 * y /\ b - 2 * y < 2 * d /\ y \in Int
    BY <1>2, <2>3, <2>6
  <2>8. 2 * y <= 2 * n + d /\ 2 * n <= 2 * y + d
    BY <1>1, <2>1, <2>7
  <2> QED BY <2>6, <2>8
<1> QED BY <1>4, <1>5

\* What lies less than half a unit beyond m does not round beyond m.
LEMMA RoundedAtMost ==
    ASSUME NEW n \in Int, NEW d \in Positive, NEW m \in Int, 2 * n < 2 * (m * d) + d
    PROVE  Rounded(n, d) <= m
<1>1. PICK k : k = Rounded(n, d)
  OBVIOUS
<1>2. k \in Int /\ k * d \in Int /\ 2 * (k * d) <= 2 * n + d
  BY <1>1, RoundedNear
<1>3. d \in Nat \ {0} /\ m * d \in Int /\ (m + 1) * d = m * d + d
  BY DEF Positive
<1>4. SUFFICES ASSUME m + 1 <= k PROVE FALSE
  BY <1>1, <1>2
<1>5. (m + 1) * d <= k * d
  BY <1>2, <1>3, <1>4, ProductGrows
<1> QED BY <1>2, <1>3, <1>5

LEMMA RoundedAtLeast ==
    ASSUME NEW n \in Int, NEW d \in Positive, NEW m \in Int, 2 * (m * d) - d < 2 * n
    PROVE  m <= Rounded(n, d)
<1>1. PICK k : k = Rounded(n, d)
  OBVIOUS
<1>2. k \in Int /\ k * d \in Int /\ 2 * n <= 2 * (k * d) + d
  BY <1>1, RoundedNear
<1>3. d \in Nat \ {0} /\ m * d \in Int /\ (m - 1) * d = m * d - d
  BY DEF Positive
<1>4. SUFFICES ASSUME k <= m - 1 PROVE FALSE
  BY <1>1, <1>2
<1>5. k * d <= (m - 1) * d
  BY <1>2, <1>3, <1>4, ProductGrows
<1> QED BY <1>2, <1>3, <1>5

LEMMA RoundedGrows ==
    ASSUME NEW a \in Int, NEW b \in Int, a <= b, NEW d \in Positive
    PROVE  Rounded(a, d) <= Rounded(b, d)
<1>1. d \in Nat \ {0} /\ 2 * d \in Nat \ {0}
  BY DEF Positive
<1>2. CASE b < 0
  <2>1. PICK x, y : x = 2 * (-a) + d /\ y = 2 * (-b) + d
    OBVIOUS
  <2>2. x \in Nat /\ y \in Nat /\ y <= x
    BY <1>1, <1>2, <2>1
  <2>3. y \div (2 * d) <= x \div (2 * d) /\ y \div (2 * d) \in Nat /\ x \div (2 * d) \in Nat
    BY <1>1, <2>2, Division, DivisionGrows
  <2>4. Rounded(a, d) = -(x \div (2 * d)) /\ Rounded(b, d) = -(y \div (2 * d))
    BY <1>2, <2>1 DEF Rounded
  <2> QED BY <2>3, <2>4
<1>3. CASE a >= 0
  <2>1. PICK x, y : x = 2 * a + d /\ y = 2 * b + d
    OBVIOUS
  <2>2. x \in Nat /\ y \in Nat /\ x <= y
    BY <1>1, <1>3, <2>1
  <2>3. x \div (2 * d) <= y \div (2 * d)
    BY <1>1, <2>2, DivisionGrows
  <2>4. Rounded(a, d) = x \div (2 * d) /\ Rounded(b, d) = y \div (2 * d)
    BY <1>3, <2>1 DEF Rounded
  <2> QED BY <2>3, <2>4
<1>4. CASE a < 0 /\ b >= 0
  <2>1. PICK x, y : x = 2 * (-a) + d /\ y = 2 * b + d
    OBVIOUS
  <2>2. x \in Nat /\ y \in Nat
    BY <1>1, <1>4, <2>1
  <2>3. x \div (2 * d) \in Nat /\ y \div (2 * d) \in Nat
    BY <1>1, <2>2, Division
  <2>4. Rounded(a, d) = -(x \div (2 * d)) /\ Rounded(b, d) = y \div (2 * d)
    BY <1>4, <2>1 DEF Rounded
  <2> QED BY <2>3, <2>4
<1> QED BY <1>2, <1>3, <1>4

---------------------------------------------------------------------------
(* Conversions *)

\* The two conversions for a drift n/d, as functions of the numbers they use.
ToServer(c, o, l, n, d) == c + Rounded(o * d + n * (c - l), d)
ToClient(s, o, l, n, d) == Rounded((s - o) * d + n * l, d + n)

LEMMA ThereAndBack ==
    ASSUME NEW c \in Int, NEW o \in Int, NEW l \in Int, NEW n \in Int, NEW d \in Positive,
           -d <= 5 * n, 5 * n <= d
    PROVE  LET x == ToClient(ToServer(c, o, l, n, d), o, l, n, d)
           IN  x <= c + 1 /\ c - 1 <= x
<1>1. d \in Nat \ {0} /\ d + n \in Positive
  BY DEF Positive
<1>2. PICK z : z = o * d + n * (c - l)
  OBVIOUS
<1>3. PICK k : k = Rounded(z, d)
  OBVIOUS
<1>4. PICK od, ncl, kd, w : od = o * d /\ ncl = n * (c - l) /\ kd = k * d /\ w = d + n
  OBVIOUS
<1>5. od \in Int /\ ncl \in Int /\ z = od + ncl /\ z \in Int
  BY <1>1, <1>2, <1>4
<1>6. k \in Int /\ kd \in Int /\ 2 * kd <= 2 * z + d /\ 2 * z <= 2 * kd + d
  BY <1>3, <1>4, <1>5, RoundedNear
<1>7. PICK t : t = ((c + k) - o) * d + n * l
  OBVIOUS
<1>8. PICK cw : cw = c * w
  OBVIOUS
<1>9. t = cw + (kd - z) /\ t \in Int /\ cw \in Int
  <2>1. ((c + k) - o) * d = c * d + k * d - o * d
    BY <1>1, <1>6
  <2>2. n * (c - l) = c * n - n * l
    OBVIOUS
  <2>3. c * w = c * d + c * n
    BY <1>1, <1>4
  <2>4. c * d \in Int /\ c * n \in Int /\ n * l \in Int
    BY <1>1
  <2> QED BY <1>4, <1>5, <1>6, <1>7, <1>8, <2>1, <2>2, <2>3, <2>4
<1>10. w \in Positive /\ w \in Int /\ 5 * w >= 4 * d
  BY <1>1, <1>4
<1>11. (c + 1) * w = cw + w /\ (c - 1) * w = cw - w
  BY <1>8, <1>10
<1>12. Rounded(t, w) <= c + 1
  <2>1. 2 * t < 2 * ((c + 1) * w) + w
    BY <1>1, <1>5, <1>6, <1>9, <1>10, <1>11
  <2> QED BY <1>9, <1>10, <2>1, RoundedAtMost
<1>13. c - 1 <= Rounded(t, w)
  <2>1. 2 * ((c - 1) * w) - w < 2 * t
    BY <1>1, <1>5, <1>6, <1>9, <1>10, <1>11
  <2> QED BY <1>9, <1>10, <2>1, RoundedAtLeast
<1> QED BY <1>2, <1>3, <1>4, <1>7, <1>12, <1>13 DEF ToClient, ToServer

LEMMA BackAndThere ==
    ASSUME NEW s \in Int, NEW o \in Int, NEW l \in Int, NEW n \in Int, NEW d \in Positive,
           -d <= 5 * n, 5 * n <= d
    PROVE  LET y == ToServer(ToClient(s, o, l, n, d), o, l, n, d)
           IN  y <= s + 1 /\ s - 1 <= y
<1>1. d \in Nat \ {0} /\ d + n \in Positive
  BY DEF Positive
<1>2. PICK w, t : w = d + n /\ t = (s - o) * d + n * l
  OBVIOUS
<1>3. PICK x : x = Rounded(t, w)
  OBVIOUS
<1>4. PICK z : z = o * d + n * (x - l)
  OBVIOUS
<1>5. PICK xw : xw = x * w
  OBVIOUS
<1>6. t \in Int /\ w \in Positive /\ w \in Int /\ 5 * w <= 6 * d
  BY <1>1, <1>2
<1>7. x \in Int /\ xw \in Int /\ 2 * xw <= 2 * t + w /\ 2 * t <= 2 * xw + w
  BY <1>3, <1>5, <1>6, RoundedNear
<1>8. PICK m : m = s - x
  OBVIOUS
<1>9. PICK md : md = m * d
  OBVIOUS
<1>10. z = md + (xw - t) /\ z \in Int /\ m \in Int /\ md \in Int
  <2>1. m * d = s * d - x * d
    BY <1>1, <1>7, <1>8
  <2>2. (s - o) * d = s * d - o * d
    BY <1>1
  <2>3. x * w = x * d + x * n
    BY <1>1, <1>2, <1>7
  <2>4. n * (x - l) = x * n - n * l
    BY <1>7
  <2>5. s * d \in Int /\ x * d \in Int /\ o * d \in Int /\ x * n \in Int /\ n * l \in Int
        /\ m \in Int
    BY <1>1, <1>7, <1>8
  <2> QED BY <1>2, <1>4, <1>5, <1>9, <2>1, <2>2, <2>3, <2>4, <2>5
<1>11. (m + 1) * d = md + d /\ (m - 1) * d = md - d
  BY <1>1, <1>9, <1>10
<1>12. Rounded(z, d) <= m + 1
  <2>1. 2 * z < 2 * ((m + 1) * d) + d
    BY <1>1, <1>6, <1>7, <1>10, <1>11
  <2> QED BY <1>10, <2>1, RoundedAtMost
<1>13. m - 1 <= Rounded(z, d)
  <2>1. 2 * ((m - 1) * d) - d < 2 * z
    BY <1>1, <1>6, <1>7, <1>10, <1>11
  <2> QED BY <1>10, <2>1, RoundedAtLeast
<1>14. Rounded(z, d) \in Int
  BY <1>10, RoundedNear
<1>15. x + Rounded(z, d) <= s + 1 /\ s - 1 <= x + Rounded(z, d)
  BY <1>7, <1>8, <1>12, <1>13, <1>14
<1> QED BY <1>2, <1>3, <1>4, <1>15 DEF ToClient, ToServer

LEMMA OrderKept ==
    ASSUME NEW c \in Int, NEW o \in Int, NEW l \in Int, NEW n \in Int, NEW d \in Positive,
           -d <= 5 * n, 5 * n <= d
    PROVE  /\ ToServer(c, o, l, n, d) <= ToServer(c + 1, o, l, n, d)
           /\ ToClient(c, o, l, n, d) <= ToClient(c + 1, o, l, n, d)
<1>1. d \in Nat \ {0} /\ d + n \in Positive
  BY DEF Positive
<1>2. ToServer(c, o, l, n, d) <= ToServer(c + 1, o, l, n, d)
  <2>1. PICK z : z = o * d + n * (c - l)
    OBVIOUS
  <2>2. PICK k, kd : k = Rounded(z, d) /\ kd = k * d
    OBVIOUS
  <2>3. z \in Int /\ o * d + n * ((c + 1) - l) = z + n
    BY <1>1, <2>1
  <2>4. k \in Int /\ kd \in Int /\ 2 * kd <= 2 * z + d
    BY <2>2, <2>3, RoundedNear
  <2>5. (k - 1) * d = kd - d
    BY <1>1, <2>2, <2>4
  <2>6. 2 * ((k - 1) * d) - d < 2 * (z + n)
    BY <1>1, <2>3, <2>4, <2>5
  <2>7. k - 1 <= Rounded(z + n, d)
    BY <2>3, <2>4, <2>6, RoundedAtLeast
  <2>8. Rounded(z + n, d) \in Int
    BY <2>3, RoundedNear
  <2>9. c + k <= (c + 1) + Rounded(z + n, d)
    BY <2>4, <2>7, <2>8
  <2> QED BY <2>1, <2>2, <2>3, <2>9 DEF ToServer
<1>3. ToClient(c, o, l, n, d) <= ToClient(c + 1, o, l, n, d)
  <2>1. PICK t, u : t = (c - o) * d + n * l /\ u = ((c + 1) - o) * d + n * l
    OBVIOUS
  <2>2. t \in Int /\ u = t + d
    BY <1>1, <2>1
  <2>3. u \in Int /\ t <= u
    BY <1>1, <2>2
  <2>4. Rounded(t, d + n) <= Rounded(u, d + n)
    BY <1>1, <2>2, <2>3, RoundedGrows
  <2> QED BY <2>1, <2>4 DEF ToClient
<1> QED BY <1>2, <1>3

\* What a filter is made of, whatever the samples and the gain were.
FilterOK(f) ==
    /\ f.offset \in Int /\ f.last \in Int /\ f.useDrift \in BOOLEAN
    /\ f.drift \in Fraction

LEMMA FilteredOK ==
    ASSUME NEW f, FilterOK(f), NEW m \in Int, NEW e, NEW t4 \in Int,
           NEW g \in Filtered(f, m, e, t4)
    PROVE  FilterOK(g)
<1>1. CASE ~Monotonic(f, t4)
  BY <1>1 DEF Filtered
<1>2. CASE Monotonic(f, t4) /\ f.count = 0
  <2>1. g = First(m, e, t4)
    BY <1>2 DEF Filtered
  <2> QED BY <2>1 DEF First, FilterOK, NoDrift, Fraction, Positive
<1>3. CASE Monotonic(f, t4) /\ f.count = 1
  <2>1. g = Second(f, m, e, t4)
    BY <1>3 DEF Filtered
  <2> DEFINE dt == t4 - f.last
             delta == IF dt < Baseline THEN 0 ELSE m - f.offset
             v == Sqr(f.error) + Sqr(e)
  <2>2. dt \in Nat \ {0} /\ delta \in Int
    BY <1>3 DEF Monotonic, FilterOK
  <2>3. g = [last |-> t4, count |-> 2, offset |-> m, error |-> e,
             drift |-> [num |-> delta, den |-> dt], useDrift |-> Significant(delta, v)]
    BY <2>1 DEF Second
  <2>4. Significant(delta, v) \in BOOLEAN
    BY DEF Significant
  <2> HIDE DEF dt, delta, v
  <2> QED BY <2>2, <2>3, <2>4 DEF FilterOK, Fraction, Positive
<1>4. CASE Monotonic(f, t4) /\ f.count # 0 /\ f.count # 1
  <2>1. g \in Later(f, m, t4)
    BY <1>4 DEF Filtered
  <2>2. PICK p : p = Predicted(f, t4)
    OBVIOUS
  <2>3. p \in Int
    <3>1. f.drift.num \in Int /\ f.drift.den \in Positive /\ f.last \in Int /\ f.offset \in Int
      BY DEF FilterOK, Fraction
    <3>2. f.drift.num * (t4 - f.last) \in Int
      BY <3>1
    <3>3. Rounded(f.drift.num * (t4 - f.last), f.drift.den) \in Int
      BY <3>1, <3>2, RoundedNear
    <3> QED BY <2>2, <3>1, <3>3 DEF Predicted
  <2>4. PICK o \in {p, m}, d \in Drift, u \in BOOLEAN :
            \E c : g = [last |-> t4, count |-> c, offset |-> o, error |-> 0, drift |-> d,
                       useDrift |-> u]
    BY <2>1, <2>2 DEF Later, Corrected
  <2>5. d \in Fraction /\ o \in Int
    BY <2>3, ClockAssumption
  <2> QED BY <2>4, <2>5 DEF FilterOK
<1> QED BY <1>1, <1>2, <1>3, <1>4

ConvertInv == NoiseInv /\ FilterOK(filter)

LEMMA ConvertStep == ConvertInv /\ [Next]_vars => ConvertInv'
<1> SUFFICES ASSUME ConvertInv, [Next]_vars PROVE FilterOK(filter')
  BY NoiseStep DEF ConvertInv, FilterOK
<1>1. FilterOK(filter)
  BY DEF ConvertInv
<1>2. CASE filter' = filter
  BY <1>1, <1>2
<1>3. CASE filter' # filter
  <2>1. PICK a \in flight : Receive(a)
    BY <1>3 DEF Next, Advance, SendPing, Answer, vars
  <2>2. filter' \in Filtered(filter, Measurement(a), MaxError(a), now)
    BY <1>3, <2>1 DEF Receive, Update
  <2>3. Odd(now) /\ Stamped(a, now) /\ a.kind = "answer"
    BY <2>1 DEF Receive, ConvertInv, NoiseInv
  <2>4. Measurement(a) \in Int /\ now \in Int
    BY <2>3, MeasurementCredible DEF Odd
  <2> QED BY <1>1, <2>2, <2>4, FilteredOK
<1> QED BY <1>2, <1>3

\* ConversionsInvert: compute_server_time and compute_client_time are each other's
\* inverse up to a unit, and monotone, for every time, every offset and every drift
\* that is plausible or not in use; not only for times near now.
THEOREM ConversionsCorrect == Spec => []ConversionsInvert
<1>1. Init => ConvertInv
  BY DEF Init, ConvertInv, NoiseInv, NewFilter, Credible, Odd, FilterOK, NoDrift, Fraction,
         Positive
<1>2. ASSUME ConvertInv, Converts, NEW c \in Int
      PROVE  /\ Mag(ClientTime(filter, ServerTime(filter, c)) - c) <= 1
             /\ Mag(ServerTime(filter, ClientTime(filter, c)) - c) <= 1
             /\ ServerTime(filter, c) <= ServerTime(filter, c + 1)
             /\ ClientTime(filter, c) <= ClientTime(filter, c + 1)
  <2>1. PICK o, l, n, d : /\ o = filter.offset /\ l = filter.last
                          /\ n = Effective(filter).num /\ d = Effective(filter).den
    OBVIOUS
  <2>2. o \in Int /\ l \in Int /\ n \in Int /\ d \in Positive
    BY <1>2, <2>1 DEF ConvertInv, FilterOK, Effective, NoDrift, Fraction, Positive
  <2>3. -d <= 5 * n /\ 5 * n <= d
    <3>1. CASE filter.useDrift
      <4>1. 5 * Mag(n) <= d
        BY <1>2, <2>1, <3>1 DEF Converts, Blocked, Plausible, Effective
      <4> QED BY <2>2, <4>1 DEF Mag, Positive
    <3>2. CASE ~filter.useDrift
      BY <2>1, <3>2 DEF Effective, NoDrift
    <3> QED BY <3>1, <3>2
  <2>4. \A b : /\ ServerTime(filter, b) = ToServer(b, o, l, n, d)
               /\ ClientTime(filter, b) = ToClient(b, o, l, n, d)
    BY <2>1 DEF ServerTime, ClientTime, ToServer, ToClient
  <2>5. \A b \in Int : ToServer(b, o, l, n, d) \in Int /\ ToClient(b, o, l, n, d) \in Int
    <3> SUFFICES ASSUME NEW b \in Int
                 PROVE  ToServer(b, o, l, n, d) \in Int /\ ToClient(b, o, l, n, d) \in Int
      OBVIOUS
    <3>1. o * d + n * (b - l) \in Int /\ (b - o) * d + n * l \in Int /\ d + n \in Positive
      BY <2>2, <2>3 DEF Positive
    <3>2. Rounded(o * d + n * (b - l), d) \in Int /\ Rounded((b - o) * d + n * l, d + n) \in Int
      BY <2>2, <3>1, RoundedNear
    <3> QED BY <3>2 DEF ToServer, ToClient
  <2>6. PICK x, y : /\ x = ToClient(ToServer(c, o, l, n, d), o, l, n, d)
                    /\ y = ToServer(ToClient(c, o, l, n, d), o, l, n, d)
    OBVIOUS
  <2>7. x \in Int /\ y \in Int
    BY <2>5, <2>6
  <2>8. x <= c + 1 /\ c - 1 <= x
    BY <2>2, <2>3, <2>6, ThereAndBack
  <2>9. y <= c + 1 /\ c - 1 <= y
    BY <2>2, <2>3, <2>6, BackAndThere
  <2>10. Mag(x - c) <= 1 /\ Mag(y - c) <= 1
    BY <2>7, <2>8, <2>9 DEF Mag
  <2>11. /\ ToServer(c, o, l, n, d) <= ToServer(c + 1, o, l, n, d)
         /\ ToClient(c, o, l, n, d) <= ToClient(c + 1, o, l, n, d)
    BY <2>2, <2>3, OrderKept
  <2> QED BY <2>4, <2>6, <2>10, <2>11
<1>3. ConvertInv => ConversionsInvert
  <2> SUFFICES ASSUME ConvertInv, Converts, NEW c \in (now - 3)..(now + 3)
               PROVE  /\ Mag(ClientTime(filter, ServerTime(filter, c)) - c) <= 1
                      /\ Mag(ServerTime(filter, ClientTime(filter, c)) - c) <= 1
                      /\ ServerTime(filter, c) <= ServerTime(filter, c + 1)
                      /\ ClientTime(filter, c) <= ClientTime(filter, c + 1)
    BY DEF ConversionsInvert
  <2>1. c \in Int
    BY DEF ConvertInv, NoiseInv, Odd
  <2> QED BY <1>2, <2>1
<1> QED BY <1>1, <1>3, ConvertStep, PTL DEF Spec
================================================================================
