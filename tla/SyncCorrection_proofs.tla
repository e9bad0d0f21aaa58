--------------------------- MODULE SyncCorrection_proofs ---------------------------
(***************************************************************************)
(* Proofs about drift correction (SyncCorrection), for any readings,       *)
(* periods, window sizes and thresholds: the ring buffer holds the latest  *)
(* window, and what is planned on its floor is justified by every reading  *)
(* in it.                                                                  *)
(***************************************************************************)
EXTENDS SyncCorrection, SequenceTheorems, WellFoundedInduction, TLAPS

---------------------------------------------------------------------------
(* Least elements *)

LEMMA LeastMember ==
    ASSUME NEW T \in SUBSET Nat, T # {}
    PROVE  \E m \in T : \A k \in T : m <= k
<1>1. PICK m \in T : \A k \in T : <<k, m>> \notin OpToRel(<, Nat)
  BY WFMin, NatLessThanWellFounded, Zenon
<1>2. \A k \in T : ~(k < m)
  BY <1>1, Zenon DEF OpToRel
<1> QED BY <1>2

LEMMA LesserOfTwo ==
    ASSUME NEW a \in Int, NEW b \in Int
    PROVE  Min({a, b}) = (IF a <= b THEN a ELSE b)
<1> DEFINE m == IF a <= b THEN a ELSE b
<1>1. m \in {a, b} /\ \A y \in {a, b} : m <= y
  OBVIOUS
<1>2. \A x \in {a, b} : (\A y \in {a, b} : x <= y) => x = m
  OBVIOUS
<1> HIDE DEF m
<1> QED BY <1>1, <1>2 DEF Min

LEMMA GreaterOfTwo ==
    ASSUME NEW a \in Int, NEW b \in Int
    PROVE  Max({a, b}) = (IF a >= b THEN a ELSE b)
<1> DEFINE m == IF a >= b THEN a ELSE b
<1>1. m \in {a, b} /\ \A y \in {a, b} : m >= y
  OBVIOUS
<1>2. \A x \in {a, b} : (\A y \in {a, b} : x >= y) => x = m
  OBVIOUS
<1> HIDE DEF m
<1> QED BY <1>1, <1>2 DEF Max

\* By the least prefix of g without a least element.
LEMMA LeastOfPrefix ==
    ASSUME NEW g, NEW n \in Nat \ {0}, \A i \in 0..(n - 1) : g[i] \in Int
    PROVE  \E m \in 0..(n - 1) : \A i \in 0..(n - 1) : g[m] <= g[i]
<1> DEFINE Has(k) == \E m \in 0..(k - 1) : \A i \in 0..(k - 1) : g[m] <= g[i]
           T == {k \in 1..n : ~Has(k)}
<1>1. SUFFICES ASSUME ~Has(n) PROVE FALSE
  OBVIOUS
<1> HIDE DEF Has
<1>2. PICK k \in T : \A j \in T : k <= j
  <2>1. n \in T
    BY <1>1
  <2>2. T \in SUBSET Nat /\ T # {}
    BY <2>1
  <2> HIDE DEF T
  <2> QED BY <2>2, LeastMember
<1>3. k \in 1..n /\ ~Has(k)
  OBVIOUS
<1> USE DEF Has
<1>4. CASE k = 1
  <2>1. 0 \in 0..(k - 1) /\ \A i \in 0..(k - 1) : g[0] <= g[i]
    BY <1>4
  <2> QED BY <1>3, <2>1
<1>5. CASE k # 1
  <2> HIDE DEF Has
  <2>1. k - 1 \in 1..n /\ ~(k - 1 \in T)
    BY <1>2, <1>3, <1>5
  <2>5. Has(k - 1)
    BY <2>1
  <2> USE DEF Has
  <2>2. PICK m \in 0..(k - 2) : \A i \in 0..(k - 2) : g[m] <= g[i]
    BY <2>1, <2>5
  <2>3. CASE g[m] <= g[k - 1]
    <3>1. m \in 0..(k - 1) /\ \A i \in 0..(k - 1) : g[m] <= g[i]
      BY <1>3, <2>2, <2>3
    <3> QED BY <1>3, <3>1
  <2>4. CASE ~(g[m] <= g[k - 1])
    <3>1. k - 1 \in 0..(k - 1) /\ \A i \in 0..(k - 1) : g[k - 1] <= g[i]
      BY <1>3, <2>2, <2>4
    <3> QED BY <1>3, <3>1
  <2> QED BY <2>3, <2>4
<1> QED BY <1>4, <1>5

LEMMA MaxOfThree ==
    ASSUME NEW a \in Int, NEW b \in Int, NEW c \in Int
    PROVE  LET m == Max({a, b, c}) IN m \in {a, b, c} /\ m >= a /\ m >= b /\ m >= c
<1>1. PICK m \in {a, b, c} : m >= a /\ m >= b /\ m >= c
  OBVIOUS
<1>2. \A y \in {a, b, c} : m >= y
  BY <1>1
<1> QED BY <1>1, <1>2 DEF Max

---------------------------------------------------------------------------
(* The filter *)

FilterSet == [samples : [0..(MaxWindow - 1) -> Int], len : 0..MaxWindow,
              next : 0..(MaxWindow - 1), window : MinWindow..MaxWindow]

LEMMA Bounds == MinWindow \in Nat \ {0} /\ MaxWindow \in Nat \ {0} /\ MinWindow <= MaxWindow
  BY CorrectionAssumption

\* A window is one of those the limits allow.
LEMMA WindowRange == ASSUME NEW p \in Nat PROVE WindowLen(p) \in MinWindow..MaxWindow
<1> USE Bounds
<1>1. CASE p = 0
  BY <1>1 DEF WindowLen
<1>2. CASE p # 0
  <2>1. PICK q : q = (Span + p - 1) \div p
    OBVIOUS
  <2>2. q \in Int
    BY <1>2, <2>1, CorrectionAssumption
  <2>3. PICK m : m = Min({MaxWindow, q})
    OBVIOUS
  <2>4. m \in Int /\ m <= MaxWindow
    BY <2>2, <2>3, LesserOfTwo
  <2>5. Max({MinWindow, m}) = IF MinWindow >= m THEN MinWindow ELSE m
    BY <2>4, GreaterOfTwo
  <2>6. WindowLen(p) = Max({MinWindow, m})
    BY <1>2, <2>1, <2>3 DEF WindowLen
  <2> QED BY <2>4, <2>5, <2>6
<1> QED BY <1>1, <1>2

LEMMA FilterFields ==
    ASSUME NEW f \in FilterSet
    PROVE  /\ f.next \in Nat /\ f.len \in Nat /\ f.window \in Nat \ {0}
           /\ f.next < MaxWindow /\ f.window <= MaxWindow /\ f.len <= MaxWindow
           /\ f.samples \in [0..(MaxWindow - 1) -> Int]
  BY Bounds DEF FilterSet

\* The floor of a filter that has a reading is one of them and the least.
LEMMA FloorIsLeast ==
    ASSUME NEW f \in FilterSet, f.len > 0
    PROVE  /\ Floor(f) \in {f.samples[i] : i \in 0..(f.len - 1)}
           /\ \A i \in 0..(f.len - 1) : Floor(f) <= f.samples[i]
           /\ Floor(f) \in Int
<1> DEFINE S == {f.samples[i] : i \in 0..(f.len - 1)}
<1>1. f.len \in Nat \ {0} /\ \A i \in 0..(f.len - 1) : f.samples[i] \in Int
  BY Bounds DEF FilterSet
<1>2. PICK m \in 0..(f.len - 1) : \A i \in 0..(f.len - 1) : f.samples[m] <= f.samples[i]
  BY <1>1, LeastOfPrefix
<1>3. f.samples[m] \in S /\ \A y \in S : f.samples[m] <= y
  BY <1>2
<1>4. Floor(f) = Min(S)
  BY DEF Floor
<1> HIDE DEF S
<1>5. Min(S) \in S /\ \A y \in S : Min(S) <= y
  BY <1>3 DEF Min
<1> USE DEF S
<1>6. Min(S) \in Int
  BY <1>1, <1>5
<1> QED BY <1>4, <1>5, <1>6

---------------------------------------------------------------------------
(* The last readings *)

LEMMA LastOfIs ==
    ASSUME NEW S, NEW s \in Seq(S), NEW n \in Nat \ {0}, NEW t, t = LastOf(s, n)
    PROVE  /\ t \in Seq(S)
           /\ Len(t) = IF Len(s) < n THEN Len(s) ELSE n
           /\ \A j \in 0..(Len(t) - 1) : t[Len(t) - j] = s[Len(s) - j]
<1>1. PICK m : m = Max({1, Len(s) - n + 1})
  OBVIOUS
<1>0. Len(s) \in Nat
  OBVIOUS
<1>2. m = IF 1 >= Len(s) - n + 1 THEN 1 ELSE Len(s) - n + 1
  BY <1>0, <1>1, GreaterOfTwo
<1>3. m \in 1..(Len(s) + 1)
  BY <1>0, <1>2
<1>4. t = SubSeq(s, m, Len(s))
  BY <1>1 DEF LastOf
<1>5. t \in Seq(S) /\ Len(t) = Len(s) - m + 1 /\ \A i \in 1..Len(t) : t[i] = s[m + i - 1]
  BY <1>3, <1>4
<1>6. Len(t) = IF Len(s) < n THEN Len(s) ELSE n
  <2>1. PICK l \in Nat : l = Len(s)
    BY <1>0
  <2>2. CASE l < n
    <3>1. m = 1
      BY <1>2, <2>1, <2>2
    <3> QED BY <1>5, <2>1, <2>2, <3>1
  <2>3. CASE ~(l < n)
    <3>1. m = l - n + 1
      BY <1>2, <2>1, <2>3
    <3> QED BY <1>5, <2>1, <2>3, <3>1
  <2> QED BY <2>2, <2>3
<1>7. ASSUME NEW j \in 0..(Len(t) - 1) PROVE t[Len(t) - j] = s[Len(s) - j]
  <2>1. Len(t) - j \in 1..Len(t)
    BY <1>5
  <2>2. t[Len(t) - j] = s[m + (Len(t) - j) - 1]
    BY <1>5, <2>1
  <2>3. m + (Len(t) - j) - 1 = Len(s) - j
    BY <1>3, <1>5
  <2> QED BY <2>2, <2>3
<1> QED BY <1>5, <1>6, <1>7

\* t is s with one more reading, the oldest of more than n forgotten.
Grows(s, raw, n, t) ==
    /\ Len(t) = IF Len(s) + 1 < n THEN Len(s) + 1 ELSE n
    /\ t[Len(t)] = raw
    /\ \A j \in 0..(Len(t) - 2) : t[Len(t) - (j + 1)] = s[Len(s) - j]

LEMMA LastOfAppended ==
    ASSUME NEW S, NEW s \in Seq(S), NEW raw \in S, NEW n \in Nat \ {0},
           NEW t, t = LastOf(Append(s, raw), n)
    PROVE  t \in Seq(S) /\ Grows(s, raw, n, t)
<1>1. PICK a : a = Append(s, raw)
  OBVIOUS
<1>2. /\ a \in Seq(S) /\ Len(a) = Len(s) + 1 /\ a[Len(a)] = raw
      /\ \A i \in 1..Len(s) : a[i] = s[i]
  BY <1>1
<1>3. /\ t \in Seq(S)
      /\ Len(t) = IF Len(a) < n THEN Len(a) ELSE n
      /\ \A j \in 0..(Len(t) - 1) : t[Len(t) - j] = a[Len(a) - j]
  <2>1. a \in Seq(S) /\ t = LastOf(a, n)
    BY <1>1, <1>2
  <2> QED BY <2>1, LastOfIs
<1>4. t[Len(t)] = raw
  <2>1. 0 \in 0..(Len(t) - 1) /\ Len(t) - 0 = Len(t) /\ Len(a) - 0 = Len(a)
    BY <1>2, <1>3
  <2> QED BY <1>2, <1>3, <2>1
<1>5. ASSUME NEW j \in 0..(Len(t) - 2) PROVE t[Len(t) - (j + 1)] = s[Len(s) - j]
  <2>1. j + 1 \in 0..(Len(t) - 1) /\ Len(a) - (j + 1) = Len(s) - j
        /\ Len(s) - j \in 1..Len(s)
    BY <1>2, <1>3
  <2>2. t[Len(t) - (j + 1)] = a[Len(a) - (j + 1)]
    BY <1>3, <2>1
  <2> QED BY <1>2, <2>1, <2>2
<1> QED BY <1>2, <1>3, <1>4, <1>5 DEF Grows

---------------------------------------------------------------------------
(* The ring buffer: how many readings ago a live slot was written, and what it holds *)

Age(f, i) == IF i < f.next THEN f.next - 1 - i ELSE f.next - 1 - i + f.window

Ring(f, s) ==
    /\ f.next < f.window
    /\ f.len <= f.window
    /\ f.len <= Len(s)
    /\ f.len < f.window => Len(s) = f.len /\ f.next = f.len
    /\ \A i \in 0..(f.len - 1) : f.samples[i] = s[Len(s) - Age(f, i)]

LEMMA AgeRange ==
    ASSUME NEW f \in FilterSet, NEW s, Ring(f, s), NEW i \in 0..(f.len - 1)
    PROVE  Age(f, i) \in 0..(f.len - 1)
<1>1. f.next \in Nat /\ f.len \in Nat /\ f.window \in Nat
  BY FilterFields
<1>2. f.next < f.window /\ f.len <= f.window /\ (f.len < f.window => f.next = f.len)
  BY DEF Ring
<1> QED BY <1>1, <1>2 DEF Age

\* Every age below the length is some slot's.
LEMMA AgeOnto ==
    ASSUME NEW f \in FilterSet, NEW s, Ring(f, s), NEW j \in 0..(f.len - 1)
    PROVE  \E i \in 0..(f.len - 1) : Age(f, i) = j
<1>1. f.next \in Nat /\ f.len \in Nat /\ f.window \in Nat
  BY FilterFields
<1>2. f.next < f.window /\ f.len <= f.window /\ (f.len < f.window => f.next = f.len)
  BY DEF Ring
<1>3. CASE j < f.next
  <2>1. f.next - 1 - j \in 0..(f.len - 1) /\ Age(f, f.next - 1 - j) = j
    BY <1>1, <1>2, <1>3 DEF Age
  <2> QED BY <2>1
<1>4. CASE ~(j < f.next)
  <2>1. f.next - 1 - j + f.window \in 0..(f.len - 1) /\ Age(f, f.next - 1 - j + f.window) = j
    BY <1>1, <1>2, <1>4 DEF Age
  <2> QED BY <2>1
<1> QED BY <1>3, <1>4

\* The live slots hold the readings of the window, neither more nor fewer.
LEMMA RingIsWindow ==
    ASSUME NEW f \in FilterSet, NEW s \in Seq(Int), Ring(f, s), f.len > 0,
           NEW w, w = LastOf(s, f.window)
    PROVE  /\ Len(w) = f.len
           /\ {f.samples[i] : i \in 0..(f.len - 1)} = ToSetOf(w)
<1>1. f.len \in Nat /\ f.window \in Nat \ {0} /\ Len(s) \in Nat
  BY FilterFields
<1>2. /\ w \in Seq(Int)
      /\ Len(w) = IF Len(s) < f.window THEN Len(s) ELSE f.window
      /\ \A j \in 0..(Len(w) - 1) : w[Len(w) - j] = s[Len(s) - j]
  BY <1>1, LastOfIs
<1>3. Len(w) = f.len
  BY <1>1, <1>2 DEF Ring
<1>4. ASSUME NEW i \in 0..(f.len - 1) PROVE f.samples[i] \in ToSetOf(w)
  <2>1. PICK j : j = Age(f, i)
    OBVIOUS
  <2>2. j \in 0..(f.len - 1)
    BY <2>1, AgeRange
  <2>3. f.samples[i] = s[Len(s) - j]
    BY <2>1 DEF Ring
  <2>4. Len(w) - j \in DOMAIN w /\ w[Len(w) - j] = f.samples[i]
    BY <1>1, <1>2, <1>3, <2>2, <2>3
  <2> QED BY <2>4 DEF ToSetOf
<1>5. ASSUME NEW k \in DOMAIN w PROVE w[k] \in {f.samples[i] : i \in 0..(f.len - 1)}
  <2>1. PICK j : j = Len(w) - k
    OBVIOUS
  <2>5. k \in 1..f.len
    BY <1>2, <1>3
  <2>2. j \in 0..(f.len - 1) /\ Len(w) - j = k
    BY <1>1, <1>3, <2>1, <2>5
  <2>3. PICK i \in 0..(f.len - 1) : Age(f, i) = j
    BY <2>2, AgeOnto
  <2>4. f.samples[i] = s[Len(s) - j] /\ w[k] = s[Len(s) - j]
    BY <1>2, <1>3, <2>2, <2>3 DEF Ring
  <2> QED BY <2>4
<1> QED BY <1>3, <1>4, <1>5 DEF ToSetOf

\* g is f with raw in its next slot.
Writes(f, raw, g) ==
    /\ g.window = f.window
    /\ g.next = (f.next + 1) % f.window
    /\ g.len = IF f.len < f.window THEN f.len + 1 ELSE f.len
    /\ \A i \in 0..(MaxWindow - 1) :
          g.samples[i] = IF i = f.next THEN raw ELSE f.samples[i]

LEMMA NextPlace ==
    ASSUME NEW n \in Nat, NEW w \in Nat, n < w
    PROVE  (n + 1) % w = IF n + 1 = w THEN 0 ELSE n + 1
  OBVIOUS

\* Recording a reading keeps the ring: the slot written is the newest and the others
\* grow older by one.
LEMMA RecordKeepsRing ==
    ASSUME NEW f \in FilterSet, NEW s \in Seq(Int), Ring(f, s), NEW raw,
           NEW g \in FilterSet, Writes(f, raw, g),
           NEW t \in Seq(Int), Grows(s, raw, MaxWindow, t)
    PROVE  Ring(g, t)
<1>1. /\ f.next \in Nat /\ f.len \in Nat /\ f.window \in Nat \ {0} /\ Len(s) \in Nat
      /\ f.window <= MaxWindow /\ MaxWindow \in Nat \ {0}
  BY Bounds, FilterFields
<1>2. /\ f.next < f.window /\ f.len <= f.window /\ f.len <= Len(s)
      /\ (f.len < f.window => Len(s) = f.len /\ f.next = f.len)
  BY DEF Ring
<1>4. /\ Len(t) = IF Len(s) + 1 < MaxWindow THEN Len(s) + 1 ELSE MaxWindow
      /\ t[Len(t)] = raw
      /\ \A j \in 0..(Len(t) - 2) : t[Len(t) - (j + 1)] = s[Len(s) - j]
  BY DEF Grows
<1>7. /\ g.window = f.window
      /\ g.next = (f.next + 1) % f.window
      /\ g.len = IF f.len < f.window THEN f.len + 1 ELSE f.len
      /\ \A i \in 0..(MaxWindow - 1) :
            g.samples[i] = IF i = f.next THEN raw ELSE f.samples[i]
  BY DEF Writes
<1>3. /\ g.next < f.window /\ g.len <= f.window /\ g.len <= Len(t)
      /\ (g.len < f.window => Len(t) = g.len /\ g.next = g.len)
      /\ (IF f.next < g.next THEN g.next - 1 - f.next ELSE g.next - 1 - f.next + f.window) = 0
      /\ \A i \in 0..(g.len - 1) : i # f.next =>
            /\ i \in 0..(f.len - 1)
            /\ (IF i < g.next THEN g.next - 1 - i ELSE g.next - 1 - i + f.window)
                  = 1 + (IF i < f.next THEN f.next - 1 - i ELSE f.next - 1 - i + f.window)
            /\ (IF i < f.next THEN f.next - 1 - i ELSE f.next - 1 - i + f.window)
                  \in 0..(Len(t) - 2)
  <2>1. PICK n \in Nat, l \in Nat, w \in Nat, L \in Nat :
            n = f.next /\ l = f.len /\ w = f.window /\ L = Len(s)
    BY <1>1
  <2>2. PICK n2, l2, T : n2 = g.next /\ l2 = g.len /\ T = Len(t)
    OBVIOUS
  <2>3. n < w /\ l <= w /\ l <= L /\ (l < w => L = l /\ n = l) /\ w <= MaxWindow
    BY <1>1, <1>2, <2>1
  <2>4. /\ n2 = (n + 1) % w
        /\ l2 = IF l < w THEN l + 1 ELSE l
        /\ T = IF L + 1 < MaxWindow THEN L + 1 ELSE MaxWindow
    BY <1>4, <1>7, <2>1, <2>2
  <2>5. MaxWindow \in Nat
    BY Bounds
  <2>6. n2 = IF n + 1 = w THEN 0 ELSE n + 1
    BY <2>3, <2>4, NextPlace
  <2>7. /\ n2 < w /\ l2 <= w /\ l2 <= T
        /\ l2 < w => T = l2 /\ n2 = l2
        /\ (IF n < n2 THEN n2 - 1 - n ELSE n2 - 1 - n + w) = 0
    BY <2>3, <2>4, <2>5, <2>6
  <2>8. \A i \in 0..(l2 - 1) : i # n =>
           /\ i \in 0..(l - 1)
           /\ (IF i < n2 THEN n2 - 1 - i ELSE n2 - 1 - i + w)
                 = 1 + (IF i < n THEN n - 1 - i ELSE n - 1 - i + w)
           /\ (IF i < n THEN n - 1 - i ELSE n - 1 - i + w) \in 0..(T - 2)
    BY <2>3, <2>4, <2>5, <2>6
  <2> QED BY <2>1, <2>2, <2>7, <2>8
<1>5. /\ g.next < g.window /\ g.len <= g.window /\ g.len <= Len(t)
      /\ (g.len < g.window => Len(t) = g.len /\ g.next = g.len)
  BY <1>3, <1>7
<1>6. ASSUME NEW i \in 0..(g.len - 1) PROVE g.samples[i] = t[Len(t) - Age(g, i)]
  <2>1. i \in 0..(MaxWindow - 1)
    BY <1>1, <1>2, <1>7
  <2>2. CASE i = f.next
    <3>1. Age(g, i) = 0
      BY <1>3, <1>7, <2>2 DEF Age
    <3>2. Len(t) - 0 = Len(t)
      BY <1>4
    <3> QED BY <1>4, <1>7, <2>1, <2>2, <3>1, <3>2
  <2>3. CASE i # f.next
    <3>1. i \in 0..(f.len - 1)
      BY <1>3, <2>3
    <3>2. PICK j : j = Age(f, i)
      OBVIOUS
    <3>3. j \in 0..(f.len - 1)
      BY <3>1, <3>2, AgeRange
    <3>4. Age(g, i) = j + 1
      BY <1>3, <1>7, <2>3, <3>2, <3>3 DEF Age
    <3>5. j \in 0..(Len(t) - 2)
      BY <1>3, <2>3, <3>2 DEF Age
    <3>6. g.samples[i] = f.samples[i] /\ f.samples[i] = s[Len(s) - j]
      BY <1>7, <2>1, <2>3, <3>1, <3>2 DEF Ring
    <3> QED BY <1>4, <3>4, <3>5, <3>6
  <2> QED BY <2>2, <2>3
<1> QED BY <1>5, <1>6 DEF Ring

LEMMA EmptyRing ==
    ASSUME NEW f \in FilterSet, f.len = 0, f.next = 0
    PROVE  Ring(f, <<>>)
  BY Bounds DEF FilterSet, Ring

---------------------------------------------------------------------------
(* The plan *)

LEMMA IntervalRange ==
    ASSUME NEW e \in Int, e # 0
    PROVE  Interval(e) \in Nat /\ Interval(e) >= MinInterval /\ Interval(e) > 0
<1>1. TargetTime \in Nat /\ MinInterval \in Nat \ {0}
  BY CorrectionAssumption
<1>2. PICK a : a = Abs(e)
  OBVIOUS
<1>3. a \in Nat \ {0}
  BY <1>2 DEF Abs
<1>4. PICK q : q = (2 * TargetTime + a) \div (2 * a)
  OBVIOUS
<1>5. q \in Int
  BY <1>1, <1>3, <1>4
<1>6. PICK m : m = Max({1, MinInterval, q})
  OBVIOUS
<1>7. m \in {1, MinInterval, q} /\ m >= 1 /\ m >= MinInterval
  <2>1. 1 \in Int /\ MinInterval \in Int
    BY <1>1
  <2> QED BY <1>5, <1>6, <2>1, MaxOfThree
<1>8. Interval(e) = m
  BY <1>2, <1>4, <1>6 DEF Interval
<1> QED BY <1>1, <1>5, <1>7, <1>8

\* A schedule that may be in force from one callback to the next.
Steady(p) ==
    /\ ~p.reanchor
    /\ p.drop > 0   => p.insert = 0 /\ p.drop >= MinInterval
    /\ p.insert > 0 => p.drop = 0 /\ p.insert >= MinInterval

\* A plan made on e, while s was in force.
Planned(p, e, s) ==
    /\ p \in Schedule
    /\ ~p.reanchor => Steady(p)
    /\ p.drop > 0   => e > Deadband /\ (~IsCorrecting(s) => e > Engage)
    /\ p.insert > 0 => e < -Deadband
    /\ p.drop > 0   => ~p.reanchor /\ IsCorrecting(p)

LEMMA PlanIsPlanned ==
    ASSUME NEW e \in Int, NEW s \in Schedule, NEW p, p = Plan(e, IsCorrecting(s))
    PROVE  Planned(p, e, s)
<1>1. PICK band : band = IF IsCorrecting(s) THEN Deadband ELSE Engage
  OBVIOUS
<1>2. /\ band \in Nat /\ Deadband \in Nat /\ Engage \in Nat /\ Gross \in Nat
      /\ 0 < Deadband /\ Deadband <= band /\ (~IsCorrecting(s) => band = Engage)
      /\ MinInterval \in Nat \ {0}
  BY <1>1, CorrectionAssumption
<1>3. PICK a : a = Abs(e)
  OBVIOUS
<1>4. a \in Nat /\ (e >= 0 => a = e) /\ (e < 0 => a = -e)
  BY <1>3 DEF Abs
<1>5. CASE a <= band
  <2>1. p = Idle
    BY <1>1, <1>2, <1>3, <1>4, <1>5 DEF Plan
  <2>2. p = [insert |-> 0, drop |-> 0, reanchor |-> FALSE]
    BY <2>1 DEF Idle
  <2>3. p \in Schedule
    BY <2>2 DEF Schedule
  <2>4. p.insert = 0 /\ p.drop = 0 /\ ~p.reanchor
    BY <2>2
  <2> QED BY <2>3, <2>4 DEF Planned, Steady
<1>6. CASE ~(a <= band) /\ a >= Gross
  <2>1. p = [Idle EXCEPT !.reanchor = TRUE]
    BY <1>1, <1>2, <1>3, <1>4, <1>6 DEF Plan
  <2>2. p = [insert |-> 0, drop |-> 0, reanchor |-> TRUE]
    BY <2>1 DEF Idle
  <2>3. p \in Schedule
    BY <2>2 DEF Schedule
  <2>4. p.insert = 0 /\ p.drop = 0 /\ p.reanchor
    BY <2>2
  <2> QED BY <2>3, <2>4 DEF Planned
<1>7. CASE ~(a <= band) /\ ~(a >= Gross) /\ e > 0
  <2>1. PICK i : i = Interval(e)
    OBVIOUS
  <2>2. i \in Nat /\ i >= MinInterval /\ i > 0
    BY <1>7, <2>1, IntervalRange
  <2>3. p = [Idle EXCEPT !.drop = i]
    BY <1>1, <1>2, <1>3, <1>4, <1>7, <2>1 DEF Plan
  <2>4. p = [insert |-> 0, drop |-> i, reanchor |-> FALSE]
    BY <2>3 DEF Idle
  <2>5. e > Deadband /\ (~IsCorrecting(s) => e > Engage)
    BY <1>2, <1>4, <1>7
  <2>6. p \in Schedule
    BY <2>2, <2>4 DEF Schedule
  <2>7. p.insert = 0 /\ p.drop = i /\ ~p.reanchor
    BY <2>4
  <2>8. IsCorrecting(p)
    BY <2>2, <2>7 DEF IsCorrecting
  <2> QED BY <2>2, <2>5, <2>6, <2>7, <2>8 DEF Planned, Steady
<1>8. CASE ~(a <= band) /\ ~(a >= Gross) /\ ~(e > 0)
  <2>1. PICK i : i = Interval(e)
    OBVIOUS
  <2>2. e < 0
    BY <1>2, <1>4, <1>8
  <2>3. i \in Nat /\ i >= MinInterval /\ i > 0
    BY <2>1, <2>2, IntervalRange
  <2>4. p = [Idle EXCEPT !.insert = i]
    BY <1>1, <1>2, <1>3, <1>4, <1>8, <2>1, <2>2 DEF Plan
  <2>5. p = [insert |-> i, drop |-> 0, reanchor |-> FALSE]
    BY <2>4 DEF Idle
  <2>6. e < -Deadband
    BY <1>2, <1>4, <1>8, <2>2
  <2>7. p \in Schedule
    BY <2>3, <2>5 DEF Schedule
  <2>8. p.insert = i /\ p.drop = 0 /\ ~p.reanchor
    BY <2>5
  <2> QED BY <2>3, <2>6, <2>7, <2>8 DEF Planned, Steady
<1> QED BY <1>5, <1>6, <1>7, <1>8

---------------------------------------------------------------------------
(* A reading *)

LEMMA RecordedWrites ==
    ASSUME NEW f \in FilterSet, f.next < f.window, NEW raw \in Int,
           NEW g, g = Recorded(f, raw)
    PROVE  g \in FilterSet /\ Writes(f, raw, g) /\ g.len > 0
<1>1. /\ f.next \in Nat /\ f.len \in Nat /\ f.window \in Nat \ {0}
      /\ f.next < MaxWindow /\ f.window <= MaxWindow /\ f.len <= MaxWindow
      /\ f.samples \in [0..(MaxWindow - 1) -> Int]
  BY FilterFields
<1>2. PICK a : a = [f.samples EXCEPT ![f.next] = raw]
  OBVIOUS
<1>3. PICK n : n = (f.next + 1) % f.window
  OBVIOUS
<1>4. PICK l : l = IF f.len < f.window THEN f.len + 1 ELSE f.len
  OBVIOUS
<1>5. f = [samples |-> f.samples, len |-> f.len, next |-> f.next, window |-> f.window]
  BY DEF FilterSet
<1>6. g = [samples |-> a, len |-> l, next |-> n, window |-> f.window]
  BY <1>2, <1>3, <1>4, <1>5 DEF Recorded
<1>7. MaxWindow \in Nat /\ f.window \in MinWindow..MaxWindow
  BY Bounds DEF FilterSet
<1>8. n \in 0..(MaxWindow - 1)
  <2>1. n = IF f.next + 1 = f.window THEN 0 ELSE f.next + 1
    BY <1>1, <1>3, NextPlace
  <2> QED BY <1>1, <1>7, <2>1
<1>9. l \in 0..MaxWindow /\ l > 0
  BY <1>1, <1>4, <1>7
<1>10. a \in [0..(MaxWindow - 1) -> Int]
  BY <1>1, <1>2
<1>11. g \in FilterSet
  BY <1>6, <1>7, <1>8, <1>9, <1>10 DEF FilterSet
<1>12. \A i \in 0..(MaxWindow - 1) : a[i] = IF i = f.next THEN raw ELSE f.samples[i]
  BY <1>1, <1>2
<1>13. g.samples = a /\ g.len = l /\ g.next = n /\ g.window = f.window
  BY <1>6
<1>14. Writes(f, raw, g)
  BY <1>3, <1>4, <1>12, <1>13 DEF Writes
<1> QED BY <1>9, <1>11, <1>13, <1>14

CorrSet == [filter : FilterSet, streak : 0..StreakPlans, schedule : Schedule,
            seen : BOOLEAN]

\* A correction in force is one for the floor.
Justified(c) ==
    c.filter.len > 0 =>
        /\ c.schedule.drop > 0   => Floor(c.filter) > Deadband
        /\ c.schedule.insert > 0 => Floor(c.filter) < -Deadband

LEMMA IdleFacts ==
    Idle \in Schedule /\ Idle.drop = 0 /\ Idle.insert = 0 /\ ~Idle.reanchor /\ Steady(Idle)
      /\ ~IsCorrecting(Idle)
  BY DEF Idle, Schedule, Steady, IsCorrecting

\* What becomes of b with a reading: the plan is in force, or none is.
LEMMA MeasuredFacts ==
    ASSUME NEW b \in CorrSet, b.filter.next < b.filter.window, NEW raw \in Int,
           NEW st \in BOOLEAN, NEW f, f = Recorded(b.filter, raw),
           NEW d, d = Measured(b, raw, st)
    PROVE  /\ d \in CorrSet /\ d.filter = f /\ d.seen = b.seen
           /\ Justified(d)
           /\ ~d.schedule.reanchor =>
                 Steady(d.schedule) /\ (IsCorrecting(d.schedule) => st)
           /\ ~IsCorrecting(b.schedule) /\ d.schedule.drop > 0 =>
                 st /\ IsWarm(f) /\ Floor(f) > Engage
<1>1. /\ b.filter \in FilterSet /\ b.streak \in 0..StreakPlans /\ b.schedule \in Schedule
      /\ b.seen \in BOOLEAN
      /\ b = [filter |-> b.filter, streak |-> b.streak, schedule |-> b.schedule,
              seen |-> b.seen]
  BY DEF CorrSet
<1>2. f \in FilterSet /\ f.len > 0
  BY <1>1, RecordedWrites
<1>3. PICK e : e = Floor(f)
  OBVIOUS
<1>4. e \in Int
  BY <1>2, <1>3, FloorIsLeast
<1>5. PICK p : p = Plan(e, IsCorrecting(b.schedule))
  OBVIOUS
<1>6. Planned(p, e, b.schedule)
  BY <1>1, <1>4, <1>5, PlanIsPlanned
<1> DEFINE passes == Passes(p, IsCorrecting(b.schedule))
<1>7. PICK k : k = IF passes THEN 0 ELSE Min({b.streak + 1, StreakPlans})
  OBVIOUS
<1>8. k \in 0..StreakPlans
  <2>1. StreakPlans \in Nat /\ b.streak + 1 \in Nat
    BY <1>1, CorrectionAssumption
  <2>2. PICK m : m = Min({b.streak + 1, StreakPlans})
    OBVIOUS
  <2>3. m \in 0..StreakPlans
    BY <2>1, <2>2, LesserOfTwo
  <2>4. k = 0 \/ k = m
    BY <1>7, <2>2
  <2> QED BY <2>1, <2>3, <2>4
<1>9. PICK x : x = IF passes \/ (IsWarm(f) /\ k >= StreakPlans) THEN p ELSE Idle
  OBVIOUS
<1>10. PICK y : y = IF st \/ x.reanchor THEN x ELSE Idle
  OBVIOUS
<1>11. d = [b EXCEPT !.filter = f, !.streak = k, !.schedule = y]
  BY <1>3, <1>5, <1>7, <1>9, <1>10 DEF Measured
<1>12. d = [filter |-> f, streak |-> k, schedule |-> y, seen |-> b.seen]
  BY <1>1, <1>11
<1>13. d.filter = f /\ d.streak = k /\ d.schedule = y /\ d.seen = b.seen
  BY <1>12
<1>14. y = Idle \/ (y = p /\ (st \/ p.reanchor))
  BY <1>9, <1>10
<1>15. y \in Schedule /\ (~y.reanchor => Steady(y))
  BY <1>6, <1>14, IdleFacts DEF Planned
<1>16. d \in CorrSet
  BY <1>1, <1>2, <1>8, <1>12, <1>15 DEF CorrSet
<1>17. Justified(d)
  <2>1. y.drop > 0 => e > Deadband
    BY <1>6, <1>14, IdleFacts DEF Planned
  <2>2. y.insert > 0 => e < -Deadband
    BY <1>6, <1>14, IdleFacts DEF Planned
  <2> QED BY <1>3, <1>13, <2>1, <2>2 DEF Justified
<1>18. ~y.reanchor /\ IsCorrecting(y) => st
  BY <1>14, IdleFacts
<1>19. ASSUME ~IsCorrecting(b.schedule), y.drop > 0
       PROVE  st /\ IsWarm(f) /\ e > Engage
  <2>1. y # Idle
    BY <1>19, IdleFacts
  <2>2. y = p /\ p.drop > 0
    BY <1>14, <1>19, <2>1
  <2>3. e > Engage /\ ~p.reanchor /\ IsCorrecting(p)
    BY <1>6, <1>19, <2>2 DEF Planned
  <2>4. ~passes
    BY <1>19, <2>3 DEF Passes
  <2>5. x = p
    BY <1>10, <2>1, <2>2
  <2>6. IsWarm(f)
    BY <1>9, <2>1, <2>2, <2>4, <2>5
  <2>7. st
    BY <1>14, <2>1, <2>3
  <2> QED BY <2>3, <2>6, <2>7
<1> QED BY <1>3, <1>13, <1>15, <1>16, <1>17, <1>18, <1>19

---------------------------------------------------------------------------
(* The invariant: the filter holds the latest readings, and what is in force is for *)
(* their floor *)

CorrInv ==
    /\ corr \in CorrSet /\ settled \in BOOLEAN /\ readings \in Seq(Errors)
    /\ Ring(corr.filter, readings)
    /\ Steady(corr.schedule)
    /\ IsCorrecting(corr.schedule) => settled
    /\ Justified(corr)

\* The part of it about a filter, a schedule and the readings kept.
Good(c, s) ==
    /\ c \in CorrSet /\ s \in Seq(Errors)
    /\ Ring(c.filter, s)
    /\ Steady(c.schedule)
    /\ Justified(c)

LEMMA ReadingsAreNumbers == ASSUME NEW s \in Seq(Errors) PROVE s \in Seq(Int)
  BY ReadingsAssumption, SeqMonotonic

LEMMA CorrFields ==
    ASSUME NEW c \in CorrSet
    PROVE  /\ c.filter \in FilterSet /\ c.streak \in 0..StreakPlans
           /\ c.schedule \in Schedule /\ c.seen \in BOOLEAN
           /\ c = [filter |-> c.filter, streak |-> c.streak, schedule |-> c.schedule,
                   seen |-> c.seen]
  BY DEF CorrSet

LEMMA CorrMade ==
    ASSUME NEW f \in FilterSet, NEW k \in 0..StreakPlans, NEW s \in Schedule,
           NEW b \in BOOLEAN
    PROVE  [filter |-> f, streak |-> k, schedule |-> s, seen |-> b] \in CorrSet
  BY DEF CorrSet

LEMMA ResetFilter ==
    ASSUME NEW f \in FilterSet, NEW g, g = FilterReset(f)
    PROVE  g \in FilterSet /\ g.len = 0 /\ Ring(g, <<>>)
<1>1. /\ f.samples \in [0..(MaxWindow - 1) -> Int] /\ f.window \in MinWindow..MaxWindow
      /\ f = [samples |-> f.samples, len |-> f.len, next |-> f.next, window |-> f.window]
  BY DEF FilterSet
<1>2. g = [samples |-> f.samples, len |-> 0, next |-> 0, window |-> f.window]
  BY <1>1 DEF FilterReset
<1>3. 0 \in 0..MaxWindow /\ 0 \in 0..(MaxWindow - 1)
  BY Bounds
<1>4. g \in FilterSet
  BY <1>1, <1>2, <1>3 DEF FilterSet
<1>5. g.len = 0 /\ g.next = 0
  BY <1>2
<1> QED BY <1>4, <1>5, EmptyRing

\* A fresh start keeps the schedule, and there is nothing to justify it by.
LEMMA ForgottenFacts ==
    ASSUME NEW c \in CorrSet, NEW d, d = Forgotten(c)
    PROVE  /\ d \in CorrSet /\ d.schedule = c.schedule /\ d.seen = c.seen
           /\ d.filter.len = 0 /\ Ring(d.filter, <<>>)
<1>1. PICK g : g = FilterReset(c.filter)
  OBVIOUS
<1>2. g \in FilterSet /\ g.len = 0 /\ Ring(g, <<>>)
  BY <1>1, CorrFields, ResetFilter
<1>3. c = [filter |-> c.filter, streak |-> c.streak, schedule |-> c.schedule,
           seen |-> c.seen]
  BY CorrFields
<1>4. d = [c EXCEPT !.filter = g, !.streak = 0]
  BY <1>1 DEF Forgotten
<1>5. d = [filter |-> g, streak |-> 0, schedule |-> c.schedule, seen |-> c.seen]
  BY <1>3, <1>4
<1>6. 0 \in 0..StreakPlans
  BY CorrectionAssumption
<1>7. d \in CorrSet
  BY <1>2, <1>5, <1>6, CorrFields DEF CorrSet
<1>8. d.filter = g /\ d.schedule = c.schedule /\ d.seen = c.seen
  BY <1>5
<1> QED BY <1>2, <1>7, <1>8

LEMMA RestartedFacts ==
    ASSUME NEW c \in CorrSet, NEW d, d = Restarted(c)
    PROVE  Good(d, <<>>) /\ d.schedule = Idle
<1>1. PICK b : b = Forgotten(c)
  OBVIOUS
<1>2. b \in CorrSet /\ b.filter.len = 0 /\ Ring(b.filter, <<>>)
  BY <1>1, ForgottenFacts
<1>3. d = [filter |-> b.filter, streak |-> b.streak, schedule |-> Idle, seen |-> b.seen]
  BY <1>1, <1>2, CorrFields DEF Restarted
<1>4. d \in CorrSet
  BY <1>2, <1>3, CorrFields, IdleFacts DEF CorrSet
<1>5. d.filter = b.filter /\ d.schedule = Idle
  BY <1>3
<1>6. ~(b.filter.len > 0) /\ <<>> \in Seq(Errors)
  BY <1>2
<1> QED BY <1>2, <1>4, <1>5, <1>6, IdleFacts DEF Good, Justified

\* A filter is left alone, or given another length and nothing in it.
LEMMA PeriodFacts ==
    ASSUME NEW f \in FilterSet, NEW p \in Nat, NEW g, g = ForPeriod(f, p)
    PROVE  /\ g \in FilterSet
           /\ WindowLen(p) = f.window => g = f
           /\ WindowLen(p) # f.window => g.len = 0 /\ Ring(g, <<>>)
<1>1. CASE WindowLen(p) = f.window
  BY <1>1 DEF ForPeriod
<1>2. CASE WindowLen(p) # f.window
  <2>1. PICK w : w = WindowLen(p)
    OBVIOUS
  <2>2. PICK h : h = [f EXCEPT !.window = w]
    OBVIOUS
  <2>3. w \in MinWindow..MaxWindow
    BY <2>1, WindowRange
  <2>4. h \in FilterSet
    BY <2>2, <2>3 DEF FilterSet
  <2>5. g = FilterReset(h)
    BY <1>2, <2>1, <2>2 DEF ForPeriod
  <2> QED BY <1>2, <2>4, <2>5, ResetFilter
<1> QED BY <1>1, <1>2

\* A correction that has measured nothing yet.
LEMMA NewFacts ==
    ASSUME NEW p \in Nat, NEW c, c = [NewCorr EXCEPT !.filter = ForPeriod(@, p)]
    PROVE  Good(c, <<>>) /\ c.schedule = Idle /\ c.filter.len = 0 /\ c.seen = FALSE
<1>1. PICK f, g : f = NewFilter /\ g = ForPeriod(f, p)
  OBVIOUS
<1>2. f \in FilterSet /\ f.len = 0 /\ f.next = 0
  BY <1>1, Bounds DEF NewFilter, FilterSet
<1>3. g \in FilterSet /\ g.len = 0 /\ Ring(g, <<>>)
  BY <1>1, <1>2, PeriodFacts, EmptyRing
<1>4. c = [filter |-> g, streak |-> 0, schedule |-> Idle, seen |-> FALSE]
  BY <1>1 DEF NewCorr
<1>5. 0 \in 0..StreakPlans
  BY CorrectionAssumption
<1>6. c \in CorrSet
  <2>1. Idle \in Schedule /\ FALSE \in BOOLEAN
    BY IdleFacts
  <2>2. [filter |-> g, streak |-> 0, schedule |-> Idle, seen |-> FALSE] \in CorrSet
    BY <1>3, <1>5, <2>1, CorrMade, Zenon
  <2> QED BY <1>4, <2>2, Zenon
<1>7. c.filter = g /\ c.schedule = Idle /\ c.seen = FALSE
  BY <1>4
<1>8. Justified(c) /\ <<>> \in Seq(Errors)
  BY <1>3, <1>7 DEF Justified
<1> QED BY <1>3, <1>6, <1>7, <1>8, IdleFacts DEF Good

LEMMA CorrInvInit == ASSUME CorrInit PROVE CorrInv
<1>1. PICK p \in Periods : corr = [NewCorr EXCEPT !.filter = ForPeriod(@, p)]
  BY DEF CorrInit
<1>2. PICK c : c = [NewCorr EXCEPT !.filter = ForPeriod(@, p)]
  OBVIOUS
<1>3. Good(c, <<>>) /\ c.schedule = Idle
  BY <1>2, ReadingsAssumption, NewFacts
<1>4. readings = <<>> /\ settled = FALSE
  BY DEF CorrInit
<1> QED BY <1>1, <1>2, <1>3, <1>4, IdleFacts DEF Good, CorrInv

LEMMA SetPeriodKeeps == ASSUME CorrInv, NEW p \in Periods, SetPeriod(p) PROVE CorrInv'
<1>1. PICK c, s, d, t : c = corr /\ s = readings /\ d = corr' /\ t = readings'
  OBVIOUS
<1>2. c \in CorrSet /\ s \in Seq(Errors) /\ Ring(c.filter, s) /\ Steady(c.schedule)
      /\ (IsCorrecting(c.schedule) => settled) /\ Justified(c)
  BY <1>1 DEF CorrInv
<1>3. settled' = settled /\ settled \in BOOLEAN /\ p \in Nat
  BY ReadingsAssumption DEF CorrInv, SetPeriod
<1>4. PICK g : g = ForPeriod(c.filter, p)
  OBVIOUS
<1>5. /\ g \in FilterSet
      /\ WindowLen(p) = c.filter.window => g = c.filter
      /\ WindowLen(p) # c.filter.window => g.len = 0 /\ Ring(g, <<>>)
  BY <1>2, <1>3, <1>4, CorrFields, PeriodFacts
<1>6. /\ d = [c EXCEPT !.filter = g]
      /\ t = IF WindowLen(p) = c.filter.window THEN s ELSE <<>>
  BY <1>1, <1>4 DEF SetPeriod
<1>7. d = [filter |-> g, streak |-> c.streak, schedule |-> c.schedule, seen |-> c.seen]
  BY <1>2, <1>6, CorrFields
<1>8. d.filter = g /\ d.schedule = c.schedule /\ d \in CorrSet
  BY <1>2, <1>5, <1>7, CorrFields DEF CorrSet
<1>9. t \in Seq(Errors) /\ Ring(g, t) /\ Justified(d)
  BY <1>2, <1>5, <1>6, <1>8 DEF Justified
<1> QED BY <1>1, <1>2, <1>3, <1>8, <1>9 DEF CorrInv

\* The first callback that finds the clock settled keeps the schedule alone.
LEMMA SettlingFacts ==
    ASSUME NEW c \in CorrSet, NEW s \in Seq(Errors), Ring(c.filter, s), Justified(c),
           NEW st \in BOOLEAN, NEW d, d = Settling(c, st),
           NEW k, k = IF st /\ ~c.seen THEN <<>> ELSE s
    PROVE  /\ d \in CorrSet /\ d.schedule = c.schedule
           /\ k \in Seq(Errors) /\ Ring(d.filter, k) /\ Justified(d)
           /\ st => d.seen
<1>1. CASE st /\ ~c.seen
  <2>1. PICK a : a = Forgotten(c)
    OBVIOUS
  <2>2. /\ a \in CorrSet /\ a.schedule = c.schedule /\ Ring(a.filter, <<>>)
        /\ a.filter.len = 0
    BY <2>1, ForgottenFacts
  <2>3. a = [filter |-> a.filter, streak |-> a.streak, schedule |-> a.schedule,
             seen |-> a.seen]
    BY <2>2, CorrFields
  <2>4. d = [a EXCEPT !.seen = TRUE]
    BY <1>1, <2>1 DEF Settling
  <2>5. d = [filter |-> a.filter, streak |-> a.streak, schedule |-> a.schedule,
             seen |-> TRUE]
    BY <2>3, <2>4
  <2>6. d \in CorrSet /\ d.filter = a.filter /\ d.schedule = a.schedule /\ d.seen
    BY <2>2, <2>5, CorrFields DEF CorrSet
  <2>7. k = <<>> /\ <<>> \in Seq(Errors)
    BY <1>1
  <2> QED BY <2>2, <2>6, <2>7 DEF Justified
<1>2. CASE ~(st /\ ~c.seen)
  BY <1>2 DEF Settling
<1> QED BY <1>1, <1>2

LEMMA SettleKeeps == ASSUME CorrInv, Settle PROVE CorrInv' /\ corr'.schedule = corr.schedule
<1>1. PICK c, s, d, t : c = corr /\ s = readings /\ d = corr' /\ t = readings'
  OBVIOUS
<1>2. c \in CorrSet /\ s \in Seq(Errors) /\ Ring(c.filter, s) /\ Steady(c.schedule)
      /\ (IsCorrecting(c.schedule) => settled) /\ Justified(c) /\ settled \in BOOLEAN
  BY <1>1 DEF CorrInv
<1>3. /\ d = Settling(c, settled) /\ settled' = settled
      /\ t = IF settled /\ ~c.seen THEN <<>> ELSE s
  BY <1>1 DEF Settle
<1>4. d \in CorrSet /\ d.schedule = c.schedule
      /\ t \in Seq(Errors) /\ Ring(d.filter, t) /\ Justified(d)
  BY <1>2, <1>3, SettlingFacts
<1> QED BY <1>1, <1>2, <1>3, <1>4 DEF CorrInv

\* The reading joins the window, and a plan replaces what was in force; a gross one
\* starts afresh.
LEMMA MeasureKeeps ==
    ASSUME CorrInv, NEW raw \in Errors, Measure(raw)
    PROVE  /\ CorrInv'
           /\ ~IsCorrecting(corr.schedule) /\ corr'.schedule.drop > 0 =>
                 settled /\ IsWarm(corr'.filter) /\ Floor(corr'.filter) > Engage
<1>1. PICK c, s, c2, t : c = corr /\ s = readings /\ c2 = corr' /\ t = readings'
  OBVIOUS
<1>2. c \in CorrSet /\ s \in Seq(Errors) /\ Ring(c.filter, s)
  BY <1>1 DEF CorrInv
<1>3. settled' = settled /\ settled \in BOOLEAN /\ raw \in Int
  BY ReadingsAssumption DEF CorrInv, Measure
<1>4. PICK f : f = Recorded(c.filter, raw)
  OBVIOUS
<1>5. PICK d : d = Measured(c, raw, settled)
  OBVIOUS
<1>6. c.filter \in FilterSet /\ c.filter.next < c.filter.window
  BY <1>2, CorrFields DEF Ring
<1>7. /\ d \in CorrSet /\ d.filter = f
      /\ Justified(d)
      /\ ~d.schedule.reanchor =>
            Steady(d.schedule) /\ (IsCorrecting(d.schedule) => settled)
      /\ ~IsCorrecting(c.schedule) /\ d.schedule.drop > 0 =>
            settled /\ IsWarm(f) /\ Floor(f) > Engage
  BY <1>2, <1>3, <1>4, <1>5, <1>6, MeasuredFacts
<1>8. CASE d.schedule.reanchor
  <2>1. c2 = Restarted(d) /\ t = <<>>
    BY <1>1, <1>5, <1>8 DEF Measure
  <2>2. Good(c2, <<>>) /\ c2.schedule = Idle
    BY <1>7, <2>1, RestartedFacts
  <2>3. ~(c2.schedule.drop > 0) /\ ~IsCorrecting(c2.schedule)
    BY <2>2, IdleFacts
  <2> QED BY <1>1, <1>3, <2>1, <2>2, <2>3 DEF Good, CorrInv
<1>9. CASE ~d.schedule.reanchor
  <2>1. c2 = d /\ t = LastOf(Append(s, raw), MaxWindow)
    BY <1>1, <1>5, <1>9 DEF Measure
  <2>2. t \in Seq(Errors) /\ Grows(s, raw, MaxWindow, t)
    BY <1>2, <2>1, Bounds, LastOfAppended
  <2>3. f \in FilterSet /\ Writes(c.filter, raw, f)
    BY <1>3, <1>4, <1>6, RecordedWrites
  <2>4. Ring(f, t)
    BY <1>2, <1>3, <1>6, <2>2, <2>3, ReadingsAreNumbers, RecordKeepsRing
  <2>5. ~IsCorrecting(c.schedule) /\ c2.schedule.drop > 0 =>
            settled /\ IsWarm(c2.filter) /\ Floor(c2.filter) > Engage
    BY <1>7, <2>1
  <2> QED BY <1>1, <1>3, <1>7, <1>9, <2>1, <2>2, <2>4, <2>5 DEF CorrInv
<1> QED BY <1>8, <1>9

LEMMA RestartKeeps == ASSUME CorrInv, Restart PROVE CorrInv'
<1>1. PICK c, d, t : c = corr /\ d = corr' /\ t = readings'
  OBVIOUS
<1>2. c \in CorrSet /\ d = Restarted(c) /\ t = <<>> /\ settled' \in BOOLEAN
  BY <1>1 DEF CorrInv, Restart
<1>3. Good(d, <<>>) /\ d.schedule = Idle
  BY <1>2, RestartedFacts
<1> QED BY <1>1, <1>2, <1>3, IdleFacts DEF Good, CorrInv

LEMMA CorrInvNext == ASSUME CorrInv, [CorrNext]_corrVars PROVE CorrInv'
<1>1. ASSUME NEW p \in Periods, SetPeriod(p) PROVE CorrInv'
  BY <1>1, SetPeriodKeeps
<1>2. ASSUME NEW raw \in Errors, Measure(raw) PROVE CorrInv'
  BY <1>2, MeasureKeeps
<1>3. CASE Restart
  BY <1>3, RestartKeeps
<1>4. CASE ClockSettles
  BY <1>4 DEF ClockSettles, CorrInv
<1>5. CASE Settle
  BY <1>5, SettleKeeps
<1>6. CASE UNCHANGED corrVars
  BY <1>6 DEF corrVars, CorrInv
<1> QED BY <1>1, <1>2, <1>3, <1>4, <1>5, <1>6 DEF CorrNext

LEMMA CorrInvHolds == CorrSpec => []CorrInv
  BY CorrInvInit, CorrInvNext, PTL DEF CorrSpec

---------------------------------------------------------------------------
(* Theorems *)

\* The window of a filter that has a reading, and its floor.
LEMMA WindowFacts ==
    ASSUME NEW f \in FilterSet, NEW s \in Seq(Errors), Ring(f, s), f.len > 0,
           NEW w, w = LastOf(s, f.window)
    PROVE  /\ f.len = Len(w) /\ Floor(f) = Min(ToSetOf(w))
           /\ Floor(f) \in ToSetOf(w) /\ Floor(f) \in Int
           /\ \A e \in ToSetOf(w) : Floor(f) <= e /\ e \in Int
<1>1. /\ Len(w) = f.len
      /\ {f.samples[i] : i \in 0..(f.len - 1)} = ToSetOf(w)
  BY ReadingsAreNumbers, RingIsWindow
<1>2. /\ Floor(f) \in {f.samples[i] : i \in 0..(f.len - 1)}
      /\ \A i \in 0..(f.len - 1) : Floor(f) <= f.samples[i]
      /\ Floor(f) \in Int
  BY FloorIsLeast
<1>3. \A e \in ToSetOf(w) : Floor(f) <= e
  BY <1>1, <1>2
<1>4. \A i \in 0..(f.len - 1) : f.samples[i] \in Int
  <2>1. /\ f.samples \in [0..(MaxWindow - 1) -> Int]
        /\ f.len \in Nat /\ f.len <= MaxWindow /\ MaxWindow \in Nat
    BY FilterFields, Bounds
  <2> QED BY <2>1
<1>5. \A e \in ToSetOf(w) : e \in Int
  BY <1>1, <1>4
<1>6. Floor(f) = Min(ToSetOf(w))
  BY <1>1 DEF Floor
<1> QED BY <1>1, <1>2, <1>3, <1>5, <1>6

\* The variables keep their types for any readings, periods and limits of the window:
\* the filter never writes outside its array (SyncErrorFilter::update).
THEOREM CorrTypeCorrect == CorrSpec => []CorrTypeOK
<1>1. CorrInv => CorrTypeOK
  BY CorrFields DEF CorrInv, CorrTypeOK, FilterSet
<1> QED BY <1>1, CorrInvHolds, PTL

\* Whatever resets, period changes and wraps came before, the filter's minimum is
\* that of the latest readings of one window (SyncErrorFilter).
THEOREM FloorCorrect == CorrSpec => []FloorOfWindow
<1>1. CorrInv => FloorOfWindow
  <2>1. SUFFICES ASSUME CorrInv, corr.filter.len > 0
                 PROVE  /\ corr.filter.len = Len(Window)
                        /\ Floor(corr.filter) = Min(ToSetOf(Window))
    BY DEF FloorOfWindow
  <2>2. corr.filter \in FilterSet /\ readings \in Seq(Errors) /\ Ring(corr.filter, readings)
    BY <2>1, CorrFields DEF CorrInv
  <2> QED BY <2>1, <2>2, WindowFacts DEF Window
<1> QED BY <1>1, CorrInvHolds, PTL

\* The correction in force is for the error at hand, whatever the thresholds
\* (CorrectionPlanner, driven by AudioRenderer::render).
THEOREM CorrectionCorrect == CorrSpec => []CorrectsTheError
<1>1. CorrInv => CorrectsTheError
  <2>1. SUFFICES ASSUME CorrInv, IsCorrecting(corr.schedule), Window # <<>>
                 PROVE  /\ settled
                        /\ Dropping => \A e \in ToSetOf(Window) : e > Deadband
                        /\ Repeating => \E e \in ToSetOf(Window) : e < -Deadband
                        /\ Dropping # Repeating
                        /\ corr.schedule.drop + corr.schedule.insert >= MinInterval
    BY DEF CorrectsTheError
  <2>2. PICK c, s, w : c = corr /\ s = readings /\ w = Window
    OBVIOUS
  <2>3. /\ c \in CorrSet /\ s \in Seq(Errors) /\ Ring(c.filter, s)
        /\ Steady(c.schedule) /\ IsCorrecting(c.schedule) /\ settled /\ Justified(c)
    BY <2>1, <2>2 DEF CorrInv
  <2>4. c.filter \in FilterSet /\ c.schedule \in Schedule /\ w = LastOf(s, c.filter.window)
    BY <2>2, <2>3, CorrFields DEF Window
  <2>5. PICK p : p = c.schedule
    OBVIOUS
  <2>6. /\ p.drop \in Nat /\ p.insert \in Nat
        /\ MinInterval \in Nat \ {0} /\ Deadband \in Nat
    BY <2>4, <2>5, CorrectionAssumption DEF Schedule
  <2>7. p.insert > 0 \/ p.drop > 0
    BY <2>3, <2>5 DEF IsCorrecting, Steady
  <2>8. /\ p.drop > 0 => p.insert = 0 /\ p.drop >= MinInterval
        /\ p.insert > 0 => p.drop = 0 /\ p.insert >= MinInterval
    BY <2>3, <2>5 DEF Steady
  <2>9. (p.drop > 0) # (p.insert > 0) /\ p.drop + p.insert >= MinInterval
    BY <2>6, <2>7, <2>8
  <2>10. c.filter.len > 0
    <3>1. c.filter.window \in Nat \ {0} /\ c.filter.len \in Nat /\ Len(s) \in Nat
      BY <2>3, <2>4, FilterFields
    <3>2. Len(w) = IF Len(s) < c.filter.window THEN Len(s) ELSE c.filter.window
      BY <2>3, <2>4, <3>1, LastOfIs
    <3>3. w \in Seq(Errors) /\ Len(w) > 0
      BY <2>1, <2>2, <2>3, <2>4, <3>1, LastOfIs
    <3> QED BY <2>3, <3>1, <3>2, <3>3 DEF Ring
  <2>11. /\ Floor(c.filter) \in ToSetOf(w) /\ Floor(c.filter) \in Int
         /\ \A e \in ToSetOf(w) : Floor(c.filter) <= e /\ e \in Int
    BY <2>3, <2>4, <2>10, WindowFacts
  <2>12. p.drop > 0 => \A e \in ToSetOf(w) : e > Deadband
    <3>1. p.drop > 0 => Floor(c.filter) > Deadband
      BY <2>3, <2>5, <2>10 DEF Justified
    <3> QED BY <2>6, <2>11, <3>1
  <2>13. p.insert > 0 => \E e \in ToSetOf(w) : e < -Deadband
    <3>1. p.insert > 0 => Floor(c.filter) < -Deadband
      BY <2>3, <2>5, <2>10 DEF Justified
    <3> QED BY <2>11, <3>1
  <2> QED BY <2>2, <2>3, <2>5, <2>9, <2>12, <2>13 DEF Dropping, Repeating
<1> QED BY <1>1, CorrInvHolds, PTL

\* No stream starts to drop frames without a full window of late readings of a settled
\* clock, for any window, streak and threshold (EngageGate::admit).
THEOREM EvidenceCorrect == CorrSpec => DropsNeedEvidence
<1> DEFINE Evidence ==
        ~IsCorrecting(corr.schedule) /\ Dropping' =>
            /\ settled
            /\ Len(Window') = corr'.filter.window
            /\ \A e \in ToSetOf(Window') : e > Engage
<1>1. ASSUME CorrInv, [CorrNext]_corrVars PROVE [Evidence]_corrVars
  <2>1. SUFFICES ASSUME ~IsCorrecting(corr.schedule), Dropping', corrVars' # corrVars
                 PROVE  /\ settled
                        /\ Len(Window') = corr'.filter.window
                        /\ \A e \in ToSetOf(Window') : e > Engage
    OBVIOUS
  <2>2. ~(corr.schedule.drop > 0)
    BY <2>1 DEF IsCorrecting
  <2>3. corr'.schedule.drop > 0
    BY <2>1 DEF Dropping
  <2>4. CorrInv'
    BY <1>1, CorrInvNext
  <2>5. PICK c, d, t, w : c = corr /\ d = corr' /\ t = readings' /\ w = Window'
    OBVIOUS
  <2>6. d \in CorrSet /\ t \in Seq(Errors) /\ Ring(d.filter, t)
    BY <2>4, <2>5 DEF CorrInv
  <2>7. settled /\ IsWarm(d.filter) /\ Floor(d.filter) > Engage
    <3>1. ASSUME NEW p \in Periods, SetPeriod(p) PROVE FALSE
      <4>1. c \in CorrSet /\ d = [c EXCEPT !.filter = ForPeriod(c.filter, p)]
        BY <1>1, <2>5, <3>1 DEF SetPeriod, CorrInv
      <4>2. d.schedule = c.schedule
        BY <4>1, CorrFields
      <4> QED BY <2>2, <2>3, <2>5, <4>2
    <3>2. ASSUME NEW raw \in Errors, Measure(raw)
          PROVE  settled /\ IsWarm(d.filter) /\ Floor(d.filter) > Engage
      BY <1>1, <2>1, <2>3, <2>5, <3>2, MeasureKeeps
    <3>3. CASE Restart
      <4>1. c \in CorrSet /\ d = Restarted(c)
        BY <1>1, <2>5, <3>3 DEF Restart, CorrInv
      <4>2. d.schedule = Idle
        BY <4>1, RestartedFacts
      <4> QED BY <2>3, <2>5, <4>2, IdleFacts
    <3>4. CASE ClockSettles
      BY <2>2, <2>3, <3>4 DEF ClockSettles
    <3>5. CASE Settle
      BY <1>1, <2>2, <2>3, <3>5, SettleKeeps
    <3> QED BY <1>1, <2>1, <3>1, <3>2, <3>3, <3>4, <3>5 DEF CorrNext
  <2>8. d.filter \in FilterSet /\ w = LastOf(t, d.filter.window)
    BY <2>5, <2>6, CorrFields DEF Window
  <2>9. d.filter.len = d.filter.window /\ d.filter.len > 0 /\ Engage \in Nat
    BY <2>7, <2>8, FilterFields, CorrectionAssumption DEF IsWarm
  <2>10. /\ d.filter.len = Len(w) /\ Floor(d.filter) \in Int
         /\ \A e \in ToSetOf(w) : Floor(d.filter) <= e /\ e \in Int
    BY <2>6, <2>8, <2>9, WindowFacts
  <2>11. \A e \in ToSetOf(w) : e > Engage
    BY <2>7, <2>9, <2>10
  <2> QED BY <2>5, <2>7, <2>9, <2>10, <2>11
<1>2. CorrSpec => [][Evidence]_corrVars
  BY <1>1, CorrInvHolds, PTL DEF CorrSpec
<1> QED BY <1>2 DEF DropsNeedEvidence
================================================================================
