------------------------- MODULE PlaybackQueueOps_proofs -------------------------
(***************************************************************************)
(* Lemmas about the operations of the playback queue, for any buffers and  *)
(* rates: what each returns, and that it keeps a queue typed and in order. *)
(* The modules that prove about the queue's users rest on them.            *)
(***************************************************************************)
EXTENDS PlaybackQueueOps, SequenceTheorems, WellFoundedInduction, TLAPS

---------------------------------------------------------------------------
(* Induction, with sets in the place of predicates *)

LEMMA LeastNumber ==
    ASSUME NEW T \in SUBSET Nat, T # {}
    PROVE  \E m \in T : \A k \in T : m <= k
<1>1. PICK m \in T : \A k \in T : <<k, m>> \notin OpToRel(<, Nat)
  BY WFMin, NatLessThanWellFounded, Zenon
<1>2. \A k \in T : ~(k < m)
  BY <1>1, Zenon DEF OpToRel
<1> QED BY <1>2

LEMMA Induction ==
    ASSUME NEW n \in Nat, NEW S, 0 \in S,
           \A i \in 0..(n - 1) : i \in S => i + 1 \in S
    PROVE  \A i \in 0..n : i \in S
<1> DEFINE T == {i \in 0..n : i \notin S}
<1>1. SUFFICES ASSUME T # {} PROVE FALSE
  OBVIOUS
<1>2. PICK m \in T : \A k \in T : m <= k
  <2>1. T \in SUBSET Nat
    OBVIOUS
  <2> HIDE DEF T
  <2> QED BY <1>1, <2>1, LeastNumber
<1>3. m # 0 /\ m \in 0..n
  OBVIOUS
<1>4. m - 1 \in 0..(n - 1) /\ m - 1 \notin T
  BY <1>2, <1>3
<1>5. m - 1 \in S
  BY <1>4
<1>6. (m - 1) + 1 \in S
  BY <1>4, <1>5
<1> QED BY <1>3, <1>6

\* g starts at base and goes on by step.
Runs(g, n, base, step) == g[0] = base /\ \A i \in 1..n : g[i] = step[i][g[i - 1]]

LEMMA Recursion ==
    ASSUME NEW n \in Nat, NEW D, NEW base \in D, NEW step \in [1..n -> [D -> D]]
    PROVE  \E g \in [0..n -> D] : Runs(g, n, base, step)
<1> DEFINE Reach(k) == \E g \in [0..k -> D] :
                          g[0] = base /\ \A i \in 1..k : g[i] = step[i][g[i - 1]]
           S == {k \in 0..n : Reach(k)}
<1>1. 0 \in S
  <2> DEFINE g == [i \in 0..0 |-> base]
  <2>1. g \in [0..0 -> D] /\ g[0] = base /\ \A i \in 1..0 : g[i] = step[i][g[i - 1]]
    OBVIOUS
  <2>2. Reach(0)
    BY <2>1
  <2> QED BY <2>2
<1>2. ASSUME NEW k \in 0..(n - 1), k \in S PROVE k + 1 \in S
  <2>1. PICK g \in [0..k -> D] : g[0] = base /\ \A i \in 1..k : g[i] = step[i][g[i - 1]]
    BY <1>2
  <2> DEFINE h == [i \in 0..(k + 1) |-> IF i <= k THEN g[i] ELSE step[k + 1][g[k]]]
  <2>2. g[k] \in D /\ step[k + 1] \in [D -> D]
    BY <2>1
  <2>3. step[k + 1][g[k]] \in D
    BY <2>2
  <2>4. h \in [0..(k + 1) -> D]
    BY <2>1, <2>3
  <2>5. h[0] = base
    BY <2>1
  <2>6. ASSUME NEW i \in 1..(k + 1) PROVE h[i] = step[i][h[i - 1]]
    <3>1. h[i - 1] = g[i - 1]
      OBVIOUS
    <3>2. CASE i <= k
      <4>1. i \in 1..k /\ h[i] = g[i]
        BY <3>2
      <4> QED BY <2>1, <3>1, <4>1
    <3>3. CASE ~(i <= k)
      <4>1. i = k + 1 /\ h[i] = step[k + 1][g[k]] /\ i - 1 = k
        BY <3>3
      <4> QED BY <3>1, <4>1
    <3> QED BY <3>2, <3>3
  <2>7. Reach(k + 1)
    <3> HIDE DEF h
    <3> QED BY <2>4, <2>5, <2>6
  <2>8. k + 1 \in 0..n
    OBVIOUS
  <2> HIDE DEF Reach, h
  <2> QED BY <2>7, <2>8
<1>3. \A i \in 0..n : i \in S
  <2> HIDE DEF S
  <2> QED BY <1>1, <1>2, Induction
<1>4. Reach(n)
  BY <1>3
<1> QED BY <1>4 DEF Runs

---------------------------------------------------------------------------
(* Least and greatest elements *)

LEMMA MinOfTwo ==
    ASSUME NEW a \in Int, NEW b \in Int
    PROVE  Min({a, b}) = (IF a <= b THEN a ELSE b)
<1> DEFINE m == IF a <= b THEN a ELSE b
<1>1. m \in {a, b} /\ \A y \in {a, b} : m <= y
  OBVIOUS
<1>2. \A x \in {a, b} : (\A y \in {a, b} : x <= y) => x = m
  OBVIOUS
<1> HIDE DEF m
<1> QED BY <1>1, <1>2 DEF Min

LEMMA MaxOfTwo ==
    ASSUME NEW a \in Int, NEW b \in Int
    PROVE  Max({a, b}) = (IF a >= b THEN a ELSE b)
<1> DEFINE m == IF a >= b THEN a ELSE b
<1>1. m \in {a, b} /\ \A y \in {a, b} : m >= y
  OBVIOUS
<1>2. \A x \in {a, b} : (\A y \in {a, b} : x >= y) => x = m
  OBVIOUS
<1> HIDE DEF m
<1> QED BY <1>1, <1>2 DEF Max

LEMMA MinOfNumbers ==
    ASSUME NEW T \in SUBSET Nat, T # {}
    PROVE  Min(T) \in T /\ \A k \in T : Min(T) <= k
<1>1. \E m \in T : \A k \in T : m <= k
  BY LeastNumber
<1> QED BY <1>1 DEF Min

---------------------------------------------------------------------------
(* Frames in a sequence of buffers *)

LEMMA FramesFacts ==
    ASSUME NEW s \in Seq(Buffer)
    PROVE  /\ FramesOfFirst(s) \in [0..Len(s) -> Nat]
           /\ FramesOfFirst(s)[0] = 0
           /\ \A i \in 1..Len(s) :
                 FramesOfFirst(s)[i] = FramesOfFirst(s)[i - 1] + s[i].frames
<1> DEFINE n == Len(s)
           step == [i \in 1..n |-> [x \in Nat |-> x + s[i].frames]]
           IsSum(g) == g = [i \in 0..n |-> IF i = 0 THEN 0 ELSE g[i - 1] + s[i].frames]
<1>1. n \in Nat /\ \A i \in 1..n : s[i] \in Buffer /\ s[i].frames \in Nat
  <2>1. n \in Nat /\ \A i \in 1..n : s[i] \in Buffer
    OBVIOUS
  <2> QED BY <2>1 DEF Buffer
<1>2. step \in [1..n -> [Nat -> Nat]]
  BY <1>1
<1>3. PICK g \in [0..n -> Nat] : g[0] = 0 /\ \A i \in 1..n : g[i] = step[i][g[i - 1]]
  <2> DEFINE D == Nat
             zero == 0
  <2>1. n \in Nat /\ zero \in D /\ step \in [1..n -> [D -> D]]
    BY <1>1, <1>2
  <2> HIDE DEF n, step, D, zero
  <2>2. \E g \in [0..n -> D] : Runs(g, n, zero, step)
    BY <2>1, Recursion
  <2> QED BY <2>2 DEF D, zero, Runs
<1>4. \A i \in 1..n : g[i] = g[i - 1] + s[i].frames
  <2> SUFFICES ASSUME NEW i \in 1..n PROVE g[i] = g[i - 1] + s[i].frames
    OBVIOUS
  <2>1. g[i - 1] \in Nat
    <3>1. i - 1 \in 0..n
      BY <1>1
    <3> HIDE DEF n
    <3> QED BY <1>3, <3>1
  <2>2. step[i] = [x \in Nat |-> x + s[i].frames]
    OBVIOUS
  <2>3. g[i] = step[i][g[i - 1]]
    BY <1>3
  <2> HIDE DEF step, n
  <2> QED BY <2>1, <2>2, <2>3
<1>5. IsSum(g)
  BY <1>1, <1>3, <1>4
<1>6. IsSum(FramesOfFirst(s))
  BY <1>5, Zenon DEF FramesOfFirst
<1> DEFINE f == FramesOfFirst(s)
<1>7. f = [i \in 0..n |-> IF i = 0 THEN 0 ELSE f[i - 1] + s[i].frames]
  BY <1>6
<1> HIDE DEF f
<1>8. f[0] = 0 /\ \A i \in 1..n : f[i] = f[i - 1] + s[i].frames
  BY <1>1, <1>7
<1>9. \A i \in 0..n : i \in {k \in 0..n : f[k] \in Nat}
  <2> DEFINE S == {k \in 0..n : f[k] \in Nat}
  <2>1. 0 \in S
    BY <1>1, <1>8
  <2>2. \A i \in 0..(n - 1) : i \in S => i + 1 \in S
    <3> SUFFICES ASSUME NEW i \in 0..(n - 1), i \in S PROVE i + 1 \in S
      OBVIOUS
    <3>1. i + 1 \in 1..n /\ (i + 1) - 1 = i
      BY <1>1
    <3>2. f[i + 1] = f[i] + s[i + 1].frames
      BY <1>8, <3>1
    <3> QED BY <1>1, <3>1, <3>2
  <2> HIDE DEF S
  <2>3. \A i \in 0..n : i \in S
    BY <1>1, <2>1, <2>2, Induction
  <2> USE DEF S
  <2> QED BY <2>3
<1>10. f \in [0..n -> Nat]
  BY <1>7, <1>9
<1> QED BY <1>8, <1>10 DEF f

\* t agrees with the n buffers of s after the first m.
LEMMA FramesWithin ==
    ASSUME NEW s \in Seq(Buffer), NEW t \in Seq(Buffer), NEW m \in Nat, NEW n \in Nat,
           n <= Len(t), m + n <= Len(s), \A i \in 1..n : t[i] = s[m + i]
    PROVE  \A i \in 0..n :
              FramesOfFirst(t)[i] = FramesOfFirst(s)[m + i] - FramesOfFirst(s)[m]
<1> DEFINE f == FramesOfFirst(s)
           g == FramesOfFirst(t)
           S == {i \in 0..n : g[i] = f[m + i] - f[m]}
<1>0. Len(s) \in Nat /\ Len(t) \in Nat
  OBVIOUS
<1>1. /\ f \in [0..Len(s) -> Nat] /\ g \in [0..Len(t) -> Nat]
      /\ g[0] = 0
      /\ \A i \in 1..Len(s) : f[i] = f[i - 1] + s[i].frames
      /\ \A i \in 1..Len(t) : g[i] = g[i - 1] + t[i].frames
  BY FramesFacts
<1> HIDE DEF f, g
<1>2. 0 \in S
  <2>1. m \in 0..Len(s) /\ m + 0 = m
    BY <1>0
  <2>2. f[m] \in Nat /\ f[m + 0] - f[m] = 0
    BY <1>1, <2>1
  <2> QED BY <1>1, <2>2
<1>3. ASSUME NEW i \in 0..(n - 1), i \in S PROVE i + 1 \in S
  <2>1. i + 1 \in 1..n /\ i + 1 \in 1..Len(t) /\ m + (i + 1) \in 1..Len(s)
    BY <1>0
  <2>2. g[i + 1] = g[i] + t[i + 1].frames
    BY <1>1, <2>1
  <2>3. f[m + (i + 1)] = f[m + i] + s[m + (i + 1)].frames
    BY <1>1, <2>1
  <2>4. t[i + 1] = s[m + (i + 1)]
    BY <2>1
  <2>5. f[m] \in Nat /\ f[m + i] \in Nat /\ s[m + (i + 1)].frames \in Nat
    <3>1. m \in 0..Len(s) /\ m + i \in 0..Len(s)
      BY <1>0
    <3>2. s[m + (i + 1)] \in Buffer
      BY <2>1
    <3> QED BY <1>1, <3>1, <3>2 DEF Buffer
  <2>6. g[i] = f[m + i] - f[m]
    BY <1>3
  <2>7. g[i + 1] = f[m + (i + 1)] - f[m]
    <3>1. t[i + 1].frames = s[m + (i + 1)].frames
      BY <2>4
    <3> QED BY <2>2, <2>3, <2>5, <2>6, <3>1
  <2> QED BY <2>1, <2>7
<1> HIDE DEF S
<1>4. \A i \in 0..n : i \in S
  BY <1>2, <1>3, Induction
<1> QED BY <1>4 DEF S, f, g

LEMMA FramesGrow ==
    ASSUME NEW s \in Seq(Buffer), NEW i \in 0..Len(s), NEW j \in 0..Len(s), i <= j
    PROVE  FramesOfFirst(s)[i] <= FramesOfFirst(s)[j]
<1> DEFINE f == FramesOfFirst(s)
           n == Len(s) - i
           S == {k \in 0..n : f[i] <= f[i + k]}
<1>0. Len(s) \in Nat /\ n \in Nat
  OBVIOUS
<1>1. f \in [0..Len(s) -> Nat] /\ \A k \in 1..Len(s) : f[k] = f[k - 1] + s[k].frames
  BY FramesFacts
<1> HIDE DEF f
<1>2. 0 \in S
  BY <1>0, <1>1
<1>3. ASSUME NEW k \in 0..(n - 1), k \in S PROVE k + 1 \in S
  <2>1. i + (k + 1) \in 1..Len(s) /\ k + 1 \in 0..n
    BY <1>0
  <2>2. f[i + (k + 1)] = f[i + k] + s[i + (k + 1)].frames
    BY <1>1, <2>1
  <2>3. s[i + (k + 1)].frames \in Nat
    <3>1. s[i + (k + 1)] \in Buffer
      BY <2>1
    <3> QED BY <3>1 DEF Buffer
  <2>4. f[i] \in Nat /\ f[i + k] \in Nat /\ f[i] <= f[i + k]
    <3>1. i + k \in 0..Len(s)
      BY <1>0
    <3> QED BY <1>1, <1>3, <3>1
  <2> QED BY <2>1, <2>2, <2>3, <2>4
<1>4. \A k \in 0..n : k \in S
  <2> HIDE DEF S, n
  <2> QED BY <1>0, <1>2, <1>3, Induction
<1>5. j - i \in 0..n /\ i + (j - i) = j
  BY <1>0
<1> QED BY <1>4, <1>5 DEF f

---------------------------------------------------------------------------
(* The buffers that are kept, and the place of the new one *)

LEMMA KeptFacts ==
    ASSUME NEW q \in Seq(Buffer), NEW b \in Buffer
    PROVE  /\ KeptOf(q, b) \in [0..Len(q) -> Seq(Buffer)]
           /\ KeptOf(q, b)[0] = <<>>
           /\ \A i \in 1..Len(q) :
                 KeptOf(q, b)[i] = IF Overlap(q[i], b) < FrameTime
                                   THEN Append(KeptOf(q, b)[i - 1], q[i])
                                   ELSE KeptOf(q, b)[i - 1]
<1> DEFINE n == Len(q)
           D == Seq(Buffer)
           base == <<>>
           Keeps(i) == Overlap(q[i], b) < FrameTime
           step == [i \in 1..n |-> [x \in D |-> IF Keeps(i) THEN Append(x, q[i]) ELSE x]]
           IsKept(g) == g = [i \in 0..n |-> IF i = 0 THEN base
                                            ELSE IF Keeps(i) THEN Append(g[i - 1], q[i])
                                            ELSE g[i - 1]]
<1>1. n \in Nat /\ base \in D /\ \A i \in 1..n : q[i] \in Buffer
  OBVIOUS
<1>2. \A x \in D : \A i \in 1..n : Append(x, q[i]) \in D
  BY <1>1
<1>3. step \in [1..n -> [D -> D]]
  <2> HIDE DEF D, Keeps, n
  <2> QED BY <1>2
<1>4. PICK g \in [0..n -> D] : Runs(g, n, base, step)
  <2> HIDE DEF n, step, D, base
  <2> QED BY <1>1, <1>3, Recursion
<1>5. /\ g[0] = base
      /\ \A i \in 1..n : g[i] = IF Keeps(i) THEN Append(g[i - 1], q[i]) ELSE g[i - 1]
  <2> HIDE DEF D, Keeps, base
  <2>1. g[0] = base /\ \A i \in 1..n : g[i] = step[i][g[i - 1]]
    BY <1>4 DEF Runs
  <2>2. \A i \in 1..n : g[i - 1] \in D
    BY <1>1, <1>4
  <2> QED BY <2>1, <2>2
<1>6. IsKept(g)
  <2> HIDE DEF D, Keeps, base
  <2> DEFINE rhs == [i \in 0..n |-> IF i = 0 THEN base
                                    ELSE IF Keeps(i) THEN Append(g[i - 1], q[i])
                                    ELSE g[i - 1]]
  <2>1. rhs[0] = base
    BY <1>1
  <2>2. ASSUME NEW i \in 1..n PROVE rhs[i] = g[i]
    <3>1. i \in 0..n /\ i # 0
      BY <1>1
    <3>2. rhs[i] = IF Keeps(i) THEN Append(g[i - 1], q[i]) ELSE g[i - 1]
      BY <3>1
    <3> HIDE DEF rhs
    <3> QED BY <1>5, <3>2
  <2>3. DOMAIN rhs = 0..n /\ DOMAIN g = 0..n
    BY <1>4
  <2>4. rhs = [i \in 0..n |-> rhs[i]] /\ g = [i \in 0..n |-> g[i]]
    BY <1>4
  <2>5. rhs = g
    <3> HIDE DEF rhs
    <3>1. \A i \in 0..n : rhs[i] = g[i]
      BY <1>1, <1>5, <2>1, <2>2
    <3> QED BY <2>4, <3>1
  <2> QED BY <2>5
<1>7. IsKept(KeptOf(q, b))
  BY <1>6, Zenon DEF KeptOf
<1> DEFINE f == KeptOf(q, b)
<1>8. f = [i \in 0..n |-> IF i = 0 THEN base
                          ELSE IF Keeps(i) THEN Append(f[i - 1], q[i]) ELSE f[i - 1]]
  BY <1>7
<1> HIDE DEF f, Keeps, base
<1>9. /\ f[0] = base
      /\ \A i \in 1..n : f[i] = IF Keeps(i) THEN Append(f[i - 1], q[i]) ELSE f[i - 1]
  <2> DEFINE rhs == [i \in 0..n |-> IF i = 0 THEN base
                                    ELSE IF Keeps(i) THEN Append(f[i - 1], q[i])
                                    ELSE f[i - 1]]
  <2>1. rhs[0] = base
    BY <1>1
  <2>2. ASSUME NEW i \in 1..n
        PROVE  rhs[i] = IF Keeps(i) THEN Append(f[i - 1], q[i]) ELSE f[i - 1]
    <3>1. i \in 0..n /\ i # 0
      BY <1>1
    <3> QED BY <3>1
  <2>3. f = rhs
    BY <1>8
  <2> HIDE DEF rhs
  <2> QED BY <2>1, <2>2, <2>3
<1> DEFINE S == {k \in 0..n : f[k] \in D}
<1>10. \A i \in 0..n : i \in S
  <2> HIDE DEF D
  <2>1. 0 \in S
    BY <1>1, <1>9
  <2>2. ASSUME NEW i \in 0..(n - 1), i \in S PROVE i + 1 \in S
    <3>1. i + 1 \in 1..n /\ (i + 1) - 1 = i
      BY <1>1
    <3>2. f[i + 1] = IF Keeps(i + 1) THEN Append(f[i], q[i + 1]) ELSE f[i]
      BY <1>9, <3>1
    <3> QED BY <1>2, <2>2, <3>1, <3>2
  <2> HIDE DEF S
  <2> QED BY <1>1, <2>1, <2>2, Induction
<1>11. f \in [0..n -> D]
  <2> HIDE DEF D
  <2> QED BY <1>8, <1>10
<1> QED BY <1>9, <1>11 DEF f, Keeps, base

LEMMA RetainedBuffers ==
    ASSUME NEW q \in Seq(Buffer), NEW b \in Buffer
    PROVE  Retained(q, b) \in Seq(Buffer)
<1>1. Len(q) \in 0..Len(q)
  OBVIOUS
<1> QED BY <1>1, KeptFacts DEF Retained

\* Nothing is evicted by a buffer that covers none of the queue.
LEMMA RetainedAll ==
    ASSUME NEW q \in Seq(Buffer), NEW b \in Buffer,
           \A i \in DOMAIN q : Overlap(q[i], b) < FrameTime
    PROVE  Retained(q, b) = q
<1> DEFINE f == KeptOf(q, b)
           n == Len(q)
           Same(i) == f[i] \in Seq(Buffer) /\ Len(f[i]) = i /\ \A j \in 1..i : f[i][j] = q[j]
           S == {i \in 0..n : Same(i)}
<1>1. n \in Nat /\ DOMAIN q = 1..n
  OBVIOUS
<1>2. /\ f \in [0..n -> Seq(Buffer)] /\ f[0] = <<>>
      /\ \A i \in 1..n : f[i] = Append(f[i - 1], q[i])
  BY <1>1, KeptFacts
<1> HIDE DEF f
<1>3. 0 \in S
  <2>1. <<>> \in Seq(Buffer) /\ Len(<<>>) = 0 /\ 1..0 = {}
    OBVIOUS
  <2>2. Same(0)
    BY <1>2, <2>1
  <2> HIDE DEF Same
  <2> QED BY <1>1, <2>2
<1>4. ASSUME NEW i \in 0..(n - 1), i \in S PROVE i + 1 \in S
  <2>1. i + 1 \in 1..n /\ (i + 1) - 1 = i
    BY <1>1
  <2>2. f[i + 1] = Append(f[i], q[i + 1]) /\ q[i + 1] \in Buffer
    BY <1>2, <2>1
  <2>3. Same(i)
    BY <1>4
  <2>4. Same(i + 1)
    BY <2>2, <2>3
  <2> HIDE DEF Same
  <2> QED BY <2>1, <2>4
<1>5. \A i \in 0..n : i \in S
  <2> HIDE DEF S
  <2> QED BY <1>1, <1>3, <1>4, Induction
<1>6. Same(n)
  BY <1>1, <1>5
<1>7. f[n] = q
  BY <1>1, <1>6
<1> QED BY <1>7 DEF Retained, f

LEMMA InsertedFacts ==
    ASSUME NEW q \in Seq(Buffer), NEW b \in Buffer
    PROVE  /\ Inserted(q, b) \in Seq(Buffer)
           /\ Len(Inserted(q, b)) = Len(q) + 1
           /\ \E k \in 1..(Len(q) + 1) :
                 /\ Inserted(q, b)[k] = b
                 /\ \A i \in 1..(k - 1) : Inserted(q, b)[i] = q[i] /\ q[i].ts <= b.ts
                 /\ \A i \in (k + 1)..(Len(q) + 1) : Inserted(q, b)[i] = q[i - 1]
                 /\ k <= Len(q) => q[k].ts > b.ts
<1> DEFINE later == {i \in DOMAIN q : q[i].ts > b.ts}
           n == Len(q)
<1>1. n \in Nat /\ DOMAIN q = 1..n /\ b.ts \in Int /\ \A i \in 1..n : q[i].ts \in Int
  <2>1. n \in Nat /\ DOMAIN q = 1..n /\ \A i \in 1..n : q[i] \in Buffer
    OBVIOUS
  <2> QED BY <2>1 DEF Buffer
<1>2. CASE later = {}
  <2>1. Inserted(q, b) = Append(q, b)
    BY <1>2 DEF Inserted
  <2>2. \A i \in 1..n : q[i].ts <= b.ts
    BY <1>1, <1>2
  <2>3. n + 1 \in 1..(n + 1) /\ (n + 1) - 1 = n
    BY <1>1
  <2>4. /\ Append(q, b) \in Seq(Buffer) /\ Len(Append(q, b)) = n + 1
        /\ Append(q, b)[n + 1] = b
        /\ \A i \in 1..n : Append(q, b)[i] = q[i]
    OBVIOUS
  <2> QED BY <1>1, <2>1, <2>2, <2>3, <2>4
<1>3. CASE later # {}
  <2>1. PICK k \in later : k = Min(later) /\ \A i \in later : k <= i
    <3>1. later \in SUBSET Nat
      BY <1>1
    <3> HIDE DEF later
    <3> QED BY <1>3, <3>1, MinOfNumbers
  <2>2. k \in 1..n /\ q[k].ts > b.ts
    BY <1>1
  <2>3. \A i \in 1..(k - 1) : q[i].ts <= b.ts
    <3> SUFFICES ASSUME NEW i \in 1..(k - 1) PROVE q[i].ts <= b.ts
      OBVIOUS
    <3>1. i \in 1..n /\ i < k
      BY <2>2, <1>1
    <3>2. i \notin later
      <4>1. \A x \in later : k <= x
        BY <2>1
      <4>2. ~(k <= i)
        BY <1>1, <2>2, <3>1
      <4> HIDE DEF later
      <4> QED BY <4>1, <4>2
    <3> QED BY <1>1, <3>1, <3>2
  <2>4. Inserted(q, b) = InsertAt(q, k, b)
    BY <1>3, <2>1 DEF Inserted
  <2> DEFINE front == SubSeq(q, 1, k - 1)
             back  == SubSeq(q, k, n)
  <2>5. /\ front \in Seq(Buffer) /\ Len(front) = k - 1
        /\ \A i \in 1..(k - 1) : front[i] = q[i]
    BY <1>1, <2>2
  <2>6. /\ back \in Seq(Buffer) /\ Len(back) = n - k + 1
        /\ \A i \in 1..(n - k + 1) : back[i] = q[k + i - 1]
    BY <1>1, <2>2
  <2>7. Inserted(q, b) = (front \o <<b>>) \o back
    BY <2>4 DEF InsertAt
  <2> HIDE DEF front, back
  <2> DEFINE mid == front \o <<b>>
  <2>8. /\ mid \in Seq(Buffer) /\ Len(mid) = k /\ mid[k] = b
        /\ \A i \in 1..(k - 1) : mid[i] = q[i]
    BY <2>2, <2>5
  <2> HIDE DEF mid
  <2>9. Inserted(q, b) = mid \o back
    BY <2>7 DEF mid
  <2>10. /\ mid \o back \in Seq(Buffer) /\ Len(mid \o back) = n + 1
         /\ \A i \in 1..k : (mid \o back)[i] = mid[i]
         /\ \A i \in (k + 1)..(n + 1) : (mid \o back)[i] = back[i - k]
    <3>0. mid \in Seq(Buffer) /\ back \in Seq(Buffer)
      BY <2>6, <2>8
    <3>4. /\ mid \o back \in Seq(Buffer)
          /\ Len(mid \o back) = Len(mid) + Len(back)
          /\ \A i \in 1..(Len(mid) + Len(back)) :
                (mid \o back)[i] = IF i <= Len(mid) THEN mid[i] ELSE back[i - Len(mid)]
      BY <3>0, ConcatProperties
    <3>3. k + (n - k + 1) = n + 1 /\ k \in 1..n
      BY <1>1, <2>2
    <3>5. Len(mid) = k /\ Len(back) = n - k + 1
      BY <2>6, <2>8
    <3>1. mid \o back \in Seq(Buffer) /\ Len(mid \o back) = k + (n - k + 1)
      BY <3>4, <3>5
    <3>2. \A i \in 1..(k + (n - k + 1)) :
             (mid \o back)[i] = IF i <= k THEN mid[i] ELSE back[i - k]
      BY <3>4, <3>5
    <3> QED BY <1>1, <3>1, <3>2, <3>3
  <2>11. \A i \in (k + 1)..(n + 1) : (mid \o back)[i] = q[i - 1]
    <3> SUFFICES ASSUME NEW i \in (k + 1)..(n + 1) PROVE (mid \o back)[i] = q[i - 1]
      OBVIOUS
    <3>1. i - k \in 1..(n - k + 1) /\ k + (i - k) - 1 = i - 1
      BY <1>1, <2>2
    <3>2. back[i - k] = q[k + (i - k) - 1]
      BY <2>6, <3>1
    <3> QED BY <2>10, <3>1, <3>2
  <2>12. k \in 1..(n + 1) /\ k \in 1..k /\ \A i \in 1..(k - 1) : i \in 1..k
    BY <1>1, <2>2
  <2> QED BY <1>1, <2>2, <2>3, <2>8, <2>9, <2>10, <2>11, <2>12
<1> QED BY <1>2, <1>3

---------------------------------------------------------------------------
(* Durations and overlaps *)

LEMMA Division ==
    ASSUME NEW b \in Int, NEW n \in Nat \ {0}
    PROVE  /\ b \div n \in Int /\ b % n \in 0..(n - 1)
           /\ b = n * (b \div n) + (b % n)
           /\ b >= 0 => b \div n \in Nat
           /\ n * (b \div n) \in Int
  OBVIOUS

LEMMA Product ==
    ASSUME NEW a \in Nat, NEW b \in Nat
    PROVE  a * b \in Nat
  OBVIOUS

LEMMA RateFacts == Rate \in Nat \ {0} /\ Second \in Nat \ {0} /\ Rate \div 2 \in Nat
  BY QueueAssumption

LEMMA DurationFacts ==
    ASSUME NEW n \in Nat
    PROVE  /\ Duration(n) \in Nat
           /\ Rate * Duration(n) \in Int /\ n * Second \in Nat
           /\ Rate * Duration(n) <= n * Second + Rate \div 2
           /\ n * Second + Rate \div 2 < Rate * Duration(n) + Rate
<1>1. n * Second \in Nat /\ Rate \div 2 \in Nat /\ Rate \in Nat \ {0}
  BY Product, RateFacts
<1> DEFINE b == n * Second + Rate \div 2
<1>2. b \in Nat /\ Duration(n) = b \div Rate
  BY <1>1 DEF Duration
<1> HIDE DEF b
<1>5. b \in Int /\ b >= 0 /\ Rate \in Nat \ {0}
  BY <1>1, <1>2
<1>3. /\ b \div Rate \in Nat /\ b % Rate \in 0..(Rate - 1)
      /\ b = Rate * (b \div Rate) + (b % Rate)
      /\ Rate * (b \div Rate) \in Int
  BY <1>5, Division
<1>4. Rate * (b \div Rate) <= b /\ b < Rate * (b \div Rate) + Rate
  BY <1>1, <1>2, <1>3
<1> QED BY <1>1, <1>2, <1>3, <1>4 DEF b

LEMMA BufferFacts ==
    ASSUME NEW b \in Buffer
    PROVE  b.ts \in Int /\ b.frames \in Nat /\ EndOf(b) \in Int /\ EndOf(b) >= b.ts
<1>1. b.ts \in Int /\ b.frames \in Nat
  BY DEF Buffer
<1>2. Duration(b.frames) \in Nat
  BY <1>1, DurationFacts
<1> QED BY <1>1, <1>2 DEF EndOf

LEMMA OverlapFacts ==
    ASSUME NEW a \in Buffer, NEW b \in Buffer
    PROVE  /\ Overlap(a, b) = Overlap(b, a)
           /\ Overlap(a, b) \in Int
           /\ Overlap(a, b) = (IF EndOf(a) <= EndOf(b) THEN EndOf(a) ELSE EndOf(b))
                              - (IF a.ts >= b.ts THEN a.ts ELSE b.ts)
<1>1. EndOf(a) \in Int /\ EndOf(b) \in Int /\ a.ts \in Int /\ b.ts \in Int
  BY BufferFacts
<1>2. /\ Min({EndOf(a), EndOf(b)}) = (IF EndOf(a) <= EndOf(b) THEN EndOf(a) ELSE EndOf(b))
      /\ Max({a.ts, b.ts}) = (IF a.ts >= b.ts THEN a.ts ELSE b.ts)
  BY <1>1, MinOfTwo, MaxOfTwo
<1>3. {EndOf(a), EndOf(b)} = {EndOf(b), EndOf(a)} /\ {a.ts, b.ts} = {b.ts, a.ts}
  OBVIOUS
<1>4. Overlap(a, b) = Overlap(b, a)
  BY <1>3 DEF Overlap
<1>5. Overlap(a, b) = Min({EndOf(a), EndOf(b)}) - Max({a.ts, b.ts})
  BY DEF Overlap
<1> QED BY <1>1, <1>2, <1>4, <1>5

---------------------------------------------------------------------------
(* One time line *)

Follows(a, b) == a.ts <= b.ts /\ Overlap(a, b) < FrameTime

Ordered(q) == \A i, j \in DOMAIN q : i < j => Follows(q[i], q[j])

LEMMA RetainedOrdered ==
    ASSUME NEW q \in Seq(Buffer), NEW b \in Buffer, Ordered(q)
    PROVE  /\ Ordered(Retained(q, b))
           /\ \A i \in DOMAIN Retained(q, b) : Overlap(Retained(q, b)[i], b) < FrameTime
<1> DEFINE f == KeptOf(q, b)
           n == Len(q)
           From(i) == \A x \in 1..Len(f[i]) :
                         /\ \E j \in 1..i : f[i][x] = q[j]
                         /\ Overlap(f[i][x], b) < FrameTime
           InOrder(i) == \A x, y \in 1..Len(f[i]) : x < y => Follows(f[i][x], f[i][y])
           S == {i \in 0..n : From(i) /\ InOrder(i)}
<1>1. n \in Nat /\ DOMAIN q = 1..n
  OBVIOUS
<1>2. /\ f \in [0..n -> Seq(Buffer)] /\ f[0] = <<>>
      /\ \A i \in 1..n : f[i] = IF Overlap(q[i], b) < FrameTime
                                THEN Append(f[i - 1], q[i]) ELSE f[i - 1]
  BY KeptFacts
<1> HIDE DEF f
<1>3. 0 \in S
  <2>1. Len(f[0]) = 0
    BY <1>2
  <2>2. From(0) /\ InOrder(0)
    BY <2>1
  <2> HIDE DEF From, InOrder
  <2> QED BY <1>1, <2>2
<1>4. ASSUME NEW i \in 0..(n - 1), i \in S PROVE i + 1 \in S
  <2>1. i + 1 \in 1..n /\ i + 1 \in 0..n /\ (i + 1) - 1 = i
    BY <1>1
  <2>2. f[i + 1] = IF Overlap(q[i + 1], b) < FrameTime THEN Append(f[i], q[i + 1]) ELSE f[i]
    BY <1>2, <2>1
  <2>3. From(i) /\ InOrder(i) /\ f[i] \in Seq(Buffer)
    BY <1>1, <1>2, <1>4
  <2>4. CASE ~(Overlap(q[i + 1], b) < FrameTime)
    <3>1. f[i + 1] = f[i]
      BY <2>2, <2>4
    <3>2. From(i + 1)
      <4>1. \A j \in 1..i : j \in 1..(i + 1)
        BY <2>1
      <4> QED BY <2>3, <3>1, <4>1
    <3>3. InOrder(i + 1)
      BY <2>3, <3>1
    <3> HIDE DEF From, InOrder
    <3> QED BY <2>1, <3>2, <3>3
  <2>5. CASE Overlap(q[i + 1], b) < FrameTime
    <3> DEFINE L == Len(f[i])
    <3>1. f[i + 1] = Append(f[i], q[i + 1]) /\ q[i + 1] \in Buffer /\ L \in Nat
      BY <2>1, <2>2, <2>3, <2>5
    <3>2. /\ Len(f[i + 1]) = L + 1
          /\ f[i + 1][L + 1] = q[i + 1]
          /\ \A x \in 1..L : f[i + 1][x] = f[i][x]
      BY <2>3, <3>1
    <3>3. ASSUME NEW x \in 1..(L + 1)
          PROVE  /\ \E j \in 1..(i + 1) : f[i + 1][x] = q[j]
                 /\ Overlap(f[i + 1][x], b) < FrameTime
      <4>1. CASE x = L + 1
        <5>1. f[i + 1][x] = q[i + 1] /\ i + 1 \in 1..(i + 1)
          BY <2>1, <3>2, <4>1
        <5> QED BY <2>5, <5>1
      <4>2. CASE x # L + 1
        <5>1. x \in 1..L /\ f[i + 1][x] = f[i][x]
          BY <3>1, <3>2, <4>2
        <5>2. PICK j \in 1..i : f[i][x] = q[j]
          BY <2>3, <5>1
        <5>3. j \in 1..(i + 1) /\ Overlap(f[i][x], b) < FrameTime
          BY <2>1, <2>3, <5>1
        <5> QED BY <5>1, <5>2, <5>3
      <4> QED BY <4>1, <4>2
    <3>4. ASSUME NEW x \in 1..(L + 1), NEW y \in 1..(L + 1), x < y
          PROVE  Follows(f[i + 1][x], f[i + 1][y])
      <4>1. x \in 1..L /\ f[i + 1][x] = f[i][x]
        BY <3>1, <3>2, <3>4
      <4>2. CASE y = L + 1
        <5>1. PICK j \in 1..i : f[i][x] = q[j]
          BY <2>3, <4>1
        <5>2. j \in DOMAIN q /\ i + 1 \in DOMAIN q /\ j < i + 1
          BY <1>1, <2>1
        <5>3. Follows(q[j], q[i + 1])
          BY <5>2 DEF Ordered
        <5> QED BY <3>2, <4>1, <4>2, <5>1, <5>3
      <4>3. CASE y # L + 1
        <5>1. y \in 1..L /\ f[i + 1][y] = f[i][y]
          BY <3>1, <3>2, <4>3
        <5> QED BY <2>3, <3>4, <4>1, <5>1
      <4> QED BY <4>2, <4>3
    <3>5. From(i + 1)
      BY <3>2, <3>3
    <3>6. InOrder(i + 1)
      BY <3>2, <3>4
    <3> HIDE DEF From, InOrder
    <3> QED BY <2>1, <3>5, <3>6
  <2> QED BY <2>4, <2>5
<1>5. \A i \in 0..n : i \in S
  <2> HIDE DEF S
  <2> QED BY <1>1, <1>3, <1>4, Induction
<1>6. From(n) /\ InOrder(n) /\ f[n] \in Seq(Buffer)
  <2>1. n \in 0..n /\ n \in S
    BY <1>1, <1>5
  <2>2. From(n) /\ InOrder(n)
    BY <2>1
  <2> HIDE DEF From, InOrder
  <2> QED BY <1>2, <2>1, <2>2
<1>7. Retained(q, b) = f[n] /\ DOMAIN f[n] = 1..Len(f[n])
  BY <1>6 DEF Retained, f
<1> QED BY <1>6, <1>7 DEF Ordered

LEMMA InsertedOrdered ==
    ASSUME NEW q \in Seq(Buffer), NEW b \in Buffer, Ordered(q),
           \A i \in DOMAIN q : Overlap(q[i], b) < FrameTime
    PROVE  Ordered(Inserted(q, b))
<1> DEFINE n == Len(q)
           r == Inserted(q, b)
<1>1. n \in Nat /\ DOMAIN q = 1..n /\ b.ts \in Int /\ \A i \in 1..n : q[i] \in Buffer
  BY BufferFacts
<1>2. r \in Seq(Buffer) /\ Len(r) = n + 1
  BY InsertedFacts
<1>3. PICK k \in 1..(n + 1) :
         /\ r[k] = b
         /\ \A i \in 1..(k - 1) : r[i] = q[i] /\ q[i].ts <= b.ts
         /\ \A i \in (k + 1)..(n + 1) : r[i] = q[i - 1]
         /\ k <= n => q[k].ts > b.ts
  BY InsertedFacts
<1> HIDE DEF r
<1>4. DOMAIN r = 1..(n + 1)
  BY <1>2
<1>5. ASSUME NEW i \in 1..n, i >= k PROVE b.ts <= q[i].ts
  <2>1. k \in 1..n /\ q[k].ts > b.ts
    BY <1>1, <1>3, <1>5
  <2>2. q[k].ts \in Int /\ q[i].ts \in Int
    BY <1>1, <2>1, BufferFacts
  <2>3. q[k].ts <= q[i].ts
    <3>1. CASE i = k
      BY <2>2, <3>1
    <3>2. CASE i # k
      <4>1. k < i
        BY <1>5, <2>1, <3>2
      <4> QED BY <1>1, <2>1, <4>1 DEF Ordered, Follows
    <3> QED BY <3>1, <3>2
  <2> QED BY <1>1, <2>1, <2>2, <2>3
<1>6. \A i \in 1..n : Overlap(q[i], b) < FrameTime /\ Overlap(b, q[i]) < FrameTime
  BY <1>1, OverlapFacts
<1>7. ASSUME NEW i \in 1..(n + 1), NEW j \in 1..(n + 1), i < j
      PROVE  Follows(r[i], r[j])
  <2>1. CASE j < k
    <3>1. r[i] = q[i] /\ r[j] = q[j] /\ i \in 1..n /\ j \in 1..n
      BY <1>1, <1>3, <1>7, <2>1
    <3> QED BY <1>1, <1>7, <3>1 DEF Ordered
  <2>2. CASE j = k
    <3>1. r[i] = q[i] /\ r[j] = b /\ i \in 1..n /\ q[i].ts <= b.ts
      BY <1>1, <1>3, <1>7, <2>2
    <3> QED BY <1>6, <3>1 DEF Follows
  <2>3. CASE k < j /\ i = k
    <3>1. r[i] = b /\ r[j] = q[j - 1] /\ j - 1 \in 1..n /\ j - 1 >= k
      BY <1>1, <1>3, <2>3
    <3>2. b.ts <= q[j - 1].ts /\ Overlap(b, q[j - 1]) < FrameTime
      BY <1>5, <1>6, <3>1
    <3> QED BY <3>1, <3>2 DEF Follows
  <2>4. CASE k < j /\ i < k
    <3>1. r[i] = q[i] /\ r[j] = q[j - 1] /\ i \in 1..n /\ j - 1 \in 1..n /\ i < j - 1
      BY <1>1, <1>3, <2>4
    <3> QED BY <1>1, <3>1 DEF Ordered
  <2>5. CASE k < i
    <3>1. /\ r[i] = q[i - 1] /\ r[j] = q[j - 1] /\ i - 1 \in 1..n /\ j - 1 \in 1..n
          /\ i - 1 < j - 1
      BY <1>1, <1>3, <1>7, <2>5
    <3> QED BY <1>1, <3>1 DEF Ordered
  <2> QED BY <1>3, <2>1, <2>2, <2>3, <2>4, <2>5
<1> QED BY <1>4, <1>7 DEF Ordered, r

LEMMA PushedOrdered ==
    ASSUME NEW q \in Seq(Buffer), NEW b \in Buffer, Ordered(q)
    PROVE  Ordered(Inserted(Retained(q, b), b))
BY RetainedBuffers, RetainedOrdered, InsertedOrdered

---------------------------------------------------------------------------
(* What the operations do to the queue *)

QueueType ==
    [queue : Seq(Buffer), current : Buffer, index : Nat, cursor : Int,
     remainder : 0..(Rate - 1), initialized : BOOLEAN, generation : Nat,
     force : BOOLEAN]

GoodQueue(p) ==
    /\ p \in QueueType
    /\ p.index <= p.current.frames
    /\ ~p.initialized => p.queue = <<>> /\ p.current = NoBuffer
    /\ Ordered(p.queue)

LEMMA NoBufferFacts == NoBuffer \in Buffer /\ NoBuffer.frames = 0
  BY DEF NoBuffer, Buffer

LEMMA OrderedEmpty == Ordered(<<>>)
  BY DEF Ordered

LEMMA OrderedPart ==
    ASSUME NEW q \in Seq(Buffer), Ordered(q), NEW k \in 1..Len(q)
    PROVE  /\ SubSeq(q, k + 1, Len(q)) \in Seq(Buffer)
           /\ Len(SubSeq(q, k + 1, Len(q))) = Len(q) - k
           /\ \A i \in 1..(Len(q) - k) : SubSeq(q, k + 1, Len(q))[i] = q[k + i]
           /\ Ordered(SubSeq(q, k + 1, Len(q)))
<1> DEFINE n == Len(q)
           r == SubSeq(q, k + 1, n)
<1>1. n \in Nat /\ DOMAIN q = 1..n
  OBVIOUS
<1>2. r \in Seq(Buffer) /\ Len(r) = n - k /\ \A i \in 1..(n - k) : r[i] = q[k + i]
  <2>1. k + 1 \in Int /\ n \in Int /\ \A i \in (k + 1)..n : q[i] \in Buffer
    BY <1>1
  <2>2. /\ r \in Seq(Buffer)
        /\ Len(r) = (IF k + 1 <= n THEN n - (k + 1) + 1 ELSE 0)
        /\ \A i \in 1..(n - (k + 1) + 1) : r[i] = q[(k + 1) + i - 1]
    <3> HIDE DEF n
    <3> QED BY <2>1, SubSeqProperties
  <2>3. n - (k + 1) + 1 = n - k /\ \A i \in 1..(n - k) : (k + 1) + i - 1 = k + i
    BY <1>1
  <2> HIDE DEF r
  <2>4. Len(r) = n - k
    <3>1. n \in Nat /\ k \in 1..n
      BY <1>1
    <3>2. Len(r) = (IF k + 1 <= n THEN n - (k + 1) + 1 ELSE 0)
      BY <2>2
    <3> HIDE DEF n
    <3>3. (IF k + 1 <= n THEN n - (k + 1) + 1 ELSE 0) = n - k
      BY <3>1
    <3> QED BY <3>2, <3>3
  <2> QED BY <2>2, <2>3, <2>4
<1> HIDE DEF r
<1>3. DOMAIN r = 1..(n - k)
  BY <1>2
<1>4. Ordered(r)
  <2> SUFFICES ASSUME NEW i \in 1..(n - k), NEW j \in 1..(n - k), i < j
               PROVE  Follows(r[i], r[j])
    BY <1>3 DEF Ordered
  <2>1. k + i \in DOMAIN q /\ k + j \in DOMAIN q /\ k + i < k + j
    BY <1>1
  <2> QED BY <1>2, <2>1 DEF Ordered
<1> QED BY <1>2, <1>4 DEF r

LEMMA FreshGood ==
    ASSUME NEW g \in Nat
    PROVE  /\ GoodQueue(Fresh(g))
           /\ Fresh(g).queue = <<>> /\ Fresh(g).current = NoBuffer /\ Fresh(g).index = 0
           /\ Fresh(g).cursor = 0 /\ Fresh(g).remainder = 0 /\ ~Fresh(g).initialized
           /\ Fresh(g).generation = g /\ Fresh(g).force
<1>1. 0 \in 0..(Rate - 1)
  BY QueueAssumption
<1>2. Fresh(g) \in QueueType
  BY <1>1, NoBufferFacts DEF Fresh, QueueType
<1> QED BY <1>2, NoBufferFacts, OrderedEmpty DEF Fresh, GoodQueue

LEMMA PushedGood ==
    ASSUME NEW p, GoodQueue(p), NEW b \in Buffer
    PROVE  /\ GoodQueue(Pushed(p, b))
           /\ Pushed(p, b).queue = Inserted(Retained(p.queue, b), b)
           /\ Pushed(p, b).current = p.current /\ Pushed(p, b).index = p.index
           /\ Pushed(p, b).cursor = (IF p.initialized THEN p.cursor ELSE b.ts)
           /\ Pushed(p, b).remainder = (IF p.initialized THEN p.remainder ELSE 0)
           /\ Pushed(p, b).initialized
           /\ Pushed(p, b).generation = p.generation /\ Pushed(p, b).force = p.force
<1> DEFINE new == Inserted(Retained(p.queue, b), b)
<1>1. p \in QueueType /\ p.queue \in Seq(Buffer) /\ Ordered(p.queue)
  BY DEF GoodQueue, QueueType
<1>2. new \in Seq(Buffer) /\ Ordered(new)
  <2>1. Retained(p.queue, b) \in Seq(Buffer)
    BY <1>1, RetainedBuffers
  <2> QED BY <1>1, <2>1, InsertedFacts, PushedOrdered
<1>3. b.ts \in Int /\ 0 \in 0..(Rate - 1)
  BY BufferFacts, QueueAssumption
<1> HIDE DEF new
<1>4. Pushed(p, b) =
         [queue |-> new, current |-> p.current, index |-> p.index,
          cursor |-> IF p.initialized THEN p.cursor ELSE b.ts,
          remainder |-> IF p.initialized THEN p.remainder ELSE 0,
          initialized |-> TRUE, generation |-> p.generation, force |-> p.force]
  <2>1. DOMAIN p = {"queue", "current", "index", "cursor", "remainder", "initialized",
                    "generation", "force"}
        /\ p = [x \in DOMAIN p |-> p[x]]
    BY <1>1 DEF QueueType
  <2> DEFINE cursor == IF p.initialized THEN p.cursor ELSE b.ts
             remainder == IF p.initialized THEN p.remainder ELSE 0
  <2>2. Pushed(p, b) = [p EXCEPT !.cursor = cursor, !.remainder = remainder,
                                 !.initialized = TRUE, !.queue = new]
    BY DEF Pushed, new
  <2> HIDE DEF cursor, remainder
  <2>3. Pushed(p, b) =
         [queue |-> new, current |-> p.current, index |-> p.index,
          cursor |-> cursor, remainder |-> remainder,
          initialized |-> TRUE, generation |-> p.generation, force |-> p.force]
    BY <2>1, <2>2
  <2> QED BY <2>3 DEF cursor, remainder
<1>5. Pushed(p, b) \in QueueType
  <2>1. /\ p.current \in Buffer /\ p.index \in Nat /\ p.cursor \in Int
        /\ p.remainder \in 0..(Rate - 1)
        /\ p.generation \in Nat /\ p.force \in BOOLEAN
    BY <1>1 DEF QueueType
  <2> QED BY <1>2, <1>3, <1>4, <2>1 DEF QueueType
<1> QED BY <1>2, <1>4, <1>5 DEF GoodQueue, new

LEMMA SkipFacts ==
    ASSUME NEW p, GoodQueue(p), NEW b \in Buffer
    PROVE  /\ Skip(p, b) \in 0..b.frames
           /\ p.initialized /\ Skip(p, b) < b.frames =>
                 b.ts * Rate + (Skip(p, b) + 1) * Second > p.cursor * Rate
           /\ b.ts >= p.cursor => Skip(p, b) = 0
<1>1. p.cursor \in Int /\ b.ts \in Int /\ b.frames \in Nat
  BY BufferFacts DEF GoodQueue, QueueType
<1>2. CASE p.initialized /\ b.ts < p.cursor
  <2> DEFINE x == (p.cursor - b.ts) * Rate
             k == x \div Second
  <2>1. x \in Nat /\ x = p.cursor * Rate - b.ts * Rate
        /\ p.cursor * Rate \in Int /\ b.ts * Rate \in Int
    <3>1. p.cursor - b.ts \in Nat /\ Rate \in Nat
      BY <1>1, <1>2, RateFacts
    <3>2. x \in Nat
      BY <3>1, Product
    <3> QED BY <1>1, <3>1, <3>2
  <2> HIDE DEF x
  <2>2. x \in Int /\ x >= 0 /\ Second \in Nat \ {0}
    BY <2>1, RateFacts
  <2>3. k \in Nat /\ x % Second \in 0..(Second - 1) /\ x = Second * k + (x % Second)
        /\ Second * k \in Int
    BY <2>2, Division
  <2> HIDE DEF k
  <2>4. Skip(p, b) = (IF k <= b.frames THEN k ELSE b.frames)
    <3>1. Skip(p, b) = Min({k, b.frames})
      BY <1>2 DEF Skip, k, x
    <3> QED BY <1>1, <2>3, <3>1, MinOfTwo
  <2>5. ASSUME Skip(p, b) < b.frames
        PROVE  b.ts * Rate + (Skip(p, b) + 1) * Second > p.cursor * Rate
    <3>1. Skip(p, b) = k
      BY <1>1, <2>3, <2>4, <2>5
    <3>2. (k + 1) * Second = Second * k + Second
      BY <2>2, <2>3
    <3>3. x < (k + 1) * Second
      BY <2>2, <2>3, <3>2
    <3>4. (k + 1) * Second \in Int
      BY <2>2, <2>3, <3>2
    <3> QED BY <2>1, <3>1, <3>3, <3>4
  <2>6. Skip(p, b) \in 0..b.frames
    BY <1>1, <2>3, <2>4
  <2> QED BY <1>1, <1>2, <2>5, <2>6
<1>3. CASE ~(p.initialized /\ b.ts < p.cursor)
  <2>1. Skip(p, b) = 0
    BY <1>3 DEF Skip
  <2>2. ASSUME p.initialized PROVE b.ts * Rate + (0 + 1) * Second > p.cursor * Rate
    <3>1. p.cursor <= b.ts /\ Rate \in Nat /\ Second \in Nat \ {0}
      BY <1>1, <1>3, <2>2, RateFacts
    <3>2. b.ts - p.cursor \in Nat
      BY <1>1, <3>1
    <3>3. (b.ts - p.cursor) * Rate \in Nat
      BY <3>1, <3>2, Product
    <3>4. (b.ts - p.cursor) * Rate = b.ts * Rate - p.cursor * Rate
          /\ b.ts * Rate \in Int /\ p.cursor * Rate \in Int
      BY <1>1, <3>1
    <3> QED BY <3>1, <3>3, <3>4
  <2> QED BY <1>1, <2>1, <2>2
<1> QED BY <1>2, <1>3

\* Everything but the buffers and the place in them.
SameCursor(p, r) ==
    /\ r.cursor = p.cursor /\ r.remainder = p.remainder
    /\ r.initialized = p.initialized /\ r.generation = p.generation /\ r.force = p.force

\* Everything but whether a handoff is asked for.
SameBuffers(p, r) ==
    /\ r.queue = p.queue /\ r.current = p.current /\ r.index = p.index
    /\ r.cursor = p.cursor /\ r.remainder = p.remainder
    /\ r.initialized = p.initialized /\ r.generation = p.generation

LEMMA TakenGood ==
    ASSUME NEW p, GoodQueue(p)
    PROVE  /\ GoodQueue(Taken(p))
           /\ SameCursor(p, Taken(p))
           /\ \/ /\ Taken(p).queue = <<>> /\ Taken(p).current = NoBuffer /\ Taken(p).index = 0
                 /\ \A i \in DOMAIN p.queue :
                       i \in Stale(p) \/ ~(Skip(p, p.queue[i]) < p.queue[i].frames)
              \/ \E k \in 1..Len(p.queue) :
                    /\ Taken(p).queue = SubSeq(p.queue, k + 1, Len(p.queue))
                    /\ Taken(p).current = p.queue[k]
                    /\ Taken(p).index = Skip(p, p.queue[k])
                    /\ Skip(p, p.queue[k]) < p.queue[k].frames
                    /\ \A i \in 1..(k - 1) :
                          i \in Stale(p) \/ ~(Skip(p, p.queue[i]) < p.queue[i].frames)
<1> DEFINE q == p.queue
           good == {i \in DOMAIN q \ Stale(p) : Skip(p, q[i]) < q[i].frames}
           n == Len(q)
<1>1. /\ q \in Seq(Buffer) /\ Ordered(q) /\ n \in Nat /\ DOMAIN q = 1..n
      /\ p \in QueueType
      /\ p.current \in Buffer /\ p.index \in Nat /\ p.cursor \in Int
      /\ p.remainder \in 0..(Rate - 1) /\ p.initialized \in BOOLEAN
      /\ p.generation \in Nat /\ p.force \in BOOLEAN
  BY DEF GoodQueue, QueueType
<1>2. p = [queue |-> q, current |-> p.current, index |-> p.index, cursor |-> p.cursor,
           remainder |-> p.remainder, initialized |-> p.initialized,
           generation |-> p.generation, force |-> p.force]
  BY <1>1 DEF QueueType
<1>3. CASE good = {}
  <2>1. Taken(p) = [p EXCEPT !.queue = <<>>, !.current = NoBuffer, !.index = 0]
    BY <1>3 DEF Taken
  <2>2. Taken(p) = [queue |-> <<>>, current |-> NoBuffer, index |-> 0, cursor |-> p.cursor,
                    remainder |-> p.remainder, initialized |-> p.initialized,
                    generation |-> p.generation, force |-> p.force]
    <3> HIDE DEF q
    <3> QED BY <1>2, <2>1
  <2>3. Taken(p) \in QueueType
    BY <1>1, <2>2, NoBufferFacts DEF QueueType
  <2>4. GoodQueue(Taken(p))
    BY <2>2, <2>3, NoBufferFacts, OrderedEmpty DEF GoodQueue
  <2>5. \A i \in DOMAIN q : i \in Stale(p) \/ ~(Skip(p, q[i]) < q[i].frames)
    BY <1>3
  <2>6. SameCursor(p, Taken(p))
    BY <2>2 DEF SameCursor
  <2> QED BY <2>2, <2>4, <2>5, <2>6
<1>4. CASE good # {}
  <2> DEFINE k == Min(good)
  <2>1. k \in good /\ \A i \in good : k <= i
    <3>1. good \in SUBSET Nat
      BY <1>1
    <3> HIDE DEF good
    <3> QED BY <1>4, <3>1, MinOfNumbers
  <2>2. k \in 1..n /\ Skip(p, q[k]) < q[k].frames
    BY <1>1, <2>1
  <2>3. \A i \in 1..(k - 1) : i \in Stale(p) \/ ~(Skip(p, q[i]) < q[i].frames)
    <3> SUFFICES ASSUME NEW i \in 1..(k - 1)
                 PROVE  i \in Stale(p) \/ ~(Skip(p, q[i]) < q[i].frames)
      OBVIOUS
    <3>1. i \in DOMAIN q /\ ~(k <= i)
      BY <1>1, <2>2
    <3>2. i \notin good
      <4> HIDE DEF good
      <4> QED BY <2>1, <3>1
    <3> QED BY <3>1, <3>2
  <2>4. p.initialized
    <3>1. n # 0
      BY <1>1, <2>2
    <3> QED BY <3>1 DEF GoodQueue
  <2>5. Taken(p) = [p EXCEPT !.queue       = SubSeq(q, k + 1, Len(q)),
                             !.current     = q[k],
                             !.index       = Skip(p, q[k]),
                             !.cursor      = IF p.initialized THEN @ ELSE q[k].ts,
                             !.remainder   = IF p.initialized THEN @ ELSE 0,
                             !.initialized = TRUE]
    BY <1>4 DEF Taken
  <2> HIDE DEF k, good
  <2> DEFINE rest == SubSeq(q, k + 1, Len(q))
             skip == Skip(p, q[k])
             buf == q[k]
  <2>6. Taken(p) = [p EXCEPT !.queue = rest, !.current = buf, !.index = skip,
                             !.cursor = p.cursor, !.remainder = p.remainder,
                             !.initialized = TRUE]
    BY <2>4, <2>5
  <2> HIDE DEF rest, skip, buf
  <2>7. Taken(p) = [queue |-> rest, current |-> buf, index |-> skip, cursor |-> p.cursor,
                    remainder |-> p.remainder, initialized |-> p.initialized,
                    generation |-> p.generation, force |-> p.force]
    <3> HIDE DEF q
    <3>1. p.initialized = TRUE
      BY <1>1, <2>4
    <3> QED BY <1>2, <2>6, <3>1
  <2>8. rest \in Seq(Buffer) /\ Ordered(rest)
    BY <1>1, <2>2, OrderedPart DEF rest
  <2>9. buf \in Buffer
    BY <1>1, <2>2 DEF buf
  <2>10. skip \in 0..buf.frames /\ buf.frames \in Nat
    BY <2>9, SkipFacts, BufferFacts DEF skip, buf
  <2>11. Taken(p) \in QueueType
    BY <1>1, <2>7, <2>8, <2>9, <2>10 DEF QueueType
  <2>12. GoodQueue(Taken(p))
    BY <2>4, <2>7, <2>8, <2>10, <2>11 DEF GoodQueue
  <2>13. SameCursor(p, Taken(p))
    BY <2>7 DEF SameCursor
  <2>14. /\ Taken(p).queue = SubSeq(q, k + 1, Len(q)) /\ Taken(p).current = q[k]
         /\ Taken(p).index = Skip(p, q[k])
    <3>1. Taken(p).queue = rest /\ Taken(p).current = buf /\ Taken(p).index = skip
      BY <2>7
    <3> QED BY <3>1, Zenon DEF rest, buf, skip
  <2> QED BY <2>2, <2>3, <2>12, <2>13, <2>14
<1> QED BY <1>3, <1>4

LEMMA ReadyGood ==
    ASSUME NEW p, GoodQueue(p)
    PROVE  /\ GoodQueue(Ready(p))
           /\ SameCursor(p, Ready(p))
           /\ ~NeedsBuffer(Ready(p)) /\ NeedsBuffer(p) =>
                 /\ Ready(p).current \in Buffer
                 /\ Ready(p).index = Skip(p, Ready(p).current)
                 /\ Ready(p).index < Ready(p).current.frames
                 /\ p.initialized
<1>1. CASE NeedsBuffer(p)
  <2>1. Ready(p) = Taken(p)
    BY <1>1 DEF Ready
  <2>2. ASSUME ~NeedsBuffer(Taken(p))
        PROVE  /\ Taken(p).current \in Buffer
               /\ Taken(p).index = Skip(p, Taken(p).current)
               /\ Taken(p).index < Taken(p).current.frames
               /\ p.initialized
    <3>1. Taken(p).current \in Buffer /\ Taken(p).index \in Nat
      BY TakenGood DEF GoodQueue, QueueType
    <3>2. Taken(p).current # NoBuffer
      BY <2>2, <3>1, NoBufferFacts DEF NeedsBuffer
    <3>3. Taken(p).initialized
      BY <3>2, TakenGood DEF GoodQueue
    <3> QED BY <3>1, <3>2, <3>3, TakenGood DEF SameCursor
  <2> QED BY <2>1, <2>2, TakenGood
<1>2. CASE ~NeedsBuffer(p)
  <2>1. Ready(p) = p
    BY <1>2 DEF Ready
  <2> QED BY <1>2, <2>1 DEF SameCursor
<1> QED BY <1>1, <1>2

LEMMA ReadGood ==
    ASSUME NEW p, GoodQueue(p)
    PROVE  /\ GoodQueue(FrameRead(p))
           /\ FrameRead(p).generation = p.generation /\ FrameRead(p).force = p.force
           /\ NeedsBuffer(Ready(p)) => FrameRead(p) = Ready(p)
           /\ ~NeedsBuffer(Ready(p)) =>
                 /\ FrameRead(p).queue = Ready(p).queue
                 /\ FrameRead(p).current = Ready(p).current
                 /\ FrameRead(p).index = Ready(p).index + 1
                 /\ FrameRead(p).cursor = p.cursor + (p.remainder + Second) \div Rate
                 /\ FrameRead(p).remainder = (p.remainder + Second) % Rate
                 /\ FrameRead(p).initialized = p.initialized
<1>1. CASE NeedsBuffer(Ready(p))
  BY <1>1, ReadyGood DEF FrameRead, SameCursor
<1>2. CASE ~NeedsBuffer(Ready(p))
  <2>1. PICK r : r = Ready(p)
    OBVIOUS
  <2>2. GoodQueue(r) /\ SameCursor(p, r) /\ ~NeedsBuffer(r)
    BY <1>2, <2>1, ReadyGood
  <2>3. /\ r.queue \in Seq(Buffer) /\ r.current \in Buffer /\ r.index \in Nat
        /\ r.cursor \in Int /\ r.remainder \in 0..(Rate - 1) /\ r.initialized \in BOOLEAN
        /\ r.generation \in Nat /\ r.force \in BOOLEAN
        /\ r = [queue |-> r.queue, current |-> r.current, index |-> r.index,
                cursor |-> r.cursor, remainder |-> r.remainder,
                initialized |-> r.initialized, generation |-> r.generation,
                force |-> r.force]
    BY <2>2 DEF GoodQueue, QueueType
  <2>4. r.index + 1 <= r.current.frames /\ r.index + 1 \in Nat
    <3>1. r.current.frames \in Nat
      BY <2>3, BufferFacts
    <3> QED BY <2>2, <2>3, <3>1 DEF NeedsBuffer
  <2> DEFINE cursor == r.cursor + (r.remainder + Second) \div Rate
             remainder == (r.remainder + Second) % Rate
  <2>5. cursor \in Int /\ remainder \in 0..(Rate - 1)
    <3>1. r.remainder + Second \in Int /\ Rate \in Nat \ {0}
      BY <2>3, RateFacts
    <3>2. (r.remainder + Second) \div Rate \in Int /\ remainder \in 0..(Rate - 1)
      BY <3>1, Division
    <3> QED BY <2>3, <3>2
  <2>6. FrameRead(p) = Advanced([r EXCEPT !.index = @ + 1])
    BY <1>2, <2>1 DEF FrameRead
  <2>7. FrameRead(p) =
           [queue |-> r.queue, current |-> r.current, index |-> r.index + 1,
            cursor |-> cursor, remainder |-> remainder,
            initialized |-> r.initialized, generation |-> r.generation, force |-> r.force]
    <3>1. PICK s : s = [r EXCEPT !.index = @ + 1]
      OBVIOUS
    <3>2. s = [queue |-> r.queue, current |-> r.current, index |-> r.index + 1,
               cursor |-> r.cursor, remainder |-> r.remainder,
               initialized |-> r.initialized, generation |-> r.generation,
               force |-> r.force]
      BY <2>3, <3>1
    <3>3. FrameRead(p) = [s EXCEPT !.cursor = cursor, !.remainder = remainder]
      BY <2>6, <3>1, <3>2 DEF Advanced
    <3> HIDE DEF cursor, remainder
    <3> QED BY <3>2, <3>3
  <2> HIDE DEF cursor, remainder
  <2>8. FrameRead(p) \in QueueType
    BY <2>3, <2>4, <2>5, <2>7 DEF QueueType
  <2>9. r.current # NoBuffer /\ Ordered(r.queue) /\ r.initialized
    <3>1. r.current # NoBuffer
      BY <2>2, <2>3, NoBufferFacts DEF NeedsBuffer
    <3> QED BY <2>2, <3>1 DEF GoodQueue
  <2>10. GoodQueue(FrameRead(p))
    BY <2>4, <2>7, <2>8, <2>9 DEF GoodQueue
  <2>11. /\ r.cursor = p.cursor /\ r.remainder = p.remainder /\ r.initialized = p.initialized
         /\ r.generation = p.generation /\ r.force = p.force
    BY <2>2 DEF SameCursor
  <2> QED BY <1>2, <2>1, <2>7, <2>10, <2>11 DEF cursor, remainder
<1> QED BY <1>1, <1>2

LEMMA SoughtGood ==
    ASSUME NEW p, GoodQueue(p), NEW t \in Int
    PROVE  /\ GoodQueue(Sought(p, t))
           /\ Sought(p, t).queue = p.queue
           /\ Sought(p, t).cursor = t /\ Sought(p, t).remainder = 0
           /\ Sought(p, t).generation = p.generation /\ Sought(p, t).force = p.force
           /\ Sought(p, t).initialized = p.initialized
<1>1. /\ p.queue \in Seq(Buffer) /\ p.current \in Buffer /\ p.index \in Nat
      /\ p.cursor \in Int /\ p.remainder \in 0..(Rate - 1) /\ p.initialized \in BOOLEAN
      /\ p.generation \in Nat /\ p.force \in BOOLEAN
      /\ p = [queue |-> p.queue, current |-> p.current, index |-> p.index,
              cursor |-> p.cursor, remainder |-> p.remainder,
              initialized |-> p.initialized, generation |-> p.generation,
              force |-> p.force]
  BY DEF GoodQueue, QueueType
<1>2. 0 \in 0..(Rate - 1)
  BY QueueAssumption
<1>3. PICK s : s = Sought(p, t)
  OBVIOUS
<1>4. s = [queue |-> p.queue, current |-> p.current, index |-> p.index,
           cursor |-> t, remainder |-> 0,
           initialized |-> p.initialized, generation |-> p.generation,
           force |-> p.force]
  BY <1>1, <1>3 DEF Sought
<1>5. s \in QueueType
  BY <1>1, <1>2, <1>4 DEF QueueType
<1>6. GoodQueue(s)
  BY <1>4, <1>5 DEF GoodQueue
<1> QED BY <1>3, <1>4, <1>6

LEMMA FlaggedGood ==
    ASSUME NEW p, GoodQueue(p), NEW f \in BOOLEAN
    PROVE  /\ GoodQueue([p EXCEPT !.force = f])
           /\ SameBuffers(p, [p EXCEPT !.force = f])
           /\ [p EXCEPT !.force = f].force = f
<1>1. /\ p.queue \in Seq(Buffer) /\ p.current \in Buffer /\ p.index \in Nat
      /\ p.cursor \in Int /\ p.remainder \in 0..(Rate - 1) /\ p.initialized \in BOOLEAN
      /\ p.generation \in Nat
      /\ p = [queue |-> p.queue, current |-> p.current, index |-> p.index,
              cursor |-> p.cursor, remainder |-> p.remainder,
              initialized |-> p.initialized, generation |-> p.generation,
              force |-> p.force]
  BY DEF GoodQueue, QueueType
<1>2. [p EXCEPT !.force = f] =
          [queue |-> p.queue, current |-> p.current, index |-> p.index,
           cursor |-> p.cursor, remainder |-> p.remainder,
           initialized |-> p.initialized, generation |-> p.generation, force |-> f]
  BY <1>1
<1>3. [p EXCEPT !.force = f] \in QueueType
  BY <1>1, <1>2 DEF QueueType
<1>4. GoodQueue([p EXCEPT !.force = f])
  BY <1>2, <1>3 DEF GoodQueue
<1>5. SameBuffers(p, [p EXCEPT !.force = f])
  BY <1>2 DEF SameBuffers
<1> QED BY <1>2, <1>4, <1>5

\* What a handoff makes of the queue.
HandedOff(p, t) == [Sought(p, t) EXCEPT !.force = FALSE]

LEMMA HandoffGood ==
    ASSUME NEW p, GoodQueue(p), NEW t \in Int, NEW r, r = HandedOff(p, t)
    PROVE  /\ GoodQueue(r) /\ ~r.force
           /\ r.queue = p.queue /\ r.cursor = t /\ r.remainder = 0
           /\ r.generation = p.generation /\ r.initialized = p.initialized
<1>1. PICK s : s = Sought(p, t)
  OBVIOUS
<1>2. /\ GoodQueue(s) /\ s.queue = p.queue /\ s.cursor = t /\ s.remainder = 0
      /\ s.generation = p.generation /\ s.initialized = p.initialized
  BY <1>1, SoughtGood
<1>3. r = [s EXCEPT !.force = FALSE]
  BY <1>1 DEF HandedOff
<1>4. GoodQueue(r) /\ SameBuffers(s, r) /\ r.force = FALSE
  BY <1>2, <1>3, FlaggedGood
<1> QED BY <1>2, <1>4 DEF SameBuffers

LEMMA PlayableFacts ==
    ASSUME NEW p, GoodQueue(p), NEW t \in Int, NEW c \in FirstPlayable(p, t)
    PROVE  c \in Int
<1>1. p.current \in Buffer /\ p.queue \in Seq(Buffer) /\ p.cursor \in Int
  BY DEF GoodQueue, QueueType
<1>2. p.current.ts \in Int
  BY <1>1, BufferFacts
<1> DEFINE start == Max({p.current.ts, p.cursor})
           later == {i \in DOMAIN p.queue : EndOf(p.queue[i]) > t}
<1>3. start \in Int
  BY <1>1, <1>2, MaxOfTwo
<1>4. CASE p.current # NoBuffer /\ EndOf(p.current) > Max({t, start})
  <2>1. c = Max({start, t})
    BY <1>4 DEF FirstPlayable
  <2> HIDE DEF start
  <2> QED BY <1>3, <2>1, MaxOfTwo
<1>5. CASE ~(p.current # NoBuffer /\ EndOf(p.current) > Max({t, start}))
  <2>1. later # {} /\ c = Max({p.queue[Min(later)].ts, t})
    BY <1>5 DEF FirstPlayable
  <2>2. Min(later) \in later
    <3>1. later \in SUBSET Nat
      BY <1>1
    <3> HIDE DEF later
    <3> QED BY <2>1, <3>1, MinOfNumbers
  <2>3. p.queue[Min(later)] \in Buffer
    <3>1. PICK k : k = Min(later)
      OBVIOUS
    <3>2. k \in DOMAIN p.queue
      BY <2>2, <3>1
    <3>3. p.queue[k] \in Buffer
      BY <1>1, <3>2
    <3> QED BY <3>1, <3>3
  <2> HIDE DEF later
  <2>4. p.queue[Min(later)].ts \in Int
    BY <2>3, BufferFacts
  <2> QED BY <2>1, <2>4, MaxOfTwo
<1> QED BY <1>4, <1>5
================================================================================
