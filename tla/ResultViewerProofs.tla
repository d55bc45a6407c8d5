------------------------- MODULE ResultViewerProofs -------------------------
(***************************************************************************)
(* What the saved-results menu shows, for every run, every way its file    *)
(* may have been cut, and every budget: the records that were written      *)
(* whole; the samples of the first record with the id, thinned by strides; *)
(* and the order statistics of what is kept.                               *)
(*                                                                         *)
(* In this order: the strides; sorting and order statistics; the lines of  *)
(* a record and of a run; both readers from line to line; the menu.        *)
(***************************************************************************)
EXTENDS ResultViewer, FiniteSetTheorems, SequenceTheorems, TLAPS

Numbers == Seq(Values)
Sample == [values : Seq(Values), stride : Nat \ {0}, approximate : BOOLEAN]

LEMMA MaxSamplesType == MaxSamples \in Nat /\ MaxSamples >= 2
  BY ViewerAssumption DEF MaxSamples

\* n is beyond k - 1 strides and within k: a multiple of the stride only at k.
LEMMA LastMultiple ==
  ASSUME NEW n \in Nat, NEW k \in Nat, NEW s \in Nat \ {0},
         (k - 1) * s < n, n <= k * s, n % s = 0
  PROVE  n = k * s
<1>1. PICK q \in Int : n = s * q
  <2>1. n = s * (n \div s) + (n % s) /\ n \div s \in Int
    OBVIOUS
  <2>. QED BY <2>1
<1>2. q > k - 1
  <2>1. CASE q <= k - 1
    <3>1. s * q <= s * (k - 1)
      BY <2>1
    <3>. QED BY <3>1, <1>1
  <2>. QED BY <2>1
<1>3. q <= k
  <2>1. CASE q >= k + 1
    <3>1. s * q >= s * (k + 1)
      BY <2>1
    <3>2. s * (k + 1) = k * s + s
      OBVIOUS
    <3>. QED BY <3>1, <3>2, <1>1
  <2>. QED BY <2>1
<1>. QED BY <1>1, <1>2, <1>3

LEMMA MultipleOfStride ==
  ASSUME NEW k \in Nat, NEW s \in Nat \ {0}
  PROVE  (k * s) % s = 0
  OBVIOUS

LEMMA ProductMonotone ==
  ASSUME NEW a \in Int, NEW b \in Int, NEW s \in Nat, a <= b
  PROVE  a * s <= b * s /\ a * s \in Int /\ b * s \in Int
  OBVIOUS

LEMMA DoubleStride ==
  ASSUME NEW a \in Int, NEW s \in Nat
  PROVE  a * (2 * s) = (2 * a) * s /\ a * (2 * s) \in Int
  OBVIOUS

\* Half of L, rounded up.
LEMMA Half ==
  ASSUME NEW L \in Nat
  PROVE  LET H == (L + 1) \div 2 IN H \in Nat /\ (L = 2 * H \/ L = 2 * H - 1)
  OBVIOUS

\* Half the values at twice the stride span the same numbers.
LEMMA HalvedBounds ==
  ASSUME NEW L \in Nat, NEW H \in Nat, NEW st \in Nat, NEW n \in Nat,
         L = 2 * H \/ L = 2 * H - 1, (L - 1) * st < n, n <= L * st
  PROVE  (H - 1) * (2 * st) < n /\ n <= H * (2 * st)
<1>1. (H - 1) * (2 * st) = (2 * (H - 1)) * st /\ H * (2 * st) = (2 * H) * st
  BY DoubleStride
<1>2. (2 * (H - 1)) * st <= (L - 1) * st /\ (2 * (H - 1)) * st \in Int /\ (L - 1) * st \in Int
  <2>1. 2 * (H - 1) <= L - 1 /\ 2 * (H - 1) \in Int /\ L - 1 \in Int
    OBVIOUS
  <2>. QED BY <2>1, ProductMonotone
<1>3. L * st <= (2 * H) * st /\ L * st \in Int /\ (2 * H) * st \in Int
  <2>1. L <= 2 * H /\ L \in Int /\ 2 * H \in Int
    OBVIOUS
  <2>. QED BY <2>1, ProductMonotone
<1> DEFINE x == (2 * (H - 1)) * st
           y == (L - 1) * st
           z == L * st
           w == (2 * H) * st
<1>4. x < n
  <2>1. x \in Int /\ y \in Int /\ x <= y /\ y < n
    BY <1>2
  <2> HIDE DEF x, y
  <2>. QED BY <2>1
<1>5. n <= w
  <2>1. z \in Int /\ w \in Int /\ z <= w /\ n <= z
    BY <1>3
  <2> HIDE DEF z, w
  <2>. QED BY <2>1
<1>. QED BY <1>1, <1>4, <1>5

\* Halving keeps every other value, the first among them.
LEMMA EverySecondFacts ==
  ASSUME NEW v \in Seq(Values), NEW H \in Nat, H = (Len(v) + 1) \div 2
  PROVE  /\ EverySecond(v) \in Seq(Values)
         /\ Len(EverySecond(v)) = H /\ DOMAIN EverySecond(v) = 1 .. H
         /\ \A i \in 1 .. H : 2 * i - 1 \in DOMAIN v /\ EverySecond(v)[i] = v[2 * i - 1]
<1>1. \A i \in 1 .. H : 2 * i - 1 \in 1 .. Len(v)
  BY Half
<1>2. EverySecond(v) = [i \in 1 .. H |-> v[2 * i - 1]]
  BY DEF EverySecond
<1>3. EverySecond(v) \in [1 .. H -> Values]
  BY <1>1, <1>2
<1>. QED BY <1>1, <1>2, <1>3

\* Making room loses no alignment: the values stay those at multiples of the
\* new stride, and there is room for one more.
LEMMA CompactedFacts ==
  ASSUME NEW s \in Sample, NEW numbers \in Numbers, Faithful(s, numbers)
  PROVE  LET c == Compacted(s) IN
         /\ c \in Sample
         /\ (Len(c.values) - 1) * c.stride < Len(numbers) /\ Len(numbers) <= Len(c.values) * c.stride
         /\ \A i \in DOMAIN c.values : c.values[i] = numbers[(i - 1) * c.stride + 1]
         /\ Len(c.values) < MaxSamples
         /\ c.approximate <=> c.stride > 1
         /\ c.approximate => 2 * Len(c.values) >= MaxSamples
         /\ c.approximate <=> Len(numbers) + 1 > MaxSamples
<1>0. MaxSamples \in Nat /\ MaxSamples >= 2
  BY MaxSamplesType
<1>1. CASE Len(s.values) < MaxSamples
  <2>1. Compacted(s) = s
    BY <1>0, <1>1 DEF Compacted, Sample
  <2>2. ~s.approximate => Len(numbers) = Len(s.values)
    BY DEF Faithful, Sample, Numbers
  <2>. QED BY <1>0, <1>1, <2>1, <2>2 DEF Faithful, Sample, Numbers
<1>2. CASE Len(s.values) >= MaxSamples
  <2>1. /\ s.values \in Seq(Values) /\ s.stride \in Nat /\ s.stride > 0 /\ s.approximate \in BOOLEAN
        /\ Len(s.values) \in Nat /\ Len(numbers) \in Nat /\ Len(s.values) = MaxSamples
    BY <1>0, <1>2 DEF Sample, Numbers, Faithful
  <2>2. PICK H \in Nat : H = (Len(s.values) + 1) \div 2
                         /\ (Len(s.values) = 2 * H \/ Len(s.values) = 2 * H - 1)
    BY <2>1, Half
  <2>3. /\ EverySecond(s.values) \in Seq(Values)
        /\ Len(EverySecond(s.values)) = H /\ DOMAIN EverySecond(s.values) = 1 .. H
        /\ \A i \in 1 .. H : 2 * i - 1 \in DOMAIN s.values /\ EverySecond(s.values)[i] = s.values[2 * i - 1]
    BY <2>1, <2>2, EverySecondFacts
  <2>4. (H - 1) * (2 * s.stride) < Len(numbers) /\ Len(numbers) <= H * (2 * s.stride)
    BY <2>1, <2>2, HalvedBounds DEF Faithful
  <2>5. ASSUME NEW i \in 1 .. H
        PROVE  EverySecond(s.values)[i] = numbers[(i - 1) * (2 * s.stride) + 1]
    <3>1. s.values[2 * i - 1] = numbers[((2 * i - 1) - 1) * s.stride + 1]
      BY <2>3 DEF Faithful
    <3>2. (2 * i - 1) - 1 = 2 * (i - 1) /\ i - 1 \in Int
      OBVIOUS
    <3>3. ((2 * i - 1) - 1) * s.stride = (i - 1) * (2 * s.stride)
      BY <3>2, <2>1, DoubleStride
    <3>. QED BY <2>3, <3>1, <3>3
  <2>6. Len(numbers) >= MaxSamples
    <3>1. CASE s.stride = 1
      <4>1. (Len(s.values) - 1) * 1 < Len(numbers)
        BY <3>1 DEF Faithful
      <4>. QED BY <4>1, <1>0, <2>1
    <3>2. CASE s.stride > 1
      <4>1. Len(numbers) > MaxSamples
        BY <3>2 DEF Faithful
      <4>. QED BY <4>1, <1>0, <2>1
    <3>. QED BY <3>1, <3>2, <2>1
  <2>7. H < MaxSamples /\ 2 * H >= MaxSamples /\ Len(numbers) + 1 > MaxSamples /\ 2 * s.stride > 1
    BY <1>0, <2>1, <2>2, <2>6
  <2>8. Compacted(s) = [values |-> EverySecond(s.values), stride |-> 2 * s.stride, approximate |-> TRUE]
    BY <1>2 DEF Compacted
  <2>9. Compacted(s) \in Sample
    BY <2>1, <2>3, <2>8 DEF Sample
  <2> DEFINE c == Compacted(s)
  <2>10. c.values = EverySecond(s.values) /\ c.stride = 2 * s.stride /\ c.approximate = TRUE
    BY <2>8
  <2>11. Len(c.values) = H /\ DOMAIN c.values = 1 .. H
    BY <2>3, <2>10
  <2> HIDE DEF c
  <2>12. (Len(c.values) - 1) * c.stride < Len(numbers) /\ Len(numbers) <= Len(c.values) * c.stride
    BY <2>4, <2>10, <2>11
  <2>13. \A i \in DOMAIN c.values : c.values[i] = numbers[(i - 1) * c.stride + 1]
    BY <2>5, <2>10, <2>11
  <2>14. Len(c.values) < MaxSamples /\ 2 * Len(c.values) >= MaxSamples /\ c.stride > 1
    BY <2>7, <2>10, <2>11
  <2>15. c \in Sample
    BY <2>9 DEF c
  <2>. QED BY <2>7, <2>10, <2>12, <2>13, <2>14, <2>15 DEF c
<1>3. Len(s.values) \in Nat
  BY DEF Sample
<1>. QED BY <1>0, <1>1, <1>2, <1>3

LEMMA OneMore ==
  ASSUME NEW c \in Sample, NEW v \in Values
  PROVE  LET k == [c EXCEPT !.values = Append(@, v)]
         IN k.values = Append(c.values, v) /\ k.stride = c.stride /\ k.approximate = c.approximate
            /\ k \in Sample
<1>1. Append(c.values, v) \in Seq(Values)
  BY DEF Sample
<1>. QED BY <1>1 DEF Sample

LEMMA KeptFaithful ==
  ASSUME NEW s \in Sample, NEW numbers \in Numbers, Faithful(s, numbers), NEW v \in Values
  PROVE  /\ Kept(s, Len(numbers), v) \in Sample
         /\ Faithful(Kept(s, Len(numbers), v), Append(numbers, v))
<1> DEFINE c == Compacted(s)
           n == Len(numbers)
           more == Append(numbers, v)
<1>1. /\ c \in Sample
      /\ (Len(c.values) - 1) * c.stride < n /\ n <= Len(c.values) * c.stride
      /\ \A i \in DOMAIN c.values : c.values[i] = numbers[(i - 1) * c.stride + 1]
      /\ Len(c.values) < MaxSamples
      /\ c.approximate <=> c.stride > 1
      /\ c.approximate => 2 * Len(c.values) >= MaxSamples
      /\ c.approximate <=> n + 1 > MaxSamples
  BY CompactedFacts
<1>2. /\ c.values \in Seq(Values) /\ c.stride \in Nat \ {0} /\ c.approximate \in BOOLEAN
      /\ Len(c.values) \in Nat /\ n \in Nat /\ MaxSamples \in Nat
      /\ c = [values |-> c.values, stride |-> c.stride, approximate |-> c.approximate]
  BY <1>1, MaxSamplesType DEF Sample, Numbers
<1>3. more \in Numbers /\ Len(more) = n + 1 /\ more[n + 1] = v /\ \A i \in 1 .. n : more[i] = numbers[i]
  BY DEF Numbers
<1> HIDE DEF c, more
\* The indices kept so far are indices of numbers.
<1>4. ASSUME NEW i \in DOMAIN c.values
      PROVE  c.values[i] = more[(i - 1) * c.stride + 1]
  <2>1. i \in Nat /\ i >= 1 /\ i <= Len(c.values)
    BY <1>2
  <2>2. (i - 1) * c.stride <= (Len(c.values) - 1) * c.stride /\ (i - 1) * c.stride \in Int
        /\ (Len(c.values) - 1) * c.stride \in Int
    <3>1. i - 1 \in Int /\ Len(c.values) - 1 \in Int /\ i - 1 <= Len(c.values) - 1 /\ c.stride \in Nat
      BY <1>2, <2>1
    <3>. QED BY <3>1, ProductMonotone
  <2>3. 0 * c.stride <= (i - 1) * c.stride /\ 0 * c.stride = 0
    <3>1. i - 1 \in Int /\ 0 <= i - 1 /\ c.stride \in Nat
      BY <1>2, <2>1
    <3>. QED BY <3>1, ProductMonotone
  <2>4. (i - 1) * c.stride + 1 \in 1 .. n
    BY <1>1, <1>2, <2>2, <2>3
  <2>. QED BY <1>1, <1>3, <2>4
<1>5. CASE n % c.stride = 0
  <2>1. n = Len(c.values) * c.stride
    <3>1. n \in Nat /\ Len(c.values) \in Nat /\ c.stride \in Nat \ {0}
      BY <1>2
    <3>2. (Len(c.values) - 1) * c.stride < n /\ n <= Len(c.values) * c.stride
      BY <1>1
    <3> HIDE DEF n
    <3>. QED BY <3>1, <3>2, <1>5, LastMultiple
  <2> DEFINE k == [c EXCEPT !.values = Append(@, v)]
  <2>2. Kept(s, n, v) = k
    BY <1>5 DEF Kept, c
  <2>3. k.values = Append(c.values, v) /\ k.stride = c.stride /\ k.approximate = c.approximate /\ k \in Sample
    BY <1>1, <1>2, OneMore
  <2>4. Len(k.values) = Len(c.values) + 1 /\ DOMAIN k.values = 1 .. Len(c.values) + 1
    BY <1>2, <2>3
  <2>5. ASSUME NEW i \in DOMAIN k.values PROVE k.values[i] = more[(i - 1) * k.stride + 1]
    <3>1. CASE i = Len(c.values) + 1
      <4>1. k.values[i] = v
        BY <3>1, <1>2, <2>3
      <4>2. i - 1 = Len(c.values)
        BY <3>1, <1>2
      <4>. QED BY <4>1, <4>2, <2>1, <2>3, <1>3
    <3>2. CASE i # Len(c.values) + 1
      <4>1. i \in DOMAIN c.values /\ k.values[i] = c.values[i]
        BY <3>2, <1>2, <2>3, <2>4
      <4>. QED BY <4>1, <1>4, <2>3
    <3>. QED BY <3>1, <3>2
  <2>6. (Len(k.values) - 1) * k.stride < n + 1 /\ n + 1 <= Len(k.values) * k.stride
    <3>1. Len(k.values) - 1 = Len(c.values)
      BY <1>2, <2>4
    <3>2. (Len(c.values) + 1) * c.stride = Len(c.values) * c.stride + c.stride
      BY <1>2
    <3>. QED BY <3>1, <3>2, <2>1, <2>3, <2>4, <1>2
  <2>7. Len(k.values) <= MaxSamples /\ (k.approximate => 2 * Len(k.values) >= MaxSamples)
    BY <1>1, <1>2, <2>3, <2>4
  <2> HIDE DEF k
  <2>8. Faithful(k, more)
    BY <1>1, <1>3, <2>3, <2>5, <2>6, <2>7 DEF Faithful
  <2>. QED BY <2>2, <2>3, <2>8 DEF n, more
<1>6. CASE n % c.stride # 0
  <2>1. Kept(s, n, v) = c
    BY <1>6 DEF Kept, c
  <2>2. n # Len(c.values) * c.stride
    <3>1. (Len(c.values) * c.stride) % c.stride = 0
      BY <1>2, MultipleOfStride
    <3>. QED BY <3>1, <1>6
  <2>3. Len(c.values) * c.stride \in Int
    BY <1>2
  <2>4. (Len(c.values) - 1) * c.stride < n + 1 /\ n + 1 <= Len(c.values) * c.stride
    <3>1. (Len(c.values) - 1) * c.stride \in Int
      BY <1>2
    <3>. QED BY <3>1, <1>1, <1>2, <2>2, <2>3
  <2>5. Len(c.values) <= MaxSamples
    BY <1>1, <1>2
  <2>6. Faithful(c, more)
    BY <1>1, <1>3, <1>4, <2>4, <2>5 DEF Faithful
  <2>. QED BY <1>1, <2>1, <2>6 DEF n, more
<1>. QED BY <1>5, <1>6

-----------------------------------------------------------------------------
(* Sorting: an order exists, and what stands at a rank counts the values. *)

\* Induction over the naturals, for a set.
LEMMA SetInduction ==
  ASSUME NEW T, 0 \in T, \A n \in Nat : n \in T => n + 1 \in T
  PROVE  Nat \subseteq T
<1> DEFINE U == Nat \ T
           R == OpToRel(<, Nat)
<1> SUFFICES ASSUME U # {} PROVE FALSE
  OBVIOUS
<1>1. IsWellFoundedOn(R, Nat)
  BY NatLessThanWellFounded
<1>2. \A x, y \in Nat : <<x, y>> \in R <=> x < y
  BY DEF OpToRel
<1>3. U \subseteq Nat
  OBVIOUS
<1> HIDE DEF R, U
<1>4. PICK x \in U : \A y \in U : ~(<<y, x>> \in R)
  BY <1>1, <1>3, WFMin
<1>5. x \in Nat /\ x # 0 /\ x \notin T
  BY <1>4 DEF U
<1>6. x - 1 \in Nat /\ x - 1 < x
  BY <1>5
<1>7. x - 1 \in T
  BY <1>2, <1>4, <1>5, <1>6 DEF U
<1>. QED BY <1>5, <1>6, <1>7

HasGreatest(s, N) == \E m \in 1 .. N : \A i \in 1 .. N : s[i] <= s[m]

LEMMA GreatestExists ==
  ASSUME NEW N \in Nat, NEW s, \A i \in 1 .. N : s[i] \in Nat, N >= 1
  PROVE  HasGreatest(s, N)
<1> DEFINE Top(n, m) == \A i \in 1 .. n : s[i] <= s[m]
           T == {n \in Nat : n < N => \E m \in 1 .. n + 1 : Top(n + 1, m)}
<1>1. 0 \in T
  <2>1. Top(0 + 1, 1)
    OBVIOUS
  <2>. QED BY <2>1
<1>2. ASSUME NEW n \in Nat, n \in T, n + 1 < N
      PROVE  \E m \in 1 .. n + 2 : Top(n + 2, m)
  <2>1. PICK m \in 1 .. n + 1 : Top(n + 1, m)
    BY <1>2
  <2>2. m \in 1 .. N /\ n + 2 \in 1 .. N /\ m \in 1 .. n + 2 /\ n + 2 \in 1 .. n + 2
    BY <1>2
  <2>3. s[m] \in Nat /\ s[n + 2] \in Nat /\ \A i \in 1 .. n + 2 : i \in 1 .. N /\ s[i] \in Nat
    BY <1>2, <2>2
  <2>4. \A i \in 1 .. n + 2 : i \in 1 .. n + 1 \/ i = n + 2
    OBVIOUS
  <2>5. CASE s[n + 2] <= s[m]
    <3>1. Top(n + 2, m)
      BY <2>1, <2>4, <2>5
    <3>. QED BY <2>2, <3>1
  <2>6. CASE ~(s[n + 2] <= s[m])
    <3>1. Top(n + 2, n + 2)
      BY <2>1, <2>3, <2>4, <2>6
    <3>. QED BY <2>2, <3>1
  <2>. QED BY <2>5, <2>6
<1>3. Nat \subseteq T
  <2>1. \A n \in Nat : n \in T => n + 1 \in T
    <3> SUFFICES ASSUME NEW n \in Nat, n \in T PROVE n + 1 \in T
      OBVIOUS
    <3>1. (n + 1) + 1 = n + 2 /\ n + 1 \in Nat
      OBVIOUS
    <3>2. n + 1 < N => \E m \in 1 .. (n + 1) + 1 : Top((n + 1) + 1, m)
      BY <1>2, <3>1
    <3>. QED BY <3>1, <3>2
  <2> HIDE DEF T
  <2>. QED BY <1>1, <2>1, SetInduction
<1>4. N - 1 \in Nat /\ (N - 1) + 1 = N /\ N - 1 < N
  OBVIOUS
<1>5. N - 1 \in T
  <2> HIDE DEF T
  <2>. QED BY <1>3, <1>4
<1>6. PICK m \in 1 .. (N - 1) + 1 : Top((N - 1) + 1, m)
  <2> HIDE DEF Top
  <2>. QED BY <1>4, <1>5
<1>. QED BY <1>4, <1>6 DEF HasGreatest

\* p puts s in ascending order.
Orders(p, s, n) ==
    p \in Bijection(1 .. n, 1 .. n) /\ \A i, j \in 1 .. n : i <= j => s[p[i]] <= s[p[j]]

\* The greatest value goes last; the others are ordered among themselves.
Sortable(n) == \A u \in [1 .. n -> Nat] : \E q : Orders(q, u, n)

LEMMA OrderOneMore ==
  ASSUME NEW n \in Nat, Sortable(n)
  PROVE  Sortable(n + 1)
<1> SUFFICES ASSUME NEW s \in [1 .. n + 1 -> Nat] PROVE \E p : Orders(p, s, n + 1)
  BY DEF Sortable
<1>1. PICK m \in 1 .. n + 1 : \A i \in 1 .. n + 1 : s[i] <= s[m]
  <2>1. n + 1 \in Nat /\ n + 1 >= 1 /\ \A i \in 1 .. n + 1 : s[i] \in Nat
    OBVIOUS
  <2>2. HasGreatest(s, n + 1)
    BY <2>1, GreatestExists
  <2>. QED BY <2>2 DEF HasGreatest
<1> DEFINE u == [i \in 1 .. n |-> IF i = m THEN s[n + 1] ELSE s[i]]
<1>2. u \in [1 .. n -> Nat]
  OBVIOUS
<1>3. PICK q : Orders(q, u, n)
  BY <1>2 DEF Sortable
<1>4. /\ q \in [1 .. n -> 1 .. n]
      /\ \A i, j \in 1 .. n : q[i] = q[j] => i = j
      /\ \A t \in 1 .. n : \E i \in 1 .. n : q[i] = t
  BY <1>3 DEF Orders, Bijection, Injection, Surjection, IsInjective
<1> DEFINE p == [k \in 1 .. n + 1 |-> IF k = n + 1 THEN m ELSE IF q[k] = m THEN n + 1 ELSE q[k]]
<1>5. \A k \in 1 .. n + 1 : k = n + 1 \/ k \in 1 .. n
  OBVIOUS
<1>6. ASSUME NEW k \in 1 .. n
      PROVE  k \in 1 .. n + 1 /\ k # n + 1 /\ q[k] \in 1 .. n /\ q[k] # n + 1
             /\ p[k] = IF q[k] = m THEN n + 1 ELSE q[k]
  <2>1. k \in 1 .. n + 1 /\ k # n + 1
    OBVIOUS
  <2>2. q[k] \in 1 .. n
    BY <1>4
  <2>. QED BY <2>1, <2>2
<1>7. n + 1 \in 1 .. n + 1 /\ p[n + 1] = m
  OBVIOUS
<1>8. p \in [1 .. n + 1 -> 1 .. n + 1]
  <2> SUFFICES ASSUME NEW k \in 1 .. n + 1 PROVE p[k] \in 1 .. n + 1
    OBVIOUS
  <2> HIDE DEF p
  <2>. QED BY <1>1, <1>5, <1>6, <1>7
<1>9. \A k \in 1 .. n : p[k] # m /\ s[p[k]] = u[q[k]]
  <2> HIDE DEF p
  <2>. QED BY <1>6
<1> HIDE DEF p, u
<1>10. \A i, j \in 1 .. n + 1 : p[i] = p[j] => i = j
  <2> SUFFICES ASSUME NEW i \in 1 .. n + 1, NEW j \in 1 .. n + 1, p[i] = p[j] PROVE i = j
    OBVIOUS
  <2>1. CASE i = n + 1 \/ j = n + 1
    BY <2>1, <1>5, <1>7, <1>9
  <2>2. CASE i \in 1 .. n /\ j \in 1 .. n
    <3>1. q[i] \in 1 .. n /\ q[j] \in 1 .. n /\ q[i] = q[j]
      BY <2>2, <1>6
    <3>. QED BY <2>2, <3>1, <1>4
  <2>. QED BY <2>1, <2>2, <1>5
<1>11. \A t \in 1 .. n + 1 : \E i \in 1 .. n + 1 : p[i] = t
  <2> SUFFICES ASSUME NEW t \in 1 .. n + 1 PROVE \E i \in 1 .. n + 1 : p[i] = t
    OBVIOUS
  <2>1. CASE t = m
    BY <2>1, <1>7
  <2>2. CASE t # m /\ t = n + 1
    <3>1. m \in 1 .. n
      BY <2>2, <1>5
    <3>2. PICK i \in 1 .. n : q[i] = m
      BY <3>1, <1>4
    <3>. QED BY <3>2, <2>2, <1>6
  <2>3. CASE t # m /\ t \in 1 .. n
    <3>1. PICK i \in 1 .. n : q[i] = t
      BY <2>3, <1>4
    <3>. QED BY <3>1, <2>3, <1>6
  <2>. QED BY <2>1, <2>2, <2>3, <1>5
<1>12. \A i, j \in 1 .. n + 1 : i <= j => s[p[i]] <= s[p[j]]
  <2> SUFFICES ASSUME NEW i \in 1 .. n + 1, NEW j \in 1 .. n + 1, i <= j PROVE s[p[i]] <= s[p[j]]
    OBVIOUS
  <2>1. CASE j = n + 1
    BY <2>1, <1>1, <1>7, <1>8
  <2>2. CASE j \in 1 .. n
    <3>1. i \in 1 .. n
      BY <2>2
    <3>. QED BY <2>2, <3>1, <1>3, <1>9 DEF Orders
  <2>. QED BY <2>1, <2>2, <1>5
<1>13. p \in Bijection(1 .. n + 1, 1 .. n + 1)
  BY <1>8, <1>10, <1>11 DEF Bijection, Injection, Surjection, IsInjective
<1>. QED BY <1>12, <1>13 DEF Orders

LEMMA OrderExists ==
  ASSUME NEW N \in Nat, NEW s \in [1 .. N -> Nat]
  PROVE  \E p : Orders(p, s, N)
<1> DEFINE T == {n \in Nat : Sortable(n)}
<1>1. 0 \in T
  <2> SUFFICES ASSUME NEW u \in [1 .. 0 -> Nat] PROVE \E p : Orders(p, u, 0)
    BY DEF Sortable
  <2> DEFINE p == [i \in 1 .. 0 |-> i]
  <2>1. p \in Bijection(1 .. 0, 1 .. 0)
    <3>1. p \in [1 .. 0 -> 1 .. 0] /\ \A i \in 1 .. 0 : FALSE
      OBVIOUS
    <3>. QED BY <3>1 DEF Bijection, Injection, Surjection, IsInjective
  <2>2. Orders(p, u, 0)
    BY <2>1 DEF Orders
  <2>. QED BY <2>2
<1>2. \A n \in Nat : n \in T => n + 1 \in T
  BY OrderOneMore
<1>3. Nat \subseteq T
  <2> HIDE DEF T
  <2>. QED BY <1>1, <1>2, SetInduction
<1>. QED BY <1>3 DEF Sortable

LEMMA SortedFacts ==
  ASSUME NEW s \in Seq(Nat)
  PROVE  \E p : /\ Orders(p, s, Len(s))
                /\ Sorted(s) = [i \in 1 .. Len(s) |-> s[p[i]]]
<1> DEFINE n == Len(s)
           order == CHOOSE p \in Bijection(DOMAIN s, DOMAIN s) :
                       \A i, j \in DOMAIN s : i <= j => s[p[i]] <= s[p[j]]
<1>1. n \in Nat /\ DOMAIN s = 1 .. n /\ s \in [1 .. n -> Nat]
  OBVIOUS
<1>2. \E p \in Bijection(DOMAIN s, DOMAIN s) :
          \A i, j \in DOMAIN s : i <= j => s[p[i]] <= s[p[j]]
  BY <1>1, OrderExists DEF Orders
<1>3. /\ order \in Bijection(DOMAIN s, DOMAIN s)
      /\ \A i, j \in DOMAIN s : i <= j => s[order[i]] <= s[order[j]]
  BY <1>2
<1>4. Sorted(s) = [i \in DOMAIN s |-> s[order[i]]]
  BY DEF Sorted
<1> HIDE DEF order
<1>. QED BY <1>1, <1>3, <1>4 DEF Orders

\* Reordering keeps the number of values of any kind.
CountsInOrder(n, p, s, V) ==
    Cardinality({k \in 1 .. n : s[p[k]] \in V}) = Cardinality({i \in 1 .. n : s[i] \in V})

LEMMA CountByOrder ==
  ASSUME NEW n \in Nat, NEW p \in Bijection(1 .. n, 1 .. n), NEW s, NEW V
  PROVE  CountsInOrder(n, p, s, V)
<1> DEFINE A == {k \in 1 .. n : s[p[k]] \in V}
           B == {i \in 1 .. n : s[i] \in V}
           f == [k \in A |-> p[k]]
<1>1. IsFiniteSet(A)
  BY FS_Interval, FS_Subset
<1>2. /\ p \in [1 .. n -> 1 .. n]
      /\ \A i, j \in 1 .. n : p[i] = p[j] => i = j
      /\ \A t \in 1 .. n : \E i \in 1 .. n : p[i] = t
  BY DEF Bijection, Injection, Surjection, IsInjective
<1>3. f \in [A -> B]
  BY <1>2
<1>4. \A i, j \in A : f[i] = f[j] => i = j
  BY <1>2
<1>5. \A t \in B : \E i \in A : f[i] = t
  <2> SUFFICES ASSUME NEW t \in B PROVE \E i \in A : f[i] = t
    OBVIOUS
  <2>1. PICK i \in 1 .. n : p[i] = t
    BY <1>2
  <2>2. i \in A
    BY <2>1
  <2>. QED BY <2>1, <2>2
<1> HIDE DEF A, B, f
<1>6. f \in Bijection(A, B)
  BY <1>3, <1>4, <1>5 DEF Bijection, Injection, Surjection, IsInjective
<1>7. ExistsBijection(A, B)
  BY <1>6 DEF ExistsBijection
<1>8. Cardinality(B) = Cardinality(A)
  BY <1>1, <1>7, FS_Bijection
<1>. QED BY <1>8 DEF A, B, CountsInOrder

Ascending(t) == t \in Seq(Nat) /\ \A i, j \in 1 .. Len(t) : i <= j => t[i] <= t[j]
SameCounts(s, t) == \A v \in Nat : AtMost(s, v) = AtMost(t, v) /\ AtLeast(s, v) = AtLeast(t, v)

LEMMA ReorderedCounts ==
  ASSUME NEW s \in Seq(Nat), NEW t \in Seq(Nat), Len(t) = Len(s),
         NEW p \in Bijection(1 .. Len(s), 1 .. Len(s)), \A i \in 1 .. Len(s) : t[i] = s[p[i]]
  PROVE  SameCounts(s, t)
<1> SUFFICES ASSUME NEW v \in Nat
             PROVE  AtMost(s, v) = AtMost(t, v) /\ AtLeast(s, v) = AtLeast(t, v)
  BY DEF SameCounts
<1> DEFINE n == Len(s)
           Low == {x \in Nat : x <= v}
           High == {x \in Nat : x >= v}
<1>1. n \in Nat /\ DOMAIN s = 1 .. n /\ DOMAIN t = 1 .. n
      /\ \A i \in 1 .. n : s[i] \in Nat /\ t[i] \in Nat /\ t[i] = s[p[i]]
  OBVIOUS
<1>2. {i \in DOMAIN s : s[i] <= v} = {i \in 1 .. n : s[i] \in Low}
  BY <1>1
<1>3. {i \in DOMAIN t : t[i] <= v} = {i \in 1 .. n : s[p[i]] \in Low}
  BY <1>1
<1>4. {i \in DOMAIN s : s[i] >= v} = {i \in 1 .. n : s[i] \in High}
  BY <1>1
<1>5. {i \in DOMAIN t : t[i] >= v} = {i \in 1 .. n : s[p[i]] \in High}
  BY <1>1
<1> HIDE DEF Low, High
<1>6. Cardinality({i \in 1 .. n : s[p[i]] \in Low}) = Cardinality({i \in 1 .. n : s[i] \in Low})
  <2>1. CountsInOrder(n, p, s, Low)
    BY <1>1, CountByOrder
  <2>. QED BY <2>1 DEF CountsInOrder
<1>7. Cardinality({i \in 1 .. n : s[p[i]] \in High}) = Cardinality({i \in 1 .. n : s[i] \in High})
  <2>1. CountsInOrder(n, p, s, High)
    BY <1>1, CountByOrder
  <2>. QED BY <2>1 DEF CountsInOrder
<1>. QED BY <1>2, <1>3, <1>4, <1>5, <1>6, <1>7 DEF AtMost, AtLeast

\* Rank r of an ascending sequence.
LEMMA RankCounts ==
  ASSUME NEW t, Ascending(t), NEW r \in 1 .. Len(t), NEW v \in Nat
  PROVE  /\ AtMost(t, v) \in Nat /\ AtLeast(t, v) \in Nat
         /\ t[r] <= v => AtMost(t, v) >= r
         /\ v < t[r] => AtMost(t, v) <= r - 1
         /\ v <= t[r] => AtLeast(t, v) >= Len(t) - r + 1
<1> DEFINE n == Len(t)
           A == {i \in DOMAIN t : t[i] <= v}
           B == {i \in DOMAIN t : t[i] >= v}
<1>1. n \in Nat /\ DOMAIN t = 1 .. n /\ \A i \in 1 .. n : t[i] \in Nat
  BY DEF Ascending
<1>2. IsFiniteSet(1 .. n) /\ A \subseteq 1 .. n /\ B \subseteq 1 .. n
  <2>1. IsFiniteSet(1 .. n)
    BY <1>1, FS_Interval
  <2>2. A \subseteq 1 .. n /\ B \subseteq 1 .. n
    BY <1>1
  <2>. QED BY <2>1, <2>2
<1>3. IsFiniteSet(A) /\ IsFiniteSet(B)
  BY <1>2, FS_Subset
<1>4. Cardinality(A) \in Nat /\ Cardinality(B) \in Nat
  BY <1>3, FS_CardinalityType
<1>5. r \in Nat /\ r >= 1 /\ r <= n /\ r - 1 \in Int /\ r \in 1 .. n
  BY <1>1
<1>6. ASSUME t[r] <= v PROVE Cardinality(A) >= r
  <2>1. 1 .. r \subseteq A
    <3> SUFFICES ASSUME NEW i \in 1 .. r PROVE i \in A
      OBVIOUS
    <3>1. i \in 1 .. n /\ t[i] <= t[r]
      BY <1>5 DEF Ascending
    <3>. QED BY <3>1, <1>1, <1>5, <1>6
  <2>2. Cardinality(1 .. r) = r
    <3>1. Cardinality(1 .. r) = IF 1 > r THEN 0 ELSE r - 1 + 1
      BY <1>5, FS_Interval
    <3>. QED BY <3>1, <1>5
  <2> HIDE DEF A
  <2>. QED BY <2>1, <2>2, <1>3, FS_Subset
<1>7. ASSUME v < t[r] PROVE Cardinality(A) <= r - 1
  <2>1. A \subseteq 1 .. r - 1
    <3> SUFFICES ASSUME NEW i \in A PROVE i \in 1 .. r - 1
      OBVIOUS
    <3>1. i \in 1 .. n /\ t[i] <= v
      BY <1>1
    <3>2. ~(r <= i)
      <4> SUFFICES ASSUME r <= i PROVE FALSE
        OBVIOUS
      <4>1. t[r] <= t[i]
        BY <3>1, <1>5 DEF Ascending
      <4>. QED BY <4>1, <3>1, <1>1, <1>5, <1>7
    <3>. QED BY <3>1, <3>2, <1>5
  <2>2. Cardinality(1 .. r - 1) = r - 1 /\ IsFiniteSet(1 .. r - 1)
    <3>1. Cardinality(1 .. r - 1) = (IF 1 > r - 1 THEN 0 ELSE (r - 1) - 1 + 1) /\ IsFiniteSet(1 .. r - 1)
      BY <1>5, FS_Interval
    <3>. QED BY <3>1, <1>5
  <2> HIDE DEF A
  <2>. QED BY <2>1, <2>2, FS_Subset
<1>8. ASSUME v <= t[r] PROVE Cardinality(B) >= n - r + 1
  <2>1. r .. n \subseteq B
    <3> SUFFICES ASSUME NEW i \in r .. n PROVE i \in B
      OBVIOUS
    <3>1. i \in 1 .. n /\ t[r] <= t[i]
      BY <1>5 DEF Ascending
    <3>. QED BY <3>1, <1>1, <1>5, <1>8
  <2>2. Cardinality(r .. n) = n - r + 1
    <3>1. Cardinality(r .. n) = IF r > n THEN 0 ELSE n - r + 1
      BY <1>1, <1>5, FS_Interval
    <3>. QED BY <3>1, <1>1, <1>5
  <2> HIDE DEF B
  <2>. QED BY <2>1, <2>2, <1>3, FS_Subset
<1>. QED BY <1>4, <1>6, <1>7, <1>8 DEF AtMost, AtLeast

LEMMA MiddleOf ==
  ASSUME NEW n \in Nat, n >= 1
  PROVE  LET q == n \div 2 IN
         /\ q \in Nat
         /\ n % 2 = 1 => n = 2 * q + 1
         /\ n % 2 # 1 => n = 2 * q /\ q >= 1
  OBVIOUS

\* Half of the values are on each side of the median, whether it is one of
\* them or lies between two.
LEMMA MedianHalves ==
  ASSUME NEW t, Ascending(t), Len(t) >= 1
  PROVE  MedianOfSorted(t) \in Nat /\ Halves(t, MedianOfSorted(t))
<1> DEFINE n == Len(t)
           q == n \div 2
           m == MedianOfSorted(t)
<1>1. n \in Nat /\ \A i \in 1 .. n : t[i] \in Nat
  BY DEF Ascending
<1>2. q \in Nat /\ (n % 2 = 1 => n = 2 * q + 1) /\ (n % 2 # 1 => n = 2 * q /\ q >= 1)
  BY <1>1, MiddleOf
<1>3. m = IF n % 2 = 1 THEN t[q + 1] ELSE (t[q] + t[q + 1]) \div 2
  BY DEF MedianOfSorted
<1> HIDE DEF q, m
<1>4. CASE n % 2 = 1
  <2>1. q + 1 \in 1 .. n /\ m = t[q + 1] /\ m \in Nat
    BY <1>1, <1>2, <1>3, <1>4
  <2>2. AtMost(t, m) \in Nat /\ AtLeast(t, m) \in Nat /\ AtMost(t, m) >= q + 1
        /\ AtLeast(t, m) >= n - (q + 1) + 1
    <3>1. t[q + 1] <= m /\ m <= t[q + 1]
      BY <2>1
    <3>. QED BY <2>1, <3>1, RankCounts
  <2>3. 2 * AtMost(t, m) >= n /\ 2 * AtLeast(t, m) >= n
    BY <1>1, <1>2, <1>4, <2>2
  <2>. QED BY <2>1, <2>3 DEF Halves, m
<1>5. CASE n % 2 # 1
  <2>1. q \in 1 .. n /\ q + 1 \in 1 .. n /\ t[q] \in Nat /\ t[q + 1] \in Nat
        /\ m = (t[q] + t[q + 1]) \div 2
    BY <1>1, <1>2, <1>3, <1>5
  <2>2. t[q] <= t[q + 1]
    <3>1. q <= q + 1
      BY <1>2
    <3>. QED BY <2>1, <3>1 DEF Ascending
  <2>3. m \in Nat /\ t[q] <= m /\ m <= t[q + 1]
    BY <2>1, <2>2
  <2>4. AtMost(t, m) \in Nat /\ AtMost(t, m) >= q
    BY <2>1, <2>3, RankCounts
  <2>5. AtLeast(t, m) \in Nat /\ AtLeast(t, m) >= n - (q + 1) + 1
    BY <2>1, <2>3, RankCounts
  <2>6. 2 * AtMost(t, m) >= n /\ 2 * AtLeast(t, m) >= n
    BY <1>1, <1>2, <1>5, <2>4, <2>5
  <2>. QED BY <2>3, <2>6 DEF Halves, m
<1>. QED BY <1>4, <1>5

LEMMA SortedCounts ==
  ASSUME NEW s \in Seq(Nat)
  PROVE  \E p \in Bijection(1 .. Len(s), 1 .. Len(s)) :
            /\ Ascending(Sorted(s)) /\ Len(Sorted(s)) = Len(s)
            /\ \A i \in 1 .. Len(s) : Sorted(s)[i] = s[p[i]] /\ p[i] \in 1 .. Len(s)
            /\ SameCounts(s, Sorted(s))
<1>1. PICK p : Orders(p, s, Len(s)) /\ Sorted(s) = [i \in 1 .. Len(s) |-> s[p[i]]]
  BY SortedFacts
<1> DEFINE n == Len(s)
           t == Sorted(s)
<1>2. p \in Bijection(1 .. n, 1 .. n) /\ p \in [1 .. n -> 1 .. n] /\ n \in Nat
  BY <1>1 DEF Orders, Bijection, Injection
<1>3. \A i \in 1 .. n : s[p[i]] \in Nat
  BY <1>2
<1>4. t \in [1 .. n -> Nat]
  BY <1>1, <1>3
<1>5. t \in Seq(Nat) /\ Len(t) = n
  BY <1>2, <1>4
<1>6. \A i \in 1 .. n : t[i] = s[p[i]]
  BY <1>1
<1> HIDE DEF t
<1>7. Ascending(t)
  BY <1>1, <1>5, <1>6 DEF Ascending, Orders
<1>8. SameCounts(s, t)
  BY <1>2, <1>5, <1>6, ReorderedCounts
<1>. QED BY <1>2, <1>5, <1>6, <1>7, <1>8 DEF t

LEMMA HalvesSame ==
  ASSUME NEW s, NEW t, NEW m \in Nat, SameCounts(s, t), Len(t) = Len(s)
  PROVE  Halves(s, m) <=> Halves(t, m)
  BY DEF Halves, SameCounts

LEMMA MedianOfSortedHalves ==
  ASSUME NEW s \in Seq(Nat), Len(s) >= 1
  PROVE  MedianOfSorted(Sorted(s)) \in Nat /\ Halves(s, MedianOfSorted(Sorted(s)))
<1>1. Ascending(Sorted(s)) /\ Len(Sorted(s)) = Len(s) /\ SameCounts(s, Sorted(s))
  BY SortedCounts
<1>2. MedianOfSorted(Sorted(s)) \in Nat /\ Halves(Sorted(s), MedianOfSorted(Sorted(s)))
  BY <1>1, MedianHalves
<1>. QED BY <1>1, <1>2, HalvesSame

\* ceil(0.95 * n) is a rank, 95 of 100 are below it or at it, and fewer below.
LEMMA NearestRank ==
  ASSUME NEW n \in Nat, n >= 1
  PROVE  LET r == (95 * n + 99) \div 100 IN
         r \in 1 .. n /\ 100 * r >= 95 * n /\ 100 * (r - 1) < 95 * n
  OBVIOUS

(***************************************************************************)
(* CalculateResultStatistics computes what its names say, for every number *)
(* of samples.                                                             *)
(***************************************************************************)
LEMMA StatisticsFacts ==
  ASSUME NEW s \in Seq(Nat), Len(s) >= 1
  PROVE  IsDistributionOf(Statistics(s), s)
<1> DEFINE n == Len(s)
           t == Sorted(s)
           median == MedianOfSorted(t)
           rank == (95 * Len(t) + 99) \div 100
           far == [i \in DOMAIN t |-> Distance(t[i], median)]
           away == [i \in DOMAIN s |-> Distance(s[i], median)]
           mad == MedianOfSorted(Sorted(far))
<1>1. PICK p \in Bijection(1 .. n, 1 .. n) :
            /\ Ascending(t) /\ Len(t) = n
            /\ \A i \in 1 .. n : t[i] = s[p[i]] /\ p[i] \in 1 .. n
            /\ SameCounts(s, t)
  BY SortedCounts
<1>2. n \in Nat /\ DOMAIN s = 1 .. n /\ DOMAIN t = 1 .. n
      /\ \A i \in 1 .. n : s[i] \in Nat /\ t[i] \in Nat
  BY <1>1 DEF Ascending
<1>3. median \in Nat /\ Halves(s, median)
  BY MedianOfSortedHalves
<1>4. rank \in 1 .. n /\ 100 * rank >= 95 * n /\ 100 * (rank - 1) < 95 * n
  BY <1>1, <1>2, NearestRank
<1>5. Statistics(s) = [stored |-> FALSE, median |-> median, p95 |-> t[rank], mad |-> mad]
  BY DEF Statistics
<1> HIDE DEF t, median, rank
<1>6. t[rank] \in Nat /\ t[rank] \in {s[i] : i \in DOMAIN s}
  BY <1>1, <1>2, <1>4
<1>7. AtMost(t, t[rank]) \in Nat /\ AtMost(t, t[rank]) >= rank
  <2>1. t[rank] <= t[rank] /\ rank \in 1 .. Len(t)
    BY <1>1, <1>4, <1>6
  <2>. QED BY <1>1, <1>6, <2>1, RankCounts
<1>8. 100 * AtMost(s, t[rank]) >= 95 * n
  <2>1. AtMost(s, t[rank]) = AtMost(t, t[rank])
    BY <1>1, <1>6 DEF SameCounts
  <2>. QED BY <2>1, <1>2, <1>4, <1>7
<1>9. ASSUME NEW v \in 0 .. t[rank] - 1 PROVE 100 * AtMost(s, v) < 95 * n
  <2>1. v \in Nat /\ v < t[rank]
    BY <1>6
  <2>2. AtMost(t, v) \in Nat /\ AtMost(t, v) <= rank - 1
    BY <1>1, <1>4, <2>1, RankCounts
  <2>3. AtMost(s, v) = AtMost(t, v)
    BY <1>1, <2>1 DEF SameCounts
  <2>. QED BY <2>2, <2>3, <1>2, <1>4
<1>10. Halves(away, mad)
  <2>1. \A x \in Nat : Distance(x, median) \in Nat
    BY <1>3 DEF Distance
  <2>2. far \in Seq(Nat) /\ Len(far) = n /\ away \in Seq(Nat) /\ Len(away) = n
    <3>1. far \in [1 .. n -> Nat] /\ away \in [1 .. n -> Nat]
      BY <1>2, <2>1
    <3>. QED BY <3>1, <1>2
  <2>3. \A i \in 1 .. n : far[i] = away[p[i]]
    BY <1>1, <1>2
  <2> HIDE DEF far, away
  <2>4. SameCounts(away, far)
    BY <2>2, <2>3, ReorderedCounts
  <2>5. mad \in Nat /\ Halves(far, mad)
    BY <2>2, MedianOfSortedHalves
  <2>. QED BY <2>2, <2>4, <2>5, HalvesSame
<1> HIDE DEF mad
<1>. QED BY <1>3, <1>5, <1>6, <1>8, <1>9, <1>10 DEF IsDistributionOf, away

-----------------------------------------------------------------------------
(* What a record looks like, line by line. *)

Kinds == {"other", "start", "id", "group", "outcome", "average", "median", "no_samples", "samples",
          "sample", "samples_end", "oracle", "end", "close"}
FieldValues == {"PASS", "FAIL"} \cup BOOLEAN \cup Values \cup Ids
LineSet == [kind : Kinds] \cup [kind : Kinds, value : FieldValues]

\* How many lines a record has before its samples, for them, and in all.
Before(r) == IF r.old THEN 4 ELSE 6
Between(r) == IF r.group THEN 1 ELSE Len(r.samples) + 2
Size(r) == Before(r) + Between(r) + (IF r.oracle = "none" THEN 1 ELSE 2)

LEMMA MeasuredFacts ==
  ASSUME NEW r \in Measured
  PROVE  /\ r.id \in Ids /\ r.group \in BOOLEAN /\ r.old \in BOOLEAN
         /\ r.oracle \in {"none", "PASS", "FAIL"} /\ r.average \in Values /\ r.median \in Values
         /\ r.samples \in Seq(Values) /\ Len(r.samples) \in Nat
         /\ Before(r) \in Nat /\ Between(r) \in Nat /\ Size(r) \in Nat
         /\ Before(r) >= 4 /\ Between(r) >= 1 /\ Size(r) > Before(r) + Between(r)
         /\ Outcome(r) \in {"PASS", "FAIL"}
<1>1. /\ r.id \in Ids /\ r.group \in BOOLEAN /\ r.old \in BOOLEAN
      /\ r.oracle \in {"none", "PASS", "FAIL"} /\ r.average \in Values /\ r.median \in Values
      /\ r.samples \in Seq(Values)
  BY DEF Measured
<1>2. Len(r.samples) \in Nat
  BY <1>1
<1>3. Outcome(r) \in {"PASS", "FAIL"}
  BY DEF Outcome
<1>4. Before(r) \in Nat /\ Before(r) >= 4
  BY DEF Before
<1>5. Between(r) \in Nat /\ Between(r) >= 1
  BY <1>2 DEF Between
<1>6. Size(r) \in Nat /\ Size(r) > Before(r) + Between(r)
  BY <1>4, <1>5 DEF Size
<1>. QED BY <1>1, <1>2, <1>3, <1>4, <1>5, <1>6

LEMMA LineIsLine ==
  ASSUME NEW kind \in Kinds
  PROVE  Line(kind) \in LineSet
  BY DEF Line, LineSet

LEMMA FieldIsLine ==
  ASSUME NEW kind \in Kinds, NEW value \in FieldValues
  PROVE  Field(kind, value) \in LineSet
  BY DEF Field, LineSet

\* u is s followed by t.
Joins(s, t, u) ==
    /\ Len(u) = Len(s) + Len(t)
    /\ \A i \in 1 .. Len(s) : u[i] = s[i]
    /\ \A i \in 1 .. Len(t) : u[Len(s) + i] = t[i]

LEMMA Joined ==
  ASSUME NEW X, NEW s \in Seq(X), NEW t \in Seq(X)
  PROVE  s \o t \in Seq(X) /\ Joins(s, t, s \o t)
  BY DEF Joins

\* u is s and one line more.
Adds(s, l, u) == Len(u) = Len(s) + 1 /\ u[Len(u)] = l /\ \A i \in 1 .. Len(s) : u[i] = s[i]

LEMMA OneLineMore ==
  ASSUME NEW s \in Seq(LineSet), NEW l \in LineSet
  PROVE  s \o <<l>> \in Seq(LineSet) /\ Adds(s, l, s \o <<l>>)
<1>1. <<l>> \in Seq(LineSet) /\ Len(<<l>>) = 1 /\ <<l>>[1] = l /\ 1 \in 1 .. Len(<<l>>) /\ Len(s) \in Nat
  OBVIOUS
<1> DEFINE u == s \o <<l>>
<1>2. u \in Seq(LineSet) /\ Joins(s, <<l>>, u)
  BY <1>1, Joined
<1> HIDE DEF u
<1>3. Len(u) = Len(s) + 1 /\ u[Len(s) + 1] = l
  BY <1>1, <1>2 DEF Joins
<1>. QED BY <1>2, <1>3 DEF Adds, Joins, u

LEMMA FieldFacts ==
  ASSUME NEW r \in Measured
  PROVE  LET F == FieldLines(r) IN
         /\ F \in Seq(LineSet) /\ Len(F) = Before(r)
         /\ F[1] = Line("start") /\ F[2] = Field("id", r.id) /\ F[3] = Field("group", r.group)
         /\ r.old => F[4] = Field("average", r.average)
         /\ ~r.old => /\ F[4] = Field("outcome", Outcome(r)) /\ F[5] = Field("average", r.average)
                      /\ F[6] = Field("median", r.median)
<1> DEFINE s == Line("start")
           i == Field("id", r.id)
           g == Field("group", r.group)
           o == Field("outcome", Outcome(r))
           a == Field("average", r.average)
           m == Field("median", r.median)
<1>1. s \in LineSet /\ i \in LineSet /\ g \in LineSet /\ o \in LineSet /\ a \in LineSet /\ m \in LineSet
  <2>1. s \in LineSet
    BY LineIsLine DEF Kinds
  <2>2. /\ r.id \in FieldValues /\ r.group \in FieldValues /\ Outcome(r) \in FieldValues
        /\ r.average \in FieldValues /\ r.median \in FieldValues
    BY MeasuredFacts DEF FieldValues
  <2>3. {"id", "group", "outcome", "average", "median"} \subseteq Kinds
    BY DEF Kinds
  <2>. QED BY <2>1, <2>2, <2>3, FieldIsLine
<1>2. FieldLines(r) = (((<<s, i, g>> \o Opt(~r.old, o)) \o <<a>>) \o Opt(~r.old, m))
  BY DEF FieldLines
<1> HIDE DEF s, i, g, o, a, m
<1>3. CASE r.old
  <2>1. Opt(~r.old, o) = <<>> /\ Opt(~r.old, m) = <<>>
    BY <1>3 DEF Opt
  <2>2. <<s, i, g>> \o <<>> = <<s, i, g>>
    OBVIOUS
  <2> DEFINE T == <<s, i, g>> \o <<a>>
  <2>3. T \o <<>> = T /\ T \in Seq(LineSet) /\ Adds(<<s, i, g>>, a, T)
    <3>1. <<s, i, g>> \in Seq(LineSet)
      BY <1>1
    <3>2. T \in Seq(LineSet) /\ Adds(<<s, i, g>>, a, T)
      BY <1>1, <3>1, OneLineMore
    <3> HIDE DEF T
    <3>. QED BY <3>2
  <2> HIDE DEF T
  <2>4. FieldLines(r) = T
    BY <1>2, <2>1, <2>2, <2>3 DEF T
  <2>. QED BY <1>3, <2>3, <2>4 DEF Before, Adds, s, i, g, a
<1>4. CASE ~r.old
  <2>1. Opt(~r.old, o) = <<o>> /\ Opt(~r.old, m) = <<m>>
    BY <1>4 DEF Opt
  <2> DEFINE T == <<s, i, g>> \o <<o>>
             U == T \o <<a>>
             W == U \o <<m>>
  <2>2. T \in Seq(LineSet) /\ Adds(<<s, i, g>>, o, T)
    <3>1. <<s, i, g>> \in Seq(LineSet)
      BY <1>1
    <3>. QED BY <1>1, <3>1, OneLineMore
  <2> HIDE DEF T
  <2>3. U \in Seq(LineSet) /\ Adds(T, a, U)
    BY <1>1, <2>2, OneLineMore
  <2> HIDE DEF U
  <2>4. W \in Seq(LineSet) /\ Adds(U, m, W)
    BY <1>1, <2>3, OneLineMore
  <2> HIDE DEF W
  <2>5. FieldLines(r) = W
    BY <1>2, <2>1 DEF T, U, W
  <2>6. Len(T) = 4 /\ T[1] = s /\ T[2] = i /\ T[3] = g /\ T[4] = o
    BY <2>2 DEF Adds
  <2>7. Len(U) = 5 /\ U[1] = s /\ U[2] = i /\ U[3] = g /\ U[4] = o /\ U[5] = a
    BY <2>3, <2>6 DEF Adds
  <2>8. Len(W) = 6 /\ W[1] = s /\ W[2] = i /\ W[3] = g /\ W[4] = o /\ W[5] = a /\ W[6] = m
    BY <2>4, <2>7 DEF Adds
  <2>. QED BY <1>4, <2>4, <2>5, <2>8 DEF Before, s, i, g, o, a, m
<1>. QED BY <1>3, <1>4

LEMMA SampleLineFacts ==
  ASSUME NEW r \in Measured
  PROVE  LET S == SampleLines(r) IN
         /\ S \in Seq(LineSet) /\ Len(S) = Between(r)
         /\ r.group => S[1] = Line("no_samples")
         /\ ~r.group =>
              /\ S[1] = Line("samples") /\ S[Len(r.samples) + 2] = Line("samples_end")
              /\ \A j \in 1 .. Len(r.samples) : S[j + 1] = Field("sample", r.samples[j])
<1> DEFINE open == Line("samples")
           shut == Line("samples_end")
           mid == [i \in DOMAIN r.samples |-> Field("sample", r.samples[i])]
           n == Len(r.samples)
<1>1. open \in LineSet /\ shut \in LineSet /\ Line("no_samples") \in LineSet
  <2>1. {"samples", "samples_end", "no_samples"} \subseteq Kinds
    BY DEF Kinds
  <2>. QED BY <2>1, LineIsLine
<1>2. n \in Nat /\ DOMAIN r.samples = 1 .. n /\ \A j \in 1 .. n : r.samples[j] \in Values
  BY MeasuredFacts
<1>3. \A j \in 1 .. n : Field("sample", r.samples[j]) \in LineSet
  <2>1. "sample" \in Kinds /\ \A j \in 1 .. n : r.samples[j] \in FieldValues
    BY <1>2 DEF Kinds, FieldValues
  <2>. QED BY <2>1, FieldIsLine
<1>4. mid \in Seq(LineSet) /\ Len(mid) = n /\ \A j \in 1 .. n : mid[j] = Field("sample", r.samples[j])
  <2>1. mid \in [1 .. n -> LineSet]
    BY <1>2, <1>3
  <2>. QED BY <2>1, <1>2
<1>5. SampleLines(r) = IF r.group THEN <<Line("no_samples")>> ELSE (<<open>> \o mid) \o <<shut>>
  BY DEF SampleLines
<1> HIDE DEF open, shut, mid, n
<1>6. CASE r.group
  BY <1>1, <1>5, <1>6 DEF Between
<1>7. CASE ~r.group
  <2> DEFINE S == SampleLines(r)
             T == <<open>> \o mid
  <2>1. <<open>> \in Seq(LineSet) /\ Len(<<open>>) = 1 /\ <<open>>[1] = open
        /\ <<shut>> \in Seq(LineSet) /\ Len(<<shut>>) = 1 /\ <<shut>>[1] = shut
    BY <1>1
  <2>2. T \in Seq(LineSet) /\ Len(T) = n + 1 /\ T[1] = open /\ \A j \in 1 .. n : T[j + 1] = mid[j]
    BY <1>2, <1>4, <2>1
  <2>3. S = T \o <<shut>>
    BY <1>5, <1>7
  <2> HIDE DEF S, T
  <2>4. S \in Seq(LineSet) /\ Len(S) = n + 2 /\ S[n + 2] = shut /\ \A j \in 1 .. n + 1 : S[j] = T[j]
    BY <1>2, <2>1, <2>2, <2>3
  <2>5. S[1] = open /\ \A j \in 1 .. n : S[j + 1] = mid[j]
    BY <1>2, <2>2, <2>4
  <2>. QED BY <1>4, <1>7, <2>4, <2>5 DEF Between, S, open, shut, n
<1>. QED BY <1>6, <1>7

LEMMA RecordFacts ==
  ASSUME NEW r \in Measured
  PROVE  LET R == RecordLines(r) IN
         /\ R \in Seq(LineSet) /\ Len(R) = Size(r) /\ DOMAIN R = 1 .. Size(r)
         /\ \A i \in 1 .. Before(r) : R[i] = FieldLines(r)[i]
         /\ \A i \in 1 .. Between(r) : R[Before(r) + i] = SampleLines(r)[i]
         /\ r.oracle # "none" => R[Size(r) - 1] = Field("oracle", r.oracle)
         /\ R[Size(r)] = Line("end")
<1> DEFINE F == FieldLines(r)
           S == SampleLines(r)
           O == Opt(r.oracle # "none", Field("oracle", r.oracle))
           end == <<Line("end")>>
           o == IF r.oracle = "none" THEN 0 ELSE 1
           b == Before(r)
           t == Between(r)
<1>1. F \in Seq(LineSet) /\ Len(F) = b /\ S \in Seq(LineSet) /\ Len(S) = t /\ b \in Nat /\ t \in Nat
  BY FieldFacts, SampleLineFacts, MeasuredFacts
<1>2. end \in Seq(LineSet) /\ Len(end) = 1 /\ end[1] = Line("end")
  <2>1. Line("end") \in LineSet
    BY LineIsLine DEF Kinds
  <2>. QED BY <2>1
<1>3. O \in Seq(LineSet) /\ Len(O) = o /\ o \in Nat /\ (o = 1 => O[1] = Field("oracle", r.oracle))
      /\ (r.oracle # "none" <=> o = 1)
  <2>1. CASE r.oracle = "none"
    BY <2>1 DEF Opt
  <2>2. CASE r.oracle # "none"
    <3>1. r.oracle \in FieldValues /\ "oracle" \in Kinds
      BY <2>2, MeasuredFacts DEF FieldValues, Kinds
    <3>2. Field("oracle", r.oracle) \in LineSet
      BY <3>1, FieldIsLine
    <3>. QED BY <2>2, <3>2 DEF Opt
  <2>. QED BY <2>1, <2>2
<1>4. Size(r) = b + t + o + 1
  BY <1>1 DEF Size
<1>5. RecordLines(r) = ((F \o S) \o O) \o end
  BY DEF RecordLines
<1> HIDE DEF F, S, O, end, o, b, t
<1> DEFINE FS == F \o S
           FSO == FS \o O
           R == FSO \o end
<1>6. /\ FS \in Seq(LineSet) /\ Len(FS) = b + t /\ \A i \in 1 .. b : FS[i] = F[i]
      /\ \A i \in 1 .. t : FS[b + i] = S[i]
  <2>1. FS \in Seq(LineSet) /\ Joins(F, S, FS)
    BY <1>1, Joined
  <2>. QED BY <1>1, <2>1 DEF Joins
<1> HIDE DEF FS
<1>7. /\ FSO \in Seq(LineSet) /\ Len(FSO) = b + t + o /\ \A i \in 1 .. b + t : FSO[i] = FS[i]
      /\ \A i \in 1 .. o : FSO[b + t + i] = O[i]
  <2>1. FSO \in Seq(LineSet) /\ Joins(FS, O, FSO)
    BY <1>3, <1>6, Joined
  <2>. QED BY <1>1, <1>3, <1>6, <2>1 DEF Joins
<1> HIDE DEF FSO
<1>8. /\ R \in Seq(LineSet) /\ Len(R) = b + t + o + 1 /\ \A i \in 1 .. b + t + o : R[i] = FSO[i]
      /\ R[b + t + o + 1] = end[1]
  <2>1. R \in Seq(LineSet) /\ Joins(FSO, end, R)
    BY <1>2, <1>7, Joined
  <2>2. 1 \in 1 .. Len(end)
    BY <1>2
  <2>3. R[Len(FSO) + 1] = end[1]
    BY <2>1, <2>2 DEF Joins
  <2>. QED BY <1>1, <1>2, <1>3, <1>7, <2>1, <2>3 DEF Joins
<1> HIDE DEF R
<1>9. \A i \in 1 .. b : R[i] = F[i]
  BY <1>1, <1>3, <1>6, <1>7, <1>8
<1>10. \A i \in 1 .. t : R[b + i] = S[i]
  <2> SUFFICES ASSUME NEW i \in 1 .. t PROVE R[b + i] = S[i]
    OBVIOUS
  <2>1. b + i \in 1 .. b + t /\ b + i \in 1 .. b + t + o
    BY <1>1, <1>3
  <2>. QED BY <2>1, <1>6, <1>7, <1>8
<1>11. o = 1 => R[b + t + o] = O[1]
  <2> SUFFICES ASSUME o = 1 PROVE R[b + t + o] = O[1]
    OBVIOUS
  <2>1. 1 \in 1 .. o /\ b + t + o \in 1 .. b + t + o
    BY <1>1
  <2>2. FSO[b + t + 1] = O[1]
    BY <1>7, <2>1
  <2>3. R[b + t + o] = FSO[b + t + o]
    BY <1>8, <2>1
  <2>. QED BY <2>2, <2>3
<1>12. RecordLines(r) = R /\ Size(r) - 1 = b + t + o /\ DOMAIN R = 1 .. Size(r)
  BY <1>1, <1>3, <1>4, <1>5, <1>8 DEF R, FSO, FS
<1>. QED BY <1>2, <1>3, <1>4, <1>8, <1>9, <1>10, <1>11, <1>12 DEF F, S, b, t

\* Line l follows the first k lines of record r.
IsLineOf(r, k, l) ==
    \/ k = 0 /\ l = Line("start")
    \/ k = 1 /\ l = Field("id", r.id)
    \/ k = 2 /\ l = Field("group", r.group)
    \/ k = 3 /\ r.old /\ l = Field("average", r.average)
    \/ k = 3 /\ ~r.old /\ l = Field("outcome", Outcome(r))
    \/ k = 4 /\ ~r.old /\ l = Field("average", r.average)
    \/ k = 5 /\ ~r.old /\ l = Field("median", r.median)
    \/ k = Before(r) /\ r.group /\ l = Line("no_samples")
    \/ k = Before(r) /\ ~r.group /\ l = Line("samples")
    \/ ~r.group /\ k - Before(r) \in 1 .. Len(r.samples) /\ l = Field("sample", r.samples[k - Before(r)])
    \/ ~r.group /\ k = Before(r) + Len(r.samples) + 1 /\ l = Line("samples_end")
    \/ r.oracle # "none" /\ k = Size(r) - 2 /\ l = Field("oracle", r.oracle)
    \/ k = Size(r) - 1 /\ l = Line("end")

LEMMA LineOfRecord ==
  ASSUME NEW r \in Measured, NEW k \in 0 .. Size(r) - 1
  PROVE  IsLineOf(r, k, RecordLines(r)[k + 1])
<1> DEFINE R == RecordLines(r)
           F == FieldLines(r)
           S == SampleLines(r)
           b == Before(r)
           t == Between(r)
           n == Len(r.samples)
           l == R[k + 1]
<1>1. /\ b \in Nat /\ t \in Nat /\ n \in Nat /\ Size(r) \in Nat /\ k \in Nat /\ k < Size(r)
      /\ Size(r) = b + t + (IF r.oracle = "none" THEN 1 ELSE 2)
      /\ t = (IF r.group THEN 1 ELSE n + 2) /\ b = (IF r.old THEN 4 ELSE 6)
  <2>1. b \in Nat /\ t \in Nat /\ n \in Nat /\ Size(r) \in Nat
    BY MeasuredFacts
  <2>2. Size(r) = b + t + (IF r.oracle = "none" THEN 1 ELSE 2)
    BY DEF Size
  <2>3. t = (IF r.group THEN 1 ELSE n + 2) /\ b = (IF r.old THEN 4 ELSE 6)
    BY DEF Between, Before
  <2> HIDE DEF b, t, n
  <2>. QED BY <2>1, <2>2, <2>3
<1>2. /\ \A i \in 1 .. b : R[i] = F[i]
      /\ \A i \in 1 .. t : R[b + i] = S[i]
      /\ r.oracle # "none" => R[Size(r) - 1] = Field("oracle", r.oracle)
      /\ R[Size(r)] = Line("end")
  BY RecordFacts
<1>3. /\ F[1] = Line("start") /\ F[2] = Field("id", r.id) /\ F[3] = Field("group", r.group)
      /\ r.old => F[4] = Field("average", r.average)
      /\ ~r.old => /\ F[4] = Field("outcome", Outcome(r)) /\ F[5] = Field("average", r.average)
                   /\ F[6] = Field("median", r.median)
  BY FieldFacts
<1>4. /\ r.group => S[1] = Line("no_samples")
      /\ ~r.group => /\ S[1] = Line("samples") /\ S[n + 2] = Line("samples_end")
                     /\ \A j \in 1 .. n : S[j + 1] = Field("sample", r.samples[j])
  BY SampleLineFacts
<1> HIDE DEF R, F, S, b, t, n, l
<1>5. CASE k < b
  <2>1. k + 1 \in 1 .. b /\ l = F[k + 1]
    BY <1>1, <1>2, <1>5 DEF l
  <2>2. k \in {0, 1, 2, 3} \/ (~r.old /\ k \in {4, 5})
    BY <1>1, <1>5
  <2>. QED BY <2>1, <2>2, <1>3 DEF IsLineOf, l, R
<1>6. CASE b <= k /\ k < b + t
  <2>1. k + 1 - b \in 1 .. t /\ k + 1 = b + (k + 1 - b)
    BY <1>1, <1>6
  <2>2. l = S[k + 1 - b]
    BY <1>2, <2>1 DEF l
  <2>3. CASE r.group
    <3>1. k = b /\ k + 1 - b = 1
      BY <1>1, <1>6, <2>3
    <3>. QED BY <3>1, <2>2, <2>3, <1>4 DEF IsLineOf, l, R, b
  <2>4. CASE ~r.group /\ k = b
    <3>1. k + 1 - b = 1
      BY <1>1, <2>4
    <3>. QED BY <3>1, <2>2, <2>4, <1>4 DEF IsLineOf, l, R, b
  <2>5. CASE ~r.group /\ k # b /\ k - b <= n
    <3>1. k - b \in 1 .. n /\ k + 1 - b = (k - b) + 1
      BY <1>1, <1>6, <2>5
    <3>2. l = Field("sample", r.samples[k - b])
      BY <1>4, <2>2, <2>5, <3>1
    <3>. QED BY <3>1, <3>2, <2>5 DEF IsLineOf, l, R, b, n
  <2>6. CASE ~r.group /\ k - b > n
    <3>1. k = b + n + 1 /\ k + 1 - b = n + 2
      BY <1>1, <1>6, <2>6
    <3>2. l = Line("samples_end")
      BY <1>4, <2>2, <2>6, <3>1
    <3>. QED BY <3>1, <3>2, <2>6 DEF IsLineOf, l, R, b, n
  <2>. QED BY <2>3, <2>4, <2>5, <2>6, <1>1
<1>7. CASE b + t <= k
  <2>1. CASE k = Size(r) - 1
    <3>1. k + 1 = Size(r)
      BY <2>1, <1>1
    <3>. QED BY <2>1, <3>1, <1>2 DEF IsLineOf, l, R
  <2>2. CASE k # Size(r) - 1
    <3>1. r.oracle # "none" /\ k = Size(r) - 2 /\ k + 1 = Size(r) - 1
      BY <1>1, <1>7, <2>2
    <3>. QED BY <3>1, <1>2 DEF IsLineOf, l, R
  <2>. QED BY <2>1, <2>2
<1>. QED BY <1>1, <1>5, <1>6, <1>7 DEF l, R

-----------------------------------------------------------------------------
(* Where in a file a reader is: so many records done, so many lines of the  *)
(* next one read.                                                           *)

Place(run) == [done : 0 .. Len(run), read : Nat]
Standing(n) == [done |-> n, read |-> 0]

\* Reading line l leads from place u to place v.
Reads(run, l, u, v) ==
    \/ u.read = 0 /\ v = u /\ l.kind = "other"
    \/ /\ u.done < Len(run) /\ u.read < Size(run[u.done + 1])
       /\ l = RecordLines(run[u.done + 1])[u.read + 1]
       /\ v = IF u.read + 1 = Size(run[u.done + 1]) THEN [done |-> u.done + 1, read |-> 0]
              ELSE [done |-> u.done, read |-> u.read + 1]

\* The lines s, read from the start, are those of the first n records.
IsLaid(run, s, n, place) ==
    /\ s \in Seq(LineSet) /\ n \in 0 .. Len(run)
    /\ place[0] = Standing(0) /\ place[Len(s)] = Standing(n)
    /\ \A i \in 0 .. Len(s) : place[i] \in Place(run)
    /\ \A i \in 1 .. Len(s) : Reads(run, s[i], place[i - 1], place[i])

Laid(run, s, n) == \E place : IsLaid(run, s, n, place)

LEMMA OtherLaid ==
  ASSUME NEW run \in Seq(Measured), NEW s, NEW n, Laid(run, s, n)
  PROVE  Laid(run, s \o <<Line("other")>>, n)
<1>1. PICK place : IsLaid(run, s, n, place)
  BY DEF Laid
<1> DEFINE L == Len(s)
           u == s \o <<Line("other")>>
           next == [i \in 0 .. L + 1 |-> IF i <= L THEN place[i] ELSE Standing(n)]
<1>2. Line("other") \in LineSet /\ Line("other").kind = "other"
  BY LineIsLine DEF Kinds, Line
<1>3. L \in Nat /\ n \in 0 .. Len(run)
  BY <1>1 DEF IsLaid
<1>4. u \in Seq(LineSet) /\ Len(u) = L + 1 /\ u[L + 1] = Line("other") /\ \A i \in 1 .. L : u[i] = s[i]
  BY <1>1, <1>2, OneLineMore DEF IsLaid, Adds
<1>5. /\ \A i \in 0 .. L : i \in 0 .. L + 1 /\ next[i] = place[i]
      /\ next[L + 1] = Standing(n)
  BY <1>3
<1> HIDE DEF u, next
<1>6. next[0] = Standing(0) /\ Standing(n) \in Place(run) /\ next[L] = Standing(n)
  BY <1>1, <1>3, <1>5 DEF IsLaid, Standing, Place
<1>7. ASSUME NEW i \in 0 .. L + 1 PROVE next[i] \in Place(run)
  <2>1. i \in 0 .. L \/ i = L + 1
    BY <1>3
  <2>. QED BY <2>1, <1>1, <1>5, <1>6 DEF IsLaid
<1>8. ASSUME NEW i \in 1 .. L + 1 PROVE Reads(run, u[i], next[i - 1], next[i])
  <2>1. CASE i = L + 1
    <3>1. u[i] = Line("other") /\ next[i - 1] = Standing(n) /\ next[i] = Standing(n)
      BY <2>1, <1>3, <1>4, <1>5, <1>6
    <3>. QED BY <3>1, <1>2 DEF Reads, Standing
  <2>2. CASE i # L + 1
    <3>1. i \in 1 .. L /\ i \in 0 .. L /\ i - 1 \in 0 .. L
      BY <2>2, <1>3
    <3>2. u[i] = s[i] /\ next[i - 1] = place[i - 1] /\ next[i] = place[i]
      BY <3>1, <1>4, <1>5
    <3>. QED BY <3>1, <3>2, <1>1 DEF IsLaid
  <2>. QED BY <2>1, <2>2
<1>9. IsLaid(run, u, n, next)
  BY <1>3, <1>4, <1>5, <1>6, <1>7, <1>8 DEF IsLaid
<1>. QED BY <1>9 DEF Laid, u

LEMMA RecordLaid ==
  ASSUME NEW run \in Seq(Measured), NEW s, NEW n, Laid(run, s, n), n < Len(run)
  PROVE  Laid(run, s \o RecordLines(run[n + 1]), n + 1)
<1>1. PICK place : IsLaid(run, s, n, place)
  BY DEF Laid
<1> DEFINE L == Len(s)
           r == run[n + 1]
           R == RecordLines(r)
           z == Size(r)
           u == s \o R
           next == [i \in 0 .. L + z |-> IF i <= L THEN place[i]
                                         ELSE IF i = L + z THEN Standing(n + 1)
                                         ELSE [done |-> n, read |-> i - L]]
<1>2. L \in Nat /\ n \in Nat /\ Len(run) \in Nat /\ n + 1 \in 1 .. Len(run) /\ r \in Measured /\ s \in Seq(LineSet)
  BY <1>1 DEF IsLaid
<1>3. z \in Nat /\ z >= 1 /\ R \in Seq(LineSet) /\ Len(R) = z
  <2>1. z \in Nat /\ z > Before(r) + Between(r) /\ Before(r) \in Nat /\ Between(r) \in Nat
    BY <1>2, MeasuredFacts
  <2>2. R \in Seq(LineSet) /\ Len(R) = z
    BY <1>2, RecordFacts
  <2> HIDE DEF r, R, z
  <2>. QED BY <2>1, <2>2
<1> HIDE DEF r, R, z
<1>4. u \in Seq(LineSet) /\ Joins(s, R, u)
  BY <1>2, <1>3, Joined
<1>5. /\ \A i \in 0 .. L : i \in 0 .. L + z /\ next[i] = place[i]
      /\ next[L + z] = Standing(n + 1)
      /\ \A i \in L + 1 .. L + z - 1 : next[i] = [done |-> n, read |-> i - L]
  BY <1>2, <1>3
<1> HIDE DEF u, next
<1>6. next[0] = Standing(0) /\ next[L] = Standing(n)
  BY <1>1, <1>2, <1>5 DEF IsLaid
<1>7. Len(u) = L + z /\ (\A i \in 1 .. L : u[i] = s[i]) /\ \A j \in 1 .. z : u[L + j] = R[j]
  BY <1>3, <1>4 DEF Joins
<1>8. \A i \in 0 .. L + z : i \in 0 .. L \/ i \in L + 1 .. L + z - 1 \/ i = L + z
  BY <1>2, <1>3
<1>9. ASSUME NEW i \in 0 .. L + z PROVE next[i] \in Place(run)
  <2>1. CASE i \in 0 .. L
    BY <2>1, <1>1, <1>5 DEF IsLaid
  <2>2. CASE i \in L + 1 .. L + z - 1
    <3>1. next[i] = [done |-> n, read |-> i - L]
      BY <2>2, <1>5
    <3>2. i - L \in Nat /\ n \in 0 .. Len(run)
      BY <2>2, <1>2, <1>3
    <3>. QED BY <3>1, <3>2 DEF Place
  <2>3. CASE i = L + z
    <3>1. next[i] = [done |-> n + 1, read |-> 0] /\ n + 1 \in 0 .. Len(run)
      BY <2>3, <1>2, <1>5 DEF Standing
    <3>. QED BY <3>1 DEF Place
  <2>. QED BY <2>1, <2>2, <2>3, <1>8
<1>10. ASSUME NEW j \in 0 .. z - 1
       PROVE  next[L + j] = [done |-> n, read |-> j]
  <2>1. CASE j = 0
    BY <2>1, <1>2, <1>6 DEF Standing
  <2>2. CASE j # 0
    <3>1. L + j \in L + 1 .. L + z - 1 /\ (L + j) - L = j
      BY <2>2, <1>2, <1>3
    <3>. QED BY <3>1, <1>5
  <2>. QED BY <2>1, <2>2
<1>11. ASSUME NEW i \in 1 .. L + z PROVE Reads(run, u[i], next[i - 1], next[i])
  <2>1. CASE i \in 1 .. L
    <3>1. i \in 0 .. L /\ i - 1 \in 0 .. L
      BY <2>1, <1>2
    <3>2. u[i] = s[i] /\ next[i - 1] = place[i - 1] /\ next[i] = place[i]
      BY <2>1, <3>1, <1>5, <1>7
    <3>. QED BY <2>1, <3>2, <1>1 DEF IsLaid
  <2>2. CASE i \notin 1 .. L
    <3> DEFINE j == i - 1 - L
    <3>1. j \in 0 .. z - 1 /\ j \in Nat /\ j < z /\ i - 1 = L + j /\ i = L + (j + 1) /\ j + 1 \in 1 .. z
      BY <2>2, <1>2, <1>3
    <3> HIDE DEF j
    <3>2. next[i - 1] = [done |-> n, read |-> j]
      BY <3>1, <1>10
    <3>3. u[i] = R[j + 1]
      BY <3>1, <1>7
    <3>4. next[i] = IF j + 1 = z THEN [done |-> n + 1, read |-> 0] ELSE [done |-> n, read |-> j + 1]
      <4>1. CASE j + 1 = z
        BY <4>1, <3>1, <1>5 DEF Standing
      <4>2. CASE j + 1 # z
        <5>1. j + 1 \in 0 .. z - 1
          BY <4>2, <3>1, <1>3
        <5>. QED BY <4>2, <5>1, <3>1, <1>10
      <4>. QED BY <4>1, <4>2
    <3>. QED BY <3>1, <3>2, <3>3, <3>4, <1>2 DEF Reads, r, R, z
  <2>. QED BY <2>1, <2>2
<1>12. IsLaid(run, u, n + 1, next)
  <2>1. n + 1 \in 0 .. Len(run)
    BY <1>2
  <2>. QED BY <2>1, <1>4, <1>5, <1>6, <1>7, <1>9, <1>11 DEF IsLaid
<1>. QED BY <1>12 DEF Laid, u, R, r

\* A function that is defined from its value one below exists.
Recurs(g, N, base, step) ==
    \A i \in 0 .. N : g[i] = IF i = 0 THEN base ELSE step[<<i, g[i - 1]>>]

LEMMA RecursionExists ==
    ASSUME NEW N \in Nat, NEW V, NEW base \in V,
           NEW step \in [(1 .. N) \X V -> V]
    PROVE  \E g \in [0 .. N -> V] : Recurs(g, N, base, step)
<1> DEFINE Is(n, g) == \A i \in 0..n :
               g[i] = IF i = 0 THEN base ELSE step[<<i, g[i - 1]>>]
           T == {n \in Nat : n <= N => \E g \in [0..n -> V] : Is(n, g)}
<1>1. 0 \in T
  <2>1. Is(0, [i \in 0..0 |-> base])
    OBVIOUS
  <2>2. [i \in 0..0 |-> base] \in [0..0 -> V]
    OBVIOUS
  <2> QED BY <2>1, <2>2
<1>2. ASSUME NEW n \in Nat, n \in T, n + 1 <= N
      PROVE  \E g \in [0..(n + 1) -> V] : Is(n + 1, g)
  <2>1. PICK g \in [0..n -> V] : Is(n, g)
    BY <1>2
  <2> DEFINE h == [i \in 0..(n + 1) |->
                     IF i = n + 1 THEN step[<<n + 1, g[n]>>] ELSE g[i]]
  <2>2. step[<<n + 1, g[n]>>] \in V
    <3>1. <<n + 1, g[n]>> \in (1 .. N) \X V
      BY <1>2
    <3> QED BY <3>1
  <2>3. h \in [0..(n + 1) -> V]
    BY <2>2
  <2>4. Is(n + 1, h)
    <3> SUFFICES ASSUME NEW i \in 0..(n + 1)
                 PROVE  h[i] = IF i = 0 THEN base ELSE step[<<i, h[i - 1]>>]
      OBVIOUS
    <3>1. CASE i = n + 1
      <4>1. h[i] = step[<<i, g[n]>>] /\ h[i - 1] = g[n] /\ i # 0
        BY <3>1
      <4> QED BY <3>1, <4>1
    <3>2. CASE i \in 0..n
      <4>1. h[i] = g[i] /\ (i # 0 => h[i - 1] = g[i - 1])
        BY <3>2
      <4> QED BY <2>1, <3>2, <4>1
    <3> QED BY <3>1, <3>2
  <2> HIDE DEF h, Is
  <2> QED BY <2>3, <2>4
<1>3. Nat \subseteq T
  <2> HIDE DEF Is
  <2>1. \A n \in Nat : n \in T => n + 1 \in T
    BY <1>2
  <2> HIDE DEF T
  <2> QED BY <1>1, <2>1, SetInduction
<1>4. PICK g \in [0 .. N -> V] : Is(N, g)
  <2> HIDE DEF Is
  <2> QED BY <1>3
<1> QED BY <1>4 DEF Recurs

\* A run that ended leaves its records, laid out, and the closing line.
LEMMA WholeFileIsLaid ==
  ASSUME NEW run \in Seq(Measured)
  PROVE  \E s : Laid(run, s, Len(run)) /\ RunLines(run) = s \o <<Line("close")>>
<1> DEFINE N == Len(run)
           V == Seq(LineSet)
           More(i, x) == (x \o Opt(i > 1, Line("other"))) \o RecordLines(run[i])
           body(g) == [n \in 0 .. N |-> IF n = 0 THEN <<Line("other")>>
                                        ELSE (g[n - 1] \o Opt(n > 1, Line("other"))) \o RecordLines(run[n])]
           upto == CHOOSE g : g = body(g)
<1>1. N \in Nat /\ \A i \in 1 .. N : run[i] \in Measured
  OBVIOUS
<1>2. Line("other") \in LineSet /\ <<Line("other")>> \in V
  <2>1. Line("other") \in LineSet
    BY LineIsLine DEF Kinds
  <2>. QED BY <2>1
<1>3. RunLines(run) = upto[N] \o <<Line("close")>>
  BY DEF RunLines
<1>4. \E g : g = body(g)
  <2> DEFINE step == [x \in (1 .. N) \X V |-> More(x[1], x[2])]
  <2>1. step \in [(1 .. N) \X V -> V]
    <3>1. ASSUME NEW x \in (1 .. N) \X V
          PROVE  More(x[1], x[2]) \in V
      <4>1. x[1] \in 1 .. N /\ x[2] \in V
        BY <3>1
      <4>2. Opt(x[1] > 1, Line("other")) \in V
        BY <1>2 DEF Opt
      <4>3. x[2] \o Opt(x[1] > 1, Line("other")) \in V
        BY <4>1, <4>2, Joined
      <4>4. RecordLines(run[x[1]]) \in V
        BY <1>1, <4>1, RecordFacts
      <4>. QED BY <4>3, <4>4, Joined
    <3> HIDE DEF More, V
    <3>. QED BY <3>1
  <2>2. PICK g \in [0 .. N -> V] : Recurs(g, N, <<Line("other")>>, step)
    <3> HIDE DEF step, V, N
    <3>. QED BY <1>1, <1>2, <2>1, RecursionExists
  <2>3. \A n \in 0 .. N : g[n] = IF n = 0 THEN <<Line("other")>> ELSE More(n, g[n - 1])
    <3> SUFFICES ASSUME NEW n \in 0 .. N, n # 0
                 PROVE  step[<<n, g[n - 1]>>] = More(n, g[n - 1])
      BY <2>2 DEF Recurs
    <3>1. <<n, g[n - 1]>> \in (1 .. N) \X V
      BY <1>1
    <3> HIDE DEF More, V
    <3>. QED BY <3>1
  <2>4. g = body(g)
    BY <2>2, <2>3
  <2>. QED BY <2>4
<1>5. upto = body(upto)
  <2> HIDE DEF body
  <2>. QED BY <1>4
<1>6. \A n \in 0 .. N : upto[n] = IF n = 0 THEN <<Line("other")>> ELSE More(n, upto[n - 1])
  <2> HIDE DEF upto
  <2>. QED BY <1>5
<1> HIDE DEF upto
<1> DEFINE T == {n \in Nat : n <= N => Laid(run, upto[n], n)}
<1>7. 0 \in T
  <2> DEFINE none == <<>>
             start == [i \in 0 .. 0 |-> Standing(0)]
  <2>1. none \in Seq(LineSet) /\ Len(none) = 0 /\ none \o <<Line("other")>> = <<Line("other")>>
    OBVIOUS
  <2>2. start[0] = Standing(0) /\ Standing(0) \in Place(run) /\ 0 \in 0 .. Len(run)
    BY <1>1 DEF Standing, Place
  <2> HIDE DEF none, start
  <2>3. IsLaid(run, none, 0, start)
    BY <2>1, <2>2 DEF IsLaid
  <2>4. Laid(run, none, 0)
    BY <2>3 DEF Laid
  <2>5. Laid(run, none \o <<Line("other")>>, 0)
    BY <2>4, OtherLaid
  <2>6. upto[0] = <<Line("other")>>
    BY <1>1, <1>6
  <2>. QED BY <2>1, <2>5, <2>6
<1>8. \A n \in Nat : n \in T => n + 1 \in T
  <2> SUFFICES ASSUME NEW n \in Nat, n \in T, n + 1 <= N PROVE Laid(run, upto[n + 1], n + 1)
    OBVIOUS
  <2> DEFINE x == upto[n]
             sep == Opt(n + 1 > 1, Line("other"))
  <2>1. Laid(run, x, n) /\ n < Len(run)
    BY <1>1
  <2>2. upto[n + 1] = (x \o sep) \o RecordLines(run[n + 1])
    <3>1. n + 1 \in 0 .. N /\ n + 1 # 0 /\ (n + 1) - 1 = n
      BY <1>1
    <3>. QED BY <3>1, <1>6
  <2> HIDE DEF x
  <2>3. Laid(run, x \o sep, n)
    <3>1. CASE n + 1 > 1
      <4>1. sep = <<Line("other")>>
        BY <3>1 DEF Opt
      <4>. QED BY <4>1, <2>1, OtherLaid
    <3>2. CASE ~(n + 1 > 1)
      <4>1. sep = <<>>
        BY <3>2 DEF Opt
      <4>2. x \in Seq(LineSet)
        BY <2>1 DEF Laid, IsLaid
      <4>3. x \o <<>> = x
        BY <4>2
      <4>. QED BY <4>1, <4>3, <2>1
    <3>. QED BY <3>1, <3>2
  <2> HIDE DEF sep
  <2>4. Laid(run, (x \o sep) \o RecordLines(run[n + 1]), n + 1)
    BY <2>1, <2>3, RecordLaid
  <2>. QED BY <2>2, <2>4
<1>9. N \in T
  <2>1. Nat \subseteq T
    <3> HIDE DEF T
    <3>. QED BY <1>7, <1>8, SetInduction
  <2> HIDE DEF T
  <2>. QED BY <1>1, <2>1
<1>10. Laid(run, upto[N], N)
  <2>1. N <= N
    BY <1>1
  <2>. QED BY <1>9, <2>1
<1>. QED BY <1>3, <1>10

\* What may end a file that is not cut between two lines.
LastLine(l) ==
    /\ l.kind \in {"other", "sample", "average", "median", "samples", "samples_end", "close"}
    /\ l.kind = "sample" => l.value \in Values

LEMMA TornLine ==
  ASSUME NEW l, NEW t \in Torn(l)
  PROVE  LastLine(t) /\ t.kind # "close"
<1>1. CASE l.kind \in {"sample", "average", "median"}
  <2>1. t \in {Line("other")} \cup {Field(l.kind, v) : v \in Values}
    BY <1>1 DEF Torn
  <2>. QED BY <1>1, <2>1 DEF LastLine, Line, Field
<1>2. CASE l.kind = "samples_end"
  <2>1. t \in {Line("other"), l}
    BY <1>2 DEF Torn
  <2>. QED BY <1>2, <2>1 DEF LastLine, Line
<1>3. CASE l.kind = "no_samples"
  <2>1. t \in {Line("other"), Line("samples")}
    BY <1>3 DEF Torn
  <2>. QED BY <2>1 DEF LastLine, Line
<1>4. CASE l.kind \notin {"sample", "average", "median", "samples_end", "no_samples"}
  <2>1. t \in {Line("other")}
    BY <1>4 DEF Torn
  <2>. QED BY <2>1 DEF LastLine, Line
<1>. QED BY <1>1, <1>2, <1>3, <1>4

\* The first x.cut lines of a file lead from place to place; a line that no
\* record has may follow them.
IsLayout(f, x) ==
    /\ x.cut \in Nat
    /\ x.place[0] = Standing(0)
    /\ \A i \in 0 .. x.cut : x.place[i] \in Place(f.run)
    /\ \A i \in 1 .. x.cut : Reads(f.run, f.lines[i], x.place[i - 1], x.place[i])
    /\ DOMAIN f.lines = 1 .. Len(f.lines)
    /\ \/ Len(f.lines) = x.cut /\ f.lines # RunLines(f.run)
       \/ /\ Len(f.lines) = x.cut + 1 /\ LastLine(f.lines[x.cut + 1])
          /\ f.lines = RunLines(f.run) <=> f.lines[x.cut + 1].kind = "close"

LEMMA LayoutExists ==
  ASSUME NEW f, f.run \in Seq(Measured), f.lines \in Left(f.run)
  PROVE  \E x : IsLayout(f, x)
<1> DEFINE run == f.run
           all == RunLines(run)
<1>1. PICK s : Laid(run, s, Len(run)) /\ all = s \o <<Line("close")>>
  BY WholeFileIsLaid
<1>2. PICK place : IsLaid(run, s, Len(run), place)
  BY <1>1 DEF Laid
<1> DEFINE L == Len(s)
<1>3. s \in Seq(LineSet) /\ L \in Nat
  BY <1>2 DEF IsLaid
<1>4. all \in Seq(LineSet) /\ Len(all) = L + 1 /\ all[L + 1] = Line("close") /\ \A i \in 1 .. L : all[i] = s[i]
  <2>1. Line("close") \in LineSet
    BY LineIsLine DEF Kinds
  <2>2. s \o <<Line("close")>> \in Seq(LineSet) /\ Adds(s, Line("close"), s \o <<Line("close")>>)
    BY <1>3, <2>1, OneLineMore
  <2>. QED BY <1>1, <1>3, <2>2 DEF Adds
<1>5. \/ \E n \in 0 .. Len(all) : f.lines = SubSeq(all, 1, n)
      \/ \E n \in 0 .. Len(all) - 1 : \E t \in Torn(all[n + 1]) : f.lines = SubSeq(all, 1, n) \o <<t>>
  <2> HIDE DEF all
  <2>1. f.lines \in {SubSeq(RunLines(f.run), 1, n) : n \in 0 .. Len(RunLines(f.run))}
          \cup UNION {{SubSeq(RunLines(f.run), 1, n) \o <<t>> : t \in Torn(RunLines(f.run)[n + 1])} :
                        n \in 0 .. Len(RunLines(f.run)) - 1}
    BY DEF Left
  <2>2. CASE f.lines \in {SubSeq(RunLines(f.run), 1, n) : n \in 0 .. Len(RunLines(f.run))}
    BY <2>2 DEF all
  <2>3. CASE f.lines \in UNION {{SubSeq(RunLines(f.run), 1, n) \o <<t>> : t \in Torn(RunLines(f.run)[n + 1])} :
                        n \in 0 .. Len(RunLines(f.run)) - 1}
    BY <2>3 DEF all
  <2>. QED BY <2>1, <2>2, <2>3
<1> HIDE DEF all
<1>6. ASSUME NEW n \in 0 .. L
      PROVE  LET p == SubSeq(all, 1, n) IN
             p \in Seq(LineSet) /\ Len(p) = n /\ \A i \in 1 .. n : p[i] = s[i]
  <2>1. \A i \in 1 .. n : all[i] \in LineSet
    BY <1>3, <1>4
  <2>2. /\ SubSeq(all, 1, n) \in Seq(LineSet) /\ Len(SubSeq(all, 1, n)) = (IF 1 <= n THEN n - 1 + 1 ELSE 0)
        /\ \A i \in 1 .. n - 1 + 1 : SubSeq(all, 1, n)[i] = all[1 + i - 1]
    BY <2>1, SubSeqProperties
  <2> HIDE DEF L
  <2> DEFINE p == SubSeq(all, 1, n)
  <2> HIDE DEF p
  <2>3. p \in Seq(LineSet) /\ Len(p) = n /\ \A i \in 1 .. n : p[i] = all[i]
    <3>1. \A i \in 1 .. n - 1 + 1 : p[i] = all[1 + i - 1]
      BY <2>2 DEF p
    <3>2. \A i \in 1 .. n : i \in 1 .. n - 1 + 1 /\ 1 + i - 1 = i
      OBVIOUS
    <3>. QED BY <2>2, <3>1, <3>2 DEF p
  <2>. QED BY <2>3, <1>3, <1>4 DEF p
<1>7. ASSUME NEW n \in 0 .. L, \A i \in 1 .. n : f.lines[i] = s[i]
      PROVE  /\ n \in Nat
             /\ place[0] = Standing(0)
             /\ \A i \in 0 .. n : place[i] \in Place(run)
             /\ \A i \in 1 .. n : Reads(run, f.lines[i], place[i - 1], place[i])
  <2>1. \A i \in 0 .. n : i \in 0 .. L
    BY <1>3
  <2>2. \A i \in 1 .. n : i \in 1 .. L
    BY <1>3
  <2>. QED BY <2>1, <2>2, <1>2, <1>3, <1>7 DEF IsLaid
<1>8. CASE \E n \in 0 .. Len(all) : f.lines = SubSeq(all, 1, n)
  <2>1. PICK n \in 0 .. L + 1 : f.lines = SubSeq(all, 1, n)
    BY <1>4, <1>8
  <2>2. CASE n <= L
    <3>1. n \in 0 .. L
      BY <1>3, <2>2
    <3>2. f.lines \in Seq(LineSet) /\ Len(f.lines) = n /\ \A i \in 1 .. n : f.lines[i] = s[i]
      BY <1>6, <2>1, <3>1
    <3>3. f.lines # all
      BY <1>3, <1>4, <3>1, <3>2
    <3> DEFINE x == [cut |-> n, place |-> place]
    <3>4. IsLayout(f, x)
      BY <1>7, <3>1, <3>2, <3>3 DEF IsLayout, all
    <3>. QED BY <3>4
  <2>3. CASE n > L
    <3>1. n = Len(all)
      BY <1>3, <1>4, <2>3
    <3>2. f.lines = all
      BY <1>4, <2>1, <3>1
    <3>3. L \in 0 .. L /\ \A i \in 1 .. L : f.lines[i] = s[i]
      BY <1>3, <1>4, <3>2
    <3>4. Len(f.lines) = L + 1 /\ f.lines[L + 1] = Line("close") /\ DOMAIN f.lines = 1 .. Len(f.lines)
      BY <1>4, <3>2
    <3>5. LastLine(f.lines[L + 1]) /\ f.lines[L + 1].kind = "close"
      BY <3>4 DEF LastLine, Line
    <3> DEFINE x == [cut |-> L, place |-> place]
    <3>6. IsLayout(f, x)
      BY <1>7, <3>2, <3>3, <3>4, <3>5 DEF IsLayout, all
    <3>. QED BY <3>6
  <2>. QED BY <2>2, <2>3, <1>3
<1>9. CASE \E n \in 0 .. Len(all) - 1 : \E t \in Torn(all[n + 1]) : f.lines = SubSeq(all, 1, n) \o <<t>>
  <2>1. PICK n \in 0 .. L : \E t \in Torn(all[n + 1]) : f.lines = SubSeq(all, 1, n) \o <<t>>
    <3>1. 0 .. Len(all) - 1 = 0 .. L
      BY <1>3, <1>4
    <3>. QED BY <3>1, <1>9
  <2>2. PICK t \in Torn(all[n + 1]) : f.lines = SubSeq(all, 1, n) \o <<t>>
    BY <2>1
  <2>3. LastLine(t) /\ t.kind # "close"
    BY TornLine
  <2> DEFINE p == SubSeq(all, 1, n)
             X == LineSet \cup {t}
  <2>4. p \in Seq(LineSet) /\ Len(p) = n /\ \A i \in 1 .. n : p[i] = s[i]
    BY <1>6
  <2> HIDE DEF p
  <2>5. p \in Seq(X) /\ <<t>> \in Seq(X) /\ Len(<<t>>) = 1 /\ <<t>>[1] = t /\ 1 \in 1 .. Len(<<t>>)
    BY <2>4
  <2>6. f.lines \in Seq(X) /\ Joins(p, <<t>>, f.lines)
    BY <2>2, <2>5, Joined DEF p
  <2>7. Len(f.lines) = n + 1 /\ f.lines[n + 1] = t /\ (\A i \in 1 .. n : f.lines[i] = s[i])
        /\ DOMAIN f.lines = 1 .. Len(f.lines)
    BY <2>4, <2>5, <2>6 DEF Joins
  <2>8. f.lines # all
    <3> SUFFICES ASSUME f.lines = all PROVE FALSE
      OBVIOUS
    <3>1. n = L
      BY <1>3, <1>4, <2>7
    <3>2. t = Line("close")
      BY <3>1, <1>4, <2>7
    <3>. QED BY <3>2, <2>3 DEF Line
  <2> DEFINE x == [cut |-> n, place |-> place]
  <2>9. IsLayout(f, x)
    BY <1>7, <2>3, <2>7, <2>8 DEF IsLayout, all
  <2>. QED BY <2>9
<1>. QED BY <1>5, <1>8, <1>9

-----------------------------------------------------------------------------
(* The list reader on one record. *)

\* Names for truth values, which the provers do not compare as data.
No == FALSE
Yes == TRUE

\* The fields of a record that the list reader builds.
Built(i, g, o, a, x, m, d, c) ==
    [id |-> i, group |-> g, outcome |-> o, average |-> a, measured |-> x, median |-> m, dist |-> d, oracle |-> c]

LEMMA SetMeasured ==
  ASSUME NEW i, NEW g, NEW o, NEW a, NEW x, NEW m, NEW d, NEW c, NEW v
  PROVE  [Built(i, g, o, a, x, m, d, c) EXCEPT !.measured = v] = Built(i, g, o, a, v, m, d, c)
  BY DEF Built

LEMMA SetDist ==
  ASSUME NEW i, NEW g, NEW o, NEW a, NEW x, NEW m, NEW d, NEW c, NEW v
  PROVE  [Built(i, g, o, a, x, m, d, c) EXCEPT !.dist = v] = Built(i, g, o, a, x, m, v, c)
  BY DEF Built

\* What reading one field makes of them.
FieldsRead(i, g, o, a, x, m, d, c, v) ==
    LET R == Built(i, g, o, a, x, m, d, c) IN
    /\ Extracted(R, Field("id", v)) = Built(v, g, o, a, x, m, d, c)
    /\ Extracted(R, Field("group", v)) = Built(i, v, o, a, x, m, d, c)
    /\ Extracted(R, Field("outcome", v)) = Built(i, g, v, a, x, m, d, c)
    /\ Extracted(R, Field("average", v)) = Built(i, g, o, v, Yes, m, d, c)
    /\ Extracted(R, Field("median", v)) = Built(i, g, o, a, x, v, Yes, c)
    /\ Extracted(R, Field("oracle", v)) = Built(i, g, o, a, x, m, d, v)

LEMMA FieldRead ==
  ASSUME NEW i, NEW g, NEW o, NEW a, NEW x, NEW m, NEW d, NEW c, NEW v
  PROVE  FieldsRead(i, g, o, a, x, m, d, c, v)
<1> DEFINE R == Built(i, g, o, a, x, m, d, c)
<1>1. Extracted(R, Field("id", v)) = [R EXCEPT !.id = v]
  BY DEF Extracted, Field
<1>2. Extracted(R, Field("group", v)) = [R EXCEPT !.group = v]
  BY DEF Extracted, Field
<1>3. Extracted(R, Field("outcome", v)) = [R EXCEPT !.outcome = v]
  BY DEF Extracted, Field
<1>4. Extracted(R, Field("average", v)) = [[R EXCEPT !.average = v] EXCEPT !.measured = TRUE]
  <2>1. Extracted(R, Field("average", v)) = [R EXCEPT !.average = v, !.measured = TRUE]
    BY DEF Extracted, Field
  <2>. QED BY <2>1, Zenon
<1>5. Extracted(R, Field("median", v)) = [[R EXCEPT !.median = v] EXCEPT !.dist = TRUE]
  <2>1. Extracted(R, Field("median", v)) = [R EXCEPT !.median = v, !.dist = TRUE]
    BY DEF Extracted, Field
  <2>. QED BY <2>1, Zenon
<1>6. Extracted(R, Field("oracle", v)) = [R EXCEPT !.oracle = v]
  BY DEF Extracted, Field
<1>7. [[R EXCEPT !.average = v] EXCEPT !.measured = Yes] = Built(i, g, o, v, Yes, m, d, c)
  <2>1. [R EXCEPT !.average = v] = Built(i, g, o, v, x, m, d, c)
    BY DEF Built
  <2>2. [Built(i, g, o, v, x, m, d, c) EXCEPT !.measured = Yes] = Built(i, g, o, v, Yes, m, d, c)
    BY SetMeasured
  <2>. QED BY <2>1, <2>2, Zenon
<1>8. [[R EXCEPT !.median = v] EXCEPT !.dist = Yes] = Built(i, g, o, a, x, v, Yes, c)
  <2>1. [R EXCEPT !.median = v] = Built(i, g, o, a, x, v, d, c)
    BY DEF Built
  <2>2. [Built(i, g, o, a, x, v, d, c) EXCEPT !.dist = Yes] = Built(i, g, o, a, x, v, Yes, c)
    BY SetDist
  <2>. QED BY <2>1, <2>2, Zenon
<1>9. /\ [R EXCEPT !.id = v] = Built(v, g, o, a, x, m, d, c)
      /\ [R EXCEPT !.group = v] = Built(i, v, o, a, x, m, d, c)
      /\ [R EXCEPT !.outcome = v] = Built(i, g, v, a, x, m, d, c)
      /\ [R EXCEPT !.oracle = v] = Built(i, g, o, a, x, m, d, v)
  BY DEF Built
<1>. QED BY <1>1, <1>2, <1>3, <1>4, <1>5, <1>6, <1>7, <1>8, <1>9, Zenon DEF Yes, FieldsRead

FinishedAs(i, g, o, a, x, m, d, c) ==
    Finished(Built(i, g, o, a, x, m, d, c)) =
        Built(i, g, IF o # "" THEN o ELSE IF c = "FAIL" THEN "FAIL" ELSE "PASS", a, IF g THEN No ELSE x, m, d, c)

LEMMA RecordFinished ==
  ASSUME NEW i, NEW g \in BOOLEAN, NEW o, NEW a, NEW x \in BOOLEAN, NEW m, NEW d, NEW c
  PROVE  FinishedAs(i, g, o, a, x, m, d, c)
<1> DEFINE R == Built(i, g, o, a, x, m, d, c)
           y == IF g THEN No ELSE x
           w == IF o # "" THEN o ELSE IF c = "FAIL" THEN "FAIL" ELSE "PASS"
<1>1. R.outcome = o /\ R.oracle = c /\ R.group = g /\ R.measured = x
  BY DEF Built
<1>2. Finished(R) = [R EXCEPT !.measured = R.measured /\ ~R.group,
              !.outcome = IF R.outcome # "" THEN R.outcome ELSE IF R.oracle = "FAIL" THEN "FAIL" ELSE "PASS"]
  BY Zenon DEF Finished
<1> HIDE DEF R
<1>3. Finished(R) = [R EXCEPT !.measured = y, !.outcome = w]
  <2>1. (x /\ ~g) = y
    BY DEF No
  <2>. QED BY <1>1, <1>2, <2>1, Zenon
<1> HIDE DEF y, w
<1>4. Finished(R) = [[R EXCEPT !.measured = y] EXCEPT !.outcome = w]
  BY <1>3, Zenon
<1>5. [R EXCEPT !.measured = y] = Built(i, g, o, a, y, m, d, c)
  BY SetMeasured DEF R
<1>6. [Built(i, g, o, a, y, m, d, c) EXCEPT !.outcome = w] = Built(i, g, w, a, y, m, d, c)
  BY DEF Built
<1>7. Finished(Built(i, g, o, a, x, m, d, c)) = Built(i, g, w, a, y, m, d, c)
  BY <1>4, <1>5, <1>6 DEF R
<1>. QED BY <1>7, Zenon DEF y, w, FinishedAs

LEMMA NothingBuilt == NoRecord = Built("", No, "", 0, No, 0, No, "none")
  BY Zenon DEF Built, NoRecord, No

\* What the first k lines of a record say.
HasId(r, k) == k >= 2
HasGroup(r, k) == k >= 3
HasOutcome(r, k) == ~r.old /\ k >= 4
HasAverage(r, k) == k >= (IF r.old THEN 4 ELSE 5)
HasMedian(r, k) == ~r.old /\ k >= 6
HasOracle(r, k) == k >= Size(r) - 1

Partial(r, k) ==
    Built(IF HasId(r, k) THEN r.id ELSE "", IF HasGroup(r, k) THEN r.group ELSE No,
          IF HasOutcome(r, k) THEN Outcome(r) ELSE "",
          IF HasAverage(r, k) THEN r.average ELSE 0, IF HasAverage(r, k) THEN Yes ELSE No,
          IF HasMedian(r, k) THEN r.median ELSE 0, IF HasMedian(r, k) THEN Yes ELSE No,
          IF HasOracle(r, k) THEN r.oracle ELSE "none")

\* All of it but what the oracle said.
Rest(r, oracle) ==
    Built(r.id, r.group, IF r.old THEN "" ELSE Outcome(r), r.average, Yes,
          IF r.old THEN 0 ELSE r.median, IF r.old THEN No ELSE Yes, oracle)

LEMMA SizeFacts ==
  ASSUME NEW r \in Measured
  PROVE  /\ Size(r) \in Nat /\ r.old \in BOOLEAN /\ r.group \in BOOLEAN /\ Len(r.samples) \in Nat
         /\ Size(r) = Before(r) + Between(r) + (IF r.oracle = "none" THEN 1 ELSE 2)
         /\ Before(r) = (IF r.old THEN 4 ELSE 6)
         /\ Between(r) = (IF r.group THEN 1 ELSE Len(r.samples) + 2)
<1>1. Size(r) \in Nat /\ r.old \in BOOLEAN /\ r.group \in BOOLEAN /\ Len(r.samples) \in Nat
  BY MeasuredFacts
<1>2. Size(r) = Before(r) + Between(r) + (IF r.oracle = "none" THEN 1 ELSE 2)
  BY DEF Size
<1>3. Before(r) = (IF r.old THEN 4 ELSE 6) /\ Between(r) = (IF r.group THEN 1 ELSE Len(r.samples) + 2)
  BY DEF Before, Between
<1>. QED BY <1>1, <1>2, <1>3

\* One of these stages.
LEMMA PartialIs ==
  ASSUME NEW r \in Measured, NEW k \in 1 .. Size(r) - 1
  PROVE  /\ k = 1 => Partial(r, k) = NoRecord
         /\ k = 2 => Partial(r, k) = Built(r.id, No, "", 0, No, 0, No, "none")
         /\ k = 3 => Partial(r, k) = Built(r.id, r.group, "", 0, No, 0, No, "none")
         /\ k = 4 /\ ~r.old => Partial(r, k) = Built(r.id, r.group, Outcome(r), 0, No, 0, No, "none")
         /\ k = 5 /\ ~r.old => Partial(r, k) = Built(r.id, r.group, Outcome(r), r.average, Yes, 0, No, "none")
         /\ k >= Before(r) /\ k < Size(r) - 1 => Partial(r, k) = Rest(r, "none")
         /\ k = Size(r) - 1 => Partial(r, k) = Rest(r, r.oracle)
<1> DEFINE z == Size(r)
           n == Len(r.samples)
           b == Before(r)
           t == Between(r)
<1>1. /\ z \in Nat /\ r.old \in BOOLEAN /\ r.group \in BOOLEAN /\ n \in Nat
      /\ z = b + t + (IF r.oracle = "none" THEN 1 ELSE 2)
      /\ b = (IF r.old THEN 4 ELSE 6) /\ t = (IF r.group THEN 1 ELSE n + 2)
  BY SizeFacts
<1> HIDE DEF z, n, b, t
<1>2. ASSUME k = 1
      PROVE  Partial(r, k) = Built("", No, "", 0, No, 0, No, "none")
  <2>1. ~HasId(r, k) /\ ~HasGroup(r, k) /\ ~HasOutcome(r, k) /\ ~HasAverage(r, k) /\ ~HasMedian(r, k)
    BY <1>1, <1>2 DEF HasId, HasGroup, HasOutcome, HasAverage, HasMedian
  <2>2. ~HasOracle(r, k)
    BY <1>1, <1>2 DEF HasOracle, z
  <2>. QED BY <2>1, <2>2, Zenon DEF Partial
<1>3. ASSUME k = 2
      PROVE  Partial(r, k) = Built(r.id, No, "", 0, No, 0, No, "none")
  <2>1. HasId(r, k) /\ ~HasGroup(r, k) /\ ~HasOutcome(r, k) /\ ~HasAverage(r, k) /\ ~HasMedian(r, k)
    BY <1>1, <1>3 DEF HasId, HasGroup, HasOutcome, HasAverage, HasMedian
  <2>2. ~HasOracle(r, k)
    BY <1>1, <1>3 DEF HasOracle, z
  <2>. QED BY <2>1, <2>2, Zenon DEF Partial
<1>4. ASSUME k = 3
      PROVE  Partial(r, k) = Built(r.id, r.group, "", 0, No, 0, No, "none")
  <2>1. HasId(r, k) /\ HasGroup(r, k) /\ ~HasOutcome(r, k) /\ ~HasAverage(r, k) /\ ~HasMedian(r, k)
    BY <1>1, <1>4 DEF HasId, HasGroup, HasOutcome, HasAverage, HasMedian
  <2>2. ~HasOracle(r, k)
    BY <1>1, <1>4 DEF HasOracle, z
  <2>. QED BY <2>1, <2>2, Zenon DEF Partial
<1>5. ASSUME k = 4 /\ ~r.old
      PROVE  Partial(r, k) = Built(r.id, r.group, Outcome(r), 0, No, 0, No, "none")
  <2>1. HasId(r, k) /\ HasGroup(r, k) /\ HasOutcome(r, k) /\ ~HasAverage(r, k) /\ ~HasMedian(r, k)
    BY <1>1, <1>5 DEF HasId, HasGroup, HasOutcome, HasAverage, HasMedian
  <2>2. ~HasOracle(r, k)
    BY <1>1, <1>5 DEF HasOracle, z
  <2>. QED BY <2>1, <2>2, Zenon DEF Partial
<1>6. ASSUME k = 5 /\ ~r.old
      PROVE  Partial(r, k) = Built(r.id, r.group, Outcome(r), r.average, Yes, 0, No, "none")
  <2>1. HasId(r, k) /\ HasGroup(r, k) /\ HasOutcome(r, k) /\ HasAverage(r, k) /\ ~HasMedian(r, k)
    BY <1>1, <1>6 DEF HasId, HasGroup, HasOutcome, HasAverage, HasMedian
  <2>2. ~HasOracle(r, k)
    BY <1>1, <1>6 DEF HasOracle, z
  <2>. QED BY <2>1, <2>2, Zenon DEF Partial
<1>7. ASSUME k >= b
      PROVE  Partial(r, k) = Rest(r, IF HasOracle(r, k) THEN r.oracle ELSE "none")
  <2>1. HasId(r, k) /\ HasGroup(r, k) /\ HasAverage(r, k)
    BY <1>1, <1>7 DEF HasId, HasGroup, HasAverage
  <2>2. CASE r.old
    <3>1. ~HasOutcome(r, k) /\ ~HasMedian(r, k)
      BY <2>2 DEF HasOutcome, HasMedian
    <3>. QED BY <2>1, <2>2, <3>1, Zenon DEF Partial, Rest
  <2>3. CASE ~r.old
    <3>1. HasOutcome(r, k) /\ HasMedian(r, k)
      BY <1>1, <1>7, <2>3 DEF HasOutcome, HasMedian
    <3>. QED BY <2>1, <2>3, <3>1, Zenon DEF Partial, Rest
  <2>. QED BY <2>2, <2>3
<1>8. ASSUME k >= b, k < z - 1
      PROVE  Partial(r, k) = Rest(r, "none")
  <2>1. ~HasOracle(r, k)
    BY <1>1, <1>8 DEF HasOracle, z
  <2>. QED BY <1>7, <1>8, <2>1
<1>9. ASSUME k = z - 1
      PROVE  Partial(r, k) = Rest(r, r.oracle)
  <2>1. HasOracle(r, k) /\ k >= b
    BY <1>1, <1>9 DEF HasOracle, z
  <2>. QED BY <1>7, <2>1
<1>. QED BY <1>2, <1>3, <1>4, <1>5, <1>6, <1>8, <1>9, NothingBuilt DEF b, z

\* The lines of a record after the first, by what the reader makes of them.
LEMMA LineOfStage ==
  ASSUME NEW r \in Measured, NEW k \in 1 .. Size(r) - 2, NEW l, IsLineOf(r, k, l)
  PROVE  \/ k = 1 /\ l = Field("id", r.id)
         \/ k = 2 /\ l = Field("group", r.group)
         \/ k = 3 /\ ~r.old /\ l = Field("outcome", Outcome(r))
         \/ k = (IF r.old THEN 3 ELSE 4) /\ l = Field("average", r.average)
         \/ k = 5 /\ ~r.old /\ l = Field("median", r.median)
         \/ /\ k >= Before(r) /\ l.kind \in {"no_samples", "samples", "sample", "samples_end"}
            /\ k < Size(r) - 2 \/ r.oracle = "none"
         \/ k >= Before(r) /\ k = Size(r) - 2 /\ l = Field("oracle", r.oracle)
<1> DEFINE z == Size(r)
           n == Len(r.samples)
           b == Before(r)
           t == Between(r)
<1>1. /\ z \in Nat /\ r.old \in BOOLEAN /\ r.group \in BOOLEAN /\ n \in Nat
      /\ z = b + t + (IF r.oracle = "none" THEN 1 ELSE 2)
      /\ b = (IF r.old THEN 4 ELSE 6) /\ t = (IF r.group THEN 1 ELSE n + 2)
  BY SizeFacts
<1>0. k \in 1 .. z - 2
  OBVIOUS
<1> HIDE DEF z, n, b, t
<1>2. k # 0 /\ k # z - 1 /\ k \in Nat
  BY <1>0, <1>1
<1>3. \/ k = 1 /\ l = Field("id", r.id)
      \/ k = 2 /\ l = Field("group", r.group)
      \/ k = 3 /\ r.old /\ l = Field("average", r.average)
      \/ k = 3 /\ ~r.old /\ l = Field("outcome", Outcome(r))
      \/ k = 4 /\ ~r.old /\ l = Field("average", r.average)
      \/ k = 5 /\ ~r.old /\ l = Field("median", r.median)
      \/ k = b /\ r.group /\ l = Line("no_samples")
      \/ k = b /\ ~r.group /\ l = Line("samples")
      \/ ~r.group /\ k - b \in 1 .. n /\ l = Field("sample", r.samples[k - b])
      \/ ~r.group /\ k = b + n + 1 /\ l = Line("samples_end")
      \/ r.oracle # "none" /\ k = z - 2 /\ l = Field("oracle", r.oracle)
  BY <1>2 DEF IsLineOf, z, n, b
<1>4. ASSUME k >= b, k < b + t, l.kind \in {"no_samples", "samples", "sample", "samples_end"}
      PROVE  /\ k >= b /\ l.kind \in {"no_samples", "samples", "sample", "samples_end"}
             /\ k < z - 2 \/ r.oracle = "none"
  BY <1>1, <1>2, <1>4
<1>5. CASE k = b /\ r.group /\ l = Line("no_samples")
  <2>1. k >= b /\ k < b + t /\ l.kind = "no_samples"
    BY <1>1, <1>2, <1>5 DEF Line
  <2>. QED BY <2>1, <1>4 DEF b, z
<1>6. CASE k = b /\ ~r.group /\ l = Line("samples")
  <2>1. k >= b /\ k < b + t /\ l.kind = "samples"
    BY <1>1, <1>2, <1>6 DEF Line
  <2>. QED BY <2>1, <1>4 DEF b, z
<1>7. CASE ~r.group /\ k - b \in 1 .. n /\ l = Field("sample", r.samples[k - b])
  <2>1. k >= b /\ k < b + t
    BY <1>1, <1>2, <1>7
  <2>2. l.kind = "sample"
    BY <1>7 DEF Field
  <2>. QED BY <2>1, <2>2, <1>4 DEF b, z
<1>8. CASE ~r.group /\ k = b + n + 1 /\ l = Line("samples_end")
  <2>1. k >= b /\ k < b + t /\ l.kind = "samples_end"
    BY <1>1, <1>2, <1>8 DEF Line
  <2>. QED BY <2>1, <1>4 DEF b, z
<1>9. CASE r.oracle # "none" /\ k = z - 2 /\ l = Field("oracle", r.oracle)
  <2>1. k >= b
    BY <1>1, <1>2, <1>9
  <2>. QED BY <2>1, <1>9 DEF b, z
<1>. QED BY <1>3, <1>5, <1>6, <1>7, <1>8, <1>9

\* The list reader makes the next stage of the record from each line.
LEMMA PartialField ==
  ASSUME NEW r \in Measured, NEW k \in 1 .. Size(r) - 2, NEW l, IsLineOf(r, k, l)
  PROVE  Extracted(Partial(r, k), l) = Partial(r, k + 1) /\ l.kind \notin {"start", "end"}
<1> DEFINE z == Size(r)
           n == Len(r.samples)
           b == Before(r)
           t == Between(r)
<1>1. /\ z \in Nat /\ r.old \in BOOLEAN /\ r.group \in BOOLEAN /\ n \in Nat
      /\ z = b + t + (IF r.oracle = "none" THEN 1 ELSE 2)
      /\ b = (IF r.old THEN 4 ELSE 6) /\ t = (IF r.group THEN 1 ELSE n + 2)
  BY SizeFacts
<1>0. k \in 1 .. z - 2
  OBVIOUS
<1> HIDE DEF z, n, b, t
<1>2. k \in Nat /\ k < z - 1 /\ k \in 1 .. z - 1 /\ k + 1 \in 1 .. z - 1 /\ k + 1 - 1 = k
  BY <1>0, <1>1
<1>a. /\ k = 1 => Partial(r, k) = NoRecord
      /\ k = 2 => Partial(r, k) = Built(r.id, No, "", 0, No, 0, No, "none")
      /\ k = 3 => Partial(r, k) = Built(r.id, r.group, "", 0, No, 0, No, "none")
      /\ k = 4 /\ ~r.old => Partial(r, k) = Built(r.id, r.group, Outcome(r), 0, No, 0, No, "none")
      /\ k = 5 /\ ~r.old => Partial(r, k) = Built(r.id, r.group, Outcome(r), r.average, Yes, 0, No, "none")
      /\ k >= b /\ k < z - 1 => Partial(r, k) = Rest(r, "none")
  BY <1>2, PartialIs DEF z, b
<1>b. /\ k + 1 = 2 => Partial(r, k + 1) = Built(r.id, No, "", 0, No, 0, No, "none")
      /\ k + 1 = 3 => Partial(r, k + 1) = Built(r.id, r.group, "", 0, No, 0, No, "none")
      /\ k + 1 = 4 /\ ~r.old => Partial(r, k + 1) = Built(r.id, r.group, Outcome(r), 0, No, 0, No, "none")
      /\ k + 1 = 5 /\ ~r.old => Partial(r, k + 1) = Built(r.id, r.group, Outcome(r), r.average, Yes, 0, No, "none")
      /\ k + 1 >= b /\ k + 1 < z - 1 => Partial(r, k + 1) = Rest(r, "none")
      /\ k + 1 = z - 1 => Partial(r, k + 1) = Rest(r, r.oracle)
  BY <1>2, PartialIs DEF z, b
<1>3. CASE k = 1 /\ l = Field("id", r.id)
  <2>1. Partial(r, k + 1) = Built(r.id, No, "", 0, No, 0, No, "none")
    <3>1. k + 1 = 2
      BY <1>3
    <3>. QED BY <1>b, <3>1, Zenon
  <2>a. FieldsRead("", No, "", 0, No, 0, No, "none", r.id)
    BY FieldRead, Zenon
  <2>2. Extracted(Built("", No, "", 0, No, 0, No, "none"), l) = Built(r.id, No, "", 0, No, 0, No, "none")
    BY <1>3, <2>a, Zenon DEF FieldsRead
  <2>. QED BY <1>3, <1>a, <2>1, <2>2, NothingBuilt DEF Field
<1>4. CASE k = 2 /\ l = Field("group", r.group)
  <2>1. Partial(r, k + 1) = Built(r.id, r.group, "", 0, No, 0, No, "none")
    <3>1. k + 1 = 3
      BY <1>4
    <3>. QED BY <1>b, <3>1, Zenon
  <2>a. FieldsRead(r.id, No, "", 0, No, 0, No, "none", r.group)
    BY FieldRead, Zenon
  <2>2. Extracted(Built(r.id, No, "", 0, No, 0, No, "none"), l) = Built(r.id, r.group, "", 0, No, 0, No, "none")
    BY <1>4, <2>a, Zenon DEF FieldsRead
  <2>. QED BY <1>4, <1>a, <2>1, <2>2 DEF Field
<1>5. CASE k = 3 /\ ~r.old /\ l = Field("outcome", Outcome(r))
  <2>1. Partial(r, k + 1) = Built(r.id, r.group, Outcome(r), 0, No, 0, No, "none")
    BY <1>2, <1>5, <1>b
  <2>a. FieldsRead(r.id, r.group, "", 0, No, 0, No, "none", Outcome(r))
    BY FieldRead, Zenon
  <2>2. Extracted(Built(r.id, r.group, "", 0, No, 0, No, "none"), l) = Built(r.id, r.group, Outcome(r), 0, No, 0, No, "none")
    BY <1>5, <2>a, Zenon DEF FieldsRead
  <2>. QED BY <1>5, <1>a, <2>1, <2>2 DEF Field
<1>6. CASE k = 3 /\ r.old /\ l = Field("average", r.average)
  <2>1. k + 1 >= b /\ k + 1 < z - 1
    BY <1>1, <1>2, <1>6
  <2>2. Partial(r, k + 1) = Built(r.id, r.group, "", r.average, Yes, 0, No, "none")
    BY <1>6, <1>b, <2>1, Zenon DEF Rest
  <2>a. FieldsRead(r.id, r.group, "", 0, No, 0, No, "none", r.average)
    BY FieldRead, Zenon
  <2>3. Extracted(Built(r.id, r.group, "", 0, No, 0, No, "none"), l)
            = Built(r.id, r.group, "", r.average, Yes, 0, No, "none")
    BY <1>6, <2>a, Zenon DEF FieldsRead
  <2>. QED BY <1>6, <1>a, <2>2, <2>3 DEF Field
<1>7. CASE k = 4 /\ ~r.old /\ l = Field("average", r.average)
  <2>1. Partial(r, k + 1) = Built(r.id, r.group, Outcome(r), r.average, Yes, 0, No, "none")
    BY <1>2, <1>7, <1>b
  <2>a. FieldsRead(r.id, r.group, Outcome(r), 0, No, 0, No, "none", r.average)
    BY FieldRead, Zenon
  <2>2. Extracted(Built(r.id, r.group, Outcome(r), 0, No, 0, No, "none"), l)
            = Built(r.id, r.group, Outcome(r), r.average, Yes, 0, No, "none")
    BY <1>7, <2>a, Zenon DEF FieldsRead
  <2>. QED BY <1>7, <1>a, <2>1, <2>2 DEF Field
<1>8. CASE k = 5 /\ ~r.old /\ l = Field("median", r.median)
  <2>1. k + 1 >= b /\ k + 1 < z - 1
    BY <1>1, <1>2, <1>8
  <2>2. Partial(r, k + 1) = Built(r.id, r.group, Outcome(r), r.average, Yes, r.median, Yes, "none")
    BY <1>8, <1>b, <2>1, Zenon DEF Rest
  <2>a. FieldsRead(r.id, r.group, Outcome(r), r.average, Yes, 0, No, "none", r.median)
    BY FieldRead, Zenon
  <2>3. Extracted(Built(r.id, r.group, Outcome(r), r.average, Yes, 0, No, "none"), l)
            = Built(r.id, r.group, Outcome(r), r.average, Yes, r.median, Yes, "none")
    BY <1>8, <2>a, Zenon DEF FieldsRead
  <2>. QED BY <1>8, <1>a, <2>2, <2>3 DEF Field
<1>9. CASE /\ k >= b /\ l.kind \in {"no_samples", "samples", "sample", "samples_end"}
           /\ k < z - 2 \/ r.oracle = "none"
  <2>1. Extracted(Partial(r, k), l) = Partial(r, k)
    BY <1>9 DEF Extracted
  <2>2. k + 1 >= b /\ (k + 1 < z - 1 \/ (r.oracle = "none" /\ k + 1 = z - 1))
    BY <1>1, <1>2, <1>9
  <2>. QED BY <1>2, <1>9, <1>a, <1>b, <2>1, <2>2
<1>10. CASE k >= b /\ k = z - 2 /\ l = Field("oracle", r.oracle)
  <2>1. k + 1 = z - 1
    BY <1>1, <1>2, <1>10
  <2>2. ASSUME NEW o, NEW m, NEW d
        PROVE  Extracted(Built(r.id, r.group, o, r.average, Yes, m, d, "none"), l)
                  = Built(r.id, r.group, o, r.average, Yes, m, d, r.oracle)
    <3>1. FieldsRead(r.id, r.group, o, r.average, Yes, m, d, "none", r.oracle)
      BY FieldRead, Zenon
    <3>. QED BY <1>10, <3>1, Zenon DEF FieldsRead
  <2>3. Extracted(Rest(r, "none"), l) = Rest(r, r.oracle)
    BY <2>2, Zenon DEF Rest
  <2>. QED BY <1>2, <1>10, <1>a, <1>b, <2>1, <2>3 DEF Field
<1>11. \/ k = 1 /\ l = Field("id", r.id)
       \/ k = 2 /\ l = Field("group", r.group)
       \/ k = 3 /\ ~r.old /\ l = Field("outcome", Outcome(r))
       \/ k = (IF r.old THEN 3 ELSE 4) /\ l = Field("average", r.average)
       \/ k = 5 /\ ~r.old /\ l = Field("median", r.median)
       \/ /\ k >= b /\ l.kind \in {"no_samples", "samples", "sample", "samples_end"}
          /\ k < z - 2 \/ r.oracle = "none"
       \/ k >= b /\ k = z - 2 /\ l = Field("oracle", r.oracle)
  BY LineOfStage DEF b, z
<1>. QED BY <1>3, <1>4, <1>5, <1>6, <1>7, <1>8, <1>9, <1>10, <1>11

LEMMA PartialWhole ==
  ASSUME NEW r \in Measured
  PROVE  Finished(Partial(r, Size(r) - 1)) = Expected(r)
<1> DEFINE z == Size(r)
           o == IF r.old THEN "" ELSE Outcome(r)
           m == IF r.old THEN 0 ELSE r.median
           d == IF r.old THEN No ELSE Yes
<1>1. z - 1 \in 1 .. z - 1 /\ r.old \in BOOLEAN /\ r.group \in BOOLEAN
  <2>1. z \in Nat /\ Before(r) \in Nat /\ Between(r) \in Nat /\ Before(r) >= 4 /\ z > Before(r) + Between(r)
    BY MeasuredFacts
  <2>2. r.old \in BOOLEAN /\ r.group \in BOOLEAN
    BY MeasuredFacts
  <2> HIDE DEF z
  <2>. QED BY <2>1, <2>2
<1>2. Partial(r, z - 1) = Rest(r, r.oracle)
  BY <1>1, PartialIs
<1> HIDE DEF z
<1>3. Rest(r, r.oracle) = Built(r.id, r.group, o, r.average, Yes, m, d, r.oracle)
  BY Zenon DEF Rest
<1> HIDE DEF o, m, d
<1>4. Finished(Built(r.id, r.group, o, r.average, Yes, m, d, r.oracle)) =
         Built(r.id, r.group, IF o # "" THEN o ELSE IF r.oracle = "FAIL" THEN "FAIL" ELSE "PASS",
               r.average, IF r.group THEN No ELSE Yes, m, d, r.oracle)
  <2>1. Yes \in BOOLEAN /\ r.group \in BOOLEAN
    BY <1>1 DEF Yes
  <2>2. FinishedAs(r.id, r.group, o, r.average, Yes, m, d, r.oracle)
    BY <2>1, RecordFinished
  <2>. QED BY <2>2 DEF FinishedAs
<1>5. (IF o # "" THEN o ELSE IF r.oracle = "FAIL" THEN "FAIL" ELSE "PASS") = Outcome(r)
  BY DEF o, Outcome
<1>6. (IF r.group THEN No ELSE Yes) = (~r.group)
  BY <1>1 DEF No, Yes
<1>7. Finished(Rest(r, r.oracle)) = Built(r.id, r.group, Outcome(r), r.average, ~r.group, m, d, r.oracle)
  BY <1>3, <1>4, <1>5, <1>6, Zenon
<1>8. d = (~r.old)
  BY <1>1 DEF d, No, Yes
<1>9. Built(r.id, r.group, Outcome(r), r.average, ~r.group, m, ~r.old, r.oracle) = Expected(r)
  BY Zenon DEF Built, Expected, m
<1>. QED BY <1>2, <1>7, <1>8, <1>9, Zenon DEF z

-----------------------------------------------------------------------------
(* Both readers, from line to line of a file. *)

Layout(f) == CHOOSE x : IsLayout(f, x)
Cut(f) == Layout(f).cut
At(f, n) == Layout(f).place[n]

\* A file that a run may leave.
IsFile(f) == f.run \in Seq(Measured) /\ f.lines \in Left(f.run)

LEMMA LayoutFacts ==
  ASSUME NEW f, IsFile(f)
  PROVE  /\ f.run \in Seq(Measured) /\ Cut(f) \in Nat /\ Len(f.lines) \in Nat
         /\ DOMAIN f.lines = 1 .. Len(f.lines)
         /\ At(f, 0) = Standing(0)
         /\ \A i \in 0 .. Cut(f) : At(f, i) \in Place(f.run)
         /\ \A i \in 1 .. Cut(f) : Reads(f.run, f.lines[i], At(f, i - 1), At(f, i))
         /\ \/ Len(f.lines) = Cut(f) /\ f.lines # RunLines(f.run)
            \/ /\ Len(f.lines) = Cut(f) + 1 /\ LastLine(f.lines[Cut(f) + 1])
               /\ f.lines = RunLines(f.run) <=> f.lines[Cut(f) + 1].kind = "close"
<1>1. \E x : IsLayout(f, x)
  BY LayoutExists DEF IsFile
<1>2. IsLayout(f, Layout(f))
  BY <1>1, Zenon DEF Layout
<1>3. Cut(f) \in Nat
  BY <1>2 DEF IsLayout, Cut
<1>4. Len(f.lines) \in Nat
  BY <1>2, <1>3 DEF IsLayout, Cut
<1>. QED BY <1>2, <1>3, <1>4 DEF IsLayout, IsFile, Cut, At

\* What a line of a record does to the place in the file.
LEMMA LineRead ==
  ASSUME NEW run \in Seq(Measured), NEW l, NEW u \in Place(run), NEW v, Reads(run, l, u, v)
  PROVE  LET r == run[u.done + 1] IN
         /\ u.done \in 0 .. Len(run) /\ u.read \in Nat
         /\ \/ u.read = 0 /\ v = u /\ l.kind = "other"
            \/ /\ u.done + 1 \in 1 .. Len(run) /\ r \in Measured /\ Size(r) \in Nat
               /\ u.read \in 0 .. Size(r) - 1 /\ IsLineOf(r, u.read, l)
               /\ u.read = Size(r) - 1 => v = Standing(u.done + 1)
               /\ u.read # Size(r) - 1 => v = [done |-> u.done, read |-> u.read + 1]
<1> DEFINE r == run[u.done + 1]
<1>1. u.done \in 0 .. Len(run) /\ u.read \in Nat /\ Len(run) \in Nat
  BY DEF Place
<1>2. CASE u.read = 0 /\ v = u /\ l.kind = "other"
  BY <1>1, <1>2
<1>3. CASE /\ u.done < Len(run) /\ u.read < Size(r)
           /\ l = RecordLines(r)[u.read + 1]
           /\ v = IF u.read + 1 = Size(r) THEN [done |-> u.done + 1, read |-> 0]
                  ELSE [done |-> u.done, read |-> u.read + 1]
  <2>1. u.done + 1 \in 1 .. Len(run)
    BY <1>1, <1>3
  <2>2. r \in Measured
    BY <2>1
  <2>3. Size(r) \in Nat
    BY <2>2, MeasuredFacts
  <2>4. u.read \in 0 .. Size(r) - 1
    BY <1>1, <1>3, <2>3
  <2>5. IsLineOf(r, u.read, l)
    BY <2>2, <2>4, <1>3, LineOfRecord
  <2>6. u.read = Size(r) - 1 <=> u.read + 1 = Size(r)
    BY <1>1, <2>3
  <2>. QED BY <1>1, <1>3, <2>1, <2>2, <2>3, <2>4, <2>5, <2>6 DEF Standing
<1>. QED BY <1>2, <1>3 DEF Reads

LEMMA KindOfLine ==
  ASSUME NEW r \in Measured, NEW k \in 0 .. Size(r) - 1, NEW l, IsLineOf(r, k, l)
  PROVE  /\ k = 0 => l = Line("start")
         /\ k # 0 => l.kind # "start"
         /\ k = Size(r) - 1 <=> l.kind = "end"
         /\ l.kind \notin {"close", "other"}
         /\ l.kind = "sample" => l.value \in Values
<1> DEFINE z == Size(r)
           b == Before(r)
           t == Between(r)
           n == Len(r.samples)
<1>1. /\ z \in Nat /\ r.old \in BOOLEAN /\ r.group \in BOOLEAN /\ n \in Nat
      /\ z = b + t + (IF r.oracle = "none" THEN 1 ELSE 2)
      /\ b = (IF r.old THEN 4 ELSE 6) /\ t = (IF r.group THEN 1 ELSE n + 2)
  BY SizeFacts
<1>2. k \in 0 .. z - 1
  OBVIOUS
<1>3. \A j \in 1 .. n : r.samples[j] \in Values
  BY MeasuredFacts
<1>4. \/ k = 0 /\ l = Line("start")
      \/ k = 1 /\ l = Field("id", r.id)
      \/ k = 2 /\ l = Field("group", r.group)
      \/ k = 3 /\ r.old /\ l = Field("average", r.average)
      \/ k = 3 /\ ~r.old /\ l = Field("outcome", Outcome(r))
      \/ k = 4 /\ ~r.old /\ l = Field("average", r.average)
      \/ k = 5 /\ ~r.old /\ l = Field("median", r.median)
      \/ k = b /\ r.group /\ l = Line("no_samples")
      \/ k = b /\ ~r.group /\ l = Line("samples")
      \/ ~r.group /\ k - b \in 1 .. n /\ l = Field("sample", r.samples[k - b])
      \/ ~r.group /\ k = b + n + 1 /\ l = Line("samples_end")
      \/ r.oracle # "none" /\ k = z - 2 /\ l = Field("oracle", r.oracle)
      \/ k = z - 1 /\ l = Line("end")
  BY DEF IsLineOf
<1> HIDE DEF z, b, t, n
<1>5. \A v : /\ Field("id", v).kind = "id" /\ Field("group", v).kind = "group" /\ Field("average", v).kind = "average"
             /\ Field("outcome", v).kind = "outcome" /\ Field("median", v).kind = "median"
             /\ Field("oracle", v).kind = "oracle" /\ Field("sample", v).kind = "sample" /\ Field("sample", v).value = v
  BY DEF Field
<1>6. /\ Line("start").kind = "start" /\ Line("no_samples").kind = "no_samples" /\ Line("samples").kind = "samples"
      /\ Line("samples_end").kind = "samples_end" /\ Line("end").kind = "end"
  BY DEF Line
<1>7. l.kind = "sample" => l.value \in Values
  BY <1>3, <1>4, <1>5, <1>6
<1>8. k # 0 => l.kind # "start"
  BY <1>4, <1>5, <1>6
<1>9. l.kind \notin {"close", "other"}
  BY <1>4, <1>5, <1>6
<1>10. l.kind = "end" => k = z - 1
  BY <1>4, <1>5, <1>6
<1>11. k = z - 1 => l.kind = "end"
  <2> SUFFICES ASSUME k = z - 1 PROVE l.kind = "end"
    OBVIOUS
  <2>1. k # 0 /\ k # 1 /\ k # 2 /\ k # 3 /\ (~r.old => k # 4 /\ k # 5) /\ k # b /\ ~(k - b \in 1 .. n /\ ~r.group)
        /\ ~(~r.group /\ k = b + n + 1) /\ k # z - 2
    BY <1>1, <1>2
  <2>. QED BY <1>4, <1>6, <2>1
<1>12. k = 0 => l = Line("start")
  <2> SUFFICES ASSUME k = 0 PROVE l = Line("start")
    OBVIOUS
  <2>1. k # b /\ ~(k - b \in 1 .. n) /\ ~(k = b + n + 1) /\ k # z - 2 /\ k # z - 1
    BY <1>1, <1>2
  <2>. QED BY <1>4, <2>1
<1>. QED BY <1>7, <1>8, <1>9, <1>10, <1>11, <1>12 DEF z

-----------------------------------------------------------------------------
(* The list reader. *)

FirstRecords(run, m) == [j \in 1 .. m |-> Expected(run[j])]

\* n lines of file f are read.
ReadingAt(f, n, ir, rc, la, recs) ==
    /\ n \in 0 .. Len(f.lines)
    /\ la = IF n = 0 THEN "none" ELSE f.lines[n].kind
    /\ recs = FirstRecords(f.run, At(f, IF n <= Cut(f) THEN n ELSE Cut(f)).done)
    /\ n <= Cut(f) =>
        LET here == At(f, n) IN
        /\ ir <=> here.read > 0
        /\ here.read > 0 => rc = Partial(f.run[here.done + 1], here.read)

\* What one line does to the list reader.
ListReads(l, ir, rc, recs, ir2, rc2, recs2) ==
    \/ l.kind = "start" /\ ir2 = TRUE /\ rc2 = NoRecord /\ recs2 = recs
    \/ /\ l.kind \notin {"start", "end"} /\ ir2 = ir /\ recs2 = recs
       /\ rc2 = IF ir THEN Extracted(rc, l) ELSE rc
    \/ /\ l.kind = "end" /\ ir2 = FALSE /\ rc2 = rc
       /\ recs2 = IF ir THEN Append(recs, Finished(rc)) ELSE recs

LEMMA FirstRecordsFacts ==
  ASSUME NEW run \in Seq(Measured), NEW m \in 0 .. Len(run)
  PROVE  /\ FirstRecords(run, 0) = <<>>
         /\ FirstRecords(run, m) \in Seq({Expected(r) : r \in Measured}) /\ Len(FirstRecords(run, m)) = m
         /\ DOMAIN FirstRecords(run, m) = 1 .. m
         /\ m < Len(run) => Append(FirstRecords(run, m), Expected(run[m + 1])) = FirstRecords(run, m + 1)
<1> DEFINE E == {Expected(r) : r \in Measured}
           F(k) == FirstRecords(run, k)
<1>1. Len(run) \in Nat /\ m \in Nat /\ \A j \in 1 .. Len(run) : Expected(run[j]) \in E
  OBVIOUS
<1> HIDE DEF E
<1>2. ASSUME NEW k \in 0 .. Len(run)
      PROVE  F(k) \in Seq(E) /\ Len(F(k)) = k /\ DOMAIN F(k) = 1 .. k /\ \A j \in 1 .. k : F(k)[j] = Expected(run[j])
  <2>1. F(k) = [j \in 1 .. k |-> Expected(run[j])]
    BY DEF FirstRecords
  <2>2. k \in Nat /\ \A j \in 1 .. k : j \in 1 .. Len(run)
    BY <1>1
  <2>3. \A j \in 1 .. k : Expected(run[j]) \in E
    BY <1>1, <2>2
  <2>4. F(k) \in [1 .. k -> E]
    BY <2>1, <2>3
  <2>5. F(k) \in Seq(E) /\ Len(F(k)) = k /\ DOMAIN F(k) = 1 .. k
    BY <2>2, <2>4
  <2>. QED BY <2>1, <2>5
<1>3. F(0) = <<>>
  <2>1. 0 \in 0 .. Len(run)
    BY <1>1
  <2>2. F(0) \in Seq(E) /\ Len(F(0)) = 0
    BY <1>2, <2>1
  <2> HIDE DEF F
  <2>. QED BY <2>2, EmptySeq
<1>4. ASSUME m < Len(run)
      PROVE  Append(F(m), Expected(run[m + 1])) = F(m + 1)
  <2>1. m + 1 \in 0 .. Len(run) /\ m + 1 \in 1 .. Len(run)
    BY <1>1, <1>4
  <2>2. F(m) \in Seq(E) /\ Len(F(m)) = m /\ \A j \in 1 .. m : F(m)[j] = Expected(run[j])
    BY <1>2
  <2>3. F(m + 1) \in Seq(E) /\ Len(F(m + 1)) = m + 1 /\ \A j \in 1 .. m + 1 : F(m + 1)[j] = Expected(run[j])
    BY <1>2, <2>1
  <2> DEFINE e == Expected(run[m + 1])
             A == Append(F(m), e)
  <2>4. e \in E
    BY <1>1, <2>1
  <2> HIDE DEF F, e
  <2>5. A \in Seq(E) /\ Len(A) = m + 1 /\ (\A j \in 1 .. m : A[j] = F(m)[j]) /\ A[m + 1] = e
    BY <2>2, <2>4, <1>1
  <2> HIDE DEF A
  <2>6. ASSUME NEW j \in 1 .. m + 1 PROVE A[j] = F(m + 1)[j]
    <3>1. CASE j = m + 1
      BY <3>1, <2>3, <2>5, <1>1 DEF e
    <3>2. CASE j # m + 1
      <4>1. j \in 1 .. m
        BY <3>2, <1>1
      <4>. QED BY <4>1, <2>2, <2>3, <2>5
    <3>. QED BY <3>1, <3>2
  <2>7. A = F(m + 1)
    BY <2>3, <2>5, <2>6, <1>1, SeqEqual
  <2>. QED BY <2>7 DEF A, e
<1>. QED BY <1>2, <1>3, <1>4 DEF E

LEMMA ReadsOn ==
  ASSUME NEW f, IsFile(f), NEW n, NEW ir \in BOOLEAN, NEW rc, NEW la, NEW recs, ReadingAt(f, n, ir, rc, la, recs),
         n < Len(f.lines),
         NEW ir2 \in BOOLEAN, NEW rc2, NEW recs2, ListReads(f.lines[n + 1], ir, rc, recs, ir2, rc2, recs2)
  PROVE  ReadingAt(f, n + 1, ir2, rc2, f.lines[n + 1].kind, recs2)
<1> DEFINE l == f.lines[n + 1]
           run == f.run
           cut == Cut(f)
           u == At(f, n)
           v == At(f, n + 1)
<1>1. /\ run \in Seq(Measured) /\ cut \in Nat /\ Len(f.lines) \in Nat
      /\ \A i \in 0 .. cut : At(f, i) \in Place(run)
      /\ \A i \in 1 .. cut : Reads(run, f.lines[i], At(f, i - 1), At(f, i))
      /\ \/ Len(f.lines) = cut
         \/ Len(f.lines) = cut + 1 /\ LastLine(f.lines[cut + 1])
  BY LayoutFacts
<1>2. /\ n \in 0 .. Len(f.lines) /\ recs = FirstRecords(run, At(f, IF n <= cut THEN n ELSE cut).done)
      /\ n <= cut => (ir <=> u.read > 0) /\ (u.read > 0 => rc = Partial(run[u.done + 1], u.read))
  BY DEF ReadingAt
<1> HIDE DEF cut
<1>3. n + 1 \in 0 .. Len(f.lines) /\ n <= cut /\ n + 1 # 0 /\ n + 1 - 1 = n /\ n \in 0 .. cut
  BY <1>1, <1>2
<1>4. recs = FirstRecords(run, u.done)
  BY <1>2, <1>3
<1>5. CASE n + 1 <= cut
  <2>0. n + 1 \in 0 .. cut /\ n + 1 \in 1 .. cut
    BY <1>3, <1>5
  <2>1. u \in Place(run) /\ v \in Place(run) /\ Reads(run, l, u, v)
    BY <1>1, <1>3, <2>0
  <2> DEFINE r == run[u.done + 1]
  <2>2. /\ u.done \in 0 .. Len(run) /\ u.read \in Nat
        /\ \/ u.read = 0 /\ v = u /\ l.kind = "other"
           \/ /\ u.done + 1 \in 1 .. Len(run) /\ r \in Measured /\ Size(r) \in Nat
              /\ u.read \in 0 .. Size(r) - 1 /\ IsLineOf(r, u.read, l)
              /\ u.read = Size(r) - 1 => v = Standing(u.done + 1)
              /\ u.read # Size(r) - 1 => v = [done |-> u.done, read |-> u.read + 1]
    <3>1. run \in Seq(Measured) /\ u \in Place(run) /\ Reads(run, l, u, v)
      BY <1>1, <2>1
    <3> HIDE DEF run, l, u, v
    <3>. QED BY <3>1, LineRead
  <2>3. SUFFICES /\ recs2 = FirstRecords(run, v.done) /\ (ir2 <=> v.read > 0)
                 /\ v.read > 0 => rc2 = Partial(run[v.done + 1], v.read)
    BY <1>3, <1>5 DEF ReadingAt, cut
  <2> HIDE DEF l, u, v, r
  <2>4. CASE u.read = 0 /\ v = u /\ l.kind = "other"
    <3>1. ir2 = ir /\ recs2 = recs
      BY <2>4 DEF ListReads, l
    <3>. QED BY <1>2, <1>3, <1>4, <2>4, <3>1 DEF u
  <2>5. CASE /\ u.done + 1 \in 1 .. Len(run) /\ r \in Measured /\ Size(r) \in Nat
             /\ u.read \in 0 .. Size(r) - 1 /\ IsLineOf(r, u.read, l)
             /\ u.read = Size(r) - 1 => v = Standing(u.done + 1)
             /\ u.read # Size(r) - 1 => v = [done |-> u.done, read |-> u.read + 1]
    <3>0. /\ u.read = 0 => l = Line("start")
          /\ u.read # 0 => l.kind # "start"
          /\ u.read = Size(r) - 1 <=> l.kind = "end"
      BY <2>5, KindOfLine
    <3>1. Size(r) > 5
      <4>1. Size(r) \in Nat /\ Before(r) \in Nat /\ Between(r) \in Nat /\ Before(r) >= 4 /\ Between(r) >= 1
            /\ Size(r) > Before(r) + Between(r)
        BY <2>5, MeasuredFacts
      <4>. QED BY <4>1
    <3>2. CASE u.read = 0
      <4>1. l.kind = "start"
        BY <3>0, <3>2 DEF Line
      <4>2. ir2 = TRUE /\ rc2 = NoRecord /\ recs2 = recs
        BY <4>1 DEF ListReads, l
      <4>3. u.read # Size(r) - 1 /\ u.read + 1 = 1
        BY <3>1, <3>2, <2>5
      <4>4. v.done = u.done /\ v.read = 1
        BY <2>5, <4>3
      <4>5. 1 \in 1 .. Size(r) - 1
        BY <2>5, <3>1
      <4>6. Partial(r, 1) = NoRecord
        BY <2>5, <4>5, PartialIs
      <4>. QED BY <1>4, <4>2, <4>4, <4>6 DEF r
    <3>3. CASE u.read # 0 /\ u.read # Size(r) - 1
      <4>1. u.read \in 1 .. Size(r) - 2 /\ u.read > 0
        BY <2>5, <3>3
      <4>2. Extracted(Partial(r, u.read), l) = Partial(r, u.read + 1)
        BY <2>5, <4>1, PartialField
      <4>3. l.kind \notin {"start", "end"}
        BY <3>0, <3>3
      <4>4. ir /\ rc = Partial(r, u.read)
        BY <1>2, <1>3, <4>1 DEF r, u
      <4>5. ir2 = ir /\ recs2 = recs /\ rc2 = Partial(r, u.read + 1)
        BY <4>2, <4>3, <4>4 DEF ListReads, l
      <4>6. v.done = u.done /\ v.read = u.read + 1 /\ v.read > 0
        BY <2>5, <3>3, <4>1
      <4>. QED BY <1>4, <4>4, <4>5, <4>6 DEF r
    <3>4. CASE u.read = Size(r) - 1
      <4>1. l.kind = "end" /\ u.read > 0 /\ u.done < Len(run)
        BY <3>0, <3>1, <3>4, <2>2, <2>5
      <4>2. ir /\ rc = Partial(r, Size(r) - 1)
        BY <1>2, <1>3, <3>4, <4>1 DEF r, u
      <4>3. Finished(rc) = Expected(r)
        BY <2>5, <4>2, PartialWhole
      <4>4. ir2 = FALSE /\ recs2 = Append(recs, Expected(r))
        BY <4>1, <4>2, <4>3 DEF ListReads, l
      <4>5. recs2 = FirstRecords(run, u.done + 1)
        BY <1>1, <1>4, <2>2, <4>1, <4>4, FirstRecordsFacts DEF r
      <4>6. v.done = u.done + 1 /\ v.read = 0
        BY <2>5, <3>4 DEF Standing
      <4>. QED BY <4>4, <4>5, <4>6
    <3>. QED BY <3>2, <3>3, <3>4
  <2>. QED BY <2>2, <2>4, <2>5
<1>6. CASE ~(n + 1 <= cut)
  <2>1. n = cut /\ LastLine(l)
    BY <1>1, <1>2, <1>3, <1>6
  <2>2. recs2 = recs
    BY <2>1 DEF LastLine, ListReads
  <2>. QED BY <1>2, <1>3, <1>6, <2>1, <2>2 DEF ReadingAt, cut
<1>. QED BY <1>5, <1>6

RecoveredFrom(f, list) ==
    list.records = FirstRecords(f.run, At(f, Cut(f)).done) /\ (list.complete <=> f.lines = RunLines(f.run))

\* A file read to its end.
LEMMA ReadThrough ==
  ASSUME NEW f, IsFile(f), NEW ir, NEW rc, NEW la, NEW recs, ReadingAt(f, Len(f.lines), ir, rc, la, recs)
  PROVE  RecoveredFrom(f, [records |-> recs, complete |-> la = "close"])
<1> DEFINE cut == Cut(f)
           L == Len(f.lines)
<1>1. /\ f.run \in Seq(Measured) /\ cut \in Nat /\ L \in Nat
      /\ \A i \in 0 .. cut : At(f, i) \in Place(f.run)
      /\ \A i \in 1 .. cut : Reads(f.run, f.lines[i], At(f, i - 1), At(f, i))
      /\ \/ L = cut /\ f.lines # RunLines(f.run)
         \/ L = cut + 1 /\ (f.lines = RunLines(f.run) <=> f.lines[cut + 1].kind = "close")
  BY LayoutFacts
<1>2. la = IF L = 0 THEN "none" ELSE f.lines[L].kind
  BY DEF ReadingAt
<1>3. recs = FirstRecords(f.run, At(f, IF L <= cut THEN L ELSE cut).done)
  BY DEF ReadingAt
<1> HIDE DEF cut, L
<1>4. recs = FirstRecords(f.run, At(f, cut).done)
  BY <1>1, <1>3
<1>5. la = "close" <=> f.lines = RunLines(f.run)
  <2>1. CASE L = cut + 1 /\ (f.lines = RunLines(f.run) <=> f.lines[cut + 1].kind = "close")
    BY <1>1, <1>2, <2>1
  <2>2. CASE L = cut /\ f.lines # RunLines(f.run)
    <3>1. CASE L = 0
      BY <1>2, <2>2, <3>1
    <3>2. CASE L # 0
      <4>1. L \in 1 .. cut /\ L - 1 \in 0 .. cut
        BY <1>1, <2>2, <3>2
      <4> DEFINE u == At(f, L - 1)
                 l == f.lines[L]
                 r == f.run[u.done + 1]
      <4>2. u \in Place(f.run) /\ Reads(f.run, l, u, At(f, L))
        BY <1>1, <4>1
      <4>3. l.kind = "other" \/ (r \in Measured /\ u.read \in 0 .. Size(r) - 1 /\ IsLineOf(r, u.read, l))
        BY <1>1, <4>2, LineRead
      <4> HIDE DEF l, u, r
      <4>4. l.kind # "close"
        BY <4>3, KindOfLine
      <4>. QED BY <1>2, <2>2, <3>2, <4>4 DEF l
    <3>. QED BY <3>1, <3>2
  <2>. QED BY <1>1, <2>1, <2>2
<1>. QED BY <1>4, <1>5 DEF RecoveredFrom, cut

-----------------------------------------------------------------------------
(* The sample reader. *)

FirstSamples(r, m) == [j \in 1 .. m |-> r.samples[j]]
WholeSamples(r) == IF r.group THEN <<>> ELSE r.samples

\* How many samples are among the first k lines of a record.
Got(r, k) ==
    IF r.group \/ k <= Before(r) THEN 0
    ELSE IF k <= Before(r) + 1 + Len(r.samples) THEN k - Before(r) - 1 ELSE Len(r.samples)

\* Between the brackets of the samples.
Inside(r, k) == ~r.group /\ Before(r) < k /\ k < Before(r) + Between(r)

\* One of the records of the file's list has the id.
Listable(f, id) == \E n \in 1 .. At(f, Cut(f)).done : f.run[n].id = id

IsFirst(run, id, n) == n \in DOMAIN run /\ run[n].id = id /\ \A i \in 1 .. n - 1 : run[i].id # id

LoadedFrom(f, id, nums) == \A n : IsFirst(f.run, id, n) => nums = WholeSamples(f.run[n])

\* n lines are read, and the record looked for has not ended.
LookingAt(f, id, n, ir, sel, ins, nums) ==
    LET here == At(f, n)  r == f.run[here.done + 1] IN
    /\ n \in 0 .. Cut(f)
    /\ \A j \in 1 .. here.done : f.run[j].id # id
    /\ ir <=> here.read > 0
    /\ sel <=> here.read >= 2 /\ r.id = id
    /\ ins <=> sel /\ Inside(r, here.read)
    /\ nums = IF sel THEN FirstSamples(r, Got(r, here.read)) ELSE <<>>

\* What one line does to the sample reader, and whether it stops there.
SampleReads(l, id, ir, sel, ins, nums, ir2, sel2, ins2, nums2, stops) ==
    \/ l.kind = "start" /\ ir2 = TRUE /\ sel2 = FALSE /\ ins2 = FALSE /\ nums2 = nums /\ stops = FALSE
    \/ /\ ir /\ l.kind = "id" /\ ir2 = ir /\ sel2 = (l.value = id) /\ ins2 = ins /\ nums2 = nums /\ stops = FALSE
    \/ /\ ir /\ l.kind \in {"samples", "no_samples", "samples_end"}
       /\ ir2 = ir /\ sel2 = sel /\ ins2 = (IF sel THEN l.kind = "samples" ELSE ins) /\ nums2 = nums /\ stops = FALSE
    \/ /\ ir /\ sel /\ ins /\ l.kind = "sample"
       /\ ir2 = ir /\ sel2 = sel /\ ins2 = ins /\ nums2 = Append(nums, l.value) /\ stops = FALSE
    \/ /\ l.kind # "start"
       /\ \/ ~ir
          \/ l.kind = "sample" /\ ~(sel /\ ins)
          \/ l.kind \notin {"id", "samples", "no_samples", "samples_end", "sample", "end"}
       /\ ir2 = ir /\ sel2 = sel /\ ins2 = ins /\ nums2 = nums /\ stops = FALSE
    \/ ir /\ l.kind = "end" /\ ir2 = FALSE /\ sel2 = sel /\ ins2 = ins /\ nums2 = nums /\ stops = sel

LEMMA FirstSamplesFacts ==
  ASSUME NEW r \in Measured, NEW m \in 0 .. Len(r.samples)
  PROVE  /\ FirstSamples(r, 0) = <<>>
         /\ FirstSamples(r, Len(r.samples)) = r.samples
         /\ m < Len(r.samples) => Append(FirstSamples(r, m), r.samples[m + 1]) = FirstSamples(r, m + 1)
<1> DEFINE F(k) == FirstSamples(r, k)
           s == r.samples
           N == Len(s)
<1>1. s \in Seq(Values) /\ N \in Nat /\ \A j \in 1 .. N : s[j] \in Values
  BY MeasuredFacts
<1>0. m \in 0 .. N
  OBVIOUS
<1> HIDE DEF s, N
<1>2. ASSUME NEW k \in 0 .. N
      PROVE  F(k) \in Seq(Values) /\ Len(F(k)) = k /\ \A j \in 1 .. k : F(k)[j] = s[j]
  <2>1. F(k) = [j \in 1 .. k |-> s[j]]
    BY DEF FirstSamples, s
  <2>2. k \in Nat /\ \A j \in 1 .. k : s[j] \in Values
    BY <1>1
  <2>3. F(k) \in [1 .. k -> Values]
    BY <2>1, <2>2
  <2>. QED BY <2>1, <2>2, <2>3
<1> HIDE DEF F
<1>3. F(0) = <<>>
  <2>1. 0 \in 0 .. N
    BY <1>1
  <2>2. F(0) \in Seq(Values) /\ Len(F(0)) = 0
    BY <1>2, <2>1
  <2>. QED BY <2>2, EmptySeq
<1>4. F(N) = s
  <2>1. N \in 0 .. N
    BY <1>1
  <2>2. F(N) \in Seq(Values) /\ Len(F(N)) = N /\ \A j \in 1 .. N : F(N)[j] = s[j]
    BY <1>2, <2>1
  <2>. QED BY <1>1, <2>2, SeqEqual DEF N
<1>5. ASSUME m < N
      PROVE  Append(F(m), s[m + 1]) = F(m + 1)
  <2>1. m + 1 \in 0 .. N /\ m + 1 \in 1 .. N
    BY <1>0, <1>1, <1>5
  <2>2. F(m) \in Seq(Values) /\ Len(F(m)) = m /\ \A j \in 1 .. m : F(m)[j] = s[j]
    BY <1>0, <1>2
  <2>3. F(m + 1) \in Seq(Values) /\ Len(F(m + 1)) = m + 1 /\ \A j \in 1 .. m + 1 : F(m + 1)[j] = s[j]
    BY <1>2, <2>1
  <2> DEFINE e == s[m + 1]
             A == Append(F(m), e)
  <2>4. e \in Values
    BY <1>1, <2>1
  <2> HIDE DEF e
  <2>5. A \in Seq(Values) /\ Len(A) = m + 1 /\ (\A j \in 1 .. m : A[j] = F(m)[j]) /\ A[m + 1] = e
    BY <2>2, <2>4, <1>0, <1>1
  <2> HIDE DEF A
  <2>6. ASSUME NEW j \in 1 .. m + 1 PROVE A[j] = F(m + 1)[j]
    <3>1. CASE j = m + 1
      BY <3>1, <2>3, <2>5, <1>0, <1>1 DEF e
    <3>2. CASE j # m + 1
      <4>1. j \in 1 .. m
        BY <3>2, <1>0, <1>1
      <4>. QED BY <4>1, <2>2, <2>3, <2>5
    <3>. QED BY <3>1, <3>2
  <2>7. A = F(m + 1)
    BY <2>3, <2>5, <2>6, <1>0, <1>1, SeqEqual
  <2>. QED BY <2>7 DEF A, e
<1>. QED BY <1>3, <1>4, <1>5 DEF F, s, N

\* The numbers among the first lines of a record, by the line that follows.
StageOf(r, k, l) ==
    \/ k = 0 /\ l = Line("start")
    \/ k = 1 /\ l = Field("id", r.id) /\ Got(r, 2) = 0 /\ ~Inside(r, 2)
    \/ /\ k >= 2 /\ k < Size(r) - 1 /\ l.kind \in {"group", "outcome", "average", "median", "oracle"}
       /\ Got(r, k + 1) = Got(r, k) /\ ~Inside(r, k) /\ ~Inside(r, k + 1)
    \/ /\ k >= 2 /\ k < Size(r) - 1 /\ l.kind \in {"no_samples", "samples_end"}
       /\ Got(r, k + 1) = Got(r, k) /\ ~Inside(r, k + 1)
    \/ /\ k >= 2 /\ k < Size(r) - 1 /\ l.kind = "samples"
       /\ Got(r, k + 1) = Got(r, k) /\ ~Inside(r, k) /\ Inside(r, k + 1)
    \/ /\ k >= 2 /\ k < Size(r) - 1 /\ l.kind = "sample"
       /\ Got(r, k) \in 0 .. Len(r.samples) - 1 /\ l.value = r.samples[Got(r, k) + 1]
       /\ Got(r, k + 1) = Got(r, k) + 1 /\ Inside(r, k) /\ Inside(r, k + 1)
    \/ /\ k >= 2 /\ k = Size(r) - 1 /\ l.kind = "end" /\ ~Inside(r, k)
       /\ Got(r, k) = (IF r.group THEN 0 ELSE Len(r.samples))

LEMMA GotFacts ==
  ASSUME NEW r \in Measured, NEW k \in 0 .. Size(r) - 1, NEW l, IsLineOf(r, k, l)
  PROVE  StageOf(r, k, l)
<1> DEFINE z == Size(r)
           b == Before(r)
           t == Between(r)
           n == Len(r.samples)
           g(i) == Got(r, i)
           w(i) == Inside(r, i)
<1>1. /\ z \in Nat /\ r.old \in BOOLEAN /\ r.group \in BOOLEAN /\ n \in Nat
      /\ z = b + t + (IF r.oracle = "none" THEN 1 ELSE 2)
      /\ b = (IF r.old THEN 4 ELSE 6) /\ t = (IF r.group THEN 1 ELSE n + 2)
  BY SizeFacts
<1>2. k \in 0 .. z - 1
  OBVIOUS
<1>4. \/ k = 0 /\ l = Line("start")
      \/ k = 1 /\ l = Field("id", r.id)
      \/ k = 2 /\ l = Field("group", r.group)
      \/ k = 3 /\ r.old /\ l = Field("average", r.average)
      \/ k = 3 /\ ~r.old /\ l = Field("outcome", Outcome(r))
      \/ k = 4 /\ ~r.old /\ l = Field("average", r.average)
      \/ k = 5 /\ ~r.old /\ l = Field("median", r.median)
      \/ k = b /\ r.group /\ l = Line("no_samples")
      \/ k = b /\ ~r.group /\ l = Line("samples")
      \/ ~r.group /\ k - b \in 1 .. n /\ l = Field("sample", r.samples[k - b])
      \/ ~r.group /\ k = b + n + 1 /\ l = Line("samples_end")
      \/ r.oracle # "none" /\ k = z - 2 /\ l = Field("oracle", r.oracle)
      \/ k = z - 1 /\ l = Line("end")
  BY DEF IsLineOf
<1>5. \A i : g(i) = IF r.group \/ i <= b THEN 0 ELSE IF i <= b + 1 + n THEN i - b - 1 ELSE n
  BY DEF Got
<1>6. \A i : w(i) <=> ~r.group /\ b < i /\ i < b + t
  BY DEF Inside
<1>7. \A v : /\ Field("group", v).kind = "group" /\ Field("average", v).kind = "average"
             /\ Field("outcome", v).kind = "outcome" /\ Field("median", v).kind = "median"
             /\ Field("oracle", v).kind = "oracle" /\ Field("sample", v).kind = "sample" /\ Field("sample", v).value = v
  BY DEF Field
<1>8. /\ Line("no_samples").kind = "no_samples" /\ Line("samples").kind = "samples"
      /\ Line("samples_end").kind = "samples_end" /\ Line("end").kind = "end"
  BY DEF Line
<1> HIDE DEF z, b, t, n, g, w
<1>9. ASSUME k = 1 PROVE g(2) = 0 /\ ~w(2)
  BY <1>1, <1>5, <1>6
<1>10. ASSUME k >= 2, k < b PROVE k < z - 1 /\ g(k + 1) = g(k) /\ ~w(k) /\ ~w(k + 1)
  BY <1>1, <1>2, <1>5, <1>6, <1>10
<1>11. ASSUME r.oracle # "none", k = z - 2
       PROVE  k >= 2 /\ k < z - 1 /\ g(k + 1) = g(k) /\ ~w(k) /\ ~w(k + 1)
  BY <1>1, <1>2, <1>5, <1>6, <1>11
<1>12. ASSUME k = b, r.group PROVE k >= 2 /\ k < z - 1 /\ g(k + 1) = g(k) /\ ~w(k + 1)
  BY <1>1, <1>2, <1>5, <1>6, <1>12
<1>13. ASSUME ~r.group, k = b + n + 1 PROVE k >= 2 /\ k < z - 1 /\ g(k + 1) = g(k) /\ ~w(k + 1)
  BY <1>1, <1>2, <1>5, <1>6, <1>13
<1>14. ASSUME k = b, ~r.group PROVE k >= 2 /\ k < z - 1 /\ g(k + 1) = g(k) /\ ~w(k) /\ w(k + 1)
  BY <1>1, <1>2, <1>5, <1>6, <1>14
<1>15. ASSUME ~r.group, k - b \in 1 .. n
       PROVE  /\ k >= 2 /\ k < z - 1 /\ g(k) \in 0 .. n - 1 /\ g(k) + 1 = k - b /\ g(k + 1) = g(k) + 1 /\ w(k) /\ w(k + 1)
  BY <1>1, <1>2, <1>5, <1>6, <1>15
<1>16. ASSUME k = z - 1
       PROVE  k >= 2 /\ ~w(k) /\ g(k) = (IF r.group THEN 0 ELSE n)
  BY <1>1, <1>2, <1>5, <1>6, <1>16
<1>17. ASSUME k >= 2, k < z - 1, l.kind \in {"group", "outcome", "average", "median", "oracle"},
              g(k + 1) = g(k), ~w(k), ~w(k + 1)
       PROVE  /\ k >= 2 /\ k < Size(r) - 1 /\ l.kind \in {"group", "outcome", "average", "median", "oracle"}
              /\ Got(r, k + 1) = Got(r, k) /\ ~Inside(r, k) /\ ~Inside(r, k + 1)
  BY <1>17 DEF z, g, w
<1>18. CASE \/ k = 2 /\ l = Field("group", r.group)
            \/ k = 3 /\ r.old /\ l = Field("average", r.average)
            \/ k = 3 /\ ~r.old /\ l = Field("outcome", Outcome(r))
            \/ k = 4 /\ ~r.old /\ l = Field("average", r.average)
            \/ k = 5 /\ ~r.old /\ l = Field("median", r.median)
  <2>1. l.kind \in {"group", "outcome", "average", "median", "oracle"}
    BY <1>7, <1>18
  <2>2. k >= 2 /\ k < b
    BY <1>1, <1>2, <1>18
  <2>. QED BY <2>1, <2>2, <1>10, <1>17 DEF StageOf
<1>19. CASE r.oracle # "none" /\ k = z - 2 /\ l = Field("oracle", r.oracle)
  BY <1>7, <1>11, <1>17, <1>19 DEF StageOf
<1>20. CASE k = b /\ r.group /\ l = Line("no_samples")
  BY <1>8, <1>12, <1>20 DEF z, g, w, StageOf
<1>21. CASE k = b /\ ~r.group /\ l = Line("samples")
  BY <1>8, <1>14, <1>21 DEF z, g, w, StageOf
<1>22. CASE ~r.group /\ k - b \in 1 .. n /\ l = Field("sample", r.samples[k - b])
  BY <1>7, <1>15, <1>22 DEF z, g, w, n, StageOf
<1>23. CASE ~r.group /\ k = b + n + 1 /\ l = Line("samples_end")
  BY <1>8, <1>13, <1>23 DEF z, g, w, StageOf
<1>24. CASE k = z - 1 /\ l = Line("end")
  BY <1>8, <1>16, <1>24 DEF z, g, w, n, StageOf
<1>25. CASE k = 1 /\ l = Field("id", r.id)
  BY <1>9, <1>25 DEF g, w, StageOf
<1>26. CASE k = 0 /\ l = Line("start")
  BY <1>26 DEF StageOf
<1>. QED BY <1>4, <1>26, <1>18, <1>19, <1>20, <1>21, <1>22, <1>23, <1>24, <1>25

\* The record looked for is before the end of the records of the file.
LEMMA StillAhead ==
  ASSUME NEW f, IsFile(f), NEW id, NEW n, NEW ir, NEW sel, NEW ins, NEW nums,
         LookingAt(f, id, n, ir, sel, ins, nums), Listable(f, id)
  PROVE  n \in 0 .. Cut(f) /\ n # Cut(f) /\ n + 1 \in 1 .. Cut(f) /\ Cut(f) \in Nat /\ n < Len(f.lines)
<1> DEFINE cut == Cut(f)
<1>1. cut \in Nat /\ (Len(f.lines) = cut \/ Len(f.lines) = cut + 1)
  BY LayoutFacts
<1>2. n \in 0 .. cut /\ \A j \in 1 .. At(f, n).done : f.run[j].id # id
  BY DEF LookingAt
<1>3. n # cut
  BY <1>2 DEF Listable
<1> HIDE DEF cut
<1>4. n \in 0 .. cut /\ n # cut /\ n + 1 \in 1 .. cut /\ cut \in Nat /\ n < Len(f.lines)
  BY <1>1, <1>2, <1>3
<1>. QED BY <1>4 DEF cut

\* What is so after that line.
LookedAt(f, id, n, ir, sel, ins, nums, stops) ==
    /\ ~stops => LookingAt(f, id, n, ir, sel, ins, nums)
    /\ stops => LoadedFrom(f, id, nums)

LEMMA SamplesOn ==
  ASSUME NEW f, IsFile(f), NEW id, NEW n, NEW ir \in BOOLEAN, NEW sel \in BOOLEAN, NEW ins \in BOOLEAN, NEW nums,
         LookingAt(f, id, n, ir, sel, ins, nums), Listable(f, id),
         NEW ir2 \in BOOLEAN, NEW sel2 \in BOOLEAN, NEW ins2 \in BOOLEAN, NEW nums2, NEW stops \in BOOLEAN,
         SampleReads(f.lines[n + 1], id, ir, sel, ins, nums, ir2, sel2, ins2, nums2, stops)
  PROVE  LookedAt(f, id, n + 1, ir2, sel2, ins2, nums2, stops)
<1>. SUFFICES /\ ~stops => LookingAt(f, id, n + 1, ir2, sel2, ins2, nums2)
              /\ stops => LoadedFrom(f, id, nums2)
  BY DEF LookedAt
<1> DEFINE l == f.lines[n + 1]
           run == f.run
           cut == Cut(f)
           u == At(f, n)
           v == At(f, n + 1)
           r == run[u.done + 1]
           k == u.read
           First(x) == FirstSamples(r, x)
           SizeOf == Size(r)
<1>1. n \in 0 .. cut /\ n + 1 \in 1 .. cut /\ cut \in Nat /\ n + 1 \in 0 .. cut /\ n + 1 - 1 = n
  <2>1. n \in 0 .. cut /\ n # cut /\ n + 1 \in 1 .. cut /\ cut \in Nat
    BY StillAhead
  <2> HIDE DEF cut
  <2>. QED BY <2>1
<1>2. run \in Seq(Measured) /\ u \in Place(run) /\ v \in Place(run) /\ Reads(run, l, u, v)
  <2>1. /\ run \in Seq(Measured)
        /\ \A i \in 0 .. cut : At(f, i) \in Place(run)
        /\ \A i \in 1 .. cut : Reads(run, f.lines[i], At(f, i - 1), At(f, i))
    BY LayoutFacts
  <2>. QED BY <1>1, <2>1
<1>3. /\ \A j \in 1 .. u.done : run[j].id # id
      /\ ir <=> k > 0
      /\ sel <=> k >= 2 /\ r.id = id
      /\ ins <=> sel /\ Inside(r, k)
      /\ nums = IF sel THEN First(Got(r, k)) ELSE <<>>
  BY DEF LookingAt
<1>4. /\ u.done \in 0 .. Len(run) /\ k \in Nat
      /\ \/ k = 0 /\ v = u /\ l.kind = "other"
         \/ /\ u.done + 1 \in 1 .. Len(run) /\ r \in Measured /\ SizeOf \in Nat
            /\ k \in 0 .. SizeOf - 1 /\ IsLineOf(r, k, l)
            /\ k = SizeOf - 1 => v = Standing(u.done + 1)
            /\ k # SizeOf - 1 => v = [done |-> u.done, read |-> k + 1]
  <2>1. run \in Seq(Measured) /\ u \in Place(run) /\ Reads(run, l, u, v)
    BY <1>2
  <2> HIDE DEF run, l, u, v
  <2>2. /\ u.done \in 0 .. Len(run) /\ u.read \in Nat
        /\ \/ u.read = 0 /\ v = u /\ l.kind = "other"
           \/ /\ u.done + 1 \in 1 .. Len(run) /\ r \in Measured /\ Size(r) \in Nat
              /\ u.read \in 0 .. Size(r) - 1 /\ IsLineOf(r, u.read, l)
              /\ u.read = Size(r) - 1 => v = Standing(u.done + 1)
              /\ u.read # Size(r) - 1 => v = [done |-> u.done, read |-> u.read + 1]
    BY <2>1, LineRead
  <2>. QED BY <2>2
\* What is to be shown when the reader stays in the record.
<1>5. ASSUME v = [done |-> u.done, read |-> k + 1], stops = FALSE, k \in Nat,
             ir2 = TRUE, sel2 <=> k + 1 >= 2 /\ r.id = id,
             ins2 <=> sel2 /\ Inside(r, k + 1),
             nums2 = IF sel2 THEN First(Got(r, k + 1)) ELSE <<>>
      PROVE  /\ ~stops => LookingAt(f, id, n + 1, ir2, sel2, ins2, nums2)
             /\ stops => LoadedFrom(f, id, nums2)
  <2>1. v.done = u.done /\ v.read = k + 1 /\ k + 1 > 0
    BY <1>5
  <2>2. n + 1 \in 0 .. Cut(f)
    BY <1>1
  <2> HIDE DEF u, v, k
  <2>3. /\ \A j \in 1 .. v.done : f.run[j].id # id
        /\ ir2 <=> v.read > 0
        /\ sel2 <=> v.read >= 2 /\ f.run[v.done + 1].id = id
        /\ ins2 <=> sel2 /\ Inside(f.run[v.done + 1], v.read)
        /\ nums2 = IF sel2 THEN FirstSamples(f.run[v.done + 1], Got(f.run[v.done + 1], v.read)) ELSE <<>>
    BY <1>3, <1>5, <2>1
  <2>. QED BY <1>5, <2>2, <2>3 DEF LookingAt, v
<1> HIDE DEF l, u, v, k, r, SizeOf, First
<1>6. CASE k = 0 /\ v = u /\ l.kind = "other"
  <2>1. stops = FALSE /\ ir2 = ir /\ sel2 = sel /\ ins2 = ins /\ nums2 = nums
    BY <1>3, <1>6 DEF SampleReads, l
  <2>2. n + 1 \in 0 .. Cut(f) /\ At(f, n + 1) = At(f, n)
    BY <1>1, <1>6 DEF u, v
  <2>. QED BY <2>1, <2>2 DEF LookingAt
<1>7. CASE /\ u.done + 1 \in 1 .. Len(run) /\ r \in Measured /\ SizeOf \in Nat
           /\ k \in 0 .. SizeOf - 1 /\ IsLineOf(r, k, l)
           /\ k = SizeOf - 1 => v = Standing(u.done + 1)
           /\ k # SizeOf - 1 => v = [done |-> u.done, read |-> k + 1]
  <2>0. k \in Nat /\ SizeOf > 5
    <3>1. SizeOf \in Nat /\ Before(r) \in Nat /\ Between(r) \in Nat /\ Before(r) >= 4 /\ Between(r) >= 1
          /\ SizeOf > Before(r) + Between(r)
      BY <1>7, MeasuredFacts DEF SizeOf
    <3>. QED BY <1>4, <3>1
  <2>1. StageOf(r, k, l)
    BY <1>7, GotFacts DEF SizeOf
  <2>2. /\ First(0) = <<>>
        /\ First(Len(r.samples)) = r.samples
        /\ \A m \in 0 .. Len(r.samples) :
              m < Len(r.samples) => Append(First(m), r.samples[m + 1]) = First(m + 1)
    BY <1>7, FirstSamplesFacts DEF First
  <2>3. CASE k = 0 /\ l = Line("start")
    <3>1. l.kind = "start"
      BY <2>3 DEF Line
    <3>2. stops = FALSE /\ ir2 = TRUE /\ sel2 = FALSE /\ ins2 = FALSE /\ nums2 = nums /\ nums = <<>>
      BY <1>3, <2>3, <3>1 DEF SampleReads, l
    <3>3. v = [done |-> u.done, read |-> k + 1] /\ ~(k + 1 >= 2)
      BY <1>7, <2>0, <2>3
    <3>. QED BY <1>5, <2>0, <3>2, <3>3
  <2>4. CASE k = 1 /\ l = Field("id", r.id) /\ Got(r, 2) = 0 /\ ~Inside(r, 2)
    <3>1. l.kind = "id" /\ l.value = r.id
      BY <2>4 DEF Field
    <3>2. ir /\ ~sel /\ ~ins /\ nums = <<>> /\ k + 1 = 2
      BY <1>3, <2>4
    <3>3. stops = FALSE /\ ir2 = TRUE /\ (sel2 <=> r.id = id) /\ ins2 = ins /\ nums2 = nums
      BY <3>1, <3>2 DEF SampleReads, l
    <3>4. v = [done |-> u.done, read |-> k + 1] /\ k + 1 >= 2
      BY <1>7, <2>0, <2>4
    <3>5. Got(r, k + 1) = 0 /\ ~Inside(r, k + 1)
      BY <2>4, <3>2
    <3>. QED BY <1>5, <2>0, <2>2, <3>2, <3>3, <3>4, <3>5
  <2>5. ASSUME k >= 2, k < SizeOf - 1
        PROVE  /\ v = [done |-> u.done, read |-> k + 1] /\ k + 1 >= 2 /\ ir
               /\ sel <=> r.id = id
    BY <1>3, <1>7, <2>0, <2>5
  <2>6. CASE /\ k >= 2 /\ k < SizeOf - 1 /\ l.kind \in {"group", "outcome", "average", "median", "oracle"}
             /\ Got(r, k + 1) = Got(r, k) /\ ~Inside(r, k) /\ ~Inside(r, k + 1)
    <3>1. stops = FALSE /\ ir2 = ir /\ sel2 = sel /\ ins2 = ins /\ nums2 = nums
      BY <2>5, <2>6 DEF SampleReads, l
    <3>. QED BY <1>3, <1>5, <2>0, <2>5, <2>6, <3>1
  <2>7. CASE /\ k >= 2 /\ k < SizeOf - 1 /\ l.kind \in {"no_samples", "samples_end"}
             /\ Got(r, k + 1) = Got(r, k) /\ ~Inside(r, k + 1)
    <3>1. /\ stops = FALSE /\ ir2 = ir /\ sel2 = sel /\ nums2 = nums
          /\ ins2 = IF sel THEN FALSE ELSE ins
      BY <2>5, <2>7 DEF SampleReads, l
    <3>. QED BY <1>3, <1>5, <2>0, <2>5, <2>7, <3>1
  <2>8. CASE /\ k >= 2 /\ k < SizeOf - 1 /\ l.kind = "samples"
             /\ Got(r, k + 1) = Got(r, k) /\ ~Inside(r, k) /\ Inside(r, k + 1)
    <3>1. /\ stops = FALSE /\ ir2 = ir /\ sel2 = sel /\ nums2 = nums
          /\ ins2 = IF sel THEN TRUE ELSE ins
      BY <2>5, <2>8 DEF SampleReads, l
    <3>. QED BY <1>3, <1>5, <2>0, <2>5, <2>8, <3>1
  <2>9. CASE /\ k >= 2 /\ k < SizeOf - 1 /\ l.kind = "sample"
             /\ Got(r, k) \in 0 .. Len(r.samples) - 1 /\ l.value = r.samples[Got(r, k) + 1]
             /\ Got(r, k + 1) = Got(r, k) + 1 /\ Inside(r, k) /\ Inside(r, k + 1)
    <3>1. ins <=> sel
      BY <1>3, <2>9
    <3>2. /\ stops = FALSE /\ ir2 = ir /\ sel2 = sel /\ ins2 = ins
          /\ nums2 = IF sel THEN Append(nums, l.value) ELSE nums
      BY <2>5, <2>9, <3>1 DEF SampleReads, l
    <3>3. sel => nums2 = First(Got(r, k + 1))
      <4>1. Got(r, k) \in 0 .. Len(r.samples) /\ Got(r, k) < Len(r.samples)
        <5>1. Len(r.samples) \in Nat
          BY <1>7, MeasuredFacts
        <5>. QED BY <2>9, <5>1
      <4>. QED BY <1>3, <2>2, <2>9, <3>2, <4>1
    <3>. QED BY <1>3, <1>5, <2>0, <2>5, <2>9, <3>1, <3>2, <3>3
  <2>10. CASE /\ k >= 2 /\ k = SizeOf - 1 /\ l.kind = "end" /\ ~Inside(r, k)
              /\ Got(r, k) = (IF r.group THEN 0 ELSE Len(r.samples))
    <3>1. ir /\ (sel <=> r.id = id) /\ ~ins
      BY <1>3, <2>0, <2>10
    <3>2. ir2 = FALSE /\ sel2 = sel /\ ins2 = ins /\ nums2 = nums /\ stops = sel
      BY <2>10, <3>1 DEF SampleReads, l
    <3>3. CASE sel
      <4>1. nums2 = WholeSamples(r)
        <5>1. nums2 = First(Got(r, k))
          BY <1>3, <3>2, <3>3
        <5>. QED BY <2>2, <2>10, <5>1 DEF WholeSamples
      <4>2. ASSUME NEW m, IsFirst(run, id, m) PROVE m = u.done + 1
        <5>1. m \in 1 .. Len(run) /\ run[m].id = id /\ \A i \in 1 .. m - 1 : run[i].id # id
          BY <1>2, <4>2 DEF IsFirst
        <5>2. ~(m \in 1 .. u.done)
          BY <1>3, <5>1
        <5>3. ~(u.done + 1 \in 1 .. m - 1)
          BY <3>1, <3>3, <5>1 DEF r
        <5>4. Len(run) \in Nat
          BY <1>2
        <5>. QED BY <1>4, <5>1, <5>2, <5>3, <5>4
      <4>. QED BY <3>2, <3>3, <4>1, <4>2 DEF LoadedFrom, r
    <3>4. CASE ~sel
      <4>1. v.done = u.done + 1 /\ v.read = 0
        BY <1>7, <2>10 DEF Standing
      <4>2. \A j \in 1 .. v.done : run[j].id # id
        <5> SUFFICES ASSUME NEW j \in 1 .. u.done + 1 PROVE run[j].id # id
          BY <4>1
        <5>1. j \in 1 .. u.done \/ j = u.done + 1
          BY <1>4
        <5>. QED BY <1>3, <3>1, <3>4, <5>1 DEF r
      <4>3. n + 1 \in 0 .. Cut(f)
        BY <1>1
      <4>4. ~(v.read > 0) /\ ~(v.read >= 2)
        BY <4>1
      <4>5. ~ir2 /\ ~sel2 /\ ~ins2 /\ nums2 = <<>> /\ ~stops
        BY <1>3, <3>1, <3>2, <3>4
      <4>. QED BY <4>2, <4>3, <4>4, <4>5 DEF LookingAt, v
    <3>. QED BY <3>3, <3>4
  <2>. QED BY <2>1, <2>3, <2>4, <2>6, <2>7, <2>8, <2>9, <2>10 DEF StageOf, SizeOf
<1>. QED BY <1>4, <1>6, <1>7

LEMMA SamplesAreValues ==
  ASSUME NEW f, IsFile(f), NEW i \in 1 .. Len(f.lines), f.lines[i].kind = "sample"
  PROVE  f.lines[i].value \in Values
<1> DEFINE cut == Cut(f)
           u == At(f, i - 1)
           l == f.lines[i]
           r == f.run[u.done + 1]
<1>1. /\ f.run \in Seq(Measured) /\ cut \in Nat
      /\ \A j \in 0 .. cut : At(f, j) \in Place(f.run)
      /\ \A j \in 1 .. cut : Reads(f.run, f.lines[j], At(f, j - 1), At(f, j))
      /\ \/ Len(f.lines) = cut
         \/ Len(f.lines) = cut + 1 /\ LastLine(f.lines[cut + 1])
  BY LayoutFacts
<1> HIDE DEF cut
<1>2. CASE i \in 1 .. cut
  <2>1. i - 1 \in 0 .. cut
    BY <1>1, <1>2
  <2>2. f.run \in Seq(Measured) /\ u \in Place(f.run) /\ Reads(f.run, l, u, At(f, i))
    BY <1>1, <1>2, <2>1
  <2> HIDE DEF u, l
  <2>3. l.kind = "other" \/ (r \in Measured /\ u.read \in 0 .. Size(r) - 1 /\ IsLineOf(r, u.read, l))
    BY <2>2, LineRead
  <2> HIDE DEF r
  <2>4. l.kind = "sample" => l.value \in Values
    BY <2>3, KindOfLine
  <2>. QED BY <2>4 DEF l
<1>3. CASE ~(i \in 1 .. cut)
  <2>1. i = cut + 1 /\ LastLine(l)
    BY <1>1, <1>3
  <2>. QED BY <2>1 DEF LastLine
<1>. QED BY <1>2, <1>3

\* A record is closed by each line that ends one.
LEMMA EndsCounted ==
  ASSUME NEW f, IsFile(f)
  PROVE  Cardinality({i \in DOMAIN f.lines : f.lines[i].kind = "end"}) = At(f, Cut(f)).done
<1> DEFINE cut == Cut(f)
           run == f.run
           isEnd(i) == f.lines[i].kind = "end"
           E(n) == {i \in 1 .. n : isEnd(i)}
           S == {n \in Nat : n <= cut => IsFiniteSet(E(n)) /\ Cardinality(E(n)) = At(f, n).done}
<1>1. /\ run \in Seq(Measured) /\ cut \in Nat /\ Len(f.lines) \in Nat
      /\ DOMAIN f.lines = 1 .. Len(f.lines)
      /\ At(f, 0) = Standing(0)
      /\ \A i \in 0 .. cut : At(f, i) \in Place(run)
      /\ \A i \in 1 .. cut : Reads(run, f.lines[i], At(f, i - 1), At(f, i))
      /\ \/ Len(f.lines) = cut
         \/ Len(f.lines) = cut + 1 /\ LastLine(f.lines[cut + 1])
  BY LayoutFacts
<1> HIDE DEF cut, run
<1>2. 0 \in S
  <2>1. E(0) = {}
    OBVIOUS
  <2> HIDE DEF E
  <2>2. IsFiniteSet(E(0)) /\ Cardinality(E(0)) = 0
    BY <2>1, FS_EmptySet
  <2>3. At(f, 0).done = 0
    BY <1>1 DEF Standing
  <2>. QED BY <2>2, <2>3
<1>3. ASSUME NEW n \in S, n + 1 <= cut
      PROVE  IsFiniteSet(E(n + 1)) /\ Cardinality(E(n + 1)) = At(f, n + 1).done
  <2> DEFINE u == At(f, n)
             v == At(f, n + 1)
             l == f.lines[n + 1]
             r == run[u.done + 1]
  <2>1. n \in Nat /\ n <= cut /\ n \in 0 .. cut /\ n + 1 \in 0 .. cut /\ n + 1 \in 1 .. cut /\ n + 1 - 1 = n
    BY <1>1, <1>3
  <2>2. IsFiniteSet(E(n)) /\ Cardinality(E(n)) = u.done
    BY <2>1
  <2>3. run \in Seq(Measured) /\ u \in Place(run) /\ Reads(run, l, u, v)
    BY <1>1, <2>1
  <2>4. ~(n + 1 \in E(n))
    BY <2>1
  <2>5. E(n + 1) = IF isEnd(n + 1) THEN E(n) \cup {n + 1} ELSE E(n)
    BY <2>1
  <2>6. isEnd(n + 1) <=> l.kind = "end"
    OBVIOUS
  <2> HIDE DEF E, u, v, l, isEnd
  <2>7. /\ u.done \in 0 .. Len(run) /\ u.read \in Nat
        /\ \/ u.read = 0 /\ v = u /\ l.kind = "other"
           \/ /\ r \in Measured /\ Size(r) \in Nat
              /\ u.read \in 0 .. Size(r) - 1 /\ IsLineOf(r, u.read, l)
              /\ u.read = Size(r) - 1 => v = Standing(u.done + 1)
              /\ u.read # Size(r) - 1 => v = [done |-> u.done, read |-> u.read + 1]
    BY <2>3, LineRead
  <2>8. v.done = IF isEnd(n + 1) THEN u.done + 1 ELSE u.done
    <3>1. CASE u.read = 0 /\ v = u /\ l.kind = "other"
      BY <2>6, <3>1
    <3>2. CASE /\ r \in Measured /\ Size(r) \in Nat
               /\ u.read \in 0 .. Size(r) - 1 /\ IsLineOf(r, u.read, l)
               /\ u.read = Size(r) - 1 => v = Standing(u.done + 1)
               /\ u.read # Size(r) - 1 => v = [done |-> u.done, read |-> u.read + 1]
      <4>1. u.read = Size(r) - 1 <=> l.kind = "end"
        BY <3>2, KindOfLine
      <4>. QED BY <2>6, <3>2, <4>1 DEF Standing
    <3>. QED BY <2>7, <3>1, <3>2
  <2>9. IsFiniteSet(E(n) \cup {n + 1}) /\ Cardinality(E(n) \cup {n + 1}) = Cardinality(E(n)) + 1
    BY <2>2, <2>4, FS_AddElement
  <2>. QED BY <2>2, <2>5, <2>8, <2>9 DEF v
<1>4. S = Nat
  <2>1. \A n \in S : n + 1 \in S
    <3> SUFFICES ASSUME NEW n \in S PROVE n + 1 \in S
      OBVIOUS
    <3>1. n \in Nat
      OBVIOUS
    <3>2. n + 1 <= cut => IsFiniteSet(E(n + 1)) /\ Cardinality(E(n + 1)) = At(f, n + 1).done
      BY <1>3
    <3> HIDE DEF E
    <3>. QED BY <3>1, <3>2
  <2>2. S \subseteq Nat
    OBVIOUS
  <2> HIDE DEF S
  <2>. QED BY <1>2, <2>1, <2>2, SetInduction
<1>5. Cardinality(E(cut)) = At(f, cut).done
  <2>1. cut \in S
    BY <1>1, <1>4
  <2>2. cut <= cut
    BY <1>1
  <2> HIDE DEF E
  <2>. QED BY <2>1, <2>2
<1>6. {i \in DOMAIN f.lines : f.lines[i].kind = "end"} = E(cut)
  <2>1. CASE Len(f.lines) = cut
    BY <1>1, <2>1
  <2>2. CASE Len(f.lines) = cut + 1 /\ LastLine(f.lines[cut + 1])
    <3>1. ~isEnd(cut + 1)
      BY <2>2 DEF LastLine
    <3>2. \A i : i \in 1 .. cut + 1 <=> i \in 1 .. cut \/ i = cut + 1
      BY <1>1
    <3>. QED BY <1>1, <2>2, <3>1, <3>2
  <2>. QED BY <1>1, <2>1, <2>2
<1>. QED BY <1>5, <1>6 DEF cut

\* A record that is listed has a first of its id.
LEMMA FirstExists ==
  ASSUME NEW f, IsFile(f), NEW id, Listable(f, id)
  PROVE  \E n : IsFirst(f.run, id, n)
<1> DEFINE run == f.run
           S == {n \in Nat : n \in DOMAIN run /\ run[n].id = id}
<1>1. run \in Seq(Measured) /\ DOMAIN run = 1 .. Len(run) /\ Len(run) \in Nat
  BY DEF IsFile
<1>2. S # {}
  <2>1. PICK n \in 1 .. At(f, Cut(f)).done : run[n].id = id
    BY DEF Listable
  <2>2. At(f, Cut(f)) \in Place(run)
    <3>1. Cut(f) \in Nat /\ \A i \in 0 .. Cut(f) : At(f, i) \in Place(run)
      BY LayoutFacts
    <3>2. Cut(f) \in 0 .. Cut(f)
      BY <3>1
    <3>. QED BY <3>1, <3>2
  <2>3. At(f, Cut(f)).done \in 0 .. Len(run)
    BY <2>2 DEF Place
  <2> DEFINE d == At(f, Cut(f)).done
  <2> HIDE DEF d
  <2>4. n \in Nat /\ n \in 1 .. Len(run)
    BY <2>1, <2>3, <1>1 DEF d
  <2>. QED BY <1>1, <2>1, <2>4
<1>3. \E n \in S : \A m \in 0 .. n - 1 : ~(m \in S)
  <2>. S \subseteq Nat
    OBVIOUS
  <2> HIDE DEF S
  <2> SUFFICES ASSUME \A n \in S : ~(\A m \in 0 .. n - 1 : ~(m \in S)) PROVE FALSE
    OBVIOUS
  <2> DEFINE T == {k \in Nat : \A m \in 0 .. k : ~(m \in S)}
  <2>1. 0 \in T
    <3>1. ~(0 \in S)
      OBVIOUS
    <3>. QED BY <3>1
  <2>2. ASSUME NEW k \in T PROVE k + 1 \in T
    <3>1. k \in Nat /\ k + 1 - 1 = k
      OBVIOUS
    <3>2. ~(k + 1 \in S)
      BY <3>1
    <3>3. \A m \in 0 .. k + 1 : m \in 0 .. k \/ m = k + 1
      BY <3>1
    <3>. QED BY <3>1, <3>2, <3>3
  <2>3. T = Nat
    <3>1. T \subseteq Nat
      OBVIOUS
    <3> HIDE DEF T
    <3>. QED BY <2>1, <2>2, <3>1, SetInduction
  <2>4. \A n \in Nat : ~(n \in S)
    <3> SUFFICES ASSUME NEW n \in Nat PROVE ~(n \in S)
      OBVIOUS
    <3>1. n \in T /\ n \in 0 .. n
      BY <2>3
    <3>. QED BY <3>1
  <2>. QED BY <1>2, <2>4
<1>4. PICK n \in S : \A m \in 0 .. n - 1 : ~(m \in S)
  BY <1>3
<1>5. ASSUME NEW i \in 1 .. n - 1 PROVE run[i].id # id
  <2>1. n \in 1 .. Len(run)
    BY <1>1
  <2>2. i \in 0 .. n - 1 /\ i \in Nat /\ i \in 1 .. Len(run)
    BY <1>1, <2>1
  <2>. QED BY <1>1, <1>4, <2>2
<1>. QED BY <1>4, <1>5 DEF IsFirst

\* The record that an item's samples are loaded from.
LEMMA LoadedIsFirst ==
  ASSUME NEW f, IsFile(f), NEW id, Listable(f, id), NEW nums, LoadedFrom(f, id, nums)
  PROVE  LET run == f.run
             first == CHOOSE n \in DOMAIN run : run[n].id = id /\ \A i \in 1 .. n - 1 : run[i].id # run[n].id
         IN nums = IF run[first].group THEN <<>> ELSE run[first].samples
<1> DEFINE run == f.run
           P(n) == run[n].id = id /\ \A i \in 1 .. n - 1 : run[i].id # run[n].id
           first == CHOOSE n \in DOMAIN run : P(n)
<1>1. \E n \in DOMAIN run : P(n)
  <2>1. PICK n : IsFirst(run, id, n)
    BY FirstExists
  <2>. QED BY <2>1 DEF IsFirst
<1>2. first \in DOMAIN run /\ P(first)
  <2> HIDE DEF P
  <2>. QED BY <1>1
<1> HIDE DEF first
<1>3. IsFirst(run, id, first)
  BY <1>2 DEF IsFirst
<1>4. nums = WholeSamples(run[first])
  BY <1>3 DEF LoadedFrom
<1>. QED BY <1>4 DEF WholeSamples, first

\* Both readers start before the first line.
LEMMA NothingReadYet ==
  ASSUME NEW f, IsFile(f), NEW rc, NEW id
  PROVE  ReadingAt(f, 0, FALSE, rc, "none", <<>>) /\ LookingAt(f, id, 0, FALSE, FALSE, FALSE, <<>>)
<1>1. f.run \in Seq(Measured) /\ Cut(f) \in Nat /\ Len(f.lines) \in Nat /\ At(f, 0) = Standing(0)
  BY LayoutFacts
<1>2. At(f, 0).done = 0 /\ At(f, 0).read = 0
  BY <1>1 DEF Standing
<1>3. 0 \in 0 .. Len(f.lines) /\ 0 \in 0 .. Cut(f) /\ 0 <= Cut(f) /\ 0 \in 0 .. Len(f.run)
  <2> DEFINE c == Cut(f)
  <2> HIDE DEF c
  <2>. QED BY <1>1 DEF c
<1>4. FirstRecords(f.run, 0) = <<>>
  BY <1>1, <1>3, FirstRecordsFacts
<1>5. ReadingAt(f, 0, FALSE, rc, "none", <<>>)
  BY <1>2, <1>3, <1>4 DEF ReadingAt
<1>6. \A j \in 1 .. 0 : FALSE
  OBVIOUS
<1>7. LookingAt(f, id, 0, FALSE, FALSE, FALSE, <<>>)
  BY <1>2, <1>3, <1>6 DEF LookingAt
<1>. QED BY <1>5, <1>7

-----------------------------------------------------------------------------
(* The menu: what is typed, and the strides. *)

\* What the scans are given to work on: no job, one, or two.
JobsOn(j) ==
    \/ j = <<>>
    \/ \E a : j = <<a>> /\ a.path \in Paths
    \/ \E a, b : j = <<a, b>> /\ a.path \in Paths /\ b.path \in Paths

Typing ==
    /\ files \in Histories /\ viewed \in Paths /\ baseline \in Paths
    /\ JobsOn(jobs) /\ at \in Nat \ {0}
    /\ raw \in [Paths -> Numbers] /\ samples \in [Paths -> Sample]

IInv == Typing /\ KeepsEveryStride

LEMMA NothingRead ==
  /\ Empty(<<>>) \in [Paths -> Numbers] /\ Empty(NoSamples) \in [Paths -> Sample]
  /\ \A p \in Paths : Faithful(Empty(NoSamples)[p], Empty(<<>>)[p])
<1>1. <<>> \in Numbers /\ NoSamples \in Sample
  BY DEF Numbers, Sample, NoSamples
<1>2. Faithful(NoSamples, <<>>)
  BY MaxSamplesType DEF Faithful, NoSamples
<1>. QED BY <1>1, <1>2 DEF Empty

LEMMA InitIInv == Init => IInv
  BY NothingRead DEF Init, IInv, Typing, KeepsEveryStride, JobsOn

LEMMA HeadAndTail ==
  ASSUME JobsOn(jobs), jobs # <<>>
  PROVE  path \in Paths /\ JobsOn(Tail(jobs))
<1>1. CASE \E a : jobs = <<a>> /\ a.path \in Paths
  <2>1. PICK a : jobs = <<a>> /\ a.path \in Paths
    BY <1>1
  <2>2. Head(jobs) = a /\ Tail(jobs) = <<>>
    BY <2>1
  <2>. QED BY <2>1, <2>2 DEF path, JobsOn
<1>2. CASE \E a, b : jobs = <<a, b>> /\ a.path \in Paths /\ b.path \in Paths
  <2>1. PICK a, b : jobs = <<a, b>> /\ a.path \in Paths /\ b.path \in Paths
    BY <1>2
  <2>2. Head(jobs) = a /\ Tail(jobs) = <<b>>
    BY <2>1
  <2>. QED BY <2>1, <2>2 DEF path, JobsOn
<1>. QED BY <1>1, <1>2 DEF JobsOn

LEMMA FilesAreFiles ==
  ASSUME Typing, NEW p \in Paths
  PROVE  IsFile(files[p])
  BY ViewerAssumption DEF Typing, IsFile

LEMMA LineFacts ==
  ASSUME Typing, jobs # <<>>
  PROVE  /\ path \in Paths /\ Len(lines) \in Nat
         /\ at <= Len(lines) /\ line.kind = "sample" => line.value \in Values
<1> DEFINE f == files[path]
<1>1. path \in Paths /\ at \in Nat \ {0}
  BY HeadAndTail DEF Typing
<1>2. IsFile(f)
  BY <1>1, FilesAreFiles
<1>3. Len(f.lines) \in Nat
  BY <1>2, LayoutFacts
<1>4. ASSUME at <= Len(f.lines), f.lines[at].kind = "sample"
      PROVE  f.lines[at].value \in Values
  <2>1. at \in 1 .. Len(f.lines)
    BY <1>1, <1>3, <1>4
  <2>. QED BY <1>2, <1>4, <2>1, SamplesAreValues
<1>. QED BY <1>1, <1>3, <1>4 DEF line, lines

\* A step of the list reader, or of the sample reader off the values.
LEMMA ReadingOn ==
  ASSUME IInv, Next1 \/ (at' \in Nat \ {0} /\ UNCHANGED <<files, menu, jobs>>),
         UNCHANGED <<raw, samples>>
  PROVE  IInv'
  BY DEF IInv, Typing, Next1, menu, KeepsEveryStride, JobsOn

LEMMA ScanDoneIInv ==
  ASSUME IInv, ScanDone, jobs # <<>>, UNCHANGED samples
  PROVE  IInv'
<1>1. JobsOn(jobs')
  BY HeadAndTail DEF IInv, Typing, ScanDone
<1>. QED BY <1>1 DEF IInv, Typing, ScanDone, menu, KeepsEveryStride

LEMMA ListStepIInv ==
  ASSUME IInv, ListStart \/ ListField \/ ListRecordEnd \/ ListEnd
  PROVE  IInv'
<1>1. CASE ListStart \/ ListField \/ ListRecordEnd
  BY <1>1, ReadingOn DEF ListStart, ListField, ListRecordEnd, sampling
<1>2. CASE ListEnd
  BY <1>2, ScanDoneIInv DEF ListEnd, Listing
<1>. QED BY <1>1, <1>2

LEMMA SampleStepIInv ==
  ASSUME IInv, SampleStart \/ SampleId \/ SampleBracket \/ SampleSkip \/ SampleRecordEnd \/ SampleEnd
  PROVE  IInv'
<1>1. CASE SampleStart \/ SampleId \/ SampleBracket \/ SampleSkip
  BY <1>1, ReadingOn DEF SampleStart, SampleId, SampleBracket, SampleSkip, sampling
<1>2. CASE SampleRecordEnd
  <2>1. Len(lines) \in Nat /\ at \in Nat \ {0}
    BY <1>2, LineFacts DEF SampleRecordEnd, Sampling, IInv, Typing
  <2>2. at' \in Nat \ {0}
    BY <1>2, <2>1 DEF SampleRecordEnd
  <2>. QED BY <1>2, <2>2, ReadingOn DEF SampleRecordEnd, sampling
<1>3. CASE SampleEnd
  BY <1>3, ScanDoneIInv DEF SampleEnd, Sampling
<1>. QED BY <1>1, <1>2, <1>3

LEMMA SampleValueIInv ==
  ASSUME IInv, SampleValue
  PROVE  IInv'
<1>1. path \in Paths /\ line.value \in Values
  BY LineFacts DEF SampleValue, Sampling, IInv
<1> DEFINE v == line.value
           s == samples[path]
           numbers == raw[path]
<1>2. s \in Sample /\ numbers \in Numbers /\ Faithful(s, numbers)
  BY <1>1 DEF IInv, Typing, KeepsEveryStride
<1>3. Kept(s, Len(numbers), v) \in Sample /\ Faithful(Kept(s, Len(numbers), v), Append(numbers, v))
  BY <1>1, <1>2, KeptFaithful
<1>4. Append(numbers, v) \in Numbers
  BY <1>1, <1>2 DEF Numbers
<1>5. /\ raw' = [raw EXCEPT ![path] = Append(numbers, v)]
      /\ samples' = [samples EXCEPT ![path] = Kept(s, Len(numbers), v)]
      /\ at' = at + 1 /\ UNCHANGED <<files, menu, jobs>>
  BY DEF SampleValue, Next1
<1> HIDE DEF v, s, numbers
<1>6. raw' \in [Paths -> Numbers] /\ samples' \in [Paths -> Sample]
  BY <1>1, <1>3, <1>4, <1>5 DEF IInv, Typing
<1>7. ASSUME NEW p \in Paths PROVE Faithful(samples'[p], raw'[p])
  <2>1. CASE p = path
    BY <2>1, <1>1, <1>3, <1>5 DEF IInv, Typing
  <2>2. CASE p # path
    <3>1. samples'[p] = samples[p] /\ raw'[p] = raw[p]
      BY <2>2, <1>5 DEF IInv, Typing
    <3>. QED BY <3>1 DEF IInv, KeepsEveryStride
  <2>. QED BY <2>1, <2>2
<1>8. Typing'
  BY <1>5, <1>6 DEF IInv, Typing, menu
<1>. QED BY <1>7, <1>8 DEF IInv, KeepsEveryStride

LEMMA ListedIInv ==
  ASSUME IInv, NEW p \in Paths, NEW q \in Paths, Listed(<<p>>) \/ Listed(<<p, q>>),
         viewed' \in Paths, UNCHANGED baseline
  PROVE  IInv'
<1>1. JobsOn(jobs')
  <2>1. CASE Listed(<<p>>)
    <3>1. jobs' = <<RecordScan(p)>>
      BY <2>1 DEF Listed
    <3>2. RecordScan(p).path = p
      BY DEF RecordScan
    <3>. QED BY <3>1, <3>2 DEF JobsOn
  <2>2. CASE Listed(<<p, q>>)
    <3>1. jobs' = <<RecordScan(p), RecordScan(q)>>
      BY <2>2 DEF Listed
    <3>2. RecordScan(p).path = p /\ RecordScan(q).path = q
      BY DEF RecordScan
    <3>. QED BY <3>1, <3>2 DEF JobsOn
  <2>. QED BY <2>1, <2>2
<1>. QED BY <1>1 DEF IInv, Typing, Listed, sampling, KeepsEveryStride

LEMMA EnterIInv ==
  ASSUME IInv, NEW a, NEW b, a.path \in Paths, b.path \in Paths, Enter(<<a>>) \/ Enter(<<a, b>>)
  PROVE  IInv'
<1>1. JobsOn(jobs')
  <2>1. CASE Enter(<<a>>)
    <3>1. jobs' = <<SampleScan(a)>>
      BY <2>1 DEF Enter
    <3>. QED BY <3>1 DEF JobsOn, SampleScan
  <2>2. CASE Enter(<<a, b>>)
    <3>1. jobs' = <<SampleScan(a), SampleScan(b)>>
      BY <2>2 DEF Enter
    <3>. QED BY <3>1 DEF JobsOn, SampleScan
  <2>. QED BY <2>1, <2>2
<1>2. raw' = Empty(<<>>) /\ samples' = Empty(NoSamples) /\ UNCHANGED <<files, viewed, baseline, at>>
  BY DEF Enter
<1>. QED BY <1>1, <1>2, NothingRead DEF IInv, Typing, KeepsEveryStride

LEMMA MenuStepIInv ==
  ASSUME IInv, ViewFile \/ Compare \/ HandleX \/ HandleY \/ OpenRecord \/ OpenPair \/ Back
  PROVE  IInv'
<1>0. viewed \in Paths /\ baseline \in Paths
  BY DEF IInv, Typing
<1>1. CASE ViewFile
  BY <1>1, <1>0, ListedIInv DEF ViewFile
<1>2. CASE Compare \/ HandleX
  BY <1>2, <1>0, ListedIInv DEF Compare, HandleX
<1>3. CASE HandleY
  BY <1>3 DEF HandleY, IInv, Typing, sampling, KeepsEveryStride
<1>4. CASE OpenRecord
  <2>1. PICK n \in DOMAIN lists[viewed].records : Enter(<<Item(viewed, n)>>)
    BY <1>4 DEF OpenRecord
  <2>2. Item(viewed, n).path \in Paths
    BY <1>0 DEF Item
  <2>. QED BY <2>1, <2>2, EnterIInv
<1>5. CASE OpenPair
  <2>1. PICK b \in DOMAIN lists[baseline].records, c \in DOMAIN lists[viewed].records :
            Enter(<<Item(baseline, b), Item(viewed, c)>>)
    BY <1>5 DEF OpenPair
  <2>2. Item(baseline, b).path \in Paths /\ Item(viewed, c).path \in Paths
    BY <1>0 DEF Item
  <2>. QED BY <2>1, <2>2, EnterIInv
<1>6. CASE Back
  BY <1>6, NothingRead DEF Back, IInv, Typing, KeepsEveryStride
<1>. QED BY <1>1, <1>2, <1>3, <1>4, <1>5, <1>6

\* The typing and the strides are kept by every step.
LEMMA IInvOn ==
  ASSUME IInv, [Next]_vars
  PROVE  IInv'
<1>1. CASE UNCHANGED vars
  BY <1>1 DEF vars, menu, sampling, IInv, Typing, KeepsEveryStride
<1>2. CASE Next
  BY <1>2, ListStepIInv, SampleStepIInv, SampleValueIInv, MenuStepIInv DEF Next
<1>. QED BY <1>1, <1>2

(***************************************************************************)
(* KeepsEveryStride for every budget, every number of files and every way  *)
(* they may have been cut: what a graph shows is every stride-th sample,   *)
(* as many as fit, and it says so.                                         *)
(***************************************************************************)
THEOREM SamplesKeepEveryStride == Spec => []KeepsEveryStride
<1>1. IInv /\ [Next]_vars => IInv'
  BY IInvOn
<1>2. IInv => KeepsEveryStride
  BY DEF IInv
<1>. QED BY InitIInv, <1>1, <1>2, PTL DEF Spec

-----------------------------------------------------------------------------
(* The stages of the menu: what each screen waits for, and what it shows. *)

ListTyped ==
    /\ lists = [p \in Paths |-> lists[p]]
    /\ \A p \in Paths : lists[p] = [records |-> lists[p].records, complete |-> lists[p].complete]

Flags == inRecord \in BOOLEAN /\ selected \in BOOLEAN /\ inSamples \in BOOLEAN

Fresh ==
    /\ at = 1 /\ inRecord = FALSE /\ record = NoRecord /\ last = "none"
    /\ selected = FALSE /\ inSamples = FALSE

Reading(p) ==
    /\ selected = FALSE /\ inSamples = FALSE
    /\ ReadingAt(files[p], at - 1, inRecord, record, last, lists[p].records)

Recovered(p) == RecoveredFrom(files[p], lists[p])

IsItem(a) == a.path \in Paths /\ Listable(files[a.path], a.record.id)

Loaded(a) == LoadedFrom(files[a.path], a.record.id, raw[a.path])

Finding(a) ==
    /\ record = NoRecord /\ last = "none"
    /\ \/ LookingAt(files[a.path], a.record.id, at - 1, inRecord, selected, inSamples, raw[a.path])
       \/ at = Len(files[a.path].lines) + 1 /\ Loaded(a)

ShownRight(x, a) == Loaded(a) /\ (~x.stored => IsDistributionOf(x, samples[a.path].values))

AtResults == screen = "results" /\ jobs = <<>> /\ Fresh /\ opened = <<>> /\ stats = <<>>

AtFile == screen = "file" /\ opened = <<>> /\ stats = <<>>
OpeningFile == AtFile /\ jobs = <<RecordScan(viewed)>> /\ Reading(viewed)
FileShown == AtFile /\ jobs = <<>> /\ Fresh /\ Recovered(viewed)

AtComparison == screen = "comparison" /\ opened = <<>> /\ stats = <<>> /\ viewed # baseline
OpeningBaseline ==
    /\ AtComparison /\ jobs = <<RecordScan(baseline), RecordScan(viewed)>>
    /\ Reading(baseline) /\ lists[viewed] = NoList
OpeningViewed == AtComparison /\ jobs = <<RecordScan(viewed)>> /\ Recovered(baseline) /\ Reading(viewed)
ComparisonShown == AtComparison /\ jobs = <<>> /\ Fresh /\ Recovered(baseline) /\ Recovered(viewed)

AtRecord(a) == screen = "record" /\ opened = <<a>> /\ IsItem(a) /\ Recovered(viewed)
LoadingRecord(a) == AtRecord(a) /\ jobs = <<SampleScan(a)>> /\ stats = <<>> /\ Finding(a)
RecordShown(a, x) == AtRecord(a) /\ jobs = <<>> /\ Fresh /\ stats = <<x>> /\ ShownRight(x, a)

AtOverlay(a, b) ==
    /\ screen = "overlay" /\ opened = <<a, b>> /\ IsItem(a) /\ IsItem(b) /\ a.path # b.path
    /\ viewed # baseline /\ Recovered(baseline) /\ Recovered(viewed)
LoadingFirst(a, b) ==
    /\ AtOverlay(a, b) /\ jobs = <<SampleScan(a), SampleScan(b)>> /\ stats = <<>>
    /\ Finding(a) /\ raw[b.path] = <<>>
LoadingSecond(a, b, x) ==
    AtOverlay(a, b) /\ jobs = <<SampleScan(b)>> /\ stats = <<x>> /\ ShownRight(x, a) /\ Finding(b)
OverlayShown(a, b, x, y) ==
    AtOverlay(a, b) /\ jobs = <<>> /\ Fresh /\ stats = <<x, y>> /\ ShownRight(x, a) /\ ShownRight(y, b)

Stage ==
    \/ AtResults
    \/ OpeningFile \/ FileShown
    \/ OpeningBaseline \/ OpeningViewed \/ ComparisonShown
    \/ \E a : LoadingRecord(a)
    \/ \E a, x : RecordShown(a, x)
    \/ \E a, b : LoadingFirst(a, b)
    \/ \E a, b, x : LoadingSecond(a, b, x)
    \/ \E a, b, x, y : OverlayShown(a, b, x, y)

Settled == Flags /\ ListTyped /\ Stage

\* The lists, with another one of file p.
WithList(p, recs, c) == [q \in Paths |-> IF q = p THEN [records |-> recs, complete |-> c] ELSE lists[q]]

LEMMA ListUpdated ==
  ASSUME ListTyped, NEW p \in Paths, NEW v
  PROVE  /\ [lists EXCEPT ![p].records = v] = WithList(p, v, lists[p].complete)
         /\ [lists EXCEPT ![p].complete = v] = WithList(p, lists[p].records, v)
<1> DEFINE x == lists[p].records
           c == lists[p].complete
<1>1. lists = [q \in Paths |-> lists[q]] /\ lists[p] = [records |-> x, complete |-> c]
  BY DEF ListTyped
<1>2. [lists[p] EXCEPT !.records = v] = [records |-> v, complete |-> c]
  <2> HIDE DEF x, c
  <2>1. [[records |-> x, complete |-> c] EXCEPT !.records = v] = [records |-> v, complete |-> c]
    OBVIOUS
  <2>. QED BY <1>1, <2>1
<1>3. [lists[p] EXCEPT !.complete = v] = [records |-> x, complete |-> v]
  <2> HIDE DEF x, c
  <2>1. [[records |-> x, complete |-> c] EXCEPT !.complete = v] = [records |-> x, complete |-> v]
    OBVIOUS
  <2>. QED BY <1>1, <2>1
<1>4. [lists EXCEPT ![p].records = v] = [lists EXCEPT ![p] = [lists[p] EXCEPT !.records = v]]
  OBVIOUS
<1>5. [lists EXCEPT ![p].complete = v] = [lists EXCEPT ![p] = [lists[p] EXCEPT !.complete = v]]
  OBVIOUS
<1>6. ASSUME NEW w
      PROVE  [lists EXCEPT ![p] = w] = [q \in Paths |-> IF q = p THEN w ELSE lists[q]]
  BY <1>1
<1>. QED BY <1>2, <1>3, <1>4, <1>5, <1>6 DEF WithList

LEMMA ListsReplaced ==
  ASSUME NEW p \in Paths, NEW recs, NEW c,
         lists' = WithList(p, recs, c), ListTyped
  PROVE  /\ ListTyped' /\ lists'[p] = [records |-> recs, complete |-> c]
         /\ \A q \in Paths : q # p => lists'[q] = lists[q]
<1>1. lists'[p] = [records |-> recs, complete |-> c] /\ lists'[p].records = recs /\ lists'[p].complete = c
  BY DEF WithList
<1>2. \A q \in Paths : q # p => lists'[q] = lists[q]
  BY DEF WithList
<1>3. lists' = [q \in Paths |-> lists'[q]]
  BY DEF WithList
<1>4. ASSUME NEW q \in Paths
      PROVE  lists'[q] = [records |-> lists'[q].records, complete |-> lists'[q].complete]
  <2>1. CASE q = p
    BY <1>1, <2>1
  <2>2. CASE q # p
    BY <1>2, <2>2 DEF ListTyped
  <2>. QED BY <2>1, <2>2
<1>. QED BY <1>1, <1>2, <1>3, <1>4 DEF ListTyped

Same == UNCHANGED <<files, screen, viewed, baseline, opened>>

LEMMA PathOfScan ==
  ASSUME NEW p, Head(jobs) = RecordScan(p)
  PROVE  path = p
<1>1. RecordScan(p).path = p
  BY DEF RecordScan
<1>. QED BY <1>1 DEF path

LEMMA ListStep ==
  ASSUME Typing, Flags, ListTyped, NEW p \in Paths, jobs # <<>>, Head(jobs) = RecordScan(p), Reading(p),
         ListStart \/ ListField \/ ListRecordEnd
  PROVE  /\ Reading(p)' /\ Flags' /\ ListTyped' /\ \A q \in Paths : q # p => lists'[q] = lists[q]
         /\ Same /\ UNCHANGED <<jobs, stats>>
<1> DEFINE f == files[p]
           recs == lists[p].records
<1>1. path = p /\ lines = f.lines /\ line = f.lines[at]
  <2>1. path = p
    BY PathOfScan
  <2>. QED BY <2>1 DEF lines, line
<1>2. at \in Nat \ {0} /\ at <= Len(f.lines) /\ IsFile(f) /\ Len(f.lines) \in Nat
  <2>1. IsFile(f)
    BY FilesAreFiles
  <2>2. Len(f.lines) \in Nat
    BY <2>1, LayoutFacts
  <2>. QED BY <1>1, <2>1, <2>2 DEF ListStart, ListField, ListRecordEnd, Typing
<1>3. /\ at' = at + 1 /\ UNCHANGED <<files, menu, jobs, stats, selected, inSamples>>
      /\ last' = line.kind
  BY DEF ListStart, ListField, ListRecordEnd, Next1, sampling
<1>4. /\ inRecord' \in BOOLEAN /\ ListTyped'
      /\ ListReads(line, inRecord, record, recs, inRecord', record', lists'[p].records)
      /\ \A q \in Paths : q # p => lists'[q] = lists[q]
  <2>1. CASE ListStart
    BY <2>1 DEF ListStart, ListReads, ListTyped
  <2>2. CASE ListField
    BY <2>2 DEF ListField, ListReads, ListTyped, Flags
  <2>3. CASE ListRecordEnd
    <3>1. line.kind = "end" /\ inRecord' = FALSE /\ record' = record
      BY <2>3 DEF ListRecordEnd
    <3>2. CASE inRecord
      <4> DEFINE v == Append(recs, Finished(record))
                 c == lists[p].complete
      <4>1. lists' = [lists EXCEPT ![p].records = Append(@, Finished(record))]
        BY <1>1, <2>3, <3>2 DEF ListRecordEnd
      <4>2. lists' = [lists EXCEPT ![p].records = v]
        BY <4>1
      <4> HIDE DEF v, c
      <4>3. lists' = WithList(p, v, c)
        BY <4>2, ListUpdated DEF c
      <4>4. ListTyped' /\ lists'[p].records = v /\ \A q \in Paths : q # p => lists'[q] = lists[q]
        <5>1. ListTyped' /\ lists'[p] = [records |-> v, complete |-> c] /\ \A q \in Paths : q # p => lists'[q] = lists[q]
          BY <4>3, ListsReplaced
        <5>. QED BY <5>1
      <4>. QED BY <3>1, <3>2, <4>4 DEF ListReads, v
    <3>3. CASE ~inRecord
      BY <2>3, <3>1, <3>3 DEF ListRecordEnd, ListReads, ListTyped
    <3>. QED BY <3>2, <3>3
  <2>. QED BY <2>1, <2>2, <2>3
<1>5. Reading(p)'
  <2>1. ReadingAt(f, at - 1, inRecord, record, last, recs) /\ inRecord \in BOOLEAN
    BY DEF Reading, Flags
  <2>2. at - 1 < Len(f.lines) /\ at - 1 + 1 = at /\ at' - 1 = at
    BY <1>2, <1>3
  <2>3. ReadingAt(f, at - 1 + 1, inRecord', record', f.lines[at - 1 + 1].kind, lists'[p].records)
    BY <1>1, <1>2, <1>4, <2>1, <2>2, ReadsOn
  <2>4. ReadingAt(f, at' - 1, inRecord', record', last', lists'[p].records)
    BY <1>1, <1>3, <2>2, <2>3
  <2>. QED BY <1>3, <2>4 DEF Reading
<1>. QED BY <1>3, <1>4, <1>5 DEF Same, menu, Flags, Reading

LEMMA ListEndStep ==
  ASSUME Typing, Flags, ListTyped, NEW p \in Paths, jobs # <<>>, Head(jobs) = RecordScan(p), Reading(p), ListEnd
  PROVE  /\ Recovered(p)' /\ Fresh' /\ Flags' /\ ListTyped' /\ \A q \in Paths : q # p => lists'[q] = lists[q]
         /\ Same /\ jobs' = Tail(jobs) /\ UNCHANGED stats
<1> DEFINE f == files[p]
           recs == lists[p].records
<1>1. path = p /\ lines = f.lines
  <2>1. path = p
    BY PathOfScan
  <2>. QED BY <2>1 DEF lines
<1>2. IsFile(f)
  BY FilesAreFiles
<1>3. at > Len(f.lines) /\ lists' = [lists EXCEPT ![p].complete = (last = "close")]
      /\ Fresh' /\ Same /\ jobs' = Tail(jobs) /\ UNCHANGED stats
  BY <1>1 DEF ListEnd, ScanDone, Fresh, Same, menu
<1>4. ReadingAt(f, at - 1, inRecord, record, last, recs)
  BY DEF Reading
<1>5. at - 1 = Len(f.lines)
  <2>1. at - 1 \in 0 .. Len(f.lines) /\ Len(f.lines) \in Nat /\ at \in Nat
    BY <1>2, <1>4, LayoutFacts DEF ReadingAt, Typing
  <2>. QED BY <1>3, <2>1
<1>6. RecoveredFrom(f, [records |-> recs, complete |-> last = "close"])
  BY <1>2, <1>4, <1>5, ReadThrough
<1> DEFINE c == (last = "close")
<1> HIDE DEF c
<1>7. lists' = [lists EXCEPT ![p].complete = c]
  BY <1>3 DEF c
<1>8. lists' = WithList(p, recs, c)
  BY <1>7, ListUpdated
<1>9. ListTyped' /\ lists'[p] = [records |-> recs, complete |-> c] /\ \A q \in Paths : q # p => lists'[q] = lists[q]
  BY <1>8, ListsReplaced
<1>10. Recovered(p)'
  BY <1>3, <1>6, <1>9 DEF Recovered, c, Same
<1>. QED BY <1>3, <1>9, <1>10 DEF Fresh, Flags

LEMMA ItemOfScan ==
  ASSUME NEW a, Head(jobs) = SampleScan(a)
  PROVE  path = a.path /\ Head(jobs).id = a.record.id
<1>1. SampleScan(a).path = a.path /\ SampleScan(a).id = a.record.id
  BY DEF SampleScan
<1>. QED BY <1>1 DEF path

LEMMA SampleStep ==
  ASSUME Typing, Flags, ListTyped, NEW a, IsItem(a), jobs # <<>>, Head(jobs) = SampleScan(a), Finding(a),
         SampleStart \/ SampleId \/ SampleBracket \/ SampleValue \/ SampleSkip \/ SampleRecordEnd
  PROVE  /\ Finding(a)' /\ Flags' /\ UNCHANGED lists
         /\ \A q \in Paths : q # a.path => raw'[q] = raw[q] /\ samples'[q] = samples[q]
         /\ Same /\ UNCHANGED <<jobs, stats>>
<1> DEFINE p == a.path
           f == files[p]
           id == a.record.id
           nums == raw[p]
           L == Len(f.lines)
           l == f.lines[at]
<1>1. p \in Paths /\ path = p /\ lines = f.lines /\ line = l /\ Head(jobs).id = id /\ Listable(f, id)
  <2>1. path = p /\ Head(jobs).id = id
    BY ItemOfScan
  <2>. QED BY <2>1 DEF lines, line, IsItem
<1>2. at \in Nat \ {0} /\ at <= L /\ IsFile(f) /\ L \in Nat
  <2>1. IsFile(f)
    BY <1>1, FilesAreFiles
  <2>2. L \in Nat
    BY <2>1, LayoutFacts
  <2>3. at <= L
    BY <1>1 DEF SampleStart, SampleId, SampleBracket, SampleValue, SampleSkip, SampleRecordEnd
  <2>. QED BY <2>1, <2>2, <2>3 DEF Typing
<1>3. LookingAt(f, id, at - 1, inRecord, selected, inSamples, nums)
  <2>1. at # L + 1
    BY <1>2
  <2>. QED BY <2>1 DEF Finding
<1>4. /\ raw \in [Paths -> Numbers] /\ samples \in [Paths -> Sample]
      /\ inRecord \in BOOLEAN /\ selected \in BOOLEAN /\ inSamples \in BOOLEAN
  BY DEF Typing, Flags
<1>5. /\ UNCHANGED <<record, last, lists>> /\ Same /\ UNCHANGED <<jobs, stats>>
  BY DEF SampleStart, SampleId, SampleBracket, SampleValue, SampleSkip, SampleRecordEnd, Next1, listing, menu, Same
<1>6. /\ Flags' /\ \A q \in Paths : q # p => raw'[q] = raw[q] /\ samples'[q] = samples[q]
      /\ \E stops \in BOOLEAN :
            /\ at' = IF stops THEN L + 1 ELSE at + 1
            /\ SampleReads(l, id, inRecord, selected, inSamples, nums, inRecord', selected', inSamples', raw'[p], stops)
  <2> HIDE DEF f, id, L, l
  <2>1. CASE SampleStart
    <3>1. /\ l.kind = "start" /\ inRecord' = TRUE /\ selected' = FALSE /\ inSamples' = FALSE /\ raw' = raw
          /\ samples' = samples /\ at' = at + 1
      BY <1>1, <2>1 DEF SampleStart, Next1
    <3>2. SampleReads(l, id, inRecord, selected, inSamples, nums, inRecord', selected', inSamples', raw'[p], FALSE)
      BY <3>1 DEF SampleReads
    <3>. QED BY <3>1, <3>2 DEF Flags
  <2>2. CASE SampleId
    <3>1. /\ inRecord /\ l.kind = "id" /\ selected' = (l.value = id) /\ inRecord' = inRecord /\ inSamples' = inSamples
          /\ raw' = raw /\ samples' = samples /\ at' = at + 1
      BY <1>1, <2>2 DEF SampleId, Next1
    <3>2. SampleReads(l, id, inRecord, selected, inSamples, nums, inRecord', selected', inSamples', raw'[p], FALSE)
      BY <3>1 DEF SampleReads
    <3>. QED BY <1>4, <3>1, <3>2 DEF Flags
  <2>3. CASE SampleBracket
    <3>1. /\ inRecord /\ l.kind \in {"samples", "no_samples", "samples_end"}
          /\ inSamples' = (IF selected THEN l.kind = "samples" ELSE inSamples)
          /\ selected' = selected /\ inRecord' = inRecord /\ raw' = raw /\ samples' = samples /\ at' = at + 1
      BY <1>1, <2>3 DEF SampleBracket, Next1
    <3>2. SampleReads(l, id, inRecord, selected, inSamples, nums, inRecord', selected', inSamples', raw'[p], FALSE)
      BY <3>1 DEF SampleReads
    <3>3. inSamples' \in BOOLEAN
      BY <1>4, <3>1
    <3>. QED BY <1>4, <3>1, <3>2, <3>3 DEF Flags
  <2>4. CASE SampleValue
    <3>1. /\ inRecord /\ selected /\ inSamples /\ l.kind = "sample" /\ raw' = [raw EXCEPT ![p] = Append(nums, l.value)]
          /\ samples' = [samples EXCEPT ![p] = Kept(@, Len(raw[p]), l.value)]
          /\ inRecord' = inRecord /\ selected' = selected /\ inSamples' = inSamples /\ at' = at + 1
      BY <1>1, <2>4 DEF SampleValue, Next1
    <3>2. raw'[p] = Append(nums, l.value) /\ \A q \in Paths : q # p => raw'[q] = raw[q] /\ samples'[q] = samples[q]
      BY <1>1, <1>4, <3>1
    <3>3. SampleReads(l, id, inRecord, selected, inSamples, nums, inRecord', selected', inSamples', raw'[p], FALSE)
      BY <3>1, <3>2 DEF SampleReads
    <3>. QED BY <1>4, <3>1, <3>2, <3>3 DEF Flags
  <2>5. CASE SampleSkip
    <3>1. /\ l.kind # "start"
          /\ \/ ~inRecord
             \/ l.kind = "sample" /\ ~(selected /\ inSamples)
             \/ l.kind \notin {"id", "samples", "no_samples", "samples_end", "sample", "end"}
          /\ inRecord' = inRecord /\ selected' = selected /\ inSamples' = inSamples
          /\ raw' = raw /\ samples' = samples /\ at' = at + 1
      BY <1>1, <2>5 DEF SampleSkip, Next1, sampling
    <3>2. SampleReads(l, id, inRecord, selected, inSamples, nums, inRecord', selected', inSamples', raw'[p], FALSE)
      BY <3>1 DEF SampleReads
    <3>. QED BY <1>4, <3>1, <3>2 DEF Flags
  <2>6. CASE SampleRecordEnd
    <3>1. /\ inRecord /\ l.kind = "end" /\ inRecord' = FALSE /\ selected' = selected /\ inSamples' = inSamples
          /\ raw' = raw /\ samples' = samples /\ at' = IF selected THEN L + 1 ELSE at + 1
      BY <1>1, <2>6 DEF SampleRecordEnd, sampling, L
    <3>2. SampleReads(l, id, inRecord, selected, inSamples, nums, inRecord', selected', inSamples', raw'[p], selected)
      BY <3>1 DEF SampleReads
    <3>. QED BY <1>4, <3>1, <3>2 DEF Flags
  <2>. QED BY <2>1, <2>2, <2>3, <2>4, <2>5, <2>6
<1>7. PICK stops \in BOOLEAN :
            /\ at' = IF stops THEN L + 1 ELSE at + 1
            /\ SampleReads(l, id, inRecord, selected, inSamples, nums, inRecord', selected', inSamples', raw'[p], stops)
  BY <1>6
<1>8. /\ ~stops => LookingAt(f, id, at, inRecord', selected', inSamples', raw'[p])
      /\ stops => LoadedFrom(f, id, raw'[p])
  <2>1. at - 1 + 1 = at
    BY <1>2
  <2>2. /\ inRecord \in BOOLEAN /\ selected \in BOOLEAN /\ inSamples \in BOOLEAN
        /\ inRecord' \in BOOLEAN /\ selected' \in BOOLEAN /\ inSamples' \in BOOLEAN
    BY <1>4, <1>6 DEF Flags
  <2>3. SampleReads(f.lines[at - 1 + 1], id, inRecord, selected, inSamples, nums, inRecord', selected', inSamples', raw'[p], stops)
    BY <1>7, <2>1
  <2> DEFINE m == at - 1
             nums2 == raw'[p]
  <2>4. IsFile(f) /\ Listable(f, id) /\ LookingAt(f, id, m, inRecord, selected, inSamples, nums) /\ m + 1 = at
    BY <1>1, <1>2, <1>3, <2>1
  <2>5. SampleReads(f.lines[m + 1], id, inRecord, selected, inSamples, nums, inRecord', selected', inSamples', nums2, stops)
    BY <2>3
  <2> HIDE DEF f, id, L, l, nums, m, nums2
  <2>6. LookedAt(f, id, m + 1, inRecord', selected', inSamples', nums2, stops)
    BY <2>2, <2>4, <2>5, SamplesOn
  <2>. QED BY <2>4, <2>6 DEF LookedAt, nums2
<1>9. Finding(a)'
  <2>1. record' = NoRecord /\ last' = "none" /\ files' = files
    BY <1>5 DEF Finding, Same
  <2>2. CASE stops
    BY <1>7, <1>8, <2>1, <2>2 DEF Finding, Loaded
  <2>3. CASE ~stops
    <3>1. at' - 1 = at
      BY <1>2, <1>7, <2>3
    <3>. QED BY <1>8, <2>1, <2>3, <3>1 DEF Finding
  <2>. QED BY <2>2, <2>3
<1>. QED BY <1>5, <1>6, <1>9

LEMMA SampleEndStep ==
  ASSUME Typing, Flags, NEW a, IsItem(a), jobs # <<>>, Head(jobs) = SampleScan(a), Finding(a),
         opened[Len(stats) + 1] = a, SampleEnd
  PROVE  /\ Fresh' /\ Flags' /\ UNCHANGED <<lists, raw, samples>> /\ Same /\ jobs' = Tail(jobs)
         /\ \E x : stats' = Append(stats, x) /\ ShownRight(x, a)'
<1> DEFINE p == a.path
           f == files[p]
           id == a.record.id
           values == samples[p].values
           x == IF ~a.record.dist /\ values # <<>> THEN Statistics(values) ELSE Stored
<1>1. p \in Paths /\ path = p /\ lines = f.lines /\ Listable(f, id)
  <2>1. path = p
    BY ItemOfScan
  <2>. QED BY <2>1 DEF lines, IsItem
<1>2. at > Len(f.lines) /\ IsFile(f) /\ Len(f.lines) \in Nat /\ at \in Nat
  <2>1. IsFile(f)
    BY <1>1, FilesAreFiles
  <2>2. Len(f.lines) \in Nat
    BY <2>1, LayoutFacts
  <2>. QED BY <1>1, <2>1, <2>2 DEF SampleEnd, Typing
<1>3. Loaded(a)
  <2>1. CASE LookingAt(f, id, at - 1, inRecord, selected, inSamples, raw[p])
    <3>1. at - 1 < Len(f.lines)
      BY <1>1, <1>2, <2>1, StillAhead
    <3>. QED BY <1>2, <3>1
  <2>. QED BY <2>1 DEF Finding
<1>4. stats' = Append(stats, x)
  BY <1>1 DEF SampleEnd
<1>5. Fresh' /\ Flags' /\ UNCHANGED <<lists, raw, samples>> /\ Same /\ jobs' = Tail(jobs)
  BY DEF SampleEnd, ScanDone, Fresh, Flags, Same, menu
<1>6. ~x.stored => IsDistributionOf(x, values)
  <2>1. CASE ~a.record.dist /\ values # <<>>
    <3>1. values \in Seq(Values) /\ Values \subseteq Nat
      BY <1>1, ViewerAssumption DEF Typing, Sample
    <3> HIDE DEF values, p
    <3>2. values \in Seq(Nat)
      <4>1. \A i \in 1 .. Len(values) : values[i] \in Values
        BY <3>1
      <4>2. \A i \in 1 .. Len(values) : values[i] \in Nat
        BY <3>1, <4>1
      <4>. QED BY <3>1, <4>2
    <3>3. Len(values) >= 1
      BY <2>1, <3>2
    <3>4. IsDistributionOf(Statistics(values), values)
      BY <3>2, <3>3, StatisticsFacts
    <3>. QED BY <2>1, <3>4
  <2>2. CASE ~(~a.record.dist /\ values # <<>>)
    <3>1. Stored.stored
      BY DEF Stored
    <3>. QED BY <2>2, <3>1
  <2>. QED BY <2>1, <2>2
<1>7. PICK y : y = x
  OBVIOUS
<1>8. stats' = Append(stats, y)
  BY <1>4, <1>7
<1>9. ~y.stored => IsDistributionOf(y, values)
  BY <1>6, <1>7
<1>10. /\ LoadedFrom(f, id, raw[p]) /\ files' = files /\ raw' = raw /\ samples' = samples
  BY <1>3, <1>5 DEF Loaded, Same
<1>11. ShownRight(y, a)'
  BY <1>9, <1>10 DEF ShownRight, Loaded
<1>. QED BY <1>5, <1>8, <1>11

\* A reader that is about to read the first line of a file.
LEMMA BeforeReading ==
  ASSUME Typing, NEW p \in Paths, files' = files, Fresh', lists'[p] = NoList
  PROVE  Reading(p)'
<1>1. IsFile(files[p])
  BY FilesAreFiles
<1>2. ReadingAt(files[p], 0, FALSE, NoRecord, "none", <<>>)
  BY <1>1, NothingReadYet
<1>3. /\ files'[p] = files[p] /\ at' - 1 = 0 /\ ~inRecord' /\ record' = NoRecord /\ last' = "none"
      /\ ~selected' /\ ~inSamples' /\ lists'[p].records = <<>>
  BY DEF Fresh, NoList
<1>4. ReadingAt(files[p], 0, inRecord', NoRecord, "none", <<>>)
  BY <1>2, <1>3 DEF ReadingAt
<1>. QED BY <1>3, <1>4 DEF Reading, Fresh

LEMMA BeforeFinding ==
  ASSUME Typing, NEW a, IsItem(a), files' = files, Fresh', raw'[a.path] = <<>>
  PROVE  Finding(a)'
<1> DEFINE f == files[a.path]
           id == a.record.id
<1>1. IsFile(f)
  BY FilesAreFiles DEF IsItem
<1>2. LookingAt(f, id, 0, FALSE, FALSE, FALSE, <<>>)
  BY <1>1, NothingReadYet
<1>3. /\ files'[a.path] = f /\ at' - 1 = 0 /\ ~inRecord' /\ record' = NoRecord /\ last' = "none"
      /\ ~selected' /\ ~inSamples'
  BY DEF Fresh
<1> HIDE DEF f, id
<1>4. LookingAt(f, id, 0, inRecord', selected', inSamples', <<>>)
  BY <1>2, <1>3 DEF LookingAt
<1>. QED BY <1>3, <1>4 DEF Finding, id

LEMMA ScanFacts ==
  ASSUME NEW p, NEW a
  PROVE  RecordScan(p).reader = "records" /\ SampleScan(a).reader = "samples"
  BY DEF RecordScan, SampleScan

LEMMA OneJob ==
  ASSUME NEW j, jobs = <<j>>
  PROVE  jobs # <<>> /\ Head(jobs) = j /\ Tail(jobs) = <<>>
  OBVIOUS

LEMMA TwoJobs ==
  ASSUME NEW j, NEW k, jobs = <<j, k>>
  PROVE  jobs # <<>> /\ Head(jobs) = j /\ Tail(jobs) = <<k>>
  OBVIOUS

\* Which stage it is, by the job that is next.
LEMMA StageOfJob ==
  ASSUME Stage
  PROVE  /\ Listing => OpeningFile \/ OpeningBaseline \/ OpeningViewed
         /\ Sampling => \/ \E a : LoadingRecord(a)
                        \/ \E a, b : LoadingFirst(a, b)
                        \/ \E a, b, x : LoadingSecond(a, b, x)
         /\ Idle => \/ AtResults \/ FileShown \/ ComparisonShown
                    \/ \E a, x : RecordShown(a, x)
                    \/ \E a, b, x, y : OverlayShown(a, b, x, y)
<1>1. CASE AtResults \/ FileShown \/ ComparisonShown
  BY <1>1 DEF AtResults, FileShown, ComparisonShown, Listing, Sampling
<1>2. CASE OpeningFile
  <2>1. jobs # <<>> /\ Head(jobs) = RecordScan(viewed)
    BY <1>2, OneJob DEF OpeningFile
  <2>. QED BY <1>2, <2>1, ScanFacts DEF Sampling, Idle
<1>3. CASE OpeningBaseline
  <2>1. jobs # <<>> /\ Head(jobs) = RecordScan(baseline)
    BY <1>3, TwoJobs DEF OpeningBaseline
  <2>. QED BY <1>3, <2>1, ScanFacts DEF Sampling, Idle
<1>4. CASE OpeningViewed
  <2>1. jobs # <<>> /\ Head(jobs) = RecordScan(viewed)
    BY <1>4, OneJob DEF OpeningViewed
  <2>. QED BY <1>4, <2>1, ScanFacts DEF Sampling, Idle
<1>5. CASE \E a : LoadingRecord(a)
  <2>1. PICK a : LoadingRecord(a)
    BY <1>5
  <2>2. jobs # <<>> /\ Head(jobs) = SampleScan(a)
    BY <2>1, OneJob DEF LoadingRecord
  <2>. QED BY <1>5, <2>2, ScanFacts DEF Listing, Idle
<1>6. CASE \E a, x : RecordShown(a, x)
  BY <1>6 DEF RecordShown, Listing, Sampling
<1>7. CASE \E a, b : LoadingFirst(a, b)
  <2>1. PICK a, b : LoadingFirst(a, b)
    BY <1>7
  <2>2. jobs # <<>> /\ Head(jobs) = SampleScan(a)
    BY <2>1, TwoJobs DEF LoadingFirst
  <2>. QED BY <1>7, <2>2, ScanFacts DEF Listing, Idle
<1>8. CASE \E a, b, x : LoadingSecond(a, b, x)
  <2>1. PICK a, b, x : LoadingSecond(a, b, x)
    BY <1>8
  <2>2. jobs # <<>> /\ Head(jobs) = SampleScan(b)
    BY <2>1, OneJob DEF LoadingSecond
  <2>. QED BY <1>8, <2>2, ScanFacts DEF Listing, Idle
<1>9. CASE \E a, b, x, y : OverlayShown(a, b, x, y)
  BY <1>9 DEF OverlayShown, Listing, Sampling
<1>. QED BY <1>1, <1>2, <1>3, <1>4, <1>5, <1>6, <1>7, <1>8, <1>9 DEF Stage

LEMMA ListingSettled ==
  ASSUME Typing, Settled, ListStart \/ ListField \/ ListRecordEnd
  PROVE  Settled'
<1>1. Flags /\ ListTyped /\ Stage /\ Listing /\ viewed \in Paths /\ baseline \in Paths
  BY DEF Settled, ListStart, ListField, ListRecordEnd, Typing
<1>2. CASE OpeningFile
  <2>1. jobs # <<>> /\ Head(jobs) = RecordScan(viewed) /\ Reading(viewed)
    BY <1>2, OneJob DEF OpeningFile
  <2>2. /\ Reading(viewed)' /\ Flags' /\ ListTyped' /\ Same /\ UNCHANGED <<jobs, stats>>
    <3> DEFINE p == viewed
    <3>1. viewed' = viewed
      BY DEF ListStart, ListField, ListRecordEnd, Next1, menu
    <3>. QED BY <1>1, <2>1, <3>1, ListStep
  <2>3. OpeningFile'
    BY <1>2, <2>2 DEF OpeningFile, AtFile, Same
  <2>. QED BY <2>2, <2>3 DEF Settled, Stage
<1>3. CASE OpeningBaseline
  <2>1. jobs # <<>> /\ Head(jobs) = RecordScan(baseline) /\ Reading(baseline) /\ viewed # baseline
    BY <1>3, TwoJobs DEF OpeningBaseline, AtComparison
  <2>2. /\ Reading(baseline)' /\ Flags' /\ ListTyped' /\ Same /\ UNCHANGED <<jobs, stats>>
        /\ \A q \in Paths : q # baseline => lists'[q] = lists[q]
    <3>1. baseline' = baseline
      BY DEF ListStart, ListField, ListRecordEnd, Next1, menu
    <3>. QED BY <1>1, <2>1, <3>1, ListStep
  <2>3. lists'[viewed] = lists[viewed]
    BY <1>1, <2>1, <2>2
  <2>4. OpeningBaseline'
    BY <1>3, <2>2, <2>3 DEF OpeningBaseline, AtComparison, Same
  <2>. QED BY <2>2, <2>4 DEF Settled, Stage
<1>4. CASE OpeningViewed
  <2>1. jobs # <<>> /\ Head(jobs) = RecordScan(viewed) /\ Reading(viewed) /\ viewed # baseline
    BY <1>4, OneJob DEF OpeningViewed, AtComparison
  <2>2. /\ Reading(viewed)' /\ Flags' /\ ListTyped' /\ Same /\ UNCHANGED <<jobs, stats>>
        /\ \A q \in Paths : q # viewed => lists'[q] = lists[q]
    <3>1. viewed' = viewed
      BY DEF ListStart, ListField, ListRecordEnd, Next1, menu
    <3>. QED BY <1>1, <2>1, <3>1, ListStep
  <2>3. lists'[baseline] = lists[baseline]
    BY <1>1, <2>1, <2>2
  <2>4. Recovered(baseline)'
    BY <1>4, <2>2, <2>3 DEF OpeningViewed, Recovered, Same
  <2>5. OpeningViewed'
    BY <1>4, <2>2, <2>4 DEF OpeningViewed, AtComparison, Same
  <2>. QED BY <2>2, <2>5 DEF Settled, Stage
<1>. QED BY <1>1, <1>2, <1>3, <1>4, StageOfJob

LEMMA ListedSettled ==
  ASSUME Typing, Settled, ListEnd
  PROVE  Settled'
<1>1. /\ Flags /\ ListTyped /\ Stage /\ Listing /\ viewed \in Paths /\ baseline \in Paths
      /\ viewed' = viewed /\ baseline' = baseline
  BY DEF Settled, ListEnd, ScanDone, menu, Typing
<1>2. CASE OpeningFile
  <2>1. jobs # <<>> /\ Head(jobs) = RecordScan(viewed) /\ Reading(viewed) /\ Tail(jobs) = <<>>
    BY <1>2, OneJob DEF OpeningFile
  <2>2. /\ Recovered(viewed)' /\ Fresh' /\ Flags' /\ ListTyped' /\ Same /\ jobs' = Tail(jobs) /\ UNCHANGED stats
    BY <1>1, <2>1, ListEndStep
  <2>3. FileShown'
    BY <1>2, <2>1, <2>2 DEF OpeningFile, FileShown, AtFile, Same
  <2>. QED BY <2>2, <2>3 DEF Settled, Stage
<1>3. CASE OpeningBaseline
  <2>1. /\ jobs # <<>> /\ Head(jobs) = RecordScan(baseline) /\ Tail(jobs) = <<RecordScan(viewed)>>
        /\ Reading(baseline) /\ viewed # baseline
    BY <1>3, TwoJobs DEF OpeningBaseline, AtComparison
  <2>2. /\ Recovered(baseline)' /\ Fresh' /\ Flags' /\ ListTyped' /\ Same /\ jobs' = Tail(jobs) /\ UNCHANGED stats
        /\ \A q \in Paths : q # baseline => lists'[q] = lists[q]
    BY <1>1, <2>1, ListEndStep
  <2>3. lists'[viewed] = NoList
    BY <1>1, <1>3, <2>1, <2>2 DEF OpeningBaseline
  <2>4. Reading(viewed)'
    BY <1>1, <2>2, <2>3, BeforeReading DEF Same
  <2>5. OpeningViewed'
    BY <1>3, <2>1, <2>2, <2>4 DEF OpeningBaseline, OpeningViewed, AtComparison, Same
  <2>. QED BY <2>2, <2>5 DEF Settled, Stage
<1>4. CASE OpeningViewed
  <2>1. /\ jobs # <<>> /\ Head(jobs) = RecordScan(viewed) /\ Tail(jobs) = <<>>
        /\ Reading(viewed) /\ viewed # baseline
    BY <1>4, OneJob DEF OpeningViewed, AtComparison
  <2>2. /\ Recovered(viewed)' /\ Fresh' /\ Flags' /\ ListTyped' /\ Same /\ jobs' = Tail(jobs) /\ UNCHANGED stats
        /\ \A q \in Paths : q # viewed => lists'[q] = lists[q]
    BY <1>1, <2>1, ListEndStep
  <2>3. lists'[baseline] = lists[baseline]
    BY <1>1, <2>1, <2>2
  <2>4. Recovered(baseline)'
    BY <1>4, <2>2, <2>3 DEF OpeningViewed, Recovered, Same
  <2>5. ComparisonShown'
    BY <1>4, <2>1, <2>2, <2>4 DEF OpeningViewed, ComparisonShown, AtComparison, Same
  <2>. QED BY <2>2, <2>5 DEF Settled, Stage
<1>. QED BY <1>1, <1>2, <1>3, <1>4, StageOfJob

LEMMA SecondAppended ==
  ASSUME NEW x, NEW y
  PROVE  Append(<<x>>, y) = <<x, y>>
<1>1. <<x>> \in Seq({x, y}) /\ <<x, y>> \in Seq({x, y}) /\ y \in {x, y} /\ Len(<<x>>) = 1 /\ Len(<<x, y>>) = 2
  OBVIOUS
<1>2. Append(<<x>>, y) \in Seq({x, y}) /\ Len(Append(<<x>>, y)) = 2
  BY <1>1
<1>3. \A i \in 1 .. 2 : Append(<<x>>, y)[i] = <<x, y>>[i]
  BY <1>1
<1> DEFINE s == Append(<<x>>, y)
           t == <<x, y>>
           S == {x, y}
<1>4. s \in Seq(S) /\ t \in Seq(S) /\ Len(s) = Len(t) /\ \A i \in 1 .. Len(s) : s[i] = t[i]
  BY <1>1, <1>2, <1>3
<1> HIDE DEF s, t, S
<1>5. s = t
  BY <1>4, SeqEqual
<1>. QED BY <1>5 DEF s, t

LEMMA ItemStays ==
  ASSUME NEW a, IsItem(a), files' = files
  PROVE  IsItem(a)'
  BY DEF IsItem

LEMMA RecoveredStays ==
  ASSUME NEW p, Recovered(p), UNCHANGED <<files, lists>>
  PROVE  Recovered(p)'
  BY DEF Recovered

LEMMA ShownStays ==
  ASSUME NEW x, NEW a, ShownRight(x, a), files' = files,
         raw'[a.path] = raw[a.path], samples'[a.path] = samples[a.path]
  PROVE  ShownRight(x, a)'
  BY DEF ShownRight, Loaded

LEMMA SamplingSettled ==
  ASSUME Typing, Settled,
         SampleStart \/ SampleId \/ SampleBracket \/ SampleValue \/ SampleSkip \/ SampleRecordEnd
  PROVE  Settled'
<1>1. Flags /\ ListTyped /\ Stage /\ Sampling /\ UNCHANGED lists
  BY DEF Settled, SampleStart, SampleId, SampleBracket, SampleValue, SampleSkip, SampleRecordEnd, listing
<1>2. ListTyped'
  BY <1>1 DEF ListTyped
<1>3. CASE \E a : LoadingRecord(a)
  <2>1. PICK a : LoadingRecord(a)
    BY <1>3
  <2>2. jobs # <<>> /\ Head(jobs) = SampleScan(a) /\ Finding(a) /\ IsItem(a) /\ Recovered(viewed)
    BY <2>1, OneJob DEF LoadingRecord, AtRecord
  <2>3. Finding(a)' /\ Flags' /\ Same /\ UNCHANGED <<jobs, stats>>
    BY <1>1, <2>2, SampleStep
  <2>4. IsItem(a)' /\ Recovered(viewed)'
    BY <1>1, <2>2, <2>3, ItemStays DEF Same, Recovered
  <2>5. LoadingRecord(a)'
    BY <2>1, <2>3, <2>4 DEF LoadingRecord, AtRecord, Same
  <2>. QED BY <1>2, <2>3, <2>5 DEF Settled, Stage
<1>4. CASE \E a, b : LoadingFirst(a, b)
  <2>1. PICK a, b : LoadingFirst(a, b)
    BY <1>4
  <2>2. /\ jobs # <<>> /\ Head(jobs) = SampleScan(a) /\ Finding(a) /\ IsItem(a) /\ IsItem(b)
        /\ a.path # b.path /\ raw[b.path] = <<>>
    BY <2>1, TwoJobs DEF LoadingFirst, AtOverlay
  <2>3. /\ Finding(a)' /\ Flags' /\ Same /\ UNCHANGED <<jobs, stats>>
        /\ \A q \in Paths : q # a.path => raw'[q] = raw[q] /\ samples'[q] = samples[q]
    BY <1>1, <2>2, SampleStep
  <2>4. raw'[b.path] = <<>>
    BY <2>2, <2>3 DEF IsItem
  <2>5. AtOverlay(a, b)'
    BY <1>1, <2>1, <2>3 DEF LoadingFirst, AtOverlay, Same, IsItem, Recovered
  <2>6. LoadingFirst(a, b)'
    BY <2>1, <2>3, <2>4, <2>5 DEF LoadingFirst
  <2>. QED BY <1>2, <2>3, <2>6 DEF Settled, Stage
<1>5. CASE \E a, b, x : LoadingSecond(a, b, x)
  <2>1. PICK a, b, x : LoadingSecond(a, b, x)
    BY <1>5
  <2>2. /\ jobs # <<>> /\ Head(jobs) = SampleScan(b) /\ Finding(b) /\ IsItem(a) /\ IsItem(b)
        /\ a.path # b.path /\ ShownRight(x, a)
    BY <2>1, OneJob DEF LoadingSecond, AtOverlay
  <2>3. /\ Finding(b)' /\ Flags' /\ Same /\ UNCHANGED <<jobs, stats>>
        /\ \A q \in Paths : q # b.path => raw'[q] = raw[q] /\ samples'[q] = samples[q]
    BY <1>1, <2>2, SampleStep
  <2>4. ShownRight(x, a)'
    BY <2>2, <2>3, ShownStays DEF IsItem, Same
  <2>5. AtOverlay(a, b)'
    BY <1>1, <2>1, <2>3 DEF LoadingSecond, AtOverlay, Same, IsItem, Recovered
  <2>6. LoadingSecond(a, b, x)'
    BY <2>1, <2>3, <2>4, <2>5 DEF LoadingSecond
  <2>. QED BY <1>2, <2>3, <2>6 DEF Settled, Stage
<1>. QED BY <1>1, <1>3, <1>4, <1>5, StageOfJob

LEMMA SampledSettled ==
  ASSUME Typing, Settled, SampleEnd
  PROVE  Settled'
<1>1. Flags /\ ListTyped /\ Stage /\ Sampling /\ UNCHANGED lists
  BY DEF Settled, SampleEnd
<1>2. ListTyped'
  BY <1>1 DEF ListTyped
<1>3. CASE \E a : LoadingRecord(a)
  <2>1. PICK a : LoadingRecord(a)
    BY <1>3
  <2>2. /\ jobs # <<>> /\ Head(jobs) = SampleScan(a) /\ Tail(jobs) = <<>> /\ Finding(a) /\ IsItem(a)
        /\ Recovered(viewed) /\ opened = <<a>> /\ stats = <<>>
    BY <2>1, OneJob DEF LoadingRecord, AtRecord
  <2>3. opened[Len(stats) + 1] = a
    BY <2>2
  <2>4. PICK x : /\ Fresh' /\ Flags' /\ Same /\ jobs' = Tail(jobs)
                 /\ stats' = Append(stats, x) /\ ShownRight(x, a)'
    BY <1>1, <2>2, <2>3, SampleEndStep
  <2>5. stats' = <<x>>
    BY <2>2, <2>4
  <2>6. IsItem(a)' /\ Recovered(viewed)'
    BY <1>1, <2>2, <2>4, ItemStays DEF Same, Recovered
  <2>7. RecordShown(a, x)'
    BY <2>1, <2>2, <2>4, <2>5, <2>6 DEF LoadingRecord, RecordShown, AtRecord, Same
  <2>. QED BY <1>2, <2>4, <2>7 DEF Settled, Stage
<1>4. CASE \E a, b : LoadingFirst(a, b)
  <2>1. PICK a, b : LoadingFirst(a, b)
    BY <1>4
  <2>2. /\ jobs # <<>> /\ Head(jobs) = SampleScan(a) /\ Tail(jobs) = <<SampleScan(b)>> /\ Finding(a)
        /\ IsItem(a) /\ IsItem(b) /\ a.path # b.path /\ raw[b.path] = <<>> /\ opened = <<a, b>> /\ stats = <<>>
    BY <2>1, TwoJobs DEF LoadingFirst, AtOverlay
  <2>3. opened[Len(stats) + 1] = a
    BY <2>2
  <2>4. PICK x : /\ Fresh' /\ Flags' /\ UNCHANGED raw /\ Same /\ jobs' = Tail(jobs)
                 /\ stats' = Append(stats, x) /\ ShownRight(x, a)'
    BY <1>1, <2>2, <2>3, SampleEndStep
  <2>5. stats' = <<x>>
    BY <2>2, <2>4
  <2>6. Finding(b)'
    BY <2>2, <2>4, BeforeFinding DEF Same
  <2>7. AtOverlay(a, b)'
    BY <1>1, <2>1, <2>4 DEF LoadingFirst, AtOverlay, Same, IsItem, Recovered
  <2>8. LoadingSecond(a, b, x)'
    BY <2>2, <2>4, <2>5, <2>6, <2>7 DEF LoadingSecond
  <2>. QED BY <1>2, <2>4, <2>8 DEF Settled, Stage
<1>5. CASE \E a, b, x : LoadingSecond(a, b, x)
  <2>1. PICK a, b, x : LoadingSecond(a, b, x)
    BY <1>5
  <2>2. /\ jobs # <<>> /\ Head(jobs) = SampleScan(b) /\ Tail(jobs) = <<>> /\ Finding(b) /\ IsItem(a)
        /\ IsItem(b) /\ ShownRight(x, a) /\ opened = <<a, b>> /\ stats = <<x>>
    BY <2>1, OneJob DEF LoadingSecond, AtOverlay
  <2>3. opened[Len(stats) + 1] = b
    BY <2>2
  <2>4. PICK y : /\ Fresh' /\ Flags' /\ UNCHANGED <<raw, samples>> /\ Same /\ jobs' = Tail(jobs)
                 /\ stats' = Append(stats, y) /\ ShownRight(y, b)'
    BY <1>1, <2>2, <2>3, SampleEndStep
  <2>5. stats' = <<x, y>>
    BY <2>2, <2>4, SecondAppended
  <2>6. ShownRight(x, a)'
    BY <2>2, <2>4, ShownStays DEF Same
  <2>7. AtOverlay(a, b)'
    BY <1>1, <2>1, <2>4 DEF LoadingSecond, AtOverlay, Same, IsItem, Recovered
  <2>8. OverlayShown(a, b, x, y)'
    BY <2>2, <2>4, <2>5, <2>6, <2>7 DEF OverlayShown
  <2>. QED BY <1>2, <2>4, <2>8 DEF Settled, Stage
<1>. QED BY <1>1, <1>3, <1>4, <1>5, StageOfJob

\* Which stage it is, by the screen of an idle menu.
LEMMA StageOfScreen ==
  ASSUME Stage, Idle
  PROVE  /\ screen = "results" => AtResults
         /\ screen = "file" => FileShown
         /\ screen = "comparison" => ComparisonShown
         /\ screen = "record" => \E a, x : RecordShown(a, x)
         /\ screen = "overlay" => \E a, b, x, y : OverlayShown(a, b, x, y)
  BY StageOfJob DEF AtResults, FileShown, AtFile, ComparisonShown, AtComparison,
     RecordShown, AtRecord, OverlayShown, AtOverlay

LEMMA IdleIsFresh ==
  ASSUME Stage, Idle
  PROVE  Fresh
  BY StageOfJob DEF AtResults, FileShown, ComparisonShown, RecordShown, OverlayShown

LEMMA ListedAgain ==
  ASSUME ListTyped, Fresh, NEW paths, Listed(paths)
  PROVE  /\ ListTyped' /\ Fresh' /\ Flags' /\ UNCHANGED <<files, stats>>
         /\ \A q \in Paths : lists'[q] = IF \E i \in DOMAIN paths : paths[i] = q THEN NoList ELSE lists[q]
<1>1. lists' = [q \in Paths |-> IF \E i \in DOMAIN paths : paths[i] = q THEN NoList ELSE lists[q]]
  BY DEF Listed
<1>2. \A q \in Paths : lists'[q] = IF \E i \in DOMAIN paths : paths[i] = q THEN NoList ELSE lists[q]
  BY <1>1
<1>3. lists' = [q \in Paths |-> lists'[q]]
  BY <1>1
<1>4. \A q \in Paths : lists'[q] = [records |-> lists'[q].records, complete |-> lists'[q].complete]
  BY <1>2 DEF ListTyped, NoList
<1>. QED BY <1>2, <1>3, <1>4 DEF ListTyped, Listed, sampling, Fresh, Flags

LEMMA ListedOne ==
  ASSUME Typing, ListTyped, Fresh, NEW p \in Paths, Listed(<<p>>)
  PROVE  /\ ListTyped' /\ Fresh' /\ Flags' /\ UNCHANGED <<files, stats>>
         /\ jobs' = <<RecordScan(p)>> /\ Reading(p)'
<1>1. /\ ListTyped' /\ Fresh' /\ Flags' /\ UNCHANGED <<files, stats>>
      /\ \A q \in Paths : lists'[q] = IF \E i \in DOMAIN <<p>> : <<p>>[i] = q THEN NoList ELSE lists[q]
  BY ListedAgain
<1>2. lists'[p] = NoList
  <2>1. 1 \in DOMAIN <<p>> /\ <<p>>[1] = p
    OBVIOUS
  <2>. QED BY <1>1, <2>1
<1>3. jobs' = <<RecordScan(p)>>
  BY DEF Listed
<1>4. Reading(p)'
  BY <1>1, <1>2, BeforeReading
<1>. QED BY <1>1, <1>3, <1>4

LEMMA ListedTwo ==
  ASSUME Typing, ListTyped, Fresh, NEW p \in Paths, NEW q \in Paths, Listed(<<p, q>>)
  PROVE  /\ ListTyped' /\ Fresh' /\ Flags' /\ UNCHANGED <<files, stats>>
         /\ jobs' = <<RecordScan(p), RecordScan(q)>> /\ Reading(p)' /\ lists'[q] = NoList
<1>1. /\ ListTyped' /\ Fresh' /\ Flags' /\ UNCHANGED <<files, stats>>
      /\ \A s \in Paths : lists'[s] = IF \E i \in DOMAIN <<p, q>> : <<p, q>>[i] = s THEN NoList ELSE lists[s]
  BY ListedAgain
<1>2. lists'[p] = NoList /\ lists'[q] = NoList
  <2>1. 1 \in DOMAIN <<p, q>> /\ <<p, q>>[1] = p /\ 2 \in DOMAIN <<p, q>> /\ <<p, q>>[2] = q
    OBVIOUS
  <2>. QED BY <1>1, <2>1
<1>3. jobs' = <<RecordScan(p), RecordScan(q)>>
  BY DEF Listed
<1>4. Reading(p)'
  BY <1>1, <1>2, BeforeReading
<1>. QED BY <1>1, <1>2, <1>3, <1>4

\* Every record on a list that was read through can be found again.
LEMMA ItemListed ==
  ASSUME Typing, NEW p \in Paths, Recovered(p), NEW n \in DOMAIN lists[p].records
  PROVE  IsItem(Item(p, n)) /\ Item(p, n).path = p
<1> DEFINE f == files[p]
           run == f.run
           done == At(f, Cut(f)).done
           a == Item(p, n)
<1>1. run \in Seq(Measured) /\ done \in 0 .. Len(run)
  <2>1. IsFile(f)
    BY FilesAreFiles
  <2>2. run \in Seq(Measured) /\ Cut(f) \in Nat /\ \A i \in 0 .. Cut(f) : At(f, i) \in Place(run)
    BY <2>1, LayoutFacts
  <2>3. Cut(f) \in 0 .. Cut(f)
    <3> DEFINE c == Cut(f)
    <3>1. c \in Nat
      BY <2>2
    <3> HIDE DEF c
    <3>2. c \in 0 .. c
      BY <3>1
    <3>. QED BY <3>2 DEF c
  <2>4. At(f, Cut(f)) \in Place(run)
    BY <2>2, <2>3
  <2>. QED BY <2>2, <2>4 DEF Place
<1>2. lists[p].records = FirstRecords(run, done)
  BY DEF Recovered, RecoveredFrom
<1> HIDE DEF done
<1>3. n \in 1 .. done /\ lists[p].records[n] = Expected(run[n])
  <2>1. DOMAIN FirstRecords(run, done) = 1 .. done
    BY <1>1, FirstRecordsFacts
  <2>. QED BY <1>2, <2>1 DEF FirstRecords
<1>4. a.path = p /\ a.record = Expected(run[n])
  BY <1>3 DEF Item
<1>5. a.record.id = run[n].id
  BY <1>4 DEF Expected
<1>6. Listable(f, a.record.id)
  BY <1>3, <1>5 DEF Listable, done
<1> HIDE DEF a
<1>7. IsItem(a) /\ a.path = p
  BY <1>4, <1>6 DEF IsItem
<1>. QED BY <1>7 DEF a

LEMMA Entered ==
  ASSUME Stage, Fresh, NEW items, Enter(items)
  PROVE  /\ Fresh' /\ Flags' /\ opened' = items /\ stats' = <<>> /\ \A p \in Paths : raw'[p] = <<>>
         /\ UNCHANGED <<files, lists, viewed, baseline>>
         /\ jobs' = [i \in DOMAIN items |-> SampleScan(items[i])]
  BY DEF Enter, Fresh, Flags, listing, Empty

LEMMA OpenRecordSettled ==
  ASSUME Typing, Settled, OpenRecord
  PROVE  Settled'
<1>1. ListTyped /\ Stage /\ Idle /\ screen = "file" /\ screen' = "record" /\ viewed \in Paths
  BY DEF Settled, OpenRecord, Typing
<1>2. FileShown /\ Fresh
  BY <1>1, StageOfScreen, IdleIsFresh
<1>3. PICK n \in DOMAIN lists[viewed].records : Enter(<<Item(viewed, n)>>)
  BY DEF OpenRecord
<1>4. PICK a : a = Item(viewed, n)
  OBVIOUS
<1>5. IsItem(a) /\ Enter(<<a>>) /\ Recovered(viewed)
  BY <1>1, <1>2, <1>3, <1>4, ItemListed DEF FileShown
<1>6. /\ Fresh' /\ Flags' /\ opened' = <<a>> /\ stats' = <<>> /\ \A p \in Paths : raw'[p] = <<>>
      /\ UNCHANGED <<files, lists, viewed>>
      /\ jobs' = [i \in DOMAIN <<a>> |-> SampleScan(<<a>>[i])]
  BY <1>1, <1>2, <1>5, Entered
<1>7. jobs' = <<SampleScan(a)>>
  BY <1>6
<1>8. Finding(a)' /\ IsItem(a)' /\ Recovered(viewed)'
  BY <1>5, <1>6, BeforeFinding, ItemStays DEF IsItem, Recovered
<1>9. LoadingRecord(a)'
  BY <1>1, <1>6, <1>7, <1>8 DEF LoadingRecord, AtRecord
<1>. QED BY <1>1, <1>6, <1>9 DEF Settled, Stage, ListTyped

LEMMA OpenPairSettled ==
  ASSUME Typing, Settled, OpenPair
  PROVE  Settled'
<1>1. /\ ListTyped /\ Stage /\ Idle /\ screen = "comparison" /\ screen' = "overlay"
      /\ viewed \in Paths /\ baseline \in Paths
  BY DEF Settled, OpenPair, Typing
<1>2. ComparisonShown /\ Fresh
  BY <1>1, StageOfScreen, IdleIsFresh
<1>3. PICK m \in DOMAIN lists[baseline].records, n \in DOMAIN lists[viewed].records :
          Enter(<<Item(baseline, m), Item(viewed, n)>>)
  BY DEF OpenPair
<1>4. PICK a, b : a = Item(baseline, m) /\ b = Item(viewed, n)
  OBVIOUS
<1>5. /\ IsItem(a) /\ IsItem(b) /\ a.path = baseline /\ b.path = viewed /\ viewed # baseline
      /\ Recovered(viewed) /\ Recovered(baseline) /\ Enter(<<a, b>>)
  BY <1>1, <1>2, <1>3, <1>4, ItemListed DEF ComparisonShown, AtComparison
<1>6. /\ Fresh' /\ Flags' /\ opened' = <<a, b>> /\ stats' = <<>> /\ \A p \in Paths : raw'[p] = <<>>
      /\ UNCHANGED <<files, lists, viewed, baseline>>
      /\ jobs' = [i \in DOMAIN <<a, b>> |-> SampleScan(<<a, b>>[i])]
  BY <1>1, <1>2, <1>5, Entered
<1>7. jobs' = <<SampleScan(a), SampleScan(b)>>
  BY <1>6
<1>8. Finding(a)' /\ IsItem(a)' /\ IsItem(b)' /\ Recovered(viewed)' /\ Recovered(baseline)'
  BY <1>5, <1>6, BeforeFinding, ItemStays DEF IsItem, Recovered
<1>9. raw'[b.path] = <<>>
  BY <1>1, <1>5, <1>6
<1>10. LoadingFirst(a, b)'
  BY <1>1, <1>5, <1>6, <1>7, <1>8, <1>9 DEF LoadingFirst, AtOverlay
<1>. QED BY <1>1, <1>6, <1>10 DEF Settled, Stage, ListTyped

LEMMA ListingMenuSettled ==
  ASSUME Typing, Settled, ViewFile \/ Compare \/ HandleX
  PROVE  Settled'
<1>1. ListTyped /\ Stage /\ Idle /\ viewed \in Paths /\ baseline \in Paths
  BY DEF Settled, ViewFile, Compare, HandleX, Typing
<1>2. Fresh
  BY <1>1, IdleIsFresh
<1>3. CASE ViewFile
  <2>1. AtResults
    BY <1>1, <1>3, StageOfScreen DEF ViewFile
  <2>2. PICK p \in Paths : viewed' = p /\ Listed(<<p>>)
    BY <1>3 DEF ViewFile
  <2>3. /\ ListTyped' /\ Fresh' /\ Flags' /\ UNCHANGED <<files, stats>>
        /\ jobs' = <<RecordScan(p)>> /\ Reading(p)'
    BY <1>1, <1>2, <2>2, ListedOne
  <2>4. OpeningFile'
    <3>1. screen' = "file" /\ opened' = opened
      BY <1>3 DEF ViewFile
    <3>2. Reading(viewed)'
      BY <2>2, <2>3 DEF Reading
    <3>. QED BY <2>1, <2>2, <2>3, <3>1, <3>2 DEF AtResults, OpeningFile, AtFile
  <2>. QED BY <2>3, <2>4 DEF Settled, Stage
<1>4. CASE HandleX /\ screen = "file"
  <2>1. FileShown
    BY <1>1, <1>4, StageOfScreen
  <2>2. Listed(<<viewed>>) /\ screen' = screen /\ viewed' = viewed /\ opened' = opened
    BY <1>4 DEF HandleX
  <2>3. /\ ListTyped' /\ Fresh' /\ Flags' /\ UNCHANGED <<files, stats>>
        /\ jobs' = <<RecordScan(viewed)>> /\ Reading(viewed)'
    BY <1>1, <1>2, <2>2, ListedOne
  <2>4. OpeningFile'
    BY <2>1, <2>2, <2>3 DEF FileShown, OpeningFile, AtFile
  <2>. QED BY <2>3, <2>4 DEF Settled, Stage
<1>5. CASE Compare \/ (HandleX /\ screen = "comparison")
  <2>1. opened = <<>> /\ stats = <<>> /\ viewed # baseline
    BY <1>1, <1>5, StageOfScreen DEF Compare, FileShown, AtFile, ComparisonShown, AtComparison
  <2>2. /\ Listed(<<baseline, viewed>>) /\ screen' = "comparison"
        /\ viewed' = viewed /\ baseline' = baseline /\ opened' = opened
    BY <1>5 DEF Compare, HandleX
  <2>3. /\ ListTyped' /\ Fresh' /\ Flags' /\ UNCHANGED <<files, stats>>
        /\ jobs' = <<RecordScan(baseline), RecordScan(viewed)>> /\ Reading(baseline)' /\ lists'[viewed] = NoList
    BY <1>1, <1>2, <2>2, ListedTwo
  <2>4. OpeningBaseline'
    BY <2>1, <2>2, <2>3 DEF OpeningBaseline, AtComparison
  <2>. QED BY <2>3, <2>4 DEF Settled, Stage
<1>. QED BY <1>3, <1>4, <1>5 DEF HandleX

LEMMA LeavingSettled ==
  ASSUME Typing, Settled, HandleY \/ Back
  PROVE  Settled'
<1>1. Flags /\ ListTyped /\ Stage /\ Idle
  BY DEF Settled, HandleY, Back
<1>2. Fresh
  BY <1>1, IdleIsFresh
<1>3. CASE HandleY
  <2>1. AtResults
    BY <1>1, <1>3, StageOfScreen DEF HandleY
  <2>2. AtResults' /\ Flags' /\ ListTyped'
    BY <1>1, <1>3, <2>1 DEF HandleY, AtResults, Fresh, listing, sampling, Flags, ListTyped
  <2>. QED BY <2>2 DEF Settled, Stage
<1>4. CASE Back
  <2>1. /\ UNCHANGED <<files, viewed, baseline, jobs, lists>> /\ opened' = <<>> /\ stats' = <<>>
        /\ Fresh' /\ Flags' /\ ListTyped'
    BY <1>1, <1>2, <1>4 DEF Back, listing, Fresh, Flags, ListTyped
  <2>2. CASE screen = "file"
    <3>1. screen' = "results"
      BY <1>4, <2>2 DEF Back
    <3>2. AtResults'
      BY <1>1, <2>1, <3>1 DEF AtResults, Idle
    <3>. QED BY <2>1, <3>2 DEF Settled, Stage
  <2>3. CASE screen \in {"record", "comparison"}
    <3>1. screen' = "file"
      BY <1>4, <2>3 DEF Back
    <3>2. Recovered(viewed)
      BY <1>1, <2>3, StageOfScreen DEF RecordShown, AtRecord, ComparisonShown
    <3>3. FileShown'
      BY <1>1, <2>1, <3>1, <3>2 DEF FileShown, AtFile, Idle, Recovered
    <3>. QED BY <2>1, <3>3 DEF Settled, Stage
  <2>4. CASE screen = "overlay"
    <3>1. screen' = "comparison"
      BY <1>4, <2>4 DEF Back
    <3>2. Recovered(viewed) /\ Recovered(baseline) /\ viewed # baseline
      BY <1>1, <2>4, StageOfScreen DEF OverlayShown, AtOverlay
    <3>3. ComparisonShown'
      BY <1>1, <2>1, <3>1, <3>2 DEF ComparisonShown, AtComparison, Idle, Recovered
    <3>. QED BY <2>1, <3>3 DEF Settled, Stage
  <2>5. screen \in {"file", "record", "comparison", "overlay"}
    BY <1>1, <1>4, StageOfJob DEF Back, AtResults, FileShown, AtFile, ComparisonShown, AtComparison,
       RecordShown, AtRecord, OverlayShown, AtOverlay
  <2>. QED BY <2>2, <2>3, <2>4, <2>5
<1>. QED BY <1>3, <1>4

LEMMA StutterSettled ==
  ASSUME Settled, UNCHANGED vars
  PROVE  Settled'
<1>1. UNCHANGED <<files, screen, viewed, baseline, opened, jobs, at, inRecord, record, last, lists,
                  selected, inSamples, raw, samples, stats>>
  BY DEF vars, menu, listing, sampling
<1>2. Flags' /\ ListTyped' /\ Fresh' = Fresh /\ AtFile' = AtFile /\ AtComparison' = AtComparison
  BY <1>1 DEF Settled, Flags, ListTyped, Fresh, AtFile, AtComparison
<1>3. /\ Reading(viewed)' = Reading(viewed) /\ Reading(baseline)' = Reading(baseline)
      /\ Recovered(viewed)' = Recovered(viewed) /\ Recovered(baseline)' = Recovered(baseline)
  BY <1>1 DEF Reading, Recovered
<1>4. Stage
  BY DEF Settled
<1>5. CASE AtResults \/ OpeningFile \/ FileShown
  BY <1>1, <1>2, <1>3, <1>5 DEF AtResults, OpeningFile, FileShown, Settled, Stage
<1>6. CASE OpeningBaseline \/ OpeningViewed \/ ComparisonShown
  BY <1>1, <1>2, <1>3, <1>6 DEF OpeningBaseline, OpeningViewed, ComparisonShown, Settled, Stage
<1>7. CASE \E a : LoadingRecord(a)
  <2>1. PICK a : LoadingRecord(a)
    BY <1>7
  <2>2. LoadingRecord(a)'
    BY <1>1, <2>1 DEF LoadingRecord, AtRecord, IsItem, Recovered, Finding, Loaded
  <2>. QED BY <1>2, <2>2 DEF Settled, Stage
<1>8. CASE \E a, x : RecordShown(a, x)
  <2>1. PICK a, x : RecordShown(a, x)
    BY <1>8
  <2>2. RecordShown(a, x)'
    BY <1>1, <1>2, <2>1 DEF RecordShown, AtRecord, IsItem, Recovered, ShownRight, Loaded
  <2>. QED BY <1>2, <2>2 DEF Settled, Stage
<1>9. CASE \E a, b : LoadingFirst(a, b)
  <2>1. PICK a, b : LoadingFirst(a, b)
    BY <1>9
  <2>2. LoadingFirst(a, b)'
    BY <1>1, <2>1 DEF LoadingFirst, AtOverlay, IsItem, Recovered, Finding, Loaded
  <2>. QED BY <1>2, <2>2 DEF Settled, Stage
<1>10. CASE \E a, b, x : LoadingSecond(a, b, x)
  <2>1. PICK a, b, x : LoadingSecond(a, b, x)
    BY <1>10
  <2>2. LoadingSecond(a, b, x)'
    BY <1>1, <2>1 DEF LoadingSecond, AtOverlay, IsItem, Recovered, Finding, ShownRight, Loaded
  <2>. QED BY <1>2, <2>2 DEF Settled, Stage
<1>11. CASE \E a, b, x, y : OverlayShown(a, b, x, y)
  <2>1. PICK a, b, x, y : OverlayShown(a, b, x, y)
    BY <1>11
  <2>2. OverlayShown(a, b, x, y)'
    BY <1>1, <1>2, <2>1 DEF OverlayShown, AtOverlay, IsItem, Recovered, ShownRight, Loaded
  <2>. QED BY <1>2, <2>2 DEF Settled, Stage
<1>. QED BY <1>4, <1>5, <1>6, <1>7, <1>8, <1>9, <1>10, <1>11 DEF Stage

LEMMA InitSettled == Init => Settled
<1> SUFFICES ASSUME Init PROVE Settled
  OBVIOUS
<1>1. lists = [p \in Paths |-> NoList]
  BY DEF Init, Empty
<1>2. ListTyped
  BY <1>1 DEF ListTyped, NoList
<1>3. Flags /\ AtResults
  BY DEF Init, Flags, AtResults, Fresh
<1>. QED BY <1>2, <1>3 DEF Settled, Stage

\* The stages are kept by every step.
LEMMA SettledOn ==
  ASSUME Typing, Settled, [Next]_vars
  PROVE  Settled'
<1>1. CASE ListStart \/ ListField \/ ListRecordEnd \/ ListEnd
  BY <1>1, ListingSettled, ListedSettled
<1>2. CASE SampleStart \/ SampleId \/ SampleBracket \/ SampleValue \/ SampleSkip \/ SampleRecordEnd \/ SampleEnd
  BY <1>2, SamplingSettled, SampledSettled
<1>3. CASE ViewFile \/ Compare \/ HandleX \/ HandleY \/ OpenRecord \/ OpenPair \/ Back
  BY <1>3, ListingMenuSettled, LeavingSettled, OpenRecordSettled, OpenPairSettled
<1>4. CASE UNCHANGED vars
  BY <1>4, StutterSettled
<1>. QED BY <1>1, <1>2, <1>3, <1>4 DEF Next

\* What the stages mean for a screen that waits for nothing.
LEMMA ShownRecords ==
  ASSUME Stage, Idle, screen \in {"record", "overlay"}
  PROVE  \A k \in DOMAIN opened : IsItem(opened[k]) /\ ShownRight(stats[k], opened[k])
<1>1. CASE screen = "record"
  <2>1. PICK a, x : RecordShown(a, x)
    BY <1>1, StageOfScreen
  <2>2. opened = <<a>> /\ stats = <<x>> /\ IsItem(a) /\ ShownRight(x, a)
    BY <2>1 DEF RecordShown, AtRecord
  <2>. QED BY <2>2
<1>2. CASE screen = "overlay"
  <2>1. PICK a, b, x, y : OverlayShown(a, b, x, y)
    BY <1>2, StageOfScreen
  <2>2. /\ opened = <<a, b>> /\ stats = <<x, y>> /\ IsItem(a) /\ IsItem(b)
        /\ ShownRight(x, a) /\ ShownRight(y, b)
    BY <2>1 DEF OverlayShown, AtOverlay
  <2>3. \A k \in DOMAIN opened : k = 1 \/ k = 2
    BY <2>2
  <2>. QED BY <2>2, <2>3
<1>. QED BY <1>1, <1>2

LEMMA StatisticsShown == Settled => ShowsOrderStatistics
  BY ShownRecords DEF Settled, ShowsOrderStatistics, ShownRight

LEMMA FirstShown == Typing /\ Settled => ShowsOneWholeRecord
<1> SUFFICES ASSUME Typing, Settled, Idle, screen \in {"record", "overlay"}, NEW k \in DOMAIN opened
             PROVE  LET run == files[opened[k].path].run
                        first == CHOOSE n \in DOMAIN run :
                            run[n].id = opened[k].record.id /\ \A i \in 1 .. n - 1 : run[i].id # run[n].id
                    IN raw[opened[k].path] = IF run[first].group THEN <<>> ELSE run[first].samples
  BY DEF ShowsOneWholeRecord
<1> DEFINE a == opened[k]
           f == files[a.path]
           id == a.record.id
           nums == raw[a.path]
<1>1. IsItem(a) /\ Loaded(a)
  BY ShownRecords DEF Settled, ShownRight
<1>2. IsFile(f) /\ Listable(f, id) /\ LoadedFrom(f, id, nums)
  BY <1>1, FilesAreFiles DEF IsItem, Loaded
<1> HIDE DEF f, id, nums
<1>3. LET run == f.run
          first == CHOOSE n \in DOMAIN run : run[n].id = id /\ \A i \in 1 .. n - 1 : run[i].id # run[n].id
      IN nums = IF run[first].group THEN <<>> ELSE run[first].samples
  BY <1>2, LoadedIsFirst
<1>. QED BY <1>3 DEF f, id, nums

LEMMA WholeRecovered == Typing /\ Settled => RecoversWholeRecords
<1> SUFFICES ASSUME Typing, Settled, Idle, screen # "results"
             PROVE  LET f == files[viewed]
                        whole == Cardinality({i \in DOMAIN f.lines : f.lines[i].kind = "end"})
                    IN /\ lists[viewed].records = [i \in 1 .. whole |-> Expected(f.run[i])]
                       /\ lists[viewed].complete <=> f.lines = RunLines(f.run)
  BY DEF RecoversWholeRecords
<1>1. Recovered(viewed)
  BY StageOfJob DEF Settled, AtResults, FileShown, ComparisonShown, RecordShown, AtRecord, OverlayShown, AtOverlay
<1> DEFINE f == files[viewed]
<1>2. Cardinality({i \in DOMAIN f.lines : f.lines[i].kind = "end"}) = At(f, Cut(f)).done
  BY FilesAreFiles, EndsCounted DEF Typing
<1>. QED BY <1>1, <1>2 DEF Recovered, RecoveredFrom, FirstRecords

\* What every reachable state of the menu is: typed, and at one of the stages.
LEMMA AlwaysSettled == Spec => [](IInv /\ Settled)
<1>1. Init => IInv /\ Settled
  BY InitIInv, InitSettled
<1>2. IInv /\ Settled /\ [Next]_vars => (IInv /\ Settled)'
  BY IInvOn, SettledOn DEF IInv
<1>. QED BY <1>1, <1>2, PTL DEF Spec

(***************************************************************************)
(* RecoversWholeRecords for every run and every way its file may have been *)
(* cut or torn: ReadStoredResults lists the records that were written      *)
(* whole, each with its own fields and outcome, in their order, and none   *)
(* else, and calls the file complete only if the run ended.                *)
(***************************************************************************)
THEOREM ListsWholeRecords == Spec => []RecoversWholeRecords
<1>1. IInv /\ Settled => RecoversWholeRecords
  BY WholeRecovered DEF IInv
<1>. QED BY <1>1, AlwaysSettled, PTL

(***************************************************************************)
(* ShowsOneWholeRecord for every run and every cut: the samples that       *)
(* ReadStoredResultSamples loads for a record on the list are all those of *)
(* the first record of the file with its id, and no other number.          *)
(***************************************************************************)
THEOREM LoadsOneWholeRecord == Spec => []ShowsOneWholeRecord
<1>1. IInv /\ Settled => ShowsOneWholeRecord
  BY FirstShown DEF IInv
<1>. QED BY <1>1, AlwaysSettled, PTL

(***************************************************************************)
(* ShowsOrderStatistics for every sequence of values: the median, the p95  *)
(* and the MAD that CalculateResultStatistics fills in are the order       *)
(* statistics of the values shown, at every sample count.                  *)
(***************************************************************************)
THEOREM FillsInOrderStatistics == Spec => []ShowsOrderStatistics
<1>1. IInv /\ Settled => ShowsOrderStatistics
  BY StatisticsShown
<1>. QED BY <1>1, AlwaysSettled, PTL
=============================================================================
