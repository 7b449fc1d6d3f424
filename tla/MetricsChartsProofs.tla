------------------------ MODULE MetricsChartsProofs ------------------------
(* What the charts make of an answer: theorems for every answer the server  *)
(* can send, with any number of processors, filesystems, devices and        *)
(* containers.                                                              *)
EXTENDS MetricsCharts, WellFoundedInduction, TLAPS

-----------------------------------------------------------------------------
(* Sums.  What holds of every partial sum is shown of the shortest one that *)
(* would be an exception.                                                   *)

LEMMA LeastNumber ==
    ASSUME NEW T \in SUBSET Nat, T # {}
    PROVE  \E n \in T : \A k \in T : n <= k
  <1>1. PICK n \in T : \A k \in T : ~(<<k, n>> \in OpToRel(<, Nat))
    BY NatLessThanWellFounded, WFMin
  <1>2. \A k \in T : ~(k < n)
    BY <1>1 DEF OpToRel
  <1> QED
    BY <1>2

LEMMA ElementOf == ASSUME NEW S, NEW q \in Seq(S), NEW i \in 1..Len(q) PROVE q[i] \in S
  OBVIOUS

LEMMA FunctionIsSequence ==
    ASSUME NEW S, NEW n \in Nat, NEW q \in [1..n -> S]
    PROVE  q \in Seq(S) /\ Len(q) = n
  OBVIOUS

\* The sums of the first n numbers of a series.
PartialSums(series, sum) ==
    /\ sum \in [0..Len(series) -> Nat]
    /\ sum[0] = 0
    /\ \A n \in 1..Len(series) : sum[n] = sum[n - 1] + series[n]

LEMMA PartialSumsExist ==
    ASSUME NEW s \in Seq(Nat), NEW N \in 0..Len(s)
    PROVE  \E f \in [0..N -> Nat] : f = [n \in 0..N |-> IF n = 0 THEN 0 ELSE f[n - 1] + s[n]]
  <1> DEFINE Good(m) == \E f \in [0..m -> Nat] : f = [n \in 0..m |-> IF n = 0 THEN 0 ELSE f[n - 1] + s[n]]
             Bad == {m \in 0..N : ~Good(m)}
  <1>1. Good(0)
    <2> DEFINE f == [n \in 0..0 |-> 0]
    <2>1. f \in [0..0 -> Nat] /\ f = [n \in 0..0 |-> IF n = 0 THEN 0 ELSE f[n - 1] + s[n]]
      OBVIOUS
    <2> QED
      BY <2>1
  <1>2. ASSUME NEW m \in 1..N, Good(m - 1) PROVE Good(m)
    <2>1. PICK g \in [0..(m - 1) -> Nat] : g = [n \in 0..(m - 1) |-> IF n = 0 THEN 0 ELSE g[n - 1] + s[n]]
      BY <1>2
    <2> DEFINE f == [n \in 0..m |-> IF n = m THEN g[m - 1] + s[m] ELSE g[n]]
    <2>a. N \in Nat /\ m \in 1..Len(s) /\ m - 1 \in 0..(m - 1)
      OBVIOUS
    <2>2. s[m] \in Nat /\ g[m - 1] \in Nat
      BY <2>a, ElementOf
    <2>3. f \in [0..m -> Nat]
      <3>1. s[m] + g[m - 1] \in Nat /\ g[m - 1] + s[m] \in Nat
        BY <2>2
      <3>2. ASSUME NEW n \in 0..m, n # m PROVE g[n] \in Nat
        <4>1. n \in 0..(m - 1)
          BY <3>2
        <4> QED
          BY <4>1
      <3> QED
        BY ONLY <3>1, <3>2
    <2>4. ASSUME NEW n \in 0..m PROVE f[n] = IF n = 0 THEN 0 ELSE f[n - 1] + s[n]
      <3>1. CASE n = m
        BY <3>1
      <3>2. CASE n # m
        <4>1. n \in 0..(m - 1) /\ (n # 0 => n - 1 \in 0..(m - 1) /\ n - 1 # m)
          BY <3>2
        <4>2. g[n] = IF n = 0 THEN 0 ELSE g[n - 1] + s[n]
          BY <2>1, <4>1
        <4> QED
          BY <3>2, <4>1, <4>2
      <3> QED
        BY <3>1, <3>2
    <2>5. f = [n \in 0..m |-> IF n = 0 THEN 0 ELSE f[n - 1] + s[n]]
      BY <2>3, <2>4
    <2> QED
      BY <2>3, <2>5
  <1> HIDE DEF Good
  <1> HIDE DEF Bad
  <1>3. ASSUME Bad # {} PROVE FALSE
    <2>a. Bad \in SUBSET Nat
      BY DEF Bad
    <2>1. PICK m \in Bad : \A k \in Bad : m <= k
      BY <1>3, <2>a, LeastNumber
    <2> USE DEF Bad
    <2>2. m # 0 /\ m \in 1..N /\ m - 1 \in 0..N
      BY <1>1, <2>1
    <2>3. Good(m - 1)
      BY <2>1, <2>2
    <2> QED
      BY <1>2, <2>1, <2>2, <2>3
  <1>4. Good(N)
    <2>1. N \in 0..N
      OBVIOUS
    <2> QED
      BY <1>3, <2>1 DEF Bad
  <1> QED
    BY <1>4 DEF Good

LEMMA SumIs ==
    ASSUME NEW s \in Seq(Nat)
    PROVE  \E sum : PartialSums(s, sum) /\ Sum(s) = sum[Len(s)]
  <1> DEFINE L == Len(s)
             sum == CHOOSE f : f = [n \in 0..L |-> IF n = 0 THEN 0 ELSE f[n - 1] + s[n]]
  <1>1. Sum(s) = sum[L]
    BY Zenon DEF Sum
  <1>2. L \in Nat /\ L \in 0..Len(s)
    OBVIOUS
  <1>3. PICK g \in [0..L -> Nat] : g = [n \in 0..L |-> IF n = 0 THEN 0 ELSE g[n - 1] + s[n]]
    BY <1>2, PartialSumsExist
  <1>4. sum = [n \in 0..L |-> IF n = 0 THEN 0 ELSE sum[n - 1] + s[n]]
    BY <1>3, Zenon
  <1> HIDE DEF sum
  <1>5. sum[0] = 0 /\ \A n \in 1..L : sum[n] = sum[n - 1] + s[n]
    <2>1. 0 \in 0..L /\ \A n \in 1..L : n \in 0..L /\ n # 0
      BY <1>2
    <2> QED
      BY ONLY <1>4, <2>1
  <1> DEFINE Bad == {n \in 0..L : sum[n] \notin Nat}
  <1> HIDE DEF Bad
  <1>6. ASSUME Bad # {} PROVE FALSE
    <2>a. Bad \in SUBSET Nat
      BY DEF Bad
    <2>1. PICK m \in Bad : \A k \in Bad : m <= k
      BY <1>6, <2>a, LeastNumber
    <2> USE DEF Bad
    <2>2. m # 0 /\ m \in 1..L /\ m - 1 \in 0..L /\ m - 1 \notin Bad
      BY <1>2, <1>5, <2>1
    <2>3. sum[m - 1] \in Nat /\ s[m] \in Nat
      BY <2>2, ElementOf
    <2> QED
      BY <1>5, <2>1, <2>2, <2>3
  <1>7. sum \in [0..L -> Nat]
    BY <1>4, <1>6 DEF Bad
  <1> QED
    BY <1>1, <1>5, <1>7 DEF PartialSums

LEMMA SumIsNatural == ASSUME NEW s \in Seq(Nat) PROVE Sum(s) \in Nat
  BY SumIs DEF PartialSums

\* c times x does not exceed d times y, up to e for each of n.
UpTo(c, x, d, y, e, n) == c * x <= d * y + e * n

LEMMA UpToNext ==
    ASSUME NEW c \in Nat, NEW d \in Nat, NEW e \in Nat, NEW k \in Nat,
           NEW x \in Nat, NEW y \in Nat, NEW u \in Nat, NEW v \in Nat,
           UpTo(c, x, d, y, e, k), UpTo(c, u, d, v, e, 1)
    PROVE  UpTo(c, x + u, d, y + v, e, k + 1)
  <1>1. c * x <= d * y + e * k /\ c * u <= d * v + e
    BY DEF UpTo
  <1>2. c * (x + u) = c * x + c * u /\ d * (y + v) = d * y + d * v /\ e * (k + 1) = e * k + e
    OBVIOUS
  <1>3. /\ c * x \in Nat /\ c * u \in Nat /\ d * y \in Nat /\ d * v \in Nat /\ e * k \in Nat
    OBVIOUS
  <1>4. c * (x + u) <= d * (y + v) + e * (k + 1)
    BY <1>1, <1>2, <1>3
  <1> QED
    BY <1>4 DEF UpTo

\* What no number of a series exceeds, in proportion and up to e, their sum does
\* not exceed up to e for each of them.
LEMMA SumsCompareUpTo ==
    ASSUME NEW a \in Seq(Nat), NEW b \in Seq(Nat), Len(a) = Len(b),
           NEW c \in Nat, NEW d \in Nat, NEW e \in Nat,
           \A i \in 1..Len(a) : UpTo(c, a[i], d, b[i], e, 1)
    PROVE  Sum(a) \in Nat /\ Sum(b) \in Nat /\ UpTo(c, Sum(a), d, Sum(b), e, Len(a))
  <1> DEFINE L == Len(a)
  <1>1. PICK f : PartialSums(a, f) /\ Sum(a) = f[L]
    BY SumIs
  <1>2. PICK g : PartialSums(b, g) /\ Sum(b) = g[L]
    BY SumIs
  <1>3. L \in Nat /\ f \in [0..L -> Nat] /\ g \in [0..L -> Nat] /\ f[0] = 0 /\ g[0] = 0
    BY <1>1, <1>2 DEF PartialSums
  <1>4. \A n \in 1..L : f[n] = f[n - 1] + a[n] /\ g[n] = g[n - 1] + b[n]
    BY <1>1, <1>2 DEF PartialSums
  <1>5. UpTo(c, f[0], d, g[0], e, 0)
    BY <1>3 DEF UpTo
  <1>6. ASSUME NEW m \in 1..L, UpTo(c, f[m - 1], d, g[m - 1], e, m - 1)
        PROVE  UpTo(c, f[m], d, g[m], e, m)
    <2>a. m - 1 \in 0..L /\ m - 1 \in Nat /\ (m - 1) + 1 = m
      BY ONLY <1>3, m \in 1..L
    <2>b. f[m - 1] \in Nat /\ g[m - 1] \in Nat
      BY ONLY <1>3, <2>a
    <2>1. m - 1 \in Nat /\ (m - 1) + 1 = m /\ f[m - 1] \in Nat /\ g[m - 1] \in Nat
      BY ONLY <2>a, <2>b
    <2>2. a[m] \in Nat /\ b[m] \in Nat
      BY ElementOf
    <2>3. UpTo(c, a[m], d, b[m], e, 1)
      OBVIOUS
    <2>4. UpTo(c, f[m - 1] + a[m], d, g[m - 1] + b[m], e, (m - 1) + 1)
      BY ONLY <1>6, <2>1, <2>2, <2>3, c \in Nat, d \in Nat, e \in Nat, UpToNext
    <2> QED
      BY ONLY <1>4, <2>1, <2>4, m \in 1..L
  <1> DEFINE Good(n) == UpTo(c, f[n], d, g[n], e, n)
             Bad == {n \in 0..L : ~Good(n)}
  <1>7. Good(0) /\ \A m \in 1..L : Good(m - 1) => Good(m)
    BY <1>5, <1>6
  <1> HIDE DEF Good
  <1>8. ASSUME Bad # {} PROVE FALSE
    <2>1. Bad \in SUBSET Nat
      OBVIOUS
    <2>2. PICK m \in Bad : \A k \in Bad : m <= k
      BY ONLY <1>8, <2>1, LeastNumber
    <2>3. m # 0 /\ m \in 1..L /\ m - 1 \in 0..L
      BY <1>7, <2>2
    <2>4. Good(m - 1)
      BY <2>2, <2>3
    <2> QED
      BY <1>7, <2>2, <2>3, <2>4
  <1> HIDE DEF L
  <1>a. L \in 0..L
    BY ONLY <1>3
  <1>9. Good(L)
    BY ONLY <1>8, <1>a
  <1>10. f[L] \in Nat /\ g[L] \in Nat
    BY ONLY <1>3, <1>a
  <1> QED
    BY ONLY <1>1, <1>2, <1>9, <1>10 DEF Good, L

LEMMA SumsCompare ==
    ASSUME NEW a \in Seq(Nat), NEW b \in Seq(Nat), Len(a) = Len(b),
           \A i \in 1..Len(a) : a[i] <= b[i]
    PROVE  Sum(a) \in Nat /\ Sum(b) \in Nat /\ Sum(a) <= Sum(b)
  <1>1. ASSUME NEW i \in 1..Len(a) PROVE UpTo(1, a[i], 1, b[i], 0, 1)
    <2>1. a[i] \in Nat /\ b[i] \in Nat
      BY ElementOf
    <2> QED
      BY <2>1 DEF UpTo
  <1>2. Sum(a) \in Nat /\ Sum(b) \in Nat /\ UpTo(1, Sum(a), 1, Sum(b), 0, Len(a))
    <2>1. 1 \in Nat /\ 0 \in Nat
      OBVIOUS
    <2> QED
      BY <1>1, <2>1, SumsCompareUpTo
  <1>3. Len(a) \in Nat
    OBVIOUS
  <1> QED
    BY <1>2, <1>3 DEF UpTo

\* Numbers that are all zero.
LEMMA SumOfZeros ==
    ASSUME NEW a \in Seq(Nat), \A i \in 1..Len(a) : a[i] = 0
    PROVE  Sum(a) = 0
  <1>1. \A i \in 1..Len(a) : UpTo(1, a[i], 0, a[i], 0, 1)
    BY ElementOf DEF UpTo
  <1>2. Sum(a) \in Nat /\ UpTo(1, Sum(a), 0, Sum(a), 0, Len(a))
    <2>1. 1 \in Nat /\ 0 \in Nat
      OBVIOUS
    <2> QED
      BY <1>1, <2>1, SumsCompareUpTo
  <1>3. Len(a) \in Nat
    OBVIOUS
  <1> QED
    BY <1>2, <1>3 DEF UpTo

\* The sums the donuts have.
LEMMA SumOfNone ==
    Sum(<<>>) = 0
  <1> DEFINE s == <<>>
  <1>1. s \in Seq(Nat) /\ Len(s) = 0
    OBVIOUS
  <1> HIDE DEF s
  <1>2. PICK f : PartialSums(s, f) /\ Sum(s) = f[0]
    BY <1>1, SumIs
  <1>3. f[0] = 0
    BY <1>1, <1>2 DEF PartialSums
  <1>4. Sum(s) = 0
    BY <1>2, <1>3
  <1> QED
    BY <1>4 DEF s

LEMMA SumOfOne == ASSUME NEW v \in Nat PROVE Sum(<<v>>) = v
  <1> DEFINE s == <<v>>
  <1>1. s \in Seq(Nat) /\ Len(s) = 1 /\ s[1] = v
    OBVIOUS
  <1> HIDE DEF s
  <1>2. PICK f : PartialSums(s, f) /\ Sum(s) = f[1]
    BY <1>1, SumIs
  <1>3. f[0] = 0 /\ f[1] = f[0] + v
    BY <1>1, <1>2 DEF PartialSums
  <1>4. Sum(s) = v
    BY <1>2, <1>3
  <1> QED
    BY <1>4 DEF s

LEMMA SumOfTwo ==
    ASSUME NEW v \in Nat, NEW x \in Nat
    PROVE  Sum(<<v, x>>) = v + x
  <1> DEFINE s == <<v, x>>
  <1>1. s \in Seq(Nat) /\ Len(s) = 2 /\ s[1] = v /\ s[2] = x
    OBVIOUS
  <1> HIDE DEF s
  <1>2. PICK f : PartialSums(s, f) /\ Sum(s) = f[2]
    BY <1>1, SumIs
  <1>3. f[0] = 0 /\ f[1] = f[0] + v /\ f[2] = f[1] + x
    BY <1>1, <1>2 DEF PartialSums
  <1>4. Sum(s) = v + x
    BY <1>2, <1>3
  <1> QED
    BY <1>4 DEF s

LEMMA SumOfThree ==
    ASSUME NEW v \in Nat, NEW x \in Nat, NEW y \in Nat
    PROVE  Sum(<<v, x, y>>) = v + x + y
  <1> DEFINE s == <<v, x, y>>
  <1>1. s \in Seq(Nat) /\ Len(s) = 3 /\ s[1] = v /\ s[2] = x /\ s[3] = y
    OBVIOUS
  <1> HIDE DEF s
  <1>2. PICK f : PartialSums(s, f) /\ Sum(s) = f[3]
    BY <1>1, SumIs
  <1>3. f[0] = 0 /\ f[1] = f[0] + v /\ f[2] = f[1] + x /\ f[3] = f[2] + y
    BY <1>1, <1>2 DEF PartialSums
  <1>4. Sum(s) = v + x + y
    BY <1>2, <1>3
  <1> QED
    BY <1>4 DEF s

LEMMA SumOfFour ==
    ASSUME NEW v \in Nat, NEW x \in Nat, NEW y \in Nat, NEW z \in Nat
    PROVE  Sum(<<v, x, y, z>>) = v + x + y + z
  <1> DEFINE s == <<v, x, y, z>>
  <1>1. s \in Seq(Nat) /\ Len(s) = 4 /\ s[1] = v /\ s[2] = x /\ s[3] = y /\ s[4] = z
    OBVIOUS
  <1> HIDE DEF s
  <1>2. PICK f : PartialSums(s, f) /\ Sum(s) = f[4]
    BY <1>1, SumIs
  <1>3. f[0] = 0 /\ f[1] = f[0] + v /\ f[2] = f[1] + x /\ f[3] = f[2] + y /\ f[4] = f[3] + z
    BY <1>1, <1>2 DEF PartialSums
  <1>4. Sum(s) = v + x + y + z
    BY <1>2, <1>3
  <1> QED
    BY <1>4 DEF s

\* What is rounded misses the share by half a unit at most.
LEMMA RoundedIs ==
    ASSUME NEW part \in Nat, NEW whole \in Nat, NEW units \in Nat
    PROVE  /\ Rounded(part, whole, units) \in Nat
           /\ whole > 0 => /\ UpTo(2 * whole, Rounded(part, whole, units), 2 * units, part, whole, 1)
                           /\ UpTo(2 * units, part, 2 * whole, Rounded(part, whole, units), whole, 1)
  <1>1. CASE whole > 0
    <2> DEFINE n == 2 * units * part + whole
               d == 2 * whole
               q == n \div d
    <2>1. n \in Nat /\ d \in Nat /\ d > 0
      BY <1>1
    <2>2. n = (2 * units) * part + whole /\ d = whole + whole
      OBVIOUS
    <2>3. q = Rounded(part, whole, units) /\ d = 2 * whole
      BY <1>1 DEF Rounded
    <2> HIDE DEF n, d
    <2>4. q \in Nat /\ d * q <= n /\ n < d * q + d
      <3>1. \A k \in Nat, l \in Nat : l > 0 => k \div l \in Nat /\ l * (k \div l) <= k /\ k < l * (k \div l) + l
        OBVIOUS
      <3> QED
        BY <2>1, <3>1
    <2> HIDE DEF q
    <2> DEFINE x == d * q
               y == (2 * units) * part
    <2>5. x \in Nat /\ y \in Nat
      BY <2>1, <2>4
    <2> HIDE DEF x, y
    <2>6. x <= y + whole /\ y + whole < x + (whole + whole)
      BY <2>2, <2>4 DEF x, y
    <2>7. y <= x + whole
      BY <2>5, <2>6
    <2>8. /\ (2 * whole) * q <= (2 * units) * part + whole
          /\ (2 * units) * part <= (2 * whole) * q + whole
      BY ONLY <2>3, <2>6, <2>7 DEF x, y
    <2> QED
      BY <2>3, <2>4, <2>8 DEF UpTo
  <1>2. CASE whole = 0
    BY <1>2 DEF Rounded
  <1> QED
    BY <1>1, <1>2

\* A common factor on both sides.
LEMMA Cancel ==
    ASSUME NEW t \in Nat, t > 0, NEW x \in Nat, NEW y \in Nat, t * x <= t * y
    PROVE  x <= y
  <1> SUFFICES ASSUME ~(x <= y) PROVE FALSE
    OBVIOUS
  <1>1. x >= y + 1
    OBVIOUS
  <1>2. \A k \in Nat : t * (y + 1 + k) >= t * y + t
    OBVIOUS
  <1>3. x - (y + 1) \in Nat /\ y + 1 + (x - (y + 1)) = x
    BY <1>1
  <1>4. t * x >= t * y + t
    BY ONLY <1>2, <1>3
  <1> QED
    BY <1>4

-----------------------------------------------------------------------------
(* The answer on display is one the server can send.                        *)

Measured == sample.for \in DOMAIN Answers /\ sample.m \in Answers[sample.for]

LEMMA AlwaysMeasured == Spec => []Measured
  <1>1. Init => Measured
    BY SamplesAssumption DEF Init, Measured
  <1>2. Measured /\ [Poll]_sample => Measured'
    BY SamplesAssumption DEF Poll, Measured
  <1> QED
    BY <1>1, <1>2, PTL DEF Spec

-----------------------------------------------------------------------------
(* The parts of the donuts.                                                 *)

LEMMA RoundedIsNatural ==
    ASSUME NEW part \in Nat, NEW whole \in Nat, NEW units \in Nat
    PROVE  Rounded(part, whole, units) \in Nat
  BY RoundedIs

\* The labels, seconds and shares of the modes, as CpuDonut has them.
CpuModes(m) == [i \in 1..Len(m.cpu) |-> m.cpu[i].mode]
CpuValues(m) == [i \in 1..Len(m.cpu) |-> m.cpu[i].value]
CpuShares(m) == [i \in 1..Len(m.cpu) |-> Rounded(m.cpu[i].value, CpuSeconds(m), Hundredths)]

LEMMA CpuDonutIs ==
    ASSUME NEW m \in Answers["cpu"]
    PROVE  /\ Len(m.cpu) \in Nat /\ CpuSeconds(m) \in Nat /\ CpuSeconds(m) = Sum(CpuValues(m))
           /\ CpuValues(m) \in Seq(Nat) /\ Len(CpuValues(m)) = Len(m.cpu)
           /\ CpuShares(m) \in Seq(Nat) /\ Len(CpuShares(m)) = Len(m.cpu)
           /\ CpuDonut(m) = Shown(m.cpu # <<>>, Chart(CpuModes(m), CpuShares(m)))
  <1>1. Len(m.cpu) \in Nat /\ DOMAIN m.cpu = 1..Len(m.cpu)
    BY DEF Answers
  <1>2. ASSUME NEW i \in 1..Len(m.cpu) PROVE m.cpu[i].value \in Nat
    <2>1. m.cpu \in Seq([mode : STRING, value : Nat])
      BY DEF Answers
    <2>2. m.cpu[i] \in [mode : STRING, value : Nat]
      BY <2>1, ElementOf
    <2> QED
      BY <2>2
  <1>3. CpuValues(m) \in Seq(Nat) /\ Len(CpuValues(m)) = Len(m.cpu)
    BY <1>1, <1>2 DEF CpuValues
  <1>4. CpuSeconds(m) = Sum(CpuValues(m))
    BY <1>1, Zenon DEF CpuSeconds, CpuValues, Each
  <1>5. CpuSeconds(m) \in Nat
    BY <1>3, <1>4, SumIsNatural
  <1>6. ASSUME NEW i \in 1..Len(m.cpu) PROVE Rounded(m.cpu[i].value, CpuSeconds(m), Hundredths) \in Nat
    <2>1. Hundredths \in Nat
      BY DEF Hundredths
    <2>2. m.cpu[i].value \in Nat
      BY <1>2
    <2> DEFINE part == m.cpu[i].value
               whole == CpuSeconds(m)
               units == Hundredths
    <2>3. part \in Nat /\ whole \in Nat /\ units \in Nat
      BY ONLY <1>5, <2>1, <2>2
    <2>4. SUFFICES Rounded(part, whole, units) \in Nat
      OBVIOUS
    <2> HIDE DEF part, whole, units
    <2> QED
      BY ONLY <2>3, RoundedIsNatural
  <1>7. CpuShares(m) \in Seq(Nat) /\ Len(CpuShares(m)) = Len(m.cpu)
    <2> DEFINE n == Len(m.cpu)
               shares == CpuShares(m)
    <2>1. shares \in [1..n -> Nat] /\ n \in Nat
      BY ONLY <1>1, <1>6 DEF CpuShares
    <2> HIDE DEF n, shares
    <2>2. shares \in Seq(Nat) /\ Len(shares) = n
      BY ONLY <2>1, FunctionIsSequence
    <2> QED
      BY ONLY <2>2 DEF n, shares
  <1>8. CpuDonut(m) = Shown(m.cpu # <<>>, Chart(CpuModes(m), CpuShares(m)))
    BY <1>1, Zenon DEF CpuDonut, CpuModes, CpuShares, Each
  <1> QED
    BY <1>1, <1>3, <1>4, <1>5, <1>7, <1>8

LEMMA CpuAddsUp ==
    ASSUME NEW m \in Answers["cpu"], CpuSeconds(m) > 0
    PROVE  LET parts == Sum(CpuDonut(m).series)
           IN  2 * parts <= 2 * Hundredths + Len(m.cpu) /\ 2 * Hundredths <= 2 * parts + Len(m.cpu)
  <1> DEFINE L == Len(m.cpu)
             values == CpuValues(m)
             total == CpuSeconds(m)
             shares == CpuShares(m)
             P == Sum(shares)
  <1>1. /\ L \in Nat /\ total \in Nat /\ total > 0 /\ Sum(values) = total
        /\ values \in Seq(Nat) /\ Len(values) = L /\ shares \in Seq(Nat) /\ Len(shares) = L
    BY CpuDonutIs
  <1>2. \A i \in 1..L : shares[i] = Rounded(values[i], total, Hundredths)
    BY DEF CpuShares, CpuValues
  <1>3. m.cpu # <<>>
    <2> SUFFICES ASSUME m.cpu = <<>> PROVE FALSE
      OBVIOUS
    <2>1. Len(values) = 0
      BY <1>1
    <2> HIDE DEF values, total
    <2>2. values \in Seq(Nat) /\ \A i \in 1..Len(values) : values[i] = 0
      BY <1>1, <2>1
    <2>3. Sum(values) = 0
      BY ONLY <2>2, SumOfZeros
    <2> QED
      BY ONLY <1>1, <2>3
  <1>4. CpuDonut(m).series = shares
    BY <1>3, CpuDonutIs DEF Shown, Chart
  <1> HIDE DEF L, values, total, shares
  <1> DEFINE units == Hundredths
  <1>5. 2 * total \in Nat /\ units \in Nat /\ 2 * units \in Nat
    BY <1>1 DEF Hundredths
  <1>6. \A i \in 1..L : shares[i] = Rounded(values[i], total, units)
    BY <1>2
  <1> HIDE DEF units
  <1>7. ASSUME NEW i \in 1..L
        PROVE  /\ UpTo(2 * total, shares[i], 2 * units, values[i], total, 1)
               /\ UpTo(2 * units, values[i], 2 * total, shares[i], total, 1)
    <2>1. values[i] \in Nat
      BY <1>1, ElementOf
    <2>2. shares[i] = Rounded(values[i], total, units)
      BY <1>6
    <2> DEFINE part == values[i]
               share == Rounded(part, total, units)
    <2>3. part \in Nat /\ share = Rounded(part, total, units) /\ shares[i] = share
      BY ONLY <2>1, <2>2
    <2> HIDE DEF share
    <2>4. /\ UpTo(2 * total, share, 2 * units, part, total, 1)
          /\ UpTo(2 * units, part, 2 * total, share, total, 1)
      BY ONLY <1>1, <1>5, <2>1, RoundedIs DEF share
    <2> QED
      BY ONLY <2>3, <2>4
  <1>8. P \in Nat /\ UpTo(2 * total, P, 2 * units, total, total, L)
    BY ONLY <1>1, <1>5, <1>7, SumsCompareUpTo
  <1>9. UpTo(2 * units, total, 2 * total, P, total, L)
    BY ONLY <1>1, <1>5, <1>7, SumsCompareUpTo
  <1> HIDE DEF P
  <1>10. 2 * P \in Nat /\ 2 * units + L \in Nat /\ 2 * P + L \in Nat
    BY <1>1, <1>5, <1>8
  <1>11. 2 * P <= 2 * units + L
    <2>1. total * (2 * P) <= total * (2 * units + L)
      BY <1>1, <1>5, <1>8 DEF UpTo
    <2> QED
      BY ONLY <1>1, <1>10, <2>1, Cancel
  <1>12. 2 * units <= 2 * P + L
    <2>1. total * (2 * units) <= total * (2 * P + L)
      BY <1>1, <1>5, <1>8, <1>9 DEF UpTo
    <2> QED
      BY ONLY <1>1, <1>5, <1>10, <2>1, Cancel
  <1> QED
    BY <1>4, <1>11, <1>12 DEF P, L, units

LEMMA MemoryAddsUp ==
    ASSUME NEW m \in Answers["memory"], m.total > 0
    PROVE  /\ Sum(MemoryDonut(m).series) >= m.total
           /\ m.buffers + m.cached <= m.total - m.available => Sum(MemoryDonut(m).series) = m.total
           /\ m.swapTotal > 0 => Sum(SwapDonut(m).series) = m.swapTotal
  <1>1. /\ m.total \in Nat /\ m.available \in Nat /\ m.buffers \in Nat /\ m.cached \in Nat
        /\ m.swapTotal \in Nat /\ m.swapUsed \in Nat /\ m.swapFree \in Nat
        /\ m.available <= m.total /\ m.swapUsed + m.swapFree = m.swapTotal
    BY DEF Answers
  <1> DEFINE used == m.total - m.available
             cache == m.buffers + m.cached
             active == Clamp(used - cache)
  <1>2. used \in Nat /\ cache \in Nat /\ active \in Nat /\ active >= used - cache
        /\ (cache <= used => active = used - cache)
    BY <1>1 DEF Clamp
  <1>3. MemoryDonut(m).series = IF cache > 0 THEN <<active, cache, m.available>> ELSE <<used, m.available>>
    BY DEF MemoryDonut, Shown, Chart
  <1>4. m.swapTotal > 0 => SwapDonut(m).series = <<m.swapUsed, m.swapFree>>
    BY DEF SwapDonut, Shown, Chart
  <1>5. /\ Sum(<<active, cache, m.available>>) = active + cache + m.available
        /\ Sum(<<used, m.available>>) = used + m.available
        /\ Sum(<<m.swapUsed, m.swapFree>>) = m.swapUsed + m.swapFree
    <2> HIDE DEF used, cache, active
    <2> QED
      BY <1>1, <1>2, SumOfTwo, SumOfThree
  <1>6. m.swapTotal > 0 => Sum(SwapDonut(m).series) = m.swapTotal
    BY <1>1, <1>4, <1>5
  <1>7. /\ used + m.available = m.total /\ active + cache + m.available >= m.total
        /\ cache <= used => active + cache + m.available = m.total
    <2>1. m.available + used = m.total
      BY <1>1
    <2> HIDE DEF used, cache, active
    <2> QED
      BY ONLY <1>1, <1>2, <2>1
  <1> HIDE DEF active
  <1>8. CASE cache > 0
    <2>1. Sum(MemoryDonut(m).series) = active + cache + m.available
      BY ONLY <1>3, <1>5, <1>8
    <2> QED
      BY <1>6, <1>7, <2>1
  <1>9. CASE ~(cache > 0)
    <2>1. Sum(MemoryDonut(m).series) = used + m.available
      BY ONLY <1>3, <1>5, <1>9
    <2>2. m.total \in Nat
      BY <1>1
    <2> QED
      BY <1>6, <1>7, <2>1, <2>2
  <1> QED
    BY <1>8, <1>9

LEMMA TaskAddsUp ==
    ASSUME NEW m \in Answers["task"], m.limit > 0 => m.usage <= m.limit
    PROVE  LET parts == Sum(TaskMemoryDonut(m).series)
               whole == IF m.limit > 0 THEN m.limit ELSE m.usage
           IN  /\ parts >= whole
               /\ m.workingSet + m.memoryCache <= m.usage => parts = whole
  <1>1. m.limit \in Nat /\ m.usage \in Nat /\ m.workingSet \in Nat /\ m.memoryCache \in Nat
    BY DEF Answers
  <1> DEFINE other == Clamp(m.usage - m.workingSet - m.memoryCache)
             available == IF m.limit > 0 THEN Clamp(m.limit - m.usage) ELSE 0
  <1>2. /\ other \in Nat /\ other >= m.usage - m.workingSet - m.memoryCache
        /\ m.workingSet + m.memoryCache <= m.usage => other = m.usage - m.workingSet - m.memoryCache
    BY <1>1 DEF Clamp
  <1>3. available \in Nat /\ (m.limit > 0 => available = m.limit - m.usage)
    BY <1>1 DEF Clamp
  <1>4. TaskMemoryDonut(m).series = IF m.limit > 0 THEN <<m.workingSet, m.memoryCache, other, available>>
                                    ELSE <<m.workingSet, m.memoryCache, other>>
    BY DEF TaskMemoryDonut, calculateMemoryMetrics, Chart
  <1> HIDE DEF other, available
  <1>5. /\ Sum(<<m.workingSet, m.memoryCache, other, available>>) = m.workingSet + m.memoryCache + other + available
        /\ Sum(<<m.workingSet, m.memoryCache, other>>) = m.workingSet + m.memoryCache + other
    BY <1>1, <1>2, <1>3, SumOfThree, SumOfFour
  <1>6. CASE m.limit > 0
    <2>1. Sum(TaskMemoryDonut(m).series) = m.workingSet + m.memoryCache + other + available
      BY ONLY <1>4, <1>5, <1>6
    <2> QED
      BY ONLY <1>1, <1>2, <1>3, <1>6, <2>1
  <1>7. CASE ~(m.limit > 0)
    <2>1. Sum(TaskMemoryDonut(m).series) = m.workingSet + m.memoryCache + other
      BY ONLY <1>4, <1>5, <1>7
    <2> QED
      BY ONLY <1>1, <1>2, <1>7, <2>1
  <1> QED
    BY <1>6, <1>7

\* What the containers of a service use is within their limits if all have one.
LEMMA ServiceSums ==
    ASSUME NEW s \in Answers["service"], ~MixedLimits(s)
    PROVE  /\ TotalUsage(s) \in Nat /\ TotalLimit(s) \in Nat
           /\ TotalLimit(s) > 0 => TotalUsage(s) <= TotalLimit(s)
  <1> DEFINE L == Len(s.containers)
             usages == [i \in 1..L |-> s.containers[i].usage]
             limits == [i \in 1..L |-> s.containers[i].limit]
  <1>1. L \in Nat /\ DOMAIN s.containers = 1..L /\ s.containers \in Seq(ContainerMetrics)
    BY DEF Answers
  <1>2. ASSUME NEW i \in 1..L
        PROVE  /\ s.containers[i].usage \in Nat /\ s.containers[i].limit \in Nat
               /\ s.containers[i].limit > 0 => s.containers[i].usage <= s.containers[i].limit
    <2>1. s.containers[i] \in ContainerMetrics
      BY <1>1, ElementOf
    <2> QED
      BY <2>1 DEF ContainerMetrics
  <1>3. TotalUsage(s) = Sum(usages) /\ TotalLimit(s) = Sum(limits)
    BY <1>1 DEF TotalUsage, TotalLimit, Each
  <1>4. usages \in Seq(Nat) /\ limits \in Seq(Nat) /\ Len(usages) = L /\ Len(limits) = L
    BY <1>1, <1>2
  <1>5. \A i \in 1..L : usages[i] = s.containers[i].usage /\ limits[i] = s.containers[i].limit
    OBVIOUS
  <1> HIDE DEF usages, limits
  <1>6. TotalUsage(s) \in Nat /\ TotalLimit(s) \in Nat
    BY <1>3, <1>4, SumIsNatural
  <1>7. TotalLimit(s) > 0 => TotalUsage(s) <= TotalLimit(s)
    <2>1. CASE \A i \in 1..L : s.containers[i].limit > 0
      <3>1. \A i \in 1..L : usages[i] <= limits[i]
        BY <1>2, <1>5, <2>1
      <3> QED
        BY <1>3, <1>4, <3>1, SumsCompare
    <2>2. CASE \A i \in 1..L : s.containers[i].limit = 0
      <3>1. \A i \in 1..L : limits[i] = 0
        BY <1>5, <2>2
      <3>2. TotalLimit(s) = 0
        BY <1>3, <1>4, <3>1, SumOfZeros
      <3> QED
        BY <3>2
    <2>3. \/ \A i \in 1..L : s.containers[i].limit > 0
          \/ \A i \in 1..L : s.containers[i].limit = 0
      <3>1. \A i \in 1..L : ~(s.containers[i].limit > 0) => s.containers[i].limit = 0
        BY <1>2
      <3> QED
        BY <1>1, <3>1, Zenon DEF MixedLimits
    <2> QED
      BY <2>1, <2>2, <2>3
  <1> QED
    BY <1>6, <1>7

LEMMA ServiceAddsUp ==
    ASSUME NEW s \in Answers["service"], TotalUsage(s) > 0, ~MixedLimits(s)
    PROVE  Sum(ServiceDonut(s).series) = IF TotalLimit(s) > 0 THEN TotalLimit(s) ELSE TotalUsage(s)
  <1> DEFINE used == TotalUsage(s)
             limit == TotalLimit(s)
  <1>1. used \in Nat /\ limit \in Nat /\ (limit > 0 => used <= limit)
    BY ServiceSums
  <1>2. ServiceDonut(s).series = IF limit > 0 THEN <<used, limit - used>> ELSE <<used>>
    BY DEF ServiceDonut, Shown, Chart
  <1> HIDE DEF used, limit
  <1>3. CASE limit > 0
    <2>1. limit - used \in Nat
      BY <1>1, <1>3
    <2>2. Sum(<<used, limit - used>>) = used + (limit - used)
      BY <1>1, <2>1, SumOfTwo
    <2>3. used + (limit - used) = limit
      BY <1>1
    <2> QED
      BY <1>2, <1>3, <2>2, <2>3 DEF limit
  <1>4. CASE ~(limit > 0)
    <2>1. Sum(<<used>>) = used
      BY <1>1, SumOfOne
    <2> QED
      BY <1>2, <1>4, <2>1 DEF used, limit
  <1> QED
    BY <1>3, <1>4

LEMMA TcpAddsUp ==
    ASSUME NEW m \in Answers["system"]
    PROVE  Sum(TcpDonut(m).series) >= m.alloc
  <1>1. m.alloc \in Nat /\ m.inuse \in Nat /\ m.timeWait \in Nat
    BY DEF Answers
  <1> DEFINE free == Clamp(m.alloc - m.inuse - m.timeWait)
  <1>2. free \in Nat /\ free >= m.alloc - m.inuse - m.timeWait
    BY <1>1 DEF Clamp
  <1>3. TcpDonut(m).series = IF m.alloc > 0 THEN <<m.inuse, m.timeWait, free>> ELSE <<>>
    BY DEF TcpDonut, Shown, Chart, Alert
  <1> HIDE DEF free
  <1>4. Sum(<<m.inuse, m.timeWait, free>>) = m.inuse + m.timeWait + free /\ Sum(<<>>) = 0
    BY <1>1, <1>2, SumOfNone, SumOfThree
  <1>5. CASE m.alloc > 0
    BY <1>1, <1>2, <1>3, <1>4, <1>5
  <1>6. CASE ~(m.alloc > 0)
    BY <1>1, <1>2, <1>3, <1>4, <1>6
  <1> QED
    BY <1>5, <1>6

\* Whatever is measured, a donut leaves nothing of its whole out, and invents
\* nothing unless the kernel counts what it measures twice; the shares of the
\* CPU miss 100 % by half a hundredth for each mode at most.
THEOREM DonutsAddUpHolds == Spec => []DonutsAddUp
  <1>1. ASSUME Measured PROVE DonutsAddUp
    <2> DEFINE m == sample.m
    <2>1. CASE sample.for = "memory" /\ m.total > 0
      BY <1>1, <2>1, MemoryAddsUp DEF Measured, DonutsAddUp
    <2>2. CASE sample.for = "task" /\ (m.limit > 0 => m.usage <= m.limit)
      BY <1>1, <2>2, TaskAddsUp DEF Measured, DonutsAddUp
    <2>3. CASE sample.for = "system"
      BY <1>1, <2>3, TcpAddsUp DEF Measured, DonutsAddUp
    <2>4. CASE sample.for = "cpu" /\ CpuSeconds(m) > 0
      BY <1>1, <2>4, CpuAddsUp DEF Measured, DonutsAddUp
    <2>5. CASE sample.for = "service" /\ TotalUsage(m) > 0 /\ ~MixedLimits(m)
      BY <1>1, <2>5, ServiceAddsUp DEF Measured, DonutsAddUp
    <2>6. CASE /\ ~(sample.for = "memory" /\ m.total > 0)
               /\ ~(sample.for = "task" /\ (m.limit > 0 => m.usage <= m.limit))
               /\ ~(sample.for = "service" /\ TotalUsage(m) > 0 /\ ~MixedLimits(m))
               /\ ~(sample.for = "cpu" /\ CpuSeconds(m) > 0)
               /\ sample.for # "system"
      BY <2>6 DEF DonutsAddUp
    <2> QED
      BY <2>1, <2>2, <2>3, <2>4, <2>5, <2>6
  <1> QED
    BY <1>1, AlwaysMeasured, PTL

-----------------------------------------------------------------------------
(* The colors.                                                              *)

LEMMA PercentColors ==
    ASSUME NEW m \in Answers["percent"]
    PROVE  LET p == m.usagePercent
           IN  /\ ClusterVariant(p) = getStatusColor(p)
               /\ TaskRowClass(p) = getStatusColor(p)
               /\ p > 0 => KpiHeader(m) = [memory |-> getStatusColor(p), cpu |-> getStatusColor(p)]
               /\ AsSevere(fdColor(p), getStatusColor(p))
  <1> DEFINE p == m.usagePercent
  <1>1. p \in Nat /\ m.cpuPercent = p
    BY DEF Answers
  <1>2. ClusterVariant(p) = getStatusColor(p) /\ TaskRowClass(p) = getStatusColor(p)
    BY DEF ClusterVariant, TaskRowClass, getStatusColor
  <1>3. p > 0 => KpiHeader(m) = [memory |-> getStatusColor(p), cpu |-> getStatusColor(p)]
    BY <1>1 DEF KpiHeader
  <1>4. AsSevere(fdColor(p), getStatusColor(p))
    <2> HIDE DEF p
    <2>1. CASE p > 90
      BY <1>1, <2>1 DEF AsSevere, fdColor, getStatusColor
    <2>2. CASE p > 75 /\ ~(p > 90)
      BY <1>1, <2>2 DEF AsSevere, fdColor, getStatusColor
    <2>3. CASE ~(p > 75)
      BY <1>1, <2>3 DEF AsSevere, fdColor, getStatusColor
    <2> QED
      BY <1>1, <2>1, <2>2, <2>3
  <1> QED
    BY <1>2, <1>3, <1>4

LEMMA MemoryColors ==
    ASSUME NEW m \in Answers["memory"], m.total > 0
    PROVE  MemoryBar(m) = getStatusColor(Percent(m.total - Last(MemoryDonut(m).series), m.total))
  <1>1. m.total \in Nat /\ m.available \in Nat /\ m.available <= m.total
    BY DEF Answers
  <1>2. MemoryBar(m) = getStatusColor(Percent(m.total - m.available, m.total))
    BY <1>1 DEF MemoryBar, ResourceBar, Clamp
  <1>3. Last(MemoryDonut(m).series) = m.available
    <2>1. CASE m.buffers + m.cached > 0
      BY <2>1 DEF MemoryDonut, Shown, Chart, Last
    <2>2. CASE ~(m.buffers + m.cached > 0)
      BY <2>2 DEF MemoryDonut, Shown, Chart, Last
    <2> QED
      BY <2>1, <2>2
  <1> QED
    BY <1>2, <1>3

LEMMA FilesystemColors ==
    ASSUME NEW m \in Answers["filesystem"], m.filesystem # <<>>
    PROVE  LET bars == FilesystemBars(m)
           IN  \E i \in DOMAIN bars.labels :
                  /\ "/" \in Range(bars.labels) => bars.labels[i] = "/"
                  /\ DiskBar(m) = ResourceBar(bars.series[i], bars.series[i] + bars.other[i])
  <1> DEFINE fs == m.filesystem
             L == Len(fs)
             roots == {i \in 1..L : fs[i].mountpoint = "/"}
             bars == FilesystemBars(m)
  <1>1. fs \in Seq(FilesystemMetrics) /\ L \in Nat /\ L > 0 /\ DOMAIN fs = 1..L
    BY DEF Answers
  <1>2. /\ bars.labels = [i \in 1..L |-> fs[i].mountpoint]
        /\ bars.series = [i \in 1..L |-> fs[i].used]
        /\ bars.other = [i \in 1..L |-> fs[i].available]
    BY <1>1 DEF FilesystemBars, Bars, Each
  <1>3. PICK i \in 1..L : i = (IF roots # {} THEN Min(roots) ELSE 1) /\ (roots # {} => i \in roots)
    <2>1. CASE roots = {}
      BY <1>1, <2>1
    <2>2. CASE roots # {}
      <3>1. roots \in SUBSET Nat
        OBVIOUS
      <3> HIDE DEF roots
      <3>2. PICK n \in roots : \A k \in roots : n <= k
        BY <2>2, <3>1, LeastNumber
      <3>3. Min(roots) \in roots
        BY <3>2 DEF Min
      <3> QED
        BY <2>2, <3>3 DEF roots
    <2> QED
      BY <2>1, <2>2
  <1>4. DiskBar(m) = ResourceBar(fs[i].used, fs[i].size)
    BY <1>1, <1>3 DEF DiskBar
  <1>5. fs[i] \in FilesystemMetrics
    BY <1>1, ElementOf
  <1>6. fs[i].size = fs[i].used + fs[i].available
    BY <1>5 DEF FilesystemMetrics
  <1>7. "/" \in Range(bars.labels) => bars.labels[i] = "/"
    <2>1. ASSUME "/" \in Range(bars.labels) PROVE roots # {}
      BY <1>2, <2>1 DEF Range
    <2>2. i \in roots => bars.labels[i] = "/"
      BY <1>2
    <2> QED
      BY <1>3, <2>1, <2>2
  <1>8. DiskBar(m) = ResourceBar(bars.series[i], bars.series[i] + bars.other[i])
    BY <1>2, <1>4, <1>6
  <1>9. i \in DOMAIN bars.labels
    BY <1>2
  <1> QED
    BY <1>7, <1>8, <1>9

\* A share has the same color wherever it is shown.
THEOREM SeveritiesAgreeHolds == Spec => []SeveritiesAgree
  <1>1. ASSUME Measured PROVE SeveritiesAgree
    <2>1. CASE sample.for = "percent"
      BY <1>1, <2>1, PercentColors DEF Measured, SeveritiesAgree
    <2>2. CASE sample.for = "memory" /\ sample.m.total > 0
      BY <1>1, <2>2, MemoryColors DEF Measured, SeveritiesAgree
    <2>3. CASE sample.for = "filesystem" /\ sample.m.filesystem # <<>>
      BY <1>1, <2>3, FilesystemColors DEF Measured, SeveritiesAgree
    <2>4. CASE /\ sample.for # "percent"
               /\ ~(sample.for = "memory" /\ sample.m.total > 0)
               /\ ~(sample.for = "filesystem" /\ sample.m.filesystem # <<>>)
      BY <2>4 DEF SeveritiesAgree
    <2> QED
      BY <2>1, <2>2, <2>3, <2>4
  <1> QED
    BY <1>1, AlwaysMeasured, PTL

-----------------------------------------------------------------------------
(* The charts.                                                              *)

IsDrawable(c) ==
    /\ Drawable(c.labels, c.series)
    /\ "other" \in DOMAIN c => Drawable(c.labels, c.other)

LEMMA ChartIsDrawable ==
    ASSUME NEW labels, NEW series, Drawable(labels, series)
    PROVE  IsDrawable(Chart(labels, series))
  BY DEF IsDrawable, Chart

LEMMA BarsAreDrawable ==
    ASSUME NEW labels, NEW first, NEW second, Drawable(labels, first), Drawable(labels, second)
    PROVE  IsDrawable(Bars(labels, first, second))
  BY DEF IsDrawable, Bars

LEMMA AlertIsDrawable == IsDrawable(Alert)
  BY ChartIsDrawable DEF Alert, Drawable

LEMMA ShownIsDrawable ==
    ASSUME NEW condition \in BOOLEAN, NEW chart, condition => IsDrawable(chart)
    PROVE  IsDrawable(Shown(condition, chart))
  BY AlertIsDrawable DEF Shown

LEMMA FewAreDrawable ==
    ASSUME NEW a, NEW b, NEW c, NEW d, NEW v \in Nat, NEW x \in Nat, NEW y \in Nat, NEW z \in Nat
    PROVE  /\ IsDrawable(Chart(<<a>>, <<v>>))
           /\ IsDrawable(Chart(<<a, b>>, <<v, x>>))
           /\ IsDrawable(Chart(<<a, b, c>>, <<v, x, y>>))
           /\ IsDrawable(Chart(<<a, b, c, d>>, <<v, x, y, z>>))
  <1>1. Drawable(<<a>>, <<v>>)
    BY DEF Drawable
  <1>2. Drawable(<<a, b>>, <<v, x>>)
    BY DEF Drawable
  <1>3. Drawable(<<a, b, c>>, <<v, x, y>>)
    BY DEF Drawable
  <1>4. Drawable(<<a, b, c, d>>, <<v, x, y, z>>)
    BY DEF Drawable
  <1> QED
    BY <1>1, <1>2, <1>3, <1>4, ChartIsDrawable

LEMMA CpuCharts ==
    ASSUME NEW m \in Answers["cpu"]
    PROVE  IsDrawable(CpuDonut(m)) /\ IsDrawable(LoadGauge(m))
  <1>1. IsDrawable(CpuDonut(m))
    <2>1. /\ CpuShares(m) \in Seq(Nat)
          /\ CpuDonut(m) = Shown(m.cpu # <<>>, Chart(CpuModes(m), CpuShares(m)))
      BY CpuDonutIs
    <2>2. DOMAIN CpuModes(m) = 1..Len(m.cpu) /\ DOMAIN CpuShares(m) = 1..Len(m.cpu)
      BY DEF CpuModes, CpuShares
    <2>3. \A i \in 1..Len(m.cpu) : CpuShares(m)[i] \in Nat
      BY <2>1, <2>2, CpuDonutIs, ElementOf
    <2>4. Drawable(CpuModes(m), CpuShares(m))
      BY <2>2, <2>3 DEF Drawable
    <2> QED
      BY <2>1, <2>4, ChartIsDrawable, ShownIsDrawable
  <1>2. IsDrawable(LoadGauge(m))
    <2> DEFINE cpus == IF m.numCPUs = 0 THEN 1 ELSE m.numCPUs
               share(load) == Least(Rounded(load, cpus, 1000), 2000)
               shares == [i \in DOMAIN m.loads |-> share(m.loads[i])]
    <2>1. m.numCPUs \in Nat /\ m.loads \in [1..3 -> Nat] \cup {<<>>}
      BY DEF Answers
    <2>2. cpus \in Nat
      BY <2>1
    <2>3. LoadGauge(m) = Shown(m.loads # <<>>, Chart(<<"1m", "5m", "15m">>, shares))
      BY DEF LoadGauge, Each
    <2> HIDE DEF cpus
    <2>4. CASE m.loads \in [1..3 -> Nat]
      <3>1. ASSUME NEW i \in 1..3 PROVE share(m.loads[i]) >= 0
        <4> DEFINE load == m.loads[i]
        <4>1. load \in Nat
          BY <2>4
        <4>2. 1000 \in Nat
          OBVIOUS
        <4> HIDE DEF load
        <4>3. Rounded(load, cpus, 1000) \in Nat
          BY ONLY <2>2, <4>1, <4>2, RoundedIs
        <4>4. share(load) >= 0
          BY <4>3 DEF Least
        <4> QED
          BY <4>4 DEF load
      <3> HIDE DEF share
      <3>2. DOMAIN <<"1m", "5m", "15m">> = 1..3
        OBVIOUS
      <3>3. Drawable(<<"1m", "5m", "15m">>, shares)
        BY <2>4, <3>1, <3>2 DEF Drawable
      <3> QED
        BY <2>3, <3>3, ChartIsDrawable, ShownIsDrawable
    <2>5. CASE m.loads = <<>>
      BY <2>3, <2>5, AlertIsDrawable DEF Shown
    <2> QED
      BY <2>1, <2>4, <2>5
  <1> QED
    BY <1>1, <1>2

LEMMA MemoryCharts ==
    ASSUME NEW m \in Answers["memory"]
    PROVE  IsDrawable(MemoryDonut(m)) /\ IsDrawable(SwapDonut(m))
  <1>1. /\ m.total \in Nat /\ m.available \in Nat /\ m.buffers \in Nat /\ m.cached \in Nat
        /\ m.swapTotal \in Nat /\ m.swapUsed \in Nat /\ m.swapFree \in Nat /\ m.available <= m.total
    BY DEF Answers
  <1> DEFINE used == m.total - m.available
             cache == m.buffers + m.cached
             active == Clamp(used - cache)
  <1>2. used \in Nat /\ cache \in Nat /\ active \in Nat
    BY <1>1 DEF Clamp
  <1>3. MemoryDonut(m) = Shown(m.total > 0,
            IF cache > 0 THEN Chart(<<"Active Used", "Buffers/Cache", "Available">>, <<active, cache, m.available>>)
            ELSE Chart(<<"Used", "Available">>, <<used, m.available>>))
    BY DEF MemoryDonut
  <1>4. SwapDonut(m) = Shown(m.swapTotal > 0, Chart(<<"Used", "Free">>, <<m.swapUsed, m.swapFree>>))
    BY DEF SwapDonut
  <1> HIDE DEF used, cache, active
  <1>5. /\ IsDrawable(Chart(<<"Active Used", "Buffers/Cache", "Available">>, <<active, cache, m.available>>))
        /\ IsDrawable(Chart(<<"Used", "Available">>, <<used, m.available>>))
        /\ IsDrawable(Chart(<<"Used", "Free">>, <<m.swapUsed, m.swapFree>>))
    BY <1>1, <1>2, FewAreDrawable
  <1> QED
    BY <1>3, <1>4, <1>5, AlertIsDrawable DEF Shown

LEMMA FilesystemCharts ==
    ASSUME NEW m \in Answers["filesystem"]
    PROVE  \A c \in Range(NodeFilesystemNetworkSection(m)) : IsDrawable(c)
  <1> DEFINE NetworkMetrics == [interface : STRING, received : Nat, sent : Nat]
             network == Bars(Each(LAMBDA n : n.interface, m.network),
                             Each(LAMBDA n : n.received, m.network), Each(LAMBDA n : n.sent, m.network))
  <1>1. m.filesystem \in Seq(FilesystemMetrics) /\ m.network \in Seq(NetworkMetrics)
    BY DEF Answers
  <1>2. ASSUME NEW i \in DOMAIN m.filesystem PROVE m.filesystem[i].used \in Nat /\ m.filesystem[i].available \in Nat
    <2>1. m.filesystem[i] \in FilesystemMetrics
      BY <1>1, ElementOf
    <2> QED
      BY <2>1 DEF FilesystemMetrics
  <1>3. ASSUME NEW i \in DOMAIN m.network PROVE m.network[i].received \in Nat /\ m.network[i].sent \in Nat
    <2> HIDE DEF NetworkMetrics
    <2>1. m.network[i] \in NetworkMetrics
      BY <1>1, ElementOf
    <2> QED
      BY <2>1 DEF NetworkMetrics
  <1>4. IsDrawable(FilesystemBars(m))
    BY <1>2, BarsAreDrawable DEF FilesystemBars, Each, Drawable
  <1>5. IsDrawable(network)
    BY <1>3, BarsAreDrawable DEF Each, Drawable
  <1>6. NodeFilesystemNetworkSection(m) = <<FilesystemBars(m), network>>
    BY DEF NodeFilesystemNetworkSection
  <1> HIDE DEF network
  <1> QED
    BY <1>4, <1>5, <1>6 DEF Range

LEMMA DiskCharts ==
    ASSUME NEW m \in Answers["disk"]
    PROVE  \A c \in Range(NodeDiskIOSection(m)) : IsDrawable(c)
  <1> DEFINE DiskMetrics == [device : STRING, readBytes : Nat, writtenBytes : Nat, reads : Nat, writes : Nat]
             devices == Each(LAMBDA d : d.device, m.diskIO)
             bytes == Bars(devices, Each(LAMBDA d : d.readBytes, m.diskIO), Each(LAMBDA d : d.writtenBytes, m.diskIO))
             operations == Bars(devices, Each(LAMBDA d : d.reads, m.diskIO), Each(LAMBDA d : d.writes, m.diskIO))
  <1>1. m.diskIO \in Seq(DiskMetrics)
    BY DEF Answers
  <1>2. ASSUME NEW i \in DOMAIN m.diskIO
        PROVE  /\ m.diskIO[i].readBytes \in Nat /\ m.diskIO[i].writtenBytes \in Nat
               /\ m.diskIO[i].reads \in Nat /\ m.diskIO[i].writes \in Nat
    <2> HIDE DEF DiskMetrics
    <2>1. m.diskIO[i] \in DiskMetrics
      BY <1>1, ElementOf
    <2> QED
      BY <2>1 DEF DiskMetrics
  <1>3. IsDrawable(bytes)
    BY <1>2, BarsAreDrawable DEF Each, Drawable
  <1>4. IsDrawable(operations)
    BY <1>2, BarsAreDrawable DEF Each, Drawable
  <1>5. NodeDiskIOSection(m) = <<bytes, operations>>
    BY DEF NodeDiskIOSection
  <1> HIDE DEF bytes, operations
  <1> QED
    BY <1>3, <1>4, <1>5 DEF Range

LEMMA SystemCharts ==
    ASSUME NEW m \in Answers["system"]
    PROVE  IsDrawable(NodeSystemSection(m).tcp) /\ IsDrawable(NodeSystemSection(m).fd)
  <1>1. m.alloc \in Nat /\ m.inuse \in Nat /\ m.timeWait \in Nat /\ m.fdAllocated \in Nat /\ m.fdPercent \in Nat
    BY DEF Answers
  <1> DEFINE free == Clamp(m.alloc - m.inuse - m.timeWait)
             tcp == Chart(<<"In Use", "Time Wait", "Free">>, <<m.inuse, m.timeWait, free>>)
             fd == Chart(<<"File Descriptors">>, <<m.fdPercent>>)
  <1>2. free \in Nat
    BY <1>1 DEF Clamp
  <1>3. NodeSystemSection(m) = [tcp |-> Shown(m.alloc > 0, tcp), fd |-> Shown(m.fdAllocated > 0, fd)]
    BY DEF NodeSystemSection, TcpDonut
  <1>4. IsDrawable(tcp) /\ IsDrawable(fd)
    <2> HIDE DEF free
    <2> QED
      BY <1>1, <1>2, FewAreDrawable
  <1> HIDE DEF tcp, fd
  <1> QED
    BY <1>3, <1>4, AlertIsDrawable DEF Shown

LEMMA ServiceCharts ==
    ASSUME NEW s \in Answers["service"], ~MixedLimits(s)
    PROVE  IsDrawable(ServiceDonut(s)) /\ IsDrawable(ContainerBars(s))
  <1>1. IsDrawable(ServiceDonut(s))
    <2> DEFINE used == TotalUsage(s)
               limit == TotalLimit(s)
    <2>1. used \in Nat /\ limit \in Nat /\ (limit > 0 => used <= limit)
      BY ServiceSums
    <2>2. ServiceDonut(s) = Shown(used > 0, IF limit > 0 THEN Chart(<<"Used", "Available">>, <<used, limit - used>>)
                                             ELSE Chart(<<"Used">>, <<used>>))
      BY DEF ServiceDonut
    <2> HIDE DEF used, limit
    <2>3. CASE limit > 0
      <3>1. limit - used \in Nat
        BY <2>1, <2>3
      <3>2. IsDrawable(Chart(<<"Used", "Available">>, <<used, limit - used>>))
        BY <2>1, <3>1, FewAreDrawable
      <3> QED
        BY <2>2, <2>3, <3>2, AlertIsDrawable DEF Shown
    <2>4. CASE ~(limit > 0)
      <3>1. IsDrawable(Chart(<<"Used">>, <<used>>))
        BY <2>1, FewAreDrawable
      <3> QED
        BY <2>2, <2>4, <3>1, AlertIsDrawable DEF Shown
    <2> QED
      BY <2>3, <2>4
  <1>2. IsDrawable(ContainerBars(s))
    <2> DEFINE L == Len(s.containers)
               free(c) == IF c.limit > 0 THEN c.limit - c.usage ELSE 0
               names == [i \in 1..L |-> s.containers[i].name]
               usages == [i \in 1..L |-> s.containers[i].usage]
               frees == [i \in 1..L |-> free(s.containers[i])]
    <2>1. L \in Nat /\ DOMAIN s.containers = 1..L /\ s.containers \in Seq(ContainerMetrics)
      BY DEF Answers
    <2>2. ASSUME NEW i \in 1..L PROVE s.containers[i].usage >= 0 /\ free(s.containers[i]) >= 0
      <3>1. s.containers[i] \in ContainerMetrics
        BY <2>1, ElementOf
      <3> QED
        BY <3>1 DEF ContainerMetrics
    <2>3. ContainerBars(s) = Bars(names, usages, frees)
      BY <2>1 DEF ContainerBars, Each
    <2> HIDE DEF free
    <2>4. Drawable(names, usages) /\ Drawable(names, frees)
      BY <2>2 DEF Drawable
    <2> QED
      BY <2>3, <2>4, BarsAreDrawable
  <1> QED
    BY <1>1, <1>2

AllDrawable(card) == \A j \in DOMAIN card : IsDrawable(card[j])

LEMMA TaskCardsAreDrawable ==
    ASSUME NEW m \in Answers["task"]
    PROVE  /\ TaskCards(m) \in Seq({TaskCards(m)[k] : k \in DOMAIN TaskCards(m)})
           /\ \A k \in DOMAIN TaskCards(m) : AllDrawable(TaskCards(m)[k])
  <1>1. /\ m.limit \in Nat /\ m.usage \in Nat /\ m.workingSet \in Nat /\ m.memoryCache \in Nat
        /\ m.usagePercent \in Nat /\ m.cpuPercent \in Nat /\ m.cpuUsage \in Nat /\ m.userSeconds \in Nat
        /\ m.systemSeconds \in Nat /\ m.rx \in Nat /\ m.tx \in Nat /\ m.fsUsage \in Nat /\ m.fsLimit \in Nat
    BY DEF Answers
  <1>2. IsDrawable(TaskMemoryDonut(m))
    <2> DEFINE other == Clamp(m.usage - m.workingSet - m.memoryCache)
               available == IF m.limit > 0 THEN Clamp(m.limit - m.usage) ELSE 0
    <2>1. other \in Nat /\ available \in Nat
      BY <1>1 DEF Clamp
    <2>2. TaskMemoryDonut(m) =
              IF m.limit > 0
              THEN Chart(<<"Working Set", "Cache", "Other Used", "Available">>, <<m.workingSet, m.memoryCache, other, available>>)
              ELSE Chart(<<"Working Set", "Cache", "Other Used">>, <<m.workingSet, m.memoryCache, other>>)
      BY DEF TaskMemoryDonut, calculateMemoryMetrics
    <2> HIDE DEF other, available
    <2>3. /\ IsDrawable(Chart(<<"Working Set", "Cache", "Other Used", "Available">>, <<m.workingSet, m.memoryCache, other, available>>))
          /\ IsDrawable(Chart(<<"Working Set", "Cache", "Other Used">>, <<m.workingSet, m.memoryCache, other>>))
      BY <1>1, <2>1, FewAreDrawable
    <2> QED
      BY <2>2, <2>3
  <1>3. IsDrawable(MemoryGauge(m))
    <2> DEFINE shown == IF m.limit > 0 THEN m.usagePercent ELSE 0
    <2>1. shown \in Nat /\ MemoryGauge(m) = Chart(<<"Memory">>, <<shown>>)
      BY <1>1 DEF MemoryGauge
    <2> HIDE DEF shown
    <2> QED
      BY <2>1, FewAreDrawable
  <1>4. IsDrawable(CpuGauge(m))
    <2> DEFINE label == IF m.cpuPercent > 0 THEN "CPU Quota" ELSE "CPU Time"
               shown == IF m.cpuPercent > 0 THEN Least(m.cpuPercent, 100) ELSE 0
    <2>1. shown \in Nat
      BY <1>1 DEF Least
    <2>2. CpuGauge(m) = Chart(<<label>>, <<shown>>)
      BY DEF CpuGauge
    <2> HIDE DEF label, shown
    <2> QED
      BY <2>1, <2>2, FewAreDrawable
  <1>5. IsDrawable(CpuPie(m)) /\ IsDrawable(buildNetworkChart(m))
    BY <1>1, FewAreDrawable DEF CpuPie, buildNetworkChart
  <1>6. IsDrawable(buildFSChart(m))
    <2> DEFINE free == Clamp(m.fsLimit - m.fsUsage)
    <2>1. free \in Nat
      BY <1>1 DEF Clamp
    <2>2. buildFSChart(m) = IF m.fsLimit > 0 THEN Chart(<<"Used", "Available">>, <<m.fsUsage, free>>)
                            ELSE Chart(<<"Used">>, <<m.fsUsage>>)
      BY DEF buildFSChart
    <2> HIDE DEF free
    <2>3. IsDrawable(Chart(<<"Used", "Available">>, <<m.fsUsage, free>>)) /\ IsDrawable(Chart(<<"Used">>, <<m.fsUsage>>))
      BY <1>1, <2>1, FewAreDrawable
    <2> QED
      BY <2>2, <2>3
  <1> DEFINE Card == {<<>>, <<MemoryGauge(m), TaskMemoryDonut(m)>>, <<CpuGauge(m), CpuPie(m)>>, <<CpuGauge(m)>>,
                      <<buildNetworkChart(m)>>, <<buildFSChart(m)>>}
  <1>7. \A card \in Card : AllDrawable(card)
    BY <1>2, <1>3, <1>4, <1>5, <1>6 DEF AllDrawable
  <1>8. TaskCards(m) \in Seq(Card)
    <2> DEFINE cpu == m.cpuUsage > 0 \/ m.userSeconds > 0 \/ m.systemSeconds > 0
               first == IF m.usage > 0 \/ m.workingSet > 0 THEN <<MemoryGauge(m), TaskMemoryDonut(m)>> ELSE <<>>
               second == IF ~cpu THEN <<>>
                         ELSE IF m.userSeconds + m.systemSeconds > 0 THEN <<CpuGauge(m), CpuPie(m)>> ELSE <<CpuGauge(m)>>
               third == IF m.rx + m.tx > 0 THEN << <<buildNetworkChart(m)>> >> ELSE <<>>
               fourth == IF m.fsUsage > 0 THEN << <<buildFSChart(m)>> >> ELSE <<>>
    <2>1. TaskCards(m) = <<first, second>> \o third \o fourth
      BY DEF TaskCards
    <2>2. first \in Card /\ second \in Card
      OBVIOUS
    <2>3. third \in Seq(Card)
      <3>1. <<buildNetworkChart(m)>> \in Card
        OBVIOUS
      <3> HIDE DEF Card
      <3> QED
        BY <3>1
    <2>4. fourth \in Seq(Card)
      <3>1. <<buildFSChart(m)>> \in Card
        OBVIOUS
      <3> HIDE DEF Card
      <3> QED
        BY <3>1
    <2> HIDE DEF Card, first, second, third, fourth
    <2> QED
      BY <2>1, <2>2, <2>3, <2>4
  <1> HIDE DEF Card
  <1>9. \A k \in DOMAIN TaskCards(m) : TaskCards(m)[k] \in Card
    BY <1>8, ElementOf
  <1>10. TaskCards(m) \in Seq({TaskCards(m)[k] : k \in DOMAIN TaskCards(m)})
    BY <1>8
  <1> QED
    BY <1>7, <1>9, <1>10

\* Pairing adds no card.
LEMMA PairsAreCards ==
    ASSUME NEW T, NEW cards \in Seq(T), NEW row \in Range(pairChildren(cards)), NEW card \in Range(row)
    PROVE  \E k \in DOMAIN cards : card = cards[k]
  <1> DEFINE L == Len(cards)
  <1>1. L \in Nat
    OBVIOUS
  <1>2. PICK i \in 1..((L + 1) \div 2) : row = SubSeq(cards, 2 * i - 1, Least(2 * i, L))
    BY DEF pairChildren, Range
  <1> DEFINE from == 2 * i - 1
             to == Least(2 * i, L)
  <1>3. from \in 1..L /\ to \in 1..L
    <2>1. 2 * ((L + 1) \div 2) <= L + 1
      BY <1>1
    <2> QED
      BY <1>1, <2>1 DEF Least
  <1> HIDE DEF from, to
  <1>4. row = SubSeq(cards, from, to)
    BY <1>2 DEF from, to
  <1>5. PICK j \in DOMAIN row : card = row[j]
    BY DEF Range
  <1>6. j \in 1..(to - from + 1) /\ row[j] = cards[from + j - 1]
    BY <1>3, <1>4, <1>5
  <1>7. from + j - 1 \in DOMAIN cards
    BY <1>3, <1>6
  <1> QED
    BY <1>5, <1>6, <1>7

LEMMA TaskCharts ==
    ASSUME NEW m \in Answers["task"],
           NEW row \in Range(pairChildren(TaskCards(m))), NEW card \in Range(row), NEW c \in Range(card)
    PROVE  IsDrawable(c)
  <1>1. PICK k \in DOMAIN TaskCards(m) : card = TaskCards(m)[k]
    BY TaskCardsAreDrawable, PairsAreCards
  <1>2. AllDrawable(card)
    BY <1>1, TaskCardsAreDrawable
  <1> QED
    BY <1>2 DEF AllDrawable, Range

\* No answer makes a chart that cannot be drawn, but for services that mix
\* containers with and without a limit.
THEOREM ChartsAreDrawableHolds == Spec => []ChartsAreDrawable
  <1>1. ASSUME Measured PROVE ChartsAreDrawable
    <2> DEFINE m == sample.m
    <2>0. m \in Answers[sample.for] /\ sample.for \in DOMAIN Answers
      BY <1>1 DEF Measured
    <2> SUFFICES ASSUME NEW c \in Charts, ~(sample.for = "service" /\ MixedLimits(m))
                 PROVE  IsDrawable(c)
      BY DEF ChartsAreDrawable, IsDrawable
    <2>1. CASE sample.for = "cpu"
      <3>1. c \in {CpuDonut(m), LoadGauge(m)}
        BY <2>1 DEF Charts
      <3> QED
        BY <2>0, <2>1, <3>1, CpuCharts
    <2>2. CASE sample.for = "memory"
      <3>1. c \in {MemoryDonut(m), SwapDonut(m)}
        BY <2>2 DEF Charts
      <3> QED
        BY <2>0, <2>2, <3>1, MemoryCharts
    <2>3. CASE sample.for = "filesystem"
      <3>1. c \in Range(NodeFilesystemNetworkSection(m))
        BY <2>3 DEF Charts
      <3> QED
        BY <2>0, <2>3, <3>1, FilesystemCharts
    <2>4. CASE sample.for = "disk"
      <3>1. c \in Range(NodeDiskIOSection(m))
        BY <2>4 DEF Charts
      <3> QED
        BY <2>0, <2>4, <3>1, DiskCharts
    <2>5. CASE sample.for = "system"
      <3>1. c \in {NodeSystemSection(m).tcp, NodeSystemSection(m).fd}
        BY <2>5 DEF Charts
      <3> QED
        BY <2>0, <2>5, <3>1, SystemCharts
    <2>6. CASE sample.for = "service"
      <3>1. c \in {ServiceDonut(m), ContainerBars(m)}
        BY <2>6 DEF Charts
      <3> QED
        BY <2>0, <2>6, <3>1, ServiceCharts
    <2>7. CASE sample.for = "task"
      <3>1. PICK card \in UNION {Range(row) : row \in Range(pairChildren(TaskCards(m)))} : c \in Range(card)
        BY <2>7 DEF Charts
      <3>2. PICK row \in Range(pairChildren(TaskCards(m))) : card \in Range(row)
        BY <3>1
      <3> QED
        BY <2>0, <2>7, <3>1, <3>2, TaskCharts
    <2>8. CASE sample.for = "percent"
      BY <2>8 DEF Charts
    <2>9. sample.for \in {"cpu", "memory", "filesystem", "disk", "system", "service", "task", "percent"}
      BY <2>0 DEF Answers
    <2> QED
      BY <2>1, <2>2, <2>3, <2>4, <2>5, <2>6, <2>7, <2>8, <2>9
  <1> QED
    BY <1>1, AlwaysMeasured, PTL
=============================================================================
