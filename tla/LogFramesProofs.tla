-------------------------- MODULE LogFramesProofs --------------------------
(***************************************************************************)
(* What becomes of the bytes of a log response: theorems for every         *)
(* response, of any number of frames of any length, and every buffer.      *)
(***************************************************************************)
EXTENDS LogFrames, SequenceTheorems, WellFoundedInduction, TLAPS

-----------------------------------------------------------------------------
(* Recursion and induction on numbers.                                      *)

LEMMA LeastNumber ==
    ASSUME NEW T \in SUBSET Nat, T # {}
    PROVE  \E n \in T : \A k \in T : n <= k
  <1>1. PICK n \in T : \A k \in T : ~(<<k, n>> \in OpToRel(<, Nat))
    BY NatLessThanWellFounded, WFMin
  <1>2. \A k \in T : ~(k < n)
    BY <1>1 DEF OpToRel
  <1> QED
    BY <1>2

\* What holds of zero and of the successor of a number holds up to any number.
LEMMA UpTo ==
    ASSUME NEW L \in Nat, NEW G, 0 \in G, \A i \in 0..L : i \in G /\ i < L => i + 1 \in G
    PROVE  \A i \in 0..L : i \in G
  <1> DEFINE Bad == {i \in 0..L : i \notin G}
  <1>1. ASSUME Bad # {} PROVE FALSE
    <2>a. Bad \in SUBSET Nat
      OBVIOUS
    <2>1. PICK m \in Bad : \A k \in Bad : m <= k
      BY <1>1, <2>a, LeastNumber
    <2>2. m # 0 /\ m - 1 \in 0..L /\ m - 1 < L /\ m - 1 \notin Bad
      BY <2>1
    <2>3. m - 1 \in G
      BY <2>2
    <2>4. (m - 1) + 1 \in G
      BY <2>2, <2>3
    <2> QED
      BY <2>1, <2>4
  <1> QED
    BY <1>1

LEMMA NextIndex ==
    ASSUME NEW L \in Nat, NEW i \in 0..L, i < L
    PROVE  i + 1 \in 1..L /\ i + 1 \in 0..L /\ (i + 1) - 1 = i /\ i + 1 # 0
  OBVIOUS

\* step[<<i, f>>] is the value at i, computed from f's values at smaller arguments.
Recursive(D, V, step) ==
    /\ step \in [D \X [D -> V] -> V]
    /\ \A i \in D : \A f, g \in [D -> V] :
           (\A j \in D : j < i => f[j] = g[j]) => step[<<i, f>>] = step[<<i, g>>]

Solves(D, V, step, f) == f \in [D -> V] /\ \A i \in D : f[i] = step[<<i, f>>]

LEMMA RecursionExists ==
    ASSUME NEW L \in Nat, NEW D \in SUBSET (0..L), NEW V, NEW v \in V,
           NEW step, Recursive(D, V, step)
    PROVE  \E f : Solves(D, V, step, f)
  <1> USE DEF Recursive, Solves
  <1> DEFINE Good(m) == \E f \in [D -> V] : \A i \in D : i < m => f[i] = step[<<i, f>>]
             G == {m \in 0..(L + 1) : Good(m)}
  <1>a. \A i \in D : i \in 0..L
    OBVIOUS
  <1>1. 0 \in G
    <2>1. [i \in D |-> v] \in [D -> V]
      OBVIOUS
    <2>2. \A i \in D : ~(i < 0)
      BY <1>a
    <2>3. Good(0)
      BY <2>1, <2>2
    <2> QED
      BY <2>3
  <1>2. ASSUME NEW m \in 0..(L + 1), m \in G, m < L + 1 PROVE m + 1 \in G
    <2>1. PICK f \in [D -> V] : \A i \in D : i < m => f[i] = step[<<i, f>>]
      BY <1>2
    <2>2. CASE m \notin D
      <3>1. \A i \in D : i < m + 1 => i < m
        BY <2>2
      <3> QED
        BY <1>2, <2>1, <3>1
    <2>3. CASE m \in D
      <3> DEFINE g == [f EXCEPT ![m] = step[<<m, f>>]]
      <3>1. step[<<m, f>>] \in V
        BY <2>3
      <3>2. g \in [D -> V] /\ g[m] = step[<<m, f>>] /\ \A j \in D : j # m => g[j] = f[j]
        BY <2>3, <3>1
      <3> HIDE DEF g
      <3>3. ASSUME NEW i \in D, i < m + 1 PROVE g[i] = step[<<i, g>>]
        <4>1. \A j \in D : j < i => f[j] = g[j]
          BY <1>a, <3>2, <3>3
        <4>2. step[<<i, f>>] = step[<<i, g>>]
          BY <3>2, <4>1
        <4>3. CASE i = m
          BY <3>2, <4>2, <4>3
        <4>4. CASE i # m
          <5>1. i < m
            BY <3>3, <4>4
          <5> QED
            BY <2>1, <3>2, <4>2, <4>4, <5>1
        <4> QED
          BY <4>3, <4>4
      <3> QED
        BY <1>2, <3>2, <3>3
    <2> QED
      BY <2>2, <2>3
  <1>3. L + 1 \in G
    <2> HIDE DEF G
    <2> DEFINE M == L + 1
    <2>1. M \in Nat /\ \A m \in 0..M : m \in G /\ m < M => m + 1 \in G
      BY <1>2
    <2> HIDE DEF M
    <2>2. \A m \in 0..M : m \in G
      BY <1>1, <2>1, UpTo
    <2> QED
      BY <2>1, <2>2 DEF M
  <1> QED
    BY <1>3

-----------------------------------------------------------------------------
(* FlattenSeq.                                                              *)

\* What the first i sequences of s are together.
Flattens(S, s, f) ==
    /\ f \in [0..Len(s) -> Seq(S)]
    /\ f[0] = <<>>
    /\ \A i \in 1..Len(s) : f[i] = f[i - 1] \o s[i]

LEMMA FlattenIs ==
    ASSUME NEW S, NEW s \in Seq(Seq(S))
    PROVE  \E f : Flattens(S, s, f) /\ FlattenSeq(s) = f[Len(s)]
  <1> DEFINE L == Len(s)
             V == Seq(S)
             D == 1..L
  <1>1. L \in Nat /\ (\A i \in D : s[i] \in V) /\ <<>> \in V
    OBVIOUS
  <1>2. CASE L = 0
    <2> DEFINE f == [i \in 0..0 |-> <<>>]
    <2>1. FlattenSeq(s) = s /\ s = <<>>
      BY <1>2 DEF FlattenSeq
    <2>2. f \in [0..Len(s) -> Seq(S)] /\ f[0] = <<>>
      BY <1>2
    <2>3. \A i \in 1..Len(s) : FALSE
      BY <1>2
    <2> HIDE DEF f
    <2>4. Flattens(S, s, f)
      BY <2>2, <2>3 DEF Flattens
    <2>5. FlattenSeq(s) = f[Len(s)]
      BY <1>2, <2>1, <2>2
    <2> QED
      BY <2>4, <2>5
  <1>3. CASE L # 0
    <2> DEFINE flatten == CHOOSE f : f = [i \in 1..L |-> IF i = 1 THEN s[i] ELSE f[i - 1] \o s[i]]
    <2>1. FlattenSeq(s) = flatten[L]
      BY <1>3, Zenon DEF FlattenSeq
    <2> DEFINE step == [x \in D \X [D -> V] |->
                            IF x[1] = 1 THEN s[1] ELSE x[2][x[1] - 1] \o s[x[1]]]
    <2>2. ASSUME NEW i \in D, NEW f \in [D -> V]
          PROVE  step[<<i, f>>] = (IF i = 1 THEN s[i] ELSE f[i - 1] \o s[i]) /\ step[<<i, f>>] \in V
      <3>1. step[<<i, f>>] = IF i = 1 THEN s[i] ELSE f[i - 1] \o s[i]
        <4> DEFINE x == <<i, f>>
                   value(y) == IF y[1] = 1 THEN s[1] ELSE y[2][y[1] - 1] \o s[y[1]]
        <4>1. x \in D \X [D -> V] /\ x[1] = i /\ x[2] = f
          OBVIOUS
        <4>2. step[x] = value(x)
          <5>1. step = [y \in D \X [D -> V] |-> value(y)]
            OBVIOUS
          <5> HIDE DEF D, V, x, step, value
          <5> QED
            BY ONLY <4>1, <5>1
        <4> HIDE DEF step, D, V, L
        <4> QED
          BY <4>1, <4>2
      <3>2. s[i] \in V
        <4> HIDE DEF L, V
        <4> QED
          BY <1>1
      <3>3. CASE i # 1
        <4>1. i - 1 \in D
          BY <1>1, <3>3
        <4>2. f[i - 1] \in V
          BY <4>1
        <4>3. f[i - 1] \o s[i] \in V
          BY <3>2, <4>2, ConcatProperties
        <4> QED
          BY <3>1, <3>3, <4>3
      <3> QED
        <4> HIDE DEF step, V
        <4> QED
          BY <3>1, <3>2, <3>3
    <2>3. step \in [D \X [D -> V] -> V]
      BY <2>2
    <2>4. \A i \in D : \A f, g \in [D -> V] :
              (\A j \in D : j < i => f[j] = g[j]) => step[<<i, f>>] = step[<<i, g>>]
      <3>1. TAKE i \in D
      <3>2. TAKE f, g \in [D -> V]
      <3>3. HAVE \A j \in D : j < i => f[j] = g[j]
      <3>4. i # 1 => i - 1 \in D /\ i - 1 < i
        BY <1>1
      <3> QED
        BY <2>2, <3>3, <3>4
    <2> HIDE DEF step
    <2>5. PICK g : Solves(D, V, step, g)
      <3>1. D \in SUBSET (0..L) /\ <<>> \in V /\ L \in Nat
        BY <1>1
      <3>2. Recursive(D, V, step)
        BY <2>3, <2>4 DEF Recursive
      <3> HIDE DEF D, L, V
      <3> QED
        BY <3>1, <3>2, RecursionExists, Zenon
    <2>6. g = [i \in 1..L |-> IF i = 1 THEN s[i] ELSE g[i - 1] \o s[i]]
      <3>1. g \in [D -> V] /\ \A i \in D : g[i] = step[<<i, g>>]
        BY <2>5, Zenon DEF Solves
      <3>2. ASSUME NEW i \in D PROVE g[i] = IF i = 1 THEN s[i] ELSE g[i - 1] \o s[i]
        <4>1. step[<<i, g>>] = IF i = 1 THEN s[i] ELSE g[i - 1] \o s[i]
          BY <2>2, <3>1, Zenon
        <4> QED
          BY <3>1, <4>1, Zenon
      <3>3. ASSUME NEW i \in D PROVE (i = 1 => s[i] = s[1])
        OBVIOUS
      <3> HIDE DEF V
      <3> QED
        BY ONLY <3>1, <3>2
    <2>7. flatten = [i \in 1..L |-> IF i = 1 THEN s[i] ELSE flatten[i - 1] \o s[i]]
      BY <2>6, Zenon
    <2> HIDE DEF flatten
    <2> DEFINE f == [i \in 0..L |-> IF i = 0 THEN <<>> ELSE flatten[i]]
               G == {i \in 0..L : f[i] \in V /\ (i # 0 => f[i] = f[i - 1] \o s[i])}
    <2>8. 0 \in G
      BY <1>1
    <2>9. ASSUME NEW i \in 0..L, i \in G, i < L PROVE i + 1 \in G
      <3>1. i + 1 \in D /\ s[i + 1] \in V /\ f[i] \in V /\ f[i + 1] = flatten[i + 1]
        BY <1>1, <2>9
      <3>a. i + 1 \in 0..L /\ (i + 1) - 1 = i /\ i + 1 # 0
        BY <1>1, <2>9, NextIndex
      <3>2. flatten[i + 1] = IF i + 1 = 1 THEN s[i + 1] ELSE flatten[(i + 1) - 1] \o s[i + 1]
        BY <2>7, <3>1, Zenon
      <3>3. CASE i = 0
        <4>1. f[i + 1] = s[i + 1] /\ f[i] = <<>>
          BY <1>1, <3>1, <3>2, <3>3
        <4>2. f[i] \o s[i + 1] = s[i + 1]
          BY <3>1, <4>1, ConcatEmptySeq
        <4> QED
          BY <3>1, <3>a, <4>1, <4>2
      <3>4. CASE i # 0
        <4>1. f[i + 1] = f[i] \o s[i + 1]
          <5>1. i + 1 # 1 /\ f[i] = flatten[i]
            BY <3>4
          <5> QED
            BY <3>1, <3>2, <3>a, <5>1
        <4>2. f[i] \o s[i + 1] \in V
          BY <3>1, ConcatProperties
        <4> QED
          BY <3>a, <4>1, <4>2
      <3> QED
        BY <3>3, <3>4
    <2>10. \A i \in 0..L : i \in G
      <3> HIDE DEF G, L
      <3> QED
        BY <1>1, <2>8, <2>9, UpTo
    <2>11. f \in [0..L -> V] /\ f[0] = <<>> /\ \A i \in 1..L : f[i] = f[i - 1] \o s[i]
      <3>1. \A i \in 0..L : f[i] \in V /\ (i # 0 => f[i] = f[i - 1] \o s[i])
        BY <2>10
      <3>2. 0 \in 0..L /\ \A i \in 1..L : i \in 0..L /\ i # 0
        BY <1>1
      <3> QED
        BY <3>1, <3>2
    <2>12. f[L] = FlattenSeq(s)
      BY <1>1, <1>3, <2>1
    <2> QED
      BY <2>11, <2>12 DEF Flattens
  <1> QED
    BY <1>2, <1>3

LEMMA FlattenOf ==
    ASSUME NEW S, NEW s \in Seq(Seq(S)), NEW f, Flattens(S, s, f)
    PROVE  FlattenSeq(s) = f[Len(s)] /\ FlattenSeq(s) \in Seq(S)
  <1> DEFINE L == Len(s)
  <1>1. PICK g : Flattens(S, s, g) /\ FlattenSeq(s) = g[L]
    BY FlattenIs
  <1>2. L \in Nat
    OBVIOUS
  <1> DEFINE G == {i \in 0..L : f[i] = g[i]}
  <1>3. 0 \in G
    BY <1>1, <1>2 DEF Flattens
  <1>4. ASSUME NEW i \in 0..L, i \in G, i < L PROVE i + 1 \in G
    <2>1. i + 1 \in 1..L /\ (i + 1) - 1 = i /\ i + 1 \in 0..L
      BY <1>2, <1>4, NextIndex
    <2>2. f[i + 1] = f[i] \o s[i + 1] /\ g[i + 1] = g[i] \o s[i + 1]
      BY <1>1, <2>1 DEF Flattens
    <2> QED
      BY <1>4, <2>1, <2>2
  <1>5. \A i \in 0..L : i \in G
    <2> HIDE DEF G, L
    <2> QED
      BY <1>2, <1>3, <1>4, UpTo
  <1>6. L \in 0..L
    BY <1>2
  <1> QED
    BY <1>1, <1>5, <1>6 DEF Flattens

LEMMA FlattenCons ==
    ASSUME NEW S, NEW s \in Seq(Seq(S)), Len(s) > 0
    PROVE  FlattenSeq(s) = s[1] \o FlattenSeq(Tail(s)) /\ FlattenSeq(s) \in Seq(S)
  <1> DEFINE t == Tail(s)
             L == Len(t)
  <1>1. /\ t \in Seq(Seq(S)) /\ L \in Nat /\ Len(s) = L + 1
        /\ \A i \in 1..L : t[i] = s[i + 1]
        /\ \A i \in 1..(L + 1) : s[i] \in Seq(S)
    <2>1. s # <<>> /\ Len(s) \in Nat
      OBVIOUS
    <2>2. t \in Seq(Seq(S)) /\ L = Len(s) - 1 /\ \A i \in 1..L : t[i] = s[i + 1]
      BY <2>1, HeadTailProperties
    <2>3. Len(s) = L + 1 /\ L \in Nat
      BY <2>1, <2>2
    <2>4. \A i \in 1..Len(s) : s[i] \in Seq(S)
      OBVIOUS
    <2> QED
      BY <2>2, <2>3, <2>4
  <1> HIDE DEF t
  <1>2. PICK f : Flattens(S, t, f) /\ FlattenSeq(t) = f[L]
    BY <1>1, FlattenIs
  <1> HIDE DEF L
  <1>3. f \in [0..L -> Seq(S)] /\ f[0] = <<>> /\ \A i \in 1..L : f[i] = f[i - 1] \o t[i]
    BY <1>2 DEF Flattens, L
  <1> DEFINE h == [i \in 0..(L + 1) |-> IF i = 0 THEN <<>> ELSE s[1] \o f[i - 1]]
  <1>a. s[1] \in Seq(S)
    BY <1>1
  <1>4. h \in [0..(L + 1) -> Seq(S)]
    <2>1. ASSUME NEW i \in 0..(L + 1) PROVE h[i] \in Seq(S)
      <3>1. CASE i # 0
        <4>1. f[i - 1] \in Seq(S)
          BY <1>1, <1>3, <3>1
        <4>2. s[1] \o f[i - 1] \in Seq(S)
          BY <1>a, <4>1, ConcatProperties
        <4> QED
          BY <3>1, <4>2
      <3> QED
        BY <3>1
    <2> QED
      BY <2>1
  <1>5. h[0] = <<>> /\ h[L + 1] = s[1] \o f[L]
    <2>1. 0 \in 0..(L + 1) /\ L + 1 \in 0..(L + 1) /\ L + 1 # 0 /\ (L + 1) - 1 = L
      BY <1>1
    <2> QED
      BY <2>1
  <1>6. ASSUME NEW i \in 1..(L + 1) PROVE h[i] = h[i - 1] \o s[i]
    <2>1. CASE i = 1
      <3>1. i \in 0..(L + 1) /\ i # 0 /\ i - 1 = 0
        BY <1>1, <2>1
      <3>2. h[i] = s[1] \o f[i - 1] /\ f[i - 1] = <<>> /\ h[i - 1] = <<>>
        BY <1>3, <1>5, <3>1
      <3>3. s[1] \o <<>> = s[1] /\ <<>> \o s[1] = s[1]
        BY <1>a, ConcatEmptySeq
      <3> HIDE DEF h
      <3> QED
        BY <2>1, <3>2, <3>3
    <2>2. CASE i # 1
      <3> DEFINE j == i - 1
      <3>1. j \in 1..L /\ j - 1 \in 0..L /\ j # 0 /\ i = j + 1 /\ j \in 0..(L + 1) /\ i # 0
           /\ i \in 0..(L + 1) /\ j = i - 1
        BY <1>1, <2>2
      <3> HIDE DEF j
      <3>2. f[j] = f[j - 1] \o t[j] /\ t[j] = s[i] /\ f[j - 1] \in Seq(S) /\ t[j] \in Seq(S)
        BY <1>1, <1>3, <3>1
      <3>3. h[i] = s[1] \o f[j] /\ h[j] = s[1] \o f[j - 1]
        BY <3>1
      <3>4. ASSUME NEW u \in Seq(S), NEW v \in Seq(S), NEW w \in Seq(S) PROVE (u \o v) \o w = u \o (v \o w)
        BY ONLY u \in Seq(S), v \in Seq(S), w \in Seq(S), SMT
      <3> HIDE DEF h
      <3>5. s[1] \o (f[j - 1] \o t[j]) = (s[1] \o f[j - 1]) \o t[j]
        BY <1>a, <3>2, <3>4
      <3>6. h[i - 1] = h[j]
        BY <3>1
      <3> QED
        BY <3>2, <3>3, <3>5, <3>6, Zenon
    <2> QED
      BY <2>1, <2>2
  <1> HIDE DEF h
  <1>7. Flattens(S, s, h)
    BY <1>1, <1>4, <1>5, <1>6 DEF Flattens
  <1>8. FlattenSeq(s) = h[Len(s)] /\ FlattenSeq(s) \in Seq(S)
    BY <1>7, FlattenOf
  <1> QED
    BY <1>1, <1>2, <1>5, <1>8 DEF t

LEMMA FlattenAppend ==
    ASSUME NEW S, NEW s \in Seq(Seq(S)), NEW x \in Seq(S)
    PROVE  FlattenSeq(Append(s, x)) = FlattenSeq(s) \o x
  <1> DEFINE L == Len(s)
             t == Append(s, x)
  <1>1. /\ L \in Nat /\ t \in Seq(Seq(S)) /\ Len(t) = L + 1 /\ t[L + 1] = x
        /\ \A i \in 1..L : t[i] = s[i]
    BY AppendProperties
  <1> HIDE DEF t
  <1>2. PICK f : Flattens(S, s, f) /\ FlattenSeq(s) = f[L]
    BY FlattenIs
  <1> HIDE DEF L
  <1>3. f \in [0..L -> Seq(S)] /\ f[0] = <<>> /\ \A i \in 1..L : f[i] = f[i - 1] \o s[i]
    BY <1>2 DEF Flattens, L
  <1> DEFINE h == [i \in 0..(L + 1) |-> IF i = L + 1 THEN f[L] \o x ELSE f[i]]
  <1>4. f[L] \in Seq(S) /\ f[L] \o x \in Seq(S)
    <2>1. f[L] \in Seq(S)
      BY <1>1, <1>3
    <2> QED
      BY <2>1, ConcatProperties
  <1>5. h \in [0..(L + 1) -> Seq(S)] /\ h[0] = <<>> /\ h[L + 1] = f[L] \o x
    <2>1. \A i \in 0..(L + 1) : i # L + 1 => i \in 0..L
      BY <1>1
    <2>2. \A i \in 0..(L + 1) : h[i] \in Seq(S)
      BY <1>3, <1>4, <2>1
    <2>3. 0 \in 0..(L + 1) /\ 0 # L + 1 /\ L + 1 \in 0..(L + 1)
      BY <1>1
    <2> QED
      BY <1>3, <2>2, <2>3
  <1>6. ASSUME NEW i \in 1..(L + 1) PROVE h[i] = h[i - 1] \o t[i]
    <2>1. i - 1 \in 0..L /\ i - 1 # L + 1 /\ i - 1 \in 0..(L + 1) /\ i \in 0..(L + 1)
      BY <1>1
    <2>2. h[i - 1] = f[i - 1]
      BY <2>1
    <2>3. CASE i = L + 1
      <3>1. i - 1 = L
        BY <1>1, <2>3
      <3> QED
        BY <1>1, <1>5, <2>2, <2>3, <3>1
    <2>4. CASE i # L + 1
      <3>1. i \in 1..L
        BY <1>1, <2>4
      <3> QED
        BY <1>1, <1>3, <2>1, <2>2, <2>4, <3>1
    <2> QED
      BY <2>3, <2>4
  <1> HIDE DEF h
  <1>7. Flattens(S, t, h)
    BY <1>1, <1>5, <1>6 DEF Flattens
  <1>8. FlattenSeq(t) = h[Len(t)]
    BY <1>1, <1>7, FlattenOf
  <1> QED
    BY <1>1, <1>2, <1>5, <1>8 DEF t

-----------------------------------------------------------------------------
(* bytes.Split.                                                             *)

Bytes == Seq(Nat)
Texts == Seq(Bytes)

\* The lines of the bytes up to the i-th, given those of the bytes before it.
Longer(b, i, before) ==
    IF b[i] = NL THEN before
    ELSE IF i = 1 \/ b[i - 1] = NL THEN Append(before, <<b[i]>>)
    ELSE Append(Front(before), Append(Last(before), b[i]))

Splits(b, f) ==
    /\ f \in [0..Len(b) -> Texts]
    /\ f[0] = <<>>
    /\ \A i \in 1..Len(b) : f[i] = Longer(b, i, f[i - 1])

LEMMA LongerIsText ==
    ASSUME NEW b \in Bytes, NEW i \in 1..Len(b), NEW before \in Texts,
           b[i] # NL /\ i # 1 => b[i - 1] = NL \/ before # <<>>
    PROVE  /\ Longer(b, i, before) \in Texts
           /\ b[i] # NL => Longer(b, i, before) # <<>>
  <1>1. b[i] \in Nat /\ <<b[i]>> \in Bytes
    BY DEF Bytes
  <1>2. CASE b[i] = NL
    BY <1>2 DEF Longer
  <1>3. CASE b[i] # NL /\ (i = 1 \/ b[i - 1] = NL)
    <2>1. Append(before, <<b[i]>>) \in Texts /\ Append(before, <<b[i]>>) # <<>>
      BY <1>1, AppendProperties DEF Texts
    <2> QED
      BY <1>3, <2>1 DEF Longer
  <1>4. CASE b[i] # NL /\ ~(i = 1 \/ b[i - 1] = NL)
    <2>1. before # <<>>
      BY <1>4
    <2> DEFINE m == Len(before)
               front == Front(before)
               last == Append(Last(before), b[i])
    <2>2. m \in Nat \ {0} /\ \A k \in 1..m : before[k] \in Bytes
      BY <2>1 DEF Texts
    <2>3. last \in Bytes
      BY <1>1, <2>2, AppendProperties DEF Last, Bytes
    <2>4. front \in Texts
      <3>1. 1 \in Int /\ m - 1 \in Int /\ \A k \in 1..(m - 1) : before[k] \in Bytes
        BY <2>2
      <3> QED
        BY <3>1, SubSeqProperties DEF Front, Texts
    <2> HIDE DEF front, last
    <2>5. Append(front, last) \in Texts /\ Append(front, last) # <<>>
      BY <2>3, <2>4, AppendProperties DEF Texts
    <2>6. Longer(b, i, before) = Append(front, last)
      BY <1>4 DEF Longer, front, last
    <2> QED
      BY <2>5, <2>6
  <1> QED
    BY <1>2, <1>3, <1>4

LEMMA NonEmptyLinesIs ==
    ASSUME NEW b \in Bytes
    PROVE  \E f : Splits(b, f) /\ NonEmptyLines(b) = f[Len(b)]
  <1> DEFINE L == Len(b)
             D == 0..L
             V == Texts
             lines == CHOOSE f : f = [i \in 0..Len(b) |->
                          IF i = 0 THEN <<>>
                          ELSE LET before == f[i - 1]
                               IN  IF b[i] = NL THEN before
                                   ELSE IF i = 1 \/ b[i - 1] = NL THEN Append(before, <<b[i]>>)
                                   ELSE Append(Front(before), Append(Last(before), b[i]))]
             \* Where there is no line to add to, step starts one.
             total(i, before) == b[i] # NL /\ i # 1 => b[i - 1] = NL \/ before # <<>>
             step == [x \in D \X [D -> V] |->
                          IF x[1] = 0 THEN <<>>
                          ELSE IF total(x[1], x[2][x[1] - 1])
                          THEN Longer(b, x[1], x[2][x[1] - 1])
                          ELSE << <<>> >>]
  <1>1. L \in Nat /\ <<>> \in V /\ << <<>> >> \in V
    BY DEF Texts, Bytes
  <1>2. NonEmptyLines(b) = lines[L]
    BY Zenon DEF NonEmptyLines
  <1> HIDE DEF lines
  <1>3. ASSUME NEW i \in D, NEW f \in [D -> V]
        PROVE  /\ step[<<i, f>>] \in V
               /\ step[<<i, f>>] = IF i = 0 THEN <<>>
                                   ELSE IF total(i, f[i - 1]) THEN Longer(b, i, f[i - 1])
                                   ELSE << <<>> >>
    <2>1. step[<<i, f>>] = IF i = 0 THEN <<>>
                           ELSE IF total(i, f[i - 1]) THEN Longer(b, i, f[i - 1])
                           ELSE << <<>> >>
      OBVIOUS
    <2> HIDE DEF step
    <2>2. CASE i # 0 /\ total(i, f[i - 1])
      <3>1. i \in 1..Len(b) /\ i - 1 \in D
        BY <1>1, <2>2
      <3>2. f[i - 1] \in Texts
        BY <3>1
      <3>3. Longer(b, i, f[i - 1]) \in Texts
        BY <2>2, <3>1, <3>2, LongerIsText
      <3> QED
        BY <2>1, <2>2, <3>3
    <2> QED
      BY <1>1, <2>1, <2>2
  <1>4. \A i \in D : \A f, g \in [D -> V] :
            (\A j \in D : j < i => f[j] = g[j]) => step[<<i, f>>] = step[<<i, g>>]
    <2>1. TAKE i \in D
    <2>2. TAKE f, g \in [D -> V]
    <2>3. HAVE \A j \in D : j < i => f[j] = g[j]
    <2>4. i # 0 => i - 1 \in D /\ i - 1 < i
      BY <1>1
    <2>5. i # 0 => f[i - 1] = g[i - 1]
      BY <2>3, <2>4
    <2> HIDE DEF step
    <2> QED
      BY <1>3, <2>5
  <1>5. PICK g : Solves(D, V, step, g)
    <2>1. D \in SUBSET (0..L)
      OBVIOUS
    <2>2. step \in [D \X [D -> V] -> V]
      <3>1. ASSUME NEW x \in D \X [D -> V] PROVE step[x] \in V
        <4>1. x = <<x[1], x[2]>> /\ x[1] \in D /\ x[2] \in [D -> V]
          OBVIOUS
        <4> HIDE DEF step, D, V
        <4> QED
          BY <1>3, <4>1
      <3>2. step = [x \in D \X [D -> V] |-> step[x]]
        BY Zenon
      <3> HIDE DEF step, D, V
      <3> QED
        BY <3>1, <3>2
    <2> HIDE DEF step
    <2>3. Recursive(D, V, step)
      BY <1>4, <2>2 DEF Recursive
    <2> HIDE DEF D, L, V
    <2> QED
      BY <1>1, <2>1, <2>3, RecursionExists, Zenon
  <1> HIDE DEF step
  <1>6. g \in [D -> V] /\ g[0] = <<>>
    <2>1. 0 \in D /\ g \in [D -> V] /\ \A i \in D : g[i] = step[<<i, g>>]
      BY <1>1, <1>5 DEF Solves
    <2>2. step[<<0, g>>] = <<>>
      BY <1>3, <2>1
    <2> QED
      BY <2>1, <2>2
  <1>7. ASSUME NEW i \in 1..L
        PROVE  g[i] = Longer(b, i, g[i - 1]) /\ i - 1 \in D /\ i \in D /\ i # 0
    <2>1. i \in D /\ i # 0 /\ i - 1 \in D
      BY <1>1
    <2>2. g[i] = IF total(i, g[i - 1]) THEN Longer(b, i, g[i - 1]) ELSE << <<>> >>
      <3>1. g \in [D -> V] /\ g[i] = step[<<i, g>>]
        BY <1>5, <1>6, <2>1, Zenon DEF Solves
      <3>2. step[<<i, g>>] = IF i = 0 THEN <<>>
                             ELSE IF total(i, g[i - 1]) THEN Longer(b, i, g[i - 1]) ELSE << <<>> >>
        BY <1>3, <2>1, <3>1, Zenon
      <3> QED
        BY ONLY <2>1, <3>1, <3>2
    <2>3. ASSUME b[i] # NL, i # 1, b[i - 1] # NL PROVE g[i - 1] # <<>>
      <3> DEFINE j == i - 1
      <3>1. j \in D /\ j # 0 /\ j \in 1..Len(b) /\ b[j] # NL /\ j - 1 \in D
        BY <1>1, <2>1, <2>3
      <3> HIDE DEF j
      <3>2. g[j] = IF total(j, g[j - 1]) THEN Longer(b, j, g[j - 1]) ELSE << <<>> >>
        BY <1>3, <1>5, <1>6, <3>1 DEF Solves
      <3>3. g[j - 1] \in Texts
        BY <1>6, <3>1
      <3>4. total(j, g[j - 1]) => Longer(b, j, g[j - 1]) # <<>>
        BY <3>1, <3>3, LongerIsText
      <3>5. g[j] # <<>>
        BY <3>2, <3>4
      <3> QED
        BY <3>5 DEF j
    <2> QED
      BY <2>1, <2>2, <2>3
  <1>8. g = [i \in 0..Len(b) |->
                IF i = 0 THEN <<>>
                ELSE LET before == g[i - 1]
                     IN  IF b[i] = NL THEN before
                         ELSE IF i = 1 \/ b[i - 1] = NL THEN Append(before, <<b[i]>>)
                         ELSE Append(Front(before), Append(Last(before), b[i]))]
    <2>1. \A i \in D : i # 0 => i \in 1..L
      BY <1>1
    <2> QED
      BY <1>6, <1>7, <2>1 DEF Longer
  <1>9. lines = [i \in 0..Len(b) |->
                IF i = 0 THEN <<>>
                ELSE LET before == lines[i - 1]
                     IN  IF b[i] = NL THEN before
                         ELSE IF i = 1 \/ b[i - 1] = NL THEN Append(before, <<b[i]>>)
                         ELSE Append(Front(before), Append(Last(before), b[i]))]
    BY <1>8, Zenon DEF lines
  <1>10. lines[0] = <<>> /\ \A i \in 1..L : lines[i] = Longer(b, i, lines[i - 1])
    <2>1. 0 \in 0..Len(b) /\ \A i \in 1..L : i \in 0..Len(b) /\ i # 0
      BY <1>1
    <2> QED
      BY <1>9, <2>1, Zenon DEF Longer
  <1> DEFINE G == {i \in 0..L : lines[i] = g[i]}
  <1>11. 0 \in G
    BY <1>1, <1>6, <1>10
  <1>12. ASSUME NEW i \in 0..L, i \in G, i < L PROVE i + 1 \in G
    <2>1. i + 1 \in 1..L /\ i + 1 \in 0..L /\ (i + 1) - 1 = i
      BY <1>1, <1>12, NextIndex
    <2>2. lines[i + 1] = Longer(b, i + 1, lines[i]) /\ g[i + 1] = Longer(b, i + 1, g[i])
      BY <1>7, <1>10, <2>1
    <2> QED
      BY <1>12, <2>1, <2>2
  <1>13. \A i \in 0..L : i \in G
    <2> HIDE DEF G, L
    <2> QED
      BY <1>1, <1>11, <1>12, UpTo
  <1>14. NonEmptyLines(b) = g[L]
    <2>1. L \in 0..L
      BY <1>1
    <2> QED
      BY <1>2, <1>13, <2>1
  <1>15. Splits(b, g)
    BY <1>6, <1>7 DEF Splits
  <1> QED
    BY <1>14, <1>15

LEMMA LinesAreTexts ==
    ASSUME NEW b \in Bytes
    PROVE  NonEmptyLines(b) \in Texts
  <1>1. PICK g : Splits(b, g) /\ NonEmptyLines(b) = g[Len(b)]
    BY NonEmptyLinesIs
  <1>2. Len(b) \in 0..Len(b)
    BY DEF Bytes
  <1> QED
    BY <1>1, <1>2 DEF Splits

\* Without a line break, and with one at the end only, there is one line.
LEMMA OneLine ==
    ASSUME NEW b \in Bytes, NEW n \in 1..Len(b),
           \A i \in 1..n : b[i] # NL,
           n = Len(b) \/ (n + 1 = Len(b) /\ b[Len(b)] = NL)
    PROVE  NonEmptyLines(b) = <<SubSeq(b, 1, n)>>
  <1> DEFINE L == Len(b)
  <1>1. PICK f : Splits(b, f) /\ NonEmptyLines(b) = f[L]
    BY NonEmptyLinesIs
  <1>2. L \in Nat /\ n \in Nat /\ (\A i \in 1..L : b[i] \in Nat)
    BY DEF Bytes
  <1>3. \A i \in 1..L : f[i] = Longer(b, i, f[i - 1])
    BY <1>1 DEF Splits
  <1> DEFINE G == {i \in 0..n : i # 0 => f[i] = <<SubSeq(b, 1, i)>>}
  <1>4. 0 \in G
    BY <1>2
  <1>5. ASSUME NEW i \in 0..n, i \in G, i < n PROVE i + 1 \in G
    <2>1. i + 1 \in 1..n /\ i + 1 \in 0..n /\ (i + 1) - 1 = i /\ i + 1 \in 1..L
      BY <1>2, <1>5, NextIndex
    <2>2. f[i + 1] = Longer(b, i + 1, f[i]) /\ b[i + 1] # NL /\ b[i + 1] \in Nat
      BY <1>2, <1>3, <2>1
    <2>3. CASE i = 0
      <3>1. f[0] = <<>>
        BY <1>1 DEF Splits
      <3>2. f[1] = Append(<<>>, <<b[1]>>) /\ b[1] \in Nat
        BY <2>2, <2>3, <3>1 DEF Longer
      <3>3. SubSeq(b, 1, 1) = <<b[1]>>
        <4> DEFINE s == SubSeq(b, 1, 1)
        <4>1. s \in Seq(Nat) /\ Len(s) = 1 /\ s[1] = b[1]
          <5>1. 1 \in Int /\ \A j \in 1..1 : b[j] \in Nat
            BY <3>2
          <5> QED
            BY <5>1, SubSeqProperties
        <4> HIDE DEF s
        <4>2. s = <<b[1]>>
          BY <4>1
        <4> QED
          BY <4>2 DEF s
      <3>4. f[1] = << <<b[1]>> >>
        BY <3>2
      <3> QED
        BY <2>1, <2>3, <3>3, <3>4
    <2>4. CASE i # 0
      <3> DEFINE s == SubSeq(b, 1, i)
      <3>1. f[i] = <<s>> /\ i \in 1..n /\ i \in 1..L /\ b[i] # NL
        BY <1>2, <1>5, <2>4
      <3>2. s \in Bytes /\ SubSeq(b, 1, i + 1) = Append(s, b[i + 1])
        <4>1. 1 \in 1..Len(b) /\ i + 1 \in 1..Len(b) /\ (i + 1) - 1 = i
          BY <1>2, <2>1
        <4>2. SubSeq(b, 1, i + 1) = SubSeq(b, 1, i) \o <<b[i + 1]>>
          BY <2>1, <4>1, SubSeqRecursiveSecond DEF Bytes
        <4>3. s \in Seq(Nat)
          <5>1. 1 \in Int /\ i \in Int /\ \A k \in 1..i : b[k] \in Nat
            BY <1>2, <3>1
          <5> QED
            BY ONLY <5>1, SubSeqProperties
        <4>4. Append(s, b[i + 1]) = s \o <<b[i + 1]>>
          BY <2>2, <4>3, AppendIsConcat
        <4> QED
          BY <4>2, <4>3, <4>4 DEF Bytes
      <3> HIDE DEF s
      <3>3. Longer(b, i + 1, <<s>>) = Append(Front(<<s>>), Append(Last(<<s>>), b[i + 1]))
        BY <2>1, <2>2, <2>4, <3>1 DEF Longer
      <3>4. Front(<<s>>) = <<>> /\ Last(<<s>>) = s
        BY DEF Front, Last
      <3>5. f[i + 1] = <<Append(s, b[i + 1])>>
        <4> DEFINE y == Append(s, b[i + 1])
        <4>1. f[i + 1] = Append(<<>>, y)
          BY ONLY <2>2, <3>1, <3>3, <3>4, Zenon
        <4>2. Append(<<>>, y) = <<y>>
          <5> HIDE DEF y
          <5> QED
            OBVIOUS
        <4> QED
          BY ONLY <4>1, <4>2, Zenon
      <3> QED
        BY <2>1, <3>2, <3>5
    <2> QED
      BY <2>3, <2>4
  <1>6. \A i \in 0..n : i \in G
    <2> HIDE DEF G
    <2> QED
      BY <1>2, <1>4, <1>5, UpTo
  <1>7. f[n] = <<SubSeq(b, 1, n)>>
    <2>1. n \in 0..n /\ n # 0
      BY <1>2
    <2> QED
      BY <1>6, <2>1
  <1>8. CASE n = Len(b)
    BY <1>1, <1>7, <1>8
  <1>9. CASE n + 1 = Len(b) /\ b[Len(b)] = NL
    <2>1. n + 1 \in 1..L /\ (n + 1) - 1 = n
      BY <1>2, <1>9
    <2>2. f[L] = Longer(b, L, f[n])
      BY <1>3, <1>9, <2>1
    <2>3. f[L] = f[n]
      BY <1>9, <2>2 DEF Longer
    <2> QED
      BY <1>1, <1>7, <2>3
  <1> QED
    BY <1>8, <1>9

\* Only line breaks: no line.
LEMMA NoLine ==
    ASSUME NEW b \in Bytes, b = <<>> \/ b = <<NL>>
    PROVE  NonEmptyLines(b) = <<>>
  <1>1. PICK f : Splits(b, f) /\ NonEmptyLines(b) = f[Len(b)]
    BY NonEmptyLinesIs
  <1>2. f[0] = <<>>
    BY <1>1 DEF Splits
  <1>3. CASE b = <<>>
    <2>1. Len(b) = 0
      BY <1>3
    <2> QED
      BY <1>1, <1>2, <2>1
  <1>4. CASE b = <<NL>>
    <2>1. Len(b) = 1 /\ b[1] = NL /\ 1 \in 1..Len(b) /\ 1 - 1 = 0
      BY <1>4
    <2>2. f[1] = Longer(b, 1, f[0])
      BY <1>1, <2>1 DEF Splits
    <2> QED
      BY <1>1, <1>2, <2>1, <2>2 DEF Longer
  <1> QED
    BY <1>3, <1>4

-----------------------------------------------------------------------------
(* Frames.                                                                  *)

\* What two sequences of bytes are, one after the other.
LEMMA ConcatIs ==
    ASSUME NEW u \in Seq(Nat), NEW v \in Seq(Nat)
    PROVE  /\ u \o v \in Seq(Nat) /\ Len(u \o v) = Len(u) + Len(v)
           /\ \A i \in 1..(Len(u) + Len(v)) : (u \o v)[i] = IF i <= Len(u) THEN u[i] ELSE v[i - Len(u)]
  BY ConcatProperties, Zenon

LEMMA FrameIs ==
    ASSUME NEW p \in Bytes
    PROVE  /\ Header(p) \in Bytes /\ Len(Header(p)) = HeaderLen /\ Header(p)[1] = 1
           /\ Header(p)[8] = Len(p) % 256
           /\ Frame(p) \in Bytes /\ Len(Frame(p)) = HeaderLen + Len(p)
           /\ \A i \in 1..HeaderLen : Frame(p)[i] = Header(p)[i]
           /\ \A i \in 1..Len(p) : Frame(p)[HeaderLen + i] = p[i]
  <1> DEFINE n == Len(p)
             h == Header(p)
  <1>1. n \in Nat
    BY DEF Bytes
  <1>2. /\ n \div 16777216 \in Nat /\ (n \div 65536) % 256 \in Nat
        /\ (n \div 256) % 256 \in Nat /\ n % 256 \in Nat
    BY <1>1
  <1>3. h \in Seq(Nat) /\ Len(h) = 8 /\ h[1] = 1 /\ h[8] = n % 256
    BY <1>2 DEF Header
  <1> HIDE DEF h
  <1>4. /\ h \o p \in Seq(Nat) /\ Len(h \o p) = 8 + n
        /\ \A i \in 1..(8 + n) : (h \o p)[i] = IF i <= 8 THEN h[i] ELSE p[i - 8]
    <2>1. /\ h \o p \in Seq(Nat) /\ Len(h \o p) = Len(h) + Len(p)
          /\ \A i \in 1..(Len(h) + Len(p)) : (h \o p)[i] = IF i <= Len(h) THEN h[i] ELSE p[i - Len(h)]
      <3>1. h \in Seq(Nat) /\ p \in Seq(Nat)
        BY <1>3 DEF Bytes
      <3> QED
        BY ONLY <3>1, ConcatIs
    <2> DEFINE hp == h \o p
    <2> HIDE DEF hp
    <2> QED
      BY <1>3, <2>1
  <1>5. Frame(p) = h \o p
    BY DEF Frame, h
  <1>6. \A i \in 1..8 : i \in 1..(8 + n) /\ i <= 8
    BY <1>1
  <1>7. \A i \in 1..n : 8 + i \in 1..(8 + n) /\ ~(8 + i <= 8) /\ (8 + i) - 8 = i
    BY <1>1
  <1>8. /\ \A i \in 1..8 : Frame(p)[i] = h[i]
        /\ \A i \in 1..n : Frame(p)[8 + i] = p[i]
    <2>1. \A i \in 1..8 : Frame(p)[i] = h[i]
      <3> SUFFICES ASSUME NEW i \in 1..8 PROVE Frame(p)[i] = h[i]
        OBVIOUS
      <3>1. (h \o p)[i] = IF i <= 8 THEN h[i] ELSE p[i - 8]
        BY <1>4, <1>6
      <3> QED
        BY <1>5, <1>6, <3>1
    <2>2. ASSUME NEW i \in 1..n PROVE Frame(p)[8 + i] = p[i]
      <3>1. (h \o p)[8 + i] = IF 8 + i <= 8 THEN h[8 + i] ELSE p[(8 + i) - 8]
        BY <1>4, <1>7
      <3> QED
        BY <1>5, <1>7, <3>1
    <2> QED
      BY <2>1, <2>2
  <1> QED
    BY <1>3, <1>4, <1>5, <1>8 DEF HeaderLen, Bytes, h

\* The size a header holds is that of the payload.
LEMMA SizeIs ==
    ASSUME NEW p \in Bytes, NEW b, \A i \in 1..HeaderLen : b[i] = Header(p)[i]
    PROVE  FrameSize(b) = Len(p)
  <1> DEFINE n == Len(p)
  <1>1. n \in Nat
    BY DEF Bytes
  <1>2. /\ b[5] = n \div 16777216 /\ b[6] = (n \div 65536) % 256
        /\ b[7] = (n \div 256) % 256 /\ b[8] = n % 256
    BY DEF Header, HeaderLen
  <1> HIDE DEF n
  <1>3. \A m \in Nat : m = 256 * (m \div 256) + (m % 256) /\ m \div 256 \in Nat /\ m % 256 \in 0..255
    <2>1. TAKE m \in Nat
    <2> QED
      OBVIOUS
  <1>4. n \div 65536 = (n \div 256) \div 256 /\ n \div 16777216 = (n \div 65536) \div 256
    BY <1>1
  <1>5. /\ n = 256 * (n \div 256) + b[8]
        /\ n \div 256 = 256 * (n \div 65536) + b[7]
        /\ n \div 65536 = 256 * b[5] + b[6]
    BY <1>1, <1>2, <1>3, <1>4
  <1>6. n \div 256 \in Nat /\ n \div 65536 \in Nat /\ \A i \in 5..8 : b[i] \in Nat
    BY <1>1, <1>2
  <1>7. FrameSize(b) = n
    BY <1>1, <1>5, <1>6 DEF FrameSize
  <1> QED
    BY <1>7 DEF n

LEMMA FrameSizeIsNat ==
    ASSUME NEW b \in Bytes, Len(b) >= HeaderLen
    PROVE  FrameSize(b) \in Nat
  <1>1. b[5] \in Nat /\ b[6] \in Nat /\ b[7] \in Nat /\ b[8] \in Nat
    BY DEF Bytes, HeaderLen
  <1> DEFINE x == b[5]
             y == b[6]
             z == b[7]
             w == b[8]
  <1>2. FrameSize(b) = ((x * 256 + y) * 256 + z) * 256 + w
    BY Zenon DEF FrameSize
  <1>3. x \in Nat /\ y \in Nat /\ z \in Nat /\ w \in Nat
    BY <1>1
  <1> HIDE DEF x, y, z, w
  <1> QED
    BY <1>2, <1>3

-----------------------------------------------------------------------------
(* The end of a sequence of bytes.                                          *)

LEMMA FromIs ==
    ASSUME NEW S, NEW b \in Seq(S), NEW n \in 0..Len(b)
    PROVE  /\ From(b, Len(b) - n + 1) \in Seq(S)
           /\ Len(From(b, Len(b) - n + 1)) = n
           /\ \A i \in 1..n : From(b, Len(b) - n + 1)[i] = b[Len(b) - n + i]
  <1> DEFINE L == Len(b)
             m == L - n + 1
             s == SubSeq(b, m, L)
  <1>1. L \in Nat /\ n \in Nat /\ n <= L
    OBVIOUS
  <1>2. m \in Int /\ L \in Int /\ L - m + 1 = n /\ (m <= L => L - m + 1 = n) /\ (~(m <= L) => n = 0)
    BY <1>1
  <1>3. \A i \in m..L : b[i] \in S
    <2>1. \A i \in m..L : i \in 1..L
      BY <1>1
    <2> QED
      BY <2>1
  <1>4. \A i \in 1..n : m + i - 1 = L - n + i
    BY <1>1
  <1> HIDE DEF m, L
  <1>5. /\ s \in Seq(S) /\ Len(s) = IF m <= L THEN L - m + 1 ELSE 0
        /\ \A i \in 1..(L - m + 1) : s[i] = b[m + i - 1]
    BY <1>2, <1>3, SubSeqProperties
  <1> HIDE DEF s
  <1>6. Len(s) = n /\ \A i \in 1..n : s[i] = b[L - n + i]
    BY <1>2, <1>4, <1>5
  <1> QED
    BY <1>5, <1>6 DEF From, s, m, L

LEMMA FromConcat ==
    ASSUME NEW S, NEW s \in Seq(S), NEW t \in Seq(S), NEW n \in 0..Len(t)
    PROVE  From(s \o t, Len(s \o t) - n + 1) = From(t, Len(t) - n + 1)
  <1> DEFINE st == s \o t
             a == From(st, Len(st) - n + 1)
             b == From(t, Len(t) - n + 1)
  <1>1. Len(s) \in Nat /\ Len(t) \in Nat /\ n \in Nat /\ n <= Len(t)
    OBVIOUS
  <1>2. /\ st \in Seq(S) /\ Len(st) = Len(s) + Len(t)
        /\ \A i \in 1..(Len(s) + Len(t)) : st[i] = IF i <= Len(s) THEN s[i] ELSE t[i - Len(s)]
    BY ConcatProperties
  <1> HIDE DEF st
  <1>3. n \in 0..Len(st)
    BY <1>1, <1>2
  <1>4. a \in Seq(S) /\ Len(a) = n /\ \A i \in 1..n : a[i] = st[Len(st) - n + i]
    <2>1. st \in Seq(S)
      BY <1>2
    <2> QED
      BY ONLY <1>3, <2>1, FromIs, Zenon
  <1>5. b \in Seq(S) /\ Len(b) = n /\ \A i \in 1..n : b[i] = t[Len(t) - n + i]
    BY FromIs
  <1> HIDE DEF a, b
  <1>6. ASSUME NEW i \in 1..n PROVE a[i] = b[i]
    <2> DEFINE k == Len(st) - n + i
    <2>1. k \in 1..(Len(s) + Len(t)) /\ ~(k <= Len(s)) /\ k - Len(s) = Len(t) - n + i
      BY <1>1, <1>2
    <2> HIDE DEF k
    <2>2. st[k] = t[Len(t) - n + i]
      BY <1>2, <2>1
    <2> QED
      BY <1>4, <1>5, <2>2 DEF k
  <1>7. a = b
    BY <1>4, <1>5, <1>6, SeqEqual
  <1> QED
    BY <1>7 DEF a, b, st

-----------------------------------------------------------------------------
(* The loop of processPayload.                                              *)

\* The last n bytes, and what processPayload sends for r, given what it sends
\* for the n - used bytes after its first frame.
Ending(b, n) == From(b, Len(b) - n + 1)

\* The same of the bytes that are left in the buffer.
LEMMA EndIs ==
    ASSUME NEW S, NEW b \in Seq(S), NEW n \in 0..Len(b)
    PROVE  /\ Ending(b, n) \in Seq(S) /\ Len(Ending(b, n)) = n
           /\ \A i \in 1..n : Ending(b, n)[i] = b[Len(b) - n + i]
  BY FromIs, Zenon DEF Ending

Used(r) == HeaderLen + FrameSize(r)

Sends(r, later) ==
    IF HasFrame(r) THEN NonEmptyLines(SubSeq(r, HeaderLen + 1, Used(r))) \o later
    ELSE NonEmptyLines(r)

Parses(b, f) ==
    /\ f \in [0..Len(b) -> Texts]
    /\ \A n \in 0..Len(b) : f[n] = Sends(Ending(b, n), f[n - Used(Ending(b, n))])

LEMMA EndingIs ==
    ASSUME NEW b \in Bytes, NEW n \in 0..Len(b)
    PROVE  /\ Ending(b, n) \in Bytes /\ Len(Ending(b, n)) = n
           /\ HasFrame(Ending(b, n)) =>
                  /\ Used(Ending(b, n)) \in 1..n
                  /\ n - Used(Ending(b, n)) \in 0..Len(b)
                  /\ n - Used(Ending(b, n)) < n
  <1> DEFINE r == Ending(b, n)
  <1>1. r \in Bytes /\ Len(r) = n
    BY FromIs DEF Bytes, Ending
  <1>2. Len(b) \in Nat /\ n \in Nat /\ n <= Len(b)
    BY DEF Bytes
  <1> HIDE DEF r
  <1>3. ASSUME HasFrame(r) PROVE Used(r) \in 1..n /\ n - Used(r) \in 0..Len(b) /\ n - Used(r) < n
    <2>1. FrameSize(r) \in Nat /\ Len(r) >= HeaderLen + FrameSize(r)
      BY <1>1, <1>3, FrameSizeIsNat DEF HasFrame
    <2> QED
      BY <1>1, <1>2, <2>1 DEF Used, HeaderLen
  <1> QED
    BY <1>1, <1>3 DEF r

LEMMA SendsTexts ==
    ASSUME NEW r \in Bytes, NEW later \in Texts
    PROVE  Sends(r, later) \in Texts
  <1>1. CASE HasFrame(r)
    <2> DEFINE u == Used(r)
               s == SubSeq(r, HeaderLen + 1, u)
    <2>1. FrameSize(r) \in Nat /\ Len(r) >= u /\ Len(r) \in Nat
      BY <1>1, FrameSizeIsNat DEF HasFrame, Used, Bytes
    <2>2. u \in Int /\ HeaderLen + 1 \in Int /\ \A i \in (HeaderLen + 1)..u : r[i] \in Nat
      <3>1. u \in Int /\ HeaderLen + 1 \in Int
        BY <2>1 DEF Used, HeaderLen
      <3>2. \A i \in (HeaderLen + 1)..u : i \in 1..Len(r)
        BY <2>1, <3>1 DEF HeaderLen
      <3> QED
        BY <3>1, <3>2 DEF Bytes
    <2>3. s \in Bytes
      BY <2>2, SubSeqProperties DEF Bytes
    <2> HIDE DEF s, u
    <2>4. NonEmptyLines(s) \o later \in Texts
      <3>1. NonEmptyLines(s) \in Texts
        BY <2>3, LinesAreTexts
      <3> QED
        BY <3>1, ConcatProperties DEF Texts
    <2> QED
      BY <1>1, <2>4, Zenon DEF Sends, s, u
  <1>2. CASE ~HasFrame(r)
    BY <1>2, LinesAreTexts DEF Sends
  <1> QED
    BY <1>1, <1>2

LEMMA FrameLinesIs ==
    ASSUME NEW b \in Bytes
    PROVE  \E f : Parses(b, f) /\ FrameLines(b) = f[Len(b)]
  <1> DEFINE L == Len(b)
             D == 0..L
             V == Texts
             r(n) == From(b, Len(b) - n + 1)
             used(n) == HeaderLen + FrameSize(r(n))
             lines == CHOOSE f : f = [n \in 0..Len(b) |->
                          IF HasFrame(r(n))
                          THEN NonEmptyLines(SubSeq(r(n), HeaderLen + 1, used(n))) \o f[n - used(n)]
                          ELSE NonEmptyLines(r(n))]
             later(n, f) == IF HasFrame(Ending(b, n)) THEN f[n - Used(Ending(b, n))] ELSE <<>>
             step == [x \in D \X [D -> V] |-> Sends(Ending(b, x[1]), later(x[1], x[2]))]
  <1>1. L \in Nat /\ <<>> \in V
    BY DEF Texts, Bytes
  <1>2. FrameLines(b) = lines[L]
    BY Zenon DEF FrameLines
  <1> HIDE DEF lines
  <1>3. ASSUME NEW n \in D, NEW f \in [D -> V]
        PROVE  /\ step[<<n, f>>] \in V
               /\ step[<<n, f>>] = Sends(Ending(b, n), f[n - Used(Ending(b, n))])
               /\ step[<<n, f>>] = Sends(Ending(b, n), later(n, f))
    <2>1. step[<<n, f>>] = Sends(Ending(b, n), later(n, f))
      OBVIOUS
    <2> HIDE DEF step
    <2>2. later(n, f) \in V
      BY <1>1, EndingIs
    <2>3. Sends(Ending(b, n), later(n, f)) \in V
      <3> HIDE DEF later
      <3>1. Ending(b, n) \in Bytes
        BY EndingIs
      <3> QED
        BY <2>2, <3>1, SendsTexts
    <2>4. Sends(Ending(b, n), later(n, f)) = Sends(Ending(b, n), f[n - Used(Ending(b, n))])
      BY Zenon DEF Sends
    <2> QED
      BY <2>1, <2>3, <2>4
  <1>4. \A n \in D : \A f, g \in [D -> V] :
            (\A j \in D : j < n => f[j] = g[j]) => step[<<n, f>>] = step[<<n, g>>]
    <2>1. TAKE n \in D
    <2>2. TAKE f, g \in [D -> V]
    <2>3. HAVE \A j \in D : j < n => f[j] = g[j]
    <2>4. HasFrame(Ending(b, n)) => f[n - Used(Ending(b, n))] = g[n - Used(Ending(b, n))]
      BY <2>3, EndingIs
    <2>5. later(n, f) = later(n, g)
      BY <2>4
    <2> HIDE DEF step, later
    <2> QED
      BY <1>3, <2>5
  <1>5. PICK g : Solves(D, V, step, g)
    <2>1. D \in SUBSET (0..L)
      OBVIOUS
    <2>2. step \in [D \X [D -> V] -> V]
      BY <1>3
    <2> HIDE DEF step
    <2>3. Recursive(D, V, step)
      BY <1>4, <2>2 DEF Recursive
    <2> HIDE DEF D, L, V
    <2> QED
      BY <1>1, <2>1, <2>3, RecursionExists, Zenon
  <1> HIDE DEF step
  <1>6. g \in [D -> V] /\ \A n \in D : g[n] = Sends(Ending(b, n), g[n - Used(Ending(b, n))])
    BY <1>3, <1>5 DEF Solves
  <1>7. g = [n \in 0..Len(b) |->
                IF HasFrame(r(n))
                THEN NonEmptyLines(SubSeq(r(n), HeaderLen + 1, used(n))) \o g[n - used(n)]
                ELSE NonEmptyLines(r(n))]
    BY <1>6 DEF Sends, Ending, Used
  <1>8. lines = [n \in 0..Len(b) |->
                IF HasFrame(r(n))
                THEN NonEmptyLines(SubSeq(r(n), HeaderLen + 1, used(n))) \o lines[n - used(n)]
                ELSE NonEmptyLines(r(n))]
    BY <1>7, Zenon DEF lines
  <1>9. \A n \in D : lines[n] = Sends(Ending(b, n), lines[n - Used(Ending(b, n))])
    BY <1>8, Zenon DEF Sends, Ending, Used
  <1> DEFINE G == {n \in D : \A k \in 0..n : lines[k] = g[k]}
  <1> HIDE DEF r, used
  <1>10. ASSUME NEW n \in D, \A k \in D : k < n => lines[k] = g[k] PROVE lines[n] = g[n]
    <2>1. HasFrame(Ending(b, n)) => lines[n - Used(Ending(b, n))] = g[n - Used(Ending(b, n))]
      BY <1>10, EndingIs
    <2>2. Sends(Ending(b, n), lines[n - Used(Ending(b, n))])
            = Sends(Ending(b, n), g[n - Used(Ending(b, n))])
      BY <2>1, Zenon DEF Sends
    <2> QED
      BY <1>6, <1>9, <2>2
  <1>11. 0 \in G
    <2>1. 0 \in D /\ (\A k \in D : ~(k < 0)) /\ \A k \in 0..0 : k = 0
      BY <1>1
    <2> QED
      BY <1>10, <2>1
  <1>12. ASSUME NEW n \in 0..L, n \in G, n < L PROVE n + 1 \in G
    <2>1. n + 1 \in D /\ \A k \in D : k < n + 1 => k \in 0..n
      BY <1>1, <1>12
    <2>2. lines[n + 1] = g[n + 1]
      BY <1>10, <1>12, <2>1
    <2>3. \A k \in 0..(n + 1) : k \in 0..n \/ k = n + 1
      BY <1>1
    <2> QED
      BY <1>12, <2>1, <2>2, <2>3
  <1>13. \A n \in 0..L : n \in G
    <2> HIDE DEF G, L
    <2> QED
      BY <1>1, <1>11, <1>12, UpTo
  <1>14. FrameLines(b) = g[L]
    <2>1. L \in 0..L /\ L \in D
      BY <1>1
    <2> QED
      BY <1>2, <1>13, <2>1
  <1>15. Parses(b, g)
    BY <1>6 DEF Parses
  <1> QED
    BY <1>14, <1>15

\* The loop sends the lines of the first frame, then what it sends for the rest.
LEMMA FrameLinesCons ==
    ASSUME NEW p \in Bytes, NEW later \in Bytes
    PROVE  FrameLines(Frame(p) \o later) = NonEmptyLines(p) \o FrameLines(later)
  <1> DEFINE b == Frame(p) \o later
             L == Len(later)
  <1>1. PICK g : Parses(later, g) /\ FrameLines(later) = g[L]
    BY FrameLinesIs
  <1>2. /\ b \in Bytes /\ Len(b) = HeaderLen + Len(p) + L
        /\ \A i \in 1..HeaderLen : b[i] = Header(p)[i]
        /\ \A i \in 1..Len(p) : b[HeaderLen + i] = p[i]
    <2>1. /\ Frame(p) \in Seq(Nat) /\ later \in Seq(Nat) /\ Len(Frame(p)) = HeaderLen + Len(p)
          /\ Len(p) \in Nat /\ L \in Nat
      <3>1. Len(p) \in Nat /\ L \in Nat /\ later \in Seq(Nat)
        BY DEF Bytes
      <3>2. Frame(p) \in Bytes /\ Len(Frame(p)) = HeaderLen + Len(p)
        BY FrameIs
      <3> QED
        BY <3>1, <3>2 DEF Bytes
    <2> DEFINE fp == Frame(p)
    <2> HIDE DEF fp
    <2>2. /\ b \in Seq(Nat) /\ Len(b) = Len(fp) + L
          /\ \A i \in 1..(Len(fp) + L) : b[i] = IF i <= Len(fp) THEN fp[i] ELSE later[i - Len(fp)]
      <3>1. fp \in Seq(Nat) /\ later \in Seq(Nat) /\ b = fp \o later
        BY <2>1, Zenon DEF fp
      <3> HIDE DEF b
      <3> QED
        BY ONLY <3>1, ConcatIs
    <2>3. \A i \in 1..Len(fp) : b[i] = fp[i]
      BY <2>1, <2>2 DEF fp, HeaderLen
    <2>4. Len(fp) = HeaderLen + Len(p)
      BY <2>1 DEF fp
    <2>5. \A i \in 1..HeaderLen : i \in 1..Len(fp)
      BY <2>1, <2>4 DEF HeaderLen
    <2>6. \A i \in 1..Len(p) : HeaderLen + i \in 1..Len(fp)
      BY <2>1, <2>4 DEF HeaderLen
    <2> HIDE DEF b
    <2>7. \A i \in 1..HeaderLen : b[i] = Header(p)[i]
      <3>1. \A i \in 1..HeaderLen : fp[i] = Header(p)[i]
        BY FrameIs, Zenon DEF fp
      <3> QED
        BY ONLY <2>3, <2>5, <3>1, Zenon
    <2>8. \A i \in 1..Len(p) : b[HeaderLen + i] = p[i]
      <3>1. \A i \in 1..Len(p) : fp[HeaderLen + i] = p[i]
        BY FrameIs, Zenon DEF fp
      <3> QED
        BY ONLY <2>3, <2>6, <3>1, Zenon
    <2> QED
      BY <2>2, <2>4, <2>7, <2>8 DEF Bytes
  <1>3. Len(p) \in Nat /\ L \in Nat /\ later \in Bytes
    BY DEF Bytes
  <1>4. \A n \in 0..L : Ending(b, n) = Ending(later, n)
    <2>1. Frame(p) \in Seq(Nat) /\ later \in Seq(Nat)
      BY FrameIs DEF Bytes
    <2> QED
      BY <2>1, FromConcat DEF Ending
  <1> HIDE DEF b
  <1>5. PICK f : Parses(b, f) /\ FrameLines(b) = f[Len(b)]
    BY <1>2, FrameLinesIs
  <1>6. L \in 0..Len(b) /\ Len(b) \in 0..Len(b) /\ \A n \in 0..L : n \in 0..Len(b)
    BY <1>2, <1>3 DEF HeaderLen
  <1> DEFINE G == {n \in 0..L : \A k \in 0..n : f[k] = g[k]}
  <1>7. ASSUME NEW n \in 0..L, \A k \in 0..L : k < n => f[k] = g[k] PROVE f[n] = g[n]
    <2> DEFINE r == Ending(later, n)
    <2>1. f[n] = Sends(r, f[n - Used(r)]) /\ g[n] = Sends(r, g[n - Used(r)])
      BY <1>1, <1>4, <1>5, <1>6 DEF Parses
    <2>2. HasFrame(r) => f[n - Used(r)] = g[n - Used(r)]
      BY <1>7, EndingIs
    <2>3. Sends(r, f[n - Used(r)]) = Sends(r, g[n - Used(r)])
      BY <2>2, Zenon DEF Sends
    <2> QED
      BY <2>1, <2>3
  <1>8. 0 \in G
    <2>1. 0 \in 0..L /\ (\A k \in 0..L : ~(k < 0)) /\ \A k \in 0..0 : k = 0
      BY <1>3
    <2> QED
      BY <1>7, <2>1
  <1>9. ASSUME NEW n \in 0..L, n \in G, n < L PROVE n + 1 \in G
    <2>1. n + 1 \in 0..L /\ \A k \in 0..L : k < n + 1 => k \in 0..n
      BY <1>3, <1>9
    <2>2. f[n + 1] = g[n + 1]
      BY <1>7, <1>9, <2>1
    <2>3. \A k \in 0..(n + 1) : k \in 0..n \/ k = n + 1
      BY <1>3
    <2> QED
      BY <1>9, <2>1, <2>2, <2>3
  <1>10. f[L] = FrameLines(later)
    <2>1. \A n \in 0..L : n \in G
      <3> HIDE DEF G, L
      <3> QED
        BY <1>3, <1>8, <1>9, UpTo
    <2>2. L \in 0..L
      BY <1>3
    <2> QED
      BY <1>1, <2>1, <2>2
  <1>11. FrameSize(b) = Len(p)
    BY <1>2, SizeIs
  <1>12. Ending(b, Len(b)) = b
    <2> DEFINE e == Ending(b, Len(b))
    <2>1. e \in Seq(Nat) /\ Len(e) = Len(b) /\ \A i \in 1..Len(b) : e[i] = b[Len(b) - Len(b) + i]
      <3>1. b \in Seq(Nat) /\ Len(b) \in 0..Len(b)
        BY <1>2, <1>6 DEF Bytes
      <3> QED
        BY ONLY <3>1, EndIs
    <2> HIDE DEF e
    <2>2. \A i \in 1..Len(b) : e[i] = b[i]
      <3>1. Len(b) \in Nat
        BY <1>2 DEF Bytes
      <3>2. \A i \in 1..Len(b) : Len(b) - Len(b) + i = i
        BY <3>1
      <3> QED
        BY <2>1, <3>2
    <2>3. e = b
      BY <1>2, <2>1, <2>2, SeqEqual DEF Bytes
    <2> QED
      BY <2>3 DEF e
  <1>13. HasFrame(b) /\ Used(b) = HeaderLen + Len(p) /\ Len(b) - Used(b) = L
    BY <1>2, <1>3, <1>11 DEF HasFrame, Used, HeaderLen
  <1>14. SubSeq(b, HeaderLen + 1, HeaderLen + Len(p)) = p
    <2> DEFINE m == HeaderLen + 1
               n == HeaderLen + Len(p)
               s == SubSeq(b, m, n)
    <2>1. /\ m \in Int /\ n \in Int /\ n - m + 1 = Len(p)
          /\ (IF m <= n THEN n - m + 1 ELSE 0) = Len(p)
          /\ \A i \in 1..Len(p) : m + i - 1 = HeaderLen + i
      BY <1>3 DEF HeaderLen
    <2>2. \A i \in m..n : b[i] \in Nat
      <3>1. \A i \in m..n : i \in 1..Len(b)
        BY <1>2, <1>3 DEF HeaderLen
      <3> QED
        BY <1>2, <3>1 DEF Bytes
    <2> HIDE DEF m, n
    <2>3. s \in Seq(Nat) /\ Len(s) = Len(p) /\ \A i \in 1..Len(p) : s[i] = b[m + i - 1]
      BY <2>1, <2>2, SubSeqProperties
    <2> HIDE DEF s
    <2>4. \A i \in 1..Len(p) : s[i] = p[i]
      BY <1>2, <2>1, <2>3
    <2>5. s = p
      BY <2>3, <2>4, SeqEqual DEF Bytes
    <2> QED
      BY <2>5 DEF s, m, n
  <1>15. f[Len(b)] = Sends(b, f[L])
    BY <1>5, <1>6, <1>12, <1>13 DEF Parses
  <1>16. f[Len(b)] = NonEmptyLines(p) \o f[L]
    BY <1>13, <1>14, <1>15 DEF Sends
  <1> QED
    BY <1>5, <1>10, <1>16 DEF b

-----------------------------------------------------------------------------
(* Responses.                                                               *)

LEMMA ResponseIs ==
    ASSUME NEW ps \in Texts
    PROVE  /\ [i \in DOMAIN ps |-> Frame(ps[i])] \in Texts
           /\ [i \in DOMAIN ps |-> NonEmptyLines(ps[i])] \in Seq(Texts)
           /\ Len([i \in DOMAIN ps |-> Frame(ps[i])]) = Len(ps)
           /\ Len([i \in DOMAIN ps |-> NonEmptyLines(ps[i])]) = Len(ps)
           /\ DOMAIN ps = 1..Len(ps) /\ Len(ps) \in Nat
  <1>1. DOMAIN ps = 1..Len(ps) /\ Len(ps) \in Nat /\ \A i \in 1..Len(ps) : ps[i] \in Bytes
    BY DEF Texts
  <1>2. \A i \in 1..Len(ps) : Frame(ps[i]) \in Bytes /\ NonEmptyLines(ps[i]) \in Texts
    BY <1>1, FrameIs, LinesAreTexts
  <1> DEFINE fs == [i \in DOMAIN ps |-> Frame(ps[i])]
             ls == [i \in DOMAIN ps |-> NonEmptyLines(ps[i])]
             n == Len(ps)
  <1>3. fs \in [1..n -> Bytes] /\ ls \in [1..n -> Texts] /\ n \in Nat
    BY <1>1, <1>2
  <1> HIDE DEF fs, ls, n
  <1>4. fs \in Texts /\ Len(fs) = n /\ ls \in Seq(Texts) /\ Len(ls) = n
    BY <1>3 DEF Texts
  <1> QED
    BY <1>1, <1>4 DEF fs, ls, n

LEMMA ResponseCons ==
    ASSUME NEW ps \in Texts, ps # <<>>
    PROVE  /\ Response(ps) = Frame(ps[1]) \o Response(Tail(ps))
           /\ LogLines(ps) = NonEmptyLines(ps[1]) \o LogLines(Tail(ps))
  <1> DEFINE fs(qs) == [i \in DOMAIN qs |-> Frame(qs[i])]
             ls(qs) == [i \in DOMAIN qs |-> NonEmptyLines(qs[i])]
             n == Len(ps)
             t == Tail(ps)
  <1>1. n \in Nat \ {0} /\ t \in Texts /\ Len(t) = n - 1 /\ \A i \in 1..(n - 1) : t[i] = ps[i + 1]
    <2>1. ps \in Seq(Bytes)
      BY DEF Texts
    <2>2. n \in Nat /\ n # 0
      BY <2>1
    <2>3. t \in Seq(Bytes) /\ Len(t) = Len(ps) - 1 /\ \A i \in 1..Len(t) : t[i] = ps[i + 1]
      BY <2>1, HeadTailProperties
    <2> QED
      BY <2>2, <2>3 DEF Texts
  <1> HIDE DEF t, n
  <1>2. /\ DOMAIN ps = 1..n /\ DOMAIN t = 1..(n - 1) /\ 1 \in 1..n
        /\ \A i \in 1..(n - 1) : i + 1 \in 1..n
    <2>1. DOMAIN ps = 1..n /\ DOMAIN t = 1..Len(t)
      BY <1>1, ResponseIs DEF n
    <2> QED
      BY <1>1, <2>1
  <1>3. /\ fs(ps) \in Seq(Seq(Nat)) /\ Len(fs(ps)) = n /\ fs(ps)[1] = Frame(ps[1])
        /\ ls(ps) \in Seq(Texts) /\ Len(ls(ps)) = n /\ ls(ps)[1] = NonEmptyLines(ps[1])
    BY <1>2, ResponseIs DEF Texts, Bytes, n
  <1>4. /\ fs(t) \in Seq(Seq(Nat)) /\ Len(fs(t)) = n - 1
        /\ ls(t) \in Seq(Texts) /\ Len(ls(t)) = n - 1
    BY <1>1, ResponseIs DEF Texts, Bytes
  <1>5. \A i \in 1..(n - 1) : fs(t)[i] = fs(ps)[i + 1] /\ ls(t)[i] = ls(ps)[i + 1]
    BY <1>1, <1>2
  <1> DEFINE fps == fs(ps)
             fst == fs(t)
             lps == ls(ps)
             lst == ls(t)
  <1>6. Response(ps) = FlattenSeq(fps) /\ Response(t) = FlattenSeq(fst)
    BY DEF Response
  <1>7. LogLines(ps) = FlattenSeq(lps) /\ LogLines(t) = FlattenSeq(lst)
    BY DEF LogLines
  <1> HIDE DEF fps, fst, lps, lst
  <1>8. Tail(fps) = fst
    <2>1. fps # <<>> /\ fps \in Seq(Seq(Nat)) /\ Len(fps) = n
      BY <1>1, <1>3 DEF fps
    <2>2. /\ Tail(fps) \in Seq(Seq(Nat)) /\ Len(Tail(fps)) = n - 1
          /\ \A i \in 1..Len(Tail(fps)) : Tail(fps)[i] = fps[i + 1]
      BY <2>1, HeadTailProperties
    <2> DEFINE tf == Tail(fps)
    <2> HIDE DEF tf
    <2>3. fst \in Seq(Seq(Nat)) /\ Len(fst) = n - 1
      BY <1>4 DEF fst
    <2>4. \A i \in 1..Len(tf) : tf[i] = fst[i]
      BY <1>5, <2>2 DEF tf, fps, fst
    <2>5. tf = fst
      BY <2>2, <2>3, <2>4, SeqEqual DEF tf
    <2> QED
      BY <2>5 DEF tf
  <1>9. Tail(lps) = lst
    <2>1. lps # <<>> /\ lps \in Seq(Texts) /\ Len(lps) = n
      BY <1>1, <1>3 DEF lps
    <2>2. /\ Tail(lps) \in Seq(Texts) /\ Len(Tail(lps)) = n - 1
          /\ \A i \in 1..Len(Tail(lps)) : Tail(lps)[i] = lps[i + 1]
      BY <2>1, HeadTailProperties
    <2> DEFINE tl == Tail(lps)
    <2> HIDE DEF tl
    <2>3. lst \in Seq(Texts) /\ Len(lst) = n - 1
      BY <1>4 DEF lst
    <2>4. \A i \in 1..Len(tl) : tl[i] = lst[i]
      BY <1>5, <2>2 DEF tl, lps, lst
    <2>5. tl = lst
      BY <2>2, <2>3, <2>4, SeqEqual DEF tl
    <2> QED
      BY <2>5 DEF tl
  <1>10. FlattenSeq(fps) = fps[1] \o FlattenSeq(fst)
    <2>1. fps \in Seq(Seq(Nat)) /\ Len(fps) > 0
      BY <1>1, <1>3 DEF fps
    <2> QED
      BY <1>8, <2>1, FlattenCons
  <1>11. FlattenSeq(lps) = lps[1] \o FlattenSeq(lst)
    <2>1. lps \in Seq(Seq(Bytes)) /\ Len(lps) > 0
      BY <1>1, <1>3 DEF lps, Texts
    <2> QED
      BY <1>9, <2>1, FlattenCons
  <1>12. fps[1] = Frame(ps[1]) /\ lps[1] = NonEmptyLines(ps[1])
    BY <1>3 DEF fps, lps
  <1> QED
    BY <1>6, <1>7, <1>10, <1>11, <1>12, Zenon DEF t

\* A response is bytes, and none for no frame.
LEMMA NoResponse ==
    Response(<<>>) = <<>> /\ LogLines(<<>>) = <<>>
  <1>1. [i \in DOMAIN <<>> |-> Frame(<<>>[i])] = <<>> /\ [i \in DOMAIN <<>> |-> NonEmptyLines(<<>>[i])] = <<>>
    OBVIOUS
  <1>2. FlattenSeq(<<>>) = <<>>
    BY DEF FlattenSeq
  <1> QED
    BY <1>1, <1>2 DEF Response, LogLines

LEMMA ResponseIsBytes ==
    ASSUME NEW ps \in Texts
    PROVE  Response(ps) \in Bytes /\ LogLines(ps) \in Texts
  <1> DEFINE fs == [i \in DOMAIN ps |-> Frame(ps[i])]
             ls == [i \in DOMAIN ps |-> NonEmptyLines(ps[i])]
  <1>1. fs \in Seq(Seq(Nat)) /\ ls \in Seq(Seq(Bytes))
    BY ResponseIs DEF Texts, Bytes
  <1> HIDE DEF fs, ls
  <1>2. FlattenSeq(fs) \in Seq(Nat) /\ FlattenSeq(ls) \in Seq(Bytes)
    BY <1>1, FlattenIs, FlattenOf
  <1> QED
    BY <1>2 DEF Response, LogLines, Bytes, Texts, fs, ls

\* The frames from the k-th on.
LEMMA DropIs ==
    ASSUME NEW ps \in Texts, NEW k \in 1..Len(ps)
    PROVE  /\ From(ps, k) \in Texts /\ From(ps, k) # <<>>
           /\ From(ps, k)[1] = ps[k] /\ Tail(From(ps, k)) = From(ps, k + 1)
           /\ From(ps, k + 1) \in Texts
           /\ ps[k] \in Bytes
  <1> DEFINE n == Len(ps)
             s == SubSeq(ps, k, n)
             t == SubSeq(ps, k + 1, n)
  <1>1. ps \in Seq(Bytes) /\ n \in Nat /\ k \in Nat /\ 1 <= k /\ k <= n
    BY DEF Texts
  <1>2. ps[k] \in Bytes
    BY <1>1
  <1>3. Tail(s) = t
    <2>1. k \in 1..Len(ps) /\ n \in k..Len(ps)
      BY <1>1
    <2> QED
      BY <1>1, <2>1, HeadTailOfSubSeq
  <1>4. s \in Seq(Bytes) /\ Len(s) = n - k + 1 /\ s[1] = ps[k]
    <2>1. k \in Int /\ n \in Int /\ (\A i \in k..n : ps[i] \in Bytes) /\ 1 \in 1..(n - k + 1) /\ k <= n
      BY <1>1
    <2> HIDE DEF n
    <2>2. /\ s \in Seq(Bytes) /\ Len(s) = IF k <= n THEN n - k + 1 ELSE 0
          /\ \A i \in 1..(n - k + 1) : s[i] = ps[k + i - 1]
      BY <2>1, SubSeqProperties
    <2>3. k + 1 - 1 = k
      BY <1>1
    <2> HIDE DEF s
    <2> QED
      BY <2>1, <2>2, <2>3
  <1>5. t \in Seq(Bytes)
    <2>1. k + 1 \in Int /\ n \in Int /\ \A i \in (k + 1)..n : ps[i] \in Bytes
      BY <1>1
    <2> QED
      BY <2>1, SubSeqProperties
  <1> HIDE DEF s, t
  <1>6. s # <<>>
    BY <1>1, <1>4
  <1> QED
    BY <1>2, <1>3, <1>4, <1>5, <1>6 DEF From, Texts, s, t, n

\* Given a whole response, the loop sends its log lines.
LEMMA LoopSplits ==
    ASSUME NEW ps \in Texts
    PROVE  FrameLines(Response(ps)) = LogLines(ps)
  <1> DEFINE n == Len(ps)
             at(k) == From(ps, n - k + 1)
             G == {k \in 0..n : FrameLines(Response(at(k))) = LogLines(at(k))}
  <1>1. n \in Nat
    BY DEF Texts
  <1>2. 0 \in G
    <2>1. at(0) = <<>>
      <3>1. n - 0 + 1 \in Int /\ n \in Int /\ n < n - 0 + 1
        BY <1>1
      <3> HIDE DEF n
      <3> QED
        BY <3>1, SubSeqEmpty DEF From, n
    <2>2. FrameLines(<<>>) = <<>>
      <3> DEFINE b == <<>>
      <3>a. b \in Bytes /\ Len(b) = 0
        BY DEF Bytes
      <3>1. b \in Bytes /\ Len(b) = 0 /\ NonEmptyLines(b) = <<>>
        BY <3>a, NoLine
      <3> HIDE DEF b
      <3>2. PICK f : Parses(b, f) /\ FrameLines(b) = f[0]
        BY <3>1, FrameLinesIs
      <3>3. 0 \in 0..Len(b) /\ Len(Ending(b, 0)) = 0 /\ Ending(b, 0) \in Bytes
        BY <3>1, EndingIs
      <3>4. Ending(b, 0) = <<>>
        BY <3>3 DEF Bytes
      <3>5. ~HasFrame(Ending(b, 0))
        BY <3>3 DEF HasFrame, HeaderLen
      <3>6. f[0] = NonEmptyLines(Ending(b, 0))
        BY <3>2, <3>3, <3>5 DEF Parses, Sends
      <3> QED
        BY <3>1, <3>2, <3>4, <3>6 DEF b
    <2> QED
      BY <1>1, <2>1, <2>2, NoResponse
  <1>3. ASSUME NEW k \in 0..n, k \in G, k < n PROVE k + 1 \in G
    <2> DEFINE m == n - k
    <2>1. m \in 1..n /\ n - (k + 1) + 1 = m /\ n - k + 1 = m + 1 /\ k + 1 \in 0..n
      BY <1>1, <1>3
    <2>2. at(k + 1) = From(ps, m) /\ at(k) = From(ps, m + 1)
      BY <2>1
    <2> HIDE DEF m
    <2> DEFINE s == From(ps, m)
               t == From(ps, m + 1)
    <2>3. s \in Texts /\ s # <<>> /\ Tail(s) = t /\ t \in Texts /\ s[1] \in Bytes
      BY <2>1, DropIs
    <2> HIDE DEF s, t
    <2>4. Response(s) = Frame(s[1]) \o Response(t) /\ LogLines(s) = NonEmptyLines(s[1]) \o LogLines(t)
      BY <2>3, ResponseCons
    <2>5. FrameLines(Response(s)) = NonEmptyLines(s[1]) \o FrameLines(Response(t))
      BY <2>3, <2>4, FrameLinesCons, ResponseIsBytes
    <2>6. FrameLines(Response(t)) = LogLines(t)
      BY <1>3, <2>2 DEF t
    <2> QED
      BY <2>1, <2>2, <2>4, <2>5, <2>6 DEF s
  <1>4. n \in G
    <2>1. \A k \in 0..n : k \in G
      <3> HIDE DEF G, n
      <3> QED
        BY <1>1, <1>2, <1>3, UpTo
    <2>2. n \in 0..n
      BY <1>1
    <2> QED
      BY <2>1, <2>2
  <1>5. at(n) = ps
    <2>1. n - n + 1 = 1
      BY <1>1
    <2> QED
      BY <2>1, SubSeqFull DEF From, Texts
  <1> QED
    BY <1>4, <1>5

-----------------------------------------------------------------------------
(* A plain frame on its way.                                                *)

LEMMA PayloadIs ==
    ASSUME NEW p \in Payloads
    PROVE  p \in Bytes /\ Len(p) \in Nat \ {0}
  <1>1. p \in Seq(0..255) /\ p # <<>>
    BY FramesAssumption DEF FramesAssumption
  <1>2. 0..255 \subseteq Nat
    OBVIOUS
  <1>3. p \in Seq(Nat)
    BY <1>1, <1>2, SeqMonotonic
  <1> QED
    BY <1>1, <1>3 DEF Bytes

LEMMA FrontIs ==
    ASSUME NEW p \in Bytes, Len(p) > 0
    PROVE  /\ Front(p) \in Bytes /\ Len(Front(p)) = Len(p) - 1
           /\ \A i \in 1..(Len(p) - 1) : Front(p)[i] = p[i]
  <1> DEFINE n == Len(p)
             s == SubSeq(p, 1, n - 1)
  <1>1. n \in Nat /\ n > 0
    BY DEF Bytes
  <1>2. /\ 1 \in Int /\ n - 1 \in Int /\ (\A i \in 1..(n - 1) : p[i] \in Nat)
        /\ (n - 1) - 1 + 1 = n - 1 /\ \A i \in 1..(n - 1) : 1 + i - 1 = i
    BY <1>1 DEF Bytes
  <1>3. /\ s \in Seq(Nat) /\ Len(s) = IF 1 <= n - 1 THEN (n - 1) - 1 + 1 ELSE 0
        /\ \A i \in 1..((n - 1) - 1 + 1) : s[i] = p[1 + i - 1]
    BY <1>2, SubSeqProperties
  <1> HIDE DEF s, n
  <1>4. Len(s) = n - 1 /\ \A i \in 1..(n - 1) : s[i] = p[i]
    <2>1. (IF 1 <= n - 1 THEN (n - 1) - 1 + 1 ELSE 0) = n - 1
      BY <1>1
    <2>2. ASSUME NEW i \in 1..(n - 1) PROVE s[i] = p[i]
      <3>1. s[i] = p[1 + i - 1]
        BY <1>2, <1>3
      <3> QED
        BY <1>2, <3>1
    <2> QED
      BY <1>3, <2>1, <2>2
  <1> QED
    BY <1>3, <1>4 DEF Bytes, Front, s, n

LEMMA FrameLineIs ==
    ASSUME NEW p \in Bytes, Len(p) > 0
    PROVE  /\ FrameLine(p) \in Bytes /\ Len(FrameLine(p)) = HeaderLen + Len(p) - 1
           /\ \A i \in 1..HeaderLen : FrameLine(p)[i] = Header(p)[i]
           /\ \A i \in 1..(Len(p) - 1) : FrameLine(p)[HeaderLen + i] = p[i]
           /\ From(FrameLine(p), HeaderLen + 1) = Front(p)
  <1> DEFINE n == Len(p)
             h == Header(p)
             q == Front(p)
             l == FrameLine(p)
  <1>1. n \in Nat /\ n > 0
    BY DEF Bytes
  <1>2. h \in Seq(Nat) /\ Len(h) = 8
    BY FrameIs DEF HeaderLen, Bytes
  <1>3. q \in Seq(Nat) /\ Len(q) = n - 1 /\ \A i \in 1..(n - 1) : q[i] = p[i]
    BY FrontIs DEF Bytes
  <1>4. l = h \o q
    BY DEF FrameLine
  <1> HIDE DEF h, q, l, n
  <1>5. /\ l \in Seq(Nat) /\ Len(l) = 8 + (n - 1)
        /\ \A i \in 1..(8 + (n - 1)) : l[i] = IF i <= 8 THEN h[i] ELSE q[i - 8]
    <2>1. /\ h \o q \in Seq(Nat) /\ Len(h \o q) = Len(h) + Len(q)
          /\ \A i \in 1..(Len(h) + Len(q)) : (h \o q)[i] = IF i <= Len(h) THEN h[i] ELSE q[i - Len(h)]
      BY ONLY <1>2, <1>3, ConcatIs
    <2> QED
      BY <1>2, <1>3, <1>4, <2>1
  <1>6. \A i \in 1..8 : l[i] = h[i]
    <2>1. \A i \in 1..8 : i \in 1..(8 + (n - 1)) /\ i <= 8
      BY <1>1
    <2> QED
      BY <1>5, <2>1
  <1>7. ASSUME NEW i \in 1..(n - 1) PROVE l[8 + i] = q[i] /\ l[8 + i] = p[i]
    <2>1. 8 + i \in 1..(8 + (n - 1)) /\ ~(8 + i <= 8) /\ (8 + i) - 8 = i
      BY <1>1
    <2> QED
      BY <1>3, <1>5, <2>1
  <1>8. From(l, 9) = q
    <2> DEFINE e == Ending(l, n - 1)
    <2>1. n - 1 \in 0..Len(l) /\ Len(l) - (n - 1) + 1 = 9 /\ Len(l) - (n - 1) = 8
      BY <1>1, <1>5
    <2>2. e = From(l, 9)
      BY <2>1 DEF Ending
    <2>3. e \in Seq(Nat) /\ Len(e) = n - 1 /\ \A i \in 1..(n - 1) : e[i] = l[8 + i]
      <3>1. e \in Seq(Nat) /\ Len(e) = n - 1 /\ \A i \in 1..(n - 1) : e[i] = l[Len(l) - (n - 1) + i]
        BY ONLY <1>5, <2>1, EndIs
      <3> HIDE DEF e
      <3> QED
        BY <2>1, <3>1
    <2> HIDE DEF e
    <2>4. \A i \in 1..Len(e) : e[i] = q[i]
      BY <1>7, <2>3
    <2>5. e = q
      BY <1>3, <2>3, <2>4, SeqEqual
    <2> QED
      BY <2>2, <2>5
  <1>9. Len(l) = 8 + n - 1
    BY <1>1, <1>5
  <1> QED
    BY <1>5, <1>6, <1>7, <1>8, <1>9 DEF HeaderLen, Bytes, n, h, q, l

\* processPayload sends the line of a plain frame, header and all: the size in the
\* header counts the newline that is gone.
LEMMA PlainIsSent ==
    ASSUME NEW p \in Payloads, Plain(p)
    PROVE  processPayload(FrameLine(p)) = <<FrameLine(p)>>
  <1> DEFINE l == FrameLine(p)
             n == Len(p)
  <1>1. p \in Bytes /\ n \in Nat \ {0}
    BY PayloadIs
  <1>2. /\ l \in Bytes /\ Len(l) = HeaderLen + n - 1
        /\ \A i \in 1..HeaderLen : l[i] = Header(p)[i]
        /\ \A i \in 1..(n - 1) : l[HeaderLen + i] = p[i]
    BY <1>1, FrameLineIs
  <1>3. Header(p)[1] = 1 /\ \A i \in 1..HeaderLen : Header(p)[i] # NL
    BY <1>1, FrameIs DEF Plain
  <1>4. \A i \in 1..(n - 1) : p[i] # NL
    BY DEF Plain
  <1> HIDE DEF l
  <1>5. FrameSize(l) = n
    BY <1>1, <1>2, SizeIs
  <1>6. ~HasFrame(l)
    BY <1>1, <1>2, <1>5 DEF HasFrame, HeaderLen
  <1>7. l # <<>> /\ ~(Len(l) < HeaderLen)
    BY <1>1, <1>2 DEF HeaderLen, Bytes
  <1>8. LooksFramed(l)
    <2>1. l[1] = 1
      BY <1>2, <1>3 DEF HeaderLen
    <2> QED
      BY <2>1 DEF LooksFramed
  <1>9. FrameLines(l) = NonEmptyLines(l)
    <2>1. PICK f : Parses(l, f) /\ FrameLines(l) = f[Len(l)]
      BY <1>2, FrameLinesIs
    <2>2. Len(l) \in 0..Len(l) /\ Len(l) - Len(l) + 1 = 1
      BY <1>1, <1>2 DEF HeaderLen
    <2>3. Ending(l, Len(l)) = l
      BY <1>2, <2>2, SubSeqFull DEF Ending, From, Bytes
    <2> QED
      BY <1>6, <2>1, <2>2, <2>3 DEF Parses, Sends
  <1>10. NonEmptyLines(l) = <<l>>
    <2>1. \A i \in 1..Len(l) : l[i] # NL
      <3>1. TAKE i \in 1..Len(l)
      <3>2. CASE i <= HeaderLen
        <4>1. i \in 1..HeaderLen
          BY <1>1, <1>2, <3>2 DEF HeaderLen
        <4> QED
          BY <1>2, <1>3, <4>1
      <3>3. CASE ~(i <= HeaderLen)
        <4> DEFINE j == i - HeaderLen
        <4>1. j \in 1..(n - 1) /\ i = HeaderLen + j
          BY <1>1, <1>2, <3>3 DEF HeaderLen
        <4> HIDE DEF j
        <4> QED
          BY <1>2, <1>4, <4>1
      <3> QED
        BY <3>2, <3>3
    <2>2. Len(l) \in 1..Len(l)
      BY <1>1, <1>2 DEF HeaderLen
    <2>3. SubSeq(l, 1, Len(l)) = l
      BY <1>2, SubSeqFull DEF Bytes
    <2> DEFINE m == Len(l)
    <2> HIDE DEF m
    <2>4. NonEmptyLines(l) = <<SubSeq(l, 1, m)>>
      BY <1>2, <2>1, <2>2, OneLine DEF m
    <2> QED
      BY <2>3, <2>4 DEF m
  <1>11. processPayload(l) = FrameLines(l)
    BY <1>7, <1>8 DEF processPayload
  <1> QED
    BY <1>9, <1>10, <1>11 DEF l

\* stripFramePrefix takes the header off: the log line, or nothing, is left.
LEMMA PlainIsStripped ==
    ASSUME NEW p \in Payloads, Plain(p), NEW s \in Texts
    PROVE  (IF stripFramePrefix(FrameLine(p)) = <<>> THEN s
            ELSE Append(s, stripFramePrefix(FrameLine(p)))) = s \o NonEmptyLines(p)
  <1> DEFINE l == FrameLine(p)
             n == Len(p)
  <1>1. p \in Bytes /\ n \in Nat \ {0}
    BY PayloadIs
  <1>2. Len(l) = HeaderLen + n - 1 /\ From(l, HeaderLen + 1) = Front(p)
    BY <1>1, FrameLineIs
  <1>3. Front(p) \in Bytes /\ Len(Front(p)) = n - 1
    BY <1>1, FrontIs
  <1>4. p[n] = NL /\ \A i \in 1..(n - 1) : p[i] # NL
    BY DEF Plain
  <1> HIDE DEF l
  <1>5. CASE n = 1
    <2>1. stripFramePrefix(l) = <<>>
      BY <1>2, <1>5 DEF stripFramePrefix, HeaderLen
    <2>2. p = <<NL>>
      <3>1. p \in Seq(Nat) /\ Len(p) = 1 /\ p[1] = NL
        BY <1>1, <1>4, <1>5 DEF Bytes
      <3> HIDE DEF n
      <3> QED
        BY <3>1
    <2>3. NonEmptyLines(p) = <<>>
      BY <1>1, <2>2, NoLine
    <2>4. s \o <<>> = s
      BY ConcatEmptySeq DEF Texts
    <2> QED
      BY <2>1, <2>3, <2>4 DEF l
  <1>6. CASE n > 1
    <2>1. stripFramePrefix(l) = Front(p)
      <3>1. ~(Len(l) <= HeaderLen)
        BY <1>1, <1>2, <1>6 DEF HeaderLen
      <3> QED
        BY <1>2, <3>1 DEF stripFramePrefix
    <2>2. Front(p) # <<>>
      BY <1>1, <1>3, <1>6 DEF Bytes
    <2>3. NonEmptyLines(p) = <<Front(p)>>
      <3> DEFINE m == n - 1
      <3>1. m \in 1..Len(p) /\ m + 1 = Len(p) /\ \A i \in 1..m : p[i] # NL
        BY <1>1, <1>4, <1>6
      <3> HIDE DEF m
      <3>2. NonEmptyLines(p) = <<SubSeq(p, 1, m)>>
        BY <1>1, <1>4, <3>1, OneLine
      <3> QED
        BY <3>2 DEF m, Front
    <2>4. Append(s, Front(p)) = s \o <<Front(p)>>
      BY <1>3, AppendIsConcat DEF Texts
    <2> QED
      BY <2>1, <2>2, <2>3, <2>4 DEF l
  <1>a. n = 1 \/ n > 1
    <2> HIDE DEF n
    <2> QED
      BY <1>1
  <1> QED
    BY <1>a, <1>5, <1>6

\* ReadLine takes exactly a plain frame from the response.
LEMMA PlainIsRead ==
    ASSUME NEW p \in Payloads, Plain(p), NEW later \in Bytes
    PROVE  ReadLine(Frame(p) \o later) = [line |-> FrameLine(p), rest |-> later]
  <1> DEFINE n == Len(p)
             m == HeaderLen + n
             fp == Frame(p)
             b == fp \o later
             l == FrameLine(p)
  <1>1. p \in Bytes /\ n \in Nat \ {0} /\ HeaderLen = 8 /\ later \in Seq(Nat) /\ Len(later) \in Nat
    BY PayloadIs DEF HeaderLen, Bytes
  <1>2. /\ fp \in Seq(Nat) /\ Len(fp) = m
        /\ \A i \in 1..8 : fp[i] = Header(p)[i] /\ fp[i] # NL
        /\ \A i \in 1..n : fp[8 + i] = p[i]
        /\ fp[8] = n % 256
    <2>1. /\ fp \in Bytes /\ Len(fp) = HeaderLen + n /\ Header(p)[8] = n % 256
          /\ \A i \in 1..HeaderLen : fp[i] = Header(p)[i]
          /\ \A i \in 1..n : fp[HeaderLen + i] = p[i]
      BY <1>1, FrameIs
    <2>2. \A i \in 1..HeaderLen : Header(p)[i] # NL
      BY DEF Plain
    <2> HIDE DEF fp
    <2>3. /\ \A i \in 1..8 : fp[i] = Header(p)[i] /\ fp[i] # NL
          /\ \A i \in 1..n : fp[8 + i] = p[i]
      BY <1>1, <2>1, <2>2
    <2>4. fp[8] = n % 256
      BY <2>1, <2>3
    <2> QED
      BY <2>1, <2>3, <2>4 DEF Bytes
  <1>3. p[n] = NL /\ (\A i \in 1..(n - 1) : p[i] # NL /\ p[i] # CR) /\ m <= BufSize /\ BufSize \in Nat
    BY FramesAssumption DEF Plain, FramesAssumption
  <1> HIDE DEF fp
  <1>4. /\ b \in Seq(Nat) /\ Len(b) = m + Len(later)
        /\ \A i \in 1..(m + Len(later)) : b[i] = IF i <= m THEN fp[i] ELSE later[i - m]
    <2>a. fp \in Seq(Nat) /\ later \in Seq(Nat)
      BY <1>1, <1>2
    <2>1. /\ b \in Seq(Nat) /\ Len(b) = Len(fp) + Len(later)
          /\ \A i \in 1..(Len(fp) + Len(later)) : b[i] = IF i <= Len(fp) THEN fp[i] ELSE later[i - Len(fp)]
      BY ONLY <2>a, ConcatIs DEF b
    <2> QED
      <3>1. Len(fp) = m
        BY <1>2
      <3> QED
        BY ONLY <2>1, <3>1
  <1> HIDE DEF b
  <1>5. m \in Nat /\ m >= 9 /\ m \in 1..Len(b) /\ \A i \in 1..m : i \in 1..(m + Len(later)) /\ i <= m
    BY <1>1, <1>4
  <1>6. \A i \in 1..m : b[i] = fp[i]
    BY <1>4, <1>5
  <1>7. fp[m] = NL
    <2>1. n \in 1..n /\ 8 + n = m
      BY <1>1
    <2> QED
      BY <1>2, <1>3, <2>1
  <1>8. ASSUME NEW i \in 1..(m - 1) PROVE fp[i] # NL /\ i \in 1..m
    <2>1. i \in 1..m
      BY <1>5
    <2>2. CASE i <= 8
      <3>1. i \in 1..8
        BY <2>2
      <3> QED
        BY <1>2, <2>1, <3>1
    <2>3. CASE ~(i <= 8)
      <3> DEFINE j == i - 8
      <3>1. j \in 1..(n - 1) /\ j \in 1..n /\ i = 8 + j
        BY <1>1, <1>5, <2>3
      <3> HIDE DEF j
      <3> QED
        <4>1. fp[8 + j] = p[j] /\ p[j] # NL
          BY ONLY <1>2, <1>3, <3>1, Zenon
        <4> QED
          BY ONLY <2>1, <3>1, <4>1, Zenon
    <2> QED
      BY <2>2, <2>3
  <1>9. SliceLen(b) = m
    <2> DEFINE ends == {i \in 1..Len(b) : b[i] = NL \/ i = BufSize \/ i = Len(b)}
    <2>1. m \in ends
      <3>1. m \in 1..m
        BY <1>5
      <3> QED
        BY <1>5, <1>6, <1>7, <3>1
    <2>2. ASSUME NEW i \in ends PROVE m <= i
      <3>1. CASE i < m
        <4>1. i \in 1..(m - 1)
          BY <1>5, <3>1
        <4>2. b[i] # NL
          BY <1>6, <1>8, <4>1
        <4>3. i # BufSize /\ i # Len(b)
          <5>1. /\ m \in Nat /\ m <= BufSize /\ BufSize \in Nat
                /\ Len(b) = m + Len(later) /\ Len(later) \in Nat
            BY <1>1, <1>3, <1>4, <1>5
          <5>2. i \in Nat
            BY <4>1
          <5> QED
            BY ONLY <3>1, <5>1, <5>2
        <4> QED
          BY <4>2, <4>3
      <3> QED
        BY <1>5, <3>1
    <2>3. \A i \in ends : i \in Nat
      OBVIOUS
    <2> HIDE DEF ends
    <2>4. (CHOOSE i \in ends : \A j \in ends : i <= j) = m
      <3> DEFINE c == CHOOSE i \in ends : \A j \in ends : i <= j
      <3>1. c \in ends /\ \A j \in ends : c <= j
        BY <2>1, <2>2
      <3> HIDE DEF c
      <3>2. c <= m /\ m <= c /\ c \in Nat
        BY <2>1, <2>2, <2>3, <3>1
      <3>3. c = m
        BY <1>5, <3>2
      <3> QED
        BY <3>3 DEF c
    <2> QED
      BY <2>4, Zenon DEF SliceLen, ends
  <1> DEFINE raw == SubSeq(b, 1, m)
  <1>10. raw \in Seq(Nat) /\ Len(raw) = m /\ \A i \in 1..m : raw[i] = fp[i]
    <2>1. /\ 1 \in Int /\ m \in Int /\ 1 <= m /\ m - 1 + 1 = m /\ \A i \in 1..m : b[i] \in Nat
          /\ \A i \in 1..m : 1 + i - 1 = i
      BY <1>4, <1>5
    <2> HIDE DEF m
    <2>2. /\ raw \in Seq(Nat) /\ Len(raw) = IF 1 <= m THEN m - 1 + 1 ELSE 0
          /\ \A i \in 1..(m - 1 + 1) : raw[i] = b[1 + i - 1]
      BY <2>1, SubSeqProperties
    <2> HIDE DEF raw
    <2>3. \A i \in 1..m : raw[i] = b[i]
      BY <2>1, <2>2
    <2> QED
      BY <1>6, <2>1, <2>2, <2>3
  <1> HIDE DEF raw
  <1>11. raw[m] = NL /\ raw[m - 1] # CR
    <2>1. m \in 1..m /\ m - 1 \in 1..m
      BY <1>5
    <2>2. fp[m - 1] # CR
      <3>1. CASE n = 1
        <4>1. m - 1 = 8 /\ fp[8] = 1
          BY <1>1, <1>2, <3>1
        <4> QED
          BY <4>1 DEF CR
      <3>2. CASE n > 1
        <4> DEFINE j == n - 1
        <4>1. j \in 1..n /\ j \in 1..(n - 1) /\ 8 + j = m - 1
          BY <1>1, <3>2
        <4> HIDE DEF j
        <4>2. fp[8 + j] = p[j] /\ p[j] # CR
          BY <1>2, <1>3, <4>1
        <4> QED
          BY <4>1, <4>2
      <3>3. n = 1 \/ n > 1
        <4> HIDE DEF n
        <4> QED
          BY <1>1
      <3> QED
        BY <3>1, <3>2, <3>3
    <2> QED
      BY <1>7, <1>10, <2>1, <2>2
  <1>12. SubSeq(raw, 1, m - 1) = l
    <2>1. /\ l \in Seq(Nat) /\ Len(l) = m - 1
          /\ \A i \in 1..8 : l[i] = Header(p)[i]
          /\ \A i \in 1..(n - 1) : l[8 + i] = p[i]
      BY <1>1, FrameLineIs DEF Bytes
    <2> DEFINE s == SubSeq(raw, 1, m - 1)
    <2>2. s \in Seq(Nat) /\ Len(s) = m - 1 /\ \A i \in 1..(m - 1) : s[i] = raw[i]
      <3>1. raw \in Bytes /\ Len(raw) > 0
        BY <1>5, <1>10 DEF Bytes
      <3> QED
        <4>1. Len(raw) = m /\ s = Front(raw)
          BY <1>10 DEF Front
        <4> HIDE DEF s
        <4> QED
          BY ONLY <3>1, <4>1, FrontIs DEF Bytes
    <2> HIDE DEF s, l
    <2>3. ASSUME NEW i \in 1..(m - 1) PROVE l[i] = fp[i]
      <3>1. CASE i <= 8
        <4>1. i \in 1..8
          BY <3>1
        <4> QED
          BY <1>2, <2>1, <4>1
      <3>2. CASE ~(i <= 8)
        <4> DEFINE j == i - 8
        <4>1. j \in 1..(n - 1) /\ j \in 1..n /\ i = 8 + j
          BY <1>1, <1>5, <3>2
        <4> HIDE DEF j
        <4> QED
          <5>1. l[8 + j] = p[j]
            BY ONLY <2>1, <4>1
          <5>2. fp[8 + j] = p[j]
            BY ONLY <1>2, <4>1, Zenon
          <5> QED
            BY <4>1, <5>1, <5>2
      <3> QED
        BY <3>1, <3>2
    <2>4. ASSUME NEW i \in 1..(m - 1) PROVE s[i] = l[i]
      BY <1>8, <1>10, <2>2, <2>3
    <2>5. s = l
      BY <2>1, <2>2, <2>4, SeqEqual
    <2> QED
      BY <2>5 DEF s
  <1>13. From(b, m + 1) = later
    <2> DEFINE k == Len(later)
               e == Ending(b, k)
    <2>1. k \in 0..Len(b) /\ Len(b) - k + 1 = m + 1 /\ Len(b) - k = m /\ k \in Nat
      BY <1>1, <1>4, <1>5
    <2>2. e = From(b, m + 1)
      BY <2>1 DEF Ending
    <2>3. e \in Seq(Nat) /\ Len(e) = k /\ \A i \in 1..k : e[i] = b[Len(b) - k + i]
      <3>1. b \in Seq(Nat) /\ k \in 0..Len(b)
        BY <1>4, <2>1
      <3> HIDE DEF k
      <3> QED
        BY ONLY <3>1, EndIs, Zenon
    <2> HIDE DEF e
    <2>4. ASSUME NEW i \in 1..k PROVE e[i] = later[i]
      <3>1. m + i \in 1..(m + Len(later)) /\ ~(m + i <= m) /\ (m + i) - m = i
        BY <1>5, <2>1
      <3>2. b[m + i] = later[i]
        BY <1>4, <3>1
      <3> QED
        BY <2>1, <2>3, <3>2
    <2>5. e = later
      BY <1>1, <2>3, <2>4, SeqEqual
    <2> QED
      BY <2>2, <2>5
  <1> HIDE DEF m, l
  <1>14. ReadLine(b) = [line |-> SubSeq(raw, 1, m - 1), rest |-> From(b, m + 1)]
    BY <1>9, <1>11 DEF ReadLine, raw
  <1> QED
    BY <1>12, <1>13, <1>14 DEF b, fp, l

\* One more frame, one more frame's lines.
LEMMA LogLinesTo ==
    ASSUME NEW ps \in Texts, NEW k \in 1..Len(ps)
    PROVE  LogLines(SubSeq(ps, 1, k)) = LogLines(SubSeq(ps, 1, k - 1)) \o NonEmptyLines(ps[k])
  <1> DEFINE n == Len(ps)
             s == SubSeq(ps, 1, k)
             t == SubSeq(ps, 1, k - 1)
             ls == [i \in DOMAIN s |-> NonEmptyLines(s[i])]
             lt == [i \in DOMAIN t |-> NonEmptyLines(t[i])]
             x == NonEmptyLines(ps[k])
  <1>1. n \in Nat /\ k \in Nat /\ 1 <= k /\ k <= n /\ k - 1 \in Nat /\ \A i \in 1..n : ps[i] \in Bytes
    BY DEF Texts
  <1>2. s \in Texts /\ Len(s) = k /\ \A i \in 1..k : s[i] = ps[i]
    <2>1. 1 \in Int /\ k \in Int /\ k - 1 + 1 = k /\ \A i \in 1..k : ps[i] \in Bytes /\ 1 + i - 1 = i
      BY <1>1
    <2>2. /\ s \in Seq(Bytes) /\ Len(s) = IF 1 <= k THEN k - 1 + 1 ELSE 0
          /\ \A i \in 1..(k - 1 + 1) : s[i] = ps[1 + i - 1]
      BY <2>1, SubSeqProperties
    <2> HIDE DEF s
    <2> QED
      BY <1>1, <2>1, <2>2 DEF Texts
  <1>3. t \in Texts /\ Len(t) = k - 1 /\ \A i \in 1..(k - 1) : t[i] = ps[i]
    <2> DEFINE m == k - 1
    <2>1. 1 \in Int /\ m \in Int /\ m - 1 + 1 = m /\ \A i \in 1..m : ps[i] \in Bytes /\ 1 + i - 1 = i
      BY <1>1
    <2>a. m \in Nat /\ (IF 1 <= m THEN m - 1 + 1 ELSE 0) = m
      BY <1>1
    <2> HIDE DEF m
    <2> DEFINE u == SubSeq(ps, 1, m)
    <2>2. /\ u \in Seq(Bytes) /\ Len(u) = IF 1 <= m THEN m - 1 + 1 ELSE 0
          /\ \A i \in 1..(m - 1 + 1) : u[i] = ps[1 + i - 1]
      BY <2>1, SubSeqProperties
    <2> HIDE DEF u
    <2>3. u \in Texts /\ Len(u) = m /\ \A i \in 1..m : u[i] = ps[i]
      BY <2>1, <2>a, <2>2 DEF Texts
    <2> QED
      BY <2>3 DEF u, m
  <1> HIDE DEF s, t
  <1>4. ls \in Seq(Texts) /\ Len(ls) = k /\ \A i \in 1..k : ls[i] = NonEmptyLines(ps[i])
    <2>1. ls \in Seq(Texts) /\ Len(ls) = k /\ DOMAIN s = 1..k
      BY <1>2, ResponseIs
    <2> QED
      BY <1>2, <2>1
  <1>5. lt \in Seq(Texts) /\ Len(lt) = k - 1 /\ \A i \in 1..(k - 1) : lt[i] = NonEmptyLines(ps[i])
    <2>1. lt \in Seq(Texts) /\ Len(lt) = k - 1 /\ DOMAIN t = 1..(k - 1)
      BY <1>3, ResponseIs
    <2> QED
      BY <1>3, <2>1
  <1>6. x \in Texts
    BY <1>1, LinesAreTexts
  <1>7. LogLines(s) = FlattenSeq(ls) /\ LogLines(t) = FlattenSeq(lt)
    BY DEF LogLines
  <1> HIDE DEF ls, lt
  <1>8. ls = Append(lt, x)
    <2> DEFINE a == Append(lt, x)
    <2>1. /\ a \in Seq(Texts) /\ Len(a) = (k - 1) + 1 /\ a[(k - 1) + 1] = x
          /\ \A i \in 1..(k - 1) : a[i] = lt[i]
      BY <1>5, <1>6, AppendProperties
    <2> HIDE DEF a
    <2>2. (k - 1) + 1 = k /\ \A i \in 1..k : i \in 1..(k - 1) \/ i = k
      BY <1>1
    <2>3. ASSUME NEW i \in 1..k PROVE ls[i] = a[i]
      <3>1. CASE i \in 1..(k - 1)
        BY <1>4, <1>5, <2>1, <3>1
      <3>2. CASE i = k
        BY <1>4, <2>1, <2>2, <3>2
      <3> QED
        BY <2>2, <3>1, <3>2
    <2>4. ls = a
      BY <1>4, <2>1, <2>2, <2>3, SeqEqual
    <2> QED
      BY <2>4 DEF a
  <1>9. FlattenSeq(ls) = FlattenSeq(lt) \o x
    BY <1>5, <1>6, <1>8, FlattenAppend DEF Texts
  <1> QED
    BY <1>7, <1>9 DEF s, t

-----------------------------------------------------------------------------
(* The theorems.                                                            *)

LEMMA FramesAreTexts ==
    ASSUME frames \in Seq(Payloads)
    PROVE  frames \in Texts
  <1>1. Payloads \subseteq Bytes
    BY PayloadIs
  <1> QED
    BY <1>1, SeqMonotonic DEF Texts

LEMMA IInvInit == Init => IInv
  <1> SUFFICES ASSUME Init PROVE IInv
    OBVIOUS
  <1>1. frames \in Seq(Payloads) /\ follow \in BOOLEAN
    BY DEF Init
  <1>2. frames \in Texts /\ Len(frames) \in Nat
    BY <1>1, FramesAreTexts
  <1>3. From(frames, 0 + 1) = frames
    <2>1. 0 + 1 = 1
      OBVIOUS
    <2> QED
      BY <1>2, <2>1, SubSeqFull DEF From, Texts
  <1>4. Sent(0) = <<>>
    <2>1. CASE follow
      <3>1. Sent(0) = [i \in 1..0 |-> FrameLine(frames[i])]
        BY <2>1 DEF Sent
      <3> QED
        BY <3>1
    <2>2. CASE ~follow
      <3>1. SubSeq(frames, 1, 0) = <<>>
        BY SubSeqEmpty
      <3> QED
        BY <2>2, <3>1, NoResponse DEF Sent
    <2> QED
      BY <2>1, <2>2
  <1>5. 0 \in 0..Len(frames)
    BY <1>2
  <1> QED
    BY <1>1, <1>3, <1>4, <1>5 DEF Init, IInv

LEMMA IInvNext == IInv /\ [Next]_vars => IInv'
  <1> SUFFICES ASSUME IInv, [Next]_vars PROVE IInv'
    OBVIOUS
  <1>1. frames \in Seq(Payloads) /\ follow \in BOOLEAN /\ frames \in Texts /\ Len(frames) \in Nat
    BY FramesAreTexts DEF IInv
  <1>2. frames' = frames /\ follow' = follow
    BY DEF Next, Read, StreamLine, CollectLine, vars
  <1>3. PlainResponse' <=> PlainResponse
    BY <1>2 DEF PlainResponse
  <1>4. \A k : Sent(k)' = Sent(k)
    BY <1>2 DEF Sent
  <1> SUFFICES ASSUME PlainResponse
               PROVE  \E k \in 0..Len(frames) :
                        /\ rest' = Response(From(frames, k + 1))
                        /\ \/ line' = <<>> /\ sent' = Sent(k)
                           \/ k > 0 /\ line' = <<FrameLine(frames[k])>> /\ sent' = Sent(k - 1)
    BY <1>1, <1>2, <1>3, <1>4 DEF IInv
  <1>5. PICK k \in 0..Len(frames) :
            /\ rest = Response(From(frames, k + 1))
            /\ \/ line = <<>> /\ sent = Sent(k)
               \/ k > 0 /\ line = <<FrameLine(frames[k])>> /\ sent = Sent(k - 1)
    BY DEF IInv
  <1>6. \A i \in 1..Len(frames) : frames[i] \in Payloads /\ Plain(frames[i])
    BY <1>1 DEF PlainResponse
  \* The next frame is read whole.
  <1>7. CASE Read
    <2> DEFINE j == k + 1
    <2>1. rest # <<>> /\ line = <<>> /\ sent' = sent
          /\ line' = <<ReadLine(rest).line>> /\ rest' = ReadLine(rest).rest
      BY <1>7 DEF Read
    <2>2. sent = Sent(k)
      BY <1>5, <2>1
    <2>3. k # Len(frames)
      <3>1. ASSUME k = Len(frames) PROVE rest = <<>>
        <4>1. From(frames, k + 1) = <<>>
          <5> DEFINE n == Len(frames)
          <5>1. n + 1 \in Int /\ n \in Int /\ n < n + 1
            BY <1>1
          <5> HIDE DEF n
          <5> QED
            BY <3>1, <5>1, SubSeqEmpty DEF From, n
        <4> QED
          BY <1>5, <4>1, NoResponse
      <3> QED
        BY <2>1, <3>1
    <2>4. j \in 1..Len(frames) /\ j \in 0..Len(frames) /\ j > 0 /\ j - 1 = k
      BY <1>1, <2>3
    <2> HIDE DEF j
    <2> DEFINE p == frames[j]
               later == Response(From(frames, j + 1))
    <2>5. p \in Payloads /\ Plain(p)
      BY <1>6, <2>4
    <2>6. rest = Frame(p) \o later
      <3>1. /\ From(frames, j) \in Texts /\ From(frames, j) # <<>> /\ From(frames, j)[1] = p
            /\ Tail(From(frames, j)) = From(frames, j + 1)
        BY <1>1, <2>4, DropIs
      <3> QED
        BY <1>5, <3>1, ResponseCons DEF j
    <2>7. later \in Bytes
      BY <1>1, <2>4, DropIs, ResponseIsBytes
    <2> HIDE DEF p, later
    <2>8. ReadLine(rest) = [line |-> FrameLine(p), rest |-> later]
      BY <2>5, <2>6, <2>7, PlainIsRead
    <2>9. line' = <<FrameLine(frames[j])>> /\ rest' = Response(From(frames, j + 1)) /\ sent' = Sent(j - 1)
      BY <2>1, <2>2, <2>4, <2>8 DEF p, later
    <2> QED
      BY <2>4, <2>9
  \* A line in the hands of the writer is the k-th.
  <1>8. ASSUME line # <<>>
        PROVE  /\ k \in 1..Len(frames) /\ line = <<FrameLine(frames[k])>> /\ line[1] = FrameLine(frames[k])
               /\ sent = Sent(k - 1) /\ frames[k] \in Payloads /\ Plain(frames[k])
    <2>1. k > 0 /\ line = <<FrameLine(frames[k])>> /\ sent = Sent(k - 1)
      BY <1>5, <1>8
    <2>2. k \in 1..Len(frames)
      BY <1>1, <2>1
    <2> QED
      BY <1>6, <2>1, <2>2
  <1>9. CASE StreamLine
    <2>1. line # <<>> /\ follow /\ line' = <<>> /\ rest' = rest /\ sent' = sent \o processPayload(line[1])
      BY <1>9 DEF StreamLine
    <2>2. processPayload(line[1]) = <<FrameLine(frames[k])>>
      BY <1>8, <2>1, PlainIsSent
    <2>3. Sent(k) = Sent(k - 1) \o <<FrameLine(frames[k])>>
      <3> DEFINE a == [i \in 1..k |-> FrameLine(frames[i])]
                 b == [i \in 1..(k - 1) |-> FrameLine(frames[i])]
      <3>1. k \in Nat /\ k - 1 \in Nat /\ (k - 1) + 1 = k
            /\ \A i \in 1..k : FrameLine(frames[i]) \in Bytes
        <4>1. k \in Nat /\ k >= 1 /\ \A i \in 1..k : i \in 1..Len(frames)
          BY <1>1, <1>8, <2>1
        <4>2. \A i \in 1..k : FrameLine(frames[i]) \in Bytes
          <5>1. TAKE i \in 1..k
          <5>2. frames[i] \in Bytes /\ Len(frames[i]) > 0
            BY <1>6, <4>1, PayloadIs
          <5> QED
            BY <5>2, FrameLineIs
        <4> QED
          BY <4>1, <4>2
      <3>2. a \in [1..k -> Bytes] /\ b \in [1..(k - 1) -> Bytes]
        BY <3>1
      <3>3. k \in 1..k /\ \A i \in 1..k : i \in 1..(k - 1) \/ i = k
        BY <3>1
      <3>4. a[k] = FrameLine(frames[k]) /\ \A i \in 1..(k - 1) : a[i] = b[i]
        BY <3>1, <3>3
      <3> HIDE DEF a, b
      <3>5. a \in Texts /\ Len(a) = k /\ b \in Texts /\ Len(b) = k - 1
        BY <3>1, <3>2 DEF Texts
      <3> DEFINE x == FrameLine(frames[k])
                 c == Append(b, x)
      <3>6. x \in Bytes
        BY <3>1, <3>3
      <3> HIDE DEF x
      <3>7. /\ c \in Seq(Bytes) /\ Len(c) = k /\ c[k] = x /\ \A i \in 1..(k - 1) : c[i] = b[i]
        <4>1. /\ c \in Seq(Bytes) /\ Len(c) = Len(b) + 1 /\ c[Len(b) + 1] = x
              /\ \A i \in 1..Len(b) : c[i] = b[i]
          BY <3>5, <3>6, AppendProperties DEF Texts
        <4> HIDE DEF c
        <4> QED
          BY <3>1, <3>5, <4>1
      <3>8. c = b \o <<x>>
        BY <3>5, <3>6, AppendIsConcat DEF Texts
      <3> HIDE DEF c
      <3>9. \A i \in 1..k : a[i] = c[i]
        BY <3>3, <3>4, <3>7 DEF x
      <3>10. a = c
        BY <3>5, <3>7, <3>9, SeqEqual DEF Texts
      <3> QED
        BY <2>1, <3>8, <3>10 DEF Sent, a, b, x
    <2> QED
      BY <1>5, <1>8, <2>1, <2>2, <2>3
  <1>10. CASE CollectLine
    <2>1. /\ line # <<>> /\ ~follow /\ line' = <<>> /\ rest' = rest
          /\ sent' = IF stripFramePrefix(line[1]) = <<>> THEN sent
                     ELSE Append(sent, stripFramePrefix(line[1]))
      BY <1>10 DEF CollectLine
    <2>2. sent = LogLines(SubSeq(frames, 1, k - 1)) /\ Sent(k) = LogLines(SubSeq(frames, 1, k))
      BY <1>8, <2>1 DEF Sent
    <2>3. sent \in Texts
      <3>1. \A i \in 1..(k - 1) : frames[i] \in Bytes
        <4>1. \A i \in 1..(k - 1) : i \in 1..Len(frames)
          BY <1>1, <1>8, <2>1
        <4> QED
          BY <1>1, <4>1 DEF Texts
      <3>2. 1 \in Int /\ k - 1 \in Int
        BY <1>1
      <3>3. SubSeq(frames, 1, k - 1) \in Texts
        BY <3>1, <3>2, SubSeqProperties DEF Texts
      <3> QED
        BY <2>2, <3>3, ResponseIsBytes
    <2>4. sent' = sent \o NonEmptyLines(frames[k])
      BY <1>8, <2>1, <2>3, PlainIsStripped
    <2>5. Sent(k) = sent \o NonEmptyLines(frames[k])
      BY <1>1, <1>8, <2>1, <2>2, LogLinesTo
    <2> QED
      BY <1>5, <2>1, <2>4, <2>5
  <1>11. CASE UNCHANGED vars
    BY <1>5, <1>11 DEF vars
  <1> QED
    BY <1>7, <1>9, <1>10, <1>11 DEF Next

LEMMA IInvAlways == Spec => []IInv
  BY IInvInit, IInvNext, PTL DEF Spec

\* When all of a plain response has been read, all of it has been sent.
LEMMA AllIsSent ==
    ASSUME IInv, AllRead, PlainResponse
    PROVE  sent = Sent(Len(frames)) /\ frames \in Texts /\ Len(frames) \in Nat
  <1>1. frames \in Texts /\ Len(frames) \in Nat
    BY FramesAreTexts DEF IInv
  <1>2. PICK k \in 0..Len(frames) :
            /\ rest = Response(From(frames, k + 1))
            /\ \/ line = <<>> /\ sent = Sent(k)
               \/ k > 0 /\ line = <<FrameLine(frames[k])>> /\ sent = Sent(k - 1)
    BY DEF IInv
  <1>3. rest = <<>> /\ sent = Sent(k)
    BY <1>2 DEF AllRead
  <1>4. ASSUME k # Len(frames) PROVE FALSE
    <2> DEFINE j == k + 1
               p == frames[j]
    <2>1. j \in 1..Len(frames)
      BY <1>1, <1>4
    <2>2. /\ From(frames, j) \in Texts /\ From(frames, j) # <<>> /\ From(frames, j)[1] = p
          /\ Tail(From(frames, j)) = From(frames, j + 1) /\ From(frames, j + 1) \in Texts /\ p \in Bytes
      BY <1>1, <2>1, DropIs
    <2> HIDE DEF p, j
    <2>3. rest = Frame(p) \o Response(From(frames, j + 1))
      BY <1>2, <2>2, ResponseCons DEF j
    <2>4. Response(From(frames, j + 1)) \in Seq(Nat)
      BY <2>2, ResponseIsBytes DEF Bytes
    <2>5. Frame(p) \in Seq(Nat) /\ Len(Frame(p)) = HeaderLen + Len(p) /\ Len(p) \in Nat
      <3>1. Len(p) \in Nat
        BY <2>2 DEF Bytes
      <3> QED
        BY <2>2, <3>1, FrameIs DEF Bytes
    <2> DEFINE fp == Frame(p)
               later == Response(From(frames, j + 1))
    <2>6. fp \in Seq(Nat) /\ Len(fp) > 0 /\ later \in Seq(Nat) /\ rest = fp \o later
      BY <2>3, <2>4, <2>5 DEF HeaderLen
    <2> HIDE DEF fp, later
    <2>7. Len(rest) = Len(fp) + Len(later) /\ Len(later) \in Nat
      BY <2>6, ConcatProperties
    <2>8. Len(rest) = 0
      BY <1>3
    <2> QED
      BY <2>6, <2>7, <2>8
  <1> QED
    BY <1>1, <1>3, <1>4

\* Whatever the sizes and the texts of the frames, and however many there are,
\* processPayload finds every log line of a response it is given whole.
THEOREM AggregateIsSplitHolds == Spec => []AggregateIsSplit
  <1>1. IInv => AggregateIsSplit
    <2> SUFFICES ASSUME IInv, frames # <<>>
                 PROVE  processPayload(Response(frames)) = LogLines(frames)
      BY DEF AggregateIsSplit
    <2>1. frames \in Texts
      BY FramesAreTexts DEF IInv
    <2> DEFINE b == Response(frames)
               p == frames[1]
               t == Response(Tail(frames))
    <2>2. b = Frame(p) \o t /\ p \in Bytes /\ t \in Bytes
      <3>1. p \in Bytes /\ Tail(frames) \in Texts
        BY <2>1, HeadTailProperties DEF Texts
      <3> QED
        BY <2>1, <3>1, ResponseCons, ResponseIsBytes
    <2> HIDE DEF b, p, t
    <2>3. b \in Seq(Nat) /\ Len(b) >= HeaderLen /\ b[1] = 1
      <3> DEFINE fp == Frame(p)
      <3>1. fp \in Seq(Nat) /\ Len(fp) >= HeaderLen /\ fp[1] = 1 /\ t \in Seq(Nat) /\ Len(t) \in Nat
        <4>1. Len(p) \in Nat /\ Len(t) \in Nat /\ t \in Seq(Nat)
          BY <2>2 DEF Bytes
        <4>2. /\ fp \in Bytes /\ Len(fp) = HeaderLen + Len(p) /\ Header(p)[1] = 1
              /\ \A i \in 1..HeaderLen : fp[i] = Header(p)[i]
          BY <2>2, FrameIs
        <4> HIDE DEF fp
        <4> QED
          <5>1. fp \in Seq(Nat) /\ t \in Seq(Nat) /\ Len(t) \in Nat
            BY <4>1, <4>2, Zenon DEF Bytes
          <5>2. Len(fp) >= HeaderLen
            BY ONLY <4>1, <4>2 DEF HeaderLen
          <5>3. fp[1] = 1
            <6>1. 1 \in 1..HeaderLen
              BY DEF HeaderLen
            <6> QED
              BY ONLY <4>2, <6>1, Zenon
          <5> QED
            BY <5>1, <5>2, <5>3
      <3> HIDE DEF fp
      <3>2. /\ fp \o t \in Seq(Nat) /\ Len(fp \o t) = Len(fp) + Len(t)
            /\ \A i \in 1..(Len(fp) + Len(t)) : (fp \o t)[i] = IF i <= Len(fp) THEN fp[i] ELSE t[i - Len(fp)]
        BY <3>1, ConcatProperties
      <3>3. Len(fp) \in Nat /\ 1 \in 1..(Len(fp) + Len(t)) /\ 1 <= Len(fp)
        BY <3>1 DEF HeaderLen
      <3>4. b = fp \o t
        BY <2>2 DEF fp
      <3> QED
        BY <3>1, <3>2, <3>3, <3>4 DEF HeaderLen
    <2>4. b # <<>> /\ ~(Len(b) < HeaderLen) /\ LooksFramed(b)
      BY <2>3 DEF HeaderLen, LooksFramed
    <2>5. processPayload(b) = FrameLines(b)
      BY <2>4 DEF processPayload
    <2>6. FrameLines(b) = LogLines(frames)
      BY <2>1, LoopSplits DEF b
    <2> QED
      BY <2>5, <2>6 DEF b
  <1> QED
    BY <1>1, IInvAlways, PTL

\* For a response of any number of plain frames, a one-shot client gets the log
\* lines, all of them and without the headers.
THEOREM TailLinesArePlainHolds == Spec => []TailLinesArePlain
  <1>1. IInv => TailLinesArePlain
    <2> SUFFICES ASSUME IInv, ~follow, AllRead, PlainResponse
                 PROVE  sent = LogLines(frames)
      BY DEF TailLinesArePlain
    <2>1. sent = Sent(Len(frames)) /\ frames \in Texts
      BY AllIsSent
    <2>2. SubSeq(frames, 1, Len(frames)) = frames
      BY <2>1, SubSeqFull DEF Texts
    <2> QED
      BY <2>1, <2>2 DEF Sent
  <1> QED
    BY <1>1, IInvAlways, PTL

\* For a response of any number of plain frames, a follow client gets one message
\* for each, with the whole line after the header.
THEOREM FollowKeepsTextHolds == Spec => []FollowKeepsText
  <1>1. IInv => FollowKeepsText
    <2> SUFFICES ASSUME IInv, follow, AllRead, PlainResponse
                 PROVE  /\ Len(sent) = Len(frames)
                        /\ \A i \in DOMAIN sent : From(sent[i], HeaderLen + 1) = Front(frames[i])
      BY DEF FollowKeepsText
    <2>1. sent = Sent(Len(frames)) /\ frames \in Texts /\ Len(frames) \in Nat
      BY AllIsSent
    <2>2. sent = [i \in 1..Len(frames) |-> FrameLine(frames[i])]
      BY <2>1 DEF Sent
    <2>3. Len(sent) = Len(frames) /\ DOMAIN sent = 1..Len(frames)
      <3> DEFINE n == Len(frames)
                 s == [i \in 1..n |-> FrameLine(frames[i])]
      <3>1. n \in Nat /\ sent = s
        BY <2>1, <2>2
      <3> HIDE DEF n
      <3>2. DOMAIN s = 1..n /\ Len(s) = n
        BY <3>1
      <3> QED
        BY <3>1, <3>2 DEF n
    <2>4. ASSUME NEW i \in 1..Len(frames) PROVE From(sent[i], HeaderLen + 1) = Front(frames[i])
      <3>1. frames[i] \in Payloads
        BY DEF IInv
      <3>2. frames[i] \in Bytes /\ Len(frames[i]) > 0
        BY <3>1, PayloadIs
      <3>3. From(FrameLine(frames[i]), HeaderLen + 1) = Front(frames[i])
        BY <3>2, FrameLineIs
      <3> QED
        BY <2>2, <3>3
    <2> QED
      BY <2>3, <2>4
  <1> QED
    BY <1>1, IInvAlways, PTL
-----------------------------------------------------------------------------
(* Types: whatever a response holds, what becomes of it are pieces of it.   *)

Byte == 0..255

LEMMA PartIs ==
    ASSUME NEW S, NEW b \in Seq(S), NEW m \in Nat \ {0}, NEW n \in Int, n <= Len(b)
    PROVE  SubSeq(b, m, n) \in Seq(S)
  <1>1. \A i \in m..n : i \in 1..Len(b)
    OBVIOUS
  <1>2. \A i \in m..n : b[i] \in S
    BY <1>1
  <1>3. m \in Int
    OBVIOUS
  <1> QED
    BY <1>2, <1>3, SubSeqProperties

LEMMA BytesHaveLengths ==
    ASSUME NEW b \in Seq(Byte)
    PROVE  b \in Bytes /\ Len(b) \in Nat
  <1>1. Len(b) \in Nat
    OBVIOUS
  <1>2. Byte \subseteq Nat
    BY DEF Byte
  <1>3. b \in Seq(Nat)
    BY <1>2, SeqMonotonic
  <1> QED
    BY <1>1, <1>3 DEF Bytes

\* The lines of a sequence of bytes are made of its bytes.
LEMMA LinesAreBytes ==
    ASSUME NEW b \in Seq(Byte)
    PROVE  NonEmptyLines(b) \in Seq(Seq(Byte))
  <1> DEFINE L == Len(b)
             V == Seq(Seq(Byte))
  <1>1. b \in Bytes /\ L \in Nat
    BY BytesHaveLengths
  <1>2. PICK f : Splits(b, f) /\ NonEmptyLines(b) = f[L]
    BY <1>1, NonEmptyLinesIs
  <1> DEFINE G == {i \in 0..L : f[i] \in V /\ (i # 0 /\ b[i] # NL => f[i] # <<>>)}
  <1>3. 0 \in G
    <2>1. f[0] = <<>>
      BY <1>2, Zenon DEF Splits
    <2>2. 0 \in 0..L
      BY <1>1
    <2>3. <<>> \in V
      OBVIOUS
    <2> HIDE DEF V
    <2> QED
      BY <2>1, <2>2, <2>3
  <1>4. ASSUME NEW i \in 0..L, i \in G, i < L PROVE i + 1 \in G
    <2> DEFINE j == i + 1
               before == f[i]
    <2>1. j \in 1..L /\ j \in 0..L /\ j - 1 = i /\ (j # 1 => i # 0)
      BY <1>1, <1>4, NextIndex
    <2> HIDE DEF j
    <2>2. f[j] = Longer(b, j, before) /\ b[j] \in Byte
      BY <1>2, <2>1 DEF Splits
    <2>3. before \in V /\ (j # 1 /\ b[j - 1] # NL => before # <<>>)
      BY <1>4, <2>1
    <2> HIDE DEF before
    <2>4. CASE b[j] = NL
      BY <2>1, <2>2, <2>3, <2>4 DEF Longer, j
    <2>5. CASE b[j] # NL /\ (j = 1 \/ b[j - 1] = NL)
      <3>1. <<b[j]>> \in Seq(Byte)
        BY <2>2
      <3>2. Append(before, <<b[j]>>) \in V /\ Append(before, <<b[j]>>) # <<>>
        <4> DEFINE w == <<b[j]>>
        <4>1. w \in Seq(Byte) /\ before \in V
          BY <2>3, <3>1
        <4> HIDE DEF w
        <4>2. Append(before, w) \in Seq(Seq(Byte)) /\ Append(before, w) # <<>>
          BY ONLY <4>1, AppendProperties DEF V
        <4> QED
          BY ONLY <4>2 DEF V, w
      <3> QED
        <4>1. f[j] = Append(before, <<b[j]>>)
          BY <2>2, <2>5, Zenon DEF Longer
        <4> QED
          BY <2>1, <3>2, <4>1 DEF j
    <2>6. CASE b[j] # NL /\ ~(j = 1 \/ b[j - 1] = NL)
      <3> DEFINE m == Len(before)
                 front == Front(before)
                 last == Append(Last(before), b[j])
      <3>1. before # <<>>
        BY <2>3, <2>6
      <3>2. m \in Nat \ {0} /\ before[m] \in Seq(Byte)
        BY <2>3, <3>1
      <3>3. last \in Seq(Byte)
        BY <2>2, <3>2, AppendProperties DEF Last
      <3>4. front \in V
        <4>1. 1 \in Nat \ {0} /\ m - 1 \in Int /\ m - 1 <= Len(before)
          BY <3>2
        <4> QED
          BY <2>3, <4>1, PartIs DEF Front
      <3> HIDE DEF front, last
      <3>5. Append(front, last) \in V /\ Append(front, last) # <<>>
        BY <3>3, <3>4, AppendProperties
      <3>6. f[j] = Append(front, last)
        BY <2>2, <2>6 DEF Longer, front, last
      <3> QED
        BY <2>1, <3>5, <3>6 DEF j
    <2> QED
      BY <2>4, <2>5, <2>6
  <1>5. \A i \in 0..L : i \in G
    <2> HIDE DEF G, L
    <2> QED
      BY <1>1, <1>3, <1>4, UpTo
  <1>6. L \in 0..L
    BY <1>1
  <1> QED
    BY <1>2, <1>5, <1>6

\* So are the lines the loop of processPayload sends, and all that is sent.
LEMMA LoopSendsBytes ==
    ASSUME NEW b \in Seq(Byte)
    PROVE  FrameLines(b) \in Seq(Seq(Byte))
  <1> DEFINE L == Len(b)
             V == Seq(Seq(Byte))
  <1>1. b \in Bytes /\ L \in Nat
    BY BytesHaveLengths
  <1>2. PICK f : Parses(b, f) /\ FrameLines(b) = f[L]
    BY <1>1, FrameLinesIs
  <1>3. ASSUME NEW n \in 0..L, \A k \in 0..L : k < n => f[k] \in V PROVE f[n] \in V
    <2> DEFINE r == Ending(b, n)
               u == Used(r)
    <2>1. /\ r \in Seq(Byte) /\ Len(r) = n
          /\ HasFrame(r) => u \in 1..n /\ n - u \in 0..L /\ n - u < n
      BY <1>1, FromIs, EndingIs DEF Ending
    <2>2. f[n] = Sends(r, f[n - u])
      BY <1>2 DEF Parses
    <2> HIDE DEF r
    <2>3. CASE HasFrame(r)
      <3>1. f[n - u] \in V /\ u \in Int /\ u <= Len(r)
        BY <1>1, <1>3, <2>1, <2>3
      <3> HIDE DEF u
      <3>2. SubSeq(r, HeaderLen + 1, u) \in Seq(Byte)
        BY <2>1, <3>1, PartIs DEF HeaderLen
      <3>3. NonEmptyLines(SubSeq(r, HeaderLen + 1, u)) \in V
        BY <3>2, LinesAreBytes
      <3>4. NonEmptyLines(SubSeq(r, HeaderLen + 1, u)) \o f[n - u] \in V
        BY <3>1, <3>3, ConcatProperties
      <3> QED
        BY <2>2, <2>3, <3>4 DEF Sends, u
    <2>4. CASE ~HasFrame(r)
      BY <2>1, <2>2, <2>4, LinesAreBytes DEF Sends
    <2> QED
      BY <2>3, <2>4
  <1> DEFINE G == {n \in 0..L : \A k \in 0..n : f[k] \in V}
  <1>4. 0 \in G
    <2>1. 0 \in 0..L /\ \A k \in 0..L : ~(k < 0)
      BY <1>1
    <2>2. f[0] \in V
      BY <1>3, <2>1
    <2> QED
      BY <2>1, <2>2
  <1>5. ASSUME NEW n \in 0..L, n \in G, n < L PROVE n + 1 \in G
    <2>1. n + 1 \in 0..L /\ (\A k \in 0..L : k < n + 1 => k \in 0..n)
          /\ \A k \in 0..(n + 1) : k \in 0..n \/ k = n + 1
      BY <1>1, <1>5
    <2>2. f[n + 1] \in V
      BY <1>3, <1>5, <2>1
    <2> QED
      BY <1>5, <2>1, <2>2
  <1>6. \A n \in 0..L : n \in G
    <2> HIDE DEF G, L
    <2> QED
      BY <1>1, <1>4, <1>5, UpTo
  <1>7. L \in 0..L
    BY <1>1
  <1> QED
    BY <1>2, <1>6, <1>7

LEMMA SentAreBytes ==
    ASSUME NEW b \in Seq(Byte)
    PROVE  /\ processPayload(b) \in Seq(Seq(Byte))
           /\ stripFramePrefix(b) \in Seq(Byte)
  <1>1. << <<>> >> \in Seq(Seq(Byte)) /\ <<>> \in Seq(Byte)
    OBVIOUS
  <1>2. From(b, HeaderLen + 1) \in Seq(Byte)
    <2>1. Len(b) \in Int /\ Len(b) <= Len(b) /\ HeaderLen + 1 \in Nat \ {0}
      BY DEF HeaderLen
    <2> QED
      BY <2>1, PartIs DEF From
  <1>3. /\ NonEmptyLines(b) \in Seq(Seq(Byte)) /\ FrameLines(b) \in Seq(Seq(Byte))
        /\ NonEmptyLines(From(b, HeaderLen + 1)) \in Seq(Seq(Byte))
    BY <1>2, LinesAreBytes, LoopSendsBytes
  <1> QED
    BY <1>1, <1>2, <1>3 DEF processPayload, stripFramePrefix

\* What ReadLine returns is a part of what was left, and leaves the end of it.
LEMMA ReadLineLeavesTheEnd ==
    ASSUME NEW b \in Seq(Byte), b # <<>>
    PROVE  /\ ReadLine(b).line \in Seq(Byte)
           /\ \E n \in 0..Len(b) : ReadLine(b).rest = Ending(b, n)
  <1> DEFINE L == Len(b)
             ends == {i \in 1..L : b[i] = NL \/ i = BufSize \/ i = L}
  <1>1. L \in Nat /\ L >= 1
    OBVIOUS
  <1>2. SliceLen(b) \in 1..L
    <2>1. L \in ends /\ ends \in SUBSET Nat
      BY <1>1
    <2>2. \E i \in ends : \A j \in ends : i <= j
      BY <2>1, LeastNumber
    <2>3. (CHOOSE i \in ends : \A j \in ends : i <= j) \in ends
      <3> HIDE DEF ends
      <3> QED
        BY <2>2
    <2> QED
      BY <2>3 DEF SliceLen
  <1> HIDE DEF ends
  <1> DEFINE k == SliceLen(b)
             raw == SubSeq(b, 1, k)
             one == SubSeq(raw, 1, k - 1)
             two == SubSeq(raw, 1, k - 2)
  <1>3. k \in Nat /\ k >= 1 /\ k <= L
    BY <1>1, <1>2
  <1> HIDE DEF k
  <1>4. raw \in Seq(Byte) /\ Len(raw) = k
    <2>1. raw \in Seq(Byte)
      BY <1>1, <1>3, PartIs
    <2>2. Len(raw) = k
      <3>1. 1 \in Int /\ k \in Int /\ (\A i \in 1..k : b[i] \in Byte) /\ k - 1 + 1 = k /\ 1 <= k
        BY <1>1, <1>3
      <3>2. Len(raw) = IF 1 <= k THEN k - 1 + 1 ELSE 0
        BY <3>1, SubSeqProperties
      <3> QED
        BY <3>1, <3>2
    <2> QED
      BY <2>1, <2>2
  <1> HIDE DEF raw
  <1>5. one \in Seq(Byte) /\ two \in Seq(Byte)
    <2>1. /\ 1 \in Nat \ {0} /\ k - 1 \in Int /\ k - 2 \in Int
          /\ k - 1 <= Len(raw) /\ k - 2 <= Len(raw)
      BY <1>3, <1>4
    <2> QED
      BY <1>4, <2>1, PartIs
  <1>6. /\ From(b, k + 1) = Ending(b, L - k) /\ L - k \in 0..L
        /\ From(b, k) = Ending(b, L - k + 1) /\ L - k + 1 \in 0..L
    <2>1. /\ L - k \in 0..L /\ L - k + 1 \in 0..L
          /\ L - (L - k) + 1 = k + 1 /\ L - (L - k + 1) + 1 = k
      BY <1>1, <1>3
    <2> QED
      BY <2>1 DEF Ending
  <1> HIDE DEF L
  <1>7. /\ ReadLine(b).line \in {one, two, raw}
        /\ ReadLine(b).rest \in {From(b, k + 1), From(b, k)}
    BY DEF ReadLine, k, raw
  <1> QED
    BY <1>4, <1>5, <1>6, <1>7 DEF L

LEMMA EndingOfEnding ==
    ASSUME NEW b \in Seq(Byte), NEW n \in 0..Len(b), NEW k \in 0..n
    PROVE  Ending(Ending(b, n), k) = Ending(b, k) /\ k \in 0..Len(b)
  <1> DEFINE r == Ending(b, n)
             x == Ending(r, k)
             y == Ending(b, k)
             L == Len(b)
  <1>1. L \in Nat /\ n \in Nat /\ k \in Nat /\ k <= n /\ n <= L /\ k \in 0..L
    OBVIOUS
  <1>2. r \in Seq(Byte) /\ Len(r) = n /\ \A i \in 1..n : r[i] = b[L - n + i]
    BY FromIs DEF Ending
  <1> HIDE DEF r
  <1>3. /\ x \in Seq(Byte) /\ Len(x) = k /\ \A i \in 1..k : x[i] = r[n - k + i]
    <2>1. r \in Seq(Byte) /\ k \in 0..Len(r) /\ Len(r) = n
      BY <1>2
    <2>2. /\ x \in Seq(Byte) /\ Len(x) = k /\ \A i \in 1..k : x[i] = r[Len(r) - k + i]
      BY ONLY <2>1, EndIs, Zenon
    <2> QED
      BY ONLY <2>1, <2>2, Zenon
  <1>4. /\ y \in Seq(Byte) /\ Len(y) = k /\ \A i \in 1..k : y[i] = b[L - k + i]
    BY <1>1, FromIs DEF Ending
  <1> HIDE DEF x, y, L
  <1>5. ASSUME NEW i \in 1..k PROVE x[i] = y[i]
    <2> DEFINE j == n - k + i
    <2>1. j \in 1..n /\ L - n + j = L - k + i
      BY <1>1
    <2> HIDE DEF j
    <2>2. r[j] = b[L - k + i]
      BY <1>2, <2>1
    <2> QED
      BY <1>3, <1>4, <2>2 DEF j
  <1>6. x = y
    BY <1>1, <1>3, <1>4, <1>5, SeqEqual
  <1> QED
    BY <1>1, <1>6 DEF r, x, y, L

LEMMA EndingIsSuffix ==
    ASSUME NEW b \in Seq(Byte), NEW n \in 0..Len(b)
    PROVE  IsSuffix(Ending(b, n), b)
  <1> DEFINE e == Ending(b, n)
             L == Len(b)
             x == Reverse(e)
             y == Reverse(b)
             u == SubSeq(x, 1, Len(x))
             v == SubSeq(y, 1, Len(x))
  <1>1. L \in Nat /\ n \in Nat /\ n <= L /\ \A i \in 1..L : b[i] \in Byte
    OBVIOUS
  <1>2. e \in Seq(Byte) /\ Len(e) = n /\ \A i \in 1..n : e[i] = b[L - n + i]
    BY FromIs DEF Ending
  <1> HIDE DEF e, L
  <1>3. x \in Seq(Byte) /\ Len(x) = n /\ \A i \in 1..n : x[i] = e[(n - i) + 1]
    <2>1. \A i \in 1..n : (n - i) + 1 \in 1..n
      BY <1>1
    <2>2. \A i \in 1..n : e[(n - i) + 1] \in Byte
      BY <1>2, <2>1
    <2>3. x = [i \in 1..n |-> e[(n - i) + 1]]
      BY <1>2 DEF Reverse
    <2> HIDE DEF x
    <2>4. x \in [1..n -> Byte]
      BY <2>2, <2>3
    <2>5. x \in Seq(Byte) /\ Len(x) = n
      BY <1>1, <2>4
    <2> QED
      BY <2>3, <2>5
  <1>4. y \in Seq(Byte) /\ Len(y) = L /\ \A i \in 1..L : y[i] = b[(L - i) + 1]
    <2>1. \A i \in 1..L : (L - i) + 1 \in 1..L
      BY <1>1
    <2>2. \A i \in 1..L : b[(L - i) + 1] \in Byte
      BY <1>1, <2>1
    <2>3. y = [i \in 1..L |-> b[(L - i) + 1]]
      BY DEF Reverse, L
    <2> HIDE DEF y
    <2>4. y \in [1..L -> Byte]
      BY <2>2, <2>3
    <2>5. y \in Seq(Byte) /\ Len(y) = L
      BY <1>1, <2>4
    <2> QED
      BY <2>3, <2>5
  <1> HIDE DEF x, y
  <1>5. u = x
    BY <1>3, SubSeqFull
  <1>6. v \in Seq(Byte) /\ Len(v) = n /\ \A i \in 1..n : v[i] = y[i]
    <2>1. /\ 1 \in Int /\ n \in Int /\ n - 1 + 1 = n /\ (~(1 <= n) => n = 0)
          /\ (\A i \in 1..n : i \in 1..L) /\ \A i \in 1..n : 1 + i - 1 = i
      BY <1>1
    <2>2. \A i \in 1..n : y[i] \in Byte
      BY <1>4, <2>1
    <2>3. v = SubSeq(y, 1, n)
      BY <1>3
    <2> HIDE DEF v
    <2>4. /\ v \in Seq(Byte) /\ Len(v) = IF 1 <= n THEN n - 1 + 1 ELSE 0
          /\ \A i \in 1..(n - 1 + 1) : v[i] = y[1 + i - 1]
      BY <2>1, <2>2, <2>3, SubSeqProperties
    <2>5. Len(v) = n
      BY <2>1, <2>4
    <2>6. ASSUME NEW i \in 1..n PROVE v[i] = y[i]
      <3>1. v[i] = y[1 + i - 1]
        BY <2>1, <2>4
      <3> QED
        BY <2>1, <3>1
    <2> QED
      BY <2>4, <2>5, <2>6
  <1> HIDE DEF v
  <1>7. ASSUME NEW i \in 1..n PROVE x[i] = v[i]
    <2> DEFINE j == (n - i) + 1
    <2>1. j \in 1..n /\ L - n + j = (L - i) + 1 /\ i \in 1..L
      BY <1>1
    <2> HIDE DEF j
    <2>2. e[j] = b[(L - i) + 1]
      BY <1>2, <2>1
    <2> QED
      BY <1>3, <1>4, <1>6, <2>1, <2>2 DEF j
  <1>8. x = v
    BY <1>3, <1>6, <1>7, SeqEqual
  <1>9. Len(x) <= Len(y)
    BY <1>1, <1>3, <1>4
  <1> HIDE DEF u
  <1>10. IsPrefix(x, y)
    BY <1>5, <1>8, <1>9 DEF IsPrefix, u, v
  <1> QED
    BY <1>10 DEF IsSuffix, x, y, e

\* The size of a payload fits the four bytes of its header.
LEMMA FrameIsBytes ==
    ASSUME NEW p \in Payloads
    PROVE  Frame(p) \in Seq(Byte)
  <1> DEFINE n == Len(p)
             h == Header(p)
  <1>1. p \in Seq(Byte) /\ n \in Nat /\ n \div 16777216 < 256
    BY FramesAssumption DEF FramesAssumption, Byte
  <1> HIDE DEF n
  <1>2. /\ n \div 16777216 \in Byte /\ (n \div 65536) % 256 \in Byte
        /\ (n \div 256) % 256 \in Byte /\ n % 256 \in Byte /\ 0 \in Byte /\ 1 \in Byte
    BY <1>1 DEF Byte
  <1>3. ASSUME NEW c \in Byte, NEW d \in Byte, NEW e \in Byte, NEW f \in Byte,
               NEW zero \in Byte, NEW one \in Byte
        PROVE  <<one, zero, zero, zero, c, d, e, f>> \in Seq(Byte)
    OBVIOUS
  <1>4. h \in Seq(Byte)
    BY <1>2, <1>3 DEF Header, n
  <1> HIDE DEF h
  <1>5. h \o p \in Seq(Byte)
    BY <1>1, <1>4, ConcatProperties
  <1> QED
    BY <1>5 DEF Frame, h

LEMMA ResponseIsByte ==
    ASSUME frames \in Seq(Payloads)
    PROVE  Response(frames) \in Seq(Byte)
  <1> DEFINE n == Len(frames)
             fs == [i \in DOMAIN frames |-> Frame(frames[i])]
  <1>1. n \in Nat /\ DOMAIN frames = 1..n /\ \A i \in 1..n : frames[i] \in Payloads
    OBVIOUS
  <1>2. \A i \in 1..n : Frame(frames[i]) \in Seq(Byte)
    BY <1>1, FrameIsBytes
  <1>3. fs \in [1..n -> Seq(Byte)]
    BY <1>1, <1>2
  <1> HIDE DEF fs, n
  <1>4. fs \in Seq(Seq(Byte))
    BY <1>1, <1>3
  <1>5. FlattenSeq(fs) \in Seq(Byte)
    BY <1>4, FlattenIs, FlattenOf
  <1> QED
    BY <1>5 DEF Response, fs

\* The types, as a step keeps them.
TypeInv ==
    /\ frames \in Seq(Payloads) /\ follow \in BOOLEAN
    /\ \E n \in 0..Len(Response(frames)) : rest = Ending(Response(frames), n)
    /\ Len(line) <= 1 /\ line \in Seq(Seq(Byte))
    /\ sent \in Seq(Seq(Byte))

LEMMA TypeInvNext == TypeInv /\ [Next]_vars => TypeInv'
  <1> SUFFICES ASSUME TypeInv, [Next]_vars PROVE TypeInv'
    OBVIOUS
  <1>1. frames' = frames /\ follow' = follow
    BY DEF Next, Read, StreamLine, CollectLine, vars
  <1> DEFINE R == Response(frames)
  <1>2. R \in Seq(Byte) /\ R' = R
    BY <1>1, ResponseIsByte DEF TypeInv
  <1>3. PICK n \in 0..Len(R) : rest = Ending(R, n)
    BY DEF TypeInv
  <1> HIDE DEF R
  <1>4. rest \in Seq(Byte) /\ Len(rest) = n
    BY <1>2, <1>3, FromIs DEF Ending
  <1>5. line # <<>> => line[1] \in Seq(Byte)
    BY DEF TypeInv
  <1>6. CASE Read
    <2>1. /\ rest # <<>> /\ sent' = sent /\ line' = <<ReadLine(rest).line>>
          /\ rest' = ReadLine(rest).rest
      BY <1>6 DEF Read
    <2>2. ReadLine(rest).line \in Seq(Byte)
      BY <1>4, <2>1, ReadLineLeavesTheEnd
    <2>3. PICK k \in 0..n : ReadLine(rest).rest = Ending(rest, k)
      BY <1>4, <2>1, ReadLineLeavesTheEnd
    <2>4. rest' = Ending(R, k) /\ k \in 0..Len(R)
      BY <1>2, <1>3, <2>1, <2>3, EndingOfEnding
    <2> DEFINE l == ReadLine(rest).line
    <2> HIDE DEF l
    <2>5. l \in Seq(Byte) /\ line' = <<l>>
      BY <2>1, <2>2 DEF l
    <2>6. Len(line') <= 1 /\ line' \in Seq(Seq(Byte))
      BY <2>5
    <2> QED
      BY <1>1, <1>2, <2>1, <2>4, <2>6 DEF TypeInv, R
  <1>7. CASE StreamLine
    <2>1. line # <<>> /\ line' = <<>> /\ rest' = rest /\ sent' = sent \o processPayload(line[1])
      BY <1>7 DEF StreamLine
    <2>2. sent' \in Seq(Seq(Byte))
      BY <1>5, <2>1, SentAreBytes, ConcatProperties DEF TypeInv
    <2> QED
      BY <1>1, <1>2, <1>3, <2>1, <2>2 DEF TypeInv, R
  <1>8. CASE CollectLine
    <2>1. /\ line # <<>> /\ line' = <<>> /\ rest' = rest
          /\ sent' = IF stripFramePrefix(line[1]) = <<>> THEN sent
                     ELSE Append(sent, stripFramePrefix(line[1]))
      BY <1>8 DEF CollectLine
    <2>2. sent' \in Seq(Seq(Byte))
      <3>1. stripFramePrefix(line[1]) \in Seq(Byte) /\ sent \in Seq(Seq(Byte))
        BY <1>5, <2>1, SentAreBytes DEF TypeInv
      <3> QED
        BY <2>1, <3>1, AppendProperties
    <2> QED
      BY <1>1, <1>2, <1>3, <2>1, <2>2 DEF TypeInv, R
  <1>9. CASE UNCHANGED vars
    BY <1>9 DEF TypeInv, vars
  <1> QED
    BY <1>6, <1>7, <1>8, <1>9 DEF Next

\* Whatever the frames hold: what is left to read is the end of the response, and
\* what has been read and sent are bytes of it.
THEOREM TypeCorrect == Spec => []TypeOK
  <1>1. Init => TypeInv
    <2> SUFFICES ASSUME Init PROVE TypeInv
      OBVIOUS
    <2> DEFINE R == Response(frames)
    <2>1. frames \in Seq(Payloads) /\ follow \in BOOLEAN /\ rest = R /\ line = <<>> /\ sent = <<>>
      BY IInvInit DEF IInv, Init
    <2>2. R \in Seq(Byte)
      BY <2>1, ResponseIsByte
    <2> HIDE DEF R
    <2>3. Len(R) \in 0..Len(R) /\ Len(R) - Len(R) + 1 = 1
      BY <2>2
    <2>4. R = Ending(R, Len(R))
      BY <2>2, <2>3, SubSeqFull DEF Ending, From
    <2>5. Len(line) <= 1 /\ line \in Seq(Seq(Byte)) /\ sent \in Seq(Seq(Byte))
      BY <2>1
    <2> QED
      BY <2>1, <2>3, <2>4, <2>5 DEF TypeInv, R
  <1>2. TypeInv => TypeOK
    <2> SUFFICES ASSUME TypeInv PROVE TypeOK
      OBVIOUS
    <2>1. IsSuffix(rest, Response(frames))
      BY ResponseIsByte, EndingIsSuffix DEF TypeInv
    <2> QED
      BY <2>1 DEF TypeInv, TypeOK, Byte
  <1> QED
    BY <1>1, <1>2, TypeInvNext, PTL DEF Spec
=============================================================================
