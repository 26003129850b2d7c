----------------------------- MODULE FilterProofs -----------------------------
(***************************************************************************)
(* What Filter returns, for every sequence: by induction on the sequence,  *)
(* taken as the least number at which a claim would fail.                  *)
(***************************************************************************)
EXTENDS Filter, WellFoundedInduction, TLAPS

\* Every set of numbers that is not empty has a least one.
LEMMA LeastNumber ==
  ASSUME NEW T \in SUBSET Nat, T # {}
  PROVE  \E n \in T : \A m \in T : ~(m < n)
<1>1. PICK n \in T : \A m \in T : ~(<<m, n>> \in OpToRel(<, Nat))
  BY NatLessThanWellFounded, WFMin
<1>. QED
  BY <1>1, Zenon DEF OpToRel

\* The function that Filter computes, over the first n elements.
IsKept(g, n, s, keep) ==
  g = [i \in 0..n |-> IF i = 0 THEN << >>
                      ELSE IF s[i] \in keep THEN Append(g[i - 1], s[i]) ELSE g[i - 1]]

LEMMA KeptExists ==
  ASSUME NEW n \in Nat, NEW s, NEW keep
  PROVE  \E g : IsKept(g, n, s, keep)
<1>. DEFINE T == {m \in Nat : ~\E g : IsKept(g, m, s, keep)}
<1>. SUFFICES ASSUME T # {} PROVE FALSE
  OBVIOUS
<1>1. T \in SUBSET Nat
  OBVIOUS
<1>. HIDE DEF T
<1>2. PICK m \in T : \A k \in T : ~(k < m)
  BY <1>1, LeastNumber
<1>. USE DEF T
<1>3. CASE m = 0
  <2>1. IsKept([i \in 0..0 |-> << >>], 0, s, keep)
    BY DEF IsKept
  <2>. QED
    BY <1>3, <2>1
<1>4. CASE m # 0
  <2>1. m - 1 \in Nat /\ m - 1 < m /\ m \in Nat
    BY <1>4
  <2>2. PICK g : IsKept(g, m - 1, s, keep)
    BY <1>2, <2>1
  <2>. DEFINE h == [i \in 0..m |->
                      IF i = m THEN IF s[m] \in keep THEN Append(g[m - 1], s[m]) ELSE g[m - 1]
                      ELSE g[i]]
  <2>3. \A i \in 0..(m - 1) :
          g[i] = IF i = 0 THEN << >>
                 ELSE IF s[i] \in keep THEN Append(g[i - 1], s[i]) ELSE g[i - 1]
    BY <2>2 DEF IsKept
  <2>4. \A i \in 0..m :
          h[i] = IF i = 0 THEN << >>
                 ELSE IF s[i] \in keep THEN Append(h[i - 1], s[i]) ELSE h[i - 1]
    <3>1. ASSUME NEW i \in 0..m PROVE i \in 0..(m - 1) \/ i = m
      BY <2>1
    <3>2. ASSUME NEW i \in 0..m, i # 0 PROVE h[i - 1] = g[i - 1]
      BY <2>1, <3>2
    <3>. QED
      BY <1>4, <2>1, <2>3, <3>1, <3>2
  <2>5. IsKept(h, m, s, keep)
    <3>. HIDE DEF h
    <3>1. h = [i \in 0..m |-> h[i]]
      BY DEF h
    <3>. QED
      BY <2>4, <3>1 DEF IsKept
  <2>. QED
    BY <2>5
<1>. QED
  BY <1>3, <1>4

\* Filter, unfolded.
LEMMA FilterUnfolds ==
  ASSUME NEW s, NEW keep, Len(s) \in Nat
  PROVE  \E g : /\ Filter(s, keep) = g[Len(s)]
                /\ g[0] = << >>
                /\ \A i \in 1..Len(s) :
                     g[i] = IF s[i] \in keep THEN Append(g[i - 1], s[i]) ELSE g[i - 1]
<1>. DEFINE g == CHOOSE f : IsKept(f, Len(s), s, keep)
<1>1. IsKept(g, Len(s), s, keep)
  BY KeptExists
<1>2. Filter(s, keep) = g[Len(s)]
  BY DEF Filter, IsKept
<1>3. \A i \in 0..Len(s) :
        g[i] = IF i = 0 THEN << >>
               ELSE IF s[i] \in keep THEN Append(g[i - 1], s[i]) ELSE g[i - 1]
  BY <1>1 DEF IsKept
<1>. HIDE DEF g
<1>. QED
  BY <1>2, <1>3

\* An element of the sequence stays if and only if it is in `keep`, and nothing
\* comes in.
LEMMA FilterKeeps ==
  ASSUME NEW S, NEW s \in Seq(S), NEW keep
  PROVE  /\ Filter(s, keep) \in Seq(S)
         /\ \A e : (\E i \in 1..Len(Filter(s, keep)) : Filter(s, keep)[i] = e)
                     <=> e \in keep /\ \E i \in 1..Len(s) : s[i] = e
<1>1. PICK g : /\ Filter(s, keep) = g[Len(s)]
               /\ g[0] = << >>
               /\ \A i \in 1..Len(s) :
                    g[i] = IF s[i] \in keep THEN Append(g[i - 1], s[i]) ELSE g[i - 1]
  BY FilterUnfolds
<1>. DEFINE Holds(n) == /\ g[n] \in Seq(S)
                        /\ \A e : (\E i \in 1..Len(g[n]) : g[n][i] = e)
                                    <=> e \in keep /\ \E i \in 1..n : s[i] = e
            T == {n \in 0..Len(s) : ~Holds(n)}
<1>2. T = {}
  <2>. SUFFICES ASSUME T # {} PROVE FALSE
    OBVIOUS
  <2>1. T \in SUBSET Nat
    OBVIOUS
  <2>. HIDE DEF T
  <2>2. PICK m \in T : \A k \in T : ~(k < m)
    BY <2>1, LeastNumber
  <2>3. m \in 0..Len(s) /\ ~Holds(m)
    BY DEF T
  <2>4. CASE m = 0
    <3>1. PICK a : a = g[0]
      OBVIOUS
    <3>2. a \in Seq(S) /\ Len(a) = 0
      BY <1>1, <3>1
    <3>3. Holds(0)
      BY <3>1, <3>2
    <3>. QED
      BY <2>3, <2>4, <3>3
  <2>5. CASE m # 0
    <3>1. m \in 1..Len(s) /\ m - 1 \in 0..Len(s) /\ m - 1 < m
      BY <2>3, <2>5
    <3>2. Holds(m - 1)
      BY <2>2, <3>1 DEF T
    <3>3. PICK a : a = g[m - 1]
      OBVIOUS
    <3>4. /\ a \in Seq(S)
          /\ \A e : (\E i \in 1..Len(a) : a[i] = e)
                      <=> e \in keep /\ \E i \in 1..(m - 1) : s[i] = e
      BY <3>2, <3>3
    <3>5. \A i \in 1..m : i \in 1..(m - 1) \/ i = m
      BY <3>1
    <3>6. s[m] \in S
      BY <3>1
    <3>7. CASE s[m] \in keep
      <4>1. PICK b : b = Append(a, s[m])
        OBVIOUS
      <4>2. /\ b \in Seq(S) /\ Len(b) = Len(a) + 1 /\ b[Len(a) + 1] = s[m]
            /\ \A i \in 1..Len(a) : b[i] = a[i]
        BY <3>4, <3>6, <4>1
      <4>3. \A e : (\E i \in 1..Len(b) : b[i] = e) <=> e = s[m] \/ \E i \in 1..Len(a) : a[i] = e
        <5>1. \A i \in 1..Len(b) : i \in 1..Len(a) \/ i = Len(a) + 1
          BY <3>4, <4>2
        <5>2. Len(a) + 1 \in 1..Len(b) /\ \A i \in 1..Len(a) : i \in 1..Len(b)
          BY <3>4, <4>2
        <5>. QED
          BY <4>2, <5>1, <5>2
      <4>4. g[m] = b
        BY <1>1, <3>1, <3>3, <3>7, <4>1
      <4>5. \A e : (\E i \in 1..m : s[i] = e) <=> e = s[m] \/ \E i \in 1..(m - 1) : s[i] = e
        BY <3>1, <3>5
      <4>. QED
        BY <2>3, <3>4, <3>7, <4>2, <4>3, <4>4, <4>5
    <3>8. CASE s[m] \notin keep
      <4>1. g[m] = a
        BY <1>1, <3>1, <3>3, <3>8
      <4>2. \A e \in keep : (\E i \in 1..m : s[i] = e) <=> \E i \in 1..(m - 1) : s[i] = e
        BY <3>1, <3>5, <3>8
      <4>. QED
        BY <2>3, <3>4, <4>1, <4>2
    <3>. QED
      BY <3>7, <3>8
  <2>. QED
    BY <2>3, <2>4, <2>5
<1>3. Len(s) \in 0..Len(s)
  OBVIOUS
<1>4. Holds(Len(s))
  BY <1>2, <1>3
<1>. QED
  BY <1>1, <1>4

\* When one element is not in `keep`, it goes and the others close up.
LEMMA FilterDrops ==
  ASSUME NEW S, NEW s \in Seq(S), NEW keep, NEW k \in 1..Len(s), s[k] \notin keep,
         \A i \in 1..Len(s) \ {k} : s[i] \in keep
  PROVE  /\ Filter(s, keep) \in Seq(S)
         /\ Len(Filter(s, keep)) = Len(s) - 1
         /\ \A i \in 1..(Len(s) - 1) : Filter(s, keep)[i] = IF i < k THEN s[i] ELSE s[i + 1]
<1>1. PICK g : /\ Filter(s, keep) = g[Len(s)]
               /\ g[0] = << >>
               /\ \A i \in 1..Len(s) :
                    g[i] = IF s[i] \in keep THEN Append(g[i - 1], s[i]) ELSE g[i - 1]
  BY FilterUnfolds
<1>. DEFINE Holds(n) == /\ g[n] \in Seq(S)
                        /\ Len(g[n]) = IF n < k THEN n ELSE n - 1
                        /\ \A i \in 1..Len(g[n]) : g[n][i] = IF i < k THEN s[i] ELSE s[i + 1]
            T == {n \in 0..Len(s) : ~Holds(n)}
<1>2. T = {}
  <2>. SUFFICES ASSUME T # {} PROVE FALSE
    OBVIOUS
  <2>1. T \in SUBSET Nat
    OBVIOUS
  <2>. HIDE DEF T
  <2>2. PICK m \in T : \A j \in T : ~(j < m)
    BY <2>1, LeastNumber
  <2>3. m \in 0..Len(s) /\ ~Holds(m)
    BY DEF T
  <2>4. CASE m = 0
    <3>1. PICK a : a = g[0]
      OBVIOUS
    <3>2. a \in Seq(S) /\ Len(a) = 0
      BY <1>1, <3>1
    <3>. QED
      BY <2>3, <2>4, <3>1, <3>2
  <2>5. CASE m # 0
    <3>1. m \in 1..Len(s) /\ m - 1 \in 0..Len(s) /\ m - 1 < m
      BY <2>3, <2>5
    <3>2. Holds(m - 1)
      BY <2>2, <3>1 DEF T
    <3>3. PICK a : a = g[m - 1]
      OBVIOUS
    <3>4. /\ a \in Seq(S)
          /\ Len(a) = IF m - 1 < k THEN m - 1 ELSE m - 2
          /\ \A i \in 1..Len(a) : a[i] = IF i < k THEN s[i] ELSE s[i + 1]
      BY <3>1, <3>2, <3>3
    <3>5. CASE m = k
      <4>1. g[m] = a
        BY <1>1, <3>1, <3>3, <3>5
      <4>. QED
        BY <2>3, <3>1, <3>4, <3>5, <4>1
    <3>6. CASE m # k
      <4>1. s[m] \in S /\ s[m] \in keep
        BY <3>1, <3>6
      <4>2. PICK b : b = Append(a, s[m])
        OBVIOUS
      <4>3. /\ b \in Seq(S) /\ Len(b) = Len(a) + 1 /\ b[Len(a) + 1] = s[m]
            /\ \A i \in 1..Len(a) : b[i] = a[i]
        BY <3>4, <4>1, <4>2
      <4>4. g[m] = b
        BY <1>1, <3>1, <3>3, <4>1, <4>2
      <4>5. Len(b) = IF m < k THEN m ELSE m - 1
        BY <3>1, <3>4, <3>6, <4>3
      <4>6. ASSUME NEW i \in 1..Len(b) PROVE b[i] = IF i < k THEN s[i] ELSE s[i + 1]
        <5>1. CASE i \in 1..Len(a)
          BY <3>4, <4>3, <5>1
        <5>2. CASE i = Len(a) + 1
          BY <3>1, <3>4, <3>6, <4>3, <5>2
        <5>. QED
          BY <3>1, <3>4, <4>3, <5>1, <5>2
      <4>. QED
        BY <2>3, <4>3, <4>4, <4>5, <4>6
    <3>. QED
      BY <3>5, <3>6
  <2>. QED
    BY <2>4, <2>5
<1>3. Len(s) \in 0..Len(s)
  OBVIOUS
<1>4. Holds(Len(s))
  BY <1>2, <1>3
<1>5. PICK t : t = g[Len(s)]
  OBVIOUS
<1>6. /\ t \in Seq(S) /\ Len(t) = Len(s) - 1
      /\ \A i \in 1..Len(t) : t[i] = IF i < k THEN s[i] ELSE s[i + 1]
  BY <1>4, <1>5
<1>. QED
  BY <1>1, <1>5, <1>6

\* Elements that differ in the sequence differ in what is kept of it.
LEMMA FilterInjects ==
  ASSUME NEW S, NEW s \in Seq(S), NEW keep, \A i, j \in 1..Len(s) : s[i] = s[j] => i = j
  PROVE  \A i, j \in 1..Len(Filter(s, keep)) : Filter(s, keep)[i] = Filter(s, keep)[j] => i = j
<1>1. PICK g : /\ Filter(s, keep) = g[Len(s)]
               /\ g[0] = << >>
               /\ \A i \in 1..Len(s) :
                    g[i] = IF s[i] \in keep THEN Append(g[i - 1], s[i]) ELSE g[i - 1]
  BY FilterUnfolds
<1>. DEFINE Holds(n) == /\ g[n] \in Seq(S)
                        /\ \A i \in 1..Len(g[n]) : \E j \in 1..n : s[j] = g[n][i]
                        /\ \A i, j \in 1..Len(g[n]) : g[n][i] = g[n][j] => i = j
            T == {n \in 0..Len(s) : ~Holds(n)}
<1>2. T = {}
  <2>. SUFFICES ASSUME T # {} PROVE FALSE
    OBVIOUS
  <2>1. T \in SUBSET Nat
    OBVIOUS
  <2>. HIDE DEF T
  <2>2. PICK m \in T : \A k \in T : ~(k < m)
    BY <2>1, LeastNumber
  <2>3. m \in 0..Len(s) /\ ~Holds(m)
    BY DEF T
  <2>4. CASE m = 0
    <3>1. PICK a : a = g[0]
      OBVIOUS
    <3>2. a \in Seq(S) /\ Len(a) = 0
      BY <1>1, <3>1
    <3>. QED
      BY <2>3, <2>4, <3>1, <3>2
  <2>5. CASE m # 0
    <3>1. m \in 1..Len(s) /\ m - 1 \in 0..Len(s) /\ m - 1 < m
      BY <2>3, <2>5
    <3>2. Holds(m - 1)
      BY <2>2, <3>1 DEF T
    <3>3. PICK a : a = g[m - 1]
      OBVIOUS
    <3>4. /\ a \in Seq(S)
          /\ \A i \in 1..Len(a) : \E j \in 1..(m - 1) : s[j] = a[i]
          /\ \A i, j \in 1..Len(a) : a[i] = a[j] => i = j
      BY <3>2, <3>3
    <3>5. \A j \in 1..(m - 1) : j \in 1..m /\ j \in 1..Len(s) /\ j # m
      BY <3>1
    <3>6. s[m] \in S
      BY <3>1
    <3>7. CASE s[m] \in keep
      <4>1. PICK b : b = Append(a, s[m])
        OBVIOUS
      <4>2. /\ b \in Seq(S) /\ Len(b) = Len(a) + 1 /\ b[Len(a) + 1] = s[m]
            /\ \A i \in 1..Len(a) : b[i] = a[i]
        BY <3>4, <3>6, <4>1
      <4>3. g[m] = b
        BY <1>1, <3>1, <3>3, <3>7, <4>1
      <4>4. \A i \in 1..Len(b) : i \in 1..Len(a) \/ i = Len(a) + 1
        BY <3>4, <4>2
      <4>5. \A i \in 1..Len(a) : b[i] # s[m]
        BY <3>1, <3>4, <3>5, <4>2
      <4>6. \A i, j \in 1..Len(b) : b[i] = b[j] => i = j
        BY <3>4, <4>2, <4>4, <4>5
      <4>7. \A i \in 1..Len(b) : \E j \in 1..m : s[j] = b[i]
        BY <3>1, <3>4, <3>5, <4>2, <4>4
      <4>. QED
        BY <2>3, <4>2, <4>3, <4>6, <4>7
    <3>8. CASE s[m] \notin keep
      <4>1. g[m] = a
        BY <1>1, <3>1, <3>3, <3>8
      <4>. QED
        BY <2>3, <3>4, <3>5, <4>1
    <3>. QED
      BY <3>7, <3>8
  <2>. QED
    BY <2>3, <2>4, <2>5
<1>3. Len(s) \in 0..Len(s)
  OBVIOUS
<1>4. Holds(Len(s))
  BY <1>2, <1>3
<1>. QED
  BY <1>1, <1>4
=============================================================================
