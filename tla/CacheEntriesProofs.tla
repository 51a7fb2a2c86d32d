-------------------------- MODULE CacheEntriesProofs -------------------------
(***************************************************************************)
(* What holds of the entries of the query cache for any sessions, settings *)
(* and sizes: that the list, the map, the tag index and the count of bytes *)
(* agree, that an insertion enforces the budget, and that an entry older   *)
(* than the database was overtaken by the invalidation of a write.         *)
(***************************************************************************)
EXTENDS CacheProofs, FiniteSetTheorems

-----------------------------------------------------------------------------
(* The recursive definitions *)

\* A set of numbers that is not empty has a least one.
LEMMA LeastNumber ==
    ASSUME NEW T \in SUBSET Nat, T # {}
    PROVE  \E n \in T : \A m \in T : n <= m
<1>1. PICK n \in T : \A m \in T : <<m, n>> \notin OpToRel(<, Nat)
  BY NatLessThanWellFounded, WFMin
<1>2. \A m \in T : ~(m < n)
  BY <1>1 DEF OpToRel
<1> QED
  BY <1>2

\* What Without keeps of the first n members of a list.
Kept(F, n, l, K) ==
    F = [i \in 0..n |-> IF i = 0 THEN <<>>
                        ELSE IF l[i] \in K THEN F[i - 1] ELSE Append(F[i - 1], l[i])]

\* Its values, one after the other.
LEMMA KeptValues ==
    ASSUME NEW F, NEW n \in Nat, NEW l, NEW K, Kept(F, n, l, K)
    PROVE  /\ F[0] = <<>>
           /\ \A i \in 1..n : F[i] = IF l[i] \in K THEN F[i - 1] ELSE Append(F[i - 1], l[i])
<1> DEFINE H == [i \in 0..n |-> IF i = 0 THEN <<>>
                     ELSE IF l[i] \in K THEN F[i - 1] ELSE Append(F[i - 1], l[i])]
<1>1. F = H
  BY Zenon DEF Kept
<1>2. \A i \in 0..n : H[i] = IF i = 0 THEN <<>>
                     ELSE IF l[i] \in K THEN F[i - 1] ELSE Append(F[i - 1], l[i])
  BY Zenon
<1> HIDE DEF H
<1>3. 0 \in 0..n /\ \A i \in 1..n : i \in 0..n /\ i # 0
  OBVIOUS
<1>4. F[0] = <<>>
  BY <1>1, <1>2, <1>3, Zenon
<1>5. ASSUME NEW i \in 1..n
      PROVE  F[i] = IF l[i] \in K THEN F[i - 1] ELSE Append(F[i - 1], l[i])
  BY <1>1, <1>2, <1>3, Zenon
<1> QED
  BY <1>4, <1>5

\* There is such a function, for as many members as the list has.
LEMMA KeptExists ==
    ASSUME NEW l, NEW K, NEW n \in Nat
    PROVE  \E F : Kept(F, n, l, K)
<1> DEFINE T == {m \in Nat : ~\E F : Kept(F, m, l, K)}
<1> SUFFICES ASSUME T # {} PROVE FALSE
  OBVIOUS
<1>1. PICK m \in T : \A k \in T : m <= k
  <2> HIDE DEF T
  <2>1. T \subseteq Nat
    BY DEF T
  <2> QED
    BY <2>1, LeastNumber
<1>2. CASE m = 0
  <2> DEFINE F == [i \in 0..0 |-> <<>>]
  <2>1. Kept(F, 0, l, K)
    BY DEF Kept
  <2> QED
    BY <2>1, <1>1, <1>2
<1>3. CASE m # 0
  <2>1. m - 1 \in Nat /\ ~(m <= m - 1)
    BY <1>1, <1>3
  <2>2. PICK F : Kept(F, m - 1, l, K)
    BY <2>1, <1>1
  <2>3. /\ F = [i \in 0..m - 1 |-> F[i]] /\ F[0] = <<>>
        /\ \A i \in 1..m - 1 : F[i] = IF l[i] \in K THEN F[i - 1] ELSE Append(F[i - 1], l[i])
    <3>1. F = [i \in 0..m - 1 |-> F[i]]
      BY <2>2, Zenon DEF Kept
    <3> QED
      BY <3>1, <2>1, <2>2, KeptValues
  <2> DEFINE G == [i \in 0..m |-> IF i < m THEN F[i]
                       ELSE IF l[m] \in K THEN F[m - 1] ELSE Append(F[m - 1], l[m])]
  <2>4. Kept(G, m, l, K)
    <3> DEFINE H == [i \in 0..m |-> IF i = 0 THEN <<>>
                       ELSE IF l[i] \in K THEN G[i - 1] ELSE Append(G[i - 1], l[i])]
    <3>1. \A i \in 0..m : G[i] = IF i < m THEN F[i]
                       ELSE IF l[m] \in K THEN F[m - 1] ELSE Append(F[m - 1], l[m])
      OBVIOUS
    <3>2. PICK g : g = G
      OBVIOUS
    <3>3. g = [i \in 0..m |-> g[i]]
      BY <3>2
    <3>4. PICK h : h = H
      OBVIOUS
    <3>5. h = [i \in 0..m |-> h[i]]
      BY <3>4
    <3>6. \A i \in 0..m : h[i] = IF i = 0 THEN <<>>
                       ELSE IF l[i] \in K THEN G[i - 1] ELSE Append(G[i - 1], l[i])
      BY <3>4, Zenon
    <3> HIDE DEF G, H
    <3>7. ASSUME NEW i \in 0..m PROVE g[i] = h[i]
      <4>1. i # 0 => i - 1 \in 0..m /\ i - 1 < m
        BY <1>1
      <4>2. CASE i = 0
        <5>1. i < m /\ i \in 0..m
          BY <4>2, <1>1, <1>3
        <5>2. g[i] = F[i] /\ F[i] = <<>>
          BY <5>1, <4>2, <3>1, <3>2, <2>3, Zenon
        <5> QED
          BY <5>1, <5>2, <4>2, <3>6, Zenon
      <4>3. CASE i # 0 /\ i < m
        <5>1. g[i] = F[i] /\ G[i - 1] = F[i - 1] /\ i \in 1..m - 1
          BY <4>1, <4>3, <3>1, <3>2, <1>1
        <5>2. F[i] = IF l[i] \in K THEN F[i - 1] ELSE Append(F[i - 1], l[i])
          BY <5>1, <2>3
        <5>3. h[i] = IF l[i] \in K THEN G[i - 1] ELSE Append(G[i - 1], l[i])
          BY <3>6, <4>3
        <5> QED
          BY <5>1, <5>2, <5>3
      <4>4. CASE i # 0 /\ ~(i < m)
        <5>1. i = m
          BY <4>4, <1>1
        <5>2. G[m - 1] = F[m - 1]
          <6>1. m - 1 \in 0..m /\ m - 1 < m
            BY <1>1, <1>3
          <6> QED
            BY <6>1, <3>1, Zenon
        <5> QED
          BY <5>1, <5>2, <4>4, <3>1, <3>2, <3>6, <1>1
      <4> QED
        BY <4>2, <4>3, <4>4
    <3>8. g = h
      BY <3>3, <3>5, <3>7
    <3>9. G = H
      BY <3>2, <3>4, <3>8
    <3> QED
      BY <3>9, Zenon DEF Kept, H
  <2> QED
    BY <2>4, <1>1
<1> QED
  BY <1>2, <1>3

\* No key is twice in a list.
NoRepeat(l) == \A i, j \in 1..Len(l) : l[i] = l[j] => i = j

\* Without keeps the other keys of a list, each one once.
LEMMA WithoutOK ==
    ASSUME NEW l \in Seq(Keys), NEW K
    PROVE  /\ Without(l, K) \in Seq(Keys)
           /\ ToSet(Without(l, K)) = ToSet(l) \ K
           /\ NoRepeat(l) => NoRepeat(Without(l, K))
<1>1. Len(l) \in Nat
  OBVIOUS
<1> DEFINE F == CHOOSE G : Kept(G, Len(l), l, K)
           P(i) == /\ F[i] \in Seq(Keys)
                   /\ \A k : k \in ToSet(F[i]) <=> (k \notin K /\ \E j \in 1..i : l[j] = k)
                   /\ NoRepeat(l) => NoRepeat(F[i])
           T == {i \in 0..Len(l) : ~P(i)}
<1>2. Kept(F, Len(l), l, K)
  BY <1>1, KeptExists, Zenon
<1>3. Without(l, K) = F[Len(l)]
  BY Zenon DEF Without, Kept
<1>4. F[0] = <<>>
  BY <1>1, <1>2, KeptValues
<1>5. \A i \in 1..Len(l) : F[i] = IF l[i] \in K THEN F[i - 1] ELSE Append(F[i - 1], l[i])
  BY <1>1, <1>2, KeptValues
<1> HIDE DEF F
<1>6. P(0)
  BY <1>4 DEF ToSet, NoRepeat
<1>7. ASSUME NEW i \in 1..Len(l), P(i - 1) PROVE P(i)
  <2> DEFINE f == F[i - 1]
  <2>1. /\ f \in Seq(Keys)
        /\ \A k : k \in ToSet(f) <=> (k \notin K /\ \E j \in 1..i - 1 : l[j] = k)
        /\ NoRepeat(l) => NoRepeat(f)
    BY <1>7
  <2>2. F[i] = IF l[i] \in K THEN f ELSE Append(f, l[i])
    BY <1>5
  <2>3. \A k : (\E j \in 1..i : l[j] = k) <=> (l[i] = k \/ \E j \in 1..i - 1 : l[j] = k)
    BY <1>1
  <2> HIDE DEF f
  <2>4. CASE l[i] \in K
    <3>1. F[i] = f
      BY <2>2, <2>4
    <3> QED
      BY <3>1, <2>1, <2>3, <2>4
  <2>5. CASE l[i] \notin K
    <3> DEFINE g == Append(f, l[i])
    <3>1. F[i] = g
      BY <2>2, <2>5
    <3>2. l[i] \in Keys
      OBVIOUS
    <3>3. /\ g \in Seq(Keys) /\ Len(g) = Len(f) + 1 /\ g[Len(f) + 1] = l[i]
          /\ \A j \in 1..Len(f) : g[j] = f[j]
      BY <3>2, <2>1
    <3> HIDE DEF g
    <3>4. \A k : k \in ToSet(g) <=> (k \in ToSet(f) \/ k = l[i])
      BY <3>3, <2>1 DEF ToSet
    <3>5. NoRepeat(l) => NoRepeat(g)
      <4> SUFFICES ASSUME NoRepeat(l), NEW a \in 1..Len(g), NEW b \in 1..Len(g), g[a] = g[b]
                   PROVE  a = b
        BY DEF NoRepeat
      <4>1. l[i] \notin ToSet(f)
        BY <2>1 DEF NoRepeat
      <4>2. \A j \in 1..Len(f) : g[j] \in ToSet(f)
        BY <2>1, <3>3 DEF ToSet
      <4>3. NoRepeat(f)
        BY <2>1
      <4> QED
        BY <4>1, <4>2, <4>3, <3>3, <2>1 DEF NoRepeat
    <3> QED
      BY <3>1, <3>3, <3>4, <3>5, <2>1, <2>3, <2>5
  <2> QED
    BY <2>4, <2>5
<1>8. T = {}
  <2> SUFFICES ASSUME T # {} PROVE FALSE
    OBVIOUS
  <2> HIDE DEF P
  <2>1. T \subseteq Nat
    OBVIOUS
  <2>2. PICK i \in T : \A j \in T : i <= j
    <3> HIDE DEF T
    <3> QED
      BY <2>1, LeastNumber
  <2>3. i \in 1..Len(l) /\ i - 1 \in 0..Len(l)
    BY <1>6, <2>2, <1>1
  <2>4. i - 1 \notin T
    BY <2>2, <2>3
  <2>5. P(i - 1)
    BY <2>3, <2>4
  <2>6. P(i)
    BY <2>3, <2>5, <1>7
  <2> QED
    BY <2>2, <2>6
<1>9. P(Len(l))
  <2> HIDE DEF P
  <2> QED
    BY <1>8, <1>1
<1>10. \A k : k \in ToSet(l) <=> \E j \in 1..Len(l) : l[j] = k
  BY DEF ToSet
<1> QED
  BY <1>3, <1>9, <1>10

\* The size of some keys, written out.
SizeIf(S, k) == IF k \in S THEN Size[k] ELSE 0
Total(S) == SizeIf(S, "alloptions") + SizeIf(S, "transient read")
            + SizeIf(S, "terms") + SizeIf(S, "listing")

\* It is the sum of four numbers, ...
LEMMA TotalIs ==
    ASSUME NEW S
    PROVE  \E a, b, c, d \in Nat :
              /\ SizeIf(S, "alloptions") = a /\ SizeIf(S, "transient read") = b
              /\ SizeIf(S, "terms") = c /\ SizeIf(S, "listing") = d
              /\ Total(S) = a + b + c + d
<1>1. PICK a \in Nat, b \in Nat, c \in Nat, d \in Nat :
         /\ SizeIf(S, "alloptions") = a /\ SizeIf(S, "transient read") = b
         /\ SizeIf(S, "terms") = c /\ SizeIf(S, "listing") = d
  <2>1. \A k \in Keys : SizeIf(S, k) \in Nat
    BY SizeAssumption DEF SizeIf
  <2> QED
    BY <2>1 DEF Keys
<1>2. Total(S) = a + b + c + d
  BY <1>1 DEF Total
<1> QED
  BY <1>1, <1>2

\* ... which are no less for more keys.
LEMMA TotalCompares ==
    ASSUME NEW R \in SUBSET Keys, NEW S \in SUBSET Keys, R \subseteq S
    PROVE  Total(R) <= Total(S) /\ Total(S \ R) = Total(S) - Total(R)
<1>1. PICK a \in Nat, b \in Nat, c \in Nat, d \in Nat :
         /\ SizeIf(R, "alloptions") = a /\ SizeIf(R, "transient read") = b
         /\ SizeIf(R, "terms") = c /\ SizeIf(R, "listing") = d
         /\ Total(R) = a + b + c + d
  BY TotalIs
<1>2. PICK a1 \in Nat, b1 \in Nat, c1 \in Nat, d1 \in Nat :
         /\ SizeIf(S \ R, "alloptions") = a1 /\ SizeIf(S \ R, "transient read") = b1
         /\ SizeIf(S \ R, "terms") = c1 /\ SizeIf(S \ R, "listing") = d1
         /\ Total(S \ R) = a1 + b1 + c1 + d1
  BY TotalIs
<1>3. PICK a2 \in Nat, b2 \in Nat, c2 \in Nat, d2 \in Nat :
         /\ SizeIf(S, "alloptions") = a2 /\ SizeIf(S, "transient read") = b2
         /\ SizeIf(S, "terms") = c2 /\ SizeIf(S, "listing") = d2
         /\ Total(S) = a2 + b2 + c2 + d2
  BY TotalIs
<1>4. ASSUME NEW k \in Keys PROVE SizeIf(S, k) = SizeIf(R, k) + SizeIf(S \ R, k)
  <2>1. Size[k] \in Nat
    BY SizeAssumption
  <2> QED
    BY <2>1 DEF SizeIf
<1>5. a2 = a + a1 /\ b2 = b + b1 /\ c2 = c + c1 /\ d2 = d + d1
  <2>1. /\ SizeIf(S, "alloptions") = SizeIf(R, "alloptions") + SizeIf(S \ R, "alloptions")
        /\ SizeIf(S, "transient read") = SizeIf(R, "transient read") + SizeIf(S \ R, "transient read")
        /\ SizeIf(S, "terms") = SizeIf(R, "terms") + SizeIf(S \ R, "terms")
        /\ SizeIf(S, "listing") = SizeIf(R, "listing") + SizeIf(S \ R, "listing")
    BY <1>4 DEF Keys
  <2> QED
    BY <2>1, <1>1, <1>2, <1>3
<1>6. /\ a + b + c + d <= (a + a1) + (b + b1) + (c + c1) + (d + d1)
      /\ a1 + b1 + c1 + d1 = (a + a1) + (b + b1) + (c + c1) + (d + d1) - (a + b + c + d)
  OBVIOUS
<1>7. Total(R) <= Total(S)
  BY <1>1, <1>3, <1>5, <1>6, Zenon
<1>8. Total(S \ R) = Total(S) - Total(R)
  <2>1. a1 + b1 + c1 + d1 = (a2 + b2 + c2 + d2) - (a + b + c + d)
    BY <1>5, <1>6
  <2> QED
    BY <2>1, <1>1, <1>2, <1>3, Zenon
<1> QED
  BY <1>7, <1>8

\* One key by itself has its own size.
LEMMA TotalOne ==
    ASSUME NEW k \in Keys
    PROVE  Total({k}) = Size[k]
<1>1. PICK a \in Nat, b \in Nat, c \in Nat, d \in Nat :
         /\ SizeIf({k}, "alloptions") = a /\ SizeIf({k}, "transient read") = b
         /\ SizeIf({k}, "terms") = c /\ SizeIf({k}, "listing") = d
         /\ Total({k}) = a + b + c + d
  BY TotalIs
<1>2. PICK z \in Nat : z = Size[k]
  BY SizeAssumption
<1>3. SizeIf({k}, k) = z /\ \A h : h # k => SizeIf({k}, h) = 0
  BY <1>2 DEF SizeIf
<1>4. \/ k = "alloptions" \/ k = "transient read" \/ k = "terms" \/ k = "listing"
  BY DEF Keys
<1>5. \/ a = z /\ b = 0 /\ c = 0 /\ d = 0
      \/ a = 0 /\ b = z /\ c = 0 /\ d = 0
      \/ a = 0 /\ b = 0 /\ c = z /\ d = 0
      \/ a = 0 /\ b = 0 /\ c = 0 /\ d = z
  <2>1. CASE k = "alloptions"
    <3>1. a = z /\ b = 0 /\ c = 0 /\ d = 0
      BY <2>1, <1>1, <1>3
    <3> QED
      BY <3>1
  <2>2. CASE k = "transient read"
    <3>1. a = 0 /\ b = z /\ c = 0 /\ d = 0
      BY <2>2, <1>1, <1>3
    <3> QED
      BY <3>1
  <2>3. CASE k = "terms"
    <3>1. a = 0 /\ b = 0 /\ c = z /\ d = 0
      BY <2>3, <1>1, <1>3
    <3> QED
      BY <3>1
  <2>4. CASE k = "listing"
    <3>1. a = 0 /\ b = 0 /\ c = 0 /\ d = z
      BY <2>4, <1>1, <1>3
    <3> QED
      BY <3>1
  <2> QED
    BY <2>1, <2>2, <2>3, <2>4, <1>4
<1>6. a + b + c + d = z
  BY <1>5
<1> QED
  BY <1>1, <1>2, <1>6, Zenon

\* It is a number, none for no keys, and one key adds its size to the others'.
LEMMA TotalFacts ==
    /\ \A S : Total(S) \in Nat
    /\ Total({}) = 0
    /\ \A S \in SUBSET Keys : \A k \in Keys \ S : Total(S \cup {k}) = Total(S) + Size[k]
    /\ \A S \in SUBSET Keys : \A k \in S : Total(S) = Size[k] + Total(S \ {k})
<1>1. ASSUME NEW S PROVE Total(S) \in Nat
  <2>1. PICK a \in Nat, b \in Nat, c \in Nat, d \in Nat :
           /\ SizeIf(S, "alloptions") = a /\ SizeIf(S, "transient read") = b
           /\ SizeIf(S, "terms") = c /\ SizeIf(S, "listing") = d
           /\ Total(S) = a + b + c + d
    BY TotalIs
  <2>2. a + b + c + d \in Nat
    OBVIOUS
  <2> QED
    BY <2>1, <2>2, Zenon
<1>2. Total({}) = 0
  <2>1. Total({}) = Total({}) - Total({})
    BY TotalCompares
  <2>2. PICK n \in Nat : Total({}) = n
    BY <1>1
  <2> QED
    BY <2>1, <2>2
<1>3. ASSUME NEW S \in SUBSET Keys, NEW k \in S PROVE Total(S) = Size[k] + Total(S \ {k})
  <2>1. Total(S \ {k}) = Total(S) - Total({k})
    BY TotalCompares
  <2>2. PICK m \in Nat, n \in Nat, z \in Nat :
           Total(S \ {k}) = m /\ Total(S) = n /\ Size[k] = z
    BY <1>1, SizeAssumption
  <2> QED
    BY <2>1, <2>2, TotalOne
<1>4. ASSUME NEW S \in SUBSET Keys, NEW k \in Keys \ S
      PROVE  Total(S \cup {k}) = Total(S) + Size[k]
  <2>1. Total(S \cup {k}) = Size[k] + Total((S \cup {k}) \ {k})
    BY <1>3
  <2>2. (S \cup {k}) \ {k} = S
    OBVIOUS
  <2>3. PICK m \in Nat, z \in Nat : Total(S) = m /\ Size[k] = z
    BY <1>1, SizeAssumption
  <2> QED
    BY <2>1, <2>2, <2>3
<1> QED
  BY <1>1, <1>2, <1>3, <1>4

\* It is what the sum over a set of keys, one chosen after the other, comes to.
LEMMA SumIsTotal ==
    ASSUME NEW S \in SUBSET Keys
    PROVE  SumSizes(S) = Total(S)
<1> DEFINE Sums(f) == f = [s \in SUBSET S |->
                             IF s = {} THEN 0
                             ELSE Size[CHOOSE x \in s : TRUE] + f[s \ {CHOOSE x \in s : TRUE}]]
           g == [s \in SUBSET S |-> Total(s)]
           f == CHOOSE h : Sums(h)
<1>1. \A s \in SUBSET S : s # {} =>
         /\ (CHOOSE x \in s : TRUE) \in s
         /\ s \ {CHOOSE x \in s : TRUE} \in SUBSET S
  OBVIOUS
<1>2. Sums(g)
  <2> DEFINE h == [s \in SUBSET S |->
                     IF s = {} THEN 0
                     ELSE Size[CHOOSE x \in s : TRUE] + g[s \ {CHOOSE x \in s : TRUE}]]
  <2>1. ASSUME NEW s \in SUBSET S PROVE g[s] = h[s]
    <3>1. CASE s = {}
      BY <3>1, TotalFacts
    <3>2. CASE s # {}
      <4> DEFINE x == CHOOSE y \in s : TRUE
      <4>1. x \in s /\ s \ {x} \in SUBSET S
        BY <3>2, <1>1
      <4>2. h[s] = Size[x] + g[s \ {x}]
        BY <3>2
      <4> HIDE DEF x, h
      <4>3. g[s] = Total(s) /\ g[s \ {x}] = Total(s \ {x})
        BY <4>1
      <4>4. Total(s) = Size[x] + Total(s \ {x})
        BY <4>1, TotalFacts
      <4> QED
        BY <4>2, <4>3, <4>4
    <3> QED
      BY <3>1, <3>2
  <2>2. PICK a : a = g
    OBVIOUS
  <2>3. PICK b : b = h
    OBVIOUS
  <2>4. a = [s \in SUBSET S |-> a[s]] /\ b = [s \in SUBSET S |-> b[s]]
    <3>1. a = [s \in SUBSET S |-> a[s]]
      BY <2>2
    <3>2. b = [s \in SUBSET S |-> b[s]]
      BY <2>3
    <3> QED
      BY <3>1, <3>2
  <2>5. g = h
    <3> HIDE DEF g, h
    <3>1. a = b
      BY <2>1, <2>2, <2>3, <2>4
    <3> QED
      BY <3>1, <2>2, <2>3
  <2> QED
    BY <2>5, Zenon
<1>3. Sums(f)
  <2> HIDE DEF Sums, g
  <2> QED
    BY <1>2, Zenon
<1>4. SumSizes(S) = f[S]
  BY Zenon DEF SumSizes, MapThenSumSet, MapThenFoldSet
<1> HIDE DEF f
<1>5. \A s \in SUBSET S : s # {} =>
         f[s] = Size[CHOOSE x \in s : TRUE] + f[s \ {CHOOSE x \in s : TRUE}]
  BY <1>3
<1>6. f[{}] = 0
  BY <1>3
<1> HIDE DEF Sums, g
<1> DEFINE T == {s \in SUBSET S : f[s] # Total(s)}
<1>7. T = {}
  <2> SUFFICES ASSUME T # {} PROVE FALSE
    OBVIOUS
  <2>1. IsFiniteSet(S)
    <3>1. IsFiniteSet({}) /\ IsFiniteSet({} \cup {"alloptions"})
      BY FS_EmptySet, FS_AddElement
    <3>2. IsFiniteSet({} \cup {"alloptions"} \cup {"transient read"})
      BY <3>1, FS_AddElement
    <3>3. IsFiniteSet({} \cup {"alloptions"} \cup {"transient read"} \cup {"terms"})
      BY <3>2, FS_AddElement
    <3>4. IsFiniteSet({} \cup {"alloptions"} \cup {"transient read"} \cup {"terms"} \cup {"listing"})
      BY <3>3, FS_AddElement
    <3>5. Keys = {} \cup {"alloptions"} \cup {"transient read"} \cup {"terms"} \cup {"listing"}
      BY DEF Keys
    <3> QED
      BY <3>4, <3>5, FS_Subset
  <2>2. IsWellFoundedOn(StrictSubsetOrdering(S), SUBSET S)
    BY <2>1, FS_StrictSubsetOrderingWellFounded, FS_FiniteSubsetsOfFinite
  <2>3. PICK m \in T : \A n \in T : <<n, m>> \notin StrictSubsetOrdering(S)
    <3>1. T \subseteq SUBSET S
      OBVIOUS
    <3> HIDE DEF T
    <3> QED
      BY <2>2, <3>1, WFMin
  <2>4. m # {}
    BY <1>6, <2>3, TotalFacts
  <2> DEFINE x == CHOOSE y \in m : TRUE
             n == m \ {x}
  <2>5. m \in SUBSET S /\ x \in m /\ n \in SUBSET S
    BY <2>4, <2>3, <1>1
  <2>6. f[m] = Size[x] + f[n]
    BY <2>4, <2>5, <1>5
  <2> HIDE DEF x, T
  <2>7. <<n, m>> \in StrictSubsetOrdering(S)
    BY <2>5 DEF StrictSubsetOrdering
  <2>8. n \notin T
    BY <2>3, <2>7
  <2>9. f[n] = Total(n)
    BY <2>8, <2>5 DEF T
  <2>10. Total(m) = Size[x] + Total(n)
    BY <2>5, TotalFacts
  <2> QED
    BY <2>3, <2>6, <2>9, <2>10 DEF T
<1> QED
  BY <1>4, <1>7

-----------------------------------------------------------------------------
(* Lists of keys *)

\* A list that repeats no key is as long as the set of its keys is large.
LEMMA LengthIsCardinality ==
    ASSUME NEW l \in Seq(Keys), NoRepeat(l)
    PROVE  IsFiniteSet(ToSet(l)) /\ Cardinality(ToSet(l)) = Len(l)
<1>1. Len(l) \in Nat
  OBVIOUS
<1> DEFINE f == [i \in 1..Len(l) |-> l[i]]
<1>2. f \in Bijection(1..Len(l), ToSet(l))
  BY DEF Bijection, Injection, IsInjective, Surjection, ToSet, NoRepeat
<1>3. ExistsBijection(1..Len(l), ToSet(l))
  BY <1>2 DEF ExistsBijection
<1> QED
  BY <1>1, <1>3, FS_CountingElements, FS_NatBijection

\* A key comes to the front of a list that does not have it.
LEMMA FrontOK ==
    ASSUME NEW l \in Seq(Keys), NoRepeat(l), NEW k \in Keys, k \notin ToSet(l)
    PROVE  /\ <<k>> \o l \in Seq(Keys) /\ NoRepeat(<<k>> \o l)
           /\ ToSet(<<k>> \o l) = ToSet(l) \cup {k}
           /\ Len(<<k>> \o l) = Len(l) + 1 /\ (<<k>> \o l)[1] = k
<1> DEFINE g == <<k>> \o l
<1>1. /\ g \in Seq(Keys) /\ Len(g) = Len(l) + 1 /\ g[1] = k
      /\ \A i \in 2..Len(g) : g[i] = l[i - 1] /\ i - 1 \in 1..Len(l)
      /\ \A i \in 1..Len(l) : l[i] = g[i + 1] /\ i + 1 \in 2..Len(g)
  OBVIOUS
<1> HIDE DEF g
<1>2. \A h : h \in ToSet(g) <=> h \in ToSet(l) \/ h = k
  <2> SUFFICES ASSUME NEW h PROVE h \in ToSet(g) <=> h \in ToSet(l) \/ h = k
    OBVIOUS
  <2>1. ASSUME h \in ToSet(g) PROVE h \in ToSet(l) \/ h = k
    <3>1. PICK i \in 1..Len(g) : h = g[i]
      BY <2>1, <1>1 DEF ToSet
    <3>2. CASE i = 1
      BY <3>1, <3>2, <1>1
    <3>3. CASE i \in 2..Len(g)
      <4>1. h = l[i - 1] /\ i - 1 \in 1..Len(l)
        BY <3>1, <3>3, <1>1
      <4> QED
        BY <4>1 DEF ToSet
    <3> QED
      BY <3>2, <3>3, <1>1
  <2>2. ASSUME h \in ToSet(l) PROVE h \in ToSet(g)
    <3>1. PICK i \in 1..Len(l) : h = l[i]
      BY <2>2 DEF ToSet
    <3>2. h = g[i + 1] /\ i + 1 \in 1..Len(g)
      BY <3>1, <1>1
    <3> QED
      BY <3>2, <1>1 DEF ToSet
  <2>3. k \in ToSet(g)
    BY <1>1 DEF ToSet
  <2> QED
    BY <2>1, <2>2, <2>3
<1>3. NoRepeat(g)
  <2> SUFFICES ASSUME NEW i \in 1..Len(g), NEW j \in 1..Len(g), g[i] = g[j] PROVE i = j
    BY DEF NoRepeat
  <2>1. (i = 1 \/ i \in 2..Len(g)) /\ (j = 1 \/ j \in 2..Len(g))
    BY <1>1
  <2>2. ASSUME NEW n \in 2..Len(g) PROVE g[n] # k
    <3>1. g[n] = l[n - 1] /\ n - 1 \in 1..Len(l)
      BY <1>1
    <3> QED
      BY <3>1 DEF ToSet
  <2>3. ASSUME i \in 2..Len(g), j \in 2..Len(g) PROVE i = j
    <3>1. g[i] = l[i - 1] /\ i - 1 \in 1..Len(l)
      BY <2>3, <1>1
    <3>2. g[j] = l[j - 1] /\ j - 1 \in 1..Len(l)
      BY <2>3, <1>1
    <3>3. i - 1 = j - 1
      BY <3>1, <3>2 DEF NoRepeat
    <3> QED
      BY <3>3
  <2> QED
    BY <2>1, <2>2, <2>3, <1>1
<1> QED
  BY <1>1, <1>2, <1>3 DEF g

-----------------------------------------------------------------------------
(* The operations on the entries *)

\* The map, the list and the tag index hold the same entries, each key is once
\* in the list, and bytes is the size of them all.
IndexesOK(m) ==
    /\ m = [entries |-> m.entries, lru |-> m.lru, byTag |-> m.byTag, bytes |-> m.bytes]
    /\ m.entries = [k \in Keys |-> m.entries[k]]
    /\ m.lru \in Seq(Keys) /\ NoRepeat(m.lru) /\ ToSet(m.lru) = Cached(m)
    /\ m.byTag = [t \in Tags |-> {k \in Cached(m) : t \in TagsOf(k)}]
    /\ m.bytes = Total(Cached(m))

\* removeLocked removes the keys from all of them.
LEMMA RemovedOK ==
    ASSUME NEW m, IndexesOK(m), NEW K \in SUBSET Cached(m)
    PROVE  /\ IndexesOK(Removed(m, K)) /\ Cached(Removed(m, K)) = Cached(m) \ K
           /\ \A k \in Keys : Removed(m, K).entries[k] = IF k \in K THEN None ELSE m.entries[k]
<1> DEFINE r == Removed(m, K)
<1>1. /\ r.entries = [k \in Keys |-> IF k \in K THEN None ELSE m.entries[k]]
      /\ r.lru = Without(m.lru, K)
      /\ r.byTag = [t \in Tags |-> m.byTag[t] \ {k \in K : t \in TagsOf(k)}]
      /\ r.bytes = m.bytes - SumSizes(K)
      /\ r = [entries |-> r.entries, lru |-> r.lru, byTag |-> r.byTag, bytes |-> r.bytes]
  BY DEF Removed, NoEntry
<1> HIDE DEF r
<1>2. /\ \A k \in Keys : r.entries[k] = IF k \in K THEN None ELSE m.entries[k]
      /\ r.entries = [k \in Keys |-> r.entries[k]]
  BY <1>1
<1>3. K \in SUBSET Keys /\ Cached(m) \in SUBSET Keys
  BY DEF Cached
<1>4. Cached(r) = Cached(m) \ K
  BY <1>2, <1>3 DEF Cached, NoEntry
<1>5. r.lru \in Seq(Keys) /\ NoRepeat(r.lru) /\ ToSet(r.lru) = Cached(r)
  BY <1>1, <1>4, WithoutOK DEF IndexesOK
<1>6. r.byTag = [t \in Tags |-> {k \in Cached(r) : t \in TagsOf(k)}]
  <2>1. \A t \in Tags : m.byTag[t] = {k \in Cached(m) : t \in TagsOf(k)}
    BY DEF IndexesOK
  <2>2. \A t \in Tags : m.byTag[t] \ {k \in K : t \in TagsOf(k)} = {k \in Cached(r) : t \in TagsOf(k)}
    BY <2>1, <1>4
  <2> QED
    BY <2>2, <1>1
<1>7. r.bytes = Total(Cached(r))
  <2>1. SumSizes(K) = Total(K)
    BY <1>3, SumIsTotal
  <2>2. Total(Cached(m) \ K) = Total(Cached(m)) - Total(K)
    BY <1>3, TotalCompares
  <2> QED
    BY <2>1, <2>2, <1>1, <1>4, Zenon DEF IndexesOK
<1> QED
  BY <1>1, <1>2, <1>4, <1>5, <1>6, <1>7 DEF IndexesOK, r

\* A lookup moves an entry in the list alone.
LEMMA MoveToFrontOK ==
    ASSUME NEW m, IndexesOK(m), NEW k \in Cached(m)
    PROVE  /\ IndexesOK(MoveToFront(m, k)) /\ Cached(MoveToFront(m, k)) = Cached(m)
           /\ MoveToFront(m, k).entries = m.entries
<1> DEFINE r == MoveToFront(m, k)
<1>1. /\ r.entries = m.entries /\ r.byTag = m.byTag /\ r.bytes = m.bytes
      /\ r.lru = <<k>> \o Without(m.lru, {k})
      /\ r = [entries |-> r.entries, lru |-> r.lru, byTag |-> r.byTag, bytes |-> r.bytes]
  <2>1. PICK x : x = <<k>> \o Without(m.lru, {k})
    OBVIOUS
  <2>2. r = [m EXCEPT !.lru = x]
    BY <2>1, Zenon DEF MoveToFront
  <2>3. PICK a, b, c, d : m = [entries |-> a, lru |-> b, byTag |-> c, bytes |-> d]
    BY Zenon DEF IndexesOK
  <2>4. r = [entries |-> a, lru |-> x, byTag |-> c, bytes |-> d]
    BY <2>2, <2>3
  <2> HIDE DEF r
  <2> QED
    BY <2>1, <2>3, <2>4
<1> HIDE DEF r
<1>2. Cached(r) = Cached(m)
  BY <1>1 DEF Cached
<1>3. /\ Without(m.lru, {k}) \in Seq(Keys) /\ NoRepeat(Without(m.lru, {k}))
      /\ ToSet(Without(m.lru, {k})) = Cached(m) \ {k}
  BY WithoutOK DEF IndexesOK
<1>4. k \in Keys
  BY DEF Cached
<1>5. r.lru \in Seq(Keys) /\ NoRepeat(r.lru) /\ ToSet(r.lru) = Cached(r)
  <2>1. PICK w : w = Without(m.lru, {k})
    OBVIOUS
  <2>2. w \in Seq(Keys) /\ NoRepeat(w) /\ ToSet(w) = Cached(m) \ {k} /\ k \notin ToSet(w)
    BY <2>1, <1>3
  <2>3. /\ <<k>> \o w \in Seq(Keys) /\ NoRepeat(<<k>> \o w)
        /\ ToSet(<<k>> \o w) = ToSet(w) \cup {k}
    BY <2>2, <1>4, FrontOK
  <2> QED
    BY <2>1, <2>2, <2>3, <1>1, <1>2
<1> QED
  BY <1>1, <1>2, <1>5 DEF IndexesOK, r

\* A new entry is added to all of them.
LEMMA PushFrontOK ==
    ASSUME NEW m, IndexesOK(m), NEW k \in Keys \ Cached(m), NEW e, e # None
    PROVE  /\ IndexesOK(PushFront(m, k, e)) /\ Cached(PushFront(m, k, e)) = Cached(m) \cup {k}
           /\ \A h \in Keys : PushFront(m, k, e).entries[h] = IF h = k THEN e ELSE m.entries[h]
<1> DEFINE r == PushFront(m, k, e)
<1>1. /\ r.entries = [m.entries EXCEPT ![k] = e]
      /\ r.lru = <<k>> \o m.lru
      /\ r.byTag = [t \in Tags |-> m.byTag[t] \cup (IF t \in TagsOf(k) THEN {k} ELSE {})]
      /\ r.bytes = m.bytes + Size[k]
      /\ r = [entries |-> r.entries, lru |-> r.lru, byTag |-> r.byTag, bytes |-> r.bytes]
  BY DEF PushFront
<1> HIDE DEF r
<1>2. /\ \A h \in Keys : r.entries[h] = IF h = k THEN e ELSE m.entries[h]
      /\ r.entries = [h \in Keys |-> r.entries[h]]
  BY <1>1 DEF IndexesOK
<1>3. Cached(m) \in SUBSET Keys
  BY DEF Cached
<1>4. Cached(r) = Cached(m) \cup {k}
  BY <1>2, <1>3 DEF Cached, NoEntry
<1>5. r.lru \in Seq(Keys) /\ NoRepeat(r.lru) /\ ToSet(r.lru) = Cached(r)
  BY <1>1, <1>4, FrontOK DEF IndexesOK
<1>6. r.byTag = [t \in Tags |-> {h \in Cached(r) : t \in TagsOf(h)}]
  <2>1. \A t \in Tags : m.byTag[t] = {h \in Cached(m) : t \in TagsOf(h)}
    BY DEF IndexesOK
  <2>2. \A t \in Tags : m.byTag[t] \cup (IF t \in TagsOf(k) THEN {k} ELSE {})
                        = {h \in Cached(r) : t \in TagsOf(h)}
    BY <2>1, <1>4
  <2> QED
    BY <2>2, <1>1
<1>7. r.bytes = Total(Cached(r))
  <2>1. Total(Cached(m) \cup {k}) = Total(Cached(m)) + Size[k]
    BY <1>3, TotalFacts
  <2> QED
    BY <2>1, <1>1, <1>4, Zenon DEF IndexesOK
<1> QED
  BY <1>1, <1>2, <1>4, <1>5, <1>6, <1>7 DEF IndexesOK, r

\* A count completes an entry in the map alone.
Counted(m, v) == [m EXCEPT !.entries["listing"].count = v]

\* The indexes do not change with it.
LEMMA CountedOK ==
    ASSUME NEW m, IndexesOK(m), NEW v, [m.entries["listing"] EXCEPT !.count = v] # None,
           "listing" \in Cached(m)
    PROVE  /\ IndexesOK(Counted(m, v)) /\ Cached(Counted(m, v)) = Cached(m)
           /\ \A k \in Keys : Counted(m, v).entries[k] =
                 IF k = "listing" THEN [m.entries["listing"] EXCEPT !.count = v] ELSE m.entries[k]
<1> DEFINE r == Counted(m, v)
<1>1. /\ r.entries = [m.entries EXCEPT !["listing"] = [m.entries["listing"] EXCEPT !.count = v]]
      /\ r.byTag = m.byTag /\ r.bytes = m.bytes /\ r.lru = m.lru
      /\ r = [entries |-> r.entries, lru |-> r.lru, byTag |-> r.byTag, bytes |-> r.bytes]
  <2>1. PICK x : x = [m.entries EXCEPT !["listing"] = [m.entries["listing"] EXCEPT !.count = v]]
    OBVIOUS
  <2>2. r = [m EXCEPT !.entries = x]
    BY <2>1 DEF Counted
  <2>3. PICK a, b, c, d : m = [entries |-> a, lru |-> b, byTag |-> c, bytes |-> d]
    BY Zenon DEF IndexesOK
  <2>4. r = [entries |-> x, lru |-> b, byTag |-> c, bytes |-> d]
    BY <2>2, <2>3
  <2> HIDE DEF r
  <2> QED
    BY <2>1, <2>3, <2>4
<1> HIDE DEF r
<1>2. /\ r.entries = [k \in Keys |-> r.entries[k]]
      /\ \A k \in Keys : r.entries[k] =
            IF k = "listing" THEN [m.entries["listing"] EXCEPT !.count = v] ELSE m.entries[k]
  BY <1>1 DEF IndexesOK, Keys
<1>3. Cached(r) = Cached(m)
  BY <1>2 DEF Cached, NoEntry
<1> QED
  BY <1>1, <1>2, <1>3 DEF IndexesOK, r

\* insertLocked keeps the indexes: what is left of the old entries is some of
\* those that fit, and the new one is there.
LEMMA InsertedOK ==
    ASSUME NEW m, IndexesOK(m), NEW k \in Keys, NEW e, e # None, NEW c
    PROVE  /\ IndexesOK(Inserted(m, k, e, c))
           /\ Cached(Inserted(m, k, e, c))
                 = (Cached(m) \cap (Fitting(Ranked(m, k, c), c) \ {k})) \cup {k}
           /\ Inserted(m, k, e, c).entries[k] = e
           /\ \A h \in Keys \ {k} : Inserted(m, k, e, c).entries[h] \in {None, m.entries[h]}
<1>1. PICK F : F = Fitting(Ranked(m, k, c), c) \ {k}
  OBVIOUS
<1>2. PICK r : r = Removed(m, Cached(m) \ F)
  OBVIOUS
<1>3. /\ IndexesOK(r) /\ Cached(r) = Cached(m) \cap F
      /\ \A h \in Keys : r.entries[h] \in {None, m.entries[h]}
  <2>1. /\ IndexesOK(Removed(m, Cached(m) \ F))
        /\ Cached(Removed(m, Cached(m) \ F)) = Cached(m) \ (Cached(m) \ F)
        /\ \A h \in Keys : Removed(m, Cached(m) \ F).entries[h]
                              = IF h \in Cached(m) \ F THEN None ELSE m.entries[h]
    BY RemovedOK
  <2> QED
    BY <2>1, <1>2
<1>4. k \in Keys \ Cached(r)
  BY <1>1, <1>3
<1>5. Inserted(m, k, e, c) = PushFront(r, k, e)
  BY <1>1, <1>2, Zenon DEF Inserted
<1>6. /\ IndexesOK(PushFront(r, k, e)) /\ Cached(PushFront(r, k, e)) = Cached(r) \cup {k}
      /\ \A h \in Keys : PushFront(r, k, e).entries[h] = IF h = k THEN e ELSE r.entries[h]
  BY <1>3, <1>4, PushFrontOK
<1>7. \A h \in Keys \ {k} : PushFront(r, k, e).entries[h] \in {None, m.entries[h]}
  BY <1>3, <1>6
<1>8. PushFront(r, k, e).entries[k] = e
  BY <1>6
<1> QED
  BY <1>1, <1>3, <1>5, <1>6, <1>7, <1>8

\* The list that insertLocked cuts: the new key is its first, and it is no
\* longer than max_entries allows.
LEMMA RankedOK ==
    ASSUME NEW m, IndexesOK(m), NEW k \in Keys, NEW c \in Confs
    PROVE  /\ Ranked(m, k, c) \in Seq(Keys) /\ NoRepeat(Ranked(m, k, c))
           /\ Len(Ranked(m, k, c)) >= 1 /\ Len(Ranked(m, k, c)) <= c.maxEntries
           /\ Ranked(m, k, c)[1] = k
<1>1. PICK w : w = Without(m.lru, {k})
  OBVIOUS
<1>2. w \in Seq(Keys) /\ NoRepeat(w) /\ k \notin ToSet(w)
  BY <1>1, WithoutOK DEF IndexesOK
<1>3. PICK l : l = <<k>> \o w
  OBVIOUS
<1>4. l \in Seq(Keys) /\ NoRepeat(l) /\ Len(l) >= 1 /\ l[1] = k
  BY <1>2, <1>3, FrontOK
<1>5. PICK n \in Nat : /\ n = IF Len(l) < c.maxEntries THEN Len(l) ELSE c.maxEntries
                       /\ 1 <= n /\ n <= Len(l) /\ n <= c.maxEntries
  BY <1>4, ConfsAssumption
<1>6. Ranked(m, k, c) = SubSeq(l, 1, n)
  BY <1>1, <1>3, <1>5, Zenon DEF Ranked
<1>7. PICK g : g = SubSeq(l, 1, n)
  OBVIOUS
<1>8. g \in Seq(Keys) /\ Len(g) = n /\ \A i \in 1..n : g[i] = l[i] /\ i \in 1..Len(l)
  BY <1>4, <1>5, <1>7
<1>9. NoRepeat(g)
  BY <1>4, <1>8 DEF NoRepeat
<1> QED
  BY <1>4, <1>5, <1>6, <1>7, <1>8, <1>9

\* The last place of a set of places.
LEMMA LastPlace ==
    ASSUME NEW n \in Nat, NEW J \in SUBSET (1..n), J # {}
    PROVE  \E j \in J : \A i \in J : i <= j
<1> DEFINE T == {x \in Nat : \A i \in J : i <= x}
<1>1. n \in T /\ T \in SUBSET Nat
  OBVIOUS
<1>2. PICK x \in T : \A y \in T : x <= y
  <2> HIDE DEF T
  <2> QED
    BY <1>1, LeastNumber
<1>3. CASE x \in J
  BY <1>2, <1>3
<1>4. CASE x \notin J
  <2>1. PICK i \in J : TRUE
    OBVIOUS
  <2>2. i <= x /\ i \in 1..n
    BY <1>2, <2>1
  <2>3. x - 1 \in Nat /\ \A h \in J : h <= x - 1
    BY <1>2, <1>4, <2>2
  <2>4. x - 1 \in T
    BY <2>3
  <2>5. x <= x - 1
    BY <1>2, <2>4
  <2> QED
    BY <2>3, <2>5
<1> QED
  BY <1>3, <1>4

\* insertLocked enforces both bounds, save for a single entry.
LEMMA InsertedFits ==
    ASSUME NEW m, IndexesOK(m), NEW k \in Keys, NEW e, e # None, NEW c \in Confs
    PROVE  LET r == Inserted(m, k, e, c) IN
           /\ Len(r.lru) <= c.maxEntries
           /\ c.maxBytes = 0 \/ r.bytes <= c.maxBytes \/ Len(r.lru) = 1
<1>1. PICK r : r = Inserted(m, k, e, c)
  OBVIOUS
<1>2. PICK l : l = Ranked(m, k, c)
  OBVIOUS
<1>3. /\ l \in Seq(Keys) /\ NoRepeat(l)
      /\ Len(l) >= 1 /\ Len(l) <= c.maxEntries /\ l[1] = k /\ Len(l) \in Nat
  BY <1>2, RankedOK
<1>4. PICK C : C = Cached(r)
  OBVIOUS
<1>5. IndexesOK(r) /\ C = (Cached(m) \cap (Fitting(l, c) \ {k})) \cup {k}
  <2>1. /\ IndexesOK(Inserted(m, k, e, c))
        /\ Cached(Inserted(m, k, e, c))
              = (Cached(m) \cap (Fitting(Ranked(m, k, c), c) \ {k})) \cup {k}
    BY InsertedOK
  <2> QED
    BY <2>1, <1>1, <1>2, <1>4, Zenon
<1> DEFINE J == {j \in 1..Len(l) :
                    j = 1 \/ c.maxBytes = 0 \/ SumSizes({l[h] : h \in 1..j}) <= c.maxBytes}
<1>6. Fitting(l, c) = {l[i] : i \in J}
  BY Zenon DEF Fitting
<1>7. 1 \in J /\ J \in SUBSET (1..Len(l))
  BY <1>3
<1>8. PICK j \in J : \A i \in J : i <= j
  <2> HIDE DEF J
  <2> QED
    BY <1>3, <1>7, LastPlace
<1>9. \/ j = 1 \/ c.maxBytes = 0 \/ SumSizes({l[h] : h \in 1..j}) <= c.maxBytes
  BY <1>8
<1> HIDE DEF J
<1>10. \A x \in C : \E i \in J : x = l[i]
  BY <1>3, <1>5, <1>6, <1>7
<1>11. C \subseteq {l[h] : h \in 1..j}
  BY <1>7, <1>8, <1>10
<1>12. C \subseteq ToSet(l)
  BY <1>7, <1>10 DEF ToSet
<1>13. IsFiniteSet(C) /\ Cardinality(C) <= Len(l) /\ Cardinality(C) \in Nat
  <2>1. IsFiniteSet(ToSet(l)) /\ Cardinality(ToSet(l)) = Len(l)
    BY <1>3, LengthIsCardinality
  <2>2. IsFiniteSet(C) /\ Cardinality(C) <= Cardinality(ToSet(l))
    BY <1>12, <2>1, FS_Subset
  <2> QED
    BY <2>1, <2>2, FS_CardinalityType
<1>14. Len(r.lru) = Cardinality(C) /\ r.bytes = Total(C)
  BY <1>4, <1>5, LengthIsCardinality DEF IndexesOK
<1>15. c.maxEntries \in Nat /\ c.maxBytes \in Nat
  BY ConfsAssumption
<1>16. Len(r.lru) <= c.maxEntries
  BY <1>3, <1>13, <1>14, <1>15
<1>17. ASSUME c.maxBytes # 0, r.bytes > c.maxBytes PROVE Len(r.lru) = 1
  <2>1. CASE j = 1
    <3>1. C = {k}
      BY <2>1, <1>3, <1>5, <1>11
    <3> QED
      BY <3>1, <1>14, FS_Singleton
  <2>2. CASE j # 1
    <3> DEFINE D == {l[h] : h \in 1..j}
    <3>1. D \in SUBSET Keys
      BY <1>3, <1>7, <1>8
    <3>2. Total(D) <= c.maxBytes
      BY <1>9, <1>17, <2>2, <3>1, SumIsTotal
    <3>3. C \in SUBSET D
      BY <1>11
    <3> HIDE DEF D
    <3>4. Total(C) <= Total(D)
      BY <3>1, <3>3, TotalCompares
    <3>5. Total(C) \in Nat /\ Total(D) \in Nat
      BY TotalFacts
    <3> QED
      BY <3>2, <3>4, <3>5, <1>14, <1>15, <1>17
  <2> QED
    BY <2>1, <2>2
<1>18. r.bytes \in Nat
  BY <1>14, TotalFacts
<1> QED
  BY <1>1, <1>15, <1>16, <1>17, <1>18

-----------------------------------------------------------------------------
(* The values *)

\* What an entry for a key holds.
EntryRecords(k) ==
    [val : [Deps(k) -> Nat], count : [Deps("listing") -> Int] \cup {None}, late : BOOLEAN]
EntriesOK(m) == \A k \in Cached(m) : m.entries[k] \in EntryRecords(k)

\* What a session holds: the answer to its query, and the counter of its
\* connection.
ValueOK(x) ==
    /\ x.late \in BOOLEAN
    /\ x.calc \in [Deps("listing") -> Int] \cup {None}
    /\ x.pc \in {"list", "rows"} => x.arg = "listing"
    /\ x.pc \in {"read", "done"} => x.val \in [Deps(x.arg) -> Nat] \cup {None}
    /\ x.pc \in {"store", "rows"} => x.val \in [Deps(x.arg) -> Nat]

WarmerValueOK ==
    /\ warmer.late \in BOOLEAN
    /\ warmer.pc = "warm" => warmer.val \in [Deps("alloptions") -> Nat]

ValuesOK == (\A s \in Sessions : ValueOK(sess[s])) /\ WarmerValueOK
MemOK == IndexesOK(mem) /\ EntriesOK(mem)
EntriesInv == CacheInv /\ ValuesOK /\ MemOK

\* An entry is not the absence of one.
LEMMA EntryIsSome ==
    ASSUME NEW k, Deps(k) \in SUBSET Objects
    PROVE  None \notin EntryRecords(k)
<1>1. Deps("listing") = {"term"}
  BY DEF Deps
<1> QED
  BY <1>1, NoneAssumption DEF EntryRecords

\* The keys read objects.
LEMMA DepsAreObjects == \A k : Deps(k) \in SUBSET Objects
  BY DEF Deps, Objects

\* The backend answers with the versions of what a query reads.
LEMMA AnswersAreVersions ==
    ASSUME RestOK, NEW k
    PROVE  Answer(k) \in [Deps(k) -> Nat] /\ Answer(k) \in [Deps(k) -> Int]
<1>1. \A o \in Objects : ver[o] \in Nat
  BY BoundsAssumption DEF RestOK
<1> QED
  BY <1>1, DepsAreObjects DEF Answer

\* What is stored of it is an entry.
LEMMA NewEntryOK ==
    ASSUME NEW k \in Keys, NEW v \in [Deps(k) -> Nat], NEW l \in BOOLEAN
    PROVE  NewEntry(v, l) \in EntryRecords(k) /\ NewEntry(v, l) # None
<1>1. NewEntry(v, l) \in EntryRecords(k)
  BY DEF NewEntry, EntryRecords
<1> QED
  BY <1>1, EntryIsSome, DepsAreObjects

\* With a count it still is.
LEMMA CountedEntryOK ==
    ASSUME NEW e \in EntryRecords("listing"), NEW v \in [Deps("listing") -> Int] \cup {None}
    PROVE  /\ [e EXCEPT !.count = v] \in EntryRecords("listing")
           /\ [e EXCEPT !.count = v] # None
<1>1. [e EXCEPT !.count = v] \in EntryRecords("listing")
  BY DEF EntryRecords
<1> QED
  BY <1>1, EntryIsSome, DepsAreObjects

-----------------------------------------------------------------------------
(* The steps of a session, as far as its values matter *)

\* A session that neither holds an answer nor runs a listing.
Rests(y) == y.pc \notin Filling \cup {"list"}

\* It gets an answer, or an error.
Receives(x, y) ==
    /\ y.arg = x.arg /\ y.late = x.late
    /\ \/ x.pc = "lead" /\ y.pc = "read" /\ y.val \in {Answer(x.arg), None} /\ y.calc = x.calc
       \/ x.pc = "list" /\ y.pc = "rows" /\ y.val = Answer("listing") /\ y.calc = Answer("listing")

\* It still has the answer it has.
Holds(x, y) ==
    /\ y.arg = x.arg /\ y.val = x.val /\ y.late = x.late /\ y.calc = x.calc
    /\ y.pc = x.pc \/ (x.pc = "read" /\ y.pc = "done") \/ (x.pc = "done" /\ y.pc = "store" /\ x.val # None)

\* The counter of its connection is that of a listing, another's, or of no
\* interest.
CalcMoves(x, y) == y.calc \in {x.calc, None, OtherCount}

Moves(x, y) ==
    \/ Holds(x, y)
    \/ Receives(x, y)
    \/ y.pc = "list" /\ y.arg = "listing" /\ y.late = x.late /\ CalcMoves(x, y)
    \/ Rests(y) /\ y.late \in {x.late, FALSE} /\ CalcMoves(x, y)

\* Such a step keeps what holds of the values of a session.
LEMMA MovesOK ==
    ASSUME RestOK, NEW x, NEW y, ValueOK(x), Moves(x, y)
    PROVE  ValueOK(y)
<1>1. OtherCount \in [Deps("listing") -> Int]
  BY DEF OtherCount
<1>2. /\ \A k : Answer(k) \in [Deps(k) -> Nat]
      /\ Answer("listing") \in [Deps("listing") -> Int]
  BY AnswersAreVersions
<1>3. CASE Holds(x, y)
  BY <1>3 DEF Holds, ValueOK
<1>4. CASE Receives(x, y)
  BY <1>4, <1>2 DEF Receives, ValueOK
<1>5. CASE y.pc = "list" /\ y.arg = "listing" /\ y.late = x.late /\ CalcMoves(x, y)
  BY <1>5, <1>1 DEF CalcMoves, ValueOK
<1>6. CASE Rests(y) /\ y.late \in {x.late, FALSE} /\ CalcMoves(x, y)
  BY <1>6, <1>1 DEF CalcMoves, Rests, Filling, ValueOK
<1> QED
  BY <1>3, <1>4, <1>5, <1>6 DEF Moves

\* What the update of a session leaves as it is.
LEMMA UpdatedFields ==
    ASSUME NEW x, SessionShape(x)
    PROVE  /\ SessionShape(Broken(x)) /\ Broken(x).pc = x.pc /\ Broken(x).arg = x.arg
           /\ Broken(x).val = x.val /\ Broken(x).late = x.late /\ Broken(x).calc = None
           /\ Broken(x).todo = x.todo
           /\ SessionShape(Idle(x)) /\ Idle(x).pc = "idle" /\ Idle(x).late = FALSE
           /\ Idle(x).calc = x.calc /\ Idle(x).todo = x.todo
  BY DEF SessionShape, Fields, Broken, Idle

\* A session that goes to a label where it holds nothing.
LEMMA GoesMoves ==
    ASSUME NEW x, SessionShape(x), NEW l, l \notin Filling \cup {"list"}
    PROVE  Moves(x, [x EXCEPT !.pc = l])
<1> DEFINE y == [x EXCEPT !.pc = l]
<1>1. y.pc = l /\ y.late = x.late /\ y.calc = x.calc
  BY DEF SessionShape, Fields
<1> HIDE DEF y
<1>2. Moves(x, y)
  BY <1>1 DEF Moves, Rests, CalcMoves
<1> QED
  BY <1>2 DEF y

\* One that stays as it is.
LEMMA StaysMoves == \A x : Moves(x, x)
  BY DEF Moves, Holds

\* One that becomes idle.
LEMMA IdleMoves ==
    ASSUME NEW x, SessionShape(x)
    PROVE  Moves(x, Idle(x))
<1>1. Idle(x).pc = "idle" /\ Idle(x).late = FALSE /\ Idle(x).calc = x.calc
  BY UpdatedFields
<1> QED
  BY <1>1 DEF Moves, Rests, CalcMoves, Filling

\* One session moves and the others stay.
SomeMove(s) == \E y : sess' = [sess EXCEPT ![s] = y] /\ Moves(sess[s], y)
AllMove == \A t \in Sessions : Moves(sess[t], sess'[t])

\* So each of them does one or the other.
LEMMA OneMovesAll ==
    ASSUME SessionsOK, NEW s \in Sessions, SomeMove(s)
    PROVE  AllMove
<1>1. PICK y : sess' = [sess EXCEPT ![s] = y] /\ Moves(sess[s], y)
  BY DEF SomeMove
<1>2. ASSUME NEW t \in Sessions PROVE sess'[t] = IF t = s THEN y ELSE sess[t]
  BY <1>1 DEF SessionsOK
<1> QED
  BY <1>1, <1>2, StaysMoves DEF AllMove

\* A statement that is looked up, or run alone.
LEMMA LooksMove ==
    ASSUME CacheInv, NEW s \in Sessions, NEW q \in Keys,
           ReadAlone(s, q) \/ LookupHit(s, q) \/ LookupMiss(s, q) \/ ListingHit(s)
              \/ ListingMiss(s) \/ CountKnown(s) \/ CountAsked(s)
    PROVE  SomeMove(s)
<1> DEFINE x == sess[s]
           b == Broken(x)
<1>1. x.pc = "idle" /\ SessionShape(x)
  BY DEF ReadAlone, Looks, LookupHit, LookupMiss, ListingHit, ListingMiss, CountKnown,
     CountAsked, Starts, CacheInv, SessionsOK, SessionOK
<1>2. /\ SessionShape(b) /\ b.pc = "idle" /\ b.late = x.late /\ b.calc = None
  BY <1>1, UpdatedFields
<1> HIDE DEF b
<1>3. CASE ReadAlone(s, q) \/ LookupMiss(s, q)
  <2>1. PICK l \in {"alone", "miss"} : sess' = [sess EXCEPT ![s] = Fetches(b, l, q)]
    BY <1>3 DEF ReadAlone, LookupMiss, Fetches, b
  <2> DEFINE y == Fetches(b, l, q)
  <2>2. y.pc = l /\ y.late = x.late /\ y.calc = None
    BY <1>2 DEF SessionShape, Fields, Fetches
  <2> HIDE DEF y
  <2>3. Moves(x, y)
    BY <2>2 DEF Moves, Rests, CalcMoves, Filling
  <2> QED
    BY <2>1, <2>3 DEF SomeMove, y
<1>4. CASE LookupHit(s, q) \/ CountKnown(s)
  <2>1. sess' = [sess EXCEPT ![s] = b]
    BY <1>4 DEF LookupHit, CountKnown, b
  <2>2. Moves(x, b)
    BY <1>2 DEF Moves, Rests, CalcMoves, Filling
  <2> QED
    BY <2>1, <2>2 DEF SomeMove
<1>5. CASE ListingHit(s)
  <2>1. PICK c : sess' = [sess EXCEPT ![s] = [b EXCEPT !.known = c]]
    BY <1>5 DEF ListingHit, b
  <2> DEFINE y == [b EXCEPT !.known = c]
  <2>2. y.pc = "idle" /\ y.late = x.late /\ y.calc = None
    BY <1>2 DEF SessionShape, Fields
  <2> HIDE DEF y
  <2>3. Moves(x, y)
    BY <2>2 DEF Moves, Rests, CalcMoves, Filling
  <2> QED
    BY <2>1, <2>3 DEF SomeMove, y
<1>6. CASE ListingMiss(s)
  <2> DEFINE y == Fetches(x, "list", "listing")
  <2>1. sess' = [sess EXCEPT ![s] = y]
    BY <1>6 DEF ListingMiss, Fetches
  <2>2. y.pc = "list" /\ y.arg = "listing" /\ y.late = x.late /\ y.calc = x.calc
    BY <1>1 DEF SessionShape, Fields, Fetches
  <2> HIDE DEF y
  <2>3. Moves(x, y)
    BY <2>2 DEF Moves, CalcMoves
  <2> QED
    BY <2>1, <2>3 DEF SomeMove
<1>7. CASE CountAsked(s)
  <2>1. sess' = [sess EXCEPT ![s] = [x EXCEPT !.pc = "count"]]
    BY <1>7 DEF CountAsked
  <2>2. "count" \notin Filling \cup {"list"}
    BY DEF Filling
  <2>3. Moves(x, [x EXCEPT !.pc = "count"])
    BY <1>1, <2>2, GoesMoves
  <2> QED
    BY <2>1, <2>3, Zenon DEF SomeMove
<1> QED
  BY <1>3, <1>4, <1>5, <1>6, <1>7

\* A write, or a statement that opens or closes a transaction.
LEMMA WritesMove ==
    ASSUME CacheInv, NEW s \in Sessions, NEW w,
           Write(s, w) \/ Control(s, w)
    PROVE  SomeMove(s)
<1> DEFINE x == sess[s]
           b == Broken(x)
<1>1. x.pc = "idle" /\ SessionShape(x)
  BY DEF Write, Control, Starts, CacheInv, SessionsOK, SessionOK
<1>2. /\ SessionShape(b) /\ b.pc = "idle" /\ b.late = x.late /\ b.calc = None
  BY <1>1, UpdatedFields
<1> HIDE DEF b
<1> DEFINE Quiet(y) == y.pc \in {"idle", "observe"} /\ y.late = x.late /\ y.calc = None
<1>3. \A y : Quiet(y) => Moves(x, y)
  BY DEF Moves, Rests, CalcMoves, Filling
<1>4. CASE Write(s, w)
  <2> DEFINE y == Remembers(x, w)
             z == IF x.unsafe THEN y ELSE Observes(y, <<w>>)
  <2>1. sess' = [sess EXCEPT ![s] = z]
    BY <1>4 DEF Write, Remembers, Observes
  <2>2. SessionShape(y) /\ y.pc = "idle" /\ y.late = x.late /\ y.calc = None
    BY <1>2 DEF SessionShape, Fields, Remembers, b
  <2> HIDE DEF y
  <2>3. Quiet(z)
    <3>1. CASE x.unsafe
      BY <2>2, <3>1
    <3>2. CASE ~x.unsafe
      <4>1. /\ Observes(y, <<w>>).pc = "observe" /\ Observes(y, <<w>>).late = y.late
            /\ Observes(y, <<w>>).calc = y.calc
        BY <2>2 DEF SessionShape, Fields, Observes
      <4> QED
        BY <2>2, <3>2, <4>1
    <3> QED
      BY <3>1, <3>2
  <2> HIDE DEF z, Quiet
  <2> QED
    BY <2>1, <2>3, <1>3 DEF SomeMove
<1>5. CASE Control(s, w)
  <2> DEFINE e == Ended(b)
             r == Replay(b)
             u == b.unsafe
             z == CASE w = "begin"          -> [b EXCEPT !.inTx = TRUE]
                    [] w = "restart"        -> [b EXCEPT !.dirty = {}]
                    [] w = "autocommit off" -> Unsafe(b)
                    [] w = "rollback" \/ (w = "commit" /\ r = <<>>) -> [e EXCEPT !.inTx = u]
                    [] OTHER -> Observes(e, r)
  <2>1. sess' = [sess EXCEPT ![s] = z]
    BY <1>5, Zenon DEF Control, Ended, Unsafe, Observes, b
  <2>2. SessionShape(e) /\ e.pc = "idle" /\ e.late = x.late /\ e.calc = None
    BY <1>2 DEF SessionShape, Fields, Ended
  <2> HIDE DEF e, r, u
  <2>3. /\ Quiet([b EXCEPT !.inTx = TRUE]) /\ Quiet([b EXCEPT !.dirty = {}]) /\ Quiet(Unsafe(b))
    BY <1>2 DEF SessionShape, Fields, Unsafe
  <2>4. Quiet([e EXCEPT !.inTx = u]) /\ Quiet(Observes(e, r))
    BY <2>2 DEF SessionShape, Fields, Observes
  <2> HIDE DEF Quiet
  <2>5. Quiet(z)
    BY <2>3, <2>4, Zenon
  <2> HIDE DEF z
  <2> QED
    BY <2>1, <2>5, <1>3 DEF SomeMove
<1> QED
  BY <1>4, <1>5

\* A prepared SELECT, or a client that leaves.
LEMMA OthersMove ==
    ASSUME CacheInv, NEW s \in Sessions, ExecuteStmt(s) \/ Disconnect(s)
    PROVE  SomeMove(s)
<1> DEFINE x == sess[s]
<1>1. x.pc = "idle" /\ SessionShape(x)
  BY DEF ExecuteStmt, Disconnect, Starts, CacheInv, SessionsOK, SessionOK
<1>2. CASE ExecuteStmt(s)
  <2>1. PICK c \in {None, OtherCount} : sess' = [sess EXCEPT ![s] = [x EXCEPT !.calc = c]]
    BY <1>2 DEF ExecuteStmt
  <2> DEFINE y == [x EXCEPT !.calc = c]
  <2>2. y.pc = "idle" /\ y.late = x.late /\ y.calc = c
    BY <1>1 DEF SessionShape, Fields
  <2> HIDE DEF y
  <2>3. Moves(x, y)
    BY <2>2 DEF Moves, Rests, CalcMoves, Filling
  <2> QED
    BY <2>1, <2>3 DEF SomeMove, y
<1>3. CASE Disconnect(s)
  <2>1. sess' = [sess EXCEPT ![s] = NewSession]
    BY <1>3 DEF Disconnect
  <2>2. NewSession.pc = "idle" /\ NewSession.late = FALSE /\ NewSession.calc = None
    BY DEF NewSession
  <2>3. Moves(x, NewSession)
    BY <2>2 DEF Moves, Rests, CalcMoves, Filling
  <2> QED
    BY <2>1, <2>3 DEF SomeMove
<1> QED
  BY <1>2, <1>3

\* A session that waits for another, leads, gives up, or asks for a fetch.
LEMMA WaitersMove ==
    ASSUME CacheInv, NEW s \in Sessions,
           Join(s) \/ Lead(s) \/ GiveUp(s) \/ Trigger(s) \/ Kick(s) \/ AloneAnswered(s)
    PROVE  SomeMove(s)
<1> DEFINE x == sess[s]
<1>1. SessionShape(x)
  BY DEF CacheInv, SessionsOK, SessionOK
<1>2. Moves(x, Idle(x))
  BY <1>1, IdleMoves
<1>3. \A l \in {"wait", "lead", "alone", "kick", "observe", "trigger"} : Moves(x, [x EXCEPT !.pc = l])
  BY <1>1, GoesMoves DEF Filling
<1>4. Moves(x, Proceeds(x, FALSE))
  BY <1>2, <1>3 DEF Proceeds
<1>5. PICK z : z = Proceeds(x, FALSE)
  OBVIOUS
<1>6. CASE Join(s) \/ AloneAnswered(s)
  <2>1. sess' = [sess EXCEPT ![s] = Idle(x)] \/ sess' = [sess EXCEPT ![s] = [x EXCEPT !.pc = "wait"]]
    BY <1>6 DEF Join, AloneAnswered
  <2> QED
    BY <2>1, <1>2, <1>3 DEF SomeMove
<1>7. CASE Lead(s) \/ GiveUp(s) \/ Trigger(s)
  <2>1. \E l \in {"lead", "alone", "kick"} : sess' = [sess EXCEPT ![s] = [x EXCEPT !.pc = l]]
    BY <1>7 DEF Lead, GiveUp, Trigger
  <2> QED
    BY <2>1, <1>3 DEF SomeMove
<1>8. CASE Kick(s)
  <2>1. sess' = [sess EXCEPT ![s] = Proceeds(x, FALSE)]
    BY <1>8 DEF Kick
  <2> QED
    BY <2>1, <1>4, Zenon DEF SomeMove
<1> QED
  BY <1>6, <1>7, <1>8

\* The leader publishes its answer: who waits for it has it.
LEMMA PublishMoves ==
    ASSUME CacheInv, NEW s \in Sessions, Publish(s)
    PROVE  AllMove
<1>1. sess[s].pc = "read"
  BY DEF Publish
<1>2. ASSUME NEW t \in Sessions PROVE SessionShape(sess[t])
  BY DEF CacheInv, SessionsOK, SessionOK
<1>3. Moves(sess[s], [sess[s] EXCEPT !.pc = "done"])
  <2> DEFINE y == [sess[s] EXCEPT !.pc = "done"]
  <2>1. /\ y.pc = "done" /\ y.arg = sess[s].arg /\ y.val = sess[s].val
        /\ y.late = sess[s].late /\ y.calc = sess[s].calc
    BY <1>2 DEF SessionShape, Fields
  <2> HIDE DEF y
  <2>2. Moves(sess[s], y)
    BY <1>1, <2>1 DEF Moves, Holds
  <2> QED
    BY <2>2 DEF y
<1>4. ASSUME NEW t \in Sessions
      PROVE  \/ sess'[t] = sess[t] \/ sess'[t] = Idle(sess[t])
             \/ t = s /\ sess'[t] = [sess[s] EXCEPT !.pc = "done"]
  <2>1. sess' = [u \in Sessions |->
                   IF u = s THEN [sess[s] EXCEPT !.pc = "done"]
                   ELSE IF sess[u].pc = "wait" /\ sess[u].arg = sess[s].arg
                   THEN Idle(sess[u]) ELSE sess[u]]
    BY Zenon DEF Publish
  <2>2. sess'[t] = IF t = s THEN [sess[s] EXCEPT !.pc = "done"]
                   ELSE IF sess[t].pc = "wait" /\ sess[t].arg = sess[s].arg
                   THEN Idle(sess[t]) ELSE sess[t]
    BY <2>1, Zenon
  <2>3. CASE t = s
    BY <2>2, <2>3, Zenon
  <2>4. CASE t # s
    BY <2>2, <2>4, Zenon
  <2> QED
    BY <2>3, <2>4
<1> QED
  BY <1>2, <1>3, <1>4, IdleMoves, StaysMoves DEF AllMove

\* The call leaves the table, and the answer is stored.
LEMMA StoresMove ==
    ASSUME CacheInv, NEW s \in Sessions, Forget(s) \/ Store(s) \/ StorePaired(s)
    PROVE  SomeMove(s)
<1> DEFINE x == sess[s]
<1>1. SessionShape(x)
  BY DEF CacheInv, SessionsOK, SessionOK
<1>2. Moves(x, Idle(x))
  BY <1>1, IdleMoves
<1>3. CASE Store(s)
  BY <1>2, <1>3 DEF Store, SomeMove
<1>4. CASE Forget(s)
  <2>1. x.pc = "done"
    BY <1>4 DEF Forget
  <2>2. \/ sess' = [sess EXCEPT ![s] = Idle(x)]
        \/ x.val # None /\ sess' = [sess EXCEPT ![s] = [x EXCEPT !.pc = "store"]]
    BY <1>4 DEF Forget
  <2> DEFINE y == [x EXCEPT !.pc = "store"]
  <2>3. /\ y.pc = "store" /\ y.arg = x.arg /\ y.val = x.val
        /\ y.late = x.late /\ y.calc = x.calc
    BY <1>1 DEF SessionShape, Fields
  <2> HIDE DEF y
  <2>4. x.val # None => Moves(x, y)
    BY <2>1, <2>3 DEF Moves, Holds
  <2> QED
    BY <1>2, <2>2, <2>4 DEF SomeMove, y
<1>5. CASE StorePaired(s)
  <2>1. sess' = [sess EXCEPT ![s] = Pending(Idle(x))]
    BY <1>5 DEF StorePaired, Pending
  <2>2. SessionShape(Idle(x)) /\ Idle(x).pc = "idle" /\ Idle(x).late = FALSE /\ Idle(x).calc = x.calc
    BY <1>1, UpdatedFields
  <2> DEFINE i == Idle(x)
             y == Pending(i)
  <2> HIDE DEF i
  <2>3. y.pc = "idle" /\ y.late = FALSE /\ y.calc = x.calc
    BY <2>2 DEF SessionShape, Fields, Pending, i
  <2> HIDE DEF y
  <2>4. Moves(x, y)
    BY <2>3 DEF Moves, Rests, CalcMoves, Filling
  <2> QED
    BY <2>1, <2>4 DEF SomeMove, y, i
<1> QED
  BY <1>3, <1>4, <1>5

\* The backend answers.
LEMMA AnswersMove ==
    ASSUME CacheInv, NEW s \in Sessions,
           LeaderAnswered(s) \/ ListingAnswered(s) \/ PairFoundRows(s)
    PROVE  SomeMove(s)
<1> DEFINE x == sess[s]
<1>1. SessionShape(x)
  BY DEF CacheInv, SessionsOK, SessionOK
<1>2. CASE LeaderAnswered(s)
  <2>1. x.pc = "lead"
    BY <1>2 DEF LeaderAnswered
  <2>2. PICK v \in {Answer(x.arg), None} : sess' = [sess EXCEPT ![s] = Reads(x, v)]
    BY <1>2 DEF LeaderAnswered, Reads
  <2> DEFINE y == Reads(x, v)
  <2>3. y.pc = "read" /\ y.arg = x.arg /\ y.val = v /\ y.late = x.late /\ y.calc = x.calc
    BY <1>1 DEF SessionShape, Fields, Reads
  <2> HIDE DEF y
  <2>4. Moves(x, y)
    BY <2>1, <2>3 DEF Moves, Receives
  <2> QED
    BY <2>2, <2>4 DEF SomeMove, y
<1>3. CASE ListingAnswered(s)
  <2>1. x.pc = "list"
    BY <1>3 DEF ListingAnswered
  <2>2. PICK v : v = Answer("listing")
    OBVIOUS
  <2>3. sess' = [sess EXCEPT ![s] = Rows(x, v)] \/ sess' = [sess EXCEPT ![s] = Idle(x)]
    BY <1>3, <2>2 DEF ListingAnswered, Rows
  <2> DEFINE y == Rows(x, v)
  <2>4. y.pc = "rows" /\ y.arg = x.arg /\ y.val = v /\ y.late = x.late /\ y.calc = v
    BY <1>1 DEF SessionShape, Fields, Rows
  <2> HIDE DEF y
  <2>5. Moves(x, y)
    BY <2>1, <2>2, <2>4 DEF Moves, Receives
  <2>6. Moves(x, Idle(x))
    BY <1>1, IdleMoves
  <2> QED
    BY <2>3, <2>5, <2>6 DEF SomeMove, y
<1>4. CASE PairFoundRows(s)
  <2> DEFINE b == Broken(x)
             y == [b EXCEPT !.pc = "idle"]
  <2>1. sess' = [sess EXCEPT ![s] = y]
    BY <1>4 DEF PairFoundRows
  <2>2. SessionShape(b) /\ b.late = x.late /\ b.calc = None
    BY <1>1, UpdatedFields
  <2> HIDE DEF b
  <2>3. y.pc = "idle" /\ y.late = x.late /\ y.calc = None
    BY <2>2 DEF SessionShape, Fields
  <2> HIDE DEF y
  <2>4. Moves(x, y)
    BY <2>3 DEF Moves, Rests, CalcMoves, Filling
  <2> QED
    BY <2>1, <2>4 DEF SomeMove
<1> QED
  BY <1>2, <1>3, <1>4

\* Marking answers as overtaken keeps what holds of their values, ...
LEMMA OvertakenValues ==
    ASSUME CacheInv, NEW T
    PROVE  \A s \in Sessions :
              /\ SessionShape(Overtaken(T)[s])
              /\ ValueOK(sess[s]) => ValueOK(Overtaken(T)[s])
<1> SUFFICES ASSUME NEW s \in Sessions
             PROVE  /\ SessionShape(Overtaken(T)[s])
                    /\ ValueOK(sess[s]) => ValueOK(Overtaken(T)[s])
  OBVIOUS
<1>1. SessionShape(sess[s])
  BY DEF CacheInv, SessionsOK, SessionOK
<1> DEFINE y == [sess[s] EXCEPT !.late = TRUE]
<1>2. /\ SessionShape(y)
      /\ y.pc = sess[s].pc /\ y.arg = sess[s].arg /\ y.val = sess[s].val
      /\ y.late = TRUE /\ y.calc = sess[s].calc
  BY <1>1 DEF SessionShape, Fields
<1>3. Overtaken(T)[s] \in {sess[s], y}
  BY DEF Overtaken
<1> HIDE DEF y
<1>4. ValueOK(sess[s]) => ValueOK(y)
  BY <1>2 DEF ValueOK
<1> QED
  BY <1>1, <1>2, <1>3, <1>4

\* ... and so does invalidating a write.
LEMMA InvalidateValues ==
    ASSUME CacheInv, ValuesOK, NEW s \in Sessions, Invalidate(s)
    PROVE  \A t \in Sessions : ValueOK(sess'[t])
<1> DEFINE x == WithoutHead(sess[s])
           w == Head(sess[s].todo)
<1>1. PICK g, r : /\ sess' = [g EXCEPT ![s] = Proceeds(x, r)]
                  /\ g = [t \in Sessions |-> g[t]]
                  /\ \A t \in Sessions : ValueOK(g[t])
  <2>1. \/ sess' = [sess EXCEPT ![s] = Proceeds(x, FALSE)]
        \/ sess' = [Overtaken(Dropped(w)) EXCEPT
                      ![s] = Proceeds(x, Warmup /\ learned /\ HitsAutoload(w))]
    BY DEF Invalidate, WithoutHead
  <2>2. sess = [t \in Sessions |-> sess[t]] /\ \A t \in Sessions : ValueOK(sess[t])
    BY DEF CacheInv, SessionsOK, ValuesOK
  <2>3. \A T : Overtaken(T) = [t \in Sessions |-> Overtaken(T)[t]]
    BY DEF Overtaken
  <2>4. \A T : \A t \in Sessions : ValueOK(Overtaken(T)[t])
    BY <2>2, OvertakenValues
  <2> HIDE DEF x, w
  <2> QED
    BY <2>1, <2>2, <2>3, <2>4
<1>2. SessionShape(sess[s]) /\ ValueOK(sess[s])
  BY DEF CacheInv, SessionsOK, SessionOK, ValuesOK
<1>3. SessionShape(x) /\ x.late = sess[s].late /\ x.calc = sess[s].calc
  BY <1>2 DEF SessionShape, Fields, WithoutHead
<1> HIDE DEF x
<1> DEFINE y == Proceeds(x, r)
<1>4. y.pc \in {"trigger", "idle", "observe"} /\ y.late \in {x.late, FALSE} /\ y.calc = x.calc
  <2>1. /\ [x EXCEPT !.pc = "trigger"].pc = "trigger" /\ [x EXCEPT !.pc = "trigger"].late = x.late
        /\ [x EXCEPT !.pc = "trigger"].calc = x.calc
    BY <1>3 DEF SessionShape, Fields
  <2>2. /\ [x EXCEPT !.pc = "observe"].pc = "observe" /\ [x EXCEPT !.pc = "observe"].late = x.late
        /\ [x EXCEPT !.pc = "observe"].calc = x.calc
    BY <1>3 DEF SessionShape, Fields
  <2>3. Idle(x).pc = "idle" /\ Idle(x).late = FALSE /\ Idle(x).calc = x.calc
    BY <1>3, UpdatedFields
  <2>4. y \in {[x EXCEPT !.pc = "trigger"], [x EXCEPT !.pc = "observe"], Idle(x)}
    BY DEF Proceeds
  <2> HIDE DEF y
  <2> QED
    BY <2>1, <2>2, <2>3, <2>4
<1>5. sess' = [g EXCEPT ![s] = y]
  BY <1>1
<1> HIDE DEF y
<1>6. ValueOK(y)
  BY <1>2, <1>3, <1>4 DEF ValueOK
<1>7. \A t \in Sessions : sess'[t] = IF t = s THEN y ELSE g[t]
  BY <1>1, <1>5
<1> QED
  BY <1>1, <1>6, <1>7

\* What the background goroutines leave of the sessions.
LEMMA BackgroundValues ==
    ASSUME CacheInv, ValuesOK, WarmerStep \/ DetectStep \/ ReloadRules \/ ReloadStep
    PROVE  \A t \in Sessions : ValueOK(sess'[t])
<1>1. \A t \in Sessions : ValueOK(sess[t])
  BY DEF ValuesOK
<1>2. sess' = sess \/ sess' = Overtaken(Tags)
  BY DEF WarmerStep, WarmerWakes, WarmerTakes, WarmerFetches, WarmerStores,
         DetectStep, DetectCompiles, DetectBinds, ReloadRules, ReloadStep,
         ReloadBinds, ReloadTriggers, ReloadConfigures, ReloadFlushes
<1> QED
  BY <1>1, <1>2, OvertakenValues

\* Every step moves the sessions so, but for those that mark answers.
LEMMA MovesStep ==
    ASSUME CacheInv, [Next]_vars, ~\E s \in Sessions : Invalidate(s), ~ReloadFlushes
    PROVE  AllMove
<1>1. SessionsOK
  BY DEF CacheInv
<1>2. ASSUME NEW s \in Sessions, Command(s) PROVE SomeMove(s)
  <2>1. "listing" \in Keys
    BY DEF Keys
  <2> QED
    BY <1>2, <2>1, LooksMove, WritesMove, OthersMove DEF Command
<1>3. ASSUME NEW s \in Sessions, Continue(s), ~Publish(s) PROVE SomeMove(s)
  BY <1>3, WaitersMove, StoresMove DEF Continue
<1>4. ASSUME NEW s \in Sessions, Answered(s) PROVE SomeMove(s)
  BY <1>4, WaitersMove, AnswersMove DEF Answered
<1>5. CASE \E s \in Sessions : Command(s) \/ Continue(s) \/ Answered(s)
  <2>1. PICK s \in Sessions : Command(s) \/ Continue(s) \/ Answered(s)
    BY <1>5
  <2>2. CASE Publish(s)
    BY <2>2, PublishMoves
  <2>3. CASE ~Publish(s)
    BY <2>1, <2>3, <1>1, <1>2, <1>3, <1>4, OneMovesAll
  <2> QED
    BY <2>2, <2>3
<1>6. CASE WarmerStep \/ DetectStep \/ ReloadRules \/ ReloadStep \/ UNCHANGED vars
  <2>1. sess' = sess
    BY <1>6 DEF WarmerStep, WarmerWakes, WarmerTakes, WarmerFetches, WarmerStores,
           DetectStep, DetectCompiles, DetectBinds, ReloadRules, ReloadStep,
           ReloadBinds, ReloadTriggers, ReloadConfigures, vars
  <2> QED
    BY <2>1, StaysMoves DEF AllMove
<1> QED
  BY <1>5, <1>6 DEF Next

\* The values of the sessions stay in order.
LEMMA ValuesStep ==
    ASSUME CacheInv, ValuesOK, [Next]_vars
    PROVE  \A t \in Sessions : ValueOK(sess'[t])
<1>1. CASE \E s \in Sessions : Invalidate(s)
  BY <1>1, InvalidateValues
<1>2. CASE ReloadFlushes
  BY <1>2, BackgroundValues DEF ReloadStep
<1>3. CASE ~(\E s \in Sessions : Invalidate(s)) /\ ~ReloadFlushes
  <2>1. AllMove
    BY <1>3, MovesStep
  <2> QED
    BY <2>1, MovesOK DEF AllMove, CacheInv, ValuesOK
<1> QED
  BY <1>1, <1>2, <1>3

\* What the steps make of the warmer.
LEMMA WarmerSteps ==
    ASSUME [Next]_vars, NEW v, v = Answer("alloptions")
    PROVE  \/ warmer' = warmer
           \/ \E T : warmer' = OvertakenWarmer(T)
           \/ warmer' = [warmer EXCEPT !.pending = TRUE]
           \/ warmer' = [warmer EXCEPT !.kick = TRUE]
           \/ warmer' = [warmer EXCEPT !.pc = "debounce", !.kick = FALSE]
           \/ \E l \in {"fetch", "sleep"} : warmer' = [warmer EXCEPT !.pc = l, !.pending = FALSE]
           \/ warmer' = [warmer EXCEPT !.pc = "warm", !.val = v]
           \/ warmer' = [warmer EXCEPT !.pc = "sleep"]
           \/ warmer' = [warmer EXCEPT !.pc = "sleep", !.val = None, !.late = FALSE]
<1>1. ASSUME NEW s \in Sessions, Command(s) PROVE warmer' = warmer
  BY <1>1 DEF Command, ReadAlone, LookupHit, LookupMiss, ListingHit, ListingMiss,
     CountKnown, CountAsked, ExecuteStmt, Disconnect, Write, Control
<1>2. ASSUME NEW s \in Sessions, Continue(s), ~Trigger(s), ~Kick(s), ~Invalidate(s)
      PROVE  warmer' = warmer
  BY <1>2 DEF Continue, Join, Lead, GiveUp, Publish, Forget, Store, StorePaired
<1>3. ASSUME NEW s \in Sessions, Answered(s) PROVE warmer' = warmer
  BY <1>3 DEF Answered, LeaderAnswered, AloneAnswered, ListingAnswered, PairFoundRows
<1>4. ASSUME NEW s \in Sessions, Invalidate(s)
      PROVE  warmer' = warmer \/ \E T : warmer' = OvertakenWarmer(T)
  BY <1>4 DEF Invalidate
<1>5. ASSUME NEW s \in Sessions, Trigger(s) \/ Kick(s)
      PROVE  warmer' = [warmer EXCEPT !.pending = TRUE] \/ warmer' = [warmer EXCEPT !.kick = TRUE]
  BY <1>5 DEF Trigger, Kick
<1>6. ASSUME WarmerStep
      PROVE  \/ warmer' = [warmer EXCEPT !.pc = "debounce", !.kick = FALSE]
             \/ \E l \in {"fetch", "sleep"} : warmer' = [warmer EXCEPT !.pc = l, !.pending = FALSE]
             \/ warmer' = [warmer EXCEPT !.pc = "warm", !.val = v]
             \/ warmer' = [warmer EXCEPT !.pc = "sleep"]
             \/ warmer' = [warmer EXCEPT !.pc = "sleep", !.val = None, !.late = FALSE]
  BY <1>6 DEF WarmerStep, WarmerWakes, WarmerTakes, WarmerFetches, WarmerStores
<1>7. ASSUME DetectStep \/ ReloadRules \/ ReloadStep, ~ReloadFlushes, ~ReloadTriggers
      PROVE  warmer' = warmer
  BY <1>7 DEF DetectStep, DetectCompiles, DetectBinds, ReloadRules, ReloadStep,
     ReloadBinds, ReloadConfigures
<1>8. ASSUME ReloadFlushes PROVE warmer' = OvertakenWarmer(Tags)
  BY <1>8 DEF ReloadFlushes
<1>9. ASSUME ReloadTriggers
      PROVE  warmer' = [warmer EXCEPT !.pending = TRUE] \/ warmer' = [warmer EXCEPT !.kick = TRUE]
  BY <1>9 DEF ReloadTriggers
<1>10. UNCHANGED vars => warmer' = warmer
  BY DEF vars
<1> QED
  BY <1>1, <1>2, <1>3, <1>4, <1>5, <1>6, <1>7, <1>8, <1>9, <1>10, Zenon DEF Next

\* The warmer keeps its answer until it has stored it.
LEMMA WarmerValueStep ==
    ASSUME CacheInv, ValuesOK, [Next]_vars
    PROVE  WarmerValueOK'
<1>1. WarmerValueOK /\ RestOK /\ WarmerOK
  BY DEF CacheInv, ValuesOK, RestOK
<1>2. ASSUME NEW T PROVE /\ OvertakenWarmer(T).late \in BOOLEAN
                         /\ OvertakenWarmer(T).pc = warmer.pc
                         /\ OvertakenWarmer(T).val = warmer.val
  BY <1>1 DEF OvertakenWarmer, WarmerOK, WarmerValueOK
<1>3. PICK v : v = Answer("alloptions")
  OBVIOUS
<1>4. v \in [Deps("alloptions") -> Nat]
  BY <1>1, <1>3, AnswersAreVersions
<1>5. \/ /\ warmer'.late = warmer.late /\ warmer'.pc \in {warmer.pc, "sleep", "debounce", "fetch"}
         /\ warmer'.val = warmer.val
      \/ warmer'.late = warmer.late /\ warmer'.val = v
      \/ warmer'.late = FALSE /\ warmer'.pc = "sleep"
      \/ \E T : warmer' = OvertakenWarmer(T)
  <2>1. \/ warmer' = warmer
        \/ \E T : warmer' = OvertakenWarmer(T)
        \/ warmer' = [warmer EXCEPT !.pending = TRUE]
        \/ warmer' = [warmer EXCEPT !.kick = TRUE]
        \/ warmer' = [warmer EXCEPT !.pc = "debounce", !.kick = FALSE]
        \/ \E l \in {"fetch", "sleep"} : warmer' = [warmer EXCEPT !.pc = l, !.pending = FALSE]
        \/ warmer' = [warmer EXCEPT !.pc = "warm", !.val = v]
        \/ warmer' = [warmer EXCEPT !.pc = "sleep"]
        \/ warmer' = [warmer EXCEPT !.pc = "sleep", !.val = None, !.late = FALSE]
    BY <1>3, WarmerSteps
  <2> QED
    BY <2>1, <1>1 DEF WarmerOK
<1> QED
  BY <1>1, <1>2, <1>4, <1>5 DEF WarmerValueOK

-----------------------------------------------------------------------------
(* The steps of the entries *)

\* What a step may make of the entries: fewer of them, a count in one of them,
\* or the insertion of an answer that a session or the warmer holds, within the
\* budget in force.
Shrinks ==
    /\ \A k \in Keys : mem'.entries[k] \in {None, mem.entries[k]}
    /\ IndexesOK(mem')
Completes ==
    /\ \E v \in [Deps("listing") -> Int] \cup {None} : mem' = Counted(mem, v)
    /\ "listing" \in Cached(mem)
Held(k, v, l) ==
    \/ \E s \in Sessions : /\ sess[s].pc \in {"store", "rows"}
                            /\ sess[s].arg = k /\ sess[s].val = v /\ sess[s].late = l
    \/ warmer.pc = "warm" /\ k = "alloptions" /\ v = warmer.val /\ l = warmer.late
Inserts ==
    \E k \in Keys : \E v \in [Deps(k) -> Nat] : \E l \in BOOLEAN :
       Held(k, v, l) /\ mem' = Inserted(mem, k, NewEntry(v, l), conf)

\* Removing cached keys is the first of these,
LEMMA RemovedShrinks ==
    ASSUME IndexesOK(mem), NEW K \in SUBSET Cached(mem), mem' = Removed(mem, K)
    PROVE  Shrinks
  BY RemovedOK DEF Shrinks

\* and so is dropping tags.
LEMMA DropShrinks ==
    ASSUME IndexesOK(mem), NEW T \in SUBSET Tags, mem' = DropTags(mem, T)
    PROVE  Shrinks
<1>1. UNION {mem.byTag[t] : t \in T} \in SUBSET Cached(mem)
  BY DEF IndexesOK
<1>2. PICK K : K = UNION {mem.byTag[t] : t \in T}
  OBVIOUS
<1>3. mem' = Removed(mem, K)
  BY <1>2, Zenon DEF DropTags
<1> QED
  BY <1>1, <1>2, <1>3, RemovedShrinks

\* The tags a write drops are tags.
LEMMA DroppedAreTags == \A w : Dropped(w) \in SUBSET Tags
  BY DEF Dropped, Tags

\* store inserts, or does nothing.
LEMMA StoredInserts ==
    ASSUME NEW k \in Keys, NEW v \in [Deps(k) -> Nat], NEW l \in BOOLEAN, Stored(k, v, l),
           Held(k, v, l)
    PROVE  Inserts \/ mem' = mem
  BY Zenon DEF Stored, Inserts

\* Every step does one of the three, or nothing.
LEMMA MemSteps ==
    ASSUME EntriesInv, [Next]_vars
    PROVE  Shrinks \/ Completes \/ Inserts \/ mem' = mem
<1>1. IndexesOK(mem) /\ \A s \in Sessions : ValueOK(sess[s]) /\ SessionOK(sess[s])
  BY DEF EntriesInv, CacheInv, SessionsOK, MemOK, ValuesOK
<1>2. ASSUME NEW s \in Sessions, Command(s) PROVE Shrinks \/ mem' = mem
  <2>1. ASSUME NEW q \in Keys, LookupHit(s, q) PROVE Shrinks
    <3>1. q \in Cached(mem) /\ mem' = MoveToFront(mem, q)
      BY <2>1 DEF LookupHit
    <3> QED
      BY <3>1, <1>1, MoveToFrontOK DEF Shrinks
  <2>2. ASSUME NEW q \in Keys, LookupMiss(s, q) PROVE Shrinks
    <3>1. mem' = Removed(mem, {q} \cap Cached(mem))
      BY <2>2 DEF LookupMiss
    <3> QED
      BY <3>1, <1>1, RemovedShrinks
  <2>3. ASSUME ListingHit(s) PROVE Shrinks
    <3>1. "listing" \in Cached(mem) /\ mem' = MoveToFront(mem, "listing")
      BY <2>3 DEF ListingHit, Cached, Keys
    <3> QED
      BY <3>1, <1>1, MoveToFrontOK DEF Shrinks
  <2>4. ASSUME ListingMiss(s) PROVE Shrinks
    <3>1. \E K \in SUBSET Cached(mem) : mem' = Removed(mem, K)
      <4>1. \/ mem' = Removed(mem, {})
            \/ mem.entries["listing"] # NoEntry /\ mem' = Removed(mem, {"listing"})
        <5>1. PICK K : K = IF mem.entries["listing"] # NoEntry /\ mem.entries["listing"].count # None
                           THEN {"listing"} ELSE {}
          OBVIOUS
        <5>2. mem' = Removed(mem, K)
          BY <2>4, <5>1, Zenon DEF ListingMiss
        <5>3. K = {} \/ (mem.entries["listing"] # NoEntry /\ K = {"listing"})
          <6>1. CASE mem.entries["listing"] # NoEntry /\ mem.entries["listing"].count # None
            BY <5>1, <6>1, Zenon
          <6>2. CASE ~(mem.entries["listing"] # NoEntry /\ mem.entries["listing"].count # None)
            BY <5>1, <6>2, Zenon
          <6> QED
            BY <6>1, <6>2
        <5> QED
          BY <5>2, <5>3
      <4> QED
        BY <4>1 DEF Cached, Keys
    <3> QED
      BY <3>1, <1>1, RemovedShrinks
  <2>5. ASSUME \/ \E q \in Keys : ReadAlone(s, q)
               \/ CountKnown(s) \/ CountAsked(s) \/ ExecuteStmt(s) \/ Disconnect(s)
               \/ \E w \in Writes : Write(s, w)
               \/ \E k \in Statements : Control(s, k)
        PROVE  mem' = mem
    BY <2>5 DEF ReadAlone, CountKnown, CountAsked, ExecuteStmt, Disconnect, Write, Control
  <2> QED
    BY <1>2, <2>1, <2>2, <2>3, <2>4, <2>5 DEF Command
<1>3. ASSUME NEW s \in Sessions, Continue(s) PROVE Shrinks \/ Inserts \/ mem' = mem
  <2>1. ASSUME Store(s) PROVE Inserts \/ mem' = mem
    <3>1. sess[s].pc = "store" /\ Stored(sess[s].arg, sess[s].val, sess[s].late)
      BY <2>1 DEF Store
    <3>2. /\ sess[s].arg \in Keys /\ sess[s].val \in [Deps(sess[s].arg) -> Nat]
          /\ sess[s].late \in BOOLEAN
      BY <1>1, <3>1 DEF ValueOK, SessionOK, Fetching
    <3>3. Held(sess[s].arg, sess[s].val, sess[s].late)
      BY <3>1 DEF Held
    <3> QED
      BY <3>1, <3>2, <3>3, StoredInserts
  <2>2. ASSUME StorePaired(s) PROVE Inserts \/ mem' = mem
    <3>1. sess[s].pc = "rows" /\ (Stored("listing", sess[s].val, sess[s].late) \/ mem' = mem)
      BY <2>2 DEF StorePaired
    <3>2. sess[s].val \in [Deps("listing") -> Nat] /\ sess[s].late \in BOOLEAN /\ "listing" \in Keys
      BY <1>1, <3>1 DEF ValueOK, Keys
    <3>3. Held("listing", sess[s].val, sess[s].late)
      BY <1>1, <3>1 DEF Held, ValueOK
    <3> QED
      BY <3>1, <3>2, <3>3, StoredInserts
  <2>3. ASSUME Invalidate(s) PROVE Shrinks \/ mem' = mem
    <3>1. mem' = mem \/ \E w : mem' = DropTags(mem, Dropped(w))
      BY <2>3 DEF Invalidate
    <3> QED
      BY <3>1, <1>1, DroppedAreTags, DropShrinks
  <2>4. ASSUME \/ Join(s) \/ Lead(s) \/ GiveUp(s) \/ Publish(s) \/ Forget(s)
               \/ Trigger(s) \/ Kick(s)
        PROVE  mem' = mem
    BY <2>4 DEF Join, Lead, GiveUp, Publish, Forget, Trigger, Kick
  <2> QED
    BY <1>3, <2>1, <2>2, <2>3, <2>4 DEF Continue
<1>4. ASSUME NEW s \in Sessions, Answered(s) PROVE Completes \/ mem' = mem
  <2>1. ASSUME PairFoundRows(s) PROVE Completes \/ mem' = mem
    <3>1. mem' = mem \/ ("listing" \in Cached(mem) /\ mem' = Counted(mem, sess[s].calc))
      BY <2>1 DEF PairFoundRows, Counted
    <3>2. sess[s].calc \in [Deps("listing") -> Int] \cup {None}
      BY <1>1 DEF ValueOK
    <3> QED
      BY <3>1, <3>2 DEF Completes
  <2>2. ASSUME LeaderAnswered(s) \/ AloneAnswered(s) \/ ListingAnswered(s) PROVE mem' = mem
    BY <2>2 DEF LeaderAnswered, AloneAnswered, ListingAnswered
  <2> QED
    BY <1>4, <2>1, <2>2 DEF Answered
<1>5. ASSUME WarmerStep PROVE Inserts \/ mem' = mem
  <2>1. ASSUME WarmerStores PROVE Inserts \/ mem' = mem
    <3>1. warmer.pc = "warm" /\ (Stored("alloptions", warmer.val, warmer.late) \/ mem' = mem)
      BY <2>1 DEF WarmerStores
    <3>2. /\ warmer.val \in [Deps("alloptions") -> Nat] /\ warmer.late \in BOOLEAN
          /\ "alloptions" \in Keys
      BY <3>1 DEF EntriesInv, ValuesOK, WarmerValueOK, Keys
    <3>3. Held("alloptions", warmer.val, warmer.late)
      BY <3>1 DEF Held
    <3> QED
      BY <3>1, <3>2, <3>3, StoredInserts
  <2>2. ASSUME WarmerWakes \/ WarmerTakes \/ WarmerFetches PROVE mem' = mem
    BY <2>2 DEF WarmerWakes, WarmerTakes, WarmerFetches
  <2> QED
    BY <1>5, <2>1, <2>2 DEF WarmerStep
<1>6. ASSUME DetectStep \/ ReloadRules \/ ReloadStep PROVE Shrinks \/ mem' = mem
  <2>1. ASSUME ReloadFlushes PROVE Shrinks
    <3>1. mem' = DropTags(mem, Tags)
      BY <2>1 DEF ReloadFlushes
    <3> QED
      BY <3>1, <1>1, DropShrinks
  <2>2. ASSUME DetectStep \/ ReloadRules \/ ReloadBinds \/ ReloadTriggers \/ ReloadConfigures
        PROVE  mem' = mem
    BY <2>2 DEF DetectStep, DetectCompiles, DetectBinds, ReloadRules, ReloadBinds,
       ReloadTriggers, ReloadConfigures
  <2> QED
    BY <1>6, <2>1, <2>2 DEF ReloadStep
<1>7. UNCHANGED vars => mem' = mem
  BY DEF vars
<1> QED
  BY <1>2, <1>3, <1>4, <1>5, <1>6, <1>7 DEF Next

\* The entries and their indexes stay in order.
LEMMA MemStep ==
    ASSUME EntriesInv, [Next]_vars
    PROVE  MemOK'
<1>1. IndexesOK(mem) /\ EntriesOK(mem)
  BY DEF EntriesInv, MemOK
<1>2. CASE Shrinks
  <2>1. \A k \in Cached(mem') : k \in Cached(mem) /\ mem'.entries[k] = mem.entries[k]
    BY <1>2 DEF Shrinks, Cached, NoEntry
  <2>2. EntriesOK(mem')
    BY <1>1, <2>1 DEF EntriesOK
  <2> QED
    BY <1>2, <2>2 DEF Shrinks, MemOK
<1>3. CASE Completes
  <2>1. PICK v \in [Deps("listing") -> Int] \cup {None} : mem' = Counted(mem, v)
    BY <1>3 DEF Completes
  <2>2. "listing" \in Cached(mem)
    BY <1>3 DEF Completes
  <2>3. PICK e : e = [mem.entries["listing"] EXCEPT !.count = v]
    OBVIOUS
  <2>4. e \in EntryRecords("listing") /\ e # None
    BY <1>1, <2>2, <2>3, CountedEntryOK DEF EntriesOK
  <2>5. /\ IndexesOK(mem') /\ Cached(mem') = Cached(mem)
        /\ \A k \in Keys : mem'.entries[k] = IF k = "listing" THEN e ELSE mem.entries[k]
    BY <1>1, <2>1, <2>2, <2>3, <2>4, CountedOK
  <2>6. EntriesOK(mem')
    BY <1>1, <2>4, <2>5 DEF EntriesOK, Cached
  <2> QED
    BY <2>5, <2>6 DEF MemOK
<1>4. CASE Inserts
  <2>1. PICK k \in Keys : \E v \in [Deps(k) -> Nat] : \E l \in BOOLEAN :
           mem' = Inserted(mem, k, NewEntry(v, l), conf)
    BY <1>4, Zenon DEF Inserts
  <2>1a. PICK v \in [Deps(k) -> Nat], l \in BOOLEAN :
           mem' = Inserted(mem, k, NewEntry(v, l), conf)
    BY <2>1
  <2>2. PICK e : e = NewEntry(v, l)
    OBVIOUS
  <2>3. e \in EntryRecords(k) /\ e # None
    BY <2>2, NewEntryOK
  <2>4. mem' = Inserted(mem, k, e, conf)
    BY <2>1a, <2>2
  <2>5. /\ IndexesOK(Inserted(mem, k, e, conf)) /\ Inserted(mem, k, e, conf).entries[k] = e
        /\ \A h \in Keys \ {k} : Inserted(mem, k, e, conf).entries[h] \in {None, mem.entries[h]}
    <3>1. PICK c : c = conf
      OBVIOUS
    <3>2. /\ IndexesOK(Inserted(mem, k, e, c))
          /\ Cached(Inserted(mem, k, e, c))
                = (Cached(mem) \cap (Fitting(Ranked(mem, k, c), c) \ {k})) \cup {k}
          /\ Inserted(mem, k, e, c).entries[k] = e
          /\ \A h \in Keys \ {k} : Inserted(mem, k, e, c).entries[h] \in {None, mem.entries[h]}
      BY <1>1, <2>3, InsertedOK
    <3> QED
      BY <3>1, <3>2, Zenon
  <2>6. EntriesOK(mem')
    BY <1>1, <2>3, <2>4, <2>5 DEF EntriesOK, Cached, NoEntry
  <2> QED
    BY <2>4, <2>5, <2>6 DEF MemOK
<1> QED
  BY <1>1, <1>2, <1>3, <1>4, MemSteps DEF MemOK

\* At first there are no entries.
LEMMA EntriesInit == Init => EntriesInv
<1> SUFFICES ASSUME Init PROVE EntriesInv
  OBVIOUS
<1>1. CacheInv
  BY CacheInit
<1>2. ValuesOK
  <2>1. ASSUME NEW s \in Sessions PROVE ValueOK(sess[s])
    BY DEF Init, NewSession, ValueOK
  <2>2. WarmerValueOK
    BY DEF Init, WarmerValueOK
  <2> QED
    BY <2>1, <2>2 DEF ValuesOK
<1>3. MemOK
  <2>1. /\ mem = [entries |-> mem.entries, lru |-> mem.lru, byTag |-> mem.byTag, bytes |-> mem.bytes]
        /\ mem.entries = [k \in Keys |-> None] /\ mem.lru = <<>>
        /\ mem.byTag = [t \in Tags |-> {}] /\ mem.bytes = 0
    BY DEF Init, EmptyMem, NoEntry
  <2>2. Cached(mem) = {}
    BY <2>1 DEF Cached, NoEntry
  <2>3. mem.lru \in Seq(Keys) /\ NoRepeat(mem.lru) /\ ToSet(mem.lru) = {}
    BY <2>1 DEF NoRepeat, ToSet
  <2>4. mem.byTag = [t \in Tags |-> {k \in Cached(mem) : t \in TagsOf(k)}]
    BY <2>1, <2>2
  <2>5. mem.bytes = Total(Cached(mem))
    BY <2>1, <2>2, TotalFacts
  <2>6. mem.entries = [k \in Keys |-> mem.entries[k]]
    BY <2>1
  <2>7. EntriesOK(mem)
    BY <2>2 DEF EntriesOK
  <2> QED
    BY <2>1, <2>2, <2>3, <2>4, <2>5, <2>6, <2>7 DEF MemOK, IndexesOK
<1> QED
  BY <1>1, <1>2, <1>3 DEF EntriesInv

\* Every step keeps all of it.
LEMMA EntriesStep == EntriesInv /\ [Next]_vars => EntriesInv'
<1> SUFFICES ASSUME EntriesInv, [Next]_vars PROVE EntriesInv'
  OBVIOUS
<1>1. CacheInv /\ ValuesOK
  BY DEF EntriesInv
<1>2. CacheInv'
  BY <1>1, CacheStep
<1>3. ValuesOK'
  BY <1>1, ValuesStep, WarmerValueStep DEF ValuesOK
<1> QED
  BY <1>2, <1>3, MemStep DEF EntriesInv

-----------------------------------------------------------------------------
(* The theorems *)

\* The entries, their indexes and the answers on their way are in order in
\* every state that is reached.
THEOREM EntriesCorrect == Spec => []EntriesInv
  BY EntriesInit, EntriesStep, PTL DEF Spec

\* The list, the map, the tag index and bytes agree, whatever is inserted,
\* evicted, dropped by a write or completed by a count (cache.go, insertLocked,
\* removeLocked, dropTagLocked).
THEOREM IndexesAlwaysAgree == Spec => []IndexesAgree
<1>1. EntriesInv => IndexesAgree
  <2> SUFFICES ASSUME IndexesOK(mem) PROVE IndexesAgree
    BY DEF EntriesInv, MemOK
  <2>1. ToSet(mem.lru) = Cached(mem) /\ Len(mem.lru) = Cardinality(Cached(mem))
    BY LengthIsCardinality DEF IndexesOK
  <2>2. \A t \in Tags : mem.byTag[t] = {k \in Cached(mem) : t \in TagsOf(k)}
    BY DEF IndexesOK
  <2>3. mem.bytes = SumSizes(Cached(mem))
    <3>1. Cached(mem) \in SUBSET Keys
      BY DEF Cached
    <3> QED
      BY <3>1, SumIsTotal DEF IndexesOK
  <2> QED
    BY <2>1, <2>2, <2>3 DEF IndexesAgree
<1> QED
  BY <1>1, EntriesCorrect, PTL

\* After an insertion the bounds in force hold, whatever a reload has made of
\* them since the entries were stored (cache.go:175).
THEOREM BudgetAlwaysEnforced == Spec => BudgetEnforced
<1>1. ASSUME EntriesInv, [Next]_vars,
             NEW k \in Keys, mem.entries[k] = NoEntry, mem'.entries[k] # NoEntry
      PROVE  /\ Len(mem'.lru) <= conf.maxEntries
             /\ conf.maxBytes = 0 \/ mem'.bytes <= conf.maxBytes \/ Len(mem'.lru) = 1
  <2>1. IndexesOK(mem) /\ conf \in Confs
    BY <1>1 DEF EntriesInv, MemOK, CacheInv, RestOK
  <2>2. ~Shrinks /\ mem' # mem
    BY <1>1 DEF Shrinks, NoEntry
  <2>3. ~Completes
    <3> SUFFICES ASSUME Completes PROVE FALSE
      OBVIOUS
    <3>1. PICK v : mem' = [mem EXCEPT !.entries["listing"].count = v]
      BY DEF Completes, Counted
    <3>2. "listing" \in Cached(mem) /\ k # "listing"
      BY <1>1 DEF Completes, Cached
    <3>3. mem'.entries[k] = mem.entries[k]
      <4>1. PICK x : x = [mem.entries EXCEPT !["listing"] = [mem.entries["listing"] EXCEPT !.count = v]]
        OBVIOUS
      <4>2. PICK a, b, c, d : mem = [entries |-> a, lru |-> b, byTag |-> c, bytes |-> d]
        BY <2>1, Zenon DEF IndexesOK
      <4>3. mem'.entries = x
        BY <3>1, <4>1, <4>2
      <4> QED
        BY <4>1, <4>3, <3>2, <2>1 DEF IndexesOK
    <3> QED
      BY <3>3, <1>1
  <2>4. Inserts
    BY <1>1, <2>2, <2>3, MemSteps
  <2>5. PICK h \in Keys : \E v \in [Deps(h) -> Nat] : \E l \in BOOLEAN :
           mem' = Inserted(mem, h, NewEntry(v, l), conf)
    BY <2>4, Zenon DEF Inserts
  <2>5a. PICK v \in [Deps(h) -> Nat], l \in BOOLEAN :
           mem' = Inserted(mem, h, NewEntry(v, l), conf)
    BY <2>5
  <2>6. PICK e : e = NewEntry(v, l)
    OBVIOUS
  <2>7. e # None
    BY <2>6, NewEntryOK
  <2>8. mem' = Inserted(mem, h, e, conf)
    BY <2>5a, <2>6
  <2> QED
    BY <2>1, <2>7, <2>8, InsertedFits
<1>2. EntriesInv /\ [Next]_vars =>
        [(\E k \in Keys : mem.entries[k] = NoEntry /\ mem'.entries[k] # NoEntry)
         => /\ Len(mem'.lru) <= conf.maxEntries
            /\ conf.maxBytes = 0 \/ mem'.bytes <= conf.maxBytes \/ Len(mem'.lru) = 1]_vars
  BY <1>1
<1> QED
  BY <1>2, EntriesCorrect, PTL DEF Spec, BudgetEnforced

-----------------------------------------------------------------------------
(* Freshness *)

\* The restrictions under which a write's invalidation reaches every entry it
\* affects: no session writes with the cache disabled or commits by a BEGIN,
\* and no transient that an autoloaded option row holds is written by its name.
Tame ==
    /\ "autocommit off" \notin Statements /\ "restart" \notin Statements
    /\ ~(AutoloadedTransients /\ "set transient" \in Statements)

\* What has been read is what the database holds, or a write of it has yet to
\* be invalidated, or it has been overtaken.
Fresh(k, v, late) == late \/ \A o \in Deps(k) : v[o] = ver[o] \/ Unobserved(o)

\* What a session has to invalidate are writes that clients send, and what it
\* has written in a transaction it remembers, or that there was too much of it.
Sent == (Writes \cap Statements) \cup {"flush"}
TxOK(x) ==
    /\ ~x.unsafe
    /\ x.todo \in Seq(Sent) /\ x.txWrites \in Seq(Sent)
    /\ \A o \in x.dirty : o \in Objects /\ (x.overflow \/ \E w \in ToSet(x.txWrites) : o \in Touches(w))

\* While the prefix is unknown nothing is cached nor about to be.
Dormant(pc) == pc \in {"idle", "alone", "count", "observe"}
Asleep ==
    /\ Cached(mem) = {} /\ ~learned
    /\ \A s \in Sessions : Dormant(sess[s].pc)
    /\ warmer.pc = "sleep" /\ ~warmer.kick
    /\ admin.pc \notin {"trigger", "kick"}

\* The prefix by its fields.
PrefixShape == prefix = [f \in {"known", "detect", "draft"} |-> prefix[f]]

\* All of it is fresh.
FreshInv ==
    /\ PrefixShape
    /\ \A k \in Cached(mem) : Fresh(k, mem.entries[k].val, mem.entries[k].late)
    /\ \A s \in Sessions : sess[s].pc \in Filling /\ sess[s].val # None =>
          Fresh(sess[s].arg, sess[s].val, sess[s].late)
    /\ warmer.pc = "warm" => Fresh("alloptions", warmer.val, warmer.late)
    /\ \A s \in Sessions : TxOK(sess[s])
    /\ ~prefix.known => Asleep

StaleInv == EntriesInv /\ FreshInv

\* A write drops a tag of every entry that reads what it changes.
LEMMA WritesReachEntries ==
    ASSUME Tame, NEW w \in Sent, NEW k \in Keys, NEW o \in Touches(w), o \in Deps(k)
    PROVE  TagsOf(k) \cap Dropped(w) # {}
<1>1. /\ w \in {"set option", "set transient", "write options", "write terms", "multi table", "flush"}
      /\ w = "set transient" => ~AutoloadedTransients
  BY DEF Sent, Writes, Tame
<1>2. /\ Deps("alloptions") = {"option"} \cup (IF AutoloadedTransients THEN {"transient"} ELSE {})
      /\ Deps("transient read") = {"transient"} /\ Deps("terms") = {"term"} /\ Deps("listing") = {"term"}
  BY DEF Deps
<1>3. /\ TagsOf("alloptions") = {"alloptions", "table options"}
      /\ TagsOf("transient read") = {"option transient", "table options"}
      /\ TagsOf("terms") = {"table terms"} /\ TagsOf("listing") = {"table terms"}
  BY DEF TagsOf
<1>4. /\ Touches("set option") = {"option"} /\ Touches("set transient") = {"transient"}
      /\ Touches("write options") = {"option", "transient"} /\ Touches("write terms") = {"term"}
  BY DEF Touches
<1>5. /\ Dropped("set option") = {"alloptions"} /\ Dropped("set transient") = {"option transient"}
      /\ Dropped("write options") = {"table options"} /\ Dropped("write terms") = {"table terms"}
      /\ Dropped("multi table") = Tags /\ Dropped("flush") = Tags
  BY DEF Dropped
<1>6. k \in {"alloptions", "transient read", "terms", "listing"}
  BY DEF Keys
<1>7. CASE w = "set option"
  BY <1>2, <1>3, <1>4, <1>5, <1>6, <1>7
<1>8. CASE w = "set transient"
  BY <1>1, <1>2, <1>3, <1>4, <1>5, <1>6, <1>8
<1>9. CASE w = "write options"
  BY <1>2, <1>3, <1>4, <1>5, <1>6, <1>9
<1>10. CASE w = "write terms"
  BY <1>2, <1>3, <1>4, <1>5, <1>6, <1>10
<1>11. CASE w \in {"multi table", "flush"}
  <2>1. "table options" \in Tags /\ "table terms" \in Tags
    BY DEF Tags
  <2> QED
    BY <2>1, <1>3, <1>5, <1>6, <1>11
<1> QED
  BY <1>1, <1>7, <1>8, <1>9, <1>10, <1>11

-----------------------------------------------------------------------------
(* What a session has written *)

\* A step that leaves the transaction of a session, and what it has to
\* invalidate, alone.
Steady(x, y) ==
    /\ y.unsafe = x.unsafe /\ y.todo = x.todo /\ y.dirty = x.dirty
    /\ y.txWrites = x.txWrites /\ y.overflow = x.overflow
AllSteady == \A t \in Sessions : Steady(sess[t], sess'[t])
SomeSteady(s) == \E y : sess' = [sess EXCEPT ![s] = y] /\ Steady(sess[s], y)

\* One session makes such a step and the others none.
LEMMA OneSteadyAll ==
    ASSUME SessionsOK, NEW s \in Sessions, SomeSteady(s)
    PROVE  AllSteady
<1>1. PICK y : sess' = [sess EXCEPT ![s] = y] /\ Steady(sess[s], y)
  BY DEF SomeSteady
<1>2. ASSUME NEW t \in Sessions PROVE sess'[t] = IF t = s THEN y ELSE sess[t]
  BY <1>1 DEF SessionsOK
<1> QED
  BY <1>1, <1>2 DEF AllSteady, Steady

\* The updates that are such steps.
LEMMA UpdatesSteady ==
    ASSUME NEW x, SessionShape(x)
    PROVE  /\ Steady(x, Broken(x)) /\ Steady(x, Idle(x)) /\ Steady(x, Pending(x))
           /\ \A l : Steady(x, [x EXCEPT !.pc = l])
           /\ \A l, q : Steady(x, Fetches(x, l, q))
           /\ \A c : Steady(x, [x EXCEPT !.known = c]) /\ Steady(x, [x EXCEPT !.calc = c])
           /\ \A v : Steady(x, Reads(x, v)) /\ Steady(x, Rows(x, v))
           /\ Steady(x, [x EXCEPT !.late = TRUE])
<1>1. Steady(x, Broken(x)) /\ Steady(x, Idle(x)) /\ Steady(x, Pending(x))
  BY DEF SessionShape, Fields, Steady, Broken, Idle, Pending
<1>2. \A l : Steady(x, [x EXCEPT !.pc = l])
  BY DEF SessionShape, Fields, Steady
<1>3. \A l, q : Steady(x, Fetches(x, l, q))
  BY DEF SessionShape, Fields, Steady, Fetches
<1>4. \A c : Steady(x, [x EXCEPT !.known = c]) /\ Steady(x, [x EXCEPT !.calc = c])
  BY DEF SessionShape, Fields, Steady
<1>5. \A v : Steady(x, Reads(x, v)) /\ Steady(x, Rows(x, v))
  BY DEF SessionShape, Fields, Steady, Reads, Rows
<1>6. Steady(x, [x EXCEPT !.late = TRUE])
  BY DEF SessionShape, Fields, Steady
<1> QED
  BY <1>1, <1>2, <1>3, <1>4, <1>5, <1>6

\* One after the other they still are.
LEMMA SteadyTwice ==
    ASSUME NEW x, NEW y, NEW z, Steady(x, y), Steady(y, z)
    PROVE  Steady(x, z)
  BY DEF Steady

\* The steps that read and count.
LEMMA LooksSteady ==
    ASSUME CacheInv, NEW s \in Sessions, NEW q \in Keys,
           ReadAlone(s, q) \/ LookupHit(s, q) \/ LookupMiss(s, q) \/ ListingHit(s)
              \/ ListingMiss(s) \/ CountKnown(s) \/ CountAsked(s) \/ ExecuteStmt(s)
    PROVE  SomeSteady(s)
<1> DEFINE x == sess[s]
<1>1. SessionShape(x)
  BY DEF CacheInv, SessionsOK, SessionOK
<1>2. PICK b : b = Broken(x)
  OBVIOUS
<1>3. SessionShape(b) /\ Steady(x, b)
  BY <1>1, <1>2, UpdatedFields, UpdatesSteady
<1>4. CASE ReadAlone(s, q) \/ LookupMiss(s, q)
  <2>1. PICK l \in {"alone", "miss"} : sess' = [sess EXCEPT ![s] = Fetches(b, l, q)]
    BY <1>2, <1>4 DEF ReadAlone, LookupMiss, Fetches
  <2>2. Steady(b, Fetches(b, l, q))
    BY <1>3, UpdatesSteady
  <2> QED
    BY <2>1, <2>2, <1>3, SteadyTwice DEF SomeSteady
<1>5. CASE LookupHit(s, q) \/ CountKnown(s)
  <2>1. sess' = [sess EXCEPT ![s] = b]
    BY <1>2, <1>5 DEF LookupHit, CountKnown
  <2> QED
    BY <2>1, <1>3 DEF SomeSteady
<1>6. CASE ListingHit(s)
  <2>1. PICK c : sess' = [sess EXCEPT ![s] = [b EXCEPT !.known = c]]
    BY <1>2, <1>6 DEF ListingHit
  <2>2. Steady(b, [b EXCEPT !.known = c])
    BY <1>3, UpdatesSteady
  <2>3. Steady(x, [b EXCEPT !.known = c])
    BY <2>2, <1>3, SteadyTwice
  <2> QED
    BY <2>1, <2>3, Zenon DEF SomeSteady
<1>7. CASE ListingMiss(s)
  <2>1. sess' = [sess EXCEPT ![s] = Fetches(x, "list", "listing")]
    BY <1>7 DEF ListingMiss, Fetches
  <2>2. Steady(x, Fetches(x, "list", "listing"))
    BY <1>1, UpdatesSteady
  <2> QED
    BY <2>1, <2>2, Zenon DEF SomeSteady
<1>8. CASE CountAsked(s)
  <2>1. sess' = [sess EXCEPT ![s] = [x EXCEPT !.pc = "count"]]
    BY <1>8 DEF CountAsked
  <2>2. Steady(x, [x EXCEPT !.pc = "count"])
    BY <1>1, UpdatesSteady
  <2> QED
    BY <2>1, <2>2, Zenon DEF SomeSteady
<1>9. CASE ExecuteStmt(s)
  <2>1. PICK c \in {None, OtherCount} : sess' = [sess EXCEPT ![s] = [x EXCEPT !.calc = c]]
    BY <1>9 DEF ExecuteStmt
  <2>2. Steady(x, [x EXCEPT !.calc = c])
    BY <1>1, UpdatesSteady
  <2> QED
    BY <2>1, <2>2, Zenon DEF SomeSteady
<1> QED
  BY <1>4, <1>5, <1>6, <1>7, <1>8, <1>9

\* The steps that fetch, store and answer.
LEMMA FetchesSteady ==
    ASSUME CacheInv, NEW s \in Sessions,
           Join(s) \/ Lead(s) \/ GiveUp(s) \/ Trigger(s) \/ Forget(s) \/ Store(s)
              \/ StorePaired(s) \/ Answered(s)
    PROVE  SomeSteady(s)
<1> DEFINE x == sess[s]
<1>1. SessionShape(x)
  BY DEF CacheInv, SessionsOK, SessionOK
<1>2. Steady(x, Idle(x)) /\ \A l : Steady(x, [x EXCEPT !.pc = l])
  BY <1>1, UpdatesSteady
<1>3. ASSUME sess' = [sess EXCEPT ![s] = Idle(x)] PROVE SomeSteady(s)
  BY <1>2, <1>3 DEF SomeSteady
<1>4. ASSUME NEW l, sess' = [sess EXCEPT ![s] = [x EXCEPT !.pc = l]] PROVE SomeSteady(s)
  <2>1. Steady(x, [x EXCEPT !.pc = l])
    BY <1>2
  <2> QED
    BY <2>1, <1>4, Zenon DEF SomeSteady
<1>5. CASE \/ Join(s) \/ Lead(s) \/ GiveUp(s) \/ Trigger(s) \/ Forget(s) \/ Store(s)
           \/ AloneAnswered(s)
  <2>1. \/ sess' = [sess EXCEPT ![s] = Idle(x)]
        \/ \E l : sess' = [sess EXCEPT ![s] = [x EXCEPT !.pc = l]]
    BY <1>5 DEF Join, Lead, GiveUp, Trigger, Forget, Store, AloneAnswered
  <2> QED
    BY <2>1, <1>3, <1>4
<1>6. CASE StorePaired(s)
  <2>1. sess' = [sess EXCEPT ![s] = Pending(Idle(x))]
    BY <1>6 DEF StorePaired, Pending
  <2>2. SessionShape(Idle(x))
    BY <1>1, UpdatedFields
  <2>3. Steady(Idle(x), Pending(Idle(x)))
    BY <2>2, UpdatesSteady
  <2>4. Steady(x, Pending(Idle(x)))
    BY <1>2, <2>3, SteadyTwice
  <2> QED
    BY <2>1, <2>4, Zenon DEF SomeSteady
<1>7. CASE LeaderAnswered(s)
  <2>1. PICK v \in {Answer(x.arg), None} : sess' = [sess EXCEPT ![s] = Reads(x, v)]
    BY <1>7 DEF LeaderAnswered, Reads
  <2>2. Steady(x, Reads(x, v))
    BY <1>1, UpdatesSteady
  <2> QED
    BY <2>1, <2>2 DEF SomeSteady
<1>8. CASE ListingAnswered(s)
  <2>1. PICK v : v = Answer("listing")
    OBVIOUS
  <2>2. sess' = [sess EXCEPT ![s] = Rows(x, v)] \/ sess' = [sess EXCEPT ![s] = Idle(x)]
    BY <1>8, <2>1 DEF ListingAnswered, Rows
  <2>3. Steady(x, Rows(x, v))
    BY <1>1, UpdatesSteady
  <2> QED
    BY <2>2, <2>3, <1>3 DEF SomeSteady
<1>9. CASE PairFoundRows(s)
  <2>1. PICK b : b = Broken(x)
    OBVIOUS
  <2>2. SessionShape(b) /\ Steady(x, b)
    BY <1>1, <2>1, UpdatedFields, UpdatesSteady
  <2>3. sess' = [sess EXCEPT ![s] = [b EXCEPT !.pc = "idle"]]
    BY <1>9, <2>1 DEF PairFoundRows
  <2>4. Steady(b, [b EXCEPT !.pc = "idle"])
    BY <2>2, UpdatesSteady
  <2>5. Steady(x, [b EXCEPT !.pc = "idle"])
    BY <2>2, <2>4, SteadyTwice
  <2> QED
    BY <2>3, <2>5, Zenon DEF SomeSteady
<1> QED
  BY <1>5, <1>6, <1>7, <1>8, <1>9 DEF Answered

\* A leader that publishes its answer changes no transaction.
LEMMA PublishSteady ==
    ASSUME CacheInv, NEW s \in Sessions, Publish(s)
    PROVE  AllSteady
<1>1. ASSUME NEW t \in Sessions PROVE SessionShape(sess[t])
  BY DEF CacheInv, SessionsOK, SessionOK
<1>2. ASSUME NEW t \in Sessions
      PROVE  sess'[t] = IF t = s THEN [sess[s] EXCEPT !.pc = "done"]
                        ELSE IF sess[t].pc = "wait" /\ sess[t].arg = sess[s].arg
                        THEN Idle(sess[t]) ELSE sess[t]
  <2>1. sess' = [u \in Sessions |->
                   IF u = s THEN [sess[s] EXCEPT !.pc = "done"]
                   ELSE IF sess[u].pc = "wait" /\ sess[u].arg = sess[s].arg
                   THEN Idle(sess[u]) ELSE sess[u]]
    BY Zenon DEF Publish
  <2> QED
    BY <2>1, Zenon
<1>3. Steady(sess[s], [sess[s] EXCEPT !.pc = "done"])
  BY <1>1, UpdatesSteady
<1>4. ASSUME NEW t \in Sessions PROVE Steady(sess[t], Idle(sess[t])) /\ Steady(sess[t], sess[t])
  BY <1>1, UpdatesSteady DEF Steady
<1>5. ASSUME NEW t \in Sessions PROVE Steady(sess[t], sess'[t])
  BY <1>2, <1>3, <1>4, Zenon
<1> QED
  BY <1>5 DEF AllSteady

\* Nor does marking answers as overtaken, ...
LEMMA OvertakenSteady ==
    ASSUME CacheInv, NEW T
    PROVE  \A t \in Sessions : Steady(sess[t], Overtaken(T)[t])
<1> SUFFICES ASSUME NEW t \in Sessions PROVE Steady(sess[t], Overtaken(T)[t])
  OBVIOUS
<1>1. SessionShape(sess[t])
  BY DEF CacheInv, SessionsOK, SessionOK
<1>2. Steady(sess[t], [sess[t] EXCEPT !.late = TRUE]) /\ Steady(sess[t], sess[t])
  BY <1>1, UpdatesSteady DEF Steady
<1>3. \/ Overtaken(T)[t] = [sess[t] EXCEPT !.late = TRUE]
      \/ Overtaken(T)[t] = sess[t]
  BY DEF Overtaken
<1> QED
  BY <1>2, <1>3, Zenon

\* ... nor going on after an invalidation.
LEMMA ProceedsSteady ==
    ASSUME NEW x, SessionShape(x), NEW r
    PROVE  Steady(x, Proceeds(x, r))
<1>1. /\ Steady(x, Idle(x)) /\ Steady(x, [x EXCEPT !.pc = "trigger"])
      /\ Steady(x, [x EXCEPT !.pc = "observe"])
  BY UpdatesSteady
<1>2. \/ Proceeds(x, r) = Idle(x) \/ Proceeds(x, r) = [x EXCEPT !.pc = "trigger"]
      \/ Proceeds(x, r) = [x EXCEPT !.pc = "observe"]
  BY DEF Proceeds
<1> QED
  BY <1>1, <1>2, Zenon

\* A step after which every write that had yet to be invalidated still has to
\* be, and every write that the step commits has to be as well.
Announced ==
    /\ \A o \in Objects : Unobserved(o) => Unobserved(o)'
    /\ \A o \in Objects : ver'[o] # ver[o] => Unobserved(o)'
AllTxOK == \A t \in Sessions : TxOK(sess'[t])

\* A step that changes no version, and leaves the transactions alone, is one.
LEMMA SteadyAnnounces ==
    ASSUME FreshInv, AllSteady, ver' = ver
    PROVE  Announced /\ AllTxOK
<1>1. Announced
  BY DEF AllSteady, Steady, Announced, Unobserved
<1>2. AllTxOK
  BY DEF FreshInv, AllSteady, Steady, AllTxOK, TxOK
<1> QED
  BY <1>1, <1>2

\* So is one in which a session without anything to invalidate commits what it
\* then has to.
LEMMA OneAnnounces ==
    ASSUME CacheInv, FreshInv, NEW s \in Sessions, NEW y, sess' = [sess EXCEPT ![s] = y],
           sess[s].todo = <<>>, TxOK(y),
           \A o \in Objects : ver'[o] # ver[o] => \E w \in ToSet(y.todo) : o \in Touches(w)
    PROVE  Announced /\ AllTxOK
<1>1. \A t \in Sessions : sess'[t] = IF t = s THEN y ELSE sess[t]
  BY DEF CacheInv, SessionsOK
<1>2. ToSet(sess[s].todo) = {}
  BY DEF ToSet
<1>3. ASSUME NEW o \in Objects, Unobserved(o) PROVE Unobserved(o)'
  <2>1. PICK t \in Sessions : \E w \in ToSet(sess[t].todo) : o \in Touches(w)
    BY <1>3 DEF Unobserved
  <2>2. t # s /\ sess'[t] = sess[t]
    BY <2>1, <1>1, <1>2
  <2> QED
    BY <2>1, <2>2 DEF Unobserved
<1>4. ASSUME NEW o \in Objects, ver'[o] # ver[o] PROVE Unobserved(o)'
  <2>1. sess'[s] = y
    BY <1>1
  <2> QED
    BY <2>1, <1>4 DEF Unobserved
<1>5. AllTxOK
  BY <1>1 DEF AllTxOK, FreshInv
<1> QED
  BY <1>3, <1>4, <1>5 DEF Announced

\* A committed set of objects.
LEMMA CommittedFacts ==
    ASSUME NEW O, Committed(O)
    PROVE  \A o \in Objects : ver'[o] # ver[o] => o \in O
  BY DEF Committed

\* A write has to be invalidated; one in a transaction is remembered until the
\* commit, or that there was no room for it.
LEMMA WriteAnnounces ==
    ASSUME Tame, CacheInv, FreshInv, NEW s \in Sessions, NEW w \in Writes, Write(s, w)
    PROVE  Announced /\ AllTxOK
<1> DEFINE x == sess[s]
           y == Remembers(x, w)
           full == Len(x.txWrites) >= MaxTrackedTxWrites
<1>1. x.pc = "idle" /\ w \in Statements
  BY DEF Write, Starts
<1>2. SessionShape(x) /\ x.todo = <<>> /\ TxOK(x)
  BY <1>1, StartsFacts DEF SessionOK, FreshInv
<1>3. w \in Sent
  BY <1>1 DEF Sent
<1>4. /\ SessionShape(y) /\ y.unsafe = x.unsafe
      /\ y.dirty = IF x.inTx THEN x.dirty \cup Touches(w) ELSE x.dirty
      /\ y.txWrites = IF ~x.unsafe /\ x.inTx /\ ~full THEN Append(x.txWrites, w) ELSE x.txWrites
  BY <1>2 DEF SessionShape, Fields, Remembers, Broken
<1>5. y.overflow <=> (x.overflow \/ (~x.unsafe /\ x.inTx /\ full))
  BY <1>2 DEF SessionShape, Fields, Remembers, Broken
<1> HIDE DEF y, full
<1> DEFINE z == Observes(y, <<w>>)
<1>6. sess' = [sess EXCEPT ![s] = z]
  <2>1. sess' = [sess EXCEPT ![s] = IF x.unsafe THEN y ELSE Observes(y, <<w>>)]
    BY DEF Write, Remembers, Observes, y
  <2>2. ~x.unsafe
    BY <1>2 DEF TxOK
  <2> QED
    BY <2>1, <2>2
<1>7. /\ z.unsafe = y.unsafe /\ z.todo = <<w>> /\ z.dirty = y.dirty
      /\ z.txWrites = y.txWrites /\ z.overflow = y.overflow
  BY <1>4 DEF SessionShape, Fields, Observes
<1> HIDE DEF z
<1>8. TxOK(z)
  <2>1. ~z.unsafe /\ z.todo \in Seq(Sent)
    BY <1>2, <1>3, <1>4, <1>7 DEF TxOK
  <2>2. x.txWrites \in Seq(Sent) /\ ~x.unsafe
    BY <1>2 DEF TxOK
  <2>3. z.txWrites \in Seq(Sent) /\ ToSet(x.txWrites) \subseteq ToSet(z.txWrites)
    <3>1. CASE x.inTx /\ ~full
      <4>1. z.txWrites = Append(x.txWrites, w)
        BY <3>1, <2>2, <1>4, <1>7
      <4> QED
        BY <4>1, <2>2, <1>3 DEF ToSet
    <3>2. CASE ~(x.inTx /\ ~full)
      <4>1. z.txWrites = x.txWrites
        BY <3>2, <1>4, <1>7
      <4> QED
        BY <4>1, <2>2
    <3> QED
      BY <3>1, <3>2
  <2>4. x.inTx => z.overflow \/ w \in ToSet(z.txWrites)
    <3>1. CASE x.inTx /\ ~full
      <4>1. z.txWrites = Append(x.txWrites, w)
        BY <3>1, <2>2, <1>4, <1>7
      <4> QED
        BY <4>1, <2>2, <1>3 DEF ToSet
    <3>2. CASE x.inTx /\ full
      BY <3>2, <2>2, <1>5, <1>7
    <3> QED
      BY <3>1, <3>2
  <2>5. x.overflow => z.overflow
    BY <1>5, <1>7
  <2>6. Touches(w) \subseteq Objects
    BY DEF Touches, Objects
  <2>7. ASSUME NEW o \in z.dirty
        PROVE  o \in Objects /\ (z.overflow \/ \E u \in ToSet(z.txWrites) : o \in Touches(u))
    <3>1. CASE o \in x.dirty
      <4>1. o \in Objects /\ (x.overflow \/ \E u \in ToSet(x.txWrites) : o \in Touches(u))
        BY <3>1, <1>2 DEF TxOK
      <4> QED
        BY <4>1, <2>3, <2>5
    <3>2. CASE o \notin x.dirty
      <4>1. x.inTx /\ o \in Touches(w)
        BY <3>2, <1>4, <1>7
      <4> QED
        BY <4>1, <2>4, <2>6
    <3> QED
      BY <3>1, <3>2
  <2> QED
    BY <2>1, <2>3, <2>7 DEF TxOK
<1>9. ASSUME NEW o \in Objects, ver'[o] # ver[o]
      PROVE  \E u \in ToSet(z.todo) : o \in Touches(u)
  <2>1. Committed(Touches(w))
    BY <1>9 DEF Write
  <2>2. o \in Touches(w)
    BY <2>1, <1>9, CommittedFacts
  <2>3. w \in ToSet(z.todo)
    BY <1>7 DEF ToSet
  <2> QED
    BY <2>2, <2>3
<1> QED
  BY <1>2, <1>6, <1>8, <1>9, OneAnnounces

\* A commit has to invalidate again all that the transaction has written.
LEMMA ControlAnnounces ==
    ASSUME Tame, CacheInv, FreshInv, NEW s \in Sessions, NEW k \in Statements, Control(s, k)
    PROVE  Announced /\ AllTxOK
<1>1. sess[s].pc = "idle" /\ k \in {"begin", "commit", "rollback"}
  BY DEF Control, Starts, Tame
<1>2. SessionShape(sess[s]) /\ sess[s].todo = <<>> /\ TxOK(sess[s])
  BY <1>1, StartsFacts DEF SessionOK, FreshInv
<1>3. PICK x : x = Broken(sess[s])
  OBVIOUS
<1>4. /\ SessionShape(x) /\ x.unsafe = sess[s].unsafe /\ x.todo = sess[s].todo
      /\ x.dirty = sess[s].dirty /\ x.txWrites = sess[s].txWrites /\ x.overflow = sess[s].overflow
  BY <1>2, <1>3, UpdatedFields, UpdatesSteady DEF Steady
<1>5. x.todo = <<>> /\ TxOK(x)
  BY <1>2, <1>4 DEF TxOK
<1> DEFINE e == Ended(x)
           r == Replay(x)
           u == x.unsafe
<1>6. /\ sess' = [sess EXCEPT ![s] =
                   CASE k = "begin"          -> [x EXCEPT !.inTx = TRUE]
                     [] k = "restart"        -> [x EXCEPT !.dirty = {}]
                     [] k = "autocommit off" -> Unsafe(x)
                     [] k = "rollback" \/ (k = "commit" /\ r = <<>>) -> [e EXCEPT !.inTx = u]
                     [] OTHER -> Observes(e, r)]
      /\ Committed(IF k \in {"commit", "restart"} THEN x.dirty ELSE {})
  BY <1>3, Zenon DEF Control, Ended, Unsafe, Observes
<1>7. /\ SessionShape(e) /\ e.unsafe = x.unsafe /\ e.todo = <<>> /\ e.dirty = {}
      /\ e.txWrites = <<>> /\ e.overflow = FALSE
  BY <1>4, <1>5 DEF SessionShape, Fields, Ended
<1>8. /\ r \in Seq(Sent)
      /\ \A o \in x.dirty : o \in Objects /\ \E w \in ToSet(r) : o \in Touches(w)
  <2>1. CASE x.overflow
    <3>1. r = <<"flush">>
      BY <2>1, <1>5 DEF Replay, TxOK
    <3>2. "flush" \in ToSet(r) /\ r \in Seq(Sent)
      BY <3>1 DEF ToSet, Sent
    <3>3. Touches("flush") = Objects
      BY DEF Touches
    <3> QED
      BY <3>2, <3>3, <1>5 DEF TxOK
  <2>2. CASE ~x.overflow
    <3>1. r = x.txWrites
      BY <2>2, <1>5 DEF Replay, TxOK
    <3> QED
      BY <3>1, <2>2, <1>5 DEF TxOK
  <2> QED
    BY <2>1, <2>2
<1> HIDE DEF e, r
<1>9. CASE k = "begin"
  <2> DEFINE y == [x EXCEPT !.inTx = TRUE]
  <2>1. sess' = [sess EXCEPT ![s] = y]
    BY <1>6, <1>9
  <2>2. /\ y.unsafe = x.unsafe /\ y.todo = x.todo /\ y.dirty = x.dirty
        /\ y.txWrites = x.txWrites /\ y.overflow = x.overflow
    BY <1>4 DEF SessionShape, Fields
  <2> HIDE DEF y
  <2>3. TxOK(y)
    BY <1>5, <2>2 DEF TxOK
  <2>4. \A o \in Objects : ver'[o] # ver[o] => o \in {}
    BY <1>6, <1>9, CommittedFacts
  <2> QED
    BY <2>1, <2>3, <2>4, <1>2, OneAnnounces
<1>10. CASE k = "rollback" \/ (k = "commit" /\ r = <<>>)
  <2> DEFINE y == [e EXCEPT !.inTx = u]
  <2>1. sess' = [sess EXCEPT ![s] = y]
    BY <1>6, <1>10
  <2>2. /\ y.unsafe = x.unsafe /\ y.todo = <<>> /\ y.dirty = {} /\ y.txWrites = <<>>
    BY <1>7 DEF SessionShape, Fields
  <2> HIDE DEF y
  <2>3. TxOK(y)
    BY <1>5, <2>2 DEF TxOK
  <2>4. \A o \in Objects : ver'[o] # ver[o] => o \in {}
    <3>1. CASE k = "rollback"
      BY <1>6, <3>1, CommittedFacts
    <3>2. CASE k = "commit" /\ r = <<>>
      <4>1. ToSet(r) = {}
        BY <3>2 DEF ToSet
      <4>2. x.dirty = {}
        BY <4>1, <1>8
      <4> QED
        BY <1>6, <3>2, <4>2, CommittedFacts
    <3> QED
      BY <1>10, <3>1, <3>2
  <2> QED
    BY <2>1, <2>3, <2>4, <1>2, OneAnnounces
<1>11. CASE k = "commit" /\ r # <<>>
  <2> DEFINE y == Observes(e, r)
  <2>1. sess' = [sess EXCEPT ![s] = y]
    BY <1>6, <1>11
  <2>2. /\ y.unsafe = x.unsafe /\ y.todo = r /\ y.dirty = {} /\ y.txWrites = <<>>
    BY <1>7 DEF SessionShape, Fields, Observes
  <2> HIDE DEF y
  <2>3. TxOK(y)
    BY <1>5, <1>8, <2>2 DEF TxOK
  <2>4. \A o \in Objects : ver'[o] # ver[o] => o \in x.dirty
    BY <1>6, <1>11, CommittedFacts
  <2>5. \A o \in Objects : ver'[o] # ver[o] => \E w \in ToSet(y.todo) : o \in Touches(w)
    BY <2>2, <2>4, <1>8
  <2> QED
    BY <2>1, <2>3, <2>5, <1>2, OneAnnounces
<1> QED
  BY <1>1, <1>9, <1>10, <1>11

\* A client that leaves had nothing to invalidate.
LEMMA DisconnectAnnounces ==
    ASSUME CacheInv, FreshInv, NEW s \in Sessions, Disconnect(s)
    PROVE  Announced /\ AllTxOK
<1>1. sess[s].pc = "idle" /\ ver' = ver /\ sess' = [sess EXCEPT ![s] = NewSession]
  BY DEF Disconnect
<1>2. sess[s].todo = <<>>
  BY <1>1, StartsFacts
<1>3. TxOK(NewSession)
  BY DEF TxOK, NewSession
<1>4. \A o \in Objects : ver'[o] # ver[o] => \E w \in ToSet(NewSession.todo) : o \in Touches(w)
  BY <1>1
<1> QED
  BY <1>1, <1>2, <1>3, <1>4, OneAnnounces

\* Every step announces what it commits, but for an invalidation, which
\* commits nothing.
LEMMA AnnounceStep ==
    ASSUME Tame, CacheInv, FreshInv, [Next]_vars, ~\E s \in Sessions : Invalidate(s)
    PROVE  Announced /\ AllTxOK
<1>1. SessionsOK /\ \A t \in Sessions : SessionShape(sess[t])
  BY DEF CacheInv, SessionsOK, SessionOK
<1>2. ASSUME NEW s \in Sessions, SomeSteady(s), ver' = ver PROVE Announced /\ AllTxOK
  BY <1>1, <1>2, OneSteadyAll, SteadyAnnounces
<1>3. ASSUME NEW s \in Sessions, Command(s) PROVE Announced /\ AllTxOK
  <2>1. CASE \E w \in Writes : Write(s, w)
    BY <2>1, WriteAnnounces
  <2>2. CASE \E k \in Statements : Control(s, k)
    BY <2>2, ControlAnnounces
  <2>3. CASE Disconnect(s)
    BY <2>3, DisconnectAnnounces
  <2>4. CASE \/ \E q \in Keys : ReadAlone(s, q) \/ LookupHit(s, q) \/ LookupMiss(s, q)
             \/ ListingHit(s) \/ ListingMiss(s) \/ CountKnown(s) \/ CountAsked(s) \/ ExecuteStmt(s)
    <3>1. PICK q \in Keys : ReadAlone(s, q) \/ LookupHit(s, q) \/ LookupMiss(s, q) \/ ListingHit(s)
              \/ ListingMiss(s) \/ CountKnown(s) \/ CountAsked(s) \/ ExecuteStmt(s)
      BY <2>4 DEF Keys
    <3>2. ver' = ver
      BY <3>1 DEF ReadAlone, LookupHit, LookupMiss, ListingHit, ListingMiss, CountKnown,
         CountAsked, ExecuteStmt
    <3> QED
      BY <3>1, <3>2, <1>2, LooksSteady
  <2> QED
    BY <1>3, <2>1, <2>2, <2>3, <2>4 DEF Command
<1>4. ASSUME NEW s \in Sessions, Continue(s) \/ Answered(s) PROVE Announced /\ AllTxOK
  <2>1. ver' = ver
    BY <1>4 DEF Continue, Join, Lead, GiveUp, Publish, Forget, Store, StorePaired,
       Invalidate, Trigger, Kick, Answered, LeaderAnswered, AloneAnswered,
       ListingAnswered, PairFoundRows
  <2>2. CASE Publish(s)
    BY <2>1, <2>2, PublishSteady, SteadyAnnounces
  <2>3. CASE Kick(s)
    <3>1. sess' = [sess EXCEPT ![s] = Proceeds(sess[s], FALSE)]
      BY <2>3 DEF Kick
    <3>2. Steady(sess[s], Proceeds(sess[s], FALSE))
      BY <1>1, ProceedsSteady
    <3> QED
      BY <2>1, <3>1, <3>2, <1>2 DEF SomeSteady
  <2>4. CASE \/ Join(s) \/ Lead(s) \/ GiveUp(s) \/ Trigger(s) \/ Forget(s) \/ Store(s)
             \/ StorePaired(s) \/ Answered(s)
    BY <2>1, <2>4, <1>2, FetchesSteady
  <2> QED
    BY <1>4, <2>2, <2>3, <2>4 DEF Continue
<1>5. CASE WarmerStep \/ DetectStep \/ ReloadRules \/ ReloadStep \/ UNCHANGED vars
  <2>1. ver' = ver /\ (sess' = sess \/ sess' = Overtaken(Tags))
    BY <1>5 DEF WarmerStep, WarmerWakes, WarmerTakes, WarmerFetches, WarmerStores,
           DetectStep, DetectCompiles, DetectBinds, ReloadRules, ReloadStep,
           ReloadBinds, ReloadTriggers, ReloadConfigures, ReloadFlushes, vars
  <2>2. AllSteady
    BY <2>1, OvertakenSteady DEF AllSteady, Steady
  <2> QED
    BY <2>1, <2>2, SteadyAnnounces
<1> QED
  BY <1>3, <1>4, <1>5 DEF Next

\* What has been read is fresh after the step.
FreshNext(k, v, late) == late \/ \A o \in Deps(k) : v[o] = ver'[o] \/ Unobserved(o)'

\* After a step that announces what it commits, what has been read is as fresh
\* as before it, ...
LEMMA FreshCarries ==
    ASSUME Announced, NEW k, NEW v, NEW l, Fresh(k, v, l)
    PROVE  FreshNext(k, v, l)
<1>1. Deps(k) \in SUBSET Objects
  BY DepsAreObjects
<1>2. ASSUME NEW o \in Deps(k), ~l PROVE v[o] = ver'[o] \/ Unobserved(o)'
  <2>1. v[o] = ver[o] \/ Unobserved(o)
    BY <1>2 DEF Fresh
  <2> QED
    BY <2>1, <1>1 DEF Announced
<1> QED
  BY <1>2 DEF FreshNext

\* ... and so is what is being read.
LEMMA AnswerFresh ==
    ASSUME Announced, NEW k, NEW v, NEW l, v = Answer(k)
    PROVE  FreshNext(k, v, l)
<1>1. Fresh(k, v, l)
  BY DEF Fresh, Answer
<1> QED
  BY <1>1, FreshCarries

\* What is new in the entries was held by whoever stored it.
LEMMA HeldIsFresh ==
    ASSUME CacheInv, FreshInv, NEW k, NEW v, NEW l, Held(k, v, l)
    PROVE  Fresh(k, v, l)
<1>1. CASE \E s \in Sessions : /\ sess[s].pc \in {"store", "rows"}
                               /\ sess[s].arg = k /\ sess[s].val = v /\ sess[s].late = l
  <2>1. PICK s \in Sessions : /\ sess[s].pc \in {"store", "rows"}
                              /\ sess[s].arg = k /\ sess[s].val = v /\ sess[s].late = l
    BY <1>1
  <2>2. sess[s].val # None /\ sess[s].pc \in Filling
    BY <2>1 DEF CacheInv, SessionsOK, SessionOK, Filling
  <2> QED
    BY <2>1, <2>2 DEF FreshInv
<1>2. CASE warmer.pc = "warm" /\ k = "alloptions" /\ v = warmer.val /\ l = warmer.late
  BY <1>2 DEF FreshInv
<1> QED
  BY <1>1, <1>2 DEF Held

\* Every entry stays fresh.
LEMMA EntriesFresh ==
    ASSUME EntriesInv, FreshInv, [Next]_vars, Announced
    PROVE  \A k \in Cached(mem') : FreshNext(k, mem'.entries[k].val, mem'.entries[k].late)
<1>1. IndexesOK(mem) /\ EntriesOK(mem) /\ CacheInv
  BY DEF EntriesInv, MemOK
<1>2. ASSUME NEW k \in Cached(mem)
      PROVE  FreshNext(k, mem.entries[k].val, mem.entries[k].late)
  BY FreshCarries DEF FreshInv
<1>3. CASE Shrinks
  <2>1. \A k \in Cached(mem') : k \in Cached(mem) /\ mem'.entries[k] = mem.entries[k]
    BY <1>3 DEF Shrinks, Cached, NoEntry
  <2> QED
    BY <2>1, <1>2
<1>4. CASE Completes
  <2>1. PICK v \in [Deps("listing") -> Int] \cup {None} : mem' = Counted(mem, v)
    BY <1>4 DEF Completes
  <2>2. "listing" \in Cached(mem)
    BY <1>4 DEF Completes
  <2>3. PICK e : e = [mem.entries["listing"] EXCEPT !.count = v]
    OBVIOUS
  <2>4. /\ e \in EntryRecords("listing") /\ e # None
        /\ e.val = mem.entries["listing"].val /\ e.late = mem.entries["listing"].late
    <3>1. mem.entries["listing"] \in EntryRecords("listing")
      BY <1>1, <2>2 DEF EntriesOK
    <3>2. e \in EntryRecords("listing") /\ e # None
      BY <3>1, <2>3, CountedEntryOK
    <3>3. e.val = mem.entries["listing"].val /\ e.late = mem.entries["listing"].late
      BY <3>1, <2>3 DEF EntryRecords
    <3> QED
      BY <3>2, <3>3
  <2>5. /\ Cached(mem') = Cached(mem)
        /\ \A k \in Keys : mem'.entries[k] = IF k = "listing" THEN e ELSE mem.entries[k]
    BY <1>1, <2>1, <2>2, <2>3, <2>4, CountedOK
  <2>6. ASSUME NEW k \in Cached(mem)
        PROVE  mem'.entries[k].val = mem.entries[k].val /\ mem'.entries[k].late = mem.entries[k].late
    BY <2>4, <2>5 DEF Cached
  <2>7. ASSUME NEW k \in Cached(mem')
        PROVE  FreshNext(k, mem'.entries[k].val, mem'.entries[k].late)
    <3>1. k \in Cached(mem)
      BY <2>5
    <3>2. FreshNext(k, mem.entries[k].val, mem.entries[k].late)
      BY <3>1, <1>2
    <3> QED
      BY <3>1, <3>2, <2>6, Zenon
  <2> QED
    BY <2>7
<1>5. CASE Inserts
  <2>1. PICK k \in Keys : \E v \in [Deps(k) -> Nat] : \E l \in BOOLEAN :
           Held(k, v, l) /\ mem' = Inserted(mem, k, NewEntry(v, l), conf)
    BY <1>5, Zenon DEF Inserts
  <2>2. PICK v \in [Deps(k) -> Nat], l \in BOOLEAN :
           Held(k, v, l) /\ mem' = Inserted(mem, k, NewEntry(v, l), conf)
    BY <2>1
  <2>3. PICK e : e = NewEntry(v, l)
    OBVIOUS
  <2>4. e # None
    BY <2>3, NewEntryOK
  <2>5. e.val = v /\ e.late = l
    BY <2>3 DEF NewEntry
  <2>6. /\ mem'.entries[k] = e
        /\ \A h \in Keys \ {k} : mem'.entries[h] \in {None, mem.entries[h]}
    <3>1. PICK c : c = conf
      OBVIOUS
    <3>2. /\ IndexesOK(Inserted(mem, k, e, c))
          /\ Cached(Inserted(mem, k, e, c))
                = (Cached(mem) \cap (Fitting(Ranked(mem, k, c), c) \ {k})) \cup {k}
          /\ Inserted(mem, k, e, c).entries[k] = e
          /\ \A h \in Keys \ {k} : Inserted(mem, k, e, c).entries[h] \in {None, mem.entries[h]}
      BY <1>1, <2>4, InsertedOK
    <3>3. mem' = Inserted(mem, k, e, c)
      BY <2>2, <2>3, <3>1
    <3> QED
      BY <3>2, <3>3, Zenon
  <2>7. FreshNext(k, v, l)
    BY <1>1, <2>2, HeldIsFresh, FreshCarries
  <2>8. ASSUME NEW h \in Cached(mem'), h # k
        PROVE  h \in Cached(mem) /\ mem'.entries[h] = mem.entries[h]
    BY <2>8, <2>6 DEF Cached, NoEntry
  <2> QED
    BY <2>5, <2>6, <2>7, <2>8, <1>2
<1>6. CASE mem' = mem
  BY <1>2, <1>6
<1> QED
  BY <1>3, <1>4, <1>5, <1>6, MemSteps

\* So does every answer that a session holds.
LEMMA AnswersFresh ==
    ASSUME EntriesInv, FreshInv, [Next]_vars, Announced, ~\E s \in Sessions : Invalidate(s)
    PROVE  \A s \in Sessions : sess'[s].pc \in Filling /\ sess'[s].val # None =>
              FreshNext(sess'[s].arg, sess'[s].val, sess'[s].late)
<1> SUFFICES ASSUME NEW s \in Sessions, sess'[s].pc \in Filling, sess'[s].val # None
             PROVE  FreshNext(sess'[s].arg, sess'[s].val, sess'[s].late)
  OBVIOUS
<1>1. CacheInv /\ ValueOK(sess[s]) /\ SessionShape(sess[s])
  BY DEF EntriesInv, ValuesOK, CacheInv, SessionsOK, SessionOK
<1>2. PICK x : x = sess[s]
  OBVIOUS
<1>3. PICK y : y = sess'[s]
  OBVIOUS
<1>4. CASE Holds(x, y)
  <2>1. x.pc \in Filling /\ x.val # None
    BY <1>3, <1>4 DEF Holds, Filling
  <2>2. FreshNext(x.arg, x.val, x.late)
    BY <1>2, <2>1, FreshCarries DEF FreshInv
  <2> QED
    BY <2>2, <1>3, <1>4 DEF Holds
<1>5. CASE Receives(x, y)
  <2>1. y.val = Answer(y.arg)
    BY <1>1, <1>2, <1>3, <1>5 DEF Receives, ValueOK
  <2> QED
    BY <2>1, <1>3, AnswerFresh
<1>6. CASE ReloadFlushes
  <2>1. sess' = Overtaken(Tags)
    BY <1>6 DEF ReloadFlushes
  <2>2. y = [x EXCEPT !.late = TRUE] \/ y = x
    BY <2>1, <1>2, <1>3 DEF Overtaken
  <2>3. CASE y = [x EXCEPT !.late = TRUE]
    <3>1. y.late
      BY <2>3, <1>1, <1>2 DEF SessionShape, Fields
    <3> QED
      BY <3>1, <1>3 DEF FreshNext
  <2>4. CASE y = x
    BY <2>4, <1>4 DEF Holds
  <2> QED
    BY <2>2, <2>3, <2>4
<1>7. CASE ~ReloadFlushes
  <2>1. Moves(x, y)
    BY <1>1, <1>2, <1>3, <1>7, MovesStep DEF AllMove
  <2>2. y.pc \in Filling
    BY <1>3
  <2> QED
    BY <2>1, <2>2, <1>4, <1>5 DEF Moves, Rests, Filling
<1> QED
  BY <1>6, <1>7

\* So does what the warmer holds.
LEMMA WarmerFresh ==
    ASSUME EntriesInv, FreshInv, [Next]_vars, Announced
    PROVE  warmer'.pc = "warm" => FreshNext("alloptions", warmer'.val, warmer'.late)
<1> SUFFICES ASSUME warmer'.pc = "warm"
             PROVE  FreshNext("alloptions", warmer'.val, warmer'.late)
  OBVIOUS
<1>1. WarmerOK
  BY DEF EntriesInv, CacheInv, RestOK
<1>2. PICK v : v = Answer("alloptions")
  OBVIOUS
<1>3. FreshNext("alloptions", v, warmer.late)
  BY <1>2, AnswerFresh
<1>4. warmer.pc = "warm" => FreshNext("alloptions", warmer.val, warmer.late)
  BY FreshCarries DEF FreshInv
<1>5. \/ warmer'.val = v /\ warmer'.late = warmer.late
      \/ /\ warmer.pc = "warm" /\ warmer'.val = warmer.val
         /\ warmer'.late = warmer.late \/ warmer'.late
  <2>1. \/ warmer' = warmer
        \/ \E T : warmer' = OvertakenWarmer(T)
        \/ warmer' = [warmer EXCEPT !.pending = TRUE]
        \/ warmer' = [warmer EXCEPT !.kick = TRUE]
        \/ warmer' = [warmer EXCEPT !.pc = "debounce", !.kick = FALSE]
        \/ \E l \in {"fetch", "sleep"} : warmer' = [warmer EXCEPT !.pc = l, !.pending = FALSE]
        \/ warmer' = [warmer EXCEPT !.pc = "warm", !.val = v]
        \/ warmer' = [warmer EXCEPT !.pc = "sleep"]
        \/ warmer' = [warmer EXCEPT !.pc = "sleep", !.val = None, !.late = FALSE]
    BY <1>2, WarmerSteps
  <2>2. ASSUME NEW T, warmer' = OvertakenWarmer(T)
        PROVE  warmer' = warmer \/ warmer' = [warmer EXCEPT !.late = TRUE]
    BY <2>2 DEF OvertakenWarmer
  <2> QED
    BY <2>1, <2>2, <1>1 DEF WarmerOK
<1>6. warmer'.late => FreshNext("alloptions", warmer'.val, warmer'.late)
  BY DEF FreshNext
<1> QED
  BY <1>3, <1>4, <1>5, <1>6

-----------------------------------------------------------------------------
(* Before the prefix is known *)

\* Once known, the prefix stays so.
LEMMA PrefixStays ==
    ASSUME PrefixShape, [Next]_vars
    PROVE  PrefixShape' /\ (prefix.known => prefix'.known)
<1>1. Detecting => prefix' = prefix \/ prefix' = [prefix EXCEPT !.detect = "running"]
  BY DEF Detecting
<1>2. ASSUME NEW s \in Sessions, Command(s)
      PROVE  prefix' = prefix \/ prefix' = [prefix EXCEPT !.detect = "running"]
  BY <1>1, <1>2 DEF Command, ReadAlone, LookupHit, LookupMiss, ListingHit, ListingMiss,
     CountKnown, CountAsked, ExecuteStmt, Disconnect, Write, Control
<1>3. ASSUME NEW s \in Sessions, Continue(s) \/ Answered(s)
      PROVE  prefix' = prefix \/ prefix' = [prefix EXCEPT !.detect = "running"]
  BY <1>1, <1>3 DEF Continue, Join, Lead, GiveUp, Publish, Forget, Store, StorePaired,
     Trigger, Kick, Invalidate, Answered, LeaderAnswered, AloneAnswered,
     ListingAnswered, PairFoundRows
<1>4. ASSUME WarmerStep \/ ReloadRules \/ ReloadStep \/ UNCHANGED vars PROVE prefix' = prefix
  BY <1>4 DEF WarmerStep, WarmerWakes, WarmerTakes, WarmerFetches, WarmerStores,
     ReloadRules, ReloadStep, ReloadBinds, ReloadFlushes, ReloadTriggers, ReloadConfigures, vars
<1>5. ASSUME DetectCompiles
      PROVE  \/ prefix' = [prefix EXCEPT !.detect = "compiled", !.draft = rules.raw]
             \/ prefix' = [prefix EXCEPT !.detect = "none"]
  BY <1>5 DEF DetectCompiles
<1>6. ASSUME DetectBinds PROVE prefix' = [known |-> TRUE, detect |-> "none", draft |-> FALSE]
  BY <1>6 DEF DetectBinds
<1>7. \/ prefix' = prefix
      \/ prefix' = [prefix EXCEPT !.detect = "running"]
      \/ prefix' = [prefix EXCEPT !.detect = "compiled", !.draft = rules.raw]
      \/ prefix' = [prefix EXCEPT !.detect = "none"]
      \/ prefix' = [known |-> TRUE, detect |-> "none", draft |-> FALSE]
  BY <1>2, <1>3, <1>4, <1>5, <1>6, Zenon DEF Next, DetectStep
<1>8. PrefixShape'
  BY <1>7 DEF PrefixShape
<1>9. CASE prefix' = [known |-> TRUE, detect |-> "none", draft |-> FALSE]
  BY <1>8, <1>9
<1>10. CASE prefix' # [known |-> TRUE, detect |-> "none", draft |-> FALSE]
  <2>1. prefix'.known = prefix.known
    BY <1>7, <1>10 DEF PrefixShape
  <2> QED
    BY <1>8, <2>1
<1> QED
  BY <1>9, <1>10

\* Without it a session reads alone, counts and writes; nothing else is there
\* to be done.
LEMMA SessionsDoze ==
    ASSUME CacheInv, Asleep, ~prefix.known, [Next]_vars
    PROVE  \A s \in Sessions : Dormant(sess'[s].pc)
<1> DEFINE Dozes(s) == \E y : sess' = [sess EXCEPT ![s] = y] /\ Dormant(y.pc)
<1>1. /\ sess = [s \in Sessions |-> sess[s]]
      /\ \A s \in Sessions : SessionShape(sess[s]) /\ Dormant(sess[s].pc)
  BY DEF CacheInv, SessionsOK, SessionOK, Asleep
<1>2. ASSUME NEW s \in Sessions
      PROVE  /\ SessionShape(Broken(sess[s])) /\ Broken(sess[s]).pc = sess[s].pc
             /\ SessionShape(Idle(sess[s])) /\ Idle(sess[s]).pc = "idle"
  BY <1>1, UpdatedFields
<1>3. ASSUME NEW s \in Sessions, Dozes(s) PROVE \A t \in Sessions : Dormant(sess'[t].pc)
  BY <1>1, <1>3
<1>4. ASSUME NEW x, SessionShape(x), NEW l PROVE [x EXCEPT !.pc = l].pc = l
  BY <1>4 DEF SessionShape, Fields
<1>5. ASSUME NEW s \in Sessions, Command(s) PROVE Dozes(s)
  <2> DEFINE b == Broken(sess[s])
  <2>1. SessionShape(b) /\ b.pc = sess[s].pc
    BY <1>2
  <2>2. CASE \E q \in Keys : ReadAlone(s, q)
    <3>1. PICK q \in Keys : sess' = [sess EXCEPT ![s] = [b EXCEPT !.pc = "alone", !.arg = q]]
      BY <2>2 DEF ReadAlone
    <3>2. [b EXCEPT !.pc = "alone", !.arg = q].pc = "alone"
      BY <2>1 DEF SessionShape, Fields
    <3> QED
      BY <3>1, <3>2, Zenon DEF Dormant
  <2>3. ~(\E q \in Keys : LookupHit(s, q) \/ LookupMiss(s, q)) /\ ~ListingHit(s) /\ ~ListingMiss(s)
    BY DEF LookupHit, LookupMiss, Looks, ListingHit, ListingMiss, Pairs, Ready
  <2>4. CASE CountKnown(s)
    <3>1. sess' = [sess EXCEPT ![s] = b]
      BY <2>4 DEF CountKnown
    <3>2. Dormant(b.pc)
      BY <1>1, <2>1
    <3> HIDE DEF b
    <3> QED
      BY <3>1, <3>2
  <2>5. CASE CountAsked(s)
    <3>1. sess' = [sess EXCEPT ![s] = [sess[s] EXCEPT !.pc = "count"]]
      BY <2>5 DEF CountAsked
    <3>2. [sess[s] EXCEPT !.pc = "count"].pc = "count"
      BY <1>1, <1>4
    <3> QED
      BY <3>1, <3>2, Zenon DEF Dormant
  <2>6. CASE \E w \in Writes : Write(s, w)
    <3>1. PICK w \in Writes : Write(s, w)
      BY <2>6
    <3> DEFINE y == Remembers(sess[s], w)
    <3>2. SessionShape(y) /\ y.pc = sess[s].pc
      <4>1. SessionShape(sess[s])
        BY <1>1
      <4>2. PICK x : x = sess[s]
        OBVIOUS
      <4>3. SessionShape(Remembers(x, w)) /\ Remembers(x, w).pc = x.pc
        BY <4>1, <4>2 DEF SessionShape, Fields, Remembers, Broken
      <4> QED
        BY <4>2, <4>3
    <3>3. sess' = [sess EXCEPT ![s] = IF sess[s].unsafe THEN y ELSE Observes(y, <<w>>)]
      BY <3>1 DEF Write, Remembers, Observes
    <3> HIDE DEF y
    <3>4. Observes(y, <<w>>).pc = "observe"
      BY <3>2 DEF SessionShape, Fields, Observes
    <3>5. Dormant(y.pc) /\ Dormant(Observes(y, <<w>>).pc)
      BY <1>1, <3>2, <3>4 DEF Dormant
    <3> QED
      BY <3>3, <3>5
  <2>7. CASE \E k \in Statements : Control(s, k)
    <3>1. PICK k \in Statements : Control(s, k)
      BY <2>7
    <3>2. PICK x : x = b
      OBVIOUS
    <3>3. SessionShape(x) /\ Dormant(x.pc)
      BY <1>1, <2>1, <3>2
    <3> DEFINE e == Ended(x)
               r == Replay(x)
               u == x.unsafe
    <3>4. sess' = [sess EXCEPT ![s] =
                     CASE k = "begin"          -> [x EXCEPT !.inTx = TRUE]
                       [] k = "restart"        -> [x EXCEPT !.dirty = {}]
                       [] k = "autocommit off" -> Unsafe(x)
                       [] k = "rollback" \/ (k = "commit" /\ r = <<>>) -> [e EXCEPT !.inTx = u]
                       [] OTHER -> Observes(e, r)]
      BY <3>1, <3>2, Zenon DEF Control, Ended, Unsafe, Observes
    <3>5. SessionShape(e) /\ e.pc = x.pc
      BY <3>3 DEF SessionShape, Fields, Ended
    <3> HIDE DEF e, r, u
    <3>6. /\ [x EXCEPT !.inTx = TRUE].pc = x.pc /\ [x EXCEPT !.dirty = {}].pc = x.pc
          /\ Unsafe(x).pc = x.pc /\ [e EXCEPT !.inTx = u].pc = x.pc
          /\ Observes(e, r).pc = "observe"
      BY <3>3, <3>5 DEF SessionShape, Fields, Unsafe, Observes
    <3> DEFINE a1 == [x EXCEPT !.inTx = TRUE]
               a2 == [x EXCEPT !.dirty = {}]
               a3 == Unsafe(x)
               a4 == [e EXCEPT !.inTx = u]
               a5 == Observes(e, r)
    <3>7. /\ Dormant(a1.pc) /\ Dormant(a2.pc) /\ Dormant(a3.pc) /\ Dormant(a4.pc)
          /\ Dormant(a5.pc)
      BY <3>3, <3>6 DEF Dormant
    <3>8. k \in {"begin", "restart", "autocommit off", "rollback", "commit"}
      BY <3>1 DEF Control
    <3>9. \/ sess' = [sess EXCEPT ![s] = a1] \/ sess' = [sess EXCEPT ![s] = a2]
          \/ sess' = [sess EXCEPT ![s] = a3] \/ sess' = [sess EXCEPT ![s] = a4]
          \/ sess' = [sess EXCEPT ![s] = a5]
      <4> HIDE DEF a1, a2, a3, a4, a5
      <4>1. sess' = [sess EXCEPT ![s] =
                     CASE k = "begin"          -> a1
                       [] k = "restart"        -> a2
                       [] k = "autocommit off" -> a3
                       [] k = "rollback" \/ (k = "commit" /\ r = <<>>) -> a4
                       [] OTHER -> a5]
        BY <3>4 DEF a1, a2, a3, a4, a5
      <4> QED
        BY <3>8, <4>1
    <3> HIDE DEF a1, a2, a3, a4, a5
    <3> QED
      BY <3>7, <3>9
  <2>8. CASE ExecuteStmt(s)
    <3>1. PICK c : sess' = [sess EXCEPT ![s] = [sess[s] EXCEPT !.calc = c]]
      BY <2>8 DEF ExecuteStmt
    <3>2. [sess[s] EXCEPT !.calc = c].pc = sess[s].pc
      BY <1>1 DEF SessionShape, Fields
    <3>3. Dormant([sess[s] EXCEPT !.calc = c].pc)
      BY <1>1, <3>2
    <3> QED
      BY <3>1, <3>3, Zenon
  <2>9. CASE Disconnect(s)
    <3>1. sess' = [sess EXCEPT ![s] = NewSession]
      BY <2>9 DEF Disconnect
    <3>2. Dormant(NewSession.pc)
      BY DEF NewSession, Dormant
    <3> QED
      BY <3>1, <3>2
  <2> QED
    BY <1>5, <2>2, <2>3, <2>4, <2>5, <2>6, <2>7, <2>8, <2>9 DEF Command
<1>6. ASSUME NEW s \in Sessions, Continue(s) PROVE \A t \in Sessions : Dormant(sess'[t].pc)
  <2>1. Invalidate(s)
    BY <1>1, <1>6 DEF Continue, Join, Lead, GiveUp, Publish, Forget, Store, StorePaired,
       Trigger, Kick, Dormant
  <2>2. PICK x : x = WithoutHead(sess[s])
    OBVIOUS
  <2>3. SessionShape(x)
    BY <1>1, <2>2 DEF SessionShape, Fields, WithoutHead
  <2>4. PICK g : /\ sess' = [g EXCEPT ![s] = Proceeds(x, FALSE)]
                 /\ g = [t \in Sessions |-> g[t]]
                 /\ \A t \in Sessions : g[t] = sess[t]
    <3>1. ~learned
      BY DEF Asleep
    <3>2. PICK w : w = Head(sess[s].todo)
      OBVIOUS
    <3>3. \/ sess' = [sess EXCEPT ![s] = Proceeds(x, FALSE)]
          \/ sess' = [Overtaken(Dropped(w)) EXCEPT ![s] = Proceeds(x, Warmup /\ learned /\ HitsAutoload(w))]
      BY <2>1, <2>2, <3>2 DEF Invalidate, WithoutHead
    <3>4. (Warmup /\ learned /\ HitsAutoload(w)) <=> FALSE
      BY <3>1
    <3>5. Proceeds(x, Warmup /\ learned /\ HitsAutoload(w)) = Proceeds(x, FALSE)
      BY <3>4 DEF Proceeds
    <3>6. /\ Overtaken(Dropped(w)) = [t \in Sessions |-> Overtaken(Dropped(w))[t]]
          /\ \A t \in Sessions : Overtaken(Dropped(w))[t] = sess[t]
      BY <1>1 DEF Overtaken, Dormant, Filling
    <3> QED
      BY <3>3, <3>5, <3>6, <1>1
  <2>5. Dormant(Proceeds(x, FALSE).pc)
    <3>1. Proceeds(x, FALSE) \in {Idle(x), [x EXCEPT !.pc = "observe"]}
      BY DEF Proceeds
    <3>2. Idle(x).pc = "idle"
      BY <2>3, UpdatedFields
    <3>3. [x EXCEPT !.pc = "observe"].pc = "observe"
      BY <2>3, <1>4
    <3> QED
      BY <3>1, <3>2, <3>3, Zenon DEF Dormant
  <2> QED
    BY <2>4, <2>5, <1>1
<1>7. ASSUME NEW s \in Sessions, Answered(s) PROVE Dozes(s)
  <2>1. AloneAnswered(s) \/ PairFoundRows(s)
    BY <1>1, <1>7 DEF Answered, LeaderAnswered, ListingAnswered, Dormant
  <2>2. CASE AloneAnswered(s)
    BY <2>2, <1>2 DEF AloneAnswered, Dormant
  <2>3. CASE PairFoundRows(s)
    <3>1. PICK b : b = Broken(sess[s])
      OBVIOUS
    <3>2. sess' = [sess EXCEPT ![s] = [b EXCEPT !.pc = "idle"]]
      BY <2>3, <3>1 DEF PairFoundRows
    <3>3. [b EXCEPT !.pc = "idle"].pc = "idle"
      BY <1>2, <1>4, <3>1
    <3> QED
      BY <3>2, <3>3, Zenon DEF Dormant
  <2> QED
    BY <2>1, <2>2, <2>3
<1>8. CASE WarmerStep \/ DetectStep \/ ReloadRules \/ ReloadStep \/ UNCHANGED vars
  <2>1. sess' = sess \/ sess' = Overtaken(Tags)
    BY <1>8 DEF WarmerStep, WarmerWakes, WarmerTakes, WarmerFetches, WarmerStores,
           DetectStep, DetectCompiles, DetectBinds, ReloadRules, ReloadStep,
           ReloadBinds, ReloadTriggers, ReloadConfigures, ReloadFlushes, vars
  <2>2. \A t \in Sessions : Overtaken(Tags)[t] = sess[t]
    BY <1>1 DEF Overtaken, Dormant, Filling
  <2> QED
    BY <1>1, <2>1, <2>2
<1> HIDE DEF Dozes
<1> QED
  BY <1>3, <1>5, <1>6, <1>7, <1>8 DEF Next

\* So nothing is cached, nor about to be, until it is known.
LEMMA AsleepStep ==
    ASSUME EntriesInv, Asleep, ~prefix.known, [Next]_vars
    PROVE  Asleep'
<1>1. /\ Cached(mem) = {} /\ ~learned /\ warmer.pc = "sleep" /\ ~warmer.kick
      /\ admin.pc \notin {"trigger", "kick"}
      /\ \A s \in Sessions : Dormant(sess[s].pc)
  BY DEF Asleep
<1>2. CacheInv /\ AdminOK
  BY DEF EntriesInv, CacheInv, RestOK
<1>3. Cached(mem') = {}
  <2>1. CASE Shrinks
    BY <1>1, <2>1 DEF Shrinks, Cached, NoEntry
  <2>2. ~Completes
    BY <1>1 DEF Completes
  <2>3. ~Inserts
    BY <1>1, Zenon DEF Inserts, Held, Dormant
  <2>4. CASE mem' = mem
    BY <1>1, <2>4
  <2> QED
    BY <2>1, <2>2, <2>3, <2>4, MemSteps
<1>4. ~learned'
  <2>1. ASSUME NEW s \in Sessions, Command(s) PROVE learned' = learned
    BY <2>1 DEF Command, ReadAlone, LookupHit, LookupMiss, ListingHit, ListingMiss,
       CountKnown, CountAsked, ExecuteStmt, Disconnect, Write, Control
  <2>2. ASSUME NEW s \in Sessions, Continue(s) \/ Answered(s) PROVE learned' = learned
    <3>1. ~Store(s) /\ ~StorePaired(s)
      BY <1>1 DEF Store, StorePaired, Dormant
    <3> QED
      BY <2>2, <3>1 DEF Continue, Join, Lead, GiveUp, Publish, Forget, Trigger, Kick,
         Invalidate, Answered, LeaderAnswered, AloneAnswered, ListingAnswered, PairFoundRows
  <2>3. ASSUME WarmerStep \/ DetectStep \/ ReloadRules \/ ReloadStep \/ UNCHANGED vars
        PROVE  learned' = learned
    <3>1. ~WarmerStores
      BY <1>1 DEF WarmerStores
    <3> QED
      BY <2>3, <3>1 DEF WarmerStep, WarmerWakes, WarmerTakes, WarmerFetches, DetectStep,
         DetectCompiles, DetectBinds, ReloadRules, ReloadStep, ReloadBinds, ReloadFlushes,
         ReloadTriggers, ReloadConfigures, vars
  <2> QED
    BY <1>1, <2>1, <2>2, <2>3 DEF Next
<1>5. \A s \in Sessions : Dormant(sess'[s].pc)
  BY <1>2, SessionsDoze
<1>6. warmer' = warmer
  <2>1. ASSUME NEW s \in Sessions, Command(s) PROVE warmer' = warmer
    BY <2>1 DEF Command, ReadAlone, LookupHit, LookupMiss, ListingHit, ListingMiss,
       CountKnown, CountAsked, ExecuteStmt, Disconnect, Write, Control
  <2>2. ASSUME NEW s \in Sessions, Continue(s) \/ Answered(s) PROVE warmer' = warmer
    <3>1. ~Trigger(s) /\ ~Kick(s)
      BY <1>1 DEF Trigger, Kick, Dormant
    <3>2. Invalidate(s) => warmer' = warmer
      BY <1>1 DEF Invalidate, OvertakenWarmer
    <3> QED
      BY <2>2, <3>1, <3>2 DEF Continue, Join, Lead, GiveUp, Publish, Forget, Store, StorePaired,
         Answered, LeaderAnswered, AloneAnswered, ListingAnswered, PairFoundRows
  <2>3. ASSUME WarmerStep \/ DetectStep \/ ReloadRules \/ ReloadStep \/ UNCHANGED vars
        PROVE  warmer' = warmer
    <3>1. ~WarmerStep /\ ~ReloadTriggers
      BY <1>1 DEF WarmerStep, WarmerWakes, WarmerTakes, WarmerFetches, WarmerStores, ReloadTriggers
    <3>2. ReloadFlushes => warmer' = warmer
      BY <1>1 DEF ReloadFlushes, OvertakenWarmer
    <3> QED
      BY <2>3, <3>1, <3>2 DEF DetectStep, DetectCompiles, DetectBinds, ReloadRules, ReloadStep,
         ReloadBinds, ReloadConfigures, vars
  <2> QED
    BY <2>1, <2>2, <2>3 DEF Next
<1>7. admin'.pc \notin {"trigger", "kick"}
  <2>1. ASSUME NEW s \in Sessions, Command(s) PROVE admin' = admin
    BY <2>1 DEF Command, ReadAlone, LookupHit, LookupMiss, ListingHit, ListingMiss,
       CountKnown, CountAsked, ExecuteStmt, Disconnect, Write, Control
  <2>2. ASSUME NEW s \in Sessions, Continue(s) \/ Answered(s) PROVE admin' = admin
    BY <2>2 DEF Continue, Join, Lead, GiveUp, Publish, Forget, Store, StorePaired, Trigger,
       Kick, Invalidate, Answered, LeaderAnswered, AloneAnswered, ListingAnswered, PairFoundRows
  <2>3. ASSUME WarmerStep \/ DetectStep \/ UNCHANGED vars PROVE admin' = admin
    BY <2>3 DEF WarmerStep, WarmerWakes, WarmerTakes, WarmerFetches, WarmerStores, DetectStep,
       DetectCompiles, DetectBinds, vars
  <2>4. ASSUME ReloadRules PROVE admin'.pc = "bind"
    BY <2>4 DEF ReloadRules
  <2>5. ASSUME NEW l, admin' = [admin EXCEPT !.pc = l] PROVE admin'.pc = l
    BY <1>2, <2>5 DEF AdminOK
  <2>6. ASSUME ReloadStep PROVE admin'.pc \in {"flush", "config", "idle"}
    <3>1. ~ReloadTriggers
      BY <1>1 DEF ReloadTriggers
    <3>2. ReloadBinds => admin'.pc = "flush"
      BY <2>5 DEF ReloadBinds
    <3>3. ReloadFlushes => admin'.pc = "config"
      BY <1>1, <2>5 DEF ReloadFlushes
    <3>4. ReloadConfigures => admin'.pc = "idle"
      BY <2>5 DEF ReloadConfigures
    <3> QED
      BY <2>6, <3>1, <3>2, <3>3, <3>4 DEF ReloadStep
  <2> QED
    BY <1>1, <2>1, <2>2, <2>3, <2>4, <2>6 DEF Next
<1> QED
  BY <1>1, <1>3, <1>4, <1>5, <1>6, <1>7 DEF Asleep

-----------------------------------------------------------------------------
(* An invalidation *)

\* A list and its rest.
LEMMA HeadAndTail ==
    ASSUME NEW S, NEW l \in Seq(S), l # <<>>
    PROVE  Head(l) \in S /\ Tail(l) \in Seq(S) /\ ToSet(l) = {Head(l)} \cup ToSet(Tail(l))
<1>1. Head(l) \in S /\ Tail(l) \in Seq(S)
  OBVIOUS
<1>2. ASSUME NEW x \in ToSet(l) PROVE x \in {Head(l)} \cup ToSet(Tail(l))
  <2>1. PICK i \in DOMAIN l : x = l[i]
    BY <1>2 DEF ToSet
  <2>2. CASE i = 1
    BY <2>1, <2>2
  <2>3. CASE i # 1
    <3>1. i - 1 \in DOMAIN Tail(l) /\ Tail(l)[i - 1] = l[i]
      BY <2>1, <2>3
    <3> QED
      BY <2>1, <3>1 DEF ToSet
  <2> QED
    BY <2>2, <2>3
<1>3. ASSUME NEW x \in ToSet(Tail(l)) PROVE x \in ToSet(l)
  <2>1. PICK i \in DOMAIN Tail(l) : x = Tail(l)[i]
    BY <1>3 DEF ToSet
  <2>2. i + 1 \in DOMAIN l /\ Tail(l)[i] = l[i + 1]
    BY <2>1
  <2> QED
    BY <2>1, <2>2 DEF ToSet
<1>4. Head(l) \in ToSet(l)
  <2>1. 1 \in DOMAIN l /\ Head(l) = l[1]
    OBVIOUS
  <2> QED
    BY <2>1 DEF ToSet
<1> QED
  BY <1>1, <1>2, <1>3, <1>4

\* An invalidation: the session that does it has a write w less to invalidate,
\* and goes on as y; the answers and the entries with the tags T are overtaken
\* and dropped, unless the prefix is unknown.
Invalidates(s, w, y, T) ==
    /\ sess[s].todo \in Seq(Sent) /\ sess[s].todo # <<>>
    /\ w = Head(sess[s].todo) /\ ver' = ver
    /\ sess' = [Overtaken(T) EXCEPT ![s] = y]
    /\ Dormant(y.pc) \/ y.pc = "trigger"
    /\ Steady(WithoutHead(sess[s]), y)
    /\ \/ /\ ~prefix.known
       \/ /\ T = Dropped(w) /\ mem' = DropTags(mem, T)
          /\ warmer' = OvertakenWarmer(T)

\* It is what Invalidate does.
LEMMA InvalidateShape ==
    ASSUME CacheInv, FreshInv, NEW s \in Sessions, Invalidate(s)
    PROVE  \E w \in Sent : \E y, T : Invalidates(s, w, y, T)
<1> DEFINE w == Head(sess[s].todo)
<1>1. sess[s].pc = "observe" /\ ver' = ver
  BY DEF Invalidate
<1>2. SessionOK(sess[s]) /\ SessionShape(sess[s]) /\ TxOK(sess[s]) /\ sess[s].todo # <<>>
  BY <1>1 DEF CacheInv, SessionsOK, SessionOK, FreshInv
<1>3. w \in Sent /\ sess[s].todo \in Seq(Sent)
  BY <1>2, HeadAndTail DEF TxOK
<1>4. PICK x : x = WithoutHead(sess[s])
  OBVIOUS
<1>5. SessionShape(x)
  BY <1>2, <1>4 DEF SessionShape, Fields, WithoutHead
<1>6. ASSUME NEW r PROVE /\ Dormant(Proceeds(x, r).pc) \/ Proceeds(x, r).pc = "trigger"
                         /\ Steady(x, Proceeds(x, r))
  <2>1. Idle(x).pc = "idle"
    BY <1>5, UpdatedFields
  <2>2. \A l : [x EXCEPT !.pc = l].pc = l
    BY <1>5 DEF SessionShape, Fields
  <2>3. \/ Proceeds(x, r) = Idle(x) \/ Proceeds(x, r) = [x EXCEPT !.pc = "trigger"]
        \/ Proceeds(x, r) = [x EXCEPT !.pc = "observe"]
    BY DEF Proceeds
  <2>4. Dormant(Proceeds(x, r).pc) \/ Proceeds(x, r).pc = "trigger"
    BY <2>1, <2>2, <2>3, Zenon DEF Dormant
  <2> QED
    BY <2>4, <1>5, ProceedsSteady
<1>7. Overtaken({}) = sess
  <2>1. sess = [t \in Sessions |-> sess[t]]
    BY DEF CacheInv, SessionsOK
  <2>2. Overtaken({}) = [t \in Sessions |-> sess[t]]
    BY DEF Overtaken
  <2> QED
    BY <2>1, <2>2
<1>8. \/ ~prefix.known /\ sess' = [sess EXCEPT ![s] = Proceeds(x, FALSE)]
      \/ /\ mem' = DropTags(mem, Dropped(w)) /\ warmer' = OvertakenWarmer(Dropped(w))
         /\ \E r : sess' = [Overtaken(Dropped(w)) EXCEPT ![s] = Proceeds(x, r)]
  BY <1>4, Zenon DEF Invalidate, WithoutHead, Ready
<1> HIDE DEF w
<1>9. CASE ~prefix.known /\ sess' = [sess EXCEPT ![s] = Proceeds(x, FALSE)]
  <2>1. PICK y : y = Proceeds(x, FALSE)
    OBVIOUS
  <2>2. sess' = [Overtaken({}) EXCEPT ![s] = y]
    BY <1>7, <1>9, <2>1
  <2>3. (Dormant(y.pc) \/ y.pc = "trigger") /\ Steady(WithoutHead(sess[s]), y)
    BY <1>4, <1>6, <2>1
  <2> QED
    BY <1>1, <1>2, <1>3, <1>9, <2>2, <2>3, Zenon DEF w, Invalidates
<1>10. CASE /\ mem' = DropTags(mem, Dropped(w)) /\ warmer' = OvertakenWarmer(Dropped(w))
            /\ \E r : sess' = [Overtaken(Dropped(w)) EXCEPT ![s] = Proceeds(x, r)]
  <2>1. PICK r : sess' = [Overtaken(Dropped(w)) EXCEPT ![s] = Proceeds(x, r)]
    BY <1>10
  <2>2. PICK y : y = Proceeds(x, r)
    OBVIOUS
  <2>3. (Dormant(y.pc) \/ y.pc = "trigger") /\ Steady(WithoutHead(sess[s]), y)
    BY <1>4, <1>6, <2>2
  <2>4. sess' = [Overtaken(Dropped(w)) EXCEPT ![s] = y]
    BY <2>1, <2>2
  <2> QED
    BY <1>1, <1>2, <1>3, <1>10, <2>3, <2>4, Zenon DEF w, Invalidates
<1> QED
  BY <1>8, <1>9, <1>10

\* What reads nothing that a write changes is as fresh after the write has
\* been invalidated as before.
LEMMA UntouchedStaysFresh ==
    ASSUME CacheInv, NEW s \in Sessions, NEW w, NEW T, NEW y,
           sess[s].todo \in Seq(Sent), sess[s].todo # <<>>, w = Head(sess[s].todo),
           ver' = ver, sess' = [Overtaken(T) EXCEPT ![s] = y], Steady(WithoutHead(sess[s]), y),
           NEW k, NEW v, NEW l, Fresh(k, v, l), \A o \in Deps(k) : o \notin Touches(w)
    PROVE  FreshNext(k, v, l)
<1>1. \A t \in Sessions : SessionShape(sess[t])
  BY DEF CacheInv, SessionsOK, SessionOK
<1>2. y.todo = Tail(sess[s].todo)
  BY <1>1 DEF Steady, WithoutHead, SessionShape, Fields
<1>3. ToSet(sess[s].todo) = {w} \cup ToSet(y.todo)
  BY <1>2, HeadAndTail
<1>4. /\ sess'[s] = y
      /\ \A t \in Sessions \ {s} : sess'[t].todo = sess[t].todo
  <2>1. Overtaken(T) = [t \in Sessions |-> Overtaken(T)[t]]
    BY DEF Overtaken
  <2>2. \A t \in Sessions : Overtaken(T)[t].todo = sess[t].todo
    BY OvertakenSteady DEF Steady
  <2>3. \A t \in Sessions : sess'[t] = IF t = s THEN y ELSE Overtaken(T)[t]
    BY <2>1
  <2> QED
    BY <2>2, <2>3
<1>5. ASSUME NEW o \in Deps(k), Unobserved(o) PROVE Unobserved(o)'
  <2>1. PICK t \in Sessions : \E u \in ToSet(sess[t].todo) : o \in Touches(u)
    BY <1>5 DEF Unobserved
  <2>2. PICK u \in ToSet(sess[t].todo) : o \in Touches(u)
    BY <2>1
  <2>3. u \in ToSet(sess'[t].todo)
    <3>1. CASE t = s
      <4>1. u # w
        BY <2>2
      <4> QED
        BY <3>1, <4>1, <2>2, <1>3, <1>4
    <3>2. CASE t # s
      BY <3>2, <2>2, <1>4
    <3> QED
      BY <3>1, <3>2
  <2> QED
    BY <2>2, <2>3 DEF Unobserved
<1> QED
  BY <1>5 DEF Fresh, FreshNext

\* An invalidation leaves what is fresh, and what the sessions have written.
LEMMA InvalidateFresh ==
    ASSUME Tame, EntriesInv, FreshInv, prefix.known, NEW s \in Sessions, Invalidate(s)
    PROVE  /\ \A k \in Cached(mem') : FreshNext(k, mem'.entries[k].val, mem'.entries[k].late)
           /\ \A t \in Sessions : sess'[t].pc \in Filling /\ sess'[t].val # None =>
                 FreshNext(sess'[t].arg, sess'[t].val, sess'[t].late)
           /\ warmer'.pc = "warm" => FreshNext("alloptions", warmer'.val, warmer'.late)
<1>1. /\ CacheInv /\ IndexesOK(mem) /\ WarmerOK
      /\ \A t \in Sessions : SessionOK(sess[t]) /\ ValueOK(sess[t]) /\ SessionShape(sess[t])
  BY DEF EntriesInv, CacheInv, SessionsOK, SessionOK, MemOK, ValuesOK, RestOK
<1>2. PICK w \in Sent : \E y, T : Invalidates(s, w, y, T)
  BY <1>1, InvalidateShape
<1>3. PICK y, T : /\ sess[s].todo \in Seq(Sent) /\ sess[s].todo # <<>>
                  /\ w = Head(sess[s].todo) /\ ver' = ver
                  /\ sess' = [Overtaken(T) EXCEPT ![s] = y]
                  /\ Dormant(y.pc) \/ y.pc = "trigger"
                  /\ Steady(WithoutHead(sess[s]), y)
                  /\ T = Dropped(w) /\ mem' = DropTags(mem, T)
                  /\ warmer' = OvertakenWarmer(T)
  BY <1>2 DEF Invalidates
<1>4. T \in SUBSET Tags
  BY <1>3, DroppedAreTags
<1>5. ASSUME NEW k \in Keys, TagsOf(k) \cap T = {}, NEW v, NEW l, Fresh(k, v, l)
      PROVE  FreshNext(k, v, l)
  <2>1. \A o \in Deps(k) : o \notin Touches(w)
    BY <1>3, <1>5, WritesReachEntries
  <2> QED
    BY <1>1, <1>3, <1>5, <2>1, UntouchedStaysFresh
<1>6. ASSUME NEW k \in Cached(mem')
      PROVE  FreshNext(k, mem'.entries[k].val, mem'.entries[k].late)
  <2>1. PICK K : K = UNION {mem.byTag[t] : t \in T}
    OBVIOUS
  <2>2. K \in SUBSET Cached(mem) /\ \A h \in Cached(mem) : TagsOf(h) \cap T # {} => h \in K
    <3>1. \A g \in T : mem.byTag[g] = {h \in Cached(mem) : g \in TagsOf(h)}
      BY <1>1, <1>4 DEF IndexesOK
    <3>2. K \in SUBSET Cached(mem)
      BY <2>1, <3>1
    <3>3. ASSUME NEW h \in Cached(mem), NEW g \in TagsOf(h) \cap T PROVE h \in K
      BY <2>1, <3>1, <3>3
    <3> QED
      BY <3>2, <3>3
  <2>3. mem' = Removed(mem, K)
    BY <1>3, <2>1, Zenon DEF DropTags
  <2>4. /\ Cached(mem') = Cached(mem) \ K
        /\ \A h \in Keys : mem'.entries[h] = IF h \in K THEN None ELSE mem.entries[h]
    BY <1>1, <2>2, <2>3, RemovedOK
  <2>5. k \in Cached(mem) /\ k \in Keys /\ mem'.entries[k] = mem.entries[k] /\ TagsOf(k) \cap T = {}
    BY <2>2, <2>4 DEF Cached
  <2>6. Fresh(k, mem.entries[k].val, mem.entries[k].late)
    BY <2>5 DEF FreshInv
  <2>7. FreshNext(k, mem.entries[k].val, mem.entries[k].late)
    BY <1>5, <2>5, <2>6
  <2> QED
    BY <2>5, <2>7, Zenon
<1>7. ASSUME NEW t \in Sessions, sess'[t].pc \in Filling, sess'[t].val # None
      PROVE  FreshNext(sess'[t].arg, sess'[t].val, sess'[t].late)
  <2>1. Overtaken(T) = [u \in Sessions |-> Overtaken(T)[u]]
    BY DEF Overtaken
  <2>2. sess'[t] = IF t = s THEN y ELSE Overtaken(T)[t]
    BY <1>3, <2>1
  <2>3. ~(Dormant(y.pc) \/ y.pc = "trigger") \/ y.pc \notin Filling
    BY DEF Dormant, Filling
  <2>4. sess'[t] = Overtaken(T)[t]
    BY <1>3, <1>7, <2>2, <2>3
  <2>5. PICK x : x = sess[t]
    OBVIOUS
  <2>6. Overtaken(T)[t] = IF x.pc \in Filling /\ TagsOf(x.arg) \cap T # {}
                          THEN [x EXCEPT !.late = TRUE] ELSE x
    BY <2>5 DEF Overtaken
  <2>7. CASE x.pc \in Filling /\ TagsOf(x.arg) \cap T # {}
    <3>1. sess'[t].late
      BY <2>4, <2>5, <2>6, <2>7, <1>1 DEF SessionShape, Fields
    <3> QED
      BY <3>1 DEF FreshNext
  <2>8. CASE ~(x.pc \in Filling /\ TagsOf(x.arg) \cap T # {})
    <3>1. sess'[t] = x
      BY <2>4, <2>6, <2>8
    <3>2. x.pc \in Filling /\ x.val # None /\ TagsOf(x.arg) \cap T = {}
      BY <1>7, <2>8, <3>1
    <3>3. x.arg \in Keys
      BY <1>1, <2>5, <3>2 DEF SessionOK, ValueOK, Filling, Fetching, Keys
    <3>4. Fresh(x.arg, x.val, x.late)
      BY <2>5, <3>2 DEF FreshInv
    <3> QED
      BY <1>5, <3>1, <3>2, <3>3, <3>4
  <2> QED
    BY <2>7, <2>8
<1>8. ASSUME warmer'.pc = "warm" PROVE FreshNext("alloptions", warmer'.val, warmer'.late)
  <2>1. CASE warmer.pc = "warm" /\ TagsOf("alloptions") \cap T # {}
    <3>1. warmer'.late
      BY <1>1, <1>3, <2>1 DEF OvertakenWarmer, WarmerOK
    <3> QED
      BY <3>1 DEF FreshNext
  <2>2. CASE ~(warmer.pc = "warm" /\ TagsOf("alloptions") \cap T # {})
    <3>1. warmer' = warmer
      BY <1>3, <2>2 DEF OvertakenWarmer
    <3>2. Fresh("alloptions", warmer.val, warmer.late) /\ "alloptions" \in Keys
      BY <1>8, <3>1 DEF FreshInv, Keys
    <3>3. FreshNext("alloptions", warmer.val, warmer.late)
      BY <1>5, <1>8, <2>2, <3>1, <3>2
    <3> QED
      BY <3>1, <3>3
  <2> QED
    BY <2>1, <2>2
<1> QED
  BY <1>6, <1>7, <1>8

\* The transactions are as they were, in it.
LEMMA InvalidateTx ==
    ASSUME CacheInv, FreshInv, NEW s \in Sessions, Invalidate(s)
    PROVE  AllTxOK
<1>1. \A t \in Sessions : SessionShape(sess[t]) /\ TxOK(sess[t])
  BY DEF CacheInv, SessionsOK, SessionOK, FreshInv
<1>2. PICK w \in Sent : \E y, T : Invalidates(s, w, y, T)
  BY InvalidateShape
<1>3. PICK y, T : /\ sess[s].todo \in Seq(Sent) /\ sess[s].todo # <<>>
                  /\ sess' = [Overtaken(T) EXCEPT ![s] = y]
                  /\ Steady(WithoutHead(sess[s]), y)
  BY <1>2 DEF Invalidates
<1>4. PICK x : x = WithoutHead(sess[s])
  OBVIOUS
<1>5. /\ x.unsafe = sess[s].unsafe /\ x.todo = Tail(sess[s].todo) /\ x.dirty = sess[s].dirty
      /\ x.txWrites = sess[s].txWrites /\ x.overflow = sess[s].overflow
  BY <1>1, <1>4 DEF SessionShape, Fields, WithoutHead
<1>6. x.todo \in Seq(Sent)
  BY <1>3, <1>5, HeadAndTail
<1>7. TxOK(y)
  BY <1>1, <1>3, <1>4, <1>5, <1>6 DEF Steady, TxOK
<1>8. \A t \in Sessions : TxOK(Overtaken(T)[t])
  BY <1>1, OvertakenSteady DEF Steady, TxOK
<1>9. Overtaken(T) = [u \in Sessions |-> Overtaken(T)[u]]
  BY DEF Overtaken
<1>10. \A t \in Sessions : sess'[t] = IF t = s THEN y ELSE Overtaken(T)[t]
  BY <1>3, <1>9
<1> QED
  BY <1>7, <1>8, <1>10 DEF AllTxOK

-----------------------------------------------------------------------------
(* The invariant of freshness *)

\* At first there is nothing to be stale, ...
LEMMA FreshInit == Init => FreshInv
<1> SUFFICES ASSUME Init PROVE FreshInv
  OBVIOUS
<1>1. Cached(mem) = {}
  BY DEF Init, EmptyMem, Cached, NoEntry
<1>2. \A s \in Sessions : sess[s] = NewSession
  BY DEF Init
<1>3. TxOK(NewSession) /\ Dormant(NewSession.pc) /\ NewSession.pc \notin Filling
  BY DEF TxOK, NewSession, Dormant, Filling
<1>4. ~learned /\ warmer.pc = "sleep" /\ ~warmer.kick /\ admin.pc = "idle"
  BY DEF Init
<1>5. Asleep
  BY <1>1, <1>2, <1>3, <1>4 DEF Asleep
<1>6. PrefixShape
  BY DEF Init, PrefixShape
<1> QED
  BY <1>1, <1>2, <1>3, <1>4, <1>5, <1>6 DEF FreshInv

\* ... and every step keeps it so.
LEMMA FreshStep ==
    ASSUME Tame, EntriesInv, FreshInv, [Next]_vars
    PROVE  FreshInv'
<1>1. CacheInv /\ PrefixShape
  BY DEF EntriesInv, FreshInv
<1>2. PrefixShape' /\ (prefix.known => prefix'.known)
  BY <1>1, PrefixStays
<1>3. ~prefix'.known => Asleep'
  BY <1>2, AsleepStep DEF FreshInv
<1>4. AllTxOK
  BY <1>1, AnnounceStep, InvalidateTx
<1>5. /\ \A k \in Cached(mem') : FreshNext(k, mem'.entries[k].val, mem'.entries[k].late)
      /\ \A t \in Sessions : sess'[t].pc \in Filling /\ sess'[t].val # None =>
            FreshNext(sess'[t].arg, sess'[t].val, sess'[t].late)
      /\ warmer'.pc = "warm" => FreshNext("alloptions", warmer'.val, warmer'.late)
  <2>1. CASE ~\E s \in Sessions : Invalidate(s)
    <3>1. Announced
      BY <1>1, <2>1, AnnounceStep
    <3> QED
      BY <2>1, <3>1, EntriesFresh, AnswersFresh, WarmerFresh
  <2>2. CASE (\E s \in Sessions : Invalidate(s)) /\ prefix.known
    BY <2>2, InvalidateFresh
  <2>3. CASE ~prefix.known
    <3>1. CASE ~prefix'.known
      <4>1. /\ Cached(mem') = {} /\ warmer'.pc = "sleep"
            /\ \A t \in Sessions : Dormant(sess'[t].pc)
        BY <3>1, <1>3 DEF Asleep
      <4> QED
        BY <4>1 DEF Dormant, Filling
    <3>2. CASE prefix'.known /\ \E s \in Sessions : Invalidate(s)
      <4>1. prefix' = prefix \/ prefix' = [prefix EXCEPT !.detect = "running"]
        BY <3>2 DEF Invalidate, Detecting
      <4> QED
        BY <4>1, <3>2, <2>3, <1>1 DEF PrefixShape
    <3> QED
      BY <3>1, <3>2, <2>1
  <2> QED
    BY <2>1, <2>2, <2>3
<1>6. /\ \A k \in Cached(mem') : Fresh(k, mem.entries[k].val, mem.entries[k].late)'
      /\ \A t \in Sessions : sess'[t].pc \in Filling /\ sess'[t].val # None =>
            Fresh(sess[t].arg, sess[t].val, sess[t].late)'
      /\ warmer'.pc = "warm" => Fresh("alloptions", warmer.val, warmer.late)'
  BY <1>5 DEF Fresh, FreshNext
<1> QED
  BY <1>2, <1>3, <1>4, <1>6 DEF FreshInv, AllTxOK

\* An entry can only be older than the database because its fill was overtaken
\* by an invalidation, or for as long as a write has yet to be observed
\* (cache.go:12), whatever reads, writes, transactions, the warmer, the
\* detection of the prefix and reloads do meanwhile.  The exceptions are
\* those that Tame names: sessions without autocommit write past the cache, a
\* BEGIN commits unseen, and the tags of a named transient are not those of an
\* autoloaded row.
THEOREM StaleOnlyByOvertaking == Tame => (Spec => []StaleOnlyIfOvertaken)
<1>1. StaleInv => StaleOnlyIfOvertaken
  BY DEF StaleInv, FreshInv, Fresh, StaleOnlyIfOvertaken, Outdated
<1>2. Init => StaleInv
  BY EntriesInit, FreshInit DEF StaleInv
<1>3. ASSUME Tame PROVE StaleInv /\ [Next]_vars => StaleInv'
  BY <1>3, EntriesStep, FreshStep DEF StaleInv
<1> SUFFICES ASSUME Tame PROVE Spec => []StaleOnlyIfOvertaken
  OBVIOUS
<1>4. StaleInv /\ [Next]_vars => StaleInv'
  BY <1>3
<1> QED
  BY <1>1, <1>2, <1>4, PTL DEF Spec

=============================================================================
