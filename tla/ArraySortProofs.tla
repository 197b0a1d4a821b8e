--------------------------- MODULE ArraySortProofs ---------------------------
(***************************************************************************)
(* Theorems about sorting (ArraySort), for arrays of any length and any    *)
(* comparison that orders different elements.                              *)
(***************************************************************************)
EXTENDS ArraySort, FiniteSetTheorems, WellFoundedInduction, TLAPS

Leq(x, y) == x = y \/ <<x, y>> \in Less

LEMMA LeqTransitive ==
  ASSUME NEW x \in Elements, NEW y \in Elements, NEW z \in Elements,
         Leq(x, y), Leq(y, z)
  PROVE  Leq(x, z)
  BY LessAssumption DEF Leq

(* An element that is not less than another equals it or comes after it. *)
LEMMA LeqTotal ==
  ASSUME NEW x \in Elements, NEW y \in Elements, <<x, y>> \notin Less
  PROVE  Leq(y, x)
  BY LessAssumption DEF Leq

------------------------------------------------------------------------------
(* Rearranging.                                                            *)

(* f takes the places of an array of n to places, one to one, those from b *)
(* to e - 1 to such, and leaves the others.                                *)
Rearrangement(f, n, b, e) ==
  /\ f \in [1 .. n -> 1 .. n]
  /\ \A i, j \in 1 .. n : f[i] = f[j] => i = j
  /\ \A j \in 1 .. n : \E i \in 1 .. n : f[i] = j
  /\ \A i \in 1 .. n : IF b <= i /\ i < e THEN b <= f[i] /\ f[i] < e ELSE f[i] = i

(* t is s with the elements at b .. e - 1 rearranged. *)
Rearranged(s, t, b, e) ==
  /\ t \in Seq(Elements)
  /\ Len(t) = Len(s)
  /\ \E f : /\ Rearrangement(f, Len(s), b, e)
            /\ \A i \in 1 .. Len(s) : t[i] = s[f[i]]

LEMMA RearrangedNot ==
  ASSUME NEW s \in Seq(Elements), NEW b \in Nat, NEW e \in Nat
  PROVE  Rearranged(s, s, b, e)
  <1> DEFINE f == [i \in 1 .. Len(s) |-> i]
  <1>1. Rearrangement(f, Len(s), b, e)
    BY DEF Rearrangement
  <1>2. \A i \in 1 .. Len(s) : s[i] = s[f[i]]
    OBVIOUS
  <1> HIDE DEF f
  <1>3. QED
    BY <1>1, <1>2 DEF Rearranged

LEMMA RearrangementsCompose ==
  ASSUME NEW n \in Nat, NEW b \in Nat, NEW e \in Nat, NEW f, NEW g,
         Rearrangement(f, n, b, e), Rearrangement(g, n, b, e)
  PROVE  Rearrangement([i \in 1 .. n |-> f[g[i]]], n, b, e)
  <1> DEFINE h == [i \in 1 .. n |-> f[g[i]]]
  <1>1. h \in [1 .. n -> 1 .. n]
    BY DEF Rearrangement
  <1>2. \A i, j \in 1 .. n : h[i] = h[j] => i = j
    BY DEF Rearrangement
  <1>3. \A j \in 1 .. n : \E i \in 1 .. n : h[i] = j
    <2> TAKE j \in 1 .. n
    <2>1. PICK k \in 1 .. n : f[k] = j
      BY DEF Rearrangement
    <2>2. PICK i \in 1 .. n : g[i] = k
      BY DEF Rearrangement
    <2>3. QED
      BY <2>1, <2>2
  <1>4. \A i \in 1 .. n : IF b <= i /\ i < e THEN b <= h[i] /\ h[i] < e ELSE h[i] = i
    BY DEF Rearrangement
  <1> HIDE DEF h
  <1>5. QED
    BY <1>1, <1>2, <1>3, <1>4 DEF Rearrangement, h

LEMMA RearrangedTwice ==
  ASSUME NEW s \in Seq(Elements), NEW t, NEW u, NEW b \in Nat, NEW e \in Nat,
         Rearranged(s, t, b, e), Rearranged(t, u, b, e)
  PROVE  Rearranged(s, u, b, e)
  <1>1. PICK f : /\ Rearrangement(f, Len(s), b, e)
                 /\ \A i \in 1 .. Len(s) : t[i] = s[f[i]]
    BY DEF Rearranged
  <1>2. PICK g : /\ Rearrangement(g, Len(s), b, e)
                 /\ \A i \in 1 .. Len(s) : u[i] = t[g[i]]
    BY DEF Rearranged
  <1> DEFINE h == [i \in 1 .. Len(s) |-> f[g[i]]]
  <1>3. Len(s) \in Nat
    OBVIOUS
  <1>4. Rearrangement(h, Len(s), b, e)
    BY <1>1, <1>2, <1>3, RearrangementsCompose
  <1>5. \A i \in 1 .. Len(s) : u[i] = s[h[i]]
    BY <1>1, <1>2 DEF Rearrangement
  <1> HIDE DEF h
  <1>6. u \in Seq(Elements) /\ Len(u) = Len(s)
    BY DEF Rearranged
  <1>7. QED
    BY <1>4, <1>5, <1>6 DEF Rearranged

(* Swapping two elements. *)
LEMMA SwapIs ==
  ASSUME NEW s \in Seq(Elements), NEW i \in 1 .. Len(s), NEW j \in 1 .. Len(s)
  PROVE  /\ Swap(s, i, j) \in Seq(Elements)
         /\ Len(Swap(s, i, j)) = Len(s)
         /\ \A k \in 1 .. Len(s) :
              Swap(s, i, j)[k] = IF k = i THEN s[j] ELSE IF k = j THEN s[i] ELSE s[k]
  BY DEF Swap

LEMMA SwapRearranges ==
  ASSUME NEW s \in Seq(Elements), NEW b \in Nat, NEW e \in Nat,
         1 <= b, e <= Len(s) + 1,
         NEW i \in b .. e - 1, NEW j \in b .. e - 1
  PROVE  Rearranged(s, Swap(s, i, j), b, e)
  <1> DEFINE n == Len(s)
             f == [k \in 1 .. n |-> IF k = i THEN j ELSE IF k = j THEN i ELSE k]
  <1>1. n \in Nat /\ i \in 1 .. n /\ j \in 1 .. n
    OBVIOUS
  <1> HIDE DEF n
  <1>2. Rearrangement(f, n, b, e)
    <2>1. f \in [1 .. n -> 1 .. n]
      BY <1>1
    <2>2. \A k \in 1 .. n : f[f[k]] = k
      BY <1>1
    <2>3. \A k \in 1 .. n : IF b <= k /\ k < e THEN b <= f[k] /\ f[k] < e ELSE f[k] = k
      BY <1>1
    <2> HIDE DEF f
    <2>4. QED
      BY <2>1, <2>2, <2>3 DEF Rearrangement
  <1>3. \A k \in 1 .. n : Swap(s, i, j)[k] = s[f[k]]
    <2>1. \A k \in 1 .. n : Swap(s, i, j)[k]
                              = IF k = i THEN s[j] ELSE IF k = j THEN s[i] ELSE s[k]
      BY <1>1, SwapIs, ZenonT(40) DEF n
    <2>2. QED
      BY <2>1
  <1> HIDE DEF f
  <1>4. QED
    BY <1>1, <1>2, <1>3, SwapIs DEF Rearranged, n

(* median3 and median. *)
LEMMA RearrangedIs ==
  ASSUME NEW s, NEW t, NEW b, NEW e, Rearranged(s, t, b, e)
  PROVE  t \in Seq(Elements) /\ Len(t) = Len(s)
  BY DEF Rearranged

LEMMA OrderedRearranges ==
  ASSUME NEW s \in Seq(Elements), NEW t, NEW b \in Nat, NEW e \in Nat,
         1 <= b, e <= Len(s) + 1, Rearranged(s, t, b, e),
         NEW i \in b .. e - 1, NEW j \in b .. e - 1
  PROVE  Rearranged(s, OrderedPair(t, i, j, Less), b, e)
  <1>1. t \in Seq(Elements) /\ Len(t) = Len(s)
    BY RearrangedIs
  <1>2. Rearranged(t, Swap(t, i, j), b, e)
    BY <1>1, SwapRearranges
  <1>3. Rearranged(s, Swap(t, i, j), b, e)
    BY <1>2, RearrangedTwice
  <1>4. QED
    BY <1>3 DEF OrderedPair

LEMMA Median3Rearranges ==
  ASSUME NEW s \in Seq(Elements), NEW b \in Nat, NEW e \in Nat,
         1 <= b, e <= Len(s) + 1,
         NEW i \in b .. e - 1, NEW j \in b .. e - 1, NEW k \in b .. e - 1
  PROVE  Rearranged(s, Median3(s, i, j, k, Less), b, e)
  <1> DEFINE s1 == OrderedPair(s, i, j, Less)
             s2 == OrderedPair(s1, j, k, Less)
             s3 == OrderedPair(s2, i, j, Less)
  <1>1. Rearranged(s, s1, b, e)
    <2>1. Rearranged(s, s, b, e)
      BY RearrangedNot
    <2>2. QED
      BY <2>1, OrderedRearranges
  <1>2. Median3(s, i, j, k, Less) = s3
    BY DEF Median3
  <1> HIDE DEF s1
  <1>3. Rearranged(s, s2, b, e)
    BY <1>1, OrderedRearranges
  <1> HIDE DEF s2
  <1>4. Rearranged(s, s3, b, e)
    BY <1>3, OrderedRearranges
  <1>5. QED
    BY <1>2, <1>4

LEMMA Median3Again ==
  ASSUME NEW s \in Seq(Elements), NEW t, NEW b \in Nat, NEW e \in Nat,
         1 <= b, e <= Len(s) + 1, Rearranged(s, t, b, e),
         NEW i \in b .. e - 1, NEW j \in b .. e - 1, NEW k \in b .. e - 1
  PROVE  Rearranged(s, Median3(t, i, j, k, Less), b, e)
  <1>1. t \in Seq(Elements) /\ Len(t) = Len(s)
    BY RearrangedIs
  <1>2. Rearranged(t, Median3(t, i, j, k, Less), b, e)
    BY <1>1, Median3Rearranges
  <1>3. QED
    BY <1>2, RearrangedTwice

LEMMA MedianRearranges ==
  ASSUME NEW s \in Seq(Elements), NEW b \in Nat, NEW e \in Nat,
         1 <= b, b < e, e <= Len(s) + 1
  PROVE  LET middle == b + (e - b) \div 2
         IN  /\ middle \in b .. e - 1
             /\ Rearranged(s, Median(s, b, middle, e - 1, Less), b, e)
  <1> DEFINE m == b + (e - b) \div 2
             d == ((e - 1) - b + 1) \div 8
  <1>1. /\ m \in b .. e - 1 /\ b \in b .. e - 1 /\ e - 1 \in b .. e - 1
    OBVIOUS
  <1>2. /\ d \in Nat
        /\ b + d \in b .. e - 1 /\ b + 2 * d \in b .. e - 1
        /\ m - d \in b .. e - 1 /\ m + d \in b .. e - 1
        /\ (e - 1) - 2 * d \in b .. e - 1 /\ (e - 1) - d \in b .. e - 1
    OBVIOUS
  <1> DEFINE s1 == Median3(s, b, b + d, b + 2 * d, Less)
             s2 == Median3(s1, m - d, m, m + d, Less)
             s3 == Median3(s2, (e - 1) - 2 * d, (e - 1) - d, e - 1, Less)
             s4 == Median3(s3, b + d, m, (e - 1) - d, Less)
  <1>3. Median(s, b, m, e - 1, Less)
          = IF (e - 1) - b <= SmallMedian THEN Median3(s, b, m, e - 1, Less) ELSE s4
    BY DEF Median
  <1> HIDE DEF m, d
  <1>4. Rearranged(s, s1, b, e)
    BY <1>1, <1>2, Median3Rearranges
  <1> HIDE DEF s1
  <1>5. Rearranged(s, s2, b, e)
    BY <1>1, <1>2, <1>4, Median3Again
  <1> HIDE DEF s2
  <1>6. Rearranged(s, s3, b, e)
    BY <1>1, <1>2, <1>5, Median3Again
  <1> HIDE DEF s3
  <1>7. Rearranged(s, s4, b, e)
    BY <1>1, <1>2, <1>6, Median3Again
  <1> HIDE DEF s4
  <1>8. Rearranged(s, Median3(s, b, m, e - 1, Less), b, e)
    BY <1>1, Median3Rearranges
  <1>9. QED
    BY <1>1, <1>3, <1>7, <1>8 DEF m

------------------------------------------------------------------------------
(* Insertion.                                                              *)

(* A set of numbers has a least one. *)
LEMMA LeastNumber ==
  ASSUME NEW S \in SUBSET Nat, S # {}
  PROVE  \E m \in S : \A k \in S : m <= k
  <1>1. PICK n \in S : TRUE
    OBVIOUS
  <1> DEFINE I == 0 .. n
             R == StrictSubsetOrdering(I)
             T == {t \in SUBSET I : \E k \in S : t = 0 .. k}
  <1>2. IsFiniteSet(I)
    BY FS_Interval, n \in Int, 0 \in Int
  <1>3. IsWellFoundedOn(R, SUBSET I)
    BY <1>2, FS_StrictSubsetOrderingWellFounded, FS_FiniteSubsetsOfFinite
  <1>4. I \in T
    OBVIOUS
  <1>5. PICK t \in T : \A u \in T : <<u, t>> \notin R
    <2>1. T \subseteq SUBSET I /\ T # {}
      BY <1>4
    <2> HIDE DEF R, T, I
    <2>2. QED
      BY <1>3, <2>1, WFMin
  <1>6. PICK m \in S : t = 0 .. m /\ t \subseteq I
    OBVIOUS
  <1>7. ASSUME NEW k \in S, k < m
        PROVE  FALSE
    <2>1. m \in t /\ m <= n
      BY <1>6
    <2>2. 0 .. k \in T
      BY <1>7, <2>1
    <2>3. 0 .. k \subseteq t /\ m \notin 0 .. k
      BY <1>6, <1>7
    <2>4. <<0 .. k, t>> \in R
      BY <1>6, <2>1, <2>2, <2>3 DEF StrictSubsetOrdering
    <2>5. QED
      BY <1>5, <2>2, <2>4
  <1>8. QED
    BY <1>7

LEMMA HoleIsThere ==
  ASSUME NEW s \in Seq(Elements), NEW b \in Nat, NEW it \in Nat,
         1 <= b, b < it, it <= Len(s)
  PROVE  \E h \in b .. it : IsHole(s, b, it, Less, h)
  <1>1. CASE <<s[it], s[b]>> \in Less
    BY <1>1 DEF IsHole
  <1>2. CASE <<s[it], s[b]>> \notin Less
    <2> DEFINE Passed(h) == \A j \in h .. it - 1 : <<s[it], s[j]>> \in Less
               S == {h \in b + 1 .. it : Passed(h)}
    <2>1. it \in S
      OBVIOUS
    <2>2. PICK h \in S : \A k \in S : h <= k
      <3>1. S # {}
        BY <2>1
      <3>3. S \in SUBSET Nat
        <4>1. b + 1 .. it \subseteq Nat
          OBVIOUS
        <4>2. S \subseteq b + 1 .. it
          OBVIOUS
        <4> HIDE DEF S
        <4>3. QED
          BY <4>1, <4>2
      <3> HIDE DEF S
      <3>2. QED
        BY <3>1, <3>3, LeastNumber
    <2>3. h \in b + 1 .. it /\ Passed(h)
      OBVIOUS
    <2>4. ASSUME <<s[it], s[h - 1]>> \in Less
          PROVE  FALSE
      <3>1. h # b + 1
        BY <1>2, <2>3, <2>4
      <3>2. h - 1 \in b + 1 .. it
        BY <2>3, <3>1
      <3>3. \A j \in h - 1 .. it - 1 : j = h - 1 \/ j \in h .. it - 1
        BY <2>3
      <3>4. Passed(h - 1)
        BY <2>3, <2>4, <3>3
      <3>5. h - 1 \in S
        BY <3>2, <3>4
      <3>6. h <= h - 1
        BY <2>2, <3>5
      <3>7. QED
        BY <2>3, <3>6
    <2>5. IsHole(s, b, it, Less, h)
      BY <1>2, <2>3, <2>4 DEF IsHole
    <2>6. QED
      BY <2>3, <2>5
  <1>3. QED
    BY <1>1, <1>2

(* t is s with the element at it put at h. *)
InsertedAt(s, t, b, it, h) ==
  /\ IsHole(s, b, it, Less, h)
  /\ \A i \in 1 .. Len(s) :
       t[i] = IF i = h THEN s[it] ELSE IF i \in h + 1 .. it THEN s[i - 1] ELSE s[i]

LEMMA InsertedIs ==
  ASSUME NEW s \in Seq(Elements), NEW b \in Nat, NEW it \in Nat,
         1 <= b, b < it, it <= Len(s)
  PROVE  LET t == Inserted(s, b, it, Less)
         IN  /\ t \in Seq(Elements)
             /\ Len(t) = Len(s)
             /\ \E h \in b .. it : InsertedAt(s, t, b, it, h)
  <1> DEFINE h == CHOOSE h \in b .. it : IsHole(s, b, it, Less, h)
             t == [i \in DOMAIN s |-> CASE i = h -> s[it]
                                        [] i \in h + 1 .. it -> s[i - 1]
                                        [] OTHER -> s[i]]
  <1>1. h \in b .. it /\ IsHole(s, b, it, Less, h)
    BY HoleIsThere
  <1>2. Inserted(s, b, it, Less) = t
    BY DEF Inserted
  <1> HIDE DEF h
  <1>3. \A i \in 1 .. Len(s) : /\ t[i] = IF i = h THEN s[it]
                                         ELSE IF i \in h + 1 .. it THEN s[i - 1] ELSE s[i]
                               /\ t[i] \in Elements
    BY <1>1
  <1>4. t \in Seq(Elements) /\ Len(t) = Len(s)
    <2>1. DOMAIN s = 1 .. Len(s) /\ Len(s) \in Nat
      OBVIOUS
    <2>2. t \in [1 .. Len(s) -> Elements]
      BY <1>3, <2>1
    <2> HIDE DEF t
    <2>3. QED
      BY <2>1, <2>2
  <1> HIDE DEF t
  <1>5. InsertedAt(s, t, b, it, h)
    BY <1>1, <1>3 DEF InsertedAt
  <1>6. QED
    BY <1>1, <1>2, <1>4, <1>5

LEMMA InsertedRearranges ==
  ASSUME NEW s \in Seq(Elements), NEW b \in Nat, NEW e \in Nat, NEW it \in Nat,
         1 <= b, b < it, it < e, e <= Len(s) + 1
  PROVE  Rearranged(s, Inserted(s, b, it, Less), b, e)
  <1> DEFINE n == Len(s)
             t == Inserted(s, b, it, Less)
  <1>1. n \in Nat /\ it <= n
    OBVIOUS
  <1>2. t \in Seq(Elements) /\ Len(t) = n
    BY <1>1, InsertedIs
  <1>3. PICK h \in b .. it :
          \A i \in 1 .. n : t[i] = IF i = h THEN s[it]
                                   ELSE IF i \in h + 1 .. it THEN s[i - 1] ELSE s[i]
    <2>1. it <= Len(s)
      BY <1>1
    <2>2. PICK h \in b .. it : InsertedAt(s, t, b, it, h)
      BY <2>1, InsertedIs
    <2> HIDE DEF t
    <2>3. QED
      BY <2>2 DEF InsertedAt
  <1> DEFINE f == [i \in 1 .. n |-> IF i = h THEN it ELSE IF i \in h + 1 .. it THEN i - 1 ELSE i]
             g == [i \in 1 .. n |-> IF i = it THEN h ELSE IF i \in h .. it - 1 THEN i + 1 ELSE i]
  <1> HIDE DEF n, t
  <1>4. Rearrangement(f, n, b, e)
    <2>1. f \in [1 .. n -> 1 .. n] /\ g \in [1 .. n -> 1 .. n]
      BY <1>1
    <2>2. \A i \in 1 .. n : g[f[i]] = i
      BY <1>1
    <2>3. \A i \in 1 .. n : f[g[i]] = i
      BY <1>1
    <2>4. \A i \in 1 .. n : IF b <= i /\ i < e THEN b <= f[i] /\ f[i] < e ELSE f[i] = i
      BY <1>1
    <2> HIDE DEF f, g
    <2>5. QED
      BY <2>1, <2>2, <2>3, <2>4 DEF Rearrangement
  <1>5. \A i \in 1 .. n : t[i] = s[f[i]]
    BY <1>3
  <1> HIDE DEF f
  <1>6. QED
    BY <1>2, <1>4, <1>5 DEF Rearranged, n, t

(* The elements of s at b .. e - 1 are in order. *)
InOrderAt(s, b, e) ==
  \A i, j \in 1 .. Len(s) : b <= i /\ i < j /\ j < e => Leq(s[i], s[j])

LEMMA InsertedInOrder ==
  ASSUME NEW s \in Seq(Elements), NEW b \in Nat, NEW it \in Nat,
         1 <= b, b < it, it <= Len(s), InOrderAt(s, b, it)
  PROVE  InOrderAt(Inserted(s, b, it, Less), b, it + 1)
  <1> DEFINE n == Len(s)
             t == Inserted(s, b, it, Less)
  <1>1. n \in Nat /\ Len(t) = n /\ \A i \in 1 .. n : s[i] \in Elements
    BY InsertedIs
  <1>2. PICK h \in b .. it :
          /\ IsHole(s, b, it, Less, h)
          /\ \A i \in 1 .. n : t[i] = IF i = h THEN s[it]
                                      ELSE IF i \in h + 1 .. it THEN s[i - 1] ELSE s[i]
    <2>1. PICK h \in b .. it : InsertedAt(s, t, b, it, h)
      BY InsertedIs
    <2> HIDE DEF t
    <2>2. QED
      BY <2>1 DEF InsertedAt
  <1> HIDE DEF t
  <1>3. ASSUME NEW i \in 1 .. n, b <= i, i < h
        PROVE  Leq(s[i], s[it])
    <2>1. h > b /\ <<s[it], s[h - 1]>> \notin Less
      BY <1>2, <1>3 DEF IsHole
    <2>2. h - 1 \in 1 .. n /\ h - 1 < it /\ it \in 1 .. n
      BY <2>1
    <2>3. Leq(s[h - 1], s[it])
      BY <1>1, <2>1, <2>2, LeqTotal
    <2>4. Leq(s[i], s[h - 1])
      BY <1>3, <2>2 DEF InOrderAt, Leq
    <2>5. QED
      BY <1>1, <2>2, <2>3, <2>4, LeqTransitive
  <1>4. ASSUME NEW i \in 1 .. n, h <= i, i < it
        PROVE  Leq(s[it], s[i])
    <2>1. CASE h = b /\ <<s[it], s[b]>> \in Less
      <3>1. b \in 1 .. n /\ it \in 1 .. n
        OBVIOUS
      <3>2. Leq(s[b], s[i])
        BY <1>4, <2>1, <3>1 DEF InOrderAt, Leq
      <3>3. Leq(s[it], s[b])
        BY <2>1 DEF Leq
      <3>4. QED
        BY <1>1, <3>1, <3>2, <3>3, LeqTransitive
    <2>2. CASE \A j \in h .. it - 1 : <<s[it], s[j]>> \in Less
      BY <1>4, <2>2 DEF Leq
    <2>3. QED
      BY <1>2, <2>1, <2>2 DEF IsHole
  <1>5. ASSUME NEW i \in 1 .. n, NEW j \in 1 .. n, b <= i, i < j, j < it + 1
        PROVE  Leq(t[i], t[j])
    <2>1. CASE j < h
      BY <1>2, <1>5, <2>1 DEF InOrderAt
    <2>2. CASE j = h
      BY <1>2, <1>3, <1>5, <2>2
    <2>3. CASE h < j
      <3>1. t[j] = s[j - 1] /\ j - 1 \in 1 .. n /\ j - 1 < it
        BY <1>2, <1>5, <2>3
      <3>2. CASE i < h
        BY <1>2, <1>5, <2>3, <3>1, <3>2 DEF InOrderAt
      <3>3. CASE i = h
        BY <1>2, <1>4, <2>3, <3>1, <3>3
      <3>4. CASE h < i
        <4>1. t[i] = s[i - 1] /\ i - 1 \in 1 .. n
          BY <1>2, <1>5, <3>4
        <4>2. QED
          BY <1>5, <3>1, <3>4, <4>1 DEF InOrderAt
      <3>5. QED
        BY <1>5, <3>2, <3>3, <3>4
    <2>4. QED
      BY <1>5, <2>1, <2>2, <2>3
  <1>6. QED
    BY <1>1, <1>5 DEF InOrderAt, t

------------------------------------------------------------------------------
(* Partition: what is at lt .. gt - 1 has found its side of the pivot v.   *)
Sides(s, b, lt, eqb, eqe, gt, e, v) ==
  /\ b <= lt /\ lt <= eqb /\ eqb < eqe /\ eqe <= gt /\ gt <= e
  /\ \A i \in 1 .. Len(s) : /\ eqb <= i /\ i < eqe => s[i] = v
                            /\ lt <= i /\ i < eqb => Leq(s[i], v)
                            /\ eqe <= i /\ i < gt => Leq(v, s[i])

LEMMA EqualFromRight ==
  ASSUME NEW s \in Seq(Elements), NEW b \in Nat, NEW e \in Nat, NEW v,
         NEW lt \in Nat, NEW eqb \in Nat, NEW eqe \in Nat, NEW gt \in Nat,
         1 <= b, e <= Len(s) + 1, gt < e,
         Sides(s, b, lt, eqb, eqe, gt, e, v), s[gt] = v
  PROVE  Sides(Swap(s, gt, eqe), b, lt, eqb, eqe + 1, gt + 1, e, v)
  <1> DEFINE n == Len(s)
             t == Swap(s, gt, eqe)
  <1>1. gt \in 1 .. n /\ eqe \in 1 .. n /\ n \in Nat
    BY DEF Sides
  <1>2. /\ Len(t) = n
        /\ \A k \in 1 .. n : t[k] = IF k = gt THEN s[eqe]
                                    ELSE IF k = eqe THEN v ELSE s[k]
    <2>1. \A k \in 1 .. n : t[k] = IF k = gt THEN s[eqe]
                                    ELSE IF k = eqe THEN s[gt] ELSE s[k]
      BY <1>1, SwapIs, ZenonT(40)
    <2>2. Len(t) = n
      BY <1>1, SwapIs
    <2> HIDE DEF n, t
    <2>3. QED
      BY <2>1, <2>2
  <1> HIDE DEF t, n
  <1>3. /\ b <= lt /\ lt <= eqb /\ eqb < eqe /\ eqe <= gt /\ gt < e
        /\ \A i \in 1 .. n : /\ eqb <= i /\ i < eqe => s[i] = v
                             /\ lt <= i /\ i < eqb => Leq(s[i], v)
                             /\ eqe <= i /\ i < gt => Leq(v, s[i])
    BY DEF Sides, n
  <1>4. Leq(v, v)
    BY DEF Leq
  <1>5. ASSUME NEW i \in 1 .. n
        PROVE  /\ eqb <= i /\ i < eqe + 1 => t[i] = v
               /\ lt <= i /\ i < eqb => Leq(t[i], v)
               /\ eqe + 1 <= i /\ i < gt + 1 => Leq(v, t[i])
    <2>1. eqb <= i /\ i < eqe + 1 => t[i] = v
      BY <1>1, <1>2, <1>3
    <2>2. lt <= i /\ i < eqb => Leq(t[i], v)
      BY <1>1, <1>2, <1>3
    <2>3. ASSUME eqe + 1 <= i, i < gt + 1
          PROVE  Leq(v, t[i])
      <3>1. CASE i = gt
        <4>1. t[i] = s[eqe] /\ eqe < gt
          BY <1>1, <1>2, <2>3, <3>1
        <4>2. QED
          BY <1>1, <1>3, <4>1
      <3>2. CASE i # gt
        <4>1. t[i] = s[i] /\ i < gt
          BY <1>1, <1>2, <2>3, <3>2
        <4>2. QED
          BY <1>1, <1>3, <2>3, <4>1
      <3>3. QED
        BY <3>1, <3>2
    <2>4. QED
      BY <2>1, <2>2, <2>3
  <1>6. eqb < eqe + 1 /\ eqe + 1 <= gt + 1 /\ gt + 1 <= e
    BY <1>3
  <1>7. QED
    BY <1>2, <1>3, <1>5, <1>6 DEF Sides, t

LEMMA EqualFromLeft ==
  ASSUME NEW s \in Seq(Elements), NEW b \in Nat, NEW e \in Nat, NEW v,
         NEW lt \in Nat, NEW eqb \in Nat, NEW eqe \in Nat, NEW gt \in Nat,
         1 <= b, e <= Len(s) + 1, b < lt,
         Sides(s, b, lt, eqb, eqe, gt, e, v), s[lt - 1] = v
  PROVE  Sides(Swap(s, lt - 1, eqb - 1), b, lt - 1, eqb - 1, eqe, gt, e, v)
  <1> DEFINE n == Len(s)
             t == Swap(s, lt - 1, eqb - 1)
  <1>1. lt - 1 \in 1 .. n /\ eqb - 1 \in 1 .. n /\ n \in Nat
    BY DEF Sides
  <1>2. /\ Len(t) = n
        /\ \A k \in 1 .. n : t[k] = IF k = lt - 1 THEN s[eqb - 1]
                                    ELSE IF k = eqb - 1 THEN v ELSE s[k]
    <2>1. \A k \in 1 .. n : t[k] = IF k = lt - 1 THEN s[eqb - 1]
                                    ELSE IF k = eqb - 1 THEN s[lt - 1] ELSE s[k]
      BY <1>1, SwapIs, ZenonT(40)
    <2>2. Len(t) = n
      BY <1>1, SwapIs
    <2> HIDE DEF n, t
    <2>3. QED
      BY <2>1, <2>2
  <1> HIDE DEF t, n
  <1>3. /\ b < lt /\ lt <= eqb /\ eqb < eqe /\ eqe <= gt /\ gt <= e
        /\ \A i \in 1 .. n : /\ eqb <= i /\ i < eqe => s[i] = v
                             /\ lt <= i /\ i < eqb => Leq(s[i], v)
                             /\ eqe <= i /\ i < gt => Leq(v, s[i])
    BY DEF Sides, n
  <1>4. \A i \in 1 .. n : i >= eqe => t[i] = s[i]
    BY <1>1, <1>2, <1>3
  <1>5. ASSUME NEW i \in 1 .. n
        PROVE  /\ eqb - 1 <= i /\ i < eqe => t[i] = v
               /\ lt - 1 <= i /\ i < eqb - 1 => Leq(t[i], v)
               /\ eqe <= i /\ i < gt => Leq(v, t[i])
    <2>1. ASSUME eqb - 1 <= i, i < eqe
          PROVE  t[i] = v
      <3>1. CASE i = eqb - 1
        BY <1>1, <1>2, <1>3, <3>1
      <3>2. CASE eqb <= i
        BY <1>1, <1>2, <1>3, <2>1, <3>2
      <3>3. QED
        BY <1>1, <2>1, <3>1, <3>2
    <2>2. ASSUME lt - 1 <= i, i < eqb - 1
          PROVE  Leq(t[i], v)
      <3>1. CASE i = lt - 1
        <4>1. t[i] = s[eqb - 1] /\ lt <= eqb - 1
          BY <1>1, <1>2, <2>2, <3>1
        <4>2. QED
          BY <1>1, <1>3, <4>1
      <3>2. CASE i # lt - 1
        <4>1. t[i] = s[i] /\ lt <= i /\ i < eqb
          BY <1>1, <1>2, <2>2, <3>2
        <4>2. QED
          BY <1>1, <1>3, <4>1
      <3>3. QED
        BY <3>1, <3>2
    <2>3. eqe <= i /\ i < gt => Leq(v, t[i])
      BY <1>3, <1>4
    <2>4. QED
      BY <2>1, <2>2, <2>3
  <1>6. b <= lt - 1 /\ lt - 1 <= eqb - 1 /\ eqb - 1 < eqe
    BY <1>3
  <1>7. Sides(t, b, lt - 1, eqb - 1, eqe, gt, e, v)
    BY <1>2, <1>3, <1>5, <1>6 DEF Sides
  <1>8. QED
    BY <1>7 DEF t

SameAt(s, t, i) == t[i] = s[i]

LEMMA LeftLeavesRight ==
  ASSUME NEW s \in Seq(Elements), NEW b \in Nat, NEW e \in Nat, NEW v,
         NEW lt \in Nat, NEW eqb \in Nat, NEW eqe \in Nat, NEW gt \in Nat,
         1 <= b, e <= Len(s) + 1, b < lt, gt < e, Sides(s, b, lt, eqb, eqe, gt, e, v)
  PROVE  SameAt(s, Swap(s, lt - 1, eqb - 1), gt)
  <1>1. /\ gt \in 1 .. Len(s) /\ lt - 1 \in 1 .. Len(s) /\ eqb - 1 \in 1 .. Len(s)
        /\ gt # lt - 1 /\ gt # eqb - 1
    <2>1. lt <= eqb /\ eqb < eqe /\ eqe <= gt
      BY DEF Sides
    <2>2. Len(s) \in Nat
      OBVIOUS
    <2>3. gt # lt - 1 /\ gt # eqb - 1
      BY <2>1
    <2>4. 1 <= lt - 1 /\ lt - 1 <= gt /\ 1 <= eqb - 1 /\ eqb - 1 <= gt
          /\ 1 <= gt /\ gt <= Len(s)
      BY <2>1, <2>2
    <2>5. QED
      BY <2>2, <2>3, <2>4
  <1>2. \A k \in 1 .. Len(s) : Swap(s, lt - 1, eqb - 1)[k]
                                 = IF k = lt - 1 THEN s[eqb - 1]
                                   ELSE IF k = eqb - 1 THEN s[lt - 1] ELSE s[k]
    BY <1>1, SwapIs, ZenonT(40)
  <1>3. QED
    BY <1>1, <1>2 DEF SameAt

LEMMA LeftCrosses ==
  ASSUME NEW s \in Seq(Elements), NEW b \in Nat, NEW e \in Nat, NEW v,
         NEW lt \in Nat, NEW eqb \in Nat, NEW eqe \in Nat, NEW gt \in Nat,
         1 <= b, e <= Len(s) + 1, b < lt,
         Sides(s, b, lt, eqb, eqe, gt, e, v), Leq(v, s[lt - 1])
  PROVE  Sides(Swap(Swap(s, lt - 1, eqb - 1), eqb - 1, eqe - 1),
               b, lt - 1, eqb - 1, eqe - 1, gt, e, v)
  <1> DEFINE n == Len(s)
             t == Swap(s, lt - 1, eqb - 1)
             u == Swap(t, eqb - 1, eqe - 1)
  <1>1. lt - 1 \in 1 .. n /\ eqb - 1 \in 1 .. n /\ eqe - 1 \in 1 .. n /\ n \in Nat
    BY DEF Sides
  <1>2. /\ t \in Seq(Elements) /\ Len(t) = n
        /\ \A k \in 1 .. n : t[k] = IF k = lt - 1 THEN s[eqb - 1]
                                    ELSE IF k = eqb - 1 THEN s[lt - 1] ELSE s[k]
    BY <1>1, SwapIs
  <1> HIDE DEF t
  <1>3. /\ Len(u) = n
        /\ \A k \in 1 .. n : u[k] = IF k = eqb - 1 THEN t[eqe - 1]
                                    ELSE IF k = eqe - 1 THEN t[eqb - 1] ELSE t[k]
    <2>1. eqb - 1 \in 1 .. Len(t) /\ eqe - 1 \in 1 .. Len(t)
      BY <1>1, <1>2
    <2>2. QED
      <3>1. t \in Seq(Elements) /\ Len(t) = n
        BY <1>2
      <3>2. /\ Len(Swap(t, eqb - 1, eqe - 1)) = Len(t)
            /\ \A k \in 1 .. Len(t) :
                 Swap(t, eqb - 1, eqe - 1)[k]
                   = IF k = eqb - 1 THEN t[eqe - 1]
                     ELSE IF k = eqe - 1 THEN t[eqb - 1] ELSE t[k]
        BY <2>1, <3>1, SwapIs, ZenonT(40)
      <3> HIDE DEF n
      <3>3. QED
        BY <3>1, <3>2
  <1> HIDE DEF u
  <1> HIDE DEF n
  <1>4. /\ b < lt /\ lt <= eqb /\ eqb < eqe /\ eqe <= gt /\ gt <= e
        /\ \A i \in 1 .. n : /\ eqb <= i /\ i < eqe => s[i] = v
                             /\ lt <= i /\ i < eqb => Leq(s[i], v)
                             /\ eqe <= i /\ i < gt => Leq(v, s[i])
    BY DEF Sides, n
  <1>5. \A i \in 1 .. n : u[i] = IF i = eqb - 1 THEN v
                                 ELSE IF i = eqe - 1 THEN s[lt - 1]
                                 ELSE IF i = lt - 1 THEN s[eqb - 1] ELSE s[i]
    <2>1. eqe - 1 # lt - 1 /\ eqe - 1 # eqb - 1 /\ eqb <= eqe - 1 /\ eqe - 1 < eqe
      BY <1>4
    <2>2. s[eqe - 1] = v
      BY <1>1, <1>4, <2>1
    <2>3. t[eqe - 1] = v
      BY <1>1, <1>2, <2>1, <2>2
    <2>4. t[eqb - 1] = s[lt - 1]
      BY <1>1, <1>2
    <2>5. QED
      BY <1>2, <1>3, <2>1, <2>3, <2>4
  <1>6. ASSUME NEW i \in 1 .. n
        PROVE  /\ eqb - 1 <= i /\ i < eqe - 1 => u[i] = v
               /\ lt - 1 <= i /\ i < eqb - 1 => Leq(u[i], v)
               /\ eqe - 1 <= i /\ i < gt => Leq(v, u[i])
    <2>1. CASE i = eqb - 1
      BY <1>4, <1>5, <2>1
    <2>2. CASE i = eqe - 1
      <3>1. u[i] = s[lt - 1] /\ i >= eqb
        BY <1>4, <1>5, <2>2
      <3>2. QED
        BY <2>2, <3>1
    <2>3. CASE i = lt - 1 /\ i # eqb - 1
      <3>1. u[i] = s[eqb - 1] /\ lt <= eqb - 1 /\ i < eqb - 1
        BY <1>4, <1>5, <2>3
      <3>2. Leq(s[eqb - 1], v)
        BY <1>1, <1>4, <3>1
      <3>3. QED
        BY <1>4, <3>1, <3>2
    <2>4. CASE i # eqb - 1 /\ i # eqe - 1 /\ i # lt - 1
      <3>1. u[i] = s[i]
        BY <1>5, <2>4
      <3>2. QED
        BY <1>4, <2>4, <3>1
    <2>5. QED
      BY <2>1, <2>2, <2>3, <2>4
  <1>7. /\ b <= lt - 1 /\ lt - 1 <= eqb - 1 /\ eqb - 1 < eqe - 1 /\ eqe - 1 <= gt
        /\ gt <= e
    BY <1>4
  <1>8. QED
    BY <1>3, <1>4, <1>6, <1>7 DEF Sides, u, t

LEMMA RightCrosses ==
  ASSUME NEW s \in Seq(Elements), NEW b \in Nat, NEW e \in Nat, NEW v,
         NEW lt \in Nat, NEW eqb \in Nat, NEW eqe \in Nat, NEW gt \in Nat,
         1 <= b, e <= Len(s) + 1, gt < e,
         Sides(s, b, lt, eqb, eqe, gt, e, v), Leq(s[gt], v)
  PROVE  Sides(Swap(IF eqe # gt THEN Swap(s, eqb, eqe) ELSE s, gt, eqb),
               b, lt, eqb + 1, eqe + 1, gt + 1, e, v)
  <1> DEFINE n == Len(s)
             t == IF eqe # gt THEN Swap(s, eqb, eqe) ELSE s
             u == Swap(t, gt, eqb)
  <1>1. eqb \in 1 .. n /\ eqe \in 1 .. n /\ gt \in 1 .. n /\ n \in Nat
    BY DEF Sides
  <1>2. /\ t \in Seq(Elements) /\ Len(t) = n
        /\ \A k \in 1 .. n : t[k] = IF eqe = gt THEN s[k]
                                    ELSE IF k = eqb THEN s[eqe]
                                    ELSE IF k = eqe THEN s[eqb] ELSE s[k]
    BY <1>1, SwapIs
  <1> HIDE DEF t
  <1>3. /\ Len(u) = n
        /\ \A k \in 1 .. n : u[k] = IF k = gt THEN t[eqb]
                                    ELSE IF k = eqb THEN t[gt] ELSE t[k]
    <2>1. t \in Seq(Elements) /\ Len(t) = n /\ gt \in 1 .. Len(t) /\ eqb \in 1 .. Len(t)
      BY <1>1, <1>2
    <2>2. /\ Len(Swap(t, gt, eqb)) = Len(t)
          /\ \A k \in 1 .. Len(t) :
               Swap(t, gt, eqb)[k] = IF k = gt THEN t[eqb]
                                     ELSE IF k = eqb THEN t[gt] ELSE t[k]
      BY <2>1, SwapIs
    <2>3. QED
      BY <2>1, <2>2
  <1> HIDE DEF u
  <1>4. /\ t[gt] = s[gt] /\ s[eqb] = v
        /\ t[eqb] = IF eqe = gt THEN v ELSE s[eqe]
    BY <1>1, <1>2 DEF Sides
  <1>5. b <= lt /\ lt <= eqb /\ eqb < eqe /\ eqe <= gt /\ gt < e
    BY DEF Sides
  <1>6. ASSUME NEW i \in 1 .. n
        PROVE  /\ eqb + 1 <= i /\ i < eqe + 1 => u[i] = v
               /\ lt <= i /\ i < eqb + 1 => Leq(u[i], v)
               /\ eqe + 1 <= i /\ i < gt + 1 => Leq(v, u[i])
    <2>1. eqb + 1 <= i /\ i < eqe + 1 => u[i] = v
      BY <1>1, <1>2, <1>3, <1>4, <1>5 DEF Sides
    <2>2. ASSUME lt <= i, i < eqb + 1
          PROVE  Leq(u[i], v)
      <3>1. u[i] = IF i = eqb THEN s[gt] ELSE s[i]
        BY <1>1, <1>2, <1>3, <1>4, <1>5, <2>2
      <3>2. QED
        BY <1>1, <1>5, <2>2, <3>1 DEF Sides
    <2>3. ASSUME eqe + 1 <= i, i < gt + 1
          PROVE  Leq(v, u[i])
      <3>1. u[i] = IF i = gt THEN s[eqe] ELSE s[i]
        BY <1>1, <1>2, <1>3, <1>4, <1>5, <2>3
      <3>2. QED
        BY <1>1, <1>5, <2>3, <3>1 DEF Sides
    <2>4. QED
      BY <2>1, <2>2, <2>3
  <1>7. QED
    BY <1>3, <1>5, <1>6 DEF Sides, u, t

LEMMA RightCrossesTo ==
  ASSUME NEW s \in Seq(Elements), NEW b \in Nat, NEW e \in Nat, NEW v,
         NEW lt \in Nat, NEW eqb \in Nat, NEW eqe \in Nat, NEW gt \in Nat,
         1 <= b, e <= Len(s) + 1, gt < e,
         Sides(s, b, lt, eqb, eqe, gt, e, v), Leq(s[gt], v),
         NEW t, t = IF eqe # gt THEN Swap(s, eqb, eqe) ELSE s
  PROVE  Sides(Swap(t, gt, eqb), b, lt, eqb + 1, eqe + 1, gt + 1, e, v)
  BY RightCrosses

LEMMA BothCross ==
  ASSUME NEW s \in Seq(Elements), NEW b \in Nat, NEW e \in Nat, NEW v,
         NEW lt \in Nat, NEW eqb \in Nat, NEW eqe \in Nat, NEW gt \in Nat,
         1 <= b, e <= Len(s) + 1, gt < e, b < lt,
         Sides(s, b, lt, eqb, eqe, gt, e, v), Leq(s[gt], v), Leq(v, s[lt - 1])
  PROVE  Sides(Swap(s, gt, lt - 1), b, lt - 1, eqb, eqe, gt + 1, e, v)
  <1> DEFINE n == Len(s)
             t == Swap(s, gt, lt - 1)
  <1>1. lt - 1 \in 1 .. n /\ gt \in 1 .. n /\ n \in Nat /\ lt - 1 # gt
    BY DEF Sides
  <1>2. /\ Len(t) = n
        /\ \A k \in 1 .. n : t[k] = IF k = gt THEN s[lt - 1]
                                    ELSE IF k = lt - 1 THEN s[gt] ELSE s[k]
    BY <1>1, SwapIs, ZenonT(40)
  <1> HIDE DEF t, n
  <1>3. /\ b < lt /\ lt <= eqb /\ eqb < eqe /\ eqe <= gt /\ gt < e
        /\ \A i \in 1 .. n : /\ eqb <= i /\ i < eqe => s[i] = v
                             /\ lt <= i /\ i < eqb => Leq(s[i], v)
                             /\ eqe <= i /\ i < gt => Leq(v, s[i])
    BY DEF Sides, n
  <1>4. ASSUME NEW i \in 1 .. n
        PROVE  /\ eqb <= i /\ i < eqe => t[i] = v
               /\ lt - 1 <= i /\ i < eqb => Leq(t[i], v)
               /\ eqe <= i /\ i < gt + 1 => Leq(v, t[i])
    <2>1. CASE i = gt
      BY <1>1, <1>2, <1>3, <2>1
    <2>2. CASE i = lt - 1
      BY <1>1, <1>2, <1>3, <2>2
    <2>3. CASE i # gt /\ i # lt - 1
      BY <1>1, <1>2, <1>3, <2>3
    <2>4. QED
      BY <2>1, <2>2, <2>3
  <1>5. b <= lt - 1 /\ lt - 1 <= eqb /\ eqe <= gt + 1 /\ gt + 1 <= e
    BY <1>3
  <1>6. QED
    BY <1>2, <1>3, <1>4, <1>5 DEF Sides, t

------------------------------------------------------------------------------
(* The inductive invariant of a sort on its way.                           *)

Ranges == [begin : Nat, end : Nat]

Sites == {"range", "equals", "right", "left", "cross", "insert", "done"}

Sort == [s : Seq(Elements), begin : Nat, end : Nat, calls : Seq(Ranges), at : Sites,
         lt : Nat, eqb : Nat, eqe : Nat, gt : Nat, it : Nat]

(* The ranges still to be sorted, the one at hand first. *)
ToSort(c) == IF c.at = "done" THEN <<>>
             ELSE <<[begin |-> c.begin, end |-> c.end]>> \o c.calls

(* They are ranges of an array of n, and no two of them overlap. *)
Apart(p, q) == p.end <= q.begin \/ q.end <= p.begin

Laid(n, R) ==
  /\ \A k \in 1 .. Len(R) : 1 <= R[k].begin /\ R[k].begin <= R[k].end /\ R[k].end <= n + 1
  /\ \A k, l \in 1 .. Len(R) : k # l => Apart(R[k], R[l])

(* Any two elements are in order, or in one range that is to be sorted. *)
Pending(R, i, j) ==
  \E k \in 1 .. Len(R) : R[k].begin <= i /\ i < j /\ j < R[k].end

Settled(s, R) ==
  \A i, j \in 1 .. Len(s) : i < j => Leq(s[i], s[j]) \/ Pending(R, i, j)

(* What the range at hand has come to. *)
Dividing(c) ==
  /\ Sides(c.s, c.begin, c.lt, c.eqb, c.eqe, c.gt, c.end, c.s[c.eqb])
  /\ c.at \in {"left", "cross"} => c.gt = c.end \/ Leq(c.s[c.gt], c.s[c.eqb])
  /\ c.at = "cross" => c.lt = c.begin \/ Leq(c.s[c.eqb], c.s[c.lt - 1])

Phase(c) ==
  /\ c.at = "equals" =>
       Sides(c.s, c.begin, c.eqb, c.eqb, c.eqe, c.eqe, c.end, c.s[c.eqb])
  /\ c.at \in {"right", "left", "cross"} => Dividing(c)
  /\ c.at = "insert" => /\ c.begin < c.it
                        /\ c.it <= c.end \/ c.it = c.begin + 1
                        /\ InOrderAt(c.s, c.begin, c.it)

(* How many steps the calls take at most, and the range at hand, and that  *)
(* these are not more than the sort may take.                              *)
Owes(R, x) ==
  \E w \in [1 .. Len(R) + 1 -> Nat] :
    /\ w[1] = x
    /\ w[Len(R) + 1] = 0
    /\ \A k \in 1 .. Len(R) : w[k] = w[k + 1] + MostSteps(R[k].end - R[k].begin)

Halves(len) == 4 * (len * len + 1)

Wide(c) == (c.lt - c.begin) + (c.end - c.gt)

StepsLeft(c) ==
  CASE c.at = "range"  -> MostSteps(c.end - c.begin)
    [] c.at = "insert" -> IF c.it < c.end THEN c.end - c.it + 1 ELSE 1
    [] c.at = "equals" -> 4 * ((c.eqb - c.begin) + (c.end - c.eqe)) + 4 + Halves(c.end - c.begin)
    [] c.at = "right"  -> 3 * Wide(c) + 3 + Halves(c.end - c.begin)
    [] c.at = "left"   -> 3 * Wide(c) + 2 + Halves(c.end - c.begin)
    [] c.at = "cross"  -> 3 * Wide(c) + 1 + Halves(c.end - c.begin)
    [] c.at = "done"   -> 0

Afford(c, n, taken) ==
  \E x \in Nat : Owes(c.calls, x) /\ taken + StepsLeft(c) + x <= MostSteps(n)

(* c sorts the array a and has taken so many steps. *)
Arranged(c, a) ==
  /\ Rearranged(a, c.s, 1, Len(a) + 1)
  /\ Laid(Len(a), ToSort(c))
  /\ Settled(c.s, ToSort(c))

Underway(c, a, taken) ==
  /\ c \in Sort
  /\ Arranged(c, a)
  /\ Phase(c)
  /\ Afford(c, Len(a), taken)

SortingInv ==
  /\ array \in Seq(Elements)
  /\ steps \in Nat
  /\ \/ sorting = NotSorting /\ steps = 0
     \/ Underway(sorting, array, steps)

------------------------------------------------------------------------------
LEMMA RangesAre ==
  ASSUME NEW R \in Seq(Ranges)
  PROVE  \A k \in 1 .. Len(R) : /\ R[k] \in Ranges
                                /\ R[k].begin \in Nat /\ R[k].end \in Nat
  <1>1. \A k \in 1 .. Len(R) : R[k] \in Ranges
    OBVIOUS
  <1>2. \A r \in Ranges : r.begin \in Nat /\ r.end \in Nat
    BY DEF Ranges
  <1>3. QED
    BY <1>1, <1>2

LEMMA RearrangedWithin ==
  ASSUME NEW s \in Seq(Elements), NEW t, NEW b \in Nat, NEW e \in Nat,
         1 <= b, e <= Len(s) + 1, Rearranged(s, t, b, e)
  PROVE  Rearranged(s, t, 1, Len(s) + 1)
  <1>1. PICK f : /\ Rearrangement(f, Len(s), b, e)
                 /\ \A i \in 1 .. Len(s) : t[i] = s[f[i]]
    BY DEF Rearranged
  <1>2. Rearrangement(f, Len(s), 1, Len(s) + 1)
    <2>1. \A i \in 1 .. Len(s) : 1 <= f[i] /\ f[i] < Len(s) + 1
      <3>1. \A i \in 1 .. Len(s) : f[i] \in 1 .. Len(s)
        BY <1>1 DEF Rearrangement
      <3>2. QED
        BY <3>1
    <2>2. QED
      BY <1>1, <2>1 DEF Rearrangement
  <1>3. QED
    BY <1>1, <1>2 DEF Rearranged

(* Rearranging the range at hand keeps the others settled. *)
LEMMA SettledKept ==
  ASSUME NEW s \in Seq(Elements), NEW t, NEW R \in Seq(Ranges), R # <<>>,
         Laid(Len(s), R), Settled(s, R),
         Rearranged(s, t, R[1].begin, R[1].end)
  PROVE  Settled(t, R)
  <1> DEFINE n == Len(s)
             b == R[1].begin
             e == R[1].end
  <1>1. PICK f : /\ Rearrangement(f, n, b, e)
                 /\ \A i \in 1 .. n : t[i] = s[f[i]]
    BY DEF Rearranged
  <1>3. \A k \in 1 .. Len(R) : R[k].begin \in Nat /\ R[k].end \in Nat
    BY RangesAre
  <1>2. n \in Nat /\ Len(t) = n /\ 1 \in 1 .. Len(R) /\ b \in Nat /\ e \in Nat
    <2>1. 1 \in 1 .. Len(R)
      OBVIOUS
    <2>2. QED
      BY <1>3, <2>1 DEF Rearranged
  <1>4. \A k \in 1 .. Len(R) : k # 1 => e <= R[k].begin \/ R[k].end <= b
    BY <1>2 DEF Laid, Apart
  <1>5. \A i, j \in 1 .. n : i < j => Leq(s[i], s[j]) \/ Pending(R, i, j)
    BY DEF Settled
  <1> HIDE DEF n, b, e
  <1>6. \A i \in 1 .. n : /\ f[i] \in 1 .. n
                          /\ b <= i /\ i < e => b <= f[i] /\ f[i] < e
                          /\ ~(b <= i /\ i < e) => f[i] = i
    BY <1>1 DEF Rearrangement
  <1>7. ASSUME NEW i \in 1 .. n, NEW j \in 1 .. n, i < j
        PROVE  Leq(t[i], t[j]) \/ Pending(R, i, j)
    <2>1. CASE b <= i /\ j < e
      BY <1>2, <1>7, <2>1 DEF Pending, b, e
    <2>2. CASE ~(b <= i /\ i < e) /\ ~(b <= j /\ j < e)
      <3>1. f[i] = i /\ f[j] = j
        BY <1>6, <2>2
      <3>2. t[i] = s[i] /\ t[j] = s[j]
        BY <1>1, <3>1
      <3>3. QED
        BY <1>5, <1>7, <3>2
    <2>3. CASE b <= i /\ i < e /\ ~(b <= j /\ j < e)
      <3>1. e <= j /\ f[j] = j /\ f[i] \in 1 .. n /\ b <= f[i] /\ f[i] < e /\ f[i] < j
        BY <1>2, <1>6, <1>7, <2>3
      <3>2. ~ Pending(R, f[i], j)
        BY <1>2, <1>3, <1>4, <3>1, SMTT(30) DEF Pending, b, e
      <3>3. t[i] = s[f[i]] /\ t[j] = s[j]
        BY <1>1, <3>1
      <3>4. Leq(s[f[i]], s[j])
        BY <1>5, <3>1, <3>2
      <3>5. QED
        BY <3>3, <3>4
    <2>4. CASE b <= j /\ j < e /\ ~(b <= i /\ i < e)
      <3>1. i < b /\ f[i] = i /\ f[j] \in 1 .. n /\ b <= f[j] /\ f[j] < e /\ i < f[j]
        BY <1>2, <1>6, <1>7, <2>4
      <3>2. ~ Pending(R, i, f[j])
        BY <1>2, <1>3, <1>4, <3>1, SMTT(30) DEF Pending, b, e
      <3>3. t[i] = s[i] /\ t[j] = s[f[j]]
        BY <1>1, <3>1
      <3>4. Leq(s[i], s[f[j]])
        BY <1>5, <3>1, <3>2
      <3>5. QED
        BY <3>3, <3>4
    <2>5. QED
      BY <1>2, <1>7, <2>1, <2>2, <2>3, <2>4
  <1>8. QED
    BY <1>2, <1>7 DEF Settled

(* The range at hand is in order: what is left is to be sorted. *)
LEMMA NextRange ==
  ASSUME NEW n \in Nat, NEW s \in Seq(Elements), NEW R \in Seq(Ranges), R # <<>>,
         Laid(n, R), Settled(s, R), InOrderAt(s, R[1].begin, R[1].end)
  PROVE  Laid(n, Tail(R)) /\ Settled(s, Tail(R))
  <1>1. /\ Len(Tail(R)) = Len(R) - 1 /\ Len(R) \in Nat \ {0}
        /\ \A k \in 1 .. Len(R) - 1 : Tail(R)[k] = R[k + 1] /\ k + 1 \in 1 .. Len(R)
    OBVIOUS
  <1>2. Laid(n, Tail(R))
    <2>1. \A k, l \in 1 .. Len(R) - 1 : k # l => k + 1 # l + 1
      OBVIOUS
    <2>2. QED
      BY <1>1, <2>1 DEF Laid
  <1>3. ASSUME NEW i \in 1 .. Len(s), NEW j \in 1 .. Len(s), i < j
        PROVE  Leq(s[i], s[j]) \/ Pending(Tail(R), i, j)
    <2>1. CASE Pending(R, i, j)
      <3>1. PICK k \in 1 .. Len(R) : R[k].begin <= i /\ j < R[k].end
        BY <2>1 DEF Pending
      <3>2. CASE k = 1
        BY <1>3, <3>1, <3>2 DEF InOrderAt
      <3>3. CASE k # 1
        <4>1. k - 1 \in 1 .. Len(R) - 1
          BY <1>1, <3>3
        <4>2. Tail(R)[k - 1] = R[k]
          BY <1>1, <4>1
        <4>3. QED
          BY <1>1, <1>3, <3>1, <4>1, <4>2 DEF Pending
      <3>4. QED
        BY <3>2, <3>3
    <2>2. QED
      BY <1>3, <2>1 DEF Settled
  <1>4. QED
    BY <1>2, <1>3 DEF Settled

(* A range falls into two, the one sorted next and the one after it. *)
LEMMA DividedLaid ==
  ASSUME NEW n \in Nat, NEW R \in Seq(Ranges), R # <<>>, Laid(n, R),
         NEW p \in Ranges, NEW q \in Ranges, Apart(p, q),
         R[1].begin <= p.begin, p.begin <= p.end, p.end <= R[1].end,
         R[1].begin <= q.begin, q.begin <= q.end, q.end <= R[1].end
  PROVE  Laid(n, <<p>> \o (<<q>> \o Tail(R)))
  <1> DEFINE Q == <<p>> \o (<<q>> \o Tail(R))
  <1>1. /\ Len(Q) = Len(R) + 1 /\ Len(R) \in Nat \ {0}
        /\ Q[1] = p /\ Q[2] = q
        /\ \A k \in 3 .. Len(R) + 1 : Q[k] = R[k - 1]
    OBVIOUS
  <1> HIDE DEF Q
  <1>2. \A k \in 3 .. Len(R) + 1 : k - 1 \in 2 .. Len(R)
    BY <1>1
  <1>3. /\ 1 <= R[1].begin /\ R[1].end <= n + 1
        /\ R[1].begin \in Nat /\ R[1].end \in Nat
        /\ p.begin \in Nat /\ p.end \in Nat /\ q.begin \in Nat /\ q.end \in Nat
    <2>1. p.begin \in Nat /\ p.end \in Nat /\ q.begin \in Nat /\ q.end \in Nat
      BY DEF Ranges
    <2>2. 1 \in 1 .. Len(R)
      BY <1>1
    <2>3. QED
      BY <2>1, <2>2, RangesAre DEF Laid
  <1>4. \A k \in 2 .. Len(R) : /\ 1 <= R[k].begin /\ R[k].begin <= R[k].end
                               /\ R[k].end <= n + 1
                               /\ R[k].begin \in Nat /\ R[k].end \in Nat
                               /\ Apart(R[1], R[k])
    <2>1. \A k \in 2 .. Len(R) : k \in 1 .. Len(R) /\ 1 \in 1 .. Len(R) /\ k # 1
      BY <1>1
    <2>2. \A k \in 2 .. Len(R) : Apart(R[1], R[k])
      BY <2>1 DEF Laid
    <2>3. \A k \in 2 .. Len(R) : 1 <= R[k].begin /\ R[k].begin <= R[k].end /\ R[k].end <= n + 1
      BY <2>1 DEF Laid
    <2>4. \A k \in 2 .. Len(R) : R[k].begin \in Nat /\ R[k].end \in Nat
      BY <2>1, RangesAre
    <2>5. QED
      BY <2>2, <2>3, <2>4
  <1>5. \A k, l \in 2 .. Len(R) : k # l => Apart(R[k], R[l])
    BY <1>1 DEF Laid
  <1>6. \A k \in 3 .. Len(R) + 1 : /\ Apart(p, R[k - 1]) /\ Apart(R[k - 1], p)
                                   /\ Apart(q, R[k - 1]) /\ Apart(R[k - 1], q)
    <2> SUFFICES ASSUME NEW k \in 2 .. Len(R)
                 PROVE  /\ Apart(p, R[k]) /\ Apart(R[k], p)
                        /\ Apart(q, R[k]) /\ Apart(R[k], q)
      BY <1>2
    <2>1. R[k].begin \in Nat /\ R[k].end \in Nat /\ Apart(R[1], R[k])
      BY <1>4
    <2>2. QED
      BY <1>3, <2>1, SMTT(30) DEF Apart
  <1>7. ASSUME NEW k \in 1 .. Len(Q)
        PROVE  1 <= Q[k].begin /\ Q[k].begin <= Q[k].end /\ Q[k].end <= n + 1
    <2>1. CASE k = 1
      BY <1>1, <1>3, <2>1
    <2>2. CASE k = 2
      BY <1>1, <1>3, <2>2
    <2>3. CASE k \in 3 .. Len(R) + 1
      BY <1>1, <1>2, <1>4, <2>3
    <2>4. QED
      BY <1>1, <2>1, <2>2, <2>3
  <1>8. ASSUME NEW k \in 1 .. Len(Q), NEW l \in 1 .. Len(Q), k # l
        PROVE  Apart(Q[k], Q[l])
    <2>1. Apart(p, q) /\ Apart(q, p)
      BY DEF Apart
    <2>2. CASE k \in 3 .. Len(R) + 1 /\ l \in 3 .. Len(R) + 1
      <3>1. k - 1 # l - 1 /\ k - 1 \in 2 .. Len(R) /\ l - 1 \in 2 .. Len(R)
        BY <1>2, <1>8, <2>2
      <3>2. QED
        BY <1>1, <1>5, <2>2, <3>1
    <2>3. CASE k \in {1, 2} /\ l \in 3 .. Len(R) + 1
      BY <1>1, <1>6, <2>3
    <2>4. CASE l \in {1, 2} /\ k \in 3 .. Len(R) + 1
      BY <1>1, <1>6, <2>4
    <2>5. CASE k \in {1, 2} /\ l \in {1, 2}
      BY <1>1, <1>8, <2>1, <2>5
    <2>6. QED
      BY <1>1, <2>2, <2>3, <2>4, <2>5
  <1>9. QED
    BY <1>7, <1>8 DEF Laid, Q

LEMMA DividedSettled ==
  ASSUME NEW s \in Seq(Elements), NEW R \in Seq(Ranges), R # <<>>, Settled(s, R),
         NEW p \in Ranges, NEW q \in Ranges,
         \A i, j \in 1 .. Len(s) :
           R[1].begin <= i /\ i < j /\ j < R[1].end =>
             \/ Leq(s[i], s[j])
             \/ p.begin <= i /\ j < p.end
             \/ q.begin <= i /\ j < q.end
  PROVE  Settled(s, <<p>> \o (<<q>> \o Tail(R)))
  <1> DEFINE Q == <<p>> \o (<<q>> \o Tail(R))
  <1>1. /\ Len(Q) = Len(R) + 1 /\ Len(R) \in Nat \ {0}
        /\ Q[1] = p /\ Q[2] = q
        /\ \A k \in 3 .. Len(R) + 1 : Q[k] = R[k - 1]
    OBVIOUS
  <1> HIDE DEF Q
  <1>2. ASSUME NEW i \in 1 .. Len(s), NEW j \in 1 .. Len(s), i < j
        PROVE  Leq(s[i], s[j]) \/ Pending(Q, i, j)
    <2>1. 1 \in 1 .. Len(Q) /\ 2 \in 1 .. Len(Q)
      BY <1>1
    <2>2. CASE Pending(R, i, j)
      <3>1. PICK k \in 1 .. Len(R) : R[k].begin <= i /\ j < R[k].end
        BY <2>2 DEF Pending
      <3>2. CASE k = 1
        BY <1>1, <1>2, <2>1, <3>1, <3>2 DEF Pending
      <3>3. CASE k # 1
        <4>1. k + 1 \in 3 .. Len(R) + 1 /\ k + 1 \in 1 .. Len(Q)
          BY <1>1, <3>3
        <4>2. Q[k + 1] = R[k]
          BY <1>1, <4>1
        <4>3. QED
          BY <1>2, <3>1, <4>1, <4>2 DEF Pending
      <3>4. QED
        BY <3>2, <3>3
    <2>3. QED
      BY <1>2, <2>2 DEF Settled
  <1>3. QED
    BY <1>2 DEF Settled, Q

(* The steps of calls. *)
LEMMA OwesNone == Owes(<<>>, 0)
  <1> DEFINE w == [k \in 1 .. 1 |-> 0]
  <1>1. w \in [1 .. Len(<<>>) + 1 -> Nat] /\ w[1] = 0
    OBVIOUS
  <1> HIDE DEF w
  <1>2. QED
    BY <1>1 DEF Owes

LEMMA OwesNext ==
  ASSUME NEW R \in Seq(Ranges), R # <<>>, NEW x \in Nat, Owes(R, x)
  PROVE  \E y \in Nat : /\ Owes(Tail(R), y)
                        /\ x = y + MostSteps(Head(R).end - Head(R).begin)
  <1>1. PICK w \in [1 .. Len(R) + 1 -> Nat] :
          /\ w[1] = x
          /\ w[Len(R) + 1] = 0
          /\ \A k \in 1 .. Len(R) : w[k] = w[k + 1] + MostSteps(R[k].end - R[k].begin)
    BY DEF Owes
  <1>2. /\ Len(Tail(R)) = Len(R) - 1 /\ Len(R) \in Nat \ {0} /\ Head(R) = R[1]
        /\ \A k \in 1 .. Len(R) - 1 : Tail(R)[k] = R[k + 1] /\ k + 1 \in 1 .. Len(R)
    OBVIOUS
  <1> DEFINE v == [k \in 1 .. Len(R) |-> w[k + 1]]
  <1>3. v \in [1 .. Len(Tail(R)) + 1 -> Nat] /\ v[1] = w[2] /\ v[Len(R)] = 0
    BY <1>1, <1>2
  <1>4. \A k \in 1 .. Len(R) - 1 :
          v[k] = v[k + 1] + MostSteps(Tail(R)[k].end - Tail(R)[k].begin)
    BY <1>1, <1>2
  <1> HIDE DEF v
  <1>5. Owes(Tail(R), w[2])
    BY <1>2, <1>3, <1>4 DEF Owes
  <1>6. x = w[2] + MostSteps(Head(R).end - Head(R).begin) /\ w[2] \in Nat
    BY <1>1, <1>2
  <1>7. QED
    BY <1>5, <1>6

LEMMA OwesMore ==
  ASSUME NEW R \in Seq(Ranges), NEW y \in Nat, Owes(R, y), NEW r \in Ranges,
         r.begin <= r.end
  PROVE  /\ y + MostSteps(r.end - r.begin) \in Nat
         /\ Owes(<<r>> \o R, y + MostSteps(r.end - r.begin))
  <1> DEFINE m == MostSteps(r.end - r.begin)
             Q == <<r>> \o R
  <1>1. PICK w \in [1 .. Len(R) + 1 -> Nat] :
          /\ w[1] = y
          /\ w[Len(R) + 1] = 0
          /\ \A k \in 1 .. Len(R) : w[k] = w[k + 1] + MostSteps(R[k].end - R[k].begin)
    BY DEF Owes
  <1>2. m \in Nat
    <2>1. r.end - r.begin \in Nat
      BY DEF Ranges
    <2>2. QED
      BY <2>1 DEF MostSteps
  <1>3. /\ Len(Q) = Len(R) + 1 /\ Len(R) \in Nat /\ Q[1] = r
        /\ \A k \in 2 .. Len(R) + 1 : Q[k] = R[k - 1]
    OBVIOUS
  <1> DEFINE v == [k \in 1 .. Len(R) + 2 |-> IF k = 1 THEN y + m ELSE w[k - 1]]
  <1> HIDE DEF Q
  <1>4. \A k \in 1 .. Len(Q) : v[k] = v[k + 1] + MostSteps(Q[k].end - Q[k].begin)
    <2> SUFFICES ASSUME NEW k \in 1 .. Len(Q)
                 PROVE  v[k] = v[k + 1] + MostSteps(Q[k].end - Q[k].begin)
      OBVIOUS
    <2>1. CASE k = 1
      BY <1>1, <1>3, <2>1
    <2>2. CASE k \in 2 .. Len(R) + 1
      <3>1. k - 1 \in 1 .. Len(R) /\ v[k] = w[k - 1] /\ v[k + 1] = w[(k - 1) + 1]
        BY <1>3, <2>2
      <3>2. QED
        BY <1>1, <1>3, <2>2, <3>1
    <2>3. QED
      BY <1>3, <2>1, <2>2
  <1> HIDE DEF m
  <1>5. v \in [1 .. Len(Q) + 1 -> Nat] /\ v[1] = y + m /\ v[Len(Q) + 1] = 0
    BY <1>1, <1>2, <1>3
  <1> HIDE DEF v
  <1>6. Owes(Q, y + m)
    BY <1>4, <1>5 DEF Owes
  <1>7. QED
    BY <1>2, <1>6 DEF m, Q

------------------------------------------------------------------------------
(* Steps.                                                                  *)

LEMMA SortIs ==
  ASSUME NEW c \in Sort
  PROVE  /\ c.s \in Seq(Elements) /\ c.begin \in Nat /\ c.end \in Nat
         /\ c.calls \in Seq(Ranges) /\ c.at \in Sites /\ c.lt \in Nat /\ c.eqb \in Nat
         /\ c.eqe \in Nat /\ c.gt \in Nat /\ c.it \in Nat
  BY DEF Sort

LEMMA AtHand ==
  ASSUME NEW a \in Seq(Elements), NEW c \in Sort, c.at # "done", Arranged(c, a)
  PROVE  /\ Len(c.s) = Len(a) /\ Len(a) \in Nat
         /\ 1 <= c.begin /\ c.begin <= c.end /\ c.end <= Len(a) + 1
         /\ ToSort(c) \in Seq(Ranges) /\ ToSort(c) # <<>>
         /\ ToSort(c)[1].begin = c.begin /\ ToSort(c)[1].end = c.end
         /\ Tail(ToSort(c)) = c.calls
  <1> DEFINE r == [begin |-> c.begin, end |-> c.end]
  <1>1. r \in Ranges /\ r.begin = c.begin /\ r.end = c.end /\ c.calls \in Seq(Ranges)
    BY SortIs DEF Ranges
  <1>2. ToSort(c) = <<r>> \o c.calls
    BY DEF ToSort
  <1> HIDE DEF r
  <1>3. /\ ToSort(c) \in Seq(Ranges) /\ ToSort(c) # <<>> /\ ToSort(c)[1] = r
        /\ Tail(ToSort(c)) = c.calls /\ 1 \in 1 .. Len(ToSort(c))
    BY <1>1, <1>2
  <1>4. Len(c.s) = Len(a) /\ Len(a) \in Nat
    BY DEF Arranged, Rearranged
  <1>5. 1 <= r.begin /\ r.begin <= r.end /\ r.end <= Len(a) + 1
    BY <1>3 DEF Arranged, Laid
  <1>6. QED
    BY <1>1, <1>3, <1>4, <1>5

(* A step that stays in its range keeps what is arranged. *)
LEMMA WithinKeeps ==
  ASSUME NEW a \in Seq(Elements), NEW c \in Sort, NEW d \in Sort,
         c.at # "done", d.at # "done", Arranged(c, a),
         d.begin = c.begin, d.end = c.end, d.calls = c.calls,
         Rearranged(c.s, d.s, c.begin, c.end)
  PROVE  Arranged(d, a)
  <1>1. /\ Len(c.s) = Len(a) /\ Len(a) \in Nat
        /\ 1 <= c.begin /\ c.begin <= c.end /\ c.end <= Len(a) + 1
        /\ ToSort(c) \in Seq(Ranges) /\ ToSort(c) # <<>>
        /\ ToSort(c)[1].begin = c.begin /\ ToSort(c)[1].end = c.end
    BY AtHand
  <1>2. ToSort(d) = ToSort(c)
    BY DEF ToSort
  <1>3. c.s \in Seq(Elements) /\ c.begin \in Nat /\ c.end \in Nat
    BY SortIs
  <1>4. Rearranged(a, d.s, 1, Len(a) + 1)
    <2>1. Rearranged(c.s, d.s, 1, Len(c.s) + 1)
      BY <1>1, <1>3, RearrangedWithin
    <2>2. Rearranged(c.s, d.s, 1, Len(a) + 1)
      BY <1>1, <2>1
    <2>3. Len(a) + 1 \in Nat
      BY <1>1
    <2>4. QED
      BY <2>2, <2>3, RearrangedTwice DEF Arranged
  <1>5. Laid(Len(a), ToSort(c)) /\ Settled(c.s, ToSort(c))
    BY DEF Arranged
  <1>6. Laid(Len(c.s), ToSort(c))
    BY <1>1, <1>5
  <1>7. Rearranged(c.s, d.s, ToSort(c)[1].begin, ToSort(c)[1].end)
    BY <1>1
  <1>8. Settled(d.s, ToSort(c))
    BY <1>1, <1>3, <1>5, <1>6, <1>7, SettledKept
  <1>9. QED
    BY <1>2, <1>4, <1>5, <1>8 DEF Arranged

(* A step takes what it may. *)
LEMMA StepsAfford ==
  ASSUME NEW c, NEW d, NEW n, NEW taken \in Nat, Afford(c, n, taken),
         n \in Nat, d.calls = c.calls,
         StepsLeft(c) \in Int, StepsLeft(d) \in Int, StepsLeft(d) < StepsLeft(c)
  PROVE  Afford(d, n, taken + 1)
  <1>1. PICK x \in Nat : Owes(c.calls, x) /\ taken + StepsLeft(c) + x <= MostSteps(n)
    BY DEF Afford
  <1>2. MostSteps(n) \in Int
    BY DEF MostSteps
  <1>3. (taken + 1) + StepsLeft(d) + x <= MostSteps(n)
    BY <1>1, <1>2
  <1>4. QED
    BY <1>1, <1>3 DEF Afford

LEMMA HalvesIs ==
  ASSUME NEW len \in Nat
  PROVE  /\ Halves(len) \in Nat /\ MostSteps(len) \in Nat
         /\ len >= 1 => Halves(len) + 4 * len + 1 <= MostSteps(len)
         /\ len + 1 < MostSteps(len)
  <1>1. len * len \in Nat
    OBVIOUS
  <1>2. (len + 1) * (len + 1) = len * len + 2 * len + 1
    OBVIOUS
  <1>3. QED
    BY <1>1, <1>2 DEF Halves, MostSteps

LEMMA TopOfLoopSorts ==
  ASSUME NEW a \in Seq(Elements), NEW c, NEW taken \in Nat,
         Underway(c, a, taken), c.at = "range"
  PROVE  Underway(TopOfLoop(c, Less), a, taken + 1)
  <1> DEFINE d == TopOfLoop(c, Less)
             middle == c.begin + (c.end - c.begin) \div 2
             t == Median(c.s, c.begin, middle, c.end - 1, Less)
             len == c.end - c.begin
  <1>1. c \in Sort /\ Arranged(c, a) /\ Afford(c, Len(a), taken)
    BY DEF Underway
  <1>2. /\ c.s \in Seq(Elements) /\ c.begin \in Nat /\ c.end \in Nat
        /\ c.calls \in Seq(Ranges) /\ c.lt \in Nat /\ c.eqb \in Nat
        /\ c.eqe \in Nat /\ c.gt \in Nat /\ c.it \in Nat
    BY <1>1, SortIs
  <1>3. /\ Len(c.s) = Len(a) /\ Len(a) \in Nat
        /\ 1 <= c.begin /\ c.begin <= c.end /\ c.end <= Len(a) + 1
    BY <1>1, AtHand
  <1>4. len \in Nat /\ StepsLeft(c) = MostSteps(len)
    BY <1>2, <1>3 DEF StepsLeft
  <1>5. CASE len > SmallSort
    <2>1. c.begin < c.end
      BY <1>2, <1>5, SmallAssumption
    <2>2. middle \in c.begin .. c.end - 1 /\ Rearranged(c.s, t, c.begin, c.end)
      BY <1>2, <1>3, <2>1, MedianRearranges
    <2> HIDE DEF t, middle
    <2>3. d = [c EXCEPT !.s = t, !.eqb = middle, !.eqe = middle + 1, !.at = "equals"]
      BY <1>5 DEF TopOfLoop, t, middle
    <2> HIDE DEF d
    <2>4. d = [s |-> t, begin |-> c.begin, end |-> c.end, calls |-> c.calls, at |-> "equals",
               lt |-> c.lt, eqb |-> middle, eqe |-> middle + 1, gt |-> c.gt, it |-> c.it]
      BY <1>1, <2>3 DEF Sort
    <2>5. t \in Seq(Elements) /\ Len(t) = Len(a) /\ middle \in Nat
      BY <1>2, <1>3, <2>2 DEF Rearranged
    <2>6. d \in Sort
      BY <1>2, <2>4, <2>5 DEF Sort, Sites
    <2>7. /\ d.s = t /\ d.begin = c.begin /\ d.end = c.end /\ d.calls = c.calls
          /\ d.at = "equals" /\ d.eqb = middle /\ d.eqe = middle + 1
      BY <2>4
    <2>8. Arranged(d, a)
      BY <1>1, <2>2, <2>6, <2>7, WithinKeeps
    <2>9. Phase(d)
      <3>1. Sides(t, c.begin, middle, middle, middle + 1, middle + 1, c.end, t[middle])
        BY <1>2, <2>2, <2>5 DEF Sides
      <3>2. QED
        BY <2>7, <3>1 DEF Phase
    <2>10. Afford(d, Len(a), taken + 1)
      <3>1. StepsLeft(d) = 4 * ((middle - c.begin) + (c.end - (middle + 1))) + 4 + Halves(len)
        BY <2>7 DEF StepsLeft
      <3>2. Halves(len) \in Nat /\ MostSteps(len) \in Nat
            /\ Halves(len) + 4 * len + 1 <= MostSteps(len)
        <4>1. len >= 1 /\ len \in Nat
          BY <1>2, <1>4, <2>1
        <4> HIDE DEF len
        <4>2. QED
          BY <4>1, HalvesIs
      <3>3. (middle - c.begin) + (c.end - (middle + 1)) = len - 1
        <4>1. middle \in Nat /\ c.begin \in Nat /\ c.end \in Nat
          BY <1>2, <2>5
        <4>2. QED
          BY <4>1
      <3>4. StepsLeft(d) = 4 * (len - 1) + 4 + Halves(len)
        BY <3>1, <3>3
      <3> HIDE DEF len
      <3>5. StepsLeft(d) \in Int /\ StepsLeft(d) < StepsLeft(c) /\ StepsLeft(c) \in Int
        BY <1>4, <3>2, <3>4
      <3>6. QED
        BY <1>1, <1>3, <2>7, <3>5, StepsAfford
    <2>11. QED
      BY <2>6, <2>8, <2>9, <2>10 DEF Underway, d
  <1>6. CASE ~ (len > SmallSort)
    <2>1. d = [c EXCEPT !.it = c.begin + 1, !.at = "insert"]
      BY <1>6 DEF TopOfLoop
    <2> HIDE DEF d
    <2>2. d = [s |-> c.s, begin |-> c.begin, end |-> c.end, calls |-> c.calls, at |-> "insert",
               lt |-> c.lt, eqb |-> c.eqb, eqe |-> c.eqe, gt |-> c.gt, it |-> c.begin + 1]
      BY <1>1, <2>1 DEF Sort
    <2>3. d \in Sort
      BY <1>2, <2>2 DEF Sort, Sites
    <2>4. /\ d.s = c.s /\ d.begin = c.begin /\ d.end = c.end /\ d.calls = c.calls
          /\ d.at = "insert" /\ d.it = c.begin + 1
      BY <2>2
    <2>5. Arranged(d, a)
      <3>1. Rearranged(c.s, d.s, c.begin, c.end)
        BY <1>2, <2>4, RearrangedNot
      <3>2. QED
        BY <1>1, <2>3, <2>4, <3>1, WithinKeeps
    <2>6. Phase(d)
      <3>1. InOrderAt(c.s, c.begin, c.begin + 1)
        BY <1>2 DEF InOrderAt
      <3>2. QED
        BY <1>2, <2>4, <3>1 DEF Phase
    <2>7. Afford(d, Len(a), taken + 1)
      <3>1. StepsLeft(d) = IF c.begin + 1 < c.end THEN c.end - (c.begin + 1) + 1 ELSE 1
        BY <2>4 DEF StepsLeft
      <3>2. StepsLeft(d) <= len + 1 /\ StepsLeft(d) \in Int
        BY <1>2, <1>4, <3>1
      <3>3. MostSteps(len) \in Nat /\ len + 1 < MostSteps(len)
        BY <1>4, HalvesIs
      <3> HIDE DEF len
      <3>4. QED
        BY <1>1, <1>3, <1>4, <2>4, <3>2, <3>3, StepsAfford
    <2>8. QED
      BY <2>3, <2>5, <2>6, <2>7 DEF Underway, d
  <1>7. QED
    BY <1>5, <1>6

(* A step in a range of the sort that lessens the steps that are left. *)
LEMMA StepWithin ==
  ASSUME NEW a \in Seq(Elements), NEW c, NEW taken \in Nat,
         Underway(c, a, taken), c.at # "done",
         NEW d \in Sort, d.at # "done",
         d.begin = c.begin, d.end = c.end, d.calls = c.calls,
         Rearranged(c.s, d.s, c.begin, c.end), Phase(d),
         StepsLeft(c) \in Int, StepsLeft(d) \in Int, StepsLeft(d) < StepsLeft(c)
  PROVE  Underway(d, a, taken + 1)
  <1>1. c \in Sort /\ Arranged(c, a) /\ Afford(c, Len(a), taken)
    BY DEF Underway
  <1>2. Arranged(d, a)
    BY <1>1, WithinKeeps
  <1>3. Len(a) \in Nat
    OBVIOUS
  <1>4. Afford(d, Len(a), taken + 1)
    BY <1>1, <1>3, StepsAfford
  <1>5. QED
    BY <1>2, <1>4 DEF Underway

LEMMA DividingLess ==
  ASSUME NEW c \in Sort, NEW d \in Sort, c.begin <= c.end,
         d.begin = c.begin, d.end = c.end,
         \/ c.at \in {"right", "left", "cross"} /\ d.at = c.at /\ Wide(d) < Wide(c)
         \/ c.at = "cross" /\ d.at = "right" /\ Wide(d) < Wide(c)
         \/ c.at = "right" /\ d.at = "left" /\ Wide(d) = Wide(c)
         \/ c.at = "left" /\ d.at = "cross" /\ Wide(d) = Wide(c)
  PROVE  StepsLeft(c) \in Int /\ StepsLeft(d) \in Int /\ StepsLeft(d) < StepsLeft(c)
  <1> DEFINE h == Halves(c.end - c.begin)
  <1>1. h \in Int
    <2>1. c.end - c.begin \in Nat
      BY SortIs
    <2>2. QED
      BY <2>1, HalvesIs
  <1>2. Wide(c) \in Int /\ Wide(d) \in Int
    BY SortIs DEF Wide
  <1>3. /\ c.at = "right" => StepsLeft(c) = 3 * Wide(c) + 3 + h
        /\ c.at = "left" => StepsLeft(c) = 3 * Wide(c) + 2 + h
        /\ c.at = "cross" => StepsLeft(c) = 3 * Wide(c) + 1 + h
    BY DEF StepsLeft
  <1>4. /\ d.at = "right" => StepsLeft(d) = 3 * Wide(d) + 3 + h
        /\ d.at = "left" => StepsLeft(d) = 3 * Wide(d) + 2 + h
        /\ d.at = "cross" => StepsLeft(d) = 3 * Wide(d) + 1 + h
    BY DEF StepsLeft
  <1> HIDE DEF h
  <1>5. QED
    BY <1>1, <1>2, <1>3, <1>4

LEMMA EqualsLess ==
  ASSUME NEW b \in Nat, NEW e \in Nat, NEW p \in Nat, NEW q \in Nat, NEW h \in Int,
         NEW now, NEW next, now = 4 * ((p - b) + (e - q)) + 4 + h,
         \/ next = 4 * ((p - 1 - b) + (e - q)) + 4 + h
         \/ next = 4 * ((p - b) + (e - (q + 1))) + 4 + h
         \/ next = 3 * ((p - b) + (e - q)) + 3 + h /\ b <= p /\ q <= e
  PROVE  now \in Int /\ next \in Int /\ next < now
  OBVIOUS

LEMMA EqualsSorts ==
  ASSUME NEW a \in Seq(Elements), NEW c, NEW taken \in Nat,
         Underway(c, a, taken), c.at = "equals"
  PROVE  Underway(Equals(c), a, taken + 1)
  <1> DEFINE d == Equals(c)
             v == c.s[c.eqb]
             h == Halves(c.end - c.begin)
  <1>1. c \in Sort /\ Arranged(c, a) /\ Phase(c)
    BY DEF Underway
  <1>2. /\ c.s \in Seq(Elements) /\ c.begin \in Nat /\ c.end \in Nat
        /\ c.calls \in Seq(Ranges) /\ c.lt \in Nat /\ c.eqb \in Nat
        /\ c.eqe \in Nat /\ c.gt \in Nat /\ c.it \in Nat
    BY <1>1, SortIs
  <1>3. /\ Len(c.s) = Len(a) /\ Len(a) \in Nat
        /\ 1 <= c.begin /\ c.begin <= c.end /\ c.end <= Len(a) + 1
    BY <1>1, AtHand
  <1>4. Sides(c.s, c.begin, c.eqb, c.eqb, c.eqe, c.eqe, c.end, v)
    BY <1>1 DEF Phase
  <1>5. /\ c.begin <= c.eqb /\ c.eqb < c.eqe /\ c.eqe <= c.end
        /\ \A i \in 1 .. Len(a) : c.eqb <= i /\ i < c.eqe => c.s[i] = v
    BY <1>3, <1>4 DEF Sides
  <1>6. h \in Int /\ StepsLeft(c) = 4 * ((c.eqb - c.begin) + (c.end - c.eqe)) + 4 + h
    <2>1. c.end - c.begin \in Nat
      BY <1>2, <1>3
    <2>2. QED
      BY <2>1, HalvesIs DEF StepsLeft
  <1> HIDE DEF h
  <1>12. c.begin \in Nat /\ c.end \in Nat /\ c.eqb \in Nat /\ c.eqe \in Nat
    BY <1>2
  <1>7. Rearranged(c.s, c.s, c.begin, c.end)
    BY <1>2, RearrangedNot
  <1>8. CASE c.eqb # c.begin /\ c.s[c.eqb - 1] = c.s[c.eqb]
    <2>1. d = [c EXCEPT !.eqb = c.eqb - 1]
      BY <1>8 DEF Equals
    <2> HIDE DEF d
    <2>2. d = [s |-> c.s, begin |-> c.begin, end |-> c.end, calls |-> c.calls, at |-> "equals",
               lt |-> c.lt, eqb |-> c.eqb - 1, eqe |-> c.eqe, gt |-> c.gt, it |-> c.it]
      BY <1>1, <2>1 DEF Sort
    <2>3. c.eqb - 1 \in Nat /\ c.begin <= c.eqb - 1
      BY <1>2, <1>5, <1>8
    <2>4. d \in Sort
      BY <1>2, <2>2, <2>3 DEF Sort, Sites
    <2>5. /\ d.s = c.s /\ d.begin = c.begin /\ d.end = c.end /\ d.calls = c.calls
          /\ d.at = "equals" /\ d.eqb = c.eqb - 1 /\ d.eqe = c.eqe
      BY <2>2
    <2>6. Phase(d)
      <3>1. \A i \in 1 .. Len(a) : c.eqb - 1 <= i /\ i < c.eqe => c.s[i] = c.s[c.eqb - 1]
        <4>1. ASSUME NEW i \in 1 .. Len(a), c.eqb - 1 <= i, i < c.eqe
              PROVE  i = c.eqb - 1 \/ c.eqb <= i
          BY <1>12, <4>1
        <4>2. c.s[c.eqb - 1] = v
          BY <1>8
        <4>3. QED
          BY <1>5, <4>1, <4>2
      <3>2. Sides(c.s, c.begin, c.eqb - 1, c.eqb - 1, c.eqe, c.eqe, c.end, c.s[c.eqb - 1])
        BY <1>2, <1>3, <1>5, <2>3, <3>1, SMTT(30) DEF Sides
      <3>3. QED
        BY <2>5, <3>2 DEF Phase
    <2>7. StepsLeft(d) = 4 * ((c.eqb - 1 - c.begin) + (c.end - c.eqe)) + 4 + h
      BY <2>5 DEF StepsLeft, h
    <2>8. StepsLeft(c) \in Int /\ StepsLeft(d) \in Int /\ StepsLeft(d) < StepsLeft(c)
      BY <1>6, <1>12, <2>7, EqualsLess
    <2>9. QED
      BY <1>7, <2>4, <2>5, <2>6, <2>8, StepWithin DEF d
  <1>9. CASE /\ ~ (c.eqb # c.begin /\ c.s[c.eqb - 1] = c.s[c.eqb])
             /\ c.eqe # c.end /\ c.s[c.eqe] = c.s[c.eqb]
    <2>1. d = [c EXCEPT !.eqe = c.eqe + 1]
      BY <1>9 DEF Equals
    <2> HIDE DEF d
    <2>2. d = [s |-> c.s, begin |-> c.begin, end |-> c.end, calls |-> c.calls, at |-> "equals",
               lt |-> c.lt, eqb |-> c.eqb, eqe |-> c.eqe + 1, gt |-> c.gt, it |-> c.it]
      BY <1>1, <2>1 DEF Sort
    <2>3. c.eqe + 1 \in Nat /\ c.eqe + 1 <= c.end
      BY <1>2, <1>5, <1>9, SMTT(30)
    <2>4. d \in Sort
      BY <1>2, <2>2, <2>3 DEF Sort, Sites
    <2>5. /\ d.s = c.s /\ d.begin = c.begin /\ d.end = c.end /\ d.calls = c.calls
          /\ d.at = "equals" /\ d.eqb = c.eqb /\ d.eqe = c.eqe + 1
      BY <2>2
    <2>6. Phase(d)
      <3>1. \A i \in 1 .. Len(a) : c.eqb <= i /\ i < c.eqe + 1 => c.s[i] = v
        <4>1. ASSUME NEW i \in 1 .. Len(a), c.eqb <= i, i < c.eqe + 1
              PROVE  c.s[i] = v
          <5>1. i < c.eqe \/ i = c.eqe
            BY <1>12, <4>1
          <5>2. c.s[c.eqe] = v
            BY <1>9
          <5>3. QED
            BY <1>5, <4>1, <5>1, <5>2
        <4>2. QED
          BY <4>1
      <3>2. Sides(c.s, c.begin, c.eqb, c.eqb, c.eqe + 1, c.eqe + 1, c.end, c.s[c.eqb])
        BY <1>2, <1>3, <1>5, <2>3, <3>1 DEF Sides
      <3>3. QED
        BY <2>5, <3>2 DEF Phase
    <2>7. StepsLeft(d) = 4 * ((c.eqb - c.begin) + (c.end - (c.eqe + 1))) + 4 + h
      BY <2>5 DEF StepsLeft, h
    <2>8. StepsLeft(c) \in Int /\ StepsLeft(d) \in Int /\ StepsLeft(d) < StepsLeft(c)
      BY <1>6, <1>12, <2>7, EqualsLess
    <2>9. QED
      BY <1>7, <2>4, <2>5, <2>6, <2>8, StepWithin DEF d
  <1>10. CASE /\ ~ (c.eqb # c.begin /\ c.s[c.eqb - 1] = c.s[c.eqb])
              /\ ~ (c.eqe # c.end /\ c.s[c.eqe] = c.s[c.eqb])
    <2>1. d = [c EXCEPT !.lt = c.eqb, !.gt = c.eqe, !.at = "right"]
      BY <1>10 DEF Equals
    <2> HIDE DEF d
    <2>2. d = [s |-> c.s, begin |-> c.begin, end |-> c.end, calls |-> c.calls, at |-> "right",
               lt |-> c.eqb, eqb |-> c.eqb, eqe |-> c.eqe, gt |-> c.eqe, it |-> c.it]
      BY <1>1, <2>1 DEF Sort
    <2>3. d \in Sort
      BY <1>2, <2>2 DEF Sort, Sites
    <2>4. /\ d.s = c.s /\ d.begin = c.begin /\ d.end = c.end /\ d.calls = c.calls
          /\ d.at = "right" /\ d.lt = c.eqb /\ d.eqb = c.eqb /\ d.eqe = c.eqe /\ d.gt = c.eqe
      BY <2>2
    <2>5. Phase(d)
      BY <1>4, <2>4 DEF Phase, Dividing
    <2>6. StepsLeft(d) = 3 * ((c.eqb - c.begin) + (c.end - c.eqe)) + 3 + h
      BY <2>4 DEF StepsLeft, Wide, h
    <2>7. StepsLeft(c) \in Int /\ StepsLeft(d) \in Int /\ StepsLeft(d) < StepsLeft(c)
      <3>1. c.begin <= c.eqb /\ c.eqe <= c.end
        BY <1>5
      <3>2. QED
        BY <1>6, <1>12, <2>6, <3>1, EqualsLess
    <2>8. QED
      BY <1>7, <2>3, <2>4, <2>5, <2>7, StepWithin DEF d
  <1>11. QED
    BY <1>8, <1>9, <1>10

LEMMA FoundRight ==
  ASSUME NEW s \in Seq(Elements), NEW b \in Nat, NEW e \in Nat, NEW v,
         NEW lt \in Nat, NEW eqb \in Nat, NEW eqe \in Nat, NEW gt \in Nat, gt < e,
         Sides(s, b, lt, eqb, eqe, gt, e, v), Leq(v, s[gt])
  PROVE  Sides(s, b, lt, eqb, eqe, gt + 1, e, v)
  BY DEF Sides

LEMMA FoundLeft ==
  ASSUME NEW s \in Seq(Elements), NEW b \in Nat, NEW e \in Nat, NEW v,
         NEW lt \in Nat, NEW eqb \in Nat, NEW eqe \in Nat, NEW gt \in Nat, b < lt,
         Sides(s, b, lt, eqb, eqe, gt, e, v), Leq(s[lt - 1], v)
  PROVE  Sides(s, b, lt - 1, eqb, eqe, gt, e, v)
  BY DEF Sides

LEMMA DividingIs ==
  ASSUME NEW a \in Seq(Elements), NEW c, NEW taken \in Nat,
         Underway(c, a, taken), c.at \in {"right", "left", "cross"}
  PROVE  /\ c \in Sort
         /\ c.s \in Seq(Elements) /\ c.begin \in Nat /\ c.end \in Nat
         /\ c.calls \in Seq(Ranges) /\ c.lt \in Nat /\ c.eqb \in Nat
         /\ c.eqe \in Nat /\ c.gt \in Nat /\ c.it \in Nat
         /\ Len(c.s) = Len(a) /\ Len(a) \in Nat
         /\ 1 <= c.begin /\ c.begin <= c.end /\ c.end <= Len(c.s) + 1
         /\ Sides(c.s, c.begin, c.lt, c.eqb, c.eqe, c.gt, c.end, c.s[c.eqb])
         /\ c.begin <= c.lt /\ c.lt <= c.eqb /\ c.eqb < c.eqe /\ c.eqe <= c.gt
         /\ c.gt <= c.end
         /\ c.s[c.eqb] \in Elements
         /\ c.at \in {"left", "cross"} => c.gt = c.end \/ Leq(c.s[c.gt], c.s[c.eqb])
         /\ c.at = "cross" => c.lt = c.begin \/ Leq(c.s[c.eqb], c.s[c.lt - 1])
         /\ Rearranged(c.s, c.s, c.begin, c.end)
  <1>1. c \in Sort /\ Arranged(c, a) /\ Phase(c)
    BY DEF Underway
  <1>2. /\ c.s \in Seq(Elements) /\ c.begin \in Nat /\ c.end \in Nat
        /\ c.calls \in Seq(Ranges) /\ c.lt \in Nat /\ c.eqb \in Nat
        /\ c.eqe \in Nat /\ c.gt \in Nat /\ c.it \in Nat
    BY <1>1, SortIs
  <1>3. /\ Len(c.s) = Len(a) /\ Len(a) \in Nat
        /\ 1 <= c.begin /\ c.begin <= c.end /\ c.end <= Len(c.s) + 1
    BY <1>1, AtHand
  <1>4. Dividing(c)
    BY <1>1 DEF Phase
  <1>5. Sides(c.s, c.begin, c.lt, c.eqb, c.eqe, c.gt, c.end, c.s[c.eqb])
    BY <1>4 DEF Dividing
  <1>6. /\ c.begin <= c.lt /\ c.lt <= c.eqb /\ c.eqb < c.eqe /\ c.eqe <= c.gt
        /\ c.gt <= c.end /\ c.s[c.eqb] \in Elements
    <2>1. /\ c.s \in Seq(Elements) /\ c.begin \in Nat /\ c.end \in Nat /\ c.lt \in Nat
          /\ c.eqb \in Nat /\ c.eqe \in Nat /\ c.gt \in Nat
      BY <1>2
    <2>2. 1 <= c.begin /\ c.end <= Len(c.s) + 1
      BY <1>3
    <2>3. /\ c.begin <= c.lt /\ c.lt <= c.eqb /\ c.eqb < c.eqe /\ c.eqe <= c.gt
          /\ c.gt <= c.end
      BY <1>5 DEF Sides
    <2>4. c.eqb \in 1 .. Len(c.s)
      BY <2>1, <2>2, <2>3
    <2>5. QED
      BY <2>1, <2>3, <2>4
  <1>7. Rearranged(c.s, c.s, c.begin, c.end)
    BY <1>2, RearrangedNot
  <1>8. QED
    BY <1>1, <1>2, <1>3, <1>4, <1>5, <1>6, <1>7 DEF Dividing

LEMMA DividingStep ==
  ASSUME NEW a \in Seq(Elements), NEW c, NEW taken \in Nat,
         Underway(c, a, taken), c.at \in {"right", "left", "cross"},
         NEW d \in Sort, d.at \in {"right", "left", "cross"},
         d.begin = c.begin, d.end = c.end, d.calls = c.calls,
         Rearranged(c.s, d.s, c.begin, c.end),
         NEW v, Sides(d.s, c.begin, d.lt, d.eqb, d.eqe, d.gt, c.end, v),
         d.at \in {"left", "cross"} => d.gt = c.end \/ Leq(d.s[d.gt], v),
         d.at = "cross" => d.lt = c.begin \/ Leq(v, d.s[d.lt - 1]),
         \/ d.at = c.at /\ Wide(d) < Wide(c)
         \/ c.at = "cross" /\ d.at = "right" /\ Wide(d) < Wide(c)
         \/ c.at = "right" /\ d.at = "left" /\ Wide(d) = Wide(c)
         \/ c.at = "left" /\ d.at = "cross" /\ Wide(d) = Wide(c)
  PROVE  Underway(d, a, taken + 1)
  <1>1. /\ c \in Sort /\ c.begin \in Nat /\ c.end \in Nat /\ c.begin <= c.end
        /\ 1 <= c.begin /\ c.end <= Len(c.s) + 1
    BY DividingIs
  <1>2. Len(d.s) = Len(c.s)
    BY DEF Rearranged
  <1>3. d.s[d.eqb] = v
    <2>1. /\ d.s \in Seq(Elements) /\ d.lt \in Nat /\ d.eqb \in Nat /\ d.eqe \in Nat
          /\ d.gt \in Nat
      BY SortIs
    <2>2. 1 <= c.begin /\ c.end <= Len(d.s) + 1 /\ c.begin \in Nat /\ c.end \in Nat
      BY <1>1, <1>2
    <2>3. c.begin <= d.lt /\ d.lt <= d.eqb /\ d.eqb < d.eqe /\ d.eqe <= d.gt /\ d.gt <= c.end
      BY DEF Sides
    <2>4. d.eqb \in 1 .. Len(d.s)
      BY <2>1, <2>2, <2>3
    <2>5. QED
      BY <2>3, <2>4 DEF Sides
  <1>4. Dividing(d)
    BY <1>3 DEF Dividing
  <1>5. Phase(d)
    BY <1>4 DEF Phase
  <1>6. StepsLeft(c) \in Int /\ StepsLeft(d) \in Int /\ StepsLeft(d) < StepsLeft(c)
    BY <1>1, DividingLess
  <1>7. c.at # "done" /\ d.at # "done"
    OBVIOUS
  <1>8. QED
    BY <1>5, <1>6, <1>7, StepWithin

LEMMA WideIs ==
  ASSUME NEW b \in Nat, NEW e \in Nat, NEW lt \in Nat, NEW gt \in Nat
  PROVE  /\ (lt - b) + (e - gt) \in Int
         /\ (lt - 1 - b) + (e - gt) < (lt - b) + (e - gt)
         /\ (lt - b) + (e - (gt + 1)) < (lt - b) + (e - gt)
         /\ (lt - 1 - b) + (e - (gt + 1)) < (lt - b) + (e - gt)
  OBVIOUS

(* Places that lt and gt leave in the range. *)
LeftPlaces(b, e, lt, eqb, eqe) ==
  /\ b < lt /\ lt - 1 \in Nat /\ eqb - 1 \in Nat /\ eqe - 1 \in Nat
  /\ lt - 1 \in b .. e - 1 /\ eqb - 1 \in b .. e - 1 /\ eqe - 1 \in b .. e - 1

RightPlaces(b, e, eqb, eqe, gt) ==
  gt < e /\ gt \in b .. e - 1 /\ eqb \in b .. e - 1 /\ eqe \in b .. e - 1

LEMMA PlacesWithin ==
  ASSUME NEW s \in Seq(Elements), NEW v, NEW b \in Nat, NEW e \in Nat,
         NEW lt \in Nat, NEW eqb \in Nat, NEW eqe \in Nat, NEW gt \in Nat,
         1 <= b, e <= Len(s) + 1, Sides(s, b, lt, eqb, eqe, gt, e, v)
  PROVE  /\ lt # b => LeftPlaces(b, e, lt, eqb, eqe)
         /\ gt # e => RightPlaces(b, e, eqb, eqe, gt)
  <1>1. b <= lt /\ lt <= eqb /\ eqb < eqe /\ eqe <= gt /\ gt <= e
    BY DEF Sides
  <1>2. QED
    BY <1>1 DEF LeftPlaces, RightPlaces

LEMMA PlacesAre ==
  ASSUME NEW s \in Seq(Elements), NEW b \in Nat, NEW e \in Nat, 1 <= b, e <= Len(s) + 1,
         NEW i \in b .. e - 1
  PROVE  i \in 1 .. Len(s)
  OBVIOUS

LEMMA FromRightSorts ==
  ASSUME NEW a \in Seq(Elements), NEW c, NEW taken \in Nat,
         Underway(c, a, taken), c.at = "right"
  PROVE  Underway(FromRight(c, Less), a, taken + 1)
  <1> DEFINE d == FromRight(c, Less)
             v == c.s[c.eqb]
  <1>1. /\ c \in Sort
        /\ c.s \in Seq(Elements) /\ c.begin \in Nat /\ c.end \in Nat
        /\ c.calls \in Seq(Ranges) /\ c.lt \in Nat /\ c.eqb \in Nat
        /\ c.eqe \in Nat /\ c.gt \in Nat /\ c.it \in Nat
    BY DividingIs
  <1>2. /\ Len(c.s) = Len(a) /\ Len(a) \in Nat
        /\ 1 <= c.begin /\ c.begin <= c.end /\ c.end <= Len(c.s) + 1
        /\ Sides(c.s, c.begin, c.lt, c.eqb, c.eqe, c.gt, c.end, v)
        /\ c.begin <= c.lt /\ c.lt <= c.eqb /\ c.eqb < c.eqe /\ c.eqe <= c.gt
        /\ c.gt <= c.end /\ v \in Elements
        /\ Rearranged(c.s, c.s, c.begin, c.end)
    BY DividingIs
  <1>3. Wide(c) = (c.lt - c.begin) + (c.end - c.gt)
    BY DEF Wide
  <1>4. CASE \/ c.gt = c.end
             \/ c.gt # c.end /\ <<v, c.s[c.gt]>> \notin Less /\ c.s[c.gt] # v
    <2>1. d = [c EXCEPT !.at = "left"]
      BY <1>4 DEF FromRight
    <2> HIDE DEF d
    <2>2. d = [s |-> c.s, begin |-> c.begin, end |-> c.end, calls |-> c.calls, at |-> "left",
               lt |-> c.lt, eqb |-> c.eqb, eqe |-> c.eqe, gt |-> c.gt, it |-> c.it]
      BY <1>1, <2>1 DEF Sort
    <2>3. d \in Sort
      BY <1>1, <2>2 DEF Sort, Sites
    <2>4. /\ d.s = c.s /\ d.begin = c.begin /\ d.end = c.end /\ d.calls = c.calls
          /\ d.at = "left" /\ d.lt = c.lt /\ d.eqb = c.eqb /\ d.eqe = c.eqe /\ d.gt = c.gt
      BY <2>2
    <2> HIDE DEF v
    <2>5. c.gt = c.end \/ Leq(c.s[c.gt], v)
      <3>1. CASE c.gt # c.end
        <4>3. RightPlaces(c.begin, c.end, c.eqb, c.eqe, c.gt)
          BY <1>1, <1>2, <3>1, PlacesWithin
        <4>4. c.gt \in c.begin .. c.end - 1
          BY <4>3 DEF RightPlaces
        <4>1. c.gt \in 1 .. Len(c.s)
          BY <1>1, <1>2, <4>4, PlacesAre
        <4>2. c.s[c.gt] \in Elements
          BY <1>1, <4>1
        <4>5. <<v, c.s[c.gt]>> \notin Less
          BY <1>4, <3>1
        <4>6. QED
          BY <1>2, <4>2, <4>5, LeqTotal
      <3>2. QED
        BY <3>1
    <2>6. Wide(d) = Wide(c)
      BY <2>4 DEF Wide
    <2>7. QED
      BY <1>2, <2>3, <2>4, <2>5, <2>6, DividingStep DEF d
  <1>5. CASE c.gt # c.end /\ <<v, c.s[c.gt]>> \in Less
    <2>1. d = [c EXCEPT !.gt = c.gt + 1]
      BY <1>5 DEF FromRight
    <2> HIDE DEF d
    <2>2. d = [s |-> c.s, begin |-> c.begin, end |-> c.end, calls |-> c.calls, at |-> "right",
               lt |-> c.lt, eqb |-> c.eqb, eqe |-> c.eqe, gt |-> c.gt + 1, it |-> c.it]
      BY <1>1, <2>1 DEF Sort
    <2>3. d \in Sort
      BY <1>1, <2>2 DEF Sort, Sites
    <2>4. /\ d.s = c.s /\ d.begin = c.begin /\ d.end = c.end /\ d.calls = c.calls
          /\ d.at = "right" /\ d.lt = c.lt /\ d.eqb = c.eqb /\ d.eqe = c.eqe
          /\ d.gt = c.gt + 1
      BY <2>2
    <2> HIDE DEF v
    <2>5. Sides(c.s, c.begin, c.lt, c.eqb, c.eqe, c.gt + 1, c.end, v)
      <3>1. c.gt < c.end
        <4>1. RightPlaces(c.begin, c.end, c.eqb, c.eqe, c.gt)
          BY <1>1, <1>2, <1>5, PlacesWithin
        <4>2. QED
          BY <4>1 DEF RightPlaces
      <3>2. Leq(v, c.s[c.gt])
        BY <1>5 DEF Leq
      <3>3. QED
        BY <1>1, <1>2, <3>1, <3>2, FoundRight
    <2>6. Wide(d) < Wide(c)
      BY <1>1, <2>4, WideIs DEF Wide
    <2>7. QED
      BY <1>2, <2>3, <2>4, <2>5, <2>6, DividingStep DEF d
  <1>6. CASE c.gt # c.end /\ <<v, c.s[c.gt]>> \notin Less /\ c.s[c.gt] = v
    <2> DEFINE t == Swap(c.s, c.gt, c.eqe)
    <2>1. d = [c EXCEPT !.s = t, !.eqe = c.eqe + 1, !.gt = c.gt + 1]
      BY <1>6 DEF FromRight
    <2> HIDE DEF d, v
    <2>2. RightPlaces(c.begin, c.end, c.eqb, c.eqe, c.gt)
      BY <1>1, <1>2, <1>6, PlacesWithin
    <2>3. Rearranged(c.s, t, c.begin, c.end)
      <3>1. c.gt \in c.begin .. c.end - 1 /\ c.eqe \in c.begin .. c.end - 1
        BY <2>2 DEF RightPlaces
      <3>2. QED
        BY <1>1, <1>2, <3>1, SwapRearranges
    <2>4. t \in Seq(Elements)
      BY <2>3 DEF Rearranged
    <2>5. Sides(t, c.begin, c.lt, c.eqb, c.eqe + 1, c.gt + 1, c.end, v)
      <3>1. c.gt < c.end
        BY <2>2 DEF RightPlaces
      <3>2. QED
        BY <1>1, <1>2, <1>6, <3>1, EqualFromRight
    <2> HIDE DEF t
    <2>6. d = [s |-> t, begin |-> c.begin, end |-> c.end, calls |-> c.calls, at |-> "right",
               lt |-> c.lt, eqb |-> c.eqb, eqe |-> c.eqe + 1, gt |-> c.gt + 1, it |-> c.it]
      BY <1>1, <2>1 DEF Sort
    <2>7. d \in Sort
      BY <1>1, <2>4, <2>6 DEF Sort, Sites
    <2>8. /\ d.s = t /\ d.begin = c.begin /\ d.end = c.end /\ d.calls = c.calls
          /\ d.at = "right" /\ d.lt = c.lt /\ d.eqb = c.eqb /\ d.eqe = c.eqe + 1
          /\ d.gt = c.gt + 1
      BY <2>6
    <2>9. Wide(d) < Wide(c)
      BY <1>1, <2>8, WideIs DEF Wide
    <2>10. QED
      BY <2>3, <2>5, <2>7, <2>8, <2>9, DividingStep DEF d
  <1>7. QED
    BY <1>4, <1>5, <1>6

LEMMA FromLeftSorts ==
  ASSUME NEW a \in Seq(Elements), NEW c, NEW taken \in Nat,
         Underway(c, a, taken), c.at = "left"
  PROVE  Underway(FromLeft(c, Less), a, taken + 1)
  <1> DEFINE d == FromLeft(c, Less)
             v == c.s[c.eqb]
  <1>1. /\ c \in Sort
        /\ c.s \in Seq(Elements) /\ c.begin \in Nat /\ c.end \in Nat
        /\ c.calls \in Seq(Ranges) /\ c.lt \in Nat /\ c.eqb \in Nat
        /\ c.eqe \in Nat /\ c.gt \in Nat /\ c.it \in Nat
    BY DividingIs
  <1>2. /\ Len(c.s) = Len(a) /\ Len(a) \in Nat
        /\ 1 <= c.begin /\ c.begin <= c.end /\ c.end <= Len(c.s) + 1
        /\ Sides(c.s, c.begin, c.lt, c.eqb, c.eqe, c.gt, c.end, v)
        /\ c.begin <= c.lt /\ c.lt <= c.eqb /\ c.eqb < c.eqe /\ c.eqe <= c.gt
        /\ c.gt <= c.end /\ v \in Elements
        /\ Rearranged(c.s, c.s, c.begin, c.end)
    BY DividingIs
  <1>3. c.gt = c.end \/ Leq(c.s[c.gt], v)
    BY DividingIs
  <1>4. CASE \/ c.lt = c.begin
             \/ c.lt # c.begin /\ <<c.s[c.lt - 1], v>> \notin Less /\ v # c.s[c.lt - 1]
    <2>1. d = [c EXCEPT !.at = "cross"]
      BY <1>4 DEF FromLeft
    <2> HIDE DEF d
    <2>2. d = [s |-> c.s, begin |-> c.begin, end |-> c.end, calls |-> c.calls, at |-> "cross",
               lt |-> c.lt, eqb |-> c.eqb, eqe |-> c.eqe, gt |-> c.gt, it |-> c.it]
      BY <1>1, <2>1 DEF Sort
    <2>3. d \in Sort
      BY <1>1, <2>2 DEF Sort, Sites
    <2>4. /\ d.s = c.s /\ d.begin = c.begin /\ d.end = c.end /\ d.calls = c.calls
          /\ d.at = "cross" /\ d.lt = c.lt /\ d.eqb = c.eqb /\ d.eqe = c.eqe /\ d.gt = c.gt
      BY <2>2
    <2> HIDE DEF v
    <2>5. c.lt = c.begin \/ Leq(v, c.s[c.lt - 1])
      <3>1. CASE c.lt # c.begin
        <4>3. LeftPlaces(c.begin, c.end, c.lt, c.eqb, c.eqe)
          BY <1>1, <1>2, <3>1, PlacesWithin
        <4>4. c.lt - 1 \in c.begin .. c.end - 1
          BY <4>3 DEF LeftPlaces
        <4>1. c.lt - 1 \in 1 .. Len(c.s)
          BY <1>1, <1>2, <4>4, PlacesAre
        <4>2. c.s[c.lt - 1] \in Elements
          BY <1>1, <4>1
        <4>5. <<c.s[c.lt - 1], v>> \notin Less
          BY <1>4, <3>1
        <4>6. QED
          BY <1>2, <4>2, <4>5, LeqTotal
      <3>2. QED
        BY <3>1
    <2>6. Wide(d) = Wide(c)
      BY <2>4 DEF Wide
    <2>7. QED
      BY <1>2, <1>3, <2>3, <2>4, <2>5, <2>6, DividingStep DEF d
  <1>5. CASE c.lt # c.begin /\ <<c.s[c.lt - 1], v>> \in Less
    <2>1. d = [c EXCEPT !.lt = c.lt - 1]
      BY <1>5 DEF FromLeft
    <2> HIDE DEF d
    <2>2. d = [s |-> c.s, begin |-> c.begin, end |-> c.end, calls |-> c.calls, at |-> "left",
               lt |-> c.lt - 1, eqb |-> c.eqb, eqe |-> c.eqe, gt |-> c.gt, it |-> c.it]
      BY <1>1, <2>1 DEF Sort
    <2> HIDE DEF v
    <2>3. c.begin < c.lt /\ c.lt - 1 \in Nat
      <3>1. LeftPlaces(c.begin, c.end, c.lt, c.eqb, c.eqe)
        BY <1>1, <1>2, <1>5, PlacesWithin
      <3>2. QED
        BY <3>1 DEF LeftPlaces
    <2>4. d \in Sort
      BY <1>1, <2>2, <2>3 DEF Sort, Sites
    <2>5. /\ d.s = c.s /\ d.begin = c.begin /\ d.end = c.end /\ d.calls = c.calls
          /\ d.at = "left" /\ d.lt = c.lt - 1 /\ d.eqb = c.eqb /\ d.eqe = c.eqe
          /\ d.gt = c.gt
      BY <2>2
    <2>6. Sides(c.s, c.begin, c.lt - 1, c.eqb, c.eqe, c.gt, c.end, v)
      <3>1. Leq(c.s[c.lt - 1], v)
        BY <1>5 DEF Leq
      <3>2. QED
        BY <1>1, <1>2, <2>3, <3>1, FoundLeft
    <2>7. Wide(d) < Wide(c)
      BY <1>1, <2>5, WideIs DEF Wide
    <2>8. QED
      BY <1>2, <1>3, <2>4, <2>5, <2>6, <2>7, DividingStep DEF d
  <1>6. CASE c.lt # c.begin /\ <<c.s[c.lt - 1], v>> \notin Less /\ v = c.s[c.lt - 1]
    <2> DEFINE t == Swap(c.s, c.lt - 1, c.eqb - 1)
    <2>1. d = [c EXCEPT !.s = t, !.eqb = c.eqb - 1, !.lt = c.lt - 1]
      BY <1>6 DEF FromLeft
    <2> HIDE DEF d, v
    <2>13. LeftPlaces(c.begin, c.end, c.lt, c.eqb, c.eqe)
      BY <1>1, <1>2, <1>6, PlacesWithin
    <2>2. c.begin < c.lt /\ c.lt - 1 \in Nat /\ c.eqb - 1 \in Nat
      BY <2>13 DEF LeftPlaces
    <2>3. Rearranged(c.s, t, c.begin, c.end)
      <3>1. c.lt - 1 \in c.begin .. c.end - 1 /\ c.eqb - 1 \in c.begin .. c.end - 1
        BY <2>13 DEF LeftPlaces
      <3>2. QED
        BY <1>1, <1>2, <3>1, SwapRearranges
    <2>4. t \in Seq(Elements)
      BY <2>3 DEF Rearranged
    <2>12. c.gt = c.end \/ t[c.gt] = c.s[c.gt]
      <3>1. CASE c.gt # c.end
        <4>3. RightPlaces(c.begin, c.end, c.eqb, c.eqe, c.gt)
          BY <1>1, <1>2, <3>1, PlacesWithin
        <4>1. c.gt < c.end
          BY <4>3 DEF RightPlaces
        <4>2. QED
          <5>1. SameAt(c.s, t, c.gt)
            BY <1>1, <1>2, <2>2, <4>1, LeftLeavesRight
          <5>2. QED
            BY <5>1 DEF SameAt
      <3>2. QED
        BY <3>1
    <2>5. Sides(t, c.begin, c.lt - 1, c.eqb - 1, c.eqe, c.gt, c.end, v)
      <3>1. c.s[c.lt - 1] = v
        BY <1>6
      <3>2. QED
        BY <1>1, <1>2, <2>2, <3>1, EqualFromLeft
    <2> HIDE DEF t
    <2>6. d = [s |-> t, begin |-> c.begin, end |-> c.end, calls |-> c.calls, at |-> "left",
               lt |-> c.lt - 1, eqb |-> c.eqb - 1, eqe |-> c.eqe, gt |-> c.gt, it |-> c.it]
      BY <1>1, <2>1 DEF Sort
    <2>7. d \in Sort
      BY <1>1, <2>2, <2>4, <2>6 DEF Sort, Sites
    <2>8. /\ d.s = t /\ d.begin = c.begin /\ d.end = c.end /\ d.calls = c.calls
          /\ d.at = "left" /\ d.lt = c.lt - 1 /\ d.eqb = c.eqb - 1 /\ d.eqe = c.eqe
          /\ d.gt = c.gt
      BY <2>6
    <2>9. c.gt = c.end \/ Leq(t[c.gt], v)
      BY <1>3, <2>12
    <2>10. Wide(d) < Wide(c)
      BY <1>1, <2>8, WideIs DEF Wide
    <2>11. QED
      BY <2>3, <2>5, <2>7, <2>8, <2>9, <2>10, DividingStep DEF d
  <1>7. QED
    BY <1>4, <1>5, <1>6

LEMMA FromLeftOverSorts ==
  ASSUME NEW a \in Seq(Elements), NEW c, NEW taken \in Nat,
         Underway(c, a, taken), c.at = "cross", c.lt # c.begin
  PROVE  Underway(FromLeftOver(c), a, taken + 1)
  <1> DEFINE d == FromLeftOver(c)
             v == c.s[c.eqb]
             u == Swap(c.s, c.lt - 1, c.eqb - 1)
             t == Swap(u, c.eqb - 1, c.eqe - 1)
  <1>1. /\ c \in Sort
        /\ c.s \in Seq(Elements) /\ c.begin \in Nat /\ c.end \in Nat
        /\ c.calls \in Seq(Ranges) /\ c.lt \in Nat /\ c.eqb \in Nat
        /\ c.eqe \in Nat /\ c.gt \in Nat /\ c.it \in Nat
    BY DividingIs
  <1>2. /\ 1 <= c.begin /\ c.begin <= c.end /\ c.end <= Len(c.s) + 1
        /\ Sides(c.s, c.begin, c.lt, c.eqb, c.eqe, c.gt, c.end, v)
        /\ c.begin <= c.lt /\ c.lt <= c.eqb /\ c.eqb < c.eqe /\ c.eqe <= c.gt
        /\ c.gt <= c.end /\ v \in Elements
    BY DividingIs
  <1>3. Leq(v, c.s[c.lt - 1])
    BY DividingIs
  <1>4. d = [c EXCEPT !.s = t, !.lt = c.lt - 1, !.eqb = c.eqb - 1, !.eqe = c.eqe - 1,
                      !.at = "right"]
    BY DEF FromLeftOver
  <1> HIDE DEF d, v
  <1>17. LeftPlaces(c.begin, c.end, c.lt, c.eqb, c.eqe)
    BY <1>1, <1>2, PlacesWithin
  <1>5. c.begin < c.lt /\ c.lt - 1 \in Nat /\ c.eqb - 1 \in Nat /\ c.eqe - 1 \in Nat
    BY <1>17 DEF LeftPlaces
  <1>6. /\ c.lt - 1 \in c.begin .. c.end - 1 /\ c.eqb - 1 \in c.begin .. c.end - 1
        /\ c.eqe - 1 \in c.begin .. c.end - 1
    BY <1>17 DEF LeftPlaces
  <1>7. Sides(t, c.begin, c.lt - 1, c.eqb - 1, c.eqe - 1, c.gt, c.end, v)
    BY <1>1, <1>2, <1>3, <1>5, LeftCrosses
  <1>8. Rearranged(c.s, u, c.begin, c.end) /\ u \in Seq(Elements) /\ Len(u) = Len(c.s)
    <2>1. Rearranged(c.s, u, c.begin, c.end)
      BY <1>1, <1>2, <1>6, SwapRearranges
    <2> HIDE DEF u
    <2>2. QED
      BY <2>1 DEF Rearranged
  <1> HIDE DEF u
  <1>9. Rearranged(u, t, c.begin, c.end)
    BY <1>1, <1>2, <1>6, <1>8, SwapRearranges
  <1> HIDE DEF t
  <1>10. Rearranged(c.s, t, c.begin, c.end)
    BY <1>1, <1>8, <1>9, RearrangedTwice
  <1>11. t \in Seq(Elements)
    BY <1>10 DEF Rearranged
  <1>12. d = [s |-> t, begin |-> c.begin, end |-> c.end, calls |-> c.calls, at |-> "right",
              lt |-> c.lt - 1, eqb |-> c.eqb - 1, eqe |-> c.eqe - 1, gt |-> c.gt, it |-> c.it]
    BY <1>1, <1>4 DEF Sort
  <1>13. d \in Sort
    BY <1>1, <1>5, <1>11, <1>12 DEF Sort, Sites
  <1>14. /\ d.s = t /\ d.begin = c.begin /\ d.end = c.end /\ d.calls = c.calls
         /\ d.at = "right" /\ d.lt = c.lt - 1 /\ d.eqb = c.eqb - 1 /\ d.eqe = c.eqe - 1
         /\ d.gt = c.gt
    BY <1>12
  <1>15. Wide(d) < Wide(c)
    BY <1>1, <1>14, WideIs DEF Wide
  <1>16. QED
    BY <1>7, <1>10, <1>13, <1>14, <1>15, DividingStep DEF d

LEMMA FromRightOverSorts ==
  ASSUME NEW a \in Seq(Elements), NEW c, NEW taken \in Nat,
         Underway(c, a, taken), c.at = "cross", c.gt # c.end
  PROVE  Underway(FromRightOver(c), a, taken + 1)
  <1> DEFINE d == FromRightOver(c)
             v == c.s[c.eqb]
             u == IF c.eqe # c.gt THEN Swap(c.s, c.eqb, c.eqe) ELSE c.s
             t == Swap(u, c.gt, c.eqb)
  <1>1. /\ c \in Sort
        /\ c.s \in Seq(Elements) /\ c.begin \in Nat /\ c.end \in Nat
        /\ c.calls \in Seq(Ranges) /\ c.lt \in Nat /\ c.eqb \in Nat
        /\ c.eqe \in Nat /\ c.gt \in Nat /\ c.it \in Nat
    BY DividingIs
  <1>2. /\ 1 <= c.begin /\ c.begin <= c.end /\ c.end <= Len(c.s) + 1
        /\ Sides(c.s, c.begin, c.lt, c.eqb, c.eqe, c.gt, c.end, v)
        /\ c.begin <= c.lt /\ c.lt <= c.eqb /\ c.eqb < c.eqe /\ c.eqe <= c.gt
        /\ c.gt <= c.end /\ v \in Elements
        /\ Rearranged(c.s, c.s, c.begin, c.end)
    BY DividingIs
  <1>3. Leq(c.s[c.gt], v)
    BY DividingIs
  <1>4. d = [c EXCEPT !.s = t, !.eqb = c.eqb + 1, !.eqe = c.eqe + 1, !.gt = c.gt + 1,
                      !.at = "right"]
    BY DEF FromRightOver
  <1> HIDE DEF d, v
  <1>17. RightPlaces(c.begin, c.end, c.eqb, c.eqe, c.gt)
    BY <1>1, <1>2, PlacesWithin
  <1>5. c.gt < c.end
    BY <1>17 DEF RightPlaces
  <1>6. /\ c.gt \in c.begin .. c.end - 1 /\ c.eqb \in c.begin .. c.end - 1
        /\ c.eqe \in c.begin .. c.end - 1
    BY <1>17 DEF RightPlaces
  <1>7. Sides(t, c.begin, c.lt, c.eqb + 1, c.eqe + 1, c.gt + 1, c.end, v)
    <2>1. u = IF c.eqe # c.gt THEN Swap(c.s, c.eqb, c.eqe) ELSE c.s
      OBVIOUS
    <2> HIDE DEF u
    <2>2. QED
      BY <1>1, <1>2, <1>3, <1>5, <2>1, RightCrossesTo
  <1>8. Rearranged(c.s, u, c.begin, c.end) /\ u \in Seq(Elements) /\ Len(u) = Len(c.s)
    <2>1. Rearranged(c.s, Swap(c.s, c.eqb, c.eqe), c.begin, c.end)
      BY <1>1, <1>2, <1>6, SwapRearranges
    <2>2. Rearranged(c.s, u, c.begin, c.end)
      BY <1>2, <2>1
    <2> HIDE DEF u
    <2>3. QED
      BY <2>2 DEF Rearranged
  <1> HIDE DEF u
  <1>9. Rearranged(u, t, c.begin, c.end)
    BY <1>1, <1>2, <1>6, <1>8, SwapRearranges
  <1> HIDE DEF t
  <1>10. Rearranged(c.s, t, c.begin, c.end)
    BY <1>1, <1>8, <1>9, RearrangedTwice
  <1>11. t \in Seq(Elements)
    BY <1>10 DEF Rearranged
  <1>12. d = [s |-> t, begin |-> c.begin, end |-> c.end, calls |-> c.calls, at |-> "right",
              lt |-> c.lt, eqb |-> c.eqb + 1, eqe |-> c.eqe + 1, gt |-> c.gt + 1, it |-> c.it]
    BY <1>1, <1>4 DEF Sort
  <1>13. d \in Sort
    BY <1>1, <1>11, <1>12 DEF Sort, Sites
  <1>14. /\ d.s = t /\ d.begin = c.begin /\ d.end = c.end /\ d.calls = c.calls
         /\ d.at = "right" /\ d.lt = c.lt /\ d.eqb = c.eqb + 1 /\ d.eqe = c.eqe + 1
         /\ d.gt = c.gt + 1
    BY <1>12
  <1>15. Wide(d) < Wide(c)
    BY <1>1, <1>14, WideIs DEF Wide
  <1>16. QED
    BY <1>7, <1>10, <1>13, <1>14, <1>15, DividingStep DEF d

LEMMA ExchangedSorts ==
  ASSUME NEW a \in Seq(Elements), NEW c, NEW taken \in Nat,
         Underway(c, a, taken), c.at = "cross", c.gt # c.end, c.lt # c.begin
  PROVE  Underway(Exchanged(c), a, taken + 1)
  <1> DEFINE d == Exchanged(c)
             v == c.s[c.eqb]
             t == Swap(c.s, c.gt, c.lt - 1)
  <1>1. /\ c \in Sort
        /\ c.s \in Seq(Elements) /\ c.begin \in Nat /\ c.end \in Nat
        /\ c.calls \in Seq(Ranges) /\ c.lt \in Nat /\ c.eqb \in Nat
        /\ c.eqe \in Nat /\ c.gt \in Nat /\ c.it \in Nat
    BY DividingIs
  <1>2. /\ 1 <= c.begin /\ c.begin <= c.end /\ c.end <= Len(c.s) + 1
        /\ Sides(c.s, c.begin, c.lt, c.eqb, c.eqe, c.gt, c.end, v)
        /\ c.begin <= c.lt /\ c.lt <= c.eqb /\ c.eqb < c.eqe /\ c.eqe <= c.gt
        /\ c.gt <= c.end /\ v \in Elements
    BY DividingIs
  <1>3. Leq(c.s[c.gt], v) /\ Leq(v, c.s[c.lt - 1])
    BY DividingIs
  <1>4. d = [c EXCEPT !.s = t, !.gt = c.gt + 1, !.lt = c.lt - 1, !.at = "right"]
    BY DEF Exchanged
  <1> HIDE DEF d, v
  <1>17. LeftPlaces(c.begin, c.end, c.lt, c.eqb, c.eqe)
    BY <1>1, <1>2, PlacesWithin
  <1>18. RightPlaces(c.begin, c.end, c.eqb, c.eqe, c.gt)
    BY <1>1, <1>2, PlacesWithin
  <1>5. c.gt < c.end /\ c.begin < c.lt /\ c.lt - 1 \in Nat
    BY <1>17, <1>18 DEF LeftPlaces, RightPlaces
  <1>6. c.gt \in c.begin .. c.end - 1 /\ c.lt - 1 \in c.begin .. c.end - 1
    BY <1>17, <1>18 DEF LeftPlaces, RightPlaces
  <1>7. Sides(t, c.begin, c.lt - 1, c.eqb, c.eqe, c.gt + 1, c.end, v)
    BY <1>1, <1>2, <1>3, <1>5, BothCross
  <1>8. Rearranged(c.s, t, c.begin, c.end)
    BY <1>1, <1>2, <1>6, SwapRearranges
  <1> HIDE DEF t
  <1>9. t \in Seq(Elements)
    BY <1>8 DEF Rearranged
  <1>10. d = [s |-> t, begin |-> c.begin, end |-> c.end, calls |-> c.calls, at |-> "right",
              lt |-> c.lt - 1, eqb |-> c.eqb, eqe |-> c.eqe, gt |-> c.gt + 1, it |-> c.it]
    BY <1>1, <1>4 DEF Sort
  <1>11. d \in Sort
    BY <1>1, <1>5, <1>9, <1>10 DEF Sort, Sites
  <1>12. /\ d.s = t /\ d.begin = c.begin /\ d.end = c.end /\ d.calls = c.calls
         /\ d.at = "right" /\ d.lt = c.lt - 1 /\ d.eqb = c.eqb /\ d.eqe = c.eqe
         /\ d.gt = c.gt + 1
    BY <1>10
  <1>13. Wide(d) < Wide(c)
    BY <1>1, <1>12, WideIs DEF Wide
  <1>14. QED
    BY <1>7, <1>8, <1>11, <1>12, <1>13, DividingStep DEF d

(* Two parts of a range, without the pivot, take less than the range.      *)
LEMMA HalvesTake ==
  ASSUME NEW x \in Nat, NEW y \in Nat, NEW len \in Nat, x + y + 1 <= len
  PROVE  MostSteps(x) + MostSteps(y) <= Halves(len)
  <1> DEFINE z == x + y + 1
  <1>1. x * y \in Nat /\ x * x \in Nat /\ y * y \in Nat
    OBVIOUS
  <1>2. z * z = x * x + y * y + 2 * (x * y) + 2 * x + 2 * y + 1
    OBVIOUS
  <1>3. (x + 1) * (x + 1) = x * x + 2 * x + 1 /\ (y + 1) * (y + 1) = y * y + 2 * y + 1
    OBVIOUS
  <1>4. z \in Nat /\ z <= len
    OBVIOUS
  <1> HIDE DEF z
  <1>5. z * z \in Nat /\ len * len \in Nat /\ z * z <= len * len
    <2>1. len * len = z * z + (len - z) * (len + z)
      BY <1>4
    <2>2. (len - z) * (len + z) \in Nat
      <3>1. len - z \in Nat /\ len + z \in Nat
        BY <1>4
      <3>2. QED
        BY <3>1
    <2>3. z * z \in Nat /\ len * len \in Nat
      BY <1>4
    <2>4. QED
      BY <2>1, <2>2, <2>3
  <1>6. (x + 1) * (x + 1) + (y + 1) * (y + 1) <= z * z + 1
    BY <1>1, <1>2, <1>3
  <1>7. (x + 1) * (x + 1) + (y + 1) * (y + 1) <= len * len + 1
    BY <1>1, <1>3, <1>5, <1>6
  <1>8. QED
    BY <1>1, <1>3, <1>5, <1>7 DEF MostSteps, Halves

LEMMA LengthIs ==
  ASSUME NEW b \in Nat, NEW e \in Nat, b <= e
  PROVE  e - b \in Nat
  OBVIOUS

LEMMA TurnSorts ==
  ASSUME NEW a \in Seq(Elements), NEW c, NEW taken \in Nat, Underway(c, a, taken),
         c.at = "cross", c.gt = c.end, c.lt = c.begin,
         NEW p \in Ranges, NEW q \in Ranges, Apart(p, q),
         c.begin <= p.begin, p.begin <= p.end, p.end <= c.end,
         c.begin <= q.begin, q.begin <= q.end, q.end <= c.end,
         (p.end - p.begin) + (q.end - q.begin) + 1 <= c.end - c.begin,
         \A i, j \in 1 .. Len(c.s) :
           c.begin <= i /\ i < j /\ j < c.end =>
             \/ Leq(c.s[i], c.s[j])
             \/ p.begin <= i /\ j < p.end
             \/ q.begin <= i /\ j < q.end
  PROVE  Underway([c EXCEPT !.begin = p.begin, !.end = p.end, !.calls = <<q>> \o @,
                            !.at = "range"], a, taken + 1)
  <1> DEFINE d == [c EXCEPT !.begin = p.begin, !.end = p.end, !.calls = <<q>> \o @,
                            !.at = "range"]
             Q == <<p>> \o (<<q>> \o c.calls)
  <1>1. c \in Sort /\ Arranged(c, a) /\ Afford(c, Len(a), taken)
    BY DEF Underway
  <1>2. /\ c.s \in Seq(Elements) /\ c.begin \in Nat /\ c.end \in Nat
        /\ c.calls \in Seq(Ranges) /\ c.lt \in Nat /\ c.eqb \in Nat
        /\ c.eqe \in Nat /\ c.gt \in Nat /\ c.it \in Nat
    BY <1>1, SortIs
  <1>3. /\ p.begin \in Nat /\ p.end \in Nat /\ q.begin \in Nat /\ q.end \in Nat
        /\ [begin |-> p.begin, end |-> p.end] = p
    BY DEF Ranges
  <1>4. /\ Len(c.s) = Len(a) /\ Len(a) \in Nat
        /\ ToSort(c) \in Seq(Ranges) /\ ToSort(c) # <<>>
        /\ ToSort(c)[1].begin = c.begin /\ ToSort(c)[1].end = c.end
        /\ Tail(ToSort(c)) = c.calls
    BY <1>1, AtHand
  <1>5. Laid(Len(a), ToSort(c)) /\ Settled(c.s, ToSort(c)) /\ Rearranged(a, c.s, 1, Len(a) + 1)
    BY <1>1 DEF Arranged
  <1>6. d = [c EXCEPT !.begin = p.begin, !.end = p.end, !.calls = <<q>> \o c.calls,
                      !.at = "range"]
    BY <1>1 DEF Sort
  <1> HIDE DEF d
  <1>7. d = [s |-> c.s, begin |-> p.begin, end |-> p.end, calls |-> <<q>> \o c.calls,
             at |-> "range", lt |-> c.lt, eqb |-> c.eqb, eqe |-> c.eqe, gt |-> c.gt, it |-> c.it]
    BY <1>1, <1>6 DEF Sort
  <1>8. <<q>> \o c.calls \in Seq(Ranges)
    BY <1>2
  <1>9. d \in Sort
    BY <1>2, <1>3, <1>7, <1>8 DEF Sort, Sites
  <1>10. /\ d.s = c.s /\ d.begin = p.begin /\ d.end = p.end /\ d.calls = <<q>> \o c.calls
         /\ d.at = "range"
    BY <1>7
  <1>11. ToSort(d) = Q
    BY <1>3, <1>10 DEF ToSort
  <1>12. Laid(Len(a), Q)
    <2>1. Laid(Len(a), <<p>> \o (<<q>> \o Tail(ToSort(c))))
      BY <1>4, <1>5, DividedLaid
    <2>2. QED
      BY <1>4, <2>1
  <1>13. Settled(c.s, Q)
    <2>1. Settled(c.s, <<p>> \o (<<q>> \o Tail(ToSort(c))))
      BY <1>2, <1>4, <1>5, DividedSettled
    <2>2. QED
      BY <1>4, <2>1
  <1> HIDE DEF Q
  <1>14. Arranged(d, a)
    BY <1>5, <1>10, <1>11, <1>12, <1>13 DEF Arranged
  <1>15. Phase(d)
    BY <1>10 DEF Phase
  <1>16. Afford(d, Len(a), taken + 1)
    <2>1. PICK x \in Nat : Owes(c.calls, x) /\ taken + StepsLeft(c) + x <= MostSteps(Len(a))
      BY <1>1 DEF Afford
    <2> DEFINE m == MostSteps(p.end - p.begin)
               k == MostSteps(q.end - q.begin)
               h == Halves(c.end - c.begin)
    <2>2. x + k \in Nat /\ Owes(<<q>> \o c.calls, x + k)
      BY <1>2, <2>1, OwesMore
    <2>3. p.end - p.begin \in Nat /\ q.end - q.begin \in Nat /\ c.end - c.begin \in Nat
      <3>1. /\ p.begin \in Nat /\ p.end \in Nat
            /\ q.begin \in Nat /\ q.end \in Nat
        BY <1>3
      <3>4. p.begin <= p.end /\ q.begin <= q.end
        OBVIOUS
      <3>2. c.begin \in Nat /\ c.end \in Nat /\ c.begin <= c.end
        BY <1>2, <3>1, SMTT(30)
      <3>3. QED
        BY <3>1, <3>2, <3>4, LengthIs
    <2>4. m \in Nat /\ k \in Nat /\ h \in Nat /\ MostSteps(Len(a)) \in Nat
      BY <1>4, <2>3, HalvesIs
    <2>5. m + k <= h
      BY <2>3, HalvesTake
    <2>6. StepsLeft(d) = m
      BY <1>10 DEF StepsLeft
    <2>7. StepsLeft(c) = 1 + h
      <3>1. StepsLeft(c) = 3 * Wide(c) + 1 + h
        BY DEF StepsLeft
      <3>2. Wide(c) = 0
        BY <1>2 DEF Wide
      <3> HIDE DEF h
      <3>3. QED
        BY <2>4, <3>1, <3>2
    <2> HIDE DEF m, k, h
    <2>8. (taken + 1) + m + (x + k) <= MostSteps(Len(a))
      BY <2>1, <2>4, <2>5, <2>7
    <2>9. QED
      BY <1>10, <2>2, <2>6, <2>8 DEF Afford
  <1>17. QED
    BY <1>9, <1>14, <1>15, <1>16 DEF Underway, d

LEMMA HalvesFit ==
  ASSUME NEW b \in Nat, NEW e \in Nat, NEW p \in Nat, NEW q \in Nat, b <= p, p < q, q <= e
  PROVE  (p - b) + (e - q) + 1 <= e - b /\ (e - q) + (p - b) + 1 <= e - b /\ p <= q
         /\ p <= e /\ b <= q
  OBVIOUS

LEMMA DividedSorts ==
  ASSUME NEW a \in Seq(Elements), NEW c, NEW taken \in Nat, Underway(c, a, taken),
         c.at = "cross", c.gt = c.end, c.lt = c.begin
  PROVE  Underway(Divided(c), a, taken + 1)
  <1> DEFINE v == c.s[c.eqb]
             left == [begin |-> c.begin, end |-> c.eqb]
             right == [begin |-> c.eqe, end |-> c.end]
  <1>1. /\ c \in Sort
        /\ c.s \in Seq(Elements) /\ c.begin \in Nat /\ c.end \in Nat
        /\ c.calls \in Seq(Ranges) /\ c.lt \in Nat /\ c.eqb \in Nat
        /\ c.eqe \in Nat /\ c.gt \in Nat /\ c.it \in Nat
    BY DividingIs
  <1>2. /\ 1 <= c.begin /\ c.end <= Len(c.s) + 1
        /\ Sides(c.s, c.begin, c.lt, c.eqb, c.eqe, c.gt, c.end, v)
        /\ c.begin <= c.eqb /\ c.eqb < c.eqe /\ c.eqe <= c.end
        /\ v \in Elements
    BY DividingIs
  <1>3. /\ left \in Ranges /\ left.begin = c.begin /\ left.end = c.eqb
        /\ right \in Ranges /\ right.begin = c.eqe /\ right.end = c.end
    BY <1>1 DEF Ranges
  <1> HIDE DEF v, left, right
  <1>4. \A i \in 1 .. Len(c.s) : /\ c.eqb <= i /\ i < c.eqe => c.s[i] = v
                                 /\ c.begin <= i /\ i < c.eqb => Leq(c.s[i], v)
                                 /\ c.eqe <= i /\ i < c.end => Leq(v, c.s[i])
                                 /\ c.s[i] \in Elements
    BY <1>1, <1>2 DEF Sides
  <1>5. ASSUME NEW i \in 1 .. Len(c.s), NEW j \in 1 .. Len(c.s),
               c.begin <= i, i < j, j < c.end
        PROVE  \/ Leq(c.s[i], c.s[j])
               \/ c.begin <= i /\ j < c.eqb
               \/ c.eqe <= i /\ j < c.end
    <2>1. Leq(v, v)
      BY DEF Leq
    <2>2. CASE c.eqe <= i
      BY <1>5, <2>2
    <2>3. CASE i < c.eqe /\ j >= c.eqb
      <3>1. Leq(c.s[i], v)
        <4>1. CASE i < c.eqb
          BY <1>4, <1>5, <4>1
        <4>2. CASE ~ (i < c.eqb)
          <5>1. c.eqb <= i
            BY <1>1, <4>2
          <5>2. QED
            BY <1>4, <2>1, <2>3, <5>1
        <4>3. QED
          BY <4>1, <4>2
      <3>2. Leq(v, c.s[j])
        <4>1. CASE j < c.eqe
          BY <1>1, <1>4, <2>1, <2>3, <4>1
        <4>2. CASE ~ (j < c.eqe)
          <5>1. c.eqe <= j
            BY <1>1, <4>2
          <5>2. QED
            BY <1>4, <1>5, <5>1
        <4>3. QED
          BY <4>1, <4>2
      <3>3. QED
        BY <1>2, <1>4, <3>1, <3>2, LeqTransitive
    <2>4. CASE j < c.eqb
      BY <1>5, <2>4
    <2>5. QED
      BY <1>1, <2>2, <2>3, <2>4
  <1>6. /\ Apart(left, right) /\ Apart(right, left)
        /\ (left.end - left.begin) + (right.end - right.begin) + 1 <= c.end - c.begin
        /\ (right.end - right.begin) + (left.end - left.begin) + 1 <= c.end - c.begin
        /\ c.begin <= left.begin /\ left.begin <= left.end /\ left.end <= c.end
        /\ c.begin <= right.begin /\ right.begin <= right.end /\ right.end <= c.end
    <2>1. /\ (c.eqb - c.begin) + (c.end - c.eqe) + 1 <= c.end - c.begin
          /\ (c.end - c.eqe) + (c.eqb - c.begin) + 1 <= c.end - c.begin
          /\ c.eqb <= c.eqe /\ c.eqb <= c.end /\ c.begin <= c.eqe
      BY <1>1, <1>2, HalvesFit
    <2>2. Apart(left, right) /\ Apart(right, left)
      BY <1>3, <2>1 DEF Apart
    <2>3. c.begin <= c.begin /\ c.end <= c.end
      BY <1>1
    <2>4. QED
      BY <1>2, <1>3, <2>1, <2>2, <2>3
  <1>7. CASE c.eqb - c.begin > c.end - c.eqe
    <2>1. Divided(c) = [c EXCEPT !.begin = right.begin, !.end = right.end,
                                 !.calls = <<left>> \o @, !.at = "range"]
      BY <1>7 DEF Divided, left, right
    <2>2. Underway([c EXCEPT !.begin = right.begin, !.end = right.end,
                             !.calls = <<left>> \o @, !.at = "range"], a, taken + 1)
      BY <1>3, <1>5, <1>6, TurnSorts
    <2>3. QED
      BY <2>1, <2>2
  <1>8. CASE ~ (c.eqb - c.begin > c.end - c.eqe)
    <2>1. Divided(c) = [c EXCEPT !.begin = left.begin, !.end = left.end,
                                 !.calls = <<right>> \o @, !.at = "range"]
      BY <1>8 DEF Divided, left, right
    <2>2. Underway([c EXCEPT !.begin = left.begin, !.end = left.end,
                             !.calls = <<right>> \o @, !.at = "range"], a, taken + 1)
      BY <1>3, <1>5, <1>6, TurnSorts
    <2>3. QED
      BY <2>1, <2>2
  <1>9. QED
    BY <1>7, <1>8

LEMMA CrossSorts ==
  ASSUME NEW a \in Seq(Elements), NEW c, NEW taken \in Nat, Underway(c, a, taken),
         c.at = "cross"
  PROVE  Underway(Cross(c), a, taken + 1)
  <1>1. CASE c.gt = c.end /\ c.lt = c.begin
    BY <1>1, DividedSorts DEF Cross
  <1>2. CASE c.gt = c.end /\ c.lt # c.begin
    BY <1>2, FromLeftOverSorts DEF Cross
  <1>3. CASE c.gt # c.end /\ c.lt = c.begin
    BY <1>3, FromRightOverSorts DEF Cross
  <1>4. CASE c.gt # c.end /\ c.lt # c.begin
    BY <1>4, ExchangedSorts DEF Cross
  <1>5. QED
    BY <1>1, <1>2, <1>3, <1>4

(* A range is in order: on with the next one, or done. *)
LEMMA RangeDoneSorts ==
  ASSUME NEW a \in Seq(Elements), NEW c, NEW taken \in Nat, Underway(c, a, taken),
         c.at # "done", InOrderAt(c.s, c.begin, c.end),
         StepsLeft(c) \in Nat, StepsLeft(c) >= 1
  PROVE  Underway(RangeDone(c), a, taken + 1)
  <1> DEFINE d == RangeDone(c)
             R == ToSort(c)
  <1>1. c \in Sort /\ Arranged(c, a) /\ Afford(c, Len(a), taken)
    BY DEF Underway
  <1>2. /\ c.s \in Seq(Elements) /\ c.begin \in Nat /\ c.end \in Nat
        /\ c.calls \in Seq(Ranges) /\ c.lt \in Nat /\ c.eqb \in Nat
        /\ c.eqe \in Nat /\ c.gt \in Nat /\ c.it \in Nat
    BY <1>1, SortIs
  <1>3. /\ Len(c.s) = Len(a) /\ Len(a) \in Nat
        /\ R \in Seq(Ranges) /\ R # <<>>
        /\ R[1].begin = c.begin /\ R[1].end = c.end
        /\ Tail(R) = c.calls
    BY <1>1, AtHand
  <1>4. Laid(Len(a), R) /\ Settled(c.s, R) /\ Rearranged(a, c.s, 1, Len(a) + 1)
    BY <1>1 DEF Arranged
  <1> HIDE DEF R
  <1>5. InOrderAt(c.s, R[1].begin, R[1].end)
    BY <1>3
  <1>6. Laid(Len(a), Tail(R)) /\ Settled(c.s, Tail(R))
    BY <1>2, <1>3, <1>4, <1>5, NextRange
  <1>7. Laid(Len(a), c.calls) /\ Settled(c.s, c.calls)
    BY <1>3, <1>6
  <1>8. PICK x \in Nat : Owes(c.calls, x) /\ taken + StepsLeft(c) + x <= MostSteps(Len(a))
    BY <1>1 DEF Afford
  <1>9. MostSteps(Len(a)) \in Nat
    BY <1>3, HalvesIs
  <1>10. CASE c.calls = <<>>
    <2>1. d = [c EXCEPT !.at = "done"]
      BY <1>10 DEF RangeDone
    <2> HIDE DEF d
    <2>2. d = [s |-> c.s, begin |-> c.begin, end |-> c.end, calls |-> c.calls, at |-> "done",
               lt |-> c.lt, eqb |-> c.eqb, eqe |-> c.eqe, gt |-> c.gt, it |-> c.it]
      BY <1>1, <2>1 DEF Sort
    <2>3. d \in Sort
      BY <1>2, <2>2 DEF Sort, Sites
    <2>4. d.s = c.s /\ d.calls = c.calls /\ d.at = "done"
      BY <2>2
    <2>5. Arranged(d, a)
      <3>1. ToSort(d) = c.calls
        BY <1>10, <2>4 DEF ToSort
      <3>2. QED
        BY <1>4, <1>7, <2>4, <3>1 DEF Arranged
    <2>6. Phase(d)
      BY <2>4 DEF Phase
    <2>7. Afford(d, Len(a), taken + 1)
      <3>1. StepsLeft(d) = 0
        BY <2>4 DEF StepsLeft
      <3>2. (taken + 1) + 0 + x <= MostSteps(Len(a))
        BY <1>8, <1>9
      <3>3. QED
        BY <1>8, <2>4, <3>1, <3>2 DEF Afford
    <2>8. QED
      BY <2>3, <2>5, <2>6, <2>7 DEF Underway, d
  <1>11. CASE c.calls # <<>>
    <2> DEFINE r == Head(c.calls)
    <2>1. d = [c EXCEPT !.begin = r.begin, !.end = r.end, !.calls = Tail(c.calls),
                        !.at = "range"]
      <3>1. d = [c EXCEPT !.begin = r.begin, !.end = r.end, !.calls = Tail(@), !.at = "range"]
        BY <1>11 DEF RangeDone
      <3> HIDE DEF d, r
      <3>2. QED
        BY <1>1, <3>1 DEF Sort
    <2>2. /\ r \in Ranges /\ Tail(c.calls) \in Seq(Ranges)
          /\ c.calls = <<r>> \o Tail(c.calls)
          /\ c.calls[1] = r /\ 1 \in 1 .. Len(c.calls)
      BY <1>2, <1>11, SMTT(30)
    <2> HIDE DEF d, r
    <2>3. /\ r.begin \in Nat /\ r.end \in Nat
          /\ [begin |-> r.begin, end |-> r.end] = r
      BY <2>2 DEF Ranges
    <2>4. d = [s |-> c.s, begin |-> r.begin, end |-> r.end, calls |-> Tail(c.calls),
               at |-> "range", lt |-> c.lt, eqb |-> c.eqb, eqe |-> c.eqe, gt |-> c.gt, it |-> c.it]
      BY <1>1, <2>1 DEF Sort
    <2>5. d \in Sort
      BY <1>2, <2>2, <2>3, <2>4 DEF Sort, Sites
    <2>6. /\ d.s = c.s /\ d.begin = r.begin /\ d.end = r.end /\ d.calls = Tail(c.calls)
          /\ d.at = "range"
      BY <2>4
    <2>7. Arranged(d, a)
      <3>1. ToSort(d) = c.calls
        BY <2>2, <2>3, <2>6 DEF ToSort
      <3>2. QED
        BY <1>4, <1>7, <2>6, <3>1 DEF Arranged
    <2>8. Phase(d)
      BY <2>6 DEF Phase
    <2>9. Afford(d, Len(a), taken + 1)
      <3>1. PICK y \in Nat : /\ Owes(Tail(c.calls), y)
                             /\ x = y + MostSteps(Head(c.calls).end - Head(c.calls).begin)
        BY <1>2, <1>8, <1>11, OwesNext
      <3> DEFINE m == MostSteps(r.end - r.begin)
      <3>2. x = y + m
        BY <3>1 DEF r
      <3>3. StepsLeft(d) = m
        BY <2>6 DEF StepsLeft
      <3>4. r.begin <= r.end
        BY <1>7, <2>2 DEF Laid
      <3>5. m \in Nat
        <4>1. r.end - r.begin \in Nat
          BY <2>3, <3>4
        <4>2. QED
          BY <4>1, HalvesIs
      <3> HIDE DEF m
      <3>6. (taken + 1) + m + y <= MostSteps(Len(a))
        BY <1>8, <1>9, <3>2, <3>5
      <3>7. QED
        BY <2>6, <3>1, <3>3, <3>6 DEF Afford
    <2>10. QED
      BY <2>5, <2>7, <2>8, <2>9 DEF Underway, d
  <1>12. QED
    BY <1>10, <1>11

LEMMA InsertionLess ==
  ASSUME NEW i \in Nat, NEW e \in Nat, i < e, NEW now, NEW next,
         now = IF i < e THEN e - i + 1 ELSE 1,
         next = IF i + 1 < e THEN e - (i + 1) + 1 ELSE 1
  PROVE  now \in Int /\ next \in Int /\ next < now
  OBVIOUS

LEMMA InsertionSorts ==
  ASSUME NEW a \in Seq(Elements), NEW c, NEW taken \in Nat, Underway(c, a, taken),
         c.at = "insert"
  PROVE  Underway(Insertion(c, Less), a, taken + 1)
  <1>1. c \in Sort /\ Arranged(c, a) /\ Phase(c)
    BY DEF Underway
  <1>2. /\ c.s \in Seq(Elements) /\ c.begin \in Nat /\ c.end \in Nat
        /\ c.calls \in Seq(Ranges) /\ c.lt \in Nat /\ c.eqb \in Nat
        /\ c.eqe \in Nat /\ c.gt \in Nat /\ c.it \in Nat
    BY <1>1, SortIs
  <1>3. /\ Len(c.s) = Len(a) /\ Len(a) \in Nat
        /\ 1 <= c.begin /\ c.begin <= c.end /\ c.end <= Len(a) + 1
    BY <1>1, AtHand
  <1>4. /\ c.begin < c.it /\ InOrderAt(c.s, c.begin, c.it)
        /\ c.it <= c.end \/ c.it = c.begin + 1
    BY <1>1 DEF Phase
  <1>5. StepsLeft(c) = IF c.it < c.end THEN c.end - c.it + 1 ELSE 1
    BY DEF StepsLeft
  <1>6. CASE c.it < c.end
    <2> DEFINE d == Insertion(c, Less)
               t == Inserted(c.s, c.begin, c.it, Less)
    <2>1. d = [c EXCEPT !.s = t, !.it = c.it + 1]
      <3>1. d = [c EXCEPT !.s = Inserted(@, c.begin, c.it, Less), !.it = @ + 1]
        BY <1>6 DEF Insertion
      <3> HIDE DEF d
      <3>2. QED
        BY <1>1, <3>1 DEF Sort
    <2>2. c.it <= Len(c.s)
      BY <1>2, <1>3, <1>6
    <2>3. Rearranged(c.s, t, c.begin, c.end)
      BY <1>2, <1>3, <1>4, <1>6, InsertedRearranges
    <2>4. InOrderAt(t, c.begin, c.it + 1)
      BY <1>2, <1>3, <1>4, <2>2, InsertedInOrder
    <2> HIDE DEF d, t
    <2>5. t \in Seq(Elements)
      BY <2>3 DEF Rearranged
    <2>6. d = [s |-> t, begin |-> c.begin, end |-> c.end, calls |-> c.calls, at |-> "insert",
               lt |-> c.lt, eqb |-> c.eqb, eqe |-> c.eqe, gt |-> c.gt, it |-> c.it + 1]
      BY <1>1, <2>1 DEF Sort
    <2>7. d \in Sort
      BY <1>2, <2>5, <2>6 DEF Sort, Sites
    <2>8. /\ d.s = t /\ d.begin = c.begin /\ d.end = c.end /\ d.calls = c.calls
          /\ d.at = "insert" /\ d.it = c.it + 1
      BY <2>6
    <2>9. Phase(d)
      <3>1. c.begin < c.it + 1 /\ c.it + 1 <= c.end
        BY <1>2, <1>4, <1>6
      <3>2. QED
        BY <2>4, <2>8, <3>1 DEF Phase
    <2>10. StepsLeft(c) \in Int /\ StepsLeft(d) \in Int /\ StepsLeft(d) < StepsLeft(c)
      <3>1. StepsLeft(d) = IF c.it + 1 < c.end THEN c.end - (c.it + 1) + 1 ELSE 1
        BY <2>8 DEF StepsLeft
      <3>2. QED
        BY <1>2, <1>5, <1>6, <3>1, InsertionLess
    <2>11. c.at # "done" /\ d.at # "done"
      BY <2>8
    <2>12. QED
      BY <2>3, <2>7, <2>8, <2>9, <2>10, <2>11, StepWithin DEF d
  <1>7. CASE ~ (c.it < c.end)
    <2>1. Insertion(c, Less) = RangeDone(c)
      BY <1>7 DEF Insertion
    <2>2. InOrderAt(c.s, c.begin, c.end)
      BY <1>2, <1>3, <1>4, <1>7 DEF InOrderAt
    <2>3. StepsLeft(c) = 1
      BY <1>5, <1>7
    <2>4. QED
      BY <2>1, <2>2, <2>3, RangeDoneSorts
  <1>8. QED
    BY <1>6, <1>7

LEMMA SortStepSorts ==
  ASSUME NEW a \in Seq(Elements), NEW c, NEW taken \in Nat, Underway(c, a, taken),
         c.at # "done"
  PROVE  Underway(SortStep(c, Less), a, taken + 1)
  <1>1. c.at \in Sites
    BY SortIs DEF Underway
  <1>2. CASE c.at = "range"
    BY <1>2, TopOfLoopSorts DEF SortStep
  <1>3. CASE c.at = "equals"
    BY <1>3, EqualsSorts DEF SortStep
  <1>4. CASE c.at = "right"
    BY <1>4, FromRightSorts DEF SortStep
  <1>5. CASE c.at = "left"
    BY <1>5, FromLeftSorts DEF SortStep
  <1>6. CASE c.at = "cross"
    BY <1>6, CrossSorts DEF SortStep
  <1>7. CASE c.at = "insert"
    BY <1>7, InsertionSorts DEF SortStep
  <1>8. QED
    BY <1>1, <1>2, <1>3, <1>4, <1>5, <1>6, <1>7 DEF Sites

------------------------------------------------------------------------------
(* unique.                                                                 *)

(* The first w of t are the elements of the first r of s, in order, each   *)
(* once; what is behind r has not been touched.                            *)
Gathered(t, s, w, r) ==
  /\ r \in 1 .. Len(s) /\ w \in 1 .. r
  /\ t \in Seq(Elements) /\ Len(t) = Len(s)
  /\ \A i \in r + 1 .. Len(s) : t[i] = s[i]
  /\ \A i, j \in 1 .. w : i < j => t[i] # t[j] /\ Leq(t[i], t[j])
  /\ \A i \in 1 .. w : \E k \in 1 .. r : t[i] = s[k]
  /\ \A k \in 1 .. r : \E i \in 1 .. w : t[i] = s[k]

(* u thins out the sorted array s: in its head all are different so far.   *)
Thinned(u, s) ==
  /\ u \in [s : Seq(Elements), begin : Nat, write : Nat, at : {"head", "merge", "done"}]
  /\ Len(u.s) = Len(s)
  /\ u.at = "done" => u.begin = Len(s) + 1
  /\ Len(s) = 0 => u.begin = 1 /\ u.write = 0 /\ u.at # "merge"
  /\ Len(s) # 0 => IF u.at = "head" THEN Gathered(u.s, s, u.begin, u.begin)
                   ELSE Gathered(u.s, s, u.write, u.begin - 1)

ThinningInv ==
  \/ thinning = NotThinning
  \/ sorting.at = "done" /\ Thinned(thinning, sorting.s)

InOrder(s) == \A i, j \in 1 .. Len(s) : i < j => Leq(s[i], s[j])

(* Different from the last of an ascending row and not less, then          *)
(* different from all of them.                                             *)
LEMMA LeqSteepens ==
  ASSUME NEW x \in Elements, NEW y \in Elements, NEW z \in Elements,
         x # y, Leq(x, y), y # z, Leq(y, z)
  PROVE  x # z /\ Leq(x, z)
  BY LessAssumption DEF Leq

(* The next element is written behind the others if it differs from the    *)
(* last one written.                                                       *)
LEMMA NextGathered ==
  ASSUME NEW s \in Seq(Elements), InOrder(s), NEW t, NEW w, NEW r,
         Gathered(t, s, w, r), r < Len(s)
  PROVE  /\ t[r + 1] = t[w] => Gathered(t, s, w, r + 1)
         /\ t[r + 1] # t[w] => Gathered([t EXCEPT ![w + 1] = t[r + 1]], s, w + 1, r + 1)
  <1> DEFINE n == Len(s)
             x == t[r + 1]
             new == [t EXCEPT ![w + 1] = x]
  <1>1. n \in Nat /\ r \in 1 .. n /\ w \in 1 .. r /\ t \in Seq(Elements) /\ Len(t) = n
    BY DEF Gathered
  <1>2. r \in Nat /\ w \in Nat /\ 1 <= w /\ w <= r /\ r + 1 \in 1 .. n /\ w + 1 \in 1 .. n
    BY <1>1
  <1>3. /\ \A i \in r + 1 .. n : t[i] = s[i]
        /\ \A i, j \in 1 .. w : i < j => t[i] # t[j] /\ Leq(t[i], t[j])
        /\ \A i \in 1 .. w : \E k \in 1 .. r : t[i] = s[k]
        /\ \A k \in 1 .. r : \E i \in 1 .. w : t[i] = s[k]
    BY DEF Gathered
  <1>4. \A i \in 1 .. n : s[i] \in Elements /\ t[i] \in Elements
    BY <1>1
  <1>5. x = s[r + 1] /\ x \in Elements
    BY <1>2, <1>3, <1>4
  <1>6. /\ new \in Seq(Elements) /\ Len(new) = n /\ new[w + 1] = x
        /\ \A i \in 1 .. n : i # w + 1 => new[i] = t[i]
    BY <1>1, <1>2, <1>5
  <1> HIDE DEF n, x, new
  <1>7. ASSUME x = t[w]
        PROVE  Gathered(t, s, w, r + 1)
    <2>1. w \in 1 .. r + 1 /\ w \in 1 .. w
      BY <1>2
    <2>2. \A i \in (r + 1) + 1 .. n : t[i] = s[i]
      BY <1>1, <1>2, <1>3
    <2>3. \A i \in 1 .. w : \E k \in 1 .. r + 1 : t[i] = s[k]
      BY <1>2, <1>3
    <2>4. \A k \in 1 .. r + 1 : \E i \in 1 .. w : t[i] = s[k]
      <3> TAKE k \in 1 .. r + 1
      <3>1. CASE k = r + 1
        BY <1>5, <1>7, <2>1, <3>1
      <3>2. CASE k # r + 1
        BY <1>2, <1>3, <3>2
      <3>3. QED
        BY <3>1, <3>2
    <2>5. QED
      BY <1>1, <1>2, <1>3, <2>1, <2>2, <2>3, <2>4 DEF Gathered, n
  <1>8. ASSUME x # t[w]
        PROVE  Gathered(new, s, w + 1, r + 1)
    <2>1. w + 1 \in 1 .. r + 1
      BY <1>2
    <2>2. \A i \in (r + 1) + 1 .. n : new[i] = s[i]
      BY <1>1, <1>2, <1>3, <1>6
    <2>3. \A i \in 1 .. w : new[i] = t[i] /\ t[i] \in Elements
      BY <1>1, <1>2, <1>4, <1>6
    <2>4. Leq(t[w], x)
      <3>0. w \in 1 .. w
        BY <1>2
      <3>1. PICK k \in 1 .. r : t[w] = s[k]
        BY <1>3, <3>0
      <3>2. k \in 1 .. n /\ k < r + 1
        BY <1>1, <1>2
      <3>3. Leq(s[k], s[r + 1])
        BY <1>2, <3>2 DEF InOrder, n
      <3>4. QED
        BY <1>5, <3>1, <3>3
    <2>5. \A i \in 1 .. w : t[i] # x /\ Leq(t[i], x)
      <3> TAKE i \in 1 .. w
      <3>1. CASE i = w
        BY <1>8, <2>4, <3>1
      <3>2. CASE i # w
        <4>1. w \in 1 .. w /\ i < w
          BY <1>2, <3>2
        <4>2. t[i] # t[w] /\ Leq(t[i], t[w])
          BY <1>3, <4>1
        <4>3. t[i] \in Elements /\ t[w] \in Elements
          BY <2>3, <4>1
        <4>4. QED
          BY <1>5, <1>8, <2>4, <4>2, <4>3, LeqSteepens
      <3>3. QED
        BY <3>1, <3>2
    <2>6. \A i, j \in 1 .. w + 1 : i < j => new[i] # new[j] /\ Leq(new[i], new[j])
      <3> SUFFICES ASSUME NEW i \in 1 .. w + 1, NEW j \in 1 .. w + 1, i < j
                   PROVE  new[i] # new[j] /\ Leq(new[i], new[j])
        OBVIOUS
      <3>1. i \in 1 .. w
        BY <1>2
      <3>2. CASE j = w + 1
        BY <1>6, <2>3, <2>5, <3>1, <3>2
      <3>3. CASE j # w + 1
        <4>1. j \in 1 .. w
          BY <1>2, <3>3
        <4>2. QED
          BY <1>3, <2>3, <3>1, <4>1
      <3>4. QED
        BY <3>2, <3>3
    <2>7. \A i \in 1 .. w + 1 : \E k \in 1 .. r + 1 : new[i] = s[k]
      <3> TAKE i \in 1 .. w + 1
      <3>1. CASE i = w + 1
        <4>1. r + 1 \in 1 .. r + 1
          BY <1>2
        <4>2. QED
          BY <1>5, <1>6, <3>1, <4>1
      <3>2. CASE i # w + 1
        <4>1. i \in 1 .. w
          BY <1>2, <3>2
        <4>2. PICK k \in 1 .. r : t[i] = s[k]
          BY <1>3, <4>1
        <4>3. k \in 1 .. r + 1
          BY <1>2
        <4>4. QED
          BY <2>3, <4>1, <4>2, <4>3
      <3>3. QED
        BY <3>1, <3>2
    <2>8. \A k \in 1 .. r + 1 : \E i \in 1 .. w + 1 : new[i] = s[k]
      <3> TAKE k \in 1 .. r + 1
      <3>1. CASE k = r + 1
        <4>1. w + 1 \in 1 .. w + 1
          BY <1>2
        <4>2. QED
          BY <1>5, <1>6, <3>1, <4>1
      <3>2. CASE k # r + 1
        <4>1. k \in 1 .. r
          BY <1>2, <3>2
        <4>2. PICK i \in 1 .. w : t[i] = s[k]
          BY <1>3, <4>1
        <4>3. i \in 1 .. w + 1
          BY <1>2
        <4>4. QED
          BY <2>3, <4>2, <4>3
      <3>3. QED
        BY <3>1, <3>2
    <2>9. QED
      BY <1>1, <1>2, <1>6, <2>1, <2>2, <2>6, <2>7, <2>8 DEF Gathered, n
  <1>9. QED
    BY <1>7, <1>8 DEF x, new

LEMMA ThinningStarts ==
  ASSUME NEW s \in Seq(Elements)
  PROVE  Thinned(Thinning(s), s)
  <1> DEFINE u == Thinning(s)
  <1>1. u = [s |-> s, begin |-> 1, write |-> 0, at |-> "head"]
    BY DEF Thinning
  <1>2. u \in [s : Seq(Elements), begin : Nat, write : Nat, at : {"head", "merge", "done"}]
    BY <1>1
  <1>3. u.s = s /\ u.begin = 1 /\ u.write = 0 /\ u.at = "head"
    BY <1>1
  <1> HIDE DEF u
  <1>4. ASSUME Len(s) # 0
        PROVE  Gathered(s, s, 1, 1)
    BY <1>4 DEF Gathered
  <1>5. QED
    BY <1>2, <1>3, <1>4 DEF Thinned, u

(* Each step of unique goes on with it. *)
LEMMA UniqueStepThins ==
  ASSUME NEW s \in Seq(Elements), InOrder(s), NEW u, Thinned(u, s), u.at # "done"
  PROVE  Thinned(UniqueStep(u), s)
  <1> DEFINE n == Len(s)
             v == UniqueStep(u)
             U == [s : Seq(Elements), begin : Nat, write : Nat, at : {"head", "merge", "done"}]
  <1>1. /\ u \in U /\ Len(u.s) = n /\ n \in Nat
        /\ n = 0 => u.begin = 1 /\ u.write = 0 /\ u.at # "merge"
        /\ n # 0 => IF u.at = "head" THEN Gathered(u.s, s, u.begin, u.begin)
                    ELSE Gathered(u.s, s, u.write, u.begin - 1)
    BY DEF Thinned
  <1>2. /\ u.s \in Seq(Elements) /\ u.begin \in Nat /\ u.write \in Nat
        /\ u = [s |-> u.s, begin |-> u.begin, write |-> u.write, at |-> u.at]
    BY <1>1
  <1>3. CASE n = 0
    <2>1. u.at = "head" /\ u.begin = 1 /\ u.write = 0 /\ Len(u.s) = 0
      BY <1>1, <1>3
    <2>2. v = [u EXCEPT !.at = "done"]
      BY <2>1 DEF UniqueStep, SkipHead
    <2>3. v \in U /\ v.s = u.s /\ v.begin = 1 /\ v.write = 0 /\ v.at = "done"
      BY <1>1, <2>1, <2>2
    <2> HIDE DEF v
    <2>4. QED
      BY <1>1, <1>3, <2>3 DEF Thinned, v
  <1>4. CASE n # 0 /\ u.at = "head"
    <2> DEFINE b == u.begin
    <2>1. Gathered(u.s, s, b, b) /\ b \in 1 .. n
      BY <1>1, <1>4 DEF Gathered
    <2>2. CASE b < n /\ u.s[b] # u.s[b + 1]
      <3>1. v = [u EXCEPT !.begin = @ + 1]
        BY <1>1, <1>4, <2>2 DEF UniqueStep, SkipHead
      <3>2. v \in U /\ v.s = u.s /\ v.begin = b + 1 /\ v.at = "head"
        BY <1>1, <1>4, <3>1
      <3>3. [u.s EXCEPT ![b + 1] = u.s[b + 1]] = u.s
        BY <1>2
      <3>4. Gathered(u.s, s, b + 1, b + 1)
        BY <2>1, <2>2, <3>3, NextGathered
      <3> HIDE DEF v
      <3>5. QED
        BY <1>1, <1>4, <3>2, <3>4 DEF Thinned, v
    <2>3. CASE ~ (b < n /\ u.s[b] # u.s[b + 1])
      <3>1. v = [u EXCEPT !.write = b, !.begin = @ + 1, !.at = "merge"]
        BY <1>1, <1>4, <2>1, <2>3 DEF UniqueStep, SkipHead
      <3>2. v \in U /\ v.s = u.s /\ v.begin = b + 1 /\ v.write = b /\ v.at = "merge"
        <4> HIDE DEF v
        <4>1. v = [s |-> u.s, begin |-> b + 1, write |-> b, at |-> "merge"]
          BY <1>2, <3>1
        <4>2. b \in Nat /\ b + 1 \in Nat
          BY <1>2
        <4> HIDE DEF b
        <4>3. QED
          BY <1>2, <4>1, <4>2
      <3>3. v.begin - 1 = b
        BY <1>2, <3>2
      <3> HIDE DEF v
      <3>4. QED
        BY <1>1, <1>4, <2>1, <3>2, <3>3 DEF Thinned, v
    <2>4. QED
      BY <2>2, <2>3
  <1>5. CASE n # 0 /\ u.at # "head"
    <2> DEFINE r == u.begin - 1
               w == u.write
    <2>1. Gathered(u.s, s, w, r) /\ r \in 1 .. n /\ w \in 1 .. r
      BY <1>1, <1>5 DEF Gathered
    <2>2. u.begin = r + 1 /\ r \in Nat /\ u.at = "merge"
      <3>1. u.begin = r + 1 /\ r \in Nat
        BY <1>2, <2>1
      <3>2. u.at = "merge"
        BY <1>1, <1>5
      <3>3. QED
        BY <3>1, <3>2
    <2>3. CASE r = n
      <3>1. v = [u EXCEPT !.at = "done"]
        BY <1>1, <1>5, <2>2, <2>3 DEF UniqueStep, MergeUnique
      <3>2. v \in U /\ v.s = u.s /\ v.begin = n + 1 /\ v.write = w /\ v.at = "done"
        BY <1>1, <2>2, <2>3, <3>1
      <3>3. v.begin - 1 = r
        BY <2>2, <2>3, <3>2
      <3> HIDE DEF v, r, w
      <3>4. QED
        BY <1>1, <1>5, <2>1, <3>2, <3>3 DEF Thinned, v
    <2>4. CASE r # n /\ u.s[r + 1] = u.s[w]
      <3>1. v = [u EXCEPT !.begin = @ + 1]
        BY <1>1, <1>5, <2>1, <2>2, <2>4 DEF UniqueStep, MergeUnique
      <3>2. v \in U /\ v.s = u.s /\ v.begin = (r + 1) + 1 /\ v.write = w /\ v.at = "merge"
        BY <1>1, <2>2, <3>1
      <3>3. v.begin - 1 = r + 1
        BY <2>2, <3>2
      <3> HIDE DEF v, r, w
      <3>4. Gathered(u.s, s, w, r + 1)
        <4>1. r < Len(s)
          BY <1>1, <2>1, <2>4
        <4>2. QED
          BY <2>1, <2>4, <4>1, NextGathered
      <3>5. QED
        BY <1>1, <1>5, <3>2, <3>3, <3>4 DEF Thinned, v
    <2>5. CASE r # n /\ u.s[r + 1] # u.s[w]
      <3> DEFINE t == [u.s EXCEPT ![w + 1] = u.s[r + 1]]
      <3>1. u.begin # Len(u.s) + 1 /\ u.s[u.begin] # u.s[u.write]
        BY <1>1, <2>1, <2>2, <2>5
      <3>2. v = [u EXCEPT !.s = [@ EXCEPT ![u.write + 1] = u.s[u.begin]],
                          !.write = @ + 1, !.begin = @ + 1]
        BY <1>5, <3>1 DEF UniqueStep, MergeUnique
      <3>3. v = [s |-> t, begin |-> u.begin + 1, write |-> w + 1, at |-> u.at]
        <4>1. [u.s EXCEPT ![u.write + 1] = u.s[u.begin]] = t
          BY <2>2
        <4> HIDE DEF t, v
        <4>2. QED
          BY <1>2, <3>2, <4>1
      <3>4. r < Len(s)
        BY <1>1, <2>1, <2>5
      <3> HIDE DEF v, r, w
      <3>5. Gathered(t, s, w + 1, r + 1)
        BY <2>1, <2>5, <3>4, NextGathered
      <3>6. t \in Seq(Elements) /\ Len(t) = n
        BY <3>5 DEF Gathered
      <3>7. w + 1 \in Nat /\ u.begin + 1 \in Nat /\ (u.begin + 1) - 1 = r + 1
        BY <2>1, <2>2
      <3> HIDE DEF t
      <3>8. v \in U /\ v.s = t /\ v.begin - 1 = r + 1 /\ v.write = w + 1 /\ v.at = "merge"
        BY <2>2, <3>3, <3>6, <3>7
      <3>9. QED
        BY <1>1, <1>5, <3>5, <3>6, <3>8 DEF Thinned, v
    <2>6. QED
      BY <2>3, <2>4, <2>5
  <1>6. QED
    BY <1>3, <1>4, <1>5

------------------------------------------------------------------------------
(* The specification.                                                      *)

LEMMA BeginSorts ==
  ASSUME NEW a \in Seq(Elements)
  PROVE  Underway(Started(a), a, 0)
  <1> DEFINE d == Started(a)
             n == Len(a)
             r == [begin |-> 1, end |-> n + 1]
  <1>1. n \in Nat /\ <<>> \in Seq(Ranges)
    OBVIOUS
  <1>2. d = [s |-> a, begin |-> 1, end |-> n + 1, calls |-> <<>>, at |-> "range",
             lt |-> 1, eqb |-> 1, eqe |-> 1, gt |-> 1, it |-> 1]
    BY DEF Started
  <1> HIDE DEF d, n
  <1>3. d \in Sort
    BY <1>1, <1>2 DEF Sort, Sites
  <1>4. /\ d.s = a /\ d.begin = 1 /\ d.end = n + 1 /\ d.calls = <<>> /\ d.at = "range"
    BY <1>2
  <1>5. ToSort(d) = <<r>>
    BY <1>4 DEF ToSort
  <1>6. Laid(n, <<r>>)
    BY <1>1 DEF Laid
  <1>7. Settled(a, <<r>>)
    <2>1. 1 \in 1 .. Len(<<r>>) /\ <<r>>[1].begin = 1 /\ <<r>>[1].end = Len(a) + 1
      BY DEF n
    <2> HIDE DEF r
    <2>2. \A i, j \in 1 .. Len(a) : i < j => Pending(<<r>>, i, j)
      BY <2>1 DEF Pending
    <2>3. QED
      BY <2>2 DEF Settled
  <1>8. Rearranged(a, a, 1, n + 1)
    BY <1>1, RearrangedNot
  <1>9. Arranged(d, a)
    BY <1>4, <1>5, <1>6, <1>7, <1>8 DEF Arranged, n
  <1>10. Phase(d)
    BY <1>4 DEF Phase
  <1>11. Afford(d, n, 0)
    <2>1. StepsLeft(d) = MostSteps(n)
      <3>1. StepsLeft(d) = MostSteps((n + 1) - 1)
        BY <1>4 DEF StepsLeft
      <3>2. (n + 1) - 1 = n
        BY <1>1
      <3>3. QED
        BY <3>1, <3>2
    <2>2. MostSteps(n) \in Nat
      BY <1>1, HalvesIs
    <2>3. 0 + StepsLeft(d) + 0 <= MostSteps(n)
      BY <2>1, <2>2
    <2>4. Owes(d.calls, 0)
      BY <1>4, OwesNone
    <2>5. QED
      BY <2>3, <2>4 DEF Afford
  <1>12. QED
    BY <1>3, <1>9, <1>10, <1>11 DEF Underway, d, n

LEMMA NotSortingIs ==
  /\ NotSorting.at = "none"
  /\ \A c, a, taken : Underway(c, a, taken) => c.at \in Sites /\ c.at # "none"
  <1>1. NotSorting.at = "none"
    BY DEF NotSorting
  <1>2. ASSUME NEW c, NEW a, NEW taken, Underway(c, a, taken)
        PROVE  c.at \in Sites /\ c.at # "none"
    <2>1. c.at \in Sites
      BY <1>2, SortIs DEF Underway
    <2>2. QED
      BY <2>1 DEF Sites
  <1>3. QED
    BY <1>1, <1>2

(* The invariant is kept. *)
LEMMA SortingInvInductive ==
  /\ SortInit => SortingInv
  /\ SortingInv /\ [SortNext]_arrays => SortingInv'
  <1>1. SortInit => SortingInv
    BY DEF SortInit, SortingInv
  <1>2. ASSUME SortingInv, Extend
        PROVE  SortingInv'
    <2>1. sorting = NotSorting /\ steps = 0
      BY <1>2, NotSortingIs DEF SortingInv, Extend
    <2>2. array' \in Seq(Elements)
      BY <1>2 DEF SortingInv, Extend
    <2>3. QED
      BY <1>2, <2>1, <2>2 DEF SortingInv, Extend
  <1>3. ASSUME SortingInv, Begin
        PROVE  SortingInv'
    <2>1. steps = 0 /\ array \in Seq(Elements)
      BY <1>3, NotSortingIs DEF SortingInv, Begin
    <2>2. Underway(sorting', array', steps')
      BY <1>3, <2>1, BeginSorts DEF Begin
    <2>3. array' = array /\ steps' = steps
      BY <1>3 DEF Begin
    <2>4. QED
      BY <2>1, <2>2, <2>3 DEF SortingInv
  <1>4. ASSUME SortingInv, Proceed
        PROVE  SortingInv'
    <2>1. /\ array \in Seq(Elements) /\ steps \in Nat
          /\ Underway(sorting, array, steps) /\ sorting.at # "done"
      BY <1>4, NotSortingIs DEF SortingInv, Proceed
    <2>2. Underway(SortStep(sorting, Less), array, steps + 1)
      BY <2>1, SortStepSorts
    <2>3. /\ sorting' = SortStep(sorting, Less) /\ steps' = steps + 1 /\ array' = array
      BY <1>4 DEF Proceed
    <2>4. steps' \in Nat
      BY <2>1, <2>3
    <2>5. Underway(sorting', array', steps')
      BY <2>2, <2>3
    <2>6. QED
      BY <2>1, <2>3, <2>4, <2>5 DEF SortingInv
  <1>5. ASSUME SortingInv, ThinOut
        PROVE  SortingInv'
    BY <1>5 DEF SortingInv, ThinOut
  <1>6. ASSUME SortingInv, UNCHANGED arrays
        PROVE  SortingInv'
    BY <1>6 DEF SortingInv, arrays
  <1>7. QED
    BY <1>1, <1>2, <1>3, <1>4, <1>5, <1>6 DEF SortNext

(* What has been sorted is in order. *)
LEMMA SortedIs ==
  ASSUME SortingInv, sorting.at = "done"
  PROVE  /\ sorting.s \in Seq(Elements)
         /\ Rearranged(array, sorting.s, 1, Len(array) + 1)
         /\ InOrder(sorting.s)
  <1>1. Underway(sorting, array, steps)
    BY NotSortingIs DEF SortingInv
  <1>2. sorting \in Sort /\ Arranged(sorting, array)
    BY <1>1 DEF Underway
  <1>3. Settled(sorting.s, <<>>)
    BY <1>2 DEF Arranged, ToSort
  <1>4. \A i, j : ~ Pending(<<>>, i, j)
    BY DEF Pending
  <1>5. QED
    BY <1>2, <1>3, <1>4, SortIs DEF Arranged, Settled, InOrder

LEMMA ThinningInvInductive ==
  /\ SortInit => ThinningInv
  /\ SortingInv /\ ThinningInv /\ [SortNext]_arrays => ThinningInv'
  <1>1. SortInit => ThinningInv
    BY DEF SortInit, ThinningInv
  <1>2. ASSUME ThinningInv, sorting.at # "done", UNCHANGED thinning
        PROVE  ThinningInv'
    BY <1>2 DEF ThinningInv
  <1>3. ASSUME ThinningInv, Extend \/ Begin
        PROVE  ThinningInv'
    <2>1. sorting.at # "done" /\ thinning' = thinning
      BY <1>3, NotSortingIs DEF Extend, Begin
    <2>2. QED
      BY <1>2, <1>3, <2>1
  <1>4. ASSUME ThinningInv, Proceed
        PROVE  ThinningInv'
    BY <1>2, <1>4 DEF Proceed
  <1>5. ASSUME SortingInv, ThinningInv, ThinOut
        PROVE  ThinningInv'
    <2>1. sorting.at = "done" /\ thinning.at # "done" /\ sorting' = sorting
      BY <1>5 DEF ThinOut
    <2>2. sorting.s \in Seq(Elements) /\ InOrder(sorting.s)
      BY <1>5, <2>1, SortedIs
    <2>3. CASE thinning = NotThinning
      <3>1. thinning' = Thinning(sorting.s)
        BY <1>5, <2>3 DEF ThinOut
      <3>2. QED
        BY <2>1, <2>2, <3>1, ThinningStarts DEF ThinningInv
    <2>4. CASE thinning # NotThinning
      <3>1. thinning' = UniqueStep(thinning)
        BY <1>5, <2>4 DEF ThinOut
      <3>2. Thinned(thinning, sorting.s)
        BY <1>5, <2>4 DEF ThinningInv
      <3>3. QED
        BY <2>1, <2>2, <3>1, <3>2, UniqueStepThins DEF ThinningInv
    <2>5. QED
      BY <2>3, <2>4
  <1>6. ASSUME ThinningInv, UNCHANGED arrays
        PROVE  ThinningInv'
    BY <1>6 DEF ThinningInv, arrays
  <1>7. QED
    BY <1>1, <1>3, <1>4, <1>5, <1>6 DEF SortNext

(* Rearranged elements are there as often as before. *)
LEMMA RearrangedLosesNothing ==
  ASSUME NEW a \in Seq(Elements), NEW t, Rearranged(a, t, 1, Len(a) + 1), NEW x
  PROVE  Cardinality(PlacesOf(t, x)) = Cardinality(PlacesOf(a, x))
  <1> DEFINE n == Len(a)
             S == PlacesOf(t, x)
             T == PlacesOf(a, x)
  <1>1. PICK f : /\ Rearrangement(f, n, 1, n + 1)
                 /\ \A i \in 1 .. n : t[i] = a[f[i]]
    BY DEF Rearranged
  <1>2. /\ f \in [1 .. n -> 1 .. n]
        /\ \A i, j \in 1 .. n : f[i] = f[j] => i = j
        /\ \A j \in 1 .. n : \E i \in 1 .. n : f[i] = j
    BY <1>1 DEF Rearrangement
  <1>3. /\ S = {i \in 1 .. n : t[i] = x}
        /\ T = {i \in 1 .. n : a[i] = x}
    BY DEF Rearranged, PlacesOf
  <1>4. IsFiniteSet(S)
    <2>1. n \in Int /\ S \in SUBSET (1 .. n)
      BY <1>3
    <2>2. IsFiniteSet(1 .. n)
      BY <2>1, 1 \in Int, FS_Interval
    <2>3. QED
      BY <2>1, <2>2, FS_Subset
  <1> DEFINE g == [i \in S |-> f[i]]
  <1> HIDE DEF S, T, n
  <1>5. g \in [S -> T]
    BY <1>1, <1>2, <1>3
  <1>6. \A i, j \in S : g[i] = g[j] => i = j
    BY <1>2, <1>3
  <1>7. \A j \in T : \E i \in S : g[i] = j
    <2> TAKE j \in T
    <2>1. PICK i \in 1 .. n : f[i] = j
      BY <1>2, <1>3
    <2>2. i \in S
      BY <1>1, <1>3, <2>1
    <2>3. QED
      BY <2>1, <2>2
  <1> HIDE DEF g
  <1>8. g \in Bijection(S, T)
    BY <1>5, <1>6, <1>7 DEF Bijection, Injection, Surjection, IsInjective
  <1>9. Cardinality(T) = Cardinality(S)
    BY <1>4, <1>8, FS_Bijection DEF ExistsBijection
  <1>10. QED
    BY <1>9 DEF S, T

LEMMA StepsAreNatural ==
  ASSUME NEW x \in Nat, NEW y \in Nat, NEW h \in Nat
  PROVE  /\ 4 * (x + y) + 4 + h \in Nat
         /\ 3 * x + 3 + h \in Nat /\ 3 * x + 2 + h \in Nat /\ 3 * x + 1 + h \in Nat
  OBVIOUS

LEMMA StepsLeftIs ==
  ASSUME NEW a \in Seq(Elements), NEW c, NEW taken \in Nat, Underway(c, a, taken)
  PROVE  StepsLeft(c) \in Nat
  <1>1. c \in Sort /\ Arranged(c, a) /\ Phase(c) /\ c.at \in Sites
    BY SortIs DEF Underway
  <1>2. CASE c.at = "done"
    BY <1>2 DEF StepsLeft
  <1>3. CASE c.at # "done"
    <2>1. /\ c.begin \in Nat /\ c.end \in Nat /\ c.eqb \in Nat /\ c.eqe \in Nat /\ c.it \in Nat
          /\ c.lt \in Nat /\ c.gt \in Nat
      BY <1>1, SortIs
    <2>2. c.begin <= c.end
      BY <1>1, <1>3, AtHand
    <2> DEFINE len == c.end - c.begin
    <2>3. len \in Nat
      BY <2>1, <2>2, LengthIs
    <2> HIDE DEF len
    <2>4. Halves(len) \in Nat /\ MostSteps(len) \in Nat
      BY <2>3, HalvesIs
    <2>5. CASE c.at = "range"
      BY <2>4, <2>5 DEF StepsLeft, len
    <2>6. CASE c.at = "insert"
      BY <2>1, <2>6 DEF StepsLeft
    <2>7. CASE c.at = "equals"
      <3>1. c.begin <= c.eqb /\ c.eqe <= c.end
        BY <1>1, <2>7 DEF Phase, Sides
      <3>2. c.eqb - c.begin \in Nat /\ c.end - c.eqe \in Nat
        BY <2>1, <3>1, LengthIs
      <3>3. StepsLeft(c) = 4 * ((c.eqb - c.begin) + (c.end - c.eqe)) + 4 + Halves(len)
        BY <2>7 DEF StepsLeft, len
      <3>4. QED
        BY <2>4, <3>2, <3>3, StepsAreNatural
    <2>8. CASE c.at \in {"right", "left", "cross"}
      <3>1. c.begin <= c.lt /\ c.gt <= c.end
        BY <2>8, DividingIs
      <3>2. c.lt - c.begin \in Nat /\ c.end - c.gt \in Nat
        BY <2>1, <3>1, LengthIs
      <3>3. Wide(c) \in Nat
        BY <3>2 DEF Wide
      <3>4. \/ StepsLeft(c) = 3 * Wide(c) + 3 + Halves(len)
            \/ StepsLeft(c) = 3 * Wide(c) + 2 + Halves(len)
            \/ StepsLeft(c) = 3 * Wide(c) + 1 + Halves(len)
        BY <2>8 DEF StepsLeft, len
      <3>5. QED
        BY <2>4, <3>3, <3>4, StepsAreNatural
    <2>9. QED
      BY <1>1, <1>3, <2>5, <2>6, <2>7, <2>8 DEF Sites
  <1>4. QED
    BY <1>2, <1>3

(* What is kept has the elements of the array, in order, each once. *)
LEMMA ThinnedHasOneOfEach ==
  ASSUME SortingInv, ThinningInv, thinning.at = "done"
  PROVE  OneOfEach
  <1> DEFINE s == sorting.s
             u == thinning
             kept == Truncated(u)
  <1>1. sorting.at = "done" /\ Thinned(u, s)
    BY DEF ThinningInv, NotThinning
  <1>2. /\ s \in Seq(Elements) /\ InOrder(s) /\ array \in Seq(Elements)
        /\ Rearranged(array, s, 1, Len(array) + 1)
    BY <1>1, SortedIs DEF SortingInv
  <1>3. u.s \in Seq(Elements) /\ u.write \in Nat /\ Len(u.s) = Len(s) /\ Len(s) \in Nat
    BY <1>1, <1>2 DEF Thinned
  <1>4. /\ u.write <= Len(s)
        /\ \A i, j \in 1 .. u.write : i < j => u.s[i] # u.s[j] /\ Leq(u.s[i], u.s[j])
        /\ \A i \in 1 .. u.write : \E k \in 1 .. Len(s) : u.s[i] = s[k]
        /\ \A k \in 1 .. Len(s) : \E i \in 1 .. u.write : u.s[i] = s[k]
    <2>1. CASE Len(s) = 0
      <3>1. u.write = 0
        BY <1>1, <2>1 DEF Thinned
      <3>2. QED
        BY <2>1, <3>1
    <2>2. CASE Len(s) # 0
      <3>1. u.begin = Len(s) + 1 /\ Gathered(u.s, s, u.write, u.begin - 1)
        BY <1>1, <2>2 DEF Thinned
      <3>2. u.begin - 1 = Len(s)
        BY <1>3, <3>1
      <3>3. Gathered(u.s, s, u.write, Len(s))
        BY <3>1, <3>2
      <3>4. QED
        BY <1>3, <3>3 DEF Gathered
    <2>3. QED
      BY <2>1, <2>2
  <1>5. /\ kept \in Seq(Elements) /\ Len(kept) = u.write /\ DOMAIN kept = 1 .. u.write
        /\ \A i \in 1 .. u.write : kept[i] = u.s[i]
    BY <1>3, <1>4 DEF Truncated
  <1> HIDE DEF kept, u, s
  <1>6. ASSUME NEW i \in DOMAIN kept, NEW j \in DOMAIN kept, i < j
        PROVE  kept[i] # kept[j] /\ <<kept[i], kept[j]>> \in Less
    <2>1. i \in 1 .. u.write /\ j \in 1 .. u.write
      BY <1>5
    <2>2. u.s[i] # u.s[j] /\ Leq(u.s[i], u.s[j])
      BY <1>4, <1>6, <2>1
    <2>3. QED
      BY <1>5, <2>1, <2>2 DEF Leq
  <1>7. \A x : (\E i \in DOMAIN kept : kept[i] = x) <=> (\E k \in 1 .. Len(s) : s[k] = x)
    <2>1. ASSUME NEW i \in DOMAIN kept
          PROVE  \E k \in 1 .. Len(s) : s[k] = kept[i]
      <3>1. i \in 1 .. u.write /\ kept[i] = u.s[i]
        BY <1>5
      <3>2. PICK k \in 1 .. Len(s) : u.s[i] = s[k]
        BY <1>4, <3>1
      <3>3. QED
        BY <3>1, <3>2
    <2>2. ASSUME NEW k \in 1 .. Len(s)
          PROVE  \E i \in DOMAIN kept : kept[i] = s[k]
      <3>1. PICK i \in 1 .. u.write : u.s[i] = s[k]
        BY <1>4
      <3>2. i \in DOMAIN kept /\ kept[i] = s[k]
        BY <1>5, <3>1
      <3>3. QED
        BY <3>2
    <2>3. QED
      BY <2>1, <2>2
  <1>8. \A x : (\E k \in 1 .. Len(s) : s[k] = x) <=> (\E k \in 1 .. Len(array) : array[k] = x)
    <2>1. PICK f : /\ Rearrangement(f, Len(array), 1, Len(array) + 1)
                   /\ \A i \in 1 .. Len(array) : s[i] = array[f[i]]
      BY <1>2 DEF Rearranged
    <2>2. Len(s) = Len(array)
      BY <1>2 DEF Rearranged
    <2>3. /\ f \in [1 .. Len(array) -> 1 .. Len(array)]
          /\ \A j \in 1 .. Len(array) : \E i \in 1 .. Len(array) : f[i] = j
      BY <2>1 DEF Rearrangement
    <2>4. ASSUME NEW k \in 1 .. Len(s)
          PROVE  \E l \in 1 .. Len(array) : array[l] = s[k]
      BY <2>1, <2>2, <2>3
    <2>5. ASSUME NEW l \in 1 .. Len(array)
          PROVE  \E k \in 1 .. Len(s) : s[k] = array[l]
      <3>1. PICK k \in 1 .. Len(array) : f[k] = l
        BY <2>3
      <3>2. k \in 1 .. Len(s) /\ s[k] = array[l]
        BY <2>1, <2>2, <3>1
      <3>3. QED
        BY <3>2
    <2>6. QED
      BY <2>4, <2>5
  <1>9. DOMAIN array = 1 .. Len(array)
    BY <1>2
  <1>10. \A x : PlacesOf(kept, x) # {} <=> PlacesOf(array, x) # {}
    BY <1>7, <1>8, <1>9 DEF PlacesOf
  <1>11. QED
    BY <1>6, <1>10 DEF OneOfEach, kept, u

LEMMA SortingInvSorts == SortingInv /\ ThinningInv => SortSorts
  <1> SUFFICES ASSUME SortingInv, ThinningInv PROVE SortSorts
    OBVIOUS
  <1>0. thinning.at = "done" => OneOfEach
    BY ThinnedHasOneOfEach
  <1>1. array \in Seq(Elements) /\ steps \in Nat /\ Len(array) \in Nat
    BY DEF SortingInv
  <1>2. MostSteps(Len(array)) \in Nat
    BY <1>1, HalvesIs
  <1>3. CASE sorting = NotSorting /\ steps = 0
    <2>1. SortEnds
      BY <1>2, <1>3 DEF SortEnds
    <2>2. sorting.at # "done"
      BY <1>3, NotSortingIs
    <2>3. QED
      BY <1>0, <2>1, <2>2 DEF SortSorts
  <1>4. CASE Underway(sorting, array, steps)
    <2>1. /\ sorting \in Sort /\ Arranged(sorting, array)
          /\ Afford(sorting, Len(array), steps)
      BY <1>4 DEF Underway
    <2>2. SortEnds
      <3>1. StepsLeft(sorting) \in Nat
        BY <1>1, <1>4, StepsLeftIs
      <3>2. PICK x \in Nat : steps + StepsLeft(sorting) + x <= MostSteps(Len(array))
        BY <2>1 DEF Afford
      <3>3. steps <= MostSteps(Len(array))
        BY <1>1, <1>2, <3>1, <3>2
      <3>4. QED
        BY <3>3 DEF SortEnds
    <2>3. NothingIsLost
      <3>1. Rearranged(array, sorting.s, 1, Len(array) + 1)
        BY <2>1 DEF Arranged
      <3>2. QED
        BY <1>1, <3>1, RearrangedLosesNothing DEF NothingIsLost
    <2>4. ASSUME sorting.at = "done"
          PROVE  Ascending
      <3>1. Settled(sorting.s, <<>>)
        BY <2>1, <2>4 DEF Arranged, ToSort
      <3>2. \A i, j : ~ Pending(<<>>, i, j)
        BY DEF Pending
      <3>3. DOMAIN sorting.s = 1 .. Len(sorting.s)
        BY <2>1, SortIs
      <3>4. QED
        BY <3>1, <3>2, <3>3 DEF Settled, Ascending, Leq
    <2>5. QED
      BY <1>0, <2>2, <2>3, <2>4 DEF SortSorts
  <1>5. QED
    BY <1>3, <1>4 DEF SortingInv

(* Sorting (sort, partition, median, insertion_sort) ends, after at most   *)
(* as many steps as a quadratic sort takes, with the same elements in      *)
(* order: for arrays of any length, any comparison that orders different   *)
(* elements, whatever it says of equal ones, and any lengths at which the  *)
(* code goes over to insertion and to the median of nine.  Thinned out,    *)
(* the array then has each of its elements once (unique).                  *)
THEOREM SortsAreRight == SortSpec => []SortSorts
  <1>1. SortInit => SortingInv /\ ThinningInv
    BY SortingInvInductive, ThinningInvInductive
  <1>2. SortingInv /\ ThinningInv /\ [SortNext]_arrays => (SortingInv /\ ThinningInv)'
    BY SortingInvInductive, ThinningInvInductive
  <1>3. SortingInv /\ ThinningInv => SortSorts
    BY SortingInvSorts
  <1>4. QED
    BY <1>1, <1>2, <1>3, PTL DEF SortSpec

==============================================================================
