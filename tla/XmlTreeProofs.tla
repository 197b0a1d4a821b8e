---------------------------- MODULE XmlTreeProofs ----------------------------
(***************************************************************************)
(* What XmlTree keeps of every document, for any number of nodes and       *)
(* attributes.  First its lists: what the links of a list say, what each   *)
(* operation on links makes of the sequence they stand for, and that       *)
(* following them gives that sequence.                                     *)
(***************************************************************************)
EXTENDS XmlTree, SequenceTheorems, FiniteSetTheorems, WellFoundedInduction, TLAPS

------------------------------------------------------------------------------
(* Lists.                                                                  *)

(* The links of l are those of the sequence s: forward to the end, where   *)
(* they stop, and backward in a circle.                                    *)
Linked(l, s) ==
  /\ s \in Seq(Items)
  /\ \A i, j \in 1 .. Len(s) : s[i] = s[j] => i = j
  /\ l.head = IF s = <<>> THEN Nil ELSE s[1]
  /\ \A i \in 1 .. Len(s) : l.next[s[i]] = IF i = Len(s) THEN Nil ELSE s[i + 1]
  /\ \A i \in 1 .. Len(s) : l.prev[s[i]] = s[IF i = 1 THEN Len(s) ELSE i - 1]

(* The links of a list are functions on the items. *)
Links == [Items -> Items \cup {Nil}]
Lists == [next : Links, prev : Links, head : Items \cup {Nil}]

(* The list of links m is l with x put at position k of its sequence s: no *)
(* other links than those to x are new.                                    *)
SplicedNext(l, s, k, x, i) ==
  IF i = x THEN IF k = Len(s) + 1 THEN Nil ELSE s[k]
  ELSE IF k > 1 /\ i = s[k - 1] THEN x
  ELSE l.next[i]

SplicedPrev(l, s, k, x, i) ==
  IF i = x THEN IF s = <<>> THEN x ELSE s[IF k = 1 THEN Len(s) ELSE k - 1]
  ELSE IF s # <<>> /\ i = s[IF k = Len(s) + 1 THEN 1 ELSE k] THEN x
  ELSE l.prev[i]

Spliced(l, s, k, x, m) ==
  /\ m \in Lists
  /\ m.head = IF k = 1 THEN x ELSE l.head
  /\ \A i \in Items : m.next[i] = SplicedNext(l, s, k, x, i)
  /\ \A i \in Items : m.prev[i] = SplicedPrev(l, s, k, x, i)

(* The list of links m is l without the item at position k of its sequence *)
(* s, which keeps its own links.                                           *)
CutNext(l, s, k, i) == IF k > 1 /\ i = s[k - 1] THEN l.next[s[k]] ELSE l.next[i]
CutPrev(l, s, k, i) ==
  IF i = (IF k = Len(s) THEN s[1] ELSE s[k + 1]) THEN l.prev[s[k]] ELSE l.prev[i]

Cut(l, s, k, m) ==
  /\ m \in Lists
  /\ m.head = IF k = 1 THEN l.next[s[k]] ELSE l.head
  /\ \A i \in Items : m.next[i] = CutNext(l, s, k, i)
  /\ \A i \in Items : m.prev[i] = CutPrev(l, s, k, i)

(* The null pointer leads to no item. *)
LEMMA NilIsNoItem == Nil \notin Items
  BY NodesAssumption DEF Items

(* A sequence with an element put into it. *)
LEMMA InsertAtProperties ==
  ASSUME NEW S, NEW s \in Seq(S), NEW k \in 1 .. Len(s) + 1, NEW x \in S
  PROVE  /\ InsertAt(s, k, x) \in Seq(S)
         /\ Len(InsertAt(s, k, x)) = Len(s) + 1
         /\ \A i \in 1 .. Len(s) + 1 :
              InsertAt(s, k, x)[i] = IF i < k THEN s[i] ELSE IF i = k THEN x ELSE s[i - 1]
  <1> DEFINE front == SubSeq(s, 1, k - 1)
             rear  == SubSeq(s, k, Len(s))
  <1>1. Len(s) \in Nat /\ \A i \in 1 .. Len(s) : s[i] \in S
    OBVIOUS
  <1>2. /\ front \in Seq(S) /\ Len(front) = k - 1
        /\ \A i \in 1 .. k - 1 : front[i] = s[i]
    BY <1>1, SubSeqProperties
  <1>3. /\ rear \in Seq(S) /\ Len(rear) = Len(s) + 1 - k
        /\ \A i \in 1 .. Len(s) + 1 - k : rear[i] = s[i + k - 1]
    BY <1>1, SubSeqProperties
  <1> HIDE DEF front, rear
  <1>4. InsertAt(s, k, x) = front \o <<x>> \o rear
    BY DEF InsertAt, front, rear
  <1>5. /\ front \o <<x>> \in Seq(S) /\ Len(front \o <<x>>) = k
        /\ \A i \in 1 .. k : (front \o <<x>>)[i] = IF i < k THEN s[i] ELSE x
    BY <1>1, <1>2
  <1> DEFINE fore == front \o <<x>>
  <1> HIDE DEF fore
  <1>6. /\ InsertAt(s, k, x) \in Seq(S)
        /\ Len(InsertAt(s, k, x)) = Len(s) + 1
    <2>1. fore \in Seq(S) /\ Len(fore) = k /\ InsertAt(s, k, x) = fore \o rear
      BY <1>4, <1>5 DEF fore
    <2>2. fore \o rear \in Seq(S) /\ Len(fore \o rear) = Len(fore) + Len(rear)
      BY <1>3, <2>1, ConcatProperties
    <2>3. QED
      BY <1>1, <1>3, <2>1, <2>2
  <1>7. ASSUME NEW i \in 1 .. Len(s) + 1
        PROVE  InsertAt(s, k, x)[i] = IF i < k THEN s[i] ELSE IF i = k THEN x ELSE s[i - 1]
    <2>1. CASE i <= k
      BY <1>1, <1>3, <1>4, <1>5, <2>1
    <2>2. CASE i > k
      <3>1. InsertAt(s, k, x)[i] = rear[i - k]
        BY <1>1, <1>3, <1>4, <1>5, <2>2
      <3>2. i - k \in 1 .. Len(s) + 1 - k /\ (i - k) + k - 1 = i - 1
        BY <1>1, <2>2
      <3>3. rear[i - k] = s[(i - k) + k - 1]
        BY <1>3, <3>2
      <3>4. QED
        BY <2>2, <3>1, <3>2, <3>3
    <2>3. QED
      BY <1>1, <2>1, <2>2
  <1>8. QED
    BY <1>6, <1>7

(* RemoveAt, the same way. *)
LEMMA RemoveAtProperties ==
  ASSUME NEW S, NEW s \in Seq(S), NEW k \in 1 .. Len(s)
  PROVE  /\ RemoveAt(s, k) \in Seq(S)
         /\ Len(RemoveAt(s, k)) = Len(s) - 1
         /\ \A i \in 1 .. Len(s) - 1 :
              RemoveAt(s, k)[i] = IF i < k THEN s[i] ELSE s[i + 1]
  <1> DEFINE front == SubSeq(s, 1, k - 1)
             rear  == SubSeq(s, k + 1, Len(s))
  <1>1. Len(s) \in Nat /\ \A i \in 1 .. Len(s) : s[i] \in S
    OBVIOUS
  <1>2. /\ front \in Seq(S) /\ Len(front) = k - 1
        /\ \A i \in 1 .. k - 1 : front[i] = s[i]
    BY <1>1, SubSeqProperties
  <1>3. /\ rear \in Seq(S) /\ Len(rear) = Len(s) - k
        /\ \A i \in 1 .. Len(s) - k : rear[i] = s[i + k]
    BY <1>1, SubSeqProperties
  <1> HIDE DEF front, rear
  <1>4. RemoveAt(s, k) = front \o rear
    BY DEF RemoveAt, front, rear
  <1>5. /\ RemoveAt(s, k) \in Seq(S)
        /\ Len(RemoveAt(s, k)) = Len(s) - 1
    BY <1>1, <1>2, <1>3, <1>4
  <1>6. ASSUME NEW i \in 1 .. Len(s) - 1
        PROVE  RemoveAt(s, k)[i] = IF i < k THEN s[i] ELSE s[i + 1]
    <2>1. CASE i < k
      BY <1>1, <1>2, <1>3, <1>4, <2>1
    <2>2. CASE i >= k
      <3>1. RemoveAt(s, k)[i] = rear[i - (k - 1)]
        BY <1>1, <1>2, <1>3, <1>4, <2>2
      <3>2. i - (k - 1) \in 1 .. Len(s) - k /\ (i - (k - 1)) + k = i + 1
        BY <1>1, <2>2
      <3>3. rear[i - (k - 1)] = s[(i - (k - 1)) + k]
        BY <1>3, <3>2
      <3>4. QED
        BY <2>2, <3>1, <3>2, <3>3
    <2>3. QED
      BY <1>1, <2>1, <2>2
  <1>7. QED
    BY <1>5, <1>6

------------------------------------------------------------------------------
(* A new item.                                                             *)

LEMMA SplicedIsLinked ==
  ASSUME NEW l, NEW m, NEW s, NEW x \in Items, NEW k \in 1 .. Len(s) + 1,
         Linked(l, s), x \notin ToSet(s), Spliced(l, s, k, x, m)
  PROVE  Linked(m, InsertAt(s, k, x))
  <1> DEFINE n == Len(s)
             t == InsertAt(s, k, x)
  <1>1. /\ s \in Seq(Items) /\ n \in Nat /\ k \in 1 .. n + 1
        /\ \A i \in 1 .. n : s[i] \in Items /\ s[i] # x
    BY DEF Linked, ToSet
  <1>2. (s = <<>>) <=> (n = 0)
    BY <1>1
  <1>3. /\ t \in Seq(Items) /\ Len(t) = n + 1
        /\ \A i \in 1 .. n + 1 :
             t[i] = IF i < k THEN s[i] ELSE IF i = k THEN x ELSE s[i - 1]
    BY <1>1, InsertAtProperties
  <1>4. \A i, j \in 1 .. n : s[i] = s[j] => i = j
    BY DEF Linked
  <1>5. /\ l.head = IF s = <<>> THEN Nil ELSE s[1]
        /\ \A i \in 1 .. n : l.next[s[i]] = IF i = n THEN Nil ELSE s[i + 1]
        /\ \A i \in 1 .. n : l.prev[s[i]] = s[IF i = 1 THEN n ELSE i - 1]
    BY DEF Linked
  <1>6. /\ m.head = IF k = 1 THEN x ELSE l.head
        /\ m.next[x] = IF k = n + 1 THEN Nil ELSE s[k]
        /\ m.prev[x] = IF n = 0 THEN x ELSE s[IF k = 1 THEN n ELSE k - 1]
    BY <1>2 DEF Spliced, SplicedNext, SplicedPrev
  <1>7. \A i \in 1 .. n :
          /\ m.next[s[i]] = IF k > 1 /\ i = k - 1 THEN x ELSE l.next[s[i]]
          /\ m.prev[s[i]] = IF i = (IF k = n + 1 THEN 1 ELSE k) THEN x ELSE l.prev[s[i]]
    <2> SUFFICES ASSUME NEW i \in 1 .. n
                 PROVE  /\ m.next[s[i]] = IF k > 1 /\ i = k - 1 THEN x ELSE l.next[s[i]]
                        /\ m.prev[s[i]] = IF i = (IF k = n + 1 THEN 1 ELSE k) THEN x
                                           ELSE l.prev[s[i]]
      OBVIOUS
    <2>1. m.next[s[i]] = IF k > 1 /\ s[i] = s[k - 1] THEN x ELSE l.next[s[i]]
      BY <1>1 DEF Spliced, SplicedNext
    <2>2. m.prev[s[i]] = IF s[i] = s[IF k = n + 1 THEN 1 ELSE k] THEN x ELSE l.prev[s[i]]
      BY <1>1, <1>2 DEF Spliced, SplicedPrev
    <2>3. k > 1 => (s[i] = s[k - 1] <=> i = k - 1)
      BY <1>1, <1>4
    <2>4. s[i] = s[IF k = n + 1 THEN 1 ELSE k] <=> i = IF k = n + 1 THEN 1 ELSE k
      BY <1>1, <1>4
    <2>5. QED
      BY <2>1, <2>2, <2>3, <2>4
  <1> HIDE DEF t, n
  <1>8. ASSUME NEW i \in 1 .. n + 1, NEW j \in 1 .. n + 1, t[i] = t[j]
        PROVE  i = j
    <2> DEFINE of(p) == IF p < k THEN p ELSE p - 1
    <2>1. \A p \in 1 .. n + 1 : p # k => of(p) \in 1 .. n /\ t[p] = s[of(p)]
      BY <1>1, <1>3
    <2>2. t[k] = x
      BY <1>1, <1>3
    <2>3. i = k <=> j = k
      BY <1>1, <1>8, <2>1, <2>2
    <2>4. CASE i # k
      <3>1. j # k
        BY <2>3, <2>4
      <3>2. of(i) \in 1 .. n /\ of(j) \in 1 .. n /\ s[of(i)] = s[of(j)]
        BY <1>8, <2>1, <2>4, <3>1
      <3>3. of(i) = of(j)
        BY <1>4, <3>2
      <3>4. QED
        BY <1>1, <2>4, <3>1, <3>3
    <2>5. QED
      BY <2>3, <2>4
  <1>9. m.head = IF t = <<>> THEN Nil ELSE t[1]
    BY <1>1, <1>2, <1>3, <1>5, <1>6
  <1>10. ASSUME NEW i \in 1 .. n + 1
         PROVE  m.next[t[i]] = IF i = n + 1 THEN Nil ELSE t[i + 1]
    <2>1. i <= n => i + 1 \in 1 .. n + 1
      BY <1>1
    <2>2. CASE i < k
      <3>1. i \in 1 .. n /\ t[i] = s[i]
        BY <1>1, <1>3, <2>2
      <3>2. m.next[s[i]] = IF i = k - 1 THEN x ELSE IF i = n THEN Nil ELSE s[i + 1]
        BY <1>1, <1>5, <1>7, <2>2, <3>1
      <3>3. t[i + 1] = IF i = k - 1 THEN x ELSE s[i + 1]
        BY <1>1, <1>3, <2>1, <2>2
      <3>4. QED
        BY <1>1, <2>2, <3>1, <3>2, <3>3
    <2>3. CASE i = k
      <3>1. t[i] = x /\ (i <= n => t[i + 1] = s[(i + 1) - 1])
        BY <1>1, <1>3, <2>1, <2>3
      <3>2. QED
        BY <1>1, <1>6, <2>3, <3>1
    <2>4. CASE i > k
      <3>1. i - 1 \in 1 .. n /\ t[i] = s[i - 1] /\ (i <= n => t[i + 1] = s[(i + 1) - 1])
        BY <1>1, <1>3, <2>1, <2>4
      <3>2. m.next[s[i - 1]] = IF i - 1 = n THEN Nil ELSE s[(i - 1) + 1]
        BY <1>1, <1>5, <1>7, <2>4, <3>1
      <3>3. QED
        BY <1>1, <3>1, <3>2
    <2>5. QED
      BY <1>1, <2>2, <2>3, <2>4
  <1>11. ASSUME NEW i \in 1 .. n + 1
         PROVE  m.prev[t[i]] = t[IF i = 1 THEN n + 1 ELSE i - 1]
    <2>1. /\ i > 1 => i - 1 \in 1 .. n + 1
          /\ n + 1 \in 1 .. n + 1
      BY <1>1
    <2>2. CASE i < k
      <3>1. i \in 1 .. n /\ t[i] = s[i]
        BY <1>1, <1>3, <2>2
      <3>2. m.prev[s[i]] = IF k = n + 1 /\ i = 1 THEN x ELSE s[IF i = 1 THEN n ELSE i - 1]
        BY <1>1, <1>5, <1>7, <2>2, <3>1
      <3>3. t[n + 1] = IF k = n + 1 THEN x ELSE s[(n + 1) - 1]
        BY <1>1, <1>3, <2>1
      <3>4. i > 1 => t[i - 1] = s[i - 1]
        BY <1>1, <1>3, <2>1, <2>2
      <3>5. QED
        BY <1>1, <2>2, <3>1, <3>2, <3>3, <3>4
    <2>3. CASE i = k
      <3>1. t[i] = x
        BY <1>3, <2>3
      <3>2. CASE i = 1
        <4>1. t[n + 1] = IF n = 0 THEN x ELSE s[(n + 1) - 1]
          BY <1>1, <1>3, <2>1, <2>3, <3>2
        <4>2. QED
          BY <1>1, <1>6, <2>3, <3>1, <3>2, <4>1
      <3>3. CASE i > 1
        <4>1. t[i - 1] = s[i - 1]
          BY <1>1, <1>3, <2>1, <2>3, <3>3
        <4>2. QED
          BY <1>1, <1>6, <2>3, <3>1, <3>3, <4>1
      <3>4. QED
        BY <1>1, <3>2, <3>3
    <2>4. CASE i > k
      <3>1. i - 1 \in 1 .. n /\ t[i] = s[i - 1] /\ i # 1
        BY <1>1, <1>3, <2>4
      <3>2. t[i - 1] = IF i - 1 = k THEN x ELSE s[(i - 1) - 1]
        BY <1>1, <1>3, <2>1, <2>4, <3>1
      <3>3. m.prev[s[i - 1]] = IF i - 1 = k THEN x ELSE s[(i - 1) - 1]
        BY <1>1, <1>5, <1>7, <2>4, <3>1
      <3>4. QED
        BY <3>1, <3>2, <3>3
    <2>5. QED
      BY <1>1, <2>2, <2>3, <2>4
  <1>12. QED
    BY <1>3, <1>8, <1>9, <1>10, <1>11 DEF Linked, t

(* What the operations need to know of a list and of an item not in it. *)
LEMMA ItemsOfLinked ==
  ASSUME NEW l \in Lists, NEW s, NEW x \in Items, Linked(l, s), x \notin ToSet(s)
  PROVE  /\ s \in Seq(Items) /\ Len(s) \in Nat
         /\ (s = <<>>) <=> (Len(s) = 0)
         /\ \A i \in 1 .. Len(s) : s[i] \in Items /\ s[i] # x /\ s[i] # Nil
         /\ \A i, j \in 1 .. Len(s) : s[i] = s[j] => i = j
         /\ l.head = IF s = <<>> THEN Nil ELSE s[1]
         /\ \A i \in 1 .. Len(s) : l.next[s[i]] = IF i = Len(s) THEN Nil ELSE s[i + 1]
         /\ \A i \in 1 .. Len(s) : l.prev[s[i]] = s[IF i = 1 THEN Len(s) ELSE i - 1]
  <1>1. s \in Seq(Items) /\ Len(s) \in Nat /\ \A i \in 1 .. Len(s) : s[i] \in Items
    BY DEF Linked
  <1>2. \A i \in 1 .. Len(s) : s[i] # x /\ s[i] # Nil
    BY <1>1, NilIsNoItem DEF ToSet
  <1>3. QED
    BY <1>1, <1>2 DEF Linked

(* append_node puts x at the end. *)
LEMMA AppendedSplices ==
  ASSUME NEW l \in Lists, NEW s, NEW x \in Items,
         Linked(l, s), x \notin ToSet(s), l.next[x] = Nil
  PROVE  Spliced(l, s, Len(s) + 1, x, Appended(l, x))
  <1> DEFINE n == Len(s)
             m == Appended(l, x)
  <1>1. /\ s \in Seq(Items) /\ n \in Nat
        /\ (s = <<>>) <=> (n = 0)
        /\ \A i \in 1 .. n : s[i] \in Items /\ s[i] # x /\ s[i] # Nil
        /\ l.head = IF s = <<>> THEN Nil ELSE s[1]
        /\ \A i \in 1 .. n : l.prev[s[i]] = s[IF i = 1 THEN n ELSE i - 1]
    BY ItemsOfLinked
  <1>2. CASE s = <<>>
    <2>1. m = [l EXCEPT !.prev[x] = x, !.head = x]
      BY <1>1, <1>2 DEF Appended, Alone
    <2>2. m = [next |-> l.next, prev |-> [l.prev EXCEPT ![x] = x], head |-> x]
      BY <2>1 DEF Lists
    <2>3. m \in Lists
      BY <2>2 DEF Lists, Links
    <2>4. /\ m.next = l.next /\ m.head = x
          /\ \A i \in Items : m.prev[i] = IF i = x THEN x ELSE l.prev[i]
      BY <2>2 DEF Lists, Links
    <2> HIDE DEF m
    <2>5. Len(s) + 1 = 1
      BY <1>1, <1>2
    <2>6. \A i \in Items : m.next[i] = SplicedNext(l, s, 1, x, i)
      BY <2>4, <2>5 DEF SplicedNext
    <2>7. \A i \in Items : m.prev[i] = SplicedPrev(l, s, 1, x, i)
      BY <1>2, <2>4 DEF SplicedPrev
    <2>8. Spliced(l, s, 1, x, m)
      BY <2>3, <2>4, <2>6, <2>7 DEF Spliced
    <2>9. QED
      BY <2>5, <2>8 DEF m
  <1>3. CASE s # <<>>
    <2>1. n >= 1 /\ 1 \in 1 .. n /\ n \in 1 .. n
      BY <1>1, <1>3
    <2>2. l.head = s[1] /\ l.head # Nil /\ l.prev[s[1]] = s[n]
      BY <1>1, <1>3, <2>1
    <2>3. m = [l EXCEPT !.next[s[n]] = x, !.prev = [@ EXCEPT ![x] = s[n], ![s[1]] = x]]
      BY <2>2 DEF Appended
    <2>4. m = [next |-> [l.next EXCEPT ![s[n]] = x],
               prev |-> [[l.prev EXCEPT ![x] = s[n]] EXCEPT ![s[1]] = x],
               head |-> s[1]]
      BY <2>2, <2>3 DEF Lists
    <2>5. m \in Lists
      BY <1>1, <2>1, <2>4 DEF Lists, Links
    <2>6. s[n] \in Items /\ s[1] \in Items /\ s[n] # x /\ s[1] # x
      BY <1>1, <2>1
    <2>7. /\ \A i \in Items : m.next[i] = IF i = s[n] THEN x ELSE l.next[i]
          /\ \A i \in Items : m.prev[i] = IF i = s[1] THEN x ELSE IF i = x THEN s[n]
                                          ELSE l.prev[i]
          /\ m.head = s[1]
      BY <2>4, <2>6 DEF Lists, Links
    <2> HIDE DEF m
    <2>8. (n + 1) - 1 = n /\ n + 1 > 1 /\ n + 1 # 1
      BY <2>1
    <2>9. \A i \in Items : m.next[i] = SplicedNext(l, s, n + 1, x, i)
      BY <2>6, <2>7, <2>8 DEF SplicedNext
    <2>10. \A i \in Items : m.prev[i] = SplicedPrev(l, s, n + 1, x, i)
      BY <1>3, <2>6, <2>7, <2>8 DEF SplicedPrev
    <2>11. Spliced(l, s, n + 1, x, m)
      BY <2>2, <2>5, <2>7, <2>8, <2>9, <2>10 DEF Spliced
    <2>12. QED
      BY <2>11 DEF m
  <1>4. QED
    BY <1>2, <1>3

(* prepend_node puts x at the beginning. *)
LEMMA PrependedSplices ==
  ASSUME NEW l \in Lists, NEW s, NEW x \in Items,
         Linked(l, s), x \notin ToSet(s), l.next[x] = Nil
  PROVE  Spliced(l, s, 1, x, Prepended(l, x))
  <1> DEFINE n == Len(s)
             m == Prepended(l, x)
  <1>1. /\ s \in Seq(Items) /\ n \in Nat
        /\ (s = <<>>) <=> (n = 0)
        /\ \A i \in 1 .. n : s[i] \in Items /\ s[i] # x /\ s[i] # Nil
        /\ l.head = IF s = <<>> THEN Nil ELSE s[1]
        /\ \A i \in 1 .. n : l.prev[s[i]] = s[IF i = 1 THEN n ELSE i - 1]
    BY ItemsOfLinked
  <1>2. CASE s = <<>>
    <2>1. m = [l EXCEPT !.prev[x] = x, !.head = x]
      BY <1>1, <1>2 DEF Prepended, Alone
    <2>2. m = [next |-> l.next, prev |-> [l.prev EXCEPT ![x] = x], head |-> x]
      BY <2>1 DEF Lists
    <2>3. m \in Lists
      BY <2>2 DEF Lists, Links
    <2>4. /\ m.next = l.next /\ m.head = x
          /\ \A i \in Items : m.prev[i] = IF i = x THEN x ELSE l.prev[i]
      BY <2>2 DEF Lists, Links
    <2> HIDE DEF m
    <2>5. Len(s) + 1 = 1
      BY <1>1, <1>2
    <2>6. \A i \in Items : m.next[i] = SplicedNext(l, s, 1, x, i)
      BY <2>4, <2>5 DEF SplicedNext
    <2>7. \A i \in Items : m.prev[i] = SplicedPrev(l, s, 1, x, i)
      BY <1>2, <2>4 DEF SplicedPrev
    <2>8. Spliced(l, s, 1, x, m)
      BY <2>3, <2>4, <2>6, <2>7 DEF Spliced
    <2>9. QED
      BY <2>5, <2>8 DEF m
  <1>3. CASE s # <<>>
    <2>1. n >= 1 /\ 1 \in 1 .. n /\ n \in 1 .. n
      BY <1>1, <1>3
    <2>2. l.head = s[1] /\ l.head # Nil /\ l.prev[s[1]] = s[n]
      BY <1>1, <1>3, <2>1
    <2>3. m = [next |-> [l.next EXCEPT ![x] = s[1]],
               prev |-> [[l.prev EXCEPT ![x] = s[n]] EXCEPT ![s[1]] = x],
               head |-> x]
      BY <2>2 DEF Prepended, Lists
    <2>4. s[n] \in Items /\ s[1] \in Items /\ s[n] # x /\ s[1] # x
      BY <1>1, <2>1
    <2>5. m \in Lists
      BY <2>3, <2>4 DEF Lists, Links
    <2>6. /\ \A i \in Items : m.next[i] = IF i = x THEN s[1] ELSE l.next[i]
          /\ \A i \in Items : m.prev[i] = IF i = s[1] THEN x ELSE IF i = x THEN s[n]
                                          ELSE l.prev[i]
          /\ m.head = x
      BY <2>3, <2>4 DEF Lists, Links
    <2> HIDE DEF m
    <2>7. 1 # n + 1 /\ ~(1 > 1)
      BY <2>1
    <2>8. \A i \in Items : m.next[i] = SplicedNext(l, s, 1, x, i)
      BY <2>4, <2>6, <2>7 DEF SplicedNext
    <2>9. \A i \in Items : m.prev[i] = SplicedPrev(l, s, 1, x, i)
      BY <1>3, <2>4, <2>6, <2>7 DEF SplicedPrev
    <2>10. Spliced(l, s, 1, x, m)
      BY <2>5, <2>6, <2>8, <2>9 DEF Spliced
    <2>11. QED
      BY <2>10 DEF m
  <1>4. QED
    BY <1>2, <1>3

(* insert_node_before puts x where the item named was. *)
LEMMA InsertedBeforeSplices ==
  ASSUME NEW l \in Lists, NEW s, NEW x \in Items, NEW k \in 1 .. Len(s),
         Linked(l, s), x \notin ToSet(s), l.next[x] = Nil
  PROVE  Spliced(l, s, k, x, InsertedBefore(l, x, s[k]))
  <1> DEFINE n == Len(s)
             y == s[k]
             before == s[IF k = 1 THEN n ELSE k - 1]
             m == InsertedBefore(l, x, y)
  <1>1. /\ s \in Seq(Items) /\ n \in Nat /\ s # <<>>
        /\ \A i \in 1 .. n : s[i] \in Items /\ s[i] # x /\ s[i] # Nil
        /\ l.head = s[1]
        /\ \A i \in 1 .. n : l.next[s[i]] = IF i = n THEN Nil ELSE s[i + 1]
        /\ \A i \in 1 .. n : l.prev[s[i]] = s[IF i = 1 THEN n ELSE i - 1]
    BY ItemsOfLinked
  <1>2. /\ k \in 1 .. n /\ n \in 1 .. n /\ n + 1 # k /\ (k > 1 <=> k # 1)
        /\ k # 1 => k - 1 \in 1 .. n /\ k - 1 # n /\ (k - 1) + 1 = k
    BY <1>1
  <1>3. /\ y \in Items /\ y # x /\ y # Nil /\ before \in Items /\ before # x
        /\ l.prev[y] = before
    BY <1>1, <1>2
  <1>4. l.next[before] = IF k = 1 THEN Nil ELSE y
    BY <1>1, <1>2
  <1>5. k = 1 => l.head = y
    BY <1>1
  <1> HIDE DEF y, before
  <1>6. IsFirst(l, y) <=> k = 1
    BY <1>3, <1>4 DEF IsFirst
  <1>7. m = [next |-> IF k = 1 THEN [l.next EXCEPT ![x] = y]
                      ELSE [l.next EXCEPT ![before] = x, ![x] = y],
             prev |-> [l.prev EXCEPT ![x] = before, ![y] = x],
             head |-> IF k = 1 THEN x ELSE l.head]
    BY <1>3, <1>6 DEF InsertedBefore
  <1>8. m \in Lists
    BY <1>3, <1>7 DEF Lists, Links
  <1>9. /\ \A i \in Items : m.next[i] = IF i = x THEN y
                                        ELSE IF k # 1 /\ i = before THEN x
                                        ELSE l.next[i]
        /\ \A i \in Items : m.prev[i] = IF i = y THEN x ELSE IF i = x THEN before
                                        ELSE l.prev[i]
        /\ m.head = IF k = 1 THEN x ELSE l.head
    BY <1>3, <1>7 DEF Lists, Links
  <1> HIDE DEF m
  <1>10. \A i \in Items : m.next[i] = SplicedNext(l, s, k, x, i)
    BY <1>2, <1>9 DEF SplicedNext, y, before
  <1>11. \A i \in Items : m.prev[i] = SplicedPrev(l, s, k, x, i)
    BY <1>1, <1>2, <1>3, <1>9 DEF SplicedPrev, y, before
  <1>12. QED
    BY <1>8, <1>9, <1>10, <1>11 DEF Spliced, m, y

(* insert_node_after puts x after the item named. *)
LEMMA InsertedAfterSplices ==
  ASSUME NEW l \in Lists, NEW s, NEW x \in Items, NEW k \in 1 .. Len(s),
         Linked(l, s), x \notin ToSet(s), l.next[x] = Nil
  PROVE  Spliced(l, s, k + 1, x, InsertedAfter(l, x, s[k]))
  <1> DEFINE n == Len(s)
             y == s[k]
             m == InsertedAfter(l, x, y)
             back == IF k = n THEN s[1] ELSE s[k + 1]
  <1>1. /\ s \in Seq(Items) /\ n \in Nat /\ s # <<>>
        /\ \A i \in 1 .. n : s[i] \in Items /\ s[i] # x /\ s[i] # Nil
        /\ l.head = s[1]
        /\ \A i \in 1 .. n : l.next[s[i]] = IF i = n THEN Nil ELSE s[i + 1]
        /\ \A i, j \in 1 .. n : s[i] = s[j] => i = j
    BY ItemsOfLinked
  <1>2. /\ k \in 1 .. n /\ 1 \in 1 .. n /\ (k # n => k + 1 \in 1 .. n)
    BY <1>1
  <1>3. l.next[y] = (IF k = n THEN Nil ELSE s[k + 1]) /\ (k # n => s[k + 1] # Nil)
    BY <1>1, <1>2
  <1> HIDE DEF y
  <1>4. m = [next |-> [[l.next EXCEPT ![x] = IF k = n THEN Nil ELSE s[k + 1]] EXCEPT ![y] = x],
             prev |-> [[l.prev EXCEPT ![back] = x] EXCEPT ![x] = y],
             head |-> s[1]]
    <2>1. (IF l.next[y] # Nil THEN l.next[y] ELSE l.head) = back
      BY <1>1, <1>3
    <2> HIDE DEF back
    <2>2. m = [l EXCEPT !.next = [@ EXCEPT ![x] = l.next[y], ![y] = x],
                        !.prev = [@ EXCEPT ![back] = x, ![x] = y]]
      BY <2>1 DEF InsertedAfter
    <2>3. QED
      BY <1>1, <1>3, <2>2 DEF Lists
  <1>5. /\ y \in Items /\ y # x /\ back \in Items /\ back # x
        /\ (IF k = n THEN Nil ELSE s[k + 1]) \in Items \cup {Nil}
        /\ s[1] \in Items
    BY <1>1, <1>2 DEF y
  <1> HIDE DEF back
  <1>6. m \in Lists
    BY <1>4, <1>5 DEF Lists, Links
  <1>7. /\ \A i \in Items : m.next[i] = IF i = y THEN x
                                        ELSE IF i = x THEN IF k = n THEN Nil ELSE s[k + 1]
                                        ELSE l.next[i]
        /\ \A i \in Items : m.prev[i] = IF i = x THEN y ELSE IF i = back THEN x
                                        ELSE l.prev[i]
        /\ m.head = s[1]
    BY <1>4, <1>5 DEF Lists, Links
  <1> HIDE DEF m
  <1>8. (k + 1) - 1 = k /\ k + 1 # 1 /\ k + 1 > 1 /\ (k + 1 = n + 1 <=> k = n)
    BY <1>1, <1>2
  <1>9. \A i \in Items : m.next[i] = SplicedNext(l, s, k + 1, x, i)
    BY <1>5, <1>7, <1>8 DEF SplicedNext, y
  <1>10. \A i \in Items : m.prev[i] = SplicedPrev(l, s, k + 1, x, i)
    BY <1>1, <1>5, <1>7, <1>8 DEF SplicedPrev, y, back
  <1>11. Spliced(l, s, k + 1, x, m)
    BY <1>1, <1>6, <1>7, <1>8, <1>9, <1>10 DEF Spliced
  <1>12. QED
    BY <1>11 DEF m, y

------------------------------------------------------------------------------
(* An item goes.                                                           *)

LEMMA CutIsLinked ==
  ASSUME NEW l \in Lists, NEW m, NEW s, NEW k \in 1 .. Len(s),
         Linked(l, s), Cut(l, s, k, m)
  PROVE  Linked(m, RemoveAt(s, k))
  <1> DEFINE n == Len(s)
             t == RemoveAt(s, k)
  <1>1. /\ s \in Seq(Items) /\ n \in Nat /\ k \in 1 .. n /\ n >= 1
        /\ \A i \in 1 .. n : s[i] \in Items
        /\ l.head = s[1]
    BY DEF Linked
  <1>2. /\ t \in Seq(Items) /\ Len(t) = n - 1
        /\ \A i \in 1 .. n - 1 : t[i] = IF i < k THEN s[i] ELSE s[i + 1]
    BY <1>1, RemoveAtProperties
  <1>3. \A i, j \in 1 .. n : s[i] = s[j] => i = j
    BY DEF Linked
  <1>4. /\ \A i \in 1 .. n : l.next[s[i]] = IF i = n THEN Nil ELSE s[i + 1]
        /\ \A i \in 1 .. n : l.prev[s[i]] = s[IF i = 1 THEN n ELSE i - 1]
    BY DEF Linked
  <1>5. /\ m.head = IF k = 1 THEN IF n = 1 THEN Nil ELSE s[1 + 1] ELSE s[1]
        /\ \A i \in 1 .. n :
             m.next[s[i]] = IF i = k - 1 THEN IF k = n THEN Nil ELSE s[k + 1]
                            ELSE IF i = n THEN Nil ELSE s[i + 1]
    <2>1. m.head = IF k = 1 THEN l.next[s[k]] ELSE s[1]
      BY <1>1 DEF Cut
    <2>2. ASSUME NEW i \in 1 .. n
          PROVE  m.next[s[i]] = IF i = k - 1 THEN IF k = n THEN Nil ELSE s[k + 1]
                                ELSE IF i = n THEN Nil ELSE s[i + 1]
      <3>1. m.next[s[i]] = IF k > 1 /\ s[i] = s[k - 1] THEN l.next[s[k]] ELSE l.next[s[i]]
        BY <1>1 DEF Cut, CutNext
      <3>2. (k > 1 /\ s[i] = s[k - 1]) <=> i = k - 1
        BY <1>1, <1>3
      <3>3. QED
        BY <1>1, <1>4, <3>1, <3>2
    <2>3. l.next[s[k]] = IF k = n THEN Nil ELSE s[k + 1]
      BY <1>1, <1>4
    <2>4. QED
      BY <1>1, <2>1, <2>2, <2>3
  <1>6. \A i \in 1 .. n :
          m.prev[s[i]] = IF i = (IF k = n THEN 1 ELSE k + 1)
                         THEN s[IF k = 1 THEN n ELSE k - 1]
                         ELSE s[IF i = 1 THEN n ELSE i - 1]
    <2> SUFFICES ASSUME NEW i \in 1 .. n
                 PROVE  m.prev[s[i]] = IF i = (IF k = n THEN 1 ELSE k + 1)
                                       THEN s[IF k = 1 THEN n ELSE k - 1]
                                       ELSE s[IF i = 1 THEN n ELSE i - 1]
      OBVIOUS
    <2>1. m.prev[s[i]] = IF s[i] = (IF k = n THEN s[1] ELSE s[k + 1])
                         THEN l.prev[s[k]] ELSE l.prev[s[i]]
      BY <1>1 DEF Cut, CutPrev
    <2>2. s[i] = (IF k = n THEN s[1] ELSE s[k + 1]) <=> i = (IF k = n THEN 1 ELSE k + 1)
      BY <1>1, <1>3
    <2>3. QED
      BY <1>1, <1>4, <2>1, <2>2
  <1> HIDE DEF t, n
  <1>7. ASSUME NEW i \in 1 .. n - 1, NEW j \in 1 .. n - 1, t[i] = t[j]
        PROVE  i = j
    <2> DEFINE of(p) == IF p < k THEN p ELSE p + 1
    <2>1. \A p \in 1 .. n - 1 : of(p) \in 1 .. n /\ t[p] = s[of(p)]
      BY <1>1, <1>2
    <2>2. of(i) = of(j)
      BY <1>3, <1>7, <2>1
    <2>3. QED
      BY <1>1, <2>2
  <1>8. m.head = IF t = <<>> THEN Nil ELSE t[1]
    <2>1. (t = <<>>) <=> n = 1
      BY <1>1, <1>2
    <2>2. n > 1 => t[1] = IF k = 1 THEN s[1 + 1] ELSE s[1]
      BY <1>1, <1>2
    <2>3. QED
      BY <1>1, <1>5, <2>1, <2>2
  <1>9. ASSUME NEW i \in 1 .. n - 1
        PROVE  m.next[t[i]] = IF i = n - 1 THEN Nil ELSE t[i + 1]
    <2>1. i < n - 1 => i + 1 \in 1 .. n - 1
      BY <1>1
    <2>2. CASE i < k
      <3>1. i \in 1 .. n /\ t[i] = s[i] /\ i # n
        BY <1>1, <1>2, <2>2
      <3>2. i < n - 1 => t[i + 1] = IF i + 1 < k THEN s[i + 1] ELSE s[(i + 1) + 1]
        BY <1>2, <2>1
      <3>3. m.next[s[i]] = IF i = k - 1 THEN IF k = n THEN Nil ELSE s[k + 1] ELSE s[i + 1]
        BY <1>5, <3>1
      <3>4. QED
        BY <1>1, <2>2, <3>1, <3>2, <3>3
    <2>3. CASE i >= k
      <3>1. i + 1 \in 1 .. n /\ t[i] = s[i + 1] /\ i + 1 # k - 1
        BY <1>1, <1>2, <2>3
      <3>2. i < n - 1 => t[i + 1] = s[(i + 1) + 1]
        BY <1>1, <1>2, <2>1, <2>3
      <3>3. m.next[s[i + 1]] = IF i + 1 = n THEN Nil ELSE s[(i + 1) + 1]
        BY <1>5, <3>1
      <3>4. QED
        BY <1>1, <2>3, <3>1, <3>2, <3>3
    <2>4. QED
      BY <1>1, <2>2, <2>3
  <1>10. ASSUME NEW i \in 1 .. n - 1
         PROVE  m.prev[t[i]] = t[IF i = 1 THEN n - 1 ELSE i - 1]
    <2>1. /\ i # 1 => i - 1 \in 1 .. n - 1
          /\ n - 1 \in 1 .. n - 1
      BY <1>1
    <2>2. t[n - 1] = IF k = n THEN s[n - 1] ELSE s[(n - 1) + 1]
      BY <1>1, <1>2, <2>1
    <2>3. CASE i < k
      <3>1. i \in 1 .. n /\ t[i] = s[i]
        BY <1>1, <1>2, <2>3
      <3>2. i # 1 => t[i - 1] = s[i - 1]
        BY <1>1, <1>2, <2>1, <2>3
      <3>3. m.prev[s[i]] = IF k = n /\ i = 1 THEN s[n - 1] ELSE s[IF i = 1 THEN n ELSE i - 1]
        BY <1>1, <1>6, <2>3, <3>1
      <3>4. QED
        BY <1>1, <2>2, <2>3, <3>1, <3>2, <3>3
    <2>4. CASE i >= k
      <3>1. i + 1 \in 1 .. n /\ t[i] = s[i + 1] /\ k # n /\ i + 1 # 1
        BY <1>1, <1>2, <2>4
      <3>2. i # 1 => t[i - 1] = IF i - 1 < k THEN s[i - 1] ELSE s[(i - 1) + 1]
        BY <1>2, <2>1
      <3>3. m.prev[s[i + 1]] = IF i = k THEN s[IF k = 1 THEN n ELSE k - 1] ELSE s[(i + 1) - 1]
        BY <1>1, <1>6, <3>1
      <3>4. QED
        BY <1>1, <2>2, <2>4, <3>1, <3>2, <3>3
    <2>5. QED
      BY <1>1, <2>3, <2>4
  <1>11. QED
    BY <1>2, <1>7, <1>8, <1>9, <1>10 DEF Linked, t

(* remove_node takes the item named out, wherever it is. *)
LEMMA UnlinkedCuts ==
  ASSUME NEW l \in Lists, NEW s, NEW k \in 1 .. Len(s), Linked(l, s)
  PROVE  Cut(l, s, k, Unlinked(l, s[k]))
  <1> DEFINE n == Len(s)
             x == s[k]
             back == IF k = n THEN s[1] ELSE s[k + 1]
             before == s[IF k = 1 THEN n ELSE k - 1]
             prev == [l.prev EXCEPT ![back] = before]
             m == Unlinked(l, x)
  <1>1. /\ s \in Seq(Items) /\ n \in Nat /\ k \in 1 .. n /\ n >= 1
        /\ \A i \in 1 .. n : s[i] \in Items /\ s[i] # Nil
        /\ l.head = s[1]
        /\ \A i, j \in 1 .. n : s[i] = s[j] => i = j
        /\ \A i \in 1 .. n : l.next[s[i]] = IF i = n THEN Nil ELSE s[i + 1]
        /\ \A i \in 1 .. n : l.prev[s[i]] = s[IF i = 1 THEN n ELSE i - 1]
    BY NilIsNoItem DEF Linked
  <1>2. /\ x \in Items /\ back \in Items /\ before \in Items
        /\ l.next[x] = IF k = n THEN Nil ELSE s[k + 1]
        /\ k # n => s[k + 1] # Nil
        /\ l.prev[x] = before
    BY <1>1
  <1>3. (l.next[before] # Nil) <=> k > 1
    BY <1>1
  <1>4. (IF l.next[x] # Nil THEN l.next[x] ELSE l.head) = back
    BY <1>1, <1>2
  <1>5. prev[x] = before
    BY <1>2 DEF Lists, Links
  <1> HIDE DEF x, back, before
  <1>6. m = IF k > 1 THEN [l EXCEPT !.prev = prev, !.next[before] = l.next[x]]
            ELSE [l EXCEPT !.prev = prev, !.head = l.next[x]]
    BY <1>2, <1>3, <1>4, <1>5 DEF Unlinked
  <1>7. m = [next |-> IF k > 1 THEN [l.next EXCEPT ![before] = l.next[x]] ELSE l.next,
             prev |-> prev,
             head |-> IF k > 1 THEN l.head ELSE l.next[x]]
    BY <1>6 DEF Lists
  <1>8. m \in Lists
    BY <1>2, <1>7 DEF Lists, Links
  <1>9. /\ \A i \in Items : m.next[i] = IF k > 1 /\ i = before THEN l.next[x] ELSE l.next[i]
        /\ \A i \in Items : m.prev[i] = IF i = back THEN l.prev[x] ELSE l.prev[i]
        /\ m.head = IF k > 1 THEN l.head ELSE l.next[x]
    BY <1>2, <1>7 DEF Lists, Links
  <1>10. k > 1 <=> k # 1
    BY <1>1
  <1> HIDE DEF m
  <1>11. \A i \in Items : m.next[i] = CutNext(l, s, k, i)
    BY <1>9, <1>10 DEF CutNext, before, x
  <1>12. \A i \in Items : m.prev[i] = CutPrev(l, s, k, i)
    BY <1>9 DEF CutPrev, back, x
  <1>13. Cut(l, s, k, m)
    BY <1>8, <1>9, <1>10, <1>11, <1>12 DEF Cut, x
  <1>14. QED
    BY <1>13 DEF m, x

------------------------------------------------------------------------------
(* Which items a list has, and the others.                                 *)

LEMMA SplicedItems ==
  ASSUME NEW S, NEW s \in Seq(S), NEW k \in 1 .. Len(s) + 1, NEW x \in S
  PROVE  ToSet(InsertAt(s, k, x)) = ToSet(s) \cup {x}
  <1> DEFINE t == InsertAt(s, k, x)
  <1>1. /\ t \in Seq(S) /\ Len(t) = Len(s) + 1 /\ Len(s) \in Nat
        /\ \A i \in 1 .. Len(s) + 1 :
             t[i] = IF i < k THEN s[i] ELSE IF i = k THEN x ELSE s[i - 1]
    BY InsertAtProperties
  <1>2. DOMAIN t = 1 .. Len(s) + 1 /\ DOMAIN s = 1 .. Len(s)
    BY <1>1
  <1> HIDE DEF t
  <1>3. ToSet(t) \subseteq ToSet(s) \cup {x}
    <2> SUFFICES ASSUME NEW i \in 1 .. Len(s) + 1
                 PROVE  t[i] \in ToSet(s) \cup {x}
      BY <1>2 DEF ToSet
    <2>1. i < k => i \in 1 .. Len(s)
      BY <1>1
    <2>2. i > k => i - 1 \in 1 .. Len(s)
      BY <1>1
    <2>3. CASE i < k
      BY <1>1, <1>2, <2>1, <2>3 DEF ToSet
    <2>4. CASE i = k
      BY <1>1, <2>4
    <2>5. CASE i > k
      <3>1. t[i] = s[i - 1]
        BY <1>1, <2>5
      <3>2. QED
        BY <1>2, <2>2, <2>5, <3>1 DEF ToSet
    <2>6. QED
      BY <1>1, <2>3, <2>4, <2>5
  <1>4. x \in ToSet(t)
    <2>1. k \in 1 .. Len(s) + 1 /\ t[k] = x
      BY <1>1
    <2>2. QED
      BY <1>2, <2>1 DEF ToSet
  <1>5. ASSUME NEW i \in 1 .. Len(s)
        PROVE  s[i] \in ToSet(t)
    <2>1. CASE i < k
      <3>1. i \in 1 .. Len(s) + 1 /\ t[i] = s[i]
        BY <1>1, <2>1
      <3>2. QED
        BY <1>2, <3>1 DEF ToSet
    <2>2. CASE i >= k
      <3>1. i + 1 \in 1 .. Len(s) + 1 /\ t[i + 1] = s[(i + 1) - 1]
        BY <1>1, <2>2
      <3>2. QED
        BY <1>1, <1>2, <3>1 DEF ToSet
    <2>3. QED
      BY <1>1, <2>1, <2>2
  <1>6. ToSet(s) \subseteq ToSet(t)
    BY <1>2, <1>5 DEF ToSet
  <1>7. QED
    BY <1>3, <1>4, <1>6 DEF t

(* What is in the list after an item was taken out. *)
LEMMA CutItems ==
  ASSUME NEW S, NEW s \in Seq(S), NEW k \in 1 .. Len(s),
         \A i, j \in 1 .. Len(s) : s[i] = s[j] => i = j
  PROVE  ToSet(RemoveAt(s, k)) = ToSet(s) \ {s[k]}
  <1> DEFINE t == RemoveAt(s, k)
  <1> HIDE DEF t
  <1>1. /\ t \in Seq(S) /\ Len(t) = Len(s) - 1 /\ Len(s) \in Nat
        /\ \A i \in 1 .. Len(s) - 1 : t[i] = IF i < k THEN s[i] ELSE s[i + 1]
    <2>1. Len(s) \in Nat
      OBVIOUS
    <2>2. QED
      BY <2>1, RemoveAtProperties DEF t
  <1>2. DOMAIN t = 1 .. Len(s) - 1 /\ DOMAIN s = 1 .. Len(s)
    BY <1>1
  <1>3. ToSet(t) \subseteq ToSet(s) \ {s[k]}
    <2> SUFFICES ASSUME NEW i \in 1 .. Len(s) - 1
                 PROVE  t[i] \in ToSet(s) \ {s[k]}
      BY <1>2 DEF ToSet
    <2>1. PICK j \in 1 .. Len(s) : j # k /\ t[i] = s[j]
      <3>1. i \in 1 .. Len(s) /\ i + 1 \in 1 .. Len(s)
        BY <1>1
      <3>2. CASE i < k
        BY <1>1, <3>1, <3>2
      <3>3. CASE i >= k
        <4>1. t[i] = s[i + 1] /\ i + 1 # k
          BY <1>1, <3>3
        <4>2. QED
          BY <3>1, <4>1
      <3>4. QED
        BY <1>1, <3>2, <3>3
    <2>2. QED
      BY <1>2, <2>1 DEF ToSet
  <1>4. ASSUME NEW i \in 1 .. Len(s), i # k
        PROVE  s[i] \in ToSet(t)
    <2>1. CASE i < k
      <3>1. i \in 1 .. Len(s) - 1 /\ t[i] = s[i]
        BY <1>1, <2>1
      <3>2. QED
        BY <1>2, <3>1 DEF ToSet
    <2>2. CASE i > k
      <3>1. i - 1 \in 1 .. Len(s) - 1 /\ t[i - 1] = s[(i - 1) + 1]
        BY <1>1, <2>2
      <3>2. QED
        BY <1>1, <1>2, <3>1 DEF ToSet
    <2>3. QED
      BY <1>1, <1>4, <2>1, <2>2
  <1>5. ToSet(s) \ {s[k]} \subseteq ToSet(t)
    BY <1>2, <1>4 DEF ToSet
  <1>6. QED
    BY <1>3, <1>5 DEF t

(* The links of items that are neither x nor in s are the same in m. *)
Untouched(l, s, x, m) ==
  \A i \in Items : i # x /\ i \notin ToSet(s) => m.next[i] = l.next[i] /\ m.prev[i] = l.prev[i]

(* Links of items outside the list stay when one is put into it, *)
LEMMA SplicedElsewhere ==
  ASSUME NEW l, NEW s, NEW m, NEW x \in Items, NEW k \in 1 .. Len(s) + 1,
         Linked(l, s), Spliced(l, s, k, x, m)
  PROVE  Untouched(l, s, x, m)
  <1> SUFFICES ASSUME NEW i \in Items, i # x, i \notin ToSet(s)
               PROVE  m.next[i] = l.next[i] /\ m.prev[i] = l.prev[i]
    BY DEF Untouched
  <1>1. s \in Seq(Items) /\ Len(s) \in Nat /\ DOMAIN s = 1 .. Len(s)
    BY DEF Linked
  <1>2. \A j \in 1 .. Len(s) : i # s[j]
    BY <1>1 DEF ToSet
  <1>3. m.next[i] = l.next[i]
    <2>1. k > 1 => k - 1 \in 1 .. Len(s)
      BY <1>1
    <2>2. m.next[i] = SplicedNext(l, s, k, x, i)
      BY DEF Spliced
    <2>3. QED
      BY <1>2, <2>1, <2>2 DEF SplicedNext
  <1>4. m.prev[i] = l.prev[i]
    <2>1. s # <<>> => (IF k = Len(s) + 1 THEN 1 ELSE k) \in 1 .. Len(s)
      BY <1>1
    <2>2. m.prev[i] = SplicedPrev(l, s, k, x, i)
      BY DEF Spliced
    <2>3. QED
      BY <1>2, <2>1, <2>2 DEF SplicedPrev
  <1>5. QED
    BY <1>3, <1>4

(* and when one is taken out. *)
LEMMA CutElsewhere ==
  ASSUME NEW l, NEW s, NEW m, NEW k \in 1 .. Len(s),
         Linked(l, s), Cut(l, s, k, m)
  PROVE  \A i \in Items : i \notin ToSet(s) =>
                         m.next[i] = l.next[i] /\ m.prev[i] = l.prev[i]
  <1> SUFFICES ASSUME NEW i \in Items, i \notin ToSet(s)
               PROVE  m.next[i] = l.next[i] /\ m.prev[i] = l.prev[i]
    OBVIOUS
  <1>1. s \in Seq(Items) /\ Len(s) \in Nat /\ DOMAIN s = 1 .. Len(s)
    BY DEF Linked
  <1>2. \A j \in 1 .. Len(s) : i # s[j]
    BY <1>1 DEF ToSet
  <1>3. m.next[i] = l.next[i]
    <2>1. k > 1 => k - 1 \in 1 .. Len(s)
      BY <1>1
    <2>2. m.next[i] = CutNext(l, s, k, i)
      BY DEF Cut
    <2>3. QED
      BY <1>2, <2>1, <2>2 DEF CutNext
  <1>4. m.prev[i] = l.prev[i]
    <2>1. /\ k = Len(s) => 1 \in 1 .. Len(s)
          /\ k # Len(s) => k + 1 \in 1 .. Len(s)
      <3> DEFINE n == Len(s)
      <3>1. n \in Nat /\ k \in 1 .. n
        BY <1>1
      <3> HIDE DEF n
      <3>2. /\ k = n => 1 \in 1 .. n
            /\ k # n => k + 1 \in 1 .. n
        BY <3>1
      <3>3. QED
        BY <3>2 DEF n
    <2>2. m.prev[i] = CutPrev(l, s, k, i)
      BY DEF Cut
    <2>3. i # (IF k = Len(s) THEN s[1] ELSE s[k + 1])
      BY <1>2, <2>1
    <2>4. QED
      BY <2>2, <2>3 DEF CutPrev
  <1>5. QED
    BY <1>3, <1>4

(* A list is as it was when its head and the links of its items are. *)
LEMMA LinkedElsewhere ==
  ASSUME NEW l, NEW m, NEW s, Linked(l, s), m.head = l.head,
         \A i \in ToSet(s) : m.next[i] = l.next[i] /\ m.prev[i] = l.prev[i]
  PROVE  Linked(m, s)
  <1>1. s \in Seq(Items)
    BY DEF Linked
  <1>2. \A i \in 1 .. Len(s) : s[i] \in ToSet(s)
    BY <1>1 DEF ToSet
  <1>3. QED
    BY <1>2 DEF Linked

------------------------------------------------------------------------------
(* Following the links.                                                    *)

(* A set of numbers has a least one. *)
LEMMA LeastNumber ==
  ASSUME NEW S \in SUBSET Nat, S # {}
  PROVE  \E m \in S : \A k \in S : m <= k
  <1>1. PICK n \in S : TRUE
    OBVIOUS
  <1> DEFINE I == 0 .. n
             R == StrictSubsetOrdering(I)
             T == {t \in SUBSET I : \E k \in S : t = 0 .. k}
  <1>2. IsFiniteSet(I)
    BY FS_Interval, n \in Int, 0 \in Int
  <1>3. IsWellFoundedOn(R, SUBSET I)
    BY <1>2, FS_StrictSubsetOrderingWellFounded, FS_FiniteSubsetsOfFinite
  <1>4. I \in T
    OBVIOUS
  <1>5. PICK t \in T : \A u \in T : <<u, t>> \notin R
    <2>1. T \subseteq SUBSET I /\ T # {}
      BY <1>4
    <2> HIDE DEF R, T, I
    <2>2. QED
      BY <1>3, <2>1, WFMin
  <1>6. PICK m \in S : t = 0 .. m /\ t \subseteq I
    OBVIOUS
  <1>7. ASSUME NEW k \in S, k < m
        PROVE  FALSE
    <2>1. m \in t /\ m <= n
      BY <1>6
    <2>2. 0 .. k \in T
      BY <1>7, <2>1
    <2>3. 0 .. k \subseteq t /\ m \notin 0 .. k
      BY <1>6, <1>7
    <2>4. <<0 .. k, t>> \in R
      BY <1>6, <2>1, <2>2, <2>3 DEF StrictSubsetOrdering
    <2>5. QED
      BY <1>5, <2>2, <2>4
  <1>8. QED
    BY <1>7

(* The items there are from i on. *)
Path(d, i, p) ==
  /\ p \in Seq(Items) /\ p # <<>> /\ p[1] = i
  /\ \A k \in 1 .. Len(p) : d.next[p[k]] = IF k = Len(p) THEN Nil ELSE p[k + 1]

(* Every item leads to the end of a list. *)
Ends(d) == \A i \in Items : \E p : Path(d, i, p)

(* From one item there is one path. *)
LEMMA PathsAgree ==
  ASSUME NEW d, NEW i, NEW p, NEW q, Path(d, i, p), Path(d, i, q), Len(p) <= Len(q)
  PROVE  p = q
  <1>1. /\ p \in Seq(Items) /\ q \in Seq(Items)
        /\ Len(p) \in Nat /\ Len(q) \in Nat /\ Len(p) >= 1
        /\ \A k \in 1 .. Len(p) : p[k] # Nil
        /\ \A k \in 1 .. Len(q) : q[k] # Nil
    BY NilIsNoItem DEF Path
  <1>2. \A k \in 1 .. Len(p) : p[k] = q[k]
    <2> DEFINE S == {k \in 1 .. Len(p) : p[k] # q[k]}
    <2> SUFFICES ASSUME S # {} PROVE FALSE
      OBVIOUS
    <2>1. PICK k \in S : \A j \in S : k <= j
      <3>1. S \in SUBSET Nat
        BY <1>1
      <3> HIDE DEF S
      <3>2. QED
        BY <3>1, LeastNumber
    <2>2. k > 1
      BY <1>1, <2>1 DEF Path
    <2>3. k - 1 \in 1 .. Len(p) /\ k - 1 \in 1 .. Len(q) /\ k - 1 # Len(p) /\ k - 1 # Len(q)
      BY <1>1, <2>1, <2>2
    <2>4. p[k - 1] = q[k - 1]
      BY <1>1, <2>1, <2>3
    <2>5. d.next[p[k - 1]] = p[(k - 1) + 1] /\ d.next[q[k - 1]] = q[(k - 1) + 1]
      BY <2>3 DEF Path
    <2>6. QED
      BY <1>1, <2>1, <2>4, <2>5
  <1>3. Len(p) = Len(q)
    <2>1. Len(p) \in 1 .. Len(p) /\ Len(p) \in 1 .. Len(q)
      BY <1>1
    <2>2. d.next[q[Len(p)]] = Nil
      BY <1>2, <2>1 DEF Path
    <2>3. Len(p) # Len(q) => /\ d.next[q[Len(p)]] = q[Len(p) + 1]
                            /\ Len(p) + 1 \in 1 .. Len(q)
      BY <1>1, <2>1 DEF Path
    <2>4. QED
      BY <1>1, <2>2, <2>3
  <1>4. QED
    BY <1>1, <1>2, <1>3, SeqEqual

(* An item and the items there are from the next one on. *)
LEMMA PathOn ==
  ASSUME NEW d, NEW i \in Items, NEW j \in Items, NEW p, d.next[i] = j, Path(d, j, p)
  PROVE  Path(d, i, <<i>> \o p)
  <1> DEFINE q == <<i>> \o p
  <1>1. p \in Seq(Items) /\ Len(p) \in Nat /\ Len(p) >= 1 /\ p[1] = j
    BY DEF Path
  <1>2. /\ q \in Seq(Items) /\ Len(q) = Len(p) + 1
        /\ q[1] = i /\ \A k \in 1 .. Len(p) : q[k + 1] = p[k]
    BY <1>1
  <1> HIDE DEF q
  <1>3. ASSUME NEW k \in 1 .. Len(q)
        PROVE  d.next[q[k]] = IF k = Len(q) THEN Nil ELSE q[k + 1]
    <2>1. CASE k = 1
      BY <1>1, <1>2, <2>1
    <2>2. CASE k > 1
      <3>1. k - 1 \in 1 .. Len(p)
        BY <1>1, <1>2, <2>2
      <3>2. q[k] = p[k - 1] /\ (k # Len(q) => k \in 1 .. Len(p) /\ q[k + 1] = p[k])
        <4>1. q[(k - 1) + 1] = p[k - 1]
          BY <1>2, <3>1
        <4>2. QED
          BY <1>1, <1>2, <2>2, <4>1
      <3>3. d.next[p[k - 1]] = IF k - 1 = Len(p) THEN Nil ELSE p[(k - 1) + 1]
        BY <3>1 DEF Path
      <3>4. QED
        BY <1>1, <1>2, <2>2, <3>2, <3>3
    <2>3. QED
      BY <1>1, <1>2, <2>1, <2>2
  <1>4. q # <<>>
    BY <1>1, <1>2
  <1>5. QED
    BY <1>2, <1>3, <1>4 DEF Path, q

(* The end of a sequence from k on. *)
LEMMA EndOfSequence ==
  ASSUME NEW S, NEW p \in Seq(S), p # <<>>
  PROVE  /\ \A k \in 1 .. Len(p) - 1 :
               SubSeq(p, k, Len(p)) = <<p[k]>> \o SubSeq(p, k + 1, Len(p))
         /\ SubSeq(p, Len(p), Len(p)) = <<p[Len(p)]>>
         /\ SubSeq(p, 1, Len(p)) = p
  <1> DEFINE n == Len(p)
  <1>1. n \in Nat /\ n >= 1 /\ \A i \in 1 .. n : p[i] \in S
    OBVIOUS
  <1>2. ASSUME NEW k \in 1 .. n - 1
        PROVE  SubSeq(p, k, n) = <<p[k]>> \o SubSeq(p, k + 1, n)
    <2> DEFINE a == SubSeq(p, k, n)
               b == SubSeq(p, k + 1, n)
               c == <<p[k]>> \o b
    <2>1. /\ a \in Seq(S) /\ Len(a) = (n + 1) - k
          /\ \A i \in 1 .. (n + 1) - k : a[i] = p[(i + k) - 1]
      BY <1>1, SubSeqProperties
    <2>2. /\ b \in Seq(S) /\ Len(b) = n - k
          /\ \A i \in 1 .. n - k : b[i] = p[i + k]
      <3>1. k + 1 \in 1 .. n + 1 /\ (n + 1) - (k + 1) = n - k
        BY <1>1
      <3>2. \A i \in 1 .. n - k : (i + (k + 1)) - 1 = i + k
        BY <1>1
      <3>3. QED
        BY <1>1, <3>1, <3>2, SubSeqProperties
    <2>3. p[k] \in S
      BY <1>1
    <2> HIDE DEF a, b, n
    <2>4. /\ c \in Seq(S) /\ Len(c) = (n + 1) - k /\ c[1] = p[k]
          /\ \A i \in 1 .. n - k : c[i + 1] = b[i]
      <3>1. <<p[k]>> \in Seq(S) /\ Len(<<p[k]>>) = 1 /\ <<p[k]>>[1] = p[k]
        BY <2>3
      <3>2. /\ c \in Seq(S) /\ Len(c) = 1 + (n - k)
            /\ \A i \in 1 .. 1 + (n - k) : c[i] = IF i <= 1 THEN <<p[k]>>[i] ELSE b[i - 1]
        BY <2>2, <3>1, ConcatProperties
      <3> HIDE DEF c
      <3>3. 1 + (n - k) = (n + 1) - k /\ 1 \in 1 .. 1 + (n - k)
        BY <1>1
      <3>4. \A i \in 1 .. n - k : i + 1 \in 1 .. 1 + (n - k) /\ ~(i + 1 <= 1) /\ (i + 1) - 1 = i
        BY <1>1
      <3>5. QED
        BY <3>1, <3>2, <3>3, <3>4
    <2> HIDE DEF c
    <2>5. ASSUME NEW i \in 1 .. (n + 1) - k
          PROVE  a[i] = c[i]
      <3>1. CASE i = 1
        BY <1>1, <2>1, <2>4, <3>1
      <3>2. CASE i > 1
        <4>1. i - 1 \in 1 .. n - k /\ (i - 1) + 1 = i /\ (i - 1) + k = (i + k) - 1
          BY <1>1, <3>2
        <4>2. c[i] = p[(i + k) - 1]
          BY <2>2, <2>4, <4>1
        <4>3. QED
          BY <2>1, <4>2
      <3>3. QED
        BY <1>1, <3>1, <3>2
    <2>6. a = c
      BY <1>1, <2>1, <2>4, <2>5, SeqEqual
    <2>7. QED
      BY <2>6 DEF a, b, c
  <1>3. SubSeq(p, n, n) = <<p[n]>>
    <2> DEFINE a == SubSeq(p, n, n)
    <2>1. n \in 1 .. n + 1 /\ n \in 1 .. n /\ (n + 1) - n = 1 /\ (1 + n) - 1 = n
      BY <1>1
    <2>2. /\ a \in Seq(S) /\ Len(a) = (n + 1) - n
          /\ \A i \in 1 .. (n + 1) - n : a[i] = p[(i + n) - 1]
      BY <1>1, <2>1, SubSeqProperties
    <2> HIDE DEF a, n
    <2>3. a \in Seq(S) /\ Len(a) = 1 /\ a[1] = p[n]
      <3>1. 1 \in 1 .. (n + 1) - n
        BY <2>1
      <3>2. a[1] = p[(1 + n) - 1]
        BY <2>2, <3>1
      <3>3. QED
        BY <2>1, <2>2, <3>2
    <2>4. a = <<p[n]>>
      BY <2>3
    <2>5. QED
      BY <2>4 DEF a
  <1>4. SubSeq(p, 1, n) = p
    BY <1>1
  <1>5. QED
    BY <1>2, <1>3, <1>4

(* items is the function that From is defined by. *)
Follows(d, items) ==
  items = [i \in Items \cup {Nil} |-> IF i = Nil THEN <<>> ELSE <<i>> \o items[d.next[i]]]

(* From follows links by some function that follows links. *)
LEMMA FromIsChosen ==
  ASSUME NEW d, NEW head
  PROVE  From(d, head) = (CHOOSE items : Follows(d, items))[head]
  BY Zenon DEF From, Follows

(* There is one if any function follows them. *)
LEMMA FromFollows ==
  ASSUME NEW d, NEW f, Follows(d, f)
  PROVE  \E items : Follows(d, items) /\ \A head : From(d, head) = items[head]
  <1>1. Follows(d, CHOOSE items : Follows(d, items))
    BY Zenon
  <1>2. QED
    BY <1>1, FromIsChosen

(* When every item leads to an end, there is such a function. *)
LEMMA SomeFollows ==
  ASSUME NEW d, Ends(d)
  PROVE  \E f : Follows(d, f)
  <1> DEFINE path(i) == CHOOSE p : Path(d, i, p)
             f == [i \in Items \cup {Nil} |-> IF i = Nil THEN <<>> ELSE path(i)]
  <1>1. \A i \in Items : Path(d, i, path(i))
    BY DEF Ends
  <1> HIDE DEF path
  <1>2. \A i \in Items : f[i] = path(i)
    BY NilIsNoItem
  <1>3. f[Nil] = <<>>
    OBVIOUS
  <1> HIDE DEF f
  <1>4. ASSUME NEW i \in Items
        PROVE  path(i) = <<i>> \o f[d.next[i]]
    <2>1. /\ path(i) \in Seq(Items) /\ Len(path(i)) >= 1 /\ path(i)[1] = i
          /\ d.next[i] = IF 1 = Len(path(i)) THEN Nil ELSE path(i)[2]
          /\ 1 # Len(path(i)) => path(i)[2] \in Items
      <3> DEFINE p == path(i)
      <3>1. Path(d, i, p)
        BY <1>1
      <3> HIDE DEF p
      <3>2. p \in Seq(Items) /\ p # <<>> /\ p[1] = i
        BY <3>1 DEF Path
      <3>3. Len(p) \in Nat /\ Len(p) >= 1 /\ 1 \in 1 .. Len(p)
        BY <3>2
      <3>4. d.next[p[1]] = IF 1 = Len(p) THEN Nil ELSE p[1 + 1]
        BY <3>1, <3>3 DEF Path
      <3>5. 1 # Len(p) => 2 \in 1 .. Len(p)
        <4> DEFINE n == Len(p)
        <4>1. n \in Nat /\ n >= 1
          BY <3>3
        <4> HIDE DEF n
        <4>2. 1 # n => 2 \in 1 .. n
          BY <4>1
        <4>3. QED
          BY <4>2 DEF n
      <3>6. 1 + 1 = 2 /\ (1 # Len(p) => p[2] \in Items)
        BY <3>2, <3>5
      <3>7. QED
        BY <3>2, <3>3, <3>4, <3>6 DEF p
    <2>2. CASE d.next[i] = Nil
      <3>1. Len(path(i)) = 1
        BY <2>1, <2>2, NilIsNoItem
      <3>2. path(i) = <<i>>
        BY <2>1, <3>1
      <3>3. QED
        BY <1>3, <2>2, <3>2
    <2>3. CASE d.next[i] # Nil
      <3>1. d.next[i] \in Items
        BY <2>1, <2>3
      <3> DEFINE j == d.next[i]
                 p == path(i)
                 q == <<i>> \o path(j)
      <3>2. Path(d, i, q) /\ Path(d, i, p)
        BY <1>1, <3>1, PathOn
      <3> HIDE DEF p, q
      <3>3. Len(p) \in Nat /\ Len(q) \in Nat
        BY <3>2 DEF Path
      <3>4. Len(p) <= Len(q) \/ Len(q) <= Len(p)
        BY <3>3
      <3>5. p = q
        BY <3>2, <3>4, PathsAgree
      <3>6. QED
        BY <1>2, <3>1, <3>5 DEF p, q
    <2>4. QED
      BY <2>2, <2>3
  <1>5. f = [i \in Items \cup {Nil} |-> IF i = Nil THEN <<>> ELSE <<i>> \o f[d.next[i]]]
    <2>1. f = [i \in Items \cup {Nil} |-> IF i = Nil THEN <<>> ELSE path(i)]
      BY DEF f
    <2>2. QED
      BY <1>4, <2>1, NilIsNoItem
  <1>6. QED
    BY <1>5 DEF Follows

(* What is read from an item on is where the links lead. *)
LEMMA FromIsPath ==
  ASSUME NEW d, Ends(d)
  PROVE  /\ From(d, Nil) = <<>>
         /\ \A i \in Items : \A p : Path(d, i, p) => From(d, i) = p
  <1>1. PICK items : Follows(d, items) /\ \A head : From(d, head) = items[head]
    BY SomeFollows, FromFollows
  <1>2. /\ items[Nil] = <<>>
        /\ \A i \in Items : items[i] = <<i>> \o items[d.next[i]]
    <2>1. items = [i \in Items \cup {Nil} |-> IF i = Nil THEN <<>>
                                             ELSE <<i>> \o items[d.next[i]]]
      BY <1>1 DEF Follows
    <2>2. \A i \in Items \cup {Nil} : items[i] = IF i = Nil THEN <<>>
                                                ELSE <<i>> \o items[d.next[i]]
      BY Zenon, <2>1
    <2>3. QED
      BY <2>2, NilIsNoItem
  <1>3. ASSUME NEW i \in Items, NEW p, Path(d, i, p)
        PROVE  items[i] = p
    <2> DEFINE n == Len(p)
               rest(k) == SubSeq(p, k, n)
               S == {m \in 0 .. n - 1 : items[p[n - m]] # rest(n - m)}
    <2>1. /\ p \in Seq(Items) /\ n \in Nat /\ n >= 1 /\ p[1] = i
          /\ \A k \in 1 .. n : p[k] \in Items
          /\ \A k \in 1 .. n : d.next[p[k]] = IF k = n THEN Nil ELSE p[k + 1]
      BY <1>3 DEF Path
    <2>2. /\ \A k \in 1 .. n - 1 : rest(k) = <<p[k]>> \o rest(k + 1)
          /\ rest(n) = <<p[n]>>
          /\ rest(1) = p
      BY <2>1, EndOfSequence
    <2> HIDE DEF n, rest
    <2>3. S = {}
      <3> SUFFICES ASSUME S # {} PROVE FALSE
        OBVIOUS
      <3>1. PICK m \in S : \A j \in S : m <= j
        <4>1. S \in SUBSET Nat
          BY <2>1
        <4> HIDE DEF S
        <4>2. QED
          BY <4>1, LeastNumber
      <3>2. n - m \in 1 .. n /\ items[p[n - m]] # rest(n - m) /\ m \in 0 .. n - 1
        BY <2>1, <3>1
      <3>3. items[p[n - m]] = <<p[n - m]>> \o items[d.next[p[n - m]]]
        BY <1>2, <2>1, <3>2
      <3>4. CASE m = 0
        <4>1. n - m = n /\ n \in 1 .. n
          BY <2>1, <3>4
        <4>2. items[d.next[p[n]]] = <<>> /\ p[n] \in Items
          BY <1>2, <2>1, <4>1
        <4>3. <<p[n]>> \o <<>> = <<p[n]>>
          BY <4>2
        <4>4. QED
          BY <2>2, <3>2, <3>3, <4>1, <4>2, <4>3
      <3>5. CASE m # 0
        <4>1. m - 1 \in 0 .. n - 1 /\ ~(m <= m - 1) /\ n - (m - 1) = (n - m) + 1
          <5>1. n \in Nat /\ m \in 0 .. n - 1 /\ m # 0
            BY <2>1, <3>2, <3>5
          <5>2. QED
            BY ONLY <5>1
        <4>2. items[p[n - (m - 1)]] = rest(n - (m - 1))
          BY <3>1, <4>1
        <4>3. n - m \in 1 .. n - 1 /\ n - m # n
          BY <2>1, <3>2, <3>5
        <4>4. d.next[p[n - m]] = p[(n - m) + 1]
          BY <2>1, <3>2, <4>3
        <4>5. rest(n - m) = <<p[n - m]>> \o rest((n - m) + 1)
          BY <2>2, <4>3
        <4>6. QED
          BY <3>2, <3>3, <4>1, <4>2, <4>4, <4>5
      <3>6. QED
        BY <3>4, <3>5
    <2>4. n - 1 \in 0 .. n - 1 /\ n - (n - 1) = 1
      BY <2>1
    <2>5. QED
      BY <2>1, <2>2, <2>3, <2>4
  <1>4. QED
    BY <1>1, <1>2, <1>3

(* The links of a list lead from its head through its sequence. *)
LEMMA LinkedIsPath ==
  ASSUME NEW d, NEW l, NEW s, NEW k \in 1 .. Len(s), Linked(l, s), l.next = d.next
  PROVE  Path(d, s[k], SubSeq(s, k, Len(s)))
  <1> DEFINE n == Len(s)
             p == SubSeq(s, k, n)
  <1>1. /\ s \in Seq(Items) /\ n \in Nat /\ k \in 1 .. n
        /\ \A i \in 1 .. n : s[i] \in Items
        /\ \A i \in 1 .. n : d.next[s[i]] = IF i = n THEN Nil ELSE s[i + 1]
    BY DEF Linked
  <1>2. /\ p \in Seq(Items) /\ Len(p) = (n + 1) - k
        /\ \A i \in 1 .. (n + 1) - k : p[i] = s[(i + k) - 1]
    BY <1>1, SubSeqProperties
  <1> HIDE DEF p, n
  <1>3. p # <<>> /\ p[1] = s[k]
    BY <1>1, <1>2
  <1>4. ASSUME NEW i \in 1 .. Len(p)
        PROVE  d.next[p[i]] = IF i = Len(p) THEN Nil ELSE p[i + 1]
    <2>1. (i + k) - 1 \in 1 .. n /\ p[i] = s[(i + k) - 1]
      BY <1>1, <1>2
    <2>2. i # Len(p) => p[i + 1] = s[((i + 1) + k) - 1]
      BY <1>1, <1>2
    <2>3. ((i + 1) + k) - 1 = ((i + k) - 1) + 1 /\ (i = Len(p) <=> (i + k) - 1 = n)
      BY <1>1, <1>2
    <2>4. QED
      BY <1>1, <2>1, <2>2, <2>3
  <1>5. QED
    BY <1>2, <1>3, <1>4 DEF Path, p, n

(* A list whose links come to an end is read as its sequence. *)
LEMMA FromLinked ==
  ASSUME NEW d, NEW l, NEW s, Ends(d), Linked(l, s), l.next = d.next
  PROVE  From(d, l.head) = s
  <1>1. CASE s = <<>>
    BY <1>1, FromIsPath DEF Linked
  <1>2. CASE s # <<>>
    <2>1. s \in Seq(Items) /\ 1 \in 1 .. Len(s) /\ l.head = s[1] /\ s[1] \in Items
      BY <1>2 DEF Linked
    <2>2. Path(d, s[1], SubSeq(s, 1, Len(s)))
      BY <2>1, LinkedIsPath
    <2>3. SubSeq(s, 1, Len(s)) = s
      BY <2>1
    <2>4. QED
      BY <2>1, <2>2, <2>3, FromIsPath
  <1>3. QED
    BY <1>1, <1>2

------------------------------------------------------------------------------
(* The inductive invariant.                                                *)

(* Each node's children and attributes are linked lists. *)
Chained(d, kids, atts) ==
  \A n \in Nodes : /\ Linked(Children(d, n), kids[n])
                   /\ Linked(Attributes(d, n), atts[n])

(* A child leads to its parent, and so is in one list. *)
Hung(d, kids) == \A n, x \in Nodes : x \in ToSet(kids[n]) <=> d.parent[x] = n

(* An attribute that exists is in one list. *)
Held(d, atts) ==
  /\ \A a \in Attrs : a \in d.owned <=> \E n \in Nodes : a \in ToSet(atts[n])
  /\ \A m, n \in Nodes : \A a \in ToSet(atts[m]) : a \in ToSet(atts[n]) => m = n

(* What is in no list has no links, and a node that does not exist has     *)
(* nothing.                                                                *)
Loose(d) ==
  /\ \A x \in Nodes : d.parent[x] = Nil => d.next[x] = Nil
  /\ \A a \in Attrs : a \notin d.owned => d.next[a] = Nil
  /\ \A x \in Nodes : d.kind[x] = Nil => /\ d.parent[x] = Nil
                                         /\ d.first[x] = Nil
                                         /\ d.attr[x] = Nil

(* From a node down one comes to an end: no set of nodes has a child in it *)
(* of each of its nodes.                                                   *)
Founded(kids) ==
  \A S \in SUBSET Nodes : S # {} => \E y \in S : \A c \in S : c \notin ToSet(kids[y])

Standing(d, kids, atts) ==
  /\ d \in Documents
  /\ kids \in [Nodes -> Seq(Nodes)]
  /\ atts \in [Nodes -> Seq(Attrs)]
  /\ Chained(d, kids, atts)
  /\ Hung(d, kids)
  /\ Held(d, atts)
  /\ Loose(d)
  /\ Founded(kids)

ChildrenOf(d)   == [n \in Nodes |-> From(d, d.first[n])]
AttributesOf(d) == [n \in Nodes |-> From(d, d.attr[n])]

IInv == Standing(dom, ChildrenOf(dom), AttributesOf(dom))

------------------------------------------------------------------------------
(* Reading the lists.                                                      *)

LEMMA Separate == Nodes \cap Attrs = {} /\ Nil \notin Nodes /\ Nil \notin Attrs
  BY NodesAssumption

(* The elements of a sequence. *)
LEMMA MembersOf ==
  ASSUME NEW S, NEW s \in Seq(S)
  PROVE  /\ ToSet(s) \subseteq S
         /\ \A e \in ToSet(s) : \E k \in 1 .. Len(s) : s[k] = e
         /\ \A k \in 1 .. Len(s) : s[k] \in ToSet(s)
  BY DEF ToSet

(* When every item is in a list, or leads to nothing or to one that is,    *)
(* the lists are read as they are.                                         *)
InLists(kids, atts, i) == \E n \in Nodes : i \in ToSet(kids[n]) \cup ToSet(atts[n])

ReadAs(d, kids, atts) ==
  \A n \in Nodes : From(d, d.first[n]) = kids[n] /\ From(d, d.attr[n]) = atts[n]

(* Reading the links of such a document gives its lists. *)
LEMMA ListsAreRead ==
  ASSUME NEW d, NEW kids \in [Nodes -> Seq(Nodes)], NEW atts \in [Nodes -> Seq(Attrs)],
         Chained(d, kids, atts),
         \A i \in Items : \/ InLists(kids, atts, i)
                         \/ d.next[i] = Nil
                         \/ (d.next[i] \in Items /\ InLists(kids, atts, d.next[i]))
  PROVE  ReadAs(d, kids, atts)
  <1>1. ASSUME NEW i \in Items, InLists(kids, atts, i)
        PROVE  \E p : Path(d, i, p)
    <2>1. PICK n \in Nodes : i \in ToSet(kids[n]) \cup ToSet(atts[n])
      BY <1>1 DEF InLists
    <2>2. CASE i \in ToSet(kids[n])
      <3>1. PICK k \in 1 .. Len(kids[n]) : kids[n][k] = i
        BY <2>2, MembersOf
      <3>2. Linked(Children(d, n), kids[n]) /\ Children(d, n).next = d.next
        BY DEF Chained, Children
      <3>3. QED
        BY <3>1, <3>2, LinkedIsPath
    <2>3. CASE i \in ToSet(atts[n])
      <3>1. PICK k \in 1 .. Len(atts[n]) : atts[n][k] = i
        BY <2>3, MembersOf
      <3>2. Linked(Attributes(d, n), atts[n]) /\ Attributes(d, n).next = d.next
        BY DEF Chained, Attributes
      <3>3. QED
        BY <3>1, <3>2, LinkedIsPath
    <2>4. QED
      BY <2>1, <2>2, <2>3
  <1>2. ASSUME NEW i \in Items, d.next[i] = Nil
        PROVE  Path(d, i, <<i>>)
    BY <1>2 DEF Path
  <1>3. ASSUME NEW i \in Items
        PROVE  \E p : Path(d, i, p)
    <2>1. CASE InLists(kids, atts, i)
      BY <1>1, <2>1
    <2>2. CASE d.next[i] = Nil
      BY <1>2, <2>2
    <2>3. CASE d.next[i] \in Items /\ InLists(kids, atts, d.next[i])
      <3>1. PICK p : Path(d, d.next[i], p)
        BY <1>1, <2>3
      <3>2. QED
        BY <2>3, <3>1, PathOn
    <2>4. QED
      BY <2>1, <2>2, <2>3
  <1>4. Ends(d)
    BY <1>3 DEF Ends
  <1> SUFFICES ASSUME NEW n \in Nodes
               PROVE  From(d, d.first[n]) = kids[n] /\ From(d, d.attr[n]) = atts[n]
    BY DEF ReadAs
  <1>5. /\ Children(d, n).next = d.next /\ Children(d, n).head = d.first[n]
        /\ Attributes(d, n).next = d.next /\ Attributes(d, n).head = d.attr[n]
    BY DEF Children, Attributes
  <1>6. Linked(Children(d, n), kids[n]) /\ Linked(Attributes(d, n), atts[n])
    BY DEF Chained
  <1>7. From(d, Children(d, n).head) = kids[n]
    BY <1>4, <1>5, <1>6, FromLinked
  <1>8. From(d, Attributes(d, n).head) = atts[n]
    BY <1>4, <1>5, <1>6, FromLinked
  <1>9. QED
    BY <1>5, <1>7, <1>8

(* So it is in a document that stands. *)
LEMMA StandingIsRead ==
  ASSUME NEW d, NEW kids, NEW atts, Standing(d, kids, atts)
  PROVE  kids = ChildrenOf(d) /\ atts = AttributesOf(d)
  <1>1. /\ kids \in [Nodes -> Seq(Nodes)] /\ atts \in [Nodes -> Seq(Attrs)]
        /\ Chained(d, kids, atts)
    BY DEF Standing
  <1>2. ASSUME NEW i \in Items
        PROVE  InLists(kids, atts, i) \/ d.next[i] = Nil
    <2>1. CASE i \in Nodes
      <3>1. d.parent[i] \in Nodes \cup {Nil}
        BY <2>1 DEF Standing, Documents
      <3>2. CASE d.parent[i] = Nil
        BY <2>1, <3>2 DEF Standing, Loose
      <3>3. CASE d.parent[i] \in Nodes
        <4>1. i \in ToSet(kids[d.parent[i]])
          BY <2>1, <3>3 DEF Standing, Hung
        <4>2. QED
          BY <3>3, <4>1 DEF InLists
      <3>4. QED
        BY <3>1, <3>2, <3>3
    <2>2. CASE i \in Attrs
      BY <2>2 DEF Standing, Loose, Held, InLists
    <2>3. QED
      BY <2>1, <2>2 DEF Items
  <1>3. ReadAs(d, kids, atts)
    <2>1. \A i \in Items : \/ InLists(kids, atts, i)
                          \/ d.next[i] = Nil
                          \/ (d.next[i] \in Items /\ InLists(kids, atts, d.next[i]))
      BY <1>2
    <2>2. QED
      BY <1>1, <2>1, ListsAreRead
  <1>4. QED
    BY <1>1, <1>3 DEF ReadAs, ChildrenOf, AttributesOf

------------------------------------------------------------------------------
(* A new node.                                                             *)

(* What the operations on a document change in it. *)
ChildrenLaid(d, n, l, e) ==
  /\ e \in Documents
  /\ e.kind = d.kind /\ e.owned = d.owned /\ e.parent = d.parent
  /\ e.first = [d.first EXCEPT ![n] = l.head]
  /\ e.attr = d.attr /\ e.next = l.next /\ e.prev = l.prev
  /\ e.name = d.name /\ e.value = d.value

NodeAdded(d, n, k, x, l, e) ==
  /\ e \in Documents
  /\ e.kind = [d.kind EXCEPT ![x] = k]
  /\ e.owned = d.owned
  /\ e.parent = [d.parent EXCEPT ![x] = n]
  /\ e.first = [d.first EXCEPT ![n] = l.head]
  /\ e.attr = d.attr /\ e.next = l.next /\ e.prev = l.prev
  /\ e.name = [d.name EXCEPT ![x] = NewName(k)]
  /\ e.value = d.value

(* Laying the children of n anew changes these links only. *)
LEMMA WithChildrenFields ==
  ASSUME NEW d \in Documents, NEW n \in Nodes, NEW l \in Lists, l.head \in Nodes \cup {Nil}
  PROVE  ChildrenLaid(d, n, l, WithChildren(d, n, l))
  <1> DEFINE e == WithChildren(d, n, l)
  <1>1. e \in Documents
    BY DEF WithChildren, Documents, Lists, Links
  <1>2. /\ e.kind = d.kind /\ e.owned = d.owned /\ e.parent = d.parent
        /\ e.first = [d.first EXCEPT ![n] = l.head]
        /\ e.attr = d.attr /\ e.next = l.next /\ e.prev = l.prev
        /\ e.name = d.name /\ e.value = d.value
    BY <1>1 DEF WithChildren, Documents
  <1> HIDE DEF e
  <1>3. ChildrenLaid(d, n, l, e)
    BY <1>1, <1>2 DEF ChildrenLaid
  <1>4. QED
    BY <1>3 DEF e

(* A new node changes these fields only. *)
LEMMA NewNodeFields ==
  ASSUME NEW d \in Documents, NEW n \in Nodes, NEW x \in Nodes, NEW k \in Kinds,
         NEW l \in Lists, l.head \in Nodes \cup {Nil}
  PROVE  NodeAdded(d, n, k, x, l, NewNode(d, n, k, x, l))
  <1> DEFINE c == WithChildren(d, n, l)
             e == [c EXCEPT !.kind[x] = k, !.parent[x] = n, !.name[x] = NewName(k)]
  <1>1. ChildrenLaid(d, n, l, c)
    BY WithChildrenFields
  <1> HIDE DEF c
  <1>2. NewName(k) \in Strings \cup {"xml", Nil}
    BY DEF NewName
  <1>3. e \in Documents
    BY <1>1, <1>2 DEF Documents, ChildrenLaid
  <1>4. /\ e.kind = [c.kind EXCEPT ![x] = k]
        /\ e.owned = c.owned
        /\ e.parent = [c.parent EXCEPT ![x] = n]
        /\ e.first = c.first
        /\ e.attr = c.attr
        /\ e.next = c.next
        /\ e.prev = c.prev
        /\ e.name = [c.name EXCEPT ![x] = NewName(k)]
        /\ e.value = c.value
    BY <1>1 DEF Documents, ChildrenLaid
  <1>5. NewNode(d, n, k, x, l) = e
    BY DEF NewNode, c
  <1> HIDE DEF e
  <1>6. NodeAdded(d, n, k, x, l, e)
    BY <1>1, <1>3, <1>4 DEF NodeAdded, ChildrenLaid
  <1>7. QED
    BY <1>5, <1>6

(* A document stands with a node put into a list of children. *)
LEMMA NewNodeStands ==
  ASSUME NEW d, NEW kids, NEW atts, Standing(d, kids, atts),
         NEW n \in Nodes, NEW x \in Nodes, NEW k \in Kinds,
         d.kind[n] # Nil, d.kind[x] = Nil,
         NEW i \in 1 .. Len(kids[n]) + 1,
         NEW l, Spliced(Children(d, n), kids[n], i, x, l)
  PROVE  Standing(NewNode(d, n, k, x, l),
                  [kids EXCEPT ![n] = InsertAt(kids[n], i, x)], atts)
  <1> DEFINE e == NewNode(d, n, k, x, l)
             t == InsertAt(kids[n], i, x)
             kids2 == [kids EXCEPT ![n] = t]
  <1>1. /\ d \in Documents
        /\ kids \in [Nodes -> Seq(Nodes)] /\ atts \in [Nodes -> Seq(Attrs)]
        /\ Chained(d, kids, atts) /\ Hung(d, kids) /\ Held(d, atts)
        /\ Loose(d) /\ Founded(kids)
    BY DEF Standing
  <1>2. /\ x # n /\ d.parent[x] = Nil /\ d.first[x] = Nil
        /\ \A m \in Nodes : x \notin ToSet(kids[m])
        /\ \A m \in Nodes : ToSet(kids[m]) \subseteq Nodes /\ ToSet(atts[m]) \subseteq Attrs
    BY <1>1, Separate, MembersOf DEF Loose, Hung
  <1>3. x \in Items /\ l \in Lists /\ Linked(Children(d, n), kids[n])
    BY <1>1 DEF Items, Spliced, Chained
  <1>4. /\ t \in Seq(Nodes)
        /\ ToSet(t) = ToSet(kids[n]) \cup {x}
        /\ Linked(l, t)
    BY <1>1, <1>2, <1>3, InsertAtProperties, SplicedItems, SplicedIsLinked
  <1>5. l.head \in Nodes
    <2>1. t # <<>> /\ l.head = t[1]
      BY <1>1, <1>4, InsertAtProperties DEF Linked
    <2>2. QED
      BY <1>4, <2>1
  <1> HIDE DEF t
  <1>6. NodeAdded(d, n, k, x, l, e)
    <2>1. d \in Documents /\ l \in Lists /\ l.head \in Nodes \cup {Nil}
      BY <1>1, <1>3, <1>5
    <2>2. QED
      BY <2>1, NewNodeFields
  <1> HIDE DEF e
  <1>7. /\ e \in Documents
        /\ e.kind = [d.kind EXCEPT ![x] = k]
        /\ e.owned = d.owned
        /\ e.parent = [d.parent EXCEPT ![x] = n]
        /\ e.first = [d.first EXCEPT ![n] = l.head]
        /\ e.attr = d.attr
        /\ e.next = l.next
        /\ e.prev = l.prev
    BY <1>6 DEF NodeAdded
  <1>8. kids2 \in [Nodes -> Seq(Nodes)]
    BY <1>1, <1>4
  <1>9. /\ kids2[n] = t
        /\ \A m \in Nodes : m # n => kids2[m] = kids[m]
    BY <1>1
  <1> HIDE DEF kids2
  <1>10. ASSUME NEW j \in Items, j # x, j \notin ToSet(kids[n])
         PROVE  e.next[j] = d.next[j] /\ e.prev[j] = d.prev[j]
    <2>1. l.next[j] = Children(d, n).next[j] /\ l.prev[j] = Children(d, n).prev[j]
      <3>1. Untouched(Children(d, n), kids[n], x, l)
        BY <1>3, SplicedElsewhere, Zenon
      <3>2. QED
        BY <1>10, <3>1 DEF Untouched
    <2>2. QED
      BY <1>7, <2>1 DEF Children
  <1>11. Chained(e, kids2, atts)
    <2> SUFFICES ASSUME NEW m \in Nodes
                 PROVE  /\ Linked(Children(e, m), kids2[m])
                        /\ Linked(Attributes(e, m), atts[m])
      BY DEF Chained
    <2>1. Linked(Children(e, m), kids2[m])
      <3>1. CASE m = n
        <4>1. Children(e, n) = [next |-> l.next, prev |-> l.prev, head |-> l.head]
          BY <1>1, <1>7 DEF Children, Documents
        <4>2. QED
          BY <1>4, <1>9, <3>1, <4>1 DEF Linked
      <3>2. CASE m # n
        <4>1. Linked(Children(d, m), kids[m])
          BY <1>1 DEF Chained
        <4>2. Children(e, m).head = Children(d, m).head
          BY <1>1, <1>7, <3>2 DEF Children, Documents
        <4>3. \A j \in ToSet(kids[m]) : j \in Items /\ j # x /\ j \notin ToSet(kids[n])
          <5>1. \A j \in ToSet(kids[m]) : j \in Nodes
            BY <1>2
          <5>2. \A j \in Nodes : j \in ToSet(kids[m]) => j \notin ToSet(kids[n])
            <6>1. SUFFICES ASSUME NEW j \in Nodes, j \in ToSet(kids[m]), j \in ToSet(kids[n])
                           PROVE  FALSE
              OBVIOUS
            <6>2. d.parent[j] = m
              BY <1>1, <6>1 DEF Hung
            <6>3. d.parent[j] = n
              BY <1>1, <6>1 DEF Hung
            <6>4. QED
              BY <3>2, <6>2, <6>3
          <5>3. QED
            BY <1>2, <5>1, <5>2 DEF Items
        <4>4. \A j \in ToSet(kids[m]) : /\ Children(e, m).next[j] = Children(d, m).next[j]
                                        /\ Children(e, m).prev[j] = Children(d, m).prev[j]
          BY <1>10, <4>3 DEF Children
        <4>5. Linked(Children(e, m), kids[m])
          BY <4>1, <4>2, <4>4, LinkedElsewhere
        <4>6. QED
          BY <1>9, <3>2, <4>5
      <3>3. QED
        BY <3>1, <3>2
    <2>2. Linked(Attributes(e, m), atts[m])
      <3>1. Linked(Attributes(d, m), atts[m])
        BY <1>1 DEF Chained
      <3>2. Attributes(e, m).head = Attributes(d, m).head
        BY <1>7 DEF Attributes
      <3>3. \A j \in ToSet(atts[m]) : j \in Items /\ j # x /\ j \notin ToSet(kids[n])
        BY <1>2, Separate DEF Items
      <3>4. \A j \in ToSet(atts[m]) : /\ Attributes(e, m).next[j] = Attributes(d, m).next[j]
                                      /\ Attributes(e, m).prev[j] = Attributes(d, m).prev[j]
        BY <1>10, <3>3 DEF Attributes
      <3>5. QED
        BY <3>1, <3>2, <3>4, LinkedElsewhere
    <2>3. QED
      BY <2>1, <2>2
  <1>12. \A y \in Nodes : e.parent[y] = IF y = x THEN n ELSE d.parent[y]
    BY <1>1, <1>7 DEF Documents
  <1>13. Hung(e, kids2)
    <2> SUFFICES ASSUME NEW m \in Nodes, NEW y \in Nodes
                 PROVE  y \in ToSet(kids2[m]) <=> e.parent[y] = m
      BY DEF Hung
    <2>1. y \in ToSet(kids[m]) <=> d.parent[y] = m
      BY <1>1 DEF Hung
    <2>2. x \notin ToSet(kids[m])
      BY <1>2
    <2>3. ToSet(kids2[m]) = IF m = n THEN ToSet(kids[m]) \cup {x} ELSE ToSet(kids[m])
      BY <1>4, <1>9
    <2>4. QED
      BY <1>12, <2>1, <2>2, <2>3
  <1>14. Held(e, atts)
    BY <1>1, <1>7 DEF Held
  <1>15. Loose(e)
    <2>1. ASSUME NEW y \in Nodes, e.parent[y] = Nil
          PROVE  e.next[y] = Nil
      <3>1. y # x /\ d.parent[y] = Nil
        BY <1>12, <2>1, Separate
      <3>2. y \in Items /\ y \notin ToSet(kids[n])
        BY <1>1, <3>1, Separate DEF Hung, Items
      <3>3. QED
        BY <1>1, <1>10, <3>1, <3>2 DEF Loose
    <2>2. ASSUME NEW a \in Attrs, a \notin e.owned
          PROVE  e.next[a] = Nil
      <3>1. a \in Items /\ a # x /\ a \notin ToSet(kids[n]) /\ a \notin d.owned
        BY <1>2, <1>7, <2>2, Separate DEF Items
      <3>2. QED
        BY <1>1, <1>10, <3>1 DEF Loose
    <2>3. ASSUME NEW y \in Nodes, e.kind[y] = Nil
          PROVE  e.parent[y] = Nil /\ e.first[y] = Nil /\ e.attr[y] = Nil
      <3>1. k # Nil
        BY NodesAssumption
      <3>2. y # x /\ d.kind[y] = Nil /\ y # n
        BY <1>1, <1>7, <2>3, <3>1 DEF Documents
      <3>3. e.first[y] = d.first[y] /\ e.attr[y] = d.attr[y]
        BY <1>1, <1>7, <3>2 DEF Documents
      <3>4. QED
        BY <1>1, <1>12, <3>2, <3>3 DEF Loose
    <2>4. QED
      BY <2>1, <2>2, <2>3 DEF Loose
  <1>16. Founded(kids2)
    <2> SUFFICES ASSUME NEW S \in SUBSET Nodes, S # {}
                 PROVE  \E y \in S : \A c \in S : c \notin ToSet(kids2[y])
      BY DEF Founded
    <2>1. CASE x \in S
      <3>1. kids2[x] = kids[x]
        BY <1>2, <1>9
      <3>2. \A c \in Nodes : c \notin ToSet(kids[x])
        <4>1. Linked(Children(d, x), kids[x]) /\ Children(d, x).head = Nil
          BY <1>1, <1>2 DEF Chained, Children
        <4>2. kids[x] = <<>>
          BY <4>1, NilIsNoItem DEF Linked
        <4>3. QED
          BY <4>2 DEF ToSet
      <3>3. QED
        BY <2>1, <3>1, <3>2
    <2>2. CASE x \notin S
      <3>1. PICK y \in S : \A c \in S : c \notin ToSet(kids[y])
        BY <1>1 DEF Founded
      <3>2. \A c \in S : c \notin ToSet(kids2[y])
        BY <1>4, <1>9, <2>2, <3>1
      <3>3. QED
        BY <3>2
    <2>3. QED
      BY <2>1, <2>2
  <1>17. Standing(e, kids2, atts)
    BY <1>1, <1>7, <1>8, <1>11, <1>13, <1>14, <1>15, <1>16 DEF Standing
  <1>18. QED
    BY <1>17 DEF e, kids2, t

------------------------------------------------------------------------------
(* A new attribute.                                                        *)

AttributesLaid(d, n, l, e) ==
  /\ e \in Documents
  /\ e.kind = d.kind /\ e.owned = d.owned /\ e.parent = d.parent
  /\ e.first = d.first
  /\ e.attr = [d.attr EXCEPT ![n] = l.head]
  /\ e.next = l.next /\ e.prev = l.prev
  /\ e.name = d.name /\ e.value = d.value

AttributeAdded(d, n, s, a, l, e) ==
  /\ e \in Documents
  /\ e.kind = d.kind
  /\ e.owned = d.owned \cup {a}
  /\ e.parent = d.parent
  /\ e.first = d.first
  /\ e.attr = [d.attr EXCEPT ![n] = l.head]
  /\ e.next = l.next /\ e.prev = l.prev
  /\ e.name = [d.name EXCEPT ![a] = s]
  /\ e.value = d.value

(* Laying the attributes of n anew changes these links only. *)
LEMMA WithAttributesFields ==
  ASSUME NEW d \in Documents, NEW n \in Nodes, NEW l \in Lists, l.head \in Attrs \cup {Nil}
  PROVE  AttributesLaid(d, n, l, WithAttributes(d, n, l))
  <1> DEFINE e == WithAttributes(d, n, l)
  <1>1. e \in Documents
    BY DEF WithAttributes, Documents, Lists, Links
  <1>2. /\ e.kind = d.kind /\ e.owned = d.owned /\ e.parent = d.parent
        /\ e.first = d.first
        /\ e.attr = [d.attr EXCEPT ![n] = l.head]
        /\ e.next = l.next /\ e.prev = l.prev
        /\ e.name = d.name /\ e.value = d.value
    BY <1>1 DEF WithAttributes, Documents
  <1> HIDE DEF e
  <1>3. AttributesLaid(d, n, l, e)
    BY <1>1, <1>2 DEF AttributesLaid
  <1>4. QED
    BY <1>3 DEF e

(* A new attribute changes these fields only. *)
LEMMA NewAttributeFields ==
  ASSUME NEW d \in Documents, NEW n \in Nodes, NEW a \in Attrs, NEW s \in Text,
         NEW l \in Lists, l.head \in Attrs \cup {Nil}
  PROVE  AttributeAdded(d, n, s, a, l, NewAttribute(d, n, s, a, l))
  <1> DEFINE c == WithAttributes(d, n, l)
             e == [c EXCEPT !.owned = @ \cup {a}, !.name[a] = s]
  <1>1. AttributesLaid(d, n, l, c)
    BY WithAttributesFields
  <1> HIDE DEF c
  <1>2. e \in Documents
    BY <1>1 DEF Documents, AttributesLaid, Text
  <1>3. /\ e.kind = c.kind
        /\ e.owned = c.owned \cup {a}
        /\ e.parent = c.parent
        /\ e.first = c.first
        /\ e.attr = c.attr
        /\ e.next = c.next
        /\ e.prev = c.prev
        /\ e.name = [c.name EXCEPT ![a] = s]
        /\ e.value = c.value
    BY <1>1 DEF Documents, AttributesLaid
  <1>4. NewAttribute(d, n, s, a, l) = e
    BY DEF NewAttribute, c
  <1> HIDE DEF e
  <1>5. AttributeAdded(d, n, s, a, l, e)
    BY <1>1, <1>2, <1>3 DEF AttributeAdded, AttributesLaid
  <1>6. QED
    BY <1>4, <1>5

(* An attribute in one list is in no other. *)
LEMMA AttributeInOneList ==
  ASSUME NEW d, NEW atts, Held(d, atts), NEW m \in Nodes, NEW n \in Nodes, m # n,
         NEW a \in ToSet(atts[m])
  PROVE  a \notin ToSet(atts[n])
  BY DEF Held

(* A document stands with an attribute put into a list of attributes. *)
LEMMA NewAttributeStands ==
  ASSUME NEW d, NEW kids, NEW atts, Standing(d, kids, atts),
         NEW n \in Nodes, NEW a \in Attrs, NEW s \in Text,
         d.kind[n] # Nil, a \notin d.owned,
         NEW i \in 1 .. Len(atts[n]) + 1,
         NEW l, Spliced(Attributes(d, n), atts[n], i, a, l)
  PROVE  Standing(NewAttribute(d, n, s, a, l), kids,
                  [atts EXCEPT ![n] = InsertAt(atts[n], i, a)])
  <1> DEFINE e == NewAttribute(d, n, s, a, l)
             t == InsertAt(atts[n], i, a)
             atts2 == [atts EXCEPT ![n] = t]
  <1>1. /\ d \in Documents
        /\ kids \in [Nodes -> Seq(Nodes)] /\ atts \in [Nodes -> Seq(Attrs)]
        /\ Chained(d, kids, atts) /\ Hung(d, kids) /\ Held(d, atts)
        /\ Loose(d) /\ Founded(kids)
    BY DEF Standing
  <1>2. /\ \A m \in Nodes : a \notin ToSet(atts[m])
        /\ \A m \in Nodes : ToSet(kids[m]) \subseteq Nodes /\ ToSet(atts[m]) \subseteq Attrs
    BY <1>1, MembersOf DEF Held
  <1>3. a \in Items /\ l \in Lists /\ Linked(Attributes(d, n), atts[n])
    BY <1>1 DEF Items, Spliced, Chained
  <1>4. /\ t \in Seq(Attrs)
        /\ ToSet(t) = ToSet(atts[n]) \cup {a}
        /\ Linked(l, t)
    BY <1>1, <1>2, <1>3, InsertAtProperties, SplicedItems, SplicedIsLinked
  <1>5. l.head \in Attrs
    <2>1. t # <<>> /\ l.head = t[1]
      BY <1>1, <1>4, InsertAtProperties DEF Linked
    <2>2. QED
      BY <1>4, <2>1
  <1> HIDE DEF t
  <1>6. AttributeAdded(d, n, s, a, l, e)
    <2>1. d \in Documents /\ l \in Lists /\ l.head \in Attrs \cup {Nil}
      BY <1>1, <1>3, <1>5
    <2>2. QED
      BY <2>1, NewAttributeFields
  <1> HIDE DEF e
  <1>7. /\ e \in Documents
        /\ e.kind = d.kind
        /\ e.owned = d.owned \cup {a}
        /\ e.parent = d.parent
        /\ e.first = d.first
        /\ e.attr = [d.attr EXCEPT ![n] = l.head]
        /\ e.next = l.next
        /\ e.prev = l.prev
    BY <1>6 DEF AttributeAdded
  <1>8. atts2 \in [Nodes -> Seq(Attrs)]
    BY <1>1, <1>4
  <1>9. /\ atts2[n] = t
        /\ \A m \in Nodes : m # n => atts2[m] = atts[m]
    BY <1>1
  <1> HIDE DEF atts2
  <1>10. ASSUME NEW j \in Items, j # a, j \notin ToSet(atts[n])
         PROVE  e.next[j] = d.next[j] /\ e.prev[j] = d.prev[j]
    <2>1. l.next[j] = Attributes(d, n).next[j] /\ l.prev[j] = Attributes(d, n).prev[j]
      <3>1. Untouched(Attributes(d, n), atts[n], a, l)
        BY <1>3, SplicedElsewhere, Zenon
      <3>2. QED
        BY <1>10, <3>1 DEF Untouched
    <2>2. QED
      BY <1>7, <2>1 DEF Attributes
  <1>11. Chained(e, kids, atts2)
    <2> SUFFICES ASSUME NEW m \in Nodes
                 PROVE  /\ Linked(Children(e, m), kids[m])
                        /\ Linked(Attributes(e, m), atts2[m])
      BY DEF Chained
    <2>1. Linked(Attributes(e, m), atts2[m])
      <3>1. CASE m = n
        <4>1. Attributes(e, n) = [next |-> l.next, prev |-> l.prev, head |-> l.head]
          BY <1>1, <1>7 DEF Attributes, Documents
        <4>2. /\ Attributes(e, n).head = l.head
              /\ \A j \in ToSet(t) : /\ Attributes(e, n).next[j] = l.next[j]
                                    /\ Attributes(e, n).prev[j] = l.prev[j]
          BY <4>1
        <4>3. QED
          BY <1>4, <1>9, <3>1, <4>2, LinkedElsewhere
      <3>2. CASE m # n
        <4>1. Linked(Attributes(d, m), atts[m])
          BY <1>1 DEF Chained
        <4>2. Attributes(e, m).head = Attributes(d, m).head
          BY <1>1, <1>7, <3>2 DEF Attributes, Documents
        <4>3. \A j \in ToSet(atts[m]) : j \in Items /\ j # a /\ j \notin ToSet(atts[n])
          <5>1. Held(d, atts)
            BY <1>1
          <5>2. \A j \in ToSet(atts[m]) : j \notin ToSet(atts[n])
            BY <3>2, <5>1, AttributeInOneList
          <5>3. QED
            BY <1>2, <5>2 DEF Items
        <4>4. \A j \in ToSet(atts[m]) : /\ Attributes(e, m).next[j] = Attributes(d, m).next[j]
                                        /\ Attributes(e, m).prev[j] = Attributes(d, m).prev[j]
          BY <1>10, <4>3 DEF Attributes
        <4>5. Linked(Attributes(e, m), atts[m])
          BY <4>1, <4>2, <4>4, LinkedElsewhere
        <4>6. QED
          BY <1>9, <3>2, <4>5
      <3>3. QED
        BY <3>1, <3>2
    <2>2. Linked(Children(e, m), kids[m])
      <3>1. Linked(Children(d, m), kids[m])
        BY <1>1 DEF Chained
      <3>2. Children(e, m).head = Children(d, m).head
        BY <1>7 DEF Children
      <3>3. \A j \in ToSet(kids[m]) : j \in Items /\ j # a /\ j \notin ToSet(atts[n])
        BY <1>2, Separate DEF Items
      <3>4. \A j \in ToSet(kids[m]) : /\ Children(e, m).next[j] = Children(d, m).next[j]
                                      /\ Children(e, m).prev[j] = Children(d, m).prev[j]
        BY <1>10, <3>3 DEF Children
      <3>5. QED
        BY <3>1, <3>2, <3>4, LinkedElsewhere
    <2>3. QED
      BY <2>1, <2>2
  <1>12. Hung(e, kids)
    BY <1>1, <1>7 DEF Hung
  <1>13. Held(e, atts2)
    <2>1. ASSUME NEW b \in Attrs
          PROVE  b \in e.owned <=> \E m \in Nodes : b \in ToSet(atts2[m])
      <3>1. CASE b = a
        BY <1>4, <1>7, <1>9, <3>1
      <3>2. CASE b # a
        <4>1. \A m \in Nodes : b \in ToSet(atts2[m]) <=> b \in ToSet(atts[m])
          BY <1>4, <1>9, <3>2
        <4>2. b \in e.owned <=> b \in d.owned
          BY <1>7, <3>2
        <4>3. QED
          BY <1>1, <4>1, <4>2 DEF Held
      <3>3. QED
        BY <3>1, <3>2
    <2>2. ASSUME NEW m \in Nodes, NEW o \in Nodes, NEW b \in ToSet(atts2[m]),
                 b \in ToSet(atts2[o])
          PROVE  m = o
      <3>1. CASE b = a
        BY <1>2, <1>9, <2>2, <3>1
      <3>2. CASE b # a
        <4>1. b \in ToSet(atts[m]) /\ b \in ToSet(atts[o])
          BY <1>4, <1>9, <2>2, <3>2
        <4>2. QED
          BY <1>1, <4>1 DEF Held
      <3>3. QED
        BY <3>1, <3>2
    <2>3. QED
      BY <2>1, <2>2 DEF Held
  <1>14. Loose(e)
    <2>1. ASSUME NEW y \in Nodes, e.parent[y] = Nil
          PROVE  e.next[y] = Nil
      <3>1. d.parent[y] = Nil /\ y \in Items /\ y # a /\ y \notin ToSet(atts[n])
        BY <1>2, <1>7, <2>1, Separate DEF Items
      <3>2. QED
        BY <1>1, <1>10, <3>1 DEF Loose
    <2>2. ASSUME NEW b \in Attrs, b \notin e.owned
          PROVE  e.next[b] = Nil
      <3>1. b \in Items /\ b # a /\ b \notin d.owned
        BY <1>7, <2>2 DEF Items
      <3>2. b \notin ToSet(atts[n])
        BY <1>1, <3>1 DEF Held
      <3>3. QED
        BY <1>1, <1>10, <3>1, <3>2 DEF Loose
    <2>3. ASSUME NEW y \in Nodes, e.kind[y] = Nil
          PROVE  e.parent[y] = Nil /\ e.first[y] = Nil /\ e.attr[y] = Nil
      <3>1. d.kind[y] = Nil /\ y # n
        BY <1>7, <2>3
      <3>2. e.attr[y] = d.attr[y]
        BY <1>1, <1>7, <3>1 DEF Documents
      <3>3. QED
        BY <1>1, <1>7, <3>1, <3>2 DEF Loose
    <2>4. QED
      BY <2>1, <2>2, <2>3 DEF Loose
  <1>15. Standing(e, kids, atts2)
    BY <1>1, <1>7, <1>8, <1>11, <1>12, <1>13, <1>14 DEF Standing
  <1>16. QED
    BY <1>15 DEF e, atts2, t

------------------------------------------------------------------------------
(* An attribute goes.                                                      *)

(* Nothing is left of what is gone, and the rest is as it was. *)
Left(c, gone, e) ==
  /\ e \in Documents
  /\ e.owned = c.owned \ gone
  /\ \A m \in Nodes : IF m \in gone
                    THEN /\ e.kind[m] = Nil /\ e.parent[m] = Nil
                         /\ e.first[m] = Nil /\ e.attr[m] = Nil
                    ELSE /\ e.kind[m] = c.kind[m] /\ e.parent[m] = c.parent[m]
                         /\ e.first[m] = c.first[m] /\ e.attr[m] = c.attr[m]
  /\ \A j \in Items : IF j \in gone THEN e.next[j] = Nil /\ e.prev[j] = Nil
                    ELSE e.next[j] = c.next[j] /\ e.prev[j] = c.prev[j]

(* Destroying changes what is gone, and nothing else. *)
LEMMA DestroyedFields ==
  ASSUME NEW c \in Documents, NEW gone
  PROVE  Left(c, gone, Destroyed(c, gone))
  <1> DEFINE e == Destroyed(c, gone)
  <1>1. e \in Documents
    BY DEF Destroyed, Documents
  <1>2. /\ e.owned = c.owned \ gone
        /\ \A m \in Nodes : /\ e.kind[m] = IF m \in gone THEN Nil ELSE c.kind[m]
                            /\ e.parent[m] = IF m \in gone THEN Nil ELSE c.parent[m]
                            /\ e.first[m] = IF m \in gone THEN Nil ELSE c.first[m]
                            /\ e.attr[m] = IF m \in gone THEN Nil ELSE c.attr[m]
        /\ \A j \in Items : /\ e.next[j] = IF j \in gone THEN Nil ELSE c.next[j]
                            /\ e.prev[j] = IF j \in gone THEN Nil ELSE c.prev[j]
    BY DEF Destroyed
  <1> HIDE DEF e
  <1>3. Left(c, gone, e)
    BY <1>1, <1>2 DEF Left
  <1>4. QED
    BY <1>3 DEF e

(* A document stands without an attribute. *)
LEMMA RemovedAttributeStands ==
  ASSUME NEW d, NEW kids, NEW atts, Standing(d, kids, atts),
         NEW n \in Nodes, NEW i \in 1 .. Len(atts[n]), NEW a, a = atts[n][i],
         NEW l, Cut(Attributes(d, n), atts[n], i, l)
  PROVE  Standing(Destroyed(WithAttributes(d, n, l), {a}), kids,
                  [atts EXCEPT ![n] = RemoveAt(atts[n], i)])
  <1> DEFINE c == WithAttributes(d, n, l)
             e == Destroyed(c, {a})
             t == RemoveAt(atts[n], i)
             atts2 == [atts EXCEPT ![n] = t]
             own == Attributes(d, n)
  <1>1. /\ d \in Documents
        /\ kids \in [Nodes -> Seq(Nodes)] /\ atts \in [Nodes -> Seq(Attrs)]
        /\ Chained(d, kids, atts) /\ Hung(d, kids) /\ Held(d, atts)
        /\ Loose(d) /\ Founded(kids)
    BY DEF Standing
  <1>2. /\ \A m \in Nodes : ToSet(kids[m]) \subseteq Nodes /\ ToSet(atts[m]) \subseteq Attrs
        /\ a \in ToSet(atts[n])
        /\ a \in Attrs
    BY <1>1, MembersOf
  <1>3. /\ own \in Lists /\ l \in Lists
        /\ Linked(own, atts[n]) /\ Cut(own, atts[n], i, l)
    BY <1>1, Separate DEF Cut, Chained, Attributes, Documents, Lists, Links, Items
  <1>4. /\ t \in Seq(Attrs)
        /\ Linked(l, t)
    BY <1>1, <1>3, RemoveAtProperties, CutIsLinked
  <1>5. ToSet(t) = ToSet(atts[n]) \ {a}
    <2>1. \A p, q \in 1 .. Len(atts[n]) : atts[n][p] = atts[n][q] => p = q
      BY <1>3 DEF Linked
    <2>2. QED
      BY <1>1, <2>1, CutItems
  <1> HIDE DEF t
  <1>6. l.head \in Attrs \cup {Nil}
    BY <1>4 DEF Linked
  <1>7. AttributesLaid(d, n, l, c)
    BY <1>1, <1>3, <1>6, WithAttributesFields
  <1> HIDE DEF c
  <1>8. c \in Documents /\ Left(c, {a}, e)
    BY <1>7, DestroyedFields DEF AttributesLaid
  <1> HIDE DEF e
  <1>9. /\ e \in Documents
        /\ e.owned = d.owned \ {a}
        /\ \A m \in Nodes : /\ e.kind[m] = d.kind[m] /\ e.parent[m] = d.parent[m]
                            /\ e.first[m] = d.first[m]
                            /\ e.attr[m] = IF m = n THEN l.head ELSE d.attr[m]
        /\ \A j \in Items : j # a => e.next[j] = l.next[j] /\ e.prev[j] = l.prev[j]
        /\ e.next[a] = Nil
    <2>1. \A m \in Nodes : m \notin {a}
      BY <1>2, Separate
    <2>2. \A m \in Nodes : /\ e.kind[m] = c.kind[m] /\ e.parent[m] = c.parent[m]
                          /\ e.first[m] = c.first[m] /\ e.attr[m] = c.attr[m]
      BY <1>8, <2>1 DEF Left
    <2>3. \A m \in Nodes : c.attr[m] = IF m = n THEN l.head ELSE d.attr[m]
      BY <1>1, <1>7 DEF AttributesLaid, Documents
    <2>4. \A j \in Items : j # a => e.next[j] = c.next[j] /\ e.prev[j] = c.prev[j]
      BY <1>8 DEF Left
    <2>5. a \in Items /\ e.next[a] = Nil
      BY <1>2, <1>8 DEF Left, Items
    <2>6. e \in Documents /\ e.owned = c.owned \ {a}
      BY <1>8 DEF Left
    <2>7. /\ c.kind = d.kind /\ c.owned = d.owned /\ c.parent = d.parent /\ c.first = d.first
          /\ c.next = l.next /\ c.prev = l.prev
      BY <1>7 DEF AttributesLaid
    <2>8. QED
      BY <2>2, <2>3, <2>4, <2>5, <2>6, <2>7
  <1>10. atts2 \in [Nodes -> Seq(Attrs)]
    BY <1>1, <1>4
  <1>11. /\ atts2[n] = t
         /\ \A m \in Nodes : m # n => atts2[m] = atts[m]
    BY <1>1
  <1> HIDE DEF atts2
  <1>12. ASSUME NEW j \in Items, j \notin ToSet(atts[n])
         PROVE  e.next[j] = d.next[j] /\ e.prev[j] = d.prev[j]
    <2>1. l.next[j] = own.next[j] /\ l.prev[j] = own.prev[j]
      <3> HIDE DEF own
      <3>1. QED
        BY <1>3, <1>12, CutElsewhere
    <2>2. j # a
      BY <1>2, <1>12
    <2>3. QED
      BY <1>9, <2>1, <2>2 DEF Attributes
  <1>13. Chained(e, kids, atts2)
    <2> SUFFICES ASSUME NEW m \in Nodes
                 PROVE  /\ Linked(Children(e, m), kids[m])
                        /\ Linked(Attributes(e, m), atts2[m])
      BY DEF Chained
    <2>1. Linked(Attributes(e, m), atts2[m])
      <3>1. CASE m = n
        <4>1. Attributes(e, n).head = l.head
          BY <1>9 DEF Attributes
        <4>2. \A j \in ToSet(t) : j \in Items /\ j # a
          BY <1>2, <1>5 DEF Items
        <4>3. \A j \in ToSet(t) : /\ Attributes(e, n).next[j] = l.next[j]
                                /\ Attributes(e, n).prev[j] = l.prev[j]
          BY <1>9, <4>2 DEF Attributes
        <4>4. QED
          BY <1>4, <1>11, <3>1, <4>1, <4>3, LinkedElsewhere
      <3>2. CASE m # n
        <4>1. Linked(Attributes(d, m), atts[m])
          BY <1>1 DEF Chained
        <4>2. Attributes(e, m).head = Attributes(d, m).head
          BY <1>9, <3>2 DEF Attributes
        <4>3. \A j \in ToSet(atts[m]) : j \in Items /\ j \notin ToSet(atts[n])
          <5>1. Held(d, atts)
            BY <1>1
          <5>2. \A j \in ToSet(atts[m]) : j \notin ToSet(atts[n])
            BY <3>2, <5>1, AttributeInOneList
          <5>3. QED
            BY <1>2, <5>2 DEF Items
        <4>4. \A j \in ToSet(atts[m]) : /\ Attributes(e, m).next[j] = Attributes(d, m).next[j]
                                        /\ Attributes(e, m).prev[j] = Attributes(d, m).prev[j]
          BY <1>12, <4>3 DEF Attributes
        <4>5. Linked(Attributes(e, m), atts[m])
          BY <4>1, <4>2, <4>4, LinkedElsewhere
        <4>6. QED
          BY <1>11, <3>2, <4>5
      <3>3. QED
        BY <3>1, <3>2
    <2>2. Linked(Children(e, m), kids[m])
      <3>1. Linked(Children(d, m), kids[m])
        BY <1>1 DEF Chained
      <3>2. Children(e, m).head = Children(d, m).head
        BY <1>9 DEF Children
      <3>3. \A j \in ToSet(kids[m]) : j \in Items /\ j \notin ToSet(atts[n])
        BY <1>2, Separate DEF Items
      <3>4. \A j \in ToSet(kids[m]) : /\ Children(e, m).next[j] = Children(d, m).next[j]
                                      /\ Children(e, m).prev[j] = Children(d, m).prev[j]
        BY <1>12, <3>3 DEF Children
      <3>5. QED
        BY <3>1, <3>2, <3>4, LinkedElsewhere
    <2>3. QED
      BY <2>1, <2>2
  <1>14. Hung(e, kids)
    BY <1>1, <1>9 DEF Hung
  <1>15. \A m \in Nodes : \A b \in Attrs : b \in ToSet(atts2[m]) <=> b # a /\ b \in ToSet(atts[m])
    <2> SUFFICES ASSUME NEW m \in Nodes, NEW b \in Attrs
                 PROVE  b \in ToSet(atts2[m]) <=> b # a /\ b \in ToSet(atts[m])
      OBVIOUS
    <2>1. CASE m = n
      BY <1>5, <1>11, <2>1
    <2>2. CASE m # n
      <3>1. a \notin ToSet(atts[m])
        BY <1>1, <1>2, <2>2, AttributeInOneList
      <3>2. QED
        BY <1>11, <2>2, <3>1
    <2>3. QED
      BY <2>1, <2>2
  <1>16. Held(e, atts2)
    <2>1. ASSUME NEW b \in Attrs
          PROVE  b \in e.owned <=> \E m \in Nodes : b \in ToSet(atts2[m])
      <3>1. b \in e.owned <=> b # a /\ b \in d.owned
        BY <1>9
      <3>2. QED
        BY <1>1, <1>15, <3>1 DEF Held
    <2>2. ASSUME NEW m \in Nodes, NEW o \in Nodes, NEW b \in ToSet(atts2[m]),
                 b \in ToSet(atts2[o])
          PROVE  m = o
      <3>1. b \in Attrs
        BY <1>10, MembersOf
      <3>2. b \in ToSet(atts[m]) /\ b \in ToSet(atts[o])
        BY <1>15, <2>2, <3>1
      <3>3. QED
        BY <1>1, <3>2 DEF Held
    <2>3. QED
      BY <2>1, <2>2 DEF Held
  <1>17. Loose(e)
    <2>1. ASSUME NEW y \in Nodes, e.parent[y] = Nil
          PROVE  e.next[y] = Nil
      <3>1. d.parent[y] = Nil /\ y \in Items /\ y \notin ToSet(atts[n])
        BY <1>2, <1>9, <2>1, Separate DEF Items
      <3>2. QED
        BY <1>1, <1>12, <3>1 DEF Loose
    <2>2. ASSUME NEW b \in Attrs, b \notin e.owned
          PROVE  e.next[b] = Nil
      <3>1. CASE b = a
        BY <1>9, <3>1
      <3>2. CASE b # a
        <4>1. b \in Items /\ b \notin d.owned
          BY <1>9, <2>2, <3>2 DEF Items
        <4>2. b \notin ToSet(atts[n])
          BY <1>1, <4>1 DEF Held
        <4>3. QED
          BY <1>1, <1>12, <4>1, <4>2 DEF Loose
      <3>3. QED
        BY <3>1, <3>2
    <2>3. ASSUME NEW y \in Nodes, e.kind[y] = Nil
          PROVE  e.parent[y] = Nil /\ e.first[y] = Nil /\ e.attr[y] = Nil
      <3>1. d.kind[y] = Nil /\ d.attr[y] = Nil
        BY <1>1, <1>9, <2>3 DEF Loose
      <3>2. y # n
        <4>1. CASE y = n
          <5>1. own.head = Nil
            BY <3>1, <4>1 DEF Attributes
          <5>2. atts[n] # <<>> /\ atts[n][1] \in Attrs
            BY <1>1
          <5>3. QED
            BY <1>3, <5>1, <5>2, Separate DEF Linked
        <4>2. QED
          BY <4>1
      <3>3. QED
        BY <1>1, <1>9, <3>1, <3>2 DEF Loose
    <2>4. QED
      BY <2>1, <2>2, <2>3 DEF Loose
  <1>18. Standing(e, kids, atts2)
    BY <1>1, <1>9, <1>10, <1>13, <1>14, <1>16, <1>17 DEF Standing
  <1>19. QED
    BY <1>18 DEF e, c, atts2, t

------------------------------------------------------------------------------
(* What is below a node.                                                   *)

Closed(kids, S) == \A m \in S : ToSet(kids[m]) \subseteq S

(* x and all nodes below it. *)
Reach(kids, x) ==
  {y \in Nodes : \A S \in SUBSET Nodes : x \in S /\ Closed(kids, S) => y \in S}

(* With a node, its children are reached. *)
LEMMA ReachIsClosed ==
  ASSUME NEW kids \in [Nodes -> Seq(Nodes)], NEW x \in Nodes
  PROVE  x \in Reach(kids, x) /\ Closed(kids, Reach(kids, x))
  <1>1. x \in Reach(kids, x)
    BY DEF Reach
  <1>2. ASSUME NEW m \in Reach(kids, x), NEW c \in ToSet(kids[m])
        PROVE  c \in Reach(kids, x)
    <2>1. c \in Nodes
      BY <1>2, MembersOf DEF Reach
    <2>2. ASSUME NEW S \in SUBSET Nodes, x \in S, Closed(kids, S)
          PROVE  c \in S
      <3>1. m \in S
        BY <2>2 DEF Reach
      <3>2. QED
        BY <1>2, <2>2, <3>1 DEF Closed
    <2>3. QED
      BY <2>1, <2>2 DEF Reach
  <1>3. QED
    BY <1>1, <1>2 DEF Closed

(* What has x and the children of all its nodes has all below x. *)
LEMMA ReachIsLeast ==
  ASSUME NEW kids, NEW x \in Nodes, NEW S \in SUBSET Nodes, x \in S, Closed(kids, S)
  PROVE  Reach(kids, x) \subseteq S
  BY DEF Reach

(* One comes to a node below x by its parent. *)
LEMMA ReachedByParent ==
  ASSUME NEW kids \in [Nodes -> Seq(Nodes)], NEW x \in Nodes,
         NEW y \in Reach(kids, x), y # x
  PROVE  \E m \in Reach(kids, x) : y \in ToSet(kids[m])
  <1> DEFINE R == Reach(kids, x)
             S == {z \in R : z = x \/ \E m \in R : z \in ToSet(kids[m])}
  <1>1. x \in R /\ Closed(kids, R) /\ R \subseteq Nodes
    BY ReachIsClosed DEF Reach
  <1>2. y \in R
    OBVIOUS
  <1> HIDE DEF R
  <1>3. Closed(kids, S)
    BY <1>1 DEF Closed
  <1>4. S \in SUBSET Nodes /\ x \in S
    BY <1>1
  <1>5. R \subseteq S
    <2> HIDE DEF S
    <2>1. QED
      BY <1>3, <1>4, ReachIsLeast DEF R
  <1>6. QED
    BY <1>2, <1>5 DEF R

(* The nodes below x are those below its children. *)
LEMMA ReachUnfolds ==
  ASSUME NEW kids \in [Nodes -> Seq(Nodes)], NEW x \in Nodes
  PROVE  Reach(kids, x) = {x} \cup UNION {Reach(kids, c) : c \in ToSet(kids[x])}
  <1> DEFINE S == {x} \cup UNION {Reach(kids, c) : c \in ToSet(kids[x])}
  <1>1. ToSet(kids[x]) \subseteq Nodes
    BY MembersOf
  <1>2. S \in SUBSET Nodes /\ x \in S
    BY DEF Reach
  <1>3. Closed(kids, S)
    <2> SUFFICES ASSUME NEW m \in S
                 PROVE  ToSet(kids[m]) \subseteq S
      BY DEF Closed
    <2>1. CASE m = x
      <3>1. \A c \in ToSet(kids[x]) : c \in Reach(kids, c)
        BY <1>1, ReachIsClosed
      <3>2. QED
        BY <2>1, <3>1
    <2>2. CASE m # x
      <3>1. PICK c \in ToSet(kids[x]) : m \in Reach(kids, c)
        BY <2>2
      <3>2. ToSet(kids[m]) \subseteq Reach(kids, c)
        BY <1>1, <3>1, ReachIsClosed DEF Closed
      <3>3. QED
        BY <3>2
    <2>3. QED
      BY <2>1, <2>2
  <1>4. Reach(kids, x) \subseteq S
    <2> HIDE DEF S
    <2>1. QED
      BY <1>2, <1>3, ReachIsLeast
  <1>5. ASSUME NEW c \in ToSet(kids[x])
        PROVE  Reach(kids, c) \subseteq Reach(kids, x)
    <2>1. c \in Nodes /\ c \in Reach(kids, x) /\ Closed(kids, Reach(kids, x))
      BY <1>1, ReachIsClosed DEF Closed
    <2>2. Reach(kids, x) \in SUBSET Nodes
      BY DEF Reach
    <2>3. QED
      BY <2>1, <2>2, ReachIsLeast
  <1>6. x \in Reach(kids, x)
    BY ReachIsClosed
  <1>7. QED
    BY <1>4, <1>5, <1>6

(* f gathers what is at a node and below it. *)
Gathers(kids, own, f) ==
  f = [n \in Nodes |-> own[n] \cup UNION {f[c] : c \in ToSet(kids[n])}]

(* There is a function that gathers. *)
LEMMA SomeGathers ==
  ASSUME NEW kids \in [Nodes -> Seq(Nodes)], NEW own
  PROVE  \E f : Gathers(kids, own, f)
  <1> DEFINE f == [n \in Nodes |-> UNION {own[y] : y \in Reach(kids, n)}]
  <1>1. ASSUME NEW n \in Nodes
        PROVE  f[n] = own[n] \cup UNION {f[c] : c \in ToSet(kids[n])}
    <2>1. ToSet(kids[n]) \subseteq Nodes
      BY MembersOf
    <2>2. Reach(kids, n) = {n} \cup UNION {Reach(kids, c) : c \in ToSet(kids[n])}
      BY ReachUnfolds
    <2>3. \A c \in ToSet(kids[n]) : f[c] = UNION {own[y] : y \in Reach(kids, c)}
      BY <2>1
    <2>4. f[n] = UNION {own[y] : y \in Reach(kids, n)}
      OBVIOUS
    <2> HIDE DEF f
    <2>5. ASSUME NEW z
          PROVE  z \in f[n] <=> z \in own[n] \cup UNION {f[c] : c \in ToSet(kids[n])}
      <3>1. z \in f[n] <=> \E y \in Reach(kids, n) : z \in own[y]
        BY <2>4
      <3>2. \A c \in ToSet(kids[n]) : z \in f[c] <=> \E y \in Reach(kids, c) : z \in own[y]
        BY <2>3
      <3>3. (\E y \in Reach(kids, n) : z \in own[y])
              <=> z \in own[n] \/ \E c \in ToSet(kids[n]) : \E y \in Reach(kids, c) : z \in own[y]
        BY <2>2
      <3>4. QED
        BY <3>1, <3>2, <3>3
    <2>6. QED
      BY <2>5
  <1>2. f = [n \in Nodes |-> own[n] \cup UNION {f[c] : c \in ToSet(kids[n])}]
    <2>1. f = [n \in Nodes |-> f[n]]
      OBVIOUS
    <2> HIDE DEF f
    <2>2. QED
      BY <1>1, <2>1
  <1>3. QED
    BY <1>2 DEF Gathers

(* What is at x and the nodes below it. *)
Gathered(kids, own, x) == UNION {own[y] : y \in Reach(kids, x)}

(* From a founded tree it gathers what is at the nodes that are reached. *)
LEMMA GathersReached ==
  ASSUME NEW kids \in [Nodes -> Seq(Nodes)], NEW own, NEW f,
         Gathers(kids, own, f), Founded(kids), NEW x \in Nodes
  PROVE  f[x] = Gathered(kids, own, x)
  <1> DEFINE Right(n) == \A z : z \in f[n] <=> \E y \in Reach(kids, n) : z \in own[y]
             S == {n \in Nodes : ~Right(n)}
  <1>1. \A n \in Nodes : f[n] = own[n] \cup UNION {f[c] : c \in ToSet(kids[n])}
    BY Zenon DEF Gathers
  <1>2. SUFFICES ASSUME S # {} PROVE FALSE
    BY DEF Gathered
  <1>3. PICK n \in S : \A c \in S : c \notin ToSet(kids[n])
    <2> HIDE DEF S
    <2>1. S \in SUBSET Nodes
      BY DEF S
    <2>2. QED
      BY <1>2, <2>1 DEF Founded
  <1>4. n \in Nodes /\ ToSet(kids[n]) \subseteq Nodes
    BY <1>3, MembersOf
  <1>5. \A c \in ToSet(kids[n]) : Right(c)
    BY <1>3, <1>4
  <1>6. Reach(kids, n) = {n} \cup UNION {Reach(kids, c) : c \in ToSet(kids[n])}
    BY <1>4, ReachUnfolds
  <1>7. ASSUME NEW z
        PROVE  z \in f[n] <=> \E y \in Reach(kids, n) : z \in own[y]
    <2>1. z \in f[n] <=> z \in own[n] \/ \E c \in ToSet(kids[n]) : z \in f[c]
      BY <1>1, <1>4
    <2>2. \A c \in ToSet(kids[n]) : z \in f[c] <=> \E y \in Reach(kids, c) : z \in own[y]
      BY <1>5
    <2>3. (\E y \in Reach(kids, n) : z \in own[y])
            <=> z \in own[n] \/ \E c \in ToSet(kids[n]) : \E y \in Reach(kids, c) : z \in own[y]
      BY <1>6
    <2>4. QED
      BY <2>1, <2>2, <2>3
  <1>8. QED
    BY <1>3, <1>7

(* f is the function that Doomed is defined by. *)
Dooms(d, f) ==
  f = [n \in Nodes |-> {n} \cup ToSet(From(d, d.attr[n])) \cup
                      UNION {f[c] : c \in ToSet(From(d, d.first[n]))}]

(* Doomed is a value of some such function. *)
LEMMA DoomedIsChosen ==
  ASSUME NEW d, NEW x
  PROVE  Doomed(d, x) = (CHOOSE f : Dooms(d, f))[x]
  BY Zenon DEF Doomed, Dooms

(* x and all below it, with their attributes. *)
WithItems(kids, atts, x) == UNION {{y} \cup ToSet(atts[y]) : y \in Reach(kids, x)}

(* What destroy_node takes is x and all below it, with their attributes. *)
LEMMA DoomedReached ==
  ASSUME NEW d, NEW kids \in [Nodes -> Seq(Nodes)], NEW atts \in [Nodes -> Seq(Attrs)],
         ReadAs(d, kids, atts), Founded(kids), NEW x \in Nodes
  PROVE  Doomed(d, x) = WithItems(kids, atts, x)
  <1> DEFINE own == [n \in Nodes |-> {n} \cup ToSet(atts[n])]
             g == CHOOSE f : Dooms(d, f)
  <1>1. \A n \in Nodes : own[n] = {n} \cup ToSet(atts[n])
    OBVIOUS
  <1> HIDE DEF own
  <1>2. PICK f : Gathers(kids, own, f)
    BY SomeGathers
  <1>3. \A h : Dooms(d, h) <=> Gathers(kids, own, h)
    <2> SUFFICES ASSUME NEW h
                 PROVE  Dooms(d, h) <=> Gathers(kids, own, h)
      OBVIOUS
    <2>1. ASSUME NEW n \in Nodes
          PROVE  {n} \cup ToSet(From(d, d.attr[n])) \cup
                   UNION {h[c] : c \in ToSet(From(d, d.first[n]))}
                 = own[n] \cup UNION {h[c] : c \in ToSet(kids[n])}
      <3>1. From(d, d.attr[n]) = atts[n] /\ From(d, d.first[n]) = kids[n]
        BY DEF ReadAs
      <3>2. QED
        BY <1>1, <3>1, Zenon
    <2>2. [n \in Nodes |-> {n} \cup ToSet(From(d, d.attr[n])) \cup
                            UNION {h[c] : c \in ToSet(From(d, d.first[n]))}]
          = [n \in Nodes |-> own[n] \cup UNION {h[c] : c \in ToSet(kids[n])}]
      BY <2>1
    <2>3. QED
      BY <2>2, Zenon DEF Dooms, Gathers
  <1>4. Dooms(d, f)
    BY <1>2, <1>3
  <1>5. Dooms(d, g)
    BY <1>4, Zenon
  <1>6. Doomed(d, x) = g[x]
    BY DoomedIsChosen
  <1> HIDE DEF g
  <1>7. Gathers(kids, own, g)
    BY <1>3, <1>5
  <1>8. g[x] = Gathered(kids, own, x)
    BY <1>7, GathersReached
  <1>9. Gathered(kids, own, x) = WithItems(kids, atts, x)
    BY <1>1 DEF Reach, Gathered, WithItems
  <1>10. QED
    BY <1>6, <1>8, <1>9

------------------------------------------------------------------------------
(* A node goes, with all below it.                                         *)

(* The lists when x, child number i of n, is unlinked, and when all below  *)
(* it is gone.                                                             *)
KidsWithout(kids, n, i) == [kids EXCEPT ![n] = RemoveAt(kids[n], i)]
Pruned(lists, gone)     == [m \in Nodes |-> IF m \in gone THEN <<>> ELSE lists[m]]

(* What unlinking x makes of the lists. *)
LEMMA UnlinkedChildIsOut ==
  ASSUME NEW d, NEW kids, NEW atts, Standing(d, kids, atts),
         NEW n \in Nodes, NEW i \in 1 .. Len(kids[n]), NEW x, x = kids[n][i],
         NEW l, Cut(Children(d, n), kids[n], i, l),
         NEW c, c = WithChildren(d, n, l),
         NEW kids1, kids1 = KidsWithout(kids, n, i)
  PROVE  /\ ChildrenLaid(d, n, l, c)
         /\ kids1 \in [Nodes -> Seq(Nodes)]
         /\ x \in Nodes /\ d.parent[x] = n
         /\ \A m \in Nodes : \A y \in Nodes :
              y \in ToSet(kids1[m]) <=> y # x /\ d.parent[y] = m
         /\ \A j \in Items : j \notin ToSet(kids[n]) =>
                            c.next[j] = d.next[j] /\ c.prev[j] = d.prev[j]
         /\ Chained(c, kids1, atts)
         /\ Founded(kids1)
         /\ ReadAs(c, kids1, atts)
  <1> DEFINE t == RemoveAt(kids[n], i)
             own == Children(d, n)
  <1>1. /\ d \in Documents
        /\ kids \in [Nodes -> Seq(Nodes)] /\ atts \in [Nodes -> Seq(Attrs)]
        /\ Chained(d, kids, atts) /\ Hung(d, kids) /\ Held(d, atts)
        /\ Loose(d) /\ Founded(kids)
    BY DEF Standing
  <1>2. /\ \A m \in Nodes : ToSet(kids[m]) \subseteq Nodes /\ ToSet(atts[m]) \subseteq Attrs
        /\ x \in ToSet(kids[n])
        /\ x \in Nodes
    BY <1>1, MembersOf
  <1>3. d.parent[x] = n
    BY <1>1, <1>2 DEF Hung
  <1>4. /\ own \in Lists /\ l \in Lists
        /\ Linked(own, kids[n]) /\ Cut(own, kids[n], i, l)
    BY <1>1, Separate DEF Cut, Chained, Children, Documents, Lists, Links, Items
  <1>5. /\ t \in Seq(Nodes)
        /\ Linked(l, t)
    BY <1>1, <1>4, RemoveAtProperties, CutIsLinked
  <1>6. ToSet(t) = ToSet(kids[n]) \ {x}
    <2>1. \A p, q \in 1 .. Len(kids[n]) : kids[n][p] = kids[n][q] => p = q
      BY <1>4 DEF Linked
    <2>2. QED
      BY <1>1, <2>1, CutItems
  <1>7. kids1 = [kids EXCEPT ![n] = t]
    BY DEF KidsWithout
  <1> HIDE DEF t
  <1>8. l.head \in Nodes \cup {Nil}
    BY <1>5 DEF Linked
  <1>9. ChildrenLaid(d, n, l, c)
    <2>1. d \in Documents /\ l \in Lists
      BY <1>1, <1>4
    <2>2. ChildrenLaid(d, n, l, WithChildren(d, n, l))
      BY <1>8, <2>1, WithChildrenFields
    <2>3. QED
      BY <2>2
  <1>10. /\ kids1 \in [Nodes -> Seq(Nodes)]
         /\ kids1[n] = t
         /\ \A m \in Nodes : m # n => kids1[m] = kids[m]
    <2>1. kids \in [Nodes -> Seq(Nodes)] /\ t \in Seq(Nodes)
      BY <1>1, <1>5
    <2>2. QED
      BY <1>7, <2>1
  <1>11. ASSUME NEW m \in Nodes, NEW y \in Nodes
         PROVE  y \in ToSet(kids1[m]) <=> y # x /\ d.parent[y] = m
    <2>1. y \in ToSet(kids[m]) <=> d.parent[y] = m
      BY <1>1 DEF Hung
    <2>2. CASE m = n
      BY <1>6, <1>10, <2>1, <2>2
    <2>3. CASE m # n
      BY <1>3, <1>10, <2>1, <2>3
    <2>4. QED
      BY <2>2, <2>3
  <1>12. ASSUME NEW j \in Items, j \notin ToSet(kids[n])
         PROVE  c.next[j] = d.next[j] /\ c.prev[j] = d.prev[j]
    <2>1. l.next[j] = own.next[j] /\ l.prev[j] = own.prev[j]
      <3> HIDE DEF own
      <3>1. QED
        BY <1>4, <1>12, CutElsewhere
    <2>2. QED
      BY <1>9, <2>1 DEF ChildrenLaid, Children
  <1>13. Chained(c, kids1, atts)
    <2> SUFFICES ASSUME NEW m \in Nodes
                 PROVE  /\ Linked(Children(c, m), kids1[m])
                        /\ Linked(Attributes(c, m), atts[m])
      BY DEF Chained
    <2>1. Linked(Children(c, m), kids1[m])
      <3>1. CASE m = n
        <4>1. /\ Children(c, n).head = l.head
              /\ Children(c, n).next = l.next /\ Children(c, n).prev = l.prev
          BY <1>1, <1>9 DEF Children, ChildrenLaid, Documents
        <4>2. QED
          BY <1>5, <1>10, <3>1, <4>1, LinkedElsewhere
      <3>2. CASE m # n
        <4>1. Linked(Children(d, m), kids[m])
          BY <1>1 DEF Chained
        <4>2. Children(c, m).head = Children(d, m).head
          BY <1>1, <1>9, <3>2 DEF Children, ChildrenLaid, Documents
        <4>3. \A j \in ToSet(kids[m]) : j \in Items /\ j \notin ToSet(kids[n])
          <5>1. SUFFICES ASSUME NEW j \in ToSet(kids[m]), j \in ToSet(kids[n])
                         PROVE  FALSE
            BY <1>2 DEF Items
          <5>2. j \in Nodes
            BY <1>2
          <5>3. d.parent[j] = m
            BY <1>1, <5>2 DEF Hung
          <5>4. d.parent[j] = n
            BY <1>1, <5>1, <5>2 DEF Hung
          <5>5. QED
            BY <3>2, <5>3, <5>4
        <4>4. \A j \in ToSet(kids[m]) : /\ Children(c, m).next[j] = Children(d, m).next[j]
                                        /\ Children(c, m).prev[j] = Children(d, m).prev[j]
          BY <1>12, <4>3 DEF Children
        <4>5. Linked(Children(c, m), kids[m])
          BY <4>1, <4>2, <4>4, LinkedElsewhere
        <4>6. QED
          BY <1>10, <3>2, <4>5
      <3>3. QED
        BY <3>1, <3>2
    <2>2. Linked(Attributes(c, m), atts[m])
      <3>1. Linked(Attributes(d, m), atts[m])
        BY <1>1 DEF Chained
      <3>2. Attributes(c, m).head = Attributes(d, m).head
        BY <1>9 DEF Attributes, ChildrenLaid
      <3>3. \A j \in ToSet(atts[m]) : j \in Items /\ j \notin ToSet(kids[n])
        BY <1>2, Separate DEF Items
      <3>4. \A j \in ToSet(atts[m]) : /\ Attributes(c, m).next[j] = Attributes(d, m).next[j]
                                      /\ Attributes(c, m).prev[j] = Attributes(d, m).prev[j]
        BY <1>12, <3>3 DEF Attributes
      <3>5. QED
        BY <3>1, <3>2, <3>4, LinkedElsewhere
    <2>3. QED
      BY <2>1, <2>2
  <1>14. Founded(kids1)
    <2> SUFFICES ASSUME NEW S \in SUBSET Nodes, S # {}
                 PROVE  \E y \in S : \A e \in S : e \notin ToSet(kids1[y])
      BY DEF Founded
    <2>1. PICK y \in S : \A e \in S : e \notin ToSet(kids[y])
      BY <1>1 DEF Founded
    <2>2. \A e \in S : e \notin ToSet(kids1[y])
      BY <1>6, <1>10, <2>1
    <2>3. QED
      BY <2>2
  <1>15. ASSUME NEW j \in Items
         PROVE  \/ InLists(kids1, atts, j)
                \/ c.next[j] = Nil
                \/ (c.next[j] \in Items /\ InLists(kids1, atts, c.next[j]))
    <2>1. CASE j \in Attrs
      <3>1. CASE j \in d.owned
        BY <1>1, <2>1, <3>1 DEF Held, InLists
      <3>2. CASE j \notin d.owned
        <4>1. d.next[j] = Nil /\ j \notin ToSet(kids[n])
          BY <1>1, <1>2, <2>1, <3>2, Separate DEF Loose
        <4>2. QED
          BY <1>12, <4>1
      <3>3. QED
        BY <3>1, <3>2
    <2>2. CASE j \in Nodes /\ d.parent[j] = Nil
      <3>1. d.next[j] = Nil /\ j \notin ToSet(kids[n])
        BY <1>1, <2>2, Separate DEF Loose, Hung
      <3>2. QED
        BY <1>12, <3>1
    <2>3. CASE j \in Nodes /\ d.parent[j] # Nil /\ j # x
      <3>1. d.parent[j] \in Nodes
        BY <1>1, <2>3 DEF Documents
      <3>2. j \in ToSet(kids1[d.parent[j]])
        BY <1>11, <2>3, <3>1
      <3>3. QED
        BY <3>1, <3>2 DEF InLists
    <2>4. CASE j = x
      <3>1. c.next[x] = own.next[x]
        <4>1. x \in Items
          BY <1>2 DEF Items
        <4>2. l.next[x] = CutNext(own, kids[n], i, x)
          BY <1>4, <4>1 DEF Cut
        <4>3. CutNext(own, kids[n], i, x) = own.next[x]
          BY DEF CutNext
        <4>4. QED
          BY <1>9, <4>2, <4>3 DEF ChildrenLaid
      <3>2. own.next[x] = IF i = Len(kids[n]) THEN Nil ELSE kids[n][i + 1]
        BY <1>4 DEF Linked
      <3>3. CASE i = Len(kids[n])
        BY <2>4, <3>1, <3>2, <3>3
      <3>4. CASE i # Len(kids[n])
        <4> DEFINE y == kids[n][i + 1]
        <4>1. i + 1 \in 1 .. Len(kids[n])
          BY <1>1, <3>4
        <4>2. y \in ToSet(kids[n]) /\ y \in Nodes
          BY <1>1, <1>2, <4>1, MembersOf
        <4>3. y # x
          BY <1>4, <4>1 DEF Linked
        <4> HIDE DEF y
        <4>4. y \in ToSet(kids1[n])
          BY <1>6, <1>10, <4>2, <4>3
        <4>5. c.next[j] = y
          BY <2>4, <3>1, <3>2, <3>4 DEF y
        <4>6. QED
          BY <4>2, <4>4, <4>5 DEF InLists, Items
      <3>5. QED
        BY <3>3, <3>4
    <2>5. QED
      BY <2>1, <2>2, <2>3, <2>4 DEF Items
  <1>16. ReadAs(c, kids1, atts)
    <2>1. \A j \in Items : \/ InLists(kids1, atts, j)
                          \/ c.next[j] = Nil
                          \/ (c.next[j] \in Items /\ InLists(kids1, atts, c.next[j]))
      BY <1>15
    <2>2. kids1 \in [Nodes -> Seq(Nodes)] /\ atts \in [Nodes -> Seq(Attrs)]
      BY <1>1, <1>10
    <2>3. QED
      BY <1>13, <2>1, <2>2, ListsAreRead, Zenon
  <1>17. QED
    BY <1>2, <1>3, <1>9, <1>10, <1>11, <1>12, <1>13, <1>14, <1>16

(* A document stands without x, all below it and their attributes. *)
LEMMA RemovedChildStands ==
  ASSUME NEW d, NEW kids, NEW atts, Standing(d, kids, atts),
         NEW n \in Nodes, NEW i \in 1 .. Len(kids[n]), NEW x, x = kids[n][i],
         NEW l, Cut(Children(d, n), kids[n], i, l),
         NEW c, c = WithChildren(d, n, l),
         NEW kids1, kids1 = KidsWithout(kids, n, i),
         NEW R, R = Reach(kids1, x)
  PROVE  /\ Doomed(c, x) = WithItems(kids1, atts, x)
         /\ Standing(Destroyed(c, Doomed(c, x)), Pruned(kids1, R), Pruned(atts, R))
  <1> DEFINE gone == Doomed(c, x)
             e == Destroyed(c, gone)
             kids2 == Pruned(kids1, R)
             atts2 == Pruned(atts, R)
  <1>1. /\ d \in Documents
        /\ kids \in [Nodes -> Seq(Nodes)] /\ atts \in [Nodes -> Seq(Attrs)]
        /\ Chained(d, kids, atts) /\ Hung(d, kids) /\ Held(d, atts)
        /\ Loose(d) /\ Founded(kids)
    BY DEF Standing
  <1>2. /\ ChildrenLaid(d, n, l, c)
        /\ kids1 \in [Nodes -> Seq(Nodes)]
        /\ x \in Nodes /\ d.parent[x] = n
        /\ \A m \in Nodes : \A y \in Nodes :
             y \in ToSet(kids1[m]) <=> y # x /\ d.parent[y] = m
        /\ \A j \in Items : j \notin ToSet(kids[n]) =>
                           c.next[j] = d.next[j] /\ c.prev[j] = d.prev[j]
        /\ Chained(c, kids1, atts)
        /\ Founded(kids1)
        /\ ReadAs(c, kids1, atts)
    BY UnlinkedChildIsOut
  <1>3. gone = WithItems(kids1, atts, x)
    <2>1. kids1 \in [Nodes -> Seq(Nodes)] /\ atts \in [Nodes -> Seq(Attrs)] /\ x \in Nodes
      BY <1>1, <1>2
    <2>2. ReadAs(c, kids1, atts)
      BY <1>2
    <2>3. Founded(kids1)
      BY <1>2
    <2> HIDE DEF gone
    <2>4. Doomed(c, x) = WithItems(kids1, atts, x)
      BY <2>1, <2>2, <2>3, DoomedReached
    <2>5. QED
      BY <2>4 DEF gone
  <1> HIDE DEF gone
  <1>4. x \in R /\ Closed(kids1, R) /\ R \subseteq Nodes
    <2>1. kids1 \in [Nodes -> Seq(Nodes)] /\ x \in Nodes
      BY <1>2
    <2>2. x \in Reach(kids1, x) /\ Closed(kids1, Reach(kids1, x))
      BY <2>1, ReachIsClosed
    <2>3. R \subseteq Nodes
      BY DEF Reach
    <2>4. QED
      BY <2>2, <2>3
  <1>5. \A m \in Nodes : ToSet(kids1[m]) \subseteq Nodes /\ ToSet(atts[m]) \subseteq Attrs
    BY <1>1, <1>2, MembersOf
  <1>6. \A m \in Nodes : m \in gone <=> m \in R
    BY <1>3, <1>4, <1>5, Separate DEF WithItems
  <1>7. \A a \in Attrs : a \in gone <=> \E y \in R : a \in ToSet(atts[y])
    BY <1>3, <1>4, Separate DEF WithItems
  <1>8. ASSUME NEW m \in Nodes, m \notin R, NEW y \in ToSet(kids1[m])
        PROVE  y \in Nodes /\ y \notin R
    <2>1. y \in Nodes
      BY <1>5
    <2>2. y # x /\ d.parent[y] = m
      BY <1>2, <1>8, <2>1
    <2>3. CASE y \in R
      <3>1. PICK o \in R : y \in ToSet(kids1[o])
        <4>1. kids1 \in [Nodes -> Seq(Nodes)] /\ x \in Nodes
          BY <1>2
        <4>2. y \in Reach(kids1, x) /\ y # x
          BY <2>2, <2>3
        <4>3. \E o \in Reach(kids1, x) : y \in ToSet(kids1[o])
          BY <4>1, <4>2, ReachedByParent
        <4>4. QED
          BY <4>3
      <3>2. d.parent[y] = o
        BY <1>2, <1>4, <2>1, <3>1
      <3>3. QED
        BY <1>8, <2>2, <3>1, <3>2
    <2>4. QED
      BY <2>1, <2>3
  <1>9. ASSUME NEW m \in Nodes, m \notin R, NEW a \in ToSet(atts[m])
        PROVE  a \in Attrs /\ a \notin gone
    <2>1. a \in Attrs
      BY <1>5
    <2>2. CASE a \in gone
      <3>1. PICK y \in R : a \in ToSet(atts[y])
        BY <1>7, <2>1, <2>2
      <3>2. y = m
        BY <1>1, <1>4, <3>1 DEF Held
      <3>3. QED
        BY <1>9, <3>1, <3>2
    <2>3. QED
      BY <2>1, <2>2
  <1>10. Left(c, gone, e)
    BY <1>2, DestroyedFields DEF ChildrenLaid
  <1> HIDE DEF e
  <1>11. /\ kids2 \in [Nodes -> Seq(Nodes)]
         /\ atts2 \in [Nodes -> Seq(Attrs)]
         /\ \A m \in Nodes : IF m \in R THEN kids2[m] = <<>> /\ atts2[m] = <<>>
                           ELSE kids2[m] = kids1[m] /\ atts2[m] = atts[m]
    BY <1>1, <1>2 DEF Pruned
  <1> HIDE DEF kids2, atts2
  <1>12. ToSet(<<>>) = {}
    BY DEF ToSet
  <1>13. /\ e \in Documents
         /\ \A m \in Nodes : m \in R => /\ e.kind[m] = Nil /\ e.parent[m] = Nil
                                        /\ e.first[m] = Nil /\ e.attr[m] = Nil
         /\ \A m \in Nodes : m \notin R => /\ e.kind[m] = c.kind[m] /\ e.parent[m] = c.parent[m]
                                           /\ e.first[m] = c.first[m] /\ e.attr[m] = c.attr[m]
         /\ \A j \in Items : j \in gone => e.next[j] = Nil
         /\ \A j \in Items : j \notin gone => e.next[j] = c.next[j] /\ e.prev[j] = c.prev[j]
    BY <1>6, <1>10 DEF Left
  <1>14. Chained(e, kids2, atts2)
    <2> SUFFICES ASSUME NEW m \in Nodes
                 PROVE  /\ Linked(Children(e, m), kids2[m])
                        /\ Linked(Attributes(e, m), atts2[m])
      BY DEF Chained
    <2>1. CASE m \in R
      <3>1. /\ Children(e, m).head = Nil /\ Attributes(e, m).head = Nil
            /\ kids2[m] = <<>> /\ atts2[m] = <<>>
        BY <1>11, <1>13, <2>1 DEF Children, Attributes
      <3>2. QED
        BY <3>1 DEF Linked
    <2>2. CASE m \notin R
      <3>1. Linked(Children(c, m), kids1[m]) /\ Linked(Attributes(c, m), atts[m])
        BY <1>2 DEF Chained
      <3>2. /\ Children(e, m).head = Children(c, m).head
            /\ Attributes(e, m).head = Attributes(c, m).head
        BY <1>13, <2>2 DEF Children, Attributes
      <3>3. \A j \in ToSet(kids1[m]) : j \in Items /\ j \notin gone
        BY <1>6, <1>8, <2>2 DEF Items
      <3>4. \A j \in ToSet(atts[m]) : j \in Items /\ j \notin gone
        BY <1>9, <2>2 DEF Items
      <3>5. \A j \in ToSet(kids1[m]) : /\ Children(e, m).next[j] = Children(c, m).next[j]
                                       /\ Children(e, m).prev[j] = Children(c, m).prev[j]
        BY <1>13, <3>3 DEF Children
      <3>6. \A j \in ToSet(atts[m]) : /\ Attributes(e, m).next[j] = Attributes(c, m).next[j]
                                      /\ Attributes(e, m).prev[j] = Attributes(c, m).prev[j]
        BY <1>13, <3>4 DEF Attributes
      <3>7. Linked(Children(e, m), kids1[m])
        BY <3>1, <3>2, <3>5, LinkedElsewhere
      <3>8. Linked(Attributes(e, m), atts[m])
        BY <3>1, <3>2, <3>6, LinkedElsewhere
      <3>9. QED
        BY <1>11, <2>2, <3>7, <3>8
    <2>3. QED
      BY <2>1, <2>2
  <1>15. Hung(e, kids2)
    <2> SUFFICES ASSUME NEW m \in Nodes, NEW y \in Nodes
                 PROVE  y \in ToSet(kids2[m]) <=> e.parent[y] = m
      BY DEF Hung
    <2>1. CASE y \in R
      <3>1. e.parent[y] # m
        BY <1>13, <2>1, Separate
      <3>2. y \notin ToSet(kids2[m])
        BY <1>8, <1>11, <1>12, <2>1
      <3>3. QED
        BY <3>1, <3>2
    <2>2. CASE y \notin R
      <3>1. y # x /\ e.parent[y] = d.parent[y]
        BY <1>2, <1>4, <1>13, <2>2 DEF ChildrenLaid
      <3>2. y \in ToSet(kids1[m]) <=> e.parent[y] = m
        BY <1>2, <3>1
      <3>3. m \in R => y \notin ToSet(kids1[m])
        BY <1>4, <2>2 DEF Closed
      <3>4. QED
        BY <1>11, <1>12, <3>2, <3>3
    <2>3. QED
      BY <2>1, <2>2
  <1>16. Held(e, atts2)
    <2>1. ASSUME NEW b \in Attrs
          PROVE  b \in e.owned <=> \E m \in Nodes : b \in ToSet(atts2[m])
      <3>1. b \in e.owned <=> b \in d.owned /\ b \notin gone
        BY <1>2, <1>10 DEF Left, ChildrenLaid
      <3>2. \A m \in Nodes : b \in ToSet(atts2[m]) <=> m \notin R /\ b \in ToSet(atts[m])
        BY <1>11, <1>12
      <3>3. b \in d.owned <=> \E m \in Nodes : b \in ToSet(atts[m])
        BY <1>1 DEF Held
      <3>4. QED
        BY <1>4, <1>7, <1>9, <3>1, <3>2, <3>3
    <2>2. ASSUME NEW m \in Nodes, NEW o \in Nodes, NEW b \in ToSet(atts2[m]),
                 b \in ToSet(atts2[o])
          PROVE  m = o
      <3>1. b \in ToSet(atts[m]) /\ b \in ToSet(atts[o])
        BY <1>11, <1>12, <2>2
      <3>2. QED
        BY <1>1, <3>1 DEF Held
    <2>3. QED
      BY <2>1, <2>2 DEF Held
  <1>17. Loose(e)
    <2>1. ASSUME NEW y \in Nodes, e.parent[y] = Nil
          PROVE  e.next[y] = Nil
      <3>1. y \in Items
        BY DEF Items
      <3>2. CASE y \in R
        BY <1>6, <1>13, <3>1, <3>2
      <3>3. CASE y \notin R
        <4>1. d.parent[y] = Nil
          BY <1>2, <1>13, <2>1, <3>3 DEF ChildrenLaid
        <4>2. y \notin ToSet(kids[n]) /\ d.next[y] = Nil
          BY <1>1, <4>1, Separate DEF Hung, Loose
        <4>3. QED
          BY <1>2, <1>6, <1>13, <3>1, <3>3, <4>2
      <3>4. QED
        BY <3>2, <3>3
    <2>2. ASSUME NEW b \in Attrs, b \notin e.owned
          PROVE  e.next[b] = Nil
      <3>1. b \in Items
        BY DEF Items
      <3>2. CASE b \in gone
        BY <1>13, <3>1, <3>2
      <3>3. CASE b \notin gone
        <4>1. b \notin d.owned
          BY <1>2, <1>10, <2>2, <3>3 DEF Left, ChildrenLaid
        <4>2. b \notin ToSet(kids[n]) /\ d.next[b] = Nil
          BY <1>1, <4>1, MembersOf, Separate DEF Loose
        <4>3. QED
          BY <1>2, <1>13, <3>1, <3>3, <4>2
      <3>4. QED
        BY <3>2, <3>3
    <2>3. ASSUME NEW y \in Nodes, e.kind[y] = Nil
          PROVE  e.parent[y] = Nil /\ e.first[y] = Nil /\ e.attr[y] = Nil
      <3>1. CASE y \in R
        BY <1>13, <3>1
      <3>2. CASE y \notin R
        <4>1. d.kind[y] = Nil
          BY <1>2, <1>13, <2>3, <3>2 DEF ChildrenLaid
        <4>2. d.parent[y] = Nil /\ d.first[y] = Nil /\ d.attr[y] = Nil
          BY <1>1, <4>1 DEF Loose
        <4>3. y # n
          <5>1. Linked(Children(d, n), kids[n]) /\ kids[n] # <<>> /\ kids[n][1] \in Nodes
            BY <1>1 DEF Chained
          <5>2. Children(d, n).head = d.first[n]
            BY DEF Children
          <5>3. d.first[n] = kids[n][1]
            BY <5>1, <5>2 DEF Linked
          <5>4. QED
            BY <4>2, <5>1, <5>3, Separate
        <4>4. c.first[y] = d.first[y] /\ c.parent = d.parent /\ c.attr = d.attr
          BY <1>1, <1>2, <4>3 DEF ChildrenLaid, Documents
        <4>5. QED
          BY <1>13, <3>2, <4>2, <4>4
      <3>3. QED
        BY <3>1, <3>2
    <2>4. QED
      BY <2>1, <2>2, <2>3 DEF Loose
  <1>18. Founded(kids2)
    <2> SUFFICES ASSUME NEW S \in SUBSET Nodes, S # {}
                 PROVE  \E y \in S : \A f \in S : f \notin ToSet(kids2[y])
      BY DEF Founded
    <2>1. PICK y \in S : \A f \in S : f \notin ToSet(kids1[y])
      BY <1>2 DEF Founded
    <2>2. \A f \in S : f \notin ToSet(kids2[y])
      BY <1>11, <1>12, <2>1
    <2>3. QED
      BY <2>2
  <1>19. Standing(e, kids2, atts2)
    BY <1>11, <1>13, <1>14, <1>15, <1>16, <1>17, <1>18 DEF Standing
  <1>20. QED
    BY <1>3, <1>19 DEF e, kids2, atts2, gone

------------------------------------------------------------------------------
(* Which list an attribute is in.                                          *)

(* f is a function that FirstOf may be defined by. *)
Backs(d, f) ==
  f = [b \in d.owned |-> IF d.next[d.prev[b]] = Nil THEN b ELSE f[d.prev[b]]]

(* FirstOf is a value of some such function. *)
LEMMA FirstOfIsChosen ==
  ASSUME NEW d, NEW a
  PROVE  FirstOf(d, a) = (CHOOSE f : Backs(d, f))[a]
  BY Zenon DEF FirstOf, Backs

(* Walking back from number p of the attributes of m: the code stops at    *)
(* the first, and there only.                                              *)
LEMMA WalkBack ==
  ASSUME NEW d, NEW kids, NEW atts, Standing(d, kids, atts),
         NEW m \in Nodes, NEW p \in 1 .. Len(atts[m])
  PROVE  /\ atts[m][p] \in d.owned
         /\ (d.next[d.prev[atts[m][p]]] = Nil) <=> p = 1
         /\ p # 1 => p - 1 \in 1 .. Len(atts[m]) /\ d.prev[atts[m][p]] = atts[m][p - 1]
         /\ d.attr[m] = atts[m][1] /\ d.attr[m] \in Attrs
  <1>1. /\ atts[m] \in Seq(Attrs)
        /\ Linked(Attributes(d, m), atts[m])
        /\ Held(d, atts)
    BY DEF Standing, Chained
  <1> DEFINE s == atts[m]
  <1>2. /\ s \in Seq(Attrs)
        /\ d.attr[m] = IF s = <<>> THEN Nil ELSE s[1]
        /\ \A q \in 1 .. Len(s) : d.next[s[q]] = IF q = Len(s) THEN Nil ELSE s[q + 1]
        /\ \A q \in 1 .. Len(s) : d.prev[s[q]] = s[IF q = 1 THEN Len(s) ELSE q - 1]
    BY <1>1 DEF Linked, Attributes
  <1>3. s[p] \in Attrs /\ s[p] \in ToSet(s)
    BY <1>1, MembersOf
  <1>4. s[p] \in d.owned
    BY <1>1, <1>3 DEF Held
  <1> HIDE DEF s
  <1>5. p \in 1 .. Len(s)
    BY DEF s
  <1>6. (d.next[d.prev[s[p]]] = Nil) <=> p = 1
    <2>1. CASE p = 1
      <3>1. d.prev[s[p]] = s[Len(s)] /\ Len(s) \in 1 .. Len(s)
        BY <1>2, <1>5, <2>1
      <3>2. QED
        BY <1>2, <2>1, <3>1
    <2>2. CASE p # 1
      <3>1. d.prev[s[p]] = s[p - 1] /\ p - 1 \in 1 .. Len(s) /\ p - 1 # Len(s)
        BY <1>2, <1>5, <2>2
      <3>2. d.next[s[p - 1]] = s[(p - 1) + 1] /\ (p - 1) + 1 = p
        BY <1>2, <1>5, <3>1
      <3>3. QED
        BY <1>3, <2>2, <3>1, <3>2, Separate DEF s
    <2>3. QED
      BY <2>1, <2>2
  <1>7. p # 1 => p - 1 \in 1 .. Len(s) /\ d.prev[s[p]] = s[p - 1]
    BY <1>2, <1>5
  <1>8. d.attr[m] = s[1] /\ s[1] \in Attrs
    BY <1>2, <1>5
  <1>9. QED
    BY <1>4, <1>6, <1>7, <1>8 DEF s

(* It comes to the first attribute of the node that has a. *)
LEMMA FirstOfList ==
  ASSUME NEW d, NEW kids, NEW atts, Standing(d, kids, atts),
         NEW m \in Nodes, NEW a \in ToSet(atts[m])
  PROVE  FirstOf(d, a) = d.attr[m]
  <1> DEFINE HolderOf(b) == CHOOSE n \in Nodes : b \in ToSet(atts[n])
             f == [b \in d.owned |-> d.attr[HolderOf(b)]]
             g == CHOOSE h : Backs(d, h)
  <1>1. /\ atts \in [Nodes -> Seq(Attrs)] /\ Held(d, atts)
        /\ d.owned \subseteq Attrs
    BY DEF Standing, Documents
  <1>2. ASSUME NEW n \in Nodes, NEW b \in ToSet(atts[n])
        PROVE  HolderOf(b) = n /\ b \in d.owned
    <2>1. \A o \in Nodes : b \in ToSet(atts[o]) => o = n
      BY <1>1, <1>2 DEF Held
    <2>2. HolderOf(b) \in Nodes /\ b \in ToSet(atts[HolderOf(b)])
      BY <1>2
    <2>3. b \in Attrs
      BY <1>1, <1>2, MembersOf
    <2> HIDE DEF HolderOf
    <2>4. QED
      BY <1>1, <1>2, <2>1, <2>2, <2>3 DEF Held
  <1> HIDE DEF HolderOf
  <1>3. ASSUME NEW b \in d.owned
        PROVE  f[b] = IF d.next[d.prev[b]] = Nil THEN b ELSE f[d.prev[b]]
    <2>1. PICK n \in Nodes : b \in ToSet(atts[n])
      BY <1>1 DEF Held
    <2>2. PICK p \in 1 .. Len(atts[n]) : atts[n][p] = b
      BY <1>1, <2>1, MembersOf
    <2>3. /\ (d.next[d.prev[b]] = Nil) <=> p = 1
          /\ p # 1 => p - 1 \in 1 .. Len(atts[n]) /\ d.prev[b] = atts[n][p - 1]
          /\ d.attr[n] = atts[n][1]
      BY <2>2, WalkBack
    <2>4. f[b] = d.attr[n]
      BY <1>2, <2>1
    <2>5. CASE p = 1
      BY <2>2, <2>3, <2>4, <2>5
    <2>6. CASE p # 1
      <3>1. d.prev[b] \in ToSet(atts[n])
        BY <1>1, <2>3, <2>6, MembersOf
      <3>2. f[d.prev[b]] = d.attr[n]
        BY <1>2, <3>1
      <3>3. QED
        BY <2>3, <2>4, <2>6, <3>2
    <2>7. QED
      BY <2>5, <2>6
  <1>4. Backs(d, f)
    <2>1. f = [b \in d.owned |-> f[b]]
      OBVIOUS
    <2> HIDE DEF f
    <2>2. [b \in d.owned |-> f[b]]
          = [b \in d.owned |-> IF d.next[d.prev[b]] = Nil THEN b ELSE f[d.prev[b]]]
      BY <1>3
    <2>3. f = [b \in d.owned |-> IF d.next[d.prev[b]] = Nil THEN b ELSE f[d.prev[b]]]
      BY <2>1, <2>2
    <2>4. QED
      BY <2>3 DEF Backs
  <1> HIDE DEF f
  <1>5. Backs(d, g)
    BY <1>4, Zenon
  <1>6. FirstOf(d, a) = g[a]
    BY FirstOfIsChosen
  <1> HIDE DEF g
  <1>7. \A b \in d.owned : g[b] = IF d.next[d.prev[b]] = Nil THEN b ELSE g[d.prev[b]]
    BY <1>5, Zenon DEF Backs
  <1> DEFINE S == {p \in 1 .. Len(atts[m]) : g[atts[m][p]] # d.attr[m]}
  <1>8. SUFFICES ASSUME S # {} PROVE FALSE
    <2>1. PICK p \in 1 .. Len(atts[m]) : atts[m][p] = a
      BY <1>1, MembersOf
    <2>2. QED
      BY <1>6, <1>8, <2>1
  <1>9. PICK p \in S : \A q \in S : p <= q
    <2>1. S \in SUBSET Nat
      BY <1>1
    <2> HIDE DEF S
    <2>2. QED
      BY <1>8, <2>1, LeastNumber
  <1>10. p \in 1 .. Len(atts[m]) /\ g[atts[m][p]] # d.attr[m]
    BY <1>9
  <1>11. /\ atts[m][p] \in d.owned
         /\ (d.next[d.prev[atts[m][p]]] = Nil) <=> p = 1
         /\ p # 1 => p - 1 \in 1 .. Len(atts[m]) /\ d.prev[atts[m][p]] = atts[m][p - 1]
         /\ d.attr[m] = atts[m][1]
    BY <1>10, WalkBack
  <1>12. CASE p = 1
    BY <1>7, <1>10, <1>11, <1>12
  <1>13. CASE p # 1
    <2>1. g[atts[m][p]] = g[atts[m][p - 1]]
      BY <1>7, <1>11, <1>13
    <2>2. p - 1 \in S
      BY <1>10, <1>11, <1>13, <2>1
    <2>3. p <= p - 1 /\ p \in Nat
      BY <1>9, <1>10, <2>2
    <2>4. QED
      BY <2>3
  <1>14. QED
    BY <1>12, <1>13

(* So an attribute is found where it is, and nowhere else. *)
LEMMA BelongsToList ==
  ASSUME IInv, NEW n \in Nodes, NEW a \in Attrs
  PROVE  Belongs(n, a) <=> a \in ToSet(AttributesOf(dom)[n])
  <1> DEFINE kids == ChildrenOf(dom)
             atts == AttributesOf(dom)
  <1>1. Standing(dom, kids, atts)
    BY DEF IInv
  <1> HIDE DEF kids, atts
  <1>2. Held(dom, atts) /\ atts \in [Nodes -> Seq(Attrs)]
    BY <1>1 DEF Standing
  <1>3. ASSUME a \in ToSet(atts[n])
        PROVE  Belongs(n, a)
    <2>1. FirstOf(dom, a) = dom.attr[n]
      BY <1>1, <1>3, FirstOfList
    <2>2. QED
      BY <1>2, <1>3, <2>1 DEF Belongs, Held
  <1>4. ASSUME Belongs(n, a)
        PROVE  a \in ToSet(atts[n])
    <2>1. PICK m \in Nodes : a \in ToSet(atts[m])
      BY <1>2, <1>4 DEF Belongs, Held
    <2>2. dom.attr[m] = dom.attr[n]
      BY <1>1, <1>4, <2>1, FirstOfList DEF Belongs
    <2>3. PICK p \in 1 .. Len(atts[m]) : atts[m][p] = a
      BY <1>2, <2>1, MembersOf
    <2>4. dom.attr[m] = atts[m][1] /\ dom.attr[m] \in Attrs
      BY <1>1, <2>3, WalkBack
    <2>5. 1 \in 1 .. Len(atts[m]) /\ atts[m][1] \in ToSet(atts[m])
      BY <1>2, <2>3, MembersOf
    <2>6. Linked(Attributes(dom, n), atts[n]) /\ Attributes(dom, n).head = dom.attr[n]
      BY <1>1 DEF Standing, Chained, Attributes
    <2>7. atts[n] # <<>> /\ dom.attr[n] = atts[n][1]
      BY <2>2, <2>4, <2>6, Separate DEF Linked
    <2>8. atts[n] \in Seq(Attrs) /\ 1 \in 1 .. Len(atts[n])
      BY <1>2, <2>7
    <2>9. atts[n][1] \in ToSet(atts[n])
      BY <2>8, MembersOf
    <2>10. m = n
      BY <1>2, <2>2, <2>4, <2>5, <2>7, <2>9 DEF Held
    <2>11. QED
      BY <2>1, <2>10
  <1>5. QED
    BY <1>3, <1>4 DEF atts

------------------------------------------------------------------------------
(* The operations, on the lists and on the tree.                           *)

(* A document that stands on some lists has just these. *)
LEMMA StandsNext ==
  ASSUME NEW kids, NEW atts, Standing(dom', kids, atts)
  PROVE  IInv' /\ ChildrenOf(dom') = kids /\ AttributesOf(dom') = atts
  <1>1. kids = ChildrenOf(dom') /\ atts = AttributesOf(dom')
    BY StandingIsRead
  <1>2. QED
    BY <1>1 DEF IInv

(* What the invariant says of the document. *)
LEMMA IInvUnfolds ==
  ASSUME IInv
  PROVE  /\ Standing(dom, ChildrenOf(dom), AttributesOf(dom))
         /\ dom \in Documents
         /\ ChildrenOf(dom) \in [Nodes -> Seq(Nodes)]
         /\ AttributesOf(dom) \in [Nodes -> Seq(Attrs)]
         /\ \A n \in Nodes : /\ Children(dom, n) \in Lists
                             /\ Linked(Children(dom, n), ChildrenOf(dom)[n])
                             /\ Attributes(dom, n) \in Lists
                             /\ Linked(Attributes(dom, n), AttributesOf(dom)[n])
         /\ Hung(dom, ChildrenOf(dom))
         /\ Held(dom, AttributesOf(dom))
         /\ Loose(dom)
  <1>1. Standing(dom, ChildrenOf(dom), AttributesOf(dom))
    BY DEF IInv
  <1> DEFINE kids == ChildrenOf(dom)
             atts == AttributesOf(dom)
  <1> HIDE DEF kids, atts
  <1>2. /\ dom \in Documents
        /\ kids \in [Nodes -> Seq(Nodes)]
        /\ atts \in [Nodes -> Seq(Attrs)]
        /\ Chained(dom, kids, atts) /\ Hung(dom, kids) /\ Held(dom, atts) /\ Loose(dom)
    BY <1>1 DEF Standing, kids, atts
  <1>3. \A n \in Nodes : Children(dom, n) \in Lists /\ Attributes(dom, n) \in Lists
    BY <1>2 DEF Children, Attributes, Documents, Lists, Links, Items
  <1>4. \A n \in Nodes : Linked(Children(dom, n), kids[n]) /\ Linked(Attributes(dom, n), atts[n])
    BY <1>2 DEF Chained
  <1>5. QED
    BY <1>1, <1>2, <1>3, <1>4 DEF kids, atts

(* No item is twice in a list. *)
LEMMA OnePosition ==
  ASSUME NEW l, NEW s, Linked(l, s), NEW e \in ToSet(s)
  PROVE  \E i \in 1 .. Len(s) : s[i] = e /\ Tree!Position(s, e) = i
  <1>1. s \in Seq(Items) /\ \A i, j \in 1 .. Len(s) : s[i] = s[j] => i = j
    BY DEF Linked
  <1>2. PICK i \in 1 .. Len(s) : s[i] = e
    BY <1>1, MembersOf
  <1>3. DOMAIN s = 1 .. Len(s)
    BY <1>1
  <1>4. Tree!Position(s, e) = i
    BY <1>1, <1>2, <1>3 DEF Tree!Position
  <1>5. QED
    BY <1>2, <1>4

(* A node put at its place in the list is put there in the tree. *)
LEMMA NewNodeStep ==
  ASSUME IInv, NEW n \in Nodes, NEW k \in NewKinds, NEW x \in Nodes, MayHold(n, k, x),
         NEW i \in 1 .. Len(ChildrenOf(dom)[n]) + 1,
         NEW l, Spliced(Children(dom, n), ChildrenOf(dom)[n], i, x, l),
         dom' = NewNode(dom, n, k, x, l)
  PROVE  IInv' /\ Tree!NewChild(n, k, x, i)
  <1> DEFINE kids == ChildrenOf(dom)
             atts == AttributesOf(dom)
             kids2 == [kids EXCEPT ![n] = InsertAt(kids[n], i, x)]
  <1>1. k \in Kinds /\ dom.kind[n] # Nil /\ dom.kind[x] = Nil
    BY NodesAssumption DEF MayHold, AllowInsertChild, Kinds
  <1>2. Standing(dom', kids2, atts)
    <2>1. Standing(dom, kids, atts) /\ i \in 1 .. Len(kids[n]) + 1
          /\ Spliced(Children(dom, n), kids[n], i, x, l)
      BY IInvUnfolds
    <2> HIDE DEF kids, atts
    <2>2. Standing(NewNode(dom, n, k, x, l), [kids EXCEPT ![n] = InsertAt(kids[n], i, x)], atts)
      BY <1>1, <2>1, NewNodeStands
    <2>3. QED
      BY <2>2
  <1> HIDE DEF kids2
  <1>3. IInv' /\ ChildrenOf(dom') = kids2 /\ AttributesOf(dom') = atts
    BY <1>2, StandsNext
  <1>4. NodeAdded(dom, n, k, x, l, dom')
    <2>1. l \in Lists /\ dom \in Documents /\ l.head \in Nodes \cup {Nil}
      <3>1. l \in Lists /\ l.head = IF i = 1 THEN x ELSE dom.first[n]
        BY DEF Spliced, Children
      <3>2. QED
        BY <3>1, IInvUnfolds DEF Documents
    <2>2. NodeAdded(dom, n, k, x, l, NewNode(dom, n, k, x, l))
      BY <1>1, <2>1, NewNodeFields
    <2>3. QED
      BY <2>2
  <1>5. /\ dom'.kind = [dom.kind EXCEPT ![x] = k]
        /\ dom'.name = [dom.name EXCEPT ![x] = NewName(k)]
        /\ dom'.value = dom.value
    BY <1>4 DEF NodeAdded
  <1>6. /\ ChildrenOf(dom') = [ChildrenOf(dom) EXCEPT ![n] = InsertAt(ChildrenOf(dom)[n], i, x)]
        /\ AttributesOf(dom') = AttributesOf(dom)
    BY <1>3 DEF kids2
  <1>7. AllowInsertChild(dom.kind[n], k) /\ dom.kind[x] = Nil
    BY DEF MayHold
  <1>8. Tree!NewChild(n, k, x, i)
    <2>1. /\ Tree!AllowInsertChild(dom.kind[n], k)
          /\ Tree!NewName(k) = NewName(k)
          /\ Tree!InsertAt(ChildrenOf(dom)[n], i, x) = InsertAt(ChildrenOf(dom)[n], i, x)
      BY <1>7 DEF Tree!AllowInsertChild, AllowInsertChild, Tree!Kinds, Kinds,
         Tree!NewName, NewName, Tree!InsertAt, InsertAt
    <2>2. QED
      BY <1>5, <1>6, <1>7, <2>1 DEF Tree!NewChild, ChildrenOf, AttributesOf
  <1>9. QED
    BY <1>3, <1>8

(* A node that does not exist yet can be put in any list of children. *)
LEMMA NewNodeIsLoose ==
  ASSUME IInv, NEW n \in Nodes, NEW k \in NewKinds, NEW x \in Nodes, MayHold(n, k, x)
  PROVE  /\ x \in Items /\ x \notin ToSet(ChildrenOf(dom)[n])
         /\ Children(dom, n).next[x] = Nil
  <1>1. dom.kind[x] = Nil
    BY DEF MayHold
  <1>2. dom.parent[x] = Nil /\ dom.next[x] = Nil
    BY <1>1, IInvUnfolds DEF Loose
  <1>3. x \notin ToSet(ChildrenOf(dom)[n])
    BY <1>2, IInvUnfolds, Separate DEF Hung
  <1>4. QED
    BY <1>2, <1>3 DEF Items, Children

(* append_child *)
LEMMA AppendChildStep ==
  ASSUME IInv, NEW n \in Nodes, NEW k \in NewKinds, NEW x \in Nodes, AppendChild(n, k, x)
  PROVE  IInv' /\ Tree!AppendChild(n, k, x)
  <1> DEFINE s == ChildrenOf(dom)[n]
             l == Appended(Children(dom, n), x)
  <1>1. MayHold(n, k, x) /\ dom' = NewNode(dom, n, k, x, l)
    BY DEF AppendChild
  <1>2. s \in Seq(Nodes) /\ Children(dom, n) \in Lists /\ Linked(Children(dom, n), s)
    BY IInvUnfolds
  <1> HIDE DEF s
  <1>3. Spliced(Children(dom, n), s, Len(s) + 1, x, l)
    BY <1>1, <1>2, NewNodeIsLoose, AppendedSplices DEF s
  <1>4. Len(s) + 1 \in 1 .. Len(s) + 1
    BY <1>2
  <1> HIDE DEF l
  <1>5. IInv' /\ Tree!NewChild(n, k, x, Len(s) + 1)
    BY <1>1, <1>3, <1>4, NewNodeStep DEF s
  <1>6. QED
    BY <1>5 DEF Tree!AppendChild, ChildrenOf, s

(* prepend_child *)
LEMMA PrependChildStep ==
  ASSUME IInv, NEW n \in Nodes, NEW k \in NewKinds, NEW x \in Nodes, PrependChild(n, k, x)
  PROVE  IInv' /\ Tree!PrependChild(n, k, x)
  <1> DEFINE s == ChildrenOf(dom)[n]
             l == Prepended(Children(dom, n), x)
  <1>1. MayHold(n, k, x) /\ dom' = NewNode(dom, n, k, x, l)
    BY DEF PrependChild
  <1>2. s \in Seq(Nodes) /\ Children(dom, n) \in Lists /\ Linked(Children(dom, n), s)
    BY IInvUnfolds
  <1> HIDE DEF s
  <1>3. Spliced(Children(dom, n), s, 1, x, l)
    BY <1>1, <1>2, NewNodeIsLoose, PrependedSplices DEF s
  <1>4. 1 \in 1 .. Len(s) + 1
    BY <1>2
  <1> HIDE DEF l
  <1>5. IInv' /\ Tree!NewChild(n, k, x, 1)
    BY <1>1, <1>3, <1>4, NewNodeStep DEF s
  <1>6. QED
    BY <1>5 DEF Tree!PrependChild

(* The sibling named is at one place in the list of the node named. *)
LEMMA SiblingIsPlaced ==
  ASSUME IInv, NEW n \in Nodes, NEW y \in Nodes, dom.parent[y] = n
  PROVE  /\ \E i \in 1 .. Len(ChildrenOf(dom)[n]) :
              ChildrenOf(dom)[n][i] = y /\ Tree!Position(ChildrenOf(dom)[n], y) = i
         /\ Tree!Contains(ChildrenOf(dom)[n], y)
  <1> DEFINE s == ChildrenOf(dom)[n]
  <1>1. s \in Seq(Nodes) /\ Linked(Children(dom, n), s) /\ y \in ToSet(s)
    BY IInvUnfolds DEF Hung
  <1> HIDE DEF s
  <1>2. \E i \in 1 .. Len(s) : s[i] = y /\ Tree!Position(s, y) = i
    BY <1>1, OnePosition
  <1>3. Tree!Contains(s, y)
    BY <1>1, <1>2 DEF Tree!Contains
  <1>4. QED
    BY <1>2, <1>3 DEF s

(* insert_child_before *)
LEMMA InsertChildBeforeStep ==
  ASSUME IInv, NEW n \in Nodes, NEW k \in NewKinds, NEW x \in Nodes, NEW y \in Nodes,
         InsertChildBefore(n, k, x, y)
  PROVE  IInv' /\ Tree!InsertChildBefore(n, k, x, y)
  <1> DEFINE s == ChildrenOf(dom)[n]
             l == InsertedBefore(Children(dom, n), x, y)
  <1>1. /\ MayHold(n, k, x) /\ dom' = NewNode(dom, n, k, x, l)
        /\ dom.parent[y] = n
    BY DEF InsertChildBefore
  <1>2. s \in Seq(Nodes) /\ Children(dom, n) \in Lists /\ Linked(Children(dom, n), s)
    BY IInvUnfolds
  <1>3. /\ \E i \in 1 .. Len(s) : s[i] = y /\ Tree!Position(s, y) = i
        /\ Tree!Contains(s, y)
    BY <1>1, SiblingIsPlaced
  <1> HIDE DEF s
  <1>4. PICK i \in 1 .. Len(s) : s[i] = y /\ Tree!Position(s, y) = i
    BY <1>3
  <1>5. Spliced(Children(dom, n), s, i, x, l)
    BY <1>1, <1>2, <1>4, NewNodeIsLoose, InsertedBeforeSplices DEF s
  <1>6. i \in 1 .. Len(s) + 1
    BY <1>2
  <1> HIDE DEF l
  <1>7. IInv' /\ Tree!NewChild(n, k, x, i)
    BY <1>1, <1>5, <1>6, NewNodeStep DEF s
  <1>8. QED
    BY <1>3, <1>4, <1>7 DEF Tree!InsertChildBefore, ChildrenOf, s

(* insert_child_after *)
LEMMA InsertChildAfterStep ==
  ASSUME IInv, NEW n \in Nodes, NEW k \in NewKinds, NEW x \in Nodes, NEW y \in Nodes,
         InsertChildAfter(n, k, x, y)
  PROVE  IInv' /\ Tree!InsertChildAfter(n, k, x, y)
  <1> DEFINE s == ChildrenOf(dom)[n]
             l == InsertedAfter(Children(dom, n), x, y)
  <1>1. /\ MayHold(n, k, x) /\ dom' = NewNode(dom, n, k, x, l)
        /\ dom.parent[y] = n
    BY DEF InsertChildAfter
  <1>2. s \in Seq(Nodes) /\ Children(dom, n) \in Lists /\ Linked(Children(dom, n), s)
    BY IInvUnfolds
  <1>3. /\ \E i \in 1 .. Len(s) : s[i] = y /\ Tree!Position(s, y) = i
        /\ Tree!Contains(s, y)
    BY <1>1, SiblingIsPlaced
  <1> HIDE DEF s
  <1>4. PICK i \in 1 .. Len(s) : s[i] = y /\ Tree!Position(s, y) = i
    BY <1>3
  <1>5. Spliced(Children(dom, n), s, i + 1, x, l)
    BY <1>1, <1>2, <1>4, NewNodeIsLoose, InsertedAfterSplices DEF s
  <1>6. i + 1 \in 1 .. Len(s) + 1
    BY <1>2
  <1> HIDE DEF l
  <1>7. IInv' /\ Tree!NewChild(n, k, x, i + 1)
    BY <1>1, <1>5, <1>6, NewNodeStep DEF s
  <1>8. QED
    BY <1>3, <1>4, <1>7 DEF Tree!InsertChildAfter, ChildrenOf, s

(* An attribute put at its place in the list is put there in the tree. *)
LEMMA NewAttributeStep ==
  ASSUME IInv, NEW n \in Nodes, NEW s \in Text, NEW a \in Attrs, MayHave(n, a),
         NEW i \in 1 .. Len(AttributesOf(dom)[n]) + 1,
         NEW l, Spliced(Attributes(dom, n), AttributesOf(dom)[n], i, a, l),
         dom' = NewAttribute(dom, n, s, a, l)
  PROVE  IInv' /\ Tree!NewAttribute(n, s, a, i)
  <1> DEFINE kids == ChildrenOf(dom)
             atts == AttributesOf(dom)
             atts2 == [atts EXCEPT ![n] = InsertAt(atts[n], i, a)]
  <1>1. dom.kind[n] # Nil /\ a \notin dom.owned
    BY NodesAssumption DEF MayHave, HasAttributes, Kinds
  <1>2. Standing(dom', kids, atts2)
    <2>1. Standing(dom, kids, atts) /\ i \in 1 .. Len(atts[n]) + 1
          /\ Spliced(Attributes(dom, n), atts[n], i, a, l)
      BY IInvUnfolds
    <2> HIDE DEF kids, atts
    <2>2. Standing(NewAttribute(dom, n, s, a, l), kids, [atts EXCEPT ![n] = InsertAt(atts[n], i, a)])
      BY <1>1, <2>1, NewAttributeStands
    <2>3. QED
      BY <2>2
  <1> HIDE DEF atts2
  <1>3. IInv' /\ ChildrenOf(dom') = kids /\ AttributesOf(dom') = atts2
    BY <1>2, StandsNext
  <1>4. AttributeAdded(dom, n, s, a, l, dom')
    <2>1. l \in Lists /\ dom \in Documents /\ l.head \in Attrs \cup {Nil}
      <3>1. l \in Lists /\ l.head = IF i = 1 THEN a ELSE dom.attr[n]
        BY DEF Spliced, Attributes
      <3>2. QED
        BY <3>1, IInvUnfolds DEF Documents
    <2>2. AttributeAdded(dom, n, s, a, l, NewAttribute(dom, n, s, a, l))
      BY <1>1, <2>1, NewAttributeFields
    <2>3. QED
      BY <2>2
  <1>5. /\ dom'.kind = dom.kind
        /\ dom'.name = [dom.name EXCEPT ![a] = s]
        /\ dom'.value = dom.value
    BY <1>4 DEF AttributeAdded
  <1>6. /\ ChildrenOf(dom') = ChildrenOf(dom)
        /\ AttributesOf(dom')
             = [AttributesOf(dom) EXCEPT ![n] = InsertAt(AttributesOf(dom)[n], i, a)]
    BY <1>3 DEF atts2
  <1>7. Tree!HasAttributes(dom.kind[n])
    BY DEF MayHave, HasAttributes, Tree!HasAttributes
  <1>8. ~Tree!IsAttribute(a)
    <2>1. ASSUME NEW m \in Nodes, Tree!Contains(AttributesOf(dom)[m], a) PROVE FALSE
      <3>1. a \in ToSet(AttributesOf(dom)[m])
        BY <2>1 DEF Tree!Contains, ToSet
      <3>2. QED
        BY <1>1, <3>1, IInvUnfolds DEF Held
    <2>2. QED
      BY <2>1 DEF Tree!IsAttribute, AttributesOf
  <1>9. Tree!NewAttribute(n, s, a, i)
    <2>1. Tree!InsertAt(AttributesOf(dom)[n], i, a) = InsertAt(AttributesOf(dom)[n], i, a)
      BY DEF Tree!InsertAt, InsertAt
    <2>2. QED
      BY <1>5, <1>6, <1>7, <1>8, <2>1 DEF Tree!NewAttribute, ChildrenOf, AttributesOf
  <1>10. QED
    BY <1>3, <1>9

(* An attribute that does not exist yet can be put in any list of them. *)
LEMMA NewAttributeIsLoose ==
  ASSUME IInv, NEW n \in Nodes, NEW a \in Attrs, MayHave(n, a)
  PROVE  /\ a \in Items /\ a \notin ToSet(AttributesOf(dom)[n])
         /\ Attributes(dom, n).next[a] = Nil
  <1>1. a \notin dom.owned
    BY DEF MayHave
  <1>2. dom.next[a] = Nil /\ a \notin ToSet(AttributesOf(dom)[n])
    BY <1>1, IInvUnfolds DEF Loose, Held
  <1>3. QED
    BY <1>2 DEF Items, Attributes

(* append_attribute *)
LEMMA AppendAttributeStep ==
  ASSUME IInv, NEW n \in Nodes, NEW s \in Text, NEW a \in Attrs, AppendAttribute(n, s, a)
  PROVE  IInv' /\ Tree!AppendAttribute(n, s, a)
  <1> DEFINE t == AttributesOf(dom)[n]
             l == Appended(Attributes(dom, n), a)
  <1>1. MayHave(n, a) /\ dom' = NewAttribute(dom, n, s, a, l)
    BY DEF AppendAttribute
  <1>2. t \in Seq(Attrs) /\ Attributes(dom, n) \in Lists /\ Linked(Attributes(dom, n), t)
    BY IInvUnfolds
  <1> HIDE DEF t
  <1>3. Spliced(Attributes(dom, n), t, Len(t) + 1, a, l)
    BY <1>1, <1>2, NewAttributeIsLoose, AppendedSplices DEF t
  <1>4. Len(t) + 1 \in 1 .. Len(t) + 1
    BY <1>2
  <1> HIDE DEF l
  <1>5. IInv' /\ Tree!NewAttribute(n, s, a, Len(t) + 1)
    BY <1>1, <1>3, <1>4, NewAttributeStep DEF t
  <1>6. QED
    BY <1>5 DEF Tree!AppendAttribute, AttributesOf, t

(* prepend_attribute *)
LEMMA PrependAttributeStep ==
  ASSUME IInv, NEW n \in Nodes, NEW s \in Text, NEW a \in Attrs, PrependAttribute(n, s, a)
  PROVE  IInv' /\ Tree!PrependAttribute(n, s, a)
  <1> DEFINE t == AttributesOf(dom)[n]
             l == Prepended(Attributes(dom, n), a)
  <1>1. MayHave(n, a) /\ dom' = NewAttribute(dom, n, s, a, l)
    BY DEF PrependAttribute
  <1>2. t \in Seq(Attrs) /\ Attributes(dom, n) \in Lists /\ Linked(Attributes(dom, n), t)
    BY IInvUnfolds
  <1> HIDE DEF t
  <1>3. Spliced(Attributes(dom, n), t, 1, a, l)
    BY <1>1, <1>2, NewAttributeIsLoose, PrependedSplices DEF t
  <1>4. 1 \in 1 .. Len(t) + 1
    BY <1>2
  <1> HIDE DEF l
  <1>5. IInv' /\ Tree!NewAttribute(n, s, a, 1)
    BY <1>1, <1>3, <1>4, NewAttributeStep DEF t
  <1>6. QED
    BY <1>5 DEF Tree!PrependAttribute

(* An attribute found in the list of a node is at one place there. *)
LEMMA AttributeIsPlaced ==
  ASSUME IInv, NEW n \in Nodes, NEW a \in Attrs, Belongs(n, a)
  PROVE  /\ \E i \in 1 .. Len(AttributesOf(dom)[n]) :
              AttributesOf(dom)[n][i] = a /\ Tree!Position(AttributesOf(dom)[n], a) = i
         /\ Tree!Contains(AttributesOf(dom)[n], a)
  <1> DEFINE s == AttributesOf(dom)[n]
  <1>1. s \in Seq(Attrs) /\ Linked(Attributes(dom, n), s) /\ a \in ToSet(s)
    BY IInvUnfolds, BelongsToList
  <1> HIDE DEF s
  <1>2. \E i \in 1 .. Len(s) : s[i] = a /\ Tree!Position(s, a) = i
    BY <1>1, OnePosition
  <1>3. Tree!Contains(s, a)
    BY <1>1, <1>2 DEF Tree!Contains
  <1>4. QED
    BY <1>2, <1>3 DEF s

(* insert_attribute_before *)
LEMMA InsertAttributeBeforeStep ==
  ASSUME IInv, NEW n \in Nodes, NEW s \in Text, NEW a \in Attrs, NEW b \in Attrs,
         InsertAttributeBefore(n, s, a, b)
  PROVE  IInv' /\ Tree!InsertAttributeBefore(n, s, a, b)
  <1> DEFINE t == AttributesOf(dom)[n]
             l == InsertedBefore(Attributes(dom, n), a, b)
  <1>1. /\ MayHave(n, a) /\ dom' = NewAttribute(dom, n, s, a, l)
        /\ Belongs(n, b)
    BY DEF InsertAttributeBefore
  <1>2. t \in Seq(Attrs) /\ Attributes(dom, n) \in Lists /\ Linked(Attributes(dom, n), t)
    BY IInvUnfolds
  <1>3. /\ \E i \in 1 .. Len(t) : t[i] = b /\ Tree!Position(t, b) = i
        /\ Tree!Contains(t, b)
    BY <1>1, AttributeIsPlaced
  <1> HIDE DEF t
  <1>4. PICK i \in 1 .. Len(t) : t[i] = b /\ Tree!Position(t, b) = i
    BY <1>3
  <1>5. Spliced(Attributes(dom, n), t, i, a, l)
    BY <1>1, <1>2, <1>4, NewAttributeIsLoose, InsertedBeforeSplices DEF t
  <1>6. i \in 1 .. Len(t) + 1
    BY <1>2
  <1> HIDE DEF l
  <1>7. IInv' /\ Tree!NewAttribute(n, s, a, i)
    BY <1>1, <1>5, <1>6, NewAttributeStep DEF t
  <1>8. QED
    BY <1>3, <1>4, <1>7 DEF Tree!InsertAttributeBefore, AttributesOf, t

(* insert_attribute_after *)
LEMMA InsertAttributeAfterStep ==
  ASSUME IInv, NEW n \in Nodes, NEW s \in Text, NEW a \in Attrs, NEW b \in Attrs,
         InsertAttributeAfter(n, s, a, b)
  PROVE  IInv' /\ Tree!InsertAttributeAfter(n, s, a, b)
  <1> DEFINE t == AttributesOf(dom)[n]
             l == InsertedAfter(Attributes(dom, n), a, b)
  <1>1. /\ MayHave(n, a) /\ dom' = NewAttribute(dom, n, s, a, l)
        /\ Belongs(n, b)
    BY DEF InsertAttributeAfter
  <1>2. t \in Seq(Attrs) /\ Attributes(dom, n) \in Lists /\ Linked(Attributes(dom, n), t)
    BY IInvUnfolds
  <1>3. /\ \E i \in 1 .. Len(t) : t[i] = b /\ Tree!Position(t, b) = i
        /\ Tree!Contains(t, b)
    BY <1>1, AttributeIsPlaced
  <1> HIDE DEF t
  <1>4. PICK i \in 1 .. Len(t) : t[i] = b /\ Tree!Position(t, b) = i
    BY <1>3
  <1>5. Spliced(Attributes(dom, n), t, i + 1, a, l)
    BY <1>1, <1>2, <1>4, NewAttributeIsLoose, InsertedAfterSplices DEF t
  <1>6. i + 1 \in 1 .. Len(t) + 1
    BY <1>2
  <1> HIDE DEF l
  <1>7. IInv' /\ Tree!NewAttribute(n, s, a, i + 1)
    BY <1>1, <1>5, <1>6, NewAttributeStep DEF t
  <1>8. QED
    BY <1>3, <1>4, <1>7 DEF Tree!InsertAttributeAfter, AttributesOf, t

(* What is destroyed has no kind, name or value; the rest keeps its own. *)
LEMMA DestroyedTexts ==
  ASSUME NEW c, NEW gone
  PROVE  /\ Destroyed(c, gone).kind = [m \in Nodes |-> IF m \in gone THEN Nil ELSE c.kind[m]]
         /\ Destroyed(c, gone).name = [j \in Items |-> IF j \in gone THEN Nil ELSE c.name[j]]
         /\ Destroyed(c, gone).value = [j \in Items |-> IF j \in gone THEN Nil ELSE c.value[j]]
  BY DEF Destroyed

(* remove_attribute *)
LEMMA RemoveAttributeStep ==
  ASSUME IInv, NEW n \in Nodes, NEW a \in Attrs, RemoveAttribute(n, a)
  PROVE  IInv' /\ Tree!RemoveAttribute(n, a)
  <1> DEFINE kids == ChildrenOf(dom)
             atts == AttributesOf(dom)
             l == Unlinked(Attributes(dom, n), a)
             c == WithAttributes(dom, n, l)
  <1>1. Belongs(n, a) /\ dom' = Destroyed(c, {a})
    BY DEF RemoveAttribute
  <1>2. /\ Standing(dom, kids, atts) /\ dom \in Documents /\ atts \in [Nodes -> Seq(Attrs)]
        /\ Attributes(dom, n) \in Lists /\ Linked(Attributes(dom, n), atts[n])
    BY IInvUnfolds
  <1>3. /\ \E i \in 1 .. Len(atts[n]) : atts[n][i] = a /\ Tree!Position(atts[n], a) = i
        /\ Tree!Contains(atts[n], a)
    BY <1>1, AttributeIsPlaced
  <1> HIDE DEF kids, atts
  <1>4. PICK i \in 1 .. Len(atts[n]) : atts[n][i] = a /\ Tree!Position(atts[n], a) = i
    BY <1>3
  <1> DEFINE atts2 == [atts EXCEPT ![n] = RemoveAt(atts[n], i)]
  <1>5. Cut(Attributes(dom, n), atts[n], i, l)
    BY <1>2, <1>4, UnlinkedCuts
  <1> HIDE DEF l
  <1>6. Standing(dom', kids, atts2)
    <2>1. a = atts[n][i]
      BY <1>4
    <2>2. Standing(Destroyed(WithAttributes(dom, n, l), {a}), kids,
                   [atts EXCEPT ![n] = RemoveAt(atts[n], i)])
      BY <1>2, <1>5, <2>1, RemovedAttributeStands
    <2>3. QED
      BY <1>1, <2>2
  <1> HIDE DEF atts2
  <1>7. IInv' /\ ChildrenOf(dom') = kids /\ AttributesOf(dom') = atts2
    BY <1>6, StandsNext
  <1>8. AttributesLaid(dom, n, l, c)
    <2>1. l \in Lists /\ l.head \in Attrs \cup {Nil}
      <3>1. l \in Lists /\ l.head = IF i = 1 THEN Attributes(dom, n).next[atts[n][i]]
                                   ELSE Attributes(dom, n).head
        BY <1>5 DEF Cut
      <3>2. Attributes(dom, n).next[atts[n][i]] = IF i = Len(atts[n]) THEN Nil ELSE atts[n][i + 1]
        BY <1>2 DEF Linked
      <3>3. i # Len(atts[n]) => atts[n][i + 1] \in Attrs
        BY <1>2
      <3>4. Attributes(dom, n).head \in Attrs \cup {Nil}
        BY <1>2 DEF Attributes, Documents
      <3>5. QED
        BY <3>1, <3>2, <3>3, <3>4
    <2>2. QED
      BY <1>2, <2>1, WithAttributesFields
  <1> HIDE DEF c
  <1>9. /\ dom'.kind = [m \in Nodes |-> IF m \in {a} THEN Nil ELSE dom.kind[m]]
        /\ dom'.name = [j \in Items |-> IF j \in {a} THEN Nil ELSE dom.name[j]]
        /\ dom'.value = [j \in Items |-> IF j \in {a} THEN Nil ELSE dom.value[j]]
    <2>1. c.kind = dom.kind /\ c.name = dom.name /\ c.value = dom.value
      BY <1>8 DEF AttributesLaid
    <2>2. QED
      BY <1>1, <2>1, DestroyedTexts
  <1>10. /\ dom.kind \in [Nodes -> Kinds \cup {Nil}]
         /\ dom.name \in [Items -> Strings \cup {"xml", Nil}]
         /\ dom.value \in [Items -> Strings \cup {Nil}]
         /\ a \in Items /\ a \notin Nodes
    BY <1>2, Separate DEF Documents, Items
  <1>11. /\ dom'.kind = dom.kind
         /\ dom'.name = [dom.name EXCEPT ![a] = Nil]
         /\ dom'.value = [dom.value EXCEPT ![a] = Nil]
    BY <1>9, <1>10
  <1>12. Tree!Without(atts[n], a) = RemoveAt(atts[n], i)
    BY <1>4 DEF Tree!Without, Tree!RemoveAt, RemoveAt
  <1>13. AttributesOf(dom') = [AttributesOf(dom) EXCEPT ![n] = Tree!Without(AttributesOf(dom)[n], a)]
    BY <1>7, <1>12 DEF atts2, atts
  <1>14. ChildrenOf(dom') = ChildrenOf(dom) /\ Tree!Contains(AttributesOf(dom)[n], a)
    BY <1>3, <1>7 DEF kids, atts
  <1>15. Tree!RemoveAttribute(n, a)
    BY <1>11, <1>13, <1>14 DEF Tree!RemoveAttribute, ChildrenOf, AttributesOf
  <1>16. QED
    BY <1>7, <1>15

(* What goes with x is the same whether x is still in its list or not: x   *)
(* is in no list below itself.                                             *)
LEMMA ReachWithout ==
  ASSUME NEW kids \in [Nodes -> Seq(Nodes)], NEW kids1 \in [Nodes -> Seq(Nodes)],
         NEW x \in Nodes,
         \A m, y \in Nodes : y # x => (y \in ToSet(kids1[m]) <=> y \in ToSet(kids[m])),
         \A m \in Nodes : x \notin ToSet(kids1[m])
  PROVE  Reach(kids1, x) = Reach(kids, x)
  <1>1. \A m \in Nodes : ToSet(kids[m]) \subseteq Nodes /\ ToSet(kids1[m]) \subseteq Nodes
    BY MembersOf
  <1>2. Reach(kids1, x) \subseteq Reach(kids, x)
    <2> DEFINE S == Reach(kids, x)
    <2>1. x \in S /\ Closed(kids, S) /\ S \in SUBSET Nodes
      BY ReachIsClosed DEF Reach
    <2> HIDE DEF S
    <2>2. Closed(kids1, S)
      BY <1>1, <2>1 DEF Closed
    <2>3. Reach(kids1, x) \subseteq S
      BY <2>1, <2>2, ReachIsLeast
    <2>4. QED
      BY <2>3 DEF S
  <1>3. Reach(kids, x) \subseteq Reach(kids1, x)
    <2> DEFINE S == Reach(kids1, x)
    <2>1. x \in S /\ Closed(kids1, S) /\ S \in SUBSET Nodes
      BY ReachIsClosed DEF Reach
    <2> HIDE DEF S
    <2>2. Closed(kids, S)
      BY <1>1, <2>1 DEF Closed
    <2>3. Reach(kids, x) \subseteq S
      BY <2>1, <2>2, ReachIsLeast
    <2>4. QED
      BY <2>3 DEF S
  <1>4. QED
    BY <1>2, <1>3

(* The subtree of the abstract tree is what is reached. *)
LEMMA SubtreeReached ==
  ASSUME IInv, NEW x \in Nodes
  PROVE  Tree!Subtree(x) = Reach(ChildrenOf(dom), x)
  <1> DEFINE kids == ChildrenOf(dom)
             own == [n \in Nodes |-> {n}]
             Belows(f) == f = [n \in Nodes |-> {n} \cup
                               UNION {f[c] : c \in Tree!ToSet([m \in Nodes |-> From(dom, dom.first[m])][n])}]
             g == CHOOSE f : Belows(f)
  <1>1. Tree!Subtree(x) = g[x]
    BY Zenon DEF Tree!Subtree
  <1>2. kids \in [Nodes -> Seq(Nodes)] /\ Founded(kids)
    BY IInvUnfolds DEF Standing
  <1>3. \A n \in Nodes : own[n] = {n}
    OBVIOUS
  <1> HIDE DEF own
  <1>4. \A f : Belows(f) <=> Gathers(kids, own, f)
    <2> SUFFICES ASSUME NEW f PROVE Belows(f) <=> Gathers(kids, own, f)
      OBVIOUS
    <2>1. ASSUME NEW n \in Nodes
          PROVE  {n} \cup UNION {f[c] : c \in Tree!ToSet([m \in Nodes |-> From(dom, dom.first[m])][n])}
                 = own[n] \cup UNION {f[c] : c \in ToSet(kids[n])}
      BY <1>3 DEF Tree!ToSet, ToSet, ChildrenOf
    <2> HIDE DEF kids
    <2>2. [n \in Nodes |-> {n} \cup UNION {f[c] : c \in Tree!ToSet([m \in Nodes |-> From(dom, dom.first[m])][n])}]
          = [n \in Nodes |-> own[n] \cup UNION {f[c] : c \in ToSet(kids[n])}]
      BY <2>1
    <2>3. QED
      BY <2>2, Zenon DEF Gathers
  <1> HIDE DEF kids, Belows
  <1>5. PICK f : Gathers(kids, own, f)
    BY <1>2, SomeGathers
  <1>6. Belows(g)
    BY <1>4, <1>5, Zenon
  <1> HIDE DEF g
  <1>7. g[x] = Gathered(kids, own, x)
    BY <1>2, <1>4, <1>6, GathersReached
  <1>8. Gathered(kids, own, x) = Reach(kids, x)
    <2>1. Reach(kids, x) \subseteq Nodes
      BY DEF Reach
    <2>2. QED
      BY <1>3, <2>1 DEF Gathered
  <1>9. QED
    BY <1>1, <1>7, <1>8 DEF kids

(* An attribute that exists is one of the tree. *)
LEMMA OwnedIsAttribute ==
  ASSUME IInv, NEW a \in dom.owned, a \in Attrs
  PROVE  Tree!IsAttribute(a)
  <1>1. PICK n \in Nodes : a \in ToSet(AttributesOf(dom)[n])
    BY IInvUnfolds DEF Held
  <1>2. Tree!Contains(AttributesOf(dom)[n], a)
    <2>1. AttributesOf(dom)[n] \in Seq(Attrs)
      BY IInvUnfolds
    <2>2. \E i \in 1 .. Len(AttributesOf(dom)[n]) : AttributesOf(dom)[n][i] = a
      BY <1>1, <2>1, MembersOf
    <2>3. QED
      BY <2>2 DEF Tree!Contains
  <1>3. QED
    BY <1>2 DEF Tree!IsAttribute, AttributesOf

(* remove_child: the node goes with all below it, and no more. *)
LEMMA RemoveChildStep ==
  ASSUME IInv, NEW n \in Nodes, NEW x \in Nodes, RemoveChild(n, x)
  PROVE  IInv' /\ Tree!RemoveChild(n, x)
  <1> DEFINE kids == ChildrenOf(dom)
             atts == AttributesOf(dom)
             l == Unlinked(Children(dom, n), x)
             c == WithChildren(dom, n, l)
             gone == Doomed(c, x)
             R == Reach(kids, x)
  <1>1. dom.parent[x] = n /\ dom' = Destroyed(c, gone)
    BY DEF RemoveChild
  <1>2. /\ Standing(dom, kids, atts)
        /\ kids \in [Nodes -> Seq(Nodes)] /\ atts \in [Nodes -> Seq(Attrs)]
        /\ Children(dom, n) \in Lists /\ Linked(Children(dom, n), kids[n])
    BY IInvUnfolds
  <1>3. /\ \E i \in 1 .. Len(kids[n]) : kids[n][i] = x /\ Tree!Position(kids[n], x) = i
        /\ Tree!Contains(kids[n], x)
    BY <1>1, SiblingIsPlaced
  <1>4. Tree!Subtree(x) = R
    BY SubtreeReached
  <1> HIDE DEF kids, atts
  <1>5. PICK i \in 1 .. Len(kids[n]) : kids[n][i] = x /\ Tree!Position(kids[n], x) = i
    BY <1>3
  <1> DEFINE kids1 == KidsWithout(kids, n, i)
             kids2 == Pruned(kids1, R)
             atts2 == Pruned(atts, R)
  <1>6. Cut(Children(dom, n), kids[n], i, l)
    BY <1>2, <1>5, UnlinkedCuts
  <1> HIDE DEF l
  <1>7. x = kids[n][i]
    BY <1>5
  <1>8. /\ ChildrenLaid(dom, n, l, c)
        /\ kids1 \in [Nodes -> Seq(Nodes)]
        /\ \A m \in Nodes : \A y \in Nodes :
             y \in ToSet(kids1[m]) <=> y # x /\ dom.parent[y] = m
    <2> HIDE DEF kids1, c
    <2>1. c = WithChildren(dom, n, l) /\ kids1 = KidsWithout(kids, n, i)
      BY DEF c, kids1
    <2>2. Standing(dom, kids, atts)
      BY <1>2
    <2>3. QED
      BY <1>6, <1>7, <2>1, <2>2, UnlinkedChildIsOut
  <1>9. /\ gone = WithItems(kids1, atts, x)
        /\ Standing(Destroyed(c, gone), Pruned(kids1, Reach(kids1, x)),
                    Pruned(atts, Reach(kids1, x)))
    <2> HIDE DEF kids1, c
    <2>1. c = WithChildren(dom, n, l) /\ kids1 = KidsWithout(kids, n, i)
      BY DEF c, kids1
    <2>2. Standing(dom, kids, atts)
      BY <1>2
    <2>3. QED
      BY <1>6, <1>7, <2>1, <2>2, RemovedChildStands
  <1>10. Reach(kids1, x) = R
    <2>1. \A m, y \in Nodes : y \in ToSet(kids[m]) <=> dom.parent[y] = m
      BY <1>2 DEF Standing, Hung
    <2> HIDE DEF kids1
    <2>2. \A m, y \in Nodes : y # x => (y \in ToSet(kids1[m]) <=> y \in ToSet(kids[m]))
      BY <1>8, <2>1
    <2>3. \A m \in Nodes : x \notin ToSet(kids1[m])
      BY <1>8
    <2>4. kids \in [Nodes -> Seq(Nodes)] /\ kids1 \in [Nodes -> Seq(Nodes)]
      BY <1>2, <1>8
    <2>5. QED
      BY <2>2, <2>3, <2>4, ReachWithout
  <1> HIDE DEF kids1, c, gone
  <1>11. Standing(dom', kids2, atts2)
    BY <1>1, <1>9, <1>10
  <1> HIDE DEF kids2, atts2
  <1>12. IInv' /\ ChildrenOf(dom') = kids2 /\ AttributesOf(dom') = atts2
    BY <1>11, StandsNext
  <1>13. gone = R \cup UNION {ToSet(atts[m]) : m \in R}
    BY <1>9, <1>10 DEF WithItems
  <1>14. R \subseteq Nodes
    BY DEF Reach
  <1> HIDE DEF R
  <1>15. \A m \in Nodes : m \in gone <=> m \in R
    <2>1. \A m \in Nodes : ToSet(atts[m]) \subseteq Attrs
      BY <1>2, MembersOf
    <2>2. QED
      BY <1>13, <1>14, <2>1, Separate
  <1>16. /\ dom'.kind = [m \in Nodes |-> IF m \in R THEN Nil ELSE dom.kind[m]]
         /\ dom'.name = [j \in Nodes \cup Attrs |-> IF j \in gone THEN Nil ELSE dom.name[j]]
         /\ dom'.value = [j \in Nodes \cup Attrs |-> IF j \in gone THEN Nil ELSE dom.value[j]]
    <2>1. c.kind = dom.kind /\ c.name = dom.name /\ c.value = dom.value
      BY <1>8 DEF ChildrenLaid
    <2>2. /\ dom'.kind = [m \in Nodes |-> IF m \in gone THEN Nil ELSE dom.kind[m]]
          /\ dom'.name = [j \in Items |-> IF j \in gone THEN Nil ELSE dom.name[j]]
          /\ dom'.value = [j \in Items |-> IF j \in gone THEN Nil ELSE dom.value[j]]
      BY <1>1, <2>1, DestroyedTexts
    <2>3. QED
      BY <1>15, <2>2 DEF Items
  <1>17. kids2 = [m \in Nodes |-> IF m \in R THEN <<>>
                                ELSE IF m = n THEN Tree!Without(kids[n], x) ELSE kids[m]]
    <2>1. Tree!Without(kids[n], x) = RemoveAt(kids[n], i)
      BY <1>5 DEF Tree!Without, Tree!RemoveAt, RemoveAt
    <2>2. \A m \in Nodes : kids1[m] = IF m = n THEN RemoveAt(kids[n], i) ELSE kids[m]
      BY <1>2 DEF kids1, KidsWithout
    <2>3. QED
      BY <2>1, <2>2 DEF kids2, Pruned
  <1>18. Tree!RemoveChild(n, x)
    <2>1. \A m \in Nodes : From(dom, dom.first[m]) = kids[m] /\ From(dom, dom.attr[m]) = atts[m]
      BY DEF ChildrenOf, AttributesOf, kids, atts
    <2>2. [m \in Nodes |-> From(dom, dom.first[m])]' = kids2
          /\ [m \in Nodes |-> From(dom, dom.attr[m])]' = atts2
      BY <1>12 DEF ChildrenOf, AttributesOf
    <2> DEFINE sub == Tree!Subtree(x)
               cs == [m \in Nodes |-> From(dom, dom.first[m])]
               as == [m \in Nodes |-> From(dom, dom.attr[m])]
               lost == sub \cup UNION {Tree!ToSet(as[m]) : m \in sub}
    <2>3. sub = R /\ \A m \in Nodes : cs[m] = kids[m] /\ as[m] = atts[m]
      BY <1>4, <2>1
    <2> HIDE DEF sub, cs, as
    <2>4. lost = gone
      <3>1. \A m \in R : Tree!ToSet(as[m]) = ToSet(atts[m])
        BY <1>14, <2>3 DEF Tree!ToSet, ToSet
      <3>2. QED
        BY <1>13, <2>3, <3>1
    <2> HIDE DEF lost
    <2>5. atts2 = [m \in Nodes |-> IF m \in sub THEN <<>> ELSE as[m]]
      BY <2>3 DEF atts2, Pruned
    <2>6. kids2 = [m \in Nodes |-> IF m \in sub THEN <<>>
                                 ELSE IF m = n THEN Tree!Without(cs[n], x) ELSE cs[m]]
      BY <1>17, <2>3
    <2>7. Tree!Contains(cs[n], x)
      BY <1>3, <2>3
    <2>8. /\ dom'.kind = [m \in Nodes |-> IF m \in sub THEN Nil ELSE dom.kind[m]]
          /\ dom'.name = [j \in Nodes \cup Attrs |-> IF j \in lost THEN Nil ELSE dom.name[j]]
          /\ dom'.value = [j \in Nodes \cup Attrs |-> IF j \in lost THEN Nil ELSE dom.value[j]]
      BY <1>16, <2>3, <2>4
    <2>9. /\ [m \in Nodes |-> From(dom, dom.first[m])]'
               = [m \in Nodes |-> IF m \in sub THEN <<>>
                                ELSE IF m = n THEN Tree!Without(cs[n], x) ELSE cs[m]]
          /\ [m \in Nodes |-> From(dom, dom.attr[m])]'
               = [m \in Nodes |-> IF m \in sub THEN <<>> ELSE as[m]]
      BY <2>2, <2>5, <2>6
    <2>10. QED
      BY <2>7, <2>8, <2>9, Zenon DEF Tree!RemoveChild, sub, cs, as, lost
  <1>19. QED
    BY <1>12, <1>18

(* Names and values are not links. *)
LEMMA TextsAreNoLinks ==
  ASSUME NEW d, NEW e, NEW kids, NEW atts, Standing(d, kids, atts), e \in Documents,
         e.kind = d.kind, e.owned = d.owned, e.parent = d.parent, e.first = d.first,
         e.attr = d.attr, e.next = d.next, e.prev = d.prev
  PROVE  Standing(e, kids, atts)
  <1>1. Chained(e, kids, atts)
    BY DEF Standing, Chained, Children, Attributes
  <1>2. Hung(e, kids) /\ Held(e, atts) /\ Loose(e)
    BY DEF Standing, Hung, Held, Loose
  <1>3. QED
    BY <1>1, <1>2 DEF Standing

(* set_name *)
LEMMA SetNameStep ==
  ASSUME IInv, NEW i \in Items, NEW s \in Text, SetName(i, s)
  PROVE  IInv' /\ Tree!SetName(i, s)
  <1>1. Standing(dom, ChildrenOf(dom), AttributesOf(dom)) /\ dom \in Documents
    BY IInvUnfolds
  <1>2. dom' = [dom EXCEPT !.name[i] = s]
    BY DEF SetName
  <1>3. /\ dom' \in Documents
        /\ dom'.kind = dom.kind /\ dom'.owned = dom.owned /\ dom'.parent = dom.parent
        /\ dom'.first = dom.first /\ dom'.attr = dom.attr
        /\ dom'.next = dom.next /\ dom'.prev = dom.prev
        /\ dom'.name = [dom.name EXCEPT ![i] = s]
        /\ dom'.value = dom.value
    BY <1>1, <1>2 DEF Documents, Text
  <1>4. Standing(dom', ChildrenOf(dom), AttributesOf(dom))
    BY <1>1, <1>3, TextsAreNoLinks
  <1>5. IInv' /\ ChildrenOf(dom') = ChildrenOf(dom) /\ AttributesOf(dom') = AttributesOf(dom)
    BY <1>4, StandsNext
  <1>6. IF i \in Nodes THEN Tree!HasName(dom.kind[i]) ELSE Tree!IsAttribute(i)
    <2>1. CASE i \in Nodes
      BY <2>1 DEF SetName, HasName, Tree!HasName
    <2>2. CASE i \notin Nodes
      <3>1. i \in dom.owned /\ i \in Attrs
        BY <2>2 DEF SetName, Items
      <3>2. QED
        BY <2>2, <3>1, OwnedIsAttribute
    <2>3. QED
      BY <2>1, <2>2
  <1>7. Tree!SetName(i, s)
    BY <1>3, <1>5, <1>6 DEF Tree!SetName, ChildrenOf, AttributesOf
  <1>8. QED
    BY <1>5, <1>7

(* set_value *)
LEMMA SetValueStep ==
  ASSUME IInv, NEW i \in Items, NEW s \in Text, SetValue(i, s)
  PROVE  IInv' /\ Tree!SetValue(i, s)
  <1>1. Standing(dom, ChildrenOf(dom), AttributesOf(dom)) /\ dom \in Documents
    BY IInvUnfolds
  <1>2. dom' = [dom EXCEPT !.value[i] = s]
    BY DEF SetValue
  <1>3. /\ dom' \in Documents
        /\ dom'.kind = dom.kind /\ dom'.owned = dom.owned /\ dom'.parent = dom.parent
        /\ dom'.first = dom.first /\ dom'.attr = dom.attr
        /\ dom'.next = dom.next /\ dom'.prev = dom.prev
        /\ dom'.value = [dom.value EXCEPT ![i] = s]
        /\ dom'.name = dom.name
    BY <1>1, <1>2 DEF Documents, Text
  <1>4. Standing(dom', ChildrenOf(dom), AttributesOf(dom))
    BY <1>1, <1>3, TextsAreNoLinks
  <1>5. IInv' /\ ChildrenOf(dom') = ChildrenOf(dom) /\ AttributesOf(dom') = AttributesOf(dom)
    BY <1>4, StandsNext
  <1>6. IF i \in Nodes THEN Tree!HasValue(dom.kind[i]) ELSE Tree!IsAttribute(i)
    <2>1. CASE i \in Nodes
      BY <2>1 DEF SetValue, HasValue, Tree!HasValue
    <2>2. CASE i \notin Nodes
      <3>1. i \in dom.owned /\ i \in Attrs
        BY <2>2 DEF SetValue, Items
      <3>2. QED
        BY <2>2, <3>1, OwnedIsAttribute
    <2>3. QED
      BY <2>1, <2>2
  <1>7. Tree!SetValue(i, s)
    BY <1>3, <1>5, <1>6 DEF Tree!SetValue, ChildrenOf, AttributesOf
  <1>8. QED
    BY <1>5, <1>7

(* The empty document stands. *)
LEMMA EmptyStands ==
  Standing(Empty, [n \in Nodes |-> <<>>], [n \in Nodes |-> <<>>])
  <1> DEFINE none == [n \in Nodes |-> <<>>]
  <1>1. Empty \in Documents
    BY NodesAssumption DEF Empty, Documents, Items, Kinds
  <1>2. /\ none \in [Nodes -> Seq(Nodes)] /\ none \in [Nodes -> Seq(Attrs)]
        /\ \A n \in Nodes : none[n] = <<>> /\ ToSet(none[n]) = {}
    BY DEF ToSet
  <1> HIDE DEF none
  <1>3. /\ \A n \in Nodes : /\ Empty.first[n] = Nil /\ Empty.attr[n] = Nil
                           /\ Empty.parent[n] = Nil
        /\ \A i \in Items : Empty.next[i] = Nil
        /\ Empty.owned = {}
    BY DEF Empty
  <1>4. Chained(Empty, none, none)
    BY <1>2, <1>3 DEF Chained, Linked, Children, Attributes
  <1>5. Hung(Empty, none) /\ Held(Empty, none) /\ Loose(Empty)
    BY <1>2, <1>3, Separate DEF Hung, Held, Loose, Items
  <1>6. Founded(none)
    BY <1>2 DEF Founded
  <1>7. QED
    BY <1>1, <1>2, <1>4, <1>5, <1>6 DEF Standing, none

(* reset *)
LEMMA ResetStep ==
  ASSUME Reset
  PROVE  IInv' /\ Tree!Reset
  <1>1. dom' = Empty
    BY DEF Reset
  <1>2. Standing(dom', [n \in Nodes |-> <<>>], [n \in Nodes |-> <<>>])
    BY <1>1, EmptyStands
  <1>3. /\ IInv'
        /\ ChildrenOf(dom') = [n \in Nodes |-> <<>>]
        /\ AttributesOf(dom') = [n \in Nodes |-> <<>>]
    BY <1>2, StandsNext
  <1>4. Tree!Reset
    BY <1>1, <1>3 DEF Tree!Reset, Tree!Start, Empty, Items, ChildrenOf, AttributesOf
  <1>5. QED
    BY <1>3, <1>4

------------------------------------------------------------------------------
(* A new document stands. *)
LEMMA InitIInv == Init => IInv
  <1> SUFFICES ASSUME Init PROVE IInv
    OBVIOUS
  <1>1. Standing(dom, [n \in Nodes |-> <<>>], [n \in Nodes |-> <<>>])
    BY EmptyStands DEF Init
  <1>2. /\ [n \in Nodes |-> <<>>] = ChildrenOf(dom)
        /\ [n \in Nodes |-> <<>>] = AttributesOf(dom)
    BY <1>1, StandingIsRead
  <1>3. QED
    BY <1>1, <1>2 DEF IInv

(* Every step keeps the invariant, and is a step of the tree.              *)
LEMMA StepIInv ==
  ASSUME IInv, Next
  PROVE  IInv' /\ Tree!Next
  <1>1. CASE ChangeNodes
    <2>1. PICK n, x \in Nodes :
             \/ RemoveChild(n, x)
             \/ \E k \in NewKinds : \/ AppendChild(n, k, x)
                                    \/ PrependChild(n, k, x)
                                    \/ \E y \in Nodes : \/ InsertChildBefore(n, k, x, y)
                                                        \/ InsertChildAfter(n, k, x, y)
      BY <1>1, Zenon DEF ChangeNodes
    <2>2. CASE RemoveChild(n, x)
      BY <2>2, RemoveChildStep DEF Tree!Next
    <2>3. ASSUME NEW k \in NewKinds, AppendChild(n, k, x)
          PROVE  IInv' /\ Tree!Next
      BY <2>3, AppendChildStep DEF Tree!Next
    <2>4. ASSUME NEW k \in NewKinds, PrependChild(n, k, x)
          PROVE  IInv' /\ Tree!Next
      BY <2>4, PrependChildStep DEF Tree!Next
    <2>5. ASSUME NEW k \in NewKinds, NEW y \in Nodes, InsertChildBefore(n, k, x, y)
          PROVE  IInv' /\ Tree!Next
      BY <2>5, InsertChildBeforeStep DEF Tree!Next
    <2>6. ASSUME NEW k \in NewKinds, NEW y \in Nodes, InsertChildAfter(n, k, x, y)
          PROVE  IInv' /\ Tree!Next
      BY <2>6, InsertChildAfterStep DEF Tree!Next
    <2>7. QED
      BY <2>1, <2>2, <2>3, <2>4, <2>5, <2>6, Zenon
  <1>2. CASE ChangeAttributes
    <2>1. PICK n \in Nodes, a \in Attrs :
             \/ RemoveAttribute(n, a)
             \/ \E s \in Text : \/ AppendAttribute(n, s, a)
                                \/ PrependAttribute(n, s, a)
                                \/ \E b \in Attrs : \/ InsertAttributeBefore(n, s, a, b)
                                                    \/ InsertAttributeAfter(n, s, a, b)
      BY <1>2, Zenon DEF ChangeAttributes
    <2>2. CASE RemoveAttribute(n, a)
      BY <2>2, RemoveAttributeStep DEF Tree!Next
    <2>3. ASSUME NEW s \in Text, AppendAttribute(n, s, a)
          PROVE  IInv' /\ Tree!Next
      BY <2>3, AppendAttributeStep DEF Tree!Next, Text
    <2>4. ASSUME NEW s \in Text, PrependAttribute(n, s, a)
          PROVE  IInv' /\ Tree!Next
      BY <2>4, PrependAttributeStep DEF Tree!Next, Text
    <2>5. ASSUME NEW s \in Text, NEW b \in Attrs, InsertAttributeBefore(n, s, a, b)
          PROVE  IInv' /\ Tree!Next
      BY <2>5, InsertAttributeBeforeStep DEF Tree!Next, Text
    <2>6. ASSUME NEW s \in Text, NEW b \in Attrs, InsertAttributeAfter(n, s, a, b)
          PROVE  IInv' /\ Tree!Next
      BY <2>6, InsertAttributeAfterStep DEF Tree!Next, Text
    <2>7. QED
      BY <2>1, <2>2, <2>3, <2>4, <2>5, <2>6, Zenon
  <1>3. CASE ChangeStrings
    <2>1. PICK i \in Items, s \in Text : SetName(i, s) \/ SetValue(i, s)
      BY <1>3, Zenon DEF ChangeStrings
    <2>2. CASE SetName(i, s)
      BY <2>2, SetNameStep DEF Tree!Next, Items, Text
    <2>3. CASE SetValue(i, s)
      BY <2>3, SetValueStep DEF Tree!Next, Items, Text
    <2>4. QED
      BY <2>1, <2>2, <2>3
  <1>4. CASE Reset
    BY <1>4, ResetStep DEF Tree!Next
  <1>5. QED
    BY <1>1, <1>2, <1>3, <1>4 DEF Next

(* The invariant is inductive. *)
LEMMA NextIInv == IInv /\ [Next]_dom => IInv'
  <1> SUFFICES ASSUME IInv, [Next]_dom PROVE IInv'
    OBVIOUS
  <1>1. CASE Next
    BY <1>1, StepIInv
  <1>2. CASE UNCHANGED dom
    BY <1>2 DEF IInv
  <1>3. QED
    BY <1>1, <1>2

(* So every document stands, always. *)
LEMMA Invariance == Spec => []IInv
  BY InitIInv, NextIInv, PTL DEF Spec

(* The links of a list lead to its items. *)
LEMMA LinksStayInside ==
  ASSUME NEW l, NEW s, Linked(l, s)
  PROVE  /\ l.head \in ToSet(s) \cup {Nil}
         /\ \A i \in ToSet(s) : /\ l.head # Nil
                                /\ l.next[i] \in ToSet(s) \cup {Nil}
                                /\ l.prev[i] \in ToSet(s)
  <1>1. /\ s \in Seq(Items) /\ l.head = IF s = <<>> THEN Nil ELSE s[1]
        /\ \A i \in 1 .. Len(s) : l.next[s[i]] = IF i = Len(s) THEN Nil ELSE s[i + 1]
        /\ \A i \in 1 .. Len(s) : l.prev[s[i]] = s[IF i = 1 THEN Len(s) ELSE i - 1]
    BY DEF Linked
  <1>2. /\ Len(s) \in Nat /\ (s = <<>> <=> Len(s) = 0)
        /\ \A k \in 1 .. Len(s) : s[k] \in ToSet(s) /\ s[k] # Nil
        /\ \A i \in ToSet(s) : \E k \in 1 .. Len(s) : s[k] = i
    <2>1. \A k \in 1 .. Len(s) : s[k] \in Items
      BY <1>1
    <2>2. QED
      BY <1>1, <2>1, MembersOf, NilIsNoItem
  <1>3. l.head \in ToSet(s) \cup {Nil}
    BY <1>1, <1>2
  <1>4. ASSUME NEW k \in 1 .. Len(s)
        PROVE  /\ l.head # Nil
               /\ l.next[s[k]] \in ToSet(s) \cup {Nil}
               /\ l.prev[s[k]] \in ToSet(s)
    <2>1. /\ 1 \in 1 .. Len(s) /\ Len(s) \in 1 .. Len(s)
          /\ k # Len(s) => k + 1 \in 1 .. Len(s)
          /\ k # 1 => k - 1 \in 1 .. Len(s)
      BY <1>2
    <2>2. l.head # Nil
      BY <1>1, <1>2, <2>1
    <2>3. l.next[s[k]] \in ToSet(s) \cup {Nil}
      BY <1>1, <1>2, <2>1
    <2>4. l.prev[s[k]] \in ToSet(s)
      BY <1>1, <1>2, <2>1
    <2>5. QED
      BY <2>2, <2>3, <2>4
  <1>5. QED
    BY <1>2, <1>3, <1>4

(* A document that stands has no link to what does not exist. *)
LEMMA StandingIsTyped == IInv => TypeOK
  <1> SUFFICES ASSUME IInv PROVE TypeOK
    OBVIOUS
  <1> DEFINE kids == ChildrenOf(dom)
             atts == AttributesOf(dom)
  <1>1. /\ dom \in Documents /\ Hung(dom, kids) /\ Held(dom, atts) /\ Loose(dom)
        /\ kids \in [Nodes -> Seq(Nodes)] /\ atts \in [Nodes -> Seq(Attrs)]
        /\ \A n \in Nodes : /\ Linked(Children(dom, n), kids[n])
                            /\ Linked(Attributes(dom, n), atts[n])
    BY IInvUnfolds
  <1> HIDE DEF kids, atts
  <1>2. \A n \in Nodes :
          /\ dom.first[n] \in ToSet(kids[n]) \cup {Nil}
          /\ \A i \in ToSet(kids[n]) : /\ dom.first[n] # Nil
                                       /\ dom.next[i] \in ToSet(kids[n]) \cup {Nil}
                                       /\ dom.prev[i] \in ToSet(kids[n])
    BY <1>1, LinksStayInside DEF Children
  <1>3. \A n \in Nodes :
          /\ dom.attr[n] \in ToSet(atts[n]) \cup {Nil}
          /\ \A i \in ToSet(atts[n]) : /\ dom.next[i] \in ToSet(atts[n]) \cup {Nil}
                                       /\ dom.prev[i] \in ToSet(atts[n])
    BY <1>1, LinksStayInside DEF Attributes
  <1>4. \A n \in Nodes : ToSet(kids[n]) \subseteq Nodes /\ ToSet(atts[n]) \subseteq Attrs
    BY <1>1, MembersOf
  <1>5. \A n \in Nodes : ToSet(kids[n]) \subseteq Living
    <2> SUFFICES ASSUME NEW n \in Nodes, NEW c \in ToSet(kids[n])
                 PROVE  c \in Living
      OBVIOUS
    <2>1. c \in Nodes /\ dom.parent[c] = n /\ n # Nil
      BY <1>1, <1>4, Separate DEF Hung
    <2>2. QED
      BY <1>1, <2>1 DEF Loose, Living, Exists
  <1>6. \A n \in Nodes : ToSet(atts[n]) \subseteq dom.owned
    BY <1>1, <1>4 DEF Held
  <1>7. ASSUME NEW n \in Living
        PROVE  /\ {dom.first[n], dom.parent[n], dom.next[n]} \subseteq Living \cup {Nil}
               /\ dom.attr[n] \in dom.owned \cup {Nil}
               /\ dom.parent[n] # Nil => dom.prev[n] \in Living
    <2>1. n \in Nodes /\ dom.parent[n] \in Nodes \cup {Nil}
      BY <1>1 DEF Living, Documents
    <2>2. dom.first[n] \in Living \cup {Nil} /\ dom.attr[n] \in dom.owned \cup {Nil}
      BY <1>2, <1>3, <1>5, <1>6, <2>1
    <2>3. CASE dom.parent[n] = Nil
      <3>1. dom.next[n] = Nil
        BY <1>1, <2>1, <2>3 DEF Loose
      <3>2. QED
        BY <2>2, <2>3, <3>1
    <2>4. CASE dom.parent[n] # Nil
      <3> DEFINE p == dom.parent[n]
      <3>1. p \in Nodes /\ n \in ToSet(kids[p])
        BY <1>1, <2>1, <2>4 DEF Hung
      <3>2. dom.first[p] # Nil
        BY <1>2, <3>1
      <3>3. p \in Living
        BY <1>1, <3>1, <3>2 DEF Loose, Living, Exists
      <3>4. dom.next[n] \in Living \cup {Nil} /\ dom.prev[n] \in Living
        BY <1>2, <1>5, <3>1
      <3>5. QED
        BY <2>2, <3>3, <3>4
    <2>5. QED
      BY <2>3, <2>4
  <1>8. ASSUME NEW a \in dom.owned
        PROVE  dom.next[a] \in dom.owned \cup {Nil} /\ dom.prev[a] \in dom.owned
    <2>1. PICK n \in Nodes : a \in ToSet(atts[n])
      BY <1>1 DEF Held, Documents
    <2>2. QED
      BY <1>3, <1>6, <2>1
  <1>9. QED
    BY <1>1, <1>7, <1>8 DEF TypeOK

(* The links, kinds and texts of a document have the types the code gives  *)
(* them, whichever of its calls made it, and no link leads to a node or an *)
(* attribute that has been destroyed.                                      *)
THEOREM DocumentsTyped == Spec => []TypeOK
  BY StandingIsTyped, Invariance, PTL

(* A linked list is a circle backward, and only its last item leads on to  *)
(* nothing.                                                                *)
LEMMA BackwardOfLinked ==
  ASSUME NEW l, NEW s, Linked(l, s)
  PROVE  /\ s = <<>> => l.head = Nil
         /\ s # <<>> => l.head # Nil /\ l.prev[l.head] = Last(s)
         /\ \A i \in 1 .. Len(s) :
              (IF l.next[l.prev[s[i]]] # Nil THEN l.prev[s[i]] ELSE Nil)
                = IF i = 1 THEN Nil ELSE s[i - 1]
  <1>1. /\ s \in Seq(Items) /\ l.head = IF s = <<>> THEN Nil ELSE s[1]
        /\ \A i \in 1 .. Len(s) : l.next[s[i]] = IF i = Len(s) THEN Nil ELSE s[i + 1]
        /\ \A i \in 1 .. Len(s) : l.prev[s[i]] = s[IF i = 1 THEN Len(s) ELSE i - 1]
    BY DEF Linked
  <1>2. Nil \notin Items
    BY NodesAssumption DEF Items
  <1>3. Len(s) \in Nat /\ \A i \in 1 .. Len(s) : s[i] # Nil
    BY <1>1, <1>2
  <1>4. s # <<>> => l.head # Nil /\ l.prev[l.head] = Last(s)
    BY <1>1, <1>3 DEF Last
  <1>5. ASSUME NEW i \in 1 .. Len(s)
        PROVE  (IF l.next[l.prev[s[i]]] # Nil THEN l.prev[s[i]] ELSE Nil)
                 = IF i = 1 THEN Nil ELSE s[i - 1]
    <2>1. CASE i = 1
      <3>1. l.prev[s[i]] = s[Len(s)] /\ Len(s) \in 1 .. Len(s)
        BY <1>1, <1>3, <2>1
      <3>2. l.next[s[Len(s)]] = Nil
        BY <1>1, <3>1
      <3>3. QED
        BY <2>1, <3>1, <3>2
    <2>2. CASE i # 1
      <3>1. i - 1 \in 1 .. Len(s) /\ i - 1 # Len(s) /\ (i - 1) + 1 = i
        BY <1>3, <2>2
      <3>2. l.prev[s[i]] = s[i - 1]
        BY <1>1, <2>2
      <3>3. l.next[s[i - 1]] = s[i]
        BY <1>1, <3>1
      <3>4. QED
        BY <1>3, <2>2, <3>2, <3>3
    <2>3. QED
      BY <2>1, <2>2
  <1>6. QED
    BY <1>1, <1>4, <1>5

(* So a list of the document reads backward as the code reads it.          *)
LEMMA ReadsBackwardIfLinked ==
  ASSUME NEW l, NEW s, Linked(l, s), l.next = dom.next, l.prev = dom.prev,
         s = From(dom, l.head)
  PROVE  ReadsBackward(l.head)
  <1>1. LastItem(l.head) = IF s = <<>> THEN Nil ELSE Last(s)
    BY BackwardOfLinked DEF LastItem
  <1>2. \A i \in 1 .. Len(s) : Previous(s[i]) = IF i = 1 THEN Nil ELSE s[i - 1]
    BY BackwardOfLinked DEF Previous
  <1>3. QED
    BY <1>1, <1>2 DEF ReadsBackward

(* The code finds which node an attribute is of by walking back to the     *)
(* first of its list: it finds the node whose list it is in.               *)
LEMMA BelongingIsRight == IInv => BelongsIsRight
  <1> SUFFICES ASSUME IInv, NEW n \in Nodes, NEW a \in Attrs
               PROVE  Belongs(n, a) <=> a \in ToSet(From(dom, dom.attr[n]))
    BY DEF BelongsIsRight
  <1>1. AttributesOf(dom)[n] = From(dom, dom.attr[n])
    BY DEF AttributesOf
  <1>2. QED
    BY <1>1, BelongsToList

(* In whatever order nodes and attributes are added and removed, each list *)
(* reads backward, by previous_sibling and its like, as it does forward,   *)
(* the children in the list of a node are those that lead to it as their   *)
(* parent, and the code's test whose attribute one is (walking back to the *)
(* first) tells it.                                                        *)
THEOREM ListsStayRings == Spec => []ListsAreRings
  <1>1. ASSUME IInv, NEW n \in Nodes
        PROVE  /\ ReadsBackward(dom.first[n]) /\ ReadsBackward(dom.attr[n])
               /\ \A x \in Nodes : x \in ToSet(From(dom, dom.first[n])) <=> dom.parent[x] = n
    <2>1. /\ Linked(Children(dom, n), ChildrenOf(dom)[n])
          /\ Linked(Attributes(dom, n), AttributesOf(dom)[n])
          /\ Hung(dom, ChildrenOf(dom))
      BY <1>1, IInvUnfolds
    <2>2. /\ ChildrenOf(dom)[n] = From(dom, dom.first[n])
          /\ AttributesOf(dom)[n] = From(dom, dom.attr[n])
      BY DEF ChildrenOf, AttributesOf
    <2>3. /\ Children(dom, n).head = dom.first[n] /\ Attributes(dom, n).head = dom.attr[n]
          /\ Children(dom, n).next = dom.next /\ Attributes(dom, n).next = dom.next
          /\ Children(dom, n).prev = dom.prev /\ Attributes(dom, n).prev = dom.prev
      BY DEF Children, Attributes
    <2>4. ReadsBackward(Children(dom, n).head)
      BY <2>1, <2>2, <2>3, ReadsBackwardIfLinked
    <2>5. ReadsBackward(Attributes(dom, n).head)
      BY <2>1, <2>2, <2>3, ReadsBackwardIfLinked
    <2>6. \A x \in Nodes : x \in ToSet(From(dom, dom.first[n])) <=> dom.parent[x] = n
      BY <2>1, <2>2 DEF Hung
    <2>7. QED
      BY <2>3, <2>4, <2>5, <2>6
  <1>2. IInv => ListsAreRings
    BY <1>1, BelongingIsRight DEF ListsAreRings
  <1>3. QED
    BY Invariance, <1>2, PTL

(* Each call on the links is, on the tree they stand for, the operation it *)
(* is named for: the new node or attribute is where it was asked for, a    *)
(* removal takes what is below and no more, and nothing else moves.        *)
THEOREM CallsDoTheirOperation == Spec => TreeOperations
  <1>1. IInv => NodeStep
    <2> SUFFICES ASSUME IInv, NEW n \in Nodes, NEW x \in Nodes
                 PROVE  /\ RemoveChild(n, x) => Tree!RemoveChild(n, x)
                        /\ \A k \in NewKinds :
                             /\ AppendChild(n, k, x) => Tree!AppendChild(n, k, x)
                             /\ PrependChild(n, k, x) => Tree!PrependChild(n, k, x)
                             /\ \A y \in Nodes :
                                  /\ InsertChildBefore(n, k, x, y)
                                       => Tree!InsertChildBefore(n, k, x, y)
                                  /\ InsertChildAfter(n, k, x, y)
                                       => Tree!InsertChildAfter(n, k, x, y)
      BY Zenon DEF NodeStep, Touched, Changed
    <2>1. QED
      BY RemoveChildStep, AppendChildStep, PrependChildStep, InsertChildBeforeStep,
         InsertChildAfterStep
  <1>2. IInv => AttributeStep
    <2> SUFFICES ASSUME IInv, NEW n \in Nodes, NEW a \in Attrs
                 PROVE  /\ RemoveAttribute(n, a) => Tree!RemoveAttribute(n, a)
                        /\ \A s \in Text :
                             /\ AppendAttribute(n, s, a) => Tree!AppendAttribute(n, s, a)
                             /\ PrependAttribute(n, s, a) => Tree!PrependAttribute(n, s, a)
                             /\ \A b \in Attrs :
                                  /\ InsertAttributeBefore(n, s, a, b)
                                       => Tree!InsertAttributeBefore(n, s, a, b)
                                  /\ InsertAttributeAfter(n, s, a, b)
                                       => Tree!InsertAttributeAfter(n, s, a, b)
      BY Zenon DEF AttributeStep
    <2>1. QED
      BY RemoveAttributeStep, AppendAttributeStep, PrependAttributeStep,
         InsertAttributeBeforeStep, InsertAttributeAfterStep
  <1>3. IInv => [NodeStep /\ AttributeStep]_dom
    BY <1>1, <1>2
  <1>4. QED
    BY Invariance, <1>3, PTL DEF TreeOperations

(* A document, as its users see it, is the tree of AbstractTree: it starts *)
(* empty, and changes by the operations of the tree only.                  *)
THEOREM DocumentsAreTrees == Spec => DocumentIsTree
  <1>1. Init => Tree!Init
    <2> SUFFICES ASSUME Init PROVE Tree!Init
      OBVIOUS
    <2>1. dom = Empty
      BY DEF Init
    <2>2. Standing(dom, [n \in Nodes |-> <<>>], [n \in Nodes |-> <<>>])
      BY <2>1, EmptyStands
    <2>3. /\ [n \in Nodes |-> <<>>] = ChildrenOf(dom)
          /\ [n \in Nodes |-> <<>>] = AttributesOf(dom)
      BY <2>2, StandingIsRead
    <2>4. QED
      BY <2>1, <2>3 DEF Tree!Init, Tree!Start, Empty, Items, ChildrenOf, AttributesOf
  <1>2. IInv /\ [Next]_dom => [Tree!Next]_(Tree!vars)
    <2> SUFFICES ASSUME IInv, [Next]_dom PROVE [Tree!Next]_(Tree!vars)
      OBVIOUS
    <2>1. CASE Next
      BY <2>1, StepIInv
    <2>2. CASE UNCHANGED dom
      BY <2>2 DEF Tree!vars, From
    <2>3. QED
      BY <2>1, <2>2
  <1>3. QED
    BY Invariance, <1>1, <1>2, PTL DEF Spec, Tree!Spec, DocumentIsTree

==============================================================================
