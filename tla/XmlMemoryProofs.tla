--------------------------- MODULE XmlMemoryProofs ---------------------------
(***************************************************************************)
(* Theorems about XmlMemory, for any objects, pages and sizes.             *)
(*                                                                         *)
(* The operators of XmlMemory take the memory as a value m; a set S of     *)
(* blocks stands for what is in use of it.  SoundMemory relates the two.   *)
(* The lemmas say that an allocation adds a block to S and a deallocation  *)
(* takes one out of it; the actions are made of these.                     *)
(***************************************************************************)
EXTENDS XmlMemory, FiniteSetTheorems, TLAPS

PageStates == [prev : Pages \cup {Sentinel, Nil}, next : Pages \cup {Nil},
               busy : Nat, freed : Nat]

Memory == [page : [Pages \cup {Sentinel} -> PageStates],
           root : Pages \cup {Sentinel},
           top  : 0 .. PageSize]

UsedIn(S, p) == UNION {Bytes(b) : b \in {c \in S : c.page = p}}

BusyIn(m, p) == IF p = m.root THEN m.top ELSE m.page[p].busy

(* The list of pages: neighbours agree, and it has two ends. *)
Linked(m) ==
  /\ m.page[m.root].next = Nil /\ m.page[Sentinel].prev = Nil
  /\ m.root = Sentinel => m.top = PageSize
  /\ \A p \in InList(m) \ {m.root} : /\ m.page[p].next \in InList(m) \ {Sentinel}
                                     /\ m.page[m.page[p].next].prev = p
  /\ \A p \in InList(m) \ {Sentinel} : /\ m.page[p].prev \in InList(m) \ {m.root}
                                       /\ m.page[m.page[p].prev].next = p

(* Blocks lie in the list, within what was given out. *)
Placed(m, S) ==
  /\ S \subseteq Blocks
  /\ S # {} => m.root # Sentinel
  /\ \A b \in S : b.page \in InList(m) /\ b.off + b.size <= BusyIn(m, b.page)

(* Blocks do not overlap. *)
Apart(S) == \A b, c \in S : b # c /\ b.page = c.page =>
              b.off + b.size <= c.off \/ c.off + c.size <= b.off

(* What was given out and not returned is in use. *)
Counted(m, S) == \A p \in InList(m) \ {Sentinel} :
                   Cardinality(UsedIn(S, p)) = BusyIn(m, p) - m.page[p].freed

(* A page before the root has something in use; a root that has not is     *)
(* as good as new.                                                         *)
NoneIdle(m, S) == \A p \in InList(m) \ {Sentinel} :
                    UsedIn(S, p) = {} => p = m.root /\ m.top = 0

(* A page larger than others holds one block, which fills it. *)
LargeIsWhole(m, S) == \A b \in S : b.page # m.root /\ m.page[b.page].busy > PageSize =>
                        b.size = m.page[b.page].busy

SoundMemory(m, S) == /\ m \in Memory /\ Linked(m) /\ Placed(m, S) /\ Apart(S)
                     /\ Counted(m, S) /\ NoneIdle(m, S) /\ LargeIsWhole(m, S)

------------------------------------------------------------------------------
(* Blocks and their bytes.                                                 *)

(* The size of an interval. *)
LEMMA IntervalSize ==
  ASSUME NEW a \in Nat, NEW n \in Nat, n > 0
  PROVE  IsFiniteSet(a .. a + n - 1) /\ Cardinality(a .. a + n - 1) = n
  <1>1. a + n - 1 \in Int /\ ~(a > a + n - 1) /\ (a + n - 1) - a + 1 = n
    OBVIOUS
  <1>2. QED
    BY <1>1, FS_Interval

(* The size of a union of what is apart. *)
LEMMA SizeOfBoth ==
  ASSUME NEW U, NEW V, IsFiniteSet(U), IsFiniteSet(V), U \cap V = {}
  PROVE  Cardinality(U \cup V) = Cardinality(U) + Cardinality(V)
  <1>1. Cardinality(U \cup V) = Cardinality(U) + Cardinality(V) - Cardinality(U \cap V)
    BY FS_Union
  <1>2. Cardinality(U \cap V) = 0
    BY FS_EmptySet
  <1>3. Cardinality(U) \in Nat /\ Cardinality(V) \in Nat
    BY FS_CardinalityType
  <1>4. QED
    BY <1>1, <1>2, <1>3

(* A block has as many bytes as its size says, and at least one. *)
LEMMA BlockHasBytes ==
  ASSUME NEW b \in Blocks
  PROVE  /\ b.page \in Pages /\ b.off \in Nat /\ b.size \in Nat /\ b.size > 0
         /\ b.off \in Bytes(b)
         /\ IsFiniteSet(Bytes(b)) /\ Cardinality(Bytes(b)) = b.size
  <1>1. b.page \in Pages /\ b.off \in Nat /\ b.size \in Nat /\ b.size > 0
    BY DEF Blocks
  <1>2. /\ IsFiniteSet(b.off .. b.off + b.size - 1)
        /\ Cardinality(b.off .. b.off + b.size - 1) = b.size
    BY <1>1, IntervalSize
  <1>3. QED
    BY <1>1, <1>2 DEF Bytes

(* A block more makes a difference to its own page only. *)
LEMMA UsedWithMore ==
  ASSUME NEW S, NEW b, NEW p
  PROVE  /\ b.page = p => UsedIn(S \cup {b}, p) = UsedIn(S, p) \cup Bytes(b)
         /\ b.page # p => UsedIn(S \cup {b}, p) = UsedIn(S, p)
  BY DEF UsedIn

(* So does a block less. *)
LEMMA UsedWithLess ==
  ASSUME NEW S \in SUBSET Blocks, Apart(S), NEW b \in S, NEW p
  PROVE  /\ b.page = p => UsedIn(S \ {b}, p) = UsedIn(S, p) \ Bytes(b)
         /\ b.page # p => UsedIn(S \ {b}, p) = UsedIn(S, p)
  <1>1. CASE b.page # p
    BY <1>1 DEF UsedIn
  <1>2. CASE b.page = p
    <2>1. ASSUME NEW c \in S, c # b, c.page = p
          PROVE  Bytes(c) \cap Bytes(b) = {}
      <3>1. c.off + c.size <= b.off \/ b.off + b.size <= c.off
        BY <1>2, <2>1 DEF Apart
      <3>2. QED
        BY <3>1, BlockHasBytes DEF Bytes
    <2>2. QED
      BY <1>2, <2>1 DEF UsedIn
  <1>3. QED
    BY <1>1, <1>2

(* What is in use of a page is finite. *)
LEMMA UsedIsBelow ==
  ASSUME NEW m \in Memory, NEW S, Placed(m, S), NEW p \in InList(m)
  PROVE  /\ BusyIn(m, p) \in Nat
         /\ UsedIn(S, p) \subseteq 0 .. BusyIn(m, p) - 1
         /\ IsFiniteSet(UsedIn(S, p))
         /\ Cardinality(UsedIn(S, p)) \in Nat
  <1>1. p \in Pages \cup {Sentinel}
    BY DEF InList, Memory
  <1>2. BusyIn(m, p) \in Nat
    BY <1>1, SizesAssumption DEF BusyIn, Memory, PageStates
  <1>3. UsedIn(S, p) \subseteq 0 .. BusyIn(m, p) - 1
    <2>1. ASSUME NEW b \in S, b.page = p
          PROVE  Bytes(b) \subseteq 0 .. BusyIn(m, p) - 1
      <3>1. b \in Blocks /\ b.off + b.size <= BusyIn(m, p)
        BY <2>1 DEF Placed
      <3>2. QED
        BY <1>2, <3>1, BlockHasBytes DEF Bytes
    <2>2. QED
      BY <2>1 DEF UsedIn
  <1>4. IsFiniteSet(0 .. BusyIn(m, p) - 1)
    BY <1>2, FS_Interval
  <1>5. QED
    BY <1>2, <1>3, <1>4, FS_Subset, FS_CardinalityType

(* A page with a block of its own.                                         *)
LEMMA UsedOfNewPage ==
  ASSUME NEW S \in SUBSET Blocks, NEW p, \A c \in S : c.page # p
  PROVE  UsedIn(S, p) = {}
  BY DEF UsedIn

(* The room left in the root. *)
LEMMA BumpKeeps ==
  ASSUME NEW m, NEW S, SoundMemory(m, S), NEW size \in Nat \ {0},
         m.top + size <= PageSize,
         NEW b, b = [page |-> m.root, off |-> m.top, size |-> size]
  PROVE  b \in Blocks /\ b \notin S /\ SoundMemory([m EXCEPT !.top = @ + size], S \cup {b})
  <1> DEFINE n == [m EXCEPT !.top = @ + size]
  <1>1. m \in Memory /\ Linked(m) /\ Placed(m, S) /\ Apart(S) /\ Counted(m, S)
        /\ NoneIdle(m, S) /\ LargeIsWhole(m, S)
    BY DEF SoundMemory
  <1>2. m.top \in Nat /\ m.root # Sentinel /\ m.root \in Pages
    BY <1>1, SizesAssumption DEF Memory, Linked
  <1>3. n \in Memory /\ n.page = m.page /\ n.root = m.root /\ n.top = m.top + size
    BY <1>1, <1>2, SizesAssumption DEF Memory
  <1>4. InList(n) = InList(m)
    BY <1>3 DEF InList
  <1>5. b \in Blocks /\ b.page = m.root /\ b.off = m.top /\ b.size = size
    BY <1>2 DEF Blocks
  <1>6. \A c \in S : c \in Blocks /\ (c.page = m.root => c.off + c.size <= m.top)
    BY <1>1 DEF Placed, BusyIn
  <1>7. b \notin S
    BY <1>2, <1>5, <1>6
  <1> HIDE DEF n
  <1>8. Linked(n)
    BY <1>1, <1>2, <1>3, <1>4 DEF Linked
  <1>9. Placed(n, S \cup {b})
    <2>1. m.root \in InList(n)
      BY <1>4 DEF InList
    <2>2. \A c \in S : c.off + c.size <= BusyIn(n, c.page)
      BY <1>1, <1>2, <1>3, <1>6, BlockHasBytes DEF Placed, BusyIn
    <2>3. QED
      BY <1>1, <1>2, <1>3, <1>4, <1>5, <2>1, <2>2 DEF Placed, BusyIn
  <1>10. Apart(S \cup {b})
    BY <1>1, <1>5, <1>6 DEF Apart
  <1>11. ASSUME NEW p \in InList(n) \ {Sentinel}
         PROVE  /\ Cardinality(UsedIn(S \cup {b}, p)) = BusyIn(n, p) - n.page[p].freed
                /\ UsedIn(S \cup {b}, p) = {} => p = n.root /\ n.top = 0
    <2>1. CASE p # m.root
      <3>1. UsedIn(S \cup {b}, p) = UsedIn(S, p)
        <4>1. b.page # p
          BY <2>1, <1>5
        <4>2. QED
          BY <4>1, UsedWithMore
      <3>2. BusyIn(n, p) = BusyIn(m, p) /\ n.page[p].freed = m.page[p].freed
        BY <2>1, <1>3 DEF BusyIn
      <3>3. /\ Cardinality(UsedIn(S, p)) = BusyIn(m, p) - m.page[p].freed
            /\ UsedIn(S, p) # {}
        BY <2>1, <1>1, <1>4 DEF Counted, NoneIdle
      <3>4. QED
        BY <3>1, <3>2, <3>3
    <2>2. CASE p = m.root
      <3>1. UsedIn(S \cup {b}, p) = UsedIn(S, p) \cup Bytes(b)
        BY <2>2, <1>5, UsedWithMore
      <3>2. /\ UsedIn(S, p) \subseteq 0 .. m.top - 1
            /\ IsFiniteSet(UsedIn(S, p)) /\ Cardinality(UsedIn(S, p)) \in Nat
        BY <2>2, <1>1, <1>4, UsedIsBelow DEF BusyIn
      <3>3. UsedIn(S, p) \cap Bytes(b) = {}
        BY <3>2, <1>2, <1>5 DEF Bytes
      <3>4. Cardinality(UsedIn(S, p) \cup Bytes(b)) = Cardinality(UsedIn(S, p)) + size
        <4>1. IsFiniteSet(Bytes(b)) /\ Cardinality(Bytes(b)) = size
          BY <1>5, BlockHasBytes
        <4>2. QED
          BY <3>2, <3>3, <4>1, SizeOfBoth
      <3>5. Cardinality(UsedIn(S, p)) = m.top - m.page[p].freed
        BY <2>2, <1>1, <1>4 DEF Counted, BusyIn
      <3>6. m.page[p].freed \in Nat
        BY <2>2, <1>1, <1>2 DEF Memory, PageStates
      <3>7. Bytes(b) # {}
        BY <1>5, BlockHasBytes
      <3>8. BusyIn(n, p) = m.top + size /\ n.page[p].freed = m.page[p].freed
        BY <2>2, <1>3 DEF BusyIn
      <3>9. (m.top - m.page[p].freed) + size = m.top + size - m.page[p].freed
        BY <3>6, <1>2
      <3>10. UsedIn(S \cup {b}, p) # {}
        BY <3>1, <3>7
      <3>11. Cardinality(UsedIn(S \cup {b}, p)) = m.top + size - m.page[p].freed
        BY <3>1, <3>4, <3>5, <3>9
      <3>12. Cardinality(UsedIn(S \cup {b}, p)) = BusyIn(n, p) - n.page[p].freed
        BY <3>6, <3>8, <3>11, <1>2
      <3>13. QED
        BY <3>10, <3>12
    <2>3. QED
      BY <2>1, <2>2
  <1>12. LargeIsWhole(n, S \cup {b})
    BY <1>1, <1>3, <1>5 DEF LargeIsWhole
  <1>13. SoundMemory(n, S \cup {b})
    BY <1>3, <1>8, <1>9, <1>10, <1>11, <1>12 DEF SoundMemory, Counted, NoneIdle
  <1>14. QED
    BY <1>5, <1>7, <1>13 DEF n

(* A page that joins the list with one block, the others staying what they *)
(* were.                                                                   *)
LEMMA NewPageKeeps ==
  ASSUME NEW m, NEW S, SoundMemory(m, S), NEW size \in Nat \ {0},
         NEW p \in Pages \ InList(m),
         NEW n \in Memory, Linked(n), n.root # Sentinel, InList(n) = InList(m) \cup {p},
         BusyIn(n, p) = size, n.page[p].freed = 0, p # n.root => n.page[p].busy = size,
         \A x \in InList(m) \ {Sentinel} :
            /\ BusyIn(n, x) = BusyIn(m, x) /\ n.page[x].freed = m.page[x].freed
            /\ UsedIn(S, x) = {} => x = n.root /\ n.top = 0
            /\ x # n.root /\ n.page[x].busy > PageSize =>
                  x # m.root /\ n.page[x].busy = m.page[x].busy,
         NEW b, b = [page |-> p, off |-> 0, size |-> size]
  PROVE  b \in Blocks /\ b \notin S /\ SoundMemory(n, S \cup {b})
  <1>1. m \in Memory /\ Linked(m) /\ Placed(m, S) /\ Apart(S) /\ Counted(m, S)
        /\ NoneIdle(m, S) /\ LargeIsWhole(m, S)
    BY DEF SoundMemory
  <1>2. b \in Blocks /\ b.page = p /\ b.off = 0 /\ b.size = size
    BY DEF Blocks
  <1>3. \A c \in S : c \in Blocks /\ c.page # p /\ c.page \in InList(m) \ {Sentinel}
    BY <1>1, BlockHasBytes, PagesAssumption DEF Placed
  <1>4. b \notin S
    BY <1>2, <1>3
  <1>5. Placed(n, S \cup {b})
    <2>1. \A c \in S : c.page \in InList(n) /\ c.off + c.size <= BusyIn(n, c.page)
      BY <1>1, <1>3 DEF Placed
    <2>2. b.page \in InList(n) /\ b.off + b.size <= BusyIn(n, b.page)
      BY <1>2
    <2>3. QED
      BY <1>2, <1>3, <2>1, <2>2 DEF Placed
  <1>6. Apart(S \cup {b})
    BY <1>1, <1>2, <1>3 DEF Apart
  <1>7. ASSUME NEW x \in InList(n) \ {Sentinel}
        PROVE  /\ Cardinality(UsedIn(S \cup {b}, x)) = BusyIn(n, x) - n.page[x].freed
               /\ UsedIn(S \cup {b}, x) = {} => x = n.root /\ n.top = 0
    <2>1. CASE x # p
      <3>1. UsedIn(S \cup {b}, x) = UsedIn(S, x)
        <4>1. b.page # x
          BY <2>1, <1>2
        <4>2. QED
          BY <4>1, UsedWithMore
      <3>2. x \in InList(m) \ {Sentinel}
        BY <2>1
      <3>3. QED
        BY <3>1, <3>2, <1>1 DEF Counted
    <2>2. CASE x = p
      <3>1. UsedIn(S \cup {b}, x) = Bytes(b)
        <4>1. UsedIn(S, x) = {}
          BY <2>2, <1>3, UsedOfNewPage
        <4>2. b.page = x
          BY <2>2, <1>2
        <4>3. UsedIn(S \cup {b}, x) = UsedIn(S, x) \cup Bytes(b)
          BY <4>2 DEF UsedIn
        <4>4. QED
          BY <4>1, <4>3
      <3>2. Cardinality(Bytes(b)) = size /\ Bytes(b) # {}
        BY <1>2, BlockHasBytes
      <3>3. BusyIn(n, x) - n.page[x].freed = size
        BY <2>2
      <3>4. QED
        BY <3>1, <3>2, <3>3
    <2>3. QED
      BY <2>1, <2>2
  <1>8. LargeIsWhole(n, S \cup {b})
    <2>1. ASSUME NEW c \in S, c.page # n.root, n.page[c.page].busy > PageSize
          PROVE  c.size = n.page[c.page].busy
      BY <2>1, <1>1, <1>3 DEF LargeIsWhole
    <2>2. QED
      BY <1>2, <2>1 DEF LargeIsWhole
  <1>9. SoundMemory(n, S \cup {b})
    BY <1>5, <1>6, <1>7, <1>8 DEF SoundMemory, Counted, NoneIdle
  <1>10. QED
    BY <1>2, <1>4, <1>9

(* A new root. *)
LEMMA NewRootKeeps ==
  ASSUME NEW m, NEW S, SoundMemory(m, S), NEW size \in Nat \ {0},
         ~(m.top + size <= PageSize), size <= Threshold, NEW p \in Pages \ InList(m),
         NEW b, b = [page |-> p, off |-> 0, size |-> size]
  PROVE  b \in Blocks /\ b \notin S /\ SoundMemory(WithNewRoot(m, size, p), S \cup {b})
  <1> DEFINE n == WithNewRoot(m, size, p)
  <1>1. m \in Memory /\ Linked(m) /\ Placed(m, S) /\ NoneIdle(m, S)
    BY DEF SoundMemory
  <1>2. /\ p \in Pages /\ p # Sentinel /\ p # Nil /\ p # m.root /\ p \notin InList(m)
        /\ m.root \in Pages \cup {Sentinel} /\ m.top \in Nat /\ m.top <= PageSize
        /\ size <= PageSize
    BY <1>1, SizesAssumption, PagesAssumption DEF InList, Memory, Threshold
  <1>3. /\ n.root = p /\ n.top = size
        /\ n.page[p] = [prev |-> m.root, next |-> Nil, busy |-> size, freed |-> 0]
        /\ n.page[m.root] = [m.page[m.root] EXCEPT !.busy = m.top, !.next = p]
        /\ \A x \in Pages \cup {Sentinel} : x # p /\ x # m.root => n.page[x] = m.page[x]
    BY <1>1, <1>2 DEF WithNewRoot, Memory, PageStates
  <1>4. n \in Memory
    <2>1. [m.page[m.root] EXCEPT !.busy = m.top, !.next = p] \in PageStates
      BY <1>1, <1>2 DEF Memory, PageStates
    <2>2. [prev |-> m.root, next |-> Nil, busy |-> size, freed |-> 0] \in PageStates
      BY <1>2 DEF PageStates
    <2>3. n.top \in 0 .. PageSize
      BY <1>2, <1>3, SizesAssumption
    <2>4. QED
      BY <1>1, <1>2, <2>1, <2>2, <2>3 DEF WithNewRoot, Memory
  <1> HIDE DEF n
  <1>5. /\ n.page[m.root].next = p /\ n.page[m.root].busy = m.top
        /\ n.page[m.root].prev = m.page[m.root].prev
        /\ n.page[m.root].freed = m.page[m.root].freed
    BY <1>1, <1>2, <1>3 DEF Memory, PageStates
  <1>6. InList(n) = InList(m) \cup {p}
    BY <1>2, <1>3, <1>5 DEF InList
  <1>7. InList(m) \subseteq Pages \cup {Sentinel}
    BY <1>2 DEF InList
  <1>8. Linked(n)
    <2>1. n.page[n.root].next = Nil /\ n.page[Sentinel].prev = Nil /\ n.root # Sentinel
      <3>1. m.page[Sentinel].prev = Nil
        BY <1>1 DEF Linked
      <3>2. n.page[Sentinel].prev = m.page[Sentinel].prev
        <4>1. CASE m.root = Sentinel
          BY <4>1, <1>5
        <4>2. CASE m.root # Sentinel
          BY <4>2, <1>2, <1>3
        <4>3. QED
          BY <4>1, <4>2
      <3>3. n.page[n.root].next = Nil
        BY <1>3
      <3>4. QED
        BY <3>1, <3>2, <3>3, <1>2, <1>3
    <2>2. ASSUME NEW x \in InList(n) \ {p}
          PROVE  n.page[x].next \in InList(n) \ {Sentinel} /\ n.page[n.page[x].next].prev = x
      <3>1. CASE x = m.root
        BY <3>1, <1>2, <1>3, <1>5, <1>6
      <3>2. CASE x # m.root
        <4>1. /\ m.page[x].next \in InList(m) \ {Sentinel}
              /\ m.page[m.page[x].next].prev = x /\ n.page[x] = m.page[x]
          BY <3>2, <1>1, <1>3, <1>6, <1>7 DEF Linked
        <4>2. n.page[m.page[x].next].prev = m.page[m.page[x].next].prev
          BY <4>1, <1>2, <1>3, <1>5, <1>7
        <4>3. QED
          BY <4>1, <4>2, <1>6
      <3>3. QED
        BY <3>1, <3>2
    <2>3. ASSUME NEW x \in InList(n) \ {Sentinel}
          PROVE  n.page[x].prev \in InList(n) \ {p} /\ n.page[n.page[x].prev].next = x
      <3>1. CASE x = p
        <4>1. n.page[x].prev = m.root
          BY <3>1, <1>3
        <4>2. m.root \in InList(n) /\ m.root # p
          BY <1>2, <1>6 DEF InList
        <4>3. QED
          BY <3>1, <4>1, <4>2, <1>5
      <3>2. CASE x # p
        <4>1. /\ m.page[x].prev \in InList(m) \ {m.root}
              /\ m.page[m.page[x].prev].next = x /\ n.page[x].prev = m.page[x].prev
          BY <3>2, <1>1, <1>3, <1>5, <1>6, <1>7 DEF Linked
        <4>2. n.page[m.page[x].prev] = m.page[m.page[x].prev]
          BY <4>1, <1>2, <1>3, <1>7
        <4>3. QED
          BY <4>1, <4>2, <1>2, <1>6
      <3>3. QED
        BY <3>1, <3>2
    <2>4. QED
      BY <2>1, <2>2, <2>3, <1>3 DEF Linked
  <1>9. ASSUME NEW x \in InList(m) \ {Sentinel}
        PROVE  /\ BusyIn(n, x) = BusyIn(m, x) /\ n.page[x].freed = m.page[x].freed
               /\ UsedIn(S, x) = {} => x = n.root /\ n.top = 0
               /\ x # n.root /\ n.page[x].busy > PageSize =>
                     x # m.root /\ n.page[x].busy = m.page[x].busy
    <2>1. x # p /\ x \in Pages \cup {Sentinel}
      BY <1>2, <1>7
    <2>2. BusyIn(n, x) = BusyIn(m, x) /\ n.page[x].freed = m.page[x].freed
      BY <2>1, <1>3, <1>5 DEF BusyIn
    <2>3. UsedIn(S, x) # {}
      <3>1. ~(m.top = 0)
        BY <1>2
      <3>2. QED
        BY <3>1, <1>1 DEF NoneIdle
    <2>4. x = m.root => ~(n.page[x].busy > PageSize)
      <3>1. ~(m.top > PageSize)
        BY <1>2, SizesAssumption
      <3>2. QED
        BY <3>1, <1>5
    <2>5. QED
      BY <2>1, <2>2, <2>3, <2>4, <1>3
  <1>10. n.root # Sentinel /\ BusyIn(n, p) = size /\ n.page[p].freed = 0
    BY <1>2, <1>3 DEF BusyIn
  <1>11. p # n.root => n.page[p].busy = size
    BY <1>3
  <1>12. b \in Blocks /\ b \notin S /\ SoundMemory(n, S \cup {b})
    <2>1. /\ n \in Memory /\ Linked(n) /\ n.root # Sentinel /\ InList(n) = InList(m) \cup {p}
          /\ BusyIn(n, p) = size /\ n.page[p].freed = 0 /\ (p # n.root => n.page[p].busy = size)
      BY <1>4, <1>6, <1>8, <1>10, <1>11
    <2>2. QED
      BY <2>1, <1>9, NewPageKeeps
  <1>13. QED
    BY <1>12 DEF n

(* A page in front of the root. *)
LEMMA LargePageKeeps ==
  ASSUME NEW m, NEW S, SoundMemory(m, S), NEW size \in Nat \ {0},
         m.root # Sentinel, NEW p \in Pages \ InList(m),
         NEW b, b = [page |-> p, off |-> 0, size |-> size]
  PROVE  b \in Blocks /\ b \notin S /\ SoundMemory(WithLargePage(m, size, p), S \cup {b})
  <1> DEFINE n == WithLargePage(m, size, p)
             before == m.page[m.root].prev
  <1>1. m \in Memory /\ Linked(m) /\ Placed(m, S) /\ NoneIdle(m, S)
    BY DEF SoundMemory
  <1>2. /\ p \in Pages /\ p # Sentinel /\ p # Nil /\ p # m.root /\ p \notin InList(m)
        /\ m.root \in Pages /\ m.root \in InList(m)
        /\ InList(m) \subseteq Pages \cup {Sentinel}
    BY <1>1, PagesAssumption DEF InList, Memory
  <1>3. /\ before \in InList(m) /\ before # m.root /\ before # p /\ m.page[before].next = m.root
        /\ before \in Pages \cup {Sentinel}
    BY <1>1, <1>2 DEF Linked
  <1>4. n \in Memory
    <2>1. [m.page[before] EXCEPT !.next = p] \in PageStates
          /\ [m.page[m.root] EXCEPT !.prev = p] \in PageStates
      BY <1>1, <1>2, <1>3 DEF Memory, PageStates
    <2>2. [prev |-> before, next |-> m.root, busy |-> size, freed |-> 0] \in PageStates
      BY <1>2, <1>3 DEF PageStates
    <2>3. QED
      BY <1>1, <1>2, <1>3, <2>1, <2>2 DEF WithLargePage, Memory
  <1>5. /\ n.root = m.root /\ n.top = m.top
        /\ n.page[p] = [prev |-> before, next |-> m.root, busy |-> size, freed |-> 0]
        /\ n.page[m.root] = [m.page[m.root] EXCEPT !.prev = p]
        /\ n.page[before] = [m.page[before] EXCEPT !.next = p]
        /\ \A x \in Pages \cup {Sentinel} :
             x # p /\ x # m.root /\ x # before => n.page[x] = m.page[x]
    BY <1>1, <1>2, <1>3 DEF WithLargePage, Memory, PageStates
  <1> HIDE DEF n, before
  <1>6. /\ n.page[p].prev = before /\ n.page[p].next = m.root
        /\ n.page[p].busy = size /\ n.page[p].freed = 0
        /\ n.page[m.root].prev = p /\ n.page[before].next = p
        /\ \A x \in Pages \cup {Sentinel} : x # p =>
              /\ n.page[x].busy = m.page[x].busy /\ n.page[x].freed = m.page[x].freed
              /\ x # m.root => n.page[x].prev = m.page[x].prev
              /\ x # before => n.page[x].next = m.page[x].next
    BY <1>1, <1>2, <1>3, <1>5 DEF Memory, PageStates
  <1>7. InList(n) = InList(m) \cup {p}
    <2>1. ASSUME NEW x \in Pages, x # p
          PROVE  n.page[x].next # Nil \/ x = m.root <=> m.page[x].next # Nil \/ x = m.root
      BY <2>1, <1>2, <1>3, <1>6, PagesAssumption
    <2>2. n.page[p].next # Nil
      BY <1>2, <1>6, PagesAssumption
    <2>3. QED
      BY <2>1, <2>2, <1>2, <1>5 DEF InList
  <1>8. Linked(n)
    <2>1. n.page[n.root].next = Nil /\ n.page[Sentinel].prev = Nil
      BY <1>1, <1>2, <1>3, <1>5, <1>6 DEF Linked
    <2>2. ASSUME NEW x \in InList(n) \ {m.root}
          PROVE  n.page[x].next \in InList(n) \ {Sentinel} /\ n.page[n.page[x].next].prev = x
      <3>1. CASE x = p
        BY <3>1, <1>2, <1>6, <1>7
      <3>2. CASE x = before
        BY <3>2, <1>2, <1>6, <1>7
      <3>3. CASE x # p /\ x # before
        <4>1. /\ m.page[x].next \in InList(m) \ {Sentinel} /\ m.page[m.page[x].next].prev = x
              /\ n.page[x].next = m.page[x].next
          BY <3>3, <1>1, <1>2, <1>6, <1>7 DEF Linked
        <4>2. m.page[x].next # m.root
          BY <3>3, <4>1 DEF before
        <4>3. QED
          BY <4>1, <4>2, <1>2, <1>6, <1>7
      <3>4. QED
        BY <3>1, <3>2, <3>3
    <2>3. ASSUME NEW x \in InList(n) \ {Sentinel}
          PROVE  n.page[x].prev \in InList(n) \ {m.root} /\ n.page[n.page[x].prev].next = x
      <3>1. CASE x = p
        BY <3>1, <1>3, <1>6, <1>7
      <3>2. CASE x = m.root
        BY <3>2, <1>2, <1>6, <1>7
      <3>3. CASE x # p /\ x # m.root
        <4>1. /\ m.page[x].prev \in InList(m) \ {m.root} /\ m.page[m.page[x].prev].next = x
              /\ n.page[x].prev = m.page[x].prev
          BY <3>3, <1>1, <1>2, <1>6, <1>7 DEF Linked
        <4>2. m.page[x].prev # before
          BY <3>3, <4>1, <1>3
        <4>3. QED
          BY <4>1, <4>2, <1>2, <1>6, <1>7
      <3>4. QED
        BY <3>1, <3>2, <3>3
    <2>4. QED
      BY <2>1, <2>2, <2>3, <1>5 DEF Linked
  <1>9. ASSUME NEW x \in InList(m) \ {Sentinel}
        PROVE  /\ BusyIn(n, x) = BusyIn(m, x) /\ n.page[x].freed = m.page[x].freed
               /\ UsedIn(S, x) = {} => x = n.root /\ n.top = 0
               /\ x # n.root /\ n.page[x].busy > PageSize =>
                     x # m.root /\ n.page[x].busy = m.page[x].busy
    <2>1. x # p /\ x \in Pages \cup {Sentinel}
      BY <1>2
    <2>2. BusyIn(n, x) = BusyIn(m, x) /\ n.page[x].freed = m.page[x].freed
      BY <2>1, <1>5, <1>6 DEF BusyIn
    <2>3. UsedIn(S, x) = {} => x = n.root /\ n.top = 0
      BY <1>1, <1>5 DEF NoneIdle
    <2>4. QED
      BY <2>1, <2>2, <2>3, <1>5, <1>6
  <1>10. /\ n.root # Sentinel /\ BusyIn(n, p) = size /\ n.page[p].freed = 0
         /\ (p # n.root => n.page[p].busy = size)
    BY <1>2, <1>5, <1>6 DEF BusyIn
  <1>11. b \in Blocks /\ b \notin S /\ SoundMemory(n, S \cup {b})
    <2>1. /\ n \in Memory /\ Linked(n) /\ n.root # Sentinel /\ InList(n) = InList(m) \cup {p}
          /\ BusyIn(n, p) = size /\ n.page[p].freed = 0 /\ (p # n.root => n.page[p].busy = size)
      BY <1>4, <1>7, <1>8, <1>10
    <2>2. \A x \in InList(m) \ {Sentinel} :
            /\ BusyIn(n, x) = BusyIn(m, x) /\ n.page[x].freed = m.page[x].freed
            /\ UsedIn(S, x) = {} => x = n.root /\ n.top = 0
            /\ x # n.root /\ n.page[x].busy > PageSize =>
                  x # m.root /\ n.page[x].busy = m.page[x].busy
      BY <1>9
    <2>3. QED
      BY <2>1, <2>2, NewPageKeeps, SMTT(60)
  <1>12. QED
    BY <1>11 DEF n

(* allocate_memory adds a block to what is in use. *)
LEMMA AllocationKeeps ==
  ASSUME NEW m, NEW S, SoundMemory(m, S), NEW size \in Nat \ {0},
         size <= Threshold \/ m.root # Sentinel,
         NEW r \in Allocations(m, size), r.at # Nil
  PROVE  r.at \in Blocks /\ r.at \notin S /\ SoundMemory(r.m, S \cup {r.at})
  <1>1. CASE m.top + size <= PageSize
    <2>1. /\ r.m = [m EXCEPT !.top = @ + size]
          /\ r.at = [page |-> m.root, off |-> m.top, size |-> size]
      BY <1>1 DEF Allocations
    <2>2. QED
      BY <1>1, <2>1, BumpKeeps
  <1>2. CASE ~(m.top + size <= PageSize)
    <2>1. PICK p \in Pages \ InList(m) :
            /\ r.m = IF size <= Threshold THEN WithNewRoot(m, size, p)
                                         ELSE WithLargePage(m, size, p)
            /\ r.at = [page |-> p, off |-> 0, size |-> size]
      BY <1>2 DEF Allocations
    <2>2. CASE size <= Threshold
      BY <1>2, <2>1, <2>2, NewRootKeeps
    <2>3. CASE ~(size <= Threshold)
      BY <2>1, <2>3, LargePageKeeps
    <2>4. QED
      BY <2>2, <2>3
  <1>3. QED
    BY <1>1, <1>2

------------------------------------------------------------------------------
(* What is left of a page when a block is returned. *)
LEMMA UsedWithout ==
  ASSUME NEW m, NEW S, SoundMemory(m, S), NEW b \in S
  PROVE  /\ b.page \in InList(m) \ {Sentinel}
         /\ b.page \in Pages /\ b.size \in Nat \ {0}
         /\ UsedIn(S, b.page) # {}
         /\ Cardinality(UsedIn(S \ {b}, b.page)) = Cardinality(UsedIn(S, b.page)) - b.size
         /\ IsFiniteSet(UsedIn(S \ {b}, b.page)) /\ Cardinality(UsedIn(S \ {b}, b.page)) \in Nat
         /\ \A p : p # b.page => UsedIn(S \ {b}, p) = UsedIn(S, p)
  <1>1. m \in Memory /\ Placed(m, S) /\ Apart(S) /\ b \in Blocks /\ S \in SUBSET Blocks
    BY DEF SoundMemory, Placed
  <1>2. b.page \in InList(m) /\ b.page \in Pages /\ b.page # Sentinel
    BY <1>1, BlockHasBytes, PagesAssumption DEF Placed
  <1>3. UsedIn(S \ {b}, b.page) = UsedIn(S, b.page) \ Bytes(b)
    BY <1>1, UsedWithLess
  <1>4. Bytes(b) \subseteq UsedIn(S, b.page)
    BY DEF UsedIn
  <1>5. IsFiniteSet(UsedIn(S, b.page))
    BY <1>1, <1>2, UsedIsBelow
  <1>6. IsFiniteSet(Bytes(b)) /\ Cardinality(Bytes(b)) = b.size /\ b.size \in Nat /\ b.size > 0
        /\ Bytes(b) # {}
    BY <1>1, BlockHasBytes
  <1>7. IsFiniteSet(UsedIn(S, b.page) \ Bytes(b))
    BY <1>5, FS_Subset
  <1>8. Cardinality(UsedIn(S, b.page)) = Cardinality(UsedIn(S, b.page) \ Bytes(b)) + b.size
    <2>1. UsedIn(S, b.page) = (UsedIn(S, b.page) \ Bytes(b)) \cup Bytes(b)
          /\ (UsedIn(S, b.page) \ Bytes(b)) \cap Bytes(b) = {}
      BY <1>4
    <2>2. QED
      BY <1>6, <1>7, <2>1, SizeOfBoth
  <1>9. Cardinality(UsedIn(S, b.page) \ Bytes(b)) \in Nat
    BY <1>7, FS_CardinalityType
  <1>10. Cardinality(UsedIn(S \ {b}, b.page)) = Cardinality(UsedIn(S, b.page)) - b.size
    <2>1. \A x, y, z \in Nat : x = y + z => y = x - z
      OBVIOUS
    <2>2. Cardinality(UsedIn(S, b.page)) \in Nat
      BY <1>5, FS_CardinalityType
    <2>3. Cardinality(UsedIn(S, b.page) \ Bytes(b)) = Cardinality(UsedIn(S, b.page)) - b.size
      BY <2>1, <2>2, <1>6, <1>8, <1>9
    <2>4. QED
      BY <2>3, <1>3
  <1>11. \A p : p # b.page => UsedIn(S \ {b}, p) = UsedIn(S, p)
    BY <1>1, UsedWithLess
  <1>12. UsedIn(S, b.page) # {}
    BY <1>4, <1>6
  <1>13. IsFiniteSet(UsedIn(S \ {b}, b.page)) /\ Cardinality(UsedIn(S \ {b}, b.page)) \in Nat
    BY <1>3, <1>7, <1>9
  <1>14. b.size \in Nat \ {0}
    BY <1>6
  <1>15. QED
    BY <1>2, <1>10, <1>11, <1>12, <1>13, <1>14

(* The three outcomes of deallocate_memory: Unlinked, and *)
PartlyFreed(m, b) ==
  [m EXCEPT !.page[b.page] = [@ EXCEPT !.busy = BusyIn(m, b.page),
                                       !.freed = m.page[b.page].freed + b.size]]
RootRestarted(m, b) ==
  [m EXCEPT !.page[b.page] = [@ EXCEPT !.busy = 0, !.freed = 0], !.top = 0]

(* The page keeps something in use. *)
LEMMA PartlyFreedKeeps ==
  ASSUME NEW m, NEW S, SoundMemory(m, S), NEW b \in S,
         m.page[b.page].freed + b.size # BusyIn(m, b.page)
  PROVE  SoundMemory(PartlyFreed(m, b), S \ {b})
  <1> DEFINE p == b.page
             n == [m EXCEPT !.page[p] = [@ EXCEPT !.busy = BusyIn(m, p),
                                                  !.freed = m.page[p].freed + b.size]]
  <1>1. m \in Memory /\ Linked(m) /\ Placed(m, S) /\ Apart(S) /\ Counted(m, S)
        /\ NoneIdle(m, S) /\ LargeIsWhole(m, S)
    BY DEF SoundMemory
  <1>2. /\ p \in InList(m) \ {Sentinel} /\ p \in Pages /\ b.size \in Nat
        /\ Cardinality(UsedIn(S \ {b}, p)) = Cardinality(UsedIn(S, p)) - b.size
        /\ IsFiniteSet(UsedIn(S \ {b}, p)) /\ Cardinality(UsedIn(S \ {b}, p)) \in Nat
        /\ \A x : x # p => UsedIn(S \ {b}, x) = UsedIn(S, x)
    BY UsedWithout
  <1>3. BusyIn(m, p) \in Nat /\ m.page[p].freed \in Nat
    BY <1>1, <1>2, UsedIsBelow DEF Memory, PageStates
  <1>4. n \in Memory /\ n.root = m.root /\ n.top = m.top
    <2>1. m.page[p].freed + b.size \in Nat
      BY <1>2, <1>3
    <2>2. [m.page[p] EXCEPT !.busy = BusyIn(m, p), !.freed = m.page[p].freed + b.size]
            \in PageStates
      BY <1>1, <1>2, <1>3, <2>1 DEF Memory, PageStates
    <2>3. QED
      BY <1>1, <1>2, <2>2 DEF Memory
  <1>5. /\ n.page[p].prev = m.page[p].prev /\ n.page[p].next = m.page[p].next
        /\ n.page[p].busy = BusyIn(m, p) /\ n.page[p].freed = m.page[p].freed + b.size
        /\ \A x \in Pages \cup {Sentinel} : x # p => n.page[x] = m.page[x]
    BY <1>1, <1>2 DEF Memory, PageStates
  <1> HIDE DEF n
  <1> HIDE DEF p
  <1>6. \A x \in Pages \cup {Sentinel} :
          n.page[x].prev = m.page[x].prev /\ n.page[x].next = m.page[x].next
    BY <1>5
  <1>7. InList(n) = InList(m) /\ InList(m) \subseteq Pages \cup {Sentinel}
    BY <1>1, <1>4, <1>6 DEF InList, Memory
  <1>8. Linked(n)
    BY <1>1, <1>4, <1>6, <1>7 DEF Linked, Memory
  <1>9. \A x \in InList(m) : BusyIn(n, x) = BusyIn(m, x)
    BY <1>4, <1>5, <1>7 DEF BusyIn
  <1>10. Placed(n, S \ {b})
    BY <1>1, <1>4, <1>7, <1>9 DEF Placed
  <1>11. Apart(S \ {b})
    BY <1>1 DEF Apart
  <1>12. ASSUME NEW x \in InList(n) \ {Sentinel}
         PROVE  /\ Cardinality(UsedIn(S \ {b}, x)) = BusyIn(n, x) - n.page[x].freed
                /\ UsedIn(S \ {b}, x) = {} => x = n.root /\ n.top = 0
    <2>1. CASE x = p
      <3>1. Cardinality(UsedIn(S, p)) = BusyIn(m, p) - m.page[p].freed
        BY <1>1, <1>2 DEF Counted
      <3>2. Cardinality(UsedIn(S \ {b}, p)) = BusyIn(m, p) - (m.page[p].freed + b.size)
        BY <3>1, <1>2, <1>3
      <3>3. Cardinality(UsedIn(S \ {b}, p)) # 0
        BY <3>2, <1>2, <1>3 DEF p
      <3>4. UsedIn(S \ {b}, p) # {}
        BY <3>3, FS_EmptySet
      <3>5. BusyIn(n, p) = BusyIn(m, p) /\ n.page[p].freed = m.page[p].freed + b.size
        BY <1>2, <1>5, <1>9
      <3>6. QED
        BY <2>1, <3>2, <3>4, <3>5
    <2>2. CASE x # p
      <3>1. /\ UsedIn(S \ {b}, x) = UsedIn(S, x) /\ BusyIn(n, x) = BusyIn(m, x)
            /\ n.page[x] = m.page[x]
        BY <2>2, <1>2, <1>5, <1>7, <1>9
      <3>2. QED
        BY <3>1, <1>1, <1>4, <1>7 DEF Counted, NoneIdle
    <2>3. QED
      BY <2>1, <2>2
  <1>13. LargeIsWhole(n, S \ {b})
    <2>1. ASSUME NEW c \in S, c.page # m.root
          PROVE  n.page[c.page].busy = m.page[c.page].busy
      <3>1. c.page \in Pages \cup {Sentinel}
        BY <1>1, <1>7 DEF Placed
      <3>2. QED
        BY <2>1, <3>1, <1>5 DEF BusyIn
    <2>2. QED
      BY <2>1, <1>1, <1>4 DEF LargeIsWhole
  <1>14. SoundMemory(n, S \ {b})
    BY <1>4, <1>8, <1>10, <1>11, <1>12, <1>13 DEF SoundMemory, Counted, NoneIdle
  <1>15. QED
    BY <1>14 DEF n, p, PartlyFreed

(* Nothing of the page of a block is in use when the block goes: the other *)
(* blocks lie elsewhere.                                                   *)
LEMMA NothingLeft ==
  ASSUME NEW m, NEW S, SoundMemory(m, S), NEW b \in S,
         m.page[b.page].freed + b.size = BusyIn(m, b.page)
  PROVE  /\ UsedIn(S \ {b}, b.page) = {}
         /\ \A c \in S \ {b} : c.page # b.page
  <1>1. m \in Memory /\ Placed(m, S) /\ Counted(m, S)
    BY DEF SoundMemory
  <1>2. /\ b.page \in InList(m) \ {Sentinel} /\ b.page \in Pages /\ b.size \in Nat \ {0}
        /\ Cardinality(UsedIn(S \ {b}, b.page)) = Cardinality(UsedIn(S, b.page)) - b.size
        /\ IsFiniteSet(UsedIn(S \ {b}, b.page))
    BY UsedWithout
  <1>3. BusyIn(m, b.page) \in Nat /\ m.page[b.page].freed \in Nat
    BY <1>1, <1>2, UsedIsBelow DEF Memory, PageStates
  <1>4. Cardinality(UsedIn(S, b.page)) = BusyIn(m, b.page) - m.page[b.page].freed
    BY <1>1, <1>2 DEF Counted
  <1>5. Cardinality(UsedIn(S \ {b}, b.page)) = 0
    <2>1. \A u, f, n, x, y \in Int : f + n = u /\ x = u - f /\ y = x - n => y = 0
      OBVIOUS
    <2>2. Cardinality(UsedIn(S, b.page)) \in Int /\ Cardinality(UsedIn(S \ {b}, b.page)) \in Int
      BY <1>2, <1>3, <1>4
    <2>3. QED
      BY <2>1, <2>2, <1>2, <1>3, <1>4
  <1>6. UsedIn(S \ {b}, b.page) = {}
    BY <1>2, <1>5, FS_EmptySet
  <1>7. ASSUME NEW c \in S \ {b}, c.page = b.page
        PROVE  FALSE
    <2>1. c.off \in Bytes(c)
      BY <1>1, BlockHasBytes DEF Placed
    <2>2. Bytes(c) \subseteq UsedIn(S \ {b}, b.page)
      BY <1>7 DEF UsedIn
    <2>3. QED
      BY <2>1, <2>2, <1>6
  <1>8. QED
    BY <1>6, <1>7

(* The root starts again. *)
LEMMA RootRestartKeeps ==
  ASSUME NEW m, NEW S, SoundMemory(m, S), NEW b \in S, b.page = m.root,
         m.page[b.page].freed + b.size = BusyIn(m, b.page)
  PROVE  SoundMemory(RootRestarted(m, b), S \ {b})
  <1> DEFINE p == b.page
             n == [m EXCEPT !.page[p] = [@ EXCEPT !.busy = 0, !.freed = 0], !.top = 0]
  <1>1. m \in Memory /\ Linked(m) /\ Placed(m, S) /\ Apart(S) /\ Counted(m, S)
        /\ NoneIdle(m, S) /\ LargeIsWhole(m, S)
    BY DEF SoundMemory
  <1>2. /\ p \in InList(m) \ {Sentinel} /\ p \in Pages /\ p = m.root
        /\ \A x : x # p => UsedIn(S \ {b}, x) = UsedIn(S, x)
    BY UsedWithout
  <1>3. UsedIn(S \ {b}, p) = {} /\ \A c \in S \ {b} : c.page # p
    BY NothingLeft
  <1>4. n \in Memory /\ n.root = m.root /\ n.top = 0
    <2>1. [m.page[p] EXCEPT !.busy = 0, !.freed = 0] \in PageStates
      BY <1>1, <1>2 DEF Memory, PageStates
    <2>2. [m.page EXCEPT ![p] = [@ EXCEPT !.busy = 0, !.freed = 0]]
            \in [Pages \cup {Sentinel} -> PageStates]
      BY <1>1, <1>2, <2>1 DEF Memory, PageStates
    <2>3. 0 \in 0 .. PageSize
      BY SizesAssumption
    <2>4. QED
      BY <1>1, <2>2, <2>3 DEF Memory
  <1>5. /\ n.page[p].prev = m.page[p].prev /\ n.page[p].next = m.page[p].next
        /\ n.page[p].freed = 0
        /\ \A x \in Pages \cup {Sentinel} : x # p => n.page[x] = m.page[x]
    BY <1>1, <1>2 DEF Memory, PageStates
  <1> HIDE DEF n
  <1> HIDE DEF p
  <1>6. \A x \in Pages \cup {Sentinel} :
          n.page[x].prev = m.page[x].prev /\ n.page[x].next = m.page[x].next
    BY <1>5
  <1>7. InList(n) = InList(m) /\ InList(m) \subseteq Pages \cup {Sentinel}
    BY <1>1, <1>4, <1>6 DEF InList, Memory
  <1>8. Linked(n)
    BY <1>1, <1>2, <1>4, <1>6, <1>7 DEF Linked, Memory
  <1>9. ASSUME NEW x \in InList(m) \ {p}
        PROVE  BusyIn(n, x) = BusyIn(m, x) /\ n.page[x] = m.page[x]
    BY <1>2, <1>4, <1>5, <1>7 DEF BusyIn
  <1>10. Placed(n, S \ {b})
    BY <1>1, <1>2, <1>3, <1>4, <1>7, <1>9 DEF Placed
  <1>11. Apart(S \ {b})
    BY <1>1 DEF Apart
  <1>12. ASSUME NEW x \in InList(n) \ {Sentinel}
         PROVE  /\ Cardinality(UsedIn(S \ {b}, x)) = BusyIn(n, x) - n.page[x].freed
                /\ UsedIn(S \ {b}, x) = {} => x = n.root /\ n.top = 0
    <2>1. CASE x = p
      <3>1. Cardinality(UsedIn(S \ {b}, x)) = 0
        BY <2>1, <1>3, FS_EmptySet
      <3>2. BusyIn(n, x) = 0 /\ n.page[x].freed = 0
        BY <2>1, <1>2, <1>4, <1>5 DEF BusyIn
      <3>3. QED
        BY <2>1, <3>1, <3>2, <1>2, <1>4
    <2>2. CASE x # p
      <3>1. /\ UsedIn(S \ {b}, x) = UsedIn(S, x) /\ BusyIn(n, x) = BusyIn(m, x)
            /\ n.page[x] = m.page[x]
        BY <2>2, <1>2, <1>7, <1>9
      <3>2. QED
        BY <2>2, <3>1, <1>1, <1>2, <1>7 DEF Counted, NoneIdle
    <2>3. QED
      BY <2>1, <2>2
  <1>13. LargeIsWhole(n, S \ {b})
    BY <1>1, <1>2, <1>3, <1>4, <1>9 DEF LargeIsWhole, Placed
  <1>14. SoundMemory(n, S \ {b})
    BY <1>4, <1>8, <1>10, <1>11, <1>12, <1>13 DEF SoundMemory, Counted, NoneIdle
  <1>15. QED
    BY <1>14 DEF n, p, RootRestarted

(* A page that is not the root leaves the list. *)
LEMMA PageGivenBackKeeps ==
  ASSUME NEW m, NEW S, SoundMemory(m, S), NEW b \in S, b.page # m.root,
         m.page[b.page].freed + b.size = BusyIn(m, b.page)
  PROVE  SoundMemory(Unlinked(m, b.page), S \ {b})
  <1> DEFINE p      == b.page
             n      == Unlinked(m, p)
             before == m.page[p].prev
             after  == m.page[p].next
  <1>1. m \in Memory /\ Linked(m) /\ Placed(m, S) /\ Apart(S) /\ Counted(m, S)
        /\ NoneIdle(m, S) /\ LargeIsWhole(m, S)
    BY DEF SoundMemory
  <1>2. /\ p \in InList(m) \ {Sentinel} /\ p \in Pages /\ p # m.root /\ p # Nil
        /\ \A x : x # p => UsedIn(S \ {b}, x) = UsedIn(S, x)
    BY UsedWithout, PagesAssumption
  <1>3. \A c \in S \ {b} : c.page # p
    BY NothingLeft
  <1>4. InList(m) \subseteq Pages \cup {Sentinel} /\ m.root \in InList(m)
    BY <1>1 DEF InList, Memory
  <1>5. /\ before \in InList(m) \ {m.root} /\ m.page[before].next = p
        /\ after \in InList(m) \ {Sentinel} /\ m.page[after].prev = p
        /\ before \in Pages \cup {Sentinel} /\ after \in Pages
    BY <1>1, <1>2, <1>4 DEF Linked
  <1>6. n.root = m.root /\ n.top = m.top
        /\ n.page = [m.page EXCEPT ![before].next = after, ![after].prev = before,
                                   ![p] = Unused]
    BY <1>1 DEF Unlinked, Memory
  <1> HIDE DEF n, before, after
  <1>7. n.page \in [Pages \cup {Sentinel} -> PageStates]
    <2>1. Unused \in PageStates
      BY DEF Unused, PageStates
    <2>2. [m.page EXCEPT ![before].next = after] \in [Pages \cup {Sentinel} -> PageStates]
      BY <1>1, <1>5 DEF Memory, PageStates
    <2>3. [m.page EXCEPT ![before].next = after, ![after].prev = before]
            \in [Pages \cup {Sentinel} -> PageStates]
      BY <2>2, <1>5 DEF PageStates
    <2>4. QED
      BY <2>1, <2>3, <1>6
  <1>8. n \in Memory
    <2>1. n = [page |-> n.page, root |-> n.root, top |-> n.top]
      BY <1>1 DEF n, Unlinked, Memory
    <2>2. QED
      BY <2>1, <1>1, <1>6, <1>7 DEF Memory
  <1>9. /\ n.page[p].next = Nil
        /\ \A x \in Pages \cup {Sentinel} : x # p =>
              /\ n.page[x].busy = m.page[x].busy /\ n.page[x].freed = m.page[x].freed
              /\ n.page[x].next = IF x = before THEN after ELSE m.page[x].next
              /\ n.page[x].prev = IF x = after THEN before ELSE m.page[x].prev
    BY <1>1, <1>2, <1>5, <1>6 DEF Memory, PageStates, Unused
  <1>10. InList(n) = InList(m) \ {p}
    <2>1. ASSUME NEW x \in Pages, x # p
          PROVE  n.page[x].next # Nil <=> m.page[x].next # Nil
      BY <2>1, <1>2, <1>5, <1>9, PagesAssumption
    <2>2. QED
      BY <2>1, <1>2, <1>6, <1>9 DEF InList
  <1>11. Linked(n)
    <2>1. n.page[n.root].next = Nil /\ n.page[Sentinel].prev = Nil
      BY <1>1, <1>2, <1>4, <1>5, <1>6, <1>9 DEF Linked
    <2>2. ASSUME NEW x \in InList(n) \ {m.root}
          PROVE  n.page[x].next \in InList(n) \ {Sentinel} /\ n.page[n.page[x].next].prev = x
      <3>1. CASE x = before
        <4>1. n.page[x].next = after /\ after # p
          BY <3>1, <1>4, <1>5, <1>9, <1>10 DEF before
        <4>2. QED
          BY <3>1, <4>1, <1>5, <1>9, <1>10
      <3>2. CASE x # before
        <4>1. /\ m.page[x].next \in InList(m) \ {Sentinel} /\ m.page[m.page[x].next].prev = x
              /\ n.page[x].next = m.page[x].next
          BY <3>2, <1>1, <1>4, <1>9, <1>10 DEF Linked
        <4>2. m.page[x].next # p /\ m.page[x].next # after
          BY <3>2, <4>1, <1>5, <1>10 DEF before
        <4>3. QED
          BY <4>1, <4>2, <1>4, <1>9, <1>10
      <3>3. QED
        BY <3>1, <3>2
    <2>3. ASSUME NEW x \in InList(n) \ {Sentinel}
          PROVE  n.page[x].prev \in InList(n) \ {m.root} /\ n.page[n.page[x].prev].next = x
      <3>1. CASE x = after
        <4>1. n.page[x].prev = before /\ before # p
          BY <3>1, <1>4, <1>5, <1>9, <1>10 DEF after
        <4>2. QED
          BY <3>1, <4>1, <1>5, <1>9, <1>10
      <3>2. CASE x # after
        <4>1. /\ m.page[x].prev \in InList(m) \ {m.root} /\ m.page[m.page[x].prev].next = x
              /\ n.page[x].prev = m.page[x].prev
          BY <3>2, <1>1, <1>4, <1>9, <1>10 DEF Linked
        <4>2. m.page[x].prev # p /\ m.page[x].prev # before
          BY <3>2, <4>1, <1>5, <1>10 DEF after
        <4>3. QED
          BY <4>1, <4>2, <1>4, <1>9, <1>10
      <3>3. QED
        BY <3>1, <3>2
    <2>4. m.root = Sentinel => m.top = PageSize
      BY <1>1 DEF Linked
    <2>5. QED
      BY <2>1, <2>2, <2>3, <2>4, <1>6 DEF Linked
  <1>12. ASSUME NEW x \in InList(n)
         PROVE  BusyIn(n, x) = BusyIn(m, x) /\ n.page[x].freed = m.page[x].freed
    BY <1>4, <1>6, <1>9, <1>10 DEF BusyIn
  <1>13. Placed(n, S \ {b})
    BY <1>1, <1>3, <1>6, <1>10, <1>12 DEF Placed
  <1>14. Apart(S \ {b})
    BY <1>1 DEF Apart
  <1>15. ASSUME NEW x \in InList(n) \ {Sentinel}
         PROVE  /\ Cardinality(UsedIn(S \ {b}, x)) = BusyIn(n, x) - n.page[x].freed
                /\ UsedIn(S \ {b}, x) = {} => x = n.root /\ n.top = 0
    <2>1. x \in InList(m) \ {Sentinel} /\ UsedIn(S \ {b}, x) = UsedIn(S, x)
      BY <1>2, <1>10
    <2>2. QED
      BY <2>1, <1>1, <1>6, <1>12 DEF Counted, NoneIdle
  <1>16. LargeIsWhole(n, S \ {b})
    <2>1. ASSUME NEW c \in S \ {b}
          PROVE  n.page[c.page].busy = m.page[c.page].busy
      <3>1. c.page \in Pages \cup {Sentinel} /\ c.page # p
        BY <1>1, <1>3, <1>4 DEF Placed
      <3>2. QED
        BY <3>1, <1>9
    <2>2. QED
      BY <2>1, <1>1, <1>6 DEF LargeIsWhole
  <1>17. SoundMemory(n, S \ {b})
    BY <1>8, <1>11, <1>13, <1>14, <1>15, <1>16 DEF SoundMemory, Counted, NoneIdle
  <1>18. QED
    BY <1>17 DEF n, p

(* deallocate_memory takes a block out of what is in use. *)
LEMMA DeallocationKeeps ==
  ASSUME NEW m, NEW S, SoundMemory(m, S), NEW b \in S
  PROVE  SoundMemory(Deallocated(m, b, b.size), S \ {b})
  <1>1. CASE m.page[b.page].freed + b.size # BusyIn(m, b.page)
    <2>1. Deallocated(m, b, b.size) = PartlyFreed(m, b)
      BY <1>1 DEF Deallocated, BusyIn, PartlyFreed
    <2>2. QED
      BY <1>1, <2>1, PartlyFreedKeeps
  <1>2. CASE m.page[b.page].freed + b.size = BusyIn(m, b.page) /\ b.page = m.root
    <2>1. Deallocated(m, b, b.size) = RootRestarted(m, b)
      BY <1>2 DEF Deallocated, BusyIn, RootRestarted
    <2>2. QED
      BY <1>2, <2>1, RootRestartKeeps
  <1>3. CASE m.page[b.page].freed + b.size = BusyIn(m, b.page) /\ b.page # m.root
    <2>1. Deallocated(m, b, b.size) = Unlinked(m, b.page)
      BY <1>3 DEF Deallocated, BusyIn
    <2>2. QED
      BY <1>3, <2>1, PageGivenBackKeeps
  <1>4. QED
    BY <1>1, <1>2, <1>3

(* The size in the header of a string, or 0 for one that does not fit, is  *)
(* enough to give back the whole string and no more.                       *)
LEMMA StringSizeIsRight ==
  ASSUME NEW m, NEW S, SoundMemory(m, S), NEW b \in S
  PROVE  StringDeallocated(m, b) = Deallocated(m, b, b.size)
  <1>1. CASE b.size < MaxFullSize
    BY <1>1 DEF StringDeallocated
  <1>2. CASE ~(b.size < MaxFullSize)
    <2>1. m \in Memory /\ Placed(m, S) /\ LargeIsWhole(m, S)
      BY DEF SoundMemory
    <2>2. /\ b.page \in Pages /\ b.off \in Nat /\ b.size \in Nat
          /\ b.off + b.size <= BusyIn(m, b.page)
      BY <2>1, BlockHasBytes DEF Placed
    <2>3. b.size > PageSize
      BY <1>2, <2>2, SizesAssumption
    <2>4. b.page # m.root
      <3>1. m.top \in Nat /\ m.top <= PageSize
        BY <2>1, SizesAssumption DEF Memory
      <3>2. QED
        BY <3>1, <2>2, <2>3, SizesAssumption DEF BusyIn
    <2>5. m.page[b.page].busy > PageSize
      <3>1. m.page[b.page].busy \in Nat /\ b.off + b.size <= m.page[b.page].busy
        BY <2>1, <2>2, <2>4 DEF Memory, PageStates, BusyIn
      <3>2. QED
        BY <3>1, <2>2, <2>3, SizesAssumption
    <2>6. b.size = m.page[b.page].busy
      BY <2>1, <2>4, <2>5 DEF LargeIsWhole
    <2>7. QED
      BY <1>2, <2>6 DEF StringDeallocated
  <1>3. QED
    BY <1>1, <1>2

------------------------------------------------------------------------------
(* The state.                                                              *)

Slots == /\ block \in [Objects -> Blocks \cup {Nil}]
         /\ text \in [Objects -> Texts]
         /\ \A o \in Objects : /\ block[o] = Nil => text[o] = NoText
                               /\ block[o] # Nil => block[o].size = ObjectSize
                               /\ text[o].len <= text[o].room

(* No block is in use for two purposes. *)
Distinct ==
  \A o, p \in Objects :
    /\ block[o] # Nil /\ text[p].st = "heap" => block[o] # text[p].at
    /\ o # p /\ block[o] # Nil /\ block[p] # Nil => block[o] # block[p]
    /\ o # p /\ text[o].st = "heap" /\ text[p].st = "heap" => text[o].at # text[p].at

Invariant == SoundMemory(Mem, InUse) /\ Slots /\ Distinct

(* A text is in a block when it is in the heap, and only then. *)
LEMMA TextKinds ==
  ASSUME NEW t \in Texts
  PROVE  /\ t.st = "heap" => t.at \in Blocks /\ t.at # Nil
         /\ t.st # "heap" => t.at = Nil
         /\ t.len \in Nat /\ t.room \in Nat
         /\ t.st = "none" => t = NoText
  BY PagesAssumption DEF Texts, NoText, Blocks

(* No text is a text, of no length and in no block. *)
LEMMA NoTextIsText ==
  NoText \in Texts /\ NoText.st = "none" /\ NoText.len = 0 /\ NoText.room = 0
  BY DEF Texts, NoText

(* There are no bytes in use of any page before there is a page. *)
LEMMA CreatedIsSound ==
  ASSUME NEW m, m = [page |-> [p \in Pages \cup {Sentinel} |->
                                 IF p = Sentinel THEN [Unused EXCEPT !.busy = PageSize]
                                                 ELSE Unused],
                     root |-> Sentinel, top |-> PageSize]
  PROVE  SoundMemory(m, {})
  <1>1. Unused \in PageStates /\ [Unused EXCEPT !.busy = PageSize] \in PageStates
    BY SizesAssumption DEF Unused, PageStates
  <1>2. m \in Memory
    <2>1. m.page \in [Pages \cup {Sentinel} -> PageStates]
      BY <1>1
    <2>2. m.top \in 0 .. PageSize
      BY SizesAssumption
    <2>3. QED
      BY <2>1, <2>2 DEF Memory
  <1>3. /\ m.root = Sentinel /\ m.top = PageSize
        /\ \A p \in Pages \cup {Sentinel} : m.page[p].next = Nil /\ m.page[p].prev = Nil
    BY DEF Unused
  <1>4. InList(m) = {Sentinel}
    BY <1>3 DEF InList
  <1>5. Linked(m)
    BY <1>3, <1>4 DEF Linked
  <1>6. Placed(m, {}) /\ Apart({}) /\ LargeIsWhole(m, {})
    BY DEF Placed, Apart, LargeIsWhole
  <1>7. Counted(m, {}) /\ NoneIdle(m, {})
    BY <1>4 DEF Counted, NoneIdle
  <1>8. QED
    BY <1>2, <1>5, <1>6, <1>7 DEF SoundMemory

(* What Becomes says of the variables, as a value. *)
LEMMA BecomesIsNext ==
  ASSUME NEW m \in Memory, Becomes(m)
  PROVE  Mem' = m
  BY DEF Memory, Mem, Becomes

(* The block of a text. *)
BlocksOf(t) == IF t.st = "heap" THEN {t.at} ELSE {}

(* The text goes, and its block if it has one. *)
LEMMA TextFreedKeeps ==
  ASSUME NEW m, NEW S, SoundMemory(m, S), NEW t, BlocksOf(t) \subseteq S
  PROVE  SoundMemory(TextFreed(m, t), S \ BlocksOf(t))
  <1>1. CASE t.st = "heap"
    <2>1. t.at \in S /\ S \ BlocksOf(t) = S \ {t.at}
      BY <1>1 DEF BlocksOf
    <2>2. TextFreed(m, t) = Deallocated(m, t.at, t.at.size)
      BY <1>1, <2>1, StringSizeIsRight DEF TextFreed
    <2>3. QED
      BY <2>1, <2>2, DeallocationKeeps
  <1>2. CASE t.st # "heap"
    <2>1. S \ BlocksOf(t) = S /\ TextFreed(m, t) = m
      BY <1>2 DEF BlocksOf, TextFreed
    <2>2. QED
      BY <2>1
  <1>3. QED
    BY <1>1, <1>2

(* What is in use belongs to an object. *)
LEMMA UsesOf ==
  /\ \A o \in Objects : /\ block[o] # Nil => block[o] \in InUse
                        /\ BlocksOf(text[o]) \subseteq InUse
  /\ \A b \in InUse : \E o \in Objects : \/ block[o] # Nil /\ b = block[o]
                                         \/ text[o].st = "heap" /\ b = text[o].at
  BY DEF InUse, BlocksOf

(* The same of the next state. *)
LEMMA UsesOfNext ==
  /\ \A o \in Objects : /\ block'[o] # Nil => block'[o] \in InUse'
                        /\ BlocksOf(text'[o]) \subseteq InUse'
  /\ \A b \in InUse' : \E o \in Objects : \/ block'[o] # Nil /\ b = block'[o]
                                          \/ text'[o].st = "heap" /\ b = text'[o].at
  BY DEF InUse, BlocksOf

(* An object without a text of its own comes into being in a new block. *)
LEMMA CreateKeeps ==
  ASSUME Invariant, NEW o \in Objects, Create(o)
  PROVE  Invariant'
  <1>1. SoundMemory(Mem, InUse) /\ Slots /\ Distinct
    BY DEF Invariant
  <1>2. PICK r \in Allocations(Mem, ObjectSize) :
          r.at # Nil /\ Becomes(r.m) /\ block' = [block EXCEPT ![o] = r.at]
    BY DEF Create
  <1>3. PICK t : /\ t \in Texts /\ t.st # "heap" /\ t.len <= t.room
                 /\ text' = [text EXCEPT ![o] = t]
    <2>1. PICK len \in ParsedLengths \cup {0} :
            text' = [text EXCEPT ![o] = IF len = 0 THEN NoText
                       ELSE [st |-> "buffer", len |-> len, room |-> len, at |-> Nil]]
      BY DEF Create
    <2>2. len \in Nat
      BY SizesAssumption
    <2>3. [st |-> "buffer", len |-> len, room |-> len, at |-> Nil] \in Texts
      BY <2>2 DEF Texts
    <2>4. CASE len = 0
      <3>1. text' = [text EXCEPT ![o] = NoText]
        BY <2>1, <2>4
      <3>2. NoText \in Texts /\ NoText.st # "heap" /\ NoText.len <= NoText.room
        BY NoTextIsText
      <3>3. QED
        BY <3>1, <3>2
    <2>5. CASE len # 0
      <3> DEFINE u == [st |-> "buffer", len |-> len, room |-> len, at |-> Nil]
      <3>1. text' = [text EXCEPT ![o] = u]
        BY <2>1, <2>5
      <3>2. u \in Texts /\ u.st # "heap" /\ u.len <= u.room
        BY <2>2, <2>3
      <3> HIDE DEF u
      <3>3. QED
        BY <3>1, <3>2
    <2>6. QED
      BY <2>4, <2>5
  <1>4. block[o] = Nil /\ text[o].st # "heap"
    BY <1>1, NoTextIsText DEF Create, Slots
  <1>5. r.at \in Blocks /\ r.at \notin InUse /\ SoundMemory(r.m, InUse \cup {r.at})
    <2>1. ObjectSize \in Nat \ {0} /\ ObjectSize <= Threshold
      BY SizesAssumption DEF Threshold
    <2>2. QED
      BY <1>1, <1>2, <2>1, AllocationKeeps
  <1>6. r.at.size = ObjectSize
    BY <1>2 DEF Allocations
  <1>7. Slots'
    BY <1>1, <1>2, <1>3, <1>5, <1>6 DEF Slots
  <1>8. InUse' = InUse \cup {r.at}
    <2>1. block'[o] = r.at /\ text'[o] = t
          /\ \A p \in Objects : p # o => block'[p] = block[p] /\ text'[p] = text[p]
      BY <1>1, <1>2, <1>3 DEF Slots
    <2>2. InUse' \subseteq InUse \cup {r.at}
      BY <2>1, <1>3, UsesOf, UsesOfNext DEF BlocksOf
    <2>3. InUse \cup {r.at} \subseteq InUse'
      BY <2>1, <1>2, <1>4, UsesOf, UsesOfNext DEF BlocksOf
    <2>4. QED
      BY <2>2, <2>3
  <1>9. Distinct'
    BY <1>1, <1>2, <1>3, <1>4, <1>5, UsesOf DEF Slots, Distinct, BlocksOf
  <1>10. SoundMemory(Mem, InUse)'
    <2>1. Mem' = r.m
      BY <1>2, <1>5, BecomesIsNext DEF SoundMemory
    <2>2. QED
      BY <2>1, <1>5, <1>8
  <1>11. QED
    BY <1>7, <1>9, <1>10 DEF Invariant

(* The block of the text, if it had one, is returned. *)
LEMMA ClearKeeps ==
  ASSUME Invariant, NEW o \in Objects, Clear(o)
  PROVE  Invariant'
  <1> DEFINE t == text[o]
  <1>1. SoundMemory(Mem, InUse) /\ Slots /\ Distinct
    BY DEF Invariant
  <1>2. block' = block /\ text' = [text EXCEPT ![o] = NoText] /\ Becomes(TextFreed(Mem, t))
    BY DEF Clear
  <1>3. SoundMemory(TextFreed(Mem, t), InUse \ BlocksOf(t))
    BY <1>1, UsesOf, TextFreedKeeps
  <1>4. text'[o] = NoText /\ \A p \in Objects : p # o => text'[p] = text[p]
    BY <1>1, <1>2 DEF Slots
  <1>5. Slots'
    BY <1>1, <1>2, <1>4, NoTextIsText DEF Slots
  <1>6. InUse' = InUse \ BlocksOf(t)
    <2>1. InUse' \subseteq InUse \ BlocksOf(t)
      BY <1>1, <1>2, <1>4, NoTextIsText, UsesOf, UsesOfNext DEF BlocksOf, Distinct
    <2>2. InUse \ BlocksOf(t) \subseteq InUse'
      BY <1>1, <1>2, <1>4, UsesOf, UsesOfNext DEF BlocksOf
    <2>3. QED
      BY <2>1, <2>2
  <1>7. Distinct'
    BY <1>1, <1>2, <1>4, NoTextIsText DEF Distinct
  <1>8. SoundMemory(Mem, InUse)'
    <2>1. Mem' = TextFreed(Mem, t)
      BY <1>2, <1>3, BecomesIsNext DEF SoundMemory
    <2>2. QED
      BY <2>1, <1>3, <1>6
  <1>9. QED
    BY <1>5, <1>7, <1>8 DEF Invariant

(* A text is written over the old one. *)
LEMMA OverwriteKeeps ==
  ASSUME Invariant, NEW o \in Objects, NEW length \in Lengths, Overwrite(o, length)
  PROVE  Invariant'
  <1>1. SoundMemory(Mem, InUse) /\ Slots /\ Distinct
    BY DEF Invariant
  <1>2. /\ block' = block /\ Mem' = Mem /\ text[o].st # "none" /\ length <= text[o].len
        /\ text' = [text EXCEPT ![o] = [@ EXCEPT !.len = length]] /\ block[o] # Nil
    BY <1>1, TextKinds, SizesAssumption DEF Overwrite, Reuse, Mem, mem, Slots
  <1>3. text[o] \in Texts /\ length \in Nat
    BY <1>1, SizesAssumption DEF Slots
  <1>4. [text[o] EXCEPT !.len = length] \in Texts
    BY <1>2, <1>3 DEF Texts, NoText
  <1>5. /\ text'[o].st = text[o].st /\ text'[o].at = text[o].at
        /\ text'[o].len = length /\ text'[o].room = text[o].room
        /\ \A p \in Objects : p # o => text'[p] = text[p]
    BY <1>1, <1>2, <1>3 DEF Slots, Texts, NoText
  <1>6. Slots'
    <2>1. length <= text[o].room
      BY <1>1, <1>2, <1>3, TextKinds DEF Slots
    <2>2. QED
      BY <1>1, <1>2, <1>4, <1>5, <2>1 DEF Slots
  <1>7. \A p \in Objects : text'[p].st = text[p].st /\ text'[p].at = text[p].at
    BY <1>5
  <1>8. InUse' = InUse
    <2>1. InUse' \subseteq InUse
      BY <1>2, <1>7, UsesOf, UsesOfNext DEF BlocksOf
    <2>2. InUse \subseteq InUse'
      BY <1>2, <1>7, UsesOf, UsesOfNext DEF BlocksOf
    <2>3. QED
      BY <2>1, <2>2
  <1>9. Distinct'
    BY <1>1, <1>2, <1>7 DEF Distinct
  <1>10. QED
    BY <1>1, <1>2, <1>6, <1>8, <1>9 DEF Invariant

(* There is memory for the new text; then the old one is returned. *)
LEMMA ReplaceKeeps ==
  ASSUME Invariant, NEW o \in Objects, NEW length \in Lengths, Replace(o, length)
  PROVE  Invariant'
  <1> DEFINE t == text[o]
  <1>1. SoundMemory(Mem, InUse) /\ Slots /\ Distinct
    BY DEF Invariant
  <1>2. block' = block /\ block[o] # Nil
    BY DEF Replace
  <1>3. PICK r \in Allocations(Mem, length) :
          /\ r.at # Nil /\ Becomes(TextFreed(r.m, t))
          /\ text' = [text EXCEPT ![o] = [st |-> "heap", len |-> length, room |-> length,
                                          at |-> r.at]]
    BY DEF Replace
  <1>4. r.at \in Blocks /\ r.at \notin InUse /\ SoundMemory(r.m, InUse \cup {r.at})
    <2>1. length \in Nat \ {0}
      BY SizesAssumption
    <2>2. Mem.root # Sentinel
      BY <1>1, <1>2, UsesOf DEF SoundMemory, Placed
    <2>3. QED
      BY <1>1, <1>3, <2>1, <2>2, AllocationKeeps
  <1>5. BlocksOf(t) \subseteq InUse /\ r.at \notin BlocksOf(t)
    BY <1>4, UsesOf
  <1>6. SoundMemory(TextFreed(r.m, t), (InUse \cup {r.at}) \ BlocksOf(t))
    BY <1>4, <1>5, TextFreedKeeps
  <1>7. PICK u : /\ u \in Texts /\ u.st = "heap" /\ u.at = r.at /\ u.len <= u.room
                 /\ text' = [text EXCEPT ![o] = u]
    <2> DEFINE u == [st |-> "heap", len |-> length, room |-> length, at |-> r.at]
    <2>1. length \in Nat
      BY SizesAssumption
    <2>2. u \in Texts
      BY <2>1, <1>4 DEF Texts
    <2>3. u.st = "heap" /\ u.at = r.at /\ u.len <= u.room
      BY <2>1
    <2>4. text' = [text EXCEPT ![o] = u]
      BY <1>3
    <2> HIDE DEF u
    <2>5. QED
      BY <2>2, <2>3, <2>4
  <1>8. text'[o] = u /\ \A p \in Objects : p # o => text'[p] = text[p]
    BY <1>1, <1>7 DEF Slots
  <1>9. Slots'
    BY <1>1, <1>2, <1>7, <1>8 DEF Slots
  <1>10. InUse' = (InUse \cup {r.at}) \ BlocksOf(t)
    <2>1. ASSUME NEW b \in InUse'
          PROVE  b \in (InUse \cup {r.at}) \ BlocksOf(t)
      <3>1. PICK p \in Objects : \/ block'[p] # Nil /\ b = block'[p]
                                 \/ text'[p].st = "heap" /\ b = text'[p].at
        BY UsesOfNext
      <3>2. CASE block'[p] # Nil /\ b = block'[p]
        BY <3>2, <1>1, <1>2, UsesOf DEF BlocksOf, Distinct
      <3>3. CASE text'[p].st = "heap" /\ b = text'[p].at /\ p = o
        BY <3>3, <1>5, <1>7, <1>8
      <3>4. CASE text'[p].st = "heap" /\ b = text'[p].at /\ p # o
        BY <3>4, <1>1, <1>8, UsesOf DEF BlocksOf, Distinct
      <3>5. QED
        BY <3>1, <3>2, <3>3, <3>4
    <2>2. ASSUME NEW b \in (InUse \cup {r.at}) \ BlocksOf(t)
          PROVE  b \in InUse'
      <3>1. CASE b = r.at
        BY <3>1, <1>7, <1>8, UsesOfNext DEF BlocksOf
      <3>2. CASE b # r.at
        <4>1. PICK p \in Objects : \/ block[p] # Nil /\ b = block[p]
                                   \/ text[p].st = "heap" /\ b = text[p].at
          BY <3>2, UsesOf
        <4>2. CASE block[p] # Nil /\ b = block[p]
          BY <4>2, <1>2, UsesOfNext
        <4>3. CASE text[p].st = "heap" /\ b = text[p].at
          <5>1. p # o
            BY <4>3 DEF BlocksOf
          <5>2. QED
            BY <4>3, <5>1, <1>8, UsesOfNext DEF BlocksOf
        <4>4. QED
          BY <4>1, <4>2, <4>3
      <3>3. QED
        BY <3>1, <3>2
    <2>3. QED
      BY <2>1, <2>2
  <1>11. Distinct'
    <2>1. \A p \in Objects : /\ block[p] # Nil => block[p] # r.at
                             /\ text[p].st = "heap" => text[p].at # r.at
      BY <1>4, UsesOf DEF BlocksOf
    <2>2. QED
      BY <2>1, <1>1, <1>2, <1>7, <1>8 DEF Distinct
  <1>12. SoundMemory(Mem, InUse)'
    <2>1. Mem' = TextFreed(r.m, t)
      BY <1>3, <1>6, BecomesIsNext DEF SoundMemory
    <2>2. QED
      BY <2>1, <1>6, <1>10
  <1>13. QED
    BY <1>9, <1>11, <1>12 DEF Invariant

(* The text goes, then the object. *)
LEMMA DestroyKeeps ==
  ASSUME Invariant, NEW o \in Objects, Destroy(o)
  PROVE  Invariant'
  <1> DEFINE t == text[o]
             left == InUse \ BlocksOf(t)
  <1>1. SoundMemory(Mem, InUse) /\ Slots /\ Distinct
    BY DEF Invariant
  <1>2. /\ block[o] # Nil /\ block' = [block EXCEPT ![o] = Nil]
        /\ text' = [text EXCEPT ![o] = NoText]
        /\ Becomes(Deallocated(TextFreed(Mem, t), block[o], ObjectSize))
    BY DEF Destroy
  <1>3. SoundMemory(TextFreed(Mem, t), left)
    BY <1>1, UsesOf, TextFreedKeeps
  <1>4. block[o] \in left /\ block[o].size = ObjectSize
    BY <1>1, <1>2, UsesOf DEF BlocksOf, Distinct, Slots
  <1>5. SoundMemory(Deallocated(TextFreed(Mem, t), block[o], ObjectSize), left \ {block[o]})
    BY <1>3, <1>4, DeallocationKeeps
  <1>6. /\ block'[o] = Nil /\ text'[o] = NoText
        /\ \A p \in Objects : p # o => block'[p] = block[p] /\ text'[p] = text[p]
    BY <1>1, <1>2 DEF Slots
  <1>7. Slots'
    BY <1>1, <1>2, <1>6, NoTextIsText DEF Slots
  <1>8. InUse' = left \ {block[o]}
    <2>1. ASSUME NEW b \in InUse'
          PROVE  b \in left \ {block[o]}
      <3>1. PICK p \in Objects : \/ block'[p] # Nil /\ b = block'[p]
                                 \/ text'[p].st = "heap" /\ b = text'[p].at
        BY UsesOfNext
      <3>2. p # o
        BY <3>1, <1>6, NoTextIsText
      <3>3. CASE block'[p] # Nil /\ b = block'[p]
        BY <3>2, <3>3, <1>1, <1>2, <1>6, UsesOf DEF BlocksOf, Distinct
      <3>4. CASE text'[p].st = "heap" /\ b = text'[p].at
        BY <3>2, <3>4, <1>1, <1>2, <1>6, UsesOf DEF BlocksOf, Distinct
      <3>5. QED
        BY <3>1, <3>3, <3>4
    <2>2. ASSUME NEW b \in left \ {block[o]}
          PROVE  b \in InUse'
      <3>1. PICK p \in Objects : \/ block[p] # Nil /\ b = block[p]
                                 \/ text[p].st = "heap" /\ b = text[p].at
        BY <2>2, UsesOf
      <3>2. p # o
        BY <2>2, <3>1 DEF BlocksOf
      <3>3. QED
        BY <3>1, <3>2, <1>6, UsesOfNext DEF BlocksOf
    <2>3. QED
      BY <2>1, <2>2
  <1>9. Distinct'
    BY <1>1, <1>6, NoTextIsText DEF Distinct
  <1>10. SoundMemory(Mem, InUse)'
    <2>1. Mem' = Deallocated(TextFreed(Mem, t), block[o], ObjectSize)
      BY <1>2, <1>5, BecomesIsNext DEF SoundMemory
    <2>2. QED
      BY <2>1, <1>5, <1>8
  <1>11. QED
    BY <1>7, <1>9, <1>10 DEF Invariant

(* The document as it is created. *)
LEMMA InitIsSound ==
  ASSUME Init
  PROVE  Invariant
  <1>1. Mem = [page |-> [p \in Pages \cup {Sentinel} |->
                           IF p = Sentinel THEN [Unused EXCEPT !.busy = PageSize] ELSE Unused],
               root |-> Sentinel, top |-> PageSize]
    BY DEF Init, Mem
  <1>2. InUse = {}
    BY NoTextIsText DEF Init, InUse
  <1>3. SoundMemory(Mem, InUse)
    BY <1>1, <1>2, CreatedIsSound
  <1>4. Slots /\ Distinct
    BY NoTextIsText DEF Init, Slots, Distinct
  <1>5. QED
    BY <1>3, <1>4 DEF Invariant

(* reset() leaves the document as it was created. *)
LEMMA ResetKeeps ==
  ASSUME Reset
  PROVE  Invariant'
  <1>1. Mem' = [page |-> [p \in Pages \cup {Sentinel} |->
                            IF p = Sentinel THEN [Unused EXCEPT !.busy = PageSize] ELSE Unused],
                root |-> Sentinel, top |-> PageSize]
    BY DEF Reset, Created, Mem
  <1>2. InUse' = {}
    BY NoTextIsText DEF Reset, Created, InUse
  <1>3. SoundMemory(Mem, InUse)'
    BY <1>1, <1>2, CreatedIsSound
  <1>4. Slots' /\ Distinct'
    BY NoTextIsText DEF Reset, Created, Slots, Distinct
  <1>5. QED
    BY <1>3, <1>4 DEF Invariant

------------------------------------------------------------------------------
(* Every step keeps the invariant. *)
LEMMA StepKeeps ==
  ASSUME Invariant, [Next]_vars
  PROVE  Invariant'
  <1>1. ASSUME NEW o \in Objects, Create(o)
        PROVE  Invariant'
    BY <1>1, CreateKeeps
  <1>2. ASSUME NEW o \in Objects, Clear(o)
        PROVE  Invariant'
    BY <1>2, ClearKeeps
  <1>3. ASSUME NEW o \in Objects, Destroy(o)
        PROVE  Invariant'
    BY <1>3, DestroyKeeps
  <1>4. ASSUME NEW o \in Objects, NEW n \in Lengths, Overwrite(o, n)
        PROVE  Invariant'
    BY <1>4, OverwriteKeeps
  <1>5. ASSUME NEW o \in Objects, NEW n \in Lengths, Replace(o, n)
        PROVE  Invariant'
    BY <1>5, ReplaceKeeps
  <1>6. CASE Reset
    BY <1>6, ResetKeeps
  <1>7. CASE UNCHANGED vars
    BY <1>7 DEF vars, Invariant, InUse, Mem, Slots, Distinct
  <1>8. QED
    BY <1>1, <1>2, <1>3, <1>4, <1>5, <1>6, <1>7 DEF Next

(* The invariant from which the theorems follow. *)
LEMMA MemoryIsSound == Spec => []Invariant
  <1>1. Init => Invariant
    BY InitIsSound
  <1>2. Invariant /\ [Next]_vars => Invariant'
    BY StepKeeps
  <1>3. QED
    BY <1>1, <1>2, PTL DEF Spec

(* The state says the same as Mem. *)
LEMMA MemIsState ==
  /\ Mem.page = page /\ Mem.root = root /\ Mem.top = top
  /\ \A p : Used(p) = UsedIn(InUse, p) /\ Busy(p) = BusyIn(Mem, p)
  BY DEF Mem, Used, UsedIn, Busy, BusyIn

(* The variables of the allocator have their types. *)
THEOREM MemoryTyped == Spec => []TypeOK
  <1>1. Invariant => TypeOK
    <2> SUFFICES ASSUME Invariant PROVE TypeOK
      OBVIOUS
    <2>1. Mem \in Memory
      BY DEF Invariant, SoundMemory
    <2>2. /\ page \in [Pages \cup {Sentinel} ->
                         [prev : Pages \cup {Sentinel, Nil}, next : Pages \cup {Nil},
                          busy : Nat, freed : Nat]]
          /\ root \in Pages \cup {Sentinel} /\ top \in 0 .. PageSize
      BY <2>1, MemIsState DEF Memory, PageStates
    <2>3. block \in [Objects -> Blocks \cup {Nil}] /\ text \in [Objects -> Texts]
      BY DEF Invariant, Slots
    <2>4. QED
      BY <2>2, <2>3 DEF TypeOK
  <1>2. QED
    BY <1>1, MemoryIsSound, PTL

(* The page a block lies in is in the list, and no two blocks share a      *)
(* byte: deallocate_memory gives no page back too early, allocate_memory   *)
(* gives out nothing twice, strcpy_insitu writes over nothing else.        *)
THEOREM MemoryBlocksAreSafe == Spec => []BlocksAreSafe
  <1>1. Invariant => BlocksAreSafe
    <2> SUFFICES ASSUME Invariant PROVE BlocksAreSafe
      OBVIOUS
    <2>1. Mem \in Memory /\ Placed(Mem, InUse) /\ Apart(InUse) /\ Slots /\ Distinct
      BY DEF Invariant, SoundMemory
    <2>2. ASSUME NEW b \in InUse
          PROVE  b.page \in InList(Mem) /\ Bytes(b) \subseteq 0 .. Busy(b.page) - 1
      <3>1. b.page \in InList(Mem)
        BY <2>1 DEF Placed
      <3>2. UsedIn(InUse, b.page) \subseteq 0 .. BusyIn(Mem, b.page) - 1
        BY <2>1, <3>1, UsedIsBelow
      <3>3. Bytes(b) \subseteq UsedIn(InUse, b.page)
        BY DEF UsedIn
      <3>4. QED
        BY <3>1, <3>2, <3>3, MemIsState
    <2>3. ASSUME NEW b \in InUse, NEW c \in InUse, b # c, b.page = c.page
          PROVE  Bytes(b) \cap Bytes(c) = {}
      <3>1. b \in Blocks /\ c \in Blocks
        BY <2>1 DEF Placed
      <3>2. b.off + b.size <= c.off \/ c.off + c.size <= b.off
        BY <2>1, <2>3 DEF Apart
      <3>3. QED
        BY <3>1, <3>2, BlockHasBytes DEF Bytes
    <2>4. TextsFit
      BY <2>1 DEF Slots, TextsFit
    <2>5. QED
      BY <2>1, <2>2, <2>3, <2>4, UsesOf DEF BlocksAreSafe, Distinct, BlocksOf
  <1>2. QED
    BY <1>1, MemoryIsSound, PTL

(* busy_size and freed_size of a page differ by what is in use of it, so   *)
(* that they are equal when, and only when, the page is empty.             *)
THEOREM MemoryCountersAgree == Spec => []CountersAgree
  <1>1. Invariant => CountersAgree
    BY MemIsState DEF Invariant, SoundMemory, Counted, CountersAgree
  <1>2. QED
    BY <1>1, MemoryIsSound, PTL

(* The list of pages stays linked in both directions, a large block finds  *)
(* a page to come after, and a page that is empty is not kept.             *)
THEOREM MemoryListIsSound == Spec => []ListIsSound
  <1>1. Invariant => ListIsSound
    <2> SUFFICES ASSUME Invariant PROVE ListIsSound
      OBVIOUS
    <2>1. Mem \in Memory /\ Linked(Mem) /\ Placed(Mem, InUse) /\ NoneIdle(Mem, InUse)
      BY DEF Invariant, SoundMemory
    <2>2. InList(Mem) \subseteq Pages \cup {Sentinel} /\ root \in InList(Mem)
      BY <2>1, MemIsState DEF InList, Memory, PageStates
    <2>3. /\ page[root].next = Nil /\ page[Sentinel].prev = Nil
          /\ \A p \in InList(Mem) \ {root} : page[page[p].next].prev = p
          /\ \A p \in InList(Mem) \ {Sentinel} : page[page[p].prev].next = p
      BY <2>1, MemIsState DEF Linked
    <2>4. (\E o \in Objects : block[o] # Nil) => page[root].prev # Nil
      <3>1. (\E o \in Objects : block[o] # Nil) => root # Sentinel
        BY <2>1, UsesOf, MemIsState DEF Placed
      <3>2. root # Sentinel => page[root].prev \in InList(Mem)
        BY <2>1, <2>2, MemIsState DEF Linked
      <3>3. QED
        BY <3>1, <3>2, <2>2, PagesAssumption
    <2>5. NoIdlePage
      BY <2>1, MemIsState DEF NoneIdle, NoIdlePage
    <2>6. QED
      BY <2>3, <2>4, <2>5 DEF ListIsSound
  <1>2. QED
    BY <1>1, MemoryIsSound, PTL
==============================================================================
