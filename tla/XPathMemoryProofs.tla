-------------------------- MODULE XPathMemoryProofs --------------------------
(***************************************************************************)
(* Theorems about the allocators of XPathMemory, for blocks of any size:   *)
(* objects lie in their blocks and apart, and a capture ends with what     *)
(* there was when it was made, whatever happened meanwhile.                *)
(***************************************************************************)
EXTENDS XPathMemory, SequenceTheorems, TLAPS

Blocks  == [name : Nat, capacity : Nat]
Objects == [name : Nat \ {0}, size : Nat \ {0}, block : Nat, at : Nat]
Allocators == [blocks : Seq(Blocks), size : Nat, objects : SUBSET Objects, fresh : Nat \ {0}]

End(o) == o.at + o.size

(* Two objects have no byte in common. *)
Apart(o, p) == o.block # p.block \/ End(o) <= p.at \/ End(p) <= o.at

(* The blocks of a are different ones, and named before what is new. *)
BlocksAreSound(a) ==
  /\ a.blocks # <<>>
  /\ \A i \in 1 .. Len(a.blocks) : /\ a.blocks[i].name < a.fresh
                                   /\ BlockCapacity <= a.blocks[i].capacity
  /\ \A i, j \in 1 .. Len(a.blocks) : a.blocks[i].name = a.blocks[j].name => i = j
  /\ a.size <= a.blocks[Len(a.blocks)].capacity

(* Objects lie in a block, in the last one below the size, and apart. *)
ObjectsAreSound(a) ==
  /\ \A o \in a.objects :
       /\ o.name < a.fresh
       /\ \E i \in 1 .. Len(a.blocks) : /\ o.block = a.blocks[i].name
                                        /\ End(o) <= a.blocks[i].capacity
                                        /\ i = Len(a.blocks) => End(o) <= a.size
  /\ \A o, p \in a.objects : o # p => o.name # p.name /\ Apart(o, p)

Laid(a) == a \in Allocators /\ BlocksAreSound(a) /\ ObjectsAreSound(a)

(* Only the first block is ever found empty. *)
Sound(a) == Laid(a) /\ (a.size = 0 => Len(a.blocks) = 1)

(* What has happened to an allocator since it was s, while a capture was   *)
(* open: nothing that was there has moved, and what is new lies after it.  *)
Follows(s, a) ==
  /\ Len(s.blocks) <= Len(a.blocks)
  /\ \A i \in 1 .. Len(s.blocks) : a.blocks[i] = s.blocks[i]
  /\ Len(s.blocks) = Len(a.blocks) => s.size <= a.size
  /\ s.fresh <= a.fresh
  /\ s.objects \subseteq a.objects
  /\ \A o \in a.objects \ s.objects :
       /\ s.fresh <= o.name
       /\ \A i \in 1 .. Len(s.blocks) :
            o.block = s.blocks[i].name => i = Len(s.blocks) /\ s.size <= o.at

------------------------------------------------------------------------------
(* Sizes are rounded up, never to nothing. *)
LEMMA AlignedIsSize ==
  ASSUME NEW n \in Nat \ {0}
  PROVE  Aligned(n) \in Nat \ {0}
  <1> DEFINE q == (n + Word - 1) \div Word
  <1>1. Word \in Nat \ {0}
    BY BlockAssumption
  <1>2. q \in Nat \ {0}
    BY <1>1
  <1> HIDE DEF q
  <1>3. q * Word \in Nat \ {0}
    BY <1>1, <1>2
  <1>4. QED
    BY <1>3 DEF Aligned, q

(* The fields of an allocator. *)
LEMMA Fields ==
  ASSUME NEW a, Laid(a)
  PROVE  /\ a = [blocks |-> a.blocks, size |-> a.size, objects |-> a.objects, fresh |-> a.fresh]
         /\ a.blocks \in Seq(Blocks) /\ Len(a.blocks) \in Nat \ {0}
         /\ a.size \in Nat /\ a.fresh \in Nat \ {0} /\ BlockCapacity \in Nat \ {0}
         /\ \A i \in 1 .. Len(a.blocks) : /\ a.blocks[i] \in Blocks
                                          /\ a.blocks[i].name \in Nat
                                          /\ a.blocks[i].capacity \in Nat
         /\ Last(a.blocks) = a.blocks[Len(a.blocks)]
         /\ Len(a.blocks) \in 1 .. Len(a.blocks)
         /\ a.objects \subseteq Objects
         /\ \A o \in a.objects : /\ o.name \in Nat \ {0} /\ o.size \in Nat \ {0}
                                 /\ o.block \in Nat /\ o.at \in Nat /\ End(o) \in Nat
                                 /\ End(o) = o.at + o.size
  <1>1. a \in Allocators /\ a.blocks # <<>>
    BY DEF Laid, BlocksAreSound
  <1>2. a.blocks \in Seq(Blocks) /\ a.objects \subseteq Objects /\ a.size \in Nat /\ a.fresh \in Nat \ {0}
    BY <1>1 DEF Allocators
  <1>3. Len(a.blocks) \in Nat \ {0}
    BY <1>1, <1>2
  <1>4. \A i \in 1 .. Len(a.blocks) : a.blocks[i] \in Blocks
    BY <1>2
  <1>5. \A o \in a.objects : o \in Objects
    BY <1>2
  <1>6. a = [blocks |-> a.blocks, size |-> a.size, objects |-> a.objects, fresh |-> a.fresh]
    BY <1>1 DEF Allocators
  <1>7. Len(a.blocks) \in 1 .. Len(a.blocks)
    BY <1>3
  <1>8. Last(a.blocks) = a.blocks[Len(a.blocks)]
    BY DEF Last
  <1>9. \A i \in 1 .. Len(a.blocks) : a.blocks[i].name \in Nat /\ a.blocks[i].capacity \in Nat
    BY <1>4 DEF Blocks
  <1>10. \A o \in a.objects : /\ o.name \in Nat \ {0} /\ o.size \in Nat \ {0}
                              /\ o.block \in Nat /\ o.at \in Nat /\ End(o) \in Nat
                              /\ End(o) = o.at + o.size
    BY <1>5 DEF Objects, End
  <1>11. QED
    BY <1>2, <1>3, <1>4, <1>6, <1>7, <1>8, <1>9, <1>10, BlockAssumption

------------------------------------------------------------------------------
(* Allocation.                                                             *)

(* b is a with a new object o, in the last block or in one of its own. *)
Adds(a, o, b) ==
  /\ o \in Objects /\ o.name = a.fresh
  /\ b \in Allocators
  /\ b.objects = a.objects \cup {o}
  /\ b.fresh = a.fresh + 1
  /\ b.size = o.at + o.size
  /\ \/ /\ b.blocks = a.blocks
        /\ o.block = a.blocks[Len(a.blocks)].name /\ o.at = a.size
        /\ b.size <= BlockCapacity
     \/ /\ Len(b.blocks) = Len(a.blocks) + 1
        /\ \A i \in 1 .. Len(a.blocks) : b.blocks[i] = a.blocks[i]
        /\ b.blocks[Len(b.blocks)].name = a.fresh
        /\ BlockCapacity <= b.blocks[Len(b.blocks)].capacity
        /\ b.size <= b.blocks[Len(b.blocks)].capacity
        /\ o.block = a.fresh /\ o.at = 0

LEMMA AllocateAdds ==
  ASSUME NEW a, Laid(a), NEW wanted \in Nat \ {0}
  PROVE  \E o : Adds(a, o, Allocate(a, wanted)) /\ o.size = Aligned(wanted)
  <1> DEFINE size  == Aligned(wanted)
             fits  == a.size + size <= BlockCapacity
             block == [name |-> a.fresh,
                       capacity |-> IF size > BlockCapacity THEN size ELSE BlockCapacity]
             o == [name |-> a.fresh, size |-> size,
                   block |-> IF fits THEN Last(a.blocks).name ELSE a.fresh,
                   at |-> IF fits THEN a.size ELSE 0]
             b == Allocate(a, wanted)
  <1>1. size \in Nat \ {0}
    BY AlignedIsSize
  <1> HIDE DEF size
  <1>2. /\ a.blocks \in Seq(Blocks) /\ Len(a.blocks) \in Nat \ {0}
        /\ a.size \in Nat /\ a.fresh \in Nat \ {0} /\ BlockCapacity \in Nat \ {0}
        /\ Last(a.blocks) = a.blocks[Len(a.blocks)]
        /\ a.blocks[Len(a.blocks)].name \in Nat
        /\ a.objects \subseteq Objects
    BY Fields
  <1>3. b = [blocks  |-> IF fits THEN a.blocks ELSE Append(a.blocks, block),
             size    |-> IF fits THEN a.size + size ELSE size,
             objects |-> a.objects \cup {o},
             fresh   |-> a.fresh + 1]
    BY DEF Allocate, size
  <1> HIDE DEF b
  <1>4. o \in Objects /\ o.name = a.fresh /\ o.size = size
    BY <1>1, <1>2 DEF Objects
  <1>5. block \in Blocks
    BY <1>1, <1>2 DEF Blocks
  <1>6. CASE fits
    <2>1. /\ o.block = a.blocks[Len(a.blocks)].name /\ o.at = a.size
          /\ b.blocks = a.blocks /\ b.size = o.at + o.size /\ b.size <= BlockCapacity
          /\ b.objects = a.objects \cup {o} /\ b.fresh = a.fresh + 1
      BY <1>2, <1>3, <1>6
    <2> HIDE DEF o, fits
    <2>2. b \in Allocators
      BY <1>1, <1>2, <1>3, <1>4, <1>6 DEF Allocators
    <2>3. Adds(a, o, b)
      BY <1>4, <2>1, <2>2 DEF Adds
    <2>4. QED
      BY <1>4, <2>3 DEF b, size
  <1>7. CASE ~fits
    <2>1. /\ o.block = a.fresh /\ o.at = 0
          /\ b.blocks = Append(a.blocks, block) /\ b.size = size
          /\ b.objects = a.objects \cup {o} /\ b.fresh = a.fresh + 1
      BY <1>3, <1>7
    <2>2. /\ block.name = a.fresh /\ BlockCapacity <= block.capacity /\ size <= block.capacity
      BY <1>1, <1>2
    <2> HIDE DEF o, block, fits
    <2>3. /\ b.blocks \in Seq(Blocks)
          /\ Len(b.blocks) = Len(a.blocks) + 1
          /\ \A i \in 1 .. Len(a.blocks) : b.blocks[i] = a.blocks[i]
          /\ b.blocks[Len(b.blocks)] = block
      BY <1>2, <1>5, <2>1
    <2>4. b \in Allocators
      BY <1>1, <1>2, <1>3, <1>4, <1>7, <2>3 DEF Allocators
    <2>5. b.size = o.at + o.size
      BY <1>1, <1>4, <2>1
    <2>6. Adds(a, o, b)
      BY <1>4, <2>1, <2>2, <2>3, <2>4, <2>5 DEF Adds
    <2>7. QED
      BY <1>4, <2>6 DEF b, size
  <1>8. QED
    BY <1>6, <1>7

(* Then objects lie in their blocks and apart, as before. *)
LEMMA AddsKeepsSound ==
  ASSUME NEW a, Laid(a), NEW o, NEW b, Adds(a, o, b)
  PROVE  Sound(b)
  <1> DEFINE n == Len(a.blocks)
             k == Len(b.blocks)
  <1>1. /\ n \in Nat \ {0} /\ a.size \in Nat /\ a.fresh \in Nat \ {0}
        /\ BlockCapacity \in Nat \ {0}
        /\ \A i \in 1 .. n : a.blocks[i].name \in Nat /\ a.blocks[i].capacity \in Nat
    BY Fields
  <1>2. \A p \in a.objects : /\ p.name \in Nat \ {0} /\ p.size \in Nat \ {0}
                             /\ p.block \in Nat /\ p.at \in Nat
                             /\ End(p) \in Nat /\ End(p) = p.at + p.size
    BY Fields
  <1>3. /\ o.name = a.fresh /\ o.at \in Nat /\ o.size \in Nat \ {0} /\ o.block \in Nat
        /\ End(o) = b.size /\ b.size \in Nat \ {0}
        /\ b.objects = a.objects \cup {o} /\ b.fresh = a.fresh + 1
        /\ b \in Allocators
    BY DEF Adds, Objects, End
  <1>4. /\ \A i \in 1 .. n : a.blocks[i].name < a.fresh /\ BlockCapacity <= a.blocks[i].capacity
        /\ \A i, j \in 1 .. n : a.blocks[i].name = a.blocks[j].name => i = j
        /\ a.size <= a.blocks[n].capacity
        /\ a.blocks # <<>>
    BY DEF Laid, BlocksAreSound
  <1>5. \A p \in a.objects :
          /\ p.name < a.fresh
          /\ \E i \in 1 .. n : /\ p.block = a.blocks[i].name
                               /\ End(p) <= a.blocks[i].capacity
                               /\ i = n => End(p) <= a.size
    BY DEF Laid, ObjectsAreSound
  <1>6. \A p, q \in a.objects : p # q => p.name # q.name /\ Apart(p, q)
    BY DEF Laid, ObjectsAreSound
  <1>7. CASE /\ b.blocks = a.blocks
             /\ o.block = a.blocks[n].name /\ o.at = a.size /\ b.size <= BlockCapacity
    <2>1. BlocksAreSound(b)
      <3>1. b.size <= a.blocks[n].capacity
        BY <1>1, <1>3, <1>4, <1>7
      <3>2. \A i \in 1 .. n : a.blocks[i].name < b.fresh
        BY <1>1, <1>3, <1>4
      <3>3. QED
        BY <1>4, <1>7, <3>1, <3>2 DEF BlocksAreSound
    <2>2. ASSUME NEW p \in b.objects
          PROVE  /\ p.name < b.fresh
                 /\ \E i \in 1 .. k : /\ p.block = b.blocks[i].name
                                      /\ End(p) <= b.blocks[i].capacity
                                      /\ i = k => End(p) <= b.size
      <3>1. CASE p = o
        <4>1. n \in 1 .. k /\ n = k
          BY <1>1, <1>7
        <4>2. End(o) <= b.blocks[n].capacity /\ End(o) <= b.size /\ o.name < b.fresh
          BY <1>1, <1>3, <1>4, <1>7
        <4>3. QED
          BY <1>7, <3>1, <4>1, <4>2
      <3>2. CASE p \in a.objects
        <4>1. PICK i \in 1 .. n : /\ p.block = a.blocks[i].name
                                  /\ End(p) <= a.blocks[i].capacity
                                  /\ i = n => End(p) <= a.size
          BY <1>5, <3>2
        <4>2. i = n => End(p) <= b.size
          BY <1>1, <1>2, <1>3, <1>7, <3>2, <4>1 DEF End
        <4>3. p.name < b.fresh
          BY <1>1, <1>2, <1>3, <1>5, <3>2
        <4>4. QED
          BY <1>7, <4>1, <4>2, <4>3
      <3>3. QED
        BY <1>3, <3>1, <3>2
    <2>3. ASSUME NEW p \in a.objects
          PROVE  p.name # o.name /\ Apart(p, o) /\ Apart(o, p)
      <3>1. PICK i \in 1 .. n : p.block = a.blocks[i].name /\ (i = n => End(p) <= a.size)
        BY <1>5
      <3>2. CASE i = n
        BY <1>1, <1>3, <1>5, <1>7, <3>1, <3>2 DEF Apart
      <3>3. CASE i # n
        <4>1. p.block # o.block
          BY <1>1, <1>4, <1>7, <3>1, <3>3
        <4>2. p.name # o.name
          BY <1>1, <1>2, <1>3, <1>5
        <4>3. QED
          BY <4>1, <4>2 DEF Apart
      <3>4. QED
        BY <3>2, <3>3
    <2>4. \A p, q \in b.objects : p # q => p.name # q.name /\ Apart(p, q)
      BY <1>3, <1>6, <2>3
    <2>5. ObjectsAreSound(b)
      BY <2>2, <2>4 DEF ObjectsAreSound
    <2>6. QED
      BY <1>3, <2>1, <2>5 DEF Sound, Laid
  <1>8. CASE /\ k = n + 1
             /\ \A i \in 1 .. n : b.blocks[i] = a.blocks[i]
             /\ b.blocks[k].name = a.fresh
             /\ BlockCapacity <= b.blocks[k].capacity
             /\ b.size <= b.blocks[k].capacity
             /\ o.block = a.fresh /\ o.at = 0
    <2>1. k \in 1 .. k /\ \A i \in 1 .. k : i = k \/ i \in 1 .. n
      BY <1>1, <1>8
    <2>2. BlocksAreSound(b)
      <3>1. b.blocks # <<>>
        BY <1>1, <1>8
      <3>2. \A i \in 1 .. k : b.blocks[i].name < b.fresh /\ BlockCapacity <= b.blocks[i].capacity
        <4> SUFFICES ASSUME NEW i \in 1 .. k
                     PROVE  b.blocks[i].name < b.fresh /\ BlockCapacity <= b.blocks[i].capacity
          OBVIOUS
        <4>1. CASE i = k
          BY <1>1, <1>3, <1>8, <4>1
        <4>2. CASE i \in 1 .. n
          <5>1. a.blocks[i].name \in Nat /\ a.blocks[i].name < a.fresh
            BY <1>1, <1>4, <4>2
          <5>2. b.blocks[i] = a.blocks[i] /\ BlockCapacity <= a.blocks[i].capacity
            BY <1>4, <1>8, <4>2
          <5>3. QED
            BY <1>1, <1>3, <5>1, <5>2
        <4>3. QED
          BY <2>1, <4>1, <4>2
      <3>3. \A i, j \in 1 .. k : b.blocks[i].name = b.blocks[j].name => i = j
        <4> SUFFICES ASSUME NEW i \in 1 .. k, NEW j \in 1 .. k,
                            b.blocks[i].name = b.blocks[j].name
                     PROVE  i = j
          OBVIOUS
        <4>1. \A m \in 1 .. n : b.blocks[m].name \in Nat /\ b.blocks[m].name < a.fresh
          BY <1>1, <1>4, <1>8
        <4>2. CASE i = k \/ j = k
          BY <1>1, <1>8, <2>1, <4>1, <4>2
        <4>3. CASE i \in 1 .. n /\ j \in 1 .. n
          BY <1>4, <1>8, <4>3
        <4>4. QED
          BY <2>1, <4>2, <4>3
      <3>4. QED
        BY <1>8, <3>1, <3>2, <3>3 DEF BlocksAreSound
    <2>3. ASSUME NEW p \in b.objects
          PROVE  /\ p.name < b.fresh
                 /\ \E i \in 1 .. k : /\ p.block = b.blocks[i].name
                                      /\ End(p) <= b.blocks[i].capacity
                                      /\ i = k => End(p) <= b.size
      <3>1. CASE p = o
        <4>1. End(o) <= b.blocks[k].capacity /\ End(o) <= b.size /\ o.name < b.fresh
          BY <1>1, <1>3, <1>8
        <4>2. QED
          BY <1>8, <2>1, <3>1, <4>1
      <3>2. CASE p \in a.objects
        <4>1. PICK i \in 1 .. n : /\ p.block = a.blocks[i].name
                                  /\ End(p) <= a.blocks[i].capacity
          BY <1>5, <3>2
        <4>2. i \in 1 .. k /\ i # k /\ b.blocks[i] = a.blocks[i]
          BY <1>1, <1>8, <4>1
        <4>3. p.name < b.fresh
          BY <1>1, <1>2, <1>3, <1>5, <3>2
        <4>4. QED
          BY <4>1, <4>2, <4>3
      <3>3. QED
        BY <1>3, <3>1, <3>2
    <2>4. ASSUME NEW p \in a.objects
          PROVE  p.name # o.name /\ Apart(p, o) /\ Apart(o, p)
      <3>1. PICK i \in 1 .. n : p.block = a.blocks[i].name
        BY <1>5
      <3>2. p.block # o.block
        BY <1>1, <1>4, <1>8, <3>1
      <3>3. QED
        BY <1>1, <1>2, <1>3, <1>5, <3>2 DEF Apart
    <2>5. \A p, q \in b.objects : p # q => p.name # q.name /\ Apart(p, q)
      BY <1>3, <1>6, <2>4
    <2>6. ObjectsAreSound(b)
      BY <2>3, <2>5 DEF ObjectsAreSound
    <2>7. QED
      BY <1>3, <2>2, <2>6 DEF Sound, Laid
  <1>9. QED
    BY <1>7, <1>8, Zenon DEF Adds

(* An open capture does not see what is allocated. *)
LEMMA AddsFollows ==
  ASSUME NEW s, NEW a, Laid(s), Laid(a), Follows(s, a), NEW o, NEW b, Adds(a, o, b)
  PROVE  Follows(s, b)
  <1> DEFINE n == Len(a.blocks)
             m == Len(s.blocks)
  <1>1. /\ n \in Nat \ {0} /\ a.size \in Nat /\ a.fresh \in Nat \ {0}
        /\ \A i \in 1 .. n : a.blocks[i].name \in Nat
    BY Fields
  <1>2. m \in Nat \ {0} /\ s.size \in Nat /\ s.fresh \in Nat \ {0}
    BY Fields
  <1>3. /\ m <= n
        /\ \A i \in 1 .. m : a.blocks[i] = s.blocks[i]
        /\ m = n => s.size <= a.size
        /\ s.fresh <= a.fresh
        /\ s.objects \subseteq a.objects
        /\ \A p \in a.objects \ s.objects :
             /\ s.fresh <= p.name
             /\ \A i \in 1 .. m : p.block = s.blocks[i].name => i = m /\ s.size <= p.at
    BY DEF Follows
  <1>4. /\ o.name = a.fresh /\ o.at \in Nat /\ o.size \in Nat \ {0}
        /\ b.size = o.at + o.size
        /\ b.objects = a.objects \cup {o} /\ b.fresh = a.fresh + 1
    BY DEF Adds, Objects
  <1>5. /\ \A i \in 1 .. n : a.blocks[i].name < a.fresh
        /\ \A i, j \in 1 .. n : a.blocks[i].name = a.blocks[j].name => i = j
    BY DEF Laid, BlocksAreSound
  <1>6. /\ \A i \in 1 .. m : i \in 1 .. n /\ a.blocks[i].name = s.blocks[i].name
        /\ s.fresh <= o.name /\ s.fresh <= b.fresh
    BY <1>1, <1>2, <1>3, <1>4
  <1>7. CASE /\ b.blocks = a.blocks
             /\ o.block = a.blocks[n].name /\ o.at = a.size
    <2>1. m = n => s.size <= b.size
      BY <1>1, <1>2, <1>3, <1>4, <1>7
    <2>2. ASSUME NEW i \in 1 .. m, o.block = s.blocks[i].name
          PROVE  i = m /\ s.size <= o.at
      <3>1. i = n
        <4>1. i \in 1 .. n /\ n \in 1 .. n /\ a.blocks[i].name = a.blocks[n].name
          BY <1>1, <1>6, <1>7, <2>2
        <4>2. QED
          BY <1>5, <4>1
      <3>2. QED
        BY <1>1, <1>2, <1>3, <1>7, <3>1
    <2>3. QED
      BY <1>3, <1>4, <1>6, <1>7, <2>1, <2>2 DEF Follows
  <1>8. CASE /\ Len(b.blocks) = n + 1
             /\ \A i \in 1 .. n : b.blocks[i] = a.blocks[i]
             /\ o.block = a.fresh
    <2>1. m <= Len(b.blocks) /\ m # Len(b.blocks)
      BY <1>1, <1>2, <1>3, <1>8
    <2>2. \A i \in 1 .. m : o.block # s.blocks[i].name
      BY <1>1, <1>5, <1>6, <1>8
    <2>3. \A i \in 1 .. m : b.blocks[i] = s.blocks[i]
      BY <1>3, <1>6, <1>8
    <2>4. QED
      BY <1>3, <1>4, <1>6, <2>1, <2>2, <2>3 DEF Follows
  <1>9. QED
    BY <1>7, <1>8 DEF Adds

------------------------------------------------------------------------------
(* Captures.                                                               *)

(* What is made in a capture goes with it, and nothing else does: the      *)
(* allocator is then what it was, but for the names it has used up.        *)
LEMMA CaptureGivesBack ==
  ASSUME NEW s, NEW a, Sound(s), Sound(a), Follows(s, a)
  PROVE  GivesBack(a, s)
  <1> DEFINE n == Len(a.blocks)
             m == Len(s.blocks)
             kept == SubSeq(a.blocks, 1, m)
             In(o) == \E i \in DOMAIN kept : /\ kept[i].name = o.block
                                             /\ i = Len(kept) => o.at + o.size <= s.size
  <1>1. Laid(s) /\ Laid(a)
    BY DEF Sound
  <1>2. n \in Nat \ {0} /\ a.blocks \in Seq(Blocks)
    BY <1>1, Fields
  <1>3. /\ m \in Nat \ {0} /\ s.blocks \in Seq(Blocks) /\ s.size \in Nat
        /\ s = [blocks |-> s.blocks, size |-> s.size, objects |-> s.objects, fresh |-> s.fresh]
    BY <1>1, Fields
  <1>4. a = [blocks |-> a.blocks, size |-> a.size, objects |-> a.objects, fresh |-> a.fresh]
    BY <1>1, Fields
  <1>5. /\ m <= n
        /\ \A i \in 1 .. m : a.blocks[i] = s.blocks[i]
        /\ s.objects \subseteq a.objects
        /\ \A o \in a.objects \ s.objects :
             \A i \in 1 .. m : o.block = s.blocks[i].name => i = m /\ s.size <= o.at
    BY DEF Follows
  <1>6. kept = s.blocks
    <2>1. /\ kept \in Seq(Blocks) /\ Len(kept) = m
          /\ \A i \in 1 .. m : kept[i] = a.blocks[i]
      BY <1>2, <1>3, <1>5
    <2> HIDE DEF kept
    <2>2. QED
      BY <1>3, <1>5, <2>1
  <1>7. SubSeq(s.blocks, 1, m) = s.blocks
    BY <1>3
  <1>8. Finds(a, s)
    BY <1>5, <1>6, <1>7 DEF Finds, IsPrefix
  <1> HIDE DEF kept
  <1>9. {o \in a.objects : In(o)} = s.objects
    <2>1. ASSUME NEW o \in s.objects
          PROVE  In(o)
      <3>1. PICK i \in 1 .. m : /\ o.block = s.blocks[i].name
                                /\ i = m => End(o) <= s.size
        BY <1>1 DEF Laid, ObjectsAreSound
      <3>2. i \in DOMAIN kept
        BY <1>3, <1>6
      <3>3. QED
        BY <1>3, <1>6, <3>1, <3>2 DEF End
    <2>2. ASSUME NEW o \in a.objects \ s.objects
          PROVE  ~In(o)
      <3> SUFFICES ASSUME In(o) PROVE FALSE
        OBVIOUS
      <3>1. PICK i \in DOMAIN kept : /\ kept[i].name = o.block
                                     /\ i = Len(kept) => o.at + o.size <= s.size
        OBVIOUS
      <3>2. i \in 1 .. m /\ Len(kept) = m
        BY <1>3, <1>6
      <3>3. i = m /\ s.size <= o.at
        BY <1>5, <1>6, <3>1, <3>2
      <3>4. o.at \in Nat /\ o.size \in Nat \ {0}
        BY <1>1, Fields
      <3>5. QED
        BY <1>3, <3>1, <3>2, <3>3, <3>4
    <2>3. QED
      BY <1>5, <2>1, <2>2
  <1>10. Revert(a, s) = [a EXCEPT !.blocks = kept, !.size = s.size,
                                  !.objects = {o \in a.objects : In(o)}]
    BY Zenon DEF Revert, kept
  <1>11. Revert(a, s) = [blocks |-> s.blocks, size |-> s.size, objects |-> s.objects,
                         fresh |-> a.fresh]
    BY <1>4, <1>6, <1>9, <1>10
  <1>12. [s EXCEPT !.fresh = a.fresh] = [blocks |-> s.blocks, size |-> s.size,
                                        objects |-> s.objects, fresh |-> a.fresh]
    BY <1>3
  <1>13. QED
    BY <1>8, <1>11, <1>12 DEF GivesBack

------------------------------------------------------------------------------
(* Reallocation.                                                           *)

(* a without the object o at its end. *)
Less(a, o) == [a EXCEPT !.size = o.at, !.objects = @ \ {o}]

(* What reallocate takes for the object is that object. *)
LEMMA LastIsTaken ==
  ASSUME NEW a, Laid(a), NEW o \in a.objects, NEW old, IsLast(a, o.name, old)
  PROVE  /\ o.block = a.blocks[Len(a.blocks)].name
         /\ o.size = Aligned(old) /\ End(o) = a.size
  <1>1. \A p \in a.objects : p # o => p.name # o.name
    BY DEF Laid, ObjectsAreSound
  <1>2. Object(a, o.name) = o
    BY <1>1 DEF Object
  <1>3. /\ o.block = a.blocks[Len(a.blocks)].name
        /\ o.size = Aligned(old) /\ o.at + Aligned(old) = a.size
    BY <1>2, Fields DEF IsLast
  <1>4. End(o) = o.at + o.size
    BY Fields
  <1>5. QED
    BY <1>3, <1>4

(* So it allocates where the object was. *)
LEMMA ReallocateIsLess ==
  ASSUME NEW a, Laid(a), NEW o \in a.objects, NEW old, IsLast(a, o.name, old), NEW new
  PROVE  Reallocate(a, o.name, old, new) = Freed(Allocate(Less(a, o), new), a, old)
  <1>1. \A p \in a.objects : p # o => p.name # o.name
    BY DEF Laid, ObjectsAreSound
  <1>2. o.size = Aligned(old) /\ End(o) = a.size
    BY LastIsTaken
  <1>3. /\ o.at \in Nat /\ o.size \in Nat /\ a.size \in Nat /\ End(o) = o.at + o.size
        /\ o.name # 0
    BY Fields
  <1>4. a.size - Aligned(old) = o.at
    BY <1>2, <1>3
  <1>5. {p \in a.objects : p.name # o.name} = a.objects \ {o}
    BY <1>1
  <1>6. [a EXCEPT !.size = @ - Aligned(old), !.objects = {p \in @ : p.name # o.name}]
          = Less(a, o)
    BY <1>4, <1>5 DEF Less
  <1>7. QED
    BY <1>3, <1>6, Zenon DEF Reallocate

(* Taking the last object away leaves the others in their places. *)
LEMMA LessIsLaid ==
  ASSUME NEW a, Laid(a), NEW o \in a.objects,
         o.block = a.blocks[Len(a.blocks)].name, End(o) = a.size
  PROVE  /\ Laid(Less(a, o))
         /\ Less(a, o).blocks = a.blocks /\ Less(a, o).size = o.at
         /\ Less(a, o).objects = a.objects \ {o} /\ Less(a, o).fresh = a.fresh
  <1> DEFINE n == Len(a.blocks)
             w == Less(a, o)
  <1>1. /\ a = [blocks |-> a.blocks, size |-> a.size, objects |-> a.objects, fresh |-> a.fresh]
        /\ n \in Nat \ {0} /\ a.size \in Nat
        /\ \A i \in 1 .. n : a.blocks[i].name \in Nat /\ a.blocks[i].capacity \in Nat
    BY Fields
  <1>2. \A p \in a.objects : /\ p.size \in Nat \ {0} /\ p.at \in Nat
                             /\ End(p) \in Nat /\ End(p) = p.at + p.size
    BY Fields
  <1>3. /\ w.blocks = a.blocks /\ w.size = o.at
        /\ w.objects = a.objects \ {o} /\ w.fresh = a.fresh
        /\ w = [blocks |-> a.blocks, size |-> o.at, objects |-> a.objects \ {o}, fresh |-> a.fresh]
    <2>1. w = [a EXCEPT !.size = o.at, !.objects = @ \ {o}]
      BY DEF Less
    <2> HIDE DEF w
    <2>2. w = [blocks |-> a.blocks, size |-> o.at, objects |-> a.objects \ {o}, fresh |-> a.fresh]
      BY <1>1, <2>1
    <2>3. QED
      BY <2>2
  <1> HIDE DEF w
  <1>4. w \in Allocators
    <2>1. a.blocks \in Seq(Blocks) /\ a.objects \in SUBSET Objects /\ a.fresh \in Nat \ {0}
      BY Fields
    <2>2. a.objects \ {o} \in SUBSET Objects /\ o.at \in Nat
      BY <1>2, <2>1
    <2>3. QED
      BY <1>3, <2>1, <2>2 DEF Allocators
  <1>5. BlocksAreSound(w)
    <2>1. a.size <= a.blocks[n].capacity
      BY DEF Laid, BlocksAreSound
    <2>2. w.size <= w.blocks[n].capacity
      BY <1>1, <1>2, <1>3, <2>1
    <2>3. QED
      BY <1>3, <2>2 DEF Laid, BlocksAreSound
  <1>6. ASSUME NEW p \in w.objects
        PROVE  /\ p.name < w.fresh
               /\ \E i \in 1 .. n : /\ p.block = a.blocks[i].name
                                    /\ End(p) <= a.blocks[i].capacity
                                    /\ i = n => End(p) <= w.size
    <2>1. p \in a.objects /\ p # o
      BY <1>3
    <2>2. p.name < a.fresh
      BY <2>1 DEF Laid, ObjectsAreSound
    <2>3. PICK i \in 1 .. n : /\ p.block = a.blocks[i].name
                              /\ End(p) <= a.blocks[i].capacity
                              /\ i = n => End(p) <= a.size
      BY <2>1 DEF Laid, ObjectsAreSound
    <2>4. Apart(p, o)
      BY <2>1 DEF Laid, ObjectsAreSound
    <2>5. i = n => End(p) <= w.size
      <3> SUFFICES ASSUME i = n PROVE End(p) <= o.at
        BY <1>3
      <3>1. End(p) <= o.at \/ End(o) <= p.at
        BY <2>3, <2>4 DEF Apart
      <3>2. End(o) > p.at
        BY <1>1, <1>2, <2>1, <2>3
      <3>3. QED
        BY <1>2, <2>1, <3>1, <3>2
    <2>6. QED
      BY <1>3, <2>2, <2>3, <2>5
  <1>7. \A p, q \in w.objects : p # q => p.name # q.name /\ Apart(p, q)
    BY <1>3 DEF Laid, ObjectsAreSound
  <1>8. ObjectsAreSound(w)
    BY <1>3, <1>6, <1>7 DEF ObjectsAreSound
  <1>9. QED
    BY <1>3, <1>4, <1>5, <1>8 DEF Laid, w

(* An open capture does not see that what was made since is taken away. *)
LEMMA LessFollows ==
  ASSUME NEW s, NEW a, Laid(s), Laid(a), Follows(s, a),
         NEW o \in a.objects, o \notin s.objects,
         o.block = a.blocks[Len(a.blocks)].name, End(o) = a.size
  PROVE  Follows(s, Less(a, o)) /\ (Len(s.blocks) = Len(a.blocks) => s.size <= o.at)
  <1> DEFINE n == Len(a.blocks)
             m == Len(s.blocks)
             w == Less(a, o)
  <1>1. /\ w.blocks = a.blocks /\ w.size = o.at
        /\ w.objects = a.objects \ {o} /\ w.fresh = a.fresh
    BY LessIsLaid
  <1> HIDE DEF w
  <1>2. m = n => s.size <= o.at
    <2> SUFFICES ASSUME m = n PROVE s.size <= o.at
      OBVIOUS
    <2>1. m \in 1 .. m
      BY Fields
    <2>2. o.block = s.blocks[m].name
      BY <2>1 DEF Follows
    <2>3. QED
      BY <2>1, <2>2 DEF Follows
  <1>3. s.objects \subseteq w.objects
    BY <1>1 DEF Follows
  <1>4. QED
    BY <1>1, <1>2, <1>3 DEF Follows, w

(* A sequence without one of its elements. *)
LEMMA RemoveAtProperties ==
  ASSUME NEW S, NEW s \in Seq(S), NEW k \in 1 .. Len(s)
  PROVE  /\ RemoveAt(s, k) \in Seq(S)
         /\ Len(RemoveAt(s, k)) = Len(s) - 1
         /\ \A i \in 1 .. Len(s) - 1 :
              RemoveAt(s, k)[i] = IF i < k THEN s[i] ELSE s[i + 1]
  <1> DEFINE front == SubSeq(s, 1, k - 1)
             rear  == SubSeq(s, k + 1, Len(s))
  <1>1. Len(s) \in Nat /\ \A i \in 1 .. Len(s) : s[i] \in S
    OBVIOUS
  <1>2. /\ front \in Seq(S) /\ Len(front) = k - 1
        /\ \A i \in 1 .. k - 1 : front[i] = s[i]
    BY <1>1, SubSeqProperties
  <1>3. /\ rear \in Seq(S) /\ Len(rear) = Len(s) - k
        /\ \A i \in 1 .. Len(s) - k : rear[i] = s[i + k]
    BY <1>1, SubSeqProperties
  <1> HIDE DEF front, rear
  <1>4. RemoveAt(s, k) = front \o rear
    BY DEF RemoveAt, front, rear
  <1>5. /\ RemoveAt(s, k) \in Seq(S)
        /\ Len(RemoveAt(s, k)) = Len(s) - 1
    BY <1>1, <1>2, <1>3, <1>4
  <1>6. ASSUME NEW i \in 1 .. Len(s) - 1
        PROVE  RemoveAt(s, k)[i] = IF i < k THEN s[i] ELSE s[i + 1]
    <2>1. CASE i < k
      BY <1>1, <1>2, <1>3, <1>4, <2>1
    <2>2. CASE i >= k
      <3>1. RemoveAt(s, k)[i] = rear[i - (k - 1)]
        BY <1>1, <1>2, <1>3, <1>4, <2>2
      <3>2. i - (k - 1) \in 1 .. Len(s) - k /\ (i - (k - 1)) + k = i + 1
        BY <1>1, <2>2
      <3>3. rear[i - (k - 1)] = s[(i - (k - 1)) + k]
        BY <1>3, <3>2
      <3>4. QED
        BY <2>2, <3>1, <3>2, <3>3
    <2>3. QED
      BY <1>1, <2>1, <2>2
  <1>7. QED
    BY <1>5, <1>6

(* What is freed is the block before the new one, in which the object that *)
(* grew was alone, never the first one.                                    *)
Dropped(a, o, b, c) ==
  /\ c \in Allocators
  /\ c.size = b.size /\ c.objects = b.objects /\ c.fresh = b.fresh
  /\ o.at = 0 /\ Len(a.blocks) > 1
  /\ Len(b.blocks) = Len(a.blocks) + 1 /\ Len(c.blocks) = Len(a.blocks)
  /\ \A i \in 1 .. Len(a.blocks) - 1 : c.blocks[i] = a.blocks[i]
  /\ c.blocks[Len(a.blocks)] = b.blocks[Len(a.blocks) + 1]

LEMMA FreedIsDropped ==
  ASSUME NEW a, Laid(a), NEW o \in a.objects, NEW old, IsLast(a, o.name, old),
         NEW q, NEW b, Adds(Less(a, o), q, b)
  PROVE  Freed(b, a, old) = b \/ Dropped(a, o, b, Freed(b, a, old))
  <1> DEFINE n == Len(b.blocks)
             k == Len(a.blocks)
             c == [b EXCEPT !.blocks = RemoveAt(@, n - 1)]
             w == Less(a, o)
  <1>1. /\ k \in Nat \ {0} /\ a.size \in Nat /\ Last(a.blocks) = a.blocks[k]
        /\ o.at \in Nat /\ o.size \in Nat /\ End(o) = o.at + o.size
    BY Fields
  <1>2. o.size = Aligned(old) /\ End(o) = a.size /\ o.block = a.blocks[k].name
    BY LastIsTaken
  <1>3. w.blocks = a.blocks
    BY <1>2, LessIsLaid
  <1> HIDE DEF w
  <1>4. b \in Allocators /\ b.blocks \in Seq(Blocks)
    BY DEF Adds, Allocators
  <1>5. \/ b.blocks = a.blocks
        \/ n = k + 1 /\ \A i \in 1 .. k : b.blocks[i] = a.blocks[i]
    BY <1>3, Zenon DEF Adds, w
  <1>6. CASE b.blocks[n].name # Last(a.blocks).name /\ a.size = Aligned(old) /\ n > 2
    <2>1. n = k + 1 /\ \A i \in 1 .. k : b.blocks[i] = a.blocks[i]
      BY <1>1, <1>5, <1>6
    <2>2. o.at = 0 /\ k > 1 /\ n - 1 = k
      BY <1>1, <1>2, <1>6, <2>1
    <2>3. /\ RemoveAt(b.blocks, k) \in Seq(Blocks) /\ Len(RemoveAt(b.blocks, k)) = k
          /\ \A i \in 1 .. k - 1 : RemoveAt(b.blocks, k)[i] = b.blocks[i]
          /\ RemoveAt(b.blocks, k)[k] = b.blocks[k + 1]
      <3>1. k \in 1 .. Len(b.blocks) /\ Len(b.blocks) - 1 = k
        BY <1>1, <2>1
      <3>2. /\ RemoveAt(b.blocks, k) \in Seq(Blocks) /\ Len(RemoveAt(b.blocks, k)) = k
            /\ \A i \in 1 .. k : RemoveAt(b.blocks, k)[i] = IF i < k THEN b.blocks[i] ELSE b.blocks[i + 1]
        BY <1>4, <3>1, RemoveAtProperties
      <3>3. k \in 1 .. k /\ ~(k < k) /\ \A i \in 1 .. k - 1 : i \in 1 .. k /\ i < k
        BY <1>1
      <3>4. QED
        BY <3>2, <3>3
    <2>4. \A i \in 1 .. k - 1 : b.blocks[i] = a.blocks[i]
      BY <1>1, <2>1
    <2>5. c = [b EXCEPT !.blocks = RemoveAt(b.blocks, k)]
      BY <2>2
    <2> HIDE DEF c
    <2>6. /\ c \in Allocators /\ c.blocks = RemoveAt(b.blocks, k)
          /\ c.size = b.size /\ c.objects = b.objects /\ c.fresh = b.fresh
      BY <1>4, <2>3, <2>5 DEF Allocators
    <2>7. Dropped(a, o, b, c)
      BY <2>1, <2>2, <2>3, <2>4, <2>6 DEF Dropped
    <2>8. Freed(b, a, old) = c
      BY <1>6, Zenon DEF Freed, c
    <2>9. QED
      BY <2>7, <2>8
  <1>7. CASE ~(b.blocks[n].name # Last(a.blocks).name /\ a.size = Aligned(old) /\ n > 2)
    <2>1. Freed(b, a, old) = b
      BY <1>7, Zenon DEF Freed
    <2>2. QED
      BY <2>1
  <1>8. QED
    BY <1>6, <1>7

(* Then too objects lie in their blocks and apart. *)
LEMMA DroppedIsSound ==
  ASSUME NEW a, Laid(a), NEW o \in a.objects,
         o.block = a.blocks[Len(a.blocks)].name, End(o) = a.size,
         NEW q, NEW b, Adds(Less(a, o), q, b), NEW c, Dropped(a, o, b, c)
  PROVE  Sound(c)
  <1> DEFINE k == Len(a.blocks)
             w == Less(a, o)
  <1>1. /\ Laid(w) /\ w.blocks = a.blocks /\ w.size = 0
        /\ w.objects = a.objects \ {o} /\ w.fresh = a.fresh
    BY LessIsLaid DEF Dropped
  <1>2. Sound(b) /\ Laid(b)
    BY <1>1, AddsKeepsSound DEF Sound
  <1> HIDE DEF w
  <1>3. /\ k \in Nat /\ k > 1 /\ Len(b.blocks) = k + 1 /\ Len(c.blocks) = k
        /\ c \in Allocators
        /\ c.size = b.size /\ c.objects = b.objects /\ c.fresh = b.fresh
        /\ \A i \in 1 .. k - 1 : c.blocks[i] = a.blocks[i]
        /\ c.blocks[k] = b.blocks[k + 1]
    BY Fields DEF Dropped
  <1>4. /\ \A i \in 1 .. k : b.blocks[i] = a.blocks[i]
        /\ b.blocks[k + 1].name = a.fresh
        /\ q.block = a.fresh /\ End(q) = b.size
        /\ b.objects = w.objects \cup {q}
    <2>1. /\ b.objects = w.objects \cup {q} /\ b.size = q.at + q.size
          /\ \/ b.blocks = w.blocks
             \/ /\ \A i \in 1 .. Len(w.blocks) : b.blocks[i] = w.blocks[i]
                /\ b.blocks[Len(b.blocks)].name = w.fresh /\ q.block = w.fresh
      BY Zenon DEF Adds, w
    <2>2. b.blocks # w.blocks
      BY <1>1, <1>3
    <2>3. QED
      BY <1>1, <1>3, <2>1, <2>2 DEF End
  <1>5. /\ \A i \in 1 .. k + 1 : /\ b.blocks[i].name < b.fresh
                                 /\ BlockCapacity <= b.blocks[i].capacity
        /\ \A i, j \in 1 .. k + 1 : b.blocks[i].name = b.blocks[j].name => i = j
        /\ b.size <= b.blocks[k + 1].capacity
    BY <1>2, <1>3 DEF Laid, BlocksAreSound
  <1>6. \A i \in 1 .. k : \E j \in 1 .. k + 1 :
          /\ c.blocks[i] = b.blocks[j]
          /\ (i = k /\ j = k + 1) \/ (i # k /\ j = i)
    <2> SUFFICES ASSUME NEW i \in 1 .. k
                 PROVE  \E j \in 1 .. k + 1 :
                          /\ c.blocks[i] = b.blocks[j]
                          /\ (i = k /\ j = k + 1) \/ (i # k /\ j = i)
      OBVIOUS
    <2>1. CASE i = k
      <3>1. k + 1 \in 1 .. k + 1
        BY <1>3
      <3>2. QED
        BY <1>3, <2>1, <3>1
    <2>2. CASE i # k
      <3>1. i \in 1 .. k - 1 /\ i \in 1 .. k + 1
        BY <1>3, <2>2
      <3>2. c.blocks[i] = b.blocks[i]
        BY <1>3, <1>4, <3>1
      <3>3. QED
        BY <2>2, <3>1, <3>2
    <2>3. QED
      BY <2>1, <2>2
  <1>7. BlocksAreSound(c)
    <2>1. c.blocks # <<>>
      BY <1>3
    <2>2. \A i \in 1 .. k : c.blocks[i].name < c.fresh /\ BlockCapacity <= c.blocks[i].capacity
      BY <1>3, <1>5, <1>6
    <2>3. ASSUME NEW i \in 1 .. k, NEW j \in 1 .. k, c.blocks[i].name = c.blocks[j].name
          PROVE  i = j
      <3>1. PICK x \in 1 .. k + 1 : /\ c.blocks[i] = b.blocks[x]
                                    /\ (i = k /\ x = k + 1) \/ (i # k /\ x = i)
        BY <1>6
      <3>2. PICK y \in 1 .. k + 1 : /\ c.blocks[j] = b.blocks[y]
                                    /\ (j = k /\ y = k + 1) \/ (j # k /\ y = j)
        BY <1>6
      <3>3. x = y
        BY <1>5, <2>3, <3>1, <3>2
      <3>4. QED
        BY <1>3, <3>1, <3>2, <3>3
    <2>4. c.size <= c.blocks[k].capacity
      BY <1>3, <1>5
    <2>5. QED
      BY <1>3, <2>1, <2>2, <2>3, <2>4 DEF BlocksAreSound
  <1>8. ASSUME NEW p \in c.objects
        PROVE  /\ p.name < c.fresh
               /\ \E i \in 1 .. k : /\ p.block = c.blocks[i].name
                                    /\ End(p) <= c.blocks[i].capacity
                                    /\ i = k => End(p) <= c.size
    <2>1. p \in b.objects
      BY <1>3
    <2>2. p.name < c.fresh
      BY <1>2, <1>3, <2>1 DEF Laid, ObjectsAreSound
    <2>3. CASE p = q
      <3>1. End(p) <= b.size /\ k \in 1 .. k /\ End(p) <= b.blocks[k + 1].capacity
        BY <1>2, <1>3, <1>4, <1>5, <2>3, Fields
      <3>2. p.block = c.blocks[k].name /\ End(p) <= c.blocks[k].capacity /\ End(p) <= c.size
        BY <1>3, <1>4, <2>3, <3>1
      <3>3. QED
        BY <2>2, <3>1, <3>2
    <2>4. CASE p \in w.objects
      <3>1. PICK i \in 1 .. k : /\ p.block = a.blocks[i].name
                                /\ End(p) <= a.blocks[i].capacity
                                /\ i = k => End(p) <= 0
        BY <1>1, <2>4 DEF Laid, ObjectsAreSound
      <3>2. End(p) > 0
        <4>1. p.size \in Nat \ {0} /\ p.at \in Nat /\ End(p) = p.at + p.size
          BY <1>1, <2>4, Fields
        <4>2. QED
          BY <4>1
      <3>3. i # k
        BY <1>1, <2>4, <3>1, <3>2, Fields
      <3>4. i \in 1 .. k - 1
        BY <1>3, <3>1, <3>3
      <3>5. c.blocks[i] = a.blocks[i]
        BY <1>3, <3>4
      <3>6. QED
        BY <2>2, <3>1, <3>3, <3>5
    <2>5. QED
      BY <1>4, <2>1, <2>3, <2>4
  <1>9. \A p, r \in c.objects : p # r => p.name # r.name /\ Apart(p, r)
    BY <1>2, <1>3 DEF Laid, ObjectsAreSound
  <1>10. ObjectsAreSound(c)
    BY <1>3, <1>8, <1>9 DEF ObjectsAreSound
  <1>11. c.size # 0
    BY <1>2, <1>3 DEF Sound
  <1>12. QED
    BY <1>3, <1>7, <1>10, <1>11 DEF Sound, Laid

(* Nor does an open capture see that block go: the capture remembers only  *)
(* the blocks before it, because that block is empty but for what has been *)
(* made since, and no capture is made in an empty block but the first.     *)
LEMMA DroppedFollows ==
  ASSUME NEW s, NEW a, Sound(s), Laid(a), Follows(s, a),
         NEW o \in a.objects, o \notin s.objects,
         o.block = a.blocks[Len(a.blocks)].name, End(o) = a.size,
         NEW q, NEW b, Adds(Less(a, o), q, b), NEW c, Dropped(a, o, b, c)
  PROVE  Follows(s, c)
  <1> DEFINE k == Len(a.blocks)
             m == Len(s.blocks)
  <1>1. /\ Laid(s) /\ Laid(Less(a, o)) /\ Follows(s, Less(a, o))
        /\ m = k => s.size <= o.at
    BY LessIsLaid, LessFollows DEF Sound
  <1>2. Follows(s, b)
    BY <1>1, AddsFollows
  <1>3. m \in Nat \ {0} /\ s.size \in Nat /\ k \in Nat \ {0}
    BY <1>1, Fields
  <1>4. /\ o.at = 0 /\ k > 1
        /\ Len(b.blocks) = k + 1 /\ Len(c.blocks) = k
        /\ \A i \in 1 .. k - 1 : c.blocks[i] = a.blocks[i]
        /\ c.objects = b.objects /\ c.fresh = b.fresh
    BY DEF Dropped
  <1>5. m # k
    BY <1>1, <1>3, <1>4 DEF Sound
  <1>6. m <= k /\ \A i \in 1 .. m : a.blocks[i] = s.blocks[i]
    BY DEF Follows
  <1>7. m < k /\ \A i \in 1 .. m : i \in 1 .. k - 1
    BY <1>3, <1>5, <1>6
  <1>8. \A i \in 1 .. m : c.blocks[i] = s.blocks[i]
    BY <1>4, <1>6, <1>7
  <1>9. /\ s.fresh <= c.fresh /\ s.objects \subseteq c.objects
        /\ \A p \in c.objects \ s.objects :
             /\ s.fresh <= p.name
             /\ \A i \in 1 .. m : p.block = s.blocks[i].name => i = m /\ s.size <= p.at
    BY <1>2, <1>4 DEF Follows
  <1>10. m <= Len(c.blocks) /\ m # Len(c.blocks)
    BY <1>4, <1>5, <1>6
  <1>11. QED
    BY <1>8, <1>9, <1>10 DEF Follows

(* What reallocate does, of the last object: one of the two above. *)
LEMMA ReallocateMoves ==
  ASSUME NEW a, Laid(a), NEW o \in a.objects, NEW old, IsLast(a, o.name, old),
         NEW new \in Nat \ {0}
  PROVE  \E q, b : /\ Adds(Less(a, o), q, b) /\ q.size = Aligned(new)
                   /\ \/ Reallocate(a, o.name, old, new) = b
                      \/ Dropped(a, o, b, Reallocate(a, o.name, old, new))
  <1>1. o.block = a.blocks[Len(a.blocks)].name /\ End(o) = a.size
    BY LastIsTaken
  <1>2. Laid(Less(a, o))
    BY <1>1, LessIsLaid
  <1> DEFINE b == Allocate(Less(a, o), new)
  <1>3. PICK q : Adds(Less(a, o), q, b) /\ q.size = Aligned(new)
    BY <1>2, AllocateAdds
  <1>4. Reallocate(a, o.name, old, new) = Freed(b, a, old)
    BY ReallocateIsLess
  <1> HIDE DEF b
  <1>5. Freed(b, a, old) = b \/ Dropped(a, o, b, Freed(b, a, old))
    BY <1>3, FreedIsDropped
  <1>6. QED
    BY <1>3, <1>4, <1>5

------------------------------------------------------------------------------
(* The theorems.                                                           *)

(* An allocation keeps every object in its block and apart from the        *)
(* others, leaves those that were there alone, and its object has the size *)
(* that was asked for, rounded up.                                         *)
THEOREM AllocationIsSound ==
  ASSUME NEW a, Sound(a), NEW wanted \in Nat \ {0}
  PROVE  /\ Sound(Allocate(a, wanted))
         /\ \E o \in Objects : /\ o.name = a.fresh /\ o.size = Aligned(wanted)
                               /\ Allocate(a, wanted).objects = a.objects \cup {o}
  <1>1. Laid(a)
    BY DEF Sound
  <1>2. PICK o : Adds(a, o, Allocate(a, wanted)) /\ o.size = Aligned(wanted)
    BY <1>1, AllocateAdds
  <1>3. Sound(Allocate(a, wanted))
    BY <1>1, <1>2, AddsKeepsSound
  <1>4. /\ o \in Objects /\ o.name = a.fresh
        /\ Allocate(a, wanted).objects = a.objects \cup {o}
    BY <1>2, Zenon DEF Adds
  <1>5. QED
    BY <1>2, <1>3, <1>4

(* So does a reallocation of the last object, given its size: it makes     *)
(* another one of the new size for it, and of the others none is lost when *)
(* the block that held only the old one is freed.                          *)
THEOREM ReallocationIsSound ==
  ASSUME NEW a, Sound(a), NEW o \in a.objects, NEW old, IsLast(a, o.name, old),
         NEW new \in Nat \ {0}
  PROVE  /\ Sound(Reallocate(a, o.name, old, new))
         /\ \E q \in Objects :
              /\ q.name = a.fresh /\ q.size = Aligned(new)
              /\ Reallocate(a, o.name, old, new).objects = (a.objects \ {o}) \cup {q}
  <1> DEFINE c == Reallocate(a, o.name, old, new)
             w == Less(a, o)
  <1>1. Laid(a)
    BY DEF Sound
  <1>2. o.block = a.blocks[Len(a.blocks)].name /\ End(o) = a.size
    BY <1>1, LastIsTaken
  <1>3. Laid(w) /\ w.objects = a.objects \ {o} /\ w.fresh = a.fresh
    BY <1>1, <1>2, LessIsLaid
  <1>4. PICK q, b : /\ Adds(w, q, b) /\ q.size = Aligned(new)
                    /\ c = b \/ Dropped(a, o, b, c)
    BY <1>1, ReallocateMoves
  <1> HIDE DEF c, w
  <1>5. q \in Objects /\ q.name = w.fresh /\ b.objects = w.objects \cup {q}
    BY <1>4, Zenon DEF Adds
  <1>6. c.objects = b.objects
    BY <1>4, Zenon DEF Dropped
  <1>7. Sound(c)
    <2>1. CASE c = b
      BY <1>3, <1>4, <2>1, AddsKeepsSound
    <2>2. CASE Dropped(a, o, b, c)
      BY <1>1, <1>2, <1>4, <2>2, DroppedIsSound DEF w
    <2>3. QED
      BY <1>4, <2>1, <2>2
  <1>8. QED
    BY <1>3, <1>4, <1>5, <1>6, <1>7 DEF c

(* a is in the scopes of the captures open, made one in another. *)
InScopes(a, open) ==
  /\ Sound(a)
  /\ \A i \in 1 .. Len(open) : Sound(open[i]) /\ Follows(open[i], a)
  /\ \A i, j \in 1 .. Len(open) : i < j => Follows(open[i], open[j])

(* Of an evaluation it is true from the start, ... *)
LEMMA NewInNoScope == InScopes(NewAllocator, <<>>)
  <1> DEFINE a == NewAllocator
             block == [name |-> 0, capacity |-> BlockCapacity]
  <1>1. a.blocks = <<block>> /\ a.size = 0 /\ a.objects = {} /\ a.fresh = 1
    BY DEF NewAllocator
  <1>2. BlockCapacity \in Nat \ {0}
    BY BlockAssumption
  <1>3. block \in Blocks
    BY <1>2 DEF Blocks
  <1>4. a \in Allocators
    <2>1. a.blocks \in Seq(Blocks) /\ a.objects \in SUBSET Objects
      BY <1>1, <1>3
    <2>2. QED
      BY <2>1 DEF Allocators, NewAllocator
  <1> HIDE DEF a
  <1>5. Len(a.blocks) = 1 /\ a.blocks[1] = block /\ a.blocks # <<>>
    BY <1>1
  <1>6. BlocksAreSound(a)
    <2>1. block.name < a.fresh /\ BlockCapacity <= block.capacity /\ a.size <= block.capacity
      BY <1>1, <1>2
    <2>2. \A i \in 1 .. Len(a.blocks) : i = 1
      BY <1>5
    <2>3. QED
      BY <1>5, <2>1, <2>2 DEF BlocksAreSound
  <1>7. ObjectsAreSound(a)
    BY <1>1 DEF ObjectsAreSound
  <1>8. Sound(a)
    BY <1>4, <1>5, <1>6, <1>7 DEF Sound, Laid
  <1>9. \A i \in 1 .. Len(<<>>) : FALSE
    OBVIOUS
  <1>10. QED
    BY <1>8, <1>9 DEF InScopes, a

(* An allocator follows itself: there a capture begins. *)
LEMMA FollowsItself ==
  ASSUME NEW a, Laid(a)
  PROVE  Follows(a, a)
  BY Fields DEF Follows

(* What evaluations do with an allocator keeps it in the scopes it is in:  *)
(* it begins with none, allocates, reallocates an object that none of the  *)
(* open captures remembers, and opens another one.                         *)
THEOREM ScopesAreKept ==
  /\ InScopes(NewAllocator, <<>>)
  /\ \A a, open : InScopes(a, open) =>
       /\ \A wanted \in Nat \ {0} : InScopes(Allocate(a, wanted), open)
       /\ \A o \in a.objects, old, new \in Nat \ {0} :
            /\ IsLast(a, o.name, old)
            /\ \A i \in 1 .. Len(open) : o \notin open[i].objects
            => InScopes(Reallocate(a, o.name, old, new), open)
       /\ \A S : open \in Seq(S) => InScopes(a, Append(open, a))
  <1>1. ASSUME NEW a, NEW open, InScopes(a, open), NEW wanted \in Nat \ {0}
        PROVE  InScopes(Allocate(a, wanted), open)
    <2>1. /\ Sound(a) /\ Laid(a)
          /\ \A i \in 1 .. Len(open) : /\ Sound(open[i]) /\ Laid(open[i])
                                       /\ Follows(open[i], a)
      BY <1>1 DEF InScopes, Sound
    <2> DEFINE b == Allocate(a, wanted)
    <2>2. PICK o : Adds(a, o, b)
      BY <2>1, AllocateAdds
    <2> HIDE DEF b
    <2>3. Sound(b)
      BY <2>1, <2>2, AddsKeepsSound
    <2>4. \A i \in 1 .. Len(open) : Follows(open[i], b)
      BY <2>1, <2>2, AddsFollows
    <2>5. QED
      BY <1>1, <2>3, <2>4 DEF InScopes, b
  <1>2. ASSUME NEW a, NEW open, InScopes(a, open),
               NEW o \in a.objects, NEW old \in Nat \ {0}, NEW new \in Nat \ {0},
               IsLast(a, o.name, old), \A i \in 1 .. Len(open) : o \notin open[i].objects
        PROVE  InScopes(Reallocate(a, o.name, old, new), open)
    <2> DEFINE c == Reallocate(a, o.name, old, new)
               w == Less(a, o)
    <2>1. /\ Sound(a) /\ Laid(a)
          /\ \A i \in 1 .. Len(open) : /\ Sound(open[i]) /\ Laid(open[i])
                                       /\ Follows(open[i], a)
      BY <1>2 DEF InScopes, Sound
    <2>2. o.block = a.blocks[Len(a.blocks)].name /\ End(o) = a.size
      BY <1>2, <2>1, LastIsTaken
    <2>3. Sound(c)
      BY <1>2, <2>1, ReallocationIsSound
    <2>4. PICK q, b : Adds(w, q, b) /\ (c = b \/ Dropped(a, o, b, c))
      BY <1>2, <2>1, ReallocateMoves
    <2>5. Laid(w)
      BY <2>1, <2>2, LessIsLaid
    <2> HIDE DEF c
    <2>6. ASSUME NEW i \in 1 .. Len(open)
          PROVE  Follows(open[i], c)
      <3>1. /\ Sound(open[i]) /\ Laid(open[i]) /\ Follows(open[i], a)
            /\ o \notin open[i].objects
        BY <1>2, <2>1
      <3>2. CASE c = b
        <4>1. Follows(open[i], w)
          BY <2>1, <2>2, <3>1, LessFollows
        <4>2. QED
          BY <2>4, <2>5, <3>1, <3>2, <4>1, AddsFollows
      <3>3. CASE Dropped(a, o, b, c)
        BY <2>1, <2>2, <2>4, <3>1, <3>3, DroppedFollows
      <3>4. QED
        BY <2>4, <3>2, <3>3
    <2>7. QED
      BY <1>2, <2>3, <2>6 DEF InScopes, c
  <1>3. ASSUME NEW a, NEW open, InScopes(a, open), NEW S, open \in Seq(S)
        PROVE  InScopes(a, Append(open, a))
    <2> DEFINE n == Len(open)
               more == Append(open, a)
    <2>1. /\ n \in Nat /\ Len(more) = n + 1 /\ more[n + 1] = a
          /\ \A i \in 1 .. n : more[i] = open[i]
      BY <1>3
    <2>2. Sound(a) /\ Follows(a, a)
      BY <1>3, FollowsItself DEF InScopes, Sound
    <2> HIDE DEF more
    <2>3. \A i \in 1 .. n : Sound(open[i]) /\ Follows(open[i], a)
      BY <1>3 DEF InScopes
    <2>4. \A i, j \in 1 .. n : i < j => Follows(open[i], open[j])
      BY <1>3 DEF InScopes
    <2>5. \A i \in 1 .. n + 1 : i \in 1 .. n \/ i = n + 1
      BY <2>1
    <2>6. \A i \in 1 .. n + 1 : Sound(more[i]) /\ Follows(more[i], a)
      BY <2>1, <2>2, <2>3, <2>5
    <2>7. ASSUME NEW i \in 1 .. n + 1, NEW j \in 1 .. n + 1, i < j
          PROVE  Follows(more[i], more[j])
      <3>1. i \in 1 .. n
        BY <2>1, <2>7
      <3>2. CASE j = n + 1
        BY <2>1, <2>3, <3>1, <3>2
      <3>3. CASE j \in 1 .. n
        BY <2>1, <2>4, <2>7, <3>1, <3>3
      <3>4. QED
        BY <2>5, <3>2, <3>3
    <2>8. QED
      BY <2>1, <2>2, <2>6, <2>7 DEF InScopes, more
  <1>4. QED
    BY <1>1, <1>2, <1>3, NewInNoScope

(* The capture opened last then gives back, when it ends, exactly what     *)
(* came after it, and the allocator is still in the scopes around it.      *)
THEOREM CapturesGiveBack ==
  ASSUME NEW a, NEW S, NEW open \in Seq(S), open # <<>>, InScopes(a, open)
  PROVE  /\ GivesBack(a, Last(open))
         /\ InScopes(Revert(a, Last(open)), Front(open))
  <1> DEFINE n == Len(open)
             t == Last(open)
             r == Revert(a, t)
             front == Front(open)
  <1>1. n \in Nat \ {0} /\ n \in 1 .. n /\ t = open[n]
    BY DEF Last
  <1>2. /\ Len(front) = n - 1
        /\ \A i \in 1 .. n - 1 : front[i] = open[i]
    <2>1. front = SubSeq(open, 1, n - 1)
      BY DEF Front
    <2> HIDE DEF front
    <2>2. \A i \in 1 .. n : open[i] \in S
      OBVIOUS
    <2>3. \A i \in 1 .. n - 1 : i \in 1 .. n
      BY <1>1
    <2>4. /\ Len(SubSeq(open, 1, n - 1)) = n - 1
          /\ \A i \in 1 .. n - 1 : SubSeq(open, 1, n - 1)[i] = open[i]
      <3>1. n - 1 \in Nat /\ n - 1 <= n
        BY <1>1
      <3>2. \A i \in 1 .. n - 1 : open[i] \in S
        BY <2>2, <2>3
      <3> DEFINE k == n - 1
      <3> HIDE DEF k
      <3>3. k \in Nat /\ \A i \in 1 .. k : open[i] \in S
        BY <3>1, <3>2 DEF k
      <3>4. /\ Len(SubSeq(open, 1, k)) = IF 1 <= k THEN k - 1 + 1 ELSE 0
            /\ \A i \in 1 .. k - 1 + 1 : SubSeq(open, 1, k)[i] = open[1 + i - 1]
        BY <3>3, SubSeqProperties
      <3>5. /\ Len(SubSeq(open, 1, k)) = k
            /\ \A i \in 1 .. k : SubSeq(open, 1, k)[i] = open[i]
        BY <3>3, <3>4
      <3>6. QED
        BY <3>5 DEF k
    <2>5. QED
      BY <2>1, <2>4
  <1>3. Sound(t) /\ Follows(t, a) /\ Sound(a)
    BY <1>1 DEF InScopes
  <1> HIDE DEF t, front
  <1>4. GivesBack(a, t)
    BY <1>3, CaptureGivesBack
  <1>5. Laid(t) /\ Laid(a)
    BY <1>3 DEF Sound
  <1>6. /\ t = [blocks |-> t.blocks, size |-> t.size, objects |-> t.objects, fresh |-> t.fresh]
        /\ t.fresh \in Nat \ {0} /\ a.fresh \in Nat \ {0}
        /\ \A i \in 1 .. Len(t.blocks) : t.blocks[i].name \in Nat
        /\ \A o \in t.objects : o.name \in Nat
        /\ t.fresh <= a.fresh
    <2>1. t = [blocks |-> t.blocks, size |-> t.size, objects |-> t.objects, fresh |-> t.fresh]
      BY <1>5, Fields
    <2>2. /\ t.fresh \in Nat \ {0}
          /\ \A i \in 1 .. Len(t.blocks) : t.blocks[i].name \in Nat
          /\ \A o \in t.objects : o.name \in Nat
      BY <1>5, Fields
    <2>3. a.fresh \in Nat \ {0}
      BY <1>5, Fields
    <2>4. t.fresh <= a.fresh
      BY <1>3 DEF Follows
    <2>5. QED
      BY <2>1, <2>2, <2>3, <2>4
  <1>7. r = [t EXCEPT !.fresh = a.fresh]
    BY <1>4, Zenon DEF GivesBack
  <1> HIDE DEF r
  <1>8. r.blocks = t.blocks /\ r.size = t.size /\ r.objects = t.objects /\ r.fresh = a.fresh
    BY <1>6, <1>7
  <1>9. r \in Allocators
    BY <1>5, <1>6, <1>7 DEF Allocators, Laid
  <1>10. BlocksAreSound(r)
    BY <1>5, <1>6, <1>8 DEF BlocksAreSound, Laid
  <1>11. ObjectsAreSound(r)
    <2>1. /\ \A o \in t.objects :
               /\ o.name < t.fresh
               /\ \E i \in 1 .. Len(t.blocks) : /\ o.block = t.blocks[i].name
                                                /\ End(o) <= t.blocks[i].capacity
                                                /\ i = Len(t.blocks) => End(o) <= t.size
          /\ \A o, p \in t.objects : o # p => o.name # p.name /\ Apart(o, p)
      BY <1>5 DEF Laid, ObjectsAreSound
    <2>2. \A o \in t.objects : o.name < r.fresh
      BY <1>6, <1>8, <2>1
    <2>3. QED
      BY <1>8, <2>1, <2>2 DEF ObjectsAreSound
  <1>12. Sound(r)
    BY <1>3, <1>8, <1>9, <1>10, <1>11 DEF Sound, Laid
  <1>13. ASSUME NEW i \in 1 .. n - 1
         PROVE  Sound(open[i]) /\ Follows(open[i], r)
    <2>1. Sound(open[i]) /\ Follows(open[i], t) /\ Follows(open[i], a)
      <3>1. i \in 1 .. n /\ i < n
        BY <1>1
      <3>2. QED
        BY <1>1, <3>1 DEF InScopes
    <2>2. open[i].fresh <= a.fresh
      BY <2>1 DEF Follows
    <2>3. QED
      BY <1>8, <2>1, <2>2 DEF Follows
  <1>14. \A i, j \in 1 .. n - 1 : i < j => Follows(open[i], open[j])
    <2>1. \A i \in 1 .. n - 1 : i \in 1 .. n
      BY <1>1
    <2>2. QED
      BY <2>1 DEF InScopes
  <1>15. InScopes(r, front)
    BY <1>2, <1>12, <1>13, <1>14 DEF InScopes
  <1>16. QED
    BY <1>4, <1>15 DEF t, r, front
==============================================================================
