----------------------------- MODULE XPathMemory -----------------------------
(***************************************************************************)
(* The memory an XPath query is evaluated in (pugixml.cpp:                 *)
(* xpath_allocator, xpath_allocator_capture, xpath_stack).  An allocator   *)
(* is a stack of blocks: objects are put one after the other, only the     *)
(* last one can grow, and a capture gives back all that came after it.     *)
(*                                                                         *)
(* a = [blocks, size, objects, fresh]: the blocks, the last of them being  *)
(* _root, _root_size, the objects that are there and the next new name.    *)
(* m = [al, ok]: the two allocators of an evaluation, and whether every    *)
(* assertion held, every pointer used led to an object and every capture   *)
(* gave back what came after it.                                           *)
(***************************************************************************)
EXTENDS Integers, Sequences, SequencesExt

CONSTANTS BlockCapacity,  \* bytes in a block (4096 in the code)
          Word            \* bytes in a pointer, which sizes are rounded up to

ASSUME BlockAssumption == BlockCapacity \in Nat \ {0} /\ Word \in Nat \ {0}

NoObject == [of |-> 0, name |-> 0]    \* the null pointer, and one to constant text

NewAllocator == [blocks |-> <<[name |-> 0, capacity |-> BlockCapacity]>>, size |-> 0,
                 objects |-> {}, fresh |-> 1]

NewMemory == [al |-> <<NewAllocator, NewAllocator>>, ok |-> TRUE]

Aligned(size) == ((size + Word - 1) \div Word) * Word

(* allocate: a new block is made for the object unless the root, whose     *)
(* capacity is taken for that of any block, has room.                      *)
Allocate(a, wanted) ==
  LET size  == Aligned(wanted)
      fits  == a.size + size <= BlockCapacity
      block == [name |-> a.fresh, capacity |-> IF size > BlockCapacity THEN size ELSE BlockCapacity]
  IN  [blocks  |-> IF fits THEN a.blocks ELSE Append(a.blocks, block),
       size    |-> IF fits THEN a.size + size ELSE size,
       objects |-> a.objects \cup {[name |-> a.fresh, size |-> size,
                                    block |-> IF fits THEN Last(a.blocks).name ELSE a.fresh,
                                    at |-> IF fits THEN a.size ELSE 0]},
       fresh   |-> a.fresh + 1]

Object(a, name) == CHOOSE o \in a.objects : o.name = name
Lives(a, name) == \E o \in a.objects : o.name = name

(* The assertion of reallocate, and that old is the size of the object. *)
IsLast(a, name, old) ==
  /\ Lives(a, name)
  /\ LET o == Object(a, name)
     IN  /\ o.block = Last(a.blocks).name /\ o.at + Aligned(old) = a.size
         /\ o.size = Aligned(old)

(* The block before the last one, which held only the object that grew, is *)
(* freed, unless it is the first of all.                                   *)
Freed(a, was, old) ==
  LET n     == Len(a.blocks)
      moved == a.blocks[n].name # Last(was.blocks).name
  IN  IF moved /\ was.size = Aligned(old) /\ n > 2
      THEN [a EXCEPT !.blocks = RemoveAt(@, n - 1)] ELSE a

(* reallocate, of an object (name 0 for none). *)
Reallocate(a, name, old, new) ==
  IF name = 0 THEN Allocate(a, new)
  ELSE Freed(Allocate([a EXCEPT !.size = @ - Aligned(old),
                                !.objects = {o \in @ : o.name # name}], new), a, old)

(* revert: only the blocks and the size of the capture count. *)
Revert(a, state) ==
  LET kept == SubSeq(a.blocks, 1, Len(state.blocks))
      In(o) == \E i \in DOMAIN kept : /\ kept[i].name = o.block
                                      /\ i = Len(kept) => o.at + o.size <= state.size
  IN  [a EXCEPT !.blocks = kept, !.size = state.size, !.objects = {o \in @ : In(o)}]

(* What revert looks for is there: without it, it would free every block.  *)
Finds(a, state) == IsPrefix(state.blocks, a.blocks)

(* Then the allocator has what it had in state, and no more. *)
GivesBack(a, state) ==
  Finds(a, state) /\ Revert(a, state) = [state EXCEPT !.fresh = a.fresh]

------------------------------------------------------------------------------
(* The same, in a memory; r is the allocator meant.                        *)

Newest(m, r) == [of |-> r, name |-> m.al[r].fresh - 1]

New(m, r, size) == [m EXCEPT !.al[r] = Allocate(@, size)]

Grow(m, r, p, old, new) ==
  [m EXCEPT !.al[r] = Reallocate(@, p.name, old, new),
            !.ok = @ /\ (p # NoObject => p.of = r /\ IsLast(m.al[r], p.name, old))]

(* What a pointer leads to is used. *)
Used(m, p) == [m EXCEPT !.ok = @ /\ (p # NoObject => Lives(m.al[p.of], p.name))]

Asserted(m, fact) == [m EXCEPT !.ok = @ /\ fact]

(* The end of a capture of r in the state it had in old. *)
Restored(m, r, old) ==
  [m EXCEPT !.al[r] = Revert(@, old.al[r]), !.ok = @ /\ GivesBack(m.al[r], old.al[r])]
==============================================================================
