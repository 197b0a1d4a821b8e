------------------------------ MODULE XmlMemory ------------------------------
(***************************************************************************)
(* The pages a pugi::xml_document keeps its nodes, attributes and strings  *)
(* in (pugixml.cpp: xml_memory_page, xml_allocator, strcpy_insitu).        *)
(*                                                                         *)
(* An object is a node or an attribute, and has a text, which stands for   *)
(* its name and its value alike.  Pages form a list from the sentinel,     *)
(* which lies in the document itself and counts as full, to the root, in   *)
(* which memory is given out.  A page is given back when all that was      *)
(* given out of it has been returned.                                      *)
(***************************************************************************)
EXTENDS Integers, FiniteSets

CONSTANTS Objects,     \* identities of nodes and attributes
          Pages,       \* identities of the pages that may be allocated
          Sentinel,    \* the page within the document
          Nil,         \* the null pointer
          PageSize,    \* xml_memory_page_size
          ObjectSize,  \* the size of a node or an attribute
          Lengths,     \* the lengths of the texts set, without the empty one
          ParsedLengths, \* the lengths of the texts found by the parser
          ReuseBelow,  \* reuse_threshold
          MaxFullSize  \* the number of values of a string header's full_size

(* Memory given out: where it begins in a page, and its size. *)
Blocks == [page : Pages, off : Nat, size : Nat \ {0}]

ASSUME SizesAssumption == /\ PageSize \in Nat /\ ObjectSize \in 1 .. PageSize \div 4
                          /\ Lengths \subseteq Nat \ {0} /\ ParsedLengths \subseteq Nat \ {0}
                          /\ ReuseBelow \in Nat
                          /\ MaxFullSize \in Nat /\ MaxFullSize > PageSize
ASSUME PagesAssumption == /\ Sentinel \notin Pages
                          /\ Nil \notin Pages \cup {Sentinel} \cup Blocks

VARIABLES page,  \* page[p]: the links and sizes of page p
          root,  \* _root of the allocator
          top,   \* _busy_size of the allocator
          block, \* block[o]: where object o is, Nil if there is no such object
          text   \* text[o]: the text of o

vars == <<page, root, top, block, text>>
mem == <<page, root, top>>

Unused == [prev |-> Nil, next |-> Nil, busy |-> 0, freed |-> 0]

(* A text: in no memory, in the document's buffer or in a block.  "room"   *)
(* is the length that fits where the text is.                              *)
NoText == [st |-> "none", len |-> 0, room |-> 0, at |-> Nil]
Texts  == {NoText} \cup [st : {"buffer"}, len : Nat, room : Nat, at : {Nil}]
                   \cup [st : {"heap"}, len : Nat, room : Nat, at : Blocks]

TypeOK ==
  /\ page \in [Pages \cup {Sentinel} ->
                 [prev : Pages \cup {Sentinel, Nil}, next : Pages \cup {Nil},
                  busy : Nat, freed : Nat]]
  /\ root \in Pages \cup {Sentinel}
  /\ top \in 0 .. PageSize
  /\ block \in [Objects -> Blocks \cup {Nil}]
  /\ text \in [Objects -> Texts]

------------------------------------------------------------------------------
(* xml_document::create: the sentinel is full from the start. *)
Created == /\ page' = [p \in Pages \cup {Sentinel} |->
                         IF p = Sentinel THEN [Unused EXCEPT !.busy = PageSize] ELSE Unused]
           /\ root' = Sentinel
           /\ top' = PageSize
           /\ block' = [o \in Objects |-> Nil]
           /\ text' = [o \in Objects |-> NoText]

Init == /\ page = [p \in Pages \cup {Sentinel} |->
                     IF p = Sentinel THEN [Unused EXCEPT !.busy = PageSize] ELSE Unused]
        /\ root = Sentinel
        /\ top = PageSize
        /\ block = [o \in Objects |-> Nil]
        /\ text = [o \in Objects |-> NoText]

(* The state of the allocator as a value, since setting a text allocates   *)
(* and deallocates.                                                        *)
Mem == [page |-> page, root |-> root, top |-> top]

InList(m) == {Sentinel, m.root} \cup {p \in Pages : m.page[p].next # Nil}

Threshold == PageSize \div 4

(* Fault: the new root begins where the old one ended. *)
WithNewRootAfter(m, size, p) ==
  [page |-> [m.page EXCEPT ![m.root] = [@ EXCEPT !.busy = m.top, !.next = p],
                           ![p] = [prev |-> m.root, next |-> Nil, busy |-> size, freed |-> 0]],
   root |-> p,
   top  |-> m.top + size]

(* allocate_memory_oob, small: a new root at the end of the list.          *)
WithNewRoot(m, size, p) ==
  [page |-> [m.page EXCEPT ![m.root] = [@ EXCEPT !.busy = m.top, !.next = p],
                           ![p] = [prev |-> m.root, next |-> Nil, busy |-> size, freed |-> 0]],
   root |-> p,
   top  |-> size]

(* allocate_memory_oob, large: a page of its own in front of the root. *)
WithLargePage(m, size, p) ==
  LET before == m.page[m.root].prev
  IN  [m EXCEPT !.page = [@ EXCEPT ![before].next = p,
                                   ![m.root].prev = p,
                                   ![p] = [prev |-> before, next |-> m.root,
                                           busy |-> size, freed |-> 0]]]

(* allocate_memory: the memory afterwards and the block, or Nil when there *)
(* is no room in the root and no page is to be had.                        *)
Allocations(m, size) ==
  IF m.top + size <= PageSize
  THEN {[m  |-> [m EXCEPT !.top = @ + size],
         at |-> [page |-> m.root, off |-> m.top, size |-> size]]}
  ELSE {[m |-> m, at |-> Nil]} \cup
       {[m  |-> IF size <= Threshold THEN WithNewRoot(m, size, p)
                                     ELSE WithLargePage(m, size, p),
         at |-> [page |-> p, off |-> 0, size |-> size]] : p \in Pages \ InList(m)}

(* Fault: only the links that lead forward are mended. *)
UnlinkedForward(m, p) ==
  LET q == m.page[p]
  IN  [m EXCEPT !.page = [@ EXCEPT ![q.prev].next = q.next, ![p] = Unused]]

(* A page leaves the list. *)
Unlinked(m, p) ==
  LET q == m.page[p]
  IN  [m EXCEPT !.page = [@ EXCEPT ![q.prev].next = q.next, ![q.next].prev = q.prev,
                                   ![p] = Unused]]

(* deallocate_memory: the page is given back when nothing of it is in use, *)
(* except the root, which starts again.                                    *)
Deallocated(m, b, size) ==
  LET p     == b.page
      busy  == IF p = m.root THEN m.top ELSE m.page[p].busy
      freed == m.page[p].freed + size
  IN  IF freed # busy
      THEN [m EXCEPT !.page[p] = [@ EXCEPT !.busy = busy, !.freed = freed]]
      ELSE IF p = m.root
           THEN [m EXCEPT !.page[p] = [@ EXCEPT !.busy = 0, !.freed = 0], !.top = 0]
           ELSE Unlinked(m, p)

(* deallocate_string: a full_size that does not fit its field is 0, which  *)
(* stands for the whole page.                                              *)
StringDeallocated(m, b) ==
  Deallocated(m, b, IF b.size < MaxFullSize THEN b.size ELSE m.page[b.page].busy)

TextFreed(m, t) == IF t.st = "heap" THEN StringDeallocated(m, t.at) ELSE m

(* strcpy_insitu_allow: whether a text is written over the old one. *)
Reuse(t, length) ==
  /\ t.st # "none"
  /\ t.len >= length
  /\ t.st = "heap" => \/ t.len < ReuseBelow
                      \/ t.len - length < t.len \div 2

------------------------------------------------------------------------------
Becomes(m) == /\ page' = m.page /\ root' = m.root /\ top' = m.top

(* allocate_node, allocate_attribute; without memory there is no object.   *)
(* The parser leaves the text in the document's buffer.                    *)
Create(o) ==
  /\ block[o] = Nil
  /\ \E r \in Allocations(Mem, ObjectSize) :
       /\ r.at # Nil
       /\ Becomes(r.m)
       /\ block' = [block EXCEPT ![o] = r.at]
  /\ \E len \in ParsedLengths \cup {0} :
       text' = [text EXCEPT ![o] =
                  IF len = 0 THEN NoText
                  ELSE [st |-> "buffer", len |-> len, room |-> len, at |-> Nil]]

(* strcpy_insitu with an empty source. *)
Clear(o) ==
  /\ block[o] # Nil
  /\ Becomes(TextFreed(Mem, text[o]))
  /\ text' = [text EXCEPT ![o] = NoText]
  /\ UNCHANGED block

Overwrite(o, length) ==
  /\ block[o] # Nil
  /\ Reuse(text[o], length)
  /\ text' = [text EXCEPT ![o].len = length]
  /\ UNCHANGED <<mem, block>>

(* Fault: the old text is returned before there is memory for the new one. *)
ReplaceFreesFirst(o, length) ==
  /\ block[o] # Nil
  /\ ~Reuse(text[o], length)
  /\ \E r \in Allocations(TextFreed(Mem, text[o]), length) :
       /\ Becomes(r.m)
       /\ text' = IF r.at = Nil THEN text
                  ELSE [text EXCEPT ![o] = [st |-> "heap", len |-> length, room |-> length,
                                            at |-> r.at]]
  /\ UNCHANGED block

(* A new block for the text; the old one is returned when there is one.    *)
(* Without memory the text stays what it was.                              *)
Replace(o, length) ==
  /\ block[o] # Nil
  /\ ~Reuse(text[o], length)
  /\ \E r \in Allocations(Mem, length) :
       /\ r.at # Nil
       /\ Becomes(TextFreed(r.m, text[o]))
       /\ text' = [text EXCEPT ![o] = [st |-> "heap", len |-> length, room |-> length,
                                       at |-> r.at]]
  /\ UNCHANGED block

(* Fault: the object goes without its text. *)
DestroyKeepsText(o) ==
  /\ block[o] # Nil
  /\ Becomes(Deallocated(Mem, block[o], ObjectSize))
  /\ block' = [block EXCEPT ![o] = Nil]
  /\ text' = [text EXCEPT ![o] = NoText]

(* destroy_node, destroy_attribute: the text goes first. *)
Destroy(o) ==
  /\ block[o] # Nil
  /\ Becomes(Deallocated(TextFreed(Mem, text[o]), block[o], ObjectSize))
  /\ block' = [block EXCEPT ![o] = Nil]
  /\ text' = [text EXCEPT ![o] = NoText]

(* xml_document::reset: destroy() gives back every page after the sentinel. *)
Reset == Created

Next == \/ \E o \in Objects : \/ Create(o)
                              \/ Clear(o)
                              \/ Destroy(o)
                              \/ \E n \in Lengths : Overwrite(o, n) \/ Replace(o, n)
        \/ Reset

Spec == Init /\ [][Next]_vars

------------------------------------------------------------------------------
(* The blocks in use. *)
InUse == {block[o] : o \in {x \in Objects : block[x] # Nil}}
           \cup {text[o].at : o \in {x \in Objects : text[x].st = "heap"}}

Bytes(b) == b.off .. b.off + b.size - 1

Used(p) == UNION {Bytes(b) : b \in {c \in InUse : c.page = p}}

Busy(p) == IF p = root THEN top ELSE page[p].busy

(* A text that was written over another fits where it is. *)
TextsFit == \A o \in Objects : text[o].len <= text[o].room

(* No page is given back while something in it is in use, and no two       *)
(* blocks share a byte: each lies in a page of the list, below what has    *)
(* been given out of it, and texts stay within theirs.                     *)
BlocksAreSafe ==
  /\ \A b \in InUse : b.page \in InList(Mem) /\ Bytes(b) \subseteq 0 .. Busy(b.page) - 1
  /\ \A o, p \in Objects :
       /\ (block[o] # Nil /\ text[p].st = "heap") =>
             (block[o].page = text[p].at.page => Bytes(block[o]) \cap Bytes(text[p].at) = {})
       /\ (o # p /\ block[o] # Nil /\ block[p] # Nil) =>
             (block[o].page = block[p].page => Bytes(block[o]) \cap Bytes(block[p]) = {})
       /\ (o # p /\ text[o].st = "heap" /\ text[p].st = "heap") =>
             (text[o].at.page = text[p].at.page => Bytes(text[o].at) \cap Bytes(text[p].at) = {})
  /\ TextsFit

(* What a page has given out and not got back is what is in use of it:     *)
(* the two counters find the moment at which a page is empty.              *)
CountersAgree ==
  \A p \in InList(Mem) \ {Sentinel} : Cardinality(Used(p)) = Busy(p) - page[p].freed

(* Memory comes back: every page of the list has something in use, except  *)
(* the sentinel and the root.                                              *)
NoIdlePage == \A p \in InList(Mem) \ {Sentinel, root} : Used(p) # {}

(* The links of the list agree, and lead from the root to the sentinel.    *)
(* While there is an object, the root is not the sentinel: a large block   *)
(* has a page to come after (the assert of allocate_memory_oob).  Pages    *)
(* that are idle are given back.                                           *)
ListIsSound ==
  /\ page[root].next = Nil /\ page[Sentinel].prev = Nil
  /\ \A p \in InList(Mem) \ {root} : page[page[p].next].prev = p
  /\ \A p \in InList(Mem) \ {Sentinel} : page[page[p].prev].next = p
  /\ (\E o \in Objects : block[o] # Nil) => page[root].prev # Nil
  /\ NoIdlePage

==============================================================================
