------------------------------- MODULE XmlTree -------------------------------
(***************************************************************************)
(* The nodes and attributes of a pugi::xml_document and the links between  *)
(* them (pugixml.cpp: xml_node, append_node, destroy_node).  Children and  *)
(* attributes are lists: next is Nil at the last, prev of the first leads  *)
(* to the last.                                                            *)
(*                                                                         *)
(* A handle the user passes is that of a node or attribute that exists, of *)
(* this document.  A call that is refused, or gets no memory, changes      *)
(* nothing, and is no step.                                                *)
(***************************************************************************)
EXTENDS XmlKinds, Sequences, SequencesExt

CONSTANTS Nodes,     \* identities of nodes
          Attrs,     \* identities of attributes
          Document,  \* the node that is the document
          NewKinds,  \* the kinds of nodes added
          Strings    \* the names and values given

ASSUME NodesAssumption == /\ Document \in Nodes
                          /\ Nodes \cap Attrs = {}
                          /\ Nil \notin Nodes \cup Attrs \cup Kinds \cup Strings
                          /\ NewKinds \subseteq Kinds

VARIABLE dom

Items == Nodes \cup Attrs

Documents ==
  [kind   : [Nodes -> Kinds \cup {Nil}],
   owned  : SUBSET Attrs,
   parent : [Nodes -> Nodes \cup {Nil}],
   first  : [Nodes -> Nodes \cup {Nil}],
   attr   : [Nodes -> Attrs \cup {Nil}],
   next   : [Items -> Items \cup {Nil}],
   prev   : [Items -> Items \cup {Nil}],
   name   : [Items -> Strings \cup {"xml", Nil}],
   value  : [Items -> Strings \cup {Nil}]]

(* xml_document::create: the document is its own previous sibling. *)
Empty == [kind   |-> [n \in Nodes |-> IF n = Document THEN "document" ELSE Nil],
          owned  |-> {},
          parent |-> [n \in Nodes |-> Nil],
          first  |-> [n \in Nodes |-> Nil],
          attr   |-> [n \in Nodes |-> Nil],
          next   |-> [i \in Items |-> Nil],
          prev   |-> [i \in Items |-> IF i = Document THEN Document ELSE Nil],
          name   |-> [i \in Items |-> Nil],
          value  |-> [i \in Items |-> Nil]]

Init == dom = Empty

------------------------------------------------------------------------------
(* Lists.  A list is its links and its head; x is an item in no list.      *)

Children(d, n)   == [next |-> d.next, prev |-> d.prev, head |-> d.first[n]]
Attributes(d, n) == [next |-> d.next, prev |-> d.prev, head |-> d.attr[n]]

WithChildren(d, n, l) == [d EXCEPT !.next = l.next, !.prev = l.prev, !.first[n] = l.head]
WithAttributes(d, n, l) == [d EXCEPT !.next = l.next, !.prev = l.prev, !.attr[n] = l.head]

Alone(l, x) == [l EXCEPT !.prev[x] = x, !.head = x]

Appended(l, x) ==
  IF l.head = Nil THEN Alone(l, x)
  ELSE LET last == l.prev[l.head]
       IN  [l EXCEPT !.next[last] = x, !.prev = [@ EXCEPT ![x] = last, ![l.head] = x]]

(* Fault: the old head still leads back to the last item. *)
PrependedHalf(l, x) ==
  IF l.head = Nil THEN Alone(l, x)
  ELSE [l EXCEPT !.next[x] = l.head, !.prev[x] = l.prev[l.head], !.head = x]

Prepended(l, x) ==
  IF l.head = Nil THEN Alone(l, x)
  ELSE [l EXCEPT !.next[x] = l.head,
                 !.prev = [@ EXCEPT ![x] = l.prev[l.head], ![l.head] = x],
                 !.head = x]

(* Is y the first of its list?  The last item leads on to nothing. *)
IsFirst(l, y) == l.next[l.prev[y]] = Nil

InsertedBefore(l, x, y) ==
  LET before == l.prev[y]
  IN  [next |-> IF IsFirst(l, y) THEN [l.next EXCEPT ![x] = y]
                ELSE [l.next EXCEPT ![before] = x, ![x] = y],
       prev |-> [l.prev EXCEPT ![x] = before, ![y] = x],
       head |-> IF IsFirst(l, y) THEN x ELSE l.head]

InsertedAfter(l, x, y) ==
  LET after == l.next[y]
      back  == IF after # Nil THEN after ELSE l.head
  IN  [l EXCEPT !.next = [@ EXCEPT ![x] = after, ![y] = x],
                !.prev = [@ EXCEPT ![back] = x, ![x] = y]]

(* Fault: the link back to x is not mended. *)
UnlinkedForward(l, x) ==
  IF l.next[l.prev[x]] # Nil THEN [l EXCEPT !.next[l.prev[x]] = l.next[x]]
  ELSE [l EXCEPT !.head = l.next[x]]

(* The links to x are mended one after the other, as the code does: what   *)
(* is before x is read again after the links backward have been mended.    *)
Unlinked(l, x) ==
  LET back == IF l.next[x] # Nil THEN l.next[x] ELSE l.head
      prev == [l.prev EXCEPT ![back] = l.prev[x]]
      before == prev[x]
  IN  IF l.next[before] # Nil
      THEN [l EXCEPT !.prev = prev, !.next[before] = l.next[x]]
      ELSE [l EXCEPT !.prev = prev, !.head = l.next[x]]

------------------------------------------------------------------------------
(* Nodes.                                                                  *)

Exists(n) == dom.kind[n] # Nil

Living == {n \in Nodes : Exists(n)}

(* Every field has the type its declaration gives it, and every pointer of *)
(* what exists leads to what exists, too: none to a node or an attribute   *)
(* that has been given back to the allocator.  The one to the previous     *)
(* item is never null, in a child or an attribute: the code follows it     *)
(* without asking.                                                         *)
TypeOK ==
  /\ dom \in Documents
  /\ \A n \in Living :
       /\ {dom.first[n], dom.parent[n], dom.next[n]} \subseteq Living \cup {Nil}
       /\ dom.attr[n] \in dom.owned \cup {Nil}
       /\ dom.parent[n] # Nil => dom.prev[n] \in Living
  /\ \A a \in dom.owned : /\ dom.next[a] \in dom.owned \cup {Nil}
                          /\ dom.prev[a] \in dom.owned

(* allocate_node, and the place in the tree. *)
NewNode(d, n, k, x, l) ==
  [WithChildren(d, n, l) EXCEPT !.kind[x] = k, !.parent[x] = n, !.name[x] = NewName(k)]

MayHold(n, k, x) == /\ AllowInsertChild(dom.kind[n], k)
                    /\ dom.kind[x] = Nil

AppendChild(n, k, x) ==
  /\ MayHold(n, k, x)
  /\ dom' = NewNode(dom, n, k, x, Appended(Children(dom, n), x))

PrependChild(n, k, x) ==
  /\ MayHold(n, k, x)
  /\ dom' = NewNode(dom, n, k, x, Prepended(Children(dom, n), x))

InsertChildBefore(n, k, x, y) ==
  /\ MayHold(n, k, x)
  /\ Exists(y) /\ dom.parent[y] = n
  /\ dom' = NewNode(dom, n, k, x, InsertedBefore(Children(dom, n), x, y))

InsertChildAfter(n, k, x, y) ==
  /\ MayHold(n, k, x)
  /\ Exists(y) /\ dom.parent[y] = n
  /\ dom' = NewNode(dom, n, k, x, InsertedAfter(Children(dom, n), x, y))

(* The items of a list from head on. *)
From(d, head) ==
  LET items[i \in Items \cup {Nil}] == IF i = Nil THEN <<>> ELSE <<i>> \o items[d.next[i]]
  IN  items[head]

(* Fault: the attributes of x stay. *)
DoomedNodes(d, x) ==
  LET doomed[n \in Nodes] == {n} \cup UNION {doomed[c] : c \in ToSet(From(d, d.first[n]))}
  IN  doomed[x]

(* destroy_node: x, its attributes and all below it. *)
Doomed(d, x) ==
  LET doomed[n \in Nodes] ==
        {n} \cup ToSet(From(d, d.attr[n])) \cup
        UNION {doomed[c] : c \in ToSet(From(d, d.first[n]))}
  IN  doomed[x]

Destroyed(d, gone) ==
  [kind   |-> [n \in Nodes |-> IF n \in gone THEN Nil ELSE d.kind[n]],
   owned  |-> d.owned \ gone,
   parent |-> [n \in Nodes |-> IF n \in gone THEN Nil ELSE d.parent[n]],
   first  |-> [n \in Nodes |-> IF n \in gone THEN Nil ELSE d.first[n]],
   attr   |-> [n \in Nodes |-> IF n \in gone THEN Nil ELSE d.attr[n]],
   next   |-> [i \in Items |-> IF i \in gone THEN Nil ELSE d.next[i]],
   prev   |-> [i \in Items |-> IF i \in gone THEN Nil ELSE d.prev[i]],
   name   |-> [i \in Items |-> IF i \in gone THEN Nil ELSE d.name[i]],
   value  |-> [i \in Items |-> IF i \in gone THEN Nil ELSE d.value[i]]]

RemoveChild(n, x) ==
  /\ Exists(n) /\ Exists(x)
  /\ dom.parent[x] = n
  /\ LET d == WithChildren(dom, n, Unlinked(Children(dom, n), x))
     IN  dom' = Destroyed(d, Doomed(d, x))

------------------------------------------------------------------------------
(* Attributes.                                                             *)

(* Which attribute list a is in: the code walks back to the first item.    *)
FirstOf(d, a) ==
  LET back[b \in d.owned] == IF d.next[d.prev[b]] = Nil THEN b ELSE back[d.prev[b]]
  IN  back[a]

Belongs(n, a) == a \in dom.owned /\ FirstOf(dom, a) = dom.attr[n]

(* allocate_attribute, set_name and the place in the list. *)
NewAttribute(d, n, s, a, l) ==
  [WithAttributes(d, n, l) EXCEPT !.owned = @ \cup {a}, !.name[a] = s]

MayHave(n, a) == HasAttributes(dom.kind[n]) /\ a \notin dom.owned

AppendAttribute(n, s, a) ==
  /\ MayHave(n, a)
  /\ dom' = NewAttribute(dom, n, s, a, Appended(Attributes(dom, n), a))

PrependAttribute(n, s, a) ==
  /\ MayHave(n, a)
  /\ dom' = NewAttribute(dom, n, s, a, Prepended(Attributes(dom, n), a))

InsertAttributeBefore(n, s, a, b) ==
  /\ MayHave(n, a)
  /\ Belongs(n, b)
  /\ dom' = NewAttribute(dom, n, s, a, InsertedBefore(Attributes(dom, n), a, b))

InsertAttributeAfter(n, s, a, b) ==
  /\ MayHave(n, a)
  /\ Belongs(n, b)
  /\ dom' = NewAttribute(dom, n, s, a, InsertedAfter(Attributes(dom, n), a, b))

RemoveAttribute(n, a) ==
  /\ Exists(n)
  /\ Belongs(n, a)
  /\ dom' = Destroyed(WithAttributes(dom, n, Unlinked(Attributes(dom, n), a)), {a})

------------------------------------------------------------------------------
SetName(i, s) ==
  /\ IF i \in Nodes THEN HasName(dom.kind[i]) ELSE i \in dom.owned
  /\ dom' = [dom EXCEPT !.name[i] = s]

SetValue(i, s) ==
  /\ IF i \in Nodes THEN HasValue(dom.kind[i]) ELSE i \in dom.owned
  /\ dom' = [dom EXCEPT !.value[i] = s]

Reset == dom' = Empty

Text == Strings \cup {Nil}

ChangeNodes ==
  \E n, x \in Nodes :
    \/ RemoveChild(n, x)
    \/ \E k \in NewKinds : \/ AppendChild(n, k, x)
                           \/ PrependChild(n, k, x)
                           \/ \E y \in Nodes : \/ InsertChildBefore(n, k, x, y)
                                               \/ InsertChildAfter(n, k, x, y)

ChangeAttributes ==
  \E n \in Nodes, a \in Attrs :
    \/ RemoveAttribute(n, a)
    \/ \E s \in Text : \/ AppendAttribute(n, s, a)
                       \/ PrependAttribute(n, s, a)
                       \/ \E b \in Attrs : \/ InsertAttributeBefore(n, s, a, b)
                                           \/ InsertAttributeAfter(n, s, a, b)

ChangeStrings == \E i \in Items, s \in Text : SetName(i, s) \/ SetValue(i, s)

Next == ChangeNodes \/ ChangeAttributes \/ ChangeStrings \/ Reset

Spec == Init /\ [][Next]_dom

------------------------------------------------------------------------------
(* The tree the links stand for. *)
Tree == INSTANCE AbstractTree WITH
  kind       <- dom.kind,
  children   <- [n \in Nodes |-> From(dom, dom.first[n])],
  attributes <- [n \in Nodes |-> From(dom, dom.attr[n])],
  name       <- dom.name,
  value      <- dom.value

Kids(d, n) == From(d, d.first[n])

(* The nodes whose children are other ones in d, and those that are new or *)
(* gone in d.                                                              *)
Touched(d) == {n \in Nodes : Kids(d, n) # Kids(dom, n)}
Changed(d) == {n \in Nodes : d.kind[n] # dom.kind[n]}

(* Each operation of the links is that operation of the tree: the new node *)
(* is where it was asked for, all else stays where it was, and a removal   *)
(* takes what is below the node, its attributes included, and no more.     *)
NodeStep ==
  \A n \in Touched(dom'), x \in Changed(dom') :
    /\ RemoveChild(n, x) => Tree!RemoveChild(n, x)
    /\ \A k \in NewKinds :
         /\ AppendChild(n, k, x) => Tree!AppendChild(n, k, x)
         /\ PrependChild(n, k, x) => Tree!PrependChild(n, k, x)
         /\ \A y \in Nodes :
              /\ InsertChildBefore(n, k, x, y) => Tree!InsertChildBefore(n, k, x, y)
              /\ InsertChildAfter(n, k, x, y) => Tree!InsertChildAfter(n, k, x, y)

(* The same for attributes. *)
AttributeStep ==
  \A n \in Nodes, a \in {b \in Attrs : (b \in dom.owned) # (b \in dom'.owned)} :
    /\ RemoveAttribute(n, a) => Tree!RemoveAttribute(n, a)
    /\ \A s \in Text :
         /\ AppendAttribute(n, s, a) => Tree!AppendAttribute(n, s, a)
         /\ PrependAttribute(n, s, a) => Tree!PrependAttribute(n, s, a)
         /\ \A b \in Attrs :
              /\ InsertAttributeBefore(n, s, a, b) => Tree!InsertAttributeBefore(n, s, a, b)
              /\ InsertAttributeAfter(n, s, a, b) => Tree!InsertAttributeAfter(n, s, a, b)

(* The linked document implements the tree: each step is the operation of  *)
(* AbstractTree that the call is named for.                                *)
TreeOperations == [][NodeStep /\ AttributeStep]_dom

(* A document without copies, as its users see it, is that tree: it starts *)
(* empty and changes by the operations of the tree only, texts and reset   *)
(* included.                                                               *)
DocumentIsTree == Tree!Spec

(* An attribute is found in the list of the node that has it and in no     *)
(* other, also of nodes without attributes: only then may it be removed    *)
(* there or others be inserted beside it.                                  *)
BelongsIsRight ==
  \A n \in Nodes, a \in Attrs :
    Exists(n) => (Belongs(n, a) <=> a \in ToSet(From(dom, dom.attr[n])))

(* What a list reads backward: last_child and previous_sibling, or         *)
(* last_attribute and previous_attribute, give its items from the last one *)
(* to the first, and there end.                                            *)
LastItem(head) == IF head = Nil THEN Nil ELSE dom.prev[head]

Previous(x) == LET before == dom.prev[x] IN IF dom.next[before] # Nil THEN before ELSE Nil

ReadsBackward(head) ==
  LET s == From(dom, head)
  IN  /\ LastItem(head) = IF s = <<>> THEN Nil ELSE Last(s)
      /\ \A i \in 1 .. Len(s) : Previous(s[i]) = IF i = 1 THEN Nil ELSE s[i - 1]

(* Whichever operations made them, all lists read the same backward as     *)
(* forward, every child leads to its parent, and walking back from an      *)
(* attribute tells whose it is.                                            *)
ListsAreRings ==
  /\ \A n \in Nodes : Exists(n) =>
       /\ ReadsBackward(dom.first[n]) /\ ReadsBackward(dom.attr[n])
       /\ \A x \in Nodes : x \in ToSet(From(dom, dom.first[n])) <=> dom.parent[x] = n
  /\ BelongsIsRight
==============================================================================
