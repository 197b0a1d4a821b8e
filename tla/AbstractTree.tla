---------------------------- MODULE AbstractTree ----------------------------
(***************************************************************************)
(* What a pugi::xml_document promises its users: a tree whose nodes have   *)
(* sequences of children and of attributes, and which one operation        *)
(* changes in one place.                                                   *)
(***************************************************************************)
EXTENDS XmlKinds, Sequences, SequencesExt

CONSTANTS Nodes, Attrs, Document, NewKinds, Strings

VARIABLES kind,        \* kind[n]: the kind of node n, Nil if there is none
          children,    \* children[n]: the children of n
          attributes,  \* attributes[n]: the attributes of n
          name, value  \* of nodes and attributes, Nil for an empty one

vars == <<kind, children, attributes, name, value>>

Start == [kind       |-> [n \in Nodes |-> IF n = Document THEN "document" ELSE Nil],
          children   |-> [n \in Nodes |-> <<>>],
          attributes |-> [n \in Nodes |-> <<>>],
          name       |-> [i \in Nodes \cup Attrs |-> Nil],
          value      |-> [i \in Nodes \cup Attrs |-> Nil]]

Init == /\ kind = Start.kind /\ children = Start.children
        /\ attributes = Start.attributes /\ name = Start.name /\ value = Start.value

IsAttribute(a) == \E n \in Nodes : Contains(attributes[n], a)

Position(s, e) == CHOOSE i \in DOMAIN s : s[i] = e

(* s without e. *)
Without(s, e) == RemoveAt(s, Position(s, e))

(* A new node x of kind k becomes child number i of n. *)
NewChild(n, k, x, i) ==
  /\ AllowInsertChild(kind[n], k)
  /\ kind[x] = Nil
  /\ kind' = [kind EXCEPT ![x] = k]
  /\ children' = [children EXCEPT ![n] = InsertAt(@, i, x)]
  /\ name' = [name EXCEPT ![x] = NewName(k)]
  /\ UNCHANGED <<attributes, value>>

AppendChild(n, k, x)  == NewChild(n, k, x, Len(children[n]) + 1)
PrependChild(n, k, x) == NewChild(n, k, x, 1)
InsertChildBefore(n, k, x, y) == /\ Contains(children[n], y)
                                 /\ NewChild(n, k, x, Position(children[n], y))
InsertChildAfter(n, k, x, y)  == /\ Contains(children[n], y)
                                 /\ NewChild(n, k, x, Position(children[n], y) + 1)

(* A new attribute a with name s becomes attribute number i of n. *)
NewAttribute(n, s, a, i) ==
  /\ HasAttributes(kind[n])
  /\ ~IsAttribute(a)
  /\ attributes' = [attributes EXCEPT ![n] = InsertAt(@, i, a)]
  /\ name' = [name EXCEPT ![a] = s]
  /\ UNCHANGED <<kind, children, value>>

AppendAttribute(n, s, a)  == NewAttribute(n, s, a, Len(attributes[n]) + 1)
PrependAttribute(n, s, a) == NewAttribute(n, s, a, 1)
InsertAttributeBefore(n, s, a, b) == /\ Contains(attributes[n], b)
                                     /\ NewAttribute(n, s, a, Position(attributes[n], b))
InsertAttributeAfter(n, s, a, b)  == /\ Contains(attributes[n], b)
                                     /\ NewAttribute(n, s, a, Position(attributes[n], b) + 1)

RemoveAttribute(n, a) ==
  /\ Contains(attributes[n], a)
  /\ attributes' = [attributes EXCEPT ![n] = Without(@, a)]
  /\ name' = [name EXCEPT ![a] = Nil]
  /\ value' = [value EXCEPT ![a] = Nil]
  /\ UNCHANGED <<kind, children>>

(* x and the nodes below it. *)
Subtree(x) ==
  LET below[n \in Nodes] == {n} \cup UNION {below[c] : c \in ToSet(children[n])}
  IN  below[x]

(* x goes with all that is below it, and nothing else does. *)
RemoveChild(n, x) ==
  LET gone  == Subtree(x)
      lost  == gone \cup UNION {ToSet(attributes[m]) : m \in gone}
  IN  /\ Contains(children[n], x)
      /\ kind' = [m \in Nodes |-> IF m \in gone THEN Nil ELSE kind[m]]
      /\ children' = [m \in Nodes |-> IF m \in gone THEN <<>>
                                   ELSE IF m = n THEN Without(children[n], x)
                                   ELSE children[m]]
      /\ attributes' = [m \in Nodes |-> IF m \in gone THEN <<>> ELSE attributes[m]]
      /\ name' = [i \in Nodes \cup Attrs |-> IF i \in lost THEN Nil ELSE name[i]]
      /\ value' = [i \in Nodes \cup Attrs |-> IF i \in lost THEN Nil ELSE value[i]]

SetName(i, s) ==
  /\ IF i \in Nodes THEN HasName(kind[i]) ELSE IsAttribute(i)
  /\ name' = [name EXCEPT ![i] = s]
  /\ UNCHANGED <<kind, children, attributes, value>>

SetValue(i, s) ==
  /\ IF i \in Nodes THEN HasValue(kind[i]) ELSE IsAttribute(i)
  /\ value' = [value EXCEPT ![i] = s]
  /\ UNCHANGED <<kind, children, attributes, name>>

Reset == /\ kind' = Start.kind /\ children' = Start.children
         /\ attributes' = Start.attributes /\ name' = Start.name /\ value' = Start.value

Next ==
  \/ \E n, x \in Nodes :
       \/ RemoveChild(n, x)
       \/ \E k \in NewKinds : \/ AppendChild(n, k, x)
                              \/ PrependChild(n, k, x)
                              \/ \E y \in Nodes : \/ InsertChildBefore(n, k, x, y)
                                                  \/ InsertChildAfter(n, k, x, y)
  \/ \E n \in Nodes, a \in Attrs :
       \/ RemoveAttribute(n, a)
       \/ \E s \in Strings \cup {Nil} :
            \/ AppendAttribute(n, s, a)
            \/ PrependAttribute(n, s, a)
            \/ \E b \in Attrs : \/ InsertAttributeBefore(n, s, a, b)
                                \/ InsertAttributeAfter(n, s, a, b)
  \/ \E i \in Nodes \cup Attrs, s \in Strings \cup {Nil} : SetName(i, s) \/ SetValue(i, s)
  \/ Reset

Spec == Init /\ [][Next]_vars
==============================================================================
