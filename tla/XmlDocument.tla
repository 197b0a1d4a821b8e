----------------------------- MODULE XmlDocument -----------------------------
(***************************************************************************)
(* A pugi::xml_document with copies of subtrees, and what is read off its  *)
(* links (pugixml.cpp: append_copy and its like, recursive_copy_skip,      *)
(* traverse, path, first_element_by_path).                                 *)
(***************************************************************************)
EXTENDS XmlTree, Integers

(* What a copy works on: the document and the identities still unused.     *)
Work(d) == [dom   |-> d,
            nodes |-> SetToSeq({n \in Nodes : d.kind[n] = Nil}),
            attrs |-> SetToSeq(Attrs \ d.owned)]

(* dest.append_attribute(a.name()).set_value(a.value()), for a and those   *)
(* after it.                                                               *)
RECURSIVE CopyAttributes(_, _, _)
CopyAttributes(w, dest, a) ==
  IF a = Nil \/ w.attrs = <<>> THEN w
  ELSE LET x == Head(w.attrs)
           d == NewAttribute(w.dom, dest, w.dom.name[a], x, Appended(Attributes(w.dom, dest), x))
       IN  CopyAttributes([w EXCEPT !.dom = [d EXCEPT !.value[x] = d.value[a]],
                                    !.attrs = Tail(@)],
                          dest, w.dom.next[a])

(* Fault: the copy is copied into itself. *)
SkipNothing(c, skip) == FALSE
Skips(c, skip) == c = skip

(* recursive_copy_skip: dest becomes a copy of source.  The children are   *)
(* followed by their links as they are by then: dest may be among them, or *)
(* further below source, and is not copied into itself.                    *)
RECURSIVE Copied(_, _, _, _), CopyChildren(_, _, _, _)
Copied(w, dest, source, skip) ==
  LET k == w.dom.kind[source]
      d == [w.dom EXCEPT !.name[dest]  = IF HasName(k) THEN w.dom.name[source] ELSE @,
                         !.value[dest] = IF HasValue(k) THEN w.dom.value[source] ELSE @]
      v == IF HasAttributes(k) THEN CopyAttributes([w EXCEPT !.dom = d], dest, d.attr[source])
           ELSE [w EXCEPT !.dom = d]
  IN  IF k = "element" THEN CopyChildren(v, dest, v.dom.first[source], skip) ELSE v
CopyChildren(w, dest, c, skip) ==
  IF c = Nil \/ w.nodes = <<>> THEN w
  ELSE IF Skips(c, skip) THEN CopyChildren(w, dest, w.dom.next[c], skip)
  ELSE LET x == Head(w.nodes)
           d == NewNode(w.dom, dest, w.dom.kind[c], x, Appended(Children(w.dom, dest), x))
           v == Copied([w EXCEPT !.dom = d, !.nodes = Tail(@)], x, c, skip)
       IN  CopyChildren(v, dest, v.dom.next[c], skip)

(* There are identities for a copy of p and what is below it, as a bound.  *)
RoomFor(p) ==
  LET copied == Doomed(dom, p)
  IN  /\ Cardinality(copied \cap Nodes) <= Cardinality({x \in Nodes : ~Exists(x)})
      /\ Cardinality(copied \cap Attrs) <= Cardinality(Attrs \ dom.owned)

(* The new node x is a child of n by list l, and becomes a copy of p. *)
CopyTo(n, p, x, l) ==
  dom' = LET d == NewNode(dom, n, dom.kind[p], x, l)
         IN  Copied(Work(d), x, p, x).dom

MayCopy(n, p, x) == /\ Exists(p)
                    /\ MayHold(n, dom.kind[p], x)
                    /\ RoomFor(p)

AppendCopy(n, p, x) == /\ MayCopy(n, p, x)
                       /\ CopyTo(n, p, x, Appended(Children(dom, n), x))

PrependCopy(n, p, x) == /\ MayCopy(n, p, x)
                        /\ CopyTo(n, p, x, Prepended(Children(dom, n), x))

InsertCopyBefore(n, p, x, y) == /\ Exists(y) /\ dom.parent[y] = n
                                /\ MayCopy(n, p, x)
                                /\ CopyTo(n, p, x, InsertedBefore(Children(dom, n), x, y))

InsertCopyAfter(n, p, x, y) == /\ Exists(y) /\ dom.parent[y] = n
                               /\ MayCopy(n, p, x)
                               /\ CopyTo(n, p, x, InsertedAfter(Children(dom, n), x, y))

CopyNodes == \E n, p, x \in Nodes :
               \/ AppendCopy(n, p, x)
               \/ PrependCopy(n, p, x)
               \/ \E y \in Nodes : InsertCopyBefore(n, p, x, y) \/ InsertCopyAfter(n, p, x, y)

DocumentNext == Next \/ CopyNodes

DocumentSpec == Init /\ [][DocumentNext]_dom

------------------------------------------------------------------------------
(* What is read off the links.                                             *)

(* traverse(): the nodes visited below n with their depths, and the depth  *)
(* at the end.                                                             *)
RECURSIVE Climb(_, _, _), Walk(_, _, _)
Climb(n, c, depth) ==
  IF dom.next[c] = Nil /\ c # n /\ dom.parent[c] # Nil
  THEN Climb(n, dom.parent[c], depth - 1)
  ELSE [at |-> IF c = n THEN n ELSE dom.next[c], depth |-> depth]
Walk(n, c, depth) ==
  IF c = Nil \/ c = n THEN [visits |-> <<>>, depth |-> depth]
  ELSE LET to == IF dom.first[c] # Nil THEN [at |-> dom.first[c], depth |-> depth + 1]
                 ELSE IF dom.next[c] # Nil THEN [at |-> dom.next[c], depth |-> depth]
                 ELSE Climb(n, c, depth)
           rest == Walk(n, to.at, to.depth)
       IN  [rest EXCEPT !.visits = <<<<c, depth>>>> \o @]
Traverse(n) == IF dom.first[n] = Nil THEN [visits |-> <<>>, depth |-> -1]
               ELSE Walk(n, dom.first[n], 0)

Parent(x) == dom.parent[x]

(* path(): the names from the document to x. *)
RECURSIVE Path(_)
Path(x) == IF Parent(x) = Nil THEN <<>> ELSE Path(Parent(x)) \o <<dom.name[x]>>

(* first_element_by_path, relative to x: the first child of that name from *)
(* which the rest of the path leads on.  (Fault: only the first child of   *)
(* that name is tried.)                                                    *)
RECURSIVE ByPath(_, _), Search(_, _)
ByPath(x, path) ==
  IF x = Nil \/ path = <<>> THEN x
  ELSE IF Head(path) = "." THEN ByPath(x, Tail(path))
  ELSE IF Head(path) = ".." THEN ByPath(Parent(x), Tail(path))
  ELSE Search(dom.first[x], path)
SearchOnce(c, path) ==
  IF c = Nil THEN Nil
  ELSE IF dom.name[c] = Head(path) THEN ByPath(c, Tail(path)) ELSE Search(dom.next[c], path)
Search(c, path) ==
  IF c = Nil THEN Nil
  ELSE LET found == IF dom.name[c] = Head(path) THEN ByPath(c, Tail(path)) ELSE Nil
       IN  IF found # Nil THEN found ELSE Search(dom.next[c], path)

------------------------------------------------------------------------------
(* A subtree as a value: what is in it, in its order. *)
RECURSIVE Shape(_, _)
Shape(d, x) == [kind       |-> d.kind[x], name |-> d.name[x], value |-> d.value[x],
                attributes |-> LET s == From(d, d.attr[x])
                               IN  [i \in DOMAIN s |-> <<d.name[s[i]], d.value[s[i]]>>],
                children   |-> LET s == Kids(d, x)
                               IN  [i \in DOMAIN s |-> Shape(d, s[i])]]

(* A copy has the shape its source had before, even when it is put into    *)
(* its source, and nothing that was there has changed but the children of  *)
(* the node it was put into.                                               *)
CopiesAreFaithful ==
  [][\A n \in Touched(dom'), p \in Nodes, x \in Changed(dom') :
       (\/ AppendCopy(n, p, x)
        \/ PrependCopy(n, p, x)
        \/ \E y \in Nodes : InsertCopyBefore(n, p, x, y) \/ InsertCopyAfter(n, p, x, y))
       => /\ Shape(dom', x) = Shape(dom, p)
          /\ Remove(Kids(dom', n), x) = Kids(dom, n)
          /\ \A m \in Nodes \ {n} : Exists(m) => Kids(dom', m) = Kids(dom, m)]_dom

(* The nodes below n in document order, with their depths. *)
RECURSIVE PreOrder(_, _)
PreOrder(n, depth) ==
  LET s == Kids(dom, n)
  IN  FlattenSeq([i \in DOMAIN s |-> <<<<s[i], depth>>>> \o PreOrder(s[i], depth + 1)])

(* A traversal from any node visits what is below it, once each, in        *)
(* document order and with the right depths, and comes back to where it    *)
(* started (the assert at its end).                                        *)
TraversalIsPreorder ==
  \A n \in Nodes : Exists(n) =>
    Traverse(n) = [visits |-> PreOrder(n, 0), depth |-> -1]

(* All nodes a path leads to. *)
RECURSIVE Targets(_, _)
Targets(S, path) ==
  IF path = <<>> THEN S
  ELSE Targets(CASE Head(path) = "."  -> S
                 [] Head(path) = ".." -> {Parent(x) : x \in S} \ {Nil}
                 [] OTHER -> {c \in Nodes : dom.parent[c] \in S /\ dom.name[c] = Head(path)},
               Tail(path))

Paths == UNION {[1 .. len -> Strings \cup {".", ".."}] : len \in 1 .. 3}

(* A path finds a node if it leads to any, whichever children it has to    *)
(* try, and the path() of a node whose ancestors have names finds a node   *)
(* of the same path.                                                       *)
PathSearchIsComplete ==
  \A x \in Nodes : Exists(x) =>
    /\ \A path \in Paths :
         LET targets == Targets({x}, path)
         IN  IF targets = {} THEN ByPath(x, path) = Nil ELSE ByPath(x, path) \in targets
    /\ Nil \notin ToSet(Path(x)) =>
         LET y == ByPath(Document, Path(x)) IN y # Nil /\ Path(y) = Path(x)

(* A traversal of a document and the search for a path see all they        *)
(* should, and nothing twice.                                              *)
WalksAreComplete == TraversalIsPreorder /\ PathSearchIsComplete
==============================================================================
