------------------------------ MODULE XPathNodes ------------------------------
(***************************************************************************)
(* What XPath knows of a document: its nodes, their order, their names and *)
(* string values (pugixml.cpp: node_height .. translate, step_fill).       *)
(*                                                                         *)
(* d = [kind, parent, kids, attrs, name, value, nameAt, valueAt], by item, *)
(* 1 being the document: the children and attributes as sequences, names   *)
(* and values, "" for none, and their places in the buffer that was        *)
(* parsed, 0 for those in memory of their own.  The number of an item      *)
(* stands for its address; 0 is no node.                                   *)
(***************************************************************************)
EXTENDS Integers, Sequences, SequencesExt, TLC

Items(d) == DOMAIN d.kind
IsAttr(d, i) == d.kind[i] = "attribute"
NodesOf(d) == {i \in Items(d) : ~IsAttr(d, i)}

Parent(d, n) == IF n = 0 THEN 0 ELSE d.parent[n]
FirstChild(d, n) == IF n = 0 \/ d.kids[n] = <<>> THEN 0 ELSE Head(d.kids[n])
LastChild(d, n)  == IF n = 0 \/ d.kids[n] = <<>> THEN 0 ELSE Last(d.kids[n])
Sibling(d, n, step) ==
  IF Parent(d, n) = 0 THEN 0
  ELSE LET kids == d.kids[d.parent[n]]
           i == (CHOOSE j \in DOMAIN kids : kids[j] = n) + step
       IN  IF i \in DOMAIN kids THEN kids[i] ELSE 0
NextSibling(d, n) == Sibling(d, n, 1)
PreviousSibling(d, n) == Sibling(d, n, -1)

RECURSIVE Root(_, _)
Root(d, n) == IF Parent(d, n) = 0 THEN n ELSE Root(d, Parent(d, n))

(* xpath_node: a node, or an attribute with the node it is of. *)
NoXNode == [node |-> 0, attr |-> 0]
XNode(d, i) == IF IsAttr(d, i) THEN [node |-> d.parent[i], attr |-> i] ELSE [node |-> i, attr |-> 0]
ItemOf(x) == IF x.attr # 0 THEN x.attr ELSE x.node

------------------------------------------------------------------------------
(* Walks.                                                                  *)

(* The way out of n, up to top: the next sibling of it or of its parents.  *)
RECURSIVE Exit(_, _, _)
Exit(d, n, top) == IF n = top THEN 0
                   ELSE IF NextSibling(d, n) # 0 THEN NextSibling(d, n) ELSE Exit(d, Parent(d, n), top)

After(d, n, top) == IF FirstChild(d, n) # 0 THEN FirstChild(d, n) ELSE Exit(d, n, top)

RECURSIVE From(_, _, _)
From(d, n, top) == IF n = 0 THEN <<>> ELSE <<n>> \o From(d, After(d, n, top), top)

Descendants(d, n) == From(d, FirstChild(d, n), n)
(* (Fault: the walk begins below n.) *)
FollowingBelow(d, n) == From(d, After(d, n, 0), 0)
Following(d, n) == From(d, Exit(d, n, 0), 0)

RECURSIVE Siblings(_, _, _)
Siblings(d, n, step) ==
  LET s == Sibling(d, n, step) IN IF s = 0 THEN <<>> ELSE <<s>> \o Siblings(d, s, step)

RECURSIVE Ancestors(_, _)
Ancestors(d, n) ==
  IF Parent(d, n) = 0 THEN <<>> ELSE <<Parent(d, n)>> \o Ancestors(d, Parent(d, n))

NodeIsAncestor(d, parent, n) == n # 0 /\ parent \in {n} \cup ToSet(Ancestors(d, n))

(* Backwards from n's way out: leaves first, then the parents that are not *)
(* ancestors of n.                                                         *)
RECURSIVE BackFrom(_, _, _), BackOut(_, _, _)
BackFrom(d, cur, n) ==
  IF LastChild(d, cur) # 0 THEN BackFrom(d, LastChild(d, cur), n) ELSE <<cur>> \o BackOut(d, cur, n)
BackOut(d, cur, n) ==
  LET p == Parent(d, cur)
  IN  CASE PreviousSibling(d, cur) # 0 -> BackFrom(d, PreviousSibling(d, cur), n)
        [] p = 0 -> <<>>
        [] NodeIsAncestor(d, p, n) -> BackOut(d, p, n)
        [] OTHER -> <<p>> \o BackOut(d, p, n)
Preceding(d, n) == BackOut(d, n, n)

------------------------------------------------------------------------------
(* Document order.                                                         *)

NodeHeight(d, n) == Len(Ancestors(d, n)) + 1

RECURSIVE Up(_, _, _), Common(_, _, _)
Up(d, n, k) == IF k <= 0 THEN n ELSE Up(d, Parent(d, n), k - 1)
Common(d, ln, rn) ==
  IF Parent(d, ln) = Parent(d, rn) THEN <<ln, rn>> ELSE Common(d, Parent(d, ln), Parent(d, rn))

NodeIsBefore(d, l, r) ==
  LET lh == NodeHeight(d, l)
      rh == NodeHeight(d, r)
      ln == Up(d, l, lh - rh)
      rn == Up(d, r, rh - lh)
      c  == Common(d, ln, rn)
  IN  IF ln = rn THEN lh < rh ELSE c[2] \in {c[1]} \cup ToSet(Siblings(d, c[1], 1))

(* document_order: a place in the buffer, 0 if there is none.              *)
(* (Fault: the address of a name counts wherever the name is; memory is    *)
(* above the buffer.)                                                      *)
PlaceAnywhere(d, i) == CASE d.nameAt[i] # 0 -> d.nameAt[i]
                         [] d.name[i] # "" -> 1000 + i
                         [] OTHER -> d.valueAt[i]
Place(d, i) == CASE d.nameAt[i] # 0 -> d.nameAt[i]
                 [] IsAttr(d, i) /\ d.name[i] = "" -> 0
                 [] OTHER -> d.valueAt[i]

(* document_order_comparator *)
IsBefore(d, x, y) ==
  LET lo == Place(d, ItemOf(x))
      ro == Place(d, ItemOf(y))
      attrs == d.attrs[x.node]
      Ranked(a) == CHOOSE i \in DOMAIN attrs : attrs[i] = a
  IN  CASE lo # 0 /\ ro # 0 -> lo < ro
        [] x.attr # 0 /\ y.attr # 0 /\ x.node = y.node -> Ranked(x.attr) <= Ranked(y.attr)
        [] x.attr # 0 /\ y.attr = 0 /\ x.node = y.node -> FALSE
        [] x.attr = 0 /\ y.attr # 0 /\ x.node = y.node -> TRUE
        [] OTHER -> x.node # y.node /\ NodeIsBefore(d, x.node, y.node)

(* duplicate_comparator: attributes first, by address. *)
IsLower(x, y) == IF x.attr # 0 THEN y.attr # 0 => x.attr < y.attr
                 ELSE y.attr = 0 /\ x.node < y.node

------------------------------------------------------------------------------
(* Names and texts.                                                        *)

Char(s, i) == IF i \in 1 .. Len(s) THEN SubSeq(s, i, i) ELSE ""    \* "" is the NUL
Upto(s, i) == SubSeq(s, 1, i)
Beyond(s, i) == SubSeq(s, i + 1, Len(s))    \* what comes after the first i characters
Places(s, c) == {i \in 1 .. Len(s) : Char(s, i) = c}
FindChar(s, c) == IF Places(s, c) = {} THEN 0 ELSE CHOOSE i \in Places(s, c) : \A j \in Places(s, c) : i <= j
StartsWith(s, pattern) == Len(pattern) <= Len(s) /\ Upto(s, Len(pattern)) = pattern
(* The place of the first of the occurrences of p in s, 0 for none. *)
FindSubstring(s, p) ==
  LET at == {i \in 1 .. Len(s) - Len(p) + 1 : SubSeq(s, i, i + Len(p) - 1) = p}
  IN  IF at = {} THEN 0 ELSE CHOOSE i \in at : \A j \in at : i <= j

Blank == {" ", "\t", "\n", "\r"}
Digit == {"0", "1", "2", "3", "4", "5", "6", "7", "8", "9"}
Characters(s) == [i \in 1 .. Len(s) |-> Char(s, i)]
Joined(chars) == FoldLeft(LAMBDA s, c : s \o c, "", chars)

QualifiedName(d, x) == IF ItemOf(x) = 0 THEN "" ELSE d.name[ItemOf(x)]
LocalName(d, x) == LET name == QualifiedName(d, x) IN Beyond(name, FindChar(name, ":"))

Declares(name) == name = "xmlns" \/ StartsWith(name, "xmlns:")

(* namespace_uri: the declaration of the prefix that is nearest.  One      *)
(* without a prefix is of no effect on an attribute.                       *)
RECURSIVE Declared(_, _, _)
Declared(d, n, declaration) ==
  LET here == SelectSeq(d.attrs[n], LAMBDA a : d.name[a] = declaration)
  IN  CASE n = 0 -> "" [] OTHER ->
        IF here # <<>> THEN d.value[Head(here)]
        ELSE IF d.parent[n] = 0 THEN "" ELSE Declared(d, d.parent[n], declaration)
NamespaceUri(d, x) ==
  LET name  == QualifiedName(d, x)
      colon == FindChar(name, ":")
  IN  CASE colon # 0 -> Declared(d, x.node, "xmlns:" \o Upto(name, colon - 1))
        [] x.attr # 0 \/ x.node = 0 -> ""
        [] OTHER -> Declared(d, x.node, "xmlns")

(* normalize_space *)
NormalizeSpace(s) ==
  LET t == Joined(FoldLeft(LAMBDA out, c : IF c \notin Blank THEN Append(out, c)
                                           ELSE IF out = <<>> \/ Last(out) = " " THEN out
                                           ELSE Append(out, " "), <<>>, Characters(s)))
  IN  IF t # "" /\ Char(t, Len(t)) = " " THEN Upto(t, Len(t) - 1) ELSE t

(* translate *)
Translate(s, from, to) ==
  LET New(c) == LET i == FindChar(from, c)
                IN  IF i = 0 THEN c ELSE IF i <= Len(to) THEN Char(to, i) ELSE ""
  IN  Joined([i \in 1 .. Len(s) |-> New(Char(s, i))])

------------------------------------------------------------------------------
(* Numbers: the whole ones, and NaN.                                       *)

NaN == [nan |-> TRUE, n |-> 0]
Num(n) == [nan |-> FALSE, n |-> n]

(* convert_number_to_string, convert_string_to_number: blanks around, a    *)
(* minus before and a fraction are allowed.  (Bound: the fraction is 0.)   *)
NumberText(x) == IF x.nan THEN "NaN" ELSE ToString(x.n)

Trimmed(s) ==
  LET dark == {i \in 1 .. Len(s) : Char(s, i) \notin Blank}
  IN  IF dark = {} THEN ""
      ELSE SubSeq(s, CHOOSE i \in dark : \A j \in dark : i <= j,
                     CHOOSE i \in dark : \A j \in dark : j <= i)
AllDigits(s) == \A i \in 1 .. Len(s) : Char(s, i) \in Digit
DigitsValue(s) ==
  FoldLeft(LAMBDA n, c : 10 * n + (CHOOSE k \in 0 .. 9 : ToString(k) = c), 0, Characters(s))

ToNumber(s) ==
  LET t     == Trimmed(s)
      minus == StartsWith(t, "-")
      body  == IF minus THEN Beyond(t, 1) ELSE t
      dot   == FindChar(body, ".")
      whole == IF dot = 0 THEN body ELSE Upto(body, dot - 1)
      rest  == IF dot = 0 THEN "" ELSE Beyond(body, dot)
  IN  IF AllDigits(whole) /\ AllDigits(rest) /\ whole \o rest # ""
      THEN Num(IF minus THEN -DigitsValue(whole) ELSE DigitsValue(whole))
      ELSE NaN
==============================================================================
