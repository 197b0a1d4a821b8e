----------------------------- MODULE XPathMeaning -----------------------------
(***************************************************************************)
(* What XPath says a query means, in sets: the specification the           *)
(* evaluation is compared with.  A node set is a set of items, in the      *)
(* order of the document when a position or a first node is asked for;     *)
(* nothing is cached, sorted or allocated.                                 *)
(*                                                                         *)
(* k = [d, vars, i, position, size] is a context, i its item.              *)
(***************************************************************************)
EXTENDS XPathEval

RECURSIVE Preorder(_, _)
Preorder(d, n) ==
  <<n>> \o d.attrs[n] \o FlattenSeq([j \in DOMAIN d.kids[n] |-> Preorder(d, d.kids[n][j])])

(* The items of a document in its order. *)
Order(d) == Preorder(d, 1)
Ordered(d, set) == SelectSeq(Order(d), LAMBDA i : i \in set)
Precedes(d, i, j) ==
  LET Rank(x) == CHOOSE p \in DOMAIN Order(d) : Order(d)[p] = x IN Rank(i) < Rank(j)

RECURSIVE Above(_, _)
Above(d, i) == IF d.parent[i] = 0 THEN {} ELSE {d.parent[i]} \cup Above(d, d.parent[i])

AxisItems(d, axis, i) ==
  LET below == {j \in NodesOf(d) : i \in Above(d, j)}
      siblings == {j \in NodesOf(d) : i \in NodesOf(d) /\ d.parent[j] = d.parent[i]}
  IN  CASE axis = "child"     -> {j \in NodesOf(d) : d.parent[j] = i}
        [] axis = "attribute" -> {j \in Items(d) \ NodesOf(d) : d.parent[j] = i}
        [] axis = "descendant" -> below
        [] axis = "descendant-or-self" -> below \cup {i}
        [] axis = "ancestor" -> Above(d, i)
        [] axis = "ancestor-or-self" -> Above(d, i) \cup {i}
        [] axis = "following" -> {j \in NodesOf(d) \ below : Precedes(d, i, j)}
        [] axis = "preceding" -> {j \in NodesOf(d) \ Above(d, i) : Precedes(d, j, i)}
        [] axis = "following-sibling" -> {j \in siblings : Precedes(d, i, j)}
        [] axis = "preceding-sibling" -> {j \in siblings : Precedes(d, j, i)}
        [] axis = "self"   -> {i}
        [] axis = "parent" -> {d.parent[i]} \ {0}
        [] OTHER -> {}

(* A name test is for nodes of the principal type of the axis.             *)
Satisfies(d, e, i) ==
  LET principal == IF e.axis = "attribute" THEN "attribute" ELSE "element"
  IN  CASE e.test = "node" -> TRUE
        [] e.test = "name" -> d.kind[i] = principal /\ d.name[i] = e.name
        [] e.test = "all"  -> d.kind[i] = principal
        [] e.test = "namespace" -> d.kind[i] = principal /\ StartsWith(d.name[i], e.name)
        [] e.test = "text" -> d.kind[i] \in {"pcdata", "cdata"}
        [] e.test = "comment" -> d.kind[i] = "comment"
        [] e.test = "pi-any"  -> d.kind[i] = "pi"
        [] e.test = "pi"      -> d.kind[i] = "pi" /\ d.name[i] = e.name

TextOf(d, i) ==
  IF d.kind[i] \notin {"document", "element"} THEN d.value[i]
  ELSE Joined(LET below == Ordered(d, {j \in NodesOf(d) : d.kind[j] \in {"pcdata", "cdata"}
                                                          /\ i \in Above(d, j)})
              IN  [p \in DOMAIN below |-> d.value[below[p]]])

(* The type of a value; two functions have another one in the parser.      *)
TypeOf(e) == CASE e.type = "contains" -> "boolean" [] e.type = "string-length" -> "number" [] OTHER -> e.ret

AsText(d, v, type) == CASE type = "nodes" -> IF v = {} THEN "" ELSE TextOf(d, Head(Ordered(d, v)))
                        [] type = "number" -> NumberText(v)
                        [] type = "boolean" -> IF v THEN "true" ELSE "false"
                        [] OTHER -> v
AsNumber(d, v, type) == CASE type = "number" -> v
                          [] type = "boolean" -> Num(IF v THEN 1 ELSE 0)
                          [] OTHER -> ToNumber(AsText(d, v, type))
AsTruth(v, type) == CASE type = "boolean" -> v
                      [] type = "number" -> v \notin {Num(0), NaN}
                      [] type = "string" -> v # ""
                      [] OTHER -> v # {}

RECURSIVE Means(_, _)

Where(items, kept) == [p \in DOMAIN kept |-> items[kept[p]]]
Chosen(items, keep) == Where(items, SelectSeq([p \in DOMAIN items |-> p], LAMBDA p : keep[p]))

(* The nodes of a sequence a predicate keeps. *)
Kept(e, k, items) ==
  LET Value(p) == Means(e, [k EXCEPT !.i = items[p], !.position = p, !.size = Len(items)])
  IN  Chosen(items, [p \in DOMAIN items |-> IF TypeOf(e) = "number" THEN Value(p) = Num(p)
                                            ELSE AsTruth(Value(p), TypeOf(e))])
KeptByAll(preds, k, items) ==
  LET kept[p \in 0 .. Len(preds)] == IF p = 0 THEN items ELSE Kept(preds[p], k, kept[p - 1])
  IN  kept[Len(preds)]

MeansNodes(e, k) ==
  LET d == k.d
      from == IF e.args = <<>> THEN {k.i} ELSE Means(e.args[1], k)
      Reached(i) == LET items == Ordered(d, {j \in AxisItems(d, e.axis, i) : Satisfies(d, e, j)})
                  IN  KeptByAll(e.preds, k, IF e.axis \in ReverseAxes THEN Reverse(items) ELSE items)
  IN  CASE e.type = "root" -> {1}
        [] e.type = "union" -> from \cup Means(e.args[2], k)
        [] e.type \in {"filter", "filter-posinv"} -> ToSet(Kept(e.args[2], k, Ordered(d, from)))
        [] e.type = "variable" -> {ItemOf(x) : x \in ToSet(k.vars[e.name].value.nodes)}
        [] e.type = "id" -> {}
        [] e.type = "step" -> UNION {ToSet(Reached(i)) : i \in from}

Means(e, k) ==
  LET d == k.d
      V(j) == Means(e.args[j], k)
      First(set) == Head(Ordered(d, set))
      Text(v, type) == AsText(d, v, type)
      Number(v, type) == AsNumber(d, v, type)
      T(j) == Text(V(j), TypeOf(e.args[j]))
      N(j) == Number(V(j), TypeOf(e.args[j]))
      B(j) == AsTruth(V(j), TypeOf(e.args[j]))
      (* What an operand is compared as: each node, or the value. *)
      Each(j, Op(_, _)) == IF TypeOf(e.args[j]) = "nodes" THEN {Op(TextOf(d, i), "string") : i \in V(j)}
                           ELSE {Op(V(j), TypeOf(e.args[j]))}
      rets == {TypeOf(e.args[1]), TypeOf(e.args[2])}
      Some(Op(_, _), P(_, _)) == \E s \in Each(1, Op), t \in Each(2, Op) : P(s, t)
      context == Text({k.i}, "nodes")
  IN  CASE e.ret = "nodes" -> MeansNodes(e, k)
        [] e.type = "constant" -> IF e.ret = "number" THEN ToNumber(e.name) ELSE e.name
        [] e.type = "variable" -> k.vars[e.name].value
        [] e.type = "or"  -> B(1) \/ B(2)
        [] e.type = "and" -> B(1) /\ B(2)
        [] e.type \in {"=", "!="} ->
             CASE "boolean" \in rets -> EqualText(e.type, B(1), B(2))
               [] "number" \in rets -> Some(Number, LAMBDA s, t : CompareNum(e.type, s, t))
               [] OTHER -> Some(Text, LAMBDA s, t : EqualText(e.type, s, t))
        [] e.type \in {"<", "<="} -> Some(Number, LAMBDA s, t : CompareNum(e.type, s, t))
        [] e.type = ">"  -> Some(Number, LAMBDA s, t : CompareNum("<", t, s))
        [] e.type = ">=" -> Some(Number, LAMBDA s, t : CompareNum("<=", t, s))
        [] e.type \in {"+", "-", "*", "div", "mod"} -> Arithmetic(e.type, N(1), N(2))
        [] e.type = "negate" -> Arithmetic("-", Num(0), N(1))
        [] e.type \in {"true", "false"} -> e.type = "true"
        [] e.type = "boolean" -> B(1)
        [] e.type = "not" -> ~B(1)
        [] e.type = "last" -> Num(k.size)
        [] e.type = "position" -> Num(k.position)
        [] e.type = "count" -> Num(Cardinality(V(1)))
        [] e.type = "sum" -> FoldLeft(LAMBDA n, i : Arithmetic("+", n, ToNumber(TextOf(d, i))), Num(0),
                                      Ordered(d, V(1)))
        [] e.type = "number" -> IF e.args = <<>> THEN ToNumber(context) ELSE N(1)
        [] e.type \in {"floor", "ceiling", "round"} -> N(1)
        [] e.type = "string" -> IF e.args = <<>> THEN context ELSE T(1)
        [] e.type \in {"name", "local-name", "namespace-uri"} ->
             LET set == IF e.args = <<>> THEN {k.i} ELSE V(1)
                 x == IF set = {} THEN NoXNode ELSE XNode(d, First(set))
             IN  CASE e.type = "name"       -> QualifiedName(d, x)
                   [] e.type = "local-name" -> LocalName(d, x)
                   [] OTHER                 -> NamespaceUri(d, x)
        [] e.type = "lang" -> ~IsAttr(d, k.i) /\ Lang(d, k.i, T(1))
        [] e.type = "concat" -> Joined([j \in DOMAIN e.args |-> T(j)])
        [] e.type = "starts-with" -> StartsWith(T(1), T(2))
        [] e.type = "contains" -> FindSubstring(T(1), T(2)) # 0
        [] e.type = "string-length" -> Num(Len(IF e.args = <<>> THEN context ELSE T(1)))
        [] e.type = "substring-before" ->
             LET at == FindSubstring(T(1), T(2)) IN IF at = 0 THEN "" ELSE Upto(T(1), at - 1)
        [] e.type = "substring-after" ->
             LET at == FindSubstring(T(1), T(2))
             IN  IF at = 0 THEN "" ELSE Beyond(T(1), at - 1 + Len(T(2)))
        [] e.type = "substring" ->
             (* The characters at the places that are not before the second *)
             (* argument and before it plus the third.                      *)
             LET In(p) == /\ ~N(2).nan /\ p >= N(2).n
                          /\ Len(e.args) = 3 => ~N(3).nan /\ p < N(2).n + N(3).n
             IN  Joined([p \in 1 .. Len(T(1)) |-> IF In(p) THEN Char(T(1), p) ELSE ""])
        [] e.type = "normalize-space" -> NormalizeSpace(IF e.args = <<>> THEN context ELSE T(1))
        [] e.type = "translate" -> Translate(T(1), T(2), T(3))
===============================================================================
