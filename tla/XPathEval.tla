------------------------------ MODULE XPathEval ------------------------------
(***************************************************************************)
(* Evaluating an XPath expression (pugixml.cpp: xpath_string,              *)
(* xpath_node_set_raw, xpath_ast_node).                                    *)
(*                                                                         *)
(* An evaluation has a context c = [d, vars, x, position, size], the       *)
(* allocator r its result is put into, the other one being for what it     *)
(* needs meanwhile, and the memory m; it returns [v, m].  A string is      *)
(* [text, at], a node set [type, nodes, cap, at], at leading to the object *)
(* in memory or, NoObject, to text that was there before.                  *)
(***************************************************************************)
EXTENDS XPathParser, XPathMemory, XPathSort

Temp(r) == 3 - r
Returned(v, m) == [v |-> v, m |-> m]

(* sort, to its end. *)
RECURSIVE SortRest(_, _)
SortRest(c, less) == IF c.at = "done" THEN c.s ELSE SortRest(SortStep(c, less), less)
Sort(s, less) == SortRest(Started(s), less)

(* unique, to its end. *)
RECURSIVE UniqueRest(_)
UniqueRest(u) == IF u.at = "done" THEN Truncated(u) ELSE UniqueRest(UniqueStep(u))
Unique(s) == UniqueRest(Thinning(s))

(* xpath_allocator_capture: old is the memory when it was made. *)
Scoped(result, r, old) == [result EXCEPT !.m = Restored(@, r, old)]
ScopedUnless(free, result, r, old) == IF free THEN result ELSE Scoped(result, r, old)

------------------------------------------------------------------------------
(* xpath_string                                                            *)

ConstText(text) == [text |-> text, at |-> NoObject]
CopiedText(text, r, m) ==
  LET m1 == New(m, r, Len(text) + 1)
  IN  IF text = "" THEN Returned(ConstText(""), m)
      ELSE Returned([text |-> text, at |-> Newest(m1, r)], m1)

AppendText(s, text, r, m) ==
  LET m1 == Grow(m, r, s.at, Len(s.text) + 1, Len(s.text) + Len(text) + 1)
  IN  CASE text = "" -> Returned(s, m)
        [] text # "" /\ s = ConstText("") -> Returned(ConstText(text), m)
        [] OTHER -> Returned([text |-> s.text \o text, at |-> Newest(m1, r)], m1)

(* data: a copy of one's own, to be changed. *)
OwnText(s, r, m) ==
  LET m1 == New(m, r, Len(s.text) + 1)
  IN  IF s.at # NoObject THEN Returned(s, Used(m, s.at))
      ELSE Returned([s EXCEPT !.at = Newest(m1, r)], m1)

(* A part of s that may be s itself, if s is not in memory of its own. *)
PartOf(s, part, r, m) == IF s.at = NoObject THEN Returned(ConstText(part), m)
                         ELSE CopiedText(part, r, Used(m, s.at))

StringValue(d, x, r, m) ==
  LET item == ItemOf(x)
      texts == SelectSeq(Descendants(d, item), LAMBDA n : d.kind[n] \in {"pcdata", "cdata"})
  IN  CASE item = 0 -> Returned(ConstText(""), m)
        [] item # 0 /\ d.kind[item] \in {"document", "element"} ->
             FoldLeft(LAMBDA s, n : AppendText(s.v, d.value[n], r, s.m),
                      Returned(ConstText(""), m), texts)
        [] item # 0 /\ d.kind[item] \in {"attribute", "pcdata", "cdata", "comment", "pi"} ->
             Returned(ConstText(d.value[item]), m)
        [] OTHER -> Returned(ConstText(""), m)

------------------------------------------------------------------------------
(* xpath_node_set_raw                                                      *)

NodeSize == 2 * Word
NoNodes(type) == [type |-> type, nodes |-> <<>>, cap |-> 0, at |-> NoObject]

Enlarged(ns, cap, r, m) ==
  LET m1 == Grow(m, r, ns.at, ns.cap * NodeSize, cap * NodeSize)
  IN  Returned([ns EXCEPT !.cap = cap, !.at = Newest(m1, r)], m1)

PushBack(ns, x, r, m) ==
  LET e == IF Len(ns.nodes) = ns.cap THEN Enlarged(ns, ns.cap + ns.cap \div 2 + 1, r, m)
           ELSE Returned(ns, Used(m, ns.at))
  IN  [e EXCEPT !.v.nodes = Append(@, x)]

AppendNodes(ns, nodes, r, m) ==
  LET count == Len(ns.nodes) + Len(nodes)
      e == IF count > ns.cap THEN Enlarged(ns, count, r, m) ELSE Returned(ns, m)
  IN  [e EXCEPT !.v.nodes = @ \o nodes]

InOrder(d, nodes) == {p \in ToSet(nodes) \X ToSet(nodes) : IsBefore(d, p[1], p[2])}
ByAddress(nodes)  == {p \in ToSet(nodes) \X ToSet(nodes) : IsLower(p[1], p[2])}

(* xpath_sort *)
Sorted(d, ns, reverse) ==
  LET order  == IF reverse THEN "reverse" ELSE "sorted"
      nodes  == IF ns.type = "unsorted" THEN Sort(ns.nodes, InOrder(d, ns.nodes)) ELSE ns.nodes
      sorted == IF ns.type = "unsorted" THEN "sorted" ELSE ns.type
  IN  [ns EXCEPT !.type = order, !.nodes = IF sorted = order THEN nodes ELSE Reverse(nodes)]

(* xpath_first *)
FirstNode(d, ns) ==
  CASE ns.nodes = <<>> -> NoXNode
    [] ns.nodes # <<>> /\ ns.type = "sorted" -> Head(ns.nodes)
    [] ns.nodes # <<>> /\ ns.type = "reverse" -> Last(ns.nodes)
    [] OTHER -> MinElement(ns.nodes, InOrder(d, ns.nodes))

(* remove_duplicates: those in order are thought to have none apart. *)
RemoveDuplicates(ns) ==
  [ns EXCEPT !.nodes = Unique(IF ns.type = "unsorted" THEN Sort(@, ByAddress(@)) ELSE @)]

------------------------------------------------------------------------------
(* Steps.                                                                  *)

(* step_push: whether a node passes the test of a step.                    *)
Passes(d, e, x) ==
  LET item == ItemOf(x)
      kind == d.kind[item]
      name == d.name[item]
  IN  IF x.attr # 0
      THEN /\ ~Declares(name)
           /\ CASE e.test = "name" -> name = e.name
                [] e.test = "namespace" -> StartsWith(name, e.name)
                [] OTHER -> e.test \in {"node", "all"}
      ELSE /\ item # 0
           /\ CASE e.test = "name" -> kind = "element" /\ name = e.name
                [] e.test = "node" -> TRUE
                [] e.test = "text" -> kind \in {"pcdata", "cdata"}
                [] e.test = "comment" -> kind = "comment"
                [] e.test = "pi-any" -> kind = "pi"
                [] e.test = "pi" -> kind = "pi" /\ name = e.name
                [] e.test = "all" -> kind = "element"
                [] e.test = "namespace" -> kind = "element" /\ StartsWith(name, e.name)

(* step_fill: what an axis visits from a node or an attribute.             *)
Visited(d, axis, x) ==
  LET n == x.node
  IN  IF x.attr = 0
      THEN CASE axis = "attribute" -> d.attrs[n]
             [] axis = "child" -> d.kids[n]
             [] axis = "descendant" -> Descendants(d, n)
             [] axis = "descendant-or-self" -> <<n>> \o Descendants(d, n)
             [] axis = "following-sibling" -> Siblings(d, n, 1)
             [] axis = "preceding-sibling" -> Siblings(d, n, -1)
             [] axis = "following" -> Following(d, n)
             [] axis = "preceding" -> Preceding(d, n)
             [] axis = "ancestor" -> Ancestors(d, n)
             [] axis = "ancestor-or-self" -> <<n>> \o Ancestors(d, n)
             [] axis = "self" -> <<n>>
             [] axis = "parent" -> IF Parent(d, n) = 0 THEN <<>> ELSE <<Parent(d, n)>>
      ELSE CASE axis = "ancestor" -> <<n>> \o Ancestors(d, n)
             [] axis = "ancestor-or-self" -> <<x.attr, n>> \o Ancestors(d, n)
             [] axis \in {"descendant-or-self", "self"} -> <<x.attr>>
             [] axis = "following" -> From(d, After(d, n, 0), 0)
             [] axis = "parent" -> <<n>>
             [] axis = "preceding" -> Preceding(d, n)
             [] OTHER -> <<>>

(* An attribute is no node of the principal type of any of these axes. *)
StepNodes(d, e, x) ==
  LET items == SelectSeq(Visited(d, e.axis, x), LAMBDA i : Passes(d, e, XNode(d, i)))
      kept  == IF x.attr = 0 \/ e.test = "node" THEN items
               ELSE SelectSeq(items, LAMBDA i : i # x.attr)
  IN  [i \in DOMAIN kept |-> XNode(d, kept[i])]

ReverseAxes == {"ancestor", "ancestor-or-self", "preceding", "preceding-sibling"}
UniqueAxes  == {"child", "attribute", "self"}

(* The type of the set after one more node it is taken from.  (Fault: the  *)
(* nodes are thought to come in order.)                                    *)
TypeAfterAlways(axis, ns) == ns.type
TypeAfter(axis, ns) == IF axis # "self" /\ ns.nodes # <<>> THEN "unsorted" ELSE ns.type

------------------------------------------------------------------------------
(* The evaluation of an expression as one of four types.                   *)

(* eval_boolean, eval_number, eval_string, eval_node_set. *)
RECURSIVE Eval(_, _, _, _, _)

At(c, x, position, size) == [c EXCEPT !.x = x, !.position = position, !.size = size]

Not(result) == [result EXCEPT !.v = ~@]

EqualText(op, s, t) == (s = t) <=> op = "="
CompareNum(op, a, b) ==
  CASE op = "="  -> a = b /\ ~a.nan
    [] op = "!=" -> a # b \/ a.nan
    [] op = "<"  -> ~a.nan /\ ~b.nan /\ a.n < b.n
    [] op = "<=" -> ~a.nan /\ ~b.nan /\ a.n <= b.n

(* Whether some node of a set, its string value being made and given up    *)
(* again, satisfies P; those after the first one that does are not tried.  *)
SomeText(c, ns, r, m, P(_, _)) ==
  FoldLeft(LAMBDA res, x :
             LET s == StringValue(c.d, x, r, Used(res.m, ns.at))
             IN  IF res.v THEN res ELSE Scoped(P(s.v.text, s.m), r, res.m),
           Returned(FALSE, m), ns.nodes)

(* A number, a string or the nodes of a set compared with those of a set. *)
NumberAndNodes(op, n, ns, c, r, m) ==
  SomeText(c, ns, r, m, LAMBDA t, m1 : Returned(CompareNum(op, n, ToNumber(t)), m1))
NodesAndNumber(op, ns, n, c, r, m) ==
  SomeText(c, ns, r, m, LAMBDA t, m1 : Returned(CompareNum(op, ToNumber(t), n), m1))
TextAndNodes(op, s, ns, c, r, m) ==
  SomeText(c, ns, r, m, LAMBDA t, m1 : Returned(EqualText(op, s.text, t), Used(m1, s.at)))
NodesAndNodes(op, ls, rs, c, r, m) ==
  SomeText(c, ls, r, m, LAMBDA s, m1 :
    IF op \in {"=", "!="} THEN TextAndNodes(op, ConstText(s), rs, c, r, m1)
    ELSE NumberAndNodes(op, ToNumber(s), rs, c, r, m1))

(* compare_eq: a node set compares if one of its nodes does. *)
Compared(op, type, set, l, t, c, r) ==
  CASE type = "boolean" -> Returned(EqualText(op, l.v, t.v), t.m)
    [] type = "nodes" -> NodesAndNodes(op, l.v, t.v, c, r, t.m)
    [] type = "number" /\ set -> NumberAndNodes(op, l.v, t.v, c, r, t.m)
    [] type = "string" /\ set -> TextAndNodes(op, l.v, t.v, c, r, t.m)
    [] type = "number" /\ ~set -> Returned(CompareNum(op, l.v, t.v), t.m)
    [] type = "string" /\ ~set ->
         Returned(EqualText(op, l.v.text, t.v.text), Used(Used(t.m, l.v.at), t.v.at))

CompareEq(op, lhs, rhs, c, r, m) ==
  LET types == {lhs.ret, rhs.ret}
      type == CASE "boolean" \in types -> "boolean"
                [] types = {"nodes"} -> "nodes"
                [] "number" \in types -> "number"
                [] OTHER -> "string"
      set == type # "boolean" /\ "nodes" \in types
      swapped == type # "nodes" /\ lhs.ret = "nodes"
      l == Eval(type, IF swapped THEN rhs ELSE lhs, c, r, m)
      t == Eval(IF set THEN "nodes" ELSE type, IF swapped THEN lhs ELSE rhs, c, r, l.m)
      free == type = "boolean" \/ (type = "number" /\ ~set)    \* without a capture
  IN  ScopedUnless(free, Compared(op, type, set, l, t, c, r), r, m)

(* compare_rel *)
CompareRel(op, args, c, r, m) ==
  LET As(e) == IF e.ret = "nodes" THEN "nodes" ELSE "number"
      l == Eval(As(args[1]), args[1], c, r, m)
      t == Eval(As(args[2]), args[2], c, r, l.m)
  IN  CASE As(args[1]) = "number" /\ As(args[2]) = "number" -> Returned(CompareNum(op, l.v, t.v), t.m)
        [] As(args[1]) = "nodes"  /\ As(args[2]) = "nodes"  -> Scoped(NodesAndNodes(op, l.v, t.v, c, r, t.m), r, m)
        [] As(args[1]) = "number" /\ As(args[2]) = "nodes"  -> Scoped(NumberAndNodes(op, l.v, t.v, c, r, t.m), r, m)
        [] As(args[1]) = "nodes"  /\ As(args[2]) = "number" -> Scoped(NodesAndNumber(op, l.v, t.v, c, r, t.m), r, m)

(* apply_predicate, to the nodes after the first ones: a number is a       *)
(* position.                                                               *)
ApplyPredicate(ns, first, e, c, r, m) ==
  LET size == Len(ns.nodes) - first
      Kept(x, i, m1) ==
        LET at == At(c, x, i, size)
            n  == Eval("number", e, at, r, m1)
        IN  IF e.ret = "number" THEN Returned(n.v = Num(i), n.m) ELSE Eval("boolean", e, at, r, m1)
      tried[i \in 0 .. size] ==    \* the first i of them
        IF i = 0 THEN Returned(SubSeq(ns.nodes, 1, first), m)
        ELSE LET before == tried[i - 1]
                 k == Kept(ns.nodes[first + i], i, Used(before.m, ns.at))
             IN  Returned(IF k.v THEN Append(before.v, ns.nodes[first + i]) ELSE before.v, k.m)
      all == tried[size]
  IN  Returned([ns EXCEPT !.nodes = all.v], all.m)

(* apply_predicates, of a step *)
ApplyPredicates(q, first, preds, c, r) ==
  LET applied[p \in 0 .. Len(preds)] ==
        IF p = 0 THEN q
        ELSE LET before == applied[p - 1] IN ApplyPredicate(before.v, first, preds[p], c, r, before.m)
  IN  applied[Len(preds)]

(* What a step takes from x into the set q.v. *)
Taken(q, nodes, r) == FoldLeft(LAMBDA q1, y : PushBack(q1.v, y, r, q1.m), q, nodes)

Thinned(e, all) ==
  IF e.axis \notin UniqueAxes /\ all.v.type = "unsorted"
  THEN Returned(RemoveDuplicates(all.v), all.m) ELSE all

(* step_do *)
EvalStep(e, c, r, m) ==
  LET left == IF e.args = <<>> THEN Returned([NoNodes("sorted") EXCEPT !.nodes = <<c.x>>], m)
              ELSE Eval("nodes", e.args[1], c, r, m)
      type == CASE e.axis = "self" /\ e.args # <<>> -> left.v.type
                [] e.axis \in ReverseAxes -> "reverse"
                [] OTHER -> "sorted"
      from[i \in 0 .. Len(left.v.nodes)] ==    \* the first i of the nodes
        IF i = 0 THEN Returned(NoNodes(type), left.m)
        ELSE LET before == from[i - 1]
                 ns == [before.v EXCEPT !.type = TypeAfter(e.axis, before.v)]
                 new == StepNodes(c.d, e, left.v.nodes[i])
             IN  ApplyPredicates(Taken(Returned(ns, Used(before.m, left.v.at)), new, r),
                                 Len(ns.nodes), e.preds, c, r)
  IN  Thinned(e, from[Len(left.v.nodes)])

------------------------------------------------------------------------------
(* lang *)
Lower(s) == Translate(s, "ABCDEFGHIJKLMNOPQRSTUVWXYZ", "abcdefghijklmnopqrstuvwxyz")
RECURSIVE Lang(_, _, _)
Lang(d, n, lang) ==
  LET at == IF n = 0 THEN <<>> ELSE SelectSeq(d.attrs[n], LAMBDA a : d.name[a] = "xml:lang")
      value == d.value[Head(at)]
  IN  CASE n = 0 -> FALSE
        [] n # 0 /\ at = <<>> -> Lang(d, Parent(d, n), lang)
        [] OTHER -> /\ StartsWith(Lower(value), Lower(lang))
                    /\ Char(value, Len(lang) + 1) \in {"", "-"}

EvalBoolean(e, c, r, m) ==
  LET B(i, m1) == Eval("boolean", e.args[i], c, r, m1)
      first == B(1, m)
      s == Eval("string", e.args[1], c, r, m)
      t == Eval("string", e.args[2], c, r, s.m)
      Both(fact) == Scoped(Returned(fact, Used(Used(t.m, s.v.at), t.v.at)), r, m)
      number == Eval("number", e, c, r, m)
      text   == Eval("string", e, c, r, m)
      nodes  == Eval("nodes", e, c, r, m)
  IN  CASE e.type = "or"  -> IF first.v THEN first ELSE B(2, first.m)
        [] e.type = "and" -> IF first.v THEN B(2, first.m) ELSE first
        [] e.type \in {"=", "!="} -> CompareEq(e.type, e.args[1], e.args[2], c, r, m)
        [] e.type \in {"<", "<=", ">", ">="} ->
             CompareRel(IF e.type \in {"<", ">"} THEN "<" ELSE "<=",
                        IF e.type \in {"<", "<="} THEN e.args ELSE Reverse(e.args), c, r, m)
        [] e.type = "starts-with" -> Both(StartsWith(s.v.text, t.v.text))
        [] e.type = "contains"    -> Both(FindSubstring(s.v.text, t.v.text) # 0)
        [] e.type = "boolean" -> first
        [] e.type = "not"     -> Not(first)
        [] e.type \in {"true", "false"} -> Returned(e.type = "true", m)
        [] e.type = "lang" ->
             IF c.x.attr # 0 THEN Returned(FALSE, m)
             ELSE Scoped(Returned(Lang(c.d, c.x.node, s.v.text), s.m), r, m)
        [] e.type = "variable" /\ e.ret = "boolean" -> Returned(c.vars[e.name].value, m)
        [] OTHER ->
             CASE e.ret = "number" -> Returned(number.v \notin {NaN, Num(0)}, number.m)
               [] e.ret = "string" -> Scoped(Returned(text.v.text # "", text.m), r, m)
               [] e.ret = "nodes"  -> Scoped(Returned(nodes.v.nodes # <<>>, nodes.m), r, m)
               [] OTHER -> Returned(FALSE, Asserted(m, FALSE))

(* The arithmetic of whole numbers.  (Bound: a quotient is whole.)         *)
Arithmetic(op, a, b) ==
  LET Abs(n) == IF n < 0 THEN -n ELSE n
      quotient == IF (a.n < 0) = (b.n < 0) THEN Abs(a.n) \div Abs(b.n) ELSE -(Abs(a.n) \div Abs(b.n))
  IN  CASE a.nan \/ b.nan -> NaN
        [] op = "+" -> Num(a.n + b.n)
        [] op = "-" -> Num(a.n - b.n)
        [] op = "*" -> Num(a.n * b.n)
        [] op \in {"div", "mod"} /\ b.n = 0 -> NaN
        [] op = "div" -> Num(quotient)
        [] op = "mod" -> Num(a.n - b.n * quotient)

SumOf(ns, c, r, m) ==
  FoldLeft(LAMBDA res, x :
             LET s == StringValue(c.d, x, r, Used(res.m, ns.at))
             IN  Scoped(Returned(Arithmetic("+", res.v, ToNumber(s.v.text)), s.m), r, res.m),
           Returned(Num(0), m), ns.nodes)

EvalNumber(e, c, r, m) ==
  LET first  == Eval("number", e.args[1], c, r, m)
      second == Eval("number", e.args[2], c, r, first.m)
      nodes  == Eval("nodes", e.args[1], c, r, m)
      value  == StringValue(c.d, c.x, r, m)    \* of the context node
      string == Eval("string", e.args[1], c, r, m)
      text   == Eval("string", e, c, r, m)
      truth  == Eval("boolean", e, c, r, m)
      Number(s)   == Scoped(Returned(ToNumber(s.v.text), Used(s.m, s.v.at)), r, m)
      LengthOf(s) == Scoped(Returned(Num(Len(s.v.text)), Used(s.m, s.v.at)), r, m)
  IN  CASE e.type \in {"+", "-", "*", "div", "mod"} ->
             Returned(Arithmetic(e.type, first.v, second.v), second.m)
        [] e.type = "negate" -> Returned(Arithmetic("-", Num(0), first.v), first.m)
        [] e.type = "constant" /\ e.ret = "number" -> Returned(ToNumber(e.name), m)
        [] e.type = "last"     -> Returned(Num(c.size), m)
        [] e.type = "position" -> Returned(Num(c.position), m)
        [] e.type = "count"    -> Scoped(Returned(Num(Len(nodes.v.nodes)), nodes.m), r, m)
        [] e.type = "string-length" -> LengthOf(IF e.args = <<>> THEN value ELSE string)
        [] e.type = "number" -> IF e.args = <<>> THEN Number(value) ELSE first
        [] e.type = "sum" -> Scoped(SumOf(nodes.v, c, r, nodes.m), r, m)
        [] e.type \in {"floor", "ceiling", "round"} -> first
        [] e.type = "variable" /\ e.ret = "number" -> Returned(c.vars[e.name].value, m)
        [] OTHER -> CASE e.ret = "boolean" -> Returned(Num(IF truth.v THEN 1 ELSE 0), truth.m)
                      [] e.ret \in {"string", "nodes"} -> Number(text)
                      [] OTHER -> Returned(NaN, Asserted(m, FALSE))

(* eval_string_concat: the operands are made in the other allocator, in an *)
(* array of one's own if they are many.                                    *)
Concat(e, c, r, m) ==
  LET array == IF Len(e.args) > 4 THEN New(m, Temp(r), Len(e.args) * 2 * Word) ELSE m
      strings[i \in 0 .. Len(e.args)] ==    \* the first i of the operands
        IF i = 0 THEN Returned(<<>>, array)
        ELSE LET before == strings[i - 1]
                 s == Eval("string", e.args[i], c, Temp(r), before.m)
             IN  Returned(Append(before.v, s.v), s.m)
      all == strings[Len(e.args)]
      text == Joined([i \in DOMAIN all.v |-> all.v[i].text])
      used == FoldLeft(LAMBDA m1, s : Used(m1, s.at), all.m, all.v)
      made == New(used, r, Len(text) + 1)
  IN  Scoped(Returned([text |-> text, at |-> Newest(made, r)], made), Temp(r), m)

(* substring: from and last are rounded; texts end where the string does. *)
Substring(e, c, r, m) ==
  LET s == Eval("string", e.args[1], c, Temp(r), m)
      from  == Eval("number", e.args[2], c, r, s.m)
      count == Eval("number", e.args[3], c, r, from.m)
      three == Len(e.args) = 3
      last  == Arithmetic("+", from.v, count.v)
      size  == Len(s.v.text)
      pos == IF from.v.n < 1 THEN 1 ELSE from.v.n
      end == IF ~three \/ last.n >= size + 1 THEN size + 1 ELSE last.n
      m1 == IF three THEN count.m ELSE from.m
      part == SubSeq(s.v.text, pos, end - 1)
      none == \/ from.v.nan \/ from.v.n >= size + 1
              \/ three /\ (last.nan \/ from.v.n >= last.n \/ last.n < 1)
      m2 == Asserted(m1, 1 <= pos /\ pos <= end /\ end <= size + 1)
  IN  Scoped(CASE none -> Returned(ConstText(""), m1)
               [] ~none /\ end = size + 1 -> PartOf(s.v, part, r, m2)
               [] OTHER -> CopiedText(part, r, Used(m2, s.v.at)), Temp(r), m)

EvalString(e, c, r, m) ==
  LET S(i, r1, m1) == Eval("string", e.args[i], c, r1, m1)
      nodes == Eval("nodes", e.args[1], c, r, m)
      (* A name of the context node, or of the first one of a set. *)
      NameOf(Op(_, _)) ==
        IF e.args = <<>> THEN Returned(ConstText(Op(c.d, c.x)), m)
        ELSE Scoped(Returned(ConstText(Op(c.d, FirstNode(c.d, nodes.v))), Used(nodes.m, nodes.v.at)), r, m)
      s == IF e.args = <<>> THEN StringValue(c.d, c.x, r, m) ELSE S(1, r, m)
      left  == S(1, Temp(r), m)
      right == S(2, Temp(r), left.m)
      found == FindSubstring(left.v.text, right.v.text)
      read  == Used(Used(right.m, left.v.at), right.v.at)
      own   == OwnText(s.v, r, s.m)
      from  == S(2, Temp(r), s.m)
      to    == S(3, Temp(r), from.m)
      changed == OwnText(s.v, r, Used(Used(to.m, from.v.at), to.v.at))
      truth  == Eval("boolean", e, c, r, m)
      number == Eval("number", e, c, r, m)
      set    == Eval("nodes", e, c, Temp(r), m)
  IN  CASE e.type = "constant" /\ e.ret = "string" -> Returned(ConstText(e.name), m)
        [] e.type = "local-name"    -> NameOf(LocalName)
        [] e.type = "name"          -> NameOf(QualifiedName)
        [] e.type = "namespace-uri" -> NameOf(NamespaceUri)
        [] e.type = "string" -> s
        [] e.type = "concat" -> Concat(e, c, r, m)
        [] e.type = "substring-before" ->
             Scoped(IF found = 0 THEN Returned(ConstText(""), read)
                    ELSE CopiedText(Upto(left.v.text, found - 1), r, read), Temp(r), m)
        [] e.type = "substring-after" ->
             Scoped(IF found = 0 THEN Returned(ConstText(""), read)
                    ELSE PartOf(left.v, Beyond(left.v.text, found - 1 + Len(right.v.text)), r, read),
                    Temp(r), m)
        [] e.type = "substring" -> Substring(e, c, r, m)
        [] e.type = "normalize-space" -> Returned([own.v EXCEPT !.text = NormalizeSpace(@)], own.m)
        [] e.type = "translate" ->
             Scoped(Returned([changed.v EXCEPT !.text = Translate(@, from.v.text, to.v.text)], changed.m),
                    Temp(r), m)
        [] e.type = "variable" /\ e.ret = "string" -> Returned(ConstText(c.vars[e.name].value), m)
        [] OTHER ->
             CASE e.ret = "boolean" -> Returned(ConstText(IF truth.v THEN "true" ELSE "false"), truth.m)
               [] e.ret = "number"  -> CopiedText(NumberText(number.v), r, number.m)
               [] e.ret = "nodes"   ->
                    Scoped(IF set.v.nodes = <<>> THEN Returned(ConstText(""), set.m)
                           ELSE StringValue(c.d, FirstNode(c.d, set.v), r, Used(set.m, set.v.at)),
                           Temp(r), m)
               [] OTHER -> Returned(ConstText(""), Asserted(m, FALSE))

(* (Fault: what the left side leaves in the other allocator stays there.)  *)
UnionOfKept(e, c, r, m) ==
  LET ls == Eval("nodes", e.args[1], c, Temp(r), m)
      rs == Eval("nodes", e.args[2], c, r, ls.m)
      all == AppendNodes([rs.v EXCEPT !.type = "unsorted"], ls.v.nodes, r, Used(rs.m, ls.v.at))
  IN  Returned(RemoveDuplicates(all.v), all.m)
UnionOf(e, c, r, m) == Scoped(UnionOfKept(e, c, r, m), Temp(r), m)

EvalNodes(e, c, r, m) ==
  LET set == Eval("nodes", e.args[1], c, r, m)
      sorted == IF e.type = "filter" THEN Sorted(c.d, set.v, FALSE) ELSE set.v
      value == c.vars[e.name].value
  IN  CASE e.type = "union" -> UnionOf(e, c, r, m)
        [] e.type \in {"filter", "filter-posinv"} ->
             ApplyPredicate(sorted, 0, e.args[2], c, r, set.m)
        [] e.type = "id" \/ (e.type = "step" /\ e.axis = "namespace") -> Returned(NoNodes("unsorted"), m)
        [] e.type = "step" -> EvalStep(e, c, r, m)
        [] e.type = "root" -> PushBack(NoNodes("sorted"), XNode(c.d, Root(c.d, c.x.node)), r, m)
        [] e.type = "variable" /\ e.ret = "nodes" -> AppendNodes(NoNodes(value.type), value.nodes, r, m)
        [] OTHER -> Returned(NoNodes("unsorted"), Asserted(m, FALSE))

Eval(as, e, c, r, m) == CASE as = "boolean" -> EvalBoolean(e, c, r, m)
                          [] as = "number"  -> EvalNumber(e, c, r, m)
                          [] as = "string"  -> EvalString(e, c, r, m)
                          [] as = "nodes"   -> EvalNodes(e, c, r, m)
==============================================================================
