----------------------------- MODULE XPathParser -----------------------------
(***************************************************************************)
(* From the text of an XPath query to its expression (pugixml.cpp:         *)
(* xpath_lexer, xpath_parser).                                             *)
(*                                                                         *)
(* q = [text, at, pos, lex, contents, vars, error, offset]: the text, how  *)
(* far it is read, where the current lexeme begins, the lexeme with its    *)
(* contents, the types of the variables, and the first error with its      *)
(* place.  After an error every lexeme is "threw", which nothing accepts.  *)
(***************************************************************************)
EXTENDS XPathNodes

Symbols2 == {">=", "<=", "!=", "//", "..", "::"}
Symbols1 == {">", "<", "=", "+", "-", "*", "|", "(", ")", "[", "]", ",", "/", "@", "."}

StartSymbolX == ToSet(Characters("abcdefghijklmnopqrstuvwxyzABCDEFGHIJKLMNOPQRSTUVWXYZ_"))
SymbolX == StartSymbolX \cup Digit \cup {"-", "."}

(* The first place from i on that is not one of a set of characters. *)
RECURSIVE Skip(_, _, _)
Skip(text, i, S) == IF i <= Len(text) /\ Char(text, i) \in S THEN Skip(text, i + 1, S) ELSE i

(* A name at i ends after its symbols, or after those behind a colon. *)
NameEnd(text, i, star) ==
  LET e == Skip(text, i, SymbolX)
  IN  CASE Char(text, e) = ":" /\ star /\ Char(text, e + 1) = "*" -> e + 2
        [] Char(text, e) = ":" /\ Char(text, e + 1) \in SymbolX -> Skip(text, e + 1, SymbolX)
        [] OTHER -> e

NumberEnd(text, i) ==
  LET e == Skip(text, i, Digit) IN IF Char(text, e) = "." THEN Skip(text, e + 1, Digit) ELSE e

(* xpath_lexer::next *)
Lexeme(q) ==
  LET text == q.text
      i == Skip(text, q.at, Blank)
      c == Char(text, i)
      Is(lex, from, to, at) == [q EXCEPT !.pos = i, !.lex = lex, !.at = at,
                                         !.contents = SubSeq(text, from, to - 1)]
      Of(lex, from, end) == Is(lex, from, end, end)
      quote == Skip(text, i + 1, ToSet(Characters(text)) \ {c})
  IN  CASE c = "" -> Of("eof", i, i)
        [] c \o Char(text, i + 1) \in Symbols2 -> Of(c \o Char(text, i + 1), i, i + 2)
        [] c = "$" /\ Char(text, i + 1) \in StartSymbolX ->
             Of("variable", i + 1, NameEnd(text, i + 1, FALSE))
        [] c \in Digit \/ (c = "." /\ Char(text, i + 1) \in Digit) ->
             Of("number", i, NumberEnd(text, i))
        [] c \in {"\"", "'"} /\ quote <= Len(text) -> Is("quoted", i + 1, quote, quote + 1)
        [] c \in Symbols1 -> Of(c, i, i + 1)
        [] c \in StartSymbolX -> Of("name", i, NameEnd(text, i, TRUE))
        [] OTHER -> Of("none", i, i)

NextLex(q) == IF q.error # "" THEN q ELSE Lexeme(q)

(* Every rule of the grammar, of the parser and what was parsed before. *)
RECURSIVE Parse(_, _, _)
Read(q) == Parse("next", q, 0)

(* throw_error: nothing is done after the first. *)
Throw(q, message) ==
  IF q.error # "" THEN q ELSE [q EXCEPT !.error = message, !.offset = q.pos - 1, !.lex = "threw"]
Check(q, holds, message) == IF holds THEN q ELSE Throw(q, message)
Expect(q, lex, message) == Read(Check(q, q.lex = lex, message))

------------------------------------------------------------------------------
(* Expressions: their type, the type of what they return, their operands   *)
(* or arguments, and for a step its axis, its test and its predicates.     *)
(* name is the text of a constant, the name of a variable or a node test.  *)
Expr(type, ret, args) == [type |-> type, ret |-> ret, args |-> args, axis |-> "", test |-> "",
                          name |-> "", preds |-> <<>>]
Named(e, name) == [e EXCEPT !.name = name]
StepExpr(set, axis, test, name) ==
  [Expr("step", "nodes", set) EXCEPT !.axis = axis, !.test = test, !.name = name]
AnyBelow(n) == StepExpr(<<n>>, "descendant-or-self", "node", "")

(* The functions: how many arguments, what is returned, and whether the    *)
(* first argument has to be a node set (parse_function).                   *)
Many == 9
Function(least, most, ret, set) == [least |-> least, most |-> most, ret |-> ret, set |-> set]
Functions ==
  [f \in {"local-name", "name", "namespace-uri"} |-> Function(0, 1, "string", TRUE)]
  @@ [f \in {"count", "sum"} |-> Function(1, 1, "number", TRUE)]
  @@ [f \in {"string", "string-length", "normalize-space"} |-> Function(0, 1, "string", FALSE)]
  @@ [f \in {"contains", "substring-before", "substring-after"} |-> Function(2, 2, "string", FALSE)]
  @@ [f \in {"true", "false"} |-> Function(0, 0, "boolean", FALSE)]
  @@ [f \in {"boolean", "not", "lang"} |-> Function(1, 1, "boolean", FALSE)]
  @@ [f \in {"ceiling", "floor", "round"} |-> Function(1, 1, "number", FALSE)]
  @@ [f \in {"last", "position"} |-> Function(0, 0, "number", FALSE)]
  @@ "starts-with" :> Function(2, 2, "boolean", FALSE)
  @@ "concat"      :> Function(2, Many, "string", FALSE)
  @@ "substring"   :> Function(2, 3, "string", FALSE)
  @@ "translate"   :> Function(3, 3, "string", FALSE)
  @@ "number"      :> Function(0, 1, "number", FALSE)
  @@ "id"          :> Function(1, 1, "nodes", FALSE)

ParseFunction(q, name, args) ==
  LET f == Functions[name]
      known == name \in DOMAIN Functions /\ Len(args) \in f.least .. f.most
      sets  == known /\ f.set /\ args # <<>> => args[1].ret = "nodes"
  IN  [q |-> Check(Check(q, known, "Unrecognized function or wrong parameter count"),
                   sets, "Function has to be applied to node set"),
       e |-> IF known THEN Expr(name, f.ret, args) ELSE Expr("none", "nodes", <<>>)]

Axes == {"ancestor", "ancestor-or-self", "attribute", "child", "descendant", "descendant-or-self",
         "following", "following-sibling", "namespace", "parent", "preceding", "preceding-sibling",
         "self"}

NodeTypes == "comment" :> "comment" @@ "node" :> "node" @@ "processing-instruction" :> "pi-any"
             @@ "text" :> "text"

(* is_posinv: nothing in the expression depends on the position of a node  *)
(* (predicates and steps have positions of their own).                     *)
RECURSIVE IsPosinv(_)
IsPosinv(e) == CASE e.type = "position" -> FALSE
                 [] e.type \in {"step", "root", "filter", "filter-posinv"} -> TRUE
                 [] OTHER -> \A i \in DOMAIN e.args : IsPosinv(e.args[i])

------------------------------------------------------------------------------
(* The grammar: each operator takes the parser and gives it back with the  *)
(* expression it has parsed.                                               *)

Result(q, e) == [q |-> q, e |-> e]

(* The binary operators, from those that bind least. *)
Levels == << {"or"}, {"and"}, {"=", "!="}, {"<", "<=", ">", ">="}, {"+", "-"}, {"*", "div", "mod"} >>
OperatorOf(q) == IF q.lex = "name" THEN q.contents ELSE q.lex

Expression(q) == Parse("level", q, 1)

(* parse_or_expression .. parse_multiplicative_expression.                 *)
(* (Fault: what is on the right takes all that follows.)                   *)
Level(q, k) == IF k > Len(Levels) THEN Parse("unary", q, 0)
               ELSE LET r == Parse("level", q, k + 1) IN Parse("more", r.q, [k |-> k, e |-> r.e])

RightOfGreedy(q, k) == Parse("level", q, k)
RightOf(q, k) == Parse("level", q, k + 1)
MoreOfLevel(q, x) ==
  LET op == OperatorOf(q)
      ret == IF x.k <= 4 THEN "boolean" ELSE "number"
      right == RightOf(Read(q), x.k)
  IN  IF op \notin Levels[x.k] THEN Result(q, x.e)
      ELSE Parse("more", right.q, [x EXCEPT !.e = Expr(op, ret, <<@, right.e>>)])

Unary(q) ==
  IF q.lex # "-" THEN Parse("union", q, 0)
  ELSE LET r == Parse("unary", Read(q), 0) IN Result(r.q, Expr("negate", "number", <<r.e>>))

Union(q) == LET r == Parse("path", q, 0) IN Parse("more of union", r.q, r.e)
MoreOfUnion(q, e) ==
  LET right == Parse("union", Read(q), 0)
      sets  == Check(right.q, e.ret = "nodes" /\ right.e.ret = "nodes",
                     "Union operator has to be applied to node sets")
  IN  IF q.lex # "|" THEN Result(q, e)
      ELSE Parse("more of union", sets, Expr("union", "nodes", <<e, right.e>>))

(* parse_location_path *)
LocationPath(q) ==
  LET n == Read(q)
      root == Expr("root", "nodes", <<>>)
  IN  CASE q.lex = "/" -> IF n.lex \in {"name", "@", ".", "..", "*"}
                          THEN Parse("relative", n, <<root>>) ELSE Result(n, root)
        [] q.lex = "//" -> Parse("relative", n, <<AnyBelow(root)>>)
        [] OTHER -> Parse("relative", q, <<>>)

(* parse_path_expression: a name begins a filter expression if it is that  *)
(* of a function called.                                                   *)
Path(q) ==
  LET called == Char(q.text, Skip(q.text, q.at, Blank)) = "(" /\ q.contents \notin DOMAIN NodeTypes
      r == Parse("filter", q, 0)
      sets == Check(Read(r.q), r.e.ret = "nodes", "Step has to be applied to node set")
  IN  IF ~(q.lex \in {"variable", "(", "quoted", "number"} \/ (q.lex = "name" /\ called))
      THEN LocationPath(q)
      ELSE CASE r.q.lex = "/"  -> Parse("relative", Read(r.q), <<r.e>>)
             [] r.q.lex = "//" -> Parse("relative", sets, <<AnyBelow(r.e)>>)
             [] OTHER -> r

(* parse_filter_expression *)
Filter(q) == LET r == Parse("primary", q, 0) IN Parse("predicates", r.q, r.e)
Predicates(q, e) ==
  LET p == Expression(Read(q))
      sets == Check(p.q, e.ret = "nodes", "Predicate has to be applied to node set")
      type == IF p.e.ret # "number" /\ IsPosinv(p.e) THEN "filter-posinv" ELSE "filter"
  IN  IF q.lex # "[" THEN Result(q, e)
      ELSE Parse("predicates", Expect(sets, "]", "Unmatched square brace"),
                 Expr(type, "nodes", <<e, p.e>>))

(* parse_primary_expression *)
Primary(q) ==
  LET inner == Expression(Read(q))
      known == q.contents \in DOMAIN q.vars
      none  == Expr("none", "nodes", <<>>)
      Constant(ret) == Result(Read(q), Named(Expr("constant", ret, <<>>), q.contents))
      args == Parse("arguments", Expect(Read(q), "(", "Unrecognized function call"), <<>>)
  IN  CASE q.lex = "variable" ->
             Result(Read(Check(q, known, "Unknown variable")),
                    IF known THEN Named(Expr("variable", q.vars[q.contents], <<>>), q.contents)
                    ELSE none)
        [] q.lex = "(" -> Result(Expect(inner.q, ")", "Unmatched braces"), inner.e)
        [] q.lex = "quoted" -> Constant("string")
        [] q.lex = "number" -> Constant("number")
        [] q.lex = "name" -> IF args.q.error # "" THEN Result(args.q, none)
                             ELSE ParseFunction(Read(args.q), q.contents, args.e)
        [] OTHER -> Result(Throw(q, "Unrecognizable primary expression"), none)

(* The arguments of a function after args, to the brace. *)
Arguments(q, args) ==
  LET comma == Expect(q, ",", "No comma between function arguments")
      n == Expression(IF args = <<>> THEN q ELSE comma)
  IN  IF q.lex \in {")", "threw"} THEN Result(q, args) ELSE Parse("arguments", n.q, Append(args, n.e))

(* parse_relative_location_path *)
Relative(q, set) == LET r == Parse("step", q, set) IN Parse("more of path", r.q, r.e)
MoreOfPath(q, e) == CASE q.lex = "/"  -> Parse("relative", Read(q), <<e>>)
                      [] q.lex = "//" -> Parse("relative", Read(q), <<AnyBelow(e)>>)
                      [] OTHER -> Result(q, e)

------------------------------------------------------------------------------
(* Steps.                                                                  *)

(* A node test, its name already read: [q, test, name]. *)
Test(q, test, name) == [q |-> q, test |-> test, name |-> name]
NodeTest(q, name) ==
  LET n == Read(q)
      n2 == Read(n)
      star == Len(name) > 2 /\ Beyond(name, Len(name) - 2) = ":*"
  IN  CASE q.lex # "(" -> IF star THEN Test(q, "namespace", Upto(name, Len(name) - 1))
                          ELSE Test(q, "name", name)
        [] n.lex = ")" /\ name \in DOMAIN NodeTypes -> Test(n2, NodeTypes[name], "")
        [] n.lex = ")" -> Test(Throw(n2, "Unrecognized node type"), "none", "")
        [] name = "processing-instruction" ->
             Test(Expect(Expect(n, "quoted", "Only literals are allowed as arguments"), ")",
                         "Unmatched brace near processing-instruction()"), "pi", n.contents)
        [] OTHER -> Test(Throw(n, "Unmatched brace near node type test"), "none", "")

(* The axis of a step, if there is one, and its test. *)
AxisAndTest(q) ==
  LET axis  == IF q.lex = "@" THEN "attribute" ELSE "child"
      name  == IF q.lex = "@" THEN Read(q) ELSE q
      after == Read(name)
      known == Check(Check(after, q.lex # "@", "Two axis specifiers in one step"),
                     name.contents \in Axes, "Unknown axis")
      test  == Read(known)
  IN  CASE name.lex = "*" -> [axis |-> axis, t |-> Test(after, "all", "")]
        [] name.lex # "name" -> [axis |-> axis, t |-> Test(Throw(name, "Unrecognized node test"), "none", "")]
        [] after.lex # "::" -> [axis |-> axis, t |-> NodeTest(after, name.contents)]
        [] test.lex = "*" -> [axis |-> name.contents, t |-> Test(Read(test), "all", "")]
        [] test.lex = "name" -> [axis |-> name.contents, t |-> NodeTest(Read(test), test.contents)]
        [] OTHER -> [axis |-> axis, t |-> Test(Throw(test, "Unrecognized node test"), "none", "")]

(* parse_step *)
StepPredicates(q, e) ==
  LET p == Expression(Read(q))
  IN  IF q.lex # "[" THEN Result(q, e)
      ELSE Parse("step predicates", Expect(p.q, "]", "Unmatched square brace"),
                 [e EXCEPT !.preds = Append(@, p.e)])

Step(q, set) ==
  LET sets == Check(q, set # <<>> => set[1].ret = "nodes", "Step has to be applied to node set")
      a == AxisAndTest(sets)
  IN  CASE sets.lex = "."  -> Result(Read(sets), StepExpr(set, "self", "node", ""))
        [] sets.lex = ".." -> Result(Read(sets), StepExpr(set, "parent", "node", ""))
        [] OTHER -> Parse("step predicates", a.t.q, StepExpr(set, a.axis, a.t.test, a.t.name))

Parse(rule, q, x) == CASE rule = "next"  -> NextLex(q)
                       [] rule = "level" -> Level(q, x)
                       [] rule = "more"  -> MoreOfLevel(q, x)
                       [] rule = "unary" -> Unary(q)
                       [] rule = "union" -> Union(q)
                       [] rule = "more of union" -> MoreOfUnion(q, x)
                       [] rule = "path"       -> Path(q)
                       [] rule = "filter"     -> Filter(q)
                       [] rule = "predicates" -> Predicates(q, x)
                       [] rule = "primary"    -> Primary(q)
                       [] rule = "arguments"  -> Arguments(q, x)
                       [] rule = "relative"     -> Relative(q, x)
                       [] rule = "more of path" -> MoreOfPath(q, x)
                       [] rule = "step"         -> Step(q, x)
                       [] rule = "step predicates" -> StepPredicates(q, x)

(* xpath_parser::parse: the query, or an error. *)
ParseQuery(text, vars) ==
  LET q == Lexeme([text |-> text, at |-> 1, pos |-> 1, lex |-> "", contents |-> "", vars |-> vars,
                   error |-> "", offset |-> 0])
      r == Expression(q)
  IN  [r EXCEPT !.q = Check(r.q, r.q.lex = "eof", "Incorrect query")]
==============================================================================
