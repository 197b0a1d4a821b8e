-------------------------------- MODULE XPath --------------------------------
(***************************************************************************)
(* XPath queries over a document (pugixml.cpp: xpath_query, xpath_node_set,*)
(* xpath_variable_set).  A document is parsed and edited, a query compiled *)
(* and evaluated, a variable set from what it answered and another query   *)
(* made with it.  Beside that, chains of operators are parsed and arrays   *)
(* sorted (ArraySort).                                                     *)
(***************************************************************************)
EXTENDS XPathMeaning, ArraySort

CONSTANTS Parsed,          \* the items a parsed document has: [kind, name, value]
          MaxItems,        \* bound: items of a document that is parsed
          InsertedItems,   \* the items that are inserted later
          MaxEdits,        \* bound: edits of a document
          Queries,         \* the texts of queries
          SourceQueries,   \* those among them whose answers go into a variable
          VariableQueries, \* the texts of queries with the variable
          ChainOperators, MaxChain   \* bound: operators in a chain

VARIABLES doc,     \* the document, see XPathNodes
          vars,    \* xpath_variable_set: [type, value] by name
          query,   \* xpath_query: its text or chain, expression and types of the variables
          answer   \* what it was evaluated to

state == <<doc, vars, query, answer, arrays>>

NoQuery  == [text |-> "", chain |-> <<>>, error |-> "", e |-> Expr("none", "none", <<>>), types |-> <<>>]
NoAnswer == [of |-> 0, as |-> "none"]

NewDocument == [kind |-> <<"document">>, parent |-> <<0>>, kids |-> << <<>> >>, attrs |-> << <<>> >>,
                name |-> <<"">>, value |-> <<"">>, nameAt |-> <<0>>, valueAt |-> <<0>>]

Init == /\ doc = NewDocument /\ vars = <<>> /\ query = NoQuery /\ answer = NoAnswer
        /\ SortInit

------------------------------------------------------------------------------
(* The document.                                                           *)

(* A new item at a place among the children or attributes of p; a parsed   *)
(* one has its texts in the buffer, in the order they are found.           *)
Added(d, p, item, at, parsed) ==
  LET n == Len(d.kind) + 1
      isAttr == item.kind = "attribute"
      Put(lists) == [lists EXCEPT ![p] = InsertAt(@, at, n)]
  IN  [kind |-> Append(d.kind, item.kind), parent |-> Append(d.parent, p),
       kids  |-> Append(IF isAttr THEN d.kids ELSE Put(d.kids), <<>>),
       attrs |-> Append(IF isAttr THEN Put(d.attrs) ELSE d.attrs, <<>>),
       name  |-> Append(d.name, item.name), value |-> Append(d.value, item.value),
       nameAt  |-> Append(d.nameAt, IF parsed /\ item.name # "" THEN 2 * n ELSE 0),
       valueAt |-> Append(d.valueAt, IF parsed /\ item.value # "" THEN 2 * n + 1 ELSE 0)]

InMemory(d) == {i \in Items(d) : d.name[i] # "" /\ d.nameAt[i] = 0}

Editing == query = NoQuery /\ SortInit /\ vars = <<>>

(* The parser appends below an element that is open, an attribute before   *)
(* there is anything below its element, text where there is none before.   *)
ParseItem ==
  /\ Editing /\ InMemory(doc) = {} /\ Len(doc.kind) < MaxItems
  /\ LET last == Len(doc.kind)
         open == IF IsAttr(doc, last) THEN {doc.parent[last]} ELSE {last}
     IN  \E item \in Parsed, p \in open \cup Above(doc, last) :
           /\ doc.kind[p] = "element" \/ (p = 1 /\ item.kind = "element")
           /\ item.kind = "attribute" => p \in open /\ \A a \in ToSet(doc.attrs[p]) : doc.name[a] # item.name
           /\ item.kind = "pcdata" /\ doc.kids[p] # <<>> => doc.kind[Last(doc.kids[p])] # "pcdata"
           /\ doc' = Added(doc, p, item,
                           Len(IF item.kind = "attribute" THEN doc.attrs[p] ELSE doc.kids[p]) + 1, TRUE)
  /\ UNCHANGED <<vars, query, answer, arrays>>

(* insert_child_before, append_child, insert_attribute_before, ... *)
InsertItem ==
  /\ Editing /\ Cardinality(InMemory(doc)) < MaxEdits /\ Len(doc.kind) < MaxItems
  /\ \E item \in InsertedItems, p \in Items(doc) :
       LET there == IF item.kind = "attribute" THEN doc.attrs[p] ELSE doc.kids[p]
       IN  /\ doc.kind[p] = "element" \/ (p = 1 /\ item.kind = "element")
           /\ \E at \in 1 .. Len(there) + 1 : doc' = Added(doc, p, item, at, FALSE)
  /\ UNCHANGED <<vars, query, answer, arrays>>

(* set_name, to one that is longer: it gets memory of its own.             *)
Rename ==
  /\ Editing /\ Cardinality(InMemory(doc)) < MaxEdits
  /\ \E i \in Items(doc) :
       /\ doc.nameAt[i] # 0
       /\ doc' = [doc EXCEPT !.nameAt[i] = 0, !.name[i] = @ \o "b"]
  /\ UNCHANGED <<vars, query, answer, arrays>>

------------------------------------------------------------------------------
(* Variables: setting one of another type fails.                           *)
Set(vs, name, v) ==
  IF name \in DOMAIN vs /\ vs[name].type # v.type THEN vs
  ELSE [n \in DOMAIN vs \cup {name} |-> IF n = name THEN v ELSE vs[n]]

Number2 == [type |-> "number", value |-> Num(2)]
EmptySet == [type |-> "nodes", value |-> [type |-> "unsorted", nodes |-> <<>>]]

(* While there is a query only what it has been compiled with changes.     *)
SetVariable ==
  /\ answer = NoAnswer /\ SortInit /\ query.chain = <<>>
  /\ \E v \in {Number2, EmptySet} : vars' = Set(vars, "v", v)
  /\ vars = <<>> => query = NoQuery
  /\ UNCHANGED <<doc, query, answer, arrays>>

(* The answer of a query goes into a variable, and the query is gone.      *)
(* (Bound: an answer of two nodes or more.)                                *)
KeepAnswer ==
  /\ answer.as = "nodes" /\ query.text \in SourceQueries /\ Len(answer.v.nodes) > 1
  /\ vars' = Set(vars, "v", [type |-> "nodes", value |-> [type |-> answer.v.type, nodes |-> answer.v.nodes]])
  /\ query' = NoQuery /\ answer' = NoAnswer
  /\ UNCHANGED <<doc, arrays>>

------------------------------------------------------------------------------
(* Queries.                                                                *)

(* xpath_query: with an exception if the text is not one. *)
Compiled(text, chain) ==
  LET types == [n \in DOMAIN vars |-> vars[n].type]
      r == ParseQuery(text, types)
  IN  [NoQuery EXCEPT !.text = text, !.chain = chain, !.error = r.q.error,
                      !.e = IF r.q.error = "" THEN r.e ELSE @, !.types = types]

Compile ==
  /\ query = NoQuery /\ SortInit
  /\ \E text \in IF vars = <<>> THEN Queries ELSE VariableQueries : query' = Compiled(text, <<>>)
  /\ UNCHANGED <<doc, vars, answer, arrays>>

(* 1 op 2 op 3 ...: ops are its operators. *)
ChainText(ops) ==
  "1" \o Joined([i \in DOMAIN ops |-> " " \o ops[i] \o " " \o ToString(i + 1)])

CompileChain ==
  /\ Editing /\ doc = NewDocument
  /\ \E n \in 1 .. MaxChain : \E ops \in [1 .. n -> ChainOperators] :
       query' = Compiled(ChainText(ops), ops)
  /\ UNCHANGED <<doc, vars, answer, arrays>>

(* evaluate_boolean, evaluate_number, evaluate_string, evaluate_node_set,  *)
(* select_single_node: whatever is evaluated is copied out of the memory   *)
(* of the evaluation.                                                      *)
NodesAnswer(d, ns) == [type |-> ns.type, nodes |-> ns.nodes, first |-> FirstNode(d, ns),
                       inOrder |-> Sorted(d, ns, FALSE).nodes]
AnswerOf(i, as, d, r, m) ==
  [of |-> i, as |-> as, ok |-> m.ok,
   v  |-> CASE as = "string" -> r.v.text [] as = "nodes" -> NodesAnswer(d, r.v) [] OTHER -> r.v,
   left |-> {n \in {1, 2} : m.al[n].size # 0 \/ Len(m.al[n].blocks) # 1}]
Copied(i, as, d, r) == AnswerOf(i, as, d, r, IF as \in {"string", "nodes"} THEN Used(r.m, r.v.at) ELSE r.m)

Evaluate ==
  /\ query # NoQuery /\ query.error = "" /\ answer = NoAnswer /\ query.chain = <<>>
  /\ \E i \in Items(doc), as \in {"boolean", "number", "string", query.e.ret} :
       LET c == [d |-> doc, vars |-> vars, x |-> XNode(doc, i), position |-> 1, size |-> 1]
       IN  answer' = Copied(i, as, doc, Eval(as, query.e, c, 1, NewMemory))
  /\ UNCHANGED <<doc, vars, query, arrays>>

(* An array grows, is sorted and thinned out, while there is nothing else. *)
Sorts ==
  /\ query = NoQuery /\ vars = <<>> /\ doc = NewDocument
  /\ SortNext
  /\ UNCHANGED <<doc, vars, query, answer>>

Next == \/ ParseItem \/ InsertItem \/ Rename \/ SetVariable \/ KeepAnswer
        \/ Compile \/ CompileChain \/ Evaluate \/ Sorts

Spec == Init /\ [][Next]_state

------------------------------------------------------------------------------
(* The order two nodes are found to be in is the order of the document,    *)
(* whether it is read off the places of their texts in the buffer, off the *)
(* tree, or off one for some nodes and off the other for the rest, after   *)
(* nodes were inserted and renamed (document_order_comparator).            *)
DocumentOrderIsRight ==
  query = NoQuery =>
    \A i, j \in Items(doc) :
      i # j => (IsBefore(doc, XNode(doc, i), XNode(doc, j)) <=> Precedes(doc, i, j))

(* A chain of operators is understood as XPath says: of those that bind    *)
(* least the last one is applied last (parse_or_expression ..              *)
(* parse_multiplicative_expression, where each level calls the next).      *)
RECURSIVE Understood(_, _)
Understood(first, ops) ==
  LET LevelOf(op) == CHOOSE k \in DOMAIN Levels : op \in Levels[k]
      IsRoot(i) == /\ \A j \in DOMAIN ops : LevelOf(ops[i]) <= LevelOf(ops[j])
                   /\ \A j \in i + 1 .. Len(ops) : LevelOf(ops[i]) < LevelOf(ops[j])
      i == CHOOSE i \in DOMAIN ops : IsRoot(i)
  IN  IF ops = <<>> THEN <<ToString(first)>>
      ELSE <<ops[i], Understood(first, SubSeq(ops, 1, i - 1)),
             Understood(first + i, SubSeq(ops, i + 1, Len(ops)))>>
RECURSIVE TreeOf(_)
TreeOf(e) == IF e.type = "constant" THEN <<e.name>> ELSE <<e.type, TreeOf(e.args[1]), TreeOf(e.args[2])>>

PrecedenceIsRight ==
  query.chain # <<>> => query.error = "" /\ TreeOf(query.e) = Understood(1, query.chain)

(* The parser takes contains() and string-length() for functions that      *)
(* return strings; where their value is needed as one, an assertion fails. *)
RECURSIVE Mistyped(_)
Mistyped(e) == \/ e.type \in {"contains", "string-length"}
               \/ \E i \in DOMAIN e.args : Mistyped(e.args[i])
               \/ \E i \in DOMAIN e.preds : Mistyped(e.preds[i])

(* No evaluation uses a string or a node set after the memory it is in was *)
(* given back, lets one grow that is not the last in its allocator, or     *)
(* fails another assertion; every capture ends with what there was when it *)
(* was made; and in the end all memory is given back but that of the       *)
(* allocator the answer is in (xpath_allocator_capture, swapped_stack).    *)
MemoryIsInOrder ==
  answer # NoAnswer =>
    /\ answer.ok \/ Mistyped(query.e)
    /\ answer.left \subseteq IF answer.as \in {"string", "nodes"} THEN {1} ELSE {}

(* Every answer is what XPath says the query means, as each of the four    *)
(* types, through all that is sorted, taken for sorted, thinned out and    *)
(* reused on the way; and the node a set says to be its first is.          *)
Is(a, v, type) ==
  CASE a.as = "nodes" -> /\ {ItemOf(x) : x \in ToSet(a.v.nodes)} = v
                         /\ ItemOf(a.v.first) = IF v = {} THEN 0 ELSE Head(Ordered(doc, v))
    [] a.as = "string"  -> a.v = AsText(doc, v, type)
    [] a.as = "number"  -> a.v = AsNumber(doc, v, type)
    [] a.as = "boolean" -> a.v = AsTruth(v, type)

AnswersAreXPath ==
  answer # NoAnswer /\ answer.ok =>
    LET k == [d |-> doc, vars |-> vars, i |-> answer.of, position |-> 1, size |-> 1]
    IN  Is(answer, Means(query.e, k), TypeOf(query.e))

(* A node set that says that it is sorted is, one that says reverse is the *)
(* other way round, none holds a node twice, and sort() puts it in order   *)
(* (step_do and remove_duplicates, which rely on what they are told).      *)
SetsKeepTheirOrder ==
  answer.as = "nodes" =>
    LET items == [i \in DOMAIN answer.v.nodes |-> ItemOf(answer.v.nodes[i])]
        order == Ordered(doc, ToSet(items))
    IN  /\ Len(items) = Len(order)
        /\ answer.v.type = "sorted"  => items = order
        /\ answer.v.type = "reverse" => items = Reverse(order)
        /\ [i \in DOMAIN answer.v.inOrder |-> ItemOf(answer.v.inOrder[i])] = order
==============================================================================
