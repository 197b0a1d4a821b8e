------------------------------ MODULE XmlParser ------------------------------
(***************************************************************************)
(* The parser of pugixml (pugixml.cpp: xml_parser), which works in the     *)
(* text it is given.  The last character of the text is kept aside, endch, *)
(* and NUL put in its place; names and values are positions in the buffer, *)
(* and end at a NUL put after them.                                        *)
(*                                                                         *)
(* p = [b, s, endch, opt, nodes, cursor, status, at]: the buffer, the      *)
(* position, the options, the nodes in the order they are pushed, the open *)
(* one (0 for the document), and the error with its place.                 *)
(***************************************************************************)
EXTENDS XmlText, FiniteSets

NoText == 0    \* a null pointer

ParseDefault == {"cdata", "escapes", "wconv", "eol"}
ParseFull    == ParseDefault \cup {"pi", "comments", "declaration", "doctype"}

Ch(p, i) == At(p.b, p.s + i)

(* THROW_ERROR: nothing is done after it. *)
Throw(p, status, at) == [p EXCEPT !.status = status, !.at = at]
Threw(p) == p.status # "ok"

Move(p, s) == [p EXCEPT !.s = s]
Step(p, i) == [p EXCEPT !.s = @ + i]
Zero(p, at) == [p EXCEPT !.b = [i \in DOMAIN p.b |-> IF i = at THEN NUL ELSE p.b[i]]]

SkipSpace(p) == Move(p, First(p.b, p.s, LAMBDA j : p.b[j] \notin Space))
SkipName(p)  == Move(p, First(p.b, p.s, LAMBDA j : p.b[j] \notin Symbol))

(* ENDSWITH at p.s + i, and the step over the ">" unless it is kept aside. *)
(* (Fault: the step is made anyway.)                                       *)
Ends(p, i, e) == EndsWith(Ch(p, i), e, p.endch)
StepAnyway(p) == Step(p, 1)
StepGt(p) == Step(p, IF Ch(p, 0) = GT THEN 1 ELSE 0)

PushNode(p, kind, name, value) ==
  [p EXCEPT !.nodes  = Append(@, [kind |-> kind, parent |-> p.cursor, name |-> name,
                                  value |-> value, attrs |-> <<>>]),
            !.cursor = Len(p.nodes) + 1]
PopNode(p) == [p EXCEPT !.cursor = p.nodes[@].parent]

Mode(p, what, quote) ==
  [what |-> what, quote |-> quote, endch |-> p.endch, eol |-> "eol" \in p.opt \/ what \in {"comment", "cdata"},
   escapes |-> "escapes" \in p.opt]

------------------------------------------------------------------------------
(* DOCTYPE: nested sections, looked through for where it ends.  The result *)
(* is the position after a section, or that of an error.                   *)
Past(s)  == [s |-> s, ok |-> TRUE]
Bad(s)   == [s |-> s, ok |-> FALSE]
Is(b, s, text) == \A i \in DOMAIN text : At(b, s + i - 1) = text[i]

(* parse_doctype_primitive: a string, <?...?> or a comment, after which    *)
(* one character more is skipped than it has.                              *)
Section(b, s, text, more) ==
  LET stop == First(b, s, LAMBDA j : Is(b, j, text))
  IN  IF At(b, stop) = NUL THEN Bad(stop) ELSE Past(stop + more)
Primitive(b, s) ==
  CASE At(b, s) \in {QUOT, APOS} -> Section(b, s + 1, <<At(b, s)>>, 1)
    [] Is(b, s, <<LT, QUEST>>) -> Section(b, s + 2, <<QUEST, GT>>, 2)
    [] Is(b, s, <<LT, BANG, DASH, DASH>>) -> Section(b, s + 4, <<DASH, DASH, GT>>, 4)
    [] OTHER -> Bad(s)

(* parse_doctype_ignore, from inside the section. *)
RECURSIVE InIgnore(_, _)
InIgnore(b, s) ==
  CASE At(b, s) = NUL -> Bad(s)
    [] Is(b, s, <<LT, BANG, LBR>>) -> LET r == InIgnore(b, s + 1)
                                      IN  IF r.ok THEN InIgnore(b, r.s) ELSE r
    [] Is(b, s, <<RBR, RBR, GT>>) -> Past(s + 3)
    [] OTHER -> InIgnore(b, s + 1)

(* parse_doctype_group, from inside the group: the outermost may lack its  *)
(* end if that is the character kept aside.                                *)
RECURSIVE InGroup(_, _, _, _)
InGroup(b, s, endch, toplevel) ==
  LET on(r) == IF r.ok THEN InGroup(b, r.s, endch, toplevel) ELSE r
  IN  CASE At(b, s) = NUL -> IF toplevel /\ endch = GT THEN Past(s) ELSE Bad(s)
        [] Is(b, s, <<LT, BANG, LBR>>) -> on(InIgnore(b, s + 1))
        [] Is(b, s, <<LT, BANG>>) /\ At(b, s + 2) \notin {DASH, LBR} ->
             on(InGroup(b, s + 1, endch, FALSE))
        [] \/ At(b, s) \in {QUOT, APOS}
           \/ At(b, s) = LT /\ ~(At(b, s + 1) = BANG /\ At(b, s + 2) # DASH) -> on(Primitive(b, s))
        [] At(b, s) = GT -> Past(s + 1)
        [] OTHER -> InGroup(b, s + 1, endch, toplevel)

(* From the "<!" of a DOCTYPE, at p.s, on. *)
DoctypeEnds(p, r) ==
  LET q == PushNode(Move(p, r.s), "doctype", NoText,
                    First(p.b, p.s + 9, LAMBDA j : p.b[j] \notin Space))
  IN  CASE p.cursor # 0 -> Throw(p, "bad_doctype", p.s)
        [] ~r.ok -> Throw(Move(p, r.s), "bad_doctype", r.s)
        [] "doctype" \notin p.opt -> Move(p, r.s)
        [] OTHER -> PopNode(Zero(q, IF Ch(q, 0) = NUL THEN q.s ELSE q.s - 1))
Doctype(p) == DoctypeEnds(p, InGroup(p.b, p.s + 1, p.endch, TRUE))

------------------------------------------------------------------------------
(* A comment or a CDATA section, from its text on: kept and converted, or  *)
(* looked through for its end, and only ended if it is kept.  (Fault: the  *)
(* last character is not looked at.)                                       *)
ScannedBlind(p, mark, keep) ==
  LET stop == First(p.b, p.s, LAMBDA j : Is(p.b, j, <<mark, mark, GT>>))
  IN  [b  |-> IF keep THEN Zero(p, stop).b ELSE p.b,
       s  |-> IF At(p.b, stop) = NUL THEN stop ELSE stop + 3,
       ok |-> At(p.b, stop) # NUL]
Scanned(p, mark, keep) ==
  LET stop == First(p.b, p.s, LAMBDA j : /\ Is(p.b, j, <<mark, mark>>)
                                         /\ EndsWith(At(p.b, j + 2), GT, p.endch))
  IN  [b  |-> IF keep THEN Zero(p, stop).b ELSE p.b,
       s  |-> IF At(p.b, stop) = NUL THEN stop
              ELSE stop + (IF At(p.b, stop + 2) = GT THEN 3 ELSE 2),
       ok |-> At(p.b, stop) # NUL]

(* strconv_cdata ends before the last two characters of "]]>". *)
MarkedBy(p, kind, keep, convert, error, r) ==
  LET s == IF convert /\ kind = "cdata"
           THEN r.s + (IF At(r.b, r.s + 1) = GT THEN 2 ELSE 1) ELSE r.s
      q == IF keep THEN PopNode(PushNode(p, kind, NoText, p.s)) ELSE p
  IN  IF r.ok THEN [q EXCEPT !.b = r.b, !.s = s]
      ELSE Throw(Move(q, r.s), error, IF convert THEN p.s ELSE r.s)
Marked(p, kind, option, mark, error) ==
  LET keep    == option \in p.opt
      convert == keep /\ "eol" \in p.opt
  IN  MarkedBy(p, kind, keep, convert, error,
               IF convert THEN Convert(p.b, p.s, Mode(p, kind, NUL)) ELSE Scanned(p, mark, keep))

CdataMark   == <<67, 68, 65, 84, 65, LBR>>
DoctypeMark == <<68, 79, 67, 84, 89, 80>>

(* parse_exclamation, from its "!" on. *)
Exclamation(p) ==
  CASE Ch(p, 1) = DASH /\ Ch(p, 2) = DASH ->
         Marked(Step(p, 3), "comment", "comments", DASH, "bad_comment")
    [] Ch(p, 1) = DASH -> Throw(p, "bad_comment", p.s + 2)
    [] Ch(p, 1) = LBR ->
         IF Is(p.b, p.s + 2, CdataMark) THEN Marked(Step(p, 8), "cdata", "cdata", RBR, "bad_cdata")
         ELSE Throw(p, "bad_cdata",
                    p.s + 1 + (CHOOSE k \in 1 .. 6 : Ch(p, 1 + k) # CdataMark[k] /\
                                   \A j \in 1 .. k - 1 : Ch(p, 1 + j) = CdataMark[j]))
    [] Is(p.b, p.s + 1, DoctypeMark) /\ Ends(p, 7, 69) -> Doctype(Step(p, -1))
    [] OTHER -> Throw(p, CASE Ch(p, 1) = NUL /\ p.endch = DASH -> "bad_comment"
                           [] Ch(p, 1) = NUL /\ p.endch = LBR  -> "bad_cdata"
                           [] OTHER -> "unrecognized_tag", p.s + 1)

------------------------------------------------------------------------------
IsXml(name) == /\ Len(name) = 3
               /\ name[1] \in {88, 120} /\ name[2] \in {77, 109} /\ name[3] \in {76, 108}

(* parse_question, from its "?" on.  A declaration is left open, for its   *)
(* attributes are read like those of an element.                           *)
Question(p) ==
  LET target == p.s + 1
      n      == SkipName(Step(p, 1))
      decl   == IsXml(SubSeq(p.b, target, n.s - 1))
      stop(q) == First(q.b, q.s, LAMBDA j : /\ q.b[j] = QUEST
                                            /\ EndsWith(At(q.b, j + 1), GT, q.endch))
      after(q) == LET s == stop(q) IN s + (IF At(q.b, s + 1) = GT THEN 2 ELSE 1)
      node  == Step(Zero(PushNode(n, IF decl THEN "declaration" ELSE "pi", target, NoText), n.s), 1)
      value == SkipSpace(node)
      end   == stop(value)
  IN  CASE Ch(p, 1) \notin StartSymbol -> Throw(p, "bad_pi", target)
        [] Ch(n, 0) = NUL -> Throw(n, "bad_pi", n.s)
        [] (IF decl THEN "declaration" ELSE "pi") \notin p.opt ->
             IF At(n.b, stop(n)) = NUL THEN Throw(Move(n, stop(n)), "bad_pi", stop(n)) ELSE Move(n, after(n))
        [] decl /\ p.cursor # 0 -> Throw(n, "bad_pi", n.s)
        [] Ch(n, 0) = QUEST ->
             IF ~Ends(node, 0, GT) THEN Throw(node, "bad_pi", node.s)
             ELSE PopNode(StepGt(node))
        [] Ch(n, 0) \notin Space -> Throw(node, "bad_pi", node.s)
        [] At(value.b, end) = NUL -> Throw(Move(value, end), "bad_pi", end)
        [] decl -> [value EXCEPT !.b = [i \in DOMAIN @ |-> IF i = end THEN SLASH ELSE @[i]]]
        [] OTHER -> PopNode([Zero(value, end) EXCEPT !.s = after(value),
                                                     !.nodes[value.cursor].value = value.s])

(* The value of the attribute that was named last, from the "=" on. *)
AttributeMode(p, quote) ==
  Mode(p, IF "wnorm" \in p.opt THEN "wnorm" ELSE IF "wconv" \in p.opt THEN "wconv"
          ELSE IF "eol" \in p.opt THEN "eol" ELSE "simple", quote)
ValueRead(q, r) ==
  LET n == Len(q.nodes[q.cursor].attrs)
      done == [q EXCEPT !.b = r.b, !.s = r.s, !.nodes[q.cursor].attrs[n].value = q.s + 1]
  IN  CASE Ch(q, 0) \notin {QUOT, APOS} -> Throw(q, "bad_attribute", q.s)
        [] ~r.ok -> Throw(Move(q, r.s), "bad_attribute", q.s + 1)
        [] Ch(done, 0) \in StartSymbol -> Throw(done, "bad_attribute", done.s)
        [] OTHER -> done
Value(p) == LET q == SkipSpace(p)
            IN  ValueRead(q, Convert(q.b, q.s + 1, AttributeMode(q, Ch(q, 0))))

(* One attribute, from its name on. *)
Attribute(p) ==
  LET n    == SkipName([p EXCEPT !.nodes[p.cursor].attrs = Append(@, [name |-> p.s, value |-> NoText])])
      past == Step(Zero(n, n.s), 1)
      eq   == IF Ch(n, 0) \in Space THEN SkipSpace(past) ELSE n
  IN  CASE Ch(n, 0) = NUL -> Throw(n, "bad_attribute", n.s)
        [] Ch(past, 0) = NUL -> Throw(past, "bad_attribute", past.s)
        [] Ch(eq, 0) = NUL -> Throw(eq, "bad_attribute", eq.s)
        [] Ch(eq, 0) # EQ -> Throw(eq, "bad_attribute", eq.s + 1)
        [] OTHER -> Value([past EXCEPT !.s = eq.s + 1])

(* LOC_ATTRIBUTES: the rest of a start tag. *)
RECURSIVE Attributes(_)
Attributes(p) ==
  LET q == SkipSpace(p)
  IN  CASE Threw(q) -> q
        [] Ch(q, 0) \in StartSymbol -> Attributes(Attribute(q))
        [] Ch(q, 0) = SLASH /\ Ch(q, 1) = GT -> PopNode(Step(q, 2))
        [] Ch(q, 0) = SLASH /\ Ends(q, 1, GT) -> PopNode(Step(q, 1))
        [] Ch(q, 0) = SLASH -> Throw(q, "bad_start_element", q.s + 1)
        [] Ch(q, 0) = GT -> Step(q, 1)
        [] Ends(q, 0, GT) -> q
        [] OTHER -> Throw(q, "bad_start_element", q.s)

StartTag(p) ==
  LET n    == SkipName(PushNode(p, "element", p.s, NoText))
      past == Step(Zero(n, n.s), 1)
  IN  CASE Ch(n, 0) = GT -> past
        [] Ch(n, 0) \in Space -> Attributes(past)
        [] Ch(n, 0) = SLASH -> IF ~Ends(past, 0, GT) THEN Throw(past, "bad_start_element", past.s)
                               ELSE PopNode(StepGt(past))
        [] Ch(n, 0) = NUL -> IF p.endch = GT THEN n ELSE Throw(n, "bad_start_element", n.s)
        [] OTHER -> Throw(past, "bad_start_element", past.s)

StringAt(b, i) == IF i = NoText THEN <<>> ELSE SubSeq(b, i, First(b, i, LAMBDA j : FALSE) - 1)

(* An end tag, from its "/" on; it closes the node of its name.            *)
EndTag(p) ==
  LET q    == Step(p, 1)
      n    == SkipName(q)
      name == StringAt(q.b, q.nodes[q.cursor].name)
      read == SubSeq(q.b, q.s, n.s - 1)
      rest == SkipSpace(PopNode(n))
  IN  CASE q.cursor = 0 \/ q.nodes[q.cursor].name = NoText -> Throw(q, "end_element_mismatch", q.s)
        [] ~IsPrefix(read, name) ->
             Throw(q, "end_element_mismatch",
                   q.s + (CHOOSE k \in 1 .. Len(read) : ~IsPrefix(SubSeq(read, 1, k), name) /\
                                                        IsPrefix(SubSeq(read, 1, k - 1), name)))
        [] Len(read) < Len(name) ->
             Throw(q, IF Ch(n, 0) = NUL /\ SubSeq(name, Len(read) + 1, Len(name)) = <<p.endch>>
                      THEN "bad_end_element" ELSE "end_element_mismatch", n.s)
        [] ~Ends(rest, 0, GT) -> Throw(rest, "bad_end_element", rest.s)
        [] OTHER -> StepGt(rest)

------------------------------------------------------------------------------
(* LOC_TAG: what follows a "<". *)
Declared(p) == IF ~Threw(p) /\ p.cursor # 0 /\ p.nodes[p.cursor].kind = "declaration"
               THEN Attributes(p) ELSE p
Tag(p) ==
  CASE Ch(p, 0) \in StartSymbol -> StartTag(p)
    [] Ch(p, 0) = SLASH -> EndTag(p)
    [] Ch(p, 0) = QUEST -> Declared(Question(p))
    [] Ch(p, 0) = BANG -> Exclamation(p)
    [] OTHER -> Throw(p, IF Ch(p, 0) = NUL /\ p.endch = QUEST THEN "bad_pi"
                         ELSE "unrecognized_tag", p.s)

(* Up to the next tag: text is a node of its own inside an element, and    *)
(* nothing outside.  A tag follows if there is anything after the "<".     *)
Skipped(p) == Move(p, First(p.b, p.s, LAMBDA j : p.b[j] = LT))
TextNode(p, r) == [PopNode(PushNode(p, "pcdata", NoText, p.s)) EXCEPT !.b = r.b, !.s = r.s]
Found(p, tag) == [p |-> p, tag |-> tag]
UnlessOver(p) == Found(p, Ch(p, 0) # NUL)
FindTag(p) ==
  LET q == SkipSpace(p)
      o == Skipped(p)
  IN  CASE Ch(p, 0) = LT -> Found(Step(p, 1), TRUE)
        [] /\ "ws_pcdata" \notin p.opt \/ q.s = p.s
           /\ Ch(q, 0) \in {LT, NUL} -> Found(q, FALSE)
        [] p.cursor # 0 -> UnlessOver(TextNode(p, Convert(p.b, p.s, Mode(p, "text", NUL))))
        [] Ch(o, 0) = NUL -> Found(o, FALSE)
        [] OTHER -> Found(Step(o, 1), TRUE)

RECURSIVE Parsed(_)
TagIfFound(r) == IF r.tag THEN Tag(r.p) ELSE r.p
Parsed(p) == IF Threw(p) \/ Ch(p, 0) = NUL THEN p ELSE Parsed(TagIfFound(FindTag(p)))

(* The document that was read: its nodes with their names and values.      *)
Document(p) ==
  [i \in DOMAIN p.nodes |->
     LET n == p.nodes[i]
     IN  [kind |-> n.kind, parent |-> n.parent,
          name |-> StringAt(p.b, n.name), value |-> StringAt(p.b, n.value),
          attrs |-> [k \in DOMAIN n.attrs |-> [name  |-> StringAt(p.b, n.attrs[k].name),
                                               value |-> StringAt(p.b, n.attrs[k].value)]]]]

Result(p) == [status |-> p.status, offset |-> p.at - 1, stop |-> p.s, nodes |-> Document(p)]

(* xml_parser::parse of a text.  A "<" at its end, which the parser does   *)
(* not see, is an error.                                                   *)
LastChecked(p) ==
  IF p.status = "ok" /\ p.endch = LT THEN Throw(p, "unrecognized_tag", Len(p.b) + 1) ELSE p
Closed(p) == IF p.status = "ok" /\ p.cursor # 0 THEN Throw(p, "end_element_mismatch", p.s) ELSE p
Parse(text, opt) ==
  IF text = <<>> THEN [status |-> "ok", offset |-> 0, stop |-> 0, nodes |-> <<>>]
  ELSE Result(LastChecked(Closed(Parsed(
         [b |-> Append(Front(text), NUL), s |-> 1, endch |-> Last(text), opt |-> opt,
          nodes |-> <<>>, cursor |-> 0, status |-> "ok", at |-> 1]))))
==============================================================================
