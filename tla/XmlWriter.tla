------------------------------ MODULE XmlWriter ------------------------------
(***************************************************************************)
(* Saving a document (pugixml.cpp: xml_document::save, node_output,        *)
(* xml_buffered_writer): what is written goes through a buffer, and is     *)
(* converted to the encoding asked for when the buffer is handed on.       *)
(*                                                                         *)
(* A document is the sequence of its nodes in document order, each with    *)
(* the place of its parent, 0 for the document.                            *)
(***************************************************************************)
EXTENDS XmlChars, XmlText, XmlEncoding, Sequences, SequencesExt

CONSTANT BufCapacity    \* characters in the buffer (2048)

ASSUME CapacityAssumption == BufCapacity \in Nat /\ BufCapacity > 5

(* w = [enc, buffer, out]: out is what the xml_writer was given.           *)
NewWriter(enc) == [enc |-> GetWriteEncoding(enc), buffer |-> <<>>, out |-> <<>>]

Deliver(w, data) == [w EXCEPT !.out = @ \o ConvertedTo(w.enc, data)]
Flushed(w) == [Deliver(w, w.buffer) EXCEPT !.buffer = <<>>]

(* get_valid_length: the chunk before the last character that starts among *)
(* the last four bytes.  (Fault: the chunk is as long as it may be.)       *)
ValidLengthAll(data, length) == length
ValidLength(data, length) ==
  LET starts == {i \in 1 .. 4 : data[length + 1 - i] \notin Continuation}
  IN  IF starts = {} THEN length ELSE length - (CHOOSE i \in starts : \A j \in starts : i <= j)

RECURSIVE Chunks(_, _)
Chunks(w, data) ==
  IF Len(data) <= BufCapacity THEN [w EXCEPT !.buffer = data]
  ELSE LET n == ValidLength(data, BufCapacity)
       IN  Chunks(Deliver(w, SubSeq(data, 1, n)), SubSeq(data, n + 1, Len(data)))

(* xml_buffered_writer::write *)
Write(w, data) ==
  LET f == Flushed(w)
  IN  CASE Len(w.buffer) + Len(data) <= BufCapacity -> [w EXCEPT !.buffer = @ \o data]
        [] Len(data) <= BufCapacity -> [f EXCEPT !.buffer = data]
        [] w.enc = "utf8" -> Deliver(f, data)
        [] OTHER -> Chunks(f, data)

------------------------------------------------------------------------------
(* What is written, one item for each call of write.                       *)
Anonymous   == <<COLON, 97, 110, 111, 110, 121, 109, 111, 117, 115>>
XmlVersion1 == <<LT, QUEST, 120, 109, 108, SP, 118, 101, 114, 115, 105, 111, 110, EQ, QUOT,
                 49, DOT, 48, QUOT, QUEST, GT>>

Reference(ch) ==
  IF ch < 32 THEN <<AMP, HASH, ch \div 10 + 48, (ch % 10) + 48, SEMI>>
  ELSE <<AMP>> \o (CHOOSE e \in Entities : e[2] = ch)[1]

(* text_output_escaped *)
RECURSIVE Escaped(_, _)
Escaped(text, special) ==
  LET stop == SelectInSeq(text, LAMBDA ch : ch \in special)
  IN  IF text = <<>> THEN <<>>
      ELSE IF stop = 0 THEN <<text>>
      ELSE <<SubSeq(text, 1, stop - 1), Reference(text[stop])>>
             \o Escaped(SubSeq(text, stop + 1, Len(text)), special)

(* text_output_cdata: a "]]>" is split between two sections. *)
RECURSIVE Cdata(_)
Cdata(text) ==
  LET at   == {i \in 1 .. Len(text) - 2 : SubSeq(text, i, i + 2) = <<RBR, RBR, GT>>}
      stop == IF at = {} THEN Len(text) ELSE 1 + CHOOSE i \in at : \A j \in at : i <= j
  IN  << <<LT, BANG, LBR, 67, 68>>, <<65, 84, 65, LBR>>,
         SubSeq(text, 1, stop), <<RBR, RBR, GT>> >>
        \o (IF at = {} THEN <<>> ELSE Cdata(SubSeq(text, stop + 1, Len(text))))

NameOf(x) == IF x.name = <<>> THEN Anonymous ELSE x.name

(* node_output_attributes *)
AttributeItems(n) ==
  FlattenSeq([i \in DOMAIN n.attrs |->
    << <<SP>>, NameOf(n.attrs[i]), <<EQ, QUOT>> >>
      \o Escaped(n.attrs[i].value, SpecialAttribute) \o << <<QUOT>> >>])

ChildrenOf(doc, i) == SelectSeq([k \in DOMAIN doc |-> k], LAMBDA k : doc[k].parent = i)

(* node_output, of node i of a document. *)
RECURSIVE Output(_, _, _, _, _)
Output(doc, i, indent, flags, depth) ==
  LET n     == doc[i]
      kids  == ChildrenOf(doc, i)
      raw   == "raw" \in flags
      space == IF "indent" \in flags /\ ~raw THEN [k \in 1 .. depth |-> indent] ELSE <<>>
      line(items) == IF raw THEN items ELSE Append(items, <<LF>>)
      close(text) == IF raw THEN <<text>> ELSE <<Append(text, LF)>>
      below == FlattenSeq([k \in DOMAIN kids |-> Output(doc, kids[k], indent, flags, depth + 1)])
      inline == ~raw /\ Len(kids) = 1 /\ doc[kids[1]].kind \in {"pcdata", "cdata"}
      endtag == << <<LT, SLASH>>, NameOf(n) >> \o close(<<GT>>)
      value  == IF n.value = <<>> THEN <<>> ELSE << <<SP>>, n.value >>
      text(m) == IF m.kind = "pcdata" THEN Escaped(m.value, SpecialText) ELSE Cdata(m.value)
  IN  space \o
      CASE n.kind = "element" ->
             << <<LT>>, NameOf(n) >> \o AttributeItems(n) \o
             (CASE kids = <<>> -> close(<<SP, SLASH, GT>>)
                [] inline -> << <<GT>> >> \o text(doc[kids[1]]) \o endtag
                [] OTHER -> close(<<GT>>) \o below \o space \o endtag)
        [] n.kind \in {"pcdata", "cdata"} -> line(text(n))
        [] n.kind = "comment" -> line(<< <<LT, BANG, DASH, DASH>>, n.value, <<DASH, DASH, GT>> >>)
        [] n.kind = "pi" -> line(<< <<LT, QUEST>>, NameOf(n) >> \o value \o << <<QUEST, GT>> >>)
        [] n.kind = "declaration" ->
             line(<< <<LT, QUEST>>, NameOf(n) >> \o AttributeItems(n) \o << <<QUEST, GT>> >>)
        [] n.kind = "doctype" ->
             line(<< <<LT, BANG, 68, 79, 67>>, <<84, 89, 80, 69>> >> \o value \o << <<GT>> >>)

(* has_declaration: one before the first element. *)
HasDeclaration(doc) ==
  LET s == SelectSeq(ChildrenOf(doc, 0), LAMBDA k : doc[k].kind \in {"declaration", "element"})
  IN  s # <<>> /\ doc[Head(s)].kind = "declaration"

(* xml_document::save: the bytes that are written. *)
Save(doc, indent, flags, enc) ==
  LET kids  == ChildrenOf(doc, 0)
      decl  == IF "no_declaration" \in flags \/ HasDeclaration(doc) THEN <<>>
               ELSE <<XmlVersion1>> \o (IF "raw" \in flags THEN <<>> ELSE << <<LF>> >>)
      items == decl \o FlattenSeq([k \in DOMAIN kids |-> Output(doc, kids[k], indent, flags, 0)])
  IN  (IF "bom" \in flags THEN Bom(GetWriteEncoding(enc)) ELSE <<>>)
        \o Flushed(FoldLeft(Write, NewWriter(enc), items)).out
==============================================================================
