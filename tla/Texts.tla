-------------------------------- MODULE Texts --------------------------------
(***************************************************************************)
(* The texts that are read and written: XML documents (XmlParser,          *)
(* XmlWriter), the pieces in them (XmlText), their encodings (XmlEncoding) *)
(* and the texts of shoryu itself (Codec).  A state is an input, built up  *)
(* a token or a node at a time; the properties say what becomes of it.     *)
(***************************************************************************)
EXTENDS XmlParser, XmlWriter, Codec

CONSTANTS Tokens,    \* for each kind of text, what it is built of
          Most,      \* for each kind of input, how many tokens or nodes of it
          NodeValues,
          ParameterNames, ParameterValues

VARIABLE input    \* [what, size, value]

Documents == {"tags", "markup"}    \* documents, of two sets of tokens

Inputs == Documents \cup {"piece", "bytes", "tree", "map", "integer"}

Of(what) == input.what = what

Init == input \in {[what |-> w, size |-> 0, value |-> <<>>] : w \in Inputs}

Grow(value) == /\ input.size < Most[input.what]
               /\ input' = [input EXCEPT !.size = @ + 1, !.value = value]

(* load_buffer_impl: the document in some bytes. *)
LoadBuffer(bytes, enc, opt) == Parse(Converted(GetBufferEncoding(enc, bytes), bytes), opt)

OptionSets == {ParseDefault, ParseFull, {"ws_pcdata", "comments"}}

(* The parser has come to the end of a text: only then does more of it     *)
(* matter.                                                                 *)
Undecided(text) == \E o \in OptionSets : Parse(Append(text, SP), o).stop >= Len(text)

MoreDocument == /\ input.what \in Documents /\ Undecided(input.value)
                /\ \E t \in Tokens[input.what] : Grow(input.value \o t)

MoreText == /\ input.what \in {"piece", "bytes", "integer"}
            /\ \E t \in Tokens[input.what] : Grow(input.value \o t)

(* A node after those there are, below the last of them or one above it.   *)
RECURSIVE OpenAt(_, _)
OpenAt(doc, i) == IF i = 0 THEN {0} ELSE {i} \cup OpenAt(doc, doc[i].parent)

NodeA == <<97>>
NewNodes(parent) ==
  {[kind |-> "element", parent |-> parent, name |-> NodeA, value |-> <<>>, attrs |-> a] :
     a \in {<<>>} \cup {<<[name |-> NodeA, value |-> v]>> : v \in NodeValues}}
  \cup {[kind |-> k, parent |-> parent, name |-> IF k = "pi" THEN NodeA ELSE <<>>,
         value |-> v, attrs |-> <<>>] :
          k \in {"pcdata", "cdata", "comment", "pi"}, v \in NodeValues}

MoreTree == /\ Of("tree")
            /\ \E parent \in OpenAt(input.value, Len(input.value)) :
                 /\ parent # 0 => input.value[parent].kind = "element"
                 /\ \E n \in NewNodes(parent) : Grow(Append(input.value, n))

MoreMap == /\ Of("map")
           /\ \E n \in ParameterNames, v \in ParameterValues :
                /\ \A i \in DOMAIN input.value : ~SameName(input.value[i][1], n)
                /\ Grow(Append(input.value, <<n, v>>))

Next == MoreDocument \/ MoreText \/ MoreTree \/ MoreMap

Spec == Init /\ [][Next]_input

------------------------------------------------------------------------------
(* After a comment in a DOCTYPE the parser skips one character too many,   *)
(* which may be the NUL at the end of its buffer.                          *)
DoctypeComment(text) ==
  \E i \in DOMAIN text :
    /\ Is(text, i, DoctypeMark)
    /\ \E j \in i + 1 .. Len(text) :
         /\ Is(text, j, <<LT, BANG, DASH, DASH>>)
         /\ \E k \in j + 1 .. Len(text) : Is(text, k, <<DASH, DASH, GT>>)

(* A DOCTYPE that is kept, and followed by one character only, is kept     *)
(* with its ">".                                                           *)
KeepsDoctypeEnd(nodes, keeping) ==
  /\ nodes # <<>> /\ Last(nodes).kind = "doctype"
  /\ keeping = [nodes EXCEPT ![Len(nodes)].value = Append(@, GT)]

(* What was read of a text, and of the text with a space after it.         *)
ReadAlike(text, r, q) ==
  /\ (r.status = "ok") <=> (q.status = "ok")
  /\ r.status = "ok" => \/ r.nodes = q.nodes
                        \/ Last(text) = GT /\ KeepsDoctypeEnd(r.nodes, q.nodes)
                        \/ Last(Front(text)) = GT /\ KeepsDoctypeEnd(q.nodes, r.nodes)

(* The parser does not see the last character of a text: it is kept aside, *)
(* and every construct it may end has a case for that.  So a text is       *)
(* accepted if and only if it is with a space after it, in which case the  *)
(* parser sees all of it, and the documents are the same, but for the two  *)
(* oddities of a DOCTYPE above.                                            *)
LastCharacterIsSeen ==
  input.what \in Documents /\ ~DoctypeComment(input.value) =>
    \A o \in OptionSets :
      ReadAlike(input.value, Parse(input.value, o), Parse(Append(input.value, SP), o))

(* The parser stays inside its buffer, and so does the place of an error   *)
(* (the assert at the end of xml_parser::parse), but for the one character *)
(* after the comment of a DOCTYPE: there it goes on at the byte behind the *)
(* NUL, which is taken for another NUL here.                               *)
ScanStaysInside ==
  input.what \in Documents =>
    \A o \in OptionSets :
      LET r == Parse(input.value, o)
      IN  /\ r.offset \in 0 .. Len(input.value)
          /\ r.stop <= Len(input.value) + (IF DoctypeComment(input.value) THEN 1 ELSE 0)

------------------------------------------------------------------------------
(* What a piece of text stands for, its escapes and line ends replaced.    *)
NumberEnd(text, from, digits) ==
  LET ends == {k \in from .. Len(text) : text[k] \notin digits}
  IN  IF ends = {} THEN 0 ELSE CHOOSE k \in ends : \A j \in ends : k <= j

(* The bytes the reference at the start of a text stands for, and the rest *)
(* of it; nothing if there is no reference.                                *)
Referred(text) ==
  LET names == {ch \in {AMP, APOS, GT, LT, QUOT} : IsPrefix(Reference(ch), text)}
      hex   == IsPrefix(<<AMP, HASH, 120>>, text)
      from  == IF hex THEN 4 ELSE 3
      stop  == NumberEnd(text, from, IF hex THEN Hex ELSE Digits)
  IN  CASE names # {} -> LET ch == CHOOSE c \in names : TRUE
                         IN  <<<<ch>>, SubSeq(text, Len(Reference(ch)) + 1, Len(text))>>
        [] IsPrefix(<<AMP, HASH>>, text) /\ stop > from /\ text[stop] = SEMI ->
             <<Utf8Write(AnyOf(Number(SubSeq(text, from, stop - 1), IF hex THEN 16 ELSE 10))),
               SubSeq(text, stop + 1, Len(text))>>
        [] OTHER -> <<>>

RECURSIVE Plain(_, _)
Plain(text, m) ==
  LET ch    == Head(text)
      wide  == m.what \in {"wnorm", "wconv"}
      line  == IF wide THEN SP ELSE LF
      pair  == ch = CR /\ Len(text) > 1 /\ text[2] = LF
      space == SelectInSeq(text, LAMBDA c : c \notin Space)
      to    == IF m.escapes /\ m.what \notin {"comment", "cdata"} THEN Referred(text) ELSE <<>>
  IN  CASE text = <<>> -> <<>>
        [] m.what = "wnorm" /\ ch \in Space ->
             IF space = 0 THEN <<SP>> ELSE <<SP>> \o Plain(SubSeq(text, space, Len(text)), m)
        [] (wide /\ ch \in Space) \/ (m.eol /\ ch = CR) ->
             <<line>> \o Plain(SubSeq(text, IF pair THEN 3 ELSE 2, Len(text)), m)
        [] ch = AMP /\ to # <<>> -> to[1] \o Plain(to[2], m)
        [] OTHER -> <<ch>> \o Plain(Tail(text), m)

TrimStart(text) ==
  LET from == SelectInSeq(text, LAMBDA c : c \notin Space)
  IN  IF from = 0 THEN <<>> ELSE SubSeq(text, from, Len(text))
TrimEnd(text) == SubSeq(text, 1, SelectLastInSeq(text, LAMBDA c : c \notin Space))

Expected(text, m) == IF m.what = "wnorm" THEN TrimEnd(Plain(TrimStart(text), m))
                     ELSE Plain(text, m)

PieceModes ==
  {m \in [what : Modes, quote : {QUOT}, endch : {SP}, eol : BOOLEAN, escapes : BOOLEAN] :
     CASE m.what \in {"comment", "cdata"} -> m.eol
       [] m.what = "eol" -> m.eol
       [] m.what = "simple" -> ~m.eol
       [] OTHER -> TRUE}

Delimiter(m) == CASE m.what = "comment" -> <<DASH, DASH, GT>>
                  [] m.what = "cdata"   -> <<RBR, RBR, GT>>
                  [] m.what = "text"    -> <<LT>>
                  [] OTHER              -> <<m.quote>>

(* A piece of text converted where it lies, in one pass and with a gap     *)
(* that grows, is the piece converted as a whole, up to a NUL that is in   *)
(* it, and what follows the piece is left as it was.                       *)
InPlaceIsPlain ==
  Of("piece") =>
    \A m \in PieceModes :
      LET rest  == Delimiter(m) \o <<97, NUL>>
          b     == <<QUOT>> \o input.value \o rest
          r     == Convert(b, 2, m)
          plain == Expected(input.value, m)
          nul   == SelectInSeq(plain, LAMBDA c : c = NUL)
      IN  /\ r.ok
          /\ StringAt(r.b, 2) = IF nul = 0 THEN plain ELSE SubSeq(plain, 1, nul - 1)
          /\ SubSeq(r.b, Len(b) - 1, Len(b)) = <<97, NUL>>

------------------------------------------------------------------------------
(* What reading cannot give back: text outside the elements, or only of    *)
(* spaces, or next to other text; carriage returns, tabs in attributes.    *)
Kept(doc) ==
  \A i \in DOMAIN doc :
    /\ doc[i].kind = "pcdata" =>
         /\ doc[i].parent # 0
         /\ \E k \in DOMAIN doc[i].value : doc[i].value[k] \notin Space
         /\ \A j \in DOMAIN doc : j # i /\ doc[j].kind = "pcdata" =>
              ~(doc[j].parent = doc[i].parent /\ \A k \in DOMAIN doc :
                  k > i /\ k < j => doc[k].parent # doc[i].parent)
    /\ doc[i].kind = "comment" => \A k \in DOMAIN doc[i].value : doc[i].value[k] \notin {DASH, CR}
    /\ doc[i].kind = "pi" => \A k \in DOMAIN doc[i].value : doc[i].value[k] \notin {QUEST, GT}
    /\ doc[i].kind \in {"pcdata", "cdata"} => \A k \in DOMAIN doc[i].value : doc[i].value[k] # CR

Mixed(doc) == \E i \in DOMAIN doc : doc[i].kind = "pcdata" /\ Len(ChildrenOf(doc, doc[i].parent)) > 1

(* CDATA sections next to one another as one. *)
Cdatas(doc) ==
  LET joins(i) == /\ i > 1 /\ doc[i].kind = "cdata" /\ doc[i - 1].kind = "cdata"
                  /\ doc[i].parent = doc[i - 1].parent
      at(i)    == Cardinality({k \in 1 .. i : ~joins(k)})
  IN  FoldLeft(LAMBDA out, i :
        IF joins(i) THEN [out EXCEPT ![Len(out)].value = @ \o doc[i].value]
        ELSE Append(out, [doc[i] EXCEPT !.parent = IF @ = 0 THEN 0 ELSE at(@)]),
        <<>>, [i \in DOMAIN doc |-> i])

(* The largest trees are saved in one way only, the others in all.         *)
Ways == [enc : Encodings, flags : {f \cup m : f \in {{"raw"}, {"indent"}},
                                               m \in SUBSET {"bom", "no_declaration"}}]
WaysTried == IF input.size < Most["tree"] THEN Ways ELSE [enc : {"utf16_be"}, flags : {{"indent"}, {"raw"}}]

(* A document that is saved, in any encoding and with the mark of it or    *)
(* without, is found again when it is loaded, and the encoding with it.    *)
SavedDocumentLoadsBack ==
  Of("tree") /\ Kept(input.value) /\ input.value # <<>> =>
    \A w \in WaysTried :
      ("indent" \in w.flags => ~Mixed(input.value)) =>
      LET doc   == input.value
          bytes == Save(doc, <<TAB>>, w.flags, w.enc)
          r     == LoadBuffer(bytes, "auto", ParseFull \ {"declaration"})
      IN  /\ GetBufferEncoding("auto", bytes) = w.enc
          /\ r.status = "ok"
          /\ Cdatas(r.nodes) = Cdatas(doc)

(* Whatever the bytes, valid or not, converting them piece by piece as the *)
(* buffer fills gives what converting them at once gives.                  *)
ChunksChangeNothing ==
  Of("bytes") =>
    \A enc \in Encodings, n \in 0 .. 2 :
      LET data == [i \in 1 .. n |-> 97] \o input.value
          w    == Write(Write(NewWriter(enc), <<LT>>), data)
      IN  Flushed(w).out = ConvertedTo(enc, <<LT>> \o data)

(* A text goes through any encoding unchanged but for the bytes that are   *)
(* no characters, and a buffer made for a converted text after a first     *)
(* pass over it is as long as the text (the assert in convert_buffer).     *)
EncodingsKeepText ==
  Of("bytes") =>
    LET chars == DecodeUtf8(input.value)
        valid == \A c \in ToSet(chars) : c.high => c.ch \in 65536 .. 1114111
        pure  == \A c \in ToSet(chars) : ~c.high => c.ch \notin 55296 .. 57343
    IN  \A enc \in Encodings \ {"utf8"} :
          /\ (Width(enc) = 4 => \A b \in ToSet(input.value) : b < 128) =>
               RoomMade(enc, input.value) = Len(Converted(enc, input.value))
          /\ valid /\ pure =>
               LET text == Written(chars, Utf8Write)
               IN  Converted(enc, ConvertedTo(enc, input.value)) = text

(* Conversions between encodings lose nothing, nor do they when the text   *)
(* is cut into chunks anywhere (convert_buffer, xml_buffered_writer).      *)
ConversionsAreSound == EncodingsKeepText /\ ChunksChangeNothing

------------------------------------------------------------------------------
(* A parameter_map that is written and read has the names it had, each     *)
(* with its value urlencoded: what operator>> reads is the value only      *)
(* after urldecode.                                                        *)
MapComesBackEncoded ==
  Of("map") =>
    LET read == ReadMap(WriteMap(input.value), << <<<<120>>, <<120>>>> >>)
    IN  /\ read.fail <=> input.value = <<>>
        /\ ~read.fail =>
             /\ Len(read.map) = Len(input.value)
             /\ \A i \in DOMAIN read.map : /\ read.map[i][1] = input.value[i][1]
                                           /\ Urldecode(read.map[i][2]) = input.value[i][2]

(* The document r has the action at the place of its third node, and below *)
(* it the parameters.                                                      *)
HasParameters(r, kids, params) ==
  /\ r.status = "ok"
  /\ r.nodes[3].name = <<115, COLON>> \o NodeA
  /\ Len(kids) = Len(params)
  /\ \A i \in DOMAIN params :
       /\ r.nodes[kids[i]].name = params[i][1]
       /\ r.nodes[kids[i] + 1].value = params[i][2]
HasRequest(r, params) == HasParameters(r, ChildrenOf(r.nodes, 3), params)

(* Whoever reads the body of a upnp_request finds the action, and in it    *)
(* the parameters with their values, if no value has markup in it.         *)
RequestIsUnderstood ==
  Of("map") =>
    LET params == [i \in DOMAIN input.value |-> <<input.value[i][1], input.value[i][2]>>]
        clean  == \A i \in DOMAIN params : ToSet(params[i][2]) \cap {LT, AMP, CR} = {}
                                           /\ \E k \in DOMAIN params[i][2] : params[i][2][k] \notin Space
    IN  clean => HasRequest(Parse(SoapBody(NodeA, params), ParseDefault), params)

(* Integers of every width are written high byte first, and come back.     *)
IntegersComeBack ==
  Of("integer") /\ Len(input.value) \in {1, 2, 4, 8} =>
    LET x   == input.value
        out == PutInteger(PutInteger([bytes |-> <<>>, fail |-> FALSE], x).stream, x)
        one == GetInteger(out.stream, [i \in DOMAIN x |-> 0])
    IN  /\ out.stream.bytes = Reverse(x) \o Reverse(x)
        /\ ~one.throws /\ one.value = x /\ one.stream.bytes = Reverse(x)

(* A stream that ends within an integer gives its high bytes and does not  *)
(* throw: the next call does, reading or writing, and writes nothing.      *)
CutIntegerFailsNext ==
  Of("integer") /\ Len(input.value) \in {1, 2, 4, 8} =>
    LET x   == input.value
        n   == Len(x)
        old == [i \in DOMAIN x |-> 0]
    IN  \A k \in 0 .. n - 1 :
          LET cut == GetInteger([bytes |-> SubSeq(Reverse(x), 1, k), fail |-> FALSE], old)
          IN  /\ ~cut.throws /\ cut.stream.fail
              /\ SubSeq(cut.value, n - k + 1, n) = SubSeq(x, n - k + 1, n)
              /\ GetInteger(cut.stream, old).throws
              /\ PutInteger(cut.stream, x) = [stream |-> cut.stream, throws |-> TRUE]

(* What shoryu writes itself is understood by whoever reads it: maps by    *)
(* operator>>, requests by an XML parser, integers by bin_istream.         *)
WritingIsUnderstood == /\ MapComesBackEncoded /\ RequestIsUnderstood
                       /\ IntegersComeBack /\ CutIntegerFailsNext
==============================================================================
