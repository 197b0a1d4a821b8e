------------------------------- MODULE XmlText -------------------------------
(***************************************************************************)
(* The text of nodes and attributes is converted where it lies, in the     *)
(* buffer that was read (pugixml.cpp: gap, strconv_escape, strconv_pcdata).*)
(* What a conversion drops is a gap, which moves along with it.            *)
(*                                                                         *)
(* c = [b, s, end, size]: the buffer, the position in it, and the gap.     *)
(***************************************************************************)
EXTENDS XmlChars, Sequences, SequencesExt, XmlEncoding

(* A buffer ends with NUL; past it, a scan stops too. *)
At(b, i) == IF i \in DOMAIN b THEN b[i] ELSE NUL

(* The first position from s on where the buffer ends or P holds. *)
First(b, s, P(_)) ==
  LET stops(j) == b[j] = NUL \/ P(j)
  IN  IF s > Len(b) THEN s
      ELSE CHOOSE j \in s .. Len(b) : stops(j) /\ \A k \in s .. j - 1 : ~stops(k)

Start(b, s) == [b |-> b, s |-> s, end |-> 0, size |-> 0]

(* gap::flush: what follows the gap is moved down to where it starts. *)
Flush(c) == [i \in DOMAIN c.b |->
               IF i >= c.end - c.size /\ i < c.s - c.size THEN c.b[i + c.size] ELSE c.b[i]]

(* gap::push.  (Fault: the gap that was there is not closed first.) *)
PushOver(c, count) == [c EXCEPT !.s = @ + count, !.end = c.s + count, !.size = @ + count]
Push(c, count) ==
  [c EXCEPT !.b = IF c.end # 0 THEN Flush(c) ELSE @,
            !.s = @ + count, !.end = c.s + count, !.size = @ + count]

Put(c, text) == [c EXCEPT !.b = [i \in DOMAIN c.b |-> IF i \in c.s .. c.s + Len(text) - 1
                                                      THEN text[i - c.s + 1] ELSE c.b[i]],
                          !.s = @ + Len(text)]

------------------------------------------------------------------------------
Entities == { <<<<97, 109, 112, SEMI>>, AMP>>,        \* amp;
              <<<<97, 112, 111, 115, SEMI>>, APOS>>,  \* apos;
              <<<<103, 116, SEMI>>, GT>>,             \* gt;
              <<<<108, 116, SEMI>>, LT>>,             \* lt;
              <<<<113, 117, 111, 116, SEMI>>, QUOT>> } \* quot;

Hex == Digits \cup (65 .. 70) \cup (97 .. 102)

DigitValue(ch) == IF ch \in Digits THEN ch - 48 ELSE IF ch < 97 THEN ch - 55 ELSE ch - 87

Number(digits, base) == FoldLeft(LAMBDA n, ch : n * base + DigitValue(ch), 0, digits)

(* The text that ends before position stop is replaced from c.s on. *)
Replaced(c, text, stop) == LET d == Put(c, text) IN Push(d, stop - d.s)

(* strconv_escape: a reference becomes the character it stands for; what   *)
(* is none is left as far as it was read.                                  *)
EscapeNumber(c) ==
  LET hex   == At(c.b, c.s + 2) = 120
      from  == IF hex THEN c.s + 3 ELSE c.s + 2
      stop  == First(c.b, from, LAMBDA j : c.b[j] \notin (IF hex THEN Hex ELSE Digits))
      value == Number(SubSeq(c.b, from, stop - 1), IF hex THEN 16 ELSE 10)
  IN  IF stop > from /\ At(c.b, stop) = SEMI
      THEN Replaced(c, Utf8Write(AnyOf(value)), stop + 1)
      ELSE [c EXCEPT !.s = stop]

EscapeName(c) ==
  LET name(j) == SubSeq(c.b, c.s + 1, j)
      stop    == First(c.b, c.s + 1, LAMBDA j : ~\E e \in Entities : IsStrictPrefix(name(j), e[1]))
      named   == {e \in Entities : e[1] = name(stop)}
  IN  IF named # {} THEN Replaced(c, <<(CHOOSE e \in named : TRUE)[2]>>, stop + 1)
      ELSE [c EXCEPT !.s = stop]

Escape(c) == IF At(c.b, c.s + 1) = HASH THEN EscapeNumber(c) ELSE EscapeName(c)

------------------------------------------------------------------------------
(* How a piece of text is converted: m = [what, last, quote, endch, eol,   *)
(* escapes].  endch is the last character of the text, whose place NUL     *)
(* took in the buffer.                                                     *)
Modes == {"comment", "cdata", "text", "wnorm", "wconv", "eol", "simple"}

(* ENDSWITH *)
EndsWith(ch, e, endch) == ch = e \/ (ch = NUL /\ endch = e)

Stops(m) == CASE m.what = "comment" -> StopsComment
              [] m.what = "cdata"   -> StopsCdata
              [] m.what = "text"    -> StopsText
              [] m.what = "wnorm"   -> StopsAttributeW \cup Space
              [] m.what = "wconv"   -> StopsAttributeW
              [] OTHER              -> StopsAttribute

AtEnd(c, m) ==
  CASE m.what \in {"comment", "cdata"} ->
         LET mark == IF m.what = "comment" THEN DASH ELSE RBR
         IN  /\ At(c.b, c.s) = mark /\ At(c.b, c.s + 1) = mark
             /\ EndsWith(At(c.b, c.s + 2), GT, m.endch)
    [] m.what = "text" -> At(c.b, c.s) = LT
    [] OTHER -> At(c.b, c.s) = m.quote

(* A line ending, or a space in an attribute, becomes one character.       *)
Spaces(c, m) ==
  LET d == Put(c, <<IF m.what \in {"wnorm", "wconv"} THEN SP ELSE LF>>)
      stop == First(d.b, d.s, LAMBDA j : d.b[j] \notin Space)
  IN  IF m.what = "wnorm" THEN (IF stop > d.s THEN Push(d, stop - d.s) ELSE d)
      ELSE IF At(c.b, c.s) = CR /\ At(d.b, d.s) = LF THEN Push(d, 1) ELSE d

(* The end of the text is marked by NUL; wnorm takes the spaces before it  *)
(* off, and the conversion goes on after the end.                          *)
Terminated(c, m) ==
  LET b    == IF c.end # 0 THEN Flush(c) ELSE c.b
      e    == c.s - c.size
      from == IF m.what # "wnorm" THEN e
              ELSE CHOOSE k \in 1 .. e : /\ \A i \in k .. e - 1 : b[i] \in Space
                                         /\ k = 1 \/ b[k - 1] \notin Space
  IN  [b  |-> [i \in DOMAIN b |-> IF i \in from .. e THEN NUL ELSE b[i]],
       s  |-> c.s + (CASE m.what = "comment" -> (IF At(b, c.s + 2) = GT THEN 3 ELSE 2)
                       [] OTHER -> 1),
       ok |-> TRUE]

(* At the next character that is looked at: what is done to it, and the    *)
(* rest.                                                                   *)
RECURSIVE ScanAt(_, _, _)
Scan(c, m) ==
  LET s == First(c.b, c.s, LAMBDA j : c.b[j] \in Stops(m))
  IN  ScanAt([c EXCEPT !.s = s], At(c.b, s), m)
ScanAt(c, ch, m) ==
  CASE AtEnd(c, m) -> Terminated(c, m)
    [] ch = NUL    -> [b |-> c.b, s |-> c.s, ok |-> FALSE]
    [] OTHER       -> Scan(CASE \/ ch = CR /\ m.eol
                                \/ ch \in Space /\ m.what \in {"wnorm", "wconv"} -> Spaces(c, m)
                             [] ch = AMP /\ m.escapes -> Escape(c)
                             [] OTHER -> [c EXCEPT !.s = @ + 1], m)

(* strconv_comment, strconv_cdata, strconv_pcdata_impl::parse and          *)
(* strconv_attribute_impl::parse_...: wnorm drops the spaces in front.     *)
Convert(b, s, m) ==
  LET c    == Start(b, s)
      stop == First(b, s, LAMBDA j : b[j] \notin Space)
  IN  Scan(IF m.what = "wnorm" /\ stop > s THEN Push(c, stop - s) ELSE c, m)
==============================================================================
