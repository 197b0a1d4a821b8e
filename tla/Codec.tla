-------------------------------- MODULE Codec --------------------------------
(***************************************************************************)
(* The texts and bytes shoryu writes and reads itself: encoding.cpp,       *)
(* parameter_map.cpp, the body of a upnp_request (upnp_request.cpp) and    *)
(* the integers of binary_mode.hpp.  A text is the sequence of its bytes.  *)
(***************************************************************************)
EXTENDS XmlChars, Sequences, SequencesExt

PERCENT == 37

Alnum  == Digits \cup (65 .. 90) \cup (97 .. 122)
Xdigit == Digits \cup (65 .. 70) \cup (97 .. 102)

HexDigit(n) == IF n < 10 THEN 48 + n ELSE 55 + n
HexValue(ch) == IF ch \in Digits THEN ch - 48 ELSE IF ch < 97 THEN ch - 55 ELSE ch - 87

Percent(ch) == <<PERCENT, HexDigit(ch \div 16), HexDigit(ch % 16)>>

Urlencode(text) ==
  FlattenSeq([i \in DOMAIN text |-> IF text[i] \in Alnum THEN <<text[i]>> ELSE Percent(text[i])])

RECURSIVE Urldecode(_)
Urldecode(text) ==
  IF text = <<>> THEN <<>>
  ELSE IF Len(text) > 2 /\ Head(text) = PERCENT /\ text[2] \in Xdigit /\ text[3] \in Xdigit
       THEN <<16 * HexValue(text[2]) + HexValue(text[3])>> \o Urldecode(SubSeq(text, 4, Len(text)))
  ELSE <<Head(text)>> \o Urldecode(Tail(text))

------------------------------------------------------------------------------
(* parameter_map: the pairs in the order they are iterated.  Names differ  *)
(* by more than their case.                                                *)
Upper(name) == [i \in DOMAIN name |-> IF name[i] \in 97 .. 122 THEN name[i] - 32 ELSE name[i]]

SameName(n1, n2) == Upper(n1) = Upper(n2)

(* insert: a name that is there keeps its value. *)
Inserted(map, pair) ==
  IF \E i \in DOMAIN map : SameName(map[i][1], pair[1]) THEN map ELSE Append(map, pair)

(* operator<<: the values are encoded, the names are not. *)
WriteMap(map) ==
  FlattenSeq([i \in DOMAIN map |->
    map[i][1] \o <<EQ>> \o Urlencode(map[i][2]) \o (IF i < Len(map) THEN <<AMP>> ELSE <<>>)])

Separators == {EQ, QUEST, AMP}

(* operator>>: a word is read, and every name=value in it kept as it is; a *)
(* word without one, or no word at all, fails and leaves the map alone.    *)
Run(text, i) == LET ends == {j \in i .. Len(text) : text[j] \in Separators}
                IN  IF ends = {} THEN Len(text) + 1 ELSE CHOOSE j \in ends : \A k \in ends : j <= k

RECURSIVE Pairs(_, _)
Pairs(text, i) ==
  LET e == Run(text, i)
      v == Run(text, e + 1)
  IN  IF e > Len(text) THEN <<>>
      ELSE IF e = i \/ text[e] # EQ THEN Pairs(text, e + 1)
      ELSE << <<SubSeq(text, i, e - 1), SubSeq(text, e + 1, v - 1)>> >> \o Pairs(text, v)

Word(text) ==
  LET rest == SelectInSeq(text, LAMBDA ch : ch \notin Space)
      word == IF rest = 0 THEN <<>> ELSE SubSeq(text, rest, Len(text))
      stop == SelectInSeq(word, LAMBDA ch : ch \in Space)
  IN  IF stop = 0 THEN word ELSE SubSeq(word, 1, stop - 1)

ReadMap(text, map) ==
  LET pairs == Pairs(Word(text), 1)
  IN  IF pairs = <<>> THEN [map |-> map, fail |-> TRUE]
      ELSE [map |-> FoldLeft(Inserted, <<>>, pairs), fail |-> FALSE]

------------------------------------------------------------------------------
(* upnp_request: the body, with its names shortened: e:E is the envelope,  *)
(* e:B its body.                                                           *)
TagOf(name)  == <<LT>> \o name \o <<GT>>
EndOf(name)  == <<LT, SLASH>> \o name \o <<GT>>
Envelope     == <<101, COLON, 69>>
EnvelopeBody == <<101, COLON, 66>>
Line         == <<CR, LF>>

(* Fault: a value is written like that of a parameter_map. *)
ItemEncoded(p) == TagOf(p[1]) \o Urlencode(p[2]) \o EndOf(p[1]) \o Line
Item(p) == TagOf(p[1]) \o p[2] \o EndOf(p[1]) \o Line

SoapBody(action, params) ==
  LET service == <<115, COLON>> \o action
  IN  TagOf(Envelope) \o Line \o TagOf(EnvelopeBody) \o Line
        \o <<LT>> \o service \o <<SP, 120, EQ, QUOT, 117, QUOT, GT>> \o Line
        \o FlattenSeq([i \in DOMAIN params |-> Item(params[i])])
        \o EndOf(service) \o Line \o EndOf(EnvelopeBody) \o Line \o EndOf(Envelope) \o Line

------------------------------------------------------------------------------
(* binary_mode: an integer in memory is the sequence of its bytes, lowest  *)
(* first; reorder swaps halves, then the halves of these.                  *)
SwapPairs(x, w) ==
  [i \in DOMAIN x |-> x[IF ((i - 1) \div w) % 2 = 0 THEN i + w ELSE i - w]]

(* Fault: the bytes of the pairs of a long integer are not swapped. *)
ReorderTwice(x) == CASE Len(x) = 1 -> x
                     [] Len(x) = 2 -> SwapPairs(x, 1)
                     [] Len(x) = 4 -> SwapPairs(SwapPairs(x, 2), 1)
                     [] Len(x) = 8 -> SwapPairs(SwapPairs(x, 4), 2)

Reorder(x) == CASE Len(x) = 1 -> x
                [] Len(x) = 2 -> SwapPairs(x, 1)
                [] Len(x) = 4 -> SwapPairs(SwapPairs(x, 2), 1)
                [] Len(x) = 8 -> SwapPairs(SwapPairs(SwapPairs(x, 4), 2), 1)

(* bin_ostream and bin_istream: s = [bytes, fail].  An integer that is cut *)
(* short sets fail and is seen by the next call, of either kind, which     *)
(* throws and does nothing; the bytes that were there have been taken into *)
(* it by then, above old ones.                                             *)
PutInteger(s, x) ==
  IF s.fail THEN [stream |-> s, throws |-> TRUE]
  ELSE [stream |-> [s EXCEPT !.bytes = @ \o Reorder(x)], throws |-> FALSE]

GetInteger(s, old) ==
  LET n    == Len(old)
      have == IF Len(s.bytes) < n THEN Len(s.bytes) ELSE n
      read == [i \in 1 .. n |-> IF i <= have THEN s.bytes[i] ELSE old[i]]
  IN  IF s.fail THEN [stream |-> s, value |-> old, throws |-> TRUE]
      ELSE [stream |-> [bytes |-> SubSeq(s.bytes, have + 1, Len(s.bytes)), fail |-> have < n],
            value |-> Reorder(read), throws |-> FALSE]
==============================================================================
