----------------------------- MODULE XmlEncoding -----------------------------
(***************************************************************************)
(* Conversion between UTF-8, in which documents are kept (char_t is char), *)
(* and UTF-16 and UTF-32 (pugixml.cpp: utf8_writer, utf_decoder,           *)
(* convert_buffer), and the guess of an encoding from the first bytes of a *)
(* text.  The machine is little-endian: only the bytes outside it show.    *)
(***************************************************************************)
EXTENDS Integers, Sequences, SequencesExt

Encodings == {"utf8", "utf16_le", "utf16_be", "utf32_le", "utf32_be"}

Width(enc) == CASE enc = "utf8" -> 1
                [] enc \in {"utf16_le", "utf16_be"} -> 2
                [] OTHER -> 4

BigEndian(enc) == enc \in {"utf16_be", "utf32_be"}

(* The code units of a text, an incomplete one at the end left out         *)
(* (endian_swap where it is not little-endian), and their bytes.           *)
Units(enc, bytes) ==
  LET w == Width(enc)
  IN  [i \in 1 .. Len(bytes) \div w |->
         LET at(k) == bytes[w * (i - 1) + (IF BigEndian(enc) THEN w + 1 - k ELSE k)]
         IN  CASE w = 1 -> at(1)
               [] w = 2 -> at(1) + 256 * at(2)
               [] OTHER -> at(1) + 256 * at(2) + 65536 * at(3) + 16777216 * at(4)]

UnitBytes(enc, u) ==
  LET little == [k \in 1 .. Width(enc) |-> (u \div (CASE k = 1 -> 1 [] k = 2 -> 256
                                                      [] k = 3 -> 65536 [] OTHER -> 16777216)) % 256]
  IN  IF BigEndian(enc) THEN Reverse(little) ELSE little

Bytes(enc, units) == FlattenSeq([i \in DOMAIN units |-> UnitBytes(enc, units[i])])

------------------------------------------------------------------------------
(* What a decoder tells a counter or a writer: Traits::low or ::high.      *)
Low(ch)  == [ch |-> ch, high |-> FALSE]
High(ch) == [ch |-> ch, high |-> TRUE]
AnyOf(ch) == IF ch < 65536 THEN Low(ch) ELSE High(ch)

Continuation == 128 .. 191

(* utf8_counter *)
Utf8Count(c) ==
  IF c.high THEN 4 ELSE IF c.ch < 128 THEN 1 ELSE IF c.ch < 2048 THEN 2 ELSE 3

(* utf8_writer *)
Utf8Write(c) ==
  LET tail(shift) == 128 + ((c.ch \div shift) % 64)
  IN  CASE c.high      -> <<(240 + c.ch \div 262144) % 256, tail(4096), tail(64), tail(1)>>
        [] c.ch < 128  -> <<c.ch>>
        [] c.ch < 2048 -> <<192 + c.ch \div 64, tail(1)>>
        [] OTHER       -> <<224 + c.ch \div 4096, tail(64), tail(1)>>

(* utf16_writer and utf32_writer *)
Utf16Write(c) == IF c.high THEN <<(55296 + (c.ch - 65536) \div 1024) % 65536,
                                  56320 + ((c.ch - 65536) % 1024)>>
                 ELSE <<c.ch>>
Utf32Write(c) == <<c.ch>>

(* decode_utf8_block: what is not UTF-8 is left out, byte by byte.         *)
RECURSIVE DecodeUtf8(_)
DecodeUtf8(d) ==
  IF d = <<>> THEN <<>>
  ELSE LET lead == Head(d)
           after(n) == DecodeUtf8(SubSeq(d, n + 1, Len(d)))
           more(n)  == Len(d) >= n /\ \A i \in 2 .. n : d[i] \in Continuation
           bits(i)  == d[i] - 128
       IN  CASE lead < 128 -> <<Low(lead)>> \o after(1)
             [] lead \in 192 .. 223 /\ more(2) ->
                  <<Low((lead - 192) * 64 + bits(2))>> \o after(2)
             [] lead \in 224 .. 239 /\ more(3) ->
                  <<Low((lead - 224) * 4096 + bits(2) * 64 + bits(3))>> \o after(3)
             [] lead \in 240 .. 247 /\ more(4) ->
                  <<High((lead - 240) * 262144 + bits(2) * 4096 + bits(3) * 64 + bits(4))>>
                    \o after(4)
             [] OTHER -> after(1)

(* decode_utf16_block: a surrogate without its pair is left out.           *)
RECURSIVE DecodeUtf16(_)
DecodeUtf16(u) ==
  IF u = <<>> THEN <<>>
  ELSE IF Head(u) < 55296 \/ Head(u) >= 57344 THEN <<Low(Head(u))>> \o DecodeUtf16(Tail(u))
  ELSE IF Head(u) < 56320 /\ Len(u) > 1 /\ u[2] \in 56320 .. 57343
       THEN <<High(65536 + (Head(u) - 55296) * 1024 + u[2] - 56320)>>
              \o DecodeUtf16(SubSeq(u, 3, Len(u)))
  ELSE DecodeUtf16(Tail(u))

(* decode_utf32_block *)
DecodeUtf32(u) == [i \in DOMAIN u |-> AnyOf(u[i])]

Decode(enc, bytes) == CASE Width(enc) = 1 -> DecodeUtf8(bytes)
                        [] Width(enc) = 2 -> DecodeUtf16(Units(enc, bytes))
                        [] OTHER          -> DecodeUtf32(Units(enc, bytes))

Written(chars, Write(_)) == FlattenSeq([i \in DOMAIN chars |-> Write(chars[i])])

(* convert_buffer on loading: the text in UTF-8, and the room made for it  *)
(* by a first pass.                                                        *)
Converted(enc, bytes) ==
  IF enc = "utf8" THEN bytes ELSE Written(Decode(enc, bytes), Utf8Write)
RoomMade(enc, bytes) ==
  FoldLeft(LAMBDA n, c : n + Utf8Count(c), 0, Decode(enc, bytes))

(* convert_buffer on saving. *)
ConvertedTo(enc, bytes) ==
  CASE Width(enc) = 1 -> bytes
    [] Width(enc) = 2 -> Bytes(enc, Written(DecodeUtf8(bytes), Utf16Write))
    [] OTHER          -> Bytes(enc, Written(DecodeUtf8(bytes), Utf32Write))

------------------------------------------------------------------------------
(* write_bom *)
Bom(enc) == CASE enc = "utf8"     -> <<239, 187, 191>>
              [] enc = "utf16_be" -> <<254, 255>>
              [] enc = "utf16_le" -> <<255, 254>>
              [] enc = "utf32_be" -> <<0, 0, 254, 255>>
              [] enc = "utf32_le" -> <<255, 254, 0, 0>>

(* guess_buffer_encoding: the first rule whose prefix the text has, in the *)
(* order of the code.  (Fault: the shorter marks are looked for first.)    *)
Marks16 == << <<Bom("utf16_be"), "utf16_be">>, <<Bom("utf16_le"), "utf16_le">> >>
Marks32 == << <<Bom("utf32_be"), "utf32_be">>, <<Bom("utf32_le"), "utf32_le">> >>
Starts == << <<Bom("utf8"), "utf8">>,
             <<<<0, 0, 0, 60>>, "utf32_be">>, <<<<60, 0, 0, 0>>, "utf32_le">>,
             <<<<0, 60, 0, 63>>, "utf16_be">>, <<<<60, 0, 63, 0>>, "utf16_le">>,
             <<<<60, 63, 120, 109>>, "utf8">>,
             <<<<0, 60>>, "utf16_be">>, <<<<60, 0>>, "utf16_le">>,
             <<<<>>, "utf8">> >>
RulesShortFirst == Marks16 \o Marks32 \o Starts
Rules == Marks32 \o Marks16 \o Starts

GuessBufferEncoding(bytes) ==
  Rules[CHOOSE i \in DOMAIN Rules :
          /\ IsPrefix(Rules[i][1], bytes)
          /\ \A j \in 1 .. i - 1 : ~IsPrefix(Rules[j][1], bytes)][2]

(* get_buffer_encoding: "utf16" and "utf32" are the machine's, and a text  *)
(* too short for a guess is UTF-8.                                         *)
GetBufferEncoding(enc, bytes) ==
  CASE enc = "utf16" -> "utf16_le"
    [] enc \in {"utf32", "wchar"} -> "utf32_le"
    [] enc = "auto"  -> IF Len(bytes) < 4 THEN "utf8" ELSE GuessBufferEncoding(bytes)
    [] OTHER         -> enc

(* get_write_encoding *)
GetWriteEncoding(enc) == IF enc = "auto" THEN "utf8" ELSE GetBufferEncoding(enc, <<>>)
==============================================================================
