------------------------------- MODULE XmlChars -------------------------------
(***************************************************************************)
(* The bytes the XML code tells apart, and its classes of them             *)
(* (pugixml.cpp: chartype_table, chartypex_table).                         *)
(***************************************************************************)
EXTENDS Integers

NUL == 0
TAB == 9
LF == 10
CR == 13
SP == 32
BANG == 33
QUOT == 34
HASH == 35
AMP == 38
APOS == 39
DASH == 45
DOT == 46
SLASH == 47
COLON == 58
SEMI == 59
LT == 60
EQ == 61
GT == 62
QUEST == 63
LBR == 91
RBR == 93

Digits == 48 .. 57

(* chartype_table *)
Space       == {TAB, LF, CR, SP}
StartSymbol == (65 .. 90) \cup (97 .. 122) \cup (128 .. 255) \cup {COLON, 95}
Symbol      == StartSymbol \cup Digits \cup {DASH, DOT}

(* Where the scans of text, attributes, CDATA and comments stop to look.   *)
StopsText       == {NUL, AMP, CR, LT}
StopsAttribute  == {NUL, AMP, CR, APOS, QUOT}
StopsAttributeW == StopsAttribute \cup {LF, TAB}
StopsCdata      == {NUL, RBR, GT, CR}
StopsComment    == {NUL, DASH, GT, CR}

(* chartypex_table: what the writer cannot write as it is.                 *)
SpecialText      == ((0 .. 31) \ {TAB, LF, CR}) \cup {AMP, LT, GT}
SpecialAttribute == ((0 .. 31) \ {TAB}) \cup {AMP, LT, GT, QUOT}
==============================================================================
