------------------------------- MODULE MCTexts -------------------------------
(* Instances of Texts for TLC. *)
EXTENDS Texts, TLC

MCTokens ==
  [tags   |-> { <<LT>>, <<GT>>, <<SLASH>>, NodeA, <<SP>>, <<EQ, QUOT>>, <<QUOT>>, <<LT>> \o NodeA,
                <<LT, SLASH>> },
   markup |-> { <<LT, BANG>>, <<LBR>> \o CdataMark, <<RBR, RBR>>, <<LT, BANG, DASH, DASH>>,
                <<DASH, DASH, GT>>, <<LT, BANG>> \o DoctypeMark \o <<69>>, <<GT>>,
                <<LT, QUEST, 120, 109, 108>>, <<QUEST>>, <<LT>> \o NodeA },
   \* Escapes whole and broken, line ends and spaces.
   piece  |-> { <<97>>, <<AMP>>, Reference(LT), <<AMP, HASH, 120>>,
                <<AMP, HASH>>, <<49>>, <<48>>, <<SEMI>>, <<CR>>, <<LF>>, <<SP>> },
   \* A letter, starts of characters of two to four bytes, bytes that go on.
   bytes  |-> { <<97>>, <<195>>, <<226>>, <<240>>, <<159>>, <<169>> },
   integer |-> { <<1>>, <<200>> }]

MCMost == [tags |-> 5, markup |-> 5, piece |-> 4, bytes |-> 5, tree |-> 3, map |-> 2,
           integer |-> 8]

MCNodeValues == { <<AMP, LT, LF>>, <<RBR, RBR, GT>>, <<QUOT, 240, 159, 152, 128, 1>> }

MCParameterNames == { <<97>>, <<98>>, <<65>> }
MCParameterValues == { <<>>, <<97>>, <<EQ, AMP>>, <<SP, 200>>, <<LT, 1>> }
==============================================================================
