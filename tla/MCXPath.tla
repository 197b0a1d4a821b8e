------------------------------- MODULE MCXPath -------------------------------
(* Instances of XPath for TLC. *)
EXTENDS XPath

\* The comparison of the arrays; one element is less than itself.
MCLess == {<<1, 2>>, <<1, 3>>, <<2, 3>>, <<2, 2>>}

Item(kind, name, value) == [kind |-> kind, name |-> name, value |-> value]

MCParsed == { Item("element", "a", ""), Item("element", "b", ""), Item("attribute", "k", "1"),
              Item("pcdata", "", "2") }
MCInserted == { Item("element", "b", ""), Item("attribute", "xml:lang", "2") }

MCSourceQueries == { "ancestor::node()", "a | b" }

\* Every axis, every node test, every type of operand and every function.
MCQueries == MCSourceQueries \cup
  { "//b", "//*[2]", "//a[last()]/following::*", "*/preceding::node()", "//@*/ancestor-or-self::node()",
    "/descendant::node()[position() != 2]", "(//a | //b/..)[2]", "(preceding-sibling::* | following-sibling::*)[1]",
    "*/descendant-or-self::a", "@k/following::node()", "//text()/..", ".//@k[. = 1]/../text()",
    "count(//*) + sum(//text()) * 2", "//a = //b", "//@k < //text()", "a != b or not(@k)",
    "//text() > 1 and //@xml:* >= '2'", "concat('x', //a, name(*), true(), -count(.), '')",
    "substring(concat(., '345'), 2, 2)", "substring-after(concat(//text(), '-5'), '-')",
    "substring-before(., '2') = normalize-space(' ')", "translate(string(//@*), '12', 'x')",
    "string-length(.) = count(//a) or starts-with(name(), 'a')", "*[contains(., '2')]/self::a",
    "number(.) mod 2 - 6 div 3", "id('a') | self::node()", "string-length(//text())",
    "//@*[not(. = ../text())]", "(//a)[last()]/preceding-sibling::*[1]/@k", "a//b[position() = last()]",
    "local-name(//@*[2]) = 'lang' or namespace-uri(*) != '' or lang('2')", "string(//@k = '1')",
    "//comment() | //processing-instruction('a')", "sum(//@k) >= round(1.0) + floor(-1)",
    "*/following-sibling::*[1]/ancestor::*[1]", "//*[@k or text()][2]" }

MCVariableQueries ==
  { "$v", "$v[1]", "$v | //b", "$v/..", "$v + 1", "//*[$v]", "$v = 2" }

MCChainOperators == { "or", "and", "=", "<", "-", "+", "*", "div" }
==============================================================================
