--------------------------- MODULE MCXmlDocument ----------------------------
(* Instances of XmlDocument for TLC. *)
EXTENDS XmlDocument, TLC

CONSTANTS document, node1, node2, node3, node4, attr1, attr2

Interchangeable == Permutations((Nodes \ {Document})) \cup Permutations(Attrs)
==============================================================================
