---------------------------- MODULE MCXmlMemory ----------------------------
(* Instances of XmlMemory for TLC. *)
EXTENDS XmlMemory, TLC

CONSTANTS object1, object2, object3, page1, page2, page3

Interchangeable == Permutations(Objects) \cup Permutations(Pages)
==============================================================================
