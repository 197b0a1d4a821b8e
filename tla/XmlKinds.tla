------------------------------ MODULE XmlKinds ------------------------------
(* The kinds of nodes of a pugi::xml_document, and what each may have. *)

CONSTANT Nil  \* the null pointer, and the type of no node (node_null)

Kinds == {"document", "element", "pcdata", "cdata", "comment", "pi", "declaration",
          "doctype"}

(* allow_insert_child *)
AllowInsertChild(parent, child) ==
  /\ parent \in {"document", "element"}
  /\ child \in Kinds \ {"document"}
  /\ parent # "document" => child \notin {"declaration", "doctype"}

HasAttributes(k) == k \in {"element", "declaration"}
HasName(k)       == k \in {"pi", "declaration", "element"}
HasValue(k)      == k \in {"pi", "cdata", "pcdata", "comment", "doctype"}

(* append_child and its like name a new declaration. *)
NewName(k) == IF k = "declaration" THEN "xml" ELSE Nil
==============================================================================
