\* Two attributes and four nodes: a node with a child can be copied into itself.
SPECIFICATION DocumentSpec
CONSTANTS
  document = document
  node1 = node1
  node2 = node2
  node3 = node3
  node4 = node4
  attr1 = attr1
  attr2 = attr2
  Nodes = {document, node1, node2, node3, node4}
  Attrs = {attr1, attr2}
  Document = document
  NewKinds = {"element"}
  Strings = {"s"}
  Nil = Nil
INVARIANTS TypeOK ListsAreRings WalksAreComplete
PROPERTIES TreeOperations CopiesAreFaithful
SYMMETRY Interchangeable
