SPECIFICATION Spec
CONSTANTS
  object1 = object1
  object2 = object2
  object3 = object3
  page1 = page1
  page2 = page2
  page3 = page3
  Objects = {object1, object2, object3}
  Pages = {page1, page2, page3}
  Sentinel = Sentinel
  Nil = Nil
  PageSize = 4
  ObjectSize = 1
  Lengths = {1, 2, 5, 6}
  ParsedLengths = {2}
  ReuseBelow = 2
  MaxFullSize = 6
INVARIANTS TypeOK BlocksAreSafe CountersAgree ListIsSound
SYMMETRY Interchangeable
