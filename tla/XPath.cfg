\* Documents of three parsed items and one edit; chains of three operators;
\* arrays of eight of three values, which are divided down to single elements,
\* and blocks that a few strings fill.
SPECIFICATION Spec
CONSTANTS
  Parsed <- MCParsed
  MaxItems = 4
  InsertedItems <- MCInserted
  MaxEdits = 1
  Queries <- MCQueries
  SourceQueries <- MCSourceQueries
  VariableQueries <- MCVariableQueries
  ChainOperators <- MCChainOperators
  MaxChain = 3
  Elements = {1, 2, 3}
  Less <- MCLess
  MaxArray = 8
  SmallSort = 1
  SmallMedian = 6
  BlockCapacity = 64
  Word = 8
INVARIANTS DocumentOrderIsRight SortSorts PrecedenceIsRight MemoryIsInOrder
  AnswersAreXPath SetsKeepTheirOrder
CHECK_DEADLOCK FALSE
