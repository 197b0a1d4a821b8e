\* Documents of five tokens, pieces of text of four, five bytes, trees of three
\* nodes, two parameters, integers of up to eight bytes; a buffer of six characters.
SPECIFICATION Spec
CONSTANTS
  Tokens <- MCTokens
  Most <- MCMost
  NodeValues <- MCNodeValues
  ParameterNames <- MCParameterNames
  ParameterValues <- MCParameterValues
  BufCapacity = 6
INVARIANTS LastCharacterIsSeen ScanStaysInside InPlaceIsPlain SavedDocumentLoadsBack
  ConversionsAreSound WritingIsUnderstood
CHECK_DEADLOCK FALSE
