\* A server that never answers stops everything, hence CHECK_DEADLOCK.
SPECIFICATION Spec
CONSTANTS
  Finds = {f1, f2}
  MaxReplies = 3
  Replies <- FaultyReplies
  Documents <- FaultyDocuments
  NoDevice = NoDevice
  Room = 2
INVARIANT TypeOK
INVARIANT EveryFindAccounted
INVARIANT ReceivesBehindUnread
INVARIANT CleanBuffer
PROPERTY PromiseKept
PROPERTY StopEndsFinds
PROPERTY SearchGoesOn
CHECK_DEADLOCK FALSE
