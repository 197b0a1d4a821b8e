SPECIFICATION Safety
CONSTANTS
  Finds = {f1}
  MaxReplies = 1
  Replies <- FriendlyReplies
  Documents <- RelativeDocuments
  NoDevice = NoDevice
  Room = 2
INVARIANT MethodsReachDevice
