SPECIFICATION Spec
CONSTANTS
  Finds = {f1}
  MaxReplies = 2
  Replies <- FriendlyReplies
  Documents <- PrinterDownDocuments
  NoDevice = NoDevice
  Room = 2
PROPERTY SearchAnswered
