SPECIFICATION RemoteSpec
CONSTANTS
  MaxManagers = 2
  MaxCalls = 2
  MaxReplies = 2
  Nodes = {n1, n2}
  MaxMessages = 1
  MaxLog = 3
  MaxSize = 1
  SavesFail = TRUE
INVARIANTS
  CallOwnReply
  
  
PROPERTY ReplyArrives
CHECK_DEADLOCK FALSE
