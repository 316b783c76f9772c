SPECIFICATION FairSpec
CONSTANTS
  MaxMessages = 3
  Members = {a, b}
  NoMember = NoMember
  MaxMembers = 1
  FailurePolicy = "infinite"
  MaxRetries = 1
  AttemptCap = 1

  
  
PROPERTIES
  GroupImplementsContract
  GroupPendingDelivered
  SilentReaped
