SPECIFICATION Spec
CONSTANTS
  MaxMessages = 2
  Members = {a, b}
  NoMember = NoMember
  MaxMembers = 2
  FailurePolicy = "dlq"
  MaxRetries = 2
  AttemptCap = 2
INVARIANT GroupNotLost
CHECK_DEADLOCK FALSE
