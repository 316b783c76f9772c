SPECIFICATION Spec
CONSTANTS
  MaxMessages = 3
  k1 = k1
  IdKeys = {k1}
  NoKey = NoKey
  KeyOf <- NoKeys
  MaxLevel = 1
  MaxSize = 1
  FailurePolicy = "dlq"
  InitialDead = {1, 2}
  Ops = {"crash", "retry"}
INVARIANTS
  AcceptedRecoverable
  AcceptedInMemory
CHECK_DEADLOCK FALSE
