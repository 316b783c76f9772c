SPECIFICATION Spec
CONSTANTS
  MaxMessages = 1
  k1 = k1
  IdKeys = {k1}
  NoKey = NoKey
  KeyOf <- NoKeys
  MaxLevel = 1
  MaxSize = 0
  FailurePolicy = "dlq"
  InitialDead = {}
  Ops = {"crash", "reject"}
INVARIANT AcceptedSomewhere
CHECK_DEADLOCK FALSE
