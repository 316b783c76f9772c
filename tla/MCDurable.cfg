SPECIFICATION Spec
CONSTANTS
  MaxMessages = 3
  k1 = k1
  IdKeys = {k1}
  NoKey = NoKey
  KeyOf <- KeyFrom2
  MaxLevel = 1
  MaxSize = 2
  FailurePolicy = "drop"
  InitialDead = {}
  Ops = {"crash", "fault", "reject"}
INVARIANTS
  AcceptedRecoverable
  SettledGone
  MemoryBacked
CHECK_DEADLOCK FALSE
