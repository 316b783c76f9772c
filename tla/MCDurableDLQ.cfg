SPECIFICATION Spec
CONSTANTS
  MaxMessages = 2
  k1 = k1
  IdKeys = {k1}
  NoKey = NoKey
  KeyOf <- SameKey
  MaxLevel = 1
  MaxSize = 1
  FailurePolicy = "dlq"
  InitialDead = {}
  Ops = {"fault", "reject", "purge", "retry"}
INVARIANTS
  StoredIsFound
  OncePerKey
CHECK_DEADLOCK FALSE
