SPECIFICATION Spec
CONSTANTS
  MaxMessages = 3
  Ids = {1, 2, 3}
  IdOf <- UniqueId
  k1 = k1
  Keys = {k1}
  NoKey = NoKey
  KeyOf <- MCKeyOf
  Hash <- MCHash
  Consumers = {c1, c2}
  NoConsumer = NoConsumer
  MaxSize = 2
  FailurePolicy = "dlq"
  MaxRetries = 2
  RestoredAttempts = {1}
  RestoredHidden = {FALSE}
  MaxAttempt = 2
INVARIANTS
  AcceptedNotLost
  OnePlace
  KeyAffinity
PROPERTY ImplementsContract
SYMMETRY ConsumerSymmetry
