SPECIFICATION FairSpec
CONSTANTS
  MaxMessages = 2
  Ids = {1, 2}
  IdOf <- UniqueId
  k1 = k1
  Keys = {k1}
  NoKey = NoKey
  KeyOf <- FirstKeyed
  Hash <- MCHash
  Consumers = {c1, c2}
  NoConsumer = NoConsumer
  MaxSize = 0
  FailurePolicy = "infinite"
  MaxRetries = 1
  RestoredAttempts = {1}
  RestoredHidden = {TRUE}
  MaxAttempt = 2
PROPERTIES
  PendingDelivered
  ExpiredRequeued
