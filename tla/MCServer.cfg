SPECIFICATION ServerSpec
CONSTANTS
  Conns = {a, b}
  Seekers = {a}
  None = None
  MaxSubs = 2
  MaxOtherSubs = 1
  MaxObjects = 2
  MaxMessages = 1
  MaxSize = 1
  AuthRequired = TRUE
  GoConns = {g}
  TsConns = {t}
  Descriptors = {d1, d2}
  Invalid = Invalid
  Payloads = {{d1}}
  Queries = {"extend"}
  Mixes = {{"publish", "register"}, {"publish", "extend", "consume", "settle"}}
  MaxRequests = 3
  MaxPushed = 1
  QNames = {p, q}
  Sought = {q}
  Workers = {v, w}
  MaxAccepted = 1
  MaxHandlers = 2
INVARIANTS
  MembersKnown
  NothingLeftBehind
  
  
  
  
  ResourcesReleased
  ParsedExactly

  
CHECK_DEADLOCK FALSE
