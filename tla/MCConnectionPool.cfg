SPECIFICATION FairSpec
CONSTANTS
  w1 = w1
  w2 = w2
  read = read
  ping = ping
  Clients = {w1, w2, read, ping}
  Kind <- MCKind
  PoolMax = 2
  None = None
  Outsider = Outsider
  MaxLosses = 2
INVARIANTS
  FailuresHaveCause
  PoolNeverStarvesItself
PROPERTIES
  EveryRequestServed
