SPECIFICATION RetrySpec
CONSTANTS
  k1 = k1
  k2 = k2
  r1 = r1
  r2 = r2
  r3 = r3
  None = None
  Contract <- MCContract
  Inputs <- MCInputs
  Requests = {r1, r2}
  MaxFaults = 2
PROPERTIES
  EveryRequestAnswered
  RetriesSettle
