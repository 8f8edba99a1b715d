SPECIFICATION Spec
CONSTANTS
  a = a
  b = b
  Payloads <- MCPayloads
  MaxEvents = 3
  MaxEdits = 2
  Contract <- MCContract
  Inputs <- MCInputs
SYMMETRY PayloadSymmetry
INVARIANTS
  KeptHeadBinds
  OneChangeIsLocated
  GuardsKeepWhatWasSeen
PROPERTIES
  FaultsStayFound
CHECK_DEADLOCK FALSE
