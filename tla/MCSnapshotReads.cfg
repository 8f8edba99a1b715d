SPECIFICATION ReadsSpec
CONSTANTS
  k1 = k1
  k2 = k2
  Contract <- MCContract
  Inputs <- MCInputs
  ReplayCounts = {0, 1}
  Connections = {"c1"}
  Reads <- MCReads
INVARIANTS
  ReceivableIsOpenBalance
  OpenDocumentsCoverBalance
  PremiumFollowsHistory
  EffectsTiedToKeys
  ExternalPaymentOnce
  ReportsAddUp
  ReportsFindNoFault
  ReportsAreFresh
  LabelsTruthful
PROPERTIES
  NothingIsRewritten
CHECK_DEADLOCK FALSE
