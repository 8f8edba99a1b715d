SPECIFICATION Spec
CONSTANTS
  Terms <- MCTerms
  Zones <- MCZones
  Days <- MCDays
  Premiums <- MCPremiums
  MaxEndorsements = 3
INVARIANTS
  RoundingNeverDrifts
  ReversalNetsToZero
  NeverMoreThanAnnual
  TermEndIsExclusive
