SPECIFICATION Spec
CONSTANTS
  Terms <- MCTerms
  Zones <- MCEasternZones
  Days <- MCDays
  Premiums <- MCPremiums
  MaxEndorsements = 3
INVARIANTS
  TermEndIsExclusive
