SPECIFICATION FairSpec
CONSTANTS
  r1 = r1
  r2 = r2
  r3 = r3
  Replicas = {r1, r2, r3}
  None = None
  NoPolicy = NoPolicy
  Files <- MCFiles
  Shipped <- MCShipped
  SeedPremium = 1
  Premiums = {1, 2}
  MaxFailures = 2
INVARIANTS
  AppliedOnceInOrder
  ServesMigrated
  SeedKeepsEndorsements
PROPERTIES
  StartEnds
