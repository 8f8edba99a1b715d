CONSTANTS
  Policies = {p, q}
  Blank = Blank
  Forms = {e}
  Clicks = {c}
  MaxWrites = 1
  MaxReloads = 1
SPECIFICATION FairSpec
INVARIANTS
  CurrentUnlessOverlapped
PROPERTIES
  AcknowledgedStays
  NothingHangs
