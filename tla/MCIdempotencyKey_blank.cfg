SPECIFICATION KeySpec
CONSTANTS
  Keys = {k1, k2}
  Absent = Absent
  Empty = Empty
  TooLong = TooLong
  Malformed = Malformed
INVARIANTS
  BodyKeySuffices
CHECK_DEADLOCK FALSE
