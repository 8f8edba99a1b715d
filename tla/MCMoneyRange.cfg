CONSTANTS
  SafeBits = 2
  BigintBits = 3
  Limit = 3
  Requested = {0, 2, 3, 4}
  YearDays = 2
  Times = {1, 2, 3}
  MaxWrites = 5
SPECIFICATION RangeSpec
CHECK_DEADLOCK FALSE
INVARIANTS
  DecisionsAreExact
  BooksStayReadable
  LedgerFoundBalanced
