\* Every tool, at the balance it needs and one fee less.
SPECIFICATION Spec
CONSTANTS
  Rent = 3
  AssociatedRent = 10
  MetadataRent = 3
  CreateFee = 1
  U64 = 1000
  CommandLines <- Lines
  Purses = {25, 26, 28, 29, 32, 33, 34, 36, 37, 39, 40, 41, 43, 44}
  VerifyRetries = 2
  InvokeAttempts = 2
  Recipients = 6
CHECK_DEADLOCK FALSE
INVARIANTS SubmissionsAccounted ReportIsTrue ReserveSuffices
PROPERTIES RunEnds
