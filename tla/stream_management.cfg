SPECIFICATION Spec
CONSTANTS
  Modulus = 3
  RequestAfter = 2
  MaxSent = 3
  MaxReceived = 2
  MaxConnects = 3
INVARIANTS TypeOK OnlyHandledReported ReportedInOrder LedgerBalances ReceivedOnce NothingForgotten
CHECK_DEADLOCK FALSE
