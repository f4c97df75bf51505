SPECIFICATION Spec
CONSTANTS
  Remaining = {0, 39, 40, 41, 159, 161}
  MaxRun = 125
  Reserve = 35
  MinLeft = 40
  Beat = 20
  CallMax = 38
  HttpTimeout = 10
  RetryAfter = 4
INVARIANTS ChildEndsInTime ReportedInLease HeartbeatsGoOn
