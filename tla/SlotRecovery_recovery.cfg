SPECIFICATION RecoverySpec
CONSTRAINTS Unread Unexhausted CrashWhileFenced
CONSTANTS
  MaxProcesses = 2
  MaxGenerations = 2
  MaxLeases = 1
  MaxFaults = 0
  MaxCrashes = 1
  FaultyCalls <- NoCalls
PROPERTIES QuarantineEnds
