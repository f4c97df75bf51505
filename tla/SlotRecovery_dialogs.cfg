SPECIFICATION Spec
CONSTRAINT CrashOrphans
CONSTANTS
  MaxProcesses = 2
  MaxGenerations = 3
  MaxLeases = 2
  MaxFaults = 0
  MaxCrashes = 1
  FaultyCalls <- NoCalls
INVARIANTS NoDialogsDuringChild
