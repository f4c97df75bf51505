SPECIFICATION Spec
CONSTRAINT OneMishap
CONSTANTS
  MaxProcesses = 2
  MaxGenerations = 2
  MaxLeases = 2
  MaxFaults = 1
  MaxCrashes = 1
  FaultyCalls <- AllCalls
INVARIANTS TypeOK ChildProtected CollectedFromOneProcess OneChildPerProcess
PROPERTIES OnlyFencedKilled IntentKept
