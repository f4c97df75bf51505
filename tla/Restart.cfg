SPECIFICATION Spec
CONSTANTS
  s1 = s1
  s2 = s2
  worker = worker
  watchdog = watchdog
  Slots = {s1, s2}
  Callers = {worker, watchdog}
  Global = 1
  PerSlot = 2
  Grace = 2
  MaxClock = 2
  MaxProcesses = 2
CONSTRAINT FewProcesses
SYMMETRY Symmetry
INVARIANTS Spaced OneAttemptPerProcess LaunchesSpaced
PROPERTIES StoppedWasRecorded ImplementsThrottle
