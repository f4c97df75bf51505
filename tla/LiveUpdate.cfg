CONSTANTS
    Callers = {worker, watchdog}
    Stall = 2
    Gap = 1
    MaxVersions = 2
    MaxUpdaters = 2
    MaxChanges = 3
    MaxFaults = 1
SPECIFICATION FairSpec
PROPERTIES KilledWasSilent ArchivedWasDead NotLaunchedOverUpdate TerminalComesBack
