SPECIFICATION FairSpec
CONSTANTS
  MaxProcesses = 3
  MaxGenerations = 6
  MaxReports = 3
  MaxClaims = 2
  MaxFaults = 2
  MaxCrashes = 1
INVARIANTS LeaseIsHeld PublishedIsRegistered
PROPERTIES NoOldNews ProcessIsPublished
CONSTRAINT OneMishap
