SPECIFICATION FairSpec
CONSTANTS
  MaxProcesses = 2
  MaxGenerations = 6
  MaxReports = 2
  MaxClaims = 0
  MaxFaults = 3
  MaxCrashes = 0
PROPERTIES ProcessIsPublished
