SPECIFICATION FairSpec
CONSTANTS
  MaxResults = 2
  ScanTimeout = 2
  MaxScans = 3
INVARIANTS
  Agreement
  ResultsAreOfLastScan
PROPERTIES
  ScanReturns
