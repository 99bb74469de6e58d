CONSTANTS
  a = a
  b = b
  c = c
  Splits = 2
  Anno <- AnnoShort
  ProcCounts = {1, 2}
  MaxReports = 2
  MaxFaults = 1
  Entries <- MCEntries
  Limit = 3
  OldLimit = 2
  MaxLaunches = 3
SPECIFICATION MCSpec
INVARIANTS TypeOK NoDuplicateRows MarkerHonest ReportComplete ReportCountsOnce RerunReproduces
INVARIANTS OneRecordPerKey FoundIsAsked ReportHonest
PROPERTIES OvoEventuallyReported BenchEventuallyScored
