SPECIFICATION Spec
CONSTANTS
  Domains <- MCDomains
  Providers <- MCProviders
  Distance <- MCDistance
  Exchanges = {"olc", "OLC", "yahoodns", "other"}
  MaxRecords = 2
INVARIANTS
  CsvServed
CHECK_DEADLOCK FALSE
