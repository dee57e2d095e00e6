SPECIFICATION Spec
CONSTANTS
  Domains <- MCDomains
  Providers <- MCProviders
  Distance <- MCDistance
  Exchanges = {"olc", "OLC", "yahoodns", "other"}
  MaxRecords = 2
INVARIANTS
  TypeOK
  SuggestedOnFailure
CHECK_DEADLOCK FALSE
