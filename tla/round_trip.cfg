SPECIFICATION Spec
CONSTANTS
  MaxItems = 2
  MaxVariants = 6
INVARIANTS
  QueriesRun
  ShowsIngested
  FilterExact
