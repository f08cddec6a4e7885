\* Two benchmark runs, each possibly broken off, beside a live pipeline that
\* issues links to two of the customers.
SPECIFICATION Spec
CONSTANTS
  Runs = {r1, r2}
  MaxLiveLinks = 3
  HighValue = 50000
  MaxAttempts = 3
SYMMETRY RunSymmetry
CHECK_DEADLOCK FALSE
INVARIANTS
  TypeOK
  Reproducible
  OutcomesAsDeclared
  ClosedToProduction
  ShowsOneWholeRun
