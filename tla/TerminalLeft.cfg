\* A stale commit takes a case out of a terminal state.
\* Cases that have settled leave nothing to do, and the clock is bounded: that
\* stop is no deadlock.
CHECK_DEADLOCK FALSE
SPECIFICATION Spec
CONSTANTS
  c1 = c1  c2 = c2  w1 = w1  w2 = w2  alice = alice
  None = None
  Cases <- OneCase
  Workers <- TwoWorkers
  Customers <- OneCustomer
  CustomerOf <- SameCustomer
  MerchantOf <- ActiveMerchant
  CreatedAt <- FromTheStart
  IngestedFacts <- Small
  GatewayFacts <- SmallOrLarge
  Proposals <- Policies
  Delay = 1
  Day = 1
  Staleness = 2
  GatewayDedups = FALSE
  HighValue = 2
  MaxAttempts = 1
  MaxTime = 1
  MaxLinks = 5
  MaxFailures = 0
SYMMETRY Symmetry
PROPERTIES TerminalIsFinal
