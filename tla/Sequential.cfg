\* Runs that do not overlap, over every kind of payment, up to two of them dying.
\* Cases that have settled leave nothing to do, and the clock is bounded: that
\* stop is no deadlock.
CHECK_DEADLOCK FALSE
SPECIFICATION Spec
CONSTANTS
  c1 = c1  c2 = c2  w1 = w1  w2 = w2  alice = alice
  None = None
  Cases <- TwoCases
  Workers <- OneWorker
  Customers <- OneCustomer
  CustomerOf <- SameCustomer
  MerchantOf <- MixedMerchants
  CreatedAt <- Staggered
  IngestedFacts <- Varied
  GatewayFacts <- Varied
  Proposals <- Policies
  Delay = 1
  Day = 1
  Staleness = 2
  GatewayDedups = FALSE
  HighValue = 2
  MaxAttempts = 1
  MaxTime = 3
  MaxLinks = 5
  MaxFailures = 2
INVARIANTS LinkMatchesCase NoLinkForRisk OneLinkPerRunLost
PROPERTIES ForwardOnly DelayIsHonoured ImmediateLinkWithinLimit KeepsPromise
