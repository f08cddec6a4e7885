\* Two runs on one case, each started by a webhook, by a triage request or as a
\* sweep of delayed cases, one of which may die; a delayed endpoint that is polled
\* for ever; and a payment that the adapter may refuse.
\* Cases that have settled leave nothing to do, and the clock is bounded: that
\* stop is no deadlock.
CHECK_DEADLOCK FALSE
SPECIFICATION PolledSpec
CONSTANTS
  c1 = c1  c2 = c2  w1 = w1  w2 = w2  alice = alice
  None = None
  Cases <- OneCase
  Workers <- TwoWorkers
  Customers <- OneCustomer
  CustomerOf <- NoCustomer
  MerchantOf <- ActiveMerchant
  CreatedAt <- FromTheStart
  IngestedFacts <- SentOrRefused
  GatewayFacts <- SmallOrLarge
  Proposals <- DelayedOrNot
  Delay = 1
  Day = 1
  Staleness = 2
  GatewayDedups = FALSE
  HighValue = 2
  MaxAttempts = 1
  MaxTime = 1
  MaxLinks = 5
  MaxFailures = 1
INVARIANTS TypeOK LockedRowIsStable LinksAccounted LinksWithinGuardrails
PROPERTIES LinkIsForever LinkNeedsApproval RunsEnd DelayedLinksRun
