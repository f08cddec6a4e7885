\* Two requests at once on one case with two failures and two payments, a restart,
\* and a gateway that repeats what was not acknowledged.
\* When every event is on record and every payment made, nothing is left to
\* do: that stop is no deadlock.
CHECK_DEADLOCK FALSE
SPECIFICATION FairSpec
CONSTANTS
  None = None  c1 = c1  c2 = c2  p1 = p1  p2 = p2  h1 = h1  h2 = h2
  shop = shop  other = other  f1 = f1  f2 = f2  e1 = e1  e2 = e2  e3 = e3  x = x
  Cases <- OneCase
  Payments <- TwoPayments
  Events <- FourEvents
  Handlers <- TwoHandlers
  Merchants <- Shops
  Executor = Executor
  Payload <- OneCasePayload
  AmountOf <- SameAmounts
  PaidAmount <- EqualPayments
  PaidThrough <- ByLink
  Registered <- Shops
  CheckoutMerchant <- ShopCheckout
  MaxCrashes = 1
  MaxOutages = 0
INVARIANTS TypeOK
PROPERTIES EffectOncePerEvent AttributionIsFinal IngestedOnce KeepsPromise PaidIsSettled
