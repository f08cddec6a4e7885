\* One payment, announced for two cases to two requests at once.
\* When every event is on record and every payment made, nothing is left to
\* do: that stop is no deadlock.
CHECK_DEADLOCK FALSE
SPECIFICATION Spec
CONSTANTS
  None = None  c1 = c1  c2 = c2  p1 = p1  p2 = p2  h1 = h1  h2 = h2
  shop = shop  other = other  f1 = f1  f2 = f2  e1 = e1  e2 = e2  e3 = e3  x = x
  Cases <- TwoCases
  Payments <- OnePayment
  Events <- FourEvents
  Handlers <- TwoHandlers
  Merchants <- Shops
  Executor = Executor
  Payload <- SharedPayload
  AmountOf <- SameAmounts
  PaidAmount <- EqualPayments
  PaidThrough <- P1ByLink
  Registered <- Shops
  CheckoutMerchant <- ShopCheckout
  MaxCrashes = 0
  MaxOutages = 0
SYMMETRY Symmetry
INVARIANTS PaymentRecoversOneCase
