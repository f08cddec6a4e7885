\* Launches, triage requests, verifications and deliveries beside each other: two
\* requests at a time, two launches, a reset and a failed call.
\* After the last launch nothing may be left to do: that stop is no deadlock.
CHECK_DEADLOCK FALSE
SPECIFICATION OperatorSpec
CONSTANTS
  None = None  r1 = r1  r2 = r2
  Requests <- TwoRequests
  Amounts <- SomeAmounts
  HighValue = 2
  MaxLaunches = 2
  MaxTriages = 1
  MaxResets = 1
  MaxOutages = 1
INVARIANTS RecoveredByAPayment LinkOfThisLaunch
PROPERTIES RecoveredOnce NoLinkForgotten PaidIsVerified
