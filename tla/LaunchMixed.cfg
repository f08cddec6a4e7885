\* Two launches of one amount, the link of the first of which is paid.
\* After the last launch nothing may be left to do: that stop is no deadlock.
CHECK_DEADLOCK FALSE
SPECIFICATION Spec
CONSTANTS
  None = None  r1 = r1  r2 = r2
  Requests <- TwoRequests
  Amounts <- SomeAmounts
  HighValue = 2
  MaxLaunches = 2
  MaxTriages = 0
  MaxResets = 0
  MaxOutages = 0
INVARIANT PaymentOfThisLaunch
