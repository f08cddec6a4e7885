\* The same evaluations: a model that takes a case of risk for another is granted a link.
\* When every evaluation has ended nothing is left to do.
CHECK_DEADLOCK FALSE
SPECIFICATION Spec
CONSTANTS
  Dataset <- OneOfEach
  Draws = 2
  Lucks <- SomeLuck
  Decider <- OfEachKind
  Answers <- SomeAnswers
  HighValue = 10
  MaxAttempts = 1
INVARIANTS
  LinksAreEligible
