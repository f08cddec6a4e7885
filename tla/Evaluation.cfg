\* The baseline, the mock agent and a language model that may propose what it likes,
\* over four cases, while the dataset may grow too old.
\* When every evaluation has ended nothing is left to do.
CHECK_DEADLOCK FALSE
SPECIFICATION Spec
CONSTANTS
  Dataset <- OneOfEach
  Draws = 2
  Lucks <- SomeLuck
  Decider <- OfEachKind
  Answers <- SomeAnswers
  HighValue = 10
  MaxAttempts = 1
INVARIANTS
  TypeOK
  BooksBalance
  SameCustomers
  LimitsBindProposals
