\* Three nodes: every graph of them, and four graphs under every policy of
\* failure with compensations, a condition, a retry and small budgets.
SPECIFICATION Spec
CONSTANTS
  a = a
  b = b
  c = c
  NodeList <- MCNodes
  Missing = Missing
  NoLimit = NoLimit
  Specs <- MCSpecs
INVARIANTS
  PlanSound
  AfterDependencies
  UndoneBeforeDependencies
  EndIsTrue
  CallsBounded
PROPERTIES
  RunsOnce
