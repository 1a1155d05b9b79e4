\* Four common functions, every decider of at most two culprit sets of at
\* most two elements, and the Flaky decider.
CONSTANTS
  f1 = f1
  f2 = f2
  f3 = f3
  f4 = f4
  f5 = f5
  f6 = f6
  Funcs = {f1, f2, f3, f4}
  BadOnlyFuncs = BadOnlyFuncs
  LacksGoodOnlyFuncs = LacksGoodOnlyFuncs
  Flaky = Flaky
  Deciders <- MCDeciders
  NUM_RUNS_RANGE_SEARCH = 5
SPECIFICATION Spec
CHECK_DEADLOCK FALSE
INVARIANTS TypeOK IndividualsExact NarrowingIndexDefined
PROPERTIES RangeStraddlesMid Termination
