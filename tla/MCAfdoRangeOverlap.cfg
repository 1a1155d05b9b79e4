\* Six common functions and one monotone decider whose two culprit sets
\* overlap; the common functions alone are BAD.
CONSTANTS
  f1 = f1
  f2 = f2
  f3 = f3
  f4 = f4
  f5 = f5
  f6 = f6
  Funcs = {f1, f2, f3, f4, f5, f6}
  BadOnlyFuncs = BadOnlyFuncs
  LacksGoodOnlyFuncs = LacksGoodOnlyFuncs
  Flaky = Flaky
  Deciders <- OverlapDecider
  NUM_RUNS_RANGE_SEARCH = 20
SPECIFICATION Spec
CHECK_DEADLOCK FALSE
INVARIANTS RangesAreBad
