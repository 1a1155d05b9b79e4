\* Six revisions between the command-line good and bad, one of them
\* without a git hash; --parallel 2; a tryjob may end skipped; one
\* failing AddTryjob.
CONSTANTS
  Start = 0
  End = 7
  Parallel = 2
  Missing = {3}
  OtherStatuses = {"skip"}
  MaxFailures = 1
SPECIFICATION Spec
INVARIANTS TypeOK RevisionsUnique
PROPERTIES NarrowsToOne
