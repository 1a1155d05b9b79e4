\* BenchmarkRun.run racing BenchmarkRun.Terminate
SPECIFICATION Spec
INVARIANT TypeOK
INVARIANT FailureExplained
PROPERTY TerminateHonoured
CHECK_DEADLOCK FALSE
