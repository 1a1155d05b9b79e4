\* JobGroupManager: three jobs reporting completion while the client kills the group
CONSTANTS
  j1 = j1
  j2 = j2
  j3 = j3
  Client = Client
  NoThread = NoThread
  JobList <- MCJobList
SPECIFICATION Spec
INVARIANT TypeOK
INVARIANT GroupStatusAgrees
PROPERTY KillJobGroupReturns
CHECK_DEADLOCK FALSE
