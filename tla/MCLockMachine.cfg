\* lock_machine.py: three processes of two users, no I/O faults
CONSTANTS
  p1 = p1
  p2 = p2
  p3 = p3
  u1 = u1
  u2 = u2
  Procs = {p1, p2, p3}
  Users = {u1, u2}
  UserOf <- MCUserOf
  NoUser = NoUser
  NoProc = NoProc
  MaxCalls = 1
  Timeouts = {10, 30}
SPECIFICATION Spec
INVARIANT TypeOK
PROPERTY Refinement
PROPERTY ExclusiveReleasedByOwner
PROPERTY CallReturns
CHECK_DEADLOCK FALSE
