\* lock_machine.py: an IOError while loading, or a kill between truncate and write
CONSTANTS
  p1 = p1
  p2 = p2
  p3 = p3
  u1 = u1
  u2 = u2
  Procs = {p1, p2, p3}
  Users = {u1, u2}
  UserOf <- MCUserOf
  NoUser = NoUser
  NoProc = NoProc
  MaxCalls = 1
  Timeouts = {30}
SPECIFICATION SpecWithFaults
PROPERTY ExclusiveReleasedByOwner
CHECK_DEADLOCK FALSE
