------------------------- MODULE MCLockMachineFaults -------------------------
EXTENDS LockMachineFaults, TLC

CONSTANTS p1, p2, p3, u1, u2

\* p1 and p3 are two processes of the same user.
MCUserOf == (p1 :> u1) @@ (p2 :> u2) @@ (p3 :> u1)
====
