----------------------------- MODULE MachineLock -----------------------------
(***************************************************************************)
(* What v14/lock_machine.py promises about one machine: a lock that is     *)
(* either free, held exclusively by one user, or held shared by a number   *)
(* of holders.  Lock.NonBlockingLock and Lock.Unlock are single atomic     *)
(* steps here; a call that fails changes nothing and so is a stuttering    *)
(* step.  Shared locks carry no owner: any user may release one, and an    *)
(* exclusive lock may be released by a user who is not its owner only     *)
(* with force (--ignore_ownership).                                        *)
(***************************************************************************)
EXTENDS Naturals

CONSTANTS Users, NoUser

VARIABLES
  excl_owner,   \* the user holding the exclusive lock, or NoUser
  counter       \* the number of shared holds

Init == excl_owner = NoUser /\ counter = 0

\* NonBlockingLock(exclusive=True) by user u.
LockExclusive(u) ==
  /\ excl_owner = NoUser /\ counter = 0
  /\ excl_owner' = u
  /\ UNCHANGED counter

\* NonBlockingLock(exclusive=False).
LockShared ==
  /\ excl_owner = NoUser
  /\ counter' = counter + 1
  /\ UNCHANGED excl_owner

\* Unlock(exclusive=True, force) by user u.
UnlockExclusive(u, force) ==
  /\ excl_owner # NoUser /\ (excl_owner = u \/ force)
  /\ excl_owner' = NoUser
  /\ UNCHANGED counter

\* Unlock(exclusive=False).
UnlockShared ==
  /\ excl_owner = NoUser /\ counter > 0
  /\ counter' = counter - 1
  /\ UNCHANGED excl_owner

Next ==
  \/ \E u \in Users : LockExclusive(u)
  \/ LockShared
  \/ \E u \in Users, force \in BOOLEAN : UnlockExclusive(u, force)
  \/ UnlockShared

Spec == Init /\ [][Next]_<<excl_owner, counter>>

====
