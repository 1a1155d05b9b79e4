----------------------------- MODULE LockMachine -----------------------------
(***************************************************************************)
(* v14/lock_machine.py for one machine: processes, each run by a user,     *)
(* invoke lock_machine.py (Main: Machine.Lock, Machine.Unlock or           *)
(* FileLock.ListLock) or call Machine.TryLock.  Every call reads and       *)
(* rewrites the machine's lock file inside `with FileLock(...)`:           *)
(*   __enter__  open, flock(LOCK_EX), pickle.load (an empty file gives a   *)
(*              fresh LockDescription; an IOError gives None);             *)
(*   body       the checks and updates of NonBlockingLock / Unlock;        *)
(*   __exit__   truncate(0), write the pickled description, close (which   *)
(*              drops the flock).                                          *)
(* The file holds <<>> (empty) or <<d>> for a pickled description d.       *)
(* Here every call runs to completion; LockMachineFaults adds IOErrors and *)
(* kills.  The reason and time fields only feed messages and listings and  *)
(* are left out.                                                           *)
(***************************************************************************)
EXTENDS Integers, Sequences

CONSTANTS
  Procs,      \* processes calling into lock_machine.py
  Users,      \* getpass.getuser() values
  UserOf,     \* the user running each process
  NoUser,     \* owner "" of a LockDescription
  NoProc,     \* nobody holds the flock
  MaxCalls,   \* calls each process makes
  Timeouts    \* timeout arguments passed to TryLock

ASSUME UserOf \in [Procs -> Users] /\ MaxCalls \in Nat
ASSUME Timeouts \subseteq Nat

\* LockDescription.__init__
Fresh == [owner |-> NoUser, exclusive |-> FALSE, counter |-> 0]

\* LockDescription.IsLocked
IsLocked(d) == d.counter # 0 \/ d.exclusive

\* The body of NonBlockingLock on the loaded description d: the new
\* description and the return value.
NonBlockingLock(d, exclusive, user) ==
  CASE d.exclusive                -> <<d, FALSE>>
    [] exclusive /\ d.counter # 0 -> <<d, FALSE>>
    [] exclusive -> <<[d EXCEPT !.exclusive = TRUE, !.owner = user], TRUE>>
    [] OTHER     -> <<[d EXCEPT !.counter = @ + 1], TRUE>>

\* Seeded bug: Unlock without its `if not lock.IsLocked()` check.
UnlockNoLockedCheck(d, exclusive, user, force) ==
  CASE d.exclusive # exclusive               -> <<d, FALSE>>
    [] d.exclusive /\ d.owner # user /\ ~force -> <<d, FALSE>>
    [] d.exclusive -> <<[d EXCEPT !.exclusive = FALSE, !.owner = NoUser], TRUE>>
    [] OTHER       -> <<[d EXCEPT !.counter = @ - 1], TRUE>>

\* Seeded bug: the owner test of an exclusive unlock is missing.
UnlockNoOwnerCheck(d, exclusive, user, force) ==
  CASE ~IsLocked(d)                          -> <<d, FALSE>>
    [] d.exclusive # exclusive               -> <<d, FALSE>>
    [] d.exclusive -> <<[d EXCEPT !.exclusive = FALSE, !.owner = NoUser], TRUE>>
    [] OTHER       -> <<[d EXCEPT !.counter = @ - 1], TRUE>>

\* The body of Unlock on the loaded description d.
Unlock(d, exclusive, user, force) ==
  CASE ~IsLocked(d)                          -> <<d, FALSE>>
    [] d.exclusive # exclusive               -> <<d, FALSE>>
    [] d.exclusive /\ d.owner # user /\ ~force -> <<d, FALSE>>
    [] d.exclusive -> <<[d EXCEPT !.exclusive = FALSE, !.owner = NoUser], TRUE>>
    [] OTHER       -> <<[d EXCEPT !.counter = @ - 1], TRUE>>

\* The body of ListLock's `with file_lock as lock`: the description is
\* only read (to list it if locked) and written back as loaded.
ListLock(d) == <<d, TRUE>>

\* A call: Main's lock, unlock (with or without --ignore_ownership) and
\* list_locks, or TryLock(timeout).
Calls ==
  [kind : {"lock"}, exclusive : BOOLEAN]
  \cup [kind : {"unlock"}, exclusive : BOOLEAN, force : BOOLEAN]
  \cup [kind : {"list"}]
  \cup [kind : {"trylock"}, exclusive : BOOLEAN, timeout : Timeouts]

VARIABLES
  file,       \* contents of the lock file
  flock,      \* the process holding flock(LOCK_EX) on it
  pc,         \* control point of each process
  call,       \* the call a process is making
  desc,       \* the process's self._description (FileLock._description)
  timeout,    \* TryLock's remaining timeout
  calls       \* calls made so far by each process

vars == <<file, flock, pc, call, desc, timeout, calls>>

\* pickle.load of the lock file
Load == IF file = <<>> THEN Fresh ELSE file[1]

Init ==
  /\ file = <<>>
  /\ flock = NoProc
  /\ pc = [p \in Procs |-> "idle"]
  /\ call = [p \in Procs |-> [kind |-> "list"]]
  /\ desc = [p \in Procs |-> Fresh]
  /\ timeout = [p \in Procs |-> 0]
  /\ calls = [p \in Procs |-> 0]

-----------------------------------------------------------------------------

\* A process starts a call.
Invoke(p) ==
  /\ pc[p] = "idle" /\ calls[p] < MaxCalls
  /\ \E c \in Calls :
       /\ call' = [call EXCEPT ![p] = c]
       /\ timeout' = [timeout EXCEPT ![p] = IF c.kind = "trylock" THEN c.timeout ELSE 0]
  /\ calls' = [calls EXCEPT ![p] = @ + 1]
  /\ pc' = [pc EXCEPT ![p] = "enter"]
  /\ UNCHANGED <<file, flock, desc>>

\* Seeded bug: the description is loaded without taking the flock.
EnterNoFlock(p) ==
  /\ pc[p] = "enter" /\ flock = NoProc
  /\ UNCHANGED flock
  /\ desc' = [desc EXCEPT ![p] = Load] /\ pc' = [pc EXCEPT ![p] = "body"]
  /\ UNCHANGED <<file, call, timeout, calls>>

\* FileLock.__enter__: block in flock until no other process holds it, then
\* load the description.
Enter(p) ==
  /\ pc[p] = "enter" /\ flock = NoProc
  /\ flock' = p
  /\ desc' = [desc EXCEPT ![p] = Load] /\ pc' = [pc EXCEPT ![p] = "body"]
  /\ UNCHANGED <<file, call, timeout, calls>>

\* Seeded bug: the sleep is computed in minutes rather than seconds.
SleepInMinutes(t) == t \div 60

\* `sleep = timeout / 10`, Python 2 integer division.
Sleep(t) == t \div 10

\* TryLock's loop: `if locked or not timeout >= 0: break`.
Retry(p, locked) ==
  call[p].kind = "trylock" /\ ~locked /\ timeout[p] >= 0

\* The body, then __exit__ (truncate, write, close), then what the caller
\* does with the result: TryLock retries until locked or `not timeout >= 0`,
\* sleeping timeout / 10 (Python 2 integer division) between attempts.
Exit(p) ==
  /\ pc[p] = "body"
  /\ LET c == call[p]
         r == CASE c.kind \in {"lock", "trylock"} ->
                     NonBlockingLock(desc[p], c.exclusive, UserOf[p])
                [] c.kind = "unlock" ->
                     Unlock(desc[p], c.exclusive, UserOf[p], c.force)
                [] c.kind = "list" -> ListLock(desc[p])
         retry == Retry(p, r[2])
     IN /\ file' = <<r[1]>>
        /\ pc' = [pc EXCEPT ![p] = IF retry THEN "enter" ELSE "idle"]
        /\ timeout' = [timeout EXCEPT ![p] = IF retry THEN @ - Sleep(c.timeout)
                                                     ELSE 0]
        /\ desc' = [desc EXCEPT ![p] = Fresh]   \* the FileLock is dropped
  /\ flock' = NoProc
  /\ UNCHANGED <<call, calls>>

Next ==
  \E p \in Procs :
    \/ Invoke(p) \/ Enter(p) \/ Exit(p)

\* A process in a call keeps running; whether a user invokes another call
\* is their choice.
Fairness ==
  \A p \in Procs : WF_vars(Enter(p)) /\ WF_vars(Exit(p))

Spec == Init /\ [][Next]_vars /\ Fairness

-----------------------------------------------------------------------------

IsDescription(d) ==
  /\ DOMAIN d = {"owner", "exclusive", "counter"}
  /\ d.owner \in Users \cup {NoUser} /\ d.exclusive \in BOOLEAN
  /\ d.counter \in Nat

TypeOK ==
  /\ file = <<>> \/ (Len(file) = 1 /\ IsDescription(file[1]))
  /\ flock \in Procs \cup {NoProc}
  /\ pc \in [Procs -> {"idle", "enter", "body"}]
  /\ call \in [Procs -> Calls]
  /\ \A p \in Procs : IsDescription(desc[p])
  /\ timeout \in [Procs -> Int]
  /\ calls \in [Procs -> 0..MaxCalls]

\* The lock file, read as pickle.load reads it, behaves as the lock table
\* of MachineLock: every rewrite of the file under the flock is one lock or
\* unlock of the table or leaves it alone, however the processes' reads and
\* writes interleave.
LockTable == INSTANCE MachineLock WITH
  excl_owner <- IF Load.exclusive THEN Load.owner ELSE NoUser,
  counter <- Load.counter

Refinement == LockTable!Spec

\* An exclusive lock recorded in the lock file disappears only through an
\* Unlock by a process of the owning user or one passed
\* --ignore_ownership; no other call, and no failure in another call, can
\* take it away.
ExclusiveReleasedByOwner ==
  [][Load.exclusive /\ ~Load'.exclusive =>
       \E p \in Procs : /\ pc[p] = "body" /\ call[p].kind = "unlock"
                        /\ (UserOf[p] = Load.owner \/ call[p].force)]_vars

\* Every call returns when TryLock is passed a timeout of 10 or more: flock
\* is eventually granted, and TryLock gives up once `timeout / 10` sleeps
\* have used its timeout up, even when the lock stays held.  Below 10 the
\* sleep is 0 (lock_machine.py:190): that TryLock retries for as long as
\* the lock is held, and by retaking flock at once it can starve the other
\* callers, so this property does not hold there (H21 in the README).
CallReturns == \A p \in Procs : pc[p] # "idle" ~> pc[p] = "idle"

====
