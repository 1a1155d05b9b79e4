-------------------------- MODULE LockMachineFaults --------------------------
(***************************************************************************)
(* LockMachine with the failures v14/lock_machine.py meets in FileLock:    *)
(* pickle.load raising IOError in __enter__, and the process being killed  *)
(* between the truncate(0) and the write of __exit__.  Closing the file,   *)
(* also when the process dies, drops its flock.                            *)
(***************************************************************************)
EXTENDS LockMachine

\* FileLock.__enter__ catches the IOError of pickle.load, logs it and
\* returns None.
EnterIOError(p) ==
  /\ pc[p] = "enter" /\ flock = NoProc
  /\ flock' = p
  /\ pc' = [pc EXCEPT ![p] = "no_desc"]
  /\ UNCHANGED <<file, call, desc, timeout, calls>>

\* The body on None raises AttributeError; __exit__ then truncates the file
\* and raises again on the missing self._description, so nothing is
\* written; the process dies and closing the file drops the flock.
ExitWithoutDescription(p) ==
  /\ pc[p] = "no_desc"
  /\ file' = <<>>
  /\ flock' = NoProc
  /\ pc' = [pc EXCEPT ![p] = "idle"]
  /\ timeout' = [timeout EXCEPT ![p] = 0]
  /\ UNCHANGED <<call, desc, calls>>

\* The process is killed after truncate(0) and before the write; the
\* kernel drops its flock.
KilledInExit(p) ==
  /\ pc[p] = "body"
  /\ file' = <<>>
  /\ flock' = NoProc
  /\ pc' = [pc EXCEPT ![p] = "idle"]
  /\ desc' = [desc EXCEPT ![p] = Fresh]
  /\ timeout' = [timeout EXCEPT ![p] = 0]
  /\ UNCHANGED <<call, calls>>

NextWithFaults ==
  \/ Next
  \/ \E p \in Procs :
       EnterIOError(p) \/ ExitWithoutDescription(p) \/ KilledInExit(p)

SpecWithFaults ==
  /\ Init /\ [][NextWithFaults]_vars /\ Fairness
  /\ \A p \in Procs : WF_vars(ExitWithoutDescription(p))

====
