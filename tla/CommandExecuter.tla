--------------------------- MODULE CommandExecuter ---------------------------
(***************************************************************************)
(* utils/command_executer.py: one call of CommandExecuter.RunCommand or of *)
(* CommandExecuter.RunCommand2.  Both Popen a shell command and pull its   *)
(* output through a select.poll loop, then p.wait().                       *)
(*                                                                         *)
(* RunCommand: each pass first asks the optional CommandTerminator whether *)
(* another thread terminated the command (then `sudo kill -9` and return), *)
(* then polls for up to 100 ms, reads every ready pipe (an empty read is   *)
(* EOF and unregisters it), notes when the process has exited and gives up *)
(* terminated_timeout later, kills the process once command_timeout has    *)
(* passed, and leaves the loop when both last reads were EOF.              *)
(*                                                                         *)
(* RunCommand2: stderr goes to stdout (join_stderr, the default) or to a   *)
(* pipe of its own with its own StreamHandler.  Each pass polls for up to  *)
(* 300 ms; a readable pipe is read into its handler's buffer, which hands  *)
(* every complete line to line_consumer; a hung-up pipe hands the rest     *)
(* over (notify_eos) and is unregistered; after `timeout` every pass calls *)
(* pobject.kill().  The loop ends when no pipe is registered.              *)
(*                                                                         *)
(* CrosRunCommand writes the command to a temp file, copies it to the     *)
(* machine (CopyFiles, a RunCommand of rsync: a failure returns at once)   *)
(* and runs it through RunCommand; the temp file is never removed.         *)
(* ChrootRunCommand writes it to a file under src/scripts; with            *)
(* return_output it first runs `cros_sdk -- true` and returns if that      *)
(* fails; then it runs the file through RunCommand and removes it.  The    *)
(* preliminary commands are abstracted to their exit status.               *)
(*                                                                         *)
(* The command's processes are the shell (p) and, possibly, a background   *)
(* process that inherited the pipes and outlives it: a pipe hangs up only  *)
(* when both are gone; a kill reaches the shell only.  Time is counted in  *)
(* poll timeouts: a pass that finds nothing ready waits one, a pass that   *)
(* reads and logs may take one or none; a counter only matters up to its   *)
(* timeout, so it stops just past it.  Output is a sequence of "a" and     *)
(* "\n"; an os.read takes at most 16384 bytes, so it may leave part of    *)
(* what is buffered.  Logging and the ssh wrapping are left out.           *)
(***************************************************************************)
EXTENDS Naturals, Sequences, SequencesExt

CONSTANTS
  NoTimeout,           \* None passed as a timeout
  Methods,             \* the methods called
  ReturnOutputChoices, \* return_output arguments
  CommandTimeouts,     \* command_timeout / timeout arguments
  TerminatedTimeouts,  \* terminated_timeout arguments
  HolderChoices,       \* whether a background process keeps the pipes open
  TerminatorChoices,   \* "none": no command_terminator; "clear": one passed
  JoinStderrChoices,   \* RunCommand2's join_stderr arguments
  Chunks,              \* what one write of the command may put in a pipe
  MaxLen               \* bound on the output written to each pipe

ASSUME Methods \subseteq {"RunCommand", "RunCommand2", "CrosRunCommand",
                          "ChrootRunCommand"}
ASSUME ReturnOutputChoices \subseteq BOOLEAN
ASSUME CommandTimeouts \subseteq Nat \cup {NoTimeout}
ASSUME TerminatedTimeouts \subseteq Nat \cup {NoTimeout}
ASSUME HolderChoices \subseteq {"none", "alive"}
ASSUME TerminatorChoices \subseteq {"none", "clear"}
ASSUME JoinStderrChoices \subseteq BOOLEAN

Pipes == {"stdout", "stderr"}

\* The methods whose command runs through RunCommand's poll loop.
RunCommandMethods == {"RunCommand", "CrosRunCommand", "ChrootRunCommand"}
NL == "\n"

\* Mutant: the time is taken afresh on every pass, so none ever elapses.
ElapseNever(t, timeout) == t

\* A time counter only compared against `timeout`: it stops one past it.
Elapse(t, timeout) ==
  IF timeout = NoTimeout \/ t > timeout THEN t ELSE t + 1

\* `time.time() - since > timeout`
Exceeded(t, timeout) == timeout # NoTimeout /\ t > timeout

\* Mutant: a buffer ending in "\n" keeps that line after handing it over.
RECURSIVE NotifyLineKeepsLast(_, _)
NotifyLineKeepsLast(buf, lines) ==
  LET p == SelectInSeq(buf, LAMBDA c : c = NL)
  IN IF p = 0 THEN [buf |-> buf, lines |-> lines]
     ELSE IF p < Len(buf)
          THEN NotifyLineKeepsLast(SubSeq(buf, p + 1, Len(buf)),
                                   Append(lines, SubSeq(buf, 1, p)))
          ELSE [buf |-> buf, lines |-> Append(lines, buf)]

\* StreamHandler.notify_line: hand every complete line of the buffer to
\* line_consumer, keep what follows the last "\n".
RECURSIVE NotifyLine(_, _)
NotifyLine(buf, lines) ==
  LET p == SelectInSeq(buf, LAMBDA c : c = NL)
  IN IF p = 0 THEN [buf |-> buf, lines |-> lines]
     ELSE IF p < Len(buf)
          THEN NotifyLine(SubSeq(buf, p + 1, Len(buf)),
                          Append(lines, SubSeq(buf, 1, p)))
          ELSE [buf |-> <<>>, lines |-> Append(lines, buf)]

\* Mutant: the rest is handed over even when it is empty.
NotifyEosAlways(buf, lines) == Append(lines, buf)

\* StreamHandler.notify_eos: the last line may not end with "\n".
NotifyEos(buf, lines) == IF buf # <<>> THEN Append(lines, buf) ELSE lines

VARIABLES
  method,      \* the method called
  pc,          \* "prep", "start", "loop", "poll", "wait", "remove", "done"
  terminator,  \* command_terminator: "none", "clear" or "set"
  child,       \* the shell p: "unstarted", "running", "exited"
  holder,      \* a background process holding the pipes: "none", "alive", "gone"
  written,     \* what the command wrote to each pipe
  read,        \* how much of it the method has read
  last,        \* RunCommand's out / err: "none", "data" or "eof"
  pipes,       \* the pipes still registered with the poll object
  sinceStart,  \* poll timeouts since started_time / start_time
  sinceExit,   \* poll timeouts since terminated_time, or NoTimeout if unset
  killed,      \* a kill was sent to p
  joinStderr,  \* RunCommand2's join_stderr
  buf,         \* RunCommand2's StreamHandler._buf of each pipe
  lines,       \* the lines RunCommand2 handed to line_consumer, by `output`
  cmdTimeout,  \* this call's command_timeout / timeout
  termTimeout, \* this call's terminated_timeout
  returnOutput, \* this call's return_output (only ChrootRunCommand's matters)
  cmdFile      \* the wrapper's command file: "none", "written", "removed"

vars == <<method, pc, terminator, child, holder, written, read, last, pipes,
          sinceStart, sinceExit, killed, joinStderr, buf, lines, cmdTimeout,
          termTimeout, returnOutput, cmdFile>>

\* What follows RunCommand's return: ChrootRunCommand removes its file.
ReturnTo == IF method = "ChrootRunCommand" THEN "remove" ELSE "done"

\* A pipe hangs up once every process that could write to it is gone.
WriterClosed == child = "exited" /\ holder # "alive"

\* The pipes the poll reports: data buffered, or hung up.
Ready == {f \in pipes : Len(written[f]) > read[f] \/ WriterClosed}

\* What is buffered in pipe f.
Unread(f) == SubSeq(written[f], read[f] + 1, Len(written[f]))

\* How far RunCommand's os.read(fd, 16384) of each pipe in `ready` may get:
\* a pipe with data gives some of it, at least one byte; a hung-up one "".
ReadUpTo(ready) ==
  {r \in [Pipes -> 0..MaxLen] :
     \A f \in Pipes :
       IF f \in ready /\ Len(written[f]) > read[f]
         THEN r[f] \in read[f] + 1..Len(written[f])
         ELSE r[f] = read[f]}

\* The poll timeouts a pass takes: poll(100) waits one when nothing is
\* ready; the reads and the logging of a pass that found data take some
\* time, which may or may not reach one.
PassTime(ready) == IF ready = {} THEN {1} ELSE {0, 1}

Init ==
  /\ method \in Methods
  /\ pc = IF method \in {"CrosRunCommand", "ChrootRunCommand"}
           THEN "prep" ELSE "start"
  /\ terminator \in TerminatorChoices
  /\ child = "unstarted"
  /\ holder \in HolderChoices
  /\ written = [f \in Pipes |-> <<>>]
  /\ read = [f \in Pipes |-> 0]
  /\ last = [f \in Pipes |-> "none"]
  /\ pipes = {}
  /\ sinceStart = 0 /\ sinceExit = NoTimeout
  /\ killed = FALSE
  /\ joinStderr \in (IF method = "RunCommand2" THEN JoinStderrChoices
                     ELSE {TRUE})
  /\ buf = [f \in Pipes |-> <<>>] /\ lines = [f \in Pipes |-> <<>>]
  /\ cmdTimeout \in CommandTimeouts
  /\ termTimeout \in (IF method \in RunCommandMethods THEN TerminatedTimeouts
                      ELSE {NoTimeout})
  /\ returnOutput \in (IF method = "ChrootRunCommand" THEN ReturnOutputChoices
                       ELSE {FALSE})
  /\ cmdFile = "none"

-----------------------------------------------------------------------------
(* RunCommand.                                                             *)

\* A terminator that is already set returns 1 at once; otherwise Popen.
Start ==
  /\ method \in RunCommandMethods /\ pc = "start"
  /\ IF terminator = "set"
       THEN pc' = ReturnTo /\ UNCHANGED <<child, pipes>>
       ELSE pc' = "loop" /\ child' = "running" /\ pipes' = Pipes
  /\ UNCHANGED <<method, terminator, holder, written, read, last, sinceStart,
                 sinceExit, killed, joinStderr, buf, lines, cmdTimeout,
                 termTimeout, returnOutput, cmdFile>>

\* `while len(pipes)`, then the terminator check: `sudo kill -9` of p and
\* p.wait() return at once.
LoopTop ==
  /\ method \in RunCommandMethods /\ pc = "loop"
  /\ CASE pipes = {} -> pc' = "wait" /\ UNCHANGED <<child, killed>>
       [] terminator = "set" ->
            pc' = ReturnTo /\ child' = "exited" /\ killed' = TRUE
       [] OTHER -> pc' = "poll" /\ UNCHANGED <<child, killed>>
  /\ UNCHANGED <<method, terminator, holder, written, read, last, pipes,
                 sinceStart, sinceExit, joinStderr, buf, lines, cmdTimeout,
                 termTimeout, returnOutput, cmdFile>>

\* `p.poll() is not None` and, terminated_time being set, more than
\* terminated_timeout has passed since.
TerminatedTimedOut(exit0) ==
  child = "exited" /\ exit0 # NoTimeout /\ Exceeded(exit0, termTimeout)

\* One pass after the terminator check: poll (a timeout if nothing is
\* ready), the reads, the terminated_timeout check, the command_timeout
\* check (kill p and break) and the `out == err == ""` check.
Poll ==
  /\ method \in RunCommandMethods /\ pc = "poll"
  /\ \E r \in ReadUpTo(Ready), dt \in PassTime(Ready) :
     LET ready == Ready
         start == IF dt = 1 THEN Elapse(sinceStart, cmdTimeout) ELSE sinceStart
         exit0 == IF dt = 1 /\ sinceExit # NoTimeout
                    THEN Elapse(sinceExit, termTimeout) ELSE sinceExit
         eof == {f \in ready : Len(written[f]) = read[f]}
         last1 == [f \in Pipes |-> IF f \notin ready THEN last[f]
                                   ELSE IF f \in eof THEN "eof" ELSE "data"]
         exitBreak == TerminatedTimedOut(exit0)
         timeoutBreak == ~exitBreak /\ Exceeded(start, cmdTimeout)
     IN /\ read' = r
        /\ last' = last1
        /\ pipes' = pipes \ eof
        /\ sinceStart' = start
        /\ sinceExit' = IF child = "exited" /\ exit0 = NoTimeout THEN 0 ELSE exit0
        /\ child' = IF timeoutBreak THEN "exited" ELSE child
        /\ killed' = (killed \/ timeoutBreak)
        /\ pc' = IF \/ exitBreak \/ timeoutBreak
                    \/ last1["stdout"] = "eof" /\ last1["stderr"] = "eof"
                 THEN "wait" ELSE "loop"
  /\ UNCHANGED <<method, terminator, holder, written, joinStderr, buf, lines,
                 cmdTimeout, termTimeout, returnOutput, cmdFile>>

-----------------------------------------------------------------------------
(* RunCommand2.                                                            *)

\* Popen; stdout is registered, and stderr too when it is not joined.
Start2 ==
  /\ method = "RunCommand2" /\ pc = "start"
  /\ pc' = "loop" /\ child' = "running"
  /\ pipes' = IF joinStderr THEN {"stdout"} ELSE Pipes
  /\ UNCHANGED <<method, terminator, holder, written, read, last, sinceStart,
                 sinceExit, killed, joinStderr, buf, lines, cmdTimeout,
                 termTimeout, returnOutput, cmdFile>>

\* `while len(handlermap)`.
LoopTop2 ==
  /\ method = "RunCommand2" /\ pc = "loop"
  /\ pc' = IF pipes = {} THEN "wait" ELSE "poll"
  /\ UNCHANGED <<method, terminator, child, holder, written, read, last, pipes,
                 sinceStart, sinceExit, killed,
                 joinStderr, buf, lines, cmdTimeout,
                 termTimeout, returnOutput, cmdFile>>

\* One pass: poll(300); for each ready pipe, POLLIN: its handler's
\* read_and_notify_line; otherwise a hang-up: notify_eos and unregister;
\* then pobject.kill() if the timeout is past.
Poll2 ==
  /\ method = "RunCommand2" /\ pc = "poll"
  /\ LET ready == Ready
         start == IF ready = {} THEN Elapse(sinceStart, cmdTimeout)
                  ELSE sinceStart
         data == {f \in ready : Len(written[f]) > read[f]}
         hup == ready \ data
         notified == [f \in data |-> NotifyLine(buf[f] \o Unread(f), lines[f])]
         kill == Exceeded(start, cmdTimeout)
     IN /\ read' = [f \in Pipes |-> Len(written[f])]
        /\ buf' = [f \in Pipes |-> CASE f \in data -> notified[f].buf
                                      [] f \in hup -> <<>>
                                      [] OTHER -> buf[f]]
        /\ lines' = [f \in Pipes |-> CASE f \in data -> notified[f].lines
                                        [] f \in hup ->
                                             NotifyEos(buf[f], lines[f])
                                        [] OTHER -> lines[f]]
        /\ pipes' = pipes \ hup
        /\ sinceStart' = start
        /\ child' = IF kill THEN "exited" ELSE child
        /\ killed' = (killed \/ kill)
        /\ pc' = "loop"
  /\ UNCHANGED <<method, terminator, holder, written, last, sinceExit,
                 joinStderr, cmdTimeout, termTimeout, returnOutput, cmdFile>>

-----------------------------------------------------------------------------
(* The wrappers around RunCommand.                                        *)

\* CopyFiles(..., dest_cros=True): one RunCommand of rsync over ssh with the
\* caller's terminator: 1 at once if it is set, else rsync's status.
CopyFilesStatus == IF terminator = "set" THEN {1} ELSE {0, 1}

\* CrosRunCommand: WriteToTempShFile, then CopyFiles to the machine; a
\* non-zero status is returned as it is.  The temp file stays.
CrosPrepare ==
  /\ method = "CrosRunCommand" /\ pc = "prep"
  /\ cmdFile' = "written"
  /\ \E status \in CopyFilesStatus : pc' = IF status = 0 THEN "start" ELSE "done"
  /\ UNCHANGED <<method, terminator, child, holder, written, read, last, pipes,
                 sinceStart, sinceExit, killed, joinStderr, buf, lines,
                 cmdTimeout, termTimeout, returnOutput>>

\* ChrootRunCommand: the command file is written under src/scripts; with
\* return_output, `cros_sdk -- true` runs first (without the terminator)
\* and a non-zero status is returned at once, before os.remove.
ChrootPrepare ==
  /\ method = "ChrootRunCommand" /\ pc = "prep"
  /\ cmdFile' = "written"
  /\ \/ pc' = "start"
     \/ returnOutput /\ pc' = "done"
  /\ UNCHANGED <<method, terminator, child, holder, written, read, last, pipes,
                 sinceStart, sinceExit, killed, joinStderr, buf, lines,
                 cmdTimeout, termTimeout, returnOutput>>

\* ChrootRunCommand: os.remove(command_file) after RunCommand returned.
RemoveFile ==
  /\ pc = "remove"
  /\ cmdFile' = "removed" /\ pc' = "done"
  /\ UNCHANGED <<method, terminator, child, holder, written, read, last, pipes,
                 sinceStart, sinceExit, killed, joinStderr, buf, lines,
                 cmdTimeout, termTimeout, returnOutput>>

-----------------------------------------------------------------------------
(* All methods.                                                            *)

\* p.wait() / pobject.wait() blocks until the shell has exited.
Wait ==
  /\ pc = "wait" /\ child = "exited"
  /\ pc' = ReturnTo
  /\ UNCHANGED <<method, terminator, child, holder, written, read, last, pipes,
                 sinceStart, sinceExit, killed,
                 joinStderr, buf, lines, cmdTimeout,
                 termTimeout, returnOutput, cmdFile>>

-----------------------------------------------------------------------------
(* The command and the other threads.                                      *)

\* The shell or the background process writes to a pipe; with join_stderr
\* all of it goes to stdout.
Write ==
  /\ child = "running" \/ holder = "alive"
  /\ \E f \in (IF joinStderr THEN {"stdout"} ELSE Pipes),
        c \in Chunks :
       /\ Len(written[f]) + Len(c) <= MaxLen
       /\ written' = [written EXCEPT ![f] = @ \o c]
  /\ UNCHANGED <<method, pc, terminator, child, holder, read, last, pipes,
                 sinceStart, sinceExit, killed,
                 joinStderr, buf, lines, cmdTimeout,
                 termTimeout, returnOutput, cmdFile>>

\* The shell exits by itself.
Exit ==
  /\ child = "running"
  /\ child' = "exited"
  /\ UNCHANGED <<method, pc, terminator, holder, written, read, last, pipes,
                 sinceStart, sinceExit, killed,
                 joinStderr, buf, lines, cmdTimeout,
                 termTimeout, returnOutput, cmdFile>>

\* The background process exits.
HolderExits ==
  /\ holder = "alive"
  /\ holder' = "gone"
  /\ UNCHANGED <<method, pc, terminator, child, written, read, last, pipes,
                 sinceStart, sinceExit, killed,
                 joinStderr, buf, lines, cmdTimeout,
                 termTimeout, returnOutput, cmdFile>>

\* CommandTerminator.Terminate, called from another thread.
Terminate ==
  /\ terminator = "clear"
  /\ terminator' = "set"
  /\ UNCHANGED <<method, pc, child, holder, written, read, last, pipes,
                 sinceStart, sinceExit, killed,
                 joinStderr, buf, lines, cmdTimeout,
                 termTimeout, returnOutput, cmdFile>>

Next ==
  \/ Start \/ LoopTop \/ Poll \/ Start2 \/ LoopTop2 \/ Poll2 \/ Wait
  \/ CrosPrepare \/ ChrootPrepare \/ RemoveFile
  \/ Write \/ Exit \/ HolderExits \/ Terminate

\* The calling thread keeps running; the command and the other threads
\* act when they do.  The wrappers' preliminary RunCommands have no
\* command_timeout, so they are sure to return only where the code makes
\* them: CopyFiles' rsync once the terminator it was passed is set;
\* ChrootRunCommand without return_output runs no preliminary command;
\* `cros_sdk -- true` (no terminator) may run for ever.
Fairness ==
  /\ WF_vars(Start) /\ WF_vars(LoopTop) /\ WF_vars(Poll)
  /\ WF_vars(Start2) /\ WF_vars(LoopTop2) /\ WF_vars(Poll2) /\ WF_vars(Wait)
  /\ WF_vars(CrosPrepare /\ terminator = "set")
  /\ WF_vars(ChrootPrepare /\ ~returnOutput)
  /\ WF_vars(RemoveFile)

Spec == Init /\ [][Next]_vars /\ Fairness

-----------------------------------------------------------------------------
(* The lines of an output, by the positions of its "\n": the reference     *)
(* RunCommand2's line splitting is checked against.                       *)

NLs(s) == SetToSortSeq({i \in 1..Len(s) : s[i] = NL}, <)

\* The lines ending in "\n", each with its "\n".
CompleteLines(s) ==
  LET e == NLs(s)
  IN [k \in 1..Len(e) |-> SubSeq(s, IF k = 1 THEN 1 ELSE e[k - 1] + 1, e[k])]

\* What follows the last "\n".
Rest(s) ==
  LET e == NLs(s)
  IN SubSeq(s, IF e = <<>> THEN 1 ELSE e[Len(e)] + 1, Len(s))

SplitLines(s) ==
  IF Rest(s) = <<>> THEN CompleteLines(s) ELSE Append(CompleteLines(s), Rest(s))

TypeOK ==
  /\ method \in Methods
  /\ pc \in {"prep", "start", "loop", "poll", "wait", "remove", "done"}
  /\ terminator \in {"none", "clear", "set"}
  /\ child \in {"unstarted", "running", "exited"}
  /\ holder \in {"none", "alive", "gone"}
  /\ \A f \in Pipes : Len(written[f]) <= MaxLen /\ read[f] \in 0..Len(written[f])
  /\ last \in [Pipes -> {"none", "data", "eof"}]
  /\ pipes \subseteq Pipes
  /\ sinceStart \in Nat /\ sinceExit \in Nat \cup {NoTimeout}
  /\ killed \in BOOLEAN
  /\ joinStderr \in BOOLEAN
  /\ returnOutput \in BOOLEAN /\ cmdFile \in {"none", "written", "removed"}
  /\ buf \in [Pipes -> Seq({"a", NL})]
  /\ lines \in [Pipes -> Seq(Seq({"a", NL}) \ {<<>>})]

\* RunCommand gives up on output that is still buffered in a pipe only
\* while a background process holds that pipe open, or after it killed the
\* command: output written by a command that has ended is never dropped.
\* With the wall clock read at lines 138 and 146 and reads of at most
\* 16384 bytes, terminated_timeout can run out while the output is being
\* drained, so this does not hold of the code (H37 in the README).
DrainsBeforeGivingUp ==
  [][(pc = "poll" /\ pc' = "wait" /\ \E f \in Pipes : read'[f] < Len(written[f]))
       => holder = "alive" \/ killed']_vars

\* Whatever the reads of RunCommand2 cut each pipe's output into, and
\* however the two handlers' reads interleave, line_consumer has been
\* handed, by that pipe's StreamHandler, exactly the complete lines read
\* from it so far, in order, and the handler's buffer holds the rest; once
\* the pipe hung up, the last line without "\n" has been handed over too.
\* The joined stream's handler is the one named 'stdout' (line 451), so
\* its lines reach line_consumer with output='stdout', not the 'output'
\* the docstring (378-380) promises; lines are kept by handler, and this
\* property is about their content only.
LinesExact ==
  method = "RunCommand2" =>
    \A f \in Pipes :
      LET s == SubSeq(written[f], 1, read[f])
      IN IF f \in pipes
           THEN lines[f] = CompleteLines(s) /\ buf[f] = Rest(s)
           ELSE lines[f] = SplitLines(s) /\ buf[f] = <<>>

\* RunCommand returns when it has a command_timeout, when the command is
\* terminated through the CommandTerminator, or when the shell exits and
\* either a terminated_timeout is given or no background process keeps the
\* pipes open for ever; the wrappers return so once their preliminary
\* command has returned.  RunCommand2 returns when the shell, or a
\* timeout's kill of it, ends and no background process keeps the pipe
\* open for ever.  With neither timeout and a background process that
\* never exits, RunCommand waits for ever (H36 in the README).
RunCommandReturns ==
  (\/ /\ method \in RunCommandMethods /\ <>(pc # "prep")
      /\ \/ cmdTimeout # NoTimeout
         \/ <>(terminator = "set")
         \/ <>(child = "exited" /\ (termTimeout # NoTimeout \/ holder # "alive"))
   \/ /\ method = "RunCommand2"
      /\ \/ <>(child = "exited" /\ holder # "alive")
         \/ cmdTimeout # NoTimeout /\ <>(holder # "alive"))
  => <>(pc = "done")

=============================================================================
