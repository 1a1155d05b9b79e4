---------------------------- MODULE BenchmarkRun ----------------------------
(***************************************************************************)
(* crosperf/benchmark_run.py: a BenchmarkRun thread executing run() while  *)
(* another thread may call Terminate(), both recording statuses on the     *)
(* run's cros_utils/timeline.py Timeline.                                  *)
(*                                                                         *)
(* Python threads interleave between statements, so every statement that   *)
(* reads or writes shared state (terminated, the timeline, failure_reason) *)
(* is its own step.  Timeline.Record is two steps: the assert loop over    *)
(* the recorded events, then the append.  The machine manager, the results *)
(* cache and the autotest runner are external; their calls are single     *)
(* steps whose outcomes (cache hit, machine available, return value,       *)
(* exception) are chosen nondeterministically.                             *)
(***************************************************************************)
EXTENDS Integers, Sequences, SequencesExt

STATUS_FAILED == "FAILED"
STATUS_SUCCEEDED == "SUCCEEDED"
STATUS_IMAGING == "IMAGING"
STATUS_RUNNING == "RUNNING"
STATUS_WAITING == "WAITING"
STATUS_PENDING == "PENDING"

Statuses == {STATUS_FAILED, STATUS_SUCCEEDED, STATUS_IMAGING,
             STATUS_RUNNING, STATUS_WAITING, STATUS_PENDING}

\* The two threads: the BenchmarkRun thread and the caller of Terminate().
Threads == {"run", "term"}

\* Values of failure_reason: "" and which of the three assignments wrote it.
Reasons == {"", "retval", "exception", "terminated"}

NoResult == -1   \* self.result is None

VARIABLES
  events,          \* Timeline.events, as the sequence of event names
  terminated,      \* self.terminated
  failure_reason,  \* self.failure_reason
  machine,         \* self.machine is set (a machine is held)
  retval,          \* self.result.retval, NoResult while self.result is None
  run_completed,   \* self.run_completed
  pc,              \* control point of each thread
  rec,             \* event being recorded by a thread inside Timeline.Record
  ret              \* where a thread continues after Timeline.Record

vars == <<events, terminated, failure_reason, machine, retval, run_completed,
          pc, rec, ret>>

RunLabels == {"start", "acquire", "acquire_call", "image", "autotest",
              "check_term", "last_check", "except", "exc_reason", "finally",
              "finally_raise",
              "record", "append", "done", "raised"}
TermLabels == {"t_idle", "t_check", "t_reason", "t_done",
               "record", "append", "raised"}

LastEvent == Last(events)                 \* Timeline.GetLastEvent

\* Enter Timeline.Record(e) in thread t, continuing at `next` afterwards.
Record(t, e, next) ==
  /\ pc' = [pc EXCEPT ![t] = "record"]
  /\ rec' = [rec EXCEPT ![t] = e]
  /\ ret' = [ret EXCEPT ![t] = next]

Goto(t, l) == pc' = [pc EXCEPT ![t] = l] /\ UNCHANGED <<rec, ret>>

\* Seeded bug: __init__ without its Record(STATUS_PENDING).
InitNoPending ==
  /\ events = <<>>
  /\ terminated = FALSE
  /\ failure_reason = ""
  /\ machine = FALSE
  /\ retval = NoResult
  /\ run_completed = FALSE
  /\ pc = [run |-> "start", term |-> "t_idle"]
  /\ rec = [t \in Threads |-> STATUS_PENDING]
  /\ ret = [t \in Threads |-> "done"]

Init ==
  /\ events = <<STATUS_PENDING>>          \* recorded by __init__
  /\ terminated = FALSE
  /\ failure_reason = ""
  /\ machine = FALSE
  /\ retval = NoResult
  /\ run_completed = FALSE
  /\ pc = [run |-> "start", term |-> "t_idle"]
  /\ rec = [t \in Threads |-> STATUS_PENDING]
  /\ ret = [t \in Threads |-> "done"]

-----------------------------------------------------------------------------
(* Timeline.Record                                                         *)

\* Where an AssertionError raised by Record in thread t goes: out of
\* Terminate() to its caller; inside run() to the except clause, unless it
\* was raised by the Record call of the except clause itself, in which case
\* the finally clause runs and the exception leaves the thread.
AssertTarget(t) ==
  CASE t = "term"             -> "raised"
    [] ret[t] = "exc_reason"  -> "finally_raise"
    [] OTHER                  -> "except"

\* The assert loop: the event must not be recorded yet.
RecordCheck(t) ==
  /\ pc[t] = "record"
  /\ IF rec[t] \in ToSet(events)
       THEN pc' = [pc EXCEPT ![t] = AssertTarget(t)]
       ELSE pc' = [pc EXCEPT ![t] = "append"]
  /\ UNCHANGED <<events, terminated, failure_reason, machine, retval,
                 run_completed, rec, ret>>

RecordAppend(t) ==
  /\ pc[t] = "append"
  /\ events' = Append(events, rec[t])
  /\ pc' = [pc EXCEPT ![t] = ret[t]]
  /\ UNCHANGED <<terminated, failure_reason, machine, retval, run_completed,
                 rec, ret>>

-----------------------------------------------------------------------------
(* BenchmarkRun.run                                                        *)

\* cache.Init and cache.ReadResult: a cached result, a miss (record WAITING
\* and go acquire a machine), or an exception.
RunReadCache ==
  /\ pc.run = "start"
  /\ \/ \E rv \in {0, 1} : retval' = rv /\ Goto("run", "check_term")
     \/ Record("run", STATUS_WAITING, "acquire") /\ UNCHANGED retval
     \/ Goto("run", "except") /\ UNCHANGED retval
  /\ UNCHANGED <<events, terminated, failure_reason, machine, run_completed>>

\* Seeded bug: the loop never looks at self.terminated.
RunAcquireCheckNoFlag ==
  /\ pc.run = "acquire"
  /\ Goto("run", "acquire_call")
  /\ UNCHANGED <<events, terminated, failure_reason, machine, retval,
                 run_completed>>

\* AcquireMachine's loop head: `if self.terminated: raise Exception(...)`.
RunAcquireCheck ==
  /\ pc.run = "acquire"
  /\ Goto("run", IF terminated THEN "except" ELSE "acquire_call")
  /\ UNCHANGED <<events, terminated, failure_reason, machine, retval,
                 run_completed>>

\* machine_manager.AcquireMachine: None means sleep and loop again; a
\* machine is stored in self.machine and RunTest records IMAGING.
RunAcquireMachine ==
  /\ pc.run = "acquire_call"
  /\ \/ Goto("run", "acquire") /\ UNCHANGED machine
     \/ machine' = TRUE /\ Record("run", STATUS_IMAGING, "image")
  /\ UNCHANGED <<events, terminated, failure_reason, retval, run_completed>>

\* machine_manager.ImageMachine, then Record(RUNNING); or an exception.
RunImage ==
  /\ pc.run = "image"
  /\ \/ Record("run", STATUS_RUNNING, "autotest")
     \/ Goto("run", "except")
  /\ UNCHANGED <<events, terminated, failure_reason, machine, retval,
                 run_completed>>

\* autotest_runner.Run, run_completed, Result.CreateFromRun and
\* cache.StoreResult; or an exception from any of them.
RunAutotest ==
  /\ pc.run = "autotest"
  /\ \/ \E rv \in {0, 1} : /\ retval' = rv /\ run_completed' = TRUE
                           /\ Goto("run", "check_term")
     \/ Goto("run", "except") /\ UNCHANGED <<retval, run_completed>>
  /\ UNCHANGED <<events, terminated, failure_reason, machine>>

\* `if self.terminated: return`, then `if not self.result.retval`.
RunCheckTerminated ==
  /\ pc.run = "check_term"
  /\ CASE terminated  -> Goto("run", "finally")
       [] retval = 0  -> Record("run", STATUS_SUCCEEDED, "finally")
       [] OTHER       -> Goto("run", "last_check")
  /\ UNCHANGED <<events, terminated, failure_reason, machine, retval,
                 run_completed>>

\* Non-zero retval: unless the last event is FAILED, set the reason and
\* record FAILED.
RunRecordRetvalFailure ==
  /\ pc.run = "last_check"
  /\ IF LastEvent # STATUS_FAILED
       THEN /\ failure_reason' = "retval"
            /\ Record("run", STATUS_FAILED, "finally")
       ELSE Goto("run", "finally") /\ UNCHANGED failure_reason
  /\ UNCHANGED <<events, terminated, machine, retval, run_completed>>

\* except Exception: unless the last event is FAILED, record FAILED and then
\* set the reason.
RunExcept ==
  /\ pc.run = "except"
  /\ IF LastEvent # STATUS_FAILED
       THEN Record("run", STATUS_FAILED, "exc_reason")
       ELSE Goto("run", "finally")
  /\ UNCHANGED <<events, terminated, failure_reason, machine, retval,
                 run_completed>>

RunExceptReason ==
  /\ pc.run = "exc_reason"
  /\ failure_reason' = "exception"
  /\ Goto("run", "finally")
  /\ UNCHANGED <<events, terminated, machine, retval, run_completed>>

\* finally: a held machine that IsReachable() is released, and an exception
\* raised in the except clause then leaves the thread.  For an unreachable
\* one, the message "Machine % is not reachable, removing it." % name has
\* a `% i` conversion of a string: TypeError, raised before RemoveMachine
\* and ReleaseMachine, so the machine stays acquired and run() raises.
RunFinally ==
  /\ pc.run \in {"finally", "finally_raise"}
  /\ \/ machine' = FALSE
        /\ Goto("run", IF pc.run = "finally" THEN "done" ELSE "raised")
     \/ machine /\ UNCHANGED machine /\ Goto("run", "raised")
  /\ UNCHANGED <<events, terminated, failure_reason, retval, run_completed>>

-----------------------------------------------------------------------------
(* BenchmarkRun.Terminate, called from another thread at any time          *)

\* self.terminated = True; self.autotest_runner.Terminate().
TerminateStart ==
  /\ pc.term = "t_idle"
  /\ terminated' = TRUE
  /\ Goto("term", "t_check")
  /\ UNCHANGED <<events, failure_reason, machine, retval, run_completed>>

\* Seeded bug: Terminate records FAILED without a failure reason.
TerminateRecordNoReason ==
  /\ pc.term = "t_check"
  /\ IF LastEvent # STATUS_FAILED
       THEN Record("term", STATUS_FAILED, "t_done")
       ELSE Goto("term", "t_done")
  /\ UNCHANGED <<events, terminated, failure_reason, machine, retval,
                 run_completed>>

\* Unless the last event is FAILED, record FAILED, then set the reason.
TerminateRecord ==
  /\ pc.term = "t_check"
  /\ IF LastEvent # STATUS_FAILED
       THEN Record("term", STATUS_FAILED, "t_reason")
       ELSE Goto("term", "t_done")
  /\ UNCHANGED <<events, terminated, failure_reason, machine, retval,
                 run_completed>>

TerminateReason ==
  /\ pc.term = "t_reason"
  /\ failure_reason' = "terminated"
  /\ Goto("term", "t_done")
  /\ UNCHANGED <<events, terminated, machine, retval, run_completed>>

-----------------------------------------------------------------------------

RunStep ==
  \/ RunReadCache \/ RunAcquireCheck \/ RunAcquireMachine \/ RunImage
  \/ RunAutotest \/ RunCheckTerminated \/ RunRecordRetvalFailure
  \/ RunExcept \/ RunExceptReason \/ RunFinally
  \/ RecordCheck("run") \/ RecordAppend("run")

TermStep ==
  \/ TerminateRecord \/ TerminateReason
  \/ RecordCheck("term") \/ RecordAppend("term")

Next == RunStep \/ TerminateStart \/ TermStep

\* Both threads are scheduled fairly once running; nothing forces a caller
\* to invoke Terminate().
Spec == Init /\ [][Next]_vars /\ WF_vars(RunStep) /\ WF_vars(TermStep)

Finished == pc.run \in {"done", "raised"} /\ pc.term \in {"t_idle", "t_done", "raised"}

-----------------------------------------------------------------------------

TypeOK ==
  /\ events \in Seq(Statuses) /\ events # <<>>
  /\ terminated \in BOOLEAN
  /\ failure_reason \in Reasons
  /\ machine \in BOOLEAN
  /\ retval \in {NoResult, 0, 1}
  /\ run_completed \in BOOLEAN
  /\ pc.run \in RunLabels /\ pc.term \in TermLabels
  /\ rec \in [Threads -> Statuses]
  /\ ret \in [Threads -> RunLabels \cup TermLabels]

\* Timeline.Record asserts that an event is recorded at most once: no
\* thread is ever about to record an event the timeline already holds, and
\* the timeline never holds an event twice.
RecordedOnce ==
  /\ IsInjective(events)
  /\ \A t \in Threads : pc[t] = "record" => rec[t] \notin ToSet(events)


\* Whenever both threads have finished, FAILED is on the timeline exactly
\* when a failure reason was set: whichever of run()'s two failure paths and
\* Terminate() records FAILED also explains it, even when the other thread's
\* `GetLastEvent() != FAILED` check made it skip its own record.
FailureExplained ==
  Finished => (STATUS_FAILED \in ToSet(events) <=> failure_reason # "")

\* When run() returns or raises, the machine it acquired has been released
\* by the finally clause, whatever path (cache, terminate, exception,
\* assertion inside the except clause) led there.  The TypeError of the
\* unreachable-machine message (line 113) skips the release, so this does
\* not hold of the code (H12 in the README).
MachineReleased ==
  pc.run \in {"done", "raised"} => ~machine

\* Once Terminate() has set self.terminated, run() eventually leaves,
\* even if no machine ever becomes available: the AcquireMachine loop
\* checks the flag on every iteration.
TerminateHonoured ==
  terminated ~> pc.run \in {"done", "raised"}

====
