--------------------------- MODULE JobGroupManager ---------------------------
(***************************************************************************)
(* v14/automation/server/job_group_manager.py: one job group added by a    *)
(* client thread, which may then kill it, while one thread per job reports *)
(* the job's completion through NotifyJobComplete.                         *)
(*                                                                         *)
(* job_condition is a threading.Condition; its lock is `owner`, its wait   *)
(* set `waiting`.  A method body runs under the lock and touches only the  *)
(* group, so it is one step; the job statuses it reads are written by the  *)
(* job manager in the job's own thread, outside job_condition, before it   *)
(* calls NotifyJobComplete (JobFinish).  The job manager itself is not in  *)
(* this repository: AddJob starts a job, KillJob makes it finish FAILED,   *)
(* CleanUpJob is recorded but has no other effect here.                    *)
(***************************************************************************)
EXTENDS Integers, Sequences, SequencesExt

CONSTANTS
  JobList,      \* job_group.jobs, in list order
  Client,       \* the thread calling AddJobGroup and KillJobGroup
  NoThread      \* no thread holds job_condition

Jobs == ToSet(JobList)

ASSUME IsInjective(JobList) /\ Client \notin Jobs /\ NoThread \notin Jobs \cup {Client}

\* automation.common.job / job_group statuses.  A job is "RUNNING" from
\* AddJob until the job manager sets its final status.
JOB_SUCCEEDED == "SUCCEEDED"
JOB_FAILED == "FAILED"
GROUP_SUCCEEDED == "SUCCEEDED"
GROUP_FAILED == "FAILED"
GROUP_EXECUTING == "EXECUTING"

VARIABLES
  group_status,      \* job_group.status
  cleanup_on_failure,\* job_group.cleanup_on_failure
  cleanup_on_completion, \* job_group.cleanup_on_completion
  added,             \* job_group is in all_job_groups
  job_status,        \* job.status of each job, "NEW" before AddJob
  killed,            \* jobs passed to job_manager.KillJob
  cleaned,           \* jobs passed to job_manager.CleanUpJob
  owner,             \* the thread holding job_condition's lock
  waiting,           \* threads blocked in job_condition.wait()
  pc                 \* control point of the client and of each job thread

vars == <<group_status, cleanup_on_failure, cleanup_on_completion, added,
          job_status, killed, cleaned, owner, waiting, pc>>

Threads == Jobs \cup {Client}

Init ==
  /\ group_status = "NEW"
  /\ cleanup_on_failure \in BOOLEAN
  /\ cleanup_on_completion \in BOOLEAN
  /\ added = FALSE
  /\ job_status = [j \in Jobs |-> "NEW"]
  /\ killed = {}
  /\ cleaned = {}
  /\ owner = NoThread
  /\ waiting = {}
  /\ pc = [t \in Threads |-> IF t = Client THEN "add" ELSE "idle"]

Free == owner = NoThread
Terminal(s) == s \in {GROUP_SUCCEEDED, GROUP_FAILED}

-----------------------------------------------------------------------------
(* The client thread                                                       *)

\* Seeded bug: the jobs are never handed to job_manager.AddJob.
AddJobGroupNoJobs ==
  /\ pc[Client] = "add" /\ Free
  /\ added' = TRUE
  /\ group_status' = GROUP_EXECUTING
  /\ pc' = [pc EXCEPT ![Client] = "added"]
  /\ UNCHANGED <<cleanup_on_failure, cleanup_on_completion, killed, cleaned,
                 owner, waiting, job_status>>

\* AddJobGroup: under the lock, recreate the home directory, append the
\* group, AddJob every job, set EXECUTING.
AddJobGroup ==
  /\ pc[Client] = "add" /\ Free
  /\ added' = TRUE
  /\ job_status' = [j \in Jobs |-> "RUNNING"]
  /\ group_status' = GROUP_EXECUTING
  /\ pc' = [pc EXCEPT ![Client] = "added"]
  /\ UNCHANGED <<cleanup_on_failure, cleanup_on_completion, killed, cleaned,
                 owner, waiting>>

\* KillJobGroup: under the lock, KillJob every job, then test the loop
\* condition; a terminal group releases the lock and returns, otherwise
\* wait() releases it and blocks.
KillJobGroup ==
  /\ pc[Client] = "added" /\ Free
  /\ killed' = Jobs
  /\ IF Terminal(group_status)
       THEN pc' = [pc EXCEPT ![Client] = "done"] /\ UNCHANGED waiting
       ELSE /\ pc' = [pc EXCEPT ![Client] = "wait"]
            /\ waiting' = waiting \cup {Client}
  /\ UNCHANGED <<group_status, cleanup_on_failure, cleanup_on_completion,
                 added, job_status, cleaned, owner>>

\* A notified waiter reacquires the lock inside wait() and tests the loop
\* condition again.
KillJobGroupWakeUp ==
  /\ pc[Client] = "wait" /\ Client \notin waiting /\ Free
  /\ IF Terminal(group_status)
       THEN pc' = [pc EXCEPT ![Client] = "done"] /\ UNCHANGED waiting
       ELSE waiting' = waiting \cup {Client} /\ UNCHANGED pc
  /\ UNCHANGED <<group_status, cleanup_on_failure, cleanup_on_completion,
                 added, job_status, killed, cleaned, owner>>

-----------------------------------------------------------------------------
(* The job threads                                                         *)

\* The job manager sets the job's final status in the job's thread; a
\* killed job may still have succeeded before the kill took effect.
JobFinish(j) ==
  /\ pc[j] = "idle" /\ job_status[j] = "RUNNING"
  /\ \E st \in {JOB_SUCCEEDED, JOB_FAILED} :
       job_status' = [job_status EXCEPT ![j] = st]
  /\ pc' = [pc EXCEPT ![j] = "notify"]
  /\ UNCHANGED <<group_status, cleanup_on_failure, cleanup_on_completion,
                 added, killed, cleaned, owner, waiting>>

\* Index in job_group.jobs where the `for other_job` loop stops: the first
\* job that has not SUCCEEDED, 0 if there is none.
FirstUnfinished == SelectInSeq(JobList, LAMBDA o : job_status[o] # JOB_SUCCEEDED)

\* The loop's `assert other_job.status != STATUS_FAILED` fails exactly when
\* the job it stops at has FAILED.
LoopAssertFails ==
  FirstUnfinished # 0 /\ job_status[JobList[FirstUnfinished]] = JOB_FAILED

\* Seeded bug: the group is declared finished as soon as the notifying job
\* succeeded, without looking at the other jobs.
NotifyJobCompleteNoLoop(j) ==
  /\ pc[j] = "notify" /\ Free
  /\ CASE group_status = GROUP_FAILED ->
            UNCHANGED <<group_status, killed, cleaned>>
       [] job_status[j] = JOB_FAILED ->
            /\ group_status' = GROUP_FAILED
            /\ killed' = IF cleanup_on_failure THEN killed \cup Jobs ELSE killed
            /\ cleaned' = IF cleanup_on_failure THEN cleaned \cup Jobs ELSE cleaned
       [] OTHER ->
            /\ group_status' = GROUP_SUCCEEDED
            /\ cleaned' = IF cleanup_on_completion THEN cleaned \cup Jobs ELSE cleaned
            /\ UNCHANGED killed
  /\ waiting' = {}
  /\ pc' = [pc EXCEPT ![j] = "done"]
  /\ UNCHANGED <<cleanup_on_failure, cleanup_on_completion, added, job_status,
                 owner>>

\* Seeded bug: the completion path returns without notifyAll.
NotifyJobCompleteNoNotify(j) ==
  /\ pc[j] = "notify" /\ Free
  /\ CASE group_status = GROUP_FAILED ->
            /\ waiting' = {}
            /\ UNCHANGED <<group_status, killed, cleaned>>
       [] job_status[j] = JOB_FAILED ->
            /\ group_status' = GROUP_FAILED
            /\ killed' = IF cleanup_on_failure THEN killed \cup Jobs ELSE killed
            /\ cleaned' = IF cleanup_on_failure THEN cleaned \cup Jobs ELSE cleaned
            /\ UNCHANGED waiting
       [] FirstUnfinished = 0 ->
            /\ group_status' = GROUP_SUCCEEDED
            /\ cleaned' = IF cleanup_on_completion THEN cleaned \cup Jobs ELSE cleaned
            /\ UNCHANGED <<killed, waiting>>
       [] OTHER -> UNCHANGED <<group_status, killed, cleaned, waiting>>
  /\ pc' = [pc EXCEPT ![j] = "done"]
  /\ UNCHANGED <<cleanup_on_failure, cleanup_on_completion, added, job_status,
                 owner>>

\* NotifyJobComplete(job), the job manager's listener call, under the lock:
\*  - a group that already FAILED: notifyAll and return;
\*  - a FAILED job: the group FAILS, and with cleanup_on_failure every job
\*    is killed and cleaned up;
\*  - a SUCCEEDED job: if every job SUCCEEDED the group SUCCEEDS, and with
\*    cleanup_on_completion every job is cleaned up.
\* Then notifyAll and release.  A failing assert raises AssertionError with
\* the lock still held: nothing releases it, and the job thread ends.
NotifyJobComplete(j) ==
  /\ pc[j] = "notify" /\ Free
  /\ CASE group_status = GROUP_FAILED ->
            /\ UNCHANGED <<group_status, killed, cleaned, owner>>
            /\ waiting' = {}
            /\ pc' = [pc EXCEPT ![j] = "done"]
       [] job_status[j] = JOB_FAILED ->
            /\ group_status' = GROUP_FAILED
            /\ killed' = IF cleanup_on_failure THEN killed \cup Jobs ELSE killed
            /\ cleaned' = IF cleanup_on_failure THEN cleaned \cup Jobs ELSE cleaned
            /\ waiting' = {}
            /\ pc' = [pc EXCEPT ![j] = "done"]
            /\ UNCHANGED owner
       [] LoopAssertFails ->
            /\ owner' = j
            /\ pc' = [pc EXCEPT ![j] = "raised"]
            /\ UNCHANGED <<group_status, killed, cleaned, waiting>>
       [] FirstUnfinished = 0 ->
            /\ group_status' = GROUP_SUCCEEDED
            /\ cleaned' = IF cleanup_on_completion THEN cleaned \cup Jobs ELSE cleaned
            /\ waiting' = {}
            /\ pc' = [pc EXCEPT ![j] = "done"]
            /\ UNCHANGED <<killed, owner>>
       [] OTHER ->
            /\ waiting' = {}
            /\ pc' = [pc EXCEPT ![j] = "done"]
            /\ UNCHANGED <<group_status, killed, cleaned, owner>>
  /\ UNCHANGED <<cleanup_on_failure, cleanup_on_completion, added, job_status>>

-----------------------------------------------------------------------------

Next ==
  \/ AddJobGroup \/ KillJobGroup \/ KillJobGroupWakeUp
  \/ \E j \in Jobs : JobFinish(j) \/ NotifyJobComplete(j)

\* Every thread that can take the lock eventually does; a killed job
\* eventually finishes.  A job nobody kills may run forever, and the client
\* need not call KillJobGroup.
Fairness ==
  /\ WF_vars(KillJobGroupWakeUp)
  /\ \A j \in Jobs : /\ WF_vars(NotifyJobComplete(j))
                     /\ WF_vars(j \in killed /\ JobFinish(j))

Spec == Init /\ [][Next]_vars /\ Fairness

-----------------------------------------------------------------------------

TypeOK ==
  /\ group_status \in {"NEW", GROUP_EXECUTING, GROUP_SUCCEEDED, GROUP_FAILED}
  /\ cleanup_on_failure \in BOOLEAN /\ cleanup_on_completion \in BOOLEAN
  /\ added \in BOOLEAN
  /\ job_status \in [Jobs -> IF added THEN {"RUNNING", JOB_SUCCEEDED, JOB_FAILED}
                                      ELSE {"NEW"}]
  /\ killed \subseteq Jobs /\ cleaned \subseteq Jobs
  /\ owner \in Threads \cup {NoThread}
  /\ waiting \subseteq {Client}
  /\ pc[Client] \in {"add", "added", "wait", "done"}
  /\ \A j \in Jobs : pc[j] \in {"idle", "notify", "done", "raised"}

\* The group's status agrees with its jobs whatever the order of the
\* notifications: SUCCEEDED only when every job succeeded, FAILED only when
\* some job failed; and once every job has been reported the group is in
\* one of the two.
GroupStatusAgrees ==
  /\ group_status = GROUP_SUCCEEDED => \A j \in Jobs : job_status[j] = JOB_SUCCEEDED
  /\ group_status = GROUP_FAILED => \E j \in Jobs : job_status[j] = JOB_FAILED
  /\ (\A j \in Jobs : pc[j] = "done") => Terminal(group_status)

\* KillJobGroup returns: once the client has called it, it eventually gets
\* past the wait loop, provided no NotifyJobComplete has died holding the
\* lock.
KillJobGroupReturns ==
  [](\A j \in Jobs : pc[j] # "raised") => (pc[Client] = "wait" ~> pc[Client] = "done")

====
