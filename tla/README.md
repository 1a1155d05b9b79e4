# TLA+ models of external_toolchain-utils

This directory holds TLA+ models of the parts of the repository whose behaviour
a model checker can explore: their state machines, the orders in which their
steps can happen, and what their results must satisfy. Every definition is
translated from the Python source under `src/`; `PROJECT.json` maps each
definition to the lines it models.

## The system and its parts

The repository is a collection of ChromiumOS toolchain tools. Most of them
are thin wrappers over git, gsutil, ebuild files and shell commands. The parts
with real control structure are:

| part | source | what it does | model |
|---|---|---|---|
| AFDO profile analysis | `afdo_tools/bisection/afdo_prof_analysis.py` | bisects a good and a bad AFDO profile with an external decider script to find the functions (or combinations) that make the profile BAD | `AfdoProfAnalysis` |
| crosperf BenchmarkRun + Timeline | `crosperf/benchmark_run.py`, `cros_utils/timeline.py` | a benchmark thread that can be terminated from another thread while it records its status on a timeline | `BenchmarkRun` |
| JobGroupManager | `v14/automation/server/job_group_manager.py` | job group lifecycle under a condition variable | `JobGroupManager` |
| machine lock manager | `v14/lock_machine.py` | lock/unlock of test machines | `MachineLock` (abstract), `LockMachine` |
| CommandExecuter | `utils/command_executer.py` | runs a shell command, pulling its output through a poll loop, with timeouts and a terminator another thread can set | `CommandExecuter` |
| nightly revert checker | `llvm_tools/nightly_revert_checker.py` | remembers which reverts have been reported or cherry-picked per branch | `NightlyRevertChecker` |
| LLVM bisection | `llvm_tools/llvm_bisection.py` | picks the next revisions to try from the states of earlier tryjobs | `LlvmBisection` |
| rust uprev | `rust_tools/rust_uprev.py`, `llvm_tools/git.py` | a resumable list of steps that uprevs Rust in the overlay, saving the completed steps in a state file | `RustUprev` |

The other files (image download and imaging, suite runner, the rest of the
git and hash helpers, patch management, settings and labels, tests) are
sequences of I/O calls or configuration records; `PROJECT.json` lists them as
not modelled, each with the reason.

## AFDO profile analysis (`AfdoProfAnalysis.tla`)

### The code

`main` validates that the good profile is GOOD and the bad one BAD
(`bisect_profiles_wrapper`), shuffles the common functions and calls the
recursive `bisect_profiles(lo, hi)`. A frame asks the decider about the
profile with the bad values of `[lo, mid)` spliced into the good one, then
about `[mid, hi)`, recurses into each BAD half, and if both halves are GOOD
calls `range_search`, which runs up to `_NUM_RUNS_RANGE_SEARCH` trials of a
binary search for an upper border (`find_upper_border`) and a lower border
(`find_lower_border`) of a problematic range crossing `mid`, reshuffling the
narrowed pools between trials. Finally `check_good_not_bad` and
`check_bad_not_good` ask two more questions. Every question is one run of
the external decider (`generate_decider.run`), which raises `ValueError` on
an exit code outside `statuses`.

### The model

* **Profiles** are records `[bad, goodOnly, badOnly]`: the set of common
  functions carrying their bad value and whether the good-only and bad-only
  functions are present. Temp files and the text format are left out.
* **The decider** is a constant: either a set of culprit sets (the profile is
  BAD iff it contains all of one culprit set, a monotone oracle; the model
  values `BadOnlyFuncs` and `LacksGoodOnlyFuncs` let a culprit depend on the
  functions that only one profile has), or `Flaky`, which may return any of
  0, 1, 125, 127 or the unexpected code 42 on every call.
* **Control**: `phase` is the driver's position; `stack` is the sequence of
  `bisect_profiles` frames, each with a `pc` saying which decider call or
  recursive call comes next and the two verdicts; `rs` is the state of the
  active `range_search` (trial number, pools, the spliced profile, the
  interval of the border search and `last_bad_val`). Each action is one
  decider call, or one return, with everything the code does up to the next
  call: `BisectLoMid`, `BisectMidHi`, `BisectRecurseLo/Hi` (push a frame if
  BAD), `BisectJoin` (start a range search or return), `RangeTrial`,
  `FindUpperBorderProbe/Done`, `FindLowerBorderProbe/Done`, `RangeExhausted`,
  the validation and boundary checks, and `UnexpectedReturnCode` (the
  `ValueError` of any pending call).
* **Python 2 arithmetic** is kept: `(lo + hi) / 2` is floor division,
  `int(round((x + y) / 2.0))` rounds half up, and `last_bad_val or hi` treats
  both `None` and `0` as false (`PyOr`).
* **Randomness**: `random.shuffle` is every permutation (`SetToSeqs`).
* **Left out**: the run counter (used only in a log line), logging, JSON
  output and the final sorting of results (results are sets).

### Runs

| run | cfg | checks | result |
|---|---|---|---|
| afdo_safety | `MCAfdoProfAnalysis.cfg` | `TypeOK`, `IndividualsExact`, `NarrowingIndexDefined`, `RangeStraddlesMid`, `Termination` | pass |
| afdo_range_overlap | `MCAfdoRangeOverlap.cfg` | `RangesAreBad` | violation |

* `IndividualsExact`: when the analysis ends with a monotone decider, the
  individuals are exactly the functions whose solitary bad value makes the
  good profile BAD. It needs the whole recursion to agree with the oracle.
* `NarrowingIndexDefined`: whenever the lower border is found, the range
  `funcs[lower:upper]` is non-empty, starts in the left pool and ends in the
  right pool, so the two `.index` calls of the narrowing step cannot raise.
* `RangeStraddlesMid` (action property): every range a search adds lies
  inside the slice of its frame and has functions on both sides of the
  frame's `mid`.
* `Termination`: every behaviour reaches `done` or `failed`.
* `RangesAreBad`: every reported range makes the good profile BAD, which the
  docstring of `bisect_profiles` promises. It does not hold (see findings).

### Findings

1. **Ranges that are not BAD** (afdo_range_overlap). With culprit sets
   `{f1,f4}` and `{f1,f2,f5}` and six functions, `range_search` returns
   `{f1,f3,f5}`. `find_lower_border` resets *all* of `funcs` to bad after each
   probe (lines 247-248), so it searches a profile that includes functions
   beyond the upper border, and `last_bad_val or lo` (line 240) discards a
   BAD answer at index 0.
2. **Whole list reported when BAD never reappears** (no run). If only the
   bad-only functions make a profile BAD, every trial is GOOD, the borders
   fall back to `hi` and `lo`, and the whole list is returned as a range;
   the spec says the result is then empty. `RangesAreBad` states the
   promise; the run above fails it first through finding 1.

### Bounds

* afdo_safety: 4 common functions (every permutation), every decider with
  one or two culprit sets of 1-2 elements drawn from the functions and the
  two markers, plus the flaky decider; 5 range-search trials. Four functions
  give frames of size 4 and 2, ranges across `mid`, upper searches with
  more than one probe and narrowed pools that need reshuffling.
* `Termination` is checked in the same run. With the flaky decider, a range
  search can use all five trials, so only the trial count ends it.
* The violation runs use the smallest configuration that shows each finding.

### Fairness

The program is one thread that calls the decider synchronously, so every
step that is enabled is eventually taken: `WF_vars(Next)`. The program really
stops, so deadlock checking is off in every cfg.

## crosperf BenchmarkRun (`BenchmarkRun.tla`)

### The code

`BenchmarkRun.run()` runs in its own thread. It reads the results cache,
loops in `AcquireMachine` until a machine is free, images it, runs autotest
and stores the result. It records each status with `Timeline.Record`, which
asserts that the event is not yet on the timeline. On a non-zero return
value, or in `except Exception`, it records FAILED unless the last event is
already FAILED and sets `failure_reason`. Its `finally` clause releases the
machine. Another thread can call `Terminate()` at any moment: it sets
`terminated`, stops the autotest runner, records FAILED (again, unless the
last event is FAILED) and sets the reason.

### The model

There are two threads, `run` and `term`, each with a `pc`. Every statement
that reads or writes shared state is one step, because Python threads
interleave between statements. `Timeline.Record` is two steps:
`RecordCheck` runs the assert loop and `RecordAppend` appends the event.

An `AssertionError` goes where the code sends it (`AssertTarget`):
* out of `Terminate()`;
* into run()'s `except` clause;
* or, when the except clause's own `Record` raised, through `finally` and
  out of the thread.

The machine manager, the cache and the autotest runner are external. Each of
their calls is one step with a nondeterministic outcome: a cache hit or miss,
a machine or None, a return value, or an exception.

### Runs

| run | cfg | checks | result |
|---|---|---|---|
| benchmark_run_terminate | `MCBenchmarkRun.cfg` | `TypeOK`, `FailureExplained`, `TerminateHonoured` | pass |
| benchmark_run_record_twice | `MCBenchmarkRunRecord.cfg` | `RecordedOnce` | violation |

* `FailureExplained`: once both threads have finished, FAILED is on the
  timeline exactly when `failure_reason` is set. This holds even when one
  thread skipped its own record because of the other's.
* `TerminateHonoured`: after `Terminate()`, run() eventually leaves. This
  holds even if no machine ever frees up, because the acquire loop checks the
  flag.
* `RecordedOnce` fails. Both threads can pass the check
  `GetLastEvent() != STATUS_FAILED` before either of them records FAILED.
  The second `Record` then raises `AssertionError` (timeline.py:30).

`RunFinally` is the `finally` clause. For a machine that is still reachable it
releases the machine. For an unreachable one, the log message
`"Machine % is not reachable, removing it." % name` (line 114) has a `% i`
conversion of a string, which raises `TypeError`. `RemoveMachine` and
`ReleaseMachine` are then skipped, the machine stays acquired and run()
raises. `MachineReleased` (run() never leaves while it still holds a machine)
is kept in the module as the statement this breaks; TLC finds it violated on
that path, and no run checks it.

### Fairness and bounds

Both threads are weakly fair once they are running; nothing forces
`Terminate()` to be called. Each state variable has a small domain, so the
whole state space is explored. Deadlock checking is off because both threads
really stop.

## JobGroupManager (`JobGroupManager.tla`, `MCJobGroupManager.tla`)

### The code

`JobGroupManager` guards its job groups with one `threading.Condition`,
`job_condition`:
* `AddJobGroup` stores a group and its jobs and marks the group EXECUTING.
* `KillJobGroup` kills every job and then waits on the condition until the
  group is SUCCEEDED or FAILED.
* The job manager calls `NotifyJobComplete(job)` in each job's thread after it
  has set that job's final status. The method runs under the condition and
  does one of three things:
  * it fails the group (with cleanup) when this job failed;
  * it asserts that no other job has failed and returns while any job is
    unfinished;
  * or it marks the group SUCCEEDED (with cleanup) and calls `notifyAll`.

### The model

There is one group of three jobs (`MCJobList`) and three kinds of actor: the
client (`AddJobGroup`, `KillJobGroup`, `KillJobGroupWakeUp`), one thread per
job (`JobFinish`, then `NotifyJobComplete`), and the lock.

The condition is `owner` (the thread holding the lock) plus `waiting` (the
threads in `wait`). `JobFinish` is the job manager's write of the final
status, which happens outside the lock; it is the environment, not code of
this file.

A failed assert in `NotifyJobComplete` moves the thread to `raised` and
leaves it as `owner`, because the method has no try/finally.

### Runs

| run | cfg | checks | result |
|---|---|---|---|
| job_group_lifecycle | `MCJobGroupManager.cfg` | `TypeOK`, `GroupStatusAgrees`, `KillJobGroupReturns` | pass |

* `GroupStatusAgrees`: a SUCCEEDED group has only succeeded jobs, a FAILED
  group has a failed job, and once every job has reported, the group is
  SUCCEEDED or FAILED. This holds in every order of completions and reports.
* `KillJobGroupReturns`: if no notification raises, a client waiting in
  `KillJobGroup` returns.
The model also reaches the failed assert at line 100. It needs j2's status
to be FAILED before j2's notification has run, so j1's notification finds it.
`JobFinish` writes a status outside `job_condition`, as the job manager
does, and the notifying thread then dies holding the lock. The code does
not ensure that the assert never fires, so no property states it;
`KillJobGroupReturns` excludes the behaviours where it fired, since
`KillJobGroup` can never get the lock after it. The hazard list records both.

### Fairness and bounds

The model has these fairness assumptions:
* The lock holder and a woken waiter make progress (weak fairness).
* Each job's notification runs once its status is set.
* A killed job finishes.

Three jobs is the smallest group in which one report sees one job finished
and another still running, with a third to keep the group open.

## Machine locks (`MachineLock.tla`, `LockMachine.tla`, `MCLockMachine.tla`)

### The code

`lock_machine.py` keeps one lock file per machine, holding a pickled
`LockDescription` (owner, exclusive, counter). Each of the following calls
opens the file with `FileLock`:
* `Lock` and `Unlock` (`Main` with `--lock`/`--unlock`, `--shared`,
  `--ignore_ownership`);
* `ListLock`;
* `TryLock`, which retries `Lock` until its timeout runs out.

`FileLock` works in three steps:
* `__enter__` takes `flock(LOCK_EX)` and unpickles the file; an empty file
  gives a fresh description, and an IOError gives None.
* The body checks and updates the description.
* `__exit__` truncates the file, writes the description back and closes the
  file.

### The model

`MachineLock` is the abstract lock table: an exclusive owner or NoUser, and a
shared counter. It has four atomic operations.

`LockMachine` models the real protocol:
* Processes (of given users) make `Invoke`, `Enter` and `Exit` steps, which
  map as follows:
  * `Invoke`: the choice of call;
  * `Enter`: the flock and `pickle.load`;
  * `Exit`: the body, the truncate and write, the close, and TryLock's
    retry decision with `sleep = timeout / 10`.
* The file is `<<>>` or `<<description>>`.
* `LockMachineFaults` extends it with the failures `FileLock` meets:
  * `pickle.load` may raise IOError (`EnterIOError`), and `__enter__`
    returns None; the body and then `__exit__` raise after the truncate
    (`ExitWithoutDescription`);
  * a process may be killed between truncate and write (`KilledInExit`).
* `ListLock` reads a description and writes it back unchanged; only the
  listing depends on it.
* Reasons, times, the listing format and option parsing are left out.

`LockTable` maps the file, read as `pickle.load` reads it, onto
`MachineLock`. `Refinement` checks `MachineLock!Spec` as a property.

### Runs

| run | cfg | checks | result |
|---|---|---|---|
| lock_machine_protocol | `MCLockMachine.cfg` | `TypeOK`, `Refinement`, `ExclusiveReleasedByOwner`, `CallReturns` | pass |
| lock_machine_faults | `MCLockMachineFaults.cfg` (`MCLockMachineFaults`) | `ExclusiveReleasedByOwner` | violation |

* `Refinement`: every rewrite of the file under the flock is one operation of
  the abstract table or none, however the processes interleave.
* `ExclusiveReleasedByOwner` (action property): an exclusive lock disappears
  from the file only through an unlock by its owner's user or with
  `--ignore_ownership`.
* `CallReturns`: with TryLock timeouts of 10 and 30, every call returns;
  the flock is always released and TryLock gives up once its timeout is
  used up. 10 is the smallest timeout whose sleep (`timeout / 10`) is not
  0, so the boundary case is checked.

### Findings

1. **A dying call erases another user's lock** (lock_machine_faults).
   `__exit__` truncates before it writes (lines 116-117). A kill between the
   two, or an IOError in `__enter__` (lines 111-113), leaves an empty file,
   which the next call reads as unlocked. This applies to every call that
   opens the file: a failed lock attempt of another user, or a listing.

Short TryLock timeouts are a hazard rather than a run: `sleep = timeout / 10`
(line 190) is 0 for timeouts under 10, so the timeout never decreases and
TryLock spins while the lock is held. With `Timeouts = {5, 30}` in
`MCLockMachine.cfg`, `CallReturns` fails in two ways: the TryLock itself never
returns, and by retaking the flock at once it can starve another caller
waiting for the flock, which weak fairness does not prevent (flock promises
no fairness). The property is stated for timeouts of 10 or more.

### Fairness and bounds

A process inside a call keeps running: `Enter` (once the flock is free),
`Exit` (and, with faults, `ExitWithoutDescription`) are weakly fair. Starting a call is the
user's choice and is not fair.

The bounds are three processes of two users (two of them the same user) and
one call each. That covers:
* a lock held by one user and attacked by the other user;
* an unlock by the same user from another process;
* a third process contending for the flock.

The TryLock timeout is 30, which gives several retries of 3 seconds each. Deadlock checking is off because processes stop after their
calls.

## LLVM bisection (`LlvmBisection.tla`)

### The code

`llvm_bisection.py` is run again and again on one `--last_tested` JSON file.
Each run of `main()` does the following:
1. It reads the file; an absent file means no jobs.
2. `GetStartAndEndRevision` computes the greatest good and the least bad
   revision from the recorded tryjobs, and the pending revisions between them.
3. `GetRevisionsBetweenBisection` lists the revisions between them that are
   not pending and have a git hash. It picks every `index_step`-th of them,
   starting at index `index_step`.
4. `main()` asserts that the pick is non-empty and that no picked revision is
   already in the file.
5. It launches a tryjob per revision (`AddTryjob`).
6. In `finally`, it writes the file back through a `.new` file and a rename.

Tryjob statuses are recorded in the file by another tool between runs.

### The model

* `jobs` is the file's jobs list: a sequence of `[rev, status]`.
* `contents` is `main()`'s copy of the list between `MainLoad` (the read) and
  the write in `MainLaunch` / `MainLaunchFails`. `MainAbort` is any check
  raising before the `try`.
* `MainLaunchFails` is `AddTryjob` raising after `k` launches. It is bounded
  by `MaxFailures`.
* `TryjobResult` is the environment: a pending tryjob gets its verdict
  (`rev >= culprit` is bad) or one of `OtherStatuses`, for example `skip`.
  This can also happen between `MainLoad` and the write, in which case the
  stale copy overwrites it.
* `GetStartAndEndRevision` and `GetRevisionsBetweenBisection` are operators
  that keep Python's integer division and the index range exactly.

### Runs

| run | cfg | checks | result |
|---|---|---|---|
| llvm_bisection | `MCLlvmBisection.cfg` | `TypeOK`, `RevisionsUnique`, `NarrowsToOne` | pass |

* `RevisionsUnique`: no revision ever has two tryjobs, including after a
  skipped tryjob or a failing `AddTryjob`.
* `NarrowsToOne`: if every tryjob ends good or bad, repeated runs leave at
  most one revision between good and bad.
* `NarrowsToOne` promises at most one untested revision, not none. The
  first revision after the good one is never picked (index 0 is skipped),
  so with culprit 1 the runs stop at good 0 and bad 2, with
  `assert revisions` failing on every later run. This is listed as a
  hazard.

### Bounds and fairness

The bounds are:
* revisions 0..7, with revision 3 lacking a git hash;
* `--parallel 2`;
* one skip status and one `AddTryjob` failure.

Six candidate revisions give several runs that each narrow the interval, a
pending revision inside the interval, and the index-0 gap.

The fairness is weak fairness on the run steps (the user keeps running the
tool until it reports nothing to do) and on `TryjobResult` (every tryjob
ends).

The crash window between the rename and the close of the saved file is not
modelled. It is listed as a hazard.

## Nightly revert checker (`NightlyRevertChecker.tla`, `MCNightlyRevertChecker.tla`)

### The code

`nightly_revert_checker.py` runs every night over one state file. A run does
the following:
1. It finds the interesting SHAs: `LLVM_HASH`, plus `LLVM_NEXT_HASH` if it
   differs, from the llvm ebuild (Android uses its two merge-bases instead).
2. It reads the state file (`_read_state`). The file maps a SHA to the
   reverts already handled for it, and is empty if absent.
3. `find_shas` asks `revert_checker.find_reverts` for the reverts across
   each SHA in turn. It fills `new_state[sha]` with all of them and yields
   those not in the old entry.
4. `do_email` sends (or, for `dry-run`, prints) one email per SHA with new
   reverts. `do_cherrypick` tries to cherry-pick each one, and a
   `CherrypickError` is logged and skipped.
5. Only when the whole loop got through does `main` write `new_state`
   (`_write_state`: a `.new` file, then a rename).

### The model

* `state` is the state file, as a function from SHAs to sets of reverts.
* `interesting` is the next run's SHA list.
* `landed` is the set of reverts present upstream.
* `reported` is a history variable: the `<<sha, revert>>` pairs some run
  has handled.
* A run is one step:
  * `RunSucceeds`: the whole loop completes and the state is written.
  * `RunFails`: the run fails while handling the `k`-th SHA, or when the
    write fails. Nothing is written. Before the failure, a cherry-pick job
    may have handled any subset of that SHA's new reverts. An email job has
    handled none or all of them, because one email lists them all
    (`HandledBeforeFailure`).
* `FindShas(st, shas, k)` is `find_shas` consumed through its `k`-th SHA. It
  gives both the `new_state` built so far and what was yielded.
* `Land` and `Uprev` are the environment: upstream commits and ebuild
  uprevs.
* The job's action (`action`, from the constant `Actions`) is fixed for a
  behaviour. Cherry-pick, email and dry-run otherwise differ only in what
  handling means, and all three count as handling. The email text is left
  out.

### Runs

| run | cfg | checks | result |
|---|---|---|---|
| nightly_revert_checker | `MCNightlyRevertChecker.cfg` | `TypeOK`, `RecordedWasHandled`, `NoRevertLost` | pass |

* `RecordedWasHandled`: the state file never marks a revert as seen for a
  SHA unless some run handled it for that SHA. This holds even when runs
  fail part way.
* `NoRevertLost`: a revert across a SHA that stays interesting is
  eventually handled for it, whatever failures and uprevs came first.

### Bounds and fairness

The bounds are:
* two SHAs;
* three reverts: one across both SHAs, one across only the first, and one
  across only the second;
* the cherry-pick and the email action (dry-run fails like email).

This covers a revert shared by llvm and llvm-next, a run failing between
the two SHAs, and SHAs dropping out of and back into the list.

The fairness is weak fairness on `RunSucceeds` only: the job runs nightly and
eventually a run gets through. Failures and uprevs are unconstrained.

### Not checked

Three behaviours are allowed by design and listed as hazards rather than
checked:
* After a partial failure, emails already sent are sent again.
* A dry run marks reverts as seen, so a later email run skips them.
* A SHA that leaves the list and comes back has its reverts reported again.

## CommandExecuter (`CommandExecuter.tla`, `MCCommandExecuter.tla`)

### The code

`utils/command_executer.py` runs shell commands for the other tools.

`RunCommand` (lines 53–162) works as follows:
* It returns 1 at once if its `command_terminator` is already set.
* Otherwise it calls `Popen` and loops while a pipe is registered.
* Each pass first checks the terminator. If it is set, the code runs
  `sudo kill -9`, waits and returns.
* The pass then polls for up to 100 ms and reads every ready pipe. An empty
  read means EOF and unregisters that pipe.
* Once `p.poll()` reports the exit, the code notes `terminated_time`. It
  breaks once more than `terminated_timeout` has passed since then.
* Once more than `command_timeout` has passed since the start, it runs the
  kill chain and breaks.
* It also breaks when the last reads of both pipes were EOF.
* Then it calls `p.wait()`.

`RunCommand2` (lines 365–472) differs:
* It polls for up to 300 ms per pass.
* stderr is joined to stdout (`join_stderr`, the default) or has a pipe of
  its own. Each registered pipe has a `StreamHandler`, and the loop runs
  until none is registered.
* A `StreamHandler` buffers what it reads. It hands every complete line to
  `line_consumer`, with the pipe's name, and the rest at hang-up.
* After `timeout`, it calls `pobject.kill()` on every pass, but keeps looping
  until the pipe hangs up.

`CommandTerminator` (lines 493–502) is the flag another thread sets.

Two wrappers run a command through `RunCommand`:
* `CrosRunCommand` (lines 194–243) writes the command to a temp file and
  copies it to the machine with `CopyFiles`, one `RunCommand` of rsync that
  gets the caller's terminator. A non-zero status is returned at once.
  Otherwise the file is run remotely through `RunCommand`. The temp file is
  never removed.
* `ChrootRunCommand` (lines 245–291) writes the command to a file under
  `src/scripts`. With `return_output` it first runs `cros_sdk -- true`,
  without the terminator, and returns at once if that fails. Otherwise it
  runs the file through `RunCommand` and then removes it.

### The model

One call of either method runs against these actors:
* the shell (`child`);
* possibly a background process (`holder`) that inherited the pipes and
  outlives the shell, so a pipe hangs up only when both are gone;
* the command's writes (`Write`);
* `Terminate` from another thread.

Each loop pass is one action:
* `LoopTop` is the `while` test and the terminator check.
* `Poll` and `Poll2` cover the poll, the reads and every check that follows
  them, in the code's order.
* `CrosPrepare` and `ChrootPrepare` are a wrapper's steps before its
  `RunCommand`. The preliminary command is reduced to its exit status
  (`CopyFilesStatus`, or any status for the chroot check), or to never
  returning: these steps are fair only where the code bounds them (see
  fairness). `ReturnTo`
  sends every return of `RunCommand` inside `ChrootRunCommand` to
  `RemoveFile`. `cmdFile` is the command file's life: none, written,
  removed.

Time is counted in poll timeouts. A pass whose poll finds nothing ready
waits one; a pass that reads and logs data may take one or none
(`PassTime`), since the code compares wall-clock time (lines 138 and 146).
A counter only matters up to its timeout, so it stops one past it. Output
is a sequence of `"a"` and `"\n"`. A `RunCommand` read takes at most 16384
bytes, so it may take any non-empty part of what is buffered (`ReadUpTo`);
a `RunCommand2` read is 1024 bytes, and the cuts of the writes cover it.
`joinStderr` is `join_stderr`; `buf` and `lines` are indexed by pipe, and
`lines[f]` is what the StreamHandler of pipe `f` handed to
`line_consumer`. The joined stream's handler is named `'stdout'` (line
451), so its lines carry `output='stdout'`, where the docstring (lines
378-380) promises `'output'`. `NotifyLine` is `notify_line` as a recursive operator.
`CompleteLines`, `Rest` and `SplitLines` are a reference splitting by the
positions of `"\n"`.

### Runs

| run | cfg | checks | result |
|---|---|---|---|
| command_executer | `MCCommandExecuter.cfg` | `TypeOK`, `LinesExact`, `RunCommandReturns` | pass |

* `LinesExact`: for each pipe, `line_consumer` has had exactly the complete
  lines read from it so far, and its buffer holds the rest, however the
  reads cut the output and however the two pipes' reads interleave. After
  the hang-up it has also had the last line. It is checked over every cut of
  up to two characters into writes. `TypeOK` also requires that no line
  handed to `line_consumer` is empty.
* `RunCommandReturns` (liveness):
  * `RunCommand`, and either wrapper, returns under any of these
    conditions: it has a `command_timeout`; the terminator is set; or the
    shell exits and either
    `terminated_timeout` is set or no background process holds the pipes.
    A wrapper does so once its preliminary command has returned. With
    neither timeout and a background process that never exits, the call
    waits for ever.
  * `RunCommand2` returns once no background process holds the pipe, and the
    shell exits or its timeout kills it. Its timeout alone does not bound the
    call (see the hazards).

### Bounds and fairness

The bounds are:
* `command_timeout` is None or 2, and `terminated_timeout` is None or 1.
  These are enough for a timeout to fire both before and after the exit.
* The background process may be present or not, and the terminator may be
  absent or present. `RunCommand2` runs with `join_stderr` true and false.
* Each wrapper's preliminary command succeeds or fails, and
  `ChrootRunCommand` runs with `return_output` true and false.
* Up to two characters are written to each pipe, in writes of `"a"`, `"\n"`
  or `"a\n"`.

The calling thread's actions are weakly fair, because that thread keeps
running, except the wrappers' preliminary commands, which have no
`command_timeout`: `CrosPrepare` is fair only once the terminator it passes
to `CopyFiles` is set, and `ChrootPrepare` only without `return_output`
(no `cros_sdk -- true` runs). The shell, the background process and
`Terminate` are not fair:
* a command may run for ever;
* a terminator may never be set.

A returned call is a final state, so deadlock is not checked.

### Not modelled

The following are left out:
* The ssh wrapping for `machine` (it only changes the command string).
* `RunCommands`, `CrosLearnBoard`, and `CopyFiles` other than through
  `CrosRunCommand`. Each builds the command string of one `RunCommand`
  call, which the model covers. The remote half of `CrosRunCommand`
  (`remote_sh`) is inside the command.
* `DrainsBeforeGivingUp` states that `RunCommand` gives up on buffered
  output only while a background process holds the pipe or after a kill.
  TLC finds it violated: after every writer has gone, a pass reads part of
  the buffer while the clock passes `terminated_timeout`, and the rest is
  dropped. No run checks it, since it would need a violation run of its own.
* The `output` name disagreement above has no property.
* The command files the wrappers leave behind are tracked in `cmdFile`
  but no property is stated about them. `CrosRunCommand` never removes its
  file, and `ChrootRunCommand` leaves its file when the chroot check fails.
  Both are visible in the states of the run.
* The kill chain at line 151 is taken to end the shell. A command that
  ignores SIGTERM is sent no SIGKILL, and `p.wait()` then blocks for ever.
* The returned value. On the terminator path with `return_output`, line 109
  returns the method `p.wait` instead of the exit code. No caller in the
  repository reads that tuple after a termination, so no property states it.

## Rust uprev (`RustUprev.tla`)

### The code

`rust_uprev.py roll` uprevs Rust in the chromiumos-overlay checkout as a list
of about thirty named steps (`main`, `create_rust_uprev`, `remove_rust_uprev`,
`remove_rust_bootstrap_version`). The subcommands `create`, `remove` and
`remove-bootstrap` run one of those three lists on its own; `main()`
dispatches on the subcommand. Every step goes through `perform_step`:
1. A step whose name is in `completed_steps` is skipped, and its saved
   result is read back.
2. Otherwise `step_fn()` runs. Its result is stored in `completed_steps`.
3. The whole dict is dumped to `<state_file>.tmp`, which is renamed onto the
   state file.

When a step fails, the module docstring tells the user to fix the cause and
run the same command with `--continue`. `parse_commandline_args` insists on
`--continue` or `--restart` once a state file exists. `--restart` deletes
the file. The last step, `create_new_commit`, runs `git add -A` and then
`git.UploadChanges`, which commits and then runs `repo upload`.

### The model

* `pc` and `idx` are the tool's position: stopped, running step `idx`, or
  one of the three moves of the save (`OpenState`, `DumpState`,
  `RenameState`), or done.
* `completed` is `completed_steps` in memory. `files` holds the contents of
  the state file and the `.tmp` file: absent, torn (opened but not fully
  written), or the JSON of a set of step names.
* `tree` is the checkout, reduced to what decides whether a step can run
  again:
  * the rust-bootstrap ebuilds (`find_ebuild_path` asserts there is one);
  * the old version's patches (`git rm` of a glob that matches nothing
    fails);
  * the ebuilds of rust, rust-host and virtual/rust
    (`find_oldest_rust_version_in_chroot` needs more than one);
  * the `package.provided` lines (`update_rust_packages` asserts a line it
    removes is there);
  * the files as of HEAD (`head`), which `git status --porcelain` in
    `create_new_repo` and `git commit` in `create_new_commit` compare the
    files with; only file changes count, not steps that change nothing
    on disk;
  * whether the CL was uploaded.
* `Raises(s, t)` lists the exceptions a step raises on checkout `t`.
  `Effect(s, t)` is what a step that returns did.
* A step whose function runs an external command (gsutil, `ebuild manifest`,
  emerge, git or repo) may also fail before it changes anything
  (`StepFails`). This is bounded by `MaxFailures`.
* `UploadFails` is the commit succeeding and the upload failing.
* `Crash` kills the tool anywhere in a step or its save. This is bounded by
  `MaxCrashes`.
* `cmd` is the subcommand, chosen once per behaviour from `Subcommands`:
  the docstring has the user repeat the same command. `StepsOf(cmd)` is its
  list of steps (`RollSteps` for roll).
* `remove_rust_bootstrap_version` runs `equery w rust-bootstrap` before its
  manifest step, even when that step is recorded. With no rust-bootstrap
  ebuild left, the query fails (`QueryBeforeStepFails`). This happens when
  `remove-bootstrap --version` names the only one. `StartTrees` lets
  remove-bootstrap start both from that checkout and from one where a newer
  bootstrap ebuild sits beside the old one, the case it is meant for.
* `Invoke` is the user running the command with flags the parser accepts
  (`InvokeFlags`).
* `newer` is whether `--uprev` is newer than the template. When it is not,
  `prepare_uprev` returns None, and unpacking that raises on every run.

### Runs

| run | cfg | checks | result |
|---|---|---|---|
| rust_uprev_resume | `MCRustUprev.cfg` | `TypeOK`, `StateFileWhole`, `ResumeConsistent` | pass |
| rust_uprev_continue | `MCRustUprevContinue.cfg` | `ContinueCompletes` | violation |

* `StateFileWhole`: however runs fail and are killed, the state file is
  never half-written, because it is only replaced by a rename.
* `ResumeConsistent`: a step recorded in the state file has returned, and
  a step a run is about to execute is not recorded. So `--continue` never
  repeats a step whose completion was saved.
* `ContinueCompletes` fails. When `repo upload` fails after the commit, the
  step is not recorded. The next `--continue` runs it again, `git commit`
  has nothing to commit, and the tool can never finish.

### Findings and hazards

1. **An upload failure cannot be continued past** (rust_uprev_continue,
   line 921). This is described above.

A kill between a step's edits and the rename of the state file makes
`--continue` run the step again. Several steps fail or misbehave when they
run twice:
* the "insert ... into rust packages" steps list the version twice;
* the "remove ... from rust packages" steps fail their assertion;
* "update bootstrap ebuild" fails `find_ebuild_path`'s assertion;
* "remove patches" fails `git rm`.

The pass run reaches these states and `ResumeConsistent` holds there. They
are listed as hazards.

### Bounds and fairness

The bounds are:
* each of the four subcommands, roll with the cross compiler skipped and the
  build kept (27 steps);
* two failed commands and two kills per behaviour, so a --continue after a
  kill can itself be killed or fail;
* `--continue` and `--restart`;
* both answers for `newer`.

That covers:
* a kill in each move of each step's save;
* a failure at every step that runs a command;
* a restart over an edited checkout, which makes `create_new_repo` refuse
  to run.

Letting one behaviour switch subcommands over a shared state file grows
the state space past what TLC explores in half an hour; every step list
and step name is covered by the per-subcommand behaviours.

The continue run checks roll only, and has no kills, a newer `--uprev`, and no `--restart`, so
that the user only keeps continuing.

The fairness is weak fairness on `Invoke`, on a step's run, skip and raise,
and on the three moves of the save. A running tool keeps going, and the user
runs it again after every failure, as the docstring instructs. Failures and
kills are bounded and not fair.

### Not modelled

The following are left out:
* one behaviour switching subcommands over a shared state file (see
  above);
* version parsing and ordering: the three versions are the names
  `delete`, `template` and `uprev`;
* the text of the ebuilds, the eclass and the manifests.
