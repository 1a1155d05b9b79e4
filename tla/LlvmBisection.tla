---------------------------- MODULE LlvmBisection ----------------------------
(***************************************************************************)
(* llvm_tools/llvm_bisection.py: the user runs the script again and again  *)
(* on one --last_tested JSON file.  Each run reads the file, derives the   *)
(* current good and bad revisions and the pending tryjobs from it, picks   *)
(* up to --parallel new revisions between them, launches a tryjob for each *)
(* (AddTryjob) and writes the file back in its `finally` clause.  Between  *)
(* runs the tryjobs finish and their statuses are recorded in the file     *)
(* (update_tryjob_status, not in this repository): the environment here.   *)
(*                                                                         *)
(* A revision is BAD iff it is >= the first bad revision `culprit`.  Git   *)
(* hashes, links and tryjob options are left out: a tryjob is its          *)
(* revision and status.                                                    *)
(***************************************************************************)
EXTENDS Integers, Sequences, SequencesExt, FiniteSets

CONSTANTS
  Start,          \* --start_rev, a good revision
  End,            \* --end_rev, a bad revision
  Parallel,       \* --parallel
  Missing,        \* revisions in (Start, End) with no git hash
  OtherStatuses,  \* statuses other than good/bad a tryjob may be given
  MaxFailures     \* how often AddTryjob may raise over a behaviour

ASSUME Start \in Nat /\ End \in Nat /\ Start < End /\ Parallel \in Nat
ASSUME Missing \subseteq Start+1..End-1 /\ MaxFailures \in Nat

\* TryjobStatus values compared against in this file.
GOOD == "good"
BAD == "bad"
PENDING == "pending"

\* The revisions of the tryjobs of a given status.
RevsWith(tryjobs, status) ==
  {tryjobs[i].rev : i \in {i \in DOMAIN tryjobs : tryjobs[i].status = status}}

\* Revisions that appear in a jobs list (FindTryjobIndex is not None).
RevsIn(tryjobs) == {tryjobs[i].rev : i \in DOMAIN tryjobs}

\* Seeded bug: the new bad revision is the greatest bad one, not the least.
GetStartAndEndRevisionMaxBad(start, end, tryjobs) ==
  LET good == Max({start} \cup RevsWith(tryjobs, GOOD))
      bad == Max({end} \cup RevsWith(tryjobs, BAD))
  IN [good |-> good, bad |-> bad,
      pending |-> {r \in RevsWith(tryjobs, PENDING) : good < r /\ r < bad}]

\* GetStartAndEndRevision: the greatest good and least bad revision, and
\* the pending revisions strictly between them (a list only tested with
\* `in`, so a set).
GetStartAndEndRevision(start, end, tryjobs) ==
  LET good == Max({start} \cup RevsWith(tryjobs, GOOD))
      bad == Min({end} \cup RevsWith(tryjobs, BAD))
  IN [good |-> good, bad |-> bad,
      pending |-> {r \in RevsWith(tryjobs, PENDING) : good < r /\ r < bad}]

\* Seeded bug: the loop runs over range(start + 1, end + 1).
ValidRevisionsToEnd(start, end, pending) ==
  SelectSeq([i \in 1..(end - start) |-> start + i],
            LAMBDA r : r \notin pending /\ r \notin Missing)

\* The loop of GetRevisionsBetweenBisection: the revisions of
\* range(start + 1, end) that are not pending and have a git hash.
ValidRevisions(start, end, pending) ==
  SelectSeq([i \in 1..(end - start - 1) |-> start + i],
            LAMBDA r : r \notin pending /\ r \notin Missing)

\* `len(valid_revisions) // (parallel + 1)`, or 1 if that is 0.
IndexStep(n, parallel) ==
  IF n \div (parallel + 1) = 0 THEN 1 ELSE n \div (parallel + 1)

\* `[valid_revisions[index] for index in range(index_step, len, index_step)]`
GetRevisionsBetweenBisection(start, end, parallel, pending) ==
  LET valid == ValidRevisions(start, end, pending)
      step == IndexStep(Len(valid), parallel)
  IN [i \in 1..((Len(valid) - 1) \div step) |-> valid[i * step + 1]]

\* The revisions main() would launch for the jobs list `tryjobs`.
Planned(tryjobs) ==
  LET iv == GetStartAndEndRevision(Start, End, tryjobs)
  IN GetRevisionsBetweenBisection(iv.good, iv.bad, Parallel, iv.pending)

\* Seeded bug: main() without its check that no planned revision is
\* already in 'jobs'.
LaunchableNoExistCheck(tryjobs) ==
  LET iv == GetStartAndEndRevision(Start, End, tryjobs)
  IN iv.good < iv.bad /\ Planned(tryjobs) # <<>>

\* main() gets past its checks: the `good_rev < bad_rev` assertion, the
\* `assert revisions` of GetRevisionsListAndHashList, and the ValueError for
\* a planned revision that is already in 'jobs'.
Launchable(tryjobs) ==
  LET iv == GetStartAndEndRevision(Start, End, tryjobs)
  IN /\ iv.good < iv.bad
     /\ Planned(tryjobs) # <<>>
     /\ ToSet(Planned(tryjobs)) \cap RevsIn(tryjobs) = {}

VARIABLES
  jobs,       \* the 'jobs' list of the --last_tested file
  contents,   \* main()'s bisect_contents['jobs'] while it runs
  pc,         \* "idle" between runs, "loaded" after reading the file
  failures,   \* AddTryjob exceptions so far (bounded by MaxFailures)
  culprit     \* the first bad revision

vars == <<jobs, contents, pc, failures, culprit>>

\* The tryjob verdict on revision r.
Verdict(r) == IF r >= culprit THEN BAD ELSE GOOD

Init ==
  /\ jobs = <<>>           \* no file yet: main() starts from 'jobs': []
  /\ contents = <<>>
  /\ pc = "idle"
  /\ failures = 0
  /\ culprit \in {r \in Start+1..End : r \notin Missing}

\* main() reads the file (an absent file gives the empty jobs list) and
\* validates its 'start' and 'end' against the command line.
MainLoad ==
  /\ pc = "idle"
  /\ contents' = jobs
  /\ pc' = "loaded"
  /\ UNCHANGED <<jobs, failures, culprit>>

\* One of main()'s checks raises before the `try`: nothing is written.
MainAbort ==
  /\ pc = "loaded" /\ ~Launchable(contents)
  /\ pc' = "idle" /\ contents' = <<>>
  /\ UNCHANGED <<jobs, failures, culprit>>

\* The jobs list after the first k tryjobs of `revs` were launched.
WithTryjobs(c, revs, k) ==
  c \o [i \in 1..k |-> [rev |-> revs[i], status |-> PENDING]]

\* Every AddTryjob call succeeds; the `finally` clause writes
\* bisect_contents (read at MainLoad) back to the file.
MainLaunch ==
  /\ pc = "loaded" /\ Launchable(contents)
  /\ jobs' = WithTryjobs(contents, Planned(contents), Len(Planned(contents)))
  /\ pc' = "idle" /\ contents' = <<>>
  /\ UNCHANGED <<failures, culprit>>

\* AddTryjob raises after k tryjobs were launched; the `finally` clause
\* still writes what was appended, and the exception ends the run.
MainLaunchFails ==
  /\ pc = "loaded" /\ Launchable(contents) /\ failures < MaxFailures
  /\ \E k \in 0..(Len(Planned(contents)) - 1) :
       jobs' = WithTryjobs(contents, Planned(contents), k)
  /\ failures' = failures + 1
  /\ pc' = "idle" /\ contents' = <<>>
  /\ UNCHANGED culprit

\* A pending tryjob finishes and its status is recorded in the file: its
\* verdict, or one of OtherStatuses.
TryjobResult ==
  \E i \in DOMAIN jobs :
    /\ jobs[i].status = PENDING
    /\ \E s \in {Verdict(jobs[i].rev)} \cup OtherStatuses :
         jobs' = [jobs EXCEPT ![i].status = s]
    /\ UNCHANGED <<contents, pc, failures, culprit>>

Next == MainLoad \/ MainAbort \/ MainLaunch \/ MainLaunchFails \/ TryjobResult

\* The user keeps running the script, and every tryjob eventually ends
\* and gets a status.
Fairness ==
  /\ WF_vars(MainLoad) /\ WF_vars(MainAbort) /\ WF_vars(MainLaunch)
  /\ WF_vars(TryjobResult)

Spec == Init /\ [][Next]_vars /\ Fairness

-----------------------------------------------------------------------------

TypeOK ==
  /\ jobs \in Seq([rev : Start+1..End-1,
                   status : {GOOD, BAD, PENDING} \cup OtherStatuses])
  /\ contents \in Seq([rev : Start+1..End-1,
                       status : {GOOD, BAD, PENDING} \cup OtherStatuses])
  /\ pc \in {"idle", "loaded"}
  /\ failures \in 0..MaxFailures
  /\ culprit \in Start+1..End

\* The interval the file currently describes.
Interval == GetStartAndEndRevision(Start, End, jobs)

\* Revisions with a git hash strictly inside the interval.
Untested == ValidRevisions(Interval.good, Interval.bad, {})

NonePending == PENDING \notin {jobs[i].status : i \in DOMAIN jobs}

NoOtherStatus == \A i \in DOMAIN jobs : jobs[i].status \notin OtherStatuses

\* No revision is ever tracked by two tryjobs: a revision that a tryjob
\* already covers, whatever its status, is never launched again, even
\* after a failed AddTryjob or when a tryjob ends with another status.
RevisionsUnique ==
  IsInjective([i \in DOMAIN jobs |-> jobs[i].rev])

\* If every tryjob ends good or bad, repeated runs narrow the interval
\* until at most one revision lies strictly between good and bad.
NarrowsToOne ==
  [](NoOtherStatus) => <>(NonePending /\ Len(Untested) <= 1)

=============================================================================
