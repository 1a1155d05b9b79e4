------------------------- MODULE NightlyRevertChecker -------------------------
(***************************************************************************)
(* llvm_tools/nightly_revert_checker.py, run every night.  A run finds the *)
(* interesting LLVM SHAs (LLVM_HASH and LLVM_NEXT_HASH of the llvm ebuild, *)
(* or Android's two merge-bases), reads the state file, and for each SHA   *)
(* in order asks revert_checker.find_reverts for the reverts across it.    *)
(* The reverts not yet recorded for that SHA are handled: an email is      *)
(* sent (email), printed (dry-run) or a cherry-pick is attempted           *)
(* (cherry-pick; a CherrypickError is logged and skipped).  Only when the  *)
(* whole run got through is the new state written, and it holds exactly  *)
(* the reverts found across this run's SHAs.                               *)
(*                                                                         *)
(* Between runs reverts land upstream and the ebuild is uprevved.  The     *)
(* three actions differ only in what handling means and in how it can fail *)
(* part way (an email covers all new reverts of a SHA, a cherry-pick one), *)
(* so a run is one step with a nondeterministic failure point.             *)
(***************************************************************************)
EXTENDS FiniteSets, Sequences, SequencesExt

CONSTANTS
  Shas,         \* LLVM SHAs the ebuild may point at
  Reverts,      \* revert commits that may land upstream
  RevertedSha,  \* the commit each revert reverts
  AcrossOf,     \* the reverts find_reverts reports across a SHA once landed
  Actions       \* the positional action the job is run with

ASSUME RevertedSha \in [Reverts -> Shas]
ASSUME AcrossOf \in [Shas -> SUBSET Reverts]
ASSUME Actions \subseteq {"cherry-pick", "email", "dry-run"}

VARIABLES
  state,        \* the state file: SHA -> list of revert SHAs already seen
  interesting,  \* interesting_shas of the next run, in order
  landed,       \* reverts present in the up-to-date llvm_dir
  reported,     \* <<sha, revert>> pairs handled by some run (history)
  action        \* the action of the job, fixed

vars == <<state, interesting, landed, reported, action>>

\* _parse_llvm_ebuild_for_shas: llvm, plus llvm-next if it differs (the
\* Android pair of merge-bases is treated the same way).
InterestingShas(llvm_hash, llvm_next_hash) ==
  IF llvm_next_hash = llvm_hash THEN <<llvm_hash>>
  ELSE <<llvm_hash, llvm_next_hash>>

\* revert_checker.find_reverts(llvm_dir, sha, ...): Revert(sha, reverted_sha)
\* tuples for the landed reverts across sha.
FindReverts(sha) ==
  {[sha |-> r, reverted_sha |-> RevertedSha[r]] : r \in AcrossOf[sha] \cap landed}

\* Seeded bug: the Revert tuples themselves are stored, not their shas.
NewEntryTuples(sha) == FindReverts(sha)

\* `new_state[sha] = [r.sha for r in all_reverts]`
NewEntry(sha) == {r.sha : r \in FindReverts(sha)}

\* The reverts across sha not in `existing_reverts` (none known if the
\* state has no entry for sha).
NewReverts(st, sha) ==
  LET existing == IF sha \in DOMAIN st THEN st[sha] ELSE {}
  IN {r \in FindReverts(sha) : r.sha \notin existing}

\* The new reverts of a SHA a run may have handled when it fails at that
\* SHA: do_email puts them all in one email (_generate_revert_email lists
\* every one), so none or all of them; do_cherrypick cherry-picks them one
\* by one.
HandledBeforeFailure(act, reverts) ==
  IF act = "cherry-pick" THEN SUBSET reverts ELSE {{}, reverts}

\* Seeded bug: find_shas returns, instead of continuing, at the first SHA
\* with nothing new (after filling in its new_state entry).
FindShasBreak(st, shas, k) ==
  LET stop == {i \in 1..k : NewReverts(st, shas[i]) = {}}
      last == IF stop = {} THEN k ELSE Min(stop)
  IN [new_state |-> [sha \in ToSet(SubSeq(shas, 1, last)) |-> NewEntry(sha)],
      yielded |-> UNION {{<<shas[i], r.sha>> : r \in NewReverts(st, shas[i])}
                         : i \in 1..last}]

\* find_shas(llvm_dir, shas, st, new_state) consumed through its k-th SHA:
\* the new_state it has filled in and the <<sha, revert>> pairs it has
\* yielded (each SHA with new reverts is yielded with them).
FindShas(st, shas, k) ==
  [new_state |-> [sha \in ToSet(SubSeq(shas, 1, k)) |-> NewEntry(sha)],
   yielded |-> UNION {{<<shas[i], r.sha>> : r \in NewReverts(st, shas[i])}
                      : i \in 1..k}]

Init ==
  /\ state = [sha \in {} |-> {}]    \* no state file: an empty slate
  /\ \E h, n \in Shas : interesting = InterestingShas(h, n)
  /\ landed = {}
  /\ reported = {}
  /\ action \in Actions

\* A run that gets through: do_email / do_cherrypick consume find_shas and
\* handle every yielded revert (a CherrypickError is caught and the revert
\* skipped), then _write_state replaces the state file with new_state.
RunSucceeds ==
  /\ LET run == FindShas(state, interesting, Len(interesting))
     IN /\ reported' = reported \cup run.yielded
        /\ state' = run.new_state
  /\ UNCHANGED <<interesting, landed, action>>

\* Seeded bug: the state built so far is written even when the run fails.
RunFailsSavesState ==
  \E k \in 1..Len(interesting) :
    \E partial \in HandledBeforeFailure(action, NewReverts(state, interesting[k])) :
         /\ reported' = reported \cup FindShas(state, interesting, k - 1).yielded
                          \cup {<<interesting[k], r.sha>> : r \in partial}
         /\ state' = FindShas(state, interesting, k).new_state
         /\ UNCHANGED <<interesting, landed, action>>

\* A run that raises: find_reverts, sending the email or get_from_upstream
\* (with an error other than CherrypickError) fails while the k-th SHA is
\* handled, after some of its reverts; or, all handled, _write_state fails
\* and removes its temporary file.  Nothing is written.
RunFails ==
  \E k \in 1..Len(interesting) :
    \E partial \in HandledBeforeFailure(action, NewReverts(state, interesting[k])) :
         /\ reported' = reported \cup FindShas(state, interesting, k - 1).yielded
                          \cup {<<interesting[k], r.sha>> : r \in partial}
         /\ UNCHANGED <<state, interesting, landed, action>>

\* A revert lands upstream.
Land ==
  \E r \in Reverts \ landed :
    /\ landed' = landed \cup {r}
    /\ UNCHANGED <<state, interesting, reported, action>>

\* The llvm ebuild gets new LLVM_HASH / LLVM_NEXT_HASH values.
Uprev ==
  \E h, n \in Shas :
    /\ interesting' = InterestingShas(h, n)
    /\ interesting' # interesting
    /\ UNCHANGED <<state, landed, reported, action>>

Next == RunSucceeds \/ RunFails \/ Land \/ Uprev

\* The job runs every night and some night it gets through.
Spec == Init /\ [][Next]_vars /\ WF_vars(RunSucceeds)

-----------------------------------------------------------------------------

TypeOK ==
  /\ DOMAIN state \subseteq Shas
  /\ \A sha \in DOMAIN state : state[sha] \subseteq Reverts
  /\ interesting \in Seq(Shas) /\ Len(interesting) \in 1..2
  /\ landed \subseteq Reverts
  /\ reported \subseteq Shas \X Reverts
  /\ action \in Actions

\* The state file only records, for a SHA, reverts that a run has handled
\* for that SHA: a run that fails part way (a failed email, a crashed
\* cherry-pick, a failed write) never makes a revert look already reported.
RecordedWasHandled ==
  \A sha \in DOMAIN state : \A r \in state[sha] : <<sha, r>> \in reported

\* A revert across a SHA that stays interesting is eventually handled for
\* it, whatever failures and uprevs happen before.
NoRevertLost ==
  \A sha \in Shas : \A r \in AcrossOf[sha] :
    (<>[](sha \in ToSet(interesting)) /\ <>(r \in landed))
      => <>(<<sha, r>> \in reported)

=============================================================================
