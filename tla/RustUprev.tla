------------------------------ MODULE RustUprev ------------------------------
(***************************************************************************)
(* rust_tools/rust_uprev.py: each subcommand is a list of named steps     *)
(* that edit the chromiumos-overlay checkout.  perform_step runs a step    *)
(* unless its name is in completed_steps, then records it and saves the    *)
(* whole dict: json.dump into <state_file>.tmp, then a rename onto the     *)
(* state file.  When a step fails the user fixes the cause and runs the    *)
(* same command with --continue, which loads the state file and skips the  *)
(* recorded steps (module docstring, steps 1-5).                           *)
(*                                                                         *)
(* The checkout is abstracted to what decides whether a step can run       *)
(* again: the rust-bootstrap ebuilds (find_ebuild_path asserts there is    *)
(* one), the old version's patches (`git rm` of a glob that matches        *)
(* nothing fails), the rust, rust-host and virtual/rust ebuilds, the       *)
(* package.provided lines (update_rust_packages), and the commit of the    *)
(* CL.  Every other step's edit is idempotent (manifests, emerges) and is  *)
(* only recorded in `applied`.  A step that runs an external command may   *)
(* fail (a distfile not yet on the mirror, a failed build or upload); the  *)
(* tool may be killed at any point; a run may start afresh with --restart. *)
(***************************************************************************)
EXTENDS Naturals, Sequences, FiniteSets, TLC

CONSTANTS
  SkipCrossCompiler,  \* roll --skip_cross_compiler
  SkipCompile,        \* --skip_compile
  NoUpload,           \* roll --no_upload
  NewerChoices,       \* whether --uprev is newer than the template version
  InvokeFlags,        \* what the user passes: "none", "continue", "restart"
  MaxFailures,        \* external commands that fail over a behaviour
  MaxCrashes,         \* kills of the tool over a behaviour
  Subcommands         \* the subcommands the user runs

ASSUME NewerChoices \subseteq BOOLEAN /\ MaxFailures \in Nat /\ MaxCrashes \in Nat

\* The contents of a file: absent, opened for writing with its JSON not
\* (fully) written, or the JSON of a completed_steps dict.
Absent == [kind |-> "absent", steps |-> {}]
Torn == [kind |-> "torn", steps |-> {}]
Json(steps) == [kind |-> "json", steps |-> steps]

\* The options --continue and --restart of parse_commandline_args.
Flags == {"none", "continue", "restart"}

ASSUME InvokeFlags \subseteq Flags

ASSUME Subcommands \subseteq {"create", "remove", "remove-bootstrap", "roll"}

\* parse_commandline_args does not call parser.error: an existing state
\* file needs --continue or --restart, and --continue needs one.
ParseArgsAccepts(flag, exists) ==
  /\ exists => flag # "none"
  /\ flag = "continue" => exists

\* build_cross_compiler: emerges the cross gcc of every cros- target.
BuildCrossCompiler == "build cross compiler"

\* rebuild_packages: unmerges rust, rust-host and rust-bootstrap, then
\* emerges the new dev-lang/rust.
RebuildPackages == "build packages"

RUST == "dev-lang/rust"
RUST_HOST == "dev-lang/rust-host"

\* create_rust_uprev(rust_version, template, skip_compile, run_step)
CreateSteps ==
  <<"prepare uprev", "fetch bootstrap distfiles", "fetch rust distfiles",
    "update bootstrap ebuild", "update bootstrap manifest",
    "update bootstrap version", "copy patches", "create host ebuild",
    "update host manifest to add new version", "create target ebuild",
    "update target manifest to add new version">>
  \o (IF SkipCompile THEN <<>> ELSE <<RebuildPackages>>)
  \o <<"insert host version into rust packages",
       "insert target version into rust packages", "upgrade virtual/rust">>

\* remove_rust_uprev(rust_version, run_step)
RemoveSteps ==
  <<"find rust version to delete", "remove patches", "remove target ebuild",
    "remove host ebuild", "update target manifest to delete old version",
    "remove target version from rust packages",
    "update host manifest to delete old version",
    "remove host version from rust packages", "remove virtual/rust">>

\* remove_rust_bootstrap_version(version, run_step)
RemoveBootstrapSteps ==
  <<"remove old bootstrap ebuild",
    "update bootstrap manifest to delete old version">>

\* main(), subcommand roll
RollSteps ==
  <<"create new repo">>
  \o (IF SkipCrossCompiler THEN <<>> ELSE <<BuildCrossCompiler>>)
  \o CreateSteps \o RemoveSteps \o RemoveBootstrapSteps
  \o (IF NoUpload THEN <<>> ELSE <<"create rust uprev CL">>)

\* main() dispatches on args.subparser_name; a subcommand's list of steps.
StepsOf(c) ==
  CASE c = "create" -> CreateSteps
    [] c = "remove" -> RemoveSteps
    [] c = "remove-bootstrap" -> RemoveBootstrapSteps
    [] c = "roll" -> RollSteps

\* roll runs every step any subcommand runs.
StepNames == {RollSteps[i] : i \in DOMAIN RollSteps}

\* Steps whose step_fn runs gsutil (fetch_distfile_from_mirror).
Fetches == {"fetch bootstrap distfiles", "fetch rust distfiles"}

\* Steps whose step_fn runs `ebuild ... manifest` (update_manifest).
ManifestUpdates ==
  {"update bootstrap manifest", "update host manifest to add new version",
   "update target manifest to add new version",
   "update target manifest to delete old version",
   "update host manifest to delete old version",
   "update bootstrap manifest to delete old version"}

\* Steps whose step_fn runs git or repo.
GitSteps ==
  {"create new repo", "copy patches", "create host ebuild",
   "create target ebuild", "upgrade virtual/rust", "remove patches",
   "remove target ebuild", "remove host ebuild", "remove virtual/rust",
   "remove old bootstrap ebuild", "create rust uprev CL"}

\* Steps that can fail for a reason outside the checkout: every step that
\* runs an external command (prepare_uprev runs equery).
RunsCommand(s) ==
  s \in Fetches \cup ManifestUpdates \cup {BuildCrossCompiler, RebuildPackages}
       \cup GitSteps \cup {"prepare uprev"}

\* The update_rust_packages(pkgatom, version, add) call of each step.
ProvidedEdits ==
  ("insert host version into rust packages" :> <<RUST_HOST, TRUE>>)
  @@ ("insert target version into rust packages" :> <<RUST, TRUE>>)
  @@ ("remove target version from rust packages" :> <<RUST, FALSE>>)
  @@ ("remove host version from rust packages" :> <<RUST_HOST, FALSE>>)

\* The package directory each step copies the template's ebuild in
\* (create_ebuild, update_virtual_rust).
EbuildCopies ==
  ("create host ebuild" :> "rust-host") @@ ("create target ebuild" :> "rust")
  @@ ("upgrade virtual/rust" :> "virtual/rust")

\* The package directory each step removes the old version's ebuilds from
\* (remove_ebuild_version, remove_virtual_rust).
EbuildRemovals ==
  ("remove target ebuild" :> "rust") @@ ("remove host ebuild" :> "rust-host")
  @@ ("remove virtual/rust" :> "virtual/rust")

Packages == {"rust", "rust-host", "virtual/rust"}

\* The files of the checkout before the first run: one rust-bootstrap
\* ebuild, patches and ebuilds of the template and of the version to
\* delete, one package.provided line per package for the version to delete.
InitFiles ==
  [bootstrap |-> {"old"},
   patches   |-> {"template", "delete"},
   ebuilds   |-> [d \in Packages |-> {"template", "delete"}],
   provided  |-> [e \in {RUST, RUST_HOST} \X {"delete", "uprev"} |->
                    IF e[2] = "delete" THEN 1 ELSE 0]]

\* The parts of the checkout that are files under EBUILD_PREFIX.
FileFields == DOMAIN InitFiles

\* The checkout: its files, the files as of HEAD (what `git status`
\* compares them with), the steps whose effect it holds, and whether a CL
\* was uploaded.
InitTree ==
  [f \in FileFields |-> InitFiles[f]]
  @@ [applied |-> {}, head |-> InitFiles, uploaded |-> FALSE]

\* The files of checkout t.
Files(t) == [f \in FileFields |-> t[f]]

\* The checkouts subcommand c may start from: remove-bootstrap is meant
\* for a checkout where a newer rust-bootstrap ebuild sits beside the old
\* one, but nothing stops it being run on one without.
StartTrees(c) ==
  LET both == [InitFiles EXCEPT !.bootstrap = {"old", "template"}]
  IN IF c = "remove-bootstrap"
       THEN {InitTree, [InitTree EXCEPT !.bootstrap = both.bootstrap,
                                        !.head = both]}
       ELSE {InitTree}

\* create_new_repo: `git status --porcelain` prints something: a file
\* differs from HEAD.
Changed(t) == Files(t) # t.head

\* find_ebuild_path(rust_bootstrap_path(), "rust-bootstrap") finds one.
BootstrapEbuildUnique(t) == Cardinality(t.bootstrap) = 1

\* find_oldest_rust_version_in_chroot: more than one rust ebuild.
SeveralRustVersions(t) == Cardinality(t.ebuilds["rust"]) > 1

\* update_rust_packages: insert `pkgatom-version` after the last listed
\* version of pkgatom, or assert that the line is there and remove it.
UpdateRustPackages(t, pkg, add) ==
  IF add THEN [t EXCEPT !.provided[<<pkg, "uprev">>] = @ + 1]
  ELSE [t EXCEPT !.provided[<<pkg, "delete">>] = 0]

\* The exceptions a step raises on checkout t whatever the environment
\* does: the RuntimeError of create_new_repo, the assertion of
\* find_ebuild_path, `git rm` of a pathspec that matches nothing, the
\* assertion of update_rust_packages(add=False), and `git commit` with
\* nothing to commit.
Raises(s, t) ==
  \/ s = "create new repo" /\ Changed(t)
  \/ s \in {"prepare uprev", "update bootstrap ebuild"}
       /\ ~BootstrapEbuildUnique(t)
  \/ s = "find rust version to delete" /\ ~SeveralRustVersions(t)
  \/ s = "remove patches" /\ "delete" \notin t.patches
  \/ s \in DOMAIN ProvidedEdits /\ ~ProvidedEdits[s][2]
       /\ t.provided[<<ProvidedEdits[s][1], "delete">>] = 0
  \/ s = "create rust uprev CL" /\ ~Changed(t)

\* remove_rust_bootstrap_version runs `equery w rust-bootstrap` before its
\* manifest step, whether or not that step is recorded; with no
\* rust-bootstrap ebuild left, equery finds none and the command fails.
QueryBeforeStepFails(s, t) ==
  s = "update bootstrap manifest to delete old version" /\ t.bootstrap = {}

\* Seeded bug: the new rust-bootstrap ebuild is named after --uprev, not
\* after the template version.
EffectBootstrapNamedUprev(s, t) ==
  LET u == [t EXCEPT !.applied = @ \cup {s}]
  IN CASE s = "update bootstrap ebuild" ->
            [u EXCEPT !.bootstrap = @ \cup {"uprev"}]
       [] s = "copy patches" -> [u EXCEPT !.patches = @ \cup {"uprev"}]
       [] s = "remove patches" -> [u EXCEPT !.patches = @ \ {"delete"}]
       [] s \in DOMAIN EbuildCopies ->
            [u EXCEPT !.ebuilds[EbuildCopies[s]] = @ \cup {"uprev"}]
       [] s \in DOMAIN EbuildRemovals ->
            [u EXCEPT !.ebuilds[EbuildRemovals[s]] = @ \ {"delete"}]
       [] s \in DOMAIN ProvidedEdits ->
            UpdateRustPackages(u, ProvidedEdits[s][1], ProvidedEdits[s][2])
       [] s = "remove old bootstrap ebuild" ->
            [u EXCEPT !.bootstrap = @ \ {"old"}]
       [] s = "create rust uprev CL" ->
            [u EXCEPT !.head = Files(t), !.uploaded = TRUE]
       [] OTHER -> u

\* What a step that returns has done to checkout t.
Effect(s, t) ==
  LET u == [t EXCEPT !.applied = @ \cup {s}]
  IN CASE s = "update bootstrap ebuild" ->
            [u EXCEPT !.bootstrap = @ \cup {"template"}]
       [] s = "copy patches" -> [u EXCEPT !.patches = @ \cup {"uprev"}]
       [] s = "remove patches" -> [u EXCEPT !.patches = @ \ {"delete"}]
       [] s \in DOMAIN EbuildCopies ->
            [u EXCEPT !.ebuilds[EbuildCopies[s]] = @ \cup {"uprev"}]
       [] s \in DOMAIN EbuildRemovals ->
            [u EXCEPT !.ebuilds[EbuildRemovals[s]] = @ \ {"delete"}]
       [] s \in DOMAIN ProvidedEdits ->
            UpdateRustPackages(u, ProvidedEdits[s][1], ProvidedEdits[s][2])
       [] s = "remove old bootstrap ebuild" ->
            [u EXCEPT !.bootstrap = @ \ {"old"}]
       [] s = "create rust uprev CL" ->
            [u EXCEPT !.head = Files(t), !.uploaded = TRUE]
       [] OTHER -> u

\* Seeded bug: the state is written in place, without the temporary file.
SaveTargetInPlace == "state"

\* perform_step writes into tmp_state_file, then renames it.
SaveTarget == "tmp"

VARIABLES
  pc,         \* where the tool is: "stopped", running a step, saving, "done"
  idx,        \* the step main() is at
  completed,  \* completed_steps, in memory
  tree,       \* the checkout
  files,      \* the state file and its .tmp file
  newer,      \* --uprev is newer than the template version
  failures,   \* failed external commands so far
  crashes,    \* kills so far
  cmd         \* the subcommand the user runs

vars == <<pc, idx, completed, tree, files, newer, failures, crashes, cmd>>

\* The steps main() runs for the current subcommand.
Steps == StepsOf(cmd)

Init ==
  /\ pc = "stopped" /\ idx = 1 /\ completed = {}
  /\ cmd \in Subcommands
  /\ tree \in StartTrees(cmd)
  /\ files = [f \in {"state", "tmp"} |-> Absent]
  /\ newer \in NewerChoices
  /\ failures = 0 /\ crashes = 0

\* prepare_uprev returns None: --uprev is not newer than the template.
PrepareUprevReturnsNone == ~newer

\* The steps recorded in the state file, if it parses.
Recorded == files.state.steps

-----------------------------------------------------------------------------

\* Seeded bug: --continue does not load the state file.
InvokeIgnoresStateFile ==
  /\ pc = "stopped" /\ files.state # Torn
  /\ completed' = {}
  /\ idx' = 1 /\ pc' = "run"
  /\ UNCHANGED <<tree, files, newer, failures, crashes, cmd>>

\* The user runs the subcommand again, as the module docstring instructs,
\* with flags parse_commandline_args accepts; --restart first removes the
\* state file.  main() loads completed_steps
\* from the state file, or {} if there is none; a state file that is not
\* valid JSON makes json.load raise before any step.
Invoke ==
  /\ pc = "stopped"
  /\ \E flag \in InvokeFlags :
       LET state == IF flag = "restart" THEN Absent ELSE files.state
       IN /\ ParseArgsAccepts(flag, files.state # Absent)
          /\ state # Torn
          /\ files' = [files EXCEPT !.state = state]
          /\ completed' = state.steps
  /\ idx' = 1 /\ pc' = "run"
  /\ UNCHANGED <<tree, newer, failures, crashes, cmd>>

\* After step idx returned or was skipped: create_rust_uprev unpacks the
\* result of "prepare uprev", which is None (a TypeError) when --uprev is
\* not newer than the template; otherwise main() goes on to the next step
\* or ends.
Advance ==
  CASE Steps[idx] = "prepare uprev" /\ PrepareUprevReturnsNone ->
         pc' = "stopped" /\ UNCHANGED idx
    [] idx = Len(Steps) -> pc' = "done" /\ UNCHANGED idx
    [] OTHER -> pc' = "run" /\ idx' = idx + 1

\* perform_step: a recorded step is skipped (its result read back).
SkipStep ==
  /\ pc = "run" /\ Steps[idx] \in completed
  /\ ~QueryBeforeStepFails(Steps[idx], tree)
  /\ Advance
  /\ UNCHANGED <<completed, tree, files, newer, failures, crashes, cmd>>

\* perform_step: step_fn() returns, and the step is recorded in memory.
RunStep ==
  /\ pc = "run"
  /\ LET s == Steps[idx]
     IN /\ s \notin completed /\ ~Raises(s, tree)
        /\ ~QueryBeforeStepFails(s, tree)
        /\ tree' = Effect(s, tree)
        /\ completed' = completed \cup {s}
  /\ pc' = "open"
  /\ UNCHANGED <<idx, files, newer, failures, crashes, cmd>>

\* step_fn(), or the query main() makes before the step, raises on the
\* state of the checkout; the exception ends main().
StepRaises ==
  /\ pc = "run"
  /\ \/ Steps[idx] \notin completed /\ Raises(Steps[idx], tree)
     \/ QueryBeforeStepFails(Steps[idx], tree)
  /\ pc' = "stopped"
  /\ UNCHANGED <<idx, completed, tree, files, newer, failures, crashes, cmd>>

\* An external command of step_fn() fails before it changed anything.
StepFails ==
  /\ pc = "run" /\ failures < MaxFailures
  /\ Steps[idx] \notin completed /\ ~Raises(Steps[idx], tree)
  /\ ~QueryBeforeStepFails(Steps[idx], tree)
  /\ RunsCommand(Steps[idx])
  /\ failures' = failures + 1
  /\ pc' = "stopped"
  /\ UNCHANGED <<idx, completed, tree, files, newer, crashes, cmd>>

\* create_new_commit: `git commit` succeeds, then `repo upload` fails (or
\* prints no CL URL) and UploadChanges raises.
UploadFails ==
  /\ pc = "run" /\ failures < MaxFailures
  /\ Steps[idx] = "create rust uprev CL"
  /\ Steps[idx] \notin completed /\ ~Raises(Steps[idx], tree)
  /\ tree' = [tree EXCEPT !.head = Files(tree)]
  /\ failures' = failures + 1
  /\ pc' = "stopped"
  /\ UNCHANGED <<idx, completed, files, newer, crashes, cmd>>

\* `tmp_state_file.open("w")` truncates the file.
OpenState ==
  /\ pc = "open"
  /\ files' = [files EXCEPT ![SaveTarget] = Torn]
  /\ pc' = "write"
  /\ UNCHANGED <<idx, completed, tree, newer, failures, crashes, cmd>>

\* json.dump(completed_steps, f) and the close.
DumpState ==
  /\ pc = "write"
  /\ files' = [files EXCEPT ![SaveTarget] = Json(completed)]
  /\ pc' = "rename"
  /\ UNCHANGED <<idx, completed, tree, newer, failures, crashes, cmd>>

\* `tmp_state_file.rename(state_file)`, then main() continues.
RenameState ==
  /\ pc = "rename"
  /\ files' = [state |-> files[SaveTarget],
               tmp |-> IF SaveTarget = "tmp" THEN Absent ELSE files.tmp]
  /\ Advance
  /\ UNCHANGED <<completed, tree, newer, failures, crashes, cmd>>

\* The tool is killed (Ctrl-C, a lost session): what is in memory is lost.
Crash ==
  /\ pc \in {"run", "open", "write", "rename"} /\ crashes < MaxCrashes
  /\ crashes' = crashes + 1
  /\ pc' = "stopped"
  /\ UNCHANGED <<idx, completed, tree, files, newer, failures, cmd>>

Next ==
  \/ Invoke \/ SkipStep \/ RunStep \/ StepRaises \/ StepFails \/ UploadFails
  \/ OpenState \/ DumpState \/ RenameState \/ Crash

\* A running tool keeps going, and the user runs it again with --continue
\* after every failure, as the module docstring instructs, until it ends.
Fairness ==
  /\ WF_vars(Invoke) /\ WF_vars(SkipStep) /\ WF_vars(RunStep)
  /\ WF_vars(StepRaises)
  /\ WF_vars(OpenState) /\ WF_vars(DumpState) /\ WF_vars(RenameState)

Spec == Init /\ [][Next]_vars /\ Fairness

-----------------------------------------------------------------------------

TypeOK ==
  /\ pc \in {"stopped", "run", "open", "write", "rename", "done"}
  /\ idx \in 1..Len(Steps)
  /\ completed \subseteq StepNames
  /\ tree.applied \subseteq StepNames
  /\ tree.bootstrap \subseteq {"old", "template"}
  /\ tree.patches \subseteq {"template", "delete", "uprev"}
  /\ tree.ebuilds \in [Packages -> SUBSET {"template", "delete", "uprev"}]
  /\ tree.provided \in [{RUST, RUST_HOST} \X {"delete", "uprev"} -> Nat]
  /\ DOMAIN tree.head = FileFields /\ tree.uploaded \in BOOLEAN
  /\ \A f \in {"state", "tmp"} :
       files[f].kind \in {"absent", "torn", "json"}
       /\ files[f].steps \subseteq StepNames
  /\ newer \in BOOLEAN
  /\ failures \in 0..MaxFailures /\ crashes \in 0..MaxCrashes

\* However runs fail and are killed, a --continue run can always read the
\* state file: it is only ever replaced by renaming a fully written file.
StateFileWhole == files.state # Torn

\* The state file and the checkout agree however runs fail and are killed:
\* a step recorded in the state file has returned, and a step a run is
\* about to execute is not recorded, so --continue never repeats a step
\* whose completion was saved.
ResumeConsistent ==
  /\ Recorded \subseteq tree.applied
  /\ pc = "run" /\ Steps[idx] \notin completed => Steps[idx] \notin Recorded

\* If the user keeps running the command with --continue, and commands
\* fail and runs are killed only finitely often, the uprev completes.
ContinueCompletes == <>(pc = "done")

=============================================================================
