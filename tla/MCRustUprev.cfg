\* rust_uprev.py, each subcommand (roll with the cross compiler skipped:
\* 27 steps), two failed commands and two kills per behaviour, --continue and
\* --restart, and both answers to whether --uprev is newer than the
\* template.  The tool stops when the subcommand is done.
SPECIFICATION Spec
CONSTANTS
  SkipCrossCompiler = TRUE
  SkipCompile = FALSE
  NoUpload = FALSE
  InvokeFlags = {"none", "continue", "restart"}
  NewerChoices = {TRUE, FALSE}
  MaxFailures = 2
  Subcommands = {"create", "remove", "remove-bootstrap", "roll"}
  MaxCrashes = 2
INVARIANTS TypeOK StateFileWhole ResumeConsistent
CHECK_DEADLOCK FALSE
