\* rust_uprev.py roll with a newer --uprev, no kills and one failed
\* command: does running again with --continue always finish the uprev?
SPECIFICATION Spec
CONSTANTS
  SkipCrossCompiler = TRUE
  SkipCompile = FALSE
  NoUpload = FALSE
  InvokeFlags = {"none", "continue"}
  NewerChoices = {TRUE}
  MaxFailures = 1
  Subcommands = {"roll"}
  MaxCrashes = 0
PROPERTIES ContinueCompletes
CHECK_DEADLOCK FALSE
