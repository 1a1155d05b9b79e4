\* One call of RunCommand, RunCommand2, CrosRunCommand or ChrootRunCommand
\* (its chroot check with and without return_output): with and without each timeout,
\* with and without a background process holding the pipes, with and
\* without a terminator another thread may set, RunCommand2 with stderr
\* joined or on its own pipe, and up to two characters
\* written to each pipe in any cut.  The call returns and the program goes
\* on, so a final state is no deadlock.
CONSTANTS
  NoTimeout = NoTimeout
  Methods = {"RunCommand", "RunCommand2", "CrosRunCommand",
             "ChrootRunCommand"}
  ReturnOutputChoices = {TRUE, FALSE}
  CommandTimeouts <- MCCommandTimeouts
  TerminatedTimeouts <- MCTerminatedTimeouts
  HolderChoices = {"none", "alive"}
  TerminatorChoices = {"none", "clear"}
  JoinStderrChoices = {TRUE, FALSE}
  Chunks <- MCChunks
  MaxLen = 2
SPECIFICATION Spec
INVARIANT TypeOK
INVARIANT LinesExact
PROPERTY RunCommandReturns
CHECK_DEADLOCK FALSE
