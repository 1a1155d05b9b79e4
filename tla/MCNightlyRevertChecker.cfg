\* Two LLVM SHAs (as llvm and llvm-next, in either order, or alone), three
\* reverts landing at any time, runs failing at any point, for the
\* cherry-pick and the email job.
CONSTANTS
  s1 = s1
  s2 = s2
  r1 = r1
  r2 = r2
  r3 = r3
  Shas = {s1, s2}
  Reverts = {r1, r2, r3}
  RevertedSha <- MCRevertedSha
  AcrossOf <- MCAcrossOf
  Actions = {"cherry-pick", "email"}
SPECIFICATION Spec
INVARIANTS TypeOK RecordedWasHandled
PROPERTIES NoRevertLost
