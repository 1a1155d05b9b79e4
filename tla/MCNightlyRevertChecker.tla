----------------------- MODULE MCNightlyRevertChecker -----------------------
EXTENDS NightlyRevertChecker, TLC

CONSTANTS s1, s2, r1, r2, r3

\* r1 and r2 both revert commits at or before s1; r1 lands before s2, so
\* only r2 is across s2.  r3 reverts a commit between s1 and s2, so it is
\* across s2 only.
MCRevertedSha == (r1 :> s1) @@ (r2 :> s1) @@ (r3 :> s2)
MCAcrossOf == (s1 :> {r1, r2}) @@ (s2 :> {r2, r3})
====
