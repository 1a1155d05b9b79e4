------------------------- MODULE MCJobGroupManager -------------------------
EXTENDS JobGroupManager

CONSTANTS j1, j2, j3

MCJobList == <<j1, j2, j3>>
====
