---------------------------- MODULE MCStreamSearch ----------------------------
EXTENDS StreamSearch

CONSTANTS j1, j2

TwoJobs == {j1, j2}
=============================================================================
