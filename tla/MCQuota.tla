------------------------------- MODULE MCQuota -------------------------------
EXTENDS Quota, TLC

CONSTANTS q1, q2, q3, q4

ThreeRequests == {q1, q2, q3}
FourRequests  == {q1, q2, q3, q4}

RequestSymmetry == Permutations(Requests)
=============================================================================
