------------------------------ MODULE MCCoalesce ------------------------------
EXTENDS Coalesce

CONSTANTS c1, c2, c3, dubai, antalya

ThreeRequests == {c1, c2, c3}
TwoKeys       == {dubai, antalya}
=============================================================================
