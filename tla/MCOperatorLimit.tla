--------------------------- MODULE MCOperatorLimit ---------------------------
EXTENDS OperatorLimit

CONSTANTS r1, r2, r3, kompas, funsun

ThreeRequests == {r1, r2, r3}
TwoOperators  == {kompas, funsun}
=============================================================================
