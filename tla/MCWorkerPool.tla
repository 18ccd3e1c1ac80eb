----------------------------- MODULE MCWorkerPool -----------------------------
EXTENDS WorkerPool

CONSTANTS w1, w2

TwoWorkers == {w1, w2}

AllPages  == [test |-> FALSE, firstPageOnly |-> FALSE, maxPages |-> 0]
TwoPages  == [test |-> FALSE, firstPageOnly |-> FALSE, maxPages |-> 2]
FirstPage == [test |-> FALSE, firstPageOnly |-> TRUE, maxPages |-> 0]
TestMode  == [test |-> TRUE, firstPageOnly |-> FALSE, maxPages |-> 0]

EveryOption == {AllPages, TwoPages, FirstPage, TestMode}
=============================================================================
