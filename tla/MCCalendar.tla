------------------------------ MODULE MCCalendar ------------------------------
(* Days 0..1, two near days and one far day, windows of two days.          *)
EXTENDS Calendar, FiniteSets, TLC

CONSTANTS w1, w2, turkey, egypt

OneWorker  == {w1}
TwoWorkers == {w1, w2}
OneRoute   == <<turkey>>
TwoRoutes  == <<turkey, egypt>>
Flights    == {{1, 2, 3, 4}, {2, 4}}
WorkerSymmetry == Permutations(Workers)
=============================================================================
