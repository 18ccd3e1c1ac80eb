----------------------------- MODULE MCLiveSearch -----------------------------
(* Two searches of one query over two operators, one of them reached through SAMO. *)
EXTENDS LiveSearch, TLC

CONSTANTS s1, s2, samo, anex, tour1, tour2, beach

TwoSearches    == {s1, s2}
TwoOperators   == {samo, anex}
OneExcluded    == {samo}
OneQuery       == {beach}
TwoTours       == {tour1, tour2}
TourOperators  == (tour1 :> anex) @@ (tour2 :> samo)
NoTours        == {}
=============================================================================
