---------------------------- MODULE MCHomeOffers ----------------------------
EXTENDS HomeOffers

CONSTANTS h1, r1

OneHome == {h1}
OneRec  == {r1}
=============================================================================
