---------------------------- MODULE MCHotelMapping ----------------------------
EXTENDS HotelMapping

CONSTANTS r1, r2, w1, kompas17, malva5, rixos, hilton

OneResolver  == {r1}
TwoResolvers == {r1, r2}
OneWorker    == {w1}
OneKey       == {kompas17}
TwoKeys      == {kompas17, malva5}
TwoHotels    == {rixos, hilton}
=============================================================================
