--------------------------- MODULE MCSearchResults ---------------------------
EXTENDS SearchResults

CONSTANTS a, b   \* operators

(* Tours of two recommended hotels, one of which two operators sell, and   *)
(* of two others, one of which has no mapping.                             *)
FiveTickets == 1..5
DbHotels    == <<7, 8, 8, Nothing, 6>>
OwnHotels   == <<1, 2, 3, 4, 5>>
Operators   == <<a, a, b, b, b>>
TourIds     == <<1, 2, 3, 4, 5>>
SomeWithout == <<1, Nothing, Nothing, 4, 5>>
Days        == <<1, 1, 3, 5, 4>>
Countries   == <<90, 90, 90, 90, 20>>
Regions     == <<1, 2, 2, 2, 3>>
Towns       == <<1, 1, 2, 2, 3>>
MonthAndWeek == {1..5, 2..6, 3..5, 1..6}
TwoHotels   == {7, 8}
SomePrices  == <<{1, 2}, 0..2, 0..2, {1, 2}, {1}>>
=============================================================================
