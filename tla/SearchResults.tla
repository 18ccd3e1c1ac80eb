---------------------------- MODULE SearchResults ----------------------------
(***************************************************************************)
(* What becomes of the tickets of a search: services/checkin_split.go      *)
(* (a long range of check-in days is asked for in chunks),                 *)
(* services/hotel_grouping.go (one card per hotel with its offers inside), *)
(* services/samo_result.go (recommended hotels, order),                    *)
(* services/home_offers.go (a choice for the start page) and               *)
(* services/popular_dest_cache.go (a choice for popular destinations, made *)
(* before anybody asks).                                                   *)
(*                                                                         *)
(* Tickets are pointers.  Grouping writes a card's offers into the ticket  *)
(* that becomes the card, and reads them when it meets the ticket again:   *)
(* a stream groups the same tickets anew for each snapshot, so what one    *)
(* snapshot wrote is what the next one starts from.  An offer is named by  *)
(* the ticket it was built from.                                           *)
(***************************************************************************)
EXTENDS Integers, Sequences, FiniteSets, SequencesExt

CONSTANTS Tickets,       \* the tours that operators sell
          DbHotel, OwnHotel, Operator, TourId, Day,  \* a ticket's fields
          Country, Region, Town,  \* where it goes
          Nothing,       \* an id that is zero or empty
          Recommended,   \* hotels of cache.IsRecommendedHotel
          Prices,        \* Prices[t]: bound on t.PriceFull, which may be 0
          FirstDay, LastDay,      \* CHECKIN_BEG, CHECKIN_END
          DateRanges,    \* days users ask popular destinations for
          ChunkDays, MaxChunks,   \* 7 and 6 in the code
          NormalPerRecommended, PriceBuckets,  \* 3 and 3 in the code
          MaxTowns,      \* homeOffersMaxTownsPerRegion, 3 in the code
          MaxPerDestination  \* popularDestMaxTicketsPerDestination, 10 in the code

ASSUME FieldsAssumption ==
    /\ IsFiniteSet(Tickets) /\ Prices \in [Tickets -> SUBSET Nat]
    /\ Day \in [Tickets -> Nat]
    /\ {DOMAIN DbHotel, DOMAIN OwnHotel, DOMAIN Operator, DOMAIN TourId,
        DOMAIN Country, DOMAIN Region, DOMAIN Town} = {Tickets}
ASSUME SizesAssumption ==
    /\ FirstDay \in Nat /\ LastDay \in Nat /\ FirstDay <= LastDay
    /\ {MaxChunks, NormalPerRecommended, PriceBuckets, MaxPerDestination} \subseteq Nat \ {0}
    /\ ChunkDays \in Nat

VARIABLES path,    \* "rest", "stream", "home" or "popular"
          order,   \* TicketSortMode: "cheapest", "expensive", "recommended" or "skip"
          across,  \* GroupAcrossDates
          days,    \* the days asked for
          price,   \* PriceFull of the tickets
          raw,     \* the tickets received
          offers,  \* offers[t]: t.Offers
          cards,   \* the list last shown
          badges,  \* its tickets with IsRecommended
          stage    \* "search"; of a stream also the last snapshot and the stored
                   \* list, of popular destinations the stored list and a miss

request == <<path, order, across, days, price>>
shown   == <<offers, cards, badges>>
resultsVars    == <<request, raw, shown, stage>>

PriceLists ==
    {p \in [Tickets -> UNION {Prices[t] : t \in Tickets}] : \A t \in Tickets : p[t] \in Prices[t]}
Asked == {t \in Tickets : Day[t] \in days}

-----------------------------------------------------------------------------
(* The days each request to an operator asks for. *)
RoundUp(a, b) == (a + b - 1) \div b

(* Mutant: a chunk starts a day after the next one should. *)
Chunks_Gap ==
    LET size == ChunkDays + 1
    IN  {{d \in FirstDay..LastDay : /\ FirstDay + n * (size + 1) <= d
                                    /\ d < FirstDay + n * (size + 1) + size} :
            n \in 0..(LastDay - FirstDay)} \ {{}}

Chunks ==
    LET total == LastDay - FirstDay + 1
        size  == IF RoundUp(total, ChunkDays + 1) > MaxChunks
                 THEN RoundUp(total, MaxChunks) ELSE ChunkDays + 1
    IN  IF ChunkDays = 0 \/ LastDay - FirstDay <= ChunkDays THEN {FirstDay..LastDay}
        ELSE {{d \in FirstDay..LastDay : /\ FirstDay + n * size <= d
                                         /\ d < FirstDay + n * size + size} :
                 n \in 0..(LastDay - FirstDay)} \ {{}}

-----------------------------------------------------------------------------
(* A finite set in order: before[x] are the elements that come before x.   *)
Arranged(before) ==
    [p \in 1..Cardinality(DOMAIN before) |->
        CHOOSE x \in DOMAIN before : Cardinality(before[x]) = p - 1]

(* The places of a list by key, those with equal keys as they stand.       *)
ByKey(places, key) ==
    Arranged([i \in places |->
        {k \in places : key[k] < key[i] \/ (key[k] = key[i] /\ k < i)}])

(* sort.SliceStable of what a list has at some places.                     *)
StableSort(list, places, key) ==
    LET at == ByKey(places, key)
    IN  [p \in 1..Cardinality(places) |-> list[at[p]]]

Selected(list, places) == StableSort(list, places, [i \in places |-> 0])

(* sortTicketsByPrice *)
Sorted(tickets, descending) ==
    StableSort(tickets, DOMAIN tickets,
        [i \in DOMAIN tickets |-> IF descending THEN -price[tickets[i]] ELSE price[tickets[i]]])

-----------------------------------------------------------------------------
GroupKey(t, merge) ==
    (CASE DbHotel[t] # Nothing  -> <<"db", DbHotel[t]>>
       [] DbHotel[t] = Nothing /\ OwnHotel[t] # Nothing -> <<"op", Operator[t], OwnHotel[t]>>
       [] OTHER -> <<"uniq", Operator[t], TourId[t]>>)
    \o (IF merge THEN <<>> ELSE <<Day[t]>>)

(* GroupTicketsByHotel: the places in a list of what a ticket is grouped   *)
(* with.                                                                   *)
Group(tickets, t, merge) ==
    {i \in DOMAIN tickets : GroupKey(tickets[i], merge) = GroupKey(t, merge)}

(* Mutant: a price of zero is a price like any other. *)
Cheaper_Zero(candidate, current) ==
    price[candidate] < price[current]

Cheaper(candidate, current) ==
    /\ price[candidate] > 0
    /\ price[current] = 0 \/ price[candidate] < price[current]

(* The place of the ticket that becomes the card.                          *)
Winner(tickets, group) ==
    CHOOSE i \in group : \A k \in group \ {i} :
        /\ ~Cheaper(tickets[k], tickets[i])
        /\ k < i => Cheaper(tickets[i], tickets[k])

(* A card stands where the first ticket of its group stood.                *)
Cards(tickets, merge) ==
    Selected([i \in DOMAIN tickets |->
                 tickets[Winner(tickets, Group(tickets, tickets[i], merge))]],
             {i \in DOMAIN tickets : \A k \in Group(tickets, tickets[i], merge) : i <= k})

Existing(t) == IF offers[t] = <<>> THEN <<t>> ELSE offers[t]

(* group.offers: <<i, k>> is the k-th offer of the ticket at place i.      *)
HandedIn(tickets, group) == UNION {{i} \X DOMAIN Existing(tickets[i]) : i \in group}
Offer(tickets, x) == Existing(tickets[x[1]])[x[2]]
Earlier(x, y) == x[1] < y[1] \/ (x[1] = y[1] /\ x[2] < y[2])

(* dedupeOffers: offers without an id are all kept. *)
Dedupe(tickets, handed) ==
    {x \in handed : TourId[Offer(tickets, x)] # Nothing =>
        \A y \in handed : Earlier(y, x) => TourId[Offer(tickets, y)] # TourId[Offer(tickets, x)]}

(* group.offers as they are stored: sorted by price, stably.               *)
ByPrice(tickets, kept) ==
    Arranged([x \in kept |->
        {y \in kept :
            \/ price[Offer(tickets, y)] < price[Offer(tickets, x)]
            \/ price[Offer(tickets, y)] = price[Offer(tickets, x)] /\ Earlier(y, x)}])

OffersOf(tickets, group) ==
    LET kept == Dedupe(tickets, HandedIn(tickets, group))
        at   == ByPrice(tickets, kept)
    IN  [p \in 1..Cardinality(kept) |-> Offer(tickets, at[p])]

GroupedOffers(tickets, merge) ==
    [t \in Tickets |->
        LET group == Group(tickets, t, merge)
        IN  IF group # {} /\ tickets[Winner(tickets, group)] = t
            THEN OffersOf(tickets, group) ELSE offers[t]]

-----------------------------------------------------------------------------
IsRecommended(t) == DbHotel[t] # Nothing /\ DbHotel[t] \in Recommended

(* pickCheapestPerRecommendedHotel: of the cheapest the first. *)
CheapestPerRecommended(list) ==
    LET Of(i) == {k \in DOMAIN list : DbHotel[list[k]] = DbHotel[list[i]]}
    IN  {list[i] : i \in {i \in DOMAIN list :
            /\ IsRecommended(list[i])
            /\ \A k \in Of(i) :
                  price[list[i]] < price[list[k]] \/ (price[list[i]] = price[list[k]] /\ i <= k)}}

(* diversifyByPriceBuckets: round-robin over the thirds of the sorted list. *)
Diversified(list) ==
    LET n         == Len(list)
        buckets   == IF n < PriceBuckets THEN n ELSE PriceBuckets
        Bucket(i) == ((i - 1) * buckets) \div n
        Round(i)  == Cardinality({k \in 1..(i - 1) : Bucket(k) = Bucket(i)})
    IN  StableSort(Sorted(list, FALSE), 1..n, [i \in 1..n |-> Round(i) * buckets + Bucket(i)])

(* Mutant: a recommended ticket is placed while any normal one remains. *)
Turn_Any(rec, normal) ==
    [i \in 1..(Len(rec) + Len(normal)) |->
        IF i > Len(rec) THEN 2 * (i - Len(rec))
        ELSE IF (i - 1) * NormalPerRecommended < Len(normal)
             THEN 2 * (i - 1) * NormalPerRecommended + 1
             ELSE 2 * Len(normal) + 1]

(* interleaveRecommended: recommended[i] comes after (i - 1) runs of        *)
(* others, if another full run is left, and after all of them otherwise.   *)
Turn(rec, normal) ==
    [i \in 1..(Len(rec) + Len(normal)) |->
        IF i > Len(rec) THEN 2 * (i - Len(rec))
        ELSE IF i * NormalPerRecommended <= Len(normal)
             THEN 2 * (i - 1) * NormalPerRecommended + 1
             ELSE 2 * Len(normal) + 1]

Interleaved(rec, normal) ==
    StableSort(rec \o normal, 1..(Len(rec) + Len(normal)), Turn(rec, normal))

(* ApplyTicketSortMode; recommended is in the order of a Go map. *)
Show(tickets, merge) ==
    LET all    == Cards(tickets, merge)
        normal == Selected(all, {i \in DOMAIN all : ~IsRecommended(all[i])})
    IN  /\ offers' = GroupedOffers(tickets, merge)
        /\ IF order = "skip" THEN cards' = Sorted(all, FALSE) /\ badges' = {}
           ELSE LET best == CheapestPerRecommended(all)
                IN  /\ badges' = best
                    /\ \E rec \in SetToSeqs(best) :
                          cards' = IF order = "recommended" THEN Diversified(rec)
                                   ELSE Interleaved(Diversified(rec), Sorted(normal, order = "expensive"))

(* SelectHomeOfferTickets: the cheapest of each town, of each region at    *)
(* most MaxTowns; among equals the order of a Go map decides.              *)
HomeChoices(found) ==
    LET Place(t) == CHOOSE i \in DOMAIN found : found[i] = t
        best == {t \in ToSet(found) : \A u \in ToSet(found) :
                    <<Region[t], Town[t]>> = <<Region[u], Town[u]>> =>
                        price[t] < price[u] \/ (price[t] = price[u] /\ Place(t) <= Place(u))}
        In(chosen, t) == {u \in chosen : Region[u] = Region[t]}
    IN  {chosen \in SUBSET best : \A t \in best :
            /\ Cardinality(In(chosen, t)) <= MaxTowns
            /\ t \notin chosen =>
                 /\ Cardinality(In(chosen, t)) = MaxTowns
                 /\ \A u \in In(chosen, t) : price[u] <= price[t]}

(* Mutant: the first tickets of each destination, unsorted. *)
PopularChoices_Any(found) ==
    {chosen \in SUBSET found : \A t \in found :
        LET kept == {u \in chosen : Region[u] = Region[t]}
        IN  /\ Cardinality(kept) <= MaxPerDestination
            /\ t \notin chosen => Cardinality(kept) = MaxPerDestination}

(* TakeCheapestTickets for each destination the scheduler searches.        *)
PopularChoices(found) ==
    {chosen \in SUBSET found : \A t \in found :
        LET kept == {u \in chosen : Region[u] = Region[t]}
        IN  /\ Cardinality(kept) <= MaxPerDestination
            /\ t \notin chosen =>
                 Cardinality(kept) = MaxPerDestination /\ \A u \in kept : price[u] <= price[t]}

(* BuildPopularDestAsyncResult: the cheapest of each destination come      *)
(* first, by price, and the rest is shuffled.                              *)
PopularOrder(list) ==
    LET places == {Region[t] : t \in ToSet(list)}
        first  == 1..Cardinality(places)
    IN  /\ {Region[list[i]] : i \in first} = places
        /\ \A i \in first :
             /\ \A k \in first : i < k => price[list[i]] <= price[list[k]]
             /\ \A k \in DOMAIN list :
                  Region[list[k]] = Region[list[i]] => price[list[i]] <= price[list[k]]

(* ShouldUsePopularDestCache, whose window has moved by a day when the     *)
(* list was stored before midnight.  No dates are the whole window.        *)
Eligible(range) ==
    \E midnights \in 0..1 : range \subseteq (FirstDay + midnights)..(LastDay + midnights)

(* FilterPopularDestCacheTickets: a destination hides the country.         *)
Matches(t, region, country) ==
    /\ region # Nothing => Region[t] = region
    /\ region = Nothing /\ country # Nothing => Country[t] = country

-----------------------------------------------------------------------------
ResultsInit ==
    /\ path \in {"rest", "stream", "home", "popular"}
    /\ order \in {"cheapest", "expensive", "recommended", "skip"}
    /\ across \in BOOLEAN
    /\ path = "home" <=> order = "skip"
    /\ path = "stream" => across
    /\ path = "home" => ~across
    /\ days \in IF path = "popular" THEN {r \in DateRanges : Eligible(r)} ELSE {FirstDay..LastDay}
    /\ price \in PriceLists
    /\ raw = <<>> /\ offers = [t \in Tickets |-> <<>>]
    /\ cards = <<>> /\ badges = {} /\ stage = "search"

(* A search with one answer: the tickets of all requests, in the order the *)
(* workers finish, which sort.Slice turns into any order by price.         *)
Search ==
    /\ path = "rest" /\ stage = "search"
    /\ LET fetched == {f \in Chunks \X Tickets : Day[f[2]] \in f[1]}
       IN  \E found \in SetToSeqs(fetched) :
             raw' = Sorted([i \in DOMAIN found |-> found[i][2]], FALSE)
    /\ Show(raw', across)
    /\ stage' = "ended"
    /\ UNCHANGED request

(* The start page's list and what its handler makes of it. *)
SearchHome ==
    /\ path = "home" /\ stage = "search"
    /\ \E found \in SetToSeqs(Tickets) :
         \E chosen \in HomeChoices(found) :
            \E list \in SetToSeqs(chosen) : raw' = Sorted(list, FALSE)
    /\ Show(raw', FALSE)
    /\ stage' = "ended"
    /\ UNCHANGED request

(* The popular destinations' scheduler searches and stores its list.       *)
SearchPopular ==
    /\ path = "popular" /\ stage = "search"
    /\ \E chosen \in PopularChoices({t \in Tickets : Day[t] \in FirstDay..LastDay}) :
         \E list \in SetToSeqs(chosen) : PopularOrder(list) /\ raw' = list
    /\ stage' = "cached"
    /\ UNCHANGED <<request, shown>>

(* A user asks for popular destinations.  When nothing stored fits, the    *)
(* handler goes on with a search, which "rest" stands for.                 *)
AskPopular ==
    /\ path = "popular" /\ stage = "cached"
    /\ \E region \in {Region[t] : t \in Tickets} \cup {Nothing},
           country \in {Country[t] : t \in Tickets} \cup {Nothing} :
         raw' = Selected(raw, {i \in DOMAIN raw :
                              Day[raw[i]] \in days /\ Matches(raw[i], region, country)})
    /\ IF raw' = <<>> THEN stage' = "missed" /\ UNCHANGED shown
       ELSE stage' = "ended" /\ Show(raw', across)
    /\ UNCHANGED request

(* A batch for a stream, and the snapshot of all tickets so far. *)
CollectBatch ==
    /\ path = "stream" /\ stage = "search"
    /\ \E t \in Asked \ ToSet(raw) :
         \/ raw' = Append(raw, t)
         \/ \E u \in Asked \ (ToSet(raw) \cup {t}) : raw' = raw \o <<t, u>>
    /\ Show(raw', TRUE)
    /\ UNCHANGED <<request, stage>>

(* The last snapshot, and the list for the cache: grouped once more each.  *)
Regroup ==
    /\ path = "stream" /\ stage # "stored"
    /\ Show(raw, TRUE)
    /\ stage' = (IF stage = "search" THEN "ended" ELSE "stored")
    /\ UNCHANGED <<request, raw>>

Done == stage \in {"ended", "stored", "missed"} /\ UNCHANGED resultsVars

ResultsNext == Search \/ SearchHome \/ SearchPopular \/ AskPopular \/ CollectBatch \/ Regroup \/ Done

ResultsSpec == ResultsInit /\ [][ResultsNext]_resultsVars

-----------------------------------------------------------------------------
ResultsTypeOK ==
    /\ path \in {"rest", "stream", "home", "popular"} /\ across \in BOOLEAN
    /\ order \in {"cheapest", "expensive", "recommended", "skip"}
    /\ price \in PriceLists
    /\ raw \in Seq(Tickets) /\ cards \in Seq(Tickets)
    /\ offers \in [Tickets -> Seq(Tickets)]
    /\ badges \subseteq ToSet(cards)
    /\ days \subseteq Nat
    /\ stage \in {"search", "ended", "stored", "cached", "missed"}

Wanted == IF path = "rest" /\ stage # "search" THEN Asked ELSE ToSet(raw)

(* Where a ticket can be booked: the cards and the offers that are it.     *)
Places(t) ==
    {x \in UNION {{i} \X DOMAIN offers[cards[i]] : i \in DOMAIN cards} :
        LET o == offers[cards[x[1]]][x[2]]
        IN  GroupKey(o, across) = GroupKey(t, across) /\ TourId[o] = TourId[t]}

(* Every tour that was asked for can be booked from one place: it is an    *)
(* offer of exactly one card, exactly once, whatever the days it was asked *)
(* for in, however often its card was grouped and whichever ticket of the  *)
(* hotel was the card before (services/hotel_grouping.go:93-160).  Tours   *)
(* without an id aside, and where a hotel has a card per day, which        *)
(* recommended hotels keep one of.                                         *)
OffersShownOnce ==
    stage # "cached" /\ ((across /\ order # "recommended") \/ path = "home") =>
        \A t \in Wanted : TourId[t] # Nothing => Cardinality(Places(t)) = 1

(* A card says the lowest price of its offers that is one, and no offer is *)
(* a tour of another hotel (services/hotel_grouping.go:27-31, 61-74).      *)
CardsAreCheapest ==
    \A i \in DOMAIN cards : \A k \in DOMAIN offers[cards[i]] :
        LET o == offers[cards[i]][k]
        IN  /\ GroupKey(o, across) = GroupKey(cards[i], across)
            /\ price[o] > 0 => price[cards[i]] > 0 /\ price[cards[i]] <= price[o]

(* Recommended cards stand apart (services/samo_result.go:181-184,         *)
(* 216-218): after each come NormalPerRecommended others or no other at    *)
(* all, and no hotel has two of them.                                      *)
RecommendedApart ==
    order \in {"cheapest", "expensive"} =>
        \A i \in DOMAIN cards : cards[i] \in badges =>
            LET next == (i + 1)..(i + NormalPerRecommended)
            IN  /\ \/ next \subseteq DOMAIN cards /\ \A k \in next : cards[k] \notin badges
                   \/ \A k \in DOMAIN cards : k > i => cards[k] \in badges
                /\ \A k \in DOMAIN cards \ {i} : DbHotel[cards[k]] # DbHotel[cards[i]]

(* A list made before anybody asked, of the few cheapest tours of each     *)
(* destination over a month, still shows what a user of other days and     *)
(* filters would look for: where it shows a destination at all, it has the *)
(* cheapest of the tours found there for the days asked for, and nothing   *)
(* of other days (services/popular_dest_cache.go:91-112,                   *)
(* cache/popular_dest_cache.go:55).  A list stored before midnight knows   *)
(* nothing of the day that its window has gained since.                    *)
PopularShowsCheapest ==
    path = "popular" /\ stage = "ended" /\ order # "recommended" =>
        LET all == UNION {ToSet(offers[cards[i]]) : i \in DOMAIN cards}
        IN  /\ all \subseteq Asked
            /\ \A o \in all : \A t \in Asked :
                 Region[t] = Region[o] /\ price[t] > 0 /\ Day[t] \in FirstDay..LastDay =>
                     \E u \in all : Region[u] = Region[o] /\ price[u] <= price[t]

(* "Funksiya idempotent: `Offers` har safar qaytadan quriladi, shuning     *)
(* uchun bir ro'yxatni ikki marta guruhlash takliflarni ikkilantirmaydi"   *)
(* (services/hotel_grouping.go:109-110).                                   *)
RegroupingIsIdempotent == [][raw' = raw => offers' = offers]_resultsVars
=============================================================================
