---------------------------- MODULE MCChartPages ----------------------------
(***************************************************************************)
(* The Charts page and the catalog of the settings tab. They share no      *)
(* state, so a behaviour is of one of them and the other one rests.        *)
(***************************************************************************)
EXTENDS ChartPages, CatalogPaging
CONSTANTS a, b, none, few, many

MCOffered == [v \in Versions |-> IF v = 1 THEN a ELSE b]

\* Disabled matches on full pages, a last page that is just full, and a
\* search whose first page has disabled matches only.
MCMatches == [q \in {none, few, many} |-> IF q = none THEN 7 ELSE IF q = few THEN 4 ELSE 6]
MCEnabled == [q \in {none, few, many} |->
    IF q = none THEN {0, 2, 3, 5, 6} ELSE IF q = few THEN 0 .. 3 ELSE {3, 4}]

VARIABLE moves    \* which of the two pages is used

PagesInit == Init /\ CatalogInit /\ moves \in {"charts", "catalog"}

PagesNext ==
    \/ moves = "charts" /\ Next /\ UNCHANGED <<catalog, moves>>
    \/ moves = "catalog" /\ CatalogNext /\ UNCHANGED <<vars, moves>>

PagesSpec == PagesInit /\ [][PagesNext]_<<vars, catalog, moves>>
=============================================================================
