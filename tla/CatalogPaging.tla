---------------------------- MODULE CatalogPaging ---------------------------
(***************************************************************************)
(* The catalog of public repositories in the settings tab: a search box    *)
(* whose text reaches the query after a pause, and the pages of an         *)
(* infinite query fetched while the user scrolls.  The backend asks        *)
(* Artifact Hub for a window of matches, drops the disabled ones and says  *)
(* there is more when the window was full; the frontend's next offset is   *)
(* the number of entries it was given so far.  An entry is its index in    *)
(* the matches of a query.                                                 *)
(***************************************************************************)
EXTENDS Integers, FiniteSets

CONSTANTS
    Queries,      \* texts of the search box
    NoText,       \* the empty text, which the box returns to when it closes
    Matches,      \* how many matches Artifact Hub has for a text
    Enabled,      \* the indexes of its matches that are not disabled
    PageSize      \* PAGE_SIZE

ASSUME CatalogAssumption ==
    /\ NoText \in Queries
    /\ PageSize \in Nat \ {0}
    /\ Matches \in [Queries -> Nat]
    /\ Enabled \in [Queries -> SUBSET Nat]
    /\ \A q \in Queries : Enabled[q] \subseteq 0 .. Matches[q] - 1

VARIABLES
    search,       \* the text in the box
    debounced,    \* the text of the query
    shown,        \* by query: the entries of its pages
    offset,       \* by query: entries received, the next offset
    hasMore,      \* by query: the last page's HasMore
    loaded,       \* queries that have a page
    paging        \* queries with a page under way

catalog == <<search, debounced, shown, offset, hasMore, loaded, paging>>

----------------------------------------------------------------------------

Window(q, o) == {i \in o .. o + PageSize - 1 : i < Matches[q]}

\* the backend's page: HasMore looks at the window before the filter
Entries(q, o) == Window(q, o) \cap Enabled[q]

\* Faulty variant: it looks at what the filter left.
More_Filtered(q, o) == Cardinality(Entries(q, o)) = PageSize

More(q, o) == Cardinality(Window(q, o)) = PageSize

CatalogTypeOK ==
    /\ search \in Queries /\ debounced \in Queries
    /\ shown \in [Queries -> SUBSET Nat]
    /\ offset \in [Queries -> Nat]
    /\ hasMore \in [Queries -> BOOLEAN]
    /\ loaded \subseteq Queries /\ paging \subseteq Queries

CatalogInit ==
    /\ search = NoText /\ debounced = NoText
    /\ shown = [q \in Queries |-> {}]
    /\ offset = [q \in Queries |-> 0]
    /\ hasMore = [q \in Queries |-> FALSE]
    /\ loaded = {} /\ paging = {NoText}

\* the user types, or closes the box, which empties it
TypeSearch(q) ==
    /\ search' = q
    /\ UNCHANGED <<debounced, shown, offset, hasMore, loaded, paging>>

\* 300 ms without typing: the query follows the box; one without pages loads its first
\* (one with pages loads them again, with the same result)
Debounce ==
    /\ debounced # search /\ debounced' = search
    /\ paging' = IF search \in loaded THEN paging ELSE paging \cup {search}
    /\ UNCHANGED <<search, shown, offset, hasMore, loaded>>

\* the user scrolls to the end of the list
Scroll ==
    /\ debounced \in loaded /\ hasMore[debounced] /\ debounced \notin paging
    /\ paging' = paging \cup {debounced}
    /\ UNCHANGED <<search, debounced, shown, offset, hasMore, loaded>>

PageArrives(q) ==
    /\ q \in paging /\ paging' = paging \ {q}
    /\ shown' = [shown EXCEPT ![q] = @ \cup Entries(q, offset[q])]
    /\ offset' = [offset EXCEPT ![q] = @ + Cardinality(Entries(q, offset[q]))]
    /\ hasMore' = [hasMore EXCEPT ![q] = More(q, offset[q])]
    /\ loaded' = loaded \cup {q}
    /\ UNCHANGED <<search, debounced>>

\* Artifact Hub does not answer: the pages stay as they are
PageFails(q) ==
    /\ q \in paging /\ paging' = paging \ {q}
    /\ UNCHANGED <<search, debounced, shown, offset, hasMore, loaded>>

CatalogNext ==
    \/ \E q \in Queries : TypeSearch(q) \/ PageArrives(q) \/ PageFails(q)
    \/ Debounce \/ Scroll

CatalogSpec == CatalogInit /\ [][CatalogNext]_catalog

----------------------------------------------------------------------------
\* Offsets count entries that survived the filter while Artifact Hub counts
\* all of them, so windows overlap; none may leave a gap: every enabled match
\* before the next offset has been on some page.
NothingSkipped == \A q \in Queries : \A i \in Enabled[q] : i < offset[q] => i \in shown[q]

\* When there is no next page, every enabled match of the query can be picked.
CompleteAtEnd == \A q \in loaded : ~hasMore[q] => Enabled[q] \subseteq shown[q]

=============================================================================
