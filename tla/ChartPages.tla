----------------------------- MODULE ChartPages -----------------------------
(***************************************************************************)
(* The Charts page of the Helm frontend, for one chart: the detail drawer  *)
(* and the install tab, which show metadata and values.yaml of a version   *)
(* picked from a list.  Each document is a query of its own; while a new   *)
(* version loads, useQuery keeps the data of the previous one on hand, and *)
(* two conditions in the components keep them out of the user's sight and  *)
(* out of the install.  The publisher may republish, withdraw or add       *)
(* versions meanwhile.                                                     *)
(***************************************************************************)
EXTENDS Naturals, FiniteSetsExt

CONSTANTS
    Versions,       \* version numbers, the larger the newer
    Texts,          \* contents of values.yaml
    None,
    Offered,        \* at the start: version -> contents, None if not offered
    MaxPublished,   \* bound on the publisher's changes
    MaxClicks,      \* bound on drawers, tabs and versions opened
    MaxReconnects   \* bound on reconnections

ASSUME ChartAssumption ==
    /\ Versions \subseteq Nat \ {0}
    /\ \A S \in SUBSET Versions :     \* an index is a finite list
         S # {} => \E v \in S : \A w \in S : v >= w
    /\ Offered \in [Versions -> Texts \cup {None}]
    /\ {MaxPublished, MaxClicks, MaxReconnects} \subseteq Nat

VARIABLES
    index,      \* the repository's index, as the backend answers from it
    ever,       \* history: <<version, contents>> ever offered
    cache,      \* query cache: what each key holds
    busy,       \* keys with a fetch under way
    failed,     \* versions whose values could not be fetched the last time (isError)
    drawer,     \* HelmChartDetailDrawerBody, or None
    tray,       \* HelmChartVersionTray, or None
    sent,       \* the install under way, or None
    published, clicks, reconnects   \* counters of the bounds

vars == <<index, ever, cache, busy, failed, drawer, tray, sent, published, clicks, reconnects>>

----------------------------------------------------------------------------
VersionsKey == [doc |-> "versions", of |-> 0]
DetailKey(v) == [doc |-> "detail", of |-> v]      \* of version 0: the latest
ValuesKey(v) == [doc |-> "values", of |-> v]
Keys == {VersionsKey} \cup {DetailKey(v) : v \in Versions \cup {0}}
                      \cup {ValuesKey(v) : v \in Versions}

\* the version picked by hand (0: none) and the key whose data are on hand
Drawers == [manual : Versions \cup {0}, last : {DetailKey(v) : v \in Versions \cup {0}} \cup {None}]
\* the version chosen, the values taken over, the version they were edited for (0: not)
Trays   == [ver : Versions, base : Texts \cup {None}, typed : Versions \cup {0},
            last : {ValuesKey(v) : v \in Versions} \cup {None}]

ASSUME NullsAssumption == None \notin Versions \cup Texts \cup Drawers \cup Trays

Available == {v \in Versions : index[v] # None}

Newest == IF Available = {} THEN None ELSE Max(Available)

\* Faulty variant: a version that is gone is answered with the newest.
Document_Newest(k) ==
    CASE k.doc = "versions" -> IF Available = {} THEN None ELSE Available
      [] k.doc = "detail" -> IF k.of \in Available THEN k.of ELSE Newest
      [] k.doc = "values" -> index[k.of]

\* what the backend answers; None: not found
Document(k) ==
    CASE k.doc = "versions" -> IF Available = {} THEN None ELSE Available
      [] k.doc = "detail" -> IF k.of = 0 THEN Newest
                             ELSE IF k.of \in Available THEN k.of ELSE None
      [] k.doc = "values" -> index[k.of]

\* useQuery's data: the key's own, while it has none the last key's, after an error none
Data(c, b, k, last) ==
    IF c[k] # None THEN c[k] ELSE IF k \in b /\ last # None THEN c[last] ELSE None

\* versions.includes(manualVersion) ? manualVersion : (versions[0] ?? "")
SelectedIn(c, d) ==
    IF c[VersionsKey] = None THEN 0
    ELSE IF d.manual \in c[VersionsKey] THEN d.manual ELSE Max(c[VersionsKey])
Selected == SelectedIn(cache, drawer)

Metadata == Data(cache, busy, DetailKey(Selected), drawer.last)

\* isChartLoading || (isFetching && chart?.Version !== selectedVersion)
DrawerLoading == DetailKey(Selected) \in busy /\ Metadata # Selected

\* Faulty variant: isValuesLoading alone.
TrayLoading_First == ValuesKey(tray.ver) \in busy
                     /\ Data(cache, busy, ValuesKey(tray.ver), tray.last) = None

\* isValuesLoading || isValuesFetching
TrayLoading == ValuesKey(tray.ver) \in busy

----------------------------------------------------------------------------
(* Every step ends with a render: the drawer may turn to another version,  *)
(* which fetches its metadata, and the tab takes over values that differ   *)
(* from those it has, edits or not.                                        *)

\* Faulty variant: every render takes the values over.
Sync_Always(t, v) == [t EXCEPT !.base = v, !.typed = 0]

Sync(t, v) == IF v = t.base THEN t ELSE [t EXCEPT !.base = v, !.typed = 0]

Render(c, b, d, t, ks) ==
    LET turned == d # None /\ (drawer = None \/ SelectedIn(c, d) # SelectedIn(cache, drawer))
        fetched == b \cup ks \cup (IF turned THEN {DetailKey(SelectedIn(c, d))} ELSE {})
    IN  /\ cache' = c
        /\ busy' = fetched
        /\ drawer' = IF d = None THEN None
                     ELSE IF c[DetailKey(SelectedIn(c, d))] # None
                          THEN [d EXCEPT !.last = DetailKey(SelectedIn(c, d))] ELSE d
        /\ tray' = IF t = None THEN None
                   ELSE LET k == ValuesKey(t.ver) IN
                        Sync(IF c[k] # None THEN [t EXCEPT !.last = k] ELSE t,
                             Data(c, fetched, k, t.last))

----------------------------------------------------------------------------
TypeOK ==
    /\ index \in [Versions -> Texts \cup {None}]
    /\ ever \subseteq Versions \X Texts
    /\ \A k \in Keys : \/ cache[k] = None
                       \/ k.doc = "versions" /\ cache[k] \in (SUBSET Versions) \ {{}}
                       \/ k.doc = "detail" /\ cache[k] \in Versions /\ k.of \in {0, cache[k]}
                       \/ k.doc = "values" /\ <<k.of, cache[k]>> \in ever
    /\ busy \subseteq Keys /\ failed \subseteq Versions
    /\ drawer \in Drawers \cup {None} /\ tray \in Trays \cup {None}
    /\ sent # None => tray # None
    /\ published \in 0 .. MaxPublished /\ clicks \in 0 .. MaxClicks
    /\ reconnects \in 0 .. MaxReconnects

Init ==
    /\ index = Offered
    /\ ever = {p \in Versions \X Texts : index[p[1]] = p[2]}
    /\ cache = [k \in Keys |-> None] /\ busy = {} /\ failed = {}
    /\ drawer = None /\ tray = None /\ sent = None
    /\ published = 0 /\ clicks = 0 /\ reconnects = 0

----------------------------------------------------------------------------
(* The publisher, the answers, the network.                                *)

Publish(v) ==
    /\ published < MaxPublished /\ published' = published + 1
    /\ \E t \in Texts \cup {None} :
        /\ t # index[v]
        /\ index' = [index EXCEPT ![v] = t]
        /\ ever' = IF t = None THEN ever ELSE ever \cup {<<v, t>>}
    /\ UNCHANGED <<cache, busy, failed, drawer, tray, sent, clicks, reconnects>>

Still == UNCHANGED <<index, ever, sent, published>>
Quiet == Still /\ UNCHANGED <<clicks, reconnects>>

Answer(k) ==
    /\ k \in busy /\ Document(k) # None
    /\ Render([cache EXCEPT ![k] = Document(k)], busy \ {k}, drawer, tray, {}) /\ Quiet
    /\ failed' = IF k.doc = "values" THEN failed \ {k.of} ELSE failed

\* not found, or no answer: data there are stay
FetchFails(k) ==
    /\ k \in busy
    /\ Render(cache, busy \ {k}, drawer, tray, {}) /\ Quiet
    /\ failed' = IF k.doc = "values" THEN failed \cup {k.of} ELSE failed

Observed == (IF drawer = None THEN {} ELSE {VersionsKey, DetailKey(Selected)})
            \cup (IF tray = None THEN {} ELSE {VersionsKey, ValuesKey(tray.ver)})

\* the window is online again: useQuery fetches what is on screen
Reconnect ==
    /\ reconnects < MaxReconnects /\ reconnects' = reconnects + 1
    /\ Render(cache, busy, drawer, tray, Observed) /\ Still /\ UNCHANGED <<failed, clicks>>

----------------------------------------------------------------------------
(* The user.                                                               *)

Clicks == clicks < MaxClicks /\ clicks' = clicks + 1 /\ Still /\ UNCHANGED <<failed, reconnects>>

\* a row of the table is clicked, the drawer is closed
OpenDrawer ==
    /\ drawer = None
    /\ Render(cache, busy, [manual |-> 0, last |-> None], tray, {VersionsKey}) /\ Clicks

CloseDrawer == drawer # None /\ Render(cache, busy, None, tray, {}) /\ Quiet /\ UNCHANGED failed

PickVersion(v) ==
    /\ drawer # None /\ ~DrawerLoading
    /\ cache[VersionsKey] # None /\ v \in cache[VersionsKey]
    /\ Render(cache, busy, [drawer EXCEPT !.manual = v], tray, {}) /\ Clicks

\* Install in the drawer; a tab of this chart that is there already is shown as it is
OpenTray ==
    /\ drawer # None /\ ~DrawerLoading /\ Selected # 0 /\ tray = None
    /\ Render(cache, busy, drawer,
              [ver |-> Selected, base |-> None, typed |-> 0, last |-> None],
              {VersionsKey, ValuesKey(Selected)}) /\ Clicks

SelectVersion(v) ==
    /\ tray # None /\ ~TrayLoading /\ sent = None
    /\ cache[VersionsKey] # None /\ v \in cache[VersionsKey] \ {tray.ver}
    /\ Render(cache, busy, drawer, [tray EXCEPT !.ver = v], {ValuesKey(v)}) /\ Clicks

\* the text area is there when there are values and no error
Edit ==
    /\ tray # None /\ ~TrayLoading /\ tray.base # None /\ tray.ver \notin failed /\ tray.typed = 0
    /\ tray' = [tray EXCEPT !.typed = tray.ver]
    /\ Quiet /\ UNCHANGED <<cache, busy, failed, drawer>>

Reset ==
    /\ tray # None /\ ~TrayLoading /\ tray.ver \notin failed /\ tray.typed # 0
    /\ tray' = [tray EXCEPT !.typed = 0]
    /\ Quiet /\ UNCHANGED <<cache, busy, failed, drawer>>

Cancel ==
    /\ tray # None /\ ~TrayLoading /\ sent = None
    /\ Render(cache, busy, drawer, None, {}) /\ Quiet /\ UNCHANGED failed

Install ==
    /\ tray # None /\ ~TrayLoading /\ sent = None
    /\ sent' = [ver |-> tray.ver, base |-> tray.base, typed |-> tray.typed]
    /\ UNCHANGED <<index, ever, cache, busy, failed, drawer, tray, published, clicks, reconnects>>

\* started: the tab closes; refused: it stays
InstallEnds ==
    /\ sent # None /\ sent' = None
    /\ tray' \in {None, tray}
    /\ UNCHANGED <<index, ever, cache, busy, failed, drawer, published, clicks, reconnects>>

Next ==
    \/ \E v \in Versions : Publish(v) \/ PickVersion(v) \/ SelectVersion(v)
    \/ \E k \in Keys : Answer(k) \/ FetchFails(k)
    \/ Reconnect \/ OpenDrawer \/ CloseDrawer \/ OpenTray
    \/ Edit \/ Reset \/ Cancel \/ Install \/ InstallEnds

Spec == Init /\ [][Next]_vars

----------------------------------------------------------------------------
\* The document of another version, which useQuery keeps on hand, is never
\* taken for the chosen one's. What is installed goes with its version: the
\* text sent is, or was edited from, a values.yaml that version has had, or is
\* empty because it could not be loaded; and metadata that the drawer shows as
\* loaded are the selected version's.
DocumentsOfVersion ==
    /\ sent # None => sent.base = None \/ <<sent.ver, sent.base>> \in ever
    /\ drawer # None /\ ~DrawerLoading /\ Selected # 0 /\ Metadata # None
         => Metadata = Selected

\* Edits made for the selected version are lost against the user's will only
\* when its publisher has changed the values they were made to.
EditsSurvive ==
    [][(/\ tray # None /\ tray.typed # 0 /\ tray.typed = tray.ver
        /\ tray' # None /\ tray'.ver = tray.ver /\ tray'.typed = 0)
        => \/ Reset
           \/ \E t \in Texts \ {tray.base} : <<tray.ver, t>> \in ever]_vars

=============================================================================
