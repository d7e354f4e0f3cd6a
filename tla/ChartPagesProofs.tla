-------------------------- MODULE ChartPagesProofs --------------------------
(***************************************************************************)
(* What the pages of charts keep for any versions, values and catalog: the *)
(* Charts page never takes one version's documents for another's, nor      *)
(* drops edits by itself; the catalog's overlapping windows skip nothing,  *)
(* and a list without a next page is complete.                             *)
(***************************************************************************)
EXTENDS ChartPages, CatalogPaging, FiniteSetTheorems, TLAPS

LEMMA Newer ==
    ASSUME NEW S \in SUBSET Versions, S # {}
    PROVE  Max(S) \in S
<1>1. \E v \in S : \A w \in S : v >= w
  BY ChartAssumption
<1> QED BY <1>1 DEF Max

LEMMA KeyKinds ==
    /\ VersionsKey \in Keys /\ VersionsKey.doc = "versions"
    /\ \A v \in Versions \cup {0} : /\ DetailKey(v) \in Keys /\ DetailKey(v).doc = "detail"
                                    /\ DetailKey(v).of = v
    /\ \A v \in Versions : ValuesKey(v) \in Keys /\ ValuesKey(v).doc = "values" /\ ValuesKey(v).of = v
    /\ \A k \in Keys : k.doc = "values" => k.of \in Versions /\ k = ValuesKey(k.of)
    /\ \A k \in Keys : k.doc = "detail" => k.of \in Versions \cup {0}
    /\ \A k \in Keys : k.doc \in {"versions", "detail", "values"}
<1>1. /\ VersionsKey \in Keys /\ VersionsKey.doc = "versions"
      /\ \A v \in Versions \cup {0} : /\ DetailKey(v) \in Keys /\ DetailKey(v).doc = "detail"
                                      /\ DetailKey(v).of = v
      /\ \A v \in Versions : ValuesKey(v) \in Keys /\ ValuesKey(v).doc = "values" /\ ValuesKey(v).of = v
  BY DEF Keys, VersionsKey, DetailKey, ValuesKey
<1>2. ASSUME NEW k \in Keys
      PROVE  /\ k.doc \in {"versions", "detail", "values"}
             /\ k.doc = "values" => k.of \in Versions /\ k = ValuesKey(k.of)
             /\ k.doc = "detail" => k.of \in Versions \cup {0}
  <2>1. CASE k = VersionsKey
    BY <2>1 DEF VersionsKey
  <2>2. CASE \E v \in Versions \cup {0} : k = DetailKey(v)
    BY <2>2 DEF DetailKey
  <2>3. CASE \E v \in Versions : k = ValuesKey(v)
    BY <2>3 DEF ValuesKey
  <2> QED BY <2>1, <2>2, <2>3 DEF Keys
<1> QED BY <1>1, <1>2

\* What a cache may hold: what a key asks for, if anything.
Fitting(c) ==
    \A k \in Keys : \/ c[k] = None
                    \/ k.doc = "versions" /\ c[k] \in (SUBSET Versions) \ {{}}
                    \/ k.doc = "detail" /\ c[k] \in Versions /\ k.of \in {0, c[k]}
                    \/ k.doc = "values" /\ <<k.of, c[k]>> \in ever

LEMMA SelectedTyped ==
    ASSUME NEW c, Fitting(c), NEW d \in Drawers
    PROVE  SelectedIn(c, d) \in Versions \cup {0}
<1>1. CASE c[VersionsKey] = None
  BY <1>1 DEF SelectedIn
<1>2. CASE c[VersionsKey] # None
  <2>1. c[VersionsKey] \in (SUBSET Versions) \ {{}}
    BY <1>2, KeyKinds DEF Fitting
  <2>2. Max(c[VersionsKey]) \in Versions
    BY <2>1, Newer
  <2> QED BY <1>2, <2>1, <2>2 DEF SelectedIn
<1> QED BY <1>1, <1>2

\* The values on hand are some version's, and the version's own when it has
\* any or none are being fetched.
LEMMA ValuesOnHand ==
    ASSUME NEW c, Fitting(c), ever \subseteq Versions \X Texts, NEW b, NEW v \in Versions,
           NEW last \in {ValuesKey(w) : w \in Versions} \cup {None}
    PROVE  /\ Data(c, b, ValuesKey(v), last) \in Texts \cup {None}
           /\ c[ValuesKey(v)] # None \/ ValuesKey(v) \notin b
                => Data(c, b, ValuesKey(v), last) = c[ValuesKey(v)]
<1>1. ASSUME NEW w \in Versions PROVE c[ValuesKey(w)] \in Texts \cup {None}
  <2>1. ValuesKey(w) \in Keys /\ ValuesKey(w).doc = "values" /\ ValuesKey(w).of = w
    BY KeyKinds
  <2>2. c[ValuesKey(w)] = None \/ <<w, c[ValuesKey(w)]>> \in ever
    BY <2>1 DEF Fitting
  <2> QED BY <2>2
<1>2. last # None => c[last] \in Texts \cup {None}
  BY <1>1
<1> HIDE DEF ValuesKey
<1> QED BY <1>1, <1>2 DEF Data

\* A render: the tray keeps its version and, unless other values arrive, its edits.
LEMMA Rendering ==
    ASSUME NEW c, Fitting(c), ever \subseteq Versions \X Texts,
           NEW b \in SUBSET Keys, NEW ks \in SUBSET Keys,
           NEW d \in Drawers \cup {None}, NEW t \in Trays \cup {None}, Render(c, b, d, t, ks)
    PROVE  /\ cache' = c /\ busy' \in SUBSET Keys /\ b \cup ks \subseteq busy'
           /\ drawer' \in Drawers \cup {None}
           /\ t = None => tray' = None
           /\ t # None =>
                /\ tray' \in Trays /\ tray'.ver = t.ver /\ tray'.typed \in {0, t.typed}
                /\ (c[ValuesKey(t.ver)] # None \/ ValuesKey(t.ver) \notin busy')
                     => tray'.base = c[ValuesKey(t.ver)]
                /\ tray'.typed # t.typed => tray'.base # t.base
                /\ tray'.typed = t.typed => t.typed = 0 \/ tray'.base = t.base
<1>1. cache' = c
  BY DEF Render
<1>2. busy' \in SUBSET Keys /\ b \cup ks \subseteq busy'
  <2>1. d # None => DetailKey(SelectedIn(c, d)) \in Keys
    BY SelectedTyped, KeyKinds
  <2> HIDE DEF DetailKey
  <2> QED BY <2>1 DEF Render
<1>3. drawer' \in Drawers \cup {None}
  <2>1. CASE d = None
    BY <2>1 DEF Render
  <2>2. CASE d # None
    <3> DEFINE k == DetailKey(SelectedIn(c, d))
    <3>1. k \in {DetailKey(v) : v \in Versions \cup {0}} /\ d \in Drawers
      BY <2>2, SelectedTyped
    <3>2. drawer' = d \/ drawer' = [d EXCEPT !.last = k]
      BY <2>2 DEF Render
    <3> HIDE DEF k
    <3> QED BY <3>1, <3>2 DEF Drawers
  <2> QED BY <2>1, <2>2
<1>4. t = None => tray' = None
  BY DEF Render
<1>5. ASSUME t # None
      PROVE  /\ tray' \in Trays /\ tray'.ver = t.ver /\ tray'.typed \in {0, t.typed}
             /\ (c[ValuesKey(t.ver)] # None \/ ValuesKey(t.ver) \notin busy')
                  => tray'.base = c[ValuesKey(t.ver)]
             /\ tray'.typed # t.typed => tray'.base # t.base
             /\ tray'.typed = t.typed => t.typed = 0 \/ tray'.base = t.base
  <2> DEFINE k == ValuesKey(t.ver)
             w == Data(c, busy', k, t.last)
             u == IF c[k] # None THEN [t EXCEPT !.last = k] ELSE t
  <2>1. t \in Trays /\ t.ver \in Versions /\ t.last \in {ValuesKey(v) : v \in Versions} \cup {None}
    BY <1>5 DEF Trays
  <2>2. w \in Texts \cup {None} /\ (c[k] # None \/ k \notin busy' => w = c[k])
    BY <2>1, ValuesOnHand
  <2>3. tray' = Sync(u, w)
    BY <1>5 DEF Render
  <2>4. k \in {ValuesKey(v) : v \in Versions}
    BY <2>1
  <2> SUFFICES /\ tray' \in Trays /\ tray'.ver = t.ver /\ tray'.typed \in {0, t.typed}
               /\ tray'.base = w
               /\ tray'.typed # t.typed => tray'.base # t.base
               /\ tray'.typed = t.typed => t.typed = 0 \/ tray'.base = t.base
    BY <2>2
  <2> HIDE DEF k, w
  <2>5. u \in Trays /\ u.ver = t.ver /\ u.base = t.base /\ u.typed = t.typed
    BY <2>1, <2>4 DEF Trays
  <2> HIDE DEF u
  <2>6. CASE w = u.base
    BY <2>3, <2>5, <2>6 DEF Sync, Trays
  <2>7. CASE w # u.base
    <3>1. tray' = [u EXCEPT !.base = w, !.typed = 0]
      BY <2>3, <2>7 DEF Sync
    <3>2. tray' \in Trays /\ tray'.ver = u.ver /\ tray'.base = w /\ tray'.typed = 0
      BY <2>2, <2>5, <3>1 DEF Trays
    <3> QED BY <2>5, <2>7, <3>2
  <2> QED BY <2>6, <2>7
<1> QED BY <1>1, <1>2, <1>3, <1>4, <1>5

-----------------------------------------------------------------------------
(* The invariant: types, with what the cache of a query may hold; and of   *)
(* the tray that the values taken over are the chosen version's, unless a  *)
(* fetch is under way, and that a version edited once has its values.      *)

Cached == cache = [k \in Keys |-> cache[k]]

Held ==
    tray # None =>
        /\ ValuesKey(tray.ver) \notin busy => tray.base = cache[ValuesKey(tray.ver)]
        /\ tray.typed # 0 => cache[ValuesKey(tray.typed)] # None

\* What is offered has been offered.
Known == \A v \in Versions : index[v] # None => <<v, index[v]>> \in ever

PagesInv == TypeOK /\ Cached /\ Known /\ Held

\* What every render keeps, of a cache that has all it had.
LEMMA RenderKeeps ==
    ASSUME PagesInv, NEW c, Fitting(c), c = [k \in Keys |-> c[k]],
           \A k \in Keys : cache[k] # None => c[k] # None,
           NEW b \in SUBSET Keys, NEW ks \in SUBSET Keys,
           NEW d \in Drawers \cup {None}, NEW t \in Trays \cup {None},
           t # None => t.typed = 0 \/ (tray # None /\ t.typed = tray.typed),
           Render(c, b, d, t, ks), ever' = ever
    PROVE  /\ cache' \in [Keys -> {c[k] : k \in Keys}] /\ Fitting(cache') /\ busy' \subseteq Keys
           /\ drawer' \in Drawers \cup {None} /\ tray' \in Trays \cup {None}
           /\ tray' = None <=> t = None
           /\ Cached' /\ Held'
<1>1. ever \subseteq Versions \X Texts
  BY DEF PagesInv, TypeOK
<1>2. /\ cache' = c /\ busy' \in SUBSET Keys
      /\ drawer' \in Drawers \cup {None}
      /\ t = None => tray' = None
      /\ t # None =>
           /\ tray' \in Trays /\ tray'.ver = t.ver /\ tray'.typed \in {0, t.typed}
           /\ (c[ValuesKey(t.ver)] # None \/ ValuesKey(t.ver) \notin busy')
                => tray'.base = c[ValuesKey(t.ver)]
  BY <1>1, Rendering
<1>3. t # None => tray' # None
  BY <1>2, NullsAssumption
<1>4. ASSUME t # None, t.typed # 0
      PROVE  c[ValuesKey(t.typed)] # None
  <2>1. tray # None /\ t.typed = tray.typed /\ t.typed \in Versions
    BY <1>4 DEF Trays
  <2>2. cache[ValuesKey(t.typed)] # None
    BY <1>4, <2>1 DEF PagesInv, Held
  <2> QED BY <2>1, <2>2, KeyKinds
<1>5. Held'
  <2> SUFFICES ASSUME tray' # None
               PROVE  /\ ValuesKey(tray'.ver) \notin busy' => tray'.base = cache'[ValuesKey(tray'.ver)]
                      /\ tray'.typed # 0 => cache'[ValuesKey(tray'.typed)] # None
    BY DEF Held, ValuesKey
  <2>1. t # None
    BY <1>2
  <2>2. cache' = c /\ tray'.ver = t.ver /\ tray'.typed \in {0, t.typed}
    BY <1>2, <2>1
  <2>3. ValuesKey(t.ver) \notin busy' => tray'.base = c[ValuesKey(t.ver)]
    BY <1>2, <2>1
  <2>4. t.typed # 0 => c[ValuesKey(t.typed)] # None
    BY <1>4, <2>1
  <2> QED BY <2>2, <2>3, <2>4
<1>6. Cached'
  BY <1>2 DEF Cached
<1> QED BY <1>2, <1>3, <1>5, <1>6

LEMMA PagesInitial == Init => PagesInv
<1> SUFFICES ASSUME Init PROVE PagesInv
  OBVIOUS
<1>1. Offered \in [Versions -> Texts \cup {None}] /\ {MaxPublished, MaxClicks, MaxReconnects} \subseteq Nat
  BY ChartAssumption
<1>2. TypeOK
  BY <1>1 DEF Init, TypeOK
<1>3. Cached /\ Held
  BY DEF Init, Cached, Held
<1>4. Known
  BY <1>1 DEF Init, Known
<1> QED BY <1>2, <1>3, <1>4 DEF PagesInv

LEMMA PagesStep == PagesInv /\ [Next]_vars => PagesInv'
<1> SUFFICES ASSUME PagesInv, [Next]_vars PROVE PagesInv'
  OBVIOUS
<1>1. /\ index \in [Versions -> Texts \cup {None}] /\ ever \subseteq Versions \X Texts
      /\ Fitting(cache) /\ busy \in SUBSET Keys /\ failed \subseteq Versions
      /\ drawer \in Drawers \cup {None} /\ tray \in Trays \cup {None}
      /\ sent # None => tray # None
      /\ cache = [k \in Keys |-> cache[k]]
      /\ Known
  BY DEF PagesInv, TypeOK, Cached, Fitting
<1>2. published \in 0 .. MaxPublished /\ clicks \in 0 .. MaxClicks /\ reconnects \in 0 .. MaxReconnects
  BY DEF PagesInv, TypeOK
<1>3. MaxPublished \in Nat /\ MaxClicks \in Nat /\ MaxReconnects \in Nat
  BY ChartAssumption
\* What a step that renders leaves to show.
<1>4. ASSUME NEW d \in Drawers \cup {None}, NEW t \in Trays \cup {None},
             NEW b \in SUBSET Keys, NEW ks \in SUBSET Keys,
             NEW c, Fitting(c), c = [k \in Keys |-> c[k]],
             \A k \in Keys : cache[k] # None => c[k] # None,
             t # None => t.typed = 0 \/ (tray # None /\ t.typed = tray.typed),
             sent # None => t # None,
             Render(c, b, d, t, ks), Still,
             failed' \subseteq Versions, clicks' \in 0 .. MaxClicks, reconnects' \in 0 .. MaxReconnects
      PROVE  PagesInv'
  <2>1. /\ Fitting(cache') /\ busy' \subseteq Keys
        /\ drawer' \in Drawers \cup {None} /\ tray' \in Trays \cup {None}
        /\ tray' = None <=> t = None
        /\ Cached' /\ Held'
    BY <1>4, RenderKeeps DEF Still
  <2>2. TypeOK'
    BY <1>1, <1>2, <1>4, <2>1 DEF TypeOK, Still, Fitting
  <2> QED BY <1>1, <1>4, <2>1, <2>2 DEF PagesInv, Known, Still
<1>5. ASSUME NEW v \in Versions, Publish(v) PROVE PagesInv'
  <2>1. PICK x \in Texts \cup {None} :
          /\ index' = [index EXCEPT ![v] = x]
          /\ ever' = IF x = None THEN ever ELSE ever \cup {<<v, x>>}
    BY <1>5 DEF Publish
  <2>2. UNCHANGED <<cache, busy, failed, drawer, tray, sent, clicks, reconnects>>
    BY <1>5 DEF Publish
  <2>3. ever \subseteq ever' /\ ever' \subseteq Versions \X Texts
    BY <1>1, <2>1
  <2>4. published' \in 0 .. MaxPublished
    BY <1>2, <1>3, <1>5 DEF Publish
  <2>5. index' \in [Versions -> Texts \cup {None}]
    BY <1>1, <2>1
  <2>6. TypeOK'
    BY <2>2, <2>3, <2>4, <2>5 DEF PagesInv, TypeOK
  <2>7. Cached' /\ Held'
    BY <2>2 DEF PagesInv, Cached, Held
  <2>8. Known'
    BY <1>1, <2>1 DEF Known
  <2> QED BY <2>6, <2>7, <2>8 DEF PagesInv
<1>6. ASSUME NEW k \in Keys, Answer(k) PROVE PagesInv'
  <2> DEFINE c == [cache EXCEPT ![k] = Document(k)]
  <2>1. Document(k) # None
    BY <1>6 DEF Answer
  <2>2. c[k] = Document(k) /\ \A j \in Keys \ {k} : c[j] = cache[j]
    BY <1>1
  <2>3. c = [j \in Keys |-> c[j]]
    BY <1>1
  <2>4. \/ k.doc = "versions" /\ Document(k) \in (SUBSET Versions) \ {{}}
        \/ k.doc = "detail" /\ Document(k) \in Versions /\ k.of \in {0, Document(k)}
        \/ k.doc = "values" /\ <<k.of, Document(k)>> \in ever'
    <3>1. CASE k.doc = "versions"
      BY <2>1, <3>1 DEF Document, Available
    <3>2. CASE k.doc = "detail"
      <4>1. Available # {} => Max(Available) \in Versions
        BY Newer DEF Available
      <4> QED BY <2>1, <3>2, <4>1 DEF Document, Newest, Available
    <3>3. CASE k.doc = "values"
      <4>1. k.of \in Versions
        BY <3>3, KeyKinds
      <4>2. Document(k) = index[k.of] /\ ever' = ever
        BY <1>6, <3>3 DEF Document, Answer, Quiet, Still
      <4> QED BY <1>1, <2>1, <3>3, <4>1, <4>2 DEF Known
    <3>4. k.doc \in {"versions", "detail", "values"}
      BY KeyKinds
    <3> QED BY <3>1, <3>2, <3>3, <3>4
  <2>5. Fitting(c)
    <3>1. ever' = ever
      BY <1>6 DEF Answer, Quiet, Still
    <3> QED BY <1>1, <2>2, <2>4, <3>1 DEF Fitting
  <2>6. \A j \in Keys : cache[j] # None => c[j] # None
    BY <2>1, <2>2
  <2>7. failed' \subseteq Versions
    BY <1>1, <1>6, KeyKinds DEF Answer
  <2>8. /\ Render(c, busy \ {k}, drawer, tray, {}) /\ Still
        /\ clicks' \in 0 .. MaxClicks /\ reconnects' \in 0 .. MaxReconnects
    BY <1>2, <1>6 DEF Answer, Quiet
  <2> HIDE DEF c
  <2>9. busy \ {k} \in SUBSET Keys /\ {} \in SUBSET Keys
    BY <1>1
  <2> QED BY <1>1, <1>4, <2>3, <2>5, <2>6, <2>7, <2>8, <2>9
\* Steps that leave the cache as it is.
<1>7. ASSUME NEW d \in Drawers \cup {None}, NEW t \in Trays \cup {None},
             NEW b \in SUBSET Keys, NEW ks \in SUBSET Keys,
             t # None => t.typed = 0 \/ (tray # None /\ t.typed = tray.typed),
             sent # None => t # None,
             Render(cache, b, d, t, ks), Still,
             failed' \subseteq Versions, clicks' \in 0 .. MaxClicks, reconnects' \in 0 .. MaxReconnects
      PROVE  PagesInv'
  BY <1>1, <1>4, <1>7
<1>8. ASSUME NEW k \in Keys, FetchFails(k) PROVE PagesInv'
  <2>1. failed' \subseteq Versions
    BY <1>1, <1>8, KeyKinds DEF FetchFails
  <2>2. /\ Render(cache, busy \ {k}, drawer, tray, {}) /\ Still
        /\ clicks' \in 0 .. MaxClicks /\ reconnects' \in 0 .. MaxReconnects
    BY <1>2, <1>8 DEF FetchFails, Quiet
  <2>3. busy \ {k} \in SUBSET Keys /\ {} \in SUBSET Keys
    BY <1>1
  <2> QED BY <1>1, <1>7, <2>1, <2>2, <2>3
<1>9. drawer # None => Selected \in Versions \cup {0}
  BY <1>1, SelectedTyped DEF Selected
<1>10. tray # None => ValuesKey(tray.ver) \in Keys /\ tray.ver \in Versions
  BY <1>1, KeyKinds DEF Trays
<1>11. {VersionsKey} \in SUBSET Keys /\ {} \in SUBSET Keys
  BY KeyKinds
<1>12. ASSUME Reconnect PROVE PagesInv'
  <2>1. Observed \in SUBSET Keys
    BY <1>9, <1>10, KeyKinds DEF Observed
  <2>2. /\ Render(cache, busy, drawer, tray, Observed) /\ Still
        /\ failed' \subseteq Versions
        /\ clicks' \in 0 .. MaxClicks /\ reconnects' \in 0 .. MaxReconnects
    BY <1>1, <1>2, <1>3, <1>12 DEF Reconnect
  <2> QED BY <1>1, <1>7, <2>1, <2>2
<1>13. Clicks => /\ Still /\ failed' \subseteq Versions
                 /\ clicks' \in 0 .. MaxClicks /\ reconnects' \in 0 .. MaxReconnects
  BY <1>1, <1>2, <1>3 DEF Clicks
<1>14. Quiet /\ UNCHANGED failed => /\ Still /\ failed' \subseteq Versions
                 /\ clicks' \in 0 .. MaxClicks /\ reconnects' \in 0 .. MaxReconnects
  BY <1>1, <1>2 DEF Quiet
<1>15. ASSUME OpenDrawer PROVE PagesInv'
  <2> DEFINE d == [manual |-> 0, last |-> None]
  <2>1. d \in Drawers
    BY DEF Drawers
  <2>2. Render(cache, busy, d, tray, {VersionsKey}) /\ Clicks
    BY <1>15 DEF OpenDrawer
  <2> HIDE DEF d
  <2> QED BY <1>1, <1>7, <1>11, <1>13, <2>1, <2>2
<1>16. ASSUME CloseDrawer PROVE PagesInv'
  <2>1. Render(cache, busy, None, tray, {}) /\ Quiet /\ UNCHANGED failed
    BY <1>16 DEF CloseDrawer
  <2> QED BY <1>1, <1>7, <1>11, <1>14, <2>1
<1>17. ASSUME NEW v \in Versions, PickVersion(v) PROVE PagesInv'
  <2> DEFINE d == [drawer EXCEPT !.manual = v]
  <2>1. d \in Drawers
    BY <1>1, <1>17 DEF PickVersion, Drawers
  <2>2. Render(cache, busy, d, tray, {}) /\ Clicks
    BY <1>17 DEF PickVersion
  <2> HIDE DEF d
  <2> QED BY <1>1, <1>7, <1>11, <1>13, <2>1, <2>2
<1>18. ASSUME OpenTray PROVE PagesInv'
  <2> DEFINE t == [ver |-> Selected, base |-> None, typed |-> 0, last |-> None]
             ks == {VersionsKey, ValuesKey(Selected)}
  <2>1. Selected \in Versions
    BY <1>9, <1>18 DEF OpenTray
  <2>2. t \in Trays /\ t.typed = 0
    BY <2>1 DEF Trays
  <2>3. ks \in SUBSET Keys
    BY <2>1, KeyKinds
  <2>4. Render(cache, busy, drawer, t, ks) /\ Clicks
    BY <1>18 DEF OpenTray
  <2>5. t # None
    BY <2>2, NullsAssumption
  <2> HIDE DEF t, ks
  <2> QED BY <1>1, <1>7, <1>13, <2>2, <2>3, <2>4, <2>5
<1>19. ASSUME NEW v \in Versions, SelectVersion(v) PROVE PagesInv'
  <2> DEFINE t == [tray EXCEPT !.ver = v]
  <2>1. tray # None /\ tray \in Trays
    BY <1>1, <1>19 DEF SelectVersion
  <2>2. t \in Trays /\ t.typed = tray.typed
    BY <2>1 DEF Trays
  <2>3. Render(cache, busy, drawer, t, {ValuesKey(v)}) /\ Clicks
    BY <1>19 DEF SelectVersion
  <2>4. t # None
    BY <2>2, NullsAssumption
  <2>5. {ValuesKey(v)} \in SUBSET Keys
    BY KeyKinds
  <2> HIDE DEF t
  <2> QED BY <1>1, <1>7, <1>13, <2>1, <2>2, <2>3, <2>4, <2>5
<1>20. ASSUME Cancel PROVE PagesInv'
  <2>1. Render(cache, busy, drawer, None, {}) /\ Quiet /\ UNCHANGED failed /\ sent = None
    BY <1>20 DEF Cancel
  <2> QED BY <1>1, <1>7, <1>11, <1>14, <2>1
<1>21. ASSUME Edit \/ Reset PROVE PagesInv'
  <2>1. /\ UNCHANGED <<index, ever, sent, published, clicks, reconnects, cache, busy, failed, drawer>>
        /\ tray # None /\ tray \in Trays
        /\ tray' = [tray EXCEPT !.typed = tray.ver] \/ tray' = [tray EXCEPT !.typed = 0]
    BY <1>1, <1>21 DEF Edit, Reset, Quiet, Still
  <2>2. tray' \in Trays /\ tray'.ver = tray.ver /\ tray'.base = tray.base
    BY <2>1 DEF Trays
  <2>3. tray'.typed # 0 => tray.base # None /\ ValuesKey(tray.ver) \notin busy /\ tray'.typed = tray.ver
    BY <1>21, <2>1 DEF Edit, Reset, TrayLoading, Trays
  <2>4. Held'
    BY <2>1, <2>2, <2>3 DEF PagesInv, Held, ValuesKey
  <2>5. TypeOK'
    BY <2>1, <2>2, NullsAssumption DEF PagesInv, TypeOK
  <2> QED BY <2>1, <2>4, <2>5 DEF PagesInv, Cached, Known
<1>22. ASSUME Install \/ InstallEnds PROVE PagesInv'
  <2>1. /\ UNCHANGED <<index, ever, published, clicks, reconnects, cache, busy, failed, drawer>>
        /\ tray' = tray \/ (tray' = None /\ sent' = None)
        /\ sent' # None => tray # None
    BY <1>22 DEF Install, InstallEnds
  <2>2. TypeOK'
    BY <2>1 DEF PagesInv, TypeOK
  <2>3. Held'
    BY <2>1 DEF PagesInv, Held
  <2> QED BY <2>1, <2>2, <2>3 DEF PagesInv, Cached, Known
<1>23. CASE UNCHANGED vars
  BY <1>23 DEF PagesInv, TypeOK, Cached, Known, Held, vars
<1> QED BY <1>5, <1>6, <1>8, <1>12, <1>15, <1>16, <1>17, <1>18, <1>19, <1>20, <1>21, <1>22, <1>23 DEF Next

LEMMA PagesInvariant == Spec => []PagesInv
BY PagesInitial, PagesStep, PTL DEF Spec

(* What the Charts page has in its cache and on screen is what a repository *)
(* may offer for the key, the drawer and the tab (useChart, useChartValues). *)
THEOREM ChartsTyped == Spec => []TypeOK
<1>1. PagesInv => TypeOK
  BY DEF PagesInv
<1> QED BY PagesInvariant, <1>1, PTL

-----------------------------------------------------------------------------
(* The documents.                                                          *)

\* What an install sends is of its version.
Sending == sent # None => sent.base = None \/ <<sent.ver, sent.base>> \in ever

LEMMA SendingStep == PagesInv /\ Sending /\ [Next]_vars => Sending'
<1> SUFFICES ASSUME PagesInv, Sending, [Next]_vars PROVE Sending'
  OBVIOUS
<1>1. CASE Install
  <2>1. /\ sent' = [ver |-> tray.ver, base |-> tray.base, typed |-> tray.typed] /\ ever' = ever
        /\ tray # None /\ ValuesKey(tray.ver) \notin busy
    BY <1>1 DEF Install, TrayLoading
  <2>2. tray.ver \in Versions /\ tray.base = cache[ValuesKey(tray.ver)]
    BY <2>1 DEF PagesInv, TypeOK, Trays, Held
  <2>3. ValuesKey(tray.ver) \in Keys /\ ValuesKey(tray.ver).doc = "values" /\ ValuesKey(tray.ver).of = tray.ver
    BY <2>2, KeyKinds
  <2>4. tray.base = None \/ <<tray.ver, tray.base>> \in ever
    BY <2>2, <2>3 DEF PagesInv, TypeOK
  <2> QED BY <2>1, <2>4 DEF Sending
<1>2. CASE InstallEnds
  BY <1>2 DEF InstallEnds, Sending
<1>3. CASE ~Install /\ ~InstallEnds
  <2>1. sent' = sent /\ ever \subseteq ever'
    BY <1>3 DEF Next, Publish, Answer, FetchFails, Reconnect, OpenDrawer, CloseDrawer, PickVersion,
                OpenTray, SelectVersion, Edit, Reset, Cancel, Clicks, Quiet, Still, vars
  <2> QED BY <2>1 DEF Sending
<1> QED BY <1>1, <1>2, <1>3

(* Text that is installed with a version is of that version, and metadata  *)
(* shown as loaded are the selected version's, however useQuery's earlier  *)
(* data, the publisher and the user interleave (HelmChartDetailDrawer's and *)
(* HelmChartVersionTray's loading conditions).                             *)
THEOREM DocumentsOfVersionThm == Spec => []DocumentsOfVersion
<1>1. Init => Sending
  BY DEF Init, Sending
<1>2. ASSUME PagesInv, Sending PROVE DocumentsOfVersion
  <2> SUFFICES ASSUME drawer # None, ~DrawerLoading, Selected # 0, Metadata # None
               PROVE  Metadata = Selected
    BY <1>2 DEF DocumentsOfVersion, Sending
  <2> DEFINE k == DetailKey(Selected)
  <2>1. k \in Keys /\ k.doc = "detail" /\ k.of = Selected
    <3>1. Fitting(cache) /\ drawer \in Drawers
      BY <1>2 DEF PagesInv, TypeOK, Fitting
    <3>2. Selected \in Versions \cup {0}
      BY <3>1, SelectedTyped DEF Selected
    <3> QED BY <3>2, KeyKinds
  <2>2. k \notin busy \/ Metadata = Selected
    BY DEF DrawerLoading
  <2>3. CASE k \notin busy
    <3>1. Metadata = cache[k]
      BY <2>3 DEF Metadata, Data
    <3>2. k.of \in {0, cache[k]}
      BY <1>2, <2>1, <3>1 DEF PagesInv, TypeOK
    <3> QED BY <2>1, <3>1, <3>2
  <2> QED BY <2>2, <2>3
<1> QED BY PagesInvariant, SendingStep, <1>1, <1>2, PTL DEF Spec

-----------------------------------------------------------------------------
(* The edits.                                                              *)

LEMMA EditsStep ==
    ASSUME PagesInv, PagesInv', Next,
           tray # None, tray.typed # 0, tray.typed = tray.ver,
           tray' # None, tray'.ver = tray.ver, tray'.typed = 0, ~Reset
    PROVE  \E t \in Texts \ {tray.base} : <<tray.ver, t>> \in ever
<1> DEFINE k == ValuesKey(tray.ver)
<1>1. tray \in Trays /\ tray.ver \in Versions /\ ever \subseteq Versions \X Texts
      /\ Fitting(cache) /\ cache[k] # None
  BY DEF PagesInv, TypeOK, Fitting, Held, Trays
<1>2. k \in Keys /\ k.doc = "values" /\ k.of = tray.ver
  BY <1>1, KeyKinds
\* A render drops edits only for values that differ.
<1>3. ASSUME NEW c, NEW b \in SUBSET Keys, NEW ks \in SUBSET Keys, NEW d \in Drawers \cup {None},
             Fitting(c), c[k] # None, Render(c, b, d, tray, ks)
      PROVE  \E t \in Texts \ {tray.base} : <<tray.ver, t>> \in ever
  <2>1. tray'.base = c[k] /\ tray'.base # tray.base
    BY <1>1, <1>3, Rendering
  <2>2. <<tray.ver, c[k]>> \in ever
    BY <1>2, <1>3 DEF Fitting
  <2> QED BY <1>1, <2>1, <2>2
<1>4. busy \in SUBSET Keys /\ drawer \in Drawers \cup {None}
  BY DEF PagesInv, TypeOK
<1>5. ASSUME NEW j \in Keys, Answer(j) \/ FetchFails(j)
      PROVE  \E t \in Texts \ {tray.base} : <<tray.ver, t>> \in ever
  <2>1. PICK c : Render(c, busy \ {j}, drawer, tray, {}) /\ c \in {cache, [cache EXCEPT ![j] = Document(j)]}
    BY <1>5 DEF Answer, FetchFails
  <2>2. c = cache' /\ ever' = ever
    BY <1>5, <2>1 DEF Render, Answer, FetchFails, Quiet, Still
  <2>3. Fitting(c)
    BY <2>2 DEF PagesInv, TypeOK, Fitting
  <2>4. c[k] # None
    BY <1>1, <1>2, <1>5, <2>1 DEF Answer, FetchFails, PagesInv, Cached, Render
  <2>5. busy \ {j} \in SUBSET Keys /\ {} \in SUBSET Keys
    BY <1>4
  <2> QED BY <1>3, <1>4, <2>1, <2>3, <2>4, <2>5
<1>6. ASSUME Reconnect \/ OpenDrawer \/ CloseDrawer \/ \E v \in Versions : PickVersion(v)
      PROVE  \E t \in Texts \ {tray.base} : <<tray.ver, t>> \in ever
  <2>1. PICK d, ks : /\ Render(cache, busy, d, tray, ks) /\ ks \subseteq Keys
                     /\ d \in Drawers \cup {None}
    <3>1. drawer # None => Selected \in Versions \cup {0}
      BY <1>1, <1>4, SelectedTyped DEF Selected
    <3>2. Observed \subseteq Keys /\ VersionsKey \in Keys
      BY <1>2, <3>1, KeyKinds DEF Observed
    <3>3. [manual |-> 0, last |-> None] \in Drawers
      BY DEF Drawers
    <3>4. ASSUME NEW v \in Versions, drawer # None PROVE [drawer EXCEPT !.manual = v] \in Drawers
      BY <1>4, <3>4 DEF Drawers
    <3>5. CASE Reconnect
      BY <1>4, <3>2, <3>5 DEF Reconnect
    <3>6. CASE OpenDrawer
      BY <3>2, <3>3, <3>6 DEF OpenDrawer
    <3>7. CASE CloseDrawer
      BY <3>7 DEF CloseDrawer
    <3>8. CASE \E v \in Versions : PickVersion(v)
      BY <3>4, <3>8 DEF PickVersion
    <3> QED BY <1>6, <3>5, <3>6, <3>7, <3>8
  <2> QED BY <1>1, <1>3, <1>4, <2>1
<1>7. ASSUME NEW v \in Versions, SelectVersion(v) PROVE FALSE
  <2> DEFINE t == [tray EXCEPT !.ver = v]
  <2>1. t \in Trays /\ t.ver = v /\ v # tray.ver
    BY <1>1, <1>7 DEF SelectVersion, Trays
  <2>2. Render(cache, busy, drawer, t, {ValuesKey(v)}) /\ {ValuesKey(v)} \in SUBSET Keys
    BY <1>7, KeyKinds DEF SelectVersion
  <2>3. t # None
    BY <2>1, NullsAssumption
  <2> HIDE DEF t
  <2>4. tray'.ver = t.ver
    BY <1>1, <1>4, <2>1, <2>2, <2>3, Rendering
  <2> QED BY <2>1, <2>4
<1>8. ~Cancel /\ ~OpenTray /\ ~Edit
  BY DEF Cancel, OpenTray, Edit, Render
<1>9. ~Install /\ ~InstallEnds /\ \A v \in Versions : ~Publish(v)
  BY DEF Install, InstallEnds, Publish
<1> QED BY <1>5, <1>6, <1>7, <1>8, <1>9 DEF Next

(* An edit of the chosen version's values is dropped by the user, or because *)
(* the publisher has changed those values, and by nothing else              *)
(* (HelmChartVersionTray's effect on defaultValues).                        *)
THEOREM EditsSurviveThm == Spec => EditsSurvive
<1>1. ASSUME PagesInv, PagesInv', [Next]_vars
      PROVE  [(/\ tray # None /\ tray.typed # 0 /\ tray.typed = tray.ver
               /\ tray' # None /\ tray'.ver = tray.ver /\ tray'.typed = 0)
              => \/ Reset
                 \/ \E t \in Texts \ {tray.base} : <<tray.ver, t>> \in ever]_vars
  BY <1>1, EditsStep
<1> QED BY PagesInvariant, <1>1, PTL DEF Spec, EditsSurvive

-----------------------------------------------------------------------------
(* The catalog.                                                            *)

\* A window is a finite set of at most PageSize indexes; only a window that
\* ends within the matches is full.
LEMMA WindowSize ==
    ASSUME NEW q \in Queries, NEW o \in Nat
    PROVE  /\ IsFiniteSet(Window(q, o))
           /\ Cardinality(Window(q, o)) \in 0 .. PageSize
           /\ ~More(q, o) => Matches[q] < o + PageSize
<1> USE CatalogAssumption
<1> DEFINE I == o .. o + PageSize - 1
<1>1. /\ IsFiniteSet(I)
      /\ Cardinality(I) = PageSize
  <2> DEFINE b == o + PageSize - 1
  <2>1. o \in Int /\ b \in Int /\ ~(o > b) /\ b - o + 1 = PageSize
    OBVIOUS
  <2> HIDE DEF b
  <2>2. /\ IsFiniteSet(o .. b)
        /\ Cardinality(o .. b) = IF o > b THEN 0 ELSE b - o + 1
    BY <2>1, FS_Interval
  <2> QED
    BY <2>1, <2>2 DEF b
<1>2. Window(q, o) \subseteq I
  BY DEF Window
<1>3. /\ IsFiniteSet(Window(q, o))
      /\ Cardinality(Window(q, o)) <= PageSize
  BY <1>1, <1>2, FS_Subset
<1>4. Cardinality(Window(q, o)) \in Nat
  BY <1>3, FS_CardinalityType
<1>5. ASSUME o + PageSize <= Matches[q]
      PROVE  More(q, o)
  <2>1. Window(q, o) = I
    BY <1>5 DEF Window
  <2> QED
    BY <2>1, <1>1 DEF More
<1> QED
  BY <1>3, <1>4, <1>5

\* The page of an offset has no more entries than its window, so the next
\* offset does not pass the window's end.
LEMMA PageBound ==
    ASSUME NEW q \in Queries, NEW o \in Nat
    PROVE  /\ Cardinality(Entries(q, o)) \in Nat
           /\ Cardinality(Entries(q, o)) <= PageSize
<1>1. /\ IsFiniteSet(Window(q, o))
      /\ Cardinality(Window(q, o)) \in 0 .. PageSize
  BY WindowSize
<1>2. Entries(q, o) \subseteq Window(q, o)
  BY DEF Entries
<1>3. /\ IsFiniteSet(Entries(q, o))
      /\ Cardinality(Entries(q, o)) <= Cardinality(Window(q, o))
  BY <1>1, <1>2, FS_Subset
<1>4. Cardinality(Entries(q, o)) \in Nat
  BY <1>3, FS_CardinalityType
<1> QED
  BY <1>1, <1>3, <1>4, CatalogAssumption

----------------------------------------------------------------------------
\* The variables of the settings tab's catalog keep their types.
THEOREM CatalogTyped == CatalogSpec => []CatalogTypeOK
<1>1. CatalogInit => CatalogTypeOK
  BY CatalogAssumption DEF CatalogInit, CatalogTypeOK
<1>2. CatalogTypeOK /\ [CatalogNext]_catalog => CatalogTypeOK'
  <2> SUFFICES ASSUME CatalogTypeOK, [CatalogNext]_catalog
               PROVE  CatalogTypeOK'
    OBVIOUS
  <2> USE DEF CatalogTypeOK
  <2>1. ASSUME NEW q \in Queries, TypeSearch(q)
        PROVE  CatalogTypeOK'
    BY <2>1 DEF TypeSearch
  <2>2. ASSUME NEW q \in Queries, PageArrives(q)
        PROVE  CatalogTypeOK'
    <3>1. Cardinality(Entries(q, offset[q])) \in Nat
      BY PageBound
    <3>2. Entries(q, offset[q]) \subseteq Nat
      BY CatalogAssumption DEF Entries
    <3>3. More(q, offset[q]) \in BOOLEAN
      BY DEF More
    <3> QED
      BY <2>2, <3>1, <3>2, <3>3 DEF PageArrives
  <2>3. ASSUME NEW q \in Queries, PageFails(q)
        PROVE  CatalogTypeOK'
    BY <2>3 DEF PageFails
  <2>4. CASE Debounce
    BY <2>4 DEF Debounce
  <2>5. CASE Scroll
    BY <2>5 DEF Scroll
  <2>6. CASE UNCHANGED catalog
    BY <2>6 DEF catalog
  <2> QED
    BY <2>1, <2>2, <2>3, <2>4, <2>5, <2>6 DEF CatalogNext
<1> QED
  BY <1>1, <1>2, PTL DEF CatalogSpec

\* No step opens a gap before the next offset.
LEMMA SkipsNothing ==
    ASSUME CatalogTypeOK, NothingSkipped, [CatalogNext]_catalog
    PROVE  NothingSkipped'
<1> USE DEF CatalogTypeOK, NothingSkipped
<1>1. ASSUME NEW q \in Queries, PageArrives(q)
      PROVE  NothingSkipped'
  <2> DEFINE o == offset[q]
  <2>1. SUFFICES ASSUME NEW p \in Queries, NEW i \in Enabled[p], i < offset'[p]
                 PROVE  i \in shown'[p]
    BY CatalogAssumption
  <2>2. CASE p # q
    BY <1>1, <2>1, <2>2 DEF PageArrives
  <2>3. CASE p = q /\ i < o
    BY <1>1, <2>3 DEF PageArrives
  <2>4. CASE p = q /\ ~(i < o)
    <3>1. /\ i \in Nat
          /\ i < Matches[q]
      BY <2>4, CatalogAssumption
    <3>2. offset'[q] = o + Cardinality(Entries(q, o))
      BY <1>1 DEF PageArrives
    <3>3. i < o + PageSize
      BY <2>1, <2>4, <3>1, <3>2, PageBound, CatalogAssumption
    <3>4. i \in Entries(q, o)
      BY <2>4, <3>1, <3>3, CatalogAssumption DEF Entries, Window
    <3> QED
      BY <1>1, <2>4, <3>4 DEF PageArrives
  <2> QED
    BY <2>2, <2>3, <2>4
<1>2. ASSUME NEW q \in Queries, TypeSearch(q) \/ PageFails(q)
      PROVE  NothingSkipped'
  BY <1>2 DEF TypeSearch, PageFails
<1>3. CASE Debounce \/ Scroll \/ UNCHANGED catalog
  BY <1>3 DEF Debounce, Scroll, catalog
<1> QED
  BY <1>1, <1>2, <1>3 DEF CatalogNext

\* Windows overlap but leave no gap: every enabled match before the next
\* offset has been on a page (useSearchHelmRepositoryCatalog's next offset).
THEOREM NothingSkippedThm == CatalogSpec => []NothingSkipped
<1>1. CatalogInit => NothingSkipped
  BY CatalogAssumption DEF CatalogInit, NothingSkipped
<1>2. CatalogTypeOK /\ NothingSkipped /\ [CatalogNext]_catalog => NothingSkipped'
  BY SkipsNothing
<1> QED
  BY <1>1, <1>2, CatalogTyped, PTL DEF CatalogSpec

\* A query without a next page has shown all its enabled matches: its last
\* window reached the end and nothing before it was skipped.
THEOREM CompleteAtEndThm == CatalogSpec => []CompleteAtEnd
<1>1. CatalogInit => CompleteAtEnd
  BY DEF CatalogInit, CompleteAtEnd
<1>2. CatalogTypeOK /\ NothingSkipped /\ CompleteAtEnd /\ [CatalogNext]_catalog => CompleteAtEnd'
  <2> SUFFICES ASSUME CatalogTypeOK, NothingSkipped, CompleteAtEnd, [CatalogNext]_catalog
               PROVE  CompleteAtEnd'
    OBVIOUS
  <2> USE DEF CatalogTypeOK, CompleteAtEnd
  <2>1. ASSUME NEW q \in Queries, PageArrives(q)
        PROVE  CompleteAtEnd'
    <3> DEFINE o == offset[q]
    <3>1. SUFFICES ASSUME NEW p \in loaded', ~hasMore'[p], NEW i \in Enabled[p]
                   PROVE  i \in shown'[p]
      OBVIOUS
    <3>2. CASE p # q
      BY <2>1, <3>1, <3>2 DEF PageArrives
    <3>3. CASE p = q /\ i < o
      BY <2>1, <3>3 DEF PageArrives, NothingSkipped
    <3>4. CASE p = q /\ ~(i < o)
      <4>1. /\ i \in Nat
            /\ i < Matches[q]
        BY <3>4, CatalogAssumption
      <4>2. ~More(q, o)
        BY <2>1, <3>1, <3>4 DEF PageArrives
      <4>3. Matches[q] < o + PageSize
        BY <4>2, WindowSize
      <4>4. i \in Entries(q, o)
        BY <3>4, <4>1, <4>3, CatalogAssumption DEF Entries, Window
      <4> QED
        BY <2>1, <3>4, <4>4 DEF PageArrives
    <3> QED
      BY <3>2, <3>3, <3>4
  <2>2. ASSUME NEW q \in Queries, TypeSearch(q) \/ PageFails(q)
        PROVE  CompleteAtEnd'
    BY <2>2 DEF TypeSearch, PageFails
  <2>3. CASE Debounce \/ Scroll \/ UNCHANGED catalog
    BY <2>3 DEF Debounce, Scroll, catalog
  <2> QED
    BY <2>1, <2>2, <2>3 DEF CatalogNext
<1> QED
  BY <1>1, <1>2, CatalogTyped, NothingSkippedThm, PTL DEF CatalogSpec

=============================================================================
