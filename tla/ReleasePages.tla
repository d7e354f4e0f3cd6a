---------------------------- MODULE ReleasePages ----------------------------
(***************************************************************************)
(* The Releases page of the Helm frontend: the table, the buttons of its   *)
(* rows, the detail drawer, the rollback modal and the upgrade tab.  They  *)
(* share one query cache and the host's active context, which may change   *)
(* under an open modal, an open tab or a fetch.  The page learns of it on  *)
(* its own and the backend by messages (ClusterProvider has them in full), *)
(* so the two may disagree about the cluster for a while.  What Helm does  *)
(* with a call is in HelmService, optimistic rows are in ReleaseTable; a   *)
(* release here is its latest revision in each cluster (0: not installed)  *)
(* and the question is which cluster and which release a click reaches.    *)
(***************************************************************************)
EXTENDS Naturals, Sequences, FiniteSets

CONSTANTS
    Contexts,        \* the clusters the host can switch between
    First,           \* the one the page is opened in
    Releases,        \* namespace/name of a release: the same in every cluster
    None,
    Installed,       \* the revisions at the start, by cluster and release
    Resolved,        \* the releases whose chart repository the backend found
    MaxRev,          \* bound on revisions
    MaxCalls,        \* bound on calls that change a release
    MaxTurns         \* bound on turns: choices of the host, fetches nobody on the page
                     \* asked for, and drawers, tabs and modals of rows opened

\* a confirmation or rollback modal of a row or of the drawer
Modals == [kind : {"delete", "cleanup", "rollback", "confirm"}, rel : Releases,
           place : {"row", "drawer"}, from : Contexts, calm : BOOLEAN]

ASSUME PagesAssumption ==
    /\ First \in Contexts /\ Resolved \subseteq Releases
    /\ Installed \in [Contexts -> [Releases -> 0 .. MaxRev]]
    /\ None \notin Contexts \cup Releases \cup Modals
    /\ {MaxRev, MaxCalls, MaxTurns} \subseteq Nat

VARIABLES
    chosen,     \* the host: the cluster it chose last
    coming,     \* its choices that the backend has not applied yet
    backend,    \* the cluster the backend's client is bound to
    ctx,        \* activeContext of the page
    revs,       \* the clusters: latest revision of each release
    cache,      \* query cache: what each key holds
    fetch,      \* clusters the backend was bound to while a key's fetch is under way
    steady,     \* history: fetches begun in step that no choice of the host crossed
    lastList,   \* the context of the last table that had data (placeholder)
    sel,        \* the release of the open drawer
    header,     \* HelmReleaseDetailDrawer's copy of the detail data
    modal,      \* the open confirmation or rollback modal
    picked,     \* the selected revision of each row's rollback modal
    tab,        \* the upgrade tab
    calls,      \* mutations, and a row's decodeValuesYAML, under way
    made,       \* mutations so far
    turns       \* turns so far

host == <<chosen, coming, backend, ctx>>
pages == <<sel, header, modal, picked, tab>>
vars == <<host, revs, cache, fetch, steady, lastList, pages, calls, made, turns>>

\* host, backend and page agree about the cluster, and no message is under way
InStep == ctx = chosen /\ backend = chosen /\ coming = <<>>

----------------------------------------------------------------------------
(* The query cache.  The history key has no context in it.                 *)

\* Faulty variant: the list's key has no context in it either.
ListKey_Plain(c) == [kind |-> "list", ctx |-> CHOOSE x \in Contexts : TRUE]

ListKey(c) == [kind |-> "list", ctx |-> c]
DetailKey(c, r) == [kind |-> "detail", ctx |-> c, rel |-> r]
HistoryKey(r) == [kind |-> "history", rel |-> r]

ListKeys == {ListKey(c) : c \in Contexts}
DetailKeys == {DetailKey(c, r) : c \in Contexts, r \in Releases}
Keys == ListKeys \cup DetailKeys \cup {HistoryKey(r) : r \in Releases}

\* the releases whose revisions an answer carries (a detail only names its cluster)
Scope(k) == CASE k.kind = "list" -> Releases
              [] k.kind = "history" -> {k.rel}
              [] k.kind = "detail" -> {}

Busy(k) == fetch[k] # {}

\* What a key holds was fetched in step, nothing crossed or failed since; a
\* click on it is calm, as long as the host chooses no other cluster.
Sure(k) == ~Busy(k) /\ cache[k] # None /\ cache[k].sure
Calm(k) == InStep /\ Sure(k)

\* useQuery keeps the rows of the previous key while the new key's first fetch runs
Table == IF cache[ListKey(ctx)] # None THEN cache[ListKey(ctx)]
         ELSE IF Busy(ListKey(ctx)) /\ lastList # None THEN cache[ListKey(lastList)]
         ELSE None

RowsOf(t) == IF t = None THEN {} ELSE {r \in Releases : t.revs[r] > 0}
Rows == RowsOf(Table)

\* what the open drawer's body has for its key
Detail == IF sel = None THEN None ELSE cache[DetailKey(ctx, sel)]

----------------------------------------------------------------------------
(* What every step ends with: the renders and effects of the components.   *)

\* components that mount, change key or see the window come back fetch ks,
\* unless a fetch is under way already
Watch(ks) == {k \in ks : ~Busy(k)}

\* The fetches of ks begin: they ask the backend, whatever the key says.
Fetches(ks) ==
    /\ fetch' = [k \in Keys |-> IF k \in ks THEN {backend} ELSE fetch[k]]
    /\ steady' = IF InStep' THEN steady \cup ks ELSE steady

\* Faulty variants: the copy is kept while there are no data, or loses its cluster.
HeaderCopy_Kept == IF sel' = None \/ Detail' = None \/ (sel' = sel /\ Detail' = Detail) THEN header
                  ELSE [rel |-> sel', from |-> Detail'.from]
HeaderCopy_Bare == IF sel' = None \/ (sel' = sel /\ Detail' = Detail) THEN header
                  ELSE [rel |-> sel', from |-> IF Detail' = None THEN None ELSE Detail'.from]

\* The effect that calls onDataChange runs when the body mounts or its data
\* change; a closed drawer leaves the copy.
HeaderCopy == IF sel' = None \/ (sel' = sel /\ Detail' = Detail) THEN header
              ELSE IF Detail' = None THEN None
              ELSE [rel |-> sel', from |-> Detail'.from]

\* a row that leaves the table and buttons that leave the header take their modals along
Surviving(m) == IF \/ m = None
                   \/ m.place = "row" /\ m.rel \in RowsOf(Table')
                   \/ m.place = "drawer" /\ sel' # None /\ header' # None
                THEN m ELSE None

\* The rollback modal's selection defaults to the row's revision as soon as
\* it is null and the history (of an open or an earlier modal) lists it.
NoPick == [rev |-> 0, from |-> None, by |-> "default"]
Defaulted(p) == [r \in Releases |->
    IF r \notin RowsOf(Table') THEN NoPick
    ELSE IF p[r].rev = 0 /\ cache'[HistoryKey(r)] # None
              /\ Table'.revs[r] <= cache'[HistoryKey(r)].revs[r]
         THEN [rev |-> Table'.revs[r], from |-> cache'[HistoryKey(r)].from, by |-> "default"]
         ELSE p[r]]

\* Faulty variant: callbacks outlive their component.
Mounted_Forever(c) == c

\* callbacks given to mutate() are called only while their component is mounted
Mounted(c) == [c EXCEPT !.live = @ /\ CASE c.place = "row" -> c.rel \in RowsOf(Table')
                                        [] c.place = "drawer" -> header' # None /\ sel' # None
                                        [] c.place = "tab" -> tab' # None]

Render(m, p, cs) ==
    /\ lastList' = IF cache'[ListKey(ctx')] # None THEN ctx' ELSE lastList
    /\ header' = HeaderCopy
    /\ modal' = Surviving(m)
    /\ picked' = Defaulted(p)
    /\ calls' = {Mounted(c) : c \in cs}

----------------------------------------------------------------------------
TypeOK ==
    /\ {chosen, backend, ctx} \subseteq Contexts /\ coming \in Seq(Contexts)
    /\ revs \in [Contexts -> [Releases -> 0 .. MaxRev]]
    /\ \A k \in Keys : \/ cache[k] = None
                       \/ cache[k] \in [from : Contexts, sure : BOOLEAN,
                                        revs : [Scope(k) -> 0 .. MaxRev]]
    /\ fetch \in [Keys -> SUBSET Contexts] /\ steady \subseteq Keys
    /\ lastList \in Contexts \cup {None}
    /\ sel \in Releases \cup {None}
    /\ header \in {None} \cup [rel : Releases, from : Contexts]
    /\ modal \in {None} \cup Modals
    /\ picked \in [Releases -> [rev : 0 .. MaxRev, from : Contexts \cup {None},
                            by : {"default", "click", "calm"}]]
    /\ tab \in {None} \cup [rel : Releases, from : Contexts, calm : BOOLEAN]
    /\ calls \subseteq [op : {"delete", "cleanup", "rollback", "upgrade", "deploy", "decode"},
                        rel : Releases,
                        place : {"row", "drawer", "tab"}, from : Contexts, rev : 0 .. MaxRev,
                        at : Contexts \cup {None}, calm : BOOLEAN, live : BOOLEAN,
                        id : Nat]
    /\ made \in 0 .. MaxCalls /\ turns \in 0 .. MaxTurns

\* The backend begins with the cluster it guessed, or could not leave, and
\* may be about to be told the host's.
Init ==
    /\ ctx = First /\ chosen = First
    /\ backend \in Contexts /\ coming \in {<<>>, <<First>>}
    /\ revs = Installed
    /\ cache = [k \in Keys |-> None]
    /\ fetch = [k \in Keys |-> IF k = ListKey(ctx) THEN {backend} ELSE {}]
    /\ steady = IF InStep THEN {ListKey(ctx)} ELSE {}
    /\ lastList = None
    /\ sel = None /\ header = None /\ modal = None /\ tab = None
    /\ picked = [r \in Releases |-> NoPick]
    /\ calls = {} /\ made = 0 /\ turns = 0

----------------------------------------------------------------------------
(* The host, the backend and the answers.                                  *)

Turn == turns < MaxTurns /\ turns' = turns + 1
Still == UNCHANGED <<host, revs, cache>>

\* the host chooses a cluster: from here on page and backend may disagree
HostChooses(c) ==
    /\ Turn /\ chosen' = c /\ coming' = Append(coming, c) /\ steady' = {}
    /\ modal' = IF modal = None THEN None ELSE [modal EXCEPT !.calm = FALSE]
    /\ tab' = IF tab = None THEN None ELSE [tab EXCEPT !.calm = FALSE]
    /\ calls' = {[x EXCEPT !.calm = FALSE] : x \in calls}
    /\ UNCHANGED <<backend, ctx, revs, cache, fetch, lastList, sel, header, picked, made>>

\* the backend applies the host's next choice; a cluster that does not load
\* leaves it with the client it has
Follow ==
    /\ coming # <<>> /\ coming' = Tail(coming)
    /\ backend' \in {backend, Head(coming)}
    /\ fetch' = [k \in Keys |-> IF Busy(k) THEN fetch[k] \cup {backend'} ELSE {}]
    /\ UNCHANGED <<chosen, ctx, revs, cache, steady, lastList, pages, calls, made, turns>>

\* the page gets the host's choice: its keys change
Switch ==
    /\ ctx # chosen /\ ctx' = chosen
    /\ UNCHANGED <<chosen, coming, backend, revs, cache, sel, tab, made, turns>>
    /\ Fetches(Watch(({ListKey(chosen)} \ {ListKey(ctx)})
                       \cup {DetailKey(chosen, r) : r \in {sel} \ {None}}))
    /\ Render(modal, picked, calls)

\* an answer, made by a cluster the backend was bound to meanwhile
Answer(k) == \E c \in fetch[k] :
    /\ k.kind # "list" => revs[c][k.rel] > 0
    /\ cache' = [cache EXCEPT ![k] = [from |-> c, sure |-> k \in steady,
                                      revs |-> [r \in Scope(k) |-> revs[c][r]]]]
    /\ fetch' = [fetch EXCEPT ![k] = {}] /\ steady' = steady \ {k}
    /\ UNCHANGED <<host, revs, sel, tab, made, turns>>
    /\ Render(modal, picked, calls)

\* a fetch fails: cached data stay, a table without data is empty
FetchFails(k) ==
    /\ Busy(k)
    /\ cache' = [cache EXCEPT ![k] = IF @ = None THEN None ELSE [@ EXCEPT !.sure = FALSE]]
    /\ fetch' = [fetch EXCEPT ![k] = {}] /\ steady' = steady \ {k}
    /\ UNCHANGED <<host, revs, sel, tab, made, turns>>
    /\ Render(modal, picked, calls)

OnScreen ==
    {ListKey(ctx)} \cup {DetailKey(ctx, r) : r \in {sel} \ {None}}
        \cup {HistoryKey(m.rel) :
                  m \in {x \in {modal} \ {None} : x.kind \in {"rollback", "confirm"}}}

\* invalidateQueries: the keys of ks on screen are fetched anew; if there are
\* data, a fetch under way is cancelled first
Invalidated(ks) == {k \in ks \cap OnScreen : cache[k] # None \/ ~Busy(k)}

\* The host invalidates the list once its namespaces are set; the network
\* comes back, or the window, for queries without DEFAULT_QUERY_OPTIONS.
Refetch ==
    /\ Turn /\ Still /\ UNCHANGED <<sel, tab, made>>
    /\ Fetches(Invalidated(ListKeys)) \/ Fetches(Watch(OnScreen))
    /\ Render(modal, picked, calls)

----------------------------------------------------------------------------
(* The user.  Drawer and modals cover what is under them.                  *)

\* isPending of the component: its own mutations of these kinds
Pending(place, r, ops) == \E c \in calls :
    c.live /\ c.place = place /\ c.rel = r /\ c.op \in ops

Deletions == {"delete", "cleanup"}

Clickable(r) == modal = None /\ sel = None /\ r \in Rows
RowButtons(r) == Clickable(r) /\ ~Pending("row", r, Deletions \cup {"decode"})
DrawerButtons == sel # None /\ header # None /\ modal = None
Opens == Turn /\ Still
Quiet == Still /\ UNCHANGED turns

Select(r) ==
    /\ Clickable(r)
    /\ sel' = r
    /\ UNCHANGED <<tab, made>> /\ Opens
    /\ Fetches(Watch({DetailKey(ctx, r)}))
    /\ Render(modal, picked, calls)

CloseDrawer ==
    /\ sel # None /\ modal = None
    /\ sel' = None
    /\ UNCHANGED <<fetch, steady, tab, made>> /\ Quiet
    /\ Render(modal, picked, calls)

\* Delete or Delete & Cleanup: a row's are never disabled, the icons of the
\* drawer's header each by its own mutation
OpenDelete(kind) ==
    /\ kind \in Deletions
    /\ \/ \E r \in Releases :
            /\ Clickable(r) /\ Opens
            /\ modal' = [kind |-> kind, rel |-> r, place |-> "row",
                         from |-> Table.from, calm |-> Calm(ListKey(ctx))]
       \/ /\ DrawerButtons /\ ~Pending("drawer", sel, {kind}) /\ Quiet
          /\ modal' = [kind |-> kind, rel |-> sel, place |-> "drawer",
                       from |-> header.from, calm |-> Calm(DetailKey(ctx, sel))]
    /\ UNCHANGED <<fetch, steady, lastList, sel, header, picked, tab, calls, made>>

OpenRollback(r) ==
    /\ RowButtons(r)
    /\ UNCHANGED <<sel, tab, made>> /\ Opens
    /\ Fetches(Watch({HistoryKey(r)}))
    /\ Render([kind |-> "rollback", rel |-> r, place |-> "row",
               from |-> Table.from, calm |-> Calm(ListKey(ctx))], picked, calls)

\* a revision of the history on screen is clicked
Pick(n) ==
    /\ modal # None /\ modal.kind = "rollback"
    /\ LET h == cache[HistoryKey(modal.rel)] IN
        /\ h # None /\ n \in 1 .. h.revs[modal.rel]
        /\ picked' = [picked EXCEPT ![modal.rel] =
                          [rev |-> n, from |-> h.from,
                           by |-> IF modal.calm /\ Calm(HistoryKey(modal.rel)) THEN "calm"
                                  ELSE "click"]]
    /\ UNCHANGED <<fetch, steady, lastList, sel, header, modal, tab, calls, made>> /\ Quiet

\* handleSubmit sets targetRevision, which opens the confirmation
SubmitRollback ==
    /\ modal # None /\ modal.kind = "rollback" /\ picked[modal.rel].rev # 0
    /\ modal' = [modal EXCEPT !.kind = "confirm"]
    /\ UNCHANGED <<fetch, steady, lastList, sel, header, picked, tab, calls, made>> /\ Quiet

\* Cancel; closing the rollback modal resets its selection
Cancel ==
    /\ modal # None
    /\ UNCHANGED <<fetch, steady, sel, tab, made>> /\ Quiet
    /\ Render(IF modal.kind = "confirm" THEN [modal EXCEPT !.kind = "rollback"] ELSE None,
              IF modal.kind = "rollback" THEN [picked EXCEPT ![modal.rel] = NoPick] ELSE picked,
              calls)

NewCall(op, place, r, n, from, calm, id) ==
    calls' = calls \cup {[id |-> id, op |-> op, place |-> place, rel |-> r, rev |-> n,
                          from |-> from, at |-> None, calm |-> calm, live |-> TRUE]}

Call(op, place, r, n, from, calm) ==
    /\ made < MaxCalls /\ made' = made + 1
    /\ NewCall(op, place, r, n, from, calm, made)
    /\ UNCHANGED <<fetch, steady, lastList, pages>> /\ Quiet

\* each confirmation is disabled by its own mutation only
ConfirmDelete ==
    /\ modal # None /\ modal.kind \in Deletions
    /\ ~Pending(modal.place, modal.rel, {modal.kind})
    /\ Call(modal.kind, modal.place, modal.rel, 0, modal.from, modal.calm)

ConfirmRollback ==
    /\ modal # None /\ modal.kind = "confirm" /\ ~Pending("row", modal.rel, {"rollback"})
    /\ LET p == picked[modal.rel] IN
        Call("rollback", "row", modal.rel, p.rev, p.from, modal.calm /\ p.by = "calm")

\* a row's Upgrade decodes the row's values first, then opens the tab
ClickUpgrade(r) ==
    /\ RowButtons(r)
    /\ NewCall("decode", "row", r, 0, Table.from, Calm(ListKey(ctx)), turns)
    /\ UNCHANGED <<fetch, steady, lastList, pages, made>> /\ Opens

\* openTab: a tab with the same dedupeKey (no context in it) is shown again
OpenTab(d) ==
    /\ tab # None => tab.rel = d.rel
    /\ tab' = IF tab # None THEN tab
              ELSE [rel |-> d.rel, from |-> d.from, calm |-> d.calm]
    /\ UNCHANGED <<fetch, steady, lastList, sel, header, modal, picked, made>>

\* the function goes on even if its row is gone
Decoded(c) ==
    /\ c.op = "decode" /\ calls' = calls \ {c}
    /\ OpenTab(c) /\ Quiet

DrawerUpgrade ==
    /\ DrawerButtons /\ ~Pending("drawer", sel, Deletions)
    /\ OpenTab([rel |-> sel, from |-> header.from, calm |-> Calm(DetailKey(ctx, sel))])
    /\ UNCHANGED calls /\ Opens

\* Cancel in the upgrade tab, which an upgrade being sent disables
CloseTab ==
    /\ tab # None /\ modal = None /\ ~Pending("tab", tab.rel, {"upgrade"})
    /\ tab' = None
    /\ UNCHANGED <<fetch, steady, sel, made>> /\ Quiet
    /\ Render(modal, picked, calls)

\* Upgrade does nothing when the tab names no repository
ClickTabUpgrade ==
    /\ tab # None /\ modal = None /\ tab.rel \in Resolved
    /\ ~Pending("tab", tab.rel, {"upgrade"})
    /\ Call("upgrade", "tab", tab.rel, 0, tab.from, tab.calm)

----------------------------------------------------------------------------
(* What comes back, from the cluster the backend is bound to by then.  A   *)
(* callback of a component that is gone is not called.                     *)

Back == UNCHANGED <<host, cache, made, turns>>

\* a deletion is done: the list is invalidated, the drawer or its row's modal closes
Deleted(c) ==
    /\ c.op \in Deletions /\ revs[backend][c.rel] > 0
    /\ revs' = [revs EXCEPT ![backend][c.rel] = 0]
    /\ sel' = IF c.live /\ c.place = "drawer" THEN None ELSE sel
    /\ UNCHANGED tab /\ Back
    /\ Fetches(Invalidated(ListKeys))
    /\ Render(IF c.live /\ modal # None /\ modal.kind = c.op /\ modal.place = "row"
                 /\ c.place = "row" /\ modal.rel = c.rel THEN None ELSE modal,
              picked, calls \ {c})

\* a rollback is done: a new revision, and both modals of the row close
RolledBack(c) ==
    /\ c.op = "rollback" /\ c.rev <= revs[backend][c.rel] /\ revs[backend][c.rel] < MaxRev
    /\ revs' = [revs EXCEPT ![backend][c.rel] = @ + 1]
    /\ UNCHANGED <<sel, tab>> /\ Back
    /\ Fetches(Invalidated(ListKeys))
    /\ LET closes == c.live /\ modal # None /\ modal.rel = c.rel
                     /\ modal.kind \in {"rollback", "confirm"} IN
       Render(IF closes THEN None ELSE modal,
              IF closes THEN [picked EXCEPT ![c.rel] = NoPick] ELSE picked, calls \ {c})

\* an upgrade was started: the tab closes, Helm works on the cluster it was started in
UpgradeStarted(c) ==
    /\ c.op = "upgrade" /\ revs[backend][c.rel] > 0
    /\ tab' = IF c.live THEN None ELSE tab
    /\ UNCHANGED <<revs, fetch, steady, sel>> /\ Back
    /\ Render(modal, picked, (calls \ {c}) \cup
                 {[c EXCEPT !.op = "deploy", !.at = backend, !.live = FALSE]})

\* helm:upgrade:complete refetches what is on screen, helm:upgrade:error nothing
UpgradeEnds(c) ==
    /\ c.op = "deploy" /\ UNCHANGED <<sel, tab>> /\ Back
    /\ \/ /\ revs[c.at][c.rel] \in 1 .. MaxRev - 1
          /\ revs' = [revs EXCEPT ![c.at][c.rel] = @ + 1]
          /\ Fetches(Invalidated(ListKeys \cup DetailKeys))
       \/ UNCHANGED <<revs, fetch, steady>>
    /\ Render(modal, picked, calls \ {c})

\* a call is refused or the decoding throws: everything else stays as it is
CallFails(c) ==
    /\ c.op # "deploy" /\ calls' = calls \ {c}
    /\ UNCHANGED <<revs, fetch, steady, lastList, pages>> /\ Back

Next ==
    \/ \E c \in Contexts : HostChooses(c)
    \/ Follow \/ Switch \/ Refetch
    \/ \E k \in Keys : Answer(k) \/ FetchFails(k)
    \/ \E r \in Releases : Select(r) \/ OpenRollback(r) \/ ClickUpgrade(r)
    \/ \E n \in 1 .. MaxRev : Pick(n)
    \/ \E kind \in Deletions : OpenDelete(kind)
    \/ CloseDrawer \/ SubmitRollback \/ Cancel
    \/ ConfirmDelete \/ ConfirmRollback
    \/ DrawerUpgrade \/ CloseTab \/ ClickTabUpgrade
    \/ \E c \in calls : Decoded(c) \/ Deleted(c) \/ RolledBack(c) \/ UpgradeStarted(c)
                         \/ UpgradeEnds(c) \/ CallFails(c)

Spec == Init /\ [][Next]_vars

----------------------------------------------------------------------------
(* Properties.                                                             *)

\* The buttons in the drawer's header act on a copy of the detail data that
\* an effect of another component maintains: whenever they are there they
\* carry the data the body shows for the open release under this context.
HeaderAgrees ==
    (sel # None /\ header # None) =>
        /\ header.rel = sel
        /\ cache[DetailKey(ctx, sel)] # None
        /\ header.from = cache[DetailKey(ctx, sel)].from

\* A click reaches the cluster the user looked at, if what was on screen was
\* fetched while page and backend were in step, no choice of the host and no
\* failure has come since, and a rollback's revision was chosen by hand.  The
\* first rows after a switch may lack that: the old cluster may have sent them.
AimedWell == \A c \in calls : (c.calm /\ c.at = None) => c.from = backend

\* A deletion that ends late closes the drawer it was confirmed in, never
\* one opened since for another release.
NoForeignClose ==
    [][(sel # None /\ sel' = None) =>
        \/ CloseDrawer
        \/ \E c \in calls \ calls' : c.place = "drawer" /\ c.rel = sel]_vars

=============================================================================
