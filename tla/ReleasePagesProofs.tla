-------------------------- MODULE ReleasePagesProofs --------------------------
(***************************************************************************)
(* The types of the Releases page and its safety, for any clusters,        *)
(* releases and bounds: the header's copy, the drawer's callbacks, and     *)
(* where a click goes.                                                     *)
(***************************************************************************)
EXTENDS ReleasePages, TLAPS

ModalSet == {m \in Modals : m.kind \notin Deletions => m.place = "row"}
PickSet == {p \in [rev : 0 .. MaxRev, from : Contexts \cup {None}, by : {"default", "click", "calm"}] :
                p.rev # 0 => p.from \in Contexts}
HeaderSet == [rel : Releases, from : Contexts]
Ops == {"delete", "cleanup", "rollback", "upgrade", "deploy", "decode"}
CallSet == [op : Ops, rel : Releases,
            place : {"row", "drawer", "tab"}, from : Contexts, rev : 0 .. MaxRev,
            at : Contexts \cup {None}, calm : BOOLEAN, live : BOOLEAN, id : Nat]
TabSet == [rel : Releases, from : Contexts, calm : BOOLEAN]
DataSet(k) == [from : Contexts, sure : BOOLEAN, revs : [Scope(k) -> 0 .. MaxRev]]

\* a confirmation is open only for a revision that was chosen
Chosen(m, p) == (m # None /\ m.kind = "confirm") => p[m.rel].rev # 0

\* what the steps set themselves, and what the render at their end sets
BaseOK ==
    /\ chosen \in Contexts /\ backend \in Contexts /\ ctx \in Contexts
    /\ coming \in Seq(Contexts)
    /\ revs \in [Contexts -> [Releases -> 0 .. MaxRev]]
    /\ DOMAIN cache = Keys
    /\ \A k \in Keys : cache[k] = None \/ cache[k] \in DataSet(k)
    /\ fetch \in [Keys -> SUBSET Contexts] /\ steady \subseteq Keys
    /\ sel \in Releases \cup {None}
    /\ tab \in {None} \cup TabSet
    /\ made \in 0 .. MaxCalls /\ turns \in 0 .. MaxTurns

RenderedOK ==
    /\ lastList \in Contexts \cup {None}
    /\ header \in {None} \cup HeaderSet
    /\ modal \in {None} \cup ModalSet
    /\ picked \in [Releases -> PickSet]
    /\ calls \subseteq CallSet
    /\ Chosen(modal, picked)

Typed == BaseOK /\ RenderedOK

\* The two parts together are the type invariant.
LEMMA TypeParts == (BaseOK /\ RenderedOK) => TypeOK
BY DEF BaseOK, RenderedOK, TypeOK, ModalSet, Modals, Deletions, PickSet, HeaderSet, CallSet, Ops, TabSet, DataSet

\* The keys of the query cache and what an answer to each carries.
LEMMA KeyFacts ==
    /\ \A c \in Contexts : ListKey(c) \in Keys /\ Scope(ListKey(c)) = Releases
    /\ \A c \in Contexts, r \in Releases : DetailKey(c, r) \in Keys
    /\ \A r \in Releases : HistoryKey(r) \in Keys /\ Scope(HistoryKey(r)) = {r}
<1>1. \A c \in Contexts : ListKey(c) \in Keys
  BY DEF Keys, ListKeys
<1>2. \A c \in Contexts : Scope(ListKey(c)) = Releases
  BY DEF ListKey, Scope
<1>3. \A c \in Contexts, r \in Releases : DetailKey(c, r) \in Keys
  BY DEF Keys, DetailKeys
<1>4. \A r \in Releases : HistoryKey(r) \in Keys
  BY DEF Keys
<1>5. \A r \in Releases : Scope(HistoryKey(r)) = {r}
  BY DEF HistoryKey, Scope
<1> QED
  BY <1>1, <1>2, <1>3, <1>4, <1>5

\* The table is typed although it may be the placeholder of another context.
LEMMA TableType ==
    ASSUME BaseOK, lastList \in Contexts \cup {None}
    PROVE  Table = None \/ Table \in [from : Contexts, sure : BOOLEAN, revs : [Releases -> 0 .. MaxRev]]
BY KeyFacts DEF Table, BaseOK, DataSet

\* A render keeps the types whatever it is given, as long as that is typed.
LEMMA RenderTypes ==
    ASSUME BaseOK, RenderedOK, BaseOK',
           NEW m \in {None} \cup ModalSet, NEW p \in [Releases -> PickSet],
           NEW cs \in SUBSET CallSet, Chosen(m, p), Render(m, p, cs)
    PROVE  RenderedOK'
<1>1. lastList' \in Contexts \cup {None}
  BY DEF Render, BaseOK, RenderedOK
<1>2. header' \in {None} \cup HeaderSet
  <2>1. sel' # None => Detail' = None \/ Detail' \in [from : Contexts, sure : BOOLEAN,
                           revs : [Scope(DetailKey(ctx', sel')) -> 0 .. MaxRev]]
    BY KeyFacts DEF Detail, BaseOK, DataSet, DetailKey
  <2>2. header' = HeaderCopy
    BY DEF Render
  <2>3. CASE HeaderCopy = header \/ HeaderCopy = None
    BY <2>2, <2>3 DEF RenderedOK
  <2>4. CASE HeaderCopy # header /\ HeaderCopy # None
    <3>1. sel' # None /\ Detail' # None /\ header' = [rel |-> sel', from |-> Detail'.from]
      BY <2>2, <2>4 DEF HeaderCopy
    <3>2. sel' \in Releases
      BY <3>1 DEF BaseOK
    <3> QED
      BY <2>1, <3>1, <3>2 DEF HeaderSet
  <2> QED
    BY <2>3, <2>4
<1>3. modal' \in {None} \cup ModalSet
  BY DEF Render, Surviving
<1>4. picked' \in [Releases -> PickSet]
  <2>1. Table' = None \/ Table' \in [from : Contexts, sure : BOOLEAN, revs : [Releases -> 0 .. MaxRev]]
    <3>1. BaseOK' /\ (lastList \in Contexts \cup {None})'
      BY <1>1
    <3> QED
      BY <3>1, KeyFacts DEF Table, BaseOK, DataSet, ListKey
  <2>2. ASSUME NEW r \in Releases
        PROVE  (IF r \notin RowsOf(Table') THEN NoPick
                ELSE IF p[r].rev = 0 /\ cache'[HistoryKey(r)] # None
                          /\ Table'.revs[r] <= cache'[HistoryKey(r)].revs[r]
                     THEN [rev |-> Table'.revs[r], from |-> cache'[HistoryKey(r)].from, by |-> "default"]
                     ELSE p[r]) \in PickSet
    <3>0. MaxRev \in Nat
      BY PagesAssumption
    <3>1. NoPick \in PickSet
      BY <3>0 DEF NoPick, PickSet
    <3>2. CASE r \in RowsOf(Table') /\ cache'[HistoryKey(r)] # None
      <4>1. Table'.revs[r] \in 0 .. MaxRev
        BY <2>1, <3>2 DEF RowsOf
      <4>2. cache'[HistoryKey(r)].from \in Contexts
        BY <3>2, KeyFacts DEF BaseOK, DataSet
      <4> QED
        BY <3>1, <4>1, <4>2 DEF PickSet
    <3> QED
      BY <3>1, <3>2
  <2> QED
    BY <2>2 DEF Render, Defaulted
<1>5. calls' \subseteq CallSet
  <2>1. ASSUME NEW c \in CallSet PROVE Mounted(c) \in CallSet
    BY DEF Mounted, CallSet, Ops
  <2> QED
    BY <2>1 DEF Render
<1>6. Chosen(modal', picked')
  <2>1. SUFFICES ASSUME modal' # None, modal'.kind = "confirm" PROVE picked'[modal'.rel].rev # 0
    BY DEF Chosen
  <2>2. modal' = m /\ m # None /\ m \in ModalSet
    BY <2>1 DEF Render, Surviving
  <2>3. m.rel \in RowsOf(Table') /\ m.rel \in Releases
    BY <2>1, <2>2 DEF Render, Surviving, ModalSet, Modals, Deletions
  <2>4. p[m.rel].rev # 0
    BY <2>1, <2>2 DEF Chosen
  <2>5. picked'[m.rel] = p[m.rel]
    BY <2>3, <2>4 DEF Render, Defaulted
  <2> QED
    BY <2>2, <2>4, <2>5
<1> QED
  BY <1>1, <1>2, <1>3, <1>4, <1>5, <1>6 DEF RenderedOK

\* Fetches that begin ask the backend.
LEMMA FetchesType ==
    ASSUME BaseOK, NEW ks \in SUBSET Keys, Fetches(ks)
    PROVE  (fetch \in [Keys -> SUBSET Contexts] /\ steady \subseteq Keys)'
BY DEF BaseOK, Fetches

\* What is fetched is named by a key.
LEMMA FetchedKeys ==
    ASSUME BaseOK
    PROVE  /\ \A ks \in SUBSET Keys : Watch(ks) \in SUBSET Keys
           /\ Invalidated(ListKeys) \in SUBSET Keys /\ Invalidated(ListKeys \cup DetailKeys) \in SUBSET Keys
           /\ ctx \in Contexts /\ (sel # None => sel \in Releases)
<1>1. ListKeys \subseteq Keys /\ DetailKeys \subseteq Keys
  BY DEF Keys
<1> QED
  BY <1>1 DEF BaseOK, Watch, Invalidated

\* What is on screen has a key.
LEMMA OnScreenKeys ==
    ASSUME Typed
    PROVE  OnScreen \in SUBSET Keys
<1>1. \A m \in {x \in {modal} \ {None} : x.kind \in {"rollback", "confirm"}} : m.rel \in Releases
  BY DEF Typed, RenderedOK, ModalSet, Modals, Deletions
<1>2. \A r \in {sel} \ {None} : r \in Releases
  BY DEF Typed, BaseOK
<1>3. ctx \in Contexts
  BY DEF Typed, BaseOK
<1> QED
  BY <1>1, <1>2, <1>3, KeyFacts DEF OnScreen

\* The host, the backend that follows it, and the page.
LEMMA TypesHost ==
    ASSUME Typed
    PROVE  /\ \A c \in Contexts : HostChooses(c) => Typed'
           /\ (Follow \/ Switch \/ Refetch) => Typed'
<1>0. turns < MaxTurns => turns + 1 \in 0 .. MaxTurns
  BY PagesAssumption DEF Typed, BaseOK
<1>1. ASSUME NEW c \in Contexts, HostChooses(c) PROVE Typed'
  <2>0. (coming \in Seq(Contexts))'
    BY <1>1 DEF HostChooses, Typed, BaseOK
  <2>1. (tab \in {None} \cup TabSet)' /\ (coming \in Seq(Contexts))'
    BY <1>1, <2>0 DEF HostChooses, Typed, BaseOK, TabSet
  <2>2. BaseOK'
    BY <1>0, <1>1, <2>1 DEF HostChooses, Turn, Typed, BaseOK, DataSet, Scope
  <2>3. (modal \in {None} \cup ModalSet)' /\ Chosen(modal', picked')
    BY <1>1 DEF HostChooses, Typed, RenderedOK, ModalSet, Modals, Deletions, Chosen
  <2>4. calls' \subseteq CallSet
    BY <1>1 DEF HostChooses, Typed, RenderedOK, CallSet, Ops
  <2> QED
    BY <1>1, <2>2, <2>3, <2>4 DEF HostChooses, Typed, RenderedOK
<1>2. CASE Follow
  <2>1. Head(coming) \in Contexts /\ Tail(coming) \in Seq(Contexts)
    BY <1>2 DEF Follow, Typed, BaseOK
  <2>2. backend' \in Contexts /\ coming' \in Seq(Contexts)
    BY <1>2, <2>1 DEF Follow, Typed, BaseOK
  <2>3. fetch' \in [Keys -> SUBSET Contexts]
    BY <1>2, <2>2 DEF Follow, Typed, BaseOK
  <2>4. BaseOK'
    BY <1>2, <2>2, <2>3 DEF Follow, pages, Typed, BaseOK, DataSet, Scope
  <2> QED
    BY <1>2, <2>4 DEF Follow, pages, Typed, RenderedOK
<1>3. CASE Switch
  <2> DEFINE ks == ({ListKey(chosen)} \ {ListKey(ctx)}) \cup {DetailKey(chosen, r) : r \in {sel} \ {None}}
  <2>1. ks \in SUBSET Keys
    BY KeyFacts DEF Typed, BaseOK
  <2>2. Fetches(Watch(ks)) /\ Render(modal, picked, calls)
    BY <1>3 DEF Switch
  <2> HIDE DEF ks
  <2>3. (fetch \in [Keys -> SUBSET Contexts] /\ steady \subseteq Keys)'
    BY <2>1, <2>2, FetchedKeys, FetchesType DEF Typed
  <2>4. BaseOK'
    BY <1>3, <2>3 DEF Switch, Typed, BaseOK, DataSet, Scope
  <2> QED
    BY <2>2, <2>4, RenderTypes DEF Typed, RenderedOK
<1>4. CASE Refetch
  <2>1. Fetches(Invalidated(ListKeys)) \/ Fetches(Watch(OnScreen))
    BY <1>4 DEF Refetch
  <2>2. (fetch \in [Keys -> SUBSET Contexts] /\ steady \subseteq Keys)'
    BY <2>1, FetchedKeys, OnScreenKeys, FetchesType DEF Typed
  <2>3. BaseOK'
    BY <1>0, <1>4, <2>2 DEF Refetch, Turn, Still, host, Typed, BaseOK, DataSet, Scope
  <2> QED
    BY <1>4, <2>3, RenderTypes DEF Refetch, Typed, RenderedOK
<1> QED
  BY <1>1, <1>2, <1>3, <1>4

\* Answers of the backend.
LEMMA TypesAnswer ==
    ASSUME Typed, NEW k \in Keys, Answer(k) \/ FetchFails(k)
    PROVE  Typed'
<1>1. CASE Answer(k)
  <2>1. PICK c \in fetch[k] :
          /\ cache' = [cache EXCEPT ![k] = [from |-> c, sure |-> k \in steady,
                                       revs |-> [r \in Scope(k) |-> revs[c][r]]]]
          /\ fetch' = [fetch EXCEPT ![k] = {}] /\ steady' = steady \ {k}
          /\ UNCHANGED <<host, revs, sel, tab, made, turns>>
          /\ Render(modal, picked, calls)
    BY <1>1 DEF Answer
  <2>2. c \in Contexts
    BY <2>1 DEF Typed, BaseOK
  <2>3. Scope(k) \subseteq Releases
    BY DEF Keys, ListKeys, DetailKeys, ListKey, DetailKey, HistoryKey, Scope
  <2>4. [r \in Scope(k) |-> revs[c][r]] \in [Scope(k) -> 0 .. MaxRev]
    BY <2>2, <2>3 DEF Typed, BaseOK
  <2>5. [from |-> c, sure |-> k \in steady, revs |-> [r \in Scope(k) |-> revs[c][r]]] \in DataSet(k)
    BY <2>2, <2>4 DEF DataSet
  <2>6. DOMAIN cache' = Keys /\ \A j \in Keys : cache'[j] = None \/ cache'[j] \in DataSet(j)
    BY <2>1, <2>5 DEF Typed, BaseOK
  <2>7. fetch' \in [Keys -> SUBSET Contexts] /\ steady' \subseteq Keys
    BY <2>1 DEF Typed, BaseOK
  <2>8. BaseOK'
    BY <2>1, <2>6, <2>7 DEF host, Typed, BaseOK, DataSet, Scope
  <2> QED
    BY <2>1, <2>8, RenderTypes DEF Typed, RenderedOK
<1>2. CASE FetchFails(k)
  <2>1. DOMAIN cache' = Keys /\ \A j \in Keys : cache'[j] = None \/ cache'[j] \in DataSet(j)
    BY <1>2 DEF Typed, BaseOK, FetchFails, DataSet
  <2>2. fetch' \in [Keys -> SUBSET Contexts] /\ steady' \subseteq Keys
    BY <1>2 DEF Typed, BaseOK, FetchFails
  <2>3. BaseOK'
    BY <1>2, <2>1, <2>2 DEF FetchFails, host, Typed, BaseOK, DataSet, Scope
  <2> QED
    BY <1>2, <2>3, RenderTypes DEF Typed, RenderedOK, FetchFails
<1> QED
  BY <1>1, <1>2

\* Clicks that open, close and choose.
LEMMA TypesClicks ==
    ASSUME Typed
    PROVE  /\ \A r \in Releases : (Select(r) \/ OpenRollback(r)) => Typed'
           /\ (CloseDrawer \/ CloseTab \/ Cancel \/ SubmitRollback) => Typed'
           /\ \A kind \in Deletions : OpenDelete(kind) => Typed'
           /\ \A n \in 1 .. MaxRev : Pick(n) => Typed'
<1>0. turns < MaxTurns => turns + 1 \in 0 .. MaxTurns
  BY PagesAssumption DEF Typed, BaseOK
<1>1. ASSUME NEW r \in Releases, Select(r) \/ OpenRollback(r) PROVE Typed'
  <2>1. (fetch \in [Keys -> SUBSET Contexts] /\ steady \subseteq Keys)'
    <3>1. {DetailKey(ctx, r)} \in SUBSET Keys /\ {HistoryKey(r)} \in SUBSET Keys
      BY KeyFacts DEF Typed, BaseOK
    <3>2. Fetches(Watch({DetailKey(ctx, r)})) \/ Fetches(Watch({HistoryKey(r)}))
      BY <1>1 DEF Select, OpenRollback
    <3> QED
      BY <3>1, <3>2, FetchedKeys, FetchesType DEF Typed
  <2>2. BaseOK'
    BY <1>0, <1>1, <2>1 DEF Select, OpenRollback, Opens, Turn, Still, host, Typed, BaseOK, DataSet, Scope
  <2>3. CASE Select(r)
    BY <2>2, <2>3, RenderTypes DEF Typed, RenderedOK, Select
  <2>4. CASE OpenRollback(r)
    <3>1. Table # None
      BY <2>4 DEF OpenRollback, RowButtons, Clickable, Rows, RowsOf
    <3>2. Table.from \in Contexts /\ Calm(ListKey(ctx)) \in BOOLEAN
      BY <3>1, TableType, KeyFacts DEF Typed, RenderedOK, BaseOK, Calm, Sure, DataSet
    <3>3. [kind |-> "rollback", rel |-> r, place |-> "row",
           from |-> Table.from, calm |-> Calm(ListKey(ctx))] \in ModalSet
      BY <3>2 DEF ModalSet, Modals, Deletions
    <3> QED
      BY <2>2, <2>4, <3>3, RenderTypes DEF Typed, RenderedOK, Chosen, OpenRollback
  <2> QED
    BY <1>1, <2>3, <2>4
<1>2. ASSUME CloseDrawer \/ CloseTab \/ Cancel PROVE Typed'
  <2>1. BaseOK'
    BY <1>2 DEF CloseDrawer, CloseTab, Cancel, Quiet, Still, host, Typed, BaseOK, DataSet, Scope
  <2>2. CASE CloseDrawer \/ CloseTab
    BY <2>1, <2>2, RenderTypes DEF Typed, RenderedOK, CloseDrawer, CloseTab
  <2>3. CASE Cancel
    <3>1. (IF modal.kind = "confirm" THEN [modal EXCEPT !.kind = "rollback"] ELSE None) \in {None} \cup ModalSet
      BY <2>3 DEF Cancel, Typed, RenderedOK, ModalSet, Modals, Deletions
    <3>2. NoPick \in PickSet
      BY PagesAssumption DEF NoPick, PickSet
    <3>3. (IF modal.kind = "rollback" THEN [picked EXCEPT ![modal.rel] = NoPick] ELSE picked)
             \in [Releases -> PickSet]
      BY <3>2 DEF Typed, RenderedOK
    <3>4. Chosen(IF modal.kind = "confirm" THEN [modal EXCEPT !.kind = "rollback"] ELSE None,
                 IF modal.kind = "rollback" THEN [picked EXCEPT ![modal.rel] = NoPick] ELSE picked)
      BY <2>3 DEF Cancel, Chosen, Typed, RenderedOK, ModalSet, Modals, Deletions
    <3> QED
      BY <2>1, <2>3, <3>1, <3>3, <3>4, RenderTypes DEF Typed, RenderedOK, Cancel
  <2> QED
    BY <1>2, <2>2, <2>3
<1>3. ASSUME NEW kind \in Deletions, OpenDelete(kind) PROVE Typed'
  <2>1. BaseOK'
    BY <1>0, <1>3 DEF OpenDelete, Opens, Turn, Quiet, Still, host, Typed, BaseOK, DataSet, Scope
  <2>2. modal' \in ModalSet
    <3>1. ASSUME NEW r \in Releases, Clickable(r),
                 modal' = [kind |-> kind, rel |-> r, place |-> "row",
                           from |-> Table.from, calm |-> Calm(ListKey(ctx))]
          PROVE  modal' \in ModalSet
      <4>1. Table # None
        BY <3>1 DEF Clickable, Rows, RowsOf
      <4>2. Table.from \in Contexts /\ Calm(ListKey(ctx)) \in BOOLEAN
        BY <4>1, TableType, KeyFacts DEF Typed, RenderedOK, BaseOK, Calm, Sure, DataSet
      <4> QED
        BY <1>3, <3>1, <4>2 DEF ModalSet, Modals, Deletions
    <3>2. ASSUME sel # None, header # None,
                 modal' = [kind |-> kind, rel |-> sel, place |-> "drawer",
                           from |-> header.from, calm |-> Calm(DetailKey(ctx, sel))]
          PROVE  modal' \in ModalSet
      <4>1. sel \in Releases /\ header.from \in Contexts
        BY <3>2 DEF Typed, BaseOK, RenderedOK, HeaderSet
      <4>2. Calm(DetailKey(ctx, sel)) \in BOOLEAN
        BY <4>1, KeyFacts DEF Typed, BaseOK, Calm, Sure, DataSet
      <4> QED
        BY <1>3, <3>2, <4>1, <4>2 DEF ModalSet, Modals, Deletions
    <3> QED
      BY <1>3, <3>1, <3>2 DEF OpenDelete, DrawerButtons
  <2> QED
    BY <1>3, <2>1, <2>2 DEF OpenDelete, Deletions, Typed, RenderedOK, Chosen
<1>4. ASSUME NEW n \in 1 .. MaxRev, Pick(n) PROVE Typed'
  <2>1. BaseOK'
    BY <1>4 DEF Pick, Quiet, Still, host, Typed, BaseOK, DataSet, Scope
  <2>2. modal.rel \in Releases
    BY <1>4 DEF Pick, Typed, RenderedOK, ModalSet, Modals, Deletions
  <2>3. cache[HistoryKey(modal.rel)].from \in Contexts
    BY <1>4, <2>2, KeyFacts DEF Pick, Typed, BaseOK, DataSet
  <2>4. picked' \in [Releases -> PickSet]
    BY <1>4, <2>2, <2>3, PagesAssumption DEF Pick, PickSet, Typed, RenderedOK
  <2>5. modal' = modal /\ modal.kind = "rollback"
    BY <1>4 DEF Pick
  <2> QED
    BY <1>4, <2>1, <2>4, <2>5 DEF Pick, Typed, RenderedOK, Chosen
<1>5. ASSUME SubmitRollback PROVE Typed'
  <2>1. BaseOK'
    BY <1>5 DEF SubmitRollback, Quiet, Still, host, Typed, BaseOK, DataSet, Scope
  <2>2. modal' \in ModalSet
    BY <1>5 DEF SubmitRollback, Typed, RenderedOK, ModalSet, Modals, Deletions
  <2>3. modal'.rel = modal.rel /\ picked' = picked /\ picked[modal.rel].rev # 0
    BY <1>5 DEF SubmitRollback, Typed, RenderedOK, ModalSet, Modals, Deletions
  <2> QED
    BY <1>5, <2>1, <2>2, <2>3 DEF SubmitRollback, Typed, RenderedOK, Chosen
<1> QED
  BY <1>1, <1>2, <1>3, <1>4, <1>5

\* A call that is made.
LEMMA CallType ==
    ASSUME Typed, NEW op \in Ops, NEW place \in {"row", "drawer", "tab"},
           NEW r \in Releases, NEW n \in 0 .. MaxRev, NEW from \in Contexts, NEW calm \in BOOLEAN,
           Call(op, place, r, n, from, calm)
    PROVE  Typed'
<1>1. made \in 0 .. MaxCalls /\ made + 1 \in 0 .. MaxCalls
  BY PagesAssumption DEF Call, Typed, BaseOK
<1>2. [id |-> made, op |-> op, place |-> place, rel |-> r, rev |-> n,
       from |-> from, at |-> None, calm |-> calm, live |-> TRUE] \in CallSet
  BY <1>1 DEF CallSet, Ops
<1>3. BaseOK'
  BY <1>1 DEF Call, Quiet, Still, host, pages, Typed, BaseOK, DataSet, Scope
<1> QED
  BY <1>2, <1>3 DEF Call, NewCall, pages, Typed, RenderedOK

\* The clicks that make calls.
LEMMA TypesCalls ==
    ASSUME Typed
    PROVE  (ConfirmDelete \/ ConfirmRollback \/ ClickTabUpgrade) => Typed'
<1>1. CASE ConfirmDelete
  <2>1. modal \in ModalSet
    BY <1>1 DEF ConfirmDelete, Typed, RenderedOK
  <2>2. 0 \in 0 .. MaxRev
    BY PagesAssumption
  <2> QED
    BY <1>1, <2>1, <2>2, CallType DEF ConfirmDelete, ModalSet, Modals, Deletions, Ops
<1>2. CASE ConfirmRollback
  <2>1. modal \in ModalSet /\ picked[modal.rel] \in PickSet
    BY <1>2 DEF ConfirmRollback, Typed, RenderedOK, ModalSet, Modals, Deletions
  <2>2. picked[modal.rel].rev # 0
    BY <1>2 DEF ConfirmRollback, Typed, RenderedOK, Chosen
  <2>3. /\ modal.rel \in Releases /\ picked[modal.rel].rev \in 0 .. MaxRev
        /\ picked[modal.rel].from \in Contexts
        /\ (modal.calm /\ picked[modal.rel].by = "calm") \in BOOLEAN
    BY <2>1, <2>2 DEF ModalSet, Modals, Deletions, PickSet
  <2> QED
    BY <1>2, <2>3, CallType DEF ConfirmRollback, Ops
<1>3. CASE ClickTabUpgrade
  <2>1. tab \in TabSet
    BY <1>3 DEF ClickTabUpgrade, Typed, BaseOK
  <2>2. 0 \in 0 .. MaxRev
    BY PagesAssumption
  <2> QED
    BY <1>3, <2>1, <2>2, CallType DEF ClickTabUpgrade, TabSet, Ops
<1> QED
  BY <1>1, <1>2, <1>3

\* The upgrade tab.
LEMMA TypesTab ==
    ASSUME Typed
    PROVE  /\ \A r \in Releases : ClickUpgrade(r) => Typed'
           /\ DrawerUpgrade => Typed'
           /\ \A c \in calls : Decoded(c) => Typed'
<1>0. turns < MaxTurns => turns + 1 \in 0 .. MaxTurns
  BY PagesAssumption DEF Typed, BaseOK
<1>1. ASSUME NEW r \in Releases, ClickUpgrade(r) PROVE Typed'
  <2>1. Table # None
    BY <1>1 DEF ClickUpgrade, RowButtons, Clickable, Rows, RowsOf
  <2>2. Table.from \in Contexts /\ Calm(ListKey(ctx)) \in BOOLEAN
    BY <2>1, TableType, KeyFacts DEF Typed, RenderedOK, BaseOK, Calm, Sure, DataSet
  <2>3. turns \in Nat /\ 0 \in 0 .. MaxRev
    BY PagesAssumption DEF Typed, BaseOK
  <2>4. [id |-> turns, op |-> "decode", place |-> "row", rel |-> r, rev |-> 0, from |-> Table.from,
         at |-> None, calm |-> Calm(ListKey(ctx)), live |-> TRUE] \in CallSet
    BY <2>2, <2>3 DEF CallSet, Ops
  <2>5. calls' \subseteq CallSet
    BY <1>1, <2>4 DEF ClickUpgrade, NewCall, Typed, RenderedOK
  <2>6. BaseOK'
    BY <1>0, <1>1 DEF ClickUpgrade, Opens, Turn, Still, host, pages, Typed, BaseOK, DataSet, Scope
  <2> QED
    BY <1>1, <2>5, <2>6 DEF ClickUpgrade, pages, Typed, RenderedOK
<1>2. ASSUME NEW d, d.rel \in Releases, d.from \in Contexts, d.calm \in BOOLEAN, OpenTab(d),
             calls' \subseteq calls, Quiet \/ Opens
      PROVE  Typed'
  <2>1. tab' \in {None} \cup TabSet
    BY <1>2 DEF OpenTab, Typed, BaseOK, TabSet
  <2>2. BaseOK'
    BY <1>0, <1>2, <2>1 DEF OpenTab, Opens, Turn, Quiet, Still, host, Typed, BaseOK, DataSet, Scope
  <2> QED
    BY <1>2, <2>2 DEF OpenTab, Typed, RenderedOK
<1>3. ASSUME NEW c \in calls, Decoded(c) PROVE Typed'
  <2>1. c.rel \in Releases /\ c.from \in Contexts /\ c.calm \in BOOLEAN
    BY DEF Typed, RenderedOK, CallSet, Ops
  <2> QED
    BY <1>2, <1>3, <2>1 DEF Decoded
<1>4. CASE DrawerUpgrade
  <2>1. sel \in Releases /\ header.from \in Contexts
    BY <1>4 DEF DrawerUpgrade, DrawerButtons, Typed, BaseOK, RenderedOK, HeaderSet
  <2>2. Calm(DetailKey(ctx, sel)) \in BOOLEAN
    BY <2>1, KeyFacts DEF Typed, BaseOK, Calm, Sure, DataSet
  <2> DEFINE d == [rel |-> sel, from |-> header.from, calm |-> Calm(DetailKey(ctx, sel))]
  <2>3. d.rel \in Releases /\ d.from \in Contexts /\ d.calm \in BOOLEAN
    BY <2>1, <2>2
  <2>4. OpenTab(d) /\ UNCHANGED calls /\ Opens
    BY <1>4 DEF DrawerUpgrade
  <2> HIDE DEF d
  <2> QED
    BY <1>2, <2>3, <2>4
<1> QED
  BY <1>1, <1>3, <1>4

\* Results of calls.
LEMMA TypesBack ==
    ASSUME Typed, NEW c \in calls
    PROVE  (Deleted(c) \/ RolledBack(c) \/ UpgradeStarted(c) \/ UpgradeEnds(c) \/ CallFails(c)) => Typed'
<1>0. c \in CallSet /\ calls \ {c} \in SUBSET CallSet /\ backend \in Contexts
  BY DEF Typed, BaseOK, RenderedOK
<1>1. CASE Deleted(c)
  <2>1. revs' \in [Contexts -> [Releases -> 0 .. MaxRev]]
    <3>1. revs' = [revs EXCEPT ![backend][c.rel] = 0] /\ c.rel \in Releases /\ 0 \in 0 .. MaxRev
      BY <1>0, <1>1, PagesAssumption DEF Deleted, CallSet
    <3> QED
      BY <1>0, <3>1 DEF Typed, BaseOK
  <2>2. (fetch \in [Keys -> SUBSET Contexts] /\ steady \subseteq Keys)'
    BY <1>1, FetchedKeys, FetchesType DEF Deleted, Typed
  <2>3. BaseOK'
    BY <1>1, <2>1, <2>2 DEF Deleted, Back, host, Typed, BaseOK, DataSet, Scope
  <2> QED
    BY <1>0, <1>1, <2>3, RenderTypes DEF Deleted, Typed, RenderedOK, Chosen
<1>2. CASE RolledBack(c)
  <2>1. revs' \in [Contexts -> [Releases -> 0 .. MaxRev]]
    <3>1. /\ revs' = [revs EXCEPT ![backend][c.rel] = @ + 1] /\ c.rel \in Releases
          /\ revs[backend][c.rel] < MaxRev
      BY <1>0, <1>2 DEF RolledBack, CallSet
    <3>2. revs \in [Contexts -> [Releases -> 0 .. MaxRev]] /\ MaxRev \in Nat
      BY PagesAssumption DEF Typed, BaseOK
    <3>3. revs[backend][c.rel] + 1 \in 0 .. MaxRev
      BY <1>0, <3>1, <3>2
    <3> QED
      BY <1>0, <3>1, <3>2, <3>3
  <2>2. (fetch \in [Keys -> SUBSET Contexts] /\ steady \subseteq Keys)'
    BY <1>2, FetchedKeys, FetchesType DEF RolledBack, Typed
  <2>3. BaseOK'
    BY <1>2, <2>1, <2>2 DEF RolledBack, Back, host, Typed, BaseOK, DataSet, Scope
  <2>4. NoPick \in PickSet
    BY PagesAssumption DEF NoPick, PickSet
  <2>5. [picked EXCEPT ![c.rel] = NoPick] \in [Releases -> PickSet]
    BY <2>4 DEF Typed, RenderedOK
  <2>6. CASE c.live /\ modal # None /\ modal.rel = c.rel /\ modal.kind \in {"rollback", "confirm"}
    <3>1. Chosen(None, [picked EXCEPT ![c.rel] = NoPick])
      BY DEF Chosen
    <3>2. Render(None, [picked EXCEPT ![c.rel] = NoPick], calls \ {c})
      BY <1>2, <2>6 DEF RolledBack
    <3> QED
      BY <1>0, <2>3, <2>5, <3>1, <3>2, RenderTypes DEF Typed
  <2>7. CASE ~(c.live /\ modal # None /\ modal.rel = c.rel /\ modal.kind \in {"rollback", "confirm"})
    <3>1. Render(modal, picked, calls \ {c})
      BY <1>2, <2>7 DEF RolledBack
    <3> QED
      BY <1>0, <2>3, <3>1, RenderTypes DEF Typed, RenderedOK
  <2> QED
    BY <2>6, <2>7
<1>3. CASE UpgradeStarted(c)
  <2>1. BaseOK'
    BY <1>3 DEF UpgradeStarted, Back, host, Typed, BaseOK, DataSet, Scope
  <2>2. [c EXCEPT !.op = "deploy", !.at = backend, !.live = FALSE] \in CallSet
    BY <1>0 DEF CallSet, Ops
  <2> QED
    BY <1>0, <1>3, <2>1, <2>2, RenderTypes DEF UpgradeStarted, Typed, RenderedOK
<1>4. CASE UpgradeEnds(c)
  <2>1. revs' \in [Contexts -> [Releases -> 0 .. MaxRev]]
    <3>1. CASE UNCHANGED revs
      BY <3>1 DEF Typed, BaseOK
    <3>2. CASE /\ revs[c.at][c.rel] \in 1 .. MaxRev - 1
               /\ revs' = [revs EXCEPT ![c.at][c.rel] = @ + 1]
      <4>1. c.rel \in Releases /\ c.at \in Contexts \cup {None}
        BY <1>0 DEF CallSet, Ops
      <4>2. revs[c.at][c.rel] + 1 \in 0 .. MaxRev
        BY <3>2, PagesAssumption
      <4>3. CASE c.at \in Contexts
        BY <3>2, <4>1, <4>2, <4>3 DEF Typed, BaseOK
      <4>4. CASE c.at \notin Contexts
        BY <3>2, <4>4 DEF Typed, BaseOK
      <4> QED
        BY <4>3, <4>4
    <3> QED
      BY <1>4, <3>1, <3>2 DEF UpgradeEnds
  <2>2. (fetch \in [Keys -> SUBSET Contexts] /\ steady \subseteq Keys)'
    BY <1>4, FetchedKeys, FetchesType DEF UpgradeEnds, Typed, BaseOK
  <2>3. BaseOK'
    BY <1>4, <2>1, <2>2 DEF UpgradeEnds, Back, host, Typed, BaseOK, DataSet, Scope
  <2> QED
    BY <1>0, <1>4, <2>3, RenderTypes DEF UpgradeEnds, Typed, RenderedOK
<1>5. CASE CallFails(c)
  <2>1. BaseOK'
    BY <1>5 DEF CallFails, Back, host, pages, Typed, BaseOK, DataSet, Scope
  <2> QED
    BY <1>5, <2>1 DEF CallFails, pages, Typed, RenderedOK
<1> QED
  BY <1>1, <1>2, <1>3, <1>4, <1>5

\* The page as it opens.
LEMMA TypesInit == Init => Typed
<1> SUFFICES ASSUME Init PROVE Typed
  OBVIOUS
<1>1. steady \subseteq Keys
  BY PagesAssumption, KeyFacts DEF Init
<1>2. fetch \in [Keys -> SUBSET Contexts]
  BY DEF Init
<1>3. coming \in Seq(Contexts)
  <2>1. <<>> \in Seq(Contexts) /\ <<First>> \in Seq(Contexts)
    BY PagesAssumption
  <2>2. coming = <<>> \/ coming = <<First>>
    BY DEF Init
  <2> QED
    BY <2>1, <2>2
<1>4. BaseOK
  BY <1>1, <1>2, <1>3, PagesAssumption DEF Init, BaseOK
<1>5. NoPick \in PickSet
  BY PagesAssumption DEF NoPick, PickSet
<1> QED
  BY <1>4, <1>5 DEF Init, Typed, RenderedOK, Chosen

\* All steps.
LEMMA TypesNext == Typed /\ [Next]_vars => Typed'
<1> SUFFICES ASSUME Typed, [Next]_vars PROVE Typed'
  OBVIOUS
<1>1. CASE UNCHANGED vars
  BY <1>1 DEF vars, host, pages, Typed, BaseOK, RenderedOK, DataSet, Scope
<1>2. CASE Next
  BY <1>2, TypesHost, TypesAnswer, TypesClicks, TypesCalls, TypesTab, TypesBack DEF Next
<1> QED
  BY <1>1, <1>2

\* Types hold for any clusters, releases, bounds and order of answers; in
\* particular a rollback that is confirmed names a revision and the cluster
\* whose history it was read from (HelmReleaseRollbackModal.tsx:53-61).
THEOREM PagesTyped == Spec => []TypeOK
<1>1. Typed => TypeOK
  BY TypeParts DEF Typed
<1> QED
  BY <1>1, TypesInit, TypesNext, PTL DEF Spec

-----------------------------------------------------------------------------

\* the steps that change neither the page's selection nor what it has fetched
Aside == UNCHANGED <<ctx, cache, sel, header>>

\* A step that ends with a render leaves the header's copy right.
LEMMA RenderedHeader ==
    ASSUME HeaderAgrees, NEW m, NEW p, NEW cs, Render(m, p, cs)
    PROVE  HeaderAgrees'
<1>1. header' = HeaderCopy
  BY DEF Render
<1>2. SUFFICES ASSUME sel' # None, header' # None
               PROVE  /\ header'.rel = sel'
                      /\ cache'[DetailKey(ctx', sel')] # None
                      /\ header'.from = cache'[DetailKey(ctx', sel')].from
  BY DEF HeaderAgrees, DetailKey
<1>3. Detail' = cache'[DetailKey(ctx', sel')]
  BY <1>2 DEF Detail, DetailKey
<1>4. CASE sel' = sel /\ Detail' = Detail
  <2>1. header' = header
    BY <1>1, <1>4 DEF HeaderCopy
  <2>2. Detail = cache[DetailKey(ctx, sel)]
    BY <1>2, <1>4 DEF Detail
  <2> QED
    BY <1>2, <1>3, <1>4, <2>1, <2>2 DEF HeaderAgrees
<1>5. CASE ~(sel' = sel /\ Detail' = Detail)
  <2>1. Detail' # None
    BY <1>1, <1>2, <1>5 DEF HeaderCopy
  <2>2. header' = [rel |-> sel', from |-> Detail'.from]
    BY <1>1, <1>2, <1>5, <2>1 DEF HeaderCopy
  <2> QED
    BY <1>3, <2>1, <2>2
<1> QED
  BY <1>4, <1>5

\* The other steps leave the copy and what it depends on alone.
LEMMA AsideHeader ==
    ASSUME HeaderAgrees, Aside
    PROVE  HeaderAgrees'
BY DEF HeaderAgrees, Aside, DetailKey

\* Every step renders or leaves alone what the copy depends on.
LEMMA RendersOrAside ==
    ASSUME [Next]_vars
    PROVE  Aside \/ \E m, p, cs : Render(m, p, cs)
<1>1. CASE UNCHANGED vars
  BY <1>1 DEF vars, host, pages, Aside
<1>2. ASSUME Switch \/ Refetch PROVE \E m, p, cs : Render(m, p, cs)
  BY <1>2 DEF Switch, Refetch
<1>3. ASSUME NEW k \in Keys, Answer(k) \/ FetchFails(k) PROVE \E m, p, cs : Render(m, p, cs)
  BY <1>3 DEF Answer, FetchFails
<1>4. ASSUME NEW r \in Releases, Select(r) \/ OpenRollback(r)
      PROVE  \E m, p, cs : Render(m, p, cs)
  BY <1>4 DEF Select, OpenRollback
<1>5. ASSUME CloseDrawer \/ Cancel \/ CloseTab PROVE \E m, p, cs : Render(m, p, cs)
  BY <1>5 DEF CloseDrawer, Cancel, CloseTab
<1>6. ASSUME NEW c \in calls, Deleted(c) \/ RolledBack(c) \/ UpgradeStarted(c) \/ UpgradeEnds(c)
      PROVE  \E m, p, cs : Render(m, p, cs)
  BY <1>6 DEF Deleted, RolledBack, UpgradeStarted, UpgradeEnds
<1>7. ASSUME NEW r \in Releases, ClickUpgrade(r) PROVE Aside
  BY <1>7 DEF ClickUpgrade, Opens, Still, host, pages, Aside
<1>8. ASSUME NEW n \in 1 .. MaxRev, Pick(n) PROVE Aside
  BY <1>8 DEF Pick, Quiet, Still, host, Aside
<1>9. ASSUME (\E kind \in Deletions : OpenDelete(kind)) \/ SubmitRollback PROVE Aside
  BY <1>9 DEF OpenDelete, SubmitRollback, Quiet, Opens, Still, host, Aside
<1>10. ASSUME ConfirmDelete \/ ConfirmRollback \/ ClickTabUpgrade PROVE Aside
  BY <1>10 DEF ConfirmDelete, ConfirmRollback, ClickTabUpgrade, Call, pages, Quiet, Still, host, Aside
<1>11. ASSUME (\E c \in calls : Decoded(c)) \/ DrawerUpgrade PROVE Aside
  BY <1>11 DEF Decoded, DrawerUpgrade, OpenTab, Quiet, Opens, Still, host, Aside
<1>12. ASSUME NEW c \in calls, CallFails(c) PROVE Aside
  BY <1>12 DEF CallFails, Back, host, pages, Aside
<1>13. ASSUME NEW c \in Contexts, HostChooses(c) PROVE Aside
  BY <1>13 DEF HostChooses, Aside
<1>14. ASSUME Follow PROVE Aside
  BY <1>14 DEF Follow, pages, Aside
<1> QED
  BY <1>1, <1>2, <1>3, <1>4, <1>5, <1>6, <1>7, <1>8, <1>9, <1>10, <1>11, <1>12, <1>13, <1>14 DEF Next

\* Whatever clusters the host switches to and in whatever order answers come,
\* the buttons of the drawer's header carry what its body shows
\* (HelmReleaseDetailDrawer.tsx:283-285, 338-352).
THEOREM HeaderAgreesThm == Spec => []HeaderAgrees
<1>1. Init => HeaderAgrees
  BY DEF Init, HeaderAgrees
<1>2. HeaderAgrees /\ [Next]_vars => HeaderAgrees'
  BY RendersOrAside, RenderedHeader, AsideHeader
<1> QED
  BY <1>1, <1>2, PTL DEF Spec


----------------------------------------------------------------------------
(* Nothing that belongs to the drawer outlives it: its modals and the       *)
(* callbacks of the calls made in it are about the release it shows.        *)

OwnModal(m, s) == (m # None /\ m.place = "drawer") => (s # None /\ s = m.rel)
OwnCalls(cs, s) == \A c \in cs : (c.live /\ c.place = "drawer") => (s # None /\ s = c.rel)
DrawerOwn == OwnModal(modal, sel) /\ OwnCalls(calls, sel)

\* A render takes along what belongs to a drawer that was closed.
LEMMA RenderedOwn ==
    ASSUME NEW m, NEW p, NEW cs \in SUBSET CallSet, Render(m, p, cs),
           OwnModal(m, sel), OwnCalls(cs, sel), sel' \in {sel, None} \/ sel = None
    PROVE  DrawerOwn'
<1>1. OwnModal(modal', sel')
  BY DEF Render, Surviving, OwnModal
<1>2. ASSUME NEW c \in cs, Mounted(c).live, Mounted(c).place = "drawer"
      PROVE  sel' # None /\ sel' = Mounted(c).rel
  <2>1. c \in CallSet
    OBVIOUS
  <2>2. Mounted(c).place = c.place /\ Mounted(c).rel = c.rel
    BY <2>1 DEF Mounted, CallSet, Ops
  <2>3. c.live /\ sel' # None
    BY <1>2, <2>1, <2>2 DEF Mounted, CallSet, Ops
  <2> QED
    BY <1>2, <2>2, <2>3 DEF OwnCalls
<1>3. OwnCalls(calls', sel')
  BY <1>2 DEF Render, OwnCalls
<1> QED
  BY <1>1, <1>3 DEF DrawerOwn

\* Every step keeps modals and calls with their drawer.
LEMMA OwnNext ==
    ASSUME Typed, DrawerOwn, [Next]_vars
    PROVE  DrawerOwn'
<1>0. /\ calls \in SUBSET CallSet /\ (modal # None => modal \in ModalSet)
      /\ OwnModal(modal, sel) /\ OwnCalls(calls, sel)
  BY DEF Typed, RenderedOK, DrawerOwn
<1>1. CASE UNCHANGED vars
  BY <1>1 DEF vars, pages, DrawerOwn
<1>2. ASSUME NEW c \in Contexts, HostChooses(c) PROVE DrawerOwn'
  <2>1. OwnCalls(calls', sel)
    BY <1>0, <1>2 DEF HostChooses, OwnCalls, CallSet
  <2>2. OwnModal(modal', sel)
    BY <1>0, <1>2 DEF HostChooses, OwnModal, ModalSet, Modals, Deletions
  <2> QED
    BY <1>2, <2>1, <2>2 DEF HostChooses, DrawerOwn
<1>17. CASE Follow
  BY <1>0, <1>17 DEF Follow, pages, DrawerOwn
<1>18. CASE Switch \/ Refetch
  BY <1>0, <1>18, RenderedOwn DEF Switch, Refetch
<1>3. ASSUME NEW k \in Keys, Answer(k) \/ FetchFails(k) PROVE DrawerOwn'
  BY <1>0, <1>3, RenderedOwn DEF Answer, FetchFails
<1>4. ASSUME NEW r \in Releases, Select(r) PROVE DrawerOwn'
  BY <1>0, <1>4, RenderedOwn DEF Select, Clickable
<1>5. ASSUME NEW r \in Releases, OpenRollback(r) PROVE DrawerOwn'
  <2>1. OwnModal([kind |-> "rollback", rel |-> r, place |-> "row",
                  from |-> Table.from, calm |-> Calm(ListKey(ctx))], sel)
    BY DEF OwnModal
  <2> QED
    BY <1>0, <1>5, <2>1, RenderedOwn DEF OpenRollback
<1>6. CASE CloseDrawer \/ CloseTab
  BY <1>0, <1>6, RenderedOwn DEF CloseDrawer, CloseTab
<1>7. CASE Cancel
  <2>1. OwnModal(IF modal.kind = "confirm" THEN [modal EXCEPT !.kind = "rollback"] ELSE None, sel)
    BY <1>0, <1>7 DEF Cancel, OwnModal, ModalSet, Modals, Deletions
  <2> QED
    BY <1>0, <1>7, <2>1, RenderedOwn DEF Cancel
<1>8. ASSUME NEW kind \in Deletions, OpenDelete(kind) PROVE DrawerOwn'
  BY <1>0, <1>8 DEF OpenDelete, DrawerButtons, Opens, Turn, Quiet, Still, host, DrawerOwn, OwnModal
<1>9. CASE SubmitRollback
  <2>1. OwnModal(modal', sel)
    BY <1>0, <1>9 DEF SubmitRollback, OwnModal, ModalSet, Modals, Deletions
  <2> QED
    BY <1>0, <1>9, <2>1 DEF SubmitRollback, DrawerOwn
<1>10. ASSUME NEW n \in 1 .. MaxRev, Pick(n) PROVE DrawerOwn'
  BY <1>0, <1>10 DEF Pick, DrawerOwn
<1>11. ASSUME NEW r \in Releases, ClickUpgrade(r) PROVE DrawerOwn'
  BY <1>0, <1>11 DEF ClickUpgrade, NewCall, pages, DrawerOwn, OwnModal, OwnCalls
<1>12. CASE (\E c \in calls : Decoded(c)) \/ DrawerUpgrade
  BY <1>0, <1>12 DEF Decoded, DrawerUpgrade, OpenTab, DrawerOwn, OwnCalls
<1>13. CASE ConfirmDelete
  BY <1>0, <1>13 DEF ConfirmDelete, Call, NewCall, pages, DrawerOwn, OwnModal, OwnCalls
<1>14. CASE ConfirmRollback \/ ClickTabUpgrade
  BY <1>0, <1>14 DEF ConfirmRollback, ClickTabUpgrade, Call, NewCall, pages, DrawerOwn, OwnModal, OwnCalls
<1>15. ASSUME NEW c \in calls,
              Deleted(c) \/ RolledBack(c) \/ UpgradeStarted(c) \/ UpgradeEnds(c) \/ CallFails(c)
       PROVE  DrawerOwn'
  <2>1. OwnModal(None, sel) /\ OwnCalls(calls \ {c}, sel) /\ calls \ {c} \in SUBSET CallSet
    BY <1>0 DEF OwnModal, OwnCalls
  <2>2. CASE Deleted(c)
    BY <1>0, <2>1, <2>2, RenderedOwn DEF Deleted
  <2>3. CASE RolledBack(c)
    <3>1. PICK m \in {modal, None} : \E p : Render(m, p, calls \ {c})
      BY <2>3 DEF RolledBack
    <3> QED
      BY <1>0, <2>1, <2>3, <3>1, RenderedOwn DEF RolledBack
  <2>4. CASE UpgradeStarted(c)
    <3>1. [c EXCEPT !.op = "deploy", !.at = backend, !.live = FALSE] \in CallSet
      BY <1>0 DEF CallSet, Ops, Typed, BaseOK
    <3>2. OwnCalls((calls \ {c}) \cup {[c EXCEPT !.op = "deploy", !.at = backend, !.live = FALSE]}, sel)
      BY <1>0, <2>1 DEF OwnCalls, CallSet, Ops
    <3> QED
      BY <1>0, <2>1, <2>4, <3>1, <3>2, RenderedOwn DEF UpgradeStarted
  <2>5. CASE UpgradeEnds(c)
    BY <1>0, <2>1, <2>5, RenderedOwn DEF UpgradeEnds
  <2>6. CASE CallFails(c)
    BY <1>0, <2>1, <2>6 DEF CallFails, pages, DrawerOwn
  <2> QED
    BY <1>15, <2>2, <2>3, <2>4, <2>5, <2>6
<1>16. CASE Next
  BY <1>2, <1>3, <1>4, <1>5, <1>6, <1>7, <1>8, <1>9, <1>10, <1>11, <1>12, <1>13, <1>14, <1>15, <1>16,
     <1>17, <1>18 DEF Next
<1> QED
  BY <1>1, <1>16

\* A live call that a render leaves out is gone: no other one takes its place.
LEMMA EndsForGood ==
    ASSUME calls \subseteq CallSet, NEW c \in calls, c.live, NEW m, NEW p, Render(m, p, calls \ {c})
    PROVE  c \in calls \ calls'
<1>1. SUFFICES ASSUME NEW x \in calls \ {c}, Mounted(x) = c PROVE FALSE
  BY DEF Render
<1>2. x \in CallSet
  OBVIOUS
<1>3. x.live
  BY <1>1, <1>2 DEF Mounted, CallSet, Ops
<1>4. Mounted(x) = x
  <2>1. Mounted(x).live
    BY <1>1
  <2> QED
    BY <1>2, <1>3, <2>1 DEF Mounted, CallSet, Ops
<1> QED
  BY <1>1, <1>4

\* The drawer is closed by hand or by a deletion confirmed in it.
LEMMA ForeignStep ==
    ASSUME Typed, DrawerOwn, [Next]_vars, sel # None, sel' = None
    PROVE  CloseDrawer \/ \E c \in calls \ calls' : c.place = "drawer" /\ c.rel = sel
<1>1. CloseDrawer \/ \E c \in calls : Deleted(c)
  <2>1. ~UNCHANGED sel
    OBVIOUS
  <2>2. Follow \/ Switch \/ Refetch => UNCHANGED sel
    BY DEF Follow, Switch, Refetch, pages
  <2>3. ASSUME NEW k \in Keys, Answer(k) \/ FetchFails(k) PROVE UNCHANGED sel
    BY <2>3 DEF Answer, FetchFails
  <2>4. ASSUME NEW r \in Releases, Select(r) PROVE FALSE
    BY <2>4 DEF Select, Clickable
  <2>5. ASSUME NEW r \in Releases, OpenRollback(r) \/ ClickUpgrade(r) PROVE UNCHANGED sel
    BY <2>5 DEF OpenRollback, ClickUpgrade, pages
  <2>6. ASSUME NEW n \in 1 .. MaxRev, Pick(n) PROVE UNCHANGED sel
    BY <2>6 DEF Pick
  <2>7. (\E kind \in Deletions : OpenDelete(kind)) \/ SubmitRollback \/ Cancel \/ CloseTab => UNCHANGED sel
    BY DEF OpenDelete, SubmitRollback, Cancel, CloseTab
  <2>8. ConfirmDelete \/ ConfirmRollback \/ ClickTabUpgrade => UNCHANGED sel
    BY DEF ConfirmDelete, ConfirmRollback, ClickTabUpgrade, Call, pages
  <2>9. (\E c \in calls : Decoded(c)) \/ DrawerUpgrade => UNCHANGED sel
    BY DEF Decoded, DrawerUpgrade, OpenTab
  <2>10. ASSUME NEW c \in calls, RolledBack(c) \/ UpgradeStarted(c) \/ UpgradeEnds(c) \/ CallFails(c)
         PROVE  UNCHANGED sel
    BY <2>10 DEF RolledBack, UpgradeStarted, UpgradeEnds, CallFails, pages
  <2>11. UNCHANGED vars => UNCHANGED sel
    BY DEF vars, pages
  <2>12. ASSUME NEW c \in Contexts, HostChooses(c) PROVE UNCHANGED sel
    BY <2>12 DEF HostChooses
  <2> QED
    BY <2>1, <2>2, <2>3, <2>4, <2>5, <2>6, <2>7, <2>8, <2>9, <2>10, <2>11, <2>12 DEF Next
<1>2. ASSUME NEW c \in calls, Deleted(c)
      PROVE  c \in calls \ calls' /\ c.place = "drawer" /\ c.rel = sel
  <2>1. c.live /\ c.place = "drawer"
    BY <1>2 DEF Deleted
  <2>2. c.rel = sel
    BY <2>1 DEF DrawerOwn, OwnCalls
  <2>3. c \in calls \ calls'
    BY <1>2, <2>1, EndsForGood DEF Deleted, Typed, RenderedOK
  <2> QED
    BY <2>1, <2>2, <2>3
<1> QED
  BY <1>1, <1>2

\* A deletion that ends late closes the drawer it was confirmed in and no other
\* one: a callback is called only while the header that made the call is mounted
\* (HelmReleaseDetailDrawer.tsx:242-261), and the drawer shows another release only
\* after it was closed.
THEOREM NoForeignCloseThm == Spec => NoForeignClose
<1>1. Init => DrawerOwn
  BY DEF Init, DrawerOwn, OwnModal, OwnCalls
<1>2. Typed /\ DrawerOwn /\ [Next]_vars =>
        ((sel # None /\ sel' = None) =>
           \/ CloseDrawer
           \/ \E c \in calls \ calls' : c.place = "drawer" /\ c.rel = sel)
  BY ForeignStep
<1>3. Typed /\ DrawerOwn /\ [Next]_vars => DrawerOwn'
  BY OwnNext
<1> QED
  BY <1>1, <1>2, <1>3, TypesInit, TypesNext, PTL DEF Spec, NoForeignClose

----------------------------------------------------------------------------
(* While host, backend and page are in step, a fetch that began in step is  *)
(* answered by the cluster that its key names; what the list and the        *)
(* details hold for sure is therefore their own cluster's, for good.        *)

ByContext == ListKeys \cup DetailKeys

Steady(f, st) == \A k \in st : InStep /\ f[k] = {backend} /\ (k \in ByContext => k.ctx = ctx)
Answered(ch) == \A k \in ByContext : (ch[k] # None /\ ch[k].sure) => ch[k].from = k.ctx
CacheOwn == Steady(fetch, steady) /\ Answered(cache)

\* Which keys have a context in them.
LEMMA ByContextFacts ==
    /\ ByContext \subseteq Keys
    /\ \A c \in Contexts : ListKey(c) \in ByContext /\ ListKey(c).ctx = c
    /\ \A c \in Contexts, r \in Releases : DetailKey(c, r) \in ByContext /\ DetailKey(c, r).ctx = c
    /\ \A r \in Releases : HistoryKey(r) \notin ByContext
<1>1. \A r \in Releases : HistoryKey(r) \notin ByContext
  <2>1. \A k \in ListKeys : k.kind = "list"
    BY DEF ListKeys, ListKey
  <2>2. \A k \in DetailKeys : k.kind = "detail"
    BY DEF DetailKeys, DetailKey
  <2>3. \A r \in Releases : HistoryKey(r).kind = "history"
    BY DEF HistoryKey
  <2> QED
    BY <2>1, <2>2, <2>3 DEF ByContext
<1>2. ByContext \subseteq Keys
  BY DEF ByContext, Keys
<1>3. \A c \in Contexts : ListKey(c) \in ByContext /\ ListKey(c).ctx = c
  BY DEF ByContext, ListKeys, ListKey
<1>4. \A c \in Contexts, r \in Releases : DetailKey(c, r) \in ByContext /\ DetailKey(c, r).ctx = c
  <2>1. \A c \in Contexts, r \in Releases : DetailKey(c, r) \in ByContext
    BY DEF ByContext, DetailKeys
  <2>2. \A c \in Contexts, r \in Releases : DetailKey(c, r).ctx = c
    BY DEF DetailKey
  <2> QED
    BY <2>1, <2>2
<1> QED
  BY <1>1, <1>2, <1>3, <1>4

\* What is on screen is the page's context's.
LEMMA OnScreenOwn ==
    ASSUME Typed
    PROVE  /\ \A k \in OnScreen \cap ByContext : k.ctx = ctx
           /\ \A ks : Invalidated(ks) \subseteq OnScreen /\ Watch(ks) \subseteq ks
<1>1. ctx \in Contexts /\ \A r \in {sel} \ {None} : r \in Releases
  BY DEF Typed, BaseOK
<1>2. \A m \in {x \in {modal} \ {None} : x.kind \in {"rollback", "confirm"}} : m.rel \in Releases
  BY DEF Typed, RenderedOK, ModalSet, Modals
<1>3. \A k \in OnScreen \cap ByContext : k.ctx = ctx
  BY <1>1, <1>2, ByContextFacts DEF OnScreen
<1> QED
  BY <1>3 DEF Invalidated, Watch

\* Fetches of the page's keys, with the host as it was, are steady if they
\* begin in step.
LEMMA FetchesSteady ==
    ASSUME Typed, CacheOwn, UNCHANGED <<host, cache>>, NEW ks \in SUBSET Keys,
           \A k \in ks \cap ByContext : k.ctx = ctx, Fetches(ks)
    PROVE  CacheOwn'
<1>1. InStep' = InStep /\ backend' = backend /\ ctx' = ctx /\ cache' = cache
  BY DEF host, InStep
<1>2. fetch' = [k \in Keys |-> IF k \in ks THEN {backend} ELSE fetch[k]] /\ steady \subseteq Keys
  BY DEF Fetches, Typed, BaseOK
<1>3. ASSUME NEW k \in steady'
      PROVE  InStep /\ fetch'[k] = {backend} /\ (k \in ByContext => k.ctx = ctx)
  <2>1. CASE k \in ks
    <3>1. InStep
      BY <1>1, <1>3 DEF Fetches, CacheOwn, Steady
    <3> QED
      BY <1>2, <2>1, <3>1
  <2>2. CASE k \notin ks
    <3>1. k \in steady
      BY <1>3, <2>2 DEF Fetches
    <3> QED
      BY <1>2, <2>2, <3>1 DEF CacheOwn, Steady
  <2> QED
    BY <2>1, <2>2
<1>4. Steady(fetch', steady') /\ (Steady(fetch', steady') => Steady(fetch, steady)')
  BY <1>1, <1>3 DEF Steady
<1>5. Answered(cache')
  BY <1>1 DEF CacheOwn
<1> QED
  BY <1>4, <1>5 DEF CacheOwn, Answered

\* The host chooses, the backend follows, the page follows.
LEMMA CacheHost ==
    ASSUME Typed, CacheOwn,
           (\E c \in Contexts : HostChooses(c)) \/ Follow \/ Switch \/ Refetch
    PROVE  CacheOwn'
<1>0. Answered(cache) /\ Steady(fetch, steady)
  BY DEF CacheOwn
<1>1. ASSUME NEW c \in Contexts, HostChooses(c) PROVE CacheOwn'
  BY <1>0, <1>1 DEF HostChooses, CacheOwn, Answered, Steady
<1>2. CASE Follow
  <2>1. ~InStep /\ steady' = steady /\ cache' = cache
    BY <1>2 DEF Follow, InStep
  <2>2. steady = {}
    BY <1>0, <2>1 DEF Steady
  <2> QED
    BY <1>0, <2>1, <2>2 DEF CacheOwn, Answered, Steady
<1>3. CASE Switch
  <2> DEFINE ks == ({ListKey(chosen)} \ {ListKey(ctx)}) \cup {DetailKey(chosen, r) : r \in {sel} \ {None}}
  <2>1. /\ ~InStep /\ cache' = cache /\ ctx' = chosen /\ backend' = backend /\ chosen' = chosen
        /\ Fetches(Watch(ks))
    BY <1>3 DEF Switch, InStep
  <2>2. steady = {}
    BY <1>0, <2>1 DEF Steady
  <2>3. \A k \in ks : k \in Keys /\ k.ctx = chosen
    BY ByContextFacts DEF Typed, BaseOK
  <2> HIDE DEF ks
  <2>4. ASSUME NEW k \in steady'
        PROVE  InStep' /\ fetch'[k] = {backend'} /\ (k \in ByContext => k.ctx = ctx')
    <3>1. InStep' /\ k \in Watch(ks)
      BY <2>1, <2>2, <2>4 DEF Fetches
    <3>2. k \in ks
      BY <3>1 DEF Watch
    <3> QED
      BY <2>1, <2>3, <3>1, <3>2 DEF Fetches
  <2> QED
    BY <1>0, <2>1, <2>4 DEF CacheOwn, Answered, Steady
<1>4. CASE Refetch
  <2>1. /\ UNCHANGED <<host, cache>>
        /\ Fetches(Invalidated(ListKeys)) \/ Fetches(Watch(OnScreen))
    BY <1>4 DEF Refetch, Still
  <2>2. Invalidated(ListKeys) \subseteq OnScreen /\ Watch(OnScreen) \subseteq OnScreen
    BY OnScreenOwn
  <2>3. Invalidated(ListKeys) \in SUBSET Keys /\ Watch(OnScreen) \in SUBSET Keys
    BY FetchedKeys, OnScreenKeys DEF Typed
  <2> QED
    BY <2>1, <2>2, <2>3, OnScreenOwn, FetchesSteady
<1> QED
  BY <1>1, <1>2, <1>3, <1>4

\* An answer is sure only if its fetch was steady.
LEMMA CacheAnswer ==
    ASSUME Typed, CacheOwn, NEW k \in Keys, Answer(k) \/ FetchFails(k)
    PROVE  CacheOwn'
<1>0. /\ Steady(fetch, steady) /\ Answered(cache) /\ DOMAIN cache = Keys
      /\ fetch \in [Keys -> SUBSET Contexts] /\ steady \subseteq Keys
  BY DEF Typed, BaseOK, CacheOwn
<1>1. /\ UNCHANGED host /\ steady' = steady \ {k} /\ fetch' = [fetch EXCEPT ![k] = {}]
      /\ \A j \in Keys \ {k} : cache'[j] = cache[j]
  BY <1>0 DEF Answer, FetchFails
<1>2. Steady(fetch, steady)'
  <2>1. InStep' = InStep /\ backend' = backend /\ ctx' = ctx
    BY <1>1 DEF host, InStep
  <2> QED
    BY <1>0, <1>1, <2>1 DEF Steady
<1>3. (cache'[k] # None /\ cache'[k].sure /\ k \in ByContext) => cache'[k].from = k.ctx
  <2>1. CASE Answer(k)
    <3>1. PICK c \in fetch[k] : cache' = [cache EXCEPT ![k] =
              [from |-> c, sure |-> k \in steady, revs |-> [r \in Scope(k) |-> revs[c][r]]]]
      BY <2>1 DEF Answer
    <3>2. cache'[k].from = c /\ (cache'[k].sure <=> k \in steady)
      BY <1>0, <3>1
    <3>3. (k \in steady /\ k \in ByContext) => c = k.ctx
      BY <1>0, <3>1 DEF Steady, InStep
    <3> QED
      BY <3>2, <3>3
  <2>2. CASE FetchFails(k)
    <3>1. cache'[k] = None \/ (cache[k] \in DataSet(k) /\ cache'[k] = [cache[k] EXCEPT !.sure = FALSE])
      BY <1>0, <2>2 DEF FetchFails, Typed, BaseOK
    <3> QED
      BY <3>1 DEF DataSet
  <2> QED
    BY <2>1, <2>2
<1>4. Answered(cache')
  BY <1>0, <1>1, <1>3, ByContextFacts DEF Answered
<1> QED
  BY <1>2, <1>4 DEF CacheOwn, Answered

\* Every step keeps the cache so.
LEMMA CacheNext ==
    ASSUME Typed, CacheOwn, [Next]_vars
    PROVE  CacheOwn'
<1>1. CASE UNCHANGED <<host, cache, fetch, steady>>
  BY <1>1 DEF host, CacheOwn, Steady, Answered, InStep
<1>2. ASSUME NEW r \in Releases, Select(r) \/ OpenRollback(r) PROVE CacheOwn'
  <2>1. UNCHANGED <<host, cache>>
    BY <1>2 DEF Select, OpenRollback, Opens, Still
  <2>2. ctx \in Contexts
    BY DEF Typed, BaseOK
  <2>3. CASE Select(r)
    <3>1. Watch({DetailKey(ctx, r)}) \subseteq {DetailKey(ctx, r)} /\ Fetches(Watch({DetailKey(ctx, r)}))
      BY <2>3 DEF Select, Watch
    <3>2. DetailKey(ctx, r) \in Keys /\ DetailKey(ctx, r).ctx = ctx
      BY <2>2, ByContextFacts
    <3> QED
      BY <2>1, <3>1, <3>2, FetchesSteady
  <2>4. CASE OpenRollback(r)
    <3>1. Watch({HistoryKey(r)}) \subseteq {HistoryKey(r)} /\ Fetches(Watch({HistoryKey(r)}))
      BY <2>4 DEF OpenRollback, Watch
    <3>2. HistoryKey(r) \in Keys /\ HistoryKey(r) \notin ByContext
      BY KeyFacts, ByContextFacts
    <3> QED
      BY <2>1, <3>1, <3>2, FetchesSteady
  <2> QED
    BY <1>2, <2>3, <2>4
<1>3. ASSUME NEW c \in calls, Deleted(c) \/ RolledBack(c) \/ UpgradeEnds(c) PROVE CacheOwn'
  <2>1. UNCHANGED <<host, cache>>
    BY <1>3 DEF Deleted, RolledBack, UpgradeEnds, Back
  <2>2. \/ UNCHANGED <<fetch, steady>>
        \/ Fetches(Invalidated(ListKeys)) \/ Fetches(Invalidated(ListKeys \cup DetailKeys))
    BY <1>3 DEF Deleted, RolledBack, UpgradeEnds
  <2>3. \A ks : Invalidated(ks) \subseteq OnScreen
    BY OnScreenOwn
  <2>4. Invalidated(ListKeys) \in SUBSET Keys /\ Invalidated(ListKeys \cup DetailKeys) \in SUBSET Keys
    BY FetchedKeys DEF Typed
  <2>5. CASE UNCHANGED <<fetch, steady>>
    BY <1>1, <2>1, <2>5
  <2>6. CASE Fetches(Invalidated(ListKeys))
    BY <2>1, <2>3, <2>4, <2>6, OnScreenOwn, FetchesSteady
  <2>7. CASE Fetches(Invalidated(ListKeys \cup DetailKeys))
    BY <2>1, <2>3, <2>4, <2>7, OnScreenOwn, FetchesSteady
  <2> QED
    BY <2>2, <2>5, <2>6, <2>7
<1>4. UNCHANGED vars => UNCHANGED <<host, cache, fetch, steady>>
  BY DEF vars
<1>5. ASSUME NEW r \in Releases, ClickUpgrade(r) PROVE UNCHANGED <<host, cache, fetch, steady>>
  BY <1>5 DEF ClickUpgrade, Opens, Still
<1>6. ASSUME NEW n \in 1 .. MaxRev, Pick(n) PROVE UNCHANGED <<host, cache, fetch, steady>>
  BY <1>6 DEF Pick, Quiet, Still
<1>7. CloseDrawer \/ (\E kind \in Deletions : OpenDelete(kind)) \/ SubmitRollback \/ Cancel \/ CloseTab
        => UNCHANGED <<host, cache, fetch, steady>>
  BY DEF CloseDrawer, OpenDelete, SubmitRollback, Cancel, CloseTab, Quiet, Opens, Still
<1>8. ConfirmDelete \/ ConfirmRollback \/ ClickTabUpgrade => UNCHANGED <<host, cache, fetch, steady>>
  BY DEF ConfirmDelete, ConfirmRollback, ClickTabUpgrade, Call, Quiet, Still
<1>9. (\E c \in calls : Decoded(c)) \/ DrawerUpgrade => UNCHANGED <<host, cache, fetch, steady>>
  BY DEF Decoded, DrawerUpgrade, OpenTab, Quiet, Opens, Still
<1>10. ASSUME NEW c \in calls, UpgradeStarted(c) \/ CallFails(c)
       PROVE  UNCHANGED <<host, cache, fetch, steady>>
  BY <1>10 DEF UpgradeStarted, CallFails, Back
<1> QED
  BY <1>1, <1>2, <1>3, <1>4, <1>5, <1>6, <1>7, <1>8, <1>9, <1>10, CacheHost, CacheAnswer DEF Next

----------------------------------------------------------------------------
(* Everything the user may act on is marked calm only while host, backend   *)
(* and page are in step and its cluster is the one the backend is bound to; *)
(* a choice of the host ends the calm of all of it at once.                 *)

\* where a calm click may go
Where == IF InStep THEN {backend} ELSE {}

\* Steps that leave the host alone leave it there.
LEMMA SameHost ==
    ASSUME UNCHANGED host
    PROVE  Where' = Where
BY DEF host, Where, InStep

\* What a click on a calm page takes its cluster from.
LEMMA CalmSources ==
    ASSUME Typed, CacheOwn, HeaderAgrees
    PROVE  /\ Calm(ListKey(ctx)) => Table.from \in Where
           /\ (sel # None /\ header # None /\ Calm(DetailKey(ctx, sel))) => header.from \in Where
<1>0. ctx \in Contexts /\ (sel # None => sel \in Releases)
  BY DEF Typed, BaseOK
<1>1. Calm(ListKey(ctx)) => Table.from = ctx /\ InStep
  BY <1>0, ByContextFacts DEF Calm, Sure, Table, CacheOwn, Answered
<1>2. (sel # None /\ header # None /\ Calm(DetailKey(ctx, sel))) => header.from = ctx /\ InStep
  BY <1>0, ByContextFacts DEF Calm, Sure, HeaderAgrees, CacheOwn, Answered
<1> QED
  BY <1>1, <1>2 DEF Where, InStep

\* of a modal or a tab
AimedOpen(m, w) == (m # None /\ m.calm) => m.from \in w

AimedHistory(m, ch, f, w) ==
    (m # None /\ m.kind \notin Deletions /\ m.calm /\ f[HistoryKey(m.rel)] = {}
       /\ ch[HistoryKey(m.rel)] # None /\ ch[HistoryKey(m.rel)].sure)
    => ch[HistoryKey(m.rel)].from \in w

\* a revision picked in calm lives no longer than the modal it was picked in
AimedPicks(m, p, w) == \A r \in Releases : p[r].by = "calm" =>
    m # None /\ m.kind \notin Deletions /\ m.rel = r /\ (m.calm => p[r].from \in w)

AimedCalls(cs, w) == \A c \in cs : (c.calm /\ (c.at = None \/ c.op = "decode")) => c.from \in w

Aimed ==
    /\ AimedOpen(modal, Where) /\ AimedOpen(tab, Where)
    /\ AimedHistory(modal, cache, fetch, Where)
    /\ AimedPicks(modal, picked, Where)
    /\ AimedCalls(calls, Where)

\* An open modal is told from none.
LEMMA NoneIsNoModal == None \notin ModalSet
BY PagesAssumption DEF ModalSet

\* A render adds nothing that is calm: a default pick is none, survivors are as they were.
LEMMA RenderedAimed ==
    ASSUME NEW m \in {None} \cup ModalSet, NEW p \in [Releases -> PickSet], NEW cs \in SUBSET CallSet,
           Render(m, p, cs), AimedOpen(m, Where'), AimedHistory(m, cache', fetch', Where'),
           AimedPicks(m, p, Where'), AimedCalls(cs, Where'), AimedOpen(tab', Where')
    PROVE  Aimed'
<1>1. modal' \in {m, None} /\ (m # None /\ m.kind \notin Deletions /\ m.rel \in RowsOf(Table') => modal' = m)
  BY DEF Render, Surviving, ModalSet, Modals, Deletions
<1>2. AimedOpen(modal', Where') /\ AimedHistory(modal', cache', fetch', Where')
  BY <1>1 DEF AimedOpen, AimedHistory
<1>3. AimedPicks(modal', picked', Where')
  <2>1. ASSUME NEW r \in Releases, picked'[r].by = "calm"
        PROVE  r \in RowsOf(Table') /\ picked'[r] = p[r]
    BY <2>1 DEF Render, Defaulted, NoPick
  <2> QED
    BY <1>1, <2>1 DEF AimedPicks
<1>4. AimedCalls(calls', Where')
  <2>1. \A c \in cs : /\ Mounted(c).calm = c.calm /\ Mounted(c).at = c.at
                      /\ Mounted(c).from = c.from /\ Mounted(c).op = c.op
    BY DEF Mounted, CallSet, Ops
  <2> QED
    BY <2>1 DEF Render, AimedCalls
<1> QED
  BY <1>2, <1>3, <1>4 DEF Aimed

\* The facts about the current state that the lemmas of the steps use.
LEMMA AimedParts ==
    ASSUME Typed, Aimed
    PROVE  /\ modal \in {None} \cup ModalSet /\ picked \in [Releases -> PickSet]
           /\ calls \in SUBSET CallSet /\ ctx \in Contexts
           /\ AimedOpen(modal, Where) /\ AimedOpen(tab, Where)
           /\ AimedHistory(modal, cache, fetch, Where)
           /\ AimedPicks(modal, picked, Where) /\ AimedCalls(calls, Where)
BY DEF Typed, BaseOK, RenderedOK, Aimed

\* A choice of the host ends the calm of all that is open or under way; until
\* backend and page have followed, nothing is calm again.
LEMMA AimedHost ==
    ASSUME Typed, Aimed, (\E c \in Contexts : HostChooses(c)) \/ Follow \/ Switch
    PROVE  Aimed'
<1>1. ASSUME NEW c \in Contexts, HostChooses(c) PROVE Aimed'
  <2>1. modal' # None =>
          modal # None /\ ~modal'.calm /\ modal'.kind = modal.kind /\ modal'.rel = modal.rel
    BY <1>1, AimedParts DEF HostChooses, ModalSet, Modals
  <2>2. modal # None => modal' # None
    <3>1. modal # None => [modal EXCEPT !.calm = FALSE] \in ModalSet
      BY AimedParts DEF ModalSet, Modals
    <3> QED
      BY <1>1, <3>1, NoneIsNoModal DEF HostChooses
  <2>3. AimedPicks(modal', picked', Where')
    BY <1>1, <2>1, <2>2, AimedParts DEF HostChooses, AimedPicks
  <2>4. AimedOpen(modal', Where') /\ AimedHistory(modal', cache', fetch', Where')
    BY <2>1 DEF AimedOpen, AimedHistory
  <2>5. AimedOpen(tab', Where')
    BY <1>1 DEF HostChooses, AimedOpen, Typed, BaseOK, TabSet
  <2>6. AimedCalls(calls', Where')
    BY <1>1, AimedParts DEF HostChooses, AimedCalls, CallSet, Ops
  <2> QED
    BY <2>3, <2>4, <2>5, <2>6 DEF Aimed
<1>2. CASE Follow \/ Switch
  <2>1. Where = {}
    BY <1>2 DEF Follow, Switch, Where, InStep
  <2>2. /\ AimedOpen(modal, Where') /\ AimedOpen(tab, Where')
        /\ AimedPicks(modal, picked, Where') /\ AimedCalls(calls, Where')
    BY <2>1, AimedParts DEF AimedOpen, AimedPicks, AimedCalls
  <2>3. (modal # None /\ modal.calm) => FALSE
    BY <2>1, AimedParts DEF AimedOpen
  <2>4. AimedHistory(modal, cache', fetch', Where')
    BY <2>3 DEF AimedHistory
  <2>5. CASE Follow
    <3>1. modal' = modal /\ tab' = tab /\ picked' = picked /\ calls' = calls
      BY <2>5 DEF Follow, pages
    <3> QED
      BY <2>2, <2>4, <3>1 DEF Aimed
  <2>6. CASE Switch
    <3>1. tab' = tab /\ Render(modal, picked, calls)
      BY <2>6 DEF Switch
    <3> QED
      BY <2>2, <2>4, <3>1, AimedParts, RenderedAimed
  <2> QED
    BY <1>2, <2>5, <2>6
<1> QED
  BY <1>1, <1>2

\* Fetches that begin are no answers.
LEMMA AimedRefetch ==
    ASSUME Typed, Aimed, Refetch
    PROVE  Aimed'
<1>1. UNCHANGED <<host, cache, tab>> /\ Render(modal, picked, calls)
  BY DEF Refetch, Still
<1>2. PICK ks \in {Invalidated(ListKeys), Watch(OnScreen)} : Fetches(ks)
  BY DEF Refetch
<1>3. AimedHistory(modal, cache', fetch', Where)
  <2>1. SUFFICES ASSUME modal # None, modal.kind \notin Deletions, modal.calm,
                        fetch'[HistoryKey(modal.rel)] = {}, cache[HistoryKey(modal.rel)] # None,
                        cache[HistoryKey(modal.rel)].sure
                 PROVE  cache[HistoryKey(modal.rel)].from \in Where
    BY <1>1 DEF AimedHistory
  <2>2. HistoryKey(modal.rel) \in Keys
    BY <2>1, AimedParts, KeyFacts DEF ModalSet, Modals
  <2>3. fetch[HistoryKey(modal.rel)] = {}
    BY <1>2, <2>1, <2>2 DEF Fetches
  <2> QED
    BY <2>1, <2>3, AimedParts DEF AimedHistory
<1> QED
  BY <1>1, <1>3, SameHost, AimedParts, RenderedAimed

\* An answer: a history that is sure was asked for and answered in step.
LEMMA AimedAnswer ==
    ASSUME Typed, CacheOwn, Aimed, NEW k \in Keys, Answer(k) \/ FetchFails(k)
    PROVE  Aimed'
<1>1. UNCHANGED <<host, tab>> /\ Render(modal, picked, calls)
  BY DEF Answer, FetchFails
<1>2. AimedHistory(modal, cache', fetch', Where)
  <2>1. SUFFICES ASSUME modal # None, modal.kind \notin Deletions, modal.calm,
                        fetch'[HistoryKey(modal.rel)] = {}, cache'[HistoryKey(modal.rel)] # None,
                        cache'[HistoryKey(modal.rel)].sure
                 PROVE  cache'[HistoryKey(modal.rel)].from \in Where
    BY DEF AimedHistory
  <2> DEFINE h == HistoryKey(modal.rel)
  <2>2. h \in Keys /\ cache[h] \in {None} \cup DataSet(h) /\ DOMAIN cache = Keys
        /\ fetch \in [Keys -> SUBSET Contexts]
    BY <2>1, AimedParts, KeyFacts DEF ModalSet, Modals, Deletions, Typed, BaseOK
  <2>3. CASE h # k
    <3>1. cache'[h] = cache[h] /\ fetch'[h] = fetch[h]
      BY <2>2, <2>3 DEF Answer, FetchFails
    <3> QED
      BY <2>1, <3>1, AimedParts DEF AimedHistory
  <2>4. CASE h = k /\ Answer(k)
    <3>1. PICK c \in fetch[k] : cache' = [cache EXCEPT ![k] =
              [from |-> c, sure |-> k \in steady, revs |-> [r \in Scope(k) |-> revs[c][r]]]]
      BY <2>4 DEF Answer
    <3>2. cache'[h].from = c /\ (cache'[h].sure <=> k \in steady)
      BY <2>2, <2>4, <3>1
    <3>3. InStep /\ c = backend
      BY <2>1, <3>1, <3>2 DEF CacheOwn, Steady
    <3> QED
      BY <3>2, <3>3 DEF Where
  <2>5. CASE h = k /\ FetchFails(k)
    <3>1. cache'[h] = None \/ cache'[h] = [cache[h] EXCEPT !.sure = FALSE]
      BY <2>2, <2>5 DEF FetchFails
    <3>2. cache[h] # None => cache[h] \in DataSet(h)
      BY <2>2
    <3>3. cache[h] # None
      BY <2>1, <2>2, <2>5 DEF FetchFails
    <3> QED
      BY <2>1, <3>1, <3>2, <3>3 DEF DataSet
  <2> QED
    BY <2>3, <2>4, <2>5
<1> QED
  BY <1>1, <1>2, SameHost, AimedParts, RenderedAimed

\* The user's clicks: what a click takes on is calm only if the page is.
LEMMA AimedClicks ==
    ASSUME Typed, CacheOwn, HeaderAgrees, Aimed,
           \/ \E r \in Releases : Select(r) \/ OpenRollback(r)
           \/ \E kind \in Deletions : OpenDelete(kind)
           \/ CloseDrawer \/ SubmitRollback \/ Cancel \/ CloseTab
           \/ \E n \in 1 .. MaxRev : Pick(n)
    PROVE  Aimed'
<1>0. Calm(ListKey(ctx)) => Table.from \in Where
  BY CalmSources
<1>1. ASSUME NEW r \in Releases, Select(r) PROVE Aimed'
  <2>1. UNCHANGED <<host, cache, tab>> /\ modal = None /\ Render(modal, picked, calls)
    BY <1>1 DEF Select, Clickable, Opens, Still
  <2>2. AimedHistory(modal, cache', fetch', Where)
    BY <2>1 DEF AimedHistory
  <2> QED
    BY <2>1, <2>2, SameHost, AimedParts, RenderedAimed
<1>2. ASSUME NEW r \in Releases, OpenRollback(r) PROVE Aimed'
  <2> DEFINE m == [kind |-> "rollback", rel |-> r, place |-> "row",
                   from |-> Table.from, calm |-> Calm(ListKey(ctx))]
  <2>1. m \in ModalSet
    <3>1. Table # None
      BY <1>2 DEF OpenRollback, RowButtons, Clickable, Rows, RowsOf
    <3>2. Table.from \in Contexts
      BY <3>1, TableType DEF Typed, RenderedOK
    <3>3. Calm(ListKey(ctx)) \in BOOLEAN
      BY KeyFacts DEF Typed, BaseOK, Calm, Sure, InStep, DataSet
    <3> QED
      BY <3>2, <3>3 DEF ModalSet, Modals, Deletions
  <2>2. modal = None /\ UNCHANGED <<host, cache, tab>> /\ Render(m, picked, calls)
    BY <1>2 DEF OpenRollback, RowButtons, Clickable, Opens, Still
  <2>3. fetch'[HistoryKey(r)] # {}
    <3>1. HistoryKey(r) \in Keys /\ Fetches(Watch({HistoryKey(r)}))
      BY <1>2, KeyFacts DEF OpenRollback
    <3> QED
      BY <3>1 DEF Fetches, Watch, Busy
  <2>4. AimedOpen(m, Where) /\ AimedHistory(m, cache', fetch', Where)
    BY <1>0, <2>3 DEF AimedOpen, AimedHistory
  <2>5. AimedPicks(m, picked, Where)
    BY <2>2, AimedParts DEF AimedPicks
  <2> HIDE DEF m
  <2> QED
    BY <2>1, <2>2, <2>4, <2>5, SameHost, AimedParts, RenderedAimed
<1>3. CASE CloseDrawer \/ CloseTab
  <2>1. UNCHANGED <<host, cache, fetch>> /\ tab' \in {tab, None} /\ Render(modal, picked, calls)
    BY <1>3 DEF CloseDrawer, CloseTab, Quiet, Still
  <2>2. AimedOpen(tab', Where)
    BY <2>1, AimedParts DEF AimedOpen
  <2>3. AimedHistory(modal, cache', fetch', Where)
    BY <2>1, AimedParts
  <2> QED
    BY <2>1, <2>2, <2>3, SameHost, AimedParts, RenderedAimed
<1>4. ASSUME NEW kind \in Deletions, OpenDelete(kind) PROVE Aimed'
  <2>1. modal = None /\ UNCHANGED <<host, cache, fetch, tab, picked, calls>>
    BY <1>4 DEF OpenDelete, Clickable, DrawerButtons, Opens, Quiet, Still
  <2>2. modal'.kind = kind /\ (modal'.calm => modal'.from \in Where)
    BY <1>0, <1>4, CalmSources DEF OpenDelete, DrawerButtons
  <2>3. \A r \in Releases : picked[r].by # "calm"
    BY <2>1, AimedParts DEF AimedPicks
  <2> QED
    BY <2>1, <2>2, <2>3, SameHost, AimedParts DEF Aimed, AimedOpen, AimedHistory, AimedPicks
<1>5. CASE SubmitRollback
  <2>1. modal \in ModalSet /\ modal # None /\ modal.kind = "rollback" /\ modal' = [modal EXCEPT !.kind = "confirm"]
        /\ UNCHANGED <<host, cache, fetch, tab, picked, calls>>
    BY <1>5, AimedParts DEF SubmitRollback, Quiet, Still
  <2>2. modal'.kind \notin Deletions /\ modal'.rel = modal.rel
        /\ modal'.calm = modal.calm /\ modal'.from = modal.from /\ modal' # None
    <3>1. [modal EXCEPT !.kind = "confirm"] \in ModalSet
      BY <2>1 DEF ModalSet, Modals, Deletions
    <3> QED
      BY <2>1, <3>1, NoneIsNoModal DEF ModalSet, Modals, Deletions
  <2>3. modal.kind \notin Deletions
    BY <2>1 DEF Deletions
  <2> QED
    BY <2>1, <2>2, <2>3, SameHost, AimedParts DEF Aimed, AimedOpen, AimedHistory, AimedPicks
<1>6. CASE Cancel
  <2>1. UNCHANGED <<host, cache, fetch, tab>> /\ modal # None /\ modal \in ModalSet
    BY <1>6, AimedParts DEF Cancel, Quiet, Still
  <2>2. CASE modal.kind = "confirm"
    <3> DEFINE m == [modal EXCEPT !.kind = "rollback"]
    <3>1. m \in ModalSet /\ m.kind \notin Deletions /\ m.rel = modal.rel /\ m.calm = modal.calm
          /\ m.from = modal.from /\ modal.kind \notin Deletions
      BY <2>1, <2>2 DEF ModalSet, Modals, Deletions
    <3>2. Render(m, picked, calls)
      BY <1>6, <2>2 DEF Cancel
    <3>3. m # None
      BY <3>1, NoneIsNoModal
    <3> HIDE DEF m
    <3>4. AimedOpen(m, Where) /\ AimedHistory(m, cache', fetch', Where) /\ AimedPicks(m, picked, Where)
      BY <2>1, <3>1, <3>3, AimedParts DEF AimedOpen, AimedHistory, AimedPicks
    <3> QED
      BY <2>1, <3>1, <3>2, <3>4, SameHost, AimedParts, RenderedAimed
  <2>3. CASE modal.kind # "confirm"
    <3> DEFINE p == IF modal.kind = "rollback" THEN [picked EXCEPT ![modal.rel] = NoPick] ELSE picked
    <3>1. Render(None, p, calls)
      BY <1>6, <2>3 DEF Cancel
    <3>2. NoPick \in PickSet /\ NoPick.by = "default"
      BY PagesAssumption DEF NoPick, PickSet
    <3>3. p \in [Releases -> PickSet]
      BY <3>2, AimedParts
    <3>4. AimedPicks(None, p, Where)
      <4>1. ASSUME NEW r \in Releases, p[r].by = "calm" PROVE FALSE
        <5>1. CASE modal.kind \in Deletions
          BY <4>1, <5>1, AimedParts DEF AimedPicks, Deletions
        <5>2. CASE modal.kind = "rollback"
          BY <3>2, <4>1, <5>2, AimedParts DEF AimedPicks
        <5> QED
          BY <2>1, <2>3, <5>1, <5>2 DEF ModalSet, Modals, Deletions
      <4> QED
        BY <4>1 DEF AimedPicks
    <3>5. AimedOpen(None, Where) /\ AimedHistory(None, cache', fetch', Where)
      BY DEF AimedOpen, AimedHistory
    <3> HIDE DEF p
    <3> QED
      BY <2>1, <3>1, <3>3, <3>4, <3>5, SameHost, AimedParts, RenderedAimed
  <2> QED
    BY <2>2, <2>3
<1>7. ASSUME NEW n \in 1 .. MaxRev, Pick(n) PROVE Aimed'
  <2> DEFINE h == cache[HistoryKey(modal.rel)]
             q == [rev |-> n, from |-> h.from,
                   by |-> IF modal.calm /\ Calm(HistoryKey(modal.rel)) THEN "calm" ELSE "click"]
  <2>1. /\ UNCHANGED <<host, cache, fetch, tab, modal, calls>>
        /\ modal # None /\ modal.kind = "rollback" /\ modal \in ModalSet
        /\ picked' = [picked EXCEPT ![modal.rel] = q]
    BY <1>7, AimedParts DEF Pick, Quiet, Still
  <2>2. q.by = "calm" => q.from \in Where
    BY <2>1, AimedParts DEF AimedHistory, Calm, Sure, Busy, Deletions
  <2> HIDE DEF q
  <2>3. ASSUME NEW r \in Releases, picked'[r].by = "calm"
        PROVE  modal.rel = r /\ (modal.calm => picked'[r].from \in Where)
    <3>1. CASE r = modal.rel
      BY <2>1, <2>2, <2>3, <3>1, AimedParts
    <3>2. CASE r # modal.rel
      BY <2>1, <2>3, <3>2, AimedParts DEF AimedPicks
    <3> QED
      BY <3>1, <3>2
  <2>4. AimedPicks(modal', picked', Where)
    BY <2>1, <2>3 DEF AimedPicks, Deletions
  <2> QED
    BY <2>1, <2>4, SameHost, AimedParts DEF Aimed
<1> QED
  BY <1>1, <1>2, <1>3, <1>4, <1>5, <1>6, <1>7

\* A call takes its calm and its cluster from what it was clicked in.
LEMMA AimedCall ==
    ASSUME Typed, Aimed, NEW op, NEW place, NEW r, NEW n, NEW from, NEW calm, NEW id,
           NewCall(op, place, r, n, from, calm, id), calm => from \in Where
    PROVE  AimedCalls(calls', Where)
BY AimedParts DEF NewCall, AimedCalls

\* Calls of the modals and of the tab.
LEMMA AimedCalling ==
    ASSUME Typed, Aimed, ConfirmDelete \/ ConfirmRollback \/ ClickTabUpgrade
    PROVE  Aimed'
<1>0. UNCHANGED <<host, cache, fetch, modal, tab, picked>>
  BY DEF ConfirmDelete, ConfirmRollback, ClickTabUpgrade, Call, pages, Quiet, Still
<1>1. ASSUME ConfirmDelete PROVE AimedCalls(calls', Where)
  BY <1>1, AimedCall, AimedParts DEF ConfirmDelete, Call, AimedOpen
<1>2. ASSUME ConfirmRollback PROVE AimedCalls(calls', Where)
  <2>1. modal \in ModalSet /\ modal.rel \in Releases
    BY <1>2, AimedParts DEF ConfirmRollback, ModalSet, Modals, Deletions
  <2>2. (modal.calm /\ picked[modal.rel].by = "calm") => picked[modal.rel].from \in Where
    BY <2>1, AimedParts DEF AimedPicks
  <2> QED
    BY <1>2, <2>2, AimedCall DEF ConfirmRollback, Call
<1>3. ASSUME ClickTabUpgrade PROVE AimedCalls(calls', Where)
  BY <1>3, AimedCall, AimedParts DEF ClickTabUpgrade, Call, AimedOpen
<1>4. AimedCalls(calls', Where)
  BY <1>1, <1>2, <1>3
<1> QED
  BY <1>0, <1>4, SameHost, AimedParts DEF Aimed

\* A tab takes its calm from the row or from the header.
LEMMA AimedTab ==
    ASSUME Typed, CacheOwn, HeaderAgrees, Aimed,
           (\E r \in Releases : ClickUpgrade(r)) \/ (\E c \in calls : Decoded(c)) \/ DrawerUpgrade
    PROVE  Aimed'
<1>1. ASSUME NEW r \in Releases, ClickUpgrade(r) PROVE Aimed'
  <2>1. UNCHANGED <<host, cache, fetch, modal, tab, picked>>
    BY <1>1 DEF ClickUpgrade, Opens, Still, pages
  <2>2. AimedCalls(calls', Where)
    BY <1>1, CalmSources, AimedCall DEF ClickUpgrade
  <2> QED
    BY <2>1, <2>2, SameHost, AimedParts DEF Aimed
<1>2. ASSUME NEW d, OpenTab(d), d.calm => d.from \in Where
      PROVE  AimedOpen(tab', Where) /\ UNCHANGED <<fetch, modal, picked>>
  BY <1>2, AimedParts DEF OpenTab, AimedOpen
<1>3. ASSUME NEW c \in calls, Decoded(c) PROVE Aimed'
  <2>1. UNCHANGED <<host, cache>> /\ OpenTab(c) /\ calls' = calls \ {c} /\ c.op = "decode"
    BY <1>3 DEF Decoded, Quiet, Still
  <2>2. AimedCalls(calls', Where) /\ (c.calm => c.from \in Where)
    BY <2>1, AimedParts DEF AimedCalls
  <2> QED
    BY <1>2, <2>1, <2>2, SameHost, AimedParts DEF Aimed
<1>4. CASE DrawerUpgrade
  <2> DEFINE d == [rel |-> sel, from |-> header.from, calm |-> Calm(DetailKey(ctx, sel))]
  <2>1. d.calm => d.from \in Where
    BY <1>4, CalmSources DEF DrawerUpgrade, DrawerButtons
  <2>2. OpenTab(d) /\ UNCHANGED <<host, cache, calls>>
    BY <1>4 DEF DrawerUpgrade, Opens, Still
  <2> HIDE DEF d
  <2> QED
    BY <1>2, <2>1, <2>2, SameHost, AimedParts DEF Aimed
<1> QED
  BY <1>1, <1>3, <1>4

\* Results leave the host alone; what they close takes its picks along.
LEMMA AimedBack ==
    ASSUME Typed, Aimed, NEW c \in calls,
           Deleted(c) \/ RolledBack(c) \/ UpgradeStarted(c) \/ UpgradeEnds(c) \/ CallFails(c)
    PROVE  Aimed'
<1>0. /\ AimedCalls(calls \ {c}, Where) /\ calls \ {c} \in SUBSET CallSet /\ c \in CallSet
      /\ AimedOpen(None, Where) /\ AimedHistory(None, cache', fetch', Where)
  BY AimedParts DEF AimedCalls, AimedOpen, AimedHistory
<1>1. ASSUME NEW ks \in {ListKeys, ListKeys \cup DetailKeys}, Fetches(Invalidated(ks)), cache' = cache
      PROVE  AimedHistory(modal, cache', fetch', Where)
  <2>1. ASSUME modal # None, modal.kind \notin Deletions
        PROVE  fetch'[HistoryKey(modal.rel)] = fetch[HistoryKey(modal.rel)]
    <3>1. modal.rel \in Releases
      BY <2>1, AimedParts DEF ModalSet, Modals
    <3>2. HistoryKey(modal.rel) \in Keys /\ HistoryKey(modal.rel) \notin ks
      BY <3>1, KeyFacts, ByContextFacts DEF ByContext
    <3> QED
      BY <1>1, <3>2 DEF Fetches, Invalidated
  <2> QED
    BY <1>1, <2>1, AimedParts DEF AimedHistory
<1>2. CASE Deleted(c)
  <2>1. UNCHANGED <<host, cache, tab>> /\ Fetches(Invalidated(ListKeys))
    BY <1>2 DEF Deleted, Back
  <2>2. AimedHistory(modal, cache', fetch', Where)
    BY <1>1, <2>1
  <2>3. CASE Render(modal, picked, calls \ {c})
    BY <1>0, <2>1, <2>2, <2>3, SameHost, AimedParts, RenderedAimed
  <2>4. CASE Render(None, picked, calls \ {c}) /\ modal # None /\ modal.kind = c.op
    <3>1. modal.kind \in Deletions
      BY <1>2, <2>4 DEF Deleted
    <3>2. AimedPicks(None, picked, Where)
      BY <3>1, AimedParts DEF AimedPicks
    <3> QED
      BY <1>0, <2>1, <2>4, <3>2, SameHost, AimedParts, RenderedAimed
  <2> QED
    BY <1>2, <2>3, <2>4 DEF Deleted
<1>3. CASE RolledBack(c)
  <2>1. UNCHANGED <<host, cache, tab>> /\ Fetches(Invalidated(ListKeys))
    BY <1>3 DEF RolledBack, Back
  <2>2. AimedHistory(modal, cache', fetch', Where)
    BY <1>1, <2>1
  <2>3. CASE Render(modal, picked, calls \ {c})
    BY <1>0, <2>1, <2>2, <2>3, SameHost, AimedParts, RenderedAimed
  <2>4. CASE Render(None, [picked EXCEPT ![c.rel] = NoPick], calls \ {c}) /\ modal.rel = c.rel
    <3> DEFINE p == [picked EXCEPT ![c.rel] = NoPick]
    <3>1. NoPick \in PickSet /\ NoPick.by = "default"
      BY PagesAssumption DEF NoPick, PickSet
    <3>2. p \in [Releases -> PickSet] /\ \A r \in Releases : p[r].by # "calm"
      BY <2>4, <3>1, AimedParts DEF AimedPicks
    <3>3. AimedPicks(None, p, Where)
      BY <3>2 DEF AimedPicks
    <3> HIDE DEF p
    <3> QED
      BY <1>0, <2>1, <2>4, <3>2, <3>3, SameHost, AimedParts, RenderedAimed DEF p
  <2> QED
    BY <1>3, <2>3, <2>4 DEF RolledBack
<1>4. CASE UpgradeStarted(c)
  <2> DEFINE d == [c EXCEPT !.op = "deploy", !.at = backend, !.live = FALSE]
  <2>1. UNCHANGED <<host, cache, fetch>> /\ tab' \in {None, tab}
        /\ Render(modal, picked, (calls \ {c}) \cup {d})
    BY <1>4 DEF UpgradeStarted, Back
  <2>2. d \in CallSet /\ d.at # None /\ d.op = "deploy"
    BY <1>0, PagesAssumption DEF CallSet, Ops, Typed, BaseOK
  <2> HIDE DEF d
  <2>3. AimedCalls((calls \ {c}) \cup {d}, Where)
    BY <1>0, <2>2 DEF AimedCalls
  <2>4. AimedOpen(tab', Where)
    BY <1>0, <2>1, AimedParts
  <2>5. AimedHistory(modal, cache', fetch', Where) /\ (calls \ {c}) \cup {d} \in SUBSET CallSet
    BY <1>0, <2>1, <2>2, AimedParts
  <2> QED
    BY <2>1, <2>3, <2>4, <2>5, SameHost, AimedParts, RenderedAimed
<1>5. CASE UpgradeEnds(c)
  <2>1. UNCHANGED <<host, cache, tab>> /\ Render(modal, picked, calls \ {c})
    BY <1>5 DEF UpgradeEnds, Back
  <2>2. UNCHANGED fetch \/ Fetches(Invalidated(ListKeys \cup DetailKeys))
    BY <1>5 DEF UpgradeEnds
  <2>3. AimedHistory(modal, cache', fetch', Where)
    BY <1>1, <2>1, <2>2, AimedParts DEF AimedHistory
  <2> QED
    BY <1>0, <2>1, <2>3, SameHost, AimedParts, RenderedAimed
<1>6. CASE CallFails(c)
  <2>1. UNCHANGED <<host, cache, fetch, modal, tab, picked>> /\ calls' = calls \ {c}
    BY <1>6 DEF CallFails, Back, pages
  <2> QED
    BY <1>0, <2>1, SameHost, AimedParts DEF Aimed
<1> QED
  BY <1>2, <1>3, <1>4, <1>5, <1>6

\* All steps.
LEMMA AimedNext ==
    ASSUME Typed, CacheOwn, HeaderAgrees, Aimed, [Next]_vars
    PROVE  Aimed'
<1>1. CASE UNCHANGED vars
  BY <1>1, SameHost DEF vars, pages, Aimed
<1>2. CASE Next
  BY <1>2, AimedHost, AimedRefetch, AimedAnswer, AimedClicks, AimedCalling, AimedTab, AimedBack DEF Next
<1> QED
  BY <1>1, <1>2

\* A click on rows, a detail or a revision that were fetched in step reaches the
\* cluster they came from, however many choices of the host, late answers, failed
\* loads and reopened modals came before: whatever is still open or under way from
\* before a choice is not calm any more (HelmReleasesView.tsx:66-186,
\* HelmReleaseRollbackModal.tsx:45-60, useGetHelmReleases.ts:13-30).
THEOREM AimedWellThm == Spec => []AimedWell
<1>1. Init => CacheOwn /\ Aimed
  <2> SUFFICES ASSUME Init PROVE CacheOwn /\ Aimed
    OBVIOUS
  <2>1. Steady(fetch, steady)
    <3>1. ASSUME NEW k \in steady PROVE InStep /\ k = ListKey(ctx)
      BY <3>1 DEF Init
    <3>2. ListKey(ctx).ctx = ctx /\ ListKey(ctx) \in Keys
      BY PagesAssumption, KeyFacts, ByContextFacts DEF Init
    <3> QED
      BY <3>1, <3>2 DEF Init, Steady
  <2>2. Answered(cache)
    BY ByContextFacts DEF Init, Answered
  <2>3. Aimed
    BY DEF Init, Aimed, AimedOpen, AimedHistory, AimedPicks, AimedCalls, NoPick
  <2> QED
    BY <2>1, <2>2, <2>3 DEF CacheOwn
<1>2. Typed /\ CacheOwn /\ HeaderAgrees /\ Aimed /\ [Next]_vars => (CacheOwn /\ Aimed)'
  BY CacheNext, AimedNext
<1>3. Aimed => AimedWell
  BY DEF Aimed, AimedCalls, AimedWell, Where
<1> QED
  BY <1>1, <1>2, <1>3, TypesInit, TypesNext, HeaderAgreesThm, PTL DEF Spec

=============================================================================
