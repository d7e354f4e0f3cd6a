--------------------------- MODULE RepoIndexProofs ---------------------------
(***************************************************************************)
(* What RepoIndex keeps whatever fails, whoever else works on the files,   *)
(* and wherever the plugin is killed: an answer is never older than the    *)
(* last edit, edits last, and what is served is there.                     *)
(***************************************************************************)
EXTENDS RepoIndex, TLAPS

Entry(r) == EntriesOf(config)[r]

-----------------------------------------------------------------------------
(* Copies of indexes and what lookups pick from them.                      *)

LEMMA NullsApart ==
    /\ None \notin Urls /\ None \notin Versions
    /\ \A i \in Indexes : Readable(i) /\ i # None
    /\ \A e \in Entries : Readable(e) /\ e # None
    /\ \A f \in Files : Readable(f) => f \in Indexes
BY NullsAssumption DEF Readable, Files

LEMMA CopyMade ==
    ASSUME NEW i \in Indexes, NEW m \in VersionMaps(i)
    PROVE  [index |-> i, byVersion |-> m] \in Copies
BY DEF Copies

LEMMA CopyShape ==
    ASSUME NEW copy \in Copies
    PROVE  copy.index \in Indexes /\ copy.byVersion \in VersionMaps(copy.index)
BY DEF Copies

LEMMA LatestThere ==
    ASSUME NEW i \in Indexes, NEW chart \in ChartsOf(i)
    PROVE  Latest(i, chart) \in i.offer
<1> DEFINE of == {x \in i.offer : x.chart = chart}
           S  == {e.version : e \in of}
<1>1. i.offer \in Offers /\ i.offer \subseteq ChartVersions
  BY OffersAssumption DEF Indexes
<1>2. S \in SUBSET {e.version : e \in i.offer} /\ S # {}
  BY DEF ChartsOf
<1>3. \E x \in S : \A y \in S : x >= y
  BY <1>1, <1>2, LatestAssumption
<1>4. Max(S) \in S
  BY <1>3 DEF Max
<1>5. PICK e \in of : Max(S) = e.version
  BY <1>4
<1>6. e = [chart |-> chart, version |-> Max(S)]
  BY <1>1, <1>5 DEF ChartVersions
<1> QED BY <1>5, <1>6 DEF Latest

LEMMA PickedIsThere ==
    ASSUME NEW copy \in Copies, NEW chart \in Charts, NEW version \in Versions \cup {None},
           NEW e \in Picks(copy, chart, version)
    PROVE  /\ chart \in ChartsOf(copy.index) /\ e \in copy.index.offer
           /\ IF version = None THEN e = Latest(copy.index, chart) ELSE e.version = version
           /\ e \in ChartVersions
<1>1. copy.index \in Indexes /\ copy.byVersion \in VersionMaps(copy.index)
  BY CopyShape
<1>2. chart \in ChartsOf(copy.index)
  BY DEF Picks
<1>3. CASE version = None
  <2>1. e = Latest(copy.index, chart)
    BY <1>2, <1>3 DEF Picks
  <2> QED BY <1>1, <1>2, <1>3, <2>1, LatestThere, OffersAssumption DEF Indexes
<1>4. CASE version # None
  <2>1. version \in DOMAIN copy.byVersion /\ e = copy.byVersion[version]
    BY <1>2, <1>4 DEF Picks
  <2>2. e \in copy.index.offer /\ e.version = version
    BY <1>1, <2>1 DEF VersionMaps
  <2> QED BY <1>1, <1>2, <1>4, <2>2, OffersAssumption DEF Indexes
<1> QED BY <1>3, <1>4

-----------------------------------------------------------------------------
(* Types, and what a call at each step has at hand.                        *)

FunctionsTyped ==
    /\ req \in [Calls -> Requests \cup {None}]
    /\ answer = [c \in Calls |-> answer[c]] /\ seen = [r \in Repos |-> seen[r]]
    /\ want \in [Repos -> Urls \cup {None}]
    /\ known \in [Calls -> SUBSET Repos] /\ raced \in [Calls -> SUBSET Repos]
    /\ astray \subseteq Repos /\ foreign \subseteq Repos

EditShape(c) ==
    /\ pc[c] \in EditSteps => req[c] \in [kind : {"add", "remove"}, repo : Repos]
    /\ pc[c] = "fetch" => Adds(c)
    /\ pc[c] = "unlink" => ~Adds(c)
    /\ pc[c] \in {"fetch", "write"} => held[c] \in Entries

ReadShape(c) ==
    /\ pc[c] \in ReadSteps =>
          req[c] \in [kind : {"charts", "chart"}, repo : Repos \cup {None}]
    /\ pc[c] \in ReadSteps /\ req[c].kind = "chart" =>
          req[c].repo \in Repos /\ todo[c] \subseteq {req[c].repo} /\ shown[c] = {}
    /\ pc[c] = "store" => req[c].repo \in todo[c] /\ got[c] \in Indexes
    /\ pc[c] = "resolve" => req[c].kind = "chart" /\ got[c] \in Copies
    /\ pc[c] = "idle" => shown[c] = {}
    /\ answer[c] # None => pc[c] = "reply"

Typed == TypeOK /\ FunctionsTyped /\ \A c \in Calls : EditShape(c) /\ ReadShape(c)

LEMMA TypedInitial == Init => Typed
<1> SUFFICES ASSUME Init PROVE Typed
  OBVIOUS
<1> USE DEF Init
<1>1. config \in Entries \cup {Missing}
  BY CatalogAssumption
<1>2. \A r \in Repos : EntriesOf(config)[r] \in Urls \cup {None}
  BY <1>1 DEF EntriesOf, Readable, NoEntries, Entries
<1>3. NoEntries \in Entries
  BY DEF NoEntries, Entries
<1>4. files \in [Repos -> Files] /\ want \in Entries
  <2>1. remote \in [Urls -> Offers]
    BY OfferedAssumption
  <2> DEFINE entries == IF config = Missing THEN NoEntries ELSE config
  <2>2. entries \in Entries /\ want = entries
    BY <1>1, <1>3
  <2>3. \A r \in Repos : entries[r] = None \/ [url |-> entries[r], offer |-> remote[entries[r]]] \in Indexes
    BY <2>1, <2>2 DEF Indexes, Entries
  <2> QED BY <2>2, <2>3 DEF Files
<1>5. TypeOK
  BY <1>1, <1>3, <1>4, OfferedAssumption, BoundsAssumption DEF TypeOK, Requests
<1>6. FunctionsTyped
  BY <1>4, Zenon DEF FunctionsTyped, Entries
<1> QED BY <1>5, <1>6 DEF Typed, EditShape, ReadShape, EditSteps, ReadSteps

LEMMA TypedArrive ==
    ASSUME Typed, NEW c \in Calls, Arrive(c)
    PROVE  Typed'
<1> USE DEF Typed, TypeOK, FunctionsTyped, EditShape, ReadShape, EditSteps, ReadSteps,
            Goto, Ask, userVars, diskVars, histVars, Requests
<1>1. ASSUME NEW r \in Repos, AskAdd(c, r) PROVE Typed'
  BY <1>1 DEF AskAdd, Adds
<1>2. ASSUME NEW r \in Repos, AskRemove(c, r) PROVE Typed'
  BY <1>2 DEF AskRemove, Adds
<1>3. ASSUME AskCharts(c) PROVE Typed'
  BY <1>3 DEF AskCharts, Adds, Configured
<1>4. ASSUME NEW r \in Repos, AskChart(c, r) PROVE Typed'
  BY <1>4 DEF AskChart, Adds
<1> QED BY <1>1, <1>2, <1>3, <1>4 DEF Arrive

LEMMA TypedEdit ==
    ASSUME Typed, NEW c \in Calls, Edit(c)
    PROVE  Typed'
<1> USE DEF Typed, TypeOK, FunctionsTyped, EditShape, ReadShape, EditSteps, ReadSteps,
            Goto, EditEnds, EditAside, userVars, diskVars, Requests, Edited, Adds
<1>1. EntriesOf(config) \in Entries
  BY NullsApart DEF EntriesOf, Readable, NoEntries, Entries
<1>2. CASE Load(c)
  BY <1>1, <1>2 DEF Load
<1>3. ASSUME EditAside, UNCHANGED <<cache, want>>, astray' \subseteq Repos, foreign' = foreign,
             files' = files, config' = config, UNCHANGED seen,
             NEW from \in EditSteps, EditEnds(c, from)
      PROVE  Typed'
  <2>1. pc[c] \in EditSteps /\ pc' = [pc EXCEPT ![c] = "done"]
    BY <1>3
  <2>2. TypeOK'
    BY <1>3, <2>1
  <2>3. FunctionsTyped'
    BY <1>3
  <2>4. \A d \in Calls : EditShape(d)' /\ ReadShape(d)'
    BY <1>3, <2>1
  <2> QED BY <2>2, <2>3, <2>4
<1>4. CASE Fetch(c)
  <2>1. pc[c] = "fetch" /\ Edited(c) \in Repos
    BY <1>4 DEF Fetch
  <2>2. Fresh(Catalog[Edited(c)]) \in Files
    BY <2>1, CatalogAssumption DEF Fresh, Files, Indexes
  <2>3. files' \in [Repos -> Files] /\ seen' = [r \in Repos |-> seen'[r]]
    BY <1>4, <2>1, <2>2 DEF Fetch, NewSeen
  <2> QED BY <1>4, <2>1, <2>3 DEF Fetch
<1>5. CASE Write(c)
  <2>1. pc[c] = "write" /\ Edited(c) \in Repos /\ held[c] \in Entries
    BY <1>5 DEF Write
  <2>2. config' \in Entries /\ want' \in [Repos -> Urls \cup {None}]
    BY <1>5, <2>1, CatalogAssumption DEF Write, Entries
  <2> QED BY <1>5, <2>1, <2>2 DEF Write
<1>6. CASE WriteFails(c) \/ UnlinkFails(c)
  <2>1. Edited(c) \in Repos /\ Apart(c) \subseteq Repos
    BY <1>6 DEF WriteFails, UnlinkFails, Apart
  <2> QED BY <1>3, <1>6, <2>1 DEF WriteFails, UnlinkFails
<1>7. CASE Unlink(c)
  BY <1>7 DEF Unlink, NewSeen, Files
<1>8. CASE Drop(c)
  BY <1>8 DEF Drop, WithoutCopy
<1>9. CASE LoadFails(c) \/ FetchFails(c)
  BY <1>3, <1>9 DEF LoadFails, FetchFails
<1> QED BY <1>2, <1>4, <1>5, <1>6, <1>7, <1>8, <1>9 DEF Edit

LEMMA TypedRead ==
    ASSUME Typed, NEW c \in Calls, Read(c)
    PROVE  Typed'
<1> USE DEF Typed, TypeOK, FunctionsTyped, EditShape, ReadShape, EditSteps, ReadSteps,
            Goto, ReadEnds, ReadAside, userVars, diskVars, histVars, Requests, Adds
<1>1. ASSUME NEW r \in todo[c], NEW copy \in Copies, Found(c, r, copy), pc[c] \in {"scan", "store"},
             cache' \in [Repos -> Copies \cup {None}], req' = req, ReadAside
      PROVE  Typed'
  <2>1. /\ r \in Repos /\ req[c].kind \in {"charts", "chart"}
        /\ todo' = [todo EXCEPT ![c] = @ \ {r}]
        /\ answer' = answer
    BY <1>1 DEF Found
  <2>2. CASE req[c].kind = "chart"
    <3>1. got' = [got EXCEPT ![c] = copy] /\ pc' = [pc EXCEPT ![c] = "resolve"] /\ shown' = shown
      BY <1>1, <2>2 DEF Found
    <3> QED BY <1>1, <2>1, <2>2, <3>1
  <2>3. CASE req[c].kind = "charts"
    <3>1. /\ got' = [got EXCEPT ![c] = None] /\ pc' = [pc EXCEPT ![c] = "scan"]
          /\ shown' \in [Calls -> SUBSET Repos] /\ \A d \in Calls : d # c => shown'[d] = shown[d]
      BY <1>1, <2>1, <2>3 DEF Found
    <3> QED BY <1>1, <2>1, <2>3, <3>1
  <2> QED BY <2>1, <2>2, <2>3
<1>2. ASSUME NEW r \in Repos, Hit(c, r) PROVE Typed'
  BY <1>1, <1>2 DEF Hit
<1>3. ASSUME NEW r \in Repos, LoadIndex(c, r) PROVE Typed'
  BY <1>3, NullsApart DEF LoadIndex, Parses
<1>4. ASSUME NEW from \in ReadSteps, ReadEnds(c, from), cache' = cache,
             todo' \in [Calls -> SUBSET Repos], \A d \in Calls : d # c => todo'[d] = todo[d],
             shown' \in [Calls -> SUBSET Repos], \A d \in Calls : d # c => shown'[d] = shown[d],
             \/ answer' = answer /\ pc[c] # "reply"
             \/ answer' = [answer EXCEPT ![c] = None]
      PROVE  Typed'
  <2>1. pc[c] \in ReadSteps /\ pc' = [pc EXCEPT ![c] = "done"]
    BY <1>4
  <2>2. answer' = [d \in Calls |-> answer'[d]] /\ answer'[c] = None
        /\ \A d \in Calls : d # c => answer'[d] = answer[d]
    BY <1>4
  <2>3. TypeOK'
    BY <1>4, <2>1, <2>2
  <2>4. FunctionsTyped'
    BY <1>4, <2>2
  <2>5. \A d \in Calls : EditShape(d)' /\ ReadShape(d)'
    BY <1>4, <2>1, <2>2
  <2> QED BY <2>3, <2>4, <2>5
<1>5. ASSUME NEW r \in Repos, LoadIndexFails(c, r) PROVE Typed'
  <2>1. CASE req[c].kind = "chart"
    BY <1>5, <1>4, <2>1 DEF LoadIndexFails
  <2>2. CASE req[c].kind # "chart"
    BY <1>5, <2>2 DEF LoadIndexFails
  <2> QED BY <2>1, <2>2
<1>6. CASE Store(c)
  <2>1. got[c] \in Indexes /\ Readable(got[c]) /\ req[c].repo \in Repos
    BY <1>6, NullsApart DEF Store
  <2>2. PICK m \in VersionMaps(got[c]) :
            LET copy == [index |-> got[c], byVersion |-> m]
            IN  cache' = [cache EXCEPT ![req[c].repo] = copy] /\ Found(c, req[c].repo, copy)
    BY <1>6, <2>1 DEF Store
  <2>3. [index |-> got[c], byVersion |-> m] \in Copies
    BY <2>1, CopyMade
  <2> QED BY <1>1, <1>6, <2>1, <2>2, <2>3 DEF Store
<1>7. CASE ListDone(c)
  BY <1>7 DEF ListDone
<1>8. CASE Resolve(c)
  <2>1. PICK chart \in Charts, version \in Versions \cup {None} :
        \E e \in Picks(got[c], chart, version), base \in Bases(got[c].index, req[c].repo) :
           answer' = [answer EXCEPT ![c] =
             [chart |-> chart, version |-> version,
              pick |-> e, index |-> got[c].index, base |-> base]]
    BY <1>8 DEF Resolve
  <2>2. answer' = [d \in Calls |-> answer'[d]] /\ answer'[c].pick \in ChartVersions
    BY <1>8, <2>1, PickedIsThere DEF Resolve
  <2>3. \A d \in Calls : answer'[d] = None \/ answer'[d].pick \in ChartVersions
    BY <2>1, <2>2
  <2> QED BY <1>8, <2>1, <2>2, <2>3 DEF Resolve
<1>9. CASE ResolveFails(c) \/ Reply(c)
  BY <1>9, <1>4 DEF ResolveFails, Reply
<1> QED BY <1>3, <1>5, <1>6, <1>7, <1>8, <1>9, <1>2 DEF Read

LEMMA TypedWorld ==
    ASSUME Typed, World
    PROVE  Typed'
<1> USE DEF Typed, TypeOK, FunctionsTyped, EditShape, ReadShape, EditSteps, ReadSteps,
            userVars, diskVars, histVars, callVars, Requests, Edited, Adds
<1>1. EntriesOf(config) \in Entries
  BY NullsApart DEF EntriesOf, Readable, NoEntries, Entries
<1>2. ASSUME NEW r \in Repos, Expire(r) PROVE Typed'
  BY <1>2 DEF Expire
<1>3. CASE Relist
  BY <1>1, <1>3 DEF Relist
<1>4. ASSUME NEW url \in Urls, NEW offer \in Offers, Publish(url, offer) PROVE Typed'
  BY <1>4, BoundsAssumption DEF Publish
<1>5. ASSUME NEW r \in Repos, NEW url \in Urls \cup {None}, NEW file \in Files,
             CliWrites(r, url, file), astray' \subseteq Repos, foreign' \subseteq Repos
      PROVE  Typed'
  <2>1. config' \in Entries /\ files' \in [Repos -> Files] /\ want' \in [Repos -> Urls \cup {None}]
    BY <1>1, <1>5 DEF CliWrites, Entries
  <2>2. steps' \in [cli : 0 .. MaxCli, published : 0 .. MaxPublished, crashes : 0 .. MaxCrashes]
    BY <1>5, BoundsAssumption DEF CliWrites
  <2>3. known' \in [Calls -> SUBSET Repos] /\ raced' \in [Calls -> SUBSET Repos]
    BY <1>5 DEF CliWrites
  <2>4. UNCHANGED <<cache, pc, req, held, todo, got, shown, answer, remote, listed>>
    BY <1>5 DEF CliWrites
  <2>5. seen' = [q \in Repos |-> seen'[q]]
    BY <1>5 DEF CliWrites, NewSeen
  <2> QED BY <1>5, <2>1, <2>2, <2>3, <2>4, <2>5
<1>6. ASSUME NEW r \in Repos, CliUpdate(r) \/ CliRemove(r) PROVE Typed'
  <2>1. config[r] \in Urls /\ Fresh(config[r]) \in Files
    BY <1>6, <1>1 DEF CliUpdate, CliRemove, Configured, EntriesOf, Readable, NoEntries,
                      Fresh, Files, Indexes, Entries
  <2> QED BY <1>5, <1>6, <2>1 DEF CliUpdate, CliRemove, Files
<1>7. ASSUME NEW r \in Repos, NEW url \in Urls, CliAdd(r, url) PROVE Typed'
  <2>1. Fresh(url) \in Files
    BY DEF Fresh, Files, Indexes
  <2> QED BY <1>5, <1>7, <2>1 DEF CliAdd
<1>8. CASE Crash
  <2>1. \A c \in Calls : pc[c] \in EditSteps => Edited(c) \in Repos /\ Apart(c) \subseteq Repos
    BY DEF Apart
  <2>2. config' \in Entries \cup {Missing, Torn}
    BY <1>8 DEF Crash, NoEntries, Entries
  <2>3. files' \in [Repos -> Files]
    <3>1. files \in [Repos -> Files] /\ Torn \in Files
      BY DEF Files
    <3>2. files' = files \/ \E c \in Calls : files' = [files EXCEPT ![Edited(c)] = Torn]
      BY ONLY <1>8 DEF Crash
    <3> QED BY ONLY <3>1, <3>2
  <2>4. astray' \subseteq Repos
    BY <1>8, <2>1 DEF Crash
  <2>5. seen' = [r \in Repos |-> seen'[r]]
    BY <1>8 DEF Crash
  <2>6. steps' \in [cli : 0 .. MaxCli, published : 0 .. MaxPublished, crashes : 0 .. MaxCrashes]
    <3>1. steps.crashes < MaxCrashes /\ steps' = [steps EXCEPT !.crashes = @ + 1]
      BY <1>8 DEF Crash
    <3> QED BY <3>1, BoundsAssumption
  <2>7. /\ pc' \in [Calls -> {"idle", "done"}] /\ \A c \in Calls : pc'[c] = "idle" => pc[c] = "idle"
        /\ held' = [c \in Calls |-> None] /\ got' = [c \in Calls |-> None]
        /\ todo' = [c \in Calls |-> {}] /\ shown' = [c \in Calls |-> {}]
        /\ answer' = [c \in Calls |-> None] /\ req' = [c \in Calls |-> None]
        /\ known' = [c \in Calls |-> {}] /\ raced' = [c \in Calls |-> {}]
        /\ cache' = [r \in Repos |-> None]
        /\ UNCHANGED <<remote, listed, want, foreign>>
    BY <1>8 DEF Crash
  <2>8. TypeOK'
    BY <2>2, <2>3, <2>6, <2>7
  <2>9. FunctionsTyped'
    BY <2>4, <2>5, <2>7
  <2> QED BY <2>7, <2>8, <2>9
<1> QED BY <1>2, <1>3, <1>4, <1>6, <1>7, <1>8 DEF World

LEMMA TypedInvariant == ASSUME Typed, [Next]_vars PROVE Typed'
<1>1. CASE UNCHANGED vars
  BY <1>1 DEF vars, diskVars, callVars, userVars, histVars, Typed, TypeOK, FunctionsTyped,
              EditShape, ReadShape, Edited, Adds
<1> QED BY <1>1, TypedArrive, TypedEdit, TypedRead, TypedWorld DEF Next

(* What a repository's entry and file are, what an edit may still change,  *)
(* and what the calls hold are of their types.                             *)
THEOREM RepoTyped == Spec => []TypeOK
<1>1. Typed => TypeOK
  BY DEF Typed
<1> QED BY <1>1, TypedInitial, TypedInvariant, PTL DEF Spec

-----------------------------------------------------------------------------
(* What the four kinds of steps leave alone.                               *)

Same(d) ==
    /\ pc'[d] = pc[d] /\ req'[d] = req[d] /\ held'[d] = held[d] /\ raced'[d] = raced[d]
    /\ todo'[d] = todo[d] /\ got'[d] = got[d] /\ shown'[d] = shown[d]
    /\ answer'[d] = answer[d] /\ known'[d] = known[d]

LEMMA ArriveFrame ==
    ASSUME Typed, NEW c \in Calls, Arrive(c)
    PROVE  /\ pc[c] = "idle" /\ \A d \in Calls \ {c} : Same(d)
           /\ \/ pc'[c] = "load" /\ WriteLockFree
              \/ pc'[c] = "scan" /\ ReadLockFree
           /\ UNCHANGED <<diskVars, cache, want, seen, astray, foreign, answer, shown>>
<1> USE DEF Typed, TypeOK, FunctionsTyped, Same, Goto, Ask, histVars
<1>1. ASSUME NEW r \in Repos, AskAdd(c, r) \/ AskRemove(c, r) \/ AskChart(c, r)
      PROVE  /\ pc[c] = "idle" /\ \A d \in Calls \ {c} : Same(d)
             /\ \/ pc'[c] = "load" /\ WriteLockFree
                \/ pc'[c] = "scan" /\ ReadLockFree
             /\ UNCHANGED <<diskVars, cache, want, seen, astray, foreign, answer, shown>>
  BY <1>1 DEF AskAdd, AskRemove, AskChart
<1>2. CASE AskCharts(c)
  BY <1>2 DEF AskCharts
<1> QED BY <1>1, <1>2 DEF Arrive

LEMMA EditFrame ==
    ASSUME Typed, NEW c \in Calls, Edit(c)
    PROVE  /\ pc[c] \in EditSteps /\ pc'[c] \in EditSteps \cup {"done"}
           /\ \A d \in Calls \ {c} : Same(d)
           /\ UNCHANGED <<todo, got, shown, answer, known>>
<1> USE DEF Typed, TypeOK, FunctionsTyped, Same, Goto, EditEnds, EditAside, EditSteps
<1>1. CASE Load(c) \/ Fetch(c) \/ Write(c) \/ Unlink(c)
  BY <1>1 DEF Load, Fetch, Write, Unlink
<1>2. CASE LoadFails(c) \/ FetchFails(c) \/ WriteFails(c) \/ UnlinkFails(c) \/ Drop(c)
  BY <1>2 DEF LoadFails, FetchFails, WriteFails, UnlinkFails, Drop
<1> QED BY <1>1, <1>2 DEF Edit

LEMMA ReadFrame ==
    ASSUME Typed, NEW c \in Calls, Read(c)
    PROVE  /\ pc[c] \in ReadSteps /\ pc'[c] \in ReadSteps \cup {"done"}
           /\ \A d \in Calls \ {c} : Same(d)
           /\ UNCHANGED <<diskVars, held, want, seen, raced, astray, foreign>>
<1> USE DEF Typed, TypeOK, FunctionsTyped, Same, Goto, ReadEnds, ReadAside, ReadSteps, histVars
<1>1. ASSUME NEW r \in Repos, Hit(c, r) \/ LoadIndex(c, r)
      PROVE  /\ pc[c] \in ReadSteps /\ pc'[c] \in ReadSteps \cup {"done"}
             /\ \A d \in Calls \ {c} : Same(d)
             /\ UNCHANGED <<diskVars, held, want, seen, raced, astray, foreign>>
  BY <1>1 DEF Hit, LoadIndex, Found
<1>2. ASSUME NEW r \in Repos, LoadIndexFails(c, r)
      PROVE  /\ pc[c] \in ReadSteps /\ pc'[c] \in ReadSteps \cup {"done"}
             /\ \A d \in Calls \ {c} : Same(d)
             /\ UNCHANGED <<diskVars, held, want, seen, raced, astray, foreign>>
  BY <1>2 DEF LoadIndexFails
<1>3. CASE Store(c)
  <2>1. PICK copy : Found(c, req[c].repo, copy)
    BY <1>3 DEF Store
  <2> QED BY <1>3, <2>1 DEF Store, Found
<1>4. CASE ListDone(c) \/ Resolve(c)
  BY <1>4 DEF ListDone, Resolve
<1>5. CASE ResolveFails(c) \/ Reply(c)
  BY <1>5 DEF ResolveFails, Reply
<1> QED BY <1>1, <1>2, <1>3, <1>4, <1>5 DEF Read

(* The rest of the world: what touches neither files nor calls, a command  *)
(* of helm, and a kill.                                                    *)
Calm ==
    /\ UNCHANGED <<diskVars, callVars, histVars>>
    /\ \A r \in Repos : cache'[r] \in {cache[r], None}

Command(r, url, file) ==
    /\ CliWrites(r, url, file)
    /\ \/ url = None /\ file = Missing /\ r \in Configured
       \/ url \in Urls /\ file \in Indexes /\ file.url = url
    /\ \/ astray' = astray /\ foreign' = foreign /\ url = Entry(r) /\ url # None
       \/ astray' = astray \ {r} /\ foreign' = foreign \cup {r}

LEMMA WorldSteps ==
    ASSUME Typed, World
    PROVE  \/ Calm
           \/ \E r \in Repos, url \in Urls \cup {None}, file \in Files : Command(r, url, file)
           \/ Crash
<1> USE DEF Typed, TypeOK
<1>1. ASSUME NEW r \in Repos, Expire(r) PROVE Calm
  BY <1>1 DEF Expire, Calm
<1>2. ASSUME Relist \/ \E url \in Urls, offer \in Offers : Publish(url, offer) PROVE Calm
  BY <1>2 DEF Relist, Publish, Calm, histVars
<1>3. \A url \in Urls : Fresh(url) \in Indexes /\ Fresh(url) \in Files /\ Fresh(url).url = url
  BY DEF Fresh, Files, Indexes
<1>4. ASSUME NEW r \in Repos, NEW url \in Urls, CliAdd(r, url)
      PROVE  Command(r, url, Fresh(url))
  BY <1>3, <1>4 DEF CliAdd, Command
<1>5. ASSUME NEW r \in Configured
      PROVE  config[r] \in Urls /\ config[r] = Entry(r) /\ config[r] # None
  BY <1>5, NullsApart DEF Configured, Entry, EntriesOf, Readable, NoEntries, Entries
<1>6. ASSUME NEW r \in Repos, CliUpdate(r)
      PROVE  Command(r, config[r], Fresh(config[r])) /\ config[r] \in Urls
  BY <1>3, <1>5, <1>6 DEF CliUpdate, Command
<1>7. ASSUME NEW r \in Repos, CliRemove(r)
      PROVE  Command(r, None, Missing)
  BY <1>7 DEF CliRemove, Command
<1> QED BY <1>1, <1>2, <1>3, <1>4, <1>6, <1>7 DEF World, Files

LEMMA CommandEffect ==
    ASSUME Typed, NEW r \in Repos, NEW url \in Urls \cup {None}, NEW file \in Files,
           CliWrites(r, url, file)
    PROVE  /\ \A q \in Repos : /\ Entry(q)' = IF q = r THEN url ELSE Entry(q)
                               /\ files'[q] = IF q = r THEN file ELSE files[q]
                               /\ want'[q] = IF q = r THEN url ELSE want[q]
                               /\ seen'[q] = IF q = r THEN seen[q] \cup {file} ELSE seen[q]
           /\ UNCHANGED <<cache, callVars>>
           /\ \A c \in Calls :
                 /\ raced'[c] = IF pc[c] \in EditSteps \ {"load"} THEN raced[c] \cup {r} ELSE raced[c]
                 /\ known'[c] = IF pc[c] \in ReadSteps /\ url # None THEN known[c] \cup {r} ELSE known[c]
<1> USE DEF Typed, TypeOK, FunctionsTyped
<1>1. EntriesOf(config) \in Entries
  BY NullsApart DEF EntriesOf, Readable, NoEntries, Entries
<1>2. config' \in Entries /\ config' = [EntriesOf(config) EXCEPT ![r] = url]
  BY <1>1 DEF CliWrites, Entries
<1>3. EntriesOf(config') = config'
  BY <1>2, NullsApart DEF EntriesOf
<1>4. \A q \in Repos : Entry(q)' = IF q = r THEN url ELSE Entry(q)
  <2>1. \A q \in Repos : config'[q] = IF q = r THEN url ELSE EntriesOf(config)[q]
    BY <1>1, <1>2 DEF Entries
  <2> QED BY <1>3, <2>1 DEF Entry
<1>5. \A q \in Repos : /\ files'[q] = IF q = r THEN file ELSE files[q]
                       /\ want'[q] = IF q = r THEN url ELSE want[q]
  BY DEF CliWrites
<1>6. \A q \in Repos : seen'[q] = IF q = r THEN seen[q] \cup {file} ELSE seen[q]
  BY Zenon DEF CliWrites, NewSeen
<1>7. UNCHANGED <<cache, callVars>>
  BY DEF CliWrites
<1>8. \A c \in Calls :
         /\ raced'[c] = IF pc[c] \in EditSteps \ {"load"} THEN raced[c] \cup {r} ELSE raced[c]
         /\ known'[c] = IF pc[c] \in ReadSteps /\ url # None THEN known[c] \cup {r} ELSE known[c]
  BY DEF CliWrites
<1> QED BY <1>4, <1>5, <1>6, <1>7, <1>8

LEMMA CrashEffect ==
    ASSUME Typed, Crash
    PROVE  /\ \A c \in Calls : /\ pc'[c] \in {"idle", "done"} /\ answer'[c] = None
           /\ \A r \in Repos : /\ cache'[r] = None
                               /\ files'[r] \in {files[r], Torn}
                               /\ seen'[r] = seen[r] \cup {files'[r]}
           /\ UNCHANGED <<want, foreign>>
           /\ \/ astray' = Repos
              \/ /\ config' = config /\ astray \subseteq astray'
                 /\ \A c \in Calls : pc[c] = "unlink" \/ (pc[c] = "write" /\ Adds(c)) =>
                       Apart(c) \subseteq astray'
<1> USE DEF Typed, TypeOK, FunctionsTyped
<1>1. /\ \A c \in Calls : /\ pc'[c] \in {"idle", "done"} /\ answer'[c] = None
      /\ \A r \in Repos : cache'[r] = None /\ seen'[r] = seen[r] \cup {files'[r]}
      /\ UNCHANGED <<want, foreign>>
  BY DEF Crash, EditSteps, ReadSteps
<1>2. \A r \in Repos : files'[r] \in {files[r], Torn}
  BY DEF Crash
<1>3. \/ astray' = Repos
      \/ /\ config' = config /\ astray \subseteq astray'
         /\ \A c \in Calls : pc[c] = "unlink" \/ (pc[c] = "write" /\ Adds(c)) =>
               Apart(c) \subseteq astray'
  BY DEF Crash
<1> QED BY <1>1, <1>2, <1>3

-----------------------------------------------------------------------------
(* The lock: while one call edits, no other edits or reads.                *)

Exclusion ==
    \A c, d \in Calls : pc[c] \in EditSteps /\ c # d => pc[d] \notin EditSteps \cup ReadSteps

LEMMA ExclusionInitial == Init => Exclusion
BY DEF Init, Exclusion, EditSteps

LEMMA ExclusionInvariant == ASSUME Typed, Exclusion, [Next]_vars PROVE Exclusion'
<1> USE DEF Exclusion, EditSteps, ReadSteps
<1>1. CASE UNCHANGED vars
  BY <1>1 DEF vars, callVars
<1>2. ASSUME NEW c \in Calls, Arrive(c) PROVE Exclusion'
  BY <1>2, ArriveFrame DEF Same, WriteLockFree, ReadLockFree, Held
<1>3. ASSUME NEW c \in Calls, Edit(c) PROVE Exclusion'
  BY <1>3, EditFrame DEF Same
<1>4. ASSUME NEW c \in Calls, Read(c) PROVE Exclusion'
  BY <1>4, ReadFrame DEF Same
<1>5. CASE World
  <2>1. CASE Crash
    BY <2>1, CrashEffect
  <2>2. CASE ~Crash
    <3>1. pc' = pc
      BY <1>5, <2>2, WorldSteps DEF Calm, Command, CliWrites, callVars
    <3> QED BY <3>1
  <2> QED BY <2>1, <2>2
<1> QED BY <1>1, <1>2, <1>3, <1>4, <1>5 DEF Next

(* So an edit meets no reader and no other edit.                           *)
LEMMA Alone ==
    ASSUME Typed, Exclusion, NEW c \in Calls, Edit(c)
    PROVE  \A d \in Calls \ {c} : /\ pc[d] \in {"idle", "done"} /\ pc'[d] = pc[d]
BY EditFrame DEF Exclusion, Typed, TypeOK, Same, EditSteps, ReadSteps

(* And a reader meets no edit.                                             *)
LEMMA NoEdit ==
    ASSUME Typed, Exclusion, NEW c \in Calls, Read(c)
    PROVE  \A d \in Calls : pc[d] \notin EditSteps /\ pc'[d] \notin EditSteps
BY ReadFrame DEF Exclusion, Typed, TypeOK, Same, EditSteps, ReadSteps

-----------------------------------------------------------------------------
(* Copies are of index files seen since the last edit.                     *)

SeenInv ==
    /\ \A r \in Repos : files[r] \in seen[r]
    /\ CachedSinceEdit
    /\ \A c \in Calls : pc[c] = "store" => got[c] \in seen[req[c].repo]

LEMMA SeenInitial == Init => SeenInv
BY DEF Init, SeenInv, CachedSinceEdit

LEMMA SeenEdit ==
    ASSUME Typed, Exclusion, SeenInv, NEW c \in Calls, Edit(c)
    PROVE  SeenInv'
<1> USE DEF SeenInv, CachedSinceEdit, Typed, TypeOK, FunctionsTyped, EditSteps, ReadSteps
<1>1. Edited(c) \in Repos
  BY EditFrame DEF EditShape, Edited
<1>2. \A d \in Calls : pc'[d] # "store"
  BY EditFrame, Alone
<1>3. CASE UNCHANGED <<files, cache, seen>>
  BY <1>2, <1>3
<1>4. CASE Fetch(c) \/ Unlink(c)
  <2>1. PICK file : files' = [files EXCEPT ![Edited(c)] = file] /\ seen' = NewSeen(Edited(c), file)
    BY <1>4 DEF Fetch, Unlink
  <2>2. \A r \in Repos : seen'[r] = IF r = Edited(c) THEN seen[r] \cup {file} ELSE seen[r]
    BY <1>1, <2>1, Zenon DEF NewSeen
  <2>3. cache' = cache
    BY <1>4 DEF Fetch, Unlink
  <2> QED BY <1>1, <1>2, <2>1, <2>2, <2>3
<1>5. CASE Drop(c)
  <2>1. files' = files /\ cache' = [cache EXCEPT ![Edited(c)] = None]
    BY <1>5 DEF Drop, WithoutCopy, diskVars
  <2>2. \A r \in Repos : seen'[r] = IF r = Edited(c) THEN {files[r]} ELSE seen[r]
    BY <1>1, <1>5, Zenon DEF Drop
  <2> QED BY <1>1, <1>2, <2>1, <2>2
<1> QED BY <1>3, <1>4, <1>5
        DEF Edit, Load, LoadFails, FetchFails, Write, WriteFails, UnlinkFails, diskVars

LEMMA SeenRead ==
    ASSUME Typed, SeenInv, NEW c \in Calls, Read(c)
    PROVE  SeenInv'
<1> USE DEF SeenInv, CachedSinceEdit, Typed, TypeOK, FunctionsTyped
<1>1. UNCHANGED <<files, seen>> /\ \A d \in Calls \ {c} : Same(d)
  BY ReadFrame DEF diskVars
<1>2. CASE cache' = cache /\ pc'[c] # "store"
  BY <1>1, <1>2 DEF Same
<1>3. ASSUME NEW r \in Repos, LoadIndex(c, r) PROVE SeenInv'
  <2>1. got'[c] = files[r] /\ cache' = cache
    BY <1>3 DEF LoadIndex
  <2>2. req'[c].repo = r
    <3>1. req[c] \in Requests
      BY <1>3 DEF LoadIndex, ReadShape, ReadSteps, Requests
    <3> QED BY <1>3, <3>1 DEF LoadIndex, Requests
  <2> QED BY <1>1, <2>1, <2>2 DEF Same
<1>4. CASE Store(c)
  <2>1. /\ pc[c] = "store" /\ got[c] \in Indexes /\ Readable(got[c])
        /\ req[c].repo \in Repos
    BY <1>4, NullsApart DEF Store, ReadShape
  <2>2. PICK m \in VersionMaps(got[c]) :
            LET copy == [index |-> got[c], byVersion |-> m]
            IN  cache' = [cache EXCEPT ![req[c].repo] = copy] /\ Found(c, req[c].repo, copy)
    BY <1>4, <2>1 DEF Store
  <2>3. pc'[c] # "store"
    BY <2>2 DEF Found
  <2> QED BY <1>1, <2>1, <2>2, <2>3 DEF Same
<1>5. ASSUME NEW r \in Repos, Hit(c, r) \/ LoadIndexFails(c, r)
      PROVE  cache' = cache /\ pc'[c] # "store"
  BY <1>5 DEF Hit, LoadIndexFails, Found, ReadEnds, Goto
<1>6. ASSUME ListDone(c) \/ Resolve(c) \/ ResolveFails(c) \/ Reply(c)
      PROVE  cache' = cache /\ pc'[c] # "store"
  BY <1>6 DEF ListDone, Resolve, ResolveFails, Reply, ReadEnds, Goto
<1> QED BY <1>2, <1>3, <1>4, <1>5, <1>6 DEF Read

LEMMA SeenInvariant == ASSUME Typed, Exclusion, SeenInv, [Next]_vars PROVE SeenInv'
<1> USE DEF SeenInv, CachedSinceEdit
<1>1. CASE UNCHANGED vars
  BY <1>1 DEF vars, diskVars, callVars, histVars
<1>2. ASSUME NEW c \in Calls, Arrive(c) PROVE SeenInv'
  BY <1>2, ArriveFrame DEF Same, diskVars
<1>3. CASE World
  <2>1. CASE Crash
    BY <2>1, CrashEffect
  <2>2. CASE Calm
    BY <2>2 DEF Calm, diskVars, callVars, histVars
  <2>3. ASSUME NEW r \in Repos, NEW url \in Urls \cup {None}, NEW file \in Files, Command(r, url, file)
        PROVE  SeenInv'
    <3>1. CliWrites(r, url, file)
      BY <2>3 DEF Command
    <3>2. \A q \in Repos : seen[q] \subseteq seen'[q] /\ files'[q] \in seen'[q]
      <4>1. \A q \in Repos : /\ files'[q] = IF q = r THEN file ELSE files[q]
                             /\ seen'[q] = IF q = r THEN seen[q] \cup {file} ELSE seen[q]
        BY <3>1, CommandEffect
      <4> QED BY <4>1
    <3>3. UNCHANGED <<cache, pc, got, req>>
      BY <3>1, CommandEffect DEF callVars
    <3>4. \A c \in Calls : pc[c] = "store" => req[c].repo \in Repos
      BY DEF Typed, TypeOK, ReadShape
    <3> QED BY <3>2, <3>3, <3>4
  <2> QED BY <1>3, <2>1, <2>2, <2>3, WorldSteps
<1> QED BY <1>1, <1>2, <1>3, SeenEdit, SeenRead DEF Next

(* An answer is never older than the last edit of its repository.          *)
THEOREM CachedSinceEditThm == Spec => []CachedSinceEdit
<1> DEFINE IInv == Typed /\ Exclusion /\ SeenInv
<1>1. Init => IInv
  BY TypedInitial, ExclusionInitial, SeenInitial
<1>2. IInv /\ [Next]_vars => IInv'
  BY TypedInvariant, ExclusionInvariant, SeenInvariant
<1>3. IInv => CachedSinceEdit
  BY DEF SeenInv
<1> QED BY <1>1, <1>2, <1>3, PTL DEF Spec

-----------------------------------------------------------------------------
(* Edits last: an edit writes a copy, which is that of the last edits but  *)
(* for what the command line touched since it was read.                    *)

ConfigInv ==
    /\ EditsStick
    /\ \A c \in Calls : pc[c] \in {"fetch", "write"} =>
          \A r \in Repos \ (astray \cup raced[c]) : held[c][r] = want[r]
    /\ \A c \in Calls : pc[c] \in {"unlink", "drop"} => Entry(Edited(c)) = want[Edited(c)]

LEMMA ConfigInitial == Init => ConfigInv
<1> SUFFICES ASSUME Init PROVE ConfigInv
  OBVIOUS
<1>1. \A r \in Repos : Entry(r) = want[r]
  <2>1. config \in Entries \cup {Missing}
    BY CatalogAssumption DEF Init
  <2>2. want = IF config = Missing THEN NoEntries ELSE config
    BY DEF Init
  <2> QED BY <2>1, <2>2, NullsApart DEF Entry, EntriesOf, Readable
<1>2. \A c \in Calls : pc[c] = "idle"
  BY DEF Init
<1> QED BY <1>1, <1>2 DEF ConfigInv, EditsStick, Entry

LEMMA WriteEffect ==
    ASSUME Typed, NEW c \in Calls, Write(c)
    PROVE  LET new == IF Adds(c) THEN Catalog[Edited(c)] ELSE None IN
           /\ Edited(c) \in Repos /\ req' = req /\ raced' = raced
           /\ \A r \in Repos : /\ Entry(r)' = IF r = Edited(c) THEN new ELSE held[c][r]
                               /\ want'[r] = IF r = Edited(c) THEN new ELSE want[r]
           /\ astray' = astray \cup raced[c] /\ foreign' = foreign
           /\ files' = files /\ cache' = cache
           /\ pc'[c] = IF Adds(c) THEN "drop" ELSE "unlink"
<1> DEFINE new == IF Adds(c) THEN Catalog[Edited(c)] ELSE None
<1>1. pc[c] = "write" /\ Edited(c) \in Repos /\ held[c] \in Entries
  BY DEF Write, Goto, Typed, EditShape, EditSteps, Edited
<1>2. new \in Urls \cup {None}
  BY <1>1, CatalogAssumption
<1>3. config' = [held[c] EXCEPT ![Edited(c)] = new] /\ want' = [want EXCEPT ![Edited(c)] = new]
  BY DEF Write
<1>4. config' \in Entries /\ EntriesOf(config)' = config'
  BY <1>1, <1>2, <1>3, NullsApart DEF Entries, EntriesOf
<1>5. \A r \in Repos : Entry(r)' = IF r = Edited(c) THEN new ELSE held[c][r]
  BY <1>1, <1>3, <1>4 DEF Entries, Entry
<1>6. \A r \in Repos : want'[r] = IF r = Edited(c) THEN new ELSE want[r]
  BY <1>3 DEF Typed, FunctionsTyped
<1> QED BY <1>1, <1>5, <1>6 DEF Write, Goto, Typed, TypeOK

LEMMA ConfigEdit ==
    ASSUME Typed, Exclusion, ConfigInv, NEW c \in Calls, Edit(c)
    PROVE  ConfigInv'
<1> USE DEF ConfigInv, EditsStick
<1>1. \A d \in Calls \ {c} : pc'[d] \in {"idle", "done"}
  BY Alone
<1>2. CASE Load(c)
  <2>1. /\ UNCHANGED <<config, want, astray, req>>
        /\ held'[c] = EntriesOf(config)
        /\ pc'[c] \in {"fetch", "write"}
    BY <1>2 DEF Load, diskVars, Goto, Typed, TypeOK
  <2> QED BY <1>1, <2>1 DEF Entry
<1>3. CASE LoadFails(c) \/ FetchFails(c) \/ WriteFails(c) \/ UnlinkFails(c)
  <2>1. UNCHANGED <<config, want>> /\ pc'[c] = "done" /\ astray \subseteq astray'
    BY <1>3 DEF LoadFails, FetchFails, WriteFails, UnlinkFails, EditEnds, Goto, diskVars,
                Typed, TypeOK
  <2> QED BY <1>1, <2>1
<1>4. CASE Fetch(c)
  <2>1. UNCHANGED <<config, want, astray, req, held, raced>> /\ pc'[c] = "write" /\ pc[c] = "fetch"
    BY <1>4 DEF Fetch, Goto, Typed, TypeOK
  <2> QED BY <1>1, <2>1
<1>5. CASE Unlink(c)
  <2>1. UNCHANGED <<config, want, astray, req>> /\ pc'[c] = "drop" /\ pc[c] = "unlink"
    BY <1>5 DEF Unlink, Goto, Typed, TypeOK
  <2> QED BY <1>1, <2>1 DEF Entry, Edited
<1>6. CASE Write(c)
  <2>1. pc'[c] \in {"unlink", "drop"} /\ pc[c] = "write" /\ req' = req /\ Edited(c) \in Repos
    BY <1>6, WriteEffect DEF Write, Goto
  <2>2. Entry(Edited(c))' = want'[Edited(c)]
    BY <1>6, <2>1, WriteEffect DEF Edited
  <2>3. \A r \in Repos \ (astray \cup raced[c]) : Entry(r)' = want'[r]
    BY <1>6, <2>1, WriteEffect
  <2>4. astray' = astray \cup raced[c]
    BY <1>6, WriteEffect
  <2> QED BY <1>1, <2>1, <2>2, <2>3, <2>4 DEF Entry, Edited
<1>7. CASE Drop(c)
  <2>1. UNCHANGED <<config, want>> /\ pc'[c] = "done" /\ pc[c] = "drop" /\ astray \ {Edited(c)} \subseteq astray'
    BY <1>7 DEF Drop, EditEnds, Goto, diskVars, Typed, TypeOK
  <2>2. Entry(Edited(c)) = want[Edited(c)]
    BY <2>1
  <2> QED BY <1>1, <2>1, <2>2 DEF Entry
<1> QED BY <1>2, <1>3, <1>4, <1>5, <1>6, <1>7 DEF Edit

LEMMA ConfigInvariant == ASSUME Typed, Exclusion, ConfigInv, [Next]_vars PROVE ConfigInv'
<1> USE DEF ConfigInv, EditsStick
<1>1. CASE UNCHANGED vars
  BY <1>1 DEF vars, diskVars, callVars, histVars, Entry, Edited
<1>2. ASSUME NEW c \in Calls, Arrive(c) PROVE ConfigInv'
  BY <1>2, ArriveFrame DEF Same, diskVars, Entry, Edited
<1>3. ASSUME NEW c \in Calls, Read(c) PROVE ConfigInv'
  <2>1. \A d \in Calls : pc'[d] \notin EditSteps
    BY <1>3, NoEdit
  <2> QED BY <1>3, <2>1, ReadFrame DEF diskVars, EditSteps, Entry
<1>4. CASE World
  <2>1. CASE Crash
    <3>1. \A c \in Calls : pc'[c] \in {"idle", "done"}
      BY <2>1, CrashEffect
    <3>2. want' = want /\ (astray' = Repos \/ (config' = config /\ astray \subseteq astray'))
      BY <2>1, CrashEffect
    <3> QED BY <3>1, <3>2
  <2>2. CASE Calm
    BY <2>2 DEF Calm, diskVars, callVars, histVars, Entry, Edited
  <2>3. ASSUME NEW r \in Repos, NEW url \in Urls \cup {None}, NEW file \in Files, Command(r, url, file)
        PROVE  ConfigInv'
    <3>1. CliWrites(r, url, file)
      BY <2>3 DEF Command
    <3>2. /\ \A q \in Repos : Entry(q)' = IF q = r THEN url ELSE Entry(q)
          /\ \A q \in Repos : want'[q] = IF q = r THEN url ELSE want[q]
          /\ UNCHANGED <<pc, req, held>>
      <4>1. /\ \A q \in Repos : Entry(q)' = IF q = r THEN url ELSE Entry(q)
            /\ \A q \in Repos : want'[q] = IF q = r THEN url ELSE want[q]
        BY ONLY Typed, <3>1, CommandEffect
      <4>2. UNCHANGED callVars
        BY ONLY Typed, <3>1, CommandEffect
      <4> QED BY <4>1, <4>2 DEF callVars
    <3>3. \A c \in Calls : pc[c] \in {"fetch", "write"} => raced'[c] = raced[c] \cup {r}
      BY <3>1, CommandEffect DEF EditSteps
    <3>4. astray \ {r} \subseteq astray'
      BY <2>3 DEF Command
    <3>5. EditsStick'
      BY <3>2, <3>4 DEF Entry
    <3>6. \A c \in Calls : pc[c] \in EditSteps => Edited(c) \in Repos
      BY DEF Typed, EditShape, Edited
    <3> QED BY <3>2, <3>3, <3>4, <3>5, <3>6 DEF Edited, EditSteps
  <2> QED BY <1>4, <2>1, <2>2, <2>3, WorldSteps
<1> QED BY <1>1, <1>2, <1>3, <1>4, ConfigEdit DEF Next

-----------------------------------------------------------------------------
(* Entry and index file belong together, except while an edit is between   *)
(* the two, and where one was cut short there.                             *)

Agrees(r) == Readable(files[r]) => Entry(r) = files[r].url
Midway(c) == pc[c] = "unlink" \/ (pc[c] = "write" /\ Adds(c))

FilesInv ==
    /\ \A r \in Repos \ astray : Agrees(r) \/ \E c \in Calls : Midway(c) /\ Edited(c) = r
    /\ \A c \in Calls : pc[c] = "write" /\ Adds(c) /\ Edited(c) \notin raced[c] =>
          Readable(files[Edited(c)]) /\ files[Edited(c)].url = Catalog[Edited(c)]
    /\ \A c \in Calls : pc[c] = "drop" /\ Edited(c) \notin raced[c] => Agrees(Edited(c))

LEMMA FilesInitial == Init => FilesInv
<1> SUFFICES ASSUME Init PROVE FilesInv
  OBVIOUS
<1> DEFINE entries == IF config = Missing THEN NoEntries ELSE config
<1>1. ASSUME NEW r \in Repos PROVE Agrees(r)
  <2>1. config \in Entries \cup {Missing}
    BY CatalogAssumption DEF Init
  <2>2. Entry(r) = entries[r]
    BY <2>1, NullsApart DEF Entry, EntriesOf, Readable
  <2>3. files[r] = IF entries[r] = None THEN Missing
                   ELSE [url |-> entries[r], offer |-> remote[entries[r]]]
    BY DEF Init
  <2> QED BY <2>2, <2>3 DEF Agrees, Readable
<1>2. \A c \in Calls : pc[c] = "idle"
  BY DEF Init
<1> QED BY <1>1, <1>2 DEF FilesInv

LEMMA FilesEdit ==
    ASSUME Typed, Exclusion, ConfigInv, FilesInv, NEW c \in Calls, Edit(c)
    PROVE  FilesInv'
<1> DEFINE e == Edited(c)
<1>1. /\ \A d \in Calls \ {c} : pc[d] \in {"idle", "done"} /\ pc'[d] \in {"idle", "done"}
      /\ pc \in [Calls -> EditSteps \cup ReadSteps \cup {"idle", "done"}]
  BY Alone DEF Typed, TypeOK
<1>2. e \in Repos
  BY EditFrame DEF Typed, EditShape, Edited
<1>3. \A r \in Repos \ astray : Agrees(r) \/ (Midway(c) /\ r = e)
  BY <1>1 DEF FilesInv, Midway
<1>4. SUFFICES /\ \A r \in Repos \ astray' : Agrees(r)' \/ (Midway(c) /\ Edited(c) = r)'
               /\ (pc[c] = "write" /\ Adds(c) /\ Edited(c) \notin raced[c])' =>
                     Readable(files[Edited(c)])' /\ (files[Edited(c)].url = Catalog[Edited(c)])'
               /\ (pc[c] = "drop" /\ Edited(c) \notin raced[c])' => Agrees(Edited(c))'
  <2>1. \A d \in Calls \ {c} : pc'[d] # "write" /\ pc'[d] # "drop"
    BY <1>1
  <2> QED BY <2>1 DEF FilesInv
<1>5. CASE Load(c)
  <2>1. /\ pc[c] = "load" /\ pc'[c] = IF Adds(c) THEN "fetch" ELSE "write"
        /\ UNCHANGED <<config, files, req, raced, astray>>
    BY <1>1, <1>5 DEF Load, Goto, diskVars
  <2> QED BY <1>3, <2>1 DEF Midway, Agrees, Entry, Adds
<1>6. CASE LoadFails(c) \/ FetchFails(c)
  <2>1. pc[c] \in {"load", "fetch"} /\ pc'[c] = "done" /\ UNCHANGED <<config, files, astray>>
    BY <1>1, <1>6 DEF LoadFails, FetchFails, EditEnds, Goto, diskVars
  <2> QED BY <1>3, <2>1 DEF Midway, Agrees, Entry
<1>7. CASE Fetch(c)
  <2>1. /\ pc[c] = "fetch" /\ pc'[c] = "write" /\ Adds(c)
        /\ UNCHANGED <<config, req, raced, astray>>
        /\ files' = [files EXCEPT ![e] = Fresh(Catalog[e])]
    BY <1>1, <1>7 DEF Fetch, Goto, Typed, EditShape
  <2>2. Readable(Fresh(Catalog[e])) /\ Fresh(Catalog[e]).url = Catalog[e]
    <3>1. Fresh(Catalog[e]) \in Indexes
      BY <1>2, CatalogAssumption DEF Fresh, Indexes, Typed, TypeOK
    <3> QED BY <3>1, NullsApart DEF Fresh
  <2>3. files'[e] = Fresh(Catalog[e]) /\ \A r \in Repos \ {e} : files'[r] = files[r]
    BY <1>2, <2>1 DEF Typed, TypeOK
  <2> QED BY <1>3, <2>1, <2>2, <2>3 DEF Midway, Agrees, Entry, Edited, Adds
<1>8. CASE Write(c)
  <2> DEFINE new == IF Adds(c) THEN Catalog[e] ELSE None
  <2>1. /\ pc[c] = "write" /\ pc'[c] = IF Adds(c) THEN "drop" ELSE "unlink"
        /\ UNCHANGED <<files, req, raced>> /\ astray' = astray \cup raced[c]
        /\ \A r \in Repos : Entry(r)' = IF r = e THEN new ELSE held[c][r]
    BY <1>8, WriteEffect DEF Write, Goto
  <2>2. \A r \in Repos \ (astray \cup raced[c]) : r # e => Entry(r)' = Entry(r)
    BY <2>1 DEF ConfigInv, EditsStick, Entry
  <2>3. Adds(c) /\ e \notin raced[c] => Agrees(e)'
    BY <1>2, <2>1 DEF Agrees, FilesInv, Edited
  <2>4. \A r \in Repos \ (astray \cup raced[c]) : r # e => Agrees(r)'
    BY <1>3, <2>1, <2>2 DEF Agrees
  <2> QED BY <1>2, <2>1, <2>3, <2>4 DEF Midway, Edited, Adds
<1>9. CASE WriteFails(c) \/ UnlinkFails(c)
  <2>1. /\ pc[c] \in {"write", "unlink"} /\ pc'[c] = "done" /\ UNCHANGED <<config, files>>
        /\ astray \subseteq astray'
        /\ Midway(c) => Apart(c) \subseteq astray'
    BY <1>1, <1>9 DEF WriteFails, UnlinkFails, EditEnds, Goto, diskVars, Midway
  <2>2. Midway(c) /\ e \notin astray' => Agrees(e)
    <3> SUFFICES ASSUME Midway(c), e \notin astray' PROVE Agrees(e)
      OBVIOUS
    <3>1. Apart(c) \subseteq astray' /\ e \notin Apart(c) /\ e \notin astray
      BY <2>1
    <3>2. pc[c] = "write" /\ Adds(c) /\ held[c][e] = Catalog[e] /\ e \notin raced[c] /\ e \notin astray
      BY <3>1 DEF Apart, Midway, Typed, EditShape
    <3>3. Entry(e) = Catalog[e]
      BY <1>2, <3>2 DEF ConfigInv, EditsStick, Entry
    <3> QED BY <3>2, <3>3 DEF FilesInv, Agrees
  <2> QED BY <1>3, <2>1, <2>2 DEF Agrees, Entry, Midway
<1>10. CASE Unlink(c)
  <2>1. /\ pc[c] = "unlink" /\ pc'[c] = "drop" /\ UNCHANGED <<config, req, raced, astray>>
        /\ files' = [files EXCEPT ![e] = Missing]
    BY <1>1, <1>10 DEF Unlink, Goto
  <2>2. files'[e] = Missing /\ \A r \in Repos \ {e} : files'[r] = files[r]
    BY <1>2, <2>1 DEF Typed, TypeOK
  <2> QED BY <1>3, <2>1, <2>2 DEF Agrees, Entry, Edited, Readable
<1>11. CASE Drop(c)
  <2>1. /\ pc[c] = "drop" /\ pc'[c] = "done" /\ UNCHANGED <<config, files>>
        /\ astray' = astray \ (IF e \in raced[c] THEN {} ELSE {e})
    BY <1>1, <1>11 DEF Drop, EditEnds, Goto, diskVars
  <2>2. e \notin raced[c] => Agrees(e)
    BY <2>1 DEF FilesInv
  <2> QED BY <1>3, <2>1, <2>2 DEF Agrees, Entry, Midway
<1> QED BY <1>5, <1>6, <1>7, <1>8, <1>9, <1>10, <1>11 DEF Edit

LEMMA FilesInvariant ==
    ASSUME Typed, Exclusion, ConfigInv, FilesInv, [Next]_vars
    PROVE  FilesInv'
<1>1. CASE UNCHANGED vars
  BY <1>1 DEF vars, diskVars, callVars, histVars, FilesInv, Agrees, Entry, Midway, Edited, Adds
<1>2. ASSUME NEW c \in Calls, Arrive(c) PROVE FilesInv'
  <2>1. /\ pc[c] = "idle" /\ pc'[c] \in {"load", "scan"} /\ \A d \in Calls \ {c} : Same(d)
        /\ UNCHANGED <<config, files, astray>>
    BY <1>2, ArriveFrame DEF diskVars
  <2> QED BY <2>1 DEF FilesInv, Agrees, Entry, Midway, Edited, Adds, Same
<1>3. ASSUME NEW c \in Calls, Read(c) PROVE FilesInv'
  <2>1. \A d \in Calls : pc[d] \notin EditSteps /\ pc'[d] \notin EditSteps
    BY <1>3, NoEdit
  <2>2. UNCHANGED <<config, files, astray>>
    BY <1>3, ReadFrame DEF diskVars
  <2> QED BY <2>1, <2>2 DEF FilesInv, Agrees, Entry, Midway, EditSteps
<1>4. CASE Crash
  <2>1. \A c \in Calls : pc'[c] \in {"idle", "done"}
    BY <1>4, CrashEffect
  <2>2. \A r \in Repos : files'[r] \in {files[r], Torn}
    BY <1>4, CrashEffect
  <2>3. CASE config' = config /\ astray \subseteq astray' /\ \A c \in Calls : Midway(c) => Apart(c) \subseteq astray'
    <3>1. ASSUME NEW r \in Repos \ astray' PROVE Agrees(r)
      <4>1. CASE \E c \in Calls : Midway(c) /\ Edited(c) = r
        <5>1. PICK c \in Calls : Midway(c) /\ Edited(c) = r
          BY <4>1
        <5>2. pc[c] = "write" /\ Adds(c) /\ held[c][r] = Catalog[r] /\ r \notin raced[c] /\ r \notin astray
          BY <2>3, <3>1, <5>1 DEF Apart, Midway, Typed, EditShape
        <5>3. Entry(r) = Catalog[r]
          BY <5>2 DEF ConfigInv, EditsStick, Entry
        <5> QED BY <5>1, <5>2, <5>3 DEF FilesInv, Agrees
      <4>2. CASE ~ \E c \in Calls : Midway(c) /\ Edited(c) = r
        BY <2>3, <4>2 DEF FilesInv
      <4> QED BY <4>1, <4>2
    <3>2. \A r \in Repos \ astray' : Agrees(r)'
      BY <2>2, <2>3, <3>1 DEF Agrees, Entry, Readable
    <3> QED BY <2>1, <3>2 DEF FilesInv
  <2>4. CASE astray' = Repos
    BY <2>1, <2>4 DEF FilesInv
  <2> QED BY <1>4, <2>3, <2>4, CrashEffect DEF Midway
<1>5. CASE Calm
  BY <1>5 DEF Calm, diskVars, callVars, histVars, FilesInv, Agrees, Entry, Midway, Edited, Adds
<1>6. ASSUME NEW r \in Repos, NEW url \in Urls \cup {None}, NEW file \in Files, Command(r, url, file)
      PROVE  FilesInv'
  <2>1. CliWrites(r, url, file) /\ astray \ {r} \subseteq astray'
    BY <1>6 DEF Command
  <2>2. /\ \A q \in Repos : Entry(q)' = IF q = r THEN url ELSE Entry(q)
        /\ \A q \in Repos : files'[q] = IF q = r THEN file ELSE files[q]
        /\ UNCHANGED <<pc, req>>
    BY <2>1, CommandEffect DEF callVars
  <2>3. \A c \in Calls : pc[c] \in {"write", "drop"} => raced'[c] = raced[c] \cup {r}
    BY <2>1, CommandEffect DEF EditSteps
  <2>4. Agrees(r)'
    BY <1>6, <2>2 DEF Command, Agrees, Readable
  <2>5. \A q \in Repos \ {r} : Agrees(q) => Agrees(q)'
    BY <2>2 DEF Agrees
  <2>6. \A c \in Calls : pc[c] \in EditSteps => Edited(c) \in Repos
    BY DEF Typed, EditShape, Edited
  <2>7. /\ \A q \in Repos \ astray' :
              Agrees(q)' \/ \E c \in Calls : Midway(c)' /\ Edited(c)' = q
        /\ \A c \in Calls : pc[c] = "write" /\ Adds(c) /\ Edited(c) \notin raced'[c] =>
              Readable(files'[Edited(c)]) /\ files'[Edited(c)].url = Catalog[Edited(c)]
        /\ \A c \in Calls : pc[c] = "drop" /\ Edited(c) \notin raced'[c] => Agrees(Edited(c))'
    <3>1. ASSUME NEW q \in Repos \ astray'
          PROVE  Agrees(q)' \/ \E c \in Calls : Midway(c)' /\ Edited(c)' = q
      BY <2>1, <2>2, <2>4, <2>5 DEF FilesInv, Midway, Edited, Adds
    <3>2. ASSUME NEW c \in Calls, pc[c] = "write", Adds(c), Edited(c) \notin raced'[c]
          PROVE  Readable(files'[Edited(c)]) /\ files'[Edited(c)].url = Catalog[Edited(c)]
      BY <2>2, <2>3, <2>6, <3>2 DEF FilesInv, EditSteps
    <3>3. ASSUME NEW c \in Calls, pc[c] = "drop", Edited(c) \notin raced'[c]
          PROVE  Agrees(Edited(c))'
      <4>1. Edited(c) \in Repos \ {r} /\ Agrees(Edited(c)) /\ Edited(c)' = Edited(c)
        BY <2>2, <2>3, <2>6, <3>3 DEF FilesInv, EditSteps, Edited
      <4> QED BY <2>2, <4>1 DEF Agrees, Entry
    <3> QED BY <3>1, <3>2, <3>3
  <2> QED BY <2>2, <2>7 DEF FilesInv, Edited, Adds
<1> QED BY <1>1, <1>2, <1>3, <1>4, <1>5, <1>6, FilesEdit, WorldSteps DEF Next

-----------------------------------------------------------------------------
(* A listing shows what is configured: what is in the cache directory when *)
(* it starts is, or was left there by an edit that was cut short.          *)

Lists(c) == pc[c] \in ReadSteps /\ req[c].kind = "charts"

TornUnread == \A r \in Repos : files[r] = Torn =>
    cache[r] = None /\ \A c \in Calls : pc[c] = "store" => req[c].repo # r

ListsKnown == \A c \in Calls : Lists(c) =>
    /\ Configured \subseteq known[c]
    /\ shown[c] \subseteq known[c] \cup astray
    /\ \A r \in todo[c] : r \in known[c] \cup astray \/ files[r] = Torn

ListInv == TornUnread /\ ListsKnown

LEMMA ListInitial == Init => ListInv
BY DEF Init, ListInv, TornUnread, ListsKnown, Lists, ReadSteps

LEMMA ListArrive ==
    ASSUME Typed, FilesInv, ListInv, NEW c \in Calls, Arrive(c)
    PROVE  ListInv'
<1>1. /\ pc[c] = "idle" /\ pc'[c] \in {"load", "scan"}
      /\ \A d \in Calls \ {c} : Same(d)
      /\ UNCHANGED <<config, files, cache, astray, shown>>
  BY ArriveFrame DEF diskVars
<1>2. TornUnread'
  BY <1>1 DEF ListInv, TornUnread, Same
<1>3. Configured' = Configured
  BY <1>1 DEF Configured
<1>4. \A d \in Calls \ {c} : Lists(d)' = Lists(d)
  BY <1>1 DEF Lists, Same
<1>5. CASE AskCharts(c)
  <2>1. /\ todo'[c] = {r \in Repos : files[r] # Missing} /\ known'[c] = Configured
        /\ shown[c] = {} /\ ReadLockFree
    BY <1>1, <1>5 DEF AskCharts, Typed, TypeOK, FunctionsTyped, ReadShape
  <2>2. \A d \in Calls : ~Midway(d)
    BY <2>1 DEF ReadLockFree, Held, Midway, EditSteps
  <2>3. ASSUME NEW r \in Repos, files[r] # Missing, files[r] # Torn, r \notin astray
        PROVE  r \in Configured
    <3>1. Readable(files[r]) /\ files[r] \in Indexes
      BY <2>3, NullsApart DEF Readable, Typed, TypeOK
    <3>2. Entry(r) \in Urls
      BY <2>2, <2>3, <3>1 DEF FilesInv, Agrees, Indexes
    <3> QED BY <3>2, NullsApart DEF Configured, Entry
  <2> QED BY <1>1, <1>2, <1>3, <1>4, <2>1, <2>3 DEF ListInv, ListsKnown, Same
<1>6. CASE ~AskCharts(c)
  <2>1. ~Lists(c)'
    BY <1>6 DEF Arrive, AskAdd, AskRemove, AskChart, Ask, Lists, Typed, FunctionsTyped
  <2> QED BY <1>1, <1>2, <1>3, <1>4, <2>1 DEF ListInv, ListsKnown, Same
<1> QED BY <1>5, <1>6

LEMMA ListEdit ==
    ASSUME Typed, Exclusion, ListInv, NEW c \in Calls, Edit(c)
    PROVE  ListInv'
<1>1. \A d \in Calls : pc'[d] \notin ReadSteps
  BY Alone, EditFrame DEF EditSteps, ReadSteps
<1>2. \A r \in Repos : cache'[r] \in {cache[r], None}
  BY DEF Edit, Load, LoadFails, Fetch, FetchFails, Write, WriteFails, Unlink, UnlinkFails,
         Drop, WithoutCopy, Typed, TypeOK
<1>3. \A r \in Repos : files'[r] = Torn => files[r] = Torn
  <2>1. CASE Fetch(c)
    <3>1. Edited(c) \in Repos
      BY EditFrame DEF Typed, EditShape, Edited
    <3>2. Fresh(Catalog[Edited(c)]) # Torn
      BY <3>1, CatalogAssumption, NullsAssumption DEF Fresh, Indexes, Typed, TypeOK
    <3> QED BY <2>1, <3>1, <3>2 DEF Fetch, Typed, TypeOK
  <2>2. CASE ~Fetch(c)
    BY <2>2, NullsAssumption DEF Edit, Load, LoadFails, FetchFails, Write, WriteFails, Unlink,
         UnlinkFails, Drop, diskVars, Typed, TypeOK
  <2> QED BY <2>1, <2>2
<1>4. TornUnread'
  BY <1>1, <1>2, <1>3 DEF ListInv, TornUnread, ReadSteps
<1> QED BY <1>1, <1>4 DEF ListInv, ListsKnown, Lists

LEMMA ListRead ==
    ASSUME Typed, ListInv, NEW c \in Calls, Read(c)
    PROVE  ListInv'
<1>1. /\ \A d \in Calls \ {c} : Same(d)
      /\ UNCHANGED <<config, files, astray>> /\ pc[c] \in ReadSteps
  BY ReadFrame DEF diskVars
<1>2. Configured' = Configured
  BY <1>1 DEF Configured
<1>3. \A d \in Calls \ {c} : Lists(d)' = Lists(d)
  BY <1>1 DEF Lists, Same
<1> DEFINE Kept ==
        /\ \A q \in Repos : files[q] = Torn =>
              cache'[q] = None /\ (pc'[c] = "store" => req'[c].repo # q)
        /\ Lists(c)' => /\ known'[c] = known[c]
                        /\ shown'[c] \subseteq known[c] \cup astray
                        /\ Lists(c) /\ todo'[c] \subseteq todo[c]
<1>4. SUFFICES Kept
  BY <1>1, <1>2, <1>3 DEF ListInv, TornUnread, ListsKnown, Same
<1>5. ASSUME NEW r \in todo[c], NEW copy, Found(c, r, copy), files[r] # Torn,
             req' = req, known' = known,
             \A q \in Repos : files[q] = Torn => cache'[q] = None
      PROVE  Kept
  <2>1. todo'[c] \subseteq todo[c] /\ pc'[c] \in {"resolve", "scan"} /\ shown'[c] \subseteq shown[c] \cup {r}
    BY <1>5 DEF Found, Typed, TypeOK
  <2>2. Lists(c)' => Lists(c)
    BY <1>1, <1>5 DEF Lists
  <2> QED BY <1>5, <2>1, <2>2 DEF ListInv, ListsKnown
<1>6. ASSUME NEW r \in Repos, Hit(c, r)
      PROVE  r \in todo[c] /\ files[r] # Torn /\ Found(c, r, cache[r])
             /\ cache' = cache /\ req' = req /\ known' = known
  BY <1>6 DEF Hit, ListInv, TornUnread, ReadAside, histVars
<1>7. ASSUME NEW r \in Repos, LoadIndex(c, r)
      PROVE  Kept
  <2>1. req[c] \in Requests
    BY <1>1 DEF Typed, ReadShape, Requests
  <2>2. req' = [req EXCEPT ![c].repo = r] /\ req \in [Calls -> Requests \cup {None}]
    BY <1>7 DEF LoadIndex, Typed, FunctionsTyped
  <2>3. req'[c].repo = r /\ req'[c].kind = req[c].kind
    BY <2>1, <2>2 DEF Requests
  <2>4. /\ files[r] # Torn /\ cache' = cache /\ known' = known /\ shown' = shown /\ todo' = todo
    BY <1>7 DEF LoadIndex, Parses, Readable, ReadAside, histVars
  <2>5. \A q \in Repos : files[q] = Torn => cache'[q] = None /\ req'[c].repo # q
    BY <2>3, <2>4 DEF ListInv, TornUnread
  <2>6. Lists(c)' => Lists(c)
    BY <1>1, <2>3 DEF Lists
  <2> QED BY <2>4, <2>5, <2>6 DEF ListInv, ListsKnown
<1>8. CASE Store(c)
  <2>1. /\ pc[c] = "store" /\ got[c] \in Indexes /\ Readable(got[c]) /\ req[c].repo \in todo[c]
        /\ req[c].repo \in Repos /\ req' = req /\ known' = known
    BY <1>8, NullsApart DEF Store, ReadAside, histVars, Typed, TypeOK, ReadShape
  <2>2. PICK m \in VersionMaps(got[c]) :
            LET copy == [index |-> got[c], byVersion |-> m]
            IN  cache' = [cache EXCEPT ![req[c].repo] = copy] /\ Found(c, req[c].repo, copy)
    BY <1>8, <2>1 DEF Store
  <2>3. files[req[c].repo] # Torn
    BY <2>1 DEF ListInv, TornUnread
  <2>4. \A q \in Repos : files[q] = Torn => cache'[q] = None
    BY <2>2, <2>3 DEF ListInv, TornUnread, Typed, TypeOK
  <2> QED BY <1>5, <2>1, <2>2, <2>3, <2>4
<1>9. ASSUME /\ cache' = cache /\ shown' = shown /\ known' = known
             /\ pc'[c] # "store" /\ todo'[c] \subseteq todo[c]
             /\ Lists(c)' => Lists(c)
      PROVE  Kept
  BY <1>9 DEF ListInv, TornUnread, ListsKnown
<1>10. ASSUME cache' = cache, pc'[c] = "done" PROVE Kept
  BY <1>10 DEF ListInv, TornUnread, Lists, ReadSteps
<1>11. ASSUME NEW r \in Repos, LoadIndexFails(c, r) PROVE Kept
  <2>1. CASE req[c].kind = "chart"
    <3>1. cache' = cache /\ pc'[c] = "done"
      BY <1>11, <2>1 DEF LoadIndexFails, ReadEnds, Goto, Typed, TypeOK
    <3> QED BY <1>10, <3>1
  <2>2. CASE req[c].kind # "chart"
    <3>1. /\ UNCHANGED <<cache, shown, known, pc, req>> /\ pc[c] = "scan"
          /\ todo'[c] \subseteq todo[c]
      BY <1>11, <2>2 DEF LoadIndexFails, ReadAside, histVars, Typed, TypeOK
    <3> QED BY <1>9, <3>1 DEF Lists
  <2> QED BY <2>1, <2>2
<1>12. CASE ListDone(c) \/ Resolve(c)
  <2>1. /\ UNCHANGED <<cache, shown, known, req, todo>> /\ pc'[c] = "reply"
    BY <1>12 DEF ListDone, Resolve, Goto, ReadAside, histVars, Typed, TypeOK
  <2> QED BY <1>1, <1>9, <2>1 DEF Lists
<1>13. CASE ResolveFails(c) \/ Reply(c)
  <2>1. cache' = cache /\ pc'[c] = "done"
    BY <1>13 DEF ResolveFails, Reply, ReadEnds, Goto, Typed, TypeOK
  <2> QED BY <1>10, <2>1
<1>14. ASSUME NEW r \in Repos, Hit(c, r) PROVE Kept
  <2>1. \A q \in Repos : files[q] = Torn => cache'[q] = None
    BY <1>6, <1>14 DEF ListInv, TornUnread
  <2>2. /\ r \in todo[c] /\ files[r] # Torn /\ Found(c, r, cache[r])
        /\ req' = req /\ known' = known
    BY <1>6, <1>14
  <2> QED BY <1>5, <2>1, <2>2
<1> HIDE DEF Kept
<1> QED BY <1>7, <1>8, <1>11, <1>12, <1>13, <1>14 DEF Read

LEMMA ListInvariant ==
    ASSUME Typed, Exclusion, FilesInv, ListInv, [Next]_vars
    PROVE  ListInv'
<1>1. CASE UNCHANGED vars
  BY <1>1 DEF vars, diskVars, callVars, histVars, ListInv, TornUnread, ListsKnown, Lists, Configured
<1>2. CASE Crash
  BY <1>2, CrashEffect DEF ListInv, TornUnread, ListsKnown, Lists, ReadSteps
<1>3. CASE Calm
  BY <1>3 DEF Calm, diskVars, callVars, histVars, ListInv, TornUnread, ListsKnown, Lists, Configured
<1>4. ASSUME NEW r \in Repos, NEW url \in Urls \cup {None}, NEW file \in Files, Command(r, url, file)
      PROVE  ListInv'
  <2>1. CliWrites(r, url, file) /\ astray \ {r} \subseteq astray'
    BY <1>4 DEF Command
  <2>2. /\ \A q \in Repos : Entry(q)' = IF q = r THEN url ELSE Entry(q)
        /\ \A q \in Repos : files'[q] = IF q = r THEN file ELSE files[q]
        /\ UNCHANGED <<pc, req, cache, todo, shown>>
    BY <2>1, CommandEffect DEF callVars
  <2>3. \A c \in Calls : Lists(c) =>
            known'[c] = IF url # None THEN known[c] \cup {r} ELSE known[c]
    <3>1. \A c \in Calls : pc[c] \in ReadSteps =>
              known'[c] = IF url # None THEN known[c] \cup {r} ELSE known[c]
      BY <2>1 DEF CliWrites
    <3> QED BY <3>1 DEF Lists
  <2>4. file # Torn
    BY <1>4, NullsAssumption DEF Command
  <2>5. url = None => r \in Configured
    BY <1>4, NullsApart DEF Command
  <2>6. Configured' \subseteq Configured \cup {q \in {r} : url # None}
    BY <2>2 DEF Configured, Entry
  <2>7. TornUnread'
    BY <2>2, <2>4 DEF ListInv, TornUnread
  <2>8. ASSUME NEW c \in Calls, Lists(c)
        PROVE  /\ Configured' \subseteq known'[c] /\ shown'[c] \subseteq known'[c] \cup astray'
               /\ \A q \in todo'[c] : q \in known'[c] \cup astray' \/ files'[q] = Torn
    <3>1. r \in known'[c] /\ known[c] \subseteq known'[c] /\ Configured \subseteq known[c]
      BY <2>3, <2>5, <2>8 DEF ListInv, ListsKnown
    <3>2. known[c] \cup astray \subseteq known'[c] \cup astray'
      BY <2>1, <3>1
    <3>3. todo[c] \subseteq Repos
      BY DEF Typed, TypeOK
    <3> QED BY <2>2, <2>6, <2>8, <3>1, <3>2, <3>3 DEF ListInv, ListsKnown
  <2> QED BY <2>2, <2>7, <2>8 DEF ListInv, ListsKnown, Lists
<1> QED BY <1>1, <1>2, <1>3, <1>4, ListArrive, ListEdit, ListRead, WorldSteps DEF Next

(* Add and remove last, and a listing shows only what is configured.       *)
THEOREM ConfigurationHoldsThm == Spec => []ConfigurationHolds
<1> DEFINE IInv == Typed /\ Exclusion /\ ConfigInv /\ FilesInv /\ ListInv
<1>1. Init => IInv
  BY TypedInitial, ExclusionInitial, ConfigInitial, FilesInitial, ListInitial
<1>2. IInv /\ [Next]_vars => IInv'
  BY TypedInvariant, ExclusionInvariant, ConfigInvariant, FilesInvariant, ListInvariant
<1>3. IInv => ConfigurationHolds
  <2> SUFFICES ASSUME IInv PROVE ConfigurationHolds
    OBVIOUS
  <2>1. ASSUME NEW c \in Calls, pc[c] = "reply" PROVE shown[c] \subseteq known[c] \cup astray
    <3>1. req[c].kind = "chart" => shown[c] = {}
      BY <2>1 DEF Typed, ReadShape, ReadSteps
    <3>2. req[c].kind \in {"charts", "chart"}
      BY <2>1 DEF Typed, ReadShape, ReadSteps
    <3>3. req[c].kind = "charts" => Lists(c)
      BY <2>1 DEF Lists, ReadSteps
    <3> QED BY <3>1, <3>2, <3>3 DEF ListInv, ListsKnown
  <2> QED BY <2>1 DEF ConfigurationHolds, OnlyConfiguredShown, ConfigInv
<1> QED BY <1>1, <1>2, <1>3, PTL DEF Spec

-----------------------------------------------------------------------------
(* What is served is there, and from where the index is: the entry of a    *)
(* repository has the URL its index is from, unless the command line gave  *)
(* it another or an edit was cut short.                                    *)

SameUrl(r, index) == r \in astray \cup foreign \/ Entry(r) \in {None, index.url}

UrlInv ==
    /\ \A r \in Repos : \/ cache[r] = None \/ SameUrl(r, cache[r].index)
                        \/ \E c \in Calls : pc[c] = "drop" /\ Edited(c) = r
    /\ \A c \in Calls : pc[c] = "store" => SameUrl(req[c].repo, got[c])
    /\ \A c \in Calls : pc[c] = "resolve" => SameUrl(req[c].repo, got[c].index)

LEMMA UrlInitial == Init => UrlInv
BY DEF Init, UrlInv

LEMMA UrlArrive ==
    ASSUME Typed, UrlInv, NEW c \in Calls, Arrive(c)
    PROVE  UrlInv'
<1>1. /\ pc[c] = "idle" /\ pc'[c] \in {"load", "scan"}
      /\ UNCHANGED <<config, cache, astray, foreign>>
  BY ArriveFrame DEF diskVars
<1>2. \A d \in Calls \ {c} : Same(d)
  BY ArriveFrame
<1> QED BY <1>1, <1>2 DEF UrlInv, SameUrl, Entry, Edited, Same

LEMMA UrlEdit ==
    ASSUME Typed, Exclusion, ConfigInv, UrlInv, NEW c \in Calls, Edit(c)
    PROVE  UrlInv'
<1> DEFINE e == Edited(c)
<1>1. \A d \in Calls \ {c} : pc[d] \in {"idle", "done"} /\ pc'[d] \in {"idle", "done"}
  BY Alone
<1>2. pc[c] \in EditSteps /\ e \in Repos /\ pc'[c] \in EditSteps \cup {"done"}
  BY EditFrame DEF Typed, EditShape, Edited
<1>3. \A d \in Calls : pc'[d] \notin {"store", "resolve"}
  BY <1>1, <1>2 DEF EditSteps
<1>4. SUFFICES \A r \in Repos : \/ cache'[r] = None \/ SameUrl(r, cache[r].index)'
                                \/ pc'[c] = "drop" /\ Edited(c)' = r
  BY <1>3 DEF UrlInv
<1>5. \A r \in Repos : \/ cache[r] = None \/ SameUrl(r, cache[r].index)
                       \/ pc[c] = "drop" /\ e = r
  BY <1>1 DEF UrlInv
<1>6. ASSUME UNCHANGED <<config, cache, foreign>>, astray \subseteq astray', pc[c] # "drop"
      PROVE  \A r \in Repos : \/ cache'[r] = None \/ SameUrl(r, cache[r].index)'
                              \/ pc'[c] = "drop" /\ Edited(c)' = r
  BY <1>5, <1>6 DEF SameUrl, Entry
<1>7. CASE Load(c) \/ LoadFails(c) \/ Fetch(c) \/ FetchFails(c)
  BY <1>6, <1>7 DEF Load, LoadFails, Fetch, FetchFails, EditEnds, Goto, diskVars
<1>8. CASE WriteFails(c) \/ Unlink(c) \/ UnlinkFails(c)
  <2>1. UNCHANGED <<config, cache, foreign>> /\ astray \subseteq astray' /\ pc[c] # "drop"
    BY <1>8 DEF WriteFails, Unlink, UnlinkFails, EditEnds, Goto, diskVars
  <2> QED BY <1>6, <2>1
<1>9. CASE Write(c)
  <2> DEFINE new == IF Adds(c) THEN Catalog[e] ELSE None
  <2>1. /\ pc[c] = "write" /\ pc'[c] = IF Adds(c) THEN "drop" ELSE "unlink"
        /\ UNCHANGED <<cache, req, foreign>> /\ astray' = astray \cup raced[c]
        /\ \A r \in Repos : Entry(r)' = IF r = e THEN new ELSE held[c][r]
    BY <1>9, WriteEffect DEF Write, Goto
  <2>2. \A r \in Repos \ astray' : r # e => Entry(r)' = Entry(r)
    BY <2>1 DEF ConfigInv, EditsStick, Entry
  <2>3. ASSUME NEW r \in Repos, r # e
        PROVE  cache'[r] = None \/ SameUrl(r, cache[r].index)'
    BY <1>5, <2>1, <2>2, <2>3 DEF SameUrl
  <2>4. Edited(c)' = e /\ (~Adds(c) => Entry(e)' = None)
    BY <1>2, <2>1 DEF Edited
  <2>5. ~Adds(c) => SameUrl(e, cache[e].index)'
    BY <2>4 DEF SameUrl, Edited
  <2>6. ~Adds(c) => SameUrl(Edited(c), cache[Edited(c)].index)'
    BY <2>5
  <2> QED BY <2>1, <2>3, <2>4, <2>6
<1>10. CASE Drop(c)
  <2>1. /\ pc[c] = "drop" /\ config' = config
        /\ cache' = [cache EXCEPT ![e] = None]
        /\ astray \ {e} \subseteq astray' /\ foreign \ {e} \subseteq foreign'
    BY <1>10 DEF Drop, EditEnds, Goto, diskVars, WithoutCopy
  <2>2. cache'[e] = None /\ \A r \in Repos \ {e} : cache'[r] = cache[r]
    BY <1>2, <2>1 DEF Typed, TypeOK
  <2> QED BY <1>5, <2>1, <2>2 DEF SameUrl, Entry
<1> QED BY <1>7, <1>8, <1>9, <1>10 DEF Edit

LEMMA UrlRead ==
    ASSUME Typed, Exclusion, FilesInv, UrlInv, NEW c \in Calls, Read(c)
    PROVE  UrlInv'
<1>1. \A d \in Calls : pc[d] \notin EditSteps /\ pc'[d] \notin EditSteps
  BY NoEdit
<1>2. \A d \in Calls \ {c} : Same(d)
  BY ReadFrame
<1>3. UNCHANGED <<config, files, astray, foreign>> /\ pc[c] \in ReadSteps
  BY ReadFrame DEF diskVars
<1>4. \A r, index : SameUrl(r, index)' = SameUrl(r, index)
  BY <1>3 DEF SameUrl, Entry
<1>5. \A r \in Repos : cache[r] = None \/ SameUrl(r, cache[r].index)
  BY <1>1 DEF UrlInv, EditSteps
<1> DEFINE Kept ==
        /\ \A r \in Repos : cache'[r] = None \/ SameUrl(r, cache'[r].index)
        /\ pc'[c] = "store" => SameUrl(req'[c].repo, got'[c])
        /\ pc'[c] = "resolve" => SameUrl(req'[c].repo, got'[c].index)
<1>6. SUFFICES Kept
  <2>1. \A d \in Calls \ {c} :
            /\ pc'[d] = "store" => SameUrl(req'[d].repo, got'[d])
            /\ pc'[d] = "resolve" => SameUrl(req'[d].repo, got'[d].index)
    BY <1>2 DEF UrlInv, Same
  <2>2. \A r \in Repos : SameUrl(r, cache[r].index)' = SameUrl(r, cache'[r].index)
    BY <1>3 DEF SameUrl, Entry
  <2>3. \A d \in Calls : /\ SameUrl(req[d].repo, got[d])' = SameUrl(req'[d].repo, got'[d])
                         /\ SameUrl(req[d].repo, got[d].index)' = SameUrl(req'[d].repo, got'[d].index)
    BY <1>3 DEF SameUrl, Entry
  <2> QED BY <2>1, <2>2, <2>3 DEF UrlInv
<1>7. ASSUME cache' = cache, pc'[c] \notin {"store", "resolve"} PROVE Kept
  BY <1>5, <1>7
<1>8. ASSUME NEW r \in todo[c], NEW copy, Found(c, r, copy), req' = req,
             SameUrl(r, copy.index),
             \A q \in Repos : cache'[q] = None \/ SameUrl(q, cache'[q].index)
      PROVE  Kept
  <2>1. CASE req[c].kind = "chart"
    <3>1. req[c].repo = r
      BY <1>3, <2>1 DEF Typed, ReadShape
    <3>2. pc'[c] = "resolve" /\ got'[c] = copy
      BY <1>8, <2>1 DEF Found, Typed, TypeOK
    <3> QED BY <1>8, <3>1, <3>2
  <2>2. CASE req[c].kind # "chart"
    <3>1. pc'[c] = "scan"
      BY <1>8, <2>2 DEF Found, Typed, TypeOK
    <3> QED BY <1>8, <3>1
  <2> QED BY <2>1, <2>2
<1>9. ASSUME NEW r \in Repos, Hit(c, r) PROVE Kept
  <2>1. r \in todo[c] /\ Found(c, r, cache[r]) /\ req' = req /\ cache' = cache /\ cache[r] # None
    BY <1>9 DEF Hit
  <2> QED BY <1>5, <1>8, <2>1
<1>10. ASSUME NEW r \in Repos, LoadIndex(c, r) PROVE Kept
  <2>1. req[c] \in Requests
    BY <1>3 DEF Typed, ReadShape, Requests
  <2>2. req' = [req EXCEPT ![c].repo = r] /\ req \in [Calls -> Requests \cup {None}]
    BY <1>10 DEF LoadIndex, Typed, FunctionsTyped
  <2>3. req'[c].repo = r
    BY <2>1, <2>2 DEF Requests
  <2>4. got'[c] = files[r] /\ pc'[c] = "store" /\ cache' = cache /\ Readable(files[r])
    BY <1>10 DEF LoadIndex, Parses, Typed, TypeOK
  <2>5. SameUrl(r, files[r])
    BY <1>1, <2>4 DEF FilesInv, Midway, EditSteps, Agrees, SameUrl
  <2> QED BY <1>5, <2>3, <2>4, <2>5
<1>11. CASE Store(c)
  <2>1. /\ pc[c] = "store" /\ got[c] \in Indexes /\ Readable(got[c]) /\ req[c].repo \in todo[c]
        /\ req[c].repo \in Repos /\ req' = req
    BY <1>11, NullsApart DEF Store, Typed, TypeOK, ReadShape
  <2>2. PICK m \in VersionMaps(got[c]) :
            LET copy == [index |-> got[c], byVersion |-> m]
            IN  cache' = [cache EXCEPT ![req[c].repo] = copy] /\ Found(c, req[c].repo, copy)
    BY <1>11, <2>1 DEF Store
  <2>3. SameUrl(req[c].repo, got[c])
    BY <2>1 DEF UrlInv
  <2>4. \A q \in Repos : cache'[q] = None \/ SameUrl(q, cache'[q].index)
    BY <1>5, <2>1, <2>2, <2>3 DEF Typed, TypeOK
  <2>5. [index |-> got[c], byVersion |-> m].index = got[c]
    OBVIOUS
  <2> HIDE DEF Kept
  <2> QED BY <1>8, <2>1, <2>2, <2>3, <2>4, <2>5
<1>12. ASSUME NEW r \in Repos, LoadIndexFails(c, r) PROVE Kept
  <2>1. cache' = cache /\ pc'[c] \in {"scan", "done"}
    BY <1>12 DEF LoadIndexFails, ReadEnds, Goto, Typed, TypeOK
  <2> QED BY <1>7, <2>1
<1>13. CASE ListDone(c) \/ Resolve(c) \/ ResolveFails(c) \/ Reply(c)
  <2>1. cache' = cache /\ pc'[c] \in {"reply", "done"}
    BY <1>13 DEF ListDone, Resolve, ResolveFails, Reply, ReadEnds, Goto, Typed, TypeOK
  <2> QED BY <1>7, <2>1
<1> HIDE DEF Kept
<1> QED BY <1>9, <1>10, <1>11, <1>12, <1>13 DEF Read

LEMMA SameUrlKept ==
    ASSUME Typed, NEW r \in Repos, NEW url \in Urls \cup {None}, NEW file \in Files,
           Command(r, url, file), NEW q \in Repos
    PROVE  /\ q \in astray \cup foreign => q \in (astray \cup foreign)'
           /\ q \in (astray \cup foreign)' \/ Entry(q)' = Entry(q)
<1>1. CliWrites(r, url, file)
  BY DEF Command
<1>2. Entry(q)' = IF q = r THEN url ELSE Entry(q)
  BY <1>1, CommandEffect
<1> QED BY <1>2 DEF Command

LEMMA UrlInvariant ==
    ASSUME Typed, Exclusion, ConfigInv, FilesInv, UrlInv, [Next]_vars
    PROVE  UrlInv'
<1>1. CASE UNCHANGED vars
  BY <1>1 DEF vars, diskVars, callVars, histVars, UrlInv, SameUrl, Entry, Edited
<1>2. CASE Crash
  BY <1>2, CrashEffect DEF UrlInv
<1>3. CASE Calm
  BY <1>3 DEF Calm, diskVars, callVars, histVars, UrlInv, SameUrl, Entry, Edited
<1>4. ASSUME NEW r \in Repos, NEW url \in Urls \cup {None}, NEW file \in Files, Command(r, url, file)
      PROVE  UrlInv'
  <2>1. CliWrites(r, url, file)
    BY <1>4 DEF Command
  <2>2. UNCHANGED <<cache, pc, req, got>>
    BY <2>1, CommandEffect DEF callVars
  <2>3. \A q \in Repos : /\ q \in astray \cup foreign => q \in (astray \cup foreign)'
                         /\ q \in (astray \cup foreign)' \/ Entry(q)' = Entry(q)
    BY <1>4, SameUrlKept
  <2>4. \A c \in Calls : pc[c] \in {"store", "resolve"} => req[c].repo \in Repos
    BY DEF Typed, TypeOK, ReadShape, ReadSteps
  <2> QED BY <2>2, <2>3, <2>4 DEF UrlInv, SameUrl, Edited, Entry
<1> QED BY <1>1, <1>2, <1>3, <1>4, UrlArrive, UrlEdit, UrlRead, WorldSteps DEF Next

LEMMA ServesRead ==
    ASSUME Typed, UrlInv, ServesWhatIsThere, NEW c \in Calls, Read(c)
    PROVE  ServesWhatIsThere'
<1>1. \A d \in Calls \ {c} : Same(d)
  BY ReadFrame
<1>2. UNCHANGED <<config, astray, foreign>>
  BY ReadFrame DEF diskVars
<1>3. ASSUME answer'[c] = None PROVE ServesWhatIsThere'
  BY <1>1, <1>2, <1>3 DEF ServesWhatIsThere, Same
<1>4. pc[c] # "reply" => answer[c] = None
  BY DEF Typed, ReadShape
<1>5. CASE Resolve(c)
  <2>1. PICK chart \in Charts, version \in Versions \cup {None} :
        \E e \in Picks(got[c], chart, version), base \in Bases(got[c].index, req[c].repo) :
           answer' = [answer EXCEPT ![c] =
             [chart |-> chart, version |-> version,
              pick |-> e, index |-> got[c].index, base |-> base]]
    BY <1>5 DEF Resolve
  <2>2. PICK e \in Picks(got[c], chart, version), base \in Bases(got[c].index, req[c].repo) :
           answer' = [answer EXCEPT ![c] =
             [chart |-> chart, version |-> version,
              pick |-> e, index |-> got[c].index, base |-> base]]
    BY <2>1
  <2> DEFINE a == [chart |-> chart, version |-> version,
                   pick |-> e, index |-> got[c].index, base |-> base]
  <2>3. answer'[c] = a /\ req' = req /\ pc[c] = "resolve" /\ got[c] \in Copies
    BY <1>5, <2>2 DEF Resolve, Goto, Typed, FunctionsTyped, ReadShape
  <2>4. /\ a.chart \in ChartsOf(a.index) /\ a.pick \in a.index.offer
        /\ IF a.version = None THEN a.pick = Latest(a.index, a.chart)
           ELSE a.pick.version = a.version
    BY <2>3, PickedIsThere
  <2>5. req[c].repo \in astray \cup foreign \/ a.base = a.index.url
    BY <2>3 DEF UrlInv, SameUrl, Bases, Entry
  <2>6. ASSUME NEW d \in Calls, answer'[d] # None
        PROVE  LET b == answer'[d] IN
               /\ b.chart \in ChartsOf(b.index) /\ b.pick \in b.index.offer
               /\ IF b.version = None THEN b.pick = Latest(b.index, b.chart)
                  ELSE b.pick.version = b.version
               /\ req'[d].repo \in astray \cup foreign \/ b.base = b.index.url
    <3>1. CASE d = c
      <4> HIDE DEF a
      <4> QED BY <2>3, <2>4, <2>5, <3>1
    <3>2. CASE d # c
      <4>1. answer'[d] = answer[d] /\ req'[d] = req[d]
        BY <1>1, <3>2 DEF Same
      <4> QED BY <2>6, <4>1 DEF ServesWhatIsThere
    <3> QED BY <3>1, <3>2
  <2> QED BY <1>2, <2>6 DEF ServesWhatIsThere
<1>6. ASSUME NEW r \in Repos, Hit(c, r) \/ LoadIndex(c, r) \/ LoadIndexFails(c, r)
      PROVE  answer' = answer /\ pc[c] # "reply"
  BY <1>6 DEF Hit, LoadIndex, LoadIndexFails, Found
<1>7. ASSUME Store(c) \/ ListDone(c) \/ ResolveFails(c)
      PROVE  answer' = answer /\ pc[c] # "reply"
  BY <1>7 DEF Store, ListDone, ResolveFails, Found, ReadEnds, Goto
<1>8. ASSUME Reply(c) PROVE answer'[c] = None
  BY <1>8 DEF Reply, Typed, FunctionsTyped
<1> QED BY <1>3, <1>4, <1>5, <1>6, <1>7, <1>8 DEF Read

LEMMA ServesInvariant ==
    ASSUME Typed, Exclusion, UrlInv, ServesWhatIsThere, [Next]_vars
    PROVE  ServesWhatIsThere'
<1>1. CASE UNCHANGED vars
  BY <1>1 DEF vars, diskVars, callVars, histVars, ServesWhatIsThere
<1>2. \A c \in Calls : answer[c] # None => pc[c] = "reply" /\ req[c].repo \in Repos \cup {None}
  BY DEF Typed, ReadShape, ReadSteps
<1>3. ASSUME NEW c \in Calls, Arrive(c) PROVE ServesWhatIsThere'
  <2>1. pc[c] = "idle" /\ UNCHANGED <<answer, astray, foreign>>
    BY <1>3, ArriveFrame
  <2>2. \A d \in Calls \ {c} : req'[d] = req[d]
    BY <1>3, ArriveFrame DEF Same
  <2>3. answer[c] = None
    BY <1>2, <2>1
  <2> QED BY <2>1, <2>2, <2>3 DEF ServesWhatIsThere
<1>4. ASSUME NEW c \in Calls, Edit(c) PROVE ServesWhatIsThere'
  <2>1. answer' = answer /\ pc[c] \in EditSteps
    BY <1>4, EditFrame
  <2>2. \A d \in Calls : pc[d] # "reply"
    BY <1>4, <2>1, Alone DEF EditSteps
  <2> QED BY <1>2, <2>1, <2>2 DEF ServesWhatIsThere
<1>5. CASE Crash
  BY <1>5, CrashEffect DEF ServesWhatIsThere
<1>6. CASE Calm
  BY <1>6 DEF Calm, callVars, histVars, ServesWhatIsThere
<1>7. ASSUME NEW r \in Repos, NEW url \in Urls \cup {None}, NEW file \in Files, Command(r, url, file)
      PROVE  ServesWhatIsThere'
  <2>1. CliWrites(r, url, file)
    BY <1>7 DEF Command
  <2>2. UNCHANGED <<answer, req>>
    BY <2>1, CommandEffect DEF callVars
  <2>3. astray \cup foreign \subseteq (astray \cup foreign)'
    BY <1>7 DEF Command
  <2> QED BY <2>2, <2>3 DEF ServesWhatIsThere
<1> QED BY <1>1, <1>3, <1>4, <1>5, <1>6, <1>7, ServesRead, WorldSteps DEF Next

(* What details, values, install and upgrade are served is in the index,   *)
(* and is the version asked for or the latest.                             *)
THEOREM ServesWhatIsThereThm == Spec => []ServesWhatIsThere
<1> DEFINE IInv ==
        Typed /\ Exclusion /\ ConfigInv /\ FilesInv /\ UrlInv /\ ServesWhatIsThere
<1>1. Init => IInv
  BY TypedInitial, ExclusionInitial, ConfigInitial, FilesInitial, UrlInitial
     DEF Init, ServesWhatIsThere
<1>2. IInv /\ [Next]_vars => IInv'
  BY TypedInvariant, ExclusionInvariant, ConfigInvariant, FilesInvariant, UrlInvariant,
     ServesInvariant
<1> QED BY <1>1, <1>2, PTL DEF Spec

=============================================================================
