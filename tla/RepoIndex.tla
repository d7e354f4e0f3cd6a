------------------------------ MODULE RepoIndex ------------------------------
(***************************************************************************)
(* Chart repositories: repositories.yaml, one index file per repository in *)
(* Helm's cache directory, and the service's copies of those indexes. Add  *)
(* and remove are done under the write lock, step by step, each step may   *)
(* fail; what reads charts shares the read lock and fills the copies. The  *)
(* helm command line of the same user works on the same files and knows    *)
(* neither the lock nor the copies, and the plugin may be killed.          *)
(*                                                                         *)
(* A chart is what details, values, install and upgrade look up: they take *)
(* the same steps. An index is the URL it is from and the chart versions   *)
(* that URL offers.                                                        *)
(***************************************************************************)
EXTENDS Integers, FiniteSetsExt

CONSTANTS
    Repos, Urls, Charts, Versions,
    Catalog,       \* the URL under which the public catalog knows a name
    Offers,        \* what a URL may offer: sets of chart versions
    Offered,       \* what each may offer at the start
    Stored,        \* what repositories.yaml may hold at the start
    Calls,
    MaxCli,        \* bound: commands of the helm command line
    MaxPublished,  \* bound: times a URL changes its offer
    MaxCrashes,    \* bound: kills of the plugin
    None, Missing, Torn

ChartVersions == [chart : Charts, version : Versions]
Entries == [Repos -> Urls \cup {None}]  \* repositories.yaml: a URL or no entry
Indexes == [url : Urls, offer : Offers]

ASSUME VersionsAssumption == Versions \subseteq Nat
ASSUME OffersAssumption   == Offers \subseteq SUBSET ChartVersions
ASSUME LatestAssumption   ==  \* an index is a finite list
    \A o \in Offers : \A S \in SUBSET {e.version : e \in o} :
        S # {} => \E x \in S : \A y \in S : x >= y
ASSUME CatalogAssumption  == Catalog \in [Repos -> Urls] /\ Stored \subseteq Entries
ASSUME OfferedAssumption  == Offered \subseteq [Urls -> Offers]
ASSUME NullsAssumption ==
    /\ {None, Missing, Torn} \cap (Urls \cup Entries \cup Indexes \cup Versions) = {}
    /\ Missing # Torn
ASSUME BoundsAssumption == {MaxCli, MaxPublished, MaxCrashes} \subseteq Nat

NoEntries == [r \in Repos |-> None]
Files     == Indexes \cup {Missing, Torn}

(* The version map of an index has one chart version for each version      *)
(* number of the whole index: which one is up to Go's iteration order.     *)
VersionMaps(index) ==
    {m \in [{e.version : e \in index.offer} -> index.offer] :
        \A v \in DOMAIN m : m[v].version = v}

VARIABLES
    config,    \* repositories.yaml
    files,     \* <name>-index.yaml of each repository
    cache,     \* indexCache: index and version map of each repository
    remote,    \* what each URL offers now
    listed,    \* the frontend's list of configured repositories
    pc, req,   \* where each call is, and what it asks for
    held,      \* an edit's copy of repositories.yaml
    todo,      \* repositories a reader has still to look up
    got,       \* the index, or index file, a reader has at hand
    shown,     \* repositories whose charts a listing has so far
    answer,    \* the chart version a lookup came to, its index and its base URL
    steps,     \* counts what is bounded
    want,      \* history: each repository's URL after the last edit of it
    seen,      \* history: index files since the last complete edit
    known,     \* history: repositories configured at some time during the call
    raced,     \* history: repositories the command line touched during an edit
    astray,    \* history: edits that were cut short, or raced, may have left
               \* entry and index file of these apart
    foreign    \* history: the command line changed the entry of these

diskVars == <<config, files>>
callVars == <<pc, req, held, todo, got, shown, answer>>
userVars == <<remote, listed, steps>>
histVars == <<want, seen, known, raced, astray, foreign>>
vars     == <<diskVars, cache, callVars, userVars, histVars>>

Copies == UNION {[index : {i}, byVersion : VersionMaps(i)] : i \in Indexes}

EditSteps == {"load", "fetch", "write", "unlink", "drop"}
ReadSteps == {"scan", "store", "resolve", "reply"}
Requests  == [kind : {"add", "remove", "charts", "chart"}, repo : Repos \cup {None}]

(* Every variable has its type: in particular no copy is made of an index  *)
(* file that cannot be read (getOrCreateIndex), and a copy's version map   *)
(* is one of its index.                                                    *)
TypeOK ==
    /\ config \in Entries \cup {Missing, Torn}
    /\ files \in [Repos -> Files]
    /\ cache \in [Repos -> Copies \cup {None}]
    /\ remote \in [Urls -> Offers] /\ listed \in Entries
    /\ pc \in [Calls -> EditSteps \cup ReadSteps \cup {"idle", "done"}]
    /\ \A c \in Calls : req[c] \in Requests \cup {None}
    /\ held \in [Calls -> Entries \cup {None}]
    /\ todo \in [Calls -> SUBSET Repos] /\ shown \in [Calls -> SUBSET Repos]
    /\ got \in [Calls -> Copies \cup Indexes \cup {None}]
    /\ \A c \in Calls : answer[c] = None \/ answer[c].pick \in ChartVersions
    /\ steps \in [cli : 0 .. MaxCli, published : 0 .. MaxPublished, crashes : 0 .. MaxCrashes]

Init ==
    /\ config \in Stored \cup {Missing}
    /\ remote \in Offered
    /\ LET entries == IF config = Missing THEN NoEntries ELSE config
       IN  /\ files = [r \in Repos |->
                 IF entries[r] = None THEN Missing
                 ELSE [url |-> entries[r], offer |-> remote[entries[r]]]]
           /\ want = entries
    /\ cache = [r \in Repos |-> None]
    /\ listed = NoEntries
    /\ pc = [c \in Calls |-> "idle"] /\ req = [c \in Calls |-> None]
    /\ held = [c \in Calls |-> None] /\ got = [c \in Calls |-> None]
    /\ todo = [c \in Calls |-> {}] /\ shown = [c \in Calls |-> {}]
    /\ answer = [c \in Calls |-> None]
    /\ steps = [cli |-> 0, published |-> 0, crashes |-> 0]
    /\ seen = [r \in Repos |-> {files[r]}]
    /\ known = [c \in Calls |-> {}] /\ raced = [c \in Calls |-> {}]
    /\ astray = {} /\ foreign = {}

Readable(file)  == file \notin {Missing, Torn}
EntriesOf(file) == IF Readable(file) THEN file ELSE NoEntries
Configured      == {r \in Repos : EntriesOf(config)[r] # None}
NewSeen(r, file)  == [seen EXCEPT ![r] = @ \cup {file}]
Goto(c, from, to) == pc[c] = from /\ pc' = [pc EXCEPT ![c] = to]

-----------------------------------------------------------------------------
(* Arrival and locks.                                                      *)
Held(kindSteps) == \E c \in Calls : pc[c] \in kindSteps

(* Faulty variant: edits take the read lock.                               *)
WriteLockFree_Shared == TRUE

WriteLockFree == ~Held(EditSteps) /\ ~Held(ReadSteps)
ReadLockFree  == ~Held(EditSteps)

Ask(c, kind, r) == req' = [req EXCEPT ![c] = [kind |-> kind, repo |-> r]]

(* onValueChange: the catalog offers only names that are not in the list.  *)
AskAdd(c, r) ==
    /\ listed[r] = None /\ WriteLockFree
    /\ Goto(c, "idle", "load") /\ Ask(c, "add", r)
    /\ UNCHANGED <<diskVars, cache, held, todo, got, shown, answer, userVars, histVars>>

(* The remove button of a row of the list.                                 *)
AskRemove(c, r) ==
    /\ listed[r] # None /\ WriteLockFree
    /\ Goto(c, "idle", "load") /\ Ask(c, "remove", r)
    /\ UNCHANGED <<diskVars, cache, held, todo, got, shown, answer, userVars, histVars>>

(* ListHelmCharts reads the cache directory first.                         *)
AskCharts(c) ==
    /\ ReadLockFree
    /\ Goto(c, "idle", "scan") /\ Ask(c, "charts", None)
    /\ todo' = [todo EXCEPT ![c] = {r \in Repos : files[r] # Missing}]
    /\ known' = [known EXCEPT ![c] = Configured]
    /\ UNCHANGED <<diskVars, cache, held, got, shown, answer, userVars,
                   want, seen, raced, astray, foreign>>

(* GetHelmChartDetail, GetHelmChartValues, InstallHelmChart,               *)
(* UpgradeHelmRelease: which chart they ask for matters in Resolve.        *)
AskChart(c, r) ==
    /\ ReadLockFree
    /\ Goto(c, "idle", "scan") /\ Ask(c, "chart", r)
    /\ todo' = [todo EXCEPT ![c] = {r}]
    /\ UNCHANGED <<diskVars, cache, held, got, shown, answer, userVars, histVars>>

-----------------------------------------------------------------------------
(* AddHelmRepository and RemoveHelmRepository.                             *)
Edited(c)   == req[c].repo
Adds(c)     == req[c].kind = "add"
EditAside   == UNCHANGED <<todo, got, shown, answer, userVars, known>>

(* The lock is free again; what the call held is of no more use.           *)
EditEnds(c, from) ==
    /\ Goto(c, from, "done")
    /\ held' = [held EXCEPT ![c] = None] /\ req' = [req EXCEPT ![c] = None]
    /\ raced' = [raced EXCEPT ![c] = {}]

(* repo.LoadFile. A missing file starts a new one for add, unless the      *)
(* SDK's wrapping hides from os.IsNotExist why it could not be read.       *)
Load(c) ==
    /\ Goto(c, "load", IF Adds(c) THEN "fetch" ELSE "write") /\ config # Torn
    /\ Adds(c) \/ EntriesOf(config)[Edited(c)] # None
    /\ held' = [held EXCEPT ![c] = EntriesOf(config)]
    /\ UNCHANGED <<req, diskVars, cache, want, seen, raced, astray, foreign>> /\ EditAside

LoadFails(c) ==
    /\ EditEnds(c, "load")
    /\ ~Readable(config) \/ (~Adds(c) /\ EntriesOf(config)[Edited(c)] = None)
    /\ UNCHANGED <<diskVars, cache, want, seen, astray, foreign>> /\ EditAside

Fresh(url) == [url |-> url, offer |-> remote[url]]

(* DownloadIndexFile replaces the index file, before there is an entry.    *)
Fetch(c) ==
    /\ Goto(c, "fetch", "write")
    /\ LET r == Edited(c) IN
       /\ files' = [files EXCEPT ![r] = Fresh(Catalog[r])]
       /\ seen' = NewSeen(r, Fresh(Catalog[r]))
    /\ UNCHANGED <<req, config, cache, held, want, raced, astray, foreign>> /\ EditAside

(* No valid URL, no answer, or no index there: nothing has changed.        *)
FetchFails(c) ==
    /\ EditEnds(c, "fetch")
    /\ UNCHANGED <<diskVars, cache, want, seen, astray, foreign>> /\ EditAside

(* Update or Remove on the copy, then WriteFile.                           *)
Write(c) ==
    /\ Goto(c, "write", IF Adds(c) THEN "drop" ELSE "unlink")
    /\ LET r   == Edited(c)
           url == IF Adds(c) THEN Catalog[r] ELSE None
       IN  /\ config' = [held[c] EXCEPT ![r] = url]
           /\ want' = [want EXCEPT ![r] = url]
    /\ astray' = astray \cup raced[c]
    /\ UNCHANGED <<req, files, cache, held, seen, raced, foreign>> /\ EditAside

(* An edit that stops between entry and index file may leave them apart.   *)
Apart(c) ==
    IF Adds(c) /\ held[c][Edited(c)] = Catalog[Edited(c)] THEN raced[c] ELSE {Edited(c)}

WriteFails(c) ==
    /\ EditEnds(c, "write")
    /\ astray' = IF Adds(c) THEN astray \cup Apart(c) ELSE astray
    /\ UNCHANGED <<diskVars, cache, want, seen, foreign>> /\ EditAside

Unlink(c) ==
    /\ Goto(c, "unlink", "drop")
    /\ files' = [files EXCEPT ![Edited(c)] = Missing]
    /\ seen' = NewSeen(Edited(c), Missing)
    /\ UNCHANGED <<req, config, cache, held, want, raced, astray, foreign>> /\ EditAside

(* os.Remove fails: the entry is gone, file and copy stay, and a second    *)
(* remove is refused because there is no entry.                            *)
UnlinkFails(c) ==
    /\ EditEnds(c, "unlink")
    /\ astray' = astray \cup Apart(c)
    /\ UNCHANGED <<diskVars, cache, want, seen, foreign>> /\ EditAside

(* Faulty variant: the copy of the index is not dropped.                   *)
WithoutCopy_Kept(r) == cache

(* invalidateIndex                                                         *)
WithoutCopy(r) == [cache EXCEPT ![r] = None]

Drop(c) ==
    /\ EditEnds(c, "drop")
    /\ LET r == Edited(c)
           done == IF r \in raced[c] THEN {} ELSE {r}
       IN  /\ cache' = WithoutCopy(r)
           /\ seen' = [seen EXCEPT ![r] = {files[r]}]
           /\ astray' = astray \ done /\ foreign' = foreign \ done
    /\ UNCHANGED <<diskVars, want>> /\ EditAside

-----------------------------------------------------------------------------
(* Readers: getOrCreateIndex, then what each makes of the index.           *)
ReadAside == UNCHANGED <<diskVars, held, userVars, histVars>>

ReadEnds(c, from) ==
    /\ Goto(c, from, "done")
    /\ got' = [got EXCEPT ![c] = None] /\ req' = [req EXCEPT ![c] = None]
    /\ known' = [known EXCEPT ![c] = {}]
    /\ UNCHANGED <<diskVars, held, userVars, want, seen, raced, astray, foreign>>

(* A listing takes the repositories one by one, a lookup has one.          *)
Found(c, r, copy) ==
    /\ got' = [got EXCEPT ![c] = IF req[c].kind = "chart" THEN copy ELSE None]
    /\ todo' = [todo EXCEPT ![c] = @ \ {r}]
    /\ IF req[c].kind = "chart"
         THEN pc' = [pc EXCEPT ![c] = "resolve"] /\ UNCHANGED shown
         ELSE /\ pc' = [pc EXCEPT ![c] = "scan"]
              /\ shown' = IF copy.index.offer = {} THEN shown
                          ELSE [shown EXCEPT ![c] = @ \cup {r}]
    /\ UNCHANGED answer

(* getIndex finds a copy.                                                  *)
Hit(c, r) ==
    /\ pc[c] = "scan" /\ r \in todo[c] /\ cache[r] # None
    /\ Found(c, r, cache[r])
    /\ UNCHANGED <<req, cache>> /\ ReadAside

(* Faulty variant: an index file that cannot be parsed passes for one.     *)
Parses_Always(file) == TRUE

Parses(file) == Readable(file)

(* getIndex finds none: repo.LoadIndexFile.                                *)
LoadIndex(c, r) ==
    /\ pc[c] = "scan" /\ r \in todo[c] /\ cache[r] = None /\ Parses(files[r])
    /\ pc' = [pc EXCEPT ![c] = "store"]
    /\ got' = [got EXCEPT ![c] = files[r]]
    /\ req' = [req EXCEPT ![c].repo = r]
    /\ UNCHANGED <<cache, todo, shown, answer>> /\ ReadAside

(* A listing logs and goes on, a lookup fails.                             *)
LoadIndexFails(c, r) ==
    /\ pc[c] = "scan" /\ r \in todo[c] /\ cache[r] = None
    /\ todo' = [todo EXCEPT ![c] = @ \ {r}]
    /\ IF req[c].kind = "chart" THEN ReadEnds(c, "scan")
       ELSE UNCHANGED <<pc, req, got>> /\ ReadAside
    /\ UNCHANGED <<cache, shown, answer>>

(* setIndex                                                                *)
Store(c) ==
    /\ pc[c] = "store"
    /\ \E m \in IF Readable(got[c]) THEN VersionMaps(got[c]) ELSE {<<>>} :
         LET r == req[c].repo
             copy == [index |-> got[c], byVersion |-> m]
         IN  /\ cache' = [cache EXCEPT ![r] = copy]
             /\ Found(c, r, copy)
    /\ UNCHANGED req /\ ReadAside

ListDone(c) ==
    /\ Goto(c, "scan", "reply") /\ req[c].kind = "charts" /\ todo[c] = {}
    /\ UNCHANGED <<cache, req, todo, got, shown, answer>> /\ ReadAside

ChartsOf(index) == {e.chart : e \in index.offer}
Latest(index, chart) ==
    [chart |-> chart, version |-> Max({e.version : e \in {x \in index.offer : x.chart = chart}})]

(* Faulty variant: whether the chart is in the index is not asked.         *)
Picks_AnyChart(copy, chart, version) ==
    {copy.byVersion[v] : v \in {version} \cap DOMAIN copy.byVersion}

(* The chart must be there; its versions are those of the whole index.     *)
Picks(copy, chart, version) ==
    IF chart \notin ChartsOf(copy.index) THEN {}
    ELSE IF version = None THEN {Latest(copy.index, chart)}
    ELSE {copy.byVersion[v] : v \in {version} \cap DOMAIN copy.byVersion}

(* resolveChartURL: a relative URL is taken from the repository's entry.   *)
Bases(index, r) == {index.url, EntriesOf(config)[r]} \ {None}

Resolve(c) ==
    /\ Goto(c, "resolve", "reply")
    /\ \E chart \in Charts, version \in Versions \cup {None} :
       \E e \in Picks(got[c], chart, version), base \in Bases(got[c].index, req[c].repo) :
         answer' = [answer EXCEPT ![c] =
             [chart |-> chart, version |-> version,
              pick |-> e, index |-> got[c].index, base |-> base]]
    /\ UNCHANGED <<cache, req, todo, got, shown>> /\ ReadAside

(* No such chart or version, no entry for a relative URL, no download.     *)
ResolveFails(c) ==
    /\ ReadEnds(c, "resolve")
    /\ UNCHANGED <<cache, todo, shown, answer>>

(* The answer leaves and the lock is free.                                 *)
Reply(c) ==
    /\ ReadEnds(c, "reply")
    /\ shown' = [shown EXCEPT ![c] = {}] /\ answer' = [answer EXCEPT ![c] = None]
    /\ UNCHANGED <<cache, todo>>

(* A copy is used for ten minutes.                                         *)
Expire(r) ==
    /\ cache[r] # None
    /\ cache' = [cache EXCEPT ![r] = None]
    /\ UNCHANGED <<diskVars, callVars, userVars, histVars>>

-----------------------------------------------------------------------------
(* The frontend's list, the publishers, the command line, and kills.       *)

(* useGetHelmRepositories: on opening the tab and after each edit.         *)
Relist ==
    /\ ReadLockFree /\ config # Torn
    /\ listed' = EntriesOf(config)
    /\ UNCHANGED <<diskVars, cache, callVars, remote, steps, histVars>>

Publish(url, offer) ==
    /\ steps.published < MaxPublished /\ offer # remote[url]
    /\ remote' = [remote EXCEPT ![url] = offer]
    /\ steps' = [steps EXCEPT !.published = @ + 1]
    /\ UNCHANGED <<diskVars, cache, callVars, listed, histVars>>

(* Commands of helm: repo add, repo update, repo remove.                   *)
CliWrites(r, url, file) ==
    /\ steps.cli < MaxCli /\ steps' = [steps EXCEPT !.cli = @ + 1]
    /\ config' = [EntriesOf(config) EXCEPT ![r] = url]
    /\ files' = [files EXCEPT ![r] = file]
    /\ want' = [want EXCEPT ![r] = url]
    /\ seen' = NewSeen(r, file)
    /\ known' = [c \in Calls |-> IF pc[c] \in ReadSteps /\ url # None
                                 THEN known[c] \cup {r} ELSE known[c]]
    /\ raced' = [c \in Calls |-> IF pc[c] \in EditSteps \ {"load"}
                                 THEN raced[c] \cup {r} ELSE raced[c]]
    /\ UNCHANGED <<cache, callVars, remote, listed>>

CliAdd(r, url) ==
    /\ config # Torn /\ r \notin Configured
    /\ CliWrites(r, url, Fresh(url))
    /\ astray' = astray \ {r} /\ foreign' = foreign \cup {r}

CliUpdate(r) ==
    /\ r \in Configured
    /\ CliWrites(r, config[r], Fresh(config[r]))
    /\ UNCHANGED <<astray, foreign>>

CliRemove(r) ==
    /\ r \in Configured
    /\ CliWrites(r, None, Missing)
    /\ astray' = astray \ {r} /\ foreign' = foreign \cup {r}

(* A kill ends every call and loses the copies; a file being written may   *)
(* end up empty or unreadable.                                             *)
Crash ==
    /\ steps.crashes < MaxCrashes /\ steps' = [steps EXCEPT !.crashes = @ + 1]
    /\ pc' = [c \in Calls |-> IF pc[c] \in EditSteps \cup ReadSteps THEN "done" ELSE pc[c]]
    /\ held' = [c \in Calls |-> None] /\ got' = [c \in Calls |-> None]
    /\ todo' = [c \in Calls |-> {}] /\ shown' = [c \in Calls |-> {}]
    /\ answer' = [c \in Calls |-> None] /\ req' = [c \in Calls |-> None]
    /\ known' = [c \in Calls |-> {}] /\ raced' = [c \in Calls |-> {}]
    /\ cache' = [r \in Repos |-> None]
    /\ LET at(step) == {c \in Calls : pc[c] = step} IN
       /\ config' \in {config} \cup IF at("write") # {} THEN {NoEntries, Torn} ELSE {}
       /\ files' \in {files} \cup {[files EXCEPT ![Edited(c)] = Torn] : c \in at("fetch")}
       /\ astray' = IF config' # config THEN Repos
                    ELSE astray \cup UNION {Apart(c) :
                           c \in {d \in at("write") : Adds(d)} \cup at("unlink")}
       /\ seen' = [r \in Repos |-> seen[r] \cup {files'[r]}]
    /\ UNCHANGED <<remote, listed, want, foreign>>

-----------------------------------------------------------------------------
Edit(c) ==
    \/ Load(c) \/ LoadFails(c) \/ Fetch(c) \/ FetchFails(c)
    \/ Write(c) \/ WriteFails(c) \/ Unlink(c) \/ UnlinkFails(c) \/ Drop(c)

Read(c) ==
    \/ \E r \in Repos : Hit(c, r) \/ LoadIndex(c, r) \/ LoadIndexFails(c, r)
    \/ Store(c) \/ ListDone(c) \/ Resolve(c) \/ ResolveFails(c) \/ Reply(c)

Arrive(c) ==
    \/ \E r \in Repos : AskAdd(c, r) \/ AskRemove(c, r)
    \/ AskCharts(c) \/ \E r \in Repos : AskChart(c, r)

World ==
    \/ \E r \in Repos : Expire(r) \/ CliUpdate(r) \/ CliRemove(r)
    \/ \E r \in Repos, url \in Urls : CliAdd(r, url)
    \/ \E url \in Urls, offer \in Offers : Publish(url, offer)
    \/ Relist \/ Crash

Next == World \/ \E c \in Calls : Arrive(c) \/ Edit(c) \/ Read(c)

Spec == Init /\ [][Next]_vars

-----------------------------------------------------------------------------
(* A copy of an index is something the repository's file has held since    *)
(* the last edit of that repository that was completed: an answer may be   *)
(* as old as the copy's lifetime, but never older than an add or remove    *)
(* (invalidateIndex, under the write lock).                                *)
CachedSinceEdit == \A r \in Repos : cache[r] # None => cache[r].index \in seen[r]

(* ListHelmCharts reads the cache directory, not repositories.yaml, and    *)
(* yet it shows charts of repositories that are configured, unless an edit *)
(* of one was cut short or raced with the command line.                    *)
OnlyConfiguredShown ==
    \A c \in Calls : pc[c] = "reply" => shown[c] \subseteq known[c] \cup astray

(* Add and remove last: repositories.yaml has for each repository what the *)
(* last edit of it wrote, although every edit rewrites the whole file from *)
(* a copy, except for edits of the command line made meanwhile and a kill  *)
(* during the write.                                                       *)
EditsStick == \A r \in Repos \ astray : EntriesOf(config)[r] = want[r]

(* The repositories configured are those the edits made, and what a        *)
(* listing shows is among them.                                            *)
ConfigurationHolds == EditsStick /\ OnlyConfiguredShown

(* What details, values, install and upgrade answer comes from an index    *)
(* that has the chart, and has the version asked for or is the chart's     *)
(* latest: what is not there is an error, never something else's. A        *)
(* relative URL is resolved against the URL the index is from, unless an   *)
(* edit was cut short or the command line changed the entry.               *)
ServesWhatIsThere ==
    \A c \in Calls : answer[c] # None =>
        LET a == answer[c] IN
        /\ a.chart \in ChartsOf(a.index) /\ a.pick \in a.index.offer
        /\ IF a.version = None THEN a.pick = Latest(a.index, a.chart)
           ELSE a.pick.version = a.version
        /\ req[c].repo \in astray \cup foreign \/ a.base = a.index.url

=============================================================================
