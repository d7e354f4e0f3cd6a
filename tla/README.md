# Specifications of galacius-plugins

TLA+ models of the two plugins of this repository, the TLC runs that check them
and the TLAPS proofs about them. Paths below are relative to `plugins/` unless
they say otherwise. `PROJECT.json` maps every definition to the lines it models.

To check a run: `tlc -config HelmService_calls.cfg MCHelmService.tla` (every
configuration is named `<module without MC>_<question>.cfg`). To check the
proofs: `tlapm HelmServiceProofs.tla`, and the same for every other module named
`*Proofs`.

## 1. The system

Two plugins of the Galacius desktop host. Each is a Go process that the host
starts and restarts, with an HTTP server on localhost, and a React frontend that
runs inside the host's window. The host, its plugin SDK (`packages/core`) and
the frontend's `@galacius/core` are **not in this repository**: where they matter
they are modelled from how the plugins use them, and marked external.

### 1.1 Inventory

| Part | State it keeps | Operations | Talks to |
|---|---|---|---|
| **Cluster provider** `helm/internal/adapters/infrastructures/kube` | clientset and rest config, context label, kubeconfig path, namespace filter, two "synced" channels, one RWMutex | build from `-kubeconfig`, `SetActiveContext`, `ClearActiveContext`, `Set/ClearActiveNamespaces`, `WaitForInitialSync`, getters | written by the event streams, read by every business call |
| **Event streams** `helm/internal/adapters/presentations/async` | one goroutine per topic | `handleClusterContext`, `handleActiveNamespaces`, `maybeAck` | the host's topics and its ack call |
| **Start-up** `helm/internal/main.go` | - | build the provider, start the streams, wait at most 5 s for the first messages, serve | all of the above |
| **Locked service** `helm/internal/applications/lock` | RWMutex | read lock around business calls, write lock around repository edits and `SetActiveContext` | the service |
| **Helm service** `helm/internal/applications/helm` | caches of `action.Configuration`, discovery results and repository indexes | list, get, history, install, upgrade, rollback, delete, delete with cleanup; charts, versions, values, repositories, catalog search | provider, Helm SDK, Kubernetes, Artifact Hub, event publisher |
| **Cleanup sweep** `helm_release.go:353-585` | goroutine-local | after an uninstall: delete what is left, owners first, then by label; one event | Kubernetes |
| **REST servers** `*/adapters/presentations/rest` | - | decode, call the service, answer | services |
| **Helm frontend** `helm/frontend/src` | react-query cache (releases, detail, charts, repositories) | queries, mutations with optimistic rows, handlers of `helm:*` events | REST server, events |
| **Monitor service** `resources-monitor/internal/applications/monitor` | current settings (mutex), sampler with its ticker, last sample | get/save/reset settings, snapshot, sampling loop | file store, collector, event publisher |
| **Settings store** `.../infrastructures/store` | `settings.json` | load, save by temporary file and rename | file system |
| **Monitor frontend** `resources-monitor/frontend/src` | settings query, form drafts, dragged row, live sample | edit, drag, submit, reset; footer widget | REST server, events |
| **Releases page** `helm/frontend/src/components/release`, upgrade tab | open drawer and its header's copy, modals, selected revision, tab | open, pick, confirm, cancel, upgrade | query cache, host's active context, REST server |
| **Charts page** `.../components/chart` | open drawer, picked version, install tab with its draft | open, pick, edit, reset, install | query cache, REST server |
| **Catalog search** `.../settings/HelmRepositoriesSelect.tsx`, `helm_repository.go:23` | search text, pages, next offset | type, scroll, fetch a page | Artifact Hub |

### 1.2 What is hard about it

* **Two streams, no order between them.** A cluster switch of the host is
  "clear" on both topics, wait for both acks, then "sync" on both. Context and
  namespaces are applied by different goroutines, may fail, may be late (the host
  goes on at its own timeout), and the last message is replayed to a stream that
  subscribes late.
* **Switch against calls in flight.** A call takes two snapshots of the provider
  (its own and `getOrCreateConfig`'s), files a configuration in a cache, and may
  leave a goroutine running for minutes after it has returned.
* **The cleanup** runs against a cluster that garbage-collects, whose operators
  recreate objects, and in which the release may meanwhile be installed again.
* **The release table** is written by optimistic updates, by fetches and by
  invalidations, from replies and events that overtake each other.
* **Chart repositories** are three kinds of files and copies of them in memory,
  edited in several steps without a transaction, and shared with the `helm`
  command line.
* **Pages over a query cache**: what is on screen may belong to the previous
  cluster, version or release while the next one loads; page and backend learn of a
  switch separately; callbacks of a mutation
  return to components that show something else by then.
* **Sampling in time**: whether a sample is degraded is judged from a gap that
  began under another interval.
* **The settings** exist four times (the frontend's query, memory, file, ticker) with
  no lock around all of them; the process may be killed, calls sent twice, and the
  query may be answered with what was saved before.

### 1.3 What makes each part correct

* Provider: a visible label names the client's cluster; the clear window is
  really empty; the filter belongs to the cluster; after any sequence of failures
  the provider follows the host's last word; start-up ends.
* Calls: a call acts in its namespace, on the cluster it has read, with a
  configuration of that cluster; caches never serve one cluster's results for
  another; edits of repositories run alone; every call returns.
* Sweep: "complete" is true; owners first; nobody else's objects; it ends.
* Table: when nothing is under way it shows the cluster; optimistic rows go away.
* Repositories: entries, index files and copies agree; edits last; a lookup finds
  the chart it was asked for.
* Pages: buttons act on what the user sees, once page and backend agree; a document
  is never taken for another version's; a late callback closes nothing but its own
  drawer; no edit is lost.
* Catalog: every enabled match before the end is shown, and the end is reported
  only where it is. (Not every match can be reached: section 5.)
* Sampling: a sample is degraded for a reason, and the footer recovers.
* Settings: the four copies agree; no kill loses them; no edit undoes another.

## 2. Modules

| Module | Models | Proofs |
|---|---|---|
| `ActiveCluster` | abstract: what the provider promises its readers | used by both below |
| `ClusterProvider` | provider, streams, start-up, host protocol; implements `ActiveCluster` | `ClusterProviderProofs` |
| `HelmService` | locks, snapshots, caches, calls and goroutines, over `ActiveCluster` | `HelmServiceProofs` |
| `CleanupSweep` | one `DeleteHelmReleaseWithCleanup` against a live cluster | `CleanupSweepProofs` |
| `ReleaseTable` | the frontend's release list against the backend's jobs | `ReleaseTableProofs` |
| `MonitorSettings` | tab, form, service, file, ticker | `MonitorProofs` |
| `RepoIndex` | repositories file, index files, their copies, add, remove, lookups, list of the settings tab | `RepoIndexProofs` |
| `ReleasePages` | table, drawer, modals and upgrade tab over the query cache and several clusters | `ReleasePagesProofs` |
| `ChartPages` | chart drawer and install tab over the query cache | `ChartPagesProofs` |
| `CatalogPaging` | catalog search: box, debounce, pages by offset | `ChartPagesProofs` |
| `MonitorViews` | sampling loop in time, samples on their way, footer, order list | `MonitorProofs` |
| `MC*` | instances for TLC | - |

Definitions whose name has an underscore suffix and that follow the comment
"Faulty variant" are not part of a specification: each is a plausible bug, put in
place of the definition it varies to see that the property it belongs to notices.

### 2.1 ActiveCluster and ClusterProvider

`ClusterProvider`'s `client`, `label`, `path`, `namespaces` are the provider's
fields (`provider.go:17-30`), `synced` its two Once-guarded channels. A stream
goroutine is `job[top]`: `Receive`, then one of the apply actions, then
`MarkSynced`, then `MaybeAck`, as in `handlers.go:26-57`. `SetActiveContext` has
three outcomes: nothing to change (`cluster.go:21-26`), swapped, failed with the
fields as they were; in all three the channel is closed (`cluster.go:63`). `boot`
follows `main.go`: `BuildSeeded` picks the kubeconfig's current context, the
*guess*; `WaitForContext`, `WaitForNamespaces` and `WaitTimesOut` are the selects
of `WaitForInitialSync` under one deadline. The host (`HostClear`, `HostSync`,
`HostAcked`, `HostTimesOut`) and topic delivery (`Subscribe`, `Publish`) are
external: in order within a topic, last message replayed to a new subscriber.

The write under the provider's mutex is one step. Its check under the read lock
(`cluster.go:21-26`) is joined to it: the context stream is the only writer.

`ActiveCluster` has four fields and two history bits and no streams: `Seed`,
`Follow`, `Withdraw`, `Select`, `Open`. Its one rule with content is the guard of
`Follow`: a cluster chosen by the host is replaced only after it was withdrawn
(or by itself). `ImplementsActiveCluster` is the refinement, with `confirmed`
mapped to "the host chose the client's cluster" and `open` to "serving". It lets
`HelmService` run its calls against the abstract provider instead of the streams.

### 2.2 HelmService

A request is `pc[c]` and `req[c]`, what it has read so far. Kinds that differ in
no shared state are one kind: `release` is get, history, rollback and delete.
The steps are the accesses to shared state: taking the lock (`RLock`, `Lock`; a
waiting writer keeps new readers out, as Go's RWMutex does), the first snapshot
(`Snapshot`, `SnapshotNil`), the filter (`ReadNamespaces`), the second snapshot
(`ReadProvider`), the cache (`LookupHit`, `LookupMiss`, `InitConfig`), the Helm
action (`Run`), and for a cleanup's goroutine the discovery cache. Helm's own work
is one step that may fail.

Two specifications share these calls:

* `HelmSpec`, the program: `main.go:84` hands the *provider* to the dispatcher, so
  its fields change at any time (`ProviderNext`).
* `LockedSpec`, the design that `lock.go:10-15` describes: a switch is the call
  `LockedService.SetActiveContext`, under the write lock, and drops both caches.

### 2.3 CleanupSweep

`manifest` is a sequence of parsed resources; `pc` and `i` walk the code's loops:
owners of every resource (`FetchOwners`), passes that delete whatever has no
undeleted owner left in the manifest (`BeginPass`, `SkipEntry`, `DeleteEntry`,
`EndPass`) until a pass makes no progress, five seconds of grace, the three label
sweeps (`List`, `DeleteItem`), the event (`Report`). Every call to Kubernetes may
fail; `Expire` is the 60 s deadline or shutdown. `Collect`, `Recreate` and
`Reinstall` are the cluster and the user.

### 2.4 ReleaseTable

`cluster` is the status of each release's latest revision; `job[j]` an operation
of the user with the backend's position in it; `replies` and `events` what is on
its way to the frontend, in any order; `table`, `hasData`, `fetch`, `answer` the
list query. `Invalidate` is react-query's: it restarts a fetch under way, unless
the query has no data yet. `owed` is a history variable with the *reasons* why the
table may differ from the cluster; the properties claim that the list of reasons
is complete.

### 2.5 MonitorSettings

A call goes through `SaveSettings`' steps: temporary file, rename, copy, ticker.
A save answers with the request as it came, before clamping (`handlers.go:56`), so
properties compare after clamping. `Crash` kills the backend; a call that loses its
connection is sent once more (`fetchWithRetry`, external).

`tab` is the data of the settings query. The footer, which is always there, and the
settings tab share it, and it is never fresh (`useGetSettings.ts:7-12` sets no
`staleTime`): `OpenTab` shows the copy there is and fetches in the background,
`Refetch` is the network coming back. A `fetch` is asked (`Ask`), reads the backend's
copy (`FetchReads`) and replaces `tab` whatever was saved meanwhile (`Fetched`): no
save cancels it. It is not repeated when it fails (`FetchFails`). `form` is the
thresholds form's draft, what it was last synced to, and its dirty flag; `Sync` is
the assignment during render (`ThresholdsSection.tsx:33-36`).

A start, the first one or after a kill, may fail to read a good file and then takes
the defaults (`settings_store.go:59-60`), as for a missing or corrupt one.

`doubt`, `crossed` and `rash` are history. `doubt` has the parts that may be upset:
all of them after calls that overlapped, a call that failed after it was sent twice,
or a misread file (`Upset`), until a call that ran alone succeeds; the frontend's
copy (`"tab"`) after an answer that was on its way together with a call (`crossed`),
until the next call or fetch, and the fields, too, if an edit is built from such a
copy. `rash` says that the form was typed in during its save, or that this save
failed. The tab is opened once: closing it loses the draft, and nothing is claimed
about that.

### 2.6 RepoIndex

`config` is `repositories.yaml`, `files` the `<name>-index.yaml` files, `cache` the
service's copies with their version maps, `listed` the settings tab's list, which
decides what may be added (the catalog offers only names not in it) or removed. An
edit walks the code's order under the write lock: add is `Load`, `Fetch` (the index
file changes first), `Write`, `Drop` (the copy); remove is `Load`, `Write`,
`Unlink`, `Drop`. Each step may fail, and `Crash` may fall between any two; a file
being written then may end up empty or unreadable, because the SDK writes in place
(external, as is which error it returns for a missing file: `Load` and `LoadFails`
are both possible then). Readers are `Hit` or `LoadIndex` and `Store`, once per
repository in a listing; details, values, install and upgrade share `Resolve`.
`Expire` forgets a copy instead of letting it grow old: `getIndex` treats the two
alike. `CliAdd`, `CliUpdate` and `CliRemove` are the `helm` command line, which
knows nothing of the lock or the copies; each is one step.

`want`, `seen`, `known`, `raced`, `astray` and `foreign` are history. `astray` has
the repositories whose entry and index file an edit may have left apart: it failed
or died between the two, or overwrote an edit of the command line.

### 2.7 ReleasePages

A release is its latest revision in each cluster, `revs`. The page and the backend
learn of a switch separately. `chosen` is what the host has chosen (`HostChooses`);
`ctx`, the page's `activeContext`, follows with `Switch`, which changes the keys of
its queries; the backend's client is bound to `backend`, which follows the messages
`coming` with `Follow`, or stays as it is when a cluster does not load
(`cluster.go:63`). `ClusterProvider` has these messages in full; here they come in
order and may be as late as they like. `InStep` says that all three agree and
nothing is coming.

`cache` and `fetch` are the query cache: `fetch[k]` is the set of clusters the
backend was bound to while the request was under way, and any of them may have made
the answer (`Answer`). Lists and details have the context in their key, histories do
not (`useGetHelmReleaseHistory.ts`). `Table` keeps the rows of the previous key as a
placeholder. `Invalidated` is react-query's invalidation of what is on screen;
`Refetch` is the host's, once its namespaces are set, by which a list that was
fetched too early is corrected (`useGetHelmReleases.ts:18-25`), and what comes back
with the network or the window.

Every step ends with `Render`, the effects that follow a state change: the header's
copy (`HeaderCopy`, the effect at `HelmReleaseDetailDrawer.tsx:283`), modals that
vanish with their row or header (`Surviving`), the rollback modal's default
(`Defaulted`), and callbacks of mutations whose component is gone (`Mounted`).
Effects run in the step that causes them: React flushes them before it handles the
next click. A mutation disables the buttons the code says it disables (`Pending`): a
row's Upgrade and Rollback wait for its deletions and decoding, not for a rollback
under way, and a confirmation for its own mutation only.

`steady`, `sure` and `calm` are history. A fetch is `steady` if it began in step and
the host has chosen nothing since; its answer is `sure` until a fetch of the key
fails. A modal, a tab or a call is `calm` if it was opened on a sure answer in step
and the host has chosen nothing since (`Calm`). Assumed: drawer and modals cover what
is under them; the page is shown only with a context; `openTab` with the key of an
existing tab shows that tab (host); editing in the upgrade tab is left out (as in
`ChartPages`, without refetches); optimistic rows are in `ReleaseTable`.

### 2.8 ChartPages

One chart. `Document(k)` is what the backend answers for a key, from the
publisher's current `index`; `Data` is `useQuery`'s result with the previous key's
data on hand (`keepPreviousData`). `DrawerLoading`
(`HelmChartDetailDrawer.tsx:40`) and `TrayLoading` (`HelmChartVersionTray.tsx:222`)
are the two conditions that keep these from being used. `Sync` is the assignment
during render at `:218`. `ever` is history: what was published under a version.
Left out: the readme, pauses of queries while offline (only the refetch on
reconnection is there), eviction of cached queries, more than one install tab per
chart (the host shows the existing one).

### 2.9 CatalogPaging

An entry is its position in Artifact Hub's matches. The backend fetches a window
of `PageSize`, drops disabled entries and reports more if the *window* was full
(`helm_repository.go:63-68`); the frontend's next offset is the number of entries
received (`getNextPageParam`), so windows overlap.

### 2.10 MonitorViews

Time passes in units longer than the 50 ms of slack (`sampler.go:111`). `due` and
`ticked` are Go's ticker with its channel of one; `ticker.Reset` drops a tick not
taken (Go 1.23). `Collect`, `Store` and `Emit` are the three parts of
`collectAndPublish` that others can see between. `ReconfigureSampler` is what a save
does to the loop; everything else about saves is in `MonitorSettings`. `Snapshot` is the
footer's first fetch, whose answer may replace a newer event until the next one.
The order list sends a whole new order (`Drop`), remembered by index. Events are
delivered in order (host). The footer has no timeout of its own: when the backend
dies it shows the last sample; that is the code's behaviour and nothing is claimed
about it. Collectors are abstracted to "a sample".

## 3. Runs

All passing runs are exhaustive. Times on two cores.

| Run | Bounds | States | Shows |
|---|---|---|---|
| `ClusterProvider_switches` | 2 switches, 2 clusters that differ in name and path, 1 filter | 0.5 M, 2 min | what readers may see, start-up, streams, refinement |
| `HelmService_calls` | 2 requests of any kind, 2 contexts, 1 path, symmetric requests | 0.5 M | the program's calls while streams switch |
| `HelmService_locked` | 3 requests, 2 contexts | 0.2 M, 2 min | the locked design: coherence, one cluster, liveness |
| `CleanupSweep_sweep` | 5 manifests x 4 owner relations x 4 discovery results | 0.3 M, 1 min | the sweep against everything at once |
| `ReleaseTable_table` | 2 operations, 2 releases of one name in 2 namespaces | 0.3 M, 1 min | settled table, optimistic rows |
| `MonitorSettings_settings` | 2 calls, 1 change of the form, 1 kill, 1 reconnection, 2 values per field, out-of-range stored interval, symmetric calls | 1.7 M, 1 min | agreement, durability, drafts |
| `RepoIndex_repos` | 2 calls, 2 repositories, 2 URLs, 1 command, 1 publication, 1 kill, an offer in which two charts share a version, symmetric calls | 0.6 M, 1 min | copies, listings, entries, lookups |
| `ReleasePages_pages` | 2 clusters, 2 releases of the same names, revisions to 2, 1 mutation, 3 turns (choices of the host, unasked fetches, drawers, tabs or row modals opened) | 1.9 M, 3 min | which cluster and release a click reaches |
| `ChartPages_charts` | 2 versions, 2 contents, 1 publication, 4 clicks, 1 reconnection; 3 searches of 4 to 7 matches in pages of 3 | 1.0 M, 3 min | documents of versions, edits; the catalog's end |
| `MonitorViews_views` | 2 intervals, 3 metrics, 2 edits, 1 unit late, 1 sample on its way | 1.0 M, 2 min | degraded samples, footer, drags |
| `HelmService_switch_races`, `ReleaseTable_errors` | | | expected violations, section 5 |

Why the bounds are enough. *Two switches* let a message of one switch meet the apply
of another, and a failed load follow a success; a third would repeat one of these.
*Two contexts*: all code compares labels for equality only. *Two requests* make one
that files and one that finds a cache entry, with a goroutine left by either; the
locked design needs three for a writer waiting between two readers. *Five
manifests*: owners before, after and between what they own, a duplicate, an empty
one; the discovery results are exact, older than the operator, with a kind of two
API groups, and empty. *Two jobs on two releases of one name* cover a reply, an
event and a fetch of different jobs overtaking each other, and rows confused by
name. *Two settings calls* overlap or follow one another, with the answer of a
fetch, a kill or a misread file before, between and after. *Two repository calls*
put a reader across an edit, or two edits on one file, or a listing after an edit
that failed; the command, the publication and the kill may each fall between any of
their steps. *Pages*: three turns let the host lead away and back under an open
modal, tab or fetch, and a late callback meet another release's drawer (the proofs
lift all of these bounds). *Chart pages*: four clicks open both views and turn each
to another version. *Catalog*: the searches have disabled entries on full pages, a
last page that is just full, and a first page of disabled entries only. *Monitor*:
two edits and one delay let a sample meet a reconfiguration on either side, and a
drag meet a save.

`MCChartPages` joins two components that share no state: a behaviour uses one of
them, so the run has the sum of their states, not the product.

`CHECK_DEADLOCK FALSE` is set where the system may come to rest: the host need not
switch, the user need not act, requests and jobs are each done once.
`HelmService_calls` needs no such line: its environment can always move.

### 3.1 Properties

* **ClusterProvider**: `ServedAsPublished` (a visible label names the loaded
  cluster; the guess is served only after a fault; the filter belongs to the
  cluster if acks were in time), `ClearWindow`, `QuietAgreesWithHost`,
  `BootFinishes`, `StreamsDrain`, `ImplementsActiveCluster`.
* **HelmService, as wired**: `NamespaceIsolation`, `LabelsAreTrue` (snapshots name
  the cluster they were taken of; discovery results are of their context),
  `MisfiledOnlyByOverlap` (the *only* way a configuration is filed under a wrong
  context is a swap between a call's two snapshots).
* **HelmService, locked**: `ConfigsFollowClient`, `OneClusterPerCleanup`,
  `CallsReturn`; `ConfigOfItsContext` is proved only.
* **CleanupSweep**: `SweepIsExact` ("complete" is true, and nobody else's objects
  are touched), `SweepReports`.
* **ReleaseTable**: `SettledTableIsTrue`, `PendingRowsResolve`.
* **MonitorSettings**: `SettledSettingsAgree` (copies agree and no edit undoes
  another, but for what `doubt` names), `KilledKeepsSettings`, `DraftSurvives`.
* **RepoIndex**: `CachedSinceEdit`, `ConfigurationHolds` (edits last; only
  configured repositories are listed), `ServesWhatIsThere`.
* **ReleasePages**: `HeaderAgrees`, `AimedWell` (a calm click reaches the cluster
  it was meant for), `NoForeignClose`.
* **ChartPages**: `DocumentsOfVersion`, `EditsSurvive`.
* **CatalogPaging**: `CompleteAtEnd`; `NothingSkipped` is proved only.
* **MonitorViews**: `DegradedHasReason`, `UnavailablePasses`, `DropMovesRow`.

### 3.2 Fairness

* *ClusterProvider*: weak fairness of each goroutine's steps (the Go scheduler), of
  start-up (its wait has a deadline: `provider.go:51`), and of the host finishing
  a switch it began (its waits have timeouts). Starting a switch is not fair.
* *HelmService*: weak fairness of each request's next step: downloads, Helm actions
  and sweeps run under timeouts (60 s, 5 min, 60 s). A request's arrival is not
  fair. Weak fairness of taking a lock is enough for `CallsReturn` because requests
  are finitely many and a waiting writer stops new readers.
* *CleanupSweep*: weak fairness of the goroutine. The deadline `Expire` is *not*
  fair: the sweep must end without it.
* *ReleaseTable*: weak fairness of backend jobs, deliveries and fetches; the user
  is not fair.
* *MonitorViews*: weak fairness of time, of the three steps of the loop and of the
  delivery of events. Lateness and edits are bounded and not fair: the footer must
  recover once they end. The first fetch is not fair, it may never be answered.
* *MonitorSettings*, *RepoIndex*, *ReleasePages*, *ChartPages* and *CatalogPaging*
  state safety properties only.

## 4. Proofs

Every theorem holds for all values of the constants that satisfy the assumptions
named with it. TLC checked each invariant used as a lemma, or the property it
serves, on the instance of section 3 first. All type invariants, safety
invariants and action properties of the passing runs are proved.

Assumptions that recur, and why the code satisfies them: `NullsAssumption` says
that the value standing for "none", "missing" or "nil" is not one of the data;
bounds on user actions, kills and the like are natural numbers, so no bound in a
guard matters to a theorem; `LatestAssumption` and its like in `ChartPages` and
`MonitorViews` say that a non-empty set of versions, or of intervals, has a
greatest element, as finite ones have (an index is a finite list, intervals have
a maximum).

### 4.1 ClusterProvider

`ClusterProviderProofs`, from `TargetsAssumption`, `FiltersAssumption`,
`SwitchAssumption` (the bound on switches is a natural number) and
`NullsAssumption` (the empty string is no name, nil is neither a cluster nor a
message).

* `ProviderTyped`. The proof uses `Typed`, `TypeOK` with the two topics apart from
  the rest, because a step disturbs one or the other.
* `Flow` is about the streams alone. It says of each topic that the last message of
  the stream is the last one published, that everything before it, the job under
  way included, is `Older`, and that the host holds an ack of its current message
  only if the topic is drained. Not one of these can be dropped: an ack proves
  something about the provider only because nothing older can be behind it. The
  lemmas on sequences (`OrderReceive`, `OrderPublish`) do the induction step.
* `ServedAsPublishedThm`, `ClearWindowThm`, `QuietAgreesWithHostThm`,
  `ImplementsActiveClusterThm`. The invariant `ProviderInv` adds to `Flow`:
  - `Startup`, `GuessWaits`: what holds before the streams run, and that a guess is
    served in time only if the context's first sync failed;
  - `Order`: two syncs of the context have a clear between them, on its way or
    applied (`Cut`). This is what makes every `SetActiveContext` a `Follow` of
    `ActiveCluster`;
  - `CtxApplied`, `NsApplied`: a drained topic left in the provider what its last
    message says;
  - `InTime`: as long as acks came in time, all syncs on their way or in force are
    of one switch (`InForce`). The host's next sync keeps it because both clears
    were acked, so, by `Flow`, both topics are drained and, by `CtxApplied` and
    `NsApplied`, nothing of the old cluster is left (`AckedIsClear`).

  `CtxCases` and `NsCases` classify every step once, as either topic sees it; each
  preservation lemma then has six or seven cases instead of twenty.

### 4.2 HelmService

`HelmServiceProofs`, for any finite or infinite sets of requests, labels, paths and
namespaces, from `NullsAssumption` and `AllNsAssumption`.

* `HelmTypeCorrect`. `CallTypeOK` is not inductive: a configuration built for a nil
  client would not be one. The strengthening `TypeInv` adds `ClientStays`: past the
  first snapshot's nil check the provider's client, and later the request's copy of
  it, is not nil, because no step of the provider makes a client nil again
  (`ClearActiveContext` leaves it). One lemma per group of steps.
* `NamespacesIsolated`. The invariant `NsInv` adds that every cached configuration
  has the namespace of its key; hits preserve it because lookup and filing use the
  same key, which the namespace of a request does not change in between.
* `LabelsAreTrueThm`, `MisfiledOnlyByOverlapThm`, of the program as wired. `NamesInv`
  adds that the provider's own label, when there is one, names its client; that
  discovery results about to be filed are of the request's client (`kindsOf`); and
  `UnderLock`: as long as no swap came between a call's two snapshots
  (`overlapped`), both are of the client the provider has now. A swap under the
  lock raises `overlapped`, so the exception in the property is the whole list of
  ways to misfile, for any number of calls.
* `LockedConfigsFollowClient`, `LockedOneCluster`, `LockedConfigOfItsContext`, of
  `LockedSpec`. `LockedInv` conjoins type correctness, `EditsAlone` (mutual
  exclusion of the switch and the steps under the read lock), `ConfigsFollowClient`,
  `SnapshotNamesItsCluster`, and the agreement of label and client past the
  snapshot. A call's step cannot change the client; a switch can, but then no
  request is under the read lock and both caches have just been dropped; a seed
  happens only while the client is nil, when no request holds anything. A cleanup's
  goroutine keeps what it had read under the lock, so uninstall and sweep agree.

With `ImplementsActiveClusterThm` these carry over to the provider with its
streams: the `ProviderNext` of `HelmSpec` is the `ActiveNext` it refines.

### 4.3 CleanupSweep

`CleanupSweepProofs`, from `ManifestsAssumption`, `KindsAssumption`,
`LabelledAssumption` (finitely many objects have the label, each is of one class),
`BystandersAssumption` (somebody else's objects are neither in a manifest nor
labelled) and `OwnersAssumption` (references are between objects).

`SweepIsExactThm`. The property is far from inductive. `SweepInv` adds

* `Foreign`: until discovery nothing is deleted by kind, and from then on, if
  discovery is exact, whatever a step removes or creates is the release's (`Moves`);
* `Fetched`: `ownerOf` holds only owners there are, and every tried resource had its
  owners tried before it;
* `Gone`: what was tried without a failure is gone *and stays gone*. An operator
  recreates an object only while its owner is there; the owner was tried earlier, so
  by `Gone` itself it is not;
* `Fixpoint`: a sweep without failure leaves its loop only when no resource is ready
  (`Settled`).

`AllTried` then shows that nothing is left at a fixpoint: among the untried
resources one has no owner of its own (`OwnersInOrder`), so it would be ready.

`SweepTyped`. The type invariant bounds the count the event reports, so it is about
cardinalities: nothing is counted twice, however often operators recreate it.
`Tally` is the strengthening: `deleted` is at most the keys tried plus the labelled
objects `Swept`, those a list has held and that are dealt with. `TallyGrows` shows,
with the library's facts on finite sets, that a successful delete adds to one of
the two what neither had; for the label sweep this needs that no object is in two
classes' lists and that a list holds only labelled objects that may be deleted,
pods only once they have ended (`Listing`).

### 4.4 ReleaseTable

`ReleaseTableProofs`, from `ReleasesAssumption` (there is a release, and it is a name
and a namespace) and `NullsAssumption`: `TableTypedThm`; `SettledTableIsTrueThm`.
The property speaks only of quiet states, so the invariant has to say what holds
while replies, events, fetches and invalidations overtake each other.

* `Life(j)`: a job answers once and sends at most one event, after all it does to
  the cluster, and nothing is noted of it before the frontend has heard of it.
* `Owes(j)`: the job changed the cluster and a message is yet to come that will
  invalidate the list.
* `Read`: an *answer* that is old by now will be replaced. Either a note of why it
  may be old outlives the answer's arrival, or a job `Owes` word, and no note of
  that job is due to go with the answer (`excused`). The last condition is needed:
  a job that owes word may end without an invalidation only by leaving a note, and
  a note that is already due to go would leave nothing.
* `Shown`: a *table* that is wrong has a note, or something is under way.

`SettledTableIsTrue` is `Shown` once nothing is under way. One lemma per group of
steps: the backend's, the frontend's, the query's, the user's.

### 4.5 Settings and sampling

`MonitorProofs`. First `MonitorSettings`, from `IntervalsAssumption` (the sliders'
and the default interval are between the limits; a stored one is any integer),
`BoundsAssumption` and `NullsAssumption`.

* `SettingsTyped`. `Shape` adds that a dirty form has a draft, that no call is made
  before there are settings, and that only a reset reads them back.
* `SettledSettingsAgreeThm`, `KilledKeepsSettingsThm`. `Copies` has three parts.
  `Overlap`: unless calls overlapped at most one is under way, and none together with
  a fetch that is not `crossed`. `Progress(c)`: what that call has got done is in the
  file, in memory and at the ticker, in this order, and what it did not mean to change
  is as wanted (`Carries`). `Agree`: with no call under way file, memory and ticker
  are in step, hold what is wanted, and so does the frontend's copy unless it is in
  doubt (`Settled`); before a call has changed the file, or when it failed unsent,
  they still do, and a call that was cut off and sent again may have changed the file
  but to what it is saving or what was there (`Halfway`); and what an uncrossed fetch
  has read is what memory still holds, so its arrival ends a doubt about the copy. A
  kill keeps `Agree` because the rename is the only step that changes the file, and
  start-up copies the file to memory and ticker; a start that cannot read it puts
  everything in doubt.
* `DraftSurvivesThm`, an action property. `Drafts`: the form's save is the only one
  of its kind under way and carries the draft, unless the user has typed on since.

Then `MonitorViews`, from `ViewsAssumption` (there is a longest interval, the first
order has no metric twice, the bounds are natural numbers).

* `ViewsTyped` holds although a save's reply may replace the order under a drag:
  every order there ever is has the same length. `MovedRows` says, position by
  position, what taking a row out and putting it back in gives, from lemmas about
  the community modules' `RemoveAt` and `InsertAt`; `MovedOrder` says that the result
  is an order with the dragged row at its new place and all others as they were.
  `DropMovesRowThm` is the same as an action property of the tab.
* `ClockThm`. `ClockInv` has the ticker always at the configured interval and, unless
  the loop was late or the interval changed (`upset`), the time since the last tick
  and the time to the next one add up to no more than the interval.
  `DegradedHasReasonThm` follows, by steps.

### 4.6 RepoIndex

`RepoIndexProofs`, from `VersionsAssumption`, `OffersAssumption`, `LatestAssumption`,
`CatalogAssumption`, `OfferedAssumption`, `NullsAssumption` and `BoundsAssumption`.
The invariants build on each other; `Same`, `Calm` and `Command` with the frame lemmas
say once what a call, a `helm` command or a kill leaves alone.

* `RepoTyped`. `Typed` adds what a call has at hand at each of its steps.
* `Exclusion`: while one call edits, no other edits or reads. It is what the lock of
  `applications/lock` gives, and every later proof uses it (`Alone`, `NoEdit`). Commands
  and kills are under no lock.
* `CachedSinceEditThm`. `SeenInv`: the file's contents are among those seen since the
  last edit, and so is what a reader is about to store.
* `ConfigurationHoldsThm`. `ConfigInv`: the copy of `repositories.yaml` an edit holds
  is that of the last edits except where a command or a cut came in between; this is
  why writing the *whole* copy back loses nobody else's edit. `ListInv`: a listing
  starts from what is configured or was left by an edit that was cut short
  (`ListsKnown`), and an unreadable file is in nobody's hands (`TornUnread`).
* `ServesWhatIsThereThm`. `FilesInv`: entry and index file are of one URL, except in
  the middle of an edit (`Midway`) or where one was cut short (`astray`). `UrlInv`: so
  are the copies, and what a reader holds, except between an edit's write and its
  drop. `PickedIsThere` is about the lookup: it returns a chart and version the
  index has.

### 4.7 Releases page

`ReleasePagesProofs`, from `PagesAssumption` (no name is `None`, the bounds are natural
numbers).

* `PagesTyped`. Types alone are not inductive: they need that
  a confirmation has a revision (`Chosen`) and that rollback modals belong to rows.
  `BaseOK` is what the steps set, `RenderedOK` what the render at their end sets.
* `HeaderAgreesThm`. Every step ends in `Render` or leaves what the header is copied
  from alone (`RendersOrAside`).
* `NoForeignCloseThm`, from `DrawerOwn`: a modal of the drawer, and a mutation whose
  callback is still mounted there, are of the release the drawer shows.
* `AimedWellThm`. `CacheOwn`: while a fetch is steady page and backend are in step and
  it can only be answered by the cluster its key names (`Steady`), so a sure answer to
  a list or a detail is of the context of its key for good (`Answered`). `Aimed` says
  that whatever is calm is of the cluster the backend is bound to, which is `Where` a
  calm click may go: open modal and tab (`AimedOpen`), the history behind the modal
  (`AimedHistory`), a revision picked in it (`AimedPicks`) and the calls under way
  (`AimedCalls`). A choice of the host ends the calm of everything before page or
  backend can move.

### 4.8 Charts page and catalog

`ChartPagesProofs`. First `ChartPages`, from `ChartAssumption` and `NullsAssumption`.

* `ChartsTyped`. `PagesInv` adds to the types that what the index offers was offered
  (`Known`) and, of the install tab, that the values it has taken over are the chosen
  version's unless a fetch of them is under way, and that a version edited once has
  values (`Held`). `Rendering` and `RenderKeeps` are about the render at the end of
  every step.
* `DocumentsOfVersionThm` adds `Sending`: what an install sends was offered under its
  version. The proof goes through the two loading conditions, which are all that keeps
  `keepPreviousData` from showing one version's document as another's.
* `EditsSurviveThm`, an action property: an edit goes only with a reset, a change of
  version, or values that the publisher really changed. It needs `Held` before and
  after the step.

Then `CatalogPaging`, from `CatalogAssumption`: `CatalogTyped`; `NothingSkippedThm`,
that every enabled match below the next offset has been on a page (a page has no
more entries than its window, so the next offset never passes the window's end);
`CompleteAtEndThm`, because a window that is not full ends behind the last match.

### 4.9 Only model-checked

* Liveness, which is out of the prover's reach: `BootFinishes`, `StreamsDrain`,
  `CallsReturn`, `SweepReports`, `PendingRowsResolve`, `UnavailablePasses`.
* The two properties of section 5 that a run must find violated.
* Induction over data is out of reach too. Where a theorem needs its result, the
  module assumes it of a constant: that a set of versions has a greatest one
  (`LatestAssumption`, `ChartAssumption`), that there is a longest interval. TLC
  evaluates these assumptions on every run.

## 5. Where the code and its words differ

The first and the fourth have a run that must find a violation; the others were
found with the models, and the properties except or restrict them by name.

* **A switch races with calls in flight** (`HelmService_switch_races`). The streams
  write the provider directly (`main.go:84`), not through the lock whose comment
  says this "can never" happen. Consequences seen with the same model: a
  configuration for one cluster filed under another's label, which is then served
  until the process ends, because `Service.SetActiveContext`, the only place that
  drops the caches, is never called; a cleanup that uninstalls on one cluster and
  sweeps on another. `MisfiledOnlyByOverlap` and the proofs about the locked design
  show that the lock would be sufficient.
* **The clear window serves the old cluster**: calls check the client, which a
  clear leaves in place, never the label (`cluster.go:74-77` says a call finds "no
  active context" then).
* **Owners first**: a failed delete counts as done, which makes what it owns ready
  (`helm_release.go:447` says "Only delete if all manifest-owners have already been
  deleted.").
* **Error events do not refetch** (`ReleaseTable_errors`): the optimistic row of a
  failed install or upgrade stays.
* **Another chart may be served**: the version map of an index
  is keyed by version number alone, over all charts of the repository
  (`helm.go:100-107`). Details, values, installs and upgrades that name a version
  may use another chart with that number, and which one is up to Go's map order; a
  version only another chart has is not reported as missing. `ServesWhatIsThere` is
  what still holds.
* **The guess may be served** when the host's first cluster does not load: the wait
  ends whether or not the apply succeeded (`cluster.go:63`), while
  `dispatcher.go:48-52` says the first call is not served against the guess. The
  exception is a disjunct of `GuessServedOnlyOnFault`.

Behaviours the models show that contradict no sentence of the repository, and that
the properties except by name:

* a resource whose owner has the same kind and name but another API group waits for
  itself (`resKey` has no group, `helm_release.go:378-390`): it is never tried, the
  loop ends for lack of progress, and the event is "complete" all the same. The
  fourth owner relation of the run is of this kind; `OwnersInOrder` excepts it;
* a sweep deletes objects of the same release when it has been installed again
  meanwhile (`again`); a kind missing from a stale discovery result is skipped
  without an error, and a kind two API groups share may resolve to the other
  group's (`Exact`);
* overlapping saves may leave file, memory and ticker apart (`doubt`); an answer of
  the settings query that read the backend before a save may arrive after it, shows
  the old settings until the next call or fetch, and an edit made meanwhile saves them
  again (`doubt`); a start that cannot read a good settings file takes the defaults,
  and the next edit saves them over it (`doubt`); a change
  typed during a save of its form is taken for saved, and after a failed save the
  form claims there is nothing to save (`rash`);
* after a remove that could not delete the index file, or an add that could not
  write its entry, charts of a repository that is not configured are listed and the
  settings tab offers no way to remove them (`astray`); a retargeted entry is
  combined with the cached index of its old URL (`foreign`);
* a rollback modal that closes takes the current revision as its default at once if
  the history is cached, and offers that one when it is opened again, although the
  release may have been upgraded meanwhile; histories have no context in their key,
  so they may be of another cluster (`calm`);
* after a switch the first rows, details and history may still be the old cluster's,
  under the new one's key: the backend follows by messages of its own, and stays with
  the old client when the new cluster does not load. The race is named at
  `useGetHelmReleases.ts:18-25`; for the list it lasts until the host's invalidation
  or the next fetch, and a click on such a row, or in an upgrade tab or a modal that
  was open during the switch, goes to whatever cluster the backend is bound to by then
  (`calm`);
* a row dragged in the order list is remembered by its index
  (`MetricOrderList.tsx:83`): a save that comes back during the drag may put another
  row there, which is then moved instead;
* catalog windows overlap where entries were filtered, so entries are shown twice;
  if all of a window is disabled, the next offset is the same one again and
  scrolling fetches it for ever (the matches behind are never reached, which
  `CompleteAtEnd` allows: there is always a next page);
* the charts table keeps the filter on a repository that was removed, which its
  menu no longer offers (`HelmChartsView.tsx:42-59`).

## 6. Not modelled, and why

* Download and reshaping of chart documents, the Artifact Hub readme, `utils` that
  format: no state.
* REST routing and CORS, layout, DTOs, build scripts: I/O, wording, declarations,
  packaging.
* Collectors: arithmetic over the operating system's counters.
* Text search in the editors, the filter of the charts table, formats of the
  Display section: they decide nothing else.
* Finalizers and deletion propagation: a successful delete removes the object.

## 7. Plan

*(done)* All modules of section 2 with their runs; theorems for every safety
invariant and action property of the passing runs.

What is left: the refinement of `ActiveCluster` carried over, as a theorem, from the
provider with its streams to the calls of `HelmService`. The five hazards without
a property (the clear window, typing during a save, another chart's version, the
rollback modal's stale default, the dragged index) are behaviours of the code that
section 5 describes; a property would have to allow them.
