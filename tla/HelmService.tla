----------------------------- MODULE HelmService -----------------------------
(***************************************************************************)
(* Business calls of the Helm backend: the LockedService of                *)
(* applications/lock, the snapshots every call takes of the active         *)
(* cluster, the configuration and discovery caches of applications/helm,   *)
(* and the goroutines that installs, upgrades and cleanups leave running   *)
(* after the call returned.                                                *)
(*                                                                         *)
(* HelmSpec is the program: the event streams write the provider directly  *)
(* (main.go hands the dispatcher the provider, not the LockedService),     *)
(* here as the steps of ActiveCluster, which ClusterProvider implements.   *)
(* LockedSpec is the design the comments of lock.go describe: a switch is  *)
(* a call of LockedService.SetActiveContext.                               *)
(***************************************************************************)
EXTENDS ActiveCluster

CONSTANTS
    Calls,    \* concurrent HTTP requests, each handled once
    AllNs     \* the namespace "": all namespaces

ASSUME AllNsAssumption == AllNs \notin Namespaces

VARIABLES
    pc,              \* where each call is
    req,             \* what each call has been asked and has read so far
    configCache,     \* (context, namespace) -> action.Configuration or Nil
    discoveryCache,  \* context -> the cluster whose kinds are cached, or Nil
    overlapped       \* history: the client was once swapped under a locked call

callVars == <<pc, req, configCache, discoveryCache>>
vars     == <<activeVars, callVars, overlapped>>

(* list: ListHelmReleases. release: Get, history, rollback, delete. deploy: *)
(* InstallHelmChart, UpgradeHelmRelease. cleanup:                           *)
(* DeleteHelmReleaseWithCleanup. edit: Add/RemoveHelmRepository. switch:    *)
(* LockedService.SetActiveContext.                                          *)
ReadKinds == {"list", "release", "deploy", "cleanup"}
Kinds     == ReadKinds \cup {"edit", "switch"}

(* A configuration is bound to a cluster and to a storage namespace.        *)
Configs == [client : Clusters, ns : Namespaces \cup {AllNs}]
Keys    == [ctx : Labels \cup {NoLabel}, ns : Namespaces \cup {AllNs}]

Requests ==
    [kind   : Kinds,
     ns     : Namespaces \cup {AllNs},
     label  : Labels \cup {NoLabel},   \* activeCtx of the first snapshot
     client : Clusters \cup {Nil},     \* cs, rc of the first snapshot
     rc     : Clusters \cup {Nil},     \* rc of getOrCreateConfig's snapshot
     cfg    : Configs \cup {Nil},
     kindsOf : Clusters \cup {Nil}]    \* cluster whose discovery is used

(* The steps of a call under the read lock, and of its goroutine after it.  *)
Locked     == {"snapshot", "namespaces", "index", "provider", "lookup",
               "init", "run"}
Background == {"deploying", "discover", "store", "sweep"}
PCs        == Locked \cup Background
                \cup {"idle", "rlock", "lock", "editing", "switching", "done"}

CallTypeOK ==
    /\ pc \in [Calls -> PCs]
    /\ req \in [Calls -> Requests]
    /\ configCache \in [Keys -> Configs \cup {Nil}]
    /\ discoveryCache \in [Labels \cup {NoLabel} -> Clusters \cup {Nil}]
    /\ overlapped \in BOOLEAN

NewRequest(kind, ns) ==
    [kind |-> kind, ns |-> ns, label |-> NoLabel, client |-> Nil, rc |-> Nil,
     cfg |-> Nil, kindsOf |-> Nil]

CallInit ==
    /\ pc = [c \in Calls |-> "idle"]
    /\ req = [c \in Calls |-> NewRequest("list", AllNs)]
    /\ configCache = [k \in Keys |-> Nil]
    /\ discoveryCache = [l \in Labels \cup {NoLabel} |-> Nil]
    /\ overlapped = FALSE

-----------------------------------------------------------------------------
Step(c, from, to) == pc[c] = from /\ pc' = [pc EXCEPT ![c] = to]
Returns(c, from)  == Step(c, from, "done")
CachesUnchanged == UNCHANGED <<configCache, discoveryCache>>

(* The HTTP server runs each request in a goroutine of its own. Listing     *)
(* asks for no namespace, the others name one.                              *)
Begin(c, kind, ns) ==
    /\ open
    /\ (ns = AllNs) <=> (kind \in {"list", "edit", "switch"})
    /\ Step(c, "idle", IF kind \in ReadKinds THEN "rlock" ELSE "lock")
    /\ req' = [req EXCEPT ![c] = NewRequest(kind, ns)]
    /\ CachesUnchanged

(* sync.RWMutex: a waiting writer keeps new readers out.                    *)
Readers == {c \in Calls : pc[c] \in Locked}
Writers == {c \in Calls : pc[c] \in {"editing", "switching"}}

(* Faulty variant: a reader also waits while another request is queued.     *)
RLock_YieldsToQueue(c) ==
    /\ Writers = {} /\ \A d \in Calls : pc[d] # "lock"
    /\ \A d \in Calls \ {c} : pc[d] # "rlock"
    /\ Step(c, "rlock", "snapshot")
    /\ UNCHANGED req /\ CachesUnchanged

RLock(c) ==
    /\ Writers = {} /\ \A d \in Calls : pc[d] # "lock"
    /\ Step(c, "rlock", "snapshot")
    /\ UNCHANGED req /\ CachesUnchanged

(* Faulty variant: the write paths take the read lock.                      *)
Lock_Shared(c) ==
    /\ Writers = {}
    /\ Step(c, "lock", IF req[c].kind = "edit" THEN "editing" ELSE "switching")
    /\ UNCHANGED req /\ CachesUnchanged

Lock(c) ==
    /\ Readers = {} /\ Writers = {}
    /\ Step(c, "lock", IF req[c].kind = "edit" THEN "editing" ELSE "switching")
    /\ UNCHANGED req /\ CachesUnchanged

(* AddHelmRepository, RemoveHelmRepository: no cluster state is touched.    *)
EditRepositories(c) ==
    /\ Returns(c, "editing")
    /\ UNCHANGED req /\ CachesUnchanged

(* The first GetActiveContext of every call, and the nil checks after it:   *)
(* the context label itself is not checked.                                 *)
SnapshotNil(c) ==
    /\ client = Nil
    /\ Returns(c, "snapshot")
    /\ UNCHANGED req /\ CachesUnchanged

AfterSnapshot(kind) == CASE kind = "list"   -> "namespaces"
                         [] kind = "deploy" -> "index"
                         [] OTHER           -> "provider"

(* Faulty variant: the nil checks after the snapshot are missing.           *)
Snapshot_NoNilCheck(c) ==
    /\ Step(c, "snapshot", AfterSnapshot(req[c].kind))
    /\ req' = [req EXCEPT ![c].label = label, ![c].client = client]
    /\ CachesUnchanged

Snapshot(c) ==
    /\ client # Nil
    /\ Step(c, "snapshot", AfterSnapshot(req[c].kind))
    /\ req' = [req EXCEPT ![c].label = label, ![c].client = client]
    /\ CachesUnchanged

(* ListHelmReleases: a single selected namespace is listed by itself, any   *)
(* other selection by listing all namespaces and filtering.                 *)
Listed == IF \E n \in Namespaces : namespaces = {n}
            THEN CHOOSE n \in Namespaces : namespaces = {n}
            ELSE AllNs

ReadNamespaces(c) ==
    /\ Step(c, "namespaces", "provider")
    /\ req' = [req EXCEPT ![c].ns = Listed]
    /\ CachesUnchanged

(* Install and upgrade first find and download the chart, up to 60 s; an    *)
(* unknown repository, chart, version or URL ends the call.                 *)
DownloadChart(c) ==
    /\ \/ Step(c, "index", "provider")
       \/ Returns(c, "index")
    /\ UNCHANGED req /\ CachesUnchanged

(* getOrCreateConfig. It takes a snapshot of its own, but files and looks   *)
(* up the configuration under the label of the call's first snapshot. Its   *)
(* nil check cannot fail: the client never becomes nil again.               *)
ReadProvider(c) ==
    /\ Step(c, "provider", "lookup")
    /\ req' = [req EXCEPT ![c].rc = client]
    /\ CachesUnchanged

(* Faulty variant: one configuration per context, whatever the namespace.   *)
KeyOf_ContextOnly(r) == [ctx |-> r.label, ns |-> AllNs]

KeyOf(r) == [ctx |-> r.label, ns |-> r.ns]

LookupHit(c) ==
    /\ configCache[KeyOf(req[c])] # Nil
    /\ Step(c, "lookup", "run")
    /\ req' = [req EXCEPT ![c].cfg = configCache[KeyOf(req[c])]]
    /\ CachesUnchanged

LookupMiss(c) ==
    /\ configCache[KeyOf(req[c])] = Nil
    /\ Step(c, "lookup", "init")
    /\ UNCHANGED req /\ CachesUnchanged

InitConfig(c) ==
    /\ Step(c, "init", "run")
    /\ LET cfg == [client |-> req[c].rc, ns |-> req[c].ns] IN
          /\ req' = [req EXCEPT ![c].cfg = cfg]
          /\ configCache' = [configCache EXCEPT ![KeyOf(req[c])] = cfg]
    /\ UNCHANGED discoveryCache

InitConfigFails(c) ==
    /\ Returns(c, "init")
    /\ UNCHANGED req /\ CachesUnchanged

(* The Helm action, on the cluster and namespace of cfg. Install and        *)
(* upgrade return here and go on in a goroutine, as does the cleanup after  *)
(* its synchronous uninstall; both may also fail and just return.           *)
Run(c) ==
    /\ \/ req[c].kind = "deploy"  /\ Step(c, "run", "deploying")
       \/ req[c].kind = "cleanup" /\ Step(c, "run", "discover")
       \/ Returns(c, "run")
    /\ UNCHANGED req /\ CachesUnchanged

(* The goroutine of an install or upgrade: Helm runs with cfg, five minutes *)
(* at most, then the event is emitted.                                      *)
FinishDeploy(c) ==
    /\ Returns(c, "deploying")
    /\ UNCHANGED req /\ CachesUnchanged

(* The goroutine of a cleanup works with the first snapshot: its discovery  *)
(* result is cached under that label, its deletes go to that client.        *)
DiscoverHit(c) ==
    /\ discoveryCache[req[c].label] # Nil
    /\ Step(c, "discover", "sweep")
    /\ req' = [req EXCEPT ![c].kindsOf = discoveryCache[req[c].label]]
    /\ CachesUnchanged

(* Faulty variant: discovery runs on the cluster of the configuration.      *)
DiscoverMiss_OfConfig(c) ==
    /\ discoveryCache[req[c].label] = Nil
    /\ \/ Step(c, "discover", "store") /\ req' = [req EXCEPT ![c].kindsOf = req[c].cfg.client]
       \/ Step(c, "discover", "sweep") /\ UNCHANGED req
       \/ Returns(c, "discover") /\ UNCHANGED req
    /\ CachesUnchanged

DiscoverMiss(c) ==
    /\ discoveryCache[req[c].label] = Nil
    /\ \/ Step(c, "discover", "store") /\ req' = [req EXCEPT ![c].kindsOf = req[c].client]
       \/ Step(c, "discover", "sweep") /\ UNCHANGED req      \* discovery failed
       \/ Returns(c, "discover") /\ UNCHANGED req            \* no dynamic client
    /\ CachesUnchanged

StoreDiscovery(c) ==
    /\ Step(c, "store", "sweep")
    /\ discoveryCache' = [discoveryCache EXCEPT ![req[c].label] = req[c].kindsOf]
    /\ UNCHANGED <<req, configCache>>

Sweep(c) ==
    /\ Returns(c, "sweep")
    /\ UNCHANGED req /\ CachesUnchanged

CallStep(c) ==
    \/ RLock(c) \/ Lock(c) \/ EditRepositories(c)
    \/ SnapshotNil(c) \/ Snapshot(c) \/ ReadNamespaces(c) \/ DownloadChart(c)
    \/ ReadProvider(c) \/ LookupHit(c) \/ LookupMiss(c)
    \/ InitConfig(c) \/ InitConfigFails(c) \/ Run(c)
    \/ FinishDeploy(c)
    \/ DiscoverHit(c) \/ DiscoverMiss(c) \/ StoreDiscovery(c) \/ Sweep(c)

BeginRead(c) == \E kind \in Kinds \ {"switch"}, ns \in Namespaces \cup {AllNs} :
                    Begin(c, kind, ns)

CallNext == /\ \E c \in Calls : BeginRead(c) \/ CallStep(c)
            /\ UNCHANGED <<activeVars, overlapped>>

(* The streams, at any time.                                                *)
ProviderNext ==
    /\ ActiveNext
    /\ overlapped' = (overlapped \/ (client' # client /\ Readers # {}))
    /\ UNCHANGED callVars

HelmInit == ActiveInit /\ CallInit
HelmNext == CallNext \/ ProviderNext

HelmSpec == HelmInit /\ [][HelmNext]_vars

(* Every goroutine is scheduled, and each of its steps ends: downloads,     *)
(* Helm actions and sweeps run under a timeout.                             *)
HelmFairness ==
    \A c \in Calls : WF_vars(CallStep(c) /\ UNCHANGED <<activeVars, overlapped>>)
FairHelmSpec == HelmSpec /\ HelmFairness

-----------------------------------------------------------------------------
(* The design of lock.go: no stream writes the provider. Its                *)
(* SetActiveContext swaps the client under the write lock, and              *)
(* Service.SetActiveContext drops both caches when that succeeded, also if  *)
(* the provider found nothing to change.                                    *)
DropCaches ==
    /\ configCache' = [k \in Keys |-> Nil]
    /\ discoveryCache' = [l \in Labels \cup {NoLabel} |-> Nil]

(* Faulty variant: the caches survive the switch.                           *)
SwitchLocked_KeepsCaches(c, t) ==
    /\ Returns(c, "switching")
    /\ Install(t)
    /\ UNCHANGED <<configCache, discoveryCache, req, namespaces, confirmed, open,
                   overlapped>>

SwitchLocked(c, t) ==
    /\ Returns(c, "switching")
    /\ Install(t)
    /\ DropCaches
    /\ UNCHANGED <<req, namespaces, confirmed, open, overlapped>>

SwitchLockedFails(c) ==
    /\ Returns(c, "switching")
    /\ UNCHANGED <<req, configCache, discoveryCache, activeVars, overlapped>>

LockedNext ==
    \/ CallNext
    \/ (Open \/ \E t \in Clusters : Seed(t)) /\ UNCHANGED <<callVars, overlapped>>
    \/ \E c \in Calls :
          \/ Begin(c, "switch", AllNs) /\ UNCHANGED <<activeVars, overlapped>>
          \/ \E t \in Clusters : SwitchLocked(c, t)
          \/ SwitchLockedFails(c)

LockedSpec == HelmInit /\ [][LockedNext]_vars

FairLockedSpec ==
    /\ LockedSpec /\ HelmFairness
    /\ \A c \in Calls : WF_vars(SwitchLockedFails(c) \/ \E t \in Clusters : SwitchLocked(c, t))
-----------------------------------------------------------------------------
HasSnapshot(c) == pc[c] \in (Locked \ {"snapshot"}) \cup Background
HasConfig(c)   == pc[c] \in {"run"} \cup Background

(* A call acts in the namespace it was asked for: no configuration cached  *)
(* for one storage namespace serves another.                               *)
NamespaceIsolation == \A c \in Calls : HasConfig(c) => req[c].cfg.ns = req[c].ns

(* The label and the client a call reads first belong together, whatever   *)
(* the streams do meanwhile.                                               *)
SnapshotNamesItsCluster ==
    \A c \in Calls : HasSnapshot(c) /\ req[c].label # NoLabel
        => req[c].client.ctx = req[c].label

(* Discovery results are filed under the context they came from, although  *)
(* they are fetched and stored after the call has let go of the lock.      *)
DiscoveryOfItsContext ==
    \A l \in Labels : discoveryCache[l] # Nil => discoveryCache[l].ctx = l

(* What a call takes with it past the lock is of one cluster, and so is    *)
(* what its goroutine leaves in the cache under that cluster's name.       *)
LabelsAreTrue == SnapshotNamesItsCluster /\ DiscoveryOfItsContext

(* The one way a configuration for one context gets filed under another:   *)
(* the client was swapped while a call held the read lock, between its two *)
(* snapshots. Clearing the label, a failed load, other calls or the        *)
(* goroutines they left behind cannot do it.                               *)
MisfiledOnlyByOverlap ==
    ~overlapped => \A k \in Keys : k.ctx # NoLabel /\ configCache[k] # Nil
                        => configCache[k].client.ctx = k.ctx

(* While repositories.yaml and an index file are being rewritten no other  *)
(* call runs, a switch through the lock included.                          *)
EditsAlone ==
    \A c \in Calls : pc[c] \in {"editing", "switching"} =>
        \A d \in Calls \ {c} : pc[d] \notin Locked \cup {"editing", "switching"}

(* Liveness: every request that arrived is answered and its goroutine      *)
(* ends; readers and the writer do not block each other for ever.          *)
CallsReturn == \A c \in Calls : pc[c] \in {"rlock", "lock"} ~> pc[c] = "done"

(* The following hold of LockedSpec and are what the comments promise.     *)

(* helm.go:64: the configuration is one for the active context.            *)
ConfigOfItsContext ==
    \A c \in Calls : HasConfig(c) /\ req[c].label # NoLabel
        => req[c].cfg.client.ctx = req[c].label

(* helm_release.go:309-311, 350-352: the sweep deletes what the uninstall  *)
(* left behind, so both must act on one cluster.                           *)
OneClusterPerCleanup ==
    \A c \in Calls : req[c].kind = "cleanup" /\ HasConfig(c)
        => req[c].cfg.client = req[c].client

(* lock.go:10-15: a switch never races with a call in flight.              *)
SwitchWaitsForCalls ==
    [][client # Nil /\ client' # client => Readers = {}]_vars

(* Everything read under the lock is still true when it is used: the       *)
(* caches, and every call that holds the lock, know the provider's client. *)
ConfigsFollowClient ==
    /\ \A k \in Keys : configCache[k] # Nil => configCache[k].client = client
    /\ \A c \in Calls :
          /\ pc[c] \in Locked \ {"snapshot"} => req[c].client = client
          /\ pc[c] \in {"lookup", "init"} => req[c].rc = client
          /\ pc[c] = "run" => req[c].cfg.client = client
=============================================================================
