-------------------------- MODULE HelmServiceProofs --------------------------
(***************************************************************************)
(* Proofs about HelmService, for any number of requests, contexts, paths   *)
(* and namespaces: type correctness and namespace isolation of the program *)
(* as it is, and the coherence of the configuration cache under the locked *)
(* design.                                                                 *)
(***************************************************************************)
EXTENDS HelmService, TLAPS

(* What type correctness rests on: the nil checks after the first snapshot  *)
(* are enough, because the client never becomes nil again.                  *)
ClientStays ==
    \A c \in Calls :
        /\ pc[c] \in Locked \ {"snapshot"} => client # Nil
        /\ pc[c] \in {"lookup", "init"} => req[c].rc # Nil

TypeInv == ActiveTypeOK /\ CallTypeOK /\ ClientStays

(* Steps of the provider change only the provider's fields.                *)
LEMMA ProviderTyped ==
    ASSUME TypeInv, ActiveNext, UNCHANGED callVars, overlapped' \in BOOLEAN
    PROVE  TypeInv'
<1>1. ActiveTypeOK'
  BY DEF TypeInv, ActiveTypeOK, ActiveNext, Open, Withdraw, Seed, Follow,
         Select, Install, Clusters
<1>2. CallTypeOK'
  BY DEF TypeInv, CallTypeOK, callVars
<1>3. client # Nil => client' # Nil
  BY NullsAssumption DEF ActiveNext, Open, Withdraw, Seed, Follow, Select, Install
<1>4. QED
  BY <1>1, <1>2, <1>3 DEF TypeInv, ClientStays, callVars

(* A new request is well typed and holds nothing yet.                      *)
LEMMA BeginTyped ==
    ASSUME TypeInv, NEW c \in Calls, NEW kind \in Kinds,
           NEW ns \in Namespaces \cup {AllNs}, Begin(c, kind, ns),
           UNCHANGED <<activeVars, overlapped>>
    PROVE  TypeInv'
<1>1. NewRequest(kind, ns) \in Requests
  BY DEF NewRequest, Requests
<1>2. CallTypeOK'
  BY <1>1 DEF TypeInv, CallTypeOK, Begin, Step, CachesUnchanged, PCs
<1>3. ClientStays'
  BY DEF TypeInv, CallTypeOK, ClientStays, Begin, Step, Locked, activeVars
<1>4. QED
  BY <1>2, <1>3 DEF TypeInv, ActiveTypeOK, activeVars

(* The steps of a call keep requests and caches well typed.                *)
LEMMA CallStepTyped ==
    ASSUME TypeInv, NEW c \in Calls, CallStep(c),
           UNCHANGED <<activeVars, overlapped>>
    PROVE  TypeInv'
<1> USE DEF TypeInv, CallTypeOK, ClientStays, Step, Returns, CachesUnchanged
<1>0. ActiveTypeOK' /\ client' = client /\ overlapped' = overlapped
  BY DEF ActiveTypeOK, activeVars
<1>1. CASE \/ RLock(c) \/ Lock(c) \/ EditRepositories(c) \/ SnapshotNil(c)
           \/ DownloadChart(c) \/ LookupMiss(c) \/ InitConfigFails(c)
           \/ Run(c) \/ FinishDeploy(c) \/ Sweep(c)
  <2>1. CallTypeOK'
    BY <1>0, <1>1 DEF RLock, Lock, EditRepositories, SnapshotNil,
          DownloadChart, LookupMiss, InitConfigFails, Run, FinishDeploy, Sweep,
          PCs, Locked, Background
  <2>2. ClientStays'
    BY <1>0, <1>1 DEF RLock, Lock, EditRepositories, SnapshotNil,
          DownloadChart, LookupMiss, InitConfigFails, Run, FinishDeploy, Sweep,
          Locked
  <2>3. QED
    BY <1>0, <2>1, <2>2
<1>2. CASE Snapshot(c)
  <2>1. AfterSnapshot(req[c].kind) \in {"namespaces", "index", "provider"}
    BY DEF AfterSnapshot
  <2>a. pc' \in [Calls -> PCs]
    BY <1>2, <2>1 DEF Snapshot, PCs, Locked
  <2>b. [req[c] EXCEPT !.label = label, !.client = client] \in Requests
    <3>1. req[c] \in Requests /\ label \in Labels \cup {NoLabel}
            /\ client \in Clusters \cup {Nil}
      BY DEF ActiveTypeOK
    <3>2. QED
      BY <3>1 DEF Requests
  <2>c. req' \in [Calls -> Requests]
    BY <1>2, <2>b DEF Snapshot
  <2>2. CallTypeOK'
    BY <1>0, <1>2, <2>a, <2>c DEF Snapshot
  <2>3. ClientStays'
    BY <1>0, <1>2, <2>1 DEF Snapshot, Locked
  <2>4. QED
    BY <1>0, <2>2, <2>3
<1>3. CASE ReadNamespaces(c)
  <2>1. Listed \in Namespaces \cup {AllNs}
    BY DEF Listed
  <2>2. CallTypeOK'
    BY <1>0, <1>3, <2>1 DEF ReadNamespaces, Requests, PCs, Locked
  <2>3. ClientStays'
    BY <1>0, <1>3 DEF ReadNamespaces, Locked
  <2>4. QED
    BY <1>0, <2>2, <2>3
<1>4. CASE ReadProvider(c)
  <2>1. CallTypeOK'
    BY <1>0, <1>4 DEF ReadProvider, ActiveTypeOK, Requests, PCs, Locked
  <2>2. ClientStays'
    BY <1>0, <1>4 DEF ReadProvider, Requests, Locked
  <2>3. QED
    BY <1>0, <2>1, <2>2
<1>5. KeyOf(req[c]) \in Keys
  BY DEF KeyOf, Keys, Requests
<1>6. CASE LookupHit(c)
  <2>1. CallTypeOK'
    BY <1>0, <1>5, <1>6 DEF LookupHit, Requests, PCs, Locked
  <2>2. ClientStays'
    BY <1>0, <1>6 DEF LookupHit, Locked
  <2>3. QED
    BY <1>0, <2>1, <2>2
<1>7. CASE InitConfig(c)
  <2>1. [client |-> req[c].rc, ns |-> req[c].ns] \in Configs
    BY <1>7 DEF InitConfig, Configs, Requests
  <2>2. CallTypeOK'
    BY <1>0, <1>5, <1>7, <2>1 DEF InitConfig, Requests, PCs, Locked
  <2>3. ClientStays'
    BY <1>0, <1>7 DEF InitConfig, Locked
  <2>4. QED
    BY <1>0, <2>2, <2>3
<1>8. req[c].label \in Labels \cup {NoLabel}
  BY DEF Requests
<1>9. CASE DiscoverHit(c) \/ DiscoverMiss(c)
  <2>1. CallTypeOK'
    BY <1>0, <1>8, <1>9 DEF DiscoverHit, DiscoverMiss, Requests, PCs, Background
  <2>2. ClientStays'
    BY <1>0, <1>9 DEF DiscoverHit, DiscoverMiss, Locked
  <2>3. QED
    BY <1>0, <2>1, <2>2
<1>10. CASE StoreDiscovery(c)
  <2>1. CallTypeOK'
    BY <1>0, <1>8, <1>10 DEF StoreDiscovery, Requests, PCs, Background
  <2>2. ClientStays'
    BY <1>0, <1>10 DEF StoreDiscovery, Locked
  <2>3. QED
    BY <1>0, <2>1, <2>2
<1>11. QED
  BY <1>1, <1>2, <1>3, <1>4, <1>6, <1>7, <1>9, <1>10 DEF CallStep

LEMMA InitTyped == HelmInit => TypeInv
<1>1. NewRequest("list", AllNs) \in Requests
  BY DEF NewRequest, Requests, Kinds, ReadKinds
<1>2. QED
  BY <1>1 DEF HelmInit, ActiveInit, CallInit, TypeInv, ActiveTypeOK, CallTypeOK,
              ClientStays, PCs, Locked

LEMMA CallNextTyped == TypeInv /\ CallNext => TypeInv'
<1> SUFFICES ASSUME TypeInv, CallNext PROVE TypeInv'
  OBVIOUS
<1>1. PICK c \in Calls : BeginRead(c) \/ CallStep(c)
  BY DEF CallNext
<1>2. CASE BeginRead(c)
  BY <1>2, BeginTyped DEF BeginRead, CallNext
<1>3. QED
  BY <1>1, <1>2, CallStepTyped DEF CallNext

LEMMA HelmTypeStep == TypeInv /\ [HelmNext]_vars => TypeInv'
<1> SUFFICES ASSUME TypeInv, [HelmNext]_vars PROVE TypeInv'
  OBVIOUS
<1>1. CASE ProviderNext
  <2>1. overlapped' \in BOOLEAN
    BY <1>1 DEF ProviderNext
  <2>2. QED
    BY <1>1, <2>1, ProviderTyped DEF ProviderNext
<1>2. CASE UNCHANGED vars
  BY <1>2 DEF TypeInv, ActiveTypeOK, CallTypeOK, ClientStays, vars, activeVars,
              callVars
<1>3. QED
  BY <1>1, <1>2, CallNextTyped DEF HelmNext

(* Type correctness of the program, with the nil checks it relies on.      *)
THEOREM HelmTypeCorrect == HelmSpec => [](ActiveTypeOK /\ CallTypeOK)
<1>1. TypeInv /\ [HelmNext]_vars => TypeInv'
  BY HelmTypeStep
<1>2. TypeInv => ActiveTypeOK /\ CallTypeOK
  BY DEF TypeInv
<1>3. QED
  BY <1>1, <1>2, InitTyped, PTL DEF HelmSpec
-----------------------------------------------------------------------------
(* Namespace isolation is inductive together with the same fact about the   *)
(* cache: an entry is bound to the namespace it is filed under.             *)
NsInv == /\ \A k \in Keys : configCache[k] # Nil => configCache[k].ns = k.ns
         /\ NamespaceIsolation

LEMMA NsStep ==
    ASSUME TypeInv, NsInv, NEW c \in Calls, CallStep(c)
    PROVE  NsInv'
<1> USE DEF TypeInv, CallTypeOK, NsInv, NamespaceIsolation, HasConfig, Step,
            Returns, CachesUnchanged, Background
<1>1. KeyOf(req[c]) \in Keys /\ KeyOf(req[c]).ns = req[c].ns
  BY DEF KeyOf, Keys, Requests
<1>2. CASE InitConfig(c)
  <2> DEFINE cfg == [client |-> req[c].rc, ns |-> req[c].ns]
  <2>1. /\ configCache' = [configCache EXCEPT ![KeyOf(req[c])] = cfg]
        /\ req' = [req EXCEPT ![c].cfg = cfg]
        /\ pc' = [pc EXCEPT ![c] = "run"]
    BY <1>2 DEF InitConfig
  <2>2. req'[c].cfg = cfg /\ req'[c].ns = req[c].ns
    BY <2>1 DEF Requests
  <2>3. \A k \in Keys : configCache'[k] # Nil => configCache'[k].ns = k.ns
    BY <1>1, <2>1
  <2>4. NamespaceIsolation'
    BY <2>1, <2>2
  <2>5. QED
    BY <2>3, <2>4
<1>3. CASE LookupHit(c)
  <2>1. /\ req' = [req EXCEPT ![c].cfg = configCache[KeyOf(req[c])]]
        /\ pc' = [pc EXCEPT ![c] = "run"]
        /\ configCache[KeyOf(req[c])] # Nil
        /\ configCache' = configCache
    BY <1>3 DEF LookupHit
  <2>2. req'[c].cfg.ns = req[c].ns /\ req'[c].ns = req[c].ns
    BY <1>1, <2>1 DEF Requests
  <2>3. QED
    BY <2>1, <2>2
<1>4. CASE \/ RLock(c) \/ Lock(c) \/ EditRepositories(c) \/ SnapshotNil(c)
           \/ DownloadChart(c) \/ LookupMiss(c) \/ InitConfigFails(c)
           \/ Run(c) \/ FinishDeploy(c) \/ Sweep(c)
  BY <1>4 DEF RLock, Lock, EditRepositories, SnapshotNil, DownloadChart,
              LookupMiss, InitConfigFails, Run, FinishDeploy, Sweep
<1>5. CASE Snapshot(c)
  <2>1. AfterSnapshot(req[c].kind) \in {"namespaces", "index", "provider"}
    BY DEF AfterSnapshot
  <2>2. QED
    BY <1>5, <2>1 DEF Snapshot
<1>6. CASE ReadNamespaces(c) \/ ReadProvider(c)
  BY <1>6 DEF ReadNamespaces, ReadProvider
<1>7. CASE DiscoverHit(c) \/ DiscoverMiss(c) \/ StoreDiscovery(c)
  BY <1>7 DEF DiscoverHit, DiscoverMiss, StoreDiscovery, Requests
<1>8. QED
  BY <1>2, <1>3, <1>4, <1>5, <1>6, <1>7 DEF CallStep

LEMMA NsBegin ==
    ASSUME TypeInv, NsInv, NEW c \in Calls, BeginRead(c)
    PROVE  NsInv'
BY DEF TypeInv, CallTypeOK, NsInv, NamespaceIsolation, HasConfig, BeginRead,
       Begin, Step, CachesUnchanged, Background

(* A call acts in the namespace it was asked for, in every execution of the *)
(* program: the cache never hands out a configuration of another namespace. *)
THEOREM NamespacesIsolated == HelmSpec => []NamespaceIsolation
<1>1. HelmInit => NsInv
  BY DEF HelmInit, CallInit, NsInv, NamespaceIsolation, HasConfig, Background
<1>2. TypeInv /\ NsInv /\ [HelmNext]_vars => TypeInv' /\ NsInv'
  <2> SUFFICES ASSUME TypeInv, NsInv, [HelmNext]_vars PROVE TypeInv' /\ NsInv'
    OBVIOUS
  <2>1. TypeInv'
    BY HelmTypeStep
  <2>2. CASE CallNext
    BY <2>1, <2>2, NsStep, NsBegin DEF CallNext
  <2>3. CASE ProviderNext \/ UNCHANGED vars
    BY <2>1, <2>3 DEF ProviderNext, callVars, vars, NsInv, NamespaceIsolation, HasConfig
  <2>4. QED
    BY <2>1, <2>2, <2>3 DEF HelmNext
<1>3. NsInv => NamespaceIsolation
  BY DEF NsInv
<1>4. QED
  BY <1>1, <1>2, <1>3, InitTyped, PTL DEF HelmSpec
-----------------------------------------------------------------------------
(* The locked design. The cache and every call under the lock know the      *)
(* provider's client because a switch runs alone and empties the caches.    *)
LockedInv ==
    /\ TypeInv
    /\ EditsAlone
    /\ ConfigsFollowClient
    /\ label # NoLabel => client # Nil /\ client.ctx = label
    /\ SnapshotNamesItsCluster
    /\ \A c \in Calls : HasConfig(c) => req[c].cfg.client = req[c].client

LEMMA LockedInitial == HelmInit => LockedInv
BY InitTyped DEF HelmInit, ActiveInit, CallInit, LockedInv, EditsAlone,
   ConfigsFollowClient, SnapshotNamesItsCluster, HasSnapshot, HasConfig, Locked,
   Background

LEMMA LockedCallStep ==
    ASSUME LockedInv, NEW c \in Calls, CallStep(c),
           UNCHANGED <<activeVars, overlapped>>
    PROVE  LockedInv'
<1> USE DEF LockedInv
<1>0. TypeInv' /\ client' = client /\ label' = label
  BY CallStepTyped DEF activeVars
<1> USE DEF TypeInv, CallTypeOK, Step, Returns, CachesUnchanged
<1>1. EditsAlone'
  <2>1. CASE RLock(c) \/ Lock(c)
    BY <2>1 DEF RLock, Lock, EditsAlone, Readers, Writers, Locked
  <2>2. CASE Snapshot(c)
    <3>1. AfterSnapshot(req[c].kind) \in {"namespaces", "index", "provider"}
      BY DEF AfterSnapshot
    <3>2. QED
      BY <2>2, <3>1 DEF Snapshot, EditsAlone, Locked
  <2>3. CASE \/ EditRepositories(c) \/ SnapshotNil(c) \/ ReadNamespaces(c)
             \/ DownloadChart(c) \/ ReadProvider(c) \/ LookupHit(c)
             \/ LookupMiss(c) \/ InitConfig(c) \/ InitConfigFails(c) \/ Run(c)
             \/ FinishDeploy(c) \/ DiscoverHit(c) \/ DiscoverMiss(c)
             \/ StoreDiscovery(c) \/ Sweep(c)
    BY <2>3 DEF EditRepositories, SnapshotNil, ReadNamespaces, DownloadChart,
          ReadProvider, LookupHit, LookupMiss, InitConfig, InitConfigFails, Run,
          FinishDeploy, DiscoverHit, DiscoverMiss, StoreDiscovery, Sweep,
          EditsAlone, Locked
  <2>4. QED
    BY <2>1, <2>2, <2>3 DEF CallStep
<1>2. KeyOf(req[c]) \in Keys
  BY DEF KeyOf, Keys, Requests
<1> DEFINE Rest == /\ ConfigsFollowClient
                   /\ SnapshotNamesItsCluster
                   /\ \A d \in Calls : HasConfig(d)
                          => req[d].cfg.client = req[d].client
<1>3. Rest
  OBVIOUS
<1>4. ASSUME Rest'
      PROVE  LockedInv'
  BY <1>0, <1>1, <1>4
<1> HIDE DEF LockedInv
<1> USE DEF ConfigsFollowClient, SnapshotNamesItsCluster, HasSnapshot, HasConfig,
            Background, Locked
<1>t. TypeInv /\ CallTypeOK /\ ClientStays
  BY DEF LockedInv
<1>5. CASE RLock(c) \/ Lock(c) \/ EditRepositories(c) \/ SnapshotNil(c)
  BY <1>0, <1>3, <1>4, <1>5, <1>t DEF RLock, Lock, EditRepositories, SnapshotNil
<1>6. CASE Snapshot(c)
  <2>1. AfterSnapshot(req[c].kind) \in {"namespaces", "index", "provider"}
    BY DEF AfterSnapshot
  <2>2. /\ req' = [req EXCEPT ![c].label = label, ![c].client = client]
        /\ configCache' = configCache
        /\ pc' = [pc EXCEPT ![c] = AfterSnapshot(req[c].kind)]
    BY <1>6 DEF Snapshot
  <2>3. req'[c].label = label /\ req'[c].client = client
    BY <2>2, <1>t DEF Requests
  <2>4. label # NoLabel => client.ctx = label
    BY DEF LockedInv
  <2>5. QED
    BY <1>0, <1>3, <1>4, <1>t, <2>1, <2>2, <2>3, <2>4
<1>7. CASE DownloadChart(c) \/ LookupMiss(c)
  BY <1>0, <1>3, <1>4, <1>7, <1>t DEF DownloadChart, LookupMiss
<1>7a. CASE ReadNamespaces(c)
  <2>1. /\ req' = [req EXCEPT ![c].ns = Listed]
        /\ configCache' = configCache
        /\ pc' = [pc EXCEPT ![c] = "provider"]
        /\ pc[c] = "namespaces"
    BY <1>7a DEF ReadNamespaces
  <2>2. req'[c].client = req[c].client /\ req'[c].label = req[c].label
    BY <2>1, <1>t DEF Requests
  <2>3. QED
    BY <1>0, <1>3, <1>4, <1>t, <2>1, <2>2
<1>8. CASE ReadProvider(c)
  <2>1. /\ req' = [req EXCEPT ![c].rc = client]
        /\ configCache' = configCache
        /\ pc' = [pc EXCEPT ![c] = "lookup"]
        /\ pc[c] = "provider"
    BY <1>8 DEF ReadProvider
  <2>2. /\ req'[c].rc = client /\ req'[c].client = req[c].client
        /\ req'[c].label = req[c].label
    BY <2>1, <1>t DEF Requests
  <2>3. QED
    BY <1>0, <1>3, <1>4, <1>t, <2>1, <2>2
<1>9. CASE LookupHit(c)
  <2>1. /\ req' = [req EXCEPT ![c].cfg = configCache[KeyOf(req[c])]]
        /\ configCache' = configCache
        /\ pc' = [pc EXCEPT ![c] = "run"]
        /\ pc[c] = "lookup"
        /\ configCache[KeyOf(req[c])].client = client
    BY <1>2, <1>3, <1>9 DEF LookupHit
  <2>2. /\ req'[c].cfg.client = client /\ req'[c].client = req[c].client
        /\ req'[c].label = req[c].label
    BY <2>1, <1>t DEF Requests
  <2>3. QED
    BY <1>0, <1>3, <1>4, <1>t, <2>1, <2>2
<1>10. CASE InitConfig(c)
  <2> DEFINE cfg == [client |-> req[c].rc, ns |-> req[c].ns]
  <2>1. /\ req' = [req EXCEPT ![c].cfg = cfg]
        /\ configCache' = [configCache EXCEPT ![KeyOf(req[c])] = cfg]
        /\ pc' = [pc EXCEPT ![c] = "run"]
        /\ pc[c] = "init"
    BY <1>10 DEF InitConfig
  <2>2. cfg.client = client
    BY <1>3, <2>1
  <2>3. /\ req'[c].cfg.client = client /\ req'[c].client = req[c].client
        /\ req'[c].label = req[c].label
    BY <2>1, <2>2, <1>t DEF Requests
  <2>4. \A k \in Keys : configCache'[k] # Nil => configCache'[k].client = client
    BY <1>2, <1>3, <2>1, <2>2, <1>t
  <2>5. QED
    BY <1>0, <1>3, <1>4, <1>t, <2>1, <2>3, <2>4
<1>11. CASE InitConfigFails(c) \/ Run(c) \/ FinishDeploy(c) \/ Sweep(c)
  BY <1>0, <1>3, <1>4, <1>11, <1>t DEF InitConfigFails, Run, FinishDeploy, Sweep
<1>12. CASE DiscoverHit(c) \/ DiscoverMiss(c) \/ StoreDiscovery(c)
  BY <1>0, <1>3, <1>4, <1>12, <1>t DEF DiscoverHit, DiscoverMiss, StoreDiscovery,
     Requests
<1>13. QED
  BY <1>5, <1>6, <1>7, <1>7a, <1>8, <1>9, <1>10, <1>11, <1>12
     DEF CallStep

LEMMA LockedBegin ==
    ASSUME LockedInv, NEW c \in Calls, NEW kind \in Kinds,
           NEW ns \in Namespaces \cup {AllNs}, Begin(c, kind, ns),
           UNCHANGED <<activeVars, overlapped>>
    PROVE  LockedInv'
<1>1. TypeInv'
  BY BeginTyped DEF LockedInv
<1>2. QED
  BY <1>1 DEF LockedInv, TypeInv, CallTypeOK, Begin, Step, CachesUnchanged,
     EditsAlone, ConfigsFollowClient, SnapshotNamesItsCluster, HasSnapshot,
     HasConfig, Background, Locked, activeVars

(* The switch itself: it holds the write lock, so no call is between its    *)
(* snapshot and its return, and it leaves the caches empty.                 *)
LEMMA LockedSwitch ==
    ASSUME LockedInv, NEW c \in Calls, NEW t \in Clusters, SwitchLocked(c, t)
    PROVE  LockedInv'
<1> USE DEF LockedInv, TypeInv, CallTypeOK
<1>1. /\ pc[c] = "switching" /\ pc' = [pc EXCEPT ![c] = "done"]
      /\ client' = t /\ label' = t.ctx /\ path' = t.path
      /\ configCache' = [k \in Keys |-> Nil]
      /\ discoveryCache' = [l \in Labels \cup {NoLabel} |-> Nil]
      /\ req' = req
      /\ UNCHANGED <<namespaces, confirmed, open, overlapped>>
  BY DEF SwitchLocked, Returns, Step, DropCaches, Install
<1>2. t # Nil /\ t.ctx \in Labels /\ t.path \in Paths
  BY NullsAssumption DEF Clusters
<1>3. \A d \in Calls : pc'[d] \notin Locked
  BY <1>1 DEF EditsAlone, Locked
<1>4. TypeInv'
  <2>1. ActiveTypeOK'
    BY <1>1, <1>2 DEF ActiveTypeOK
  <2>2. CallTypeOK'
    BY <1>1 DEF PCs
  <2>3. ClientStays'
    BY <1>3 DEF ClientStays, Locked
  <2>4. QED
    BY <2>1, <2>2, <2>3
<1>5. EditsAlone'
  BY <1>1, <1>3 DEF EditsAlone
<1>6. ConfigsFollowClient'
  BY <1>1, <1>3 DEF ConfigsFollowClient, Locked
<1>7. SnapshotNamesItsCluster'
  BY <1>1, <1>3 DEF SnapshotNamesItsCluster, HasSnapshot, Background, Locked
<1>8. \A d \in Calls : HasConfig(d)' => req'[d].cfg.client = req'[d].client
  BY <1>1 DEF HasConfig, Background
<1>9. QED
  BY <1>1, <1>2, <1>4, <1>5, <1>6, <1>7, <1>8

(* Start-up: the seed finds no client, hence an empty cache and no call     *)
(* past its nil check.                                                      *)
LEMMA LockedBoot ==
    ASSUME LockedInv, Open \/ \E t \in Clusters : Seed(t),
           UNCHANGED <<callVars, overlapped>>
    PROVE  LockedInv'
<1>1. TypeInv'
  BY ProviderTyped DEF LockedInv, TypeInv, CallTypeOK, ActiveNext
<1>2. CASE Open
  BY <1>1, <1>2 DEF Open, LockedInv, callVars, EditsAlone, ConfigsFollowClient,
     SnapshotNamesItsCluster, HasSnapshot, HasConfig
<1>3. ASSUME NEW t \in Clusters, Seed(t)
      PROVE  LockedInv'
  <2>1. /\ client = Nil /\ client' = t /\ label' = t.ctx
        /\ UNCHANGED <<pc, req, configCache>>
    BY <1>3 DEF Seed, Install, callVars
  <2>2. t # Nil
    BY NullsAssumption
  <2>3. \A k \in Keys : configCache[k] = Nil
    BY <2>1, NullsAssumption
       DEF LockedInv, TypeInv, CallTypeOK, ConfigsFollowClient, Configs
  <2>4. \A c \in Calls : pc[c] \notin Locked \ {"snapshot"}
    BY <2>1 DEF LockedInv, TypeInv, ClientStays
  <2>5. ConfigsFollowClient'
    BY <2>1, <2>3, <2>4 DEF ConfigsFollowClient, Locked
  <2>6. EditsAlone' /\ SnapshotNamesItsCluster'
          /\ \A c \in Calls : HasConfig(c)' => req'[c].cfg.client = req'[c].client
    BY <2>1 DEF LockedInv, EditsAlone, SnapshotNamesItsCluster, HasSnapshot,
       HasConfig
  <2>7. QED
    BY <1>1, <2>1, <2>2, <2>5, <2>6 DEF LockedInv
<1>4. QED
  BY <1>2, <1>3

LEMMA LockedStep == LockedInv /\ [LockedNext]_vars => LockedInv'
<1> SUFFICES ASSUME LockedInv, [LockedNext]_vars PROVE LockedInv'
  OBVIOUS
<1>1. CASE CallNext
  <2>1. PICK c \in Calls : BeginRead(c) \/ CallStep(c)
    BY <1>1 DEF CallNext
  <2>2. UNCHANGED <<activeVars, overlapped>>
    BY <1>1 DEF CallNext
  <2>3. CASE BeginRead(c)
    BY <2>2, <2>3, LockedBegin DEF BeginRead
  <2>4. QED
    BY <2>1, <2>2, <2>3, LockedCallStep
<1>2. CASE (Open \/ \E t \in Clusters : Seed(t)) /\ UNCHANGED <<callVars, overlapped>>
  BY <1>2, LockedBoot
<1>3. ASSUME NEW c \in Calls, Begin(c, "switch", AllNs),
             UNCHANGED <<activeVars, overlapped>>
      PROVE  LockedInv'
  BY <1>3, LockedBegin DEF Kinds
<1>4. ASSUME NEW c \in Calls, NEW t \in Clusters, SwitchLocked(c, t)
      PROVE  LockedInv'
  BY <1>4, LockedSwitch
<1>5. ASSUME NEW c \in Calls, SwitchLockedFails(c)
      PROVE  LockedInv'
  BY <1>5 DEF SwitchLockedFails, Returns, Step, LockedInv, TypeInv, ActiveTypeOK,
     CallTypeOK, ClientStays, EditsAlone, ConfigsFollowClient, activeVars, PCs,
     SnapshotNamesItsCluster, HasSnapshot, HasConfig, Background, Locked
<1>6. CASE UNCHANGED vars
  BY <1>6 DEF vars, activeVars, callVars, LockedInv, TypeInv, ActiveTypeOK,
     CallTypeOK, ClientStays, EditsAlone, ConfigsFollowClient,
     SnapshotNamesItsCluster, HasSnapshot, HasConfig
<1>7. QED
  BY <1>1, <1>2, <1>3, <1>4, <1>5, <1>6 DEF LockedNext

(* If every switch goes through LockedService.SetActiveContext, whatever a  *)
(* call under the lock has read, and whatever is cached, is the provider's  *)
(* present cluster.                                                         *)
THEOREM LockedConfigsFollowClient == LockedSpec => []ConfigsFollowClient
<1>1. LockedInv => ConfigsFollowClient
  BY DEF LockedInv
<1>2. QED
  BY <1>1, LockedInitial, LockedStep, PTL DEF LockedSpec

(* And the uninstall and the sweep of a cleanup act on one cluster, though  *)
(* the sweep runs after the lock was given back.                            *)
THEOREM LockedOneCluster == LockedSpec => []OneClusterPerCleanup
<1>1. LockedInv => OneClusterPerCleanup
  BY DEF LockedInv, OneClusterPerCleanup
<1>2. QED
  BY <1>1, LockedInitial, LockedStep, PTL DEF LockedSpec

(* And the configuration a call works with belongs to the context it read.  *)
THEOREM LockedConfigOfItsContext == LockedSpec => []ConfigOfItsContext
<1>1. LockedInv => ConfigOfItsContext
  BY DEF LockedInv, ConfigOfItsContext, SnapshotNamesItsCluster, HasSnapshot,
     HasConfig, Locked, Background
<1>2. QED
  BY <1>1, LockedInitial, LockedStep, PTL DEF LockedSpec
-----------------------------------------------------------------------------
(* The program as it is: what the caches' names say is true, except for a   *)
(* configuration made while the client was swapped under a locked call.     *)
UnderLock ==
    \A c \in Calls :
        /\ pc[c] \in Locked \ {"snapshot"} => req[c].client = client
        /\ pc[c] \in {"lookup", "init"} => req[c].rc = client

NamesInv ==
    /\ label # NoLabel => client # Nil /\ client.ctx = label
    /\ LabelsAreTrue
    /\ \A c \in Calls : pc[c] = "store" => req[c].kindsOf = req[c].client
    /\ ~overlapped => UnderLock
    /\ MisfiledOnlyByOverlap

LEMMA NamesInitial == HelmInit => NamesInv
BY DEF HelmInit, ActiveInit, CallInit, NamesInv, LabelsAreTrue, SnapshotNamesItsCluster,
   DiscoveryOfItsContext, HasSnapshot, UnderLock, MisfiledOnlyByOverlap, Locked, Background

LEMMA NamesCallStep ==
    ASSUME TypeInv, NamesInv, NEW c \in Calls, CallStep(c),
           UNCHANGED <<activeVars, overlapped>>
    PROVE  NamesInv'
<1> USE DEF LabelsAreTrue, SnapshotNamesItsCluster, DiscoveryOfItsContext, HasSnapshot,
            UnderLock, MisfiledOnlyByOverlap, Locked, Background,
            Step, Returns, CachesUnchanged
<1>0. client' = client /\ label' = label /\ overlapped' = overlapped
  BY DEF activeVars
<1>t. /\ pc \in [Calls -> PCs] /\ req \in [Calls -> Requests]
      /\ configCache \in [Keys -> Configs \cup {Nil}]
      /\ discoveryCache \in [Labels \cup {NoLabel} -> Clusters \cup {Nil}]
  BY DEF TypeInv, CallTypeOK
<1>1. KeyOf(req[c]) \in Keys /\ KeyOf(req[c]).ctx = req[c].label
  BY <1>t DEF KeyOf, Keys, Requests
<1>2. CASE RLock(c) \/ Lock(c) \/ EditRepositories(c) \/ SnapshotNil(c)
  BY <1>0, <1>2, <1>t DEF NamesInv, RLock, Lock, EditRepositories, SnapshotNil
<1>3. CASE Snapshot(c)
  <2>1. AfterSnapshot(req[c].kind) \in {"namespaces", "index", "provider"}
    BY DEF AfterSnapshot
  <2>2. /\ req' = [req EXCEPT ![c].label = label, ![c].client = client]
        /\ configCache' = configCache /\ discoveryCache' = discoveryCache
        /\ pc' = [pc EXCEPT ![c] = AfterSnapshot(req[c].kind)]
    BY <1>3 DEF Snapshot
  <2>3. req'[c].label = label /\ req'[c].client = client
    BY <2>2, <1>t DEF Requests
  <2>4. QED
    BY <1>0, <1>t, <2>1, <2>2, <2>3 DEF NamesInv
<1>4. CASE ReadNamespaces(c)
  <2>1. /\ req' = [req EXCEPT ![c].ns = Listed]
        /\ pc' = [pc EXCEPT ![c] = "provider"] /\ pc[c] = "namespaces"
        /\ configCache' = configCache /\ discoveryCache' = discoveryCache
    BY <1>4 DEF ReadNamespaces
  <2>2. req'[c].client = req[c].client /\ req'[c].label = req[c].label
    BY <2>1, <1>t DEF Requests
  <2>3. QED
    BY <1>0, <1>t, <2>1, <2>2 DEF NamesInv
<1>5. CASE DownloadChart(c) \/ LookupMiss(c) \/ InitConfigFails(c)
  BY <1>0, <1>5, <1>t DEF NamesInv, DownloadChart, LookupMiss, InitConfigFails
<1>6. CASE ReadProvider(c)
  <2>1. /\ req' = [req EXCEPT ![c].rc = client]
        /\ pc' = [pc EXCEPT ![c] = "lookup"] /\ pc[c] = "provider"
        /\ configCache' = configCache /\ discoveryCache' = discoveryCache
    BY <1>6 DEF ReadProvider
  <2>2. /\ req'[c].rc = client /\ req'[c].client = req[c].client
        /\ req'[c].label = req[c].label
    BY <2>1, <1>t DEF Requests
  <2>3. QED
    BY <1>0, <1>t, <2>1, <2>2 DEF NamesInv
<1>7. CASE LookupHit(c)
  <2>1. /\ req' = [req EXCEPT ![c].cfg = configCache[KeyOf(req[c])]]
        /\ pc' = [pc EXCEPT ![c] = "run"] /\ pc[c] = "lookup"
        /\ configCache' = configCache /\ discoveryCache' = discoveryCache
    BY <1>7 DEF LookupHit
  <2>2. req'[c].client = req[c].client /\ req'[c].label = req[c].label
    BY <2>1, <1>t DEF Requests
  <2>3. QED
    BY <1>0, <1>t, <2>1, <2>2 DEF NamesInv
<1>8. CASE InitConfig(c)
  <2> DEFINE cfg == [client |-> req[c].rc, ns |-> req[c].ns]
  <2>1. /\ req' = [req EXCEPT ![c].cfg = cfg]
        /\ configCache' = [configCache EXCEPT ![KeyOf(req[c])] = cfg]
        /\ discoveryCache' = discoveryCache
        /\ pc' = [pc EXCEPT ![c] = "run"] /\ pc[c] = "init"
    BY <1>8 DEF InitConfig
  <2>2. req'[c].client = req[c].client /\ req'[c].label = req[c].label
    BY <2>1, <1>t DEF Requests
  <2>3. ASSUME ~overlapped, KeyOf(req[c]).ctx # NoLabel
        PROVE  cfg.client.ctx = KeyOf(req[c]).ctx
    <3>1. req[c].rc = req[c].client
      BY <2>1, <2>3 DEF NamesInv
    <3>2. req[c].client.ctx = req[c].label
      BY <1>1, <2>1, <2>3 DEF NamesInv
    <3> QED
      BY <1>1, <3>1, <3>2
  <2>4. MisfiledOnlyByOverlap'
    BY <1>0, <1>1, <1>t, <2>1, <2>3 DEF NamesInv
  <2>5. QED
    BY <1>0, <1>t, <2>1, <2>2, <2>4 DEF NamesInv
<1>9. CASE Run(c) \/ FinishDeploy(c) \/ Sweep(c)
  BY <1>0, <1>9, <1>t DEF NamesInv, Run, FinishDeploy, Sweep
<1>10. CASE DiscoverHit(c) \/ DiscoverMiss(c)
  <2>1. /\ pc[c] = "discover" /\ configCache' = configCache
        /\ discoveryCache' = discoveryCache
        /\ \/ \E x : req' = [req EXCEPT ![c].kindsOf = x]
           \/ req' = req
        /\ \/ pc' = [pc EXCEPT ![c] = "store"]
              /\ req' = [req EXCEPT ![c].kindsOf = req[c].client]
           \/ pc' = [pc EXCEPT ![c] = "sweep"]
           \/ pc' = [pc EXCEPT ![c] = "done"]
    BY <1>10 DEF DiscoverHit, DiscoverMiss
  <2>2. \A d \in Calls : /\ req'[d].client = req[d].client /\ req'[d].label = req[d].label
                         /\ req'[d].rc = req[d].rc
                         /\ d # c => req'[d] = req[d]
    BY <2>1, <1>t DEF Requests
  <2>3. pc'[c] = "store" => req'[c].kindsOf = req[c].client
    BY <2>1, <1>t DEF Requests
  <2>4. QED
    BY <1>0, <1>t, <2>1, <2>2, <2>3 DEF NamesInv
<1>11. CASE StoreDiscovery(c)
  <2>1. /\ discoveryCache' = [discoveryCache EXCEPT ![req[c].label] = req[c].kindsOf]
        /\ configCache' = configCache /\ req' = req
        /\ pc' = [pc EXCEPT ![c] = "sweep"] /\ pc[c] = "store"
    BY <1>11 DEF StoreDiscovery
  <2>2. req[c].label # NoLabel => req[c].kindsOf.ctx = req[c].label
    BY <2>1 DEF NamesInv
  <2>3. DiscoveryOfItsContext'
    BY <1>t, <2>1, <2>2, NullsAssumption DEF NamesInv
  <2>4. QED
    BY <1>0, <1>t, <2>1, <2>3 DEF NamesInv
<1>12. QED
  BY <1>2, <1>3, <1>4, <1>5, <1>6, <1>7, <1>8, <1>9, <1>10, <1>11 DEF CallStep

LEMMA NamesBegin ==
    ASSUME TypeInv, NamesInv, NEW c \in Calls, BeginRead(c),
           UNCHANGED <<activeVars, overlapped>>
    PROVE  NamesInv'
BY DEF TypeInv, CallTypeOK, NamesInv, LabelsAreTrue, SnapshotNamesItsCluster,
       DiscoveryOfItsContext, HasSnapshot, UnderLock, MisfiledOnlyByOverlap, Locked,
       Background, BeginRead, Begin, Step, CachesUnchanged, activeVars

(* A swap of the client is an overlap unless no call is under the lock.     *)
LEMMA NamesProvider ==
    ASSUME TypeInv, NamesInv, ProviderNext
    PROVE  NamesInv'
<1>1. /\ UNCHANGED <<pc, req, configCache, discoveryCache>>
      /\ ~overlapped' => ~overlapped /\ (client' = client \/ Readers = {})
  BY DEF ProviderNext, callVars
<1>2. label' # NoLabel => client' # Nil /\ client'.ctx = label'
  BY NullsAssumption DEF NamesInv, ProviderNext, ActiveNext, Open, Withdraw, Seed, Follow,
     Select, Install
<1>3. ~overlapped' => UnderLock'
  BY <1>1 DEF NamesInv, UnderLock, Readers, Locked
<1>4. QED
  BY <1>1, <1>2, <1>3 DEF NamesInv, LabelsAreTrue, SnapshotNamesItsCluster,
     DiscoveryOfItsContext, HasSnapshot, MisfiledOnlyByOverlap

LEMMA NamesInvariant == HelmSpec => []NamesInv
<1>1. TypeInv /\ NamesInv /\ [HelmNext]_vars => TypeInv' /\ NamesInv'
  <2> SUFFICES ASSUME TypeInv, NamesInv, [HelmNext]_vars PROVE TypeInv' /\ NamesInv'
    OBVIOUS
  <2>1. TypeInv'
    BY HelmTypeStep
  <2>2. CASE CallNext
    BY <2>1, <2>2, NamesCallStep, NamesBegin DEF CallNext
  <2>3. CASE ProviderNext
    BY <2>1, <2>3, NamesProvider
  <2>4. CASE UNCHANGED vars
    BY <2>1, <2>4 DEF vars, activeVars, callVars, NamesInv, LabelsAreTrue,
       SnapshotNamesItsCluster, DiscoveryOfItsContext, HasSnapshot, UnderLock,
       MisfiledOnlyByOverlap
  <2>5. QED
    BY <2>1, <2>2, <2>3, <2>4 DEF HelmNext
<1>2. QED
  BY <1>1, InitTyped, NamesInitial, PTL DEF HelmSpec

(* However the streams switch meanwhile, a call's first label and client    *)
(* are of one cluster, and a discovery result is cached under the context   *)
(* it was fetched from, although that happens after the lock is released.   *)
THEOREM LabelsAreTrueThm == HelmSpec => []LabelsAreTrue
<1>1. NamesInv => LabelsAreTrue
  BY DEF NamesInv
<1>2. QED
  BY <1>1, NamesInvariant, PTL

(* A configuration filed under another context proves that the client was   *)
(* swapped while a call held the read lock: what lock.go rules out is the   *)
(* only thing that can misfile one.                                         *)
THEOREM MisfiledOnlyByOverlapThm == HelmSpec => []MisfiledOnlyByOverlap
<1>1. NamesInv => MisfiledOnlyByOverlap
  BY DEF NamesInv
<1>2. QED
  BY <1>1, NamesInvariant, PTL
=============================================================================
