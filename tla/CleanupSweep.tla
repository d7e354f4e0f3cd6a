---------------------------- MODULE CleanupSweep ----------------------------
(***************************************************************************)
(* DeleteHelmReleaseWithCleanup, from the uninstall on: the goroutine that *)
(* deletes what the uninstall left behind, owners before the objects they  *)
(* own, then sweeps by label, and reports with one event. The cluster      *)
(* moves on meanwhile: garbage collection, operators that recreate what    *)
(* their resource owns, and a user who installs the release again.         *)
(*                                                                         *)
(* A delete call that succeeds removes the object: finalizers and the      *)
(* propagation to pods are part of the cluster and not followed.           *)
(***************************************************************************)
EXTENDS Naturals, Sequences, FiniteSets

CONSTANTS
    Apis,           \* API groups and resources, e.g. core services
    KindOf,         \* KindOf[api]: its kind, not necessarily of one api only
    ClusterScoped,  \* the apis without namespaces
    Spaces,         \* namespaces
    NoSpace,        \* the namespace of a cluster-scoped object
    Names,          \* object names
    Manifests,      \* the releases considered: sequences of entries
    OwnerRels,      \* the ownerReferences considered: sets of <<object, owner>>
    KindMaps,       \* what discovery, cached or not, may return
    Labelled,       \* Labelled[class]: objects with the release's instance label
    Running,        \* the labelled pods that have not ended
    Bystanders,     \* objects of somebody else
    Operators,      \* operators recreate the objects their resource owns
    Reinstalls      \* the user may install the release again

(* What a manifest document says, its namespace already defaulted to the   *)
(* release's by parseManifestResources, and the object it stands for.      *)
Entries == [api : Apis, ns : Spaces, name : Names]
Object(api, ns, name) ==
    [api |-> api, ns |-> IF api \in ClusterScoped THEN NoSpace ELSE ns, name |-> name]
ObjectOf(e) == Object(e.api, e.ns, e.name)
Objects == {ObjectOf(e) : e \in Entries}

(* The code tells resources apart by kind, namespace and name (resKey).    *)
Kinds  == {KindOf[api] : api \in Apis}
Keys   == [kind : Kinds, ns : Spaces, name : Names]
Key(e) == [kind |-> KindOf[e.api], ns |-> e.ns, name |-> e.name]

Classes == <<"ConfigMap", "PersistentVolumeClaim", "Pod">>

ASSUME ManifestsAssumption == \A m \in Manifests : m \in Seq(Entries)
ASSUME KindsAssumption ==
    /\ KindOf \in [Apis -> Kinds]
    /\ \A km \in KindMaps : \A k \in DOMAIN km : KindOf[km[k]] = k
(* Only so many objects have the label, each of one class.                  *)
ASSUME LabelledAssumption ==
    /\ \A j \in 1 .. 3 : /\ Labelled[Classes[j]] \subseteq Objects
                         /\ IsFiniteSet(Labelled[Classes[j]])
    /\ \A j, k \in 1 .. 3 : j # k => Labelled[Classes[j]] \cap Labelled[Classes[k]] = {}
    /\ Bystanders \subseteq Objects

VARIABLES
    pc,        \* where the call and its goroutine are
    manifest,  \* manifestResources
    owns,      \* the cluster's ownerReferences: <<object, owner>>
    present,   \* what the cluster holds under each object's name
    kindMap,   \* kind -> api, from discovery
    i,         \* position in manifestResources, or in Classes
    ownerOf,   \* ownerOf[key]: owners among the manifest's resources
    tried,     \* deletedSet
    progress,  \* progress of the current pass
    items,     \* a label list, as far as it is not yet deleted
    expired,   \* cleanCtx is done: 60 s, or the plugin is shutting down
    deleted,   \* number of successful deletes
    failed,    \* cleanupErrs is not empty
    event,     \* the event emitted
    again      \* the release has been installed again

clusterVars == <<manifest, owns, again>>
resultVars  == <<deleted, failed, event>>
vars == <<pc, present, kindMap, i, ownerOf, tried, progress, items, expired,
          clusterVars, resultVars>>

InManifest == {manifest[j] : j \in DOMAIN manifest}
Own        == {ObjectOf(e) : e \in InManifest}
WithLabel  == UNION {Labelled[Classes[j]] : j \in 1 .. 3}
Owners(o)  == {p[2] : p \in {q \in owns : q[1] = o}}

(* Somebody else's objects are neither in a manifest nor labelled.         *)
ASSUME BystandersAssumption ==
    /\ Bystanders \cap WithLabel = {}
    /\ \A m \in Manifests : \A j \in DOMAIN m : ObjectOf(m[j]) \notin Bystanders
ASSUME OwnersAssumption == \A rel \in OwnerRels : rel \subseteq Objects \X Objects

TypeOK ==
    /\ pc \in {"uninstall", "client", "discover", "owners", "pass", "sweep",
               "grace", "list", "items", "report", "done", "failed"}
    /\ manifest \in Manifests /\ owns \in OwnerRels
    /\ present \in [Objects -> {"absent", "old", "new", "foreign"}]
    /\ kindMap \in KindMaps \cup {<<>>}
    /\ i \in 1 .. Len(manifest) + 1 \/ i \in 1 .. 4
    /\ ownerOf \in [Keys -> SUBSET Keys]
    /\ tried \subseteq Keys
    /\ progress \in BOOLEAN /\ expired \in BOOLEAN /\ again \in BOOLEAN
    /\ items \subseteq Objects
    /\ deleted \in 0 .. Cardinality({Key(e) : e \in InManifest})
                           + Cardinality(WithLabel \ Running)
    /\ failed \in BOOLEAN
    /\ event \in {"none", "complete", "partial", "error"}

(* A deployed release, its labelled objects, and objects of others.        *)
Init ==
    /\ pc = "uninstall" /\ i = 1
    /\ manifest \in Manifests /\ owns \in OwnerRels
    /\ present = [o \in Objects |-> IF o \in Bystanders THEN "foreign"
                                    ELSE IF o \in Own \cup WithLabel THEN "old"
                                    ELSE "absent"]
    /\ kindMap = <<>> /\ ownerOf = [k \in Keys |-> {}] /\ tried = {}
    /\ progress = FALSE /\ items = {} /\ expired = FALSE
    /\ deleted = 0 /\ failed = FALSE /\ event = "none" /\ again = FALSE

-----------------------------------------------------------------------------
(* The synchronous part. The uninstall removes some of the resources, also *)
(* when it fails; only when it succeeds does the goroutine start.          *)
Uninstall ==
    /\ pc = "uninstall"
    /\ \E gone \in SUBSET Own :
          present' = [o \in Objects |-> IF o \in gone THEN "absent" ELSE present[o]]
    /\ pc' \in {"client", "failed"}
    /\ UNCHANGED <<kindMap, i, ownerOf, tried, progress, items, expired,
                   clusterVars, resultVars>>

BuildClient ==
    /\ pc = "client"
    /\ pc' = "discover"
    /\ UNCHANGED <<present, kindMap, i, ownerOf, tried, progress, items, expired,
                   clusterVars, resultVars>>

BuildClientFails ==
    /\ pc = "client"
    /\ pc' = "done" /\ event' = "error"
    /\ UNCHANGED <<present, kindMap, i, ownerOf, tried, progress, items, expired,
                   clusterVars, deleted, failed>>

(* getOrCreateDiscoveryMap: one api per kind, cached for as long as the    *)
(* context stays active, so possibly older than the release's own kinds.   *)
Discover ==
    /\ pc = "discover"
    /\ pc' = "owners" /\ i' = 1
    /\ kindMap' \in KindMaps
    /\ failed' = (failed \/ DOMAIN kindMap' = {})
    /\ UNCHANGED <<present, ownerOf, tried, progress, items, expired,
                   clusterVars, deleted, event>>

-----------------------------------------------------------------------------
(* Both loops run over manifestResources and skip kinds without an api.    *)
Known(e)  == KindOf[e.api] \in DOMAIN kindMap
AtEntry   == i <= Len(manifest)
Entry     == manifest[i]

Target(e) == Object(kindMap[KindOf[e.api]], e.ns, e.name)

(* Step 2. An owner is looked up in the namespace of what it owns; a       *)
(* resource that is gone has no owners.                                    *)
OwnerKey(e, o) == [kind |-> KindOf[o.api], ns |-> e.ns, name |-> o.name]
OwnerKeys(e) ==
    {OwnerKey(e, o) : o \in Owners(Target(e))} \cap {Key(d) : d \in InManifest}

FetchOwners ==
    /\ pc = "owners" /\ AtEntry
    /\ i' = i + 1
    /\ \/ (Known(Entry) => present[Target(Entry)] = "absent" /\ ~expired)
          /\ UNCHANGED <<ownerOf, failed>>
       \/ /\ Known(Entry) /\ present[Target(Entry)] # "absent" /\ ~expired
          /\ ownerOf' = [ownerOf EXCEPT ![Key(Entry)] = @ \cup OwnerKeys(Entry)]
          /\ UNCHANGED failed
       \/ /\ Known(Entry)
          /\ failed' = TRUE
          /\ UNCHANGED ownerOf
    /\ UNCHANGED <<pc, present, kindMap, tried, progress, items, expired,
                   clusterVars, deleted, event>>

OwnersFetched ==
    /\ pc = "owners" /\ ~AtEntry
    /\ pc' = "pass"
    /\ UNCHANGED <<present, kindMap, i, ownerOf, tried, progress, items, expired,
                   clusterVars, resultVars>>

(* A delete call: not found, an error (always, after the deadline), or the *)
(* object is removed.                                                      *)
Delete(o) ==
    \/ /\ ~expired /\ present[o] = "absent"
       /\ UNCHANGED <<present, deleted, failed>>
    \/ /\ failed' = TRUE
       /\ UNCHANGED <<present, deleted>>
    \/ /\ ~expired /\ present[o] # "absent"
       /\ present' = [present EXCEPT ![o] = "absent"]
       /\ deleted' = deleted + 1
       /\ UNCHANGED failed

(* Step 3, the topological loop.                                           *)
BeginPass ==
    /\ pc = "pass"
    /\ pc' = IF expired THEN "grace" ELSE "sweep"
    /\ i' = 1 /\ progress' = FALSE
    /\ UNCHANGED <<present, kindMap, ownerOf, tried, items, expired,
                   clusterVars, resultVars>>

(* Faulty variant: the loop does not wait for the owners.                  *)
Ready_Always(e) == Known(e) /\ Key(e) \notin tried

Ready(e) == Known(e) /\ Key(e) \notin tried /\ ownerOf[Key(e)] \subseteq tried

SkipEntry ==
    /\ pc = "sweep" /\ AtEntry /\ ~Ready(Entry)
    /\ i' = i + 1
    /\ UNCHANGED <<pc, present, kindMap, ownerOf, tried, progress, items, expired,
                   clusterVars, resultVars>>

(* Faulty variants: what was deleted is not remembered; a resource that was *)
(* not found is tried again in the next pass.                              *)
DeleteEntry_Forgets ==
    /\ pc = "sweep" /\ AtEntry /\ Ready(Entry)
    /\ i' = i + 1
    /\ Delete(Target(Entry))
    /\ progress' = (progress \/ deleted' > deleted)
    /\ UNCHANGED <<pc, kindMap, ownerOf, tried, items, expired, clusterVars, event>>

DeleteEntry_RetriesMissing ==
    /\ pc = "sweep" /\ AtEntry /\ Ready(Entry)
    /\ i' = i + 1
    /\ Delete(Target(Entry))
    /\ tried' = IF deleted' = deleted THEN tried ELSE tried \cup {Key(Entry)}
    /\ progress' = TRUE
    /\ UNCHANGED <<pc, kindMap, ownerOf, items, expired, clusterVars, event>>

DeleteEntry ==
    /\ pc = "sweep" /\ AtEntry /\ Ready(Entry)
    /\ i' = i + 1
    /\ Delete(Target(Entry))
    /\ tried' = tried \cup {Key(Entry)}
    /\ progress' = TRUE
    /\ UNCHANGED <<pc, kindMap, ownerOf, items, expired, clusterVars, event>>

EndPass ==
    /\ pc = "sweep" /\ ~AtEntry
    /\ pc' = IF progress THEN "pass" ELSE "grace"
    /\ UNCHANGED <<present, kindMap, i, ownerOf, tried, progress, items, expired,
                   clusterVars, resultVars>>

(* Five seconds for the operators to settle, cut short by the deadline,    *)
(* after which the label sweeps are not begun.                             *)
Grace ==
    /\ pc = "grace"
    /\ pc' = IF expired THEN "report" ELSE "list"
    /\ i' = 1
    /\ failed' = (failed \/ expired)
    /\ UNCHANGED <<present, kindMap, ownerOf, tried, progress, items, expired,
                   clusterVars, deleted, event>>

List ==
    /\ pc = "list" /\ i <= 3
    /\ \/ /\ ~expired
          /\ items' = {o \in Labelled[Classes[i]] \ Running : present[o] # "absent"}
          /\ pc' = "items"
          /\ UNCHANGED <<i, failed>>
       \/ /\ failed' = TRUE
          /\ i' = i + 1
          /\ UNCHANGED <<pc, items>>
    /\ UNCHANGED <<present, kindMap, ownerOf, tried, progress, expired,
                   clusterVars, deleted, event>>

DeleteItem ==
    /\ pc = "items"
    /\ \E o \in items :
          /\ Delete(o)
          /\ items' = items \ {o}
    /\ UNCHANGED <<pc, kindMap, i, ownerOf, tried, progress, expired,
                   clusterVars, event>>

ListDone ==
    /\ \/ pc = "items" /\ items = {} /\ pc' = "list" /\ i' = i + 1
       \/ pc = "list" /\ i > 3 /\ pc' = "report" /\ UNCHANGED i
    /\ UNCHANGED <<present, kindMap, ownerOf, tried, progress, items, expired,
                   clusterVars, resultVars>>

Report ==
    /\ pc = "report"
    /\ pc' = "done"
    /\ event' = IF ~failed THEN "complete" ELSE IF deleted > 0 THEN "partial" ELSE "error"
    /\ UNCHANGED <<present, kindMap, i, ownerOf, tried, progress, items, expired,
                   clusterVars, deleted, failed>>

Cleanup ==
    \/ Uninstall \/ BuildClient \/ BuildClientFails \/ Discover
    \/ FetchOwners \/ OwnersFetched
    \/ BeginPass \/ SkipEntry \/ DeleteEntry \/ EndPass
    \/ Grace \/ List \/ DeleteItem \/ ListDone \/ Report

-----------------------------------------------------------------------------
(* The rest of the world.                                                  *)
Expire ==
    /\ pc \notin {"uninstall", "client", "done", "failed"} /\ ~expired
    /\ expired' = TRUE
    /\ UNCHANGED <<pc, present, kindMap, i, ownerOf, tried, progress, items,
                   clusterVars, resultVars>>

WorldUnchanged == UNCHANGED <<pc, kindMap, i, ownerOf, tried, progress, items,
                              expired, manifest, owns, resultVars>>

(* Garbage collection: an object whose owners are gone.                    *)
Collect(o) ==
    /\ present[o] = "old" /\ Owners(o) # {}
    /\ \A p \in Owners(o) : present[p] = "absent"
    /\ present' = [present EXCEPT ![o] = "absent"]
    /\ UNCHANGED again /\ WorldUnchanged

Recreate(o) ==
    /\ Operators /\ o \in Own /\ present[o] = "absent"
    /\ \E p \in Owners(o) : present[p] \in {"old", "new"}
    /\ present' = [present EXCEPT ![o] = "old"]
    /\ UNCHANGED again /\ WorldUnchanged

(* The uninstall has returned, the name is free: the same chart again,     *)
(* adopting what is still there.                                           *)
Reinstall ==
    /\ Reinstalls /\ ~again /\ pc \notin {"uninstall", "failed"}
    /\ again' = TRUE
    /\ present' = [o \in Objects |->
                     IF o \in Own \cup WithLabel THEN "new" ELSE present[o]]
    /\ WorldUnchanged

World == Expire \/ Reinstall \/ \E o \in Objects : Collect(o) \/ Recreate(o)

Next == Cleanup \/ World
Spec == Init /\ [][Next]_vars

(* The goroutine runs; its calls return. The deadline is not needed.       *)
FairSpec == Spec /\ WF_vars(Cleanup)
-----------------------------------------------------------------------------
(* Discovery named, for each kind of the manifest, the api it came from.   *)
Exact == \A e \in InManifest : Known(e) /\ kindMap[KindOf[e.api]] = e.api

(* Step 2 saw every resource that is owned, and its owners.                *)
OwnersSeen == \A e, d \in InManifest :
                 ObjectOf(d) \in Owners(ObjectOf(e)) => Key(d) \in ownerOf[Key(e)]

(* As the code looks them up, the owners can be put in an order: a kind of  *)
(* two API groups may make a resource wait for itself, and then it is never *)
(* tried. What only has the label owns nothing of the manifest.             *)
OwnersInOrder ==
    /\ \A some \in (SUBSET InManifest) \ {{}} : \E e \in some :
          \A o \in Owners(ObjectOf(e)), d \in some : Key(d) # OwnerKey(e, o)
    /\ \A o \in Own : Owners(o) \cap WithLabel \subseteq Own

(* "complete" is to be trusted, whatever the order of the manifest, the    *)
(* operators and the garbage collection: nothing of the release remains,   *)
(* and no operator is left that could bring it back.                       *)
CompleteIsClean ==
    event = "complete" /\ Exact /\ OwnersSeen /\ OwnersInOrder /\ ~again
        => \A o \in Own : present[o] = "absent"

(* With exact discovery nobody else's object is touched: not of the same   *)
(* name in another namespace, and not without the label.                   *)
BystandersSafe ==
    Exact => \A o \in Bystanders : present[o] = "foreign"

(* The sweep removes the release, the whole of it when it says so, and     *)
(* nothing but the release.                                                *)
SweepIsExact == CompleteIsClean /\ BystandersSafe

(* Liveness: every sweep that starts reports, after finitely many passes   *)
(* and without relying on its deadline.                                    *)
SweepReports == pc = "client" ~> event # "none"

=============================================================================
