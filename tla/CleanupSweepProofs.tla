------------------------- MODULE CleanupSweepProofs -------------------------
(***************************************************************************)
(* Why "complete" can be trusted and nobody else's objects are touched,    *)
(* for all manifests, owners, discovery results, and any interference of   *)
(* operators, garbage collection, the deadline and a second installation.  *)
(***************************************************************************)
EXTENDS CleanupSweep, FiniteSetTheorems, TLAPS

Statuses == {"absent", "old", "new", "foreign"}

\* The parts of the types the argument needs.
Shapes ==
    /\ manifest \in Manifests /\ owns \in OwnerRels
    /\ present \in [Objects -> Statuses]
    /\ kindMap \in KindMaps \cup {<<>>}
    /\ i \in Nat \ {0}
    /\ ownerOf \in [Keys -> SUBSET Keys]
    /\ tried \subseteq Keys

Before == {"uninstall", "client", "discover"}

\* The release is made of its manifest and what carries its label; until
\* something is looked up by kind, nothing else can have been deleted.
Foreign ==
    /\ \A o \in Objects : present[o] \in {"old", "new"} => o \in Own \cup WithLabel
    /\ items \subseteq WithLabel
    /\ (pc \in Before \/ Exact) => \A o \in Bystanders : present[o] = "foreign"

\* What step 2 found is true, and what was tried was tried after its owners.
Fetched ==
    /\ pc \in Before \cup {"owners"} => tried = {}
    /\ pc \in Before => \A k \in Keys : ownerOf[k] = {}
    /\ \A k \in tried : ownerOf[k] \subseteq tried
    /\ Exact => \A e \in InManifest : ownerOf[Key(e)] \subseteq OwnerKeys(e)

\* While all is well, what was tried is gone and stays gone: its owners were
\* tried before it, so nothing is left to bring it back.
Trusted == Exact /\ OwnersSeen /\ OwnersInOrder /\ ~failed /\ ~again
Gone == Trusted => \A e \in InManifest : Key(e) \in tried => present[ObjectOf(e)] = "absent"

\* The loop ends by its deadline, which counts as a failure, or at a fixpoint.
Settled == \A e \in InManifest : ~Ready(e)
Fixpoint ==
    /\ pc = "sweep" /\ ~progress => \A j \in DOMAIN manifest : j < i => ~Ready(manifest[j])
    /\ pc = "grace" => expired \/ Settled
    /\ pc \in {"list", "items", "report"} => failed \/ Settled
    /\ event = "complete" => pc = "done" /\ Settled /\ ~failed

SweepInv == Shapes /\ Foreign /\ Fetched /\ Gone /\ Fixpoint

-----------------------------------------------------------------------------
\* The entries of a manifest are entries, with keys and objects.
LEMMA EntryFacts ==
    ASSUME Shapes
    PROVE  /\ InManifest \subseteq Entries
           /\ \A e \in InManifest : Key(e) \in Keys /\ ObjectOf(e) \in Objects /\ ObjectOf(e) \in Own
           /\ Own \subseteq Objects
           /\ Len(manifest) \in Nat /\ DOMAIN manifest = 1 .. Len(manifest)
  <1>1. manifest \in Seq(Entries)
    BY ManifestsAssumption DEF Shapes
  <1>2. \A j \in DOMAIN manifest : manifest[j] \in Entries
    BY <1>1
  <1>3. \A e \in Entries : Key(e) \in Keys /\ ObjectOf(e) \in Objects
    BY DEF Entries, Key, Keys, Kinds, Objects
  <1> QED BY <1>1, <1>2, <1>3 DEF InManifest, Own

\* While the loop is at an entry, it is one of the manifest's.
LEMMA AtEntryFacts ==
    ASSUME SweepInv, AtEntry
    PROVE  Entry \in InManifest /\ i \in DOMAIN manifest
  BY EntryFacts DEF SweepInv, Shapes, AtEntry, Entry, InManifest

\* With exact discovery an entry's target is its object, and a key names one
\* entry.
LEMMA ExactFacts ==
    ASSUME Shapes, Exact
    PROVE  /\ \A e \in InManifest : Known(e) /\ Target(e) = ObjectOf(e)
           /\ \A e, d \in InManifest : Key(e) = Key(d) => e = d
  <1>1. \A e \in InManifest : Known(e) /\ Target(e) = ObjectOf(e)
    BY DEF Exact, Target, ObjectOf
  <1>2. ASSUME NEW e \in InManifest, NEW d \in InManifest, Key(e) = Key(d) PROVE e = d
    <2>1. KindOf[e.api] = KindOf[d.api] /\ e.ns = d.ns /\ e.name = d.name
      BY <1>2 DEF Key
    <2>2. e.api = d.api
      BY <2>1 DEF Exact
    <2> QED BY <2>1, <2>2, EntryFacts DEF Entries
  <1> QED BY <1>1, <1>2

\* Where there is a fixpoint everything was tried: some entry that was not would
\* have no owner among them, and so be ready.
LEMMA AllTried ==
    ASSUME Shapes, Fetched, Exact, OwnersInOrder, Settled
    PROVE  \A e \in InManifest : Key(e) \in tried
  <1> DEFINE rest == {e \in InManifest : Key(e) \notin tried}
  <1> SUFFICES ASSUME rest # {} PROVE FALSE
    OBVIOUS
  <1>1. PICK e \in rest :
            \A o \in Owners(ObjectOf(e)), d \in rest : Key(d) # OwnerKey(e, o)
    BY DEF OwnersInOrder
  <1>2. ownerOf[Key(e)] \subseteq OwnerKeys(e)
    BY DEF Fetched
  <1>3. ASSUME NEW k \in OwnerKeys(e), k \notin tried PROVE FALSE
    <2>1. PICK o \in Owners(ObjectOf(e)) : k = OwnerKey(e, o)
      BY <1>3, ExactFacts DEF OwnerKeys
    <2>2. PICK d \in InManifest : k = Key(d)
      BY <1>3 DEF OwnerKeys
    <2> QED BY <1>1, <1>3, <2>1, <2>2
  <1>4. Ready(e)
    BY <1>2, <1>3, ExactFacts DEF Ready
  <1> QED BY <1>4 DEF Settled

-----------------------------------------------------------------------------
LEMMA ShapesInit == Init => Shapes
  <1> SUFFICES ASSUME Init PROVE Shapes
    OBVIOUS
  <1>1. present \in [Objects -> Statuses]
    BY DEF Init, Statuses
  <1>2. ownerOf \in [Keys -> SUBSET Keys]
    BY DEF Init
  <1>3. tried = {} /\ i = 1
    BY Zenon DEF Init
  <1>4. tried \subseteq Keys /\ i \in Nat \ {0}
    BY <1>3
  <1> QED BY <1>1, <1>2, <1>4, Zenon DEF Init, Shapes

LEMMA SweepInit == Init => SweepInv
  <1> SUFFICES ASSUME Init PROVE SweepInv
    OBVIOUS
  <1>1. Shapes
    BY ShapesInit
  <1>2. Foreign
    BY <1>1, LabelledAssumption DEF Init, Foreign
  <1>3. Fetched
    BY <1>1, EntryFacts DEF Init, Fetched, Before
  <1>4. Gone /\ Fixpoint
    BY <1>1 DEF Init, Gone, Fixpoint
  <1> QED BY <1>1, <1>2, <1>3, <1>4 DEF SweepInv

-----------------------------------------------------------------------------
\* The release and the cluster's references are the same all along, and what
\* discovery returned is kept.
LEMMA Kept ==
    ASSUME [Next]_vars
    PROVE  /\ InManifest' = InManifest /\ Own' = Own /\ manifest' = manifest
           /\ owns' = owns
           /\ kindMap' = kindMap \/ Discover
  BY DEF Next, vars, clusterVars, resultVars, WorldUnchanged, InManifest, Own,
         Cleanup, Uninstall, BuildClient, BuildClientFails, Discover, FetchOwners,
         OwnersFetched, BeginPass, SkipEntry, DeleteEntry, EndPass, Grace, List,
         DeleteItem, ListDone, Report, World, Expire, Reinstall, Collect, Recreate

LEMMA KeptKinds ==
    ASSUME kindMap' = kindMap, manifest' = manifest, owns' = owns
    PROVE  /\ Exact' = Exact
           /\ \A e : OwnerKeys(e)' = OwnerKeys(e)
           /\ ownerOf' = ownerOf => OwnersSeen' = OwnersSeen
           /\ OwnersInOrder' = OwnersInOrder
           /\ ownerOf' = ownerOf /\ tried' = tried => /\ Settled' = Settled
                                                      /\ \A e : Ready(e)' = Ready(e)
  <1>1. InManifest' = InManifest
    BY DEF InManifest
  <1>2. Exact' = Exact
    BY <1>1 DEF Exact, Known
  <1>3. \A e : OwnerKeys(e)' = OwnerKeys(e)
    BY <1>1 DEF OwnerKeys, OwnerKey, Owners, Target
  <1>4. ownerOf' = ownerOf => OwnersSeen' = OwnersSeen
    BY <1>1 DEF OwnersSeen, Owners
  <1>5. ASSUME ownerOf' = ownerOf, tried' = tried
        PROVE  Settled' = Settled /\ \A e : Ready(e)' = Ready(e)
    BY <1>1, <1>5 DEF Settled, Ready, Known
  <1>6. OwnersInOrder' = OwnersInOrder
    BY <1>1 DEF OwnersInOrder, Owners, OwnerKey, Own
  <1> QED BY <1>2, <1>3, <1>4, <1>5, <1>6

\* A delete call removes at most its object, and surely when it does not fail.
LEMMA DeleteFacts ==
    ASSUME Shapes, NEW x, Delete(x)
    PROVE  /\ present' \in [Objects -> Statuses]
           /\ \A o \in Objects : present'[o] = present[o] \/ (o = x /\ present'[o] = "absent")
           /\ failed' \/ (~failed /\ (x \in Objects => present'[x] = "absent"))
           /\ failed => failed'
  BY DEF Shapes, Delete, Statuses

LEMMA ShapesStep == SweepInv /\ [Next]_vars => Shapes'
  <1> SUFFICES ASSUME SweepInv, [Next]_vars PROVE Shapes'
    OBVIOUS
  <1> USE DEF SweepInv
  <1>1. CASE FetchOwners
    <2>1. Entry \in InManifest /\ Key(Entry) \in Keys /\ OwnerKeys(Entry) \subseteq Keys
      BY <1>1, AtEntryFacts, EntryFacts DEF FetchOwners, OwnerKeys
    <2>2. ownerOf' \in [Keys -> SUBSET Keys]
      BY <1>1, <2>1 DEF FetchOwners, Shapes
    <2> QED BY <1>1, <2>2 DEF FetchOwners, Shapes, clusterVars
  <1>2. CASE DeleteEntry
    <2>1. Key(Entry) \in Keys
      BY <1>2, AtEntryFacts, EntryFacts DEF DeleteEntry
    <2> QED BY <1>2, <2>1, DeleteFacts DEF DeleteEntry, Shapes, clusterVars
  <1>3. CASE DeleteItem
    BY <1>3, DeleteFacts DEF DeleteItem, Shapes, clusterVars
  <1>4. CASE Uninstall
    BY <1>4 DEF Uninstall, Shapes, clusterVars, Statuses
  <1>5. CASE Reinstall
    BY <1>5 DEF Reinstall, Shapes, WorldUnchanged, Statuses
  <1>6. ASSUME NEW o \in Objects, Collect(o) \/ Recreate(o) PROVE Shapes'
    BY <1>6 DEF Collect, Recreate, Shapes, WorldUnchanged, Statuses
  <1>7. CASE BuildClient \/ BuildClientFails \/ Discover \/ OwnersFetched
    BY <1>7 DEF BuildClient, BuildClientFails, Discover, OwnersFetched, Shapes,
                clusterVars, resultVars
  <1>8. CASE BeginPass \/ SkipEntry \/ EndPass \/ Grace
    BY <1>8 DEF BeginPass, SkipEntry, EndPass, Grace, Shapes, clusterVars, resultVars
  <1>9. CASE List \/ ListDone \/ Report
    <2>1. CASE List
      <3>1. i' \in Nat \ {0}
        BY <2>1 DEF List, Shapes
      <3> QED BY <2>1, <3>1, Zenon DEF List, Shapes, clusterVars
    <2>2. CASE ListDone
      BY <2>2 DEF ListDone, Shapes, clusterVars, resultVars
    <2>3. CASE Report
      BY <2>3, Zenon DEF Report, Shapes, clusterVars
    <2> QED BY <1>9, <2>1, <2>2, <2>3
  <1>10. CASE Expire \/ UNCHANGED vars
    BY <1>10 DEF Expire, Shapes, vars, clusterVars, resultVars
  <1> QED BY <1>1, <1>2, <1>3, <1>4, <1>5, <1>6, <1>7, <1>8, <1>9, <1>10
          DEF Next, Cleanup, World

-----------------------------------------------------------------------------
\* Where the world or the sweep changes an object it removes it, or the object
\* is the release's; somebody else's is left alone once discovery is exact.
LEMMA Moves ==
    ASSUME SweepInv, [Next]_vars
    PROVE  /\ \A o \in Objects : \/ present'[o] \in {present[o], "absent"}
                                 \/ o \in Own \cup WithLabel
           /\ pc \in Before \/ Exact =>
                 \A o \in Bystanders : present'[o] = present[o]
  <1> USE DEF SweepInv
  <1> DEFINE Goal == /\ \A o \in Objects : \/ present'[o] \in {present[o], "absent"}
                                           \/ o \in Own \cup WithLabel
                     /\ pc \in Before \/ Exact =>
                           \A o \in Bystanders : present'[o] = present[o]
  <1>0. Own \cap Bystanders = {} /\ WithLabel \cap Bystanders = {} /\ Bystanders \subseteq Objects
    BY BystandersAssumption, LabelledAssumption DEF Shapes, Own, InManifest
  <1>1. CASE DeleteEntry
    <2>1. Entry \in InManifest
      BY <1>1, AtEntryFacts DEF DeleteEntry
    <2>2. pc \in Before \/ Exact => Target(Entry) \in Own
      BY <1>1, <2>1, ExactFacts, EntryFacts DEF DeleteEntry, Before
    <2> QED BY <1>0, <1>1, <2>2, DeleteFacts DEF DeleteEntry
  <1>2. CASE DeleteItem
    <2>1. PICK x \in items : Delete(x)
      BY <1>2 DEF DeleteItem
    <2> QED BY <1>0, <2>1, DeleteFacts DEF Foreign
  <1>3. CASE Uninstall
    BY <1>0, <1>3 DEF Uninstall, Shapes
  <1>4. CASE Reinstall
    BY <1>0, <1>4 DEF Reinstall, Shapes
  <1>5. ASSUME NEW x \in Objects, Collect(x) PROVE Goal
    BY <1>0, <1>5 DEF Collect, Shapes, Foreign
  <1>6. ASSUME NEW x \in Objects, Recreate(x) PROVE Goal
    BY <1>0, <1>6 DEF Recreate, Shapes
  <1>7. CASE UNCHANGED present
    BY <1>7
  <1>8. CASE UNCHANGED vars
    BY <1>7, <1>8 DEF vars
  <1> QED
    <2>1. BuildClient \/ BuildClientFails \/ Discover \/ FetchOwners \/ OwnersFetched
            \/ BeginPass \/ SkipEntry \/ EndPass \/ Grace \/ List \/ ListDone \/ Report
            \/ Expire => UNCHANGED present
      BY DEF BuildClient, BuildClientFails, Discover, FetchOwners, OwnersFetched,
             BeginPass, SkipEntry, EndPass, Grace, List, ListDone, Report, Expire
    <2> QED BY <2>1, <1>1, <1>2, <1>3, <1>4, <1>5, <1>6, <1>7, <1>8
            DEF Next, Cleanup, World

LEMMA ForeignStep == SweepInv /\ [Next]_vars => Foreign'
  <1> SUFFICES ASSUME SweepInv, [Next]_vars PROVE Foreign'
    OBVIOUS
  <1> USE DEF SweepInv
  <1>1. \A o \in Objects : present'[o] \in {"old", "new"} => o \in Own' \cup WithLabel
    BY Moves, Kept DEF Foreign
  <1>2. items' \subseteq WithLabel
    <2>1. CASE List
      <3>1. i \in {1, 2, 3}
        BY <2>1 DEF List, Shapes
      <3> QED BY <2>1, <3>1 DEF List, WithLabel, Foreign
    <2>2. CASE DeleteItem
      BY <2>2 DEF DeleteItem, Foreign
    <2>3. ~List /\ ~DeleteItem => items' = items
      BY DEF Next, vars, clusterVars, resultVars, WorldUnchanged, Cleanup, Uninstall,
         BuildClient, BuildClientFails, Discover, FetchOwners, OwnersFetched, BeginPass,
         SkipEntry, DeleteEntry, EndPass, Grace, ListDone, Report, World, Expire,
         Reinstall, Collect, Recreate
    <2> QED BY <2>1, <2>2, <2>3 DEF Foreign
  <1>3. pc' \in Before \/ Exact' => pc \in Before \/ Exact
    <2>1. pc' \in Before => pc \in Before
      BY DEF Before, Next, vars, clusterVars, resultVars, WorldUnchanged, Cleanup, Uninstall,
         BuildClient, BuildClientFails, Discover, FetchOwners, OwnersFetched, BeginPass,
         SkipEntry, DeleteEntry, EndPass, Grace, List, DeleteItem, ListDone, Report, World,
         Expire, Reinstall, Collect, Recreate
    <2>2. Exact' => Exact \/ Discover
      BY Kept, KeptKinds
    <2> QED BY <2>1, <2>2 DEF Discover, Before
  <1>4. pc' \in Before \/ Exact' => \A o \in Bystanders : present'[o] = "foreign"
    BY <1>3, Moves DEF Foreign
  <1> QED BY <1>1, <1>2, <1>4 DEF Foreign

-----------------------------------------------------------------------------
\* What was tried and what is known of owners change in two actions only.
LEMMA Untouched ==
    ASSUME [Next]_vars
    PROVE  /\ ~FetchOwners => ownerOf' = ownerOf
           /\ ~DeleteEntry => tried' = tried
  BY DEF Next, vars, clusterVars, resultVars, WorldUnchanged, Cleanup, Uninstall,
         BuildClient, BuildClientFails, Discover, FetchOwners, OwnersFetched, BeginPass,
         SkipEntry, DeleteEntry, EndPass, Grace, List, DeleteItem, ListDone, Report,
         World, Expire, Reinstall, Collect, Recreate

\* The phases follow one another: nothing returns to the first ones.
LEMMA Phases ==
    ASSUME [Next]_vars
    PROVE  /\ pc' \in Before => pc \in Before /\ ~Discover
           /\ pc' = "owners" => pc \in Before \cup {"owners"}
  BY DEF Before, Next, vars, clusterVars, resultVars, WorldUnchanged, Cleanup, Uninstall,
         BuildClient, BuildClientFails, Discover, FetchOwners, OwnersFetched, BeginPass,
         SkipEntry, DeleteEntry, EndPass, Grace, List, DeleteItem, ListDone, Report, World,
         Expire, Reinstall, Collect, Recreate

LEMMA FetchedStep == SweepInv /\ [Next]_vars => Fetched'
  <1> SUFFICES ASSUME SweepInv, [Next]_vars PROVE Fetched'
    OBVIOUS
  <1> USE DEF SweepInv
  <1>1. CASE FetchOwners
    <2>1. pc = "owners" /\ pc' = "owners" /\ tried = {} /\ tried' = {}
      BY <1>1 DEF FetchOwners, Fetched
    <2>2. /\ Entry \in InManifest /\ kindMap' = kindMap
          /\ \/ ownerOf' = ownerOf
             \/ ownerOf' = [ownerOf EXCEPT ![Key(Entry)] = @ \cup OwnerKeys(Entry)]
      BY <1>1, AtEntryFacts DEF FetchOwners
    <2>3. ASSUME Exact', NEW e \in InManifest PROVE ownerOf'[Key(e)] \subseteq OwnerKeys(e)
      <3>1. Exact
        BY <2>2, <2>3, Kept, KeptKinds
      <3>2. ownerOf[Key(e)] \subseteq OwnerKeys(e)
        BY <3>1 DEF Fetched
      <3>3. CASE Key(e) = Key(Entry)
        <4>1. e = Entry
          BY <2>2, <3>1, <3>3, ExactFacts
        <4>2. Key(Entry) \in Keys
          BY <2>2, EntryFacts
        <4> QED BY <2>2, <3>2, <4>1, <4>2 DEF Shapes
      <3>4. CASE Key(e) # Key(Entry)
        BY <2>2, <3>2, <3>4, EntryFacts DEF Shapes
      <3> QED BY <3>3, <3>4
    <2>4. \A e : OwnerKeys(e)' = OwnerKeys(e)
      BY <2>2, Kept, KeptKinds
    <2> QED BY <2>1, <2>3, <2>4, Kept DEF Fetched, Before
  <1>2. CASE DeleteEntry
    <2>1. /\ pc = "sweep" /\ pc' = "sweep" /\ ownerOf' = ownerOf /\ kindMap' = kindMap
          /\ tried' = tried \cup {Key(Entry)} /\ ownerOf[Key(Entry)] \subseteq tried
      BY <1>2 DEF DeleteEntry, Ready
    <2>2. Exact' = Exact /\ \A e : OwnerKeys(e)' = OwnerKeys(e)
      BY <2>1, Kept, KeptKinds
    <2> QED BY <2>1, <2>2, Kept DEF Fetched, Before
  <1>3. CASE Discover
    <2>1. pc \in Before /\ ownerOf' = ownerOf /\ tried' = tried /\ pc' = "owners"
      BY <1>3 DEF Discover, Before
    <2>2. tried' = {} /\ \A k \in Keys : ownerOf'[k] = {}
      BY <2>1 DEF Fetched
    <2> QED BY <2>1, <2>2, Kept, EntryFacts DEF Fetched, Before
  <1>4. CASE ~FetchOwners /\ ~DeleteEntry /\ ~Discover
    <2>1. ownerOf' = ownerOf /\ tried' = tried /\ kindMap' = kindMap
      BY <1>4, Untouched, Kept
    <2>2. Exact' = Exact /\ \A e : OwnerKeys(e)' = OwnerKeys(e)
      BY <2>1, Kept, KeptKinds
    <2> QED BY <2>1, <2>2, Kept, Phases DEF Fetched
  <1> QED BY <1>1, <1>2, <1>3, <1>4

\* A failure is not forgotten, nor that the release was installed again.
LEMMA Marks ==
    ASSUME [Next]_vars, SweepInv
    PROVE  /\ ~failed' => ~failed
           /\ ~again' => ~again /\ ~Reinstall
  <1>1. DeleteEntry \/ DeleteItem => (failed => failed')
    BY DeleteFacts DEF DeleteEntry, DeleteItem, SweepInv
  <1>2. Discover \/ FetchOwners \/ Grace \/ List => (failed => failed')
    BY Zenon DEF Discover, FetchOwners, Grace, List
  <1>3. Uninstall \/ BuildClient \/ BuildClientFails \/ OwnersFetched \/ BeginPass
          \/ SkipEntry \/ EndPass \/ ListDone \/ Report \/ World \/ UNCHANGED vars
        => failed' = failed
    BY DEF Uninstall, BuildClient, BuildClientFails, OwnersFetched, BeginPass, SkipEntry,
           EndPass, ListDone, Report, World, Expire, Reinstall, Collect, Recreate,
           WorldUnchanged, vars, resultVars
  <1>4. Cleanup \/ Expire \/ UNCHANGED vars => again' = again
    BY DEF vars, clusterVars, Cleanup, Uninstall, BuildClient, BuildClientFails, Discover,
           FetchOwners, OwnersFetched, BeginPass, SkipEntry, DeleteEntry, EndPass, Grace,
           List, DeleteItem, ListDone, Report, Expire
  <1>5. ~again' => ~Reinstall
    BY DEF Reinstall
  <1>6. (\E o \in Objects : Collect(o) \/ Recreate(o)) => again' = again
    BY DEF Collect, Recreate
  <1>7. ~failed' => ~failed
    BY <1>1, <1>2, <1>3 DEF Next, Cleanup
  <1>8. ~again' => ~again
    BY <1>4, <1>5, <1>6 DEF Next, World
  <1> QED BY <1>5, <1>7, <1>8

LEMMA GoneStep == SweepInv /\ [Next]_vars => Gone'
  <1> SUFFICES ASSUME SweepInv, [Next]_vars, Trusted',
                      NEW e \in InManifest, Key(e) \in tried'
               PROVE  present'[ObjectOf(e)] = "absent"
    BY Kept DEF Gone
  <1> USE DEF SweepInv
  <1>0. ObjectOf(e) \in Objects /\ ObjectOf(e) \in Own
    BY EntryFacts
  <1>1. ~failed /\ ~failed' /\ ~again /\ ~Reinstall
    BY Marks DEF Trusted
  <1>2. CASE DeleteEntry
    <2>1. kindMap' = kindMap /\ ownerOf' = ownerOf /\ Entry \in InManifest
      BY <1>2, AtEntryFacts DEF DeleteEntry
    <2>2. Trusted
      BY <1>1, <2>1, Kept, KeptKinds DEF Trusted
    <2>3. Target(Entry) = ObjectOf(Entry) /\ (Key(e) = Key(Entry) => e = Entry)
      BY <2>1, <2>2, ExactFacts DEF Trusted
    <2>4. CASE Key(e) = Key(Entry)
      BY <1>0, <1>1, <1>2, <2>3, <2>4, DeleteFacts DEF DeleteEntry
    <2>5. CASE Key(e) \in tried
      <3>1. present[ObjectOf(e)] = "absent"
        BY <2>2, <2>5 DEF Gone
      <3> QED BY <1>0, <1>2, <3>1, DeleteFacts DEF DeleteEntry
    <2> QED BY <1>2, <2>4, <2>5 DEF DeleteEntry
  <1>3. CASE ~DeleteEntry
    <2>1. Key(e) \in tried
      BY <1>3, Untouched
    <2>2. pc \notin Before \cup {"owners"}
      BY <2>1 DEF Fetched
    <2>3. ~FetchOwners /\ ~Discover /\ ~Uninstall
      BY <2>2 DEF FetchOwners, Discover, Uninstall, Before
    <2>4. Trusted
      BY <1>1, <2>3, Untouched, Kept, KeptKinds DEF Trusted
    <2>5. present[ObjectOf(e)] = "absent"
      BY <2>1, <2>4 DEF Gone
    <2>6. CASE DeleteItem
      BY <1>0, <2>5, <2>6, DeleteFacts DEF DeleteItem
    <2>7. ASSUME NEW o \in Objects, Collect(o) PROVE present'[ObjectOf(e)] = "absent"
      BY <1>0, <2>5, <2>7 DEF Collect, Shapes
    <2>8. ASSUME NEW o \in Objects, Recreate(o) PROVE present'[ObjectOf(e)] = "absent"
      <3>1. CASE o # ObjectOf(e)
        BY <1>0, <2>5, <2>8, <3>1 DEF Recreate, Shapes
      <3>2. CASE o = ObjectOf(e)
        <4>1. PICK p \in Owners(ObjectOf(e)) : present[p] \in {"old", "new"}
          BY <2>8, <3>2 DEF Recreate
        <4>2. PICK q \in owns : q[1] = ObjectOf(e) /\ q[2] = p
          BY <4>1 DEF Owners
        <4>3. owns \subseteq Objects \X Objects
          BY OwnersAssumption DEF Shapes
        <4>4. p \in Own \cup WithLabel
          BY <4>1, <4>2, <4>3 DEF Foreign
        <4>5. p \in Own
          BY <1>0, <2>4, <4>1, <4>4 DEF Trusted, OwnersInOrder
        <4>6. PICK d \in InManifest : p = ObjectOf(d)
          BY <4>5 DEF Own
        <4>7. Key(d) \in ownerOf[Key(e)]
          BY <2>4, <4>1, <4>6 DEF Trusted, OwnersSeen
        <4>8. Key(d) \in tried
          BY <2>1, <4>7 DEF Fetched
        <4> QED BY <2>4, <4>1, <4>6, <4>8 DEF Gone
      <3> QED BY <3>1, <3>2
    <2>9. present' = present \/ DeleteItem \/ \E o \in Objects : Collect(o) \/ Recreate(o)
      BY <1>1, <1>3, <2>3
         DEF Next, vars, Cleanup, BuildClient, BuildClientFails, OwnersFetched, BeginPass,
             SkipEntry, EndPass, Grace, List, ListDone, Report, World, Expire
    <2> QED BY <2>5, <2>6, <2>7, <2>8, <2>9
  <1> QED BY <1>2, <1>3

-----------------------------------------------------------------------------
LEMMA FixpointStep == SweepInv /\ [Next]_vars => Fixpoint'
  <1> SUFFICES ASSUME SweepInv, [Next]_vars PROVE Fixpoint'
    OBVIOUS
  <1> USE DEF SweepInv
  <1>0. pc # "done" => event # "complete"
    BY DEF Fixpoint
  <1>1. CASE Uninstall \/ BuildClient \/ BuildClientFails \/ Discover
               \/ FetchOwners \/ OwnersFetched
    <2>1. pc' \in {"client", "failed", "discover", "done", "owners", "pass"}
      BY <1>1 DEF Uninstall, BuildClient, BuildClientFails, Discover, FetchOwners,
                  OwnersFetched
    <2>2. event' # "complete"
      BY <1>0, <1>1 DEF Uninstall, BuildClient, BuildClientFails, Discover, FetchOwners,
                        OwnersFetched, resultVars
    <2> QED BY <2>1, <2>2 DEF Fixpoint
  <1>2. CASE BeginPass
    <2>1. /\ \/ pc' = "grace" /\ expired'
             \/ pc' = "sweep" /\ i' = 1
          /\ event' # "complete"
      BY <1>0, <1>2 DEF BeginPass, resultVars
    <2> QED BY <2>1, EntryFacts, Kept DEF Fixpoint
  <1>3. CASE SkipEntry
    <2>1. /\ pc' = "sweep" /\ i' = i + 1 /\ progress' = progress /\ event' # "complete"
          /\ pc = "sweep" /\ ~Ready(manifest[i])
          /\ \A e : Ready(e)' = Ready(e)
      BY <1>0, <1>3, Kept, KeptKinds DEF SkipEntry, Entry, resultVars
    <2>2. ASSUME ~progress, NEW j \in DOMAIN manifest, j < i + 1 PROVE ~Ready(manifest[j])
      BY <2>1, <2>2, EntryFacts DEF Fixpoint, Shapes
    <2> QED BY <2>1, <2>2, Kept DEF Fixpoint
  <1>4. CASE DeleteEntry
    BY <1>0, <1>4 DEF DeleteEntry, Fixpoint
  <1>5. CASE EndPass
    <2>1. /\ pc = "sweep" /\ ~AtEntry /\ event' # "complete"
          /\ \/ pc' = "pass"
             \/ pc' = "grace" /\ ~progress
          /\ Settled' = Settled
      BY <1>0, <1>5, Kept, KeptKinds DEF EndPass, resultVars
    <2>2. ~progress => Settled
      <3>1. \A j \in DOMAIN manifest : j < i
        BY <2>1, EntryFacts DEF AtEntry, Shapes
      <3> QED BY <2>1, <3>1 DEF Fixpoint, Settled, InManifest
    <2> QED BY <2>1, <2>2 DEF Fixpoint
  <1>6. CASE Grace
    <2>1. /\ pc = "grace" /\ pc' \in {"list", "report"} /\ event' # "complete"
          /\ expired => failed'
          /\ Settled' = Settled
      BY <1>0, <1>6, Kept, KeptKinds DEF Grace
    <2> QED BY <2>1 DEF Fixpoint
  <1>7. CASE List \/ DeleteItem \/ ListDone
    <2>1. /\ pc \in {"list", "items"} /\ pc' \in {"list", "items", "report"}
          /\ event' # "complete" /\ Settled' = Settled
      BY <1>0, <1>7, Kept, KeptKinds DEF List, DeleteItem, ListDone, resultVars
    <2> QED BY <2>1, Marks DEF Fixpoint
  <1>8. CASE Report
    <2>1. /\ pc = "report" /\ pc' = "done" /\ Settled' = Settled
          /\ event' = "complete" => ~failed /\ failed' = failed
      BY <1>8, Kept, KeptKinds DEF Report
    <2> QED BY <2>1 DEF Fixpoint
  <1>9. CASE World \/ UNCHANGED vars
    <2>1. /\ UNCHANGED <<pc, event, failed, i, progress>>
          /\ UNCHANGED <<kindMap, ownerOf, tried>>
          /\ expired => expired'
      BY <1>9 DEF World, Expire, Reinstall, Collect, Recreate, WorldUnchanged, vars,
                  clusterVars, resultVars
    <2>2. Settled' = Settled /\ \A e : Ready(e)' = Ready(e)
      BY <2>1, Kept, KeptKinds
    <2> QED BY <2>1, <2>2, Kept DEF Fixpoint
  <1> QED BY <1>1, <1>2, <1>3, <1>4, <1>5, <1>6, <1>7, <1>8, <1>9 DEF Next, Cleanup

LEMMA SweepInvariant == Spec => []SweepInv
  <1>1. SweepInv /\ [Next]_vars => SweepInv'
    BY ShapesStep, ForeignStep, FetchedStep, GoneStep, FixpointStep DEF SweepInv
  <1> QED BY SweepInit, <1>1, PTL DEF Spec

\* "complete" is only reported when every object of the release is gone, unless
\* discovery or the lookup of owners missed some or the release was installed
\* again; and with exact discovery nobody else's object is ever touched.
THEOREM SweepIsExactThm == Spec => []SweepIsExact
  <1>1. SweepInv => SweepIsExact
    <2> SUFFICES ASSUME SweepInv PROVE SweepIsExact
      OBVIOUS
    <2> USE DEF SweepInv
    <2>1. ASSUME event = "complete", Exact, OwnersSeen, OwnersInOrder, ~again, NEW o \in Own
          PROVE  present[o] = "absent"
      <3>1. Settled /\ ~failed
        BY <2>1 DEF Fixpoint
      <3>2. PICK e \in InManifest : o = ObjectOf(e)
        BY DEF Own
      <3>3. Key(e) \in tried
        BY <2>1, <3>1, AllTried
      <3> QED BY <2>1, <3>1, <3>2, <3>3 DEF Gone, Trusted
    <2>2. BystandersSafe
      BY DEF Foreign, BystandersSafe
    <2> QED BY <2>1, <2>2 DEF SweepIsExact, CompleteIsClean
  <1> QED BY <1>1, SweepInvariant, PTL

-----------------------------------------------------------------------------
(* Types, and how often the sweep deletes. Every delete that succeeds is   *)
(* of a resource whose key was not tried before, or of a labelled object   *)
(* that no list before this one held.                                      *)

Late == {"list", "items", "report", "done"}
\* Labelled objects that a list has held and that are no longer to be deleted.
Swept == {o \in WithLabel \ Running :
            /\ pc \in Late
            /\ \E j \in 1 .. 3 : /\ o \in Labelled[Classes[j]]
                                 /\ j < i \/ (j = i /\ pc = "items" /\ o \notin items)}

\* The keys of the manifest's resources.
ManifestKeys == {Key(e) : e \in InManifest}

\* Where the label lists are, and what the current one holds.
Listing ==
    /\ i \in 1 .. Len(manifest) + 1 \/ i \in 1 .. 4
    /\ pc = "list" => i \in 1 .. 4
    /\ pc = "items" => i \in 1 .. 3 /\ items \subseteq Labelled[Classes[i]] \ Running

Flags ==
    /\ pc \in {"uninstall", "client", "discover", "owners", "pass", "sweep",
               "grace", "list", "items", "report", "done", "failed"}
    /\ progress \in BOOLEAN /\ expired \in BOOLEAN /\ again \in BOOLEAN
    /\ failed \in BOOLEAN
    /\ event \in {"none", "complete", "partial", "error"}

\* Deleted are at most the keys tried and the objects swept.
Tally ==
    /\ tried \subseteq ManifestKeys
    /\ deleted \in Nat /\ deleted <= Cardinality(tried) + Cardinality(Swept)

\* There are finitely many labelled objects, so a bound on what is counted.
LEMMA LabelFacts ==
    /\ IsFiniteSet(WithLabel) /\ WithLabel \subseteq Objects
    /\ \A j \in 1 .. 3 : Labelled[Classes[j]] \subseteq WithLabel
<1>1. WithLabel = (Labelled[Classes[1]] \cup Labelled[Classes[2]]) \cup Labelled[Classes[3]]
  BY DEF WithLabel
<1>2. /\ IsFiniteSet(Labelled[Classes[1]]) /\ IsFiniteSet(Labelled[Classes[2]])
      /\ IsFiniteSet(Labelled[Classes[3]])
  BY LabelledAssumption
<1>3. IsFiniteSet(Labelled[Classes[1]] \cup Labelled[Classes[2]])
  BY <1>2, FS_Union
<1>4. IsFiniteSet(WithLabel)
  BY <1>1, <1>2, <1>3, FS_Union
<1> QED BY <1>4, LabelledAssumption DEF WithLabel

LEMMA KeysFinite ==
    ASSUME Shapes
    PROVE  IsFiniteSet(ManifestKeys)
<1> DEFINE n == Len(manifest)
           f == [j \in 1 .. n |-> Key(manifest[j])]
<1>1. n \in Nat /\ DOMAIN manifest = 1 .. n
  BY EntryFacts
<1>2. f \in Surjection(1 .. n, ManifestKeys)
  <2>1. \A j \in 1 .. n : f[j] \in ManifestKeys
    BY <1>1 DEF ManifestKeys, InManifest
  <2>2. \A k \in ManifestKeys : \E j \in 1 .. n : f[j] = k
    BY <1>1 DEF ManifestKeys, InManifest
  <2> HIDE DEF f
  <2>3. f \in [1 .. n -> ManifestKeys]
    BY <2>1 DEF f
  <2> QED BY <2>2, <2>3 DEF Surjection
<1>3. IsFiniteSet(1 .. n)
  BY <1>1, FS_Interval
<1> HIDE DEF f, n
<1> QED BY <1>2, <1>3, FS_Surjection

LEMMA SweptFacts ==
    ASSUME NEW S \in SUBSET (WithLabel \ Running)
    PROVE  /\ IsFiniteSet(S) /\ Cardinality(S) \in Nat
           /\ Cardinality(S) <= Cardinality(WithLabel \ Running)
           /\ Cardinality(WithLabel \ Running) \in Nat
<1>1. IsFiniteSet(WithLabel \ Running)
  BY LabelFacts, FS_Subset
<1> QED BY <1>1, FS_Subset, FS_CardinalityType

LEMMA TriedFacts ==
    ASSUME SweepInv, Tally
    PROVE  /\ IsFiniteSet(tried) /\ Cardinality(tried) \in Nat
           /\ Cardinality(tried) <= Cardinality(ManifestKeys) /\ Cardinality(ManifestKeys) \in Nat
<1>1. IsFiniteSet(ManifestKeys) /\ tried \subseteq ManifestKeys
  BY KeysFinite DEF SweepInv, Tally
<1> QED BY <1>1, FS_Subset, FS_CardinalityType

LEMMA TallyInit == Init => Flags /\ Listing /\ Tally
<1> SUFFICES ASSUME Init PROVE Flags /\ Listing /\ Tally
  OBVIOUS
<1>1. Flags
  BY Zenon DEF Init, Flags
<1>2. SweepInv
  BY SweepInit
<1>3. i = 1 /\ pc = "uninstall" /\ deleted = 0 /\ tried = {}
  BY Zenon DEF Init
<1>4. Listing
  BY <1>3 DEF Listing
<1>5. Cardinality(tried) \in Nat /\ Cardinality(Swept) \in Nat
  <2>1. Swept \subseteq WithLabel \ Running
    BY DEF Swept
  <2> QED BY <1>3, <2>1, SweptFacts, FS_EmptySet
<1>6. Tally
  BY <1>3, <1>5 DEF Tally
<1> QED BY <1>1, <1>4, <1>6

LEMMA FlagsStep == Flags /\ [Next]_vars => Flags'
<1> SUFFICES ASSUME Flags, [Next]_vars PROVE Flags'
  OBVIOUS
<1>1. /\ failed' \in BOOLEAN
  BY DEF Flags, Next, vars, clusterVars, resultVars, WorldUnchanged, Delete,
         Cleanup, Uninstall, BuildClient, BuildClientFails, Discover, FetchOwners,
         OwnersFetched, BeginPass, SkipEntry, DeleteEntry, EndPass, Grace, List,
         DeleteItem, ListDone, Report, World, Expire, Reinstall, Collect, Recreate
<1>2. /\ progress' \in BOOLEAN /\ expired' \in BOOLEAN /\ again' \in BOOLEAN
  BY DEF Flags, Next, vars, clusterVars, resultVars, WorldUnchanged,
         Cleanup, Uninstall, BuildClient, BuildClientFails, Discover, FetchOwners,
         OwnersFetched, BeginPass, SkipEntry, DeleteEntry, EndPass, Grace, List,
         DeleteItem, ListDone, Report, World, Expire, Reinstall, Collect, Recreate
<1>3. /\ pc' \in {"uninstall", "client", "discover", "owners", "pass", "sweep",
               "grace", "list", "items", "report", "done", "failed"}
      /\ event' \in {"none", "complete", "partial", "error"}
  BY DEF Flags, Next, vars, clusterVars, resultVars, WorldUnchanged,
         Cleanup, Uninstall, BuildClient, BuildClientFails, Discover, FetchOwners,
         OwnersFetched, BeginPass, SkipEntry, DeleteEntry, EndPass, Grace, List,
         DeleteItem, ListDone, Report, World, Expire, Reinstall, Collect, Recreate
<1> QED BY <1>1, <1>2, <1>3 DEF Flags

LEMMA ListingStep == SweepInv /\ Listing /\ [Next]_vars => Listing'
<1> SUFFICES ASSUME SweepInv, Listing, [Next]_vars PROVE Listing'
  OBVIOUS
<1>1. manifest' = manifest /\ Len(manifest) \in Nat /\ i \in Nat
  BY Kept, EntryFacts DEF SweepInv, Shapes
<1>2. CASE FetchOwners \/ SkipEntry \/ DeleteEntry
  <2>1. i <= Len(manifest) /\ i' = i + 1 /\ pc' = pc /\ pc \in {"owners", "sweep"}
    BY <1>2 DEF FetchOwners, SkipEntry, DeleteEntry, AtEntry
  <2> QED BY <1>1, <2>1 DEF SweepInv, Shapes, Listing
<1>3. CASE List
  <2>1. pc = "list" /\ i \in 1 .. 3
    BY <1>1, <1>3 DEF List, Listing
  <2>2. CASE pc' = "items"
    <3>1. i' = i /\ items' \subseteq Labelled[Classes[i]] \ Running
      BY <1>3, <2>1, <2>2 DEF List
    <3> QED BY <1>1, <2>1, <2>2, <3>1 DEF Listing
  <2>3. CASE pc' # "items"
    <3>1. i' = i + 1 /\ pc' = "list"
      BY <1>3, <2>1, <2>3 DEF List
    <3> QED BY <1>1, <2>1, <3>1 DEF Listing
  <2> QED BY <2>2, <2>3
<1>4. CASE DeleteItem
  BY <1>1, <1>4 DEF DeleteItem, Listing
<1>5. CASE ListDone
  <2>1. CASE pc = "items"
    <3>1. pc' = "list" /\ i' = i + 1 /\ i \in 1 .. 3
      BY <1>5, <2>1 DEF ListDone, Listing
    <3> QED BY <1>1, <3>1 DEF Listing
  <2>2. CASE pc # "items"
    BY <1>1, <1>5, <2>2 DEF ListDone, Listing
  <2> QED BY <2>1, <2>2
<1>6. CASE Discover \/ BeginPass \/ Grace
  <2>1. i' = 1 /\ pc' # "items"
    BY <1>6 DEF Discover, BeginPass, Grace
  <2> QED BY <1>1, <2>1 DEF Listing
<1>7. CASE Uninstall \/ BuildClient \/ BuildClientFails \/ OwnersFetched \/ EndPass \/ Report
  BY <1>1, <1>7 DEF Uninstall, BuildClient, BuildClientFails, OwnersFetched, EndPass, Report, Listing
<1>8. CASE World
  BY <1>1, <1>8 DEF World, Expire, Reinstall, Collect, Recreate, WorldUnchanged, Listing
<1>9. CASE UNCHANGED vars
  BY <1>1, <1>9 DEF vars, Listing
<1> QED BY <1>2, <1>3, <1>4, <1>5, <1>6, <1>7, <1>8, <1>9 DEF Next, Cleanup

\* What deletes nothing: the sets counted only grow.
LEMMA TallyGrows ==
    ASSUME SweepInv, Tally, UNCHANGED <<manifest, deleted, tried>>, Swept \subseteq Swept'
    PROVE  Tally'
<1>1. Cardinality(Swept) <= Cardinality(Swept') /\ Cardinality(Swept') \in Nat
      /\ Cardinality(Swept) \in Nat
  <2>1. Swept' \subseteq WithLabel \ Running
    BY DEF Swept, WithLabel
  <2>2. IsFiniteSet(Swept') /\ Cardinality(Swept') \in Nat
    BY <2>1, SweptFacts
  <2> QED BY <2>2, FS_Subset, FS_CardinalityType
<1>2. ManifestKeys' = ManifestKeys
  BY DEF ManifestKeys, InManifest
<1> QED BY <1>1, <1>2, TriedFacts DEF Tally

LEMMA TallyStep == SweepInv /\ Listing /\ Tally /\ [Next]_vars => Tally'
<1> SUFFICES ASSUME SweepInv, Listing, Tally, [Next]_vars PROVE Tally'
  OBVIOUS
<1>1. /\ manifest' = manifest /\ i \in Nat /\ ManifestKeys' = ManifestKeys
      /\ Swept \subseteq WithLabel \ Running
  BY Kept DEF SweepInv, Shapes, ManifestKeys, Swept
<1>2. CASE DeleteEntry
  <2>1. /\ Entry \in InManifest /\ Key(Entry) \notin tried /\ tried' = tried \cup {Key(Entry)}
        /\ pc = "sweep" /\ pc' = "sweep"
    BY <1>2, AtEntryFacts DEF DeleteEntry, Ready
  <2>2. Swept = {} /\ Swept' = {}
    BY <2>1 DEF Swept, Late
  <2>3. Cardinality(tried') = Cardinality(tried) + 1
    BY <2>1, TriedFacts, FS_AddElement
  <2>4. tried' \subseteq ManifestKeys
    BY <2>1 DEF Tally, ManifestKeys
  <2>5. deleted' \in {deleted, deleted + 1}
    BY <1>2 DEF DeleteEntry, Delete
  <2> QED BY <1>1, <2>2, <2>3, <2>4, <2>5, TriedFacts, FS_EmptySet DEF Tally
<1>3. CASE DeleteItem
  <2>1. PICK o \in items : Delete(o) /\ items' = items \ {o}
    BY <1>3 DEF DeleteItem
  <2>2. UNCHANGED <<pc, i, tried>> /\ pc = "items" /\ i \in 1 .. 3
        /\ items \subseteq Labelled[Classes[i]] \ Running
    BY <1>3 DEF DeleteItem, Listing
  <2>3. o \in WithLabel \ Running /\ o \in Labelled[Classes[i]]
    BY <2>1, <2>2, LabelFacts
  <2>4. o \notin Swept
    <3>1. \A j \in 1 .. 3 : o \in Labelled[Classes[j]] => j = i
      BY <2>2, <2>3, LabelledAssumption
    <3> QED BY <2>1, <2>2, <3>1 DEF Swept
  <2>5. Swept' = Swept \cup {o}
    <3>1. Swept' = {p \in WithLabel \ Running :
                      \E j \in 1 .. 3 : /\ p \in Labelled[Classes[j]]
                                        /\ j < i \/ (j = i /\ (p \notin items \/ p = o))}
      BY <2>1, <2>2 DEF Swept, Late, WithLabel
    <3>2. Swept = {p \in WithLabel \ Running :
                      \E j \in 1 .. 3 : /\ p \in Labelled[Classes[j]]
                                        /\ j < i \/ (j = i /\ p \notin items)}
      BY <2>2 DEF Swept, Late
    <3> QED BY <2>2, <2>3, <3>1, <3>2
  <2>6. Cardinality(Swept') = Cardinality(Swept) + 1 /\ Cardinality(Swept) \in Nat
    BY <1>1, <2>4, <2>5, SweptFacts, FS_AddElement
  <2>7. deleted' \in {deleted, deleted + 1}
    BY <2>1 DEF Delete
  <2> QED BY <1>1, <2>2, <2>6, <2>7, TriedFacts DEF Tally
<1>4. CASE List
  <2>1. pc = "list" /\ pc' \in {"list", "items"} /\ (i' = i \/ i' = i + 1) /\ UNCHANGED <<deleted, tried>>
        /\ (pc' = "items" => i' = i)
    BY <1>4 DEF List
  <2>2. Swept \subseteq Swept'
    BY <1>1, <2>1 DEF Swept, Late, WithLabel
  <2> QED BY <1>1, <2>1, <2>2, TallyGrows
<1>5. CASE ListDone
  <2>1. UNCHANGED <<deleted, tried, items>> /\ pc' \in {"list", "report"}
        /\ (pc = "items" => items = {} /\ i' = i + 1) /\ (pc # "items" => i' = i)
    BY <1>5 DEF ListDone, resultVars
  <2>2. Swept \subseteq Swept'
    <3>1. CASE pc = "items"
      BY <1>1, <2>1, <3>1 DEF Swept, Late, WithLabel
    <3>2. CASE pc # "items"
      BY <1>1, <2>1, <3>2 DEF Swept, Late, WithLabel
    <3> QED BY <3>1, <3>2
  <2> QED BY <1>1, <2>1, <2>2, TallyGrows
<1>6. CASE \/ FetchOwners \/ SkipEntry \/ BeginPass \/ Discover \/ Grace
           \/ Uninstall \/ BuildClient \/ BuildClientFails \/ OwnersFetched \/ EndPass
  <2>1. pc \notin Late /\ UNCHANGED <<deleted, tried>>
    BY <1>6 DEF FetchOwners, SkipEntry, BeginPass, Discover, Grace, Uninstall, BuildClient,
                BuildClientFails, OwnersFetched, EndPass, resultVars, Late
  <2> QED BY <1>1, <2>1, TallyGrows DEF Swept
<1>7. CASE Report \/ World \/ UNCHANGED vars
  <2>1. /\ UNCHANGED <<deleted, tried, items, i>>
        /\ pc' = pc \/ (pc = "report" /\ pc' = "done")
    BY <1>7 DEF Report, World, Expire, Reinstall, Collect, Recreate, WorldUnchanged, vars, resultVars,
                clusterVars
  <2>2. Swept \subseteq Swept'
    BY <2>1 DEF Swept, Late, WithLabel
  <2> QED BY <1>1, <2>1, <2>2, TallyGrows
<1> QED BY <1>2, <1>3, <1>4, <1>5, <1>6, <1>7 DEF Next, Cleanup

\* The sweep counts no resource and no labelled object twice, however often
\* operators recreate what it deletes (deletedCount of the cleanup goroutine).
THEOREM SweepTyped == Spec => []TypeOK
<1> DEFINE Inv == SweepInv /\ Flags /\ Listing /\ Tally
<1>1. Inv /\ [Next]_vars => Flags' /\ Listing' /\ Tally'
  BY FlagsStep, ListingStep, TallyStep
<1>2. Inv => TypeOK
  <2> SUFFICES ASSUME Inv PROVE TypeOK
    OBVIOUS
  <2>1. Swept \subseteq WithLabel \ Running
    BY DEF Swept
  <2>2. deleted \in 0 .. Cardinality(ManifestKeys) + Cardinality(WithLabel \ Running)
    <3>1. /\ Cardinality(Swept) \in Nat /\ Cardinality(WithLabel \ Running) \in Nat
          /\ Cardinality(Swept) <= Cardinality(WithLabel \ Running)
      BY <2>1, SweptFacts
    <3>2. /\ Cardinality(tried) \in Nat /\ Cardinality(ManifestKeys) \in Nat
          /\ Cardinality(tried) <= Cardinality(ManifestKeys)
      BY TriedFacts
    <3>3. deleted \in Nat /\ deleted <= Cardinality(tried) + Cardinality(Swept)
      BY DEF Tally
    <3> QED BY <3>1, <3>2, <3>3
  <2>3. items \subseteq Objects
    BY LabelFacts DEF SweepInv, Foreign
  <2> QED BY <2>2, <2>3 DEF SweepInv, Shapes, Statuses, Flags, Listing, TypeOK, ManifestKeys
<1> QED BY SweepInvariant, TallyInit, <1>1, <1>2, PTL DEF Spec

=============================================================================
