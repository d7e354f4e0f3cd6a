---------------------------- MODULE ReleaseTable ----------------------------
(***************************************************************************)
(* The releases the Helm frontend shows, against the releases the cluster  *)
(* has: the mutation hooks, their optimistic rows, the event handlers that *)
(* invalidate the list, the one list query, and the backend's install,     *)
(* upgrade, rollback, delete and cleanup calls with their goroutines.      *)
(*                                                                         *)
(* The reply of a call and the event of its goroutine reach the frontend   *)
(* by different ways and in either order. The list is read once when the   *)
(* page opens and again only when something invalidates it.                *)
(***************************************************************************)
EXTENDS Naturals, FiniteSets

CONSTANTS
    Names,     \* release names
    Releases,  \* the releases, [name, ns] records
    Jobs,      \* the user's operations, each done once
    None       \* no answer yet

ASSUME ReleasesAssumption ==
    /\ Releases # {}
    /\ \A r \in Releases : r = [name |-> r.name, ns |-> r.ns] /\ r.name \in Names

Statuses == {"absent", "pending-install", "pending-upgrade", "deployed", "failed"}
Kinds    == {"install", "upgrade", "rollback", "delete", "cleanup"}
Listings == [Releases -> Statuses]

ASSUME NullsAssumption == None \notin Listings

VARIABLES
    cluster,  \* the status of each release's latest revision
    pc,       \* where the backend is with each job
    job,      \* the job's kind and release
    replies,  \* replies on their way to the frontend: <<job, ok>>
    events,   \* events on their way to the frontend: <<job, ok>>
    table,    \* the cached list, as the page shows it: one row a release
    hasData,  \* the query has data
    fetch,    \* the query's fetch in flight: "none", "asked", "answered"
    answer,   \* what the fetch read
    owed,     \* history: <<reason, job>>, why the table may differ
    excused   \* history: owed when answer was read

backVars  == <<cluster, pc, job>>
wireVars  == <<replies, events>>
queryVars == <<table, hasData, fetch, answer>>
histVars  == <<owed, excused>>
vars      == <<backVars, wireVars, queryVars, histVars>>

Reasons == {"error", "joined", "overtaken", "list"} \X (Jobs \cup {None})
Still(reasons) == {w \in reasons : w[1] \in {"error", "joined"}}

TypeOK ==
    /\ cluster \in Listings
    /\ pc \in [Jobs -> {"idle", "sent", "running", "recorded", "cleaning", "done"}]
    /\ job \in [Jobs -> [kind : Kinds, release : Releases]]
    /\ replies \subseteq Jobs \X BOOLEAN /\ events \subseteq Jobs \X BOOLEAN
    /\ table \in Listings /\ hasData \in BOOLEAN
    /\ fetch \in {"none", "asked", "answered"}
    /\ answer \in Listings \cup {None}
    /\ (fetch = "answered") <=> (answer # None)
    /\ owed \subseteq Reasons /\ excused \subseteq Reasons

(* The page has just opened on a cluster with some releases.               *)
Init ==
    /\ cluster \in [Releases -> {"absent", "deployed", "failed"}]
    /\ pc = [j \in Jobs |-> "idle"]
    /\ job \in [Jobs -> [kind : {"install"}, release : {CHOOSE r \in Releases : TRUE}]]
    /\ replies = {} /\ events = {}
    /\ table = [r \in Releases |-> "absent"] /\ hasData = FALSE
    /\ fetch = "asked" /\ answer = None
    /\ owed = {} /\ excused = {}

-----------------------------------------------------------------------------
(* The frontend's query, as its library runs it: invalidating it restarts  *)
(* a fetch that is under way, unless the query has no data yet: then that  *)
(* fetch goes on.                                                          *)

(* Faulty variant: a fetch under way is enough.                            *)
Invalidate_Joins(j) ==
    /\ IF fetch # "none"
         THEN UNCHANGED <<fetch, answer, owed>>
         ELSE fetch' = "asked" /\ answer' = None /\ UNCHANGED owed
    /\ UNCHANGED <<table, hasData, excused>>

Invalidate(j) ==
    /\ IF fetch # "none" /\ ~hasData
         THEN owed' = owed \cup {<<"joined", j>>} /\ UNCHANGED <<fetch, answer>>
         ELSE fetch' = "asked" /\ answer' = None /\ UNCHANGED owed
    /\ UNCHANGED <<table, hasData, excused>>

(* ListHelmReleases reads the cluster, or fails; a failed fetch keeps the  *)
(* old list and is not retried.                                            *)
List ==
    /\ fetch = "asked"
    /\ fetch' = "answered" /\ answer' = cluster
    /\ excused' = owed
    /\ UNCHANGED <<backVars, wireVars, table, hasData, owed>>

ListFails ==
    /\ fetch = "asked"
    /\ fetch' = "none"
    /\ owed' = owed \cup {<<"list", None>>}
    /\ UNCHANGED <<backVars, wireVars, table, hasData, answer, excused>>

ReceiveList ==
    /\ fetch = "answered"
    /\ fetch' = "none" /\ answer' = None /\ hasData' = TRUE
    /\ table' = answer
    /\ owed' = Still(owed \ excused) /\ excused' = {}
    /\ UNCHANGED <<backVars, wireVars>>

-----------------------------------------------------------------------------
(* The user installs any release, and operates on rows of the table.       *)
Submit(j, kind, r) ==
    /\ pc[j] = "idle"
    /\ kind # "install" => table[r] # "absent"
    /\ pc' = [pc EXCEPT ![j] = "sent"]
    /\ job' = [job EXCEPT ![j] = [kind |-> kind, release |-> r]]
    /\ UNCHANGED <<cluster, wireVars, queryVars, histVars>>

Goto(j, from, to) == pc[j] = from /\ pc' = [pc EXCEPT ![j] = to]
IsKind(j, kinds)  == job[j].kind \in kinds
SetStatus(j, s)   == cluster' = [cluster EXCEPT ![job[j].release] = s]
Status(j)         == cluster[job[j].release]
Reply(j, ok)      == replies' = replies \cup {<<j, ok>>}
Emit(j, ok)       == events' = events \cup {<<j, ok>>}

(* A call that is refused, or fails in its synchronous part. An uninstall   *)
(* or rollback that fails half-way leaves the release in another state.     *)
CallFails(j) ==
    /\ Goto(j, "sent", "done")
    /\ \/ UNCHANGED cluster
       \/ /\ ~IsKind(j, {"install", "upgrade"}) /\ Status(j) # "absent"
          /\ SetStatus(j, "failed")
    /\ Reply(j, FALSE)
    /\ UNCHANGED <<job, events, queryVars, histVars>>

(* InstallHelmChart and UpgradeHelmRelease return before Helm has recorded  *)
(* anything.                                                                *)
StartDeploy(j) ==
    /\ IsKind(j, {"install", "upgrade"})
    /\ Goto(j, "sent", "running")
    /\ Reply(j, TRUE)
    /\ UNCHANGED <<cluster, job, events, queryVars, histVars>>

(* Helm: a name in use cannot be installed, a release that is absent or     *)
(* busy cannot be upgraded.                                                 *)
Free(j) == IF IsKind(j, {"install"}) THEN Status(j) = "absent"
                                     ELSE Status(j) \in {"deployed", "failed"}

Record(j) ==
    /\ Goto(j, "running", "recorded") /\ Free(j)
    /\ SetStatus(j, IF IsKind(j, {"install"}) THEN "pending-install" ELSE "pending-upgrade")
    /\ UNCHANGED <<job, wireVars, queryVars, histVars>>

DeployRefused(j) ==
    /\ Goto(j, "running", "done")
    /\ Emit(j, FALSE)
    /\ UNCHANGED <<cluster, job, replies, queryVars, histVars>>

Pending(s) == s \in {"pending-install", "pending-upgrade"}

DeployEnds(j, ok) ==
    /\ Goto(j, "recorded", "done")
    /\ Emit(j, ok)
    /\ IF Pending(Status(j)) THEN SetStatus(j, IF ok THEN "deployed" ELSE "failed")
                             ELSE ~ok /\ UNCHANGED cluster   \* deleted meanwhile
    /\ UNCHANGED <<job, replies, queryVars, histVars>>

Rollback(j) ==
    /\ IsKind(j, {"rollback"}) /\ Status(j) # "absent"
    /\ Goto(j, "sent", "done")
    /\ SetStatus(j, "deployed")
    /\ Reply(j, TRUE)
    /\ UNCHANGED <<job, events, queryVars, histVars>>

Delete(j) ==
    /\ IsKind(j, {"delete", "cleanup"}) /\ Status(j) # "absent"
    /\ Goto(j, "sent", IF IsKind(j, {"delete"}) THEN "done" ELSE "cleaning")
    /\ SetStatus(j, "absent")
    /\ Reply(j, TRUE)
    /\ UNCHANGED <<job, events, queryVars, histVars>>

CleanupEnds(j, ok) ==
    /\ Goto(j, "cleaning", "done")
    /\ Emit(j, ok)
    /\ UNCHANGED <<cluster, job, replies, queryVars, histVars>>

-----------------------------------------------------------------------------
(* The hooks' onSuccess and onError, and the event handlers.               *)
Ended(j) == pc[j] = "done" /\ \A ok \in BOOLEAN : <<j, ok>> \notin events
SetRows(rows) == table' = rows /\ hasData' = TRUE /\ UNCHANGED <<fetch, answer>>
Overtaken(j) == owed' = IF Ended(j) THEN owed \cup {<<"overtaken", j>>} ELSE owed

(* Faulty variant: the old rows are not filtered out, so that a release that *)
(* was in the list is there twice, and has no one status.                  *)
InstallReplied_Unfiltered(j) ==
    /\ IsKind(j, {"install"})
    /\ SetRows([r \in Releases |->
                  IF r # job[j].release THEN table[r]
                  ELSE IF table[r] = "absent" THEN "pending-install"
                  ELSE "listed twice"])
    /\ Overtaken(j)
    /\ UNCHANGED excused

(* The optimistic row replaces every row of that name.                     *)
InstallReplied(j) ==
    /\ IsKind(j, {"install"})
    /\ SetRows([r \in Releases |->
                  IF r = job[j].release THEN "pending-install"
                  ELSE IF r.name = job[j].release.name THEN "absent"
                  ELSE table[r]])
    /\ Overtaken(j)
    /\ UNCHANGED excused

UpgradeReplied(j) ==
    /\ IsKind(j, {"upgrade"})
    /\ SetRows([r \in Releases |->
                  IF r.name = job[j].release.name /\ table[r] # "absent"
                    THEN "pending-upgrade" ELSE table[r]])
    /\ Overtaken(j)
    /\ UNCHANGED excused

CallReplied(j) ==
    /\ IsKind(j, {"rollback", "delete", "cleanup"})
    /\ Invalidate(j)

HandleReply(j) ==
    /\ <<j, TRUE>> \in replies
    /\ replies' = replies \ {<<j, TRUE>>}
    /\ InstallReplied(j) \/ UpgradeReplied(j) \/ CallReplied(j)
    /\ UNCHANGED <<backVars, events>>

(* onError only shows a toast.                                             *)
HandleErrorReply(j) ==
    /\ <<j, FALSE>> \in replies
    /\ replies' = replies \ {<<j, FALSE>>}
    /\ owed' = owed \cup {<<"error", j>>}
    /\ UNCHANGED <<backVars, events, queryVars, excused>>

(* Faulty variant: an upgrade's event refreshes only the detail view.      *)
HandleComplete_InstallOnly(j) ==
    /\ <<j, TRUE>> \in events
    /\ events' = events \ {<<j, TRUE>>}
    /\ IF IsKind(j, {"upgrade"}) THEN UNCHANGED <<queryVars, histVars>> ELSE Invalidate(j)
    /\ UNCHANGED <<backVars, replies>>

HandleComplete(j) ==
    /\ <<j, TRUE>> \in events
    /\ events' = events \ {<<j, TRUE>>}
    /\ Invalidate(j)
    /\ UNCHANGED <<backVars, replies>>

(* helm:install:error, upgrade:error and cleanup:error only show a toast.   *)
(* helm:cleanup:partial is handled as complete.                             *)
HandleError(j) ==
    /\ <<j, FALSE>> \in events
    /\ events' = events \ {<<j, FALSE>>}
    /\ owed' = owed \cup {<<"error", j>>}
    /\ UNCHANGED <<backVars, replies, queryVars, excused>>

-----------------------------------------------------------------------------
Backend(j) ==
    \/ CallFails(j) \/ StartDeploy(j) \/ Record(j) \/ DeployRefused(j)
    \/ Rollback(j) \/ Delete(j)
    \/ \E ok \in BOOLEAN : DeployEnds(j, ok) \/ CleanupEnds(j, ok)
Frontend(j) ==
    HandleReply(j) \/ HandleErrorReply(j) \/ HandleComplete(j) \/ HandleError(j)
Query == List \/ ListFails \/ ReceiveList

Next ==
    \/ \E j \in Jobs : Backend(j) \/ Frontend(j)
    \/ \E j \in Jobs, kind \in Kinds, r \in Releases : Submit(j, kind, r)
    \/ Query

Spec == Init /\ [][Next]_vars

(* Calls and goroutines end, replies and events arrive, fetches return. The *)
(* user need not do anything.                                               *)
FairSpec ==
    /\ Spec /\ WF_vars(Query)
    /\ \A j \in Jobs : WF_vars(Backend(j)) /\ WF_vars(Frontend(j))
-----------------------------------------------------------------------------
Quiet ==
    /\ \A j \in Jobs : pc[j] \in {"idle", "done"}
    /\ replies = {} /\ events = {} /\ fetch = "none"

(* Once nothing is under way the table shows what the cluster has, after   *)
(* any sequence and overlap of installs, upgrades, rollbacks and deletes.  *)
(* The exceptions are all there are: something ended in an error, an event *)
(* overtook the reply of its call, the page's first fetch was still under  *)
(* way, or the list call failed, and no list has been read since.          *)
SettledTableIsTrue == Quiet /\ owed = {} => table = cluster

(* Liveness: an optimistic row does not last: the release becomes what the *)
(* row says, or the row goes, or one of the same exceptions applies.       *)
PendingRowsResolve ==
    \A r \in Releases :
        Pending(table[r]) ~> ~Pending(table[r]) \/ table[r] = cluster[r] \/ owed # {}

(* useInstallHelmChart.tsx:32-34 and useUpgradeHelmChart.tsx:29-32: the    *)
(* error event, too, invalidates the list for real.                        *)
ErrorsReconcile ==
    Quiet /\ owed = Still(owed) =>
        \A r \in Releases : Pending(table[r]) => table[r] = cluster[r]
=============================================================================
