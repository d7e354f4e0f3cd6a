------------------------- MODULE ReleaseTableProofs -------------------------
(***************************************************************************)
(* Why the releases table is true once everything is quiet, for any        *)
(* releases and any overlapping operations on them: whoever changes the    *)
(* cluster still owes the frontend word of it (Owes), and an old answer    *)
(* that is on its way is replaced, or a note of why not is left (Read).    *)
(***************************************************************************)
EXTENDS ReleaseTable, TLAPS

\* The types of the cluster and its jobs, and of the query and the history.
TableTyped ==
    /\ cluster \in Listings
    /\ pc \in [Jobs -> {"idle", "sent", "running", "recorded", "cleaning", "done"}]
    /\ job \in [Jobs -> [kind : Kinds, release : Releases]]
    /\ replies \subseteq Jobs \X BOOLEAN /\ events \subseteq Jobs \X BOOLEAN

QueryTyped ==
    /\ table \in Listings /\ hasData \in BOOLEAN
    /\ fetch \in {"none", "asked", "answered"}
    /\ answer \in Listings \cup {None}
    /\ (fetch = "answered") <=> (answer # None)
    /\ owed \subseteq Reasons /\ excused \subseteq Reasons

LEMMA TypedParts == TypeOK <=> TableTyped /\ QueryTyped
BY DEF TypeOK, TableTyped, QueryTyped

LEMMA TableInitial == Init => TypeOK
<1> SUFFICES ASSUME Init PROVE TypeOK
  OBVIOUS
<1>1. (CHOOSE r \in Releases : TRUE) \in Releases
  BY ReleasesAssumption
<1>2. cluster \in Listings /\ table \in Listings
  BY DEF Init, Listings, Statuses
<1>3. /\ pc \in [Jobs -> {"idle", "sent", "running", "recorded", "cleaning", "done"}]
      /\ job \in [Jobs -> [kind : Kinds, release : Releases]]
  BY <1>1 DEF Init, Kinds
<1>4. TableTyped
  BY <1>2, <1>3 DEF Init, TableTyped
<1>5. QueryTyped
  BY <1>2 DEF Init, QueryTyped
<1> QED BY <1>4, <1>5, TypedParts

LEMMA BackendTyped ==
    ASSUME TypeOK, NEW j \in Jobs, Backend(j)
    PROVE  TypeOK'
<1> USE DEF Goto, SetStatus, Reply, Emit
<1>1. UNCHANGED <<table, hasData, fetch, answer, owed, excused>>
  BY DEF Backend, CallFails, StartDeploy, Record, DeployRefused, Rollback, Delete, DeployEnds,
         CleanupEnds, queryVars, histVars
<1>2. QueryTyped'
  BY <1>1, TypedParts DEF QueryTyped
<1>3. job' = job /\ job[j].release \in Releases
  BY TypedParts DEF TableTyped, Backend, CallFails, StartDeploy, Record, DeployRefused, Rollback,
         Delete, DeployEnds, CleanupEnds
<1>4. cluster' = cluster \/ \E s \in Statuses : cluster' = [cluster EXCEPT ![job[j].release] = s]
  BY DEF Backend, CallFails, StartDeploy, Record, DeployRefused, Rollback, Delete, DeployEnds,
         CleanupEnds, Statuses
<1>5. cluster' \in Listings
  BY <1>3, <1>4, TypedParts DEF TableTyped, Listings
<1>6. \E to \in {"done", "running", "recorded", "cleaning"} : pc' = [pc EXCEPT ![j] = to]
  BY DEF Backend, CallFails, StartDeploy, Record, DeployRefused, Rollback, Delete, DeployEnds,
         CleanupEnds
<1>7. replies' \subseteq Jobs \X BOOLEAN /\ events' \subseteq Jobs \X BOOLEAN
  <2>1. replies' \subseteq replies \cup {<<j, TRUE>>, <<j, FALSE>>}
    BY DEF Backend, CallFails, StartDeploy, Record, DeployRefused, Rollback, Delete, DeployEnds,
           CleanupEnds, wireVars
  <2>2. events' \subseteq events \cup {<<j, TRUE>>, <<j, FALSE>>}
    BY DEF Backend, CallFails, StartDeploy, Record, DeployRefused, Rollback, Delete, DeployEnds,
           CleanupEnds, wireVars
  <2>3. replies \subseteq Jobs \X BOOLEAN /\ events \subseteq Jobs \X BOOLEAN
    BY TypedParts DEF TableTyped
  <2>4. <<j, TRUE>> \in Jobs \X BOOLEAN /\ <<j, FALSE>> \in Jobs \X BOOLEAN
    <3>1. \A B : \A b \in B : <<j, b>> \in Jobs \X B
      OBVIOUS
    <3>2. TRUE \in BOOLEAN /\ FALSE \in BOOLEAN
      BY Zenon
    <3> QED BY <3>1, <3>2, Zenon
  <2> QED BY <2>1, <2>2, <2>3, <2>4, Zenon
<1>8. TableTyped'
  BY <1>3, <1>5, <1>6, <1>7, TypedParts DEF TableTyped
<1> QED BY <1>2, <1>8, TypedParts DEF TypeOK, TableTyped, QueryTyped

LEMMA ReasonsTyped ==
    ASSUME NEW j \in Jobs
    PROVE  {<<"error", j>>, <<"joined", j>>, <<"overtaken", j>>, <<"list", None>>} \subseteq Reasons
BY DEF Reasons

LEMMA FrontendTyped ==
    ASSUME TypeOK, NEW j \in Jobs, Frontend(j)
    PROVE  TypeOK'
<1>1. /\ UNCHANGED <<cluster, pc, job>> /\ replies' \subseteq replies /\ events' \subseteq events
  BY DEF Frontend, HandleReply, HandleErrorReply, HandleComplete, HandleError, backVars
<1>2. TableTyped'
  BY <1>1, TypedParts DEF TableTyped
<1>3. QueryTyped
  BY TypedParts
<1>4. ASSUME Invalidate(j) PROVE QueryTyped'
  <2>1. UNCHANGED <<table, hasData, excused>> /\ owed' \subseteq owed \cup {<<"joined", j>>}
    BY <1>4 DEF Invalidate
  <2>2. (fetch' = fetch /\ answer' = answer) \/ (fetch' = "asked" /\ answer' = None)
    BY <1>4 DEF Invalidate
  <2>3. owed' \subseteq Reasons
    BY <1>3, <2>1, ReasonsTyped DEF QueryTyped
  <2> QED BY <1>3, <2>1, <2>2, <2>3 DEF QueryTyped
<1>5. ASSUME InstallReplied(j) \/ UpgradeReplied(j) PROVE QueryTyped'
  <2>1. table' \in Listings
    BY <1>3, <1>5 DEF InstallReplied, UpgradeReplied, SetRows, QueryTyped, Listings, Statuses
  <2>2. /\ hasData' = TRUE /\ UNCHANGED <<fetch, answer, excused>>
        /\ owed' \subseteq owed \cup {<<"overtaken", j>>}
    BY <1>5 DEF InstallReplied, UpgradeReplied, SetRows, Overtaken
  <2> QED BY <1>3, <2>1, <2>2, ReasonsTyped DEF QueryTyped
<1>6. ASSUME HandleErrorReply(j) \/ HandleError(j) PROVE QueryTyped'
  <2>1. UNCHANGED <<table, hasData, fetch, answer, excused>> /\ owed' = owed \cup {<<"error", j>>}
    BY <1>6 DEF HandleErrorReply, HandleError, queryVars
  <2> QED BY <1>3, <2>1, ReasonsTyped DEF QueryTyped
<1>7. QueryTyped'
  BY <1>4, <1>5, <1>6 DEF Frontend, HandleReply, HandleComplete, CallReplied
<1> QED BY <1>2, <1>7 DEF TypeOK, TableTyped, QueryTyped

LEMMA TableStep == TypeOK /\ [Next]_vars => TypeOK'
<1> SUFFICES ASSUME TypeOK, [Next]_vars PROVE TypeOK'
  OBVIOUS
<1>1. ASSUME NEW j \in Jobs, NEW kind \in Kinds, NEW r \in Releases, Submit(j, kind, r)
      PROVE  TypeOK'
  BY <1>1 DEF Submit, TypeOK, wireVars, queryVars, histVars
<1>2. CASE List
  BY <1>2, NullsAssumption DEF List, TypeOK, backVars, wireVars
<1>3. CASE ListFails
  <2>1. owed' \subseteq Reasons
    BY <1>3 DEF ListFails, TypeOK, Reasons
  <2> QED BY <1>3, <2>1 DEF ListFails, TypeOK, backVars, wireVars
<1>4. CASE ReceiveList
  BY <1>4 DEF ReceiveList, TypeOK, backVars, wireVars, Still
<1>5. CASE UNCHANGED vars
  BY <1>5 DEF vars, backVars, wireVars, queryVars, histVars, TypeOK
<1> QED BY <1>1, <1>2, <1>3, <1>4, <1>5, BackendTyped, FrontendTyped DEF Next, Query

(* Lists, rows and notes keep their types; an answer is held exactly while *)
(* a fetch is answered and not yet received (React Query's one fetch).     *)
THEOREM TableTypedThm == Spec => []TypeOK
BY TableInitial, TableStep, PTL DEF Spec

-----------------------------------------------------------------------------
(* The life of a job. It answers once and sends at most one event, after   *)
(* all it does to the cluster; nothing is noted of it before the frontend  *)
(* has heard of it.                                                        *)

Deploys == {"install", "upgrade"}
Replied(j, ok) == <<j, ok>> \in replies
Told(j, ok)    == <<j, ok>> \in events
Noted(j, why)  == <<why, j>> \in owed \cup excused
Unheard(j)     == ~Noted(j, "error") /\ ~Noted(j, "joined") /\ ~Noted(j, "overtaken")
Silent(j)      == ~Told(j, TRUE) /\ ~Told(j, FALSE)

Life(j) ==
    /\ pc[j] \in {"idle", "sent"} =>
         ~Replied(j, TRUE) /\ ~Replied(j, FALSE) /\ Silent(j) /\ Unheard(j)
    /\ pc[j] \in {"running", "recorded"} =>
         job[j].kind \in Deploys /\ ~Replied(j, FALSE) /\ Silent(j) /\ Unheard(j)
    /\ pc[j] = "cleaning" => job[j].kind = "cleanup" /\ ~Replied(j, FALSE) /\ Silent(j)
    /\ ~Silent(j) => /\ pc[j] = "done" /\ ~Replied(j, FALSE)
                     /\ job[j].kind \in Deploys \cup {"cleanup"}
                     /\ job[j].kind \in Deploys => Unheard(j)
                     /\ ~Told(j, TRUE) \/ ~Told(j, FALSE)
    /\ Replied(j, FALSE) => pc[j] = "done" /\ Silent(j) /\ Unheard(j) /\ ~Replied(j, TRUE)
    /\ Replied(j, TRUE) /\ job[j].kind \in {"rollback", "delete"} => Unheard(j)

\* A job changed the cluster and the frontend will still hear of the change.
Owes(j) ==
    \/ pc[j] = "recorded"
    \/ ~Silent(j) /\ job[j].kind \in Deploys
    \/ Replied(j, FALSE)
    \/ Replied(j, TRUE) /\ job[j].kind \notin Deploys

\* What Quiet excludes of one job.
UnderWay(j) == pc[j] \notin {"idle", "done"} \/ ~Silent(j) \/ Replied(j, TRUE) \/ Replied(j, FALSE)

\* An answer that is old by now will be replaced: a note of it outlives the
\* answer, or a job owes word and no note of that job is due to go.
Read ==
    fetch = "answered" /\ answer # cluster =>
        \/ Still(owed \ excused) # {}
        \/ \E j \in Jobs : Owes(j) /\ <<"joined", j>> \notin excused /\ <<"error", j>> \notin excused

\* A table that is wrong has a note, or something is still under way.
Shown == fetch = "none" /\ table # cluster => owed # {} \/ \E j \in Jobs : UnderWay(j)

TableInv == (\A j \in Jobs : Life(j)) /\ Read /\ Shown

LEMMA TableInvInitial == Init => TableInv
BY DEF Init, TableInv, Life, Read, Shown, Replied, Told, Silent, Noted, Unheard

\* A job that does nothing keeps its life, whatever is heard of it.
LEMMA LifeGoesOn ==
    ASSUME NEW j \in Jobs, Life(j), pc'[j] = pc[j], job'[j] = job[j],
           \A ok \in BOOLEAN : /\ Replied(j, ok)' => Replied(j, ok)
                               /\ Told(j, ok)' => Told(j, ok),
           Unheard(j) => Unheard(j)'
    PROVE  Life(j)'
<1>1. /\ Replied(j, TRUE)' => Replied(j, TRUE)
      /\ Replied(j, FALSE)' => Replied(j, FALSE)
      /\ Told(j, TRUE)' => Told(j, TRUE)
      /\ Told(j, FALSE)' => Told(j, FALSE)
  BY Zenon
<1>2. Silent(j) => Silent(j)'
  BY <1>1 DEF Silent
<1> QED BY <1>1, <1>2 DEF Life

\* Owing follows from what is heard of a job and where it is.
LEMMA OwesOn ==
    ASSUME NEW j \in Jobs, pc'[j] = pc[j], job'[j] = job[j],
           Replied(j, TRUE) => Replied(j, TRUE)', Replied(j, FALSE) => Replied(j, FALSE)',
           Told(j, TRUE) => Told(j, TRUE)', Told(j, FALSE) => Told(j, FALSE)'
    PROVE  Owes(j) => Owes(j)'
BY DEF Owes, Silent

-----------------------------------------------------------------------------
(* The steps of the backend.                                               *)

LEMMA BackendStep ==
    ASSUME TypeOK, TableInv, NEW j \in Jobs, Backend(j)
    PROVE  TableInv'
<1> USE DEF Goto, Reply, Emit, SetStatus, IsKind
<1>1. /\ UNCHANGED <<job, table, hasData, fetch, answer, owed, excused>>
      /\ pc \in [Jobs -> {"idle", "sent", "running", "recorded", "cleaning", "done"}]
      /\ Life(j)
  BY DEF Backend, CallFails, StartDeploy, Record, DeployRefused, Rollback, Delete, DeployEnds,
         CleanupEnds, queryVars, histVars, TypeOK, TableInv
<1>2. \A d \in Jobs \ {j} :
        /\ pc'[d] = pc[d]
        /\ \A ok \in BOOLEAN : (Replied(d, ok)' <=> Replied(d, ok)) /\ (Told(d, ok)' <=> Told(d, ok))
  <2>1. \A d \in Jobs \ {j} : pc'[d] = pc[d]
    BY <1>1 DEF Backend, CallFails, StartDeploy, Record, DeployRefused, Rollback, Delete, DeployEnds,
                CleanupEnds
  <2>2. replies' = replies \/ \E ok \in BOOLEAN : replies' = replies \cup {<<j, ok>>}
    BY DEF Backend, CallFails, StartDeploy, Record, DeployRefused, Rollback, Delete, DeployEnds,
           CleanupEnds, wireVars
  <2>3. events' = events \/ \E ok \in BOOLEAN : events' = events \cup {<<j, ok>>}
    BY DEF Backend, CallFails, StartDeploy, Record, DeployRefused, Rollback, Delete, DeployEnds,
           CleanupEnds, wireVars
  <2> QED BY <2>1, <2>2, <2>3 DEF Replied, Told
<1> DEFINE Kept == /\ Life(j)' /\ UnderWay(j)' /\ (Owes(j) => Owes(j)')
                   /\ cluster' = cluster \/ (Owes(j)' /\ Unheard(j))
<1>3. ASSUME Kept PROVE TableInv'
  <2>1. \A d \in Jobs \ {j} : Life(d)'
    <3> SUFFICES ASSUME NEW d \in Jobs \ {j} PROVE Life(d)'
      OBVIOUS
    <3>1. Life(d) /\ (Unheard(d) => Unheard(d)')
      BY <1>1 DEF TableInv, Unheard, Noted
    <3> QED BY <1>1, <1>2, <3>1, LifeGoesOn
  <2>2. \A d \in Jobs : Owes(d) => Owes(d)'
    <3> SUFFICES ASSUME NEW d \in Jobs \ {j} PROVE Owes(d) => Owes(d)'
      BY <1>3
    <3>1. /\ Replied(d, TRUE) => Replied(d, TRUE)'
          /\ Replied(d, FALSE) => Replied(d, FALSE)'
          /\ Told(d, TRUE) => Told(d, TRUE)'
          /\ Told(d, FALSE) => Told(d, FALSE)'
      BY <1>2, Zenon
    <3> QED BY <1>1, <1>2, <3>1, OwesOn
  <2>3. Read'
    <3>1. Owes(j)' /\ Unheard(j) => \E d \in Jobs : Owes(d)' /\ <<"joined", d>> \notin excused /\ <<"error", d>> \notin excused
      BY DEF Unheard, Noted
    <3> QED BY <1>1, <1>3, <2>2, <3>1 DEF TableInv, Read
  <2>4. Shown'
    BY <1>3 DEF Shown
  <2> QED BY <1>3, <2>1, <2>3, <2>4 DEF TableInv
<1> SUFFICES Kept
  BY <1>3
<1> USE DEF Replied, Told, Silent, Unheard, Noted, Life, Owes, UnderWay, Deploys
<1>4. CASE CallFails(j)
  BY <1>1, <1>4 DEF CallFails
<1>5. CASE StartDeploy(j)
  BY <1>1, <1>5 DEF StartDeploy
<1>6. CASE Record(j)
  BY <1>1, <1>6 DEF Record, wireVars
<1>7. CASE DeployRefused(j)
  BY <1>1, <1>7 DEF DeployRefused
<1>8. ASSUME NEW ok \in BOOLEAN, DeployEnds(j, ok) PROVE Kept
  BY <1>1, <1>8 DEF DeployEnds
<1>9. CASE Rollback(j)
  BY <1>1, <1>9 DEF Rollback
<1>10. CASE Delete(j)
  BY <1>1, <1>10 DEF Delete
<1>11. ASSUME NEW ok \in BOOLEAN, CleanupEnds(j, ok) PROVE Kept
  BY <1>1, <1>11 DEF CleanupEnds
<1> QED BY <1>4, <1>5, <1>6, <1>7, <1>8, <1>9, <1>10, <1>11 DEF Backend

-----------------------------------------------------------------------------
(* The steps of the frontend.                                              *)

\* Hearing of a job leaves the other jobs as they are.
LEMMA Hearing ==
    ASSUME TypeOK, TableInv, NEW j \in Jobs, UNCHANGED <<cluster, pc, job, excused>>,
           replies' \subseteq replies, events' \subseteq events,
           \A d \in Jobs \ {j}, ok \in BOOLEAN :
               (Replied(d, ok)' <=> Replied(d, ok)) /\ (Told(d, ok)' <=> Told(d, ok)),
           NEW why \in {"error", "joined", "overtaken"},
           owed' \in {owed, owed \cup {<<why, j>>}}
    PROVE  /\ \A d \in Jobs \ {j} : Life(d)'
           /\ \A d \in Jobs \ {j} : Owes(d) => Owes(d)'
           /\ Still(owed \ excused) \subseteq Still(owed' \ excused')
<1>1. ASSUME NEW d \in Jobs \ {j} PROVE Life(d)' /\ (Owes(d) => Owes(d)')
  <2>1. Life(d) /\ (Unheard(d) => Unheard(d)')
    BY DEF TableInv, Unheard, Noted
  <2>2. Life(d)'
    BY <2>1, LifeGoesOn
  <2>3. /\ Replied(d, TRUE) => Replied(d, TRUE)'
        /\ Replied(d, FALSE) => Replied(d, FALSE)'
        /\ Told(d, TRUE) => Told(d, TRUE)'
        /\ Told(d, FALSE) => Told(d, FALSE)'
    BY Zenon
  <2> QED BY <2>2, <2>3, OwesOn
<1>2. Still(owed \ excused) \subseteq Still(owed' \ excused')
  BY DEF Still
<1> QED BY <1>1, <1>2

\* A note of an error or a join that is not due to go outlives the answer.
LEMMA NoteStays ==
    ASSUME NEW j, NEW why \in {"error", "joined"}, <<why, j>> \in owed', <<why, j>> \notin excused'
    PROVE  Still(owed' \ excused') # {}
BY DEF Still

\* Read after a step that takes word of job j and, if an answer is on its way,
\* keeps what j owes or notes it.
LEMMA ReadOn ==
    ASSUME TableInv, NEW j \in Jobs, UNCHANGED <<cluster, excused>>,
           Still(owed \ excused) \subseteq Still(owed' \ excused'),
           \A d \in Jobs \ {j} : Owes(d) => Owes(d)',
           fetch' = "answered" => fetch = "answered" /\ answer' = answer,
           fetch' = "answered" /\ Owes(j) /\ <<"joined", j>> \notin excused /\ <<"error", j>> \notin excused
             => Owes(j)' \/ Still(owed' \ excused') # {}
    PROVE  Read'
<1> SUFFICES ASSUME fetch' = "answered", answer' # cluster', Still(owed' \ excused') = {}
             PROVE  \E d \in Jobs : Owes(d)' /\ <<"joined", d>> \notin excused' /\ <<"error", d>> \notin excused'
  BY DEF Read
<1>1. PICK d \in Jobs : Owes(d) /\ <<"joined", d>> \notin excused /\ <<"error", d>> \notin excused
  BY DEF TableInv, Read
<1> QED BY <1>1

\* An invalidation asks again, or joins the page's first fetch.
LEMMA Invalidation ==
    ASSUME NEW j, Invalidate(j)
    PROVE  /\ excused' = excused /\ fetch' # "none"
           /\ fetch' = "answered" => /\ fetch = "answered" /\ answer' = answer
                                     /\ <<"joined", j>> \in owed'
           /\ owed' \in {owed, owed \cup {<<"joined", j>>}}
BY DEF Invalidate

\* A message is handled once, and no other message with it.
LEMMA MessageTaken ==
    ASSUME NEW j \in Jobs, NEW ok \in BOOLEAN, NEW S, NEW T, T = S \ {<<j, ok>>}
    PROVE  /\ T \subseteq S /\ <<j, ok>> \notin T
           /\ \A d \in Jobs \ {j}, b \in BOOLEAN : <<d, b>> \in T <=> <<d, b>> \in S
BY Zenon

LEMMA FrontendStep ==
    ASSUME TypeOK, TableInv, NEW j \in Jobs, Frontend(j)
    PROVE  TableInv'
<1> USE DEF IsKind
<1>1. /\ UNCHANGED <<cluster, pc, job>> /\ Life(j)
      /\ pc \in [Jobs -> {"idle", "sent", "running", "recorded", "cleaning", "done"}]
      /\ job[j].kind \in Kinds
  BY DEF Frontend, HandleReply, HandleErrorReply, HandleComplete, HandleError, backVars, TableInv, TypeOK
<1>2. CASE HandleReply(j)
  <2>1. /\ Replied(j, TRUE) /\ replies' = replies \ {<<j, TRUE>>} /\ events' = events
        /\ InstallReplied(j) \/ UpgradeReplied(j) \/ CallReplied(j)
    BY <1>2 DEF HandleReply, Replied
  <2>2. /\ replies' \subseteq replies /\ events' \subseteq events /\ ~Replied(j, TRUE)'
        /\ \A d \in Jobs \ {j}, ok \in BOOLEAN :
               (Replied(d, ok)' <=> Replied(d, ok)) /\ (Told(d, ok)' <=> Told(d, ok))
    BY <2>1, MessageTaken, Zenon DEF Replied, Told
  <2>3. ~Replied(j, FALSE) /\ ~Replied(j, FALSE)' /\ (Silent(j)' <=> Silent(j))
    BY <1>1, <2>1 DEF Life, Replied, Silent, Told
  <2>4. CASE InstallReplied(j) \/ UpgradeReplied(j)
    <3>1. /\ job[j].kind \in Deploys /\ UNCHANGED <<fetch, answer, excused>> /\ Overtaken(j)
      BY <2>4 DEF InstallReplied, UpgradeReplied, SetRows, Deploys
    <3>2. Ended(j) <=> pc[j] = "done" /\ Silent(j)
      BY Zenon DEF Ended, Silent, Told
    <3>3. owed' = IF pc[j] = "done" /\ Silent(j) THEN owed \cup {<<"overtaken", j>>} ELSE owed
      BY <3>1, <3>2 DEF Overtaken
    <3>4. /\ \A d \in Jobs \ {j} : Life(d)' /\ (Owes(d) => Owes(d)')
          /\ Still(owed \ excused) \subseteq Still(owed' \ excused')
      BY <1>1, <2>2, <3>1, <3>3, Hearing
    <3>5. Life(j)'
      BY <1>1, <2>1, <2>2, <2>3, <3>1, <3>3 DEF Life, Unheard, Noted, Silent, Told
    <3>6. Owes(j) => Owes(j)'
      BY <1>1, <2>2, <2>3, <3>1 DEF Owes
    <3>7. Read'
      BY <1>1, <3>1, <3>4, <3>6, ReadOn
    <3>8. owed' # {} \/ UnderWay(j)'
      BY <1>1, <2>1, <2>3, <3>3 DEF UnderWay, Life
    <3> QED BY <3>4, <3>5, <3>7, <3>8 DEF TableInv, Shown
  <2>5. CASE CallReplied(j)
    <3>1. job[j].kind \in {"rollback", "delete", "cleanup"} /\ Invalidate(j)
      BY <2>5 DEF CallReplied
    <3>2. /\ excused' = excused /\ fetch' # "none"
          /\ fetch' = "answered" => /\ fetch = "answered" /\ answer' = answer
                                    /\ <<"joined", j>> \in owed'
          /\ owed' \in {owed, owed \cup {<<"joined", j>>}}
      BY <3>1, Invalidation
    <3>3. /\ \A d \in Jobs \ {j} : Life(d)' /\ (Owes(d) => Owes(d)')
          /\ Still(owed \ excused) \subseteq Still(owed' \ excused')
      BY <1>1, <2>2, <3>2, Hearing
    <3>4. Life(j)'
      BY <1>1, <2>1, <2>2, <2>3, <3>1 DEF Life, Silent, Told, Deploys
    <3>5. fetch' = "answered" /\ <<"joined", j>> \notin excused => Still(owed' \ excused') # {}
      BY <3>2, NoteStays
    <3>6. Read'
      BY <1>1, <3>2, <3>3, <3>5, ReadOn
    <3> QED BY <3>2, <3>3, <3>4, <3>6 DEF TableInv, Shown
  <2> QED BY <2>1, <2>4, <2>5
<1>3. CASE HandleErrorReply(j)
  <2>1. /\ Replied(j, FALSE) /\ replies' = replies \ {<<j, FALSE>>} /\ events' = events
        /\ owed' = owed \cup {<<"error", j>>} /\ UNCHANGED <<fetch, answer, excused>>
    BY <1>3 DEF HandleErrorReply, Replied, queryVars
  <2>2. /\ replies' \subseteq replies /\ events' \subseteq events /\ ~Replied(j, FALSE)'
        /\ \A d \in Jobs \ {j}, ok \in BOOLEAN :
               (Replied(d, ok)' <=> Replied(d, ok)) /\ (Told(d, ok)' <=> Told(d, ok))
    BY <2>1, MessageTaken, Zenon DEF Replied, Told
  <2>3. /\ pc[j] = "done" /\ ~Replied(j, TRUE) /\ Silent(j) /\ Unheard(j)
        /\ ~Replied(j, TRUE)' /\ Silent(j)'
    BY <1>1, <2>1 DEF Life, Replied, Silent, Told
  <2>4. /\ \A d \in Jobs \ {j} : Life(d)' /\ (Owes(d) => Owes(d)')
        /\ Still(owed \ excused) \subseteq Still(owed' \ excused')
    BY <1>1, <2>1, <2>2, Hearing
  <2>5. Life(j)'
    BY <1>1, <2>2, <2>3 DEF Life
  <2>6. Still(owed' \ excused') # {}
    BY <2>1, <2>3, NoteStays DEF Unheard, Noted
  <2>7. Read'
    BY <2>6 DEF Read
  <2> QED BY <2>1, <2>4, <2>5, <2>7 DEF TableInv, Shown
<1>4. CASE HandleComplete(j)
  <2>1. Told(j, TRUE) /\ events' = events \ {<<j, TRUE>>} /\ replies' = replies /\ Invalidate(j)
    BY <1>4 DEF HandleComplete, Told
  <2>2. /\ replies' \subseteq replies /\ events' \subseteq events /\ ~Told(j, TRUE)'
        /\ \A d \in Jobs \ {j}, ok \in BOOLEAN :
               (Replied(d, ok)' <=> Replied(d, ok)) /\ (Told(d, ok)' <=> Told(d, ok))
    BY <2>1, MessageTaken, Zenon DEF Replied, Told
  <2>3. /\ pc[j] = "done" /\ ~Replied(j, FALSE) /\ ~Told(j, FALSE) /\ ~Replied(j, FALSE)' /\ ~Told(j, FALSE)'
        /\ job[j].kind \in Deploys \cup {"cleanup"}
    BY <1>1, <2>1, <2>2 DEF Life, Replied, Silent, Told
  <2>4. /\ excused' = excused /\ fetch' # "none"
        /\ fetch' = "answered" => /\ fetch = "answered" /\ answer' = answer
                                  /\ <<"joined", j>> \in owed'
        /\ owed' \in {owed, owed \cup {<<"joined", j>>}}
    BY <2>1, Invalidation
  <2>5. /\ \A d \in Jobs \ {j} : Life(d)' /\ (Owes(d) => Owes(d)')
        /\ Still(owed \ excused) \subseteq Still(owed' \ excused')
    BY <1>1, <2>2, <2>4, Hearing
  <2>6. Life(j)'
    BY <1>1, <2>2, <2>3 DEF Life, Silent, Deploys
  <2>7. fetch' = "answered" /\ <<"joined", j>> \notin excused => Still(owed' \ excused') # {}
    BY <2>4, NoteStays
  <2>8. Read'
    BY <1>1, <2>4, <2>5, <2>7, ReadOn
  <2> QED BY <2>4, <2>5, <2>6, <2>8 DEF TableInv, Shown
<1>5. CASE HandleError(j)
  <2>1. /\ Told(j, FALSE) /\ events' = events \ {<<j, FALSE>>} /\ replies' = replies
        /\ owed' = owed \cup {<<"error", j>>} /\ UNCHANGED <<fetch, answer, excused>>
    BY <1>5 DEF HandleError, Told, queryVars
  <2>2. /\ replies' \subseteq replies /\ events' \subseteq events /\ ~Told(j, FALSE)'
        /\ \A d \in Jobs \ {j}, ok \in BOOLEAN :
               (Replied(d, ok)' <=> Replied(d, ok)) /\ (Told(d, ok)' <=> Told(d, ok))
    BY <2>1, MessageTaken, Zenon DEF Replied, Told
  <2>3. /\ pc[j] = "done" /\ ~Replied(j, FALSE) /\ ~Told(j, TRUE) /\ ~Replied(j, FALSE)' /\ ~Told(j, TRUE)'
        /\ job[j].kind \in Deploys \cup {"cleanup"}
    BY <1>1, <2>1, <2>2 DEF Life, Replied, Silent, Told
  <2>4. /\ \A d \in Jobs \ {j} : Life(d)' /\ (Owes(d) => Owes(d)')
        /\ Still(owed \ excused) \subseteq Still(owed' \ excused')
    BY <1>1, <2>1, <2>2, Hearing
  <2>5. Life(j)'
    BY <1>1, <2>2, <2>3 DEF Life, Silent, Deploys
  <2>6. <<"error", j>> \notin excused => Still(owed' \ excused') # {}
    BY <2>1, NoteStays
  <2>7. Read'
    BY <1>1, <2>1, <2>4, <2>6, ReadOn
  <2> QED BY <2>1, <2>4, <2>5, <2>7 DEF TableInv, Shown
<1> QED BY <1>2, <1>3, <1>4, <1>5 DEF Frontend

-----------------------------------------------------------------------------
(* The steps of the query and the user, and the theorem.                   *)

LEMMA QueryStep == TypeOK /\ TableInv /\ Query => TableInv'
<1> SUFFICES ASSUME TypeOK, TableInv, Query PROVE TableInv'
  OBVIOUS
<1>1. UNCHANGED <<cluster, pc, job, replies, events>>
  BY DEF Query, List, ListFails, ReceiveList, backVars, wireVars
<1>2. /\ owed' \subseteq owed \cup {<<"list", None>>} /\ excused' \subseteq owed \cup excused
  BY DEF Query, List, ListFails, ReceiveList, Still
<1>3. ASSUME NEW j \in Jobs PROVE Life(j)'
  <2>1. Life(j) /\ (Unheard(j) => Unheard(j)')
    BY <1>2 DEF TableInv, Unheard, Noted
  <2>2. \A ok \in BOOLEAN : /\ Replied(j, ok)' => Replied(j, ok)
                            /\ Told(j, ok)' => Told(j, ok)
    BY <1>1 DEF Replied, Told
  <2> QED BY <1>1, <2>1, <2>2, LifeGoesOn
<1>4. CASE List
  BY <1>3, <1>4 DEF List, TableInv, Read, Shown, backVars
<1>5. CASE ListFails
  BY <1>3, <1>5 DEF ListFails, TableInv, Read, Shown
<1>6. CASE ReceiveList
  <2>1. ASSUME table' # cluster', owed' = {} PROVE \E j \in Jobs : UnderWay(j)'
    <3>1. fetch = "answered" /\ answer # cluster /\ Still(owed \ excused) = {}
      BY <1>1, <1>6, <2>1 DEF ReceiveList
    <3>2. PICK j \in Jobs : Owes(j)
      BY <3>1 DEF TableInv, Read
    <3>3. Replied(j, TRUE)' = Replied(j, TRUE) /\ Replied(j, FALSE)' = Replied(j, FALSE) /\ Silent(j)' = Silent(j)
      BY <1>1 DEF Replied, Silent, Told
    <3>4. UnderWay(j)'
      BY <1>1, <3>2, <3>3 DEF Owes, UnderWay
    <3> QED BY <3>4
  <2> QED BY <1>3, <1>6, <2>1 DEF ReceiveList, TableInv, Read, Shown
<1> QED BY <1>4, <1>5, <1>6 DEF Query

LEMMA SubmitStep ==
    ASSUME TypeOK, TableInv, NEW j \in Jobs, NEW kind \in Kinds, NEW r \in Releases, Submit(j, kind, r)
    PROVE  TableInv'
<1>1. /\ UNCHANGED <<cluster, replies, events, table, fetch, answer, owed, excused>>
      /\ pc[j] = "idle" /\ pc'[j] = "sent" /\ Life(j)
      /\ \A d \in Jobs \ {j} : pc'[d] = pc[d] /\ job'[d] = job[d]
  BY DEF Submit, wireVars, queryVars, histVars, TypeOK, TableInv
<1>2. Life(j)' /\ ~Owes(j)
  BY <1>1 DEF Life, Owes, Replied, Silent, Told, Unheard, Noted
<1>3. ASSUME NEW d \in Jobs \ {j} PROVE Life(d)' /\ (Owes(d) => Owes(d)')
  BY <1>1, <1>3 DEF TableInv, Life, Owes, Replied, Silent, Told, Unheard, Noted
<1>4. Read'
  BY <1>1, <1>2, <1>3 DEF TableInv, Read
<1>5. Shown'
  BY <1>1 DEF Shown, UnderWay
<1> QED BY <1>2, <1>3, <1>4, <1>5 DEF TableInv

LEMMA TableInvariant == Spec => [](TypeOK /\ TableInv)
<1>1. TypeOK /\ TableInv /\ [Next]_vars => TableInv'
  <2> SUFFICES ASSUME TypeOK, TableInv, UNCHANGED vars PROVE TableInv'
    BY BackendStep, FrontendStep, QueryStep, SubmitStep DEF Next
  <2> QED BY DEF vars, backVars, wireVars, queryVars, histVars, TableInv, Life, Read, Shown, Owes,
                 UnderWay, Replied, Silent, Told, Unheard, Noted
<1> QED BY TableTypedThm, TableInvInitial, <1>1, PTL DEF Spec

(* Once nothing is under way the releases page shows what the cluster has, *)
(* for any releases and any overlapping operations on them, unless one of  *)
(* the listed exceptions has happened since the last list (the hooks of    *)
(* useHelmReleases and the event handlers that invalidate the list).       *)
THEOREM SettledTableIsTrueThm == Spec => []SettledTableIsTrue
<1>1. TypeOK /\ TableInv => SettledTableIsTrue
  BY DEF TableInv, Shown, UnderWay, Silent, Told, Replied, SettledTableIsTrue, Quiet
<1> QED BY TableInvariant, <1>1, PTL

=============================================================================
