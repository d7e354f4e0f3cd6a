--------------------------- MODULE MCCleanupSweep ---------------------------
(* Instances of CleanupSweep for TLC: a cluster-scoped resource of an        *)
(* operator that owns a service, the service owns a job. Somebody else has   *)
(* a job of the same name in another namespace, and a resource of the same   *)
(* name and kind but of another api group, and a config map of their own; the *)
(* one of the other group may own the service of the release.                *)
EXTENDS CleanupSweep, TLC

CONSTANTS cr, svc, knsvc, job, cm, pvc, pod, r, s, m, m2

MCApis == {cr, svc, knsvc, job, cm, pvc, pod}
MCKindOf == [api \in MCApis |->
    CASE api = cr -> "Operated" [] api \in {svc, knsvc} -> "Service" [] api = job -> "Job"
      [] api = cm -> "ConfigMap" [] api = pvc -> "PersistentVolumeClaim" [] api = pod -> "Pod"]
MCClusterScoped == {cr}
MCSpaces == {r, s}
MCNames == {m, m2}

E(api) == [api |-> api, ns |-> r, name |-> m]
O(api) == [api |-> api, ns |-> IF api = cr THEN NoSpace ELSE r, name |-> m]

MCManifests == {<<>>, <<E(cr), E(svc), E(job)>>, <<E(job), E(svc), E(cr)>>,
                <<E(svc), E(job), E(svc)>>, <<E(job), E(cr)>>}
MCOwnerRels == {{}, {<<O(svc), O(cr)>>}, {<<O(svc), O(cr)>>, <<O(job), O(svc)>>},
                {<<O(svc), O(knsvc)>>}}

Full == [k \in {"Operated", "Service", "Job"} |->
            CASE k = "Operated" -> cr [] k = "Service" -> svc [] k = "Job" -> job]
(* Fetched before the operator's kind existed; the other group's service won. *)
Stale == [k \in {"Service", "Job"} |-> Full[k]]
Clash == [Full EXCEPT !["Service"] = knsvc]
MCKindMaps == {Full, Stale, Clash, <<>>}
FullKindMaps == {Full}

MCLabelled == [c \in {"ConfigMap", "PersistentVolumeClaim", "Pod"} |->
    CASE c = "ConfigMap" -> {O(cm)}
      [] c = "PersistentVolumeClaim" -> {O(pvc)}
      [] c = "Pod" -> {O(pod), [O(pod) EXCEPT !.name = m2]}]
MCRunning == {[O(pod) EXCEPT !.name = m2]}
MCBystanders == {O(knsvc), [O(job) EXCEPT !.ns = s], [O(cm) EXCEPT !.name = m2]}
=============================================================================
