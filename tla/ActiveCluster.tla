---------------------------- MODULE ActiveCluster ----------------------------
(***************************************************************************)
(* What the Helm backend's cluster provider promises its readers, without  *)
(* streams, deadlines or acks: the four fields behind GetActiveContext and *)
(* GetActiveNamespaces, and how they may change. A cluster chosen by the   *)
(* host is never replaced by another directly: the clear-first switch goes *)
(* through "no active context". Only the kubeconfig's guess is corrected   *)
(* in place. ClusterProvider implements this module; HelmService runs the  *)
(* business calls against it.                                              *)
(***************************************************************************)
CONSTANTS
    Labels,       \* kubeconfig context names
    Paths,        \* kubeconfig file paths
    Namespaces,   \* namespace names
    NoLabel,      \* activeContext == ""
    NoPath,       \* kubeconfigPath == ""
    Nil           \* nil clientset and rest.Config

Clusters == [ctx : Labels, path : Paths]

ASSUME NullsAssumption ==
    NoLabel \notin Labels /\ NoPath \notin Paths /\ Nil \notin Clusters

VARIABLES
    client,      \* cs and rc: the cluster they are bound to, or Nil
    label,       \* activeContext
    path,        \* kubeconfigPath
    namespaces,  \* activeNamespaces ({} is cluster-wide)
    confirmed,   \* the host has chosen a cluster at least once
    open         \* the HTTP server accepts business calls

activeVars == <<client, label, path, namespaces, confirmed, open>>

ActiveTypeOK ==
    /\ client \in Clusters \cup {Nil}
    /\ label \in Labels \cup {NoLabel}
    /\ path \in Paths \cup {NoPath}
    /\ namespaces \in SUBSET Namespaces
    /\ confirmed \in BOOLEAN
    /\ open \in BOOLEAN

ActiveInit ==
    /\ client = Nil /\ label = NoLabel /\ path = NoPath /\ namespaces = {}
    /\ confirmed = FALSE /\ open = FALSE

Install(t) == client' = t /\ label' = t.ctx /\ path' = t.path

(* The kubeconfig's current context, before anything else happens. Without *)
(* a host the server opens at once.                                        *)
Seed(t) ==
    /\ client = Nil /\ ~open
    /\ Install(t)
    /\ open' \in BOOLEAN
    /\ UNCHANGED <<namespaces, confirmed>>

Open ==
    /\ ~open /\ open' = TRUE
    /\ UNCHANGED <<client, label, path, namespaces, confirmed>>

(* Faulty variant: the label is assigned although the config did not load.  *)
Follow_LabelFirst(t) ==
    /\ confirmed => label = NoLabel \/ client = t
    /\ label' = t.ctx /\ path' = t.path
    /\ confirmed' = TRUE
    /\ UNCHANGED <<client, namespaces, open>>

Follow(t) ==
    /\ confirmed => label = NoLabel \/ client = t
    /\ Install(t)
    /\ confirmed' = TRUE
    /\ UNCHANGED <<namespaces, open>>

Withdraw ==
    /\ label' = NoLabel
    /\ UNCHANGED <<client, path, namespaces, confirmed, open>>

Select(f) ==
    /\ namespaces' = f
    /\ UNCHANGED <<client, label, path, confirmed, open>>

ActiveNext ==
    \/ Open \/ Withdraw
    \/ \E t \in Clusters : Seed(t) \/ Follow(t)
    \/ \E f \in SUBSET Namespaces : Select(f)

ActiveSpec == ActiveInit /\ [][ActiveNext]_activeVars
=============================================================================
