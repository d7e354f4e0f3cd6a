--------------------------- MODULE ClusterProvider ---------------------------
(***************************************************************************)
(* The Helm backend's view of the active cluster: the ClusterProvider of   *)
(* adapters/infrastructures/kube, the two event-stream goroutines that     *)
(* write it (adapters/presentations/async), the start-up sequence of       *)
(* main.go that decides when business calls may begin, and, as the         *)
(* environment, the host's clear-first switch protocol.                    *)
(*                                                                         *)
(* The environment is external: the host publishes on the two topics, each *)
(* delivered in order by its own stream, replays the last message of a     *)
(* topic to a new subscriber, and waits a bounded time for acks.           *)
(***************************************************************************)
EXTENDS Naturals, Sequences, FiniteSets

CONSTANTS
    Labels,       \* kubeconfig context names
    Paths,        \* kubeconfig file paths
    Targets,      \* the clusters the host may select: [ctx, path] records
    Namespaces,   \* namespace names
    Filters,      \* the namespace selections the host may publish
    MaxSwitches,  \* bound: cluster switches the host starts
    NoLabel,      \* activeContext == ""
    NoPath,       \* kubeconfigPath == ""
    Nil           \* nil clientset and rest.Config; also "no message"

Topics == {"ctx", "ns"}
Epochs == 0 .. MaxSwitches

ASSUME TargetsAssumption == Targets \subseteq [ctx : Labels, path : Paths]
ASSUME FiltersAssumption == Filters \subseteq SUBSET Namespaces
ASSUME SwitchAssumption  == MaxSwitches \in Nat

Clusters == [ctx : Labels, path : Paths]

(* A message is told apart by its kind and by the switch (epoch) it belongs *)
(* to; epoch 0 is the host's state before the plugin was launched, pushed   *)
(* without a RequestID.                                                     *)
CtxMsgs  == [kind : {"clear"}, epoch : Epochs, value : {Nil}]
              \cup [kind : {"sync"}, epoch : Epochs, value : Targets]
NsMsgs   == [kind : {"clear"}, epoch : Epochs, value : {Nil}]
              \cup [kind : {"sync"}, epoch : Epochs, value : Filters]
Msgs(top) == IF top = "ctx" THEN CtxMsgs ELSE NsMsgs

ASSUME NullsAssumption ==
    /\ NoLabel \notin Labels
    /\ NoPath \notin Paths
    /\ Nil \notin Clusters \cup CtxMsgs \cup NsMsgs

Clear(e)   == [kind |-> "clear", epoch |-> e, value |-> Nil]
Sync(e, v) == [kind |-> "sync", epoch |-> e, value |-> v]

VARIABLES
    client,      \* cs and rc: the cluster they are bound to, or Nil
    label,       \* activeContext
    path,        \* kubeconfigPath
    namespaces,  \* activeNamespaces ({} is cluster-wide)
    synced,      \* synced[top]: contextSynced / namespacesSynced is closed
    boot,        \* how far main has come
    kube,        \* the -kubeconfig flag
    timedOut,    \* WaitForInitialSync gave up
    subscribed,  \* subscribed[top]: route.Run has its stream
    stream,      \* stream[top]: messages not yet received
    job,         \* job[top]: what the topic's goroutine is doing
    hostUp,      \* hostClient # nil
    hostPhase,   \* where the host is in a switch
    epoch,       \* number of the host's current switch
    last,        \* last[top]: the last message published on the topic
    acks,        \* the request ids acked so far
    late,        \* history: the host once went on without its acks
    origin,      \* history: who chose the cluster client is bound to
    attempt      \* history: attempt[top], the last sync applied or tried

providerVars == <<client, label, path, namespaces, synced, origin, attempt>>
bootVars     == <<boot, kube, timedOut, hostUp>>
streamVars   == <<subscribed, stream, job>>
hostVars     == <<hostPhase, epoch, last, acks, late>>
vars         == <<providerVars, bootVars, streamVars, hostVars>>

Idle == [pc |-> "idle", msg |-> Nil]

TypeOK ==
    /\ client \in Clusters \cup {Nil}
    /\ label \in Labels \cup {NoLabel}
    /\ path \in Paths \cup {NoPath}
    /\ namespaces \in SUBSET Namespaces
    /\ synced \in [Topics -> BOOLEAN]
    /\ boot \in {"start", "waitCtx", "waitNs", "serving", "exited"}
    /\ kube \in Paths \cup {NoPath}
    /\ timedOut \in BOOLEAN
    /\ subscribed \in [Topics -> BOOLEAN]
    /\ \A top \in Topics :
          /\ stream[top] \in Seq(Msgs(top))
          /\ last[top] \in Msgs(top) \cup {Nil}
          /\ \/ job[top] = Idle
             \/ /\ job[top].pc \in {"apply", "mark", "ack"}
                /\ job[top].msg \in Msgs(top)
                /\ job[top] = [pc |-> job[top].pc, msg |-> job[top].msg]
    /\ DOMAIN stream = Topics /\ DOMAIN last = Topics /\ DOMAIN job = Topics
    /\ hostUp \in BOOLEAN
    /\ hostPhase \in {"idle", "clearing", "resolving", "syncing"}
    /\ epoch \in Epochs
    /\ acks \in SUBSET (Topics \X {"clear", "sync"} \X Epochs)
    /\ late \in BOOLEAN
    /\ origin \in {"none", "guess", "host"}
    /\ attempt \in [Topics -> [epoch : Epochs, ok : BOOLEAN]]

-----------------------------------------------------------------------------
(* The host, before the plugin is launched, is connected to a cluster or   *)
(* not yet. A -kubeconfig flag may or may not be given.                    *)
Init ==
    /\ client = Nil /\ label = NoLabel /\ path = NoPath /\ namespaces = {}
    /\ synced = [top \in Topics |-> FALSE]
    /\ boot = "start" /\ timedOut = FALSE
    /\ kube \in Paths \cup {NoPath}
    /\ hostUp \in BOOLEAN
    /\ subscribed = [top \in Topics |-> FALSE]
    /\ stream = [top \in Topics |-> <<>>]
    /\ job = [top \in Topics |-> Idle]
    /\ hostPhase = "idle" /\ epoch = 0 /\ acks = {} /\ late = FALSE
    /\ \/ last = [top \in Topics |-> Nil]
       \/ \E t \in Targets, f \in Filters :
             last = [top \in Topics |-> Sync(0, IF top = "ctx" THEN t ELSE f)]
    /\ origin = "none"
    /\ attempt = [top \in Topics |-> [epoch |-> 0, ok |-> TRUE]]

-----------------------------------------------------------------------------
(* Start-up: main.go. BuildClusterProvider seeds the kubeconfig's current  *)
(* context, a guess; a kubeconfig that does not load ends the process.     *)
BuildUnseeded ==
    /\ boot = "start" /\ kube = NoPath
    /\ boot' = "serving"
    /\ UNCHANGED <<kube, timedOut, hostUp, providerVars, streamVars, hostVars>>

(* Faulty variant: the seeded guess itself counts as the initial sync.     *)
BuildSeeded_GuessCounts ==
    /\ boot = "start" /\ kube # NoPath
    /\ \E guess \in Labels :
          /\ client' = [ctx |-> guess, path |-> kube]
          /\ label' = guess
    /\ path' = kube /\ origin' = "guess"
    /\ synced' = [synced EXCEPT !["ctx"] = TRUE]
    /\ boot' = IF hostUp THEN "waitCtx" ELSE "serving"
    /\ UNCHANGED <<namespaces, attempt, kube, timedOut, hostUp,
                   streamVars, hostVars>>

BuildSeeded ==
    /\ boot = "start" /\ kube # NoPath
    /\ \E guess \in Labels :
          /\ client' = [ctx |-> guess, path |-> kube]
          /\ label' = guess
    /\ path' = kube /\ origin' = "guess"
    /\ boot' = IF hostUp THEN "waitCtx" ELSE "serving"
    /\ UNCHANGED <<namespaces, synced, attempt, kube, timedOut, hostUp,
                   streamVars, hostVars>>

BuildFails ==
    /\ boot = "start" /\ kube # NoPath
    /\ boot' = "exited"
    /\ UNCHANGED <<kube, timedOut, hostUp, providerVars, streamVars, hostVars>>

(* WaitForInitialSync: the two channels in turn, under one deadline.       *)
WaitStep(from, top, to) ==
    /\ boot = from /\ synced[top]
    /\ boot' = to
    /\ UNCHANGED <<kube, timedOut, hostUp, providerVars, streamVars, hostVars>>

WaitForContext    == WaitStep("waitCtx", "ctx", "waitNs")
WaitForNamespaces == WaitStep("waitNs", "ns", "serving")

(* Faulty variant: the first select has no deadline branch.                *)
WaitTimesOut_SecondOnly ==
    /\ boot = "waitNs"
    /\ boot' = "serving" /\ timedOut' = TRUE
    /\ UNCHANGED <<kube, hostUp, providerVars, streamVars, hostVars>>

WaitTimesOut ==
    /\ boot \in {"waitCtx", "waitNs"}
    /\ boot' = "serving" /\ timedOut' = TRUE
    /\ UNCHANGED <<kube, hostUp, providerVars, streamVars, hostVars>>

-----------------------------------------------------------------------------
(* The stream goroutines, one per topic.                                   *)
Running == hostUp /\ boot \notin {"start", "exited"}

Subscribe(top) ==
    /\ Running /\ ~subscribed[top]
    /\ subscribed' = [subscribed EXCEPT ![top] = TRUE]
    /\ stream' = [stream EXCEPT ![top] =
                    IF last[top] = Nil THEN <<>> ELSE <<last[top]>>]
    /\ UNCHANGED <<job, providerVars, bootVars, hostVars>>

(* Faulty variant: the message is acked on receipt, before it is applied.  *)
Receive_AcksFirst(top) ==
    /\ Running /\ job[top] = Idle /\ stream[top] # <<>>
    /\ job' = [job EXCEPT ![top] = [pc |-> "apply", msg |-> Head(stream[top])]]
    /\ stream' = [stream EXCEPT ![top] = Tail(@)]
    /\ acks' = acks \cup {<<top, Head(stream[top]).kind, Head(stream[top]).epoch>>}
    /\ UNCHANGED <<subscribed, hostPhase, epoch, last, late, providerVars, bootVars>>

Receive(top) ==
    /\ Running /\ job[top] = Idle /\ stream[top] # <<>>
    /\ job' = [job EXCEPT ![top] = [pc |-> "apply", msg |-> Head(stream[top])]]
    /\ stream' = [stream EXCEPT ![top] = Tail(@)]
    /\ UNCHANGED <<subscribed, providerVars, bootVars, hostVars>>

Applying(top, kind) == job[top].pc = "apply" /\ job[top].msg.kind = kind
Goto(top, pc) == job' = [job EXCEPT ![top].pc = pc]
Attempted(top, ok) ==
    attempt' = [attempt EXCEPT ![top] = [epoch |-> job[top].msg.epoch, ok |-> ok]]

(* Faulty variant: the label is left alone.                                *)
ClearActiveContext_Ignored ==
    /\ Applying("ctx", "clear")
    /\ Goto("ctx", "ack")
    /\ UNCHANGED <<providerVars, subscribed, stream, bootVars, hostVars>>

ClearActiveContext ==
    /\ Applying("ctx", "clear")
    /\ label' = NoLabel
    /\ Goto("ctx", "ack")
    /\ UNCHANGED <<client, path, namespaces, synced, origin, attempt,
                   subscribed, stream, bootVars, hostVars>>

(* Faulty variant: only the context name is compared.                      *)
Unchanged_NameOnly(t) == t.ctx = label

Unchanged(t) == t.ctx = label /\ t.path = path

(* SetActiveContext, called by syncContextFromHost. Its check under the    *)
(* read lock and its swap under the write lock are one step: no other      *)
(* goroutine writes these fields once the streams run.                     *)
SetActiveContextUnchanged ==
    /\ Applying("ctx", "sync")
    /\ Unchanged(job["ctx"].msg.value)
    /\ origin' = "host"
    /\ Attempted("ctx", TRUE)
    /\ Goto("ctx", "mark")
    /\ UNCHANGED <<client, label, path, namespaces, synced,
                   subscribed, stream, bootVars, hostVars>>

(* Faulty variant: the two strings change places in the last assignment.   *)
SetActiveContext_Swapped ==
    /\ Applying("ctx", "sync")
    /\ LET t == job["ctx"].msg.value IN
          /\ ~Unchanged(t)
          /\ client' = t /\ label' = t.path /\ path' = t.ctx
    /\ origin' = "host"
    /\ Attempted("ctx", TRUE)
    /\ Goto("ctx", "mark")
    /\ UNCHANGED <<namespaces, synced, subscribed, stream, bootVars, hostVars>>

SetActiveContext ==
    /\ Applying("ctx", "sync")
    /\ LET t == job["ctx"].msg.value IN
          /\ ~Unchanged(t)
          /\ client' = t /\ label' = t.ctx /\ path' = t.path
    /\ origin' = "host"
    /\ Attempted("ctx", TRUE)
    /\ Goto("ctx", "mark")
    /\ UNCHANGED <<namespaces, synced, subscribed, stream, bootVars, hostVars>>

SetActiveContextFails ==
    /\ Applying("ctx", "sync")
    /\ ~Unchanged(job["ctx"].msg.value)
    /\ Attempted("ctx", FALSE)
    /\ Goto("ctx", "mark")
    /\ UNCHANGED <<client, label, path, namespaces, synced, origin,
                   subscribed, stream, bootVars, hostVars>>

ClearActiveNamespaces ==
    /\ Applying("ns", "clear")
    /\ namespaces' = {}
    /\ Goto("ns", "ack")
    /\ UNCHANGED <<client, label, path, synced, origin, attempt,
                   subscribed, stream, bootVars, hostVars>>

SetActiveNamespaces ==
    /\ Applying("ns", "sync")
    /\ namespaces' = job["ns"].msg.value
    /\ Attempted("ns", TRUE)
    /\ Goto("ns", "mark")
    /\ UNCHANGED <<client, label, path, synced, origin,
                   subscribed, stream, bootVars, hostVars>>

(* Faulty variant: a send that only the first wait receives, instead of the *)
(* Once-guarded close.                                                     *)
MarkSynced_Sends(top) ==
    /\ job[top].pc = "mark" /\ ~synced[top]
    /\ synced' = [synced EXCEPT ![top] = TRUE]
    /\ Goto(top, "ack")
    /\ UNCHANGED <<client, label, path, namespaces, origin, attempt,
                   subscribed, stream, bootVars, hostVars>>

(* The Once-guarded close, reached whether or not the apply succeeded.     *)
MarkSynced(top) ==
    /\ job[top].pc = "mark"
    /\ synced' = [synced EXCEPT ![top] = TRUE]
    /\ Goto(top, "ack")
    /\ UNCHANGED <<client, label, path, namespaces, origin, attempt,
                   subscribed, stream, bootVars, hostVars>>

MaybeAck(top) ==
    /\ job[top].pc = "ack"
    /\ LET m == job[top].msg IN
          acks' = IF m.epoch = 0 THEN acks
                                 ELSE acks \cup {<<top, m.kind, m.epoch>>}
    /\ job' = [job EXCEPT ![top] = Idle]
    /\ UNCHANGED <<hostPhase, epoch, last, late, subscribed, stream,
                   providerVars, bootVars>>

HandleContext ==
    \/ ClearActiveContext
    \/ SetActiveContextUnchanged
    \/ SetActiveContext
    \/ SetActiveContextFails

HandleNamespaces == ClearActiveNamespaces \/ SetActiveNamespaces

-----------------------------------------------------------------------------
(* The host. Publishing reaches the subscribers of the topic; a topic      *)
(* nobody has subscribed to only remembers its last message.               *)
Publish(msg) ==
    /\ last' = [top \in Topics |-> msg[top]]
    /\ stream' = [top \in Topics |->
                    IF subscribed[top] THEN Append(stream[top], msg[top])
                                       ELSE stream[top]]

HostClear ==
    /\ hostUp /\ hostPhase = "idle" /\ epoch < MaxSwitches
    /\ epoch' = epoch + 1
    /\ hostPhase' = "clearing"
    /\ Publish([top \in Topics |-> Clear(epoch + 1)])
    /\ UNCHANGED <<acks, late, subscribed, job, providerVars, bootVars>>

HostSync(t, f) ==
    /\ hostPhase = "resolving"
    /\ hostPhase' = "syncing"
    /\ Publish([top \in Topics |-> Sync(epoch, IF top = "ctx" THEN t ELSE f)])
    /\ UNCHANGED <<epoch, acks, late, subscribed, job, providerVars, bootVars>>

Acked(kind) == \A top \in Topics : <<top, kind, epoch>> \in acks

HostProceeds(from, kind, to) ==
    /\ hostPhase = from
    /\ hostPhase' = to
    /\ late' = (late \/ ~Acked(kind))
    /\ UNCHANGED <<epoch, last, acks, streamVars, providerVars, bootVars>>

(* PublishAndAwaitAck returns once acked, or at its timeout.               *)
HostAcked    == \/ Acked("clear") /\ HostProceeds("clearing", "clear", "resolving")
                \/ Acked("sync")  /\ HostProceeds("syncing", "sync", "idle")
HostTimesOut == \/ ~Acked("clear") /\ HostProceeds("clearing", "clear", "resolving")
                \/ ~Acked("sync")  /\ HostProceeds("syncing", "sync", "idle")

-----------------------------------------------------------------------------
Boot   == BuildUnseeded \/ BuildSeeded \/ BuildFails
            \/ WaitForContext \/ WaitForNamespaces \/ WaitTimesOut
Handle == \/ HandleContext
          \/ HandleNamespaces
          \/ \E top \in Topics :
                Subscribe(top) \/ Receive(top) \/ MarkSynced(top) \/ MaybeAck(top)
Host   == \/ HostClear
          \/ \E t \in Targets, f \in Filters : HostSync(t, f)
          \/ HostAcked
          \/ HostTimesOut

Next == Boot \/ Handle \/ Host

Spec == Init /\ [][Next]_vars

(* The goroutines are scheduled and WaitForInitialSync has a deadline; the *)
(* host finishes a switch it has begun but need not begin one.             *)
Fairness ==
    /\ WF_vars(Boot)
    /\ WF_vars(HandleContext) /\ WF_vars(HandleNamespaces)
    /\ \A top \in Topics :
          /\ WF_vars(Subscribe(top)) /\ WF_vars(Receive(top))
          /\ WF_vars(MarkSynced(top)) /\ WF_vars(MaybeAck(top))
    /\ WF_vars(\E t \in Targets, f \in Filters : HostSync(t, f))
    /\ WF_vars(HostAcked \/ HostTimesOut)

FairSpec == Spec /\ Fairness
-----------------------------------------------------------------------------
(* A label, when there is one, names the cluster the client is bound to:   *)
(* SetActiveContext changes label, path and client together or not at all, *)
(* and a failed load leaves the three as they were.                        *)
ActiveIsLoaded ==
    label # NoLabel => client = [ctx |-> label, path |-> path]

(* The kubeconfig's guess reaches business calls only when the host was    *)
(* too slow (WaitForInitialSync timed out) or its last cluster did not     *)
(* load. A clear, or the guess itself, never opens the server. The load    *)
(* that fails is an exception dispatcher.go:48-52 does not know of.        *)
GuessServedOnlyOnFault ==
    boot = "serving" /\ hostUp /\ origin = "guess"
        => timedOut \/ ~attempt["ctx"].ok

(* Once the plugin has acked both clears of a switch, and until the host   *)
(* publishes the new cluster, no reader sees an active context and the     *)
(* namespace filter is cluster-wide: an ack follows the apply.             *)
ClearWindow ==
    hostPhase \in {"clearing", "resolving"} /\ Acked("clear")
        => label = NoLabel /\ namespaces = {}

(* Context and namespaces arrive on two streams that are not ordered with  *)
(* each other. If the host always got its acks in time, a namespace filter *)
(* in force was published with the cluster in force.                       *)
FilterOfSameCluster ==
    ~late /\ label # NoLabel /\ namespaces # {} /\ origin = "host"
        => attempt["ctx"].epoch = attempt["ns"].epoch

(* What a reader of the provider is served is one cluster as the host      *)
(* published it, on every interleaving of start-up and the two streams.    *)
ServedAsPublished == ActiveIsLoaded /\ GuessServedOnlyOnFault /\ FilterOfSameCluster

Quiet ==
    /\ hostPhase = "idle"
    /\ \A top \in Topics :
          /\ stream[top] = <<>> /\ job[top] = Idle
          /\ last[top] # Nil => subscribed[top]

(* Whatever timeouts and failed loads a sequence of switches met, once the *)
(* streams are drained the provider follows the host's last word: its      *)
(* namespaces, and its cluster, or no cluster if that one did not load (or *)
(* still the guess, if no cluster of the host ever loaded).                *)
QuietAgreesWithHost ==
    Quiet /\ last["ctx"] # Nil =>
        /\ namespaces = last["ns"].value
        /\ IF attempt["ctx"].ok
             THEN client = last["ctx"].value /\ label = client.ctx
             ELSE label = NoLabel \/ origin = "guess"

(* The provider implements the abstract active cluster: label, path and    *)
(* client change together, and a cluster chosen by the host is replaced    *)
(* only after it was withdrawn, on every interleaving of the two streams.  *)
Active == INSTANCE ActiveCluster WITH confirmed <- origin = "host",
                                      open      <- boot = "serving"

ImplementsActiveCluster == Active!ActiveSpec

(* Liveness: start-up ends, with a host that never answers too.            *)
BootFinishes == <>(boot \in {"serving", "exited"})

(* Liveness: once the host stops switching, every message is applied and   *)
(* the goroutines are idle, even if loads fail.                            *)
StreamsDrain == hostUp => <>[](boot = "exited" \/ Quiet)
=============================================================================
