------------------------ MODULE ClusterProviderProofs ------------------------
(***************************************************************************)
(* Theorems about ClusterProvider for every set of contexts, kubeconfigs   *)
(* and namespaces and any number of switches: its types and what the two   *)
(* streams carry (every message on its way is older than the topic's last  *)
(* one, the last one is never overtaken or lost, and the host holds an ack *)
(* of its current message only when the topic has nothing left to do),     *)
(* what business calls are served, the clear window, agreement with the    *)
(* host once the streams are drained, and that the provider implements     *)
(* ActiveCluster.                                                          *)
(***************************************************************************)
EXTENDS ClusterProvider, TLAPS, SequenceTheorems

\* What a topic's goroutine may be doing: nothing, or a message of its topic.
JobSet(top) == {Idle} \cup [pc : {"apply", "mark", "ack"}, msg : Msgs(top)]

\* TypeOK, one topic at a time and apart from the rest of the state.
TypesOf(top) ==
    /\ stream[top] \in Seq(Msgs(top))
    /\ last[top] \in Msgs(top) \cup {Nil}
    /\ job[top] \in JobSet(top)

ScalarsOK ==
    /\ client \in Clusters \cup {Nil}
    /\ label \in Labels \cup {NoLabel}
    /\ path \in Paths \cup {NoPath}
    /\ namespaces \in SUBSET Namespaces
    /\ synced \in [Topics -> BOOLEAN]
    /\ boot \in {"start", "waitCtx", "waitNs", "serving", "exited"}
    /\ kube \in Paths \cup {NoPath}
    /\ timedOut \in BOOLEAN
    /\ subscribed \in [Topics -> BOOLEAN]
    /\ DOMAIN stream = Topics /\ DOMAIN last = Topics /\ DOMAIN job = Topics
    /\ hostUp \in BOOLEAN
    /\ hostPhase \in {"idle", "clearing", "resolving", "syncing"}
    /\ epoch \in Epochs
    /\ acks \in SUBSET (Topics \X {"clear", "sync"} \X Epochs)
    /\ late \in BOOLEAN
    /\ origin \in {"none", "guess", "host"}
    /\ attempt \in [Topics -> [epoch : Epochs, ok : BOOLEAN]]

Typed == ScalarsOK /\ \A top \in Topics : TypesOf(top)

\* The invariant in two parts, the topics apart from the rest.
LEMMA TypeParts == Typed => TypeOK
<1>1. ASSUME NEW top \in Topics
      PROVE  job[top] \in JobSet(top) <=>
               \/ job[top] = Idle
               \/ /\ job[top].pc \in {"apply", "mark", "ack"}
                  /\ job[top].msg \in Msgs(top)
                  /\ job[top] = [pc |-> job[top].pc, msg |-> job[top].msg]
  BY DEF JobSet
<1> QED
  BY <1>1 DEF Typed, TypeOK, ScalarsOK, TypesOf

\* What a message is, whatever its topic.
LEMMA MsgFacts ==
    ASSUME NEW top \in Topics
    PROVE  /\ \A m \in Msgs(top) : m.epoch \in Epochs /\ m.kind \in {"clear", "sync"}
           /\ \A e \in Epochs : Clear(e) \in Msgs(top)
           /\ \A e \in Epochs, t \in Targets, f \in Filters :
                Sync(e, IF top = "ctx" THEN t ELSE f) \in Msgs(top)
           /\ \A m \in Msgs(top) : m.kind = "sync" =>
                m.value \in IF top = "ctx" THEN Targets ELSE Filters
BY DEF Topics, Msgs, CtxMsgs, NsMsgs, Clear, Sync

\* Sequences of messages stay sequences of messages.
LEMMA SeqFacts ==
    ASSUME NEW S, NEW s \in Seq(S)
    PROVE  /\ s # <<>> => Head(s) \in S /\ Tail(s) \in Seq(S)
           /\ \A m \in S : Append(s, m) \in Seq(S) /\ <<m>> \in Seq(S)
           /\ <<>> \in Seq(S)
OBVIOUS

\* The initial state is typed.
LEMMA TypesInit == Init => Typed
<1> SUFFICES ASSUME Init PROVE Typed
  OBVIOUS
<1>0. 0 \in Epochs
  BY SwitchAssumption DEF Epochs
<1>1. attempt \in [Topics -> [epoch : Epochs, ok : BOOLEAN]]
  BY <1>0 DEF Init
<1>2. DOMAIN last = Topics
  BY DEF Init
<1>3. ScalarsOK
  BY <1>0, <1>1, <1>2 DEF Init, ScalarsOK
<1>4. ASSUME NEW top \in Topics PROVE TypesOf(top)
  <2>1. stream[top] \in Seq(Msgs(top)) /\ job[top] \in JobSet(top)
    BY SeqFacts DEF Init, JobSet
  <2>2. last[top] \in Msgs(top) \cup {Nil}
    BY <1>0, MsgFacts DEF Init
  <2> QED
    BY <2>1, <2>2 DEF TypesOf
<1> QED
  BY <1>3, <1>4 DEF Typed

\* The steps of main, which leave the topics alone.
LEMMA TypesBoot ==
    ASSUME Typed, Boot
    PROVE  Typed'
<1>1. UNCHANGED <<subscribed, stream, job, hostPhase, epoch, last, acks, late>>
  BY DEF Boot, BuildUnseeded, BuildSeeded, BuildFails, WaitForContext, WaitForNamespaces,
         WaitStep, WaitTimesOut, streamVars, hostVars
<1>2. \A top \in Topics : TypesOf(top)'
  BY <1>1 DEF Typed, TypesOf, JobSet
<1>3. CASE BuildSeeded
  <2>1. client' \in Clusters /\ label' \in Labels /\ path' \in Paths
    BY <1>3 DEF BuildSeeded, Typed, ScalarsOK, Clusters
  <2>2. boot' \in {"waitCtx", "serving"} /\ origin' = "guess"
        /\ UNCHANGED <<namespaces, synced, attempt, kube, timedOut, hostUp>>
    BY <1>3 DEF BuildSeeded
  <2>3. ScalarsOK
    BY DEF Typed
  <2>4. (client \in Clusters \cup {Nil} /\ label \in Labels \cup {NoLabel} /\ path \in Paths \cup {NoPath})'
    BY <2>1 DEF Clusters
  <2>5. ScalarsOK'
    BY <1>1, <2>2, <2>3, <2>4 DEF ScalarsOK
  <2> QED
    BY <1>2, <2>5 DEF Typed
<1>4. CASE BuildUnseeded \/ BuildFails \/ WaitForContext \/ WaitForNamespaces \/ WaitTimesOut
  <2>1. boot' \in {"waitNs", "serving", "exited"} /\ (timedOut' = timedOut \/ timedOut' = TRUE)
        /\ UNCHANGED <<kube, hostUp, client, label, path, namespaces, synced, origin, attempt>>
    BY <1>4 DEF BuildUnseeded, BuildFails, WaitForContext, WaitForNamespaces, WaitStep,
                WaitTimesOut, providerVars
  <2>2. ScalarsOK'
    <3>1. ScalarsOK
      BY DEF Typed
    <3>2. timedOut' \in BOOLEAN
      BY <2>1, <3>1 DEF ScalarsOK
    <3> QED
      BY <1>1, <2>1, <3>1, <3>2 DEF ScalarsOK
  <2> QED
    BY <1>2, <2>2 DEF Typed
<1> QED
  BY <1>3, <1>4 DEF Boot

\* A step of a topic's goroutine leaves the other topic's as it was.
LEMMA TopicTypes ==
    ASSUME Typed, NEW top \in Topics, ScalarsOK', UNCHANGED last,
           UNCHANGED stream \/ \E s \in Seq(Msgs(top)) : stream' = [stream EXCEPT ![top] = s],
           UNCHANGED job \/ \E j \in JobSet(top) : job' = [job EXCEPT ![top] = j]
    PROVE  Typed'
<1>1. ASSUME NEW t \in Topics PROVE TypesOf(t)'
  <2>1. CASE t = top
    BY <2>1 DEF Typed, ScalarsOK, TypesOf, JobSet
  <2>2. CASE t # top
    BY <2>2 DEF Typed, ScalarsOK, TypesOf, JobSet
  <2> QED
    BY <2>1, <2>2
<1> QED
  BY <1>1 DEF Typed

\* Subscriptions and deliveries.
LEMMA TypesDeliver ==
    ASSUME Typed, NEW top \in Topics, Subscribe(top) \/ Receive(top) \/ MarkSynced(top) \/ MaybeAck(top)
    PROVE  Typed'
<1>1. /\ ScalarsOK /\ stream[top] \in Seq(Msgs(top)) /\ last[top] \in Msgs(top) \cup {Nil}
      /\ job[top] \in JobSet(top)
  BY DEF Typed, TypesOf, ScalarsOK
<1>2. CASE Subscribe(top)
  <2>1. ScalarsOK'
    BY <1>1, <1>2 DEF Subscribe, ScalarsOK, providerVars, bootVars, hostVars
  <2>2. (IF last[top] = Nil THEN <<>> ELSE <<last[top]>>) \in Seq(Msgs(top))
    BY <1>1, SeqFacts
  <2>3. UNCHANGED <<last, job>>
    BY <1>2 DEF Subscribe, hostVars
  <2> QED
    BY <1>1, <1>2, <2>1, <2>2, <2>3, TopicTypes DEF Subscribe
<1>3. CASE Receive(top)
  <2>1. ScalarsOK'
    BY <1>1, <1>3 DEF Receive, ScalarsOK, providerVars, bootVars, hostVars
  <2>2. Tail(stream[top]) \in Seq(Msgs(top)) /\ Head(stream[top]) \in Msgs(top)
    BY <1>1, <1>3, SeqFacts DEF Receive
  <2>3. [pc |-> "apply", msg |-> Head(stream[top])] \in JobSet(top)
    BY <2>2 DEF JobSet
  <2>4. UNCHANGED last
    BY <1>3 DEF Receive, hostVars
  <2> QED
    BY <1>1, <1>3, <2>1, <2>2, <2>3, <2>4, TopicTypes DEF Receive
<1>4. CASE MarkSynced(top)
  <2>1. ScalarsOK'
    BY <1>1, <1>4 DEF MarkSynced, Goto, ScalarsOK, bootVars, hostVars
  <2>2. job[top].pc = "mark"
    BY <1>4 DEF MarkSynced
  <2>3. [job[top] EXCEPT !.pc = "ack"] \in JobSet(top)
    BY <1>1, <2>2 DEF JobSet, Idle
  <2>4. job' = [job EXCEPT ![top] = [job[top] EXCEPT !.pc = "ack"]] /\ UNCHANGED <<stream, last>>
    BY <1>4 DEF MarkSynced, Goto, hostVars
  <2> QED
    BY <1>1, <2>1, <2>3, <2>4, TopicTypes
<1>5. CASE MaybeAck(top)
  <2>1. job[top].msg \in Msgs(top)
    BY <1>1, <1>5 DEF MaybeAck, JobSet, Idle
  <2>2. acks' \in SUBSET (Topics \X {"clear", "sync"} \X Epochs)
    BY <1>1, <1>5, <2>1, MsgFacts DEF MaybeAck, ScalarsOK
  <2>3. ScalarsOK'
    BY <1>1, <1>5, <2>2 DEF MaybeAck, ScalarsOK, providerVars, bootVars
  <2>4. Idle \in JobSet(top)
    BY DEF JobSet
  <2>5. job' = [job EXCEPT ![top] = Idle] /\ UNCHANGED <<stream, last>>
    BY <1>5 DEF MaybeAck
  <2> QED
    BY <1>1, <2>3, <2>4, <2>5, TopicTypes
<1> QED
  BY <1>2, <1>3, <1>4, <1>5

\* The handlers of the two topics.
LEMMA TypesHandle ==
    ASSUME Typed, HandleContext \/ HandleNamespaces
    PROVE  Typed'
<1>1. /\ ScalarsOK /\ "ctx" \in Topics /\ "ns" \in Topics
      /\ \A top \in Topics : job[top] \in JobSet(top)
  BY DEF Typed, TypesOf, Topics
<1>2. ASSUME NEW top \in Topics, NEW kind, NEW to \in {"mark", "ack"}, Applying(top, kind), Goto(top, to)
      PROVE  /\ \E j \in JobSet(top) : job' = [job EXCEPT ![top] = j]
             /\ job[top].msg \in Msgs(top) /\ job[top].msg.kind = kind
             /\ job[top].msg.epoch \in Epochs
  <2>1. job[top].msg \in Msgs(top)
    BY <1>1, <1>2 DEF Applying, JobSet, Idle
  <2>2. [job[top] EXCEPT !.pc = to] \in JobSet(top)
    BY <1>1, <1>2 DEF Applying, JobSet, Idle
  <2>3. job' = [job EXCEPT ![top] = [job[top] EXCEPT !.pc = to]]
    BY <1>2 DEF Goto
  <2> QED
    BY <1>2, <2>1, <2>2, <2>3, MsgFacts DEF Applying
<1>3. ASSUME NEW top \in Topics, NEW ok \in BOOLEAN, job[top].msg.epoch \in Epochs, Attempted(top, ok)
      PROVE  attempt' \in [Topics -> [epoch : Epochs, ok : BOOLEAN]]
  BY <1>1, <1>3 DEF Attempted, ScalarsOK
<1>4. CASE ClearActiveContext
  <2>1. ScalarsOK'
    <3>1. /\ UNCHANGED <<client, path, namespaces, synced, origin, attempt, subscribed, stream>>
          /\ UNCHANGED <<boot, kube, timedOut, hostUp, hostPhase, epoch, last, acks, late>>
          /\ label' = NoLabel /\ DOMAIN job' = DOMAIN job
      BY <1>4 DEF ClearActiveContext, Goto, bootVars, hostVars
    <3> QED
      BY <1>1, <3>1 DEF ScalarsOK
  <2> QED
    BY <1>1, <1>2, <1>4, <2>1, TopicTypes DEF ClearActiveContext, hostVars
<1>5. CASE SetActiveContextUnchanged
  <2>1. attempt' \in [Topics -> [epoch : Epochs, ok : BOOLEAN]]
    BY <1>1, <1>2, <1>3, <1>5 DEF SetActiveContextUnchanged
  <2>2. ScalarsOK'
    <3>1. /\ UNCHANGED <<client, label, path, namespaces, synced, subscribed, stream, boot, kube, timedOut, hostUp>>
          /\ UNCHANGED <<hostPhase, epoch, last, acks, late>>
          /\ origin' = "host" /\ DOMAIN job' = DOMAIN job
      BY <1>5 DEF SetActiveContextUnchanged, Goto, bootVars, hostVars
    <3> QED
      BY <1>1, <2>1, <3>1 DEF ScalarsOK
  <2> QED
    BY <1>1, <1>2, <1>5, <2>2, TopicTypes DEF SetActiveContextUnchanged, hostVars
<1>6. CASE SetActiveContext
  <2>1. attempt' \in [Topics -> [epoch : Epochs, ok : BOOLEAN]]
    BY <1>1, <1>2, <1>3, <1>6 DEF SetActiveContext
  <2>2. job["ctx"].msg.value \in Clusters
    BY <1>1, <1>2, <1>6, MsgFacts, TargetsAssumption DEF SetActiveContext, Applying, Clusters
  <2>3. (client \in Clusters \cup {Nil} /\ label \in Labels \cup {NoLabel} /\ path \in Paths \cup {NoPath})'
    BY <1>6, <2>2 DEF SetActiveContext, Clusters
  <2>4. /\ UNCHANGED <<namespaces, synced, subscribed, stream, boot, kube, timedOut, hostUp>>
        /\ UNCHANGED <<hostPhase, epoch, last, acks, late>>
        /\ origin' = "host" /\ DOMAIN job' = DOMAIN job
    BY <1>6 DEF SetActiveContext, Goto, bootVars, hostVars
  <2>5. ScalarsOK'
    BY <1>1, <2>1, <2>3, <2>4 DEF ScalarsOK
  <2> QED
    BY <1>1, <1>2, <1>6, <2>5, TopicTypes DEF SetActiveContext, hostVars
<1>7. CASE SetActiveContextFails
  <2>1. attempt' \in [Topics -> [epoch : Epochs, ok : BOOLEAN]]
    BY <1>1, <1>2, <1>3, <1>7 DEF SetActiveContextFails
  <2>3. /\ UNCHANGED <<client, label, path, namespaces, synced, origin, subscribed, stream, boot, kube, timedOut, hostUp>>
        /\ UNCHANGED <<hostPhase, epoch, last, acks, late>>
        /\ DOMAIN job' = DOMAIN job
    BY <1>7 DEF SetActiveContextFails, Goto, bootVars, hostVars
  <2>2. ScalarsOK'
    BY <1>1, <2>1, <2>3 DEF ScalarsOK
  <2> QED
    BY <1>1, <1>2, <1>7, <2>2, TopicTypes DEF SetActiveContextFails, hostVars
<1>8. CASE ClearActiveNamespaces
  <2>1. ScalarsOK'
    <3>1. /\ UNCHANGED <<client, label, path, synced, origin, attempt, subscribed, stream>>
          /\ UNCHANGED <<boot, kube, timedOut, hostUp, hostPhase, epoch, last, acks, late>>
          /\ namespaces' = {} /\ DOMAIN job' = DOMAIN job
      BY <1>8 DEF ClearActiveNamespaces, Goto, bootVars, hostVars
    <3> QED
      BY <1>1, <3>1 DEF ScalarsOK
  <2> QED
    BY <1>1, <1>2, <1>8, <2>1, TopicTypes DEF ClearActiveNamespaces, hostVars
<1>9. CASE SetActiveNamespaces
  <2>1. attempt' \in [Topics -> [epoch : Epochs, ok : BOOLEAN]]
    BY <1>1, <1>2, <1>3, <1>9 DEF SetActiveNamespaces
  <2>2. job["ns"].msg.value \in SUBSET Namespaces
    <3>1. job["ns"].msg \in Msgs("ns") /\ job["ns"].msg.kind = "sync"
      BY <1>1, <1>2, <1>9 DEF SetActiveNamespaces
    <3>2. job["ns"].msg.value \in Filters
      BY <1>1, <3>1, MsgFacts
    <3> QED
      BY <3>2, FiltersAssumption
  <2>3. ScalarsOK'
    <3>1. /\ UNCHANGED <<client, label, path, synced, origin, subscribed, stream, boot, kube, timedOut, hostUp>>
          /\ UNCHANGED <<hostPhase, epoch, last, acks, late>>
          /\ namespaces' = job["ns"].msg.value /\ DOMAIN job' = DOMAIN job
      BY <1>9 DEF SetActiveNamespaces, Goto, bootVars, hostVars
    <3>2. (namespaces \in SUBSET Namespaces)'
      BY <2>2, <3>1
    <3> QED
      BY <1>1, <2>1, <3>1, <3>2 DEF ScalarsOK
  <2> QED
    BY <1>1, <1>2, <1>9, <2>3, TopicTypes DEF SetActiveNamespaces, hostVars
<1> QED
  BY <1>4, <1>5, <1>6, <1>7, <1>8, <1>9 DEF HandleContext, HandleNamespaces

\* The host: what it publishes are messages of the current switch.
LEMMA TypesHost ==
    ASSUME Typed, Host
    PROVE  Typed'
<1>1. ScalarsOK /\ \A top \in Topics : TypesOf(top)
  BY DEF Typed
<1>2. ASSUME NEW msg, \A top \in Topics : msg[top] \in Msgs(top), Publish(msg), ScalarsOK', UNCHANGED job
      PROVE  Typed'
  <2>1. ASSUME NEW top \in Topics PROVE TypesOf(top)'
    <3>1. last'[top] = msg[top] /\ stream'[top] \in {stream[top], Append(stream[top], msg[top])}
      BY <1>2 DEF Publish
    <3>2. stream'[top] \in Seq(Msgs(top))
      BY <1>1, <1>2, <3>1, SeqFacts DEF TypesOf
    <3>3. last'[top] \in Msgs(top) \cup {Nil} /\ job'[top] \in JobSet(top)
      BY <1>1, <1>2, <3>1 DEF TypesOf
    <3> QED
      BY <3>2, <3>3 DEF TypesOf, JobSet
  <2> QED
    BY <1>2, <2>1 DEF Typed
<1>3. CASE HostClear
  <2>1. epoch + 1 \in Epochs
    BY <1>1, <1>3, SwitchAssumption DEF HostClear, ScalarsOK, Epochs
  <2>2. \A top \in Topics : [t \in Topics |-> Clear(epoch + 1)][top] \in Msgs(top)
    BY <2>1, MsgFacts
  <2>3. DOMAIN stream' = Topics /\ DOMAIN last' = Topics
    BY <1>3 DEF HostClear, Publish
  <2>4. ScalarsOK'
    BY <1>1, <1>3, <2>1, <2>3 DEF HostClear, ScalarsOK, providerVars, bootVars
  <2> QED
    BY <1>2, <1>3, <2>2, <2>4 DEF HostClear
<1>4. ASSUME NEW t \in Targets, NEW f \in Filters, HostSync(t, f) PROVE Typed'
  <2>1. \A top \in Topics : [x \in Topics |-> Sync(epoch, IF x = "ctx" THEN t ELSE f)][top] \in Msgs(top)
    BY <1>1, MsgFacts DEF ScalarsOK
  <2>2. DOMAIN stream' = Topics /\ DOMAIN last' = Topics
    BY <1>4 DEF HostSync, Publish
  <2>3. ScalarsOK'
    BY <1>1, <1>4, <2>2 DEF HostSync, ScalarsOK, providerVars, bootVars
  <2> QED
    BY <1>2, <1>4, <2>1, <2>3 DEF HostSync
<1>5. CASE HostAcked \/ HostTimesOut
  <2>1. PICK to \in {"resolving", "idle"} :
          /\ hostPhase' = to /\ late' \in BOOLEAN
          /\ UNCHANGED <<epoch, last, acks, streamVars, providerVars, bootVars>>
    BY <1>5 DEF HostAcked, HostTimesOut, HostProceeds
  <2>2. ScalarsOK'
    BY <1>1, <2>1 DEF ScalarsOK, streamVars, providerVars, bootVars
  <2>3. \A top \in Topics : TypesOf(top)'
    BY <1>1, <2>1 DEF TypesOf, JobSet, streamVars
  <2> QED
    BY <2>2, <2>3 DEF Typed
<1> QED
  BY <1>3, <1>4, <1>5 DEF Host

\* All steps.
LEMMA TypesNext == Typed /\ [Next]_vars => Typed'
<1> SUFFICES ASSUME Typed, [Next]_vars PROVE Typed'
  OBVIOUS
<1>1. CASE UNCHANGED vars
  BY <1>1 DEF Typed, ScalarsOK, TypesOf, JobSet, vars, providerVars, bootVars, streamVars, hostVars
<1>2. CASE Next
  BY <1>2, TypesBoot, TypesDeliver, TypesHandle, TypesHost DEF Next, Handle
<1> QED
  BY <1>1, <1>2

\* Types hold on every interleaving of start-up, the two streams and the host.
THEOREM ProviderTyped == Spec => []TypeOK
<1> QED
  BY TypesInit, TypesNext, TypeParts, PTL DEF Spec

-----------------------------------------------------------------------------
\* The kind of message the host published last, and how messages are ordered.
Stage == IF hostPhase \in {"clearing", "resolving"} THEN "clear" ELSE "sync"
Before(k, e, m) == e < m.epoch \/ (e = m.epoch /\ k = "clear" /\ m.kind = "sync")
Older(m, l) == Before(m.kind, m.epoch, l)

Drained(s, j) == s = <<>> /\ j.pc = "idle"

\* Stream s, job j and last message l of a topic, in order.
InOrder(s, j, l) ==
    /\ s # <<>> => s[Len(s)] = l
    /\ \A i \in 1 .. Len(s) - 1 : Older(s[i], l)
    /\ j.pc # "idle" => IF s = <<>> THEN j.msg = l ELSE Older(j.msg, l)

LastOf(l) == IF l = Nil THEN Stage = "sync" ELSE l.epoch = epoch /\ l.kind = Stage

AckedOf(top) ==
    \A k \in {"clear", "sync"} : \A e \in Epochs : <<top, k, e>> \in acks =>
        /\ subscribed[top] /\ last[top] # Nil
        /\ \/ Before(k, e, last[top])
           \/ k = last[top].kind /\ e = last[top].epoch /\ Drained(stream[top], job[top])

FlowOf(top) ==
    /\ LastOf(last[top])
    /\ ~subscribed[top] \/ last[top] = Nil => Drained(stream[top], job[top])
    /\ InOrder(stream[top], job[top], last[top])
    /\ AckedOf(top)

Flow == \A top \in Topics : FlowOf(top)

-----------------------------------------------------------------------------
\* Sequences of messages, by index.
LEMMA TailFacts ==
    ASSUME NEW S, NEW s \in Seq(S), s # <<>>
    PROVE  /\ Len(s) \in Nat \ {0} /\ Len(Tail(s)) = Len(s) - 1
           /\ \A i \in 1 .. Len(s) - 1 : Tail(s)[i] = s[i + 1]
           /\ Head(s) = s[1]
           /\ Tail(s) = <<>> <=> Len(s) = 1
           /\ \A i \in 1 .. Len(s) : s[i] \in S
<1>1. /\ Len(s) \in Nat \ {0} /\ Len(Tail(s)) = Len(s) - 1
      /\ \A i \in 1 .. Len(s) - 1 : Tail(s)[i] = s[i + 1]
      /\ Head(s) = s[1] /\ Tail(s) \in Seq(S)
      /\ \A i \in 1 .. Len(s) : s[i] \in S
  BY EmptySeq, HeadTailProperties, ElementOfSeq, LenProperties
<1> DEFINE t == Tail(s)
<1>2. t \in Seq(S) /\ Len(t) = Len(s) - 1
  BY <1>1
<1>3. t = <<>> <=> Len(t) = 0
  BY <1>2, EmptySeq
<1> QED
  BY <1>1, <1>2, <1>3

LEMMA AppendFacts ==
    ASSUME NEW S, NEW s \in Seq(S), NEW m \in S
    PROVE  /\ Append(s, m) # <<>> /\ Len(s) \in Nat /\ Len(Append(s, m)) = Len(s) + 1
           /\ \A i \in 1 .. Len(s) : Append(s, m)[i] = s[i] /\ s[i] \in S
           /\ Append(s, m)[Len(s) + 1] = m
           /\ s = <<>> <=> Len(s) = 0
OBVIOUS

\* A stream that starts with the topic's last message.
LEMMA OrderSubscribe ==
    ASSUME NEW S, NEW l \in S, NEW j, j.pc = "idle"
    PROVE  InOrder(<<l>>, j, l) /\ InOrder(<<>>, j, l)
BY DEF InOrder

\* The head of the stream becomes the job.
LEMMA OrderReceive ==
    ASSUME NEW S, NEW s \in Seq(S), s # <<>>, NEW j, NEW l, InOrder(s, j, l)
    PROVE  InOrder(Tail(s), [pc |-> "apply", msg |-> Head(s)], l)
<1>1. CASE Len(s) = 1
  BY <1>1, TailFacts DEF InOrder
<1>2. CASE Len(s) # 1
  <2>1. Tail(s) # <<>> /\ Len(s) \in Nat /\ Len(s) > 1
    BY <1>2, TailFacts
  <2>2. Tail(s)[Len(Tail(s))] = l
    BY <2>1, TailFacts DEF InOrder
  <2>3. \A i \in 1 .. Len(Tail(s)) - 1 : Older(Tail(s)[i], l)
    BY <2>1, TailFacts DEF InOrder
  <2>4. Older(Head(s), l)
    BY <2>1, TailFacts DEF InOrder
  <2> QED
    BY <2>1, <2>2, <2>3, <2>4 DEF InOrder
<1> QED
  BY <1>1, <1>2

\* A newer message is published.
LEMMA OrderPublish ==
    ASSUME NEW S, \A x \in S : x.epoch \in Nat,
           NEW s \in Seq(S), NEW m \in S, NEW l \in S \cup {Nil}, NEW j,
           j.pc # "idle" => j.msg \in S, InOrder(s, j, l),
           IF l = Nil THEN Drained(s, j) ELSE l \in S /\ Older(l, m)
    PROVE  InOrder(Append(s, m), j, m)
<1>1. ASSUME NEW x \in S, l # Nil, x = l \/ Older(x, l) PROVE Older(x, m)
  BY <1>1 DEF Older, Before
<1>2. \A i \in 1 .. Len(s) : Older(s[i], m)
  <2>1. CASE l = Nil
    BY <2>1, AppendFacts DEF Drained
  <2>2. CASE l # Nil
    <3> TAKE i \in 1 .. Len(s)
    <3>1. s # <<>> /\ s[i] \in S /\ Len(s) \in Nat
      BY AppendFacts
    <3>2. s[i] = l \/ Older(s[i], l)
      BY <3>1 DEF InOrder
    <3> QED
      BY <1>1, <2>2, <3>1, <3>2
  <2> QED
    BY <2>1, <2>2
<1>3. j.pc # "idle" => Older(j.msg, m)
  BY <1>1 DEF InOrder, Drained
<1> QED
  BY <1>2, <1>3, AppendFacts DEF InOrder

-----------------------------------------------------------------------------
\* What the types say of one topic.
LEMMA TopicFacts ==
    ASSUME Typed, NEW top \in Topics
    PROVE  /\ stream[top] \in Seq(Msgs(top))
           /\ last[top] \in Msgs(top) \cup {Nil} /\ Nil \notin Msgs(top)
           /\ job[top].pc # "idle" => job[top].msg \in Msgs(top)
           /\ epoch \in Nat /\ \A e \in Epochs : e \in Nat
           /\ \A m \in Msgs(top) : m.epoch \in Nat
           /\ acks \subseteq Topics \X {"clear", "sync"} \X Epochs
<1>1. /\ stream[top] \in Seq(Msgs(top)) /\ last[top] \in Msgs(top) \cup {Nil}
      /\ job[top].pc # "idle" => job[top].msg \in Msgs(top)
  BY DEF Typed, TypesOf, JobSet, Idle
<1>2. epoch \in Epochs /\ acks \subseteq Topics \X {"clear", "sync"} \X Epochs
  BY DEF Typed, ScalarsOK
<1>3. \A e \in Epochs : e \in Nat
  BY SwitchAssumption DEF Epochs
<1> QED
  <2>1. Nil \notin Msgs(top)
    BY NullsAssumption DEF Msgs
  <2> QED
    BY <1>1, <1>2, <1>3, <2>1, MsgFacts

\* A step that leaves the topic's stream and message alone.
LEMMA FlowKeeps ==
    ASSUME NEW top \in Topics, FlowOf(top),
           subscribed'[top] = subscribed[top], stream'[top] = stream[top],
           last'[top] = last[top], job'[top].msg = job[top].msg,
           job'[top].pc = "idle" <=> job[top].pc = "idle",
           Stage' = Stage, epoch' = epoch,
           \A k, e : <<top, k, e>> \in acks' => <<top, k, e>> \in acks
    PROVE  FlowOf(top)'
<1>1. LastOf(last[top])'
  BY DEF FlowOf, LastOf
<1>2. InOrder(stream[top], job'[top], last[top])
  BY DEF FlowOf, InOrder
<1>3. InOrder(stream[top], job[top], last[top])'
  BY <1>2 DEF InOrder
<1>4. AckedOf(top)'
  BY DEF FlowOf, AckedOf, Drained
<1> QED
  BY <1>1, <1>3, <1>4 DEF FlowOf, Drained

\* A message of a later stage is published.
LEMMA FlowPublishes ==
    ASSUME Typed, NEW top \in Topics, FlowOf(top), NEW m \in Msgs(top),
           last[top] # Nil => Older(last[top], m),
           last'[top] = m, m.epoch = epoch', m.kind = Stage',
           stream'[top] = IF subscribed[top] THEN Append(stream[top], m) ELSE stream[top],
           UNCHANGED <<subscribed, job, acks>>
    PROVE  FlowOf(top)'
<1>1. /\ stream[top] \in Seq(Msgs(top)) /\ last[top] \in Msgs(top) \cup {Nil} /\ Nil \notin Msgs(top)
      /\ job[top].pc # "idle" => job[top].msg \in Msgs(top)
      /\ \A e \in Epochs : e \in Nat
      /\ \A x \in Msgs(top) : x.epoch \in Nat
  BY TopicFacts
<1>2. LastOf(last[top])'
  BY <1>1 DEF LastOf
<1>3. InOrder(stream[top], job[top], last[top])'
  <2>1. InOrder(stream'[top], job[top], m)
    <3>1. CASE subscribed[top]
      <4>1. IF last[top] = Nil THEN Drained(stream[top], job[top])
                               ELSE last[top] \in Msgs(top) /\ Older(last[top], m)
        BY <1>1 DEF FlowOf
      <4>2. InOrder(Append(stream[top], m), job[top], m)
        BY <1>1, <4>1, OrderPublish DEF FlowOf
      <4> QED
        BY <3>1, <4>2
    <3>2. CASE ~subscribed[top]
      BY <3>2 DEF FlowOf, Drained, InOrder
    <3> QED
      BY <3>1, <3>2
  <2> QED
    BY <2>1 DEF InOrder
<1>4. AckedOf(top)'
  <2> SUFFICES ASSUME NEW k \in {"clear", "sync"}, NEW e \in Epochs, <<top, k, e>> \in acks
               PROVE  subscribed[top] /\ m # Nil /\ Before(k, e, m)
    <3>1. UNCHANGED <<subscribed, acks>> /\ last'[top] = m
      OBVIOUS
    <3> QED
      BY <3>1 DEF AckedOf, Before
  <2>1. /\ subscribed[top] /\ last[top] # Nil
        /\ \/ Before(k, e, last[top])
           \/ k = last[top].kind /\ e = last[top].epoch
    BY DEF FlowOf, AckedOf
  <2> QED
    BY <1>1, <2>1 DEF Older, Before
<1>5. (~subscribed[top] \/ last[top] = Nil => Drained(stream[top], job[top]))'
  BY <1>1 DEF FlowOf, Drained
<1> QED
  BY <1>2, <1>3, <1>4, <1>5 DEF FlowOf

\* A new subscriber gets the last message, if there is one.
LEMMA FlowSubscribes ==
    ASSUME Typed, NEW top \in Topics, FlowOf(top), Subscribe(top)
    PROVE  FlowOf(top)'
<1>1. /\ DOMAIN stream = Topics /\ subscribed \in [Topics -> BOOLEAN] /\ last[top] \in Msgs(top) \cup {Nil}
  BY TopicFacts DEF Typed, ScalarsOK
<1>2. /\ subscribed'[top] /\ ~subscribed[top] /\ UNCHANGED <<job, last, hostPhase, epoch, acks>>
      /\ stream'[top] = IF last[top] = Nil THEN <<>> ELSE <<last[top]>>
  BY <1>1 DEF Subscribe, hostVars
<1>3. job[top].pc = "idle"
  BY <1>2 DEF FlowOf, Drained
<1>4. InOrder(stream'[top], job[top], last[top])
  BY <1>1, <1>2, <1>3, OrderSubscribe DEF InOrder
<1>5. LastOf(last[top])' /\ InOrder(stream[top], job[top], last[top])'
  BY <1>2, <1>4 DEF FlowOf, LastOf, InOrder, Stage
<1>6. AckedOf(top)'
  BY <1>2 DEF FlowOf, AckedOf
<1> QED
  BY <1>2, <1>3, <1>5, <1>6 DEF FlowOf, Drained

\* The head of the stream becomes the topic's job.
LEMMA FlowReceives ==
    ASSUME Typed, NEW top \in Topics, FlowOf(top), Receive(top)
    PROVE  FlowOf(top)'
<1>1. /\ DOMAIN stream = Topics /\ DOMAIN job = Topics /\ stream[top] \in Seq(Msgs(top))
  BY TopicFacts DEF Typed, ScalarsOK
<1>2. /\ stream[top] # <<>> /\ stream'[top] = Tail(stream[top])
      /\ job'[top] = [pc |-> "apply", msg |-> Head(stream[top])]
      /\ UNCHANGED <<subscribed, last, hostPhase, epoch, acks>>
  BY <1>1 DEF Receive, hostVars
<1>3. InOrder(Tail(stream[top]), [pc |-> "apply", msg |-> Head(stream[top])], last[top])
  BY <1>1, <1>2, OrderReceive DEF FlowOf
<1>4. LastOf(last[top])' /\ InOrder(stream[top], job[top], last[top])'
  BY <1>2, <1>3 DEF FlowOf, LastOf, InOrder, Stage
<1>5. subscribed[top] /\ last[top] # Nil
  BY <1>2 DEF FlowOf, Drained
<1>6. AckedOf(top)'
  BY <1>2 DEF FlowOf, AckedOf, Drained
<1> QED
  BY <1>2, <1>4, <1>5, <1>6 DEF FlowOf

\* An ack is of the last message only if nothing else is on its way.
LEMMA FlowAcks ==
    ASSUME Typed, NEW top \in Topics, FlowOf(top), MaybeAck(top)
    PROVE  FlowOf(top)'
<1> DEFINE m == job[top].msg
<1>1. DOMAIN job = Topics
  BY DEF Typed, ScalarsOK
<1>2. /\ job[top].pc = "ack" /\ job'[top] = Idle
      /\ acks' \subseteq acks \cup {<<top, m.kind, m.epoch>>}
      /\ UNCHANGED <<subscribed, stream, last, hostPhase, epoch>>
  BY <1>1 DEF MaybeAck
<1>3. LastOf(last[top])' /\ InOrder(stream[top], job[top], last[top])'
  BY <1>2 DEF FlowOf, LastOf, InOrder, Stage, Idle
<1>4. subscribed[top] /\ last[top] # Nil
  BY <1>2 DEF FlowOf, Drained
<1>5. AckedOf(top)'
  <2> SUFFICES ASSUME NEW k \in {"clear", "sync"}, NEW e \in Epochs, <<top, k, e>> \in acks'
               PROVE  \/ Before(k, e, last[top])
                      \/ /\ k = last[top].kind /\ e = last[top].epoch
                         /\ stream[top] = <<>>
    BY <1>2, <1>4 DEF AckedOf, Drained, Idle, Before
  <2>1. CASE <<top, k, e>> \in acks
    BY <1>2, <2>1 DEF FlowOf, AckedOf, Drained
  <2>2. CASE k = m.kind /\ e = m.epoch
    BY <1>2, <2>2 DEF FlowOf, InOrder, Older
  <2> QED
    BY <1>2, <2>1, <2>2
<1> QED
  BY <1>2, <1>3, <1>4, <1>5 DEF FlowOf

-----------------------------------------------------------------------------
\* Nothing is published on a stream before anyone subscribed.
LEMMA FlowInit == Init => Flow
<1> SUFFICES ASSUME Init, NEW top \in Topics PROVE FlowOf(top)
  BY DEF Flow
<1>1. /\ ~subscribed[top] /\ stream[top] = <<>> /\ job[top] = Idle
      /\ acks = {} /\ hostPhase = "idle" /\ epoch = 0
  BY DEF Init
<1>2. last[top] = Nil \/ (last[top].epoch = 0 /\ last[top].kind = "sync")
  BY DEF Init, Sync
<1>3. LastOf(last[top])
  BY <1>1, <1>2 DEF LastOf, Stage
<1>4. InOrder(stream[top], job[top], last[top])
  BY <1>1 DEF InOrder, Idle
<1> QED
  BY <1>1, <1>3, <1>4 DEF FlowOf, AckedOf, Drained, Idle

\* What the steps of one topic leave alone of the other.
LEMMA FlowElsewhere ==
    ASSUME Typed, NEW top \in Topics, NEW t \in Topics \ {top}, FlowOf(t),
           Subscribe(top) \/ Receive(top) \/ MarkSynced(top) \/ MaybeAck(top)
    PROVE  FlowOf(t)'
<1>1. /\ DOMAIN stream = Topics /\ DOMAIN job = Topics /\ subscribed \in [Topics -> BOOLEAN]
  BY DEF Typed, ScalarsOK
<1>2. /\ subscribed'[t] = subscribed[t] /\ stream'[t] = stream[t] /\ job'[t] = job[t]
      /\ UNCHANGED <<last, epoch, hostPhase>>
  BY <1>1 DEF Subscribe, Receive, MarkSynced, Goto, MaybeAck, hostVars
<1>3. \A k, e : <<t, k, e>> \in acks' => <<t, k, e>> \in acks
  BY DEF Subscribe, Receive, MarkSynced, MaybeAck, hostVars
<1> QED
  BY <1>2, <1>3, FlowKeeps DEF Stage

\* The handlers work on a received message, which stays the topic's own.
LEMMA FlowHandles ==
    ASSUME Typed, NEW top \in Topics, FlowOf(top), HandleContext \/ HandleNamespaces
    PROVE  FlowOf(top)'
<1>1. DOMAIN job = Topics
  BY DEF Typed, ScalarsOK
<1>2. PICK t \in Topics, to \in {"mark", "ack"} :
        /\ job[t].pc = "apply" /\ Goto(t, to)
        /\ UNCHANGED <<subscribed, stream, last, epoch, hostPhase, acks>>
  BY DEF HandleContext, ClearActiveContext, SetActiveContextUnchanged, SetActiveContext,
         SetActiveContextFails, HandleNamespaces, ClearActiveNamespaces, SetActiveNamespaces,
         Applying, Topics, hostVars
<1>3. job'[top].msg = job[top].msg /\ (job'[top].pc = "idle" <=> job[top].pc = "idle")
  BY <1>1, <1>2 DEF Goto
<1> QED
  BY <1>2, <1>3, FlowKeeps DEF Stage

\* The host publishes a clear or its sync, or goes on.
LEMMA FlowHost ==
    ASSUME Typed, Flow, NEW top \in Topics, Host
    PROVE  FlowOf(top)'
<1>1. FlowOf(top) /\ epoch \in Epochs /\ epoch \in Nat /\ last[top] \in Msgs(top) \cup {Nil}
  BY TopicFacts DEF Flow, Typed, ScalarsOK
<1>2. CASE HostClear
  <2> DEFINE m == Clear(epoch + 1)
  <2>1. epoch + 1 \in Epochs
    BY <1>1, <1>2, SwitchAssumption DEF HostClear, Epochs
  <2>2. m \in Msgs(top)
    BY <2>1, MsgFacts
  <2>3. /\ last'[top] = m /\ UNCHANGED <<subscribed, job, acks>>
        /\ stream'[top] = IF subscribed[top] THEN Append(stream[top], m) ELSE stream[top]
    BY <1>2 DEF HostClear, Publish
  <2>4. m.epoch = epoch' /\ m.kind = Stage'
    BY <1>2 DEF HostClear, Clear, Stage
  <2>5. last[top] # Nil => Older(last[top], m)
    BY <1>1 DEF FlowOf, LastOf, Older, Before, Clear
  <2> QED
    BY <1>1, <2>2, <2>3, <2>4, <2>5, FlowPublishes
<1>3. ASSUME NEW t \in Targets, NEW f \in Filters, HostSync(t, f) PROVE FlowOf(top)'
  <2> DEFINE m == Sync(epoch, IF top = "ctx" THEN t ELSE f)
  <2>1. m \in Msgs(top)
    BY <1>1, MsgFacts
  <2>2. /\ last'[top] = m /\ UNCHANGED <<subscribed, job, acks>>
        /\ stream'[top] = IF subscribed[top] THEN Append(stream[top], m) ELSE stream[top]
    BY <1>3 DEF HostSync, Publish
  <2>3. m.epoch = epoch' /\ m.kind = Stage' /\ Stage = "clear"
    BY <1>3 DEF HostSync, Sync, Stage
  <2>4. last[top] # Nil => Older(last[top], m)
    BY <1>1, <2>3 DEF FlowOf, LastOf, Older, Before, Sync
  <2> QED
    BY <1>1, <2>1, <2>2, <2>3, <2>4, FlowPublishes
<1>4. CASE HostAcked \/ HostTimesOut
  <2>1. UNCHANGED <<epoch, last, acks, subscribed, stream, job>> /\ Stage' = Stage
    BY <1>4 DEF HostAcked, HostTimesOut, HostProceeds, streamVars, Stage
  <2> QED
    BY <1>1, <2>1, FlowKeeps
<1> QED
  BY <1>2, <1>3, <1>4 DEF Host

\* Every step of the provider and of the host keeps the streams in order.
LEMMA FlowNext == Typed /\ Flow /\ [Next]_vars => Flow'
<1> SUFFICES ASSUME Typed, Flow, [Next]_vars, NEW top \in Topics PROVE FlowOf(top)'
  BY DEF Flow
<1>1. FlowOf(top)
  BY DEF Flow
<1>2. CASE Boot \/ UNCHANGED vars
  <2>1. UNCHANGED <<subscribed, stream, job, hostPhase, epoch, last, acks>>
    BY <1>2 DEF Boot, BuildUnseeded, BuildSeeded, BuildFails, WaitForContext,
           WaitForNamespaces, WaitStep, WaitTimesOut, vars, streamVars, hostVars
  <2> QED
    BY <1>1, <2>1, FlowKeeps DEF Stage
<1>3. ASSUME NEW t \in Topics, Subscribe(t) \/ Receive(t) \/ MarkSynced(t) \/ MaybeAck(t)
      PROVE  FlowOf(top)'
  <2>1. CASE t # top
    BY <1>1, <1>3, <2>1, FlowElsewhere
  <2>2. CASE MarkSynced(top)
    <3>1. DOMAIN job = Topics
      BY DEF Typed, ScalarsOK
    <3>2. /\ UNCHANGED <<subscribed, stream, last, epoch, hostPhase, acks>>
          /\ job'[top].msg = job[top].msg /\ job[top].pc = "mark" /\ job'[top].pc = "ack"
      BY <2>2, <3>1 DEF MarkSynced, Goto, hostVars
    <3> QED
      BY <1>1, <3>2, FlowKeeps DEF Stage
  <2> QED
    BY <1>1, <1>3, <2>1, <2>2, FlowSubscribes, FlowReceives, FlowAcks
<1> QED
  BY <1>1, <1>2, <1>3, FlowHandles, FlowHost DEF Next, Handle

\* The streams stay in order for good.
LEMMA FlowAlways == Spec => [](Typed /\ Flow)
BY TypesInit, TypesNext, FlowInit, FlowNext, PTL DEF Spec

-----------------------------------------------------------------------------

\* The host has no cluster of its own in force.
Free == origin # "host" \/ label = NoLabel

\* Start-up: before the streams run nothing is synced, nothing is bound.
Startup ==
    /\ boot = "start" => /\ client = Nil /\ origin = "none"
                         /\ \A top \in Topics : ~subscribed[top]
    /\ origin = "none" => label = NoLabel
    /\ \A top \in Topics : ~subscribed[top] => ~synced[top]
    /\ ~subscribed["ctx"] => origin # "host"

\* A guess is served only after the context's first sync, which failed.
GuessWaits ==
    /\ boot = "waitNs" => synced["ctx"]
    /\ boot = "serving" /\ hostUp /\ origin = "guess" /\ ~timedOut => synced["ctx"]
    /\ origin = "guess" /\ (synced["ctx"] \/ job["ctx"].pc = "mark") => ~attempt["ctx"].ok

\* The host publishes on both topics, or has not published yet.
BothPublished == last["ctx"] = Nil <=> last["ns"] = Nil

\* Between two syncs of the context there is a clear, on its way or applied.
Cut == Applying("ctx", "clear") \/ (Free /\ job["ctx"].pc # "apply")

Alternates(s) == \A i \in 1 .. Len(s) - 1 : s[i + 1].kind = "sync" => s[i].kind = "clear"

Order ==
    /\ Alternates(stream["ctx"])
    /\ stream["ctx"] # <<>> /\ stream["ctx"][1].kind = "sync" => Cut
    /\ Applying("ctx", "sync") => Free
    /\ Stage = "clear" /\ stream["ctx"] = <<>> => Cut

\* A topic whose last message is applied, and what that left behind.
Settled(top) ==
    /\ subscribed[top] /\ last[top] # Nil
    /\ stream[top] = <<>> /\ job[top].pc # "apply"

CtxApplied ==
    Settled("ctx") =>
        IF last["ctx"].kind = "clear" THEN label = NoLabel
        ELSE IF attempt["ctx"].ok THEN client = last["ctx"].value /\ label = client.ctx
        ELSE Free

NsApplied ==
    Settled("ns") => namespaces = IF last["ns"].kind = "clear" THEN {} ELSE last["ns"].value

\* As long as the host got its acks in time, every sync on its way or in
\* force is of one and the same switch.
InForce == IF Stage = "clear" THEN epoch - 1 ELSE epoch

SyncsOf(s, j, e) ==
    /\ \A i \in 1 .. Len(s) : s[i].kind = "sync" => s[i].epoch = e
    /\ j.pc = "apply" /\ j.msg.kind = "sync" => j.msg.epoch = e

InTime ==
    ~late =>
        /\ hostPhase = "resolving" => Acked("clear")
        /\ \A top \in Topics : SyncsOf(stream[top], job[top], InForce)
        /\ ~Free => attempt["ctx"].epoch = InForce
        /\ namespaces # {} => attempt["ns"].epoch = InForce

-----------------------------------------------------------------------------
(* The steps as one topic sees them.                                       *)
Rests(top) ==
    /\ UNCHANGED <<last, epoch>> /\ Stage' = Stage
    /\ stream'[top] = stream[top] /\ subscribed'[top] = subscribed[top]
    /\ \/ job'[top] = job[top]
       \/ job[top].pc # "apply" /\ job'[top].pc # "apply"

CtxRests == Rests("ctx") /\ UNCHANGED <<client, label, path, origin>>
                         /\ attempt'["ctx"] = attempt["ctx"]
NsRests  == Rests("ns") /\ UNCHANGED namespaces /\ attempt'["ns"] = attempt["ns"]

\* A mark, an ack and the other topic's deliveries let a topic rest.
LEMMA RestsFacts ==
    ASSUME Typed, NEW top \in Topics, NEW t \in Topics,
           \/ MarkSynced(t) \/ MaybeAck(t)
           \/ t # top /\ (Subscribe(t) \/ Receive(t))
    PROVE  Rests(top) /\ UNCHANGED <<client, label, path, origin, namespaces, attempt>>
<1>1. /\ DOMAIN stream = Topics /\ DOMAIN job = Topics /\ subscribed \in [Topics -> BOOLEAN]
  BY DEF Typed, ScalarsOK
<1>2. CASE MarkSynced(t)
  BY <1>1, <1>2 DEF MarkSynced, Goto, hostVars, Rests, Stage
<1>3. CASE MaybeAck(t)
  BY <1>1, <1>3 DEF MaybeAck, Idle, providerVars, Rests, Stage
<1>4. CASE t # top /\ (Subscribe(t) \/ Receive(t))
  BY <1>1, <1>4 DEF Subscribe, Receive, hostVars, providerVars, Rests, Stage
<1> QED
  BY <1>2, <1>3, <1>4

\* Every step, as the context's topic sees it.
LEMMA CtxCases ==
    ASSUME Typed, [Next]_vars
    PROVE  \/ CtxRests
           \/ BuildSeeded
           \/ Subscribe("ctx") \/ Receive("ctx") \/ HandleContext
           \/ HostClear \/ \E t \in Targets, f \in Filters : HostSync(t, f)
<1>1. /\ DOMAIN stream = Topics /\ DOMAIN job = Topics /\ subscribed \in [Topics -> BOOLEAN]
      /\ attempt \in [Topics -> [epoch : Epochs, ok : BOOLEAN]] /\ Topics = {"ctx", "ns"}
  BY DEF Typed, ScalarsOK, Topics
<1>2. CASE \/ BuildUnseeded \/ BuildFails \/ WaitForContext \/ WaitForNamespaces \/ WaitTimesOut
           \/ HostAcked \/ HostTimesOut \/ UNCHANGED vars
  BY <1>1, <1>2 DEF BuildUnseeded, BuildFails, WaitForContext, WaitForNamespaces, WaitStep,
       WaitTimesOut, HostAcked, HostTimesOut, HostProceeds, vars, providerVars, streamVars, hostVars,
       CtxRests, Rests, Stage
<1>3. CASE HandleNamespaces
  BY <1>1, <1>3 DEF HandleNamespaces, ClearActiveNamespaces, SetActiveNamespaces, Goto, Attempted,
       hostVars, CtxRests, Rests, Stage
<1>4. ASSUME NEW t \in Topics, Subscribe(t) \/ Receive(t) \/ MarkSynced(t) \/ MaybeAck(t)
      PROVE  CtxRests \/ Subscribe("ctx") \/ Receive("ctx")
  BY <1>1, <1>4, RestsFacts DEF CtxRests
<1> QED
  BY <1>2, <1>3, <1>4 DEF Next, Boot, Handle, Host

\* Every step, as the namespaces' topic sees it.
LEMMA NsCases ==
    ASSUME Typed, [Next]_vars
    PROVE  \/ NsRests
           \/ Subscribe("ns") \/ Receive("ns") \/ HandleNamespaces
           \/ HostClear \/ \E t \in Targets, f \in Filters : HostSync(t, f)
<1>1. /\ DOMAIN stream = Topics /\ DOMAIN job = Topics /\ subscribed \in [Topics -> BOOLEAN]
      /\ attempt \in [Topics -> [epoch : Epochs, ok : BOOLEAN]] /\ Topics = {"ctx", "ns"}
  BY DEF Typed, ScalarsOK, Topics
<1>2. CASE \/ BuildUnseeded \/ BuildFails \/ WaitForContext \/ WaitForNamespaces \/ WaitTimesOut
           \/ HostAcked \/ HostTimesOut \/ UNCHANGED vars
  BY <1>1, <1>2 DEF BuildUnseeded, BuildFails, WaitForContext, WaitForNamespaces, WaitStep,
       WaitTimesOut, HostAcked, HostTimesOut, HostProceeds, vars, providerVars, streamVars, hostVars,
       NsRests, Rests, Stage
<1>3. CASE BuildSeeded
  BY <1>1, <1>3 DEF BuildSeeded, streamVars, hostVars, NsRests, Rests, Stage
<1>4. CASE HandleContext
  BY <1>1, <1>4 DEF HandleContext, ClearActiveContext, SetActiveContextUnchanged, SetActiveContext,
       SetActiveContextFails, Goto, Attempted, hostVars, NsRests, Rests, Stage
<1>5. ASSUME NEW t \in Topics, Subscribe(t) \/ Receive(t) \/ MarkSynced(t) \/ MaybeAck(t)
      PROVE  NsRests \/ Subscribe("ns") \/ Receive("ns")
  BY <1>1, <1>5, RestsFacts DEF NsRests
<1> QED
  BY <1>2, <1>3, <1>4, <1>5 DEF Next, Boot, Handle, Host

\* A handler applies a received message and leaves the streams alone.
LEMMA HandledFacts ==
    ASSUME Typed
    PROVE  /\ HandleContext => job["ctx"].pc = "apply" /\ job'["ctx"].pc \in {"mark", "ack"}
           /\ HandleNamespaces => job["ns"].pc = "apply" /\ job'["ns"].pc \in {"mark", "ack"}
           /\ HandleContext \/ HandleNamespaces =>
                UNCHANGED <<boot, kube, timedOut, hostUp, synced, subscribed, stream,
                            hostPhase, epoch, last, acks, late>>
<1>1. DOMAIN job = Topics /\ "ctx" \in Topics /\ "ns" \in Topics
      /\ \A top \in Topics : job[top] \in JobSet(top)
  BY DEF Typed, ScalarsOK, TypesOf, Topics
<1>2. ASSUME NEW top \in Topics, NEW kind, NEW to, Applying(top, kind), Goto(top, to)
      PROVE  job[top].pc = "apply" /\ job'[top].pc = to
  BY <1>1, <1>2 DEF Applying, Goto, JobSet, Idle
<1>3. HandleContext => job["ctx"].pc = "apply" /\ job'["ctx"].pc \in {"mark", "ack"}
  BY <1>1, <1>2 DEF HandleContext, ClearActiveContext, SetActiveContextUnchanged, SetActiveContext,
       SetActiveContextFails
<1>4. HandleNamespaces => job["ns"].pc = "apply" /\ job'["ns"].pc \in {"mark", "ack"}
  BY <1>1, <1>2 DEF HandleNamespaces, ClearActiveNamespaces, SetActiveNamespaces
<1>5. HandleContext \/ HandleNamespaces =>
        UNCHANGED <<boot, kube, timedOut, hostUp, synced, subscribed, stream,
                    hostPhase, epoch, last, acks, late>>
  BY DEF HandleContext, ClearActiveContext, SetActiveContextUnchanged, SetActiveContext,
       SetActiveContextFails, HandleNamespaces, ClearActiveNamespaces, SetActiveNamespaces,
       bootVars, hostVars
<1> QED
  BY <1>3, <1>4, <1>5

-----------------------------------------------------------------------------
\* Only a successful load changes the label to a name.
LEMMA LoadedNext ==
    ASSUME Typed, ActiveIsLoaded, [Next]_vars
    PROVE  ActiveIsLoaded'
<1>1. CASE CtxRests \/ Subscribe("ctx") \/ Receive("ctx") \/ HostClear
           \/ \E t \in Targets, f \in Filters : HostSync(t, f)
  <2>1. UNCHANGED <<client, label, path>>
    BY <1>1 DEF CtxRests, Subscribe, Receive, HostClear, HostSync, providerVars
  <2> QED
    BY <2>1 DEF ActiveIsLoaded
<1>2. CASE BuildSeeded
  BY <1>2 DEF BuildSeeded, ActiveIsLoaded
<1>3. CASE HandleContext
  <2>1. CASE SetActiveContext
    <3>1. job["ctx"].msg \in Msgs("ctx") /\ job["ctx"].msg.kind = "sync"
      BY <2>1 DEF SetActiveContext, Applying, Typed, TypesOf, JobSet, Idle, Topics
    <3>2. job["ctx"].msg.value \in [ctx : Labels, path : Paths]
      BY <3>1, MsgFacts, TargetsAssumption DEF Topics
    <3> QED
      BY <2>1, <3>2 DEF SetActiveContext, ActiveIsLoaded
  <2> QED
    BY <1>3, <2>1 DEF HandleContext, ClearActiveContext, SetActiveContextUnchanged,
           SetActiveContextFails, ActiveIsLoaded
<1> QED
  BY <1>1, <1>2, <1>3, CtxCases

\* A sync is marked only by a topic that is subscribed.
LEMMA StartupNext ==
    ASSUME Typed, Flow, Startup, [Next]_vars
    PROVE  Startup'
<1>1. /\ subscribed \in [Topics -> BOOLEAN] /\ synced \in [Topics -> BOOLEAN]
      /\ "ctx" \in Topics /\ "ns" \in Topics /\ DOMAIN job = Topics
      /\ \A top \in Topics : ~subscribed[top] => job[top].pc = "idle"
  BY DEF Typed, ScalarsOK, Topics, Flow, FlowOf, Drained
<1>2. CASE Boot
  BY <1>1, <1>2 DEF Boot, BuildUnseeded, BuildSeeded, BuildFails, WaitForContext, WaitForNamespaces,
         WaitStep, WaitTimesOut, Startup, providerVars, streamVars
<1>3. CASE HandleContext \/ HandleNamespaces
  <2>1. PICK top \in Topics : job[top].pc = "apply"
    BY <1>1, <1>3 DEF HandleContext, ClearActiveContext, SetActiveContextUnchanged, SetActiveContext,
           SetActiveContextFails, HandleNamespaces, ClearActiveNamespaces, SetActiveNamespaces, Applying
  <2>2. boot # "start" /\ UNCHANGED <<boot, subscribed, synced>>
    BY <1>1, <1>3, <2>1 DEF Startup, HandleContext, ClearActiveContext, SetActiveContextUnchanged,
           SetActiveContext, SetActiveContextFails, HandleNamespaces, ClearActiveNamespaces,
           SetActiveNamespaces, bootVars
  <2>3. \/ UNCHANGED <<label, origin>>
        \/ UNCHANGED origin /\ label' = NoLabel
        \/ origin' = "host" /\ job["ctx"].pc = "apply"
    BY <1>3 DEF HandleContext, ClearActiveContext, SetActiveContextUnchanged, SetActiveContext,
           SetActiveContextFails, HandleNamespaces, ClearActiveNamespaces, SetActiveNamespaces, Applying
  <2> QED
    BY <1>1, <2>2, <2>3 DEF Startup
<1>4. ASSUME NEW top \in Topics, Subscribe(top) \/ Receive(top) \/ MarkSynced(top) \/ MaybeAck(top)
      PROVE  Startup'
  <2>1. UNCHANGED <<boot, origin, label, client>>
    BY <1>4 DEF Subscribe, Receive, MarkSynced, MaybeAck, providerVars, bootVars
  <2>2. CASE Subscribe(top)
    BY <1>1, <2>1, <2>2 DEF Subscribe, Running, Startup, providerVars
  <2>3. CASE MarkSynced(top)
    BY <1>1, <2>1, <2>3 DEF MarkSynced, Startup
  <2>4. CASE Receive(top) \/ MaybeAck(top)
    BY <2>1, <2>4 DEF Receive, MaybeAck, Startup, providerVars
  <2> QED
    BY <1>4, <2>2, <2>3, <2>4
<1>5. CASE Host \/ UNCHANGED vars
  <2>1. UNCHANGED <<boot, origin, label, client, subscribed, synced>>
    BY <1>5 DEF Host, HostClear, HostSync, HostAcked, HostTimesOut, HostProceeds, vars, providerVars,
           bootVars, streamVars
  <2> QED
    BY <2>1 DEF Startup
<1> QED
  BY <1>2, <1>3, <1>4, <1>5 DEF Next, Handle

\* The wait for the context's first sync, which a failed load ends too.
LEMMA GuessNext ==
    ASSUME Typed, Flow, Startup, GuessWaits, [Next]_vars
    PROVE  GuessWaits'
<1>1. /\ synced \in [Topics -> BOOLEAN] /\ attempt \in [Topics -> [epoch : Epochs, ok : BOOLEAN]]
      /\ "ctx" \in Topics /\ "ns" \in Topics /\ DOMAIN job = Topics
      /\ ~subscribed["ctx"] => job["ctx"].pc = "idle"
  BY DEF Typed, ScalarsOK, Topics, Flow, FlowOf, Drained
<1>2. CASE BuildSeeded
  <2>1. ~synced["ctx"] /\ job["ctx"].pc = "idle"
    BY <1>1, <1>2 DEF BuildSeeded, Startup
  <2>2. UNCHANGED <<hostUp, synced, attempt, job>> /\ boot' = IF hostUp THEN "waitCtx" ELSE "serving"
    BY <1>2 DEF BuildSeeded, streamVars
  <2> QED
    BY <2>1, <2>2 DEF GuessWaits
<1>3. CASE BuildUnseeded \/ BuildFails \/ WaitForContext \/ WaitForNamespaces \/ WaitTimesOut
  BY <1>1, <1>3 DEF BuildUnseeded, BuildFails, WaitForContext, WaitForNamespaces, WaitStep,
         WaitTimesOut, Startup, GuessWaits, providerVars, streamVars
<1>4. CASE HandleContext
  <2>1. UNCHANGED <<boot, hostUp, timedOut, synced>>
    BY <1>4, HandledFacts
  <2>2. CASE ClearActiveContext
    <3>1. job["ctx"] \in JobSet("ctx") /\ job["ctx"].pc = "apply"
      BY <1>1, <1>4, HandledFacts DEF Typed, TypesOf
    <3>2. job'["ctx"].pc = "ack" /\ UNCHANGED <<origin, attempt>>
      BY <1>1, <2>2, <3>1 DEF ClearActiveContext, Goto, JobSet, Idle
    <3> QED
      BY <2>1, <3>2 DEF GuessWaits
  <2>3. CASE SetActiveContextUnchanged \/ SetActiveContext
    <3>1. origin' = "host"
      BY <2>3 DEF SetActiveContextUnchanged, SetActiveContext
    <3> QED
      BY <2>1, <3>1 DEF GuessWaits
  <2>4. CASE SetActiveContextFails
    <3>1. UNCHANGED origin /\ ~attempt'["ctx"].ok
      BY <1>1, <2>4 DEF SetActiveContextFails, Attempted
    <3> QED
      BY <2>1, <3>1 DEF GuessWaits
  <2> QED
    BY <1>4, <2>2, <2>3, <2>4 DEF HandleContext
<1>5. CASE HandleNamespaces
  <2>1. UNCHANGED <<boot, hostUp, timedOut, synced, origin>>
    BY <1>5, HandledFacts DEF HandleNamespaces, ClearActiveNamespaces, SetActiveNamespaces
  <2>2. job'["ctx"] = job["ctx"] /\ attempt'["ctx"] = attempt["ctx"]
    BY <1>1, <1>5 DEF HandleNamespaces, ClearActiveNamespaces, SetActiveNamespaces, Attempted, Goto
  <2> QED
    BY <2>1, <2>2 DEF GuessWaits
<1>6. ASSUME NEW top \in Topics, Subscribe(top) \/ Receive(top) \/ MarkSynced(top) \/ MaybeAck(top)
      PROVE  GuessWaits'
  <2>1. UNCHANGED <<boot, hostUp, timedOut, origin, attempt>> /\ (synced["ctx"] => synced'["ctx"])
    BY <1>1, <1>6 DEF Subscribe, Receive, MarkSynced, MaybeAck, providerVars, bootVars
  <2>2. (synced["ctx"] \/ job["ctx"].pc = "mark")' => synced["ctx"] \/ job["ctx"].pc = "mark"
    BY <1>1, <1>6 DEF Subscribe, Receive, MarkSynced, MaybeAck, Goto, Idle, providerVars
  <2> QED
    BY <2>1, <2>2 DEF GuessWaits
<1>7. CASE Host \/ UNCHANGED vars
  <2>1. UNCHANGED <<boot, hostUp, timedOut, origin, attempt, synced, job>>
    BY <1>7 DEF Host, HostClear, HostSync, HostAcked, HostTimesOut, HostProceeds, vars, providerVars,
           bootVars, streamVars
  <2> QED
    BY <2>1 DEF GuessWaits
<1> QED
  BY <1>2, <1>3, <1>4, <1>5, <1>6, <1>7 DEF Next, Boot, Handle

-----------------------------------------------------------------------------
\* The types and the order of one topic's stream, ready to cite.
LEMMA StreamFacts ==
    ASSUME Typed, Flow, NEW top \in Topics
    PROVE  /\ stream[top] \in Seq(Msgs(top)) /\ last[top] \in Msgs(top) \cup {Nil}
           /\ DOMAIN stream = Topics /\ DOMAIN job = Topics /\ subscribed \in [Topics -> BOOLEAN]
           /\ stream[top] # <<>> => /\ stream[top][Len(stream[top])] = last[top]
                                    /\ subscribed[top] /\ last[top] # Nil
           /\ job[top].pc # "idle" => /\ subscribed[top] /\ last[top] # Nil
                                      /\ stream[top] = <<>> => job[top].msg = last[top]
           /\ last[top] # Nil => last[top].epoch = epoch /\ last[top].kind = Stage
BY TopicFacts DEF Typed, ScalarsOK, Flow, FlowOf, InOrder, LastOf, Drained

\* No step puts a second sync of the context behind a first one.
LEMMA OrderNext ==
    ASSUME Typed, Flow, Startup, Order, [Next]_vars
    PROVE  Order'
<1> DEFINE s == stream["ctx"]
           S == Msgs("ctx")
<1>1. /\ s \in Seq(S) /\ last["ctx"] \in S \cup {Nil}
      /\ DOMAIN stream = Topics /\ DOMAIN job = Topics /\ "ctx" \in Topics
      /\ s # <<>> => s[Len(s)] = last["ctx"] /\ subscribed["ctx"] /\ last["ctx"] # Nil
      /\ job["ctx"].pc # "idle" => subscribed["ctx"]
      /\ last["ctx"] # Nil => last["ctx"].kind = Stage
      /\ subscribed \in [Topics -> BOOLEAN]
  BY StreamFacts DEF Topics
<1>2. CASE CtxRests
  <2>1. stream'["ctx"] = s /\ Stage' = Stage /\ (Free' <=> Free)
        /\ (Applying("ctx", "clear")' <=> Applying("ctx", "clear"))
        /\ (Applying("ctx", "sync")' <=> Applying("ctx", "sync"))
        /\ (job'["ctx"].pc = "apply" <=> job["ctx"].pc = "apply")
    BY <1>2 DEF CtxRests, Rests, Free, Applying
  <2> QED
    BY <2>1 DEF Order, Cut
<1>3. CASE BuildSeeded
  <2>1. Free' /\ job'["ctx"].pc = "idle" /\ UNCHANGED <<stream, job>>
    BY <1>1, <1>3 DEF BuildSeeded, Free, streamVars, Startup
  <2> QED
    BY <2>1 DEF Order, Cut, Applying
<1>4. CASE Subscribe("ctx")
  <2>1. /\ UNCHANGED <<job, origin, label>> /\ ~subscribed["ctx"]
        /\ stream'["ctx"] = <<>> \/ stream'["ctx"] = <<last["ctx"]>>
    BY <1>1, <1>4 DEF Subscribe, providerVars
  <2>2. Free' /\ job'["ctx"].pc = "idle"
    BY <1>1, <2>1 DEF Startup, Free
  <2>3. Alternates(stream'["ctx"])
    BY <2>1 DEF Alternates
  <2> QED
    BY <2>2, <2>3 DEF Order, Cut, Applying, Alternates
<1>5. CASE Receive("ctx")
  <2>1. /\ s # <<>> /\ stream'["ctx"] = Tail(s) /\ UNCHANGED <<origin, label, hostPhase>>
        /\ job'["ctx"] = [pc |-> "apply", msg |-> Head(s)] /\ job["ctx"].pc = "idle"
    BY <1>1, <1>5 DEF Receive, providerVars, hostVars, Idle
  <2>2. Alternates(Tail(s))
    <3> SUFFICES ASSUME NEW i \in 1 .. Len(Tail(s)) - 1, Tail(s)[i + 1].kind = "sync"
                 PROVE  Tail(s)[i].kind = "clear"
      BY DEF Alternates
    <3>1. i + 1 \in 1 .. Len(s) - 1 /\ Tail(s)[i] = s[i + 1] /\ Tail(s)[i + 1] = s[(i + 1) + 1]
      BY <1>1, <2>1, TailFacts
    <3> QED
      BY <3>1 DEF Order, Alternates
  <2>3. Tail(s) # <<>> /\ Tail(s)[1].kind = "sync" => Head(s).kind = "clear"
    <3>1. Tail(s) # <<>> => 1 \in 1 .. Len(s) - 1 /\ Tail(s)[1] = s[1 + 1] /\ Head(s) = s[1]
      BY <1>1, <2>1, TailFacts
    <3> QED
      BY <3>1 DEF Order, Alternates
  <2>4. Head(s).kind = "sync" => Free
    BY <1>1, <2>1, TailFacts DEF Order, Cut, Applying
  <2>5. Stage' = "clear" /\ Tail(s) = <<>> => Head(s).kind = "clear"
    BY <1>1, <2>1, TailFacts DEF Stage
  <2>6. Alternates(stream["ctx"])'
    BY <2>1, <2>2 DEF Alternates
  <2> QED
    BY <2>1, <2>3, <2>4, <2>5, <2>6 DEF Order, Cut, Applying, Free
<1>6. CASE HandleContext
  <2>1. UNCHANGED <<stream, hostPhase>> /\ job["ctx"].pc = "apply" /\ job'["ctx"].pc # "apply"
    BY <1>6, HandledFacts
  <2>2. \/ Applying("ctx", "clear") /\ label' = NoLabel
        \/ Applying("ctx", "sync")
    BY <1>6 DEF HandleContext, ClearActiveContext, SetActiveContextUnchanged, SetActiveContext,
           SetActiveContextFails
  <2>3. CASE label' = NoLabel
    BY <2>1, <2>3 DEF Order, Alternates, Cut, Applying, Free, Stage
  <2>4. CASE Applying("ctx", "sync")
    <3>1. ~Cut
      BY <2>1, <2>4 DEF Cut, Applying
    <3> QED
      BY <2>1, <3>1 DEF Order, Alternates, Applying, Stage
  <2> QED
    BY <2>2, <2>3, <2>4
<1>7. ASSUME NEW m \in S, last'["ctx"] = m, Stage' = m.kind, m.kind = "sync" => Stage = "clear",
             stream'["ctx"] = IF subscribed["ctx"] THEN Append(s, m) ELSE s,
             UNCHANGED <<subscribed, job, origin, label>>
      PROVE  Order'
  <2>1. (Cut <=> Cut') /\ (Applying("ctx", "sync") <=> Applying("ctx", "sync")') /\ (Free <=> Free')
    BY <1>7 DEF Cut, Applying, Free
  <2>2. CASE ~subscribed["ctx"]
    <3>1. stream'["ctx"] = s /\ s = <<>> /\ Free /\ Cut
      BY <1>1, <1>7, <2>2 DEF Startup, Cut, Free
    <3> QED
      BY <2>1, <3>1 DEF Order, Alternates
  <2>3. CASE subscribed["ctx"]
    <3>1. stream'["ctx"] = Append(s, m) /\ Append(s, m) # <<>>
      BY <1>1, <1>7, <2>3, AppendFacts
    <3>2. Alternates(Append(s, m))
      <4> SUFFICES ASSUME NEW i \in 1 .. Len(Append(s, m)) - 1, Append(s, m)[i + 1].kind = "sync"
                   PROVE  Append(s, m)[i].kind = "clear"
        BY DEF Alternates
      <4>1. i \in 1 .. Len(s) /\ Len(s) \in Nat /\ s # <<>> /\ Append(s, m)[i] = s[i]
        BY <1>1, AppendFacts
      <4>2. CASE i = Len(s)
        BY <1>1, <1>7, <4>1, <4>2, AppendFacts
      <4>3. CASE i # Len(s)
        <5>1. i \in 1 .. Len(s) - 1 /\ Append(s, m)[i + 1] = s[i + 1]
          BY <1>1, <4>1, <4>3, AppendFacts
        <5> QED
          BY <4>1, <5>1 DEF Order, Alternates
      <4> QED
        BY <4>2, <4>3
    <3>3. Append(s, m)[1].kind = "sync" => Cut
      <4>1. CASE s = <<>>
        BY <1>1, <1>7, <4>1, AppendFacts DEF Order
      <4>2. CASE s # <<>>
        <5>1. Append(s, m)[1] = s[1]
          BY <1>1, <4>2, AppendFacts
        <5> QED
          BY <4>2, <5>1 DEF Order
      <4> QED
        BY <4>1, <4>2
    <3>4. Alternates(stream["ctx"])'
      BY <3>1, <3>2 DEF Alternates
    <3> QED
      BY <2>1, <3>1, <3>3, <3>4 DEF Order
  <2> QED
    BY <1>1, <2>2, <2>3
<1>8. CASE HostClear
  <2>1. epoch + 1 \in Epochs
    BY <1>8, SwitchAssumption DEF HostClear, Typed, ScalarsOK, Epochs
  <2>2. Clear(epoch + 1) \in S /\ Clear(epoch + 1).kind = "clear"
    BY <1>1, <2>1, MsgFacts DEF Clear
  <2>3. Stage' = "clear"
    BY <1>8 DEF HostClear, Stage
  <2> QED
    BY <1>1, <1>7, <1>8, <2>2, <2>3 DEF HostClear, Publish, providerVars
<1>9. ASSUME NEW t \in Targets, NEW f \in Filters, HostSync(t, f) PROVE Order'
  <2>1. Sync(epoch, t) \in S /\ Sync(epoch, t).kind = "sync"
    <3>1. epoch \in Epochs
      BY DEF Typed, ScalarsOK
    <3> QED
      BY <1>1, <3>1, MsgFacts DEF Sync
  <2>2. Stage = "clear" /\ Stage' = "sync"
    BY <1>9 DEF HostSync, Stage
  <2> QED
    BY <1>1, <1>7, <1>9, <2>1, <2>2 DEF HostSync, Publish, providerVars
<1> QED
  BY <1>2, <1>3, <1>4, <1>5, <1>6, <1>8, <1>9, CtxCases

-----------------------------------------------------------------------------
(* What the last message of a drained topic left behind.                   *)

\* A publication, or a new subscription, leaves a topic something to do.
LEMMA Unsettles ==
    ASSUME Typed, Flow, NEW top \in Topics,
           \/ Subscribe(top) \/ Receive(top)
           \/ HostClear \/ \E t \in Targets, f \in Filters : HostSync(t, f)
    PROVE  ~Settled(top)'
<1>1. /\ stream[top] \in Seq(Msgs(top)) /\ DOMAIN stream = Topics /\ DOMAIN job = Topics
      /\ subscribed \in [Topics -> BOOLEAN]
  BY StreamFacts
<1>2. CASE Subscribe(top)
  BY <1>1, <1>2 DEF Subscribe, Settled, hostVars
<1>3. CASE Receive(top)
  BY <1>1, <1>3 DEF Receive, Settled
<1>4. ASSUME NEW m, stream'[top] = IF subscribed[top] THEN Append(stream[top], m) ELSE stream[top],
             UNCHANGED subscribed
      PROVE  ~Settled(top)'
  <2>1. Append(stream[top], m) # <<>>
    BY <1>1
  <2> QED
    BY <1>4, <2>1 DEF Settled
<1>5. CASE HostClear \/ \E t \in Targets, f \in Filters : HostSync(t, f)
  BY <1>4, <1>5 DEF HostClear, HostSync, Publish
<1> QED
  BY <1>2, <1>3, <1>5

\* A drained context topic left the provider as its last message says.
LEMMA CtxAppliedNext ==
    ASSUME Typed, Flow, Startup, ActiveIsLoaded, Order, CtxApplied, [Next]_vars
    PROVE  CtxApplied'
<1>1. /\ "ctx" \in Topics /\ DOMAIN job = Topics /\ attempt \in [Topics -> [epoch : Epochs, ok : BOOLEAN]]
      /\ job["ctx"].pc # "idle" /\ stream["ctx"] = <<>> => job["ctx"].msg = last["ctx"]
  BY StreamFacts DEF Topics, Typed, ScalarsOK
<1>2. CASE CtxRests
  <2>1. UNCHANGED <<last, client, label, origin>> /\ attempt'["ctx"] = attempt["ctx"]
        /\ (Settled("ctx")' => Settled("ctx"))
    BY <1>2 DEF CtxRests, Rests, Settled
  <2> QED
    BY <2>1 DEF CtxApplied, Free
<1>3. CASE BuildSeeded
  BY <1>1, <1>3 DEF BuildSeeded, Startup, CtxApplied, Settled, streamVars
<1>4. CASE \/ Subscribe("ctx") \/ Receive("ctx")
           \/ HostClear \/ \E t \in Targets, f \in Filters : HostSync(t, f)
  BY <1>1, <1>4, Unsettles DEF CtxApplied
<1>5. CASE HandleContext
  <2>1. UNCHANGED <<last, stream>> /\ job["ctx"].pc = "apply"
        /\ (Settled("ctx")' => job["ctx"].msg = last["ctx"])
    BY <1>1, <1>5, HandledFacts DEF Settled
  <2>2. CASE ClearActiveContext
    BY <2>1, <2>2 DEF ClearActiveContext, Applying, CtxApplied
  <2>3. CASE SetActiveContextUnchanged
    <3>1. client = job["ctx"].msg.value /\ label = client.ctx
      <4>1. job["ctx"].msg.value \in [ctx : Labels, path : Paths]
        <5>1. job["ctx"].msg \in Msgs("ctx") /\ job["ctx"].msg.kind = "sync"
          BY <2>3, TopicFacts, <1>1 DEF SetActiveContextUnchanged, Applying
        <5> QED
          BY <1>1, <5>1, MsgFacts, TargetsAssumption
      <4> QED
        BY <2>3, <4>1, NullsAssumption DEF SetActiveContextUnchanged, Unchanged, ActiveIsLoaded
    <3>2. UNCHANGED <<client, label>> /\ attempt'["ctx"].ok /\ job["ctx"].msg.kind = "sync"
      BY <1>1, <2>3 DEF SetActiveContextUnchanged, Attempted, Applying
    <3> QED
      BY <2>1, <3>1, <3>2 DEF CtxApplied
  <2>4. CASE SetActiveContext
    BY <1>1, <2>1, <2>4 DEF SetActiveContext, Attempted, Applying, CtxApplied
  <2>5. CASE SetActiveContextFails
    <3>1. Free /\ UNCHANGED <<origin, label>> /\ ~attempt'["ctx"].ok /\ job["ctx"].msg.kind = "sync"
      BY <1>1, <2>5 DEF SetActiveContextFails, Attempted, Applying, Order
    <3> QED
      BY <2>1, <3>1 DEF CtxApplied, Free
  <2> QED
    BY <1>5, <2>2, <2>3, <2>4, <2>5 DEF HandleContext
<1> QED
  BY <1>2, <1>3, <1>4, <1>5, CtxCases

\* A drained namespaces topic left its last filter, or none.
LEMMA NsAppliedNext ==
    ASSUME Typed, Flow, NsApplied, [Next]_vars
    PROVE  NsApplied'
<1>1. /\ "ns" \in Topics
      /\ job["ns"].pc # "idle" /\ stream["ns"] = <<>> => job["ns"].msg = last["ns"]
  BY StreamFacts DEF Topics
<1>2. CASE NsRests
  BY <1>2 DEF NsRests, Rests, Settled, NsApplied
<1>3. CASE \/ Subscribe("ns") \/ Receive("ns")
           \/ HostClear \/ \E t \in Targets, f \in Filters : HostSync(t, f)
  BY <1>1, <1>3, Unsettles DEF NsApplied
<1>4. CASE HandleNamespaces
  <2>1. UNCHANGED <<last, stream>> /\ job["ns"].pc = "apply"
        /\ (Settled("ns")' => job["ns"].msg = last["ns"])
    BY <1>1, <1>4, HandledFacts DEF Settled
  <2> QED
    BY <1>4, <2>1 DEF HandleNamespaces, ClearActiveNamespaces, SetActiveNamespaces, Applying, NsApplied
<1> QED
  BY <1>2, <1>3, <1>4, NsCases

-----------------------------------------------------------------------------
\* Who may change the host's phase and switch number.
LEMMA HostSide ==
    ASSUME [Next]_vars
    PROVE  \/ UNCHANGED <<hostPhase, epoch, late>> /\ acks \subseteq acks'
           \/ HostClear
           \/ \E t \in Targets, f \in Filters : HostSync(t, f)
           \/ HostAcked \/ HostTimesOut
<1>1. CASE Boot \/ UNCHANGED vars
  BY <1>1 DEF Boot, BuildUnseeded, BuildSeeded, BuildFails, WaitForContext, WaitForNamespaces,
       WaitStep, WaitTimesOut, vars, hostVars
<1>2. CASE HandleContext \/ HandleNamespaces
  BY <1>2 DEF HandleContext, ClearActiveContext, SetActiveContextUnchanged, SetActiveContext,
       SetActiveContextFails, HandleNamespaces, ClearActiveNamespaces, SetActiveNamespaces, hostVars
<1>3. ASSUME NEW top \in Topics, Subscribe(top) \/ Receive(top) \/ MarkSynced(top) \/ MaybeAck(top)
      PROVE  UNCHANGED <<hostPhase, epoch, late>> /\ acks \subseteq acks'
  BY <1>3 DEF Subscribe, Receive, MarkSynced, MaybeAck, hostVars
<1> QED
  BY <1>1, <1>2, <1>3 DEF Next, Handle, Host

\* Once both topics acked the clear, nothing of the old cluster is left.
LEMMA AckedIsClear ==
    ASSUME Typed, Flow, Startup, CtxApplied, NsApplied, Stage = "clear", Acked("clear")
    PROVE  /\ \A top \in Topics : stream[top] = <<>> /\ job[top].pc = "idle" /\ subscribed[top]
           /\ label = NoLabel /\ namespaces = {}
<1>1. epoch \in Epochs /\ epoch \in Nat
  BY SwitchAssumption DEF Typed, ScalarsOK, Epochs
<1>2. ASSUME NEW top \in Topics
      PROVE  /\ stream[top] = <<>> /\ job[top].pc = "idle"
             /\ subscribed[top] /\ last[top] # Nil /\ last[top].kind = "clear"
  <2>1. <<top, "clear", epoch>> \in acks
    BY DEF Acked
  <2>2. /\ subscribed[top] /\ last[top] # Nil /\ last[top].epoch = epoch /\ last[top].kind = "clear"
        /\ Before("clear", epoch, last[top]) \/ Drained(stream[top], job[top])
    BY <1>1, <2>1 DEF Flow, FlowOf, AckedOf, LastOf
  <2> QED
    BY <1>1, <2>2 DEF Before, Drained
<1>3. "ctx" \in Topics /\ "ns" \in Topics
  BY DEF Topics
<1>4. Settled("ctx") /\ Settled("ns")
  BY <1>2, <1>3 DEF Settled
<1> QED
  BY <1>2, <1>3, <1>4 DEF CtxApplied, NsApplied

\* A step other than the host's sync keeps the syncs on a topic's way.
LEMMA SyncsKept ==
    ASSUME Typed, Flow, NEW top \in Topics, SyncsOf(stream[top], job[top], InForce),
           \/ Rests(top) \/ Subscribe(top) \/ Receive(top) \/ HostClear
           \/ UNCHANGED <<last, stream, hostPhase, epoch>> /\ job'[top].pc # "apply"
    PROVE  SyncsOf(stream[top], job[top], InForce)' /\ InForce' = InForce
<1> DEFINE s == stream[top]
<1>1. /\ s \in Seq(Msgs(top)) /\ last[top] \in Msgs(top) \cup {Nil}
      /\ DOMAIN stream = Topics /\ DOMAIN job = Topics
      /\ last[top] # Nil => last[top].epoch = epoch /\ last[top].kind = Stage
      /\ epoch \in Nat
  BY StreamFacts, TopicFacts
<1>2. CASE Rests(top)
  <2>1. InForce' = InForce
    BY <1>2 DEF Rests, InForce
  <2> QED
    BY <1>2, <2>1 DEF Rests, SyncsOf
<1>3. CASE Subscribe(top)
  <2>1. UNCHANGED <<hostPhase, epoch, job>> /\ stream'[top] \in {<<>>, <<last[top]>>}
        /\ (stream'[top] = <<last[top]>> => last[top] # Nil \/ stream'[top] = <<>>)
    BY <1>1, <1>3 DEF Subscribe, hostVars
  <2>2. InForce' = InForce
    BY <2>1 DEF InForce, Stage
  <2>3. last[top] # Nil /\ last[top].kind = "sync" => last[top].epoch = InForce
    BY <1>1 DEF InForce
  <2> QED
    BY <2>1, <2>2, <2>3 DEF SyncsOf
<1>4. CASE Receive(top)
  <2>1. /\ s # <<>> /\ stream'[top] = Tail(s) /\ UNCHANGED <<hostPhase, epoch>>
        /\ job'[top] = [pc |-> "apply", msg |-> Head(s)]
    BY <1>1, <1>4 DEF Receive, hostVars
  <2>2. InForce' = InForce
    BY <2>1 DEF InForce, Stage
  <2>3. \A i \in 1 .. Len(Tail(s)) : Tail(s)[i].kind = "sync" => Tail(s)[i].epoch = InForce
    <3> TAKE i \in 1 .. Len(Tail(s))
    <3>1. i + 1 \in 1 .. Len(s) /\ Tail(s)[i] = s[i + 1]
      BY <1>1, <2>1, TailFacts
    <3> QED
      BY <3>1 DEF SyncsOf
  <2>4. Head(s).kind = "sync" => Head(s).epoch = InForce
    BY <1>1, <2>1, TailFacts DEF SyncsOf
  <2>5. SyncsOf(Tail(s), [pc |-> "apply", msg |-> Head(s)], InForce)
    BY <2>3, <2>4 DEF SyncsOf
  <2> QED
    BY <2>1, <2>2, <2>5 DEF SyncsOf
<1>5. CASE HostClear
  <2> DEFINE m == Clear(epoch + 1)
  <2>1. /\ stream'[top] = IF subscribed[top] THEN Append(s, m) ELSE s
        /\ UNCHANGED job /\ epoch' = epoch + 1 /\ Stage = "sync" /\ Stage' = "clear"
    BY <1>5 DEF HostClear, Publish, Stage
  <2>2. InForce' = InForce
    BY <1>1, <2>1 DEF InForce
  <2>3. m \in Msgs(top) /\ m.kind # "sync"
    <3>1. epoch + 1 \in Epochs
      BY <1>1, <1>5, SwitchAssumption DEF HostClear, Epochs
    <3> QED
      BY <3>1, MsgFacts DEF Clear
  <2>4. SyncsOf(Append(s, m), job[top], InForce)
    BY <1>1, <2>3, AppendFacts DEF SyncsOf
  <2> QED
    BY <2>1, <2>2, <2>4 DEF SyncsOf
<1>6. CASE UNCHANGED <<last, stream, hostPhase, epoch>> /\ job'[top].pc # "apply"
  BY <1>6 DEF SyncsOf, InForce, Stage
<1> QED
  BY <1>2, <1>3, <1>4, <1>5, <1>6

\* With acks in time no sync of an old switch outlives its clear.
LEMMA InTimeNext ==
    ASSUME Typed, Flow, Startup, Order, CtxApplied, NsApplied, InTime, [Next]_vars
    PROVE  InTime'
<1> SUFFICES ASSUME ~late' PROVE InTime'
  BY DEF InTime
<1>1. /\ "ctx" \in Topics /\ "ns" \in Topics /\ Topics = {"ctx", "ns"}
      /\ DOMAIN job = Topics /\ attempt \in [Topics -> [epoch : Epochs, ok : BOOLEAN]]
      /\ \A top \in Topics : job[top].pc # "idle" => job[top].msg \in Msgs(top)
  BY TopicFacts DEF Topics, Typed, ScalarsOK
<1>2. ~late
  BY HostSide DEF HostClear, HostSync, HostAcked, HostTimesOut, HostProceeds
<1>3. /\ hostPhase = "resolving" => Acked("clear")
      /\ \A top \in Topics : SyncsOf(stream[top], job[top], InForce)
      /\ ~Free => attempt["ctx"].epoch = InForce
      /\ namespaces # {} => attempt["ns"].epoch = InForce
  BY <1>2 DEF InTime
<1>4. hostPhase' = "resolving" => Acked("clear")'
  <2>1. CASE HostClear \/ \E t \in Targets, f \in Filters : HostSync(t, f)
    BY <2>1 DEF HostClear, HostSync
  <2>2. CASE UNCHANGED <<hostPhase, epoch, late>> /\ acks \subseteq acks'
    BY <1>3, <2>2 DEF Acked
  <2>3. CASE HostAcked \/ HostTimesOut
    BY <2>3 DEF HostAcked, HostTimesOut, HostProceeds, Acked
  <2> QED
    BY <2>1, <2>2, <2>3, HostSide
<1>5. ASSUME NEW t \in Targets, NEW f \in Filters, HostSync(t, f) PROVE InTime'
  <2>1. Stage = "clear" /\ Acked("clear") /\ Stage' = "sync" /\ epoch' = epoch
    BY <1>3, <1>5 DEF HostSync, Stage
  <2>2. /\ \A top \in Topics : stream[top] = <<>> /\ job[top].pc = "idle" /\ subscribed[top]
        /\ label = NoLabel /\ namespaces = {}
    BY <2>1, AckedIsClear
  <2>3. UNCHANGED <<label, namespaces, origin, job>>
    BY <1>5 DEF HostSync, providerVars
  <2>4. InForce' = epoch
    BY <2>1 DEF InForce
  <2>5. ASSUME NEW top \in Topics PROVE SyncsOf(stream[top], job[top], InForce)'
    <3> DEFINE m == Sync(epoch, IF top = "ctx" THEN t ELSE f)
    <3>1. m.epoch = epoch /\ job'[top].pc = "idle"
      BY <2>2, <2>3 DEF Sync
    <3>2. stream'[top] = Append(<<>>, m)
      BY <1>5, <2>2 DEF HostSync, Publish
    <3>3. Append(<<>>, m) = <<m>>
      OBVIOUS
    <3> HIDE DEF m
    <3>4. SyncsOf(<<m>>, job'[top], epoch)
      BY <3>1 DEF SyncsOf
    <3> QED
      BY <2>4, <3>2, <3>3, <3>4 DEF SyncsOf
  <2> QED
    BY <1>4, <2>2, <2>3, <2>5 DEF InTime, Free
<1>6. CASE ~\E t \in Targets, f \in Filters : HostSync(t, f)
  <2>1. SyncsOf(stream["ctx"], job["ctx"], InForce)' /\ InForce' = InForce
    <3>1. CASE BuildSeeded
      BY <1>1, <1>3, <3>1, SyncsKept DEF BuildSeeded, streamVars, hostVars, Rests, Stage
    <3>2. CASE HandleContext
      BY <1>1, <1>3, <3>2, SyncsKept, HandledFacts
    <3> QED
      BY <1>1, <1>3, <1>6, <3>1, <3>2, CtxCases, SyncsKept DEF CtxRests
  <2>2. SyncsOf(stream["ns"], job["ns"], InForce)'
    <3>1. CASE HandleNamespaces
      BY <1>1, <1>3, <3>1, SyncsKept, HandledFacts
    <3> QED
      BY <1>1, <1>3, <1>6, <3>1, NsCases, SyncsKept DEF NsRests
  <2>3. ~Free' => attempt'["ctx"].epoch = InForce
    <3>1. CASE \/ CtxRests \/ Subscribe("ctx") \/ Receive("ctx") \/ HostClear
      BY <1>3, <3>1 DEF CtxRests, Subscribe, Receive, HostClear, providerVars, Free
    <3>2. CASE BuildSeeded
      BY <3>2 DEF BuildSeeded, Free
    <3>3. CASE ClearActiveContext
      BY <3>3 DEF ClearActiveContext, Free
    <3>4. CASE SetActiveContextUnchanged \/ SetActiveContext
      <4>1. Applying("ctx", "sync") /\ attempt'["ctx"].epoch = job["ctx"].msg.epoch
        BY <1>1, <3>4 DEF SetActiveContextUnchanged, SetActiveContext, Attempted
      <4> QED
        BY <1>1, <1>3, <4>1 DEF Applying, SyncsOf
    <3>5. CASE SetActiveContextFails
      BY <3>5 DEF SetActiveContextFails, Order, Free
    <3> QED
      BY <1>6, <3>1, <3>2, <3>3, <3>4, <3>5, CtxCases DEF HandleContext
  <2>4. namespaces' # {} => attempt'["ns"].epoch = InForce
    <3>1. CASE \/ NsRests \/ Subscribe("ns") \/ Receive("ns") \/ HostClear
      BY <1>3, <3>1 DEF NsRests, Subscribe, Receive, HostClear, providerVars
    <3>2. CASE ClearActiveNamespaces
      BY <3>2 DEF ClearActiveNamespaces
    <3>3. CASE SetActiveNamespaces
      <4>1. Applying("ns", "sync") /\ attempt'["ns"].epoch = job["ns"].msg.epoch
        BY <1>1, <3>3 DEF SetActiveNamespaces, Attempted
      <4> QED
        BY <1>1, <1>3, <4>1 DEF Applying, SyncsOf
    <3> QED
      BY <1>6, <3>1, <3>2, <3>3, NsCases DEF HandleNamespaces
  <2> QED
    BY <1>1, <1>4, <2>1, <2>2, <2>3, <2>4 DEF InTime
<1> QED
  BY <1>5, <1>6

-----------------------------------------------------------------------------
\* Clears and syncs go to both topics at once.
LEMMA BothPublishedNext ==
    ASSUME Typed, Typed', BothPublished, [Next]_vars
    PROVE  BothPublished'
<1>1. CASE CtxRests \/ BuildSeeded \/ Subscribe("ctx") \/ Receive("ctx") \/ HandleContext
  <2>1. UNCHANGED last
    BY <1>1, HandledFacts DEF CtxRests, Rests, BuildSeeded, Subscribe, Receive, hostVars
  <2> QED
    BY <2>1 DEF BothPublished
<1>2. CASE HostClear \/ \E t \in Targets, f \in Filters : HostSync(t, f)
  <2>1. "ctx" \in Topics /\ "ns" \in Topics /\ epoch \in Epochs /\ epoch' \in Epochs
    BY DEF Topics, Typed, ScalarsOK
  <2>2. ASSUME NEW top \in Topics PROVE last'[top] \in Msgs(top) /\ Nil \notin Msgs(top)
    BY <1>2, <2>1, MsgFacts, NullsAssumption DEF HostClear, HostSync, Publish, Msgs
  <2> QED
    BY <2>1, <2>2 DEF BothPublished
<1> QED
  BY <1>1, <1>2, CtxCases

-----------------------------------------------------------------------------
(* The inductive invariant on top of the types and the streams' order.     *)
ProviderInv ==
    /\ ActiveIsLoaded /\ Startup /\ GuessWaits /\ BothPublished
    /\ Order /\ CtxApplied /\ NsApplied /\ InTime

\* The provider starts with nothing bound, synced or on its way.
LEMMA InvInit == Init => ProviderInv
<1> SUFFICES ASSUME Init PROVE ProviderInv
  OBVIOUS
<1>1. /\ client = Nil /\ label = NoLabel /\ namespaces = {} /\ boot = "start" /\ origin = "none"
      /\ hostPhase = "idle"
      /\ \A top \in Topics : /\ ~synced[top] /\ ~subscribed[top] /\ stream[top] = <<>>
                             /\ job[top].pc = "idle"
  BY DEF Init, Idle
<1>2. "ctx" \in Topics /\ "ns" \in Topics
  BY DEF Topics
<1>3. ActiveIsLoaded /\ Startup /\ GuessWaits
  BY <1>1, <1>2 DEF ActiveIsLoaded, Startup, GuessWaits
<1>7. BothPublished
  <2>1. ASSUME NEW top \in Topics, NEW t \in Targets, NEW f \in Filters
        PROVE  Sync(0, IF top = "ctx" THEN t ELSE f) # Nil
    <3>1. 0 \in Epochs
      BY SwitchAssumption DEF Epochs
    <3>2. Sync(0, IF top = "ctx" THEN t ELSE f) \in Msgs(top)
      BY <3>1, MsgFacts
    <3> QED
      BY <3>2, NullsAssumption DEF Msgs
  <2> QED
    BY <1>2, <2>1 DEF Init, BothPublished
<1>4. Order
  BY <1>1, <1>2 DEF Order, Alternates, Cut, Applying, Free
<1>5. CtxApplied /\ NsApplied
  BY <1>1, <1>2 DEF CtxApplied, NsApplied, Settled
<1>6. InTime
  BY <1>1, <1>2 DEF InTime, SyncsOf, Free
<1> QED
  BY <1>3, <1>4, <1>5, <1>6, <1>7 DEF ProviderInv

\* The invariant is inductive relative to types and stream order.
LEMMA InvNext == Typed /\ Flow /\ ProviderInv /\ [Next]_vars => ProviderInv'
BY TypesNext, BothPublishedNext, LoadedNext, StartupNext, GuessNext, OrderNext, CtxAppliedNext, NsAppliedNext, InTimeNext
   DEF ProviderInv

\* What the theorems below rest on.
LEMMA InvAlways == Spec => [](Typed /\ Flow /\ ProviderInv)
<1>1. Init => Typed /\ Flow /\ ProviderInv
  BY TypesInit, FlowInit, InvInit
<1>2. Typed /\ Flow /\ ProviderInv /\ [Next]_vars => (Typed /\ Flow /\ ProviderInv)'
  BY TypesNext, FlowNext, InvNext
<1> QED
  BY <1>1, <1>2, PTL DEF Spec

-----------------------------------------------------------------------------
\* What business calls are served is one cluster as the host published it:
\* label, path and client belong together, the guess is served only after a
\* time-out or a failed load, and the filter is of the cluster's own switch.
THEOREM ServedAsPublishedThm == Spec => []ServedAsPublished
<1>1. ASSUME Typed, ProviderInv PROVE GuessServedOnlyOnFault
  BY <1>1 DEF ProviderInv, GuessWaits, GuessServedOnlyOnFault
<1>2. ASSUME ProviderInv PROVE FilterOfSameCluster
  BY <1>2 DEF ProviderInv, InTime, Free, FilterOfSameCluster
<1>3. Typed /\ Flow /\ ProviderInv => ServedAsPublished
  BY <1>1, <1>2 DEF ProviderInv, ServedAsPublished
<1> QED
  BY <1>3, InvAlways, PTL

\* Between the acks of both clears and the new cluster nothing of the old
\* one is visible: no label, and the namespace filter is cluster-wide.
THEOREM ClearWindowThm == Spec => []ClearWindow
<1>1. Typed /\ Flow /\ ProviderInv => ClearWindow
  BY AckedIsClear DEF ProviderInv, ClearWindow, Stage
<1> QED
  BY <1>1, InvAlways, PTL

\* With the streams drained the provider follows the host's last word,
\* whatever time-outs and failed loads the switches before it met.
THEOREM QuietAgreesWithHostThm == Spec => []QuietAgreesWithHost
<1>1. ASSUME Typed, Flow, ProviderInv, Quiet, last["ctx"] # Nil
      PROVE  /\ namespaces = last["ns"].value
             /\ IF attempt["ctx"].ok
                  THEN client = last["ctx"].value /\ label = client.ctx
                  ELSE label = NoLabel \/ origin = "guess"
  <2>1. "ctx" \in Topics /\ "ns" \in Topics /\ Stage = "sync"
    BY <1>1 DEF Topics, Quiet, Stage
  <2>2. /\ last["ctx"].kind = "sync"
        /\ last["ns"] # Nil /\ last["ns"].kind = "sync"
    <3>1. last["ns"] # Nil
      BY <1>1 DEF ProviderInv, BothPublished
    <3> QED
      BY <1>1, <2>1, <3>1, StreamFacts
  <2>3. Settled("ctx") /\ Settled("ns")
    BY <1>1, <2>1, <2>2 DEF Settled, Quiet, Idle
  <2>4. origin \in {"none", "guess", "host"} /\ (origin = "none" => label = NoLabel)
    BY <1>1 DEF Typed, ScalarsOK, ProviderInv, Startup
  <2> QED
    BY <1>1, <2>2, <2>3, <2>4 DEF ProviderInv, CtxApplied, NsApplied, Free
<1>2. Typed /\ Flow /\ ProviderInv => QuietAgreesWithHost
  BY <1>1 DEF QuietAgreesWithHost
<1> QED
  BY <1>2, InvAlways, PTL

-----------------------------------------------------------------------------
\* The provider implements ActiveCluster: start-up is Open or Seed, a clear
\* is Withdraw or Select({}), an applied sync is Follow or Select, and all
\* other steps leave what readers see unchanged.
LEMMA ActiveStep ==
    ASSUME Typed, Flow, ProviderInv, [Next]_vars
    PROVE  [Active!ActiveNext]_(Active!activeVars)
<1>1. /\ "ctx" \in Topics /\ "ns" \in Topics
      /\ job["ctx"].pc # "idle" => job["ctx"].msg \in Msgs("ctx")
      /\ job["ns"].pc # "idle" => job["ns"].msg \in Msgs("ns")
  BY TopicFacts DEF Topics
<1>2. ASSUME UNCHANGED <<client, label, path, namespaces, origin, boot>>
      PROVE  UNCHANGED Active!activeVars
  BY <1>2 DEF Active!activeVars
<1>3. CASE Boot
  <2>1. CASE BuildSeeded
    <3>1. PICK guess \in Labels : client' = [ctx |-> guess, path |-> kube] /\ label' = guess
      BY <2>1 DEF BuildSeeded
    <3> DEFINE t == [ctx |-> guess, path |-> kube]
    <3>2. t \in Active!Clusters /\ client = Nil /\ origin = "none"
      BY <2>1 DEF BuildSeeded, Typed, ScalarsOK, ProviderInv, Startup, Active!Clusters
    <3>3. Active!Seed(t)
      BY <2>1, <3>1, <3>2 DEF BuildSeeded, Active!Seed, Active!Install
    <3> QED
      BY <3>2, <3>3 DEF Active!ActiveNext
  <2>2. CASE BuildUnseeded \/ BuildFails \/ WaitForContext \/ WaitForNamespaces \/ WaitTimesOut
    <3>1. UNCHANGED <<client, label, path, namespaces, origin>> /\ boot # "serving"
      BY <2>2 DEF BuildUnseeded, BuildFails, WaitForContext, WaitForNamespaces, WaitStep,
             WaitTimesOut, providerVars
    <3> QED
      BY <3>1 DEF Active!ActiveNext, Active!Open, Active!activeVars
  <2> QED
    BY <1>3, <2>1, <2>2 DEF Boot
<1>4. CASE HandleContext
  <2>1. UNCHANGED <<boot, namespaces>>
    BY <1>4, HandledFacts DEF HandleContext, ClearActiveContext, SetActiveContextUnchanged,
           SetActiveContext, SetActiveContextFails
  <2>2. CASE ClearActiveContext
    <3>1. Active!Withdraw
      BY <2>1, <2>2 DEF ClearActiveContext, Active!Withdraw
    <3> QED
      BY <3>1 DEF Active!ActiveNext
  <2>3. CASE SetActiveContextUnchanged \/ SetActiveContext
    <3> DEFINE t == job["ctx"].msg.value
    <3>1. t \in [ctx : Labels, path : Paths] /\ t \in Active!Clusters
      BY <1>1, <2>3, MsgFacts, TargetsAssumption
         DEF SetActiveContextUnchanged, SetActiveContext, Applying, Active!Clusters
    <3>2. client' = t /\ label' = t.ctx /\ path' = t.path /\ origin' = "host"
      BY <2>3, <3>1, NullsAssumption DEF SetActiveContextUnchanged, SetActiveContext, Unchanged,
             ProviderInv, ActiveIsLoaded
    <3>3. origin = "host" => label = NoLabel
      BY <2>3 DEF SetActiveContextUnchanged, SetActiveContext, ProviderInv, Order, Free
    <3>4. Active!Follow(t)
      BY <2>1, <3>2, <3>3 DEF Active!Follow, Active!Install
    <3> QED
      BY <3>1, <3>4 DEF Active!ActiveNext
  <2>4. CASE SetActiveContextFails
    BY <1>2, <2>1, <2>4 DEF SetActiveContextFails
  <2> QED
    BY <1>4, <2>2, <2>3, <2>4 DEF HandleContext
<1>5. CASE HandleNamespaces
  <2>1. UNCHANGED <<boot, client, label, path, origin>>
    BY <1>5, HandledFacts DEF HandleNamespaces, ClearActiveNamespaces, SetActiveNamespaces
  <2>2. namespaces' \in SUBSET Namespaces
    <3>1. CASE SetActiveNamespaces
      <4>1. job["ns"].msg \in Msgs("ns") /\ job["ns"].msg.kind = "sync"
        BY <1>1, <3>1 DEF SetActiveNamespaces, Applying
      <4>2. job["ns"].msg.value \in Filters
        BY <1>1, <4>1, MsgFacts
      <4> QED
        BY <3>1, <4>2, FiltersAssumption DEF SetActiveNamespaces
    <3> QED
      BY <1>5, <3>1 DEF HandleNamespaces, ClearActiveNamespaces
  <2> QED
    BY <2>1, <2>2 DEF Active!ActiveNext, Active!Select
<1>6. ASSUME NEW top \in Topics, Subscribe(top) \/ Receive(top) \/ MarkSynced(top) \/ MaybeAck(top)
      PROVE  UNCHANGED Active!activeVars
  BY <1>2, <1>6 DEF Subscribe, Receive, MarkSynced, MaybeAck, providerVars, bootVars
<1>7. CASE Host \/ UNCHANGED vars
  BY <1>2, <1>7 DEF Host, HostClear, HostSync, HostAcked, HostTimesOut, HostProceeds, vars,
         providerVars, bootVars
<1> QED
  BY <1>3, <1>4, <1>5, <1>6, <1>7 DEF Next, Handle

\* For every instance the provider, with its streams, acks, time-outs and
\* failed loads, is an implementation of the abstract active cluster.
THEOREM ImplementsActiveClusterThm == Spec => ImplementsActiveCluster
<1>1. Init => Active!ActiveInit
  BY DEF Init, Active!ActiveInit
<1>2. Typed /\ Flow /\ ProviderInv /\ [Next]_vars => [Active!ActiveNext]_(Active!activeVars)
  BY ActiveStep
<1> QED
  BY <1>1, <1>2, InvAlways, PTL DEF Spec, ImplementsActiveCluster, Active!ActiveSpec

=============================================================================
