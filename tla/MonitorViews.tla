---------------------------- MODULE MonitorViews ----------------------------
(***************************************************************************)
(* What the resources monitor does with its settings once they are saved:  *)
(* the sampling loop with its ticker, the samples on their way to the      *)
(* footer widget, and the order list whose drags make new settings. How a  *)
(* save gets to the file and the ticker is in MonitorSettings; here it is  *)
(* one step of the backend, between the click and the reply. Time is in    *)
(* units longer than the 50 ms the loop allows for delays, so a tick is    *)
(* handled on time or late by whole units.                                 *)
(***************************************************************************)
EXTENDS Naturals, SequencesExt

CONSTANTS
    SampleIntervals, \* sampling intervals, in units
    Metrics,         \* known metric classes
    Absent,
    Asked,
    FirstOrder,      \* metricOrder at the start
    FirstInterval,
    MaxEdits,        \* bound on the edits of the settings
    MaxLate,         \* bound on the units the loop is late in all
    MaxQueue         \* bound on the samples on their way

ASSUME ViewsAssumption ==
    /\ SampleIntervals \subseteq Nat \ {0} /\ FirstInterval \in SampleIntervals
    /\ \E i \in SampleIntervals : \A j \in SampleIntervals : j <= i
    /\ FirstOrder \in Seq(Metrics) /\ IsInjective(FirstOrder)
    /\ MaxEdits \in Nat /\ MaxLate \in Nat

VARIABLES
    interval,     \* Sampler.interval
    tickerPeriod, \* of the ticker, and
    due,          \* the units to its next tick
    ticked,       \* the tick in its channel
    since,        \* units since the loop last took a tick, Absent before the first
    loop,         \* the loop: waiting, or the sample it is collecting
    current,      \* Sampler.currentSample
    events,       \* samples on their way to the frontend
    snapshot,     \* the footer's first fetch: Asked, its answer, or Absent
    shown,        \* the live sample of the query cache
    order,        \* the tab's settings: metricOrder
    intervalMs,   \* and intervalMs
    drag,         \* draggedIndex
    saves,        \* saves under way
    edits,        \* edits so far
    lateness,     \* units late so far
    upset         \* history: late or reconfigured since the last tick was taken

sampler == <<interval, tickerPeriod, due, ticked, since, loop, current, upset>>
footer == <<events, snapshot, shown>>
tabVars == <<order, intervalMs, drag, saves, edits>>
viewVars == <<sampler, footer, tabVars, lateness>>

Longest == CHOOSE i \in SampleIntervals : \A j \in SampleIntervals : j <= i
NoSample == [taken |-> FALSE, degraded |-> FALSE]
Samples == {NoSample} \cup [taken : {TRUE}, degraded : BOOLEAN]
Orders == {o \in [1 .. Len(FirstOrder) -> Metrics] : IsInjective(o)}
Saves == [id : 0 .. MaxEdits, order : Orders, interval : SampleIntervals, done : BOOLEAN]

----------------------------------------------------------------------------
ViewsTypeOK ==
    /\ interval \in SampleIntervals /\ tickerPeriod \in SampleIntervals
    /\ due \in 1 .. tickerPeriod /\ ticked \in BOOLEAN
    /\ since \in {Absent} \cup 0 .. Longest + 1
    /\ loop \in {Absent} \cup (Samples \ {NoSample}) /\ current \in Samples
    /\ events \in Seq(Samples \ {NoSample})
    /\ snapshot \in {Absent, Asked} \cup Samples
    /\ shown \in {Absent} \cup Samples
    /\ order \in Orders /\ intervalMs \in SampleIntervals
    /\ drag \in {Absent} \cup DOMAIN order
    /\ saves \subseteq Saves
    /\ edits \in 0 .. MaxEdits /\ lateness \in 0 .. MaxLate /\ upset \in BOOLEAN

ViewsInit ==
    /\ interval = FirstInterval /\ tickerPeriod = interval /\ due = tickerPeriod
    /\ ticked = FALSE /\ since = Absent /\ loop = Absent /\ current = NoSample
    /\ events = <<>> /\ snapshot = Asked /\ shown = Absent
    /\ order = FirstOrder /\ intervalMs = interval /\ drag = Absent /\ saves = {}
    /\ edits = 0 /\ lateness = 0 /\ upset = FALSE

----------------------------------------------------------------------------
(* The sampling loop.                                                      *)

\* a unit of time; the ticker drops a tick whose predecessor was not taken
Pass ==
    /\ IF ticked THEN lateness < MaxLate /\ lateness' = lateness + 1 /\ upset' = TRUE
                 ELSE UNCHANGED <<lateness, upset>>
    /\ IF due = 1 THEN due' = tickerPeriod /\ ticked' = TRUE
                  ELSE due' = due - 1 /\ UNCHANGED ticked
    /\ since' = IF since = Absent \/ since > Longest THEN since ELSE since + 1
    /\ UNCHANGED <<interval, tickerPeriod, loop, current, footer, tabVars>>

\* Faulty variant: the first sample counts from zero, too.
Degraded_First == since = Absent \/ since > interval

\* lastTickTime > 0 && now - lastTickTime > interval + 50 ms
Degraded == since # Absent /\ since > interval

\* a tick is taken and its sample collected
Collect ==
    /\ loop = Absent /\ ticked
    /\ loop' = [taken |-> TRUE, degraded |-> Degraded]
    /\ ticked' = FALSE /\ since' = 0 /\ upset' = FALSE
    /\ UNCHANGED <<interval, tickerPeriod, due, current, footer, tabVars, lateness>>

Store ==
    /\ loop # Absent /\ current # loop
    /\ current' = loop
    /\ UNCHANGED <<interval, tickerPeriod, due, ticked, since, loop, upset, footer, tabVars, lateness>>

Emit ==
    /\ loop # Absent /\ current = loop /\ Len(events) < MaxQueue
    /\ loop' = Absent /\ events' = Append(events, current)
    /\ UNCHANGED <<interval, tickerPeriod, due, ticked, since, current, upset, snapshot, shown, tabVars, lateness>>

\* Faulty variant: the ticker keeps its period.
Retick_Forgotten(i) == UNCHANGED <<tickerPeriod, due, ticked>>

\* ticker.Reset, which also drops a tick not taken yet
Retick(i) == tickerPeriod' = i /\ due' = i /\ ticked' = FALSE

\* a save reaches the backend; the same interval is left alone
ReconfigureSampler(s) ==
    /\ ~s.done
    /\ saves' = (saves \ {s}) \cup {[s EXCEPT !.done = TRUE]}
    /\ IF s.interval = interval
         THEN UNCHANGED <<interval, tickerPeriod, due, ticked, upset>>
         ELSE interval' = s.interval /\ Retick(s.interval) /\ upset' = TRUE
    /\ UNCHANGED <<since, loop, current, footer, order, intervalMs, drag, edits, lateness>>

----------------------------------------------------------------------------
(* The footer.                                                             *)

\* getSnapshot reads the current sample, and its answer replaces what an event showed
Snapshot ==
    /\ snapshot = Asked /\ snapshot' = current
    /\ UNCHANGED <<sampler, events, shown, tabVars, lateness>>

SnapshotArrives ==
    /\ snapshot \notin {Absent, Asked}
    /\ shown' = snapshot /\ snapshot' = Absent
    /\ UNCHANGED <<sampler, events, tabVars, lateness>>

SnapshotFails ==
    /\ snapshot # Absent /\ snapshot' = Absent
    /\ UNCHANGED <<sampler, events, shown, tabVars, lateness>>

\* eventHandlers: setQueryData
Show ==
    /\ events # <<>>
    /\ shown' = Head(events) /\ events' = Tail(events)
    /\ UNCHANGED <<sampler, snapshot, tabVars, lateness>>

Footer == IF shown = Absent \/ shown.degraded THEN "Unavailable" ELSE "chips"

----------------------------------------------------------------------------
(* The settings tab.                                                       *)

SendSave(o, i) ==
    /\ edits < MaxEdits /\ edits' = edits + 1
    /\ saves' = saves \cup {[id |-> edits, order |-> o, interval |-> i, done |-> FALSE]}

\* the slider's release; with the interval unchanged, a switch or another form
ReleaseSlider(i) ==
    /\ SendSave(order, i)
    /\ UNCHANGED <<sampler, footer, order, intervalMs, drag, lateness>>

DragStart(i) ==
    /\ drag = Absent /\ edits < MaxEdits
    /\ drag' = i
    /\ UNCHANGED <<sampler, footer, order, intervalMs, saves, edits, lateness>>

\* Faulty variant: inserted before the row is taken out.
Moved_InsertFirst(o, from, to) == RemoveAt(InsertAt(o, to, o[from]), from)

\* Faulty variant: the two rows change places.
Moved_Swapped(o, from, to) == [o EXCEPT ![from] = o[to], ![to] = o[from]]

\* newOrder.splice(draggedIndex, 1), then splice(index, 0, moved)
Moved(o, from, to) == InsertAt(RemoveAt(o, from), to, o[from])

Drop(j) ==
    /\ drag # Absent /\ drag # j
    /\ SendSave(Moved(order, drag, j), intervalMs)
    /\ drag' = Absent
    /\ UNCHANGED <<sampler, footer, order, intervalMs, lateness>>

DragEnd ==
    /\ drag # Absent /\ drag' = Absent
    /\ UNCHANGED <<sampler, footer, order, intervalMs, saves, edits, lateness>>

\* the reply: the tab's settings are the saved ones, under a drag too
SaveReplied(s) ==
    /\ s.done /\ saves' = saves \ {s}
    /\ order' = s.order /\ intervalMs' = s.interval
    /\ UNCHANGED <<sampler, footer, drag, edits, lateness>>

SaveRefused(s) ==
    /\ ~s.done /\ saves' = saves \ {s}
    /\ UNCHANGED <<sampler, footer, order, intervalMs, drag, edits, lateness>>

ViewsNext ==
    \/ Pass \/ Collect \/ Store \/ Emit
    \/ Snapshot \/ SnapshotArrives \/ SnapshotFails \/ Show
    \/ \E i \in SampleIntervals : ReleaseSlider(i)
    \/ \E i \in DOMAIN order : DragStart(i) \/ Drop(i)
    \/ DragEnd
    \/ \E s \in saves : ReconfigureSampler(s) \/ SaveReplied(s) \/ SaveRefused(s)

ViewsSpec ==
    /\ ViewsInit /\ [][ViewsNext]_viewVars
    /\ WF_viewVars(Pass) /\ WF_viewVars(Collect) /\ WF_viewVars(Store) /\ WF_viewVars(Emit) /\ WF_viewVars(Show)

----------------------------------------------------------------------------
\* A sample counts as degraded, and blanks the footer, only when the loop was
\* late or the interval was changed since the sample before it.
DegradedHasReason ==
    [][loop = Absent /\ loop' # Absent => (loop'.degraded => upset)]_viewVars

\* "Unavailable" passes: when the loop is late only so often and the settings
\* are left alone at last, the footer shows values again, whatever the first
\* fetch did.
UnavailablePasses == Footer = "Unavailable" ~> Footer = "chips"

\* The row at the dragged index gets to where it was dropped and the others
\* keep their order.
DropMovesRow ==
    [][\A j \in DOMAIN order : Drop(j) =>
         \A s \in saves' \ saves :
            /\ s.order[j] = order[drag]
            /\ \A a, b \in DOMAIN order \ {drag} : a < b =>
                 \E c, d \in DOMAIN order :
                    c < d /\ s.order[c] = order[a] /\ s.order[d] = order[b]]_viewVars

=============================================================================
