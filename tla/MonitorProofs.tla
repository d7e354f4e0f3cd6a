---------------------------- MODULE MonitorProofs ----------------------------
(***************************************************************************)
(* What MonitorSettings keeps for any calls, kills and intervals: the four *)
(* copies of the settings settle on the user's edits, a kill never loses   *)
(* them, and the form never loses what is typed. And what MonitorViews     *)
(* keeps for any intervals and metrics: a sample is degraded only for a    *)
(* reason, and a dropped row moves alone.                                  *)
(***************************************************************************)
EXTENDS MonitorSettings, MonitorViews, SequenceTheorems, TLAPS

LEMMA Clamped ==
    ASSUME NEW i \in Int
    PROVE  Clamp(i) \in MinInterval .. MaxInterval /\ Clamp(Clamp(i)) = Clamp(i)
BY IntervalsAssumption DEF Clamp

LEMMA Validation ==
    ASSUME NEW s \in Settings
    PROVE  /\ Validated(s) \in Settings /\ Validated(Validated(s)) = Validated(s)
           /\ Validated(s).interval = Clamp(s.interval)
           /\ Validated(s).thresholds = s.thresholds
           /\ Clamp(Validated(s).interval) = Clamp(s.interval)
           /\ Load(s) = s
<1>1. s.interval \in Int /\ s.thresholds \in Thresholds
  BY DEF Settings
<1>2. MinInterval .. MaxInterval \subseteq Int
  BY IntervalsAssumption
<1>3. Validated(s) = [interval |-> Clamp(s.interval), thresholds |-> s.thresholds]
  BY DEF Settings, Validated
<1>4. Validated(Validated(s)) = [interval |-> Clamp(Clamp(s.interval)), thresholds |-> s.thresholds]
  <2> DEFINE v == [interval |-> Clamp(s.interval), thresholds |-> s.thresholds]
  <2>1. Validated(v) = [interval |-> Clamp(Clamp(s.interval)), thresholds |-> s.thresholds]
    BY DEF Validated
  <2> QED BY <1>3, <2>1
<1>5. Clamp(s.interval) \in Int /\ Clamp(Clamp(s.interval)) = Clamp(s.interval)
  BY <1>1, <1>2, Clamped
<1>6. Validated(s) \in Settings
  BY <1>1, <1>3, <1>5 DEF Settings
<1>7. Load(s) = s
  BY NullsAssumption DEF Load
<1> QED BY <1>3, <1>4, <1>5, <1>6, <1>7

LEMMA DefaultsTyped == Defaults \in Settings
BY IntervalsAssumption, BoundsAssumption DEF Defaults, Settings

LEMMA Loaded ==
    ASSUME NEW f \in Settings \cup {Missing, Corrupt}
    PROVE  Load(f) \in Settings
BY DefaultsTyped DEF Load

\* Two settings that agree once validated have the same interval for the sampler.
LEMMA SameClamp ==
    ASSUME NEW s \in Settings, NEW t \in Settings, Validated(s) = Validated(t)
    PROVE  Clamp(s.interval) = Clamp(t.interval) /\ s.thresholds = t.thresholds
BY Validation

-----------------------------------------------------------------------------
(* Types. A dirty form has a draft; what is wanted is known once there is a *)
(* copy, and no call is made before; only a reset reads settings back.      *)

Shape ==
    /\ form.dirty => form.draft \in Thresholds
    /\ tab # None => want \in Settings
    /\ \A c \in Calls : pc[c] \in {"read", "got"} => req[c].kind = "reset"
    /\ \A c \in Calls : pc[c] # "idle" => tab # None
    /\ crossed => tab # None

Typed == TypeOK /\ Shape

FormSet  == [draft : Thresholds \cup {None}, synced : Thresholds \cup {None}, dirty : BOOLEAN]
FetchSet == [pc : {"none", "asked", "read"}, val : Settings]

LEMMA SyncTyped ==
    ASSUME NEW s \in Settings, NEW f \in FormSet, f.dirty => f.draft \in Thresholds
    PROVE  /\ Sync(s, f) \in FormSet /\ Sync(s, f).dirty = f.dirty
           /\ f.dirty => Sync(s, f) = f
           /\ Sync(s, f).draft \in {f.draft, s.thresholds}
BY DEF Sync, FormSet, Settings

LEMMA TypedInitial == Init => Typed
<1> SUFFICES ASSUME Init PROVE Typed
  OBVIOUS
<1>1. file \in Settings \cup {Missing, Corrupt}
  BY IntervalsAssumption DEF Init, Settings
<1>2. memory \in Settings /\ period \in MinInterval .. MaxInterval
  <2>1. memory \in Settings
    BY <1>1, Loaded, DefaultsTyped DEF Init
  <2>2. memory.interval \in Int /\ period = Clamp(memory.interval)
    BY <2>1 DEF Init, Settings
  <2> QED BY <2>1, <2>2, Clamped
<1>3. /\ req \in [Calls -> [kind : {"save", "form", "reset"}, val : Settings]]
      /\ pc \in [Calls -> {"idle"}]
  BY DefaultsTyped DEF Init
<1>4. form \in FormSet /\ ~form.dirty
  <2>1. form = [draft |-> None, synced |-> None, dirty |-> FALSE]
    BY DEF Init
  <2>2. form \in FormSet
    BY <2>1 DEF FormSet
  <2>3. ~form.dirty
    BY <2>1
  <2> QED BY <2>2, <2>3
<1>5. /\ retried \subseteq Calls /\ crashes \in 0 .. MaxCrashes /\ typed \in 0 .. MaxTyped
      /\ tab = None /\ want = None
      /\ doubt \subseteq Parts /\ alone \subseteq Calls /\ fetches \in 0 .. MaxFetches
  BY BoundsAssumption DEF Init, Upset
<1>6. rash \in BOOLEAN /\ open \in BOOLEAN /\ crossed \in BOOLEAN /\ ~crossed
  BY Zenon DEF Init
<1>7. fetch \in FetchSet
  BY DefaultsTyped DEF Init, FetchSet
<1>8. TypeOK
  BY <1>1, <1>2, <1>3, <1>4, <1>5, <1>6, <1>7 DEF TypeOK, FormSet, FetchSet
<1>9. Shape
  BY <1>3, <1>4, <1>5, <1>6, Zenon DEF Shape
<1> QED BY <1>8, <1>9 DEF Typed

\* A call under way has found a copy to send.
LEMMA Underway == Typed => \A c \in Calls : UnderWay(c) => tab # None
BY DEF Typed, Shape, UnderWay

LEMMA TypedFetch ==
    ASSUME Typed, Refetch \/ FetchReads \/ Fetched \/ FetchFails
    PROVE  Typed'
<1>1. fetch \in FetchSet /\ NoFetch \in FetchSet /\ memory \in Settings
  BY DefaultsTyped DEF Typed, TypeOK, FetchSet, NoFetch
<1>2. CASE Refetch
  <2>1. /\ fetch' \in FetchSet /\ crossed' \in BOOLEAN /\ fetches' \in 0 .. MaxFetches
        /\ crossed' => tab # None
    BY <1>1, <1>2, Underway, BoundsAssumption DEF Refetch, Ask, FetchSet, Typed, TypeOK
  <2> QED BY <1>2, <2>1 DEF Refetch, Typed, TypeOK, Shape, FetchSet, backVars, callVars, formVars, histVars
<1>3. CASE FetchReads
  <2>1. fetch' \in FetchSet
    BY <1>1, <1>3 DEF FetchReads, FetchSet
  <2> QED BY <1>3, <2>1 DEF FetchReads, Typed, TypeOK, Shape, FetchSet, backVars, callVars, formVars, histVars
<1>4. CASE Fetched
  <2>1. /\ fetch' \in FetchSet /\ ~crossed' /\ crossed' \in BOOLEAN
        /\ tab' \in Settings /\ want' \in Settings /\ doubt' \subseteq Parts
    BY <1>1, <1>4 DEF Fetched, FetchSet, Typed, TypeOK, Shape, Parts
  <2>2. form' \in FormSet /\ (form'.dirty => form'.draft \in Thresholds)
    <3>1. form \in FormSet /\ (form.dirty => form.draft \in Thresholds)
      BY DEF Typed, TypeOK, Shape, FormSet
    <3> QED BY <1>4, <2>1, <3>1, SyncTyped DEF Fetched
  <2>3. tab' # None
    BY <2>1, NullsAssumption
  <2> QED BY <1>4, <2>1, <2>2, <2>3 DEF Fetched, Typed, TypeOK, Shape, FormSet, FetchSet, backVars, callVars
<1>5. CASE FetchFails
  <2>1. fetch' \in FetchSet /\ ~crossed' /\ crossed' \in BOOLEAN
    BY <1>1, <1>5 DEF FetchFails
  <2> QED BY <1>5, <2>1 DEF FetchFails, Typed, TypeOK, Shape, FetchSet, backVars, callVars, formVars, histVars
<1> QED BY <1>2, <1>3, <1>4, <1>5

LEMMA TypedTab ==
    ASSUME Typed, OpenTab \/ \E t \in Thresholds : Type(t)
    PROVE  Typed'
<1>1. CASE OpenTab
  <2>1. form' \in FormSet /\ (form'.dirty => form'.draft \in Thresholds)
    <3>1. /\ form \in FormSet /\ (form.dirty => form.draft \in Thresholds)
          /\ tab # None => tab \in Settings
      BY DEF Typed, TypeOK, Shape, FormSet
    <3>2. CASE tab = None
      BY <1>1, <3>1, <3>2 DEF OpenTab
    <3>3. CASE tab # None
      BY <1>1, <3>1, <3>3, SyncTyped DEF OpenTab
    <3> QED BY <3>2, <3>3
  <2>2. fetch' \in FetchSet /\ crossed' \in BOOLEAN /\ (crossed' => tab # None)
    BY <1>1, Underway DEF OpenTab, Ask, FetchSet, Typed, TypeOK, Shape
  <2> QED BY <1>1, <2>1, <2>2
          DEF OpenTab, Typed, TypeOK, Shape, FormSet, FetchSet, backVars, callVars, histVars
<1>2. ASSUME NEW t \in Thresholds, Type(t) PROVE Typed'
  <2>1. /\ form' = [form EXCEPT !.draft = t, !.dirty = TRUE] /\ typed < MaxTyped /\ typed' = typed + 1
        /\ UNCHANGED <<backVars, callVars, tab, loadVars, histVars>> /\ rash' \in BOOLEAN
    BY <1>2 DEF Type, Saving
  <2>2. form \in FormSet /\ typed \in 0 .. MaxTyped
    BY DEF Typed, TypeOK, FormSet
  <2>3. form' \in FormSet /\ form'.draft = t
    BY <2>1, <2>2 DEF FormSet
  <2>4. typed' \in 0 .. MaxTyped
    BY <2>1, <2>2, BoundsAssumption
  <2> QED BY <2>1, <2>3, <2>4 DEF Typed, TypeOK, Shape, FormSet, backVars, callVars, loadVars, histVars
<1> QED BY <1>1, <1>2

LEMMA TypedUse ==
    ASSUME Typed, NEW c \in Calls, Use(c)
    PROVE  Typed'
<1>1. ASSUME NEW kind \in {"save", "form", "reset"}, NEW val \in Settings, Send(c, kind, val)
      PROVE  Typed'
  <2>1. /\ tab # None /\ pc' = [pc EXCEPT ![c] = "sent"]
        /\ req' = [req EXCEPT ![c] = [kind |-> kind, val |-> val]]
        /\ UNCHANGED <<backVars, retried, crashes, tab, fetch, fetches, open, formVars, want>>
    BY <1>1 DEF Send
  <2>2. crossed' \in BOOLEAN
    BY <1>1, Zenon DEF Send
  <2>3. doubt' \subseteq Parts /\ alone' \subseteq Calls
    BY <1>1 DEF Send, Typed, TypeOK, Parts
  <2> QED BY <1>1, <2>1, <2>2, <2>3 DEF Typed, TypeOK, Shape, backVars, formVars
<1>2. ASSUME tab # None
      PROVE  /\ \A i \in Intervals : [tab EXCEPT !.interval = i] \in Settings
             /\ \A t \in Thresholds : [tab EXCEPT !.thresholds = t] \in Settings
  BY <1>2, IntervalsAssumption DEF Typed, TypeOK, Settings
<1>3. CASE SubmitForm(c)
  <2>1. form.draft \in Thresholds /\ tab # None
    BY <1>3 DEF SubmitForm, Typed, Shape, Send
  <2> QED BY <1>1, <1>2, <1>3, <2>1 DEF SubmitForm
<1>4. CASE Reset(c)
  BY <1>1, <1>4, DefaultsTyped DEF Reset
<1>5. ASSUME NEW i \in Intervals, EditInterval(c, i) PROVE Typed'
  BY <1>1, <1>2, <1>5 DEF EditInterval, Send
<1> QED BY <1>3, <1>4, <1>5 DEF Use

\* What the tab does with settings it is answered.
Confirmed(c, fields) ==
    /\ UnderWay(c) /\ pc[c] \in {"ok", "got"} /\ pc' = [pc EXCEPT ![c] = "done"]
    /\ tab' = req[c].val /\ fields \in SUBSET Fields
    /\ Confirms(c, fields)
    /\ \/ req[c].kind = "save" /\ fields = {"interval"} /\ form' = Sync(req[c].val, form)
       \/ /\ req[c].kind = "form" /\ fields = {"thresholds"}
          /\ form' = Sync(req[c].val, [form EXCEPT !.dirty = FALSE])
       \/ pc[c] = "got" /\ fields = Fields /\ form' = Sync(req[c].val, form)

LEMMA Confirmations ==
    ASSUME NEW c \in Calls
    PROVE  Saved(c) \/ FormSaved(c) \/ ResetRead(c) => \E fields \in SUBSET Fields : Confirmed(c, fields)
<1>1. Saved(c) => Confirmed(c, {"interval"})
  BY DEF Saved, Confirmed, UnderWay, Goto, Fields
<1>2. FormSaved(c) => Confirmed(c, {"thresholds"})
  BY DEF FormSaved, Confirmed, UnderWay, Goto, Fields
<1>3. ResetRead(c) => Confirmed(c, Fields)
  BY DEF ResetRead, Confirmed, UnderWay, Goto, Fields
<1> QED BY <1>1, <1>2, <1>3 DEF Fields

\* Each confirmed field is as it was sent, the others as they were wanted.
LEMMA WantedAfter ==
    ASSUME NEW w \in Settings, NEW s \in Settings, NEW fields \in SUBSET Fields
    PROVE  LET v == [f \in Fields |-> IF f \in fields THEN s[f] ELSE w[f]]
           IN  /\ v \in Settings
               /\ v.interval = IF "interval" \in fields THEN s.interval ELSE w.interval
               /\ v.thresholds = IF "thresholds" \in fields THEN s.thresholds ELSE w.thresholds
<1> DEFINE v == [f \in Fields |-> IF f \in fields THEN s[f] ELSE w[f]]
<1>1. v = [interval |-> v["interval"], thresholds |-> v["thresholds"]]
  BY DEF Fields
<1>2. /\ v["interval"] = IF "interval" \in fields THEN s.interval ELSE w.interval
      /\ v["thresholds"] = IF "thresholds" \in fields THEN s.thresholds ELSE w.thresholds
  BY DEF Fields
<1>3. v["interval"] \in Int /\ v["thresholds"] \in Thresholds
  BY <1>2 DEF Settings
<1> HIDE DEF v
<1>4. v \in Settings /\ v.interval = v["interval"] /\ v.thresholds = v["thresholds"]
  BY <1>1, <1>3 DEF Settings
<1> QED BY <1>2, <1>4 DEF v

LEMMA TypedServe ==
    ASSUME Typed, NEW c \in Calls, Serve(c)
    PROVE  Typed'
<1> USE DEF Goto, AtBackend, backVars, formVars, loadVars, histVars
<1>1. CASE \E fields \in SUBSET Fields : Confirmed(c, fields)
  <2>1. PICK fields \in SUBSET Fields : Confirmed(c, fields)
    BY <1>1
  <2>2. /\ req[c].val \in Settings /\ form \in FormSet
        /\ pc' = [pc EXCEPT ![c] = "done"] /\ tab' = req[c].val /\ doubt' \subseteq doubt
        /\ UNCHANGED <<file, memory, period, req, retried, crashes, fetch, fetches, crossed, open>>
        /\ UNCHANGED <<typed, rash, alone>>
        /\ want' = [f \in Fields |-> IF f \in fields THEN req[c].val[f] ELSE want[f]]
    BY <2>1 DEF Confirmed, Confirms, Typed, TypeOK, FormSet
  <2>3. want' \in Settings
    <3>1. CASE tab # None
      BY <2>2, <3>1, WantedAfter DEF Typed, Shape
    <3>2. CASE tab = None
      BY <2>1, <3>2 DEF Confirmed, Typed, Shape
    <3> QED BY <3>1, <3>2
  <2>4. form' \in FormSet /\ (form'.dirty => form'.draft \in Thresholds)
    <3> DEFINE clean == [form EXCEPT !.dirty = FALSE]
    <3>1. clean \in FormSet /\ ~clean.dirty
      BY <2>2 DEF FormSet
    <3>2. form' = Sync(req[c].val, form) \/ form' = Sync(req[c].val, clean)
      BY <2>1 DEF Confirmed
    <3>3. req[c].val.thresholds \in Thresholds
      BY <2>2 DEF Settings
    <3>4. form.dirty => form.draft \in Thresholds
      BY DEF Typed, Shape
    <3> HIDE DEF clean
    <3>5. CASE form' = Sync(req[c].val, form)
      <4>1. form' \in FormSet /\ form'.dirty = form.dirty /\ form'.draft \in {form.draft, req[c].val.thresholds}
        BY <2>2, <3>4, <3>5, SyncTyped
      <4> QED BY <3>3, <3>4, <4>1
    <3>6. CASE form' = Sync(req[c].val, clean)
      <4>1. form' \in FormSet /\ form'.dirty = clean.dirty
        BY <2>2, <3>1, <3>6, SyncTyped
      <4> QED BY <3>1, <4>1
    <3> QED BY <3>2, <3>5, <3>6
  <2>5. tab' # None
    BY <2>2, NullsAssumption
  <2>6. TypeOK'
    BY <2>2, <2>3, <2>4 DEF Typed, TypeOK, FormSet
  <2>7. Shape'
    BY <2>2, <2>3, <2>4, <2>5 DEF Typed, TypeOK, Shape
  <2> QED BY <2>6, <2>7 DEF Typed
<1>2. CASE Receive(c) \/ WriteTemp(c) \/ SaveFails(c) \/ ResetDone(c)
  BY <1>2 DEF Receive, WriteTemp, SaveFails, ResetDone, Typed, TypeOK, Shape
<1>3. CASE Rename(c) \/ Remember(c) \/ Reconfigure(c)
  <2>1. Validated(req[c].val) \in Settings /\ Clamp(Validated(req[c].val).interval) \in MinInterval .. MaxInterval
    <3>1. req[c].val \in Settings
      BY DEF Typed, TypeOK
    <3>2. Validated(req[c].val) \in Settings
      BY <3>1, Validation
    <3> QED BY <3>2, Clamped DEF Settings
  <2> QED BY <1>3, <2>1 DEF Rename, Remember, Reconfigure, Typed, TypeOK, Shape
<1>4. CASE ReadBack(c)
  BY <1>4 DEF ReadBack, Typed, TypeOK, Shape
<1>5. CASE Failed(c)
  <2>1. form' \in FormSet /\ (form'.dirty => form'.draft \in Thresholds)
    <3>1. CASE req[c].kind # "form"
      BY <1>5, <3>1 DEF Failed, Typed, TypeOK, Shape, FormSet
    <3>2. CASE req[c].kind = "form"
      <4> DEFINE clean == [form EXCEPT !.dirty = FALSE]
      <4>1. clean \in FormSet /\ ~clean.dirty
        BY DEF FormSet, Typed, TypeOK
      <4>2. form' = Sync(tab, clean)
        BY <1>5, <3>2 DEF Failed
      <4>3. tab \in Settings
        BY <1>5 DEF Failed, Typed, TypeOK, Shape
      <4> HIDE DEF clean
      <4>4. form' \in FormSet /\ form'.dirty = clean.dirty
        BY <4>1, <4>2, <4>3, SyncTyped
      <4> QED BY <4>1, <4>4
    <3> QED BY <3>1, <3>2
  <2>2. rash' \in BOOLEAN /\ doubt' \subseteq Parts
    BY <1>5 DEF Failed, Typed, TypeOK
  <2> QED BY <1>5, <2>1, <2>2 DEF Failed, Typed, TypeOK, Shape, FormSet
<1> QED BY <1>1, <1>2, <1>3, <1>4, <1>5, Confirmations DEF Serve

LEMMA TypedCrash == Typed /\ Crash => Typed'
<1> SUFFICES ASSUME Typed, Crash PROVE Typed'
  OBVIOUS
<1>1. Load(file) \in Settings
  BY Loaded DEF Typed, TypeOK
<1>2. memory' \in Settings /\ period' \in MinInterval .. MaxInterval /\ doubt' \subseteq Parts
  <2>1. PICK s \in {Load(file), Defaults} : memory' = s /\ period' = Clamp(s.interval) /\ doubt' = Upset(s, doubt)
    BY DEF Crash
  <2>2. s \in Settings /\ s.interval \in Int
    BY <1>1, DefaultsTyped DEF Settings
  <2> QED BY <2>1, <2>2, Clamped DEF Upset, Typed, TypeOK
<1>3. crashes' \in 0 .. MaxCrashes
  BY BoundsAssumption DEF Crash, Typed, TypeOK
<1>4. retried' \subseteq Calls
  BY DEF Crash, Typed, TypeOK
<1>5. /\ pc' \in [Calls -> {"idle", "sent", "write", "rename", "remember", "tick", "ok",
                             "read", "got", "error", "done"}]
      /\ \A c \in Calls : pc'[c] \in {"read", "got"} => pc[c] \in {"read", "got"}
      /\ \A c \in Calls : pc'[c] # "idle" => pc[c] # "idle"
  BY DEF Crash, Typed, TypeOK, InBackend, UnderWay
<1> QED BY <1>2, <1>3, <1>4, <1>5 DEF Crash, Typed, TypeOK, Shape, formVars, loadVars

LEMMA TypedInvariant == Spec => []Typed
<1>1. Typed /\ [Next]_vars => Typed'
  <2> SUFFICES ASSUME Typed, [Next]_vars PROVE Typed'
    OBVIOUS
  <2>1. CASE UNCHANGED vars
    BY <2>1 DEF Typed, TypeOK, Shape, vars, backVars, callVars, histVars, formVars, loadVars
  <2>2. CASE Next
    BY <2>2, TypedFetch, TypedTab, TypedUse, TypedServe, TypedCrash DEF Next
  <2> QED BY <2>1, <2>2
<1> QED BY TypedInitial, <1>1, PTL DEF Spec

(* Every setting is one the code can hold, and the ticker's period lies    *)
(* between 500 ms and a minute whatever was saved, read or typed.          *)
THEOREM SettingsTyped == Spec => []TypeOK
<1>1. Typed => TypeOK
  BY DEF Typed
<1> QED BY TypedInvariant, <1>1, PTL

-----------------------------------------------------------------------------
(* The copies. Unless calls overlapped, at most one is under way; what it  *)
(* has got done is in the file, in memory and at the ticker, in this order; *)
(* before it has changed the file, or when it failed unsent, the copies are *)
(* settled. A call that was cut off may have changed the file. A fetch that *)
(* no call has crossed has read what the backend still holds.               *)

InStep(s) ==
    /\ Validated(Load(file)) = Validated(s) /\ Validated(memory) = Validated(s)
    /\ period = Clamp(s.interval)

Kept(s) == \A f \in Fields \ doubt : Validated(s)[f] = Validated(want)[f]

Settled ==
    /\ InStep(memory) /\ Kept(memory)
    /\ "tab" \notin doubt => Validated(tab) = Validated(memory)

Early == {"sent", "write", "rename", "error"}

Overlap ==
    /\ \A c \in alone, d \in Calls : UnderWay(d) => d = c
    /\ "copies" \notin doubt => \A c \in Calls : UnderWay(c) => c \in alone
    /\ "copies" \in doubt => Fields \subseteq doubt
    /\ fetch.pc # "none" /\ ~crossed => \A c \in Calls : ~UnderWay(c)

\* What a call carries along besides the user's own change is as wanted.
Carries(c) ==
    /\ req[c].kind = "reset" => Validated(req[c].val) = Defaults
    /\ req[c].kind = "save" /\ "thresholds" \notin doubt =>
          req[c].val.thresholds = want.thresholds
    /\ req[c].kind = "form" /\ "interval" \notin doubt =>
          Clamp(req[c].val.interval) = Clamp(want.interval)

Progress(c) ==
    /\ pc[c] \in {"remember", "tick", "ok"} => file = Validated(req[c].val)
    /\ pc[c] \in {"tick", "ok"} => memory = Validated(req[c].val)
    /\ pc[c] \in {"ok", "read", "got"} => InStep(req[c].val)
    /\ UnderWay(c) => Carries(c)

Halfway(c) ==
    /\ InStep(memory) /\ (c \notin retried => Settled)
    /\ Validated(Load(file)) = Validated(req[c].val) \/ Kept(Load(file))

Agree ==
    "copies" \notin doubt =>
        /\ tab = None => InStep(memory)
        /\ tab # None /\ (\A c \in Calls : ~UnderWay(c)) => Settled
        /\ \A c \in Calls : pc[c] \in Early => Halfway(c)
        /\ fetch.pc = "read" /\ ~crossed => Validated(fetch.val) = Validated(memory)

Copies == Overlap /\ (\A c \in alone : Progress(c)) /\ Agree

LEMMA CopiesInitial == Init => Copies
<1> SUFFICES ASSUME Init PROVE Copies
  OBVIOUS
<1>1. \A c \in Calls : ~UnderWay(c)
  BY DEF Init, UnderWay
<1>2. memory \in Settings
  BY TypedInitial DEF Typed, TypeOK
<1>3. /\ period = Clamp(memory.interval) /\ tab = None /\ alone = {} /\ fetch.pc = "asked"
      /\ doubt = Upset(memory, {})
  BY DEF Init
<1>4. "copies" \in doubt => Fields \subseteq doubt
  BY <1>3 DEF Upset, Parts
<1>5. "copies" \notin doubt => Load(file) = memory
  BY <1>3 DEF Upset, Parts
<1> QED BY <1>1, <1>3, <1>4, <1>5 DEF Copies, Overlap, Agree, InStep, UnderWay, Early

\* A call under way has no company unless the copies are in doubt.
LEMMA OnlyOne ==
    ASSUME Typed, Copies, NEW c \in Calls, UnderWay(c)
    PROVE  /\ alone \subseteq {c} /\ tab # None
           /\ c \notin alone => "copies" \in doubt
           /\ c \in alone => \A d \in Calls \ {c} : ~UnderWay(d)
BY DEF Copies, Overlap, Typed, TypeOK, Shape, UnderWay

\* A step of one call in the backend is about that call only.
LEMMA OfOne ==
    ASSUME Typed, Copies, NEW c \in Calls, UnderWay(c), UnderWay(c)',
           \A d \in Calls \ {c} : pc'[d] = pc[d],
           UNCHANGED <<alone, doubt, tab, want, fetch, crossed>>,
           c \in alone => Progress(c)',
           "copies" \notin doubt /\ pc'[c] \in Early => Halfway(c)'
    PROVE  Copies'
<1>1. /\ alone \subseteq {c} /\ tab # None
      /\ c \notin alone => "copies" \in doubt
      /\ c \in alone => \A d \in Calls \ {c} : ~UnderWay(d)
  BY OnlyOne
<1>2. \A d \in Calls : UnderWay(d)' <=> UnderWay(d)
  BY DEF UnderWay
<1>3. Overlap'
  BY <1>2 DEF Copies, Overlap
<1>4. \A d \in alone' : Progress(d)'
  BY <1>1
<1>5. ASSUME "copies" \notin doubt, NEW d \in Calls, pc'[d] \in Early
      PROVE  Halfway(d)'
  <2>1. d = c
    BY <1>1, <1>5 DEF UnderWay, Early
  <2> QED BY <1>5, <2>1
<1>6. fetch.pc = "read" => crossed
  BY DEF Copies, Overlap
<1>7. Agree'
  BY <1>1, <1>5, <1>6 DEF Agree
<1> QED BY <1>3, <1>4, <1>7 DEF Copies

\* A step that changes at most the fetch.
LEMMA OfFetch ==
    ASSUME Typed, Copies,
           UNCHANGED <<file, memory, period, pc, req, retried, tab, want, doubt, alone>>,
           fetch'.pc # "none" /\ ~crossed' => \A c \in Calls : ~UnderWay(c),
           "copies" \notin doubt /\ fetch'.pc = "read" /\ ~crossed' =>
               Validated(fetch'.val) = Validated(memory)
    PROVE  Copies'
<1>1. \A c \in Calls : /\ UnderWay(c)' <=> UnderWay(c)
                       /\ Progress(c)' <=> Progress(c)
                       /\ Halfway(c)' <=> Halfway(c)
  BY DEF UnderWay, Progress, Carries, Halfway, Settled, Kept, InStep
<1>2. Overlap' /\ \A c \in alone' : Progress(c)'
  BY <1>1 DEF Copies, Overlap, Typed, TypeOK
<1>3. Agree'
  BY <1>1 DEF Copies, Agree, Settled, Kept, InStep
<1> QED BY <1>2, <1>3 DEF Copies

LEMMA CopiesFetched == Typed /\ Copies /\ Fetched => Copies'
<1> SUFFICES ASSUME Typed, Copies, Fetched PROVE Copies'
  OBVIOUS
<1>1. /\ fetch.pc = "read" /\ fetch'.pc = "none" /\ tab' = fetch.val
      /\ want' = IF tab = None THEN tab' ELSE want
      /\ doubt' = IF crossed THEN doubt \cup {"tab"} ELSE doubt \ {"tab"}
      /\ UNCHANGED <<file, memory, period, pc, req, retried, alone>>
  BY DEF Fetched, NoFetch, backVars, callVars
<1>2. /\ Fields \ doubt' = Fields \ doubt /\ ("copies" \in doubt' <=> "copies" \in doubt)
      /\ \A f \in Fields : f \in doubt' <=> f \in doubt
      /\ "interval" \in Fields /\ "thresholds" \in Fields
  BY <1>1 DEF Fields
<1>3. \A c \in Calls : UnderWay(c)' <=> UnderWay(c)
  BY <1>1 DEF UnderWay
<1>4. \A c \in Calls : UnderWay(c) => tab # None /\ want' = want
  BY <1>1, Underway
<1>5. tab' # None /\ fetch.val \in Settings
  BY <1>1, NullsAssumption DEF Typed, TypeOK
<1>6. Overlap'
  BY <1>1, <1>2, <1>3 DEF Copies, Overlap
<1>7. ASSUME NEW c \in alone PROVE Progress(c)'
  <2>1. Progress(c) /\ c \in Calls
    BY DEF Copies, Typed, TypeOK
  <2>2. UnderWay(c) => Carries(c)'
    BY <1>1, <1>2, <1>4, <2>1 DEF Progress, Carries
  <2> QED BY <1>1, <1>3, <2>1, <2>2 DEF Progress, InStep
<1>8. ASSUME "copies" \notin doubt PROVE Agree'
  <2>1. CASE crossed
    <3>1. tab # None /\ want' = want /\ "tab" \in doubt'
      BY <1>1, <2>1 DEF Typed, Shape
    <3>2. Settled => Settled'
      BY <1>1, <1>2, <3>1 DEF Settled, InStep, Kept
    <3>3. \A c \in Calls : Halfway(c) => Halfway(c)'
      BY <1>1, <1>2, <3>1, <3>2 DEF Halfway, InStep, Kept
    <3> QED BY <1>1, <1>3, <1>5, <1>8, <3>1, <3>2, <3>3 DEF Copies, Agree
  <2>2. CASE ~crossed
    <3>1. \A c \in Calls : ~UnderWay(c)
      BY <1>1, <2>2 DEF Copies, Overlap
    <3>2. InStep(memory) /\ Validated(fetch.val) = Validated(memory)
      BY <1>1, <1>8, <2>2, <3>1 DEF Copies, Agree, Settled
    <3>3. Kept(memory)'
      <4>1. CASE tab = None
        BY <1>1, <3>2, <4>1 DEF Kept
      <4>2. CASE tab # None
        BY <1>1, <1>2, <1>8, <3>1, <4>2 DEF Copies, Agree, Settled, Kept
      <4> QED BY <4>1, <4>2
    <3>4. Settled'
      BY <1>1, <3>2, <3>3 DEF Settled, InStep
    <3>5. \A c \in Calls : pc'[c] \notin Early
      BY <1>1, <3>1 DEF UnderWay, Early
    <3> QED BY <1>1, <1>5, <3>4, <3>5 DEF Agree
  <2> QED BY <2>1, <2>2
<1>9. Agree'
  <2>1. CASE "copies" \in doubt
    BY <1>2, <2>1 DEF Agree
  <2> QED BY <1>8, <2>1
<1> QED BY <1>1, <1>6, <1>7, <1>9 DEF Copies

LEMMA CopiesTab ==
    ASSUME Typed, Copies,
           \/ OpenTab \/ Refetch \/ FetchReads \/ Fetched \/ FetchFails
           \/ \E t \in Thresholds : Type(t)
    PROVE  Copies'
<1>1. ASSUME Ask, UNCHANGED <<backVars, callVars, tab, histVars>> PROVE Copies'
  <2>1. CASE fetch.pc = "none"
    <3>1. fetch'.pc = "asked" /\ (~crossed' => \A c \in Calls : ~UnderWay(c))
      BY <1>1, <2>1 DEF Ask, Typed, TypeOK
    <3> QED BY <1>1, <3>1, OfFetch DEF backVars, callVars, histVars
  <2>2. CASE fetch.pc # "none"
    <3>1. UNCHANGED <<fetch, crossed>>
      BY <1>1, <2>2 DEF Ask
    <3> QED BY <1>1, <3>1, OfFetch DEF Copies, Overlap, Agree, backVars, callVars, histVars
  <2> QED BY <2>1, <2>2
<1>2. CASE OpenTab \/ Refetch
  BY <1>1, <1>2 DEF OpenTab, Refetch, formVars
<1>3. CASE FetchReads
  <2>1. fetch'.pc = "read" /\ fetch'.val = memory /\ fetch.pc = "asked"
        /\ UNCHANGED <<backVars, callVars, tab, crossed, histVars>>
    BY <1>3 DEF FetchReads
  <2> QED BY <2>1, OfFetch DEF Copies, Overlap, backVars, callVars, histVars
<1>4. CASE Fetched
  BY <1>4, CopiesFetched
<1>5. CASE FetchFails
  <2>1. fetch'.pc = "none" /\ UNCHANGED <<backVars, callVars, tab, histVars>>
    BY <1>5 DEF FetchFails, NoFetch
  <2> QED BY <2>1, OfFetch DEF backVars, callVars, histVars
<1>6. CASE \E t \in Thresholds : Type(t)
  <2>1. UNCHANGED <<backVars, callVars, tab, loadVars, histVars>>
    BY <1>6 DEF Type
  <2> QED BY <2>1, OfFetch DEF Copies, Overlap, Agree, backVars, callVars, loadVars, histVars
<1> QED BY <1>2, <1>3, <1>4, <1>5, <1>6

LEMMA DefaultsValid == Validated(Defaults) = Defaults
BY Clamped, IntervalsAssumption DEF Validated, Defaults, Clamp

LEMMA CopiesUse ==
    ASSUME Typed, Copies, NEW c \in Calls, Use(c)
    PROVE  Copies'
<1>1. ASSUME NEW kind, NEW val, Send(c, kind, val),
             kind = "save" => val.thresholds = tab.thresholds,
             kind = "form" => val.interval = tab.interval,
             kind = "reset" => val = Defaults
      PROVE  Copies'
  <2>1. /\ tab # None /\ pc[c] = "idle" /\ pc' = [pc EXCEPT ![c] = "sent"]
        /\ req' = [req EXCEPT ![c] = [kind |-> kind, val |-> val]]
        /\ UNCHANGED <<file, memory, period, retried, tab, want, fetch>>
        /\ fetch.pc # "none" => crossed'
    BY <1>1 DEF Send, backVars
  <2>2. pc'[c] = "sent" /\ req'[c] = [kind |-> kind, val |-> val]
    BY <2>1 DEF Typed, TypeOK
  <2>3. \A d \in Calls \ {c} : pc'[d] = pc[d]
    BY <2>1 DEF Typed, TypeOK
  <2>4. CASE \E d \in Calls : UnderWay(d)
    <3>1. alone' = {} /\ doubt' = Parts
      BY <1>1, <2>4 DEF Send
    <3> QED BY <2>1, <3>1 DEF Copies, Overlap, Agree, Parts
  <2>5. CASE ~\E d \in Calls : UnderWay(d)
    <3>1. alone' = {c} /\ doubt' = IF "tab" \in doubt THEN doubt \cup Fields ELSE doubt
      BY <1>1, <2>5 DEF Send
    <3>2. \A d \in Calls : UnderWay(d)' => d = c
      BY <2>3, <2>5 DEF UnderWay
    <3>3. /\ "copies" \in doubt' <=> "copies" \in doubt
          /\ "tab" \in doubt' <=> "tab" \in doubt
          /\ doubt \subseteq doubt'
      BY <3>1 DEF Fields
    <3>4. Overlap'
      BY <2>1, <3>1, <3>2, <3>3 DEF Copies, Overlap
    <3>5. "copies" \notin doubt => Settled
      BY <2>1, <2>5 DEF Copies, Agree
    <3>6. Settled => Settled' /\ Halfway(c)'
      <4>1. Settled => Settled' /\ Kept(Load(file))
        BY <2>1, <3>3 DEF Settled, InStep, Kept
      <4>2. Kept(Load(file)) => Kept(Load(file))'
        BY <2>1, <3>3 DEF Kept
      <4>3. Settled' => InStep(memory)'
        BY DEF Settled
      <4> QED BY <4>1, <4>2, <4>3 DEF Halfway
    <3>7. Carries(c)'
      <4>1. ASSUME NEW f \in Fields, f \notin doubt'
            PROVE  Validated(tab)[f] = Validated(want)[f]
        <5>1. "tab" \notin doubt /\ f \notin doubt
          BY <3>1, <4>1
        <5>2. "copies" \notin doubt
          BY <5>1 DEF Copies, Overlap
        <5> QED BY <3>5, <5>1, <5>2 DEF Settled, Kept
      <4>2. tab \in Settings /\ want \in Settings
        BY <2>1 DEF Typed, TypeOK, Shape
      <4>3. /\ Validated(tab).interval = Clamp(tab.interval) /\ Validated(tab).thresholds = tab.thresholds
            /\ Validated(want).interval = Clamp(want.interval) /\ Validated(want).thresholds = want.thresholds
        BY <4>2, Validation
      <4>4. "thresholds" \notin doubt' => tab.thresholds = want.thresholds
        BY <4>1, <4>3 DEF Fields
      <4>5. "interval" \notin doubt' => Clamp(tab.interval) = Clamp(want.interval)
        BY <4>1, <4>3 DEF Fields
      <4> QED BY <1>1, <2>1, <2>2, <4>4, <4>5, DefaultsValid DEF Carries
    <3>8. Progress(c)'
      BY <2>2, <3>7 DEF Progress
    <3>9. UnderWay(c)'
      BY <2>2 DEF UnderWay
    <3>10. \A d \in Calls : pc'[d] \in Early => d = c
      BY <3>2 DEF UnderWay, Early
    <3>11. Agree'
      BY <2>1, <3>3, <3>5, <3>6, <3>9, <3>10 DEF Agree
    <3> QED BY <3>1, <3>4, <3>8, <3>11 DEF Copies
  <2> QED BY <2>4, <2>5
<1>2. /\ \A i \in Intervals : tab # None => [tab EXCEPT !.interval = i].thresholds = tab.thresholds
      /\ \A t \in Thresholds : tab # None => [tab EXCEPT !.thresholds = t].interval = tab.interval
  BY DEF Typed, TypeOK, Settings
<1>3. CASE SubmitForm(c)
  <2>1. form.draft \in Thresholds /\ tab # None
    BY <1>3 DEF SubmitForm, Typed, Shape, Send
  <2> QED BY <1>1, <1>2, <1>3, <2>1 DEF SubmitForm
<1>4. CASE Reset(c)
  BY <1>1, <1>4 DEF Reset
<1>5. ASSUME NEW i \in Intervals, EditInterval(c, i) PROVE Copies'
  <2>1. Send(c, "save", [tab EXCEPT !.interval = i]) /\ tab # None
    BY <1>5 DEF EditInterval, Send
  <2>2. [tab EXCEPT !.interval = i].thresholds = tab.thresholds
    BY <1>2, <2>1
  <2> QED BY <1>1, <2>1, <2>2
<1> QED BY <1>3, <1>4, <1>5 DEF Use

LEMMA CopiesBackend ==
    ASSUME Typed, Typed', Copies, NEW c \in Calls,
           \/ Receive(c) \/ WriteTemp(c) \/ Rename(c) \/ SaveFails(c) \/ Remember(c)
           \/ Reconfigure(c) \/ ReadBack(c) \/ ResetDone(c)
    PROVE  Copies'
<1> DEFINE v == req[c].val
<1>1. /\ UnderWay(c) /\ UnderWay(c)' /\ \A d \in Calls \ {c} : pc'[d] = pc[d]
      /\ UNCHANGED <<alone, doubt, tab, want, fetch, crossed>>
  BY DEF Receive, WriteTemp, Rename, SaveFails, Remember, Reconfigure, ReadBack, ResetDone,
         Goto, AtBackend, UnderWay, histVars, loadVars, Typed, TypeOK
<1>2. v \in Settings /\ memory \in Settings
  BY DEF Typed, TypeOK
<1>3. /\ Validated(v) \in Settings /\ Load(Validated(v)) = Validated(v)
      /\ Validated(Validated(v)) = Validated(v) /\ Clamp(Validated(v).interval) = Clamp(v.interval)
  <2>1. Validated(v) \in Settings /\ Validated(Validated(v)) = Validated(v)
        /\ Clamp(Validated(v).interval) = Clamp(v.interval)
    BY <1>2, Validation
  <2>2. Load(Validated(v)) = Validated(v)
    BY <2>1, Validation
  <2> QED BY <2>1, <2>2
<1>4. c \in alone => Progress(c)
  BY DEF Copies
<1>5. "copies" \notin doubt /\ pc[c] \in Early => Halfway(c)
  <2>1. tab # None
    BY <1>1, OnlyOne
  <2> QED BY <2>1 DEF Copies, Agree
<1>6. req'[c].kind = req[c].kind
  BY DEF Receive, WriteTemp, Rename, SaveFails, Remember, Reconfigure, ReadBack, ResetDone,
         Goto, AtBackend, Typed, TypeOK, Shape
<1>7. ASSUME req'[c].val = req[c].val PROVE c \in alone => Carries(c)'
  BY <1>1, <1>4, <1>6, <1>7 DEF Progress, Carries
<1> DEFINE Goal == /\ c \in alone => Progress(c)'
                   /\ "copies" \notin doubt /\ pc'[c] \in Early => Halfway(c)'
<1> SUFFICES Goal
  BY <1>1, OfOne
<1> HIDE DEF v
<1>8. CASE Receive(c) \/ WriteTemp(c) \/ SaveFails(c)
  <2>1. /\ pc[c] \in Early /\ pc'[c] \in Early
        /\ UNCHANGED <<file, memory, period, req, retried, tab>>
    BY <1>8 DEF Receive, WriteTemp, SaveFails, Goto, AtBackend, Early, backVars, Typed, TypeOK
  <2>2. "copies" \notin doubt => Halfway(c)'
    BY <1>1, <1>5, <2>1 DEF Halfway, Settled, Kept, InStep
  <2>3. c \in alone => Progress(c)'
    BY <1>7, <2>1 DEF Progress, Early
  <2> QED BY <2>2, <2>3
<1>9. CASE Rename(c)
  <2>1. pc'[c] = "remember" /\ file' = Validated(v) /\ UNCHANGED <<req, tab>>
    BY <1>9 DEF Rename, Goto, AtBackend, v, Typed, TypeOK
  <2> QED BY <1>7, <2>1 DEF Progress, Early, v
<1>10. CASE Remember(c)
  <2>1. pc[c] = "remember" /\ pc'[c] = "tick" /\ memory' = Validated(v) /\ UNCHANGED <<file, req, tab>>
    BY <1>10 DEF Remember, Goto, AtBackend, v, Typed, TypeOK
  <2> QED BY <1>4, <1>7, <2>1 DEF Progress, Early, v
<1>11. CASE Reconfigure(c)
  <2>1. /\ pc[c] = "tick" /\ pc'[c] = "ok" /\ period' = Clamp(Validated(v).interval)
        /\ UNCHANGED <<file, memory, req, tab>>
    BY <1>11 DEF Reconfigure, Goto, AtBackend, v, Typed, TypeOK
  <2>2. c \in alone => file = Validated(v) /\ memory = Validated(v)
    BY <1>4, <2>1 DEF Progress, v
  <2>3. c \in alone => InStep(v)'
    BY <1>3, <2>1, <2>2 DEF InStep, v
  <2> QED BY <1>7, <2>1, <2>2, <2>3 DEF Progress, Early, v
<1>12. CASE ReadBack(c)
  <2>1. /\ pc[c] = "read" /\ pc'[c] = "got" /\ req'[c].val = memory /\ req'[c].kind = "reset"
        /\ req[c].kind = "reset" /\ UNCHANGED <<file, memory, period>>
    BY <1>12 DEF ReadBack, Goto, AtBackend, backVars, Typed, TypeOK, Shape
  <2>2. c \in alone => InStep(v) /\ Validated(v) = Defaults
    BY <1>1, <1>4, <2>1 DEF Progress, Carries, v
  <2>3. Validated(memory) = Validated(v) => Clamp(memory.interval) = Clamp(v.interval)
    BY <1>2, SameClamp
  <2>4. c \in alone => InStep(memory)' /\ Validated(memory) = Defaults
    BY <2>1, <2>2, <2>3 DEF InStep
  <2>5. c \in alone => InStep(req[c].val)' /\ Carries(c)'
    BY <2>1, <2>4 DEF InStep, Carries
  <2> QED BY <2>1, <2>5 DEF Progress, Early
<1>13. CASE ResetDone(c)
  <2>1. /\ pc[c] = "ok" /\ pc'[c] = "read" /\ req[c].kind = "reset"
        /\ UNCHANGED <<file, memory, period, req, tab>>
    BY <1>13 DEF ResetDone, Goto, backVars, Typed, TypeOK
  <2>2. c \in alone => InStep(v)'
    BY <1>4, <2>1 DEF Progress, InStep, v
  <2> QED BY <1>7, <2>1, <2>2 DEF Progress, Early, v
<1> QED BY <1>8, <1>9, <1>10, <1>11, <1>12, <1>13

LEMMA CopiesConfirmed ==
    ASSUME Typed, Copies, NEW c \in Calls, NEW fields \in SUBSET Fields, Confirmed(c, fields)
    PROVE  Copies'
<1> DEFINE v == req[c].val
<1>1. /\ UnderWay(c) /\ pc' = [pc EXCEPT ![c] = "done"] /\ tab' = v
      /\ UNCHANGED <<file, memory, period, req, retried, alone, fetch, crossed>>
      /\ doubt' = IF c \in alone THEN doubt \ (fields \cup {"copies", "tab"}) ELSE doubt
      /\ want' = [f \in Fields |-> IF f \in fields THEN v[f] ELSE want[f]]
  BY DEF Confirmed, Confirms, backVars, loadVars
<1>2. /\ alone \subseteq {c} /\ tab # None
      /\ c \notin alone => "copies" \in doubt
      /\ c \in alone => \A d \in Calls \ {c} : ~UnderWay(d)
  BY <1>1, OnlyOne
<1>3. pc'[c] = "done" /\ \A d \in Calls \ {c} : pc'[d] = pc[d]
  BY <1>1 DEF Typed, TypeOK
<1>4. \A d \in Calls : UnderWay(d)' => UnderWay(d) /\ d # c
  BY <1>3 DEF UnderWay
<1>5. Overlap'
  <2>1. "copies" \in doubt' => doubt' = doubt
    BY <1>1
  <2>2. "copies" \notin doubt' => \A d \in Calls : ~UnderWay(d)'
    BY <1>1, <1>2, <1>4
  <2> QED BY <1>1, <1>4, <2>1, <2>2 DEF Copies, Overlap
<1>6. \A d \in alone' : Progress(d)'
  BY <1>1, <1>2, <1>3 DEF Progress, UnderWay
<1>7. CASE c \notin alone
  <2>1. "copies" \in doubt'
    BY <1>1, <1>2, <1>7
  <2> QED BY <1>5, <1>6, <2>1 DEF Copies, Agree
<1>8. CASE c \in alone
  <2>1. \A d \in Calls : ~UnderWay(d)'
    BY <1>2, <1>4, <1>8
  <2>2. InStep(v) /\ Carries(c) /\ pc[c] \in {"ok", "got"}
    <3>1. Progress(c)
      BY <1>8 DEF Copies
    <3> QED BY <1>1, <3>1 DEF Confirmed, Progress
  <2>3. v \in Settings /\ memory \in Settings /\ want \in Settings /\ tab' # None
    BY <1>1, <1>2, NullsAssumption DEF Typed, TypeOK, Shape
  <2>4. InStep(memory)' /\ Validated(tab') = Validated(memory')
    <3>1. Validated(memory) = Validated(v) /\ period = Clamp(v.interval)
      BY <2>2 DEF InStep
    <3>2. Clamp(memory.interval) = Clamp(v.interval)
      BY <2>3, <3>1, SameClamp
    <3> QED BY <1>1, <2>2, <3>1, <3>2 DEF InStep
  <2>5. \A d \in Calls : pc'[d] \notin Early
    BY <2>1 DEF UnderWay, Early
  <2>6. /\ want' \in Settings
        /\ want'.interval = IF "interval" \in fields THEN v.interval ELSE want.interval
        /\ want'.thresholds = IF "thresholds" \in fields THEN v.thresholds ELSE want.thresholds
    <3> DEFINE w == [f \in Fields |-> IF f \in fields THEN v[f] ELSE want[f]]
    <3>1. /\ w \in Settings
          /\ w.interval = IF "interval" \in fields THEN v.interval ELSE want.interval
          /\ w.thresholds = IF "thresholds" \in fields THEN v.thresholds ELSE want.thresholds
      <4>1. fields \in SUBSET Fields /\ v \in Settings /\ want \in Settings
        BY <2>3
      <4> HIDE DEF v
      <4> QED BY ONLY <4>1, WantedAfter
    <3>2. want' = w
      BY <1>1
    <3> HIDE DEF w
    <3> QED BY <3>1, <3>2
  <2>7. /\ Validated(v).interval = Clamp(v.interval) /\ Validated(v).thresholds = v.thresholds
        /\ Validated(want').interval = Clamp(want'.interval) /\ Validated(want').thresholds = want'.thresholds
    BY <2>3, <2>6, Validation
  <2>8. "interval" \notin doubt' => Clamp(v.interval) = Clamp(want'.interval)
    <3>1. CASE "interval" \in fields
      BY <2>6, <3>1
    <3>2. CASE "interval" \notin fields
      <4>1. req[c].kind = "form"
        BY <2>2, <3>2 DEF Confirmed, Fields
      <4>2. "interval" \notin doubt' => "interval" \notin doubt
        BY <1>1, <3>2
      <4> QED BY <2>2, <2>6, <3>2, <4>1, <4>2 DEF Carries
    <3> QED BY <3>1, <3>2
  <2>9. "thresholds" \notin doubt' => v.thresholds = want'.thresholds
    <3>1. CASE "thresholds" \in fields
      BY <2>6, <3>1
    <3>2. CASE "thresholds" \notin fields
      <4>1. req[c].kind = "save"
        BY <2>2, <3>2 DEF Confirmed, Fields
      <4>2. "thresholds" \notin doubt' => "thresholds" \notin doubt
        BY <1>1, <3>2
      <4> QED BY <2>2, <2>6, <3>2, <4>1, <4>2 DEF Carries
    <3> QED BY <3>1, <3>2
  <2>10. Kept(memory)'
    <3>1. \A f \in Fields \ doubt' : Validated(v)[f] = Validated(want')[f]
      BY <2>7, <2>8, <2>9 DEF Fields
    <3>2. Validated(memory') = Validated(v)
      BY <1>1, <2>4
    <3> QED BY <3>1, <3>2 DEF Kept
  <2>11. fetch'.pc = "read" => crossed'
    BY <1>1 DEF Copies, Overlap
  <2>12. Agree'
    BY <2>3, <2>4, <2>5, <2>10, <2>11 DEF Agree, Settled
  <2> QED BY <1>5, <1>6, <2>12 DEF Copies
<1> QED BY <1>7, <1>8

LEMMA CopiesFailed ==
    ASSUME Typed, Copies, NEW c \in Calls, Failed(c)
    PROVE  Copies'
<1>1. /\ UnderWay(c) /\ pc[c] = "error" /\ pc' = [pc EXCEPT ![c] = "done"]
      /\ UNCHANGED <<file, memory, period, req, retried, tab, want, alone, fetch, crossed>>
      /\ doubt' = IF c \in retried THEN Parts ELSE doubt
  BY DEF Failed, Goto, UnderWay, backVars, loadVars
<1>2. /\ alone \subseteq {c} /\ tab # None
      /\ c \notin alone => "copies" \in doubt
      /\ c \in alone => \A d \in Calls \ {c} : ~UnderWay(d)
  BY <1>1, OnlyOne
<1>3. pc'[c] = "done" /\ \A d \in Calls \ {c} : pc'[d] = pc[d]
  BY <1>1 DEF Typed, TypeOK
<1>4. \A d \in Calls : UnderWay(d)' => UnderWay(d) /\ d # c
  BY <1>3 DEF UnderWay
<1>5. Overlap'
  BY <1>1, <1>2, <1>4 DEF Copies, Overlap, Parts
<1>6. \A d \in alone' : Progress(d)'
  BY <1>1, <1>2, <1>3 DEF Progress, UnderWay
<1>7. ASSUME "copies" \notin doubt'
      PROVE  c \notin retried /\ c \in alone /\ "copies" \notin doubt /\ doubt' = doubt
  BY <1>1, <1>2, <1>7 DEF Parts
<1>8. "copies" \notin doubt' => Settled /\ \A d \in Calls : ~UnderWay(d)'
  BY <1>1, <1>2, <1>4, <1>7 DEF Copies, Agree, Early, Halfway
<1>9. "copies" \notin doubt' => Settled'
  BY <1>1, <1>7, <1>8 DEF Settled, InStep, Kept
<1>10. \A d \in Calls : ~UnderWay(d)' => pc'[d] \notin Early
  BY DEF UnderWay, Early
<1>11. fetch'.pc = "read" => crossed'
  BY <1>1 DEF Copies, Overlap
<1>12. Agree'
  BY <1>1, <1>2, <1>8, <1>9, <1>10, <1>11 DEF Agree
<1> QED BY <1>5, <1>6, <1>12 DEF Copies

LEMMA CopiesCrash == Typed /\ Copies /\ Crash => Copies'
<1> SUFFICES ASSUME Typed, Copies, Crash PROVE Copies'
  OBVIOUS
<1>1. PICK s \in {Load(file), Defaults} :
          memory' = s /\ period' = Clamp(s.interval) /\ doubt' = Upset(s, doubt)
  BY DEF Crash
<1>2. /\ retried' = retried \cup {c \in Calls : InBackend(c)}
      /\ UNCHANGED <<file, req, tab, want, alone, fetch, crossed>>
      /\ \A c \in Calls : pc'[c] = IF ~InBackend(c) THEN pc[c]
                                   ELSE IF c \in retried THEN "error"
                                   ELSE IF pc[c] = "read" THEN "read" ELSE "sent"
  BY DEF Crash, loadVars
<1>3. \A c \in Calls : /\ UnderWay(c)' <=> UnderWay(c)
                       /\ pc'[c] \notin {"remember", "tick", "ok"}
                       /\ pc'[c] \in {"read", "got"} => pc[c] = pc'[c]
                       /\ pc'[c] \in Early => InBackend(c)
  BY <1>2 DEF InBackend, UnderWay, Early, Typed, TypeOK
<1>4. /\ doubt \subseteq doubt' /\ ("copies" \notin doubt' => s = Load(file) /\ doubt' = doubt)
      /\ "copies" \in doubt' => Fields \subseteq doubt'
  BY <1>1 DEF Upset, Parts, Copies, Overlap, Typed, TypeOK
<1>5. Load(file) \in Settings /\ memory \in Settings /\ s \in Settings
  BY <1>1, Loaded, DefaultsTyped DEF Typed, TypeOK
<1>6. Overlap'
  BY <1>2, <1>3, <1>4 DEF Copies, Overlap
<1>7. ASSUME NEW c \in alone PROVE Progress(c)'
  <2>1. Progress(c) /\ c \in Calls /\ req[c].val \in Settings
    BY DEF Copies, Typed, TypeOK
  <2>2. UnderWay(c) => Carries(c)'
    BY <1>2, <1>4, <2>1 DEF Progress, Carries
  <2>3. ASSUME pc'[c] \in {"ok", "read", "got"} PROVE InStep(req[c].val)'
    <3>1. pc[c] \in {"read", "got"} /\ UnderWay(c)
      BY <1>3, <2>1, <2>3 DEF UnderWay
    <3>2. InStep(req[c].val) /\ Validated(req[c].val) = Defaults
      BY <2>1, <3>1 DEF Progress, Carries, Typed, Shape
    <3>3. Validated(s) = Validated(req[c].val)
      BY <1>1, <3>2, DefaultsValid DEF InStep
    <3>4. Clamp(s.interval) = Clamp(req[c].val.interval)
      BY <1>5, <2>1, <3>3, SameClamp
    <3> QED BY <1>1, <1>2, <3>2, <3>3, <3>4 DEF InStep
  <2> QED BY <1>3, <2>1, <2>2, <2>3 DEF Progress
<1>8. ASSUME "copies" \notin doubt' PROVE Agree'
  <2>1. /\ memory' = Load(file) /\ period' = Clamp(Load(file).interval)
        /\ doubt' = doubt /\ "copies" \notin doubt
    BY <1>1, <1>4, <1>8
  <2>2. InStep(memory)'
    BY <1>2, <2>1 DEF InStep
  <2>3. Kept(Load(file)) => Kept(Load(file))' /\ Kept(memory)'
    BY <1>2, <2>1 DEF Kept
  <2>4. ASSUME Settled PROVE Settled' /\ Validated(memory') = Validated(memory)
    <3>1. Validated(Load(file)) = Validated(memory)
      BY <2>4 DEF Settled, InStep
    <3>2. Kept(Load(file))
      BY <2>4, <3>1 DEF Settled, Kept
    <3>3. "tab" \notin doubt' => Validated(tab') = Validated(memory')
      BY <1>2, <2>1, <2>4, <3>1 DEF Settled
    <3> QED BY <2>1, <2>2, <2>3, <3>1, <3>2, <3>3 DEF Settled
  <2>5. ASSUME NEW c \in Calls, pc'[c] \in Early
        PROVE  Halfway(c)'
    <3>1. InBackend(c) /\ c \in retried' /\ UnderWay(c)
      BY <1>2, <1>3, <2>5 DEF InBackend
    <3>2. Progress(c) /\ req[c].val \in Settings
      BY <2>1, <3>1 DEF Copies, Overlap, Typed, TypeOK
    <3>3. Validated(Load(file)) = Validated(req[c].val) \/ Kept(Load(file))
      <4>1. CASE pc[c] \in Early
        BY <2>1, <4>1 DEF Copies, Agree, Halfway
      <4>2. CASE pc[c] = "read"
        BY <3>2, <4>2 DEF Progress, InStep
      <4>3. CASE pc[c] \in {"remember", "tick", "ok"}
        <5>1. file = Validated(req[c].val)
          BY <3>2, <4>3 DEF Progress
        <5>2. Validated(req[c].val) \in Settings /\ Validated(Validated(req[c].val)) = Validated(req[c].val)
          BY <3>2, Validation
        <5>3. Load(file) = file
          BY <5>1, <5>2, Validation
        <5> QED BY <5>1, <5>2, <5>3
      <4>4. pc[c] \in Early \cup {"read"} \cup {"remember", "tick", "ok"}
        BY <3>1 DEF InBackend, UnderWay, Early, Typed, TypeOK
      <4> QED BY <4>1, <4>2, <4>3, <4>4
    <3> QED BY <1>2, <2>2, <2>3, <3>1, <3>3 DEF Halfway
  <2>6. ASSUME fetch.pc = "read", ~crossed
        PROVE  Validated(fetch.val) = Validated(memory')
    <3>1. \A c \in Calls : ~UnderWay(c)
      BY <2>6 DEF Copies, Overlap
    <3>2. Validated(fetch.val) = Validated(memory)
      BY <2>1, <2>6 DEF Copies, Agree
    <3>3. CASE tab = None
      BY <2>1, <3>2, <3>3 DEF Copies, Agree, InStep
    <3>4. CASE tab # None
      BY <2>1, <2>4, <3>1, <3>2, <3>4 DEF Copies, Agree
    <3> QED BY <3>3, <3>4
  <2>7. tab' # None /\ (\A c \in Calls : ~UnderWay(c)') => Settled'
    BY <1>2, <1>3, <2>1, <2>4 DEF Copies, Agree
  <2> QED BY <1>2, <2>2, <2>5, <2>6, <2>7 DEF Agree
<1>9. Agree'
  BY <1>8 DEF Agree
<1> QED BY <1>2, <1>6, <1>7, <1>9 DEF Copies

LEMMA CopiesInvariant == Spec => [](Typed /\ Copies)
<1>1. Typed /\ Typed' /\ Copies /\ [Next]_vars => Copies'
  <2> SUFFICES ASSUME Typed, Typed', Copies, [Next]_vars PROVE Copies'
    OBVIOUS
  <2>1. CASE UNCHANGED vars
    BY <2>1, OfFetch DEF Copies, Overlap, Agree, vars, backVars, callVars, histVars, loadVars
  <2>2. ASSUME NEW c \in Calls, Serve(c) PROVE Copies'
    <3>1. CASE Saved(c) \/ FormSaved(c) \/ ResetRead(c)
      BY <3>1, Confirmations, CopiesConfirmed
    <3>2. CASE Failed(c)
      BY <3>2, CopiesFailed
    <3> QED BY <2>2, <3>1, <3>2, CopiesBackend DEF Serve
  <2>3. CASE Next
    BY <2>2, <2>3, CopiesTab, CopiesUse, CopiesCrash DEF Next
  <2> QED BY <2>1, <2>3
<1> QED BY TypedInvariant, CopiesInitial, <1>1, PTL DEF Spec

(* Once no call is under way the file, the backend's copy, the ticker and   *)
(* the frontend's copy agree on the user's confirmed edits, for any         *)
(* settings, calls, kills and fetches, with SettledSettingsAgree's own      *)
(* exceptions: overlapping calls, a call that failed after it was sent      *)
(* twice, a start that misread the file, and an answer of the query that    *)
(* crossed a call (useSaveSettings, Service.SaveSettings, Reconfigure).     *)
THEOREM SettledSettingsAgreeThm == Spec => []SettledSettingsAgree
<1>1. Typed /\ Copies => SettledSettingsAgree
  BY DEF Copies, Agree, Settled, Kept, InStep, SettledSettingsAgree, CopiesAgree, EditsKept, Quiet
<1> QED BY CopiesInvariant, <1>1, PTL

(* A kill of the backend at any moment leaves in the file the confirmed     *)
(* edits or what a call under way is saving, with the same exceptions       *)
(* (FileSettingsStore.Save).                                                *)
THEOREM KilledKeepsSettingsThm == Spec => []KilledKeepsSettings
<1>1. Typed /\ Copies => KilledKeepsSettings
  <2> SUFFICES ASSUME Typed, Copies, tab # None, "copies" \notin doubt
               PROVE  \/ Kept(Load(file))
                      \/ \E c \in Calls : UnderWay(c) /\ Validated(Load(file)) = Validated(req[c].val)
    BY DEF KilledKeepsSettings, Kept
  <2>1. CASE \A c \in Calls : ~UnderWay(c)
    BY <2>1 DEF Copies, Agree, Settled, InStep, Kept
  <2>2. ASSUME NEW c \in Calls, UnderWay(c)
        PROVE  Kept(Load(file)) \/ Validated(Load(file)) = Validated(req[c].val)
    <3>1. Progress(c) /\ req[c].val \in Settings
      BY <2>2 DEF Copies, Overlap, Typed, TypeOK
    <3>2. CASE pc[c] \in Early
      BY <3>2 DEF Copies, Agree, Halfway
    <3>3. CASE pc[c] \in {"read", "got"}
      BY <3>1, <3>3 DEF Progress, InStep
    <3>4. CASE pc[c] \in {"remember", "tick", "ok"}
      <4>1. Validated(req[c].val) \in Settings /\ Validated(Validated(req[c].val)) = Validated(req[c].val)
        BY <3>1, Validation
      <4>2. file = Validated(req[c].val)
        BY <3>1, <3>4 DEF Progress
      <4>3. Load(file) = file
        BY <4>1, <4>2, Validation
      <4> QED BY <4>1, <4>2, <4>3
    <3> QED BY <2>2, <3>2, <3>3, <3>4 DEF UnderWay, Early, Typed, TypeOK
  <2> QED BY <2>1, <2>2
<1> QED BY CopiesInvariant, <1>1, PTL

-----------------------------------------------------------------------------
(* The form. Its save, of which there is one at a time, carries the draft, *)
(* unless the user has typed on since.                                     *)

Drafts ==
    \A c \in Calls : UnderWay(c) /\ req[c].kind = "form" =>
        /\ form.dirty /\ (~rash => form.draft = req[c].val.thresholds)
        /\ \A d \in Calls : UnderWay(d) /\ req[d].kind = "form" => d = c

LEMMA DraftsConfirmed ==
    ASSUME Typed, Drafts, NEW c \in Calls, NEW fields \in SUBSET Fields, Confirmed(c, fields)
    PROVE  /\ Drafts'
           /\ form.dirty /\ ~rash => form'.draft = form.draft
<1>1. /\ UnderWay(c) /\ pc[c] \in {"ok", "got"} /\ pc' = [pc EXCEPT ![c] = "done"]
      /\ UNCHANGED <<req, rash>>
  BY DEF Confirmed, Confirms
<1>2. req[c].val \in Settings /\ form \in FormSet /\ (form.dirty => form.draft \in Thresholds)
  BY DEF Typed, TypeOK, Shape, FormSet
<1>3. pc'[c] = "done" /\ \A d \in Calls \ {c} : pc'[d] = pc[d]
  BY <1>1 DEF Typed, TypeOK
<1>4. \A d \in Calls : UnderWay(d)' => UnderWay(d) /\ d # c
  BY <1>3 DEF UnderWay
<1>5. CASE req[c].kind # "form"
  <2>1. form' = Sync(req[c].val, form)
    BY <1>5 DEF Confirmed
  <2>2. form.dirty => form' = form
    BY <1>2, <2>1, SyncTyped
  <2> QED BY <1>1, <1>4, <2>2 DEF Drafts
<1>6. CASE req[c].kind = "form"
  <2> DEFINE clean == [form EXCEPT !.dirty = FALSE]
  <2>1. form' = Sync(req[c].val, clean)
    BY <1>6 DEF Confirmed, Typed, Shape
  <2>2. form.dirty /\ (~rash => form.draft = req[c].val.thresholds)
    BY <1>1, <1>6 DEF Drafts
  <2>3. clean \in FormSet /\ ~clean.dirty /\ clean.draft = form.draft
    BY <1>2 DEF FormSet
  <2> HIDE DEF clean
  <2>4. form'.draft \in {clean.draft, req[c].val.thresholds}
    BY <1>2, <2>1, <2>3, SyncTyped
  <2>5. \A d \in Calls : ~(UnderWay(d)' /\ req'[d].kind = "form")
    BY <1>1, <1>4, <1>6 DEF Drafts
  <2> QED BY <2>2, <2>3, <2>4, <2>5 DEF Drafts
<1> QED BY <1>5, <1>6

LEMMA FetchedDraft ==
    ASSUME Typed, OpenTab \/ Refetch \/ FetchReads \/ Fetched \/ FetchFails
    PROVE  form.dirty => form' = form
<1>1. form \in FormSet /\ (form.dirty => form.draft \in Thresholds)
  BY DEF Typed, TypeOK, Shape, FormSet
<1>2. \A s \in Settings : form.dirty => Sync(s, form) = form
  BY <1>1, SyncTyped
<1>3. (tab # None => tab \in Settings) /\ fetch.val \in Settings
  BY DEF Typed, TypeOK
<1> QED BY <1>2, <1>3 DEF OpenTab, Refetch, FetchReads, Fetched, FetchFails, formVars

LEMMA DraftsStep ==
    ASSUME Typed, Drafts, Next
    PROVE  Drafts'
<1>1. CASE OpenTab \/ Refetch \/ FetchReads \/ Fetched \/ FetchFails
  <2>1. UNCHANGED <<pc, req, rash>>
    BY <1>1 DEF OpenTab, Refetch, FetchReads, Fetched, FetchFails, callVars, formVars
  <2>2. form.dirty => form' = form
    BY <1>1, FetchedDraft
  <2> QED BY <2>1, <2>2 DEF Drafts, UnderWay
<1>2. ASSUME NEW t \in Thresholds, Type(t) PROVE Drafts'
  <2>1. form'.dirty /\ rash' = Saving /\ UNCHANGED <<pc, req>>
    BY <1>2 DEF Type, callVars, Typed, TypeOK
  <2>2. ASSUME NEW c \in Calls, UnderWay(c), req[c].kind = "form" PROVE rash'
    BY <2>1, <2>2, Zenon DEF Saving
  <2> QED BY <2>1, <2>2 DEF Drafts, UnderWay
<1>3. CASE Crash
  <2>1. \A c \in Calls : UnderWay(c)' <=> UnderWay(c)
    BY <1>3 DEF Crash, InBackend, UnderWay, Typed, TypeOK
  <2>2. UNCHANGED <<req, form, rash>>
    BY <1>3 DEF Crash, formVars
  <2> QED BY <2>1, <2>2 DEF Drafts
<1>4. ASSUME NEW c \in Calls, Use(c) PROVE Drafts'
  <2>1. PICK kind, val : /\ Send(c, kind, val)
                         /\ kind = "form" => form.dirty /\ ~Saving /\ val.thresholds = form.draft
    <3>1. CASE SubmitForm(c)
      <4>1. tab \in Settings
        BY <3>1 DEF SubmitForm, Send, Typed, TypeOK
      <4>2. [tab EXCEPT !.thresholds = form.draft].thresholds = form.draft
        BY <4>1 DEF Settings
      <4> QED BY <3>1, <4>2 DEF SubmitForm
    <3>2. CASE Reset(c)
      BY <3>2 DEF Reset
    <3>3. CASE \E i \in Intervals : EditInterval(c, i)
      BY <3>3 DEF EditInterval
    <3> QED BY <1>4, <3>1, <3>2, <3>3 DEF Use
  <2>2. /\ pc[c] = "idle" /\ UNCHANGED <<form, rash>>
        /\ pc' = [pc EXCEPT ![c] = "sent"] /\ req' = [req EXCEPT ![c] = [kind |-> kind, val |-> val]]
    BY <2>1 DEF Send, formVars
  <2>3. /\ req'[c] = [kind |-> kind, val |-> val]
        /\ \A d \in Calls \ {c} : pc'[d] = pc[d] /\ req'[d] = req[d]
    BY <2>2 DEF Typed, TypeOK
  <2>4. \A d \in Calls \ {c} : UnderWay(d)' <=> UnderWay(d)
    BY <2>3 DEF UnderWay
  <2> QED BY <2>1, <2>2, <2>3, <2>4 DEF Drafts, Saving
<1>5. ASSUME NEW c \in Calls, Serve(c) PROVE Drafts'
  <2>1. CASE Saved(c) \/ FormSaved(c) \/ ResetRead(c)
    BY <2>1, Confirmations, DraftsConfirmed
  <2>2. CASE Failed(c)
    <3>1. /\ pc'[c] = "done" /\ UNCHANGED req /\ UnderWay(c)
          /\ \A d \in Calls \ {c} : pc'[d] = pc[d]
      BY <2>2 DEF Failed, Goto, UnderWay, Typed, TypeOK
    <3>2. \A d \in Calls : UnderWay(d)' => UnderWay(d) /\ d # c
      BY <3>1 DEF UnderWay
    <3>3. CASE req[c].kind = "form"
      BY <3>1, <3>2, <3>3 DEF Drafts
    <3>4. CASE req[c].kind # "form"
      <4>1. UNCHANGED <<form, rash>>
        BY <2>2, <3>4 DEF Failed
      <4> QED BY <3>1, <3>2, <4>1 DEF Drafts
    <3> QED BY <3>3, <3>4
  <2>3. CASE \/ Receive(c) \/ WriteTemp(c) \/ Rename(c) \/ SaveFails(c) \/ Remember(c)
             \/ Reconfigure(c) \/ ReadBack(c) \/ ResetDone(c)
    <3>1. /\ UnderWay(c) /\ \A d \in Calls \ {c} : pc'[d] = pc[d] /\ req'[d] = req[d]
          /\ req'[c].kind = req[c].kind /\ (req[c].kind = "form" => req' = req)
          /\ UNCHANGED <<form, rash>>
      BY <2>3 DEF Receive, WriteTemp, Rename, SaveFails, Remember, Reconfigure, ReadBack, ResetDone,
             Goto, AtBackend, UnderWay, formVars, Typed, TypeOK, Shape
    <3>2. \A d \in Calls : UnderWay(d)' => UnderWay(d)
      BY <3>1 DEF UnderWay
    <3> QED BY <3>1, <3>2 DEF Drafts
  <2> QED BY <1>5, <2>1, <2>2, <2>3 DEF Serve
<1> QED BY <1>1, <1>2, <1>3, <1>4, <1>5 DEF Next

(* What the user has typed in the form and not saved stays in it when the  *)
(* tab takes settings from a save, a reset or a fetch, except what was typed *)
(* while a form save was under way or before one that failed               *)
(* (ThresholdsSection's isDirty).                                          *)
THEOREM DraftSurvivesThm == Spec => DraftSurvives
<1>1. Init => Drafts
  BY DEF Init, Drafts, UnderWay
<1>2. Typed /\ Drafts /\ [Next]_vars => Drafts'
  BY DraftsStep DEF Drafts, UnderWay, vars, callVars, formVars
<1>3. ASSUME Typed, Drafts, [Next]_vars
      PROVE  [form.dirty /\ ~rash /\ tab' # tab => form'.draft = form.draft]_vars
  <2> SUFFICES ASSUME Next, form.dirty, ~rash, tab' # tab PROVE form'.draft = form.draft
    BY <1>3, Zenon
  <2>1. CASE OpenTab \/ Refetch \/ FetchReads \/ Fetched \/ FetchFails
    BY <1>3, <2>1, FetchedDraft
  <2>2. CASE \E t \in Thresholds : Type(t)
    BY <2>2 DEF Type
  <2>3. CASE Crash
    BY <2>3 DEF Crash
  <2>4. ASSUME NEW c \in Calls, Use(c) PROVE FALSE
    BY <2>4 DEF Use, SubmitForm, Reset, EditInterval, Send
  <2>5. ASSUME NEW c \in Calls, Serve(c) PROVE form'.draft = form.draft
    <3>1. CASE Saved(c) \/ FormSaved(c) \/ ResetRead(c)
      BY <1>3, <3>1, Confirmations, DraftsConfirmed
    <3>2. CASE ~(Saved(c) \/ FormSaved(c) \/ ResetRead(c))
      BY <2>5, <3>2 DEF Serve, Receive, WriteTemp, Rename, SaveFails, Remember, Reconfigure, ReadBack,
                        ResetDone, Failed, AtBackend
    <3> QED BY <3>1, <3>2
  <2> QED BY <2>1, <2>2, <2>3, <2>4, <2>5 DEF Next
<1> QED BY TypedInvariant, <1>1, <1>2, <1>3, PTL DEF Spec, DraftSurvives

-----------------------------------------------------------------------------
(* The order list of MonitorViews.                                        *)

\* What taking a row out and putting it back in leaves at every index.
LEMMA Removed ==
    ASSUME NEW S, NEW o \in Seq(S), NEW f \in 1 .. Len(o)
    PROVE  /\ RemoveAt(o, f) \in Seq(S) /\ Len(RemoveAt(o, f)) = Len(o) - 1
           /\ \A k \in 1 .. Len(o) - 1 : RemoveAt(o, f)[k] = IF k < f THEN o[k] ELSE o[k + 1]
<1> DEFINE a == SubSeq(o, 1, f - 1)
           b == SubSeq(o, f + 1, Len(o))
           r == a \o b
<1>1. Len(o) \in Nat /\ f \in Nat /\ f >= 1 /\ f <= Len(o)
  OBVIOUS
<1>2. /\ a \in Seq(S) /\ Len(a) = f - 1
      /\ \A k \in 1 .. f - 1 : a[k] = o[k]
  BY <1>1
<1>3. /\ b \in Seq(S) /\ Len(b) = Len(o) - f
      /\ \A k \in 1 .. Len(o) - f : b[k] = o[k + f]
  BY <1>1
<1> HIDE DEF a, b
<1>4. /\ r \in Seq(S) /\ Len(r) = Len(a) + Len(b)
      /\ \A k \in 1 .. Len(a) + Len(b) : r[k] = IF k <= Len(a) THEN a[k] ELSE b[k - Len(a)]
  BY <1>2, <1>3, ConcatProperties
<1>5. RemoveAt(o, f) = r
  BY DEF RemoveAt, a, b, r
<1> HIDE DEF r
<1>6. ASSUME NEW k \in 1 .. Len(o) - 1
      PROVE  r[k] = IF k < f THEN o[k] ELSE o[k + 1]
  <2>1. k \in 1 .. Len(a) + Len(b)
    BY <1>1, <1>2, <1>3
  <2>2. CASE k < f
    BY <1>1, <1>2, <1>4, <2>1, <2>2
  <2>3. CASE k >= f
    <3>1. r[k] = b[k - (f - 1)] /\ k - (f - 1) \in 1 .. Len(o) - f
      BY <1>1, <1>2, <1>4, <2>1, <2>3
    <3>2. b[k - (f - 1)] = o[k - (f - 1) + f]
      BY <1>3, <3>1
    <3>3. k - (f - 1) + f = k + 1 /\ ~(k < f)
      BY <1>1, <2>3
    <3> QED BY <3>1, <3>2, <3>3
  <2> QED BY <1>1, <2>2, <2>3
<1>7. RemoveAt(o, f) \in Seq(S) /\ Len(RemoveAt(o, f)) = Len(o) - 1
  BY <1>1, <1>2, <1>3, <1>4, <1>5
<1> QED BY <1>5, <1>6, <1>7

LEMMA Inserted ==
    ASSUME NEW S, NEW o \in Seq(S), NEW t \in 1 .. Len(o) + 1, NEW x \in S
    PROVE  /\ InsertAt(o, t, x) \in Seq(S) /\ Len(InsertAt(o, t, x)) = Len(o) + 1
           /\ \A k \in 1 .. Len(o) + 1 :
                InsertAt(o, t, x)[k] = IF k < t THEN o[k] ELSE IF k = t THEN x ELSE o[k - 1]
<1> DEFINE a == SubSeq(o, 1, t - 1)
           b == SubSeq(o, t, Len(o))
           c == a \o <<x>>
           r == c \o b
<1>1. Len(o) \in Nat /\ t \in Nat /\ t >= 1 /\ t <= Len(o) + 1
  OBVIOUS
<1>2. /\ a \in Seq(S) /\ Len(a) = t - 1
      /\ \A k \in 1 .. t - 1 : a[k] = o[k]
  BY <1>1
<1>3. /\ b \in Seq(S) /\ Len(b) = Len(o) - t + 1
      /\ \A k \in 1 .. Len(o) - t + 1 : b[k] = o[k + t - 1]
  BY <1>1
<1>4. /\ c \in Seq(S) /\ Len(c) = t
      /\ \A k \in 1 .. t - 1 : c[k] = o[k]
      /\ c[t] = x
  <2> HIDE DEF a
  <2>1. <<x>> \in Seq(S) /\ Len(<<x>>) = 1 /\ <<x>>[1] = x
    OBVIOUS
  <2> QED BY <1>1, <1>2, <2>1, ConcatProperties
<1> HIDE DEF b, c
<1>5. /\ r \in Seq(S) /\ Len(r) = Len(c) + Len(b)
      /\ \A k \in 1 .. Len(c) + Len(b) : r[k] = IF k <= Len(c) THEN c[k] ELSE b[k - Len(c)]
  BY <1>3, <1>4, ConcatProperties
<1>6. InsertAt(o, t, x) = r
  BY DEF InsertAt, c, b, r
<1> HIDE DEF r
<1>7. ASSUME NEW k \in 1 .. Len(o) + 1
      PROVE  r[k] = IF k < t THEN o[k] ELSE IF k = t THEN x ELSE o[k - 1]
  <2>1. k \in 1 .. Len(c) + Len(b) /\ (k <= t <=> k <= Len(c))
    BY <1>1, <1>3, <1>4
  <2>2. CASE k <= t
    BY <1>1, <1>4, <1>5, <2>1, <2>2
  <2>3. CASE k > t
    <3>1. r[k] = b[k - t] /\ k - t \in 1 .. Len(o) - t + 1
      BY <1>1, <1>4, <1>5, <2>1, <2>3
    <3>2. b[k - t] = o[k - t + t - 1]
      BY <1>3, <3>1
    <3>3. k - t + t - 1 = k - 1 /\ ~(k < t) /\ k # t
      BY <1>1, <2>3
    <3> QED BY <3>1, <3>2, <3>3
  <2> QED BY <1>1, <2>2, <2>3
<1>8. InsertAt(o, t, x) \in Seq(S) /\ Len(InsertAt(o, t, x)) = Len(o) + 1
  BY <1>1, <1>3, <1>4, <1>5, <1>6
<1> QED BY <1>6, <1>7, <1>8

\* A row between the two indices moves by one towards the index it left.
LEMMA MovedRows ==
    ASSUME NEW S, NEW o \in Seq(S), NEW f \in 1 .. Len(o), NEW t \in 1 .. Len(o)
    PROVE  /\ Moved(o, f, t) \in Seq(S) /\ Len(Moved(o, f, t)) = Len(o)
           /\ \A k \in 1 .. Len(o) :
                Moved(o, f, t)[k] = IF k = t THEN o[f]
                                    ELSE IF k > t /\ k <= f THEN o[k - 1]
                                    ELSE IF k < t /\ k >= f THEN o[k + 1]
                                    ELSE o[k]
<1> DEFINE r == RemoveAt(o, f)
<1>1. /\ r \in Seq(S) /\ Len(r) = Len(o) - 1
      /\ \A k \in 1 .. Len(o) - 1 : r[k] = IF k < f THEN o[k] ELSE o[k + 1]
  BY Removed
<1>2. o[f] \in S /\ Len(o) \in Nat
  OBVIOUS
<1> HIDE DEF r
<1>3. Len(r) + 1 = Len(o) /\ t \in 1 .. Len(r) + 1
  BY <1>1, <1>2
<1> DEFINE m == InsertAt(r, t, o[f])
<1>4. /\ m \in Seq(S) /\ Len(m) = Len(r) + 1
      /\ \A k \in 1 .. Len(r) + 1 : m[k] = IF k < t THEN r[k] ELSE IF k = t THEN o[f] ELSE r[k - 1]
  <2>1. t \in 1 .. Len(r) + 1 /\ r \in Seq(S) /\ o[f] \in S
    BY <1>1, <1>2, <1>3
  <2>2. ASSUME NEW x \in S
        PROVE  /\ InsertAt(r, t, x) \in Seq(S) /\ Len(InsertAt(r, t, x)) = Len(r) + 1
               /\ \A k \in 1 .. Len(r) + 1 :
                    InsertAt(r, t, x)[k] = IF k < t THEN r[k] ELSE IF k = t THEN x ELSE r[k - 1]
    BY ONLY <2>1, Inserted, x \in S, SMTT(30)
  <2>3. PICK x \in S : x = o[f]
    BY <2>1
  <2>4. m = InsertAt(r, t, x)
    BY <2>3
  <2> HIDE DEF m
  <2> QED BY <2>2, <2>3, <2>4
<1>5. Moved(o, f, t) = m
  BY DEF Moved, r
<1> HIDE DEF m
<1> QED BY <1>1, <1>2, <1>3, <1>4, <1>5

LEMMA OrdersAreSequences ==
    ASSUME NEW o
    PROVE  o \in Orders <=> o \in Seq(Metrics) /\ Len(o) = Len(FirstOrder) /\ IsInjective(o)
<1>1. Len(FirstOrder) \in Nat
  BY ViewsAssumption
<1> QED BY <1>1 DEF Orders

\* The row dropped at an index is there, no row is lost or doubled, and the
\* others keep their order.
LEMMA MovedOrder ==
    ASSUME NEW o \in Orders, NEW f \in DOMAIN o, NEW t \in DOMAIN o
    PROVE  /\ Moved(o, f, t) \in Orders
           /\ Moved(o, f, t)[t] = o[f]
           /\ \A a, b \in DOMAIN o \ {f} : a < b =>
                \E c, d \in DOMAIN o : c < d /\ Moved(o, f, t)[c] = o[a] /\ Moved(o, f, t)[d] = o[b]
<1> DEFINE m == Moved(o, f, t)
           n == Len(o)
           Place(k) == IF k > f /\ k <= t THEN k - 1 ELSE IF k < f /\ k >= t THEN k + 1 ELSE k
<1>1. o \in Seq(Metrics) /\ n = Len(FirstOrder) /\ IsInjective(o) /\ n \in Nat
      /\ DOMAIN o = 1 .. n /\ f \in 1 .. n /\ t \in 1 .. n
  BY OrdersAreSequences
<1>2. /\ m \in Seq(Metrics) /\ Len(m) = n /\ DOMAIN m = 1 .. n
      /\ \A k \in 1 .. n : m[k] = IF k = t THEN o[f]
                                  ELSE IF k > t /\ k <= f THEN o[k - 1]
                                  ELSE IF k < t /\ k >= f THEN o[k + 1]
                                  ELSE o[k]
  BY <1>1, MovedRows
<1>3. m[t] = o[f]
  BY <1>1, <1>2
<1>4. \A k \in (1 .. n) \ {f} : Place(k) \in (1 .. n) \ {t} /\ m[Place(k)] = o[k]
  BY <1>1, <1>2
<1>5. \A a, b \in (1 .. n) \ {f} : a < b => Place(a) < Place(b)
  BY <1>1
<1>6. IsInjective(m)
  <2> DEFINE From(k) == IF k = t THEN f
                        ELSE IF k > t /\ k <= f THEN k - 1
                        ELSE IF k < t /\ k >= f THEN k + 1 ELSE k
  <2>1. \A k \in 1 .. n : From(k) \in 1 .. n /\ m[k] = o[From(k)]
    BY <1>1, <1>2
  <2>2. \A a, b \in 1 .. n : From(a) = From(b) => a = b
    BY <1>1
  <2>3. \A a, b \in 1 .. n : o[a] = o[b] => a = b
    BY <1>1 DEF IsInjective
  <2>4. \A a, b \in 1 .. n : m[a] = m[b] => a = b
    <3> HIDE DEF m, n, From
    <3> QED BY <2>1, <2>2, <2>3
  <2> QED BY <1>2, <2>4 DEF IsInjective
<1>7. m \in Orders
  BY <1>1, <1>2, <1>6, OrdersAreSequences
<1>8. ASSUME NEW a \in DOMAIN o \ {f}, NEW b \in DOMAIN o \ {f}, a < b
      PROVE  \E c, d \in DOMAIN o : c < d /\ m[c] = o[a] /\ m[d] = o[b]
  <2>1. /\ Place(a) \in DOMAIN o /\ Place(b) \in DOMAIN o /\ Place(a) < Place(b)
        /\ m[Place(a)] = o[a] /\ m[Place(b)] = o[b]
    BY <1>1, <1>4, <1>5, <1>8
  <2> HIDE DEF m, Place
  <2> QED BY <2>1
<1> QED BY <1>3, <1>7, <1>8

-----------------------------------------------------------------------------
(* Types of the sampling loop, the footer and the tab, part by part.       *)

LoopTyped ==
    /\ interval \in SampleIntervals /\ tickerPeriod \in SampleIntervals
    /\ due \in 1 .. tickerPeriod /\ ticked \in BOOLEAN
    /\ since \in {Absent} \cup 0 .. Longest + 1
    /\ loop \in {Absent} \cup (Samples \ {NoSample}) /\ current \in Samples
    /\ lateness \in 0 .. MaxLate /\ upset \in BOOLEAN

FooterTyped ==
    /\ events \in Seq(Samples \ {NoSample})
    /\ snapshot \in {Absent, Asked} \cup Samples
    /\ shown \in {Absent} \cup Samples

TabTyped ==
    /\ order \in Orders /\ intervalMs \in SampleIntervals
    /\ drag \in {Absent} \cup DOMAIN order
    /\ saves \subseteq Saves
    /\ edits \in 0 .. MaxEdits

LEMMA ViewsParts == ViewsTypeOK <=> LoopTyped /\ FooterTyped /\ TabTyped
BY DEF ViewsTypeOK, LoopTyped, FooterTyped, TabTyped

LEMMA LongestIs == Longest \in SampleIntervals /\ \A i \in SampleIntervals : i <= Longest
BY ViewsAssumption DEF Longest

LEMMA ViewsInitial == ViewsInit => ViewsTypeOK
<1> SUFFICES ASSUME ViewsInit PROVE ViewsTypeOK
  OBVIOUS
<1>1. LoopTyped
  <2>1. /\ interval \in SampleIntervals /\ tickerPeriod \in SampleIntervals
        /\ due \in 1 .. tickerPeriod /\ lateness \in 0 .. MaxLate
    BY ViewsAssumption DEF ViewsInit
  <2>2. ticked \in BOOLEAN /\ upset \in BOOLEAN /\ current \in Samples
    BY DEF ViewsInit, Samples
  <2> QED BY <2>1, <2>2 DEF ViewsInit, LoopTyped
<1>2. FooterTyped
  BY DEF ViewsInit, FooterTyped
<1>3. TabTyped
  <2>1. FirstOrder \in Orders
    BY ViewsAssumption, OrdersAreSequences
  <2> QED BY <2>1, ViewsAssumption DEF ViewsInit, TabTyped
<1> QED BY <1>1, <1>2, <1>3, ViewsParts

LEMMA LoopStepTyped ==
    ASSUME ViewsTypeOK, Pass \/ Collect \/ Store \/ Emit
    PROVE  ViewsTypeOK'
<1> USE DEF footer, tabVars
<1>1. TabTyped'
  BY ViewsParts DEF TabTyped, Pass, Collect, Store, Emit
<1>2. FooterTyped'
  <2>1. CASE Emit
    <3>1. current \in Samples \ {NoSample} /\ events \in Seq(Samples \ {NoSample})
      BY <2>1, ViewsParts DEF Emit, LoopTyped, FooterTyped
    <3>2. events' \in Seq(Samples \ {NoSample})
      BY <2>1, <3>1 DEF Emit
    <3> QED BY <2>1, <3>2, ViewsParts DEF Emit, FooterTyped
  <2>2. CASE Pass \/ Collect \/ Store
    BY <2>2, ViewsParts DEF FooterTyped, Pass, Collect, Store
  <2> QED BY <2>1, <2>2
<1>3. LoopTyped'
  <2> USE ViewsParts, LongestIs, ViewsAssumption
  <2>1. CASE Pass
    <3>1. tickerPeriod' = tickerPeriod /\ interval' = interval /\ tickerPeriod \in Nat \ {0}
      BY <2>1 DEF LoopTyped, Pass
    <3>2. due' \in 1 .. tickerPeriod'
      <4>1. due' = tickerPeriod \/ (due # 1 /\ due' = due - 1)
        BY <2>1 DEF Pass
      <4> QED BY <3>1, <4>1 DEF LoopTyped
    <3>3. since' \in {Absent} \cup 0 .. Longest + 1
      BY <2>1 DEF LoopTyped, Pass
    <3>4. lateness' \in 0 .. MaxLate /\ upset' \in BOOLEAN
      <4>1. CASE ticked
        BY <2>1, <4>1 DEF LoopTyped, Pass
      <4>2. CASE ~ticked
        BY <2>1, <4>2 DEF LoopTyped, Pass
      <4> QED BY <4>1, <4>2
    <3>5. ticked' \in BOOLEAN /\ loop' = loop /\ current' = current
      BY <2>1 DEF LoopTyped, Pass
    <3>6. /\ interval \in SampleIntervals /\ tickerPeriod \in SampleIntervals
          /\ loop \in {Absent} \cup (Samples \ {NoSample}) /\ current \in Samples
      BY DEF LoopTyped
    <3> QED BY <3>1, <3>2, <3>3, <3>4, <3>5, <3>6 DEF LoopTyped
  <2>2. CASE Collect
    <3>1. loop' \in Samples \ {NoSample}
      BY <2>2 DEF Collect, Degraded, LoopTyped, Samples, NoSample
    <3>2. ticked' \in BOOLEAN /\ upset' \in BOOLEAN /\ since' = 0
      BY <2>2 DEF Collect
    <3>3. 0 \in 0 .. Longest + 1
      BY LongestIs, ViewsAssumption
    <3>4. UNCHANGED <<interval, tickerPeriod, due, current, lateness>>
      BY <2>2 DEF Collect
    <3> QED BY <3>1, <3>2, <3>3, <3>4, ViewsParts DEF LoopTyped
  <2>3. CASE Store
    BY <2>3 DEF Store, LoopTyped
  <2>4. CASE Emit
    BY <2>4 DEF Emit, LoopTyped
  <2> QED BY <2>1, <2>2, <2>3, <2>4
<1> QED BY <1>1, <1>2, <1>3 DEF ViewsTypeOK, LoopTyped, FooterTyped, TabTyped

LEMMA FooterStepTyped ==
    ASSUME ViewsTypeOK, Snapshot \/ SnapshotArrives \/ SnapshotFails \/ Show
    PROVE  ViewsTypeOK'
<1> USE DEF sampler, tabVars
<1>1. LoopTyped' /\ TabTyped'
  BY ViewsParts DEF LoopTyped, TabTyped, Snapshot, SnapshotArrives, SnapshotFails, Show
<1>2. FooterTyped'
  <2>1. CASE Show
    <3>1. Head(events) \in Samples /\ Tail(events) \in Seq(Samples \ {NoSample})
      BY <2>1, ViewsParts DEF Show, FooterTyped
    <3> QED BY <2>1, <3>1, ViewsParts DEF Show, FooterTyped
  <2>2. CASE Snapshot \/ SnapshotArrives \/ SnapshotFails
    BY <2>2, ViewsParts DEF FooterTyped, LoopTyped, Snapshot, SnapshotArrives, SnapshotFails
  <2> QED BY <2>1, <2>2
<1> QED BY <1>1, <1>2 DEF ViewsTypeOK, LoopTyped, FooterTyped, TabTyped

LEMMA SendTyped ==
    ASSUME TabTyped, NEW o \in Orders, NEW i \in SampleIntervals, SendSave(o, i)
    PROVE  saves' \subseteq Saves /\ edits' \in 0 .. MaxEdits
<1>1. edits \in 0 .. MaxEdits /\ edits' \in 0 .. MaxEdits
  BY ViewsAssumption DEF TabTyped, SendSave
<1>2. [id |-> edits, order |-> o, interval |-> i, done |-> FALSE] \in Saves
  BY <1>1 DEF Saves
<1> QED BY <1>1, <1>2 DEF TabTyped, SendSave

LEMMA TabStepTyped ==
    ASSUME ViewsTypeOK,
           \/ \E i \in SampleIntervals : ReleaseSlider(i)
           \/ \E i \in DOMAIN order : DragStart(i) \/ Drop(i)
           \/ DragEnd
    PROVE  ViewsTypeOK'
<1>1. TabTyped
  BY ViewsParts
<1>2. LoopTyped' /\ FooterTyped'
  BY ViewsParts DEF LoopTyped, FooterTyped, ReleaseSlider, DragStart, Drop, DragEnd, sampler, footer
<1>3. order' = order /\ intervalMs' = intervalMs
  BY DEF ReleaseSlider, DragStart, Drop, DragEnd
<1>4. ASSUME NEW i \in SampleIntervals, ReleaseSlider(i)
      PROVE  TabTyped'
  <2>1. saves' \subseteq Saves /\ edits' \in 0 .. MaxEdits
    BY <1>1, <1>4, SendTyped DEF ReleaseSlider, TabTyped
  <2> QED BY <1>1, <1>3, <1>4, <2>1 DEF ReleaseSlider, TabTyped
<1>5. ASSUME NEW i \in DOMAIN order, DragStart(i)
      PROVE  TabTyped'
  BY <1>1, <1>5 DEF DragStart, TabTyped
<1>6. ASSUME NEW j \in DOMAIN order, Drop(j)
      PROVE  TabTyped'
  <2>1. drag \in DOMAIN order /\ Moved(order, drag, j) \in Orders
    BY <1>1, <1>6, MovedOrder DEF Drop, TabTyped
  <2>2. saves' \subseteq Saves /\ edits' \in 0 .. MaxEdits
    BY <1>1, <1>6, <2>1, SendTyped DEF Drop, TabTyped
  <2> QED BY <1>1, <1>3, <1>6, <2>2 DEF Drop, TabTyped
<1>7. ASSUME DragEnd
      PROVE  TabTyped'
  BY <1>1, <1>7 DEF DragEnd, TabTyped
<1>8. TabTyped'
  BY <1>4, <1>5, <1>6, <1>7
<1> QED BY <1>2, <1>8 DEF ViewsTypeOK, LoopTyped, FooterTyped, TabTyped

LEMMA SaveStepTyped ==
    ASSUME ViewsTypeOK, NEW s \in saves,
           ReconfigureSampler(s) \/ SaveReplied(s) \/ SaveRefused(s)
    PROVE  ViewsTypeOK'
<1> USE DEF sampler, footer
<1>1. LoopTyped /\ FooterTyped /\ TabTyped /\ s \in Saves
  BY ViewsParts DEF TabTyped
<1>2. FooterTyped'
  BY <1>1 DEF FooterTyped, ReconfigureSampler, SaveReplied, SaveRefused
<1>3. CASE ReconfigureSampler(s)
  <2>1. [s EXCEPT !.done = TRUE] \in Saves
    BY <1>1 DEF Saves
  <2>2. TabTyped'
    BY <1>1, <1>3, <2>1 DEF ReconfigureSampler, TabTyped
  <2>3. UNCHANGED <<since, loop, current, lateness>>
    BY <1>3 DEF ReconfigureSampler
  <2>4. CASE s.interval = interval
    <3>1. UNCHANGED <<interval, tickerPeriod, due, ticked, upset>>
      BY <1>3, <2>4 DEF ReconfigureSampler
    <3>2. LoopTyped'
      BY <1>1, <2>3, <3>1 DEF LoopTyped
    <3> QED BY <1>2, <2>2, <3>2 DEF ViewsTypeOK, LoopTyped, FooterTyped, TabTyped
  <2>5. CASE s.interval # interval
    <3>1. s.interval \in SampleIntervals
      BY <1>1 DEF Saves
    <3>2. s.interval \in 1 .. s.interval
      <4>1. s.interval \in Nat \ {0}
        BY <3>1, ViewsAssumption, Zenon
      <4>2. \A i \in Nat \ {0} : i \in 1 .. i
        OBVIOUS
      <4> QED BY <4>1, <4>2, Zenon
    <3>3. /\ interval' = s.interval /\ tickerPeriod' = s.interval /\ due' = s.interval
          /\ ticked' \in BOOLEAN /\ upset' \in BOOLEAN
      BY <1>3, <2>5 DEF ReconfigureSampler, Retick
    <3>4. LoopTyped'
      BY <1>1, <2>3, <3>1, <3>2, <3>3 DEF LoopTyped
    <3> QED BY <1>2, <2>2, <3>4 DEF ViewsTypeOK, LoopTyped, FooterTyped, TabTyped
  <2> QED BY <2>4, <2>5
<1>4. CASE SaveReplied(s) \/ SaveRefused(s)
  <2>1. LoopTyped'
    BY <1>1, <1>4 DEF SaveReplied, SaveRefused, LoopTyped
  <2>2. s.order \in Orders /\ s.interval \in SampleIntervals /\ DOMAIN s.order = DOMAIN order
    BY <1>1 DEF Saves, Orders, TabTyped
  <2>3. TabTyped'
    BY <1>1, <1>4, <2>2 DEF SaveReplied, SaveRefused, TabTyped
  <2> QED BY <1>2, <2>1, <2>3 DEF ViewsTypeOK, LoopTyped, FooterTyped, TabTyped
<1> QED BY <1>3, <1>4

(* Whatever is saved, dragged or fetched, and however late the loop is, a  *)
(* metric order keeps its length and holds no metric twice, the dragged    *)
(* index stays within it, and the ticker within its period.                *)
THEOREM ViewsTyped == ViewsSpec => []ViewsTypeOK
<1>1. ViewsTypeOK /\ UNCHANGED viewVars => ViewsTypeOK'
  BY DEF ViewsTypeOK, viewVars, sampler, footer, tabVars
<1>2. ViewsTypeOK /\ [ViewsNext]_viewVars => ViewsTypeOK'
  BY <1>1, LoopStepTyped, FooterStepTyped, TabStepTyped, SaveStepTyped DEF ViewsNext
<1> QED BY ViewsInitial, <1>2, PTL DEF ViewsSpec

(* A drop in the metrics list takes one row to where it was dropped and    *)
(* leaves the others in their order, also when a reply has put another     *)
(* order under the drag (MetricOrderList's handleDrop).                    *)
THEOREM DropMovesRowThm == ViewsSpec => DropMovesRow
<1>1. ASSUME ViewsTypeOK, NEW j \in DOMAIN order, Drop(j), NEW s \in saves' \ saves
      PROVE  /\ s.order[j] = order[drag]
             /\ \A a, b \in DOMAIN order \ {drag} : a < b =>
                  \E c, d \in DOMAIN order :
                     c < d /\ s.order[c] = order[a] /\ s.order[d] = order[b]
  <2>1. s.order = Moved(order, drag, j)
    BY <1>1 DEF Drop, SendSave
  <2>2. order \in Orders /\ drag \in DOMAIN order
    BY <1>1 DEF Drop, ViewsTypeOK
  <2> QED BY <2>1, <2>2, MovedOrder
<1>2. ViewsTypeOK =>
        [\A j \in DOMAIN order : Drop(j) =>
           \A s \in saves' \ saves :
              /\ s.order[j] = order[drag]
              /\ \A a, b \in DOMAIN order \ {drag} : a < b =>
                   \E c, d \in DOMAIN order :
                      c < d /\ s.order[c] = order[a] /\ s.order[d] = order[b]]_viewVars
  BY <1>1
<1> QED BY ViewsTyped, <1>2, PTL DEF DropMovesRow

-----------------------------------------------------------------------------
(* The clock of MonitorViews: between two ticks that are taken in time,    *)
(* with the interval left alone, the time since the last one and the time  *)
(* to the next one add up to no more than the interval.                    *)


\* The clock's types, and the ticker always at the configured interval.
ClockTyped ==
    /\ interval \in SampleIntervals /\ tickerPeriod = interval
    /\ due \in 1 .. tickerPeriod
    /\ since = Absent \/ since \in Nat
    /\ intervalMs \in SampleIntervals
    /\ \A s \in saves : s.interval \in SampleIntervals

\* Before the tick what is left fits the interval; at the tick what went by does.
InTime ==
    ~upset /\ since # Absent =>
        IF ticked THEN since <= interval ELSE since + due <= interval

ClockInv == ClockTyped /\ InTime

LEMMA ClockInit == ViewsInit => ClockInv
  BY ViewsAssumption DEF ViewsInit, ClockInv, ClockTyped, InTime

\* Time adds one to what went by and takes one from what is left; a tick that
\* nobody took makes the loop late, which is a reason.
LEMMA ClockPass == ClockInv /\ Pass => ClockInv'
<1> SUFFICES ASSUME ClockInv, Pass
             PROVE  ClockInv'
  OBVIOUS
<1> USE ViewsAssumption DEF ClockInv, ClockTyped, InTime
<1>1. /\ interval' = interval /\ tickerPeriod' = tickerPeriod
      /\ intervalMs' = intervalMs /\ saves' = saves
  BY DEF Pass, footer, tabVars
<1>2. interval \in Nat \ {0} /\ due \in Nat \ {0} /\ due <= interval
  OBVIOUS
<1>3. since' = since \/ (since \in Nat /\ since' = since + 1)
  BY DEF Pass
<1>4. ClockTyped'
  <2>1. due' \in 1 .. tickerPeriod'
    BY <1>1, <1>2 DEF Pass
  <2>2. since' = Absent \/ since' \in Nat
    BY <1>3
  <2> QED
    BY <1>1, <2>1, <2>2
<1>5. InTime'
  <2> SUFFICES ASSUME ~upset', since' # Absent
               PROVE  IF ticked' THEN since' <= interval' ELSE since' + due' <= interval'
    OBVIOUS
  <2>1. ~ticked /\ upset' = upset
    BY DEF Pass
  <2>2. since # Absent
    BY DEF Pass
  <2>3. since \in Nat /\ since + due <= interval
    BY <2>1, <2>2
  <2>4. CASE due = 1
    <3>1. ticked' = TRUE
      BY <2>4 DEF Pass
    <3> QED
      BY <1>1, <1>2, <1>3, <2>3, <2>4, <3>1
  <2>5. CASE due # 1
    <3>1. due' = due - 1 /\ ticked' = ticked
      BY <2>5 DEF Pass
    <3> QED
      BY <1>1, <1>2, <1>3, <2>1, <2>3, <3>1
  <2> QED
    BY <2>4, <2>5
<1> QED
  BY <1>4, <1>5

\* Taking the tick starts the count again, however late it is taken.
LEMMA ClockCollect == ClockInv /\ Collect => ClockInv'
  BY ViewsAssumption DEF Collect, footer, tabVars, ClockInv, ClockTyped, InTime

\* A new interval is a reason until its first tick; the same one changes nothing.
LEMMA ClockReconfigure ==
    ASSUME NEW s \in saves
    PROVE  ClockInv /\ ReconfigureSampler(s) => ClockInv'
<1> SUFFICES ASSUME ClockInv, ReconfigureSampler(s)
             PROVE  ClockInv'
  OBVIOUS
<1> USE ViewsAssumption DEF ClockInv, ClockTyped, InTime
<1>1. s.interval \in SampleIntervals /\ s.interval \in Nat \ {0}
  OBVIOUS
<1>2. since' = since /\ intervalMs' = intervalMs
  BY DEF ReconfigureSampler
<1>3. \A t \in saves' : t.interval \in SampleIntervals
  <2>1. [s EXCEPT !.done = TRUE].interval = s.interval \/ [s EXCEPT !.done = TRUE] = s
    OBVIOUS
  <2> QED
    BY <2>1, <1>1 DEF ReconfigureSampler
<1>4. CASE s.interval = interval
  BY <1>2, <1>3, <1>4 DEF ReconfigureSampler
<1>5. CASE s.interval # interval
  BY <1>1, <1>2, <1>3, <1>5 DEF ReconfigureSampler, Retick
<1> QED
  BY <1>4, <1>5

\* The steps of the footer and of the settings tab leave the clock alone.
LEMMA ClockElsewhere ==
    ASSUME ClockInv, UNCHANGED <<interval, tickerPeriod, due, ticked, since, upset>>,
           intervalMs' \in SampleIntervals,
           \A t \in saves' : t.interval \in SampleIntervals
    PROVE  ClockInv'
  BY DEF ClockInv, ClockTyped, InTime

LEMMA ClockStep == ClockInv /\ [ViewsNext]_viewVars => ClockInv'
<1> SUFFICES ASSUME ClockInv, [ViewsNext]_viewVars
             PROVE  ClockInv'
  OBVIOUS
<1> USE DEF sampler, tabVars
<1>1. /\ intervalMs \in SampleIntervals
      /\ \A s \in saves : s.interval \in SampleIntervals
  BY DEF ClockInv, ClockTyped
<1>2. CASE Pass
  BY <1>2, ClockPass
<1>3. CASE Collect
  BY <1>3, ClockCollect
<1>4. CASE Store
  BY <1>1, <1>4, ClockElsewhere DEF Store
<1>5. CASE Emit
  BY <1>1, <1>5, ClockElsewhere DEF Emit
<1>6. CASE Snapshot
  BY <1>1, <1>6, ClockElsewhere DEF Snapshot
<1>7. CASE SnapshotArrives
  BY <1>1, <1>7, ClockElsewhere DEF SnapshotArrives
<1>8. CASE SnapshotFails
  BY <1>1, <1>8, ClockElsewhere DEF SnapshotFails
<1>9. CASE Show
  BY <1>1, <1>9, ClockElsewhere DEF Show
<1>10. ASSUME NEW i \in SampleIntervals, ReleaseSlider(i)
       PROVE  ClockInv'
  <2>1. \A t \in saves' : t.interval \in SampleIntervals
    BY <1>1, <1>10 DEF ReleaseSlider, SendSave
  <2> QED
    BY <1>1, <1>10, <2>1, ClockElsewhere DEF ReleaseSlider
<1>11. ASSUME NEW i \in DOMAIN order, DragStart(i)
       PROVE  ClockInv'
  BY <1>1, <1>11, ClockElsewhere DEF DragStart
<1>12. ASSUME NEW j \in DOMAIN order, Drop(j)
       PROVE  ClockInv'
  <2>1. \A t \in saves' : t.interval \in SampleIntervals
    BY <1>1, <1>12 DEF Drop, SendSave
  <2> QED
    BY <1>1, <1>12, <2>1, ClockElsewhere DEF Drop
<1>13. CASE DragEnd
  BY <1>1, <1>13, ClockElsewhere DEF DragEnd
<1>14. ASSUME NEW s \in saves, ReconfigureSampler(s)
       PROVE  ClockInv'
  BY <1>14, ClockReconfigure
<1>15. ASSUME NEW s \in saves, SaveReplied(s)
       PROVE  ClockInv'
  BY <1>1, <1>15, ClockElsewhere DEF SaveReplied
<1>16. ASSUME NEW s \in saves, SaveRefused(s)
       PROVE  ClockInv'
  BY <1>1, <1>16, ClockElsewhere DEF SaveRefused
<1>17. CASE UNCHANGED viewVars
  BY <1>1, <1>17, ClockElsewhere DEF viewVars
<1> QED
  BY <1>2, <1>3, <1>4, <1>5, <1>6, <1>7, <1>8, <1>9, <1>10, <1>11, <1>12, <1>13,
     <1>14, <1>15, <1>16, <1>17 DEF ViewsNext

\* The ticker of the sampling loop runs at the configured interval, and while
\* the loop keeps up no tick comes later than the interval after the last.
THEOREM ClockThm == ViewsSpec => []ClockInv
  BY ClockInit, ClockStep, PTL DEF ViewsSpec

\* Without a reason, taking a tick makes no degraded sample; no other step
\* gives the loop a sample.
LEMMA DegradedStep ==
    ClockInv /\ [ViewsNext]_viewVars
      => [loop = Absent /\ loop' # Absent => (loop'.degraded => upset)]_viewVars
<1> SUFFICES ASSUME ClockInv, [ViewsNext]_viewVars, loop = Absent, loop' # Absent
             PROVE  loop'.degraded => upset
  OBVIOUS
<1> USE DEF sampler, tabVars, footer
<1>1. Collect
  <2>1. ASSUME NEW s \in saves, ReconfigureSampler(s) \/ SaveReplied(s) \/ SaveRefused(s)
        PROVE  FALSE
    BY <2>1 DEF ReconfigureSampler, SaveReplied, SaveRefused
  <2>2. ASSUME NEW i \in DOMAIN order, DragStart(i) \/ Drop(i)
        PROVE  FALSE
    BY <2>2 DEF DragStart, Drop
  <2>3. ASSUME NEW i \in SampleIntervals, ReleaseSlider(i)
        PROVE  FALSE
    BY <2>3 DEF ReleaseSlider
  <2> QED
    BY <2>1, <2>2, <2>3 DEF ViewsNext, viewVars, Pass, Store, Emit, Snapshot, SnapshotArrives,
       SnapshotFails, Show, DragEnd
<1>2. loop'.degraded = Degraded /\ ticked
  BY <1>1 DEF Collect
<1>3. SUFFICES ASSUME Degraded, ~upset
               PROVE  FALSE
  BY <1>2
<1>4. since # Absent /\ since \in Nat /\ since > interval
  BY <1>3 DEF Degraded, ClockInv, ClockTyped
<1>5. since <= interval
  BY <1>2, <1>3, <1>4 DEF ClockInv, InTime
<1>6. interval \in Nat
  BY ViewsAssumption DEF ClockInv, ClockTyped
<1> QED
  BY <1>4, <1>5, <1>6

\* A sample that blanks the footer as degraded has a reason: the loop was late
\* for a tick, or the interval was changed, since the sample before it.
THEOREM DegradedHasReasonThm == ViewsSpec => DegradedHasReason
<1>1. ViewsSpec => [][ViewsNext]_viewVars
  BY PTL DEF ViewsSpec
<1> QED
  BY <1>1, ClockThm, DegradedStep, PTL DEF DegradedHasReason

=============================================================================
