--------------------------- MODULE MonitorSettings ---------------------------
(***************************************************************************)
(* The settings of the resources monitor: the frontend's copy, which is    *)
(* the data of one query that footer and settings tab share, the tab's     *)
(* thresholds form, the save and reset calls, the backend's copy, the file, *)
(* and the period of the sampler's ticker. Every edit sends the whole      *)
(* settings, built from the frontend's copy; the backend writes the file,  *)
(* then its copy, then the ticker, without a lock around the three. The    *)
(* query fetches again when the tab opens and when the network comes back, *)
(* and its answer replaces the copy whatever was saved meanwhile. The      *)
(* backend may be killed, and is started again, at any point.              *)
(* The interval stands for what is saved as it is edited, the thresholds   *)
(* for what is drafted in a form first: the formats of the Display section *)
(* have a form of the same kind.                                           *)
(***************************************************************************)
EXTENDS Integers

CONSTANTS
    MinInterval, MaxInterval,  \* 500 ms and 60 s
    DefaultInterval,
    Intervals,         \* what the slider offers
    Stored,            \* intervals an existing settings file may hold
    Thresholds, DefaultThresholds,
    Calls,             \* the user's edits and resets, each done once
    MaxCrashes,        \* bound: kills of the backend
    MaxTyped,          \* bound: changes of the form
    MaxFetches,        \* bound: times the network comes back
    Missing, Corrupt, None

(* validateInterval, and the sampler's clampInterval.                      *)
Clamp(i) == IF i < MinInterval THEN MinInterval
            ELSE IF i > MaxInterval THEN MaxInterval ELSE i

ASSUME IntervalsAssumption ==
    /\ MinInterval \in Int /\ MaxInterval \in Int /\ MinInterval <= MaxInterval
    /\ DefaultInterval \in MinInterval .. MaxInterval
    /\ Intervals \subseteq MinInterval .. MaxInterval /\ Stored \subseteq Int
ASSUME BoundsAssumption ==
    DefaultThresholds \in Thresholds /\ {MaxCrashes, MaxTyped, MaxFetches} \subseteq Nat

Settings     == [interval : Int, thresholds : Thresholds]
Defaults     == [interval |-> DefaultInterval, thresholds |-> DefaultThresholds]
Validated(s) == [s EXCEPT !.interval = Clamp(@)]
NoFetch      == [pc |-> "none", val |-> Defaults]

ASSUME NullsAssumption == {Missing, Corrupt, None} \cap (Settings \cup Thresholds) = {}

VARIABLES
    file,     \* settings.json
    memory,   \* Service.currentSettings
    period,   \* Sampler.interval
    pc,       \* where each call is
    req,      \* what it sends; what a reset reads back
    retried,  \* calls that lost their connection once and were sent again
    crashes,
    tab,      \* the frontend's copy, the settings query's data
    fetch,    \* the query's fetch: where it is, and what it read
    fetches,
    open,     \* the settings tab is mounted; the footer always is
    form,     \* the thresholds form: draft, what it was last synced to, dirty
    typed,    \* counts changes of the form
    want,     \* history: the last confirmed edit of each field
    doubt,    \* history: what overlaps, broken calls and a misread file may have upset
    alone,    \* history: calls that have met no other call
    crossed,  \* history: a save or reset was under way during the fetch
    rash      \* history: typed during a save, or the form's save failed

backVars == <<file, memory, period>>
callVars == <<pc, req, retried, crashes>>
histVars == <<want, doubt, alone>>
formVars == <<form, typed, rash>>
loadVars == <<fetch, fetches, crossed, open>>
vars     == <<backVars, callVars, tab, loadVars, formVars, histVars>>

\* of "copies" the backend's three may differ, of "tab" the frontend's from them
Fields == {"interval", "thresholds"}
Parts  == Fields \cup {"copies", "tab"}

TypeOK ==
    /\ file \in Settings \cup {Missing, Corrupt} /\ memory \in Settings
    /\ period \in MinInterval .. MaxInterval
    /\ pc \in [Calls -> {"idle", "sent", "write", "rename", "remember", "tick", "ok",
                         "read", "got", "error", "done"}]
    /\ req \in [Calls -> [kind : {"save", "form", "reset"}, val : Settings]]
    /\ retried \subseteq Calls /\ crashes \in 0 .. MaxCrashes
    /\ tab \in Settings \cup {None} /\ want \in Settings \cup {None}
    /\ fetch \in [pc : {"none", "asked", "read"}, val : Settings]
    /\ fetches \in 0 .. MaxFetches /\ open \in BOOLEAN /\ crossed \in BOOLEAN
    /\ form \in [draft : Thresholds \cup {None}, synced : Thresholds \cup {None},
                 dirty : BOOLEAN]
    /\ typed \in 0 .. MaxTyped /\ rash \in BOOLEAN
    /\ doubt \subseteq Parts /\ alone \subseteq Calls

(* FileSettingsStore.Load: what cannot be read counts as the defaults. The *)
(* interval of a file is not validated, only the sampler's is.             *)
Load(f) == IF f \in {Missing, Corrupt} THEN Defaults ELSE f

(* NewService loads the file; a read that fails gives the defaults, too,   *)
(* and then all that was saved is in doubt.                                *)
Upset(s, d) == IF s = Load(file) THEN d ELSE Parts

Init ==
    /\ file \in {Missing, Corrupt} \cup [interval : Stored, thresholds : Thresholds]
    /\ memory \in {Load(file), Defaults} /\ period = Clamp(memory.interval)
    /\ pc = [c \in Calls |-> "idle"]
    /\ req = [c \in Calls |-> [kind |-> "save", val |-> Defaults]]
    /\ retried = {} /\ crashes = 0
    /\ tab = None /\ form = [draft |-> None, synced |-> None, dirty |-> FALSE]
    /\ fetch = [pc |-> "asked", val |-> Defaults] /\ fetches = 0 /\ open = FALSE
    /\ typed = 0 /\ rash = FALSE
    /\ want = None /\ doubt = Upset(memory, {}) /\ alone = {} /\ crossed = FALSE

-----------------------------------------------------------------------------
(* The settings tab and the settings query.                                *)

(* Faulty variant: the draft follows the settings while it is being edited. *)
Sync_Always(settings, f) ==
    IF settings.thresholds # f.synced
      THEN [f EXCEPT !.draft = settings.thresholds, !.synced = settings.thresholds]
      ELSE f

(* On every render a form that is not dirty takes thresholds that changed. *)
Sync(settings, f) ==
    IF settings.thresholds # f.synced /\ ~f.dirty
      THEN [f EXCEPT !.draft = settings.thresholds, !.synced = settings.thresholds]
      ELSE f

UnderWay(c) == pc[c] \notin {"idle", "done"}
Saving      == \E c \in Calls : UnderWay(c) /\ req[c].kind = "form"

(* A fetch begins, unless one is under way.                                *)
Ask ==
    IF fetch.pc = "none"
      THEN fetch' = [fetch EXCEPT !.pc = "asked"] /\ crossed' = (\E c \in Calls : UnderWay(c))
      ELSE UNCHANGED <<fetch, crossed>>

(* The tab shows the copy there is, and a mounting observer refetches it.  *)
OpenTab ==
    /\ ~open /\ open' = TRUE /\ Ask
    /\ form' = IF tab = None THEN form ELSE Sync(tab, form)
    /\ UNCHANGED <<backVars, callVars, tab, fetches, typed, rash, histVars>>

(* The network comes back.                                                 *)
Refetch ==
    /\ fetches < MaxFetches /\ fetches' = fetches + 1
    /\ fetch.pc = "none" /\ Ask
    /\ UNCHANGED <<backVars, callVars, tab, open, formVars, histVars>>

(* GetSettings in the backend.                                             *)
FetchReads ==
    /\ fetch.pc = "asked" /\ fetch' = [pc |-> "read", val |-> memory]
    /\ UNCHANGED <<backVars, callVars, tab, fetches, crossed, open, formVars, histVars>>

(* The answer is the copy now. If it was on its way together with a save it *)
(* may be older than what the save has put there.                          *)
Fetched ==
    /\ fetch.pc = "read" /\ fetch' = NoFetch /\ crossed' = FALSE
    /\ tab' = fetch.val
    /\ form' = IF open THEN Sync(tab', form) ELSE form
    /\ want' = IF tab = None THEN tab' ELSE want
    /\ doubt' = IF crossed THEN doubt \cup {"tab"} ELSE doubt \ {"tab"}
    /\ UNCHANGED <<backVars, callVars, fetches, open, typed, rash, alone>>

(* No retry; the copy stays.                                               *)
FetchFails ==
    /\ fetch.pc # "none" /\ fetch' = NoFetch /\ crossed' = FALSE
    /\ UNCHANGED <<backVars, callVars, tab, fetches, open, formVars, histVars>>

(* handleThresholdChange                                                   *)
Type(t) ==
    /\ open /\ tab # None /\ typed < MaxTyped
    /\ form' = [form EXCEPT !.draft = t, !.dirty = TRUE]
    /\ typed' = typed + 1
    /\ rash' = Saving
    /\ UNCHANGED <<backVars, callVars, tab, loadVars, histVars>>

(* An edit built from a copy in doubt may undo what was saved before.      *)
Send(c, kind, val) ==
    /\ open /\ tab # None /\ pc[c] = "idle"
    /\ pc' = [pc EXCEPT ![c] = "sent"]
    /\ req' = [req EXCEPT ![c] = [kind |-> kind, val |-> val]]
    /\ IF \E d \in Calls : UnderWay(d)
         THEN alone' = {} /\ doubt' = Parts
         ELSE alone' = {c} /\ doubt' = IF "tab" \in doubt THEN doubt \cup Fields ELSE doubt
    /\ crossed' = (crossed \/ fetch.pc # "none")
    /\ UNCHANGED <<backVars, retried, crashes, tab, fetch, fetches, open, formVars, want>>

(* handleIntervalRelease; the toggles and the order are saved the same way. *)
EditInterval(c, i) == Send(c, "save", [tab EXCEPT !.interval = i])

(* The form's handleSubmit; the button needs a dirty form and no save.     *)
SubmitForm(c) ==
    /\ form.dirty /\ ~Saving
    /\ Send(c, "form", [tab EXCEPT !.thresholds = form.draft])

Reset(c) == Send(c, "reset", Defaults)

-----------------------------------------------------------------------------
(* The backend.                                                            *)
Goto(c, from, to) == pc[c] = from /\ pc' = [pc EXCEPT ![c] = to]
AtBackend == UNCHANGED <<retried, crashes, tab, loadVars, formVars, histVars>>

Receive(c) ==
    /\ Goto(c, "sent", "write")
    /\ UNCHANGED <<backVars, req>> /\ AtBackend

(* Faulty variant: the file itself is rewritten, not a temporary one.      *)
WriteTemp_InPlace(c) ==
    /\ Goto(c, "write", "rename")
    /\ file' = Corrupt
    /\ UNCHANGED <<memory, period, req>> /\ AtBackend

(* Save writes a temporary file of its own and renames it.                 *)
WriteTemp(c) ==
    /\ Goto(c, "write", "rename")
    /\ UNCHANGED <<backVars, req>> /\ AtBackend

Rename(c) ==
    /\ Goto(c, "rename", "remember")
    /\ file' = Validated(req[c].val)
    /\ UNCHANGED <<memory, period, req>> /\ AtBackend

(* Faulty variant: the backend's copy changes although the save failed.    *)
SaveFails_Remembers(c) ==
    /\ Goto(c, "write", "error") \/ Goto(c, "rename", "error")
    /\ memory' = Validated(req[c].val)
    /\ UNCHANGED <<file, period, req>> /\ AtBackend

SaveFails(c) ==
    /\ Goto(c, "write", "error") \/ Goto(c, "rename", "error")
    /\ UNCHANGED <<backVars, req>> /\ AtBackend

Remember(c) ==
    /\ Goto(c, "remember", "tick")
    /\ memory' = Validated(req[c].val)
    /\ UNCHANGED <<file, period, req>> /\ AtBackend

(* Faulty variant: the ticker takes the interval as it was sent.           *)
Reconfigure_Unclamped(c) ==
    /\ Goto(c, "tick", "ok")
    /\ period' = req[c].val.interval
    /\ UNCHANGED <<file, memory, req>> /\ AtBackend

Reconfigure(c) ==
    /\ Goto(c, "tick", "ok")
    /\ period' = Clamp(Validated(req[c].val).interval)
    /\ UNCHANGED <<file, memory, req>> /\ AtBackend

(* The second call of a reset: GetSettings.                                *)
ReadBack(c) ==
    /\ Goto(c, "read", "got")
    /\ req' = [req EXCEPT ![c].val = memory]
    /\ UNCHANGED backVars /\ AtBackend

(* A kill, and the host's restart. A call that loses its connection is sent *)
(* once more, to the new address.                                          *)
InBackend(c) == UnderWay(c) /\ pc[c] # "got"

Crash ==
    /\ crashes < MaxCrashes
    /\ crashes' = crashes + 1
    /\ \E s \in {Load(file), Defaults} :
          memory' = s /\ period' = Clamp(s.interval) /\ doubt' = Upset(s, doubt)
    /\ pc' = [c \in Calls |->
                IF ~InBackend(c) THEN pc[c]
                ELSE IF c \in retried THEN "error"
                ELSE IF pc[c] = "read" THEN "read" ELSE "sent"]
    /\ retried' = retried \cup {c \in Calls : InBackend(c)}
    /\ UNCHANGED <<file, req, tab, loadVars, formVars, want, alone>>

-----------------------------------------------------------------------------
(* The hooks. A save is answered with the request, as it came.             *)
Confirms(c, fields) ==
    /\ want' = [f \in Fields |-> IF f \in fields THEN req[c].val[f] ELSE want[f]]
    /\ doubt' = IF c \in alone THEN doubt \ (fields \cup {"copies", "tab"}) ELSE doubt
    /\ UNCHANGED <<backVars, req, retried, crashes, loadVars, typed, rash, alone>>

Saved(c) ==
    /\ req[c].kind = "save" /\ Goto(c, "ok", "done")
    /\ tab' = req[c].val /\ form' = Sync(tab', form)
    /\ Confirms(c, {"interval"})

FormSaved(c) ==
    /\ req[c].kind = "form" /\ Goto(c, "ok", "done")
    /\ tab' = req[c].val /\ form' = Sync(tab', [form EXCEPT !.dirty = FALSE])
    /\ Confirms(c, {"thresholds"})

(* The reset has been acknowledged and the settings are asked for.         *)
ResetDone(c) ==
    /\ req[c].kind = "reset" /\ Goto(c, "ok", "read")
    /\ retried' = retried \ {c}   \* the second call may be sent again, too
    /\ UNCHANGED <<backVars, req, crashes, tab, loadVars, formVars, histVars>>

ResetRead(c) ==
    /\ Goto(c, "got", "done")
    /\ tab' = req[c].val /\ form' = Sync(tab', form)
    /\ Confirms(c, Fields)

(* A toast. The tab catches the error, so the form too takes it for saved. *)
Failed(c) ==
    /\ Goto(c, "error", "done")
    /\ doubt' = IF c \in retried THEN Parts ELSE doubt
    /\ IF req[c].kind = "form"
         THEN form' = Sync(tab, [form EXCEPT !.dirty = FALSE]) /\ rash' = TRUE
         ELSE UNCHANGED <<form, rash>>
    /\ UNCHANGED <<backVars, req, retried, crashes, tab, loadVars, typed, want, alone>>

-----------------------------------------------------------------------------
Serve(c) ==
    \/ Receive(c) \/ WriteTemp(c) \/ Rename(c) \/ SaveFails(c) \/ Remember(c)
    \/ Reconfigure(c) \/ ReadBack(c)
    \/ Saved(c) \/ FormSaved(c) \/ ResetDone(c) \/ ResetRead(c) \/ Failed(c)

Use(c) == SubmitForm(c) \/ Reset(c) \/ \E i \in Intervals : EditInterval(c, i)

Next ==
    \/ OpenTab \/ Refetch \/ FetchReads \/ Fetched \/ FetchFails \/ Crash
    \/ \E t \in Thresholds : Type(t)
    \/ \E c \in Calls : Use(c) \/ Serve(c)

Spec == Init /\ [][Next]_vars
-----------------------------------------------------------------------------
Quiet == tab # None /\ \A c \in Calls : ~UnderWay(c)

(* With no call under way the file, the backend's copy, the ticker and the *)
(* frontend's copy hold the same settings, whatever failed or was killed   *)
(* and resumed. Overlapping calls, a call that failed after it was sent     *)
(* twice, or a start that could not read the file may leave the backend's   *)
(* three apart until the next call that succeeds on its own; an answer of   *)
(* the query that was on its way together with a call may leave the         *)
(* frontend's behind until the next call or the next fetch.                 *)
CopiesAgree ==
    Quiet /\ "copies" \notin doubt =>
        /\ Validated(Load(file)) = Validated(memory)
        /\ period = Clamp(memory.interval)
        /\ "tab" \notin doubt => Validated(tab) = Validated(memory)

(* Every edit sends the whole settings, and still none undoes an edit the  *)
(* tab has confirmed in another field, unless calls overlapped, or it was   *)
(* built from a copy that such an answer had left behind.                   *)
EditsKept ==
    Quiet /\ "copies" \notin doubt =>
        \A f \in Fields \ doubt : Validated(memory)[f] = Validated(want)[f]

(* Tab, backend, file and ticker settle on what the user's edits add up to *)
(* (useSaveSettings, useGetSettings, Service.SaveSettings).                *)
SettledSettingsAgree == CopiesAgree /\ EditsKept

(* At any moment, so whenever the backend is killed, the file holds what a *)
(* call under way is saving or the last edits that were confirmed: never a *)
(* half-written file, hence never a silent return to the defaults.         *)
KilledKeepsSettings ==
    tab # None /\ "copies" \notin doubt =>
        \/ \E c \in Calls : UnderWay(c) /\ Validated(Load(file)) = Validated(req[c].val)
        \/ \A f \in Fields \ doubt : Validated(Load(file))[f] = Validated(want)[f]

(* Thresholds that arrive from a save, a reset or a refetch do not replace *)
(* what the user has typed and not saved (ThresholdsSection's isDirty),    *)
(* except what was typed while a form save was under way or before one that *)
(* failed: the form takes either for saved (rash).                         *)
DraftSurvives == [][form.dirty /\ ~rash /\ tab' # tab => form'.draft = form.draft]_vars

=============================================================================
