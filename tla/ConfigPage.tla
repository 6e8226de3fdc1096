------------------------------ MODULE ConfigPage ------------------------------
(***************************************************************************)
(* The Configuration page (ConfigView.tsx, SystemConfigPage.tsx) and what  *)
(* answers it.  The console tab edits the overrides of OverrideStore; the  *)
(* gateway tab edits those of the gateway process, through the proxies of  *)
(* sys-gateway-admin-config.ts.                                            *)
(*                                                                         *)
(* A key has an editor in its category and, while the page shows it as     *)
(* overridden, another in the section "Active overrides": each with its    *)
(* own draft and its own pending mutations.  A successful mutation         *)
(* invalidates the two queries of the tab.                                 *)
(***************************************************************************)
EXTENDS PageData, OverrideStore

CONSTANTS
    Editor, KeyOf,      \* the editors that a key can have
    Pinned,             \* those of the section "Active overrides"
    Toggle,             \* boolean editors of a tab: a dialog instead of a form
    Sensitive,          \* keys whose value arrives masked
    Invalid,            \* values that the schema of a key refuses
    EnvValue, Mask,     \* what is shown without override, and for a secret
    PageKits,           \* what is tried together: a tab, what may be typed, whether
                        \* keys are filtered, and the bounds on saves and restarts
    NoDraft, NoChange

ASSUME ConfigPageAssumption ==
    /\ Change \subseteq Nat /\ KeyOf \in [Editor -> Key]
    /\ Pinned \subseteq Editor /\ Toggle \subseteq {"console", "gateway"} \X Editor
    /\ \A k \in PageKits : /\ k.scope \in {"console", "gateway"} /\ k.values \subseteq Value
                           /\ k.restarts \in 0..MaxRestarts
    /\ Sensitive \subseteq Key /\ Invalid \subseteq Value
    /\ {EnvValue, Mask} \cap (Value \cup {Unset}) = {}
    /\ NoDraft \notin Value \cup {EnvValue, Mask}
    /\ NoChange \notin Change

VARIABLES
    pageKit,     \* the kit in use
    pod,         \* the override map of the gateway process
    page,        \* whether the tab is mounted, and the keys its filter hides
    effective,       \* the two queries: data, stale, and the fetch in flight
    draft,       \* the text of each editor, or the value its dialog confirms
    watched,     \* the last mutations of each editor
    saveAsked,       \* what each change asks for
    settled,     \* the changes whose mutation has ended
    excused      \* the page was not told of a change (history)

pageVars == <<pageKit, pod, page, effective, draft, watched, saveAsked, settled, excused>>
configVars == <<storeVars, pageVars>>

\* The tab: "console" or "gateway".
scope == pageKit.scope

\* The console tab fetches the second query too, and uses nothing of it.
Queries == IF scope = "console" THEN {"entries"} ELSE {"entries", "overrides"}
Held ==  IF scope = "console" THEN memory ELSE pod

\* The columns of the key table that matter here.
IsSensitive(k) == k \in Sensitive

\* The schema of a key, applied to the text of an override.
Validates(v) == v \notin Invalid

\* The override wins over the environment; secrets are masked.
Described(over) ==
    [k \in Key |-> [value  |-> IF IsSensitive(k) THEN Mask
                               ELSE IF over[k] = Unset THEN EnvValue ELSE over[k],
                    source |-> IF over[k] = Unset THEN "env" ELSE "override"]]

Overridden(over) == {k \in Key : over[k] # Unset}

Response(q) == IF q = "entries" THEN Described(Held) ELSE Overridden(Held)

\* inferEditorKind: an enumeration and a URL are edited as a text is.
IsToggle(e) == <<scope, e>> \in Toggle

Quiet(q) == effective[q].fetch = "idle"

-----------------------------------------------------------------------------
(* What the page shows.                                                    *)

HasData(p, c) == p.open /\ c["entries"].data # NoData

\* The gateway tab takes the override marks from the second query.
IsOverrideActive(c, k) ==
    IF scope = "console" THEN c["entries"].data[k].source = "override"
    ELSE c["overrides"].data # NoData /\ k \in c["overrides"].data

IsAllowlisted(c) == scope = "console" \/ c["overrides"].data # NoData

\* Every key that passes the filter has a card in the section of its category,
\* and one more above all sections while it is overridden.
Categorised(p, e) == e \notin Pinned /\ KeyOf[e] \notin p.hidden
PinnedAbove(p, c, e) ==
    e \in Pinned /\ KeyOf[e] \notin p.hidden /\ IsOverrideActive(c, KeyOf[e])

\* A card holds an editor when its key can be overridden.
MountedIn(p, c, e) ==
    /\ HasData(p, c)
    /\ Categorised(p, e) \/ PinnedAbove(p, c, e)
    /\ IsAllowlisted(c)

Mounted(e) == MountedIn(page, effective, e)
Shown(e)   == effective["entries"].data[KeyOf[e]].value

\* A form starts from the value shown, and again when that value changes.
Redrafted(p, c) ==
    [e \in Editor |->
        IF ~MountedIn(p, c, e) THEN NoDraft
        ELSE IF IsToggle(e) THEN draft[e]
        ELSE IF Mounted(e) /\ Shown(e) = c["entries"].data[KeyOf[e]].value THEN draft[e]
        ELSE c["entries"].data[KeyOf[e]].value]

Rewatched(p, c) ==
    [e \in Editor |-> IF MountedIn(p, c, e) THEN watched[e]
                      ELSE [apply |-> NoChange, reset |-> NoChange]]

\* The page renders p over c.
Renders(p, c) ==
    /\ page' = p /\ effective' = c
    /\ draft' = Redrafted(p, c) /\ watched' = Rewatched(p, c)

NewQuery == [data |-> NoData, stale |-> TRUE, fetch |-> "idle", got |-> NoData]

ConfigInit ==
    /\ StoreInit
    /\ pageKit \in PageKits
    /\ pod = NoOverride
    /\ page = [open |-> FALSE, hidden |-> {}]
    /\ effective = [q \in {"entries", "overrides"} |-> NewQuery]
    /\ draft = [e \in Editor |-> NoDraft]
    /\ watched = [e \in Editor |-> [apply |-> NoChange, reset |-> NoChange]]
    /\ saveAsked = [r \in Change |-> NoChange]
    /\ settled = {}
    /\ excused = FALSE

\* The tab is opened: queries that are stale, or older than 30 s, are fetched.
OpenTab ==
    /\ ~page.open
    /\ \E old \in SUBSET Queries :
        LET Fetched(q) == (q \in old \/ effective[q].stale) /\ Quiet(q)
        IN  Renders([open |-> TRUE, hidden |-> {}],
                    [q \in DOMAIN effective |->
                        IF q \in Queries /\ Fetched(q) THEN [effective[q] EXCEPT !.fetch = "asked"]
                        ELSE effective[q]])
    /\ UNCHANGED <<storeVars, pageKit, pod, saveAsked, settled, excused>>

CloseTab ==
    /\ page.open
    /\ Renders([open |-> FALSE, hidden |-> {}], effective)
    /\ UNCHANGED <<storeVars, pageKit, pod, saveAsked, settled, excused>>

\* Search, restart and sensitive filters: a hidden key loses its editors.
FilterKeys(hidden) ==
    /\ pageKit.filtering /\ page.open /\ hidden # page.hidden
    /\ Renders([page EXCEPT !.hidden = hidden], effective)
    /\ UNCHANGED <<storeVars, pageKit, pod, saveAsked, settled, excused>>

-----------------------------------------------------------------------------
(* Editors.                                                                *)

SavePending(r) == r # NoChange /\ r \notin settled

\* mutate() of one of the two mutations of an editor, numbered in order.
Mutate(e, r, kind, request) ==
    /\ saveAsked[r] = NoChange /\ r <= pageKit.saves
    /\ \A q \in Change : saveAsked[q] = NoChange => r <= q
    /\ saveAsked' = [saveAsked EXCEPT ![r] = request]
    /\ watched' = [watched EXCEPT ![e][kind] = r]
    /\ UNCHANGED <<storeVars, pageKit, pod, page, effective, settled, excused>>

Type(e, v) ==
    /\ Mounted(e) /\ ~IsToggle(e) /\ draft[e] # v
    /\ draft' = [draft EXCEPT ![e] = v]
    /\ UNCHANGED <<storeVars, pageKit, pod, page, effective, watched, saveAsked, settled, excused>>

\* Submit: only a changed text, and not while the last one is pending.
Save(e, r) ==
    /\ Mounted(e) /\ ~IsToggle(e)
    /\ draft[e] # Shown(e) /\ ~SavePending(watched[e].apply)
    /\ Mutate(e, r, "apply", [op |-> "set", key |-> KeyOf[e], value |-> draft[e]])
    /\ UNCHANGED draft

\* The dialog of a toggle opens with the negation of the value shown.
Ask(e, v) ==
    /\ Mounted(e) /\ IsToggle(e) /\ draft[e] = NoDraft /\ v # Shown(e)
    /\ ~SavePending(watched[e].apply) /\ ~SavePending(watched[e].reset)
    /\ draft' = [draft EXCEPT ![e] = v]
    /\ UNCHANGED <<storeVars, pageKit, pod, page, effective, watched, saveAsked, settled, excused>>

CancelDialog(e) ==
    /\ Mounted(e) /\ IsToggle(e) /\ draft[e] # NoDraft
    /\ draft' = [draft EXCEPT ![e] = NoDraft]
    /\ UNCHANGED <<storeVars, pageKit, pod, page, effective, watched, saveAsked, settled, excused>>

Confirm(e, r) ==
    /\ Mounted(e) /\ IsToggle(e) /\ draft[e] # NoDraft
    /\ draft' = [draft EXCEPT ![e] = NoDraft]
    /\ Mutate(e, r, "apply", [op |-> "set", key |-> KeyOf[e], value |-> draft[e]])

ResetKey(e, r) ==
    /\ Mounted(e) /\ IsOverrideActive(effective, KeyOf[e]) /\ ~SavePending(watched[e].reset)
    /\ Mutate(e, r, "reset", [op |-> "clear", key |-> KeyOf[e]])
    /\ UNCHANGED draft

-----------------------------------------------------------------------------
(* Serving the changes and the queries.                                    *)

SaveSent(r) == saveAsked[r] # NoChange /\ stage[r] = "idle"

\* The route of the Console: validation, then the store.
Receive(r) ==
    /\ scope = "console" /\ SaveSent(r)
    /\ IF saveAsked[r].op = "clear" THEN Clear(r, saveAsked[r].key)
       ELSE IF Validates(saveAsked[r].value) THEN Set(r, saveAsked[r].key, saveAsked[r].value)
       ELSE Refuse(r)
    /\ UNCHANGED pageVars

\* The gateway serves a PATCH or DELETE of its override map in one step.
GatewayServes(r) ==
    /\ scope = "gateway" /\ SaveSent(r)
    /\ LET o == saveAsked[r]
           v == IF o.op = "set" THEN o.value ELSE Unset
       IN  IF o.op = "set" /\ ~Validates(v)
           THEN pod' = pod /\ stage' = [stage EXCEPT ![r] = "refused"]
           ELSE pod' = [pod EXCEPT ![o.key] = v] /\ stage' = [stage EXCEPT ![r] = "ok"]
    /\ UNCHANGED <<memory, inForce, ofs, text, ofd, overlapped, exiting, restarts, clean>>
    /\ UNCHANGED <<pageKit, page, effective, draft, watched, saveAsked, settled, excused>>

\* The request or its answer does not get through.  (Bound: one loss, here or
\* in FailFetch, in a behaviour.)
Lose(r) ==
    /\ ~excused
    /\ saveAsked[r] # NoChange /\ r \notin settled \cup Persisting /\ stage[r] # "lost"
    /\ stage' = [stage EXCEPT ![r] = "lost"]
    /\ UNCHANGED <<memory, inForce, ofs, text, ofd, overlapped, exiting, restarts, clean>>
    /\ UNCHANGED pageVars

\* Mutant: the fetch in flight is left to finish.
RefetchedAtOnce(c) ==
    IF page.open THEN IF c.fetch = "idle" THEN [c EXCEPT !.fetch = "asked"] ELSE c
    ELSE [c EXCEPT !.stale = TRUE]

\* invalidateQueries: an active query drops the fetch in flight and fetches
\* again; an inactive one is only marked.
Invalidated(c) ==
    IF page.open THEN [c EXCEPT !.stale = TRUE, !.fetch = "asked", !.got = NoData]
    ELSE [c EXCEPT !.stale = TRUE]

\* A mutation ends.  Only a success invalidates; a fetch in flight of a closed
\* tab is not dropped, and its data will count as fresh.
SaveAnswered(r) ==
    /\ saveAsked[r] # NoChange /\ r \notin settled
    /\ stage[r] \in {"ok", "refused", "failed", "lost"}
    /\ settled' = settled \cup {r}
    /\ effective' = IF stage[r] # "ok" THEN effective
                ELSE [q \in DOMAIN effective |-> IF q \in Queries THEN Invalidated(effective[q])
                                             ELSE effective[q]]
    /\ excused' = (excused \/ stage[r] \in {"failed", "lost"}
                           \/ (~page.open /\ \E q \in Queries : ~Quiet(q)))
    /\ UNCHANGED <<storeVars, pageKit, pod, page, draft, watched, saveAsked>>

ServeFetch(q) ==
    /\ effective[q].fetch = "asked"
    /\ effective' = [effective EXCEPT ![q].fetch = "answered", ![q].got = Response(q)]
    /\ UNCHANGED <<storeVars, pageKit, pod, page, draft, watched, saveAsked, settled, excused>>

ArriveFetch(q) ==
    /\ effective[q].fetch = "answered"
    /\ Renders(page, [effective EXCEPT ![q] = [data |-> effective[q].got, stale |-> FALSE,
                                           fetch |-> "idle", got |-> NoData]])
    /\ UNCHANGED <<storeVars, pageKit, pod, saveAsked, settled, excused>>

FailFetch(q) ==
    /\ ~Quiet(q) /\ ~excused
    /\ effective' = [effective EXCEPT ![q].fetch = "idle", ![q].got = NoData]
    /\ excused' = TRUE
    /\ UNCHANGED <<storeVars, pageKit, pod, page, draft, watched, saveAsked, settled>>

-----------------------------------------------------------------------------
(* Restarts: the page is not told.                                         *)

ConsoleRestarts ==
    /\ Restart
    /\ excused' = TRUE
    /\ UNCHANGED <<pageKit, pod, page, effective, draft, watched, saveAsked, settled>>

\* POST /sys/restart-gateway, or the pod is replaced: its map is in memory.
GatewayRestarts ==
    /\ scope = "gateway" /\ ~exiting /\ restarts < pageKit.restarts
    /\ pod' = NoOverride /\ restarts' = restarts + 1
    /\ excused' = TRUE
    /\ UNCHANGED <<memory, inForce, ofs, storeRequest, exiting, clean>>
    /\ UNCHANGED <<pageKit, page, effective, draft, watched, saveAsked, settled>>

ConfigNext ==
    \/ OpenTab \/ CloseTab
    \/ \E h \in SUBSET Key : FilterKeys(h)
    \/ \E e \in Editor :
        \/ \E v \in pageKit.values : Type(e, v) \/ Ask(e, v)
        \/ CancelDialog(e)
        \/ \E r \in Change : Save(e, r) \/ Confirm(e, r) \/ ResetKey(e, r)
    \/ \E r \in Change :
        \/ Receive(r) \/ GatewayServes(r) \/ Lose(r) \/ SaveAnswered(r)
        \/ StoreStep(r) /\ UNCHANGED pageVars
    \/ \E q \in Queries : ServeFetch(q) \/ ArriveFetch(q) \/ FailFetch(q)
    \/ restarts < pageKit.restarts /\ AskRestart /\ UNCHANGED pageVars
    \/ ConsoleRestarts \/ GatewayRestarts

ConfigSpec == ConfigInit /\ [][ConfigNext]_configVars

-----------------------------------------------------------------------------
ConfigTypeOK ==
    /\ StoreTypeOK
    /\ pageKit \in PageKits /\ pod \in Overrides
    /\ page \in [open : BOOLEAN, hidden : SUBSET Key]
    /\ draft \in [Editor -> Value \cup {EnvValue, Mask, NoDraft}]
    /\ watched \in [Editor -> [apply : Change \cup {NoChange}, reset : Change \cup {NoChange}]]
    /\ settled \subseteq Change /\ excused \in BOOLEAN

\* useRefetchConfig: "refetch-after-mutate ... so the rendered value updates".
\* When every mutation of the tab has ended well and nothing is being fetched,
\* both queries show what the process holds, however the mutations of the
\* editors and the fetches were interleaved.
ShownIsHeld ==
    page.open /\ ~excused /\ (\A q \in Queries : Quiet(q))
    /\ (\A r \in Change : saveAsked[r] # NoChange => r \in settled)
    => \A q \in Queries : effective[q].data = Response(q)
=============================================================================
