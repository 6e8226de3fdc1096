---------------------------- MODULE FetchedPanels ----------------------------
(***************************************************************************)
(* The panels that fetch in an effect and keep what arrives in component   *)
(* state: the OCPP log of a charger, the frames of a transaction, the      *)
(* fleet-wide search of status events and the uptime chip.  They share one *)
(* pattern: an effect that starts a fetch, a cancelled flag that its       *)
(* cleanup sets, and a time window that is memoised by its length only.    *)
(*                                                                         *)
(* The gateway's records (frames, events, outages) are numbered by the     *)
(* instant at which they were made.  A subject is a charger, or for the    *)
(* frames panel a transaction; a kind is a direction and action, or a      *)
(* status.                                                                 *)
(***************************************************************************)
EXTENDS PageData, Naturals, Sequences

CONSTANTS
    Subject, Kind,
    Spans,          \* lengths of a window
    KindPicks,      \* what the select offers: sets of kinds
    TextPicks,          \* what can be typed: a set of kinds, or of subjects
    MaxInstant, MaxControls, MaxLosses   \* bounds

ASSUME FetchedPanelsAssumption ==
    /\ Spans \subseteq Nat \ {0} /\ 1 \in Spans
    /\ KindPicks \subseteq SUBSET Kind /\ Kind \in KindPicks
    /\ TextPicks \subseteq [kinds : SUBSET Kind, subjects : SUBSET Subject]
    /\ {MaxInstant, MaxControls, MaxLosses} \subseteq Nat /\ MaxInstant > 0
    /\ NoData \notin [after : Nat, upTo : Nat]

VARIABLES
    records,   \* the gateway's: [subject, kind], one per instant that has passed
    kindOf,    \* which panel this is: "log", "frames", "events", "uptime"
    view,      \* its controls: subject, span and end of the window, pick, typed, scope
    effect,    \* number of the last run of the effect; the others are cancelled
    calls,     \* fetches in flight, by the effect that made them
    shown,     \* the state of the component
    sentText,  \* what was typed when the effect ran last (history)
    ranAt,     \* when it did (history)
    popover,   \* the chip's details are open
    controls, losses

panelsVars == <<records, kindOf, view, effect, calls, shown, sentText, ranAt, popover,
                controls, losses>>

Now == Len(records)

Anything == [kinds |-> Kind, subjects |-> Subject]

-----------------------------------------------------------------------------
(* What the four effects ask, and what the four routes answer.             *)

Window(v) == [after |-> IF v.end > v.span THEN v.end - v.span ELSE 0, upTo |-> v.end]

\* The select and the text narrow the kinds; text that matches nothing is sent too.
LogQuestion(v) ==
    [subjects |-> {v.subject}, kinds |-> v.pick \cap v.typed.kinds, window |-> Window(v)]

FramesQuestion(v) ==
    [subjects |-> {v.subject}, kinds |-> Kind, window |-> NoData]

\* The scope is the committed text; without one every charger is searched.
EventsQuestion(v) ==
    [subjects |-> v.scope.subjects, kinds |-> v.pick, window |-> Window(v)]

UptimeQuestion(v) ==
    [subjects |-> {v.subject}, kinds |-> Kind, window |-> Window(v)]

Question(v) ==
    CASE kindOf = "log"    -> LogQuestion(v)
      [] kindOf = "frames" -> FramesQuestion(v)
      [] kindOf = "events" -> EventsQuestion(v)
      [] OTHER             -> UptimeQuestion(v)

Within(i, w) == w = NoData \/ (w.after < i /\ i <= w.upTo)

OfSubject(i, q) == records[i].subject \in q.subjects
OfKind(i, q)    == records[i].kind \in q.kinds

FetchAnswered(q) == {i \in DOMAIN records : OfSubject(i, q) /\ OfKind(i, q) /\ Within(i, q.window)}

-----------------------------------------------------------------------------
PanelLoading == [phase |-> "loading", data |-> NoData]

FirstView(s) == [subject |-> s, span |-> 1, end |-> 1, pick |-> Kind,
                 typed |-> Anything, scope |-> Anything]

PanelsInit ==
    /\ kindOf \in {"log", "frames", "events", "uptime"}
    /\ \E s \in Subject, k \in Kind : records = <<[subject |-> s, kind |-> k]>>
    /\ \E s \in Subject : view = FirstView(s)
    /\ effect = 1
    /\ calls = [e \in {1} |-> [question |-> Question(view), got |-> NoData]]
    /\ shown = PanelLoading
    /\ sentText = Anything /\ ranAt = 1
    /\ popover = FALSE /\ controls = 0 /\ losses = 0

\* The effect runs for the view v: what was asked before is cancelled, and the
\* text is sent as it is now, committed or not.
Runs(v) ==
    /\ view' = v
    /\ effect' = effect + 1
    /\ calls' = With(calls, effect + 1, [question |-> Question(v), got |-> NoData])
    /\ shown' = PanelLoading
    /\ sentText' = v.typed /\ ranAt' = Now

Use == controls < MaxControls /\ controls' = controls + 1

Record(s, k) ==
    /\ Now < MaxInstant
    /\ records' = Append(records, [subject |-> s, kind |-> k])
    /\ UNCHANGED <<kindOf, view, effect, calls, shown, sentText, ranAt, popover, controls, losses>>

-----------------------------------------------------------------------------
(* The answers, in any order.                                              *)

ServeCall(e) ==
    /\ calls[e].got = NoData
    /\ calls' = [calls EXCEPT ![e].got = FetchAnswered(calls[e].question)]
    /\ UNCHANGED <<records, kindOf, view, effect, shown, sentText, ranAt, popover, controls, losses>>

\* Mutant: the cleanup does not cancel.
AnyEffect(e) == TRUE

\* The cancelled flag of the closure.
NotCancelled(e) == e = effect

Without(e) == [f \in DOMAIN calls \ {e} |-> calls[f]]

TakeAnswer(e) ==
    /\ calls[e].got # NoData
    /\ calls' = Without(e)
    /\ shown' = IF NotCancelled(e) THEN [phase |-> "ok", data |-> calls[e].got] ELSE shown
    /\ UNCHANGED <<records, kindOf, view, effect, sentText, ranAt, popover, controls, losses>>

LoseCall(e) ==
    /\ losses < MaxLosses
    /\ losses' = losses + 1
    /\ calls' = Without(e)
    /\ shown' = IF NotCancelled(e) THEN [phase |-> "error", data |-> NoData] ELSE shown
    /\ UNCHANGED <<records, kindOf, view, effect, sentText, ranAt, popover, controls>>

-----------------------------------------------------------------------------
(* The controls.                                                           *)

\* A new length takes a new window, which ends now.
NewSpan(n) == n # view.span /\ Runs([view EXCEPT !.span = n, !.end = Now])

LogSpan(n) ==
    /\ kindOf = "log" /\ Use /\ NewSpan(n)
    /\ UNCHANGED <<records, kindOf, popover, losses>>

LogDirection(ks) ==
    /\ kindOf = "log" /\ Use /\ ks # view.pick
    /\ Runs([view EXCEPT !.pick = ks])
    /\ UNCHANGED <<records, kindOf, popover, losses>>

\* The Refresh button, Enter and blur are one thing: the effect runs again, for
\* the window that there was.
LogRefresh ==
    /\ kindOf = "log" /\ Use
    /\ Runs(view)
    /\ UNCHANGED <<records, kindOf, popover, losses>>

FramesRefresh ==
    /\ kindOf = "frames" /\ Use
    /\ Runs(view)
    /\ UNCHANGED <<records, kindOf, popover, losses>>

EventsStatus(ks) ==
    /\ kindOf = "events" /\ Use /\ ks # view.pick
    /\ Runs([view EXCEPT !.pick = ks])
    /\ UNCHANGED <<records, kindOf, popover, losses>>

EventsSpan(n) ==
    /\ kindOf = "events" /\ Use /\ NewSpan(n)
    /\ UNCHANGED <<records, kindOf, popover, losses>>

\* Enter or blur puts the text in the URL; the effect runs if it is another.
EventsCommit ==
    /\ kindOf = "events" /\ view.typed # view.scope
    /\ Runs([view EXCEPT !.scope = view.typed])
    /\ UNCHANGED <<records, kindOf, popover, controls, losses>>

EventsClear ==
    /\ kindOf = "events" /\ Use /\ view.typed # Anything
    /\ IF view.scope = Anything
       THEN /\ view' = [view EXCEPT !.typed = Anything]
            /\ UNCHANGED <<effect, calls, shown, sentText, ranAt>>
       ELSE Runs([view EXCEPT !.typed = Anything, !.scope = Anything])
    /\ UNCHANGED <<records, kindOf, popover, losses>>

TypeInto(t) ==
    /\ kindOf \in {"log", "events"} /\ Use /\ t # view.typed
    /\ view' = [view EXCEPT !.typed = t]
    /\ UNCHANGED <<records, kindOf, effect, calls, shown, sentText, ranAt, popover, losses>>

\* Opened by the chip, closed by it, by a click outside and by Escape.
ChipToggle ==
    /\ kindOf = "uptime" /\ Use
    /\ popover \/ shown.phase = "ok"
    /\ popover' = ~popover
    /\ UNCHANGED <<records, kindOf, view, effect, calls, shown, sentText, ranAt, losses>>

\* Without an answer the chip is drawn without its details, open or not.
ChipSpan(n) ==
    /\ kindOf = "uptime" /\ Use /\ popover /\ shown.phase = "ok"
    /\ NewSpan(n)
    /\ UNCHANGED <<records, kindOf, popover, losses>>

\* The charger has booted: last_boot_at, and with it refetchKey, is another.
ChipBoot ==
    /\ kindOf = "uptime" /\ Use
    /\ Runs(view)
    /\ UNCHANGED <<records, kindOf, popover, losses>>

\* The panel stays mounted when the browser goes from one subject to another.
JumpTo(s) ==
    /\ kindOf # "events" /\ Use /\ s # view.subject
    /\ Runs([view EXCEPT !.subject = s])
    /\ UNCHANGED <<records, kindOf, popover, losses>>

PanelsNext ==
    \/ \E s \in Subject : JumpTo(s) \/ \E k \in Kind : Record(s, k)
    \/ \E e \in DOMAIN calls : ServeCall(e) \/ TakeAnswer(e) \/ LoseCall(e)
    \/ \E n \in Spans : LogSpan(n) \/ EventsSpan(n) \/ ChipSpan(n)
    \/ \E ks \in KindPicks : LogDirection(ks) \/ EventsStatus(ks)
    \/ \E t \in TextPicks : TypeInto(t)
    \/ LogRefresh \/ FramesRefresh \/ EventsCommit \/ EventsClear \/ ChipToggle \/ ChipBoot

PanelsSpec == PanelsInit /\ [][PanelsNext]_panelsVars

-----------------------------------------------------------------------------
PanelsTypeOK ==
    /\ records \in Seq([subject : Subject, kind : Kind]) /\ Now <= MaxInstant
    /\ view.span \in Spans /\ view.end \in 1..Now /\ view.pick \in KindPicks
    /\ DOMAIN calls \subseteq 1..effect
    /\ shown.phase \in {"loading", "ok", "error"}

\* "if (!cancelled) setState(...)": in whatever order the answers come, and
\* whatever was asked in between, a panel shows exactly the records that the
\* controls on the screen select, but for text that has not been sent; the
\* frames of a transaction, which have no window, at least those that were there
\* when it was last asked for.
ShownFitsControls ==
    shown.phase = "ok" =>
        LET fits == FetchAnswered(Question([view EXCEPT !.typed = sentText]))
        IN  IF kindOf = "frames"
            THEN shown.data \subseteq fits /\ {i \in fits : i <= ranAt} \subseteq shown.data
            ELSE shown.data = fits

\* "Refresh OCPP log" (OcppLogPanel.tsx); "Refetches when the charger comes back
\* online ... since a fresh boot means an outage just closed" (ChargerDetailPage.tsx):
\* what the effect shows includes what was recorded before it ran.  It does not:
\* the window still ends where it did.
RefreshIsFresh ==
    shown.phase = "ok" /\ kindOf # "events" =>
        LET q == Question([view EXCEPT !.typed = sentText])
            w == IF q.window = NoData THEN [after |-> 0, upTo |-> ranAt]
                 ELSE [q.window EXCEPT !.upTo = ranAt]
        IN  FetchAnswered([q EXCEPT !.window = w]) \subseteq shown.data
=============================================================================
