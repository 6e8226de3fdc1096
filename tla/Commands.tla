------------------------------- MODULE Commands -------------------------------
(***************************************************************************)
(* The Commands tab of a charger: thirteen forms that send OCPP commands   *)
(* over the WebSocket (CommandsDrawer.tsx), and the transcript of what was *)
(* sent and answered, one per charger, kept outside of React               *)
(* (use-command-transcript.ts).                                            *)
(*                                                                         *)
(* A request holds what tells the commands apart; free text is left out.   *)
(* The row of the charger, which says whether it is online and which       *)
(* reservations it holds, changes as it likes: Broker models where it      *)
(* comes from.                                                             *)
(***************************************************************************)
EXTENDS PageData, Integers, Sequences, FiniteSets

CONSTANTS
    Station,       \* chargers
    SecurityProfile,  \* those that speak OCPP 2: GetLog is among their forms
    Plug, Tag, Hold,  \* connectors, id tags, reservations
    Statuses,      \* what a charger may answer
    GatewayCode,   \* error codes of the gateway
    Kits,          \* bounds: the methods in use, how many sends, moves and troubles
    RingCap        \* entries that a transcript keeps: 200

\* What becomes of a command: the answer of the charger, an error of the gateway
\* (below), or none because the socket closed.
ConnectionLost == [kind |-> "error", code |-> "connection lost"]

TranslateGatewayError(code) ==
    CASE code \in {"UNKNOWN_CP_ID", "CHARGER_OFFLINE"} -> "charger_offline"
      [] code = "CHARGER_TIMEOUT" -> "charger_timeout"
      [] code = "BAD_REQUEST"     -> "invalid_message"
      [] code = "RATE_LIMITED"    -> "rate_limited"
      [] code = "unreachable"     -> "internal_error"
      [] OTHER                    -> "upstream_unavailable"

\* Every method of the catalogue is forwarded to the gateway, and answered once.
Reply ==
    [kind : {"result"}, status : Statuses]
        \cup {[kind |-> "error", code |-> TranslateGatewayError(c)] : c \in GatewayCode}

ASSUME CommandsAssumption ==
    /\ Station # {} /\ SecurityProfile \subseteq Station
    /\ RingCap \in Nat \ {0}
    /\ NoData \notin Reply \cup {ConnectionLost}
    /\ \A k \in Kits : {k.sends, k.moves, k.troubles} \subseteq Nat

VARIABLES
    kit,          \* the bounds of this behaviour
    stationRow,   \* what the page knows of each charger: online, holds
    desk,         \* the tab: its charger, its fields, the configuration shown
    transcript,   \* the stores, by charger
    rpcs,         \* commands sent: the request, and the reply once there is one
    issues,       \* upload URLs that have been asked for
    urls,         \* the number of them so far
    moves, troubles

commandVars == <<kit, stationRow, desk, transcript, rpcs, issues, urls, moves, troubles>>

NewDesk(c, n) ==
    [at |-> c, visit |-> n, manual |-> FALSE, picked |-> NoData, auto |-> {"GetDiagnostics", "GetLog"},
     requestId |-> NoData, advanced |-> FALSE, config |-> NoData]

NewTranscript == [entries |-> <<>>, inFlight |-> <<>>, paused |-> FALSE, buffer |-> <<>>, nextId |-> 1]

CommandsInit ==
    /\ kit \in Kits
    /\ stationRow = [c \in Station |-> [online |-> TRUE, holds |-> Hold]]
    /\ desk \in {NewDesk(c, 0) : c \in Station}
    /\ transcript = [c \in Station |-> NewTranscript]
    /\ rpcs = <<>> /\ issues = {} /\ urls = 0
    /\ moves = 0 /\ troubles = 0

-----------------------------------------------------------------------------
(* The forms: the requests that each can send.                             *)

RemoteStart   == [method : {"remote-start"}, tag : Tag, plug : Plug \cup {NoData}]
RemoteStop    == [method : {"remote-stop"}]
Reset         == [method : {"reset"}, type : {"Soft", "Hard"}]
Trigger       == [method : {"trigger-message"}, plug : Plug \cup {NoData}]
Unlock        == [method : {"unlock-connector"}, plug : Plug]
GetConfig     == [method : {"get-configuration"}]
ChangeConfig  == [method : {"change-configuration"}]
ClearCache    == [method : {"clear-cache"}]
ReserveNow    == [method : {"reserve-now"}, tag : Tag, plug : Plug]
DataTransfer  == [method : {"data-transfer"}]

\* The field keeps what was picked, also when the row has lost it.
CancelReservation ==
    {r \in [method : {"cancel-reservation"}, hold : Hold] : r.hold = desk.picked}

\* The list of reservations is offered while there are any.
Dropdown == stationRow[desk.at].holds # {} /\ ~desk.manual

DiagnosticsTo(url) == [method |-> "get-diagnostics", url |-> url]
LogTo(url, id)     == [method |-> "get-log", url |-> url, id |-> id]

Typed == 0   \* an upload URL, or a request id, that the operator made up

TypedDiagnostics == {DiagnosticsTo(Typed) : x \in {"GetDiagnostics"} \ desk.auto}

TypedLog == {LogTo(Typed, desk.requestId) : x \in {"GetLog"} \ desk.auto} \ {LogTo(Typed, NoData)}

\* GetLog sits in a section of its own, closed at first, unless it is core.
LogOffered == desk.at \in SecurityProfile \/ desk.advanced

Forms ==
    UNION {RemoteStart, RemoteStop, Reset, Trigger, Unlock, GetConfig, ChangeConfig, ClearCache,
           ReserveNow, CancelReservation, DataTransfer, TypedDiagnostics,
           IF LogOffered THEN TypedLog ELSE {}}

-----------------------------------------------------------------------------
(* The transcript of one charger.                                          *)

Newest(s, n) == SubSeq(s, 1, IF Len(s) < n THEN Len(s) ELSE n)

Includes(s, x) == \E k \in DOMAIN s : s[k] = x

Begun(t, request) ==
    [t EXCEPT !.entries = Newest(<<[id |-> t.nextId, request |-> request, phase |-> "pending",
                                    outcome |-> "pending"]>> \o @, RingCap),
              !.inFlight = IF Includes(@, request.method) THEN @ ELSE Append(@, request.method),
              !.nextId = @ + 1]

\* (a mistake) The answer goes to the newest entry.
PatchedNewest(entries, id, patch) ==
    [k \in DOMAIN entries |->
        IF k = 1 THEN [entries[k] EXCEPT !.phase = patch.phase, !.outcome = patch.outcome]
        ELSE entries[k]]

Patched(entries, id, patch) ==
    [k \in DOMAIN entries |->
        IF entries[k].id = id
          THEN [entries[k] EXCEPT !.phase = patch.phase, !.outcome = patch.outcome]
          ELSE entries[k]]

\* Another entry of the method is still waiting, or looks like it: while the
\* transcript is paused, those that have been answered look like it too.
OtherPending(t, id, method) ==
    \E k \in DOMAIN t.entries :
        /\ t.entries[k].id # id
        /\ t.entries[k].request.method = method
        /\ t.entries[k].phase = "pending"

\* A Set keeps the order of insertion: the sequence s without x, if it has it.
WithoutOne(s, x) ==
    IF Includes(s, x)
    THEN LET k == CHOOSE i \in DOMAIN s : s[i] = x
         IN  SubSeq(s, 1, k - 1) \o SubSeq(s, k + 1, Len(s))
    ELSE s

DropMethodIfDone(t, id, method) ==
    IF OtherPending(t, id, method) THEN t
    ELSE [t EXCEPT !.inFlight = WithoutOne(@, method)]

Completed(t, id, method, patch) ==
    DropMethodIfDone(IF t.paused THEN [t EXCEPT !.buffer = With(@, id, patch)]
                     ELSE [t EXCEPT !.entries = Patched(@, id, patch)], id, method)

\* The methods in flight stay as they are.
Cleared(t) == [t EXCEPT !.entries = <<>>, !.buffer = <<>>]

Paused(t) == [t EXCEPT !.paused = TRUE]

Resumed(t) ==
    [t EXCEPT !.paused = FALSE, !.buffer = <<>>,
              !.entries = [k \in DOMAIN @ |->
                  IF @[k].id \in DOMAIN t.buffer
                    THEN Patched(@, @[k].id, t.buffer[@[k].id])[k] ELSE @[k]]]

\* What an answer comes to.
DescribeResponse(status) ==
    CASE status \in {"Accepted", "Unlocked", "OK"}         -> "accepted"
      [] status \in {"Rejected", "UnknownTransaction"}     -> "rejected"
      [] OTHER                                             -> "soft-reject"

PatchFor(reply) ==
    IF reply.kind = "result" THEN [phase |-> "ok", outcome |-> DescribeResponse(reply.status)]
    ELSE [phase |-> "error", outcome |-> "error"]

-----------------------------------------------------------------------------
(* A command on its way: to the server, to the gateway, and back.          *)

Unanswered(k) == rpcs[k].reply = NoData

Sent(c, visit, request) ==
    /\ Len(rpcs) < kit.sends
    /\ transcript' = [transcript EXCEPT ![c] = Begun(@, request)]
    /\ rpcs' = Append(rpcs, [at |-> c, id |-> transcript[c].nextId, visit |-> visit,
                             request |-> request, reply |-> NoData])

\* The console hands the forms the first method in flight and no other.
Busy == IF transcript[desk.at].inFlight = <<>> THEN NoData ELSE Head(transcript[desk.at].inFlight)

Online == stationRow[desk.at].online

\* The forms are in a fieldset that is disabled while the charger is offline.
Submit ==
    \E request \in Forms :
        /\ Online /\ Busy # request.method /\ request.method \in kit.methods
        /\ Sent(desk.at, desk.visit, request)
        /\ UNCHANGED <<kit, stationRow, desk, issues, urls, moves, troubles>>

\* useIssueUrl: POST /sys/diagnostics.
Asks(command, id) ==
    /\ urls < kit.sends
    /\ urls' = urls + 1
    /\ issues' = issues \cup {[n |-> urls', at |-> desk.at, visit |-> desk.visit,
                              command |-> command, requestId |-> id]}
    /\ UNCHANGED <<kit, stationRow, desk, transcript, rpcs, moves, troubles>>

\* GetDiagnostics with an upload URL of the Console's: it is asked for first,
\* and until then no method is in flight.
SubmitDiagnostics ==
    /\ Online /\ Busy # "get-diagnostics" /\ "GetDiagnostics" \in desk.auto
    /\ "get-diagnostics" \in kit.methods
    /\ Asks("GetDiagnostics", NoData)

\* GetLog: the request id of the field goes along when there is one.
SubmitLog ==
    /\ Online /\ Busy # "get-log" /\ "GetLog" \in desk.auto /\ LogOffered
    /\ "get-log" \in kit.methods
    /\ Asks("GetLog", desk.requestId)

\* The URL has come: the command goes out, whatever has become of the tab.  The
\* form of GetLog shows the request id, and keeps it.
IssueAnswered ==
    \E i \in issues :
        LET id == IF i.requestId = NoData THEN i.n ELSE i.requestId
        IN  /\ issues' = issues \ {i}
            /\ IF i.command = "GetLog"
                 THEN /\ desk' = IF desk.visit = i.visit THEN [desk EXCEPT !.requestId = id] ELSE desk
                      /\ Sent(i.at, i.visit, LogTo(i.n, id))
                 ELSE desk' = desk /\ Sent(i.at, i.visit, DiagnosticsTo(i.n))
            /\ UNCHANGED <<kit, stationRow, urls, moves, troubles>>

\* A toast says so, and nothing is sent.
IssueFailed ==
    \E i \in issues :
        /\ issues' = issues \ {i}
        /\ UNCHANGED <<kit, stationRow, desk, transcript, rpcs, urls, moves, troubles>>

Answered(t, k, reply) ==
    [t EXCEPT ![rpcs[k].at] = Completed(@, rpcs[k].id, rpcs[k].request.method, PatchFor(reply))]

\* The result of GetConfiguration is shown in its form.
ReplyArrives ==
    \E k \in DOMAIN rpcs, reply \in Reply :
        /\ Unanswered(k)
        /\ rpcs' = [rpcs EXCEPT ![k].reply = reply]
        /\ transcript' = Answered(transcript, k, reply)
        /\ desk' = IF rpcs[k].request.method = "get-configuration" /\ reply.kind = "result"
                        /\ desk.visit = rpcs[k].visit
                     THEN [desk EXCEPT !.config = rpcs[k].at] ELSE desk
        /\ UNCHANGED <<kit, stationRow, issues, urls, moves, troubles>>

\* The transcripts after the first k calls have been rejected.
Rejected ==
    LET rejected[k \in 0..Len(rpcs)] ==
            IF k = 0 THEN transcript
            ELSE IF Unanswered(k) THEN Answered(rejected[k - 1], k, ConnectionLost)
            ELSE rejected[k - 1]
    IN  rejected

\* The socket closes: every call under way is rejected, in the order of the calls.
FeedLost ==
    /\ troubles < kit.troubles /\ troubles' = troubles + 1
    /\ \E k \in DOMAIN rpcs : Unanswered(k)
    /\ transcript' = Rejected[Len(rpcs)]
    /\ rpcs' = [k \in DOMAIN rpcs |->
                   IF Unanswered(k) THEN [rpcs[k] EXCEPT !.reply = ConnectionLost] ELSE rpcs[k]]
    /\ UNCHANGED <<kit, stationRow, desk, issues, urls, moves>>

\* Another row of the charger on the page: it has come or gone, or a reservation has ended
\* or expired.
RowChanges ==
    /\ troubles < kit.troubles /\ troubles' = troubles + 1
    /\ \E h \in SUBSET Hold, up \in BOOLEAN :
        stationRow' = [stationRow EXCEPT ![desk.at] = [online |-> up, holds |-> h]]
    /\ UNCHANGED <<kit, desk, transcript, rpcs, issues, urls, moves>>

-----------------------------------------------------------------------------
(* The operator.                                                           *)

Moves == moves < kit.moves /\ moves' = moves + 1 /\ kit' = kit

InForms(method, d) ==
    /\ Moves /\ method \in kit.methods /\ Online /\ d # desk /\ desk' = d
    /\ UNCHANGED <<stationRow, transcript, rpcs, issues, urls, troubles>>

PickHold ==
    \E h \in IF Dropdown THEN stationRow[desk.at].holds ELSE Hold :
        InForms("cancel-reservation", [desk EXCEPT !.picked = h])

\* Between the list and a field; what was picked is cleared.
ToggleManual ==
    /\ stationRow[desk.at].holds # {}
    /\ InForms("cancel-reservation", [desk EXCEPT !.manual = ~@, !.picked = NoData])

ToggleAuto ==
    \E f \in {"GetDiagnostics", "GetLog"} :
        InForms(IF f = "GetLog" THEN "get-log" ELSE "get-diagnostics",
                [desk EXCEPT !.auto = IF f \in @ THEN @ \ {f} ELSE @ \cup {f}])

TypeRequestId == LogOffered /\ InForms("get-log", [desk EXCEPT !.requestId = Typed])

ToggleAdvanced == desk.at \notin SecurityProfile /\ InForms("get-log", [desk EXCEPT !.advanced = ~@])

InTranscript(t) ==
    /\ Moves /\ t # transcript[desk.at]
    /\ transcript' = [transcript EXCEPT ![desk.at] = t]
    /\ UNCHANGED <<stationRow, desk, rpcs, issues, urls, troubles>>

Pause  == InTranscript(Paused(transcript[desk.at]))
Resume == InTranscript(Resumed(transcript[desk.at]))

ClearTranscript ==
    /\ transcript[desk.at].entries # <<>>
    /\ InTranscript(Cleared(transcript[desk.at]))

\* Back or forward to another charger: the page stays, with its fields.
Jump ==
    \E c \in Station \ {desk.at} :
        /\ Moves /\ desk' = [desk EXCEPT !.at = c]
        /\ UNCHANGED <<stationRow, transcript, rpcs, issues, urls, troubles>>

\* Leaving the tab and coming back: the transcripts are still there.
Reopen ==
    /\ Moves /\ desk' = NewDesk(desk.at, desk.visit + 1)
    /\ UNCHANGED <<stationRow, transcript, rpcs, issues, urls, troubles>>

CommandsNext ==
    \/ Submit \/ SubmitDiagnostics \/ SubmitLog \/ IssueAnswered \/ IssueFailed
    \/ ReplyArrives \/ FeedLost \/ RowChanges
    \/ PickHold \/ ToggleManual \/ ToggleAuto \/ TypeRequestId \/ ToggleAdvanced
    \/ Pause \/ Resume \/ ClearTranscript \/ Jump \/ Reopen

CommandsSpec == CommandsInit /\ [][CommandsNext]_commandVars

-----------------------------------------------------------------------------
(* What the tab shows.                                                     *)

Filter == {"all", "accepted", "failed"}

\* The entries of t that are listed, in their order.
Visible(t, filter) ==
    {i \in DOMAIN t.entries :
        CASE filter = "all"      -> TRUE
          [] filter = "accepted" -> t.entries[i].outcome = "accepted"
          [] OTHER               -> t.entries[i].outcome \notin {"accepted", "pending"}}

\* The row of an entry.
TranscriptRow(e) == [id |-> e.id, method |-> e.request.method, badge |-> e.outcome]

Commands(c) == {k \in DOMAIN rpcs : rpcs[k].at = c}

\* The row that command k should have by now.
TrueRow(k) ==
    [id |-> rpcs[k].id, method |-> rpcs[k].request.method,
     badge |-> IF Unanswered(k) THEN "pending" ELSE PatchFor(rpcs[k].reply).outcome]

CommandsTypeOK ==
    /\ desk.at \in Station /\ desk.auto \subseteq {"GetDiagnostics", "GetLog"}
    /\ desk.picked \in Hold \cup {NoData} /\ desk.config \in Station \cup {NoData}
    /\ \A c \in Station : Len(transcript[c].entries) <= RingCap
    /\ {moves, troubles, urls} \subseteq Nat

\* The transcript tells the truth: a row is that of a command sent to this charger,
\* newest first and without gaps, and shows the answer to that command, or that
\* there is none yet.  While the transcript is paused an answer may be held back,
\* but resuming shows it, and takes no row away from the filter that lists it.  A
\* command that waits and has a row keeps its method in flight.
\* (use-command-transcript.ts:126-191, CommandTranscript.tsx:60-67.)
TranscriptIsTrue ==
    \A c \in Station :
        LET t    == transcript[c]
            then == Resumed(t)
        IN  /\ \A i \in DOMAIN then.entries :
                 /\ then.entries[i].id = t.nextId - i
                 /\ \E k \in Commands(c) : TranscriptRow(then.entries[i]) = TrueRow(k)
            /\ \A i \in DOMAIN t.entries :
                 \/ t.entries[i] = then.entries[i]
                 \/ /\ t.paused /\ t.entries[i].phase = "pending"
                    /\ t.entries[i].id = then.entries[i].id
            /\ \A f \in Filter : Visible(t, f) \subseteq Visible(then, f)
            /\ \A k \in Commands(c) :
                 Unanswered(k) /\ (\E i \in DOMAIN t.entries : t.entries[i].id = rpcs[k].id)
                    => Includes(t.inFlight, rpcs[k].request.method)

\* The button of a method is disabled while a request is pending, and only then
\* (use-command-transcript.ts:58-59; "the form button still re-enables", :145-147).
ButtonComesBack ==
    \A c \in Station : \A i \in DOMAIN transcript[c].inFlight :
        \E k \in Commands(c) :
            rpcs[k].request.method = transcript[c].inFlight[i] /\ Unanswered(k)
=============================================================================
