----------------------------- MODULE ChannelForms -----------------------------
(***************************************************************************)
(* The Channels tab of the alerts page (ChannelsPanel.tsx): a form per     *)
(* receiver type, filled with the masked channel that the browser holds,   *)
(* and what becomes of its fields on the way to the file and back: the     *)
(* body of the request, its schema, the merge with the secrets that are    *)
(* stored, the Alertmanager receiver that is written, and the channel that *)
(* is read from it again.                                                  *)
(*                                                                         *)
(* A handler runs in one step here; ManagedChannels is about handlers that *)
(* interleave and about the file. Required fields without a secret are     *)
(* always filled, as the Save button demands, and left out.                *)
(***************************************************************************)
EXTENDS PageData, Naturals

CONSTANTS
    Receiver,      \* receiver names
    Url,           \* webhook URLs
    LongUrl,       \* those of more than 32 characters: masked, still URLs
    Code,          \* passwords and tokens
    FormKits       \* bounds: the receiver types, overrides and buttons in use,
                   \* the writes and the restarts

Medium == {"slack", "email", "webhook", "telegram"}

\* A template override that names a root which no notification has.
BadOverride == "unknown root"
Override    == {"own text", BadOverride}

ASSUME ChannelFormsAssumption ==
    /\ LongUrl \subseteq Url
    /\ NoData \notin Url \cup Code \cup Receiver
    /\ \A k \in FormKits : /\ k.media \subseteq Medium /\ k.overrides \subseteq Override
                          /\ {k.writes, k.restarts} \subseteq Nat

VARIABLES
    formKit,        \* the bounds of this behaviour
    receivers,      \* the managed file: what Alertmanager is configured with
    defaultName,    \* its default receiver
    templating,     \* this process renders the managed templates
    listed,         \* the channels the page shows, masked, and the default
    dialog,         \* the form that is open
    confirm,        \* the channel whose removal is to be confirmed
    addMenu,        \* the menu of receiver types is open
    writes,         \* requests under way
    writeCount, reboots,
    typedFor,       \* what was typed for each receiver (history)
    retyped         \* receivers overwritten by a form of another type (history)

channelVars == <<formKit, receivers, defaultName, templating, listed, dialog, confirm, addMenu,
                 writes, writeCount, reboots, typedFor, retyped>>

LiveForm(s)  == [of |-> s, masked |-> FALSE]
NoSecret == LiveForm(NoData)

\* maskValue, maskUrl: four characters of a secret are left, or fewer.
MaskOf(s) == IF s = NoSecret THEN s ELSE [s EXCEPT !.masked = TRUE]

SecretFields == {"url", "pass", "token"}

\* What a receiver has in place of an override when the templates are managed.
Invocation == "managed template"

EmptyForm(m) ==
    [medium |-> m, url |-> NoSecret, user |-> "", pass |-> NoSecret, token |-> NoSecret, text |-> ""]

Closed == [kind |-> "closed"]

ChannelsInit ==
    /\ formKit \in FormKits
    /\ receivers = [n \in Receiver |-> NoData] /\ defaultName = NoData
    /\ templating \in BOOLEAN
    /\ listed = [channels |-> receivers, default |-> NoData]
    /\ dialog = Closed /\ confirm = NoData /\ addMenu = FALSE
    /\ writes = {} /\ writeCount = 0 /\ reboots = 0
    /\ typedFor = [n \in Receiver |-> [secrets |-> {}, texts |-> {}]] /\ retyped = {}

-----------------------------------------------------------------------------
(* The server: from the body to the receiver, and back.                    *)

SchemaAccepts(b) ==
    CASE b.medium \in {"slack", "webhook"} -> b.url.masked => b.url.of \in LongUrl
      [] b.medium = "telegram"             -> b.token # NoSecret /\ ~b.token.masked
      [] b.medium = "email"                -> TRUE

OverridesAccepted(b) == b.text # BadOverride

\* Mutant: only an empty secret keeps the one that is stored.
KeepOnlyBlank(current, b) ==
    IF current.medium # b.medium THEN b
    ELSE [x \in DOMAIN b |->
            IF x \in SecretFields /\ b[x] = NoSecret THEN current[x] ELSE b[x]]

\* mergeKeepSecrets: an empty or masked secret keeps the one that is stored.
KeepSecrets(current, b) ==
    IF current.medium # b.medium THEN b
    ELSE [x \in DOMAIN b |->
            IF x \in SecretFields /\ (b[x] = NoSecret \/ b[x].masked)
            THEN current[x] ELSE b[x]]

\* Bearer wins; basic auth takes both of its fields.
AuthRendered(c) ==
    IF c.token # NoSecret THEN [c EXCEPT !.user = "", !.pass = NoSecret]
    ELSE IF c.user # "" /\ c.pass # NoSecret THEN c
    ELSE [c EXCEPT !.user = "", !.pass = NoSecret]

ChannelToReceiver(c, templates) ==
    IF c.medium = "webhook" THEN AuthRendered(c)
    ELSE [c EXCEPT !.text = IF @ = "" /\ templates THEN Invocation ELSE @]

\* The invocation of a managed template is not an override.
ReceiverToChannel(r) == [r EXCEPT !.text = IF @ = Invocation THEN "" ELSE @]

MaskSecrets(c) == [x \in DOMAIN c |-> IF x \in SecretFields THEN MaskOf(c[x]) ELSE c[x]]

Stored(n) == ReceiverToChannel(receivers[n])
Present   == {n \in Receiver : receivers[n] # NoData}

\* renderManagedYaml: every write renders every channel again.
Rendered(channels) ==
    [n \in Receiver |-> IF channels[n] = NoData THEN NoData
                        ELSE ChannelToReceiver(channels[n], templating)]

ParsedChannels == [n \in Receiver |-> IF n \in Present THEN Stored(n) ELSE NoData]

MaskedList ==
    [channels |-> [n \in Receiver |-> IF n \in Present THEN MaskSecrets(Stored(n)) ELSE NoData],
     default  |-> defaultName]

-----------------------------------------------------------------------------
(* The panel.                                                              *)

Modal == dialog # Closed \/ confirm # NoData

OpenAddMenu ==
    /\ ~Modal /\ addMenu' = ~addMenu
    /\ UNCHANGED <<formKit, receivers, defaultName, templating, listed, dialog, confirm,
                   writes, writeCount, reboots, typedFor, retyped>>

PickMedium(m) ==
    /\ addMenu /\ addMenu' = FALSE
    /\ dialog' = [kind |-> "add", form |-> EmptyForm(m)]
    /\ UNCHANGED <<formKit, receivers, defaultName, templating, listed, confirm,
                   writes, writeCount, reboots, typedFor, retyped>>

OpenEdit(n) ==
    /\ ~Modal /\ ~addMenu /\ listed.channels[n] # NoData
    /\ dialog' = [kind |-> "edit", form |-> listed.channels[n], name |-> n]
    /\ UNCHANGED <<formKit, receivers, defaultName, templating, listed, confirm, addMenu,
                   writes, writeCount, reboots, typedFor, retyped>>

CallBegun(op, n, body, auth, from) ==
    /\ writeCount < formKit.writes
    /\ writeCount' = writeCount + 1
    /\ writes' = writes \cup {[id |-> writeCount, op |-> op, name |-> n, body |-> body,
                               auth |-> auth, from |-> from, state |-> "sent"]}

Pending(from) == \E w \in writes : w.from = from

-----------------------------------------------------------------------------
(* Submissions: what an operator can make of the channel that the form was *)
(* filled with.                                                            *)

\* FormShell: one submission at a time.
SubmitForm(n, body, auth) ==
    /\ ~Pending("dialog")
    /\ dialog.kind = "edit" => n = dialog.name
    /\ CallBegun(IF dialog.kind = "edit" THEN "put" ELSE "add", n, body, auth, "dialog")
    /\ typedFor' = [typedFor EXCEPT
            ![n].secrets = @ \cup ({body[x] : x \in SecretFields} \ {dialog.form[x] : x \in SecretFields}),
            ![n].texts   = @ \cup ({body.text} \ {dialog.form.text})]
    /\ UNCHANGED <<formKit, receivers, defaultName, templating, listed, dialog, confirm, addMenu,
                   reboots, retyped>>

Secrets(shown, typed) == {shown, NoSecret} \cup {LiveForm(s) : s \in typed}
TextFields(f)         == {f.text, ""} \cup formKit.overrides

SlackForm(n, f) ==
    \E u \in Secrets(f.url, Url) \ {NoSecret}, t \in TextFields(f) :
        SubmitForm(n, [f EXCEPT !.url = u, !.text = t], "none")

EmailForm(n, f) ==
    \E user \in {"", "user"}, p \in Secrets(f.pass, Code), t \in TextFields(f) :
        SubmitForm(n, [f EXCEPT !.user = user, !.pass = p, !.text = t], "none")

\* The fields of a mode that is not chosen are not sent.
WebhookForm(n, f) ==
    \E u \in Secrets(f.url, Url) \ {NoSecret} :
        LET base == [f EXCEPT !.url = u, !.user = "", !.pass = NoSecret, !.token = NoSecret]
        IN  \/ SubmitForm(n, base, "none")
            \/ \E user \in {"", "user"}, p \in Secrets(f.pass, Code) :
                   SubmitForm(n, [base EXCEPT !.user = user, !.pass = p], "basic")
            \/ \E t \in Secrets(f.token, Code) : SubmitForm(n, [base EXCEPT !.token = t], "bearer")

\* On an edit the token may be left empty.
TelegramForm(n, f) ==
    \E s \in Secrets(f.token, Code), t \in TextFields(f) :
        /\ dialog.kind = "add" => s # NoSecret
        /\ SubmitForm(n, [f EXCEPT !.token = s, !.text = t], "none")

SubmitChannel(n) ==
    /\ dialog # Closed
    /\ \/ dialog.form.medium = "slack"    /\ SlackForm(n, dialog.form)
       \/ dialog.form.medium = "email"    /\ EmailForm(n, dialog.form)
       \/ dialog.form.medium = "webhook"  /\ WebhookForm(n, dialog.form)
       \/ dialog.form.medium = "telegram" /\ TelegramForm(n, dialog.form)

-----------------------------------------------------------------------------
\* Cancel waits for the answer, the Escape key does not: the form is gone, and
\* the answer finds nobody.
CloseDialog ==
    /\ dialog # Closed /\ dialog' = Closed
    /\ writes' = {IF w.from = "dialog" THEN [w EXCEPT !.from = "gone"] ELSE w : w \in writes}
    /\ UNCHANGED <<formKit, receivers, defaultName, templating, listed, confirm, addMenu,
                   writeCount, reboots, typedFor, retyped>>

AskDelete(n) ==
    /\ ~Modal /\ ~addMenu /\ listed.channels[n] # NoData
    /\ confirm' = n
    /\ UNCHANGED <<formKit, receivers, defaultName, templating, listed, dialog, addMenu,
                   writes, writeCount, reboots, typedFor, retyped>>

\* Either button closes the dialog at once.
AnswerConfirm(remove) ==
    /\ confirm # NoData /\ ~(remove /\ Pending("confirm"))
    /\ confirm' = NoData
    /\ IF remove THEN CallBegun("delete", confirm, NoData, "none", "confirm")
       ELSE UNCHANGED <<writes, writeCount>>
    /\ UNCHANGED <<formKit, receivers, defaultName, templating, listed, dialog, addMenu,
                   reboots, typedFor, retyped>>

\* The buttons of a row: one request of a kind at a time. A test changes nothing.
RowButton(n, op) ==
    /\ ~Modal /\ ~addMenu /\ listed.channels[n] # NoData
    /\ op = "default" => listed.default # n
    /\ ~\E w \in writes : w.from = "row" /\ w.op = op /\ w.name = n
    /\ CallBegun(op, n, NoData, "none", "row")
    /\ UNCHANGED <<formKit, receivers, defaultName, templating, listed, dialog, confirm, addMenu,
                   reboots, typedFor, retyped>>

\* useChannels: the poll, or the refetch after a write.
ListChannels ==
    /\ listed' = MaskedList
    /\ UNCHANGED <<formKit, receivers, defaultName, templating, dialog, confirm, addMenu,
                   writes, writeCount, reboots, typedFor, retyped>>

-----------------------------------------------------------------------------
(* The routes.                                                             *)

WriteRefused(w) ==
    CASE w.op = "add" -> ~SchemaAccepts(w.body) \/ ~OverridesAccepted(w.body) \/ w.name \in Present
      [] w.op = "put" -> ~SchemaAccepts(w.body) \/ ~OverridesAccepted(w.body) \/ w.name \notin Present
      [] OTHER        -> w.name \notin Present

Answering(w, state) == writes' = (writes \ {w}) \cup {[w EXCEPT !.state = state]}

\* The channels that the route writes back, and their default.
AddChannel(w) ==
    /\ w.op = "add"
    /\ receivers' = Rendered([ParsedChannels EXCEPT ![w.name] = w.body])
    /\ defaultName' = IF defaultName = NoData THEN w.name ELSE defaultName
    /\ UNCHANGED retyped

PutChannel(w) ==
    /\ w.op = "put"
    /\ receivers' = Rendered([ParsedChannels EXCEPT ![w.name] = KeepSecrets(@, w.body)])
    /\ retyped' = IF Stored(w.name).medium # w.body.medium THEN retyped \cup {w.name} ELSE retyped
    /\ UNCHANGED defaultName

DeleteChannel(w) ==
    /\ w.op = "delete"
    /\ receivers' = Rendered([ParsedChannels EXCEPT ![w.name] = NoData])
    /\ defaultName' \in IF defaultName # w.name THEN {defaultName}
                        ELSE IF Present = {w.name} THEN {NoData} ELSE Present \ {w.name}
    /\ retyped' = retyped \ {w.name}

SwitchDefault(w) ==
    /\ w.op = "default"
    /\ receivers' = Rendered(ParsedChannels) /\ defaultName' = w.name
    /\ UNCHANGED retyped

TestChannel(w) ==
    /\ w.op = "test"
    /\ UNCHANGED <<receivers, defaultName, retyped>>

ServeWrite(w) ==
    /\ w.state = "sent"
    /\ \/ /\ ~WriteRefused(w) /\ Answering(w, "ok")
          /\ AddChannel(w) \/ PutChannel(w) \/ DeleteChannel(w) \/ SwitchDefault(w) \/ TestChannel(w)
       \/ /\ WriteRefused(w) /\ Answering(w, "failed")
          /\ UNCHANGED <<receivers, defaultName, retyped>>
    /\ UNCHANGED <<formKit, templating, listed, dialog, confirm, addMenu, writeCount, reboots, typedFor>>

\* The answer arrives: it closes the form that sent it, or whatever confirmation
\* is open when a removal has succeeded.
WriteAnswered(w) ==
    /\ w.state # "sent"
    /\ writes' = writes \ {w}
    /\ dialog' = IF w.from = "dialog" /\ w.state = "ok" THEN Closed ELSE dialog
    /\ confirm' = IF w.from = "confirm" /\ w.state = "ok" THEN NoData ELSE confirm
    /\ UNCHANGED <<formKit, receivers, defaultName, templating, listed, addMenu,
                   writeCount, reboots, typedFor, retyped>>

\* The Console starts again, with the templates configured or not; the requests
\* under way fail, served or not.
ChannelsRestart ==
    /\ reboots < formKit.restarts /\ reboots' = reboots + 1
    /\ templating' \in BOOLEAN
    /\ writes' = {[w EXCEPT !.state = "failed"] : w \in writes}
    /\ UNCHANGED <<formKit, receivers, defaultName, listed, dialog, confirm, addMenu,
                   writeCount, typedFor, retyped>>

ChannelsNext ==
    \/ OpenAddMenu \/ CloseDialog \/ ListChannels \/ ChannelsRestart
    \/ \E m \in formKit.media : PickMedium(m)
    \/ \E n \in Receiver :
        \/ OpenEdit(n) \/ SubmitChannel(n)
        \/ "delete" \in formKit.buttons /\ AskDelete(n)
        \/ \E op \in {"default", "test"} \cap formKit.buttons : RowButton(n, op)
    \/ \E remove \in BOOLEAN : AnswerConfirm(remove)
    \/ \E w \in writes : ServeWrite(w) \/ WriteAnswered(w)

ChannelsSpec == ChannelsInit /\ [][ChannelsNext]_channelVars

-----------------------------------------------------------------------------
SecretValue == [of : Url \cup Code \cup {NoData}, masked : BOOLEAN]

ChannelValue ==
    [medium : Medium, url : SecretValue, user : {"", "user"}, pass : SecretValue,
     token : SecretValue, text : Override \cup {"", Invocation}]

\* What the page, the wire and the file hold stays a channel.
ChannelFormsTypeOK ==
    /\ receivers \in [Receiver -> ChannelValue \cup {NoData}]
    /\ defaultName \in Present \cup {NoData}
    /\ listed.channels \in [Receiver -> ChannelValue \cup {NoData}]
    /\ dialog # Closed => dialog.form \in ChannelValue
    /\ confirm \in Receiver \cup {NoData}
    /\ {templating, addMenu} \subseteq BOOLEAN
    /\ \A w \in writes : w.name \in Receiver /\ w.body \in ChannelValue \cup {NoData}

\* However often a channel is listed masked, edited, stored under templates or
\* without and read again, every secret in the file is one that an operator
\* typed for it, whole, and every override is one that an operator typed: no
\* mask and no managed template is taken for a setting. Excepted is a receiver
\* whose form was opened before the name changed its type: its mask is stored.
StoredIsTyped ==
    \A n \in Present \ retyped :
        /\ {Stored(n)[x] : x \in SecretFields} \subseteq typedFor[n].secrets \cup {NoSecret}
        /\ Stored(n).text \in typedFor[n].texts \cup {""}

\* A webhook that was saved has the auth mode chosen in its form: a comment says
\* that the form keeps basic auth and a bearer token apart.
AuthAsChosen ==
    [][\A w \in writes :
         w.state = "sent" /\ w.op = "put" /\ w.body.medium = "webhook"
         /\ [w EXCEPT !.state = "ok"] \in writes'
         => w.auth = IF Stored(w.name)'.token # NoSecret THEN "bearer"
                     ELSE IF Stored(w.name)'.user # "" THEN "basic" ELSE "none"]_channelVars
=============================================================================
