-------------------------------- MODULE MCWeb --------------------------------
(***************************************************************************)
(* One instance for the parts of the web application and of the server     *)
(* that share no state: every behaviour is a behaviour of one part, and    *)
(* the others keep still.                                                  *)
(***************************************************************************)
EXTENDS Diagnostics, ConfigPage, EventPanel, FleetView, Transactions, FetchedPanels,
        ChargerCards, Commands

CONSTANTS
    Parts,                  \* the parts to check
    p1, p2, v1, v2, k1      \* charge points, values and a key

ASSUME WebAssumption ==
    Parts \subseteq {"diagnostics", "configuration", "events", "fleet", "transactions",
                     "panels", "cards", "commands"}

VARIABLE part

webVars == <<part, vars, configVars, panelVars, fleetVars, txVars, panelsVars, cardVars,
             commandVars>>

\* A part that keeps still starts in one state.
WebInit ==
    /\ part \in Parts
    /\ Init /\ TxInit
    /\ ConfigInit   /\ (part # "configuration" => pageKit = CHOOSE k \in PageKits : TRUE)
    /\ PanelInit    /\ (part # "events" => cpId = p1 /\ filter = {})
    /\ FleetInit    /\ (part # "fleet" => \A f \in Fleet : fleet[f].online)
    /\ PanelsInit   /\ (part # "panels" => /\ kindOf = "log" /\ view = FirstView("a")
                                          /\ records[1] = [subject |-> "a", kind |-> "in"])
    /\ CardInit     /\ (part # "cards" => card = "history")
    /\ CommandsInit /\ (part # "commands" => kit.troubles = 0 /\ desk = NewDesk("a", 0))

WebNext ==
    /\ UNCHANGED part
    /\ IF part = "diagnostics"   THEN Next         ELSE UNCHANGED vars
    /\ IF part = "configuration" THEN ConfigNext   ELSE UNCHANGED configVars
    /\ IF part = "events"        THEN PanelNext    ELSE UNCHANGED panelVars
    /\ IF part = "fleet"         THEN FleetNext    ELSE UNCHANGED fleetVars
    /\ IF part = "transactions"  THEN TxNext       ELSE UNCHANGED txVars
    /\ IF part = "panels"        THEN PanelsNext   ELSE UNCHANGED panelsVars
    /\ IF part = "cards"         THEN CardNext     ELSE UNCHANGED cardVars
    /\ IF part = "commands"      THEN CommandsNext ELSE UNCHANGED commandVars

WebSpec == WebInit /\ [][WebNext]_webVars

\* Every variable of the part that moves keeps its type: the request tables and
\* files of the routes, and the page states built from their answers.
WebTypeOK ==
    CASE part = "diagnostics"   -> TypeOK
      [] part = "configuration" -> ConfigTypeOK
      [] part = "events"        -> PanelTypeOK
      [] part = "fleet"         -> FleetTypeOK
      [] part = "transactions"  -> TxTypeOK
      [] part = "panels"        -> PanelsTypeOK
      [] part = "cards"         -> CardTypeOK
      [] part = "commands"      -> CommandsTypeOK

-----------------------------------------------------------------------------
(* Values of the constants.                                                *)

\* Diagnostics: two chargers whose ids sanitiseSegment keeps apart.
OwnDir == [p \in CP |-> p]

\* Configuration: both tabs, once with restarts and a value that is refused, once
\* with two saves.  A toggle in the gateway tab.
CONSTANTS plain, pinned
EditorKeys == [e \in Editor |-> k1]
GatewayToggles == {"gateway"} \X Editor
PageKit(s, v, f, n, r) ==
    [scope |-> s, values |-> v, filtering |-> f, saves |-> n, restarts |-> r]
SomePageKits ==
    UNION {{PageKit(s, Value, TRUE, 1, 1), PageKit(s, Value \ Invalid, FALSE, 2, 0)}
            : s \in {"console", "gateway"}}

\* Events: a charger with a log longer than the snapshot, and one with one entry;
\* as many come as the ring and the buffer hold.
Logged == [c \in Charger |-> IF c = p1 THEN 1..2 ELSE {3}]
LogFilters == {1..MaxEvents, {}}

\* Fleet: a healthy charger and one that is away with an error.
FleetRows ==
    {[online |-> TRUE, connectors |-> {[status |-> "Available", error |-> FALSE]}],
     [online |-> FALSE, connectors |-> {[status |-> "Faulted", error |-> TRUE]}]}
Needles == {Fleet, {2}}

\* Transactions: no text, or one that matches one session.
TxTexts == {SessionId, {2}}

\* Fetched panels: nothing typed, one kind, or one subject.
PanelTexts == {Anything, [kinds |-> {"in"}, subjects |-> {"a"}]}
PanelPicks == {Kind, {"in"}}

\* Commands: one of each, and combinations of those that interact.
CommandKit(m, s, v, t) == [methods |-> m, sends |-> s, moves |-> v, troubles |-> t]
CommandKits ==
    {CommandKit({"remote-start", "remote-stop", "trigger-message", "unlock-connector",
                 "clear-cache", "change-configuration", "reserve-now", "data-transfer",
                 "get-configuration", "cancel-reservation", "get-log", "get-diagnostics"}, 1, 1, 1),
     CommandKit({"remote-stop", "clear-cache"}, 3, 1, 0),
     CommandKit({"remote-stop", "get-configuration"}, 2, 2, 1),
     CommandKit({"get-log"}, 2, 2, 1)}
=============================================================================
