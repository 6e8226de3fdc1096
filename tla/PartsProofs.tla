----------------------------- MODULE PartsProofs -----------------------------
(***************************************************************************)
(* The parts of the web application and of the server as MCWeb composes    *)
(* them: the composition implements each part, so that what the proofs of  *)
(* the parts show holds of it.                                             *)
(***************************************************************************)
EXTENDS MCWeb, PageProofs, WebProofs

\* A behaviour of the composition is one of each part: a part that keeps still
\* stutters, and it starts in one of its own initial states.
THEOREM CompositionImplementsParts ==
    WebSpec => /\ Spec /\ ConfigSpec /\ PanelSpec /\ FleetSpec
               /\ TxSpec /\ PanelsSpec /\ CardSpec /\ CommandsSpec
<1>1. WebInit => /\ Init /\ ConfigInit /\ PanelInit /\ FleetInit
                 /\ TxInit /\ PanelsInit /\ CardInit /\ CommandsInit
  BY DEF WebInit
<1>2. [WebNext]_webVars =>
        /\ [Next]_vars /\ [ConfigNext]_configVars /\ [PanelNext]_panelVars
        /\ [FleetNext]_fleetVars /\ [TxNext]_txVars /\ [PanelsNext]_panelsVars
        /\ [CardNext]_cardVars /\ [CommandsNext]_commandVars
  BY DEF WebNext, webVars
<1> QED
  BY <1>1, <1>2, PTL DEF WebSpec, Spec, ConfigSpec, PanelSpec, FleetSpec, TxSpec, PanelsSpec,
                         CardSpec, CommandsSpec

\* Whichever parts are composed, the request tables and files of the routes and the
\* states of the pages keep their types.
THEOREM PartsKeepTypes == WebSpec => []WebTypeOK
<1> DEFINE AllTyped == /\ TypeOK /\ ConfigTypeOK /\ PanelTypeOK /\ FleetTypeOK
                       /\ TxTypeOK /\ PanelsTypeOK /\ CardTypeOK /\ CommandsTypeOK
<1>1. WebInit => part \in Parts
  BY DEF WebInit
<1>2. part \in Parts /\ [WebNext]_webVars => (part \in Parts)'
  BY DEF WebNext, webVars
<1>3. part \in Parts /\ AllTyped => WebTypeOK
  BY WebAssumption DEF WebTypeOK
<1>4. WebSpec => []AllTyped
  BY CompositionImplementsParts, ArtefactsIntact, ConfigTypeCorrect, PanelIsTyped,
     FleetTypeCorrect, TxTypeCorrect, PanelsTypeCorrect, CardsAreTyped, CommandsTypeCorrect, PTL
<1> QED BY <1>1, <1>2, <1>3, <1>4, PTL DEF WebSpec

\* All the parts keep their promises in the composition, whichever of them moves: the
\* artefacts and their tokens, the overrides and the page that shows them, the event
\* feed, the fleet table, the transactions, the panels, the cards and the transcripts.
THEOREM PartsKeepPromises ==
    WebSpec => /\ [](FilesIntact /\ AckedSurvives /\ ShownIsHeld /\ NoHoleNoRepeat /\ RowsAreTrue)
               /\ [](LiveShowsStarts /\ ShownFitsControls /\ CardsAreTrue /\ TranscriptIsTrue)
               /\ OneShot
<1> QED
  BY CompositionImplementsParts, ArtefactsIntact, TokensOneShot, AckedOverridesSurvive,
     PageShowsHeld, FeedHasNoHoleNoRepeat, RowsStayTrue, LiveRowsAreThere, PanelsFitControls,
     CardsShowTheCharger, TranscriptsTellTheTruth, PTL
=============================================================================
