SPECIFICATION WebSpec
CONSTANTS
    Parts = {"diagnostics", "configuration", "events", "fleet", "transactions",
             "panels", "cards", "commands"}
    NoData = NoData
    p1 = p1
    p2 = p2
    v1 = v1
    v2 = v2
    k1 = k1
    plain = plain
    pinned = pinned
\* Diagnostics
    Token = {t1, t2}
    CP = {p1, p2}
    Dir <- OwnDir
    Body = {b1, b2}
    MaxRequest = 1
    TTL = 1
    MaxNow = 3
    Absent = Absent
    TornFile = TornFile
    NoToken = NoToken
\* OverrideStore, ConfigPage
    Inode = {i1, i2}
    NoFile = NoFile
    Change = {1, 2}
    Key = {k1}
    Value = {v1, v2}
    Unset = Unset
    MaxRestarts = 1
    Editor = {plain, pinned}
    KeyOf <- EditorKeys
    Pinned = {pinned}
    Toggle <- GatewayToggles
    Sensitive = {}
    Invalid = {v2}
    EnvValue = EnvValue
    Mask = Mask
    PageKits <- SomePageKits
    NoDraft = NoDraft
    NoChange = NoChange
\* EventPanel
    Charger = {p1, p2}
    History <- Logged
    PanelRing = 2
    SnapshotLimit = 1
    PageLimit = 1
    LogFilter <- LogFilters
    MaxEvents = 5
    MaxReconnects = 1
    MaxVisits = 1
\* FleetView
    Fleet = {1, 2, 3}
    FleetRow <- FleetRows
    Needle <- Needles
    PageSizes = {1, 2}
    MaxRowChanges = 1
    MaxPicks = 2
    MaxListDrops = 1
\* Transactions
    FirstSessions = 2
    MaxSessions = 3
    TextFilter <- TxTexts
    RowsPerPage = {1, 2}
    MaxStops = 1
    MaxClicks = 2
    MaxFailures = 1
\* FetchedPanels
    Subject = {"a", "b"}
    Kind = {"in", "out"}
    Spans = {1, 2}
    KindPicks <- PanelPicks
    TextPicks <- PanelTexts
    MaxInstant = 2
    MaxControls = 2
    MaxLosses = 1
\* ChargerCards
    IdTag = {"t", "u"}
    CardSizes = {1, 2}
    WalkPages = 2
    WalkSize = 1
    Artefacts = {"d1", "d2"}
    MaxStarts = 2
    MaxHappenings = 1
    MaxCardClicks = 2
    MaxCardFailures = 1
\* Commands
    Station = {"a", "b"}
    SecurityProfile = {"b"}
    Plug = {1}
    Tag = {"t"}
    Hold = {1}
    Statuses = {"Accepted"}
    GatewayCode = {"CHARGER_TIMEOUT"}
    Kits <- CommandKits
    RingCap = 2
INVARIANTS WebTypeOK  AckedSurvives ShownIsHeld    ShownFitsControls  TranscriptIsTrue
PROPERTY OneShot
CHECK_DEADLOCK FALSE
