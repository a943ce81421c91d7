SPECIFICATION PartsSpec
CONSTANTS
    Keys = {"chord", "q", "ok"}
    Chord = "chord"
    ComboKeys = {"q"}
    OkKey = "ok"
    MaxListed = 2
    MaxDrift = 1
    Pads = {p1, p2}
    Button = {"lb", "rb", "rs"}
    HasVmouse = TRUE
    Devices = {"a", "b"}
    Tagged = {}
    Nodes = {1, 2}
    Bridges = {"x", "y"}
    MaxSessions = 2
    Ports = {1, 2}
    MaxEnums = 2
    Apps = {a1, a2}
    NoApp = NoApp
    MaxCerts = 2
    Requests = {r1, r2}
    Items = {t1}
    Covers = {c1, c2, c3}
    NoCover = NoCover
    NoItem = NoItem
    IoThreads = 2
    CacheSize = 2
    Pcs = {"h1", "h2"}
    NoHost = "nohost"
    DefaultHost = "h1"
    MaxArms = 2
    Hosts = {h1, h2, h3}
    Ttl = 3
    Ids = {"mac", "key"}
    Addressed = {"mac"}
    KnownPcs = {"pc1"}
    PcApps = {"app"}
    Presets = {60, 90}
    Customs = {89499, 119940, 300000}
INVARIANTS
    StoredComesBack
    KeysAtHostAreListed
    ButtonsAreHeld
    PadsAtRest
    ViewInOrder
    TablesAgree
    FlydigiCanBePlugged
    NoHalfPairing
    CoversAreKept
    LauncherInOrder
    ThrottleSorted
PROPERTIES
    CombosStartClean
    HostIsBelieved
CHECK_DEADLOCK FALSE
