SPECIFICATION Spec
CONSTANTS
    Families = {"ds5", "ds4", "plain", "puck", "flydigi", "flydigi_evdev"}
    Transports = {"enet", "tcp"}
INVARIANTS
    ThreadsInOrder
PROPERTIES
    StaleWakeStopsNoReader
    PlugOutCompletes
    LinkLossIsRetried
