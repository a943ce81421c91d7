SPECIFICATION FairSpec
CONSTANTS
    MaxSessions = 2
    HardwareMouse = TRUE
    UIExclusive = TRUE
    HidPassthrough = TRUE
    Embed = FALSE
INVARIANTS
    EventsComeInTime
    SessionLeavesNothing
PROPERTIES
    KeepsProtocol
    SessionEnds
    QuitReachesHost
    ExitCompletes
