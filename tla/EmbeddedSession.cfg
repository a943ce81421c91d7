SPECIFICATION EmbedSpec
CONSTANTS
    MaxSessions = 2
    HardwareMouse = FALSE
    UIExclusive = FALSE
    HidPassthrough = TRUE
    Embed = TRUE
INVARIANTS
    EmbedLeavesNothing
PROPERTIES
    KeepsProtocol
    EmbedSessionEnds
