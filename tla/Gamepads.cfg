SPECIFICATION Spec
CONSTANTS
    Pads <- MCPads
    MaxPads = 2
    Identity <- MCIdentity
    NoPad = 0
    Devices <- MCPads
    Model <- MCModels
    HidPassthrough = TRUE
    MaxFails = 1
    Cooldown = 1
    MaxUnnoticed = 1
    Togglable = {}
INVARIANTS
    GamepadsInOrder
    RumbleFindsItsPad
    BridgedPadsSilent
    PlugOutRespected
