SPECIFICATION Spec
CONSTANTS
    Pads <- MCOnePad
    MaxPads = 1
    Identity <- MCOneIdentity
    NoPad = 0
    Devices <- MCPads
    Model <- MCModels
    HidPassthrough = TRUE
    MaxFails = 2
    Cooldown = 1
    MaxUnnoticed = 1
    Togglable <- MCOnly
PROPERTIES
    BridgesFollowDevices
    AutoPlugSettles
