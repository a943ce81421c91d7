SPECIFICATION Spec
CONSTANTS
    Families = {"ds4"}
    Transports = {"enet", "tcp"}
PROPERTIES
    LoopsUntilPlugOut
