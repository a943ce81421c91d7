--------------------------------- MODULE MCParts ---------------------------------
(* The parts of the program that do not meet, checked in one run: the first state
   chooses a part, and its steps are the only ones.  A behaviour of part p is one of the
   specification of p, with the variables of the others at their initial values. *)
EXTENDS SessionKeys, SessionPointer, SessionPad, StreamingView, HidTables, HidNodes,
        GameStream, CoverLoader, Launcher, DiscoveryThrottle, StoredSettings

VARIABLE part

Part == {"keys", "pointer", "pad", "view", "tables", "nodes", "gamestream", "covers",
         "launcher", "throttle", "settings"}

PartsInit ==
    /\ part \in Part
    /\ KeysInit /\ PointerInit /\ PadInit /\ ViewInit /\ TablesInit /\ NodesInit
    /\ GsInit /\ CoverInit /\ LauncherInit /\ ThrottleInit /\ StoredInit
    /\ part # "launcher" => selected = NoHost

OthersStay ==
    /\ UNCHANGED part
    /\ IF part = "keys" THEN TRUE ELSE UNCHANGED keysVars
    /\ IF part = "pointer" THEN TRUE ELSE UNCHANGED pointerVars
    /\ IF part = "pad" THEN TRUE ELSE UNCHANGED padVars
    /\ IF part = "view" THEN TRUE ELSE UNCHANGED viewVars
    /\ IF part = "tables" THEN TRUE ELSE UNCHANGED tableVars
    /\ IF part = "nodes" THEN TRUE ELSE UNCHANGED nodeVars
    /\ IF part = "gamestream" THEN TRUE ELSE UNCHANGED gsVars
    /\ IF part = "covers" THEN TRUE ELSE UNCHANGED coverVars
    /\ IF part = "launcher" THEN TRUE ELSE UNCHANGED launcherVars
    /\ IF part = "throttle" THEN TRUE ELSE UNCHANGED throttleVars
    /\ IF part = "settings" THEN TRUE ELSE UNCHANGED storedVars

PartsNext ==
    \/ part = "keys" /\ KeysNext /\ OthersStay
    \/ part = "pointer" /\ PointerNext /\ OthersStay
    \/ part = "pad" /\ PadNext /\ OthersStay
    \/ part = "view" /\ ViewNext /\ OthersStay
    \/ part = "tables" /\ TablesNext /\ OthersStay
    \/ part = "nodes" /\ NodesNext /\ OthersStay
    \/ part = "gamestream" /\ GsNext /\ OthersStay
    \/ part = "covers" /\ CoverNext /\ OthersStay
    \/ part = "launcher" /\ LauncherNext /\ OthersStay
    \/ part = "throttle" /\ ThrottleNext /\ OthersStay
    \/ part = "settings" /\ StoredNext /\ OthersStay

partsVars == <<part, keysVars, pointerVars, padVars, viewVars, tableVars, nodeVars, gsVars,
               coverVars, launcherVars, throttleVars, storedVars>>

PartsSpec == PartsInit /\ [][PartsNext]_partsVars
==================================================================================
