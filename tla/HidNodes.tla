--------------------------------- MODULE HidNodes ----------------------------------
(* Which node of a controller is bridged (ui_devices.c).  A Flydigi pad is a composite
   device on a USB port: by its mode it shows a gamepad, a vendor interface or a mouse as
   hidraw nodes, or an evdev node of the xpad driver, with or without the mouse.  Its
   nodes are gathered to one row by the port; other devices have a row for each node.

   The list is that of the last scan, the evdev node is looked for in sysfs when it is
   needed, the identity of a port is remembered for good and so is its enumeration, which
   the host builds the device from.  Devices change, and change their mode, in between.

   Names, paths, ids and report descriptors are abstracted to what they are compared for:
   the interface a node belongs to and its port, which sysfs always gives. *)
EXTENDS Integers, FiniteSets, FiniteSetsExt

CONSTANTS
    Ports,          \* USB ports
    MaxEnums        \* COMPOSITE_ENUM_MAX_CACHE

ASSUME NodesAssumption == IsFiniteSet(Ports) /\ MaxEnums \in Nat

VARIABLES
    plugged,        \* what is on each port: a mode of a Flydigi, another device, "none"
    scan,           \* g_scan: the nodes as [port, part, native] (native: by its ids)
    identity,       \* g_usb_identity_cache: "unknown", "flydigi", "other"
    enums,          \* g_composite_enums: what each port was when it was captured
    current         \* history: nothing has changed since the scan

nodeVars == <<plugged, scan, identity, enums, current>>

\* The interfaces of each: "xpad" is an evdev node, the others are hidraw nodes.
Parts == [native |-> {"pad", "vendor", "mouse"}, xinput |-> {"xpad", "mouse"},
          xinputVendor |-> {"xpad", "vendor"}, xpadOnly |-> {"xpad"},
          xbox |-> {"xpad"}, mouse |-> {"mouse"}, none |-> {}]

Flydigi == {"native", "xinput", "xinputVendor", "xpadOnly"}

NodesInit ==
    /\ plugged = [p \in Ports |-> "none"] /\ scan = {} /\ current = TRUE
    /\ identity = [p \in Ports |-> "unknown"] /\ enums = [p \in Ports |-> "none"]

----
(* Devices and rows *)

IsHidraw(node) == node.part # "xpad"

\* is_flydigi_usb_busid; is_flydigi_composite_device knows the native ids as well.
IsFlydigiPort(p) == identity[p] = "flydigi"
IsComposite(node) == IsFlydigiPort(node.port) \/ node.native

\* logical_key_for_device
KeyOf(node) ==
    IF IsComposite(node) THEN <<"flydigi", node.port, "">>
    ELSE IF ~IsHidraw(node) THEN <<"usb", node.port, "">>
    ELSE <<"hid", node.port, node.part>>

\* g_devices, and the nodes of a row
Rows == {KeyOf(node) : node \in scan}
RowNodes(key) == {node \in scan : KeyOf(node) = key}

\* gamepad_iface_score_for_device: the top usage, raised for the port and the name of a
\* Flydigi (one with native ids has such a name) and for a vendor label.
Score(node) ==
    LET bonus == (IF IsFlydigiPort(node.port) THEN 15 ELSE 0) + (IF node.native THEN 15 ELSE 0)
    IN  CASE node.part = "xpad"   -> IF IsFlydigiPort(node.port) THEN 120 ELSE -1
          [] node.part = "mouse"  -> -1
          [] node.part = "pad"    -> 100 + bonus
          [] node.part = "vendor" -> 50 + bonus + 10

\* best_scan_index_for_item: where no node is a candidate, the first hidraw node is taken.
BestOf(key) ==
    LET best == {n \in RowNodes(key) : \A m \in RowNodes(key) : Score(m) <= Score(n)}
        hidraws == {n \in RowNodes(key) : IsHidraw(n)}
    IN  IF \E n \in best : Score(n) >= 0 THEN best
        ELSE IF hidraws # {} THEN hidraws ELSE RowNodes(key)

----
(* The path of a Flydigi *)

\* flydigi_xpad_evdev_path_for_busid looks at sysfs as it is now.
HasEvdev(p) == "xpad" \in Parts[plugged[p]]

Hidraws(p) == {node \in scan : node.port = p /\ IsHidraw(node)}

\* flydigi_is_xinput_evdev_only, flydigi_is_xinput_mode
EvdevOnly(p) == IsFlydigiPort(p) /\ HasEvdev(p) /\ Hidraws(p) = {}
XinputMode(p) == HasEvdev(p) /\ \A node \in Hidraws(p) : Score(node) < 90

\* flydigi_handshake_hidraw_pick: the first in the order of the scan, which is any.
\* Fault: the mouse is picked like the others
HandshakesAny(p) == Hidraws(p)

Handshakes(p) == {node \in Hidraws(p) : node.part # "mouse"}

\* flydigi_has_pluggable_path and the choice of plug_in_scan_index
PathsOf(p) ==
    IF EvdevOnly(p) THEN {"xpad"}
    ELSE IF Handshakes(p) # {} THEN {node.part : node \in Handshakes(p)}
    ELSE IF XinputMode(p) THEN {"xpad"} ELSE {}

----
(* The world and the scan *)

\* A device comes, goes, is exchanged, or changes its mode.
PortChanges(p, thing) ==
    /\ plugged[p] # thing
    /\ plugged' = [plugged EXCEPT ![p] = thing] /\ current' = FALSE
    /\ UNCHANGED <<scan, identity, enums>>

\* read_usb_identity_attrs, which enumerate_devices asks of every port it finds
Identified ==
    identity' = [p \in Ports |->
        IF identity[p] # "unknown" \/ plugged[p] = "none" THEN identity[p]
        ELSE IF plugged[p] \in Flydigi THEN "flydigi" ELSE "other"]

\* composite_enumerate_ifaces: the interfaces and descriptors sysfs has of a port
EnumOf(p) == plugged[p]

\* build_composite_enum_payload finds something to send.
HasEnum(p) == enums[p] # "none"

\* composite_enum_capture for the Flydigi rows.  What is cached for a port is taken for
\* what is there now: the directory in sysfs is the same.  A full cache takes no more.
Captures(found) ==
    LET new == {p \in found : ~HasEnum(p)}
        room == MaxEnums - Cardinality({p \in Ports : HasEnum(p)})
    IN  \E kept \in SUBSET new :
          /\ Cardinality(kept) = Min({room, Cardinality(new)})
          /\ enums' = [p \in Ports |-> IF p \in kept THEN EnumOf(p) ELSE enums[p]]

\* The nodes of a port, which is found from their paths in sysfs.
NodesOf(p) == {[port |-> p, part |-> i, native |-> plugged[p] = "native"] : i \in Parts[plugged[p]]}

\* hid_passthrough_manager_rescan
Scans ==
    /\ scan' = UNION {NodesOf(p) : p \in Ports}
    /\ Identified /\ current' = TRUE
    /\ Captures({p \in Ports : plugged[p] # "none" /\
                               (identity'[p] = "flydigi" \/ plugged[p] = "native")})
    /\ UNCHANGED plugged

NodesNext == Scans \/ \E p \in Ports, t \in DOMAIN Parts : PortChanges(p, t)
NodesSpec == NodesInit /\ [][NodesNext]_nodeVars

----
NodesTypeOK ==
    /\ plugged \in [Ports -> DOMAIN Parts] /\ enums \in [Ports -> DOMAIN Parts]
    /\ identity \in [Ports -> {"unknown", "flydigi", "other"}] /\ current \in BOOLEAN
    /\ \A node \in scan : node.port \in Ports

\* Besides the types: when nothing has changed since the scan, a Flydigi has one row, in
\* each of its modes and after any other mode on its port, and that row can be plugged:
\* its enumeration is there, and both the node it is plugged by and the node that is
\* opened are nodes of the pad, never its mouse.
\* (A port whose identity is that of another device shows no Flydigi until the restart.)
FlydigiCanBePlugged ==
    /\ NodesTypeOK
    /\ \A p \in Ports :
         current /\ plugged[p] \in Flydigi /\ (IsFlydigiPort(p) \/ plugged[p] = "native") =>
            /\ {key \in Rows : key[2] = p} = {<<"flydigi", p, "">>}
            /\ Cardinality(Ports) <= MaxEnums => HasEnum(p)
            /\ PathsOf(p) # {} /\ PathsOf(p) \subseteq Parts[plugged[p]] \ {"mouse"}
            /\ \A node \in BestOf(<<"flydigi", p, "">>) : node.part # "mouse"
=====================================================================================
