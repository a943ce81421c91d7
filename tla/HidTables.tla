--------------------------------- MODULE HidTables ---------------------------------
(* The tables of the HID passthrough: what the last scan saw, which devices are plugged,
   the bridge sessions, the settings of each device and the stored preferences
   (ui_devices.c, ui_bridge.c, hid_pt_device_prefs.c), as the poll, the panel and the
   life of the stream change them.  Which pads the host loses by it is module Gamepads.

   A device is known by the number of its hidraw node (logical_key_for_device), which the
   kernel gives to whatever comes next; only the preferences are kept by the address of
   the device, where it has one.  The host is told of a bridge by one command and of its
   end by another, and either may be lost.

   All of this runs on the main thread; between its steps devices come and go.  Device
   classes and nodes are module HidNodes.  The three tries of AUTOPLUG_MAX_FAILS and the
   polls of the cooldown are counted as "sooner or later". *)
EXTENDS Naturals, FiniteSets, Functions

CONSTANTS
    Devices,      \* controllers the tables know (never kind "hid")
    Tagged,       \* those with an address (mac)
    Nodes,        \* numbers of hidraw nodes
    Bridges,      \* names the bridges have on the host
    MaxSessions   \* MAX_SESSIONS

ASSUME TablesAssumption ==
    /\ IsFiniteSet(Nodes) /\ Nodes \subseteq Nat \ {0} /\ Tagged \subseteq Devices
    /\ IsFiniteSet(Bridges) /\ MaxSessions \in Nat

VARIABLES
    hidraw,     \* the node of each device, 0 where it is absent
    seen,       \* g_devices: node -> device
    plugKeys,   \* g_plugged_keys
    sessions,   \* g_sessions: node -> [busid, port]
    autoOf,     \* g_settings: node -> auto_plugin
    prefs,      \* g_hid_pt_prefs: the ids with auto_plugin set
    managed,    \* g_autoplug: the entries that are DONE or GIVEUP
    cooldown,   \* g_autoplug_plug_cooldown > 0
    onHost,     \* the bridges the host has
    stray,      \* history: of those, the ones whose end the host was not told
    online,     \* g_agent_online
    running,    \* manager->running
    life,       \* of the stream: "none", "live", "closing"
    polling     \* where the poll is: "idle", "reap", "try"

tableVars == <<hidraw, seen, plugKeys, sessions, autoOf, prefs, managed, cooldown,
               onHost, stray, online, running, life, polling>>

NoNode == [n \in {} |-> 0]

TablesInit ==
    /\ hidraw = [d \in Devices |-> 0] /\ seen = NoNode /\ plugKeys = {} /\ sessions = NoNode
    /\ autoOf = NoNode /\ prefs = {} /\ managed = {} /\ cooldown = FALSE
    /\ onHost = {} /\ stray = {} /\ online = FALSE /\ running = FALSE
    /\ life = "none" /\ polling = "idle"

----
(* The kernel, and what a scan finds of it *)

Appears(d, n) ==
    /\ hidraw[d] = 0 /\ n \notin Range(hidraw) /\ hidraw' = [hidraw EXCEPT ![d] = n]
    /\ UNCHANGED <<seen, plugKeys, sessions, autoOf, prefs, managed, cooldown, onHost, stray,
                   online, running, life, polling>>

Vanishes(d) ==
    /\ hidraw[d] # 0 /\ hidraw' = [hidraw EXCEPT ![d] = 0]
    /\ UNCHANGED <<seen, plugKeys, sessions, autoOf, prefs, managed, cooldown, onHost, stray,
                   online, running, life, polling>>

AtNode(n) == CHOOSE d \in Devices : hidraw[d] = n

\* hid_passthrough_manager_rescan
Rescans == seen' = [n \in Range(hidraw) \ {0} |-> AtNode(n)]

\* hid_pt_stable_id_for_logical, for a record made now
StableId(n) == IF seen'[n] \in Tagged THEN <<"mac", seen'[n]>> ELSE <<"key", n>>

\* ui_record_for_item for the items of a set: a record is made once, from the preferences.
Records(S) ==
    autoOf' = [n \in DOMAIN autoOf \cup S |->
                   IF n \in DOMAIN autoOf THEN autoOf[n] ELSE StableId(n) \in prefs]

----
(* Sessions and the commands to the agent *)

Busids == {sessions[n].busid : n \in DOMAIN sessions}

\* make_bridge_busid; none is left where the agent takes no more.
FreeNames == Bridges \ (onHost \cup Busids)
NextBusid == CHOOSE b \in FreeNames : TRUE

\* next_bridge_port
\* Fault: ports are counted, not looked up
PortByCount == Cardinality(DOMAIN sessions)

NextPort ==
    CHOOSE p \in 0 .. Cardinality(DOMAIN sessions) :
        /\ \A n \in DOMAIN sessions : sessions[n].port # p
        /\ \A q \in 0 .. p - 1 : \E n \in DOMAIN sessions : sessions[n].port = q

\* add_session; the table may be full.
AddsSession(n, s) ==
    IF n \in DOMAIN sessions \/ Cardinality(DOMAIN sessions) < MaxSessions
      THEN sessions' = [m \in DOMAIN sessions \cup {n} |-> IF m = n THEN s ELSE sessions[m]]
      ELSE UNCHANGED sessions

\* plug_in_scan_index that succeeds: what is opened is the node as it is now.
PlugsIn(n) ==
    /\ FreeNames # {} /\ n \in Range(hidraw)
    /\ AddsSession(n, [busid |-> NextBusid, port |-> NextPort])
    /\ onHost' = onHost \cup {NextBusid} /\ online' = TRUE /\ UNCHANGED stray

\* plug_in_scan_index that fails: the agent is not reached; it refuses, or the bridge was
\* started and a later step failed (BRIDGE_STOP); its answer or the BRIDGE_STOP is lost.
\* Fault: a later step that fails leaves the bridge
FailsWithoutStop ==
    \/ online' = FALSE /\ UNCHANGED <<onHost, stray>>
    \/ FreeNames # {} /\ onHost' = onHost \cup {NextBusid} /\ online' = TRUE /\ UNCHANGED stray
    \/ /\ FreeNames # {} /\ onHost' = onHost \cup {NextBusid} /\ stray' = stray \cup {NextBusid}
       /\ online' \in BOOLEAN

PlugFails ==
    \/ online' = FALSE /\ UNCHANGED <<onHost, stray>>
    \/ online' = TRUE /\ UNCHANGED <<onHost, stray>>
    \/ /\ FreeNames # {} /\ onHost' = onHost \cup {NextBusid} /\ stray' = stray \cup {NextBusid}
       /\ online' \in BOOLEAN

\* stop_session for the keys of a set: BRIDGE_STOP is sent while the agent is thought to
\* be online, and may be lost.
StopsSessions(S) ==
    LET ended == {sessions[n].busid : n \in S \cap DOMAIN sessions}
    IN  /\ sessions' = [n \in DOMAIN sessions \ S |-> sessions[n]]
        /\ \E lost \in SUBSET ended :
              /\ online \/ lost = ended
              /\ onHost' = onHost \ (ended \ lost)
              /\ stray' = stray \cup (lost \cap onHost)
              /\ \E answered \in BOOLEAN : online' = (online /\ (lost = {} \/ answered))

\* "The host GCs orphan virtual controllers."
HostCollects ==
    /\ stray # {} /\ onHost' = onHost \ stray /\ stray' = {}
    /\ UNCHANGED <<hidraw, seen, plugKeys, sessions, autoOf, prefs, managed, cooldown, online,
                   running, life, polling>>

----
(* The life of the stream *)

\* hid_passthrough_manager_stop: no command is sent (release_local_sessions_on_exit).
ManagerStops ==
    IF running
      THEN /\ sessions' = NoNode /\ plugKeys' = {} /\ managed' = {} /\ cooldown' = FALSE
           /\ stray' = stray \cup (Busids \cap onHost) /\ running' = FALSE
      ELSE UNCHANGED <<sessions, plugKeys, managed, cooldown, stray, running>>

\* session_start_input: the manager is started, a rescan and a reconcile follow.
StreamStarts ==
    /\ life = "none" /\ life' = "live" /\ running' = TRUE /\ online' = TRUE
    /\ Rescans /\ polling' = "reap"
    /\ UNCHANGED <<hidraw, plugKeys, sessions, autoOf, prefs, managed, cooldown, onHost, stray>>

\* session_stop_input; the panel stays until the stream has finished.
StreamCloses ==
    /\ life = "live" /\ polling = "idle" /\ life' = "closing" /\ ManagerStops
    /\ UNCHANGED <<hidraw, seen, autoOf, prefs, onHost, online, polling>>

\* session_destroy
SessionGone ==
    /\ life = "closing" /\ polling = "idle" /\ life' = "none" /\ ManagerStops
    /\ UNCHANGED <<hidraw, seen, autoOf, prefs, onHost, online, polling>>

\* The program ends and starts.  The preferences of devices with an address stay; the key
\* of another holds a ':', where the parser cuts the name.
ProgramRestarts ==
    /\ life = "none"
    /\ seen' = NoNode /\ plugKeys' = {} /\ sessions' = NoNode /\ autoOf' = NoNode
    /\ managed' = {} /\ cooldown' = FALSE /\ stray' = onHost /\ online' = FALSE
    /\ running' = FALSE /\ prefs' = {id \in prefs : id[1] = "mac"}
    /\ UNCHANGED <<hidraw, onHost, life, polling>>

----
(* The poll: hid_passthrough_manager_poll and hid_pt_autoplug_reconcile *)

Polled ==
    /\ life = "live" /\ running /\ polling = "idle" /\ Rescans /\ polling' = "reap"
    /\ UNCHANGED <<hidraw, plugKeys, sessions, autoOf, prefs, managed, cooldown, onHost, stray,
                   online, running, life>>

\* autoplug_reap_vanished, autoplug_prune, and the return while the cooldown lasts.
\* Fault: the key of a device that has left is cleared, its session is not stopped
ReapsKeysOnly ==
    /\ polling = "reap"
    /\ plugKeys' = plugKeys \cap DOMAIN seen
    /\ managed' = (managed \cap DOMAIN seen) \cup plugKeys'
    /\ cooldown' \in IF cooldown THEN BOOLEAN ELSE {FALSE}
    /\ polling' = IF cooldown THEN "idle" ELSE "try"
    /\ UNCHANGED <<hidraw, seen, sessions, onHost, stray, online, autoOf, prefs, running, life>>

Reaps ==
    /\ polling = "reap"
    /\ plugKeys' = plugKeys \cap DOMAIN seen /\ StopsSessions(plugKeys \ DOMAIN seen)
    /\ managed' = (managed \cap DOMAIN seen) \cup plugKeys'
    /\ cooldown' \in IF cooldown THEN BOOLEAN ELSE {FALSE}
    /\ polling' = IF cooldown THEN "idle" ELSE "try"
    /\ UNCHANGED <<hidraw, seen, autoOf, prefs, running, life>>

\* The next item that is not plugged, is to be plugged by itself and is pending.
Tries(n) ==
    /\ polling = "try" /\ n \in DOMAIN seen \ (plugKeys \cup managed)
    /\ UNCHANGED seen /\ Records({n}) /\ autoOf'[n]
    /\ \/ /\ PlugsIn(n) /\ plugKeys' = plugKeys \cup {n} /\ managed' = managed \cup {n}
          /\ UNCHANGED <<cooldown, polling>>
       \/ /\ PlugFails /\ cooldown' = TRUE /\ polling' = "idle"
          /\ managed' \in {managed, managed \cup {n}}
          /\ UNCHANGED <<sessions, plugKeys>>
    /\ UNCHANGED <<hidraw, prefs, running, life>>

NothingToTry ==
    /\ polling = "try" /\ polling' = "idle"
    /\ UNCHANGED seen /\ Records(DOMAIN seen \ plugKeys)
    /\ \A n \in DOMAIN seen \ (plugKeys \cup managed) : ~autoOf'[n]
    /\ UNCHANGED <<hidraw, plugKeys, sessions, prefs, managed, cooldown, onHost, stray, online,
                   running, life>>

----
(* The panel *)

\* render_device_list: drawing the rows makes the records.
DrawsRows == Records(DOMAIN seen')

\* refresh_devices, with session_ensure_hid_passthrough, which starts a manager that was
\* stopped.
PanelRefreshed ==
    /\ life # "none" /\ polling = "idle" /\ Rescans /\ DrawsRows
    /\ IF running THEN UNCHANGED <<running, online, polling>>
                  ELSE running' = TRUE /\ online' = TRUE /\ polling' = "reap"
    /\ UNCHANGED <<hidraw, plugKeys, sessions, prefs, managed, cooldown, onHost, stray, life>>

\* plug_button_cb; the row may have been drawn for an earlier scan, so any item is hit.
PlugClicked(n) ==
    /\ life # "none" /\ polling = "idle" /\ n \in DOMAIN seen
    /\ \/ /\ n \notin plugKeys /\ PlugsIn(n)
          /\ plugKeys' = plugKeys \cup {n} /\ managed' = managed \cup {n}
       \/ n \notin plugKeys /\ PlugFails /\ UNCHANGED <<sessions, plugKeys, managed>>
       \/ /\ n \in plugKeys /\ StopsSessions({n})
          /\ plugKeys' = plugKeys \ {n} /\ managed' = managed \cup {n}
    /\ UNCHANGED <<hidraw, seen, autoOf, prefs, cooldown, running, life, polling>>

\* auto_plugin_toggle_cb and hid_pt_sync_auto_plugin_pref
AutoToggled(n) ==
    /\ life # "none" /\ polling = "idle" /\ n \in DOMAIN seen \cap DOMAIN autoOf
    /\ autoOf' = [autoOf EXCEPT ![n] = ~@] /\ UNCHANGED seen
    /\ prefs' = IF autoOf'[n] THEN prefs \cup {StableId(n)} ELSE prefs \ {StableId(n)}
    /\ UNCHANGED <<hidraw, plugKeys, sessions, managed, cooldown, onHost, stray, online,
                   running, life, polling>>

TablesNext ==
    \/ \E d \in Devices : Vanishes(d) \/ \E n \in Nodes : Appears(d, n)
    \/ HostCollects
    \/ StreamStarts \/ StreamCloses \/ SessionGone \/ ProgramRestarts
    \/ Polled \/ Reaps \/ NothingToTry \/ PanelRefreshed
    \/ \E n \in Nodes : Tries(n) \/ PlugClicked(n) \/ AutoToggled(n)

TablesSpec == TablesInit /\ [][TablesNext]_tableVars

----
TablesTypeOK ==
    /\ hidraw \in [Devices -> Nodes \cup {0}] /\ IsInjective(seen) /\ Range(seen) \subseteq Devices
    /\ plugKeys \cup managed \cup DOMAIN seen \cup DOMAIN sessions \cup DOMAIN autoOf \subseteq Nodes
    /\ onHost \subseteq Bridges
    /\ {cooldown, online, running} \subseteq BOOLEAN

\* Besides the types: the two tables of what is plugged agree, over failures, devices that
\* leave and streams that end: a key has a session and a session its key, and no two share
\* a bridge or port.  The host has no bridge that nobody answers for: each belongs to a
\* session, unless the command that ends it was lost or not sent (stop_session while the
\* agent is away, the end of the stream).
TablesAgree ==
    /\ TablesTypeOK
    /\ plugKeys = DOMAIN sessions
    /\ \A m, n \in DOMAIN sessions :
          m # n => sessions[m].busid # sessions[n].busid /\ sessions[m].port # sessions[n].port
    /\ stray \subseteq onHost /\ onHost \subseteq stray \cup Busids

----
(* What the documentation says, and the code does not do *)

\* "Auto-Plugin (per controller): when checked, the controller is bridged automatically"
\* (README.md:117): a controller with an address is bridged automatically when it is
\* checked, which its preference says.
AutoPluginPerController ==
    [][\A n \in DOMAIN sessions' \ DOMAIN sessions :
           polling = "try" /\ AtNode(n) \in Tagged => <<"mac", AtNode(n)>> \in prefs]_tableVars
=====================================================================================
