------------------------------ MODULE Gamepads ------------------------------
(***************************************************************************)
(* Controllers during a stream: the session announces them to the host     *)
(* over Moonlight, and HID passthrough bridges some of them to the PC as   *)
(* native devices instead and takes them out of Moonlight. Everything here *)
(* runs on the main thread: SDL's device events, the handlers of the HID   *)
(* panel and the poll of the auto-plug timer.                              *)
(*                                                                         *)
(* SDL and the HID scan see the same devices, each at its own time. A      *)
(* number and the index of its slot are the same (RumbleReachesItsPad of   *)
(* GamepadsProofs), so pad[n] is the controller the host calls n.          *)
(***************************************************************************)
EXTENDS GamepadSlots

CONSTANTS
    Devices,         \* HID devices of the scan; SDL knows those in Pads
    Model,           \* what a device is matched by: vendor, product and name
    HidPassthrough,  \* config.hid_passthrough
    MaxFails,        \* AUTOPLUG_MAX_FAILS: 3 in the code
    Cooldown,        \* AUTOPLUG_FAIL_COOLDOWN_POLLS: 4 in the code
    Togglable,       \* bound: controllers whose Auto-Plugin the user changes in a stream
    MaxUnnoticed     \* bound: devices SDL has yet to notice the coming or going of

ASSUME GamepadsAssumption ==
    /\ Pads \subseteq Devices /\ NoPad \notin Devices /\ Togglable \subseteq Pads
    /\ HidPassthrough \in BOOLEAN
    /\ MaxFails \in Nat \ {0} /\ Cooldown \in Nat /\ MaxUnnoticed \in Nat \ {0}

VARIABLES
    phase,      \* no session, one that connects, one whose input was started
    blocked,    \* ui_should_block_input: overlay, keyboard or HID panel is shown
    announced,  \* announcedGamepadMask
    excluded,   \* moonlightExcludedMask
    leaked,     \* excluded controllers the last message to the host called active
    host        \* whose arrival the host was last told of, for each number

VARIABLES
    present,    \* devices that are there
    seen,       \* g_devices: devices of the last scan
    match,      \* moonlight_gs_id: the slot a device was matched with
    bridged,    \* g_sessions and g_plugged_keys, which change together
    auto,       \* g_autoplug[].state
    fails,      \* g_autoplug[].fail_count
    cooldown,   \* g_autoplug_plug_cooldown
    pref        \* devices with Auto-Plugin checked

VARIABLES       \* history
    missed,     \* numbers whose coming or going the session let pass
    misled,     \* a device was matched with the slot of another, or with none
    paired,     \* bridged devices whose controller has been there since
    plugOut     \* devices the user plugged out, until they leave

inputVars == <<phase, blocked, announced, excluded, leaked, host>>
autoVars == <<auto, fails, cooldown>>
hidVars == <<present, seen, match, bridged, autoVars, pref>>
histVars == <<missed, misled, paired, plugOut>>
vars == <<slotVars, inputVars, hidVars, histVars>>

GamepadsTypeOK ==
    /\ SlotTypeOK
    /\ phase \in {"none", "connecting", "started"} /\ blocked \in BOOLEAN
    /\ {announced, excluded, leaked} \subseteq SUBSET Slot
    /\ host \in [Slot -> Pads \cup {NoPad}]
    /\ {present, seen, bridged, pref} \subseteq SUBSET Devices
    /\ match \in [Devices -> Slot \cup {NoNumber}]
    /\ auto \in [Devices -> {"none", "pending", "done", "giveup"}]
    /\ fails \in [Devices -> 0..MaxFails] /\ cooldown \in 0..Cooldown
    /\ missed \in SUBSET Slot /\ misled \in BOOLEAN
    /\ {paired, plugOut} \subseteq SUBSET Devices

Unmatched == [d \in Devices |-> NoNumber]
NobodyKnown == [n \in Slot |-> NoPad]

Init ==
    /\ SlotInit
    /\ phase = "none" /\ blocked = FALSE
    /\ announced = {} /\ excluded = {} /\ leaked = {} /\ host = NobodyKnown
    /\ present = {} /\ seen = {} /\ match = Unmatched /\ bridged = {}
    /\ auto = [d \in Devices |-> "none"] /\ fails = [d \in Devices |-> 0]
    /\ cooldown = 0 /\ pref \in SUBSET Pads
    /\ missed = {} /\ misled = FALSE /\ paired = {} /\ plugOut = {}

Accepts == phase = "started" /\ ~blocked   \* session_accepting_input
Managed == HidPassthrough /\ phase = "started"   \* hid_passthrough_manager_active

-----------------------------------------------------------------------------
(* Matching a HID device with a slot.                                      *)

There(at) == {n \in Slot : at[n] # NoPad}

\* hid_pt_find_gamepad_for_logical, for the controllers "at" the slots and the
\* matches "known" so far: at most one slot. Controllers of one model match each
\* other's device, and a sole controller matches any device.
Match(d, at, known) ==
    LET alike == {n \in There(at) : Model[at[n]] = Model[d]}
    IN  IF known[d] \in There(at) THEN {known[d]}
        ELSE IF alike # {} THEN {Least(alike)}
        ELSE IF Cardinality(There(at)) = 1 THEN There(at)
        ELSE {}

\* The slots of several devices, after a scan has forgotten the matches.
Slots(ds, at) == UNION {Match(d, at, Unmatched) : d \in ds}
Matched(ds, at) ==
    [d \in Devices |-> IF d \in ds /\ Match(d, at, Unmatched) # {}
                       THEN Least(Match(d, at, Unmatched)) ELSE NoNumber]
Misleads(ds, at, known) ==
    \E d \in ds : \A n \in Match(d, at, known) : at[n] # d

-----------------------------------------------------------------------------
(* What the session tells the host. Comings and goings are sent with        *)
(* stream_input_moonlight_active_mask, which has no excluded controller.   *)

\* Fault: the host is told, and the bit is not set.
ExcludesOnce(ns) ==
    /\ announced' = announced \ ns /\ leaked' = leaked
    /\ host' = [n \in Slot |-> IF n \in ns THEN NoPad ELSE host[n]]
    /\ excluded' = excluded

\* moonlight_exclude_gamepad for the slots ns: the host is told of the going of
\* those it was told of, and the bits are set.
Excludes(ns) ==
    LET gone == IF phase = "started" THEN ns \cap announced ELSE {}
    IN  /\ announced' = announced \ gone
        /\ host' = [n \in Slot |-> IF n \in gone THEN NoPad ELSE host[n]]
        /\ leaked' = IF gone = {} THEN leaked ELSE {}
        /\ excluded' = excluded \cup ns

\* stream_input_send_gamepad_arrive for the slots ns of "at"
Arrives(ns, at, out) ==
    LET fresh == (ns \ out) \ announced
    IN  /\ announced' = announced \cup fresh
        /\ host' = [n \in Slot |-> IF n \in fresh THEN at[n] ELSE host[n]]
        /\ leaked' = IF fresh = {} THEN leaked ELSE {}
        /\ excluded' = out

-----------------------------------------------------------------------------
(* The auto-plug.                                                          *)

\* hid_passthrough_manager_rescan: the list is built anew.
Rescans == seen' = present

\* hid_pt_autoplug_reconcile, right after a scan. Devices that left lose their
\* bridge and their entry. Outside the cooldown each device to be plugged is
\* tried, up to the first that fails (which one that is depends on the order of
\* the scan and on the agent). "new" are those that were bridged.

\* Fault: devices that left keep their bridge.
ReapedNot == bridged

Reaped == bridged \cap present

\* Fault: a deliberate plug out is not looked at.
CandidatesAll == (present \cap pref \cap Pads) \ Reaped

Candidates ==
    {d \in (present \cap pref \cap Pads) \ Reaped : auto[d] \in {"none", "pending"}}

Pruned(state) == [d \in Devices |-> IF d \in present THEN state[d] ELSE "none"]

\* Fault: one attempt more.
GivesUpLate(failed) == failed > MaxFails

GivesUp(failed) == failed >= MaxFails

\* Fault: the cooldown does not run down.
RestsForever == cooldown > 0 /\ UNCHANGED <<autoVars>>

Rests ==
    /\ cooldown > 0
    /\ cooldown' = cooldown - 1
    /\ auto' = [d \in Devices |-> IF d \in Reaped THEN "done" ELSE Pruned(auto)[d]]
    /\ fails' = [d \in Devices |-> IF d \in present \ Reaped THEN fails[d] ELSE 0]

Tries(new, failing) ==
    /\ cooldown = 0
    /\ IF failing = {} THEN new = Candidates ELSE new \subseteq Candidates \ failing
    /\ cooldown' = IF failing = {} THEN 0 ELSE Cooldown
    /\ fails' = [d \in Devices |->
                   IF d \in failing THEN fails[d] + 1
                   ELSE IF d \in Reaped \cup new \/ d \notin present THEN 0
                   ELSE fails[d]]
    /\ auto' = [d \in Devices |->
                  IF d \in Reaped \cup new THEN "done"
                  ELSE IF d \in failing
                  THEN IF GivesUp(fails[d] + 1) THEN "giveup" ELSE "pending"
                  ELSE Pruned(auto)[d]]

Reconciles(new, at) ==
    /\ Rescans
    /\ \/ new = {} /\ Rests
       \/ \E failing \in {{}} \cup {{d} : d \in Candidates} : Tries(new, failing)
    /\ bridged' = Reaped \cup new
    /\ match' = Matched(new, at)
    /\ misled' = (misled \/ Misleads(new, at, Unmatched))
    /\ paired' = (paired \cap present) \cup {d \in new : \E n \in Slot : at[n] = d}
    /\ plugOut' = plugOut \cap present

ReconcilesNot == UNCHANGED <<seen, match, bridged, autoVars, misled, paired, plugOut>>

-----------------------------------------------------------------------------
(* The session.                                                            *)

\* session_worker up to gs_start_app: the controllers with Auto-Plugin are left
\* out of the mask of the launch.
Launches ==
    /\ phase = "none"
    /\ phase' = "connecting"
    /\ announced' = {} /\ host' = NobodyKnown
    /\ excluded' = IF HidPassthrough THEN {n \in Connected : pad[n] \in pref} ELSE {}
    /\ leaked' = {}
    /\ missed' = {}
    /\ UNCHANGED <<slotVars, blocked, hidVars, misled, paired, plugOut>>

\* session_start_input, on OPEN: the manager plugs what it can, then everyone
\* who is not excluded is announced.
StartsInput ==
    /\ phase = "connecting"
    /\ phase' = "started"
    /\ IF HidPassthrough
       THEN \E new \in SUBSET Candidates :
               /\ Reconciles(new, pad)
               /\ Arrives(Connected, pad, excluded \cup Slots(new, pad))
       ELSE ReconcilesNot /\ Arrives(Connected, pad, excluded)
    /\ UNCHANGED <<slotVars, blocked, present, pref, missed>>

\* session_stop_input, on CLOSE, or a session that ends before its input starts.
StopsInput ==
    /\ phase # "none"
    /\ phase' = "none" /\ blocked' = FALSE
    /\ announced' = {} /\ excluded' = {} /\ leaked' = {} /\ host' = NobodyKnown
    /\ bridged' = {} /\ paired' = {} /\ plugOut' = {}
    /\ auto' = [d \in Devices |-> "none"] /\ fails' = [d \in Devices |-> 0]
    /\ cooldown' = 0
    /\ UNCHANGED <<slotVars, present, seen, match, pref, missed, misled>>

\* The overlay, the soft keyboard or the HID panel opens or closes.
TogglesOverlay ==
    /\ phase = "started"
    /\ blocked' = ~blocked
    /\ UNCHANGED <<slotVars, phase, announced, excluded, leaked, host, hidVars, histVars>>

\* A button or an axis of controller n: stream_input_handle_cbutton.
SendsState(n) ==
    /\ Accepts /\ n \in Connected \ excluded
    /\ leaked' = activeMask \cap excluded
    /\ UNCHANGED <<slotVars, phase, blocked, announced, excluded, host, hidVars, histVars>>

-----------------------------------------------------------------------------
(* Devices.                                                                *)

\* A device that is back is only seen once SDL has noticed that it had gone.
Unnoticed == {p \in Pads : Joined(p) # (p \in present)}

DeviceComes(d) ==
    /\ d \notin present /\ ~Joined(d)
    /\ Cardinality(Unnoticed) < MaxUnnoticed
    /\ present' = present \cup {d}
    /\ UNCHANGED <<slotVars, inputVars, seen, match, bridged, autoVars, pref, histVars>>

DeviceGoes(d) ==
    /\ d \in present
    /\ d \in Unnoticed \/ Cardinality(Unnoticed) < MaxUnnoticed
    /\ present' = present \ {d}
    /\ UNCHANGED <<slotVars, inputVars, seen, match, bridged, autoVars, pref, histVars>>

\* SDL_JOYDEVICEADDED: the input first, then the session, which leaves a
\* controller with Auto-Plugin to the manager.
PadAdded(p) ==
    /\ p \in present
    /\ AddPad(p)
    /\ LET n == CHOOSE i \in Slot : pad'[i] = p
       IN  \/ /\ Accepts /\ p \in pref /\ Managed
              /\ \E new \in SUBSET Candidates :
                    /\ Reconciles(new, pad')
                    /\ Excludes(Slots(new, pad'))
              /\ missed' = IF n \in excluded' THEN missed ELSE missed \cup {n}
           \/ /\ Accepts /\ p \in pref /\ ~Managed
              /\ ReconcilesNot
              /\ UNCHANGED <<announced, excluded, leaked, host>>
              /\ missed' = missed \cup {n}
           \/ /\ Accepts /\ p \notin pref
              /\ Arrives({n}, pad', excluded)
              /\ ReconcilesNot
              /\ UNCHANGED missed
           \/ /\ ~Accepts
              /\ ReconcilesNot
              /\ UNCHANGED <<announced, excluded, leaked, host>>
              /\ missed' = IF phase = "started" /\ n \notin excluded
                           THEN missed \cup {n} ELSE missed
    /\ UNCHANGED <<phase, blocked, present, pref>>

\* SDL_JOYDEVICEREMOVED: the session first, then the input.
SaysGoodbye(n) ==
    /\ Accepts /\ n \in announced \ excluded
    /\ announced' = announced \ {n}
    /\ host' = [host EXCEPT ![n] = NoPad]
    /\ leaked' = {}
    /\ UNCHANGED missed

SaysNothing(n) ==
    /\ ~(Accepts /\ n \in announced \ excluded)
    /\ missed' = IF n \in announced THEN missed \cup {n} ELSE missed
    /\ UNCHANGED <<announced, host, leaked>>

\* Fault: the input forgets the controller first, and the session finds none.
PadRemovedFirst(p) ==
    /\ p \notin present
    /\ ClosePad(p)
    /\ paired' = paired \ {p}
    /\ UNCHANGED <<inputVars, hidVars, missed, misled, plugOut>>

PadRemoved(p) ==
    /\ p \notin present
    /\ ClosePad(p)
    /\ SaysGoodbye(SlotOf(p)) \/ SaysNothing(SlotOf(p))
    /\ paired' = paired \ {p}
    /\ UNCHANGED <<phase, blocked, excluded, hidVars, misled, plugOut>>

-----------------------------------------------------------------------------
(* The timer and the HID panel.                                            *)

\* hid_passthrough_manager_poll, every second
Polls ==
    /\ Managed
    /\ \E new \in SUBSET Candidates :
          /\ Reconciles(new, pad)
          /\ Excludes(Slots(new, pad))
    /\ UNCHANGED <<slotVars, phase, blocked, present, pref, missed>>

InPanel(d) == Managed /\ blocked /\ d \in seen

\* refresh_devices
PanelRefreshes ==
    /\ Managed /\ blocked
    /\ Rescans /\ match' = Unmatched
    /\ UNCHANGED <<slotVars, inputVars, present, bridged, autoVars, pref, histVars>>

\* plug_button_cb on a device that is not plugged, when the agent answers
PanelPlugs(d) ==
    /\ InPanel(d) /\ d \notin bridged
    /\ bridged' = bridged \cup {d}
    /\ Excludes(Match(d, pad, match))
    /\ match' = [match EXCEPT ![d] = IF Match(d, pad, match) = {} THEN NoNumber
                                     ELSE Least(Match(d, pad, match))]
    /\ auto' = [auto EXCEPT ![d] = "done"] /\ fails' = [fails EXCEPT ![d] = 0]
    /\ misled' = (misled \/ Misleads({d}, pad, match))
    /\ paired' = IF Joined(d) THEN paired \cup {d} ELSE paired
    /\ plugOut' = plugOut \ {d}
    /\ UNCHANGED <<slotVars, phase, blocked, present, seen, cooldown, pref, missed>>

\* plug_button_cb on a device that is plugged: its slot is given back.
PanelUnplugs(d) ==
    /\ InPanel(d) /\ d \in bridged
    /\ bridged' = bridged \ {d}
    /\ LET ns == Match(d, pad, match)
       IN  /\ Arrives(ns, pad, excluded \ ns)
           /\ match' = [match EXCEPT ![d] = IF ns = {} THEN NoNumber ELSE Least(ns)]
    /\ auto' = [auto EXCEPT ![d] = "done"] /\ fails' = [fails EXCEPT ![d] = 0]
    /\ misled' = (misled \/ Misleads({d}, pad, match))
    /\ paired' = paired \ {d}
    /\ plugOut' = plugOut \cup {d}
    /\ UNCHANGED <<slotVars, phase, blocked, present, seen, cooldown, pref, missed>>

\* auto_plugin_toggle_cb
PanelTogglesAuto(d) ==
    /\ InPanel(d) /\ d \in Togglable
    /\ pref' = (pref \ {d}) \cup ({d} \ pref)
    /\ UNCHANGED <<slotVars, inputVars, present, seen, match, bridged, autoVars, histVars>>

-----------------------------------------------------------------------------
SessionStep == Launches \/ StartsInput \/ StopsInput \/ TogglesOverlay

DeviceStep ==
    \/ \E n \in Slot : SendsState(n)
    \/ \E d \in Devices : DeviceComes(d) \/ DeviceGoes(d)
    \/ \E p \in Pads : PadAdded(p) \/ PadRemoved(p)

PanelStep ==
    \/ PanelRefreshes
    \/ \E d \in Devices : PanelPlugs(d) \/ PanelUnplugs(d) \/ PanelTogglesAuto(d)

Next == SessionStep \/ DeviceStep \/ PanelStep \/ Polls

\* The timer runs as long as a session's input is started.
Spec == Init /\ [][Next]_vars /\ WF_vars(Polls)

-----------------------------------------------------------------------------
(* Properties.                                                             *)

\* The host knows exactly the controllers that are connected and not bridged,
\* each by the number it has now: over comings and goings, plug in and plug out
\* and the reuse of slots. What comes or goes while the overlay blocks input is
\* let pass (session_accepting_input), and a controller with Auto-Plugin is not
\* announced.
HostIsCurrent ==
    phase = "started" =>
        \A n \in Slot \ missed :
            host[n] = IF n \in Connected \ excluded THEN pad[n] ELSE NoPad

\* Besides the types, a slot and a number for the next controller, and a host that knows
\* the ones there are.
GamepadsInOrder == GamepadsTypeOK /\ NumbersSuffice /\ HostIsCurrent

\* A controller that was connected when it was bridged, and has been since, sends
\* nothing over Moonlight, as long as every device was matched with its own slot.
BridgedPadsSilent ==
    phase = "started" /\ ~misled =>
        \A n \in Connected : pad[n] \in paired => n \in excluded

\* A controller the user plugged out is not bridged again behind their back
\* until it has left (the comment in plug_button_cb).
PlugOutRespected == bridged \cap plugOut = {}

\* A bridge goes down after its device has gone: autoplug_reap_vanished, whose
\* comment says why a flag left behind would keep the device from coming back.
BridgesFollowDevices ==
    \A d \in Devices : d \in bridged \ present ~> d \notin bridged \ present

\* A device with Auto-Plugin that waits to be bridged is bridged or given up in
\* the end, whatever else fails, once devices stop coming and going.
AutoPlugSettles ==
    <>[][UNCHANGED <<present, pref>>]_vars =>
        \A d \in Devices :
            auto[d] = "pending" /\ d \in pref ~> auto[d] # "pending" \/ d \notin pref

-----------------------------------------------------------------------------
(* What the documents say, and the code does not do.                       *)

\* docs/BUILD_WEBOS.md:254: "Controllers with HID bridging active are excluded
\* from Moonlight gamepad emulation": the mask sent to the host has no bit of an
\* excluded controller.
MaskLeavesOutExcluded == leaked = {}

\* docs/BUILD_WEBOS.md:254, "for that slot only; other controllers keep using
\* Moonlight": a controller that is not bridged and has no Auto-Plugin is not
\* excluded.
OtherPadsWork ==
    phase = "started" =>
        \A n \in Connected \cap excluded : pad[n] \in bridged \cup pref

\* The same where every device was matched with its own slot: what is left then is
\* an exclusion that outlives its bridge. A controller in standby is reaped without
\* giving its slot back, and is dead to Moonlight and to the agent when it wakes.
ExclusionEndsWithBridge ==
    phase = "started" /\ ~misled /\ bridged \subseteq present =>
        \A n \in Connected \cap excluded :
            pad[n] \in present => pad[n] \in bridged \cup pref

\* docs/BUILD_WEBOS.md:254, "Controllers with HID bridging active are excluded":
\* it is the bridged controller whose slot is excluded.
OwnSlotExcluded ==
    phase = "started" =>
        \A n \in Connected : pad[n] \in paired => n \in excluded

=============================================================================
