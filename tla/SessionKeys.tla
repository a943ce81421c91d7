------------------------------- MODULE SessionKeys -------------------------------
(* The keys of a stream: the keyboard of the client (session_keyboard.c), the keys of
   the TV remote (keyboard_webos.c), the on-screen keyboard (soft_keyboard.c,
   keyboard_input.c) and the driver that routes a key to the host or to the user
   interface (lv_drv_sdl_key.c).

   Three records of what is down are kept by hand: the list _pressed_keys, the counter
   keydown_count, and the one of the host, which knows only the events it was sent.
   All three statics outlive a session, and a release that arrives while something of
   the user interface is shown reaches none of them.

   Ctrl, Alt and Shift are one key, Chord, since only the three together matter; a key
   code is the key itself, and the three generic and sided codes of a modifier of the
   on-screen keyboard are one.  The Windows key (not sent unless captured), unknown
   scan codes and the navigation of the on-screen keyboard leave every variable alone. *)
EXTENDS Integers, FiniteSets

CONSTANTS
    Keys,        \* the keys, by the code the host gets
    Chord,       \* Ctrl, Alt and Shift pressed together
    ComboKeys,   \* the keys that complete a combo with the chord
    OkKey,       \* Return of the keyboard, OK of the remote
    MaxListed,   \* bound: how often one key is listed
    MaxDrift     \* bound: how far keydown_count drifts

ASSUME KeysAssumption ==
    /\ IsFiniteSet(Keys) /\ ComboKeys \subseteq Keys /\ {Chord, OkKey} \subseteq Keys \ ComboKeys
    /\ Chord # OkKey /\ MaxListed \in Nat \ {0} /\ MaxDrift \in Nat

VARIABLES
    started,     \* input->started
    viewOnly,    \* input->view_only
    shown,       \* what of the streaming view is shown: "overlay", "keyboard"
    held,        \* the keys physically down, SDL_GetKeyboardState
    listed,      \* _pressed_keys: how many nodes each key has
    keydown_count,
    pending,     \* _pending_key_combo, {} for KeyComboMax
    okPressed,   \* input->remoteOkPressed
    mods,        \* kbd->mods, the toggled modifier of the on-screen keyboard
    host         \* the keys down on the host, as of the events it was sent

keysVars == <<started, viewOnly, shown, held, listed, keydown_count, pending, okPressed, mods, host>>

NoneListed == [k \in Keys |-> 0]

KeysInit ==
    /\ started = FALSE /\ viewOnly = FALSE /\ shown = {} /\ held = {}
    /\ listed = NoneListed /\ keydown_count = 0 /\ pending = {}
    /\ okPressed = FALSE /\ mods = FALSE /\ host = {}

\* session_accepting_input: started, and neither overlay nor keyboard is shown.
Accepting == started /\ shown = {}

----
\* stream_input_flush_pressed_keys
Flushes ==
    \/ viewOnly /\ UNCHANGED <<listed, keydown_count, pending, host>>
    \/ /\ ~viewOnly
       /\ host' = {k \in host : listed[k] = 0}
       /\ listed' = NoneListed /\ keydown_count' = 0 /\ pending' = {}

\* stream_input_send_key_event with the key down, and up; without a connection the host
\* does not hear of it.
Told(keys) == IF started THEN keys ELSE host

\* Fault: keys of the on-screen keyboard are sent without being listed
SendsDownUnlisted(k) ==
    IF viewOnly THEN UNCHANGED <<listed, keydown_count, host>>
    ELSE /\ host' = Told(host \cup {k}) /\ keydown_count' = keydown_count + 1 /\ UNCHANGED listed

SendsDown(k) ==
    IF viewOnly THEN UNCHANGED <<listed, keydown_count, host>>
    ELSE /\ listed[k] < MaxListed
         /\ listed' = [listed EXCEPT ![k] = @ + 1]
         /\ keydown_count' = keydown_count + 1
         /\ host' = Told(host \cup {k})

Unlisted(ks) == [k \in Keys |-> IF k \in ks /\ listed[k] > 0 THEN listed[k] - 1 ELSE listed[k]]

SendsUp(ks) ==
    IF viewOnly THEN UNCHANGED <<listed, keydown_count, host>>
    ELSE /\ listed' = Unlisted(ks)
         /\ keydown_count' = keydown_count - Cardinality({k \in ks : listed[k] > 0})
         /\ host' = host \ ks

----
(* stream_input_handle_key *)

\* The check for combos at its head, done for a press and for a repeat.
ComboOf(k, down) == IF pending = {} /\ Chord \in down /\ k \in ComboKeys THEN {k} ELSE pending

\* sdl_input_read: while something is shown a key goes to LVGL, and the host hears nothing.
StaysInUi == ~Accepting /\ UNCHANGED <<listed, keydown_count, pending, okPressed, host>>

KeyPressed(k) ==
    /\ k \notin held /\ held' = held \cup {k}
    /\ \/ StaysInUi
       \/ /\ Accepting /\ pending' = ComboOf(k, held')
          /\ \/ pending' # {} /\ UNCHANGED <<listed, keydown_count, okPressed, host>>
             \/ /\ pending' = {} /\ k = OkKey /\ okPressed' = TRUE
                /\ UNCHANGED <<listed, keydown_count, host>>
             \/ /\ pending' = {} /\ k # OkKey /\ listed[k] < MaxListed
                /\ listed' = [listed EXCEPT ![k] = @ + 1]
                /\ keydown_count' = IF viewOnly THEN keydown_count ELSE keydown_count + 1
                /\ host' = IF viewOnly THEN host ELSE host \cup {k}
                /\ UNCHANGED okPressed
    /\ UNCHANGED <<started, viewOnly, shown, mods>>

KeyRepeats(k) ==
    /\ k \in held /\ Accepting /\ pending' = ComboOf(k, held)
    /\ UNCHANGED <<started, viewOnly, shown, held, listed, keydown_count, okPressed, mods, host>>

\* A release.  The remote's OK sends its press and its release, or a right click, here.
\* Fault: a combo is carried out as soon as its own keys are up
PerformsEarly(noneListed, noneHeld) == pending # {} /\ Chord \notin held'

Performs(noneListed, noneHeld) == pending # {} /\ noneListed /\ noneHeld

KeyReleased(k) ==
    /\ k \in held /\ held' = held \ {k}
    /\ \/ StaysInUi
       \/ /\ Accepting /\ k = OkKey /\ okPressed /\ okPressed' = FALSE
          /\ UNCHANGED <<listed, keydown_count, pending, host>>
       \/ /\ Accepting /\ ~(k = OkKey /\ okPressed)
          /\ listed' = Unlisted({k})
          /\ keydown_count' = IF viewOnly THEN keydown_count ELSE keydown_count - 1
          /\ host' = IF viewOnly THEN host ELSE host \ {k}
          /\ pending' = IF Performs(listed' = NoneListed, held' = {}) THEN {} ELSE pending
          /\ UNCHANGED okPressed
    /\ UNCHANGED <<started, viewOnly, shown, mods>>

----
(* What is shown over the stream *)

OverlayShown ==
    /\ started /\ "overlay" \notin shown /\ shown' = shown \cup {"overlay"}
    /\ UNCHANGED <<started, viewOnly, held, listed, keydown_count, pending, okPressed, mods, host>>

OverlayHidden ==
    /\ "overlay" \in shown /\ shown' = shown \ {"overlay"}
    /\ UNCHANGED <<started, viewOnly, held, listed, keydown_count, pending, okPressed, mods, host>>

\* The on-screen keyboard hides the overlay.
KeyboardOpens ==
    /\ started /\ "keyboard" \notin shown /\ shown' = {"keyboard"} /\ mods' = FALSE
    /\ UNCHANGED <<started, viewOnly, held, listed, keydown_count, pending, okPressed, host>>

\* on_keyboard_click: the modifier toggles; any other key is sent down and up with the
\* modifiers, which are then let go (keyboard_input_release_toggles).
ModifierClicked ==
    /\ "keyboard" \in shown /\ mods' = ~mods
    /\ IF ~started THEN UNCHANGED <<listed, keydown_count, host>>
       ELSE IF mods' THEN SendsDown(Chord) ELSE SendsUp({Chord})
    /\ UNCHANGED <<started, viewOnly, shown, held, pending, okPressed>>

KeyClicked(k) ==
    /\ "keyboard" \in shown /\ k # Chord /\ mods' = FALSE
    /\ IF started /\ ~viewOnly
         THEN /\ host' = host \ ({k} \cup IF mods THEN {Chord} ELSE {})
              /\ listed' = IF mods THEN Unlisted({Chord}) ELSE listed
              /\ keydown_count' = keydown_count - IF mods /\ listed[Chord] > 0 THEN 1 ELSE 0
         ELSE UNCHANGED <<listed, keydown_count, host>>
    /\ UNCHANGED <<started, viewOnly, shown, held, pending, okPressed>>

\* X, Y, Start and B of a gamepad are Backspace, Space, Enter and Escape while the
\* keyboard is shown; the release is sent only if it is still shown then.
PadKeyPressed(k) ==
    /\ "keyboard" \in shown /\ k # Chord /\ SendsDown(k)
    /\ UNCHANGED <<started, viewOnly, shown, held, pending, okPressed, mods>>

PadKeyReleased(k) ==
    /\ "keyboard" \in shown /\ k # Chord /\ SendsUp({k})
    /\ UNCHANGED <<started, viewOnly, shown, held, pending, okPressed, mods>>

\* soft_keyboard_close_cb: session_screen_keyboard_closed flushes; deleting the widget
\* lets the modifiers go (nothing more is listed) and flushes again.
KeyboardCloses ==
    /\ started /\ "keyboard" \in shown /\ shown' = shown \ {"keyboard"} /\ mods' = FALSE
    /\ Flushes
    /\ UNCHANGED <<started, viewOnly, held, okPressed>>

----
\* session_input_stopped; the connection is gone and with it what was down on the host.
InputStops ==
    /\ started /\ started' = FALSE /\ okPressed' = FALSE /\ host' = {}
    /\ UNCHANGED <<viewOnly, shown, held, listed, keydown_count, pending, mods>>

\* The next session: a new view, and the statics as they were left.
NextStarts ==
    /\ ~started /\ started' = TRUE /\ viewOnly' \in BOOLEAN /\ shown' = {} /\ mods' = FALSE
    /\ okPressed' = FALSE /\ UNCHANGED <<held, listed, keydown_count, pending, host>>

\* The bound of keydown_count, which drifts both ways: a combo key is counted when it
\* is released only, and a key of a session with input when it is pressed only if its
\* release falls into a view-only one.
WithinDrift == keydown_count' \in -MaxDrift .. MaxListed + MaxDrift

KeysNext ==
    /\ \/ \E k \in Keys :
             KeyPressed(k) \/ KeyRepeats(k) \/ KeyReleased(k)
             \/ KeyClicked(k) \/ PadKeyPressed(k) \/ PadKeyReleased(k)
       \/ OverlayShown \/ OverlayHidden \/ KeyboardOpens \/ ModifierClicked \/ KeyboardCloses
       \/ InputStops \/ NextStarts
    /\ WithinDrift

KeysSpec == KeysInit /\ [][KeysNext]_keysVars

----
KeysTypeOK ==
    /\ {started, viewOnly, okPressed, mods} \subseteq BOOLEAN
    /\ shown \subseteq {"overlay", "keyboard"} /\ held \subseteq Keys /\ host \subseteq Keys
    /\ listed \in [Keys -> 0 .. MaxListed] /\ keydown_count \in Int
    /\ pending \subseteq ComboKeys /\ Cardinality(pending) <= 1

\* Besides the types: a key that is down on the host is in the list, so the flush that
\* is there "to fix stuck input" can release it.  Releases lost to the overlay, keys of
\* the gamepad, modifiers left toggled and ends of sessions come in between.
KeysAtHostAreListed ==
    KeysTypeOK /\ \A k \in host : listed[k] > 0

\* A combo is carried out, or forgotten, with every key up on the host: the quit of a
\* session or the overlay never comes up over a key that stays down.
CombosStartClean ==
    [][(pending # {} /\ pending' = {}) => host' = {}]_keysVars
==================================================================================
