-------------------------------- MODULE SessionPad --------------------------------
(* The buttons and sticks of gamepads in a stream (stream_input_handle_cbutton,
   stream_input_handle_caxis) and the virtual mouse they can move
   (session_virt_mouse.c).  Which pads exist, and which speak to the host at all, is
   module Gamepads; here every pad does.

   A combo is only noted while its buttons are down and carried out when a pad has no
   button down any more; the notes are statics that all pads share.  The virtual mouse is
   moved by a timer thread that reads what the main thread writes one field at a time,
   and gives up when it finds no movement.

   Of the sticks only the right one is modelled (movement), of the triggers only the left
   one (a button); scrolling and the right trigger are handled alike.  Axis values are
   abstracted to rest and deflected, the dead zone being part of that. *)
EXTENDS Naturals, FiniteSets

CONSTANTS
    Pads,       \* the gamepads
    Button,     \* their buttons
    HasVmouse   \* config.vmouse

ASSUME PadAssumption == IsFiniteSet(Pads) /\ HasVmouse \in BOOLEAN

VARIABLES
    buttons,     \* gamepad->buttons
    noted,       \* quit_combo_pressed, vmouse_combo_pressed, ...
    hostPad,     \* the buttons of each pad as the host was told
    stick,       \* gamepad->rightStickX, rightStickY: deflected or not
    trigger,     \* gamepad->leftTrigger
    vmActive, vmX, vmY, vmLeft,   \* vmouse->state
    timerId,     \* vmouse->timer_id is set
    timerRuns,   \* SDL has the timer
    writing      \* the main thread is between state.x and state.y

padVars == <<buttons, noted, hostPad, stick, trigger,
             vmActive, vmX, vmY, vmLeft, timerId, timerRuns, writing>>
mouseVars == <<vmActive, vmX, vmY, vmLeft, timerId, timerRuns>>

\* QUIT_BUTTONS (Start and Back together), GAMEPAD_COMBO_...; the first that matches wins.
\* The combo of the statistics differs from that of the virtual mouse in the stick only.
ComboButtons == [quit |-> {"start", "lb", "rb"}, vmouse |-> {"lb", "rs"}, keyboard |-> {"rb", "rs"}]

PadInit ==
    /\ buttons = [p \in Pads |-> {}] /\ hostPad = buttons
    /\ noted = {} /\ stick = [x |-> FALSE, y |-> FALSE] /\ trigger = FALSE
    /\ vmActive = FALSE /\ vmX = FALSE /\ vmY = FALSE /\ vmLeft = FALSE
    /\ timerId = FALSE /\ timerRuns = FALSE /\ writing = FALSE

ComboOfPad(bs) ==
    IF ComboButtons.quit \subseteq bs THEN {"quit"}
    ELSE IF ComboButtons.vmouse \subseteq bs THEN {"vmouse"}
    ELSE IF ComboButtons.keyboard \subseteq bs THEN {"keyboard"} ELSE {}

\* The note that is carried out when a pad is let go.
FirstNoted ==
    IF "quit" \in noted THEN "quit" ELSE IF "vmouse" \in noted THEN "vmouse" ELSE "keyboard"

----
(* The virtual mouse *)

\* vmouse_update_timer after a movement of x and y; the other fields are as they were.
UpdatesTimer(x, y) ==
    IF x \/ y
      THEN /\ timerId' = TRUE
           /\ timerRuns' = (timerRuns \/ ~timerId)
      ELSE timerId' = FALSE /\ timerRuns' = FALSE

\* session_toggle_vmouse, session_input_set_vmouse_active: switching off stops the timer
\* and lets the buttons go.
\* Fault: the triggers are not let go
TogglesHolding ==
    /\ vmActive' = (HasVmouse /\ ~vmActive)
    /\ IF vmActive' THEN UNCHANGED <<vmX, vmY, vmLeft, timerId, timerRuns>>
       ELSE vmX' = FALSE /\ vmY' = FALSE /\ timerId' = FALSE /\ timerRuns' = FALSE /\ UNCHANGED vmLeft

Toggles ==
    /\ vmActive' = (HasVmouse /\ ~vmActive)
    /\ IF vmActive' THEN UNCHANGED <<vmX, vmY, vmLeft, timerId, timerRuns>>
       ELSE vmX' = FALSE /\ vmY' = FALSE /\ timerId' = FALSE /\ timerRuns' = FALSE /\ vmLeft' = FALSE

\* stream_input_handle_caxis.  The virtual mouse is told of an axis only while one is
\* deflected (vmouse_intercepted), so the return of the last one to rest is kept from it.
\* First vmouse_set_vector writes x ...
AxisMoves(s, t) ==
    /\ ~writing /\ stick' = s /\ trigger' = t
    /\ IF vmActive /\ (s.x \/ s.y \/ t)
         THEN writing' = TRUE /\ vmX' = s.x
         ELSE UNCHANGED <<writing, vmX>>
    /\ UNCHANGED <<buttons, noted, hostPad, vmActive, vmY, vmLeft, timerId, timerRuns>>

\* ... then y, and vmouse_set_trigger follows.
VectorSet ==
    /\ writing /\ writing' = FALSE /\ vmY' = stick.y /\ vmLeft' = trigger
    /\ UpdatesTimer(vmX, stick.y)
    /\ UNCHANGED <<buttons, noted, hostPad, stick, trigger, vmActive, vmX>>

\* vmouse_timer_callback on the timer thread: it ends the timer, and not its id, when the
\* mouse is off or finds nothing to move.
TimerGivesUp ==
    /\ timerRuns /\ (~vmActive \/ ~(vmX \/ vmY)) /\ timerRuns' = FALSE
    /\ UNCHANGED <<buttons, noted, hostPad, stick, trigger,
                   vmActive, vmX, vmY, vmLeft, timerId, writing>>

----
(* stream_input_handle_cbutton *)

\* What the handler makes of the new buttons of pad p: a combo is noted and the host not
\* told; the last button up carries a note out, the pad at rest; else the host is told.
\* Fault: carrying out a combo does not tell the host of the pad
HandledSilently(p, bs) ==
    \/ ComboOfPad(bs) # {} /\ noted' = noted \cup ComboOfPad(bs)
       /\ UNCHANGED <<hostPad, stick, trigger>> /\ UNCHANGED mouseVars
    \/ /\ bs = {} /\ noted # {} /\ noted' = noted \ {FirstNoted}
       /\ stick' = [x |-> FALSE, y |-> FALSE] /\ trigger' = FALSE
       /\ IF FirstNoted = "vmouse" THEN Toggles ELSE UNCHANGED mouseVars
       /\ UNCHANGED hostPad
    \/ /\ ComboOfPad(bs) = {} /\ (bs # {} \/ noted = {})
       /\ hostPad' = [hostPad EXCEPT ![p] = bs]
       /\ UNCHANGED <<noted, stick, trigger>> /\ UNCHANGED mouseVars

Handled(p, bs) ==
    \/ ComboOfPad(bs) # {} /\ noted' = noted \cup ComboOfPad(bs)
       /\ UNCHANGED <<hostPad, stick, trigger>> /\ UNCHANGED mouseVars
    \/ /\ bs = {} /\ noted # {} /\ noted' = noted \ {FirstNoted}
       /\ stick' = [x |-> FALSE, y |-> FALSE] /\ trigger' = FALSE   \* release_buttons
       /\ IF FirstNoted = "vmouse" THEN Toggles ELSE UNCHANGED mouseVars
       /\ hostPad' = [hostPad EXCEPT ![p] = {}]
    \/ /\ ComboOfPad(bs) = {} /\ (bs # {} \/ noted = {})
       /\ hostPad' = [hostPad EXCEPT ![p] = bs]
       /\ UNCHANGED <<noted, stick, trigger>> /\ UNCHANGED mouseVars

\* A press or a release.  While something is shown LVGL gets it, so a press may come
\* twice, and a release without its press.
ButtonChanges(p, b, pressed) ==
    /\ ~writing /\ UNCHANGED writing
    /\ buttons' = [buttons EXCEPT ![p] = IF pressed THEN @ \cup {b} ELSE @ \ {b}]
    /\ Handled(p, buttons'[p])

\* The button of the overlay.
VmouseClicked ==
    /\ ~writing /\ Toggles
    /\ UNCHANGED <<buttons, noted, hostPad, stick, trigger, writing>>

PadNext ==
    \/ \E p \in Pads, b \in Button, pressed \in BOOLEAN : ButtonChanges(p, b, pressed)
    \/ \E s \in [x : BOOLEAN, y : BOOLEAN], t \in BOOLEAN : AxisMoves(s, t)
    \/ VectorSet \/ TimerGivesUp \/ VmouseClicked

PadSpec == PadInit /\ [][PadNext]_padVars

----
PadTypeOK ==
    /\ {trigger, vmActive, vmX, vmY, vmLeft, timerId, timerRuns, writing} \subseteq BOOLEAN
    /\ {buttons, hostPad} \subseteq [Pads -> SUBSET Button]
    /\ noted \subseteq DOMAIN ComboButtons /\ stick \in [x : BOOLEAN, y : BOOLEAN]

\* Besides the types: a pad whose record shows no button down has none down on the host.
\* Combos keep presses and releases from the host, and the note one pad has left may be
\* carried out by another.  And while the virtual mouse is off it holds no button of the
\* host, and no timer of it is left, whatever the timer thread did between the writes of
\* the main thread.
PadsAtRest ==
    /\ PadTypeOK
    /\ \A p \in Pads : buttons[p] = {} => hostPad[p] = {}
    /\ ~vmActive => ~vmLeft /\ ~timerId /\ ~timerRuns
===================================================================================
