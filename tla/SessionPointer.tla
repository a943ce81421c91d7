------------------------------ MODULE SessionPointer ------------------------------
(* The pointer of a stream: buttons and motion of a mouse, of a touch screen and of the
   Magic Remote (session_mouse.c, session_touch.c), and the gestures that stand for a
   mouse where there is none (session_pointer_gesture.c): a short press is a click, a
   long one a right click, and a press that moves drags with the left button down.

   The gesture sends its press late and has to remember whether it has sent one.  The
   overlay may come up between any press and its release, which then never gets here.

   Positions are abstracted to whether the pointer has left the slop of its press, times
   to whether the press was long; the wheel and touch events keep no state. *)
EXTENDS Naturals

VARIABLES
    penTouch,    \* LI_FF_PEN_TOUCH_EVENTS of the host
    absMouse,    \* app_configuration->absmouse
    taking,      \* the session takes input and is not view-only
    blocked,     \* something is shown over the stream
    pressing,    \* what is physically pressed: <<button, device>>
    active, dragging, leftDown,   \* input->pointerGesture...
    mouseDown,   \* the buttons down on the host
    lost         \* history: a release went to the user interface

pointerVars ==
    <<penTouch, absMouse, taking, blocked, pressing, active, dragging, leftDown, mouseDown, lost>>

\* A touch screen has the left button only (SDL_TOUCH_MOUSEID).
Presses == ({"left", "right"} \X {"mouse"}) \cup {<<"left", "touch">>}

PointerInit ==
    /\ penTouch = FALSE /\ absMouse = FALSE
    /\ taking = FALSE /\ blocked = FALSE /\ pressing = {}
    /\ active = FALSE /\ dragging = FALSE /\ leftDown = FALSE
    /\ mouseDown = {} /\ lost = FALSE

Reaches == taking /\ ~blocked

\* pointer_gesture_available and pointer_gesture_eligible.  The mouse is relative
\* (app_get_mouse_relative) while the stream has grabbed it, unless set to absolute.
IsGesture(p) ==
    /\ ~penTouch /\ p[1] = "left"
    /\ p[2] = "touch" \/ absMouse

\* pointer_gesture_reset, with the buttons it leaves down.
AfterReset == IF leftDown THEN mouseDown \ {"left"} ELSE mouseDown

ForgetsGesture == active' = FALSE /\ dragging' = FALSE /\ leftDown' = FALSE

\* What a button the gesture does not take does to the gesture first: another button
\* ends it when it is pressed, a left button it may not use in either case.
EndsOther(p, pressed) == ~penTouch /\ active /\ (p[1] = "left" \/ pressed)

Passes(p, pressed) ==
    LET bs == IF EndsOther(p, pressed) THEN AfterReset ELSE mouseDown
    IN  /\ IF EndsOther(p, pressed) THEN ForgetsGesture ELSE UNCHANGED <<active, dragging, leftDown>>
        /\ mouseDown' = IF p[2] = "touch" /\ penTouch THEN bs
                      ELSE IF pressed THEN bs \cup {p[1]} ELSE bs \ {p[1]}

\* stream_input_handle_mbutton, SDL_PRESSED
ButtonPressed(p) ==
    /\ p \notin pressing /\ pressing' = pressing \cup {p}
    /\ \/ ~Reaches /\ UNCHANGED <<active, dragging, leftDown, mouseDown>>
       \/ /\ Reaches /\ IsGesture(p)
          /\ active' = TRUE /\ dragging' = FALSE /\ leftDown' = FALSE /\ UNCHANGED mouseDown
       \/ Reaches /\ ~IsGesture(p) /\ Passes(p, TRUE)
    /\ UNCHANGED <<penTouch, absMouse, taking, blocked, lost>>

\* The end of a gesture: of a drag, a long press, a click.
\* Fault: a drag is ended like a press
EndsWithPress(long) ==
    IF long THEN mouseDown' = mouseDown \ {"right"} ELSE mouseDown' = mouseDown \ {"left"}

EndsGesture(long) ==
    IF dragging THEN mouseDown' = AfterReset
    ELSE IF long THEN mouseDown' = mouseDown \ {"right"} ELSE mouseDown' = mouseDown \ {"left"}

\* stream_input_handle_mbutton, SDL_RELEASED
ButtonReleased(p, long) ==
    /\ p \in pressing /\ pressing' = pressing \ {p}
    /\ \/ ~Reaches /\ lost' = taking /\ UNCHANGED <<active, dragging, leftDown, mouseDown>>
       \/ Reaches /\ IsGesture(p) /\ active /\ EndsGesture(long) /\ ForgetsGesture /\ UNCHANGED lost
       \/ /\ Reaches /\ IsGesture(p) /\ ~active /\ mouseDown' = mouseDown \ {p[1]}
          /\ UNCHANGED <<active, dragging, leftDown, lost>>
       \/ Reaches /\ ~IsGesture(p) /\ Passes(p, FALSE) /\ UNCHANGED lost
    /\ UNCHANGED <<penTouch, absMouse, taking, blocked>>

\* pointer_gesture_handle_mmotion: the pointer leaves the slop (pointer_gesture_begin_drag).
PointerMoves ==
    /\ Reaches /\ active /\ ~penTouch /\ ~dragging
    /\ dragging' = TRUE /\ leftDown' = TRUE /\ mouseDown' = mouseDown \cup {"left"}
    /\ UNCHANGED <<penTouch, absMouse, taking, blocked, pressing, active, lost>>

Blocks ==
    /\ blocked' = ~blocked
    /\ UNCHANGED <<penTouch, absMouse, taking, pressing, active, dragging, leftDown, mouseDown, lost>>

\* session_input_interrupt
Interrupted ==
    /\ taking /\ mouseDown' = AfterReset /\ ForgetsGesture
    /\ UNCHANGED <<penTouch, absMouse, taking, blocked, pressing, lost>>

\* session_input_stopped, and the start of the next session, perhaps on another host
Stops ==
    /\ taking /\ taking' = FALSE /\ mouseDown' = {} /\ ForgetsGesture /\ lost' = FALSE
    /\ UNCHANGED <<penTouch, absMouse, blocked, pressing>>

Starts ==
    /\ ~taking /\ taking' = TRUE /\ penTouch' \in BOOLEAN /\ absMouse' \in BOOLEAN
    /\ UNCHANGED <<blocked, pressing, active, dragging, leftDown, mouseDown, lost>>

PointerNext ==
    \/ \E p \in Presses : ButtonPressed(p) \/ \E long \in BOOLEAN : ButtonReleased(p, long)
    \/ PointerMoves \/ Blocks \/ Interrupted \/ Stops \/ Starts

PointerSpec == PointerInit /\ [][PointerNext]_pointerVars

----
PointerTypeOK ==
    /\ {penTouch, absMouse, taking, blocked, active, dragging, leftDown, lost} \subseteq BOOLEAN
    /\ pressing \subseteq Presses /\ mouseDown \subseteq {"left", "right"}

\* Besides the types: no button is down on the host that nobody holds, unless a release
\* was lost to the user interface.  Clicks, long presses, drags, a second button, a second
\* device and interrupts of the session come in any order.
ButtonsAreHeld ==
    PointerTypeOK /\ (lost \/ mouseDown \subseteq {p[1] : p \in pressing})
===================================================================================
