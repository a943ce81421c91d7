------------------------------ MODULE StreamingView ------------------------------
(* The view over a stream (streaming.controller.c) and what it opens: the overlay, the
   on-screen keyboard, the panel of HID devices, the progress dialogs; with the focus
   group the keys go to (ui_input.c) and the grab of the mouse (root.c, app_input.c).

   The main thread does all of this; what makes it hard is the order.  The events of the
   stream come in the order of module Session; the commands of the user reach the view
   through the bus, so they are carried out after what they were meant for may have gone,
   and the keyboard can be opened in two ways, as a child of two different parents.

   Layout, styles and the text of the statistics are left out, and the pin that keeps the
   statistics on screen with them. *)
EXTENDS Naturals, FiniteSets

VARIABLES
    view,       \* the fragment: "none", "shown", "leaving" (its deletion is scheduled)
    stream,     \* what the view was told: "none", "connecting", "open", "closing", "over"
    session,    \* app->session is set
    overlay,    \* overlay_showing
    keyboard,   \* controller->soft_kbd and its parent: "none", "view", "layer"
    orphan,     \* a keyboard on the top layer whose view is gone
    panel,      \* controller->hid_panel is set
    dialogs,    \* progress dialogs on screen
    progress,   \* controller->progress is set
    grab,       \* the mouse is grabbed (app_set_mouse_grab)
    appGroup,   \* input->app_group: "none", "view", "keyboard"
    modal,      \* input->modal_groups holds the group of the panel
    posted      \* commands in the bus

viewVars == <<view, stream, session, overlay, keyboard, orphan, panel, dialogs, progress,
              grab, appGroup, modal, posted>>

Command == {"overlay", "keyboard", "closeKeyboard", "closePanel"}

ViewInit ==
    /\ view = "none" /\ stream = "none" /\ session = FALSE /\ overlay = FALSE
    /\ keyboard = "none" /\ orphan = FALSE /\ panel = FALSE /\ dialogs = 0 /\ progress = FALSE
    /\ grab = FALSE /\ appGroup = "none" /\ modal = FALSE /\ posted = {}

----
(* The fragment and the events of the stream *)

\* constructor and on_view_created; without a session the view goes at once.
ViewCreated ==
    /\ view = "none" /\ ~session /\ overlay' = FALSE /\ appGroup' = "view"
    /\ \/ view' = "shown" /\ session' = TRUE /\ stream' = "none"
       \/ view' = "leaving" /\ session' = FALSE /\ stream' = "over"
    /\ UNCHANGED <<keyboard, orphan, panel, dialogs, progress, grab, modal, posted>>

\* USER_STREAM_CONNECTING
StreamConnecting ==
    /\ stream = "none" /\ session /\ stream' = "connecting"
    /\ progress' = TRUE /\ dialogs' = dialogs + 1
    /\ UNCHANGED <<view, session, overlay, keyboard, orphan, panel, grab, appGroup, modal, posted>>

ClosesProgress == progress' = FALSE /\ dialogs' = dialogs - IF progress THEN 1 ELSE 0

\* USER_STREAM_OPEN, in the view and in ui_dispatch_userevent
StreamOpen ==
    /\ stream = "connecting" /\ stream' = "open" /\ grab' = TRUE /\ ClosesProgress
    /\ UNCHANGED <<view, session, overlay, keyboard, orphan, panel, appGroup, modal, posted>>

\* USER_STREAM_CLOSE
StreamClose ==
    /\ stream = "open" /\ stream' = "closing" /\ grab' = FALSE
    /\ progress' = TRUE /\ dialogs' = dialogs + 1
    /\ UNCHANGED <<view, session, overlay, keyboard, orphan, panel, appGroup, modal, posted>>

\* hid_panel_close_cb
ClosesPanel ==
    /\ panel' = FALSE
    /\ IF panel THEN modal' = FALSE /\ appGroup' = "view" ELSE UNCHANGED <<modal, appGroup>>

\* USER_STREAM_FINISHED: the dialog and the panel are closed, the deletion is scheduled
\* (at once, or in 50 ms when there is an error to show).  Commands sent before are
\* carried out before (Session, OverlayFindsItsSession).
\* Fault: the panel is left to the destructor of the view
FinishedUnderPanel ==
    /\ stream \in {"connecting", "closing"} /\ stream' = "over" /\ posted = {}
    /\ ClosesProgress /\ view' = "leaving"
    /\ UNCHANGED <<session, overlay, keyboard, orphan, panel, appGroup, modal, grab, posted>>

StreamFinished ==
    /\ stream \in {"connecting", "closing"} /\ stream' = "over" /\ posted = {}
    /\ ClosesProgress /\ ClosesPanel /\ view' = "leaving"
    /\ UNCHANGED <<session, overlay, keyboard, orphan, grab, posted>>

\* app_session_destroy
SessionDestroyed ==
    /\ stream = "over" /\ session /\ session' = FALSE
    /\ UNCHANGED <<view, stream, overlay, keyboard, orphan, panel, dialogs, progress, grab,
                   appGroup, modal, posted>>

\* on_delete_obj, on_obj_deleted, controller_dtor: a keyboard that is a child of the view
\* goes with it, one on the top layer stays.
ViewDeleted ==
    /\ view = "leaving" /\ view' = "none"
    /\ keyboard' = "none" /\ orphan' = (orphan \/ keyboard = "layer")
    /\ panel' = FALSE
    /\ IF panel THEN modal' = FALSE /\ appGroup' = "view" ELSE modal' = modal /\ appGroup' = "none"
    /\ UNCHANGED <<stream, session, overlay, dialogs, progress, grab, posted>>

----
(* What the user opens and closes *)

\* A command is posted by a key or a combo of the stream (keyboard_webos.c,
\* session_gamepad.c), or by a Back that is meant for keyboard or panel.
Posts(c) ==
    /\ view = "shown" /\ stream = "open" /\ c \notin posted /\ posted' = posted \cup {c}
    /\ c \in {"overlay", "keyboard"} => ~overlay /\ keyboard = "none" /\ ~panel
    /\ c = "closeKeyboard" => keyboard # "none"
    /\ c = "closePanel" => panel
    /\ UNCHANGED <<view, stream, session, overlay, keyboard, orphan, panel, dialogs, progress,
                   grab, appGroup, modal>>

\* show_overlay; it frees the mouse (streaming_enter_overlay).
ShowsOverlay ==
    IF overlay THEN UNCHANGED <<overlay, grab>> ELSE overlay' = TRUE /\ grab' = FALSE

\* hide_overlay_impl; TRUE where the mouse is taken back.
Hides == overlay' = FALSE

\* The keyboard frees the mouse after the overlay has taken it, and its group gets the keys.
OpensKeyboard(parent) ==
    /\ Hides
    /\ IF keyboard # "none"
         THEN /\ UNCHANGED <<keyboard, appGroup>>
              /\ IF overlay THEN grab' = TRUE ELSE UNCHANGED grab
         ELSE keyboard' = parent /\ appGroup' = "keyboard" /\ grab' = FALSE

\* soft_keyboard_close_cb
\* Fault: the mouse stays free
ClosesKeyboardFree ==
    IF keyboard = "none" THEN UNCHANGED <<keyboard, appGroup, grab>>
    ELSE keyboard' = "none" /\ appGroup' = "view" /\ UNCHANGED grab

ClosesKeyboard ==
    IF keyboard = "none" THEN UNCHANGED <<keyboard, appGroup, grab>>
    ELSE keyboard' = "none" /\ appGroup' = "view" /\ grab' = TRUE

\* on_event for the commands
OnCommand(c) ==
    /\ c \in posted /\ posted' = posted \ {c} /\ view # "none"
    /\ \/ c = "overlay" /\ ShowsOverlay /\ UNCHANGED <<keyboard, panel, appGroup, modal>>
       \/ /\ c = "keyboard"
          /\ IF keyboard # "none" THEN UNCHANGED <<overlay, keyboard, appGroup, grab>>
                                  ELSE OpensKeyboard("view")
          /\ UNCHANGED <<panel, modal>>
       \/ c = "closeKeyboard" /\ ClosesKeyboard /\ UNCHANGED <<overlay, panel, modal>>
       \/ c = "closePanel" /\ ClosesPanel /\ UNCHANGED <<overlay, keyboard, grab>>
    /\ UNCHANGED <<view, stream, session, orphan, dialogs, progress>>

\* The buttons of the overlay are hidden when the stream closes.
OverlayButton == overlay /\ stream = "open"

\* open_keyboard
KeyboardClicked ==
    /\ OverlayButton /\ OpensKeyboard("layer")
    /\ UNCHANGED <<view, stream, session, orphan, panel, dialogs, progress, modal, posted>>

\* open_hid_devices
PanelClicked ==
    /\ OverlayButton /\ ~panel /\ Hides /\ grab' = TRUE /\ panel' = TRUE /\ modal' = TRUE
    /\ UNCHANGED <<view, stream, session, keyboard, orphan, dialogs, progress, appGroup, posted>>

\* hide_overlay by a click beside the buttons or on the virtual mouse, and on_cancel_key:
\* Back closes the keyboard first and asks for the panel to be closed.
OverlayClicked ==
    /\ OverlayButton /\ Hides /\ grab' = TRUE
    /\ UNCHANGED <<view, stream, session, keyboard, orphan, panel, dialogs, progress, appGroup,
                   modal, posted>>

CancelPressed ==
    /\ OverlayButton
    /\ \/ keyboard # "none" /\ ClosesKeyboard /\ UNCHANGED <<overlay, posted>>
       \/ /\ keyboard = "none" /\ panel /\ posted' = posted \cup {"closePanel"}
          /\ UNCHANGED <<overlay, keyboard, appGroup, grab>>
       \/ /\ keyboard = "none" /\ ~panel /\ Hides /\ grab' = TRUE
          /\ UNCHANGED <<keyboard, appGroup, posted>>
    /\ UNCHANGED <<view, stream, session, orphan, panel, dialogs, progress, modal>>

ViewNext ==
    \/ ViewCreated \/ StreamConnecting \/ StreamOpen \/ StreamClose \/ StreamFinished
    \/ SessionDestroyed \/ ViewDeleted
    \/ \E c \in Command : Posts(c) \/ OnCommand(c)
    \/ KeyboardClicked \/ PanelClicked \/ OverlayClicked \/ CancelPressed

ViewSpec == ViewInit /\ [][ViewNext]_viewVars

----
ViewTypeOK ==
    /\ view \in {"none", "shown", "leaving"}
    /\ stream \in {"none", "connecting", "open", "closing", "over"}
    /\ {session, overlay, orphan, panel, progress, grab, modal} \subseteq BOOLEAN
    /\ keyboard \in {"none", "view", "layer"} /\ appGroup \in {"none", "view", "keyboard"}
    /\ dialogs \in 0 .. 1 /\ posted \subseteq Command

\* Besides the types (which say that no two progress dialogs are on screen): the group
\* the keys go to exists, in whatever order keyboard, panel and view are closed, and no
\* dialog outlives the view.  A freed group is walked by the next key.  And while the
\* stream runs and nothing is shown over it, it has the mouse.
ViewInOrder ==
    /\ ViewTypeOK
    /\ modal => panel
    /\ appGroup = "view" => view # "none"
    /\ appGroup = "keyboard" => keyboard # "none"
    /\ view = "none" => dialogs = 0
    /\ stream = "open" /\ ~overlay /\ keyboard = "none" => grab

----
(* What a comment says, and the code does not do *)

\* "Will be deleted with parent" (streaming.controller.c:535): no keyboard is left once
\* its view is gone.  It would write to the input of a session that has been freed.
KeyboardGoesWithView == ~orphan
==================================================================================
