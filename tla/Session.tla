------------------------------- MODULE Session -------------------------------
(***************************************************************************)
(* The life of a streaming session: the main (UI) thread, its event bus,   *)
(* the session worker thread, the hardware mouse thread and the callbacks  *)
(* of the Limelight library.                                               *)
(*                                                                         *)
(* One action is what a thread does between two points where another       *)
(* thread can get in: the main thread handles one event of the SDL queue   *)
(* per step (app_event_filter), the worker does the straight-line code up  *)
(* to its next push, wait or read of shared state, and a thread that joins *)
(* or waits has an action that is enabled when the wait is over.           *)
(*                                                                         *)
(* EmbeddedSession extends this module with the other worker thread.       *)
(***************************************************************************)
EXTENDS Integers, Sequences

CONSTANTS
    MaxSessions,      \* bound: sessions the user starts
    HardwareMouse,    \* config.hardware_mouse
    UIExclusive,      \* the video module cannot share the screen with the UI
    HidPassthrough,   \* config.hid_passthrough
    Embed             \* session->embed: the stream runs in a child process

ASSUME SessionAssumption ==
    /\ MaxSessions \in Nat \ {0}
    /\ {HardwareMouse, UIExclusive, HidPassthrough, Embed} \subseteq BOOLEAN
    /\ Embed => ~HardwareMouse /\ ~UIExclusive

\* Sessions are numbered in the order they are created; 0 is the NULL pointer.
SessionId == 1..MaxSessions
NoSession == 0

\* The user events a session puts on the queue, the actions posted to the main
\* thread, and the one input command that comes back through the queue.
StreamCode == {"CONNECTING", "OPEN", "CLOSE", "FINISHED"}
ActionCode == {"UI_CLOSE", "UPSERT", "DESTROY"}
EventCode == StreamCode \cup ActionCode \cup {"OVERLAY"}
Event == [code : EventCode, of : SessionId]

\* What the main thread holds for the user while a stream is open.
Resource == {"input", "awake", "hidtimer"}

WorkerPC ==
    {"none", "begin", "mouse", "launch", "prepare", "setup", "setup_push",
     "setup_wait", "connect", "opened", "wait", "close", "stop", "quit",
     "update", "update_push", "update_wait", "reset", "cleanup", "finished",
     "post", "post_push", "done",
     "spawn", "ui", "ui_push", "ui_wait", "attach", "read", "detach", "reap"}
MainPC == {"loop", "join_mouse", "join_worker", "drain", "deinit", "exited"}

VARIABLES
    running,       \* app->running
    queue,         \* the SDL event queue, its user events
    mpc,           \* where the main thread is
    inFilter,      \* it is inside SDL_FilterEvents, which holds the queue's lock
    drained,       \* app_bus_drain has returned
    uiOpen,        \* app->ui.disp # NULL
    fragment,      \* the streaming fragment: "none", "alive" or "dying"
    held,          \* resources the main thread holds for the stream
    seen,          \* history: the last stream event of the session it has handled
    session,       \* app->session
    created,       \* sessions created so far
    state,         \* session->state
    interrupted,   \* session->interrupted
    quitapp,       \* session->quitapp
    wpc,           \* where the session worker is
    mouse,         \* the evmouse thread
    current,       \* current_session of the connection callbacks
    conn,          \* Limelight is up: between LiStartConnection and LiStopConnection
    callback,      \* the thread that runs connection_terminated
    errno,         \* streaming_errno: "ok" or what failed
    failed,        \* history: something went wrong in this session
    quitSent,      \* history: gs_quit_app was called for this session
    race,          \* history: a test of app->running overtaken by app_bus_drain
    crashed        \* an assertion of the program failed

mainRest == <<running, mpc, inFilter, drained>>
mainVars == <<queue, mainRest>>
uiVars == <<uiOpen, fragment, held, seen>>
sessVars == <<session, created, state, interrupted, quitapp>>
limeVars == <<current, conn, callback>>
histVars == <<failed, quitSent, race>>
vars == <<mainVars, uiVars, sessVars, wpc, mouse, limeVars, errno, histVars,
          crashed>>

NoCallback == [at |-> "idle", of |-> NoSession, kind |-> "none"]

MainTypes ==
    /\ running \in BOOLEAN
    /\ queue \in Seq(Event)
    /\ mpc \in MainPC
    /\ inFilter \in BOOLEAN
    /\ drained \in BOOLEAN

UITypes ==
    /\ uiOpen \in BOOLEAN
    /\ fragment \in {"none", "alive", "dying"}
    /\ held \subseteq Resource
    /\ seen \in StreamCode \cup {"none", "left"}

SessionTypes ==
    /\ session \in SessionId \cup {NoSession}
    /\ created \in 0..MaxSessions
    /\ state \in {"NONE", "CONNECTING", "STREAMING", "DISCONNECTING", "ERROR"}
    /\ interrupted \in BOOLEAN
    /\ quitapp \in BOOLEAN

ThreadTypes ==
    /\ wpc \in WorkerPC
    /\ mouse \in {"none", "opening", "listening", "stopping", "ended"}

LimelightTypes ==
    /\ current \in SessionId \cup {NoSession}
    /\ conn \in BOOLEAN
    /\ callback \in [at : {"idle", "fired", "error", "interrupt", "gone"},
                     of : SessionId \cup {NoSession},
                     kind : {"none", "host", "network"}]

HistoryTypes ==
    /\ errno \in {"ok", "launch", "start", "network", "decoder", "embed"}
    /\ failed \in BOOLEAN
    /\ quitSent \in BOOLEAN
    /\ race \in {"none", "open", "lost"}
    /\ crashed \in BOOLEAN

TypeOK ==
    /\ MainTypes
    /\ UITypes
    /\ SessionTypes
    /\ ThreadTypes
    /\ LimelightTypes
    /\ HistoryTypes

Init ==
    /\ running = TRUE
    /\ queue = <<>>
    /\ mpc = "loop"
    /\ inFilter = FALSE
    /\ drained = FALSE
    /\ uiOpen = TRUE
    /\ fragment = "none"
    /\ held = {}
    /\ seen = "none"
    /\ session = NoSession
    /\ created = 0
    /\ state = "NONE"
    /\ interrupted = FALSE
    /\ quitapp = FALSE
    /\ wpc = "none"
    /\ mouse = "none"
    /\ current = NoSession
    /\ conn = FALSE
    /\ callback = NoCallback
    /\ errno = "ok"
    /\ failed = FALSE
    /\ quitSent = FALSE
    /\ race = "none"
    /\ crashed = FALSE

-----------------------------------------------------------------------------
(* Pieces that several threads use.                                        *)

\* SDL_PushEvent takes the lock that SDL_FilterEvents holds around the filter.
Push(code) ==
    /\ ~inFilter
    /\ queue' = Append(queue, [code |-> code, of |-> session])

AtWorker(pc) == wpc = pc /\ ~crashed
GoWorker(from, to) == AtWorker(from) /\ wpc' = to

\* !config->view_only && config->hardware_mouse
HasMouse == mouse # "none"

\* mouse->dev # NULL
MouseHasDev == mouse \in {"listening", "stopping"}

\* Faults: a later interrupt overwrites the quit flag; the mouse is not told.
InterruptLastWins(quit, err) ==
    /\ interrupted' = TRUE
    /\ quitapp' = quit
    /\ mouse' = IF MouseHasDev THEN "stopping" ELSE mouse
    /\ errno' = IF interrupted \/ err = "ok" THEN errno ELSE err
    /\ failed' = (failed \/ err # "ok")
    /\ UNCHANGED crashed

InterruptSparesMouse(quit, err) ==
    /\ interrupted' = TRUE
    /\ quitapp' = IF interrupted THEN quitapp ELSE quit
    /\ errno' = IF interrupted \/ err = "ok" THEN errno ELSE err
    /\ failed' = (failed \/ err # "ok")
    /\ UNCHANGED <<mouse, crashed>>

\* session_interrupt: the first interrupt wins. Its first effect is
\* session_input_interrupt, which asserts that the mouse device is open.
Interrupt(quit, err) ==
    \/ /\ interrupted
       /\ UNCHANGED <<interrupted, quitapp, mouse, errno, failed, crashed>>
    \/ /\ ~interrupted
       /\ HasMouse /\ ~MouseHasDev
       /\ crashed' = TRUE
       /\ UNCHANGED <<interrupted, quitapp, mouse, errno, failed>>
    \/ /\ ~interrupted
       /\ HasMouse => MouseHasDev
       /\ mouse' = IF HasMouse THEN "stopping" ELSE mouse
       /\ quitapp' = quit
       /\ interrupted' = TRUE
       /\ errno' = IF err = "ok" THEN errno ELSE err
       /\ failed' = (failed \/ err # "ok")
       /\ UNCHANGED crashed

-----------------------------------------------------------------------------
(* The main thread: user interface and operating system events.            *)

AtMain(pc) == mpc = pc /\ ~crashed

\* The user starts an app: the fragment's constructor calls app_session_begin,
\* which refuses while a session exists and otherwise creates one. A view-only
\* session has no mouse thread.
SessionBegin ==
    /\ AtMain("loop") /\ uiOpen /\ fragment = "none"
    /\ session = NoSession /\ created < MaxSessions
    /\ created' = created + 1
    /\ session' = created + 1
    /\ state' = "NONE"
    /\ interrupted' = FALSE
    /\ quitapp' = FALSE
    /\ wpc' = "begin"
    /\ mouse' \in IF HardwareMouse THEN {"opening", "none"} ELSE {"none"}
    /\ fragment' = "alive"
    /\ failed' = FALSE
    /\ quitSent' = FALSE
    /\ race' = "none"
    /\ UNCHANGED <<mainVars, uiOpen, held, seen, limeVars, errno, crashed>>

SessionBeginRefused ==
    /\ AtMain("loop") /\ uiOpen /\ fragment = "none"
    /\ session # NoSession
    /\ fragment' = "dying"
    /\ UNCHANGED <<mainVars, uiOpen, held, seen, sessVars, wpc, mouse, limeVars,
                   errno, histVars, crashed>>

\* lv_task_handler runs the deferred lv_fragment_del.
FragmentDeleted ==
    /\ AtMain("loop") /\ fragment = "dying"
    /\ fragment' = "none"
    /\ UNCHANGED <<mainVars, uiOpen, held, seen, sessVars, wpc, mouse, limeVars,
                   errno, histVars, crashed>>

\* Suspend and quit buttons, the quit key combination, the network test's end.
UserLeaves(quit) ==
    /\ AtMain("loop") /\ session # NoSession /\ "input" \in held
    /\ quit => uiOpen /\ fragment # "none"
    /\ Interrupt(quit, "ok")
    /\ UNCHANGED <<mainVars, uiVars, session, created, state, wpc, limeVars,
                   quitSent, race>>

\* SDL_APP_WILLENTERBACKGROUND, and the window events that hide a full screen.
AppToBackground ==
    /\ AtMain("loop") /\ uiOpen /\ session # NoSession
    /\ Interrupt(FALSE, "ok")
    /\ UNCHANGED <<mainVars, uiVars, session, created, state, wpc, limeVars,
                   quitSent, race>>

\* A key or button that opens the overlay: session_handle_input_event only
\* reads it while the input is started, and sends it round through the queue.
InputAsksOverlay ==
    /\ AtMain("loop") /\ session # NoSession /\ "input" \in held
    /\ \A i \in DOMAIN queue : queue[i].code # "OVERLAY"
    /\ queue' = Append(queue, [code |-> "OVERLAY", of |-> session])
    /\ UNCHANGED <<mainRest, uiVars, sessVars, wpc, mouse,
                   limeVars, errno, histVars, crashed>>

AppRequestExit ==
    /\ AtMain("loop") /\ running
    /\ running' = FALSE
    /\ UNCHANGED <<queue, mpc, inFilter, drained, uiVars, sessVars, wpc, mouse,
                   limeVars, errno, histVars, crashed>>

-----------------------------------------------------------------------------
(* The main thread: app_event_filter takes the events in order.            *)

Take(code) ==
    /\ queue # <<>>
    /\ Head(queue).code = code
    /\ queue' = Tail(queue)

OnConnecting ==
    /\ AtMain("loop") /\ Take("CONNECTING")
    /\ seen' = "CONNECTING"
    /\ UNCHANGED <<mainRest, uiOpen, fragment, held, sessVars, wpc, mouse,
                   limeVars, errno, histVars, crashed>>

\* ui_dispatch_userevent, USER_STREAM_OPEN: session_start_input (which an
\* embedded session refuses), hid_autoplug_timer_start, app_set_keep_awake.
OnOpen ==
    /\ AtMain("loop") /\ Take("OPEN")
    /\ seen' = "OPEN"
    /\ held' = {"awake"}
                \cup (IF Embed THEN {} ELSE {"input"})
                \cup (IF HidPassthrough /\ ~Embed THEN {"hidtimer"} ELSE {})
    /\ UNCHANGED <<mainRest, uiOpen, fragment, sessVars,
                   wpc, mouse, limeVars, errno, histVars, crashed>>

\* Faults: CLOSE does not stop the input; CLOSE does not open the UI.
OnCloseKeepsInput ==
    /\ AtMain("loop") /\ Take("CLOSE")
    /\ seen' = "CLOSE"
    /\ held' = held \ {"hidtimer", "awake"}
    /\ uiOpen' = TRUE
    /\ UNCHANGED <<mainRest, fragment, sessVars, wpc, mouse, limeVars, errno,
                   histVars, crashed>>

OnCloseLeavesUI ==
    /\ AtMain("loop") /\ Take("CLOSE")
    /\ seen' = "CLOSE"
    /\ held' = {}
    /\ UNCHANGED <<mainRest, uiOpen, fragment, sessVars, wpc, mouse, limeVars,
                   errno, histVars, crashed>>

\* USER_STREAM_CLOSE: everything OPEN took is given back, and app_ui_open
\* brings back a UI that was closed for the stream.
OnClose ==
    /\ AtMain("loop") /\ Take("CLOSE")
    /\ seen' = "CLOSE"
    /\ held' = held \ {"hidtimer", "awake", "input"}
    /\ uiOpen' = TRUE
    /\ UNCHANGED <<mainRest, fragment, sessVars, wpc,
                   mouse, limeVars, errno, histVars, crashed>>

\* USER_STREAM_FINISHED: the fragment schedules its own deletion.
OnFinished ==
    /\ AtMain("loop") /\ Take("FINISHED")
    /\ seen' = "FINISHED"
    /\ held' = held \ {"hidtimer"}
    /\ fragment' = IF fragment = "alive" THEN "dying" ELSE fragment
    /\ UNCHANGED <<mainRest, uiOpen, sessVars, wpc, mouse,
                   limeVars, errno, histVars, crashed>>

\* USER_OPEN_OVERLAY: the fragment shows the overlay; with the UI closed the
\* same event ends the session.
OnOverlay ==
    /\ AtMain("loop") /\ Take("OVERLAY")
    /\ IF ~uiOpen /\ session # NoSession
       THEN Interrupt(FALSE, "ok")
       ELSE UNCHANGED <<interrupted, quitapp, mouse, errno, failed, crashed>>
    /\ UNCHANGED <<mainRest, uiVars, session, created,
                   state, wpc, limeVars, quitSent, race>>

\* Actions run the same way from the filter and from app_bus_drain.
RunsActions == mpc \in {"loop", "drain"} /\ ~crashed

\* invoke_action_sync(app_ui_close) and the signal to the thread that waits.
OnUiClose ==
    /\ RunsActions /\ Take("UI_CLOSE")
    /\ uiOpen' = FALSE
    /\ fragment' = "none"
    /\ wpc' = IF Embed THEN "attach" ELSE "connect"
    /\ UNCHANGED <<mainRest, held, seen, sessVars, mouse,
                   limeVars, errno, histVars, crashed>>

\* invoke_action_sync(upsert_perform)
OnUpsert ==
    /\ RunsActions /\ Take("UPSERT")
    /\ wpc' = "reset"
    /\ UNCHANGED <<mainRest, uiVars, sessVars, mouse,
                   limeVars, errno, histVars, crashed>>

\* app_session_destroy, up to the first join of session_destroy. Without a
\* session it returns at once.
OnDestroy ==
    /\ RunsActions /\ Take("DESTROY")
    /\ IF session = NoSession
       THEN UNCHANGED <<mpc, inFilter, interrupted, quitapp, mouse, errno, failed,
                        crashed>>
       ELSE /\ Interrupt(FALSE, "ok")
            /\ mpc' = "join_mouse"
            /\ inFilter' = (mpc = "loop")
    /\ UNCHANGED <<running, drained, uiVars, session, created, state, wpc,
                   limeVars, quitSent, race>>

\* SDL_WaitThread of the mouse thread (session_evmouse_deinit).
JoinMouse ==
    /\ AtMain("join_mouse")
    /\ HasMouse => mouse = "ended"
    /\ mpc' = "join_worker"
    /\ UNCHANGED <<running, queue, inFilter, drained, uiVars, sessVars, wpc,
                   mouse, limeVars, errno, histVars, crashed>>

\* SDL_WaitThread of the worker, then the session is freed and main goes back
\* to where app_session_destroy was called.
JoinWorker ==
    /\ AtMain("join_worker")
    /\ wpc = "done"
    /\ session' = NoSession
    /\ wpc' = "none"
    /\ mouse' = "none"
    /\ inFilter' = FALSE
    /\ mpc' = IF inFilter THEN "loop" ELSE IF drained THEN "deinit" ELSE "drain"
    /\ seen' = IF inFilter THEN "none" ELSE seen
    /\ UNCHANGED <<running, queue, drained, uiOpen, fragment, held, created, state, interrupted,
                   quitapp, limeVars, errno, histVars, crashed>>

-----------------------------------------------------------------------------
(* The main thread leaves: app_deinit.                                     *)

LeaveLoop ==
    /\ AtMain("loop") /\ ~running
    /\ mpc' = "drain"
    /\ seen' = "left"
    /\ UNCHANGED <<running, queue, inFilter, drained, uiOpen, fragment, held,
                   sessVars, wpc, mouse, limeVars, errno, histVars, crashed>>

\* Fault: app_bus_drain drops the actions too.
DrainDropsAll ==
    /\ AtMain("drain") /\ queue # <<>>
    /\ queue' = Tail(queue)
    /\ UNCHANGED <<mainRest, uiVars, sessVars, wpc, mouse, limeVars, errno,
                   histVars, crashed>>

\* app_bus_drain drops what is not an action.
DrainDrops ==
    /\ AtMain("drain") /\ queue # <<>>
    /\ Head(queue).code \notin ActionCode
    /\ queue' = Tail(queue)
    /\ UNCHANGED <<mainRest, uiVars, sessVars, wpc, mouse,
                   limeVars, errno, histVars, crashed>>

\* The queue is empty: app_bus_drain returns and app_session_destroy starts.
DrainEnds ==
    /\ AtMain("drain") /\ queue = <<>>
    /\ drained' = TRUE
    /\ IF session = NoSession
       THEN /\ mpc' = "deinit"
            /\ UNCHANGED <<interrupted, quitapp, mouse, errno, failed, crashed>>
       ELSE /\ mpc' = "join_mouse"
            /\ Interrupt(FALSE, "ok")
    /\ UNCHANGED <<running, queue, inFilter, uiVars, session, created, state, wpc,
                   limeVars, quitSent, race>>

\* app_ui_close, app_set_keep_awake(false) and the rest of app_deinit.
Deinit ==
    /\ AtMain("deinit")
    /\ mpc' = "exited"
    /\ uiOpen' = FALSE
    /\ fragment' = "none"
    /\ held' = held \ {"awake"}
    /\ UNCHANGED <<running, queue, inFilter, drained, seen, sessVars, wpc, mouse,
                   limeVars, errno, histVars, crashed>>

-----------------------------------------------------------------------------
(* The session worker thread: session_worker.                              *)

workerRest == <<mainRest, uiVars, session, created, interrupted, quitapp, mouse,
                crashed>>

\* Fault: the error of the last session is not cleared.
WorkerBeginKeepsError ==
    /\ ~Embed
    /\ GoWorker("begin", IF HasMouse THEN "mouse" ELSE "launch")
    /\ state' = "CONNECTING"
    /\ Push("CONNECTING")
    /\ UNCHANGED <<workerRest, limeVars, errno, histVars>>

\* The state, the CONNECTING event, and the error of the last session cleared.
WorkerBegin ==
    /\ ~Embed
    /\ GoWorker("begin", IF HasMouse THEN "mouse" ELSE "launch")
    /\ state' = "CONNECTING"
    /\ Push("CONNECTING")
    /\ errno' = "ok"
    /\ UNCHANGED <<workerRest, limeVars, histVars>>

\* session_evmouse_wait_ready
WorkerSeesMouse ==
    /\ GoWorker("mouse", "launch")
    /\ MouseHasDev
    /\ UNCHANGED <<workerRest, queue, state, limeVars, errno, histVars>>

\* gs_start_app
WorkerLaunches ==
    /\ GoWorker("launch", "prepare")
    /\ UNCHANGED <<workerRest, queue, state, limeVars, errno, histVars>>

\* Fault: a failed launch returns without the cleanup.
WorkerLaunchFailsAndReturns ==
    /\ GoWorker("launch", "done")
    /\ state' = "ERROR"
    /\ errno' = "launch"
    /\ failed' = TRUE
    /\ UNCHANGED <<workerRest, queue, limeVars, quitSent, race>>

WorkerLaunchFails ==
    /\ GoWorker("launch", "cleanup")
    /\ state' = "ERROR"
    /\ errno' = "launch"
    /\ failed' = TRUE
    /\ UNCHANGED <<workerRest, queue, limeVars, quitSent, race>>

\* SS4S_PlayerOpen and session_connection_callbacks_prepare: LiStartConnection
\* is entered, so its callbacks may run from here on.
WorkerPrepares ==
    /\ GoWorker("prepare", IF UIExclusive THEN "setup" ELSE "connect")
    /\ current' = session
    /\ conn' = TRUE
    /\ callback' = NoCallback
    /\ UNCHANGED <<workerRest, queue, state, errno, histVars>>

\* app_bus_post_sync is a test of app->running and then a push; what it waits
\* for is the main thread's invoke_action_sync. When the application is
\* leaving it returns at once.
PostSyncTests(at, push, skip) ==
    /\ AtWorker(at)
    /\ wpc' = IF running THEN push ELSE skip
    /\ race' = IF running THEN "open" ELSE "none"
    /\ UNCHANGED <<workerRest, queue, state, limeVars, errno, failed, quitSent>>

PostSyncPushes(at, code, wait) ==
    /\ GoWorker(at, wait)
    /\ Push(code)
    /\ race' = IF race = "open" /\ drained THEN "lost" ELSE "none"
    /\ UNCHANGED <<workerRest, state, limeVars, errno, failed, quitSent>>

\* vdec_delegate_setup: the UI is closed when the video takes the screen.
SetupTests == PostSyncTests("setup", "setup_push", "connect")
SetupPushes == PostSyncPushes("setup_push", "UI_CLOSE", "setup_wait")

\* LiStartConnection returns: 0, or an error after which Limelight is down.
WorkerConnects ==
    /\ GoWorker("connect", "opened")
    /\ UNCHANGED <<workerRest, queue, state, limeVars, errno, histVars>>

WorkerConnectFails ==
    /\ GoWorker("connect", "cleanup")
    /\ callback.at \in {"idle", "gone"}
    /\ state' = "ERROR"
    /\ conn' = FALSE
    /\ \/ errno' = "start"
       \/ errno # "ok" /\ UNCHANGED errno
    /\ failed' = TRUE
    /\ UNCHANGED <<workerRest, queue, current, callback, quitSent, race>>

WorkerOpens ==
    /\ GoWorker("opened", "wait")
    /\ state' = "STREAMING"
    /\ Push("OPEN")
    /\ UNCHANGED <<workerRest, limeVars, errno, histVars>>

\* The wait on session->cond ends, and the CLOSE event is pushed.
WorkerWoken ==
    /\ GoWorker("wait", "close")
    /\ interrupted
    /\ UNCHANGED <<workerRest, queue, state, limeVars, errno, histVars>>

WorkerCloses ==
    /\ GoWorker("close", "stop")
    /\ Push("CLOSE")
    /\ state' = "DISCONNECTING"
    /\ UNCHANGED <<workerRest, limeVars, errno, histVars>>

\* LiStopConnection waits for the callbacks that are running.
WorkerStops ==
    /\ GoWorker("stop", "quit")
    /\ callback.at \in {"idle", "gone"}
    /\ conn' = FALSE
    /\ UNCHANGED <<workerRest, queue, state, current, callback, errno, histVars>>

\* gs_quit_app when the interrupt asked for it
WorkerQuits ==
    /\ GoWorker("quit", "update")
    /\ quitSent' = quitapp
    /\ UNCHANGED <<workerRest, queue, state, limeVars, errno, failed, race>>

\* Fault: the host is not refreshed, so nothing waits for the main thread here.
UpdateSkipped == PostSyncTests("update", "reset", "reset")

\* pcmanager_update_by_host: pclist_upsert runs on the main thread.
UpdateTests == PostSyncTests("update", "update_push", "reset")
UpdatePushes == PostSyncPushes("update_push", "UPSERT", "update_wait")

WorkerResets ==
    /\ GoWorker("reset", IF Embed THEN "finished" ELSE "cleanup")
    /\ state' = "NONE"
    /\ UNCHANGED <<workerRest, queue, limeVars, errno, histVars>>

\* Faults: the callbacks keep their session; the destroy action goes out first.
WorkerKeepsCallbacks ==
    /\ GoWorker("cleanup", "finished")
    /\ UNCHANGED <<workerRest, queue, state, limeVars, errno, histVars>>

WorkerPostsDestroyEarly ==
    /\ GoWorker("cleanup", "finished")
    /\ current' = NoSession
    /\ Push("DESTROY")
    /\ UNCHANGED <<workerRest, state, conn, callback, errno, histVars>>

\* session_connection_callbacks_reset, SS4S_PlayerClose, gs_destroy
WorkerCleansUp ==
    /\ GoWorker("cleanup", "finished")
    /\ current' = NoSession
    /\ UNCHANGED <<workerRest, queue, state, conn, callback, errno, histVars>>

WorkerFinishes ==
    /\ GoWorker("finished", "post")
    /\ Push("FINISHED")
    /\ UNCHANGED <<workerRest, state, limeVars, errno, histVars>>

\* Fault: an interrupted session is not posted for destruction.
DestroyOnlyUninterrupted ==
    /\ AtWorker("post")
    /\ wpc' = IF running /\ ~interrupted THEN "post_push" ELSE "done"
    /\ UNCHANGED <<workerRest, queue, state, limeVars, errno, histVars>>

\* app_bus_post(app_session_destroy), the last thing the worker does
DestroyTests ==
    /\ AtWorker("post")
    /\ wpc' = IF running THEN "post_push" ELSE "done"
    /\ UNCHANGED <<workerRest, queue, state, limeVars, errno, histVars>>

DestroyPushes ==
    /\ GoWorker("post_push", "done")
    /\ Push("DESTROY")
    /\ UNCHANGED <<workerRest, state, limeVars, errno, histVars>>

-----------------------------------------------------------------------------
(* The hardware mouse thread: mouse_worker.                                *)

mouseRest == <<mainVars, uiVars, sessVars, wpc, limeVars, errno, histVars, crashed>>

\* evmouse_open_default finds a device, or there is none and the thread ends.
MouseOpens ==
    /\ ~crashed /\ mouse = "opening"
    /\ mouse' \in {"listening", "ended"}
    /\ UNCHANGED mouseRest

\* evmouse_listen returns once evmouse_interrupt was called.
MouseCloses ==
    /\ ~crashed /\ mouse = "stopping"
    /\ mouse' = "ended"
    /\ UNCHANGED mouseRest

-----------------------------------------------------------------------------
(* Callbacks that Limelight runs on threads of its own.                    *)

callbackRest == <<mainVars, uiVars, session, created, state, wpc, current, conn,
                  quitSent, race>>

\* Limelight reports the end of the connection once, on a new thread ...
TerminationFires(kind) ==
    /\ ~crashed /\ conn /\ callback.at = "idle"
    /\ callback' = [at |-> "fired", of |-> NoSession, kind |-> kind]
    /\ UNCHANGED <<callbackRest, interrupted, quitapp, mouse, errno, failed, crashed>>

\* ... where connection_terminated reads current_session without a lock ...
TerminationReads ==
    /\ ~crashed /\ callback.at = "fired"
    /\ callback' = [callback EXCEPT
                      !.of = current,
                      !.at = IF current = NoSession THEN "gone"
                             ELSE IF callback.kind = "host" THEN "interrupt"
                             ELSE "error"]
    /\ UNCHANGED <<callbackRest, interrupted, quitapp, mouse, errno, failed, crashed>>

\* ... sets the error message with code 0 when the end was not graceful ...
TerminationSetsError ==
    /\ ~crashed /\ callback.at = "error"
    /\ errno' = "ok"
    /\ callback' = [callback EXCEPT !.at = "interrupt"]
    /\ UNCHANGED <<callbackRest, interrupted, quitapp, mouse, failed, crashed>>

\* ... and interrupts the session it read.
TerminationInterrupts ==
    /\ ~crashed /\ callback.at = "interrupt"
    /\ Interrupt(FALSE, IF callback.kind = "network" THEN "network" ELSE "ok")
    /\ callback' = [callback EXCEPT !.at = "gone"]
    /\ UNCHANGED callbackRest

\* vdec_delegate_submit: the decoder failed. LiStopConnection joins this thread.
DecoderFails ==
    /\ ~crashed /\ conn /\ ~interrupted
    /\ wpc \notin {"setup", "setup_push", "setup_wait"}
    /\ Interrupt(FALSE, "decoder")
    /\ UNCHANGED <<callbackRest, callback>>

-----------------------------------------------------------------------------
(* The specification.                                                      *)

\* The threads wait for nothing any more, or they wait for ever.
\*   LatePost: a request for the main thread was pushed after app_bus_drain,
\*   because app->running was tested before the application began to leave.
\*   MouseLost: the worker waits for a mouse device that is not there or that
\*   an early interrupt has closed.
LatePost == race = "lost"
MouseLost == wpc = "mouse" /\ mouse = "ended"
Hung == mpc \in {"join_mouse", "join_worker"} /\ (LatePost \/ MouseLost)

Stopped ==
    /\ mpc = "exited" \/ crashed \/ Hung
    /\ UNCHANGED vars

MainInput ==
    \/ SessionBegin
    \/ SessionBeginRefused
    \/ \E quit \in BOOLEAN : UserLeaves(quit)
    \/ AppToBackground
    \/ InputAsksOverlay
    \/ AppRequestExit

HandleEvent ==
    \/ OnConnecting \/ OnOpen \/ OnClose \/ OnFinished \/ OnOverlay
    \/ OnUiClose \/ OnUpsert \/ OnDestroy

Join == JoinMouse \/ JoinWorker

Leave == LeaveLoop \/ DrainDrops \/ DrainEnds \/ Deinit

MainStep == FragmentDeleted \/ HandleEvent \/ Join \/ Leave

\* The steps both workers end with
WorkerEnd ==
    \/ UpdateTests \/ UpdatePushes
    \/ WorkerResets
    \/ WorkerFinishes \/ DestroyTests \/ DestroyPushes

WorkerStep ==
    \/ WorkerBegin \/ WorkerSeesMouse
    \/ WorkerLaunches \/ WorkerLaunchFails
    \/ WorkerPrepares \/ SetupTests \/ SetupPushes
    \/ WorkerConnects \/ WorkerConnectFails \/ WorkerOpens
    \/ WorkerWoken \/ WorkerCloses \/ WorkerStops \/ WorkerQuits
    \/ WorkerCleansUp
    \/ WorkerEnd

MouseStep == MouseOpens \/ MouseCloses

CallbackStep == TerminationReads \/ TerminationSetsError \/ TerminationInterrupts

LimelightFails ==
    \/ \E kind \in {"host", "network"} : TerminationFires(kind)
    \/ DecoderFails

Next ==
    \/ MainInput \/ MainStep
    \/ WorkerStep
    \/ MouseStep
    \/ CallbackStep \/ LimelightFails
    \/ Stopped

\* Every thread keeps running; the user, the operating system and the network
\* need not do anything. Each round of the main loop takes the events that are
\* queued, runs the deferred deletions and tests app->running. The library
\* calls the worker makes return.
MainFairness ==
    /\ WF_vars(HandleEvent)
    /\ WF_vars(FragmentDeleted)
    /\ WF_vars(Join)
    /\ WF_vars(Leave)

Fairness ==
    /\ MainFairness
    /\ WF_vars(WorkerStep)
    /\ WF_vars(MouseStep)
    /\ WF_vars(CallbackStep)

Spec == Init /\ [][Next]_vars
FairSpec == Spec /\ Fairness

-----------------------------------------------------------------------------
(* Safety.                                                                 *)

\* A stream event is handled by the main thread while the session that pushed
\* it is app->session: the handlers of root.c use app->session unchecked, and a
\* late CLOSE or FINISHED would act on the next session. (app_bus_drain drops
\* what is queued after it.)
StreamEventsMeetTheirSession ==
    ~drained => \A i \in DOMAIN queue :
        queue[i].code \in StreamCode =>
            session # NoSession /\ queue[i].of = session

\* The overlay commands that a session's input sent through the queue find
\* that session when the streaming fragment handles them (show_overlay and
\* soft_keyboard_create dereference app->session).
OverlayFindsItsSession ==
    mpc = "loop" => \A i \in DOMAIN queue :
        (queue[i].code = "OVERLAY" /\ fragment # "none") =>
            queue[i].of = session

\* What OPEN took (input, keep-awake, the HID poll timer) is only held while
\* the CLOSE event that gives it back is still to be pushed or handled.
ResourcesAreOwed ==
    (held # {} /\ mpc = "loop") =>
        \/ wpc \in {"wait", "close", "ui", "ui_push", "ui_wait", "attach", "read",
                    "detach", "reap"}
        \/ \E i \in DOMAIN queue : queue[i].code = "CLOSE"

\* No thread that Limelight or the application runs for a session keeps its
\* pointer after session_destroy has freed it.
SessionPointersLive ==
    /\ current # NoSession => current = session
    /\ conn => current = session
    /\ callback.at \in {"error", "interrupt"} =>
            callback.of = session /\ session # NoSession

\* The request a worker that waits for the main thread has pushed
Awaited == IF wpc = "update_wait" THEN "UPSERT" ELSE "UI_CLOSE"

\* session_destroy joins threads from inside SDL_FilterEvents, which holds the
\* lock of the event queue: no thread it waits for may still want to push.
FilterJoinsNoPusher ==
    inFilter => wpc \in {"done", "none"}

\* Whoever waits, waits for something that comes. A request of app_bus_post_sync is on the
\* queue until it is served, and the main thread takes events meanwhile and joins nobody,
\* unless the post lost its race with app_bus_drain; the threads that session_destroy
\* joins have been told to end, the worker's wait on session->cond among them.
WaitsAreAnswered ==
    /\ wpc \in {"setup_wait", "ui_wait", "update_wait"} =>
            LatePost \/ (mpc \in {"loop", "drain"} /\ \E i \in DOMAIN queue : queue[i].code = Awaited)
    /\ mpc \in {"join_mouse", "join_worker"} /\ ~crashed =>
            interrupted /\ mouse \notin {"opening", "listening"}

\* No event of a session comes too late: neither to the main thread, which would handle
\* it without the session, nor to the queue, whose lock the main thread would hold, nor to
\* a thread that waits for it.
EventsComeInTime ==
    /\ StreamEventsMeetTheirSession
    /\ FilterJoinsNoPusher
    /\ WaitsAreAnswered

\* streaming_errno is a global that outlives sessions, and FINISHED shows an
\* error dialog when it is set: a session never shows the error of another.
ErrorOnlyIfFailed ==
    (session # NoSession /\ wpc # "begin" /\ errno # "ok") => failed

\* When no session is left the UI is there again, except after a connection
\* that failed once the video had closed the UI (no CLOSE is pushed then).
UIComesBack ==
    (mpc = "loop" /\ session = NoSession /\ ~uiOpen) => state = "ERROR"

\* What a session leaves in other hands, at any time and after any end of it: events,
\* resources, pointers, the error and the UI.
SessionLeavesNothing ==
    /\ OverlayFindsItsSession
    /\ ResourcesAreOwed
    /\ SessionPointersLive
    /\ ErrorOnlyIfFailed
    /\ UIComesBack

\* The main thread takes the events of a session until the application leaves,
\* also while it destroys one from inside the event filter.
InLoop == mpc = "loop" \/ inFilter

Protocol == INSTANCE SessionProtocol WITH
    there <- InLoop /\ session # NoSession,
    seen  <- seen,
    holds <- InLoop /\ held # {}

\* The stream events of a session reach the main thread in the order of
\* SessionProtocol, each once: CONNECTING, OPEN and CLOSE or neither of them, and
\* FINISHED. What a stream takes is held exactly between OPEN and CLOSE, and the
\* session is destroyed only once its FINISHED has been handled.
KeepsProtocol == Protocol!PSpec

\* session_evmouse_interrupt asserts that the mouse device is open.
EvMouseAssertion == ~crashed

-----------------------------------------------------------------------------
(* Liveness.                                                               *)

\* A session that is interrupted, whoever does it and when, is destroyed, and so is
\* one whose launch or connection failed. The two ways a thread waits for ever are
\* LatePost and, before the launch, MouseLost.
SessionEnds ==
    \A s \in SessionId :
        /\ (session = s /\ interrupted) ~> (session # s \/ crashed \/ LatePost \/ MouseLost)
        /\ (session = s /\ state = "ERROR") ~> (session # s \/ crashed)

\* A user who quits a running stream quits the app on the host too, even when
\* the application exits at the same time.
QuitReachesHost ==
    (state = "STREAMING" /\ interrupted /\ quitapp) ~> (quitSent \/ crashed)

\* The application exits whatever the session is doing.
ExitCompletes ==
    ~running ~> (mpc = "exited" \/ crashed \/ LatePost \/ MouseLost)
=============================================================================
