--------------------------- MODULE EmbeddedSession ---------------------------
(***************************************************************************)
(* A session whose stream runs in a child process (moonlight-embedded):    *)
(* session_worker_embedded takes the place of session_worker, there is no  *)
(* Limelight in this process, and the only way to end the child is the     *)
(* SIGINT that session_interrupt sends through session->embed_process.     *)
(***************************************************************************)
EXTENDS Session

ASSUME EmbeddedAssumption == Embed

VARIABLES
    process,     \* session->embed_process # NULL
    child,       \* the child process
    status,      \* what waitpid said about it
    unheard      \* history: the interrupt found embed_process NULL

childVars == <<process, child, status, unheard>>
evars == <<vars, childVars>>

EmbedTypeOK ==
    /\ TypeOK
    /\ process \in BOOLEAN
    /\ child \in {"none", "running", "signalled", "ended", "reaped"}
    /\ status \in {"none", "ok", "bad"}
    /\ unheard \in BOOLEAN

EmbedInit ==
    /\ Init
    /\ process = FALSE
    /\ child = "none"
    /\ status = "none"
    /\ unheard = FALSE

\* Fault: the child is not told.
SignalForgotten ==
    /\ unheard' = (interrupted' /\ (unheard \/ (~interrupted /\ ~process)))
    /\ UNCHANGED <<process, child, status>>

\* The end of session_interrupt: the child is only told while embed_process is
\* set, by the one interrupt that counts.
Signal ==
    /\ child' = IF ~interrupted /\ interrupted' /\ process /\ child = "running"
                THEN "signalled" ELSE child
    /\ unheard' = (interrupted' /\ (unheard \/ (~interrupted /\ ~process)))
    /\ UNCHANGED <<process, status>>

-----------------------------------------------------------------------------
(* The worker: session_worker_embedded.                                    *)

EmbedBegins ==
    /\ GoWorker("begin", "spawn")
    /\ state' = "CONNECTING"
    /\ Push("CONNECTING")
    /\ errno' = "ok"
    /\ UNCHANGED <<workerRest, limeVars, histVars, childVars>>

EmbedSpawns ==
    /\ GoWorker("spawn", "ui")
    /\ child' = "running"
    /\ status' = "none"
    /\ state' = "STREAMING"
    /\ Push("OPEN")
    /\ UNCHANGED <<workerRest, limeVars, errno, histVars, process, unheard>>

\* The error path returns without app_bus_post(app_session_destroy).
EmbedSpawnFails ==
    /\ GoWorker("spawn", "done")
    /\ state' = "ERROR"
    /\ errno' = "embed"
    /\ failed' = TRUE
    /\ Push("FINISHED")
    /\ UNCHANGED <<workerRest, limeVars, quitSent, race, childVars>>

UiTests == PostSyncTests("ui", "ui_push", "attach") /\ UNCHANGED childVars
UiPushes == PostSyncPushes("ui_push", "UI_CLOSE", "ui_wait") /\ UNCHANGED childVars

EmbedAttaches ==
    /\ GoWorker("attach", "read")
    /\ process' = TRUE
    /\ UNCHANGED <<workerRest, queue, state, limeVars, errno, histVars, child, status,
                   unheard>>

\* The loop that reads the child's output ends with the output, or at a line
\* read after the interrupt.
EmbedReads ==
    /\ GoWorker("read", "detach")
    /\ interrupted \/ child = "ended"
    /\ UNCHANGED <<workerRest, queue, state, limeVars, errno, histVars, childVars>>

EmbedDetaches ==
    /\ GoWorker("detach", "reap")
    /\ process' = FALSE
    /\ UNCHANGED <<workerRest, queue, state, limeVars, errno, histVars, child, status,
                   unheard>>

\* Fault: nobody waits for a child that was interrupted.
EmbedAbandons ==
    /\ GoWorker("reap", "close")
    /\ child' = IF child = "ended" THEN "reaped" ELSE child
    /\ status' = "ok"
    /\ UNCHANGED <<workerRest, queue, state, limeVars, errno, histVars, process, unheard>>

\* embed_wait, and the error of a child that ended with a signal or a code
EmbedReaps ==
    /\ GoWorker("reap", "close")
    /\ child = "ended"
    /\ child' = "reaped"
    /\ \/ /\ status' = "ok"
          /\ UNCHANGED <<errno, failed>>
       \/ /\ status' = "bad"
          /\ errno' = "embed"
          /\ failed' = TRUE
    /\ UNCHANGED <<workerRest, queue, state, limeVars, quitSent, race, process, unheard>>

\* Fault: the stream of a child that ended badly is not closed.
EmbedClosesAfterGood ==
    /\ AtWorker("close")
    /\ wpc' = IF status = "ok" THEN "quit" ELSE "finished"
    /\ state' = "DISCONNECTING"
    /\ IF status = "ok" THEN Push("CLOSE") ELSE UNCHANGED queue
    /\ UNCHANGED <<workerRest, limeVars, errno, histVars, childVars>>

\* The CLOSE event; the app on the host is only quit, and the host only
\* refreshed, after a child that ended well.
EmbedCloses ==
    /\ AtWorker("close")
    /\ wpc' = IF status = "ok" THEN "quit" ELSE "finished"
    /\ state' = "DISCONNECTING"
    /\ Push("CLOSE")
    /\ UNCHANGED <<workerRest, limeVars, errno, histVars, childVars>>

-----------------------------------------------------------------------------
(* The child.                                                              *)

\* It ends on SIGINT, or when the stream ends.
ChildEnds ==
    /\ child \in {"running", "signalled"}
    /\ child' = "ended"
    /\ UNCHANGED <<vars, process, status, unheard>>

ChildObeys == child = "signalled" /\ ChildEnds

-----------------------------------------------------------------------------
(* The specification.                                                      *)

\* session_interrupt came while embed_process was NULL, so that the child runs
\* on and the worker waits for it.
Unheard == unheard /\ child = "running"

EmbedWorkerStep ==
    \/ EmbedBegins \/ EmbedSpawns \/ EmbedSpawnFails
    \/ UiTests \/ UiPushes
    \/ EmbedAttaches \/ EmbedReads \/ EmbedDetaches \/ EmbedReaps \/ EmbedCloses
    \/ WorkerQuits /\ UNCHANGED childVars
    \/ WorkerEnd /\ UNCHANGED childVars

EmbedStopped ==
    /\ mpc = "exited" \/ (mpc = "join_worker" /\ LatePost)
    /\ UNCHANGED evars

EmbedNext ==
    \/ MainInput /\ Signal
    \/ MainStep /\ Signal
    \/ EmbedWorkerStep
    \/ ChildEnds
    \/ EmbedStopped

\* As in Session; a child that was told to end does so, one that was not may
\* run for ever.
EmbedFairness ==
    /\ WF_evars(HandleEvent /\ Signal)
    /\ WF_evars(FragmentDeleted /\ Signal)
    /\ WF_evars(Join /\ Signal)
    /\ WF_evars(Leave /\ Signal)
    /\ WF_evars(EmbedWorkerStep)
    /\ WF_evars(ChildObeys)

EmbedSpec == EmbedInit /\ [][EmbedNext]_evars /\ EmbedFairness

-----------------------------------------------------------------------------
(* Properties.                                                             *)

\* Besides the types: SIGINT is never sent to a process that was reaped, whose number
\* the system may have given to another (embed_process is cleared before waitpid), and
\* no child outlives its session or is left unreaped.
ChildIsOurs ==
    /\ EmbedTypeOK
    /\ process => child \in {"running", "signalled", "ended"}
    /\ session = NoSession => child \in {"none", "reaped"}

\* The UI that was closed for the child is there again when the session is
\* gone, whatever the child's end was: the fragment or an error dialog needs it.
EmbedUIComesBack ==
    (mpc = "loop" /\ session = NoSession) => uiOpen

\* What is left of an embedded session at any time, and after any end of it.
EmbedLeavesNothing == ChildIsOurs /\ EmbedUIComesBack

\* Once the child has ended, its session is destroyed.
ChildsEndEndsSession ==
    \A s \in SessionId :
        (session = s /\ child = "ended") ~> (session # s \/ LatePost)

\* An interrupted session is destroyed unless the interrupt was not heard, or
\* the child could not be spawned (see FinishedSessionIsDestroyed).
InterruptEndsChild ==
    \A s \in SessionId :
        (session = s /\ interrupted) ~>
            (session # s \/ LatePost \/ Unheard \/ state = "ERROR")

\* The application exits, unless it joins a worker whose child was not told.
EmbedExitCompletes ==
    ~running ~> (mpc = "exited" \/ LatePost \/ Unheard)

\* An embedded session ends, by the child or by an interrupt, and so does the application
\* that has to join it.
EmbedSessionEnds == ChildsEndEndsSession /\ InterruptEndsChild /\ EmbedExitCompletes

\* FINISHED is "posted just before the session is destroyed", root.c says.
FinishedSessionIsDestroyed ==
    \A s \in SessionId :
        (\E i \in DOMAIN queue : queue[i] = [code |-> "FINISHED", of |-> s])
            ~> session # s
=============================================================================
