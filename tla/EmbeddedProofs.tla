---------------------------- MODULE EmbeddedProofs ----------------------------
(***************************************************************************)
(* Theorems about module EmbeddedSession, for every number of sessions. The *)
(* main thread is that of Session, so the invariant of the event queue      *)
(* (IndInv of SessionProofs) is kept by the same lemmas; what the worker of  *)
(* the embedded shell adds is where its child is and who brings the user    *)
(* interface back.                                                          *)
(***************************************************************************)
EXTENDS EmbeddedSession, SessionProofs

\* Between embed_spawn and embed_wait the child is there, and nowhere else.
ChildPC == {"ui", "ui_push", "ui_wait", "attach", "read", "detach", "reap"}
LiveChild == {"running", "signalled", "ended"}

\* Where session_worker_embedded can be.
EmbeddedPC ==
    ChildPC \cup {"none", "begin", "spawn", "close", "quit", "update", "update_push",
                  "update_wait", "reset", "finished", "post", "post_push", "done"}

ChildTypes ==
    /\ process \in BOOLEAN
    /\ child \in {"none", "running", "signalled", "ended", "reaped"}
    /\ status \in {"none", "ok", "bad"}
    /\ unheard \in BOOLEAN

WorkerIsEmbedded == wpc \in EmbeddedPC

ChildTells ==
    /\ child \in LiveChild <=> wpc \in ChildPC
    /\ process => wpc \in {"read", "detach"}

\* A user interface that is closed is owed by the worker or by a CLOSE event.
UIIsOwedBack ==
    InLoop /\ ~uiOpen => wpc \in {"attach", "read", "detach", "reap", "close"} \/ Has("CLOSE")

\* The inductive invariant of the embedded session.
EmbedInv ==
    /\ IndInv
    /\ ChildTypes
    /\ WorkerIsEmbedded
    /\ ChildTells
    /\ UIIsOwedBack

LEMMA InitEmbedInv == EmbedInit => EmbedInv
<1> SUFFICES ASSUME EmbedInit PROVE EmbedInv
  OBVIOUS
<1>1. IndInv
  BY InitIndInv DEF EmbedInit
<1>2. wpc = "none" /\ child = "none" /\ process = FALSE /\ uiOpen = TRUE /\ status = "none"
      /\ unheard = FALSE
  BY DEF EmbedInit, Init
<1> QED
  BY <1>1, <1>2 DEF EmbedInv, ChildTypes, WorkerIsEmbedded, ChildTells, UIIsOwedBack,
     EmbeddedPC, ChildPC, LiveChild

-----------------------------------------------------------------------------
(* The main thread.                                                        *)

LEMMA TakenKeepsClose ==
    ASSUME queue \in Seq(Event), queue # <<>>, queue' = Tail(queue),
           Head(queue).code # "CLOSE", Has("CLOSE")
    PROVE  Has("CLOSE")'
<1>1. PICK i \in DOMAIN queue : queue[i].code = "CLOSE"
  BY DEF Has
<1>2. /\ DOMAIN queue = 1..Len(queue) /\ Len(queue) \in Nat
      /\ Head(queue) = queue[1]
      /\ DOMAIN queue' = 1..(Len(queue) - 1)
      /\ \A k \in DOMAIN queue' : queue'[k] = queue[k + 1]
  BY TailEvent
<1>3. i - 1 \in DOMAIN queue' /\ queue'[i - 1] = queue[i]
  BY <1>1, <1>2
<1> QED
  BY <1>1, <1>3 DEF Has

LEMMA PushedHas ==
    ASSUME queue \in Seq(Event), NEW code \in EventCode, session \in SessionId,
           queue' = Append(queue, [code |-> code, of |-> session])
    PROVE  /\ Has(code)'
           /\ Has("CLOSE") => Has("CLOSE")'
<1> DEFINE e == [code |-> code, of |-> session]
<1>1. e \in Event
  BY DEF Event
<1>2. /\ DOMAIN queue = 1..Len(queue) /\ Len(queue) \in Nat
      /\ DOMAIN queue' = 1..(Len(queue) + 1)
      /\ \A i \in DOMAIN queue : queue'[i] = queue[i]
      /\ queue'[Len(queue) + 1].code = code
  BY <1>1, AppendEvent
<1> QED
  BY <1>2 DEF Has

\* What the main thread does to the worker: it creates it, joins it, and answers it.
LEMMA MainMovesWorker ==
    ASSUME EmbedInv, MainInput \/ MainStep
    PROVE  \/ wpc' = wpc
           \/ wpc = "none" /\ wpc' = "begin"
           \/ wpc = "ui_wait" /\ wpc' = "attach"
           \/ wpc = "update_wait" /\ wpc' = "reset"
           \/ wpc = "done" /\ wpc' = "none"
<1>0. IndInv /\ TypeOK /\ Shape /\ WorkerIsEmbedded
  BY DEF EmbedInv, IndInv
<1>1. CASE SessionBegin
  BY <1>0, <1>1 DEF SessionBegin, Shape, WorkerHasSession
<1>2. CASE OnUiClose \/ OnUpsert
  <2>1. /\ queue # <<>> /\ queue \in Seq(Event) /\ RunsActions
    BY <1>0, <1>2 DEF OnUiClose, OnUpsert, Take, TypeOK, MainTypes
  <2>2. ~drained /\ 1 \in DOMAIN queue /\ Head(queue) = queue[1]
    BY <1>0, <2>1, TailEvent DEF RunsActions, Shape, MainPhases
  <2>3. CASE OnUiClose
    <3>1. wpc \in {"setup_wait", "ui_wait"}
      BY <1>0, <2>2, <2>3 DEF OnUiClose, Take, Shape, RequestsAwaited
    <3>2. wpc = "ui_wait"
      BY <1>0, <3>1 DEF WorkerIsEmbedded, EmbeddedPC, ChildPC
    <3> QED
      BY <2>3, <3>2, EmbeddedAssumption DEF OnUiClose
  <2>4. CASE OnUpsert
    BY <1>0, <2>2, <2>4 DEF OnUpsert, Take, Shape, RequestsAwaited
  <2> QED
    BY <1>2, <2>3, <2>4
<1>3. CASE Join
  BY <1>3 DEF Join, JoinMouse, JoinWorker
<1>4. CASE Leave
  BY <1>4 DEF Leave, LeaveLoop, DrainDrops, DrainEnds, Deinit
<1>5. CASE OnConnecting \/ OnOpen \/ OnClose \/ OnFinished \/ OnOverlay \/ OnDestroy
  BY <1>5 DEF OnConnecting, OnOpen, OnClose, OnFinished, OnOverlay, OnDestroy
<1>6. CASE FragmentDeleted
  BY <1>6 DEF FragmentDeleted
<1>7. CASE SessionBeginRefused \/ AppToBackground \/ InputAsksOverlay \/ AppRequestExit
  BY <1>7 DEF SessionBeginRefused, AppToBackground, InputAsksOverlay, AppRequestExit
<1>8. ASSUME NEW quit \in BOOLEAN, UserLeaves(quit) PROVE wpc' = wpc
  BY <1>8 DEF UserLeaves
<1> QED
  BY <1>1, <1>2, <1>3, <1>4, <1>5, <1>6, <1>7, <1>8 DEF MainInput, MainStep, HandleEvent

\* While the main thread stays in its loop, it only closes the user interface for the
\* child, and only takes a CLOSE event to bring it back.
LEMMA MainOwesUI ==
    ASSUME EmbedInv, MainInput \/ MainStep
    PROVE  UIIsOwedBack'
<1>0. IndInv /\ TypeOK /\ Shape /\ UIIsOwedBack /\ queue \in Seq(Event)
  BY DEF EmbedInv, IndInv, TypeOK, MainTypes
<1>w. \/ wpc' = wpc
      \/ wpc = "none" /\ wpc' = "begin"
      \/ wpc = "ui_wait" /\ wpc' = "attach"
      \/ wpc = "update_wait" /\ wpc' = "reset"
      \/ wpc = "done" /\ wpc' = "none"
  BY MainMovesWorker
\* The user interface is as it was, and no CLOSE is taken.
<1>k. ASSUME InLoop' => InLoop, uiOpen' = uiOpen, Has("CLOSE") => Has("CLOSE")'
      PROVE  UIIsOwedBack'
  BY <1>0, <1>w, <1>k DEF UIIsOwedBack
<1>q. ASSUME queue' = queue, InLoop' => InLoop, uiOpen' = uiOpen
      PROVE  UIIsOwedBack'
  BY <1>k, <1>q DEF Has
<1>t. ASSUME NEW code, code # "CLOSE", Take(code), InLoop' => InLoop, uiOpen' = uiOpen
      PROVE  UIIsOwedBack'
  BY <1>0, <1>k, <1>t, TakenKeepsClose DEF Take
<1>1. CASE SessionBegin \/ SessionBeginRefused \/ AppToBackground \/ AppRequestExit \/ FragmentDeleted
  <2>1. queue' = queue /\ uiOpen' = uiOpen /\ mpc' = mpc /\ inFilter' = inFilter
    BY <1>1 DEF SessionBegin, SessionBeginRefused, AppToBackground, AppRequestExit,
       FragmentDeleted, mainVars, mainRest, uiVars
  <2> QED
    BY <2>1, <1>q DEF InLoop
<1>2. ASSUME NEW quit \in BOOLEAN, UserLeaves(quit) PROVE UIIsOwedBack'
  <2>1. queue' = queue /\ uiOpen' = uiOpen /\ mpc' = mpc /\ inFilter' = inFilter
    BY <1>2 DEF UserLeaves, mainVars, mainRest, uiVars
  <2> QED
    BY <2>1, <1>q DEF InLoop
<1>3. CASE InputAsksOverlay
  <2>1. /\ session \in SessionId /\ uiOpen' = uiOpen /\ mpc' = mpc /\ inFilter' = inFilter
        /\ queue' = Append(queue, [code |-> "OVERLAY", of |-> session])
    BY <1>0, <1>3 DEF InputAsksOverlay, mainRest, uiVars, TypeOK, SessionTypes
  <2>2. "OVERLAY" \in EventCode
    BY DEF EventCode
  <2>3. Has("CLOSE") => Has("CLOSE")'
    BY <1>0, <2>1, <2>2, PushedHas
  <2> QED
    BY <2>1, <2>3, <1>k DEF InLoop
<1>4. CASE OnConnecting \/ OnOpen \/ OnFinished \/ OnOverlay \/ OnUpsert
  <2>1. uiOpen' = uiOpen /\ mpc' = mpc /\ inFilter' = inFilter
    BY <1>4 DEF OnConnecting, OnOpen, OnFinished, OnOverlay, OnUpsert, mainRest, uiVars
  <2>2. PICK code \in {"CONNECTING", "OPEN", "FINISHED", "OVERLAY", "UPSERT"} : Take(code)
    BY <1>4 DEF OnConnecting, OnOpen, OnFinished, OnOverlay, OnUpsert
  <2> QED
    BY <2>1, <2>2, <1>t DEF InLoop
<1>5. CASE OnClose
  BY <1>5 DEF OnClose, UIIsOwedBack
<1>6. CASE OnUiClose
  <2>1. wpc' = "attach"
    BY <1>6, EmbeddedAssumption DEF OnUiClose
  <2> QED
    BY <2>1 DEF UIIsOwedBack
<1>7. CASE OnDestroy
  <2>1. Take("DESTROY") /\ uiOpen' = uiOpen
    BY <1>7 DEF OnDestroy, uiVars
  <2>2. InLoop' => InLoop
    BY <1>0, <1>7 DEF OnDestroy, InLoop, RunsActions, Shape, MainPhases, Joining
  <2> QED
    BY <2>1, <2>2, <1>t
<1>8. CASE Join
  <2>1. queue' = queue /\ uiOpen' = uiOpen
    BY <1>8 DEF Join, JoinMouse, JoinWorker, uiVars
  <2>2. InLoop' => InLoop
    BY <1>8 DEF Join, JoinMouse, JoinWorker, InLoop, AtMain
  <2> QED
    BY <2>1, <2>2, <1>q
<1>9. CASE Leave
  <2>1. ~InLoop'
    BY <1>0, <1>9 DEF Leave, LeaveLoop, DrainDrops, DrainEnds, Deinit, AtMain, InLoop,
       Shape, MainPhases, Joining, mainRest
  <2> QED
    BY <2>1 DEF UIIsOwedBack
<1> QED
  BY <1>1, <1>2, <1>3, <1>4, <1>5, <1>6, <1>7, <1>8, <1>9 DEF MainInput, MainStep, HandleEvent

\* session_interrupt tells the child, whoever calls it.
LEMMA MainKeepsEmbed ==
    ASSUME EmbedInv, MainInput \/ MainStep, Signal
    PROVE  EmbedInv'
<1>0. IndInv /\ ChildTypes /\ WorkerIsEmbedded /\ ChildTells
  BY DEF EmbedInv
<1>1. IndInv'
  BY <1>0, MainInputInv, HandleEventInv, JoinLeaveInv DEF MainStep
<1>2. UIIsOwedBack'
  BY MainOwesUI
<1>3. \/ wpc' = wpc
      \/ wpc = "none" /\ wpc' = "begin"
      \/ wpc = "ui_wait" /\ wpc' = "attach"
      \/ wpc = "update_wait" /\ wpc' = "reset"
      \/ wpc = "done" /\ wpc' = "none"
  BY MainMovesWorker
<1>4. /\ child' \in {"none", "running", "signalled", "ended", "reaped"}
      /\ child' \in LiveChild <=> child \in LiveChild
      /\ process' = process /\ status' = status
  BY <1>0 DEF Signal, ChildTypes, LiveChild
<1>5. unheard' \in BOOLEAN
  BY DEF Signal
<1>6. ChildTypes'
  BY <1>0, <1>4, <1>5 DEF ChildTypes
<1>7. WorkerIsEmbedded' /\ ChildTells'
  BY <1>0, <1>3, <1>4 DEF WorkerIsEmbedded, ChildTells, EmbeddedPC, ChildPC
<1> QED
  BY <1>1, <1>2, <1>6, <1>7 DEF EmbedInv

-----------------------------------------------------------------------------
(* The worker of the embedded shell.                                       *)

\* What a step of the worker has to say for itself: it never touches Limelight.
WorkerEffects ==
    /\ UNCHANGED <<workerRest, limeVars, quitSent, race>>
    /\ wpc \notin Waiting \cup {"none", "done"}
    /\ wpc' \in WorkerPC \ {"none"}
    /\ state' \in State
    /\ errno' \in Errno
    /\ failed' \in BOOLEAN

LEMMA QuietStepInv ==
    ASSUME IndInv, WorkerEffects, UNCHANGED queue
    PROVE  IndInv'
<1>0. TypeOK /\ Shape
  BY DEF IndInv
<1>1. Shape'
  BY <1>0, WorkerMoves DEF WorkerEffects, workerRest, mainRest
<1>2. wpc' \in WorkerPC /\ state' \in State /\ queue' \in Seq(Event)
  BY <1>0 DEF WorkerEffects, TypeOK, MainTypes
<1>3. MainTypes' /\ UITypes' /\ SessionTypes' /\ ThreadTypes' /\ crashed' \in BOOLEAN
  BY <1>0, <1>2, WorkerFrame DEF WorkerEffects
<1>4. LimelightTypes'
  BY <1>0, TypesUnchanged DEF WorkerEffects
<1>5. HistoryTypes'
  BY <1>0, <1>3 DEF WorkerEffects, TypeOK, HistoryTypes, Errno
<1> QED
  BY <1>1, <1>3, <1>4, <1>5 DEF IndInv, TypeOK

LEMMA PushingStepInv ==
    ASSUME IndInv, WorkerEffects, NEW code \in StreamCode, Push(code)
    PROVE  IndInv'
<1>0. TypeOK /\ Shape
  BY DEF IndInv
<1>1. code \in EventCode /\ code \notin {"UI_CLOSE", "UPSERT", "DESTROY"}
  BY DEF EventCode, StreamCode
<1>2. Shape' /\ queue' \in Seq(Event)
  BY <1>0, <1>1, WorkerPushes DEF WorkerEffects, workerRest, mainRest
<1>3. wpc' \in WorkerPC /\ state' \in State
  BY DEF WorkerEffects
<1>4. MainTypes' /\ UITypes' /\ SessionTypes' /\ ThreadTypes' /\ crashed' \in BOOLEAN
  BY <1>0, <1>2, <1>3, WorkerFrame DEF WorkerEffects
<1>5. LimelightTypes'
  BY <1>0, TypesUnchanged DEF WorkerEffects
<1>6. HistoryTypes'
  BY <1>0, <1>4 DEF WorkerEffects, TypeOK, HistoryTypes, Errno
<1> QED
  BY <1>2, <1>4, <1>5, <1>6 DEF IndInv, TypeOK

\* The worker of Session and that of the embedded shell end alike.
LEMMA SharedEndKeeps ==
    ASSUME EmbedInv, WorkerEnd \/ WorkerQuits, UNCHANGED childVars
    PROVE  EmbedInv'
<1>0. IndInv /\ TypeOK /\ ChildTypes /\ ChildTells /\ UIIsOwedBack /\ queue \in Seq(Event)
  BY DEF EmbedInv, IndInv, TypeOK, MainTypes
<1>1. IndInv'
  BY <1>0, WorkerEndInv, WorkerStepInv DEF WorkerStep
<1>2. /\ wpc \in {"quit", "update", "update_push", "reset", "finished", "post", "post_push"}
      /\ wpc' \in {"update", "update_push", "update_wait", "reset", "finished", "post",
                   "post_push", "done"}
  BY EmbeddedAssumption DEF WorkerEnd, WorkerQuits, UpdateTests, UpdatePushes, PostSyncTests,
     PostSyncPushes, WorkerResets, WorkerFinishes, DestroyTests, DestroyPushes, GoWorker, AtWorker
<1>3. UNCHANGED <<uiOpen, mpc, inFilter, session>>
  BY DEF WorkerEnd, WorkerQuits, UpdateTests, UpdatePushes, PostSyncTests,
     PostSyncPushes, WorkerResets, WorkerFinishes, DestroyTests, DestroyPushes, workerRest,
     mainRest, uiVars
<1>4. Has("CLOSE") => Has("CLOSE")'
  <2>1. CASE queue' = queue
    BY <2>1 DEF Has
  <2>2. ASSUME NEW code \in {"UPSERT", "FINISHED", "DESTROY"}, Push(code)
        PROVE  Has("CLOSE") => Has("CLOSE")'
    <3>1. code \in EventCode
      BY DEF EventCode, StreamCode, ActionCode
    <3>2. session \in SessionId
      BY <1>0, <1>2 DEF IndInv, Shape, WorkerHasSession, TypeOK, SessionTypes
    <3> QED
      BY <1>0, <2>2, <3>1, <3>2, PushedHas DEF Push
  <2>3. queue' = queue \/ \E code \in {"UPSERT", "FINISHED", "DESTROY"} : Push(code)
    BY DEF WorkerEnd, WorkerQuits, UpdateTests, UpdatePushes, PostSyncTests,
       PostSyncPushes, WorkerResets, WorkerFinishes, DestroyTests, DestroyPushes
  <2> QED
    BY <2>1, <2>2, <2>3
<1>5. UIIsOwedBack'
  BY <1>0, <1>2, <1>3, <1>4 DEF UIIsOwedBack, InLoop
<1>6. ChildTypes'
  BY <1>0 DEF ChildTypes, childVars
<1>7. ChildTells' /\ WorkerIsEmbedded'
  BY <1>0, <1>2 DEF ChildTells, WorkerIsEmbedded, ChildPC, EmbeddedPC, childVars
<1> QED
  BY <1>1, <1>5, <1>6, <1>7 DEF EmbedInv

\* A step of its own, which leaves the user interface and the main thread alone.
LEMMA OwnStepKeeps ==
    ASSUME EmbedInv, IndInv', ChildTypes', WorkerIsEmbedded', ChildTells',
           UNCHANGED <<uiOpen, mpc, inFilter>>, Has("CLOSE") => Has("CLOSE")',
           wpc \in {"attach", "read", "detach", "reap", "close"} =>
               wpc' \in {"attach", "read", "detach", "reap", "close"} \/ Has("CLOSE")'
    PROVE  EmbedInv'
BY DEF EmbedInv, UIIsOwedBack, InLoop

LEMMA EmbedWorkerKeeps ==
    ASSUME EmbedInv, EmbedWorkerStep
    PROVE  EmbedInv'
<1>0. /\ IndInv /\ TypeOK /\ ChildTypes /\ ChildTells /\ queue \in Seq(Event)
      /\ errno \in Errno /\ failed \in BOOLEAN /\ state \in State
      /\ session \in SessionId \cup {NoSession}
      /\ wpc # "none" => session \in SessionId
  BY DEF EmbedInv, IndInv, TypeOK, MainTypes, SessionTypes, HistoryTypes, Errno, State, Shape,
     WorkerHasSession
<1> USE <1>0 DEF GoWorker, AtWorker
\* No event is pushed.
<1>q. ASSUME UNCHANGED <<queue, uiOpen, mpc, inFilter>>, IndInv', ChildTypes', WorkerIsEmbedded',
             ChildTells',
             wpc \in {"attach", "read", "detach", "reap", "close"} =>
                 wpc' \in {"attach", "read", "detach", "reap", "close"}
      PROVE  EmbedInv'
  BY <1>q, OwnStepKeeps DEF Has
\* An event is pushed.
<1>p. ASSUME NEW code \in {"CONNECTING", "OPEN", "FINISHED", "CLOSE", "UI_CLOSE"}, Push(code),
             wpc # "none",
             UNCHANGED <<uiOpen, mpc, inFilter>>, IndInv', ChildTypes', WorkerIsEmbedded',
             ChildTells',
             wpc \in {"attach", "read", "detach", "reap", "close"} => code = "CLOSE"
      PROVE  EmbedInv'
  <2>1. code \in EventCode
    BY <1>p DEF EventCode, StreamCode, ActionCode
  <2>2. Has(code)' /\ (Has("CLOSE") => Has("CLOSE")')
    BY <1>p, <2>1, PushedHas DEF Push
  <2> QED
    BY <1>p, <2>2, OwnStepKeeps
<1>r. UNCHANGED workerRest => UNCHANGED <<uiOpen, mpc, inFilter>>
  BY DEF workerRest, mainRest, uiVars
<1>1. CASE EmbedBegins
  <2>1. WorkerEffects /\ Push("CONNECTING") /\ "CONNECTING" \in StreamCode
    BY <1>1 DEF EmbedBegins, WorkerEffects, Waiting, WorkerPC, State, Errno, histVars, StreamCode
  <2>2. IndInv'
    BY <2>1, PushingStepInv
  <2>3. wpc = "begin" /\ wpc' = "spawn" /\ UNCHANGED <<process, child, status, unheard>>
    BY <1>1 DEF EmbedBegins, childVars
  <2>4. ChildTypes' /\ WorkerIsEmbedded' /\ ChildTells'
    BY <2>3 DEF ChildTypes, WorkerIsEmbedded, ChildTells, EmbeddedPC, ChildPC
  <2> QED
    BY <1>1, <2>1, <2>2, <2>3, <2>4, <1>p, <1>r DEF EmbedBegins
<1>2. CASE EmbedSpawns
  <2>1. WorkerEffects /\ Push("OPEN") /\ "OPEN" \in StreamCode
    BY <1>2 DEF EmbedSpawns, WorkerEffects, Waiting, WorkerPC, State, Errno, histVars, StreamCode
  <2>2. IndInv'
    BY <2>1, PushingStepInv
  <2>3. /\ wpc = "spawn" /\ wpc' = "ui" /\ UNCHANGED <<process, unheard>>
        /\ child' = "running" /\ status' = "none"
    BY <1>2 DEF EmbedSpawns
  <2>4. ChildTypes' /\ WorkerIsEmbedded' /\ ChildTells'
    BY <2>3 DEF ChildTypes, WorkerIsEmbedded, ChildTells, EmbeddedPC, ChildPC, LiveChild
  <2> QED
    BY <1>2, <2>1, <2>2, <2>3, <2>4, <1>p, <1>r DEF EmbedSpawns
<1>3. CASE EmbedSpawnFails
  <2>1. WorkerEffects /\ Push("FINISHED") /\ "FINISHED" \in StreamCode
    BY <1>3 DEF EmbedSpawnFails, WorkerEffects, Waiting, WorkerPC, State, Errno, StreamCode
  <2>2. IndInv'
    BY <2>1, PushingStepInv
  <2>3. wpc = "spawn" /\ wpc' = "done" /\ UNCHANGED <<process, child, status, unheard>>
    BY <1>3 DEF EmbedSpawnFails, childVars
  <2>4. ChildTypes' /\ WorkerIsEmbedded' /\ ChildTells'
    BY <2>3 DEF ChildTypes, WorkerIsEmbedded, ChildTells, EmbeddedPC, ChildPC
  <2> QED
    BY <1>3, <2>1, <2>2, <2>3, <2>4, <1>p, <1>r DEF EmbedSpawnFails
<1>4. CASE UiTests
  <2>1. PostSyncTests("ui", "ui_push", "attach") /\ UNCHANGED <<process, child, status, unheard>>
    BY <1>4 DEF UiTests, childVars
  <2>2. IndInv'
    BY <2>1, PostSyncTestsInv DEF WorkerPC, Waiting
  <2>3. wpc = "ui" /\ wpc' \in {"ui_push", "attach"} /\ UNCHANGED <<workerRest, queue>>
    BY <2>1 DEF PostSyncTests
  <2>4. ChildTypes' /\ WorkerIsEmbedded' /\ ChildTells'
    BY <2>1, <2>3 DEF ChildTypes, WorkerIsEmbedded, ChildTells, EmbeddedPC, ChildPC
  <2> QED
    BY <2>2, <2>3, <2>4, <1>q, <1>r
<1>5. CASE UiPushes
  <2>1. /\ PostSyncPushes("ui_push", "UI_CLOSE", "ui_wait")
        /\ UNCHANGED <<process, child, status, unheard>>
    BY <1>5 DEF UiPushes, childVars
  <2>2. IndInv'
    BY <2>1, PostSyncPushesInv DEF WorkerPC, Waiting, SyncCode
  <2>3. wpc = "ui_push" /\ wpc' = "ui_wait" /\ UNCHANGED workerRest /\ Push("UI_CLOSE")
    BY <2>1 DEF PostSyncPushes
  <2>4. ChildTypes' /\ WorkerIsEmbedded' /\ ChildTells'
    BY <2>1, <2>3 DEF ChildTypes, WorkerIsEmbedded, ChildTells, EmbeddedPC, ChildPC
  <2> QED
    BY <2>2, <2>3, <2>4, <1>p, <1>r
<1>6. CASE EmbedAttaches
  <2>1. WorkerEffects /\ UNCHANGED queue
    BY <1>6 DEF EmbedAttaches, WorkerEffects, Waiting, WorkerPC, histVars
  <2>2. IndInv'
    BY <2>1, QuietStepInv
  <2>3. wpc = "attach" /\ wpc' = "read" /\ process' = TRUE /\ UNCHANGED <<child, status, unheard>>
    BY <1>6 DEF EmbedAttaches
  <2>4. ChildTypes' /\ WorkerIsEmbedded' /\ ChildTells'
    BY <2>3 DEF ChildTypes, WorkerIsEmbedded, ChildTells, EmbeddedPC, ChildPC
  <2> QED
    BY <2>1, <2>2, <2>3, <2>4, <1>q, <1>r DEF WorkerEffects
<1>7. CASE EmbedReads
  <2>1. WorkerEffects /\ UNCHANGED queue
    BY <1>7 DEF EmbedReads, WorkerEffects, Waiting, WorkerPC, histVars
  <2>2. IndInv'
    BY <2>1, QuietStepInv
  <2>3. wpc = "read" /\ wpc' = "detach" /\ UNCHANGED <<process, child, status, unheard>>
    BY <1>7 DEF EmbedReads, childVars
  <2>4. ChildTypes' /\ WorkerIsEmbedded' /\ ChildTells'
    BY <2>3 DEF ChildTypes, WorkerIsEmbedded, ChildTells, EmbeddedPC, ChildPC
  <2> QED
    BY <2>1, <2>2, <2>3, <2>4, <1>q, <1>r DEF WorkerEffects
<1>8. CASE EmbedDetaches
  <2>1. WorkerEffects /\ UNCHANGED queue
    BY <1>8 DEF EmbedDetaches, WorkerEffects, Waiting, WorkerPC, histVars
  <2>2. IndInv'
    BY <2>1, QuietStepInv
  <2>3. wpc = "detach" /\ wpc' = "reap" /\ process' = FALSE /\ UNCHANGED <<child, status, unheard>>
    BY <1>8 DEF EmbedDetaches
  <2>4. ChildTypes' /\ WorkerIsEmbedded' /\ ChildTells'
    BY <2>3 DEF ChildTypes, WorkerIsEmbedded, ChildTells, EmbeddedPC, ChildPC
  <2> QED
    BY <2>1, <2>2, <2>3, <2>4, <1>q, <1>r DEF WorkerEffects
<1>9. CASE EmbedReaps
  <2>1. WorkerEffects /\ UNCHANGED queue
    BY <1>9 DEF EmbedReaps, WorkerEffects, Waiting, WorkerPC, Errno
  <2>2. IndInv'
    BY <2>1, QuietStepInv
  <2>3. /\ wpc = "reap" /\ wpc' = "close" /\ child' = "reaped" /\ status' \in {"ok", "bad"}
        /\ UNCHANGED <<process, unheard>>
    BY <1>9 DEF EmbedReaps
  <2>4. ChildTypes' /\ WorkerIsEmbedded' /\ ChildTells'
    BY <2>3 DEF ChildTypes, WorkerIsEmbedded, ChildTells, EmbeddedPC, ChildPC, LiveChild
  <2> QED
    BY <2>1, <2>2, <2>3, <2>4, <1>q, <1>r DEF WorkerEffects
<1>10. CASE EmbedCloses
  <2>1. WorkerEffects /\ Push("CLOSE") /\ "CLOSE" \in StreamCode
    BY <1>10 DEF EmbedCloses, WorkerEffects, Waiting, WorkerPC, State, histVars, StreamCode
  <2>2. IndInv'
    BY <2>1, PushingStepInv
  <2>3. /\ wpc = "close" /\ wpc' \in {"quit", "finished"}
        /\ UNCHANGED <<process, child, status, unheard>>
    BY <1>10 DEF EmbedCloses, childVars
  <2>4. ChildTypes' /\ WorkerIsEmbedded' /\ ChildTells'
    BY <2>3 DEF ChildTypes, WorkerIsEmbedded, ChildTells, EmbeddedPC, ChildPC
  <2> QED
    BY <1>10, <2>1, <2>2, <2>3, <2>4, <1>p, <1>r DEF EmbedCloses
<1>11. CASE (WorkerQuits \/ WorkerEnd) /\ UNCHANGED childVars
  BY <1>11, SharedEndKeeps
<1> QED
  BY <1>1, <1>2, <1>3, <1>4, <1>5, <1>6, <1>7, <1>8, <1>9, <1>10, <1>11 DEF EmbedWorkerStep

-----------------------------------------------------------------------------
(* The child, and the theorems.                                            *)

LEMMA RestUnchanged ==
    ASSUME EmbedInv, UNCHANGED vars, ChildTypes', child' \in LiveChild <=> child \in LiveChild,
           process' = process
    PROVE  EmbedInv'
<1>1. IndInv'
  BY NextIndInv DEF EmbedInv
<1>2. UNCHANGED <<wpc, queue, uiOpen, mpc, inFilter>>
  BY DEF vars, mainVars, mainRest, uiVars
<1>3. UIIsOwedBack'
  BY <1>2 DEF EmbedInv, UIIsOwedBack, InLoop, Has
<1> QED
  BY <1>1, <1>2, <1>3 DEF EmbedInv, ChildTells, WorkerIsEmbedded

LEMMA NextEmbedInv == EmbedInv /\ [EmbedNext]_evars => EmbedInv'
<1> SUFFICES ASSUME EmbedInv, [EmbedNext]_evars PROVE EmbedInv'
  OBVIOUS
<1>1. CASE (MainInput \/ MainStep) /\ Signal
  BY <1>1, MainKeepsEmbed
<1>2. CASE EmbedWorkerStep
  BY <1>2, EmbedWorkerKeeps
<1>3. CASE ChildEnds
  <2>1. UNCHANGED vars /\ process' = process /\ child' = "ended" /\ child \in LiveChild
    BY <1>3 DEF ChildEnds, LiveChild
  <2>2. ChildTypes'
    BY <1>3 DEF ChildEnds, EmbedInv, ChildTypes
  <2> QED
    BY <2>1, <2>2, RestUnchanged DEF LiveChild
<1>4. CASE UNCHANGED evars
  <2>1. UNCHANGED vars /\ UNCHANGED <<process, child, status, unheard>>
    BY <1>4 DEF evars, childVars
  <2>2. ChildTypes'
    BY <2>1 DEF EmbedInv, ChildTypes
  <2> QED
    BY <2>1, <2>2, RestUnchanged
<1> QED
  BY <1>1, <1>2, <1>3, <1>4 DEF EmbedNext, EmbedStopped

(* The inductive invariant holds in every behaviour of an embedded session; with it all   *)
(* that IndInv says of the event queue.                                                   *)
THEOREM EmbedInvariance == EmbedSpec => []EmbedInv
BY InitEmbedInv, NextEmbedInv, PTL DEF EmbedSpec

(* session_worker_embedded spawns no child that outlives its session, the interrupt never *)
(* signals a process that was waited for, and the user interface that was closed for the  *)
(* child is there again when the session is gone, whatever the child's end was.           *)
THEOREM EmbeddedLeaveNothing == EmbedSpec => []EmbedLeavesNothing
<1>1. ASSUME EmbedInv PROVE ChildIsOurs
  <2>1. EmbedTypeOK
    BY <1>1 DEF EmbedInv, IndInv, ChildTypes, EmbedTypeOK
  <2>2. process => child \in {"running", "signalled", "ended"}
    BY <1>1 DEF EmbedInv, ChildTells, ChildPC, LiveChild
  <2>3. session = NoSession => child \in {"none", "reaped"}
    <3> SUFFICES ASSUME session = NoSession PROVE child \in {"none", "reaped"}
      OBVIOUS
    <3>1. wpc = "none"
      BY <1>1 DEF EmbedInv, IndInv, Shape, WorkerHasSession
    <3> QED
      BY <1>1, <3>1 DEF EmbedInv, ChildTells, ChildTypes, ChildPC, LiveChild
  <2> QED
    BY <2>1, <2>2, <2>3 DEF ChildIsOurs
<1>2. ASSUME EmbedInv PROVE EmbedUIComesBack
  <2> SUFFICES ASSUME mpc = "loop", session = NoSession PROVE uiOpen
    BY DEF EmbedUIComesBack
  <2>1. wpc = "none" /\ ~drained
    BY <1>2 DEF EmbedInv, IndInv, Shape, WorkerHasSession, MainPhases
  <2>2. ~Has("CLOSE")
    BY <1>2, <2>1 DEF EmbedInv, IndInv, Shape, StreamEventsMeetTheirSession, StreamCode, Has
  <2> QED
    BY <1>2, <2>1, <2>2 DEF EmbedInv, UIIsOwedBack, InLoop
<1> QED
  BY <1>1, <1>2, EmbedInvariance, PTL DEF EmbedLeavesNothing

LEMMA OwnStepWaits ==
    ASSUME IndInv, WaitInv,
           \/ EmbedBegins \/ EmbedSpawns \/ EmbedSpawnFails \/ UiTests \/ UiPushes
           \/ EmbedAttaches \/ EmbedReads \/ EmbedDetaches \/ EmbedReaps \/ EmbedCloses
    PROVE  WaitInv'
<1>1. CASE \/ EmbedBegins \/ EmbedSpawns \/ EmbedSpawnFails \/ EmbedAttaches
           \/ EmbedReads \/ EmbedDetaches \/ EmbedReaps \/ EmbedCloses
  <2>1. /\ wpc' \notin Waiting \cup Posting
        /\ UNCHANGED <<mpc, crashed, interrupted, mouse>>
    BY <1>1 DEF EmbedBegins, EmbedSpawns, EmbedSpawnFails, EmbedAttaches, EmbedReads,
       EmbedDetaches, EmbedReaps, EmbedCloses, GoWorker, Waiting, Posting, workerRest, mainRest
  <2> QED
    BY <2>1, WorkerGoesOn
<1>2. CASE UiTests
  BY <1>2, TestWaits DEF UiTests, Waiting, Posting
<1>3. CASE UiPushes
  BY <1>3, PushWaits DEF UiPushes, Waiting, Posting, SyncCode
<1> QED
  BY <1>1, <1>2, <1>3

LEMMA EmbedNextWaits == IndInv /\ WaitInv /\ [EmbedNext]_evars => WaitInv'
<1> SUFFICES ASSUME IndInv, WaitInv, [EmbedNext]_evars PROVE WaitInv'
  OBVIOUS
<1>1. CASE EmbedWorkerStep
  BY <1>1, OwnStepWaits, WorkerEndWaits DEF EmbedWorkerStep
<1>2. CASE ChildEnds \/ EmbedStopped \/ UNCHANGED evars
  <2>1. UNCHANGED <<wpc, race, drained, queue, interrupted, mouse, crashed, mpc>>
    BY <1>2 DEF ChildEnds, EmbedStopped, evars, vars, mainVars, mainRest, sessVars, histVars
  <2> QED
    BY <2>1, ToldKept, WaitsKept DEF Has
<1> QED
  BY <1>1, <1>2, InputWaits, MainStepWaits DEF EmbedNext

(* In an embedded session too the main thread handles stream events of a session that     *)
(* lives only, never joins a worker that still wants to push, and leaves none waiting for  *)
(* UI_CLOSE or the update of the host, but where the post loses its race with the drain.   *)
THEOREM EmbeddedEventsInOrder == EmbedSpec => []EventsComeInTime
<1>1. EmbedInit => WaitInv
  BY InitWaitInv DEF EmbedInit
<1>2. EmbedInv => IndInv
  BY DEF EmbedInv
<1>3. EmbedInv /\ WaitInv => EventsComeInTime
  <2> SUFFICES ASSUME EmbedInv, WaitInv PROVE EventsComeInTime
    OBVIOUS
  <2>1. StreamEventsMeetTheirSession /\ FilterJoinsNoPusher
    BY DEF EmbedInv, IndInv, Shape, MainPhases, JoinAfterWorker, FilterJoinsNoPusher
  <2>2. WaitsAreAnswered
    BY <1>2, WaitInvAnswers
  <2> QED
    BY <2>1, <2>2 DEF EventsComeInTime
<1> QED
  BY <1>1, <1>2, <1>3, EmbedNextWaits, EmbedInvariance, PTL DEF EmbedSpec

-----------------------------------------------------------------------------
(* The order of the stream events, with the worker of the embedded shell.   *)

LEMMA OwnStepKeepsProtocol ==
    ASSUME EmbedInv, Due, ErrorIsLate,
           \/ EmbedBegins \/ EmbedSpawns \/ EmbedSpawnFails \/ UiTests \/ UiPushes
           \/ EmbedAttaches \/ EmbedReads \/ EmbedDetaches \/ EmbedReaps \/ EmbedCloses
    PROVE  Due' /\ ProtocolStep /\ ErrorIsLate'
<1>0. IndInv
  BY DEF EmbedInv
<1> USE DEF BeforeOpen, BeforeUiClose, Streaming, EmbedPC, LastPC
<1>1. CASE UiTests \/ EmbedAttaches \/ EmbedReads \/ EmbedDetaches \/ EmbedReaps
  <2>1. /\ \/ wpc = "ui" /\ wpc' \in {"ui_push", "attach"}
           \/ wpc = "attach" /\ wpc' = "read"
           \/ wpc = "read" /\ wpc' = "detach"
           \/ wpc = "detach" /\ wpc' = "reap"
           \/ wpc = "reap" /\ wpc' = "close"
        /\ UNCHANGED <<queue, workerRest, state>>
    BY <1>1 DEF UiTests, PostSyncTests, EmbedAttaches, EmbedReads, EmbedDetaches, EmbedReaps,
       GoWorker, AtWorker
  <2>2. Said' = Said
    BY <2>1 DEF Said
  <2>3. ErrorIsLate'
    BY <2>1 DEF ErrorIsLate
  <2> QED
    BY <2>1, <2>2, <2>3, WorkerSilent
<1>2. CASE UiPushes
  <2>1. /\ Push("UI_CLOSE") /\ wpc = "ui_push" /\ wpc' = "ui_wait"
        /\ UNCHANGED <<workerRest, state>>
    BY <1>2 DEF UiPushes, PostSyncPushes, GoWorker, AtWorker
  <2>2. "UI_CLOSE" \in EventCode /\ "UI_CLOSE" \notin StreamCode
    BY DEF EventCode, StreamCode, ActionCode
  <2>3. Said' = Said
    BY <2>1 DEF Said
  <2>4. ErrorIsLate'
    BY <2>1 DEF ErrorIsLate
  <2> QED
    BY <1>0, <2>1, <2>2, <2>3, <2>4, WorkerSays
<1>3. CASE EmbedBegins \/ EmbedSpawns \/ EmbedCloses \/ EmbedSpawnFails
  <2>1. PICK code \in StreamCode :
        /\ Push(code)
        /\ code = "CONNECTING" => wpc = "begin" /\ wpc' = "spawn"
        /\ code = "OPEN" => wpc = "spawn" /\ wpc' = "ui"
        /\ code = "CLOSE" => wpc = "close" /\ wpc' \in {"quit", "finished"}
        /\ code = "FINISHED" => wpc = "spawn" /\ wpc' = "done"
        /\ state' = "ERROR" <=> code = "FINISHED"
        /\ UNCHANGED workerRest
    BY <1>3 DEF EmbedBegins, EmbedSpawns, EmbedCloses, EmbedSpawnFails, GoWorker, AtWorker,
       StreamCode
  <2>2. code \in EventCode /\ wpc # "none" /\ state # "ERROR"
    BY <2>1 DEF EventCode, StreamCode, ErrorIsLate
  <2>3. code \notin Said /\ Said' = Said \cup {code}
    BY <2>1, <2>2 DEF Said, StreamCode
  <2>4. \A c \in Said : Rank[c] < Rank[code]
    <3>1. /\ "FINISHED" \notin Said
          /\ code = "CONNECTING" => Said = {}
          /\ code = "OPEN" => "CLOSE" \notin Said
      BY <2>1 DEF Said, StreamCode
    <3> QED
      BY <2>1, <2>3, <3>1, RankIs, SaidIs DEF StreamCode
  <2>5. ErrorIsLate'
    BY <2>1 DEF ErrorIsLate
  <2> QED
    BY <1>0, <2>1, <2>2, <2>3, <2>4, <2>5, WorkerSays
<1> QED
  BY <1>1, <1>2, <1>3

LEMMA EmbedNextKeepsProtocol ==
    ASSUME EmbedInv, Due, ErrorIsLate, [EmbedNext]_evars
    PROVE  Due' /\ ProtocolStep /\ ErrorIsLate'
<1>0. IndInv
  BY DEF EmbedInv
<1>1. CASE MainInput \/ MainStep
  <2>1. WaiterIsOurs
    BY EmbeddedAssumption DEF EmbedInv, WorkerIsEmbedded, EmbeddedPC, ChildPC, WaiterIsOurs
  <2>2. state' = IF SessionBegin THEN "NONE" ELSE state
    BY <1>1 DEF MainInput, SessionBegin, SessionBeginRefused, UserLeaves, AppToBackground,
       InputAsksOverlay, AppRequestExit, MainStep, FragmentDeleted, HandleEvent, OnConnecting,
       OnOpen, OnClose, OnFinished, OnOverlay, OnUiClose, OnUpsert, OnDestroy, Join, JoinMouse,
       JoinWorker, Leave, LeaveLoop, DrainDrops, DrainEnds, Deinit, sessVars
  <2>3. SessionBegin => wpc = "none" /\ wpc' = "begin"
    BY <1>0 DEF SessionBegin, IndInv, Shape, WorkerHasSession
  <2>4. wpc' = "begin" => SessionBegin \/ wpc' = wpc
    BY <1>1 DEF MainInput, SessionBeginRefused, UserLeaves, AppToBackground, InputAsksOverlay,
       AppRequestExit, MainStep, FragmentDeleted, HandleEvent, OnConnecting, OnOpen, OnClose,
       OnFinished, OnOverlay, OnUiClose, OnUpsert, OnDestroy, Join, JoinMouse, JoinWorker,
       Leave, LeaveLoop, DrainDrops, DrainEnds, Deinit
  <2>5. ErrorIsLate'
    BY <1>1, <2>2, <2>3, <2>4, MainMovesWorker DEF ErrorIsLate
  <2> QED
    BY <1>0, <1>1, <2>1, <2>5, MainKeepsProtocol
<1>2. CASE EmbedWorkerStep
  BY <1>0, <1>2, OwnStepKeepsProtocol, WorkerEndKeepsProtocol DEF EmbedWorkerStep
<1>3. CASE ChildEnds \/ EmbedStopped \/ UNCHANGED evars
  <2>1. UNCHANGED <<queue, mpc, inFilter, held, seen, session, state, wpc>>
    BY <1>3 DEF ChildEnds, EmbedStopped, evars, vars, mainVars, mainRest, uiVars, sessVars
  <2>2. Said' = Said /\ (InLoop' <=> InLoop) /\ ErrorIsLate'
    BY <2>1 DEF Said, InLoop, ErrorIsLate
  <2> QED
    BY <2>1, <2>2, DueKept, NoProtocolStep
<1> QED
  BY <1>1, <1>2, <1>3 DEF EmbedNext

\* The embedded session implements SessionProtocol too: whether the child ends well,
\* badly, on SIGINT or was never spawned, the user interface sees the same order of
\* stream events, and what OPEN takes is given back by CLOSE.
THEOREM EmbeddedImplementsProtocol == EmbedSpec => KeepsProtocol
<1>1. EmbedInit => Due /\ ErrorIsLate /\ Protocol!PInit
  BY InitDue DEF EmbedInit, Init, ErrorIsLate
<1>2. EmbedInv /\ Due /\ ErrorIsLate /\ [EmbedNext]_evars => (Due /\ ErrorIsLate)'
  BY EmbedNextKeepsProtocol
<1>3. EmbedInv /\ Due /\ ErrorIsLate /\ [EmbedNext]_evars
      => [seen # "left" /\ Protocol!PNext]_(Protocol!pvars)
  BY EmbedNextKeepsProtocol DEF ProtocolStep
<1> QED
  BY <1>1, <1>2, <1>3, EmbedInvariance, PTL DEF EmbedSpec, KeepsProtocol, Protocol!PSpec

=============================================================================
