---------------------------- MODULE SessionProofs ----------------------------
(***************************************************************************)
(* Theorems about module Session, for every number of sessions and every   *)
(* configuration. One inductive invariant, IndInv, carries all of them: it *)
(* says where the worker is when a request of its is on the event queue,   *)
(* and that nothing but overlay commands follows a DESTROY action.         *)
(***************************************************************************)
EXTENDS Session, TLAPS

Joining == mpc \in {"join_mouse", "join_worker"}
SyncCode == {"UI_CLOSE", "UPSERT"}

\* The worker exists exactly as long as the session.
WorkerHasSession == (wpc = "none") <=> (session = NoSession)

\* The main thread only takes events before app_bus_drain has returned, and the
\* filter only blocks in a join.
MainPhases ==
    /\ drained => mpc \in {"join_mouse", "join_worker", "deinit", "exited"}
    /\ mpc \in {"deinit", "exited"} => drained
    /\ inFilter => Joining /\ ~drained

\* A request on the queue is the one its worker is waiting for.
RequestsAwaited ==
    ~drained => \A i \in DOMAIN queue :
        /\ queue[i].code = "UI_CLOSE" => wpc \in {"setup_wait", "ui_wait"}
        /\ queue[i].code = "UPSERT" => wpc = "update_wait"

OneRequest ==
    ~drained => \A i, j \in DOMAIN queue :
        queue[i].code \in SyncCode /\ queue[j].code \in SyncCode => i = j

\* DESTROY is the worker's last word.
DestroyComesLast ==
    ~drained => \A i \in DOMAIN queue : queue[i].code = "DESTROY" =>
        /\ wpc = "done"
        /\ \A j \in DOMAIN queue : j > i => queue[j].code = "OVERLAY"

\* While the main thread destroys a session on the worker's request, the worker
\* is through and the queue holds nothing of the session's any more.
JoinAfterWorker ==
    (Joining /\ ~drained) =>
        /\ wpc = "done"
        /\ \A i \in DOMAIN queue : queue[i].code = "OVERLAY"

Shape ==
    /\ WorkerHasSession
    /\ MainPhases
    /\ StreamEventsMeetTheirSession
    /\ RequestsAwaited
    /\ OneRequest
    /\ DestroyComesLast
    /\ JoinAfterWorker

IndInv ==
    /\ TypeOK
    /\ Shape

-----------------------------------------------------------------------------
(* Sequences: what Append and Tail do to the events of a queue.            *)

LEMMA SessionBound == MaxSessions \in Nat
BY SessionAssumption

LEMMA AppendEvent ==
    ASSUME NEW q \in Seq(Event), NEW e \in Event
    PROVE  /\ Append(q, e) \in Seq(Event)
           /\ DOMAIN q = 1..Len(q)
           /\ Len(q) \in Nat
           /\ DOMAIN Append(q, e) = 1..(Len(q) + 1)
           /\ \A i \in DOMAIN q : Append(q, e)[i] = q[i]
           /\ Append(q, e)[Len(q) + 1] = e
OBVIOUS

LEMMA TailEvent ==
    ASSUME NEW q \in Seq(Event), q # <<>>
    PROVE  /\ Tail(q) \in Seq(Event)
           /\ DOMAIN q = 1..Len(q)
           /\ Len(q) \in Nat
           /\ Head(q) = q[1] /\ 1 \in DOMAIN q
           /\ DOMAIN Tail(q) = 1..(Len(q) - 1)
           /\ \A i \in DOMAIN Tail(q) : Tail(q)[i] = q[i + 1] /\ i + 1 \in DOMAIN q
OBVIOUS

LEMMA InitIndInv == Init => IndInv
<1> SUFFICES ASSUME Init PROVE IndInv
  OBVIOUS
<1>1. queue = <<>> /\ queue \in Seq(Event) /\ DOMAIN queue = {}
  BY DEF Init
<1>2. TypeOK
  <2>1. created \in 0..MaxSessions
    BY SessionBound DEF Init
  <2>2. callback \in [at : {"idle", "fired", "error", "interrupt", "gone"},
                     of : SessionId \cup {NoSession},
                     kind : {"none", "host", "network"}]
    BY DEF Init, NoCallback
  <2> QED
    BY <1>1, <2>1, <2>2 DEF Init, TypeOK, MainTypes, UITypes, SessionTypes,
       ThreadTypes, LimelightTypes, HistoryTypes, WorkerPC, MainPC
<1>3. Shape
  BY <1>1 DEF Init, Shape, WorkerHasSession, MainPhases, Joining,
     StreamEventsMeetTheirSession, RequestsAwaited, OneRequest, DestroyComesLast,
     JoinAfterWorker
<1> QED
  BY <1>2, <1>3 DEF IndInv

-----------------------------------------------------------------------------
(* The ways a step can change what Shape speaks of.                        *)

\* The variables of Shape
shapeVars == <<queue, wpc, session, mpc, inFilter, drained>>

Waiting == {"setup_wait", "ui_wait", "update_wait"}

LEMMA ShapeUnchanged ==
    ASSUME Shape, UNCHANGED shapeVars
    PROVE  Shape'
BY DEF Shape, shapeVars, WorkerHasSession, MainPhases, Joining,
   StreamEventsMeetTheirSession, RequestsAwaited, OneRequest, DestroyComesLast,
   JoinAfterWorker

\* The worker goes on without the queue, from a place where nothing is due.
LEMMA WorkerMoves ==
    ASSUME Shape,
           wpc \notin Waiting \cup {"none", "done"}, wpc' # "none",
           UNCHANGED <<queue, session, mpc, inFilter, drained>>
    PROVE  Shape'
BY DEF Shape, Waiting, WorkerHasSession, MainPhases, Joining,
   StreamEventsMeetTheirSession, RequestsAwaited, OneRequest, DestroyComesLast,
   JoinAfterWorker

\* The worker pushes an event of its session.
LEMMA WorkerPushes ==
    ASSUME TypeOK, Shape, NEW code \in EventCode, Push(code),
           wpc \notin Waiting \cup {"none", "done"}, wpc' # "none",
           code = "UI_CLOSE" => wpc' \in {"setup_wait", "ui_wait"},
           code = "UPSERT" => wpc' = "update_wait",
           code = "DESTROY" => wpc' = "done",
           UNCHANGED <<session, mpc, inFilter, drained>>
    PROVE  Shape' /\ queue' \in Seq(Event)
<1> DEFINE e == [code |-> code, of |-> session]
<1>1. e \in Event /\ session # NoSession /\ queue \in Seq(Event)
  BY DEF TypeOK, MainTypes, Shape, WorkerHasSession, SessionTypes, Event
<1>2. queue' = Append(queue, e)
  BY DEF Push
<1>3. queue' \in Seq(Event)
  BY <1>1, <1>2, AppendEvent
<1>4. /\ DOMAIN queue = 1..Len(queue) /\ Len(queue) \in Nat
      /\ DOMAIN queue' = 1..(Len(queue) + 1)
      /\ \A i \in DOMAIN queue : queue'[i] = queue[i]
      /\ queue'[Len(queue) + 1].code = code /\ queue'[Len(queue) + 1].of = session
  BY <1>1, <1>2, AppendEvent
<1> HIDE DEF e
<1>5. WorkerHasSession' /\ MainPhases'
  BY DEF Shape, WorkerHasSession, MainPhases, Joining
<1>6. StreamEventsMeetTheirSession'
  BY <1>1, <1>4 DEF Shape, StreamEventsMeetTheirSession
<1>7. RequestsAwaited'
  BY <1>4 DEF Shape, RequestsAwaited, Waiting
<1>8. OneRequest'
  BY <1>4 DEF Shape, OneRequest, RequestsAwaited, Waiting, SyncCode
<1>9. DestroyComesLast'
  BY <1>4 DEF Shape, DestroyComesLast
<1>10. JoinAfterWorker'
  BY DEF Shape, JoinAfterWorker, Joining
<1> QED
  BY <1>3, <1>5, <1>6, <1>7, <1>8, <1>9, <1>10 DEF Shape

\* The main thread takes the first event and nothing else of Shape changes.
LEMMA MainTakes ==
    ASSUME TypeOK, Shape, queue # <<>>, queue' = Tail(queue),
           UNCHANGED <<wpc, session, mpc, inFilter, drained>>
    PROVE  Shape' /\ queue' \in Seq(Event)
<1>1. /\ queue' \in Seq(Event)
      /\ DOMAIN queue = 1..Len(queue) /\ Len(queue) \in Nat
      /\ DOMAIN queue' = 1..(Len(queue) - 1)
      /\ \A i \in DOMAIN queue' : queue'[i] = queue[i + 1] /\ i + 1 \in DOMAIN queue
  BY TailEvent DEF TypeOK, MainTypes
<1>2. WorkerHasSession' /\ MainPhases'
  BY DEF Shape, WorkerHasSession, MainPhases, Joining
<1>3. StreamEventsMeetTheirSession' /\ RequestsAwaited' /\ JoinAfterWorker'
  BY <1>1 DEF Shape, StreamEventsMeetTheirSession, RequestsAwaited, JoinAfterWorker,
     Joining
<1>4. OneRequest'
  BY <1>1 DEF Shape, OneRequest
<1>5. DestroyComesLast'
  BY <1>1 DEF Shape, DestroyComesLast
<1> QED
  BY <1>1, <1>2, <1>3, <1>4, <1>5 DEF Shape

\* It takes the request its worker waits for, and the worker goes on: there is
\* no other request on the queue.
LEMMA MainServes ==
    ASSUME TypeOK, Shape, RunsActions, NEW code \in SyncCode, Take(code),
           wpc' \notin Waiting \cup {"none", "done"},
           UNCHANGED <<session, mpc, inFilter, drained>>
    PROVE  Shape' /\ queue' \in Seq(Event)
<1>1. /\ queue' \in Seq(Event)
      /\ DOMAIN queue = 1..Len(queue) /\ Len(queue) \in Nat
      /\ 1 \in DOMAIN queue /\ queue[1].code = code
      /\ DOMAIN queue' = 1..(Len(queue) - 1)
      /\ \A i \in DOMAIN queue' : queue'[i] = queue[i + 1] /\ i + 1 \in DOMAIN queue
  BY TailEvent DEF TypeOK, MainTypes, Take
<1>2. ~drained /\ ~Joining
  BY DEF Shape, MainPhases, RunsActions, Joining
<1>3. wpc \in Waiting
  BY <1>1, <1>2 DEF Shape, RequestsAwaited, SyncCode, Waiting
<1>4. WorkerHasSession' /\ MainPhases' /\ JoinAfterWorker'
  BY <1>2, <1>3 DEF Shape, WorkerHasSession, MainPhases, JoinAfterWorker, Joining,
     Waiting
<1>5. StreamEventsMeetTheirSession'
  BY <1>1, <1>2 DEF Shape, StreamEventsMeetTheirSession
<1>6. \A i \in DOMAIN queue' : queue'[i].code \notin SyncCode
  BY <1>1, <1>2 DEF Shape, OneRequest
<1>7. RequestsAwaited' /\ OneRequest'
  BY <1>6 DEF RequestsAwaited, OneRequest, SyncCode
<1>8. DestroyComesLast'
  BY <1>1, <1>2, <1>3 DEF Shape, DestroyComesLast, Waiting
<1> QED
  BY <1>1, <1>4, <1>5, <1>7, <1>8 DEF Shape

\* It takes the worker's last word and begins to join.
LEMMA MainJoins ==
    ASSUME TypeOK, Shape, RunsActions, Take("DESTROY"),
           mpc' = "join_mouse", inFilter' = (mpc = "loop"),
           UNCHANGED <<session, wpc, drained>>
    PROVE  Shape' /\ queue' \in Seq(Event)
<1>1. /\ queue' \in Seq(Event)
      /\ DOMAIN queue = 1..Len(queue) /\ Len(queue) \in Nat
      /\ 1 \in DOMAIN queue /\ queue[1].code = "DESTROY"
      /\ DOMAIN queue' = 1..(Len(queue) - 1)
      /\ \A i \in DOMAIN queue' : queue'[i] = queue[i + 1] /\ i + 1 \in DOMAIN queue
  BY TailEvent DEF TypeOK, MainTypes, Take
<1>2. ~drained
  BY DEF Shape, MainPhases, RunsActions
<1>3. wpc = "done" /\ \A i \in DOMAIN queue' : queue'[i].code = "OVERLAY"
  BY <1>1, <1>2 DEF Shape, DestroyComesLast
<1>4. WorkerHasSession' /\ MainPhases' /\ JoinAfterWorker'
  BY <1>2, <1>3 DEF Shape, WorkerHasSession, MainPhases, JoinAfterWorker, Joining
<1>5. StreamEventsMeetTheirSession'
  BY <1>3 DEF StreamEventsMeetTheirSession, StreamCode
<1>6. RequestsAwaited' /\ OneRequest' /\ DestroyComesLast'
  BY <1>3 DEF RequestsAwaited, OneRequest, DestroyComesLast, SyncCode
<1> QED
  BY <1>1, <1>4, <1>5, <1>6 DEF Shape

\* It puts an overlay command on the queue.
LEMMA MainPushes ==
    ASSUME TypeOK, Shape, session # NoSession,
           queue' = Append(queue, [code |-> "OVERLAY", of |-> session]),
           UNCHANGED <<session, wpc, mpc, inFilter, drained>>
    PROVE  Shape' /\ queue' \in Seq(Event)
<1> DEFINE e == [code |-> "OVERLAY", of |-> session]
<1>1. e \in Event /\ queue \in Seq(Event)
  BY DEF TypeOK, MainTypes, SessionTypes, Event, EventCode
<1>2. /\ queue' \in Seq(Event)
      /\ DOMAIN queue = 1..Len(queue) /\ Len(queue) \in Nat
      /\ DOMAIN queue' = 1..(Len(queue) + 1)
      /\ \A i \in DOMAIN queue : queue'[i] = queue[i]
      /\ queue'[Len(queue) + 1].code = "OVERLAY"
  BY <1>1, AppendEvent
<1>3. WorkerHasSession' /\ MainPhases'
  BY DEF Shape, WorkerHasSession, MainPhases, Joining
<1>4. StreamEventsMeetTheirSession' /\ RequestsAwaited' /\ JoinAfterWorker'
  BY <1>2 DEF Shape, StreamEventsMeetTheirSession, StreamCode, RequestsAwaited,
     JoinAfterWorker, Joining
<1>5. OneRequest'
  BY <1>2 DEF Shape, OneRequest, SyncCode
<1>6. DestroyComesLast'
  BY <1>2 DEF Shape, DestroyComesLast
<1> QED
  BY <1>2, <1>3, <1>4, <1>5, <1>6 DEF Shape

-----------------------------------------------------------------------------
(* Types.                                                                  *)

Errno == {"ok", "launch", "start", "network", "decoder", "embed"}

\* What a step leaves alone keeps its type.
LEMMA TypesUnchanged ==
    ASSUME TypeOK
    PROVE  /\ UNCHANGED mainVars => MainTypes'
           /\ UNCHANGED uiVars => UITypes'
           /\ UNCHANGED sessVars => SessionTypes'
           /\ UNCHANGED <<wpc, mouse>> => ThreadTypes'
           /\ UNCHANGED limeVars => LimelightTypes'
           /\ UNCHANGED <<errno, histVars, crashed>> => HistoryTypes'
<1>1. UNCHANGED mainVars => MainTypes'
  BY DEF TypeOK, MainTypes, mainVars, mainRest
<1>2. UNCHANGED uiVars => UITypes'
  BY DEF TypeOK, UITypes, uiVars
<1>3. UNCHANGED sessVars => SessionTypes'
  BY DEF TypeOK, SessionTypes, sessVars
<1>4. UNCHANGED <<wpc, mouse>> => ThreadTypes'
  BY DEF TypeOK, ThreadTypes
<1>5. UNCHANGED limeVars => LimelightTypes'
  BY DEF TypeOK, LimelightTypes, limeVars
<1>6. UNCHANGED <<errno, histVars, crashed>> => HistoryTypes'
  BY DEF TypeOK, HistoryTypes, histVars
<1> QED
  BY <1>1, <1>2, <1>3, <1>4, <1>5, <1>6

LEMMA InterruptTypes ==
    ASSUME TypeOK, NEW quit \in BOOLEAN, NEW err \in Errno, Interrupt(quit, err),
           UNCHANGED <<session, created, state, quitSent, race>>
    PROVE  /\ SessionTypes' /\ HistoryTypes'
           /\ mouse' \in {"none", "opening", "listening", "stopping", "ended"}
<1>1. /\ interrupted' \in BOOLEAN /\ quitapp' \in BOOLEAN
      /\ mouse' \in {"none", "opening", "listening", "stopping", "ended"}
      /\ errno' \in Errno
      /\ failed' \in BOOLEAN /\ crashed' \in BOOLEAN
  <2>1. /\ interrupted \in BOOLEAN /\ quitapp \in BOOLEAN
        /\ mouse \in {"none", "opening", "listening", "stopping", "ended"}
        /\ errno \in Errno /\ failed \in BOOLEAN /\ crashed \in BOOLEAN
    BY DEF TypeOK, SessionTypes, ThreadTypes, HistoryTypes, Errno
  <2>2. CASE UNCHANGED <<interrupted, quitapp, mouse, errno, failed>>
    BY <2>1, <2>2 DEF Interrupt
  <2>3. CASE /\ mouse' = IF HasMouse THEN "stopping" ELSE mouse
             /\ quitapp' = quit /\ interrupted' = TRUE
             /\ errno' = IF err = "ok" THEN errno ELSE err
             /\ failed' = (failed \/ err # "ok") /\ UNCHANGED crashed
    BY <2>1, <2>3
  <2> QED
    BY <2>2, <2>3 DEF Interrupt
<1>2. SessionTypes'
  BY <1>1 DEF TypeOK, SessionTypes
<1>3. HistoryTypes'
  BY <1>1 DEF TypeOK, HistoryTypes, Errno
<1> QED
  BY <1>1, <1>2, <1>3

\* What the user and the system make the main thread do
LEMMA MainInputInv ==
    ASSUME IndInv, MainInput
    PROVE  IndInv'
<1>0. TypeOK /\ Shape
  BY DEF IndInv
<1>1. CASE SessionBegin
  <2>1. /\ session = NoSession /\ wpc = "none" /\ mpc = "loop" /\ ~drained
        /\ wpc' = "begin" /\ session' = created + 1 /\ queue' = queue
        /\ UNCHANGED <<mpc, inFilter, drained>>
    BY <1>0, <1>1 DEF SessionBegin, AtMain, Shape, WorkerHasSession, MainPhases,
       mainVars, mainRest
  <2>2. created' \in 0..MaxSessions /\ session' \in SessionId
    BY <1>0, <1>1, SessionBound DEF SessionBegin, SessionId, TypeOK, SessionTypes
  <2>3. MainTypes' /\ LimelightTypes'
    BY <1>0, <1>1, TypesUnchanged DEF SessionBegin
  <2>4. UITypes'
    BY <1>0, <1>1 DEF SessionBegin, TypeOK, UITypes
  <2>5. SessionTypes'
    BY <1>1, <2>2 DEF SessionBegin, SessionTypes
  <2>6. ThreadTypes'
    BY <1>1 DEF SessionBegin, ThreadTypes, WorkerPC
  <2>7. HistoryTypes'
    BY <1>0, <1>1 DEF SessionBegin, TypeOK, HistoryTypes
  <2>8. WorkerHasSession' /\ MainPhases' /\ JoinAfterWorker'
    BY <1>0, <2>1, <2>2, SessionBound DEF Shape, WorkerHasSession, MainPhases,
       JoinAfterWorker, Joining, SessionId, NoSession
  <2>9. StreamEventsMeetTheirSession'
    BY <1>0, <2>1 DEF Shape, StreamEventsMeetTheirSession
  <2>10. RequestsAwaited' /\ OneRequest' /\ DestroyComesLast'
    BY <1>0, <2>1 DEF Shape, RequestsAwaited, OneRequest, DestroyComesLast
  <2> QED
    BY <2>3, <2>4, <2>5, <2>6, <2>7, <2>8, <2>9, <2>10 DEF IndInv, TypeOK, Shape
<1>2. CASE SessionBeginRefused
  <2>1. Shape'
    BY <1>0, <1>2, ShapeUnchanged DEF SessionBeginRefused, shapeVars, mainVars,
       mainRest, sessVars
  <2>2. UITypes'
    BY <1>0, <1>2 DEF SessionBeginRefused, TypeOK, UITypes
  <2> QED
    BY <1>0, <1>2, <2>1, <2>2, TypesUnchanged DEF SessionBeginRefused, IndInv, TypeOK
<1>3. ASSUME NEW quit \in BOOLEAN, UserLeaves(quit) PROVE IndInv'
  <2>1. Shape'
    BY <1>0, <1>3, ShapeUnchanged DEF UserLeaves, shapeVars, mainVars, mainRest
  <2>2. SessionTypes' /\ HistoryTypes' /\ ThreadTypes'
    BY <1>0, <1>3, InterruptTypes DEF UserLeaves, Errno, TypeOK, ThreadTypes
  <2> QED
    BY <1>0, <1>3, <2>1, <2>2, TypesUnchanged DEF UserLeaves, IndInv, TypeOK
<1>4. CASE AppToBackground
  <2>1. Shape'
    BY <1>0, <1>4, ShapeUnchanged DEF AppToBackground, shapeVars, mainVars, mainRest
  <2>2. SessionTypes' /\ HistoryTypes' /\ ThreadTypes'
    BY <1>0, <1>4, InterruptTypes DEF AppToBackground, Errno, TypeOK, ThreadTypes
  <2> QED
    BY <1>0, <1>4, <2>1, <2>2, TypesUnchanged DEF AppToBackground, IndInv, TypeOK
<1>5. CASE InputAsksOverlay
  <2>1. Shape' /\ queue' \in Seq(Event)
    BY <1>0, <1>5, MainPushes DEF InputAsksOverlay, mainRest, sessVars
  <2>2. MainTypes'
    BY <1>0, <1>5, <2>1 DEF InputAsksOverlay, mainRest, TypeOK, MainTypes
  <2> QED
    BY <1>0, <1>5, <2>1, <2>2, TypesUnchanged DEF InputAsksOverlay, IndInv, TypeOK
<1>6. CASE AppRequestExit
  <2>1. Shape'
    BY <1>0, <1>6, ShapeUnchanged DEF AppRequestExit, shapeVars, sessVars
  <2>2. MainTypes'
    BY <1>0, <1>6 DEF AppRequestExit, TypeOK, MainTypes
  <2> QED
    BY <1>0, <1>6, <2>1, <2>2, TypesUnchanged DEF AppRequestExit, IndInv, TypeOK
<1> QED
  BY <1>1, <1>2, <1>3, <1>4, <1>5, <1>6 DEF MainInput

\* The handlers of app_event_filter
LEMMA HandleEventInv ==
    ASSUME IndInv, HandleEvent
    PROVE  IndInv'
<1>0. TypeOK /\ Shape
  BY DEF IndInv
<1>1. CASE OnConnecting
  <2>1. Shape' /\ queue' \in Seq(Event)
    BY <1>0, <1>1, MainTakes DEF OnConnecting, Take, mainRest, sessVars
  <2>2. UITypes'
    BY <1>0, <1>1 DEF OnConnecting, TypeOK, UITypes, StreamCode
  <2>3. MainTypes'
    BY <1>0, <1>1, <2>1 DEF OnConnecting, mainRest, TypeOK, MainTypes
  <2> QED
    BY <1>0, <1>1, <2>1, <2>2, <2>3, TypesUnchanged DEF OnConnecting, IndInv, TypeOK
<1>2. CASE OnOpen
  <2>1. Shape' /\ queue' \in Seq(Event)
    BY <1>0, <1>2, MainTakes DEF OnOpen, Take, mainRest, sessVars
  <2>2. UITypes'
    BY <1>0, <1>2 DEF OnOpen, TypeOK, UITypes, Resource, StreamCode
  <2>3. MainTypes'
    BY <1>0, <1>2, <2>1 DEF OnOpen, mainRest, TypeOK, MainTypes
  <2> QED
    BY <1>0, <1>2, <2>1, <2>2, <2>3, TypesUnchanged DEF OnOpen, IndInv, TypeOK
<1>3. CASE OnClose
  <2>1. Shape' /\ queue' \in Seq(Event)
    BY <1>0, <1>3, MainTakes DEF OnClose, Take, mainRest, sessVars
  <2>2. UITypes'
    BY <1>0, <1>3 DEF OnClose, TypeOK, UITypes, Resource, StreamCode
  <2>3. MainTypes'
    BY <1>0, <1>3, <2>1 DEF OnClose, mainRest, TypeOK, MainTypes
  <2> QED
    BY <1>0, <1>3, <2>1, <2>2, <2>3, TypesUnchanged DEF OnClose, IndInv, TypeOK
<1>4. CASE OnFinished
  <2>1. Shape' /\ queue' \in Seq(Event)
    BY <1>0, <1>4, MainTakes DEF OnFinished, Take, mainRest, sessVars
  <2>2. UITypes'
    BY <1>0, <1>4 DEF OnFinished, TypeOK, UITypes, Resource, StreamCode
  <2>3. MainTypes'
    BY <1>0, <1>4, <2>1 DEF OnFinished, mainRest, TypeOK, MainTypes
  <2> QED
    BY <1>0, <1>4, <2>1, <2>2, <2>3, TypesUnchanged DEF OnFinished, IndInv, TypeOK
<1>5. CASE OnOverlay
  <2>1. Shape' /\ queue' \in Seq(Event)
    BY <1>0, <1>5, MainTakes DEF OnOverlay, Take, mainRest
  <2>2. MainTypes'
    BY <1>0, <1>5, <2>1 DEF OnOverlay, mainRest, TypeOK, MainTypes
  <2>3. SessionTypes' /\ HistoryTypes' /\ ThreadTypes'
    <3>1. CASE ~uiOpen /\ session # NoSession
      BY <1>0, <1>5, <3>1, InterruptTypes DEF OnOverlay, Errno, TypeOK, ThreadTypes
    <3>2. CASE ~(~uiOpen /\ session # NoSession)
      BY <1>0, <1>5, <3>2, TypesUnchanged DEF OnOverlay, sessVars, histVars
    <3> QED
      BY <3>1, <3>2
  <2> QED
    BY <1>0, <1>5, <2>1, <2>2, <2>3, TypesUnchanged DEF OnOverlay, IndInv, TypeOK
<1>6. CASE OnUiClose
  <2>1. wpc' = "attach" \/ wpc' = "connect"
    BY <1>6 DEF OnUiClose
  <2>2. Shape' /\ queue' \in Seq(Event)
    BY <1>0, <1>6, <2>1, MainServes DEF OnUiClose, SyncCode, Waiting, mainRest, sessVars
  <2>3. MainTypes'
    BY <1>0, <1>6, <2>2 DEF OnUiClose, mainRest, TypeOK, MainTypes
  <2>4. UITypes'
    BY <1>0, <1>6 DEF OnUiClose, TypeOK, UITypes
  <2>5. ThreadTypes'
    BY <1>0, <1>6, <2>1 DEF OnUiClose, TypeOK, ThreadTypes, WorkerPC
  <2> QED
    BY <1>0, <1>6, <2>2, <2>3, <2>4, <2>5, TypesUnchanged DEF OnUiClose, IndInv, TypeOK
<1>7. CASE OnUpsert
  <2>1. Shape' /\ queue' \in Seq(Event)
    BY <1>0, <1>7, MainServes DEF OnUpsert, SyncCode, Waiting, mainRest, sessVars
  <2>2. MainTypes'
    BY <1>0, <1>7, <2>1 DEF OnUpsert, mainRest, TypeOK, MainTypes
  <2>3. ThreadTypes'
    BY <1>0, <1>7 DEF OnUpsert, TypeOK, ThreadTypes, WorkerPC
  <2> QED
    BY <1>0, <1>7, <2>1, <2>2, <2>3, TypesUnchanged DEF OnUpsert, IndInv, TypeOK
<1>8. CASE OnDestroy
  <2>1. session # NoSession
    <3>1. queue \in Seq(Event) /\ queue # <<>> /\ queue[1].code = "DESTROY" /\ ~drained
      BY <1>0, <1>8 DEF OnDestroy, Take, TypeOK, MainTypes, Shape, MainPhases, RunsActions
    <3>2. 1 \in DOMAIN queue
      BY <3>1, TailEvent
    <3> QED
      BY <1>0, <3>1, <3>2 DEF Shape, DestroyComesLast, WorkerHasSession
  <2>2. Shape' /\ queue' \in Seq(Event)
    BY <1>0, <1>8, <2>1, MainJoins DEF OnDestroy
  <2>3. MainTypes'
    BY <1>0, <1>8, <2>1, <2>2 DEF OnDestroy, TypeOK, MainTypes, MainPC
  <2>4. SessionTypes' /\ HistoryTypes' /\ ThreadTypes'
    BY <1>0, <1>8, <2>1, InterruptTypes DEF OnDestroy, Errno, TypeOK, ThreadTypes
  <2> QED
    BY <1>0, <1>8, <2>2, <2>3, <2>4, TypesUnchanged DEF OnDestroy, IndInv, TypeOK
<1> QED
  BY <1>1, <1>2, <1>3, <1>4, <1>5, <1>6, <1>7, <1>8 DEF HandleEvent

\* The joins of session_destroy, and app_deinit
LEMMA JoinLeaveInv ==
    ASSUME IndInv, FragmentDeleted \/ Join \/ Leave
    PROVE  IndInv'
<1>0. TypeOK /\ Shape
  BY DEF IndInv
<1>1. CASE FragmentDeleted
  <2>1. Shape'
    BY <1>0, <1>1, ShapeUnchanged DEF FragmentDeleted, shapeVars, mainVars, mainRest,
       sessVars
  <2>2. UITypes'
    BY <1>0, <1>1 DEF FragmentDeleted, TypeOK, UITypes
  <2> QED
    BY <1>0, <1>1, <2>1, <2>2, TypesUnchanged DEF FragmentDeleted, IndInv, TypeOK
<1>2. CASE JoinMouse
  <2>1. Shape'
    BY <1>0, <1>2 DEF JoinMouse, AtMain, sessVars, Shape, WorkerHasSession, MainPhases,
       Joining, StreamEventsMeetTheirSession, RequestsAwaited, OneRequest,
       DestroyComesLast, JoinAfterWorker
  <2>2. MainTypes'
    BY <1>0, <1>2 DEF JoinMouse, TypeOK, MainTypes, MainPC
  <2> QED
    BY <1>0, <1>2, <2>1, <2>2, TypesUnchanged DEF JoinMouse, IndInv, TypeOK
<1>3. CASE JoinWorker
  <2>1. /\ wpc = "done" /\ wpc' = "none" /\ session' = NoSession /\ queue' = queue
        /\ drained' = drained /\ ~inFilter'
        /\ mpc = "join_worker" /\ mpc' \in {"loop", "deinit", "drain"}
        /\ mpc' = "deinit" => drained
        /\ drained => mpc' = "deinit"
    BY <1>0, <1>3 DEF JoinWorker, AtMain, Shape, MainPhases
  <2>2. MainTypes'
    BY <1>0, <1>3, <2>1 DEF JoinWorker, TypeOK, MainTypes, MainPC
  <2>3. SessionTypes'
    BY <1>0, <1>3 DEF JoinWorker, TypeOK, SessionTypes
  <2>4. ThreadTypes'
    BY <1>3 DEF JoinWorker, ThreadTypes, WorkerPC
  <2>5. ~drained => \A i \in DOMAIN queue' : queue'[i].code = "OVERLAY"
    BY <1>0, <2>1 DEF Shape, JoinAfterWorker, Joining
  <2>6. WorkerHasSession' /\ MainPhases' /\ JoinAfterWorker'
    BY <2>1 DEF WorkerHasSession, MainPhases, JoinAfterWorker, Joining
  <2>7. StreamEventsMeetTheirSession'
    BY <2>1, <2>5 DEF StreamEventsMeetTheirSession, StreamCode
  <2>8. RequestsAwaited' /\ OneRequest' /\ DestroyComesLast'
    BY <2>1, <2>5 DEF RequestsAwaited, OneRequest, DestroyComesLast, SyncCode
  <2>9. Shape'
    BY <2>6, <2>7, <2>8 DEF Shape
  <2>10. UITypes'
    BY <1>0, <1>3 DEF JoinWorker, TypeOK, UITypes
  <2> QED
    BY <1>0, <1>3, <2>2, <2>3, <2>4, <2>9, <2>10, TypesUnchanged DEF JoinWorker, IndInv,
       TypeOK
<1>4. CASE LeaveLoop
  <2>1. mpc' = "drain" /\ ~drained /\ ~inFilter
    BY <1>0, <1>4 DEF LeaveLoop, AtMain, Shape, MainPhases, Joining
  <2>2. Shape'
    BY <1>0, <1>4, <2>1 DEF LeaveLoop, AtMain, sessVars, Shape, WorkerHasSession,
       MainPhases, Joining, StreamEventsMeetTheirSession, RequestsAwaited, OneRequest,
       DestroyComesLast, JoinAfterWorker
  <2>3. MainTypes'
    BY <1>0, <1>4 DEF LeaveLoop, TypeOK, MainTypes, MainPC
  <2>4. UITypes'
    BY <1>0, <1>4 DEF LeaveLoop, TypeOK, UITypes
  <2> QED
    BY <1>0, <1>4, <2>2, <2>3, <2>4, TypesUnchanged DEF LeaveLoop, IndInv, TypeOK
<1>5. CASE DrainDrops
  <2>1. Shape' /\ queue' \in Seq(Event)
    BY <1>0, <1>5, MainTakes DEF DrainDrops, Take, mainRest, sessVars
  <2>3. MainTypes'
    BY <1>0, <1>5, <2>1 DEF DrainDrops, mainRest, TypeOK, MainTypes
  <2> QED
    BY <1>0, <1>5, <2>1, <2>3, TypesUnchanged DEF DrainDrops, IndInv, TypeOK
<1>6. CASE DrainEnds
  <2>1. /\ drained' = TRUE /\ mpc' \in {"deinit", "join_mouse"} /\ ~inFilter'
        /\ UNCHANGED <<wpc, session>>
    BY <1>0, <1>6 DEF DrainEnds, AtMain, Shape, MainPhases, Joining
  <2>2. Shape'
    BY <1>0, <2>1 DEF Shape, WorkerHasSession, MainPhases, Joining,
       StreamEventsMeetTheirSession, RequestsAwaited, OneRequest, DestroyComesLast,
       JoinAfterWorker
  <2>3. MainTypes'
    BY <1>0, <1>6, <2>1 DEF DrainEnds, TypeOK, MainTypes, MainPC
  <2>4. SessionTypes' /\ HistoryTypes' /\ ThreadTypes'
    <3>1. CASE session = NoSession
      BY <1>0, <1>6, <3>1, TypesUnchanged DEF DrainEnds, sessVars, histVars
    <3>2. CASE session # NoSession
      BY <1>0, <1>6, <3>2, InterruptTypes DEF DrainEnds, Errno, TypeOK, ThreadTypes
    <3> QED
      BY <3>1, <3>2
  <2> QED
    BY <1>0, <1>6, <2>2, <2>3, <2>4, TypesUnchanged DEF DrainEnds, IndInv, TypeOK
<1>7. CASE Deinit
  <2>1. mpc' = "exited" /\ drained /\ ~inFilter
    BY <1>0, <1>7 DEF Deinit, AtMain, Shape, MainPhases, Joining
  <2>2. Shape'
    BY <1>0, <1>7, <2>1 DEF Deinit, sessVars, Shape, WorkerHasSession, MainPhases,
       Joining, StreamEventsMeetTheirSession, RequestsAwaited, OneRequest,
       DestroyComesLast, JoinAfterWorker
  <2>3. MainTypes'
    BY <1>0, <1>7 DEF Deinit, TypeOK, MainTypes, MainPC
  <2>4. UITypes'
    BY <1>0, <1>7 DEF Deinit, TypeOK, UITypes
  <2> QED
    BY <1>0, <1>7, <2>2, <2>3, <2>4, TypesUnchanged DEF Deinit, IndInv, TypeOK
<1> QED
  BY <1>1, <1>2, <1>3, <1>4, <1>5, <1>6, <1>7 DEF Join, Leave

State == {"NONE", "CONNECTING", "STREAMING", "DISCONNECTING", "ERROR"}

LEMMA WorkerFrame ==
    ASSUME TypeOK, UNCHANGED workerRest, queue' \in Seq(Event), wpc' \in WorkerPC,
           state' \in State
    PROVE  /\ MainTypes' /\ UITypes' /\ SessionTypes' /\ ThreadTypes'
           /\ crashed' \in BOOLEAN
<1>1. MainTypes'
  BY DEF TypeOK, MainTypes, workerRest, mainRest
<1>2. UITypes'
  BY TypesUnchanged DEF workerRest
<1>3. SessionTypes'
  BY DEF TypeOK, SessionTypes, workerRest, State
<1>4. ThreadTypes'
  BY DEF TypeOK, ThreadTypes, workerRest
<1>5. crashed' \in BOOLEAN
  BY DEF TypeOK, HistoryTypes, workerRest
<1> QED
  BY <1>1, <1>2, <1>3, <1>4, <1>5

\* app_bus_post_sync in its two steps
LEMMA PostSyncTestsInv ==
    ASSUME IndInv, NEW at \in WorkerPC, NEW push \in WorkerPC, NEW skip \in WorkerPC,
           PostSyncTests(at, push, skip),
           at \notin Waiting \cup {"none", "done"}, push # "none", skip # "none"
    PROVE  IndInv'
<1>0. TypeOK /\ Shape
  BY DEF IndInv
<1>1. Shape'
  BY <1>0, WorkerMoves DEF PostSyncTests, AtWorker, workerRest, mainRest
<1>2. wpc' \in WorkerPC /\ queue' \in Seq(Event) /\ state' \in State
  BY <1>0 DEF PostSyncTests, TypeOK, MainTypes, SessionTypes, State
<1>3. MainTypes' /\ UITypes' /\ SessionTypes' /\ ThreadTypes' /\ crashed' \in BOOLEAN
  BY <1>0, <1>2, WorkerFrame DEF PostSyncTests
<1>4. HistoryTypes'
  BY <1>0, <1>3 DEF PostSyncTests, TypeOK, HistoryTypes
<1> QED
  BY <1>0, <1>1, <1>3, <1>4, TypesUnchanged DEF PostSyncTests, IndInv, TypeOK

LEMMA PostSyncPushesInv ==
    ASSUME IndInv, NEW at \in WorkerPC, NEW code \in SyncCode, NEW wait \in Waiting,
           PostSyncPushes(at, code, wait),
           at \notin Waiting \cup {"none", "done"},
           code = "UI_CLOSE" => wait \in {"setup_wait", "ui_wait"},
           code = "UPSERT" => wait = "update_wait"
    PROVE  IndInv'
<1>0. TypeOK /\ Shape
  BY DEF IndInv
<1>1. Shape' /\ queue' \in Seq(Event)
  BY <1>0, WorkerPushes DEF PostSyncPushes, GoWorker, AtWorker, workerRest, mainRest,
     SyncCode, EventCode, ActionCode, Waiting
<1>2. wpc' \in WorkerPC /\ state' \in State
  BY <1>0 DEF PostSyncPushes, GoWorker, Waiting, WorkerPC, TypeOK, SessionTypes, State
<1>3. MainTypes' /\ UITypes' /\ SessionTypes' /\ ThreadTypes' /\ crashed' \in BOOLEAN
  BY <1>0, <1>1, <1>2, WorkerFrame DEF PostSyncPushes
<1>4. HistoryTypes'
  BY <1>0, <1>3 DEF PostSyncPushes, TypeOK, HistoryTypes
<1> QED
  BY <1>0, <1>1, <1>3, <1>4, TypesUnchanged DEF PostSyncPushes, IndInv, TypeOK

\* The end both workers share
LEMMA WorkerEndInv ==
    ASSUME IndInv, WorkerEnd
    PROVE  IndInv'
<1>0. TypeOK /\ Shape
  BY DEF IndInv
<1>1. CASE UpdateTests
  <2>1. PostSyncTests("update", "update_push", "reset")
    BY <1>1 DEF UpdateTests
  <2> QED
    BY <2>1, PostSyncTestsInv DEF WorkerPC, SyncCode, Waiting
<1>2. CASE UpdatePushes
  <2>1. PostSyncPushes("update_push", "UPSERT", "update_wait")
    BY <1>2 DEF UpdatePushes
  <2> QED
    BY <2>1, PostSyncPushesInv DEF WorkerPC, SyncCode, Waiting
<1>3. CASE WorkerResets
  <2>1. Shape' /\ queue' \in Seq(Event)
    BY <1>0, <1>3, WorkerMoves DEF WorkerResets, GoWorker, AtWorker, workerRest, mainRest,
       Waiting, TypeOK, MainTypes
  <2>2. wpc' \in WorkerPC /\ state' \in State
    BY <1>0, <1>3 DEF WorkerResets, GoWorker, WorkerPC, TypeOK, SessionTypes, State
  <2>3. MainTypes' /\ UITypes' /\ SessionTypes' /\ ThreadTypes' /\ crashed' \in BOOLEAN
    BY <1>0, <1>3, <2>1, <2>2, WorkerFrame DEF WorkerResets
  <2>4. LimelightTypes'
    BY <1>0, <1>3, TypesUnchanged DEF WorkerResets
  <2>5. HistoryTypes'
    BY <1>0, <1>3, <2>3 DEF WorkerResets, TypeOK, HistoryTypes, histVars
  <2> QED
    BY <2>1, <2>3, <2>4, <2>5 DEF IndInv, TypeOK
<1>4. CASE WorkerFinishes
  <2>1. Shape' /\ queue' \in Seq(Event)
    BY <1>0, <1>4, WorkerPushes DEF WorkerFinishes, GoWorker, AtWorker, workerRest, mainRest,
       EventCode, StreamCode, ActionCode, Waiting
  <2>2. wpc' \in WorkerPC /\ state' \in State
    BY <1>0, <1>4 DEF WorkerFinishes, GoWorker, WorkerPC, TypeOK, SessionTypes, State
  <2>3. MainTypes' /\ UITypes' /\ SessionTypes' /\ ThreadTypes' /\ crashed' \in BOOLEAN
    BY <1>0, <1>4, <2>1, <2>2, WorkerFrame DEF WorkerFinishes
  <2>4. LimelightTypes'
    BY <1>0, <1>4, TypesUnchanged DEF WorkerFinishes
  <2>5. HistoryTypes'
    BY <1>0, <1>4, <2>3 DEF WorkerFinishes, TypeOK, HistoryTypes, histVars
  <2> QED
    BY <2>1, <2>3, <2>4, <2>5 DEF IndInv, TypeOK
<1>5. CASE DestroyTests
  <2>1. Shape' /\ queue' \in Seq(Event)
    BY <1>0, <1>5, WorkerMoves DEF DestroyTests, GoWorker, AtWorker, workerRest, mainRest,
       Waiting, TypeOK, MainTypes
  <2>2. wpc' \in WorkerPC /\ state' \in State
    BY <1>0, <1>5 DEF DestroyTests, GoWorker, WorkerPC, TypeOK, SessionTypes, State
  <2>3. MainTypes' /\ UITypes' /\ SessionTypes' /\ ThreadTypes' /\ crashed' \in BOOLEAN
    BY <1>0, <1>5, <2>1, <2>2, WorkerFrame DEF DestroyTests
  <2>4. LimelightTypes'
    BY <1>0, <1>5, TypesUnchanged DEF DestroyTests
  <2>5. HistoryTypes'
    BY <1>0, <1>5, <2>3 DEF DestroyTests, TypeOK, HistoryTypes, histVars
  <2> QED
    BY <2>1, <2>3, <2>4, <2>5 DEF IndInv, TypeOK
<1>6. CASE DestroyPushes
  <2>1. Shape' /\ queue' \in Seq(Event)
    BY <1>0, <1>6, WorkerPushes DEF DestroyPushes, GoWorker, AtWorker, workerRest, mainRest,
       EventCode, StreamCode, ActionCode, Waiting
  <2>2. wpc' \in WorkerPC /\ state' \in State
    BY <1>0, <1>6 DEF DestroyPushes, GoWorker, WorkerPC, TypeOK, SessionTypes, State
  <2>3. MainTypes' /\ UITypes' /\ SessionTypes' /\ ThreadTypes' /\ crashed' \in BOOLEAN
    BY <1>0, <1>6, <2>1, <2>2, WorkerFrame DEF DestroyPushes
  <2>4. LimelightTypes'
    BY <1>0, <1>6, TypesUnchanged DEF DestroyPushes
  <2>5. HistoryTypes'
    BY <1>0, <1>6, <2>3 DEF DestroyPushes, TypeOK, HistoryTypes, histVars
  <2> QED
    BY <2>1, <2>3, <2>4, <2>5 DEF IndInv, TypeOK
<1> QED
  BY <1>1, <1>2, <1>3, <1>4, <1>5, <1>6 DEF WorkerEnd

\* session_worker
LEMMA WorkerStepInv ==
    ASSUME IndInv, WorkerStep
    PROVE  IndInv'
<1>0. TypeOK /\ Shape
  BY DEF IndInv
<1>1. CASE WorkerBegin
  <2>1. Shape' /\ queue' \in Seq(Event)
    BY <1>0, <1>1, WorkerPushes DEF WorkerBegin, GoWorker, AtWorker, workerRest, mainRest,
       EventCode, StreamCode, ActionCode, Waiting
  <2>2. wpc' \in WorkerPC /\ state' \in State
    BY <1>0, <1>1 DEF WorkerBegin, GoWorker, WorkerPC, TypeOK, SessionTypes, State
  <2>3. MainTypes' /\ UITypes' /\ SessionTypes' /\ ThreadTypes' /\ crashed' \in BOOLEAN
    BY <1>0, <1>1, <2>1, <2>2, WorkerFrame DEF WorkerBegin
  <2>4. LimelightTypes'
    BY <1>0, <1>1, TypesUnchanged DEF WorkerBegin
  <2>5. HistoryTypes'
    BY <1>0, <1>1, <2>3 DEF WorkerBegin, TypeOK, HistoryTypes, histVars
  <2> QED
    BY <2>1, <2>3, <2>4, <2>5 DEF IndInv, TypeOK
<1>2. CASE WorkerSeesMouse
  <2>1. Shape' /\ queue' \in Seq(Event)
    BY <1>0, <1>2, WorkerMoves DEF WorkerSeesMouse, GoWorker, AtWorker, workerRest, mainRest,
       Waiting, TypeOK, MainTypes
  <2>2. wpc' \in WorkerPC /\ state' \in State
    BY <1>0, <1>2 DEF WorkerSeesMouse, GoWorker, WorkerPC, TypeOK, SessionTypes, State
  <2>3. MainTypes' /\ UITypes' /\ SessionTypes' /\ ThreadTypes' /\ crashed' \in BOOLEAN
    BY <1>0, <1>2, <2>1, <2>2, WorkerFrame DEF WorkerSeesMouse
  <2>4. LimelightTypes'
    BY <1>0, <1>2, TypesUnchanged DEF WorkerSeesMouse
  <2>5. HistoryTypes'
    BY <1>0, <1>2, <2>3 DEF WorkerSeesMouse, TypeOK, HistoryTypes, histVars
  <2> QED
    BY <2>1, <2>3, <2>4, <2>5 DEF IndInv, TypeOK
<1>3. CASE WorkerLaunches
  <2>1. Shape' /\ queue' \in Seq(Event)
    BY <1>0, <1>3, WorkerMoves DEF WorkerLaunches, GoWorker, AtWorker, workerRest, mainRest,
       Waiting, TypeOK, MainTypes
  <2>2. wpc' \in WorkerPC /\ state' \in State
    BY <1>0, <1>3 DEF WorkerLaunches, GoWorker, WorkerPC, TypeOK, SessionTypes, State
  <2>3. MainTypes' /\ UITypes' /\ SessionTypes' /\ ThreadTypes' /\ crashed' \in BOOLEAN
    BY <1>0, <1>3, <2>1, <2>2, WorkerFrame DEF WorkerLaunches
  <2>4. LimelightTypes'
    BY <1>0, <1>3, TypesUnchanged DEF WorkerLaunches
  <2>5. HistoryTypes'
    BY <1>0, <1>3, <2>3 DEF WorkerLaunches, TypeOK, HistoryTypes, histVars
  <2> QED
    BY <2>1, <2>3, <2>4, <2>5 DEF IndInv, TypeOK
<1>4. CASE WorkerLaunchFails
  <2>1. Shape' /\ queue' \in Seq(Event)
    BY <1>0, <1>4, WorkerMoves DEF WorkerLaunchFails, GoWorker, AtWorker, workerRest, mainRest,
       Waiting, TypeOK, MainTypes
  <2>2. wpc' \in WorkerPC /\ state' \in State
    BY <1>0, <1>4 DEF WorkerLaunchFails, GoWorker, WorkerPC, TypeOK, SessionTypes, State
  <2>3. MainTypes' /\ UITypes' /\ SessionTypes' /\ ThreadTypes' /\ crashed' \in BOOLEAN
    BY <1>0, <1>4, <2>1, <2>2, WorkerFrame DEF WorkerLaunchFails
  <2>4. LimelightTypes'
    BY <1>0, <1>4, TypesUnchanged DEF WorkerLaunchFails
  <2>5. HistoryTypes'
    BY <1>0, <1>4, <2>3 DEF WorkerLaunchFails, TypeOK, HistoryTypes, histVars
  <2> QED
    BY <2>1, <2>3, <2>4, <2>5 DEF IndInv, TypeOK
<1>5. CASE WorkerPrepares
  <2>1. Shape' /\ queue' \in Seq(Event)
    BY <1>0, <1>5, WorkerMoves DEF WorkerPrepares, GoWorker, AtWorker, workerRest, mainRest,
       Waiting, TypeOK, MainTypes
  <2>2. wpc' \in WorkerPC /\ state' \in State
    BY <1>0, <1>5 DEF WorkerPrepares, GoWorker, WorkerPC, TypeOK, SessionTypes, State
  <2>3. MainTypes' /\ UITypes' /\ SessionTypes' /\ ThreadTypes' /\ crashed' \in BOOLEAN
    BY <1>0, <1>5, <2>1, <2>2, WorkerFrame DEF WorkerPrepares
  <2>4. LimelightTypes'
    BY <1>0, <1>5 DEF WorkerPrepares, TypeOK, LimelightTypes, SessionTypes, NoCallback
  <2>5. HistoryTypes'
    BY <1>0, <1>5, <2>3 DEF WorkerPrepares, TypeOK, HistoryTypes, histVars
  <2> QED
    BY <2>1, <2>3, <2>4, <2>5 DEF IndInv, TypeOK
<1>6. CASE SetupTests
  <2>1. PostSyncTests("setup", "setup_push", "connect")
    BY <1>6 DEF SetupTests
  <2> QED
    BY <2>1, PostSyncTestsInv DEF WorkerPC, SyncCode, Waiting
<1>7. CASE SetupPushes
  <2>1. PostSyncPushes("setup_push", "UI_CLOSE", "setup_wait")
    BY <1>7 DEF SetupPushes
  <2> QED
    BY <2>1, PostSyncPushesInv DEF WorkerPC, SyncCode, Waiting
<1>8. CASE WorkerConnects
  <2>1. Shape' /\ queue' \in Seq(Event)
    BY <1>0, <1>8, WorkerMoves DEF WorkerConnects, GoWorker, AtWorker, workerRest, mainRest,
       Waiting, TypeOK, MainTypes
  <2>2. wpc' \in WorkerPC /\ state' \in State
    BY <1>0, <1>8 DEF WorkerConnects, GoWorker, WorkerPC, TypeOK, SessionTypes, State
  <2>3. MainTypes' /\ UITypes' /\ SessionTypes' /\ ThreadTypes' /\ crashed' \in BOOLEAN
    BY <1>0, <1>8, <2>1, <2>2, WorkerFrame DEF WorkerConnects
  <2>4. LimelightTypes'
    BY <1>0, <1>8, TypesUnchanged DEF WorkerConnects
  <2>5. HistoryTypes'
    BY <1>0, <1>8, <2>3 DEF WorkerConnects, TypeOK, HistoryTypes, histVars
  <2> QED
    BY <2>1, <2>3, <2>4, <2>5 DEF IndInv, TypeOK
<1>9. CASE WorkerConnectFails
  <2>1. Shape' /\ queue' \in Seq(Event)
    BY <1>0, <1>9, WorkerMoves DEF WorkerConnectFails, GoWorker, AtWorker, workerRest, mainRest,
       Waiting, TypeOK, MainTypes
  <2>2. wpc' \in WorkerPC /\ state' \in State
    BY <1>0, <1>9 DEF WorkerConnectFails, GoWorker, WorkerPC, TypeOK, SessionTypes, State
  <2>3. MainTypes' /\ UITypes' /\ SessionTypes' /\ ThreadTypes' /\ crashed' \in BOOLEAN
    BY <1>0, <1>9, <2>1, <2>2, WorkerFrame DEF WorkerConnectFails
  <2>4. LimelightTypes'
    BY <1>0, <1>9 DEF WorkerConnectFails, TypeOK, LimelightTypes, SessionTypes
  <2>5. HistoryTypes'
    BY <1>0, <1>9, <2>3 DEF WorkerConnectFails, TypeOK, HistoryTypes, histVars
  <2> QED
    BY <2>1, <2>3, <2>4, <2>5 DEF IndInv, TypeOK
<1>10. CASE WorkerOpens
  <2>1. Shape' /\ queue' \in Seq(Event)
    BY <1>0, <1>10, WorkerPushes DEF WorkerOpens, GoWorker, AtWorker, workerRest, mainRest,
       EventCode, StreamCode, ActionCode, Waiting
  <2>2. wpc' \in WorkerPC /\ state' \in State
    BY <1>0, <1>10 DEF WorkerOpens, GoWorker, WorkerPC, TypeOK, SessionTypes, State
  <2>3. MainTypes' /\ UITypes' /\ SessionTypes' /\ ThreadTypes' /\ crashed' \in BOOLEAN
    BY <1>0, <1>10, <2>1, <2>2, WorkerFrame DEF WorkerOpens
  <2>4. LimelightTypes'
    BY <1>0, <1>10, TypesUnchanged DEF WorkerOpens
  <2>5. HistoryTypes'
    BY <1>0, <1>10, <2>3 DEF WorkerOpens, TypeOK, HistoryTypes, histVars
  <2> QED
    BY <2>1, <2>3, <2>4, <2>5 DEF IndInv, TypeOK
<1>11. CASE WorkerWoken
  <2>1. Shape' /\ queue' \in Seq(Event)
    BY <1>0, <1>11, WorkerMoves DEF WorkerWoken, GoWorker, AtWorker, workerRest, mainRest,
       Waiting, TypeOK, MainTypes
  <2>2. wpc' \in WorkerPC /\ state' \in State
    BY <1>0, <1>11 DEF WorkerWoken, GoWorker, WorkerPC, TypeOK, SessionTypes, State
  <2>3. MainTypes' /\ UITypes' /\ SessionTypes' /\ ThreadTypes' /\ crashed' \in BOOLEAN
    BY <1>0, <1>11, <2>1, <2>2, WorkerFrame DEF WorkerWoken
  <2>4. LimelightTypes'
    BY <1>0, <1>11, TypesUnchanged DEF WorkerWoken
  <2>5. HistoryTypes'
    BY <1>0, <1>11, <2>3 DEF WorkerWoken, TypeOK, HistoryTypes, histVars
  <2> QED
    BY <2>1, <2>3, <2>4, <2>5 DEF IndInv, TypeOK
<1>12. CASE WorkerCloses
  <2>1. Shape' /\ queue' \in Seq(Event)
    BY <1>0, <1>12, WorkerPushes DEF WorkerCloses, GoWorker, AtWorker, workerRest, mainRest,
       EventCode, StreamCode, ActionCode, Waiting
  <2>2. wpc' \in WorkerPC /\ state' \in State
    BY <1>0, <1>12 DEF WorkerCloses, GoWorker, WorkerPC, TypeOK, SessionTypes, State
  <2>3. MainTypes' /\ UITypes' /\ SessionTypes' /\ ThreadTypes' /\ crashed' \in BOOLEAN
    BY <1>0, <1>12, <2>1, <2>2, WorkerFrame DEF WorkerCloses
  <2>4. LimelightTypes'
    BY <1>0, <1>12, TypesUnchanged DEF WorkerCloses
  <2>5. HistoryTypes'
    BY <1>0, <1>12, <2>3 DEF WorkerCloses, TypeOK, HistoryTypes, histVars
  <2> QED
    BY <2>1, <2>3, <2>4, <2>5 DEF IndInv, TypeOK
<1>13. CASE WorkerStops
  <2>1. Shape' /\ queue' \in Seq(Event)
    BY <1>0, <1>13, WorkerMoves DEF WorkerStops, GoWorker, AtWorker, workerRest, mainRest,
       Waiting, TypeOK, MainTypes
  <2>2. wpc' \in WorkerPC /\ state' \in State
    BY <1>0, <1>13 DEF WorkerStops, GoWorker, WorkerPC, TypeOK, SessionTypes, State
  <2>3. MainTypes' /\ UITypes' /\ SessionTypes' /\ ThreadTypes' /\ crashed' \in BOOLEAN
    BY <1>0, <1>13, <2>1, <2>2, WorkerFrame DEF WorkerStops
  <2>4. LimelightTypes'
    BY <1>0, <1>13 DEF WorkerStops, TypeOK, LimelightTypes, SessionTypes
  <2>5. HistoryTypes'
    BY <1>0, <1>13, <2>3 DEF WorkerStops, TypeOK, HistoryTypes, histVars
  <2> QED
    BY <2>1, <2>3, <2>4, <2>5 DEF IndInv, TypeOK
<1>14. CASE WorkerQuits
  <2>1. Shape' /\ queue' \in Seq(Event)
    BY <1>0, <1>14, WorkerMoves DEF WorkerQuits, GoWorker, AtWorker, workerRest, mainRest,
       Waiting, TypeOK, MainTypes
  <2>2. wpc' \in WorkerPC /\ state' \in State
    BY <1>0, <1>14 DEF WorkerQuits, GoWorker, WorkerPC, TypeOK, SessionTypes, State
  <2>3. MainTypes' /\ UITypes' /\ SessionTypes' /\ ThreadTypes' /\ crashed' \in BOOLEAN
    BY <1>0, <1>14, <2>1, <2>2, WorkerFrame DEF WorkerQuits
  <2>4. LimelightTypes'
    BY <1>0, <1>14, TypesUnchanged DEF WorkerQuits
  <2>5. HistoryTypes'
    BY <1>0, <1>14, <2>3 DEF WorkerQuits, TypeOK, HistoryTypes, histVars, SessionTypes
  <2> QED
    BY <2>1, <2>3, <2>4, <2>5 DEF IndInv, TypeOK
<1>15. CASE WorkerCleansUp
  <2>1. Shape' /\ queue' \in Seq(Event)
    BY <1>0, <1>15, WorkerMoves DEF WorkerCleansUp, GoWorker, AtWorker, workerRest, mainRest,
       Waiting, TypeOK, MainTypes
  <2>2. wpc' \in WorkerPC /\ state' \in State
    BY <1>0, <1>15 DEF WorkerCleansUp, GoWorker, WorkerPC, TypeOK, SessionTypes, State
  <2>3. MainTypes' /\ UITypes' /\ SessionTypes' /\ ThreadTypes' /\ crashed' \in BOOLEAN
    BY <1>0, <1>15, <2>1, <2>2, WorkerFrame DEF WorkerCleansUp
  <2>4. LimelightTypes'
    BY <1>0, <1>15 DEF WorkerCleansUp, TypeOK, LimelightTypes, SessionTypes
  <2>5. HistoryTypes'
    BY <1>0, <1>15, <2>3 DEF WorkerCleansUp, TypeOK, HistoryTypes, histVars
  <2> QED
    BY <2>1, <2>3, <2>4, <2>5 DEF IndInv, TypeOK
<1> QED
  BY <1>1, <1>2, <1>3, <1>4, <1>5, <1>6, <1>7, <1>8, <1>9, <1>10, <1>11, <1>12, <1>13, <1>14, <1>15, WorkerEndInv DEF WorkerStep

\* The mouse thread, Limelight's threads, and the end
LEMMA OtherThreadsInv ==
    ASSUME IndInv, MouseStep \/ CallbackStep \/ LimelightFails \/ Stopped
    PROVE  IndInv'
<1>0. TypeOK /\ Shape
  BY DEF IndInv
<1>1. CASE MouseOpens
  <2>1. Shape'
    BY <1>0, <1>1, ShapeUnchanged DEF MouseOpens, mouseRest, shapeVars, mainVars, mainRest,
       sessVars
  <2>2. ThreadTypes'
    BY <1>0, <1>1 DEF MouseOpens, mouseRest, TypeOK, ThreadTypes
  <2> QED
    BY <1>0, <1>1, <2>1, <2>2, TypesUnchanged DEF MouseOpens, mouseRest, IndInv, TypeOK
<1>2. CASE MouseCloses
  <2>1. Shape'
    BY <1>0, <1>2, ShapeUnchanged DEF MouseCloses, mouseRest, shapeVars, mainVars, mainRest,
       sessVars
  <2>2. ThreadTypes'
    BY <1>0, <1>2 DEF MouseCloses, mouseRest, TypeOK, ThreadTypes
  <2> QED
    BY <1>0, <1>2, <2>1, <2>2, TypesUnchanged DEF MouseCloses, mouseRest, IndInv, TypeOK
<1>3. ASSUME UNCHANGED callbackRest, LimelightTypes', ThreadTypes',
             SessionTypes', HistoryTypes'
      PROVE  IndInv'
  <2>1. Shape'
    BY <1>0, <1>3, ShapeUnchanged DEF callbackRest, shapeVars, mainVars, mainRest
  <2> QED
    BY <1>0, <1>3, <2>1, TypesUnchanged DEF callbackRest, IndInv, TypeOK
<1>4. ASSUME UNCHANGED callbackRest, LimelightTypes',
             UNCHANGED <<interrupted, quitapp, mouse, failed, crashed>>,
             errno' \in Errno
      PROVE  IndInv'
  <2>1. SessionTypes' /\ ThreadTypes' /\ HistoryTypes'
    BY <1>0, <1>4 DEF callbackRest, TypeOK, SessionTypes, ThreadTypes, HistoryTypes, Errno
  <2> QED
    BY <1>3, <1>4, <2>1
<1>5. ASSUME UNCHANGED callbackRest, LimelightTypes', NEW err \in Errno,
             Interrupt(FALSE, err)
      PROVE  IndInv'
  <2>1. SessionTypes' /\ ThreadTypes' /\ HistoryTypes'
    BY <1>0, <1>5, InterruptTypes DEF callbackRest, TypeOK, ThreadTypes
  <2> QED
    BY <1>3, <1>5, <2>1
<1>6. /\ errno \in Errno
      /\ callback \in [at : {"idle", "fired", "error", "interrupt", "gone"},
                               of : SessionId \cup {NoSession},
                               kind : {"none", "host", "network"}]
      /\ current \in SessionId \cup {NoSession}
  BY <1>0 DEF TypeOK, HistoryTypes, LimelightTypes, Errno
<1>7. ASSUME NEW kind \in {"host", "network"}, TerminationFires(kind) PROVE IndInv'
  <2>1. LimelightTypes'
    BY <1>0, <1>7 DEF TerminationFires, callbackRest, TypeOK, LimelightTypes
  <2> QED
    BY <1>4, <1>6, <1>7, <2>1 DEF TerminationFires
<1>8. CASE TerminationReads
  <2>1. LimelightTypes'
    BY <1>0, <1>6, <1>8 DEF TerminationReads, callbackRest, TypeOK, LimelightTypes
  <2> QED
    BY <1>4, <1>6, <1>8, <2>1 DEF TerminationReads
<1>9. CASE TerminationSetsError
  <2>1. LimelightTypes'
    BY <1>0, <1>6, <1>9 DEF TerminationSetsError, callbackRest, TypeOK, LimelightTypes
  <2> QED
    BY <1>4, <1>9, <2>1 DEF TerminationSetsError, Errno
<1>10. CASE TerminationInterrupts
  <2>1. LimelightTypes'
    BY <1>0, <1>6, <1>10 DEF TerminationInterrupts, callbackRest, TypeOK, LimelightTypes
  <2> QED
    BY <1>5, <1>10, <2>1 DEF TerminationInterrupts, Errno
<1>11. CASE DecoderFails
  <2>1. LimelightTypes'
    BY <1>0, <1>11, TypesUnchanged DEF DecoderFails, callbackRest, limeVars
  <2> QED
    BY <1>5, <1>11, <2>1 DEF DecoderFails, Errno
<1>12. CASE Stopped
  <2>1. UNCHANGED vars
    BY <1>12 DEF Stopped
  <2>2. Shape'
    BY <1>0, <2>1, ShapeUnchanged DEF vars, shapeVars, mainVars, mainRest, sessVars
  <2> QED
    BY <1>0, <2>1, <2>2, TypesUnchanged DEF vars, IndInv, TypeOK
<1> QED
  BY <1>1, <1>2, <1>7, <1>8, <1>9, <1>10, <1>11, <1>12 DEF MouseStep, CallbackStep,
     LimelightFails

LEMMA NextIndInv == IndInv /\ [Next]_vars => IndInv'
<1> SUFFICES ASSUME IndInv, [Next]_vars PROVE IndInv'
  OBVIOUS
<1>1. CASE MainInput
  BY <1>1, MainInputInv
<1>2. CASE HandleEvent
  BY <1>2, HandleEventInv
<1>3. CASE FragmentDeleted \/ Join \/ Leave
  BY <1>3, JoinLeaveInv
<1>4. CASE WorkerStep
  BY <1>4, WorkerStepInv
<1>5. CASE MouseStep \/ CallbackStep \/ LimelightFails \/ Stopped
  BY <1>5, OtherThreadsInv
<1>6. CASE UNCHANGED vars
  <2>1. Shape'
    BY <1>6, ShapeUnchanged DEF IndInv, vars, shapeVars, mainVars, mainRest, sessVars
  <2> QED
    BY <1>6, <2>1, TypesUnchanged DEF vars, IndInv, TypeOK
<1> QED
  BY <1>1, <1>2, <1>3, <1>4, <1>5, <1>6 DEF Next, MainStep

-----------------------------------------------------------------------------
(* Theorems.                                                               *)

\* The inductive invariant holds in every behaviour.
THEOREM Invariance == Spec => []IndInv
<1>1. Init => IndInv
  BY InitIndInv
<1>2. IndInv /\ [Next]_vars => IndInv'
  BY NextIndInv
<1> QED
  BY <1>1, <1>2, PTL DEF Spec

\* Every variable keeps its type.
THEOREM TypeCorrect == Spec => []TypeOK
<1>1. IndInv => TypeOK
  BY DEF IndInv
<1> QED
  BY <1>1, Invariance, PTL

\* The main thread never handles a stream event of a session that is gone: the
\* worker pushes DESTROY last, the queue keeps the order, and the session is
\* only freed while nothing but overlay commands can follow.
THEOREM EventsMeetTheirSession == Spec => []StreamEventsMeetTheirSession
<1>1. IndInv => StreamEventsMeetTheirSession
  BY DEF IndInv, Shape
<1> QED
  BY <1>1, Invariance, PTL

\* session_destroy cannot deadlock on the lock of the event queue: whenever it
\* joins from inside SDL_FilterEvents, the worker has pushed its last event.
THEOREM FilterNeverBlocksWorker == Spec => []FilterJoinsNoPusher
<1>1. IndInv => FilterJoinsNoPusher
  BY DEF IndInv, Shape, MainPhases, JoinAfterWorker, FilterJoinsNoPusher
<1> QED
  BY <1>1, Invariance, PTL

-----------------------------------------------------------------------------
(* What a session leaves behind. The main thread is through with what the    *)
(* worker pushed before DESTROY when it handles DESTROY: the worker waits    *)
(* for its update of the host, which the main thread handles after CLOSE,    *)
(* unless the application is leaving, and then nobody posts DESTROY.         *)

Has(code) == \E i \in DOMAIN queue : queue[i].code = code

Streaming == {"wait", "close"}
BeforeUiClose == {"begin", "mouse", "launch", "prepare", "setup", "setup_push", "setup_wait"}
BeforeOpen == BeforeUiClose \cup {"connect", "opened"}
AfterUpdate == {"reset", "cleanup", "finished", "post"}
EmbedPC == {"spawn", "ui", "ui_push", "ui_wait", "attach", "read", "detach", "reap"}

\* The worker of this module.
WorkerIsOurs ==
    /\ wpc \notin EmbedPC
    /\ Embed => wpc \in {"none", "begin"}

OpenIsClosed ==
    InLoop => \A i \in DOMAIN queue : queue[i].code = "OPEN" =>
        \/ wpc \in Streaming
        \/ \E j \in DOMAIN queue : j > i /\ queue[j].code = "CLOSE"

HeldIsOwed == InLoop /\ held # {} => wpc \in Streaming \/ Has("CLOSE")

NothingFollowsUpsert ==
    InLoop => \A i, j \in DOMAIN queue : queue[i].code = "UPSERT" /\ j > i =>
        queue[j].code \notin {"OPEN", "CLOSE"}

\* Places where nothing of a stream is left with the main thread.
ThroughAt(pc) ==
    \/ pc \in BeforeOpen \cup {"none", "post_push"}
    \/ running /\ pc \in AfterUpdate

ClearWhenThrough ==
    InLoop /\ (ThroughAt(wpc) \/ Joining \/ Has("DESTROY")) =>
        held = {} /\ ~Has("OPEN") /\ ~Has("CLOSE")

DestroyIsLast ==
    InLoop =>
        /\ Joining => queue = <<>>
        /\ \A i \in DOMAIN queue : queue[i].code = "DESTROY" => i = Len(queue)

OverlaysAreOurs ==
    InLoop => \A i \in DOMAIN queue : queue[i].code = "OVERLAY" => queue[i].of = session

UIIsOwed ==
    InLoop =>
        /\ wpc \in BeforeUiClose => uiOpen
        /\ ~uiOpen => \/ wpc \in {"connect", "opened"} \cup Streaming
                      \/ Has("CLOSE")
                      \/ state = "ERROR"

ErrorIsLate ==
    state = "ERROR" => wpc \in {"cleanup", "finished", "post", "post_push", "done", "none"}

\* Limelight is up and has its session only while the worker is between
\* session_connection_callbacks_prepare and _reset.
ConnectedAt == {"setup", "setup_push", "setup_wait", "connect", "opened", "stop"} \cup Streaming
PreparedAt == ConnectedAt \cup {"quit", "update", "update_push", "update_wait", "reset", "cleanup"}

PointersHeld ==
    /\ current # NoSession => current = session /\ wpc \in PreparedAt
    /\ conn => current = session /\ wpc \in ConnectedAt
    /\ callback.at \in {"fired", "error", "interrupt"} => conn
    /\ callback.at \in {"error", "interrupt"} => callback.of = session

Owed ==
    /\ OpenIsClosed
    /\ HeldIsOwed
    /\ NothingFollowsUpsert
    /\ ClearWhenThrough
    /\ DestroyIsLast
    /\ OverlaysAreOurs
    /\ UIIsOwed

EndInv ==
    /\ IndInv
    /\ WorkerIsOurs
    /\ ErrorIsLate
    /\ PointersHeld
    /\ ErrorOnlyIfFailed
    /\ Owed

LEMMA InitEndInv == Init => EndInv
<1> SUFFICES ASSUME Init PROVE EndInv
  OBVIOUS
<1>1. /\ queue = <<>> /\ DOMAIN queue = {} /\ wpc = "none" /\ state = "NONE" /\ held = {}
      /\ uiOpen = TRUE /\ current = NoSession /\ conn = FALSE /\ session = NoSession
      /\ mpc = "loop" /\ callback.at = "idle"
  BY DEF Init, NoCallback
<1>2. WorkerIsOurs /\ ErrorIsLate /\ PointersHeld /\ ErrorOnlyIfFailed
  BY <1>1 DEF WorkerIsOurs, ErrorIsLate, PointersHeld, ErrorOnlyIfFailed, EmbedPC
<1>3. OpenIsClosed /\ HeldIsOwed /\ NothingFollowsUpsert /\ OverlaysAreOurs /\ UIIsOwed
  BY <1>1 DEF OpenIsClosed, HeldIsOwed, NothingFollowsUpsert, OverlaysAreOurs, UIIsOwed
<1>4. ClearWhenThrough /\ DestroyIsLast
  BY <1>1 DEF ClearWhenThrough, DestroyIsLast, Has
<1> QED
  BY <1>2, <1>3, <1>4, InitIndInv DEF EndInv, Owed

\* A step of one thread that leaves the queue alone.
LEMMA OwedKeeps ==
    ASSUME Owed, UNCHANGED <<queue, session, uiOpen>>,
           InLoop' => InLoop, InLoop' /\ Joining' => Joining,
           held' # {} => held # {},
           state = "ERROR" => state' = "ERROR",
           wpc \in Streaming => wpc' \in Streaming,
           ThroughAt(wpc)' => ThroughAt(wpc),
           wpc' \in BeforeUiClose => wpc \in BeforeUiClose,
           wpc \in {"connect", "opened"} =>
               wpc' \in {"connect", "opened"} \cup Streaming \/ state' = "ERROR"
    PROVE  Owed'
<1> USE DEF Owed
<1>1. OpenIsClosed' /\ HeldIsOwed' /\ NothingFollowsUpsert'
  BY DEF OpenIsClosed, HeldIsOwed, NothingFollowsUpsert, Has
<1>2. ClearWhenThrough'
  BY DEF ClearWhenThrough, Has
<1>3. DestroyIsLast' /\ OverlaysAreOurs'
  BY DEF DestroyIsLast, OverlaysAreOurs
<1>4. UIIsOwed'
  BY DEF UIIsOwed, Has
<1> QED
  BY <1>1, <1>2, <1>3, <1>4

\* A thread puts an event on the queue.
LEMMA OwedPushes ==
    ASSUME Owed, queue \in Seq(Event), session \in SessionId, NEW code \in EventCode,
           queue' = Append(queue, [code |-> code, of |-> session]),
           UNCHANGED <<session, running, held, uiOpen, mpc, inFilter>>,
           InLoop => ~Joining /\ ~Has("DESTROY"),
           InLoop /\ code \in {"OPEN", "CLOSE"} => ~Has("UPSERT"),
           wpc \in Streaming => wpc' \in Streaming \/ code = "CLOSE",
           code = "OPEN" => wpc' \in Streaming,
           ThroughAt(wpc') => ThroughAt(wpc) /\ code \notin {"OPEN", "CLOSE"},
           code = "DESTROY" => ThroughAt(wpc),
           state = "ERROR" => state' = "ERROR",
           wpc' \in BeforeUiClose => wpc \in BeforeUiClose,
           wpc \in {"connect", "opened"} => wpc' \in {"connect", "opened"} \cup Streaming
    PROVE  Owed'
<1> USE DEF Owed
<1> DEFINE e == [code |-> code, of |-> session]
<1>1. e \in Event
  BY DEF Event
<1>2. /\ DOMAIN queue = 1..Len(queue) /\ Len(queue) \in Nat
      /\ DOMAIN queue' = 1..(Len(queue) + 1) /\ Len(queue') = Len(queue) + 1
      /\ \A i \in DOMAIN queue : queue'[i] = queue[i]
      /\ queue'[Len(queue) + 1].code = code /\ queue'[Len(queue) + 1].of = session
  BY <1>1, AppendEvent
<1> HIDE DEF e
<1>3. \A c : Has(c)' <=> Has(c) \/ c = code
  BY <1>2 DEF Has
<1>4. (InLoop' <=> InLoop) /\ (Joining' <=> Joining)
  BY DEF InLoop, Joining
<1>5. OpenIsClosed'
  BY <1>2, <1>4 DEF OpenIsClosed
<1>6. HeldIsOwed'
  BY <1>3, <1>4 DEF HeldIsOwed
<1>7. NothingFollowsUpsert'
  <2> SUFFICES ASSUME InLoop, NEW i \in DOMAIN queue', NEW j \in DOMAIN queue',
                      queue'[i].code = "UPSERT", j > i
               PROVE  queue'[j].code \notin {"OPEN", "CLOSE"}
    BY <1>4 DEF NothingFollowsUpsert
  <2>1. i \in DOMAIN queue /\ queue[i].code = "UPSERT"
    BY <1>2
  <2>2. CASE j = Len(queue) + 1
    BY <1>2, <2>1, <2>2 DEF Has
  <2>3. CASE j # Len(queue) + 1
    BY <1>2, <2>1, <2>3 DEF NothingFollowsUpsert
  <2> QED
    BY <2>2, <2>3
<1>8. ClearWhenThrough'
  <2> SUFFICES ASSUME InLoop, ThroughAt(wpc') \/ Joining \/ Has("DESTROY")'
               PROVE  held = {} /\ ~Has("OPEN")' /\ ~Has("CLOSE")'
    BY <1>4 DEF ClearWhenThrough, ThroughAt
  <2>1. ThroughAt(wpc') \/ code = "DESTROY"
    BY <1>3
  <2>2. ThroughAt(wpc) /\ code \notin {"OPEN", "CLOSE"}
    BY <2>1
  <2> QED
    BY <1>3, <2>2 DEF ClearWhenThrough
<1>9. DestroyIsLast'
  BY <1>2, <1>4 DEF DestroyIsLast, Has
<1>10. OverlaysAreOurs'
  BY <1>2, <1>4 DEF OverlaysAreOurs
<1>11. UIIsOwed'
  BY <1>3, <1>4 DEF UIIsOwed
<1> QED
  BY <1>5, <1>6, <1>7, <1>8, <1>9, <1>10, <1>11

\* The main thread takes an event other than OPEN and CLOSE from the queue.
LEMMA OwedTakes ==
    ASSUME Owed, queue \in Seq(Event), queue # <<>>, queue' = Tail(queue),
           Head(queue).code \notin {"OPEN", "CLOSE"},
           UNCHANGED <<session, running, state>>,
           held' # {} => held # {},
           InLoop' => InLoop, InLoop' /\ Joining' => Joining \/ Has("DESTROY"),
           InLoop' /\ Joining' => queue' = <<>>,
           wpc \in Streaming => wpc' \in Streaming,
           InLoop /\ ThroughAt(wpc') =>
               ThroughAt(wpc) \/ (held = {} /\ ~Has("OPEN") /\ ~Has("CLOSE")),
           wpc' \in BeforeUiClose => wpc \in BeforeUiClose,
           wpc \in {"connect", "opened"} => wpc' \in {"connect", "opened"},
           uiOpen' = uiOpen \/ wpc' = "connect"
    PROVE  Owed'
<1> USE DEF Owed
<1>1. /\ DOMAIN queue = 1..Len(queue) /\ Len(queue) \in Nat /\ Len(queue') = Len(queue) - 1
      /\ Head(queue) = queue[1] /\ 1 \in DOMAIN queue
      /\ DOMAIN queue' = 1..(Len(queue) - 1)
      /\ \A i \in DOMAIN queue' : queue'[i] = queue[i + 1] /\ i + 1 \in DOMAIN queue
  BY TailEvent
<1>2. \A i \in DOMAIN queue : i = 1 \/ (i - 1 \in DOMAIN queue' /\ queue'[i - 1] = queue[i])
  BY <1>1
<1>3. /\ \A c : Has(c)' => Has(c)
      /\ Has("OPEN")' <=> Has("OPEN")
      /\ Has("CLOSE")' <=> Has("CLOSE")
  <2>1. ASSUME NEW c, NEW i \in DOMAIN queue', queue'[i].code = c
        PROVE  \E j \in DOMAIN queue : queue[j].code = c
    <3>1. i + 1 \in DOMAIN queue /\ queue[i + 1].code = c
      BY <1>1, <2>1
    <3> QED
      BY <3>1
  <2>2. ASSUME NEW c, c \in {"OPEN", "CLOSE"}, NEW i \in DOMAIN queue, queue[i].code = c
        PROVE  \E j \in DOMAIN queue' : queue'[j].code = c
    <3>1. i # 1
      BY <1>1, <2>2
    <3>2. i - 1 \in DOMAIN queue' /\ queue'[i - 1].code = c
      BY <1>2, <2>2, <3>1
    <3> QED
      BY <3>2
  <2> QED
    BY <2>1, <2>2 DEF Has
<1>4. OpenIsClosed'
  <2> SUFFICES ASSUME InLoop, NEW i \in DOMAIN queue', queue'[i].code = "OPEN",
                      wpc \notin Streaming
               PROVE  \E j \in DOMAIN queue' : j > i /\ queue'[j].code = "CLOSE"
    BY DEF OpenIsClosed
  <2>1. i + 1 \in DOMAIN queue /\ queue[i + 1].code = "OPEN"
    BY <1>1
  <2>2. PICK j \in DOMAIN queue : j > i + 1 /\ queue[j].code = "CLOSE"
    BY <2>1 DEF OpenIsClosed
  <2>3. j - 1 \in DOMAIN queue' /\ queue'[j - 1].code = "CLOSE" /\ j - 1 > i
    BY <1>1, <1>2, <2>2
  <2> QED
    BY <2>3
<1>5. HeldIsOwed'
  BY <1>3 DEF HeldIsOwed
<1>6. NothingFollowsUpsert'
  <2> SUFFICES ASSUME InLoop, NEW i \in DOMAIN queue', NEW j \in DOMAIN queue',
                      queue'[i].code = "UPSERT", j > i
               PROVE  queue'[j].code \notin {"OPEN", "CLOSE"}
    BY DEF NothingFollowsUpsert
  <2>1. /\ i + 1 \in DOMAIN queue /\ queue[i + 1].code = "UPSERT"
        /\ j + 1 \in DOMAIN queue /\ queue[j + 1] = queue'[j] /\ j + 1 > i + 1
    BY <1>1
  <2> QED
    BY <2>1 DEF NothingFollowsUpsert
<1>7. ClearWhenThrough'
  <2> SUFFICES ASSUME InLoop', ThroughAt(wpc') \/ Joining' \/ Has("DESTROY")'
               PROVE  held' = {} /\ ~Has("OPEN")' /\ ~Has("CLOSE")'
    BY DEF ClearWhenThrough, ThroughAt
  <2> QED
    BY <1>3 DEF ClearWhenThrough
<1>8. DestroyIsLast'
  BY <1>1 DEF DestroyIsLast
<1>9. OverlaysAreOurs'
  BY <1>1 DEF OverlaysAreOurs
<1>10. UIIsOwed'
  BY <1>3 DEF UIIsOwed, BeforeUiClose
<1> QED
  BY <1>4, <1>5, <1>6, <1>7, <1>8, <1>9, <1>10

\* An interrupt that sets the error tells that the session failed.
LEMMA ErrorStays ==
    ASSUME TypeOK, ErrorOnlyIfFailed, UNCHANGED <<session, wpc>>,
           \/ UNCHANGED <<errno, failed>>
           \/ \E quit \in BOOLEAN, err \in Errno : Interrupt(quit, err)
    PROVE  ErrorOnlyIfFailed'
<1>1. errno' # "ok" => failed' \/ (errno' = errno /\ failed' = failed)
  BY DEF Interrupt, TypeOK, HistoryTypes
<1> QED
  BY <1>1 DEF ErrorOnlyIfFailed

\* What has nothing to do with the queue, when only an interrupt, the user
\* interface or the main thread's place changes.
LEMMA QuietEnd ==
    ASSUME EndInv, UNCHANGED <<session, wpc, state, limeVars>>,
           \/ UNCHANGED <<errno, failed>>
           \/ \E quit \in BOOLEAN, err \in Errno : Interrupt(quit, err)
    PROVE  WorkerIsOurs' /\ ErrorIsLate' /\ PointersHeld' /\ ErrorOnlyIfFailed'
<1>1. WorkerIsOurs' /\ ErrorIsLate' /\ PointersHeld'
  BY DEF EndInv, WorkerIsOurs, ErrorIsLate, PointersHeld, limeVars
<1>2. ErrorOnlyIfFailed'
  BY ErrorStays DEF EndInv, IndInv
<1> QED
  BY <1>1, <1>2

LEMMA MainInputEnd ==
    ASSUME EndInv, MainInput
    PROVE  EndInv'
<1>0. IndInv' /\ TypeOK /\ Shape /\ Owed
  BY MainInputInv DEF EndInv, IndInv
<1>1. CASE SessionBegin
  <2>1. /\ session = NoSession /\ wpc = "none" /\ mpc = "loop" /\ uiOpen
        /\ wpc' = "begin" /\ session' = created + 1 /\ state' = "NONE" /\ queue' = queue
        /\ UNCHANGED <<running, mpc, inFilter, drained, uiOpen, held, limeVars>>
    BY <1>0, <1>1 DEF SessionBegin, AtMain, Shape, WorkerHasSession, mainVars, mainRest
  <2>2. InLoop /\ InLoop' /\ ~Joining /\ ~Joining' /\ ThroughAt(wpc)
    BY <2>1 DEF InLoop, Joining, ThroughAt
  <2>3. held = {} /\ ~Has("OPEN") /\ ~Has("CLOSE")
    BY <1>0, <2>2 DEF Owed, ClearWhenThrough
  <2>4. \A i \in DOMAIN queue : queue[i].code # "OVERLAY" /\ queue[i].code # "UPSERT"
    <3>1. \A i \in DOMAIN queue : queue[i].of # NoSession
      <4>1. \A i \in DOMAIN queue : queue[i] \in Event
        BY <1>0 DEF TypeOK, MainTypes
      <4>2. NoSession \notin SessionId
        BY SessionBound DEF SessionId, NoSession
      <4> QED
        BY <4>1, <4>2 DEF Event
    <3>2. ~drained
      BY <1>0, <2>1 DEF Shape, MainPhases
    <3> QED
      BY <1>0, <2>1, <2>2, <3>1, <3>2 DEF Owed, OverlaysAreOurs, Shape, RequestsAwaited
  <2>5. OpenIsClosed' /\ HeldIsOwed' /\ NothingFollowsUpsert' /\ OverlaysAreOurs'
    BY <2>1, <2>3, <2>4 DEF OpenIsClosed, HeldIsOwed, NothingFollowsUpsert, OverlaysAreOurs, Has
  <2>6. ClearWhenThrough' /\ DestroyIsLast' /\ UIIsOwed'
    BY <1>0, <2>1, <2>2, <2>3 DEF ClearWhenThrough, Owed, DestroyIsLast, UIIsOwed, Has
  <2>7. WorkerIsOurs' /\ ErrorIsLate'
    BY <2>1 DEF WorkerIsOurs, ErrorIsLate, EmbedPC
  <2>8. PointersHeld'
    <3>1. current = NoSession /\ ~conn
      BY <2>1, <1>0 DEF EndInv, PointersHeld, PreparedAt, ConnectedAt, Streaming
    <3> QED
      BY <2>1, <3>1 DEF EndInv, PointersHeld, limeVars
  <2>9. ErrorOnlyIfFailed'
    BY <2>1 DEF ErrorOnlyIfFailed
  <2> QED
    BY <1>0, <2>5, <2>6, <2>7, <2>8, <2>9 DEF EndInv, Owed
<1>2. CASE SessionBeginRefused
  <2>1. UNCHANGED <<mainVars, uiOpen, held, sessVars, wpc, limeVars, errno, failed>>
    BY <1>2 DEF SessionBeginRefused, histVars
  <2>2. Owed'
    BY <1>0, <2>1, OwedKeeps DEF InLoop, Joining, ThroughAt, mainVars, mainRest, sessVars
  <2>3. WorkerIsOurs' /\ ErrorIsLate' /\ PointersHeld' /\ ErrorOnlyIfFailed'
    BY <2>1, QuietEnd DEF sessVars
  <2> QED
    BY <1>0, <2>2, <2>3 DEF EndInv
<1>3. CASE (\E quit \in BOOLEAN : UserLeaves(quit)) \/ AppToBackground
  <2>1. PICK quit \in BOOLEAN :
            /\ Interrupt(quit, "ok")
            /\ UNCHANGED <<mainVars, uiVars, session, state, wpc, limeVars>>
    BY <1>3 DEF UserLeaves, AppToBackground
  <2>2. Owed'
    BY <1>0, <2>1, OwedKeeps DEF InLoop, Joining, ThroughAt, mainVars, mainRest, uiVars
  <2>3. WorkerIsOurs' /\ ErrorIsLate' /\ PointersHeld' /\ ErrorOnlyIfFailed'
    BY <2>1, QuietEnd DEF Errno
  <2> QED
    BY <1>0, <2>2, <2>3 DEF EndInv
<1>4. CASE InputAsksOverlay
  <2>1. /\ mpc = "loop" /\ session # NoSession /\ held # {}
        /\ queue' = Append(queue, [code |-> "OVERLAY", of |-> session])
        /\ UNCHANGED <<mainRest, uiVars, sessVars, wpc, limeVars, errno, failed>>
    BY <1>4 DEF InputAsksOverlay, AtMain, histVars
  <2>2. session \in SessionId /\ queue \in Seq(Event) /\ "OVERLAY" \in EventCode
    BY <1>0, <2>1 DEF TypeOK, SessionTypes, MainTypes, EventCode
  <2>3. InLoop => ~Joining /\ ~Has("DESTROY")
    BY <1>0, <2>1 DEF Owed, ClearWhenThrough, Joining
  <2>4. Owed'
    BY <1>0, <2>1, <2>2, <2>3, OwedPushes DEF mainRest, uiVars, sessVars
  <2>5. WorkerIsOurs' /\ ErrorIsLate' /\ PointersHeld' /\ ErrorOnlyIfFailed'
    BY <2>1, QuietEnd DEF sessVars
  <2> QED
    BY <1>0, <2>4, <2>5 DEF EndInv
<1>5. CASE AppRequestExit
  <2>1. /\ ~running' /\ UNCHANGED <<queue, mpc, inFilter, uiVars, sessVars, wpc, limeVars, errno, failed>>
    BY <1>5 DEF AppRequestExit, histVars
  <2>2. Owed'
    BY <1>0, <2>1, OwedKeeps DEF InLoop, Joining, ThroughAt, uiVars, sessVars
  <2>3. WorkerIsOurs' /\ ErrorIsLate' /\ PointersHeld' /\ ErrorOnlyIfFailed'
    BY <2>1, QuietEnd DEF sessVars
  <2> QED
    BY <1>0, <2>2, <2>3 DEF EndInv
<1> QED
  BY <1>1, <1>2, <1>3, <1>4, <1>5 DEF MainInput

LEMMA HandleEventEnd ==
    ASSUME EndInv, HandleEvent
    PROVE  EndInv'
<1>0. IndInv' /\ TypeOK /\ Shape /\ Owed
  BY HandleEventInv DEF EndInv, IndInv
<1>1. queue \in Seq(Event)
  BY <1>0 DEF TypeOK, MainTypes
<1>2. CASE OnConnecting \/ OnOverlay
  <2>1. /\ queue # <<>> /\ Head(queue).code \in {"CONNECTING", "OVERLAY"} /\ queue' = Tail(queue)
        /\ UNCHANGED <<mainRest, uiOpen, held, session, state, wpc, limeVars>>
        /\ UNCHANGED <<errno, failed>> \/ Interrupt(FALSE, "ok")
    BY <1>2 DEF OnConnecting, OnOverlay, Take, sessVars, uiVars, histVars
  <2>2. mpc = "loop" /\ ~Joining
    BY <1>2 DEF OnConnecting, OnOverlay, AtMain, Joining
  <2>3. Owed'
    BY <1>0, <1>1, <2>1, <2>2, OwedTakes DEF InLoop, Joining, mainRest
  <2>4. WorkerIsOurs' /\ ErrorIsLate' /\ PointersHeld' /\ ErrorOnlyIfFailed'
    BY <2>1, QuietEnd DEF Errno
  <2> QED
    BY <1>0, <2>3, <2>4 DEF EndInv
<1>3. CASE OnFinished
  <2>1. /\ queue # <<>> /\ Head(queue).code = "FINISHED" /\ queue' = Tail(queue)
        /\ held' = held \ {"hidtimer"}
        /\ UNCHANGED <<mainRest, uiOpen, sessVars, wpc, limeVars, errno, failed>>
    BY <1>3 DEF OnFinished, Take, histVars
  <2>2. mpc = "loop" /\ ~Joining
    BY <1>3 DEF OnFinished, AtMain, Joining
  <2>3. Owed'
    BY <1>0, <1>1, <2>1, <2>2, OwedTakes DEF InLoop, Joining, mainRest, sessVars
  <2>4. WorkerIsOurs' /\ ErrorIsLate' /\ PointersHeld' /\ ErrorOnlyIfFailed'
    BY <2>1, QuietEnd DEF sessVars
  <2> QED
    BY <1>0, <2>3, <2>4 DEF EndInv
<1>4. CASE OnOpen \/ OnClose
  <2>1. /\ queue # <<>> /\ Head(queue).code \in {"OPEN", "CLOSE"} /\ queue' = Tail(queue)
        /\ Head(queue).code = "CLOSE" => uiOpen' = TRUE /\ held' = held \ {"hidtimer", "awake", "input"}
        /\ Head(queue).code = "OPEN" => uiOpen' = uiOpen
        /\ UNCHANGED <<mainRest, sessVars, wpc, limeVars, errno, failed>>
    BY <1>4 DEF OnOpen, OnClose, Take, histVars
  <2>2. mpc = "loop" /\ InLoop /\ InLoop' /\ ~Joining /\ ~Joining'
    BY <1>4, <2>1 DEF OnOpen, OnClose, AtMain, InLoop, Joining, mainRest
  <2>3. /\ DOMAIN queue = 1..Len(queue) /\ Len(queue) \in Nat /\ Len(queue') = Len(queue) - 1
        /\ Head(queue) = queue[1] /\ 1 \in DOMAIN queue
        /\ DOMAIN queue' = 1..(Len(queue) - 1)
        /\ \A i \in DOMAIN queue' : queue'[i] = queue[i + 1] /\ i + 1 \in DOMAIN queue
    BY <1>1, <2>1, TailEvent
  <2>4. \A j \in DOMAIN queue : j > 1 => j - 1 \in DOMAIN queue' /\ queue'[j - 1] = queue[j]
    BY <2>3
  <2>5. Has("DESTROY")' => Has("DESTROY")
    <3>1. ASSUME NEW i \in DOMAIN queue', queue'[i].code = "DESTROY"
          PROVE  \E j \in DOMAIN queue : queue[j].code = "DESTROY"
      <4>1. i + 1 \in DOMAIN queue /\ queue[i + 1].code = "DESTROY"
        BY <2>3, <3>1
      <4> QED
        BY <4>1
    <3> QED
      BY <3>1 DEF Has
  <2>6. OpenIsClosed'
    <3> SUFFICES ASSUME NEW i \in DOMAIN queue', queue'[i].code = "OPEN", wpc \notin Streaming
                 PROVE  \E j \in DOMAIN queue' : j > i /\ queue'[j].code = "CLOSE"
      BY <2>1 DEF OpenIsClosed
    <3>1. i + 1 \in DOMAIN queue /\ queue[i + 1].code = "OPEN"
      BY <2>3
    <3>2. PICK j \in DOMAIN queue : j > i + 1 /\ queue[j].code = "CLOSE"
      BY <1>0, <2>2, <3>1 DEF Owed, OpenIsClosed
    <3>3. j > 1 /\ j - 1 > i
      BY <2>3, <3>2
    <3>4. j - 1 \in DOMAIN queue' /\ queue'[j - 1].code = "CLOSE"
      BY <2>4, <3>2, <3>3
    <3> QED
      BY <3>3, <3>4
  <2>7. ASSUME Head(queue).code = "OPEN"
        PROVE  HeldIsOwed' /\ UIIsOwed' /\ ClearWhenThrough'
    <3>1. wpc \in Streaming \/ Has("CLOSE")'
      <4>1. wpc \in Streaming \/ \E j \in DOMAIN queue : j > 1 /\ queue[j].code = "CLOSE"
        BY <1>0, <2>2, <2>3, <2>7 DEF Owed, OpenIsClosed
      <4> QED
        BY <2>4, <4>1 DEF Has
    <3>2. HeldIsOwed' /\ UIIsOwed'
      <4>1. Has("CLOSE") => Has("CLOSE")'
        <5>1. ASSUME NEW j \in DOMAIN queue, queue[j].code = "CLOSE"
              PROVE  \E k \in DOMAIN queue' : queue'[k].code = "CLOSE"
          <6>1. j > 1
            BY <2>3, <2>7, <5>1
          <6> QED
            BY <2>4, <5>1, <6>1
        <5> QED
          BY <5>1 DEF Has
      <4> QED
        BY <1>0, <2>1, <2>2, <2>7, <3>1, <4>1 DEF Owed, HeldIsOwed, UIIsOwed, sessVars
    <3>3. ClearWhenThrough'
      <4>1. Has("OPEN")
        BY <2>3, <2>7 DEF Has
      <4>2. ~ThroughAt(wpc) /\ ~Has("DESTROY")
        BY <1>0, <2>2, <4>1 DEF Owed, ClearWhenThrough
      <4> QED
        BY <2>1, <2>2, <2>5, <4>2 DEF ClearWhenThrough, ThroughAt, mainRest
    <3> QED
      BY <3>2, <3>3
  <2>8. ASSUME Head(queue).code = "CLOSE"
        PROVE  HeldIsOwed' /\ UIIsOwed' /\ ClearWhenThrough'
    <3>1. held' = {}
      BY <1>0, <2>1, <2>8 DEF TypeOK, UITypes, Resource
    <3>2. HeldIsOwed' /\ UIIsOwed'
      BY <2>1, <2>8, <3>1 DEF HeldIsOwed, UIIsOwed
    <3>3. ClearWhenThrough'
      <4>1. Has("CLOSE")
        BY <2>3, <2>8 DEF Has
      <4>2. ~ThroughAt(wpc) /\ ~Has("DESTROY")
        BY <1>0, <2>2, <4>1 DEF Owed, ClearWhenThrough
      <4> QED
        BY <2>1, <2>2, <2>5, <4>2 DEF ClearWhenThrough, ThroughAt, mainRest
    <3> QED
      BY <3>2, <3>3
  <2>9. NothingFollowsUpsert'
    <3> SUFFICES ASSUME NEW i \in DOMAIN queue', NEW j \in DOMAIN queue',
                        queue'[i].code = "UPSERT", j > i
                 PROVE  queue'[j].code \notin {"OPEN", "CLOSE"}
      BY DEF NothingFollowsUpsert
    <3>1. /\ i + 1 \in DOMAIN queue /\ queue[i + 1].code = "UPSERT"
          /\ j + 1 \in DOMAIN queue /\ queue[j + 1] = queue'[j] /\ j + 1 > i + 1
      BY <2>3
    <3> QED
      BY <1>0, <2>2, <3>1 DEF Owed, NothingFollowsUpsert
  <2>10. DestroyIsLast' /\ OverlaysAreOurs'
    BY <1>0, <2>1, <2>2, <2>3 DEF Owed, DestroyIsLast, OverlaysAreOurs, sessVars
  <2>11. WorkerIsOurs' /\ ErrorIsLate' /\ PointersHeld' /\ ErrorOnlyIfFailed'
    BY <2>1, QuietEnd DEF sessVars
  <2> QED
    BY <1>0, <2>1, <2>6, <2>7, <2>8, <2>9, <2>10, <2>11 DEF EndInv, Owed
<1>5. CASE OnUiClose
  <2>1. /\ queue # <<>> /\ Head(queue).code = "UI_CLOSE" /\ queue' = Tail(queue)
        /\ uiOpen' = FALSE /\ wpc' = IF Embed THEN "attach" ELSE "connect"
        /\ UNCHANGED <<mainRest, held, sessVars, limeVars, errno, failed>>
    BY <1>5 DEF OnUiClose, Take, histVars
  <2>2. ~Joining /\ ~drained
    BY <1>0, <1>5 DEF OnUiClose, RunsActions, Joining, Shape, MainPhases
  <2>3. wpc = "setup_wait" /\ wpc' = "connect"
    <3>1. wpc \in {"setup_wait", "ui_wait"}
      BY <1>0, <1>1, <2>1, <2>2, TailEvent DEF Shape, RequestsAwaited
    <3> QED
      BY <2>1, <3>1 DEF EndInv, WorkerIsOurs, EmbedPC
  <2>4. Owed'
    BY <1>0, <1>1, <2>1, <2>2, <2>3, OwedTakes
       DEF InLoop, Joining, ThroughAt, BeforeOpen, BeforeUiClose, Streaming, mainRest, sessVars
  <2>5. WorkerIsOurs' /\ ErrorIsLate'
    BY <2>1, <2>3 DEF EndInv, WorkerIsOurs, ErrorIsLate, EmbedPC, sessVars
  <2>6. PointersHeld' /\ ErrorOnlyIfFailed'
    BY <2>1, <2>3 DEF EndInv, PointersHeld, PreparedAt, ConnectedAt, ErrorOnlyIfFailed,
       sessVars, limeVars
  <2> QED
    BY <1>0, <2>4, <2>5, <2>6 DEF EndInv
<1>6. CASE OnUpsert
  <2>1. /\ queue # <<>> /\ Head(queue).code = "UPSERT" /\ queue' = Tail(queue) /\ wpc' = "reset"
        /\ UNCHANGED <<mainRest, uiVars, sessVars, limeVars, errno, failed>>
    BY <1>6 DEF OnUpsert, Take, histVars
  <2>2. ~Joining /\ ~drained
    BY <1>0, <1>6 DEF OnUpsert, RunsActions, Joining, Shape, MainPhases
  <2>3. /\ DOMAIN queue = 1..Len(queue) /\ Len(queue) \in Nat
        /\ Head(queue) = queue[1] /\ 1 \in DOMAIN queue
    BY <1>1, <2>1, TailEvent
  <2>4. wpc = "update_wait"
    BY <1>0, <2>1, <2>2, <2>3 DEF Shape, RequestsAwaited
  <2>5. InLoop => held = {} /\ ~Has("OPEN") /\ ~Has("CLOSE")
    <3> SUFFICES ASSUME InLoop PROVE held = {} /\ ~Has("OPEN") /\ ~Has("CLOSE")
      OBVIOUS
    <3>1. \A j \in DOMAIN queue : j = 1 \/ j > 1
      BY <2>3
    <3>2. ~Has("OPEN") /\ ~Has("CLOSE")
      BY <1>0, <2>1, <2>3, <3>1 DEF Owed, NothingFollowsUpsert, Has
    <3> QED
      BY <1>0, <2>4, <3>2 DEF Owed, HeldIsOwed, Streaming
  <2>6. Owed'
    BY <1>0, <1>1, <2>1, <2>2, <2>4, <2>5, OwedTakes
       DEF InLoop, Joining, BeforeUiClose, Streaming, mainRest, uiVars, sessVars
  <2>7. WorkerIsOurs' /\ ErrorIsLate'
    BY <2>1, <2>4 DEF EndInv, WorkerIsOurs, ErrorIsLate, EmbedPC, sessVars
  <2>8. PointersHeld' /\ ErrorOnlyIfFailed'
    BY <2>1, <2>4 DEF EndInv, PointersHeld, PreparedAt, ConnectedAt, Streaming,
       ErrorOnlyIfFailed, sessVars, limeVars
  <2> QED
    BY <1>0, <2>6, <2>7, <2>8 DEF EndInv
<1>7. CASE OnDestroy
  <2>1. /\ queue # <<>> /\ Head(queue).code = "DESTROY" /\ queue' = Tail(queue)
        /\ UNCHANGED <<running, drained, uiVars, session, state, wpc, limeVars>>
        /\ mpc \in {"loop", "drain"}
    BY <1>7 DEF OnDestroy, RunsActions, Take
  <2>2. ~Joining /\ ~drained /\ ~inFilter
    BY <1>0, <2>1 DEF Joining, Shape, MainPhases
  <2>3. /\ DOMAIN queue = 1..Len(queue) /\ Len(queue) \in Nat
        /\ Head(queue) = queue[1] /\ 1 \in DOMAIN queue
        /\ DOMAIN Tail(queue) = 1..(Len(queue) - 1) /\ Tail(queue) \in Seq(Event)
    BY <1>1, <2>1, TailEvent
  <2>4. wpc = "done" /\ session # NoSession
    BY <1>0, <2>1, <2>2, <2>3 DEF Shape, DestroyComesLast, WorkerHasSession
  <2>5. Interrupt(FALSE, "ok") /\ mpc' = "join_mouse" /\ inFilter' = (mpc = "loop")
    BY <1>7, <2>4 DEF OnDestroy
  <2>6. InLoop => queue' = <<>>
    <3>1. InLoop => Len(queue) = 1
      BY <1>0, <2>1, <2>3 DEF Owed, DestroyIsLast
    <3>2. Len(queue) = 1 => Tail(queue) = <<>>
      BY <2>3
    <3> QED
      BY <2>1, <3>1, <3>2
  <2>7. Has("DESTROY")
    BY <2>1, <2>3 DEF Has
  <2>8. Owed'
    BY <1>0, <1>1, <2>1, <2>2, <2>4, <2>5, <2>6, <2>7, OwedTakes
       DEF InLoop, Joining, ThroughAt, uiVars
  <2>9. WorkerIsOurs' /\ ErrorIsLate' /\ PointersHeld' /\ ErrorOnlyIfFailed'
    BY <2>1, <2>5, QuietEnd DEF Errno
  <2> QED
    BY <1>0, <2>8, <2>9 DEF EndInv
<1> QED
  BY <1>2, <1>3, <1>4, <1>5, <1>6, <1>7 DEF HandleEvent

LEMMA JoinLeaveEnd ==
    ASSUME EndInv, FragmentDeleted \/ Join \/ Leave
    PROVE  EndInv'
<1>0. IndInv' /\ TypeOK /\ Shape /\ Owed
  BY JoinLeaveInv DEF EndInv, IndInv
<1>1. CASE FragmentDeleted \/ JoinMouse
  <2>1. /\ UNCHANGED <<running, queue, inFilter, uiOpen, held, sessVars, wpc, limeVars, errno, failed>>
        /\ mpc' = mpc \/ (Joining /\ mpc' = "join_worker" /\ mpc # "loop")
    BY <1>1 DEF FragmentDeleted, JoinMouse, AtMain, Joining, mainVars, mainRest, uiVars, histVars
  <2>2. Owed'
    BY <1>0, <2>1, OwedKeeps DEF InLoop, Joining, ThroughAt, sessVars
  <2>3. WorkerIsOurs' /\ ErrorIsLate' /\ PointersHeld' /\ ErrorOnlyIfFailed'
    BY <2>1, QuietEnd DEF sessVars
  <2> QED
    BY <1>0, <2>2, <2>3 DEF EndInv
<1>2. CASE JoinWorker
  <2>1. /\ mpc = "join_worker" /\ wpc = "done" /\ session' = NoSession /\ wpc' = "none"
        /\ inFilter' = FALSE
        /\ mpc' = IF inFilter THEN "loop" ELSE IF drained THEN "deinit" ELSE "drain"
        /\ UNCHANGED <<queue, uiOpen, held, state, limeVars>>
    BY <1>2 DEF JoinWorker, AtMain
  <2>2. Owed'
    <3>1. CASE ~inFilter
      <4>1. ~InLoop'
        BY <2>1, <3>1 DEF InLoop
      <4> QED
        BY <4>1 DEF Owed, OpenIsClosed, HeldIsOwed, NothingFollowsUpsert,
           ClearWhenThrough, DestroyIsLast, OverlaysAreOurs, UIIsOwed
    <3>2. CASE inFilter
      <4>1. InLoop /\ Joining
        BY <2>1, <3>2 DEF InLoop, Joining
      <4>2. queue = <<>> /\ held = {}
        BY <1>0, <4>1 DEF Owed, DestroyIsLast, ClearWhenThrough
      <4>3. DOMAIN queue = {} /\ DOMAIN queue' = {}
        BY <2>1, <4>2
      <4>4. ~uiOpen => state = "ERROR"
        BY <1>0, <2>1, <4>1, <4>3 DEF Owed, UIIsOwed, Has, Streaming
      <4>5. OpenIsClosed' /\ NothingFollowsUpsert' /\ OverlaysAreOurs' /\ DestroyIsLast'
        BY <2>1, <4>2, <4>3 DEF OpenIsClosed, NothingFollowsUpsert, OverlaysAreOurs, DestroyIsLast
      <4>6. HeldIsOwed' /\ ClearWhenThrough' /\ UIIsOwed'
        BY <2>1, <4>2, <4>3, <4>4 DEF HeldIsOwed, ClearWhenThrough, UIIsOwed, Has, BeforeUiClose
      <4> QED
        BY <4>5, <4>6 DEF Owed
    <3> QED
      BY <3>1, <3>2
  <2>3. WorkerIsOurs' /\ ErrorIsLate' /\ ErrorOnlyIfFailed'
    BY <2>1 DEF EndInv, WorkerIsOurs, ErrorIsLate, ErrorOnlyIfFailed, EmbedPC
  <2>4. PointersHeld'
    <3>1. current = NoSession /\ ~conn
      BY <2>1 DEF EndInv, PointersHeld, PreparedAt, ConnectedAt, Streaming
    <3> QED
      BY <2>1, <3>1 DEF EndInv, PointersHeld, limeVars
  <2> QED
    BY <1>0, <2>2, <2>3, <2>4 DEF EndInv
<1>3. CASE Leave
  <2>1. /\ mpc \in {"loop", "drain", "deinit"} /\ mpc' # "loop"
        /\ UNCHANGED <<inFilter, session, wpc, state, limeVars>>
        /\ UNCHANGED <<errno, failed>> \/ Interrupt(FALSE, "ok")
    BY <1>3 DEF Leave, LeaveLoop, DrainDrops, DrainEnds, Deinit, AtMain, mainRest, sessVars,
       histVars
  <2>2. ~InLoop'
    BY <1>0, <2>1 DEF InLoop, Shape, MainPhases, Joining
  <2>3. Owed'
    BY <2>2 DEF Owed, OpenIsClosed, HeldIsOwed, NothingFollowsUpsert,
       ClearWhenThrough, DestroyIsLast, OverlaysAreOurs, UIIsOwed
  <2>4. WorkerIsOurs' /\ ErrorIsLate' /\ PointersHeld' /\ ErrorOnlyIfFailed'
    BY <2>1, QuietEnd DEF Errno
  <2> QED
    BY <1>0, <2>3, <2>4 DEF EndInv
<1> QED
  BY <1>1, <1>2, <1>3 DEF Join

\* A step of the worker that leaves the queue alone.
LEMMA WorkerKeeps ==
    ASSUME Owed, UNCHANGED <<queue, workerRest>>,
           state = "ERROR" => state' = "ERROR",
           wpc \in Streaming => wpc' \in Streaming,
           ThroughAt(wpc') => ThroughAt(wpc),
           wpc' \in BeforeUiClose => wpc \in BeforeUiClose,
           wpc \in {"connect", "opened"} =>
               wpc' \in {"connect", "opened"} \cup Streaming \/ state' = "ERROR"
    PROVE  Owed'
<1>1. UNCHANGED <<queue, session, uiOpen, running, mpc, inFilter, held>>
  BY DEF workerRest, mainRest, uiVars
<1>2. ThroughAt(wpc)' => ThroughAt(wpc')
  BY <1>1 DEF ThroughAt
<1> QED
  BY <1>1, <1>2, OwedKeeps DEF InLoop, Joining

\* A step of the worker that pushes an event.
LEMMA WorkerPushesOwed ==
    ASSUME EndInv, NEW code \in EventCode, Push(code), UNCHANGED workerRest,
           wpc \notin {"none", "done", "update_wait"},
           wpc \in Streaming => wpc' \in Streaming \/ code = "CLOSE",
           code = "OPEN" => wpc' \in Streaming,
           ThroughAt(wpc') => ThroughAt(wpc) /\ code \notin {"OPEN", "CLOSE"},
           code = "DESTROY" => ThroughAt(wpc),
           state = "ERROR" => state' = "ERROR",
           wpc' \in BeforeUiClose => wpc \in BeforeUiClose,
           wpc \in {"connect", "opened"} => wpc' \in {"connect", "opened"} \cup Streaming
    PROVE  Owed'
<1>0. TypeOK /\ Shape /\ Owed
  BY DEF EndInv, IndInv
<1>1. /\ queue' = Append(queue, [code |-> code, of |-> session]) /\ ~inFilter
      /\ UNCHANGED <<session, running, held, uiOpen, mpc, inFilter>>
  BY DEF Push, workerRest, mainRest, uiVars
<1>2. session \in SessionId /\ queue \in Seq(Event)
  BY <1>0 DEF TypeOK, SessionTypes, MainTypes, Shape, WorkerHasSession
<1>3. InLoop => ~Joining /\ ~drained
  BY <1>0, <1>1 DEF InLoop, Joining, Shape, MainPhases
<1>4. InLoop => ~Has("DESTROY") /\ ~Has("UPSERT")
  BY <1>0, <1>3 DEF Shape, DestroyComesLast, RequestsAwaited, Has
<1> QED
  BY <1>0, <1>1, <1>2, <1>3, <1>4, OwedPushes

\* Before Limelight is prepared, and after it is down, nobody has the session.
LEMMA NoPointers ==
    ASSUME PointersHeld
    PROVE  /\ wpc \notin PreparedAt => current = NoSession
           /\ wpc \notin ConnectedAt =>
                  ~conn /\ callback.at \notin {"fired", "error", "interrupt"}
BY DEF PointersHeld

\* The first steps of the worker, up to the call of Limelight
LEMMA WorkerStartsEnd ==
    ASSUME EndInv, WorkerBegin \/ WorkerSeesMouse \/ WorkerLaunches \/ WorkerLaunchFails
                   \/ WorkerPrepares
    PROVE  EndInv'
<1>0. IndInv' /\ TypeOK /\ Shape /\ Owed
  BY WorkerStepInv DEF EndInv, IndInv, WorkerStep
<1> USE DEF ThroughAt, BeforeOpen, BeforeUiClose, Streaming, AfterUpdate
<1>1. CASE WorkerBegin
  <2>1. /\ ~Embed /\ wpc = "begin" /\ wpc' \in {"mouse", "launch"} /\ Push("CONNECTING")
        /\ errno' = "ok" /\ UNCHANGED <<workerRest, limeVars>> /\ state' = "CONNECTING"
    BY <1>1 DEF WorkerBegin, GoWorker, AtWorker
  <2>2. state # "ERROR" /\ "CONNECTING" \in EventCode
    BY <2>1 DEF EndInv, ErrorIsLate, EventCode, StreamCode
  <2>3. Owed'
    BY <2>1, <2>2, WorkerPushesOwed
  <2>4. WorkerIsOurs' /\ ErrorIsLate' /\ ErrorOnlyIfFailed'
    BY <2>1 DEF WorkerIsOurs, ErrorIsLate, ErrorOnlyIfFailed, EmbedPC
  <2>5. PointersHeld'
    <3>1. current = NoSession /\ ~conn /\ callback.at \notin {"fired", "error", "interrupt"}
      BY <2>1, NoPointers DEF EndInv, PreparedAt, ConnectedAt
    <3> QED
      BY <2>1, <3>1 DEF PointersHeld, limeVars
  <2> QED
    BY <1>0, <2>3, <2>4, <2>5 DEF EndInv
<1>2. CASE WorkerSeesMouse \/ WorkerLaunches
  <2>1. /\ wpc \in {"mouse", "launch"} /\ wpc' \in {"launch", "prepare"}
        /\ UNCHANGED <<queue, workerRest, state, limeVars, errno, failed>>
    BY <1>2 DEF WorkerSeesMouse, WorkerLaunches, GoWorker, AtWorker, histVars
  <2>2. Owed'
    BY <1>0, <2>1, WorkerKeeps
  <2>3. WorkerIsOurs' /\ ErrorIsLate' /\ ErrorOnlyIfFailed'
    BY <2>1 DEF EndInv, WorkerIsOurs, ErrorIsLate, ErrorOnlyIfFailed, EmbedPC, workerRest
  <2>4. PointersHeld'
    <3>1. current = NoSession /\ ~conn /\ callback.at \notin {"fired", "error", "interrupt"}
      BY <2>1, NoPointers DEF EndInv, PreparedAt, ConnectedAt
    <3> QED
      BY <2>1, <3>1 DEF PointersHeld, limeVars
  <2> QED
    BY <1>0, <2>2, <2>3, <2>4 DEF EndInv
<1>3. CASE WorkerLaunchFails
  <2>1. /\ wpc = "launch" /\ wpc' = "cleanup" /\ state' = "ERROR" /\ failed' = TRUE
        /\ UNCHANGED <<queue, workerRest, limeVars>>
    BY <1>3 DEF WorkerLaunchFails, GoWorker, AtWorker
  <2>2. Owed'
    BY <1>0, <2>1, WorkerKeeps
  <2>3. WorkerIsOurs' /\ ErrorIsLate' /\ ErrorOnlyIfFailed'
    BY <2>1 DEF EndInv, WorkerIsOurs, ErrorIsLate, ErrorOnlyIfFailed, EmbedPC
  <2>4. PointersHeld'
    <3>1. current = NoSession /\ ~conn /\ callback.at \notin {"fired", "error", "interrupt"}
      BY <2>1, NoPointers DEF EndInv, PreparedAt, ConnectedAt
    <3> QED
      BY <2>1, <3>1 DEF PointersHeld, limeVars
  <2> QED
    BY <1>0, <2>2, <2>3, <2>4 DEF EndInv
<1>4. CASE WorkerPrepares
  <2>1. /\ wpc = "prepare" /\ wpc' \in {"setup", "connect"}
        /\ current' = session /\ conn' = TRUE /\ callback' = NoCallback
        /\ UNCHANGED <<queue, workerRest, state, errno, failed>>
    BY <1>4 DEF WorkerPrepares, GoWorker, AtWorker, histVars
  <2>2. Owed'
    BY <1>0, <2>1, WorkerKeeps
  <2>3. WorkerIsOurs' /\ ErrorIsLate' /\ ErrorOnlyIfFailed'
    BY <2>1 DEF EndInv, WorkerIsOurs, ErrorIsLate, ErrorOnlyIfFailed, EmbedPC, workerRest
  <2>4. PointersHeld'
    <3>1. callback'.at = "idle" /\ session' = session
      BY <2>1 DEF NoCallback, workerRest
    <3> QED
      BY <2>1, <3>1 DEF PointersHeld, PreparedAt, ConnectedAt
  <2> QED
    BY <1>0, <2>2, <2>3, <2>4 DEF EndInv
<1> QED
  BY <1>1, <1>2, <1>3, <1>4

\* The steps of the worker while Limelight is up
LEMMA WorkerStreamsEnd ==
    ASSUME EndInv, SetupTests \/ SetupPushes \/ WorkerConnects \/ WorkerConnectFails
                   \/ WorkerOpens \/ WorkerWoken \/ WorkerCloses \/ WorkerStops
    PROVE  EndInv'
<1>0. IndInv' /\ TypeOK /\ Shape /\ Owed
  BY WorkerStepInv DEF EndInv, IndInv, WorkerStep
<1> USE DEF ThroughAt, BeforeOpen, BeforeUiClose, Streaming, AfterUpdate
<1>1. CASE SetupTests \/ WorkerConnects \/ WorkerWoken
  <2>1. /\ \/ wpc = "setup" /\ wpc' \in {"setup_push", "connect"}
           \/ wpc = "connect" /\ wpc' = "opened"
           \/ wpc = "wait" /\ wpc' = "close"
        /\ UNCHANGED <<queue, workerRest, state, limeVars, errno, failed>>
    BY <1>1 DEF SetupTests, PostSyncTests, WorkerConnects, WorkerWoken, GoWorker, AtWorker,
       histVars
  <2>2. Owed'
    BY <1>0, <2>1, WorkerKeeps
  <2>3. WorkerIsOurs' /\ ErrorIsLate' /\ ErrorOnlyIfFailed'
    BY <2>1 DEF EndInv, WorkerIsOurs, ErrorIsLate, ErrorOnlyIfFailed, EmbedPC, workerRest
  <2>4. PointersHeld'
    BY <2>1 DEF EndInv, PointersHeld, PreparedAt, ConnectedAt, limeVars, workerRest
  <2> QED
    BY <1>0, <2>2, <2>3, <2>4 DEF EndInv
<1>2. CASE SetupPushes \/ WorkerOpens \/ WorkerCloses
  <2>1. PICK code \in {"UI_CLOSE", "OPEN", "CLOSE"} :
        /\ Push(code)
        /\ code = "UI_CLOSE" => wpc = "setup_push" /\ wpc' = "setup_wait"
        /\ code = "OPEN" => wpc = "opened" /\ wpc' = "wait"
        /\ code = "CLOSE" => wpc = "close" /\ wpc' = "stop"
        /\ state' # "ERROR" \/ state' = state
        /\ UNCHANGED <<workerRest, limeVars, errno, failed>>
    BY <1>2 DEF SetupPushes, PostSyncPushes, WorkerOpens, WorkerCloses, GoWorker, AtWorker,
       histVars
  <2>2. state # "ERROR" /\ state' # "ERROR" /\ code \in EventCode
    BY <2>1 DEF EndInv, ErrorIsLate, EventCode, StreamCode, ActionCode
  <2>3. Owed'
    BY <2>1, <2>2, WorkerPushesOwed
  <2>4. WorkerIsOurs' /\ ErrorIsLate' /\ ErrorOnlyIfFailed'
    BY <2>1, <2>2 DEF EndInv, WorkerIsOurs, ErrorIsLate, ErrorOnlyIfFailed, EmbedPC, workerRest
  <2>5. PointersHeld'
    BY <2>1 DEF EndInv, PointersHeld, PreparedAt, ConnectedAt, limeVars, workerRest
  <2> QED
    BY <1>0, <2>3, <2>4, <2>5 DEF EndInv
<1>3. CASE WorkerConnectFails
  <2>1. /\ wpc = "connect" /\ wpc' = "cleanup" /\ state' = "ERROR" /\ failed' = TRUE
        /\ conn' = FALSE /\ callback.at \in {"idle", "gone"}
        /\ UNCHANGED <<queue, workerRest, current, callback>>
    BY <1>3 DEF WorkerConnectFails, GoWorker, AtWorker
  <2>2. Owed'
    BY <1>0, <2>1, WorkerKeeps
  <2>3. WorkerIsOurs' /\ ErrorIsLate' /\ ErrorOnlyIfFailed'
    BY <2>1 DEF EndInv, WorkerIsOurs, ErrorIsLate, ErrorOnlyIfFailed, EmbedPC
  <2>4. PointersHeld'
    BY <2>1 DEF EndInv, PointersHeld, PreparedAt, workerRest
  <2> QED
    BY <1>0, <2>2, <2>3, <2>4 DEF EndInv
<1>4. CASE WorkerStops
  <2>1. /\ wpc = "stop" /\ wpc' = "quit"
        /\ conn' = FALSE /\ callback.at \in {"idle", "gone"}
        /\ UNCHANGED <<queue, workerRest, state, current, callback, errno, failed>>
    BY <1>4 DEF WorkerStops, GoWorker, AtWorker, histVars
  <2>2. Owed'
    BY <1>0, <2>1, WorkerKeeps
  <2>3. WorkerIsOurs' /\ ErrorIsLate' /\ ErrorOnlyIfFailed'
    BY <2>1 DEF EndInv, WorkerIsOurs, ErrorIsLate, ErrorOnlyIfFailed, EmbedPC, workerRest
  <2>4. PointersHeld'
    BY <2>1 DEF EndInv, PointersHeld, PreparedAt, workerRest
  <2> QED
    BY <1>0, <2>2, <2>3, <2>4 DEF EndInv
<1> QED
  BY <1>1, <1>2, <1>3, <1>4

\* The last steps of the worker
LEMMA WorkerLeavesEnd ==
    ASSUME EndInv, WorkerQuits \/ WorkerCleansUp \/ WorkerEnd
    PROVE  EndInv'
<1>0. IndInv' /\ TypeOK /\ Shape /\ Owed
  BY WorkerStepInv DEF EndInv, IndInv, WorkerStep
<1> USE DEF ThroughAt, BeforeOpen, BeforeUiClose, Streaming, AfterUpdate
<1>1. CASE WorkerQuits \/ UpdateTests \/ WorkerResets \/ DestroyTests
  <2>1. /\ \/ wpc = "quit" /\ wpc' = "update" /\ state' = state
           \/ wpc = "update" /\ running /\ wpc' = "update_push" /\ state' = state
           \/ wpc = "update" /\ ~running /\ wpc' = "reset" /\ state' = state
           \/ wpc = "reset" /\ wpc' = IF Embed THEN "finished" ELSE "cleanup"
           \/ wpc = "post" /\ wpc' = (IF running THEN "post_push" ELSE "done") /\ state' = state
        /\ state' # "ERROR" \/ state' = state
        /\ UNCHANGED <<queue, workerRest, limeVars, errno, failed>>
    BY <1>1 DEF WorkerQuits, UpdateTests, PostSyncTests, WorkerResets, DestroyTests, GoWorker,
       AtWorker, histVars
  <2>2. ~Embed
    BY <2>1 DEF EndInv, WorkerIsOurs
  <2>3. state = "ERROR" => wpc = "post" /\ state' = "ERROR"
    BY <2>1 DEF EndInv, ErrorIsLate
  <2>4. Owed'
    BY <1>0, <2>1, <2>3, WorkerKeeps
  <2>5. WorkerIsOurs' /\ ErrorIsLate' /\ ErrorOnlyIfFailed'
    BY <2>1, <2>2, <2>3 DEF EndInv, WorkerIsOurs, ErrorIsLate, ErrorOnlyIfFailed, EmbedPC,
       workerRest
  <2>6. PointersHeld'
    BY <2>1, <2>2 DEF EndInv, PointersHeld, PreparedAt, ConnectedAt, limeVars, workerRest
  <2> QED
    BY <1>0, <2>4, <2>5, <2>6 DEF EndInv
<1>2. CASE UpdatePushes \/ WorkerFinishes \/ DestroyPushes
  <2>1. PICK code \in {"UPSERT", "FINISHED", "DESTROY"} :
        /\ Push(code)
        /\ code = "UPSERT" => wpc = "update_push" /\ wpc' = "update_wait"
        /\ code = "FINISHED" => wpc = "finished" /\ wpc' = "post"
        /\ code = "DESTROY" => wpc = "post_push" /\ wpc' = "done"
        /\ UNCHANGED <<workerRest, state, limeVars, errno, failed>>
    BY <1>2 DEF UpdatePushes, PostSyncPushes, WorkerFinishes, DestroyPushes, GoWorker, AtWorker,
       histVars
  <2>2. /\ code \in EventCode /\ running' = running
        /\ state = "ERROR" => code # "UPSERT"
    BY <2>1 DEF EndInv, ErrorIsLate, EventCode, StreamCode, ActionCode, workerRest, mainRest
  <2>3. Owed'
    BY <2>1, <2>2, WorkerPushesOwed
  <2>4. WorkerIsOurs' /\ ErrorIsLate' /\ ErrorOnlyIfFailed'
    BY <2>1, <2>2 DEF EndInv, WorkerIsOurs, ErrorIsLate, ErrorOnlyIfFailed, EmbedPC, workerRest
  <2>5. PointersHeld'
    BY <2>1 DEF EndInv, PointersHeld, PreparedAt, ConnectedAt, limeVars, workerRest
  <2> QED
    BY <1>0, <2>3, <2>4, <2>5 DEF EndInv
<1>3. CASE WorkerCleansUp
  <2>1. /\ wpc = "cleanup" /\ wpc' = "finished" /\ current' = NoSession
        /\ UNCHANGED <<queue, workerRest, state, conn, callback, errno, failed>>
    BY <1>3 DEF WorkerCleansUp, GoWorker, AtWorker, histVars
  <2>2. Owed'
    BY <1>0, <2>1, WorkerKeeps
  <2>3. WorkerIsOurs' /\ ErrorIsLate' /\ ErrorOnlyIfFailed'
    BY <2>1 DEF EndInv, WorkerIsOurs, ErrorIsLate, ErrorOnlyIfFailed, EmbedPC, workerRest
  <2>4. PointersHeld'
    <3>1. ~conn /\ callback.at \notin {"fired", "error", "interrupt"}
      BY <2>1, NoPointers DEF EndInv, ConnectedAt
    <3> QED
      BY <2>1, <3>1 DEF PointersHeld
  <2> QED
    BY <1>0, <2>2, <2>3, <2>4 DEF EndInv
<1> QED
  BY <1>1, <1>2, <1>3 DEF WorkerEnd

\* The mouse thread and the threads of Limelight
LEMMA OtherThreadsEnd ==
    ASSUME EndInv, MouseStep \/ CallbackStep \/ LimelightFails \/ Stopped \/ UNCHANGED vars
    PROVE  EndInv'
<1>0. TypeOK /\ Shape /\ Owed /\ PointersHeld
  BY DEF EndInv, IndInv
<1>1. IndInv'
  BY OtherThreadsInv, NextIndInv DEF EndInv
<1>2. UNCHANGED <<running, queue, mpc, inFilter, uiVars, session, state, wpc, current, conn>>
  BY DEF MouseStep, MouseOpens, MouseCloses, mouseRest, CallbackStep, TerminationReads,
     TerminationSetsError, TerminationInterrupts, callbackRest, LimelightFails,
     TerminationFires, DecoderFails, Stopped, vars, mainVars, mainRest, sessVars, limeVars
<1>3. Owed'
  BY <1>0, <1>2, OwedKeeps DEF InLoop, Joining, ThroughAt, uiVars
<1>4. WorkerIsOurs' /\ ErrorIsLate'
  BY <1>2 DEF EndInv, WorkerIsOurs, ErrorIsLate
<1>5. PointersHeld'
  <2>1. CASE callback' = callback
    BY <1>0, <1>2, <2>1 DEF PointersHeld
  <2>2. CASE LimelightFails /\ callback' # callback
    <3>1. conn /\ callback'.at = "fired"
      <4>1. PICK kind \in {"host", "network"} : TerminationFires(kind)
        BY <2>2 DEF LimelightFails, DecoderFails
      <4> QED
        BY <4>1 DEF TerminationFires
    <3> QED
      BY <1>0, <1>2, <3>1 DEF PointersHeld
  <2>3. CASE CallbackStep
    <3>1. callback \in [at : {"idle", "fired", "error", "interrupt", "gone"},
                        of : SessionId \cup {NoSession},
                        kind : {"none", "host", "network"}]
      BY <1>0 DEF TypeOK, LimelightTypes
    <3>2. callback.at \in {"fired", "error", "interrupt"}
      BY <2>3 DEF CallbackStep, TerminationReads, TerminationSetsError, TerminationInterrupts
    <3>3. conn
      BY <1>0, <3>2 DEF PointersHeld
    <3>4. \/ callback'.at = "gone"
          \/ callback'.of = session
      BY <1>0, <2>3, <3>1, <3>3 DEF CallbackStep, TerminationReads, TerminationSetsError,
         TerminationInterrupts, PointersHeld
    <3> QED
      BY <1>0, <1>2, <3>3, <3>4 DEF PointersHeld
  <2>4. CallbackStep \/ LimelightFails \/ callback' = callback
    BY DEF MouseStep, MouseOpens, MouseCloses, mouseRest, Stopped, vars, limeVars
  <2> QED
    BY <2>1, <2>2, <2>3, <2>4
<1>6. ErrorOnlyIfFailed'
  <2>1. CASE MouseStep \/ Stopped \/ UNCHANGED vars \/ LimelightFails
    <3>1. \/ UNCHANGED <<errno, failed>>
          \/ \E quit \in BOOLEAN, err \in Errno : Interrupt(quit, err)
      BY <2>1 DEF MouseStep, MouseOpens, MouseCloses, mouseRest, Stopped, vars, histVars,
         LimelightFails, TerminationFires, DecoderFails, Errno
    <3> QED
      BY <1>0, <1>2, <3>1, ErrorStays DEF EndInv
  <2>2. CASE TerminationReads \/ TerminationSetsError
    <3>1. failed' = failed /\ (errno' = errno \/ errno' = "ok")
      BY <2>2 DEF TerminationReads, TerminationSetsError
    <3> QED
      BY <1>2, <3>1 DEF EndInv, ErrorOnlyIfFailed
  <2>3. CASE TerminationInterrupts
    <3>1. \E quit \in BOOLEAN, err \in Errno : Interrupt(quit, err)
      BY <2>3 DEF TerminationInterrupts, Errno
    <3> QED
      BY <1>0, <1>2, <3>1, ErrorStays DEF EndInv
  <2> QED
    BY <2>1, <2>2, <2>3 DEF CallbackStep
<1> QED
  BY <1>0, <1>1, <1>3, <1>4, <1>5, <1>6 DEF EndInv

LEMMA NextEndInv == EndInv /\ [Next]_vars => EndInv'
<1> SUFFICES ASSUME EndInv, [Next]_vars PROVE EndInv'
  OBVIOUS
<1>1. CASE MainInput
  BY <1>1, MainInputEnd
<1>2. CASE HandleEvent
  BY <1>2, HandleEventEnd
<1>3. CASE FragmentDeleted \/ Join \/ Leave
  BY <1>3, JoinLeaveEnd
<1>4. CASE WorkerStep
  BY <1>4, WorkerStartsEnd, WorkerStreamsEnd, WorkerLeavesEnd DEF WorkerStep
<1>5. CASE MouseStep \/ CallbackStep \/ LimelightFails \/ Stopped \/ UNCHANGED vars
  BY <1>5, OtherThreadsEnd
<1> QED
  BY <1>1, <1>2, <1>3, <1>4, <1>5 DEF Next, MainStep

\* While the main thread is in its loop, what a stream took from it, showed over
\* it or queued for it is owed by the worker or by an event still queued; and the
\* worker is past the call of Limelight whenever its pointer is in other hands.
THEOREM EndInvariance == Spec => []EndInv
BY InitEndInv, NextEndInv, PTL DEF Spec

\* Whenever a session ends, whatever ended it, it leaves nothing behind: no overlay
\* command that would meet another session, no input, keep-awake or HID timer that
\* no CLOSE event gives back, no pointer in Limelight's threads, no error for the
\* next session to show, and no closed user interface unless the connection failed.
THEOREM SessionsLeaveNothing == Spec => []SessionLeavesNothing
<1>1. ASSUME EndInv PROVE SessionLeavesNothing
  <2>0. Shape /\ Owed /\ PointersHeld /\ WorkerIsOurs
    BY <1>1 DEF EndInv, IndInv
  <2>1. OverlayFindsItsSession
    BY <2>0 DEF OverlayFindsItsSession, Owed, OverlaysAreOurs, InLoop
  <2>2. ResourcesAreOwed
    BY <2>0 DEF ResourcesAreOwed, Owed, HeldIsOwed, InLoop, Streaming, Has
  <2>3. SessionPointersLive
    BY <2>0 DEF SessionPointersLive, PointersHeld, Shape, WorkerHasSession, ConnectedAt, Streaming
  <2>4. UIComesBack
    <3> SUFFICES ASSUME mpc = "loop", session = NoSession, ~uiOpen PROVE state = "ERROR"
      BY DEF UIComesBack
    <3>1. wpc = "none" /\ InLoop
      BY <2>0 DEF Shape, WorkerHasSession, InLoop
    <3>2. ~Has("CLOSE")
      BY <2>0, <3>1 DEF Owed, ClearWhenThrough, ThroughAt
    <3> QED
      BY <2>0, <3>1, <3>2 DEF Owed, UIIsOwed, Streaming
  <2> QED
    BY <1>1, <2>1, <2>2, <2>3, <2>4 DEF SessionLeavesNothing, EndInv
<1> QED
  BY <1>1, EndInvariance, PTL

-----------------------------------------------------------------------------
(* The order of the stream events. What the worker has pushed follows from  *)
(* where it is; the main thread has handled the first of these events, and  *)
(* the others are on the queue.                                             *)

Rank == [code \in StreamCode \cup {"none", "left"} |->
    CASE code = "CONNECTING" -> 1
      [] code = "OPEN" -> 2
      [] code = "CLOSE" -> 3
      [] code = "FINISHED" -> 4
      [] OTHER -> 0]

LastPC == {"post", "post_push", "done"}

\* The stream events that the worker of the session has pushed.
Said ==
    {code \in StreamCode :
        /\ wpc \notin {"none", "begin"}
        /\ code = "OPEN" => wpc \notin BeforeOpen \cup {"spawn"} /\ state # "ERROR"
        /\ code = "CLOSE" => wpc \notin BeforeOpen \cup Streaming \cup EmbedPC /\ state # "ERROR"
        /\ code = "FINISHED" => wpc \in LastPC}

SeenWasSaid == seen \in Said \cup {"none"}

\* What was said and not seen yet is on the queue, and nothing else.
RestIsQueued ==
    \A code \in StreamCode : Has(code) <=> code \in Said /\ Rank[code] > Rank[seen]

QueuedInOrder ==
    \A i, j \in DOMAIN queue :
        (i < j /\ queue[i].code \in StreamCode /\ queue[j].code \in StreamCode) =>
            Rank[queue[i].code] < Rank[queue[j].code]

HeldWhileOpen == held # {} <=> seen = "OPEN"

Due ==
    IF InLoop
    THEN SeenWasSaid /\ RestIsQueued /\ QueuedInOrder /\ HeldWhileOpen
    ELSE seen = "left"

LEMMA RankIs ==
    /\ Rank["none"] = 0 /\ Rank["CONNECTING"] = 1 /\ Rank["OPEN"] = 2
    /\ Rank["CLOSE"] = 3 /\ Rank["FINISHED"] = 4
BY DEF Rank, StreamCode

LEMMA SaidIs ==
    /\ Said \subseteq StreamCode
    /\ "OPEN" \in Said => "CONNECTING" \in Said
    /\ "CLOSE" \in Said => "OPEN" \in Said
    /\ "FINISHED" \in Said => "CONNECTING" \in Said /\ ("OPEN" \in Said => "CLOSE" \in Said)
BY DEF Said, StreamCode, BeforeOpen, BeforeUiClose, Streaming, EmbedPC, LastPC

\* A step that changes nothing Due speaks of.
LEMMA DueKept ==
    ASSUME Due, UNCHANGED <<queue, held, seen>>, Said' = Said, InLoop' <=> InLoop
    PROVE  Due'
BY DEF Due, SeenWasSaid, RestIsQueued, QueuedInOrder, HeldWhileOpen, Has

\* What a new event at the end of the queue changes.
LEMMA AppendHas ==
    ASSUME queue \in Seq(Event), NEW e \in Event, queue' = Append(queue, e)
    PROVE  /\ \A c : Has(c)' <=> Has(c) \/ c = e.code
           /\ DOMAIN queue = 1..Len(queue) /\ Len(queue) \in Nat
           /\ DOMAIN queue' = 1..(Len(queue) + 1)
           /\ \A i \in DOMAIN queue : queue'[i] = queue[i]
           /\ queue'[Len(queue) + 1] = e
<1>1. /\ DOMAIN queue = 1..Len(queue) /\ Len(queue) \in Nat
      /\ DOMAIN queue' = 1..(Len(queue) + 1)
      /\ \A i \in DOMAIN queue : queue'[i] = queue[i]
      /\ queue'[Len(queue) + 1] = e
  BY AppendEvent
<1>2. \A c : Has(c)' <=> Has(c) \/ c = e.code
  BY <1>1 DEF Has
<1> QED
  BY <1>1, <1>2

\* A request, an action or an overlay command is pushed.
LEMMA OtherPushed ==
    ASSUME Due, queue \in Seq(Event), NEW e \in Event, queue' = Append(queue, e),
           e.code \notin StreamCode,
           UNCHANGED <<held, seen>>, Said' = Said, InLoop' <=> InLoop
    PROVE  Due'
<1>1. SeenWasSaid' <=> SeenWasSaid
  BY DEF SeenWasSaid
<1>2. RestIsQueued => RestIsQueued'
  BY AppendHas DEF RestIsQueued
<1>3. QueuedInOrder => QueuedInOrder'
  BY AppendHas DEF QueuedInOrder
<1> QED
  BY <1>1, <1>2, <1>3 DEF Due, HeldWhileOpen

\* The worker pushes a stream event that comes after all it has said.
LEMMA StreamPushed ==
    ASSUME Due, queue \in Seq(Event), NEW e \in Event, queue' = Append(queue, e),
           e.code \in StreamCode, e.code \notin Said,
           \A c \in Said : Rank[c] < Rank[e.code],
           UNCHANGED <<held, seen>>, Said' = Said \cup {e.code}, InLoop' <=> InLoop
    PROVE  Due'
<1>1. SeenWasSaid => SeenWasSaid'
  BY DEF SeenWasSaid
<1>2. SeenWasSaid => Rank[seen] < Rank[e.code]
  BY RankIs DEF SeenWasSaid, StreamCode
<1>3. SeenWasSaid /\ RestIsQueued => RestIsQueued'
  BY <1>2, AppendHas DEF RestIsQueued
<1>4. RestIsQueued /\ QueuedInOrder => QueuedInOrder'
  <2> SUFFICES ASSUME RestIsQueued, QueuedInOrder,
                      NEW i \in DOMAIN queue', NEW j \in DOMAIN queue', i < j,
                      queue'[i].code \in StreamCode, queue'[j].code \in StreamCode
               PROVE  Rank[queue'[i].code] < Rank[queue'[j].code]
    BY DEF QueuedInOrder
  <2>1. i \in DOMAIN queue /\ queue'[i] = queue[i]
    BY AppendHas
  <2>2. CASE j \in DOMAIN queue
    BY <2>1, <2>2, AppendHas DEF QueuedInOrder
  <2>3. CASE j \notin DOMAIN queue
    <3>1. queue'[j] = e
      BY <2>3, AppendHas
    <3>2. queue[i].code \in Said
      BY <2>1 DEF RestIsQueued, Has
    <3> QED
      BY <2>1, <3>1, <3>2
  <2> QED
    BY <2>2, <2>3
<1> QED
  BY <1>1, <1>3, <1>4 DEF Due, HeldWhileOpen

\* What is left when the first event is taken.
LEMMA TailHas ==
    ASSUME queue \in Seq(Event), queue # <<>>, queue' = Tail(queue)
    PROVE  /\ \A c : Has(c) <=> Has(c)' \/ c = Head(queue).code
           /\ DOMAIN queue = 1..Len(queue) /\ Len(queue) \in Nat
           /\ Head(queue) = queue[1] /\ 1 \in DOMAIN queue
           /\ DOMAIN queue' = 1..(Len(queue) - 1)
           /\ \A i \in DOMAIN queue' : queue'[i] = queue[i + 1] /\ i + 1 \in DOMAIN queue
<1>1. /\ DOMAIN queue = 1..Len(queue) /\ Len(queue) \in Nat
      /\ Head(queue) = queue[1] /\ 1 \in DOMAIN queue
      /\ DOMAIN queue' = 1..(Len(queue) - 1)
      /\ \A i \in DOMAIN queue' : queue'[i] = queue[i + 1] /\ i + 1 \in DOMAIN queue
  BY TailEvent
<1>2. ASSUME NEW c, Has(c) PROVE Has(c)' \/ c = Head(queue).code
  <2>1. PICK i \in DOMAIN queue : queue[i].code = c
    BY <1>2 DEF Has
  <2>2. CASE i = 1
    BY <1>1, <2>1, <2>2
  <2>3. CASE i # 1
    <3>1. i - 1 \in DOMAIN queue' /\ queue'[i - 1].code = c
      BY <1>1, <2>1, <2>3
    <3> QED
      BY <3>1 DEF Has
  <2> QED
    BY <2>2, <2>3
<1>3. ASSUME NEW c, Has(c)' PROVE Has(c)
  BY <1>1, <1>3 DEF Has
<1>4. Has(Head(queue).code)
  BY <1>1 DEF Has
<1> QED
  BY <1>1, <1>2, <1>3, <1>4

LEMMA TailInOrder ==
    ASSUME queue \in Seq(Event), queue # <<>>, queue' = Tail(queue), QueuedInOrder
    PROVE  QueuedInOrder'
<1>1. /\ DOMAIN queue = 1..Len(queue) /\ Len(queue) \in Nat
      /\ DOMAIN queue' = 1..(Len(queue) - 1)
      /\ \A i \in DOMAIN queue' : queue'[i] = queue[i + 1] /\ i + 1 \in DOMAIN queue
  BY TailHas
<1> SUFFICES ASSUME NEW i \in DOMAIN queue', NEW j \in DOMAIN queue', i < j,
                    queue'[i].code \in StreamCode, queue'[j].code \in StreamCode
             PROVE  Rank[queue'[i].code] < Rank[queue'[j].code]
  BY DEF QueuedInOrder
<1>2. i + 1 < j + 1
  BY <1>1
<1> QED
  BY <1>1, <1>2 DEF QueuedInOrder

\* The main thread takes an event that is not of the stream.
LEMMA OtherTaken ==
    ASSUME Due, queue \in Seq(Event), queue # <<>>, queue' = Tail(queue),
           Head(queue).code \notin StreamCode,
           UNCHANGED <<held, seen>>, Said' = Said, InLoop' <=> InLoop
    PROVE  Due'
<1>1. RestIsQueued => RestIsQueued'
  BY TailHas DEF RestIsQueued
<1> QED
  BY <1>1, TailInOrder DEF Due, SeenWasSaid, HeldWhileOpen

\* It takes a stream event: the first after the last one it has seen.
LEMMA StreamTaken ==
    ASSUME Due, InLoop, queue \in Seq(Event), NEW code \in StreamCode, Take(code),
           seen' = code, Said' = Said
    PROVE  /\ SeenWasSaid' /\ RestIsQueued' /\ QueuedInOrder'
           /\ code = "CONNECTING" => seen = "none"
           /\ code = "OPEN" => seen = "CONNECTING"
           /\ code = "CLOSE" => seen = "OPEN"
           /\ code = "FINISHED" => seen \in {"CONNECTING", "CLOSE"}
<1>0. /\ queue # <<>> /\ queue' = Tail(queue) /\ Head(queue).code = code
      /\ SeenWasSaid /\ RestIsQueued /\ QueuedInOrder
  BY DEF Take, Due
<1>1. code \in Said /\ Rank[seen] < Rank[code]
  BY <1>0, TailHas DEF RestIsQueued
<1>2. \A c \in StreamCode : Has(c)' => Rank[c] > Rank[code]
  <2> SUFFICES ASSUME NEW i \in DOMAIN queue', queue'[i].code \in StreamCode
               PROVE  Rank[queue'[i].code] > Rank[code]
    BY DEF Has
  <2>1. /\ 1 \in DOMAIN queue /\ queue[1].code = code
        /\ queue'[i] = queue[i + 1] /\ i + 1 \in DOMAIN queue /\ 1 < i + 1
    BY <1>0, TailHas
  <2> QED
    BY <1>0, <2>1 DEF QueuedInOrder
<1>3. \A c \in Said : Rank[c] \in 1..4
  BY RankIs, SaidIs DEF StreamCode
<1>4. \A c \in Said : Rank[c] <= Rank[seen] \/ Rank[c] >= Rank[code]
  <2> SUFFICES ASSUME NEW c \in Said, Rank[c] > Rank[seen] PROVE Rank[c] >= Rank[code]
    BY <1>0, <1>3, RankIs DEF SeenWasSaid
  <2>1. c \in StreamCode /\ Has(c)
    BY <1>0, SaidIs DEF RestIsQueued
  <2> QED
    BY <1>0, <1>1, <1>2, <1>3, <2>1, TailHas
<1>5. RestIsQueued'
  <2> SUFFICES ASSUME NEW c \in StreamCode
               PROVE  Has(c)' <=> c \in Said /\ Rank[c] > Rank[code]
    BY DEF RestIsQueued
  <2>1. Rank[c] \in 1..4 /\ Rank[code] \in 1..4 /\ Rank[seen] \in 0..4
    BY <1>0, <1>1, <1>3, RankIs DEF SeenWasSaid, StreamCode
  <2>2. ASSUME Has(c)' PROVE c \in Said /\ Rank[c] > Rank[code]
    BY <1>0, <1>2, <2>2, TailHas DEF RestIsQueued
  <2>3. ASSUME c \in Said, Rank[c] > Rank[code] PROVE Has(c)'
    <3>1. Has(c) /\ c # code
      BY <1>0, <1>1, <2>1, <2>3 DEF RestIsQueued
    <3> QED
      BY <1>0, <3>1, TailHas
  <2> QED
    BY <2>2, <2>3
<1>6. QueuedInOrder'
  BY <1>0, TailInOrder
<1>7. SeenWasSaid'
  BY <1>1 DEF SeenWasSaid
<1>8. seen \in StreamCode \cup {"none"} /\ (seen \in Said \/ seen = "none")
  BY <1>0, SaidIs DEF SeenWasSaid
<1>9. /\ code = "CONNECTING" => seen = "none"
      /\ code = "OPEN" => seen = "CONNECTING"
      /\ code = "CLOSE" => seen = "OPEN"
      /\ code = "FINISHED" => seen \in {"CONNECTING", "CLOSE"}
  BY <1>1, <1>4, <1>8, RankIs, SaidIs DEF StreamCode
<1> QED
  BY <1>5, <1>6, <1>7, <1>9

\* The step of SessionProtocol, or none, that a step of the session is.
ProtocolStep == [seen # "left" /\ Protocol!PNext]_(Protocol!pvars)

\* The thread that waits for a UI_CLOSE is the worker this session has.
WaiterIsOurs ==
    /\ wpc = "setup_wait" => ~Embed
    /\ wpc = "ui_wait" => Embed

LEMMA NoProtocolStep ==
    ASSUME UNCHANGED <<held, seen, session>>, InLoop' <=> InLoop
    PROVE  ProtocolStep
<1>1. (InLoop /\ session # NoSession)' = (InLoop /\ session # NoSession)
  OBVIOUS
<1>2. (InLoop /\ held # {})' = (InLoop /\ held # {})
  OBVIOUS
<1> QED
  BY <1>1, <1>2 DEF ProtocolStep, Protocol!pvars

\* Out of the loop nothing is promised any more.
LEMMA DueOutside ==
    ASSUME Due, ~InLoop, ~InLoop', seen' = seen
    PROVE  Due' /\ ProtocolStep
<1>1. (InLoop /\ session # NoSession)' = (InLoop /\ session # NoSession)
  OBVIOUS
<1>2. (InLoop /\ held # {})' = (InLoop /\ held # {})
  OBVIOUS
<1> QED
  BY <1>1, <1>2 DEF Due, ProtocolStep, Protocol!pvars

\* A handler of a stream event is the step of the protocol with its name.
LEMMA HandlersKeepProtocol ==
    ASSUME IndInv, Due, OnConnecting \/ OnOpen \/ OnClose \/ OnFinished
    PROVE  Due' /\ ProtocolStep
<1>1. PICK code \in StreamCode :
        /\ Take(code) /\ seen' = code
        /\ mpc = "loop" /\ UNCHANGED <<mpc, inFilter, session, wpc, state>>
        /\ code = "CONNECTING" => OnConnecting
        /\ code = "OPEN" => OnOpen
        /\ code = "CLOSE" => OnClose
        /\ code = "FINISHED" => OnFinished
  BY DEF OnConnecting, OnOpen, OnClose, OnFinished, AtMain, StreamCode, mainRest, sessVars
<1>2. InLoop /\ InLoop' /\ Said' = Said
  BY <1>1 DEF InLoop, Said
<1>3. /\ queue \in Seq(Event) /\ ~drained /\ queue # <<>> /\ Head(queue).code = code
      /\ held \subseteq Resource
  BY <1>1 DEF IndInv, TypeOK, MainTypes, UITypes, Shape, MainPhases, Joining, Take
<1>4. session # NoSession
  BY <1>1, <1>3, TailEvent DEF IndInv, Shape, StreamEventsMeetTheirSession
<1>5. /\ SeenWasSaid' /\ RestIsQueued' /\ QueuedInOrder'
      /\ code = "CONNECTING" => seen = "none"
      /\ code = "OPEN" => seen = "CONNECTING"
      /\ code = "CLOSE" => seen = "OPEN"
      /\ code = "FINISHED" => seen \in {"CONNECTING", "CLOSE"}
  BY <1>1, <1>2, <1>3, StreamTaken
<1>6. HeldWhileOpen
  BY <1>2 DEF Due
<1>7. CASE OnConnecting
  <2>1. seen = "none" /\ seen' = "CONNECTING" /\ held' = held /\ held = {}
    BY <1>1, <1>3, <1>5, <1>6, <1>7 DEF OnConnecting, Take, HeldWhileOpen
  <2>2. Protocol!Connects
    BY <1>1, <1>2, <1>4, <2>1 DEF Protocol!Connects
  <2> QED
    BY <1>2, <1>5, <2>1, <2>2 DEF Due, HeldWhileOpen, ProtocolStep, Protocol!PNext
<1>8. CASE OnOpen
  <2>1. seen = "CONNECTING" /\ seen' = "OPEN" /\ held' # {}
    BY <1>1, <1>3, <1>5, <1>8 DEF OnOpen, Take
  <2>2. Protocol!Opens
    BY <1>1, <1>2, <1>4, <2>1 DEF Protocol!Opens
  <2> QED
    BY <1>2, <1>5, <2>1, <2>2 DEF Due, HeldWhileOpen, ProtocolStep, Protocol!PNext
<1>9. CASE OnClose
  <2>1. seen = "OPEN" /\ seen' = "CLOSE" /\ held' = {}
    BY <1>1, <1>3, <1>5, <1>9 DEF OnClose, Take, Resource
  <2>2. Protocol!Closes
    BY <1>1, <1>2, <1>4, <2>1 DEF Protocol!Closes
  <2> QED
    BY <1>2, <1>5, <2>1, <2>2 DEF Due, HeldWhileOpen, ProtocolStep, Protocol!PNext
<1>10. CASE OnFinished
  <2>1. seen \in {"CONNECTING", "CLOSE"} /\ seen' = "FINISHED" /\ held' = {} /\ held = {}
    BY <1>1, <1>3, <1>5, <1>6, <1>10 DEF OnFinished, Take, HeldWhileOpen
  <2>2. Protocol!Finishes
    BY <1>1, <1>2, <1>4, <2>1 DEF Protocol!Finishes
  <2> QED
    BY <1>2, <1>5, <2>1, <2>2 DEF Due, HeldWhileOpen, ProtocolStep, Protocol!PNext
<1> QED
  BY <1>7, <1>8, <1>9, <1>10

\* What the user and the system make the main thread do: at most, a session begins.
LEMMA InputKeepsProtocol ==
    ASSUME IndInv, Due, MainInput
    PROVE  Due' /\ ProtocolStep
<1>0. queue \in Seq(Event) /\ session \in SessionId \cup {NoSession} /\ created \in 0..MaxSessions
  BY DEF IndInv, TypeOK, MainTypes, SessionTypes
<1>1. CASE SessionBegin
  <2>1. /\ mpc = "loop" /\ session = NoSession /\ session' = created + 1
        /\ wpc' = "begin" /\ UNCHANGED <<mpc, inFilter, queue, held, seen>>
    BY <1>1 DEF SessionBegin, AtMain, mainVars, mainRest
  <2>2. wpc = "none" /\ InLoop /\ InLoop'
    BY <2>1 DEF IndInv, Shape, WorkerHasSession, InLoop
  <2>3. Said = {} /\ Said' = {}
    BY <2>1, <2>2 DEF Said
  <2>4. Due'
    BY <2>1, <2>2, <2>3, DueKept
  <2>5. seen = "none" /\ session' # NoSession
    BY <1>0, <2>1, <2>2, <2>3, SessionBound DEF Due, SeenWasSaid, NoSession
  <2>6. Protocol!Begins
    BY <2>1, <2>2, <2>5 DEF Protocol!Begins
  <2> QED
    BY <2>4, <2>5, <2>6 DEF ProtocolStep, Protocol!PNext
<1>2. CASE InputAsksOverlay
  <2>1. /\ queue' = Append(queue, [code |-> "OVERLAY", of |-> session])
        /\ session # NoSession
        /\ UNCHANGED <<mpc, inFilter, held, seen, session, wpc, state>>
    BY <1>2 DEF InputAsksOverlay, mainRest, uiVars, sessVars
  <2>2. [code |-> "OVERLAY", of |-> session] \in Event /\ "OVERLAY" \notin StreamCode
    BY <1>0, <2>1 DEF Event, EventCode, StreamCode
  <2>3. Said' = Said /\ (InLoop' <=> InLoop)
    BY <2>1 DEF Said, InLoop
  <2>4. Due'
    <3> DEFINE e == [code |-> "OVERLAY", of |-> session]
    <3>1. e \in Event /\ e.code \notin StreamCode /\ queue' = Append(queue, e)
      BY <2>1, <2>2
    <3> HIDE DEF e
    <3> QED
      BY <1>0, <2>1, <2>3, <3>1, OtherPushed
  <2> QED
    BY <2>1, <2>3, <2>4, NoProtocolStep
<1>3. CASE MainInput /\ ~SessionBegin /\ ~InputAsksOverlay
  <2>1. UNCHANGED <<mpc, inFilter, queue, held, seen, session, wpc, state>>
    BY <1>3 DEF MainInput, SessionBeginRefused, UserLeaves, AppToBackground, AppRequestExit,
       mainVars, mainRest, uiVars, sessVars
  <2>2. Said' = Said /\ (InLoop' <=> InLoop)
    BY <2>1 DEF Said, InLoop
  <2> QED
    BY <2>1, <2>2, DueKept, NoProtocolStep
<1> QED
  BY <1>1, <1>2, <1>3

\* The other handlers of the event filter do not show in the protocol.
LEMMA ActionsKeepProtocol ==
    ASSUME IndInv, Due, WaiterIsOurs, OnOverlay \/ OnUiClose \/ OnUpsert \/ OnDestroy
    PROVE  Due' /\ ProtocolStep
<1>1. /\ queue # <<>> /\ queue' = Tail(queue)
      /\ Head(queue).code \in {"OVERLAY", "UI_CLOSE", "UPSERT", "DESTROY"}
      /\ mpc \in {"loop", "drain"}
      /\ UNCHANGED <<held, seen, session, state>>
  BY DEF OnOverlay, OnUiClose, OnUpsert, OnDestroy, Take, AtMain, RunsActions, uiVars, sessVars
<1>2. ~drained /\ ~inFilter /\ queue \in Seq(Event) /\ Head(queue).code \notin StreamCode
  BY <1>1 DEF IndInv, TypeOK, MainTypes, Shape, MainPhases, Joining, StreamCode
<1>3. InLoop' <=> InLoop
  BY <1>1, <1>2 DEF OnOverlay, OnUiClose, OnUpsert, OnDestroy, InLoop, mainRest
<1>4. Said' = Said
  <2>1. CASE OnOverlay \/ OnDestroy
    BY <1>1, <2>1 DEF OnOverlay, OnDestroy, Said
  <2>2. CASE OnUiClose
    <3>1. wpc \in {"setup_wait", "ui_wait"}
      BY <1>1, <1>2, <2>2, TailEvent DEF OnUiClose, Take, IndInv, Shape, RequestsAwaited
    <3>2. \/ wpc = "setup_wait" /\ wpc' = "connect"
          \/ wpc = "ui_wait" /\ wpc' = "attach"
      BY <2>2, <3>1 DEF OnUiClose, WaiterIsOurs
    <3> QED
      BY <1>1, <3>2 DEF Said, BeforeOpen, BeforeUiClose, Streaming, EmbedPC, LastPC
  <2>3. CASE OnUpsert
    <3>1. wpc = "update_wait" /\ wpc' = "reset"
      BY <1>1, <1>2, <2>3, TailEvent DEF OnUpsert, Take, IndInv, Shape, RequestsAwaited
    <3> QED
      BY <1>1, <3>1 DEF Said, BeforeOpen, BeforeUiClose, Streaming, EmbedPC, LastPC
  <2> QED
    BY <2>1, <2>2, <2>3
<1> QED
  BY <1>1, <1>2, <1>3, <1>4, OtherTaken, NoProtocolStep

\* A session goes away when its worker is joined in the loop, and with the loop
\* all that was promised.
LEMMA JoinLeaveKeepProtocol ==
    ASSUME IndInv, Due, FragmentDeleted \/ Join \/ Leave
    PROVE  Due' /\ ProtocolStep
<1>1. CASE FragmentDeleted \/ JoinMouse
  <2>1. /\ UNCHANGED <<inFilter, queue, held, seen, session, wpc, state>>
        /\ mpc' = mpc \/ (mpc # "loop" /\ mpc' # "loop")
    BY <1>1 DEF FragmentDeleted, JoinMouse, AtMain, mainVars, mainRest, uiVars, sessVars
  <2>2. Said' = Said /\ (InLoop' <=> InLoop)
    BY <2>1 DEF Said, InLoop
  <2> QED
    BY <2>1, <2>2, DueKept, NoProtocolStep
<1>2. CASE JoinWorker
  <2>1. /\ mpc = "join_worker" /\ wpc = "done" /\ session' = NoSession /\ wpc' = "none"
        /\ ~inFilter'
        /\ mpc' = IF inFilter THEN "loop" ELSE IF drained THEN "deinit" ELSE "drain"
        /\ seen' = IF inFilter THEN "none" ELSE seen
        /\ UNCHANGED <<queue, held>>
    BY <1>2 DEF JoinWorker, AtMain
  <2>2. CASE ~inFilter
    <3>1. ~InLoop /\ ~InLoop' /\ seen' = seen
      BY <2>1, <2>2 DEF InLoop
    <3> QED
      BY <3>1, DueOutside
  <2>3. CASE inFilter
    <3>1. InLoop /\ InLoop' /\ seen' = "none" /\ ~drained /\ session # NoSession
      BY <2>1, <2>3 DEF InLoop, IndInv, Shape, MainPhases, WorkerHasSession
    <3>2. \A i \in DOMAIN queue : queue[i].code \notin StreamCode
      BY <2>1, <3>1 DEF IndInv, Shape, JoinAfterWorker, Joining, StreamCode
    <3>3. "FINISHED" \in Said /\ ~Has("FINISHED") /\ "FINISHED" \in StreamCode
      BY <2>1, <3>2 DEF Said, StreamCode, LastPC, Has
    <3>4. seen = "FINISHED" /\ held = {}
      <4>1. SeenWasSaid /\ RestIsQueued /\ HeldWhileOpen
        BY <3>1 DEF Due
      <4>2. ~(4 > Rank[seen])
        BY <3>3, <4>1, RankIs DEF RestIsQueued
      <4>3. seen \in StreamCode \cup {"none"}
        BY <4>1, SaidIs DEF SeenWasSaid
      <4>4. seen = "FINISHED"
        BY <4>2, <4>3, RankIs DEF StreamCode
      <4> QED
        BY <4>1, <4>4 DEF HeldWhileOpen
    <3>5. Said' = {}
      BY <2>1 DEF Said
    <3>6. Due'
      BY <2>1, <3>1, <3>2, <3>4, <3>5 DEF Due, SeenWasSaid, RestIsQueued, QueuedInOrder,
         HeldWhileOpen, Has
    <3>7. Protocol!GoesAway
      BY <2>1, <3>1, <3>4 DEF Protocol!GoesAway
    <3> QED
      BY <3>4, <3>6, <3>7 DEF ProtocolStep, Protocol!PNext
  <2> QED
    BY <2>2, <2>3
<1>3. CASE LeaveLoop
  <2>1. mpc = "loop" /\ mpc' = "drain" /\ seen' = "left" /\ inFilter' = inFilter
    BY <1>3 DEF LeaveLoop, AtMain
  <2>2. InLoop /\ ~InLoop'
    BY <2>1 DEF IndInv, Shape, MainPhases, Joining, InLoop
  <2>3. seen # "left"
    BY <2>2, SaidIs DEF Due, SeenWasSaid, StreamCode
  <2>4. Protocol!Leaves
    BY <2>1, <2>2 DEF Protocol!Leaves
  <2> QED
    BY <2>1, <2>2, <2>3, <2>4 DEF Due, ProtocolStep, Protocol!PNext
<1>4. CASE DrainDrops \/ DrainEnds \/ Deinit
  <2>1. /\ mpc \in {"drain", "deinit"} /\ mpc' # "loop" /\ inFilter' = inFilter /\ seen' = seen
    BY <1>4 DEF DrainDrops, DrainEnds, Deinit, AtMain, mainRest, uiVars
  <2>2. ~InLoop /\ ~InLoop'
    BY <2>1 DEF IndInv, Shape, MainPhases, Joining, InLoop
  <2> QED
    BY <2>1, <2>2, DueOutside
<1> QED
  BY <1>1, <1>2, <1>3, <1>4 DEF Join, Leave

LEMMA MainKeepsProtocol ==
    ASSUME IndInv, Due, WaiterIsOurs, MainInput \/ MainStep
    PROVE  Due' /\ ProtocolStep
BY InputKeepsProtocol, HandlersKeepProtocol, ActionsKeepProtocol, JoinLeaveKeepProtocol
   DEF MainStep, HandleEvent

\* A step of the worker that says nothing new of the stream ...
LEMMA WorkerSilent ==
    ASSUME Due, UNCHANGED <<queue, workerRest>>, Said' = Said
    PROVE  Due' /\ ProtocolStep
<1>1. UNCHANGED <<held, seen, session, mpc, inFilter>>
  BY DEF workerRest, mainRest, uiVars
<1>2. InLoop' <=> InLoop
  BY <1>1 DEF InLoop
<1> QED
  BY <1>1, <1>2, DueKept, NoProtocolStep

\* ... and one that pushes an event.
LEMMA WorkerSays ==
    ASSUME IndInv, Due, NEW code \in EventCode, Push(code), wpc # "none",
           UNCHANGED workerRest,
           code \notin StreamCode => Said' = Said,
           code \in StreamCode =>
               /\ code \notin Said
               /\ \A c \in Said : Rank[c] < Rank[code]
               /\ Said' = Said \cup {code}
    PROVE  Due' /\ ProtocolStep
<1> DEFINE e == [code |-> code, of |-> session]
<1>1. UNCHANGED <<held, seen, session, mpc, inFilter>>
  BY DEF workerRest, mainRest, uiVars
<1>2. InLoop' <=> InLoop
  BY <1>1 DEF InLoop
<1>3. queue \in Seq(Event) /\ session \in SessionId
  BY DEF IndInv, TypeOK, MainTypes, SessionTypes, Shape, WorkerHasSession
<1>4. e \in Event /\ e.code = code /\ queue' = Append(queue, e)
  BY <1>3 DEF Event, Push
<1> HIDE DEF e
<1>5. Due'
  <2>1. CASE code \notin StreamCode
    BY <1>1, <1>2, <1>3, <1>4, <2>1, OtherPushed
  <2>2. CASE code \in StreamCode
    BY <1>1, <1>2, <1>3, <1>4, <2>2, StreamPushed
  <2> QED
    BY <2>1, <2>2
<1> QED
  BY <1>1, <1>2, <1>5, NoProtocolStep

\* The steps both workers end with
LEMMA WorkerEndKeepsProtocol ==
    ASSUME IndInv, Due, ErrorIsLate, WorkerQuits \/ WorkerEnd
    PROVE  Due' /\ ProtocolStep /\ ErrorIsLate'
<1> USE DEF BeforeOpen, BeforeUiClose, Streaming, EmbedPC, LastPC
<1>1. CASE WorkerQuits \/ UpdateTests \/ WorkerResets \/ DestroyTests
  <2>1. /\ \/ wpc = "quit" /\ wpc' = "update" /\ state' = state
           \/ wpc = "update" /\ wpc' \in {"update_push", "reset"} /\ state' = state
           \/ wpc = "reset" /\ wpc' \in {"finished", "cleanup"} /\ state' = "NONE"
           \/ wpc = "post" /\ wpc' \in {"post_push", "done"} /\ state' = state
        /\ UNCHANGED <<queue, workerRest>>
    BY <1>1 DEF WorkerQuits, UpdateTests, PostSyncTests, WorkerResets, DestroyTests, GoWorker,
       AtWorker
  <2>2. ErrorIsLate' /\ (wpc = "reset" => state # "ERROR")
    BY <2>1 DEF ErrorIsLate
  <2>3. Said' = Said
    BY <2>1, <2>2 DEF Said
  <2> QED
    BY <2>1, <2>2, <2>3, WorkerSilent
<1>2. CASE UpdatePushes \/ DestroyPushes
  <2>1. PICK code \in {"UPSERT", "DESTROY"} :
        /\ Push(code)
        /\ code = "UPSERT" => wpc = "update_push" /\ wpc' = "update_wait"
        /\ code = "DESTROY" => wpc = "post_push" /\ wpc' = "done"
        /\ UNCHANGED <<workerRest, state>>
    BY <1>2 DEF UpdatePushes, PostSyncPushes, DestroyPushes, GoWorker, AtWorker
  <2>2. code \in EventCode /\ code \notin StreamCode
    BY DEF EventCode, StreamCode, ActionCode
  <2>3. Said' = Said
    BY <2>1 DEF Said
  <2>4. ErrorIsLate' /\ wpc # "none"
    BY <2>1 DEF ErrorIsLate
  <2> QED
    BY <2>1, <2>2, <2>3, <2>4, WorkerSays
<1>3. CASE WorkerFinishes
  <2>1. /\ Push("FINISHED") /\ wpc = "finished" /\ wpc' = "post"
        /\ UNCHANGED <<workerRest, state>>
    BY <1>3 DEF WorkerFinishes, GoWorker, AtWorker
  <2>2. "FINISHED" \in EventCode /\ "FINISHED" \in StreamCode
    BY DEF EventCode, StreamCode
  <2>3. "FINISHED" \notin Said /\ Said' = Said \cup {"FINISHED"}
    BY <2>1 DEF Said, StreamCode
  <2>4. \A c \in Said : Rank[c] < Rank["FINISHED"]
    BY <2>3, RankIs, SaidIs DEF StreamCode
  <2>5. ErrorIsLate' /\ wpc # "none"
    BY <2>1 DEF ErrorIsLate
  <2> QED
    BY <2>1, <2>2, <2>3, <2>4, <2>5, WorkerSays
<1> QED
  BY <1>1, <1>2, <1>3 DEF WorkerEnd

\* The steps before them of the worker of this module
LEMMA WorkerKeepsProtocol ==
    ASSUME EndInv, Due, WorkerStep
    PROVE  Due' /\ ProtocolStep
<1>0. IndInv /\ ErrorIsLate
  BY DEF EndInv
<1> USE DEF BeforeOpen, BeforeUiClose, Streaming, EmbedPC, LastPC
<1>1. CASE \/ WorkerSeesMouse \/ WorkerLaunches \/ WorkerLaunchFails \/ WorkerPrepares
           \/ SetupTests \/ WorkerConnects \/ WorkerConnectFails \/ WorkerWoken
           \/ WorkerStops \/ WorkerCleansUp
  <2>1. /\ \/ wpc = "mouse" /\ wpc' = "launch" /\ state' = state
           \/ wpc = "launch" /\ wpc' = "prepare" /\ state' = state
           \/ wpc = "launch" /\ wpc' = "cleanup" /\ state' = "ERROR"
           \/ wpc = "prepare" /\ wpc' \in {"setup", "connect"} /\ state' = state
           \/ wpc = "setup" /\ wpc' \in {"setup_push", "connect"} /\ state' = state
           \/ wpc = "connect" /\ wpc' = "opened" /\ state' = state
           \/ wpc = "connect" /\ wpc' = "cleanup" /\ state' = "ERROR"
           \/ wpc = "wait" /\ wpc' = "close" /\ state' = state
           \/ wpc = "stop" /\ wpc' = "quit" /\ state' = state
           \/ wpc = "cleanup" /\ wpc' = "finished" /\ state' = state
        /\ UNCHANGED <<queue, workerRest>>
    BY <1>1 DEF WorkerSeesMouse, WorkerLaunches, WorkerLaunchFails, WorkerPrepares, SetupTests,
       PostSyncTests, WorkerConnects, WorkerConnectFails, WorkerWoken, WorkerStops,
       WorkerCleansUp, GoWorker, AtWorker
  <2>2. Said' = Said
    BY <1>0, <2>1 DEF Said, ErrorIsLate
  <2> QED
    BY <2>1, <2>2, WorkerSilent
<1>2. CASE SetupPushes
  <2>1. /\ Push("UI_CLOSE") /\ wpc = "setup_push" /\ wpc' = "setup_wait"
        /\ UNCHANGED <<workerRest, state>>
    BY <1>2 DEF SetupPushes, PostSyncPushes, GoWorker, AtWorker
  <2>2. "UI_CLOSE" \in EventCode /\ "UI_CLOSE" \notin StreamCode
    BY DEF EventCode, StreamCode, ActionCode
  <2>3. Said' = Said
    BY <2>1 DEF Said
  <2> QED
    BY <1>0, <2>1, <2>2, <2>3, WorkerSays
<1>3. CASE WorkerBegin \/ WorkerOpens \/ WorkerCloses
  <2>1. PICK code \in {"CONNECTING", "OPEN", "CLOSE"} :
        /\ Push(code)
        /\ code = "CONNECTING" => wpc = "begin" /\ wpc' \in {"mouse", "launch"}
        /\ code = "OPEN" => wpc = "opened" /\ wpc' = "wait"
        /\ code = "CLOSE" => wpc = "close" /\ wpc' = "stop"
        /\ state' # "ERROR"
        /\ UNCHANGED workerRest
    BY <1>3 DEF WorkerBegin, WorkerOpens, WorkerCloses, GoWorker, AtWorker
  <2>2. code \in EventCode /\ code \in StreamCode /\ wpc # "none" /\ state # "ERROR"
    BY <1>0, <2>1 DEF EventCode, StreamCode, ErrorIsLate
  <2>3. code \notin Said /\ Said' = Said \cup {code}
    BY <2>1, <2>2 DEF Said, StreamCode
  <2>4. \A c \in Said : Rank[c] < Rank[code]
    <3>1. /\ "FINISHED" \notin Said
          /\ code = "CONNECTING" => Said = {}
          /\ code = "OPEN" => "CLOSE" \notin Said
      BY <2>1 DEF Said
    <3> QED
      BY <2>1, <2>3, <3>1, RankIs, SaidIs DEF StreamCode
  <2> QED
    BY <1>0, <2>1, <2>2, <2>3, <2>4, WorkerSays
<1>4. CASE WorkerQuits \/ WorkerEnd
  BY <1>0, <1>4, WorkerEndKeepsProtocol
<1> QED
  BY <1>1, <1>2, <1>3, <1>4 DEF WorkerStep

LEMMA NextKeepsProtocol ==
    ASSUME EndInv, Due, [Next]_vars
    PROVE  Due' /\ ProtocolStep
<1>1. CASE MainInput \/ MainStep
  <2>1. IndInv /\ WaiterIsOurs
    BY DEF EndInv, WorkerIsOurs, WaiterIsOurs, EmbedPC
  <2> QED
    BY <1>1, <2>1, MainKeepsProtocol
<1>2. CASE WorkerStep
  BY <1>2, WorkerKeepsProtocol
<1>3. CASE MouseStep \/ CallbackStep \/ LimelightFails \/ Stopped \/ UNCHANGED vars
  <2>1. UNCHANGED <<queue, mpc, inFilter, held, seen, session, state, wpc>>
    BY <1>3 DEF MouseStep, MouseOpens, MouseCloses, mouseRest, CallbackStep, TerminationReads,
       TerminationSetsError, TerminationInterrupts, callbackRest, LimelightFails,
       TerminationFires, DecoderFails, Stopped, vars, mainVars, mainRest, uiVars, sessVars
  <2>2. Said' = Said /\ (InLoop' <=> InLoop)
    BY <2>1 DEF Said, InLoop
  <2> QED
    BY <2>1, <2>2, DueKept, NoProtocolStep
<1> QED
  BY <1>1, <1>2, <1>3 DEF Next

LEMMA InitDue == Init => Due /\ Protocol!PInit
<1> SUFFICES ASSUME Init PROVE Due /\ Protocol!PInit
  OBVIOUS
<1>1. /\ queue = <<>> /\ DOMAIN queue = {} /\ wpc = "none" /\ mpc = "loop" /\ held = {}
      /\ seen = "none" /\ session = NoSession
  BY DEF Init
<1>2. Said = {} /\ InLoop
  BY <1>1 DEF Said, InLoop
<1>3. Due
  BY <1>1, <1>2 DEF Due, SeenWasSaid, RestIsQueued, QueuedInOrder, HeldWhileOpen, Has
<1>4. Protocol!PInit
  BY <1>1 DEF Protocol!PInit
<1> QED
  BY <1>3, <1>4

\* The main thread has handled a beginning of what the worker has said of the
\* stream, and the rest is on the queue, in order.
THEOREM DueInvariance == Spec => []Due
<1>1. Init => EndInv /\ Due
  BY InitEndInv, InitDue
<1>2. EndInv /\ Due /\ [Next]_vars => (EndInv /\ Due)'
  BY NextEndInv, NextKeepsProtocol
<1> QED
  BY <1>1, <1>2, PTL DEF Spec

\* The session implements SessionProtocol: for any number of sessions, whatever
\* ends them and however threads interleave, the user interface is told of each
\* in one order, what OPEN takes CLOSE gives back, and a session is destroyed only
\* after its FINISHED was handled, until the application leaves.
THEOREM SessionImplementsProtocol == Spec => KeepsProtocol
<1>1. Init => Protocol!PInit
  BY InitDue
<1>2. EndInv /\ Due /\ [Next]_vars => [seen # "left" /\ Protocol!PNext]_(Protocol!pvars)
  BY NextKeepsProtocol DEF ProtocolStep
<1> QED
  BY <1>1, <1>2, EndInvariance, DueInvariance, PTL DEF Spec, KeepsProtocol, Protocol!PSpec

-----------------------------------------------------------------------------
(* What is waited for comes. The request of a waiting worker is on the queue *)
(* unless the drain is over, and then the test of app->running came before   *)
(* it; whoever interrupts a session has also told the mouse thread.          *)

Posting == {"setup_push", "ui_push", "update_push"}

MouseIsTold == interrupted => mouse \notin {"opening", "listening"}
JoinedIsTold == Joining /\ ~crashed => interrupted
PostWasTested == wpc \in Posting => race = "open"
RequestIsSent == wpc \in Waiting => LatePost \/ (~drained /\ Has(Awaited))

WaitInv ==
    /\ MouseIsTold
    /\ JoinedIsTold
    /\ PostWasTested
    /\ RequestIsSent

LEMMA InitWaitInv == Init => WaitInv
BY DEF Init, WaitInv, MouseIsTold, JoinedIsTold, Joining, PostWasTested, RequestIsSent,
   Posting, Waiting

\* A step that leaves the threads' places alone, and at most adds to the queue.
LEMMA WaitsKept ==
    ASSUME WaitInv, UNCHANGED <<wpc, race, drained>>, \A c : Has(c) => Has(c)',
           MouseIsTold', JoinedIsTold'
    PROVE  WaitInv'
<1>1. PostWasTested'
  BY DEF WaitInv, PostWasTested
<1>2. RequestIsSent'
  BY DEF WaitInv, RequestIsSent, LatePost, Awaited
<1> QED
  BY <1>1, <1>2 DEF WaitInv

\* The worker goes to a place where it neither waits for the main thread nor has tested.
LEMMA WorkerGoesOn ==
    ASSUME WaitInv, wpc' \notin Waiting \cup Posting,
           UNCHANGED <<mpc, crashed, interrupted, mouse>>
    PROVE  WaitInv'
BY DEF WaitInv, MouseIsTold, JoinedIsTold, Joining, PostWasTested, RequestIsSent

LEMMA TestWaits ==
    ASSUME WaitInv, NEW at, NEW push \in Posting, NEW skip, skip \notin Waiting \cup Posting,
           PostSyncTests(at, push, skip)
    PROVE  WaitInv'
<1>1. /\ UNCHANGED <<mpc, crashed, interrupted, mouse>>
      /\ (wpc' = push /\ race' = "open") \/ wpc' = skip
  BY DEF PostSyncTests, workerRest, mainRest
<1>2. wpc' \notin Waiting
  BY <1>1 DEF Posting, Waiting
<1> QED
  BY <1>1, <1>2 DEF WaitInv, MouseIsTold, JoinedIsTold, Joining, PostWasTested, RequestIsSent

LEMMA PushWaits ==
    ASSUME IndInv, WaitInv, NEW at \in Posting, NEW code \in SyncCode, NEW wait \in Waiting,
           code = "UPSERT" <=> wait = "update_wait",
           PostSyncPushes(at, code, wait)
    PROVE  WaitInv'
<1>1. /\ UNCHANGED <<mpc, crashed, interrupted, mouse, drained, session>>
      /\ wpc = at /\ wpc' = wait /\ Push(code)
      /\ race' = IF race = "open" /\ drained THEN "lost" ELSE "none"
  BY DEF PostSyncPushes, GoWorker, AtWorker, workerRest, mainRest
<1> DEFINE e == [code |-> code, of |-> session]
<1>2. queue \in Seq(Event) /\ session \in SessionId
  BY <1>1 DEF IndInv, TypeOK, MainTypes, SessionTypes, Shape, WorkerHasSession, Posting
<1>3. e \in Event /\ e.code = code /\ queue' = Append(queue, e)
  BY <1>1, <1>2 DEF Event, Push, EventCode, ActionCode, SyncCode
<1> HIDE DEF e
<1>4. Has(code)'
  BY <1>2, <1>3, AppendHas
<1>5. Awaited' = code
  BY <1>1 DEF Awaited, SyncCode
<1>6. race = "open"
  BY <1>1 DEF WaitInv, PostWasTested
<1>7. RequestIsSent'
  BY <1>1, <1>4, <1>5, <1>6 DEF RequestIsSent, LatePost
<1>8. PostWasTested'
  BY <1>1 DEF PostWasTested, Posting, Waiting
<1> QED
  BY <1>1, <1>7, <1>8 DEF WaitInv, MouseIsTold, JoinedIsTold, Joining

\* Whoever interrupts has told the mouse thread, and may join.
LEMMA InterruptTells ==
    ASSUME WaitInv, NEW quit, NEW err, Interrupt(quit, err)
    PROVE  MouseIsTold' /\ JoinedIsTold'
BY DEF Interrupt, HasMouse, MouseHasDev, WaitInv, MouseIsTold, JoinedIsTold

\* So it stays while nobody else begins to join.
LEMMA ToldKept ==
    ASSUME WaitInv, UNCHANGED <<interrupted, mouse, crashed>>,
           UNCHANGED mpc \/ mpc = "join_mouse" \/ mpc' \notin {"join_mouse", "join_worker"}
    PROVE  MouseIsTold' /\ JoinedIsTold'
BY DEF WaitInv, MouseIsTold, JoinedIsTold, Joining

LEMMA InputWaits ==
    ASSUME IndInv, WaitInv, MainInput
    PROVE  WaitInv'
<1>1. CASE SessionBegin
  <2>1. wpc' = "begin" /\ interrupted' = FALSE /\ UNCHANGED mpc /\ mpc = "loop"
    BY <1>1 DEF SessionBegin, AtMain, mainVars, mainRest
  <2> QED
    BY <2>1 DEF WaitInv, MouseIsTold, JoinedIsTold, Joining, PostWasTested, RequestIsSent,
       Waiting, Posting
<1>2. CASE SessionBeginRefused \/ AppRequestExit
  <2>1. UNCHANGED <<wpc, race, drained, queue, interrupted, mouse, crashed, mpc>>
    BY <1>2 DEF SessionBeginRefused, AppRequestExit, mainVars, mainRest, sessVars, histVars
  <2> QED
    BY <2>1, ToldKept, WaitsKept DEF Has
<1>3. CASE AppToBackground \/ \E quit \in BOOLEAN : UserLeaves(quit)
  <2>1. PICK quit \in BOOLEAN : Interrupt(quit, "ok")
    BY <1>3 DEF AppToBackground, UserLeaves
  <2>2. UNCHANGED <<wpc, race, drained, queue, mpc>>
    BY <1>3 DEF AppToBackground, UserLeaves, mainVars, mainRest
  <2> QED
    BY <2>1, <2>2, InterruptTells, WaitsKept DEF Has
<1>4. CASE InputAsksOverlay
  <2> DEFINE e == [code |-> "OVERLAY", of |-> session]
  <2>1. /\ UNCHANGED <<wpc, race, drained, interrupted, mouse, crashed, mpc>>
        /\ queue' = Append(queue, e) /\ session # NoSession
    BY <1>4 DEF InputAsksOverlay, mainRest, sessVars, histVars
  <2>2. e \in Event /\ queue \in Seq(Event)
    BY <2>1 DEF IndInv, TypeOK, MainTypes, SessionTypes, Event, EventCode
  <2> HIDE DEF e
  <2>3. \A c : Has(c) => Has(c)'
    BY <2>1, <2>2, AppendHas
  <2> QED
    BY <2>1, <2>3, ToldKept, WaitsKept
<1> QED
  BY <1>1, <1>2, <1>3, <1>4 DEF MainInput

\* The main thread takes an event that no worker waits for.
LEMMA OtherTakenWaits ==
    ASSUME IndInv, WaitInv, queue # <<>>, queue' = Tail(queue), Head(queue).code \notin SyncCode,
           UNCHANGED <<wpc, race, drained>>,
           MouseIsTold', JoinedIsTold'
    PROVE  WaitInv'
<1>1. \A c : Has(c) <=> Has(c)' \/ c = Head(queue).code
  BY TailHas DEF IndInv, TypeOK, MainTypes
<1>2. PostWasTested'
  BY DEF WaitInv, PostWasTested
<1>3. Awaited' = Awaited /\ Awaited \in SyncCode
  BY DEF Awaited, SyncCode
<1>4. RequestIsSent'
  BY <1>1, <1>3 DEF WaitInv, RequestIsSent, LatePost
<1> QED
  BY <1>2, <1>4 DEF WaitInv

LEMMA MainStepWaits ==
    ASSUME IndInv, WaitInv, MainStep
    PROVE  WaitInv'
<1>1. CASE FragmentDeleted
  <2>1. UNCHANGED <<wpc, race, drained, queue, interrupted, mouse, crashed, mpc>>
    BY <1>1 DEF FragmentDeleted, mainVars, mainRest, sessVars, histVars
  <2> QED
    BY <2>1, ToldKept, WaitsKept DEF Has
<1>2. CASE OnConnecting \/ OnOpen \/ OnClose \/ OnFinished \/ DrainDrops
  <2>1. /\ queue # <<>> /\ queue' = Tail(queue) /\ Head(queue).code \notin SyncCode
        /\ UNCHANGED <<wpc, race, drained, interrupted, mouse, crashed, mpc>>
    BY <1>2 DEF OnConnecting, OnOpen, OnClose, OnFinished, DrainDrops, Take, SyncCode, ActionCode,
       mainRest, sessVars, histVars
  <2> QED
    BY <2>1, ToldKept, OtherTakenWaits
<1>3. CASE OnOverlay
  <2>1. /\ queue # <<>> /\ queue' = Tail(queue) /\ Head(queue).code \notin SyncCode
        /\ UNCHANGED <<wpc, race, drained, mpc>>
        /\ Interrupt(FALSE, "ok") \/ UNCHANGED <<interrupted, mouse, crashed>>
    BY <1>3 DEF OnOverlay, Take, SyncCode, mainRest
  <2> QED
    BY <2>1, InterruptTells, ToldKept, OtherTakenWaits
<1>4. CASE OnUiClose \/ OnUpsert
  <2>1. /\ wpc' \notin Waiting \cup Posting
        /\ UNCHANGED <<mpc, crashed, interrupted, mouse>>
    BY <1>4 DEF OnUiClose, OnUpsert, Waiting, Posting, mainRest, sessVars
  <2> QED
    BY <2>1, WorkerGoesOn
<1>5. CASE OnDestroy
  <2>1. /\ queue # <<>> /\ queue' = Tail(queue) /\ Head(queue).code \notin SyncCode
        /\ UNCHANGED <<wpc, race, drained>>
        /\ Interrupt(FALSE, "ok") \/ UNCHANGED <<mpc, interrupted, mouse, crashed>>
    BY <1>5 DEF OnDestroy, Take, SyncCode
  <2> QED
    BY <2>1, InterruptTells, ToldKept, OtherTakenWaits
<1>6. CASE JoinMouse \/ LeaveLoop \/ Deinit
  <2>1. /\ UNCHANGED <<wpc, race, drained, queue, interrupted, mouse, crashed>>
        /\ mpc = "join_mouse" \/ mpc' \notin {"join_mouse", "join_worker"}
    BY <1>6 DEF JoinMouse, LeaveLoop, Deinit, AtMain, sessVars, histVars
  <2> QED
    BY <2>1, ToldKept, WaitsKept DEF Has
<1>7. CASE JoinWorker
  <2>1. wpc' = "none" /\ mouse' = "none" /\ mpc' \notin {"join_mouse", "join_worker"}
    BY <1>7 DEF JoinWorker
  <2> QED
    BY <2>1 DEF WaitInv, MouseIsTold, JoinedIsTold, Joining, PostWasTested, RequestIsSent,
       Waiting, Posting
<1>8. CASE DrainEnds
  <2>1. /\ queue = <<>> /\ UNCHANGED <<wpc, race>>
        /\ \/ mpc' = "deinit" /\ UNCHANGED <<interrupted, mouse, crashed>>
           \/ Interrupt(FALSE, "ok")
    BY <1>8 DEF DrainEnds
  <2>2. wpc \in Waiting => LatePost
    BY <2>1 DEF WaitInv, RequestIsSent, Has
  <2>3. RequestIsSent'
    BY <2>1, <2>2 DEF RequestIsSent, LatePost
  <2>4. PostWasTested'
    BY <2>1 DEF WaitInv, PostWasTested
  <2>5. MouseIsTold' /\ JoinedIsTold'
    BY <2>1, InterruptTells, ToldKept
  <2> QED
    BY <2>3, <2>4, <2>5 DEF WaitInv
<1> QED
  BY <1>1, <1>2, <1>3, <1>4, <1>5, <1>6, <1>7, <1>8 DEF MainStep, HandleEvent, Join, Leave

LEMMA WorkerEndWaits ==
    ASSUME IndInv, WaitInv, WorkerQuits \/ WorkerEnd
    PROVE  WaitInv'
<1>1. CASE WorkerQuits \/ WorkerResets \/ WorkerFinishes \/ DestroyTests \/ DestroyPushes
  <2>1. /\ wpc' \notin Waiting \cup Posting
        /\ UNCHANGED <<mpc, crashed, interrupted, mouse>>
    BY <1>1 DEF WorkerQuits, WorkerResets, WorkerFinishes, DestroyTests, DestroyPushes, GoWorker,
       Waiting, Posting, workerRest, mainRest
  <2> QED
    BY <2>1, WorkerGoesOn
<1>2. CASE UpdateTests
  BY <1>2, TestWaits DEF UpdateTests, Waiting, Posting
<1>3. CASE UpdatePushes
  BY <1>3, PushWaits DEF UpdatePushes, Waiting, Posting, SyncCode
<1> QED
  BY <1>1, <1>2, <1>3 DEF WorkerEnd

LEMMA WorkerWaits ==
    ASSUME IndInv, WaitInv, WorkerStep
    PROVE  WaitInv'
<1>1. CASE \/ WorkerBegin \/ WorkerSeesMouse \/ WorkerLaunches \/ WorkerLaunchFails
           \/ WorkerPrepares \/ WorkerConnects \/ WorkerConnectFails \/ WorkerOpens
           \/ WorkerWoken \/ WorkerCloses \/ WorkerStops \/ WorkerCleansUp
  <2>1. /\ wpc' \notin Waiting \cup Posting
        /\ UNCHANGED <<mpc, crashed, interrupted, mouse>>
    BY <1>1 DEF WorkerBegin, WorkerSeesMouse, WorkerLaunches, WorkerLaunchFails,
       WorkerPrepares, WorkerConnects, WorkerConnectFails, WorkerOpens,
       WorkerWoken, WorkerCloses, WorkerStops, WorkerCleansUp, GoWorker,
       Waiting, Posting, workerRest, mainRest
  <2> QED
    BY <2>1, WorkerGoesOn
<1>2. CASE SetupTests
  BY <1>2, TestWaits DEF SetupTests, Waiting, Posting
<1>3. CASE SetupPushes
  BY <1>3, PushWaits DEF SetupPushes, Waiting, Posting, SyncCode
<1> QED
  BY <1>1, <1>2, <1>3, WorkerEndWaits DEF WorkerStep

LEMMA NextWaitInv == IndInv /\ WaitInv /\ [Next]_vars => WaitInv'
<1> SUFFICES ASSUME IndInv, WaitInv, [Next]_vars PROVE WaitInv'
  OBVIOUS
<1>1. CASE MouseStep
  <2>1. UNCHANGED <<wpc, race, drained, queue, interrupted, crashed, mpc>>
    BY <1>1 DEF MouseStep, MouseOpens, MouseCloses, mouseRest, mainVars, mainRest, sessVars, histVars
  <2>2. MouseIsTold' /\ JoinedIsTold'
    BY <1>1, <2>1 DEF MouseStep, MouseOpens, MouseCloses, WaitInv, MouseIsTold, JoinedIsTold,
       Joining
  <2> QED
    BY <2>1, <2>2, WaitsKept DEF Has
<1>2. CASE CallbackStep \/ LimelightFails
  <2>1. UNCHANGED <<wpc, race, drained, queue, mpc>>
    BY <1>2 DEF CallbackStep, TerminationReads, TerminationSetsError, TerminationInterrupts,
       LimelightFails, TerminationFires, DecoderFails, callbackRest, mainVars, mainRest
  <2>2. (\E err : Interrupt(FALSE, err)) \/ UNCHANGED <<interrupted, mouse, crashed>>
    BY <1>2 DEF CallbackStep, TerminationReads, TerminationSetsError, TerminationInterrupts,
       LimelightFails, TerminationFires, DecoderFails
  <2> QED
    BY <2>1, <2>2, InterruptTells, ToldKept, WaitsKept DEF Has
<1>3. CASE Stopped \/ UNCHANGED vars
  <2>1. UNCHANGED <<wpc, race, drained, queue, interrupted, mouse, crashed, mpc>>
    BY <1>3 DEF Stopped, vars, mainVars, mainRest, sessVars, histVars
  <2> QED
    BY <2>1, ToldKept, WaitsKept DEF Has
<1> QED
  BY <1>1, <1>2, <1>3, InputWaits, MainStepWaits, WorkerWaits DEF Next

\* A request that was posted stays on the queue while its worker waits for it,
\* and nobody ends a session without telling the mouse thread.
THEOREM WaitInvariance == Spec => []WaitInv
<1> QED
  BY InitWaitInv, NextWaitInv, Invariance, PTL DEF Spec

LEMMA WaitInvAnswers == IndInv /\ WaitInv => WaitsAreAnswered
<1> SUFFICES ASSUME IndInv, WaitInv PROVE WaitsAreAnswered
  OBVIOUS
<1>1. ASSUME wpc \in Waiting, ~LatePost
      PROVE  mpc \in {"loop", "drain"} /\ Has(Awaited)
  <2>1. ~drained /\ Has(Awaited)
    BY <1>1 DEF WaitInv, RequestIsSent
  <2>2. mpc \in MainPC
    BY DEF IndInv, TypeOK, MainTypes
  <2> QED
    BY <1>1, <2>1, <2>2 DEF IndInv, Shape, JoinAfterWorker, MainPhases, Joining, MainPC, Waiting
<1> QED
  BY <1>1 DEF WaitsAreAnswered, WaitInv, MouseIsTold, JoinedIsTold, Joining, Waiting, Has

\* Nobody waits in vain: a worker in app_bus_post_sync has its request on the
\* queue of a main thread that still takes events, unless the post lost its race
\* with app_bus_drain, and session_destroy joins threads that were told to end.
THEOREM NobodyWaitsInVain == Spec => []WaitsAreAnswered
BY WaitInvariance, Invariance, WaitInvAnswers, PTL

\* All together: no stream event is handled without its session, none is pushed
\* against a lock that the main thread holds while it joins the worker, and who
\* waits for another thread waits for something that comes.
THEOREM SessionEventsComeInTime == Spec => []EventsComeInTime
BY EventsMeetTheirSession, FilterNeverBlocksWorker, NobodyWaitsInVain, PTL DEF EventsComeInTime

=============================================================================
