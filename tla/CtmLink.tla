------------------------------- MODULE CtmLink -------------------------------
(***************************************************************************)
(* One bridged controller (ctm_controller_t): its session thread, which     *)
(* connects to the agent on the PC again and again, and the threads that    *)
(* read the device and send its reports while a connection lasts. The main  *)
(* thread plugs it in and out; a controller that was plugged out is freed,  *)
(* and the next plug in makes a new one.                                    *)
(***************************************************************************)
EXTENDS Naturals

CONSTANTS
    Families,    \* which ctm_controller_ops_t there are
    Transports   \* what connects: "enet" is tried first, "tcp" is the fallback

ASSUME CtmAssumption ==
    /\ Families \subseteq {"ds5", "ds4", "plain", "puck", "flydigi", "flydigi_evdev"}
    /\ Families # {}
    /\ Transports \subseteq {"enet", "tcp"} /\ Transports # {}

VARIABLES
    plug,       \* where the main thread is with this controller
    session,    \* where the session thread is
    input,      \* input_thread: none, reading, sending, or ended and not joined
    feeder,     \* evdev_gamepad_thread
    sibling,    \* the composite readers
    orphan,     \* a feeder that nobody will join
    acl         \* the thread of the raw-ACL forwarder runs

VARIABLES
    stop,       \* c->stop
    compRun,    \* c->comp_run
    wake,       \* bytes in the wake pipe
    hid,        \* hid_fd is open
    xport,      \* c->xport: none, enet or tcp
    connected,  \* ENet's own idea of whether the peer is there
    up,         \* the connection is really up
    agent,      \* the agent on the PC answers
    device,     \* the device is there
    family      \* c->ops: what kind of device it is

threads == <<session, input, feeder, sibling, orphan, acl>>
link == <<xport, connected, up>>
world == <<agent, device, family>>
vars == <<plug, threads, stop, compRun, wake, hid, link, world>>

NeedsConfig == family \in {"ds5", "ds4"}     \* waits for HOST_CONFIG
RawAcl == family = "ds5"                     \* has the raw-ACL forwarder
HasSiblings == family \in {"puck", "flydigi"}
HasFeeder == family \in {"flydigi", "flydigi_evdev"}
HasInput == family # "flydigi_evdev"         \* no hidraw: the feeder is all there is

Joining == {"joining_feeder", "joining_input", "joining_sibling"}

\* A session end and a plug out write a byte each.
MaxWake == 2

CtmTypeOK ==
    /\ plug \in {"none", "in", "shutting", "waking", "joining"}
    /\ session \in {"none", "opening", "probing", "connecting", "connected", "greeting",
                    "handshake", "receiving", "starting", "active", "ending", "releasing",
                    "closing", "ended"} \cup Joining
    /\ input \in {"none", "reading", "sending", "ended"}
    /\ {feeder, sibling} \subseteq {"none", "running", "ended"}
    /\ {orphan, acl, stop, compRun, hid, connected, up, agent, device} \subseteq BOOLEAN
    /\ wake \in 0..MaxWake
    /\ xport \in {"none"} \cup Transports
    /\ family \in Families

Init ==
    /\ plug = "none" /\ session = "none"
    /\ input = "none" /\ feeder = "none" /\ sibling = "none"
    /\ orphan = FALSE /\ acl = FALSE
    /\ stop = FALSE /\ compRun = FALSE /\ wake = 0 /\ hid = FALSE
    /\ xport = "none" /\ connected = FALSE /\ up = FALSE
    /\ agent \in BOOLEAN /\ device = TRUE /\ family \in Families

-----------------------------------------------------------------------------
(* The main thread.                                                        *)

\* ctm_controller_create and ctm_controller_plug_in
PlugIn ==
    /\ plug = "none"
    /\ plug' = "in" /\ session' = "opening" /\ stop' = FALSE
    /\ UNCHANGED <<input, feeder, sibling, orphan, acl, compRun, wake, hid, link, world>>

\* ctm_controller_plug_out: stop, shut a TCP connection down, wake, join
PlugOut ==
    /\ plug = "in"
    /\ plug' = "shutting" /\ stop' = TRUE
    /\ UNCHANGED <<threads, compRun, wake, hid, link, world>>

\* Fault: the connection is left to time out.
ShutsNothing ==
    /\ plug = "shutting" /\ plug' = "waking"
    /\ UNCHANGED <<threads, stop, compRun, wake, hid, link, world>>

Shuts ==
    /\ plug = "shutting" /\ plug' = "waking"
    /\ up' = (up /\ xport # "tcp")
    /\ UNCHANGED <<threads, stop, compRun, wake, hid, xport, connected, world>>

Wakes ==
    /\ plug = "waking" /\ plug' = "joining"
    /\ wake' = IF hid THEN wake + 1 ELSE wake
    /\ UNCHANGED <<threads, stop, compRun, hid, link, world>>

\* The rest of plug_out, and ctm_controller_destroy, which always follows.
Joins ==
    /\ plug = "joining" /\ session = "ended"
    /\ plug' = "none" /\ session' = "none"
    /\ xport' = "none" /\ connected' = FALSE /\ up' = FALSE
    /\ hid' = FALSE /\ wake' = 0 /\ compRun' = FALSE
    /\ UNCHANGED <<input, feeder, sibling, orphan, acl, stop, world>>

-----------------------------------------------------------------------------
(* The session thread: session_main and, from "handshake" to the joins,     *)
(* run_session.                                                             *)

Go(from, to) == session = from /\ session' = to

Opens ==
    /\ \/ Go("opening", "probing") /\ device /\ hid' = TRUE /\ UNCHANGED stop
       \/ Go("opening", "ended") /\ hid' = FALSE /\ stop' = TRUE
    /\ acl' \in IF RawAcl THEN {acl, TRUE} ELSE {acl}
    /\ UNCHANGED <<plug, input, feeder, sibling, orphan, compRun, wake, link, world>>

\* Fault: the probe loop does not look at stop.
ProbesOn ==
    /\ Go("probing", "connecting")
    /\ UNCHANGED <<plug, input, feeder, sibling, orphan, acl, stop, compRun, wake, hid, link, world>>

\* stop is looked at before a try, and not again until the try is over.
Probes ==
    /\ Go("probing", "connecting") /\ ~stop
    /\ UNCHANGED <<plug, input, feeder, sibling, orphan, acl, stop, compRun, wake, hid, link, world>>

\* ctm_transport_connect_once: plug_out may have come and gone meanwhile.
Connects(kind) ==
    /\ Go("connecting", "connected") /\ agent
    /\ xport' = kind /\ up' = TRUE /\ connected' = (kind = "enet")
    /\ UNCHANGED <<plug, input, feeder, sibling, orphan, acl, stop, compRun, wake, hid, world>>

ConnectsNot ==
    /\ Go("connecting", "probing")
    /\ UNCHANGED <<plug, input, feeder, sibling, orphan, acl, stop, compRun, wake, hid, link, world>>

GivesUp ==
    /\ Go("probing", "closing") \/ Go("connected", "closing")
    /\ stop
    /\ UNCHANGED <<plug, input, feeder, sibling, orphan, acl, stop, compRun, wake, hid, link, world>>

\* Fault: a connection is used whatever happened while it was made.
UsesAny ==
    /\ Go("connected", "greeting")
    /\ UNCHANGED <<plug, input, feeder, sibling, orphan, acl, stop, compRun, wake, hid, link, world>>

\* stop is looked at once more: from here on the session uses the connection.
Uses ==
    /\ Go("connected", "greeting") /\ ~stop
    /\ UNCHANGED <<plug, input, feeder, sibling, orphan, acl, stop, compRun, wake, hid, link, world>>

\* ctm_transport_send_msg: ENet takes what it can still connect to its peer, and
\* TCP may take what is never delivered.
Sends == IF xport = "enet" THEN connected ELSE up
MayFail == ~Sends
MaySend == Sends \/ xport = "tcp"

\* HELLO
Greets ==
    /\ \/ Go("greeting", IF NeedsConfig THEN "handshake" ELSE "starting") /\ MaySend
       \/ Go("greeting", "releasing") /\ MayFail
    /\ UNCHANGED <<plug, input, feeder, sibling, orphan, acl, stop, compRun, wake, hid, link, world>>

\* The loop of handshake looks at stop before each receive.
AwaitsConfig ==
    /\ Go("handshake", IF stop THEN "releasing" ELSE "receiving")
    /\ UNCHANGED <<plug, input, feeder, sibling, orphan, acl, stop, compRun, wake, hid, link, world>>

\* The first message: HOST_CONFIG, or one that ends the handshake. It may have arrived
\* before the connection ended.
ReceivesConfig ==
    /\ Go("receiving", "starting") \/ Go("receiving", "releasing")
    /\ UNCHANGED <<plug, input, feeder, sibling, orphan, acl, stop, compRun, wake, hid, link, world>>

\* Over ENet a receive waits 50 ms, and the loop ends on stop or after five seconds;
\* over TCP the receive ends with the connection only.
MissesConfig ==
    /\ Go("receiving", "releasing")
    /\ xport = "enet" \/ ~up
    /\ connected' = (connected /\ up)
    /\ UNCHANGED <<plug, input, feeder, sibling, orphan, acl, stop, compRun, wake, hid, xport, up, world>>

\* Fault: the bytes of the last connection stay in the pipe.
StartsUndrained ==
    /\ Go("starting", "active")
    /\ wake' = wake
    /\ feeder' = IF HasFeeder THEN "running" ELSE "none"
    /\ input' = IF HasInput THEN "reading" ELSE "none"
    /\ sibling' = IF HasSiblings THEN "running" ELSE "none"
    /\ compRun' = TRUE
    /\ UNCHANGED <<plug, orphan, acl, stop, hid, link, world>>

\* A flydigi without hidraw has nothing to send when its feeder does not start.
Starts ==
    /\ Go("starting", "active")
    /\ wake' = 0
    /\ feeder' \in IF ~HasFeeder THEN {"none"}
                   ELSE IF HasInput THEN {"none", "running"} ELSE {"running"}
    /\ input' = IF HasInput THEN "reading" ELSE "none"
    /\ sibling' = IF HasSiblings THEN "running" ELSE "none"
    /\ compRun' = TRUE
    /\ UNCHANGED <<plug, orphan, acl, stop, hid, link, world>>

\* The feeder, or after it the input thread, does not start.
StartsNot ==
    /\ Go("starting", "releasing")
    /\ wake' = 0
    /\ orphan' \in IF HasFeeder /\ HasInput THEN {orphan, TRUE} ELSE {orphan}
    /\ UNCHANGED <<plug, input, feeder, sibling, acl, stop, compRun, hid, link, world>>

\* The loop ends on stop, or when the connection is found to be lost.
Loses ==
    /\ Go("active", "ending")
    /\ stop \/ ~up
    /\ connected' = (connected /\ (up \/ stop))
    /\ UNCHANGED <<plug, input, feeder, sibling, orphan, acl, stop, compRun, wake, hid, xport, up, world>>

\* Fault: the input thread is not woken.
EndsUnwoken ==
    /\ Go("ending", "joining_feeder")
    /\ compRun' = FALSE
    /\ UNCHANGED <<plug, input, feeder, sibling, orphan, acl, stop, wake, hid, link, world>>

Ends ==
    /\ Go("ending", "joining_feeder")
    /\ compRun' = FALSE /\ wake' = wake + 1
    /\ UNCHANGED <<plug, input, feeder, sibling, orphan, acl, stop, hid, link, world>>

JoinsFeeder ==
    /\ Go("joining_feeder", "joining_input")
    /\ feeder # "running" /\ feeder' = "none"
    /\ UNCHANGED <<plug, input, sibling, orphan, acl, stop, compRun, wake, hid, link, world>>

\* Fault: the input thread is left to end by itself.
JoinsInputNot ==
    /\ Go("joining_input", "joining_sibling")
    /\ UNCHANGED <<plug, input, feeder, sibling, orphan, acl, stop, compRun, wake, hid, link, world>>

JoinsInput ==
    /\ Go("joining_input", "joining_sibling")
    /\ input \in {"none", "ended"} /\ input' = "none"
    /\ UNCHANGED <<plug, feeder, sibling, orphan, acl, stop, compRun, wake, hid, link, world>>

JoinsSibling ==
    /\ Go("joining_sibling", "releasing")
    /\ sibling # "running" /\ sibling' = "none"
    /\ UNCHANGED <<plug, input, feeder, orphan, acl, stop, compRun, wake, hid, link, world>>

\* release_evdev_grabs and ctm_transport_disconnect
Releases ==
    /\ Go("releasing", IF stop THEN "closing" ELSE "probing")
    /\ xport' = "none" /\ connected' = FALSE /\ up' = FALSE
    /\ UNCHANGED <<plug, input, feeder, sibling, orphan, acl, stop, compRun, wake, hid, world>>

Closes ==
    /\ Go("closing", "ended")
    /\ acl' = FALSE /\ stop' = TRUE
    /\ UNCHANGED <<plug, input, feeder, sibling, orphan, compRun, wake, hid, link, world>>

-----------------------------------------------------------------------------
(* The readers.                                                            *)

InputReads ==
    /\ input = "reading" /\ ~stop /\ wake = 0 /\ device
    /\ input' = "sending"
    /\ UNCHANGED <<plug, session, feeder, sibling, orphan, acl, stop, compRun, wake, hid, link, world>>

\* A report that cannot be sent stops the controller.
InputSends ==
    /\ input = "sending"
    /\ \/ ~stop /\ MayFail /\ input' = "ended" /\ stop' = TRUE
       \/ ~stop /\ MaySend /\ input' = "reading" /\ UNCHANGED stop
       \/ stop /\ input' = "ended" /\ UNCHANGED stop
    /\ UNCHANGED <<plug, session, feeder, sibling, orphan, acl, compRun, wake, hid, link, world>>

InputEnds ==
    /\ input = "reading" /\ (stop \/ wake > 0 \/ ~device)
    /\ input' = "ended"
    /\ UNCHANGED <<plug, session, feeder, sibling, orphan, acl, stop, compRun, wake, hid, link, world>>

\* evdev_gamepad_thread_main looks at stop and does not mind a failed send.
FeederEnds ==
    /\ stop
    /\ \/ feeder = "running" /\ feeder' = "ended" /\ UNCHANGED orphan
       \/ orphan /\ orphan' = FALSE /\ UNCHANGED feeder
    /\ UNCHANGED <<plug, session, input, sibling, acl, stop, compRun, wake, hid, link, world>>

\* composite_reader_main
SiblingEnds ==
    /\ sibling = "running" /\ (stop \/ ~compRun \/ ~device)
    /\ sibling' = "ended"
    /\ UNCHANGED <<plug, session, input, feeder, orphan, acl, stop, compRun, wake, hid, link, world>>

-----------------------------------------------------------------------------
(* The world.                                                              *)

LinkDrops ==
    /\ up /\ up' = FALSE
    /\ UNCHANGED <<plug, threads, stop, compRun, wake, hid, xport, connected, world>>

AgentToggles ==
    /\ agent' = ~agent
    /\ UNCHANGED <<plug, threads, stop, compRun, wake, hid, link, device, family>>

DeviceToggles ==
    /\ device' = ~device
    /\ UNCHANGED <<plug, threads, stop, compRun, wake, hid, link, agent, family>>

-----------------------------------------------------------------------------
PlugOutStep == Shuts \/ Wakes \/ Joins

SessionStep ==
    \/ Opens \/ Probes \/ ConnectsNot \/ GivesUp \/ Uses \/ Greets
    \/ AwaitsConfig \/ MissesConfig \/ Starts \/ StartsNot
    \/ Loses \/ Ends \/ JoinsFeeder \/ JoinsInput \/ JoinsSibling \/ Releases \/ Closes
    \/ \E kind \in Transports : Connects(kind)

InputStep == InputReads \/ InputSends \/ InputEnds
WorldStep == LinkDrops \/ AgentToggles \/ DeviceToggles

Next ==
    \/ PlugIn \/ PlugOut \/ PlugOutStep \/ SessionStep \/ ReceivesConfig
    \/ InputStep \/ FeederEnds \/ SiblingEnds \/ WorldStep

\* Every thread runs on. The user, the agent (ReceivesConfig) and the world
\* owe nothing.
Spec ==
    /\ Init /\ [][Next]_vars
    /\ WF_vars(PlugOutStep) /\ WF_vars(SessionStep)
    /\ WF_vars(InputStep) /\ WF_vars(FeederEnds) /\ WF_vars(SiblingEnds)

-----------------------------------------------------------------------------
(* Properties.                                                             *)

\* Besides the types: a thread that reads the device or sends its reports has an open
\* device and a connection: run_session joins them all before the transport is closed, and
\* plug_out joins the session thread before it closes the device. Nothing that they
\* join runs on a controller that was plugged out and freed.
ReadersHaveTheirLink ==
    /\ CtmTypeOK
    /\ input \in {"reading", "sending"} \/ feeder = "running" \/ sibling = "running" =>
           hid /\ xport # "none"
    /\ plug = "none" =>
           session = "none" /\ input = "none" /\ feeder = "none" /\ sibling = "none"

\* Whoever is joined has been told, in the way it looks at: the input thread by a byte in
\* the pipe, the composite readers by comp_run, the session thread by stop, and where it
\* only looks at its TCP connection, by the end of that. A TCP connection that was being
\* made while plug_out looked for one to shut down comes up all the same: the session
\* thread, which looks at stop after it connected, does not use it. (The feeder is not
\* told: see LinkLossIsRetried.)
JoinedAreTold ==
    /\ session \in {"joining_feeder", "joining_input"} => wake > 0
    /\ session \in Joining => ~compRun
    /\ plug \in {"waking", "joining"} =>
           stop /\ (xport = "tcp" /\ up => session \in {"connected", "closing", "ended"})

\* Between plug in and plug out, and after it, the threads of a controller have what they
\* use, and end when they are waited for.
ThreadsInOrder == ReadersHaveTheirLink /\ JoinedAreTold

\* The byte that ended the input thread of one connection does not end that of the
\* next: while the loop runs an input thread ends for a reason of its own.
StaleWakeStopsNoReader ==
    [][session = "active" /\ input # "ended" /\ input' = "ended" =>
          stop' \/ ~device]_vars

\* plug_out comes back, whatever the agent does: the main thread waits for it.
PlugOutCompletes == plug = "shutting" ~> plug = "none"

\* After a lost connection the session thread probes for the next, or was stopped.
\* A running feeder keeps it from that: it is joined, and only looks at stop.
LinkLossIsRetried ==
    session = "ending" /\ feeder # "running" ~> session = "probing" \/ stop

-----------------------------------------------------------------------------
(* What the comments say, and the code does not do.                        *)

\* session_main: "connect -> grab -> run_session -> release -> disconnect loop until
\* plug_out": whatever ended a session, the next connection is probed for.
LoopsUntilPlugOut ==
    session = "ending" /\ plug = "in" ~> session = "probing" \/ plug # "in"

\* ctm_controller_destroy: "Free an idle (already plugged-out) controller": the
\* thread of the raw-ACL forwarder, which logs through the controller, has ended.
AclEndsWithController == plug = "none" => ~acl

\* ctm_controller_destroy frees an idle controller: no feeder uses it any more.
NoOrphanFeeder == plug = "none" => ~orphan

=============================================================================
