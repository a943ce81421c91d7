---------------------------- MODULE CtmMessages ----------------------------
(***************************************************************************)
(* The messages of one bridged controller over ENet. The input thread puts  *)
(* its reports into the outbox; the session thread, which alone calls ENet, *)
(* sends what is there, receives what has come, and answers it. CtmLink     *)
(* models when these threads run; here they run while there is a            *)
(* connection.                                                              *)
(***************************************************************************)
EXTENDS Ring

CONSTANTS
    MaxReport,   \* bound: no report is read once so many messages were sent
    MaxRequest,  \* bound: messages of the PC in all
    MaxConn      \* bound: connections

\* A message carries the number of its connection; the code has no such field.
Outgoing == [seq : Nat \ {0}, kind : {"report", "reply"}, conn : Nat \ {0}]
Incoming == [id : Nat \ {0}, kind : {"output", "paced", "feature"}, conn : Nat \ {0}]

ASSUME MessagesAssumption ==
    /\ MaxReport \in Nat /\ MaxRequest \in Nat /\ MaxConn \in Nat
    /\ Free \notin Outgoing \cup Incoming

VARIABLES
    session,     \* what the session thread does
    outbox, inbox, paced,
    connected,   \* client->connected
    sendSequence,
    conn,        \* how many connections there have been
    up,          \* the link is really up
    wire,        \* what ENet carries to the PC
    asked,       \* what ENet carries to the TV
    requests,    \* how many messages the PC has sent
    heard,       \* the last sequence number the PC has received
    handled,     \* the last message of the PC that was handled
    written      \* the last paced report that was written to the device

queues == <<outbox, inbox, paced>>
counts == <<sendSequence, conn, requests>>
seen == <<heard, handled, written>>
vars == <<session, queues, connected, counts, up, wire, asked, seen>>

MessagesTypeOK ==
    /\ session \in {"probing", "draining", "flushing", "polling", "sweeping", "handling", "leaving"}
    /\ outbox \in Rings(Outgoing) /\ inbox \in Rings(Incoming) /\ paced \in Rings(Incoming)
    /\ connected \in BOOLEAN /\ up \in BOOLEAN
    /\ sendSequence \in Nat /\ conn \in 0..MaxConn /\ requests \in 0..MaxRequest
    /\ wire \in Seq(Outgoing) /\ asked \in Seq(Incoming)
    /\ heard \in Nat /\ handled \in Nat /\ written \in Nat

Init ==
    /\ session = "probing"
    /\ outbox = EmptyRing /\ inbox = EmptyRing /\ paced = EmptyRing
    /\ connected = FALSE /\ up = FALSE
    /\ sendSequence = 0 /\ conn = 0 /\ requests = 0
    /\ wire = <<>> /\ asked = <<>>
    /\ heard = 0 /\ handled = 0 /\ written = 0

-----------------------------------------------------------------------------
Go(from, to) == session = from /\ session' = to

\* enet_client_send_msg: the sequence number is given out under the lock.
Queued(kind) ==
    Put(outbox, [seq |-> sendSequence + 1, kind |-> kind, conn |-> conn])

\* input_thread_main sends a report.
Reports ==
    /\ connected /\ sendSequence < MaxReport
    /\ sendSequence' = sendSequence + 1 /\ outbox' = Queued("report")
    /\ UNCHANGED <<session, inbox, paced, connected, conn, requests, up, wire, asked, seen>>

Connects ==
    /\ Go("probing", "draining") /\ conn < MaxConn
    /\ connected' = TRUE /\ up' = TRUE /\ conn' = conn + 1
    /\ wire' = <<>> /\ asked' = <<>>
    /\ UNCHANGED <<queues, sendSequence, requests, seen>>

\* The connection times out: enet_client_connect empties the queues.
ConnectFails ==
    /\ session = "probing"
    /\ outbox' = EmptyRing /\ inbox' = EmptyRing /\ connected' = FALSE
    /\ UNCHANGED <<session, paced, counts, up, wire, asked, seen>>

\* drain_paced: whatever is due
Drains ==
    /\ session = "draining" /\ paced.count > 0
    /\ paced' = Taken(paced) /\ written' = Oldest(paced).id
    /\ UNCHANGED <<session, outbox, inbox, connected, counts, up, wire, asked, heard, handled>>

DrainEnds ==
    /\ Go("draining", "flushing")
    /\ UNCHANGED <<queues, connected, counts, up, wire, asked, seen>>

\* enet_client_flush_outbox, before and after the host is serviced: without a peer
\* the message is dropped.
Flushes ==
    /\ session \in {"flushing", "sweeping"} /\ outbox.count > 0
    /\ outbox' = Taken(outbox)
    /\ wire' = IF connected THEN Append(wire, Oldest(outbox)) ELSE wire
    /\ UNCHANGED <<session, inbox, paced, connected, counts, up, asked, seen>>

FlushEnds ==
    /\ outbox.count = 0
    /\ \/ Go("flushing", "polling")
       \/ Go("sweeping", IF connected THEN "handling" ELSE "leaving")
    /\ UNCHANGED <<queues, connected, counts, up, wire, asked, seen>>

\* enet_client_ingest
Ingests ==
    /\ session = "polling" /\ connected /\ asked # <<>>
    /\ inbox' = Put(inbox, Head(asked)) /\ asked' = Tail(asked)
    /\ UNCHANGED <<session, outbox, paced, connected, counts, up, wire, seen>>

\* enet_client_handle_event: the peer is gone.
Drops ==
    /\ session = "polling" /\ connected /\ ~up
    /\ connected' = FALSE
    /\ UNCHANGED <<session, queues, counts, up, wire, asked, seen>>

PollEnds ==
    /\ Go("polling", "sweeping")
    /\ UNCHANGED <<queues, connected, counts, up, wire, asked, seen>>

\* enet_client_recv_msg and handle_message: a feature request is answered, an output
\* report is written or queued to be written at its pace.
Handles ==
    /\ session = "handling" /\ inbox.count > 0
    /\ inbox' = Taken(inbox) /\ handled' = Oldest(inbox).id
    /\ \/ /\ Oldest(inbox).kind = "feature"
          /\ sendSequence' = sendSequence + 1 /\ outbox' = Queued("reply")
          /\ UNCHANGED paced
       \/ /\ Oldest(inbox).kind = "paced" /\ paced' = Put(paced, Oldest(inbox))
          /\ UNCHANGED <<outbox, sendSequence>>
       \/ /\ Oldest(inbox).kind = "output"
          /\ UNCHANGED <<outbox, sendSequence, paced>>
    /\ UNCHANGED <<session, connected, conn, requests, up, wire, asked, heard, written>>

\* The loop of run_session goes round, or ends because of a plug out.
HandleEnds ==
    /\ inbox.count = 0
    /\ Go("handling", "draining") \/ Go("handling", "leaving")
    /\ UNCHANGED <<queues, connected, counts, up, wire, asked, seen>>

\* Fault: the queues keep what the last connection left.
DisconnectsKeeping ==
    /\ Go("leaving", "probing")
    /\ paced' = EmptyRing
    /\ connected' = FALSE /\ up' = FALSE /\ wire' = <<>> /\ asked' = <<>>
    /\ UNCHANGED <<outbox, inbox, counts, seen>>

\* enet_client_disconnect empties both queues; the paced one is a local of run_session.
Disconnects ==
    /\ Go("leaving", "probing")
    /\ outbox' = EmptyRing /\ inbox' = EmptyRing /\ paced' = EmptyRing
    /\ connected' = FALSE /\ up' = FALSE /\ wire' = <<>> /\ asked' = <<>>
    /\ UNCHANGED <<counts, seen>>

-----------------------------------------------------------------------------
(* ENet and the PC.                                                        *)

\* A report travels unreliably.
Travels ==
    /\ up /\ wire # <<>> /\ wire' = Tail(wire)
    /\ \/ heard' = Head(wire).seq
       \/ Head(wire).kind = "report" /\ UNCHANGED heard
    /\ UNCHANGED <<session, queues, connected, counts, up, asked, handled, written>>

Asks(kind) ==
    /\ up /\ requests < MaxRequest
    /\ requests' = requests + 1
    /\ asked' = Append(asked, [id |-> requests + 1, kind |-> kind, conn |-> conn])
    /\ UNCHANGED <<session, queues, connected, sendSequence, conn, up, wire, seen>>

LinkDrops ==
    /\ up /\ up' = FALSE /\ wire' = <<>> /\ asked' = <<>>
    /\ UNCHANGED <<session, queues, connected, counts, seen>>

-----------------------------------------------------------------------------
SessionStep ==
    \/ Drains \/ DrainEnds \/ Flushes \/ FlushEnds \/ Ingests \/ Drops \/ PollEnds
    \/ Handles \/ HandleEnds \/ Disconnects

Next ==
    \/ Reports \/ Connects \/ ConnectFails \/ SessionStep
    \/ Travels \/ LinkDrops \/ \E kind \in {"output", "paced", "feature"} : Asks(kind)

Spec == Init /\ [][Next]_vars /\ WF_vars(SessionStep)
-----------------------------------------------------------------------------
(* Properties.                                                             *)

\* The payload of a message is freed once, or handed over, and never kept in a
\* slot that will be reused: enet_client_ingest, enet_client_send_msg,
\* enet_client_flush_outbox, enet_client_recv_msg and free_msg_ring share the slots.
PayloadsFreedOnce == PayloadsOwned(outbox) /\ PayloadsOwned(inbox) /\ PayloadsOwned(paced)

Outbox == INSTANCE LossyQueue WITH queue <- Content(outbox)
Inbox == INSTANCE LossyQueue WITH queue <- Content(inbox)
Paced == INSTANCE LossyQueue WITH queue <- Content(paced)

\* Each ring is a queue of at most Cap messages that loses its oldest only, and
\* only to take another: what head and count say of the slots is that.
RingsAreQueues == Outbox!QSpec /\ Inbox!QSpec /\ Paced!QSpec

\* These messages belong to the connection there is.
Current(messages) == \A i \in DOMAIN messages : messages[i].conn = conn

\* Nothing that was queued for one connection is sent or handled on the next: a
\* feature request that was lost with its link is not answered to another agent.
NothingStale ==
    /\ Current(Content(outbox)) /\ Current(Content(inbox)) /\ Current(Content(paced))
    /\ Current(wire) /\ Current(asked)

\* The PC sees the sequence numbers grow, whoever sent the messages, the device sees
\* the paced reports in the order of the PC, and no message is handled twice,
\* although a full ring moves its head on and the two threads share the outbox.
InOrder ==
    [][/\ heard' # heard => heard' > heard
       /\ handled' # handled => handled' > handled
       /\ written' # written => written' > written]_vars

\* enet_transport.h: "Build and queue one framed message (header + payload) for
\* reliable delivery": an answer leaves the outbox for the wire, as long as there is a
\* connection.
RepliesKept ==
    [][\A i \in DOMAIN Content(outbox) :
          Content(outbox)[i].kind = "reply" /\ connected' =>
              \/ \E j \in DOMAIN Content(outbox') : Content(outbox')[j] = Content(outbox)[i]
              \/ \E j \in DOMAIN wire' : wire'[j] = Content(outbox)[i]]_vars

=============================================================================
