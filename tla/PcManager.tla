------------------------------ MODULE PcManager ------------------------------
(***************************************************************************)
(* The hosts (pclist.c, pcmanager.c) and the threads that ask them: the     *)
(* executor runs the requests of the user, one thread listens to the        *)
(* announcements of the network. They look a host up under the lock, ask it *)
(* without the lock, and post what they learned to the main thread, which   *)
(* alone changes the list, and wait until it has done so.                   *)
(***************************************************************************)
EXTENDS FiniteSets, Naturals, SequencesExt

CONSTANTS
    Hosts,    \* uuids
    Nodes,    \* the memory of pclist_t
    Data,     \* the memory of SERVER_DATA
    Executor, \* threads of the executor
    Mdns,     \* the thread of the discovery
    Kinds,    \* what happens: requests of the user, and announcements
    Nothing   \* NULL, and the uuid of all zeros

ASSUME PcAssumption ==
    /\ Nothing \notin Hosts \cup Nodes \cup Data
    /\ Mdns \notin Executor
    /\ Kinds \subseteq {"update", "add", "pair", "quit", "wol", "forget", "discover"}

Threads == Executor \cup {Mdns}

VARIABLES
    servers, \* manager->servers
    node,    \* what is in the memory of each node
    uuid,    \* of each SERVER_DATA that is allocated
    thread,  \* what each thread does, with its pointers
    bus,     \* threads that wait in app_bus_post_sync
    aborted  \* an assertion failed, or what was freed was used

vars == <<servers, node, uuid, thread, bus, aborted>>

\* A state is "online" whether the host is paired or not, and "offline" also stands for
\* SERVER_STATE_ERROR.
Node == [id : Hosts \cup {Nothing}, server : Data \cup {Nothing},
         state : {"none", "online", "offline"}]

Thread == [kind : Kinds \cup {"none"}, host : Hosts \cup {Nothing},
           phase : {"idle", "queued", "found", "asking", "marking", "upserting", "answering"},
           node : Nodes \cup {Nothing},    \* what the look-up returned
           server : Data \cup {Nothing},   \* what it reads, or passes to pclist_upsert
           state : {"online", "offline"}]

Blank == [id |-> Nothing, server |-> Nothing, state |-> "none"]

Idle == [kind |-> "none", host |-> Nothing, phase |-> "idle", node |-> Nothing,
         server |-> Nothing, state |-> "online"]

PcTypeOK ==
    /\ servers \in Seq(Nodes)
    /\ node \in [Nodes -> Node]
    /\ uuid \in [Data -> Hosts \cup {Nothing}]
    /\ thread \in [Threads -> Thread]
    /\ bus \in Seq(Threads) /\ Cardinality(Range(bus)) = Len(bus)
    /\ aborted \in BOOLEAN

\* pcmanager_load_known_hosts, from a file without hosts
Init ==
    /\ servers = <<>> /\ node = [n \in Nodes |-> Blank]
    /\ uuid = [d \in Data |-> Nothing]
    /\ thread = [t \in Threads |-> Idle]
    /\ bus = <<>> /\ aborted = FALSE

-----------------------------------------------------------------------------
(* Memory. An address is not used again while a thread still has it, so that *)
(* a pointer to what was freed is told from one to what came after.          *)

Listed == Range(servers)

FreshNodes == Nodes \ (Listed \cup {thread[t].node : t \in Threads})

FreshData ==
    {d \in Data : uuid[d] = Nothing} \
        ({thread[t].server : t \in Threads} \cup {node[n].server : n \in Listed})

\* serverdata_new, for a server of host h
Allocates(d, h) ==
    /\ FreshData # {} /\ d = CHOOSE x \in FreshData : TRUE
    /\ uuid' = [uuid EXCEPT ![d] = h]

\* serverdata_free
Freed(d) == [x \in Data |-> IF x = d THEN Nothing ELSE uuid[x]]

-----------------------------------------------------------------------------
(* The list. A look-up asserts, of every node it passes, that it has a server. *)

Matches(h) == {i \in DOMAIN servers : node[servers[i]].id = h /\ node[servers[i]].server # Nothing}

Asserts(h) ==
    \E i \in DOMAIN servers :
        node[servers[i]].server = Nothing /\ \A j \in Matches(h) : i < j

\* pclist_find_by_uuid
Found(h) == IF Matches(h) = {} THEN Nothing ELSE servers[CHOOSE i \in Matches(h) : TRUE]

\* pclist_find_by_addr: pclist_ll_compare_address says of every node that it matches.
FoundByAddr == IF servers = <<>> THEN Nothing ELSE servers[1]

\* Fault: the server that is replaced is kept.
AppliedKeeping(old, state, data) ==
    /\ node' = [node EXCEPT ![old] =
           IF data = Nothing THEN [@ EXCEPT !.state = state]
           ELSE [@ EXCEPT !.state = state, !.id = uuid[data], !.server = data]]
    /\ UNCHANGED uuid

\* pclist_node_apply
Applied(old, state, data) ==
    /\ node' = [node EXCEPT ![old] =
           IF data = Nothing THEN [@ EXCEPT !.state = state]
           ELSE [@ EXCEPT !.state = state, !.id = uuid[data], !.server = data]]
    /\ uuid' = IF data \in {Nothing, node[old].server} THEN uuid ELSE Freed(node[old].server)

\* Fault: nobody looks whether the host has a node.
UpsertedBlindly(h, state, data) ==
    LET new == CHOOSE n \in FreshNodes : TRUE
    IN  /\ FreshNodes # {}
        /\ servers' = Append(servers, new)
        /\ Applied(new, state, data)

\* upsert_perform, with the node it found or a new one
Upserted(h, state, data) ==
    LET old == Found(h)
        new == IF old # Nothing THEN old ELSE CHOOSE n \in FreshNodes : TRUE
    IN  /\ old # Nothing \/ FreshNodes # {}
        /\ servers' = IF old # Nothing THEN servers ELSE Append(servers, new)
        /\ Applied(new, state, data)

-----------------------------------------------------------------------------
(* The main thread.                                                         *)

Aborts == aborted' = TRUE /\ UNCHANGED <<servers, node, uuid, thread, bus>>

\* pcmanager_request_update, pcmanager_pair, pcmanager_quitapp and pcmanager_send_wol
\* of a host the launcher shows
Requests(t, k, h) ==
    /\ thread[t] = Idle /\ t \in Executor /\ k \notin {"add", "forget", "discover"}
    /\ Found(h) # Nothing /\ ~Asserts(h)
    /\ thread' = [thread EXCEPT ![t] = [Idle EXCEPT !.kind = k, !.host = h, !.phase = "queued"]]
    /\ UNCHANGED <<servers, node, uuid, bus, aborted>>

\* pcmanager_manual_add
Adds(t) ==
    /\ thread[t] = Idle /\ t \in Executor /\ "add" \in Kinds
    /\ thread' = [thread EXCEPT ![t] = [Idle EXCEPT !.kind = "add", !.phase = "asking"]]
    /\ UNCHANGED <<servers, node, uuid, bus, aborted>>

\* pcmanager_forget: pclist_remove, remove_perform and pclist_ll_nodefree
Forgets(h) ==
    /\ "forget" \in Kinds
    /\ ~Asserts(h)
    /\ \E i \in Matches(h) :
          /\ servers' = RemoveAt(servers, i)
          /\ node' = [node EXCEPT ![servers[i]] = Blank]
          /\ uuid' = Freed(node[servers[i]].server)
    /\ UNCHANGED <<thread, bus, aborted>>

\* A look-up of a host that a node without a server comes before, by anyone: the
\* listeners look it up as soon as that node is added.
LookUpAborts(h) == ~aborted /\ Asserts(h) /\ Aborts

IsFree(d) == d # Nothing /\ uuid[d] = Nothing

\* upsert_perform with a server that another answer replaced and freed meanwhile:
\* what follows is undefined.
UpsertMisuses(t) ==
    /\ bus # <<>> /\ t = Head(bus) /\ thread[t].phase = "upserting"
    /\ IsFree(thread[t].server)
    /\ Aborts

\* app_bus_drain: upsert_perform for the thread that waits the longest
Upserts(t) ==
    /\ bus # <<>> /\ t = Head(bus) /\ thread[t].phase = "upserting"
    /\ ~IsFree(thread[t].server)
    /\ ~Asserts(thread[t].host)
    /\ Upserted(thread[t].host, thread[t].state, thread[t].server)
    /\ IF t = Mdns
       THEN bus' = Tail(bus) /\ thread' = [thread EXCEPT ![t] = Idle]
       ELSE /\ bus' = Append(Tail(bus), t)
            /\ thread' = [thread EXCEPT ![t] = [Idle EXCEPT !.phase = "answering"]]
    /\ UNCHANGED aborted

\* worker_callback, for the thread that waits the longest
Answers(t) ==
    /\ bus # <<>> /\ t = Head(bus) /\ thread[t].phase = "answering"
    /\ bus' = Tail(bus) /\ thread' = [thread EXCEPT ![t] = Idle]
    /\ UNCHANGED <<servers, node, uuid, aborted>>

-----------------------------------------------------------------------------
(* The threads.                                                             *)

\* Fault: the worker waits for an action that was not pushed.
FinalizesUnpushed(t) ==
    /\ thread' = [thread EXCEPT ![t] = [Idle EXCEPT !.phase = "answering"]]
    /\ UNCHANGED bus

\* worker_context_finalize, with app_bus_post_sync
Finalizes(t) ==
    /\ thread' = [thread EXCEPT ![t] = [Idle EXCEPT !.phase = "answering"]]
    /\ bus' = Append(bus, t)

\* pcmanager_node
LooksUp(t) ==
    /\ thread[t].phase = "queued" /\ ~Asserts(thread[t].host)
    /\ LET n == Found(thread[t].host)
       IN  IF n = Nothing THEN Finalizes(t)
           ELSE /\ thread' = [thread EXCEPT ![t].node = n, ![t].phase = "found"]
                /\ UNCHANGED bus
    /\ UNCHANGED <<servers, node, uuid, aborted>>

\* What a worker takes from its node before it asks the host: the address (update), a
\* copy (serverdata_clone, pair), or the pointer it goes on reading (quit, wol).
Takes(t) ==
    /\ thread[t].phase = "found"
    /\ CASE thread[t].kind = "update" ->
              /\ thread' = [thread EXCEPT ![t].phase = "asking", ![t].node = Nothing]
              /\ UNCHANGED uuid
         [] thread[t].kind = "pair" ->
              /\ \E d \in FreshData :
                    /\ Allocates(d, thread[t].host)
                    /\ thread' = [thread EXCEPT ![t].phase = "asking", ![t].node = Nothing,
                                                ![t].server = d]
         [] OTHER ->
              /\ thread' = [thread EXCEPT ![t].phase = "asking",
                                          ![t].server = node[thread[t].node].server]
              /\ UNCHANGED uuid
    /\ UNCHANGED <<servers, node, bus, aborted>>

\* app_bus_post_sync of upsert_perform, with what the thread learned of host h
Posts(t, h, state, data) ==
    /\ thread' = [thread EXCEPT ![t].phase = "upserting", ![t].host = h, ![t].state = state,
                                ![t].server = data, ![t].node = Nothing]
    /\ bus' = Append(bus, t)

\* gs_get_status succeeds: a server of the uuid that answers at the address
Learns(t, h) ==
    /\ thread[t].phase = "asking" /\ thread[t].kind \in {"update", "add", "discover"}
    /\ \E d \in FreshData : Allocates(d, h) /\ Posts(t, h, "online", d)
    /\ UNCHANGED <<servers, node, aborted>>

\* gs_get_status fails, with GS_IO_ERROR or another error: pcmanager_update_by_host, or
\* pcmanager_lan_host_discovered with lan_host_offline
Fails(t, io) ==
    /\ thread[t].phase = "asking"
    /\ CASE thread[t].kind = "update" -> Posts(t, thread[t].host, "offline", Nothing)
         [] thread[t].kind = "add" -> Finalizes(t)
         [] thread[t].kind = "discover" ->
              /\ FoundByAddr # Nothing => node[FoundByAddr].server # Nothing
              /\ thread' = [thread EXCEPT ![t] =
                     IF io /\ FoundByAddr # Nothing
                     THEN [@ EXCEPT !.phase = "marking", !.node = FoundByAddr] ELSE Idle]
              /\ UNCHANGED bus
         [] OTHER -> FALSE
    /\ UNCHANGED <<servers, node, uuid, aborted>>

\* lan_host_offline, after the look-up
Marks ==
    /\ thread[Mdns].phase = "marking"
    /\ node' = [node EXCEPT ![thread[Mdns].node].state =
           IF thread[Mdns].node \in Listed THEN "offline" ELSE @]
    /\ thread' = [thread EXCEPT ![Mdns] = Idle]
    /\ UNCHANGED <<servers, uuid, bus, aborted>>

\* worker_pairing, worker_quit_app and worker_wol after the host has answered
Ends(t, ok) ==
    /\ thread[t].phase = "asking"
    /\ CASE thread[t].kind = "pair" ->
              IF ok THEN Posts(t, thread[t].host, "online", thread[t].server) /\ UNCHANGED uuid
              ELSE Finalizes(t) /\ uuid' = Freed(thread[t].server)
         [] thread[t].kind = "quit" ->
              /\ IF ok THEN Posts(t, thread[t].host, "online",
                                  IF thread[t].node \in Listed
                                  THEN node[thread[t].node].server ELSE thread[t].server)
                 ELSE Finalizes(t)
              /\ UNCHANGED uuid
         [] thread[t].kind = "wol" -> Finalizes(t) /\ UNCHANGED uuid
         [] OTHER -> FALSE
    /\ UNCHANGED <<servers, node, aborted>>

\* discovery_discovered, past the throttle
Discovers(h) ==
    /\ "discover" \in Kinds /\ thread[Mdns] = Idle
    /\ thread' = [thread EXCEPT ![Mdns] =
           [Idle EXCEPT !.kind = "discover", !.host = h, !.phase = "asking"]]
    /\ UNCHANGED <<servers, node, uuid, bus, aborted>>

Works(t) ==
    \/ LooksUp(t) \/ Takes(t)
    \/ \E h \in Hosts : Learns(t, h)
    \/ \E io \in BOOLEAN : Fails(t, io)
    \/ \E ok \in BOOLEAN : Ends(t, ok)
    \/ t = Mdns /\ Marks

Serves(t) == Upserts(t) \/ UpsertMisuses(t) \/ Answers(t)

-----------------------------------------------------------------------------
Next ==
    \/ /\ ~aborted
       /\ \/ \E t \in Executor, k \in Kinds, h \in Hosts : Requests(t, k, h)
          \/ \E t \in Executor : Adds(t)
          \/ \E h \in Hosts : Forgets(h) \/ Discovers(h)
          \/ \E t \in Threads : Works(t) \/ Serves(t)
    \/ \E h \in Hosts : LookUpAborts(h)

\* Threads and main loop go on, and every question to a host ends with its timeout.
Spec ==
    /\ Init /\ [][Next]_vars
    /\ WF_vars(\E h \in Hosts : LookUpAborts(h))
    /\ WF_vars(~aborted /\ \E t \in Threads : Serves(t))
    /\ \A t \in Threads : WF_vars(~aborted /\ Works(t))

-----------------------------------------------------------------------------
(* Properties.                                                              *)

\* Besides the types: a host has one node, although the threads that learn of it do not
\* know of each other. Who appends a node has looked for it in the same step, on the
\* main thread.
OneNodePerHost ==
    /\ PcTypeOK
    /\ \A i, j \in DOMAIN servers : i # j =>
           /\ servers[i] # servers[j]
           /\ node[servers[i]].id # node[servers[j]].id

Owners(d) ==
    {n \in Listed : node[n].server = d} \cup
    {t \in Threads : thread[t].server = d /\ thread[t].kind \notin {"quit", "wol"}}

\* Every SERVER_DATA has one owner, a node of the list or the thread that brings it,
\* and what was freed has none: nothing is lost, freed twice or listed after it was
\* freed, whatever is replaced or removed while a thread is on its way.
ServersOwnedOnce ==
    \A d \in Data : Cardinality(Owners(d)) = IF uuid[d] = Nothing THEN 0 ELSE 1

\* What a thread waits for in app_bus_post_sync is on its way: the action it posted is in the
\* bus until the main thread has run it, and so is the second one of the same request.
PostsAreQueued ==
    \A t \in Threads : thread[t].phase \in {"upserting", "answering"} => t \in Range(bus)

\* The list of hosts is one of different hosts, owns what it shows, and is told by each
\* thread that waits to tell it.
HostsInOrder == OneNodePerHost /\ ServersOwnedOnce /\ PostsAreQueued

\* Who made a request gets its answer: the worker comes back from the network and from
\* every app_bus_post_sync, whatever is forgotten or replaced meanwhile.
RequestsEnd ==
    \A t \in Executor : thread[t].phase # "idle" ~> thread[t].phase = "idle" \/ aborted

-----------------------------------------------------------------------------
(* What the code says of itself, and does not do.                           *)

\* pclist_ll_compare_uuid: SDL_assert_release(other->server). The update of a host
\* that was forgotten meanwhile, and fails, puts a node without a server in the list.
\* pclist.h: "Thread safe list management". The server that worker_quit_app hands over
\* is still the list's, and freed by an answer that is handled before.
NoAssertionFails == ~aborted

\* pclist_remove: "Thread safe." It frees no node, and with it no server, that a
\* worker is reading.
NoReaderOfFreedNode ==
    \A t \in Executor : thread[t].node # Nothing => thread[t].node \in Listed

\* lan_host_offline: "Host seems to be offline" is said of the host that announced
\* itself and then did not answer, and that host is marked.
OfflineIsTheHost ==
    thread[Mdns].phase = "marking" /\ thread[Mdns].node \in Listed =>
        node[thread[Mdns].node].id = thread[Mdns].host

=============================================================================
