--------------------------- MODULE PcManagerProofs ---------------------------
(***************************************************************************)
(* Theorems about module PcManager, for every set of hosts, of threads and *)
(* of memory. That no host is listed twice and that every SERVER_DATA has  *)
(* exactly one owner depend on each other: who brings a server replaces,   *)
(* and frees, that of the node of its own host, because the server a       *)
(* thread brings is of the host the thread looks up.                       *)
(***************************************************************************)
EXTENDS PcManager, FiniteSetTheorems, SequenceTheorems, TLAPS

\* Requests that look a host up before they ask it, and those of them that go on reading
\* what the list owns.
LookingUp == {"update", "pair", "quit", "wol"}
Reading == {"quit", "wol"}

Owns(t) == thread[t].server # Nothing /\ thread[t].kind \notin Reading

\* The hosts of the list differ, and a node without a server is the last: every look-up
\* would abort at it, and who appends has looked its host up.
ListDistinct ==
    \A i, j \in DOMAIN servers : i # j =>
        servers[i] # servers[j] /\ node[servers[i]].id # node[servers[j]].id

EmptyIsLast ==
    \A i \in DOMAIN servers : node[servers[i]].server = Nothing => i = Len(servers)

\* A node has the id of its server, and a server it shows was not freed.
NodesTell ==
    \A n \in Nodes :
        /\ n \notin Listed => node[n] = Blank
        /\ node[n].server = Nothing => node[n].id = Nothing
        /\ node[n].server # Nothing => node[n].id # Nothing /\ uuid[node[n].server] = node[n].id

\* What the threads hold is of the host they are about, while they hold it.
ThreadsTell ==
    \A t \in Threads :
        /\ thread[t].server # Nothing =>
               /\ thread[t].phase \in {"asking", "upserting"}
               /\ uuid[thread[t].server] \in {Nothing, thread[t].host}
        /\ thread[t].phase \in {"queued", "found"} =>
               thread[t].kind \in LookingUp /\ thread[t].host # Nothing
        /\ thread[t].phase = "found" => thread[t].node # Nothing
        /\ thread[t].phase = "asking" /\ thread[t].kind \in {"update", "add", "discover"} =>
               thread[t].server = Nothing
        /\ thread[t].node \in Listed /\ thread[t].kind # "discover" =>
               node[thread[t].node].id = thread[t].host

\* A server that is allocated has an owner, and one only; who reads it without owning it
\* reads one of the list, or one that was freed.
OwnersDiffer ==
    /\ \A t \in Threads : Owns(t) => uuid[thread[t].server] # Nothing
    /\ \A t, u \in Threads : Owns(t) /\ Owns(u) /\ thread[t].server = thread[u].server => t = u
    /\ \A t \in Threads, n \in Nodes : Owns(t) => node[n].server # thread[t].server

NothingLost ==
    \A d \in Data : uuid[d] # Nothing =>
        \/ \E n \in Nodes : node[n].server = d
        \/ \E t \in Threads : Owns(t) /\ thread[t].server = d

ReadersTell ==
    \A t \in Threads :
        /\ thread[t].server # Nothing /\ thread[t].kind \in Reading
        /\ uuid[thread[t].server] # Nothing
        => \E n \in Nodes : node[n].server = thread[t].server

\* Who waits in the bus has posted, once.
BusWaits ==
    /\ \A i, j \in DOMAIN bus : bus[i] = bus[j] => i = j
    /\ \A i \in DOMAIN bus : thread[bus[i]].phase \in {"upserting", "answering"}

PcTypes ==
    /\ servers \in Seq(Nodes)
    /\ node \in [Nodes -> Node]
    /\ uuid \in [Data -> Hosts \cup {Nothing}]
    /\ thread \in [Threads -> Thread]
    /\ bus \in Seq(Threads)
    /\ aborted \in BOOLEAN

PcInv ==
    /\ PcTypes
    /\ ListDistinct
    /\ EmptyIsLast
    /\ NodesTell
    /\ ThreadsTell
    /\ OwnersDiffer
    /\ NothingLost
    /\ ReadersTell
    /\ BusWaits

-----------------------------------------------------------------------------
(* Look-ups.                                                                              *)

LEMMA FoundTells ==
  ASSUME PcInv, NEW h, Found(h) # Nothing
  PROVE  /\ Found(h) \in Listed
         /\ node[Found(h)].id = h
         /\ node[Found(h)].server # Nothing
<1>1. Matches(h) # {}
  BY DEF Found
<1>2. (CHOOSE i \in Matches(h) : TRUE) \in Matches(h)
  BY <1>1
<1> QED
  BY <1>1, <1>2 DEF Found, Matches, Listed, Range

LEMMA NotFoundTells ==
  ASSUME PcInv, NEW h, Found(h) = Nothing, ~Asserts(h)
  PROVE  \A n \in Listed : node[n].server # Nothing /\ node[n].id # h
<1>1. Matches(h) = {}
  <2> SUFFICES ASSUME Matches(h) # {} PROVE FALSE
    OBVIOUS
  <2>1. (CHOOSE i \in Matches(h) : TRUE) \in Matches(h)
    OBVIOUS
  <2> QED
    BY <2>1, PcAssumption DEF Found, Matches, PcInv, PcTypes
<1> QED
  BY <1>1 DEF Asserts, Matches, Listed, Range

(* Nodes of the list are told apart by their hosts.                                       *)
LEMMA ListedDiffer ==
  ASSUME PcInv
  PROVE  \A n, m \in Listed : node[n].id = node[m].id => n = m
BY DEF PcInv, ListDistinct, Listed, Range

-----------------------------------------------------------------------------
(* The bus.                                                                               *)

LEMMA BusAppends ==
  ASSUME PcInv, NEW t \in Threads, thread[t].phase \notin {"upserting", "answering"},
         bus' = Append(bus, t), thread'[t].phase \in {"upserting", "answering"},
         \A u \in Threads : u # t => thread'[u] = thread[u]
  PROVE  bus' \in Seq(Threads) /\ BusWaits'
<1> USE DEF PcInv, PcTypes, BusWaits
<1>1. bus \in Seq(Threads) /\ bus' \in Seq(Threads)
  OBVIOUS
<1>2. \A i \in DOMAIN bus : bus[i] # t
  OBVIOUS
<1>3. DOMAIN bus' = DOMAIN bus \cup {Len(bus) + 1} /\ bus'[Len(bus) + 1] = t
      /\ \A i \in DOMAIN bus : bus'[i] = bus[i] /\ bus[i] \in Threads
  BY <1>1
<1> QED
  BY <1>1, <1>2, <1>3

LEMMA BusShrinks ==
  ASSUME PcInv, bus # <<>>, bus' = Tail(bus),
         \A u \in Threads : u # Head(bus) => thread'[u] = thread[u]
  PROVE  bus' \in Seq(Threads) /\ BusWaits' /\ \A i \in DOMAIN bus' : bus'[i] # Head(bus)
<1> USE DEF PcInv, PcTypes, BusWaits
<1>1. bus \in Seq(Threads) /\ bus' \in Seq(Threads) /\ Head(bus) = bus[1] /\ 1 \in DOMAIN bus
  OBVIOUS
<1>2. \A i \in DOMAIN bus' : i + 1 \in DOMAIN bus /\ bus'[i] = bus[i + 1] /\ i + 1 # 1
                             /\ i \in Nat
  BY <1>1
<1>3. \A i \in DOMAIN bus' : bus'[i] # Head(bus) /\ bus'[i] \in Threads
  BY <1>1, <1>2
<1>4. \A i, j \in DOMAIN bus' : bus'[i] = bus'[j] => i = j
  BY <1>1, <1>2
<1>5. \A i \in DOMAIN bus' : thread'[bus'[i]].phase \in {"upserting", "answering"}
  BY <1>2, <1>3
<1> QED
  BY <1>1, <1>3, <1>4, <1>5

LEMMA BusRotates ==
  ASSUME PcInv, bus # <<>>, bus' = Append(Tail(bus), Head(bus)),
         thread'[Head(bus)].phase \in {"upserting", "answering"},
         \A u \in Threads : u # Head(bus) => thread'[u] = thread[u]
  PROVE  bus' \in Seq(Threads) /\ BusWaits'
<1> USE DEF PcInv, PcTypes, BusWaits
<1>1. bus \in Seq(Threads) /\ Head(bus) = bus[1] /\ 1 \in DOMAIN bus /\ Len(bus) \in Nat
      /\ Head(bus) \in Threads /\ Tail(bus) \in Seq(Threads) /\ Len(Tail(bus)) = Len(bus) - 1
  OBVIOUS
<1>2. bus' \in Seq(Threads) /\ Len(bus') = Len(bus) /\ bus'[Len(bus)] = Head(bus)
  BY <1>1
<1>3. \A i \in DOMAIN bus : i # Len(bus) =>
          i + 1 \in DOMAIN bus /\ bus'[i] = bus[i + 1] /\ i + 1 # 1 /\ bus[i + 1] \in Threads
  BY <1>1, <1>2
<1>4. DOMAIN bus' = DOMAIN bus /\ \A i \in DOMAIN bus : i \in Nat
  BY <1>1, <1>2
<1>5. \A i \in DOMAIN bus : i # Len(bus) => bus'[i] # Head(bus)
  <2> SUFFICES ASSUME NEW i \in DOMAIN bus, i # Len(bus), bus[i + 1] = bus[1] PROVE FALSE
    BY <1>1, <1>3
  <2>1. i + 1 = 1
    BY <1>1, <1>3
  <2> QED
    BY <2>1, <1>3
<1>6. \A i, j \in DOMAIN bus' : bus'[i] = bus'[j] => i = j
  BY <1>1, <1>2, <1>3, <1>4, <1>5
<1>7. \A i \in DOMAIN bus' : thread'[bus'[i]].phase \in {"upserting", "answering"}
  BY <1>1, <1>2, <1>3, <1>4, <1>5
<1> QED
  BY <1>2, <1>6, <1>7

LEMMA BusStays ==
  ASSUME PcInv, NEW t \in Threads, thread[t].phase \notin {"upserting", "answering"}, bus' = bus,
         \A u \in Threads : u # t => thread'[u] = thread[u]
  PROVE  bus' \in Seq(Threads) /\ BusWaits'
<1> USE DEF PcInv, PcTypes, BusWaits
<1>1. \A i \in DOMAIN bus : bus[i] # t /\ bus[i] \in Threads
  OBVIOUS
<1> QED
  BY <1>1

-----------------------------------------------------------------------------
(* Steps that change a thread only.                                                       *)

(* A thread that owns nothing goes on, owning nothing.                                    *)
LEMMA ThreadGoesOn ==
  ASSUME PcInv, NEW t \in Threads, NEW r \in Thread, ~Owns(t),
         thread' = [thread EXCEPT ![t] = r],
         UNCHANGED <<servers, node, uuid, aborted>>,
         bus' \in Seq(Threads), BusWaits',
         r.server # Nothing =>
             /\ r.kind \in Reading
             /\ r.phase \in {"asking", "upserting"}
             /\ uuid[r.server] \in {Nothing, r.host}
             /\ uuid[r.server] # Nothing => \E n \in Nodes : node[n].server = r.server,
         r.phase \in {"queued", "found"} => r.kind \in LookingUp /\ r.host # Nothing,
         r.phase = "found" => r.node # Nothing,
         r.node \in Listed /\ r.kind # "discover" => node[r.node].id = r.host
  PROVE  PcInv'
<1> USE DEF PcInv
<1>1. PcTypes'
  BY DEF PcTypes
<1>2. ListDistinct' /\ EmptyIsLast' /\ NodesTell'
  BY DEF ListDistinct, EmptyIsLast, NodesTell, Listed
<1>3. /\ thread'[t] = r
      /\ \A u \in Threads : u # t => thread'[u] = thread[u] /\ (Owns(u)' <=> Owns(u))
      /\ ~Owns(t)'
  BY DEF PcTypes, Owns
<1>4. ThreadsTell'
  BY <1>3 DEF ThreadsTell, Listed, Reading
<1>5. OwnersDiffer'
  BY <1>3 DEF OwnersDiffer
<1>6. NothingLost'
  <2> SUFFICES ASSUME NEW d \in Data, uuid[d] # Nothing
               PROVE  \/ \E n \in Nodes : node[n].server = d
                      \/ \E u \in Threads : Owns(u)' /\ thread'[u].server = d
    BY DEF NothingLost
  <2>1. CASE \E n \in Nodes : node[n].server = d
    BY <2>1
  <2>2. CASE \E u \in Threads : Owns(u) /\ thread[u].server = d
    BY <2>2, <1>3
  <2> QED
    BY <2>1, <2>2 DEF NothingLost
<1>7. ReadersTell'
  BY <1>3 DEF ReadersTell
<1> QED
  BY <1>1, <1>2, <1>4, <1>5, <1>6, <1>7

(* A thread hands over what it holds.                                                     *)
LEMMA ThreadHandsOver ==
  ASSUME PcInv, NEW t \in Threads, NEW r \in Thread,
         thread' = [thread EXCEPT ![t] = r],
         UNCHANGED <<servers, node, uuid, aborted>>,
         bus' \in Seq(Threads), BusWaits',
         r.kind = thread[t].kind, r.host = thread[t].host, r.server = thread[t].server,
         r.node = Nothing, r.phase = "upserting"
  PROVE  PcInv'
<1> USE DEF PcInv
<1>1. PcTypes'
  BY DEF PcTypes
<1>2. ListDistinct' /\ EmptyIsLast' /\ NodesTell'
  BY DEF ListDistinct, EmptyIsLast, NodesTell, Listed
<1>3. /\ thread'[t] = r
      /\ \A u \in Threads : u # t => thread'[u] = thread[u]
      /\ \A u \in Threads : (Owns(u)' <=> Owns(u)) /\ thread'[u].server = thread[u].server
  BY DEF PcTypes, Owns
<1>4. Nothing \notin Listed
  BY PcAssumption DEF PcTypes, Listed, Range
<1>5. ThreadsTell'
  BY <1>3, <1>4 DEF ThreadsTell, Listed
<1>6. OwnersDiffer' /\ NothingLost'
  BY <1>3 DEF OwnersDiffer, NothingLost
<1>7. ReadersTell'
  BY <1>3 DEF ReadersTell
<1> QED
  BY <1>1, <1>2, <1>5, <1>6, <1>7

(* What a node of the list or a free thread is, for the steps below.                      *)
LEMMA IdleThread ==
  ASSUME PcTypes
  PROVE  /\ Idle \in [kind : {"none"}, host : {Nothing}, phase : {"idle"}, node : {Nothing},
                      server : {Nothing}, state : {"online"}]
         /\ Nothing \notin Listed /\ Listed \subseteq Nodes
         /\ \A t \in Threads : thread[t] \in Thread
         /\ Mdns \in Threads /\ Executor \subseteq Threads
BY PcAssumption DEF Idle, PcTypes, Listed, Range, Threads

LEMMA RequestsInv ==
  ASSUME PcInv, NEW t \in Executor, NEW k \in Kinds, NEW h \in Hosts, Requests(t, k, h)
  PROVE  PcInv'
<1> DEFINE r == [Idle EXCEPT !.kind = k, !.host = h, !.phase = "queued"]
<1>1. /\ thread[t] = Idle /\ k \notin {"add", "forget", "discover"} /\ t \in Threads
      /\ thread' = [thread EXCEPT ![t] = r]
      /\ UNCHANGED <<servers, node, uuid, bus, aborted>>
  BY DEF Requests, Threads
<1>2. /\ r \in Thread /\ r.server = Nothing /\ r.phase = "queued" /\ r.kind = k /\ r.node = Nothing
      /\ r.host = h
  BY DEF Idle, Thread
<1>3. k \in LookingUp /\ h # Nothing
  BY <1>1, PcAssumption DEF LookingUp
<1>4. ~Owns(t) /\ thread[t].phase \notin {"upserting", "answering"} /\ Nothing \notin Listed
  BY <1>1, IdleThread DEF Owns, Idle, PcInv
<1>5. bus' \in Seq(Threads) /\ BusWaits'
  BY <1>1, <1>4, BusStays DEF PcInv, PcTypes
<1> HIDE DEF r
<1> QED
  BY <1>1, <1>2, <1>3, <1>4, <1>5, ThreadGoesOn

LEMMA AddsInv ==
  ASSUME PcInv, NEW t \in Executor, Adds(t)
  PROVE  PcInv'
<1> DEFINE r == [Idle EXCEPT !.kind = "add", !.phase = "asking"]
<1>1. /\ thread[t] = Idle /\ t \in Threads
      /\ thread' = [thread EXCEPT ![t] = r]
      /\ UNCHANGED <<servers, node, uuid, bus, aborted>>
  BY DEF Adds, Threads
<1>2. r \in Thread /\ r.server = Nothing /\ r.phase = "asking" /\ r.node = Nothing
  BY DEF Idle, Thread, Adds
<1>3. ~Owns(t) /\ thread[t].phase \notin {"upserting", "answering"} /\ Nothing \notin Listed
  BY <1>1, IdleThread DEF Owns, Idle, PcInv
<1>4. bus' \in Seq(Threads) /\ BusWaits'
  BY <1>1, <1>3, BusStays DEF PcInv, PcTypes
<1> HIDE DEF r
<1> QED
  BY <1>1, <1>2, <1>3, <1>4, ThreadGoesOn

LEMMA DiscoversInv ==
  ASSUME PcInv, NEW h \in Hosts, Discovers(h)
  PROVE  PcInv'
<1> DEFINE r == [Idle EXCEPT !.kind = "discover", !.host = h, !.phase = "asking"]
<1>1. /\ thread[Mdns] = Idle /\ Mdns \in Threads
      /\ thread' = [thread EXCEPT ![Mdns] = r]
      /\ UNCHANGED <<servers, node, uuid, bus, aborted>>
  BY DEF Discovers, Threads
<1>2. r \in Thread /\ r.server = Nothing /\ r.phase = "asking" /\ r.node = Nothing
  BY DEF Idle, Thread, Discovers
<1>3. /\ ~Owns(Mdns) /\ thread[Mdns].phase \notin {"upserting", "answering"}
      /\ Nothing \notin Listed
  BY <1>1, IdleThread DEF Owns, Idle, PcInv
<1>4. bus' \in Seq(Threads) /\ BusWaits'
  BY <1>1, <1>3, BusStays DEF PcInv, PcTypes
<1> HIDE DEF r
<1> QED
  BY <1>1, <1>2, <1>3, <1>4, ThreadGoesOn

(* worker_context_finalize of a thread that owns nothing                                  *)
LEMMA FinalizesInv ==
  ASSUME PcInv, NEW t \in Threads, ~Owns(t), thread[t].phase \notin {"upserting", "answering"},
         Finalizes(t), UNCHANGED <<servers, node, uuid, aborted>>
  PROVE  PcInv'
<1> DEFINE r == [Idle EXCEPT !.phase = "answering"]
<1>1. thread' = [thread EXCEPT ![t] = r] /\ bus' = Append(bus, t)
  BY DEF Finalizes
<1>2. r \in Thread /\ r.server = Nothing /\ r.phase = "answering" /\ r.node = Nothing
  BY DEF Idle, Thread
<1>3. Nothing \notin Listed
  BY IdleThread DEF PcInv
<1>4. thread'[t] = r /\ \A u \in Threads : u # t => thread'[u] = thread[u]
  BY <1>1 DEF PcInv, PcTypes
<1>5. bus' \in Seq(Threads) /\ BusWaits'
  BY <1>1, <1>2, <1>4, BusAppends
<1> HIDE DEF r
<1> QED
  BY <1>1, <1>2, <1>3, <1>5, ThreadGoesOn

(* app_bus_post_sync of a thread that owns nothing: what it brings is nothing, or what it *)
(* reads.                                                                                 *)
LEMMA PostsInv ==
  ASSUME PcInv, NEW t \in Threads, ~Owns(t), thread[t].phase \notin {"upserting", "answering"},
         NEW s \in {"online", "offline"}, NEW d \in Data \cup {Nothing},
         Posts(t, thread[t].host, s, d), UNCHANGED <<servers, node, uuid, aborted>>,
         d # Nothing =>
             /\ thread[t].kind \in Reading
             /\ uuid[d] \in {Nothing, thread[t].host}
             /\ uuid[d] # Nothing => \E n \in Nodes : node[n].server = d
  PROVE  PcInv'
<1> DEFINE r == [thread[t] EXCEPT !.phase = "upserting", !.host = thread[t].host, !.state = s,
                                  !.server = d, !.node = Nothing]
<1>0. thread[t] \in Thread /\ Nothing \notin Listed /\ thread \in [Threads -> Thread]
  BY IdleThread DEF PcInv, PcTypes
<1>1. thread' = [thread EXCEPT ![t] = r] /\ bus' = Append(bus, t)
  BY <1>0 DEF Posts, Thread
<1>2. /\ r \in Thread /\ r.server = d /\ r.phase = "upserting" /\ r.node = Nothing
      /\ r.kind = thread[t].kind /\ r.host = thread[t].host
  BY <1>0 DEF Thread
<1>4. thread'[t] = r /\ \A u \in Threads : u # t => thread'[u] = thread[u]
  BY <1>1, <1>0
<1>5. bus' \in Seq(Threads) /\ BusWaits'
  BY <1>1, <1>2, <1>4, BusAppends
<1> HIDE DEF r
<1> QED
  BY <1>0, <1>1, <1>2, <1>5, ThreadGoesOn

LEMMA AnswersInv ==
  ASSUME PcInv, NEW t \in Threads, Answers(t)
  PROVE  PcInv'
<1>1. /\ bus # <<>> /\ t = Head(bus) /\ thread[t].phase = "answering" /\ bus' = Tail(bus)
      /\ thread' = [thread EXCEPT ![t] = Idle]
      /\ UNCHANGED <<servers, node, uuid, aborted>>
  BY DEF Answers
<1>2. Idle \in Thread /\ Idle.server = Nothing /\ Idle.phase = "idle" /\ Idle.node = Nothing
  BY DEF Idle, Thread
<1>3. ~Owns(t) /\ Nothing \notin Listed
  BY <1>1, IdleThread DEF PcInv, ThreadsTell, Owns
<1>4. \A u \in Threads : u # t => thread'[u] = thread[u]
  BY <1>1 DEF PcInv, PcTypes
<1>5. bus' \in Seq(Threads) /\ BusWaits'
  BY <1>1, <1>4, BusShrinks
<1> QED
  BY <1>1, <1>2, <1>3, <1>5, ThreadGoesOn

LEMMA LooksUpInv ==
  ASSUME PcInv, NEW t \in Threads, LooksUp(t)
  PROVE  PcInv'
<1>1. /\ thread[t].phase = "queued" /\ ~Asserts(thread[t].host)
      /\ UNCHANGED <<servers, node, uuid, aborted>>
  BY DEF LooksUp
<1>2. ~Owns(t) /\ thread[t].server = Nothing /\ thread[t].kind \in LookingUp
  BY <1>1 DEF PcInv, ThreadsTell, Owns
<1>3. CASE Found(thread[t].host) = Nothing
  BY <1>1, <1>2, <1>3, FinalizesInv DEF LooksUp
<1>4. CASE Found(thread[t].host) # Nothing
  <2> DEFINE r == [thread[t] EXCEPT !.node = Found(thread[t].host), !.phase = "found"]
  <2>1. thread[t] \in Thread /\ Listed \subseteq Nodes /\ thread \in [Threads -> Thread]
    BY IdleThread DEF PcInv, PcTypes
  <2>2. thread' = [thread EXCEPT ![t] = r] /\ bus' = bus
    BY <1>4, <2>1 DEF LooksUp, Thread
  <2>3. thread[t].host # Nothing
    BY <1>1 DEF PcInv, ThreadsTell
  <2>4. Found(thread[t].host) \in Listed /\ node[Found(thread[t].host)].id = thread[t].host
    <3>1. thread[t].host \in Hosts
      BY <2>1, <2>3 DEF Thread
    <3> QED
      BY <3>1, <1>4, FoundTells
  <2>5. /\ r \in Thread /\ r.server = Nothing /\ r.phase = "found" /\ r.host = thread[t].host
        /\ r.node = Found(thread[t].host) /\ r.kind = thread[t].kind
    BY <1>2, <2>1, <2>4 DEF Thread
  <2>6. \A u \in Threads : u # t => thread'[u] = thread[u]
    BY <2>1, <2>2
  <2>7. bus' \in Seq(Threads) /\ BusWaits'
    BY <1>1, <2>2, <2>6, BusStays
  <2> HIDE DEF r
  <2> QED
    BY <1>1, <1>2, <1>4, <2>2, <2>3, <2>4, <2>5, <2>7, ThreadGoesOn
<1> QED
  BY <1>3, <1>4

LEMMA FailsInv ==
  ASSUME PcInv, NEW t \in Threads, NEW io \in BOOLEAN, Fails(t, io)
  PROVE  PcInv'
<1>1. thread[t].phase = "asking" /\ UNCHANGED <<servers, node, uuid, aborted>>
  BY DEF Fails
<1>2. CASE thread[t].kind = "update"
  <2>1. Posts(t, thread[t].host, "offline", Nothing)
    BY <1>2 DEF Fails
  <2>2. ~Owns(t)
    BY <1>1, <1>2 DEF PcInv, ThreadsTell, Owns
  <2> QED
    BY <1>1, <2>1, <2>2, PostsInv
<1>3. CASE thread[t].kind = "add"
  <2>1. Finalizes(t)
    BY <1>3 DEF Fails
  <2>2. ~Owns(t)
    BY <1>1, <1>3 DEF PcInv, ThreadsTell, Owns
  <2> QED
    BY <1>1, <2>1, <2>2, FinalizesInv
<1>4. CASE thread[t].kind = "discover"
  <2> DEFINE r == IF io /\ FoundByAddr # Nothing
                  THEN [thread[t] EXCEPT !.phase = "marking", !.node = FoundByAddr] ELSE Idle
  <2>1. thread[t] \in Thread /\ Nothing \notin Listed /\ thread \in [Threads -> Thread]
    BY IdleThread DEF PcInv, PcTypes
  <2>2. ~Owns(t) /\ thread[t].server = Nothing
    BY <1>1, <1>4 DEF PcInv, ThreadsTell, Owns
  <2>3. thread' = [thread EXCEPT ![t] = r] /\ bus' = bus
    BY <1>4, <2>1 DEF Fails, Thread
  <2>4. FoundByAddr \in Nodes \cup {Nothing}
    BY DEF FoundByAddr, PcInv, PcTypes
  <2>5. /\ r \in Thread /\ r.server = Nothing /\ r.phase \in {"marking", "idle"}
        /\ r.kind = "discover" \/ r.node = Nothing
    BY <1>4, <2>1, <2>2, <2>4 DEF Thread, Idle
  <2>6. \A u \in Threads : u # t => thread'[u] = thread[u]
    BY <2>1, <2>3
  <2>7. bus' \in Seq(Threads) /\ BusWaits'
    BY <1>1, <2>3, <2>6, BusStays
  <2> HIDE DEF r
  <2> QED
    BY <1>1, <2>1, <2>2, <2>3, <2>5, <2>7, ThreadGoesOn
<1> QED
  BY <1>2, <1>3, <1>4 DEF Fails

LEMMA MarksInv ==
  ASSUME PcInv, Marks
  PROVE  PcInv'
<1> USE DEF PcInv
<1>1. /\ thread[Mdns].phase = "marking" /\ thread' = [thread EXCEPT ![Mdns] = Idle]
      /\ UNCHANGED <<servers, uuid, bus, aborted>> /\ Mdns \in Threads
  BY DEF Marks, Threads
<1>2. ~Owns(Mdns)
  BY <1>1 DEF ThreadsTell, Owns
<1>3. /\ node' \in [Nodes -> Node]
      /\ \A n \in Nodes : node'[n].id = node[n].id /\ node'[n].server = node[n].server
      /\ \A n \in Nodes \ Listed : node'[n] = node[n]
  <2>1. /\ node \in [Nodes -> Node]
        /\ node' = [node EXCEPT ![thread[Mdns].node].state =
              IF thread[Mdns].node \in Listed THEN "offline" ELSE @]
    BY DEF Marks, PcTypes
  <2> QED
    BY <2>1 DEF Node
<1>4. Idle \in Thread /\ Idle.server = Nothing /\ Idle.phase = "idle" /\ Idle.node = Nothing
  BY DEF Idle, Thread
<1>5. Nothing \notin Listed /\ Listed \subseteq Nodes /\ Listed' = Listed
  BY <1>1, IdleThread DEF Listed
<1>6. /\ thread'[Mdns] = Idle /\ thread' \in [Threads -> Thread]
      /\ \A u \in Threads : u # Mdns => thread'[u] = thread[u] /\ (Owns(u)' <=> Owns(u))
      /\ ~Owns(Mdns)'
  BY <1>1, <1>4 DEF PcTypes, Owns
<1>7. bus' \in Seq(Threads) /\ BusWaits'
  BY <1>1, <1>6, BusStays
<1>8. PcTypes'
  BY <1>1, <1>3, <1>6, <1>7 DEF PcTypes
<1>9. ListDistinct' /\ EmptyIsLast'
  BY <1>1, <1>3 DEF ListDistinct, EmptyIsLast, PcTypes
<1>10. NodesTell'
  BY <1>1, <1>3, <1>5 DEF NodesTell
<1>11. ThreadsTell'
  BY <1>1, <1>3, <1>4, <1>5, <1>6 DEF ThreadsTell
<1>12. OwnersDiffer'
  BY <1>1, <1>3, <1>6 DEF OwnersDiffer
<1>13. NothingLost'
  <2> SUFFICES ASSUME NEW d \in Data, uuid[d] # Nothing
               PROVE  \/ \E n \in Nodes : node'[n].server = d
                      \/ \E u \in Threads : Owns(u)' /\ thread'[u].server = d
    BY <1>1 DEF NothingLost
  <2>1. CASE \E n \in Nodes : node[n].server = d
    BY <2>1, <1>3
  <2>2. CASE \E u \in Threads : Owns(u) /\ thread[u].server = d
    BY <2>2, <1>2, <1>6
  <2> QED
    BY <2>1, <2>2 DEF NothingLost
<1>14. ReadersTell'
  BY <1>1, <1>3, <1>4, <1>6 DEF ReadersTell
<1> QED
  BY <1>7, <1>8, <1>9, <1>10, <1>11, <1>12, <1>13, <1>14

-----------------------------------------------------------------------------
(* Steps that allocate or free a server.                                                  *)

(* serverdata_new by a thread that owned nothing                                          *)
LEMMA ThreadAllocates ==
  ASSUME PcInv, NEW t \in Threads, NEW r \in Thread, ~Owns(t),
         NEW d \in FreshData, NEW h \in Hosts,
         thread' = [thread EXCEPT ![t] = r],
         uuid' = [uuid EXCEPT ![d] = h],
         UNCHANGED <<servers, node, aborted>>,
         bus' \in Seq(Threads), BusWaits',
         r.server = d, r.host = h, r.kind \notin Reading, r.node = Nothing,
         r.phase \in {"asking", "upserting"},
         r.phase = "asking" => r.kind \notin {"update", "add", "discover"}
  PROVE  PcInv'
<1> USE DEF PcInv
<1>1. /\ thread'[t] = r /\ thread' \in [Threads -> Thread]
      /\ \A u \in Threads : u # t => thread'[u] = thread[u] /\ (Owns(u)' <=> Owns(u))
  BY DEF PcTypes, Owns
<1>2. /\ d \in Data /\ uuid[d] = Nothing /\ d # Nothing /\ h # Nothing
      /\ \A u \in Threads : thread[u].server # d
      /\ \A n \in Listed : node[n].server # d
  BY PcAssumption DEF FreshData
<1>3. \A n \in Nodes : node[n].server # d
  BY <1>2 DEF NodesTell, Blank
<1>4. uuid'[d] = h /\ \A x \in Data : x # d => uuid'[x] = uuid[x]
  BY <1>2 DEF PcTypes
<1>5. Nothing \notin Listed /\ Listed' = Listed /\ \A u \in Threads : thread[u] \in Thread
  BY IdleThread DEF Listed
<1>6. PcTypes'
  BY <1>1, <1>2 DEF PcTypes
<1>7. ListDistinct' /\ EmptyIsLast'
  BY DEF ListDistinct, EmptyIsLast
<1>8. NodesTell'
  BY <1>3, <1>4, <1>5 DEF NodesTell, PcTypes, Node
<1>9. Owns(t)'
  BY <1>1, <1>2 DEF Owns
<1>10. ThreadsTell'
  BY <1>1, <1>2, <1>4, <1>5 DEF ThreadsTell, Thread
<1>11. OwnersDiffer'
  BY <1>1, <1>2, <1>3, <1>4, <1>5, <1>9 DEF OwnersDiffer, Owns, Thread
<1>12. NothingLost'
  <2> SUFFICES ASSUME NEW x \in Data, uuid'[x] # Nothing
               PROVE  \/ \E n \in Nodes : node[n].server = x
                      \/ \E u \in Threads : Owns(u)' /\ thread'[u].server = x
    BY DEF NothingLost
  <2>1. CASE x = d
    BY <2>1, <1>1, <1>9
  <2>2. CASE x # d
    <3>1. uuid[x] # Nothing
      BY <2>2, <1>4
    <3>2. CASE \E n \in Nodes : node[n].server = x
      BY <3>2
    <3>3. CASE \E u \in Threads : Owns(u) /\ thread[u].server = x
      BY <3>3, <1>1
    <3> QED
      BY <3>1, <3>2, <3>3 DEF NothingLost
  <2> QED
    BY <2>1, <2>2
<1>13. ReadersTell'
  BY <1>1, <1>2, <1>4, <1>5 DEF ReadersTell, Thread
<1> QED
  BY <1>6, <1>7, <1>8, <1>10, <1>11, <1>12, <1>13

(* serverdata_free by the thread that owns it                                             *)
LEMMA ThreadFrees ==
  ASSUME PcInv, NEW t \in Threads, NEW r \in Thread, thread[t].kind \notin Reading,
         thread' = [thread EXCEPT ![t] = r],
         uuid' = Freed(thread[t].server),
         UNCHANGED <<servers, node, aborted>>,
         bus' \in Seq(Threads), BusWaits',
         r.server = Nothing, r.node = Nothing, r.phase = "answering"
  PROVE  PcInv'
<1> USE DEF PcInv
<1>1. /\ thread'[t] = r /\ thread' \in [Threads -> Thread]
      /\ \A u \in Threads : u # t => thread'[u] = thread[u] /\ (Owns(u)' <=> Owns(u))
      /\ ~Owns(t)'
  BY DEF PcTypes, Owns
<1>2. /\ uuid' \in [Data -> Hosts \cup {Nothing}]
      /\ \A x \in Data : uuid'[x] = IF x = thread[t].server THEN Nothing ELSE uuid[x]
  BY DEF Freed, PcTypes
<1>3. /\ Nothing \notin Listed /\ Listed' = Listed /\ \A u \in Threads : thread[u] \in Thread
      /\ Nothing \notin Data
  BY IdleThread, PcAssumption DEF Listed
<1>4. \A n \in Nodes : node[n].server = thread[t].server => node[n].server = Nothing
  BY DEF OwnersDiffer, Owns
<1>5. \A u \in Threads : Owns(u) /\ u # t => thread[u].server # thread[t].server
  BY DEF OwnersDiffer, Owns
<1>6. PcTypes'
  BY <1>1, <1>2 DEF PcTypes
<1>7. ListDistinct' /\ EmptyIsLast'
  BY DEF ListDistinct, EmptyIsLast
<1>8. NodesTell'
  BY <1>2, <1>3, <1>4 DEF NodesTell, PcTypes, Node
<1>9. ThreadsTell'
  <2>1. \A u \in Threads : u # t /\ thread[u].server # Nothing =>
            uuid'[thread[u].server] \in {Nothing, thread[u].host}
    <3> SUFFICES ASSUME NEW u \in Threads, thread[u].server # Nothing
                 PROVE  uuid'[thread[u].server] \in {Nothing, thread[u].host}
      OBVIOUS
    <3>1. thread[u].server \in Data /\ uuid[thread[u].server] \in {Nothing, thread[u].host}
      BY <1>3 DEF ThreadsTell, Thread
    <3> QED
      BY <3>1, <1>2
  <2> QED
    BY <2>1, <1>1, <1>3 DEF ThreadsTell
<1>10. OwnersDiffer'
  BY <1>1, <1>2, <1>3, <1>5 DEF OwnersDiffer, Owns, Thread
<1>11. NothingLost'
  <2> SUFFICES ASSUME NEW x \in Data, uuid'[x] # Nothing
               PROVE  \/ \E n \in Nodes : node[n].server = x
                      \/ \E u \in Threads : Owns(u)' /\ thread'[u].server = x
    BY DEF NothingLost
  <2>1. uuid[x] # Nothing /\ x # thread[t].server
    BY <1>2
  <2>2. CASE \E n \in Nodes : node[n].server = x
    BY <2>2
  <2>3. CASE \E u \in Threads : Owns(u) /\ thread[u].server = x
    BY <2>1, <2>3, <1>1
  <2> QED
    BY <2>1, <2>2, <2>3 DEF NothingLost
<1>12. ReadersTell'
  BY <1>1, <1>2, <1>3 DEF ReadersTell, Thread
<1> QED
  BY <1>6, <1>7, <1>8, <1>9, <1>10, <1>11, <1>12

LEMMA TakesInv ==
  ASSUME PcInv, NEW t \in Threads, Takes(t)
  PROVE  PcInv'
<1>1. thread[t].phase = "found" /\ UNCHANGED <<servers, node, bus, aborted>>
  BY DEF Takes
<1>2. ~Owns(t) /\ thread[t].server = Nothing /\ thread[t].kind \in LookingUp
  BY <1>1 DEF PcInv, ThreadsTell, Owns
<1>3. thread[t] \in Thread /\ Nothing \notin Listed /\ thread \in [Threads -> Thread]
  BY IdleThread DEF PcInv, PcTypes
<1>4. CASE thread[t].kind = "update"
  <2> DEFINE r == [thread[t] EXCEPT !.phase = "asking", !.node = Nothing]
  <2>1. thread' = [thread EXCEPT ![t] = r] /\ uuid' = uuid
    BY <1>3, <1>4 DEF Takes, Thread
  <2>2. r \in Thread /\ r.server = Nothing /\ r.phase = "asking" /\ r.node = Nothing
    BY <1>2, <1>3 DEF Thread
  <2>3. \A u \in Threads : u # t => thread'[u] = thread[u]
    BY <1>3, <2>1
  <2>4. bus' \in Seq(Threads) /\ BusWaits'
    BY <1>1, <2>3, BusStays
  <2> HIDE DEF r
  <2> QED
    BY <1>1, <1>2, <1>3, <2>1, <2>2, <2>4, ThreadGoesOn
<1>5. CASE thread[t].kind = "pair"
  <2>1. PICK d \in FreshData :
            /\ Allocates(d, thread[t].host)
            /\ thread' = [thread EXCEPT ![t].phase = "asking", ![t].node = Nothing,
                                        ![t].server = d]
    BY <1>5 DEF Takes
  <2>2. d \in Data
    BY DEF FreshData
  <2> DEFINE r == [thread[t] EXCEPT !.phase = "asking", !.node = Nothing, !.server = d]
  <2>3. thread' = [thread EXCEPT ![t] = r] /\ uuid' = [uuid EXCEPT ![d] = thread[t].host]
    BY <1>3, <2>1 DEF Allocates, Thread
  <2>4. /\ r \in Thread /\ r.server = d /\ r.phase = "asking" /\ r.node = Nothing
        /\ r.kind = "pair" /\ r.host = thread[t].host
    BY <1>3, <1>5, <2>2 DEF Thread
  <2>5. \A u \in Threads : u # t => thread'[u] = thread[u]
    BY <1>3, <2>3
  <2>6. bus' \in Seq(Threads) /\ BusWaits'
    BY <1>1, <2>5, BusStays
  <2>7. thread[t].host \in Hosts
    BY <1>1, <1>3 DEF PcInv, ThreadsTell, Thread
  <2> HIDE DEF r
  <2> QED
    BY <1>1, <1>2, <2>3, <2>4, <2>6, <2>7, ThreadAllocates DEF Reading
<1>6. CASE thread[t].kind \in Reading
  <2> DEFINE r == [thread[t] EXCEPT !.phase = "asking", !.server = node[thread[t].node].server]
  <2>1. thread' = [thread EXCEPT ![t] = r] /\ uuid' = uuid
    BY <1>3, <1>6 DEF Takes, Thread, Reading
  <2>2. /\ thread[t].node \in Nodes
        /\ node[thread[t].node].server \in Data \cup {Nothing}
    BY <1>1, <1>3 DEF PcInv, PcTypes, ThreadsTell, Thread, Node
  <2>3. /\ r \in Thread /\ r.server = node[thread[t].node].server /\ r.phase = "asking"
        /\ r.node = thread[t].node /\ r.kind = thread[t].kind /\ r.host = thread[t].host
    BY <1>3, <2>2 DEF Thread
  <2>4. r.node \in Listed => node[r.node].id = r.host
    BY <1>6, <2>3 DEF PcInv, ThreadsTell, Reading
  <2>5. r.server # Nothing => uuid[r.server] = r.host
    BY <2>2, <2>3, <2>4 DEF PcInv, NodesTell, Blank
  <2>6. \A u \in Threads : u # t => thread'[u] = thread[u]
    BY <1>3, <2>1
  <2>7. bus' \in Seq(Threads) /\ BusWaits'
    BY <1>1, <2>6, BusStays
  <2> HIDE DEF r
  <2> QED
    BY <1>1, <1>2, <1>6, <2>1, <2>2, <2>3, <2>4, <2>5, <2>7, ThreadGoesOn
<1> QED
  BY <1>2, <1>4, <1>5, <1>6 DEF LookingUp, Reading

LEMMA LearnsInv ==
  ASSUME PcInv, NEW t \in Threads, NEW h \in Hosts, Learns(t, h)
  PROVE  PcInv'
<1>1. /\ thread[t].phase = "asking" /\ thread[t].kind \in {"update", "add", "discover"}
      /\ UNCHANGED <<servers, node, aborted>>
  BY DEF Learns
<1>2. thread[t].server = Nothing /\ ~Owns(t)
  BY <1>1 DEF PcInv, ThreadsTell, Owns
<1>3. PICK d \in FreshData : Allocates(d, h) /\ Posts(t, h, "online", d)
  BY DEF Learns
<1>4. thread[t] \in Thread /\ thread \in [Threads -> Thread] /\ d \in Data
  BY IdleThread DEF PcInv, PcTypes, FreshData
<1> DEFINE r == [thread[t] EXCEPT !.phase = "upserting", !.host = h, !.state = "online",
                                  !.server = d, !.node = Nothing]
<1>5. /\ thread' = [thread EXCEPT ![t] = r] /\ bus' = Append(bus, t)
      /\ uuid' = [uuid EXCEPT ![d] = h]
  BY <1>3, <1>4 DEF Posts, Allocates, Thread
<1>6. /\ r \in Thread /\ r.server = d /\ r.phase = "upserting" /\ r.node = Nothing
      /\ r.kind = thread[t].kind /\ r.host = h
  BY <1>4 DEF Thread
<1>7. thread'[t] = r /\ \A u \in Threads : u # t => thread'[u] = thread[u]
  BY <1>4, <1>5
<1>8. bus' \in Seq(Threads) /\ BusWaits'
  BY <1>1, <1>5, <1>6, <1>7, BusAppends
<1> HIDE DEF r
<1> QED
  BY <1>1, <1>2, <1>5, <1>6, <1>8, ThreadAllocates DEF Reading

LEMMA EndsInv ==
  ASSUME PcInv, NEW t \in Threads, NEW ok \in BOOLEAN, Ends(t, ok)
  PROVE  PcInv'
<1>1. thread[t].phase = "asking" /\ UNCHANGED <<servers, node, aborted>>
  BY DEF Ends
<1>2. thread[t] \in Thread /\ thread \in [Threads -> Thread]
  BY IdleThread DEF PcInv, PcTypes
<1>3. CASE thread[t].kind = "pair" /\ ok
  <2>1. Posts(t, thread[t].host, "online", thread[t].server) /\ uuid' = uuid
    BY <1>3 DEF Ends
  <2> DEFINE r == [thread[t] EXCEPT !.phase = "upserting", !.host = thread[t].host,
                       !.state = "online", !.server = thread[t].server, !.node = Nothing]
  <2>2. thread' = [thread EXCEPT ![t] = r] /\ bus' = Append(bus, t)
    BY <1>2, <2>1 DEF Posts, Thread
  <2>3. /\ r \in Thread /\ r.server = thread[t].server /\ r.phase = "upserting"
        /\ r.node = Nothing /\ r.kind = thread[t].kind /\ r.host = thread[t].host
    BY <1>2 DEF Thread
  <2>4. thread'[t] = r /\ \A u \in Threads : u # t => thread'[u] = thread[u]
    BY <1>2, <2>2
  <2>5. bus' \in Seq(Threads) /\ BusWaits'
    BY <1>1, <2>2, <2>3, <2>4, BusAppends
  <2> HIDE DEF r
  <2> QED
    BY <1>1, <2>1, <2>2, <2>3, <2>5, ThreadHandsOver
<1>4. CASE thread[t].kind = "pair" /\ ~ok
  <2> DEFINE r == [Idle EXCEPT !.phase = "answering"]
  <2>1. /\ uuid' = Freed(thread[t].server)
        /\ thread' = [thread EXCEPT ![t] = r] /\ bus' = Append(bus, t)
    BY <1>4 DEF Ends, Finalizes
  <2>2. r \in Thread /\ r.server = Nothing /\ r.phase = "answering" /\ r.node = Nothing
    BY DEF Idle, Thread
  <2>3. thread'[t] = r /\ \A u \in Threads : u # t => thread'[u] = thread[u]
    BY <1>2, <2>1
  <2>4. bus' \in Seq(Threads) /\ BusWaits'
    BY <1>1, <2>1, <2>2, <2>3, BusAppends
  <2> HIDE DEF r
  <2> QED
    BY <1>1, <1>4, <2>1, <2>2, <2>4, ThreadFrees DEF Reading
<1>5. CASE thread[t].kind = "quit" /\ ok
  <2> DEFINE d == IF thread[t].node \in Listed THEN node[thread[t].node].server
                  ELSE thread[t].server
  <2>1. Posts(t, thread[t].host, "online", d) /\ uuid' = uuid
    BY <1>5 DEF Ends
  <2>2. Listed \subseteq Nodes /\ node \in [Nodes -> Node]
    BY IdleThread DEF PcInv, PcTypes
  <2>3. d \in Data \cup {Nothing}
    BY <1>2, <2>2 DEF Thread, Node
  <2>4. d # Nothing => /\ uuid[d] \in {Nothing, thread[t].host}
                       /\ uuid[d] # Nothing => \E n \in Nodes : node[n].server = d
    <3>1. CASE thread[t].node \in Listed
      BY <1>5, <2>2, <3>1 DEF PcInv, NodesTell, ThreadsTell
    <3>2. CASE thread[t].node \notin Listed
      BY <1>5, <3>2 DEF PcInv, ThreadsTell, ReadersTell, Reading
    <3> QED
      BY <3>1, <3>2
  <2>5. ~Owns(t) /\ thread[t].kind \in Reading
    BY <1>5 DEF Owns, Reading
  <2> HIDE DEF d
  <2> QED
    BY <1>1, <2>1, <2>3, <2>4, <2>5, PostsInv
<1>6. CASE thread[t].kind = "wol" \/ (thread[t].kind = "quit" /\ ~ok)
  <2>1. Finalizes(t) /\ uuid' = uuid
    BY <1>6 DEF Ends
  <2>2. ~Owns(t)
    BY <1>6 DEF Owns, Reading
  <2> QED
    BY <1>1, <2>1, <2>2, FinalizesInv
<1> QED
  BY <1>3, <1>4, <1>5, <1>6 DEF Ends

-----------------------------------------------------------------------------
(* Steps that change the list.                                                            *)

LEMMA Removed ==
  ASSUME NEW S, NEW s \in Seq(S), NEW i \in DOMAIN s
  PROVE  /\ RemoveAt(s, i) \in Seq(S)
         /\ Len(RemoveAt(s, i)) = Len(s) - 1
         /\ \A j \in DOMAIN RemoveAt(s, i) :
                /\ j \in DOMAIN s /\ j + 1 \in DOMAIN s
                /\ RemoveAt(s, i)[j] = s[IF j < i THEN j ELSE j + 1]
         /\ \A k \in DOMAIN s : k # i => \E j \in DOMAIN RemoveAt(s, i) : RemoveAt(s, i)[j] = s[k]
<1>1. SubSeq(s, 1, i - 1) \in Seq(S) /\ Len(SubSeq(s, 1, i - 1)) = i - 1
      /\ \A j \in 1..(i - 1) : SubSeq(s, 1, i - 1)[j] = s[j]
  OBVIOUS
<1>2. SubSeq(s, i + 1, Len(s)) \in Seq(S) /\ Len(SubSeq(s, i + 1, Len(s))) = Len(s) - i
      /\ \A j \in 1..(Len(s) - i) : SubSeq(s, i + 1, Len(s))[j] = s[i + j]
  OBVIOUS
<1>3. i \in Nat /\ Len(s) \in Nat /\ i <= Len(s) /\ i >= 1 /\ DOMAIN s = 1..Len(s)
  OBVIOUS
<1> DEFINE a == SubSeq(s, 1, i - 1)
           b == SubSeq(s, i + 1, Len(s))
<1>4. RemoveAt(s, i) = a \o b
  BY DEF RemoveAt
<1> HIDE DEF a, b
<1>5. a \in Seq(S) /\ b \in Seq(S) /\ Len(a) = i - 1 /\ Len(b) = Len(s) - i
  BY <1>1, <1>2 DEF a, b
<1>6. a \o b \in Seq(S) /\ Len(a \o b) = Len(s) - 1
  <2>1. a \o b \in Seq(S) /\ Len(a \o b) = Len(a) + Len(b)
    BY <1>5, ConcatProperties
  <2> QED
    BY <1>3, <1>5, <2>1
<1>7. ASSUME NEW j \in DOMAIN (a \o b)
      PROVE  /\ j \in DOMAIN s /\ j + 1 \in DOMAIN s
             /\ (a \o b)[j] = s[IF j < i THEN j ELSE j + 1]
  <2>1. j \in Nat /\ 1 <= j /\ j <= Len(s) - 1
    BY <1>3, <1>6
  <2>2. CASE j < i
    <3>1. (a \o b)[j] = a[j] /\ j \in 1..(i - 1)
      BY <1>3, <1>5, <2>1, <2>2
    <3> QED
      BY <1>1, <1>3, <2>1, <2>2, <3>1 DEF a
  <2>3. CASE ~(j < i)
    <3>1. (a \o b)[j] = b[j - (i - 1)] /\ j - (i - 1) \in 1..(Len(s) - i)
      <4>1. /\ j - (i - 1) \in 1..(Len(s) - i) /\ Len(b) = Len(s) - i
            /\ j \in 1..(Len(a) + Len(b)) /\ ~(j <= Len(a)) /\ j - Len(a) = j - (i - 1)
        BY <1>3, <1>5, <2>1, <2>3
      <4>2. (a \o b)[j] = b[j - Len(a)]
        BY <1>5, <4>1, ConcatProperties
      <4> QED
        BY <4>1, <4>2
    <3>2. b[j - (i - 1)] = s[i + (j - (i - 1))]
      BY <1>2, <3>1 DEF b
    <3>3. i + (j - (i - 1)) = j + 1
      BY <1>3, <2>1
    <3> QED
      BY <1>3, <2>1, <2>3, <3>1, <3>2, <3>3
  <2> QED
    BY <2>2, <2>3
<1>8. DOMAIN (a \o b) = 1..(Len(s) - 1)
  <2> DEFINE c == a \o b
  <2>1. c \in Seq(S) /\ Len(c) = Len(s) - 1
    BY <1>6
  <2> HIDE DEF c
  <2>2. DOMAIN c = 1..(Len(s) - 1)
    BY <2>1
  <2> QED
    BY <2>2 DEF c
<1>9. ASSUME NEW k \in DOMAIN s, k # i
      PROVE  \E j \in DOMAIN (a \o b) : (a \o b)[j] = s[k]
  <2>1. k \in Nat /\ 1 <= k /\ k <= Len(s)
    BY <1>3
  <2>2. CASE k < i
    <3>1. k \in 1..(Len(s) - 1)
      BY <1>3, <2>1, <2>2
    <3>2. k \in DOMAIN (a \o b)
      BY ONLY <1>8, <3>1, Zenon
    <3> QED
      BY <3>2, <1>7, <2>2
  <2>3. CASE k > i
    <3>1. k - 1 \in 1..(Len(s) - 1) /\ ~(k - 1 < i) /\ (k - 1) + 1 = k
      BY <1>3, <2>1, <2>3
    <3>2. k - 1 \in DOMAIN (a \o b)
      BY ONLY <1>8, <3>1, Zenon
    <3> QED
      BY <3>1, <3>2, <1>7
  <2> QED
    BY <1>3, <1>9, <2>1, <2>2, <2>3
<1> QED
  BY <1>4, <1>6, <1>7, <1>9

LEMMA ForgetsInv ==
  ASSUME PcInv, NEW h \in Hosts, Forgets(h)
  PROVE  PcInv'
<1> USE DEF PcInv
<1>1. PICK i \in Matches(h) :
          /\ servers' = RemoveAt(servers, i)
          /\ node' = [node EXCEPT ![servers[i]] = Blank]
          /\ uuid' = Freed(node[servers[i]].server)
  BY DEF Forgets
<1>2. UNCHANGED <<thread, bus, aborted>>
  BY DEF Forgets
<1> DEFINE n == servers[i]
           x == node[n].server
<1>3. servers \in Seq(Nodes) /\ i \in DOMAIN servers /\ n \in Nodes /\ n \in Listed
  BY DEF Matches, PcTypes, Listed, Range
<1>4. x # Nothing /\ node[n].id = h /\ uuid[x] = h /\ x \in Data /\ h # Nothing
  BY <1>3, PcAssumption DEF Matches, NodesTell, PcTypes, Node
<1>5. /\ servers' \in Seq(Nodes)
      /\ Len(servers') = Len(servers) - 1
      /\ \A j \in DOMAIN servers' :
             /\ j \in DOMAIN servers /\ j + 1 \in DOMAIN servers
             /\ servers'[j] = servers[IF j < i THEN j ELSE j + 1]
      /\ \A k \in DOMAIN servers : k # i => \E j \in DOMAIN servers' : servers'[j] = servers[k]
  BY <1>1, <1>3, Removed
<1>6. \A j, k \in DOMAIN servers : servers[j] = servers[k] => j = k
  BY DEF ListDistinct
<1>7. /\ Len(servers) \in Nat /\ DOMAIN servers = 1..Len(servers)
      /\ DOMAIN servers' = 1..(Len(servers) - 1)
  BY <1>3, <1>5
<1>8. \A j \in DOMAIN servers' : servers'[j] # n /\ servers'[j] \in Listed
  <2> SUFFICES ASSUME NEW j \in DOMAIN servers' PROVE servers'[j] # n /\ servers'[j] \in Listed
    OBVIOUS
  <2>1. PICK k \in DOMAIN servers : servers'[j] = servers[k] /\ k # i
    BY <1>3, <1>5, <1>7
  <2> QED
    BY <2>1, <1>3, <1>6 DEF Listed, Range
<1>9. \A m \in Nodes : m \in Listed' <=> m \in Listed /\ m # n
  BY <1>5, <1>8 DEF Listed, Range
<1>10. Nothing \notin Listed /\ Nothing \notin Listed' /\ \A t \in Threads : thread[t] \in Thread
  BY <1>5, PcAssumption, IdleThread DEF Listed, Range
<1> HIDE DEF n, x
<1>11. /\ node'[n] = Blank /\ node' \in [Nodes -> Node]
       /\ \A m \in Nodes : m # n => node'[m] = node[m]
  BY <1>1, <1>3 DEF PcTypes, n, Blank, Node
<1>12. /\ uuid' \in [Data -> Hosts \cup {Nothing}] /\ uuid'[x] = Nothing
       /\ \A d \in Data : d # x => uuid'[d] = uuid[d]
  BY <1>1, <1>4 DEF Freed, PcTypes, x, n
<1>13. /\ \A m \in Nodes : m # n => node[m].server # x
       /\ \A t \in Threads : Owns(t) => thread[t].server # x
  <2>1. \A t \in Threads : Owns(t) => thread[t].server # x
    BY <1>3 DEF OwnersDiffer, x
  <2>2. ASSUME NEW m \in Nodes, m # n, node[m].server = x PROVE FALSE
    <3>1. m \in Listed /\ node[m].id = h
      BY <1>4, <2>2 DEF NodesTell, Blank
    <3> QED
      BY <3>1, <1>3, <1>4, <2>2, ListedDiffer
  <2> QED
    BY <2>1, <2>2
<1>14. PcTypes'
  BY <1>2, <1>5, <1>11, <1>12 DEF PcTypes
<1>15. ListDistinct'
  <2> SUFFICES ASSUME NEW j \in DOMAIN servers', NEW k \in DOMAIN servers', j # k
               PROVE  /\ servers'[j] # servers'[k]
                      /\ node'[servers'[j]].id # node'[servers'[k]].id
    BY DEF ListDistinct
  <2>1. PICK a \in DOMAIN servers, b \in DOMAIN servers :
            a # b /\ servers'[j] = servers[a] /\ servers'[k] = servers[b]
    <3> DEFINE f(z) == IF z < i THEN z ELSE z + 1
    <3>1. f(j) # f(k)
      BY <1>3, <1>7
    <3>2. f(j) \in DOMAIN servers /\ f(k) \in DOMAIN servers
      BY <1>5
    <3>3. servers'[j] = servers[f(j)] /\ servers'[k] = servers[f(k)]
      BY <1>5
    <3> HIDE DEF f
    <3> QED
      BY <3>1, <3>2, <3>3
  <2>2. servers[a] # servers[b] /\ node[servers[a]].id # node[servers[b]].id
    BY <2>1 DEF ListDistinct
  <2>3. servers[a] \in Nodes /\ servers[b] \in Nodes
    BY <1>3
  <2> QED
    BY <2>1, <2>2, <2>3, <1>8, <1>11
<1>16. EmptyIsLast'
  <2> SUFFICES ASSUME NEW j \in DOMAIN servers', node'[servers'[j]].server = Nothing
               PROVE  j = Len(servers')
    BY DEF EmptyIsLast
  <2>1. servers'[j] \in Nodes /\ node[servers'[j]].server = Nothing
    BY <1>5, <1>8, <1>11
  <2>2. (IF j < i THEN j ELSE j + 1) = Len(servers)
    BY <1>5, <2>1 DEF EmptyIsLast
  <2> QED
    BY <2>2, <1>3, <1>5, <1>7
<1>17. NodesTell'
  BY <1>3, <1>4, <1>9, <1>11, <1>12, <1>13 DEF NodesTell, Blank, PcTypes, Node
<1>18. ThreadsTell'
  <2>1. \A t \in Threads : thread[t].server # Nothing =>
            thread[t].server \in Data /\ uuid'[thread[t].server] \in {Nothing, thread[t].host}
    BY <1>4, <1>10, <1>12 DEF ThreadsTell, Thread
  <2>2. \A t \in Threads : thread[t].node \in Listed' =>
            thread[t].node \in Listed /\ node'[thread[t].node] = node[thread[t].node]
    BY <1>9, <1>10, <1>11 DEF Thread
  <2> QED
    BY <1>2, <2>1, <2>2 DEF ThreadsTell
<1>19. \A t \in Threads : (Owns(t)' <=> Owns(t)) /\ thread'[t] = thread[t]
  BY <1>2 DEF Owns
<1>20. OwnersDiffer'
  <2>1. \A t \in Threads : Owns(t) => uuid'[thread[t].server] # Nothing
    BY <1>10, <1>12, <1>13 DEF OwnersDiffer, Owns, Thread
  <2>2. \A t \in Threads, m \in Nodes : Owns(t) => node'[m].server # thread[t].server
    BY <1>11 DEF OwnersDiffer, Owns, Blank
  <2> QED
    BY <2>1, <2>2, <1>19 DEF OwnersDiffer
<1>21. NothingLost'
  <2> SUFFICES ASSUME NEW d \in Data, uuid'[d] # Nothing
               PROVE  \/ \E m \in Nodes : node'[m].server = d
                      \/ \E t \in Threads : Owns(t) /\ thread[t].server = d
    BY <1>19 DEF NothingLost
  <2>1. d # x /\ uuid[d] # Nothing
    BY <1>12
  <2>2. CASE \E m \in Nodes : node[m].server = d
    BY <2>1, <2>2, <1>11 DEF x
  <2>3. CASE \E t \in Threads : Owns(t) /\ thread[t].server = d
    BY <2>3
  <2> QED
    BY <2>1, <2>2, <2>3 DEF NothingLost
<1>22. ReadersTell'
  <2> SUFFICES ASSUME NEW t \in Threads, thread[t].server # Nothing, thread[t].kind \in Reading,
                      uuid'[thread[t].server] # Nothing
               PROVE  \E m \in Nodes : node'[m].server = thread[t].server
    BY <1>2 DEF ReadersTell
  <2>1. thread[t].server # x /\ uuid[thread[t].server] # Nothing
    BY <1>10, <1>12 DEF Thread
  <2>2. PICK m \in Nodes : node[m].server = thread[t].server
    BY <2>1 DEF ReadersTell
  <2>3. node'[m] = node[m]
    BY <2>1, <2>2, <1>11 DEF x
  <2> QED
    BY <2>2, <2>3
<1>23. BusWaits'
  BY <1>2 DEF BusWaits
<1> QED
  BY <1>14, <1>15, <1>16, <1>17, <1>18, <1>20, <1>21, <1>22, <1>23

(* upsert_perform with nothing, or with what the node has already: the thread lets go.    *)
LEMMA UpsertKeeps ==
  ASSUME PcInv, NEW t \in Threads, NEW r \in Thread, NEW old \in Listed, NEW s \in {"online", "offline"},
         ~Owns(t), thread' = [thread EXCEPT ![t] = r],
         r.server = Nothing, r.node = Nothing, r.phase \in {"idle", "answering"},
         node' = [node EXCEPT ![old].state = s],
         UNCHANGED <<servers, uuid, aborted>>,
         bus' \in Seq(Threads), BusWaits'
  PROVE  PcInv'
<1> USE DEF PcInv
<1>1. Nothing \notin Listed /\ Listed \subseteq Nodes /\ Listed' = Listed
  BY IdleThread DEF Listed
<1>2. /\ node' \in [Nodes -> Node]
      /\ \A n \in Nodes : node'[n].id = node[n].id /\ node'[n].server = node[n].server
      /\ \A n \in Nodes \ Listed : node'[n] = node[n]
  BY <1>1 DEF PcTypes, Node
<1>3. /\ thread'[t] = r /\ thread' \in [Threads -> Thread]
      /\ \A u \in Threads : u # t => thread'[u] = thread[u] /\ (Owns(u)' <=> Owns(u))
      /\ ~Owns(t)'
  BY DEF PcTypes, Owns
<1>4. PcTypes'
  BY <1>2, <1>3 DEF PcTypes
<1>5. ListDistinct' /\ EmptyIsLast'
  BY <1>2 DEF ListDistinct, EmptyIsLast, PcTypes
<1>6. NodesTell'
  BY <1>1, <1>2 DEF NodesTell
<1>7. ThreadsTell'
  BY <1>1, <1>2, <1>3 DEF ThreadsTell
<1>8. OwnersDiffer'
  BY <1>2, <1>3 DEF OwnersDiffer
<1>9. NothingLost'
  <2> SUFFICES ASSUME NEW d \in Data, uuid[d] # Nothing
               PROVE  \/ \E n \in Nodes : node'[n].server = d
                      \/ \E u \in Threads : Owns(u)' /\ thread'[u].server = d
    BY DEF NothingLost
  <2>1. CASE \E n \in Nodes : node[n].server = d
    BY <2>1, <1>2
  <2>2. CASE \E u \in Threads : Owns(u) /\ thread[u].server = d
    BY <2>2, <1>3
  <2> QED
    BY <2>1, <2>2 DEF NothingLost
<1>10. ReadersTell'
  BY <1>2, <1>3 DEF ReadersTell
<1> QED
  BY <1>4, <1>5, <1>6, <1>7, <1>8, <1>9, <1>10

(* pclist_node_apply of a server the thread owns, to the node of its host: the server that *)
(* was there is freed.                                                                     *)
LEMMA UpsertReplaces ==
  ASSUME PcInv, NEW t \in Threads, NEW r \in Thread, NEW old \in Listed, NEW s \in {"online", "offline"},
         Owns(t), thread' = [thread EXCEPT ![t] = r],
         r.server = Nothing, r.node = Nothing, r.phase \in {"idle", "answering"},
         node[old].server # Nothing, node[old].id = thread[t].host,
         node' = [node EXCEPT ![old] = [id |-> uuid[thread[t].server],
                                        server |-> thread[t].server, state |-> s]],
         uuid' = Freed(node[old].server),
         UNCHANGED <<servers, aborted>>,
         bus' \in Seq(Threads), BusWaits'
  PROVE  PcInv'
<1> USE DEF PcInv
<1> DEFINE d == thread[t].server
           x == node[old].server
<1>1. /\ Nothing \notin Listed /\ Listed \subseteq Nodes /\ Listed' = Listed
      /\ \A u \in Threads : thread[u] \in Thread
  BY IdleThread DEF Listed
<1>2. /\ d \in Data /\ d # Nothing /\ uuid[d] = thread[t].host /\ uuid[d] # Nothing
      /\ \A n \in Nodes : node[n].server # d
  BY <1>1 DEF Owns, OwnersDiffer, ThreadsTell, Thread
<1>3. x \in Data /\ x # d /\ uuid[x] = node[old].id /\ x # Nothing
  BY <1>1, <1>2 DEF NodesTell, PcTypes, Node
<1>4. /\ \A u \in Threads : Owns(u) => thread[u].server # x
      /\ \A m \in Nodes : m # old => node[m].server # x
  <2>1. \A u \in Threads : Owns(u) => thread[u].server # x
    BY <1>1 DEF OwnersDiffer
  <2>2. ASSUME NEW m \in Nodes, m # old, node[m].server = x PROVE FALSE
    <3>1. m \in Listed /\ node[m].id = node[old].id
      BY <1>3, <2>2 DEF NodesTell, Blank
    <3> QED
      BY <3>1, <2>2, ListedDiffer
  <2> QED
    BY <2>1, <2>2
<1>5. /\ node' \in [Nodes -> Node] /\ node'[old].id = node[old].id /\ node'[old].server = d
      /\ \A n \in Nodes : n # old => node'[n] = node[n]
  BY <1>1, <1>2 DEF PcTypes, Node
<1>6. /\ uuid' \in [Data -> Hosts \cup {Nothing}] /\ uuid'[x] = Nothing
      /\ \A z \in Data : z # x => uuid'[z] = uuid[z]
  BY <1>3 DEF PcTypes, Freed
<1>7. /\ thread'[t] = r /\ thread' \in [Threads -> Thread]
      /\ \A u \in Threads : u # t => thread'[u] = thread[u] /\ (Owns(u)' <=> Owns(u))
      /\ ~Owns(t)'
  BY DEF PcTypes, Owns
<1>8. \A u \in Threads : Owns(u) /\ u # t => thread[u].server # d
  BY DEF OwnersDiffer
<1> HIDE DEF d, x
<1>9. PcTypes'
  BY <1>5, <1>6, <1>7 DEF PcTypes
<1>10. ListDistinct' /\ EmptyIsLast'
  <2>1. \A n \in Nodes : node'[n].id = node[n].id
    BY <1>5
  <2>2. \A n \in Nodes : node'[n].server = Nothing => node[n].server = Nothing
    BY <1>2, <1>5
  <2> QED
    BY <2>1, <2>2 DEF ListDistinct, EmptyIsLast, PcTypes
<1>11. NodesTell'
  BY <1>1, <1>2, <1>3, <1>4, <1>5, <1>6 DEF NodesTell, PcTypes, Node, x
<1>12. ThreadsTell'
  <2>1. \A u \in Threads : thread[u].server # Nothing =>
            thread[u].server \in Data /\ uuid'[thread[u].server] \in {Nothing, thread[u].host}
    BY <1>1, <1>3, <1>6 DEF ThreadsTell, Thread
  <2>2. \A n \in Nodes : node'[n].id = node[n].id
    BY <1>5
  <2> QED
    BY <1>1, <1>7, <2>1, <2>2 DEF ThreadsTell
<1>13. OwnersDiffer'
  <2>1. \A u \in Threads : Owns(u) => uuid'[thread[u].server] # Nothing
    BY <1>1, <1>4, <1>6 DEF OwnersDiffer, Owns, Thread
  <2>2. \A u \in Threads, m \in Nodes : Owns(u) /\ u # t => node'[m].server # thread[u].server
    BY <1>5, <1>8 DEF OwnersDiffer
  <2> QED
    BY <2>1, <2>2, <1>7 DEF OwnersDiffer
<1>14. NothingLost'
  <2> SUFFICES ASSUME NEW z \in Data, uuid'[z] # Nothing
               PROVE  \/ \E m \in Nodes : node'[m].server = z
                      \/ \E u \in Threads : Owns(u)' /\ thread'[u].server = z
    BY DEF NothingLost
  <2>1. z # x /\ uuid[z] # Nothing
    BY <1>6
  <2>2. CASE \E m \in Nodes : node[m].server = z
    BY <2>1, <2>2, <1>5 DEF x
  <2>3. CASE \E u \in Threads : Owns(u) /\ thread[u].server = z
    <3>1. PICK u \in Threads : Owns(u) /\ thread[u].server = z
      BY <2>3
    <3>2. CASE u = t
      BY <3>1, <3>2, <1>1, <1>5 DEF d
    <3>3. CASE u # t
      BY <3>1, <3>3, <1>7
    <3> QED
      BY <3>2, <3>3
  <2> QED
    BY <2>1, <2>2, <2>3 DEF NothingLost
<1>15. ReadersTell'
  <2> SUFFICES ASSUME NEW u \in Threads, u # t, thread[u].server # Nothing,
                      thread[u].kind \in Reading, uuid'[thread[u].server] # Nothing
               PROVE  \E m \in Nodes : node'[m].server = thread[u].server
    BY <1>7 DEF ReadersTell
  <2>1. thread[u].server # x /\ uuid[thread[u].server] # Nothing
    BY <1>1, <1>6 DEF Thread
  <2>2. PICK m \in Nodes : node[m].server = thread[u].server
    BY <2>1 DEF ReadersTell
  <2>3. node'[m] = node[m]
    BY <2>1, <2>2, <1>5 DEF x
  <2> QED
    BY <2>2, <2>3
<1> QED
  BY <1>9, <1>10, <1>11, <1>12, <1>13, <1>14, <1>15

(* pclist_append of the node of a host that has none, with the server the thread owns or   *)
(* without one.                                                                            *)
LEMMA UpsertAppends ==
  ASSUME PcInv, NEW t \in Threads, NEW r \in Thread, NEW new \in FreshNodes, NEW s \in {"online", "offline"},
         thread[t].server = Nothing \/ Owns(t),
         thread' = [thread EXCEPT ![t] = r],
         r.server = Nothing, r.node = Nothing, r.phase \in {"idle", "answering"},
         \A n \in Listed : node[n].server # Nothing /\ node[n].id # thread[t].host,
         servers' = Append(servers, new),
         node' = [node EXCEPT ![new] =
                     [id |-> IF thread[t].server = Nothing THEN Nothing ELSE uuid[thread[t].server],
                      server |-> thread[t].server, state |-> s]],
         UNCHANGED <<uuid, aborted>>,
         bus' \in Seq(Threads), BusWaits'
  PROVE  PcInv'
<1> USE DEF PcInv
<1> DEFINE d == thread[t].server
<1>1. /\ Nothing \notin Listed /\ Listed \subseteq Nodes
      /\ \A u \in Threads : thread[u] \in Thread
      /\ new \in Nodes /\ new \notin Listed /\ \A u \in Threads : thread[u].node # new
      /\ Nothing \notin Nodes
  BY IdleThread, PcAssumption DEF FreshNodes
<1>2. node[new] = Blank
  BY <1>1 DEF NodesTell
<1>3. /\ d \in Data \cup {Nothing}
      /\ d # Nothing => /\ Owns(t) /\ uuid[d] = thread[t].host /\ uuid[d] # Nothing
                        /\ \A n \in Nodes : node[n].server # d
  BY <1>1 DEF OwnersDiffer, ThreadsTell, Thread
<1>4. /\ node' \in [Nodes -> Node] /\ node'[new].server = d
      /\ node'[new].id = IF d = Nothing THEN Nothing ELSE thread[t].host
      /\ \A n \in Nodes : n # new => node'[n] = node[n]
  BY <1>1, <1>3 DEF PcTypes, Node
<1>5. /\ thread'[t] = r /\ thread' \in [Threads -> Thread]
      /\ \A u \in Threads : u # t => thread'[u] = thread[u] /\ (Owns(u)' <=> Owns(u))
      /\ ~Owns(t)'
  BY DEF PcTypes, Owns
<1>6. /\ servers' \in Seq(Nodes) /\ Len(servers') = Len(servers) + 1 /\ Len(servers) \in Nat
      /\ DOMAIN servers' = 1..(Len(servers) + 1) /\ DOMAIN servers = 1..Len(servers)
      /\ servers'[Len(servers) + 1] = new
      /\ \A i \in DOMAIN servers : servers'[i] = servers[i] /\ servers[i] \in Listed
  BY <1>1 DEF PcTypes, Listed, Range
<1>7. Listed' = Listed \cup {new}
  <2>1. ASSUME NEW n, n \in Listed' PROVE n \in Listed \cup {new}
    <3>1. PICK i \in 1..(Len(servers) + 1) : n = servers'[i]
      BY <1>6, <2>1 DEF Listed, Range
    <3>2. CASE i = Len(servers) + 1
      BY <3>1, <3>2, <1>6
    <3>3. CASE i # Len(servers) + 1
      <4>1. i \in DOMAIN servers
        BY <1>6, <3>1, <3>3
      <4> QED
        BY <3>1, <4>1, <1>6
    <3> QED
      BY <3>2, <3>3
  <2>2. new \in Listed'
    <3>1. Len(servers) + 1 \in DOMAIN servers'
      BY <1>6
    <3> QED
      BY <3>1, <1>6 DEF Listed, Range
  <2>3. ASSUME NEW n \in Listed PROVE n \in Listed'
    <3>1. PICK i \in DOMAIN servers : n = servers[i]
      BY DEF Listed, Range
    <3>2. i \in DOMAIN servers' /\ servers'[i] = n
      BY <3>1, <1>6
    <3> QED
      BY <3>2 DEF Listed, Range
  <2> QED
    BY <2>1, <2>2, <2>3
<1>8. \A u \in Threads : Owns(u) /\ u # t => d = Nothing \/ thread[u].server # d
  BY <1>3 DEF OwnersDiffer
<1>9. \A n \in Nodes : n # new /\ n \in Listed => node[n].id # node'[new].id /\ node[n].id # Nothing
  BY <1>4 DEF NodesTell
<1> HIDE DEF d
<1>10. PcTypes'
  BY <1>4, <1>5, <1>6 DEF PcTypes
<1>11. ListDistinct'
  <2> SUFFICES ASSUME NEW i \in DOMAIN servers', NEW j \in DOMAIN servers', i # j
               PROVE  /\ servers'[i] # servers'[j]
                      /\ node'[servers'[i]].id # node'[servers'[j]].id
    BY DEF ListDistinct
  <2>1. CASE i = Len(servers) + 1
    <3>1. j \in DOMAIN servers
      BY <1>6, <2>1
    <3> QED
      BY <2>1, <3>1, <1>1, <1>4, <1>6, <1>9
  <2>2. CASE j = Len(servers) + 1
    <3>1. i \in DOMAIN servers
      BY <1>6, <2>2
    <3> QED
      BY <2>2, <3>1, <1>1, <1>4, <1>6, <1>9
  <2>3. CASE i # Len(servers) + 1 /\ j # Len(servers) + 1
    <3>1. i \in DOMAIN servers /\ j \in DOMAIN servers
      BY <1>6, <2>3
    <3> QED
      BY <3>1, <1>1, <1>4, <1>6 DEF ListDistinct
  <2> QED
    BY <2>1, <2>2, <2>3
<1>12. EmptyIsLast'
  <2> SUFFICES ASSUME NEW i \in DOMAIN servers', i # Len(servers) + 1
               PROVE  node'[servers'[i]].server # Nothing
    BY <1>6 DEF EmptyIsLast
  <2>1. i \in DOMAIN servers
    BY <1>6
  <2> QED
    BY <2>1, <1>1, <1>4, <1>6
<1>13. NodesTell'
  <2>1. \A n \in Nodes : n \notin Listed' => node'[n] = Blank
    BY <1>4, <1>7 DEF NodesTell
  <2>2. \A n \in Nodes : n # new =>
            /\ node'[n].server = Nothing => node'[n].id = Nothing
            /\ node'[n].server # Nothing =>
                   node'[n].id # Nothing /\ uuid[node'[n].server] = node'[n].id
    BY <1>4 DEF NodesTell
  <2>3. /\ node'[new].server = Nothing => node'[new].id = Nothing
        /\ node'[new].server # Nothing =>
               node'[new].id # Nothing /\ uuid[node'[new].server] = node'[new].id
    BY <1>3, <1>4
  <2> QED
    BY <2>1, <2>2, <2>3 DEF NodesTell
<1>14. ThreadsTell'
  <2>1. \A u \in Threads : thread[u].node \in Listed' =>
            thread[u].node \in Listed /\ node'[thread[u].node] = node[thread[u].node]
    BY <1>1, <1>4, <1>7
  <2>2. Nothing \notin Listed'
    BY <1>1, <1>7
  <2> QED
    BY <1>5, <2>1, <2>2 DEF ThreadsTell
<1>15. OwnersDiffer'
  <2>1. \A u \in Threads, m \in Nodes : Owns(u) /\ u # t => node'[m].server # thread[u].server
    BY <1>4, <1>8 DEF OwnersDiffer, Owns
  <2> QED
    BY <2>1, <1>5 DEF OwnersDiffer
<1>16. NothingLost'
  <2> SUFFICES ASSUME NEW z \in Data, uuid[z] # Nothing
               PROVE  \/ \E m \in Nodes : node'[m].server = z
                      \/ \E u \in Threads : Owns(u)' /\ thread'[u].server = z
    BY DEF NothingLost
  <2>1. z # Nothing
    BY PcAssumption
  <2>2. CASE \E m \in Nodes : node[m].server = z
    <3>1. PICK m \in Nodes : node[m].server = z
      BY <2>2
    <3>2. m # new
      BY <2>1, <3>1, <1>2 DEF Blank
    <3> QED
      BY <3>1, <3>2, <1>4
  <2>3. CASE \E u \in Threads : Owns(u) /\ thread[u].server = z
    <3>1. PICK u \in Threads : Owns(u) /\ thread[u].server = z
      BY <2>3
    <3>2. CASE u = t
      BY <3>1, <3>2, <1>1, <1>4 DEF d
    <3>3. CASE u # t
      BY <3>1, <3>3, <1>5
    <3> QED
      BY <3>2, <3>3
  <2> QED
    BY <2>2, <2>3 DEF NothingLost
<1>17. ReadersTell'
  <2> SUFFICES ASSUME NEW u \in Threads, u # t, thread[u].server # Nothing,
                      thread[u].kind \in Reading, uuid[thread[u].server] # Nothing
               PROVE  \E m \in Nodes : node'[m].server = thread[u].server
    BY <1>5 DEF ReadersTell
  <2>1. PICK m \in Nodes : node[m].server = thread[u].server
    BY DEF ReadersTell
  <2>2. m # new
    BY <2>1, <1>2 DEF Blank
  <2> QED
    BY <2>1, <2>2, <1>4
<1> QED
  BY <1>10, <1>11, <1>12, <1>13, <1>14, <1>15, <1>16, <1>17

LEMMA UpsertsInv ==
  ASSUME PcInv, NEW t \in Threads, Upserts(t)
  PROVE  PcInv'
<1> DEFINE h == thread[t].host
           d == thread[t].server
           s == thread[t].state
           r == IF t = Mdns THEN Idle ELSE [Idle EXCEPT !.phase = "answering"]
<1>1. /\ bus # <<>> /\ t = Head(bus) /\ thread[t].phase = "upserting"
      /\ ~IsFree(d) /\ ~Asserts(h) /\ Upserted(h, s, d) /\ aborted' = aborted
      /\ bus' = IF t = Mdns THEN Tail(bus) ELSE Append(Tail(bus), t)
      /\ thread' = [thread EXCEPT ![t] = r]
  BY DEF Upserts
<1>2. /\ r \in Thread /\ r.server = Nothing /\ r.node = Nothing
      /\ r.phase \in {"idle", "answering"} /\ (t # Mdns => r.phase = "answering")
  BY DEF Idle, Thread
<1>3. thread[t] \in Thread /\ thread'[t] = r /\ \A u \in Threads : u # t => thread'[u] = thread[u]
  BY <1>1, IdleThread DEF PcInv, PcTypes
<1> HIDE DEF r
<1>4. bus' \in Seq(Threads) /\ BusWaits'
  BY <1>1, <1>2, <1>3, BusShrinks, BusRotates
<1>5. /\ s \in {"online", "offline"} /\ d \in Data \cup {Nothing}
      /\ d # Nothing => uuid[d] # Nothing /\ uuid[d] = h
  BY <1>1, <1>3 DEF Thread, IsFree, PcInv, ThreadsTell
<1>6. /\ Listed \subseteq Nodes /\ node \in [Nodes -> Node] /\ Nothing \notin Nodes
      /\ \A n \in Nodes \ Listed : node[n] = Blank
  BY IdleThread, PcAssumption DEF PcInv, PcTypes, NodesTell
<1>7. d # Nothing /\ ~Owns(t) => \E n \in Listed : node[n].server = d /\ node[n].id = h
  <2> SUFFICES ASSUME d # Nothing, ~Owns(t)
               PROVE  \E n \in Listed : node[n].server = d /\ node[n].id = h
    OBVIOUS
  <2>1. PICK n \in Nodes : node[n].server = d
    BY <1>5 DEF PcInv, ReadersTell, Owns
  <2> QED
    BY <1>5, <1>6, <2>1 DEF Blank, PcInv, NodesTell
<1>8. CASE Found(h) # Nothing
  <2> DEFINE old == Found(h)
  <2>1. /\ old \in Listed /\ node[old].id = h /\ node[old].server # Nothing
        /\ servers' = servers /\ Applied(old, s, d)
    BY <1>1, <1>8, FoundTells DEF Upserted
  <2> HIDE DEF old
  <2>2. CASE d = Nothing
    <3>1. node' = [node EXCEPT ![old].state = s] /\ uuid' = uuid /\ ~Owns(t)
      BY <2>1, <2>2, <1>6 DEF Applied, Owns
    <3> QED
      BY <1>1, <1>2, <1>4, <1>5, <2>1, <3>1, UpsertKeeps
  <2>3. CASE d # Nothing /\ ~Owns(t)
    <3>1. node[old].server = d
      BY <1>7, <2>1, <2>3, ListedDiffer
    <3>2. node[old] \in Node /\ old \in Nodes
      BY <1>6, <2>1
    <3>3. [node[old] EXCEPT !.state = s, !.id = uuid[d], !.server = d] = [node[old] EXCEPT !.state = s]
      BY <1>5, <2>1, <2>3, <3>1, <3>2 DEF Node
    <3>4. node' = [node EXCEPT ![old].state = s] /\ uuid' = uuid
      BY <2>1, <2>3, <3>1, <3>2, <3>3, <1>6 DEF Applied
    <3> QED
      BY <1>1, <1>2, <1>4, <1>5, <2>1, <2>3, <3>4, UpsertKeeps
  <2>4. CASE d # Nothing /\ Owns(t)
    <3>1. node[old].server # d
      BY <1>6, <2>1, <2>4 DEF PcInv, OwnersDiffer
    <3>2. node[old] \in Node /\ old \in Nodes
      BY <1>6, <2>1
    <3>3. [node[old] EXCEPT !.state = s, !.id = uuid[d], !.server = d]
              = [id |-> uuid[d], server |-> d, state |-> s]
      <4>1. uuid[d] \in Hosts \cup {Nothing}
        BY <1>5, <2>4 DEF PcInv, PcTypes
      <4> DEFINE e == [node[old] EXCEPT !.state = s, !.id = uuid[d], !.server = d]
      <4>2. e \in Node /\ e.id = uuid[d] /\ e.server = d /\ e.state = s
        BY <1>5, <3>2, <4>1 DEF Node
      <4> HIDE DEF e
      <4>3. e = [id |-> uuid[d], server |-> d, state |-> s]
        BY <4>2 DEF Node
      <4> QED
        BY <4>3 DEF e
    <3>4. /\ node' = [node EXCEPT ![old] = [id |-> uuid[d], server |-> d, state |-> s]]
          /\ uuid' = Freed(node[old].server)
      BY <2>1, <2>4, <3>1, <3>2, <3>3, <1>6 DEF Applied
    <3> QED
      BY <1>1, <1>2, <1>4, <1>5, <2>1, <2>4, <3>4, UpsertReplaces
  <2> QED
    BY <2>2, <2>3, <2>4
<1>9. CASE Found(h) = Nothing
  <2> DEFINE new == CHOOSE n \in FreshNodes : TRUE
  <2>1. /\ FreshNodes # {} /\ servers' = Append(servers, new) /\ Applied(new, s, d)
    BY <1>1, <1>9 DEF Upserted
  <2>2. new \in FreshNodes
    BY <2>1
  <2> HIDE DEF new
  <2>3. \A n \in Listed : node[n].server # Nothing /\ node[n].id # h
    BY <1>1, <1>9, NotFoundTells
  <2>4. d = Nothing \/ Owns(t)
    BY <1>7, <2>3
  <2>5. new \in Nodes /\ node[new] = Blank
    BY <1>6, <2>2 DEF FreshNodes
  <2>6. uuid' = uuid
    <3>1. Nothing \notin Data /\ uuid \in [Data -> Hosts \cup {Nothing}]
      BY PcAssumption DEF PcInv, PcTypes
    <3>2. Freed(Nothing) = uuid
      BY <3>1 DEF Freed
    <3> QED
      BY <2>1, <2>5, <3>2 DEF Applied, Blank
  <2>7. node' = [node EXCEPT ![new] =
                    [id |-> IF d = Nothing THEN Nothing ELSE uuid[d], server |-> d, state |-> s]]
    <3>1. [Blank EXCEPT !.state = s] = [id |-> Nothing, server |-> Nothing, state |-> s]
      BY DEF Blank
    <3>2. d # Nothing => [Blank EXCEPT !.state = s, !.id = uuid[d], !.server = d]
                             = [id |-> uuid[d], server |-> d, state |-> s]
      <4>1. Blank \in Node
        BY DEF Blank, Node
      <4>2. d # Nothing => uuid[d] \in Hosts \cup {Nothing}
        BY <1>5 DEF PcInv, PcTypes
      <4> SUFFICES ASSUME d # Nothing
                   PROVE  [Blank EXCEPT !.state = s, !.id = uuid[d], !.server = d]
                              = [id |-> uuid[d], server |-> d, state |-> s]
        OBVIOUS
      <4> DEFINE e == [Blank EXCEPT !.state = s, !.id = uuid[d], !.server = d]
      <4>3. e \in Node /\ e.id = uuid[d] /\ e.server = d /\ e.state = s
        BY <1>5, <4>1, <4>2 DEF Node
      <4> HIDE DEF e
      <4>4. e = [id |-> uuid[d], server |-> d, state |-> s]
        BY <4>3 DEF Node
      <4> QED
        BY <4>4 DEF e
    <3> QED
      BY <1>6, <2>1, <2>5, <3>1, <3>2 DEF Applied
  <2> QED
    BY <1>1, <1>2, <1>4, <1>5, <2>1, <2>2, <2>3, <2>4, <2>6, <2>7, UpsertAppends
<1> QED
  BY <1>8, <1>9

(* A step that changes nothing of the invariant: an assertion fails, or nothing happens.  *)
LEMMA AbortsInv ==
  ASSUME PcInv, UNCHANGED <<servers, node, uuid, thread, bus>>, aborted' \in BOOLEAN
  PROVE  PcInv'
<1> USE DEF PcInv
<1>1. PcTypes'
  BY DEF PcTypes
<1>2. ListDistinct' /\ EmptyIsLast' /\ NodesTell' /\ ThreadsTell'
  BY DEF ListDistinct, EmptyIsLast, NodesTell, ThreadsTell, Listed
<1>3. OwnersDiffer' /\ NothingLost' /\ ReadersTell' /\ BusWaits'
  BY DEF OwnersDiffer, NothingLost, ReadersTell, BusWaits, Owns
<1> QED
  BY <1>1, <1>2, <1>3

LEMMA InitPcInv == Init => PcInv
<1> SUFFICES ASSUME Init PROVE PcInv
  OBVIOUS
<1> USE DEF Init
<1>1. aborted \in BOOLEAN
  OBVIOUS
<1>2. PcTypes
  BY <1>1 DEF PcTypes, Blank, Idle, Node, Thread
<1>3. ListDistinct /\ EmptyIsLast /\ NodesTell /\ BusWaits
  BY DEF ListDistinct, EmptyIsLast, NodesTell, BusWaits, Blank
<1>4. ThreadsTell /\ OwnersDiffer /\ NothingLost /\ ReadersTell
  BY DEF ThreadsTell, OwnersDiffer, NothingLost, ReadersTell, Owns, Idle, Listed, Range
<1> QED
  BY <1>2, <1>3, <1>4 DEF PcInv

LEMMA NextPcInv == PcInv /\ [Next]_vars => PcInv'
<1> SUFFICES ASSUME PcInv, [Next]_vars PROVE PcInv'
  OBVIOUS
<1>1. ASSUME NEW t \in Executor, NEW k \in Kinds, NEW h \in Hosts, Requests(t, k, h) PROVE PcInv'
  BY <1>1, RequestsInv
<1>2. ASSUME NEW t \in Executor, Adds(t) PROVE PcInv'
  BY <1>2, AddsInv
<1>3. ASSUME NEW h \in Hosts, Forgets(h) PROVE PcInv'
  BY <1>3, ForgetsInv
<1>4. ASSUME NEW h \in Hosts, Discovers(h) PROVE PcInv'
  BY <1>4, DiscoversInv
<1>5. ASSUME NEW t \in Threads, Works(t) PROVE PcInv'
  <2>1. CASE LooksUp(t)
    BY <2>1, LooksUpInv
  <2>2. CASE Takes(t)
    BY <2>2, TakesInv
  <2>3. ASSUME NEW h \in Hosts, Learns(t, h) PROVE PcInv'
    BY <2>3, LearnsInv
  <2>4. ASSUME NEW io \in BOOLEAN, Fails(t, io) PROVE PcInv'
    BY <2>4, FailsInv
  <2>5. ASSUME NEW ok \in BOOLEAN, Ends(t, ok) PROVE PcInv'
    BY <2>5, EndsInv
  <2>6. CASE t = Mdns /\ Marks
    BY <2>6, MarksInv
  <2> QED
    BY <1>5, <2>1, <2>2, <2>3, <2>4, <2>5, <2>6 DEF Works
<1>6. ASSUME NEW t \in Threads, Serves(t) PROVE PcInv'
  <2>1. CASE Upserts(t)
    BY <2>1, UpsertsInv
  <2>2. CASE UpsertMisuses(t)
    <3>1. aborted' = TRUE /\ UNCHANGED <<servers, node, uuid, thread, bus>>
      BY <2>2 DEF UpsertMisuses, Aborts
    <3>2. aborted' \in BOOLEAN
      BY <3>1
    <3> QED
      BY <3>1, <3>2, AbortsInv
  <2>3. CASE Answers(t)
    BY <2>3, AnswersInv
  <2> QED
    BY <1>6, <2>1, <2>2, <2>3 DEF Serves
<1>7. ASSUME NEW h \in Hosts, LookUpAborts(h) PROVE PcInv'
  <2>1. aborted' = TRUE /\ UNCHANGED <<servers, node, uuid, thread, bus>>
    BY <1>7 DEF LookUpAborts, Aborts
  <2>2. aborted' \in BOOLEAN
    BY <2>1
  <2> QED
    BY <2>1, <2>2, AbortsInv
<1>8. CASE UNCHANGED vars
  BY <1>8, AbortsInv DEF vars, PcInv, PcTypes
<1> QED
  BY <1>1, <1>2, <1>3, <1>4, <1>5, <1>6, <1>7, <1>8 DEF Next

-----------------------------------------------------------------------------
(* The invariant in every reachable state.                                                *)
THEOREM PcInvariance == Spec => []PcInv
BY InitPcInv, NextPcInv, PTL DEF Spec

LEMMA Waiting ==
  ASSUME NEW S, NEW s \in Seq(S), \A i, j \in DOMAIN s : s[i] = s[j] => i = j
  PROVE  Cardinality(Range(s)) = Len(s)
<1>1. s \in Bijection(1..Len(s), Range(s))
  BY DEF Bijection, Injection, Surjection, IsInjective, Range
<1>2. IsFiniteSet(1..Len(s)) /\ Cardinality(1..Len(s)) = Len(s)
  <2>1. Len(s) \in Nat
    OBVIOUS
  <2>2. /\ IsFiniteSet(1..Len(s))
        /\ Cardinality(1..Len(s)) = IF 1 > Len(s) THEN 0 ELSE Len(s) - 1 + 1
    BY <2>1, FS_Interval
  <2> QED
    BY <2>1, <2>2
<1>3. Cardinality(1..Len(s)) = Cardinality(Range(s))
  BY <1>1, <1>2, FS_Bijection DEF ExistsBijection
<1> QED
  BY <1>2, <1>3

-----------------------------------------------------------------------------
(* Posts. The threads wait in the bus, each until the main thread has run what it posted.  *)

LEMMA RangeAppends ==
  ASSUME NEW S, NEW s \in Seq(S), NEW x \in S
  PROVE  Range(Append(s, x)) = Range(s) \cup {x}
<1>1. <<x>> \in Seq(S) /\ Range(<<x>>) = {x}
  BY DEF Range
<1>2. Append(s, x) = s \o <<x>>
  BY AppendIsConcat
<1>3. \A u, v \in Seq(S) : Range(u \o v) = Range(u) \cup Range(v)
  BY RangeConcatenation
<1> QED
  BY <1>1, <1>2, <1>3, Zenon

LEMMA RangeOfTail ==
  ASSUME NEW S, NEW s \in Seq(S), s # <<>>
  PROVE  Range(s) = {Head(s)} \cup Range(Tail(s))
<1>1. Head(s) \in S /\ Tail(s) \in Seq(S) /\ s = <<Head(s)>> \o Tail(s)
  OBVIOUS
<1>2. <<Head(s)>> \in Seq(S) /\ Range(<<Head(s)>>) = {Head(s)}
  BY <1>1 DEF Range
<1>3. \A u, v \in Seq(S) : Range(u \o v) = Range(u) \cup Range(v)
  BY RangeConcatenation
<1> QED
  BY <1>1, <1>2, <1>3, Zenon

LEMMA BusKeeps ==
  ASSUME bus \in Seq(Threads), NEW t \in Threads,
         \/ bus' = bus
         \/ bus' = Append(bus, t)
         \/ bus # <<>> /\ t = Head(bus) /\ bus' \in {Tail(bus), Append(Tail(bus), t)}
  PROVE  /\ \A u \in Range(bus) : u = t \/ u \in Range(bus')
         /\ bus' = Append(bus, t) => t \in Range(bus')
         /\ bus # <<>> /\ bus' = Append(Tail(bus), t) => t \in Range(bus')
<1>1. Range(Append(bus, t)) = Range(bus) \cup {t}
  BY RangeAppends
<1>2. bus # <<>> => Tail(bus) \in Seq(Threads) /\ Range(bus) = {Head(bus)} \cup Range(Tail(bus))
  BY RangeOfTail
<1>3. bus # <<>> => Range(Append(Tail(bus), t)) = Range(Tail(bus)) \cup {t}
  <2>1. \A q \in Seq(Threads) : Range(Append(q, t)) = Range(q) \cup {t}
    BY RangeAppends
  <2> QED
    BY <1>2, <2>1, Zenon
<1> QED
  BY <1>1, <1>2, <1>3

Posted == {"upserting", "answering"}

\* One thread changes its phase: it waits only if it has just posted.
LEMMA OneThreadPosts ==
  ASSUME PcInv, PostsAreQueued, NEW t \in Threads, NEW r, thread' = [thread EXCEPT ![t] = r],
         \/ bus' = bus /\ r.phase \notin Posted
         \/ bus' = Append(bus, t)
         \/ bus # <<>> /\ t = Head(bus) /\ bus' = Tail(bus) /\ r.phase \notin Posted
         \/ bus # <<>> /\ t = Head(bus) /\ bus' = Append(Tail(bus), t)
  PROVE  PostsAreQueued'
<1>1. /\ \A u \in Range(bus) : u = t \/ u \in Range(bus')
      /\ r.phase \in Posted => t \in Range(bus')
  BY BusKeeps DEF PcInv, PcTypes
<1>2. thread'[t] = r /\ \A u \in Threads : u # t => thread'[u] = thread[u]
  BY DEF PcInv, PcTypes
<1> QED
  BY <1>1, <1>2 DEF PostsAreQueued, Posted

LEMMA NobodyPosts ==
  ASSUME PostsAreQueued, UNCHANGED <<thread, bus>>
  PROVE  PostsAreQueued'
BY DEF PostsAreQueued

\* A thread that goes on without the bus.
LEMMA OneThreadWorks ==
  ASSUME PcInv, PostsAreQueued, NEW t \in Threads, UNCHANGED bus,
         \A u \in Threads : u # t => thread'[u] = thread[u],
         thread'[t].phase \notin Posted
  PROVE  PostsAreQueued'
BY DEF PostsAreQueued, Posted

LEMMA FinalizesQueued ==
  ASSUME PcInv, PostsAreQueued, NEW t \in Threads, Finalizes(t)
  PROVE  PostsAreQueued'
BY OneThreadPosts DEF Finalizes

LEMMA PostsQueued ==
  ASSUME PcInv, PostsAreQueued, NEW t \in Threads, NEW h, NEW state, NEW data,
         Posts(t, h, state, data)
  PROVE  PostsAreQueued'
<1>1. \A u \in Threads : u # t => thread'[u] = thread[u]
  BY DEF Posts, PcInv, PcTypes
<1>2. bus' = Append(bus, t)
  BY DEF Posts
<1>3. /\ \A u \in Range(bus) : u = t \/ u \in Range(bus')
      /\ t \in Range(bus')
  BY <1>2, BusKeeps DEF PcInv, PcTypes
<1> QED
  BY <1>1, <1>3 DEF PostsAreQueued

LEMMA WorksQueued ==
  ASSUME PcInv, PostsAreQueued, NEW t \in Threads, Works(t)
  PROVE  PostsAreQueued'
<1>0. thread \in [Threads -> Thread]
  BY DEF PcInv, PcTypes
<1>1. CASE LooksUp(t)
  <2>1. CASE Found(thread[t].host) = Nothing
    BY <1>1, <2>1, FinalizesQueued DEF LooksUp
  <2>2. CASE Found(thread[t].host) # Nothing
    <3>1. /\ UNCHANGED bus /\ thread'[t].phase = "found"
          /\ \A u \in Threads : u # t => thread'[u] = thread[u]
      BY <1>0, <1>1, <2>2 DEF LooksUp, Thread
    <3> QED
      BY <3>1, OneThreadWorks DEF Posted
  <2> QED
    BY <2>1, <2>2
<1>2. CASE Takes(t)
  <2>1. UNCHANGED bus
    BY <1>2 DEF Takes
  <2>2. \/ thread' = [thread EXCEPT ![t].phase = "asking", ![t].node = Nothing]
        \/ \E d \in FreshData : thread' = [thread EXCEPT ![t].phase = "asking", ![t].node = Nothing,
                                                         ![t].server = d]
        \/ thread' = [thread EXCEPT ![t].phase = "asking",
                                    ![t].server = node[thread[t].node].server]
    BY <1>2 DEF Takes
  <2>3. thread'[t].phase = "asking" /\ \A u \in Threads : u # t => thread'[u] = thread[u]
    BY <1>0, <2>2 DEF Thread
  <2> QED
    BY <2>1, <2>3, OneThreadWorks DEF Posted
<1>3. ASSUME NEW h \in Hosts, Learns(t, h) PROVE PostsAreQueued'
  BY <1>3, PostsQueued DEF Learns
<1>4. ASSUME NEW io \in BOOLEAN, Fails(t, io) PROVE PostsAreQueued'
  <2>1. CASE thread[t].kind = "update"
    BY <1>4, <2>1, PostsQueued DEF Fails
  <2>2. CASE thread[t].kind = "add"
    BY <1>4, <2>2, FinalizesQueued DEF Fails
  <2>3. CASE thread[t].kind = "discover"
    <3>1. PICK r : UNCHANGED bus /\ thread' = [thread EXCEPT ![t] = r] /\ r.phase \notin Posted
      <4>1. [thread[t] EXCEPT !.phase = "marking", !.node = FoundByAddr].phase = "marking"
        BY <1>0 DEF Thread
      <4>2. Idle.phase = "idle"
        BY DEF Idle
      <4> QED
        BY <1>4, <2>3, <4>1, <4>2 DEF Fails, Posted
    <3> QED
      BY <3>1, OneThreadPosts
  <2> QED
    BY <1>4, <2>1, <2>2, <2>3 DEF Fails
<1>5. ASSUME NEW ok \in BOOLEAN, Ends(t, ok) PROVE PostsAreQueued'
  <2>1. Finalizes(t) \/ \E data : Posts(t, thread[t].host, "online", data)
    BY <1>5 DEF Ends
  <2> QED
    BY <2>1, FinalizesQueued, PostsQueued
<1>6. CASE t = Mdns /\ Marks
  BY <1>6, OneThreadPosts DEF Marks, Idle, Posted
<1> QED
  BY <1>1, <1>2, <1>3, <1>4, <1>5, <1>6 DEF Works

LEMMA NextQueued == PcInv /\ PostsAreQueued /\ [Next]_vars => PostsAreQueued'
<1> SUFFICES ASSUME PcInv, PostsAreQueued, [Next]_vars PROVE PostsAreQueued'
  OBVIOUS
<1>1. ASSUME NEW t \in Executor, NEW k \in Kinds, NEW h \in Hosts, Requests(t, k, h)
      PROVE  PostsAreQueued'
  <2>1. t \in Threads
    BY DEF Threads
  <2>2. [Idle EXCEPT !.kind = k, !.host = h, !.phase = "queued"].phase = "queued"
    BY DEF Idle
  <2> QED
    BY <1>1, <2>1, <2>2, OneThreadPosts DEF Requests, Posted
<1>2. ASSUME NEW t \in Executor, Adds(t) PROVE PostsAreQueued'
  <2>1. t \in Threads
    BY DEF Threads
  <2>2. [Idle EXCEPT !.kind = "add", !.phase = "asking"].phase = "asking"
    BY DEF Idle
  <2> QED
    BY <1>2, <2>1, <2>2, OneThreadPosts DEF Adds, Posted
<1>3. ASSUME NEW h \in Hosts, Forgets(h) PROVE PostsAreQueued'
  BY <1>3, NobodyPosts DEF Forgets
<1>4. ASSUME NEW h \in Hosts, Discovers(h) PROVE PostsAreQueued'
  <2>1. Mdns \in Threads
    BY DEF Threads
  <2>2. [Idle EXCEPT !.kind = "discover", !.host = h, !.phase = "asking"].phase = "asking"
    BY DEF Idle
  <2> QED
    BY <1>4, <2>1, <2>2, OneThreadPosts DEF Discovers, Posted
<1>5. ASSUME NEW t \in Threads, Serves(t) PROVE PostsAreQueued'
  <2>1. CASE Upserts(t)
    BY <2>1, OneThreadPosts DEF Upserts, Idle, Posted
  <2>2. CASE UpsertMisuses(t)
    BY <2>2, NobodyPosts DEF UpsertMisuses, Aborts
  <2>3. CASE Answers(t)
    BY <2>3, OneThreadPosts DEF Answers, Idle, Posted
  <2> QED
    BY <1>5, <2>1, <2>2, <2>3 DEF Serves
<1>6. ASSUME NEW h \in Hosts, LookUpAborts(h) PROVE PostsAreQueued'
  BY <1>6, NobodyPosts DEF LookUpAborts, Aborts
<1>7. CASE UNCHANGED vars
  BY <1>7, NobodyPosts DEF vars
<1> QED
  BY <1>1, <1>2, <1>3, <1>4, <1>5, <1>6, <1>7, WorksQueued DEF Next

(* A thread that waits in app_bus_post_sync is in the bus: no action it waits for is lost, *)
(* whatever is forgotten, replaced or answered before it.                                  *)
THEOREM WaitersAreServed == Spec => []PostsAreQueued
<1>1. Init => PostsAreQueued
  BY DEF Init, PostsAreQueued, Idle
<1> QED
  BY <1>1, NextQueued, PcInvariance, PTL DEF Spec

(* The list of hosts is one of different hosts, and every SERVER_DATA has one owner, a    *)
(* node of it or the thread that brings it, however the answers of the threads, the       *)
(* announcements and the user's pcmanager_forget follow each other on the main thread.    *)
THEOREM HostsStayInOrder == Spec => []HostsInOrder
<1>1. ASSUME PcInv PROVE OneNodePerHost
  <2>1. Cardinality(Range(bus)) = Len(bus)
    BY <1>1, Waiting DEF PcInv, PcTypes, BusWaits
  <2>2. PcTypeOK
    BY <1>1, <2>1 DEF PcInv, PcTypes, PcTypeOK
  <2> QED
    BY <1>1, <2>2 DEF PcInv, ListDistinct, OneNodePerHost
<1>2. ASSUME PcInv PROVE ServersOwnedOnce
  <2> USE <1>2 DEF PcInv
  <2> SUFFICES ASSUME NEW d \in Data
               PROVE  Cardinality(Owners(d)) = IF uuid[d] = Nothing THEN 0 ELSE 1
    BY DEF ServersOwnedOnce
  <2>0. d # Nothing /\ Listed \subseteq Nodes
    BY IdleThread, PcAssumption
  <2> DEFINE N == {n \in Listed : node[n].server = d}
             T == {t \in Threads : thread[t].server = d /\ thread[t].kind \notin {"quit", "wol"}}
  <2>1. Owners(d) = N \cup T
    BY DEF Owners
  <2>2. T = {t \in Threads : Owns(t) /\ thread[t].server = d}
    BY <2>0 DEF Owns, Reading
  <2>3. N = {n \in Nodes : node[n].server = d}
    BY <2>0 DEF NodesTell, Blank
  <2> HIDE DEF N, T
  <2>4. CASE uuid[d] = Nothing
    <3>1. T = {}
      BY <2>2, <2>4 DEF OwnersDiffer
    <3>2. N = {}
      BY <2>0, <2>3, <2>4 DEF NodesTell
    <3> QED
      BY <2>1, <2>4, <3>1, <3>2, FS_EmptySet
  <2>5. CASE uuid[d] # Nothing
    <3>1. N # {} \/ T # {}
      BY <2>2, <2>3, <2>5 DEF NothingLost
    <3>2. N = {} \/ T = {}
      BY <2>2, <2>3 DEF OwnersDiffer
    <3>3. \A n, m \in N : n = m
      <4>1. \A n \in N : n \in Listed /\ node[n].id = uuid[d]
        BY <2>0, <2>3 DEF NodesTell, Blank
      <4> QED
        BY <4>1, ListedDiffer
    <3>4. \A t, u \in T : t = u
      BY <2>2 DEF OwnersDiffer
    <3>5. PICK o : Owners(d) = {o}
      BY <2>1, <3>1, <3>2, <3>3, <3>4
    <3>6. Cardinality({o}) = 1
      BY FS_Singleton
    <3> QED
      BY <2>5, <3>5, <3>6
  <2> QED
    BY <2>4, <2>5
<1> QED
  BY <1>1, <1>2, PcInvariance, WaitersAreServed, PTL DEF HostsInOrder

=============================================================================
