-------------------------- MODULE CtmMessagesProofs --------------------------
(***************************************************************************)
(* The messages of a bridged controller, for rings of any size and any      *)
(* number of messages and connections: the payloads are freed once, each    *)
(* ring is the queue it should be, nothing outlives its connection, and     *)
(* messages come in their order.                                            *)
(***************************************************************************)
EXTENDS CtmMessages, TLAPS

-----------------------------------------------------------------------------
(* What the operators of Ring do to the messages of a ring, for a ring of    *)
(* any size. The arithmetic modulo Cap is confined to three lemmas.          *)

(* The indices of the slots ((head + count) % CAP in the code) fall in the array.   *)
LEMMA AtIsSlot ==
  ASSUME NEW M, NEW r \in Rings(M), NEW i \in Nat
  PROVE  At(r, i) \in Slots
  BY RingAssumption DEF At, Slots, Rings

(* Two messages that are less than Cap apart are not in one slot.                   *)
LEMMA SlotsDiffer ==
  ASSUME NEW M, NEW r \in Rings(M), NEW i \in 0..(Cap - 1), NEW j \in 0..(Cap - 1), i # j
  PROVE  At(r, i) # At(r, j)
<1>1. r.head \in 0..(Cap - 1) /\ Cap \in Nat \ {0}
  BY RingAssumption DEF Rings, Slots
<1>2. At(r, i) = IF r.head + i < Cap THEN r.head + i ELSE r.head + i - Cap
  BY <1>1 DEF At
<1>3. At(r, j) = IF r.head + j < Cap THEN r.head + j ELSE r.head + j - Cap
  BY <1>1 DEF At
<1> QED
  BY <1>1, <1>2, <1>3

(* Once the oldest is taken, the next is the oldest.                                *)
LEMMA TakenShifts ==
  ASSUME NEW M, NEW r \in Rings(M), NEW i \in 0..(Cap - 1)
  PROVE  At(Taken(r), i) = At(r, i + 1)
<1>1. r.head \in 0..(Cap - 1) /\ Cap \in Nat \ {0}
  BY RingAssumption DEF Rings, Slots
<1>2. At(r, 1) = IF r.head + 1 < Cap THEN r.head + 1 ELSE 0
  BY <1>1 DEF At
<1>3. At(Taken(r), i) = (At(r, 1) + i) % Cap
  BY DEF At, Taken
<1>4. CASE r.head + 1 < Cap
  BY <1>1, <1>2, <1>3, <1>4 DEF At
<1>5. CASE r.head + 1 = Cap
  <2>1. At(Taken(r), i) = i
    <3>1. At(r, 1) = 0
      BY <1>1, <1>2, <1>5
    <3>2. i % Cap = i /\ 0 + i = i
      BY <1>1
    <3> QED
      BY <1>3, <3>1, <3>2
  <2>2. At(r, i + 1) = i
    BY <1>1, <1>5 DEF At
  <2> QED
    BY <2>1, <2>2
<1> QED
  BY <1>1, <1>4, <1>5

(* The content is a sequence of count messages.                                     *)
LEMMA ContentIsSeq ==
  ASSUME NEW M, NEW r \in Rings(M)
  PROVE  /\ Content(r) \in Seq(M \cup {Free})
         /\ Len(Content(r)) = r.count
         /\ \A i \in 1..r.count : Content(r)[i] = r.slots[At(r, i - 1)]
<1>1. r.count \in Nat
  BY RingAssumption DEF Rings
<1>2. \A i \in 1..r.count : r.slots[At(r, i - 1)] \in M \cup {Free}
  BY <1>1, AtIsSlot DEF Rings
<1> QED
  BY <1>1, <1>2 DEF Content

(* An empty ring is a ring.                                                         *)
LEMMA EmptyIsRing ==
  ASSUME NEW M
  PROVE  EmptyRing \in Rings(M) /\ Content(EmptyRing) = <<>> /\ PayloadsOwned(EmptyRing)
  BY RingAssumption DEF EmptyRing, Rings, Slots, Content, PayloadsOwned

(* Taking the oldest message leaves a ring with the others in their order.          *)
LEMMA TakenContent ==
  ASSUME NEW M, NEW r \in Rings(M), r.count > 0
  PROVE  /\ Taken(r) \in Rings(M)
         /\ Content(r) # <<>>
         /\ Oldest(r) = Content(r)[1]
         /\ Content(Taken(r)) = Tail(Content(r))
<1> DEFINE t == Taken(r)
<1>1. r.head \in Slots /\ r.count \in 1..Cap /\ Cap \in Nat \ {0} /\ r.slots \in [Slots -> M \cup {Free}]
  BY RingAssumption DEF Rings
<1>2. t \in Rings(M)
  <2>1. [r.slots EXCEPT ![r.head] = Free] \in [Slots -> M \cup {Free}]
    BY <1>1
  <2>2. At(r, 1) \in Slots /\ r.count - 1 \in 0..Cap
    BY <1>1, AtIsSlot
  <2> QED
    BY <2>1, <2>2 DEF Taken, Rings
<1>3. At(r, 0) = r.head
  BY <1>1 DEF At, Slots
<1>4. \A i \in 1..(r.count - 1) : Content(t)[i] = Content(r)[i + 1]
  <2> SUFFICES ASSUME NEW i \in 1..(r.count - 1) PROVE Content(t)[i] = Content(r)[i + 1]
    OBVIOUS
  <2>1. Content(t)[i] = t.slots[At(t, i - 1)]
    BY <1>1, <1>2, ContentIsSeq DEF Taken
  <2>2. At(t, i - 1) = At(r, i)
    BY <1>1, TakenShifts
  <2>3. At(r, i) # At(r, 0) /\ At(r, i) \in Slots
    BY <1>1, SlotsDiffer, AtIsSlot
  <2>4. t.slots[At(r, i)] = r.slots[At(r, i)]
    BY <1>1, <1>3, <2>3 DEF Taken
  <2>5. Content(r)[i + 1] = r.slots[At(r, i)]
    <3>1. i + 1 \in 1..r.count /\ (i + 1) - 1 = i
      BY <1>1
    <3>2. Content(r)[i + 1] = r.slots[At(r, (i + 1) - 1)]
      BY <3>1, ContentIsSeq
    <3> QED
      BY <3>1, <3>2
  <2> QED
    BY <2>1, <2>2, <2>4, <2>5
<1>5. Len(Content(t)) = r.count - 1 /\ Content(t) \in Seq(M \cup {Free})
  BY <1>2, ContentIsSeq DEF Taken
<1>6. Content(t) = Tail(Content(r))
  BY <1>1, <1>4, <1>5, ContentIsSeq
<1>7. Content(r) # <<>>
  <2>1. Len(Content(r)) = r.count /\ Len(<<>>) = 0
    BY ContentIsSeq
  <2> QED
    BY <1>1, <2>1
<1>8. Oldest(r) = Content(r)[1]
  <2>1. 1 \in 1..r.count /\ 1 - 1 = 0
    BY <1>1
  <2>2. Content(r)[1] = r.slots[At(r, 1 - 1)]
    BY <2>1, ContentIsSeq
  <2> QED
    BY <1>3, <2>1, <2>2 DEF Oldest
<1> QED
  BY <1>2, <1>6, <1>7, <1>8

(* A message added to a ring with room comes after the others.                      *)
LEMMA AddedContent ==
  ASSUME NEW M, NEW r \in Rings(M), NEW m \in M, r.count < Cap
  PROVE  /\ Added(r, m) \in Rings(M)
         /\ Content(Added(r, m)) = Append(Content(r), m)
<1> DEFINE t == Added(r, m)
<1>1. r.head \in Slots /\ r.count \in 0..(Cap - 1) /\ Cap \in Nat \ {0} /\ r.slots \in [Slots -> M \cup {Free}]
  BY RingAssumption DEF Rings
<1>2. t = [slots |-> [r.slots EXCEPT ![At(r, r.count)] = m], head |-> r.head, count |-> r.count + 1]
  BY DEF Added
<1>3. t \in Rings(M)
  <2>1. [r.slots EXCEPT ![At(r, r.count)] = m] \in [Slots -> M \cup {Free}]
    BY <1>1
  <2>2. r.count + 1 \in 0..Cap
    BY <1>1
  <2> QED
    BY <1>1, <2>1, <2>2 DEF Added, Rings
<1>4. \A i \in 0..r.count : At(t, i) = At(r, i)
  BY <1>2 DEF At
<1> HIDE DEF t
<1>5. /\ Content(r) \in Seq(M \cup {Free}) /\ Len(Content(r)) = r.count
      /\ \A i \in 1..r.count : Content(r)[i] = r.slots[At(r, i - 1)]
  BY ContentIsSeq
<1>6. /\ Content(t) \in Seq(M \cup {Free}) /\ Len(Content(t)) = r.count + 1
      /\ \A i \in 1..(r.count + 1) : Content(t)[i] = t.slots[At(t, i - 1)]
  <2>1. t.count = r.count + 1
    BY <1>2
  <2> QED
    BY <1>3, <2>1, ContentIsSeq
<1>7. \A i \in 1..r.count : Content(t)[i] = Content(r)[i]
  <2> SUFFICES ASSUME NEW i \in 1..r.count PROVE Content(t)[i] = Content(r)[i]
    OBVIOUS
  <2>1. Content(t)[i] = t.slots[At(t, i - 1)] /\ At(t, i - 1) = At(r, i - 1)
    BY <1>1, <1>4, <1>6
  <2>2. At(r, i - 1) # At(r, r.count) /\ At(r, i - 1) \in Slots
    BY <1>1, SlotsDiffer, AtIsSlot
  <2>3. t.slots[At(r, i - 1)] = r.slots[At(r, i - 1)]
    BY <1>1, <1>2, <2>2
  <2> QED
    BY <1>5, <2>1, <2>3
<1>8. Content(t)[r.count + 1] = m
  <2>1. Content(t)[r.count + 1] = t.slots[At(r, r.count)]
    BY <1>1, <1>4, <1>6
  <2> QED
    BY <1>1, <1>2, <2>1, AtIsSlot
<1>9. Content(t) = Append(Content(r), m)
  <2>1. Append(Content(r), m) \in Seq(M \cup {Free}) /\ Len(Append(Content(r), m)) = r.count + 1
    BY <1>5
  <2>2. \A i \in 1..(r.count + 1) : Content(t)[i] = Append(Content(r), m)[i]
    BY <1>1, <1>7, <1>8, <1>5
  <2> QED
    BY <1>1, <1>6, <2>1, <2>2
<1> QED
  BY <1>3, <1>9 DEF t

(* Putting a message into a ring is putting it at the end of a queue of at most Cap *)
(* messages that loses its oldest.                                                  *)
LEMMA PutContent ==
  ASSUME NEW M, NEW r \in Rings(M), NEW m \in M
  PROVE  /\ Put(r, m) \in Rings(M)
         /\ Content(Put(r, m)) = Append(IF r.count < Cap THEN Content(r) ELSE Tail(Content(r)), m)
<1>1. r.count \in 0..Cap /\ Cap \in Nat \ {0}
  BY RingAssumption DEF Rings
<1>2. CASE r.count < Cap
  BY <1>1, <1>2, AddedContent DEF Put, WithRoom
<1>3. CASE r.count = Cap
  <2>1. Taken(r) \in Rings(M) /\ Content(Taken(r)) = Tail(Content(r))
    BY <1>1, <1>3, TakenContent
  <2>2. Taken(r).count < Cap
    BY <1>1, <1>3 DEF Taken
  <2>3. Put(r, m) = Added(Taken(r), m)
    BY <1>1, <1>3 DEF Put, WithRoom
  <2>4. Put(r, m) \in Rings(M) /\ Content(Put(r, m)) = Append(Content(Taken(r)), m)
    BY <2>1, <2>2, <2>3, AddedContent
  <2> QED
    BY <1>1, <1>3, <2>1, <2>4
<1> QED
  BY <1>1, <1>2, <1>3

-----------------------------------------------------------------------------
(* Taking a message clears its slot and no other.                                   *)
LEMMA TakenOwned ==
  ASSUME NEW M, NEW r \in Rings(M), r.count > 0, PayloadsOwned(r)
  PROVE  PayloadsOwned(Taken(r))
<1> DEFINE t == Taken(r)
<1>1. r.head \in Slots /\ r.count \in 1..Cap /\ Cap \in Nat \ {0} /\ r.slots \in [Slots -> M \cup {Free}]
  BY RingAssumption DEF Rings
<1>2. At(r, 0) = r.head
  BY <1>1 DEF At, Slots
<1>3. t.count = r.count - 1 /\ t.slots = [r.slots EXCEPT ![r.head] = Free]
  BY DEF Taken
<1> SUFFICES ASSUME NEW i \in Slots
             PROVE  t.slots[i] # Free <=> \E j \in 0..(t.count - 1) : i = At(t, j)
  BY DEF PayloadsOwned
<1>4. ASSUME t.slots[i] # Free PROVE \E j \in 0..(t.count - 1) : i = At(t, j)
  <2>1. i # r.head /\ r.slots[i] # Free
    BY <1>1, <1>3, <1>4
  <2>2. PICK j \in 0..(r.count - 1) : i = At(r, j)
    BY <2>1 DEF PayloadsOwned
  <2>3. j - 1 \in 0..(t.count - 1) /\ j \in 1..(Cap - 1)
    BY <1>1, <1>2, <1>3, <2>1, <2>2
  <2>4. At(t, j - 1) = At(r, j)
    BY <1>1, <2>3, TakenShifts
  <2> QED
    BY <2>2, <2>3, <2>4
<1>5. ASSUME NEW j \in 0..(t.count - 1), i = At(t, j) PROVE t.slots[i] # Free
  <2>1. i = At(r, j + 1)
    BY <1>1, <1>3, <1>5, TakenShifts
  <2>2. i # r.head
    BY <1>1, <1>2, <1>3, <2>1, SlotsDiffer
  <2>3. r.slots[i] # Free
    BY <1>1, <1>3, <2>1 DEF PayloadsOwned
  <2> QED
    BY <1>1, <1>3, <2>2, <2>3
<1> QED
  BY <1>4, <1>5

(* Adding a message fills one slot, which held none.                                *)
LEMMA AddedOwned ==
  ASSUME NEW M, Free \notin M, NEW r \in Rings(M), NEW m \in M, r.count < Cap, PayloadsOwned(r)
  PROVE  PayloadsOwned(Added(r, m))
<1> DEFINE t == Added(r, m)
<1>1. r.head \in Slots /\ r.count \in 0..(Cap - 1) /\ Cap \in Nat \ {0} /\ r.slots \in [Slots -> M \cup {Free}]
  BY RingAssumption DEF Rings
<1>2. t = [slots |-> [r.slots EXCEPT ![At(r, r.count)] = m], head |-> r.head, count |-> r.count + 1]
  BY DEF Added
<1>3. \A i \in Nat : At(t, i) = At(r, i)
  BY <1>2 DEF At
<1> SUFFICES ASSUME NEW i \in Slots
             PROVE  t.slots[i] # Free <=> \E j \in 0..r.count : i = At(r, j)
  BY <1>1, <1>2, <1>3 DEF PayloadsOwned
<1>4. CASE i = At(r, r.count)
  BY <1>1, <1>2, <1>4
<1>5. CASE i # At(r, r.count)
  <2>1. t.slots[i] = r.slots[i]
    BY <1>1, <1>2, <1>5
  <2>2. r.slots[i] # Free <=> \E j \in 0..(r.count - 1) : i = At(r, j)
    BY DEF PayloadsOwned
  <2> QED
    BY <1>1, <1>5, <2>1, <2>2
<1> QED
  BY <1>4, <1>5

(* Putting a message frees the payload it drops and no other.                       *)
LEMMA PutOwned ==
  ASSUME NEW M, Free \notin M, NEW r \in Rings(M), NEW m \in M, PayloadsOwned(r)
  PROVE  PayloadsOwned(Put(r, m))
<1>1. r.count \in 0..Cap /\ Cap \in Nat \ {0}
  BY RingAssumption DEF Rings
<1>2. CASE r.count < Cap
  BY <1>1, <1>2, AddedOwned DEF Put, WithRoom
<1>3. CASE r.count = Cap
  <2>1. Taken(r) \in Rings(M) /\ PayloadsOwned(Taken(r))
    BY <1>1, <1>3, TakenContent, TakenOwned
  <2>2. Taken(r).count < Cap
    BY <1>1, <1>3 DEF Taken
  <2>3. Put(r, m) = Added(Taken(r), m)
    BY <1>1, <1>3 DEF Put, WithRoom
  <2> QED
    BY <2>1, <2>2, <2>3, AddedOwned
<1> QED
  BY <1>1, <1>2, <1>3

-----------------------------------------------------------------------------
(* The messages.                                                             *)

\* The queues are empty between two connections.
ProbingIsEmpty ==
    /\ session = "probing" =>
          /\ ~connected /\ ~up
          /\ outbox.count = 0 /\ inbox.count = 0 /\ paced.count = 0
    /\ session # "probing" => conn > 0

\* The inductive invariant of the proofs below.
MessagesInv ==
    /\ MessagesTypeOK
    /\ PayloadsFreedOnce
    /\ ProbingIsEmpty
    /\ NothingStale

(* The oldest message of a ring that holds one is a message.                        *)
LEMMA OldestIsMessage ==
  ASSUME NEW M, NEW r \in Rings(M), r.count > 0, PayloadsOwned(r)
  PROVE  Oldest(r) \in M
<1>1. r.head \in Slots /\ r.count \in 1..Cap /\ Cap \in Nat \ {0} /\ r.slots \in [Slots -> M \cup {Free}]
  BY RingAssumption DEF Rings
<1>2. r.head = At(r, 0)
  BY <1>1 DEF At, Slots
<1>3. 0 \in 0..(r.count - 1)
  BY <1>1
<1>4. r.slots[r.head] # Free
  BY <1>1, <1>2, <1>3 DEF PayloadsOwned
<1> QED
  BY <1>1, <1>4 DEF Oldest

(* No message is the mark of a free slot.                                           *)
LEMMA FreeIsNoMessage == Free \notin Outgoing /\ Free \notin Incoming
  BY MessagesAssumption

(* Adding a message of a connection, or taking one away, leaves messages of it.     *)
LEMMA AppendCurrent ==
  ASSUME NEW S, NEW s \in Seq(S), NEW m \in S, NEW c, m.conn = c,
         \A i \in DOMAIN s : s[i].conn = c
  PROVE  \A i \in DOMAIN Append(s, m) : Append(s, m)[i].conn = c
  OBVIOUS

LEMMA TailCurrent ==
  ASSUME NEW S, NEW s \in Seq(S), s # <<>>, NEW c, \A i \in DOMAIN s : s[i].conn = c
  PROVE  /\ Tail(s) \in Seq(S) /\ Head(s) \in S /\ Head(s).conn = c
         /\ \A i \in DOMAIN Tail(s) : Tail(s)[i].conn = c
<1>1. /\ Tail(s) \in Seq(S) /\ Head(s) \in S /\ Head(s) = s[1] /\ 1 \in DOMAIN s
      /\ DOMAIN Tail(s) = 1..(Len(s) - 1) /\ DOMAIN s = 1..Len(s) /\ Len(s) \in Nat
      /\ \A i \in 1..(Len(s) - 1) : Tail(s)[i] = s[i + 1]
  OBVIOUS
<1> QED
  BY <1>1

(* Taking the oldest message of a ring of messages of one connection.               *)
LEMMA TakenCurrent ==
  ASSUME NEW M, NEW r \in Rings(M), r.count > 0, PayloadsOwned(r), NEW c,
         \A i \in DOMAIN Content(r) : Content(r)[i].conn = c
  PROVE  /\ Taken(r) \in Rings(M) /\ PayloadsOwned(Taken(r))
         /\ Oldest(r) \in M /\ Oldest(r).conn = c
         /\ \A i \in DOMAIN Content(Taken(r)) : Content(Taken(r))[i].conn = c
<1>1. Taken(r) \in Rings(M) /\ Content(r) # <<>> /\ Oldest(r) = Content(r)[1]
      /\ Content(Taken(r)) = Tail(Content(r))
  BY TakenContent
<1>2. Content(r) \in Seq(M \cup {Free})
  BY ContentIsSeq
<1>3. Head(Content(r)) = Content(r)[1]
  BY <1>1, <1>2
<1> QED
  BY <1>1, <1>2, <1>3, TailCurrent, TakenOwned, OldestIsMessage

(* Putting a message of the connection into a ring of its messages.                 *)
LEMMA PutCurrent ==
  ASSUME NEW M, Free \notin M, NEW r \in Rings(M), NEW m \in M, PayloadsOwned(r),
         NEW c, m.conn = c, \A i \in DOMAIN Content(r) : Content(r)[i].conn = c
  PROVE  /\ Put(r, m) \in Rings(M) /\ PayloadsOwned(Put(r, m))
         /\ \A i \in DOMAIN Content(Put(r, m)) : Content(Put(r, m))[i].conn = c
<1>1. Put(r, m) \in Rings(M) /\ PayloadsOwned(Put(r, m))
      /\ Content(Put(r, m)) = Append(IF r.count < Cap THEN Content(r) ELSE Tail(Content(r)), m)
  BY PutContent, PutOwned
<1>2. Content(r) \in Seq(M \cup {Free}) /\ Len(Content(r)) = r.count /\ r.count \in 0..Cap
      /\ Cap \in Nat \ {0}
  BY ContentIsSeq, RingAssumption DEF Rings
<1>3. CASE r.count < Cap
  BY <1>1, <1>2, <1>3, AppendCurrent
<1>4. CASE r.count = Cap
  <2>1. Content(r) # <<>>
    <3>1. Len(<<>>) = 0
      OBVIOUS
    <3> QED
      BY <1>2, <1>4, <3>1
  <2>2. Tail(Content(r)) \in Seq(M \cup {Free})
        /\ \A i \in DOMAIN Tail(Content(r)) : Tail(Content(r))[i].conn = c
    BY <1>2, <2>1, TailCurrent
  <2>3. Content(Put(r, m)) = Append(Tail(Content(r)), m)
    BY <1>1, <1>2, <1>4
  <2>4. \A i \in DOMAIN Append(Tail(Content(r)), m) : Append(Tail(Content(r)), m)[i].conn = c
    BY <2>2, AppendCurrent
  <2> QED
    BY <1>1, <2>3, <2>4
<1> QED
  BY <1>2, <1>3, <1>4

-----------------------------------------------------------------------------
(* What every ring of the state is, and what the rings become: the invariant in the *)
(* form in which the lemmas use it.                                                 *)
LEMMA InvRings ==
  ASSUME MessagesInv
  PROVE  /\ outbox \in Rings(Outgoing) /\ inbox \in Rings(Incoming) /\ paced \in Rings(Incoming)
         /\ PayloadsOwned(outbox) /\ PayloadsOwned(inbox) /\ PayloadsOwned(paced)
         /\ \A i \in DOMAIN Content(outbox) : Content(outbox)[i].conn = conn
         /\ \A i \in DOMAIN Content(inbox) : Content(inbox)[i].conn = conn
         /\ \A i \in DOMAIN Content(paced) : Content(paced)[i].conn = conn
         /\ \A i \in DOMAIN wire : wire[i].conn = conn
         /\ \A i \in DOMAIN asked : asked[i].conn = conn
         /\ wire \in Seq(Outgoing) /\ asked \in Seq(Incoming)
         /\ sendSequence \in Nat /\ conn \in 0..MaxConn /\ requests \in 0..MaxRequest
         /\ session # "probing" => conn \in Nat \ {0}
  BY MessagesAssumption
     DEF MessagesInv, MessagesTypeOK, PayloadsFreedOnce, NothingStale, Current, ProbingIsEmpty

(* A message that is sent keeps the outbox in order.                                *)
LEMMA QueuedCurrent ==
  ASSUME MessagesInv, session # "probing", NEW kind \in {"report", "reply"}
  PROVE  /\ Queued(kind) \in Rings(Outgoing) /\ PayloadsOwned(Queued(kind))
         /\ \A i \in DOMAIN Content(Queued(kind)) : Content(Queued(kind))[i].conn = conn
<1> DEFINE m == [seq |-> sendSequence + 1, kind |-> kind, conn |-> conn]
<1>1. m \in Outgoing /\ m.conn = conn
  BY InvRings DEF Outgoing
<1>2. Queued(kind) = Put(outbox, m)
  BY DEF Queued
<1> HIDE DEF m
<1> QED
  BY <1>1, <1>2, InvRings, PutCurrent, FreeIsNoMessage

(* Nothing travels at first, nor after a loss of the link.                          *)
LEMMA NothingTravels == <<>> \in Seq(Outgoing) /\ <<>> \in Seq(Incoming)
  OBVIOUS

(* The rings are empty at first.                                                    *)
LEMMA InitInv == Init => MessagesInv
<1> SUFFICES ASSUME Init PROVE MessagesInv
  OBVIOUS
<1>1. EmptyRing \in Rings(Outgoing) /\ EmptyRing \in Rings(Incoming)
      /\ Content(EmptyRing) = <<>> /\ PayloadsOwned(EmptyRing) /\ EmptyRing.count = 0
  BY EmptyIsRing DEF EmptyRing
<1>2. MessagesTypeOK
  <2>1. 0 \in 0..MaxConn /\ 0 \in 0..MaxRequest
    BY MessagesAssumption
  <2> QED
    BY <1>1, <2>1, NothingTravels DEF Init, MessagesTypeOK
<1>3. PayloadsFreedOnce /\ ProbingIsEmpty
  BY <1>1 DEF Init, PayloadsFreedOnce, ProbingIsEmpty
<1>4. NothingStale
  BY <1>1 DEF Init, NothingStale, Current
<1> QED
  BY <1>2, <1>3, <1>4 DEF MessagesInv

USE DEF Go, queues, counts, seen

(* Each step of the readers, the session thread, ENet and the PC keeps the          *)
(* invariant.                                                                       *)
LEMMA NextInv == MessagesInv /\ [Next]_vars => MessagesInv'
<1> SUFFICES ASSUME MessagesInv, [Next]_vars PROVE MessagesInv'
  OBVIOUS
<1> USE InvRings
<1>1. CASE Reports
  <2>1. session # "probing"
    BY <1>1 DEF Reports, MessagesInv, ProbingIsEmpty
  <2>2. /\ outbox' \in Rings(Outgoing) /\ PayloadsOwned(outbox')
        /\ \A i \in DOMAIN Content(outbox') : Content(outbox')[i].conn = conn
    BY <1>1, <2>1, QueuedCurrent DEF Reports
  <2>3. MessagesTypeOK'
    BY <1>1, <2>2 DEF Reports, MessagesInv, MessagesTypeOK
  <2>4. PayloadsFreedOnce' /\ ProbingIsEmpty'
    BY <1>1, <2>1, <2>2 DEF Reports, MessagesInv, PayloadsFreedOnce, ProbingIsEmpty
  <2>5. NothingStale'
    BY <1>1, <2>2 DEF Reports, NothingStale, Current
  <2> QED
    BY <2>3, <2>4, <2>5 DEF MessagesInv
<1>2. CASE Connects
  <2>1. outbox.count = 0 /\ inbox.count = 0 /\ paced.count = 0
    BY <1>2 DEF Connects, MessagesInv, ProbingIsEmpty
  <2>2. MessagesTypeOK'
    BY <1>2, MessagesAssumption, NothingTravels DEF Connects, MessagesInv, MessagesTypeOK
  <2>3. PayloadsFreedOnce' /\ ProbingIsEmpty'
    BY <1>2 DEF Connects, MessagesInv, PayloadsFreedOnce, ProbingIsEmpty
  <2>4. NothingStale'
    BY <1>2, <2>1 DEF Connects, NothingStale, Current, Content
  <2> QED
    BY <2>2, <2>3, <2>4 DEF MessagesInv
<1>3. CASE ConnectFails
  <2>1. EmptyRing \in Rings(Outgoing) /\ EmptyRing \in Rings(Incoming)
        /\ Content(EmptyRing) = <<>> /\ PayloadsOwned(EmptyRing) /\ EmptyRing.count = 0
    BY EmptyIsRing DEF EmptyRing
  <2>2. MessagesTypeOK'
    BY <1>3, <2>1 DEF ConnectFails, MessagesInv, MessagesTypeOK
  <2>3. PayloadsFreedOnce' /\ ProbingIsEmpty'
    BY <1>3, <2>1 DEF ConnectFails, MessagesInv, PayloadsFreedOnce, ProbingIsEmpty
  <2>4. NothingStale'
    BY <1>3, <2>1 DEF ConnectFails, NothingStale, Current
  <2> QED
    BY <2>2, <2>3, <2>4 DEF MessagesInv
<1>4. CASE Drains
  <2>1. /\ paced' \in Rings(Incoming) /\ PayloadsOwned(paced')
        /\ Oldest(paced) \in Incoming
        /\ \A i \in DOMAIN Content(paced') : Content(paced')[i].conn = conn
    <3>1. paced.count > 0 /\ paced' = Taken(paced)
      BY <1>4 DEF Drains
    <3>2. /\ Taken(paced) \in Rings(Incoming) /\ PayloadsOwned(Taken(paced))
          /\ Oldest(paced) \in Incoming /\ Oldest(paced).conn = conn
          /\ \A i \in DOMAIN Content(Taken(paced)) : Content(Taken(paced))[i].conn = conn
      BY <3>1, TakenCurrent
    <3> QED
      BY <3>1, <3>2
  <2>2. MessagesTypeOK'
    BY <1>4, <2>1 DEF Drains, MessagesInv, MessagesTypeOK, Incoming
  <2>3. PayloadsFreedOnce' /\ ProbingIsEmpty'
    BY <1>4, <2>1 DEF Drains, MessagesInv, PayloadsFreedOnce, ProbingIsEmpty
  <2>4. NothingStale'
    BY <1>4, <2>1 DEF Drains, NothingStale, Current
  <2> QED
    BY <2>2, <2>3, <2>4 DEF MessagesInv
<1>5. CASE DrainEnds \/ FlushEnds \/ PollEnds \/ HandleEnds \/ Drops
  <2>1. MessagesTypeOK'
    BY <1>5 DEF DrainEnds, FlushEnds, PollEnds, HandleEnds, Drops, MessagesInv, MessagesTypeOK
  <2>2. PayloadsFreedOnce' /\ ProbingIsEmpty'
    BY <1>5 DEF DrainEnds, FlushEnds, PollEnds, HandleEnds, Drops, MessagesInv, PayloadsFreedOnce, ProbingIsEmpty
  <2>3. NothingStale'
    BY <1>5 DEF DrainEnds, FlushEnds, PollEnds, HandleEnds, Drops, NothingStale, Current
  <2> QED
    BY <2>1, <2>2, <2>3 DEF MessagesInv
<1>6. CASE Flushes
  <2>1. /\ outbox' \in Rings(Outgoing) /\ PayloadsOwned(outbox')
        /\ Oldest(outbox) \in Outgoing /\ Oldest(outbox).conn = conn
        /\ \A i \in DOMAIN Content(outbox') : Content(outbox')[i].conn = conn
    <3>1. outbox.count > 0 /\ outbox' = Taken(outbox)
      BY <1>6 DEF Flushes
    <3>2. /\ Taken(outbox) \in Rings(Outgoing) /\ PayloadsOwned(Taken(outbox))
          /\ Oldest(outbox) \in Outgoing /\ Oldest(outbox).conn = conn
          /\ \A i \in DOMAIN Content(Taken(outbox)) : Content(Taken(outbox))[i].conn = conn
      BY <3>1, TakenCurrent
    <3> QED
      BY <3>1, <3>2
  <2>2. wire' \in Seq(Outgoing) /\ \A i \in DOMAIN wire' : wire'[i].conn = conn
    <3>1. Append(wire, Oldest(outbox)) \in Seq(Outgoing)
          /\ \A i \in DOMAIN Append(wire, Oldest(outbox)) : Append(wire, Oldest(outbox))[i].conn = conn
      BY <2>1, AppendCurrent
    <3> QED
      BY <1>6, <3>1 DEF Flushes
  <2>3. MessagesTypeOK'
    BY <1>6, <2>1, <2>2 DEF Flushes, MessagesInv, MessagesTypeOK
  <2>4. PayloadsFreedOnce' /\ ProbingIsEmpty'
    BY <1>6, <2>1 DEF Flushes, MessagesInv, PayloadsFreedOnce, ProbingIsEmpty
  <2>5. NothingStale'
    BY <1>6, <2>1, <2>2 DEF Flushes, NothingStale, Current
  <2> QED
    BY <2>3, <2>4, <2>5 DEF MessagesInv
<1>7. CASE Ingests
  <2>1. /\ Tail(asked) \in Seq(Incoming) /\ Head(asked) \in Incoming /\ Head(asked).conn = conn
        /\ \A i \in DOMAIN Tail(asked) : Tail(asked)[i].conn = conn
    BY <1>7, TailCurrent DEF Ingests
  <2>2. /\ inbox' \in Rings(Incoming) /\ PayloadsOwned(inbox')
        /\ \A i \in DOMAIN Content(inbox') : Content(inbox')[i].conn = conn
    <3>1. /\ inbox \in Rings(Incoming) /\ PayloadsOwned(inbox) /\ inbox' = Put(inbox, Head(asked))
          /\ \A i \in DOMAIN Content(inbox) : Content(inbox)[i].conn = conn
      BY <1>7 DEF Ingests
    <3> QED
      BY <2>1, <3>1, PutCurrent, FreeIsNoMessage
  <2>3. MessagesTypeOK'
    BY <1>7, <2>1, <2>2 DEF Ingests, MessagesInv, MessagesTypeOK
  <2>4. PayloadsFreedOnce' /\ ProbingIsEmpty'
    BY <1>7, <2>2 DEF Ingests, MessagesInv, PayloadsFreedOnce, ProbingIsEmpty
  <2>5. NothingStale'
    BY <1>7, <2>1, <2>2 DEF Ingests, NothingStale, Current
  <2> QED
    BY <2>3, <2>4, <2>5 DEF MessagesInv
<1>8. CASE Handles
  <2>1. /\ inbox' \in Rings(Incoming) /\ PayloadsOwned(inbox')
        /\ Oldest(inbox) \in Incoming /\ Oldest(inbox).conn = conn
        /\ \A i \in DOMAIN Content(inbox') : Content(inbox')[i].conn = conn
    <3>1. inbox.count > 0 /\ inbox' = Taken(inbox)
      BY <1>8 DEF Handles
    <3>2. /\ Taken(inbox) \in Rings(Incoming) /\ PayloadsOwned(Taken(inbox))
          /\ Oldest(inbox) \in Incoming /\ Oldest(inbox).conn = conn
          /\ \A i \in DOMAIN Content(Taken(inbox)) : Content(Taken(inbox))[i].conn = conn
      BY <3>1, TakenCurrent
    <3> QED
      BY <3>1, <3>2
  <2>2. /\ outbox' \in Rings(Outgoing) /\ PayloadsOwned(outbox') /\ sendSequence' \in Nat
        /\ \A i \in DOMAIN Content(outbox') : Content(outbox')[i].conn = conn
    BY <1>8, QueuedCurrent DEF Handles
  <2>3. /\ paced' \in Rings(Incoming) /\ PayloadsOwned(paced')
        /\ \A i \in DOMAIN Content(paced') : Content(paced')[i].conn = conn
    BY <1>8, <2>1, PutCurrent, FreeIsNoMessage DEF Handles
  <2>4. MessagesTypeOK'
    BY <1>8, <2>1, <2>2, <2>3 DEF Handles, MessagesInv, MessagesTypeOK, Incoming
  <2>5. PayloadsFreedOnce' /\ ProbingIsEmpty'
    BY <1>8, <2>1, <2>2, <2>3 DEF Handles, MessagesInv, PayloadsFreedOnce, ProbingIsEmpty
  <2>6. NothingStale'
    BY <1>8, <2>1, <2>2, <2>3 DEF Handles, NothingStale, Current
  <2> QED
    BY <2>4, <2>5, <2>6 DEF MessagesInv
<1>9. CASE Disconnects
  <2>1. EmptyRing \in Rings(Outgoing) /\ EmptyRing \in Rings(Incoming)
        /\ Content(EmptyRing) = <<>> /\ PayloadsOwned(EmptyRing) /\ EmptyRing.count = 0
    BY EmptyIsRing DEF EmptyRing
  <2>2. MessagesTypeOK'
    BY <1>9, <2>1, NothingTravels DEF Disconnects, MessagesInv, MessagesTypeOK
  <2>3. PayloadsFreedOnce' /\ ProbingIsEmpty'
    BY <1>9, <2>1 DEF Disconnects, MessagesInv, PayloadsFreedOnce, ProbingIsEmpty
  <2>4. NothingStale'
    BY <1>9, <2>1 DEF Disconnects, NothingStale, Current
  <2> QED
    BY <2>2, <2>3, <2>4 DEF MessagesInv
<1>10. CASE Travels
  <2>1. /\ Tail(wire) \in Seq(Outgoing) /\ Head(wire) \in Outgoing
        /\ \A i \in DOMAIN Tail(wire) : Tail(wire)[i].conn = conn
    BY <1>10, TailCurrent DEF Travels
  <2>2. MessagesTypeOK'
    BY <1>10, <2>1 DEF Travels, MessagesInv, MessagesTypeOK, Outgoing
  <2>3. PayloadsFreedOnce' /\ ProbingIsEmpty'
    BY <1>10 DEF Travels, MessagesInv, PayloadsFreedOnce, ProbingIsEmpty
  <2>4. NothingStale'
    BY <1>10, <2>1 DEF Travels, NothingStale, Current
  <2> QED
    BY <2>2, <2>3, <2>4 DEF MessagesInv
<1>11. ASSUME NEW kind \in {"output", "paced", "feature"}, Asks(kind) PROVE MessagesInv'
  <2> DEFINE m == [id |-> requests + 1, kind |-> kind, conn |-> conn]
  <2>1. session # "probing"
    BY <1>11 DEF Asks, MessagesInv, ProbingIsEmpty
  <2>2. m \in Incoming /\ m.conn = conn
    BY <1>11, <2>1, MessagesAssumption DEF Incoming
  <2>3. asked' = Append(asked, m)
    BY <1>11 DEF Asks
  <2> HIDE DEF m
  <2>4. asked' \in Seq(Incoming) /\ \A i \in DOMAIN asked' : asked'[i].conn = conn
    BY <2>2, <2>3, AppendCurrent
  <2>5. MessagesTypeOK'
    BY <1>11, <2>4, MessagesAssumption DEF Asks, MessagesInv, MessagesTypeOK
  <2>6. PayloadsFreedOnce' /\ ProbingIsEmpty'
    BY <1>11 DEF Asks, MessagesInv, PayloadsFreedOnce, ProbingIsEmpty
  <2>7. NothingStale'
    BY <1>11, <2>4 DEF Asks, NothingStale, Current
  <2> QED
    BY <2>5, <2>6, <2>7 DEF MessagesInv
<1>12. CASE LinkDrops
  <2>1. MessagesTypeOK'
    BY <1>12, NothingTravels DEF LinkDrops, MessagesInv, MessagesTypeOK
  <2>2. PayloadsFreedOnce' /\ ProbingIsEmpty'
    BY <1>12 DEF LinkDrops, MessagesInv, PayloadsFreedOnce, ProbingIsEmpty
  <2>3. NothingStale'
    BY <1>12 DEF LinkDrops, NothingStale, Current
  <2> QED
    BY <2>1, <2>2, <2>3 DEF MessagesInv
<1>13. CASE UNCHANGED vars
  BY <1>13 DEF vars, MessagesInv, MessagesTypeOK, PayloadsFreedOnce, ProbingIsEmpty, NothingStale, Current
<1> QED
  BY <1>1, <1>2, <1>3, <1>4, <1>5, <1>6, <1>7, <1>8, <1>9, <1>10, <1>11, <1>12, <1>13
     DEF Next, SessionStep

(* The invariant holds in every state.                                              *)
THEOREM MessagesInvariance == Spec => []MessagesInv
<1>1. Init => MessagesInv
  BY InitInv
<1>2. MessagesInv /\ [Next]_vars => MessagesInv'
  BY NextInv
<1> QED
  BY <1>1, <1>2, PTL DEF Spec

(* The rings of enet_transport.c and of the session keep within their arrays.       *)
THEOREM MessagesTypeCorrect == Spec => []MessagesTypeOK
<1>1. MessagesInv => MessagesTypeOK
  BY DEF MessagesInv
<1> QED
  BY <1>1, MessagesInvariance, PTL

(* No payload is freed twice or forgotten in a slot, whatever the size of the rings.*)
THEOREM PayloadsAreFreedOnce == Spec => []PayloadsFreedOnce
<1>1. MessagesInv => PayloadsFreedOnce
  BY DEF MessagesInv
<1> QED
  BY <1>1, MessagesInvariance, PTL

(* No message of a connection that was lost is sent or handled on the next.         *)
THEOREM NothingOutlivesItsConnection == Spec => []NothingStale
<1>1. MessagesInv => NothingStale
  BY DEF MessagesInv
<1> QED
  BY <1>1, MessagesInvariance, PTL

-----------------------------------------------------------------------------
(* The refinement: each step of the system is a step of each of the three queues.   *)

(* Putting is the queue's put.                                                      *)
LEMMA PutIsQPut ==
  ASSUME NEW M, NEW r \in Rings(M), NEW m \in M, NEW after, after = Content(Put(r, m))
  PROVE  /\ after # <<>>
         /\ SubSeq(after, 1, Len(after) - 1) =
              IF Len(Content(r)) < Cap THEN Content(r) ELSE Tail(Content(r))
<1> DEFINE before == IF r.count < Cap THEN Content(r) ELSE Tail(Content(r))
<1>1. Content(r) \in Seq(M \cup {Free}) /\ Len(Content(r)) = r.count /\ r.count \in 0..Cap
      /\ Cap \in Nat \ {0}
  BY ContentIsSeq, RingAssumption DEF Rings
<1>2. before \in Seq(M \cup {Free})
  <2>1. CASE r.count < Cap
    BY <1>1, <2>1
  <2>2. CASE ~(r.count < Cap)
    <3>1. Content(r) # <<>>
      <4>1. Len(<<>>) = 0
        OBVIOUS
      <4> QED
        BY <1>1, <2>2, <4>1
    <3> QED
      BY <1>1, <2>2, <3>1
  <2> QED
    BY <2>1, <2>2
<1>3. after = Append(before, m)
  BY PutContent
<1> HIDE DEF before
<1>4. Append(before, m) # <<>> /\ SubSeq(Append(before, m), 1, Len(Append(before, m)) - 1) = before
  <2>1. Append(before, m) \in Seq(M \cup {Free}) /\ Len(Append(before, m)) = Len(before) + 1
        /\ Len(before) \in Nat
    BY <1>2
  <2>2. \A i \in 1..Len(before) : Append(before, m)[i] = before[i]
    BY <1>2
  <2>3. Len(SubSeq(Append(before, m), 1, Len(before))) = Len(before)
        /\ \A i \in 1..Len(before) : SubSeq(Append(before, m), 1, Len(before))[i] = before[i]
    BY <2>1, <2>2
  <2>4. SubSeq(Append(before, m), 1, Len(before)) \in Seq(M \cup {Free})
    BY <2>1
  <2>5. SubSeq(Append(before, m), 1, Len(before)) = before
    BY <1>2, <2>1, <2>3, <2>4
  <2>6. Append(before, m) # <<>>
    <3>1. Len(<<>>) = 0
      OBVIOUS
    <3> QED
      BY <2>1, <3>1
  <2> QED
    BY <2>1, <2>5, <2>6
<1> QED
  BY <1>1, <1>3, <1>4 DEF before

(* The outbox: input thread and session thread share it.                            *)
LEMMA OutboxStep == MessagesInv /\ [Next]_vars => [Outbox!QNext]_(Content(outbox))
<1> SUFFICES ASSUME MessagesInv, [Next]_vars
             PROVE  Outbox!QNext \/ Content(outbox)' = Content(outbox)
  OBVIOUS
<1> USE InvRings
<1>1. ASSUME NEW kind \in {"report", "reply"}, session # "probing", outbox' = Queued(kind)
      PROVE  Outbox!QPut
  <2> DEFINE m == [seq |-> sendSequence + 1, kind |-> kind, conn |-> conn]
  <2>1. m \in Outgoing
    BY <1>1 DEF Outgoing
  <2>2. Content(outbox)' = Content(Put(outbox, m))
    BY <1>1 DEF Queued, Content, At
  <2> HIDE DEF m
  <2> QED
    BY <2>1, <2>2, PutIsQPut DEF Outbox!QPut
<1>2. CASE Reports
  <2>1. session # "probing"
    BY <1>2 DEF Reports, MessagesInv, ProbingIsEmpty
  <2> QED
    BY <1>1, <1>2, <2>1 DEF Reports, Outbox!QNext
<1>3. CASE Handles
  BY <1>1, <1>3 DEF Handles, Outbox!QNext, Content, At
<1>4. CASE Flushes
  <2>1. outbox' = Taken(outbox) /\ outbox.count > 0
    BY <1>4 DEF Flushes
  <2>2. Content(outbox)' = Content(Taken(outbox))
    BY <2>1 DEF Content, At
  <2>3. Content(outbox) # <<>> /\ Content(Taken(outbox)) = Tail(Content(outbox))
    BY <2>1, TakenContent
  <2> QED
    BY <2>2, <2>3 DEF Outbox!QNext, Outbox!QTake
<1>5. CASE ConnectFails \/ Disconnects
  <2>1. outbox' = EmptyRing
    BY <1>5 DEF ConnectFails, Disconnects
  <2>2. Content(outbox)' = <<>>
    BY <2>1 DEF Content, At, EmptyRing
  <2> QED
    BY <2>2 DEF Outbox!QNext, Outbox!QClear
<1>6. CASE UNCHANGED outbox
  BY <1>6 DEF Content, At
<1>7. Reports \/ Handles \/ Flushes \/ ConnectFails \/ Disconnects \/ UNCHANGED outbox
  BY DEF Next, SessionStep, vars, Connects, Drains, DrainEnds, FlushEnds, Ingests, Drops, PollEnds,
         HandleEnds, Travels, Asks, LinkDrops
<1> QED
  BY <1>2, <1>3, <1>4, <1>5, <1>6, <1>7

(* The inbox, and the paced reports: the session thread alone uses them.            *)
LEMMA InboxStep == MessagesInv /\ [Next]_vars => [Inbox!QNext]_(Content(inbox))
<1> SUFFICES ASSUME MessagesInv, [Next]_vars
             PROVE  Inbox!QNext \/ Content(inbox)' = Content(inbox)
  OBVIOUS
<1> USE InvRings
<1>1. CASE Ingests
  <2>1. Head(asked) \in Incoming
    BY <1>1, TailCurrent DEF Ingests
  <2>2. Content(inbox)' = Content(Put(inbox, Head(asked)))
    BY <1>1 DEF Ingests, Content, At
  <2> QED
    BY <2>1, <2>2, PutIsQPut DEF Inbox!QPut, Inbox!QNext
<1>2. CASE Handles
  <2>1. inbox' = Taken(inbox) /\ inbox.count > 0
    BY <1>2 DEF Handles
  <2>2. Content(inbox)' = Content(Taken(inbox))
    BY <2>1 DEF Content, At
  <2>3. Content(inbox) # <<>> /\ Content(Taken(inbox)) = Tail(Content(inbox))
    BY <2>1, TakenContent
  <2> QED
    BY <2>2, <2>3 DEF Inbox!QNext, Inbox!QTake
<1>3. CASE ConnectFails \/ Disconnects
  <2>1. inbox' = EmptyRing
    BY <1>3 DEF ConnectFails, Disconnects
  <2>2. Content(inbox)' = <<>>
    BY <2>1 DEF Content, At, EmptyRing
  <2> QED
    BY <2>2 DEF Inbox!QNext, Inbox!QClear
<1>4. CASE UNCHANGED inbox
  BY <1>4 DEF Content, At
<1>5. Ingests \/ Handles \/ ConnectFails \/ Disconnects \/ UNCHANGED inbox
  BY DEF Next, SessionStep, vars, Reports, Connects, Drains, DrainEnds, Flushes, FlushEnds, Drops,
         PollEnds, HandleEnds, Travels, Asks, LinkDrops
<1> QED
  BY <1>1, <1>2, <1>3, <1>4, <1>5

(* The paced reports: queue_paced and drain_paced.                                  *)
LEMMA PacedStep == MessagesInv /\ [Next]_vars => [Paced!QNext]_(Content(paced))
<1> SUFFICES ASSUME MessagesInv, [Next]_vars
             PROVE  Paced!QNext \/ Content(paced)' = Content(paced)
  OBVIOUS
<1> USE InvRings
<1>1. CASE Handles /\ paced' # paced
  <2>1. Oldest(inbox) \in Incoming
    BY <1>1, OldestIsMessage DEF Handles
  <2>2. paced' = Put(paced, Oldest(inbox))
    BY <1>1 DEF Handles
  <2>3. Content(paced)' = Content(Put(paced, Oldest(inbox)))
    BY <2>2 DEF Content, At
  <2> QED
    BY <2>1, <2>3, PutIsQPut DEF Paced!QPut, Paced!QNext
<1>2. CASE Drains
  <2>1. paced' = Taken(paced) /\ paced.count > 0
    BY <1>2 DEF Drains
  <2>2. Content(paced)' = Content(Taken(paced))
    BY <2>1 DEF Content, At
  <2>3. Content(paced) # <<>> /\ Content(Taken(paced)) = Tail(Content(paced))
    BY <2>1, TakenContent
  <2> QED
    BY <2>2, <2>3 DEF Paced!QNext, Paced!QTake
<1>3. CASE Disconnects
  <2>1. Content(paced)' = <<>>
    BY <1>3 DEF Disconnects, Content, At, EmptyRing
  <2> QED
    BY <2>1 DEF Paced!QNext, Paced!QClear
<1>4. CASE UNCHANGED paced
  BY <1>4 DEF Content, At
<1>5. Handles \/ Drains \/ Disconnects \/ UNCHANGED paced
  BY DEF Next, SessionStep, vars, Reports, Connects, ConnectFails, DrainEnds, Flushes, FlushEnds,
         Ingests, Drops, PollEnds, HandleEnds, Travels, Asks, LinkDrops
<1> QED
  BY <1>1, <1>2, <1>3, <1>4, <1>5

(* The three rings implement the queue of LossyQueue, for every Cap.                *)
THEOREM RingsImplementQueues == Spec => RingsAreQueues
<1>1. Init => Outbox!QInit /\ Inbox!QInit /\ Paced!QInit
  BY EmptyIsRing DEF Init, Outbox!QInit, Inbox!QInit, Paced!QInit
<1>2. MessagesInv /\ [Next]_vars => [Outbox!QNext]_(Content(outbox))
  BY OutboxStep
<1>3. MessagesInv /\ [Next]_vars => [Inbox!QNext]_(Content(inbox))
  BY InboxStep
<1>4. MessagesInv /\ [Next]_vars => [Paced!QNext]_(Content(paced))
  BY PacedStep
<1> QED
  BY <1>1, <1>2, <1>3, <1>4, MessagesInvariance, PTL
     DEF Spec, RingsAreQueues, Outbox!QSpec, Inbox!QSpec, Paced!QSpec

-----------------------------------------------------------------------------
(* The order of the messages.                                                *)

\* The numbers that messages carry: enet_client_send_msg's and the PC's.
SeqNo == [m \in Outgoing |-> m.seq]
IdNo == [m \in Incoming |-> m.id]

\* Messages whose numbers grow, all above low and none above high
Rises(s, N, low, high) ==
    \A i \in DOMAIN s :
       /\ s[i] \in DOMAIN N /\ low < N[s[i]] /\ N[s[i]] <= high
       /\ \A j \in DOMAIN s : j < i => N[s[j]] < N[s[i]]

\* The messages of s have lower numbers than those of t.
Before(s, t, N) == \A i \in DOMAIN s, j \in DOMAIN t : N[s[i]] < N[t[j]]

\* What the PC has received, what is on its way and what waits in the outbox follow
\* one another; so do what was handled, what waits in the inbox and what is on its
\* way to it; and a paced report waits from when it was handled until it is written.
OrderInv ==
    /\ heard <= sendSequence /\ handled <= requests /\ written <= handled
    /\ Rises(wire, SeqNo, heard, sendSequence)
    /\ Rises(Content(outbox), SeqNo, heard, sendSequence)
    /\ Before(wire, Content(outbox), SeqNo)
    /\ Rises(Content(inbox), IdNo, handled, requests)
    /\ Rises(asked, IdNo, handled, requests)
    /\ Before(Content(inbox), asked, IdNo)
    /\ Rises(Content(paced), IdNo, written, handled)

(* The first of some messages, and those that come after it.                        *)
LEMMA TailRises ==
  ASSUME NEW M, NEW N \in [M -> Nat], NEW S, NEW s \in Seq(S), s # <<>>,
         NEW low \in Nat, NEW high \in Nat, Rises(s, N, low, high)
  PROVE  /\ Rises(Tail(s), N, low, high)
         /\ s[1] \in M /\ low < N[s[1]] /\ N[s[1]] <= high
         /\ Rises(Tail(s), N, N[s[1]], high)
         /\ \A i \in DOMAIN Tail(s) : N[s[1]] < N[Tail(s)[i]]
         /\ \A i \in DOMAIN Tail(s) : i + 1 \in DOMAIN s /\ Tail(s)[i] = s[i + 1]
<1>1. /\ 1 \in DOMAIN s /\ DOMAIN s = 1..Len(s) /\ DOMAIN Tail(s) = 1..(Len(s) - 1)
      /\ Len(s) \in Nat
      /\ \A i \in 1..(Len(s) - 1) : Tail(s)[i] = s[i + 1]
  OBVIOUS
<1>2. \A i \in DOMAIN Tail(s) : i + 1 \in DOMAIN s /\ Tail(s)[i] = s[i + 1] /\ 1 < i + 1
  BY <1>1
<1>3. \A i, j \in DOMAIN Tail(s) : j < i => j + 1 < i + 1
  BY <1>1
<1>4. s[1] \in M /\ low < N[s[1]] /\ N[s[1]] <= high
  BY <1>1 DEF Rises
<1>5. \A i \in DOMAIN Tail(s) : N[s[1]] < N[Tail(s)[i]]
  BY <1>1, <1>2 DEF Rises
<1>6. Rises(Tail(s), N, low, high)
  BY <1>2, <1>3 DEF Rises
<1>7. Rises(Tail(s), N, N[s[1]], high)
  BY <1>5, <1>6 DEF Rises
<1> QED
  BY <1>2, <1>4, <1>5, <1>6, <1>7

(* A message with a greater number comes last.                                      *)
LEMMA AppendRises ==
  ASSUME NEW M, NEW N \in [M -> Nat], NEW S, NEW s \in Seq(S), NEW m \in S, m \in M,
         NEW low \in Nat, NEW high \in Nat, NEW top \in Nat, high <= top,
         Rises(s, N, low, high), low < N[m], N[m] <= top,
         \A i \in DOMAIN s : N[s[i]] < N[m]
  PROVE  Rises(Append(s, m), N, low, top)
<1>1. /\ DOMAIN s = 1..Len(s) /\ DOMAIN Append(s, m) = 1..(Len(s) + 1) /\ Len(s) \in Nat
      /\ \A i \in DOMAIN s : Append(s, m)[i] = s[i]
      /\ Append(s, m)[Len(s) + 1] = m
  OBVIOUS
<1>2. \A i \in DOMAIN s : s[i] \in M /\ low < N[s[i]] /\ N[s[i]] <= top
  BY DEF Rises
<1>3. \A i \in DOMAIN s : \A j \in DOMAIN s : j < i => N[s[j]] < N[s[i]]
  BY DEF Rises
<1>4. \A i \in DOMAIN Append(s, m) : i \in DOMAIN s \/ i = Len(s) + 1
  BY <1>1
<1>5. \A i \in DOMAIN s : ~(Len(s) + 1 < i)
  BY <1>1
<1>6. ~(Len(s) + 1 < Len(s) + 1)
  BY <1>1
<1> QED
  BY <1>1, <1>2, <1>3, <1>4, <1>5, <1>6 DEF Rises

(* Messages that rise below a number rise below a greater one.                      *)
LEMMA RisesBelow ==
  ASSUME NEW M, NEW N \in [M -> Nat], NEW s, NEW low \in Nat, NEW high \in Nat, NEW top \in Nat,
         high <= top, Rises(s, N, low, high)
  PROVE  Rises(s, N, low, top)
  BY DEF Rises

(* There is no order among no messages.                                             *)
LEMMA NoneRise ==
  ASSUME NEW N, NEW low, NEW high, NEW s
  PROVE  Rises(<<>>, N, low, high) /\ Before(<<>>, s, N) /\ Before(s, <<>>, N)
  BY DEF Rises, Before

(* Taking from a ring whose messages rise.                                          *)
LEMMA TakenRises ==
  ASSUME NEW M, NEW N \in [M -> Nat], NEW r \in Rings(M), r.count > 0,
         NEW low \in Nat, NEW high \in Nat, Rises(Content(r), N, low, high)
  PROVE  /\ Rises(Content(Taken(r)), N, low, high)
         /\ Oldest(r) \in M /\ low < N[Oldest(r)] /\ N[Oldest(r)] <= high
         /\ Rises(Content(Taken(r)), N, N[Oldest(r)], high)
         /\ 1 \in DOMAIN Content(r) /\ Oldest(r) = Content(r)[1]
         /\ \A i \in DOMAIN Content(Taken(r)) :
               /\ N[Oldest(r)] < N[Content(Taken(r))[i]]
               /\ i + 1 \in DOMAIN Content(r) /\ Content(Taken(r))[i] = Content(r)[i + 1]
<1>1. /\ Content(r) # <<>> /\ Oldest(r) = Content(r)[1]
      /\ Content(Taken(r)) = Tail(Content(r))
  BY TakenContent
<1>2. Content(r) \in Seq(M \cup {Free})
  BY ContentIsSeq
<1>3. 1 \in DOMAIN Content(r)
  BY <1>1, <1>2
<1>4. /\ Rises(Tail(Content(r)), N, low, high)
      /\ Content(r)[1] \in M /\ low < N[Content(r)[1]] /\ N[Content(r)[1]] <= high
      /\ Rises(Tail(Content(r)), N, N[Content(r)[1]], high)
      /\ \A i \in DOMAIN Tail(Content(r)) : N[Content(r)[1]] < N[Tail(Content(r))[i]]
      /\ \A i \in DOMAIN Tail(Content(r)) :
            i + 1 \in DOMAIN Content(r) /\ Tail(Content(r))[i] = Content(r)[i + 1]
  BY <1>1, <1>2, TailRises
<1> QED
  BY <1>1, <1>3, <1>4

(* Putting a message with a greater number into a ring whose messages rise.         *)
LEMMA PutRises ==
  ASSUME NEW M, NEW N \in [M -> Nat], NEW r \in Rings(M), NEW m \in M,
         NEW low \in Nat, NEW high \in Nat, NEW top \in Nat, high <= top,
         Rises(Content(r), N, low, high), low < N[m], N[m] <= top,
         \A i \in DOMAIN Content(r) : N[Content(r)[i]] < N[m]
  PROVE  /\ Rises(Content(Put(r, m)), N, low, top)
         /\ \A k \in DOMAIN Content(Put(r, m)) :
               \/ Content(Put(r, m))[k] = m
               \/ \E i \in DOMAIN Content(r) : Content(Put(r, m))[k] = Content(r)[i]
<1> DEFINE before == IF r.count < Cap THEN Content(r) ELSE Tail(Content(r))
<1>1. Content(Put(r, m)) = Append(before, m)
  BY PutContent
<1>2. Content(r) \in Seq(M \cup {Free}) /\ Len(Content(r)) = r.count /\ r.count \in 0..Cap
      /\ Cap \in Nat \ {0}
  BY ContentIsSeq, RingAssumption DEF Rings
<1>3. /\ before \in Seq(M \cup {Free}) /\ Rises(before, N, low, high)
      /\ \A k \in DOMAIN before : \E i \in DOMAIN Content(r) : before[k] = Content(r)[i]
  <2>1. CASE r.count < Cap
    BY <1>2, <2>1
  <2>2. CASE ~(r.count < Cap)
    <3>1. Content(r) # <<>>
      <4>1. Len(<<>>) = 0
        OBVIOUS
      <4> QED
        BY <1>2, <2>2, <4>1
    <3>2. Tail(Content(r)) \in Seq(M \cup {Free})
      BY <1>2, <3>1
    <3>3. /\ Rises(Tail(Content(r)), N, low, high)
          /\ \A i \in DOMAIN Tail(Content(r)) :
                i + 1 \in DOMAIN Content(r) /\ Tail(Content(r))[i] = Content(r)[i + 1]
      BY <1>2, <3>1, TailRises
    <3> QED
      BY <2>2, <3>2, <3>3
  <2> QED
    BY <2>1, <2>2
<1> HIDE DEF before
<1>4. \A k \in DOMAIN before : N[before[k]] < N[m]
  BY <1>3
<1>5. m \in M \cup {Free}
  OBVIOUS
<1>6. Rises(Append(before, m), N, low, top)
  BY <1>3, <1>4, <1>5, AppendRises
<1>7. \A k \in DOMAIN Append(before, m) : Append(before, m)[k] = m
          \/ (k \in DOMAIN before /\ Append(before, m)[k] = before[k])
  BY <1>3
<1> QED
  BY <1>1, <1>3, <1>6, <1>7

(* The two ways messages are numbered.                                              *)
LEMMA NumbersAreNumbers ==
  /\ SeqNo \in [Outgoing -> Nat] /\ IdNo \in [Incoming -> Nat]
  /\ \A m \in Outgoing : SeqNo[m] = m.seq
  /\ \A m \in Incoming : IdNo[m] = m.id
<1>1. \A m \in Outgoing : m.seq \in Nat
  BY DEF Outgoing
<1>2. \A m \in Incoming : m.id \in Nat
  BY DEF Incoming
<1> QED
  BY <1>1, <1>2 DEF SeqNo, IdNo

(* Nothing is numbered at first.                                                    *)
LEMMA OrderInit == Init => OrderInv
<1> SUFFICES ASSUME Init PROVE OrderInv
  OBVIOUS
<1>1. Content(EmptyRing) = <<>>
  BY EmptyIsRing
<1> QED
  BY <1>1, NoneRise DEF Init, OrderInv

(* What a step numbers comes after what it finds.                                   *)
LEMMA OrderNext == MessagesInv /\ OrderInv /\ [Next]_vars => OrderInv'
<1> SUFFICES ASSUME MessagesInv, OrderInv, [Next]_vars PROVE OrderInv'
  OBVIOUS
<1> USE NumbersAreNumbers
<1>0. /\ outbox \in Rings(Outgoing) /\ inbox \in Rings(Incoming) /\ paced \in Rings(Incoming)
      /\ wire \in Seq(Outgoing) /\ asked \in Seq(Incoming)
      /\ sendSequence \in Nat /\ requests \in Nat
      /\ heard \in Nat /\ handled \in Nat /\ written \in Nat
  BY MessagesAssumption DEF MessagesInv, MessagesTypeOK
<1>o. ASSUME NEW kind \in {"report", "reply"}, session # "probing", outbox' = Queued(kind),
             sendSequence' = sendSequence + 1, UNCHANGED <<wire, heard>>
      PROVE  /\ heard' <= sendSequence' /\ Rises(wire', SeqNo, heard', sendSequence')
             /\ Rises(Content(outbox'), SeqNo, heard', sendSequence')
             /\ Before(wire', Content(outbox'), SeqNo)
  <2> DEFINE m == [seq |-> sendSequence + 1, kind |-> kind, conn |-> conn]
  <2>1. m \in Outgoing /\ m.seq = sendSequence + 1
    BY <1>0, <1>o, InvRings DEF Outgoing
  <2>2. outbox' = Put(outbox, m)
    BY <1>o DEF Queued
  <2> HIDE DEF m
  <2>3. SeqNo[m] = sendSequence + 1
    BY <2>1
  <2>4. /\ Rises(wire, SeqNo, heard, sendSequence)
        /\ Rises(Content(outbox), SeqNo, heard, sendSequence)
        /\ Before(wire, Content(outbox), SeqNo) /\ heard <= sendSequence
    BY DEF OrderInv
  <2>5. \A i \in DOMAIN Content(outbox) : SeqNo[Content(outbox)[i]] < SeqNo[m]
    <3>1. \A i \in DOMAIN Content(outbox) :
             Content(outbox)[i] \in Outgoing /\ SeqNo[Content(outbox)[i]] <= sendSequence
      BY <2>4 DEF Rises
    <3> QED
      BY <1>0, <2>3, <3>1
  <2> DEFINE top == sendSequence + 1
  <2>6. /\ Rises(Content(Put(outbox, m)), SeqNo, heard, top)
        /\ \A k \in DOMAIN Content(Put(outbox, m)) :
              \/ Content(Put(outbox, m))[k] = m
              \/ \E i \in DOMAIN Content(outbox) : Content(Put(outbox, m))[k] = Content(outbox)[i]
    <3>1. /\ top \in Nat /\ sendSequence <= top
          /\ heard < SeqNo[m] /\ SeqNo[m] <= top
      BY <1>0, <2>3, <2>4
    <3>2. SeqNo \in [Outgoing -> Nat]
      BY NumbersAreNumbers
    <3> HIDE DEF top
    <3> QED
      BY ONLY <1>0, <2>1, <2>4, <2>5, <3>1, <3>2, PutRises
  <2>7. Rises(wire, SeqNo, heard, sendSequence + 1)
    <3>1. sendSequence + 1 \in Nat /\ sendSequence <= sendSequence + 1
      BY <1>0
    <3> QED
      BY <1>0, <2>4, <3>1, RisesBelow
  <2>8. Before(wire, Content(Put(outbox, m)), SeqNo)
    <3>1. \A i \in DOMAIN wire : wire[i] \in Outgoing /\ SeqNo[wire[i]] < SeqNo[m]
      <4>1. \A i \in DOMAIN wire : wire[i] \in Outgoing /\ SeqNo[wire[i]] <= sendSequence
        BY <2>4 DEF Rises
      <4> QED
        BY <1>0, <2>3, <4>1
    <3> QED
      BY <2>4, <2>6, <3>1 DEF Before
  <2>9. heard <= sendSequence + 1
    BY <1>0, <2>4
  <2> QED
    BY <1>o, <2>2, <2>6, <2>7, <2>8, <2>9
<1>1. CASE Reports
  <2>1. session # "probing"
    BY <1>1 DEF Reports, MessagesInv, ProbingIsEmpty
  <2>2. UNCHANGED <<inbox, paced, asked, requests, handled, written>>
    BY <1>1 DEF Reports
  <2>3. /\ heard' <= sendSequence' /\ Rises(wire', SeqNo, heard', sendSequence')
        /\ Rises(Content(outbox'), SeqNo, heard', sendSequence')
        /\ Before(wire', Content(outbox'), SeqNo)
    BY <1>1, <1>o, <2>1 DEF Reports
  <2> QED
    BY <2>2, <2>3 DEF OrderInv
<1>2. CASE Connects
  <2>1. outbox.count = 0 /\ inbox.count = 0 /\ paced.count = 0
    BY <1>2 DEF Connects, MessagesInv, ProbingIsEmpty
  <2>2. /\ UNCHANGED <<outbox, inbox, paced, sendSequence, requests, heard, handled, written>>
        /\ wire' = <<>> /\ asked' = <<>>
    BY <1>2 DEF Connects
  <2>3. /\ Rises(<<>>, SeqNo, heard, sendSequence) /\ Before(<<>>, Content(outbox), SeqNo)
        /\ Rises(<<>>, IdNo, handled, requests) /\ Before(Content(inbox), <<>>, IdNo)
    BY NoneRise
  <2> QED
    BY <2>2, <2>3 DEF OrderInv
<1>3. CASE ConnectFails
  <2>1. /\ UNCHANGED <<paced, wire, asked, sendSequence, requests, heard, handled, written>>
        /\ outbox' = EmptyRing /\ inbox' = EmptyRing
    BY <1>3 DEF ConnectFails
  <2>2. Content(outbox') = <<>> /\ Content(inbox') = <<>>
    BY <2>1, EmptyIsRing
  <2>3. /\ Rises(<<>>, SeqNo, heard, sendSequence) /\ Before(wire, <<>>, SeqNo)
        /\ Rises(<<>>, IdNo, handled, requests) /\ Before(<<>>, asked, IdNo)
    BY NoneRise
  <2> QED
    BY <2>1, <2>2, <2>3 DEF OrderInv
<1>4. CASE Drains
  <2>1. /\ UNCHANGED <<outbox, inbox, wire, asked, sendSequence, requests, heard, handled>>
        /\ paced' = Taken(paced) /\ written' = Oldest(paced).id /\ paced.count > 0
    BY <1>4 DEF Drains
  <2>2. Rises(Content(paced), IdNo, written, handled)
    BY DEF OrderInv
  <2>3. /\ Oldest(paced) \in Incoming /\ IdNo[Oldest(paced)] <= handled
        /\ Rises(Content(Taken(paced)), IdNo, IdNo[Oldest(paced)], handled)
    BY <1>0, <2>1, <2>2, TakenRises
  <2>4. written' = IdNo[Oldest(paced)]
    BY <2>1, <2>3
  <2> QED
    BY <2>1, <2>3, <2>4 DEF OrderInv
<1>5. CASE DrainEnds \/ FlushEnds \/ PollEnds \/ HandleEnds \/ Drops
  BY <1>5 DEF DrainEnds, FlushEnds, PollEnds, HandleEnds, Drops, OrderInv
<1>6. CASE Flushes
  <2>1. /\ UNCHANGED <<inbox, paced, asked, sendSequence, requests, heard, handled, written>>
        /\ outbox' = Taken(outbox) /\ outbox.count > 0
        /\ wire' = Append(wire, Oldest(outbox)) \/ wire' = wire
    BY <1>6 DEF Flushes
  <2>2. /\ Rises(wire, SeqNo, heard, sendSequence)
        /\ Rises(Content(outbox), SeqNo, heard, sendSequence)
        /\ Before(wire, Content(outbox), SeqNo)
    BY DEF OrderInv
  <2>3. /\ Rises(Content(Taken(outbox)), SeqNo, heard, sendSequence)
        /\ Oldest(outbox) \in Outgoing /\ heard < SeqNo[Oldest(outbox)]
        /\ SeqNo[Oldest(outbox)] <= sendSequence
        /\ 1 \in DOMAIN Content(outbox) /\ Oldest(outbox) = Content(outbox)[1]
        /\ \A i \in DOMAIN Content(Taken(outbox)) :
              /\ SeqNo[Oldest(outbox)] < SeqNo[Content(Taken(outbox))[i]]
              /\ i + 1 \in DOMAIN Content(outbox) /\ Content(Taken(outbox))[i] = Content(outbox)[i + 1]
    BY <1>0, <2>1, <2>2, TakenRises
  <2>4. \A i \in DOMAIN wire : SeqNo[wire[i]] < SeqNo[Oldest(outbox)]
    BY <2>2, <2>3 DEF Before
  <2>5. Rises(Append(wire, Oldest(outbox)), SeqNo, heard, sendSequence)
    <3>1. SeqNo \in [Outgoing -> Nat] /\ sendSequence <= sendSequence
      BY <1>0
    <3> QED
      BY ONLY <1>0, <2>2, <2>3, <2>4, <3>1, AppendRises
  <2>6. Before(wire, Content(Taken(outbox)), SeqNo)
    BY <2>2, <2>3 DEF Before
  <2>7. Before(Append(wire, Oldest(outbox)), Content(Taken(outbox)), SeqNo)
    <3>1. \A i \in DOMAIN Append(wire, Oldest(outbox)) :
             \/ Append(wire, Oldest(outbox))[i] = Oldest(outbox)
             \/ i \in DOMAIN wire /\ Append(wire, Oldest(outbox))[i] = wire[i]
      BY <1>0, <2>3
    <3> QED
      BY <2>3, <2>6, <3>1 DEF Before
  <2>8. Rises(wire', SeqNo, heard, sendSequence) /\ Before(wire', Content(outbox'), SeqNo)
    BY <2>1, <2>2, <2>5, <2>6, <2>7
  <2> QED
    BY <2>1, <2>3, <2>8 DEF OrderInv
<1>7. CASE Ingests
  <2>1. /\ UNCHANGED <<outbox, paced, wire, sendSequence, requests, heard, handled, written>>
        /\ asked # <<>> /\ inbox' = Put(inbox, Head(asked)) /\ asked' = Tail(asked)
    BY <1>7 DEF Ingests
  <2> DEFINE m == asked[1]
  <2>2. /\ Rises(asked, IdNo, handled, requests) /\ Rises(Content(inbox), IdNo, handled, requests)
        /\ Before(Content(inbox), asked, IdNo)
    BY DEF OrderInv
  <2>3. /\ Rises(Tail(asked), IdNo, handled, requests)
        /\ m \in Incoming /\ handled < IdNo[m] /\ IdNo[m] <= requests
        /\ \A i \in DOMAIN Tail(asked) : IdNo[m] < IdNo[Tail(asked)[i]]
        /\ \A i \in DOMAIN Tail(asked) : i + 1 \in DOMAIN asked /\ Tail(asked)[i] = asked[i + 1]
    BY <1>0, <2>1, <2>2, TailRises
  <2>4. Head(asked) = m /\ 1 \in DOMAIN asked
    BY <1>0, <2>1
  <2>5. \A i \in DOMAIN Content(inbox) : IdNo[Content(inbox)[i]] < IdNo[m]
    BY <2>2, <2>4 DEF Before
  <2> HIDE DEF m
  <2>6. /\ Rises(Content(Put(inbox, m)), IdNo, handled, requests)
        /\ \A k \in DOMAIN Content(Put(inbox, m)) :
              \/ Content(Put(inbox, m))[k] = m
              \/ \E i \in DOMAIN Content(inbox) : Content(Put(inbox, m))[k] = Content(inbox)[i]
    <3>1. IdNo \in [Incoming -> Nat] /\ requests <= requests
      BY <1>0
    <3> QED
      BY ONLY <1>0, <2>2, <2>3, <2>5, <3>1, PutRises
  <2>7. Before(Content(Put(inbox, m)), Tail(asked), IdNo)
    BY <2>2, <2>3, <2>6 DEF Before
  <2> QED
    BY <2>1, <2>3, <2>4, <2>6, <2>7 DEF OrderInv
<1>8. CASE Handles
  <2>1. /\ UNCHANGED <<wire, asked, requests, heard, written>>
        /\ inbox' = Taken(inbox) /\ inbox.count > 0 /\ handled' = Oldest(inbox).id
    BY <1>8 DEF Handles
  <2>2. /\ Rises(asked, IdNo, handled, requests) /\ Rises(Content(inbox), IdNo, handled, requests)
        /\ Before(Content(inbox), asked, IdNo) /\ Rises(Content(paced), IdNo, written, handled)
        /\ written <= handled
    BY DEF OrderInv
  <2>3. /\ Oldest(inbox) \in Incoming /\ handled < IdNo[Oldest(inbox)] /\ IdNo[Oldest(inbox)] <= requests
        /\ Rises(Content(Taken(inbox)), IdNo, IdNo[Oldest(inbox)], requests)
        /\ 1 \in DOMAIN Content(inbox) /\ Oldest(inbox) = Content(inbox)[1]
        /\ \A i \in DOMAIN Content(Taken(inbox)) :
              /\ IdNo[Oldest(inbox)] < IdNo[Content(Taken(inbox))[i]]
              /\ i + 1 \in DOMAIN Content(inbox) /\ Content(Taken(inbox))[i] = Content(inbox)[i + 1]
    <3>1. IdNo \in [Incoming -> Nat]
      OBVIOUS
    <3>2. inbox.count > 0
      BY <2>1
    <3> QED
      BY ONLY <1>0, <2>2, <3>1, <3>2, TakenRises
  <2>4. handled' = IdNo[Oldest(inbox)] /\ handled' \in Nat
    BY <1>0, <2>1, <2>3
  <2>5. Rises(asked, IdNo, handled', requests)
    <3>1. \A i \in DOMAIN asked : IdNo[Oldest(inbox)] < IdNo[asked[i]]
      BY <2>2, <2>3 DEF Before
    <3> QED
      BY <2>2, <2>4, <3>1 DEF Rises
  <2>6. Before(Content(Taken(inbox)), asked, IdNo)
    BY <2>2, <2>3 DEF Before
  <2>7. written <= handled' /\ handled <= handled' /\ handled' <= requests
    BY <1>0, <2>2, <2>3, <2>4
  <2>8. Rises(Content(paced), IdNo, written, handled')
    BY <1>0, <2>2, <2>4, <2>7, RisesBelow
  <2>9. Rises(Content(paced'), IdNo, written, handled')
    <3>1. CASE paced' = paced
      BY <2>8, <3>1
    <3>2. CASE paced' = Put(paced, Oldest(inbox))
      <4>1. \A i \in DOMAIN Content(paced) : IdNo[Content(paced)[i]] < IdNo[Oldest(inbox)]
        <5>1. \A i \in DOMAIN Content(paced) :
                 Content(paced)[i] \in Incoming /\ IdNo[Content(paced)[i]] <= handled
          BY <2>2 DEF Rises
        <5> QED
          BY <1>0, <2>3, <5>1
      <4>2. IdNo \in [Incoming -> Nat] /\ written < IdNo[Oldest(inbox)] /\ IdNo[Oldest(inbox)] <= handled'
        BY <1>0, <2>2, <2>3, <2>4
      <4>3. Rises(Content(Put(paced, Oldest(inbox))), IdNo, written, handled')
        BY ONLY <1>0, <2>2, <2>3, <2>4, <2>7, <4>1, <4>2, PutRises
      <4> QED
        BY <3>2, <4>3
    <3> QED
      BY <1>8, <3>1, <3>2 DEF Handles
  <2>10. /\ heard' <= sendSequence' /\ Rises(wire', SeqNo, heard', sendSequence')
         /\ Rises(Content(outbox'), SeqNo, heard', sendSequence')
         /\ Before(wire', Content(outbox'), SeqNo)
    <3>1. CASE outbox' = Queued("reply") /\ sendSequence' = sendSequence + 1
      <4>1. session # "probing"
        BY <1>8 DEF Handles
      <4> QED
        BY <1>o, <2>1, <3>1, <4>1
    <3>2. CASE UNCHANGED <<outbox, sendSequence>>
      BY <2>1, <3>2 DEF OrderInv
    <3> QED
      BY <1>8, <3>1, <3>2 DEF Handles
  <2> QED
    BY <2>1, <2>3, <2>4, <2>5, <2>6, <2>7, <2>9, <2>10 DEF OrderInv
<1>9. CASE Disconnects
  <2>1. /\ UNCHANGED <<sendSequence, requests, heard, handled, written>>
        /\ outbox' = EmptyRing /\ inbox' = EmptyRing /\ paced' = EmptyRing
        /\ wire' = <<>> /\ asked' = <<>>
    BY <1>9 DEF Disconnects
  <2>2. Content(outbox') = <<>> /\ Content(inbox') = <<>> /\ Content(paced') = <<>>
    BY <2>1, EmptyIsRing
  <2> QED
    BY <2>1, <2>2, NoneRise DEF OrderInv
<1>10. CASE Travels
  <2>1. /\ UNCHANGED <<outbox, inbox, paced, asked, sendSequence, requests, handled, written>>
        /\ wire # <<>> /\ wire' = Tail(wire)
        /\ heard' = Head(wire).seq \/ heard' = heard
    BY <1>10 DEF Travels
  <2>2. /\ Rises(wire, SeqNo, heard, sendSequence) /\ heard <= sendSequence
        /\ Rises(Content(outbox), SeqNo, heard, sendSequence)
        /\ Before(wire, Content(outbox), SeqNo)
    BY DEF OrderInv
  <2>3. /\ Rises(Tail(wire), SeqNo, heard, sendSequence)
        /\ wire[1] \in Outgoing /\ heard < SeqNo[wire[1]] /\ SeqNo[wire[1]] <= sendSequence
        /\ Rises(Tail(wire), SeqNo, SeqNo[wire[1]], sendSequence)
        /\ \A i \in DOMAIN Tail(wire) : SeqNo[wire[1]] < SeqNo[Tail(wire)[i]]
        /\ \A i \in DOMAIN Tail(wire) : i + 1 \in DOMAIN wire /\ Tail(wire)[i] = wire[i + 1]
    <3>1. SeqNo \in [Outgoing -> Nat]
      OBVIOUS
    <3>2. wire # <<>>
      BY <2>1
    <3>3. Rises(wire, SeqNo, heard, sendSequence)
      BY <2>2
    <3>4. wire \in Seq(Outgoing) /\ heard \in Nat /\ sendSequence \in Nat
      BY <1>0
    <3> QED
      BY ONLY <3>1, <3>2, <3>3, <3>4, TailRises
  <2>4. Head(wire) = wire[1] /\ 1 \in DOMAIN wire
    BY <1>0, <2>1
  <2>5. Before(Tail(wire), Content(outbox), SeqNo)
    BY <2>2, <2>3 DEF Before
  <2>6. Rises(Content(outbox), SeqNo, SeqNo[wire[1]], sendSequence)
    <3>1. \A i \in DOMAIN Content(outbox) : SeqNo[wire[1]] < SeqNo[Content(outbox)[i]]
      BY <2>2, <2>4 DEF Before
    <3> QED
      BY <2>2, <3>1 DEF Rises
  <2>7. heard' = SeqNo[wire[1]] \/ heard' = heard
    BY <2>1, <2>3, <2>4
  <2>8. /\ heard' <= sendSequence /\ Rises(Tail(wire), SeqNo, heard', sendSequence)
        /\ Rises(Content(outbox), SeqNo, heard', sendSequence)
    BY <2>2, <2>3, <2>6, <2>7
  <2> QED
    BY <2>1, <2>5, <2>8 DEF OrderInv
<1>11. ASSUME NEW kind \in {"output", "paced", "feature"}, Asks(kind) PROVE OrderInv'
  <2> DEFINE m == [id |-> requests + 1, kind |-> kind, conn |-> conn]
  <2>1. session # "probing"
    BY <1>11 DEF Asks, MessagesInv, ProbingIsEmpty
  <2>2. m \in Incoming /\ m.id = requests + 1
    BY <1>11, <2>1, InvRings, MessagesAssumption DEF Incoming
  <2>3. /\ UNCHANGED <<outbox, inbox, paced, wire, sendSequence, heard, handled, written>>
        /\ asked' = Append(asked, m) /\ requests' = requests + 1
    BY <1>11 DEF Asks
  <2> HIDE DEF m
  <2>4. IdNo[m] = requests + 1
    BY <2>2
  <2>5. /\ Rises(asked, IdNo, handled, requests) /\ Rises(Content(inbox), IdNo, handled, requests)
        /\ Before(Content(inbox), asked, IdNo) /\ handled <= requests
    BY DEF OrderInv
  <2>6. \A i \in DOMAIN asked : IdNo[asked[i]] < IdNo[m]
    <3>1. \A i \in DOMAIN asked : asked[i] \in Incoming /\ IdNo[asked[i]] <= requests
      BY <2>5 DEF Rises
    <3> QED
      BY <1>0, <2>4, <3>1
  <2>7. /\ requests + 1 \in Nat /\ requests <= requests + 1 /\ handled < IdNo[m]
        /\ IdNo[m] <= requests + 1 /\ handled <= requests + 1
    BY <1>0, <2>4, <2>5
  <2>8. Rises(Append(asked, m), IdNo, handled, requests + 1)
    <3>1. IdNo \in [Incoming -> Nat]
      OBVIOUS
    <3> QED
      BY ONLY <1>0, <2>2, <2>5, <2>6, <2>7, <3>1, AppendRises
  <2>9. Rises(Content(inbox), IdNo, handled, requests + 1)
    BY <1>0, <2>5, <2>7, RisesBelow
  <2>10. Before(Content(inbox), Append(asked, m), IdNo)
    <3>1. \A i \in DOMAIN Append(asked, m) :
             \/ Append(asked, m)[i] = m
             \/ i \in DOMAIN asked /\ Append(asked, m)[i] = asked[i]
      BY <1>0, <2>2
    <3>2. \A i \in DOMAIN Content(inbox) : IdNo[Content(inbox)[i]] < IdNo[m]
      <4>1. \A i \in DOMAIN Content(inbox) :
               Content(inbox)[i] \in Incoming /\ IdNo[Content(inbox)[i]] <= requests
        BY <2>5 DEF Rises
      <4> QED
        BY <1>0, <2>4, <4>1
    <3> QED
      BY <2>5, <3>1, <3>2 DEF Before
  <2> QED
    BY <2>3, <2>7, <2>8, <2>9, <2>10 DEF OrderInv
<1>12. CASE LinkDrops
  <2>1. /\ UNCHANGED <<outbox, inbox, paced, sendSequence, requests, heard, handled, written>>
        /\ wire' = <<>> /\ asked' = <<>>
    BY <1>12 DEF LinkDrops
  <2> QED
    BY <2>1, NoneRise DEF OrderInv
<1>13. CASE UNCHANGED vars
  BY <1>13 DEF vars, OrderInv
<1> QED
  BY <1>1, <1>2, <1>3, <1>4, <1>5, <1>6, <1>7, <1>8, <1>9, <1>10, <1>11, <1>12, <1>13
     DEF Next, SessionStep

(* A step of the PC, of the bridge or of the device takes the first of what is left. *)
LEMMA OrderStep ==
  ASSUME MessagesInv, OrderInv, [Next]_vars
  PROVE  /\ heard' # heard => heard' > heard
         /\ handled' # handled => handled' > handled
         /\ written' # written => written' > written
<1> USE NumbersAreNumbers
<1>0. /\ outbox \in Rings(Outgoing) /\ inbox \in Rings(Incoming) /\ paced \in Rings(Incoming)
      /\ wire \in Seq(Outgoing) /\ asked \in Seq(Incoming)
      /\ sendSequence \in Nat /\ requests \in Nat
      /\ heard \in Nat /\ handled \in Nat /\ written \in Nat
  BY MessagesAssumption DEF MessagesInv, MessagesTypeOK
<1>1. CASE Drains
  <2>1. paced' = Taken(paced) /\ written' = Oldest(paced).id /\ paced.count > 0
        /\ UNCHANGED <<heard, handled>>
    BY <1>1 DEF Drains
  <2>2. Oldest(paced) \in Incoming /\ written < IdNo[Oldest(paced)]
    BY <1>0, <2>1, TakenRises DEF OrderInv
  <2>3. IdNo[Oldest(paced)] = Oldest(paced).id
    BY <2>2
  <2> QED
    BY <1>0, <2>1, <2>2, <2>3
<1>2. CASE Handles
  <2>1. inbox.count > 0 /\ handled' = Oldest(inbox).id /\ UNCHANGED <<heard, written>>
    BY <1>2 DEF Handles
  <2>2. Oldest(inbox) \in Incoming /\ handled < IdNo[Oldest(inbox)]
    BY <1>0, <2>1, TakenRises DEF OrderInv
  <2>3. IdNo[Oldest(inbox)] = Oldest(inbox).id
    BY <2>2
  <2> QED
    BY <1>0, <2>1, <2>2, <2>3
<1>3. CASE Travels
  <2>1. /\ wire # <<>>
        /\ heard' = Head(wire).seq \/ heard' = heard
        /\ UNCHANGED <<handled, written>>
    BY <1>3 DEF Travels
  <2>2. wire[1] \in Outgoing /\ heard < SeqNo[wire[1]]
    BY <1>0, <1>3, TailRises DEF OrderInv, Travels
  <2>3. Head(wire) = wire[1]
    BY <1>0, <1>3 DEF Travels
  <2>4. SeqNo[wire[1]] = wire[1].seq
    BY <2>2
  <2> QED
    BY <1>0, <2>1, <2>2, <2>3, <2>4
<1>4. Drains \/ Handles \/ Travels \/ UNCHANGED seen
  BY DEF Next, SessionStep, vars, Reports, Connects, ConnectFails, DrainEnds, Flushes, FlushEnds,
         Ingests, Drops, PollEnds, HandleEnds, Disconnects, Asks, LinkDrops
<1> QED
  BY <1>1, <1>2, <1>3, <1>4

(* Sequence numbers, messages of the PC and paced reports come in their order, for  *)
(* rings of any size and however many messages a full ring has dropped.             *)
THEOREM MessagesComeInOrder == Spec => InOrder
<1>1. Init => MessagesInv /\ OrderInv
  BY InitInv, OrderInit
<1>2. MessagesInv /\ OrderInv /\ [Next]_vars => MessagesInv' /\ OrderInv'
  BY NextInv, OrderNext
<1>3. MessagesInv /\ OrderInv /\ [Next]_vars =>
        [/\ heard' # heard => heard' > heard
         /\ handled' # handled => handled' > handled
         /\ written' # written => written' > written]_vars
  BY OrderStep
<1> QED
  BY <1>1, <1>2, <1>3, PTL DEF Spec, InOrder

=============================================================================
