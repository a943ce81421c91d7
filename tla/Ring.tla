-------------------------------- MODULE Ring --------------------------------
(***************************************************************************)
(* The ring buffers of the bridge: the inbox and the outbox of the ENet     *)
(* client and the queue of paced reports. A ring is an array of Cap slots,  *)
(* the index of its oldest message and their number. A full ring drops its  *)
(* oldest message to take another.                                          *)
(***************************************************************************)
EXTENDS Integers, Sequences

CONSTANTS
    Cap,    \* CTM_ENET_INBOX_CAP, CTM_ENET_OUTBOX_CAP, PACED_QUEUE_CAP
    Free    \* a slot without a payload

ASSUME RingAssumption == Cap \in Nat \ {0}

Slots == 0..(Cap - 1)

\* The rings of messages of M
Rings(M) == [slots : [Slots -> M \cup {Free}], head : Slots, count : 0..Cap]

EmptyRing == [slots |-> [i \in Slots |-> Free], head |-> 0, count |-> 0]

\* The slot of the message that comes i after the oldest
At(r, i) == (r.head + i) % Cap

Oldest(r) == r.slots[r.head]

\* Fault: the slot keeps the payload.
TakenKeeping(r) == [r EXCEPT !.head = At(r, 1), !.count = r.count - 1]

\* The payload of the oldest is freed or handed over, its slot is cleared.
Taken(r) == [slots |-> [r.slots EXCEPT ![r.head] = Free],
             head |-> At(r, 1),
             count |-> r.count - 1]

WithRoom(r) == IF r.count >= Cap THEN Taken(r) ELSE r

Added(r, m) == [slots |-> [r.slots EXCEPT ![At(r, r.count)] = m],
                head |-> r.head,
                count |-> r.count + 1]

\* Fault: a full ring is written to without dropping its oldest message.
PutOver(r, m) == Added(r, m)

Put(r, m) == Added(WithRoom(r), m)

\* The messages of a ring, the oldest first
Content(r) == [i \in 1..r.count |-> r.slots[At(r, i - 1)]]

\* The slots between head and head + count have a payload and the others have
\* none: a payload is freed once.
PayloadsOwned(r) ==
    \A i \in Slots : r.slots[i] # Free <=> \E j \in 0..(r.count - 1) : i = At(r, j)

=============================================================================
