----------------------------- MODULE LossyQueue -----------------------------
(***************************************************************************)
(* What a ring of the bridge promises: a queue of at most Cap messages that *)
(* loses none but its oldest, and that only to take another when it is      *)
(* full.                                                                    *)
(***************************************************************************)
EXTENDS Naturals, Sequences

CONSTANT Cap
VARIABLE queue

QInit == queue = <<>>

\* Some message comes to the end of the queue.
QPut ==
    /\ queue' # <<>>
    /\ SubSeq(queue', 1, Len(queue') - 1) = IF Len(queue) < Cap THEN queue ELSE Tail(queue)

QTake == queue # <<>> /\ queue' = Tail(queue)

\* The connection is given up, and the queue with it.
QClear == queue' = <<>>

QNext == QPut \/ QTake \/ QClear

QSpec == QInit /\ [][QNext]_queue

=============================================================================
