-------------------------- MODULE SessionProtocol --------------------------
(***************************************************************************)
(* What a session promises to the user interface, whichever worker runs it: *)
(* its stream events come one by one in one order, a stream that was opened *)
(* is closed before the session is finished, and only a session that has    *)
(* said so goes away. Once the application leaves, nothing is promised.     *)
(***************************************************************************)

VARIABLES
    there,    \* there is a session
    seen,     \* the last stream event of it that was handled, "none" or "left"
    holds     \* what the stream takes from the application is held for it

pvars == <<there, seen, holds>>

PInit == ~there /\ seen = "none" /\ ~holds

Begins == ~there /\ there' /\ UNCHANGED <<seen, holds>>

Connects ==
    /\ there /\ seen = "none"
    /\ seen' = "CONNECTING"
    /\ UNCHANGED <<there, holds>>

Opens ==
    /\ there /\ seen = "CONNECTING"
    /\ seen' = "OPEN"
    /\ holds'
    /\ UNCHANGED there

Closes ==
    /\ there /\ seen = "OPEN"
    /\ seen' = "CLOSE"
    /\ ~holds'
    /\ UNCHANGED there

\* After a stream, or after a connection that failed.
Finishes ==
    /\ there /\ seen \in {"CONNECTING", "CLOSE"}
    /\ seen' = "FINISHED"
    /\ UNCHANGED <<there, holds>>

GoesAway ==
    /\ there /\ seen = "FINISHED"
    /\ ~there' /\ seen' = "none"
    /\ UNCHANGED holds

Leaves == ~there' /\ seen' = "left" /\ ~holds'

PNext == Begins \/ Connects \/ Opens \/ Closes \/ Finishes \/ GoesAway \/ Leaves

PSpec == PInit /\ [][seen # "left" /\ PNext]_pvars

=============================================================================
