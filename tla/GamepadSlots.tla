---------------------------- MODULE GamepadSlots ----------------------------
(***************************************************************************)
(* The slots of the application's input (app_input_t): which controller    *)
(* sits in which slot, the number (gs_id) it goes by on the host, and the  *)
(* mask of the numbers in use. The main thread adds a controller on        *)
(* SDL_JOYDEVICEADDED and closes it on SDL_JOYDEVICEREMOVED; the           *)
(* SDL_CONTROLLERDEVICEREMOVED that follows finds nothing left to close.   *)
(*                                                                         *)
(* A slot that was left remembers its number and whose it was, so that a   *)
(* controller that comes back gets the number it had.                      *)
(***************************************************************************)
EXTENDS Integers, FiniteSets

CONSTANTS
    Pads,       \* what SDL recognises as a game controller
    MaxPads,    \* max_num_gamepads: 4 in the code
    Identity,   \* the GUID and serial number a controller is recognised by
    NoPad

\* The memory of a slot that was never used is zeroed, which is the identity
\* of no controller.
Nobody == 0
ASSUME SlotAssumption ==
    /\ MaxPads \in Nat \ {0}
    /\ Identity \in [Pads -> Nat \ {Nobody}]
    /\ NoPad \notin Pads

Slot == 0..(MaxPads - 1)
NoNumber == -1

VARIABLES
    pad,         \* gamepads[i].instance_id and .controller: the controller in a slot
    number,      \* gamepads[i].gs_id
    memory,      \* gamepads[i].guid and .serial_crc
    activeMask,  \* activeGamepadMask
    count        \* gamepads_count

slotVars == <<pad, number, memory, activeMask, count>>

SlotTypeOK ==
    /\ pad \in [Slot -> Pads \cup {NoPad}]
    /\ number \in [Slot -> Slot \cup {NoNumber}]
    /\ memory \in [Slot -> Nat]
    /\ activeMask \in SUBSET Slot
    /\ count \in 0..MaxPads

SlotInit ==
    /\ pad = [i \in Slot |-> NoPad]
    /\ number = [i \in Slot |-> NoNumber]
    /\ memory = [i \in Slot |-> Nobody]
    /\ activeMask = {}
    /\ count = 0

Connected == {i \in Slot : pad[i] # NoPad}
Joined(p) == \E i \in Slot : pad[i] = p
SlotOf(p) == CHOOSE i \in Slot : pad[i] = p
NumberOf(p) == number[SlotOf(p)]

Least(S) == CHOOSE i \in S : \A j \in S : i <= j

\* Fault: the search runs from the last slot down.
NewIndexLast(p) ==
    LET same == {i \in Slot \ Connected : memory[i] = Identity[p]}
        from == IF same # {} THEN same ELSE Slot \ Connected
    IN  CHOOSE i \in from : \A j \in from : j <= i

\* The first free slot, unless a free one was this controller's before.
NewIndex(p) ==
    LET same == {i \in Slot \ Connected : memory[i] = Identity[p]}
    IN  Least(IF same # {} THEN same ELSE Slot \ Connected)

NextNumber == Least(Slot \ activeMask)

\* A controller beyond the maximum is ignored.
AddPad(p) ==
    LET i == NewIndex(p)
        n == IF number[i] = NoNumber THEN NextNumber ELSE number[i]
    IN  /\ ~Joined(p)
        /\ count < MaxPads
        /\ pad' = [pad EXCEPT ![i] = p]
        /\ number' = [number EXCEPT ![i] = n]
        /\ memory' = [memory EXCEPT ![i] = Identity[p]]
        /\ activeMask' = activeMask \cup {n}
        /\ count' = count + 1

\* Fault: both removal events of SDL count.
ClosePadCountsTwice(p) ==
    /\ Joined(p)
    /\ pad' = [pad EXCEPT ![SlotOf(p)] = NoPad]
    /\ activeMask' = activeMask \ {NumberOf(p)}
    /\ count' = count - 2
    /\ UNCHANGED <<number, memory>>

ClosePad(p) ==
    /\ Joined(p)
    /\ pad' = [pad EXCEPT ![SlotOf(p)] = NoPad]
    /\ activeMask' = activeMask \ {NumberOf(p)}
    /\ count' = count - 1
    /\ UNCHANGED <<number, memory>>

\* app_input_gamepad_rumble and its siblings use the host's number as an index.
RumbleTarget(n) == n

SlotNext == \E p \in Pads : AddPad(p) \/ ClosePad(p)

SlotSpec == SlotInit /\ [][SlotNext]_slotVars

-----------------------------------------------------------------------------
(* Properties.                                                             *)

\* Rumble, lights and sensors of the host reach the controller they are for:
\* the host names it by its number, and the code takes that for the slot.
RumbleFindsItsPad ==
    \A i \in Connected : RumbleTarget(number[i]) = i

\* The mask and the count that are sent to the host and that decide whether
\* another controller is let in are those of the controllers that are there.
MaskIsExact ==
    /\ activeMask = {number[i] : i \in Connected}
    /\ count = Cardinality(Connected)

\* app_input_gamepad_state_init never runs out: while fewer than the maximum
\* are connected there is a slot, and a number for it (the assertion that
\* gs_id is not negative in app_input_init_gamepad).
NumbersSuffice ==
    count < MaxPads =>
        /\ Slot \ Connected # {}
        /\ \A i \in Slot \ Connected :
               number[i] = NoNumber => Slot \ activeMask # {}

=============================================================================
