------------------------------ MODULE PartsProofs ------------------------------
(***************************************************************************)
(* Theorems about the parts of the program that do not meet, which MCParts  *)
(* checks in one run. Each is proved of the specification of its own part,  *)
(* with an inductive invariant of its own.                                  *)
(***************************************************************************)
EXTENDS SessionKeys, SessionPointer, SessionPad, StreamingView, DiscoveryThrottle, GameStream,
        HidNodes, HidTables, StoredSettings, FiniteSetTheorems, SequenceTheorems,
        WellFoundedInduction, TLAPS

-----------------------------------------------------------------------------
(* The pointer. A button that is down on the host is held by somebody, also  *)
(* while a gesture on one device comes in between on another.                *)

MouseLeft == <<"left", "mouse">>
MouseRight == <<"right", "mouse">>
TouchLeft == <<"left", "touch">>

\* Nothing is down while the session takes no input.
NothingWhileAway == ~taking => mouseDown = {} /\ ~active

GestureShape ==
    /\ dragging => leftDown
    /\ active => ~penTouch

DownIsHeld ==
    /\ "left" \in mouseDown => MouseLeft \in pressing \/ TouchLeft \in pressing
    /\ "right" \in mouseDown => MouseRight \in pressing

\* A gesture that has not begun to drag has not sent the button: if it is down, both
\* devices have it pressed.
GestureIsHeld ==
    active =>
        /\ MouseLeft \in pressing \/ TouchLeft \in pressing
        /\ "left" \in mouseDown /\ ~dragging => {MouseLeft, TouchLeft} \subseteq pressing

\* With pen and touch events a touch is none of the mouse's buttons.
PenIsNoMouse == penTouch /\ "left" \in mouseDown => MouseLeft \in pressing

PointerInv ==
    /\ PointerTypeOK
    /\ NothingWhileAway
    /\ GestureShape
    /\ lost \/ (DownIsHeld /\ GestureIsHeld /\ PenIsNoMouse)

LEMMA PressesAre == Presses = {MouseLeft, MouseRight, TouchLeft}
BY DEF Presses, MouseLeft, MouseRight, TouchLeft

LEMMA PressParts ==
    /\ MouseLeft[1] = "left" /\ MouseLeft[2] = "mouse"
    /\ MouseRight[1] = "right" /\ MouseRight[2] = "mouse"
    /\ TouchLeft[1] = "left" /\ TouchLeft[2] = "touch"
    /\ MouseLeft # TouchLeft /\ MouseRight # TouchLeft /\ MouseLeft # MouseRight
BY DEF MouseLeft, MouseRight, TouchLeft

LEMMA PointerPressed ==
    ASSUME PointerInv, NEW p \in Presses, ButtonPressed(p)
    PROVE  PointerInv'
<1>0. p \in {MouseLeft, MouseRight, TouchLeft}
  BY PressesAre
<1>1. PointerTypeOK'
  BY PressesAre, PressParts, <1>0 DEF PointerInv, PointerTypeOK, ButtonPressed, Passes, EndsOther, AfterReset,
     ForgetsGesture
<1>2. NothingWhileAway' /\ GestureShape'
  BY DEF PointerInv, NothingWhileAway, GestureShape, ButtonPressed, Reaches, IsGesture, Passes,
     EndsOther, AfterReset, ForgetsGesture
<1>3. ASSUME ~lost PROVE DownIsHeld' /\ GestureIsHeld' /\ PenIsNoMouse'
  <2>0. DownIsHeld /\ GestureIsHeld /\ PenIsNoMouse /\ GestureShape
    BY <1>3 DEF PointerInv
  <2>1. CASE ~Reaches
    <3>1. /\ pressing \subseteq pressing' /\ UNCHANGED <<active, dragging, mouseDown, penTouch>>
      BY <2>1 DEF ButtonPressed
    <3> QED
      BY <2>0, <3>1 DEF DownIsHeld, GestureIsHeld, PenIsNoMouse
  <2>2. CASE Reaches /\ IsGesture(p)
    BY <1>0, <2>0, <2>2, PressParts
       DEF ButtonPressed, DownIsHeld, GestureIsHeld, PenIsNoMouse, IsGesture
  <2>3. CASE Reaches /\ ~IsGesture(p)
    BY <1>0, <2>0, <2>3, PressParts
       DEF ButtonPressed, DownIsHeld, GestureIsHeld, PenIsNoMouse, GestureShape, IsGesture,
           Passes, EndsOther, AfterReset, ForgetsGesture
  <2> QED
    BY <2>1, <2>2, <2>3
<1> QED
  BY <1>1, <1>2, <1>3 DEF PointerInv, ButtonPressed

LEMMA PointerReleased ==
    ASSUME PointerInv, NEW p \in Presses, NEW long \in BOOLEAN, ButtonReleased(p, long)
    PROVE  PointerInv'
<1>0. p \in {MouseLeft, MouseRight, TouchLeft}
  BY PressesAre
<1>1. PointerTypeOK'
  BY PressesAre, PressParts, <1>0 DEF PointerInv, PointerTypeOK, ButtonReleased, Passes, EndsOther, AfterReset,
     ForgetsGesture, EndsGesture
<1>2. NothingWhileAway' /\ GestureShape'
  BY DEF PointerInv, NothingWhileAway, GestureShape, ButtonReleased, Reaches, IsGesture, Passes,
     EndsOther, AfterReset, ForgetsGesture, EndsGesture
<1>3. ASSUME ~lost' PROVE DownIsHeld' /\ GestureIsHeld' /\ PenIsNoMouse'
  <2>1. CASE ~Reaches
    <3>1. mouseDown' = {} /\ ~active'
      <4>1. /\ lost' = taking /\ UNCHANGED <<active, mouseDown>>
        BY <2>1 DEF ButtonReleased
      <4>2. ~taking
        BY <1>3, <4>1
      <4> QED
        BY <4>1, <4>2 DEF PointerInv, NothingWhileAway
    <3> QED
      BY <3>1 DEF DownIsHeld, GestureIsHeld, PenIsNoMouse
  <2>2. CASE Reaches
    <3>0. DownIsHeld /\ GestureIsHeld /\ PenIsNoMouse /\ GestureShape
      <4>1. lost' = lost
        BY <2>2 DEF ButtonReleased
      <4> QED
        BY <1>3, <4>1 DEF PointerInv
    <3>1. CASE IsGesture(p) /\ active
      BY <1>0, <2>2, <3>0, <3>1, PressParts
         DEF ButtonReleased, DownIsHeld, GestureIsHeld, PenIsNoMouse, GestureShape, IsGesture,
             EndsGesture, AfterReset, ForgetsGesture
    <3>2. CASE IsGesture(p) /\ ~active
      <4>1. /\ pressing' = pressing \ {p} /\ mouseDown' = mouseDown \ {p[1]}
            /\ UNCHANGED <<active, penTouch>> /\ ~penTouch /\ p[1] = "left"
        BY <2>2, <3>2 DEF ButtonReleased, IsGesture
      <4> QED
        BY <1>0, <3>0, <3>2, <4>1, PressParts DEF DownIsHeld, GestureIsHeld, PenIsNoMouse
    <3>3. CASE ~IsGesture(p)
      BY <1>0, <2>2, <3>0, <3>3, PressParts
         DEF ButtonReleased, DownIsHeld, GestureIsHeld, PenIsNoMouse, GestureShape, IsGesture,
             Passes, EndsOther, AfterReset, ForgetsGesture
    <3> QED
      BY <3>1, <3>2, <3>3
  <2> QED
    BY <2>1, <2>2
<1> QED
  BY <1>1, <1>2, <1>3 DEF PointerInv

LEMMA NextPointerInv == PointerInv /\ [PointerNext]_pointerVars => PointerInv'
<1> SUFFICES ASSUME PointerInv, [PointerNext]_pointerVars PROVE PointerInv'
  OBVIOUS
<1>1. ASSUME NEW p \in Presses, ButtonPressed(p) PROVE PointerInv'
  BY <1>1, PointerPressed
<1>2. ASSUME NEW p \in Presses, NEW long \in BOOLEAN, ButtonReleased(p, long) PROVE PointerInv'
  BY <1>2, PointerReleased
<1>3. CASE PointerMoves
  BY <1>3 DEF PointerMoves, Reaches, PointerInv, PointerTypeOK, NothingWhileAway, GestureShape,
     DownIsHeld, GestureIsHeld, PenIsNoMouse
<1>4. CASE Blocks
  BY <1>4 DEF Blocks, PointerInv, PointerTypeOK, NothingWhileAway, GestureShape,
     DownIsHeld, GestureIsHeld, PenIsNoMouse
<1>5. CASE Interrupted \/ Stops
  <2>1. /\ ~active' /\ ~dragging' /\ UNCHANGED <<penTouch, pressing>>
        /\ \/ mouseDown' = {}
           \/ lost' = lost /\ taking' = taking /\ mouseDown' \subseteq mouseDown
    BY <1>5 DEF Interrupted, Stops, AfterReset, ForgetsGesture
  <2>2. PointerTypeOK'
    BY <1>5 DEF Interrupted, Stops, AfterReset, ForgetsGesture, PointerInv, PointerTypeOK
  <2>3. NothingWhileAway' /\ GestureShape'
    BY <2>1 DEF PointerInv, NothingWhileAway, GestureShape
  <2>4. lost' \/ (DownIsHeld' /\ GestureIsHeld' /\ PenIsNoMouse')
    BY <2>1 DEF PointerInv, DownIsHeld, GestureIsHeld, PenIsNoMouse
  <2> QED
    BY <2>2, <2>3, <2>4 DEF PointerInv
<1>6. CASE Starts
  BY <1>6 DEF Starts, PointerInv, PointerTypeOK, NothingWhileAway, GestureShape,
     DownIsHeld, GestureIsHeld, PenIsNoMouse
<1>7. CASE UNCHANGED pointerVars
  BY <1>7 DEF pointerVars, PointerInv, PointerTypeOK, NothingWhileAway, GestureShape,
     DownIsHeld, GestureIsHeld, PenIsNoMouse
<1> QED
  BY <1>1, <1>2, <1>3, <1>4, <1>5, <1>6, <1>7 DEF PointerNext

\* The inductive invariant of the pointer holds in every behaviour.
THEOREM PointerInvariance == PointerSpec => []PointerInv
<1>1. PointerInit => PointerInv
  BY DEF PointerInit, PointerInv, PointerTypeOK, NothingWhileAway, GestureShape,
     DownIsHeld, GestureIsHeld, PenIsNoMouse
<1> QED
  BY <1>1, NextPointerInv, PTL DEF PointerSpec

\* No mouse button stays down on the host once nobody holds it, whatever clicks, long
\* presses and drags of mouse and touch screen cross each other, unless its release was
\* lost to the user interface.
THEOREM PointerIsHeld == PointerSpec => []ButtonsAreHeld
<1>1. PointerInv => ButtonsAreHeld
  <2> SUFFICES ASSUME PointerInv, ~lost, NEW b \in mouseDown PROVE \E p \in pressing : b = p[1]
    BY DEF ButtonsAreHeld, PointerInv
  <2>1. b \in {"left", "right"}
    BY DEF PointerInv, PointerTypeOK
  <2> QED
    BY <2>1, PressParts DEF PointerInv, DownIsHeld
<1> QED
  BY <1>1, PointerInvariance, PTL

-----------------------------------------------------------------------------
(* The keys. What is down on the host is in the list the flush goes through. *)

\* The host hears nothing of a session that only watches, and forgets with the
\* connection.
HostIsSilent == (~started => host = {}) /\ (viewOnly => host = {})

KeysInv ==
    /\ KeysAtHostAreListed
    /\ HostIsSilent

LEMMA UnlistedCounts ==
    ASSUME listed \in [Keys -> 0 .. MaxListed], NEW ks \in SUBSET Keys
    PROVE  /\ Unlisted(ks) \in [Keys -> 0 .. MaxListed]
           /\ \A k \in Keys \ ks : Unlisted(ks)[k] = listed[k]
<1>1. MaxListed \in Nat
  BY KeysAssumption
<1>2. \A k \in Keys : /\ Unlisted(ks)[k] = IF k \in ks /\ listed[k] > 0 THEN listed[k] - 1
                                                                     ELSE listed[k]
                      /\ listed[k] \in 0 .. MaxListed
  BY DEF Unlisted
<1>3. \A k \in Keys : Unlisted(ks)[k] \in 0 .. MaxListed
  BY <1>1, <1>2
<1>4. Unlisted(ks) \in [Keys -> 0 .. MaxListed]
  BY <1>3 DEF Unlisted
<1> QED
  BY <1>2, <1>4

\* One more node of a key in the list
LEMMA ListedCounts ==
    ASSUME listed \in [Keys -> 0 .. MaxListed], NEW k \in Keys, listed[k] < MaxListed,
           listed' = [listed EXCEPT ![k] = @ + 1]
    PROVE  /\ listed' \in [Keys -> 0 .. MaxListed] /\ listed'[k] > 0
           /\ \A x \in Keys : listed[x] > 0 => listed'[x] > 0
<1>1. MaxListed \in Nat
  BY KeysAssumption
<1>2. listed[k] \in 0 .. MaxListed
  OBVIOUS
<1>3. listed[k] + 1 \in 0 .. MaxListed /\ listed[k] + 1 > 0
  BY <1>1, <1>2
<1> QED
  BY <1>3

\* A combo is noted with one key.
LEMMA ComboTypes ==
    ASSUME pending \subseteq ComboKeys, Cardinality(pending) <= 1, NEW k, NEW down
    PROVE  ComboOf(k, down) \subseteq ComboKeys /\ Cardinality(ComboOf(k, down)) <= 1
<1>1. Cardinality({k}) = 1
  BY FS_Singleton
<1> QED
  BY <1>1 DEF ComboOf

\* What is sent down is listed; what is taken from the list is sent up.
LEMMA SendsKeep ==
    ASSUME KeysInv, UNCHANGED <<started, viewOnly>>,
           (\E k \in Keys : SendsDown(k)) \/ (\E ks \in SUBSET Keys : SendsUp(ks))
    PROVE  /\ listed' \in [Keys -> 0 .. MaxListed] /\ host' \subseteq Keys
           /\ \A k \in host' : listed'[k] > 0
           /\ HostIsSilent'
<1>0. /\ listed \in [Keys -> 0 .. MaxListed] /\ host \subseteq Keys
      /\ \A k \in host : listed[k] > 0
  BY DEF KeysInv, KeysAtHostAreListed, KeysTypeOK
<1>1. CASE viewOnly
  BY <1>0, <1>1 DEF SendsDown, SendsUp, KeysInv, HostIsSilent
<1>2. ASSUME ~viewOnly, NEW k \in Keys, SendsDown(k)
      PROVE  /\ listed' \in [Keys -> 0 .. MaxListed] /\ host' \subseteq Keys
             /\ \A x \in host' : listed'[x] > 0
             /\ HostIsSilent'
  <2>1. /\ listed[k] < MaxListed /\ listed' = [listed EXCEPT ![k] = @ + 1]
        /\ host' = IF started THEN host \cup {k} ELSE host
    BY <1>2 DEF SendsDown, Told
  <2>2. /\ listed' \in [Keys -> 0 .. MaxListed] /\ listed'[k] > 0
        /\ \A x \in Keys : listed[x] > 0 => listed'[x] > 0
    BY <1>0, <2>1, ListedCounts
  <2> QED
    BY <1>0, <1>2, <2>1, <2>2 DEF KeysInv, HostIsSilent
<1>3. ASSUME ~viewOnly, NEW ks \in SUBSET Keys, SendsUp(ks)
      PROVE  /\ listed' \in [Keys -> 0 .. MaxListed] /\ host' \subseteq Keys
             /\ \A x \in host' : listed'[x] > 0
             /\ HostIsSilent'
  <2>1. listed' = Unlisted(ks) /\ host' = host \ ks
    BY <1>3 DEF SendsUp
  <2>2. /\ Unlisted(ks) \in [Keys -> 0 .. MaxListed]
        /\ \A k \in Keys \ ks : Unlisted(ks)[k] = listed[k]
    BY <1>0, UnlistedCounts
  <2>3. \A x \in host' : x \in Keys \ ks /\ listed[x] > 0
    BY <1>0, <2>1
  <2> QED
    BY <1>0, <1>3, <2>1, <2>2, <2>3 DEF KeysInv, HostIsSilent
<1> QED
  BY <1>1, <1>2, <1>3

\* A key, or the keys let go by hand, of the client's keyboard
LEMMA KeyStepKeeps ==
    ASSUME KeysInv, WithinDrift, NEW k \in Keys, KeyPressed(k) \/ KeyRepeats(k) \/ KeyReleased(k)
    PROVE  KeysInv'
<1>0. /\ KeysTypeOK /\ (\A x \in host : listed[x] > 0) /\ HostIsSilent
      /\ pending \subseteq ComboKeys /\ Cardinality(pending) <= 1
      /\ listed \in [Keys -> 0 .. MaxListed] /\ host \subseteq Keys /\ held \subseteq Keys
  BY DEF KeysInv, KeysAtHostAreListed, KeysTypeOK
<1>1. keydown_count' \in Int
  BY KeysAssumption DEF WithinDrift
<1>2. UNCHANGED <<started, viewOnly, shown, mods>> /\ okPressed' \in BOOLEAN /\ held' \subseteq Keys
  BY <1>0 DEF KeyPressed, KeyRepeats, KeyReleased, StaysInUi, KeysTypeOK
<1>3. pending' \subseteq ComboKeys /\ Cardinality(pending') <= 1
  <2>1. Cardinality({}) = 0
    BY FS_EmptySet
  <2>2. pending' \in {pending, {}} \/ \E down : pending' = ComboOf(k, down)
    BY DEF KeyPressed, KeyRepeats, KeyReleased, StaysInUi
  <2> QED
    BY <1>0, <2>1, <2>2, ComboTypes
<1>4. /\ listed' \in [Keys -> 0 .. MaxListed] /\ host' \subseteq Keys
      /\ \A x \in host' : listed'[x] > 0
      /\ HostIsSilent'
  <2>1. CASE UNCHANGED <<listed, host>>
    BY <1>0, <1>2, <2>1 DEF HostIsSilent
  <2>2. CASE KeyPressed(k) /\ ~UNCHANGED <<listed, host>>
    <3>1. /\ started /\ listed[k] < MaxListed /\ listed' = [listed EXCEPT ![k] = @ + 1]
          /\ host' = IF viewOnly THEN host ELSE host \cup {k}
      BY <2>2 DEF KeyPressed, StaysInUi, Accepting
    <3>2. /\ listed' \in [Keys -> 0 .. MaxListed] /\ listed'[k] > 0
          /\ \A x \in Keys : listed[x] > 0 => listed'[x] > 0
      BY <1>0, <3>1, ListedCounts
    <3> QED
      BY <1>0, <1>2, <3>1, <3>2 DEF HostIsSilent
  <2>3. CASE KeyReleased(k) /\ ~UNCHANGED <<listed, host>>
    <3>1. listed' = Unlisted({k}) /\ host' = IF viewOnly THEN host ELSE host \ {k}
      BY <2>3 DEF KeyReleased, StaysInUi
    <3>2. host' = host \ {k}
      BY <1>0, <3>1 DEF HostIsSilent
    <3>3. /\ Unlisted({k}) \in [Keys -> 0 .. MaxListed]
          /\ \A x \in Keys \ {k} : Unlisted({k})[x] = listed[x]
      BY <1>0, UnlistedCounts
    <3>4. \A x \in host' : x \in Keys \ {k} /\ listed[x] > 0
      BY <1>0, <3>2
    <3> QED
      BY <1>0, <1>2, <3>1, <3>2, <3>3, <3>4 DEF HostIsSilent
  <2>4. CASE KeyRepeats(k)
    BY <2>1, <2>4 DEF KeyRepeats
  <2> QED
    BY <2>1, <2>2, <2>3, <2>4
<1> QED
  BY <1>0, <1>1, <1>2, <1>3, <1>4 DEF KeysInv, KeysAtHostAreListed, KeysTypeOK

\* The flush finds everything that is down on the host.
LEMMA FlushCleans ==
    ASSUME KeysInv, Flushes
    PROVE  /\ listed' \in [Keys -> 0 .. MaxListed] /\ host' = {}
           /\ pending' \in {pending, {}} /\ (pending' = pending \/ host' = {})
<1>0. /\ listed \in [Keys -> 0 .. MaxListed] /\ (\A x \in host : listed[x] > 0) /\ HostIsSilent
      /\ host \subseteq Keys
  BY DEF KeysInv, KeysAtHostAreListed, KeysTypeOK
<1>1. CASE viewOnly
  BY <1>0, <1>1 DEF Flushes, HostIsSilent
<1>2. CASE ~viewOnly
  <2>1. host' = {k \in host : listed[k] = 0} /\ listed' = NoneListed /\ pending' = {}
    BY <1>2 DEF Flushes
  <2>2. NoneListed \in [Keys -> 0 .. MaxListed]
    BY KeysAssumption DEF NoneListed
  <2>3. \A k \in host : listed[k] # 0
    BY <1>0
  <2> QED
    BY <2>1, <2>2, <2>3
<1> QED
  BY <1>1, <1>2

LEMMA NextKeysInv == KeysInv /\ [KeysNext]_keysVars => KeysInv'
<1> SUFFICES ASSUME KeysInv, [KeysNext]_keysVars PROVE KeysInv'
  OBVIOUS
<1>0. /\ KeysTypeOK /\ (\A x \in host : listed[x] > 0) /\ HostIsSilent
      /\ listed \in [Keys -> 0 .. MaxListed] /\ host \subseteq Keys
      /\ Chord \in Keys
  BY KeysAssumption DEF KeysInv, KeysAtHostAreListed, KeysTypeOK
<1>1. ASSUME WithinDrift PROVE keydown_count' \in Int
  BY <1>1, KeysAssumption DEF WithinDrift
<1>2. ASSUME WithinDrift, NEW k \in Keys, KeyPressed(k) \/ KeyRepeats(k) \/ KeyReleased(k)
      PROVE  KeysInv'
  BY <1>2, KeyStepKeeps
<1>3. ASSUME WithinDrift, NEW k \in Keys,
             KeyClicked(k) \/ PadKeyPressed(k) \/ PadKeyReleased(k) \/ ModifierClicked
      PROVE  KeysInv'
  <2>1. /\ UNCHANGED <<started, viewOnly, shown, held, pending, okPressed>> /\ mods' \in BOOLEAN
    BY <1>0, <1>3 DEF KeyClicked, PadKeyPressed, PadKeyReleased, ModifierClicked, KeysTypeOK
  <2>2. /\ listed' \in [Keys -> 0 .. MaxListed] /\ host' \subseteq Keys
        /\ \A x \in host' : listed'[x] > 0
        /\ HostIsSilent'
    <3>1. CASE UNCHANGED <<listed, host>>
      BY <1>0, <2>1, <3>1 DEF HostIsSilent
    <3>2. CASE (\E x \in Keys : SendsDown(x)) \/ (\E ks \in SUBSET Keys : SendsUp(ks))
      BY <2>1, <3>2, SendsKeep
    <3>3. CASE KeyClicked(k) /\ ~UNCHANGED <<listed, host>>
      <4>1. /\ host' = host \ ({k} \cup IF mods THEN {Chord} ELSE {})
            /\ listed' = IF mods THEN Unlisted({Chord}) ELSE listed
        BY <3>3 DEF KeyClicked
      <4>2. /\ Unlisted({Chord}) \in [Keys -> 0 .. MaxListed]
            /\ \A x \in Keys \ {Chord} : Unlisted({Chord})[x] = listed[x]
        BY <1>0, UnlistedCounts
      <4>3. listed' \in [Keys -> 0 .. MaxListed]
        BY <1>0, <4>1, <4>2
      <4>4. \A x \in host' : listed'[x] > 0
        <5>1. CASE mods
          BY <1>0, <4>1, <4>2, <5>1
        <5>2. CASE ~mods
          BY <1>0, <4>1, <5>2
        <5> QED
          BY <5>1, <5>2
      <4> QED
        BY <1>0, <2>1, <4>1, <4>3, <4>4 DEF HostIsSilent
    <3>4. CASE ModifierClicked /\ ~UNCHANGED <<listed, host>>
      <4>1. SendsDown(Chord) \/ SendsUp({Chord})
        BY <3>4 DEF ModifierClicked
      <4>2. {Chord} \in SUBSET Keys
        BY <1>0
      <4> QED
        BY <1>0, <3>2, <4>1, <4>2
    <3>5. CASE PadKeyPressed(k) \/ PadKeyReleased(k)
      <4>1. {k} \in SUBSET Keys
        BY <1>3
      <4> QED
        BY <3>2, <3>5, <4>1 DEF PadKeyPressed, PadKeyReleased
    <3> QED
      BY <1>3, <3>1, <3>3, <3>4, <3>5
  <2> QED
    BY <1>0, <1>1, <1>3, <2>1, <2>2 DEF KeysInv, KeysAtHostAreListed, KeysTypeOK
<1>4. ASSUME OverlayShown \/ OverlayHidden \/ KeyboardOpens PROVE KeysInv'
  <2>1. /\ UNCHANGED <<started, viewOnly, held, listed, keydown_count, pending, okPressed, host>>
        /\ mods' \in {mods, FALSE} /\ shown' \subseteq {"overlay", "keyboard"}
    BY <1>0, <1>4 DEF OverlayShown, OverlayHidden, KeyboardOpens, KeysTypeOK
  <2> QED
    BY <1>0, <2>1 DEF KeysInv, KeysAtHostAreListed, KeysTypeOK, HostIsSilent
<1>5. ASSUME WithinDrift, KeyboardCloses PROVE KeysInv'
  <2>1. /\ listed' \in [Keys -> 0 .. MaxListed] /\ host' = {} /\ pending' \in {pending, {}}
    BY <1>5, FlushCleans DEF KeyboardCloses
  <2>2. UNCHANGED <<started, viewOnly, held, okPressed>> /\ mods' \in BOOLEAN
        /\ shown' \subseteq {"overlay", "keyboard"}
    BY <1>0, <1>5 DEF KeyboardCloses, KeysTypeOK
  <2>3. Cardinality({}) = 0
    BY FS_EmptySet
  <2>4. pending' \subseteq ComboKeys /\ Cardinality(pending') <= 1
    BY <1>0, <2>1, <2>3 DEF KeysTypeOK
  <2> QED
    BY <1>0, <1>1, <1>5, <2>1, <2>2, <2>4 DEF KeysInv, KeysAtHostAreListed, KeysTypeOK, HostIsSilent
<1>6. ASSUME InputStops \/ NextStarts PROVE KeysInv'
  BY <1>0, <1>6 DEF InputStops, NextStarts, KeysInv, KeysAtHostAreListed, KeysTypeOK, HostIsSilent
<1>7. CASE UNCHANGED keysVars
  BY <1>0, <1>7 DEF keysVars, KeysInv, KeysAtHostAreListed, KeysTypeOK, HostIsSilent
<1>8. CASE KeysNext
  BY <1>0, <1>2, <1>3, <1>4, <1>5, <1>6, <1>8 DEF KeysNext
<1> QED
  BY <1>7, <1>8

\* The inductive invariant of the keys holds in every behaviour.
THEOREM KeysInvariance == KeysSpec => []KeysInv
<1>1. ASSUME KeysInit PROVE KeysInv
  <2>1. NoneListed \in [Keys -> 0 .. MaxListed]
    BY KeysAssumption DEF NoneListed
  <2>2. Cardinality({}) = 0
    BY FS_EmptySet
  <2> QED
    <3>1. KeysTypeOK
      <4>1. listed \in [Keys -> 0 .. MaxListed] /\ keydown_count \in Int
        BY <1>1, <2>1 DEF KeysInit
      <4>2. Cardinality(pending) = 0 /\ pending \subseteq ComboKeys
        BY <1>1, <2>2 DEF KeysInit
      <4>3. /\ {started, viewOnly, okPressed, mods} \subseteq BOOLEAN
            /\ shown \subseteq {"overlay", "keyboard"} /\ held \subseteq Keys /\ host \subseteq Keys
        BY <1>1 DEF KeysInit
      <4> QED
        BY <4>1, <4>2, <4>3 DEF KeysTypeOK
    <3> QED
      BY <1>1, <3>1 DEF KeysInit, KeysInv, KeysAtHostAreListed, HostIsSilent
<1> QED
  BY <1>1, NextKeysInv, PTL DEF KeysSpec

\* A key that is down on the host can be released by the flush, whatever the overlay,
\* the gamepad and the ends of sessions have kept from the lists.
THEOREM KeysCanBeFlushed == KeysSpec => []KeysAtHostAreListed
<1>1. KeysInv => KeysAtHostAreListed
  BY DEF KeysInv
<1> QED
  BY <1>1, KeysInvariance, PTL

\* A combo is carried out, or forgotten, with every key up on the host.
THEOREM CombosLeaveNoKey == KeysSpec => CombosStartClean
<1>1. ASSUME KeysInv, KeysInv', [KeysNext]_keysVars
      PROVE  [(pending # {} /\ pending' = {}) => host' = {}]_keysVars
  <2> SUFFICES ASSUME KeysNext, pending # {}, pending' = {} PROVE host' = {}
    BY <1>1 DEF keysVars
  <2>1. PICK k \in Keys : KeyReleased(k) \/ KeyboardCloses
    <3>1. ~(OverlayShown \/ OverlayHidden \/ KeyboardOpens \/ ModifierClicked \/ InputStops \/ NextStarts)
      BY DEF OverlayShown, OverlayHidden, KeyboardOpens, ModifierClicked, InputStops, NextStarts
    <3>2. \A k \in Keys : ~(KeyPressed(k) \/ KeyRepeats(k) \/ KeyClicked(k) \/ PadKeyPressed(k)
                            \/ PadKeyReleased(k))
      BY DEF KeyPressed, KeyRepeats, KeyClicked, PadKeyPressed, PadKeyReleased, StaysInUi, ComboOf
    <3>3. Chord \in Keys
      BY KeysAssumption
    <3> QED
      BY <3>1, <3>2, <3>3 DEF KeysNext
  <2>2. CASE KeyboardCloses
    BY <1>1, <2>2, FlushCleans DEF KeyboardCloses
  <2>3. CASE KeyReleased(k)
    <3>1. listed' = NoneListed
      BY <2>3 DEF KeyReleased, StaysInUi, Performs
    <3>2. host' \subseteq Keys /\ \A x \in host' : listed'[x] > 0
      BY <1>1 DEF KeysInv, KeysAtHostAreListed, KeysTypeOK
    <3> QED
      BY <3>1, <3>2 DEF NoneListed
  <2> QED
    BY <2>1, <2>2, <2>3
<1> QED
  BY <1>1, KeysInvariance, PTL DEF KeysSpec, CombosStartClean

-----------------------------------------------------------------------------
(* The gamepads. The timer thread of the virtual mouse gets in between the   *)
(* two writes of the main thread, and only then is a write under way.        *)

PadInv ==
    /\ PadsAtRest
    /\ writing => vmActive

\* A combo is of buttons.
LEMMA CombosHaveButtons ==
    /\ \A bs : ComboOfPad(bs) # {} => bs # {}
    /\ \A bs : ComboOfPad(bs) \subseteq DOMAIN ComboButtons
<1>1. /\ DOMAIN ComboButtons = {"quit", "vmouse", "keyboard"}
      /\ "lb" \in ComboButtons.quit /\ "lb" \in ComboButtons.vmouse /\ "rb" \in ComboButtons.keyboard
  BY DEF ComboButtons
<1> QED
  BY <1>1 DEF ComboOfPad

\* Switched off, the virtual mouse holds nothing and has no timer.
LEMMA ToggleRests ==
    ASSUME PadInv, Toggles
    PROVE  /\ vmActive' => HasVmouse
           /\ {vmActive', vmX', vmY', vmLeft', timerId', timerRuns'} \subseteq BOOLEAN
           /\ ~vmActive' => ~vmLeft' /\ ~timerId' /\ ~timerRuns'
<1>1. {vmX, vmY, vmLeft, timerId, timerRuns, HasVmouse} \subseteq BOOLEAN
  BY PadAssumption DEF PadInv, PadsAtRest, PadTypeOK
<1> QED
  BY <1>1 DEF Toggles

LEMMA ButtonKeepsRest ==
    ASSUME PadInv, NEW p \in Pads, NEW b \in Button, NEW pressed \in BOOLEAN,
           ButtonChanges(p, b, pressed)
    PROVE  PadInv'
<1> DEFINE bs == buttons'[p]
<1>0. /\ buttons \in [Pads -> SUBSET Button] /\ hostPad \in [Pads -> SUBSET Button]
      /\ (\A q \in Pads : buttons[q] = {} => hostPad[q] = {})
      /\ stick \in [x : BOOLEAN, y : BOOLEAN] /\ noted \subseteq DOMAIN ComboButtons
      /\ {trigger, vmActive, vmX, vmY, vmLeft, timerId, timerRuns, writing} \subseteq BOOLEAN
      /\ ~vmActive => ~vmLeft /\ ~timerId /\ ~timerRuns
  BY DEF PadInv, PadsAtRest, PadTypeOK
<1>1. /\ ~writing /\ writing' = writing /\ Handled(p, bs)
      /\ buttons' \in [Pads -> SUBSET Button] /\ bs \in SUBSET Button
      /\ \A q \in Pads \ {p} : buttons'[q] = buttons[q]
  <2>1. buttons' = [buttons EXCEPT ![p] = IF pressed THEN @ \cup {b} ELSE @ \ {b}]
    BY DEF ButtonChanges
  <2>2. (IF pressed THEN buttons[p] \cup {b} ELSE buttons[p] \ {b}) \in SUBSET Button
    BY <1>0
  <2> QED
    BY <1>0, <2>1, <2>2 DEF ButtonChanges
<1> HIDE DEF bs
<1>2. /\ UNCHANGED <<stick, trigger>> \/ (stick' = [x |-> FALSE, y |-> FALSE] /\ trigger' = FALSE)
      /\ UNCHANGED mouseVars \/ Toggles
      /\ noted' = noted \cup ComboOfPad(bs) \/ noted' \subseteq noted
  BY <1>1 DEF Handled
<1>3. \/ hostPad' = hostPad /\ bs # {}
      \/ hostPad' = [hostPad EXCEPT ![p] = bs]
  <2>1. CASE ComboOfPad(bs) # {} /\ UNCHANGED hostPad
    BY <2>1, CombosHaveButtons
  <2> QED
    BY <1>1, <2>1 DEF Handled
<1>4. hostPad' \in [Pads -> SUBSET Button] /\ \A q \in Pads : buttons'[q] = {} => hostPad'[q] = {}
  <2>1. CASE hostPad' = hostPad /\ bs # {}
    BY <1>0, <1>1, <2>1 DEF bs
  <2>2. CASE hostPad' = [hostPad EXCEPT ![p] = bs]
    BY <1>0, <1>1, <2>2 DEF bs
  <2> QED
    BY <1>3, <2>1, <2>2
<1>5. noted' \subseteq DOMAIN ComboButtons
  BY <1>0, <1>2, CombosHaveButtons
<1>6. stick' \in [x : BOOLEAN, y : BOOLEAN] /\ {trigger', writing'} \subseteq BOOLEAN
  <2>1. CASE UNCHANGED <<stick, trigger>>
    BY <1>0, <1>1, <2>1
  <2>2. CASE stick' = [x |-> FALSE, y |-> FALSE] /\ trigger' = FALSE
    BY <1>0, <1>1, <2>2
  <2> QED
    BY <1>2, <2>1, <2>2
<1>7. /\ {vmActive', vmX', vmY', vmLeft', timerId', timerRuns'} \subseteq BOOLEAN
      /\ ~vmActive' => ~vmLeft' /\ ~timerId' /\ ~timerRuns'
  <2>1. CASE UNCHANGED mouseVars
    BY <1>0, <2>1 DEF mouseVars
  <2> QED
    BY <1>2, <2>1, ToggleRests
<1> QED
  BY <1>1, <1>4, <1>5, <1>6, <1>7 DEF PadInv, PadsAtRest, PadTypeOK

LEMMA NextPadInv == PadInv /\ [PadNext]_padVars => PadInv'
<1> SUFFICES ASSUME PadInv, [PadNext]_padVars PROVE PadInv'
  OBVIOUS
<1>0. /\ PadTypeOK /\ (\A q \in Pads : buttons[q] = {} => hostPad[q] = {})
      /\ ~vmActive => ~vmLeft /\ ~timerId /\ ~timerRuns
      /\ writing => vmActive
  BY DEF PadInv, PadsAtRest
<1>1. ASSUME NEW p \in Pads, NEW b \in Button, NEW pressed \in BOOLEAN, ButtonChanges(p, b, pressed)
      PROVE  PadInv'
  BY <1>1, ButtonKeepsRest
<1>2. ASSUME NEW s \in [x : BOOLEAN, y : BOOLEAN], NEW t \in BOOLEAN, AxisMoves(s, t)
      PROVE  PadInv'
  <2>1. /\ UNCHANGED <<buttons, noted, hostPad, vmActive, vmY, vmLeft, timerId, timerRuns>>
        /\ stick' = s /\ trigger' = t
        /\ (writing' = TRUE /\ vmActive /\ vmX' = s.x) \/ UNCHANGED <<writing, vmX>>
    BY <1>2 DEF AxisMoves
  <2>2. PadTypeOK'
    BY <1>0, <2>1 DEF PadTypeOK
  <2> QED
    BY <1>0, <2>1, <2>2 DEF PadInv, PadsAtRest
<1>3. CASE VectorSet
  <2>1. /\ UNCHANGED <<buttons, noted, hostPad, stick, trigger, vmActive, vmX>>
        /\ vmActive /\ ~writing' /\ writing' \in BOOLEAN
    BY <1>0, <1>3 DEF VectorSet
  <2>2. vmY' = stick.y /\ vmLeft' = trigger /\ {timerId', timerRuns'} \subseteq BOOLEAN
    BY <1>0, <1>3 DEF VectorSet, UpdatesTimer, PadTypeOK
  <2>3. PadTypeOK'
    BY <1>0, <2>1, <2>2 DEF PadTypeOK
  <2> QED
    BY <1>0, <2>1, <2>3 DEF PadInv, PadsAtRest
<1>4. CASE TimerGivesUp
  <2>1. /\ UNCHANGED <<buttons, noted, hostPad, stick, trigger, vmActive, vmX, vmY, vmLeft, timerId, writing>>
        /\ timerRuns' = FALSE
    BY <1>4 DEF TimerGivesUp
  <2>2. PadTypeOK'
    BY <1>0, <2>1 DEF PadTypeOK
  <2> QED
    BY <1>0, <2>1, <2>2 DEF PadInv, PadsAtRest
<1>5. CASE VmouseClicked
  <2>1. UNCHANGED <<buttons, noted, hostPad, stick, trigger, writing>> /\ ~writing /\ Toggles
    BY <1>5 DEF VmouseClicked
  <2>2. /\ {vmActive', vmX', vmY', vmLeft', timerId', timerRuns'} \subseteq BOOLEAN
        /\ ~vmActive' => ~vmLeft' /\ ~timerId' /\ ~timerRuns'
    BY <2>1, ToggleRests
  <2>3. PadTypeOK'
    BY <1>0, <2>1, <2>2 DEF PadTypeOK
  <2> QED
    BY <1>0, <2>1, <2>2, <2>3 DEF PadInv, PadsAtRest
<1>6. CASE UNCHANGED padVars
  BY <1>6 DEF padVars, PadInv, PadsAtRest, PadTypeOK
<1> QED
  BY <1>1, <1>2, <1>3, <1>4, <1>5, <1>6 DEF PadNext

\* The inductive invariant of the gamepads holds in every behaviour.
THEOREM PadInvariance == PadSpec => []PadInv
<1>1. ASSUME PadInit PROVE PadInv
  <2>1. /\ buttons \in [Pads -> SUBSET Button] /\ hostPad = buttons
        /\ \A p \in Pads : buttons[p] = {}
    BY <1>1 DEF PadInit
  <2>2. /\ {trigger, vmActive, vmX, vmY, vmLeft, timerId, timerRuns, writing} \subseteq BOOLEAN
        /\ noted = {} /\ stick \in [x : BOOLEAN, y : BOOLEAN]
        /\ ~vmLeft /\ ~timerId /\ ~timerRuns /\ ~writing
    BY <1>1 DEF PadInit
  <2> QED
    BY <2>1, <2>2 DEF PadInv, PadsAtRest, PadTypeOK
<1> QED
  BY <1>1, NextPadInv, PTL DEF PadSpec

\* A pad at rest is at rest on the host too, whichever pad's combo was carried out, and a
\* virtual mouse that is off holds no button and has no timer.
THEOREM PadsComeToRest == PadSpec => []PadsAtRest
<1>1. PadInv => PadsAtRest
  BY DEF PadInv
<1> QED
  BY <1>1, PadInvariance, PTL

-----------------------------------------------------------------------------
(* The view over the stream. A view that is leaving has no panel and no      *)
(* command to come, so its deletion leaves nothing.                          *)

StreamHasView ==
    stream \in {"connecting", "open", "closing"} \/ (stream = "none" /\ session) => view = "shown"

LeavesClean ==
    /\ view = "leaving" => stream = "over"
    /\ view # "shown" => ~panel /\ posted = {}
    /\ view = "none" => keyboard = "none"

\* The progress dialog is that of the connection or of its end.
ProgressIsShown ==
    /\ progress <=> stream \in {"connecting", "closing"}
    /\ dialogs = IF progress THEN 1 ELSE 0

ViewInv ==
    /\ ViewInOrder
    /\ StreamHasView
    /\ LeavesClean
    /\ ProgressIsShown

LEMMA NextViewInv == ViewInv /\ [ViewNext]_viewVars => ViewInv'
<1> SUFFICES ASSUME ViewInv, [ViewNext]_viewVars PROVE ViewInv'
  OBVIOUS
<1> USE DEF ViewInv, ViewInOrder, ViewTypeOK, StreamHasView, LeavesClean, ProgressIsShown
<1>1. CASE ViewCreated
  BY <1>1 DEF ViewCreated
<1>2. CASE StreamConnecting
  BY <1>2 DEF StreamConnecting
<1>3. CASE StreamOpen
  <2>1. /\ stream = "connecting" /\ stream' = "open" /\ grab' = TRUE /\ progress' = FALSE
        /\ UNCHANGED <<view, session, overlay, keyboard, orphan, panel, appGroup, modal, posted>>
    BY <1>3 DEF StreamOpen, ClosesProgress
  <2>2. dialogs' = 0
    BY <1>3 DEF StreamOpen, ClosesProgress
  <2>3. dialogs' \in 0 .. 1 /\ (dialogs' = IF progress' THEN 1 ELSE 0)
    BY <2>1, <2>2
  <2>4. ViewTypeOK'
    BY <2>1, <2>3
  <2>5. /\ modal' => panel'
        /\ appGroup' = "view" => view' # "none"
        /\ appGroup' = "keyboard" => keyboard' # "none"
        /\ stream' = "open" /\ ~overlay' /\ keyboard' = "none" => grab'
    BY <2>1
  <2>6. StreamHasView' /\ LeavesClean' /\ view' # "none"
    BY <2>1
  <2>7. progress' <=> stream' \in {"connecting", "closing"}
    BY <2>1
  <2> QED
    BY <2>3, <2>4, <2>5, <2>6, <2>7
<1>4. CASE StreamClose
  <2>1. /\ stream = "open" /\ stream' = "closing" /\ grab' = FALSE /\ progress' = TRUE
        /\ UNCHANGED <<view, session, overlay, keyboard, orphan, panel, appGroup, modal, posted>>
    BY <1>4 DEF StreamClose
  <2>2. dialogs' = 1
    BY <1>4 DEF StreamClose
  <2>3. dialogs' \in 0 .. 1 /\ (dialogs' = IF progress' THEN 1 ELSE 0)
    BY <2>1, <2>2
  <2>4. ViewTypeOK'
    BY <2>1, <2>3
  <2>5. /\ modal' => panel'
        /\ appGroup' = "view" => view' # "none"
        /\ appGroup' = "keyboard" => keyboard' # "none"
        /\ stream' = "open" /\ ~overlay' /\ keyboard' = "none" => grab'
    BY <2>1
  <2>6. StreamHasView' /\ LeavesClean' /\ view' # "none"
    BY <2>1
  <2>7. progress' <=> stream' \in {"connecting", "closing"}
    BY <2>1
  <2> QED
    BY <2>3, <2>4, <2>5, <2>6, <2>7
<1>5. CASE StreamFinished
  <2>1. /\ stream \in {"connecting", "closing"} /\ stream' = "over" /\ progress' = FALSE
        /\ posted = {} /\ view' = "leaving" /\ panel' = FALSE /\ modal' = FALSE
        /\ appGroup' \in {appGroup, "view"}
        /\ UNCHANGED <<session, overlay, keyboard, orphan, grab, posted>>
    BY <1>5 DEF StreamFinished, ClosesProgress, ClosesPanel
  <2>2. dialogs' = 0
    BY <1>5 DEF StreamFinished, ClosesProgress
  <2>3. dialogs' \in 0 .. 1 /\ (dialogs' = IF progress' THEN 1 ELSE 0)
    BY <2>1, <2>2
  <2>4. ViewTypeOK'
    BY <2>1, <2>3
  <2>5. /\ modal' => panel'
        /\ appGroup' = "view" => view' # "none"
        /\ appGroup' = "keyboard" => keyboard' # "none"
        /\ stream' = "open" /\ ~overlay' /\ keyboard' = "none" => grab'
    BY <2>1
  <2>6. StreamHasView' /\ LeavesClean' /\ view' # "none"
    BY <2>1
  <2>7. progress' <=> stream' \in {"connecting", "closing"}
    BY <2>1
  <2> QED
    BY <2>3, <2>4, <2>5, <2>6, <2>7
<1>6. CASE SessionDestroyed
  BY <1>6 DEF SessionDestroyed
<1>7. CASE ViewDeleted
  BY <1>7 DEF ViewDeleted
<1>8. ASSUME NEW c \in Command, Posts(c) PROVE ViewInv'
  BY <1>8 DEF Posts
<1>9. ASSUME NEW c \in Command, OnCommand(c) PROVE ViewInv'
  <2>1. /\ UNCHANGED <<view, stream, session, orphan, dialogs, progress>>
        /\ posted' = posted \ {c} /\ view = "shown"
    BY <1>9 DEF OnCommand
  <2>2. CASE ShowsOverlay /\ UNCHANGED <<keyboard, panel, appGroup, modal>>
    BY <2>1, <2>2 DEF ShowsOverlay
  <2>3. CASE /\ UNCHANGED <<overlay, keyboard, appGroup, grab>> \/ OpensKeyboard("view")
             /\ UNCHANGED <<panel, modal>>
    BY <2>1, <2>3 DEF OpensKeyboard, Hides
  <2>4. CASE ClosesKeyboard /\ UNCHANGED <<overlay, panel, modal>>
    BY <2>1, <2>4 DEF ClosesKeyboard
  <2>5. CASE ClosesPanel /\ UNCHANGED <<overlay, keyboard, grab>>
    BY <2>1, <2>5 DEF ClosesPanel
  <2> QED
    BY <1>9, <2>2, <2>3, <2>4, <2>5 DEF OnCommand
<1>10. CASE KeyboardClicked
  BY <1>10 DEF KeyboardClicked, OverlayButton, OpensKeyboard, Hides
<1>11. CASE PanelClicked
  BY <1>11 DEF PanelClicked, OverlayButton, Hides
<1>12. CASE OverlayClicked
  BY <1>12 DEF OverlayClicked, OverlayButton, Hides
<1>13. CASE CancelPressed
  BY <1>13 DEF CancelPressed, OverlayButton, ClosesKeyboard, Hides, Command
<1>14. CASE UNCHANGED viewVars
  BY <1>14 DEF viewVars
<1> QED
  BY <1>1, <1>2, <1>3, <1>4, <1>5, <1>6, <1>7, <1>8, <1>9, <1>10, <1>11, <1>12, <1>13, <1>14
     DEF ViewNext

\* The inductive invariant of the view holds in every behaviour.
THEOREM ViewInvariance == ViewSpec => []ViewInv
<1>1. ASSUME ViewInit PROVE ViewInv
  <2>1. dialogs = 0 /\ progress = FALSE
    BY <1>1 DEF ViewInit
  <2>2. dialogs \in 0 .. 1
    BY <2>1
  <2>3. ViewTypeOK
    BY <1>1, <2>2 DEF ViewInit, ViewTypeOK
  <2>4. ProgressIsShown
    BY <1>1, <2>1 DEF ViewInit, ProgressIsShown
  <2> QED
    BY <1>1, <2>1, <2>3, <2>4 DEF ViewInit, ViewInv, ViewInOrder, StreamHasView, LeavesClean
<1> QED
  BY <1>1, NextViewInv, PTL DEF ViewSpec

\* In whatever order keyboard, panel, overlay and view are opened and closed, the group
\* the keys go to exists, no dialog outlives the view, and the open stream has the mouse.
THEOREM ViewStaysInOrder == ViewSpec => []ViewInOrder
<1>1. ViewInv => ViewInOrder
  BY DEF ViewInv
<1> QED
  BY <1>1, ViewInvariance, PTL

-----------------------------------------------------------------------------
(* The throttle of the discovery. The age of an entry is the time since its  *)
(* host was reported; and once a host whose time has passed was ignored,     *)
(* nothing is left in the list that could keep it there.                     *)

Below == {p \in Nat \X Nat : p[1] < p[2]}

LEMMA BelowIsWellFounded == IsWellFoundedOn(Below, Nat)
BY NatLessThanWellFounded DEF OpToRel, Below

LEMMA MinIsLeast ==
    ASSUME NEW S \in SUBSET Nat, S # {}
    PROVE  Min(S) \in S /\ \A x \in S : Min(S) <= x
<1>1. PICK m \in S : \A y \in S : <<y, m>> \notin Below
  BY BelowIsWellFounded, WFMin
<1>2. \A y \in S : m <= y
  <2> TAKE y \in S
  <2>1. ~ (y < m)
    BY <1>1 DEF Below
  <2> QED
    BY <2>1
<1> QED
  BY <1>2 DEF Min

Entry == [host : Hosts, age : 0..Ttl]

\* What eviction leaves is the head of the list: all of it, when its first entry is
\* fresh, or entries that have expired.
LEMMA EvictedIsHead ==
    ASSUME NEW list \in Seq(Entry)
    PROVE  /\ Evicted(list) \in Seq(Entry)
           /\ DOMAIN Evicted(list) \subseteq DOMAIN list
           /\ \A i \in DOMAIN Evicted(list) : Evicted(list)[i] = list[i]
           /\ (\A i \in DOMAIN list : list[i].age = Ttl) => Evicted(list) = <<>>
           /\ \/ 1 \in DOMAIN list /\ list[1].age < Ttl
              \/ \A i \in DOMAIN Evicted(list) : list[i].age = Ttl
<1> DEFINE fresh == {i \in DOMAIN list : list[i].age < Ttl}
<1>1. Ttl \in Nat
  BY ThrottleAssumption
<1>2. /\ DOMAIN list = 1..Len(list) /\ Len(list) \in Nat
      /\ \A i \in DOMAIN list : list[i] \in Entry
  OBVIOUS
<1>3. \A i \in DOMAIN list : list[i].age \in 0..Ttl
  BY <1>2 DEF Entry
<1>4. Evicted(list) = IF fresh = {} THEN <<>>
                      ELSE IF Min(fresh) = 1 THEN list
                      ELSE SubSeq(list, 1, Min(fresh) - 1)
  BY DEF Evicted
<1>5. \A i \in DOMAIN list : list[i].age = Ttl \/ i \in fresh
  BY <1>1, <1>3
<1>6. (\A i \in DOMAIN list : list[i].age = Ttl) => fresh = {}
  BY <1>1
<1>7. fresh \in SUBSET Nat
  BY <1>2
<1>8. fresh # {} => Min(fresh) \in fresh /\ \A x \in fresh : Min(fresh) <= x
  BY <1>7, MinIsLeast
<1>9. fresh # {} => Min(fresh) \in DOMAIN list /\ list[Min(fresh)].age < Ttl
  BY <1>8
<1> HIDE DEF fresh
<1>10. CASE fresh = {}
  BY <1>2, <1>4, <1>10
<1>11. CASE fresh # {} /\ Min(fresh) = 1
  BY <1>2, <1>4, <1>6, <1>9, <1>11
<1>12. CASE fresh # {} /\ Min(fresh) # 1
  <2> DEFINE n == Min(fresh) - 1
  <2>1. n \in 1..Len(list) /\ Evicted(list) = SubSeq(list, 1, n)
    BY <1>2, <1>4, <1>9, <1>12
  <2>2. \A i \in DOMAIN list : i <= n => list[i].age = Ttl
    BY <1>2, <1>5, <1>8, <1>9, <1>12
  <2> HIDE DEF n
  <2>3. /\ SubSeq(list, 1, n) \in Seq(Entry) /\ DOMAIN SubSeq(list, 1, n) = 1..n
        /\ \A i \in 1..n : SubSeq(list, 1, n)[i] = list[i]
    BY <1>2, <2>1
  <2>4. \A i \in 1..n : i \in DOMAIN list /\ i <= n
    BY <1>2, <2>1
  <2> QED
    BY <1>6, <1>12, <2>1, <2>2, <2>3, <2>4
<1> QED
  BY <1>10, <1>11, <1>12

ListTypes ==
    /\ hosts \in Seq(Entry)
    /\ since \in [Hosts -> 0..Ttl]
    /\ ignored \in [Hosts -> 0..2]

OldestFirst ==
    \A i, j \in DOMAIN hosts :
        i < j => hosts[i].host # hosts[j].host /\ hosts[i].age >= hosts[j].age

AgesTell == \A i \in DOMAIN hosts : hosts[i].age = since[hosts[i].host]

\* The next announcement of a host that was ignored empties the list.
IgnoredOnce ==
    \A h \in Hosts :
        \/ ignored[h] = 0
        \/ /\ ignored[h] = 1
           /\ \A i \in DOMAIN hosts : hosts[i].host = h => \A j \in DOMAIN hosts : hosts[j].age = Ttl

ThrottleInv ==
    /\ ListTypes
    /\ OldestFirst
    /\ AgesTell
    /\ IgnoredOnce

\* Eviction leaves a list in order, and empties one that keeps an ignored host.
LEMMA EvictionKeeps ==
    ASSUME ThrottleInv
    PROVE  /\ Evicted(hosts) \in Seq(Entry)
           /\ DOMAIN Evicted(hosts) = 1..Len(Evicted(hosts)) /\ Len(Evicted(hosts)) \in Nat
           /\ DOMAIN Evicted(hosts) \subseteq DOMAIN hosts
           /\ \A i \in DOMAIN Evicted(hosts) :
                  Evicted(hosts)[i] = hosts[i] /\ hosts[i] \in Entry
           /\ \A h \in Hosts : ignored[h] = 1 => ~Known(Evicted(hosts), h)
           /\ \A h \in Hosts : Known(Evicted(hosts), h) /\ since[h] = Ttl =>
                  \A i \in DOMAIN Evicted(hosts) : hosts[i].age = Ttl
<1>0. hosts \in Seq(Entry) /\ Ttl \in Nat
  BY ThrottleAssumption DEF ThrottleInv, ListTypes
<1>1. /\ DOMAIN hosts = 1..Len(hosts) /\ Len(hosts) \in Nat
      /\ \A i \in DOMAIN hosts : hosts[i] \in Entry
  BY <1>0
<1> DEFINE e == Evicted(hosts)
<1>2. /\ e \in Seq(Entry) /\ DOMAIN e \subseteq DOMAIN hosts
      /\ \A i \in DOMAIN e : e[i] = hosts[i]
      /\ (\A i \in DOMAIN hosts : hosts[i].age = Ttl) => e = <<>>
      /\ \/ 1 \in DOMAIN hosts /\ hosts[1].age < Ttl
         \/ \A i \in DOMAIN e : hosts[i].age = Ttl
  BY <1>0, EvictedIsHead
<1> HIDE DEF e
<1>3. DOMAIN e = 1..Len(e) /\ Len(e) \in Nat
  BY <1>2
<1>4. ASSUME NEW h \in Hosts, ignored[h] = 1, Known(e, h) PROVE FALSE
  <2>1. PICK i \in DOMAIN e : e[i].host = h
    BY <1>4 DEF Known
  <2>2. \A j \in DOMAIN hosts : hosts[j].age = Ttl
    BY <1>2, <1>4, <2>1 DEF ThrottleInv, IgnoredOnce
  <2>3. e = <<>>
    BY <1>2, <2>2
  <2> QED
    BY <2>1, <2>3
<1>5. ASSUME NEW h \in Hosts, Known(e, h), since[h] = Ttl
      PROVE  \A i \in DOMAIN e : hosts[i].age = Ttl
  <2>1. PICK i \in DOMAIN e : e[i].host = h
    BY <1>5 DEF Known
  <2>2. i \in DOMAIN hosts /\ hosts[i].age = Ttl
    BY <1>2, <1>5, <2>1 DEF ThrottleInv, AgesTell
  <2>3. ASSUME 1 \in DOMAIN hosts, hosts[1].age < Ttl PROVE FALSE
    <3>1. i = 1 \/ 1 < i
      BY <1>1, <2>2
    <3>2. hosts[1].age >= hosts[i].age
      BY <1>1, <2>2, <2>3, <3>1 DEF ThrottleInv, OldestFirst, Entry
    <3>3. hosts[1].age \in Int
      BY <1>0, <1>1, <2>3 DEF Entry
    <3> QED
      BY <1>0, <2>2, <2>3, <3>2, <3>3
  <2> QED
    BY <1>2, <2>3
<1> QED
  BY <1>1, <1>2, <1>3, <1>4, <1>5 DEF e

LEMMA IgnoresKeeps ==
    ASSUME ThrottleInv, NEW h \in Hosts, Ignores(h)
    PROVE  ThrottleInv'
<1> DEFINE e == Evicted(hosts)
<1>0. Ttl \in Nat
  BY ThrottleAssumption
<1>1. /\ e \in Seq(Entry) /\ DOMAIN e \subseteq DOMAIN hosts
      /\ \A i \in DOMAIN e : e[i] = hosts[i] /\ hosts[i] \in Entry
      /\ \A g \in Hosts : ignored[g] = 1 => ~Known(e, g)
      /\ \A g \in Hosts : Known(e, g) /\ since[g] = Ttl => \A i \in DOMAIN e : hosts[i].age = Ttl
  BY EvictionKeeps
<1>2. /\ Known(e, h) /\ hosts' = e /\ since' = since
      /\ ignored' = [ignored EXCEPT ![h] = IF since[h] = Ttl /\ @ < 2 THEN @ + 1 ELSE @]
  BY DEF Ignores
<1> HIDE DEF e
<1>3. ignored \in [Hosts -> 0..2] /\ since \in [Hosts -> 0..Ttl]
  BY DEF ThrottleInv, ListTypes
<1>4. ignored[h] = 0 /\ ignored'[h] = (IF since[h] = Ttl THEN 1 ELSE 0)
      /\ \A g \in Hosts : g # h => ignored'[g] = ignored[g]
  <2>1. ignored[h] = 0
    BY <1>1, <1>2 DEF ThrottleInv, IgnoredOnce
  <2> QED
    BY <1>2, <1>3, <2>1
<1>5. ignored' \in [Hosts -> 0..2]
  BY <1>2, <1>3, <1>4
<1>6. ListTypes'
  BY <1>1, <1>2, <1>3, <1>5 DEF ListTypes
<1>7. OldestFirst' /\ AgesTell'
  BY <1>1, <1>2 DEF ThrottleInv, OldestFirst, AgesTell
<1>8. IgnoredOnce'
  <2> SUFFICES ASSUME NEW g \in Hosts
               PROVE  \/ ignored'[g] = 0
                      \/ /\ ignored'[g] = 1
                         /\ \A i \in DOMAIN e : e[i].host = g => \A j \in DOMAIN e : e[j].age = Ttl
    BY <1>2 DEF IgnoredOnce
  <2>1. CASE g = h
    BY <1>1, <1>2, <1>4, <2>1
  <2>2. CASE g # h
    BY <1>1, <1>4, <2>2 DEF ThrottleInv, IgnoredOnce, Known
  <2> QED
    BY <2>1, <2>2
<1> QED
  BY <1>6, <1>7, <1>8 DEF ThrottleInv

LEMMA ReportsKeeps ==
    ASSUME ThrottleInv, NEW h \in Hosts, Reports(h)
    PROVE  ThrottleInv'
<1> DEFINE e == Evicted(hosts)
           r == [host |-> h, age |-> 0]
           a == Append(e, r)
<1>0. Ttl \in Nat
  BY ThrottleAssumption
<1>1. /\ e \in Seq(Entry) /\ DOMAIN e \subseteq DOMAIN hosts
      /\ DOMAIN e = 1..Len(e) /\ Len(e) \in Nat
      /\ \A i \in DOMAIN e : e[i] = hosts[i] /\ hosts[i] \in Entry
      /\ \A g \in Hosts : ignored[g] = 1 => ~Known(e, g)
  BY EvictionKeeps
<1>2. /\ ~Known(e, h) /\ hosts' = a
      /\ since' = [since EXCEPT ![h] = 0] /\ ignored' = [ignored EXCEPT ![h] = 0]
  BY DEF Reports
<1>3. r \in Entry /\ r.host = h /\ r.age = 0
  BY <1>0 DEF Entry
<1> HIDE DEF e, r
<1>4. /\ a \in Seq(Entry) /\ DOMAIN a = 1..(Len(e) + 1)
      /\ \A i \in DOMAIN e : a[i] = e[i]
      /\ a[Len(e) + 1] = r
  BY <1>1, <1>3
<1> HIDE DEF a
<1>5. /\ \A i \in DOMAIN a : i \in DOMAIN e \/ (i = Len(e) + 1 /\ a[i].host = h /\ a[i].age = 0)
      /\ \A i \in DOMAIN e : i < Len(e) + 1 /\ a[i].host # h /\ a[i].age \in 0..Ttl
  <2>1. \A i \in DOMAIN e : e[i].host # h
    BY <1>2 DEF Known
  <2>2. \A i \in DOMAIN e : e[i].age \in 0..Ttl
    BY <1>1 DEF Entry
  <2> QED
    BY <1>1, <1>3, <1>4, <2>1, <2>2
<1>6. ListTypes'
  <2>1. ignored \in [Hosts -> 0..2] /\ since \in [Hosts -> 0..Ttl]
    BY DEF ThrottleInv, ListTypes
  <2>2. since' \in [Hosts -> 0..Ttl] /\ ignored' \in [Hosts -> 0..2]
    BY <1>0, <1>2, <2>1
  <2> QED
    BY <1>2, <1>4, <2>2 DEF ListTypes
<1>7. OldestFirst'
  <2> SUFFICES ASSUME NEW i \in DOMAIN a, NEW j \in DOMAIN a, i < j
               PROVE  a[i].host # a[j].host /\ a[i].age >= a[j].age
    BY <1>2 DEF OldestFirst
  <2>1. i \in DOMAIN e
    BY <1>1, <1>4, <1>5
  <2>2. CASE j \in DOMAIN e
    BY <1>1, <1>4, <2>1, <2>2 DEF ThrottleInv, OldestFirst
  <2>3. CASE j = Len(e) + 1 /\ a[j].host = h /\ a[j].age = 0
    BY <1>0, <1>5, <2>1, <2>3
  <2> QED
    BY <1>5, <2>2, <2>3
<1>8. AgesTell'
  <2> SUFFICES ASSUME NEW i \in DOMAIN a PROVE a[i].age = since'[a[i].host]
    BY <1>2 DEF AgesTell
  <2>0. since \in [Hosts -> 0..Ttl]
    BY DEF ThrottleInv, ListTypes
  <2>1. CASE i \in DOMAIN e
    <3>1. a[i] = hosts[i] /\ i \in DOMAIN hosts /\ a[i].host # h /\ hosts[i].host \in Hosts
      BY <1>1, <1>4, <1>5, <2>1 DEF Entry
    <3> QED
      BY <1>2, <2>0, <3>1 DEF ThrottleInv, AgesTell
  <2>2. CASE a[i].host = h /\ a[i].age = 0
    BY <1>2, <2>0, <2>2
  <2> QED
    BY <1>5, <2>1, <2>2
<1>9. IgnoredOnce'
  <2> SUFFICES ASSUME NEW g \in Hosts
               PROVE  \/ ignored'[g] = 0
                      \/ /\ ignored'[g] = 1
                         /\ \A i \in DOMAIN a : a[i].host = g => \A j \in DOMAIN a : a[j].age = Ttl
    BY <1>2 DEF IgnoredOnce
  <2>0. ignored \in [Hosts -> 0..2]
    BY DEF ThrottleInv, ListTypes
  <2>1. CASE g = h
    BY <1>2, <2>0, <2>1
  <2>2. CASE g # h
    <3>1. ignored'[g] = ignored[g]
      BY <1>2, <2>0, <2>2
    <3>2. ignored[g] = 1 => \A i \in DOMAIN a : a[i].host # g
      BY <1>1, <1>4, <1>5, <2>2 DEF Known
    <3>3. ignored[g] = 0 \/ ignored[g] = 1
      BY DEF ThrottleInv, IgnoredOnce
    <3> QED
      BY <3>1, <3>2, <3>3
  <2> QED
    BY <2>1, <2>2
<1> QED
  BY <1>6, <1>7, <1>8, <1>9 DEF ThrottleInv

LEMMA TimeKeeps ==
    ASSUME ThrottleInv, TimePasses
    PROVE  ThrottleInv'
<1> DEFINE older(x) == IF x < Ttl THEN x + 1 ELSE x
<1>0. Ttl \in Nat
  BY ThrottleAssumption
<1>1. /\ hosts \in Seq(Entry) /\ since \in [Hosts -> 0..Ttl] /\ ignored \in [Hosts -> 0..2]
      /\ DOMAIN hosts = 1..Len(hosts) /\ Len(hosts) \in Nat
      /\ \A i \in DOMAIN hosts : hosts[i] \in Entry /\ hosts[i].age \in 0..Ttl /\ hosts[i].host \in Hosts
  <2>1. hosts \in Seq(Entry) /\ since \in [Hosts -> 0..Ttl] /\ ignored \in [Hosts -> 0..2]
    BY DEF ThrottleInv, ListTypes
  <2>2. \A i \in DOMAIN hosts : hosts[i] \in Entry
    BY <2>1
  <2> QED
    BY <2>1, <2>2 DEF Entry
<1>2. /\ DOMAIN hosts' = DOMAIN hosts
      /\ \A i \in DOMAIN hosts : /\ hosts'[i] = [hosts[i] EXCEPT !.age = older(hosts[i].age)]
      /\ \A h \in Hosts : since'[h] = older(since[h])
      /\ ignored' = ignored
  <2>1. \A h \in Hosts : since[h] \in 0..Ttl
    BY <1>1
  <2>2. \A h \in Hosts : (IF since[h] < Ttl THEN since[h] + 1 ELSE Ttl) = older(since[h])
    BY <1>0, <2>1
  <2> QED
    BY <2>2 DEF TimePasses
<1>3. \A i \in DOMAIN hosts : /\ hosts'[i] \in Entry /\ hosts'[i].host = hosts[i].host
                              /\ hosts'[i].age = older(hosts[i].age)
  <2> SUFFICES ASSUME NEW i \in DOMAIN hosts
               PROVE  /\ hosts'[i] \in Entry /\ hosts'[i].host = hosts[i].host
                      /\ hosts'[i].age = older(hosts[i].age)
    OBVIOUS
  <2>1. older(hosts[i].age) \in 0..Ttl
    BY <1>0, <1>1
  <2> HIDE DEF older
  <2> QED
    BY <1>1, <1>2, <2>1 DEF Entry
<1>4. hosts' \in Seq(Entry)
  <2>1. hosts' = [i \in 1..Len(hosts) |-> hosts'[i]]
    BY <1>1 DEF TimePasses
  <2>2. \A i \in 1..Len(hosts) : hosts'[i] \in Entry
    BY <1>1, <1>3
  <2> QED
    BY <1>1, <2>1, <2>2
<1>5. ListTypes'
  <2>1. \A h \in Hosts : since'[h] \in 0..Ttl
    BY <1>0, <1>1, <1>2
  <2>2. since' \in [Hosts -> 0..Ttl]
    BY <2>1 DEF TimePasses
  <2> QED
    BY <1>1, <1>2, <1>4, <2>2 DEF ListTypes
<1>6. OldestFirst'
  <2> SUFFICES ASSUME NEW i \in DOMAIN hosts, NEW j \in DOMAIN hosts, i < j
               PROVE  hosts'[i].host # hosts'[j].host /\ hosts'[i].age >= hosts'[j].age
    BY <1>2 DEF OldestFirst
  <2>1. hosts[i].host # hosts[j].host /\ hosts[i].age >= hosts[j].age
    BY DEF ThrottleInv, OldestFirst
  <2> QED
    BY <1>0, <1>1, <1>3, <2>1
<1>7. AgesTell'
  BY <1>1, <1>2, <1>3 DEF ThrottleInv, AgesTell
<1>8. IgnoredOnce'
  <2>1. \A j \in DOMAIN hosts : hosts[j].age = Ttl => hosts'[j].age = Ttl
    BY <1>0, <1>3
  <2> QED
    BY <1>2, <1>3, <2>1 DEF ThrottleInv, IgnoredOnce
<1> QED
  BY <1>5, <1>6, <1>7, <1>8 DEF ThrottleInv

\* The inductive invariant of the throttle holds in every behaviour.
THEOREM ThrottleInvariance == ThrottleSpec => []ThrottleInv
<1>1. ASSUME ThrottleInit PROVE ThrottleInv
  <2>0. Ttl \in Nat
    BY ThrottleAssumption
  <2>1. hosts = <<>> /\ DOMAIN hosts = {} /\ hosts \in Seq(Entry)
    BY <1>1 DEF ThrottleInit
  <2>2. since \in [Hosts -> 0..Ttl] /\ ignored \in [Hosts -> 0..2]
        /\ \A h \in Hosts : ignored[h] = 0
    BY <1>1, <2>0 DEF ThrottleInit
  <2> QED
    BY <2>1, <2>2 DEF ThrottleInv, ListTypes, OldestFirst, AgesTell, IgnoredOnce
<1>2. ASSUME ThrottleInv, [ThrottleNext]_throttleVars PROVE ThrottleInv'
  <2>1. CASE UNCHANGED throttleVars
    BY <1>2, <2>1 DEF throttleVars, ThrottleInv, ListTypes, OldestFirst, AgesTell, IgnoredOnce
  <2>2. CASE ThrottleNext
    BY <1>2, <2>2, IgnoresKeeps, ReportsKeeps, TimeKeeps DEF ThrottleNext
  <2> QED
    BY <1>2, <2>1, <2>2
<1> QED
  BY <1>1, <1>2, PTL DEF ThrottleSpec

\* The list of the throttle has one entry of a host and stays sorted, although eviction
\* cuts it in two, and a host whose time has passed is ignored at most once.
THEOREM ThrottleStaysSorted == ThrottleSpec => []ThrottleSorted
<1>1. ASSUME ThrottleInv PROVE ThrottleSorted
  <2>1. /\ hosts \in Seq(Entry) /\ since \in [Hosts -> 0..Ttl] /\ ignored \in [Hosts -> 0..2]
        /\ DOMAIN hosts = 1..Len(hosts) /\ Len(hosts) \in Nat
        /\ \A i \in DOMAIN hosts : hosts[i] \in Entry
    BY <1>1 DEF ThrottleInv, ListTypes
  <2>2. Len(hosts) <= Cardinality(Hosts)
    <3> DEFINE f == [i \in 1..Len(hosts) |-> hosts[i].host]
    <3>1. f \in [1..Len(hosts) -> Hosts]
      BY <2>1 DEF Entry
    <3>2. \A i, j \in 1..Len(hosts) : f[i] = f[j] => i = j
      <4>1. \A i, j \in 1..Len(hosts) : i = j \/ i < j \/ j < i
        BY <2>1
      <4> QED
        BY <1>1, <2>1, <4>1 DEF ThrottleInv, OldestFirst
    <3>3. f \in Injection(1..Len(hosts), Hosts)
      BY <3>1, <3>2 DEF Injection, IsInjective
    <3>4. IsFiniteSet(Hosts)
      BY ThrottleAssumption
    <3>5. Cardinality(1..Len(hosts)) <= Cardinality(Hosts)
      BY <3>3, <3>4, FS_Injection
    <3>6. Cardinality(1..Len(hosts)) = Len(hosts)
      <4>1. Cardinality(1..Len(hosts)) = IF 1 > Len(hosts) THEN 0 ELSE Len(hosts) - 1 + 1
        BY <2>1, FS_Interval
      <4> QED
        BY <2>1, <4>1
    <3> QED
      BY <3>5, <3>6
  <2>3. \A h \in Hosts : ignored[h] <= 1
    BY <1>1, <2>1 DEF ThrottleInv, IgnoredOnce
  <2> QED
    BY <1>1, <2>1, <2>2, <2>3 DEF ThrottleSorted, ThrottleTypeOK, ThrottleInv, OldestFirst, Entry
<1> QED
  BY <1>1, ThrottleInvariance, PTL

-----------------------------------------------------------------------------
(* Pairing with a host. A pairing under way may have made the host trust the *)
(* client; one that has ended has not, or its request to be forgotten has    *)
(* not been heard.                                                          *)

CallTypes ==
    /\ call \in {"idle", "writing", "unpair"} \cup Stages
    /\ madeTrust \in BOOLEAN /\ unheard \in BOOLEAN

\* The identity is written between two pairings: what the last one owes stays as it was.
OverMeansUndone == call \in {"idle", "writing"} /\ madeTrust => unheard

\* Before the secret nothing has been asked of the host that it keeps.
NothingAtFirst == call = "getservercert" => ~madeTrust

GsInv == CallTypes /\ OverMeansUndone /\ NothingAtFirst

LEMMA PairsKeeps == ASSUME GsInv, Pairs PROVE GsInv'
<1>1. call' \in {"unpair", "getservercert"} /\ madeTrust' = FALSE /\ unheard' = FALSE
  BY DEF Pairs
<1>2. CallTypes'
  BY <1>1 DEF CallTypes, Stages
<1> QED
  BY <1>1, <1>2 DEF GsInv, OverMeansUndone, NothingAtFirst

LEMMA PairRequestKeeps ==
    ASSUME GsInv, NEW answer \in Answers, PairRequest(answer)
    PROVE  GsInv'
<1> DEFINE agrees == answer.heard /\ answer.text # "no" /\ HostAgrees(call)
           adds == call = "clientpairingsecret" /\ agrees
           done == call = "pairchallenge" /\ Accepted(call, answer.text)
<1>1. /\ call \in Stages /\ unheard' = unheard
      /\ madeTrust' = (~done /\ (madeTrust \/ (adds /\ cert \notin trusted)))
      /\ \/ (done \/ DeclinedAtFirst(call, answer.text)) /\ call' = "idle"
         \/ /\ ~done
            /\ call' = IF Accepted(call, answer.text) THEN NextStage(call) ELSE "unpair"
  BY DEF PairRequest
<1>2. madeTrust' \in BOOLEAN
  BY <1>1
<1>3. ~done => call' \in {"idle", "unpair", "clientchallenge", "serverchallengeresp",
                          "clientpairingsecret", "pairchallenge"}
  BY <1>1 DEF Stages, NextStage, Accepted
<1>4. call' \in {"idle", "unpair", "clientchallenge", "serverchallengeresp",
                 "clientpairingsecret", "pairchallenge"}
  BY <1>1, <1>3
<1>5. call' = "idle" => ~madeTrust'
  <2>1. CASE done
    BY <1>1, <2>1
  <2>2. CASE ~done /\ DeclinedAtFirst(call, answer.text)
    <3>1. call = "getservercert" /\ ~madeTrust
      BY <2>2 DEF DeclinedAtFirst, GsInv, NothingAtFirst
    <3> QED
      BY <1>1, <3>1
  <2>3. CASE ~done /\ ~DeclinedAtFirst(call, answer.text)
    BY <1>1, <2>3 DEF Stages, NextStage, Accepted
  <2> QED
    BY <2>1, <2>2, <2>3
<1> QED
  BY <1>1, <1>2, <1>4, <1>5 DEF GsInv, CallTypes, Stages, OverMeansUndone, NothingAtFirst

\* A request to be forgotten that is heard leaves no trust that the pairing has made.
LEMMA UnpairsKeeps ==
    ASSUME GsInv, NEW heard \in BOOLEAN, Unpairs(heard)
    PROVE  GsInv'
<1>1. /\ call' = "idle" /\ unheard' = ~heard
      /\ madeTrust' = (madeTrust /\ cert \in trusted')
      /\ heard => cert \notin trusted'
  BY DEF Unpairs
<1> QED
  BY <1>1 DEF GsInv, CallTypes, OverMeansUndone, NothingAtFirst

LEMMA WritesIdentityKeeps == ASSUME GsInv, WritesIdentity PROVE GsInv'
<1>1. /\ call \in {"idle", "writing"} /\ call' \in {"idle", "writing"}
      /\ madeTrust' = madeTrust /\ unheard' = unheard
  BY DEF WritesIdentity
<1> QED
  BY <1>1 DEF GsInv, CallTypes, Stages, OverMeansUndone, NothingAtFirst

\* What is not about pairing leaves the pairing alone, or ends it with the program.
LEMMA OthersKeepPairing ==
    ASSUME GsInv,
           \/ Reinstalls \/ Restarts \/ HostChanges
           \/ \E answer \in Answers :
                 QuitsApp(answer) \/ \E a \in Apps, forced \in BOOLEAN : StartsApp(a, forced, answer)
           \/ \E secure, busy, heard, quits \in BOOLEAN :
                 Updates(secure, busy) \/ GameEnds(quits, heard)
           \/ UNCHANGED gsVars
    PROVE  GsInv'
<1>1. \/ call' = call /\ madeTrust' = madeTrust /\ unheard' = unheard
      \/ call' = "idle" /\ madeTrust' = FALSE /\ unheard' = FALSE
      \/ call' = call /\ madeTrust' = FALSE /\ unheard' = unheard
  BY DEF Reinstalls, Restarts, HostChanges, QuitsApp, StartsApp, Updates, GameEnds, gsVars
<1>2. CASE call' = call /\ madeTrust' = madeTrust /\ unheard' = unheard
  BY <1>2 DEF GsInv, CallTypes, Stages, OverMeansUndone, NothingAtFirst
<1>3. CASE call' = "idle" /\ madeTrust' = FALSE /\ unheard' = FALSE
  BY <1>3 DEF GsInv, CallTypes, OverMeansUndone, NothingAtFirst
<1>4. CASE call' = call /\ madeTrust' = FALSE /\ unheard' = unheard
  BY <1>4 DEF GsInv, CallTypes, OverMeansUndone, NothingAtFirst
<1> QED
  BY <1>1, <1>2, <1>3, <1>4

\* The inductive invariant of the pairing holds in every behaviour of the client.
THEOREM GsInvariance == GsSpec => []GsInv
<1>1. GsInit => GsInv
  BY DEF GsInit, GsInv, CallTypes, Stages, OverMeansUndone, NothingAtFirst
<1>2. ASSUME GsInv, [GsNext]_gsVars PROVE GsInv'
  <2>1. CASE Pairs
    BY <1>2, <2>1, PairsKeeps
  <2>2. CASE \E answer \in Answers : PairRequest(answer)
    BY <1>2, <2>2, PairRequestKeeps
  <2>3. CASE \E heard \in BOOLEAN : Unpairs(heard)
    BY <1>2, <2>3, UnpairsKeeps
  <2>4. CASE WritesIdentity
    BY <1>2, <2>4, WritesIdentityKeeps
  <2>5. CASE Reinstalls \/ Restarts \/ HostChanges
    BY <1>2, <2>5, OthersKeepPairing
  <2>6. CASE \E answer \in Answers :
                 QuitsApp(answer) \/ \E a \in Apps, forced \in BOOLEAN : StartsApp(a, forced, answer)
    BY <1>2, <2>6, OthersKeepPairing
  <2>7. CASE \E secure, busy, heard, quits \in BOOLEAN :
                 Updates(secure, busy) \/ GameEnds(quits, heard)
    BY <1>2, <2>7, OthersKeepPairing
  <2>8. CASE UNCHANGED gsVars
    BY <1>2, <2>8, OthersKeepPairing
  <2> QED
    BY <1>2, <2>1, <2>2, <2>3, <2>4, <2>5, <2>6, <2>7, <2>8 DEF GsNext
<1> QED
  BY <1>1, <1>2, PTL DEF GsSpec

\* A pairing that has failed leaves no trust in the host that it made, unless the host has
\* not heard that it should forget the client.
THEOREM NoPairingIsHalf == GsSpec => []NoHalfPairing
<1>1. GsInv => NoHalfPairing
  BY DEF GsInv, CallTypes, OverMeansUndone, NoHalfPairing
<1> QED
  BY <1>1, GsInvariance, PTL

\* The client takes a host for paired only when that host trusts its certificate, and has
\* the app it asked for, also when another client has changed what runs.
THEOREM HostsAreBelieved == GsSpec => HostIsBelieved
<1> DEFINE Believed ==
        /\ ~clone.paired /\ clone'.paired /\ call \in Stages => cert \in trusted
        /\ streaming = NoApp /\ streaming' # NoApp /\ serverData.currentGame = hostApp
              => hostApp' = streaming'
<1>1. ASSUME [GsNext]_gsVars PROVE Believed
  <2>1. ASSUME NEW answer \in Answers, PairRequest(answer) PROVE Believed
    <3>1. /\ streaming' = streaming
          /\ answer.text = "yes" => HostAgrees(call)
          /\ \/ call = "pairchallenge" /\ answer.text = "yes"
             \/ clone' = clone
      BY <2>1 DEF PairRequest, Accepted
    <3> QED
      BY <3>1 DEF HostAgrees
  <2>2. ASSUME NEW answer \in Answers, NEW a \in Apps, NEW forced \in BOOLEAN,
               StartsApp(a, forced, answer)
        PROVE  Believed
    <3> DEFINE resumes == Resumed(a, forced)
               able == IF resumes THEN hostApp # NoApp ELSE hostApp \in {NoApp, a}
    <3>1. /\ call = "idle"
          /\ answer.text = "yes" => answer.heard /\ able
          /\ hostApp' = IF answer.heard /\ answer.text # "no" /\ able /\ ~resumes
                        THEN a ELSE hostApp
          /\ streaming' = IF answer.text = "yes" THEN a ELSE NoApp
      BY <2>2 DEF StartsApp
    <3>2. call \notin Stages
      BY <3>1 DEF Stages
    <3>3. ASSUME streaming' # NoApp, serverData.currentGame = hostApp PROVE hostApp' = streaming'
      <4>1. answer.text = "yes" /\ answer.heard /\ able /\ streaming' = a
        BY <3>1, <3>3
      <4>2. CASE resumes
        <5>1. hostApp = a
          BY <3>3, <4>2 DEF Resumed
        <5> QED
          BY <3>1, <4>1, <4>2, <5>1
      <4>3. CASE ~resumes
        BY <3>1, <4>1, <4>3
      <4> QED
        BY <4>2, <4>3
    <3> QED
      BY <3>2, <3>3
  <2>3. CASE Pairs
    BY <2>3 DEF Pairs, Stages
  <2>4. CASE WritesIdentity \/ Reinstalls \/ HostChanges \/ UNCHANGED gsVars
    BY <2>4 DEF WritesIdentity, Reinstalls, HostChanges, gsVars
  <2>5. CASE Restarts
    BY <2>5 DEF Restarts, Unknown
  <2>6. CASE \E answer \in Answers : QuitsApp(answer)
    BY <2>6 DEF QuitsApp
  <2>7. CASE \E secure, busy, heard, quits \in BOOLEAN :
                Updates(secure, busy) \/ Unpairs(heard) \/ GameEnds(quits, heard)
    BY <2>7 DEF Updates, Unpairs, GameEnds
  <2> QED
    BY <1>1, <2>1, <2>2, <2>3, <2>4, <2>5, <2>6, <2>7 DEF GsNext
<1> QED
  BY <1>1, PTL DEF GsSpec, HostIsBelieved

-----------------------------------------------------------------------------
(* The nodes of a Flydigi. While nothing has changed, the scan tells what is *)
(* on each port, and what is to be enumerated has been.                     *)

IsFlydigiHere(p) == plugged[p] \in Flydigi /\ (IsFlydigiPort(p) \/ plugged[p] = "native")

NodeTypes ==
    /\ plugged \in [Ports -> DOMAIN Parts] /\ enums \in [Ports -> DOMAIN Parts]
    /\ identity \in [Ports -> {"unknown", "flydigi", "other"}] /\ current \in BOOLEAN
    /\ \A node \in scan : node.port \in Ports

ScanTells == current => scan = UNION {NodesOf(p) : p \in Ports}

EnumTells ==
    current /\ Cardinality(Ports) <= MaxEnums => \A p \in Ports : IsFlydigiHere(p) => HasEnum(p)

NodesInv == NodeTypes /\ ScanTells /\ EnumTells

\* While the cache has room for the enumeration of every port, it takes all that are new.
LEMMA RoomForAll ==
    ASSUME NodeTypes, NEW found \in SUBSET Ports, Captures(found),
           Cardinality(Ports) <= MaxEnums
    PROVE  \A p \in found : enums[p] # "none" \/ enums'[p] = plugged[p]
<1> DEFINE new == {p \in found : ~HasEnum(p)}
           old == {p \in Ports : HasEnum(p)}
           room == MaxEnums - Cardinality(old)
<1>1. PICK kept \in SUBSET new :
         /\ Cardinality(kept) = Min({room, Cardinality(new)})
         /\ enums' = [p \in Ports |-> IF p \in kept THEN EnumOf(p) ELSE enums[p]]
  BY DEF Captures
<1>2. /\ IsFiniteSet(Ports) /\ MaxEnums \in Nat
      /\ new \in SUBSET Ports /\ old \in SUBSET Ports /\ new \cap old = {}
      /\ (new \cup old) \in SUBSET Ports
  BY NodesAssumption
<1> HIDE DEF new, old
<1>3. /\ IsFiniteSet(new) /\ IsFiniteSet(old) /\ IsFiniteSet(kept) /\ IsFiniteSet(new \cup old)
  BY <1>2, FS_Subset
<1>4. /\ Cardinality(new) \in Nat /\ Cardinality(old) \in Nat /\ Cardinality(kept) \in Nat
      /\ Cardinality(Ports) \in Nat
  BY <1>2, <1>3, FS_CardinalityType
<1>5. Cardinality(new \cup old) <= Cardinality(Ports)
  BY <1>2, FS_Subset
<1>6. Cardinality(new \cup old) = Cardinality(new) + Cardinality(old)
  <2>1. Cardinality(new \cup old)
          = Cardinality(new) + Cardinality(old) - Cardinality(new \cap old)
    BY <1>3, FS_Union
  <2>2. Cardinality(new \cap old) = 0
    BY <1>2, FS_EmptySet
  <2> QED
    BY <1>4, <2>1, <2>2
<1>7. room \in Int /\ Cardinality(new) <= room
  BY <1>2, <1>4, <1>5, <1>6
<1>8. Min({room, Cardinality(new)}) = Cardinality(new)
  <2> HIDE DEF room
  <2> DEFINE c == Cardinality(new)
  <2>1. c \in {room, c} /\ \A y \in {room, c} : c <= y
    BY <1>4, <1>7
  <2>2. \A x \in {room, c} : (\A y \in {room, c} : x <= y) => x = c
    BY <1>4, <1>7
  <2> QED
    BY <2>1, <2>2 DEF Min
<1>9. kept = new
  BY <1>1, <1>3, <1>8, FS_Subset
<1> QED
  BY <1>1, <1>2, <1>9 DEF new, HasEnum, EnumOf

LEMMA ScansKeeps == ASSUME NodesInv, Scans PROVE NodesInv'
<1> DEFINE found == {p \in Ports : plugged[p] # "none" /\
                                   (identity'[p] = "flydigi" \/ plugged[p] = "native")}
<1>1. /\ scan' = UNION {NodesOf(p) : p \in Ports} /\ plugged' = plugged /\ current' = TRUE
      /\ Identified /\ Captures(found)
  BY DEF Scans
<1>2. identity' \in [Ports -> {"unknown", "flydigi", "other"}]
  BY <1>1 DEF Identified, NodesInv, NodeTypes
<1>3. PICK kept : enums' = [p \in Ports |-> IF p \in kept THEN EnumOf(p) ELSE enums[p]]
  BY <1>1 DEF Captures
<1>4. enums' \in [Ports -> DOMAIN Parts]
  BY <1>3 DEF EnumOf, NodesInv, NodeTypes
<1>5. \A node \in scan' : node.port \in Ports
  BY <1>1 DEF NodesOf
<1>6. NodeTypes'
  BY <1>1, <1>2, <1>4, <1>5 DEF NodesInv, NodeTypes
<1>7. ScanTells'
  BY <1>1 DEF ScanTells, NodesOf
<1>8. EnumTells'
  <2> SUFFICES ASSUME Cardinality(Ports) <= MaxEnums,
                      NEW p \in Ports, IsFlydigiHere(p)'
               PROVE  HasEnum(p)'
    BY DEF EnumTells
  <2>1. plugged[p] \in Flydigi /\ (identity'[p] = "flydigi" \/ plugged[p] = "native")
    BY <1>1 DEF IsFlydigiHere, IsFlydigiPort
  <2>2. plugged[p] # "none"
    BY <2>1 DEF Flydigi
  <2>3. p \in found /\ found \in SUBSET Ports
    BY <2>1, <2>2
  <2> HIDE DEF found
  <2>4. enums[p] # "none" \/ enums'[p] = plugged[p]
    BY <1>1, <2>3, RoomForAll DEF NodesInv
  <2>5. enums'[p] = enums[p] \/ enums'[p] = plugged[p]
    BY <1>3 DEF EnumOf
  <2> QED
    BY <2>2, <2>4, <2>5 DEF HasEnum
<1> QED
  BY <1>6, <1>7, <1>8 DEF NodesInv

\* The inductive invariant of the nodes holds in every behaviour.
THEOREM NodesInvariance == NodesSpec => []NodesInv
<1>1. ASSUME NodesInit PROVE NodesInv
  <2>1. NodeTypes
    BY <1>1 DEF NodesInit, NodeTypes, Parts
  <2>2. ScanTells
    <3>1. scan = {} /\ \A p \in Ports : plugged[p] = "none"
      BY <1>1 DEF NodesInit
    <3>2. \A p \in Ports : NodesOf(p) = {}
      BY <3>1 DEF NodesOf, Parts
    <3> QED
      BY <3>1, <3>2 DEF ScanTells
  <2>3. EnumTells
    BY <1>1 DEF NodesInit, EnumTells, IsFlydigiHere, Flydigi
  <2> QED
    BY <2>1, <2>2, <2>3 DEF NodesInv
<1>2. ASSUME NodesInv, [NodesNext]_nodeVars PROVE NodesInv'
  <2>1. CASE Scans
    BY <1>2, <2>1, ScansKeeps
  <2>2. ASSUME NEW p \in Ports, NEW t \in DOMAIN Parts, PortChanges(p, t) PROVE NodesInv'
    <3>1. /\ plugged' = [plugged EXCEPT ![p] = t] /\ current' = FALSE
          /\ scan' = scan /\ identity' = identity /\ enums' = enums
      BY <2>2 DEF PortChanges
    <3>2. NodeTypes'
      BY <1>2, <3>1 DEF NodesInv, NodeTypes
    <3> QED
      BY <3>1, <3>2 DEF NodesInv, ScanTells, EnumTells
  <2>3. CASE UNCHANGED nodeVars
    BY <1>2, <2>3 DEF nodeVars, NodesInv, NodeTypes, ScanTells, EnumTells, NodesOf,
                      IsFlydigiHere, IsFlydigiPort, HasEnum
  <2> QED
    BY <1>2, <2>1, <2>2, <2>3 DEF NodesNext
<1> QED
  BY <1>1, <1>2, PTL DEF NodesSpec

\* What each mode shows.
LEMMA ModeParts ==
    /\ Parts["native"] = {"pad", "vendor", "mouse"} /\ Parts["xinput"] = {"xpad", "mouse"}
    /\ Parts["xinputVendor"] = {"xpad", "vendor"} /\ Parts["xpadOnly"] = {"xpad"}
<1>1. /\ Parts.native = {"pad", "vendor", "mouse"} /\ Parts.xinput = {"xpad", "mouse"}
      /\ Parts.xinputVendor = {"xpad", "vendor"} /\ Parts.xpadOnly = {"xpad"}
  BY DEF Parts
<1> QED
  BY <1>1

\* A node of a port is one of the interfaces of what is on it, and each of them is one.
LEMMA NodeOfPort ==
    ASSUME NEW p
    PROVE  /\ \A n \in NodesOf(p) :
                 /\ n.port = p /\ n.part \in Parts[plugged[p]]
                 /\ plugged[p] = "native" => n.native
           /\ \A i \in Parts[plugged[p]] : \E n \in NodesOf(p) : n.part = i
<1>1. ASSUME NEW n \in NodesOf(p)
      PROVE  /\ n.port = p /\ n.part \in Parts[plugged[p]]
             /\ plugged[p] = "native" => n.native
  <2>1. PICK i \in Parts[plugged[p]] :
           n = [port |-> p, part |-> i, native |-> plugged[p] = "native"]
    BY <1>1 DEF NodesOf
  <2>2. n.port = p /\ n.part = i
    BY <2>1
  <2>3. ASSUME plugged[p] = "native" PROVE n.native
    BY <2>1, <2>3
  <2> QED
    BY <2>2, <2>3
<1>2. ASSUME NEW i \in Parts[plugged[p]] PROVE \E n \in NodesOf(p) : n.part = i
  <2> DEFINE n == [port |-> p, part |-> i, native |-> plugged[p] = "native"]
  <2>1. n \in NodesOf(p) /\ n.part = i
    BY DEF NodesOf
  <2> QED
    BY <2>1
<1> QED
  BY <1>1, <1>2

\* The parts a Flydigi shows in each mode, each a node of its row.
LEMMA FlydigiNodes ==
    ASSUME NodesInv, current, NEW p \in Ports, IsFlydigiHere(p)
    PROVE  /\ {key \in Rows : key[2] = p} = {<<"flydigi", p, "">>}
           /\ RowNodes(<<"flydigi", p, "">>) = NodesOf(p)
           /\ NodesOf(p) # {}
           /\ \A node \in NodesOf(p) : IsComposite(node) /\ node.port = p
           /\ Hidraws(p) = {node \in NodesOf(p) : IsHidraw(node)}
<1>1. scan = UNION {NodesOf(q) : q \in Ports}
  BY DEF NodesInv, ScanTells
<1>2. \A q \in Ports : \A node \in NodesOf(q) : node.port = q
  BY DEF NodesOf
<1>3. \A node \in NodesOf(p) : IsComposite(node) /\ node.port = p
  BY NodeOfPort DEF IsComposite, IsFlydigiHere
<1>4. NodesOf(p) # {}
  <2>1. Parts[plugged[p]] # {}
    BY ModeParts DEF IsFlydigiHere, Flydigi
  <2> QED
    BY <2>1, NodeOfPort
<1>5. \A node \in scan : node.port = p <=> node \in NodesOf(p)
  BY <1>1, <1>2
<1>6. \A node : node \in NodesOf(p) => node \in scan
  BY <1>1
<1>7. \A node : KeyOf(node)[2] = node.port
  BY DEF KeyOf
<1>8. \A node \in NodesOf(p) : KeyOf(node) = <<"flydigi", p, "">>
  BY <1>3 DEF KeyOf
<1>9. {key \in Rows : key[2] = p} = {<<"flydigi", p, "">>}
  <2> DEFINE k == <<"flydigi", p, "">>
  <2>1. \A key \in Rows : key[2] = p => key = k
    BY <1>5, <1>7, <1>8 DEF Rows
  <2>2. k \in Rows /\ k[2] = p
    BY <1>4, <1>6, <1>8 DEF Rows
  <2> HIDE DEF k
  <2>3. {key \in Rows : key[2] = p} = {k}
    BY <2>1, <2>2
  <2> QED
    BY <2>3 DEF k
<1>10. RowNodes(<<"flydigi", p, "">>) = NodesOf(p)
  <2> DEFINE k == <<"flydigi", p, "">>
  <2>1. k[2] = p
    OBVIOUS
  <2> HIDE DEF k
  <2>2. \A node \in scan : KeyOf(node) = k => node.port = p
    BY <1>7, <2>1
  <2>3. RowNodes(k) = NodesOf(p)
    BY <1>5, <1>6, <1>8, <2>2 DEF RowNodes, k
  <2> QED
    BY <2>3 DEF k
<1>11. Hidraws(p) = {node \in NodesOf(p) : IsHidraw(node)}
  BY <1>5, <1>6 DEF Hidraws
<1> QED
  BY <1>3, <1>4, <1>9, <1>10, <1>11

\* What is plugged in is a node of the pad: in every mode there is one that counts more
\* than the mouse.
LEMMA BestIsNoMouse ==
    ASSUME NodesInv, current, NEW p \in Ports, IsFlydigiHere(p),
           NEW row, RowNodes(row) = NodesOf(p), NEW node \in BestOf(row)
    PROVE  node.part # "mouse"
<1>1. \A n \in NodesOf(p) :
         n.port = p /\ n.part \in Parts[plugged[p]] /\ IsComposite(n)
  BY FlydigiNodes, NodeOfPort
<1>2. \A i \in Parts[plugged[p]] : \E n \in NodesOf(p) : n.part = i
  BY NodeOfPort
<1> DEFINE B == (IF IsFlydigiPort(p) THEN 15 ELSE 0) + (IF plugged[p] = "native" THEN 15 ELSE 0)
<1>b. B \in 0 .. 30
  OBVIOUS
<1>3. \A n \in NodesOf(p) :
         /\ n.part = "mouse" => Score(n) = -1
         /\ n.part = "pad" => Score(n) = 100 + B
         /\ n.part = "vendor" => Score(n) = 50 + B + 10
         /\ n.part = "xpad" /\ IsFlydigiPort(p) => Score(n) = 120
  <2> SUFFICES ASSUME NEW n \in NodesOf(p)
               PROVE  /\ n.part = "mouse" => Score(n) = -1
                      /\ n.part = "pad" => Score(n) = 100 + B
                      /\ n.part = "vendor" => Score(n) = 50 + B + 10
                      /\ n.part = "xpad" /\ IsFlydigiPort(p) => Score(n) = 120
    OBVIOUS
  <2>1. PICK i \in Parts[plugged[p]] :
            n = [port |-> p, part |-> i, native |-> plugged[p] = "native"]
    BY DEF NodesOf
  <2>2. n.port = p /\ n.native = (plugged[p] = "native")
    BY <2>1
  <2> QED
    BY <2>2 DEF Score
<1> HIDE DEF B
<1>4. plugged[p] # "native" => IsFlydigiPort(p)
  BY DEF IsFlydigiHere
<1>5. \E top \in NodesOf(p) :
         Score(top) > 0 /\ \A n \in NodesOf(p) : Score(n) <= Score(top)
  <2>1. CASE plugged[p] = "native"
    <3>1. Parts[plugged[p]] = {"pad", "vendor", "mouse"}
      BY <2>1, ModeParts
    <3>2. PICK top \in NodesOf(p) : top.part = "pad"
      BY <1>2, <3>1
    <3>3. Score(top) = 100 + B /\ \A n \in NodesOf(p) : Score(n) \in {100 + B, 50 + B + 10, -1}
      BY <1>1, <1>3, <3>1, <3>2
    <3>4. Score(top) > 0 /\ \A n \in NodesOf(p) : Score(n) <= Score(top)
      BY <1>b, <3>3
    <3> QED
      BY <3>4
  <2>2. CASE plugged[p] # "native"
    <3>1. /\ Parts[plugged[p]] \subseteq {"xpad", "vendor", "mouse"}
          /\ "xpad" \in Parts[plugged[p]]
      BY <2>2, ModeParts DEF Flydigi, IsFlydigiHere
    <3>2. PICK top \in NodesOf(p) : top.part = "xpad"
      BY <1>2, <3>1
    <3>3. Score(top) = 120 /\ \A n \in NodesOf(p) : Score(n) \in {120, 50 + B + 10, -1}
      BY <1>1, <1>3, <1>4, <2>2, <3>1, <3>2
    <3>4. Score(top) > 0 /\ \A n \in NodesOf(p) : Score(n) <= Score(top)
      BY <1>b, <3>3
    <3> QED
      BY <3>4
  <2> QED
    BY <2>1, <2>2
<1>6. \A n \in NodesOf(p) : Score(n) \in Int
  <2>1. Parts[plugged[p]] \subseteq {"mouse", "pad", "vendor", "xpad"}
        /\ (plugged[p] = "native" => "xpad" \notin Parts[plugged[p]])
    BY ModeParts DEF Flydigi, IsFlydigiHere
  <2> QED
    BY <1>b, <1>1, <1>3, <1>4, <2>1
<1> DEFINE best == {n \in RowNodes(row) : \A m \in RowNodes(row) : Score(m) <= Score(n)}
<1>7. \E n \in best : Score(n) >= 0
  <2>1. PICK top \in NodesOf(p) : Score(top) > 0 /\ \A n \in NodesOf(p) : Score(n) <= Score(top)
    BY <1>5
  <2>2. top \in best /\ Score(top) >= 0
    BY <1>6, <2>1
  <2> QED
    BY <2>2
<1>8. BestOf(row) = best
  BY <1>7 DEF BestOf
<1>9. node \in NodesOf(p) /\ \A m \in NodesOf(p) : Score(m) <= Score(node)
  BY <1>8
<1>10. Score(node) # -1
  <2>1. node.part = "mouse" => Score(node) = -1
    BY <1>3, <1>9
  <2>2. PICK top \in NodesOf(p) : Score(top) > 0 /\ Score(top) <= Score(node)
    BY <1>5, <1>9
  <2>3. Score(top) \in Int
    BY <1>6
  <2> QED
    BY <2>1, <2>2, <2>3
<1> QED
  BY <1>3, <1>9, <1>10

\* The node that is opened is one of the pad as it is now.
LEMMA PathsAreOfThePad ==
    ASSUME NodesInv, current, NEW p \in Ports, IsFlydigiHere(p)
    PROVE  PathsOf(p) # {} /\ PathsOf(p) \subseteq Parts[plugged[p]] \ {"mouse"}
<1>1. Hidraws(p) = {n \in NodesOf(p) : IsHidraw(n)}
  BY FlydigiNodes
<1>2. /\ \A n \in NodesOf(p) : n.port = p /\ n.part \in Parts[plugged[p]]
      /\ \A i \in Parts[plugged[p]] : \E n \in NodesOf(p) : n.part = i
  BY NodeOfPort
<1>3. \A n \in Handshakes(p) : n.part \in Parts[plugged[p]] \ {"mouse"}
  BY <1>1, <1>2 DEF Handshakes
<1>4. CASE EvdevOnly(p)
  BY <1>4 DEF PathsOf, EvdevOnly, HasEvdev
<1>5. CASE ~EvdevOnly(p) /\ Handshakes(p) # {}
  BY <1>3, <1>5 DEF PathsOf
<1>6. CASE ~EvdevOnly(p) /\ Handshakes(p) = {}
  <2>1. \A n \in Hidraws(p) : n.part = "mouse"
    BY <1>6 DEF Handshakes
  <2>2. \A n \in Hidraws(p) : Score(n) = -1
    BY <2>1 DEF Score
  <2>3. plugged[p] # "native"
    <3>1. SUFFICES ASSUME plugged[p] = "native" PROVE FALSE
      OBVIOUS
    <3>2. "pad" \in Parts[plugged[p]]
      BY <3>1, ModeParts
    <3>3. PICK n \in NodesOf(p) : n.part = "pad"
      BY <1>2, <3>2
    <3> QED
      BY <1>1, <2>1, <3>3 DEF IsHidraw
  <2>4. HasEvdev(p)
    BY <2>3, ModeParts DEF HasEvdev, Flydigi, IsFlydigiHere
  <2>5. XinputMode(p)
    BY <2>2, <2>4 DEF XinputMode
  <2>6. PathsOf(p) = {"xpad"}
    BY <1>6, <2>5 DEF PathsOf
  <2> QED
    BY <2>4, <2>6 DEF HasEvdev
<1> QED
  BY <1>4, <1>5, <1>6

\* A Flydigi that has not changed since the scan has one row, and can be plugged by a node
\* of the pad, in each of its modes.
THEOREM FlydigiPlugs == NodesSpec => []FlydigiCanBePlugged
<1>1. ASSUME NodesInv PROVE FlydigiCanBePlugged
  <2>1. NodesTypeOK
    BY <1>1 DEF NodesInv, NodeTypes, NodesTypeOK
  <2>2. ASSUME NEW p \in Ports, current, plugged[p] \in Flydigi,
               IsFlydigiPort(p) \/ plugged[p] = "native"
        PROVE  /\ {key \in Rows : key[2] = p} = {<<"flydigi", p, "">>}
               /\ Cardinality(Ports) <= MaxEnums => HasEnum(p)
               /\ PathsOf(p) # {} /\ PathsOf(p) \subseteq Parts[plugged[p]] \ {"mouse"}
               /\ \A node \in BestOf(<<"flydigi", p, "">>) : node.part # "mouse"
    <3>1. IsFlydigiHere(p)
      BY <2>2 DEF IsFlydigiHere
    <3>2. Cardinality(Ports) <= MaxEnums => HasEnum(p)
      BY <1>1, <2>2, <3>1 DEF NodesInv, EnumTells
    <3>3. {key \in Rows : key[2] = p} = {<<"flydigi", p, "">>}
      BY <1>1, <2>2, <3>1, FlydigiNodes
    <3>4. PathsOf(p) # {} /\ PathsOf(p) \subseteq Parts[plugged[p]] \ {"mouse"}
      BY <1>1, <2>2, <3>1, PathsAreOfThePad
    <3>5. \A node \in BestOf(<<"flydigi", p, "">>) : node.part # "mouse"
      BY <1>1, <2>2, <3>1, BestIsNoMouse, FlydigiNodes
    <3> QED
      BY <3>2, <3>3, <3>4, <3>5
  <2> QED
    BY <2>1, <2>2 DEF FlydigiCanBePlugged
<1> QED
  BY <1>1, NodesInvariance, PTL

-----------------------------------------------------------------------------
(* The tables of HID passthrough. What is plugged is in two tables, which    *)
(* agree as long as the table of the sessions is not full.                  *)

NodeSets ==
    /\ hidraw \in [Devices -> Nodes \cup {0}]
    /\ plugKeys \in SUBSET Nodes /\ managed \in SUBSET Nodes
    /\ DOMAIN seen \in SUBSET Nodes /\ DOMAIN sessions \in SUBSET Nodes
    /\ DOMAIN autoOf \in SUBSET Nodes

Flags == cooldown \in BOOLEAN /\ online \in BOOLEAN /\ running \in BOOLEAN

\* Two devices are never at one node, neither now nor at the last scan.
DevicesApart ==
    /\ \A d, e \in Devices : hidraw[d] = hidraw[e] /\ hidraw[d] # 0 => d = e
    /\ IsInjective(seen) /\ \A n \in DOMAIN seen : seen[n] \in Devices

SessionsApart ==
    /\ \A n \in DOMAIN sessions : sessions[n].port \in Nat
    /\ \A m, n \in DOMAIN sessions :
          m # n => sessions[m].busid # sessions[n].busid /\ sessions[m].port # sessions[n].port

\* Each bridge of the host has one who answers for it: a session, or its end was not told.
HostKnown ==
    /\ onHost \in SUBSET Bridges /\ stray \in SUBSET onHost
    /\ onHost \subseteq stray \cup Busids /\ stray \cap Busids = {}

KeysHaveSessions == plugKeys = DOMAIN sessions

TablesInv ==
    /\ NodeSets /\ Flags /\ DevicesApart
    /\ KeysHaveSessions /\ SessionsApart /\ HostKnown

RoomForNodes == Cardinality(Nodes) <= MaxSessions

\* While there are sessions for all nodes, a node that has none gets one.
LEMMA RoomForOne ==
    ASSUME RoomForNodes, NodeSets, NEW n \in Nodes, n \notin DOMAIN sessions
    PROVE  Cardinality(DOMAIN sessions) < MaxSessions
<1> DEFINE D == DOMAIN sessions
<1>1. IsFiniteSet(Nodes) /\ D \in SUBSET Nodes /\ D # Nodes /\ MaxSessions \in Nat
  BY TablesAssumption DEF NodeSets
<1> HIDE DEF D
<1>2. /\ IsFiniteSet(D) /\ Cardinality(D) <= Cardinality(Nodes)
      /\ Cardinality(D) = Cardinality(Nodes) => D = Nodes
  BY <1>1, FS_Subset
<1>3. Cardinality(D) \in Nat /\ Cardinality(Nodes) \in Nat
  BY <1>1, <1>2, FS_CardinalityType
<1>4. Cardinality(D) < Cardinality(Nodes)
  BY <1>1, <1>2, <1>3
<1>5. Cardinality(D) < MaxSessions
  BY <1>1, <1>3, <1>4 DEF RoomForNodes
<1> QED
  BY <1>5 DEF D

\* Among one number more than there are sessions, one is the port of none.
LEMMA PortIsFree ==
    ASSUME NodeSets, SessionsApart
    PROVE  NextPort \in Nat /\ \A n \in DOMAIN sessions : sessions[n].port # NextPort
<1> DEFINE D == DOMAIN sessions
           c == Cardinality(D)
           Ports0 == 0 .. c
           used == {sessions[n].port : n \in D}
           free == Ports0 \ used
<1>1. IsFiniteSet(D) /\ c \in Nat
  <2>1. IsFiniteSet(Nodes) /\ D \in SUBSET Nodes
    BY TablesAssumption DEF NodeSets
  <2> QED
    BY <2>1, FS_Subset, FS_CardinalityType
<1>2. free # {}
  <2> SUFFICES ASSUME free = {} PROVE FALSE
    OBVIOUS
  <2> DEFINE g == [q \in Ports0 |-> CHOOSE n \in D : sessions[n].port = q]
  <2>1. \A q \in Ports0 : \E n \in D : sessions[n].port = q
    OBVIOUS
  <2>2. \A q \in Ports0 : g[q] \in D /\ sessions[g[q]].port = q
    BY <2>1
  <2>3. g \in [Ports0 -> D]
    BY <2>2
  <2>4. \A p, q \in Ports0 : g[p] = g[q] => p = q
    BY <2>2
  <2> HIDE DEF g
  <2>5. g \in Injection(Ports0, D)
    BY <2>3, <2>4 DEF Injection, IsInjective
  <2>6. Cardinality(Ports0) <= c
    BY <1>1, <2>5, FS_Injection
  <2>7. Cardinality(Ports0) = c + 1
    <3>1. 0 \in Int /\ c \in Int /\ ~(0 > c)
      BY <1>1
    <3> HIDE DEF c
    <3>2. Cardinality(0 .. c) = c - 0 + 1
      BY <3>1, FS_Interval
    <3> QED
      BY <1>1, <3>2
  <2> HIDE DEF c
  <2> QED
    BY <1>1, <2>6, <2>7
<1>3. free \in SUBSET Nat
  BY <1>1
<1> HIDE DEF c
<1>4. Min(free) \in free /\ \A x \in free : Min(free) <= x
  BY <1>2, <1>3, MinIsLeast
<1>5. \E p \in 0 .. c : /\ \A n \in D : sessions[n].port # p
                        /\ \A q \in 0 .. p - 1 : \E n \in D : sessions[n].port = q
  <2> DEFINE p == Min(free)
  <2>1. p \in 0 .. c /\ p \in Nat /\ \A n \in D : sessions[n].port # p
    BY <1>3, <1>4
  <2>2. \A q \in 0 .. p - 1 : q \in 0 .. c /\ q \notin free
    BY <1>1, <1>4, <2>1
  <2>3. \A q \in 0 .. p - 1 : \E n \in D : sessions[n].port = q
    BY <2>2
  <2> HIDE DEF p
  <2> QED
    BY <2>1, <2>3
<1>6. NextPort \in 0 .. c /\ \A n \in D : sessions[n].port # NextPort
  BY <1>5 DEF NextPort, c
<1> QED
  BY <1>1, <1>6

\* A device that is plugged has a session of its own, with a name and a port of its own.
LEMMA PlugsInKeeps ==
    ASSUME TablesInv, RoomForNodes, NEW n \in Nodes, n \notin DOMAIN sessions, PlugsIn(n)
    PROVE  /\ DOMAIN sessions' = DOMAIN sessions \cup {n}
           /\ SessionsApart' /\ HostKnown' /\ online' \in BOOLEAN
<1> DEFINE b == NextBusid
           q == NextPort
           s == [busid |-> b, port |-> q]
<1>1. FreeNames # {} /\ onHost' = onHost \cup {b} /\ online' = TRUE /\ stray' = stray
      /\ AddsSession(n, s)
  BY DEF PlugsIn
<1>2. Cardinality(DOMAIN sessions) < MaxSessions
  BY RoomForOne DEF TablesInv
<1>3. sessions' = [m \in DOMAIN sessions \cup {n} |-> IF m = n THEN s ELSE sessions[m]]
  BY <1>1, <1>2 DEF AddsSession
<1>4. b \in Bridges /\ b \notin onHost /\ b \notin Busids
  BY <1>1 DEF FreeNames, NextBusid
<1>5. q \in Nat /\ \A m \in DOMAIN sessions : sessions[m].port # q
  BY PortIsFree DEF TablesInv
<1> HIDE DEF b, q
<1>6. \A m \in DOMAIN sessions : sessions[m].busid # b
  BY <1>4 DEF Busids
<1>7. s.busid = b /\ s.port = q
  OBVIOUS
<1> HIDE DEF s
<1>8. /\ DOMAIN sessions' = DOMAIN sessions \cup {n} /\ sessions'[n] = s
      /\ \A m \in DOMAIN sessions : sessions'[m] = sessions[m]
  BY <1>3
<1>9. SessionsApart'
  BY <1>5, <1>6, <1>7, <1>8 DEF TablesInv, SessionsApart
<1>10. Busids' = Busids \cup {b}
  <2>1. \A x \in Busids' : x \in Busids \cup {b}
    BY <1>7, <1>8 DEF Busids
  <2>2. b \in Busids'
    BY <1>7, <1>8 DEF Busids
  <2>3. \A x \in Busids : x \in Busids'
    BY <1>8 DEF Busids
  <2> QED
    BY <2>1, <2>2, <2>3
<1>11. HostKnown'
  BY <1>1, <1>4, <1>10 DEF TablesInv, HostKnown
<1> QED
  BY <1>1, <1>8, <1>9, <1>11

\* A plug that fails leaves no bridge behind, but for one whose end was not told.
LEMMA PlugFailsKeeps ==
    ASSUME HostKnown, PlugFails, sessions' = sessions
    PROVE  HostKnown' /\ online' \in BOOLEAN
<1>1. Busids' = Busids
  BY DEF Busids
<1>2. \/ onHost' = onHost /\ stray' = stray
      \/ /\ FreeNames # {} /\ onHost' = onHost \cup {NextBusid}
         /\ stray' = stray \cup {NextBusid}
  BY DEF PlugFails
<1>3. FreeNames # {} => NextBusid \in Bridges /\ NextBusid \notin onHost /\ NextBusid \notin Busids
  BY DEF FreeNames, NextBusid
<1>4. online' \in BOOLEAN
  BY DEF PlugFails
<1>5. HostKnown'
  BY <1>1, <1>2, <1>3 DEF HostKnown
<1> QED
  BY <1>4, <1>5

\* Sessions that are stopped take their bridges along, or leave them as strays.
LEMMA StopsKeeps ==
    ASSUME TablesInv, NEW S, StopsSessions(S)
    PROVE  /\ DOMAIN sessions' = DOMAIN sessions \ S
           /\ SessionsApart' /\ HostKnown' /\ online' \in BOOLEAN
<1> DEFINE ended == {sessions[n].busid : n \in S \cap DOMAIN sessions}
<1>1. sessions' = [n \in DOMAIN sessions \ S |-> sessions[n]]
  BY DEF StopsSessions
<1>2. PICK unsent \in SUBSET ended :
         /\ onHost' = onHost \ (ended \ unsent) /\ stray' = stray \cup (unsent \cap onHost)
         /\ \E answered \in BOOLEAN : online' = (online /\ (unsent = {} \/ answered))
  BY DEF StopsSessions
<1>3. DOMAIN sessions' = DOMAIN sessions \ S /\ \A n \in DOMAIN sessions' : sessions'[n] = sessions[n]
  BY <1>1
<1>4. SessionsApart'
  BY <1>3 DEF TablesInv, SessionsApart
<1>5. Busids' = Busids \ ended
  <2>1. \A x \in Busids' : x \in Busids /\ x \notin ended
    BY <1>3 DEF Busids, TablesInv, SessionsApart
  <2>2. \A x \in Busids \ ended : x \in Busids'
    BY <1>3 DEF Busids
  <2> QED
    BY <2>1, <2>2
<1>6. ended \subseteq Busids
  BY DEF Busids
<1>7. online' \in BOOLEAN
  BY <1>2 DEF TablesInv, Flags
<1> HIDE DEF ended
<1>8. HostKnown'
  BY <1>2, <1>5, <1>6 DEF TablesInv, HostKnown
<1> QED
  BY <1>3, <1>4, <1>7, <1>8

\* The manager that stops forgets both tables, and the host keeps the bridges as strays.
LEMMA ManagerStopsKeeps ==
    ASSUME TablesInv, ManagerStops, onHost' = onHost, online' = online,
           UNCHANGED <<hidraw, seen, autoOf>>
    PROVE  TablesInv'
<1>1. CASE running
  <2>1. /\ sessions' = NoNode /\ plugKeys' = {} /\ managed' = {} /\ cooldown' = FALSE
        /\ stray' = stray \cup (Busids \cap onHost) /\ running' = FALSE
    BY <1>1 DEF ManagerStops
  <2>2. DOMAIN sessions' = {} /\ Busids' = {}
    BY <2>1 DEF NoNode, Busids
  <2>3. NodeSets' /\ KeysHaveSessions' /\ SessionsApart'
    BY <2>1, <2>2 DEF TablesInv, NodeSets, KeysHaveSessions, SessionsApart
  <2>4. Flags'
    BY <2>1 DEF TablesInv, Flags
  <2>5. DevicesApart'
    BY DEF TablesInv, DevicesApart
  <2>6. HostKnown'
    BY <2>1, <2>2 DEF TablesInv, HostKnown
  <2> QED
    BY <2>3, <2>4, <2>5, <2>6 DEF TablesInv
<1>2. CASE ~running
  <2>1. UNCHANGED <<sessions, plugKeys, managed, cooldown, stray, running>>
    BY <1>2 DEF ManagerStops
  <2>2. NodeSets' /\ KeysHaveSessions' /\ SessionsApart' /\ DevicesApart'
    BY <2>1 DEF TablesInv, NodeSets, KeysHaveSessions, SessionsApart, DevicesApart
  <2>3. Flags'
    BY <2>1 DEF TablesInv, Flags
  <2>4. HostKnown'
    BY <2>1 DEF TablesInv, HostKnown, Busids
  <2> QED
    BY <2>2, <2>3, <2>4 DEF TablesInv
<1> QED
  BY <1>1, <1>2

\* A scan finds each device once, at a node of the kernel.
LEMMA RescansKeeps ==
    ASSUME TablesInv, Rescans, hidraw' = hidraw
    PROVE  DevicesApart' /\ DOMAIN seen' \in SUBSET Nodes
<1>1. seen' = [n \in Range(hidraw) \ {0} |-> AtNode(n)]
  BY DEF Rescans
<1>2. hidraw \in [Devices -> Nodes \cup {0}]
  BY DEF TablesInv, NodeSets
<1>3. \A n \in Range(hidraw) : AtNode(n) \in Devices /\ hidraw[AtNode(n)] = n
  BY <1>2 DEF Range, AtNode
<1>4. Range(hidraw) \ {0} \subseteq Nodes
  BY <1>2 DEF Range
<1>5. IsInjective(seen') /\ \A n \in DOMAIN seen' : seen'[n] \in Devices
  BY <1>1, <1>3 DEF IsInjective
<1> QED
  BY <1>1, <1>4, <1>5 DEF TablesInv, DevicesApart

\* What is not about plugging leaves the two tables and the host alone.
LEMMA TablesStay ==
    ASSUME TablesInv, NodeSets', Flags', DevicesApart',
           UNCHANGED <<plugKeys, sessions, onHost, stray>>
    PROVE  TablesInv'
BY DEF TablesInv, KeysHaveSessions, SessionsApart, HostKnown, Busids

LEMMA TriesKeepsTables ==
    ASSUME TablesInv, RoomForNodes, NEW n \in Nodes, Tries(n)
    PROVE  TablesInv'
<1>1. /\ n \notin DOMAIN sessions /\ n \in DOMAIN seen
      /\ seen' = seen /\ hidraw' = hidraw /\ running' = running
      /\ autoOf' = [m \in DOMAIN autoOf \cup {n} |->
                       IF m \in DOMAIN autoOf THEN autoOf[m] ELSE StableId(m) \in prefs]
  BY DEF Tries, Records, TablesInv, KeysHaveSessions
<1>2. DOMAIN autoOf' \in SUBSET Nodes /\ DevicesApart'
  BY <1>1 DEF TablesInv, NodeSets, DevicesApart
<1>3. CASE /\ PlugsIn(n) /\ plugKeys' = plugKeys \cup {n} /\ managed' = managed \cup {n}
           /\ cooldown' = cooldown
  <2>1. /\ DOMAIN sessions' = DOMAIN sessions \cup {n}
        /\ SessionsApart' /\ HostKnown' /\ online' \in BOOLEAN
    BY <1>1, <1>3, PlugsInKeeps
  <2>2. NodeSets' /\ KeysHaveSessions'
    BY <1>1, <1>2, <1>3, <2>1 DEF TablesInv, NodeSets, KeysHaveSessions
  <2>3. Flags'
    BY <1>1, <1>3, <2>1 DEF TablesInv, Flags
  <2> QED
    BY <1>2, <2>1, <2>2, <2>3 DEF TablesInv
<1>4. CASE /\ PlugFails /\ cooldown' = TRUE /\ managed' \in {managed, managed \cup {n}}
           /\ sessions' = sessions /\ plugKeys' = plugKeys
  <2>1. HostKnown' /\ online' \in BOOLEAN
    BY <1>4, PlugFailsKeeps DEF TablesInv
  <2>2. NodeSets' /\ KeysHaveSessions' /\ SessionsApart'
    BY <1>1, <1>2, <1>4 DEF TablesInv, NodeSets, KeysHaveSessions, SessionsApart
  <2>3. Flags'
    BY <1>1, <1>4, <2>1 DEF TablesInv, Flags
  <2> QED
    BY <1>2, <2>1, <2>2, <2>3 DEF TablesInv
<1> QED
  BY <1>3, <1>4 DEF Tries

LEMMA PlugClickedKeeps ==
    ASSUME TablesInv, RoomForNodes, NEW n \in Nodes, PlugClicked(n)
    PROVE  TablesInv'
<1>1. /\ seen' = seen /\ hidraw' = hidraw /\ running' = running /\ autoOf' = autoOf
      /\ cooldown' = cooldown
  BY DEF PlugClicked
<1>2. DevicesApart'
  BY <1>1 DEF TablesInv, DevicesApart
<1>3. CASE /\ n \notin plugKeys /\ PlugsIn(n)
           /\ plugKeys' = plugKeys \cup {n} /\ managed' = managed \cup {n}
  <2>1. /\ DOMAIN sessions' = DOMAIN sessions \cup {n}
        /\ SessionsApart' /\ HostKnown' /\ online' \in BOOLEAN
    BY <1>3, PlugsInKeeps DEF TablesInv, KeysHaveSessions
  <2>2. NodeSets' /\ KeysHaveSessions'
    BY <1>1, <1>3, <2>1 DEF TablesInv, NodeSets, KeysHaveSessions
  <2>3. Flags'
    BY <1>1, <2>1 DEF TablesInv, Flags
  <2> QED
    BY <1>2, <2>1, <2>2, <2>3 DEF TablesInv
<1>4. CASE n \notin plugKeys /\ PlugFails /\ UNCHANGED <<sessions, plugKeys, managed>>
  <2>1. HostKnown' /\ online' \in BOOLEAN
    BY <1>4, PlugFailsKeeps DEF TablesInv
  <2>2. NodeSets' /\ KeysHaveSessions' /\ SessionsApart'
    BY <1>1, <1>4 DEF TablesInv, NodeSets, KeysHaveSessions, SessionsApart
  <2>3. Flags'
    BY <1>1, <2>1 DEF TablesInv, Flags
  <2> QED
    BY <1>2, <2>1, <2>2, <2>3 DEF TablesInv
<1>5. CASE /\ n \in plugKeys /\ StopsSessions({n})
           /\ plugKeys' = plugKeys \ {n} /\ managed' = managed \cup {n}
  <2>1. /\ DOMAIN sessions' = DOMAIN sessions \ {n}
        /\ SessionsApart' /\ HostKnown' /\ online' \in BOOLEAN
    BY <1>5, StopsKeeps
  <2>2. NodeSets' /\ KeysHaveSessions'
    BY <1>1, <1>5, <2>1 DEF TablesInv, NodeSets, KeysHaveSessions
  <2>3. Flags'
    BY <1>1, <2>1 DEF TablesInv, Flags
  <2> QED
    BY <1>2, <2>1, <2>2, <2>3 DEF TablesInv
<1> QED
  BY <1>3, <1>4, <1>5 DEF PlugClicked

\* The poll takes the keys of devices that left out of both tables.
LEMMA ReapsKeeps == ASSUME TablesInv, Reaps PROVE TablesInv'
<1>1. /\ plugKeys' = plugKeys \cap DOMAIN seen /\ StopsSessions(plugKeys \ DOMAIN seen)
      /\ managed' = (managed \cap DOMAIN seen) \cup plugKeys'
      /\ cooldown' \in IF cooldown THEN BOOLEAN ELSE {FALSE}
      /\ UNCHANGED <<hidraw, seen, autoOf, running>>
  BY DEF Reaps
<1>2. /\ DOMAIN sessions' = DOMAIN sessions \ (plugKeys \ DOMAIN seen)
      /\ SessionsApart' /\ HostKnown' /\ online' \in BOOLEAN
  BY <1>1, StopsKeeps
<1>3. NodeSets' /\ KeysHaveSessions' /\ DevicesApart'
  BY <1>1, <1>2 DEF TablesInv, NodeSets, KeysHaveSessions, DevicesApart
<1>4. cooldown' \in BOOLEAN
  BY <1>1
<1>5. Flags'
  BY <1>1, <1>2, <1>4 DEF TablesInv, Flags
<1> QED
  BY <1>2, <1>3, <1>5 DEF TablesInv

\* Devices come and go without the tables.
LEMMA KernelKeeps ==
    ASSUME TablesInv, NEW d \in Devices,
           Vanishes(d) \/ \E n \in Nodes : Appears(d, n)
    PROVE  TablesInv'
<1>1. /\ UNCHANGED <<seen, plugKeys, sessions, autoOf, managed, cooldown, onHost, stray,
                     online, running>>
      /\ \/ hidraw' = [hidraw EXCEPT ![d] = 0]
         \/ \E n \in Nodes : n \notin Range(hidraw) /\ hidraw' = [hidraw EXCEPT ![d] = n]
  BY DEF Vanishes, Appears
<1>2. hidraw \in [Devices -> Nodes \cup {0}]
  BY DEF TablesInv, NodeSets
<1>3. NodeSets'
  BY <1>1, <1>2 DEF TablesInv, NodeSets
<1>4. DevicesApart'
  <2>1. CASE hidraw' = [hidraw EXCEPT ![d] = 0]
    BY <1>1, <1>2, <2>1 DEF TablesInv, DevicesApart
  <2>2. ASSUME NEW n \in Nodes, n \notin Range(hidraw), hidraw' = [hidraw EXCEPT ![d] = n]
        PROVE  DevicesApart'
    <3>1. \A e \in Devices : hidraw[e] # n
      BY <1>2, <2>2 DEF Range
    <3> QED
      BY <1>1, <1>2, <2>2, <3>1 DEF TablesInv, DevicesApart
  <2> QED
    BY <1>1, <2>1, <2>2
<1>5. Flags'
  BY <1>1 DEF TablesInv, Flags
<1> QED
  BY <1>1, <1>3, <1>4, <1>5, TablesStay

\* What scans, draws rows or sets preferences.
LEMMA ScansAndRowsKeep ==
    ASSUME TablesInv,
           \/ StreamStarts \/ Polled \/ PanelRefreshed \/ NothingToTry
           \/ \E n \in Nodes : AutoToggled(n)
    PROVE  TablesInv'
<1>1. CASE StreamStarts \/ Polled
  <2>1. /\ Rescans /\ UNCHANGED <<hidraw, plugKeys, sessions, autoOf, managed, onHost, stray>>
    BY <1>1 DEF StreamStarts, Polled
  <2>2. DevicesApart' /\ NodeSets'
    BY <2>1, RescansKeeps DEF TablesInv, NodeSets
  <2>3. Flags'
    BY <1>1 DEF StreamStarts, Polled, TablesInv, Flags
  <2> QED
    BY <2>1, <2>2, <2>3, TablesStay
<1>2. CASE PanelRefreshed
  <2>1. /\ Rescans /\ UNCHANGED <<hidraw, plugKeys, sessions, managed, onHost, stray>>
        /\ DOMAIN autoOf' = DOMAIN autoOf \cup DOMAIN seen'
    BY <1>2 DEF PanelRefreshed, DrawsRows, Records
  <2>2. DevicesApart' /\ NodeSets'
    BY <2>1, RescansKeeps DEF TablesInv, NodeSets
  <2>3. Flags'
    BY <1>2 DEF PanelRefreshed, TablesInv, Flags
  <2> QED
    BY <2>1, <2>2, <2>3, TablesStay
<1>3. CASE NothingToTry
  <2>1. /\ UNCHANGED <<seen, hidraw, plugKeys, sessions, managed, onHost, stray>>
        /\ DOMAIN autoOf' = DOMAIN autoOf \cup (DOMAIN seen \ plugKeys)
    BY <1>3 DEF NothingToTry, Records
  <2>2. DevicesApart' /\ NodeSets'
    BY <2>1 DEF TablesInv, NodeSets, DevicesApart
  <2>3. Flags'
    BY <1>3 DEF NothingToTry, TablesInv, Flags
  <2> QED
    BY <2>1, <2>2, <2>3, TablesStay
<1>4. ASSUME NEW n \in Nodes, AutoToggled(n) PROVE TablesInv'
  <2>1. /\ UNCHANGED <<seen, hidraw, plugKeys, sessions, managed, onHost, stray>>
        /\ autoOf' = [autoOf EXCEPT ![n] = ~@]
    BY <1>4 DEF AutoToggled
  <2>2. DevicesApart' /\ NodeSets'
    BY <2>1 DEF TablesInv, NodeSets, DevicesApart
  <2>3. Flags'
    BY <1>4 DEF AutoToggled, TablesInv, Flags
  <2> QED
    BY <2>1, <2>2, <2>3, TablesStay
<1> QED
  BY <1>1, <1>2, <1>3, <1>4

LEMMA HostCollectsKeeps == ASSUME TablesInv, HostCollects PROVE TablesInv'
<1>1. /\ onHost' = onHost \ stray /\ stray' = {}
      /\ UNCHANGED <<hidraw, seen, plugKeys, sessions, autoOf, managed, cooldown, online, running>>
  BY DEF HostCollects
<1>2. HostKnown'
  BY <1>1 DEF TablesInv, HostKnown, Busids
<1>3. NodeSets' /\ DevicesApart' /\ KeysHaveSessions' /\ SessionsApart'
  BY <1>1 DEF TablesInv, NodeSets, DevicesApart, KeysHaveSessions, SessionsApart
<1>4. Flags'
  BY <1>1 DEF TablesInv, Flags
<1> QED
  BY <1>2, <1>3, <1>4 DEF TablesInv

LEMMA RestartKeeps == ASSUME TablesInv, ProgramRestarts PROVE TablesInv'
<1>1. /\ seen' = NoNode /\ plugKeys' = {} /\ sessions' = NoNode /\ autoOf' = NoNode
      /\ managed' = {} /\ stray' = onHost /\ onHost' = onHost /\ hidraw' = hidraw
  BY DEF ProgramRestarts
<1>2. DOMAIN NoNode = {}
  BY DEF NoNode
<1>3. Busids' = {}
  BY <1>1, <1>2 DEF Busids
<1>4. HostKnown'
  BY <1>1, <1>3 DEF TablesInv, HostKnown
<1>5. NodeSets' /\ DevicesApart' /\ KeysHaveSessions' /\ SessionsApart'
  BY <1>1, <1>2 DEF TablesInv, NodeSets, DevicesApart, KeysHaveSessions, SessionsApart, IsInjective
<1>6. Flags'
  BY DEF ProgramRestarts, TablesInv, Flags
<1> QED
  BY <1>4, <1>5, <1>6 DEF TablesInv

\* The inductive invariant of the tables holds in every behaviour, while there are no more
\* nodes than sessions (32 in the code).
THEOREM TablesInvariance == RoomForNodes => (TablesSpec => []TablesInv)
<1>1. ASSUME TablesInit PROVE TablesInv
  <2>1. DOMAIN NoNode = {}
    BY DEF NoNode
  <2>2. Busids = {}
    BY <1>1, <2>1 DEF TablesInit, Busids
  <2>3. NodeSets /\ DevicesApart /\ KeysHaveSessions /\ SessionsApart
    BY <1>1, <2>1 DEF TablesInit, NodeSets, DevicesApart, KeysHaveSessions, SessionsApart,
                      IsInjective
  <2>4. Flags
    BY <1>1 DEF TablesInit, Flags
  <2>5. HostKnown
    BY <1>1, <2>2 DEF TablesInit, HostKnown
  <2> QED
    BY <2>3, <2>4, <2>5 DEF TablesInv
<1>2. ASSUME RoomForNodes, TablesInv, [TablesNext]_tableVars PROVE TablesInv'
  <2>1. ASSUME NEW d \in Devices, Vanishes(d) \/ \E n \in Nodes : Appears(d, n)
        PROVE  TablesInv'
    BY <1>2, <2>1, KernelKeeps
  <2>2. CASE HostCollects \/ ProgramRestarts
    BY <1>2, <2>2, HostCollectsKeeps, RestartKeeps
  <2>3. CASE StreamCloses \/ SessionGone
    <3>1. ManagerStops /\ onHost' = onHost /\ online' = online /\ UNCHANGED <<hidraw, seen, autoOf>>
      BY <2>3 DEF StreamCloses, SessionGone
    <3> QED
      BY <1>2, <3>1, ManagerStopsKeeps
  <2>4. CASE StreamStarts \/ Polled \/ PanelRefreshed \/ NothingToTry
    BY <1>2, <2>4, ScansAndRowsKeep
  <2>5. CASE Reaps
    BY <1>2, <2>5, ReapsKeeps
  <2>6. ASSUME NEW n \in Nodes, Tries(n) PROVE TablesInv'
    BY <1>2, <2>6, TriesKeepsTables
  <2>7. ASSUME NEW n \in Nodes, PlugClicked(n) PROVE TablesInv'
    BY <1>2, <2>7, PlugClickedKeeps
  <2>8. ASSUME NEW n \in Nodes, AutoToggled(n) PROVE TablesInv'
    BY <1>2, <2>8, ScansAndRowsKeep
  <2>9. CASE UNCHANGED tableVars
    <3>1. NodeSets' /\ DevicesApart'
      BY <1>2, <2>9 DEF tableVars, TablesInv, NodeSets, DevicesApart
    <3>2. Flags'
      BY <1>2, <2>9 DEF tableVars, TablesInv, Flags
    <3>3. UNCHANGED <<plugKeys, sessions, onHost, stray>>
      BY <2>9 DEF tableVars
    <3> QED
      BY <1>2, <3>1, <3>2, <3>3, TablesStay
  <2> QED
    BY <1>2, <2>1, <2>2, <2>3, <2>4, <2>5, <2>6, <2>7, <2>8, <2>9 DEF TablesNext
<1>3. RoomForNodes => (TablesInv /\ [TablesNext]_tableVars => TablesInv')
  BY <1>2
<1>4. ASSUME RoomForNodes PROVE TablesSpec => []TablesInv
  <2>1. TablesInv /\ [TablesNext]_tableVars => TablesInv'
    BY <1>3, <1>4
  <2>2. TablesInit => TablesInv
    BY <1>1
  <2> QED
    BY <2>1, <2>2, PTL DEF TablesSpec
<1> QED
  BY <1>4

\* A controller that is plugged has a session and a session its controller, no two share a
\* bridge or a port, and the host has no bridge that nobody answers for: over plugs that
\* fail half way, lost commands, devices that leave and streams that end.
THEOREM TablesStayInAgreement == RoomForNodes => (TablesSpec => []TablesAgree)
<1>1. ASSUME TablesInv PROVE TablesAgree
  <2>1. Range(seen) \subseteq Devices
    BY <1>1 DEF TablesInv, DevicesApart, Range
  <2>2. {cooldown, online, running} \subseteq BOOLEAN
    BY <1>1 DEF TablesInv, Flags
  <2>3. TablesTypeOK
    BY <1>1, <2>1, <2>2 DEF TablesInv, NodeSets, DevicesApart, HostKnown, TablesTypeOK
  <2> QED
    BY <1>1, <2>3 DEF TablesInv, KeysHaveSessions, SessionsApart, HostKnown, TablesAgree
<1>2. ASSUME RoomForNodes PROVE TablesSpec => []TablesAgree
  <2>1. TablesSpec => []TablesInv
    BY <1>2, TablesInvariance
  <2> QED
    BY <1>1, <2>1, PTL
<1> QED
  BY <1>2

-----------------------------------------------------------------------------
(* What is stored. A device's line is found again wherever the others are,   *)
(* which is shown of the text as it is written, line by line: the section of *)
(* a line is that of the greatest header before it, and a list that is       *)
(* flattened has each entry from a place of its own. Both are recursions or   *)
(* choices over data, and both go by the least place where they would fail.  *)

\* A set of numbers up to n has a greatest one.
LEMMA MaxIsGreatest ==
    ASSUME NEW n \in Nat, NEW S \in SUBSET (0 .. n), S # {}
    PROVE  Max(S) \in S /\ \A x \in S : x <= Max(S)
<1> DEFINE T == {k \in 0 .. n : n - k \in S}
<1>1. T \in SUBSET Nat /\ T # {}
  <2>1. PICK x \in S : TRUE
    OBVIOUS
  <2>2. x \in 0 .. n
    BY <2>1
  <2>3. n - x \in 0 .. n /\ n - (n - x) = x
    BY <2>2
  <2>4. n - x \in T
    BY <2>3
  <2>5. T \in SUBSET Nat
    OBVIOUS
  <2> QED
    BY <2>4, <2>5
<1>2. Min(T) \in T /\ \A k \in T : Min(T) <= k
  <2> HIDE DEF T
  <2> QED
    BY <1>1, MinIsLeast
<1>3. PICK m \in 0 .. n : m \in T /\ \A k \in T : m <= k
  BY <1>2
<1>4. n - m \in S /\ \A x \in S : x <= n - m
  <2>1. \A x \in S : n - x \in T
    OBVIOUS
  <2> QED
    BY <1>3, <2>1
<1> QED
  BY <1>4 DEF Max

-----------------------------------------------------------------------------
(* Flattening a sequence of sequences with one entry at most.              *)

Picks(m, t, ss, k) ==
    /\ m \in [1 .. Len(t) -> 1 .. k]
    /\ \A i, j \in 1 .. Len(t) : m[i] = m[j] => i = j
    /\ \A j \in 1 .. Len(t) : ss[m[j]] = <<t[j]>>

LEMMA PicksMore ==
    ASSUME NEW S, NEW k \in Nat \ {0}, NEW ss, NEW t \in Seq(S), NEW m, Picks(m, t, ss, k - 1),
           ss[k] \in Seq(S), Len(ss[k]) <= 1
    PROVE  t \o ss[k] \in Seq(S) /\ \E o : Picks(o, t \o ss[k], ss, k)
<1>1. Len(t) \in Nat /\ Len(ss[k]) \in {0, 1}
  <2>1. Len(t) \in Nat /\ Len(ss[k]) \in Nat
    BY LenProperties
  <2>2. \A l \in Nat : l <= 1 => l \in {0, 1}
    OBVIOUS
  <2> QED
    BY <2>1, <2>2
<1>2. CASE Len(ss[k]) = 0
  <2>1. ss[k] = <<>>
    BY <1>2
  <2>2. t \o ss[k] = t
    BY <2>1, ConcatEmptySeq
  <2>3. m \in [1 .. Len(t) -> 1 .. k]
    BY DEF Picks
  <2> QED
    BY <2>2, <2>3 DEF Picks
<1>3. CASE Len(ss[k]) = 1
  <2> DEFINE e == ss[k][1]
             u == t \o ss[k]
             o == [j \in 1 .. Len(t) + 1 |-> IF j <= Len(t) THEN m[j] ELSE k]
  <2>1. ss[k] = <<e>> /\ e \in S
    BY <1>3
  <2>2. u \in Seq(S) /\ Len(u) = Len(t) + 1
        /\ \A i \in 1 .. Len(t) + 1 : u[i] = IF i <= Len(t) THEN t[i] ELSE e
    <3>1. u \in Seq(S) /\ Len(u) = Len(t) + Len(ss[k])
          /\ \A i \in 1 .. Len(t) + Len(ss[k]) : u[i] = IF i <= Len(t) THEN t[i] ELSE ss[k][i - Len(t)]
      BY ConcatProperties
    <3>2. \A i \in 1 .. Len(t) + 1 : ~(i <= Len(t)) => i - Len(t) = 1
      BY <1>1
    <3> QED
      BY <1>3, <3>1, <3>2
  <2> HIDE DEF u, e
  <2>3. o \in [1 .. Len(t) + 1 -> 1 .. k]
    BY <1>1 DEF Picks
  <2>4. \A i, j \in 1 .. Len(t) + 1 : o[i] = o[j] => i = j
    <3>1. \A i \in 1 .. Len(t) : m[i] \in 1 .. k - 1
      BY DEF Picks
    <3> QED
      BY <1>1, <3>1 DEF Picks
  <2>5. \A j \in 1 .. Len(t) + 1 : ss[o[j]] = <<u[j]>>
    <3> TAKE j \in 1 .. Len(t) + 1
    <3>1. CASE j <= Len(t)
      <4>1. j \in 1 .. Len(t) /\ o[j] = m[j] /\ u[j] = t[j]
        BY <1>1, <2>2, <3>1
      <4> QED
        BY <4>1 DEF Picks
    <3>2. CASE ~(j <= Len(t))
      <4>1. o[j] = k /\ u[j] = e
        BY <2>2, <3>2
      <4> QED
        BY <2>1, <4>1
    <3> QED
      BY <3>1, <3>2
  <2>6. Picks(o, u, ss, k)
    <3> HIDE DEF o
    <3> QED
      BY <2>2, <2>3, <2>4, <2>5 DEF Picks
  <2> QED
    BY <2>2, <2>6 DEF u
<1> QED
  BY <1>1, <1>2, <1>3

LEMMA FlattenPicks ==
    ASSUME NEW S, NEW n \in Nat, NEW ss \in [1 .. n -> Seq(S)],
           \A i \in 1 .. n : Len(ss[i]) <= 1
    PROVE  FlattenSeq(ss) \in Seq(S) /\ \E m : Picks(m, FlattenSeq(ss), ss, n)
<1>1. Len(ss) = n /\ ss \in Seq(Seq(S))
  OBVIOUS
<1>2. CASE n = 0
  <2>1. ss = <<>> /\ FlattenSeq(ss) = <<>>
    BY <1>1, <1>2 DEF FlattenSeq
  <2>2. Picks(<<>>, <<>>, ss, 0)
    BY DEF Picks
  <2>3. <<>> \in Seq(S)
    OBVIOUS
  <2>4. FlattenSeq(ss) \in Seq(S) /\ Picks(<<>>, FlattenSeq(ss), ss, n)
    BY <1>2, <2>1, <2>2, <2>3
  <2> QED
    BY <2>4
<1>3. CASE n # 0
  <2> DEFINE Next1(g, i) == IF i = 1 THEN ss[i] ELSE g[i - 1] \o ss[i]
             Made(k) == \E g \in [1 .. k -> Seq(S)] : \A i \in 1 .. k : g[i] = Next1(g, i)
  <2>1. Made(n)
    <3> DEFINE Not == {k \in 0 .. n : ~Made(k)}
    <3>1. Not \in SUBSET Nat /\ \A k \in 0 .. n : k \in Not <=> ~Made(k)
      <4> HIDE DEF Made
      <4> QED
        OBVIOUS
    <3>2. Made(0)
      <4>1. [i \in 1 .. 0 |-> <<>>] \in [1 .. 0 -> Seq(S)]
        OBVIOUS
      <4>2. \A i \in 1 .. 0 : FALSE
        OBVIOUS
      <4> QED
        BY <4>1, <4>2
    <3>3. SUFFICES ASSUME NEW k \in Not, \A x \in Not : k <= x PROVE FALSE
      <4> HIDE DEF Made, Not
      <4>1. Not # {} => \E k \in Not : \A x \in Not : k <= x
        BY <3>1, MinIsLeast
      <4>2. n \in Not => Not # {}
        OBVIOUS
      <4> QED
        BY <3>1, <3>3, <4>1, <4>2
    <3>4. k - 1 \in 0 .. n /\ k - 1 < k /\ k \in 1 .. n /\ ~Made(k)
      <4>1. k \in 0 .. n /\ ~Made(k)
        OBVIOUS
      <4> HIDE DEF Made, Not
      <4>2. k # 0
        BY <3>2, <4>1
      <4> QED
        BY <4>1, <4>2
    <3>5. Made(k - 1)
      <4>1. k - 1 \notin Not
        <5> HIDE DEF Not, Made
        <5>1. k \in Nat /\ \A x \in Not : x \in Nat
          BY <3>1
        <5> QED
          BY <3>3, <3>4, <5>1
      <4> HIDE DEF Not, Made
      <4> QED
        BY <3>1, <3>4, <4>1
    <3>6. PICK g \in [1 .. k - 1 -> Seq(S)] : \A i \in 1 .. k - 1 : g[i] = Next1(g, i)
      BY <3>5
    <3> DEFINE h == [i \in 1 .. k |-> IF i < k THEN g[i] ELSE Next1(g, k)]
    <3>7. Next1(g, k) \in Seq(S)
      <4>1. CASE k = 1
        BY <3>4, <4>1
      <4>2. CASE k # 1
        <5>1. g[k - 1] \in Seq(S) /\ ss[k] \in Seq(S)
          BY <3>4, <3>6, <4>2
        <5> QED
          BY <4>2, <5>1, ConcatProperties
      <4> QED
        BY <4>1, <4>2
    <3>8. h \in [1 .. k -> Seq(S)]
      <4> HIDE DEF Next1
      <4> QED
        BY <3>4, <3>6, <3>7
    <3>9. \A i \in 1 .. k : h[i] = Next1(h, i)
      <4> TAKE i \in 1 .. k
      <4>1. i # 1 => h[i - 1] = g[i - 1]
        BY <3>4
      <4>2. Next1(h, i) = Next1(g, i)
        BY <4>1
      <4>3. i < k => i \in 1 .. k - 1
        BY <3>4
      <4>4. h[i] = IF i < k THEN g[i] ELSE Next1(g, k)
        OBVIOUS
      <4> HIDE DEF Next1, h
      <4>5. CASE i < k
        BY <3>6, <4>2, <4>3, <4>4, <4>5
      <4>6. CASE ~(i < k)
        <5>1. i = k
          BY <3>4, <4>6
        <5> QED
          BY <4>2, <4>4, <4>6, <5>1
      <4> QED
        BY <4>5, <4>6
    <3>10. Made(k)
      <4> HIDE DEF h, Next1
      <4> QED
        BY <3>8, <3>9
    <3> QED
      BY <3>4, <3>10
  <2> DEFINE f == CHOOSE g : g = [i \in 1 .. n |-> Next1(g, i)]
  <2>2. \E g : g = [i \in 1 .. n |-> Next1(g, i)]
    <3>1. PICK g \in [1 .. n -> Seq(S)] : \A i \in 1 .. n : g[i] = Next1(g, i)
      BY <2>1
    <3>2. g = [i \in 1 .. n |-> Next1(g, i)]
      <4> HIDE DEF Next1
      <4> QED
        BY <3>1
    <3> QED
      BY <3>2
  <2>3. f = [i \in 1 .. n |-> Next1(f, i)]
    BY <2>2
  <2>4. FlattenSeq(ss) = f[n]
    BY <1>1, <1>3 DEF FlattenSeq
  <2> HIDE DEF f
  <2>5. \A i \in 1 .. n : f[i] = IF i = 1 THEN ss[i] ELSE f[i - 1] \o ss[i]
    BY <2>3
  <2> HIDE DEF Next1, Made
  <2> DEFINE Done(k) == f[k] \in Seq(S) /\ \E m : Picks(m, f[k], ss, k)
             Left == {k \in 1 .. n : ~Done(k)}
  <2>6. Left = {}
    <3>1. SUFFICES ASSUME Left # {} PROVE FALSE
      OBVIOUS
    <3>2. PICK k \in Left : \A x \in Left : k <= x
      <4>1. Left \in SUBSET Nat
        OBVIOUS
      <4> HIDE DEF Left
      <4> QED
        BY <3>1, <4>1, MinIsLeast
    <3>3. k \in Nat \ {0} /\ k \in 1 .. n /\ ss[k] \in Seq(S) /\ Len(ss[k]) <= 1
      BY <3>2
    <3>4. \E t \in Seq(S) : f[k] = t \o ss[k] /\ \E m : Picks(m, t, ss, k - 1)
      <4>1. CASE k = 1
        <5>1. Picks(<<>>, <<>>, ss, k - 1) /\ <<>> \in Seq(S)
          BY DEF Picks
        <5>2. f[k] = <<>> \o ss[k]
          BY <2>5, <3>3, <4>1, ConcatEmptySeq
        <5> QED
          BY <5>1, <5>2
      <4>2. CASE k # 1
        <5>1. k - 1 \in 1 .. n /\ ~(k <= k - 1)
          BY <3>3, <4>2
        <5>2. Done(k - 1)
          BY <3>2, <5>1
        <5>3. f[k] = f[k - 1] \o ss[k]
          BY <2>5, <3>3, <4>2
        <5> QED
          BY <5>2, <5>3
      <4> QED
        BY <4>1, <4>2
    <3>5. Done(k)
      BY <3>3, <3>4, PicksMore
    <3> QED
      BY <3>2, <3>5
  <2>7. Done(n)
    <3>1. n \in 1 .. n
      BY <1>3
    <3> QED
      BY <2>6, <3>1
  <2> QED
    BY <2>4, <2>7
<1> QED
  BY <1>2, <1>3

-----------------------------------------------------------------------------
(* What is stored. The file of the settings is the one settings_save wrote,  *)
(* or it has lost its headers to hid_pt_prefs_flush; both still tell a       *)
(* setting that is matched by its name alone.                                *)

Confs == [fps : Nat, rate : Nat, autoresume : BOOLEAN]
PrefMaps == UNION {[D -> BOOLEAN] : D \in {E \in SUBSET Ids : IsFiniteSet(E)}}
Names ==
    Ids \cup {"", "streaming", "host", "video", "hid_pt_devices",
             "width", "fps", "sops", "autoresume", "decoder", "rate"}
Lines == [kind : {"header", "key", "torn"}, name : Names, value : Nat]
Texts == Seq(Lines)
NodeLists == Seq([host : KnownPcs, known : BOOLEAN, selected : BOOLEAN, favs : SUBSET PcApps])

IsReconciled(c) == Reconciled(c) = c

DevicesHeader == Header("hid_pt_devices")

\* Only the section of the devices has a header.
Headless(text) == \A i \in DOMAIN text : text[i].kind = "header" => text[i] = DevicesHeader

\* What stands before that section says of autoresume what c has.
Tells(text, c) ==
    \A i \in DOMAIN text :
        text[i].kind = "key" /\ text[i].name = "autoresume"
            /\ (\A j \in 1 .. i : text[j] # DevicesHeader)
        => text[i].value = AsNumber(c.autoresume)

Orderly(nodes) == \A i, j \in DOMAIN nodes : nodes[i].host = nodes[j].host => i = j
OneSelected(nodes) == \A i, j \in DOMAIN nodes : nodes[i].selected /\ nodes[j].selected => i = j

StoredTypeOK ==
    /\ alive \in BOOLEAN /\ clean \in BOOLEAN /\ iniMade \in BOOLEAN
    /\ conf \in Confs /\ stored \in Confs /\ auto \in PrefMaps
    /\ known \in NodeLists /\ hostsText \in NodeLists /\ iniText \in Texts

RatesAgree == IsReconciled(conf) /\ IsReconciled(stored)
HostsInOrder == Orderly(known) /\ Orderly(hostsText) /\ OneSelected(known)
FileIsKnown ==
    /\ Headless(iniText) \/ (\E a \in PrefMaps : iniText = Saved(stored, a))
    /\ Tells(iniText, stored)
ExitWasKept ==
    ~alive /\ clean =>
        iniText = Saved(conf, auto) /\ stored = conf /\ hostsText = KnownOf(known)

StoredInv == StoredTypeOK /\ RatesAgree /\ HostsInOrder /\ FileIsKnown /\ ExitWasKept

-----------------------------------------------------------------------------
(* The rates.                                                               *)

LEMMA NtscType == ASSUME NEW n \in Nat PROVE Ntsc(n) \in Nat
BY DEF Ntsc

LEMMA ReconciledType == ASSUME NEW c \in Confs PROVE Reconciled(c) \in Confs
BY NtscType DEF Reconciled, Confs

\* Reconciling once is enough, and then the two rates agree.
LEMMA ReconciledOnce ==
    ASSUME NEW c \in Confs
    PROVE  /\ IsReconciled(Reconciled(c))
           /\ Reconciled(c).rate > 0 => Implied(Reconciled(c).rate) = Reconciled(c).fps
<1> DEFINE r == Reconciled(c)
<1>1. c.fps \in Nat /\ c.rate \in Nat /\ Ntsc(c.fps) \in Nat
  BY NtscType DEF Confs
<1>2. CASE Ntsc(c.fps) > 0
  <2>1. r = [c EXCEPT !.rate = Ntsc(c.fps)]
    BY <1>2 DEF Reconciled
  <2>2. r.fps = c.fps /\ r.rate = Ntsc(c.fps) /\ [r EXCEPT !.rate = Ntsc(c.fps)] = r
    BY <2>1 DEF Confs
  <2>3. IsReconciled(r)
    <3> HIDE DEF r
    <3> QED
      BY <1>2, <2>2 DEF IsReconciled, Reconciled
  <2>4. Implied(Ntsc(c.fps)) = c.fps
    BY <1>1, <1>2 DEF Implied, Ntsc
  <2> QED
    BY <2>2, <2>3, <2>4
<1>3. CASE ~(Ntsc(c.fps) > 0) /\ c.rate > 0 /\ Implied(c.rate) # c.fps
  <2>1. r = [c EXCEPT !.rate = 0]
    BY <1>3 DEF Reconciled
  <2>2. r.fps = c.fps /\ r.rate = 0
    BY <2>1 DEF Confs
  <2>3. IsReconciled(r)
    <3> HIDE DEF r
    <3> QED
      BY <1>3, <2>2 DEF IsReconciled, Reconciled
  <2> QED
    BY <2>2, <2>3
<1>4. CASE ~(Ntsc(c.fps) > 0) /\ ~(c.rate > 0 /\ Implied(c.rate) # c.fps)
  <2>1. r = c
    BY <1>4 DEF Reconciled
  <2> QED
    BY <1>4, <2>1 DEF IsReconciled
<1> QED
  BY <1>2, <1>3, <1>4

LEMMA RatesOfReconciled ==
    ASSUME NEW c \in Confs, IsReconciled(c)
    PROVE  c.rate > 0 => Implied(c.rate) = c.fps
BY ReconciledOnce DEF IsReconciled

LEMMA ReconciledAtSixty ==
    ASSUME NEW c \in Confs, c.fps = 60
    PROVE  /\ Reconciled(c).fps = 60 /\ Reconciled(c).rate = 5994
           /\ Reconciled(c).autoresume = c.autoresume
<1>1. Ntsc(60) = 5994
  BY DEF Ntsc
<1>2. Reconciled(c) = [c EXCEPT !.rate = 5994]
  BY <1>1 DEF Reconciled
<1> QED
  BY <1>2 DEF Confs

LEMMA DefaultIs ==
    /\ Default \in Confs /\ IsReconciled(Default)
    /\ Default.fps = 60 /\ Default.rate = 5994 /\ ~Default.autoresume
<1> DEFINE c == [fps |-> 60, rate |-> 0, autoresume |-> FALSE]
<1>1. c \in Confs /\ c.fps = 60 /\ ~c.autoresume
  BY DEF Confs
<1>2. Default = Reconciled(c)
  BY DEF Default
<1> HIDE DEF c
<1> QED
  BY <1>1, <1>2, ReconciledAtSixty, ReconciledOnce, ReconciledType

\* What the bound of the reader makes of two rates that agree: the same, or no precise rate.
LEMMA ClampedIsKept ==
    ASSUME NEW c \in Confs, IsReconciled(c)
    PROVE  /\ Reconciled([c EXCEPT !.rate = Clamped(c.rate)]) = Kept(c)
           /\ Kept(c) \in Confs /\ IsReconciled(Kept(c))
<1>1. c.fps \in Nat /\ c.rate \in Nat /\ Ntsc(c.fps) \in Nat
  BY NtscType DEF Confs
<1> DEFINE b == [c EXCEPT !.rate = Clamped(c.rate)]
<1>2. CASE c.rate <= MaxRate
  <2>1. Clamped(c.rate) = c.rate /\ ~(c.rate > MaxRate)
    BY <1>1, <1>2 DEF Clamped, MaxRate
  <2>2. b = c /\ Kept(c) = c
    BY <2>1 DEF Kept, Confs
  <2> QED
    BY <2>2 DEF IsReconciled
<1>3. CASE ~(c.rate <= MaxRate)
  <2>1. c.rate > 24000
    BY <1>1, <1>3 DEF MaxRate
  <2>2. Ntsc(c.fps) = 0
    <3>1. Ntsc(c.fps) <= 24000
      BY <1>1 DEF Ntsc
    <3>2. Ntsc(c.fps) > 0 => Reconciled(c).rate = Ntsc(c.fps)
      BY DEF Reconciled, Confs
    <3> QED
      BY <1>1, <2>1, <3>1, <3>2 DEF IsReconciled
  \* Rounded to whole frames the rate is above 240, and the bound is 240.
  <2>3. c.fps # 240
    BY <2>2 DEF Ntsc
  <2>4. /\ Clamped(c.rate) = 24000 /\ Implied(24000) = 240
        /\ Kept(c) = [c EXCEPT !.rate = 0]
    BY <2>1 DEF Clamped, Implied, Kept, MaxRate
  <2>5. b = [c EXCEPT !.rate = 24000]
    BY <2>4
  <2>6. b.fps = c.fps /\ b.rate = 24000 /\ [b EXCEPT !.rate = 0] = [c EXCEPT !.rate = 0]
    <3>1. b.fps = c.fps /\ b.rate = 24000
      BY <2>5 DEF Confs
    <3>2. b = [fps |-> c.fps, rate |-> 24000, autoresume |-> c.autoresume]
      BY <2>5 DEF Confs
    <3>3. [b EXCEPT !.rate = 0] = [c EXCEPT !.rate = 0]
      <4> DEFINE zero == [fps |-> c.fps, rate |-> 0, autoresume |-> c.autoresume]
      <4>1. [c EXCEPT !.rate = 0] = zero
        BY DEF Confs
      <4>2. [b EXCEPT !.rate = 0] = zero
        <5> HIDE DEF b
        <5> QED
          BY <3>2
      <4> QED
        BY <4>1, <4>2
    <3> QED
      BY <3>1, <3>3
  <2>7. Reconciled(b) = [b EXCEPT !.rate = 0]
    <3> HIDE DEF b
    <3> QED
      BY <2>2, <2>3, <2>4, <2>6 DEF Reconciled
  <2>8. Kept(c).fps = c.fps /\ Kept(c).rate = 0 /\ Kept(c) \in Confs
    BY <2>4 DEF Confs
  <2>9. Reconciled(Kept(c)) = Kept(c)
    BY <2>2, <2>8 DEF Reconciled
  <2> QED
    BY <2>4, <2>6, <2>7, <2>8, <2>9 DEF IsReconciled
<1> QED
  BY <1>2, <1>3

-----------------------------------------------------------------------------
(* The section a line belongs to.                                           *)

LEMMA SectionIs ==
    ASSUME NEW text \in Texts, NEW i \in DOMAIN text
    PROVE  \/ /\ \A j \in 1 .. i : text[j].kind # "header"
              /\ SectionAt(text, i) = ""
           \/ \E h \in 1 .. i :
                 /\ text[h].kind = "header" /\ \A j \in h + 1 .. i : text[j].kind # "header"
                 /\ SectionAt(text, i) = text[h].name
<1> DEFINE H == {j \in 1 .. i : text[j].kind = "header"}
<1>1. SectionAt(text, i) = IF H = {} THEN "" ELSE IF Max(H) = 0 THEN "" ELSE text[Max(H)].name
  BY DEF SectionAt, SelectLastInSubSeq
<1>2. CASE H = {}
  BY <1>1, <1>2
<1>3. CASE H # {}
  <2>1. i \in Nat /\ H \in SUBSET (0 .. i)
    BY DEF Texts
  <2>2. Max(H) \in H /\ \A x \in H : x <= Max(H)
    <3> HIDE DEF H
    <3> QED
      BY <1>3, <2>1, MaxIsGreatest
  <2>3. PICK h \in H : h = Max(H)
    BY <2>2
  <2>4. h \in 1 .. i /\ text[h].kind = "header" /\ h # 0
    OBVIOUS
  <2>5. ASSUME NEW j \in h + 1 .. i PROVE text[j].kind # "header"
    <3>1. j \in 1 .. i /\ ~(j <= h)
      BY <2>1, <2>4
    <3>2. j \notin H
      <4> HIDE DEF H
      <4> QED
        BY <2>2, <2>3, <3>1
    <3> QED
      BY <3>1, <3>2
  <2>6. SectionAt(text, i) = text[h].name
    <3> HIDE DEF H
    <3> QED
      BY <1>1, <1>3, <2>3, <2>4
  <2> QED
    BY <2>4, <2>5, <2>6
<1> QED
  BY <1>2, <1>3

-----------------------------------------------------------------------------
(* The lines that are written.                                              *)

LEMMA DevicesInOrder ==
    ASSUME NEW D, IsFiniteSet(D)
    PROVE  /\ Cardinality(D) \in Nat
           /\ SetToSeq(D) \in [1 .. Cardinality(D) -> D]
           /\ \A i, j \in 1 .. Cardinality(D) : SetToSeq(D)[i] = SetToSeq(D)[j] => i = j
           /\ \A d \in D : \E i \in 1 .. Cardinality(D) : SetToSeq(D)[i] = d
<1> DEFINE n == Cardinality(D)
           q == SetToSeq(D)
<1>1. n \in Nat /\ ExistsBijection(1 .. n, D)
  BY FS_CardinalityType
<1>2. PICK f \in [1 .. n -> D] : IsInjective(f)
  BY <1>1 DEF ExistsBijection, Bijection, Injection
<1>3. q \in [1 .. n -> D] /\ IsInjective(q)
  BY <1>2 DEF SetToSeq
<1>4. q \in Injection(1 .. n, D)
  BY <1>3 DEF Injection
<1>5. IsFiniteSet(1 .. n) /\ Cardinality(1 .. n) = n
  BY <1>1, FS_Interval
<1>6. q \in Surjection(1 .. n, D)
  <2> HIDE DEF q
  <2> QED
    BY <1>4, <1>5, FS_Injection
<1>7. DOMAIN q = 1 .. n
  BY <1>3
<1> QED
  BY <1>1, <1>3, <1>6, <1>7 DEF IsInjective, Surjection

LEMMA PrefMapsAre ==
    ASSUME NEW a \in PrefMaps
    PROVE  DOMAIN a \in SUBSET Ids /\ IsFiniteSet(DOMAIN a) /\ a \in [DOMAIN a -> BOOLEAN]
BY DEF PrefMaps

\* A section of the devices: its header, and a line for each device.
DevicesSection(t, a, q) ==
    /\ t # <<>> => Len(t) = Len(q) + 1 /\ t[1] = DevicesHeader
    /\ \A k \in 1 .. Len(q) : t[k + 1] = Line(q[k], AsNumber(a[q[k]]))
    /\ t = <<>> => DOMAIN a = {}
    /\ \A i, j \in 1 .. Len(q) : q[i] = q[j] => i = j
    /\ \A d \in DOMAIN a : \E k \in 1 .. Len(q) : q[k] = d

LEMMA PrefsTextIs ==
    ASSUME NEW a \in PrefMaps
    PROVE  /\ PrefsText(a) \in Texts
           /\ \E q \in Seq(DOMAIN a) : DevicesSection(PrefsText(a), a, q)
<1> DEFINE D == DOMAIN a
           q == SetToSeq(D)
           n == Cardinality(D)
           L == [i \in DOMAIN q |-> Line(q[i], AsNumber(a[q[i]]))]
<1>1. D \in SUBSET Ids /\ IsFiniteSet(D) /\ a \in [D -> BOOLEAN]
  BY PrefMapsAre
<1>2. /\ n \in Nat /\ q \in [1 .. n -> D]
      /\ \A i, j \in 1 .. n : q[i] = q[j] => i = j
      /\ \A d \in D : \E i \in 1 .. n : q[i] = d
  <2> HIDE DEF D
  <2> QED
    BY <1>1, DevicesInOrder
<1>3. PrefsText(a) = IF D = {} THEN <<>> ELSE <<DevicesHeader>> \o L
  BY DEF PrefsText, DevicesHeader
<1> HIDE DEF q, n, D
<1>4. q \in Seq(D) /\ Len(q) = n /\ DOMAIN q = 1 .. n
  BY <1>2
<1>5. CASE D = {}
  <2>1. n = 0
    BY <1>2, <1>5
  <2>2. PrefsText(a) = <<>>
    BY <1>3, <1>5
  <2>3. DevicesSection(<<>>, a, q)
    BY <1>4, <1>5, <2>1 DEF DevicesSection, D
  <2>4. <<>> \in Texts
    BY DEF Texts
  <2> QED
    BY <1>4, <2>2, <2>3, <2>4 DEF D
<1>6. CASE D # {}
  <2>1. PrefsText(a) = <<DevicesHeader>> \o L
    BY <1>3, <1>6
  <2>2. <<DevicesHeader>> \in Seq(Lines) /\ Len(<<DevicesHeader>>) = 1 /\ <<DevicesHeader>>[1] = DevicesHeader
    <3>1. DevicesHeader \in Lines
      BY DEF DevicesHeader, Header, Lines, Names
    <3> QED
      BY <3>1
  <2>3. L \in Seq(Lines) /\ Len(L) = n /\ \A k \in 1 .. n : L[k] = Line(q[k], AsNumber(a[q[k]]))
    <3>1. \A k \in 1 .. n : Line(q[k], AsNumber(a[q[k]])) \in Lines
      BY <1>1, <1>2 DEF Line, AsNumber, Lines, Names
    <3> QED
      BY <1>2, <1>4, <3>1
  <2> DEFINE h == <<DevicesHeader>>
             t == h \o L
  <2>4. /\ t \in Seq(Lines) /\ Len(t) = 1 + n
        /\ \A i \in 1 .. 1 + n : t[i] = IF i <= 1 THEN h[i] ELSE L[i - 1]
    <3> HIDE DEF h, L
    <3>1. h \in Seq(Lines) /\ Len(h) = 1 /\ L \in Seq(Lines) /\ Len(L) = n
      BY <2>2, <2>3 DEF h
    <3>2. /\ h \o L \in Seq(Lines) /\ Len(h \o L) = Len(h) + Len(L)
          /\ \A i \in 1 .. Len(h) + Len(L) :
                (h \o L)[i] = IF i <= Len(h) THEN h[i] ELSE L[i - Len(h)]
      BY <3>1, ConcatProperties
    <3> QED
      BY <1>2, <3>1, <3>2
  <2> HIDE DEF h, t, L
  <2>5. t[1] = DevicesHeader /\ t # <<>>
    BY <1>2, <2>2, <2>4 DEF h
  <2>6. ASSUME NEW k \in 1 .. n PROVE t[k + 1] = Line(q[k], AsNumber(a[q[k]]))
    <3>1. k + 1 \in 1 .. 1 + n /\ ~(k + 1 <= 1) /\ (k + 1) - 1 = k
      BY <1>2
    <3> QED
      BY <2>3, <2>4, <3>1
  <2>7. DevicesSection(t, a, q)
    BY <1>2, <1>4, <2>4, <2>5, <2>6 DEF DevicesSection, D
  <2> QED
    BY <1>4, <2>1, <2>4, <2>7 DEF Texts, D, t, h
<1> QED
  BY <1>5, <1>6

LEMMA SectionsAre ==
    ASSUME NEW c \in Confs
    PROVE  /\ Sections(c) \in Texts /\ Len(Sections(c)) = 9
           /\ Sections(c)[1] = Header("streaming") /\ Sections(c)[2] = Line("width", 0)
           /\ Sections(c)[3] = Line("fps", c.fps)
           /\ Sections(c)[4] = Header("host") /\ Sections(c)[5] = Line("sops", 1)
           /\ Sections(c)[6] = Line("autoresume", AsNumber(c.autoresume))
           /\ Sections(c)[7] = Header("video") /\ Sections(c)[8] = Line("decoder", 0)
           /\ Sections(c)[9] = Line("rate", c.rate)
<1>1. /\ Header("streaming") \in Lines /\ Header("host") \in Lines /\ Header("video") \in Lines
      /\ Line("width", 0) \in Lines /\ Line("sops", 1) \in Lines /\ Line("decoder", 0) \in Lines
  BY DEF Header, Line, Lines, Names
<1>2. /\ Line("fps", c.fps) \in Lines /\ Line("rate", c.rate) \in Lines
      /\ Line("autoresume", AsNumber(c.autoresume)) \in Lines
  BY DEF Line, Lines, Names, Confs, AsNumber
<1> QED
  BY <1>1, <1>2 DEF Sections, Texts

\* The file as settings_save writes it, in numbers of lines.
StartsAs(text, c) ==
    /\ text[1] = Header("streaming") /\ text[2] = Line("width", 0) /\ text[3] = Line("fps", c.fps)
    /\ text[4] = Header("host") /\ text[5] = Line("sops", 1)
    /\ text[6] = Line("autoresume", AsNumber(c.autoresume))
    /\ text[7] = Header("video") /\ text[8] = Line("decoder", 0) /\ text[9] = Line("rate", c.rate)

EndsAs(text, a, q) ==
    \A i \in 11 .. Len(text) : i - 10 \in 1 .. Len(q)
                               /\ text[i] = Line(q[i - 10], AsNumber(a[q[i - 10]]))

Written(text, c, a, q) ==
    /\ text \in Texts /\ q \in Seq(DOMAIN a)
    /\ StartsAs(text, c)
    /\ \/ Len(text) = 9 /\ DOMAIN a = {}
       \/ Len(text) = 10 + Len(q) /\ text[10] = DevicesHeader
    /\ EndsAs(text, a, q)
    /\ \A i, j \in 1 .. Len(q) : q[i] = q[j] => i = j
    /\ \A d \in DOMAIN a : \E k \in 1 .. Len(q) : q[k] = d

LEMMA SavedIsWritten ==
    ASSUME NEW c \in Confs, NEW a \in PrefMaps
    PROVE  \E q : Written(Saved(c, a), c, a, q)
<1> DEFINE s == Sections(c)
           t == PrefsText(a)
           u == Saved(c, a)
<1>1. t \in Seq(Lines) /\ s \in Seq(Lines) /\ Len(s) = 9
  BY PrefsTextIs, SectionsAre DEF Texts
<1>2. PICK q \in Seq(DOMAIN a) : DevicesSection(t, a, q)
  BY PrefsTextIs
<1>3. u = s \o t
  BY DEF Saved
<1> HIDE DEF s, t, u
<1>4. /\ u \in Seq(Lines) /\ Len(u) = 9 + Len(t)
      /\ \A i \in 1 .. 9 + Len(t) : u[i] = IF i <= 9 THEN s[i] ELSE t[i - 9]
  <2>1. /\ s \o t \in Seq(Lines) /\ Len(s \o t) = Len(s) + Len(t)
        /\ \A i \in 1 .. Len(s) + Len(t) :
              (s \o t)[i] = IF i <= Len(s) THEN s[i] ELSE t[i - Len(s)]
    BY <1>1, ConcatProperties
  <2> QED
    BY <1>1, <1>3, <2>1
<1>5. Len(t) \in Nat /\ Len(q) \in Nat
  BY <1>1
<1>6. \A i \in 1 .. 9 : u[i] = s[i]
  BY <1>4, <1>5
<1>7. (Len(u) = 9 /\ DOMAIN a = {}) \/ (Len(u) = 10 + Len(q) /\ u[10] = DevicesHeader)
  <2>1. CASE t = <<>>
    <3>1. Len(t) = 0
      BY <2>1
    <3>2. Len(u) = 9
      BY <1>4, <3>1
    <3>3. DOMAIN a = {}
      BY <1>2, <2>1 DEF DevicesSection
    <3> QED
      BY <3>2, <3>3
  <2>2. CASE t # <<>>
    <3>1. Len(t) = Len(q) + 1 /\ t[1] = DevicesHeader
      BY <1>2, <2>2 DEF DevicesSection
    <3>2. 10 \in 1 .. 9 + Len(t) /\ ~(10 <= 9) /\ 10 - 9 = 1
      BY <1>5, <3>1
    <3> QED
      BY <1>4, <1>5, <3>1, <3>2
  <2> QED
    BY <2>1, <2>2
<1>8. ASSUME NEW i \in 11 .. Len(u)
      PROVE  i - 10 \in 1 .. Len(q) /\ u[i] = Line(q[i - 10], AsNumber(a[q[i - 10]]))
  <2>1. i \in 1 .. 9 + Len(t) /\ ~(i <= 9) /\ t # <<>>
    <3>1. t = <<>> => Len(t) = 0
      OBVIOUS
    <3> QED
      BY <1>4, <1>5, <3>1
  <2>2. Len(t) = Len(q) + 1
    BY <1>2, <2>1 DEF DevicesSection
  <2>3. i - 10 \in 1 .. Len(q) /\ (i - 10) + 1 = i - 9
    BY <1>4, <1>5, <2>2
  <2>4. t[(i - 10) + 1] = Line(q[i - 10], AsNumber(a[q[i - 10]]))
    BY <1>2, <2>3 DEF DevicesSection
  <2> QED
    BY <1>4, <2>1, <2>3, <2>4
<1>9. /\ s[1] = Header("streaming") /\ s[2] = Line("width", 0) /\ s[3] = Line("fps", c.fps)
      /\ s[4] = Header("host") /\ s[5] = Line("sops", 1)
      /\ s[6] = Line("autoresume", AsNumber(c.autoresume))
      /\ s[7] = Header("video") /\ s[8] = Line("decoder", 0) /\ s[9] = Line("rate", c.rate)
  BY SectionsAre DEF s
<1>10. StartsAs(u, c)
  BY <1>6, <1>9 DEF StartsAs
<1>11. EndsAs(u, a, q)
  BY <1>8 DEF EndsAs
<1>12. Written(u, c, a, q)
  BY <1>2, <1>4, <1>7, <1>10, <1>11 DEF Written, Texts, DevicesSection
<1> QED
  BY <1>12 DEF u

LEMMA KindsWritten ==
    ASSUME NEW text, NEW c \in Confs, NEW a \in PrefMaps, NEW q, Written(text, c, a, q)
    PROVE  /\ \A i \in DOMAIN text : /\ text[i].kind = "header" <=> i \in {1, 4, 7, 10}
                                     /\ text[i].kind \in {"header", "key"}
           /\ 10 \in DOMAIN text => text[10] = DevicesHeader
<1>1. Len(text) \in Nat /\ DOMAIN text = 1 .. Len(text)
  BY DEF Written, Texts
<1>2. /\ text[1].kind = "header" /\ text[4].kind = "header" /\ text[7].kind = "header"
      /\ text[2].kind = "key" /\ text[3].kind = "key" /\ text[5].kind = "key"
      /\ text[6].kind = "key" /\ text[8].kind = "key" /\ text[9].kind = "key"
  <2>1. StartsAs(text, c)
    BY DEF Written
  <2> QED
    BY <2>1 DEF StartsAs, Header, Line
<1>3. 10 \in DOMAIN text => text[10] = DevicesHeader
  <2>1. (Len(text) = 9) \/ text[10] = DevicesHeader
    BY DEF Written
  <2> QED
    BY <1>1, <2>1
<1>4. ASSUME NEW i \in 11 .. Len(text) PROVE text[i].kind = "key"
  <2>1. text[i] = Line(q[i - 10], AsNumber(a[q[i - 10]]))
    BY <1>4 DEF Written, EndsAs
  <2> QED
    BY <2>1 DEF Line
<1>5. ASSUME NEW i \in DOMAIN text
      PROVE  (text[i].kind = "header" /\ i \in {1, 4, 7, 10}) \/ (text[i].kind = "key" /\ i \notin {1, 4, 7, 10})
  <2>1. CASE i \in 1 .. 9
    BY <1>2, <2>1
  <2>2. CASE i = 10
    BY <1>3, <1>5, <2>2 DEF DevicesHeader, Header
  <2>3. CASE i \in 11 .. Len(text)
    BY <1>4, <2>3
  <2> QED
    BY <1>1, <2>1, <2>2, <2>3
<1> QED
  BY <1>3, <1>5

LEMMA SectionsWritten ==
    ASSUME NEW text, NEW c \in Confs, NEW a \in PrefMaps, NEW q, Written(text, c, a, q),
           NEW i \in DOMAIN text
    PROVE  SectionAt(text, i) = IF i <= 3 THEN "streaming" ELSE IF i <= 6 THEN "host"
                                ELSE IF i <= 9 THEN "video" ELSE "hid_pt_devices"
<1>1. text \in Texts /\ Len(text) \in Nat /\ DOMAIN text = 1 .. Len(text) /\ i \in 1 .. Len(text)
  BY DEF Written, Texts
<1>2. \A j \in 1 .. i : text[j].kind = "header" <=> j \in {1, 4, 7, 10}
  BY <1>1, KindsWritten
<1>3. PICK h \in 1 .. i : /\ text[h].kind = "header" /\ \A j \in h + 1 .. i : text[j].kind # "header"
                          /\ SectionAt(text, i) = text[h].name
  <2>1. 1 \in 1 .. i
    BY <1>1
  <2> QED
    BY <1>1, <1>2, <2>1, SectionIs
<1>4. h \in {1, 4, 7, 10} /\ \A j \in {1, 4, 7, 10} : ~(h < j /\ j <= i)
  <2>1. h \in {1, 4, 7, 10}
    BY <1>2, <1>3
  <2>2. ASSUME NEW j \in {1, 4, 7, 10}, h < j, j <= i PROVE FALSE
    <3>1. j \in h + 1 .. i /\ j \in 1 .. i
      BY <1>1, <2>1, <2>2
    <3> QED
      BY <1>2, <1>3, <3>1
  <2> QED
    BY <2>1, <2>2
<1>5. h = IF i <= 3 THEN 1 ELSE IF i <= 6 THEN 4 ELSE IF i <= 9 THEN 7 ELSE 10
  BY <1>1, <1>4
<1>6. text[1].name = "streaming" /\ text[4].name = "host" /\ text[7].name = "video"
  BY DEF Written, StartsAs, Header
<1>7. i > 9 => text[10].name = "hid_pt_devices"
  <2>1. i > 9 => 10 \in DOMAIN text
    BY <1>1
  <2> QED
    BY <2>1, KindsWritten DEF Header, DevicesHeader
<1> QED
  BY <1>1, <1>3, <1>5, <1>6, <1>7

-----------------------------------------------------------------------------
(* What is written is read.                                                 *)

LEMMA LookupOne ==
    ASSUME NEW text, NEW name, NEW default, NEW k \in DOMAIN text,
           \A i \in DOMAIN text :
               text[i].name = name /\ Matches(text[i], SectionAt(text, i)) <=> i = k
    PROVE  Lookup(text, name, default) = text[k].value
<1> DEFINE at == {i \in DOMAIN text : text[i].name = name /\ Matches(text[i], SectionAt(text, i))}
<1>1. at = {k}
  OBVIOUS
<1>2. Lookup(text, name, default) = IF at = {} THEN default ELSE text[CHOOSE i \in at : TRUE].value
  BY DEF Lookup
<1> HIDE DEF at
<1>3. (CHOOSE i \in at : TRUE) = k
  BY <1>1
<1> QED
  BY <1>1, <1>2, <1>3

LEMMA SettingsWritten ==
    ASSUME NEW text, NEW c \in Confs, NEW a \in PrefMaps, NEW q, Written(text, c, a, q), NEW d
    PROVE  /\ Lookup(text, "fps", d) = c.fps /\ Lookup(text, "rate", d) = c.rate
           /\ Lookup(text, "autoresume", d) = AsNumber(c.autoresume)
<1>1. DOMAIN text = 1 .. Len(text) /\ Len(text) \in Nat /\ Len(text) >= 9
  <2>1. Len(q) \in Nat /\ Len(text) \in Nat /\ DOMAIN text = 1 .. Len(text)
    BY DEF Written, Texts
  <2>2. (Len(text) = 9) \/ (Len(text) = 10 + Len(q))
    BY DEF Written
  <2>3. \A m, n \in Nat : m = 9 \/ m = 10 + n => m >= 9
    OBVIOUS
  <2> QED
    BY <2>1, <2>2, <2>3
<1>2. StartsAs(text, c)
  BY DEF Written
<1>3. /\ text[2].name = "width" /\ text[3].name = "fps" /\ text[5].name = "sops"
      /\ text[6].name = "autoresume" /\ text[8].name = "decoder" /\ text[9].name = "rate"
      /\ text[3].value = c.fps /\ text[6].value = AsNumber(c.autoresume) /\ text[9].value = c.rate
  BY <1>2 DEF StartsAs, Line
<1> DEFINE Sec(i) == SectionAt(text, i)
<1>4. ASSUME NEW i \in DOMAIN text
      PROVE  /\ text[i].kind = "key" <=> i \notin {1, 4, 7, 10}
             /\ Sec(i) = IF i <= 3 THEN "streaming" ELSE IF i <= 6 THEN "host"
                         ELSE IF i <= 9 THEN "video" ELSE "hid_pt_devices"
  BY KindsWritten, SectionsWritten
<1> HIDE DEF Sec
<1>5. ASSUME NEW i \in DOMAIN text PROVE text[i].name = "fps" /\ Matches(text[i], Sec(i)) <=> i = 3
  <2>1. i = 3 => text[i].name = "fps" /\ Matches(text[i], Sec(i))
    BY <1>3, <1>4 DEF Matches
  <2>2. ASSUME text[i].name = "fps", Matches(text[i], Sec(i)) PROVE i = 3
    <3>1. text[i].kind = "key" /\ Sec(i) = "streaming"
      BY <2>2 DEF Matches
    <3>2. i \in {2, 3}
      BY <1>1, <1>4, <3>1
    <3> QED
      BY <1>3, <2>2, <3>2
  <2> QED
    BY <2>1, <2>2
<1>6. ASSUME NEW i \in DOMAIN text PROVE text[i].name = "rate" /\ Matches(text[i], Sec(i)) <=> i = 9
  <2>1. i = 9 => text[i].name = "rate" /\ Matches(text[i], Sec(i))
    BY <1>3, <1>4 DEF Matches
  <2>2. ASSUME text[i].name = "rate", Matches(text[i], Sec(i)) PROVE i = 9
    <3>1. text[i].kind = "key" /\ Sec(i) = "video"
      BY <2>2 DEF Matches
    <3>2. i \in {8, 9}
      BY <1>1, <1>4, <3>1
    <3> QED
      BY <1>3, <2>2, <3>2
  <2> QED
    BY <2>1, <2>2
<1>7. ASSUME NEW i \in DOMAIN text
      PROVE  text[i].name = "autoresume" /\ Matches(text[i], Sec(i)) <=> i = 6
  <2>1. i = 6 => text[i].name = "autoresume" /\ Matches(text[i], Sec(i))
    BY <1>3, <1>4 DEF Matches
  <2>2. ASSUME text[i].name = "autoresume", Matches(text[i], Sec(i)) PROVE i = 6
    <3>1. text[i].kind = "key" /\ Sec(i) # "hid_pt_devices"
      BY <2>2 DEF Matches
    <3>2. i \in {2, 3, 5, 6, 8, 9}
      BY <1>1, <1>4, <3>1
    <3> QED
      BY <1>3, <2>2, <3>2
  <2> QED
    BY <2>1, <2>2
<1>8. 3 \in DOMAIN text /\ 6 \in DOMAIN text /\ 9 \in DOMAIN text
  BY <1>1
<1> QED
  BY <1>3, <1>5, <1>6, <1>7, <1>8, LookupOne DEF Sec

LEMMA SavedIsRead ==
    ASSUME NEW c \in Confs, IsReconciled(c), NEW a \in PrefMaps
    PROVE  Read(Saved(c, a)) = Kept(c)
<1>1. PICK q : Written(Saved(c, a), c, a, q)
  BY SavedIsWritten
<1> DEFINE text == Saved(c, a)
           r == [fps |-> Lookup(text, "fps", Default.fps),
                 rate |-> Clamped(Lookup(text, "rate", Default.rate)),
                 autoresume |-> Lookup(text, "autoresume", AsNumber(Default.autoresume)) = 1]
<1> HIDE DEF text
<1>2. /\ Lookup(text, "fps", Default.fps) = c.fps
      /\ Lookup(text, "rate", Default.rate) = c.rate
      /\ Lookup(text, "autoresume", AsNumber(Default.autoresume)) = AsNumber(c.autoresume)
  BY <1>1, SettingsWritten DEF text
<1>3. r = [c EXCEPT !.rate = Clamped(c.rate)]
  BY <1>2 DEF Confs, AsNumber
<1>4. ~Contains(text, Torn)
  <2>1. \A i \in DOMAIN text : text[i].kind \in {"header", "key"}
    BY <1>1, KindsWritten DEF text
  <2>2. text \in Texts
    BY <1>1 DEF text, Written
  <2>3. DOMAIN text = 1 .. Len(text) /\ Torn.kind = "torn"
    BY <2>2 DEF Texts, Torn
  <2> QED
    BY <2>1, <2>3 DEF Contains
<1>5. Read(text) = Reconciled(r)
  BY <1>4 DEF Read
<1> HIDE DEF r
<1> QED
  BY <1>3, <1>5, ClampedIsKept DEF text

\* The lines of a device
PrefLines(text, d) ==
    {i \in DOMAIN text : text[i].kind = "key" /\ text[i].name = d
                         /\ SectionAt(text, i) = "hid_pt_devices"}

LEMMA ReadPrefsIs ==
    ASSUME NEW text
    PROVE  ReadPrefs(text) = [d \in {x \in Addressed : PrefLines(text, x) # {}} |->
                                text[CHOOSE i \in PrefLines(text, d) : TRUE].value = 1]
BY DEF ReadPrefs, PrefLines

LEMMA ReadPrefsType == ASSUME NEW text \in Texts PROVE ReadPrefs(text) \in PrefMaps
<1> DEFINE P == {x \in Addressed : PrefLines(text, x) # {}}
           I == {i \in DOMAIN text : text[i].name \in P}
           f == [i \in I |-> text[i].name]
<1>1. IsFiniteSet(I)
  <2>1. IsFiniteSet(DOMAIN text)
    <3>1. DOMAIN text = 1 .. Len(text) /\ Len(text) \in Nat
      BY DEF Texts
    <3> QED
      BY <3>1, FS_Interval
  <2> QED
    BY <2>1, FS_Subset
<1>2. f \in Surjection(I, P)
  <2>1. \A x \in P : \E i \in I : f[i] = x
    <3> TAKE x \in P
    <3>1. PICK i \in PrefLines(text, x) : TRUE
      OBVIOUS
    <3>2. i \in I /\ text[i].name = x
      BY <3>1 DEF PrefLines
    <3> QED
      BY <3>2
  <2>2. f \in [I -> P]
    OBVIOUS
  <2> HIDE DEF f, I, P
  <2> QED
    BY <2>1, <2>2 DEF Surjection
<1>3. IsFiniteSet(P)
  <2> HIDE DEF f, I, P
  <2> QED
    BY <1>1, <1>2, FS_Surjection
<1>4. ReadPrefs(text) \in [P -> BOOLEAN]
  BY ReadPrefsIs
<1>5. P \in SUBSET Ids
  BY StoredAssumption
<1> HIDE DEF P
<1> QED
  BY <1>3, <1>4, <1>5 DEF PrefMaps

LEMMA PrefsAreRead ==
    ASSUME NEW c \in Confs, NEW a \in PrefMaps
    PROVE  ReadPrefs(Saved(c, a)) = [d \in DOMAIN a \cap Addressed |-> a[d]]
<1> DEFINE text == Saved(c, a)
<1>1. PICK q : Written(text, c, a, q)
  BY SavedIsWritten
<1> HIDE DEF text
<1> DEFINE n == Len(text)
           m == Len(q)
<1>2. DOMAIN text = 1 .. n /\ n \in Nat /\ m \in Nat
  BY <1>1 DEF Written, Texts
<1>a. /\ \A i, j \in 1 .. m : q[i] = q[j] => i = j
      /\ \A k \in 1 .. m : q[k] \in DOMAIN a
      /\ \A d \in DOMAIN a : \E k \in 1 .. m : q[k] = d
  BY <1>1 DEF Written
<1>b. (n = 9 /\ DOMAIN a = {}) \/ n = 10 + m
  BY <1>1 DEF Written
<1> HIDE DEF n, m
<1>3. \A k \in 1 .. m : k + 10 \in 11 .. n
  <2> TAKE k \in 1 .. m
  <2>1. DOMAIN a # {}
    BY <1>a
  <2> QED
    BY <1>2, <1>b, <2>1
<1>4. ASSUME NEW i \in 11 .. n
      PROVE  i - 10 \in 1 .. m /\ text[i] = Line(q[i - 10], AsNumber(a[q[i - 10]]))
  BY <1>1, <1>4 DEF Written, EndsAs, n, m
<1>5. ASSUME NEW i \in DOMAIN text, SectionAt(text, i) = "hid_pt_devices", text[i].kind = "key"
      PROVE  i \in 11 .. n
  <2>1. ~(i <= 9)
    BY <1>1, <1>2, <1>5, SectionsWritten
  <2>2. i # 10
    BY <1>1, <1>5, KindsWritten
  <2> QED
    BY <1>2, <2>1, <2>2
<1>6. ASSUME NEW i \in 11 .. n PROVE SectionAt(text, i) = "hid_pt_devices"
  <2>1. i \in DOMAIN text /\ ~(i <= 9) /\ ~(i <= 6) /\ ~(i <= 3)
    BY <1>2
  <2> QED
    BY <1>1, <2>1, SectionsWritten
<1>7. ASSUME NEW d PROVE PrefLines(text, d) = {i \in 11 .. n : q[i - 10] = d}
  <2>1. ASSUME NEW i \in 11 .. n
        PROVE  i \in DOMAIN text /\ text[i].kind = "key" /\ text[i].name = q[i - 10]
    <3>1. i \in DOMAIN text
      BY <1>2
    <3>2. text[i] = Line(q[i - 10], AsNumber(a[q[i - 10]]))
      BY <1>4
    <3> QED
      BY <3>1, <3>2 DEF Line
  <2> QED
    BY <1>5, <1>6, <2>1 DEF PrefLines
<1>8. ASSUME NEW d \in DOMAIN a
      PROVE  PrefLines(text, d) # {} /\ (text[CHOOSE i \in PrefLines(text, d) : TRUE].value = 1) = a[d]
  <2>1. PICK k \in 1 .. m : q[k] = d
    BY <1>a
  <2>2. k + 10 \in 11 .. n /\ (k + 10) - 10 = k
    BY <1>2, <1>3
  <2>3. PrefLines(text, d) = {k + 10}
    <3>1. k + 10 \in PrefLines(text, d)
      BY <1>7, <2>1, <2>2
    <3>2. ASSUME NEW i \in PrefLines(text, d) PROVE i = k + 10
      <4>1. i \in 11 .. n /\ q[i - 10] = d
        BY <1>7
      <4>2. i - 10 \in 1 .. m
        BY <1>4, <4>1
      <4>3. i - 10 = k
        BY <1>a, <2>1, <4>1, <4>2
      <4> QED
        BY <1>2, <4>1, <4>3
    <3> QED
      BY <3>1, <3>2
  <2>4. (CHOOSE i \in PrefLines(text, d) : TRUE) = k + 10
    BY <2>3
  <2>5. text[k + 10].value = AsNumber(a[d])
    <3>1. text[k + 10] = Line(q[(k + 10) - 10], AsNumber(a[q[(k + 10) - 10]]))
      BY <1>4, <2>2
    <3> QED
      BY <2>1, <2>2, <3>1 DEF Line
  <2>6. a[d] \in BOOLEAN
    BY PrefMapsAre
  <2> QED
    BY <2>3, <2>4, <2>5, <2>6 DEF AsNumber
<1>9. ASSUME NEW d, PrefLines(text, d) # {} PROVE d \in DOMAIN a
  <2>1. PICK i \in 11 .. n : q[i - 10] = d
    BY <1>7, <1>9
  <2> QED
    BY <1>a, <1>4, <2>1
<1>10. {x \in Addressed : PrefLines(text, x) # {}} = DOMAIN a \cap Addressed
  BY <1>8, <1>9
<1> QED
  BY <1>8, <1>10, ReadPrefsIs DEF text

-----------------------------------------------------------------------------
(* What is left of the file once a device was ticked.                       *)

LEMMA SavedTells ==
    ASSUME NEW c \in Confs, NEW a \in PrefMaps
    PROVE  Saved(c, a) \in Texts /\ Tells(Saved(c, a), c)
<1> DEFINE text == Saved(c, a)
<1>1. PICK q : Written(text, c, a, q)
  BY SavedIsWritten
<1> HIDE DEF text
<1>2. text \in Texts /\ DOMAIN text = 1 .. Len(text) /\ Len(text) \in Nat
  BY <1>1 DEF Written, Texts
<1>3. ASSUME NEW i \in DOMAIN text, text[i].kind = "key", text[i].name = "autoresume",
             \A j \in 1 .. i : text[j] # DevicesHeader
      PROVE  text[i].value = AsNumber(c.autoresume)
  <2>1. i <= 9
    <3>1. i > 9 => 10 \in DOMAIN text /\ 10 \in 1 .. i
      BY <1>2
    <3>2. 10 \in DOMAIN text => text[10] = DevicesHeader
      BY <1>1, KindsWritten
    <3> QED
      BY <1>2, <1>3, <3>1, <3>2
  <2>2. i \notin {1, 4, 7}
    BY <1>1, <1>3, KindsWritten
  <2>3. /\ text[2].name = "width" /\ text[3].name = "fps" /\ text[5].name = "sops"
        /\ text[8].name = "decoder" /\ text[9].name = "rate"
        /\ text[6].value = AsNumber(c.autoresume)
    <3>1. StartsAs(text, c)
      BY <1>1 DEF Written
    <3> QED
      BY <3>1 DEF StartsAs, Line
  <2>4. i \in {2, 3, 5, 6, 8, 9}
    BY <1>2, <2>1, <2>2
  <2> QED
    BY <1>3, <2>3, <2>4
<1> QED
  BY <1>2, <1>3 DEF Tells, text

\* The lines before the section of the devices
LEMMA OthersAre ==
    ASSUME NEW text \in Texts
    PROVE  LET hid == SelectInSeq(text, LAMBDA l : l = DevicesHeader)
               others == IF hid = 0 THEN text ELSE SubSeq(text, 1, hid - 1)
           IN  /\ others \in Texts
               /\ \A i \in DOMAIN others : /\ i \in DOMAIN text /\ others[i] = text[i]
                                           /\ \A j \in 1 .. i : text[j] # DevicesHeader
<1> DEFINE n == Len(text)
           H == {i \in 1 .. n : text[i] = DevicesHeader}
           hid == SelectInSeq(text, LAMBDA l : l = DevicesHeader)
           others == IF hid = 0 THEN text ELSE SubSeq(text, 1, hid - 1)
<1>1. n \in Nat /\ DOMAIN text = 1 .. n
  BY DEF Texts
<1>2. hid = IF H # {} THEN Min(H) ELSE 0
  BY DEF SelectInSeq
<1> HIDE DEF n, hid
<1>3. CASE H = {}
  <2>1. others = text
    BY <1>2, <1>3
  <2>2. \A j \in 1 .. n : text[j] # DevicesHeader
    BY <1>3
  <2>3. \A i \in DOMAIN text : 1 .. i \subseteq 1 .. n
    BY <1>1
  <2> HIDE DEF others, H
  <2> QED
    BY <2>1, <2>2, <2>3 DEF others, hid
<1>4. CASE H # {}
  <2>1. hid \in H /\ \A x \in H : hid <= x
    <3>1. H \in SUBSET Nat
      BY <1>1
    <3> HIDE DEF H
    <3> QED
      BY <1>2, <1>4, <3>1, MinIsLeast
  <2>2. hid \in 1 .. n
    BY <2>1
  <2>3. others = SubSeq(text, 1, hid - 1)
    BY <1>1, <2>2
  <2>4. others \in Texts /\ DOMAIN others = 1 .. hid - 1 /\ \A i \in 1 .. hid - 1 : others[i] = text[i]
    <3>1. text \in Seq(Lines) /\ hid - 1 \in 0 .. Len(text)
      BY <1>1, <2>2 DEF Texts, n
    <3> HIDE DEF others
    <3> QED
      BY <1>1, <2>2, <2>3, <3>1 DEF Texts
  <2>5. ASSUME NEW i \in 1 .. hid - 1, NEW j \in 1 .. i PROVE text[j] # DevicesHeader
    <3>1. j \in 1 .. n /\ ~(hid <= j)
      BY <1>1, <2>2
    <3>2. j \notin H
      <4> HIDE DEF H
      <4> QED
        BY <2>1, <3>1
    <3> QED
      BY <3>1, <3>2
  <2>6. \A i \in 1 .. hid - 1 : i \in DOMAIN text
    BY <1>1, <2>2
  <2> HIDE DEF others, H
  <2> QED
    BY <2>4, <2>5, <2>6 DEF others, hid
<1> QED
  BY <1>3, <1>4

LEMMA FlushedTells ==
    ASSUME NEW text \in Texts, NEW c \in Confs, Tells(text, c), NEW a \in PrefMaps
    PROVE  /\ Flushed(text, a) \in Texts
           /\ Headless(Flushed(text, a)) /\ Tells(Flushed(text, a), c)
<1> DEFINE hid == SelectInSeq(text, LAMBDA l : l = DevicesHeader)
           others == IF hid = 0 THEN text ELSE SubSeq(text, 1, hid - 1)
           copied == [i \in DOMAIN others |->
                         IF others[i].kind = "header" THEN <<Torn>>
                         ELSE IF i > 1 /\ others[i - 1].kind = "header" THEN <<>>
                         ELSE <<others[i]>>]
           F == FlattenSeq(copied)
           P == PrefsText(a)
           u == Flushed(text, a)
<1>1. u = F \o P
  BY DEF Flushed, DevicesHeader
<1>2. /\ others \in Texts
      /\ \A i \in DOMAIN others : /\ i \in DOMAIN text /\ others[i] = text[i]
                                  /\ \A j \in 1 .. i : text[j] # DevicesHeader
  BY OthersAre
<1> HIDE DEF others
<1> DEFINE n == Len(others)
<1>3. n \in Nat /\ DOMAIN others = 1 .. n /\ \A i \in 1 .. n : others[i] \in Lines
  BY <1>2 DEF Texts
<1> HIDE DEF n
<1>4. ASSUME NEW i \in 1 .. n
      PROVE  copied[i] \in {<<Torn>>, <<>>} \/ (copied[i] = <<others[i]>> /\ others[i].kind # "header")
  BY <1>3
<1>5. Torn \in Lines /\ Torn.kind = "torn"
  BY DEF Torn, Lines, Names
<1>6. F \in Seq(Lines) /\ \E m : Picks(m, F, copied, n)
  <2>1. ASSUME NEW i \in 1 .. n PROVE copied[i] \in Seq(Lines) /\ Len(copied[i]) <= 1
    <3>1. others[i] \in Lines
      BY <1>3
    <3>2. \A l \in Lines : <<l>> \in Seq(Lines) /\ Len(<<l>>) <= 1
      OBVIOUS
    <3>3. <<>> \in Seq(Lines) /\ Len(<<>>) <= 1
      OBVIOUS
    <3> HIDE DEF copied
    <3> QED
      BY <1>4, <1>5, <3>1, <3>2, <3>3
  <2>2. copied \in [1 .. n -> Seq(Lines)]
    <3>1. copied = [i \in 1 .. n |-> copied[i]]
      BY <1>3
    <3> HIDE DEF copied
    <3> QED
      BY <2>1, <3>1
  <2> HIDE DEF copied
  <2> QED
    BY <1>3, <2>1, <2>2, FlattenPicks
<1>7. PICK m : Picks(m, F, copied, n)
  BY <1>6
<1> HIDE DEF F, P, u
<1> DEFINE k == Len(F)
<1>8. k \in Nat /\ DOMAIN F = 1 .. k
  BY <1>6
<1>9. ASSUME NEW j \in 1 .. k
      PROVE  /\ F[j].kind # "header"
             /\ F[j].kind = "key" /\ F[j].name = "autoresume" => F[j].value = AsNumber(c.autoresume)
  <2>1. m[j] \in 1 .. n /\ copied[m[j]] = <<F[j]>>
    BY <1>7 DEF Picks
  <2>2. F[j] = Torn \/ (F[j] = others[m[j]] /\ others[m[j]].kind # "header")
    <3>1. copied[m[j]] \in {<<Torn>>, <<>>}
             \/ (copied[m[j]] = <<others[m[j]]>> /\ others[m[j]].kind # "header")
      BY <1>4, <2>1
    <3> HIDE DEF copied
    <3> QED
      BY <2>1, <3>1
  <2>3. CASE F[j] = Torn
    BY <1>5, <2>3
  <2>4. CASE F[j] = others[m[j]] /\ others[m[j]].kind # "header"
    <3>1. /\ m[j] \in DOMAIN text /\ others[m[j]] = text[m[j]]
          /\ \A l \in 1 .. m[j] : text[l] # DevicesHeader
      BY <1>2, <1>3, <2>1
    <3> QED
      BY <2>4, <3>1 DEF Tells
  <2> QED
    BY <2>2, <2>3, <2>4
<1> DEFINE p == Len(P)
<1>10. P \in Seq(Lines) /\ p \in Nat
  BY PrefsTextIs DEF P, Texts
<1>11. ASSUME NEW i \in 1 .. p PROVE P[1] = DevicesHeader /\ (i # 1 => P[i].kind = "key")
  <2>1. PICK q \in Seq(DOMAIN a) : DevicesSection(P, a, q)
    BY PrefsTextIs DEF P
  <2>2. P # <<>>
    <3>1. P = <<>> => Len(P) = 0
      OBVIOUS
    <3> QED
      BY <1>10, <3>1
  <2>3. p = Len(q) + 1 /\ P[1] = DevicesHeader
    BY <2>1, <2>2 DEF DevicesSection
  <2>4. ASSUME i # 1 PROVE P[i].kind = "key"
    <3>1. Len(q) \in Nat
      OBVIOUS
    <3> HIDE DEF p
    <3>2. i - 1 \in 1 .. Len(q) /\ (i - 1) + 1 = i
      BY <1>10, <2>3, <2>4, <3>1
    <3>3. P[(i - 1) + 1] = Line(q[i - 1], AsNumber(a[q[i - 1]]))
      BY <2>1, <2>2, <3>2 DEF DevicesSection
    <3> QED
      BY <3>2, <3>3 DEF Line
  <2> QED
    BY <2>3, <2>4
<1>12. /\ u \in Seq(Lines) /\ Len(u) = k + p
       /\ \A i \in 1 .. k + p : u[i] = IF i <= k THEN F[i] ELSE P[i - k]
  BY <1>1, <1>6, <1>10, ConcatProperties
<1> HIDE DEF k, p
<1>13. DOMAIN u = 1 .. k + p
  BY <1>12
<1>14. ASSUME NEW i \in 1 .. k + p, ~(i <= k)
       PROVE  /\ u[i].kind = "header" => u[i] = DevicesHeader
              /\ k + 1 \in 1 .. i /\ u[k + 1] = DevicesHeader
  <2>1. i - k \in 1 .. p /\ u[i] = P[i - k]
    BY <1>8, <1>10, <1>12, <1>14
  <2>2. k + 1 \in 1 .. i /\ k + 1 \in 1 .. k + p /\ ~(k + 1 <= k) /\ (k + 1) - k = 1
    BY <1>8, <1>10, <1>14
  <2>3. u[k + 1] = P[1]
    BY <1>12, <2>2
  <2> QED
    BY <1>11, <2>1, <2>2, <2>3
<1>15. ASSUME NEW i \in 1 .. k + p, i <= k PROVE u[i] = F[i] /\ i \in 1 .. k
  BY <1>8, <1>10, <1>12, <1>15
<1>16. Headless(u)
  BY <1>9, <1>13, <1>14, <1>15 DEF Headless
<1>17. Tells(u, c)
  BY <1>9, <1>13, <1>14, <1>15 DEF Tells
<1> QED
  BY <1>12, <1>16, <1>17 DEF u, Texts

\* Without its headers a file tells nothing of the rates, and of autoresume what was stored.
LEMMA HeadlessIsRead ==
    ASSUME NEW text \in Texts, Headless(text), NEW c \in Confs, Tells(text, c)
    PROVE  /\ Read(text) \in Confs /\ IsReconciled(Read(text))
           /\ Read(text).fps = Default.fps /\ Read(text).rate = Default.rate
           /\ Read(text).autoresume = c.autoresume \/ Read(text).autoresume = Default.autoresume
<1>1. DOMAIN text = 1 .. Len(text) /\ Len(text) \in Nat
  BY DEF Texts
<1> DEFINE Sec(i) == SectionAt(text, i)
<1>2. ASSUME NEW i \in DOMAIN text
      PROVE  (Sec(i) = "" /\ \A j \in 1 .. i : text[j] # DevicesHeader) \/ Sec(i) = "hid_pt_devices"
  <2>1. CASE Sec(i) = "" /\ \A j \in 1 .. i : text[j].kind # "header"
    <3>1. DevicesHeader.kind = "header"
      BY DEF DevicesHeader, Header
    <3> QED
      BY <2>1, <3>1
  <2>2. CASE \E h \in 1 .. i : text[h].kind = "header" /\ Sec(i) = text[h].name
    <3>1. PICK h \in 1 .. i : text[h].kind = "header" /\ Sec(i) = text[h].name
      BY <2>2
    <3>2. h \in DOMAIN text
      BY <1>1
    <3>3. text[h] = DevicesHeader
      BY <3>1, <3>2 DEF Headless
    <3> QED
      BY <3>1, <3>3 DEF DevicesHeader, Header
  <2> QED
    BY <2>1, <2>2, SectionIs
<1> HIDE DEF Sec
<1>3. ASSUME NEW d PROVE Lookup(text, "fps", d) = d /\ Lookup(text, "rate", d) = d
  <2>1. ASSUME NEW i \in DOMAIN text, text[i].name \in {"fps", "rate"} PROVE ~Matches(text[i], Sec(i))
    BY <1>2, <2>1 DEF Matches
  <2> QED
    BY <2>1 DEF Lookup, Sec
<1>4. ASSUME NEW d PROVE Lookup(text, "autoresume", d) \in {d, AsNumber(c.autoresume)}
  <2> DEFINE at == {i \in DOMAIN text : text[i].name = "autoresume" /\ Matches(text[i], Sec(i))}
  <2>1. ASSUME NEW i \in at PROVE text[i].value = AsNumber(c.autoresume)
    <3>1. i \in DOMAIN text /\ text[i].name = "autoresume" /\ text[i].kind = "key"
          /\ Sec(i) # "hid_pt_devices"
      BY DEF Matches
    <3>2. \A j \in 1 .. i : text[j] # DevicesHeader
      BY <1>2, <3>1
    <3> QED
      BY <3>1, <3>2 DEF Tells
  <2>2. Lookup(text, "autoresume", d) = IF at = {} THEN d ELSE text[CHOOSE i \in at : TRUE].value
    BY DEF Lookup, Sec
  <2> HIDE DEF at
  <2> QED
    BY <2>1, <2>2
<1> DEFINE n == Lookup(text, "autoresume", AsNumber(Default.autoresume))
           r == [fps |-> Lookup(text, "fps", Default.fps),
                 rate |-> Clamped(Lookup(text, "rate", Default.rate)),
                 autoresume |-> n = 1]
<1>5. n \in {0, AsNumber(c.autoresume)}
  BY <1>4, DefaultIs DEF AsNumber
<1> HIDE DEF n
<1>6. r.fps = 60 /\ r.rate = 5994 /\ (r.autoresume <=> n = 1)
  <2>1. r.fps = 60 /\ r.rate = 5994
    BY <1>3, DefaultIs DEF Clamped, MaxRate
  <2>2. r.autoresume <=> n = 1
    OBVIOUS
  <2> QED
    BY <2>1, <2>2
<1>7. r \in Confs
  <2>1. Clamped(5994) = 5994
    BY DEF Clamped, MaxRate
  <2> QED
    BY <1>3, <2>1, DefaultIs DEF Confs
<1>8. Read(text) = r \/ Read(text) = Reconciled(r)
  BY DEF Read, n
<1> HIDE DEF r
<1>9. Reconciled(r) \in Confs /\ IsReconciled(Reconciled(r)) /\ Reconciled(r).fps = 60
      /\ Reconciled(r).rate = 5994 /\ Reconciled(r).autoresume = r.autoresume
  BY <1>6, <1>7, ReconciledType, ReconciledOnce, ReconciledAtSixty
<1>10. Reconciled(r) = r
  BY <1>6, <1>7, <1>9 DEF Confs
<1>11. c.autoresume \in BOOLEAN
  BY DEF Confs
<1>12. Read(text) = r
  BY <1>8, <1>10
<1>13. IsReconciled(r)
  BY <1>10 DEF IsReconciled
<1>14. r.autoresume = c.autoresume \/ r.autoresume = Default.autoresume
  <2>1. CASE n = 1
    <3>1. c.autoresume
      BY <1>5, <2>1 DEF AsNumber
    <3>2. r.autoresume
      BY <1>6, <2>1
    <3>3. r.autoresume \in BOOLEAN
      BY <1>7 DEF Confs
    <3> QED
      BY <1>11, <3>1, <3>2, <3>3
  <2>2. CASE n # 1
    <3>1. ~r.autoresume
      BY <1>6, <2>2
    <3>3. ~Default.autoresume
      BY DefaultIs
    <3>2. r.autoresume \in BOOLEAN /\ Default.autoresume \in BOOLEAN
      BY <1>7, DefaultIs DEF Confs
    <3> QED
      BY <3>1, <3>2, <3>3
  <2> QED
    BY <2>1, <2>2
<1> QED
  BY <1>6, <1>7, <1>12, <1>13, <1>14, DefaultIs

-----------------------------------------------------------------------------
(* The hosts.                                                               *)

Node == [host : KnownPcs, known : BOOLEAN, selected : BOOLEAN, favs : SUBSET PcApps]

LEMMA KnownOfIs ==
    ASSUME NEW nodes \in NodeLists, Orderly(nodes), OneSelected(nodes)
    PROVE  /\ KnownOf(nodes) \in NodeLists
           /\ Orderly(KnownOf(nodes)) /\ OneSelected(KnownOf(nodes))
           /\ \A i \in DOMAIN KnownOf(nodes) : KnownOf(nodes)[i].known
<1> DEFINE n == Len(nodes)
           ss == [i \in DOMAIN nodes |-> IF nodes[i].known THEN <<nodes[i]>> ELSE <<>>]
           F == FlattenSeq(ss)
<1>1. n \in Nat /\ DOMAIN nodes = 1 .. n /\ \A i \in 1 .. n : nodes[i] \in Node
  <2>1. nodes \in Seq(Node)
    BY DEF NodeLists, Node
  <2> QED
    BY <2>1
<1>2. KnownOf(nodes) = F
  BY DEF KnownOf
<1> HIDE DEF n
<1>3. ASSUME NEW i \in 1 .. n PROVE (ss[i] = <<>>) \/ (ss[i] = <<nodes[i]>> /\ nodes[i].known)
  BY <1>1
<1>4. F \in Seq(Node) /\ \E m : Picks(m, F, ss, n)
  <2>1. ASSUME NEW i \in 1 .. n PROVE ss[i] \in Seq(Node) /\ Len(ss[i]) <= 1
    <3>1. nodes[i] \in Node
      BY <1>1
    <3>2. \A l \in Node : <<l>> \in Seq(Node) /\ Len(<<l>>) <= 1
      OBVIOUS
    <3>3. <<>> \in Seq(Node) /\ Len(<<>>) <= 1
      OBVIOUS
    <3> HIDE DEF ss
    <3> QED
      BY <1>3, <3>1, <3>2, <3>3
  <2>2. ss \in [1 .. n -> Seq(Node)]
    <3>1. ss = [i \in 1 .. n |-> ss[i]]
      BY <1>1
    <3> HIDE DEF ss
    <3> QED
      BY <2>1, <3>1
  <2> HIDE DEF ss
  <2> QED
    BY <1>1, <2>1, <2>2, FlattenPicks
<1>5. PICK m : Picks(m, F, ss, n)
  BY <1>4
<1> HIDE DEF F
<1> DEFINE k == Len(F)
<1>6. k \in Nat /\ DOMAIN F = 1 .. k
  BY <1>4
<1> HIDE DEF k
<1>7. ASSUME NEW j \in 1 .. k PROVE m[j] \in 1 .. n /\ F[j] = nodes[m[j]] /\ F[j].known
  <2>1. m[j] \in 1 .. n /\ ss[m[j]] = <<F[j]>>
    BY <1>5 DEF Picks, k
  <2>2. (ss[m[j]] = <<>>) \/ (ss[m[j]] = <<nodes[m[j]]>> /\ nodes[m[j]].known)
    BY <1>3, <2>1
  <2> HIDE DEF ss
  <2> QED
    BY <2>1, <2>2
<1>8. \A i, j \in 1 .. k : m[i] = m[j] => i = j
  BY <1>5 DEF Picks, k
<1>9. Orderly(F)
  BY <1>1, <1>6, <1>7, <1>8 DEF Orderly
<1>10. OneSelected(F)
  BY <1>1, <1>6, <1>7, <1>8 DEF OneSelected
<1> QED
  BY <1>2, <1>4, <1>6, <1>7, <1>9, <1>10 DEF NodeLists, Node

LEMMA LoadedIs ==
    ASSUME NEW text \in NodeLists, Orderly(text)
    PROVE  /\ LoadedHosts(text) \in NodeLists
           /\ Orderly(LoadedHosts(text)) /\ OneSelected(LoadedHosts(text))
           /\ OneSelected(text) /\ (\A i \in DOMAIN text : text[i].known) => LoadedHosts(text) = text
<1> DEFINE n == Len(text)
           First(i) == text[i].selected /\ \A j \in 1 .. i - 1 : ~text[j].selected
           L == LoadedHosts(text)
<1>1. n \in Nat /\ DOMAIN text = 1 .. n /\ \A i \in 1 .. n : text[i] \in Node
  <2>1. text \in Seq(Node)
    BY DEF NodeLists, Node
  <2> QED
    BY <2>1
<1>2. L = [i \in 1 .. n |-> [text[i] EXCEPT !.known = TRUE, !.selected = First(i)]]
  BY <1>1 DEF LoadedHosts
<1> HIDE DEF n, L
<1>3. ASSUME NEW i \in 1 .. n
      PROVE  /\ L[i] \in Node /\ L[i].host = text[i].host /\ L[i].selected = First(i)
             /\ text[i].known /\ First(i) = text[i].selected => L[i] = text[i]
  <2>1. text[i] \in Node
    BY <1>1
  <2>2. L[i] = [text[i] EXCEPT !.known = TRUE, !.selected = First(i)]
    BY <1>2
  <2>3. First(i) \in BOOLEAN
    BY <2>1 DEF Node
  <2> HIDE DEF First
  <2> QED
    BY <2>1, <2>2, <2>3 DEF Node
<1>4. L \in Seq(Node) /\ Len(L) = n /\ DOMAIN L = 1 .. n
  <2>1. L \in [1 .. n -> Node]
    BY <1>2, <1>3
  <2> QED
    BY <1>1, <2>1
<1>5. Orderly(L)
  BY <1>1, <1>3, <1>4 DEF Orderly
<1>6. OneSelected(L)
  <2> SUFFICES ASSUME NEW i \in 1 .. n, NEW j \in 1 .. n, L[i].selected, L[j].selected PROVE i = j
    BY <1>4 DEF OneSelected
  <2>1. First(i) /\ First(j)
    BY <1>3
  <2>2. ~(j < i) /\ ~(i < j)
    BY <1>1, <2>1
  <2> QED
    BY <1>1, <2>2
<1>7. ASSUME OneSelected(text), \A i \in DOMAIN text : text[i].known PROVE L = text
  <2>1. ASSUME NEW i \in 1 .. n PROVE L[i] = text[i]
    <3>1. text[i].selected => \A j \in 1 .. i - 1 : ~text[j].selected
      <4> SUFFICES ASSUME text[i].selected, NEW j \in 1 .. i - 1, text[j].selected PROVE FALSE
        OBVIOUS
      <4>1. j \in 1 .. n /\ j # i
        BY <1>1
      <4> QED
        BY <1>1, <1>7, <4>1 DEF OneSelected
    <3>2. text[i].selected \in BOOLEAN
      BY <1>1 DEF Node
    <3>3. First(i) = text[i].selected
      BY <3>1, <3>2
    <3> HIDE DEF First
    <3> QED
      BY <1>1, <1>3, <1>7, <3>3
  <2>2. text \in Seq(Node)
    BY DEF NodeLists, Node
  <2> QED
    BY <1>1, <1>4, <2>1, <2>2, SeqEqual DEF n
<1> QED
  BY <1>4, <1>5, <1>6, <1>7 DEF L, NodeLists, Node

-----------------------------------------------------------------------------
(* One step.                                                                *)

LEMMA InitStoredInv == StoredInit => StoredInv
<1> SUFFICES ASSUME StoredInit PROVE StoredInv
  OBVIOUS
<1>1. auto \in PrefMaps
  <2>1. auto = [d \in {} |-> TRUE] /\ {} \in SUBSET Ids /\ IsFiniteSet({})
    BY FS_EmptySet DEF StoredInit
  <2>2. auto \in [{} -> BOOLEAN]
    BY <2>1
  <2> QED
    BY <2>1, <2>2 DEF PrefMaps
<1>2. conf \in Confs /\ stored \in Confs /\ IsReconciled(conf) /\ IsReconciled(stored)
  BY DefaultIs DEF StoredInit
<1>3. known = <<>> /\ hostsText = <<>> /\ iniText = <<>> /\ alive = TRUE
  BY DEF StoredInit
<1>4. known \in NodeLists /\ hostsText \in NodeLists /\ iniText \in Texts
  BY <1>3 DEF NodeLists, Texts
<1>5. alive \in BOOLEAN /\ clean \in BOOLEAN /\ iniMade \in BOOLEAN
  BY DEF StoredInit
<1>6. HostsInOrder
  BY <1>3 DEF HostsInOrder, Orderly, OneSelected
<1>7. FileIsKnown
  BY <1>3 DEF FileIsKnown, Headless, Tells
<1>8. ExitWasKept
  BY <1>3 DEF ExitWasKept
<1> QED
  BY <1>1, <1>2, <1>4, <1>5, <1>6, <1>7, <1>8 DEF StoredInv, StoredTypeOK, RatesAgree

\* The files as settings_save leaves them
LEMMA FileWritten ==
    ASSUME NEW c \in Confs, NEW a \in PrefMaps, Writes(c, a)
    PROVE  iniMade' \in BOOLEAN /\ stored' = c /\ iniText' = Saved(c, a) /\ iniText' \in Texts
           /\ FileIsKnown'
<1>1. iniMade' = TRUE /\ iniText' = Saved(c, a) /\ stored' = c
  BY DEF Writes
<1>2. iniText' \in Texts /\ Tells(iniText', stored')
  BY <1>1, SavedTells
<1>3. \E b \in PrefMaps : iniText' = Saved(stored', b)
  BY <1>1
<1> QED
  BY <1>1, <1>2, <1>3 DEF FileIsKnown

LEMMA StepSettingsLeft == StoredInv /\ SettingsLeft => StoredInv'
<1> SUFFICES ASSUME StoredInv, SettingsLeft PROVE StoredInv'
  OBVIOUS
<1>1. conf \in Confs /\ auto \in PrefMaps
  BY DEF StoredInv, StoredTypeOK
<1>2. \E c \in Confs : conf' = Reconciled(c)
  <2>1. CASE \E f \in Presets : conf' = Picked(f)
    <3>1. PICK f \in Presets : conf' = Picked(f)
      BY <2>1
    <3>2. [conf EXCEPT !.fps = f] \in Confs
      BY <1>1, StoredAssumption DEF Confs
    <3> QED
      BY <3>1, <3>2 DEF Picked
  <2>2. CASE \E m \in Customs : conf' = Entered(m)
    <3>1. PICK m \in Customs : conf' = Entered(m)
      BY <2>2
    <3> DEFINE f == (m + 500) \div 1000
               r == (m + 5) \div 10
    <3>2. f \in Nat /\ r \in Nat
      BY StoredAssumption
    <3>3. conf' = Reconciled([conf EXCEPT !.fps = f, !.rate = r])
      BY <3>1 DEF Entered
    <3> HIDE DEF f, r
    <3>4. [conf EXCEPT !.fps = f, !.rate = r] \in Confs
      BY <1>1, <3>2 DEF Confs
    <3> QED
      BY <3>3, <3>4
  <2>3. CASE conf' = Reconciled(Toggled)
    <3>1. Toggled \in Confs
      BY <1>1 DEF Toggled, Confs
    <3> QED
      BY <2>3, <3>1
  <2> QED
    BY <2>1, <2>2, <2>3 DEF SettingsLeft
<1>3. conf' \in Confs /\ IsReconciled(conf')
  BY <1>2, ReconciledType, ReconciledOnce
<1>4. iniMade' \in BOOLEAN /\ stored' = conf' /\ iniText' \in Texts /\ FileIsKnown'
  <2>1. Writes(conf', auto)
    BY DEF SettingsLeft
  <2> QED
    BY <1>1, <1>3, <2>1, FileWritten
<1>5. alive' = TRUE /\ clean' = clean /\ auto' = auto /\ known' = known /\ hostsText' = hostsText
  BY DEF SettingsLeft, StoredInv, StoredTypeOK
<1>6. StoredTypeOK'
  BY <1>3, <1>4, <1>5 DEF StoredInv, StoredTypeOK
<1>7. RatesAgree' /\ HostsInOrder' /\ ExitWasKept'
  BY <1>3, <1>4, <1>5 DEF StoredInv, RatesAgree, HostsInOrder, ExitWasKept
<1> QED
  BY <1>4, <1>6, <1>7 DEF StoredInv

LEMMA StepDeviceTicked ==
    ASSUME StoredInv, NEW d \in Ids, NEW on \in BOOLEAN, DeviceTicked(d, on) PROVE StoredInv'
<1>1. auto' \in PrefMaps
  <2>1. DOMAIN auto \in SUBSET Ids /\ IsFiniteSet(DOMAIN auto) /\ auto \in [DOMAIN auto -> BOOLEAN]
    BY PrefMapsAre DEF StoredInv, StoredTypeOK
  <2>2. IsFiniteSet(DOMAIN auto \cup {d}) /\ DOMAIN auto \cup {d} \in SUBSET Ids
    BY <2>1, FS_AddElement
  <2>3. auto' = [x \in DOMAIN auto \cup {d} |-> IF x = d THEN on ELSE auto[x]]
    BY DEF DeviceTicked
  <2>4. auto' \in [DOMAIN auto \cup {d} -> BOOLEAN]
    BY <2>1, <2>3
  <2> QED
    BY <2>2, <2>4 DEF PrefMaps
<1>2. iniText' = iniText \/ iniText' = Flushed(iniText, auto')
  BY DEF DeviceTicked
<1>3. /\ alive' = alive /\ alive /\ clean' = clean /\ conf' = conf /\ known' = known
      /\ iniMade' = iniMade /\ hostsText' = hostsText /\ stored' = stored
  BY DEF DeviceTicked
<1>4. iniText' \in Texts /\ FileIsKnown'
  <2>1. iniText \in Texts /\ FileIsKnown /\ stored \in Confs
    BY DEF StoredInv, StoredTypeOK
  <2>2. CASE iniText' = iniText
    BY <1>3, <2>1, <2>2 DEF FileIsKnown
  <2>3. CASE iniText' = Flushed(iniText, auto')
    <3>1. Flushed(iniText, auto') \in Texts /\ Headless(Flushed(iniText, auto'))
          /\ Tells(Flushed(iniText, auto'), stored)
      BY <1>1, <2>1, FlushedTells DEF FileIsKnown
    <3> QED
      BY <1>3, <2>3, <3>1 DEF FileIsKnown
  <2> QED
    BY <1>2, <2>2, <2>3
<1>5. StoredTypeOK'
  BY <1>1, <1>3, <1>4 DEF StoredInv, StoredTypeOK
<1>6. RatesAgree' /\ HostsInOrder' /\ ExitWasKept'
  BY <1>3 DEF StoredInv, RatesAgree, HostsInOrder, ExitWasKept
<1> QED
  BY <1>4, <1>5, <1>6 DEF StoredInv

LEMMA StepApplicationEnds == StoredInv /\ ApplicationEnds => StoredInv'
<1> SUFFICES ASSUME StoredInv, ApplicationEnds PROVE StoredInv'
  OBVIOUS
<1>1. conf' = conf /\ conf \in Confs /\ IsReconciled(conf) /\ auto \in PrefMaps
  BY DEF ApplicationEnds, StoredInv, StoredTypeOK, RatesAgree, IsReconciled
<1>2. /\ alive' \in BOOLEAN /\ clean' \in BOOLEAN /\ auto' = auto /\ known' = known
      /\ hostsText' = KnownOf(known) /\ Writes(conf', auto)
  BY DEF ApplicationEnds, SavedHosts
<1>3. iniMade' \in BOOLEAN /\ stored' = conf /\ iniText' = Saved(conf, auto) /\ iniText' \in Texts
      /\ FileIsKnown'
  BY <1>1, <1>2, FileWritten
<1>4. KnownOf(known) \in NodeLists /\ Orderly(KnownOf(known))
  BY KnownOfIs DEF StoredInv, StoredTypeOK, HostsInOrder
<1>5. StoredTypeOK'
  BY <1>1, <1>2, <1>3, <1>4 DEF StoredInv, StoredTypeOK
<1>6. RatesAgree' /\ HostsInOrder'
  BY <1>1, <1>2, <1>3, <1>4 DEF StoredInv, RatesAgree, HostsInOrder
<1>7. ExitWasKept'
  BY <1>1, <1>2, <1>3 DEF ExitWasKept
<1> QED
  BY <1>3, <1>5, <1>6, <1>7 DEF StoredInv

LEMMA StepApplicationDies == StoredInv /\ ApplicationDies => StoredInv'
<1> SUFFICES ASSUME StoredInv, ApplicationDies PROVE StoredInv'
  OBVIOUS
<1>1. /\ alive' = FALSE /\ clean' = FALSE /\ conf' = conf /\ auto' = auto /\ known' = known
      /\ stored' = stored
  BY DEF ApplicationDies
<1>2. iniMade' \in BOOLEAN /\ (iniText' = iniText \/ iniText' = <<>>)
  BY DEF ApplicationDies, StoredInv, StoredTypeOK
<1>3. hostsText' \in {hostsText, KnownOf(known), <<>>}
  BY DEF ApplicationDies, SavedHosts
<1>4. hostsText' \in NodeLists /\ Orderly(hostsText')
  <2>1. KnownOf(known) \in NodeLists /\ Orderly(KnownOf(known))
    BY KnownOfIs DEF StoredInv, StoredTypeOK, HostsInOrder
  <2>2. <<>> \in NodeLists /\ Orderly(<<>>)
    BY DEF NodeLists, Orderly
  <2>3. hostsText \in NodeLists /\ Orderly(hostsText)
    BY DEF StoredInv, StoredTypeOK, HostsInOrder
  <2> QED
    BY <1>3, <2>1, <2>2, <2>3
<1>5. iniText' \in Texts /\ FileIsKnown'
  <2>1. <<>> \in Texts /\ Headless(<<>>) /\ Tells(<<>>, stored)
    BY DEF Texts, Headless, Tells
  <2>2. CASE iniText' = <<>>
    BY <1>1, <2>1, <2>2 DEF FileIsKnown
  <2>3. CASE iniText' = iniText
    BY <1>1, <2>3 DEF FileIsKnown, StoredInv, StoredTypeOK
  <2> QED
    BY <1>2, <2>2, <2>3
<1>6. StoredTypeOK'
  BY <1>1, <1>2, <1>4, <1>5 DEF StoredInv, StoredTypeOK
<1>7. RatesAgree' /\ HostsInOrder' /\ ExitWasKept'
  BY <1>1, <1>4 DEF StoredInv, RatesAgree, HostsInOrder, ExitWasKept
<1> QED
  BY <1>5, <1>6, <1>7 DEF StoredInv

\* What an application reads at its start
LEMMA FileIsRead ==
    ASSUME StoredInv
    PROVE  /\ Read(iniText) \in Confs /\ IsReconciled(Read(iniText))
           /\ \A s \in DOMAIN Default : Read(iniText)[s] \in {Kept(stored)[s], Default[s]}
<1>1. iniText \in Texts /\ stored \in Confs /\ IsReconciled(stored) /\ Tells(iniText, stored)
  BY DEF StoredInv, StoredTypeOK, RatesAgree, FileIsKnown
<1>2. CASE \E a \in PrefMaps : iniText = Saved(stored, a)
  <2>1. Read(iniText) = Kept(stored)
    BY <1>1, <1>2, SavedIsRead
  <2> QED
    BY <1>1, <2>1, ClampedIsKept
<1>3. CASE Headless(iniText)
  <2>1. /\ Read(iniText) \in Confs /\ IsReconciled(Read(iniText))
        /\ Read(iniText).fps = Default.fps /\ Read(iniText).rate = Default.rate
        /\ Read(iniText).autoresume = stored.autoresume
             \/ Read(iniText).autoresume = Default.autoresume
    BY <1>1, <1>3, HeadlessIsRead
  <2>2. DOMAIN Default = {"fps", "rate", "autoresume"}
    BY DefaultIs DEF Confs
  <2>3. Kept(stored).autoresume = stored.autoresume
    BY <1>1 DEF Kept, Confs
  <2> QED
    BY <2>1, <2>2, <2>3
<1> QED
  BY <1>2, <1>3 DEF StoredInv, FileIsKnown

LEMMA StepApplicationStarts == StoredInv /\ ApplicationStarts => StoredInv'
<1> SUFFICES ASSUME StoredInv, ApplicationStarts PROVE StoredInv'
  OBVIOUS
<1>1. conf' \in Confs /\ IsReconciled(conf')
  BY FileIsRead, DefaultIs DEF ApplicationStarts
<1>2. auto' \in PrefMaps
  BY ReadPrefsType DEF ApplicationStarts, StoredInv, StoredTypeOK
<1>3. known' \in NodeLists /\ Orderly(known') /\ OneSelected(known')
  BY LoadedIs DEF ApplicationStarts, StoredInv, StoredTypeOK, HostsInOrder
<1>4. /\ alive' = TRUE /\ clean' = clean /\ iniMade' = iniMade /\ iniText' = iniText
      /\ hostsText' = hostsText /\ stored' = stored
  BY DEF ApplicationStarts
<1>5. StoredTypeOK'
  BY <1>1, <1>2, <1>3, <1>4 DEF StoredInv, StoredTypeOK
<1>6. RatesAgree' /\ HostsInOrder' /\ ExitWasKept' /\ FileIsKnown'
  BY <1>1, <1>3, <1>4 DEF StoredInv, RatesAgree, HostsInOrder, ExitWasKept, FileIsKnown
<1> QED
  BY <1>5, <1>6 DEF StoredInv

\* A list without its i-th
LEMMA RemovedIs ==
    ASSUME NEW S, NEW s \in Seq(S), NEW i \in DOMAIN s
    PROVE  /\ RemoveAt(s, i) \in Seq(S) /\ Len(RemoveAt(s, i)) = Len(s) - 1
           /\ \A j \in DOMAIN RemoveAt(s, i) :
                 /\ (IF j < i THEN j ELSE j + 1) \in DOMAIN s
                 /\ RemoveAt(s, i)[j] = s[IF j < i THEN j ELSE j + 1]
<1>1. i \in Nat /\ Len(s) \in Nat /\ 1 <= i /\ i <= Len(s) /\ DOMAIN s = 1 .. Len(s)
  OBVIOUS
<1> DEFINE a == SubSeq(s, 1, i - 1)
           b == SubSeq(s, i + 1, Len(s))
<1>2. a \in Seq(S) /\ Len(a) = i - 1 /\ \A j \in 1 .. i - 1 : a[j] = s[j]
  OBVIOUS
<1>3. b \in Seq(S) /\ Len(b) = Len(s) - i /\ \A j \in 1 .. Len(s) - i : b[j] = s[i + j]
  OBVIOUS
<1>4. RemoveAt(s, i) = a \o b
  BY DEF RemoveAt
<1> HIDE DEF a, b
<1>5. /\ a \o b \in Seq(S) /\ Len(a \o b) = Len(a) + Len(b)
      /\ \A j \in 1 .. Len(a) + Len(b) : (a \o b)[j] = IF j <= Len(a) THEN a[j] ELSE b[j - Len(a)]
  BY <1>2, <1>3, ConcatProperties
<1>6. Len(a) + Len(b) = Len(s) - 1
  BY <1>1, <1>2, <1>3
<1>7. ASSUME NEW j \in 1 .. Len(s) - 1
      PROVE  /\ (IF j < i THEN j ELSE j + 1) \in DOMAIN s
             /\ (a \o b)[j] = s[IF j < i THEN j ELSE j + 1]
  <2>1. CASE j < i
    <3>1. j \in 1 .. i - 1 /\ j <= i - 1
      BY <1>1, <2>1
    <3>2. (a \o b)[j] = a[j]
      BY <1>2, <1>5, <1>6, <3>1
    <3> QED
      BY <1>1, <1>2, <2>1, <3>1, <3>2
  <2>2. CASE ~(j < i)
    <3>1. ~(j <= i - 1) /\ j - (i - 1) \in 1 .. Len(s) - i /\ i + (j - (i - 1)) = j + 1
      BY <1>1, <2>2
    <3>2. (a \o b)[j] = b[j - (i - 1)]
      BY <1>2, <1>5, <1>6, <3>1
    <3>3. b[j - (i - 1)] = s[j + 1]
      BY <1>3, <3>1
    <3> QED
      BY <1>1, <2>2, <3>2, <3>3
  <2> QED
    BY <2>1, <2>2
<1>8. DOMAIN (a \o b) = 1 .. Len(s) - 1
  BY <1>5, <1>6
<1> QED
  BY <1>4, <1>5, <1>6, <1>7, <1>8

LEMMA HostsStayInOrder ==
    ASSUME NEW nodes \in NodeLists, NEW n \in Nat, nodes \in [1 .. n -> Node],
           NEW others \in [1 .. n -> Node],
           \A i \in 1 .. n : others[i].host = nodes[i].host,
           Orderly(nodes)
    PROVE  others \in NodeLists /\ Orderly(others)
BY DEF NodeLists, Node, Orderly

LEMMA StepHostsChange == StoredInv /\ HostsChange => StoredInv'
<1> SUFFICES ASSUME StoredInv, HostsChange PROVE StoredInv'
  OBVIOUS
<1> DEFINE n == Len(known)
<1>1. known \in NodeLists /\ Orderly(known) /\ OneSelected(known)
  BY DEF StoredInv, StoredTypeOK, HostsInOrder
<1>2. known \in Seq(Node)
  BY <1>1 DEF NodeLists, Node
<1>3. n \in Nat /\ known \in [1 .. n -> Node] /\ DOMAIN known = 1 .. n
  BY <1>2
<1> HIDE DEF n
<1>4. known' \in NodeLists /\ Orderly(known') /\ OneSelected(known')
  <2>1. ASSUME NEW h \in KnownPcs, NEW paired \in BOOLEAN, IsListed(h),
               known' = [i \in DOMAIN known |-> IF known[i].host = h /\ paired
                                   THEN [known[i] EXCEPT !.known = TRUE] ELSE known[i]]
        PROVE  known' \in NodeLists /\ Orderly(known') /\ OneSelected(known')
    <3>1. \A d \in Node : /\ [d EXCEPT !.known = TRUE] \in Node
                          /\ [d EXCEPT !.known = TRUE].host = d.host
                          /\ [d EXCEPT !.known = TRUE].selected = d.selected
      BY DEF Node
    <3>2. \A i \in 1 .. n : /\ known'[i] \in Node /\ known'[i].host = known[i].host
                            /\ known'[i].selected = known[i].selected
      BY <1>3, <2>1, <3>1
    <3>3. known' \in [1 .. n -> Node]
      BY <1>3, <2>1, <3>2
    <3> QED
      BY <1>1, <1>3, <3>2, <3>3, HostsStayInOrder DEF OneSelected
  <2>2. ASSUME NEW h \in KnownPcs, NEW paired \in BOOLEAN, ~IsListed(h),
               known' = Append(known, NewNode(h, paired))
        PROVE  known' \in NodeLists /\ Orderly(known') /\ OneSelected(known')
    <3>1. NewNode(h, paired) \in Node /\ NewNode(h, paired).host = h /\ ~NewNode(h, paired).selected
      BY DEF NewNode, Node
    <3>2. /\ known' \in Seq(Node) /\ Len(known') = n + 1 /\ known'[n + 1] = NewNode(h, paired)
          /\ \A i \in 1 .. n : known'[i] = known[i]
      BY <1>2, <2>2, <3>1, AppendProperties DEF n
    <3>3. DOMAIN known' = 1 .. n + 1 /\ \A i \in 1 .. n + 1 : i = n + 1 \/ i \in 1 .. n
      BY <1>3, <3>2
    <3>4. \A i \in 1 .. n : known[i].host # h
      BY <1>3, <2>2 DEF IsListed
    <3>5. Orderly(known')
      BY <1>1, <1>3, <3>1, <3>2, <3>3, <3>4 DEF Orderly
    <3>6. OneSelected(known')
      BY <1>1, <1>3, <3>1, <3>2, <3>3 DEF OneSelected
    <3> QED
      BY <3>2, <3>5, <3>6 DEF NodeLists, Node
  <2>3. ASSUME NEW h \in KnownPcs,
               known' = [i \in DOMAIN known |-> [known[i] EXCEPT !.selected = (known[i].host = h)]]
        PROVE  known' \in NodeLists /\ Orderly(known') /\ OneSelected(known')
    <3>1. \A d \in Node, b \in BOOLEAN : /\ [d EXCEPT !.selected = b] \in Node
                                         /\ [d EXCEPT !.selected = b].host = d.host
                                         /\ [d EXCEPT !.selected = b].selected = b
      BY DEF Node
    <3>2. \A i \in 1 .. n : /\ known'[i] \in Node /\ known'[i].host = known[i].host
                            /\ known'[i].selected => known[i].host = h
      BY <1>3, <2>3, <3>1
    <3>3. known' \in [1 .. n -> Node]
      BY <1>3, <2>3, <3>2
    <3>4. OneSelected(known')
      BY <1>1, <1>3, <3>2, <3>3 DEF OneSelected, Orderly
    <3> QED
      BY <1>1, <1>3, <3>2, <3>3, <3>4, HostsStayInOrder
  <2>4. ASSUME NEW i \in DOMAIN known, NEW a \in PcApps,
               known' = [known EXCEPT ![i].favs = (@ \cup {a}) \ (@ \cap {a})]
        PROVE  known' \in NodeLists /\ Orderly(known') /\ OneSelected(known')
    <3>1. \A d \in Node, f \in SUBSET PcApps : /\ [d EXCEPT !.favs = f] \in Node
                                               /\ [d EXCEPT !.favs = f].host = d.host
                                               /\ [d EXCEPT !.favs = f].selected = d.selected
      BY DEF Node
    <3> DEFINE f == (known[i].favs \cup {a}) \ (known[i].favs \cap {a})
    <3>2. f \in SUBSET PcApps
      BY <1>3 DEF Node
    <3>3. known' = [j \in 1 .. n |-> IF j = i THEN [known[i] EXCEPT !.favs = f] ELSE known[j]]
      BY <1>3, <2>4
    <3> HIDE DEF f
    <3>4. ASSUME NEW j \in 1 .. n
          PROVE  /\ known'[j] \in Node /\ known'[j].host = known[j].host
                 /\ known'[j].selected = known[j].selected
      <4>1. known[j] \in Node
        BY <1>3
      <4>2. CASE j = i
        <5>1. known'[j] = [known[j] EXCEPT !.favs = f]
          BY <3>3, <4>2
        <5> QED
          BY <3>1, <3>2, <4>1, <5>1
      <4>3. CASE j # i
        <5>1. known'[j] = known[j]
          BY <3>3, <4>3
        <5> QED
          BY <4>1, <5>1
      <4> QED
        BY <4>2, <4>3
    <3>5. known' \in [1 .. n -> Node]
      <4>1. \A j \in 1 .. n : known'[j] \in Node
        BY <3>4
      <4>2. DOMAIN known' = 1 .. n /\ known' = [j \in 1 .. n |-> known'[j]]
        BY <3>3
      <4> QED
        BY <4>1, <4>2
    <3> QED
      BY <1>1, <1>3, <3>4, <3>5, HostsStayInOrder DEF OneSelected
  <2>5. ASSUME NEW i \in DOMAIN known, known' = RemoveAt(known, i)
        PROVE  known' \in NodeLists /\ Orderly(known') /\ OneSelected(known')
    <3>1. /\ known' \in Seq(Node)
          /\ \A j \in DOMAIN known' : /\ (IF j < i THEN j ELSE j + 1) \in DOMAIN known
                                      /\ known'[j] = known[IF j < i THEN j ELSE j + 1]
      BY <1>2, <2>5, RemovedIs
    <3>2. \A j \in DOMAIN known' : j \in Nat
      BY <3>1
    <3>3. \A j, k \in Nat : (IF j < i THEN j ELSE j + 1) = (IF k < i THEN k ELSE k + 1) => j = k
      BY <1>3
    <3>4. Orderly(known')
      BY <1>1, <3>1, <3>2, <3>3 DEF Orderly
    <3>5. OneSelected(known')
      BY <1>1, <3>1, <3>2, <3>3 DEF OneSelected
    <3> QED
      BY <3>1, <3>4, <3>5 DEF NodeLists, Node
  <2> QED
    BY <2>1, <2>2, <2>3, <2>4, <2>5 DEF HostsChange
<1>5. /\ alive /\ alive' = alive /\ clean' = clean /\ conf' = conf /\ auto' = auto
      /\ iniMade' = iniMade /\ iniText' = iniText /\ hostsText' = hostsText /\ stored' = stored
  BY DEF HostsChange
<1>6. StoredTypeOK'
  BY <1>4, <1>5 DEF StoredInv, StoredTypeOK
<1>7. RatesAgree' /\ HostsInOrder' /\ ExitWasKept' /\ FileIsKnown'
  BY <1>4, <1>5 DEF StoredInv, RatesAgree, HostsInOrder, ExitWasKept, FileIsKnown
<1> QED
  BY <1>6, <1>7 DEF StoredInv

-----------------------------------------------------------------------------
LEMMA NextStoredInv == StoredInv /\ [StoredNext]_storedVars => StoredInv'
<1> SUFFICES ASSUME StoredInv, [StoredNext]_storedVars PROVE StoredInv'
  OBVIOUS
<1>1. CASE UNCHANGED storedVars
  BY <1>1 DEF storedVars, StoredInv, StoredTypeOK, RatesAgree, HostsInOrder, FileIsKnown, ExitWasKept
<1> QED
  BY <1>1, StepSettingsLeft, StepHostsChange, StepApplicationEnds, StepApplicationDies,
     StepApplicationStarts, StepDeviceTicked DEF StoredNext

\* The settings in memory and the file they were written to agree on the rates; the file is
\* as settings_save wrote it, or what is left of it has headers of the devices alone and
\* still tells autoresume; after an exit all three files are those of the last state.
THEOREM StoredInvariance == StoredSpec => []StoredInv
<1> QED
  BY InitStoredInv, NextStoredInv, PTL DEF StoredSpec

\* For any devices, hosts, apps and rates: after an exit the settings, the hosts and the
\* preferences of devices whose id survives are read back as they were left, but for a precise
\* rate above 240 frames, of which only the frame rate is; and after any other end each setting
\* is the one that was saved or its default (settings_read, pclist loading, hid_pt_prefs).
THEOREM WhatIsStoredComesBack == StoredSpec => []StoredComesBack
<1>1. StoredInv => StoredComesBack
  <2> SUFFICES ASSUME StoredInv PROVE StoredComesBack
    OBVIOUS
  <2>1. conf \in Confs /\ IsReconciled(conf) /\ auto \in PrefMaps /\ known \in NodeLists
        /\ Orderly(known) /\ OneSelected(known)
    BY DEF StoredInv, StoredTypeOK, RatesAgree, HostsInOrder
  <2>2. ASSUME ~alive, clean
        PROVE  /\ Read(iniText) = Kept(conf)
               /\ ReadPrefs(iniText) = [d \in DOMAIN auto \cap Addressed |-> auto[d]]
               /\ LoadedHosts(hostsText) = KnownOf(known)
    <3>1. iniText = Saved(conf, auto) /\ hostsText = KnownOf(known)
      BY <2>2 DEF StoredInv, ExitWasKept
    <3>2. LoadedHosts(KnownOf(known)) = KnownOf(known)
      BY <2>1, KnownOfIs, LoadedIs
    <3> QED
      BY <2>1, <3>1, <3>2, SavedIsRead, PrefsAreRead
  <2>3. conf.rate > 0 => Implied(conf.rate) = conf.fps
    BY <2>1, RatesOfReconciled
  <2>4. \A s \in DOMAIN Default : Read(iniText)[s] \in {Kept(stored)[s], Default[s]}
    BY FileIsRead
  <2> QED
    BY <2>1, <2>2, <2>3, <2>4 DEF StoredComesBack, OneSelected
<1> QED
  BY <1>1, StoredInvariance, PTL
=============================================================================
