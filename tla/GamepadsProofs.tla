--------------------------- MODULE GamepadsProofs ---------------------------
(***************************************************************************)
(* Controllers, for any number of slots, any controllers and any           *)
(* identities (two of a kind that has no serial number share one).         *)
(*                                                                         *)
(* The slots: a slot's number is its index, and mask and count are exact.  *)
(* The code never writes gs_id = i. It picks the first free slot and,      *)
(* apart from it, the least number that is not in use; that the two agree  *)
(* rests on the slots being used for the first time in order.              *)
(*                                                                         *)
(* A stream: the host knows the controllers that are connected and not     *)
(* bridged, and those that are bridged are silent.                         *)
(***************************************************************************)
EXTENDS Gamepads, FiniteSetTheorems, WellFoundedInduction, TLAPS

-----------------------------------------------------------------------------
(* The slots: the inductive invariant.                                     *)

\* A slot that was ever used goes by its index.
NumbersAreSlots == \A i \in Slot : number[i] \in {NoNumber, i}

\* Slots are used for the first time in order.
UsedInOrder ==
    \A i, j \in Slot : j < i /\ number[i] # NoNumber => number[j] # NoNumber

\* Who is connected has a number, and a slot without one remembers nobody.
NumberedIfUsed ==
    \A i \in Slot : /\ pad[i] # NoPad => number[i] # NoNumber
                    /\ number[i] = NoNumber => memory[i] = Nobody

\* No controller sits in two slots.
OneSlotEach ==
    \A i, j \in Slot : pad[i] = pad[j] /\ pad[i] # NoPad => i = j

\* A set bit of the mask is a connected slot, and conversely.
MaskIsSlots == activeMask = Connected

CountIsExact == count = Cardinality(Connected)

SlotInv ==
    /\ SlotTypeOK
    /\ NumbersAreSlots
    /\ UsedInOrder
    /\ NumberedIfUsed
    /\ OneSlotEach
    /\ MaskIsSlots
    /\ CountIsExact

-----------------------------------------------------------------------------
(* Lemmas.                                                                 *)

\* A nonempty set of natural numbers has a least element, and Least picks it.
LEMMA LeastIsLeast ==
    ASSUME NEW S, S \subseteq Nat, S # {}
    PROVE  /\ Least(S) \in S
           /\ \A k \in S : Least(S) <= k
<1> DEFINE R == OpToRel(<, Nat)
<1>1. IsWellFoundedOn(R, Nat)
  BY NatLessThanWellFounded
<1>2. \A x, y \in Nat : x < y => <<x, y>> \in R
  BY DEF R, OpToRel
<1> HIDE DEF R
<1>3. \E x \in S : \A y \in S : ~ (<<y, x>> \in R)
  <2> DEFINE T == S
  <2>1. T \subseteq Nat /\ T # {}
    OBVIOUS
  <2> HIDE DEF T
  <2>2. \E x \in T : \A y \in T : ~ (<<y, x>> \in R)
    BY <1>1, <2>1, WFMin, Zenon
  <2> QED
    BY <2>2 DEF T
<1>4. PICK m \in S : \A y \in S : ~ (<<y, m>> \in R)
  BY <1>3
<1>5. \A k \in S : m <= k
  <2> SUFFICES ASSUME NEW k \in S PROVE m <= k
    OBVIOUS
  <2>1. k \in Nat /\ m \in Nat /\ ~(k < m)
    BY <1>2, <1>4
  <2> QED
    BY <2>1
<1>6. \E i \in S : \A j \in S : i <= j
  BY <1>4, <1>5
<1> QED
  BY <1>6 DEF Least

LEMMA SlotsAreFinite == IsFiniteSet(Slot) /\ Cardinality(Slot) = MaxPads
<1>1. MaxPads - 1 \in Int /\ 0 \in Int /\ MaxPads \in Nat
  BY SlotAssumption
<1> QED
  BY <1>1, FS_Interval, SlotAssumption DEF Slot

\* While fewer than the maximum are connected, some slot is free.
LEMMA SomeSlotIsFree ==
    ASSUME SlotInv, count < MaxPads
    PROVE  Slot \ Connected # {}
<1>1. SUFFICES ASSUME Slot \ Connected = {} PROVE FALSE
  OBVIOUS
<1>2. Connected = Slot
  BY <1>1 DEF Connected
<1>3. count = MaxPads
  BY <1>2, SlotsAreFinite DEF SlotInv, CountIsExact
<1> QED
  BY <1>3, SlotAssumption

\* What new_gamepad_state_index and next_gamepad_gs_id return: a free slot, and
\* the slot's own index for its number.
LEMMA AddPadPicks ==
    ASSUME SlotInv, NEW p \in Pads, count < MaxPads,
           NEW i, i = NewIndex(p),
           NEW n, n = (IF number[i] = NoNumber THEN NextNumber ELSE number[i])
    PROVE  /\ i \in Slot \ Connected
           /\ n = i
           /\ \A j \in Slot : j < i => number[j] # NoNumber
<1> DEFINE Free == Slot \ Connected
           same == {k \in Free : memory[k] = Identity[p]}
<1>1. Free # {} /\ Free \subseteq Nat /\ same \subseteq Nat
  BY SomeSlotIsFree, SlotAssumption DEF Slot
<1>2. i = Least(IF same # {} THEN same ELSE Free)
  BY DEF NewIndex
<1> HIDE DEF Free, same
<1>3. CASE same # {}
  <2>1. i \in same
    BY <1>1, <1>2, <1>3, LeastIsLeast
  <2>2. i \in Slot \ Connected /\ memory[i] # Nobody
    BY <2>1, SlotAssumption DEF same, Free
  <2>3. number[i] = i
    BY <2>2 DEF SlotInv, NumberedIfUsed, NumbersAreSlots
  <2>4. number[i] # NoNumber
    BY <2>2, <2>3, SlotAssumption DEF Slot, NoNumber
  <2> QED
    BY <2>2, <2>3, <2>4 DEF SlotInv, UsedInOrder
<1>4. CASE same = {}
  <2>1. i \in Free /\ \A k \in Free : i <= k
    BY <1>1, <1>2, <1>4, LeastIsLeast
  <2>2. i \in Slot \ Connected
    BY <2>1 DEF Free
  <2>3. \A j \in Slot : j < i => j \in Connected
    BY <2>1, SlotAssumption DEF Free, Slot
  <2>4. \A j \in Slot : j < i => number[j] # NoNumber
    BY <2>3 DEF SlotInv, NumberedIfUsed, Connected
  <2>5. CASE number[i] = NoNumber
    <3>1. i \in Slot \ activeMask /\ Slot \ activeMask \subseteq Nat
      BY <2>2, SlotAssumption DEF SlotInv, MaskIsSlots, Slot
    <3>2. NextNumber \in Slot \ activeMask /\ NextNumber <= i
      BY <3>1, LeastIsLeast DEF NextNumber
    <3>3. ~(NextNumber < i)
      BY <2>3, <3>2 DEF SlotInv, MaskIsSlots
    <3>4. NextNumber = i
      BY <3>1, <3>2, <3>3
    <3> QED
      BY <2>2, <2>4, <2>5, <3>4
  <2>6. CASE number[i] # NoNumber
    BY <2>2, <2>4, <2>6 DEF SlotInv, NumbersAreSlots
  <2> QED
    BY <2>5, <2>6
<1> QED
  BY <1>3, <1>4

\* SlotOf finds the slot of a controller that is connected.
LEMMA SlotOfJoined ==
    ASSUME NEW p \in Pads, Joined(p)
    PROVE  SlotOf(p) \in Slot /\ pad[SlotOf(p)] = p
BY DEF Joined, SlotOf

-----------------------------------------------------------------------------
(* The steps.                                                              *)

LEMMA InitSlots == SlotInit => SlotInv
<1> SUFFICES ASSUME SlotInit PROVE SlotInv
  OBVIOUS
<1>1. Connected = {}
  BY DEF SlotInit, Connected
<1>2. SlotTypeOK
  BY SlotAssumption DEF SlotInit, SlotTypeOK, Nobody
<1>3. CountIsExact
  BY <1>1, FS_EmptySet DEF SlotInit, CountIsExact
<1> QED
  BY <1>1, <1>2, <1>3
  DEF SlotInit, SlotInv, NumbersAreSlots, UsedInOrder, NumberedIfUsed, OneSlotEach, MaskIsSlots

LEMMA AddPadKeeps ==
    ASSUME SlotInv, NEW p \in Pads, AddPad(p)
    PROVE  SlotInv'
<1> DEFINE i == NewIndex(p)
           n == IF number[i] = NoNumber THEN NextNumber ELSE number[i]
<1>1. /\ ~Joined(p) /\ count < MaxPads
      /\ pad' = [pad EXCEPT ![i] = p]
      /\ number' = [number EXCEPT ![i] = n]
      /\ memory' = [memory EXCEPT ![i] = Identity[p]]
      /\ activeMask' = activeMask \cup {n}
      /\ count' = count + 1
  BY DEF AddPad
<1>2. /\ i \in Slot \ Connected
      /\ n = i
      /\ \A j \in Slot : j < i => number[j] # NoNumber
  BY <1>1, AddPadPicks
<1> HIDE DEF i, n
<1>3. p # NoPad /\ Identity[p] \in Nat /\ i \in Int /\ i # NoNumber
  BY <1>2, SlotAssumption DEF Slot, NoNumber
<1>4. IsFiniteSet(Connected)
  BY SlotsAreFinite, FS_Subset DEF Connected
<1>5. Connected' = Connected \cup {i}
  BY <1>1, <1>2, <1>3 DEF SlotInv, SlotTypeOK, Connected
<1>6. Cardinality(Connected') = Cardinality(Connected) + 1
  BY <1>2, <1>4, <1>5, FS_AddElement
<1>7. CountIsExact'
  BY <1>1, <1>6 DEF SlotInv, CountIsExact
<1>8. SlotTypeOK'
  BY <1>1, <1>2, <1>3, SlotAssumption DEF SlotInv, SlotTypeOK
<1>9. NumbersAreSlots'
  BY <1>1, <1>2 DEF SlotInv, SlotTypeOK, NumbersAreSlots
<1>10. UsedInOrder'
  BY <1>1, <1>2, <1>3 DEF SlotInv, SlotTypeOK, UsedInOrder
<1>11. NumberedIfUsed'
  BY <1>1, <1>2, <1>3 DEF SlotInv, SlotTypeOK, NumberedIfUsed
<1>12. OneSlotEach'
  BY <1>1, <1>2 DEF SlotInv, SlotTypeOK, OneSlotEach, Joined
<1>13. MaskIsSlots'
  BY <1>1, <1>2, <1>5 DEF SlotInv, MaskIsSlots
<1> QED
  BY <1>7, <1>8, <1>9, <1>10, <1>11, <1>12, <1>13 DEF SlotInv

LEMMA ClosePadKeeps ==
    ASSUME SlotInv, NEW p \in Pads, ClosePad(p)
    PROVE  SlotInv'
<1> DEFINE i == SlotOf(p)
<1>1. /\ Joined(p)
      /\ pad' = [pad EXCEPT ![i] = NoPad]
      /\ activeMask' = activeMask \ {number[i]}
      /\ count' = count - 1
      /\ UNCHANGED <<number, memory>>
  BY DEF ClosePad, NumberOf
<1>2. i \in Slot /\ pad[i] = p /\ p # NoPad
  BY <1>1, SlotOfJoined, SlotAssumption
<1> HIDE DEF i
<1>3. i \in Connected /\ number[i] = i
  BY <1>2 DEF SlotInv, Connected, NumberedIfUsed, NumbersAreSlots
<1>4. IsFiniteSet(Connected) /\ Connected \subseteq Slot
  BY SlotsAreFinite, FS_Subset DEF Connected
<1>5. Connected' = Connected \ {i}
  BY <1>1, <1>2 DEF SlotInv, SlotTypeOK, Connected
<1>6. Cardinality(Connected') = Cardinality(Connected) - 1
  BY <1>3, <1>4, <1>5, FS_RemoveElement
<1>7. CountIsExact'
  BY <1>1, <1>6 DEF SlotInv, CountIsExact
<1>8. count' \in 0..MaxPads
  <2>1. Cardinality(Connected') \in Nat
    BY <1>4, <1>5, FS_Subset, FS_CardinalityType
  <2> QED
    BY <1>1, <1>7, <2>1, SlotAssumption DEF SlotInv, SlotTypeOK, CountIsExact
<1>9. SlotTypeOK'
  BY <1>1, <1>2, <1>8 DEF SlotInv, SlotTypeOK
<1>10. NumbersAreSlots' /\ UsedInOrder'
  BY <1>1 DEF SlotInv, NumbersAreSlots, UsedInOrder
<1>11. NumberedIfUsed'
  BY <1>1, <1>2 DEF SlotInv, SlotTypeOK, NumberedIfUsed
<1>12. OneSlotEach'
  BY <1>1, <1>2 DEF SlotInv, SlotTypeOK, OneSlotEach
<1>13. MaskIsSlots'
  BY <1>1, <1>3, <1>5 DEF SlotInv, MaskIsSlots
<1> QED
  BY <1>7, <1>9, <1>10, <1>11, <1>12, <1>13 DEF SlotInv

-----------------------------------------------------------------------------
(* The theorems.                                                           *)

\* The inductive invariant of the slots: app_input_init_gamepad and
\* app_input_close_gamepad keep it.
THEOREM SlotInvariance == SlotSpec => []SlotInv
<1>1. SlotInv /\ [SlotNext]_slotVars => SlotInv'
  <2> SUFFICES ASSUME SlotInv, [SlotNext]_slotVars PROVE SlotInv'
    OBVIOUS
  <2>1. ASSUME NEW p \in Pads, AddPad(p) PROVE SlotInv'
    BY <2>1, AddPadKeeps
  <2>2. ASSUME NEW p \in Pads, ClosePad(p) PROVE SlotInv'
    BY <2>2, ClosePadKeeps
  <2>3. CASE UNCHANGED slotVars
    BY <2>3
    DEF slotVars, SlotInv, SlotTypeOK, NumbersAreSlots, UsedInOrder, NumberedIfUsed,
        OneSlotEach, MaskIsSlots, CountIsExact, Connected
  <2> QED
    BY <2>1, <2>2, <2>3 DEF SlotNext
<1> QED
  BY InitSlots, <1>1, PTL DEF SlotSpec

\* The host's number of a controller is the index of its slot, so that rumble,
\* sensors and lights (input_gamepad.c:168-249) reach the controller meant.
THEOREM RumbleReachesItsPad == SlotSpec => []RumbleFindsItsPad
<1>1. SlotInv => RumbleFindsItsPad
  BY DEF SlotInv, RumbleFindsItsPad, RumbleTarget, Connected, NumberedIfUsed, NumbersAreSlots
<1> QED
  BY <1>1, SlotInvariance, PTL

\* The mask and the count sent to the host are those of the connected slots.
THEOREM MaskStaysExact == SlotSpec => []MaskIsExact
<1>1. SlotInv => MaskIsExact
  <2> SUFFICES ASSUME SlotInv PROVE MaskIsExact
    OBVIOUS
  <2>1. \A i \in Connected : number[i] = i
    BY DEF SlotInv, Connected, NumberedIfUsed, NumbersAreSlots
  <2>2. {number[i] : i \in Connected} = Connected
    BY <2>1
  <2> QED
    BY <2>2 DEF SlotInv, MaskIsExact, MaskIsSlots, CountIsExact
<1> QED
  BY <1>1, SlotInvariance, PTL

\* The assertion of app_input_init_gamepad on gs_id can never fail.
THEOREM NumbersAlwaysSuffice == SlotSpec => []NumbersSuffice
<1>1. SlotInv => NumbersSuffice
  BY SomeSlotIsFree DEF SlotInv, NumbersSuffice, MaskIsSlots
<1> QED
  BY <1>1, SlotInvariance, PTL

-----------------------------------------------------------------------------
(* A stream: the inductive invariant.                                       *)

InputTypes ==
    /\ phase \in {"none", "connecting", "started"} /\ blocked \in BOOLEAN
    /\ announced \in SUBSET Slot /\ excluded \in SUBSET Slot /\ leaked \in SUBSET Slot
    /\ host \in [Slot -> Pads \cup {NoPad}]

HidTypes ==
    /\ present \in SUBSET Devices /\ seen \in SUBSET Devices /\ pref \in SUBSET Devices
    /\ match \in [Devices -> Slot \cup {NoNumber}]

AutoTypes ==
    /\ bridged \in SUBSET Devices /\ plugOut \in SUBSET Devices
    /\ auto \in [Devices -> {"none", "pending", "done", "giveup"}]
    /\ fails \in [Devices -> 0..MaxFails] /\ cooldown \in 0..Cooldown

PairTypes == missed \in SUBSET Slot /\ misled \in BOOLEAN /\ paired \in SUBSET Devices

\* The announced mask is what the host was told, and nothing is told before the input starts.
HostTells == \A n \in Slot : n \in announced <=> host[n] # NoPad

NothingYet == phase = "connecting" => announced = {}

\* A device that is tried has an attempt left.
TriesLeft == \A d \in Devices : auto[d] \in {"none", "pending"} => fails[d] < MaxFails

\* A deliberate plug out is done for the auto-plug, and stays done while others are tried.
PlugOutSettled == \A d \in plugOut : auto[d] = "done"

\* Who is taken for bridged while connected is connected, in a session whose input runs.
PairedAreThere ==
    /\ \A d \in paired : Joined(d)
    /\ phase # "started" => paired = {}

AutoInv == AutoTypes /\ TriesLeft /\ PlugOutSettled /\ PlugOutRespected

PadInv ==
    /\ SlotInv
    /\ InputTypes /\ HidTypes /\ PairTypes
    /\ AutoInv
    /\ HostTells /\ NothingYet /\ HostIsCurrent
    /\ PairedAreThere /\ BridgedPadsSilent

-----------------------------------------------------------------------------
(* Lemmas: matching, and what the host is told.                             *)

SlotsOfPads == [Slot -> Pads \cup {NoPad}]

LEMMA SlotsAreNumbers == Slot \subseteq Nat /\ NoNumber \notin Slot
BY SlotAssumption DEF Slot, NoNumber

\* A device is matched with one slot at most, and that one has a controller in it.
LEMMA MatchIsASlot ==
    ASSUME NEW at \in SlotsOfPads, NEW d \in Devices,
           NEW known \in [Devices -> Slot \cup {NoNumber}]
    PROVE  /\ Match(d, at, known) \subseteq There(at)
           /\ \A m, n \in Match(d, at, known) : m = n
<1> DEFINE alike == {n \in There(at) : Model[at[n]] = Model[d]}
<1>1. There(at) \subseteq Slot /\ alike \subseteq There(at) /\ alike \subseteq Nat
  BY SlotsAreNumbers DEF There
<1>2. alike # {} => Least(alike) \in There(at)
  BY <1>1, LeastIsLeast
<1>3. ASSUME Cardinality(There(at)) = 1 PROVE \A m, n \in There(at) : m = n
  <2>1. IsFiniteSet(There(at))
    BY <1>1, SlotsAreFinite, FS_Subset
  <2>2. \E x : There(at) = {x}
    BY <1>3, <2>1, FS_Singleton
  <2> QED
    BY <2>2
<1> HIDE DEF alike
<1>4. Match(d, at, known) =
         IF known[d] \in There(at) THEN {known[d]}
         ELSE IF alike # {} THEN {Least(alike)}
         ELSE IF Cardinality(There(at)) = 1 THEN There(at) ELSE {}
  BY DEF Match, alike
<1>5. CASE known[d] \in There(at)
  BY <1>4, <1>5
<1>6. CASE known[d] \notin There(at) /\ alike # {}
  BY <1>2, <1>4, <1>6
<1>7. CASE known[d] \notin There(at) /\ alike = {}
  BY <1>3, <1>4, <1>7
<1> QED
  BY <1>5, <1>6, <1>7

LEMMA LeastMatch ==
    ASSUME NEW at \in SlotsOfPads, NEW d \in Devices,
           NEW known \in [Devices -> Slot \cup {NoNumber}],
           Match(d, at, known) # {}
    PROVE  Least(Match(d, at, known)) \in Slot
<1>1. Match(d, at, known) \subseteq Slot /\ Match(d, at, known) \subseteq Nat
  BY MatchIsASlot, SlotsAreNumbers DEF There
<1> QED
  BY <1>1, LeastIsLeast

LEMMA UnmatchedType == Unmatched \in [Devices -> Slot \cup {NoNumber}]
BY DEF Unmatched

LEMMA SlotsAreSlots ==
    ASSUME NEW at \in SlotsOfPads, NEW ds \in SUBSET Devices
    PROVE  Slots(ds, at) \subseteq Slot
<1>1. \A d \in ds : Match(d, at, Unmatched) \subseteq Slot
  BY MatchIsASlot, UnmatchedType DEF There
<1> QED
  BY <1>1 DEF Slots

LEMMA MatchedType ==
    ASSUME NEW at \in SlotsOfPads, NEW ds \in SUBSET Devices
    PROVE  Matched(ds, at) \in [Devices -> Slot \cup {NoNumber}]
<1>1. \A d \in Devices : Match(d, at, Unmatched) # {} => Least(Match(d, at, Unmatched)) \in Slot
  BY LeastMatch, UnmatchedType
<1> QED
  BY <1>1 DEF Matched

\* What excluding slots does: the host knows nobody by their numbers any more.
LEMMA ExcludesTells ==
    ASSUME InputTypes, HostTells, phase = "started", NEW ns \in SUBSET Slot, Excludes(ns)
    PROVE  /\ announced' \in SUBSET Slot /\ excluded' = excluded \cup ns
           /\ leaked' \in SUBSET Slot /\ host' \in SlotsOfPads
           /\ \A n \in Slot : host'[n] = IF n \in ns THEN NoPad ELSE host[n]
           /\ HostTells'
<1> DEFINE gone == ns \cap announced
<1>1. /\ announced' = announced \ gone
      /\ host' = [n \in Slot |-> IF n \in gone THEN NoPad ELSE host[n]]
      /\ leaked' = IF gone = {} THEN leaked ELSE {}
      /\ excluded' = excluded \cup ns
  BY DEF Excludes
<1>2. host' \in SlotsOfPads /\ leaked' \in SUBSET Slot /\ announced' \in SUBSET Slot
  BY <1>1 DEF InputTypes, SlotsOfPads
<1>3. \A n \in Slot : host'[n] = IF n \in ns THEN NoPad ELSE host[n]
  BY <1>1 DEF HostTells
<1>4. HostTells'
  BY <1>1 DEF HostTells
<1> QED
  BY <1>1, <1>2, <1>3, <1>4

\* What announcing slots does: the host learns of those it knows nobody by.
LEMMA ArrivesTells ==
    ASSUME InputTypes, HostTells, NEW at \in SlotsOfPads, NEW ns, ns \subseteq There(at),
           NEW out \in SUBSET Slot, Arrives(ns, at, out)
    PROVE  /\ announced' \in SUBSET Slot /\ excluded' = out
           /\ leaked' \in SUBSET Slot /\ host' \in SlotsOfPads
           /\ \A n \in Slot :
                 host'[n] = IF n \in ns \ out /\ host[n] = NoPad THEN at[n] ELSE host[n]
           /\ HostTells'
<1> DEFINE fresh == (ns \ out) \ announced
<1>1. /\ announced' = announced \cup fresh
      /\ host' = [n \in Slot |-> IF n \in fresh THEN at[n] ELSE host[n]]
      /\ leaked' = IF fresh = {} THEN leaked ELSE {}
      /\ excluded' = out
  BY DEF Arrives
<1>2. fresh \subseteq Slot /\ \A n \in fresh : at[n] # NoPad
  BY DEF There
<1>3. host' \in SlotsOfPads /\ leaked' \in SUBSET Slot /\ announced' \in SUBSET Slot
  BY <1>1, <1>2 DEF InputTypes, SlotsOfPads
<1>4. \A n \in Slot :
         host'[n] = IF n \in ns \ out /\ host[n] = NoPad THEN at[n] ELSE host[n]
  BY <1>1 DEF HostTells
<1>5. HostTells'
  BY <1>1, <1>2 DEF HostTells
<1> QED
  BY <1>1, <1>3, <1>4, <1>5

-----------------------------------------------------------------------------
(* Lemmas: what a reconciliation of the auto-plug does.                     *)

\* Who is tried is present, is not bridged, and was neither plugged out nor given up.
LEMMA CandidatesAreOpen ==
    ASSUME NEW d \in Candidates
    PROVE  d \in present /\ d \notin Reaped /\ auto[d] \in {"none", "pending"}
BY DEF Candidates

LEMMA RestsKeeps ==
    ASSUME AutoInv, Rests
    PROVE  /\ auto' \in [Devices -> {"none", "pending", "done", "giveup"}]
           /\ fails' \in [Devices -> 0..MaxFails] /\ cooldown' \in 0..Cooldown
           /\ TriesLeft'
           /\ \A d \in plugOut \cap present : auto'[d] = "done"
<1>1. /\ cooldown > 0 /\ cooldown' = cooldown - 1
      /\ auto' = [d \in Devices |-> IF d \in Reaped THEN "done" ELSE Pruned(auto)[d]]
      /\ fails' = [d \in Devices |-> IF d \in present \ Reaped THEN fails[d] ELSE 0]
  BY DEF Rests
<1>2. MaxFails \in Nat \ {0} /\ Cooldown \in Nat
  BY GamepadsAssumption
<1>3. cooldown' \in 0..Cooldown
  BY <1>1, <1>2 DEF AutoInv, AutoTypes
<1>4. auto' \in [Devices -> {"none", "pending", "done", "giveup"}]
  BY <1>1 DEF AutoInv, AutoTypes, Pruned
<1>5. fails' \in [Devices -> 0..MaxFails]
  BY <1>1, <1>2 DEF AutoInv, AutoTypes
<1>6. TriesLeft'
  <2> SUFFICES ASSUME NEW d \in Devices, auto'[d] \in {"none", "pending"}
               PROVE  fails'[d] < MaxFails
    BY DEF TriesLeft
  <2>1. CASE d \in present \ Reaped
    BY <1>1, <2>1 DEF Pruned, AutoInv, TriesLeft
  <2>2. CASE d \notin present \ Reaped
    BY <1>1, <1>2, <2>2
  <2> QED
    BY <2>1, <2>2
<1>7. \A d \in plugOut \cap present : auto'[d] = "done"
  BY <1>1 DEF Pruned, AutoInv, AutoTypes, PlugOutSettled
<1> QED
  BY <1>3, <1>4, <1>5, <1>6, <1>7

LEMMA TriesKeeps ==
    ASSUME AutoInv, NEW new \in SUBSET Candidates,
           NEW failing \in {{}} \cup {{d} : d \in Candidates}, Tries(new, failing)
    PROVE  /\ auto' \in [Devices -> {"none", "pending", "done", "giveup"}]
           /\ fails' \in [Devices -> 0..MaxFails] /\ cooldown' \in 0..Cooldown
           /\ TriesLeft'
           /\ \A d \in plugOut \cap present : auto'[d] = "done"
<1>1. /\ cooldown' = IF failing = {} THEN 0 ELSE Cooldown
      /\ fails' = [d \in Devices |->
                     IF d \in failing THEN fails[d] + 1
                     ELSE IF d \in Reaped \cup new \/ d \notin present THEN 0
                     ELSE fails[d]]
      /\ auto' = [d \in Devices |->
                    IF d \in Reaped \cup new THEN "done"
                    ELSE IF d \in failing
                    THEN IF GivesUp(fails[d] + 1) THEN "giveup" ELSE "pending"
                    ELSE Pruned(auto)[d]]
  BY DEF Tries
<1>2. MaxFails \in Nat \ {0} /\ Cooldown \in Nat /\ cooldown' \in 0..Cooldown
  BY <1>1, GamepadsAssumption
<1>3. failing \subseteq Candidates
  OBVIOUS
<1>4. \A d \in failing : d \in present /\ auto[d] \in {"none", "pending"}
  BY <1>3, CandidatesAreOpen
<1>5. \A d \in Devices : fails[d] \in 0..MaxFails
  BY DEF AutoInv, AutoTypes
<1>6. \A d \in failing \cap Devices : fails[d] + 1 \in 1..MaxFails
  <2>1. \A d \in failing \cap Devices : fails[d] < MaxFails
    BY <1>4 DEF AutoInv, TriesLeft
  <2> QED
    BY <1>2, <1>5, <2>1
<1>7. auto' \in [Devices -> {"none", "pending", "done", "giveup"}]
  BY <1>1 DEF AutoInv, AutoTypes, Pruned
<1>8. fails' \in [Devices -> 0..MaxFails]
  <2>1. \A d \in Devices : fails'[d] \in 0..MaxFails
    BY <1>1, <1>2, <1>5, <1>6
  <2> QED
    BY <1>1, <2>1
<1>9. TriesLeft'
  <2> SUFFICES ASSUME NEW d \in Devices, auto'[d] \in {"none", "pending"}
               PROVE  fails'[d] < MaxFails
    BY DEF TriesLeft
  <2>1. d \notin Reaped \cup new
    BY <1>1
  <2>2. CASE d \in failing
    <3>1. ~GivesUp(fails[d] + 1)
      BY <1>1, <2>1, <2>2
    <3> QED
      BY <1>1, <1>2, <1>6, <2>2, <3>1 DEF GivesUp
  <2>3. CASE d \notin failing /\ d \notin present
    BY <1>1, <1>2, <2>3
  <2>4. CASE d \notin failing /\ d \in present
    <3>1. auto'[d] = auto[d] /\ fails'[d] = fails[d]
      BY <1>1, <2>1, <2>4 DEF Pruned
    <3> QED
      BY <3>1 DEF AutoInv, TriesLeft
  <2> QED
    BY <2>2, <2>3, <2>4
<1>10. \A d \in plugOut \cap present : auto'[d] = "done"
  BY <1>1, <1>4 DEF Pruned, AutoInv, AutoTypes, PlugOutSettled
<1> QED
  BY <1>2, <1>7, <1>8, <1>9, <1>10

\* A reconciliation keeps what is known of the auto-plug, whatever fails in it.
LEMMA ReconcilesKeepsAuto ==
    ASSUME AutoInv, HidTypes, NEW at, NEW new \in SUBSET Candidates, Reconciles(new, at)
    PROVE  AutoInv'
<1>1. /\ bridged' = Reaped \cup new /\ plugOut' = plugOut \cap present
      /\ \/ new = {} /\ Rests
         \/ \E failing \in {{}} \cup {{d} : d \in Candidates} : Tries(new, failing)
  BY DEF Reconciles
<1>2. /\ auto' \in [Devices -> {"none", "pending", "done", "giveup"}]
      /\ fails' \in [Devices -> 0..MaxFails] /\ cooldown' \in 0..Cooldown
      /\ TriesLeft'
      /\ \A d \in plugOut \cap present : auto'[d] = "done"
  BY <1>1, RestsKeeps, TriesKeeps
<1>3. new \subseteq Devices /\ \A d \in new : d \notin plugOut
  BY CandidatesAreOpen DEF AutoInv, AutoTypes, PlugOutSettled, Candidates, HidTypes
<1>4. bridged' \in SUBSET Devices /\ plugOut' \in SUBSET Devices
  BY <1>1, <1>3 DEF AutoInv, AutoTypes, Reaped
<1>5. PlugOutRespected'
  BY <1>1, <1>3 DEF AutoInv, PlugOutRespected, Reaped
<1> QED
  BY <1>1, <1>2, <1>4, <1>5 DEF AutoInv, AutoTypes, PlugOutSettled

\* Who it bridges has its own slot among those it excludes, unless a device was matched
\* with the slot of another.
LEMMA ReconcilesPairs ==
    ASSUME HidTypes, PairTypes, NEW at \in SlotsOfPads, NEW new \in SUBSET Candidates,
           Reconciles(new, at)
    PROVE  /\ new \in SUBSET Devices
           /\ seen' \in SUBSET Devices /\ match' \in [Devices -> Slot \cup {NoNumber}]
           /\ misled' \in BOOLEAN /\ paired' \in SUBSET Devices
           /\ misled => misled'
           /\ paired' = (paired \cap present) \cup {d \in new : \E n \in Slot : at[n] = d}
           /\ ~misled' => \A d \in new : \E n \in Slots(new, at) : at[n] = d
<1>1. new \in SUBSET Devices
  BY DEF Candidates, HidTypes
<1>2. /\ seen' = present /\ match' = Matched(new, at)
      /\ misled' = (misled \/ Misleads(new, at, Unmatched))
      /\ paired' = (paired \cap present) \cup {d \in new : \E n \in Slot : at[n] = d}
  BY DEF Reconciles, Rescans
<1>3. match' \in [Devices -> Slot \cup {NoNumber}]
  BY <1>1, <1>2, MatchedType
<1>4. misled' \in BOOLEAN /\ (misled => misled')
  BY <1>2 DEF PairTypes
<1>5. ASSUME ~misled', NEW d \in new PROVE \E n \in Slots(new, at) : at[n] = d
  <2>1. ~Misleads(new, at, Unmatched)
    BY <1>2, <1>5
  <2>2. PICK n \in Match(d, at, Unmatched) : at[n] = d
    BY <2>1 DEF Misleads
  <2> QED
    BY <2>2 DEF Slots
<1>6. seen' \in SUBSET Devices /\ paired' \in SUBSET Devices
  BY <1>1, <1>2 DEF HidTypes, PairTypes
<1> QED
  BY <1>1, <1>2, <1>3, <1>4, <1>5, <1>6

-----------------------------------------------------------------------------
(* The steps of a stream.                                                   *)

LEMMA SlotsStay == ASSUME SlotInv, UNCHANGED slotVars PROVE SlotInv'
BY DEF slotVars, SlotInv, SlotTypeOK, NumbersAreSlots, UsedInOrder, NumberedIfUsed,
       OneSlotEach, MaskIsSlots, CountIsExact, Connected

LEMMA PadIsTyped == ASSUME SlotInv PROVE pad \in SlotsOfPads
BY DEF SlotInv, SlotTypeOK, SlotsOfPads

\* While the slots stay as they are, so does what is said of the controllers.
LEMMA ConnectedStay ==
    ASSUME UNCHANGED slotVars
    PROVE  pad' = pad /\ Connected' = Connected /\ \A d : Joined(d)' <=> Joined(d)
BY DEF slotVars, Connected, Joined

LEMMA InitKeeps == ASSUME Init PROVE PadInv
<1>1. SlotInv
  BY InitSlots DEF Init
<1>2. MaxFails \in Nat \ {0} /\ Cooldown \in Nat /\ Pads \subseteq Devices
  BY GamepadsAssumption
<1>3. InputTypes /\ HidTypes /\ PairTypes
  BY <1>2 DEF Init, InputTypes, HidTypes, PairTypes, NobodyKnown, Unmatched
<1>4. AutoInv
  BY <1>2 DEF Init, AutoInv, AutoTypes, TriesLeft, PlugOutSettled, PlugOutRespected
<1>5. HostTells /\ NothingYet /\ HostIsCurrent
  BY DEF Init, HostTells, NothingYet, HostIsCurrent, NobodyKnown
<1>6. PairedAreThere /\ BridgedPadsSilent
  BY DEF Init, PairedAreThere, BridgedPadsSilent
<1> QED
  BY <1>1, <1>3, <1>4, <1>5, <1>6 DEF PadInv

LEMMA LaunchesKeeps == ASSUME PadInv, Launches PROVE PadInv'
<1>1. /\ phase = "none" /\ phase' = "connecting" /\ blocked' = blocked
      /\ announced' = {} /\ host' = NobodyKnown /\ leaked' = {} /\ missed' = {}
      /\ excluded' \in SUBSET Slot
      /\ UNCHANGED <<slotVars, hidVars, misled, paired, plugOut>>
  BY DEF Launches, Connected
<1>2. SlotInv'
  BY <1>1, SlotsStay DEF PadInv
<1>3. InputTypes'
  BY <1>1 DEF PadInv, InputTypes, NobodyKnown
<1>4. HidTypes' /\ PairTypes'
  BY <1>1 DEF PadInv, HidTypes, PairTypes, hidVars
<1>5. AutoInv'
  BY <1>1 DEF PadInv, AutoInv, AutoTypes, TriesLeft, PlugOutSettled, PlugOutRespected,
              hidVars, autoVars
<1>6. HostTells' /\ NothingYet' /\ HostIsCurrent'
  BY <1>1 DEF HostTells, NothingYet, HostIsCurrent, NobodyKnown
<1>7. PairedAreThere' /\ BridgedPadsSilent'
  <2>1. paired' = {}
    BY <1>1 DEF PadInv, PairedAreThere
  <2> QED
    BY <1>1, <2>1 DEF PairedAreThere, BridgedPadsSilent
<1> QED
  BY <1>2, <1>3, <1>4, <1>5, <1>6, <1>7 DEF PadInv

\* The slot of who is bridged is among those of its device, if nobody was misled.
LEMMA OwnSlotIsMatched ==
    ASSUME NEW at \in SlotsOfPads, \A i, j \in Slot : at[i] = at[j] /\ at[i] # NoPad => i = j,
           NEW new, \A d \in new : \E m \in Slots(new, at) : at[m] = d,
           Slots(new, at) \subseteq Slot, NEW n \in Slot, at[n] \in new, at[n] # NoPad
    PROVE  n \in Slots(new, at)
<1>1. PICK m \in Slots(new, at) : at[m] = at[n]
  OBVIOUS
<1> QED
  BY <1>1

LEMMA StartsInputKeeps == ASSUME PadInv, StartsInput PROVE PadInv'
<1>1. /\ phase = "connecting" /\ phase' = "started"
      /\ UNCHANGED <<slotVars, blocked, present, pref, missed>>
  BY DEF StartsInput
<1>2. SlotInv' /\ pad \in SlotsOfPads
  BY <1>1, SlotsStay, PadIsTyped DEF PadInv
<1>3. \A n \in Slot : host[n] = NoPad
  BY <1>1 DEF PadInv, NothingYet, HostTells
<1>4. paired = {} /\ pad' = pad /\ Connected' = Connected
  BY <1>1, ConnectedStay DEF PadInv, PairedAreThere
<1>5. Connected = There(pad) /\ Connected \subseteq Slot
  BY DEF Connected, There
<1>6. ASSUME NEW out \in SUBSET Slot, Arrives(Connected, pad, out)
      PROVE  InputTypes' /\ HostTells' /\ NothingYet' /\ HostIsCurrent' /\ excluded' = out
  <2>1. /\ announced' \in SUBSET Slot /\ excluded' = out
        /\ leaked' \in SUBSET Slot /\ host' \in SlotsOfPads
        /\ \A n \in Slot :
              host'[n] = IF n \in Connected \ out /\ host[n] = NoPad THEN pad[n] ELSE host[n]
        /\ HostTells'
    <3>1. InputTypes /\ HostTells /\ Connected \subseteq There(pad)
      BY <1>5 DEF PadInv
    <3> QED
      BY <1>2, <1>6, <3>1, ArrivesTells
  <2>2. InputTypes'
    BY <1>1, <2>1 DEF PadInv, InputTypes, SlotsOfPads
  <2>3. HostIsCurrent'
    BY <1>3, <1>4, <2>1 DEF HostIsCurrent
  <2> QED
    BY <1>1, <2>1, <2>2, <2>3 DEF NothingYet
<1>7. CASE HidPassthrough
  <2>1. PICK new \in SUBSET Candidates :
           Reconciles(new, pad) /\ Arrives(Connected, pad, excluded \cup Slots(new, pad))
    BY <1>7 DEF StartsInput
  <2>2. AutoInv'
    BY <2>1, ReconcilesKeepsAuto DEF PadInv
  <2>3. /\ new \in SUBSET Devices
        /\ seen' \in SUBSET Devices /\ match' \in [Devices -> Slot \cup {NoNumber}]
        /\ misled' \in BOOLEAN /\ paired' \in SUBSET Devices
        /\ paired' = {d \in new : \E n \in Slot : pad[n] = d}
        /\ ~misled' => \A d \in new : \E n \in Slots(new, pad) : pad[n] = d
    BY <1>2, <1>4, <2>1, ReconcilesPairs DEF PadInv
  <2>4. HidTypes' /\ PairTypes'
    BY <1>1, <2>3 DEF PadInv, HidTypes, PairTypes
  <2>5. Slots(new, pad) \subseteq Slot
    BY <1>2, <2>3, SlotsAreSlots
  <2>6. /\ InputTypes' /\ HostTells' /\ NothingYet' /\ HostIsCurrent'
        /\ excluded' = excluded \cup Slots(new, pad)
    BY <1>6, <2>1, <2>5 DEF PadInv, InputTypes
  <2>7. PairedAreThere'
    BY <1>1, <1>4, <2>3 DEF PairedAreThere, Joined
  <2>8. BridgedPadsSilent'
    <3> SUFFICES ASSUME ~misled', NEW n \in Connected, pad[n] \in paired'
                 PROVE  n \in excluded'
      BY <1>4 DEF BridgedPadsSilent
    <3>1. n \in Slot /\ pad[n] # NoPad /\ pad[n] \in new
      BY <2>3 DEF Connected
    <3>2. n \in Slots(new, pad)
      BY <1>2, <2>3, <2>5, <3>1, OwnSlotIsMatched DEF PadInv, SlotInv, OneSlotEach
    <3> QED
      BY <2>6, <3>2
  <2> QED
    BY <1>2, <2>2, <2>4, <2>6, <2>7, <2>8 DEF PadInv
<1>8. CASE ~HidPassthrough
  <2>1. ReconcilesNot /\ Arrives(Connected, pad, excluded)
    BY <1>8 DEF StartsInput
  <2>2. InputTypes' /\ HostTells' /\ NothingYet' /\ HostIsCurrent'
    BY <1>6, <2>1 DEF PadInv, InputTypes
  <2>3. HidTypes' /\ PairTypes'
    BY <1>1, <2>1 DEF PadInv, HidTypes, PairTypes, ReconcilesNot
  <2>4. AutoInv'
    BY <2>1 DEF PadInv, AutoInv, AutoTypes, TriesLeft, PlugOutSettled, PlugOutRespected,
                ReconcilesNot, autoVars
  <2>5. PairedAreThere' /\ BridgedPadsSilent'
    <3>1. paired' = {}
      BY <1>4, <2>1 DEF ReconcilesNot
    <3> QED
      BY <3>1 DEF PairedAreThere, BridgedPadsSilent
  <2> QED
    BY <1>2, <2>2, <2>3, <2>4, <2>5 DEF PadInv
<1> QED
  BY <1>7, <1>8

LEMMA StopsInputKeeps == ASSUME PadInv, StopsInput PROVE PadInv'
<1>1. /\ phase' = "none" /\ blocked' = FALSE
      /\ announced' = {} /\ excluded' = {} /\ leaked' = {} /\ host' = NobodyKnown
      /\ bridged' = {} /\ paired' = {} /\ plugOut' = {}
      /\ auto' = [d \in Devices |-> "none"] /\ fails' = [d \in Devices |-> 0]
      /\ cooldown' = 0
      /\ UNCHANGED <<slotVars, present, seen, match, pref, missed, misled>>
  BY DEF StopsInput
<1>2. SlotInv'
  BY <1>1, SlotsStay DEF PadInv
<1>3. InputTypes'
  BY <1>1 DEF InputTypes, NobodyKnown
<1>4. HidTypes' /\ PairTypes'
  BY <1>1 DEF PadInv, HidTypes, PairTypes
<1>5. MaxFails \in Nat \ {0} /\ Cooldown \in Nat
  BY GamepadsAssumption
<1>6. AutoInv'
  BY <1>1, <1>5 DEF AutoInv, AutoTypes, TriesLeft, PlugOutSettled, PlugOutRespected
<1>7. HostTells' /\ NothingYet' /\ HostIsCurrent'
  BY <1>1 DEF HostTells, NothingYet, HostIsCurrent, NobodyKnown
<1>8. PairedAreThere' /\ BridgedPadsSilent'
  BY <1>1 DEF PairedAreThere, BridgedPadsSilent
<1> QED
  BY <1>2, <1>3, <1>4, <1>6, <1>7, <1>8 DEF PadInv

\* Steps that neither change who is connected, bridged or excluded nor tell the host of
\* comings and goings.
LEMMA QuietSteps ==
    ASSUME PadInv,
           UNCHANGED <<slotVars, phase, announced, excluded, host, bridged, autoVars, histVars>>,
           blocked' \in BOOLEAN, leaked' \in SUBSET Slot, HidTypes'
    PROVE  PadInv'
<1>1. /\ phase' = phase /\ announced' = announced /\ excluded' = excluded /\ host' = host
      /\ bridged' = bridged /\ auto' = auto /\ fails' = fails /\ cooldown' = cooldown
      /\ missed' = missed /\ misled' = misled /\ paired' = paired /\ plugOut' = plugOut
      /\ pad' = pad /\ Connected' = Connected
      /\ UNCHANGED slotVars
  BY ConnectedStay DEF autoVars, histVars
<1>2. SlotInv'
  BY <1>1, SlotsStay DEF PadInv
<1>3. InputTypes'
  BY <1>1 DEF PadInv, InputTypes
<1>4. PairTypes'
  BY <1>1 DEF PadInv, PairTypes
<1>5. AutoInv'
  BY <1>1 DEF PadInv, AutoInv, AutoTypes, TriesLeft, PlugOutSettled, PlugOutRespected
<1>6. HostTells' /\ NothingYet' /\ HostIsCurrent'
  BY <1>1 DEF PadInv, HostTells, NothingYet, HostIsCurrent
<1>7. PairedAreThere' /\ BridgedPadsSilent'
  BY <1>1 DEF PadInv, PairedAreThere, BridgedPadsSilent, Joined
<1> QED
  BY <1>2, <1>3, <1>4, <1>5, <1>6, <1>7 DEF PadInv

LEMMA QuietActionsKeep ==
    ASSUME PadInv,
           \/ TogglesOverlay \/ PanelRefreshes \/ UNCHANGED vars
           \/ \E n \in Slot : SendsState(n)
           \/ \E d \in Devices : DeviceComes(d) \/ DeviceGoes(d) \/ PanelTogglesAuto(d)
    PROVE  PadInv'
<1>1. CASE TogglesOverlay
  <2>1. /\ UNCHANGED <<slotVars, phase, announced, excluded, host, bridged, autoVars, histVars>>
        /\ UNCHANGED <<present, seen, pref, match, leaked>> /\ blocked' \in BOOLEAN
    BY <1>1 DEF TogglesOverlay, hidVars
  <2> QED
    BY <2>1, QuietSteps DEF PadInv, HidTypes, InputTypes
<1>2. CASE PanelRefreshes
  <2>1. /\ UNCHANGED <<slotVars, phase, announced, excluded, host, bridged, autoVars, histVars>>
        /\ UNCHANGED <<present, pref, blocked, leaked>>
        /\ seen' = present /\ match' = Unmatched
    BY <1>2 DEF PanelRefreshes, Rescans, inputVars
  <2> QED
    BY <2>1, QuietSteps, UnmatchedType DEF PadInv, HidTypes, InputTypes
<1>3. CASE UNCHANGED vars
  <2>1. /\ UNCHANGED <<slotVars, phase, announced, excluded, host, bridged, autoVars, histVars>>
        /\ UNCHANGED <<present, seen, pref, match, blocked, leaked>>
    BY <1>3 DEF vars, inputVars, hidVars
  <2> QED
    BY <2>1, QuietSteps DEF PadInv, HidTypes, InputTypes
<1>4. ASSUME NEW n \in Slot, SendsState(n) PROVE PadInv'
  <2>1. /\ UNCHANGED <<slotVars, phase, announced, excluded, host, bridged, autoVars, histVars>>
        /\ UNCHANGED <<present, seen, pref, match, blocked>>
        /\ leaked' = activeMask \cap excluded
    BY <1>4 DEF SendsState, hidVars
  <2> QED
    BY <2>1, QuietSteps DEF PadInv, HidTypes, InputTypes
<1>5. ASSUME NEW d \in Devices, DeviceComes(d) \/ DeviceGoes(d) PROVE PadInv'
  <2>1. /\ UNCHANGED <<slotVars, phase, announced, excluded, host, bridged, autoVars, histVars>>
        /\ UNCHANGED <<seen, pref, match, blocked, leaked>>
        /\ present' \in {present \cup {d}, present \ {d}}
    BY <1>5 DEF DeviceComes, DeviceGoes, inputVars
  <2> QED
    BY <2>1, QuietSteps DEF PadInv, HidTypes, InputTypes
<1>6. ASSUME NEW d \in Devices, PanelTogglesAuto(d) PROVE PadInv'
  <2>1. /\ UNCHANGED <<slotVars, phase, announced, excluded, host, bridged, autoVars, histVars>>
        /\ UNCHANGED <<present, seen, match, blocked, leaked>>
        /\ pref' = (pref \ {d}) \cup ({d} \ pref)
    BY <1>6 DEF PanelTogglesAuto, inputVars
  <2> QED
    BY <2>1, QuietSteps DEF PadInv, HidTypes, InputTypes
<1> QED
  BY <1>1, <1>2, <1>3, <1>4, <1>5, <1>6

LEMMA PollsKeeps == ASSUME PadInv, Polls PROVE PadInv'
<1>1. /\ phase = "started" /\ UNCHANGED <<slotVars, phase, blocked, present, pref, missed>>
      /\ \E new \in SUBSET Candidates : Reconciles(new, pad) /\ Excludes(Slots(new, pad))
  BY DEF Polls, Managed
<1>2. SlotInv' /\ pad \in SlotsOfPads /\ pad' = pad /\ Connected' = Connected
      /\ \A d : Joined(d)' <=> Joined(d)
  BY <1>1, SlotsStay, PadIsTyped, ConnectedStay DEF PadInv
<1>3. PICK new \in SUBSET Candidates : Reconciles(new, pad) /\ Excludes(Slots(new, pad))
  BY <1>1
<1>4. AutoInv'
  BY <1>3, ReconcilesKeepsAuto DEF PadInv
<1>5. /\ new \in SUBSET Devices
      /\ seen' \in SUBSET Devices /\ match' \in [Devices -> Slot \cup {NoNumber}]
      /\ misled' \in BOOLEAN /\ paired' \in SUBSET Devices
      /\ misled => misled'
      /\ paired' = (paired \cap present) \cup {d \in new : \E n \in Slot : pad[n] = d}
      /\ ~misled' => \A d \in new : \E n \in Slots(new, pad) : pad[n] = d
  BY <1>2, <1>3, ReconcilesPairs DEF PadInv
<1>6. Slots(new, pad) \in SUBSET Slot
  BY <1>2, <1>5, SlotsAreSlots
<1>7. /\ announced' \in SUBSET Slot /\ excluded' = excluded \cup Slots(new, pad)
      /\ leaked' \in SUBSET Slot /\ host' \in SlotsOfPads
      /\ \A n \in Slot : host'[n] = IF n \in Slots(new, pad) THEN NoPad ELSE host[n]
      /\ HostTells'
  BY <1>1, <1>3, <1>6, ExcludesTells DEF PadInv
<1>8. InputTypes'
  BY <1>1, <1>6, <1>7 DEF PadInv, InputTypes, SlotsOfPads
<1>9. HidTypes' /\ PairTypes'
  BY <1>1, <1>5 DEF PadInv, HidTypes, PairTypes
<1>10. NothingYet' /\ HostIsCurrent'
  BY <1>1, <1>2, <1>7 DEF PadInv, NothingYet, HostIsCurrent
<1>11. PairedAreThere'
  BY <1>1, <1>2, <1>5 DEF PadInv, PairedAreThere, Joined
<1>12. BridgedPadsSilent'
  <2> SUFFICES ASSUME ~misled', NEW n \in Connected, pad[n] \in paired'
               PROVE  n \in excluded'
    BY <1>2 DEF BridgedPadsSilent
  <2>1. n \in Slot /\ pad[n] # NoPad
    BY DEF Connected
  <2>2. CASE pad[n] \in paired
    BY <1>1, <1>5, <1>7, <2>2 DEF PadInv, BridgedPadsSilent
  <2>3. CASE pad[n] \in new
    <3>1. n \in Slots(new, pad)
      BY <1>2, <1>5, <1>6, <2>1, <2>3, OwnSlotIsMatched DEF PadInv, SlotInv, OneSlotEach
    <3> QED
      BY <1>7, <3>1
  <2> QED
    BY <1>5, <2>2, <2>3
<1> QED
  BY <1>2, <1>4, <1>7, <1>8, <1>9, <1>10, <1>11, <1>12 DEF PadInv

\* A controller that comes takes a slot that was free, and is found in it.
LEMMA AddPadTakes ==
    ASSUME SlotInv, NEW p \in Pads, AddPad(p)
    PROVE  \E i \in Slot : /\ pad[i] = NoPad /\ pad' = [pad EXCEPT ![i] = p]
                           /\ (CHOOSE j \in Slot : pad'[j] = p) = i
<1> DEFINE i == NewIndex(p)
<1>1. /\ ~Joined(p) /\ count < MaxPads /\ pad' = [pad EXCEPT ![i] = p]
  BY DEF AddPad
<1>2. i \in Slot \ Connected
  BY <1>1, AddPadPicks
<1> HIDE DEF i
<1>3. \A j \in Slot : pad'[j] = p <=> j = i
  BY <1>1, <1>2 DEF SlotInv, SlotTypeOK, Joined
<1>4. (CHOOSE j \in Slot : pad'[j] = p) = i
  BY <1>2, <1>3
<1> QED
  BY <1>1, <1>2, <1>4 DEF Connected

LEMMA PadAddedKeeps ==
    ASSUME PadInv, NEW p \in Pads, PadAdded(p)
    PROVE  PadInv'
<1>1. AddPad(p) /\ UNCHANGED <<phase, blocked, present, pref>>
  BY DEF PadAdded
<1>2. PICK i \in Slot : /\ pad[i] = NoPad /\ pad' = [pad EXCEPT ![i] = p]
                        /\ (CHOOSE j \in Slot : pad'[j] = p) = i
  BY <1>1, AddPadTakes DEF PadInv
<1>3. SlotInv' /\ pad \in SlotsOfPads /\ ~Joined(p) /\ p # NoPad
  BY <1>1, AddPadKeeps, PadIsTyped, SlotAssumption DEF PadInv, AddPad
<1>4. /\ pad' \in SlotsOfPads /\ pad'[i] = p
      /\ \A n \in Slot \ {i} : pad'[n] = pad[n]
      /\ \A n : n \in Connected' <=> n \in Connected \/ n = i
      /\ \A n : n \in Connected => n \in Slot /\ n # i /\ pad[n] # NoPad /\ pad[n] # p
  BY <1>2, <1>3 DEF SlotsOfPads, Connected, Joined
<1>5. \A d \in paired : Joined(d)'
  <2> SUFFICES ASSUME NEW d \in paired PROVE Joined(d)'
    OBVIOUS
  <2>1. d # NoPad
    BY GamepadsAssumption DEF PadInv, PairTypes
  <2>2. PICK n \in Slot : pad[n] = d
    BY DEF PadInv, PairedAreThere, Joined
  <2> QED
    BY <1>2, <1>4, <2>1, <2>2 DEF Joined
<1>6. CASE Accepts /\ p \in pref /\ Managed
  <2>1. /\ phase = "started"
        /\ \E new \in SUBSET Candidates : Reconciles(new, pad') /\ Excludes(Slots(new, pad'))
        /\ missed' = IF i \in excluded' THEN missed ELSE missed \cup {i}
    BY <1>2, <1>6 DEF PadAdded, Managed
  <2>2. PICK new \in SUBSET Candidates : Reconciles(new, pad') /\ Excludes(Slots(new, pad'))
    BY <2>1
  <2>3. AutoInv'
    BY <2>2, ReconcilesKeepsAuto DEF PadInv
  <2>4. /\ new \in SUBSET Devices
        /\ seen' \in SUBSET Devices /\ match' \in [Devices -> Slot \cup {NoNumber}]
        /\ misled' \in BOOLEAN /\ paired' \in SUBSET Devices
        /\ misled => misled'
        /\ paired' = (paired \cap present) \cup {d \in new : \E n \in Slot : pad'[n] = d}
        /\ ~misled' => \A d \in new : \E n \in Slots(new, pad') : pad'[n] = d
    BY <1>4, <2>2, ReconcilesPairs DEF PadInv
  <2>5. Slots(new, pad') \in SUBSET Slot
    BY <1>4, <2>4, SlotsAreSlots
  <2>6. /\ announced' \in SUBSET Slot /\ excluded' = excluded \cup Slots(new, pad')
        /\ leaked' \in SUBSET Slot /\ host' \in SlotsOfPads
        /\ \A n \in Slot : host'[n] = IF n \in Slots(new, pad') THEN NoPad ELSE host[n]
        /\ HostTells'
    BY <2>1, <2>2, <2>5, ExcludesTells DEF PadInv
  <2>7. InputTypes'
    BY <1>1, <2>5, <2>6 DEF PadInv, InputTypes, SlotsOfPads
  <2>8. HidTypes' /\ PairTypes'
    BY <1>1, <2>1, <2>4 DEF PadInv, HidTypes, PairTypes
  <2>9. NothingYet' /\ HostIsCurrent'
    <3>1. \A n \in Slot \ missed : host[n] = IF n \in Connected \ excluded THEN pad[n] ELSE NoPad
      BY <2>1 DEF PadInv, HostIsCurrent
    <3>2. \A n \in Slot \ missed' :
             host'[n] = IF n \in Connected' \ excluded' THEN pad'[n] ELSE NoPad
      BY <1>4, <2>1, <2>6, <3>1
    <3> QED
      BY <1>1, <2>1, <3>2 DEF NothingYet, HostIsCurrent
  <2>10. PairedAreThere'
    BY <1>1, <1>5, <2>1, <2>4 DEF PadInv, PairedAreThere, Joined
  <2>11. BridgedPadsSilent'
    <3> SUFFICES ASSUME ~misled', NEW n \in Connected', pad'[n] \in paired'
                 PROVE  n \in excluded'
      BY DEF BridgedPadsSilent
    <3>1. n \in Slot /\ pad'[n] # NoPad
      BY DEF Connected
    <3>2. CASE pad'[n] \in paired
      <4>1. pad'[n] # p
        BY <1>3, <3>2 DEF PadInv, PairedAreThere
      <4>2. n \in Connected /\ pad[n] \in paired
        BY <1>4, <3>1, <3>2, <4>1
      <4> QED
        BY <2>1, <2>4, <2>6, <4>2 DEF PadInv, BridgedPadsSilent
    <3>3. CASE pad'[n] \in new
      <4>1. \A k, j \in Slot : pad'[k] = pad'[j] /\ pad'[k] # NoPad => k = j
        BY <1>3 DEF SlotInv, OneSlotEach
      <4>2. n \in Slots(new, pad')
        BY <1>4, <2>4, <2>5, <3>1, <3>3, <4>1, OwnSlotIsMatched
      <4> QED
        BY <2>6, <4>2
    <3> QED
      BY <2>4, <3>2, <3>3
  <2> QED
    BY <1>3, <2>3, <2>6, <2>7, <2>8, <2>9, <2>10, <2>11 DEF PadInv
<1>7. CASE ~(Accepts /\ p \in pref /\ Managed)
  <2>1. /\ ReconcilesNot
        /\ \/ /\ UNCHANGED <<announced, excluded, leaked, host>>
              /\ \/ missed' = missed \cup {i}
                 \/ missed' = missed /\ (phase # "started" \/ i \in excluded)
           \/ /\ phase = "started" /\ Arrives({i}, pad', excluded) /\ missed' = missed
    BY <1>2, <1>7 DEF PadAdded, Accepts
  <2>2. AutoInv'
    BY <2>1 DEF PadInv, AutoInv, AutoTypes, TriesLeft, PlugOutSettled, PlugOutRespected,
                ReconcilesNot, autoVars
  <2>3. HidTypes' /\ PairTypes'
    BY <1>1, <1>2, <2>1 DEF PadInv, HidTypes, PairTypes, ReconcilesNot
  <2>4. /\ announced' \in SUBSET Slot /\ excluded' = excluded
        /\ leaked' \in SUBSET Slot /\ host' \in SlotsOfPads
        /\ \A n \in Slot : n # i => host'[n] = host[n]
        /\ HostTells'
        /\ phase # "started" => announced' = announced
        /\ missed' = missed /\ i \notin missed /\ phase = "started" =>
              host'[i] = IF i \notin excluded /\ host[i] = NoPad THEN p ELSE host[i]
    <3>1. CASE /\ UNCHANGED <<announced, excluded, leaked, host>>
               /\ \/ missed' = missed \cup {i}
                  \/ missed' = missed /\ (phase # "started" \/ i \in excluded)
      <4>1. HostTells' /\ announced' \in SUBSET Slot /\ leaked' \in SUBSET Slot
            /\ host' \in SlotsOfPads
        BY <3>1 DEF PadInv, InputTypes, HostTells, SlotsOfPads
      <4>2. missed' = missed /\ phase = "started" /\ i \notin missed => i \in excluded
        BY <3>1
      <4> QED
        BY <3>1, <4>1, <4>2
    <3>2. CASE phase = "started" /\ Arrives({i}, pad', excluded)
      <4>1. {i} \subseteq There(pad') /\ excluded \in SUBSET Slot /\ InputTypes /\ HostTells
        BY <1>3, <1>4 DEF There, PadInv, InputTypes
      <4>2. /\ announced' \in SUBSET Slot /\ excluded' = excluded
            /\ leaked' \in SUBSET Slot /\ host' \in SlotsOfPads
            /\ \A n \in Slot :
                  host'[n] = IF n \in {i} \ excluded /\ host[n] = NoPad THEN pad'[n] ELSE host[n]
            /\ HostTells'
        BY <1>4, <3>2, <4>1, ArrivesTells
      <4> QED
        BY <1>4, <3>2, <4>2
    <3> QED
      BY <2>1, <3>1, <3>2
  <2>5. InputTypes'
    BY <1>1, <2>4 DEF PadInv, InputTypes, SlotsOfPads
  <2>6. NothingYet' /\ HostIsCurrent'
    <3>1. NothingYet'
      BY <1>1, <2>4 DEF PadInv, NothingYet
    <3>2. SUFFICES ASSUME phase = "started", NEW n \in Slot \ missed'
                   PROVE  host'[n] = IF n \in Connected' \ excluded' THEN pad'[n] ELSE NoPad
      BY <1>1, <3>1 DEF HostIsCurrent
    <3>3. n \notin missed /\ host[n] = IF n \in Connected \ excluded THEN pad[n] ELSE NoPad
      BY <2>1, <3>2 DEF PadInv, HostIsCurrent
    <3>4. CASE n = i
      <4>1. host[n] = NoPad
        BY <1>4, <3>3, <3>4
      <4>2. missed' = missed
        BY <2>1, <3>2, <3>4
      <4> QED
        BY <1>4, <2>4, <3>2, <3>4, <4>1, <4>2
    <3>5. CASE n # i
      BY <1>4, <2>4, <3>3, <3>5
    <3> QED
      BY <3>4, <3>5
  <2>7. PairedAreThere'
    BY <1>1, <1>5, <2>1 DEF PadInv, PairedAreThere, ReconcilesNot
  <2>8. BridgedPadsSilent'
    <3> SUFFICES ASSUME phase' = "started", ~misled', NEW n \in Connected', pad'[n] \in paired'
                 PROVE  n \in excluded'
      BY DEF BridgedPadsSilent
    <3>1. paired' = paired /\ misled' = misled
      BY <2>1 DEF ReconcilesNot
    <3>2. n \in Connected /\ pad[n] \in paired
      BY <1>3, <1>4, <3>1 DEF PadInv, PairedAreThere
    <3> QED
      BY <1>1, <2>4, <3>1, <3>2 DEF PadInv, BridgedPadsSilent
  <2> QED
    BY <1>3, <2>2, <2>3, <2>4, <2>5, <2>6, <2>7, <2>8 DEF PadInv
<1> QED
  BY <1>6, <1>7

LEMMA PadRemovedKeeps ==
    ASSUME PadInv, NEW p \in Pads, PadRemoved(p)
    PROVE  PadInv'
<1> DEFINE i == SlotOf(p)
<1>1. /\ ClosePad(p) /\ Joined(p) /\ pad' = [pad EXCEPT ![i] = NoPad]
      /\ SaysGoodbye(i) \/ SaysNothing(i)
      /\ paired' = paired \ {p}
      /\ UNCHANGED <<phase, blocked, excluded, hidVars, misled, plugOut>>
  BY DEF PadRemoved, ClosePad
<1>2. SlotInv' /\ pad \in SlotsOfPads /\ p # NoPad
  BY <1>1, ClosePadKeeps, PadIsTyped, SlotAssumption DEF PadInv
<1>3. i \in Slot /\ pad[i] = p
  BY <1>1, SlotOfJoined
<1> HIDE DEF i
<1>4. /\ pad'[i] = NoPad /\ \A n \in Slot \ {i} : pad'[n] = pad[n]
      /\ \A n : n \in Connected' <=> n \in Connected /\ n # i
  BY <1>1, <1>2, <1>3 DEF SlotsOfPads, Connected
<1>5. /\ announced' = announced \ {i} \/ announced' = announced
      /\ leaked' \in {leaked, {}}
      /\ host' \in SlotsOfPads /\ \A n \in Slot : n # i => host'[n] = host[n]
      /\ missed' \in {missed, missed \cup {i}}
      /\ HostTells'
      /\ i \notin missed' => host'[i] = NoPad
  <2>1. host \in SlotsOfPads /\ announced \in SUBSET Slot /\ HostTells
    BY DEF PadInv, InputTypes, SlotsOfPads
  <2>2. CASE SaysGoodbye(i)
    BY <1>3, <2>1, <2>2 DEF SaysGoodbye, HostTells, SlotsOfPads
  <2>3. CASE SaysNothing(i)
    <3>1. /\ announced' = announced /\ host' = host /\ leaked' = leaked
          /\ missed' = IF i \in announced THEN missed \cup {i} ELSE missed
      BY <2>3 DEF SaysNothing
    <3>2. i \notin missed' => host'[i] = NoPad
      BY <1>3, <2>1, <3>1 DEF HostTells
    <3> QED
      BY <2>1, <3>1, <3>2 DEF HostTells
  <2> QED
    BY <1>1, <2>2, <2>3
<1>6. InputTypes'
  BY <1>1, <1>5 DEF PadInv, InputTypes, SlotsOfPads
<1>7. HidTypes' /\ PairTypes'
  BY <1>1, <1>3, <1>5 DEF PadInv, HidTypes, PairTypes, hidVars
<1>8. AutoInv'
  BY <1>1 DEF PadInv, AutoInv, AutoTypes, TriesLeft, PlugOutSettled, PlugOutRespected,
              hidVars, autoVars
<1>9. NothingYet' /\ HostIsCurrent'
  <2>1. NothingYet'
    BY <1>1, <1>5 DEF PadInv, NothingYet
  <2>2. SUFFICES ASSUME phase = "started", NEW n \in Slot \ missed'
                 PROVE  host'[n] = IF n \in Connected' \ excluded' THEN pad'[n] ELSE NoPad
    BY <1>1, <2>1 DEF HostIsCurrent
  <2>3. CASE n = i
    BY <1>4, <1>5, <2>2, <2>3
  <2>4. CASE n # i
    <3>1. host[n] = IF n \in Connected \ excluded THEN pad[n] ELSE NoPad
      BY <1>5, <2>2 DEF PadInv, HostIsCurrent
    <3> QED
      BY <1>1, <1>4, <1>5, <2>2, <2>4, <3>1
  <2> QED
    BY <2>3, <2>4
<1>10. PairedAreThere'
  <2>1. ASSUME NEW d \in paired' PROVE Joined(d)'
    <3>1. PICK n \in Slot : pad[n] = d
      BY <1>1, <2>1 DEF PadInv, PairedAreThere, Joined
    <3> QED
      BY <1>1, <1>3, <1>4, <2>1, <3>1 DEF Joined
  <2>2. phase' # "started" => paired' = {}
    BY <1>1 DEF PadInv, PairedAreThere
  <2> QED
    BY <2>1, <2>2 DEF PairedAreThere
<1>11. BridgedPadsSilent'
  <2> SUFFICES ASSUME phase' = "started", ~misled', NEW n \in Connected', pad'[n] \in paired'
               PROVE  n \in excluded'
    BY DEF BridgedPadsSilent
  <2>1. n \in Connected /\ pad'[n] = pad[n]
    BY <1>4 DEF Connected
  <2> QED
    BY <1>1, <2>1 DEF PadInv, BridgedPadsSilent
<1> QED
  BY <1>2, <1>5, <1>6, <1>7, <1>8, <1>9, <1>10, <1>11 DEF PadInv

LEMMA PanelPlugsKeeps ==
    ASSUME PadInv, NEW d \in Devices, PanelPlugs(d)
    PROVE  PadInv'
<1> DEFINE ns == Match(d, pad, match)
<1>1. /\ phase = "started"
      /\ bridged' = bridged \cup {d} /\ plugOut' = plugOut \ {d}
      /\ Excludes(ns)
      /\ match' = [match EXCEPT ![d] = IF ns = {} THEN NoNumber ELSE Least(ns)]
      /\ auto' = [auto EXCEPT ![d] = "done"] /\ fails' = [fails EXCEPT ![d] = 0]
      /\ misled' = (misled \/ Misleads({d}, pad, match))
      /\ paired' = IF Joined(d) THEN paired \cup {d} ELSE paired
      /\ UNCHANGED <<slotVars, phase, blocked, present, seen, cooldown, pref, missed>>
  BY DEF PanelPlugs, InPanel, Managed
<1>2. SlotInv' /\ pad \in SlotsOfPads /\ pad' = pad /\ Connected' = Connected
  BY <1>1, SlotsStay, PadIsTyped, ConnectedStay DEF PadInv
<1>3. match \in [Devices -> Slot \cup {NoNumber}]
  BY DEF PadInv, HidTypes
<1>4. ns \in SUBSET Slot /\ (ns # {} => Least(ns) \in Slot)
  BY <1>2, <1>3, MatchIsASlot, LeastMatch DEF There
<1>5. ~Misleads({d}, pad, match) => \E n \in ns : pad[n] = d
  BY DEF Misleads
<1> HIDE DEF ns
<1>6. /\ announced' \in SUBSET Slot /\ excluded' = excluded \cup ns
      /\ leaked' \in SUBSET Slot /\ host' \in SlotsOfPads
      /\ \A n \in Slot : host'[n] = IF n \in ns THEN NoPad ELSE host[n]
      /\ HostTells'
  BY <1>1, <1>4, ExcludesTells DEF PadInv
<1>7. InputTypes'
  BY <1>1, <1>4, <1>6 DEF PadInv, InputTypes, SlotsOfPads
<1>8. HidTypes'
  BY <1>1, <1>3, <1>4 DEF PadInv, HidTypes
<1>9. PairTypes'
  BY <1>1 DEF PadInv, PairTypes
<1>10. AutoInv'
  <2>1. MaxFails \in Nat \ {0} /\ 0 \in 0..MaxFails
    BY GamepadsAssumption
  <2>2. AutoTypes' /\ TriesLeft'
    BY <1>1, <2>1 DEF PadInv, AutoInv, AutoTypes, TriesLeft
  <2>3. PlugOutSettled' /\ PlugOutRespected'
    BY <1>1 DEF PadInv, AutoInv, AutoTypes, PlugOutSettled, PlugOutRespected
  <2> QED
    BY <2>2, <2>3 DEF AutoInv
<1>11. NothingYet' /\ HostIsCurrent'
  BY <1>1, <1>2, <1>6 DEF PadInv, NothingYet, HostIsCurrent
<1>12. PairedAreThere'
  BY <1>1, <1>2 DEF PadInv, PairedAreThere, Joined
<1>13. BridgedPadsSilent'
  <2> SUFFICES ASSUME ~misled', NEW n \in Connected, pad[n] \in paired'
               PROVE  n \in excluded'
    BY <1>2 DEF BridgedPadsSilent
  <2>1. n \in Slot /\ pad[n] # NoPad
    BY DEF Connected
  <2>2. CASE pad[n] \in paired
    BY <1>1, <1>6, <2>2 DEF PadInv, BridgedPadsSilent
  <2>3. CASE pad[n] = d
    <3>1. PICK m \in ns : pad[m] = d
      BY <1>1, <1>5
    <3>2. m = n
      BY <1>4, <2>1, <2>3, <3>1 DEF PadInv, SlotInv, OneSlotEach
    <3> QED
      BY <1>6, <3>1, <3>2
  <2> QED
    BY <1>1, <2>2, <2>3
<1> QED
  BY <1>2, <1>6, <1>7, <1>8, <1>9, <1>10, <1>11, <1>12, <1>13 DEF PadInv

LEMMA PanelUnplugsKeeps ==
    ASSUME PadInv, NEW d \in Devices, PanelUnplugs(d)
    PROVE  PadInv'
<1> DEFINE ns == Match(d, pad, match)
<1>1. /\ phase = "started"
      /\ bridged' = bridged \ {d} /\ plugOut' = plugOut \cup {d}
      /\ Arrives(ns, pad, excluded \ ns)
      /\ match' = [match EXCEPT ![d] = IF ns = {} THEN NoNumber ELSE Least(ns)]
      /\ auto' = [auto EXCEPT ![d] = "done"] /\ fails' = [fails EXCEPT ![d] = 0]
      /\ misled' = (misled \/ Misleads({d}, pad, match))
      /\ paired' = paired \ {d}
      /\ UNCHANGED <<slotVars, phase, blocked, present, seen, cooldown, pref, missed>>
  BY DEF PanelUnplugs, InPanel, Managed
<1>2. SlotInv' /\ pad \in SlotsOfPads /\ pad' = pad /\ Connected' = Connected
  BY <1>1, SlotsStay, PadIsTyped, ConnectedStay DEF PadInv
<1>3. match \in [Devices -> Slot \cup {NoNumber}] /\ excluded \in SUBSET Slot
  BY DEF PadInv, HidTypes, InputTypes
<1>4. /\ ns \subseteq There(pad) /\ ns \in SUBSET Slot /\ (ns # {} => Least(ns) \in Slot)
      /\ \A m, n \in ns : m = n
  BY <1>2, <1>3, MatchIsASlot, LeastMatch DEF There
<1>5. ~Misleads({d}, pad, match) => \E n \in ns : pad[n] = d
  BY DEF Misleads
<1> HIDE DEF ns
<1>6. /\ announced' \in SUBSET Slot /\ excluded' = excluded \ ns
      /\ leaked' \in SUBSET Slot /\ host' \in SlotsOfPads
      /\ \A n \in Slot :
            host'[n] = IF n \in ns \ (excluded \ ns) /\ host[n] = NoPad THEN pad[n] ELSE host[n]
      /\ HostTells'
  <2>1. InputTypes /\ HostTells /\ excluded \ ns \in SUBSET Slot
    BY <1>3 DEF PadInv
  <2> QED
    BY <1>1, <1>2, <1>4, <2>1, ArrivesTells
<1>7. InputTypes'
  BY <1>1, <1>3, <1>6 DEF PadInv, InputTypes, SlotsOfPads
<1>8. HidTypes'
  BY <1>1, <1>3, <1>4 DEF PadInv, HidTypes
<1>9. PairTypes'
  BY <1>1 DEF PadInv, PairTypes
<1>10. AutoInv'
  <2>1. MaxFails \in Nat \ {0} /\ 0 \in 0..MaxFails
    BY GamepadsAssumption
  <2>2. AutoTypes' /\ TriesLeft'
    BY <1>1, <2>1 DEF PadInv, AutoInv, AutoTypes, TriesLeft
  <2>3. PlugOutSettled' /\ PlugOutRespected'
    BY <1>1 DEF PadInv, AutoInv, AutoTypes, PlugOutSettled, PlugOutRespected
  <2> QED
    BY <2>2, <2>3 DEF AutoInv
<1>11. NothingYet' /\ HostIsCurrent'
  <2>1. \A n \in Slot \ missed : host[n] = IF n \in Connected \ excluded THEN pad[n] ELSE NoPad
    BY <1>1 DEF PadInv, HostIsCurrent
  <2>2. \A n \in ns : n \in Connected
    BY <1>4 DEF There, Connected
  <2>3. \A n \in Connected : pad[n] # NoPad
    BY DEF Connected
  <2>4. \A n \in Slot \ missed :
           host'[n] = IF n \in Connected \ excluded' THEN pad[n] ELSE NoPad
    BY <1>6, <2>1, <2>2, <2>3
  <2> QED
    BY <1>1, <1>2, <2>4 DEF NothingYet, HostIsCurrent
<1>12. PairedAreThere'
  BY <1>1, <1>2 DEF PadInv, PairedAreThere, Joined
<1>13. BridgedPadsSilent'
  <2> SUFFICES ASSUME ~misled', NEW n \in Connected, pad[n] \in paired'
               PROVE  n \in excluded'
    BY <1>2 DEF BridgedPadsSilent
  <2>1. pad[n] # d /\ n \in excluded
    BY <1>1 DEF PadInv, BridgedPadsSilent
  <2>2. n \notin ns
    BY <1>1, <1>4, <1>5, <2>1
  <2> QED
    BY <1>6, <2>1, <2>2
<1> QED
  BY <1>2, <1>6, <1>7, <1>8, <1>9, <1>10, <1>11, <1>12, <1>13 DEF PadInv

-----------------------------------------------------------------------------
(* The theorems about a stream.                                             *)

\* The inductive invariant of the controllers holds in every behaviour: what the session
\* and the manager know of them, over every order of SDL's events, scans and clicks.
THEOREM GamepadsInvariance == Spec => []PadInv
<1>1. ASSUME PadInv, [Next]_vars PROVE PadInv'
  <2>1. CASE SessionStep
    BY <1>1, <2>1, LaunchesKeeps, StartsInputKeeps, StopsInputKeeps, QuietActionsKeep
    DEF SessionStep
  <2>2. CASE DeviceStep
    BY <1>1, <2>2, PadAddedKeeps, PadRemovedKeeps, QuietActionsKeep DEF DeviceStep
  <2>3. CASE PanelStep
    BY <1>1, <2>3, PanelPlugsKeeps, PanelUnplugsKeeps, QuietActionsKeep DEF PanelStep
  <2>4. CASE Polls
    BY <1>1, <2>4, PollsKeeps
  <2>5. CASE UNCHANGED vars
    BY <1>1, <2>5, QuietActionsKeep
  <2> QED
    BY <1>1, <2>1, <2>2, <2>3, <2>4, <2>5 DEF Next
<1> QED
  BY <1>1, InitKeeps, PTL DEF Spec

\* The host knows the controllers that are connected and not bridged, each by the number it
\* has now, over the reuse of slots and the hand-over between Moonlight and the agent; and
\* there is a number for the next.
THEOREM HostStaysCurrent == Spec => []GamepadsInOrder
<1>1. ASSUME PadInv PROVE GamepadsInOrder
  <2>1. NumbersSuffice
    BY <1>1, SomeSlotIsFree DEF PadInv, SlotInv, NumbersSuffice, MaskIsSlots
  <2>2. GamepadsTypeOK
    BY <1>1 DEF PadInv, SlotInv, InputTypes, HidTypes, PairTypes, AutoInv, AutoTypes,
                GamepadsTypeOK
  <2> QED
    BY <1>1, <2>1, <2>2 DEF PadInv, GamepadsInOrder
<1> QED
  BY <1>1, GamepadsInvariance, PTL

\* A controller that was connected when it was bridged is not heard twice by the host, as
\* long as no device was matched with the slot of another.
THEOREM BridgedStaySilent == Spec => []BridgedPadsSilent
<1>1. PadInv => BridgedPadsSilent
  BY DEF PadInv
<1> QED
  BY <1>1, GamepadsInvariance, PTL

\* What the user plugged out stays out until it has left, whatever the poll tries.
THEOREM PluggedOutStaysOut == Spec => []PlugOutRespected
<1>1. PadInv => PlugOutRespected
  BY DEF PadInv, AutoInv
<1> QED
  BY <1>1, GamepadsInvariance, PTL

\* During streams too, with every reuse of slots, rumble reaches the controller meant.
THEOREM RumbleFindsPadsInStreams == Spec => []RumbleFindsItsPad
<1>1. PadInv => RumbleFindsItsPad
  BY DEF PadInv, SlotInv, RumbleFindsItsPad, RumbleTarget, Connected, NumberedIfUsed,
         NumbersAreSlots
<1> QED
  BY <1>1, GamepadsInvariance, PTL

=============================================================================
