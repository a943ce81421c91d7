---------------------------- MODULE CtmLinkProofs ----------------------------
(***************************************************************************)
(* Theorems about module CtmLink, for every set of device families and of  *)
(* transports. The inductive invariant ties what the other threads have to *)
(* where the session thread is, and counts the bytes in the wake pipe.     *)
(***************************************************************************)
EXTENDS CtmLink, TLAPS

\* Where the session thread is while it holds a connection, and while each of the
\* threads it started may still be there.
WithLink ==
    {"connected", "greeting", "handshake", "receiving", "starting", "active", "ending",
     "releasing"} \cup Joining
WithFeeder == {"active", "ending", "joining_feeder"}
WithInput == WithFeeder \cup {"joining_input"}
WithSibling == WithInput \cup {"joining_sibling"}

\* The session thread lives from plug in to the join of plug out.
SessionLives == plug = "none" <=> session = "none"

\* Plugging out, the main thread has asked the session thread to stop.
AskedToStop == plug \in {"shutting", "waking", "joining"} => stop

DeviceOpen == session \notin {"none", "opening", "ended"} => hid

LinkHeld == session \in WithLink => xport # "none"

ReadersJoined ==
    /\ feeder # "none" => session \in WithFeeder
    /\ input # "none" => session \in WithInput
    /\ sibling # "none" => session \in WithSibling

\* The bytes in the wake pipe: one of the last connection's end, which the next drains
\* before its input thread starts, and one of the plug out.
WakesCounted ==
    wake <= (IF session \in {"active", "ending"} THEN 0 ELSE 1)
          + (IF plug = "joining" THEN 1 ELSE 0)

LinkInv ==
    /\ CtmTypeOK
    /\ SessionLives
    /\ AskedToStop
    /\ DeviceOpen
    /\ LinkHeld
    /\ ReadersJoined
    /\ WakesCounted

-----------------------------------------------------------------------------
LEMMA InitLinkInv == Init => LinkInv
<1> SUFFICES ASSUME Init PROVE LinkInv
  OBVIOUS
<1>1. CtmTypeOK
  <2>1. wake \in 0..MaxWake
    BY DEF Init, MaxWake
  <2>2. {orphan, acl, stop, compRun, hid, connected, up, agent, device} \subseteq BOOLEAN
    BY DEF Init
  <2> QED
    BY <2>1, <2>2 DEF Init, CtmTypeOK
<1>2. SessionLives /\ AskedToStop /\ DeviceOpen /\ LinkHeld /\ ReadersJoined /\ WakesCounted
  BY DEF Init, SessionLives, AskedToStop, DeviceOpen, LinkHeld, ReadersJoined, WakesCounted,
         WithLink, Joining
<1> QED
  BY <1>1, <1>2 DEF LinkInv

LEMMA NextLinkInv == LinkInv /\ [Next]_vars => LinkInv'
<1> SUFFICES ASSUME LinkInv, [Next]_vars PROVE LinkInv'
  OBVIOUS
<1> USE DEF LinkInv, CtmTypeOK, SessionLives, AskedToStop, DeviceOpen, LinkHeld,
       ReadersJoined, WakesCounted, WithLink, WithFeeder, WithInput, WithSibling, Joining,
       MaxWake, vars, threads, link, world, Go
<1>1. CASE PlugIn BY <1>1 DEF PlugIn
<1>2. CASE PlugOut BY <1>2 DEF PlugOut
<1>3. CASE Shuts BY <1>3 DEF Shuts
<1>4. CASE Wakes BY <1>4 DEF Wakes
<1>5. CASE Joins
  <2>1. /\ hid' \in BOOLEAN /\ compRun' \in BOOLEAN
        /\ connected' \in BOOLEAN /\ up' \in BOOLEAN
    BY <1>5 DEF Joins
  <2>2. wake' \in 0..2
    BY <1>5 DEF Joins
  <2>3. CtmTypeOK'
    BY <1>5, <2>1, <2>2 DEF Joins
  <2> QED
    BY <1>5, <2>3 DEF Joins
<1>6. CASE Opens
  <2>1. acl' \in BOOLEAN /\ hid' \in BOOLEAN /\ stop' \in BOOLEAN
    BY <1>6 DEF Opens
  <2>2. CtmTypeOK'
    BY <1>6, <2>1 DEF Opens
  <2> QED
    BY <1>6, <2>2 DEF Opens
<1>7. ASSUME NEW kind \in Transports, Connects(kind) PROVE LinkInv'
  BY <1>7, CtmAssumption DEF Connects
<1>8. CASE Probes \/ ConnectsNot \/ GivesUp \/ Uses
  BY <1>8 DEF Probes, ConnectsNot, GivesUp, Uses
<1>9. CASE Greets BY <1>9 DEF Greets
<1>10. CASE AwaitsConfig \/ MissesConfig BY <1>10 DEF AwaitsConfig, MissesConfig
<1>11. CASE Starts BY <1>11 DEF Starts
<1>12. CASE StartsNot
  <2>1. orphan' \in BOOLEAN
    BY <1>12 DEF StartsNot
  <2> QED
    BY <1>12, <2>1 DEF StartsNot
<1>13. CASE Loses BY <1>13 DEF Loses
<1>14. CASE Ends
  <2>1. wake' = wake + 1 /\ wake <= IF plug = "joining" THEN 1 ELSE 0
    BY <1>14 DEF Ends
  <2>2. wake' \in 0..2 /\ WakesCounted'
    BY <1>14, <2>1 DEF Ends
  <2>3. compRun' \in BOOLEAN
    BY <1>14 DEF Ends
  <2>4. CtmTypeOK'
    BY <1>14, <2>2, <2>3 DEF Ends
  <2> QED
    BY <1>14, <2>2, <2>4 DEF Ends
<1>15. CASE JoinsFeeder BY <1>15 DEF JoinsFeeder
<1>16. CASE JoinsInput BY <1>16 DEF JoinsInput
<1>17. CASE JoinsSibling BY <1>17 DEF JoinsSibling
<1>18. CASE Releases BY <1>18 DEF Releases
<1>19. CASE Closes BY <1>19 DEF Closes
<1>20. CASE ReceivesConfig BY <1>20 DEF ReceivesConfig
<1>21. CASE InputStep BY <1>21 DEF InputStep, InputReads, InputSends, InputEnds
<1>22. CASE FeederEnds BY <1>22 DEF FeederEnds
<1>23. CASE SiblingEnds BY <1>23 DEF SiblingEnds
<1>24. CASE WorldStep
  <2>1. CASE LinkDrops BY <2>1 DEF LinkDrops
  <2>2. CASE AgentToggles BY <2>2 DEF AgentToggles
  <2>3. CASE DeviceToggles BY <2>3 DEF DeviceToggles
  <2> QED
    BY <1>24, <2>1, <2>2, <2>3 DEF WorldStep
<1>25. CASE UNCHANGED vars BY <1>25
<1> QED
  BY <1>1, <1>2, <1>3, <1>4, <1>5, <1>6, <1>7, <1>8, <1>9, <1>10, <1>11, <1>12, <1>13,
     <1>14, <1>15, <1>16, <1>17, <1>18, <1>19, <1>20, <1>21, <1>22, <1>23, <1>24, <1>25
     DEF Next, PlugOutStep, SessionStep

-----------------------------------------------------------------------------
(* The invariant in every reachable state: CtmTypeOK, and where the session thread is    *)
(* while each of the others has not been joined.                                         *)
THEOREM LinkInvariance == Spec => []LinkInv
BY InitLinkInv, NextLinkInv, PTL DEF Spec

(* No thread reads the device or sends a report without an open device and a connection: *)
(* run_session joins them before ctm_transport_disconnect, and ctm_controller_plug_out   *)
(* joins the session thread before it closes the device. Of those none is left on a      *)
(* controller that was freed.                                                            *)
THEOREM ReadersKeepTheirLink == Spec => []ReadersHaveTheirLink
<1>1. LinkInv => ReadersHaveTheirLink
  BY DEF LinkInv, ReadersHaveTheirLink, CtmTypeOK, SessionLives, DeviceOpen, LinkHeld,
         ReadersJoined, WithLink, WithFeeder, WithInput, WithSibling, Joining
<1> QED
  BY <1>1, LinkInvariance, PTL

\* Joined threads were told, step by step: what tells them stays until they have ended.
LEMMA NextJoinedAreTold == LinkInv /\ JoinedAreTold /\ [Next]_vars => JoinedAreTold'
<1> SUFFICES ASSUME LinkInv, JoinedAreTold, [Next]_vars PROVE JoinedAreTold'
  OBVIOUS
<1>1. wake \in 0..2 /\ (plug \in {"shutting", "waking", "joining"} => stop)
  BY DEF LinkInv, CtmTypeOK, AskedToStop, MaxWake
<1> USE DEF JoinedAreTold, Joining, vars, threads, link, world, Go
<1>2. CASE PlugIn BY <1>1, <1>2 DEF PlugIn
<1>3. CASE PlugOut BY <1>1, <1>3 DEF PlugOut
<1>4. CASE Shuts BY <1>1, <1>4 DEF Shuts
<1>5. CASE Wakes BY <1>1, <1>5 DEF Wakes
<1>6. CASE Joins BY <1>1, <1>6 DEF Joins, LinkInv, SessionLives
<1>7. CASE Opens BY <1>1, <1>7 DEF Opens
<1>8. CASE Probes \/ ConnectsNot \/ GivesUp BY <1>1, <1>8 DEF Probes, ConnectsNot, GivesUp
<1>9. CASE Greets BY <1>1, <1>9 DEF Greets
<1>10. CASE AwaitsConfig \/ MissesConfig BY <1>1, <1>10 DEF AwaitsConfig, MissesConfig
<1>11. CASE ReceivesConfig BY <1>1, <1>11 DEF ReceivesConfig
<1>12. CASE Loses BY <1>1, <1>12 DEF Loses
<1>13. CASE Starts BY <1>1, <1>13 DEF Starts
<1>14. CASE StartsNot BY <1>1, <1>14 DEF StartsNot
<1>15. CASE Ends BY <1>1, <1>15 DEF Ends
<1>16. CASE JoinsFeeder BY <1>1, <1>16 DEF JoinsFeeder
<1>17. CASE JoinsInput BY <1>1, <1>17 DEF JoinsInput
<1>18. CASE JoinsSibling BY <1>1, <1>18 DEF JoinsSibling
<1>19. CASE Releases BY <1>1, <1>19 DEF Releases
<1>20. CASE Closes BY <1>1, <1>20 DEF Closes
\* A connection may come up after plug_out looked for one: it is at "connected" ...
<1>21. ASSUME NEW kind \in Transports, Connects(kind) PROVE JoinedAreTold'
  BY <1>1, <1>21 DEF Connects
\* ... and not used, since stop is looked at there.
<1>22. CASE Uses BY <1>1, <1>22 DEF Uses
<1>23. CASE InputStep \/ FeederEnds \/ SiblingEnds
  BY <1>1, <1>23 DEF InputStep, InputReads, InputSends, InputEnds, FeederEnds, SiblingEnds
<1>24. CASE WorldStep \/ UNCHANGED vars
  BY <1>1, <1>24 DEF WorldStep, LinkDrops, AgentToggles, DeviceToggles
<1> QED
  BY <1>2, <1>3, <1>4, <1>5, <1>6, <1>7, <1>8, <1>9, <1>10, <1>11, <1>12,
     <1>13, <1>14, <1>15, <1>16, <1>17, <1>18, <1>19, <1>20, <1>21, <1>22, <1>23, <1>24
     DEF Next, PlugOutStep, SessionStep

(* Who joins the threads of a controller has told them before, each in the way it looks   *)
(* at: run_session writes to the wake pipe and clears comp_run, ctm_controller_plug_out    *)
(* sets stop and shuts a TCP connection down. One that was being made meanwhile comes up   *)
(* after that; session_main looks at stop before it uses it, and leaves it.                *)
THEOREM ThreadsStayInOrder == Spec => []ThreadsInOrder
<1>1. Init => JoinedAreTold
  BY DEF Init, JoinedAreTold, Joining
<1>2. Spec => []JoinedAreTold
  BY <1>1, NextJoinedAreTold, LinkInvariance, PTL DEF Spec
<1> QED
  BY <1>2, ReadersKeepTheirLink, PTL DEF ThreadsInOrder

(* The byte that ended the input thread of one connection does not end that of the next: *)
(* while run_session loops, the pipe holds no byte but that of ctm_controller_plug_out,  *)
(* which comes after stop was set.                                                       *)
THEOREM NoStaleWake == Spec => StaleWakeStopsNoReader
<1>1. ASSUME LinkInv, [Next]_vars, session = "active", input # "ended", input' = "ended"
      PROVE  stop' \/ ~device
  <2>1. InputStep
    BY <1>1 DEF Next, vars, threads, link, world, Go, PlugIn, PlugOut, PlugOutStep, Shuts, Wakes,
           Joins, SessionStep, Opens, Probes, Connects, ConnectsNot, GivesUp, Uses, Greets,
           AwaitsConfig, MissesConfig, Starts, StartsNot,
           Loses, Ends, JoinsFeeder, JoinsInput, JoinsSibling, Releases, Closes, ReceivesConfig,
           FeederEnds, SiblingEnds, WorldStep, LinkDrops, AgentToggles, DeviceToggles
  <2>2. CASE InputReads
    BY <1>1, <2>2 DEF InputReads
  <2>3. CASE InputSends
    BY <1>1, <2>3 DEF InputSends
  <2>4. CASE InputEnds
    <3>1. CASE stop
      BY <2>4, <3>1 DEF InputEnds
    <3>2. CASE ~stop
      \* Nobody has plugged the controller out, so nobody has written to the pipe.
      <4>1. plug # "joining"
        BY <1>1, <3>2 DEF LinkInv, AskedToStop
      <4>2. wake \in 0..2 /\ wake <= 0
        BY <1>1, <4>1 DEF LinkInv, CtmTypeOK, MaxWake, WakesCounted
      <4> QED
        BY <2>4, <3>2, <4>2 DEF InputEnds
    <3> QED
      BY <3>1, <3>2
  <2> QED
    BY <2>1, <2>2, <2>3, <2>4 DEF InputStep
<1> QED
  BY <1>1, LinkInvariance, PTL DEF Spec, StaleWakeStopsNoReader

=============================================================================
