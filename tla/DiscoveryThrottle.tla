-------------------------- MODULE DiscoveryThrottle --------------------------
(***************************************************************************)
(* The throttle of the host discovery (throttle.c): a host that announces   *)
(* itself again and again is reported once in a while. It keeps a list of   *)
(* the hosts it reported, sorted by time, and each entry has its age here   *)
(* instead of the tick it was made at.                                      *)
(***************************************************************************)
EXTENDS Naturals, Sequences, FiniteSetsExt

CONSTANTS
    Hosts,
    Ttl     \* of every entry: discovery_discovered passes one value

ASSUME ThrottleAssumption == IsFiniteSet(Hosts) /\ Ttl \in Nat \ {0}

VARIABLES
    hosts,    \* throttle->hosts, the oldest first
    since,    \* time since the host was reported, Ttl at most and at first
    ignored   \* announcements ignored since that time has passed, up to two

throttleVars == <<hosts, since, ignored>>

ThrottleTypeOK ==
    /\ hosts \in Seq([host : Hosts, age : 0..Ttl]) /\ Len(hosts) <= Cardinality(Hosts)
    /\ since \in [Hosts -> 0..Ttl]
    /\ ignored \in [Hosts -> 0..2]

ThrottleInit == hosts = <<>> /\ since = [h \in Hosts |-> Ttl] /\ ignored = [h \in Hosts |-> 0]

-----------------------------------------------------------------------------
\* Fault: the list is only emptied when it is too long.
EvictedNot(list) == IF Len(list) > Cardinality(Hosts) THEN <<>> ELSE list

\* throttle_hosts_evict: the list is cut before its first entry that has not
\* expired, and goes on with the entries that have. Without such an entry it is freed.
Evicted(list) ==
    LET fresh == {i \in DOMAIN list : list[i].age < Ttl}
    IN  IF fresh = {} THEN <<>>
        ELSE IF Min(fresh) = 1 THEN list
        ELSE SubSeq(list, 1, Min(fresh) - 1)

\* Fault: nobody looks whether the host is there.
KnownNever(list, h) == h \notin Hosts

Known(list, h) == \E i \in DOMAIN list : list[i].host = h

\* discovery_throttle_on_discovered
Ignores(h) ==
    /\ Known(Evicted(hosts), h)
    /\ hosts' = Evicted(hosts)
    /\ ignored' = [ignored EXCEPT ![h] = IF since[h] = Ttl /\ @ < 2 THEN @ + 1 ELSE @]
    /\ UNCHANGED since

Reports(h) ==
    /\ ~Known(Evicted(hosts), h)
    /\ hosts' = Append(Evicted(hosts), [host |-> h, age |-> 0])
    /\ since' = [since EXCEPT ![h] = 0]
    /\ ignored' = [ignored EXCEPT ![h] = 0]

\* SDL_GetTicks
TimePasses ==
    /\ hosts' = [i \in DOMAIN hosts |-> [hosts[i] EXCEPT !.age = IF @ < Ttl THEN @ + 1 ELSE @]]
    /\ since' = [h \in Hosts |-> IF since[h] < Ttl THEN since[h] + 1 ELSE Ttl]
    /\ UNCHANGED ignored

ThrottleNext == TimePasses \/ \E h \in Hosts : Ignores(h) \/ Reports(h)

\* The hosts go on announcing themselves, and time goes on.
ThrottleSpec ==
    /\ ThrottleInit /\ [][ThrottleNext]_throttleVars /\ WF_throttleVars(TimePasses)
    /\ \A h \in Hosts : WF_throttleVars(Ignores(h) \/ Reports(h))

-----------------------------------------------------------------------------
(* Properties.                                                              *)

\* Besides the types: a host has one entry, and the list is sorted as
\* throttle_hosts_evict needs it, although it is cut in two and grows at its end. And a
\* host whose time has passed is reported by its second announcement, although an entry
\* of it that expired may stay in the list.
ThrottleSorted ==
    /\ ThrottleTypeOK
    /\ \A i, j \in DOMAIN hosts :
           i < j => hosts[i].host # hosts[j].host /\ hosts[i].age >= hosts[j].age
    /\ \A h \in Hosts : ignored[h] <= 1

-----------------------------------------------------------------------------
(* What the comments and the tests say, and the code does not do.            *)

\* test_throttle.c announces a host three times within its time and counts one report,
\* and another after its time: a host is reported when its time has passed, and only then.
ReportedOncePerTtl ==
    [][\A h \in Hosts : (Reports(h) => since[h] = Ttl) /\ (Ignores(h) => since[h] < Ttl)]_throttleVars

=============================================================================
