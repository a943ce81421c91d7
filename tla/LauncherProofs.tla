---------------------------- MODULE LauncherProofs ----------------------------
(***************************************************************************)
(* Theorems about the launcher: the list of applications (AppLoader), their *)
(* covers (CoverLoader), and the rail with what it listens to (Launcher),   *)
(* each with an inductive invariant of its own, for every set of loaders,   *)
(* requests, items and hosts.                                               *)
(***************************************************************************)
EXTENDS AppLoader, CoverLoader, Launcher, FiniteSetTheorems, SequenceTheorems,
        WellFoundedInduction, TLAPS

-----------------------------------------------------------------------------
(* The list of applications. The count kept by hand in loader->refcounter is *)
(* exact because a loader has one task at a time, and it has one at a time   *)
(* because it is loading while a task of it is anywhere, known or forgotten. *)

\* A task that somebody still has to run, finalize or call back keeps its loader loading.
TaskLoads == \A l \in Loaders : task[l] # "none" => state[l] = "loading"

\* The fragment has a loader that is there, and the view a fragment.
FragmentHolds ==
    /\ \A l \in Loaders : current = l => state[l] # "free"
    /\ view => current # NoLoader

\* One reference of the fragment, and one of the task.
RefsCounted ==
    \A l \in Loaders :
        refs[l] = (IF current = l THEN 1 ELSE 0) + (IF task[l] = "none" THEN 0 ELSE 1)

LoaderInv ==
    /\ AppLoaderTypeOK
    /\ TaskLoads
    /\ FragmentHolds
    /\ RefsCounted

-----------------------------------------------------------------------------
LEMMA InitLoaderInv == Init => LoaderInv
<1> SUFFICES ASSUME Init PROVE LoaderInv
  OBVIOUS
<1>1. known \in [Loaders -> BOOLEAN] /\ canceled \in [Loaders -> BOOLEAN]
      /\ refused \in [Loaders -> BOOLEAN]
  BY DEF Init
<1>2. AppLoaderTypeOK
  <2>1. refs = [l \in Loaders |-> 0] /\ view = FALSE
    BY DEF Init
  <2>2. view \in BOOLEAN
    BY <2>1
  <2>3. refs \in [Loaders -> 0..2]
    BY <2>1
  <2>4. /\ state \in [Loaders -> {"free", "idle", "loading", "error"}]
        /\ task \in [Loaders -> {"none", "pending", "active", "finished", "posted"}]
        /\ code \in [Loaders -> {"ok", "error"}]
    BY DEF Init
  <2> QED
    BY <1>1, <2>2, <2>3, <2>4 DEF Init, AppLoaderTypeOK
<1>3. TaskLoads /\ FragmentHolds /\ RefsCounted
  BY AppLoaderAssumption DEF Init, TaskLoads, FragmentHolds, RefsCounted
<1> QED
  BY <1>2, <1>3 DEF LoaderInv

LEMMA NextLoaderInv == LoaderInv /\ [Next]_vars => LoaderInv'
<1> SUFFICES ASSUME LoaderInv, [Next]_vars PROVE LoaderInv'
  OBVIOUS
<1> USE AppLoaderAssumption
    DEF LoaderInv, AppLoaderTypeOK, TaskLoads, FragmentHolds, RefsCounted
<1>1. CASE Uncovered BY <1>1 DEF Uncovered
<1>2. CASE Covered BY <1>2 DEF Covered, Cancel
<1>3. ASSUME NEW l \in Loaders, Creates(l) PROVE LoaderInv'
  BY <1>3 DEF Creates
<1>4. ASSUME NEW l \in Loaders, Loads(l) PROVE LoaderInv'
  BY <1>4 DEF Loads
<1>5. ASSUME NEW l \in Loaders, Refuses(l) PROVE LoaderInv'
  BY <1>5 DEF Refuses
<1>6. ASSUME NEW l \in Loaders, Deleted(l) PROVE LoaderInv'
  <2>1. /\ current = l /\ current' = NoLoader /\ view' = FALSE
        /\ UNCHANGED <<task, code, refused>>
        /\ refs' = [refs EXCEPT ![l] = @ - 1]
        /\ state' = [state EXCEPT ![l] = IF refs[l] = 1 THEN "free" ELSE state[l]]
    BY <1>6 DEF Deleted, Unref
  <2>2. known' \in [Loaders -> BOOLEAN] /\ canceled' \in [Loaders -> BOOLEAN]
    BY <1>6 DEF Deleted, Cancel
  <2>3. RefsCounted' /\ \A m \in Loaders : refs'[m] \in 0..2
    BY <2>1
  <2>4. AppLoaderTypeOK'
    BY <2>1, <2>2, <2>3
  <2>5. TaskLoads'
    BY <2>1
  <2>6. FragmentHolds'
    BY <2>1
  <2> QED
    BY <2>3, <2>4, <2>5, <2>6
<1>7. ASSUME NEW l \in Loaders, CallsBack(l) PROVE LoaderInv'
  BY <1>7 DEF CallsBack, Unref
<1>8. ASSUME NEW l \in Loaders, Starts(l) PROVE LoaderInv'
  BY <1>8 DEF Starts
<1>9. ASSUME NEW l \in Loaders, Runs(l) PROVE LoaderInv'
  BY <1>9 DEF Runs
<1>10. ASSUME NEW l \in Loaders, Forgets(l) PROVE LoaderInv'
  BY <1>10 DEF Forgets, Unref
<1>11. ASSUME NEW l \in Loaders, Posts(l) PROVE LoaderInv'
  BY <1>11 DEF Posts
<1>12. CASE UNCHANGED vars BY <1>12 DEF vars
<1> QED
  BY <1>1, <1>2, <1>3, <1>4, <1>5, <1>6, <1>7, <1>8, <1>9, <1>10, <1>11, <1>12 DEF Next

-----------------------------------------------------------------------------
(* The references of a loader, counted.                                                  *)
LEMMA TwoHolders ==
  ASSUME NEW S \in SUBSET {"fragment", "task"}
  PROVE  Cardinality(S) = (IF "fragment" \in S THEN 1 ELSE 0) + (IF "task" \in S THEN 1 ELSE 0)
<1>1. CASE "fragment" \in S /\ "task" \in S
  <2>1. S = {"fragment"} \cup {"task"} /\ "task" \notin {"fragment"}
    BY <1>1
  <2>2. IsFiniteSet({"fragment"}) /\ Cardinality({"fragment"}) = 1
    BY FS_Singleton
  <2>3. Cardinality({"fragment"} \cup {"task"}) = Cardinality({"fragment"}) + 1
    BY <2>1, <2>2, FS_AddElement
  <2> QED
    BY <1>1, <2>1, <2>2, <2>3
<1>2. CASE "fragment" \in S /\ "task" \notin S
  <2>1. S = {"fragment"}
    BY <1>2
  <2>2. Cardinality({"fragment"}) = 1
    BY FS_Singleton
  <2> QED
    BY <1>2, <2>1, <2>2
<1>3. CASE "fragment" \notin S /\ "task" \in S
  <2>1. S = {"task"}
    BY <1>3
  <2>2. Cardinality({"task"}) = 1
    BY FS_Singleton
  <2> QED
    BY <1>3, <2>1, <2>2
<1>4. CASE "fragment" \notin S /\ "task" \notin S
  <2>1. S = {} /\ Cardinality({}) = 0
    BY <1>4, FS_EmptySet
  <2> QED
    BY <1>4, <2>1
<1> QED
  BY <1>1, <1>2, <1>3, <1>4

(* The invariant in every reachable state: refcounter is exact, and a loader is loading  *)
(* while a task of it is anywhere.                                                       *)
THEOREM LoaderInvariance == Spec => []LoaderInv
BY InitLoaderInv, NextLoaderInv, PTL DEF Spec

(* Neither the thread that runs a task nor the callback it posts meets a loader that was *)
(* freed, whenever the fragment was deleted; and the loader is referenced exactly once   *)
(* for the fragment and once for the task, though apploader_cancel forgets it.           *)
THEOREM LoaderStaysThere == Spec => []LoaderIsThere
<1>1. ASSUME LoaderInv PROVE LoaderIsThere
  <2> USE <1>1 DEF LoaderInv, AppLoaderTypeOK, TaskLoads, FragmentHolds, RefsCounted
  <2> SUFFICES ASSUME NEW l \in Loaders
               PROVE  /\ task[l] # "none" \/ current = l => state[l] # "free"
                      /\ refs[l] = Cardinality({x \in {"fragment", "task"} :
                             \/ x = "fragment" /\ current = l
                             \/ x = "task" /\ task[l] # "none"})
    BY DEF LoaderIsThere
  <2> DEFINE S == {x \in {"fragment", "task"} : \/ x = "fragment" /\ current = l
                                                \/ x = "task" /\ task[l] # "none"}
  <2>1. ("fragment" \in S <=> current = l) /\ ("task" \in S <=> task[l] # "none")
    OBVIOUS
  <2>2. Cardinality(S) = (IF current = l THEN 1 ELSE 0) + (IF task[l] = "none" THEN 0 ELSE 1)
    BY <2>1, TwoHolders
  <2> QED
    BY <2>2
<1> QED
  BY <1>1, LoaderInvariance, PTL

-----------------------------------------------------------------------------
(* Lists.                                                                    *)

\* The order of the numbers, to find the first place of an entry.
Below == {p \in Nat \X Nat : p[1] < p[2]}

LEMMA BelowIsWellFounded == IsWellFoundedOn(Below, Nat)
BY NatLessThanWellFounded DEF OpToRel, Below

LEMMA MinIsLeast ==
    ASSUME NEW S \in SUBSET Nat, S # {}
    PROVE  Min(S) \in S /\ \A x \in S : Min(S) <= x
<1>1. PICK m \in S : \A y \in S : <<y, m>> \notin Below
  BY BelowIsWellFounded, WFMin
<1>2. \A y \in S : m <= y
  <2> TAKE y \in S
  <2>1. ~ (y < m)
    BY <1>1 DEF Below
  <2> QED
    BY <2>1
<1> QED
  BY <1>2 DEF Min

\* What is left of a list when one entry is taken out.
LEMMA Removed ==
  ASSUME NEW S, NEW s \in Seq(S), NEW i \in DOMAIN s
  PROVE  /\ RemoveAt(s, i) \in Seq(S)
         /\ Len(RemoveAt(s, i)) = Len(s) - 1
         /\ \A j \in DOMAIN RemoveAt(s, i) :
                /\ j \in DOMAIN s /\ j + 1 \in DOMAIN s
                /\ RemoveAt(s, i)[j] = s[IF j < i THEN j ELSE j + 1]
         /\ \A k \in DOMAIN s : k # i => \E j \in DOMAIN RemoveAt(s, i) : RemoveAt(s, i)[j] = s[k]
<1>1. SubSeq(s, 1, i - 1) \in Seq(S) /\ Len(SubSeq(s, 1, i - 1)) = i - 1
      /\ \A j \in 1..(i - 1) : SubSeq(s, 1, i - 1)[j] = s[j]
  OBVIOUS
<1>2. SubSeq(s, i + 1, Len(s)) \in Seq(S) /\ Len(SubSeq(s, i + 1, Len(s))) = Len(s) - i
      /\ \A j \in 1..(Len(s) - i) : SubSeq(s, i + 1, Len(s))[j] = s[i + j]
  OBVIOUS
<1>3. i \in Nat /\ Len(s) \in Nat /\ i <= Len(s) /\ i >= 1 /\ DOMAIN s = 1..Len(s)
  OBVIOUS
<1> DEFINE a == SubSeq(s, 1, i - 1)
           b == SubSeq(s, i + 1, Len(s))
<1>4. RemoveAt(s, i) = a \o b
  BY DEF RemoveAt
<1> HIDE DEF a, b
<1>5. a \in Seq(S) /\ b \in Seq(S) /\ Len(a) = i - 1 /\ Len(b) = Len(s) - i
  BY <1>1, <1>2 DEF a, b
<1>6. a \o b \in Seq(S) /\ Len(a \o b) = Len(s) - 1
  <2>1. a \o b \in Seq(S) /\ Len(a \o b) = Len(a) + Len(b)
    BY <1>5, ConcatProperties
  <2> QED
    BY <1>3, <1>5, <2>1
<1>7. ASSUME NEW j \in DOMAIN (a \o b)
      PROVE  /\ j \in DOMAIN s /\ j + 1 \in DOMAIN s
             /\ (a \o b)[j] = s[IF j < i THEN j ELSE j + 1]
  <2>1. j \in Nat /\ 1 <= j /\ j <= Len(s) - 1
    BY <1>3, <1>6
  <2>2. CASE j < i
    <3>1. (a \o b)[j] = a[j] /\ j \in 1..(i - 1)
      BY <1>3, <1>5, <2>1, <2>2
    <3> QED
      BY <1>1, <1>3, <2>1, <2>2, <3>1 DEF a
  <2>3. CASE ~(j < i)
    <3>1. (a \o b)[j] = b[j - (i - 1)] /\ j - (i - 1) \in 1..(Len(s) - i)
      BY <1>3, <1>5, <2>1, <2>3
    <3>2. b[j - (i - 1)] = s[i + (j - (i - 1))]
      BY <1>2, <3>1 DEF b
    <3>3. i + (j - (i - 1)) = j + 1
      BY <1>3, <2>1
    <3> QED
      BY <1>3, <2>1, <2>3, <3>1, <3>2, <3>3
  <2> QED
    BY <2>2, <2>3
<1>8. DOMAIN (a \o b) = 1..(Len(s) - 1)
  <2> DEFINE c == a \o b
  <2>1. c \in Seq(S) /\ Len(c) = Len(s) - 1
    BY <1>6
  <2> HIDE DEF c
  <2>2. DOMAIN c = 1..(Len(s) - 1)
    BY <2>1
  <2> QED
    BY <2>2 DEF c
<1>9. ASSUME NEW k \in DOMAIN s, k # i
      PROVE  \E j \in DOMAIN (a \o b) : (a \o b)[j] = s[k]
  <2>1. k \in Nat /\ 1 <= k /\ k <= Len(s)
    BY <1>3
  <2>2. CASE k < i
    <3>1. k \in 1..(Len(s) - 1)
      BY <1>3, <2>1, <2>2
    <3>2. k \in DOMAIN (a \o b)
      BY ONLY <1>8, <3>1, Zenon
    <3> QED
      BY <3>2, <1>7, <2>2
  <2>3. CASE k > i
    <3>1. k - 1 \in 1..(Len(s) - 1) /\ ~(k - 1 < i) /\ (k - 1) + 1 = k
      BY <1>3, <2>1, <2>3
    <3>2. k - 1 \in DOMAIN (a \o b)
      BY ONLY <1>8, <3>1, Zenon
    <3> QED
      BY <3>1, <3>2, <1>7
  <2> QED
    BY <1>3, <1>9, <2>1, <2>2, <2>3
<1> QED
  BY <1>4, <1>6, <1>7, <1>9

\* RemoveFirst takes one entry that is e.
LEMMA RemovesFirst ==
    ASSUME NEW S, NEW s \in Seq(S), NEW e, Contains(s, e)
    PROVE  \E i \in DOMAIN s : s[i] = e /\ RemoveFirst(s, e) = RemoveAt(s, i)
<1> DEFINE I == {i \in 1..Len(s) : s[i] = e}
<1>1. I \in SUBSET Nat /\ I # {} /\ DOMAIN s = 1..Len(s)
  BY DEF Contains
<1>2. Min(I) \in I
  BY <1>1, MinIsLeast
<1>3. RemoveFirst(s, e) = RemoveAt(s, Min(I))
  BY <1>1 DEF RemoveFirst, SelectInSeq
<1> QED
  BY <1>1, <1>2, <1>3

\* What is taken out of a list without repetition is gone, and the rest stays.
LEMMA TakenOut ==
    ASSUME NEW S, NEW s \in Seq(S), NEW e, Contains(s, e),
           \A j, k \in DOMAIN s : s[j] = s[k] => j = k,
           NEW u, u = RemoveFirst(s, e)
    PROVE  /\ u \in Seq(S) /\ Len(s) \in Nat \ {0} /\ Len(u) = Len(s) - 1
           /\ \A j, k \in DOMAIN u : u[j] = u[k] => j = k
           /\ \A x : (\E j \in DOMAIN u : u[j] = x) <=> x # e /\ \E j \in DOMAIN s : s[j] = x
           /\ \A j \in DOMAIN u : u[j] # e /\ \E k \in DOMAIN s : s[k] = u[j]
           /\ \A k \in DOMAIN s : s[k] # e => \E j \in DOMAIN u : u[j] = s[k]
<1>1. PICK i \in DOMAIN s : s[i] = e /\ u = RemoveAt(s, i)
  BY RemovesFirst
<1>2. /\ u \in Seq(S) /\ Len(u) = Len(s) - 1
      /\ \A j \in DOMAIN u : /\ j \in DOMAIN s /\ j + 1 \in DOMAIN s
                             /\ u[j] = s[IF j < i THEN j ELSE j + 1]
      /\ \A k \in DOMAIN s : k # i => \E j \in DOMAIN u : u[j] = s[k]
  <2>1. s \in Seq(S) /\ i \in DOMAIN s
    OBVIOUS
  <2>2. LET v == RemoveAt(s, i)
        IN  /\ v \in Seq(S) /\ Len(v) = Len(s) - 1
            /\ \A j \in DOMAIN v : /\ j \in DOMAIN s /\ j + 1 \in DOMAIN s
                                   /\ v[j] = s[IF j < i THEN j ELSE j + 1]
            /\ \A k \in DOMAIN s : k # i => \E j \in DOMAIN v : v[j] = s[k]
    BY ONLY <2>1, Removed, Zenon
  <2> QED
    BY ONLY <1>1, <2>2, Zenon
<1>3. Len(s) \in Nat /\ DOMAIN s = 1..Len(s) /\ DOMAIN u = 1..Len(u) /\ Len(s) # 0 /\ i \in Nat
  BY <1>1, <1>2
<1>4. ASSUME NEW j \in DOMAIN u
      PROVE  j \in Nat /\ (IF j < i THEN j ELSE j + 1) \in DOMAIN s /\ (IF j < i THEN j ELSE j + 1) # i
  BY <1>2, <1>3
<1>5. ASSUME NEW j \in DOMAIN u, NEW k \in DOMAIN u, u[j] = u[k]
      PROVE  j = k
  <2>1. (IF j < i THEN j ELSE j + 1) = (IF k < i THEN k ELSE k + 1)
    BY <1>2, <1>4, <1>5
  <2> QED
    BY <1>3, <1>4, <2>1
<1>6. \A j \in DOMAIN u : u[j] # e
  BY <1>1, <1>2, <1>4
<1>7. \A x : x # e /\ (\E j \in DOMAIN s : s[j] = x) => \E j \in DOMAIN u : u[j] = x
  BY <1>1, <1>2
<1>8. \A x : (\E j \in DOMAIN u : u[j] = x) => \E j \in DOMAIN s : s[j] = x
  BY <1>2, <1>4
<1> QED
  BY <1>2, <1>3, <1>5, <1>6, <1>7, <1>8

-----------------------------------------------------------------------------
(* The covers. A request is in memory exactly while it is listed, so that    *)
(* the references of the loader are those of its list and of the view; and   *)
(* an image that was put for a request is not thrown out before it is shown. *)

CoverTypes ==
    /\ gridUp \in BOOLEAN
    /\ reqlist \in Seq(Requests)
    /\ memCache \in Seq(Covers)
    /\ inGrid \subseteq Items
    /\ showing \in [Items -> Covers \cup {NoCover}]
    /\ request \in [Requests ->
          [step : {"free", "queued", "running", "loaded", "put", "done", "fail", "cancel"},
           target : Items \cup {NoItem}, id : Covers \cup {NoCover},
           src : Covers \cup {NoCover}, canceled : BOOLEAN]]

ListedOnce ==
    /\ \A r \in Requests : request[r].step # "free" <=> \E i \in DOMAIN reqlist : reqlist[i] = r
    /\ \A i, j \in DOMAIN reqlist : reqlist[i] = reqlist[j] => i = j

RequestsTell ==
    \A r \in Requests :
        /\ request[r].step # "free" => request[r].id \in Covers
        /\ request[r].step \in {"put", "done"} =>
              request[r].src = request[r].id /\ Contains(memCache, request[r].id)
        /\ request[r].step = "fail" => request[r].src = NoCover
        /\ request[r].step \in {"queued", "running", "loaded"} => request[r].src = NoCover

CoverInv ==
    /\ CoverTypes
    /\ ListedOnce
    /\ RequestsTell
    /\ ~gridUp => inGrid = {}
    /\ CoversAreKept

\* Throwing an image out keeps those that requests have put.
LEMMA CachedKeeps ==
    ASSUME CoverTypes, NEW c \in Covers
    PROVE  /\ Cached(c) \in Seq(Covers) /\ Contains(Cached(c), c)
           /\ \A x \in Fresh : Contains(memCache, x) => Contains(Cached(c), x)
<1>0. memCache \in Seq(Covers)
  BY DEF CoverTypes
<1>1. ASSUME NEW s \in Seq(Covers)
      PROVE  /\ Append(s, c) \in Seq(Covers) /\ Contains(Append(s, c), c)
             /\ \A x : Contains(s, x) => Contains(Append(s, c), x)
  BY <1>1 DEF Contains
<1>2. CASE Len(memCache) < CacheSize
  BY <1>0, <1>1, <1>2 DEF Cached
<1>3. CASE ~(Len(memCache) < CacheSize)
  <2> DEFINE I == {i \in 1..Len(memCache) : memCache[i] \notin Fresh}
  <2>1. Cached(c) = Append(IF \E i \in 1..Len(memCache) : memCache[i] \notin Fresh
                           THEN RemoveAt(memCache, Min(I)) ELSE memCache, c)
    BY <1>3 DEF Cached, RemoveFirstMatch, SelectInSeq
  <2>2. CASE I = {}
    <3>1. Cached(c) = Append(memCache, c)
      BY <2>1, <2>2
    <3> QED
      BY <3>1, <1>0, <1>1
  <2>3. CASE I # {}
    <3>0. I \in SUBSET Nat /\ DOMAIN memCache = 1..Len(memCache)
      BY <1>0
    <3>1. Min(I) \in I
      BY <2>3, <3>0, MinIsLeast
    <3>b. PICK m : m = Min(I) /\ m \in DOMAIN memCache /\ memCache[m] \notin Fresh
      BY <3>0, <3>1
    <3> DEFINE s == RemoveAt(memCache, m)
    <3>2. Cached(c) = Append(s, c)
      BY <2>1, <2>3, <3>b
    <3>3. /\ s \in Seq(Covers)
          /\ \A k \in DOMAIN memCache : k # m => \E j \in DOMAIN s : s[j] = memCache[k]
      BY <1>0, <3>b, Removed
    <3>4. ASSUME NEW x \in Fresh, Contains(memCache, x) PROVE Contains(s, x)
      <4>1. PICK k \in DOMAIN memCache : memCache[k] = x
        BY <1>0, <3>4 DEF Contains
      <4>2. k # m
        BY <3>b, <3>4, <4>1
      <4>3. PICK j \in DOMAIN s : s[j] = x
        BY <3>3, <4>1, <4>2
      <4> HIDE DEF s
      <4> QED
        BY <3>3, <4>3 DEF Contains
    <3> HIDE DEF s
    <3> QED
      BY <1>1, <3>2, <3>3, <3>4
  <2> QED
    BY <2>2, <2>3
<1> QED
  BY <1>2, <1>3

\* An image that is used goes to the end of the cache, which has the same images.
LEMMA UsedKeeps ==
    ASSUME CoverTypes, NEW c \in Covers
    PROVE  Used(c) \in Seq(Covers) /\ \A x : Contains(memCache, x) => Contains(Used(c), x)
<1>0. memCache \in Seq(Covers)
  BY DEF CoverTypes
<1>1. CASE ~Contains(memCache, c)
  BY <1>0, <1>1 DEF Used
<1>2. CASE Contains(memCache, c)
  <2>1. PICK i \in DOMAIN memCache : memCache[i] = c /\ RemoveFirst(memCache, c) = RemoveAt(memCache, i)
    BY <1>0, <1>2, RemovesFirst
  <2> DEFINE s == RemoveAt(memCache, i)
  <2>2. /\ s \in Seq(Covers)
        /\ \A k \in DOMAIN memCache : k # i => \E j \in DOMAIN s : s[j] = memCache[k]
    BY <1>0, Removed
  <2>3. Used(c) = Append(s, c)
    BY <1>2, <2>1 DEF Used
  <2>4. ASSUME NEW x, x # c, Contains(memCache, x) PROVE Contains(s, x)
    <3>1. PICK k \in DOMAIN memCache : memCache[k] = x
      BY <1>0, <2>4 DEF Contains
    <3>2. PICK j \in DOMAIN s : s[j] = x
      BY <2>1, <2>2, <2>4, <3>1
    <3> HIDE DEF s
    <3> QED
      BY <2>2, <3>2 DEF Contains
  <2> HIDE DEF s
  <2>5. Append(s, c) \in Seq(Covers) /\ Contains(Append(s, c), c)
    BY <2>2 DEF Contains
  <2>6. \A x : Contains(s, x) => Contains(Append(s, c), x)
    BY <2>2 DEF Contains
  <2> QED
    BY <2>3, <2>4, <2>5, <2>6
<1> QED
  BY <1>1, <1>2

LEMMA InitCoverInv == CoverInit => CoverInv
<1> SUFFICES ASSUME CoverInit PROVE CoverInv
  OBVIOUS
<1>1. /\ reqlist = <<>> /\ memCache = <<>> /\ inGrid = {} /\ gridUp = FALSE /\ refcounter = 0
      /\ request = [r \in Requests |-> NoRequest] /\ showing = [t \in Items |-> NoCover]
  BY DEF CoverInit
<1>2. CoverTypes
  <2>1. NoRequest \in [step : {"free", "queued", "running", "loaded", "put", "done", "fail", "cancel"},
                       target : Items \cup {NoItem}, id : Covers \cup {NoCover},
                       src : Covers \cup {NoCover}, canceled : BOOLEAN]
    BY DEF NoRequest
  <2>2. reqlist \in Seq(Requests) /\ memCache \in Seq(Covers)
    BY <1>1
  <2> QED
    BY <1>1, <2>1, <2>2 DEF CoverTypes
<1>3. ListedOnce /\ RequestsTell
  BY <1>1 DEF ListedOnce, RequestsTell, NoRequest
<1>4. CoversAreKept
  BY <1>1 DEF CoversAreKept
<1> QED
  BY <1>1, <1>2, <1>3, <1>4 DEF CoverInv

\* A step that leaves the requests and the loader alone, and the images that are needed.
LEMMA CacheStepKeeps ==
    ASSUME CoverInv, UNCHANGED <<refcounter, gridUp, reqlist>>,
           inGrid' \subseteq Items, gridUp \/ inGrid' = {},
           memCache' \in Seq(Covers), showing' \in [Items -> Covers \cup {NoCover}],
           \A t \in inGrid' : showing'[t] # NoCover => Contains(memCache', showing'[t]),
           request' \in [Requests ->
              [step : {"free", "queued", "running", "loaded", "put", "done", "fail", "cancel"},
               target : Items \cup {NoItem}, id : Covers \cup {NoCover},
               src : Covers \cup {NoCover}, canceled : BOOLEAN]],
           \A r \in Requests : request'[r].step = "free" <=> request[r].step = "free",
           RequestsTell'
    PROVE  CoverInv'
<1>1. CoverTypes'
  BY DEF CoverInv, CoverTypes
<1>2. ListedOnce'
  BY DEF CoverInv, ListedOnce
<1>3. CoversAreKept'
  BY DEF CoverInv, CoversAreKept
<1> QED
  BY <1>1, <1>2, <1>3 DEF CoverInv

\* A thread of the executor takes its request a step further.
LEMMA AdvancesKeeps ==
    ASSUME CoverInv, NEW r \in Requests, NEW s \in {"running", "loaded", "done", "fail", "cancel"},
           Advances(r, s), request[r].step # "free",
           s = "done" => request[r].step = "put",
           s \in {"running", "loaded", "fail"} => request[r].step \in {"queued", "running", "loaded"}
    PROVE  CoverInv'
<1>1. /\ request' = [request EXCEPT ![r].step = s]
      /\ UNCHANGED <<refcounter, gridUp, reqlist, inGrid, showing, memCache>>
  BY DEF Advances
<1>2. /\ request' \in [Requests ->
              [step : {"free", "queued", "running", "loaded", "put", "done", "fail", "cancel"},
               target : Items \cup {NoItem}, id : Covers \cup {NoCover},
               src : Covers \cup {NoCover}, canceled : BOOLEAN]]
      /\ request'[r].step = s /\ request'[r].id = request[r].id /\ request'[r].src = request[r].src
      /\ \A x \in Requests \ {r} : request'[x] = request[x]
  BY <1>1 DEF CoverInv, CoverTypes
<1>3. \A x \in Requests : request'[x].step = "free" <=> request[x].step = "free"
  BY <1>2
<1>4. RequestsTell'
  BY <1>1, <1>2 DEF CoverInv, RequestsTell
<1> QED
  BY <1>1, <1>2, <1>3, <1>4, CacheStepKeeps DEF CoverInv, CoverTypes, CoversAreKept

\* coverloader_memcache_put, which throws out no image that another request has put.
LEMMA PutsKeeps ==
    ASSUME CoverInv, NEW r \in Requests, Puts(r)
    PROVE  CoverInv'
<1> DEFINE c == request[r].id
           images == IF Contains(memCache, c) THEN Used(c) ELSE Cached(c)
<1>1. /\ request[r].step = "loaded" /\ memCache' = images
      /\ request' = [request EXCEPT ![r].step = "put", ![r].src = c]
      /\ UNCHANGED <<refcounter, gridUp, reqlist, inGrid>>
      /\ showing' = [t \in Items |-> IF showing[t] \in Range(images) THEN showing[t] ELSE NoCover]
  BY DEF Puts, Reset
<1>2. c \in Covers
  BY <1>1 DEF CoverInv, RequestsTell
<1>3. /\ images \in Seq(Covers) /\ Contains(images, c)
      /\ \A x \in Fresh : Contains(memCache, x) => Contains(images, x)
  BY <1>2, UsedKeeps, CachedKeeps DEF CoverInv
<1> HIDE DEF images
<1>4. \A x : x \in Range(images) => Contains(images, x)
  BY <1>3 DEF Range, Contains
<1>5. showing' \in [Items -> Covers \cup {NoCover}]
  BY <1>1 DEF CoverInv, CoverTypes
<1>6. \A t \in inGrid' : showing'[t] # NoCover => Contains(memCache', showing'[t])
  BY <1>1, <1>4 DEF CoverInv, CoverTypes
<1> HIDE DEF c
<1>7. /\ request' \in [Requests ->
              [step : {"free", "queued", "running", "loaded", "put", "done", "fail", "cancel"},
               target : Items \cup {NoItem}, id : Covers \cup {NoCover},
               src : Covers \cup {NoCover}, canceled : BOOLEAN]]
      /\ request'[r].step = "put" /\ request'[r].id = request[r].id /\ request'[r].src = c
      /\ \A x \in Requests \ {r} : request'[x] = request[x]
  <2>1. /\ request \in [Requests ->
              [step : {"free", "queued", "running", "loaded", "put", "done", "fail", "cancel"},
               target : Items \cup {NoItem}, id : Covers \cup {NoCover},
               src : Covers \cup {NoCover}, canceled : BOOLEAN]]
        /\ request' = [request EXCEPT ![r].step = "put", ![r].src = c]
    BY <1>1 DEF CoverInv, CoverTypes
  <2> QED
    BY <1>2, <2>1
<1>8. \A x \in Requests : request'[x].step = "free" <=> request[x].step = "free"
  BY <1>1, <1>7
<1>9. RequestsTell'
  <2> SUFFICES ASSUME NEW x \in Requests
               PROVE  /\ request'[x].step # "free" => request'[x].id \in Covers
                      /\ request'[x].step \in {"put", "done"} =>
                            request'[x].src = request'[x].id /\ Contains(memCache', request'[x].id)
                      /\ request'[x].step = "fail" => request'[x].src = NoCover
                      /\ request'[x].step \in {"queued", "running", "loaded"} =>
                            request'[x].src = NoCover
    BY DEF RequestsTell
  <2>1. CASE x = r
    BY <1>1, <1>2, <1>3, <1>7, <2>1 DEF c
  <2>2. CASE x # r
    <3>1. request[x].step \in {"put", "done"} => request[x].id \in Fresh
      BY DEF Fresh
    <3> QED
      BY <1>1, <1>3, <1>7, <2>2, <3>1 DEF CoverInv, RequestsTell
  <2> QED
    BY <2>1, <2>2
<1> QED
  BY <1>1, <1>3, <1>5, <1>6, <1>7, <1>8, <1>9, CacheStepKeeps DEF CoverInv, CoverTypes

\* img_loader_result_cb: the request is forgotten, and maybe the loader freed.
LEMMA CallsBackKeeps ==
    ASSUME CoverInv, NEW r \in Requests, CallsBackCover(r)
    PROVE  CoverInv'
<1> DEFINE t == request[r].target
           binds == request[r].step # "cancel" /\ t # NoItem
<1>1. /\ request[r].step \in {"done", "fail", "cancel"}
      /\ showing' = IF binds THEN [showing EXCEPT ![t] = request[r].src] ELSE showing
      /\ reqlist' = RemoveFirst(reqlist, r)
      /\ request' = [request EXCEPT ![r] = NoRequest]
      /\ refcounter' = refcounter - 1
      /\ memCache' = IF refcounter = 1 THEN <<>> ELSE memCache
      /\ UNCHANGED <<gridUp, inGrid>>
  BY DEF CallsBackCover, UnrefsFor, Unrefs
<1>2. /\ CoverTypes /\ ListedOnce /\ RequestsTell /\ reqlist \in Seq(Requests)
      /\ ~gridUp => inGrid = {}
      /\ refcounter = Len(reqlist) + (IF gridUp THEN 1 ELSE 0)
      /\ \A u \in inGrid : showing[u] # NoCover => Contains(memCache, showing[u])
      /\ Len(reqlist) \in Nat /\ DOMAIN reqlist = 1..Len(reqlist)
  BY DEF CoverInv, CoverTypes, CoversAreKept
<1>3. Contains(reqlist, r)
  BY <1>1, <1>2 DEF ListedOnce, Contains
<1>4. /\ reqlist' \in Seq(Requests) /\ Len(reqlist) \in Nat \ {0} /\ Len(reqlist') = Len(reqlist) - 1
      /\ \A j, k \in DOMAIN reqlist' : reqlist'[j] = reqlist'[k] => j = k
      /\ \A x : (\E j \in DOMAIN reqlist' : reqlist'[j] = x) <=>
                   x # r /\ \E j \in DOMAIN reqlist : reqlist[j] = x
  <2>1. \A j, k \in DOMAIN reqlist : reqlist[j] = reqlist[k] => j = k
    BY <1>2 DEF ListedOnce
  <2>2. reqlist \in Seq(Requests) /\ reqlist' = RemoveFirst(reqlist, r)
    BY <1>1, <1>2
  <2> QED
    BY ONLY <1>3, <2>1, <2>2, TakenOut
<1>5. Len(reqlist) \in Nat /\ Len(reqlist) # 0
  BY <1>4
<1>6. /\ request' \in [Requests ->
              [step : {"free", "queued", "running", "loaded", "put", "done", "fail", "cancel"},
               target : Items \cup {NoItem}, id : Covers \cup {NoCover},
               src : Covers \cup {NoCover}, canceled : BOOLEAN]]
      /\ request'[r].step = "free"
      /\ \A x \in Requests \ {r} : request'[x] = request[x]
  BY <1>1, <1>2 DEF CoverTypes, NoRequest
<1>7. refcounter = 1 => ~gridUp /\ Len(reqlist) = 1
  <2> DEFINE n == Len(reqlist)
  <2>1. n \in Nat /\ n # 0 /\ refcounter = n + (IF gridUp THEN 1 ELSE 0)
    BY <1>2, <1>5
  <2> HIDE DEF n
  <2>2. refcounter = 1 => ~gridUp /\ n = 1
    BY <2>1
  <2> QED
    BY <2>2 DEF n
<1>8. t \in Items \cup {NoItem} /\ request[r].src \in Covers \cup {NoCover}
  BY <1>2 DEF CoverTypes
<1>9. CoverTypes'
  <2>1. showing' \in [Items -> Covers \cup {NoCover}]
    BY <1>1, <1>2, <1>8 DEF CoverTypes
  <2>2. memCache' \in Seq(Covers)
    <3>1. memCache \in Seq(Covers)
      BY ONLY <1>2, Zenon DEF CoverTypes
    <3>2. <<>> \in Seq(Covers)
      OBVIOUS
    <3>3. memCache' = <<>> \/ memCache' = memCache
      BY <1>1
    <3> QED
      BY ONLY <3>1, <3>2, <3>3, Zenon
  <2> QED
    BY <1>1, <1>2, <1>4, <1>6, <2>1, <2>2 DEF CoverTypes
<1>10. ListedOnce'
  <2>1. ASSUME NEW x \in Requests
        PROVE  request'[x].step # "free" <=> \E j \in DOMAIN reqlist' : reqlist'[j] = x
    <3>1. request[x].step # "free" <=> \E j \in DOMAIN reqlist : reqlist[j] = x
      BY <1>2 DEF ListedOnce
    <3>2. (\E j \in DOMAIN reqlist' : reqlist'[j] = x) <=> x # r /\ \E j \in DOMAIN reqlist : reqlist[j] = x
      BY <1>4
    <3>3. CASE x = r
      BY <1>6, <3>2, <3>3
    <3>4. CASE x # r
      BY <1>6, <3>1, <3>2, <3>4
    <3> QED
      BY <3>3, <3>4
  <2> QED
    BY <1>4, <2>1 DEF ListedOnce
\* The last reference: nobody has an image any more.
<1>11. refcounter = 1 => inGrid = {} /\ \A x \in Requests \ {r} : request[x].step = "free"
  <2> SUFFICES ASSUME refcounter = 1
               PROVE  inGrid = {} /\ \A x \in Requests \ {r} : request[x].step = "free"
    OBVIOUS
  <2>1. ~gridUp /\ Len(reqlist) = 1
    BY <1>7
  <2>2. \A j \in DOMAIN reqlist : reqlist[j] = r
    BY <1>2, <1>3, <2>1 DEF Contains
  <2> QED
    BY <1>2, <2>1, <2>2 DEF ListedOnce
<1>12. RequestsTell'
  BY <1>1, <1>2, <1>6, <1>11 DEF RequestsTell
<1>13. \A u \in inGrid' : showing'[u] # NoCover => Contains(memCache', showing'[u])
  <2> SUFFICES ASSUME NEW u \in inGrid, showing'[u] # NoCover
               PROVE  Contains(memCache', showing'[u])
    BY <1>1
  <2>1. memCache' = memCache
    BY <1>1, <1>11
  <2>2. u \in Items /\ showing \in [Items -> Covers \cup {NoCover}]
    BY <1>2 DEF CoverTypes
  <2>3. CASE binds /\ u = t
    <3>1. showing'[u] = request[r].src
      BY <1>1, <2>2, <2>3
    <3> QED
      BY <1>1, <1>2, <2>1, <2>3, <3>1 DEF RequestsTell
  <2>4. CASE ~(binds /\ u = t)
    <3>1. showing'[u] = showing[u]
      BY <1>1, <2>2, <2>4
    <3> QED
      BY <1>2, <2>1, <3>1
  <2> QED
    BY <2>3, <2>4
<1>14. refcounter' = Len(reqlist') + (IF gridUp' THEN 1 ELSE 0)
  <2> DEFINE n == Len(reqlist)
             m == Len(reqlist')
             v == IF gridUp THEN 1 ELSE 0
  <2>1. /\ n \in Nat /\ m = n - 1 /\ v \in Nat /\ refcounter = n + v /\ refcounter' = refcounter - 1
        /\ (IF gridUp' THEN 1 ELSE 0) = v
    BY <1>1, <1>2, <1>4
  <2> HIDE DEF n, m, v
  <2>2. refcounter' = m + v
    BY <2>1
  <2> QED
    BY <2>1, <2>2 DEF m
<1> QED
  BY <1>1, <1>2, <1>9, <1>10, <1>12, <1>13, <1>14 DEF CoverInv, CoversAreKept

\* coverloader_display: an image of the cache is shown at once, or a request is made.
LEMMA DisplaysKeeps ==
    ASSUME CoverInv, NEW t \in Items, NEW c \in Covers, Displays(t, c)
    PROVE  CoverInv'
<1> DEFINE r == CHOOSE x \in Free : TRUE
           old == Existing(t)
           cancels == [x \in Requests |->
               IF old # <<>> /\ x = old[1] /\ request[x].step \in {"queued", "running", "loaded", "put"}
               THEN [request[x] EXCEPT !.canceled = TRUE] ELSE request[x]]
           Req == [step : {"free", "queued", "running", "loaded", "put", "done", "fail", "cancel"},
                   target : Items \cup {NoItem}, id : Covers \cup {NoCover},
                   src : Covers \cup {NoCover}, canceled : BOOLEAN]
<1>1. /\ gridUp /\ t \in inGrid /\ memCache' = Used(c)
      /\ UNCHANGED <<gridUp, inGrid>>
  BY DEF Displays
<1>2. r \in Free
  BY DEF Displays
<1>3. r \in Requests /\ request[r].step = "free"
  BY <1>2 DEF Free
<1>4. /\ CoverTypes /\ ListedOnce /\ RequestsTell /\ reqlist \in Seq(Requests)
      /\ refcounter = Len(reqlist) + 1
      /\ \A u \in inGrid : showing[u] # NoCover => Contains(memCache, showing[u])
      /\ Len(reqlist) \in Nat /\ DOMAIN reqlist = 1..Len(reqlist)
      /\ request \in [Requests -> Req] /\ showing \in [Items -> Covers \cup {NoCover}]
      /\ inGrid \subseteq Items
  BY <1>1 DEF CoverInv, CoverTypes, CoversAreKept
<1>5. /\ memCache' \in Seq(Covers) /\ \A x : Contains(memCache, x) => Contains(memCache', x)
  BY <1>1, <1>4, UsedKeeps
\* To cancel another request does not change where it is.
<1>6. /\ cancels \in [Requests -> Req]
      /\ \A x \in Requests : /\ cancels[x].step = request[x].step /\ cancels[x].id = request[x].id
                             /\ cancels[x].src = request[x].src
  <2>1. ASSUME NEW x \in Requests
        PROVE  /\ cancels[x] \in Req
               /\ cancels[x].step = request[x].step /\ cancels[x].id = request[x].id
               /\ cancels[x].src = request[x].src
    <3>1. request[x] \in Req
      BY <1>4
    <3>2. cancels[x] \in {request[x], [request[x] EXCEPT !.canceled = TRUE]}
      OBVIOUS
    <3> QED
      BY <3>1, <3>2
  <2> QED
    BY <2>1
<1>7. CASE Contains(memCache, c)
  <2>1. /\ request' = cancels /\ showing' = [showing EXCEPT ![t] = c]
        /\ UNCHANGED <<reqlist, refcounter>>
    BY <1>7 DEF Displays
  <2> HIDE DEF cancels, old, r
  <2>2. showing' \in [Items -> Covers \cup {NoCover}]
    BY <1>4, <2>1
  <2>3. \A u \in inGrid' : showing'[u] # NoCover => Contains(memCache', showing'[u])
    BY <1>1, <1>4, <1>5, <1>7, <2>1
  <2>4. RequestsTell'
    BY <1>4, <1>5, <1>6, <2>1 DEF RequestsTell
  <2> QED
    BY <1>1, <1>4, <1>5, <1>6, <2>1, <2>2, <2>3, <2>4, CacheStepKeeps
<1>8. CASE ~Contains(memCache, c)
  <2> DEFINE new == [NoRequest EXCEPT !.step = "queued", !.target = t, !.id = c]
  <2>1. /\ request' = [cancels EXCEPT ![r] = new]
        /\ showing' = [showing EXCEPT ![t] = NoCover]
        /\ reqlist' = Append(reqlist, r) /\ refcounter' = refcounter + 1
    BY <1>8 DEF Displays
  <2>2. new \in Req /\ new.step = "queued" /\ new.id = c /\ new.src = NoCover
    BY DEF NoRequest
  <2> HIDE DEF cancels, old, r, new
  <2>3. /\ request' \in [Requests -> Req] /\ request'[r] = new
        /\ \A x \in Requests \ {r} : request'[x] = cancels[x]
    BY <1>3, <1>6, <2>1, <2>2
  <2>4. /\ reqlist' \in Seq(Requests) /\ Len(reqlist') = Len(reqlist) + 1
        /\ DOMAIN reqlist' = 1..(Len(reqlist) + 1)
        /\ reqlist'[Len(reqlist) + 1] = r
        /\ \A i \in DOMAIN reqlist : reqlist'[i] = reqlist[i]
    BY <1>3, <1>4, <2>1
  <2>5. showing' \in [Items -> Covers \cup {NoCover}]
    BY <1>4, <2>1
  <2>6. CoverTypes'
    BY <1>1, <1>4, <1>5, <2>3, <2>4, <2>5 DEF CoverTypes
  <2>7. \A i \in DOMAIN reqlist : reqlist[i] # r
    BY <1>3, <1>4 DEF ListedOnce
  <2>8. ListedOnce'
    <3>1. \A i, j \in DOMAIN reqlist' : reqlist'[i] = reqlist'[j] => i = j
      BY <1>4, <2>4, <2>7 DEF ListedOnce
    <3>2. ASSUME NEW x \in Requests
          PROVE  request'[x].step # "free" <=> \E i \in DOMAIN reqlist' : reqlist'[i] = x
      <4>1. CASE x = r
        <5>1. request'[x].step # "free"
          BY <2>2, <2>3, <4>1
        <5>2. reqlist'[Len(reqlist) + 1] = x /\ Len(reqlist) + 1 \in DOMAIN reqlist'
          BY <1>4, <2>4, <4>1
        <5> QED
          BY <5>1, <5>2
      <4>2. CASE x # r
        <5>1. request'[x].step = request[x].step
          BY <1>6, <2>3, <4>2
        <5>2. request[x].step # "free" <=> \E i \in DOMAIN reqlist : reqlist[i] = x
          BY <1>4 DEF ListedOnce
        <5>3. (\E i \in DOMAIN reqlist : reqlist[i] = x) => \E i \in DOMAIN reqlist' : reqlist'[i] = x
          BY <1>4, <2>4
        <5>4. ASSUME NEW i \in DOMAIN reqlist', reqlist'[i] = x
              PROVE  i \in DOMAIN reqlist /\ reqlist[i] = x
          <6>1. i # Len(reqlist) + 1
            BY <2>4, <4>2, <5>4
          <6>2. i \in DOMAIN reqlist
            BY <1>4, <2>4, <6>1
          <6> QED
            BY <2>4, <5>4, <6>2
        <5> QED
          BY <5>1, <5>2, <5>3, <5>4
      <4> QED
        BY <4>1, <4>2
    <3> QED
      BY <3>1, <3>2 DEF ListedOnce
  <2>9. RequestsTell'
    BY <1>4, <1>5, <1>6, <2>2, <2>3 DEF RequestsTell
  <2>10. \A u \in inGrid' : showing'[u] # NoCover => Contains(memCache', showing'[u])
    BY <1>1, <1>4, <1>5, <2>1
  <2>11. refcounter' = Len(reqlist') + (IF gridUp' THEN 1 ELSE 0)
    BY <1>1, <1>4, <2>1, <2>4
  <2> QED
    BY <1>1, <2>6, <2>8, <2>9, <2>10, <2>11 DEF CoverInv, CoversAreKept
<1> QED
  BY <1>7, <1>8

\* coverloader_new: nothing is left of a loader that was freed.
LEMMA NewLoaderKeeps == ASSUME CoverInv, NewLoader PROVE CoverInv'
<1>1. /\ ~gridUp /\ refcounter = 0 /\ gridUp' = TRUE /\ refcounter' = 1
      /\ UNCHANGED <<reqlist, request, inGrid, showing, memCache>>
  BY DEF NewLoader
<1>2. CoverTypes' /\ ListedOnce' /\ RequestsTell'
  BY <1>1 DEF CoverInv, CoverTypes, ListedOnce, RequestsTell
<1>3. Len(reqlist') = 0 /\ inGrid' = {}
  BY <1>1 DEF CoverInv, CoversAreKept, CoverTypes
<1>4. CoversAreKept'
  BY <1>1, <1>3 DEF CoversAreKept
<1> QED
  BY <1>1, <1>2, <1>4 DEF CoverInv

\* on_destroy_view: the cache goes with the last reference, when nobody loads any more.
LEMMA GridDeletedKeeps == ASSUME CoverInv, GridDeleted PROVE CoverInv'
<1>1. /\ gridUp /\ inGrid = {} /\ gridUp' = FALSE /\ refcounter' = refcounter - 1
      /\ memCache' = <<>> \/ memCache' = memCache
      /\ memCache' # memCache => refcounter = 1
      /\ UNCHANGED <<reqlist, request, inGrid, showing>>
  BY DEF GridDeleted, Unrefs
<1>2. /\ CoverTypes /\ ListedOnce /\ RequestsTell /\ reqlist \in Seq(Requests)
      /\ Len(reqlist) \in Nat /\ refcounter = Len(reqlist) + 1
  BY <1>1 DEF CoverInv, CoverTypes, CoversAreKept
<1>3. CoverTypes'
  <2>1. memCache \in Seq(Covers) /\ <<>> \in Seq(Covers)
    BY <1>2 DEF CoverTypes
  <2>2. memCache' \in Seq(Covers)
    BY ONLY <1>1, <2>1, Zenon
  <2> QED
    BY <1>1, <1>2, <2>2 DEF CoverTypes
<1>4. ListedOnce'
  BY <1>1, <1>2 DEF ListedOnce
<1>5. memCache' # memCache => \A r \in Requests : request[r].step = "free"
  BY <1>1, <1>2 DEF ListedOnce
<1>6. RequestsTell'
  <2>1. CASE memCache' = memCache
    BY <1>1, <1>2, <2>1 DEF RequestsTell
  <2>2. CASE memCache' # memCache
    BY <1>1, <1>5, <2>2 DEF RequestsTell
  <2> QED
    BY <2>1, <2>2
<1>7. CoversAreKept'
  BY <1>1, <1>2 DEF CoversAreKept
<1> QED
  BY <1>1, <1>3, <1>4, <1>6, <1>7 DEF CoverInv

\* An item comes, and shows no image yet.
LEMMA ItemCreatedKeeps == ASSUME CoverInv, NEW t \in Items, ItemCreated(t) PROVE CoverInv'
<1>1. /\ gridUp /\ inGrid' = inGrid \cup {t} /\ showing' = [showing EXCEPT ![t] = NoCover]
      /\ UNCHANGED <<refcounter, gridUp, reqlist, request, memCache>>
  BY DEF ItemCreated
<1>2. showing' \in [Items -> Covers \cup {NoCover}]
  BY <1>1 DEF CoverInv, CoverTypes
<1>3. \A u \in inGrid' : showing'[u] # NoCover => Contains(memCache', showing'[u])
  BY <1>1 DEF CoverInv, CoverTypes, CoversAreKept
<1>4. RequestsTell'
  BY <1>1 DEF CoverInv, RequestsTell
<1> QED
  BY <1>1, <1>2, <1>3, <1>4, CacheStepKeeps DEF CoverInv, CoverTypes

\* An item goes, and the requests that were registered with it forget it.
LEMMA ItemDeletedKeeps == ASSUME CoverInv, NEW t \in Items, ItemDeleted(t) PROVE CoverInv'
<1> DEFINE Req == [step : {"free", "queued", "running", "loaded", "put", "done", "fail", "cancel"},
                   target : Items \cup {NoItem}, id : Covers \cup {NoCover},
                   src : Covers \cup {NoCover}, canceled : BOOLEAN]
<1>1. /\ inGrid' = inGrid \ {t} /\ showing' = [showing EXCEPT ![t] = NoCover]
      /\ request' = [r \in Requests |-> IF Contains(deletedCb[t], r) /\ request[r].step # "free"
                                        THEN [request[r] EXCEPT !.target = NoItem] ELSE request[r]]
      /\ UNCHANGED <<refcounter, gridUp, reqlist, memCache>>
  BY DEF ItemDeleted, ItemTold
<1>2. /\ request \in [Requests -> Req] /\ showing \in [Items -> Covers \cup {NoCover}]
      /\ inGrid \subseteq Items /\ memCache \in Seq(Covers) /\ RequestsTell
      /\ \A u \in inGrid : showing[u] # NoCover => Contains(memCache, showing[u])
      /\ gridUp \/ inGrid = {}
  BY DEF CoverInv, CoverTypes, CoversAreKept
<1>3. /\ request' \in [Requests -> Req]
      /\ \A r \in Requests : /\ request'[r].step = request[r].step /\ request'[r].id = request[r].id
                             /\ request'[r].src = request[r].src
  <2>1. ASSUME NEW r \in Requests
        PROVE  /\ request'[r] \in Req
               /\ request'[r].step = request[r].step /\ request'[r].id = request[r].id
               /\ request'[r].src = request[r].src
    <3>1. request[r] \in Req
      BY <1>2
    <3>2. request'[r] \in {request[r], [request[r] EXCEPT !.target = NoItem]}
      BY <1>1
    <3> QED
      BY <3>1, <3>2
  <2>2. request' = [r \in Requests |-> request'[r]]
    BY <1>1
  <2> QED
    BY <2>1, <2>2
<1>4. RequestsTell'
  BY <1>1, <1>2, <1>3 DEF RequestsTell
<1>5. showing' \in [Items -> Covers \cup {NoCover}]
  BY <1>1, <1>2
<1>6. \A u \in inGrid' : showing'[u] # NoCover => Contains(memCache', showing'[u])
  BY <1>1, <1>2
<1> QED
  BY <1>1, <1>2, <1>3, <1>4, <1>5, <1>6, CacheStepKeeps

LEMMA NextCoverInv == ASSUME CoverInv, [CoverNext]_coverVars PROVE CoverInv'
<1>1. CASE UNCHANGED coverVars
  <2>1. CoverTypes' /\ ListedOnce' /\ RequestsTell' /\ CoversAreKept' /\ (~gridUp => inGrid = {})'
    BY <1>1 DEF CoverInv, CoverTypes, ListedOnce, RequestsTell, CoversAreKept, coverVars
  <2> QED
    BY <2>1 DEF CoverInv
<1>2. CASE NewLoader
  BY <1>2, NewLoaderKeeps
<1>3. CASE GridDeleted
  BY <1>3, GridDeletedKeeps
<1>4. ASSUME NEW t \in Items, ItemCreated(t) PROVE CoverInv'
  BY <1>4, ItemCreatedKeeps
<1>5. ASSUME NEW t \in Items, ItemDeleted(t) PROVE CoverInv'
  BY <1>5, ItemDeletedKeeps
<1>6. ASSUME NEW t \in Items, NEW c \in Covers, Displays(t, c) PROVE CoverInv'
  BY <1>6, DisplaysKeeps
<1>7. ASSUME NEW r \in Requests, Puts(r) PROVE CoverInv'
  BY <1>7, PutsKeeps
<1>8. ASSUME NEW r \in Requests, CallsBackCover(r) PROVE CoverInv'
  BY <1>8, CallsBackKeeps
<1>9. ASSUME NEW r \in Requests, Takes(r) PROVE CoverInv'
  <2>1. request[r].step = "queued"
    BY <1>9 DEF Takes
  <2>2. Advances(r, "cancel") \/ Advances(r, "running")
    BY <1>9 DEF Takes
  <2> QED
    BY <2>1, <2>2, AdvancesKeeps
<1>10. ASSUME NEW r \in Requests, NEW found \in BOOLEAN, LoadsCover(r, found) PROVE CoverInv'
  <2>1. request[r].step = "running"
    BY <1>10 DEF LoadsCover
  <2>2. Advances(r, "loaded") \/ Advances(r, "cancel") \/ Advances(r, "fail")
    BY <1>10 DEF LoadsCover
  <2> QED
    BY <2>1, <2>2, AdvancesKeeps
<1>11. ASSUME NEW r \in Requests, Finishes(r) PROVE CoverInv'
  <2>1. request[r].step = "put"
    BY <1>11 DEF Finishes
  <2>2. Advances(r, "cancel") \/ Advances(r, "done")
    BY <1>11 DEF Finishes
  <2> QED
    BY <2>1, <2>2, AdvancesKeeps
<1> QED
  BY <1>1, <1>2, <1>3, <1>4, <1>5, <1>6, <1>7, <1>8, <1>9, <1>10, <1>11 DEF CoverNext

\* However items, the view and the requests of the executor come and go.
THEOREM CoverInvariance == CoverSpec => []CoverInv
BY InitCoverInv, NextCoverInv, PTL DEF CoverSpec

\* The loader lives as long as the view and the requests, and what is shown stays cached.
THEOREM CoversStay == CoverSpec => []CoversAreKept
<1>1. CoverInv => CoversAreKept
  BY DEF CoverInv
<1> QED
  BY <1>1, CoverInvariance, PTL

-----------------------------------------------------------------------------
(* The launcher. Its listeners are the launcher and its rail while no stream *)
(* is above it, and none while one is. What can still start a stream by      *)
(* itself was due: each of what was is spent, on its way, or still armed.    *)

RailIds == {"rail1", "rail2"}
Listening(e) == \E i \in DOMAIN listeners : listeners[i] = e

Rails == [id : RailIds \cup {"none"}, host : Pcs \cup {NoHost}, def : BOOLEAN,
          loading : BOOLEAN, list : BOOLEAN]

LauncherTypes ==
    /\ rail \in Rails
    /\ listeners \in Seq(RailIds \cup {"launcher"})
    /\ notify \in [kind : {"none", "added", "updated", "removed"}, host : Pcs \cup {NoHost},
                   next : RailIds \cup {"launcher", "none"}]
    /\ selected \in Pcs \cup {NoHost} /\ resuming \in Pcs \cup {NoHost}
    /\ pairing \in Pcs \cup {NoHost} /\ params \in Pcs \cup {NoHost}
    /\ defRequested \in BOOLEAN /\ resumeDone \in BOOLEAN
    /\ streams \in {0, 1} /\ arms \in Nat /\ autos \in Nat

ListenersTell ==
    /\ \A i, j \in DOMAIN listeners : listeners[i] = listeners[j] => i = j
    /\ streams = 0 => \A e \in RailIds \cup {"launcher"} : Listening(e) <=> e \in {"launcher", rail.id}
    /\ streams # 0 => listeners = <<>>
    /\ rail.id = "none" => rail = NoRail

StreamCovers == streams # 0 => ~rail.def /\ ~rail.loading /\ params = NoHost

OnTheWay == streams = 0 /\ (rail.def \/ resuming # NoHost)
Coming == IF OnTheWay THEN 1 ELSE 0
Armed == ~resumeDone /\ ~defRequested
Arming == IF Armed THEN 1 ELSE 0

StartsAreDue ==
    /\ autos + Coming + Arming <= arms
    /\ autos # 0 => params = NoHost
    /\ arms >= 1

LauncherInv ==
    LauncherTypes /\ ListenersTell /\ StreamCovers /\ StartsAreDue /\ LauncherInOrder

LEMMA NoRailIsARail == NoRail \in Rails /\ NoRail.id = "none" /\ ~NoRail.def /\ ~NoRail.loading
BY DEF NoRail, Rails

LEMMA QuietIsTyped ==
    /\ Quiet \in [kind : {"none", "added", "updated", "removed"}, host : Pcs \cup {NoHost},
                  next : RailIds \cup {"launcher", "none"}]
    /\ Quiet.next = "none" /\ Quiet.kind = "none"
BY DEF Quiet

LEMMA InitLauncherInv == LauncherInit => LauncherInv
<1> SUFFICES ASSUME LauncherInit PROVE LauncherInv
  OBVIOUS
<1>1. PICK h \in Pcs \cup {NoHost} :
        /\ selected = h /\ defRequested = (h # NoHost /\ h = DefaultHost)
        /\ IF h = NoHost
           THEN rail = NoRail /\ listeners = <<"launcher">>
           ELSE /\ rail = [NoRail EXCEPT !.id = "rail1", !.host = h, !.def = defRequested]
                /\ listeners = <<"launcher", "rail1">>
  BY DEF LauncherInit
<1>2. /\ notify = Quiet /\ params = DefaultHost /\ resumeDone = FALSE /\ resuming = NoHost /\ pairing = NoHost
      /\ streams = 0 /\ arms = 1 /\ autos = 0
  BY DEF LauncherInit
<1>3. defRequested \in BOOLEAN
  BY <1>1
<1>4. /\ rail \in Rails /\ (rail.id = "none" => rail = NoRail)
      /\ listeners \in Seq(RailIds \cup {"launcher"})
      /\ \A i, j \in DOMAIN listeners : listeners[i] = listeners[j] => i = j
      /\ \A e \in RailIds \cup {"launcher"} : Listening(e) <=> e \in {"launcher", rail.id}
      /\ rail.def => defRequested
  <2>1. CASE h = NoHost
    <3>1. rail = NoRail /\ listeners = <<"launcher">>
      BY <1>1, <2>1
    <3>2. rail \in Rails /\ rail.id = "none" /\ ~rail.def
      BY <3>1, NoRailIsARail
    <3>3. listeners \in Seq({"launcher"}) /\ DOMAIN listeners = {1} /\ listeners[1] = "launcher"
      BY <3>1
    <3>4. listeners \in Seq(RailIds \cup {"launcher"})
      BY <3>1
    <3> QED
      BY <3>1, <3>2, <3>3, <3>4 DEF Listening, RailIds
  <2>2. CASE h # NoHost
    <3>1. /\ rail = [NoRail EXCEPT !.id = "rail1", !.host = h, !.def = defRequested]
          /\ listeners = <<"launcher", "rail1">>
      BY <1>1, <2>2
    <3>2. rail \in Rails /\ rail.id = "rail1" /\ rail.def = defRequested
      BY <1>3, <3>1 DEF NoRail, Rails, RailIds
    <3>3. DOMAIN listeners = {1, 2} /\ listeners[1] = "launcher" /\ listeners[2] = "rail1"
      BY <3>1
    <3>4. listeners \in Seq(RailIds \cup {"launcher"})
      BY <3>1 DEF RailIds
    <3> QED
      BY <3>2, <3>3, <3>4 DEF Listening, RailIds
  <2> QED
    BY <2>1, <2>2
<1>5. LauncherTypes
  <2>1. selected \in Pcs \cup {NoHost} /\ NoHost \in Pcs \cup {NoHost} /\ resumeDone \in BOOLEAN
    BY <1>1, <1>2
  <2>2. streams \in {0, 1} /\ arms \in Nat /\ autos \in Nat
    BY <1>2
  <2>3. params \in Pcs \cup {NoHost}
    BY <1>2, LauncherAssumption
  <2> QED
    BY ONLY <1>2, <1>3, <1>4, <2>1, <2>2, <2>3, QuietIsTyped, Zenon DEF LauncherTypes
<1>6. ListenersTell
  BY <1>2, <1>4 DEF ListenersTell
<1>7. StreamCovers
  BY <1>2 DEF StreamCovers
<1>8. StartsAreDue
  <2>1. ~OnTheWay \/ ~Armed
    BY <1>2, <1>4 DEF OnTheWay, Armed
  <2>2. Coming + Arming <= 1
    BY <2>1 DEF Coming, Arming
  <2> QED
    BY <1>2, <2>2 DEF StartsAreDue, Coming, Arming
<1>9. LauncherInOrder
  BY <1>2, QuietIsTyped DEF LauncherInOrder
<1> QED
  BY <1>5, <1>6, <1>7, <1>8, <1>9 DEF LauncherInv

\* What is due. Each of the five ways a step can change it keeps the balance.
LEMMA BalanceKeeps ==
    ASSUME LauncherTypes, StartsAreDue, autos' \in Nat, arms' \in Nat,
           \/ autos' = autos /\ arms' = arms /\ (OnTheWay' => OnTheWay) /\ (Armed' => Armed)
           \/ autos' = autos /\ arms' = arms /\ autos = 0 /\ ~Armed'
           \/ autos' = autos /\ arms' = arms /\ Armed /\ ~Armed'
           \/ autos' = autos + 1 /\ arms' = arms /\ OnTheWay /\ ~OnTheWay' /\ (Armed' => Armed)
           \/ autos' = autos /\ arms' = arms + 1 /\ (OnTheWay' => OnTheWay),
           autos' # 0 => params' = NoHost
    PROVE  StartsAreDue'
<1> DEFINE w == Coming
           a == Arming
           w2 == Coming'
           a2 == Arming'
<1>1. /\ w \in {0, 1} /\ a \in {0, 1} /\ w2 \in {0, 1} /\ a2 \in {0, 1}
      /\ OnTheWay => w = 1 
      /\ ~OnTheWay' => w2 = 0
      /\ (OnTheWay' => OnTheWay) => w2 <= w
      /\ Armed => a = 1
      /\ ~Armed' => a2 = 0
      /\ (Armed' => Armed) => a2 <= a
  BY DEF Coming, Arming
<1>2. /\ autos + w + a <= arms /\ arms >= 1 /\ autos \in Nat /\ arms \in Nat
      /\ autos' \in Nat /\ arms' \in Nat
  BY DEF StartsAreDue, LauncherTypes
<1> HIDE DEF w, a, w2, a2
<1>3. \/ autos' = autos /\ arms' = arms /\ w2 <= w /\ a2 <= a
      \/ autos' = autos /\ arms' = arms /\ autos = 0 /\ a2 = 0
      \/ autos' = autos /\ arms' = arms /\ a = 1 /\ a2 = 0
      \/ autos' = autos + 1 /\ arms' = arms /\ w = 1 /\ w2 = 0 /\ a2 <= a
      \/ autos' = autos /\ arms' = arms + 1 /\ w2 <= w
  BY <1>1
<1>4. autos' + w2 + a2 <= arms' /\ arms' >= 1
  <2>1. w \in {0, 1} /\ a \in {0, 1} /\ w2 \in {0, 1} /\ a2 \in {0, 1}
    BY <1>1
  <2>2. ASSUME NEW o \in Nat, NEW d \in Nat, NEW o2 \in Nat, NEW d2 \in Nat,
               o + w + a <= d, d >= 1,
               \/ o2 = o /\ d2 = d /\ w2 <= w /\ a2 <= a
               \/ o2 = o /\ d2 = d /\ o = 0 /\ a2 = 0
               \/ o2 = o /\ d2 = d /\ a = 1 /\ a2 = 0
               \/ o2 = o + 1 /\ d2 = d /\ w = 1 /\ w2 = 0 /\ a2 <= a
               \/ o2 = o /\ d2 = d + 1 /\ w2 <= w
        PROVE  o2 + w2 + a2 <= d2 /\ d2 >= 1
    BY ONLY <2>1, <2>2
  <2> QED
    BY ONLY <1>2, <1>3, <2>2, Zenon
<1>5. autos' + Coming' + Arming' <= arms'
  BY <1>4 DEF w2, a2
<1>6. autos' # 0 => params' = NoHost
  OBVIOUS
<1> QED
  BY ONLY <1>4, <1>5, <1>6, Zenon DEF StartsAreDue

\* A step outside a notification: nobody is about to be called.
LEMMA QuietStepKeeps ==
    ASSUME LauncherTypes', ListenersTell', StreamCovers', StartsAreDue', notify' = Quiet
    PROVE  LauncherInv'
<1>1. notify'.next = "none"
  BY QuietIsTyped
<1>2. autos' <= arms'
  <2> DEFINE w == Coming'
             a == Arming'
  <2>1. w \in Nat /\ a \in Nat
    BY DEF Coming, Arming
  <2>2. autos' + Coming' + Arming' <= arms' /\ autos' \in Nat /\ arms' \in Nat
    BY ONLY LauncherTypes', StartsAreDue', Zenon DEF StartsAreDue, LauncherTypes
  <2>3. autos' + w + a <= arms' /\ autos' \in Nat /\ arms' \in Nat
    BY <2>2
  <2>4. ASSUME NEW o \in Nat, NEW x \in Nat, NEW y \in Nat, NEW d \in Nat, o + x + y <= d
        PROVE  o <= d
    BY ONLY <2>4
  <2> HIDE DEF w, a
  <2> QED
    BY ONLY <2>1, <2>3, <2>4, Zenon
<1>3. LauncherInOrder'
  BY <1>1, <1>2 DEF LauncherInOrder, LauncherTypes
<1> QED
  BY <1>3 DEF LauncherInv

\* select_pc: the rail there was is not told any more, and the new one is.
LEMMA SelectsPcTells ==
    ASSUME LauncherTypes, NEW h \in Pcs, NEW game \in BOOLEAN,
           NEW s \in Seq(RailIds \cup {"none", "launcher"}),
           \A i, j \in DOMAIN s : s[i] = s[j] => i = j,
           \A i \in DOMAIN s : s[i] \in {"launcher", rail.id},
           \E i \in DOMAIN s : s[i] = "launcher",
           SelectsPc(h, game, s)
    PROVE  /\ rail' \in Rails /\ rail'.id \in RailIds /\ selected' = h
           /\ defRequested' \in BOOLEAN /\ (defRequested => defRequested')
           /\ rail'.def => game \/ (~defRequested /\ params = h /\ defRequested')
           /\ listeners' \in Seq(RailIds \cup {"launcher"})
           /\ \A i, j \in DOMAIN listeners' : listeners'[i] = listeners'[j] => i = j
           /\ \A e \in RailIds \cup {"launcher"} : Listening(e)' <=> e \in {"launcher", rail'.id}
<1> DEFINE id == IF rail.id = "rail1" THEN "rail2" ELSE "rail1"
           default == ~defRequested /\ params = h
           u == RemoveFirst(s, rail.id)
<1>1. /\ rail' = [id |-> id, host |-> h, def |-> game \/ default, loading |-> Available(h), list |-> FALSE]
      /\ listeners' = Append(u, id) /\ selected' = h
      /\ defRequested' = (defRequested \/ default)
  BY DEF SelectsPc
<1>2. id \in RailIds /\ rail.id \in RailIds \cup {"none"} /\ rail.id # "launcher" /\ "launcher" \notin RailIds
  BY DEF RailIds, LauncherTypes, Rails
<1>3. (game \/ default) \in BOOLEAN /\ Available(h) \in BOOLEAN
  BY DEF Available
<1> HIDE DEF id
<1>4. /\ rail' \in Rails /\ rail'.id = id /\ rail'.def = (game \/ default)
  BY <1>1, <1>2, <1>3 DEF Rails
<1>5. defRequested \in BOOLEAN
  BY DEF LauncherTypes
\* What is left of the listeners is the launcher.
<1>6. /\ u \in Seq(RailIds \cup {"none", "launcher"})
      /\ \A i, j \in DOMAIN u : u[i] = u[j] => i = j
      /\ \A x : (\E i \in DOMAIN u : u[i] = x) <=> x # rail.id /\ \E i \in DOMAIN s : s[i] = x
  <2>1. CASE Contains(s, rail.id)
    <3>1. s \in Seq(RailIds \cup {"none", "launcher"}) /\ \A i, j \in DOMAIN s : s[i] = s[j] => i = j
      OBVIOUS
    <3>2. u = RemoveFirst(s, rail.id)
      OBVIOUS
    <3> HIDE DEF u
    <3> QED
      BY ONLY <2>1, <3>1, <3>2, TakenOut
  <2>2. CASE ~Contains(s, rail.id)
    <3>1. u = s
      BY <2>2 DEF RemoveFirst, SelectInSeq, Contains
    <3>2. ~\E i \in DOMAIN s : s[i] = rail.id
      BY <2>2 DEF Contains
    <3> QED
      BY <3>1, <3>2
  <2> QED
    BY <2>1, <2>2
<1> HIDE DEF u
<1>7. \A x : (\E i \in DOMAIN u : u[i] = x) <=> x = "launcher"
  BY <1>2, <1>6
<1>8. u \in Seq({"launcher"}) /\ Len(u) \in Nat /\ DOMAIN u = 1..Len(u)
  <2>1. \A i \in DOMAIN u : u[i] = "launcher"
    BY <1>7
  <2>2. Len(u) \in Nat /\ DOMAIN u = 1..Len(u)
    BY <1>6
  <2> QED
    BY <1>6, <2>1, <2>2
<1>9. /\ DOMAIN listeners' = 1..(Len(u) + 1) /\ listeners'[Len(u) + 1] = id
      /\ \A i \in DOMAIN u : i \in DOMAIN listeners' /\ listeners'[i] = u[i] /\ i # Len(u) + 1
      /\ \A i \in DOMAIN listeners' : i = Len(u) + 1 \/ i \in DOMAIN u
      /\ Len(u) + 1 \in DOMAIN listeners'
  BY <1>1, <1>8
<1>10. listeners' \in Seq(RailIds \cup {"launcher"})
  <2>1. u \in Seq(RailIds \cup {"launcher"})
    BY <1>8
  <2> QED
    BY <1>1, <1>2, <2>1
<1>11. \A i \in DOMAIN u : u[i] # id
  BY <1>2, <1>7
<1>12. \A i, j \in DOMAIN listeners' : listeners'[i] = listeners'[j] => i = j
  BY <1>6, <1>9, <1>11
<1>13. ASSUME NEW e \in RailIds \cup {"launcher"}
       PROVE  Listening(e)' <=> e \in {"launcher", id}
  <2>1. Listening(e)' <=> \E i \in DOMAIN listeners' : listeners'[i] = e
    BY DEF Listening
  <2>2. (\E i \in DOMAIN listeners' : listeners'[i] = e) => e = id \/ \E i \in DOMAIN u : u[i] = e
    BY <1>9
  <2>3. (e = id \/ \E i \in DOMAIN u : u[i] = e) => \E i \in DOMAIN listeners' : listeners'[i] = e
    BY <1>9
  <2> QED
    BY <1>7, <2>1, <2>2, <2>3
<1> QED
  BY <1>1, <1>2, <1>4, <1>5, <1>10, <1>12, <1>13

\* launcher_launch_game: a stream above, with nobody that listens and nothing that loads.
LEMMA PushesTells ==
    ASSUME LauncherInv, streams = 0, Pushes
    PROVE  /\ rail' \in Rails /\ rail'.id = rail.id /\ ~rail'.def /\ ~rail'.loading
           /\ rail.id = "none" => rail' = NoRail
           /\ streams' = 1 /\ listeners' = <<>> /\ params' = NoHost
           /\ listeners' \in Seq(RailIds \cup {"launcher"})
<1>1. /\ rail' = [rail EXCEPT !.def = FALSE, !.loading = FALSE]
      /\ streams' = streams + 1 /\ listeners' = <<>> /\ params' = NoHost
  BY DEF Pushes
<1>2. rail \in Rails /\ (rail.id = "none" => rail = NoRail)
  BY DEF LauncherInv, LauncherTypes, ListenersTell
<1>3. rail' \in Rails /\ rail'.id = rail.id /\ ~rail'.def /\ ~rail'.loading
  BY <1>1, <1>2 DEF Rails
<1>4. rail.id = "none" => rail' = NoRail
  <2> SUFFICES ASSUME rail = NoRail PROVE rail' = NoRail
    BY <1>2
  <2> QED
    BY <1>1 DEF NoRail
<1>5. listeners' \in Seq(RailIds \cup {"launcher"})
  BY <1>1
<1> QED
  BY <1>1, <1>3, <1>4, <1>5

\* A step that leaves the listeners and what is due alone.
LEMMA CalmStepKeeps ==
    ASSUME LauncherInv, notify' = Quiet, arms' = arms, autos' = autos,
           UNCHANGED <<listeners, streams, params, defRequested, resumeDone, resuming>>,
           rail' \in Rails, rail'.id = rail.id, rail'.def = rail.def, rail' = rail \/ rail.id # "none",
           rail'.loading => rail.loading \/ streams = 0,
           selected' \in Pcs \cup {NoHost}, pairing' \in Pcs \cup {NoHost}
    PROVE  LauncherInv'
<1>1. LauncherTypes /\ ListenersTell /\ StreamCovers /\ StartsAreDue
  BY DEF LauncherInv
<1>2. /\ streams' = streams /\ listeners' = listeners /\ params' = params
      /\ defRequested' = defRequested /\ resumeDone' = resumeDone /\ resuming' = resuming
  OBVIOUS
<1>3. LauncherTypes'
  BY <1>1, <1>2, QuietIsTyped DEF LauncherTypes
<1>4. ListenersTell'
  <2>1. \A e \in RailIds \cup {"launcher"} : Listening(e)' <=> Listening(e)
    BY <1>2 DEF Listening
  <2>2. rail'.id = "none" => rail' = NoRail
    BY <1>1 DEF ListenersTell
  <2> QED
    BY <1>1, <1>2, <2>1, <2>2 DEF ListenersTell
<1>5. StreamCovers'
  BY <1>1, <1>2 DEF StreamCovers
<1>6. (OnTheWay' => OnTheWay) /\ (Armed' => Armed)
  BY <1>2 DEF OnTheWay, Armed
<1>7. /\ autos' \in Nat /\ arms' \in Nat /\ autos' = autos /\ arms' = arms
      /\ autos' # 0 => params' = NoHost
  BY <1>1, <1>2 DEF LauncherTypes, StartsAreDue
<1>8. StartsAreDue'
  BY ONLY <1>1, <1>6, <1>7, BalanceKeeps, Zenon
<1> QED
  BY <1>3, <1>4, <1>5, <1>8, QuietStepKeeps

\* A stream is put over the launcher, for a click or by itself.
LEMMA PushStepKeeps ==
    ASSUME LauncherInv, streams = 0, Pushes, notify' = Quiet, arms' = arms,
           UNCHANGED <<defRequested, resumeDone, resuming, selected, pairing>>,
           autos' = autos \/ (rail.def /\ autos' = autos + 1)
    PROVE  LauncherInv'
<1>1. LauncherTypes /\ ListenersTell /\ StreamCovers /\ StartsAreDue
  BY DEF LauncherInv
<1>2. /\ rail' \in Rails /\ rail'.id = rail.id /\ ~rail'.def /\ ~rail'.loading
      /\ rail.id = "none" => rail' = NoRail
      /\ streams' = 1 /\ listeners' = <<>> /\ params' = NoHost
      /\ listeners' \in Seq(RailIds \cup {"launcher"})
  BY PushesTells
<1>3. /\ defRequested' = defRequested /\ resumeDone' = resumeDone /\ resuming' = resuming
      /\ selected' = selected /\ pairing' = pairing
  OBVIOUS
<1>4. autos' \in Nat /\ arms' \in Nat
  BY <1>1 DEF LauncherTypes
<1>5. LauncherTypes'
  <2>1. selected' \in Pcs \cup {NoHost} /\ resuming' \in Pcs \cup {NoHost} /\ pairing' \in Pcs \cup {NoHost}
    BY <1>1, <1>3 DEF LauncherTypes
  <2>2. defRequested' \in BOOLEAN /\ resumeDone' \in BOOLEAN
    BY <1>1, <1>3 DEF LauncherTypes
  <2>3. streams' \in {0, 1}
    BY <1>2
  <2> QED
    BY <1>2, <1>4, <2>1, <2>2, <2>3, QuietIsTyped DEF LauncherTypes
<1>6. ListenersTell'
  <2>1. DOMAIN listeners' = {}
    BY <1>2
  <2>2. rail'.id = "none" => rail' = NoRail
    BY <1>2
  <2> QED
    BY <1>2, <2>1, <2>2 DEF ListenersTell
<1>7. StreamCovers'
  BY <1>2 DEF StreamCovers
<1>8. ~OnTheWay' /\ (Armed' => Armed) /\ (rail.def => OnTheWay)
  BY <1>2, <1>3 DEF OnTheWay, Armed
<1>9. StartsAreDue'
  BY ONLY <1>1, <1>2, <1>4, <1>8, BalanceKeeps, arms' = arms,
          autos' = autos \/ (rail.def /\ autos' = autos + 1), Zenon
<1> QED
  BY <1>5, <1>6, <1>7, <1>9, QuietStepKeeps

\* A host gets its rail. The stream that may come with it was on its way, or is the first.
LEMMA SelectStepKeeps ==
    ASSUME LauncherInv, NEW h \in Pcs, NEW game \in BOOLEAN,
           NEW s \in Seq(RailIds \cup {"none", "launcher"}),
           \A i, j \in DOMAIN s : s[i] = s[j] => i = j,
           \A i \in DOMAIN s : s[i] \in {"launcher", rail.id},
           \E i \in DOMAIN s : s[i] = "launcher",
           SelectsPc(h, game, s),
           streams' = 0, notify' = Quiet, params' = params, resumeDone' = resumeDone,
           arms' = arms, autos' = autos, pairing' \in Pcs \cup {NoHost}, resuming' \in Pcs \cup {NoHost},
           game => OnTheWay, resuming' # NoHost => OnTheWay
    PROVE  LauncherInv'
<1>1. LauncherTypes /\ ListenersTell /\ StreamCovers /\ StartsAreDue
  BY DEF LauncherInv
<1>2. /\ rail' \in Rails /\ rail'.id \in RailIds /\ selected' = h
      /\ defRequested' \in BOOLEAN /\ (defRequested => defRequested')
      /\ rail'.def => game \/ (~defRequested /\ params = h /\ defRequested')
      /\ listeners' \in Seq(RailIds \cup {"launcher"})
      /\ \A i, j \in DOMAIN listeners' : listeners'[i] = listeners'[j] => i = j
      /\ \A e \in RailIds \cup {"launcher"} : Listening(e)' <=> e \in {"launcher", rail'.id}
  BY <1>1, SelectsPcTells
<1>3. LauncherTypes'
  <2>1. selected' \in Pcs \cup {NoHost} /\ streams' \in {0, 1}
    BY <1>2
  <2>2. resumeDone' \in BOOLEAN
    BY <1>1 DEF LauncherTypes
  <2>3. arms' \in Nat /\ autos' \in Nat
    BY <1>1 DEF LauncherTypes
  <2>4. params' \in Pcs \cup {NoHost}
    BY <1>1 DEF LauncherTypes
  <2> QED
    BY <1>2, <2>1, <2>2, <2>3, <2>4, QuietIsTyped DEF LauncherTypes
<1>4. ListenersTell'
  <2>1. rail'.id # "none"
    BY <1>2 DEF RailIds
  <2> QED
    BY <1>2, <2>1 DEF ListenersTell
<1>5. StreamCovers'
  BY DEF StreamCovers
<1>6. autos' # 0 => params' = NoHost
  BY <1>1 DEF StartsAreDue
<1>7. Armed' => Armed
  BY <1>2 DEF Armed
<1>8. autos' \in Nat /\ arms' \in Nat
  BY <1>3 DEF LauncherTypes
<1>9. CASE rail'.def /\ ~game
  <2>1. params # NoHost /\ defRequested'
    BY <1>2, <1>9, LauncherAssumption
  <2>2. autos = 0 /\ ~Armed'
    BY <1>1, <2>1 DEF StartsAreDue, Armed
  <2> QED
    BY <1>1, <1>3, <1>4, <1>5, <1>6, <1>8, <2>2, BalanceKeeps, QuietStepKeeps
<1>10. CASE ~(rail'.def /\ ~game)
  <2>1. OnTheWay' => OnTheWay
    BY <1>10 DEF OnTheWay
  <2> QED
    BY <1>1, <1>3, <1>4, <1>5, <1>6, <1>7, <1>8, <2>1, BalanceKeeps, QuietStepKeeps
<1> QED
  BY <1>9, <1>10

\* Without a stream above it, the listeners are the launcher and its rail.
LEMMA ListenersFit ==
    ASSUME LauncherInv, streams = 0
    PROVE  /\ listeners \in Seq(RailIds \cup {"none", "launcher"})
           /\ \A i, j \in DOMAIN listeners : listeners[i] = listeners[j] => i = j
           /\ \A i \in DOMAIN listeners : listeners[i] \in {"launcher", rail.id}
           /\ \E i \in DOMAIN listeners : listeners[i] = "launcher"
<1>1. /\ listeners \in Seq(RailIds \cup {"launcher"})
      /\ \A i, j \in DOMAIN listeners : listeners[i] = listeners[j] => i = j
      /\ \A e \in RailIds \cup {"launcher"} : Listening(e) <=> e \in {"launcher", rail.id}
  BY DEF LauncherInv, LauncherTypes, ListenersTell
<1>2. \A i \in DOMAIN listeners : listeners[i] \in RailIds \cup {"launcher"}
  BY <1>1
<1>3. \A i \in DOMAIN listeners : listeners[i] \in {"launcher", rail.id}
  BY <1>1, <1>2 DEF Listening
<1>4. listeners \in Seq(RailIds \cup {"none", "launcher"})
  BY <1>1
<1> QED
  BY <1>1, <1>3, <1>4 DEF Listening

\* What the fields of the invariant say, for the steps.
LEMMA LauncherFacts ==
    ASSUME LauncherInv
    PROVE  /\ rail \in Rails /\ (rail.id = "none" => rail = NoRail)
           /\ selected \in Pcs \cup {NoHost} /\ resuming \in Pcs \cup {NoHost}
           /\ pairing \in Pcs \cup {NoHost} /\ params \in Pcs \cup {NoHost} /\ streams \in {0, 1}
           /\ rail.loading \/ rail.def => streams = 0
           /\ rail.loading \/ rail.def => rail.id # "none"
<1>1. LauncherTypes /\ ListenersTell /\ StreamCovers
  BY DEF LauncherInv
<1>2. rail.loading \/ rail.def => rail.id # "none"
  BY <1>1, NoRailIsARail DEF ListenersTell
<1> QED
  BY <1>1, <1>2 DEF LauncherTypes, ListenersTell, StreamCovers

LEMMA LoadedKeeps == ASSUME LauncherInv, Loaded PROVE LauncherInv'
<1>1. /\ rail.loading /\ notify' = Quiet /\ arms' = arms
      /\ UNCHANGED <<defRequested, resumeDone, resuming, selected, pairing>>
  BY DEF Loaded
<1>2. CASE rail.def
  <2>1. Pushes /\ autos' = autos + 1
    BY <1>2 DEF Loaded
  <2> QED
    BY <1>1, <1>2, <2>1, LauncherFacts, PushStepKeeps
<1>3. CASE ~rail.def
  <2>1. /\ rail' = [rail EXCEPT !.loading = FALSE, !.list = TRUE]
        /\ UNCHANGED <<listeners, params, streams, autos>>
    BY <1>3 DEF Loaded
  <2>2. rail' \in Rails /\ rail'.id = rail.id /\ rail'.def = rail.def /\ ~rail'.loading
    BY <2>1, LauncherFacts DEF Rails
  <2> QED
    BY <1>1, <2>1, <2>2, LauncherFacts, CalmStepKeeps
<1> QED
  BY <1>2, <1>3

LEMMA LoadFailsKeeps == ASSUME LauncherInv, LoadFails PROVE LauncherInv'
<1>1. /\ rail.loading /\ notify' = Quiet /\ rail' = [rail EXCEPT !.loading = FALSE]
      /\ arms' = arms /\ autos' = autos
      /\ UNCHANGED <<listeners, streams, params, defRequested, resumeDone, resuming, selected, pairing>>
  BY DEF LoadFails
<1>2. rail' \in Rails /\ rail'.id = rail.id /\ rail'.def = rail.def /\ ~rail'.loading
  BY <1>1, LauncherFacts DEF Rails
<1> QED
  BY <1>1, <1>2, LauncherFacts, CalmStepKeeps

LEMMA ClicksKeeps == ASSUME LauncherInv, Clicks PROVE LauncherInv'
<1>1. /\ streams = 0 /\ notify' = Quiet /\ arms' = arms /\ autos' = autos
      /\ UNCHANGED <<defRequested, resumeDone, resuming, selected, pairing>>
  BY DEF Clicks, UserCan, Shown
<1>2. CASE Pushes
  BY <1>1, <1>2, PushStepKeeps
<1>3. CASE UNCHANGED <<rail, listeners, params, streams>>
  BY <1>1, <1>3, LauncherFacts, CalmStepKeeps
<1> QED
  BY <1>2, <1>3 DEF Clicks

LEMMA ChoosesKeeps == ASSUME LauncherInv, Chooses PROVE LauncherInv'
<1>1. /\ menu # "none" /\ notify' = Quiet /\ arms' = arms /\ autos' = autos
      /\ UNCHANGED <<defRequested, resumeDone, resuming, selected, pairing>>
  BY DEF Chooses
<1>2. CASE Shown /\ Pushes
  BY <1>1, <1>2, PushStepKeeps DEF Shown
<1>3. CASE menu = rail.id /\ Shown /\ Reload /\ UNCHANGED <<listeners, params, streams>>
  <2>1. /\ rail' = [rail EXCEPT !.loading = TRUE] /\ rail.id # "none" /\ streams = 0
        /\ UNCHANGED <<listeners, params, streams>>
    BY <1>1, <1>3 DEF Reload, Shown
  <2>2. rail' \in Rails /\ rail'.id = rail.id /\ rail'.def = rail.def
    BY <2>1, LauncherFacts DEF Rails
  <2> QED
    BY <1>1, <2>1, <2>2, LauncherFacts, CalmStepKeeps
<1>4. CASE UNCHANGED <<rail, listeners, params, streams>>
  BY <1>1, <1>4, LauncherFacts, CalmStepKeeps
<1> QED
  BY <1>2, <1>3, <1>4 DEF Chooses

LEMMA SelectsKeeps == ASSUME LauncherInv, NEW h \in Pcs, Selects(h) PROVE LauncherInv'
<1>1. /\ streams = 0 /\ notify' = Quiet /\ arms' = arms /\ autos' = autos
      /\ UNCHANGED <<params, resumeDone, resuming, streams>>
  BY DEF Selects, UserCan, Shown
<1>2. CASE pairing' = h /\ UNCHANGED <<selected, rail, listeners, defRequested>>
  BY <1>1, <1>2, LauncherFacts, CalmStepKeeps
<1>3. CASE SelectsPc(h, FALSE, listeners) /\ UNCHANGED pairing
  <2>1. resuming' # NoHost => OnTheWay
    BY <1>1 DEF OnTheWay
  <2>2. streams' = 0 /\ params' = params /\ resumeDone' = resumeDone
        /\ pairing' \in Pcs \cup {NoHost} /\ resuming' \in Pcs \cup {NoHost}
    BY <1>1, <1>3, LauncherFacts
  <2> HIDE DEF SelectsPc
  <2> QED
    BY <1>1, <1>3, <2>1, <2>2, ListenersFit, SelectStepKeeps
<1> QED
  BY <1>2, <1>3 DEF Selects

LEMMA PairedKeeps == ASSUME LauncherInv, Paired PROVE LauncherInv'
<1>1. /\ pairing # NoHost /\ pairing' = NoHost /\ notify' = Quiet /\ arms' = arms /\ autos' = autos
      /\ UNCHANGED <<params, resumeDone, resuming, streams>>
  BY DEF Paired
<1>2. CASE Shown /\ SelectsPc(pairing, FALSE, listeners)
  <2>1. streams = 0 /\ (resuming' # NoHost => OnTheWay) /\ pairing \in Pcs
    BY <1>1, <1>2, LauncherFacts DEF OnTheWay, Shown
  <2>2. streams' = 0 /\ params' = params /\ resumeDone' = resumeDone
        /\ pairing' \in Pcs \cup {NoHost} /\ resuming' \in Pcs \cup {NoHost}
    BY <1>1, <2>1, LauncherFacts
  <2> QED
    BY <1>1, <1>2, <2>1, <2>2, ListenersFit, SelectStepKeeps
<1>3. CASE UNCHANGED <<selected, rail, listeners, defRequested>>
  BY <1>1, <1>3, LauncherFacts, CalmStepKeeps
<1> QED
  BY <1>2, <1>3 DEF Paired

\* A step that leaves everything as it is, but for what is posted and is forgotten.
LEMMA ForgottenKeeps ==
    ASSUME LauncherInv, notify' = Quiet, resuming' = NoHost, arms' = arms, autos' = autos,
           UNCHANGED <<selected, rail, listeners, defRequested, params, resumeDone, pairing, streams>>
    PROVE  LauncherInv'
<1>1. LauncherTypes /\ ListenersTell /\ StreamCovers /\ StartsAreDue
  BY DEF LauncherInv
<1>2. LauncherTypes'
  BY <1>1, QuietIsTyped DEF LauncherTypes
<1>3. ListenersTell'
  BY <1>1 DEF ListenersTell, Listening
<1>4. StreamCovers'
  BY <1>1 DEF StreamCovers
<1>5. (OnTheWay' => OnTheWay) /\ (Armed' => Armed)
  BY DEF OnTheWay, Armed
<1>6. autos' \in Nat /\ arms' \in Nat /\ (autos' # 0 => params' = NoHost)
  BY <1>1 DEF LauncherTypes, StartsAreDue
<1> QED
  BY <1>1, <1>2, <1>3, <1>4, <1>5, <1>6, BalanceKeeps, QuietStepKeeps

LEMMA ResumesKeeps == ASSUME LauncherInv, Resumes PROVE LauncherInv'
<1>1. /\ resuming # NoHost /\ resuming' = NoHost /\ notify' = Quiet /\ arms' = arms /\ autos' = autos
      /\ UNCHANGED <<params, resumeDone, pairing, streams>>
  BY DEF Resumes
<1>2. CASE Shown /\ SelectsPc(resuming, TRUE, listeners)
  <2>1. streams = 0 /\ OnTheWay /\ resuming \in Pcs
    BY <1>1, <1>2, LauncherFacts DEF OnTheWay, Shown
  <2>2. streams' = 0 /\ params' = params /\ resumeDone' = resumeDone
        /\ pairing' \in Pcs \cup {NoHost} /\ resuming' \in Pcs \cup {NoHost}
    BY <1>1, <2>1, LauncherFacts
  <2> QED
    BY <1>1, <1>2, <2>1, <2>2, ListenersFit, SelectStepKeeps
<1>3. CASE UNCHANGED <<selected, rail, listeners, defRequested>>
  BY <1>1, <1>3, ForgottenKeeps
<1> QED
  BY <1>2, <1>3 DEF Resumes

LEMMA ForegroundKeeps == ASSUME LauncherInv, Foreground PROVE LauncherInv'
<1>1. /\ notify' = Quiet /\ arms' = arms + 1 /\ resumeDone' = FALSE /\ autos' = autos
      /\ UNCHANGED <<selected, rail, listeners, params, defRequested, resuming, pairing, streams>>
  BY DEF Foreground
<1>2. LauncherTypes /\ ListenersTell /\ StreamCovers /\ StartsAreDue
  BY DEF LauncherInv
<1>3. autos' \in Nat /\ arms' \in Nat /\ (autos' # 0 => params' = NoHost)
  BY <1>1, <1>2 DEF LauncherTypes, StartsAreDue
<1>4. LauncherTypes'
  BY <1>1, <1>2, <1>3, QuietIsTyped DEF LauncherTypes
<1>5. ListenersTell'
  BY <1>1, <1>2 DEF ListenersTell, Listening
<1>6. StreamCovers'
  BY <1>1, <1>2 DEF StreamCovers
<1>7. OnTheWay' => OnTheWay
  BY <1>1 DEF OnTheWay
<1> QED
  BY <1>1, <1>2, <1>3, <1>4, <1>5, <1>6, <1>7, BalanceKeeps, QuietStepKeeps

\* The streaming fragment goes: the rail listens again, or a new one does.
LEMMA LeavesStreamKeeps == ASSUME LauncherInv, LeavesStream PROVE LauncherInv'
<1>1. /\ streams = 1 /\ streams' = 0 /\ notify' = Quiet /\ resuming = NoHost /\ resuming' = NoHost
      /\ arms' = arms /\ autos' = autos
      /\ UNCHANGED <<params, resumeDone, pairing>>
  BY DEF LeavesStream
<1>2. LauncherTypes /\ ListenersTell /\ StreamCovers /\ StartsAreDue
  BY DEF LauncherInv
<1>3. rail \in Rails /\ rail.id \in RailIds \cup {"none"}
  BY <1>2 DEF LauncherTypes, Rails
<1>4. CASE selected # NoHost
  <2> DEFINE s == <<rail.id, "launcher">>
  <2>1. SelectsPc(selected, FALSE, s)
    BY <1>4 DEF LeavesStream
  <2>2. /\ s \in Seq(RailIds \cup {"none", "launcher"}) /\ DOMAIN s = {1, 2}
        /\ s[1] = rail.id /\ s[2] = "launcher"
    BY <1>3
  <2> HIDE DEF s
  <2>3. selected \in Pcs /\ rail.id # "launcher"
    BY <1>3, <1>4, LauncherFacts DEF RailIds
  <2>4. /\ \A i, j \in DOMAIN s : s[i] = s[j] => i = j
        /\ \A i \in DOMAIN s : s[i] \in {"launcher", rail.id}
        /\ \E i \in DOMAIN s : s[i] = "launcher"
    BY <2>2, <2>3
  <2>5. params' = params /\ resumeDone' = resumeDone
        /\ pairing' \in Pcs \cup {NoHost} /\ resuming' \in Pcs \cup {NoHost}
    BY <1>1, LauncherFacts
  <2> QED
    BY <1>1, <2>1, <2>2, <2>3, <2>4, <2>5, SelectStepKeeps
<1>5. CASE selected = NoHost
  <2>1. /\ listeners' = IF rail = NoRail THEN <<"launcher">> ELSE <<rail.id, "launcher">>
        /\ UNCHANGED <<selected, rail, defRequested>>
    BY <1>5 DEF LeavesStream
  <2>2. /\ listeners' \in Seq(RailIds \cup {"launcher"})
        /\ \A i, j \in DOMAIN listeners' : listeners'[i] = listeners'[j] => i = j
        /\ \A e \in RailIds \cup {"launcher"} : Listening(e)' <=> e \in {"launcher", rail'.id}
    <3>1. CASE rail = NoRail
      <4>1. listeners' = <<"launcher">> /\ rail'.id = "none"
        BY <2>1, <3>1, NoRailIsARail
      <4>2. listeners' \in Seq(RailIds \cup {"launcher"}) /\ DOMAIN listeners' = {1} /\ listeners'[1] = "launcher"
        BY <4>1
      <4> QED
        BY <4>1, <4>2 DEF Listening, RailIds
    <3>2. CASE rail # NoRail
      <4>1. listeners' = <<rail.id, "launcher">> /\ rail'.id = rail.id /\ rail.id \in RailIds
        BY <1>3, <2>1, <3>2, LauncherFacts
      <4>2. /\ listeners' \in Seq(RailIds \cup {"launcher"}) /\ DOMAIN listeners' = {1, 2}
            /\ listeners'[1] = rail.id /\ listeners'[2] = "launcher"
        BY <4>1
      <4> QED
        BY <4>1, <4>2 DEF Listening, RailIds
    <3> QED
      BY <3>1, <3>2
  <2>3. LauncherTypes'
    BY <1>1, <1>2, <2>1, <2>2, QuietIsTyped DEF LauncherTypes
  <2>4. ListenersTell'
    BY <1>1, <1>2, <2>1, <2>2 DEF ListenersTell
  <2>5. StreamCovers'
    BY <1>1 DEF StreamCovers
  <2>6. ~OnTheWay' /\ (Armed' => Armed)
    BY <1>1, <1>2, <2>1 DEF OnTheWay, Armed, StreamCovers
  <2>7. autos' \in Nat /\ arms' \in Nat /\ (autos' # 0 => params' = NoHost)
    BY <1>1, <1>2 DEF LauncherTypes, StartsAreDue
  <2> QED
    BY <1>1, <1>2, <2>3, <2>4, <2>5, <2>6, <2>7, BalanceKeeps, QuietStepKeeps
<1> QED
  BY <1>4, <1>5

-----------------------------------------------------------------------------
(* Notifications.                                                            *)

LEMMA FirstListens == LauncherInv => First \in {"none"} \cup Range(listeners) /\ First \in RailIds \cup {"launcher", "none"}
<1> SUFFICES ASSUME LauncherInv PROVE First \in {"none"} \cup Range(listeners) /\ First \in RailIds \cup {"launcher", "none"}
  OBVIOUS
<1>1. listeners \in Seq(RailIds \cup {"launcher"})
  BY DEF LauncherInv, LauncherTypes
<1>2. CASE listeners = <<>>
  BY <1>2 DEF First
<1>3. CASE listeners # <<>>
  <2>1. First = listeners[1] /\ 1 \in DOMAIN listeners /\ listeners[1] \in RailIds \cup {"launcher"}
    BY <1>1, <1>3 DEF First
  <2> QED
    BY <2>1 DEF Range
<1> QED
  BY <1>2, <1>3

\* Who is called after a listener is another one.
LEMMA NextListens ==
    ASSUME LauncherInv, NEW l
    PROVE  /\ NextOf(l) \in {"none"} \cup Range(listeners)
           /\ NextOf(l) \in RailIds \cup {"launcher", "none"}
           /\ NextOf(l) # "none" /\ (\E i \in DOMAIN listeners : listeners[i] = l) => NextOf(l) # l
<1> DEFINE after == {i \in DOMAIN listeners : i > 1 /\ listeners[i - 1] = l}
           k == CHOOSE i \in after : TRUE
<1>1. /\ listeners \in Seq(RailIds \cup {"launcher"})
      /\ \A i, j \in DOMAIN listeners : listeners[i] = listeners[j] => i = j
  BY DEF LauncherInv, LauncherTypes, ListenersTell
<1>2. CASE after = {}
  BY <1>2 DEF NextOf
<1>3. CASE after # {}
  <2>1. NextOf(l) = listeners[k] /\ k \in after
    BY <1>3 DEF NextOf
  <2> HIDE DEF k
  <2>2. k \in DOMAIN listeners /\ k > 1 /\ listeners[k - 1] = l /\ listeners[k] \in RailIds \cup {"launcher"}
    BY <1>1, <2>1
  <2>3. k - 1 \in DOMAIN listeners /\ k - 1 # k
    BY <1>1, <2>2
  <2>4. listeners[k] # l
    BY <1>1, <2>2, <2>3
  <2>5. listeners[k] \in Range(listeners)
    BY <2>2 DEF Range
  <2> QED
    BY <2>1, <2>2, <2>4, <2>5
<1> QED
  BY <1>2, <1>3

\* A step of a notification that leaves the rail and its listeners alone.
LEMMA TellingStepKeeps ==
    ASSUME LauncherInv, UNCHANGED <<rail, listeners, params, defRequested, pairing, streams, arms, autos>>,
           notify' \in [kind : {"none", "added", "updated", "removed"}, host : Pcs \cup {NoHost},
                        next : RailIds \cup {"launcher", "none"}],
           notify'.next \in {"none"} \cup Range(listeners),
           selected' \in Pcs \cup {NoHost}, resuming' \in Pcs \cup {NoHost},
           \/ UNCHANGED <<resumeDone, resuming>>
           \/ Armed /\ resumeDone' = TRUE
    PROVE  LauncherInv'
<1>1. LauncherTypes /\ ListenersTell /\ StreamCovers /\ StartsAreDue
  BY DEF LauncherInv
<1>2. /\ rail' = rail /\ listeners' = listeners /\ params' = params /\ defRequested' = defRequested
      /\ pairing' = pairing /\ streams' = streams /\ arms' = arms /\ autos' = autos
  OBVIOUS
<1>3. resumeDone' \in BOOLEAN
  BY <1>1 DEF LauncherTypes
<1>4. LauncherTypes'
  BY <1>1, <1>2, <1>3 DEF LauncherTypes
<1>5. ListenersTell'
  BY <1>1, <1>2 DEF ListenersTell, Listening
<1>6. StreamCovers'
  BY <1>1, <1>2 DEF StreamCovers
<1>7. autos' \in Nat /\ arms' \in Nat /\ (autos' # 0 => params' = NoHost)
  BY <1>1, <1>2 DEF LauncherTypes, StartsAreDue
<1>8. \/ (OnTheWay' => OnTheWay) /\ (Armed' => Armed)
      \/ Armed /\ ~Armed'
  <2>1. CASE UNCHANGED <<resumeDone, resuming>>
    BY <1>2, <2>1 DEF OnTheWay, Armed
  <2>2. CASE Armed /\ resumeDone' = TRUE
    BY <2>2 DEF Armed
  <2> QED
    BY <2>1, <2>2
<1>9. StartsAreDue'
  BY ONLY <1>1, <1>2, <1>7, <1>8, BalanceKeeps, Zenon
<1>10. Range(listeners)' = Range(listeners) /\ autos <= arms /\ streams <= 1
  BY <1>2 DEF LauncherInv, LauncherInOrder, Range
<1>11. LauncherInOrder'
  BY <1>2, <1>10 DEF LauncherInOrder
<1> QED
  BY <1>4, <1>5, <1>6, <1>9, <1>11 DEF LauncherInv

LEMMA UpsertsKeeps == ASSUME LauncherInv, NEW h \in Pcs, Upserts(h) PROVE LauncherInv'
<1>1. /\ notify' = [kind |-> IF InList(h) THEN "updated" ELSE "added", host |-> h, next |-> First]
      /\ UNCHANGED <<selected, rail, listeners, params, defRequested, resumeDone, resuming,
                     pairing, streams, arms, autos>>
  BY DEF Upserts
<1>2. notify' \in [kind : {"none", "added", "updated", "removed"}, host : Pcs \cup {NoHost},
                   next : RailIds \cup {"launcher", "none"}] /\ notify'.next = First
  BY <1>1, FirstListens
<1> QED
  BY <1>1, <1>2, FirstListens, LauncherFacts, TellingStepKeeps

LEMMA ForgetsHostKeeps == ASSUME LauncherInv, NEW h \in Pcs, ForgetsHost(h) PROVE LauncherInv'
<1>1. /\ notify' = [kind |-> "removed", host |-> h, next |-> First]
      /\ selected' = IF selected = h THEN NoHost ELSE selected
      /\ UNCHANGED <<rail, listeners, params, defRequested, resumeDone, resuming,
                     pairing, streams, arms, autos>>
  BY DEF ForgetsHost
<1>2. notify' \in [kind : {"none", "added", "updated", "removed"}, host : Pcs \cup {NoHost},
                   next : RailIds \cup {"launcher", "none"}] /\ notify'.next = First
  BY <1>1, FirstListens
<1> QED
  BY <1>1, <1>2, FirstListens, LauncherFacts, TellingStepKeeps

\* The rail of a host that was forgotten: who comes next is the launcher, or nobody.
LEMMA RailGoesKeeps ==
    ASSUME LauncherInv, streams = 0, notify.next = rail.id, rail.id \in RailIds,
           rail' = NoRail, listeners' = RemoveFirst(listeners, rail.id),
           notify' = [notify EXCEPT !.next = NextOf(notify.next)],
           UNCHANGED <<selected, params, defRequested, resumeDone, resuming, pairing, streams, arms, autos>>
    PROVE  LauncherInv'
<1>1. LauncherTypes /\ ListenersTell /\ StreamCovers /\ StartsAreDue
  BY DEF LauncherInv
<1>2. /\ selected' = selected /\ params' = params /\ defRequested' = defRequested /\ resumeDone' = resumeDone
      /\ resuming' = resuming /\ pairing' = pairing /\ streams' = streams /\ arms' = arms /\ autos' = autos
  OBVIOUS
<1>3. /\ listeners \in Seq(RailIds \cup {"launcher"})
      /\ \A i, j \in DOMAIN listeners : listeners[i] = listeners[j] => i = j
      /\ \A e \in RailIds \cup {"launcher"} : Listening(e) <=> e \in {"launcher", rail.id}
  BY <1>1 DEF LauncherTypes, ListenersTell
<1>4. Contains(listeners, rail.id)
  BY <1>3 DEF Listening, Contains
<1>5. /\ listeners' \in Seq(RailIds \cup {"launcher"})
      /\ \A i, j \in DOMAIN listeners' : listeners'[i] = listeners'[j] => i = j
      /\ \A j \in DOMAIN listeners' : listeners'[j] # rail.id /\ \E k \in DOMAIN listeners : listeners[k] = listeners'[j]
      /\ \A k \in DOMAIN listeners : listeners[k] # rail.id => \E j \in DOMAIN listeners' : listeners'[j] = listeners[k]
  <2>1. listeners' = RemoveFirst(listeners, rail.id)
    OBVIOUS
  <2>2. /\ listeners \in Seq(RailIds \cup {"launcher"})
        /\ \A i, j \in DOMAIN listeners : listeners[i] = listeners[j] => i = j
    BY <1>3
  <2>3. listeners' \in Seq(RailIds \cup {"launcher"})
    BY ONLY <1>4, <2>1, <2>2, TakenOut
  <2>4. \A i, j \in DOMAIN listeners' : listeners'[i] = listeners'[j] => i = j
    BY ONLY <1>4, <2>1, <2>2, TakenOut
  <2>5. \A j \in DOMAIN listeners' : listeners'[j] # rail.id /\ \E k \in DOMAIN listeners : listeners[k] = listeners'[j]
    BY ONLY <1>4, <2>1, <2>2, TakenOut
  <2>6. \A k \in DOMAIN listeners : listeners[k] # rail.id => \E j \in DOMAIN listeners' : listeners'[j] = listeners[k]
    BY ONLY <1>4, <2>1, <2>2, TakenOut
  <2> QED
    BY ONLY <2>3, <2>4, <2>5, <2>6
<1>6. rail' \in Rails /\ rail'.id = "none" /\ ~rail'.def /\ ~rail'.loading
  BY NoRailIsARail
<1>7. \A e \in RailIds \cup {"launcher"} : Listening(e)' <=> e \in {"launcher", rail'.id}
  BY <1>3, <1>5, <1>6 DEF Listening, RailIds
<1>8. /\ notify' \in [kind : {"none", "added", "updated", "removed"}, host : Pcs \cup {NoHost},
                      next : RailIds \cup {"launcher", "none"}]
      /\ notify'.next = NextOf(rail.id)
  <2>1. notify \in [kind : {"none", "added", "updated", "removed"}, host : Pcs \cup {NoHost},
                    next : RailIds \cup {"launcher", "none"}]
    BY <1>1 DEF LauncherTypes
  <2>2. NextOf(notify.next) \in RailIds \cup {"launcher", "none"}
    BY NextListens
  <2> QED
    BY <2>1, <2>2
<1>9. notify'.next \in {"none"} \cup Range(listeners)'
  <2>1. NextOf(rail.id) \in {"none"} \cup Range(listeners)
        /\ (NextOf(rail.id) # "none" => NextOf(rail.id) # rail.id)
    BY <1>4, NextListens DEF Contains
  <2>2. ASSUME NEW x \in Range(listeners), x # rail.id PROVE x \in Range(listeners)'
    <3>1. PICK i \in DOMAIN listeners : listeners[i] = x
      BY DEF Range
    <3>2. PICK j \in DOMAIN listeners' : listeners'[j] = x
      BY <1>5, <2>2, <3>1
    <3> QED
      BY <3>2 DEF Range
  <2> QED
    BY <1>8, <2>1, <2>2
<1>10. LauncherTypes'
  BY <1>1, <1>2, <1>5, <1>6, <1>8 DEF LauncherTypes
<1>11. ListenersTell'
  BY <1>2, <1>5, <1>7 DEF ListenersTell
<1>12. StreamCovers'
  BY <1>2 DEF StreamCovers
<1>13. (OnTheWay' => OnTheWay) /\ (Armed' => Armed)
  BY <1>2, <1>6 DEF OnTheWay, Armed
<1>14. autos' \in Nat /\ arms' \in Nat /\ (autos' # 0 => params' = NoHost)
  BY <1>1, <1>2 DEF LauncherTypes, StartsAreDue
<1>15. StartsAreDue'
  BY ONLY <1>1, <1>2, <1>13, <1>14, BalanceKeeps, Zenon
<1>16. LauncherInOrder'
  <2>1. autos <= arms /\ streams <= 1
    BY DEF LauncherInv, LauncherInOrder
  <2> QED
    BY <1>2, <1>9, <2>1 DEF LauncherInOrder
<1> QED
  BY <1>10, <1>11, <1>12, <1>15, <1>16 DEF LauncherInv

\* The rail loads again, in a notification.
LEMMA RailReloadsKeeps ==
    ASSUME LauncherInv, streams = 0, rail.id # "none", Reload,
           notify' \in [kind : {"none", "added", "updated", "removed"}, host : Pcs \cup {NoHost},
                        next : RailIds \cup {"launcher", "none"}],
           notify'.next \in {"none"} \cup Range(listeners),
           UNCHANGED <<selected, listeners, params, defRequested, resumeDone, resuming, pairing, streams,
                       arms, autos>>
    PROVE  LauncherInv'
<1>1. LauncherTypes /\ ListenersTell /\ StreamCovers /\ StartsAreDue
  BY DEF LauncherInv
<1>2. /\ selected' = selected /\ params' = params /\ defRequested' = defRequested /\ resumeDone' = resumeDone
      /\ resuming' = resuming /\ pairing' = pairing /\ streams' = streams /\ arms' = arms /\ autos' = autos
      /\ listeners' = listeners
  OBVIOUS
<1>3. rail' \in Rails /\ rail'.id = rail.id /\ rail'.def = rail.def
  BY LauncherFacts DEF Reload, Rails
<1>4. LauncherTypes'
  BY <1>1, <1>2, <1>3 DEF LauncherTypes
<1>5. ListenersTell'
  BY <1>1, <1>2, <1>3 DEF ListenersTell, Listening
<1>6. StreamCovers'
  BY <1>2 DEF StreamCovers
<1>7. (OnTheWay' => OnTheWay) /\ (Armed' => Armed)
  BY <1>2, <1>3 DEF OnTheWay, Armed
<1>8. autos' \in Nat /\ arms' \in Nat /\ (autos' # 0 => params' = NoHost)
  BY <1>1, <1>2 DEF LauncherTypes, StartsAreDue
<1>9. StartsAreDue'
  BY ONLY <1>1, <1>2, <1>7, <1>8, BalanceKeeps, Zenon
<1>10. Range(listeners)' = Range(listeners) /\ autos <= arms /\ streams <= 1
  BY <1>2 DEF LauncherInv, LauncherInOrder, Range
<1>11. LauncherInOrder'
  BY <1>2, <1>10 DEF LauncherInOrder
<1> QED
  BY <1>4, <1>5, <1>6, <1>9, <1>11 DEF LauncherInv

\* pcmanager_listeners_notify: who comes next is read before the listener is called.
LEMMA NotifiesKeeps == ASSUME LauncherInv, Notifies PROVE LauncherInv'
<1>1. UNCHANGED <<params, pairing, streams, arms, autos>>
  BY DEF Notifies
<1>2. notify \in [kind : {"none", "added", "updated", "removed"}, host : Pcs \cup {NoHost},
                  next : RailIds \cup {"launcher", "none"}]
  BY DEF LauncherInv, LauncherTypes
<1>3. CASE notify.next = "none"
  <2>1. notify' = Quiet /\ UNCHANGED <<selected, rail, listeners, defRequested, resumeDone, resuming>>
    BY <1>3 DEF Notifies
  <2> QED
    BY <1>1, <2>1, LauncherFacts, CalmStepKeeps
<1>4. CASE notify.next # "none"
  <2>1. notify' = [notify EXCEPT !.next = NextOf(notify.next)]
    BY <1>4 DEF Notifies
  <2>2. NextOf(notify.next) \in RailIds \cup {"launcher", "none"}
        /\ NextOf(notify.next) \in {"none"} \cup Range(listeners)
    BY NextListens
  <2>3. /\ notify' \in [kind : {"none", "added", "updated", "removed"}, host : Pcs \cup {NoHost},
                        next : RailIds \cup {"launcher", "none"}]
        /\ notify'.next \in {"none"} \cup Range(listeners)
    BY <1>2, <2>1, <2>2
  <2>4. notify.next \in Range(listeners)
    BY <1>4 DEF LauncherInv, LauncherInOrder
  <2>5. streams = 0
    BY <2>4 DEF LauncherInv, ListenersTell, Range
  <2>6. CASE notify.next = "launcher"
    <3>1. LauncherHears
      BY <1>4, <2>6 DEF Notifies
    <3>2. CASE notify.kind = "added" /\ Populates /\ UNCHANGED <<rail, listeners, defRequested, resumeDone, resuming>>
      <4>1. selected' \in Pcs \cup {NoHost}
        BY <3>2, LauncherFacts DEF Populates
      <4> QED
        BY <1>1, <2>3, <3>2, <4>1, LauncherFacts, TellingStepKeeps
    <3>3. CASE TriesResume(notify.host)
      <4>1. /\ UNCHANGED <<selected, rail, listeners, defRequested>>
            /\ \/ Armed /\ resumeDone' = TRUE /\ resuming' = notify.host
               \/ UNCHANGED <<resumeDone, resuming>>
        BY <3>3 DEF TriesResume, Armed
      <4>2. selected' \in Pcs \cup {NoHost} /\ resuming' \in Pcs \cup {NoHost}
        BY <1>2, <4>1, LauncherFacts
      <4> QED
        BY <1>1, <2>3, <4>1, <4>2, TellingStepKeeps
    <3>4. CASE UNCHANGED <<selected, rail, listeners, defRequested, resumeDone, resuming>>
      BY <1>1, <2>3, <3>4, LauncherFacts, TellingStepKeeps
    <3> QED
      BY <3>1, <3>2, <3>3, <3>4 DEF LauncherHears
  <2>7. CASE notify.next # "launcher"
    <3>1. RailHears
      BY <1>4, <2>7 DEF Notifies
    <3>2. notify.next = rail.id /\ rail.id \in RailIds
      <4>1. PICK i \in DOMAIN listeners : listeners[i] = notify.next
        BY <2>4 DEF Range
      <4>2. notify.next \in RailIds
        BY <1>2, <1>4, <2>7
      <4>3. listeners[i] \in {"launcher", rail.id}
        BY <2>5, ListenersFit
      <4> QED
        BY <2>7, <4>1, <4>2, <4>3
    <3>3. UNCHANGED <<selected, defRequested, resumeDone, resuming>>
      BY <3>1 DEF RailHears
    <3>4. CASE Reload /\ UNCHANGED listeners
      <4>1. rail.id # "none"
        BY <3>2 DEF RailIds
      <4> QED
        BY <1>1, <2>3, <2>5, <3>3, <3>4, <4>1, RailReloadsKeeps
    <3>5. CASE rail' = NoRail /\ listeners' = RemoveFirst(listeners, rail.id)
      BY <1>1, <2>1, <2>5, <3>2, <3>3, <3>5, RailGoesKeeps
    <3>6. CASE UNCHANGED <<rail, listeners>>
      BY <1>1, <2>3, <3>3, <3>6, LauncherFacts, TellingStepKeeps
    <3> QED
      BY <3>1, <3>4, <3>5, <3>6 DEF RailHears
  <2> QED
    BY <2>6, <2>7
<1> QED
  BY <1>3, <1>4

LEMMA NextLauncherInv == ASSUME LauncherInv, [LauncherNext]_launcherVars PROVE LauncherInv'
<1>1. CASE UNCHANGED launcherVars
  <2>1. notify' = notify /\ UNCHANGED <<rail, listeners, params, defRequested, pairing, streams, arms, autos>>
        /\ UNCHANGED <<selected, resumeDone, resuming>>
    BY <1>1 DEF launcherVars
  <2>2. notify \in [kind : {"none", "added", "updated", "removed"}, host : Pcs \cup {NoHost},
                    next : RailIds \cup {"launcher", "none"}] /\ notify.next \in {"none"} \cup Range(listeners)
    BY DEF LauncherInv, LauncherTypes, LauncherInOrder
  <2> QED
    BY <2>1, <2>2, LauncherFacts, TellingStepKeeps
<1>2. CASE Loaded
  BY <1>2, LoadedKeeps
<1>3. CASE LoadFails
  BY <1>3, LoadFailsKeeps
<1>4. CASE Clicks
  BY <1>4, ClicksKeeps
<1>5. CASE Chooses
  BY <1>5, ChoosesKeeps
<1>6. CASE Notifies
  BY <1>6, NotifiesKeeps
<1>7. CASE Paired
  BY <1>7, PairedKeeps
<1>8. CASE Resumes
  BY <1>8, ResumesKeeps
<1>9. CASE Foreground
  BY <1>9, ForegroundKeeps
<1>10. CASE LeavesStream
  BY <1>10, LeavesStreamKeeps
<1>11. ASSUME NEW h \in Pcs, Upserts(h) \/ ForgetsHost(h) \/ Selects(h) PROVE LauncherInv'
  BY <1>11, UpsertsKeeps, ForgetsHostKeeps, SelectsKeeps
<1> QED
  BY <1>1, <1>2, <1>3, <1>4, <1>5, <1>6, <1>7, <1>8, <1>9, <1>10, <1>11 DEF LauncherNext

\* Whatever is clicked, posted, answered or heard, with any hosts in the list.
THEOREM LauncherInvariance == LauncherSpec => []LauncherInv
BY InitLauncherInv, NextLauncherInv, PTL DEF LauncherSpec

\* The next listener is registered, no stream is put over another, and none starts by
\* itself that was not due.
THEOREM LauncherStaysInOrder == LauncherSpec => []LauncherInOrder
<1>1. LauncherInv => LauncherInOrder
  BY DEF LauncherInv
<1> QED
  BY <1>1, LauncherInvariance, PTL
===============================================================================
