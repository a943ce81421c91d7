----------------------------- MODULE CoverLoader -----------------------------
(***************************************************************************)
(* The covers of the apps (coverloader.c, img_loader.c). An item of the     *)
(* grid asks for the cover of the app it shows, and is bound to another app *)
(* or deleted while a thread of the executor loads it. The thread waits in  *)
(* run_on_main whenever the main thread has to do a step for it: first to   *)
(* put the image into the cache, then to call the request back.             *)
(***************************************************************************)
EXTENDS FiniteSets, Naturals, SequencesExt

CONSTANTS
    Requests,     \* the memory of coverloader_req_t
    Items,        \* lv_obj of the grid
    Covers,       \* of apps, in the size of an item
    NoCover,      \* the default cover
    NoItem,       \* req->target = NULL
    IoThreads,    \* bound: threads of the executor
    CacheSize     \* bound: images in the cache

ASSUME CoverAssumption ==
    /\ NoCover \notin Covers /\ NoItem \notin Items
    /\ {IoThreads, CacheSize} \subseteq Nat \ {0}

VARIABLES
    refcounter, \* of the loader; 0: it was freed
    gridUp,     \* the view of the fragment, which holds a reference
    reqlist,    \* the requests there are, the oldest first
    request,    \* what is in the memory of each
    deletedCb,  \* of each item, its target_deleted_cb, with the requests they write to
    inGrid,     \* items there are
    showing,    \* the cover of each item
    memCache    \* covers in the cache, the least recently used first

coverVars == <<refcounter, gridUp, reqlist, request, deletedCb, inGrid, showing, memCache>>

NoRequest == [step |-> "free", target |-> NoItem, id |-> NoCover, src |-> NoCover, canceled |-> FALSE]

CoverInit ==
    /\ refcounter = 0 /\ gridUp = FALSE
    /\ reqlist = <<>> /\ request = [r \in Requests |-> NoRequest]
    /\ deletedCb = [t \in Items |-> <<>>]
    /\ inGrid = {} /\ showing = [t \in Items |-> NoCover]
    /\ memCache = <<>>

-----------------------------------------------------------------------------
(* Helpers.                                                                 *)

Free == {r \in Requests : request[r].step = "free"}

Busy == {r \in Requests : request[r].step \in {"running", "loaded", "put", "done", "fail", "cancel"}}

\* reqlist_find_by: the first request there is for the item
Existing(t) == SelectSeq(reqlist, LAMBDA r : request[r].target = t)

\* lv_obj_remove_event_cb: the first callback of the item with this function
WithoutCb(t) ==
    IF t = NoItem \/ deletedCb[t] = <<>> THEN deletedCb
    ELSE [deletedCb EXCEPT ![t] = Tail(@)]

\* lv_lru_get: what is found is used
Used(c) == IF Contains(memCache, c) THEN Append(RemoveFirst(memCache, c), c) ELSE memCache

\* Images that a request has put and not shown yet
Fresh == {request[r].id : r \in {x \in Requests : request[x].step \in {"put", "done"}}}

\* lv_lru_set: the least recently used is freed. With room for hundreds it is not one
\* that a request has just put.
Cached(c) ==
    IF Len(memCache) < CacheSize THEN Append(memCache, c)
    ELSE Append(RemoveFirstMatch(memCache, LAMBDA x : x \notin Fresh), c)

\* Fault: what is freed stays on the screen.
ResetNot(images) == UNCHANGED showing

\* memcache_item_free: every item that shows what is not in the cache any more gets
\* the default cover
Reset(images) ==
    showing' = [t \in Items |-> IF showing[t] \in Range(images) THEN showing[t] ELSE NoCover]

\* coverloader_unref: at last the loader is freed, and its cache
Unrefs ==
    /\ refcounter' = refcounter - 1
    /\ memCache' = IF refcounter = 1 THEN <<>> ELSE memCache

-----------------------------------------------------------------------------
(* The main thread.                                                         *)

\* coverloader_new, on_view_created
NewLoader ==
    /\ ~gridUp /\ refcounter = 0
    /\ gridUp' = TRUE /\ refcounter' = 1
    /\ UNCHANGED <<reqlist, request, deletedCb, inGrid, showing, memCache>>

\* lv_gridview creates an item; it is bound in Displays.
ItemCreated(t) ==
    /\ gridUp /\ t \notin inGrid /\ inGrid' = inGrid \cup {t}
    /\ deletedCb' = [deletedCb EXCEPT ![t] = <<>>]
    /\ showing' = [showing EXCEPT ![t] = NoCover]
    /\ UNCHANGED <<refcounter, gridUp, reqlist, request, memCache>>

\* coverloader_display of an item that is bound to the app, again or anew. With the
\* cover in the cache, img_loader_load completes it at once.
Displays(t, c) ==
    /\ gridUp /\ t \in inGrid /\ Free # {}
    /\ LET r == CHOOSE x \in Free : TRUE
           old == Existing(t)
           cancels == [x \in Requests |->
               IF old # <<>> /\ x = old[1] /\ request[x].step \in {"queued", "running", "loaded", "put"}
               THEN [request[x] EXCEPT !.canceled = TRUE] ELSE request[x]]
       IN  IF Contains(memCache, c)
           THEN /\ request' = cancels
                /\ deletedCb' = [deletedCb EXCEPT ![t] = Tail(Append(@, r))]
                /\ showing' = [showing EXCEPT ![t] = c]
                /\ UNCHANGED <<reqlist, refcounter>>
           ELSE /\ request' = [cancels EXCEPT ![r] =
                       [NoRequest EXCEPT !.step = "queued", !.target = t, !.id = c]]
                /\ deletedCb' = [deletedCb EXCEPT ![t] = Append(@, r)]
                /\ showing' = [showing EXCEPT ![t] = NoCover]
                /\ reqlist' = Append(reqlist, r)
                /\ refcounter' = refcounter + 1
    /\ memCache' = Used(c)
    /\ UNCHANGED <<gridUp, inGrid>>

\* LV_EVENT_DELETE: target_deleted_cb for each request that is registered, and
\* target_src_unlink_cb
ItemTold(t) ==
    /\ request' = [r \in Requests |-> IF Contains(deletedCb[t], r) /\ request[r].step # "free"
                                      THEN [request[r] EXCEPT !.target = NoItem] ELSE request[r]]
    /\ deletedCb' = [deletedCb EXCEPT ![t] = <<>>]

ItemDeleted(t) ==
    /\ t \in inGrid /\ inGrid' = inGrid \ {t}
    /\ ItemTold(t)
    /\ showing' = [showing EXCEPT ![t] = NoCover]
    /\ UNCHANGED <<refcounter, gridUp, reqlist, memCache>>

\* The view goes away with its items, then on_destroy_view.
GridDeleted ==
    /\ gridUp /\ inGrid = {} /\ gridUp' = FALSE
    /\ Unrefs
    /\ UNCHANGED <<reqlist, request, deletedCb, inGrid, showing>>

\* coverloader_memcache_put, for a thread that waits
Puts(r) ==
    /\ request[r].step = "loaded"
    /\ LET c == request[r].id
           images == IF Contains(memCache, c) THEN Used(c) ELSE Cached(c)
       IN  /\ memCache' = images
           /\ Reset(images)
           /\ request' = [request EXCEPT ![r].step = "put", ![r].src = c]
    /\ UNCHANGED <<refcounter, gridUp, reqlist, deletedCb, inGrid>>

\* Fault: a request that was cancelled has no reference to give back.
UnrefsIfCompleted(r) == IF request[r].step = "cancel" THEN UNCHANGED <<refcounter, memCache>> ELSE Unrefs

\* The reference of the request.
UnrefsFor(r) == Unrefs

\* img_loader_result_cb and img_loader_cancel_cb, for a thread that waits
CallsBackCover(r) ==
    /\ request[r].step \in {"done", "fail", "cancel"}
    /\ LET t == request[r].target
           binds == request[r].step # "cancel" /\ t # NoItem
       IN  /\ deletedCb' = WithoutCb(t)
           /\ showing' = IF binds THEN [showing EXCEPT ![t] = request[r].src] ELSE showing
           /\ reqlist' = RemoveFirst(reqlist, r)
           /\ request' = [request EXCEPT ![r] = NoRequest]
           /\ UnrefsFor(r)
    /\ UNCHANGED <<gridUp, inGrid>>

-----------------------------------------------------------------------------
(* A thread of the executor: task_execute and task_destroy.                 *)

Advances(r, step) ==
    /\ request' = [request EXCEPT ![r].step = step]
    /\ UNCHANGED <<refcounter, gridUp, reqlist, deletedCb, inGrid, showing, memCache>>

\* A task that was cancelled is not begun; another looks for the file of the cover,
\* and fetches it (coverloader_filecache_get, coverloader_fetch).
Takes(r) ==
    /\ request[r].step = "queued" /\ Cardinality(Busy) < IoThreads
    /\ Advances(r, IF request[r].canceled THEN "cancel" ELSE "running")

LoadsCover(r, found) ==
    /\ request[r].step = "running"
    /\ Advances(r, IF found THEN "loaded" ELSE IF request[r].canceled THEN "cancel" ELSE "fail")

Finishes(r) ==
    /\ request[r].step = "put"
    /\ Advances(r, IF request[r].canceled THEN "cancel" ELSE "done")

CoverNext ==
    \/ NewLoader \/ GridDeleted
    \/ \E t \in Items :
          ItemCreated(t) \/ ItemDeleted(t) \/ \E c \in Covers : Displays(t, c)
    \/ \E r \in Requests :
          \/ Puts(r) \/ CallsBackCover(r) \/ Takes(r) \/ Finishes(r)
          \/ \E found \in BOOLEAN : LoadsCover(r, found)

CoverSpec == CoverInit /\ [][CoverNext]_coverVars

-----------------------------------------------------------------------------
(* What should hold.                                                        *)

\* The threads find the loader and its cache, though the view that owned it is gone
\* while their covers load: the loader lives exactly as long as the view and the requests.
\* And what an item shows is in the cache: an image that is thrown out while it is on the
\* screen, or between the two steps a request has on the main thread, is not drawn.
CoversAreKept ==
    /\ refcounter = Len(reqlist) + (IF gridUp THEN 1 ELSE 0)
    /\ \A t \in inGrid : showing[t] # NoCover => Contains(memCache, showing[t])
=============================================================================
