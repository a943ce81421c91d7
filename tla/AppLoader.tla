------------------------------ MODULE AppLoader ------------------------------
(***************************************************************************)
(* The application lists of the hosts. The fragment that shows the list of  *)
(* one host (apps.controller.c) has a loader (apploader.c), whose task asks *)
(* the host on a thread of the executor. Another host brings another        *)
(* fragment and another loader while the old task may still be running, and *)
(* the fragment loses its view while something is shown above it.           *)
(***************************************************************************)
EXTENDS FiniteSets, Naturals

CONSTANTS
    Loaders,   \* the memory loaders are allocated in
    NoLoader

ASSUME AppLoaderAssumption == NoLoader \notin Loaders

VARIABLES
    current,  \* the loader of the fragment there is
    view,     \* that fragment has a view
    state,    \* loader->state; free before apploader_create and after apploader_free
    refs,     \* loader->refcounter
    known,    \* loader->task is not NULL
    task,     \* of each loader: none, pending, active, finished, or posted as task_callback
    canceled, \* executor_cancel was called for the task
    code,     \* task->code
    refused   \* the last apploader_load found the loader loading

vars == <<current, view, state, refs, known, task, canceled, code, refused>>

AppLoaderTypeOK ==
    /\ current \in Loaders \cup {NoLoader}
    /\ view \in BOOLEAN
    /\ state \in [Loaders -> {"free", "idle", "loading", "error"}]
    /\ refs \in [Loaders -> 0..2]
    /\ {known, canceled, refused} \subseteq [Loaders -> BOOLEAN]
    /\ task \in [Loaders -> {"none", "pending", "active", "finished", "posted"}]
    /\ code \in [Loaders -> {"ok", "error"}]

Init ==
    /\ current = NoLoader /\ view = FALSE
    /\ state = [l \in Loaders |-> "free"]
    /\ refs = [l \in Loaders |-> 0]
    /\ task = [l \in Loaders |-> "none"]
    /\ code = [l \in Loaders |-> "ok"]
    /\ known = [l \in Loaders |-> FALSE]
    /\ canceled = known /\ refused = known

-----------------------------------------------------------------------------
(* Helpers.                                                                 *)

\* Fault: the fragment frees its loader, whoever still uses it.
UnrefAndFree(l, s) ==
    /\ refs' = [refs EXCEPT ![l] = 0]
    /\ state' = [state EXCEPT ![l] = "free"]

\* apploader_unref, in state s
Unref(l, s) ==
    /\ refs' = [refs EXCEPT ![l] = @ - 1]
    /\ state' = [state EXCEPT ![l] = IF refs[l] = 1 THEN "free" ELSE s]

\* apploader_cancel: executor_cancel reaches a task that has not finished.
Cancel(l) ==
    /\ canceled' = [canceled EXCEPT ![l] = @ \/ (known[l] /\ task[l] \in {"pending", "active"})]
    /\ known' = [known EXCEPT ![l] = FALSE]

-----------------------------------------------------------------------------
(* The main thread.                                                         *)

\* A host is selected: a fragment is created, with its loader.
Creates(l) ==
    /\ current = NoLoader /\ current' = l /\ view' = TRUE
    /\ state[l] = "free" /\ state' = [state EXCEPT ![l] = "idle"]
    /\ refs' = [refs EXCEPT ![l] = 1]
    /\ known' = [known EXCEPT ![l] = FALSE]
    /\ refused' = [refused EXCEPT ![l] = FALSE]
    /\ UNCHANGED <<task, canceled, code>>

\* apploader_load, from the view, the host's listener or a retry: nothing while the
\* task is pending or active.
Loads(l) ==
    /\ current = l /\ view
    /\ ~(known[l] /\ task[l] \in {"pending", "active"})
    /\ state[l] # "loading" /\ state' = [state EXCEPT ![l] = "loading"]
    /\ refs' = [refs EXCEPT ![l] = @ + 1]
    /\ task' = [task EXCEPT ![l] = "pending"]
    /\ known' = [known EXCEPT ![l] = TRUE]
    /\ canceled' = [canceled EXCEPT ![l] = FALSE]
    /\ refused' = [refused EXCEPT ![l] = FALSE]
    /\ UNCHANGED <<current, view, code>>

\* apploader_load, with the warning that it is already loading
Refuses(l) ==
    /\ current = l /\ view
    /\ ~(known[l] /\ task[l] \in {"pending", "active"})
    /\ state[l] = "loading" /\ refused' = [refused EXCEPT ![l] = TRUE]
    /\ UNCHANGED <<current, view, state, refs, known, task, canceled, code>>

\* on_view_created, when what was above the fragment is gone
Uncovered ==
    /\ current # NoLoader /\ ~view /\ view' = TRUE
    /\ UNCHANGED <<current, state, refs, known, task, canceled, code, refused>>

\* obj_will_delete
Covered ==
    /\ view /\ view' = FALSE
    /\ Cancel(current)
    /\ UNCHANGED <<current, state, refs, task, code, refused>>

\* The fragment is deleted: obj_will_delete if it has a view, then apps_controller_dtor
\* with apploader_destroy. Its callbacks are forgotten.
Deleted(l) ==
    /\ current = l /\ current' = NoLoader /\ view' = FALSE
    /\ IF view THEN Cancel(l) ELSE UNCHANGED <<known, canceled>>
    /\ Unref(l, state[l])
    /\ UNCHANGED <<task, code, refused>>

\* Fault: an error leaves the state as it was.
CallsBackSilently(l) ==
    /\ task[l] = "posted" /\ task' = [task EXCEPT ![l] = "none"]
    /\ Unref(l, IF code[l] = "ok" THEN "idle" ELSE state[l])
    /\ UNCHANGED <<current, view, known, canceled, code, refused>>

\* task_callback
CallsBack(l) ==
    /\ task[l] = "posted" /\ task' = [task EXCEPT ![l] = "none"]
    /\ Unref(l, IF code[l] = "ok" THEN "idle" ELSE "error")
    /\ UNCHANGED <<current, view, known, canceled, code, refused>>

-----------------------------------------------------------------------------
(* The threads of the executor.                                             *)

\* A task that was cancelled before it starts is not run.
Starts(l) ==
    /\ task[l] = "pending"
    /\ task' = [task EXCEPT ![l] = IF canceled[l] THEN "finished" ELSE "active"]
    /\ UNCHANGED <<current, view, state, refs, known, canceled, code, refused>>

\* task_run
Runs(l) ==
    /\ task[l] = "active" /\ task' = [task EXCEPT ![l] = "finished"]
    /\ \E result \in {"ok", "error"} : code' = [code EXCEPT ![l] = result]
    /\ UNCHANGED <<current, view, state, refs, known, canceled, refused>>

\* Fault: what did not succeed is submitted again.
ForgetsNot(l) ==
    /\ task[l] = "finished" /\ canceled[l]
    /\ task' = [task EXCEPT ![l] = "pending"]
    /\ UNCHANGED <<current, view, state, refs, known, canceled, code, refused>>

\* task_finalize, with ECANCELED
Forgets(l) ==
    /\ task[l] = "finished" /\ canceled[l]
    /\ task' = [task EXCEPT ![l] = "none"]
    /\ Unref(l, state[l])
    /\ UNCHANGED <<current, view, known, canceled, code, refused>>

\* task_finalize, with app_bus_post
Posts(l) ==
    /\ task[l] = "finished" /\ ~canceled[l]
    /\ task' = [task EXCEPT ![l] = "posted"]
    /\ UNCHANGED <<current, view, state, refs, known, canceled, code, refused>>

-----------------------------------------------------------------------------
Next ==
    \/ Uncovered \/ Covered
    \/ \E l \in Loaders :
          \/ Creates(l) \/ Loads(l) \/ Refuses(l) \/ Deleted(l) \/ CallsBack(l)
          \/ Starts(l) \/ Runs(l) \/ Forgets(l) \/ Posts(l)

\* The executor and the main loop go on; the user owes nothing.
Spec ==
    /\ Init /\ [][Next]_vars
    /\ \A l \in Loaders : WF_vars(Starts(l) \/ Runs(l) \/ Forgets(l) \/ Posts(l) \/ CallsBack(l))

-----------------------------------------------------------------------------
(* Properties.                                                              *)

\* Besides the types: the thread of the executor and the posted callback find their
\* loader, though the fragment may be gone. It has a reference for each of them, and one
\* task at a time, though apploader_cancel forgets the task while it is still running.
LoaderIsThere ==
    /\ AppLoaderTypeOK
    /\ \A l \in Loaders :
        /\ task[l] # "none" \/ current = l => state[l] # "free"
        /\ refs[l] = Cardinality({x \in {"fragment", "task"} :
               \/ x = "fragment" /\ current = l
               \/ x = "task" /\ task[l] # "none"})

\* A loader whose fragment is gone is freed, whatever its task was doing.
LoaderIsFreed == \A l \in Loaders : state[l] # "free" /\ current # l ~> state[l] = "free"

\* A list that is loading is loaded or fails, unless the view went away meanwhile.
LoadEnds == \A l \in Loaders : state[l] = "loading" /\ ~canceled[l] ~> state[l] # "loading" \/ canceled[l]

\* Every load and every loader has an end.
LoadersEnd == LoaderIsFreed /\ LoadEnds

-----------------------------------------------------------------------------
\* What the warning says with which apploader_load refuses: there is a load going on.
\* It is not so once the task was cancelled under a view that came back.
AlreadyLoading == [][\A l \in Loaders : ~refused[l] /\ refused'[l] => task[l] # "none"]_vars

=============================================================================
