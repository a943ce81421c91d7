------------------------------- MODULE Launcher -------------------------------
(***************************************************************************)
(* The launcher (launcher.controller.c) with the rail of the games of the   *)
(* selected host (apps.controller.c), which is a fragment of its own, made  *)
(* anew for every host. Both listen to the list of hosts (listeners.c);     *)
(* what they hear may replace the rail, or put a stream over everything: by  *)
(* itself for the application of the command line, and for the game that    *)
(* runs already when the application starts or comes to the foreground.     *)
(***************************************************************************)
EXTENDS Naturals, SequencesExt

CONSTANTS
    Pcs,       \* uuids
    NoHost,
    DefaultHost, \* of the command line, or NoHost
    MaxArms      \* 1, and how often the application comes to the foreground

ASSUME LauncherAssumption ==
    /\ NoHost \notin Pcs /\ DefaultHost \in Pcs \cup {NoHost}
    /\ MaxArms \in Nat \ {0}

VARIABLES
    pcs,        \* what pclist has of each host, with currentGame # 0
    selected,     \* the host whose node is selected
    rail,         \* the apps fragment: its memory, or none, and what it does
    listeners,    \* manager->listeners
    notify,       \* pcmanager_listeners_notify, under way
    params,       \* default_host_uuid of launch_params
    defSelected,  \* def_host_selected
    defRequested, \* def_app_requested
    resumeDone,   \* auto_resume_done
    resuming,     \* the host launcher_auto_resume_async is posted for
    menu,         \* the rail the context menu was opened on
    pairing,      \* the host of the pair dialog
    streams,      \* the streaming fragments above the launcher
    arms, autos,  \* automatic starts that were due, and that happened
    left          \* a stream was left since the last of them was due

launcherVars == <<pcs, selected, rail, listeners, notify, params, defSelected, defRequested,
          resumeDone, resuming, menu, pairing, streams, arms, autos, left>>

NoRail == [id |-> "none", host |-> NoHost, def |-> FALSE, loading |-> FALSE, list |-> FALSE]
Quiet == [kind |-> "none", host |-> NoHost, next |-> "none"]

InList(h) == pcs[h].state # "unknown"
Available(h) == pcs[h].state = "available"

\* The launcher has its view, and is current_instance: no stream is above it.
Shown == streams = 0
\* No dialog is above it, and the main thread does nothing else.
UserCan == Shown /\ menu = "none" /\ pairing = NoHost /\ notify = Quiet

-----------------------------------------------------------------------------
(* The rail.                                                                *)

\* select_pc with a host: the rail there was is deleted with its listener, the new one
\* registers, asks for the state of its host, and loads if the host is available.
\* game is pending_def_app; the default application is requested only once.
SelectsPc(h, game, listening) ==
    LET id == IF rail.id = "rail1" THEN "rail2" ELSE "rail1"
        default == ~defRequested /\ params = h
    IN  /\ rail' = [id |-> id, host |-> h, def |-> game \/ default,
                    loading |-> Available(h), list |-> FALSE]
        /\ listeners' = Append(RemoveFirst(listening, rail.id), id)
        /\ selected' = h
        /\ defRequested' = (defRequested \/ default)

\* launcher_launch_game: the streaming fragment is pushed, the views below are deleted:
\* obj_will_delete and on_destroy_view of the rail, then launcher_view_destroy.
Pushes ==
    /\ streams < 2 /\ streams' = streams + 1
    /\ rail' = [rail EXCEPT !.def = FALSE, !.loading = FALSE]
    /\ listeners' = <<>> /\ params' = NoHost

\* apploader_load, when the host was updated, or the user asks for it
Reload == rail' = [rail EXCEPT !.loading = TRUE]

\* appload_loaded: the default application is started at the first list.
Loaded ==
    /\ rail.loading /\ notify = Quiet
    /\ IF rail.def
       THEN Pushes /\ autos' = autos + 1
       ELSE /\ rail' = [rail EXCEPT !.loading = FALSE, !.list = TRUE]
            /\ UNCHANGED <<listeners, params, streams, autos>>
    /\ UNCHANGED <<pcs, selected, notify, defSelected, defRequested, resumeDone,
                   resuming, menu, pairing, arms, left>>

\* appload_errored, for any reason
LoadFails ==
    /\ rail.loading /\ notify = Quiet /\ rail' = [rail EXCEPT !.loading = FALSE]
    /\ UNCHANGED <<pcs, selected, listeners, notify, params, defSelected, defRequested,
                   resumeDone, resuming, menu, pairing, streams, arms, autos, left>>

\* item_click_cb, on an item that is the game that runs or when none does;
\* item_longpress_cb on any item
Clicks ==
    /\ UserCan /\ rail.list
    /\ \/ ~pcs[rail.host].game /\ Pushes /\ UNCHANGED menu
       \/ menu' = rail.id /\ UNCHANGED <<rail, listeners, params, streams>>
    /\ UNCHANGED <<pcs, selected, notify, defSelected, defRequested, resumeDone,
                   resuming, pairing, arms, autos, left>>

\* context_menu_click_cb: a stream or the network test is started; a game is quit, of
\* which the update of the host tells; a star or a hidden item loads the list again.
\* context_menu_cancel_cb works for a rail that is gone, too.
Chooses ==
    /\ menu # "none" /\ notify = Quiet /\ menu' = "none"
    /\ \/ menu = rail.id /\ Shown /\ Pushes
       \/ menu = rail.id /\ Shown /\ Reload /\ UNCHANGED <<listeners, params, streams>>
       \/ UNCHANGED <<rail, listeners, params, streams>>
    /\ UNCHANGED <<pcs, selected, notify, defSelected, defRequested, resumeDone,
                   resuming, pairing, arms, autos, left>>

-----------------------------------------------------------------------------
(* The list of hosts changes, and its listeners are told.                   *)

First == IF listeners = <<>> THEN "none" ELSE Head(listeners)

\* The listener behind l, read before l is called.
NextOf(l) ==
    LET after == {i \in DOMAIN listeners : i > 1 /\ listeners[i - 1] = l}
    IN  IF after = {} THEN "none" ELSE listeners[CHOOSE i \in after : TRUE]

\* upsert_perform, of a worker or the discovery
Upserts(h) ==
    /\ notify = Quiet
    /\ \E s \in {"available", "unpaired", "offline"}, g \in BOOLEAN :
        /\ g => s = "available"
        /\ pcs' = [pcs EXCEPT ![h] = [state |-> s, game |-> g]]
    /\ notify' = [kind |-> IF InList(h) THEN "updated" ELSE "added", host |-> h, next |-> First]
    /\ UNCHANGED <<selected, rail, listeners, params, defSelected, defRequested, resumeDone,
                   resuming, menu, pairing, streams, arms, autos, left>>

\* forget_host of the server menu, with remove_perform; launcher_select_server(NULL)
\* does not find the rail to pop: it was added, not pushed.
ForgetsHost(h) ==
    /\ UserCan /\ InList(h)
    /\ pcs' = [pcs EXCEPT ![h] = [state |-> "unknown", game |-> FALSE]]
    /\ selected' = IF selected = h THEN NoHost ELSE selected
    /\ notify' = [kind |-> "removed", host |-> h, next |-> First]
    /\ UNCHANGED <<rail, listeners, params, defSelected, defRequested, resumeDone, resuming,
                   menu, pairing, streams, arms, autos, left>>

\* populate_selected_host
Populates ==
    IF ~defSelected /\ params # NoHost /\ InList(params)
    THEN selected' = params /\ defSelected' = TRUE
    ELSE UNCHANGED <<selected, defSelected>>

\* Fault: the rail is replaced inside the notification.
ResumesAtOnce(h) ==
    IF ~resumeDone /\ ~defRequested /\ Available(h) /\ pcs[h].game
    THEN resumeDone' = TRUE /\ SelectsPc(h, TRUE, listeners) /\ UNCHANGED resuming
    ELSE UNCHANGED <<resumeDone, resuming, selected, rail, listeners, defRequested>>

\* Fault: nothing remembers that it was done.
ResumesAgain(h) ==
    /\ resuming' = IF ~defRequested /\ Available(h) /\ pcs[h].game THEN h ELSE resuming
    /\ UNCHANGED <<resumeDone, selected, rail, listeners, defRequested>>

\* launcher_try_auto_resume
TriesResume(h) ==
    /\ IF ~resumeDone /\ ~defRequested /\ Available(h) /\ pcs[h].game
       THEN resumeDone' = TRUE /\ resuming' = h
       ELSE UNCHANGED <<resumeDone, resuming>>
    /\ UNCHANGED <<selected, rail, listeners, defRequested>>

\* on_pc_added, on_pc_updated, on_pc_removed of the launcher
LauncherHears ==
    \/ /\ notify.kind = "added" /\ Populates
       /\ UNCHANGED <<rail, listeners, defRequested, resumeDone, resuming>>
    \/ /\ notify.kind = "updated" /\ TriesResume(notify.host)
       /\ UNCHANGED defSelected
    \/ /\ notify.kind = "removed"
       /\ UNCHANGED <<selected, rail, listeners, defSelected, defRequested, resumeDone, resuming>>

\* on_host_updated and on_host_removed of the rail
RailHears ==
    /\ CASE notify.kind = "updated" /\ rail.host = notify.host /\ Available(notify.host) ->
                Reload /\ UNCHANGED listeners
         [] notify.kind = "removed" /\ rail.host = notify.host ->
                rail' = NoRail /\ listeners' = RemoveFirst(listeners, rail.id)
         [] OTHER -> UNCHANGED <<rail, listeners>>
    /\ UNCHANGED <<selected, defSelected, defRequested, resumeDone, resuming>>

\* One turn of pcmanager_listeners_notify
Notifies ==
    /\ notify # Quiet
    /\ IF notify.next = "none"
       THEN /\ notify' = Quiet
            /\ UNCHANGED <<selected, rail, listeners, defSelected, defRequested, resumeDone, resuming>>
       ELSE /\ notify' = [notify EXCEPT !.next = NextOf(notify.next)]
            /\ IF notify.next = "launcher" THEN LauncherHears ELSE RailHears
    /\ UNCHANGED <<pcs, params, menu, pairing, streams, arms, autos, left>>

-----------------------------------------------------------------------------
(* The launcher.                                                            *)

\* launcher_view_init: it registers, and the selected host gets its rail.
LauncherInit ==
    /\ \E h \in Pcs \cup {NoHost} :
        /\ pcs = [x \in Pcs |-> [state |-> IF x = h THEN "none" ELSE "unknown", game |-> FALSE]]
        /\ selected = h
        /\ defSelected = (h # NoHost /\ h = DefaultHost)
        /\ defRequested = defSelected
        /\ IF h = NoHost
           THEN rail = NoRail /\ listeners = <<"launcher">>
           ELSE /\ rail = [NoRail EXCEPT !.id = "rail1", !.host = h, !.def = defRequested]
                /\ listeners = <<"launcher", "rail1">>
    /\ notify = Quiet /\ params = DefaultHost
    /\ resumeDone = FALSE /\ resuming = NoHost
    /\ menu = "none" /\ pairing = NoHost
    /\ streams = 0 /\ arms = 1 /\ autos = 0 /\ left = FALSE

\* launcher_select_server, from server_popup_item_clicked: the pair dialog for a host
\* that is not paired, and nothing for the host that is selected.
Selects(h) ==
    /\ UserCan /\ InList(h)
    /\ \/ /\ pcs[h].state = "unpaired" /\ pairing' = h
          /\ UNCHANGED <<selected, rail, listeners, defRequested>>
       \/ /\ pcs[h].state # "unpaired" /\ selected # h /\ SelectsPc(h, FALSE, listeners)
          /\ UNCHANGED pairing
    /\ UNCHANGED <<pcs, notify, params, defSelected, resumeDone, resuming, menu, streams,
                   arms, autos, left>>

\* pair_result_cb, after worker_pairing has upserted the host: launcher_instance() is
\* NULL under a stream. An error leaves the dialog, for the user to close.
Paired ==
    /\ pairing # NoHost /\ notify = Quiet /\ pairing' = NoHost
    /\ IF Shown /\ Available(pairing) /\ selected # pairing
       THEN SelectsPc(pairing, FALSE, listeners)
       ELSE UNCHANGED <<selected, rail, listeners, defRequested>>
    /\ UNCHANGED <<pcs, notify, params, defSelected, resumeDone, resuming, menu, streams,
                   arms, autos, left>>

\* Fault: the launcher may have lost its view since.
ResumesBlindly ==
    /\ resuming # NoHost /\ notify = Quiet /\ resuming' = NoHost
    /\ IF Available(resuming) /\ pcs[resuming].game
       THEN SelectsPc(resuming, TRUE, listeners)
       ELSE UNCHANGED <<selected, rail, listeners, defRequested>>
    /\ UNCHANGED <<pcs, notify, params, defSelected, resumeDone, menu, pairing, streams,
                   arms, autos, left>>

\* launcher_auto_resume_async
Resumes ==
    /\ resuming # NoHost /\ notify = Quiet /\ resuming' = NoHost
    /\ IF Shown /\ Available(resuming) /\ pcs[resuming].game
       THEN SelectsPc(resuming, TRUE, listeners)
       ELSE UNCHANGED <<selected, rail, listeners, defRequested>>
    /\ UNCHANGED <<pcs, notify, params, defSelected, resumeDone, menu, pairing, streams,
                   arms, autos, left>>

\* launcher_handle_app_foreground
Foreground ==
    /\ Shown /\ notify = Quiet /\ arms < MaxArms
    /\ arms' = arms + 1 /\ resumeDone' = FALSE /\ left' = FALSE
    /\ UNCHANGED <<pcs, selected, rail, listeners, notify, params, defSelected, defRequested,
                   resuming, menu, pairing, streams, autos>>

\* The streaming fragment is popped: the rail gets its view again, then the launcher,
\* which replaces the rail of the selected host. What was posted has run by then.
LeavesStream ==
    /\ streams = 1 /\ streams' = 0 /\ left' = TRUE
    /\ notify = Quiet /\ resuming = NoHost
    /\ IF selected # NoHost
       THEN SelectsPc(selected, FALSE, <<rail.id, "launcher">>)
       ELSE /\ listeners' = IF rail = NoRail THEN <<"launcher">> ELSE <<rail.id, "launcher">>
            /\ UNCHANGED <<selected, rail, defRequested>>
    /\ UNCHANGED <<pcs, notify, params, defSelected, resumeDone, resuming, menu, pairing,
                   arms, autos>>

LauncherNext ==
    \/ Loaded \/ LoadFails \/ Clicks \/ Chooses \/ Notifies
    \/ Paired \/ Resumes \/ Foreground \/ LeavesStream
    \/ \E h \in Pcs : Upserts(h) \/ ForgetsHost(h) \/ Selects(h)

LauncherSpec == LauncherInit /\ [][LauncherNext]_launcherVars

-----------------------------------------------------------------------------
(* Properties.                                                              *)

\* The listener that is to be called next is still registered, whatever the one that is
\* called does to the rail: its node would be freed memory. Whatever is clicked, posted or
\* answered under a stream, no second one is put over it. And by itself a stream starts at
\* most once for the start of the application and once for each time it comes to the
\* foreground, however often the hosts are updated.
LauncherInOrder ==
    /\ notify.next \in {"none"} \cup Range(listeners)
    /\ streams <= 1
    /\ autos <= arms

-----------------------------------------------------------------------------
(* What a comment says, and the code does not do.                           *)

\* The comment of launcher_handle_app_foreground: the guard is only armed by a switch to
\* the foreground, so that quitting a stream does not lead back into it. But the guard of
\* the start of the application stays armed until a host has been resumed.
LeftForGood == [][autos' > autos => ~left]_launcherVars

=============================================================================
