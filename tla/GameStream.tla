------------------------------ MODULE GameStream ------------------------------
(***************************************************************************)
(* One host as libgamestream talks to it (client.c): the identity of the    *)
(* client in its files, the five requests of the pairing, the status, and   *)
(* the launch, resume and end of an app. The host is external: it is        *)
(* modelled as far as the client looks at its answers. A request can fail   *)
(* before the host has seen it or after the host has acted on it.           *)
(***************************************************************************)
EXTENDS Naturals

CONSTANTS
    Apps,      \* ids of apps
    NoApp,     \* currentGame = 0
    MaxCerts   \* bound: identities made

ASSUME GameStreamAssumption == NoApp \notin Apps /\ MaxCerts \in Nat \ {0}

VARIABLES
    files,       \* the files of the key directory that are complete
    cert,        \* the certificate, by the number of its making
    trusted,     \* certificates the host has accepted
    hostApp,     \* what runs on the host
    serverData,  \* SERVER_DATA of the host in the list: [paired, currentGame]
    clone,       \* the one gs_pair or the session works on (serverdata_clone)
    call,        \* the request under way
    pinRight,    \* the user has given the host the PIN of this pairing
    madeTrust,   \* history: a pairing that has not succeeded has made the host trust us
    unheard,     \* history: its gs_unpair has not reached the host
    streaming    \* the app gs_start_app was asked for, while the session lasts

gsVars == <<files, cert, trusted, hostApp, serverData, clone, call, pinRight, madeTrust,
            unheard, streaming>>

hostVars == <<trusted, hostApp>>

idVars == <<files, cert>>

Unknown == [paired |-> FALSE, currentGame |-> NoApp]

Stages == {"getservercert", "clientchallenge", "serverchallengeresp", "clientpairingsecret",
           "pairchallenge"}

NextStage(s) ==
    CASE s = "getservercert" -> "clientchallenge"
      [] s = "clientchallenge" -> "serverchallengeresp"
      [] s = "serverchallengeresp" -> "clientpairingsecret"
      [] s = "clientpairingsecret" -> "pairchallenge"

\* What a request comes to. "failed" is no answer, an error, or one that does not parse.
Answers == [heard : BOOLEAN, text : {"yes", "no", "failed"}]

GsInit ==
    /\ files = {} /\ cert = 0 /\ trusted = {}
    /\ hostApp = NoApp
    /\ serverData = Unknown /\ clone = Unknown
    /\ call = "idle" /\ pinRight = FALSE
    /\ madeTrust = FALSE /\ unheard = FALSE
    /\ streaming = NoApp

-----------------------------------------------------------------------------
(* The identity. app_gs_client_new makes it when the unique id cannot be     *)
(* read; without certificate or key the application ends with an error.      *)

\* gs_conf_load
HasIdentity == files = {"id", "key", "cert"}

\* mkcert_generate
NewCert == cert + 1

\* gs_conf_init: the next of the files it writes, each of which replaces the old
WritesIdentity ==
    /\ call \in {"idle", "writing"}
    /\ \/ /\ call = "idle" /\ "id" \notin files
          /\ files' = files \cup {"id"} /\ call' = "writing" /\ UNCHANGED cert
       \/ /\ call = "writing" /\ "key" \notin files /\ cert < MaxCerts
          /\ files' = files \cup {"key"} /\ cert' = NewCert /\ UNCHANGED call
       \/ /\ call = "writing" /\ "key" \in files
          /\ files' = files \cup {"cert"} /\ call' = "idle" /\ UNCHANGED cert
    /\ UNCHANGED <<hostVars, serverData, clone, pinRight, madeTrust, unheard, streaming>>

\* "Please try uninstalling and reinstalling the app", after an end in the middle
Reinstalls ==
    /\ call = "idle" /\ "id" \in files /\ ~HasIdentity
    /\ files' = {}
    /\ UNCHANGED <<hostVars, cert, serverData, clone, call, pinRight, madeTrust, unheard, streaming>>

\* The application ends at any time, or crashes: pcmanager_update_by_host asserts
\* on the server without a uuid that gs_get_status made of a malformed answer.
Restarts ==
    /\ serverData' = Unknown /\ clone' = Unknown /\ call' = "idle"
    /\ pinRight' = FALSE /\ madeTrust' = FALSE /\ unheard' = FALSE /\ streaming' = NoApp
    /\ UNCHANGED <<idVars, hostVars>>

-----------------------------------------------------------------------------
(* Pairing (gs_pair).                                                       *)

\* worker_pairing. A pairing that is refused at once goes to the cleanup as well.
Pairs ==
    /\ call = "idle" /\ HasIdentity /\ streaming = NoApp
    /\ clone' = serverData
    /\ call' = IF serverData.paired \/ serverData.currentGame # NoApp THEN "unpair"
               ELSE "getservercert"
    /\ pinRight' \in BOOLEAN /\ madeTrust' = FALSE /\ unheard' = FALSE
    /\ UNCHANGED <<idVars, hostVars, serverData, streaming>>

\* What the host can answer: it accepts the secret of who has shown the PIN, and the
\* last challenge, over TLS, of whom it trusts.
HostAgrees(s) ==
    /\ s = "clientpairingsecret" => pinRight
    /\ s = "pairchallenge" => cert \in trusted

\* Fault: <paired> is not looked at.
AcceptedUnread(s, text) == text # "failed"

\* What gs_pair goes on with: <paired> is 1, and in the third answer it finds its
\* own challenge under the hash of the PIN.
Accepted(s, text) == text = "yes" /\ (s = "serverchallengeresp" => pinRight)

\* The host's user has denied the request: the error is set, the result is still GS_OK.
DeclinedAtFirst(s, text) == s = "getservercert" /\ text = "no"

PairRequest(answer) ==
    /\ call \in Stages
    /\ answer.text = "yes" => answer.heard /\ HostAgrees(call)
    /\ answer.text = "no" => answer.heard
    /\ LET agrees == answer.heard /\ answer.text # "no" /\ HostAgrees(call)
           adds == call = "clientpairingsecret" /\ agrees
           done == call = "pairchallenge" /\ Accepted(call, answer.text)
       IN  /\ trusted' = IF adds THEN trusted \cup {cert} ELSE trusted
           /\ madeTrust' = (~done /\ (madeTrust \/ (adds /\ cert \notin trusted)))
           /\ clone' = IF done THEN [clone EXCEPT !.paired = TRUE] ELSE clone
           /\ IF done \/ DeclinedAtFirst(call, answer.text)
              THEN call' = "idle" /\ serverData' = clone'
              ELSE /\ call' = IF Accepted(call, answer.text) THEN NextStage(call) ELSE "unpair"
                   /\ UNCHANGED serverData
    /\ UNCHANGED <<idVars, hostApp, pinRight, unheard, streaming>>

\* Fault: the cleanup only has to undo what is known to be done.
UnpairsIfPaired(heard) ==
    /\ call = "unpair"
    /\ trusted' = IF clone.paired /\ heard THEN trusted \ {cert} ELSE trusted
    /\ madeTrust' = (madeTrust /\ cert \in trusted')
    /\ unheard' = (~heard /\ clone.paired) /\ call' = "idle"
    /\ UNCHANGED <<idVars, hostApp, serverData, clone, pinRight, streaming>>

\* gs_unpair, at the cleanup of a pairing that failed. The clone is thrown away.
Unpairs(heard) ==
    /\ call = "unpair"
    /\ trusted' = IF heard THEN trusted \ {cert} ELSE trusted
    /\ madeTrust' = (madeTrust /\ cert \in trusted')
    /\ unheard' = ~heard /\ call' = "idle"
    /\ UNCHANGED <<idVars, hostApp, serverData, clone, pinRight, streaming>>

-----------------------------------------------------------------------------
(* Status, and apps. The host may also be asked while a pairing goes on.     *)

\* What xml_search finds in the answer. The host says that we are paired over HTTPS only.
StatusText(secure, busy) ==
    [paired |-> secure /\ cert \in trusted, currentGame |-> IF busy THEN hostApp ELSE NoApp]

\* load_server_status, over HTTPS or, after an error of the host, over HTTP; and the
\* node in the list.
Updates(secure, busy) ==
    /\ HasIdentity /\ call # "writing"
    /\ busy => hostApp # NoApp
    /\ serverData' = StatusText(secure, busy)
    /\ UNCHANGED <<idVars, hostVars, clone, call, pinRight, madeTrust, unheard, streaming>>

\* Fault: any app that runs is resumed.
ResumedAny(a, forced) == serverData.currentGame # NoApp /\ ~forced

\* reconnect_same_app, unless a stream in HDR from Sunshine is always launched
Resumed(a, forced) == serverData.currentGame = a /\ ~forced

\* gs_start_app of session_worker. The host resumes what runs, and may launch an app
\* when no other runs. currentGame is set on the clone, even when the host refused.
StartsApp(a, forced, answer) ==
    /\ call = "idle" /\ HasIdentity /\ streaming = NoApp
    /\ clone' = serverData
    /\ LET resumes == Resumed(a, forced)
           able == IF resumes THEN hostApp # NoApp ELSE hostApp \in {NoApp, a}
       IN  /\ answer.text = "yes" => answer.heard /\ able
           /\ hostApp' = IF answer.heard /\ answer.text # "no" /\ able /\ ~resumes
                         THEN a ELSE hostApp
    /\ streaming' = IF answer.text = "yes" THEN a ELSE NoApp
    /\ UNCHANGED <<idVars, trusted, serverData, call, pinRight, madeTrust, unheard>>

\* The end of the session: gs_quit_app when the user asked for it
GameEnds(quits, heard) ==
    /\ streaming # NoApp
    /\ hostApp' = IF quits /\ heard THEN NoApp ELSE hostApp
    /\ streaming' = NoApp
    /\ UNCHANGED <<idVars, trusted, serverData, clone, call, pinRight, madeTrust, unheard>>

\* worker_quit_app, on the server of the list
QuitsApp(answer) ==
    /\ call = "idle" /\ HasIdentity
    /\ hostApp' = IF answer.heard /\ answer.text # "no" THEN NoApp ELSE hostApp
    /\ answer.text = "yes" => answer.heard
    /\ serverData' = IF answer.text = "yes" THEN [serverData EXCEPT !.currentGame = NoApp]
                     ELSE serverData
    /\ UNCHANGED <<idVars, trusted, clone, call, pinRight, madeTrust, unheard, streaming>>

\* The host's user, or another client, ends or starts an app, or forgets us.
HostChanges ==
    /\ \/ hostApp' \in Apps \cup {NoApp} /\ hostApp' # hostApp /\ UNCHANGED <<trusted, madeTrust>>
       \/ trusted # {} /\ trusted' = {} /\ madeTrust' = FALSE /\ UNCHANGED hostApp
    /\ UNCHANGED <<idVars, serverData, clone, call, pinRight, unheard, streaming>>

GsNext ==
    \/ WritesIdentity \/ Reinstalls \/ Restarts
    \/ Pairs
    \/ \E answer \in Answers :
          \/ PairRequest(answer) \/ QuitsApp(answer)
          \/ \E a \in Apps, forced \in BOOLEAN : StartsApp(a, forced, answer)
    \/ \E secure, busy, heard, quits \in BOOLEAN :
          Updates(secure, busy) \/ Unpairs(heard) \/ GameEnds(quits, heard)
    \/ HostChanges

GsSpec == GsInit /\ [][GsNext]_gsVars

-----------------------------------------------------------------------------
(* What should hold.                                                        *)

\* A pairing that fails after it has made the host trust the client (an answer lost once
\* the host had acted on the request) has the host forget the client again, or its request
\* for that has been lost.
NoHalfPairing == call = "idle" /\ madeTrust => unheard

\* gs_pair says that the host is paired only when the host does trust the certificate
\* the client has now: whoever denies, and at whichever stage, is heard. And a client that
\* knows what runs on the host gets the stream of the app it asked for, and not of the
\* one that runs ("Switching apps must use launch, not resume").
HostIsBelieved ==
    [][ /\ ~clone.paired /\ clone'.paired /\ call \in Stages => cert \in trusted
        /\ streaming = NoApp /\ streaming' # NoApp /\ serverData.currentGame = hostApp
              => hostApp' = streaming' ]_gsVars
=============================================================================
