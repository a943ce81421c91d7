------------------------------ MODULE StoredSettings ------------------------------
(***************************************************************************)
(* What the application keeps on disk: the settings and, in a section of    *)
(* the same file, which devices are plugged by themselves (app_settings.c,  *)
(* hid_pt_device_prefs.c), and the known hosts (known_hosts.c). The files    *)
(* are written as a whole, the settings when their view is left and both at  *)
(* the exit; a device that is ticked has its section rewritten in between.   *)
(* The application may die at any time, also while a file is open for        *)
(* writing: it is empty then, being smaller than the buffer of stdio.        *)
(*                                                                          *)
(* The settings are represented by one matched by its name (autoresume) and  *)
(* by two matched by section and name that must agree: the frame rate, and   *)
(* the precise rate in hundredths that the host is asked for.                *)
(***************************************************************************)
EXTENDS Integers, SequencesExt

CONSTANTS
    Ids,        \* devices, by the id their preference has
    Addressed,  \* those whose id is an address; the others have a ':' in it
    KnownPcs,   \* hosts
    PcApps,     \* apps that may be favourites
    Presets,    \* frame rates offered
    Customs     \* frame rates entered, in thousandths

ASSUME StoredAssumption == Addressed \subseteq Ids /\ Presets \cup Customs \subseteq Nat \ {0}

VARIABLES
    alive,      \* the application runs
    clean,      \* history: it has ended by itself
    conf,       \* app_settings_t
    auto,       \* g_hid_pt_prefs: device -> auto_plugin
    known,      \* manager->servers
    iniMade,    \* the file of the settings exists
    iniText,    \* its lines
    hostsText,  \* the sections of the file of the hosts
    stored      \* history: the settings as of the last settings_save

storedVars == <<alive, clean, conf, auto, known, iniMade, iniText, hostsText, stored>>

-----------------------------------------------------------------------------
(* The rates.                                                               *)

\* settings_ntsc_refresh_rate_x100_for_fps
Ntsc(fps) == CASE fps = 30 -> 2997 [] fps = 60 -> 5994 [] fps = 120 -> 11988
               [] fps = 240 -> 23976 [] OTHER -> 0

Implied(rate) == (rate + 50) \div 100

\* settings_reconcile_refresh_rate, on webOS
Reconciled(c) ==
    IF Ntsc(c.fps) > 0 THEN [c EXCEPT !.rate = Ntsc(c.fps)]
    ELSE IF c.rate > 0 /\ Implied(c.rate) # c.fps THEN [c EXCEPT !.rate = 0] ELSE c

\* The greatest rate settings_parse takes; a greater one is read as this one.
MaxRate == 24000
Clamped(rate) == CASE rate < 0 -> 0 [] rate > MaxRate -> MaxRate [] OTHER -> rate

\* settings_initialize
Default == Reconciled([fps |-> 60, rate |-> 0, autoresume |-> FALSE])

-----------------------------------------------------------------------------
(* The file of the settings. A line is a header, a setting, or torn: a      *)
(* header without its end, with the line that followed it.                  *)

Header(s) == [kind |-> "header", name |-> s, value |-> 0]
Line(n, v) == [kind |-> "key", name |-> n, value |-> v]
Torn == [kind |-> "torn", name |-> "", value |-> 0]

AsNumber(b) == IF b THEN 1 ELSE 0

\* hid_pt_prefs_write_section
PrefsText(a) ==
    IF DOMAIN a = {} THEN <<>>
    ELSE <<Header("hid_pt_devices")>> \o
         [i \in DOMAIN SetToSeq(DOMAIN a) |->
             Line(SetToSeq(DOMAIN a)[i], AsNumber(a[SetToSeq(DOMAIN a)[i]]))]

\* settings_save
Sections(c) ==
    <<Header("streaming"), Line("width", 0), Line("fps", c.fps),
      Header("host"), Line("sops", 1), Line("autoresume", AsNumber(c.autoresume)),
      Header("video"), Line("decoder", 0), Line("rate", c.rate)>>

\* Fault: the section of the devices is left to hid_pt_prefs_flush
SavedWithoutPrefs(c, a) == Sections(c)

Saved(c, a) == Sections(c) \o PrefsText(a)

\* hid_pt_prefs_flush: the lines of the other sections are copied, the headers without
\* their ']' and what follows it, the end of the line included.
Flushed(text, a) ==
    LET hid == SelectInSeq(text, LAMBDA l : l = Header("hid_pt_devices"))
        others == IF hid = 0 THEN text ELSE SubSeq(text, 1, hid - 1)
        copied == [i \in DOMAIN others |->
                      IF others[i].kind = "header" THEN <<Torn>>
                      ELSE IF i > 1 /\ others[i - 1].kind = "header" THEN <<>>
                      ELSE <<others[i]>>]
    IN  FlattenSeq(copied) \o PrefsText(a)

\* The section a line belongs to: the parser skips a header without its end.
SectionAt(text, i) ==
    LET h == SelectLastInSubSeq(text, 1, i, LAMBDA l : l.kind = "header")
    IN  IF h = 0 THEN "" ELSE text[h].name

\* settings_parse: INI_FULL_MATCH, and INI_NAME_MATCH. A setting that is not found keeps
\* its default.
\* Fault: the rate is matched by its name
MatchesByName(l, section) ==
    l.kind = "key" /\ section # "hid_pt_devices" /\ (l.name = "fps" => section = "streaming")

Matches(l, section) ==
    l.kind = "key" /\ section = (CASE l.name = "fps" -> "streaming"
                                   [] l.name = "rate" -> "video"
                                   [] OTHER -> section) /\ section # "hid_pt_devices"

Lookup(text, name, default) ==
    LET at == {i \in DOMAIN text : text[i].name = name /\ Matches(text[i], SectionAt(text, i))}
    IN  IF at = {} THEN default ELSE text[CHOOSE i \in at : TRUE].value

\* Fault: the rate is bounded after it was reconciled
ReadClampedLate(text) ==
    LET c == [fps |-> Lookup(text, "fps", Default.fps),
              rate |-> Lookup(text, "rate", Default.rate),
              autoresume |-> Lookup(text, "autoresume", AsNumber(Default.autoresume)) = 1]
        read == IF Contains(text, Torn) THEN c ELSE Reconciled(c)
    IN  [read EXCEPT !.rate = Clamped(@)]

\* settings_read; with a line it cannot parse it does not reconcile.
Read(text) ==
    LET c == [fps |-> Lookup(text, "fps", Default.fps),
              rate |-> Clamped(Lookup(text, "rate", Default.rate)),
              autoresume |-> Lookup(text, "autoresume", AsNumber(Default.autoresume)) = 1]
    IN  IF Contains(text, Torn) THEN c ELSE Reconciled(c)

\* hid_pt_prefs_ini_handler; the parser cuts a name at its ':', and what is left of it
\* is no device.
ReadPrefs(text) ==
    LET at(d) == {i \in DOMAIN text : text[i].kind = "key" /\ text[i].name = d
                                      /\ SectionAt(text, i) = "hid_pt_devices"}
    IN  [d \in {x \in Addressed : at(x) # {}} |-> text[CHOOSE i \in at(d) : TRUE].value = 1]

-----------------------------------------------------------------------------
(* The file of the hosts.                                                   *)

NewNode(h, paired) == [host |-> h, known |-> paired, selected |-> FALSE, favs |-> {}]

IsListed(h) == \E i \in DOMAIN known : known[i].host = h

\* Those of a list that are known, in its order
KnownOf(nodes) ==
    FlattenSeq([i \in DOMAIN nodes |-> IF nodes[i].known THEN <<nodes[i]>> ELSE <<>>])

\* pcmanager_save_known_hosts
\* Fault: every host is written
SavedAll(nodes) == nodes

SavedHosts(nodes) == KnownOf(nodes)

\* pcmanager_load_known_hosts, known_hosts_handle: the first that was selected is.
LoadedHosts(text) ==
    [i \in DOMAIN text |->
        [text[i] EXCEPT !.known = TRUE,
                        !.selected = @ /\ \A j \in 1 .. i - 1 : ~text[j].selected]]

-----------------------------------------------------------------------------
StoredInit ==
    /\ alive = TRUE /\ clean = TRUE /\ conf = Default /\ stored = Default
    /\ auto = [d \in {} |-> TRUE] /\ known = <<>>
    /\ iniMade = FALSE /\ iniText = <<>> /\ hostsText = <<>>

\* The files as settings_save leaves them
Writes(c, a) == iniMade' = TRUE /\ iniText' = Saved(c, a) /\ stored' = c

\* The settings are changed in their view, and saved when it is left. A frame rate that
\* is offered, and one that is entered (dropdown_fps_select_cb, cus_fps_dialog_cb).
Picked(fps) == Reconciled([conf EXCEPT !.fps = fps])

\* Fault: the two rates are not reconciled
EnteredPlainly(milli) == [conf EXCEPT !.fps = (milli + 500) \div 1000, !.rate = (milli + 5) \div 10]

Entered(milli) ==
    Reconciled([conf EXCEPT !.fps = (milli + 500) \div 1000, !.rate = (milli + 5) \div 10])

\* pref_checkable_value_write_back; the others like it write theirs the same way.
Toggled == [conf EXCEPT !.autoresume = ~@]

SettingsLeft ==
    /\ alive
    /\ conf' \in {Picked(f) : f \in Presets} \cup {Entered(m) : m \in Customs}
             \cup {Reconciled(Toggled)}
    /\ Writes(conf', auto)
    /\ UNCHANGED <<alive, clean, auto, known, hostsText>>

\* hid_pt_prefs_set_auto_plugin; without a file it is not made. A full table
\* (HID_PT_PREFS_MAX) takes no other device: nothing changes then.
DeviceTicked(d, on) ==
    /\ alive
    /\ auto' = [x \in DOMAIN auto \cup {d} |-> IF x = d THEN on ELSE auto[x]]
    /\ iniText' = IF iniMade THEN Flushed(iniText, auto') ELSE iniText
    /\ UNCHANGED <<alive, clean, conf, known, iniMade, hostsText, stored>>

\* upsert_perform (known from the first pairing on), pcmanager_select,
\* pcmanager_favorite_app, remove_perform
HostsChange ==
    /\ alive
    /\ \/ \E h \in KnownPcs, paired \in BOOLEAN :
             /\ known' = IF IsListed(h)
                         THEN [i \in DOMAIN known |-> IF known[i].host = h /\ paired
                                   THEN [known[i] EXCEPT !.known = TRUE] ELSE known[i]]
                         ELSE Append(known, NewNode(h, paired))
       \/ \E h \in KnownPcs : IsListed(h) /\
             known' = [i \in DOMAIN known |-> [known[i] EXCEPT !.selected = (known[i].host = h)]]
       \/ \E i \in DOMAIN known, a \in PcApps :
             known' = [known EXCEPT ![i].favs = (@ \cup {a}) \ (@ \cap {a})]
       \/ \E i \in DOMAIN known : known' = RemoveAt(known, i)
    /\ UNCHANGED <<alive, clean, conf, auto, iniMade, iniText, hostsText, stored>>

\* app_deinit: pcmanager_destroy, then settings_save
ApplicationEnds ==
    /\ alive /\ alive' = FALSE /\ clean' = TRUE
    /\ conf' = Reconciled(conf)
    /\ hostsText' = SavedHosts(known) /\ Writes(conf', auto)
    /\ UNCHANGED <<auto, known>>

\* It dies at some time, while it writes a file, or between the two.
ApplicationDies ==
    /\ alive /\ alive' = FALSE /\ clean' = FALSE
    /\ \/ hostsText' \in {hostsText, SavedHosts(known)}
          /\ \E opened \in BOOLEAN : /\ iniMade' = (iniMade \/ opened)
                                     /\ iniText' = IF opened THEN <<>> ELSE iniText
       \/ hostsText' = <<>> /\ UNCHANGED <<iniMade, iniText>>
    /\ UNCHANGED <<conf, auto, known, stored>>

\* settings_initialize and settings_read, pcmanager_new
ApplicationStarts ==
    /\ ~alive /\ alive' = TRUE
    /\ conf' = (IF iniMade THEN Read(iniText) ELSE Default)
    /\ auto' = ReadPrefs(iniText) /\ known' = LoadedHosts(hostsText)
    /\ UNCHANGED <<clean, iniMade, iniText, hostsText, stored>>

StoredNext ==
    \/ SettingsLeft \/ HostsChange \/ ApplicationEnds \/ ApplicationDies \/ ApplicationStarts
    \/ \E d \in Ids, on \in BOOLEAN : DeviceTicked(d, on)

StoredSpec == StoredInit /\ [][StoredNext]_storedVars

-----------------------------------------------------------------------------
(* Properties.                                                              *)

\* What a save leaves to be read: a precise rate that the reader bounds does not agree
\* with the frame rate any more, and is given up.
Kept(c) == IF c.rate > MaxRate THEN [c EXCEPT !.rate = 0] ELSE c

\* An application that has ended by itself finds everything again: settings, hosts with
\* their favourites and the one that is selected, and the devices that have an address
\* ("without this the per-device HID auto-plug prefs [...] are silently dropped"),
\* whatever was ticked, saved and lost in lives before; only the precise rate of more than
\* 240 frames is lost, and its frame rate is not. A life that ends by a crash loses
\* settings, but no setting is read from another's line, at most one host is selected,
\* and the two rates agree, as the host wants them (pref_fps.c).
StoredComesBack ==
    /\ ~alive /\ clean =>
        /\ Read(iniText) = Kept(conf)
        /\ ReadPrefs(iniText) = [d \in DOMAIN auto \cap Addressed |-> auto[d]]
        /\ LoadedHosts(hostsText) = KnownOf(known)
    /\ \A s \in DOMAIN Default : Read(iniText)[s] \in {Kept(stored)[s], Default[s]}
    /\ \A i, j \in DOMAIN known : known[i].selected /\ known[j].selected => i = j
    /\ conf.rate > 0 => Implied(conf.rate) = conf.fps

-----------------------------------------------------------------------------
(* What the code says of itself, and does not do.                           *)

\* hid_pt_prefs_flush copies the sections of the others: what was saved is still there
\* when the application is started after it died, unless it was writing. (It is not: a
\* header is copied without its end.)
SavedIsKept == iniText # <<>> => Read(iniText) = stored

\* "The exact value is sent to the host for frame pacing" (basic.pane.c), "e.g. 119.94":
\* that one is replaced by 119.88.
ExactRateIsSent == [][\A m \in Customs : alive /\ conf' = Entered(m) /\ conf' # conf
                                            => conf'.rate = (m + 5) \div 10]_storedVars

\* The same sentence, for a rate above 240: it is sent until the application is started
\* anew, since the reader bounds it (app_settings.c) and the dialog does not.
ExactRateComesBack == ~alive /\ clean => Read(iniText).rate = conf.rate
=============================================================================
