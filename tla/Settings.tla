-------------------------------- MODULE Settings --------------------------------
(***************************************************************************)
(* settings.c, the setSettings handler of service.c and the start of       *)
(* main.c: the settings in memory with the arrays they own, config.json,   *)
(* the symlink that starts the service at boot, and what is left of them   *)
(* when the process dies and is started again.                             *)
(*                                                                         *)
(* address and autostart stand for the plain fields, which keep their      *)
(* value when a message does not name them.  included_apps stands for both *)
(* app lists, which are freed and loaded alike.                            *)
(***************************************************************************)
CONSTANTS Addresses,    \* values of address, "" among them
          Names,        \* what the arrays hold: app ids, names of adjustments
          MayOmit,      \* the keys a setSettings message may leave out
          CrashPoints,  \* the steps before which the process may die
          Faults        \* what may fail: "save", the file; "link", the symlink

Lists == {"included_apps", "adjustments"}
Keys == {"address", "autostart"} \cup Lists
Steps == {"idle", "save", "write", "unlink", "symlink", "reply"}

ASSUME SettingsAssumption ==
    /\ "" \in Addresses
    /\ MayOmit \subseteq Keys
    /\ CrashPoints \subseteq Steps
    /\ Faults \subseteq {"save", "link"}

VARIABLES
    settings,   \* the values in settings_t
    ptr,        \* its array pointers: NULL, allocated, or freed and kept
    file,       \* config.json: none, torn (truncated and not yet written), whole
    saved,      \* what a whole file says
    symlink,    \* /var/lib/webosbrew/init.d/piccapautostart is there
    pc,         \* next step of service_method_set_settings, idle, or down
    promised,   \* history: the settings a restart may come back with
    mishaps     \* history: "save", the file is not what it was to become;
                \* "link", a call on the symlink failed in this request

vars == <<settings, ptr, file, saved, symlink, pc, promised, mishaps>>

SettingsType == [address       : Addresses,
                 autostart     : BOOLEAN,
                 included_apps : SUBSET Names,
                 adjustments   : SUBSET Names]

TypeOK ==
    /\ settings \in SettingsType
    /\ ptr \in [Lists -> {"null", "live", "freed"}]
    /\ file \in {"none", "torn", "whole"}
    /\ saved \in SettingsType
    /\ symlink \in BOOLEAN
    /\ pc \in Steps \cup {"down"}
    /\ promised \subseteq SettingsType
    /\ mishaps \subseteq {"save", "link"}

\* A plausible bug: settings_init forgets the address, which is then anything.
DefaultsForget ==
    [address |-> "unset", autostart |-> FALSE, included_apps |-> {}, adjustments |-> {}]

\* settings_init, on the zeroed settings of main.c.
Defaults == [address |-> "", autostart |-> FALSE, included_apps |-> {}, adjustments |-> {}]
NullPointers == [l \in Lists |-> "null"]

\* A fresh install, before its first start.
Init ==
    /\ settings = Defaults /\ ptr = NullPointers
    /\ file = "none" /\ saved = Defaults /\ symlink = FALSE
    /\ pc = "down" /\ promised = {Defaults} /\ mishaps = {}

--------------------------------------------------------------------------------
(* settings_load_json of a message that gives the keys in given the values *)
(* they have in json.                                                      *)

\* An app list that is not given becomes empty, anything else keeps its value.
Loaded(given, json) ==
    [address       |-> IF "address" \in given THEN json.address ELSE settings.address,
     autostart     |-> IF "autostart" \in given THEN json.autostart ELSE settings.autostart,
     included_apps |-> IF "included_apps" \in given THEN json.included_apps ELSE {},
     adjustments   |-> IF "adjustments" \in given THEN json.adjustments
                                                  ELSE settings.adjustments]

\* Every array is freed first; the pointer to one that is not given stays.
PointersAfter(given) ==
    [l \in Lists |-> IF l \in given THEN "live"
                     ELSE IF ptr[l] = "null" THEN "null" ELSE "freed"]

\* The next load frees them again, which the C library may notice and abort.
FreesTwice == \E l \in Lists : ptr[l] = "freed"

\* The count of adjustments is not reset with them: the loop that lists them, the
\* next save and hdr_callback read freed entries.
ReadsFreed(given) ==
    "adjustments" \notin given /\ ptr["adjustments"] # "null" /\ settings.adjustments # {}

\* What freed entries read as is anything.
settings_load_json(given, json) ==
    /\ ptr' = PointersAfter(given)
    /\ IF ReadsFreed(given)
       THEN \E garbage \in SUBSET Names :
                settings' = [Loaded(given, json) EXCEPT !.adjustments = garbage]
       ELSE settings' = Loaded(given, json)

--------------------------------------------------------------------------------
\* main: settings_init and settings_load_file, which leaves the defaults when there
\* is no file or it does not parse.
Boot ==
    /\ pc = "down" /\ pc' = "idle"
    /\ settings' = IF file = "whole" THEN saved ELSE Defaults
    /\ ptr' = IF file = "whole" THEN [l \in Lists |-> "live"] ELSE NullPointers
    /\ promised' = promised \cap {settings'}
    /\ UNCHANGED <<file, saved, symlink, mishaps>>

\* service_method_set_settings, up to the save.
Load ==
    /\ pc = "idle" /\ pc' = "save"
    /\ \E omitted \in SUBSET MayOmit, json \in SettingsType :
        settings_load_json(Keys \ omitted, json)
    /\ promised' = promised \cup {settings'}
    /\ mishaps' = mishaps \ {"link"}
    /\ UNCHANGED <<file, saved, symlink>>

\* settings_save_file: fopen with "wb" empties the file; fputs and fclose fill it.
Truncate ==
    /\ pc = "save" /\ pc' = "write"
    /\ file' = "torn"
    /\ UNCHANGED <<settings, ptr, saved, symlink, promised, mishaps>>

\* "Settings save failed" is a warning; the request goes on and succeeds.
SaveFails ==
    /\ "save" \in Faults
    /\ pc = "save" /\ pc' = "unlink"
    /\ mishaps' = mishaps \cup {"save"}
    /\ UNCHANGED <<settings, ptr, file, saved, symlink, promised>>

\* A plausible bug: the app lists are not saved.
WriteWithoutApps ==
    /\ pc = "write" /\ pc' = "unlink"
    /\ file' = "whole" /\ saved' = [settings EXCEPT !.included_apps = {}]
    /\ mishaps' = mishaps \ {"save"}
    /\ UNCHANGED <<settings, ptr, symlink, promised>>

Write ==
    /\ pc = "write" /\ pc' = "unlink"
    /\ file' = "whole" /\ saved' = settings
    /\ mishaps' = mishaps \ {"save"}
    /\ UNCHANGED <<settings, ptr, symlink, promised>>

\* Nobody looks at what fputs and fclose return: a full disk passes for success.
WriteFails ==
    /\ "save" \in Faults
    /\ pc = "write" /\ pc' = "unlink"
    /\ mishaps' = mishaps \cup {"save"}
    /\ UNCHANGED <<settings, ptr, file, saved, symlink, promised>>

\* A plausible bug: a link that is there already is left alone.
UnlinkNot ==
    /\ pc = "unlink" /\ pc' = "symlink"
    /\ UNCHANGED <<settings, ptr, file, saved, symlink, promised, mishaps>>

\* remove and symlink may fail, which is a warning.
LinkStep(there) ==
    /\ \/ symlink' = there /\ UNCHANGED mishaps
       \/ /\ "link" \in Faults
          /\ mishaps' = mishaps \cup {"link"} /\ UNCHANGED symlink
    /\ UNCHANGED <<settings, ptr, file, saved, promised>>

\* The link is always removed, and made again if the service is to start at boot.
Unlink ==
    /\ pc = "unlink" /\ pc' = "symlink"
    /\ LinkStep(FALSE)

Symlink ==
    /\ pc = "symlink" /\ pc' = "reply"
    /\ IF settings.autostart
       THEN LinkStep(TRUE)
       ELSE UNCHANGED <<settings, ptr, file, saved, symlink, promised, mishaps>>

\* Reopen the backends (module Service), then answer returnValue true.
Reply ==
    /\ pc = "reply" /\ pc' = "idle"
    /\ promised' = {settings}
    /\ UNCHANGED <<settings, ptr, file, saved, symlink, mishaps>>

\* The TV is switched off, the process is killed or aborts: memory is lost.
Crash ==
    /\ pc \in CrashPoints \/ (pc = "idle" /\ FreesTwice)
    /\ pc' = "down"
    /\ settings' = Defaults /\ ptr' = NullPointers
    /\ mishaps' = mishaps \cup IF pc = "write" THEN {"save"} ELSE {}
    /\ UNCHANGED <<file, saved, symlink, promised>>

set_settings ==
    \/ Load   \/ Truncate \/ SaveFails \/ Write \/ WriteFails
    \/ Unlink \/ Symlink  \/ Reply

Next == Boot \/ set_settings \/ Crash

Spec == Init /\ [][Next]_vars

--------------------------------------------------------------------------------
(* Properties.                                                             *)

\* "Settings stored in config.json file" (settings.h:24): after a restart the
\* service has the settings it last acknowledged, or those of the request it died
\* in, whole, unless the last save failed or was cut short; the next save that
\* succeeds mends that.
SettingsSurvive == pc = "idle" /\ "save" \notin mishaps => settings \in promised

\* A request that is answered, and in which neither call on the link failed, leaves
\* the TV starting the service at boot exactly when the settings in effect say so
\* (service.c:338-352), whatever crashes came before: every request repairs the
\* link, and in both directions.
AcknowledgedLink ==
    [][Reply /\ "link" \notin mishaps => symlink = settings.autostart]_vars
================================================================================
