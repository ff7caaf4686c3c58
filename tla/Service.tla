--------------------------------- MODULE Service ---------------------------------
(***************************************************************************)
(* service.c: what the handlers of the GLib main loop decide.  Luna        *)
(* methods and the answers to four Luna subscriptions all start and stop   *)
(* the same capture, and remember in power_paused and lumen_paused that    *)
(* they did.  Handlers run one after the other on one thread, and          *)
(* service_start, service_stop return when their threads are created or    *)
(* joined, so each handler is one step; the threads are in Unicapture.     *)
(*                                                                         *)
(* stopper, overridden and heard are history variables, read by no         *)
(* handler.                                                                *)
(***************************************************************************)
CONSTANTS Apps,          \* app ids the foreground app and the lists are taken from
          Sources,       \* who sends messages, see SourceKinds
          StartMayFail   \* pthread_create may fail in service_start

SourceKinds == {"start", "stop", "settings", "power", "video", "sensor"}

ASSUME ServiceAssumption ==
    Sources \subseteq SourceKinds /\ StartMayFail \in BOOLEAN

VARIABLES
    running,            \* service->running
    power_paused,       \* service->power_paused
    lumen_paused,       \* service->lumen_paused
    video_connected,    \* service->video_connected
    ui_capture,         \* unicapture.ui_capture is not NULL
    settings,           \* the fields of service->settings the handlers look at
    stopper,            \* history: who made the last stop that stopped something
    overridden,         \* history: a start by method or video report during a pause
    heard               \* history: whether the last message settled that the TV is on,
                        \* or off, or was another one

vars == <<running, power_paused, lumen_paused, video_connected, ui_capture, settings,
          stopper, overridden, heard>>

\* lumen_threshold # 0, included_apps and excluded_apps.
Settings == [lumen : BOOLEAN, included : SUBSET Apps, excluded : SUBSET Apps]

TypeOK ==
    /\ running \in BOOLEAN
    /\ power_paused \in BOOLEAN
    /\ lumen_paused \in BOOLEAN
    /\ video_connected \in BOOLEAN
    /\ ui_capture \in BOOLEAN
    /\ settings \in Settings
    /\ stopper \in {"nobody", "user", "power", "lumen", "video"}
    /\ overridden \in BOOLEAN
    /\ heard \in {"on", "off", "other"}

\* The service is zero-initialised; main has opened the backends, and has
\* started the capture if it was told to on the command line or by autostart.
Init ==
    /\ running \in BOOLEAN
    /\ power_paused = FALSE /\ lumen_paused = FALSE /\ video_connected = FALSE
    /\ ui_capture \in BOOLEAN
    /\ settings \in Settings
    /\ stopper = "nobody" /\ overridden = FALSE /\ heard = "other"

--------------------------------------------------------------------------------
\* A start of a running service does nothing; a failed one is taken back.
StartFrom(was) ==
    /\ running' \in {TRUE} \cup (IF StartMayFail THEN {was} ELSE {})
    /\ stopper' = "nobody"
service_start == StartFrom(running)

\* A stop of a stopped service does nothing.
service_stop(who) ==
    /\ running' = FALSE
    /\ stopper' = IF running THEN who ELSE stopper

NoChange == UNCHANGED <<running, stopper>>

\* History: starting from outside overrides the pauses in force, until they are over.
Override == overridden' = (overridden \/ power_paused \/ lumen_paused)
KeepOverride == overridden' = (overridden /\ (power_paused' \/ lumen_paused'))

\* History: what kind of message this was.
Heard(what) == heard' = what
HeardPower(target_state, processing) ==
    Heard(IF processing THEN "other" ELSE IF target_state THEN "on" ELSE "off")

--------------------------------------------------------------------------------
(* Luna methods.                                                           *)

service_method_start ==
    /\ "start" \in Sources /\ Heard("other")
    /\ service_start /\ Override
    /\ UNCHANGED <<power_paused, lumen_paused, video_connected, ui_capture, settings>>

service_method_stop ==
    /\ "stop" \in Sources /\ Heard("other")
    /\ service_stop("user")
    /\ UNCHANGED <<power_paused, lumen_paused, video_connected, ui_capture, settings,
                   overridden>>

service_method_startorstop ==
    /\ {"start", "stop"} \subseteq Sources /\ Heard("other")
    /\ IF running THEN service_stop("user") /\ UNCHANGED overridden
                  ELSE service_start /\ Override
    /\ UNCHANGED <<power_paused, lumen_paused, video_connected, ui_capture, settings>>

\* A plausible bug: a blank entry of a list is taken for an app.
SetSettingsBlank ==
    /\ "settings" \in Sources /\ Heard("other")
    /\ settings' \in [lumen : BOOLEAN, included : SUBSET (Apps \cup {""}), excluded : SUBSET Apps]
    /\ UNCHANGED <<running, stopper, power_paused, lumen_paused, video_connected,
                   ui_capture, overridden>>

\* Load the settings, close and reopen the backends, and go on if it was running:
\* service_destroy answers what its service_stop answered.
service_method_set_settings ==
    /\ "settings" \in Sources /\ Heard("other")
    /\ settings' \in Settings
    /\ ui_capture' \in BOOLEAN
    /\ IF running THEN StartFrom(FALSE) ELSE NoChange
    /\ UNCHANGED <<power_paused, lumen_paused, video_connected, overridden>>

--------------------------------------------------------------------------------
(* Subscriptions.                                                          *)

\* Plausible bugs: the pause is not remembered; the resume does not end it; the
\* resume overlooks a UI that can be captured without video.
PowerForgets(target_state, processing) ==
    /\ "power" \in Sources /\ HeardPower(target_state, processing)
    /\ IF ~processing /\ ~target_state THEN service_stop("power") ELSE NoChange
    /\ UNCHANGED <<power_paused, lumen_paused, video_connected, ui_capture, settings>>
    /\ KeepOverride
PowerRemembers(target_state, processing) ==
    /\ "power" \in Sources /\ HeardPower(target_state, processing)
    /\ IF ~processing /\ target_state /\ ~running /\ power_paused
       THEN service_start /\ UNCHANGED power_paused
       ELSE IF ~processing /\ ~target_state /\ running /\ ~power_paused
       THEN power_paused' = TRUE /\ service_stop("power")
       ELSE UNCHANGED power_paused /\ NoChange
    /\ UNCHANGED <<lumen_paused, video_connected, ui_capture, settings>>
    /\ KeepOverride
PowerNeedsVideo(target_state, processing) ==
    /\ "power" \in Sources /\ HeardPower(target_state, processing)
    /\ IF ~processing /\ target_state /\ ~running /\ power_paused
       THEN /\ power_paused' = FALSE
            /\ IF video_connected THEN service_start ELSE NoChange
       ELSE IF ~processing /\ ~target_state /\ running /\ ~power_paused
       THEN power_paused' = TRUE /\ service_stop("power")
       ELSE UNCHANGED power_paused /\ NoChange
    /\ UNCHANGED <<lumen_paused, video_connected, ui_capture, settings>>
    /\ KeepOverride

\* The resume, then the pause: the second looks at what the first left behind,
\* but a resume means an active target, so at most one of them does anything.
power_callback(target_state, processing) ==
    /\ "power" \in Sources /\ HeardPower(target_state, processing)
    /\ IF ~processing /\ target_state /\ ~running /\ power_paused
       THEN /\ power_paused' = FALSE
            /\ IF video_connected \/ ui_capture
               THEN service_start
               ELSE running' = running /\ stopper' = "nobody"
       ELSE IF ~processing /\ ~target_state /\ running /\ ~power_paused
       THEN power_paused' = TRUE /\ service_stop("power")
       ELSE UNCHANGED power_paused /\ NoChange
    /\ UNCHANGED <<lumen_paused, video_connected, ui_capture, settings>>
    /\ KeepOverride

\* A message may come without an app.
NoApp == "none"

\* Include list before exclude list; two empty lists let every app pass.
shouldStart(appid) ==
    CASE settings.included # {} -> appid \in settings.included
      [] OTHER                  -> appid \notin settings.excluded

\* Without an app there is nothing to look for in a list: strcmp would get NULL, which
\* no build survives.
videooutput_callback(connected, appid) ==
    /\ "video" \in Sources /\ Heard("other")
    /\ \/ appid # NoApp
       \/ ~connected /\ ~ui_capture
       \/ settings.included = {} /\ settings.excluded = {}
    /\ video_connected' = connected
    /\ IF (connected \/ ui_capture) /\ shouldStart(appid)
       THEN service_start /\ Override
       ELSE service_stop("video") /\ UNCHANGED overridden
    /\ UNCHANGED <<power_paused, lumen_paused, ui_capture, settings>>

\* Brighter than lumen_threshold or not; a message without a value leaves the
\* luminance uninitialised, so it counts as either.
sensor_callback(bright) ==
    /\ "sensor" \in Sources /\ Heard("other")
    /\ settings.lumen /\ ~power_paused
    /\ \/ /\ bright /\ running /\ ~lumen_paused
          /\ lumen_paused' = TRUE
          /\ service_stop("lumen")
       \/ /\ ~bright /\ ~running /\ lumen_paused
          /\ lumen_paused' = FALSE
          /\ service_start
    /\ UNCHANGED <<power_paused, video_connected, ui_capture, settings>>
    /\ KeepOverride

Next ==
    \/ service_method_start
    \/ service_method_stop
    \/ service_method_startorstop
    \/ service_method_set_settings
    \/ \E target_state, processing \in BOOLEAN : power_callback(target_state, processing)
    \/ \E connected \in BOOLEAN, appid \in Apps \cup {NoApp} :
           videooutput_callback(connected, appid)
    \/ \E bright \in BOOLEAN : sensor_callback(bright)

Spec == Init /\ [][Next]_vars

--------------------------------------------------------------------------------
(* Properties.                                                             *)

\* What a power event or the sensor stopped is still marked as paused, however
\* many messages of the other sources were handled since: otherwise nothing would
\* ever start it again (service.c:421-425, 731-736).
PausesRemembered ==
    ~running => /\ stopper = "power" => power_paused
                /\ stopper = "lumen" => lumen_paused

\* A capture that power-off stopped, and nobody has stopped or started since, runs
\* again after the report that the TV is active, if there is anything to capture.
PowerOnResumes ==
    [][ power_callback(TRUE, FALSE) /\ ~running /\ stopper = "power"
            /\ (video_connected \/ ui_capture) => running' ]_vars

\* Unless a start by method or by a video report has overridden it, at most one of
\* the two pauses is in force, and only on a stopped service: a mark left on a
\* running service would make the next power-off or bright light be ignored (the
\* guards of service.c:421 and 732).
PauseMeansStopped ==
    ~overridden => /\ power_paused \/ lumen_paused => ~running
                   /\ ~(power_paused /\ lumen_paused)

\* A settled report that the TV is not active leaves a stopped service, unless a start by
\* method or by a video report has overridden a pause: no order of resumes, sensor
\* messages, reports and settings makes it pass unheeded (service.c:413-425).
PowerOffStops == heard = "off" /\ ~overridden => ~running

\* "Pausing due to power event..." (service.c:422): whatever happened before, a start
\* during a pause included, a settled report that the TV is not active stops the service.
PowerOffPauses == heard = "off" => ~running
================================================================================
