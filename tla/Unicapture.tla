------------------------------- MODULE Unicapture -------------------------------
(***************************************************************************)
(* unicapture.c: the capture main thread (unicapture_run), the vsync       *)
(* thread it starts (unicapture_vsync_handler), and the thread of the      *)
(* service that starts and stops them (unicapture_start, unicapture_stop). *)
(* The three share plain bool fields; only the wake-up of the main thread  *)
(* goes through vsync_lock and vsync_cond.                                 *)
(*                                                                         *)
(* A backend's own record of its session is phase[b], moved only by calls  *)
(* through its function table; capture_running and initialized are what    *)
(* unicapture believes.  misuse is a history variable, read by no action:  *)
(* the calls made in a phase in which unicapture.h does not allow them.    *)
(* Such a call moves no session: a backend that is cleaned up while it     *)
(* captures was not stopped (the cleanup of libvtcapture, for one, makes   *)
(* no vtCapture_stop), and what a misused start answers is left open.      *)
(***************************************************************************)
EXTENDS FiniteSets

Backends == {"ui", "video"}

CONSTANTS Present,  \* the backends this TV has a library for
          Vsync,    \* settings.vsync, and the video backend has a wait to call
          Faults    \* which calls may fail, see FaultKinds

(***************************************************************************)
(* "init": capture_init fails when the main thread reinitialises.          *)
(* "start": capture_start fails.                                           *)
(* "wait99", "acquire99": capture_wait, capture_acquire_frame of the video *)
(* backend return -99, "stop the capture, it will be started again".       *)
(* An acquire that fails with another code is always possible.             *)
(***************************************************************************)
FaultKinds == {"init", "start", "wait99", "acquire99"}

ASSUME UnicaptureAssumption ==
    Present \subseteq Backends /\ Vsync \in BOOLEAN /\ Faults \subseteq FaultKinds

VARIABLES
    ctl,                    \* the service's thread: idle, or inside unicapture_stop
    running,                \* this->running
    configured,             \* ui_capture, video_capture that are not NULL
    initialized,            \* backend->initialized
    capture_running,        \* ui_capture_running, video_capture_running
    coolingDown,            \* last start attempt of this run less than 1 s ago
    held,                   \* frames acquired and not yet released
    vsync_thread_running,   \* this->vsync_thread_running
    mainPc,                 \* next step of unicapture_run
    vsyncPc,                \* next step of unicapture_vsync_handler
    phase,                  \* the session as the backend itself knows it
    misuse                  \* history: calls made in a wrong phase

vars == <<ctl, running, configured, initialized, capture_running, coolingDown, held,
          vsync_thread_running, mainPc, vsyncPc, phase, misuse>>

Phases == {"none", "ready", "failed", "started"}
MainPcs == {"none", "boot", "loop", "startVideo", "wait", "blocked", "acquireUi",
            "acquireVideo", "callVideo", "terminateVideo", "clearVideo", "send",
            "join", "terminate", "cleanup", "done"}
VsyncPcs == {"none", "check", "wait", "terminateVideo", "clearVideo", "signal", "done"}

\* The phases in which unicapture.h allows a call.  "restart" is not a call of its
\* own: it stands for the rule that a failed start is not simply repeated.
AllowedIn ==
    [init      |-> {"none"},
     start     |-> {"ready", "failed"},
     restart   |-> {"none", "ready", "started"},
     terminate |-> {"started"},
     wait      |-> {"started"},
     acquire   |-> {"started"},
     release   |-> {"started"},
     cleanup   |-> {"ready", "failed"}]

Calls == DOMAIN AllowedIn

\* The calls that open and close something.
Paired == {"init", "start", "terminate", "cleanup"}

TypeOK ==
    /\ ctl \in {"idle", "joining"}
    /\ running \in BOOLEAN
    /\ configured \subseteq Backends
    /\ initialized \subseteq configured
    /\ capture_running \subseteq configured
    /\ coolingDown \subseteq Backends
    /\ held \subseteq Backends
    /\ vsync_thread_running \in BOOLEAN
    /\ mainPc \in MainPcs
    /\ vsyncPc \in VsyncPcs
    /\ phase \in [Backends -> Phases]
    /\ misuse \subseteq Backends \X Calls

--------------------------------------------------------------------------------
(* The calls through a backend's function table.                           *)

Wrong(B, call) == {<<b, call>> : b \in {c \in B : phase[c] \notin AllowedIn[call]}}

\* phase after the backends in B were opened, terminated, or cleaned up.
Opens(was, B) == [b \in Backends |-> IF b \in B /\ was[b] = "none" THEN "ready" ELSE was[b]]
Terminated(B) == [b \in Backends |->
    IF b \in B /\ phase[b] = "started" THEN "ready" ELSE phase[b]]
CleanedUp(B) == [b \in Backends |->
    IF b \in B /\ phase[b] \in {"ready", "failed"} THEN "none" ELSE phase[b]]

\* What start may answer.  Nothing is known of a start nobody may call.
StartResults(b) ==
    IF phase[b] = "ready" /\ "start" \notin Faults THEN {TRUE} ELSE BOOLEAN

PhaseAfterStart(b, ok) ==
    CASE phase[b] = "none"    -> "none"
      [] phase[b] = "started" -> "started"
      [] OTHER                -> IF ok THEN "started" ELSE "failed"

--------------------------------------------------------------------------------
(* The service's thread.                                                   *)

Init ==
    /\ ctl = "idle" /\ running = FALSE
    /\ configured \in SUBSET Present
    /\ initialized = configured
    /\ capture_running = {} /\ coolingDown = {} /\ held = {}
    /\ vsync_thread_running = FALSE
    /\ mainPc = "none" /\ vsyncPc = "none"
    /\ phase = [b \in Backends |-> IF b \in configured THEN "ready" ELSE "none"]
    /\ misuse = {}

unicapture_start ==
    /\ ctl = "idle" /\ ~running
    /\ running' = TRUE
    /\ mainPc' = "boot"
    /\ UNCHANGED <<ctl, configured, initialized, capture_running, coolingDown, held,
                   vsync_thread_running, vsyncPc, phase, misuse>>

\* A plausible bug: both threads are told to end at once.
stop_both ==
    /\ ctl = "idle" /\ running
    /\ running' = FALSE /\ vsync_thread_running' = FALSE
    /\ ctl' = "joining"
    /\ UNCHANGED <<configured, initialized, capture_running, coolingDown, held,
                   mainPc, vsyncPc, phase, misuse>>

\* running = false, then pthread_join: the join is the action Joined.
unicapture_stop ==
    /\ ctl = "idle" /\ running
    /\ running' = FALSE
    /\ ctl' = "joining"
    /\ UNCHANGED <<configured, initialized, capture_running, coolingDown, held,
                   vsync_thread_running, mainPc, vsyncPc, phase, misuse>>

\* A plausible bug: nobody waits for the main thread.
JoinedNot ==
    /\ ctl = "joining"
    /\ ctl' = "idle"
    /\ UNCHANGED <<running, configured, initialized, capture_running, coolingDown, held,
                   vsync_thread_running, mainPc, vsyncPc, phase, misuse>>

Joined ==
    /\ ctl = "joining" /\ mainPc = "done"
    /\ ctl' = "idle"
    /\ mainPc' = "none"
    /\ UNCHANGED <<running, configured, initialized, capture_running, coolingDown, held,
                   vsync_thread_running, vsyncPc, phase, misuse>>

\* A plausible bug: the backends are exchanged without being cleaned up.
ReconfigureCarelessly ==
    /\ ctl = "idle" /\ ~running
    /\ configured' \in SUBSET Present
    /\ UNCHANGED <<ctl, running, initialized, capture_running, coolingDown, held,
                   vsync_thread_running, mainPc, vsyncPc, phase, misuse>>

\* service_destroy and service_init on a stopped service: clean up what is
\* initialised, forget everything (memset), open the backends that are wanted, and
\* answer.
Reconfigure ==
    /\ ctl = "idle" /\ ~running
    /\ misuse' = misuse \cup Wrong(initialized, "cleanup")
    /\ \E found \in SUBSET Present :
        /\ configured' = found
        /\ initialized' = found
        /\ phase' = Opens(CleanedUp(initialized), found)
    /\ capture_running' = {}
    /\ vsync_thread_running' = FALSE
    /\ UNCHANGED <<ctl, running, coolingDown, held, mainPc, vsyncPc>>

--------------------------------------------------------------------------------
(* The main thread: unicapture_run.                                        *)

\* (Re)initialise what is not initialised, then start the vsync thread.
Boot ==
    /\ mainPc = "boot"
    /\ LET missing == configured \ initialized IN
        /\ misuse' = misuse \cup Wrong(missing, "init")
        /\ \E failing \in IF "init" \in Faults THEN SUBSET missing ELSE {{}} :
            /\ initialized' = initialized \cup (missing \ failing)
            /\ phase' = Opens(phase, missing \ failing)
    /\ coolingDown' = {}
    /\ vsync_thread_running' = TRUE
    /\ vsyncPc' = "check"
    /\ mainPc' = "loop"
    /\ UNCHANGED <<ctl, running, configured, capture_running, held>>

Due(b) == b \in configured /\ b \notin capture_running /\ b \notin coolingDown

\* One attempt per second to start what is configured and not capturing.
StartIfDue(b) ==
    /\ IF Due(b)
       THEN /\ coolingDown' = coolingDown \cup {b}
            /\ misuse' = misuse \cup Wrong({b}, "start") \cup Wrong({b}, "restart")
            /\ \E ok \in StartResults(b) :
                /\ phase' = [phase EXCEPT ![b] = PhaseAfterStart(b, ok)]
                /\ capture_running' = IF ok THEN capture_running \cup {b}
                                            ELSE capture_running
       ELSE UNCHANGED <<coolingDown, misuse, phase, capture_running>>
    /\ UNCHANGED <<ctl, running, configured, initialized, held,
                   vsync_thread_running, vsyncPc>>

StartUi ==
    /\ mainPc = "loop" /\ running
    /\ StartIfDue("ui")
    /\ mainPc' = "startVideo"

StartVideo ==
    /\ mainPc = "startVideo"
    /\ StartIfDue("video")
    /\ mainPc' = "wait"

\* More than a second has passed since the last attempt.
Elapse ==
    /\ mainPc \notin {"none", "boot", "done"}
    /\ \E b \in coolingDown : coolingDown' = coolingDown \ {b}
    /\ UNCHANGED <<ctl, running, configured, initialized, capture_running, held,
                   vsync_thread_running, mainPc, vsyncPc, phase, misuse>>

MainStep(here, next) ==
    /\ mainPc = here /\ mainPc' = next
    /\ UNCHANGED <<ctl, running, configured, initialized, coolingDown>>

\* Lock, then pthread_cond_wait: no predicate is looked at before or after.
CondWait ==
    /\ MainStep("wait", "blocked")
    /\ UNCHANGED <<capture_running, held, vsync_thread_running, vsyncPc, phase, misuse>>

\* A condition variable may also wake up on its own.
SpuriousWake ==
    /\ MainStep("blocked", "acquireUi")
    /\ UNCHANGED <<capture_running, held, vsync_thread_running, vsyncPc, phase, misuse>>

\* Capture a frame of b; any failure leaves no frame.
Acquire(b) ==
    /\ misuse' = misuse \cup Wrong({b}, "acquire")
    /\ held' \in {held, held \cup {b}}
    /\ UNCHANGED <<capture_running, vsync_thread_running, vsyncPc, phase>>

\* Nobody else writes ui_capture_running: the test and the call are one step.
AcquireUi ==
    /\ MainStep("acquireUi", "acquireVideo")
    /\ IF "ui" \in capture_running
       THEN Acquire("ui")
       ELSE UNCHANGED <<capture_running, held, vsync_thread_running, vsyncPc, phase, misuse>>

\* The vsync thread may end the session between the test and the call.
TestVideo ==
    /\ MainStep("acquireVideo", IF "video" \in capture_running THEN "callVideo" ELSE "send")
    /\ UNCHANGED <<capture_running, held, vsync_thread_running, vsyncPc, phase, misuse>>

AcquireVideo == MainStep("callVideo", "send") /\ Acquire("video")

\* acquire_frame of the video backend returned -99.
AcquireVideoStop ==
    /\ "acquire99" \in Faults
    /\ MainStep("callVideo", "terminateVideo")
    /\ misuse' = misuse \cup Wrong({"video"}, "acquire")
    /\ UNCHANGED <<capture_running, held, vsync_thread_running, vsyncPc, phase>>

\* "Stopping video capture.", the same two statements in both threads.
TerminateVideo ==
    /\ misuse' = misuse \cup Wrong({"video"}, "terminate")
    /\ phase' = Terminated({"video"})
    /\ UNCHANGED <<capture_running, held, vsync_thread_running>>
ClearVideo ==
    /\ capture_running' = capture_running \ {"video"}
    /\ UNCHANGED <<held, vsync_thread_running, phase, misuse>>

\* A plausible bug: video_capture_running stays set.
ClearVideoNot == UNCHANGED <<capture_running, held, vsync_thread_running, phase, misuse>>
MainClearVideoNot == MainStep("clearVideo", "send") /\ ClearVideoNot /\ UNCHANGED vsyncPc

MainTerminateVideo ==
    MainStep("terminateVideo", "clearVideo") /\ TerminateVideo /\ UNCHANGED vsyncPc
MainClearVideo ==
    MainStep("clearVideo", "send") /\ ClearVideo /\ UNCHANGED vsyncPc

\* Convert, blend, hand over to the callback, release every frame held.
Send ==
    /\ MainStep("send", "loop")
    /\ misuse' = misuse \cup Wrong(held, "release")
    /\ held' = {}
    /\ UNCHANGED <<capture_running, vsync_thread_running, vsyncPc, phase>>

\* A plausible bug: the vsync thread is told to end, and not waited for.
ExitAtOnce ==
    /\ ~running
    /\ MainStep("loop", "terminate")
    /\ vsync_thread_running' = FALSE
    /\ UNCHANGED <<capture_running, held, vsyncPc, phase, misuse>>

\* The loop ends; only then is the vsync thread told to end.
Exit ==
    /\ ~running
    /\ MainStep("loop", IF vsync_thread_running THEN "join" ELSE "terminate")
    /\ vsync_thread_running' = FALSE
    /\ UNCHANGED <<capture_running, held, vsyncPc, phase, misuse>>

JoinVsync ==
    /\ vsyncPc = "done"
    /\ MainStep("join", "terminate")
    /\ vsyncPc' = "none"
    /\ UNCHANGED <<capture_running, held, vsync_thread_running, phase, misuse>>

\* A plausible bug: only the user interface's capture is ended.
TerminateUiOnly ==
    /\ MainStep("terminate", "cleanup")
    /\ misuse' = misuse \cup Wrong(capture_running \cap {"ui"}, "terminate")
    /\ phase' = Terminated(capture_running \cap {"ui"})
    /\ capture_running' = {}
    /\ UNCHANGED <<held, vsync_thread_running, vsyncPc>>

Terminate ==
    /\ MainStep("terminate", "cleanup")
    /\ misuse' = misuse \cup Wrong(capture_running, "terminate")
    /\ phase' = Terminated(capture_running)
    /\ capture_running' = {}
    /\ UNCHANGED <<held, vsync_thread_running, vsyncPc>>

Cleanup ==
    /\ mainPc = "cleanup" /\ mainPc' = "done"
    /\ misuse' = misuse \cup Wrong(initialized, "cleanup")
    /\ phase' = CleanedUp(initialized)
    /\ initialized' = {}
    /\ UNCHANGED <<ctl, running, configured, capture_running, coolingDown, held,
                   vsync_thread_running, vsyncPc>>

--------------------------------------------------------------------------------
(* The vsync thread: unicapture_vsync_handler.                             *)

VsyncStep(here, next) ==
    /\ vsyncPc = here /\ vsyncPc' = next
    /\ UNCHANGED <<ctl, running, configured, initialized, coolingDown>>

VsyncExit ==
    /\ ~vsync_thread_running
    /\ VsyncStep("check", "done")
    /\ UNCHANGED <<capture_running, held, vsync_thread_running, mainPc, phase, misuse>>

\* A plausible bug: only the backend's vsync wakes up the main thread.
VsyncCheckOnly ==
    /\ vsync_thread_running
    /\ VsyncStep("check", IF Vsync /\ "video" \in capture_running THEN "wait"
                                                                 ELSE "check")
    /\ UNCHANGED <<capture_running, held, vsync_thread_running, mainPc, phase, misuse>>

\* Wait for the backend's vsync while the video is captured, sleep otherwise.
VsyncCheck ==
    /\ vsync_thread_running
    /\ VsyncStep("check", IF Vsync /\ "video" \in capture_running THEN "wait"
                                                                 ELSE "signal")
    /\ UNCHANGED <<capture_running, held, vsync_thread_running, mainPc, phase, misuse>>

\* The wait is over; the session must have lasted until here.
VsyncWait ==
    /\ VsyncStep("wait", "signal")
    /\ misuse' = misuse \cup Wrong({"video"}, "wait")
    /\ UNCHANGED <<capture_running, held, vsync_thread_running, mainPc, phase>>

\* wait returned -99.
VsyncWaitStop ==
    /\ "wait99" \in Faults
    /\ VsyncStep("wait", "terminateVideo")
    /\ misuse' = misuse \cup Wrong({"video"}, "wait")
    /\ UNCHANGED <<capture_running, held, vsync_thread_running, mainPc, phase>>

\* A plausible bug: video_capture_running stays set.
VsyncClearVideoNot ==
    VsyncStep("clearVideo", "signal") /\ ClearVideoNot /\ UNCHANGED mainPc

VsyncTerminateVideo ==
    VsyncStep("terminateVideo", "clearVideo") /\ TerminateVideo /\ UNCHANGED mainPc
VsyncClearVideo ==
    VsyncStep("clearVideo", "signal") /\ ClearVideo /\ UNCHANGED mainPc

\* pthread_cond_signal under the lock: lost when the main thread is not waiting.
VsyncSignal ==
    /\ VsyncStep("signal", "check")
    /\ mainPc' = IF mainPc = "blocked" THEN "acquireUi" ELSE mainPc
    /\ UNCHANGED <<capture_running, held, vsync_thread_running, phase, misuse>>

--------------------------------------------------------------------------------
Service == unicapture_start \/ unicapture_stop \/ Joined \/ Reconfigure

MainThread ==
    \/ Boot          \/ StartUi       \/ StartVideo         \/ CondWait
    \/ AcquireUi     \/ TestVideo     \/ AcquireVideo       \/ AcquireVideoStop
    \/ MainTerminateVideo             \/ MainClearVideo     \/ Send
    \/ Exit          \/ JoinVsync     \/ Terminate          \/ Cleanup

VsyncThread ==
    \/ VsyncExit            \/ VsyncCheck       \/ VsyncWait  \/ VsyncWaitStop
    \/ VsyncTerminateVideo  \/ VsyncClearVideo  \/ VsyncSignal

Next == Service \/ MainThread \/ VsyncThread \/ Elapse \/ SpuriousWake

(***************************************************************************)
(* Threads that can run are scheduled, a capture_wait returns after a      *)
(* while, time passes, and pthread_join returns.  Nobody has to start,     *)
(* stop or reconfigure anything, and no wake-up may be hoped for that the  *)
(* vsync thread does not send.                                             *)
(***************************************************************************)
Fairness ==
    /\ WF_vars(MainThread)
    /\ WF_vars(VsyncThread)
    /\ WF_vars(Joined)
    /\ WF_vars(Elapse)

Spec == Init /\ [][Next]_vars
FairSpec == Spec /\ Fairness

--------------------------------------------------------------------------------
(* Properties.                                                             *)

AtRest == ctl = "idle" /\ ~running

\* Once unicapture_stop has returned both threads are gone, for good, and with them
\* every frame and every flag they had set, whatever the backends answered and whoever
\* ended a session (unicapture.c:343-361, 453-462).
StopIsFinal ==
    AtRest =>
        /\ mainPc = "none" /\ vsyncPc = "none" /\ ~vsync_thread_running
        /\ capture_running = {} /\ held = {}

\* Then no backend is left inside a session: the main thread has terminated what still
\* captured before it cleaned up, although the vsync thread also ends sessions, and a
\* cleanup by itself stops nothing (unicapture.c:351-374).  What unicapture counts as
\* initialised is open, and nothing else.
NothingLeftOpen ==
    AtRest => \A b \in Backends : phase[b] = IF b \in initialized THEN "ready" ELSE "none"

\* Every successful init, start and terminate is answered by its counterpart,
\* once and in order, whichever of the two threads makes the call: no start of a
\* running session, no second terminate, no cleanup under a running session, no
\* use of a backend whose init failed (unicapture.h:36-44).
PairedCalls == misuse \cap (Backends \X Paired) = {}

\* A frame is acquired, used and released while the session it came from is
\* open: nobody terminates a session of which the main thread holds a frame
\* (unicapture.h:49-54; unicapture.c:196-320).
FramesOfOpenSession ==
    /\ \A b \in held : phase[b] = "started"
    /\ misuse \cap (Backends \X {"acquire", "release"}) = {}

\* The session lasts while the vsync thread sits in the backend's wait
\* (unicapture.c:93-94).
WaitOfOpenSession == <<"video", "wait">> \notin misuse

\* A backend whose start failed is reinitialised before it is started again
\* (unicapture.h:41-42).
FailedStartReinitialised == misuse \cap (Backends \X {"restart"}) = {}

\* unicapture_stop returns: the main thread, which may be waiting on vsync_cond
\* when running turns false, is always woken again, and the vsync thread ends.
StopCompletes == ctl = "joining" ~> ctl = "idle"

\* A configured backend that is not capturing while the service runs gets
\* started (again) within the retry interval, -99 included, unless it is stopped.
CaptureResumes ==
    \A b \in Backends :
        running /\ b \in configured /\ b \notin capture_running
            ~> b \in capture_running \/ ~running

\* The frame loop never gets stuck: while running, iterations keep reaching the
\* point where frames are handed over.
FramesFlow == running ~> mainPc = "send" \/ ~running

\* What a backend makes of its caller: of all its calls, or of those that open and close
\* its sessions.
Seen(b) == IF \E call \in Calls : <<b, call>> \in misuse THEN "misused" ELSE phase[b]
PairingSeen(b) == IF misuse \cap ({b} \X Paired) = {} THEN phase[b] ELSE "misused"

Video == INSTANCE CaptureContract WITH phase <- Seen("video"), frame <- "video" \in held

\* The video backend sees a caller that keeps to CaptureContract: the two threads
\* together call its functions in the order unicapture.h promises.
VideoContract == Video!ContractSpec

UiSessions    == INSTANCE CaptureContract WITH phase <- PairingSeen("ui"), frame <- FALSE
VideoSessions == INSTANCE CaptureContract WITH phase <- PairingSeen("video"), frame <- FALSE

\* Whichever thread ends them, the sessions of the video backend are opened, started,
\* ended and closed as CaptureContract says, a failed start being repeated.  Frames are
\* left out: a wait that ends the session ends it under a frame.
SessionContract == VideoSessions!LenientSpec
================================================================================
