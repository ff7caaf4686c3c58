-------------------------------- MODULE VtCapture --------------------------------
(***************************************************************************)
(* libvtcapture.cpp as the video backend of Unicapture: its state struct,  *)
(* which both threads write, and the loop of capture_wait, which polls the *)
(* driver every millisecond until the buffer address changes.  Every step  *)
(* of Unicapture that calls the backend takes the backend's step with it.  *)
(*                                                                         *)
(* The driver is outside this code: as the backend uses it, it shows one   *)
(* of a few buffers, or answers with an error.                             *)
(***************************************************************************)
EXTENDS Unicapture, Naturals

CONSTANTS Buffers,       \* the buffers the driver cycles through (props.buf_cnt)
          MaxAttempts,   \* polls of one wait, 10000 in the code
          DriverErrors,  \* what vtCapture_currentCaptureBuffInfo may answer, see below
          Quirk          \* quirk_force_capture

\* "2", "12", "13" and "17" are told apart, "other" is any other error.
ErrorCodes == {"2", "12", "13", "17", "other"}

null == "null"

\* What the driver may answer is what Unicapture lets a backend do.
ASSUME VtAssumption ==
    /\ null \notin Buffers
    /\ MaxAttempts \in Nat \ {0}
    /\ DriverErrors \subseteq ErrorCodes
    /\ Quirk \in BOOLEAN
    /\ "wait99" \in Faults
    /\ "13" \in DriverErrors => "acquire99" \in Faults

VARIABLES
    shown,      \* the buffer the driver shows
    buff,       \* self->buff.start_addr0, written by the wait
    curr_buff,  \* self->curr_buff, written by the wait and by acquire_frame
    terminate,  \* self->terminate
    waitPc,     \* where capture_wait is: "poll" or "compare"
    attempts,   \* attempt_count
    loaded,     \* acquire_frame: self->buff as read, before it is stored
    news        \* history: the buffer for which a wait of this session last returned 0

state == <<buff, curr_buff, terminate>>
vtVars == <<shown, state, waitPc, attempts, loaded, news>>
allVars == <<vars, vtVars>>

VtTypeOK ==
    /\ TypeOK
    /\ shown \in Buffers
    /\ {buff, curr_buff} \subseteq Buffers \cup {null}
    /\ terminate \in BOOLEAN
    /\ waitPc \in {"poll", "compare"}
    /\ attempts \in 0 .. MaxAttempts - 1
    /\ loaded \in Buffers \cup {null, "nothing"}
    /\ news \in Buffers \cup {null}

\* What calloc leaves in capture_init.
Zeroed == buff' = null /\ curr_buff' = null /\ terminate' = FALSE

VtInit ==
    /\ Init
    /\ shown \in Buffers
    /\ buff = null /\ curr_buff = null /\ terminate = FALSE
    /\ waitPc = "poll" /\ attempts = 0 /\ loaded = "nothing" /\ news = null

--------------------------------------------------------------------------------
(* The calls of the two threads of Unicapture.                             *)

Environment == <<shown, waitPc, attempts, loaded, news>>

\* A backend that is opened has a new struct.
Opened(again) ==
    /\ IF "video" \in initialized' /\ again THEN Zeroed ELSE UNCHANGED state
    /\ UNCHANGED Environment

\* The service opens its backends anew, the main thread those it had cleaned up.
InitService == Reconfigure /\ Opened(TRUE)
InitMain    == Boot /\ Opened("video" \notin initialized)

capture_init == InitService \/ InitMain

\* terminate is cleared before vtCapture_process, which may still fail.
capture_start ==
    /\ StartVideo
    /\ IF ~Due("video") THEN UNCHANGED <<terminate, news>>
       ELSE /\ terminate' \in IF "video" \in capture_running' THEN {FALSE}
                                                           ELSE {terminate, FALSE}
            /\ news' = null
    /\ UNCHANGED <<buff, curr_buff, shown, waitPc, attempts, loaded>>

\* terminate is set for a wait that is under way.
Stopped(stop) ==
    /\ terminate' = (terminate \/ stop)
    /\ UNCHANGED <<buff, curr_buff, Environment>>

TerminateMain ==
    /\ MainTerminateVideo \/ Terminate
    /\ Stopped(mainPc = "terminateVideo" \/ "video" \in capture_running)
TerminateVsync == VsyncTerminateVideo /\ Stopped(TRUE)

capture_terminate == TerminateMain \/ TerminateVsync

\* self->curr_buff = self->buff.start_addr0 is a load and a store, between which
\* the wait may do the same.
AcquireLoad ==
    /\ mainPc = "callVideo" /\ loaded = "nothing"
    /\ loaded' = buff
    /\ UNCHANGED <<vars, shown, state, waitPc, attempts, news>>

\* The driver has a buffer for us, or it has not; 13 stops the capture.  Nothing is
\* known of its answer when the vsync thread has ended the session meanwhile.
capture_acquire_frame ==
    /\ \/ /\ AcquireVideo /\ loaded # "nothing"
          /\ curr_buff' = IF "video" \in held' THEN loaded ELSE curr_buff
          /\ \/ "video" \in held' \/ phase["video"] # "started"
             \/ DriverErrors \ {"13"} # {}
       \/ AcquireVideoStop /\ "13" \in DriverErrors /\ UNCHANGED curr_buff
    /\ loaded' = "nothing"
    /\ UNCHANGED <<shown, buff, terminate, waitPc, attempts, news>>

--------------------------------------------------------------------------------
(* capture_wait, in the vsync thread.                                      *)

\* The wait ends with this result: 0 and errors but -99 only wake the main thread.
Return99 == VsyncWaitStop
ReturnOther == VsyncWait

EndOfWait == waitPc' = "poll" /\ attempts' = 0 /\ UNCHANGED <<shown, terminate, loaded>>

\* vtCapture_currentCaptureBuffInfo fails; the struct may have been written.
WaitFails ==
    /\ vsyncPc = "wait" /\ waitPc = "poll" /\ ~terminate
    /\ \E code \in DriverErrors :
        \/ code \in {"12", "13"} /\ Return99
        \/ code = "17" /\ Quirk /\ (Return99 \/ ReturnOther)    \* -2: no /dev/forcecapture
        \/ code \in {"2", "other"} /\ ReturnOther
        \/ code = "17" /\ ~Quirk /\ ReturnOther
    /\ EndOfWait
    /\ buff' \in {buff, shown}
    /\ UNCHANGED <<curr_buff, news>>

WaitPoll ==
    /\ vsyncPc = "wait" /\ waitPc = "poll" /\ ~terminate
    /\ buff' = shown /\ waitPc' = "compare"
    /\ UNCHANGED <<vars, shown, curr_buff, terminate, attempts, loaded, news>>

\* The loop is left when the address has changed, or when the main thread has
\* terminated the session under the wait.
WaitDone ==
    /\ vsyncPc = "wait"
    /\ \/ waitPc = "compare" /\ curr_buff # buff
       \/ waitPc = "poll" /\ terminate
    /\ ReturnOther /\ EndOfWait
    /\ curr_buff' = buff /\ news' = buff /\ UNCHANGED buff

\* A plausible bug: the polls are not counted.
WaitForever ==
    /\ vsyncPc = "wait" /\ waitPc = "compare" /\ curr_buff = buff
    /\ waitPc' = "poll"
    /\ UNCHANGED <<vars, shown, state, attempts, loaded, news>>

\* A plausible bug: one poll more than allowed.
WaitAgainOnce ==
    /\ vsyncPc = "wait" /\ waitPc = "compare" /\ curr_buff = buff
    /\ IF attempts = MaxAttempts
       THEN Return99 /\ EndOfWait
       ELSE /\ waitPc' = "poll" /\ attempts' = attempts + 1
            /\ UNCHANGED <<vars, shown, terminate, loaded>>
    /\ UNCHANGED <<buff, curr_buff, news>>

\* "Prevent hanging...": after so many polls the capture is to be restarted.
WaitAgain ==
    /\ vsyncPc = "wait" /\ waitPc = "compare" /\ curr_buff = buff
    /\ IF attempts + 1 = MaxAttempts
       THEN Return99 /\ EndOfWait
       ELSE /\ waitPc' = "poll" /\ attempts' = attempts + 1
            /\ UNCHANGED <<vars, shown, terminate, loaded>>
    /\ UNCHANGED <<buff, curr_buff, news>>

capture_wait == WaitFails \/ WaitPoll \/ WaitDone \/ WaitAgain

--------------------------------------------------------------------------------
\* The driver shows the next frame of an open session.
NewFrame ==
    /\ phase["video"] = "started"
    /\ shown' \in Buffers \ {shown}
    /\ UNCHANGED <<vars, state, waitPc, attempts, loaded, news>>

\* The steps of Unicapture that do not call this backend.
ServiceElsewhere == (unicapture_start \/ unicapture_stop) /\ UNCHANGED vtVars
JoinedElsewhere  == Joined /\ UNCHANGED vtVars
ElapseElsewhere  == Elapse /\ UNCHANGED vtVars
WakeElsewhere    == SpuriousWake /\ UNCHANGED vtVars
MainElsewhere ==
    /\ \/ StartUi \/ CondWait \/ AcquireUi \/ TestVideo \/ MainClearVideo
       \/ Send    \/ Exit     \/ JoinVsync \/ Cleanup
    /\ UNCHANGED vtVars
VsyncElsewhere ==
    (VsyncExit \/ VsyncCheck \/ VsyncClearVideo \/ VsyncSignal) /\ UNCHANGED vtVars

VtMainThread ==
    \/ InitMain    \/ capture_start         \/ TerminateMain
    \/ AcquireLoad \/ capture_acquire_frame \/ MainElsewhere
VtVsyncThread == capture_wait \/ TerminateVsync \/ VsyncElsewhere

VtNext ==
    \/ VtMainThread     \/ VtVsyncThread   \/ InitService   \/ NewFrame
    \/ ServiceElsewhere \/ JoinedElsewhere \/ ElapseElsewhere \/ WakeElsewhere

\* The fairness of Unicapture; the driver owes nobody a frame.
VtSpec ==
    /\ VtInit /\ [][VtNext]_allVars
    /\ WF_allVars(VtMainThread)    /\ WF_allVars(VtVsyncThread)
    /\ WF_allVars(JoinedElsewhere) /\ WF_allVars(ElapseElsewhere)

--------------------------------------------------------------------------------
(* Properties, besides those of Unicapture.                                *)

\* A capture_wait ends, whatever the driver shows: nothing wakes it up but a new
\* buffer, an error, or its own count of polls, and unicapture_stop joins the vsync
\* thread before it sets terminate (libvtcapture.cpp:304-309, unicapture.c:345-351).
WaitEnds == vsyncPc = "wait" ~> vsyncPc # "wait"

\* "wait until buffer address changed" (libvtcapture.cpp:267): two waits of a session
\* that return 0 one after the other have seen two different buffers.
WaitsForChange == [][WaitDone /\ ~terminate => buff # news]_allVars
================================================================================
