---------------------------- MODULE UnicaptureProofs ----------------------------
(***************************************************************************)
(* What holds of Unicapture for every Vsync and every set of Faults, and   *)
(* what holds when at most one of the two threads can meet a -99.          *)
(***************************************************************************)
EXTENDS Unicapture, Pixels, TLAPS

\* Only one thread is ever told to stop the video capture: either the video
\* backend's acquire never answers -99, or its wait does not (or is not called).
OneDetector == ~("acquire99" \in Faults /\ "wait99" \in Faults /\ Vsync)

\* A backend that could be opened once can be opened again.
InitSucceeds == "init" \notin Faults

\* No wait ever makes the vsync thread stop the capture.
WaitNeverStops == ~("wait99" \in Faults /\ Vsync)

\* No acquire makes the main thread stop the capture while the vsync thread may wait.
AcquireNeverStops == ~("acquire99" \in Faults /\ Vsync)

\* A backend that was opened can be started.
StartSucceeds == "start" \notin Faults

--------------------------------------------------------------------------------
(* The inductive invariant, in three parts.                                *)

\* Who is where: the service's thread, the main thread and the vsync thread.
ThreadInv ==
    /\ mainPc = "none" <=> ctl = "idle" /\ ~running
    /\ ctl = "joining" => ~running
    /\ mainPc \in {"join", "terminate", "cleanup", "done"} => ~running
    /\ vsyncPc = "none" <=> mainPc \in {"none", "boot", "terminate", "cleanup", "done"}
    /\ vsync_thread_running <=>
         mainPc \notin {"none", "boot", "join", "terminate", "cleanup", "done"}
    /\ mainPc \notin {"acquireVideo", "callVideo", "terminateVideo", "clearVideo", "send"}
         => held = {}
    /\ mainPc \in {"none", "boot", "cleanup", "done"} => capture_running = {}

\* A thread inside "Stopping video capture." was told to, and its flag is still set.
StopInv ==
    /\ mainPc \in {"terminateVideo", "clearVideo"} =>
         "acquire99" \in Faults /\ "video" \in capture_running
    /\ mainPc = "callVideo" /\ "acquire99" \in Faults => "video" \in capture_running
    /\ vsyncPc = "wait" => Vsync
    /\ vsyncPc = "wait" /\ "wait99" \in Faults => "video" \in capture_running
    /\ vsyncPc \in {"terminateVideo", "clearVideo"} =>
         "wait99" \in Faults /\ Vsync /\ "video" \in capture_running

\* The flags of unicapture tell the truth about the sessions of the backends,
\* except between the terminate and the clear of a stop.
StoppedNotCleared(b) == b = "video" /\ (mainPc = "clearVideo" \/ vsyncPc = "clearVideo")

SessionInv ==
    /\ mainPc = "done" => initialized = {}
    /\ mainPc \notin {"none", "boot", "done"} => initialized = configured
    /\ \A b \in Backends :
        /\ phase[b] = "none" <=> b \notin initialized
        /\ phase[b] = "started" <=> b \in capture_running /\ ~StoppedNotCleared(b)
        /\ phase[b] = "failed" => mainPc \notin {"none", "boot"}

SessionIInv == TypeOK /\ ThreadInv /\ StopInv /\ SessionInv /\ PairedCalls

\* While no wait stops the capture, the frames held are those of running captures.
FrameInv ==
    /\ held \subseteq capture_running
    /\ mainPc \in {"acquireVideo", "callVideo", "terminateVideo", "clearVideo"}
         => "video" \notin held
    /\ mainPc = "callVideo" => "video" \in capture_running

FrameIInv == SessionIInv /\ FrameInv /\ FramesOfOpenSession

--------------------------------------------------------------------------------
(* Type correctness.                                                       *)

\* Every value of every variable is one the code can hold, whatever fails.
THEOREM TypeCorrect == Spec => []TypeOK
<1>1. Init => TypeOK
  BY UnicaptureAssumption DEF Init, TypeOK, Backends, Phases, MainPcs, VsyncPcs
<1>2. TypeOK /\ [Next]_vars => TypeOK'
  <2> SUFFICES ASSUME TypeOK, [Next]_vars PROVE TypeOK'
    OBVIOUS
  <2> USE DEF TypeOK
  <2>w. ASSUME NEW B \in SUBSET Backends, NEW call \in Calls
        PROVE  Wrong(B, call) \subseteq Backends \X Calls
    BY <2>w DEF Wrong
  <2>c. {"init", "start", "restart", "terminate", "wait", "acquire", "release", "cleanup"}
            \subseteq Calls
    BY DEF Calls, AllowedIn
  <2>1. CASE unicapture_start
    BY <2>1 DEF unicapture_start, MainPcs
  <2>2. CASE unicapture_stop
    BY <2>2 DEF unicapture_stop
  <2>3. CASE Joined
    BY <2>3 DEF Joined, MainPcs
  <2>4. CASE Reconfigure
    <3>1. misuse' \subseteq Backends \X Calls
      BY <2>4, <2>c, <2>w DEF Reconfigure
    <3>2. PICK found \in SUBSET Present :
              /\ configured' = found /\ initialized' = found
              /\ phase' = Opens(CleanedUp(initialized), found)
      BY <2>4 DEF Reconfigure
    <3>3. found \in SUBSET Backends
      BY <3>2, UnicaptureAssumption
    <3>4. CleanedUp(initialized) \in [Backends -> Phases]
      BY DEF CleanedUp, Phases
    <3>5. phase' \in [Backends -> Phases]
      BY <3>2, <3>4 DEF Opens, Phases
    <3> QED BY <2>4, <3>1, <3>2, <3>3, <3>5 DEF Reconfigure
  <2>5. CASE Boot
    BY <2>5, <2>c, <2>w DEF Boot, Opens, MainPcs, VsyncPcs, Phases
  <2>6. ASSUME NEW b \in Backends, StartIfDue(b), mainPc' \in MainPcs PROVE TypeOK'
    <3>1. phase' \in [Backends -> Phases]
      BY <2>6 DEF StartIfDue, PhaseAfterStart, Phases
    <3>2. misuse' \subseteq Backends \X Calls
      BY <2>6, <2>c, <2>w DEF StartIfDue
    <3>3. coolingDown' \subseteq Backends /\ capture_running' \subseteq configured
      BY <2>6 DEF StartIfDue, Due
    <3> QED BY <2>6, <3>1, <3>2, <3>3 DEF StartIfDue
  <2>7. CASE StartUi
    BY <2>6, <2>7 DEF StartUi, Backends, MainPcs
  <2>8. CASE StartVideo
    BY <2>6, <2>8 DEF StartVideo, Backends, MainPcs
  <2>9. CASE Elapse
    BY <2>9 DEF Elapse
  <2>10. CASE CondWait
    BY <2>10 DEF CondWait, MainStep, MainPcs
  <2>11. CASE SpuriousWake
    BY <2>11 DEF SpuriousWake, MainStep, MainPcs
  <2>12. ASSUME NEW b \in Backends, Acquire(b)
         PROVE  misuse' \subseteq Backends \X Calls /\ held' \subseteq Backends
    BY <2>12, <2>c, <2>w DEF Acquire
  <2>13. CASE AcquireUi
    BY <2>12, <2>13 DEF AcquireUi, Acquire, MainStep, MainPcs, Backends
  <2>14. CASE AcquireVideo \/ TestVideo
    BY <2>12, <2>14 DEF AcquireVideo, TestVideo, Acquire, MainStep, MainPcs, Backends
  <2>15. CASE AcquireVideoStop
    BY <2>15, <2>c, <2>w DEF AcquireVideoStop, MainStep, MainPcs, Backends
  <2>16. ASSUME TerminateVideo
         PROVE  misuse' \subseteq Backends \X Calls /\ phase' \in [Backends -> Phases]
    BY <2>16, <2>c, <2>w DEF TerminateVideo, Terminated, Backends, Phases
  <2>17. CASE MainTerminateVideo
    BY <2>16, <2>17 DEF MainTerminateVideo, TerminateVideo, MainStep, MainPcs
  <2>18. CASE MainClearVideo
    BY <2>18 DEF MainClearVideo, ClearVideo, MainStep, MainPcs
  <2>19. CASE Send
    BY <2>19, <2>c, <2>w DEF Send, MainStep, MainPcs
  <2>20. CASE Exit
    BY <2>20 DEF Exit, MainStep, MainPcs
  <2>21. CASE JoinVsync
    BY <2>21 DEF JoinVsync, MainStep, MainPcs, VsyncPcs
  <2>22. CASE Terminate
    BY <2>22, <2>c, <2>w DEF Terminate, Terminated, MainStep, MainPcs, Phases
  <2>23. CASE Cleanup
    BY <2>23, <2>c, <2>w DEF Cleanup, CleanedUp, MainPcs, Phases
  <2>24. CASE VsyncExit
    BY <2>24 DEF VsyncExit, VsyncStep, VsyncPcs
  <2>25. CASE VsyncCheck
    BY <2>25 DEF VsyncCheck, VsyncStep, VsyncPcs
  <2>26. CASE VsyncWait
    BY <2>26, <2>c, <2>w DEF VsyncWait, VsyncStep, VsyncPcs, Backends
  <2>27. CASE VsyncWaitStop
    BY <2>27, <2>c, <2>w DEF VsyncWaitStop, VsyncStep, VsyncPcs, Backends
  <2>28. CASE VsyncTerminateVideo
    BY <2>16, <2>28 DEF VsyncTerminateVideo, TerminateVideo, VsyncStep, VsyncPcs
  <2>29. CASE VsyncClearVideo
    BY <2>29 DEF VsyncClearVideo, ClearVideo, VsyncStep, VsyncPcs
  <2>30. CASE VsyncSignal
    BY <2>30 DEF VsyncSignal, VsyncStep, VsyncPcs, MainPcs
  <2>31. CASE UNCHANGED vars
    BY <2>31 DEF vars
  <2> QED
    BY <2>1, <2>2, <2>3, <2>4, <2>5, <2>7, <2>8, <2>9, <2>10, <2>11, <2>13, <2>14,
       <2>15, <2>17, <2>18, <2>19, <2>20, <2>21, <2>22, <2>23, <2>24, <2>25, <2>26,
       <2>27, <2>28, <2>29, <2>30, <2>31
       DEF Next, Service, MainThread, VsyncThread
<1> QED BY <1>1, <1>2, PTL DEF Spec

--------------------------------------------------------------------------------
(* Sessions.                                                               *)

\* A call made where every backend allows it is no misuse.
LEMMA AllowedCall ==
    ASSUME NEW B, NEW call, \A b \in B : phase[b] \in AllowedIn[call]
    PROVE  Wrong(B, call) = {}
BY DEF Wrong

\* A wait, a frame or a repeated start never counts against the pairing of calls.
LEMMA UnpairedCall ==
    ASSUME NEW B, NEW call, call \notin Paired
    PROVE  Wrong(B, call) \cap (Backends \X Paired) = {}
BY DEF Wrong

\* The session invariant holds initially.
LEMMA SessionInit == Init => SessionIInv
BY UnicaptureAssumption DEF Init, SessionIInv, TypeOK, ThreadInv, StopInv, SessionInv, PairedCalls,
       StoppedNotCleared, Backends, Phases, MainPcs, VsyncPcs

\* Every step keeps it, when one thread at most stops the capture.
LEMMA SessionStep ==
    ASSUME OneDetector, InitSucceeds, SessionIInv, TypeOK', [Next]_vars
    PROVE  SessionIInv'
<1> USE DEF SessionIInv, TypeOK, ThreadInv, StopInv, SessionInv, StoppedNotCleared,
            Backends
<1>a. /\ AllowedIn["init"] = {"none"}
      /\ AllowedIn["start"] = {"ready", "failed"}
      /\ AllowedIn["terminate"] = {"started"}
      /\ AllowedIn["cleanup"] = {"ready", "failed"}
  BY DEF AllowedIn
<1>p. PairedCalls = (misuse \cap (Backends \X Paired) = {})
  BY DEF PairedCalls, Paired
<1>q. PairedCalls' = (misuse' \cap (Backends \X Paired) = {})
  BY DEF PairedCalls, Paired
<1>1. CASE unicapture_start
  BY <1>1, <1>p, <1>q DEF unicapture_start
<1>2. CASE unicapture_stop
  BY <1>2, <1>p, <1>q DEF unicapture_stop
<1>3. CASE Joined
  BY <1>3, <1>p, <1>q DEF Joined
<1>4. CASE Reconfigure
  <2>1. mainPc = "none" /\ vsyncPc = "none" /\ capture_running = {}
    BY <1>4 DEF Reconfigure
  <2>2. \A b \in initialized : phase[b] = "ready"
    BY <2>1 DEF Phases
  <2>4. Wrong(initialized, "cleanup") = {}
    BY <2>2, <1>a, AllowedCall
  <2>3. PairedCalls'
    BY <1>4, <2>4, <1>p, <1>q DEF Reconfigure
  <2> QED BY <1>4, <2>1, <2>2, <2>3 DEF Reconfigure, CleanedUp, Opens
<1>5. CASE Boot
  <2>0. \A b \in configured \ initialized : phase[b] = "none"
    OBVIOUS
  <2>1. Wrong(configured \ initialized, "init") = {}
    BY <2>0, <1>a, AllowedCall
  <2>2. PairedCalls'
    BY <1>5, <2>1, <1>p, <1>q DEF Boot
  <2>3. initialized' = initialized \cup configured
    BY <1>5 DEF Boot, InitSucceeds
  <2>4. \A b \in Backends :
            phase'[b] = IF b \in configured \ initialized THEN "ready" ELSE phase[b]
    BY <1>5, <2>0 DEF Boot, Opens, InitSucceeds
  <2>5. ThreadInv' /\ StopInv'
    BY <1>5 DEF Boot
  <2>6. SessionInv'
    <3>1. initialized' = configured' /\ mainPc' = "loop" /\ capture_running' = {}
      BY <1>5, <2>3 DEF Boot
    <3>2. \A b \in Backends :
            /\ phase[b] \in {"none", "ready"}
            /\ phase[b] = "none" <=> b \notin initialized
      BY <1>5 DEF Boot, Phases
    <3>3. \A b \in Backends : phase'[b] = IF b \in initialized' THEN "ready" ELSE "none"
      BY <2>3, <2>4, <3>2
    <3> QED BY <3>1, <3>3
  <2> QED BY <2>2, <2>5, <2>6
<1>6. ASSUME NEW b \in Backends, StartIfDue(b), mainPc \in {"loop", "startVideo"},
             mainPc' \in {"startVideo", "wait"}
      PROVE  SessionIInv'
  <2>1. ASSUME Due(b) PROVE phase[b] \in {"ready", "failed"}
    BY <1>6, <2>1 DEF Due, Phases
  <2>2. Due(b) => Wrong({b}, "start") = {}
    BY <2>1, <1>a, AllowedCall
  <2>3. PairedCalls'
    <3>1. Wrong({b}, "restart") \cap (Backends \X Paired) = {}
      BY UnpairedCall DEF Paired
    <3> QED BY <1>6, <2>2, <3>1, <1>p, <1>q DEF StartIfDue
  <2>4. CASE ~Due(b)
    BY <1>6, <2>3, <2>4 DEF StartIfDue
  <2>5. CASE Due(b)
    <3>1. PICK ok \in StartResults(b) :
            /\ phase' = [phase EXCEPT ![b] = PhaseAfterStart(b, ok)]
            /\ capture_running' = IF ok THEN capture_running \cup {b}
                                        ELSE capture_running
      BY <1>6, <2>5 DEF StartIfDue
    <3>2. PhaseAfterStart(b, ok) = IF ok THEN "started" ELSE "failed"
      BY <2>1, <2>5 DEF PhaseAfterStart
    <3> QED BY <1>6, <2>1, <2>3, <2>5, <3>1, <3>2 DEF StartIfDue, Due
  <2> QED BY <2>4, <2>5
<1>7. CASE StartUi
  BY <1>6, <1>7 DEF StartUi
<1>8. CASE StartVideo
  BY <1>6, <1>8 DEF StartVideo
<1>9. CASE Elapse
  BY <1>9, <1>p, <1>q DEF Elapse
<1>10. CASE CondWait
  BY <1>10, <1>p, <1>q DEF CondWait, MainStep
<1>11. CASE SpuriousWake
  BY <1>11, <1>p, <1>q DEF SpuriousWake, MainStep
<1>12. \A B : Wrong(B, "acquire") \cap (Backends \X Paired) = {}
             /\ Wrong(B, "release") \cap (Backends \X Paired) = {}
             /\ Wrong(B, "wait") \cap (Backends \X Paired) = {}
  BY UnpairedCall DEF Paired
<1>13. CASE AcquireUi \/ TestVideo
  BY <1>12, <1>13, <1>p, <1>q DEF AcquireUi, TestVideo, Acquire, MainStep
<1>14. CASE AcquireVideo
  BY <1>12, <1>14, <1>p, <1>q DEF AcquireVideo, Acquire, MainStep
<1>15. CASE AcquireVideoStop
  BY <1>12, <1>15, <1>p, <1>q DEF AcquireVideoStop, MainStep
<1>16. ASSUME "video" \in capture_running, TerminateVideo,
              mainPc # "clearVideo", vsyncPc # "clearVideo"
       PROVE  PairedCalls' /\ phase' = [phase EXCEPT !["video"] = "ready"]
  <2>1. phase["video"] = "started"
    BY <1>16
  <2>2. Wrong({"video"}, "terminate") = {}
    BY <2>1, <1>a, AllowedCall
  <2> QED BY <1>16, <2>1, <2>2, <1>p, <1>q DEF TerminateVideo, Terminated
<1>17. CASE MainTerminateVideo
  BY <1>16, <1>17 DEF MainTerminateVideo, TerminateVideo, MainStep, OneDetector
<1>18. CASE MainClearVideo
  BY <1>18, <1>p, <1>q DEF MainClearVideo, ClearVideo, MainStep, OneDetector
<1>19. CASE Send
  BY <1>12, <1>19, <1>p, <1>q DEF Send, MainStep
<1>20. CASE Exit
  BY <1>20, <1>p, <1>q DEF Exit, MainStep
<1>21. CASE JoinVsync
  BY <1>21, <1>p, <1>q DEF JoinVsync, MainStep
<1>22. CASE Terminate
  <2>1. \A b \in capture_running : phase[b] = "started"
    BY <1>22 DEF Terminate, MainStep
  <2>2. Wrong(capture_running, "terminate") = {}
    BY <2>1, <1>a, AllowedCall
  <2>3. PairedCalls'
    BY <1>22, <2>2, <1>p, <1>q DEF Terminate
  <2>4. \A b \in Backends :
            phase'[b] = IF b \in capture_running THEN "ready" ELSE phase[b]
    BY <1>22, <2>1 DEF Terminate, Terminated
  <2> QED BY <1>22, <2>3, <2>4 DEF Terminate, MainStep
<1>23. CASE Cleanup
  <2>1. \A b \in initialized : phase[b] \in {"ready", "failed"}
    BY <1>23 DEF Cleanup, Phases
  <2>2. Wrong(initialized, "cleanup") = {}
    BY <2>1, <1>a, AllowedCall
  <2>3. PairedCalls'
    BY <1>23, <2>2, <1>p, <1>q DEF Cleanup
  <2> QED BY <1>23, <2>1, <2>3 DEF Cleanup, CleanedUp
<1>24. CASE VsyncExit
  BY <1>24, <1>p, <1>q DEF VsyncExit, VsyncStep
<1>25. CASE VsyncCheck
  BY <1>25, <1>p, <1>q DEF VsyncCheck, VsyncStep
<1>26. CASE VsyncWait
  BY <1>12, <1>26, <1>p, <1>q DEF VsyncWait, VsyncStep
<1>27. CASE VsyncWaitStop
  BY <1>12, <1>27, <1>p, <1>q DEF VsyncWaitStop, VsyncStep
<1>28. CASE VsyncTerminateVideo
  BY <1>16, <1>28 DEF VsyncTerminateVideo, TerminateVideo, VsyncStep, OneDetector
<1>29. CASE VsyncClearVideo
  BY <1>29, <1>p, <1>q DEF VsyncClearVideo, ClearVideo, VsyncStep, OneDetector
<1>30. CASE VsyncSignal
  BY <1>30, <1>p, <1>q DEF VsyncSignal, VsyncStep
<1>31. CASE UNCHANGED vars
  BY <1>31, <1>p, <1>q DEF vars
<1> QED
  BY <1>1, <1>2, <1>3, <1>4, <1>5, <1>7, <1>8, <1>9, <1>10, <1>11, <1>13, <1>14,
     <1>15, <1>17, <1>18, <1>19, <1>20, <1>21, <1>22, <1>23, <1>24, <1>25, <1>26,
     <1>27, <1>28, <1>29, <1>30, <1>31
     DEF Next, Service, MainThread, VsyncThread

\* The invariant holds in every state.
LEMMA SessionInductive ==
    ASSUME OneDetector, InitSucceeds
    PROVE  Spec => []SessionIInv
<1>1. SessionIInv /\ TypeOK' /\ [Next]_vars => SessionIInv'
  BY SessionStep
<1> QED BY SessionInit, TypeCorrect, <1>1, PTL DEF Spec

\* Whatever start fails and however the threads interleave, successful calls of a
\* backend are paired and in order, if only one thread stops the video capture.
THEOREM CallsArePaired ==
    ASSUME OneDetector, InitSucceeds
    PROVE  Spec => []PairedCalls
<1>1. SessionIInv => PairedCalls
  BY DEF SessionIInv
<1> QED BY SessionInductive, <1>1, PTL

\* A stopped service has closed every session it had started, and what it counts as
\* initialised is open, and nothing else, if only one thread stops the video capture: a
\* cleanup is never made under a session, which it would not end.
THEOREM StopLeavesNothingOpen ==
    ASSUME OneDetector, InitSucceeds
    PROVE  Spec => []NothingLeftOpen
<1>1. SessionIInv => NothingLeftOpen
  <2> SUFFICES ASSUME SessionIInv, AtRest
               PROVE  NothingLeftOpen
    BY DEF NothingLeftOpen
  <2>1. mainPc = "none" /\ vsyncPc = "none" /\ capture_running = {}
    BY DEF SessionIInv, ThreadInv, AtRest
  <2>2. \A b \in Backends : phase[b] \in Phases /\ phase[b] \notin {"started", "failed"}
    BY <2>1 DEF SessionIInv, SessionInv, TypeOK
  <2> QED BY <2>2 DEF SessionIInv, SessionInv, NothingLeftOpen, Phases
<1> QED BY <1>1, SessionInductive, PTL

--------------------------------------------------------------------------------
(* The threads, whatever fails and whoever ends a session.                 *)

ThreadIInv == TypeOK /\ ThreadInv

LEMMA ThreadStep ==
    ASSUME ThreadIInv, [Next]_vars
    PROVE  ThreadInv'
<1> USE DEF ThreadIInv, TypeOK, ThreadInv
<1>1. CASE Service
  BY <1>1 DEF Service, unicapture_start, unicapture_stop, Joined, Reconfigure
<1>2. CASE Boot
  BY <1>2 DEF Boot
<1>3. CASE StartUi \/ StartVideo
  BY <1>3 DEF StartUi, StartVideo, StartIfDue
<1>4. CASE Elapse \/ CondWait \/ SpuriousWake
  BY <1>4 DEF Elapse, CondWait, SpuriousWake, MainStep
<1>5. CASE AcquireUi \/ TestVideo
  BY <1>5 DEF AcquireUi, TestVideo, Acquire, MainStep
<1>6. CASE AcquireVideo \/ AcquireVideoStop
  BY <1>6 DEF AcquireVideo, AcquireVideoStop, Acquire, MainStep
<1>7. CASE MainTerminateVideo \/ MainClearVideo
  BY <1>7 DEF MainTerminateVideo, TerminateVideo, MainClearVideo, ClearVideo, MainStep
<1>8. CASE Send \/ Exit \/ JoinVsync
  BY <1>8 DEF Send, Exit, JoinVsync, MainStep
<1>9. CASE Terminate \/ Cleanup
  BY <1>9 DEF Terminate, Cleanup, MainStep
<1>10. CASE VsyncExit \/ VsyncCheck \/ VsyncWait \/ VsyncWaitStop \/ VsyncSignal
  BY <1>10 DEF VsyncExit, VsyncCheck, VsyncWait, VsyncWaitStop, VsyncSignal, VsyncStep
<1>11. CASE VsyncTerminateVideo \/ VsyncClearVideo
  BY <1>11
     DEF VsyncTerminateVideo, TerminateVideo, VsyncClearVideo, ClearVideo, VsyncStep
<1>12. CASE UNCHANGED vars
  BY <1>12 DEF vars
<1> QED
  BY <1>1, <1>2, <1>3, <1>4, <1>5, <1>6, <1>7, <1>8, <1>9, <1>10, <1>11, <1>12
     DEF Next, MainThread, VsyncThread

\* The invariant holds in every state.
LEMMA ThreadInductive == Spec => []ThreadIInv
<1>1. Init => ThreadInv
  BY DEF Init, ThreadInv
<1>2. ThreadIInv /\ [Next]_vars => ThreadInv'
  BY ThreadStep
<1> QED BY <1>1, <1>2, TypeCorrect, PTL DEF Spec, ThreadIInv

\* When unicapture_stop has returned no thread runs, no flag is set and no frame is
\* held, even if both threads end one session or end it under each other's feet.
THEOREM StopEndsThreads == Spec => []StopIsFinal
<1>1. ThreadIInv => StopIsFinal
  BY DEF ThreadIInv, ThreadInv, StopIsFinal, AtRest
<1> QED BY <1>1, ThreadInductive, PTL

--------------------------------------------------------------------------------
(* How far the threads have to go.  That a stop ends and frames keep       *)
(* coming takes fairness and is left to TLC.  What the code does for it is *)
(* proved here: no thread waits for one that is gone, and each step of a   *)
(* thread takes it nearer to where another one waits for it.               *)

\* Steps of the main thread to the end of an iteration, and from there to its own.
MainLeft ==
    [startVideo |-> 13, wait |-> 12, blocked |-> 11, acquireUi |-> 10,
     acquireVideo |-> 9, callVideo |-> 8, terminateVideo |-> 7, clearVideo |-> 6, send |-> 5,
     boot |-> 5, loop |-> 4, join |-> 3, terminate |-> 2, cleanup |-> 1,
     done |-> 0, none |-> 0]

\* Steps of the vsync thread to its next signal, and to its end once it was told to.
LeftToSignal ==
    [check |-> 4, wait |-> 3, terminateVideo |-> 2, clearVideo |-> 1, signal |-> 0,
     done |-> 0, none |-> 0]
LeftToEnd ==
    [wait |-> 5, terminateVideo |-> 4, clearVideo |-> 3, signal |-> 2, check |-> 1,
     done |-> 0, none |-> 0]

\* Whoever waits, waits for somebody who is there: the service for the main thread, the
\* main thread for a signal or for the end of the vsync thread.
NobodyIsStuck ==
    /\ ctl = "joining" => mainPc # "none"
    /\ mainPc = "blocked" => vsync_thread_running /\ vsyncPc \notin {"none", "done"}
    /\ mainPc = "join" => ~vsync_thread_running /\ vsyncPc # "none"

\* The main thread only moves on, and begins another iteration only if it still runs;
\* while it waits, the vsync thread moves towards the signal, or the end, it waits for.
Advances ==
    /\ mainPc' # mainPc =>
         \/ MainLeft[mainPc'] < MainLeft[mainPc]
         \/ mainPc = "loop" /\ running
         \/ mainPc \in {"none", "done"}
    /\ mainPc = "blocked" /\ vsyncPc' # vsyncPc =>
         mainPc' # "blocked" \/ LeftToSignal[vsyncPc'] < LeftToSignal[vsyncPc]
    /\ mainPc = "join" /\ vsyncPc' # vsyncPc =>
         mainPc' # "join" \/ LeftToEnd[vsyncPc'] < LeftToEnd[vsyncPc]

\* The vsync thread ends only when it is joined.
AliveInv == vsyncPc = "done" => mainPc = "join"

LEMMA AliveStep ==
    ASSUME TypeOK, ThreadInv, AliveInv, [Next]_vars
    PROVE  AliveInv' /\ Advances
<1> USE DEF TypeOK, ThreadInv, AliveInv, MainPcs, VsyncPcs
<1>m. ASSUME vsyncPc' = vsyncPc, mainPc' # mainPc,
             mainPc = "join" => mainPc' = "terminate" /\ vsyncPc # "done",
             \/ MainLeft[mainPc'] < MainLeft[mainPc]
             \/ mainPc = "loop" /\ running
             \/ mainPc \in {"none", "done"}
      PROVE  AliveInv' /\ Advances
  BY <1>m DEF Advances
<1>1. CASE UNCHANGED <<mainPc, vsyncPc>>
  BY <1>1 DEF Advances
<1>2. CASE unicapture_start \/ Joined
  BY <1>m, <1>2 DEF unicapture_start, Joined
<1>3. CASE unicapture_stop \/ Reconfigure \/ Elapse \/ UNCHANGED vars
  BY <1>1, <1>3 DEF unicapture_stop, Reconfigure, Elapse, vars
<1>4. CASE Boot
  BY <1>4 DEF Boot, Advances, MainLeft
<1>5. CASE StartUi \/ StartVideo
  BY <1>m, <1>5 DEF StartUi, StartVideo, StartIfDue, MainLeft
<1>6. CASE CondWait \/ SpuriousWake
  BY <1>m, <1>6 DEF CondWait, SpuriousWake, MainStep, MainLeft
<1>7. CASE AcquireUi \/ TestVideo \/ AcquireVideo \/ AcquireVideoStop
  BY <1>m, <1>7
     DEF AcquireUi, TestVideo, AcquireVideo, AcquireVideoStop, Acquire, MainStep, MainLeft
<1>8. CASE MainTerminateVideo \/ MainClearVideo
  BY <1>m, <1>8
     DEF MainTerminateVideo, MainClearVideo, TerminateVideo, ClearVideo, MainStep, MainLeft
<1>9. CASE Send \/ Exit
  BY <1>m, <1>9 DEF Send, Exit, MainStep, MainLeft
<1>10. CASE JoinVsync
  BY <1>10 DEF JoinVsync, MainStep, Advances, MainLeft
<1>11. CASE Terminate \/ Cleanup
  BY <1>m, <1>11 DEF Terminate, Cleanup, MainStep, MainLeft
<1> USE DEF Advances, VsyncStep, LeftToSignal, LeftToEnd
<1>12. CASE VsyncExit
  BY <1>12 DEF VsyncExit
<1>13. CASE VsyncCheck
  BY <1>13 DEF VsyncCheck
<1>14. CASE VsyncWait \/ VsyncWaitStop
  BY <1>14 DEF VsyncWait, VsyncWaitStop
<1>15. CASE VsyncTerminateVideo \/ VsyncClearVideo
  BY <1>15 DEF VsyncTerminateVideo, VsyncClearVideo, TerminateVideo, ClearVideo
<1>16. CASE VsyncSignal
  BY <1>16 DEF VsyncSignal, MainLeft
<1> QED
  BY <1>2, <1>3, <1>4, <1>5, <1>6, <1>7, <1>8, <1>9, <1>10, <1>11, <1>12, <1>13, <1>14,
     <1>15, <1>16
     DEF Next, Service, MainThread, VsyncThread

\* A stop, and a frame, cannot get stuck, whatever the backends answer: the one who is
\* waited for is there, and comes nearer with each of its steps.  Thirteen steps of the
\* main thread, five of the vsync thread for each of its two waits, end a capture.
THEOREM ThreadsAdvance == Spec => []NobodyIsStuck /\ [][Advances]_vars
<1>1. Init => AliveInv
  BY DEF Init, AliveInv
<1>2. ThreadIInv /\ AliveInv /\ [Next]_vars => AliveInv' /\ Advances
  BY AliveStep DEF ThreadIInv
<1>3. ThreadIInv /\ AliveInv => NobodyIsStuck
  BY DEF ThreadIInv, ThreadInv, AliveInv, NobodyIsStuck
<1>4. ThreadIInv /\ AliveInv /\ [Next]_vars => [Advances]_vars
  BY <1>2
<1> QED BY <1>1, <1>2, <1>3, <1>4, ThreadInductive, PTL DEF Spec

--------------------------------------------------------------------------------
(* Frames.                                                                 *)

\* No step takes a session away from under a frame, when no wait stops the capture.
LEMMA FrameStep ==
    ASSUME WaitNeverStops, InitSucceeds, FrameIInv, SessionIInv', [Next]_vars
    PROVE  FrameIInv'
<1> USE DEF FrameIInv, FrameInv, SessionIInv, TypeOK, ThreadInv, StopInv, SessionInv,
            StoppedNotCleared, Backends, WaitNeverStops
<1> DEFINE FrameCalls == {"acquire", "release"}
           NoMisuse == misuse \cap (Backends \X FrameCalls) = {}
<1>a. /\ AllowedIn["acquire"] = {"started"}
      /\ AllowedIn["release"] = {"started"}
  BY DEF AllowedIn
<1>o. ASSUME NEW B, NEW call, call \notin FrameCalls
      PROVE  Wrong(B, call) \cap (Backends \X FrameCalls) = {}
  BY <1>o DEF Wrong
<1>v. vsyncPc \notin {"terminateVideo", "clearVideo"}
  OBVIOUS
<1>r. \A b \in capture_running : ~StoppedNotCleared(b) => phase[b] = "started"
  OBVIOUS
<1>i. ASSUME NoMisuse', FrameInv', vsyncPc' # "clearVideo",
             "video" \in held' => mainPc' # "clearVideo"
      PROVE  FrameIInv'
  <2>1. \A b \in held' : phase'[b] = "started"
    BY <1>i
  <2> QED BY <1>i, <2>1 DEF FramesOfOpenSession
<1>n. NoMisuse
  BY DEF FramesOfOpenSession
<1> HIDE DEF FrameIInv
<1>k. SessionIInv /\ FrameInv
  BY DEF FrameIInv
<1>1. CASE unicapture_start
  BY <1>1, <1>i, <1>k, <1>n, <1>v DEF unicapture_start
<1>2. CASE unicapture_stop
  BY <1>2, <1>i, <1>k, <1>n, <1>v DEF unicapture_stop
<1>3. CASE Joined
  BY <1>3, <1>i, <1>k, <1>n, <1>v DEF Joined
<1>4. CASE Reconfigure
  BY <1>4, <1>i, <1>k, <1>n, <1>o, <1>v DEF Reconfigure
<1>5. CASE Boot
  BY <1>5, <1>i, <1>k, <1>n, <1>o, <1>v DEF Boot
<1>6. ASSUME NEW b \in Backends, StartIfDue(b), mainPc \in {"loop", "startVideo"},
             mainPc' \in {"startVideo", "wait"}
      PROVE  FrameIInv'
  <2>1. NoMisuse'
    <3>1. /\ Wrong({b}, "start") \cap (Backends \X FrameCalls) = {}
          /\ Wrong({b}, "restart") \cap (Backends \X FrameCalls) = {}
      BY <1>o
    <3> QED BY <1>6, <1>n, <3>1 DEF StartIfDue
  <2>2. held' = held /\ held = {} /\ vsyncPc' = vsyncPc
    BY <1>6, <1>k DEF StartIfDue
  <2> QED BY <1>6, <1>i, <1>v, <2>1, <2>2
<1>7. CASE StartUi
  BY <1>6, <1>7 DEF StartUi
<1>8. CASE StartVideo
  BY <1>6, <1>8 DEF StartVideo
<1>9. CASE Elapse
  BY <1>9, <1>i, <1>k, <1>n, <1>v DEF Elapse
<1>10. CASE CondWait
  BY <1>10, <1>i, <1>k, <1>n, <1>v DEF CondWait, MainStep
<1>11. CASE SpuriousWake
  BY <1>11, <1>i, <1>k, <1>n, <1>v DEF SpuriousWake, MainStep
<1>12. ASSUME NEW b \in capture_running, ~StoppedNotCleared(b)
       PROVE  Wrong({b}, "acquire") = {}
  BY <1>12, <1>r, <1>a, AllowedCall
<1>13. CASE AcquireUi \/ TestVideo
  BY <1>12, <1>13, <1>i, <1>k, <1>n, <1>v DEF AcquireUi, TestVideo, Acquire, MainStep
<1>14. CASE AcquireVideo
  BY <1>12, <1>14, <1>i, <1>k, <1>n, <1>v DEF AcquireVideo, Acquire, MainStep
<1>15. CASE AcquireVideoStop
  BY <1>12, <1>15, <1>i, <1>k, <1>n, <1>v DEF AcquireVideoStop, MainStep
<1>17. CASE MainTerminateVideo
  BY <1>17, <1>i, <1>k, <1>n, <1>o, <1>v DEF MainTerminateVideo, TerminateVideo, MainStep
<1>18. CASE MainClearVideo
  BY <1>18, <1>i, <1>k, <1>n, <1>v DEF MainClearVideo, ClearVideo, MainStep
<1>19. CASE Send
  <2>1. \A b \in held : phase[b] = "started"
    BY <1>19, <1>k, <1>r, <1>v DEF Send, MainStep
  <2>2. Wrong(held, "release") = {}
    BY <2>1, <1>a, AllowedCall
  <2> QED BY <1>19, <2>2, <1>i, <1>k, <1>n, <1>v DEF Send, MainStep
<1>20. CASE Exit
  BY <1>20, <1>i, <1>k, <1>n, <1>v DEF Exit, MainStep
<1>21. CASE JoinVsync
  BY <1>21, <1>i, <1>k, <1>n, <1>v DEF JoinVsync, MainStep
<1>22. CASE Terminate
  BY <1>22, <1>i, <1>k, <1>n, <1>o, <1>v DEF Terminate, MainStep
<1>23. CASE Cleanup
  BY <1>23, <1>i, <1>k, <1>n, <1>o, <1>v DEF Cleanup
<1>24. CASE VsyncExit
  BY <1>24, <1>i, <1>k, <1>n, <1>v DEF VsyncExit, VsyncStep
<1>25. CASE VsyncCheck
  BY <1>25, <1>i, <1>k, <1>n, <1>v DEF VsyncCheck, VsyncStep
<1>26. CASE VsyncWait
  BY <1>26, <1>i, <1>k, <1>n, <1>o, <1>v DEF VsyncWait, VsyncStep
<1>27. CASE VsyncWaitStop
  BY <1>27, <1>k DEF VsyncWaitStop, VsyncStep
<1>28. CASE VsyncTerminateVideo
  BY <1>28, <1>v DEF VsyncTerminateVideo, VsyncStep
<1>29. CASE VsyncClearVideo
  BY <1>29, <1>v DEF VsyncClearVideo, VsyncStep
<1>30. CASE VsyncSignal
  BY <1>30, <1>i, <1>k, <1>n, <1>v DEF VsyncSignal, VsyncStep
<1>31. CASE UNCHANGED vars
  BY <1>31, <1>i, <1>k, <1>n, <1>v DEF vars
<1> QED
  BY <1>1, <1>2, <1>3, <1>4, <1>5, <1>7, <1>8, <1>9, <1>10, <1>11, <1>13, <1>14,
     <1>15, <1>17, <1>18, <1>19, <1>20, <1>21, <1>22, <1>23, <1>24, <1>25, <1>26,
     <1>27, <1>28, <1>29, <1>30, <1>31
     DEF Next, Service, MainThread, VsyncThread

\* Frames are acquired, used and released inside the session they came from, if
\* no wait of the vsync thread stops the capture behind the main thread's back.
THEOREM FramesStayInSession ==
    ASSUME WaitNeverStops, InitSucceeds
    PROVE  Spec => []FramesOfOpenSession
<1>1. OneDetector
  BY DEF WaitNeverStops, OneDetector
<1>2. Init => FrameIInv
  BY SessionInit DEF Init, FrameIInv, FrameInv, FramesOfOpenSession
<1>3. FrameIInv /\ SessionIInv' /\ [Next]_vars => FrameIInv'
  BY FrameStep
<1>4. FrameIInv => FramesOfOpenSession
  BY DEF FrameIInv
<1>5. Spec => []SessionIInv
  BY <1>1, SessionInductive
<1> QED BY <1>2, <1>3, <1>4, <1>5, PTL DEF Spec

--------------------------------------------------------------------------------
(* Waits.                                                                  *)

\* The vsync thread waits only in a session that is running.
WaitInv == vsyncPc = "wait" => "video" \in capture_running

WaitIInv == WaitInv /\ WaitOfOpenSession

\* No step ends a session under a wait, when no acquire stops the capture.
LEMMA WaitStep ==
    ASSUME AcquireNeverStops, SessionIInv, WaitIInv, SessionIInv', [Next]_vars
    PROVE  WaitIInv'
<1> USE DEF WaitIInv, WaitInv, WaitOfOpenSession, AcquireNeverStops
<1>a. \A B, call : call # "wait" => <<"video", "wait">> \notin Wrong(B, call)
  BY DEF Wrong
<1>b. vsyncPc = "wait" =>
        Vsync /\ mainPc \notin {"none", "boot", "clearVideo", "terminateVideo",
                                "terminate", "cleanup", "done"}
  BY DEF SessionIInv, ThreadInv, StopInv
<1>c. vsyncPc = "wait" => Wrong({"video"}, "wait") = {}
  <2>1. vsyncPc = "wait" => phase["video"] = "started"
    BY <1>b DEF SessionIInv, SessionInv, StoppedNotCleared, Backends
  <2>2. AllowedIn["wait"] = {"started"}
    BY DEF AllowedIn
  <2> QED BY <2>1, <2>2 DEF Wrong
<1>1. CASE unicapture_start \/ unicapture_stop \/ Joined \/ Elapse
  BY <1>1 DEF unicapture_start, unicapture_stop, Joined, Elapse
<1>2. CASE Reconfigure \/ Boot \/ Cleanup \/ Terminate
  <2>1. mainPc \in {"none", "boot", "terminate", "cleanup", "done"} /\ vsyncPc # "wait"
    BY <1>2, <1>b
       DEF Reconfigure, Boot, Cleanup, Terminate, MainStep, SessionIInv, ThreadInv
  <2> QED BY <1>2, <1>a, <2>1 DEF Reconfigure, Boot, Cleanup, Terminate, MainStep
<1>3. CASE StartUi \/ StartVideo
  BY <1>3, <1>a DEF StartUi, StartVideo, StartIfDue
<1>4. CASE CondWait \/ SpuriousWake \/ Exit \/ JoinVsync
  BY <1>4 DEF CondWait, SpuriousWake, Exit, JoinVsync, MainStep
<1>5. CASE AcquireUi \/ TestVideo \/ AcquireVideo \/ AcquireVideoStop \/ Send
  BY <1>5, <1>a
     DEF AcquireUi, TestVideo, AcquireVideo, AcquireVideoStop, Send, Acquire, MainStep
<1>6. CASE MainTerminateVideo \/ MainClearVideo
  <2>1. vsyncPc # "wait"
    BY <1>6, <1>b DEF MainTerminateVideo, MainClearVideo, MainStep
  <2> QED BY <1>6, <1>a, <2>1
    DEF MainTerminateVideo, MainClearVideo, TerminateVideo, ClearVideo, MainStep
<1>7. CASE VsyncExit \/ VsyncCheck \/ VsyncSignal
  BY <1>7 DEF VsyncExit, VsyncCheck, VsyncSignal, VsyncStep
<1>8. CASE VsyncWait \/ VsyncWaitStop
  BY <1>8, <1>c DEF VsyncWait, VsyncWaitStop, VsyncStep
<1>9. CASE VsyncTerminateVideo \/ VsyncClearVideo
  BY <1>9, <1>a
     DEF VsyncTerminateVideo, VsyncClearVideo, TerminateVideo, ClearVideo, VsyncStep
<1>10. CASE UNCHANGED vars
  BY <1>10 DEF vars
<1> QED
  BY <1>1, <1>2, <1>3, <1>4, <1>5, <1>6, <1>7, <1>8, <1>9, <1>10
     DEF Next, Service, MainThread, VsyncThread

\* The session lasts while the vsync thread is inside the backend's wait, even if it is
\* the wait that ends it: the main thread joins the vsync thread first.
THEOREM WaitsAreInSession ==
    ASSUME AcquireNeverStops, InitSucceeds
    PROVE  Spec => []WaitOfOpenSession
<1>1. OneDetector
  BY DEF AcquireNeverStops, OneDetector
<1>2. Init => WaitIInv
  BY DEF Init, WaitIInv, WaitInv, WaitOfOpenSession
<1>3. SessionIInv /\ WaitIInv /\ SessionIInv' /\ [Next]_vars => WaitIInv'
  BY WaitStep
<1>4. WaitIInv => WaitOfOpenSession
  BY DEF WaitIInv
<1>5. Spec => []SessionIInv
  BY <1>1, SessionInductive
<1> QED BY <1>2, <1>3, <1>4, <1>5, PTL DEF Spec

--------------------------------------------------------------------------------
(* What a backend sees of its caller, whatever start fails.                *)

\* What a step may do to the session of b.
SessionMove(b) ==
    LET was == phase[b]  will == phase'[b] IN
    \/ was = will
    \/ was \in {"none", "ready"} /\ will \in {"none", "ready"}
    \/ was \in {"ready", "failed"} /\ will \in {"failed", "started"}
    \/ was = "started" /\ will = "ready"
    \/ was = "failed" /\ will = "none"

\* Every step is a call that the backend is prepared for, or none, be it the user
\* interface's backend or the video's.
LEMMA SessionMoves ==
    ASSUME SessionIInv, [Next]_vars, NEW b \in Backends
    PROVE  SessionMove(b)
<1>k. /\ ThreadInv /\ SessionInv /\ phase \in [Backends -> Phases]
      /\ phase[b] \in {"none", "ready", "failed", "started"}
  BY DEF SessionIInv, TypeOK, Phases
<1>u. ASSUME phase'[b] = phase[b]
      PROVE  SessionMove(b)
  BY <1>u DEF SessionMove
<1>1. CASE unicapture_start \/ unicapture_stop \/ Joined \/ Elapse
  BY <1>1, <1>u DEF unicapture_start, unicapture_stop, Joined, Elapse
<1>2. CASE Reconfigure \/ Boot
  <2>1. mainPc \in {"none", "boot"}
    BY <1>2, <1>k DEF Reconfigure, Boot, ThreadInv
  <2>2. phase[b] \in {"none", "ready"}
    BY <1>k, <2>1 DEF ThreadInv, SessionInv
  <2>3. phase'[b] \in {"none", "ready"}
    BY <1>2, <2>2 DEF Reconfigure, Boot, CleanedUp, Opens
  <2> QED BY <2>2, <2>3 DEF SessionMove
<1>3. ASSUME NEW c \in Backends, StartIfDue(c), mainPc \in {"loop", "startVideo"}
      PROVE  SessionMove(b)
  <2>1. CASE ~Due(c) \/ b # c
    BY <1>3, <1>k, <1>u, <2>1 DEF StartIfDue
  <2>2. CASE Due(c) /\ b = c
    <3>1. phase[b] \in {"ready", "failed"}
      BY <1>3, <1>k, <2>2 DEF Due, SessionInv
    <3>2. PICK ok \in StartResults(b) :
            phase' = [phase EXCEPT ![b] = PhaseAfterStart(b, ok)]
      BY <1>3, <2>2 DEF StartIfDue
    <3>3. phase'[b] \in {"failed", "started"}
      BY <1>k, <3>1, <3>2 DEF PhaseAfterStart
    <3> QED BY <3>1, <3>3 DEF SessionMove
  <2> QED BY <2>1, <2>2
<1>4. CASE StartUi \/ StartVideo
  BY <1>3, <1>4 DEF StartUi, StartVideo, Backends
<1>5. CASE CondWait \/ SpuriousWake \/ Exit \/ JoinVsync \/ MainClearVideo
  BY <1>5, <1>u DEF CondWait, SpuriousWake, Exit, JoinVsync, MainClearVideo, ClearVideo
<1>6. CASE AcquireUi \/ TestVideo \/ AcquireVideo \/ AcquireVideoStop \/ Send
  BY <1>6, <1>u DEF AcquireUi, TestVideo, AcquireVideo, AcquireVideoStop, Acquire, Send
<1>7. CASE MainTerminateVideo \/ Terminate \/ VsyncTerminateVideo
  <2>1. PICK B : phase' = Terminated(B)
    BY <1>7 DEF MainTerminateVideo, Terminate, VsyncTerminateVideo, TerminateVideo
  <2> QED BY <1>k, <2>1 DEF Terminated, SessionMove
<1>8. CASE Cleanup
  <2>1. phase[b] # "started"
    BY <1>8, <1>k DEF Cleanup, ThreadInv, SessionInv
  <2>2. phase'[b] = IF b \in initialized THEN "none" ELSE phase[b]
    BY <1>8, <1>k, <2>1 DEF Cleanup, CleanedUp, SessionInv
  <2> QED BY <1>k, <2>1, <2>2 DEF SessionMove
<1>9. CASE VsyncExit \/ VsyncCheck \/ VsyncWait \/ VsyncWaitStop \/ VsyncSignal
           \/ VsyncClearVideo
  BY <1>9, <1>u
     DEF VsyncExit, VsyncCheck, VsyncWait, VsyncWaitStop, VsyncSignal, VsyncClearVideo,
         ClearVideo
<1>10. CASE UNCHANGED vars
  BY <1>10, <1>u DEF vars
<1> QED
  BY <1>1, <1>2, <1>4, <1>5, <1>6, <1>7, <1>8, <1>9, <1>10
     DEF Next, Service, MainThread, VsyncThread

\* The session moves only while no frame of it is held, and frames come and go only in
\* a session that is running.
FrameMove(b) ==
    /\ phase'[b] # phase[b] => b \notin held /\ b \notin held'
    /\ (b \in held) # (b \in held') => phase[b] = "started"

LEMMA FrameMoves ==
    ASSUME WaitNeverStops, FrameIInv, [Next]_vars, NEW b \in Backends
    PROVE  FrameMove(b)
<1>k. /\ ThreadInv /\ StopInv /\ SessionInv /\ FrameInv
      /\ b \in held => phase[b] = "started"
  BY DEF FrameIInv, SessionIInv, FramesOfOpenSession
<1>v. vsyncPc \notin {"terminateVideo", "clearVideo"}
  BY <1>k DEF StopInv, WaitNeverStops
<1>f. ASSUME held' = held,
             mainPc \notin {"acquireVideo", "callVideo", "terminateVideo", "clearVideo",
                             "send"}
      PROVE  FrameMove(b)
  BY <1>f, <1>k DEF ThreadInv, FrameMove
<1>u. ASSUME UNCHANGED <<phase, held>>
      PROVE  FrameMove(b)
  BY <1>u DEF FrameMove
<1>1. CASE unicapture_start \/ unicapture_stop \/ Joined \/ Elapse
  BY <1>1, <1>u DEF unicapture_start, unicapture_stop, Joined, Elapse
<1>2. CASE Reconfigure \/ Boot \/ StartUi \/ StartVideo \/ Terminate \/ Cleanup
  BY <1>2, <1>f, <1>k
     DEF Reconfigure, Boot, StartUi, StartVideo, StartIfDue, Terminate, Cleanup, MainStep,
         ThreadInv
<1>3. CASE CondWait \/ SpuriousWake \/ Exit \/ JoinVsync \/ AcquireVideoStop
           \/ MainClearVideo
  BY <1>3, <1>u
     DEF CondWait, SpuriousWake, Exit, JoinVsync, AcquireVideoStop, MainClearVideo,
         ClearVideo
<1>4. ASSUME NEW c \in capture_running, Acquire(c), mainPc \in {"acquireUi", "callVideo"}
      PROVE  FrameMove(b)
  <2>1. phase' = phase /\ held' \in {held, held \cup {c}}
    BY <1>4 DEF Acquire
  <2>2. phase[c] = "started"
    BY <1>4, <1>k, <1>v DEF FrameIInv, SessionIInv, TypeOK, SessionInv, StoppedNotCleared
  <2> QED BY <2>1, <2>2 DEF FrameMove
<1>5. CASE AcquireUi \/ TestVideo \/ AcquireVideo
  BY <1>4, <1>5, <1>k, <1>u DEF AcquireUi, TestVideo, AcquireVideo, MainStep, FrameInv
<1>6. CASE Send
  BY <1>6, <1>k DEF Send, FrameMove
<1>7. CASE MainTerminateVideo
  <2>1. "video" \notin held /\ held' = held /\ phase' = Terminated({"video"})
    BY <1>7, <1>k DEF MainTerminateVideo, TerminateVideo, MainStep, FrameInv
  <2> QED BY <2>1 DEF Terminated, FrameMove
<1>8. CASE VsyncExit \/ VsyncCheck \/ VsyncWait \/ VsyncWaitStop \/ VsyncSignal
  BY <1>8, <1>u DEF VsyncExit, VsyncCheck, VsyncWait, VsyncWaitStop, VsyncSignal
<1>9. CASE VsyncTerminateVideo \/ VsyncClearVideo
  BY <1>9, <1>v DEF VsyncTerminateVideo, VsyncClearVideo, VsyncStep
<1>10. CASE UNCHANGED vars
  BY <1>10, <1>u DEF vars
<1> QED
  BY <1>1, <1>2, <1>3, <1>5, <1>6, <1>7, <1>8, <1>9, <1>10
     DEF Next, Service, MainThread, VsyncThread

\* Whichever one of the two threads may be asked for a restart, and whatever start fails,
\* both backends are opened, started, terminated and cleaned up as CaptureContract says,
\* but for the repeated start.  Frames are left out: with a wait that stops the capture
\* they do outlive their session.
THEOREM SessionsKeepContract ==
    ASSUME OneDetector, InitSucceeds
    PROVE  Spec => UiSessions!LenientSpec /\ SessionContract
<1>1. Init /\ SessionIInv => UiSessions!ContractInit /\ VideoSessions!ContractInit
  BY DEF Init, PairingSeen, UiSessions!ContractInit, VideoSessions!ContractInit, Backends
<1>2. SessionIInv /\ SessionIInv' /\ [Next]_vars
        => /\ [UiSessions!ContractNext \/ UiSessions!StartAgain]_(UiSessions!contractVars)
           /\ [VideoSessions!ContractNext \/ VideoSessions!StartAgain]_
                    (VideoSessions!contractVars)
  <2> SUFFICES ASSUME SessionIInv, SessionIInv', [Next]_vars
               PROVE  /\ [UiSessions!ContractNext \/ UiSessions!StartAgain]_
                                (UiSessions!contractVars)
                      /\ [VideoSessions!ContractNext \/ VideoSessions!StartAgain]_
                                (VideoSessions!contractVars)
    OBVIOUS
  <2>1. /\ PairingSeen("ui") = phase["ui"] /\ PairingSeen("ui")' = phase'["ui"]
        /\ PairingSeen("video") = phase["video"] /\ PairingSeen("video")' = phase'["video"]
    BY DEF PairingSeen, SessionIInv, PairedCalls, Paired, Backends
  <2>2. SessionMove("ui") /\ SessionMove("video")
    BY SessionMoves DEF Backends
  <2>3. [UiSessions!ContractNext \/ UiSessions!StartAgain]_(UiSessions!contractVars)
    BY <2>1, <2>2
       DEF SessionMove, UiSessions!ContractNext, UiSessions!StartAgain,
           UiSessions!contractVars, UiSessions!Replace, UiSessions!capture_start,
           UiSessions!capture_terminate, UiSessions!capture_cleanup
  <2>4. [VideoSessions!ContractNext \/ VideoSessions!StartAgain]_
                (VideoSessions!contractVars)
    BY <2>1, <2>2
       DEF SessionMove, VideoSessions!ContractNext, VideoSessions!StartAgain,
           VideoSessions!contractVars, VideoSessions!Replace, VideoSessions!capture_start,
           VideoSessions!capture_terminate, VideoSessions!capture_cleanup
  <2> QED BY <2>3, <2>4
<1> QED
  BY <1>1, <1>2, SessionInductive, PTL
     DEF Spec, SessionContract, UiSessions!LenientSpec, VideoSessions!LenientSpec

\* What the session of b has suffered: a repeated start and a wait during a stop are
\* the two liberties its caller may take.
SessionSeen(b) ==
    IF misuse \cap ({b} \X (Calls \ {"restart", "wait"})) = {} THEN phase[b] ELSE "misused"

UiCaller == INSTANCE CaptureContract WITH
                phase <- SessionSeen("ui"), frame <- "ui" \in held
VideoCaller == INSTANCE CaptureContract WITH
                phase <- SessionSeen("video"), frame <- "video" \in held

LEMMA SessionAsItIs ==
    ASSUME FrameIInv, NEW b \in Backends
    PROVE  SessionSeen(b) = phase[b]
BY DEF SessionSeen, FrameIInv, SessionIInv, PairedCalls, Paired, FramesOfOpenSession, Backends,
       Calls, AllowedIn

\* Whatever start fails, whenever acquire_frame asks for a restart and however the
\* threads interleave, both backends see a caller that keeps to CaptureContract but for
\* the repeated start, if no wait stops the capture: the detailed specification
\* implements the lenient contract, which BackendsProofs takes the backends to.
THEOREM CallersKeepContract ==
    ASSUME WaitNeverStops, InitSucceeds
    PROVE  Spec => UiCaller!LenientSpec /\ VideoCaller!LenientSpec
<1>1. OneDetector
  BY DEF WaitNeverStops, OneDetector
<1>2. Init => FrameIInv
  BY SessionInit DEF Init, FrameIInv, FrameInv, FramesOfOpenSession
<1>3. FrameIInv /\ SessionIInv' /\ [Next]_vars => FrameIInv'
  BY FrameStep
<1>4. Spec => []SessionIInv
  BY <1>1, SessionInductive
<1>5. Spec => []FrameIInv
  BY <1>2, <1>3, <1>4, PTL DEF Spec
<1>6. Init /\ FrameIInv => UiCaller!ContractInit /\ VideoCaller!ContractInit
  BY SessionAsItIs DEF Init, UiCaller!ContractInit, VideoCaller!ContractInit, Backends
<1>7. FrameIInv /\ FrameIInv' /\ [Next]_vars
        => /\ [UiCaller!ContractNext \/ UiCaller!StartAgain]_(UiCaller!contractVars)
           /\ [VideoCaller!ContractNext \/ VideoCaller!StartAgain]_(VideoCaller!contractVars)
  <2> SUFFICES ASSUME FrameIInv, FrameIInv', [Next]_vars
               PROVE  /\ [UiCaller!ContractNext \/ UiCaller!StartAgain]_(UiCaller!contractVars)
                      /\ [VideoCaller!ContractNext \/ VideoCaller!StartAgain]_
                                (VideoCaller!contractVars)
    OBVIOUS
  <2>1. /\ SessionSeen("ui") = phase["ui"] /\ SessionSeen("ui")' = phase'["ui"]
        /\ SessionSeen("video") = phase["video"] /\ SessionSeen("video")' = phase'["video"]
    BY DEF SessionSeen, FrameIInv, SessionIInv, PairedCalls, Paired, FramesOfOpenSession, Backends,
           Calls, AllowedIn
  <2>2. /\ SessionMove("ui") /\ FrameMove("ui")
        /\ SessionMove("video") /\ FrameMove("video")
    BY SessionMoves, FrameMoves DEF FrameIInv, Backends
  <2>3. /\ phase["ui"] \in Phases /\ phase["video"] \in Phases
        /\ "ui" \in held => phase["ui"] = "started"
        /\ "video" \in held => phase["video"] = "started"
    BY DEF FrameIInv, SessionIInv, TypeOK, FramesOfOpenSession, Backends
  <2>4. [UiCaller!ContractNext \/ UiCaller!StartAgain]_(UiCaller!contractVars)
    BY <2>1, <2>2, <2>3
       DEF SessionMove, FrameMove, UiCaller!ContractNext, UiCaller!StartAgain,
           UiCaller!contractVars, UiCaller!Replace, UiCaller!capture_start, UiCaller!capture_terminate,
           UiCaller!capture_acquire_frame, UiCaller!capture_release_frame,
           UiCaller!capture_cleanup
  <2>5. [VideoCaller!ContractNext \/ VideoCaller!StartAgain]_(VideoCaller!contractVars)
    BY <2>1, <2>2, <2>3
       DEF SessionMove, FrameMove, VideoCaller!ContractNext, VideoCaller!StartAgain,
           VideoCaller!contractVars, VideoCaller!Replace, VideoCaller!capture_start,
           VideoCaller!capture_terminate, VideoCaller!capture_acquire_frame,
           VideoCaller!capture_release_frame, VideoCaller!capture_cleanup
  <2> QED BY <2>4, <2>5
<1> QED
  BY <1>5, <1>6, <1>7, PTL
     DEF Spec, UiCaller!LenientSpec, VideoCaller!LenientSpec

--------------------------------------------------------------------------------
(* The contract.                                                           *)

\* What is left when every start succeeds: nothing is ever called out of turn.
StartInv ==
    /\ \A b \in Backends : phase[b] # "failed"
    /\ misuse \cap (Backends \X {"restart"}) = {}
    /\ <<"ui", "wait">> \notin misuse

\* A start that is tried succeeds, and is no repetition.
LEMMA StartStep ==
    ASSUME StartSucceeds, SessionIInv, StartInv, [Next]_vars
    PROVE  StartInv'
<1> USE DEF StartInv
<1>a. \A B, call : call # "restart" =>
            Wrong(B, call) \cap (Backends \X {"restart"}) = {}
  BY DEF Wrong
<1>b. \A B, call : call # "wait" \/ B = {"video"} => <<"ui", "wait">> \notin Wrong(B, call)
  BY DEF Wrong
<1>c. ASSUME NEW B \in SUBSET Backends, phase' = CleanedUp(B) \/ phase' = Terminated(B)
      PROVE  \A b \in Backends : phase'[b] # "failed"
  BY <1>c DEF CleanedUp, Terminated
<1>1. CASE unicapture_start \/ unicapture_stop \/ Joined \/ Elapse
  BY <1>1 DEF unicapture_start, unicapture_stop, Joined, Elapse
<1>2. CASE Reconfigure
  BY <1>2, <1>a, <1>b DEF Reconfigure, CleanedUp, Opens
<1>3. CASE Boot
  BY <1>3, <1>a, <1>b DEF Boot, Opens
<1>4. ASSUME NEW b \in Backends, StartIfDue(b), mainPc \notin {"none", "boot", "done"}
      PROVE  StartInv'
  <2>1. CASE ~Due(b)
    BY <1>4, <2>1 DEF StartIfDue
  <2>2. CASE Due(b)
    <3>1. phase[b] \in {"ready", "started"}
      BY <1>4, <2>2 DEF Due, SessionIInv, SessionInv, TypeOK, Phases
    <3>2. Wrong({b}, "restart") = {}
      BY <3>1 DEF Wrong, AllowedIn
    <3>3. \A ok \in StartResults(b) : PhaseAfterStart(b, ok) # "failed"
      BY <3>1 DEF StartResults, PhaseAfterStart, StartSucceeds
    <3>4. phase \in [Backends -> Phases]
      BY DEF SessionIInv, TypeOK
    <3> QED BY <1>4, <1>a, <1>b, <2>2, <3>2, <3>3, <3>4 DEF StartIfDue
  <2> QED BY <2>1, <2>2
<1>5. CASE StartUi \/ StartVideo
  BY <1>4, <1>5 DEF StartUi, StartVideo, Backends
<1>6. CASE CondWait \/ SpuriousWake \/ Exit \/ JoinVsync
  BY <1>6 DEF CondWait, SpuriousWake, Exit, JoinVsync, MainStep
<1>7. CASE AcquireUi \/ TestVideo \/ AcquireVideo \/ AcquireVideoStop \/ Send
  BY <1>7, <1>a, <1>b
     DEF AcquireUi, TestVideo, AcquireVideo, AcquireVideoStop, Send, Acquire, MainStep
<1>8. CASE MainTerminateVideo \/ VsyncTerminateVideo
  BY <1>8, <1>a, <1>b, <1>c
     DEF MainTerminateVideo, VsyncTerminateVideo, TerminateVideo, Backends
<1>9. CASE MainClearVideo \/ VsyncClearVideo
  BY <1>9 DEF MainClearVideo, VsyncClearVideo, ClearVideo
<1>10. CASE Terminate
  BY <1>10, <1>a, <1>b, <1>c DEF Terminate, SessionIInv, TypeOK
<1>11. CASE Cleanup
  BY <1>11, <1>a, <1>b, <1>c DEF Cleanup, SessionIInv, TypeOK
<1>12. CASE VsyncExit \/ VsyncCheck \/ VsyncSignal
  BY <1>12 DEF VsyncExit, VsyncCheck, VsyncSignal
<1>13. CASE VsyncWait \/ VsyncWaitStop
  BY <1>13, <1>a, <1>b DEF VsyncWait, VsyncWaitStop
<1>14. CASE UNCHANGED vars
  BY <1>14 DEF vars
<1> QED
  BY <1>1, <1>2, <1>3, <1>5, <1>6, <1>7, <1>8, <1>9, <1>10, <1>11, <1>12, <1>13, <1>14
     DEF Next, Service, MainThread, VsyncThread

ContractIInv == FrameIInv /\ WaitIInv /\ StartInv

\* With all parts together, a backend has nothing to complain of.
LEMMA NothingMisused ==
    ASSUME ContractIInv
    PROVE  misuse = {}
<1>1. \A b \in Backends, call \in Calls : <<b, call>> \notin misuse
  BY DEF ContractIInv, FrameIInv, SessionIInv, WaitIInv, StartInv, PairedCalls, Paired,
         FramesOfOpenSession, WaitOfOpenSession, Backends, Calls, AllowedIn
<1>2. misuse \subseteq Backends \X Calls
  BY DEF ContractIInv, FrameIInv, SessionIInv, TypeOK
<1> QED BY <1>1, <1>2

\* Then the video backend is seen as it is, and frames are its only other state.
SeenInv == Seen("video") = phase["video"]

LEMMA SeenAsItIs == ContractIInv => SeenInv
BY NothingMisused DEF Seen, SeenInv

\* Every step is a call the contract allows, or none.
LEMMA ContractStep ==
    ASSUME WaitNeverStops, ContractIInv, ContractIInv', SeenInv, SeenInv', [Next]_vars
    PROVE  [Video!ContractNext]_(Video!contractVars)
<1>1. SessionMove("video") /\ FrameMove("video")
  BY SessionMoves, FrameMoves DEF ContractIInv, FrameIInv, Backends
<1>2. phase["video"] # "failed" /\ phase'["video"] # "failed"
  BY DEF ContractIInv, StartInv, Backends
<1> QED
  BY <1>1, <1>2
     DEF SessionMove, FrameMove, SeenInv, Video!ContractNext, Video!contractVars,
         Video!capture_start, Video!Replace, Video!capture_terminate, Video!capture_acquire_frame,
         Video!capture_release_frame

LEMMA ContractInductive ==
    ASSUME WaitNeverStops, AcquireNeverStops, InitSucceeds, StartSucceeds
    PROVE  Spec => []ContractIInv
<1>1. OneDetector
  BY DEF AcquireNeverStops, OneDetector
<1>2. Init => ContractIInv
  BY SessionInit DEF Init, ContractIInv, FrameIInv, FrameInv, FramesOfOpenSession,
       WaitIInv, WaitInv, WaitOfOpenSession, StartInv
<1>3. ContractIInv /\ SessionIInv' /\ [Next]_vars => ContractIInv'
  BY FrameStep, WaitStep, StartStep DEF ContractIInv, FrameIInv
<1>4. Spec => []SessionIInv
  BY <1>1, SessionInductive
<1> QED BY <1>2, <1>3, <1>4, PTL DEF Spec

\* The two threads together drive the video backend as unicapture.h says a backend is
\* driven, if the vsync thread is not told to stop and starts succeed: the detailed
\* specification implements CaptureContract.
THEOREM ContractKept ==
    ASSUME WaitNeverStops, AcquireNeverStops, InitSucceeds, StartSucceeds
    PROVE  Spec => VideoContract
<1>1. Spec => []ContractIInv
  BY ContractInductive
<1>2. Init /\ ContractIInv => Video!ContractInit
  BY SeenAsItIs DEF SeenInv, Init, Video!ContractInit, Backends
<1>3. ContractIInv /\ ContractIInv' /\ SeenInv /\ SeenInv' /\ [Next]_vars
        => [Video!ContractNext]_(Video!contractVars)
  BY ContractStep
<1> QED BY <1>1, <1>2, <1>3, SeenAsItIs, PTL DEF Spec, VideoContract, Video!ContractSpec

--------------------------------------------------------------------------------
(* How a capture comes back.                                               *)

\* A backend that is due is captured when the main thread has passed its start, and
\* nothing but such a start makes it wait for another second.
Resumes ==
    \A b \in Backends :
        /\ mainPc = (IF b = "ui" THEN "loop" ELSE "startVideo") /\ Due(b)
             /\ mainPc' # mainPc => b \in capture_running' \/ ~running
        /\ b \in coolingDown' \ coolingDown => Due(b) /\ b \in capture_running'

LEMMA ResumeStep ==
    ASSUME StartSucceeds, SessionIInv, StartInv, [Next]_vars
    PROVE  Resumes
<1>k. TypeOK /\ ThreadInv /\ SessionInv
  BY DEF SessionIInv
<1>1. ASSUME NEW b \in Backends, Due(b), mainPc \in {"loop", "startVideo"}
      PROVE  StartResults(b) = {TRUE}
  <2>1. b \in initialized /\ b \notin capture_running
    BY <1>1, <1>k DEF Due, SessionInv
  <2>2. phase[b] \in Phases /\ phase[b] \notin {"none", "started", "failed"}
    BY <1>k, <2>1 DEF SessionInv, StartInv, TypeOK
  <2> QED BY <2>2 DEF StartResults, StartSucceeds, Phases
<1>2. ASSUME NEW b \in Backends, StartIfDue(b), mainPc \in {"loop", "startVideo"}
      PROVE  /\ Due(b) => b \in capture_running'
             /\ coolingDown' \ coolingDown \subseteq {b}
             /\ b \in coolingDown' \ coolingDown => Due(b)
  <2>1. CASE Due(b)
    <3>1. StartResults(b) = {TRUE}
      BY <1>1, <1>2, <2>1
    <3>2. coolingDown' = coolingDown \cup {b} /\ capture_running' = capture_running \cup {b}
      BY <1>2, <2>1, <3>1 DEF StartIfDue
    <3> QED BY <2>1, <3>2
  <2>2. CASE ~Due(b)
    BY <1>2, <2>2 DEF StartIfDue
  <2> QED BY <2>1, <2>2
<1> USE DEF Resumes, Backends
<1>3. CASE StartUi
  BY <1>2, <1>3 DEF StartUi
<1>4. CASE StartVideo
  BY <1>2, <1>4 DEF StartVideo
<1>5. CASE Service
  BY <1>5, <1>k
     DEF Service, unicapture_start, unicapture_stop, Joined, Reconfigure, ThreadInv
<1>6. CASE Boot \/ Elapse \/ Exit
  BY <1>6 DEF Boot, Elapse, Exit, MainStep
<1>7. CASE CondWait \/ SpuriousWake \/ AcquireUi \/ TestVideo \/ AcquireVideo
           \/ AcquireVideoStop
  BY <1>7
     DEF CondWait, SpuriousWake, AcquireUi, TestVideo, AcquireVideo, AcquireVideoStop, MainStep
<1>8. CASE MainTerminateVideo \/ MainClearVideo \/ Send \/ JoinVsync \/ Terminate \/ Cleanup
  BY <1>8
     DEF MainTerminateVideo, MainClearVideo, Send, JoinVsync, Terminate, Cleanup, MainStep
<1>9. CASE VsyncThread
  BY <1>9
     DEF VsyncThread, VsyncExit, VsyncCheck, VsyncWait, VsyncWaitStop,
         VsyncTerminateVideo, VsyncClearVideo, VsyncSignal, VsyncStep
<1>10. CASE UNCHANGED vars
  BY <1>10 DEF vars
<1> QED
  BY <1>3, <1>4, <1>5, <1>6, <1>7, <1>8, <1>9, <1>10 DEF Next, MainThread

\* What CaptureResumes rests on: if starts succeed and only one thread can be told to
\* restart, the flags never leave a due backend in a phase in which its start means
\* nothing, so that it is back after the rest of its second and one iteration, the other
\* backend notwithstanding (unicapture.c:163-183).
THEOREM DueStartsSucceed ==
    ASSUME OneDetector, InitSucceeds, StartSucceeds
    PROVE  Spec => [][Resumes]_vars
<1>1. Init => StartInv
  BY DEF Init, StartInv
<1>2. SessionIInv /\ StartInv /\ [Next]_vars => StartInv' /\ [Resumes]_vars
  BY StartStep, ResumeStep
<1> QED BY <1>1, <1>2, SessionInductive, PTL DEF Spec

--------------------------------------------------------------------------------
(* The buffers of a frame, by Pixels.                                      *)

\* The three bytes that are copied lie in the table, whatever the colour: the table of
\* this size, and no other, is accepted by unicapture_load_lut_table (unicapture.c:421-425).
THEOREM LutCopyInside ==
    \A y, u, v \in Byte :
        /\ LUT_INDEX(y, u, v) \in Nat
        /\ LUT_INDEX(y, u, v) + 2 < LUT_FILE_SIZE
  BY SMT DEF LUT_INDEX, LUT_FILE_SIZE, Byte

\* Two colours never share bytes of the table (unicapture.c:12-13).
THEOREM LutEntriesApart ==
    \A y, u, v, a, b, c \in Byte :
        LUT_INDEX(y, u, v) = LUT_INDEX(a, b, c) => y = a /\ u = b /\ v = c
  BY SMT DEF LUT_INDEX, Byte

\* The converted frame fits the buffer it is written to (converter.c:30-36).
THEOREM ConvertedFits ==
    \A w, h \in Nat \ {0} : Extent(w, h, 4, w * 4) = ArgbSize(w, h)
  BY SMT DEF Extent, ArgbSize

\* For an even width the conversion of YUV422 stays inside the two chroma planes; for
\* an odd one it leaves them with its last sample (converter.c:65-86).
THEOREM ChromaFitsIffEven ==
    \A w, h \in Nat \ {0} :
        Extent(ChromaColumns(w), h, 1, w \div 2) <= ChromaSize(w, h) <=> w % 2 = 0
  <1> SUFFICES ASSUME NEW w \in Nat \ {0}, NEW h \in Nat \ {0}
                 PROVE Extent(ChromaColumns(w), h, 1, w \div 2) <= ChromaSize(w, h)
                            <=> w % 2 = 0
    OBVIOUS
  <1> DEFINE half == w \div 2
  <1>2. half \in Nat /\ (w + 1) \div 2 \in Nat
    BY SMT
  <1>3. (h - 1) * half = half * h - half
    BY <1>2, SMT
  <1>4. (w + 1) \div 2 <= half <=> w % 2 = 0
    BY SMT
  <1>5. half * h \in Nat
    BY <1>2, SMT
  <1> HIDE DEF half
  <1>6. half * h - half + ((w + 1) \div 2) * 1 <= half * h <=> (w + 1) \div 2 <= half
    BY <1>2, <1>5, SMT
  <1> QED
    BY <1>3, <1>4, <1>6, SMT DEF Extent, ChromaSize, ChromaColumns, half

\* The blending reads the UI frame with the size of the video frame: it stays inside
\* the UI frame if that is as wide as the video frame and at least as high
\* (unicapture.c:245-265); nothing in unicapture_run makes sure of it.
THEOREM BlendInside ==
    \A w, vh, uh \in Nat \ {0} :
        Extent(w, vh, 4, w * 4) <= ArgbSize(w, uh) <=> vh <= uh
  <1> SUFFICES ASSUME NEW w \in Nat \ {0}, NEW vh \in Nat \ {0}, NEW uh \in Nat \ {0}
                 PROVE  Extent(w, vh, 4, w * 4) <= ArgbSize(w, uh) <=> vh <= uh
    OBVIOUS
  <1>2. Extent(w, vh, 4, w * 4) = ArgbSize(w, vh)
    BY ConvertedFits
  <1>3. vh <= uh => ArgbSize(w, vh) <= ArgbSize(w, uh)
    BY SMT DEF ArgbSize
  <1>4. uh < vh => ArgbSize(w, uh) < ArgbSize(w, vh)
    BY SMT DEF ArgbSize
  <1>5. ArgbSize(w, uh) \in Nat /\ ArgbSize(w, vh) \in Nat
    BY SMT DEF ArgbSize
  <1> QED
    BY <1>2, <1>3, <1>4, <1>5, SMT

================================================================================
