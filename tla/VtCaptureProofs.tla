---------------------------- MODULE VtCaptureProofs ----------------------------
(***************************************************************************)
(* Unicapture with the real libvtcapture implements Unicapture with its    *)
(* free one, for any number of buffers and polls; and what the two threads *)
(* leave in the state struct stays what it may be.                         *)
(***************************************************************************)
EXTENDS VtCapture, UnicaptureProofs

\* A step of the composition is one of Unicapture, or does not move it.
LEMMA VtStep == [VtNext]_allVars => [Next]_vars
<1> SUFFICES ASSUME [VtNext]_allVars PROVE Next \/ UNCHANGED vars
  OBVIOUS
<1> USE DEF Next, Service, MainThread, VsyncThread
<1>1. CASE VtMainThread
  BY <1>1
     DEF VtMainThread, InitMain, capture_start, TerminateMain, AcquireLoad,
         capture_acquire_frame, MainElsewhere
<1>2. CASE VtVsyncThread
  BY <1>2
     DEF VtVsyncThread, capture_wait, WaitFails, WaitPoll, WaitDone, WaitAgain,
         Return99, ReturnOther, TerminateVsync, VsyncElsewhere
<1>3. CASE InitService \/ NewFrame
  BY <1>3 DEF InitService, NewFrame
<1>4. CASE ServiceElsewhere \/ JoinedElsewhere \/ ElapseElsewhere \/ WakeElsewhere
  BY <1>4 DEF ServiceElsewhere, JoinedElsewhere, ElapseElsewhere, WakeElsewhere
<1>5. CASE UNCHANGED allVars
  BY <1>5 DEF allVars
<1> QED BY <1>1, <1>2, <1>3, <1>4, <1>5 DEF VtNext

\* Everything libvtcapture answers is something Unicapture expects of a backend.
THEOREM CaptureImplemented == VtSpec => Spec
<1>1. VtInit => Init
  BY DEF VtInit
<1> QED BY <1>1, VtStep, PTL DEF VtSpec, Spec

\* The buffer addresses, the flag and the count of polls are what they may be: in
\* particular a wait never polls more often than it may (libvtcapture.cpp:305).
THEOREM VtTypeCorrect == VtSpec => []VtTypeOK
<1>1. VtInit => VtTypeOK
  <2>1. Init => TypeOK
    BY SessionInit DEF SessionIInv
  <2>2. 0 \in 0 .. MaxAttempts - 1
    BY VtAssumption
  <2> QED BY <2>1, <2>2 DEF VtInit, VtTypeOK
<1>2. VtTypeOK /\ TypeOK' /\ [VtNext]_allVars => VtTypeOK'
  <2> SUFFICES ASSUME VtTypeOK, TypeOK', [VtNext]_allVars PROVE VtTypeOK'
    OBVIOUS
  <2> USE VtAssumption DEF VtTypeOK, state, vtVars, Environment
  <2>1. CASE InitService \/ InitMain
    BY <2>1 DEF InitService, InitMain, Opened, Zeroed
  <2>2. CASE capture_start
    BY <2>2 DEF capture_start
  <2>3. CASE TerminateMain \/ TerminateVsync
    BY <2>3 DEF TerminateMain, TerminateVsync, Stopped
  <2>4. CASE AcquireLoad
    BY <2>4 DEF AcquireLoad
  <2>5. CASE capture_acquire_frame
    <3>1. curr_buff' = curr_buff \/ (curr_buff' = loaded /\ loaded # "nothing")
      BY <2>5 DEF capture_acquire_frame
    <3> QED BY <2>5, <3>1 DEF capture_acquire_frame
  <2>6. CASE capture_wait
    BY <2>6
       DEF capture_wait, WaitFails, WaitPoll, WaitDone, WaitAgain, EndOfWait
  <2>7. CASE NewFrame
    BY <2>7 DEF NewFrame
  <2>8. CASE UNCHANGED vtVars
    BY <2>8
  <2> QED
    BY <2>1, <2>2, <2>3, <2>4, <2>5, <2>6, <2>7, <2>8
       DEF VtNext, VtMainThread, VtVsyncThread, ServiceElsewhere, JoinedElsewhere,
           ElapseElsewhere, WakeElsewhere, MainElsewhere, VsyncElsewhere, allVars
<1> QED BY <1>1, <1>2, CaptureImplemented, TypeCorrect, PTL DEF VtSpec

\* While the driver does not answer 13, no session of libvtcapture is ended under a
\* wait, and all its calls come in pairs, whatever the threads leave in its struct.
THEOREM WaitsOfVtCapture ==
    ASSUME AcquireNeverStops, InitSucceeds
    PROVE  VtSpec => [](WaitOfOpenSession /\ PairedCalls)
<1>1. OneDetector
  BY DEF AcquireNeverStops, OneDetector
<1>2. Spec => []WaitOfOpenSession
  BY WaitsAreInSession
<1>3. Spec => []PairedCalls
  BY <1>1, CallsArePaired
<1> QED BY <1>2, <1>3, CaptureImplemented, PTL

\* Then libvtcapture is opened, started, terminated and cleaned up as CaptureContract
\* says, but for the repeated start, although its wait ends sessions in the vsync thread;
\* and none of its sessions is left over when the service has stopped.
THEOREM SessionsOfVtCapture ==
    ASSUME AcquireNeverStops, InitSucceeds
    PROVE  VtSpec => SessionContract /\ []NothingLeftOpen
<1>1. OneDetector
  BY DEF AcquireNeverStops, OneDetector
<1>2. Spec => SessionContract
  BY <1>1, SessionsKeepContract
<1>3. Spec => []NothingLeftOpen
  BY <1>1, StopLeavesNothingOpen
<1> QED BY <1>2, <1>3, CaptureImplemented, PTL

\* Steps of a capture_wait to its last poll.
PollsLeft == 2 * (MaxAttempts - attempts) - (IF waitPc = "compare" THEN 1 ELSE 0)

\* A wait that does not end is nearer to its last poll with each of its steps, and
\* nothing that the main thread or the driver does takes it back.
WaitAdvances ==
    vsyncPc = "wait" /\ vsyncPc' = "wait" =>
        \/ UNCHANGED <<waitPc, attempts>>
        \/ PollsLeft' < PollsLeft

\* What WaitEnds rests on, for any number of polls and any driver: at most two steps for
\* each poll that is allowed (libvtcapture.cpp:304-309), and the steps of UnicaptureProofs
\* for all that is around it.
THEOREM WaitsAdvance ==
    VtSpec => /\ [](PollsLeft \in 1 .. 2 * MaxAttempts)
              /\ [][WaitAdvances]_allVars
              /\ []NobodyIsStuck /\ [][Advances]_vars
<1>1. VtTypeOK => PollsLeft \in 1 .. 2 * MaxAttempts
  BY VtAssumption DEF VtTypeOK, PollsLeft
<1>2. VtTypeOK /\ VtTypeOK' /\ [VtNext]_allVars => [WaitAdvances]_allVars
  <2> SUFFICES ASSUME VtTypeOK, VtTypeOK', VtNext PROVE WaitAdvances
    OBVIOUS
  <2> USE VtAssumption DEF WaitAdvances, vtVars, Environment
  <2>1. CASE InitService \/ InitMain
    BY <2>1 DEF InitService, InitMain, Opened
  <2>2. CASE capture_start \/ TerminateMain \/ TerminateVsync
    BY <2>2 DEF capture_start, TerminateMain, TerminateVsync, Stopped
  <2>3. CASE AcquireLoad \/ capture_acquire_frame \/ NewFrame
    BY <2>3 DEF AcquireLoad, capture_acquire_frame, NewFrame
  <2>4. CASE WaitFails \/ WaitDone
    BY <2>4
       DEF WaitFails, WaitDone, Return99, ReturnOther, VsyncWaitStop, VsyncWait, VsyncStep
  <2>5. CASE WaitPoll
    BY <2>5 DEF WaitPoll, PollsLeft, VtTypeOK
  <2>6. CASE WaitAgain
    <3>1. CASE attempts + 1 = MaxAttempts
      BY <2>6, <3>1 DEF WaitAgain, Return99, VsyncWaitStop, VsyncStep
    <3>2. CASE attempts + 1 # MaxAttempts
      <4>1. waitPc = "compare" /\ waitPc' = "poll" /\ attempts' = attempts + 1
        BY <2>6, <3>2 DEF WaitAgain
      <4>2. attempts \in Nat /\ MaxAttempts \in Nat
        BY DEF VtTypeOK
      <4>3. PollsLeft' < PollsLeft
        BY <4>1, <4>2 DEF PollsLeft
      <4> QED BY <4>3
    <3> QED BY <3>1, <3>2
  <2>7. CASE UNCHANGED vtVars
    BY <2>7
  <2> QED
    BY <2>1, <2>2, <2>3, <2>4, <2>5, <2>6, <2>7
       DEF VtNext, VtMainThread, VtVsyncThread, capture_wait, ServiceElsewhere,
           JoinedElsewhere, ElapseElsewhere, WakeElsewhere, MainElsewhere, VsyncElsewhere
<1> QED BY <1>1, <1>2, VtTypeCorrect, CaptureImplemented, ThreadsAdvance, PTL DEF VtSpec

================================================================================
