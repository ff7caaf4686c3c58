------------------------------ MODULE LightsProofs ------------------------------
(***************************************************************************)
(* The connection of HyperionClient, for every behaviour of the server and *)
(* every interleaving of its three threads; then the composition, which    *)
(* implements both of its parts, so that what is proved of Unicapture and  *)
(* of HyperionClient holds of it.                                          *)
(***************************************************************************)
EXTENDS Lights, Pixels, TLAPS

--------------------------------------------------------------------------------
(* The inductive invariants.                                               *)

\* Which thread is alive, and what the connection thread holds at each step.
ConnInv ==
    /\ ctl \in {"stopped", "failing"} <=> connPc = "none"
    /\ connected => connPc \in {"check", "read"}
    /\ sockfd = "open" <=> connPc \in {"connect", "check", "read", "close"}
    /\ sockfd = "closed" <=> connPc = "zero"
    /\ open_sockets = 1 <=> sockfd = "open"
    /\ connPc \in {"check", "read"} => _connected
    /\ connPc = "connect" => ~_connected /\ ~_registered
    /\ address # "none" => connPc = "connect"
    /\ connPc \in {"check", "read"} => (reply => accepted) /\ (_registered => accepted)

\* Who waits for whom while the service stops.
StopInv ==
    /\ connection_loop_running <=> ctl \in {"running", "saving", "failing"}
    /\ sendPc = "none" <=> ctl \in {"stopped", "joinConnection"}

\* A send that is under way belongs to the connection at hand, and the server has
\* read exactly what was written of it.
SendInv ==
    /\ connPc = "client" \/ (connPc = "loop" /\ connection_loop_running)
         => sendPc \in {"none", "frame"}
    /\ connPc = "connect" => sendPc \in {"none", "frame", "testConnected"}
    /\ sendPc = "testSocket" => kind = "register"
    /\ link = "up" => connPc \in {"check", "read", "close"}
    /\ link = "up" /\ sendPc \notin {"body"} => stream = "start"
    /\ link = "up" /\ sendPc = "body" => stream = kind
    /\ link = "up" /\ sendPc \in {"header", "body"} /\ kind = "image" => accepted
    /\ link = "up" /\ _registered => accepted
    /\ link = "up" => _connected
    /\ reply => accepted

\* The Boolean part of TypeOK, for the provers that tell Booleans from formulas.
FlagsOK ==
    /\ restart \in BOOLEAN /\ connection_loop_running \in BOOLEAN
    /\ connected \in BOOLEAN /\ capture_running \in BOOLEAN
    /\ _connected \in BOOLEAN /\ _registered \in BOOLEAN
    /\ accepted \in BOOLEAN /\ reply \in BOOLEAN

ConnIInv == TypeOK /\ ConnInv
SendIInv == ConnIInv /\ StopInv /\ SendInv /\ StreamAligned /\ RegisterFirst

\* Every write is all or nothing, and over before the next connection is made.
WritesWhole == WriteFaults = {} /\ ~Overtake

--------------------------------------------------------------------------------
\* Every action keeps the types and the connection invariant.
LEMMA ConnStepLemma == ConnIInv /\ [Next]_vars => ConnIInv'
<1> SUFFICES ASSUME ConnIInv, [Next]_vars PROVE ConnIInv'
  OBVIOUS
<1> USE DEF ConnIInv, TypeOK, CtlPcs, ConnPcs, SendPcs
<1> USE DEF ctlVars, sendVars, socketVars, serverVars
<1>1. CASE service_start
  <2>1. TypeOK'
    BY <1>1 DEF service_start, StartThreads
  <2>2. ConnInv'
    BY <1>1 DEF ConnInv, service_start, StartThreads
  <2> QED BY <2>1, <2>2
<1>2. CASE service_stop \/ service_destroy
  <2>1. CASE service_stop
    <3>1. FlagsOK'
      BY <2>1, Zenon DEF FlagsOK, service_stop, Stopping
    <3>2. TypeOK'
      BY <2>1, <3>1, SMT DEF FlagsOK, service_stop, Stopping
    <3> QED BY <2>1, <3>2 DEF ConnInv, service_stop, Stopping
  <2>2. CASE service_destroy
    <3>1. FlagsOK'
      BY <2>2, Zenon DEF FlagsOK, service_destroy, Stopping
    <3>2. TypeOK'
      BY <2>2, <3>1, SMT DEF FlagsOK, service_destroy, Stopping
    <3> QED BY <2>2, <3>2 DEF ConnInv, service_destroy, Stopping
  <2> QED BY <1>2, <2>1, <2>2
<1>3. CASE service_method_set_settings
  <2>1. FlagsOK'
    BY <1>3, Zenon DEF FlagsOK, service_method_set_settings
  <2>2. TypeOK'
    BY <1>3, <2>1, SMT DEF FlagsOK, service_method_set_settings
  <2>3. ConnInv'
    BY <1>3 DEF ConnInv, service_method_set_settings
  <2> QED BY <2>2, <2>3
<1>23. CASE StartUndone
  <2>1. FlagsOK'
    BY <1>23, Zenon DEF FlagsOK, StartUndone
  <2>2. TypeOK'
    BY <1>23, <2>1, SMT DEF FlagsOK, StartUndone
  <2>3. ConnInv'
    BY <1>23 DEF ConnInv, StartUndone
  <2> QED BY <2>2, <2>3
<1>4. CASE CaptureJoined
  <2>1. FlagsOK'
    BY <1>4, Zenon DEF FlagsOK, CaptureJoined
  <2>2. TypeOK'
    BY <1>4, <2>1, SMT DEF FlagsOK, CaptureJoined
  <2>3. ConnInv'
    BY <1>4 DEF ConnInv, CaptureJoined
  <2> QED BY <2>2, <2>3
<1>5. CASE ConnectionJoined
  <2>1. FlagsOK'
    BY <1>5, Zenon DEF FlagsOK, ConnectionJoined, StartThreads
  <2>2. TypeOK'
    BY <1>5, <2>1, SMT DEF FlagsOK, ConnectionJoined, StartThreads
  <2>3. ConnInv'
    BY <1>5 DEF ConnInv, ConnectionJoined, StartThreads
  <2> QED BY <2>2, <2>3
<1>6. CASE Loop
  <2>1. TypeOK'
    BY <1>6 DEF Loop, ConnStep
  <2>2. ConnInv'
    BY <1>6 DEF ConnInv, Loop, ConnStep
  <2> QED BY <2>1, <2>2
<1>7. CASE hyperion_client
  <2>1. FlagsOK'
    BY <1>7, Zenon DEF FlagsOK, hyperion_client, ConnStep
  <2>2. TypeOK'
    BY <1>7, <2>1, SMT DEF ConnInv, FlagsOK, hyperion_client, ConnStep
  <2>3. ConnInv'
    BY <1>7 DEF ConnInv, hyperion_client, ConnStep
  <2> QED BY <2>2, <2>3
<1>8. CASE Connect
  <2>1. FlagsOK'
    BY <1>8, Zenon DEF FlagsOK, Connect, ConnStep
  <2>2. TypeOK'
    BY <1>8, <2>1, SMT DEF FlagsOK, Connect, ConnStep
  <2>3. ConnInv'
    BY <1>8 DEF ConnInv, Connect, ConnStep
  <2> QED BY <2>2, <2>3
<1>9. CASE ConnectFails
  <2>1. TypeOK'
    BY <1>9 DEF ConnectFails, ConnStep
  <2>2. ConnInv'
    BY <1>9 DEF ConnInv, ConnectFails, ConnStep
  <2> QED BY <2>1, <2>2
<1>10. CASE Check
  <2>1. TypeOK'
    BY <1>10 DEF Check, ConnStep
  <2>2. ConnInv'
    BY <1>10 DEF ConnInv, Check, ConnStep
  <2> QED BY <2>1, <2>2
<1>11. CASE ReadReply
  <2>1. FlagsOK'
    BY <1>11, Zenon DEF FlagsOK, ReadReply, ConnStep
  <2>2. TypeOK'
    BY <1>11, <2>1, SMT DEF FlagsOK, ReadReply, ConnStep
  <2>3. ConnInv'
    BY <1>11 DEF ConnInv, ReadReply, ConnStep
  <2> QED BY <2>2, <2>3
<1>12. CASE ReadOther
  <2>1. TypeOK'
    BY <1>12 DEF ReadOther, ConnStep
  <2>2. ConnInv'
    BY <1>12 DEF ConnInv, ReadOther, ConnStep
  <2> QED BY <2>1, <2>2
<1>13. CASE ReadFails
  <2>1. FlagsOK'
    BY <1>13, Zenon DEF FlagsOK, ReadFails, ConnStep
  <2>2. TypeOK'
    BY <1>13, <2>1, SMT DEF FlagsOK, ReadFails, ConnStep
  <2>3. ConnInv'
    BY <1>13 DEF ConnInv, ReadFails, ConnStep
  <2> QED BY <2>2, <2>3
<1>14. CASE Close
  <2>1. FlagsOK'
    BY <1>14, Zenon DEF FlagsOK, Close, ConnStep
  <2>2. TypeOK'
    BY <1>14, <2>1, SMT DEF ConnInv, FlagsOK, Close, ConnStep
  <2>3. ConnInv'
    BY <1>14 DEF ConnInv, Close, ConnStep
  <2> QED BY <2>2, <2>3
<1>15. CASE Zero
  <2>1. TypeOK'
    BY <1>15 DEF Zero, ConnStep
  <2>2. ConnInv'
    BY <1>15 DEF ConnInv, Zero, ConnStep
  <2> QED BY <2>1, <2>2
<1>16. CASE Pause
  <2>1. TypeOK'
    BY <1>16 DEF Pause, ConnStep
  <2>2. ConnInv'
    BY <1>16 DEF ConnInv, Pause, ConnStep
  <2> QED BY <2>1, <2>2
<1>17. CASE CaptureChanges
  <2>1. TypeOK'
    BY <1>17 DEF CaptureChanges
  <2>2. ConnInv'
    BY <1>17 DEF ConnInv, CaptureChanges
  <2> QED BY <2>1, <2>2
<1>18. ASSUME NEW here \in SendPcs, NEW next \in SendPcs, SendStep(here, next),
              UNCHANGED <<stream, accepted, reply, history>>,
              kind' \in {"register", "image"}
       PROVE  ConnIInv'
  <2>1. FlagsOK'
    BY <1>18, Zenon DEF FlagsOK, SendStep
  <2>2. TypeOK'
    BY <1>18, <2>1, SMT DEF FlagsOK, SendStep
  <2>3. ConnInv'
    BY <1>18 DEF ConnInv, SendStep
  <2> QED BY <2>2, <2>3
<1>24. CASE hyperion_set_image
  BY <1>18, <1>24 DEF hyperion_set_image
<1>25. CASE TestConnected
  <2>1. CASE _connected
    BY <1>18, <1>25, <2>1 DEF TestConnected
  <2>2. CASE ~_connected
    BY <1>18, <1>25, <2>2 DEF TestConnected
  <2> QED BY <2>1, <2>2
<1>26. CASE TestRegistered
  <2>1. CASE _registered
    BY <1>18, <1>26, <2>1 DEF TestRegistered
  <2>2. CASE ~_registered
    BY <1>18, <1>26, <2>2 DEF TestRegistered
  <2> QED BY <2>1, <2>2
<1>27. CASE hyperion_set_register
  <2>1. CASE sockfd # "0"
    BY <1>18, <1>27, <2>1 DEF hyperion_set_register
  <2>2. CASE sockfd = "0"
    BY <1>18, <1>27, <2>2 DEF hyperion_set_register
  <2> QED BY <2>1, <2>2
<1>19. CASE WriteHeader
  <2>1. TypeOK'
    BY <1>19 DEF WriteHeader, HeaderArrives, SendStep
  <2>2. ConnInv'
    BY <1>19 DEF ConnInv, WriteHeader, HeaderArrives, SendStep
  <2> QED BY <2>1, <2>2
<1>20. CASE WriteBody
  <2>1. FlagsOK'
    BY <1>20, Zenon DEF FlagsOK, WriteBody, BodyArrives, SendStep
  <2>2. TypeOK'
    <3>1. stream' \in {"start", "register", "image", "broken"}
      BY <1>20 DEF WriteBody, BodyArrives, SendStep
    <3>2. history' \subseteq {"earlyImage"}
      BY <1>20 DEF WriteBody, BodyArrives, SendStep
    <3> QED BY <1>20, <2>1, <3>1, <3>2, SMT DEF FlagsOK, WriteBody, SendStep
  <2>3. ConnInv'
    BY <1>20 DEF ConnInv, WriteBody, BodyArrives, SendStep
  <2> QED BY <2>2, <2>3
<1>21. CASE ServerCloses
  <2>1. TypeOK'
    BY <1>21 DEF ServerCloses
  <2>2. ConnInv'
    BY <1>21 DEF ConnInv, ServerCloses
  <2> QED BY <2>1, <2>2
<1>22. CASE UNCHANGED vars
  <2>1. TypeOK'
    BY <1>22 DEF vars
  <2>2. ConnInv'
    BY <1>22 DEF ConnInv, vars
  <2> QED BY <2>1, <2>2
<1> QED
  BY <1>1, <1>2, <1>3, <1>4, <1>5, <1>6, <1>7, <1>8, <1>9, <1>10, <1>11, <1>12, <1>13,
     <1>14, <1>15, <1>16, <1>17, <1>19, <1>20, <1>21, <1>22, <1>23, <1>24, <1>25,
     <1>26, <1>27
     DEF Next, Control, Joins, ConnectionThread, Sender

LEMMA ConnInit == Init => ConnIInv
<1>1. Init => TypeOK
  BY DEF Init, TypeOK, CtlPcs, ConnPcs, SendPcs
<1>2. Init => ConnInv
  BY DEF Init, ConnInv
<1> QED BY <1>1, <1>2 DEF ConnIInv

LEMMA ConnInductive == Spec => []ConnIInv
<1> QED BY ConnInit, ConnStepLemma, PTL DEF Spec

\* Every variable holds a value the code can hold; never two sockets at a time.
THEOREM TypeCorrect == Spec => []TypeOK
<1>1. ConnIInv => TypeOK
  BY DEF ConnIInv
<1> QED BY <1>1, ConnInductive, PTL

\* _registered is never a leftover of an earlier connection, whatever is lost.
THEOREM RegistrationIsConfirmed == Spec => []RegisteredIsConfirmed
<1>1. ConnIInv => RegisteredIsConfirmed
  BY DEF ConnIInv, ConnInv, RegisteredIsConfirmed
<1> QED BY <1>1, ConnInductive, PTL

\* No socket is leaked or reported without being there.
THEOREM SocketsAreAccounted == Spec => []SocketAccounted
<1>1. ConnIInv => SocketAccounted
  BY DEF ConnIInv, ConnInv, TypeOK, SocketAccounted
<1> QED BY <1>1, ConnInductive, PTL

\* What a live setSettings frees is out of everybody's hands when it has returned,
\* whatever the server does: the join in service_stop outlives every use of it.
THEOREM FreedAddressIsForgotten == Spec => []FreedAddressForgotten
<1> DEFINE I == FreedAddressForgotten
<1>1. Init => I
  BY DEF Init, FreedAddressForgotten
<1>2. I /\ ConnIInv /\ [Next]_vars => I'
  <2> SUFFICES ASSUME I, ConnIInv, [Next]_vars PROVE I'
    OBVIOUS
  <2> USE DEF FreedAddressForgotten, ConnIInv, ConnInv, ctlVars, sendVars
  <2>1. CASE Control
    BY <2>1
       DEF Control, service_start, StartThreads, service_stop, Stopping,
           service_method_set_settings
  <2>2. CASE Joins
    BY <2>2
       DEF Joins, StartUndone, service_destroy, Stopping, CaptureJoined, ConnectionJoined,
           StartThreads
  <2>3. CASE ConnectionThread
    BY <2>3 DEF ConnectionThread, Loop, hyperion_client, Connect, ConnectFails, Check,
                ReadReply, ReadOther, ReadFails, Close, Zero, Pause, ConnStep
  <2>4. CASE Sender
    BY <2>4 DEF Sender, hyperion_set_image, TestConnected, TestRegistered,
                hyperion_set_register, WriteHeader, WriteBody, SendStep
  <2>5. CASE CaptureChanges \/ ServerCloses \/ UNCHANGED vars
    BY <2>5 DEF CaptureChanges, ServerCloses, vars
  <2> QED BY <2>1, <2>2, <2>3, <2>4, <2>5 DEF Next
<1> QED BY <1>1, <1>2, ConnInductive, PTL DEF Spec

--------------------------------------------------------------------------------
(* How far the connection thread has to go, to its end or to the next      *)
(* connect; that its steps are taken is fairness, which is left to TLC.    *)

\* Steps of the connection thread to its end, once connection_loop_running is false, and
\* of the capture thread to the end of its message.
ConnLeft ==
    [client |-> 8, connect |-> 7, read |-> 6, check |-> 5, close |-> 4, zero |-> 3,
     pause |-> 2, loop |-> 1, done |-> 0, none |-> 0]
SendLeft ==
    [testConnected |-> 5, testRegistered |-> 4, testSocket |-> 3, header |-> 2, body |-> 1,
     frame |-> 0, none |-> 0]

Joining == {"joinCapture", "joinConnection", "failing"}

\* While the service stops, the connection thread goes on to its end and does not turn
\* back, whatever the server does; the capture thread ends its message, and begins
\* another only while there is a socket.
StopAdvances ==
    ctl \in Joining /\ ctl' \in {ctl, "joinConnection"} =>
        /\ connPc' # connPc => ConnLeft[connPc'] < ConnLeft[connPc]
        /\ sendPc' # sendPc => \/ SendLeft[sendPc'] < SendLeft[sendPc]
                               \/ sendPc = "frame" /\ sendPc' = "none"
                               \/ sendPc = "frame" /\ ConnLeft[connPc] >= 3

LEMMA StopStep ==
    ASSUME ConnIInv, StopInv, [Next]_vars
    PROVE  StopInv' /\ StopAdvances
<1> USE DEF StopInv, StopAdvances, Joining, ctlVars, sendVars
<1>1. CASE Control \/ service_destroy
  BY <1>1
     DEF Control, service_start, StartThreads, service_stop, service_method_set_settings,
         service_destroy, Stopping
<1>2. CASE CaptureJoined \/ StartUndone
  BY <1>2 DEF CaptureJoined, StartUndone
<1>3. CASE ConnectionJoined
  BY <1>3 DEF ConnectionJoined, StartThreads, ConnIInv, ConnInv, ConnLeft
<1>4. ASSUME UNCHANGED <<ctlVars, sendVars>>,
             ctl \in Joining /\ connPc' # connPc =>
                ConnLeft[connPc'] < ConnLeft[connPc]
      PROVE  StopInv' /\ StopAdvances
  BY <1>4
<1>c. ctl = "failing" => connPc = "none"
  BY DEF ConnIInv, ConnInv
<1>5. CASE Loop \/ hyperion_client \/ Connect \/ ConnectFails
  BY <1>4, <1>5, <1>c DEF Loop, hyperion_client, Connect, ConnectFails, ConnStep, ConnLeft
<1>6. CASE Check \/ ReadReply \/ ReadOther \/ ReadFails
  BY <1>4, <1>6, <1>c DEF Check, ReadReply, ReadOther, ReadFails, ConnStep, ConnLeft
<1>7. CASE Close \/ Zero \/ Pause
  BY <1>4, <1>7, <1>c DEF Close, Zero, Pause, ConnStep, ConnLeft, StopInv
<1>8. CASE hyperion_set_image
  <2>1. connPc \in {"connect", "check", "read", "close", "zero"}
    BY <1>8 DEF hyperion_set_image, ConnIInv, ConnInv, TypeOK
  <2> QED BY <1>8, <2>1 DEF hyperion_set_image, SendStep, ConnLeft
<1>9. CASE TestConnected \/ TestRegistered \/ hyperion_set_register \/ WriteHeader \/ WriteBody
  BY <1>9
     DEF TestConnected, TestRegistered, hyperion_set_register, WriteHeader, WriteBody,
         SendStep, SendLeft
<1>10. CASE CaptureChanges \/ ServerCloses \/ UNCHANGED vars
  BY <1>10 DEF CaptureChanges, ServerCloses, vars
<1> QED
  BY <1>1, <1>2, <1>3, <1>5, <1>6, <1>7, <1>8, <1>9, <1>10
     DEF Next, Joins, ConnectionThread, Sender

\* Who waits for whom does not depend on what the writes do.
LEMMA StopInductive == Spec => []StopInv
<1>1. Init => StopInv
  BY DEF Init, StopInv
<1>2. ConnIInv /\ StopInv /\ [Next]_vars => StopInv'
  BY StopStep
<1> QED BY <1>1, <1>2, ConnInductive, PTL DEF Spec

\* What StopCompletes rests on, for all write faults: each of the two threads is there
\* when it is joined, and is nearer to its end with each step; the connection thread
\* needs eight at most and does not connect twice (service.c:41-66, 211-217).
THEOREM ClientStopAdvances ==
    Spec => /\ [](/\ ctl = "joinCapture" => sendPc # "none" /\ connPc # "none"
                  /\ ctl = "failing" => sendPc # "none"
                  /\ ctl = "joinConnection" => sendPc = "none" /\ connPc # "none")
            /\ [][StopAdvances]_vars
<1>1. ConnIInv /\ StopInv /\ [Next]_vars => [StopAdvances]_vars
  BY StopStep
<1>2. ConnIInv /\ StopInv =>
        /\ ctl = "joinCapture" => sendPc # "none" /\ connPc # "none"
        /\ ctl = "failing" => sendPc # "none"
        /\ ctl = "joinConnection" => sendPc = "none" /\ connPc # "none"
  BY DEF ConnIInv, ConnInv, StopInv
<1> QED BY <1>1, <1>2, ConnInductive, StopInductive, PTL DEF Spec

\* Steps of the connection thread to the next connect.
ToConnect ==
    [check |-> 6, read |-> 7, close |-> 5, zero |-> 4, pause |-> 3, loop |-> 2,
     client |-> 1, connect |-> 0, done |-> 0, none |-> 0]

\* Without a connection, and while the service runs, the connection thread goes on to the
\* next connect; only a connect that was refused begins anew.
ReconnectStep ==
    (/\ connection_loop_running /\ ctl # "failing" /\ ~connected
     /\ connection_loop_running' /\ ctl' # "failing" /\ ~connected')
      =>
        /\ connPc \in {"close", "zero", "pause", "loop", "client", "connect"}
        /\ connPc' # connPc =>
             \/ ToConnect[connPc'] < ToConnect[connPc]
             \/ connPc = "connect" /\ connPc' = "close"

\* What Reconnects rests on, whatever the server and the writes do: connected says
\* exactly that the thread is reading, and after a loss nothing but a stop, or a capture
\* that is not there, keeps it from the next connect (service.c:34-66).
THEOREM ReconnectAdvances ==
    Spec => /\ [](connected <=> connPc \in {"check", "read"})
            /\ [][ReconnectStep]_vars
<1> DEFINE Reading == /\ connPc \in {"check", "read"} => connected
                      /\ connPc = "done" => ~connection_loop_running
<1>1. Init => Reading
  BY DEF Init
<1>2. ConnIInv /\ StopInv /\ Reading /\ [Next]_vars => Reading' /\ [ReconnectStep]_vars
  <2> SUFFICES ASSUME ConnIInv, StopInv, Reading, [Next]_vars
               PROVE  Reading' /\ [ReconnectStep]_vars
    OBVIOUS
  <2> USE DEF ReconnectStep, ctlVars, sendVars, StopInv, ConnIInv, ConnInv, TypeOK, ConnPcs
  <2>1. CASE Control
    BY <2>1
       DEF Control, service_start, StartThreads, service_stop, Stopping,
           service_method_set_settings
  <2>2. CASE Joins
    BY <2>2
       DEF Joins, StartUndone, service_destroy, Stopping, CaptureJoined, ConnectionJoined,
           StartThreads
  <2>3. CASE Loop \/ hyperion_client \/ Connect \/ ConnectFails
    BY <2>3 DEF Loop, hyperion_client, Connect, ConnectFails, ConnStep, ToConnect
  <2>4. CASE Check \/ ReadReply \/ ReadOther \/ ReadFails
    BY <2>4 DEF Check, ReadReply, ReadOther, ReadFails, ConnStep, ToConnect
  <2>5. CASE Close \/ Zero \/ Pause
    BY <2>5 DEF Close, Zero, Pause, ConnStep, ToConnect
  <2>6. CASE Sender \/ CaptureChanges \/ ServerCloses
    BY <2>6 DEF Sender, hyperion_set_image, TestConnected, TestRegistered,
                hyperion_set_register, WriteHeader, WriteBody, SendStep,
                CaptureChanges, ServerCloses
  <2>7. CASE UNCHANGED vars
    BY <2>7 DEF vars
  <2> QED
    BY <2>1, <2>2, <2>3, <2>4, <2>5, <2>6, <2>7 DEF Next, ConnectionThread
<1>3. ConnIInv /\ Reading => (connected <=> connPc \in {"check", "read"})
  BY DEF ConnIInv, ConnInv
<1> QED BY <1>1, <1>2, <1>3, ConnInductive, StopInductive, PTL DEF Spec

--------------------------------------------------------------------------------
\* With whole writes, every action keeps the server in step with the sender.
LEMMA SendStepLemma ==
    ASSUME WritesWhole, SendIInv, ConnIInv', [Next]_vars
    PROVE  SendIInv'
<1> USE DEF SendIInv, ConnIInv, TypeOK, ConnInv, StopInv, SendInv, StreamAligned,
            RegisterFirst, WritesWhole, CtlPcs, ConnPcs, SendPcs
<1> USE DEF ctlVars, sendVars, socketVars, serverVars
<1>1. CASE service_start
  BY <1>1 DEF service_start, StartThreads
<1>2. CASE service_stop \/ service_destroy
  BY <1>2 DEF service_stop, service_destroy, Stopping
<1>3. CASE service_method_set_settings
  BY <1>3 DEF service_method_set_settings
<1>4. CASE CaptureJoined \/ StartUndone
  BY <1>4 DEF CaptureJoined, StartUndone
<1>5. CASE ConnectionJoined
  BY <1>5 DEF ConnectionJoined, StartThreads
<1>6. CASE Loop
  BY <1>6 DEF Loop, ConnStep
<1>7. CASE hyperion_client
  BY <1>7 DEF hyperion_client, ConnStep
<1>8. CASE Connect
  BY <1>8 DEF Connect, ConnStep
<1>9. CASE ConnectFails
  BY <1>9 DEF ConnectFails, ConnStep
<1>10. CASE Check
  BY <1>10 DEF Check, ConnStep
<1>11. CASE ReadReply
  BY <1>11 DEF ReadReply, ConnStep
<1>12. CASE ReadOther
  BY <1>12 DEF ReadOther, ConnStep
<1>13. CASE ReadFails
  BY <1>13 DEF ReadFails, ConnStep
<1>14. CASE Close
  BY <1>14 DEF Close, ConnStep
<1>15. CASE Zero
  BY <1>15 DEF Zero, ConnStep
<1>16. CASE Pause
  BY <1>16 DEF Pause, ConnStep
<1>17. CASE CaptureChanges
  BY <1>17 DEF CaptureChanges
<1>18. CASE hyperion_set_image \/ TestConnected
  BY <1>18 DEF hyperion_set_image, TestConnected, SendStep
<1>23. CASE TestRegistered
  <2>1. CASE _registered
    BY <1>23, <2>1 DEF TestRegistered, SendStep
  <2>2. CASE ~_registered
    BY <1>23, <2>2 DEF TestRegistered, SendStep
  <2> QED BY <2>1, <2>2
<1>24. CASE hyperion_set_register
  BY <1>24 DEF hyperion_set_register, SendStep
<1>19. CASE WriteHeader
  BY <1>19 DEF WriteHeader, HeaderArrives, SendStep, Delivered, WriteLost
<1>20. CASE WriteBody
  BY <1>20 DEF WriteBody, BodyArrives, SendStep, Delivered, WriteLost
<1>21. CASE ServerCloses
  BY <1>21 DEF ServerCloses
<1>22. CASE UNCHANGED vars
  BY <1>22 DEF vars
<1> QED
  BY <1>1, <1>2, <1>3, <1>4, <1>5, <1>6, <1>7, <1>8, <1>9, <1>10, <1>11, <1>12, <1>13,
     <1>14, <1>15, <1>16, <1>17, <1>18, <1>19, <1>20, <1>21, <1>22, <1>23, <1>24
     DEF Next, Control, Joins, ConnectionThread, Sender

LEMMA SendInductive == WritesWhole => (Spec => []SendIInv)
<1> SUFFICES ASSUME WritesWhole PROVE Spec => []SendIInv
  OBVIOUS
<1>1. Init => SendIInv
  <2>1. Init => ConnIInv
    BY ConnInit
  <2>2. Init => StopInv /\ SendInv /\ StreamAligned /\ RegisterFirst
    BY DEF Init, StopInv, SendInv, StreamAligned, RegisterFirst
  <2> QED BY <2>1, <2>2 DEF SendIInv
<1>2. SendIInv /\ ConnIInv' /\ [Next]_vars => SendIInv'
  BY SendStepLemma
<1> QED BY <1>1, <1>2, ConnInductive, PTL DEF Spec

\* If writes are whole and end before the next connection is made, requests never
\* get mixed up, however often the server goes away and the service is restarted.
THEOREM RequestsStayAligned == WritesWhole => (Spec => []StreamAligned)
<1> SUFFICES ASSUME WritesWhole PROVE Spec => []StreamAligned
  OBVIOUS
<1>1. SendIInv => StreamAligned
  BY DEF SendIInv
<1> QED BY <1>1, SendInductive, PTL

\* Under the same assumption the server has the registration before any image.
THEOREM RegistrationComesFirst == WritesWhole => (Spec => []RegisterFirst)
<1> SUFFICES ASSUME WritesWhole PROVE Spec => []RegisterFirst
  OBVIOUS
<1>1. SendIInv => RegisterFirst
  BY DEF SendIInv
<1> QED BY <1>1, SendInductive, PTL

--------------------------------------------------------------------------------
(* The length header of a message.                                         *)

\* The server reads as many bytes as are sent after the header, for every message
\* below 4 GB; with the stream property of HyperionClient this keeps it aligned.
THEOREM HeaderTellsLength ==
    \A size \in Nat : size < 4294967296 => Decoded(header(size)) = size
  <1> SUFFICES ASSUME NEW size \in Nat, size < 4294967296
                 PROVE  Decoded(header(size)) = size
    OBVIOUS
  <1>2. size = 256 * (size \div 256) + (size % 256)
    BY SMT
  <1>3. size \div 256 = 256 * (size \div 65536) + ((size \div 256) % 256)
    BY SMT
  <1>4. size \div 65536 = 256 * (size \div 16777216) + ((size \div 65536) % 256)
    BY SMT
  <1>5. (size \div 16777216) % 256 = size \div 16777216
    BY SMT
  <1> QED
    BY <1>2, <1>3, <1>4, <1>5, SMT DEF Decoded, header

--------------------------------------------------------------------------------
(* The composition.                                                        *)

\* Unicapture again, as UC, with its theorems.
UCP == INSTANCE UnicaptureProofs WITH
        ctl <- uctl, running <- urunning, capture_running <- capturing, held <- frames

--------------------------------------------------------------------------------
(* The capture threads.                                                    *)

\* Every step of the composition is one of the capture threads, or does not move them.
LEMMA CaptureStep == [LightsNext]_lightsVars => [UC!Next]_ucVars
<1> SUFFICES ASSUME [LightsNext]_lightsVars PROVE UC!Next \/ UNCHANGED ucVars
  OBVIOUS
<1> USE DEF UC!Next, UC!Service, UC!MainThread
<1>1. CASE Start \/ StartFails \/ Undo
  BY <1>1 DEF Start, StartFails, Undo
<1>2. CASE Stop
  BY <1>2 DEF Stop
<1>3. CASE SetSettings
  BY <1>3 DEF SetSettings
<1>4. CASE JoinCapture
  BY <1>4 DEF JoinCapture
<1>5. CASE JoinConnection
  BY <1>5 DEF JoinConnection
<1>6. CASE CaptureMain
  BY <1>6 DEF CaptureMain, FeedBegins, FeedDrops, FeedLooks, FeedHeader, FeedEnds, Release
<1>7. CASE CaptureVsync
  BY <1>7 DEF CaptureVsync
<1>8. CASE Time
  BY <1>8 DEF Time
<1>9. CASE Wake
  BY <1>9 DEF Wake
<1>10. CASE Connection \/ Server
  BY <1>10 DEF Connection, Server
<1>11. CASE UNCHANGED lightsVars
  BY <1>11 DEF lightsVars
<1> QED
  BY <1>1, <1>2, <1>3, <1>4, <1>5, <1>6, <1>7, <1>8, <1>9, <1>10, <1>11 DEF LightsNext

LEMMA SameNext == [UC!Next]_ucVars => [UCP!Next]_(UCP!vars)
BY DEF ucVars, UCP!vars,
       UC!unicapture_start, UC!unicapture_stop, UC!Joined, UC!Reconfigure, UC!Boot,
       UC!StartUi, UC!StartVideo, UC!CondWait, UC!AcquireUi, UC!TestVideo,
       UC!AcquireVideo, UC!Opens, UC!AcquireVideoStop, UC!MainTerminateVideo, UC!MainClearVideo, UC!Send, UC!Exit,
       UC!JoinVsync, UC!Terminate, UC!Cleanup, UC!VsyncExit, UC!VsyncCheck,
       UC!VsyncWait, UC!VsyncWaitStop, UC!VsyncTerminateVideo, UC!VsyncClearVideo,
       UC!VsyncSignal, UC!Elapse, UC!SpuriousWake, UC!MainStep, UC!VsyncStep,
       UC!Acquire, UC!StartIfDue, UC!Due, UC!StartResults, UC!PhaseAfterStart,
       UC!Wrong, UC!AllowedIn, UC!Terminated, UC!CleanedUp, UC!TerminateVideo,
       UC!ClearVideo, UC!Backends, UC!Next, UC!Service, UC!MainThread, UC!VsyncThread,
       UCP!unicapture_start, UCP!unicapture_stop, UCP!Joined, UCP!Reconfigure,
       UCP!Boot, UCP!StartUi, UCP!StartVideo, UCP!CondWait, UCP!AcquireUi,
       UCP!TestVideo, UCP!Opens, UCP!AcquireVideo, UCP!AcquireVideoStop, UCP!MainTerminateVideo,
       UCP!MainClearVideo, UCP!Send, UCP!Exit, UCP!JoinVsync, UCP!Terminate,
       UCP!Cleanup, UCP!VsyncExit, UCP!VsyncCheck, UCP!VsyncWait, UCP!VsyncWaitStop,
       UCP!VsyncTerminateVideo, UCP!VsyncClearVideo, UCP!VsyncSignal, UCP!Elapse,
       UCP!SpuriousWake, UCP!MainStep, UCP!VsyncStep, UCP!Acquire, UCP!StartIfDue,
       UCP!Due, UCP!StartResults, UCP!PhaseAfterStart, UCP!Wrong, UCP!AllowedIn,
       UCP!Terminated, UCP!CleanedUp, UCP!TerminateVideo, UCP!ClearVideo, UCP!Backends,
       UCP!Next, UCP!Service, UCP!MainThread, UCP!VsyncThread

LEMMA SameInit == UC!Init => UCP!Init
BY DEF UC!Init, UCP!Init, UC!Backends, UCP!Backends

\* What the composition does with the capture is what Unicapture does on its own, with
\* the connection neither starting, stopping nor reordering anything in it.
THEOREM CaptureImplemented == LightsSpec => UC!Spec
<1>1. LightsInit => UC!Init
  BY DEF LightsInit
<1> QED BY <1>1, CaptureStep, PTL DEF LightsSpec, UC!Spec, UC!vars, ucVars

LEMMA CaptureProved == LightsSpec => UCP!Spec
<1>1. LightsInit => UCP!Init
  BY SameInit DEF LightsInit
<1> QED BY <1>1, CaptureStep, SameNext, PTL DEF LightsSpec, UCP!Spec

\* The assumption of Unicapture is that of Lights.
LEMMA Assumed == UCP!UnicaptureAssumption
BY LightsAssumption
   DEF UCP!UnicaptureAssumption, UCP!Backends, UCP!FaultKinds, UC!Backends, UC!FaultKinds

\* The capture threads, whatever the backends answer and whoever ends a session.
LEMMA CaptureInv == LightsSpec => []UCP!ThreadIInv
<1>1. UCP!Spec => []UCP!ThreadIInv
  BY Assumed, UCP!ThreadInductive
<1> QED BY <1>1, CaptureProved, PTL

\* Whichever one of the two threads may be asked for a restart, the video backend sees its
\* sessions opened, started, ended and closed as CaptureContract says while its frames are
\* sent: the sender in between neither reorders nor repeats a call.
THEOREM SessionsKeptSending ==
    ASSUME UCP!OneDetector, UCP!InitSucceeds
    PROVE  LightsSpec => SessionContract
<1>1. UCP!Spec => UCP!SessionContract
  BY Assumed, UCP!SessionsKeepContract
<1>2. UCP!VideoSessions!ContractInit => UC!VideoSessions!ContractInit
  BY DEF UCP!VideoSessions!ContractInit, UC!VideoSessions!ContractInit, UC!PairingSeen,
         UCP!PairingSeen, UC!Paired, UCP!Paired
<1>3. [UCP!VideoSessions!ContractNext \/ UCP!VideoSessions!StartAgain]_
                (UCP!VideoSessions!contractVars)
        => [UC!VideoSessions!ContractNext \/ UC!VideoSessions!StartAgain]_
                (UC!VideoSessions!contractVars)
  BY DEF UC!VideoSessions!contractVars, UCP!VideoSessions!contractVars,
         UC!VideoSessions!ContractNext, UCP!VideoSessions!ContractNext,
         UC!VideoSessions!capture_init, UCP!VideoSessions!capture_init,
         UC!VideoSessions!capture_start, UCP!VideoSessions!capture_start,
         UC!VideoSessions!capture_terminate, UCP!VideoSessions!capture_terminate,
         UC!VideoSessions!capture_acquire_frame, UCP!VideoSessions!capture_acquire_frame,
         UC!VideoSessions!capture_release_frame, UCP!VideoSessions!capture_release_frame,
         UC!VideoSessions!capture_cleanup, UCP!VideoSessions!capture_cleanup,
         UC!VideoSessions!Replace, UCP!VideoSessions!Replace,
         UC!VideoSessions!StartAgain, UCP!VideoSessions!StartAgain,
         UC!PairingSeen, UCP!PairingSeen, UC!Paired, UCP!Paired
<1> QED
  BY <1>1, <1>2, <1>3, CaptureProved, PTL
     DEF SessionContract, UC!SessionContract, UCP!SessionContract,
         UC!VideoSessions!LenientSpec, UCP!VideoSessions!LenientSpec

--------------------------------------------------------------------------------
(* The connection.                                                         *)

\* The service's thread is at the same place in both parts, and the connection thread
\* sees of the capture what there is to see.
JointInv ==
    /\ uctl = "idle" /\ urunning <=> ctl = "running" \/ (ctl = "failing" /\ urunning)
    /\ uctl = "joining" <=> ctl = "joinCapture" \/ (ctl = "failing" /\ ~urunning)
    /\ ctl # "saving" /\ ~restart
    /\ capture_running = (capturing # {})

LEMMA JointInit == LightsInit => JointInv
BY DEF LightsInit, Init, UC!Init, JointInv

\* Nothing captures but between a start and the join.
LEMMA CaptureEnds ==
    ASSUME JointInv, UCP!ThreadIInv, ctl \in {"stopped", "joinConnection"}
    PROVE  capturing = {} /\ mainPc = "none" /\ vsyncPc = "none"
BY DEF JointInv, UCP!ThreadIInv, UCP!TypeOK, UCP!ThreadInv

\* The capture as the connection thread sees it changes only where HyperionClient
\* lets it change.
LEMMA SeenStep ==
    ASSUME JointInv, UCP!ThreadIInv, Seen, mainPc # "none"
    PROVE  [CaptureChanges]_vars /\ capture_running' = (capturing' # {})
<1>1. ctl \notin {"stopped", "joinConnection"}
  BY CaptureEnds
<1> QED BY <1>1 DEF Seen, CaptureChanges, JointInv, vars, ctlVars, sendVars

\* A step of a capture thread that does not feed.
LEMMA ThreadStep ==
    ASSUME JointInv, UCP!ThreadIInv, Seen, UNCHANGED <<uctl, urunning>>, mainPc # "none"
    PROVE  [Next]_vars /\ JointInv'
BY SeenStep DEF Next, JointInv, Seen, ctlVars

LEMMA ClientStep ==
    ASSUME JointInv, UCP!ThreadIInv, [LightsNext]_lightsVars
    PROVE  [Next]_vars /\ JointInv'
<1>1. CASE Start
  BY <1>1, CaptureEnds
     DEF Start, service_start, StartThreads, UC!unicapture_start, Next, Control, JointInv
<1>2. CASE Stop \/ StartFails
  BY <1>2
     DEF Stop, StartFails, service_stop, Stopping, UC!unicapture_stop, Next, Control,
         JointInv, sendVars, vars, ctlVars
<1>3. CASE SetSettings
  BY <1>3, CaptureEnds
     DEF SetSettings, service_method_set_settings, UC!Reconfigure, Next, Control,
         JointInv, ctlVars, sendVars
<1>4. CASE JoinCapture \/ Undo
  <2>1. mainPc = "done" /\ UC!Joined /\ uctl' = "idle"
    BY <1>4 DEF JoinCapture, Undo, UC!Joined
  <2>2. capturing = {} /\ ~urunning
    BY <2>1 DEF UCP!ThreadIInv, UCP!ThreadInv
  <2>3. UNCHANGED <<urunning, capturing>>
    BY <2>1 DEF UC!Joined
  <2>4. CASE JoinCapture
    <3>1. [Next]_vars
      BY <2>4 DEF JoinCapture, Next, Joins
    <3>2. ctl' = "joinConnection" /\ capture_running' = FALSE /\ UNCHANGED restart
      BY <2>4 DEF JoinCapture, CaptureJoined
    <3> QED BY <2>1, <2>2, <2>3, <3>1, <3>2 DEF JointInv
  <2>5. CASE Undo
    <3>1. [Next]_vars
      BY <2>5 DEF Undo, Next, Joins
    <3>2. ctl' = "stopped" /\ capture_running' = FALSE /\ UNCHANGED restart
      BY <2>5 DEF Undo, StartUndone
    <3> QED BY <2>1, <2>2, <2>3, <3>1, <3>2 DEF JointInv
  <2> QED BY <1>4, <2>4, <2>5
<1>5. CASE JoinConnection
  <2>1. capturing = {}
    BY <1>5, CaptureEnds DEF JoinConnection, ConnectionJoined
  <2> QED
    BY <1>5, <2>1
       DEF JoinConnection, ConnectionJoined, Next, Joins, JointInv, ucVars
<1>6. CASE FeedBegins \/ FeedLooks \/ FeedHeader \/ FeedEnds
  BY <1>6
     DEF FeedBegins, FeedLooks, FeedHeader, FeedEnds, hyperion_set_image, TestConnected,
         TestRegistered, hyperion_set_register, WriteHeader, WriteBody, SendStep, Next,
         Sender, JointInv, ucVars, ctlVars
<1>7. CASE FeedDrops
  BY <1>7 DEF FeedDrops, JointInv, vars, ctlVars, sendVars, ucVars
<1>8. CASE Release
  BY <1>8, ThreadStep DEF Release, UC!Send, UC!MainStep
<1>9. CASE CaptureMain /\ ~(FeedBegins \/ FeedLooks \/ FeedHeader \/ FeedEnds \/ FeedDrops
                          \/ Release)
  BY <1>9, ThreadStep
     DEF CaptureMain, UC!Boot, UC!StartUi, UC!StartVideo, UC!StartIfDue, UC!CondWait,
         UC!AcquireUi, UC!TestVideo, UC!AcquireVideo, UC!AcquireVideoStop, UC!MainTerminateVideo,
         UC!MainClearVideo, UC!Exit, UC!JoinVsync, UC!Terminate, UC!Cleanup, UC!MainStep
<1>10. CASE CaptureVsync
  <2>1. vsyncPc # "none" /\ UNCHANGED <<uctl, urunning>>
    BY <1>10
       DEF CaptureVsync, UC!VsyncThread, UC!VsyncExit, UC!VsyncCheck, UC!VsyncWait,
           UC!VsyncWaitStop, UC!VsyncTerminateVideo, UC!VsyncClearVideo, UC!VsyncSignal,
           UC!VsyncStep
  <2>2. mainPc # "none"
    BY <2>1 DEF UCP!ThreadIInv, UCP!ThreadInv
  <2> QED BY <1>10, <2>1, <2>2, ThreadStep DEF CaptureVsync
<1>11. CASE Time \/ Wake
  BY <1>11, ThreadStep DEF Time, Wake, UC!Elapse, UC!SpuriousWake, UC!MainStep
<1>12. CASE Connection
  <2>1. UNCHANGED <<ctlVars, capture_running>>
    BY <1>12
       DEF Connection, ConnectionThread, Loop, hyperion_client, Connect, ConnectFails,
           Check, ReadReply, ReadOther, ReadFails, Close, Zero, Pause, ConnStep, sendVars
  <2> QED BY <1>12, <2>1 DEF Connection, Next, JointInv, ucVars, ctlVars
<1>13. CASE Server
  BY <1>13 DEF Server, ServerCloses, Next, JointInv, ucVars, ctlVars, sendVars
<1>14. CASE UNCHANGED lightsVars
  BY <1>14 DEF lightsVars, JointInv, vars, ctlVars, sendVars, ucVars
<1> QED
  BY <1>1, <1>2, <1>3, <1>4, <1>5, <1>6, <1>7, <1>8, <1>9, <1>10, <1>11, <1>12, <1>13,
     <1>14 DEF LightsNext

\* What HyperionClient assumes of the capture holds with the real one: everything that
\* is proved of it is true of the composition.
THEOREM ClientImplemented == LightsSpec => ClientSpec
<1>1. JointInv /\ UCP!ThreadIInv /\ [LightsNext]_lightsVars => [Next]_vars /\ JointInv'
  BY ClientStep
<1>2. LightsInit => Init
  BY DEF LightsInit
<1> QED
  BY <1>1, <1>2, JointInit, CaptureInv, PTL DEF LightsSpec, ClientSpec, Spec

\* Whole requests, and the registration first, with the real capture.
THEOREM ImagesArriveWhole ==
    ASSUME WritesWhole
    PROVE  LightsSpec => [](StreamAligned /\ RegisterFirst)
<1>1. Spec => []StreamAligned
  BY RequestsStayAligned
<1>2. Spec => []RegisterFirst
  BY RegistrationComesFirst
<1> QED BY <1>1, <1>2, ClientImplemented, PTL DEF ClientSpec

--------------------------------------------------------------------------------
(* The frame and its message.                                              *)

\* A message is written while its frame is held, and each frame is fed once.
FeedInv ==
    /\ sendPc \notin {"none", "frame"} => Feeding
    /\ fed => mainPc = "send"

LEMMA FeedStep ==
    ASSUME JointInv, UCP!ThreadIInv, FeedInv, [LightsNext]_lightsVars
    PROVE  FeedInv'
<1> USE DEF FeedInv, Feeding
<1>1. CASE Start
  BY <1>1 DEF Start, service_start, StartThreads, UC!unicapture_start, UCP!ThreadIInv,
              UCP!ThreadInv, JointInv
<1>2. CASE Stop \/ StartFails
  BY <1>2
     DEF Stop, StartFails, service_stop, Stopping, UC!unicapture_stop, sendVars, vars
<1>3. CASE SetSettings
  BY <1>3 DEF SetSettings, service_method_set_settings, UC!Reconfigure, sendVars
<1>4. CASE JoinCapture \/ Undo
  BY <1>4 DEF JoinCapture, Undo, CaptureJoined, StartUndone, UC!Joined
<1>5. CASE JoinConnection
  BY <1>5 DEF JoinConnection, ConnectionJoined, StartThreads, ucVars
<1>6. CASE FeedBegins \/ FeedLooks \/ FeedHeader \/ FeedEnds \/ FeedDrops
  <2>1. CASE FeedBegins \/ FeedDrops
    BY <2>1
       DEF FeedBegins, FeedDrops, hyperion_set_image, SendStep, ucVars, vars, sendVars
  <2>2. CASE FeedLooks
    BY <2>2
       DEF FeedLooks, TestConnected, TestRegistered, hyperion_set_register, SendStep, ucVars
  <2>3. CASE FeedHeader \/ FeedEnds
    BY <2>3 DEF FeedHeader, FeedEnds, WriteHeader, WriteBody, SendStep, ucVars
  <2> QED BY <1>6, <2>1, <2>2, <2>3
<1>7. CASE Release
  BY <1>7 DEF Release, Seen
<1>8. ASSUME Seen, UNCHANGED fed, mainPc' # mainPc => mainPc # "send",
             mainPc = "send" => UNCHANGED frames
      PROVE  FeedInv'
  BY <1>8 DEF Seen
<1>9. CASE CaptureMain /\ ~(FeedBegins \/ FeedLooks \/ FeedHeader \/ FeedEnds \/ FeedDrops
                          \/ Release)
  BY <1>8, <1>9
     DEF CaptureMain, UC!Boot, UC!StartUi, UC!StartVideo, UC!StartIfDue, UC!CondWait,
         UC!AcquireUi, UC!TestVideo, UC!AcquireVideo, UC!AcquireVideoStop, UC!MainTerminateVideo,
         UC!MainClearVideo, UC!Exit, UC!JoinVsync, UC!Terminate, UC!Cleanup, UC!MainStep
<1>10. CASE CaptureVsync
  <2>1. /\ UNCHANGED frames
        /\ mainPc' = mainPc \/ (mainPc = "blocked" /\ mainPc' = "acquireUi")
    BY <1>10
       DEF CaptureVsync, UC!VsyncThread, UC!VsyncExit, UC!VsyncCheck, UC!VsyncWait,
           UC!VsyncWaitStop, UC!VsyncTerminateVideo, UC!VsyncClearVideo, UC!VsyncSignal,
           UC!VsyncStep, UC!TerminateVideo, UC!ClearVideo
  <2> QED BY <1>8, <1>10, <2>1 DEF CaptureVsync
<1>11. CASE Time \/ Wake
  BY <1>8, <1>11 DEF Time, Wake, UC!Elapse, UC!SpuriousWake, UC!MainStep
<1>12. CASE Connection \/ Server
  BY <1>12
     DEF Connection, Server, ServerCloses, ConnectionThread, Loop, hyperion_client,
         Connect, ConnectFails, Check, ReadReply, ReadOther, ReadFails, Close, Zero,
         Pause, ConnStep, sendVars, ucVars
<1>13. CASE UNCHANGED lightsVars
  BY <1>13 DEF lightsVars, vars, sendVars, ucVars
<1> QED
  BY <1>1, <1>2, <1>3, <1>4, <1>5, <1>6, <1>7, <1>9, <1>10, <1>11, <1>12, <1>13
     DEF LightsNext

\* While a message is prepared and its two writes go on, however slow, failing or late
\* they are, the main thread holds the frame it is made of, even if the vsync thread ends
\* the session of that frame meanwhile (unicapture.c:296-320, service.c:70-81).  And when
\* a stop, or a start that failed, joins the capture, the callback has returned, so that
\* the two halves of the join cannot wait for each other.
THEOREM MessagesAreOfHeldFrames ==
    LightsSpec => [](/\ sendPc \notin {"none", "frame"} => mainPc = "send" /\ frames # {}
                     /\ ctl \in {"joinCapture", "failing"} /\ mainPc = "done"
                            => sendPc = "frame")
<1>1. LightsInit => FeedInv
  BY DEF LightsInit, Init, FeedInv
<1>2. JointInv /\ UCP!ThreadIInv /\ FeedInv /\ [LightsNext]_lightsVars => FeedInv'
  BY FeedStep
<1>3. JointInv /\ UCP!ThreadIInv /\ [LightsNext]_lightsVars => JointInv'
  BY ClientStep
<1>4. FeedInv /\ TypeOK /\ (ctl \in {"joinCapture", "failing"} => sendPc # "none")
        => /\ sendPc \notin {"none", "frame"} => mainPc = "send" /\ frames # {}
           /\ ctl \in {"joinCapture", "failing"} /\ mainPc = "done" => sendPc = "frame"
  BY DEF FeedInv, Feeding
<1>5. (/\ ctl = "joinCapture" => sendPc # "none" /\ connPc # "none"
       /\ ctl = "failing" => sendPc # "none"
       /\ ctl = "joinConnection" => sendPc = "none" /\ connPc # "none")
        => (ctl \in {"joinCapture", "failing"} => sendPc # "none")
  OBVIOUS
<1> QED
  BY <1>1, <1>2, <1>3, <1>4, <1>5, JointInit, CaptureInv, TypeCorrect, ClientStopAdvances,
     ClientImplemented, PTL DEF LightsSpec, ClientSpec

\* So both joins of service_stop have threads in front of them that come nearer to their
\* ends with each step.
THEOREM StopOfBothAdvances ==
    LightsSpec => /\ []UCP!NobodyIsStuck
                  /\ [][UCP!Advances]_(UCP!vars)
                  /\ [][StopAdvances]_vars
<1>1. UCP!Spec => []UCP!NobodyIsStuck /\ [][UCP!Advances]_(UCP!vars)
  BY Assumed, UCP!ThreadsAdvance
<1> QED BY <1>1, CaptureProved, ClientStopAdvances, ClientImplemented, PTL DEF ClientSpec

================================================================================
