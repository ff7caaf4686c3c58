--------------------------------- MODULE Lights ---------------------------------
(***************************************************************************)
(* The composition of the capture threads (Unicapture, here UC) with the   *)
(* connection to Hyperion (HyperionClient), by way of service_start,       *)
(* service_stop and the callback service_feed_frame: five threads, from    *)
(* the frame a backend acquires to the image the server reads.             *)
(*                                                                         *)
(* HyperionClient leaves open when something captures and when a frame is  *)
(* fed; here unicapture_run decides both.  The callback runs between the   *)
(* acquiring of a frame and its release, in the main thread of capture.    *)
(***************************************************************************)
EXTENDS HyperionClient

CONSTANTS Present, Vsync, Faults    \* as in Unicapture

VARIABLES
    uctl, urunning, configured, initialized, capturing, coolingDown, frames,
    vsync_thread_running, mainPc, vsyncPc, phase, misuse,   \* as in Unicapture
    fed         \* the callback has returned for the frame at hand

UC == INSTANCE Unicapture WITH
        ctl <- uctl, running <- urunning, capture_running <- capturing, held <- frames

ASSUME LightsAssumption ==
    Present \subseteq UC!Backends /\ Vsync \in BOOLEAN /\ Faults \subseteq UC!FaultKinds

ucVars == <<uctl, urunning, configured, initialized, capturing, coolingDown, frames,
            vsync_thread_running, mainPc, vsyncPc, phase, misuse>>
lightsVars == <<vars, ucVars, fed>>

LightsInit == Init /\ UC!Init /\ fed = FALSE

--------------------------------------------------------------------------------
(* service.c: the two halves are started and stopped together.             *)

Start == service_start /\ UC!unicapture_start /\ UNCHANGED fed

\* The connection thread did not come up: the capture is stopped again.
StartFails == ctl = "failing" /\ UC!unicapture_stop /\ UNCHANGED <<vars, fed>>
Undo       == StartUndone /\ UC!Joined /\ UNCHANGED fed

Stop  == service_stop /\ UC!unicapture_stop /\ UNCHANGED fed

\* On a stopped service setSettings also opens the backends anew.
SetSettings ==
    /\ ctl = "stopped"
    /\ service_method_set_settings /\ UC!Reconfigure
    /\ UNCHANGED fed

\* pthread_join of the capture, then of the connection.
JoinCapture    == CaptureJoined /\ UC!Joined /\ UNCHANGED fed
JoinConnection == ConnectionJoined /\ UNCHANGED <<ucVars, fed>>

--------------------------------------------------------------------------------
(* The capture threads.                                                    *)

\* connection_loop looks at both flags of the capture.
Seen ==
    /\ capture_running' = (capturing' # {})
    /\ UNCHANGED <<ctlVars, connected, connPc, sendPc, kind, address, socketVars,
                   serverVars, history>>

\* A frame is at hand and the callback has not been called for it.
Feeding == mainPc = "send" /\ frames # {} /\ ~fed

\* The callback, service_feed_frame: the image is sent, or turned away on the way.
FeedBegins == Feeding /\ hyperion_set_image /\ UNCHANGED <<ucVars, fed>>
FeedDrops ==
    /\ Feeding /\ sendPc = "frame" /\ sockfd = "0"
    /\ fed' = TRUE
    /\ UNCHANGED <<vars, ucVars>>
FeedLooks ==
    /\ TestConnected \/ TestRegistered \/ hyperion_set_register
    /\ fed' = (sendPc' = "frame")
    /\ UNCHANGED ucVars
FeedHeader == WriteHeader /\ UNCHANGED <<ucVars, fed>>
FeedEnds   == WriteBody /\ fed' = TRUE /\ UNCHANGED ucVars

\* The frames are released, after the callback.
Release == UC!Send /\ ~Feeding /\ Seen /\ fed' = FALSE

CaptureMain ==
    \/ FeedBegins \/ FeedDrops \/ FeedLooks \/ FeedHeader \/ FeedEnds \/ Release
    \/ /\ \/ UC!Boot      \/ UC!StartUi   \/ UC!StartVideo   \/ UC!CondWait
          \/ UC!AcquireUi \/ UC!TestVideo \/ UC!AcquireVideo
          \/ UC!AcquireVideoStop  \/ UC!MainTerminateVideo  \/ UC!MainClearVideo
          \/ UC!Exit      \/ UC!JoinVsync \/ UC!Terminate    \/ UC!Cleanup
       /\ Seen /\ UNCHANGED fed

CaptureVsync == UC!VsyncThread /\ Seen /\ UNCHANGED fed
Time         == UC!Elapse /\ Seen /\ UNCHANGED fed
Wake         == UC!SpuriousWake /\ Seen /\ UNCHANGED fed

--------------------------------------------------------------------------------
(* The connection thread and the server.                                   *)

Connection == ConnectionThread /\ UNCHANGED <<ucVars, fed>>
Server     == ServerCloses /\ UNCHANGED <<ucVars, fed>>

LightsNext ==
    \/ Start       \/ StartFails   \/ Undo
    \/ Stop        \/ SetSettings  \/ JoinCapture \/ JoinConnection
    \/ CaptureMain \/ CaptureVsync \/ Time        \/ Wake
    \/ Connection  \/ Server

\* The fairness of the two parts.
LightsSpec ==
    /\ LightsInit /\ [][LightsNext]_lightsVars
    /\ WF_lightsVars(CaptureMain) /\ WF_lightsVars(CaptureVsync) /\ WF_lightsVars(Time)
    /\ WF_lightsVars(JoinCapture) /\ WF_lightsVars(JoinConnection)
    /\ WF_lightsVars(StartFails)  /\ WF_lightsVars(Undo)
    /\ WF_lightsVars(Connection)

--------------------------------------------------------------------------------
(* Properties, besides those of HyperionClient.                            *)

\* What HyperionClient takes for granted of the capture holds with the real one: in
\* particular nothing is captured or sent once unicapture_stop has returned and the
\* connection is being ended (service_stop, service.c:215-217).
ClientSpec == Spec

\* The video backend sees its sessions opened, started, ended and closed as
\* CaptureContract says, whichever thread ends them, while frames are sent to a server
\* that comes and goes and a writer may hold the main thread up.
SessionContract == UC!SessionContract

\* The lights follow the picture: if the capture goes on, frames keep being acquired
\* and the connection that was made lasts, images keep arriving at the server.  The
\* registration, its confirmation by another thread, and the pacing of the frames all
\* have to work for that (service_feed_frame, service.c:70-81).  It takes a server that
\* confirms a registration it is asked for again and again, and a stream in which the
\* confirmation is not put off for ever by other messages.
ServerConfirms ==
    /\ SF_lightsVars(FeedEnds /\ reply')
    /\ SF_lightsVars(ReadReply /\ UNCHANGED <<ucVars, fed>>)

ImageArrives == sendPc = "body" /\ kind = "image" /\ stream = "image" /\ Delivered

LightsFollow ==
    <>[](ctl = "running" /\ Delivered) /\ []<>Feeding /\ ServerConfirms
        => []<>ImageArrives
================================================================================
