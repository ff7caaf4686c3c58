----------------------------- MODULE HyperionClient -----------------------------
(***************************************************************************)
(* hyperion_client.c and the thread that drives it, connection_loop of     *)
(* service.c.  The connection thread connects, reads replies, closes and   *)
(* tries again; the capture thread writes frames to the same static        *)
(* sockfd, _connected and _registered without a lock; the service's thread *)
(* starts both, and stops them one after the other.                        *)
(*                                                                         *)
(* The server is outside this code: it accepts or refuses, reads requests  *)
(* of a length header and a body, confirms a registration, goes away.      *)
(***************************************************************************)
EXTENDS Naturals

CONSTANTS WriteFaults,   \* subset of {"fail", "partial"}: how a write may end early
          Overtake,      \* a write may take longer than the pause before a reconnect
          LiveReload     \* setSettings may come while the capture runs

ASSUME ClientAssumption ==
    /\ WriteFaults \subseteq {"fail", "partial"}
    /\ Overtake \in BOOLEAN /\ LiveReload \in BOOLEAN

VARIABLES
    ctl,                        \* the service's thread, see CtlPcs
    restart,                    \* setSettings: service_start after service_destroy
    connection_loop_running,    \* service->connection_loop_running
    connected,                  \* service->connected
    capture_running,            \* video_capture_running || ui_capture_running
    connPc,                     \* next step of connection_loop
    sendPc,                     \* next step of the capture thread in _send_message
    kind,                       \* what it is sending, "register" or "image"
    sockfd,                     \* 0, an open socket, or one that is closed already
    open_sockets,               \* sockets the process holds
    address,                    \* the connection thread's pointer to settings->address
    _connected, _registered,    \* statics of hyperion_client.c
    link,                       \* the server's end of the current connection
    stream,                     \* where the server is in the byte stream
    accepted,                   \* the server has this connection's registration
    reply,                      \* a confirmation is on its way back
    history                     \* "earlyImage" came, read by no action

socketVars == <<sockfd, open_sockets, _connected, _registered>>
serverVars == <<link, stream, accepted, reply>>
ctlVars == <<ctl, restart, connection_loop_running>>
sendVars == <<capture_running, sendPc, kind>>
vars == <<ctlVars, connected, connPc, sendVars, address, socketVars, serverVars, history>>

CtlPcs == {"stopped", "running", "saving", "failing", "joinCapture", "joinConnection"}
ConnPcs == {"none", "loop", "client", "connect", "check", "read",
            "close", "zero", "pause", "done"}
SendPcs == {"none", "frame", "testConnected", "testRegistered", "testSocket",
            "header", "body"}

TypeOK ==
    /\ ctl \in CtlPcs
    /\ restart \in BOOLEAN
    /\ connection_loop_running \in BOOLEAN
    /\ connected \in BOOLEAN
    /\ capture_running \in BOOLEAN
    /\ connPc \in ConnPcs
    /\ sendPc \in SendPcs
    /\ kind \in {"register", "image"}
    /\ sockfd \in {"0", "open", "closed"}
    /\ open_sockets \in {0, 1}
    /\ address \in {"none", "current", "freed"}
    /\ _connected \in BOOLEAN /\ _registered \in BOOLEAN
    /\ link \in {"down", "up"}
    /\ stream \in {"start", "register", "image", "broken"}
    /\ accepted \in BOOLEAN /\ reply \in BOOLEAN
    /\ history \subseteq {"earlyImage"}

Init ==
    /\ ctl = "stopped" /\ restart = FALSE /\ connection_loop_running = FALSE
    /\ connected = FALSE /\ capture_running = FALSE
    /\ connPc = "none" /\ sendPc = "none" /\ kind = "register"
    /\ sockfd = "0" /\ open_sockets = 0 /\ address = "none"
    /\ _connected = FALSE /\ _registered = FALSE
    /\ link = "down" /\ stream = "start" /\ accepted = FALSE /\ reply = FALSE
    /\ history = {}

--------------------------------------------------------------------------------
(* The service's thread.                                                   *)

\* The capture has been started; the connection thread may not come up, then the
\* capture has to be stopped again.
StartThreads ==
    /\ connection_loop_running' = TRUE /\ sendPc' = "frame"
    /\ \/ ctl' = "running" /\ connPc' = "loop"
       \/ ctl' = "failing" /\ connPc' = "none"

service_start ==
    /\ ctl = "stopped"
    /\ StartThreads
    /\ UNCHANGED <<restart, connected, capture_running, kind, address, socketVars,
                   serverVars, history>>

\* The start has failed: unicapture_stop has returned.
StartUndone ==
    /\ ctl = "failing" /\ sendPc = "frame"
    /\ ctl' = "stopped" /\ sendPc' = "none"
    /\ connection_loop_running' = FALSE /\ capture_running' = FALSE
    /\ UNCHANGED <<restart, connected, connPc, kind, address, socketVars, serverVars,
                   history>>

\* connection_loop_running = false, then unicapture_stop, then pthread_join.
Stopping(from) ==
    /\ ctl = from /\ ctl' = "joinCapture"
    /\ connection_loop_running' = FALSE
    /\ UNCHANGED <<connected, connPc, sendVars, address, socketVars, serverVars, history>>

service_stop == Stopping("running") /\ UNCHANGED restart

\* settings_load_json frees the address if the message has another.  A running capture
\* goes on while the settings are saved.
service_method_set_settings ==
    /\ \/ ctl = "stopped" /\ UNCHANGED ctl
       \/ ctl = "running" /\ LiveReload /\ ctl' = "saving"
    /\ address' \in {address, IF address = "current" THEN "freed" ELSE address}
    /\ UNCHANGED <<restart, connection_loop_running, connected, connPc, sendVars,
                   socketVars, serverVars, history>>

\* Only then is it stopped, to be started again.
service_destroy == Stopping("saving") /\ restart' = TRUE

CaptureJoined ==
    /\ ctl = "joinCapture" /\ sendPc = "frame"
    /\ sendPc' = "none" /\ capture_running' = FALSE
    /\ ctl' = "joinConnection"
    /\ UNCHANGED <<restart, connection_loop_running, connected, connPc, kind, address,
                   socketVars, serverVars, history>>

\* A plausible bug: the connection thread is not joined.
ConnectionNotJoined ==
    /\ ctl = "joinConnection"
    /\ restart' = FALSE /\ ctl' = "stopped"
    /\ UNCHANGED <<connection_loop_running, connPc, sendPc, connected, capture_running,
                   kind, address, socketVars, serverVars, history>>

ConnectionJoined ==
    /\ ctl = "joinConnection" /\ connPc = "done"
    /\ restart' = FALSE
    /\ IF restart
       THEN StartThreads    \* service_init, service_start
       ELSE /\ ctl' = "stopped" /\ connPc' = "none"
            /\ UNCHANGED <<connection_loop_running, sendPc>>
    /\ UNCHANGED <<connected, capture_running, kind, address, socketVars, serverVars,
                   history>>

--------------------------------------------------------------------------------
(* The connection thread.                                                  *)

ConnStep(here, next) ==
    /\ connPc = here /\ connPc' = next
    /\ UNCHANGED <<ctlVars, sendVars>>

\* Nothing is connected before a backend captures.
Loop ==
    /\ capture_running \/ ~connection_loop_running
    /\ ConnStep("loop", IF connection_loop_running THEN "client" ELSE "done")
    /\ UNCHANGED <<connected, address, socketVars, serverVars, history>>

\* A plausible bug: _registered outlives the connection.
ClientKeepsRegistered ==
    /\ ConnStep("client", "connect")
    /\ _connected' = FALSE
    /\ address' = "current"
    /\ sockfd' = "open" /\ open_sockets' = open_sockets + 1
    /\ UNCHANGED <<connected, _registered, serverVars, history>>

\* hyperion_client: reset the statics, take the address, create the socket.
hyperion_client ==
    /\ ConnStep("client", "connect")
    /\ _connected' = FALSE /\ _registered' = FALSE
    /\ address' = "current"
    /\ sockfd' = "open" /\ open_sockets' = open_sockets + 1
    /\ UNCHANGED <<connected, serverVars, history>>

\* The address is parsed, the server accepts: a new stream begins.
Connect ==
    /\ ConnStep("connect", "check")
    /\ address' = "none"
    /\ _connected' = TRUE /\ connected' = TRUE
    /\ link' = "up" /\ stream' = "start" /\ accepted' = FALSE /\ reply' = FALSE
    /\ UNCHANGED <<sockfd, open_sockets, _registered, history>>

\* A plausible bug: no hyperion_destroy after a refused connection.
ConnectFailsLeaks ==
    /\ ConnStep("connect", "pause")
    /\ address' = "none"
    /\ UNCHANGED <<connected, socketVars, serverVars, history>>

ConnectFails ==
    /\ ConnStep("connect", "close")
    /\ address' = "none"
    /\ UNCHANGED <<connected, socketVars, serverVars, history>>

\* Plausible bugs: the loop ends without saying so, or does not end.
CheckSilently ==
    /\ ConnStep("check", IF connection_loop_running THEN "read" ELSE "close")
    /\ UNCHANGED <<connected, address, socketVars, serverVars, history>>
CheckNothing ==
    /\ ConnStep("check", "read")
    /\ UNCHANGED <<connected, address, socketVars, serverVars, history>>

\* The inner loop goes on until it is stopped or a read fails.
Check ==
    /\ ConnStep("check", IF connection_loop_running THEN "read" ELSE "close")
    /\ connected' = connection_loop_running
    /\ UNCHANGED <<address, socketVars, serverVars, history>>

\* A plausible bug: the confirmation is read and not remembered.
ReadReplyForgets ==
    /\ reply
    /\ ConnStep("read", "check")
    /\ reply' = FALSE
    /\ UNCHANGED <<connected, address, socketVars, link, stream, accepted, history>>

\* hyperion_read and _parse_reply: our priority came back.
ReadReply ==
    /\ reply
    /\ ConnStep("read", "check")
    /\ _registered' = TRUE
    /\ reply' = FALSE
    /\ UNCHANGED <<connected, address, sockfd, open_sockets, _connected, link, stream,
                   accepted, history>>

\* Nothing for a second (SO_RCVTIMEO, -11), or a message that is no confirmation: an
\* error, a video mode, somebody else's priority.  The loop goes on in all cases.
ReadOther ==
    /\ link = "up"
    /\ ConnStep("read", "check")
    /\ UNCHANGED <<connected, address, socketVars, serverVars, history>>

\* A plausible bug: a lost connection ends the thread.
ReadFailsForGood ==
    /\ link = "up" \/ ~reply
    /\ ConnStep("read", "done")
    /\ connected' = FALSE
    /\ UNCHANGED <<address, socketVars, serverVars, history>>

\* End of file, an error, or a message too long for recvBuff ends the connection.
ReadFails ==
    /\ link = "up" \/ ~reply
    /\ ConnStep("read", "close")
    /\ connected' = FALSE
    /\ UNCHANGED <<address, socketVars, serverVars, history>>

\* hyperion_destroy: close, then forget the descriptor.
Close ==
    /\ ConnStep("close", "zero")
    /\ sockfd' = "closed" /\ open_sockets' = open_sockets - 1
    /\ link' = "down"
    /\ UNCHANGED <<connected, address, _connected, _registered, stream, accepted, reply,
                   history>>

Zero ==
    /\ ConnStep("zero", "pause")
    /\ sockfd' = "0"
    /\ UNCHANGED <<connected, address, open_sockets, _connected, _registered, serverVars,
                   history>>

\* A plausible bug: the next connection is made at once.
PauseNot ==
    /\ ConnStep("pause", "loop")
    /\ UNCHANGED <<connected, address, socketVars, serverVars, history>>

\* "Connection destroyed, waiting...": one second, unless it is to stop.
Pause ==
    /\ connection_loop_running /\ ~Overtake => sendPc \in {"none", "frame"}
    /\ ConnStep("pause", "loop")
    /\ UNCHANGED <<connected, address, socketVars, serverVars, history>>

--------------------------------------------------------------------------------
(* The capture thread, in the callback service_feed_frame.                 *)

CaptureChanges ==
    /\ ctl \notin {"stopped", "joinConnection"}
    /\ capture_running' = ~capture_running
    /\ UNCHANGED <<ctlVars, connected, connPc, sendPc, kind, address, socketVars,
                   serverVars, history>>

SendStep(here, next) ==
    /\ sendPc = here /\ sendPc' = next
    /\ UNCHANGED <<ctlVars, connected, connPc, capture_running, address, socketVars,
                   link>>

\* _send_message looks at the three statics one after the other.  At each of them a
\* frame may be dropped.  A frame may come even when the capture has just ended.
hyperion_set_image ==
    /\ sockfd # "0"
    /\ SendStep("frame", "testConnected")
    /\ UNCHANGED <<kind, stream, accepted, reply, history>>

TestConnected ==
    /\ SendStep("testConnected", IF _connected THEN "testRegistered" ELSE "frame")
    /\ UNCHANGED <<kind, stream, accepted, reply, history>>

\* A plausible bug: images are sent before the registration is confirmed.
TestRegisteredNot ==
    /\ SendStep("testRegistered", "header")
    /\ kind' \in {"image", "register"}
    /\ UNCHANGED <<stream, accepted, reply, history>>

\* Without a confirmed registration a registration is sent instead of the image.
TestRegistered ==
    /\ SendStep("testRegistered", IF _registered THEN "header" ELSE "testSocket")
    /\ kind' = IF _registered THEN "image" ELSE "register"
    /\ UNCHANGED <<stream, accepted, reply, history>>

hyperion_set_register ==
    /\ SendStep("testSocket", IF sockfd # "0" THEN "header" ELSE "frame")
    /\ UNCHANGED <<kind, stream, accepted, reply, history>>

\* What a write may do.  It reaches the server through whatever sockfd is by now.
Delivered == sockfd = "open" /\ _connected /\ link = "up"
WriteLost == ~Delivered \/ "fail" \in WriteFaults

\* The server gets a header where it expects one, and a whole body after it; it may
\* answer a registration with an error.
HeaderArrives == stream' = IF stream = "start" THEN kind ELSE "broken"
BodyArrives ==
    IF stream = kind
    THEN /\ stream' = "start"
         /\ \/ kind = "register" /\ accepted' = TRUE /\ reply' = TRUE
            \/ UNCHANGED <<accepted, reply>>
         /\ history' = history \cup
                        IF kind = "image" /\ ~accepted THEN {"earlyImage"} ELSE {}
    ELSE stream' = "broken" /\ UNCHANGED <<accepted, reply, history>>

\* An error of the first write does not keep the second from being tried.
WriteHeader ==
    /\ SendStep("header", "body")
    /\ \/ Delivered /\ HeaderArrives
       \/ WriteLost /\ UNCHANGED stream
    /\ UNCHANGED <<kind, accepted, reply, history>>

WriteBody ==
    /\ SendStep("body", "frame")
    /\ \/ Delivered /\ BodyArrives
       \/ WriteLost /\ UNCHANGED <<stream, accepted, reply, history>>
       \/ /\ "partial" \in WriteFaults /\ Delivered
          /\ stream' = "broken" /\ UNCHANGED <<accepted, reply, history>>
    /\ UNCHANGED kind

\* The server goes away; what it had sent can still be read.
ServerCloses ==
    /\ link = "up"
    /\ link' = "down"
    /\ UNCHANGED <<ctlVars, connected, connPc, sendVars, address, socketVars, stream,
                   accepted, reply, history>>

--------------------------------------------------------------------------------
ConnectionThread ==
    \/ Loop   \/ hyperion_client  \/ Connect  \/ ConnectFails
    \/ Check  \/ ReadReply        \/ ReadOther  \/ ReadFails
    \/ Close  \/ Zero             \/ Pause

Sender ==
    \/ hyperion_set_image     \/ TestConnected  \/ TestRegistered
    \/ hyperion_set_register  \/ WriteHeader    \/ WriteBody

Control ==
    \/ service_start \/ service_stop \/ service_method_set_settings

\* What the service's thread goes on with by itself.
Joins == StartUndone \/ service_destroy \/ CaptureJoined \/ ConnectionJoined

Next ==
    \/ Control \/ Joins \/ ConnectionThread \/ Sender \/ CaptureChanges \/ ServerCloses

Spec == Init /\ [][Next]_vars

\* Reads, writes and connects return (both timeouts of the socket are one second),
\* joins return; nobody has to stop, capture or answer.
FairSpec == Spec /\ WF_vars(ConnectionThread) /\ WF_vars(Sender) /\ WF_vars(Joins)

--------------------------------------------------------------------------------
(* Properties.                                                             *)

\* _registered speaks of the connection at hand: the server has confirmed this
\* very connection, not an earlier one (the reset in hyperion_client, 35-37, against
\* the reply parsed by the same thread).
RegisteredIsConfirmed ==
    _registered /\ connPc \in {"check", "read"} => accepted

\* The status method never reports a connection whose socket is gone, and no
\* socket is lost between two connections.
SocketAccounted ==
    /\ connected => sockfd = "open" /\ _connected
    /\ open_sockets = IF sockfd = "open" THEN 1 ELSE 0
    /\ ctl = "stopped" => open_sockets = 0

\* The server gets no image on a connection it has no registration for.
RegisterFirst == "earlyImage" \notin history

\* The server always finds the next request where it looks for it: headers and
\* bodies arrive whole, alternate and belong together.
StreamAligned == stream # "broken"

\* The connection thread keeps a pointer to the address while it connects, and a live
\* setSettings frees what it points to.  It cannot have it any longer when the capture
\* goes on with the new settings, or is stopped: the join lies in between
\* (service.c:216, 334, 355-358).
FreedAddressForgotten == ctl \in {"stopped", "running", "failing"} => address # "freed"

\* service_stop returns, and so does a start or a setSettings that has to stop: the
\* connection thread sees the flag within the timeout of its read and the capture
\* thread finishes its frame.
StopCompletes ==
    ctl \in {"saving", "failing", "joinCapture", "joinConnection"}
        ~> ctl \in {"stopped", "running"}

\* A lost or refused connection is tried again for as long as something captures.
Reconnects ==
    connection_loop_running /\ ~connected
        ~> connPc = "connect" \/ ~capture_running \/ ~connection_loop_running
================================================================================
