-------------------------------- MODULE Backends --------------------------------
(***************************************************************************)
(* What the capture libraries libgm, libhalgal, libdile_vt and             *)
(* libvtcapture take from the system, in which order, and what they give   *)
(* back on each way out; unicapture_try_backends, which goes from one to   *)
(* the next.  The caller is unicapture.c as CaptureContract sees it, with  *)
(* the one liberty it takes: a start that failed is repeated.              *)
(*                                                                         *)
(* A step of capture_init or capture_start is a call that may fail and     *)
(* what it takes; a failure jumps to the label that gives things back.     *)
(***************************************************************************)
EXTENDS Naturals, FiniteSets, Sequences

CONSTANTS Candidates,  \* the sequences of libraries service_init may be told to try
          Flaws        \* which of the rarer things may happen, see below

Libraries == {"libgm", "libhalgal", "libdile_vt", "libvtcapture"}

\* "root": the process may lack root rights; "throw": vtCapture_create may throw.
FlawKinds == {"root", "throw"}

ASSUME BackendsAssumption ==
    /\ Candidates \subseteq Seq(Libraries)
    /\ Flaws \subseteq FlawKinds

VARIABLES
    trying,     \* candidates unicapture_try_backends has not tried yet
    library,    \* the library whose functions are in the table, or "none"
    phase,      \* as in CaptureContract
    frame,      \* the caller holds a frame
    held,       \* what the backend's state refers to
    lost        \* history: what was taken and can no longer be given back

vars == <<trying, library, phase, frame, held, lost>>

Step(call, takes) == [call |-> call, takes |-> takes]

\* calloc is not checked, so "state", "offsets" and "table" are always had.
capture_init_steps ==
    [libgm        |-> <<Step("calloc", {"state"}), Step("GM_CreateSurface", {"surface"})>>,
     libhalgal    |-> <<Step("calloc", {"state"}), Step("getuid", {}),
                        Step("HAL_GAL_Init", {}), Step("HAL_GAL_CreateSurface", {"surface"}),
                        Step("HAL_GAL_CaptureFrameBuffer", {}),
                        Step("open", {"fd"}), Step("mmap", {"map"})>>,
     libdile_vt   |-> <<Step("DILE_VT_Create", {"vth"}), Step("calloc", {"state"}),
                        Step("GetVideoFrameOutputDeviceLimitation", {}),
                        Step("SetVideoFrameOutputDevice", {}),
                        Step("GetVideoFrameBufferCapability", {}),
                        Step("calloc", {"offsets"}),
                        Step("GetAllVideoFrameBufferProperty", {}),
                        Step("open", {"fd"}), Step("calloc", {"table"}),
                        Step("mmap", {"map"}), Step("mmap", {"next_map"})>>,
     libvtcapture |-> <<Step("calloc", {"state"}), Step("vtCapture_create", {"driver"})>>]

capture_start_steps ==
    [libgm        |-> <<>>,
     libhalgal    |-> <<>>,
     libdile_vt   |-> <<Step("DILE_VT_Start", {"running"})>>,
     libvtcapture |-> <<Step("vtCapture_init", {"client"}),
                        Step("vtCapture_preprocess", {"buffers"}),
                        Step("vtCapture_planeInfo", {}),
                        Step("vtCapture_process", {"running"})>>]

\* What the claims on devices are, as opposed to memory and descriptors.
Devices == {"surface", "vth", "driver", "client", "buffers", "running"}

MayFail(call) == call # "calloc" /\ (call = "getuid" => "root" \in Flaws)

Failing(steps) == {i \in DOMAIN steps : MayFail(steps[i].call)}
TakenBefore(steps, i) == UNION {steps[j].takes : j \in 1 .. i - 1}
TakenBy(steps) == TakenBefore(steps, Len(steps) + 1)

\* A plausible bug: the surface is not destroyed when the framebuffer cannot be mapped.
InitLabelShort(l, call) ==
    CASE l = "libhalgal"    -> IF call = "getuid" THEN {}
                               ELSE {"state", IF call = "mmap" THEN "fd" ELSE "surface"}
      [] l = "libdile_vt"   -> IF call = "DILE_VT_Create" THEN {}
                               ELSE {"vth", "state"} \cup {fd \in {"fd"} : call = "mmap"}
      [] l = "libvtcapture" -> {"driver", "state"}
      [] l = "libgm"        -> {"state"}

\* What is given back when this call of capture_init fails.
InitLabel(l, call) ==
    CASE l = "libhalgal"    -> IF call = "getuid" THEN {}
                               ELSE {"surface", "state"} \cup {fd \in {"fd"} : call = "mmap"}
      [] l = "libdile_vt"   -> IF call = "DILE_VT_Create" THEN {}
                               ELSE {"vth", "state"} \cup {fd \in {"fd"} : call = "mmap"}
      [] l = "libvtcapture" -> {"driver", "state"}
      [] l = "libgm"        -> {"state"}

\* A plausible bug: err_preprocess and err_planeinfo exchanged.
StartLabelSwapped(call) ==
    CASE call = "vtCapture_process"    -> {"running", "buffers", "client"}
      [] call = "vtCapture_planeInfo"  -> {"client"}
      [] call = "vtCapture_preprocess" -> {"buffers", "client"}
      [] OTHER                         -> {}

\* What is given back when this call of capture_start fails.
StartLabel(call) ==
    CASE call = "vtCapture_process"    -> {"running", "buffers", "client"}
      [] call = "vtCapture_planeInfo"  -> {"buffers", "client"}
      [] call = "vtCapture_preprocess" -> {"client"}
      [] OTHER                         -> {}

TerminateGives ==
    [libgm |-> {}, libhalgal |-> {}, libdile_vt |-> {"running"},
     libvtcapture |-> {"running", "buffers", "client"}]

CleanupGives ==
    [libgm        |-> {"surface", "state"},
     libhalgal    |-> {"surface", "map", "fd", "state"},
     libdile_vt   |-> {"vth", "state"},
     libvtcapture |-> {"buffers", "client", "driver", "state"}]

Resources == UNION {TakenBy(capture_init_steps[l]) \cup TakenBy(capture_start_steps[l])
                        : l \in Libraries}

TypeOK ==
    /\ trying \in {<<>>} \cup UNION {{SubSeq(c, i, Len(c)) : i \in 1 .. Len(c) + 1}
                                        : c \in Candidates}
    /\ library \in Libraries \cup {"none"}
    /\ phase \in {"none", "ready", "failed", "started"}
    /\ frame \in BOOLEAN
    /\ held \subseteq Resources
    /\ lost \subseteq Libraries \X Resources
    /\ phase # "none" => library # "none"

Init ==
    /\ trying = <<>> /\ library = "none" /\ phase = "none"
    /\ frame = FALSE /\ held = {} /\ lost = {}

Lose(l, what) == lost' = lost \cup ({l} \X what)

--------------------------------------------------------------------------------
(* service_init and unicapture_try_backends.                               *)

\* A plausible bug: the backend in use is not cleaned up before.
InitOverOpenBackend ==
    /\ trying = <<>> /\ trying' \in Candidates
    /\ library' = "none"
    /\ UNCHANGED <<phase, frame, held, lost>>

\* The service was destroyed, or is new: it looks for a backend.
service_init ==
    /\ phase = "none" /\ trying = <<>>
    /\ trying' \in Candidates
    /\ library' = "none"
    /\ UNCHANGED <<phase, frame, held, lost>>

\* capture_init of l returns 0.
InitSucceeds(l) ==
    /\ \/ held' = TakenBy(capture_init_steps[l])
       \* The exception is caught, everything freed, and ret is still 0.
       \/ l = "libvtcapture" /\ "throw" \in Flaws /\ held' = {}
    /\ library' = l /\ phase' = "ready"
    /\ UNCHANGED <<frame, lost>>

\* A call of capture_init fails; what its label does not give back is lost.
InitFails(l) ==
    /\ \E i \in Failing(capture_init_steps[l]) :
        LET steps == capture_init_steps[l] IN
        Lose(l, TakenBefore(steps, i) \ InitLabel(l, steps[i].call))
    /\ UNCHANGED <<phase, frame, held>>

\* The next candidate, and no further one if it answers.
unicapture_try_backends ==
    /\ trying # <<>>
    /\ \/ InitSucceeds(Head(trying)) /\ trying' = <<>>
       \/ InitFails(Head(trying)) /\ trying' = Tail(trying) /\ UNCHANGED library

\* unicapture_run opens the backend again that it cleaned up at its last end.
Reinitialise ==
    /\ phase = "none" /\ trying = <<>> /\ library # "none"
    /\ InitSucceeds(library) \/ (InitFails(library) /\ UNCHANGED library)
    /\ UNCHANGED trying

--------------------------------------------------------------------------------
(* The session.                                                            *)

capture_start ==
    /\ phase \in {"ready", "failed"}
    /\ LET steps == capture_start_steps[library] IN
        \/ phase' = "started" /\ held' = held \cup TakenBy(steps)
        \/ /\ phase' = "failed"
           /\ \E i \in Failing(steps) :
                held' = (held \cup TakenBefore(steps, i)) \ StartLabel(steps[i].call)
    /\ UNCHANGED <<trying, library, frame, lost>>

capture_terminate ==
    /\ phase = "started" /\ ~frame
    /\ phase' = "ready"
    /\ held' = held \ TerminateGives[library]
    /\ UNCHANGED <<trying, library, frame, lost>>

\* A frame takes nothing that has to be given back.  (libdile_vt also freezes the output
\* for it, unless QUIRK_DILE_VT_NO_FREEZE_CAPTURE; no other function looks at that.)
capture_acquire_frame ==
    /\ phase = "started" /\ ~frame
    /\ frame' \in BOOLEAN
    /\ UNCHANGED <<trying, library, phase, held, lost>>

capture_release_frame ==
    /\ frame /\ frame' = FALSE
    /\ UNCHANGED <<trying, library, phase, held, lost>>

\* The state is freed: what is not given back before is lost.
capture_cleanup ==
    /\ phase \in {"ready", "failed"}
    /\ phase' = "none"
    /\ held' = {}
    /\ Lose(library, held \ CleanupGives[library])
    /\ UNCHANGED <<trying, library, frame>>

Next ==
    \/ service_init  \/ unicapture_try_backends \/ Reinitialise
    \/ capture_start \/ capture_terminate
    \/ capture_acquire_frame \/ capture_release_frame \/ capture_cleanup

Spec == Init /\ [][Next]_vars

--------------------------------------------------------------------------------
(* Properties.                                                             *)

\* A backend counted as open has everything capture_init takes, and inside a session
\* everything capture_start takes, no more: a start that failed at any of its calls
\* has undone the others, so that repeating it every second (unicapture.c:163-179)
\* finds the state that capture_init left (libvtcapture.cpp:198-209).
HoldsWhatItNeeds ==
    /\ phase \in {"ready", "failed"} => held = TakenBy(capture_init_steps[library])
    /\ phase = "started" => held = TakenBy(capture_init_steps[library])
                                    \cup TakenBy(capture_start_steps[library])

\* Whatever fails, and in whatever order libraries are tried, opened, started and
\* cleaned up, no claim on a capture device, which others need, outlives its owner.
DevicesGivenBack == \A l \in Libraries, d \in Devices : <<l, d>> \notin lost

\* "Otherwise, any allocated resources need to be freed by the backend itself."
\* (unicapture.h:36-39): a capture_init that fails leaves nothing behind.
FailedInitFreesAll == [][phase = "none" /\ phase' = "none" => lost' = lost]_vars
================================================================================
