---------------------------- MODULE CaptureContract ----------------------------
(***************************************************************************)
(* What a capture backend may rely on, whoever drives it: the comments     *)
(* above the function types of unicapture.h (lines 36-56), which the       *)
(* backends under src/backends implement and unicapture.c has to honour.   *)
(*                                                                         *)
(*   none    no session data: before capture_init, after capture_cleanup   *)
(*   ready   initialised, not capturing                                    *)
(*   failed  capture_start failed: "the backend needs to be reinitialized" *)
(*   started capturing; capture_terminate needs to be executed             *)
(*                                                                         *)
(* A frame is acquired and released inside one capture session.            *)
(***************************************************************************)
VARIABLES phase,    \* where the backend is in its life cycle
          frame     \* TRUE while the caller holds a captured frame

contractVars == <<phase, frame>>

ContractInit == phase \in {"none", "ready"} /\ frame = FALSE

\* init returned 0, or failed and freed everything itself (36-39).
capture_init ==
    /\ phase = "none" /\ frame = FALSE
    /\ phase' \in {"none", "ready"}
    /\ UNCHANGED frame

\* start, with either result; a failed backend is not started again (41-43).
capture_start ==
    /\ phase = "ready" /\ frame = FALSE
    /\ phase' \in {"failed", "started"}
    /\ UNCHANGED frame

capture_terminate ==
    /\ phase = "started" /\ frame = FALSE
    /\ phase' = "ready"
    /\ UNCHANGED frame

capture_acquire_frame ==
    /\ phase = "started" /\ frame = FALSE
    /\ frame' = TRUE
    /\ UNCHANGED phase

capture_release_frame ==
    /\ phase = "started" /\ frame = TRUE
    /\ frame' = FALSE
    /\ UNCHANGED phase

capture_cleanup ==
    /\ phase \in {"ready", "failed"} /\ frame = FALSE
    /\ phase' = "none"
    /\ UNCHANGED frame

\* The owner throws the backend away and opens another one in its place
\* (service_destroy, then service_init): any phase without a session, to any other.
Replace ==
    /\ phase \in {"none", "ready"} /\ frame = FALSE
    /\ phase' \in {"none", "ready"}
    /\ UNCHANGED frame

ContractNext ==
    \/ capture_init  \/ capture_start         \/ capture_terminate
    \/ capture_acquire_frame  \/ capture_release_frame
    \/ capture_cleanup        \/ Replace

\* unicapture_run tries a failed start again, on the same session data (163-179 of
\* unicapture.c): more than the comments allow, and what the backends have to bear.
StartAgain ==
    /\ phase = "failed" /\ frame = FALSE
    /\ phase' \in {"failed", "started"}
    /\ UNCHANGED frame

LenientSpec == ContractInit /\ [][ContractNext \/ StartAgain]_contractVars

ContractSpec == ContractInit /\ [][ContractNext]_contractVars
================================================================================
