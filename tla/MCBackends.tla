------------------------------- MODULE MCBackends -------------------------------
(***************************************************************************)
(* Backends with the two lists of service_init and every single library    *)
(* that the settings may name.                                             *)
(***************************************************************************)
EXTENDS Backends

MCCandidates ==
    {<<"libgm", "libhalgal">>, <<"libvtcapture", "libdile_vt">>} \cup {<<l>> : l \in Libraries}
================================================================================
