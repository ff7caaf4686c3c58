----------------------------- MODULE HdrAdjustments -----------------------------
(***************************************************************************)
(* hdr_callback of service.c, which videooutput_callback and               *)
(* picture_callback end in, and the JSON-RPC calls of json_rpc_client.c it *)
(* makes: HyperHDR is told whether the picture is HDR, Hyperion.NG gets    *)
(* the colour adjustments of the picture mode, instance by instance.  Each *)
(* call is one curl process that returns before the next one starts, so    *)
(* one thread does it all; between two calls the daemon may change.        *)
(*                                                                         *)
(* The daemon is outside this code.  As json_rpc_client.c uses it, an      *)
(* adjustment goes to the instance that switchTo selected last.            *)
(***************************************************************************)
EXTENDS Naturals

CONSTANTS Adjustments,  \* hdr_types for which the settings have an adjustment
          Instances,    \* how many instances the settings name
          Faults        \* "rpc": a daemon that is up may refuse a call
                        \* "outage": it may stop and start again
                        \* "replace": another daemon may take its place

Reports == {[hdr_type |-> "none",     hdr_enabled |-> FALSE],   \* videooutput_callback
            [hdr_type |-> "hdr10",    hdr_enabled |-> TRUE],
            [hdr_type |-> "sdr",      hdr_enabled |-> FALSE],   \* picture_callback
            [hdr_type |-> "hdr",      hdr_enabled |-> TRUE]}

Kinds == {"HYPERION_NG", "HYPERHDR", "other"}
Unknown == {"NOT_SET", "INVALID"}

ASSUME AdjustmentsAssumption ==
    /\ Adjustments \subseteq {"hdr", "hdr10", "sdr"}
    /\ Instances \in Nat
    /\ Faults \subseteq {"rpc", "outage", "replace"}

VARIABLES
    daemon_flavor,  \* the static of json_rpc_client.c, kept for the process's life
    pc,             \* next call of hdr_callback
    report,         \* its arguments
    instance,       \* the instance hyperion_set_adjustments is at
    failed,         \* ret # 0 in hyperion_set_adjustments
    answer,         \* its last result: none, ok or failed
    daemon, up,     \* what is behind the address, and whether it answers
    current,        \* Hyperion.NG: the selected instance, 0 for one not in the settings
    reached,        \* history: what this hdr_callback has given each instance
    misjudged,      \* history: calls sent to, or kept from, the wrong daemon
    disturbed,      \* history: since hdr_callback began a call failed or the daemon went
    replaced        \* history: another kind has taken the place of the daemon detected

clientVars == <<daemon_flavor, pc, report, instance, failed, answer>>
daemonVars == <<daemon, up, current>>
historyVars == <<reached, misjudged, disturbed, replaced>>
vars == <<clientVars, daemonVars, historyVars>>

All == 1 .. Instances
Nothing == [i \in All |-> "none"]

TypeOK ==
    /\ daemon_flavor \in {"HYPERION_NG", "HYPERHDR"} \cup Unknown
    /\ pc \in {"idle", "set_hdr_state", "lookup", "set_adjustments", "switch", "adjust"}
    /\ report \in Reports
    /\ instance \in 1 .. Instances + 1
    /\ failed \in BOOLEAN
    /\ answer \in {"none", "ok", "failed"}
    /\ daemon \in Kinds /\ up \in BOOLEAN
    /\ current \in 0 .. Instances
    /\ reached \in [All -> Adjustments \cup {"none"}]
    /\ misjudged \subseteq {"HDR", "adjustment"}
    /\ disturbed \in BOOLEAN /\ replaced \in BOOLEAN

Init ==
    /\ daemon_flavor = "NOT_SET" /\ pc = "idle" /\ report \in Reports
    /\ instance = 1 /\ failed = FALSE /\ answer = "none"
    /\ daemon \in Kinds /\ up \in BOOLEAN
    /\ current \in 0 .. Instances
    /\ reached = Nothing /\ misjudged = {}
    /\ disturbed = FALSE /\ replaced = FALSE

--------------------------------------------------------------------------------
\* send_rpc_message succeeds, or does not.
RpcSucceeds == up
RpcFails == ~up \/ "rpc" \in Faults

Goto(next) == pc' = next /\ UNCHANGED <<report, instance, failed, answer>>

\* A plausible bug: the general adjustment wins over the specific one.
ChosenGeneral ==
    IF report.hdr_enabled /\ "hdr" \in Adjustments THEN "hdr"
    ELSE IF report.hdr_type \in Adjustments THEN report.hdr_type ELSE "none"

\* The adjustment hdr_callback looks up: the one of this very type, else for HDR
\* the general one.
Chosen ==
    IF report.hdr_type \in Adjustments THEN report.hdr_type
    ELSE IF report.hdr_enabled /\ "hdr" \in Adjustments THEN "hdr" ELSE "none"

\* A picture mode is reported: hdr_callback starts.
hdr_callback ==
    /\ pc = "idle" /\ pc' = "set_hdr_state"
    /\ report' \in Reports
    /\ instance' = 1 /\ failed' = FALSE /\ answer' = "none"
    /\ reached' = Nothing /\ disturbed' = FALSE
    /\ UNCHANGED <<daemon_flavor, daemonVars, misjudged, replaced>>

\* A plausible bug: whatever answers and is not HyperHDR passes for Hyperion.NG.
DetectsGuess ==
    /\ daemon_flavor \in Unknown /\ RpcSucceeds
    /\ daemon_flavor' = IF daemon = "HYPERHDR" THEN daemon ELSE "HYPERION_NG"

\* get_daemon_flavor asks only as long as nothing is known.
Detects ==
    /\ daemon_flavor \in Unknown /\ RpcSucceeds /\ daemon # "other"
    /\ daemon_flavor' = daemon

DetectFails ==
    /\ daemon_flavor \in Unknown
    /\ \/ RpcFails /\ UNCHANGED daemon_flavor
       \/ RpcSucceeds /\ daemon = "other" /\ daemon_flavor' = "INVALID"

Detect ==
    /\ pc \in {"set_hdr_state", "set_adjustments"}
    /\ \/ Detects /\ Goto(pc)
       \/ DetectFails /\ pc = "set_hdr_state" /\ Goto("lookup")
       \/ /\ DetectFails /\ pc = "set_adjustments"
          /\ pc' = "idle" /\ answer' = "failed"
          /\ UNCHANGED <<report, instance, failed>>
    /\ UNCHANGED <<daemonVars, historyVars>>

Misjudged(what, wrong) ==
    /\ misjudged' = misjudged \cup IF wrong THEN {what} ELSE {}
    /\ UNCHANGED replaced

\* set_hdr_state of a daemon that is not HyperHDR: "Not submitting HDR state!"
SkipHdrState ==
    /\ pc = "set_hdr_state" /\ daemon_flavor = "HYPERION_NG"
    /\ Misjudged("HDR", daemon = "HYPERHDR")
    /\ Goto("lookup")
    /\ UNCHANGED <<daemon_flavor, daemonVars, reached, disturbed>>

set_hdr_state ==
    /\ pc = "set_hdr_state" /\ daemon_flavor = "HYPERHDR"
    /\ Misjudged("HDR", daemon # "HYPERHDR")
    /\ Goto("lookup")
    /\ UNCHANGED <<daemon_flavor, daemonVars, reached, disturbed>>

Lookup ==
    /\ pc = "lookup"
    /\ Goto(IF Chosen = "none" THEN "idle" ELSE "set_adjustments")
    /\ UNCHANGED <<daemon_flavor, daemonVars, historyVars>>

\* "Daemon is not Hyperion.NG -> Not submitting Hyperion adjustments!"
SkipAdjustments ==
    /\ pc = "set_adjustments" /\ daemon_flavor = "HYPERHDR"
    /\ Misjudged("adjustment", daemon = "HYPERION_NG")
    /\ pc' = "idle" /\ answer' = "failed"
    /\ UNCHANGED <<daemon_flavor, report, instance, failed, daemonVars, reached,
                   disturbed>>

\* A plausible bug: the loop goes one instance too far.
set_adjustments_too_far ==
    /\ pc = "set_adjustments" /\ daemon_flavor = "HYPERION_NG"
    /\ IF instance <= Instances + 1
       THEN pc' = "switch" /\ UNCHANGED answer
       ELSE pc' = "idle" /\ answer' = IF failed THEN "failed" ELSE "ok"
    /\ UNCHANGED <<daemon_flavor, report, instance, failed, daemonVars, historyVars>>

\* The loop over the instances of the settings, and its end.
hyperion_set_adjustments ==
    /\ pc = "set_adjustments" /\ daemon_flavor = "HYPERION_NG"
    /\ IF instance \in All
       THEN pc' = "switch" /\ UNCHANGED answer
       ELSE pc' = "idle" /\ answer' = IF failed THEN "failed" ELSE "ok"
    /\ UNCHANGED <<daemon_flavor, report, instance, failed, daemonVars, historyVars>>

\* Whether switchTo failed is forgotten with the next result.
SwitchTo ==
    /\ pc = "switch" /\ pc' = "adjust"
    /\ \/ RpcSucceeds /\ failed' = FALSE /\ current' = instance /\ UNCHANGED disturbed
       \/ RpcFails /\ failed' = TRUE /\ disturbed' = TRUE /\ UNCHANGED current
    /\ UNCHANGED <<daemon_flavor, report, instance, answer, daemon, up, reached,
                   misjudged, replaced>>

SendAdjustment ==
    /\ pc = "adjust" /\ pc' = "set_adjustments"
    /\ instance' = instance + 1
    /\ Misjudged("adjustment", daemon # "HYPERION_NG")
    /\ \/ /\ RpcSucceeds /\ failed' = FALSE
          /\ reached' = [i \in All |-> IF i = current THEN Chosen ELSE reached[i]]
          /\ UNCHANGED disturbed
       \/ RpcFails /\ failed' = TRUE /\ disturbed' = TRUE /\ UNCHANGED reached
    /\ UNCHANGED <<daemon_flavor, report, answer, daemonVars>>

--------------------------------------------------------------------------------
(* The daemon.                                                             *)

\* A daemon that has just come up has any instance selected.
Fresh ==
    /\ current' \in 0 .. Instances
    /\ UNCHANGED <<clientVars, reached, misjudged>>

Stops ==
    /\ "outage" \in Faults /\ up /\ up' = FALSE
    /\ disturbed' = TRUE /\ UNCHANGED <<daemon, replaced>> /\ Fresh
Starts ==
    /\ "outage" \in Faults /\ ~up /\ up' = TRUE
    /\ UNCHANGED <<daemon, disturbed, replaced>> /\ Fresh
Replaced ==
    /\ "replace" \in Faults
    /\ daemon' \in Kinds
    /\ replaced' = (replaced \/ (daemon' # daemon /\ daemon_flavor \notin Unknown))
    /\ disturbed' = TRUE /\ UNCHANGED up /\ Fresh

Next ==
    \/ hdr_callback \/ Detect
    \/ SkipHdrState \/ set_hdr_state \/ Lookup
    \/ SkipAdjustments \/ hyperion_set_adjustments \/ SwitchTo \/ SendAdjustment
    \/ Stops \/ Starts \/ Replaced

Spec == Init /\ [][Next]_vars

--------------------------------------------------------------------------------
(* Properties.                                                             *)

\* "Daemon is not HyperHDR -> Not submitting HDR state!" (json_rpc_client.c:277):
\* the HDR state goes to HyperHDR, adjustments go to Hyperion.NG, and nothing is
\* withheld from the daemon it is meant for, whatever was refused, stopped or exchanged
\* before, until another kind takes the place of the daemon that was detected.
RightDaemon == ~replaced => misjudged = {}

\* "hdr_callback: hyperion_set_adjustments success" (service.c:472): if no call of
\* this callback failed and the daemon was not restarted or exchanged since, every
\* instance of the settings has been given, by this very callback, the adjustment
\* for this type of picture, or the general one for an HDR type that has none.
SuccessReachesAll ==
    answer = "ok" /\ ~disturbed => \A i \in All :
        IF report.hdr_type \in Adjustments
        THEN reached[i] = report.hdr_type
        ELSE reached[i] = "hdr" /\ report.hdr_enabled
================================================================================
