-------------------------- MODULE HdrAdjustmentsProofs --------------------------
(***************************************************************************)
(* Theorems about HdrAdjustments, for any number of instances, any         *)
(* adjustments and all faults.                                             *)
(***************************************************************************)
EXTENDS HdrAdjustments, TLAPS

\* Where the loop over the instances is.
LoopInv == pc \in {"switch", "adjust"} =>
    instance \in All /\ daemon_flavor = "HYPERION_NG"

TypeInv == TypeOK /\ LoopInv

LEMMA TypeInvHolds == Spec => []TypeInv
<1>0. Chosen \in Adjustments \cup {"none"}
  BY DEF Chosen
<1>a. /\ 1 \in 1 .. Instances + 1
      /\ All \subseteq 0 .. Instances
      /\ \A i \in All : i + 1 \in 1 .. Instances + 1
  BY AdjustmentsAssumption DEF All
<1>b. Nothing \in [All -> Adjustments \cup {"none"}]
  BY DEF Nothing
<1>1. Init => TypeInv
  BY <1>a, <1>b DEF Init, TypeInv, TypeOK, LoopInv, Kinds, Unknown
<1>2. TypeInv /\ [Next]_vars => TypeInv'
  <2> SUFFICES ASSUME TypeInv, [Next]_vars PROVE TypeInv'
    OBVIOUS
  <2> USE DEF TypeInv, TypeOK, LoopInv, historyVars, clientVars, daemonVars, Goto,
              Misjudged, Kinds, Unknown
  <2>1. CASE hdr_callback
    BY <2>1, <1>a, <1>b DEF hdr_callback
  <2>2. CASE Detect
    BY <2>2 DEF Detect, Detects, DetectFails
  <2>3. CASE SkipHdrState
    BY <2>3 DEF SkipHdrState
  <2>4. CASE set_hdr_state
    BY <2>4 DEF set_hdr_state
  <2>5. CASE Lookup
    BY <2>5 DEF Lookup
  <2>6. CASE SkipAdjustments
    BY <2>6 DEF SkipAdjustments
  <2>7. CASE hyperion_set_adjustments
    BY <2>7 DEF hyperion_set_adjustments
  <2>8. CASE SwitchTo
    BY <2>8, <1>a DEF SwitchTo
  <2>9. CASE SendAdjustment
    BY <2>9, <1>0, <1>a DEF SendAdjustment
  <2>10. CASE Stops
    BY <2>10 DEF Stops, Fresh
  <2>11. CASE Starts
    BY <2>11 DEF Starts, Fresh
  <2>12. CASE Replaced
    BY <2>12 DEF Replaced, Fresh
  <2>13. CASE UNCHANGED vars
    BY <2>13 DEF vars
  <2> QED BY <2>1, <2>2, <2>3, <2>4, <2>5, <2>6, <2>7, <2>8, <2>9, <2>10, <2>11, <2>12,
             <2>13 DEF Next
<1> QED BY <1>1, <1>2, PTL DEF Spec

\* Every variable keeps its type, for any number of instances.
THEOREM TypeCorrect == Spec => []TypeOK
BY TypeInvHolds, PTL DEF TypeInv

--------------------------------------------------------------------------------
\* What was detected is what is there, until it is replaced.
FlavorInv == ~replaced =>
    misjudged = {} /\ (daemon_flavor \in {"HYPERION_NG", "HYPERHDR"} => daemon_flavor = daemon)

\* HDR states go to HyperHDR only, adjustments to Hyperion.NG only, and neither is
\* withheld from the one it is for, as long as no daemon of another kind comes.
THEOREM DaemonIsRight == Spec => []RightDaemon
<1>1. Init => FlavorInv
  BY DEF Init, FlavorInv
<1>2. FlavorInv /\ TypeInv /\ [Next]_vars => FlavorInv'
  <2> SUFFICES ASSUME FlavorInv, TypeInv, [Next]_vars PROVE FlavorInv'
    OBVIOUS
  <2> USE DEF FlavorInv, TypeInv, LoopInv, historyVars, clientVars, daemonVars, Goto,
              Misjudged
  <2>1. CASE hdr_callback
    BY <2>1 DEF hdr_callback
  <2>2. CASE Detect
    BY <2>2 DEF Detect, Detects, DetectFails, Unknown
  <2>3. CASE SkipHdrState
    BY <2>3 DEF SkipHdrState
  <2>4. CASE set_hdr_state
    BY <2>4 DEF set_hdr_state
  <2>5. CASE SkipAdjustments
    BY <2>5 DEF SkipAdjustments
  <2>6. CASE SendAdjustment
    BY <2>6 DEF SendAdjustment
  <2>7. CASE Lookup \/ hyperion_set_adjustments \/ SwitchTo
    BY <2>7 DEF Lookup, hyperion_set_adjustments, SwitchTo
  <2>8. CASE Stops \/ Starts
    BY <2>8 DEF Stops, Starts, Fresh
  <2>9. CASE Replaced
    BY <2>9 DEF Replaced, Fresh, Unknown
  <2>10. CASE UNCHANGED vars
    BY <2>10 DEF vars
  <2> QED BY <2>1, <2>2, <2>3, <2>4, <2>5, <2>6, <2>7, <2>8, <2>9, <2>10 DEF Next
<1> QED BY <1>1, <1>2, TypeInvHolds, PTL DEF Spec, FlavorInv, RightDaemon

--------------------------------------------------------------------------------
\* The instances the loop has passed have been reached, and the next adjustment
\* goes to the one switched to, as long as nothing disturbs the callback.
ReachedInv == ~disturbed =>
    /\ pc \in {"lookup", "set_hdr_state"} => instance = 1 /\ answer = "none"
    /\ pc \in {"set_adjustments", "switch", "adjust"} =>
        /\ Chosen # "none" /\ answer = "none"
        /\ \A i \in All : i < instance => reached[i] = Chosen
    /\ pc = "adjust" => up /\ current = instance

SuccessIInv == SuccessReachesAll /\ ReachedInv

\* A success of hdr_callback has reached every instance, however many there are.
THEOREM SuccessIsComplete == Spec => []SuccessReachesAll
<1> USE AdjustmentsAssumption DEF SuccessIInv, SuccessReachesAll, ReachedInv
<1>1. Init => SuccessIInv
  BY DEF Init
<1>2. SuccessIInv /\ TypeInv /\ [Next]_vars => SuccessIInv'
  <2> SUFFICES ASSUME SuccessIInv, TypeInv, [Next]_vars PROVE SuccessIInv'
    OBVIOUS
  <2> USE DEF TypeInv, LoopInv, historyVars, clientVars, daemonVars, Goto, Misjudged
  <2>1. CASE hdr_callback
    BY <2>1 DEF hdr_callback
  <2>2. CASE Detect
    BY <2>2 DEF Detect, Detects, DetectFails, Chosen
  <2>3. CASE SkipHdrState \/ set_hdr_state
    BY <2>3 DEF SkipHdrState, set_hdr_state, Chosen
  <2>4. CASE Lookup
    BY <2>4 DEF Lookup, Chosen, All
  <2>5. CASE SkipAdjustments
    BY <2>5 DEF SkipAdjustments, Chosen
  <2>6. CASE hyperion_set_adjustments
    <3>1. CASE instance \in All
      BY <2>6, <3>1 DEF hyperion_set_adjustments, Chosen
    <3>2. CASE instance \notin All
      <4>1. \A i \in All : i < instance
        BY <3>2 DEF TypeOK, All
      <4>2. ~disturbed => \A i \in All : reached[i] = Chosen
        BY <2>6, <4>1 DEF hyperion_set_adjustments
      <4> QED BY <2>6, <3>2, <4>2 DEF hyperion_set_adjustments, Chosen
    <3> QED BY <3>1, <3>2
  <2>7. CASE SwitchTo
    BY <2>7 DEF SwitchTo, RpcSucceeds, Chosen
  <2>8. CASE SendAdjustment
    <3>1. disturbed' \/ (~disturbed /\ RpcSucceeds
                /\ reached' = [i \in All |-> IF i = current THEN Chosen ELSE reached[i]])
      BY <2>8 DEF SendAdjustment, RpcSucceeds, RpcFails, TypeOK
    <3>2. Chosen' = Chosen
      BY <2>8 DEF SendAdjustment, Chosen
    <3>3. ~disturbed' => \A i \in All : i < instance' => reached'[i] = Chosen'
      BY <2>8, <3>1, <3>2 DEF SendAdjustment, TypeOK, All
    <3> QED BY <2>8, <3>1, <3>2, <3>3 DEF SendAdjustment
  <2>9. CASE Stops
    BY <2>9 DEF Stops
  <2>10. CASE Starts
    BY <2>10 DEF Starts, Fresh, Chosen
  <2>11. CASE Replaced
    BY <2>11 DEF Replaced, Fresh, Chosen
  <2>12. CASE UNCHANGED vars
    BY <2>12 DEF vars, Chosen
  <2> QED BY <2>1, <2>2, <2>3, <2>4, <2>5, <2>6, <2>7, <2>8, <2>9, <2>10, <2>11, <2>12
          DEF Next
<1> QED BY <1>1, <1>2, TypeInvHolds, PTL DEF Spec
================================================================================
