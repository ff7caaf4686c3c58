------------------------------ MODULE ServiceProofs ------------------------------
(***************************************************************************)
(* The pauses of Service, for every set of Apps, every choice of Sources   *)
(* and whether or not a start may fail.                                    *)
(***************************************************************************)
EXTENDS Service, TLAPS

StartSucceeds == ~StartMayFail

--------------------------------------------------------------------------------
\* Every field holds a value of its C type in every reachable state.
THEOREM TypeCorrect == Spec => []TypeOK
<1> USE DEF TypeOK
<1>1. Init => TypeOK
  BY DEF Init
<1>2. TypeOK /\ [Next]_vars => TypeOK'
  <2> SUFFICES ASSUME TypeOK, [Next]_vars PROVE TypeOK'
    OBVIOUS
  <2> USE DEF service_start, StartFrom, service_stop, NoChange,
              Override, KeepOverride, Heard, HeardPower
  <2>1. CASE service_method_start
    BY <2>1 DEF service_method_start
  <2>2. CASE service_method_stop
    BY <2>2 DEF service_method_stop
  <2>3. CASE service_method_startorstop
    BY <2>3 DEF service_method_startorstop
  <2>4. CASE service_method_set_settings
    BY <2>4 DEF service_method_set_settings
  <2>5. ASSUME NEW target_state \in BOOLEAN, NEW processing \in BOOLEAN,
               power_callback(target_state, processing)
        PROVE  TypeOK'
    BY <2>5 DEF power_callback
  <2>6. ASSUME NEW connected \in BOOLEAN, NEW appid \in Apps \cup {NoApp},
               videooutput_callback(connected, appid)
        PROVE  TypeOK'
    BY <2>6 DEF videooutput_callback
  <2>7. ASSUME NEW bright \in BOOLEAN, sensor_callback(bright)
        PROVE  TypeOK'
    BY <2>7 DEF sensor_callback
  <2>8. CASE UNCHANGED vars
    BY <2>8 DEF vars
  <2> QED BY <2>1, <2>2, <2>3, <2>4, <2>5, <2>6, <2>7, <2>8 DEF Next
<1> QED BY <1>1, <1>2, PTL DEF Spec

\* A pause is never forgotten: PausesRemembered is inductive on its own, because
\* every handler that takes a mark back also starts the capture or says that
\* nobody has stopped it.
THEOREM PausesAreRemembered == Spec => []PausesRemembered
<1> USE DEF TypeOK, PausesRemembered
<1>1. Init => PausesRemembered
  BY DEF Init
<1>2. PausesRemembered /\ TypeOK /\ [Next]_vars => PausesRemembered'
  <2> SUFFICES ASSUME PausesRemembered, TypeOK, [Next]_vars PROVE PausesRemembered'
    OBVIOUS
  <2> USE DEF service_start, StartFrom, service_stop, NoChange,
              Override, KeepOverride, Heard, HeardPower
  <2>1. CASE service_method_start
    BY <2>1 DEF service_method_start
  <2>2. CASE service_method_stop
    BY <2>2 DEF service_method_stop
  <2>3. CASE service_method_startorstop
    BY <2>3 DEF service_method_startorstop
  <2>4. CASE service_method_set_settings
    BY <2>4 DEF service_method_set_settings
  <2>5. ASSUME NEW target_state \in BOOLEAN, NEW processing \in BOOLEAN,
               power_callback(target_state, processing)
        PROVE  PausesRemembered'
    BY <2>5 DEF power_callback
  <2>6. ASSUME NEW connected \in BOOLEAN, NEW appid \in Apps \cup {NoApp},
               videooutput_callback(connected, appid)
        PROVE  PausesRemembered'
    BY <2>6 DEF videooutput_callback
  <2>7. ASSUME NEW bright \in BOOLEAN, sensor_callback(bright)
        PROVE  PausesRemembered'
    BY <2>7 DEF sensor_callback
  <2>8. CASE UNCHANGED vars
    BY <2>8 DEF vars
  <2> QED BY <2>1, <2>2, <2>3, <2>4, <2>5, <2>6, <2>7, <2>8 DEF Next
<1> QED BY <1>1, <1>2, TypeCorrect, PTL DEF Spec

\* What a power event stopped comes back with the next report of an active TV, if
\* threads can be created: the guard of the resume cannot miss a remembered pause.
THEOREM PowerOnBringsBack == StartSucceeds => (Spec => PowerOnResumes)
<1> SUFFICES ASSUME StartSucceeds PROVE Spec => PowerOnResumes
  OBVIOUS
<1>1. PausesRemembered /\ [Next]_vars =>
        [ power_callback(TRUE, FALSE) /\ ~running /\ stopper = "power"
            /\ (video_connected \/ ui_capture) => running' ]_vars
  BY DEF StartSucceeds, PausesRemembered, power_callback, service_start, StartFrom
<1> QED BY <1>1, PausesAreRemembered, PTL DEF Spec, PowerOnResumes

\* Unless a start has overridden it, a mark means a stopped service, and the two
\* pauses exclude each other: each needs a running service to begin, and a start
\* that finds a mark counts as overriding it.
THEOREM PausesExcludeEachOther == Spec => []PauseMeansStopped
<1> USE DEF TypeOK, PauseMeansStopped
<1>1. Init => PauseMeansStopped
  BY DEF Init
<1>2. PauseMeansStopped /\ TypeOK /\ [Next]_vars => PauseMeansStopped'
  <2> SUFFICES ASSUME PauseMeansStopped, TypeOK, [Next]_vars PROVE PauseMeansStopped'
    OBVIOUS
  <2> USE DEF service_start, StartFrom, service_stop, NoChange,
              Override, KeepOverride, Heard, HeardPower
  <2>1. CASE service_method_start
    BY <2>1 DEF service_method_start
  <2>2. CASE service_method_stop
    BY <2>2 DEF service_method_stop
  <2>3. CASE service_method_startorstop
    BY <2>3 DEF service_method_startorstop
  <2>4. CASE service_method_set_settings
    BY <2>4 DEF service_method_set_settings
  <2>5. ASSUME NEW target_state \in BOOLEAN, NEW processing \in BOOLEAN,
               power_callback(target_state, processing)
        PROVE  PauseMeansStopped'
    BY <2>5 DEF power_callback
  <2>6. ASSUME NEW connected \in BOOLEAN, NEW appid \in Apps \cup {NoApp},
               videooutput_callback(connected, appid)
        PROVE  PauseMeansStopped'
    BY <2>6 DEF videooutput_callback
  <2>7. ASSUME NEW bright \in BOOLEAN, sensor_callback(bright)
        PROVE  PauseMeansStopped'
    BY <2>7 DEF sensor_callback
  <2>8. CASE UNCHANGED vars
    BY <2>8 DEF vars
  <2> QED BY <2>1, <2>2, <2>3, <2>4, <2>5, <2>6, <2>7, <2>8 DEF Next
<1> QED BY <1>1, <1>2, TypeCorrect, PTL DEF Spec

\* Every power-off report is heeded while no pause is overridden, whichever of the sources
\* send what: the guard that could ignore it asks for a mark on a running service.
THEOREM PowerOffIsHeeded == Spec => []PowerOffStops
<1>1. Init => PowerOffStops
  BY DEF Init, PowerOffStops
<1>2. PauseMeansStopped /\ TypeOK /\ PowerOffStops /\ [Next]_vars => PowerOffStops'
  <2> SUFFICES ASSUME PauseMeansStopped, TypeOK, PowerOffStops, [Next]_vars
               PROVE  PowerOffStops'
    OBVIOUS
  <2> USE DEF TypeOK, PowerOffStops, Heard
  <2>1. ASSUME NEW target_state \in BOOLEAN, NEW processing \in BOOLEAN,
               power_callback(target_state, processing)
        PROVE  PowerOffStops'
    <3>1. CASE processing \/ target_state
      BY <2>1, <3>1 DEF power_callback, HeardPower
    <3>2. CASE ~processing /\ ~target_state
      <4> SUFFICES ASSUME running' PROVE overridden'
        OBVIOUS
      <4>1. running /\ power_paused
        BY <2>1, <3>2 DEF power_callback, service_stop, NoChange
      <4>2. overridden /\ power_paused'
        BY <2>1, <3>2, <4>1 DEF power_callback, PauseMeansStopped
      <4> QED BY <2>1, <4>2 DEF power_callback, KeepOverride
    <3> QED BY <3>1, <3>2
  <2>2. CASE UNCHANGED vars
    BY <2>2 DEF vars
  <2>3. CASE heard' = "other"
    BY <2>3
  <2> QED BY <2>1, <2>2, <2>3 DEF Next, service_method_start, service_method_stop,
             service_method_startorstop, service_method_set_settings,
             videooutput_callback, sensor_callback
<1> QED BY <1>1, <1>2, PausesExcludeEachOther, TypeCorrect, PTL DEF Spec
================================================================================
