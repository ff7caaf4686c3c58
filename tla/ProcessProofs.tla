----------------------------- MODULE ProcessProofs ------------------------------
(***************************************************************************)
(* What holds of Process for command lines of any length and all faults.   *)
(***************************************************************************)
EXTENDS Process, TLAPS

--------------------------------------------------------------------------------
(* Type correctness.                                                       *)

\* The command line is a sequence of options.
LEMMA LineIsSequence ==
    ASSUME NEW l \in BoundedSeq(Options, MaxOptions)
    PROVE  /\ Len(l) \in Nat /\ DOMAIN l = 1 .. Len(l)
           /\ \A i \in DOMAIN l : l[i] \in Options
<1>1. PICK n \in 0 .. MaxOptions : l \in [1 .. n -> Options]
  BY DEF BoundedSeq, SeqOf
<1>2. l \in Seq(Options)
  BY <1>1, ProcessAssumption
<1> QED BY <1>2

\* Every value of every variable is one that main can have, wherever signals come.
THEOREM TypeCorrect == Spec => []TypeOK
<1>1. Init => TypeOK
  <2> SUFFICES ASSUME Init PROVE TypeOK
    OBVIOUS
  <2>1. next \in 1 .. Len(line) + 1
    BY LineIsSequence DEF Init
  <2> QED BY <2>1 DEF Init, TypeOK, Steps, Ended
<1>2. TypeOK /\ [Next]_vars => TypeOK'
  <2> SUFFICES ASSUME TypeOK, [Next]_vars PROVE TypeOK'
    OBVIOUS
  <2> USE DEF TypeOK, Steps, Ended, MainStep
  <2>1. ASSUME settings_load_file
        PROVE  /\ from' \in [Keys -> {"default", "file", "argument"}]
               /\ autostart' \in BOOLEAN
    BY <2>1 DEF settings_load_file
  <2>2. CASE LoadSettings
    BY <2>1, <2>2 DEF LoadSettings, settingsVars, serviceVars
  <2>3. CASE parse_option
    <3>1. next' \in 1 .. Len(line') + 1
      BY <2>3, LineIsSequence DEF parse_option
    <3>2. /\ from' \in [Keys -> {"default", "file", "argument"}]
          /\ autostart' \in BOOLEAN
      BY <2>1, <2>3 DEF parse_option, settingsVars
    <3> QED BY <2>3, <3>1, <3>2 DEF parse_option, serviceVars
  <2>4. CASE OptionsDone
    BY <2>4 DEF OptionsDone, settingsVars, serviceVars
  <2> USE DEF otherVars, settingsVars, serviceVars
  <2>5. CASE InstallHandlers
    BY <2>5 DEF InstallHandlers
  <2>6. CASE NewLoop
    BY <2>6 DEF NewLoop
  <2>7. CASE service_init
    BY <2>7 DEF service_init
  <2>8. CASE service_register
    BY <2>8 DEF service_register
  <2>9. CASE Autostart
    BY <2>9 DEF Autostart
  <2>10. CASE g_main_loop_run
    BY <2>10 DEF g_main_loop_run
  <2>11. CASE Handlers
    BY <2>11 DEF Handlers
  <2>12. CASE LoopQuits
    BY <2>12 DEF LoopQuits
  <2>13. CASE service_destroy
    BY <2>13 DEF service_destroy
  <2>14. CASE int_handler
    BY <2>14 DEF int_handler
  <2>15. CASE UNCHANGED vars
    BY <2>15 DEF vars
  <2> QED
    BY <2>2, <2>3, <2>4, <2>5, <2>6, <2>7, <2>8, <2>9, <2>10, <2>11, <2>12, <2>13,
       <2>14, <2>15 DEF Next, main
<1> QED BY <1>1, <1>2, PTL DEF Spec

--------------------------------------------------------------------------------
(* Command line and config file.                                           *)

\* An option for k that no config file follows, among the first n.
DecidedBy(k, n) ==
    \E i \in 1 .. n : line[i] = k /\ \A j \in i + 1 .. n : line[j] # "config"

\* ArgumentsOverwrite, of the options that are parsed; the rest of main leaves the
\* settings alone.
ParseInv ==
    /\ pc = "settings" => next = 1
    /\ pc \notin {"settings", "options"} \cup Ended => next = Len(line) + 1
    /\ \A k \in Keys :
        /\ DecidedBy(k, next - 1) => from[k] = "argument"
        /\ from[k] = "argument" => \E i \in 1 .. next - 1 : line[i] = k

\* Parsing one more option keeps the invariant.
LEMMA ParseOption ==
    ASSUME TypeOK, TypeOK', ParseInv, parse_option
    PROVE  ParseInv'
<1>1. /\ next \in Nat /\ next >= 1 /\ next' = next + 1 /\ line' = line
      /\ Len(line) \in Nat /\ DOMAIN line = 1 .. Len(line)
      /\ next <= Len(line) /\ line[next] \in Options
      /\ pc' \in {"options"} \cup Ended
  BY LineIsSequence DEF TypeOK, parse_option, MainStep, Ended
<1> SUFFICES ASSUME NEW k \in Keys
             PROVE  /\ DecidedBy(k, next) => from'[k] = "argument"
                    /\ from'[k] = "argument" => \E i \in 1 .. next : line[i] = k
  BY <1>1 DEF ParseInv, DecidedBy, Ended
<1>2. k # "config" /\ k # "wrong" /\ k # "version"
  BY DEF Keys
<1>3. CASE line[next] = k
  <2>1. from'[k] = "argument"
    BY <1>1, <1>2, <1>3 DEF parse_option, TypeOK
  <2>2. next \in 1 .. next
    BY <1>1
  <2> QED BY <1>3, <2>1, <2>2
<1>4. CASE line[next] # k /\ line[next] # "config"
  <2>1. from'[k] = from[k]
    BY <1>1, <1>4 DEF parse_option, TypeOK, settingsVars
  <2>2. DecidedBy(k, next) => DecidedBy(k, next - 1)
    BY <1>1, <1>4 DEF DecidedBy
  <2>3. (\E i \in 1 .. next - 1 : line[i] = k) => \E i \in 1 .. next : line[i] = k
    BY <1>1
  <2> QED BY <2>1, <2>2, <2>3 DEF ParseInv
<1>5. CASE line[next] = "config"
  <2>1. ~DecidedBy(k, next)
    BY <1>1, <1>2, <1>5 DEF DecidedBy
  <2>2. from'[k] \in {"file", from[k]}
    BY <1>1, <1>5 DEF parse_option, settings_load_file, Keys
  <2>3. (\E i \in 1 .. next - 1 : line[i] = k) => \E i \in 1 .. next : line[i] = k
    BY <1>1
  <2> QED BY <2>1, <2>2, <2>3 DEF ParseInv
<1> QED BY <1>3, <1>4, <1>5

LEMMA ParseInductive == Spec => []ParseInv
<1>1. Init => ParseInv
  <2> SUFFICES ASSUME Init, NEW k \in Keys
               PROVE  ~DecidedBy(k, next - 1) /\ from[k] # "argument"
    BY DEF Init, ParseInv, Ended
  <2> QED BY DEF Init, DecidedBy
<1>2. TypeOK /\ TypeOK' /\ ParseInv /\ [Next]_vars => ParseInv'
  <2> SUFFICES ASSUME TypeOK, TypeOK', ParseInv, [Next]_vars PROVE ParseInv'
    OBVIOUS
  <2>1. CASE LoadSettings
    <3>1. next = 1 /\ next' = 1 /\ pc' = "options" /\ line' = line
      BY <2>1 DEF LoadSettings, MainStep, ParseInv
    <3>2. ASSUME NEW k \in Keys PROVE from'[k] # "argument"
      BY <2>1, <3>1 DEF LoadSettings, ParseInv, settingsVars, settings_load_file
    <3> QED BY <3>1, <3>2 DEF ParseInv, DecidedBy, Ended
  <2>2. CASE parse_option
    BY <2>2, ParseOption
  <2>3. CASE OptionsDone
    <3>1. next' = Len(line) + 1
      BY <2>3, LineIsSequence DEF OptionsDone, TypeOK
    <3> QED BY <2>3, <3>1 DEF OptionsDone, MainStep, settingsVars, ParseInv, DecidedBy, Ended
  <2>4. ASSUME UNCHANGED <<line, next, from>>,
               \/ pc' \in {pc} \cup Ended
               \/ /\ pc \notin {"settings", "options"} \cup Ended
                  /\ pc' # "settings"
        PROVE  ParseInv'
    BY <2>4 DEF ParseInv, DecidedBy, Ended
  <2> USE DEF MainStep, otherVars, settingsVars, Ended
  <2>5. CASE InstallHandlers
    BY <2>4, <2>5 DEF InstallHandlers
  <2>6. CASE NewLoop
    BY <2>4, <2>6 DEF NewLoop
  <2>7. CASE service_init
    BY <2>4, <2>7 DEF service_init
  <2>8. CASE service_register
    BY <2>4, <2>8 DEF service_register
  <2>9. CASE Autostart
    BY <2>4, <2>9 DEF Autostart
  <2>10. CASE g_main_loop_run
    BY <2>4, <2>10 DEF g_main_loop_run
  <2>11. CASE Handlers
    BY <2>4, <2>11 DEF Handlers
  <2>12. CASE LoopQuits
    BY <2>4, <2>12 DEF LoopQuits
  <2>13. CASE service_destroy
    BY <2>4, <2>13 DEF service_destroy
  <2>14. CASE int_handler
    BY <2>4, <2>14 DEF int_handler
  <2>15. CASE UNCHANGED vars
    BY <2>4, <2>15 DEF vars
  <2> QED
    BY <2>1, <2>2, <2>3, <2>5, <2>6, <2>7, <2>8, <2>9, <2>10, <2>11, <2>12, <2>13,
       <2>14, <2>15 DEF Next, main
<1> QED BY <1>1, <1>2, TypeCorrect, PTL DEF Spec

\* For every command line, however long, and every content of the config files: an
\* option after the last config file decides.
THEOREM ArgumentsDecide == Spec => []ArgumentsOverwrite
<1>1. TypeOK /\ ParseInv => ArgumentsOverwrite
  <2> SUFFICES ASSUME TypeOK, ParseInv, pc \notin {"settings", "options"} \cup Ended,
                      NEW k \in Keys
               PROVE  /\ (\E i \in DOMAIN line : line[i] = k
                            /\ \A j \in DOMAIN line : j > i => line[j] # "config")
                                => from[k] = "argument"
                      /\ from[k] = "argument" => \E i \in DOMAIN line : line[i] = k
    BY DEF ArgumentsOverwrite
  <2>1. Len(line) \in Nat /\ DOMAIN line = 1 .. Len(line) /\ next - 1 = Len(line)
    BY LineIsSequence DEF TypeOK, ParseInv
  <2> QED BY <2>1 DEF ParseInv, DecidedBy
<1> QED BY <1>1, TypeCorrect, ParseInductive, PTL

--------------------------------------------------------------------------------
(* Signals and the end of the process.                                     *)

\* Capture runs only once main has got to its autostart, and not after it has ended;
\* the handlers are there from "loop_new" on.
EndInv ==
    /\ pc \in {"loop_new", "init", "register", "start", "run", "loop", "destroy"} => handlers
    /\ pc \in {"settings", "options", "signals", "loop_new", "init", "register", "start",
               "exited"} => ~running
    /\ signalled = "loop" =>
        \/ pc = "loop" /\ loop = "idle"
        \/ pc \in {"destroy", "exited"}

LEMMA EndInductive == Spec => []EndInv
<1>1. Init => EndInv
  BY DEF Init, EndInv
<1>2. TypeOK /\ EndInv /\ [Next]_vars => EndInv'
  <2> SUFFICES ASSUME TypeOK, EndInv, [Next]_vars PROVE EndInv'
    OBVIOUS
  <2> USE DEF EndInv, MainStep, otherVars, serviceVars, Ended
  <2>1. CASE LoadSettings
    BY <2>1 DEF LoadSettings
  <2>2. CASE parse_option
    BY <2>2 DEF parse_option
  <2>3. CASE OptionsDone
    BY <2>3 DEF OptionsDone
  <2>4. CASE InstallHandlers
    BY <2>4 DEF InstallHandlers
  <2>5. CASE NewLoop
    BY <2>5 DEF NewLoop
  <2>6. CASE service_init
    BY <2>6 DEF service_init
  <2>7. CASE service_register
    BY <2>7 DEF service_register
  <2>8. CASE Autostart
    BY <2>8 DEF Autostart
  <2>9. CASE g_main_loop_run
    BY <2>9 DEF g_main_loop_run
  <2>10. CASE Handlers
    BY <2>10 DEF Handlers
  <2>11. CASE LoopQuits
    BY <2>11 DEF LoopQuits
  <2>12. CASE service_destroy
    BY <2>12 DEF service_destroy
  <2>13. CASE int_handler
    BY <2>13 DEF int_handler, TypeOK
  <2>14. CASE UNCHANGED vars
    BY <2>14 DEF vars
  <2> QED
    BY <2>1, <2>2, <2>3, <2>4, <2>5, <2>6, <2>7, <2>8, <2>9, <2>10, <2>11, <2>12,
       <2>13, <2>14 DEF Next, main
<1> QED BY <1>1, <1>2, TypeCorrect, PTL DEF Spec

\* The safe half of SignalEnds: once the main loop has seen a signal, nothing, be it a
\* second signal or a message on the bus, makes the loop go on; and a process that ends
\* by itself leaves no capture running (main.c:16-20, 206-216).
THEOREM SignalIsHeeded ==
    Spec => [](/\ signalled = "loop" => /\ pc \in {"loop", "destroy", "exited"}
                                        /\ ~(pc = "loop" /\ loop = "running")
               /\ pc = "exited" => ~running)
<1>1. EndInv => /\ signalled = "loop" => /\ pc \in {"loop", "destroy", "exited"}
                                         /\ ~(pc = "loop" /\ loop = "running")
                /\ pc = "exited" => ~running
  BY DEF EndInv
<1> QED BY <1>1, EndInductive, PTL

================================================================================
