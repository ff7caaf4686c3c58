-------------------------------- MODULE Process ---------------------------------
(***************************************************************************)
(* main.c: how the process comes up, what its command line and config file *)
(* make of the settings, and how a signal ends it.  A signal may come      *)
(* before every step of main; what it does depends on how far main is.     *)
(*                                                                         *)
(* g_main_loop_quit only clears a flag that g_main_loop_run sets first, so *)
(* a quit before the run is lost (GLib, outside this code).                *)
(***************************************************************************)
EXTENDS Naturals, Sequences, SequencesExt

CONSTANTS MaxOptions,   \* length of the command lines tried
          Faults        \* subset of {"register", "start"}: what may fail

\* Settings that an option and the config file may both set.
Keys == {"address", "fps"}

\* "wrong" is an unknown option, -h, or -l, which getopt_long is not told of.
Options == Keys \cup {"config", "version", "wrong"}

ASSUME ProcessAssumption ==
    /\ MaxOptions \in Nat
    /\ Faults \subseteq {"register", "start"}

VARIABLES
    pc,             \* next step of main
    using_cli,      \* LS_SERVICE_NAMES is not set
    line, next,     \* the options, and the first that is not parsed yet
    from,           \* where each setting comes from
    autostart,      \* settings.autostart
    print_version,
    handlers,       \* the three handlers are installed
    loop,           \* the GMainLoop
    registered,     \* on the Luna bus
    running,        \* service.running
    signalled       \* history: the step before which the last handled signal came

vars == <<pc, using_cli, line, next, from, autostart, print_version, handlers, loop,
          registered, running, signalled>>

Steps == {"settings", "options", "signals", "loop_new", "init", "register", "start",
          "run", "loop", "destroy", "exited", "killed"}
Ended == {"exited", "killed"}

TypeOK ==
    /\ pc \in Steps
    /\ using_cli \in BOOLEAN /\ autostart \in BOOLEAN /\ print_version \in BOOLEAN
    /\ line \in BoundedSeq(Options, MaxOptions) /\ next \in 1 .. Len(line) + 1
    /\ from \in [Keys -> {"default", "file", "argument"}]
    /\ handlers \in BOOLEAN /\ registered \in BOOLEAN /\ running \in BOOLEAN
    /\ loop \in {"none", "idle", "running"}
    /\ signalled \in Steps \cup {"never"}
    /\ pc \notin Ended =>
        (loop = "none" <=> pc \in {"settings", "options", "signals", "loop_new"})

Init ==
    /\ pc = "settings"
    /\ using_cli \in BOOLEAN
    /\ line \in BoundedSeq(Options, MaxOptions) /\ next = 1
    /\ from = [k \in Keys |-> "default"] /\ autostart = FALSE
    /\ print_version = FALSE /\ handlers = FALSE /\ loop = "none"
    /\ registered = FALSE /\ running = FALSE /\ signalled = "never"

settingsVars == <<from, autostart>>
serviceVars == <<handlers, loop, registered, running>>

MainStep(here, then) ==
    /\ pc = here /\ pc' = then
    /\ UNCHANGED <<using_cli, line, signalled>>

\* A file has some of the settings, or none if it cannot be read or parsed.
settings_load_file ==
    /\ \E named \in SUBSET Keys :
        from' = [k \in Keys |-> IF k \in named THEN "file" ELSE from[k]]
    /\ autostart' \in BOOLEAN

\* As a service, the settings kept by an earlier process come first.
LoadSettings ==
    /\ MainStep("settings", "options")
    /\ IF using_cli THEN UNCHANGED settingsVars ELSE settings_load_file
    /\ UNCHANGED <<next, print_version, serviceVars>>

\* A plausible bug: the config file has the last word.
OptionAfterFile ==
    /\ next <= Len(line)
    /\ MainStep("options", IF line[next] = "wrong" THEN "exited" ELSE "options")
    /\ next' = next + 1
    /\ CASE line[next] \in Keys    -> /\ from' = IF from[line[next]] = "file" THEN from
                                        ELSE [from EXCEPT ![line[next]] = "argument"]
                                      /\ UNCHANGED autostart
         [] line[next] = "config" -> settings_load_file
         [] OTHER                 -> UNCHANGED settingsVars
    /\ print_version' = (print_version \/ line[next] = "version")
    /\ UNCHANGED serviceVars

\* One option after the other, a config file where it is named.
parse_option ==
    /\ next <= Len(line)
    /\ MainStep("options", IF line[next] = "wrong" THEN "exited" ELSE "options")
    /\ next' = next + 1
    /\ CASE line[next] \in Keys    -> /\ from' = [from EXCEPT ![line[next]] = "argument"]
                                      /\ UNCHANGED autostart
         [] line[next] = "config" -> settings_load_file
         [] OTHER                 -> UNCHANGED settingsVars
    /\ print_version' = (print_version \/ line[next] = "version")
    /\ UNCHANGED serviceVars

OptionsDone ==
    /\ next > Len(line)
    /\ MainStep("options", IF print_version THEN "exited" ELSE "signals")
    /\ UNCHANGED <<next, settingsVars, print_version, serviceVars>>

otherVars == <<next, settingsVars, print_version>>

InstallHandlers ==
    /\ MainStep("signals", "loop_new")
    /\ handlers' = TRUE
    /\ UNCHANGED <<otherVars, loop, registered, running>>

NewLoop ==
    /\ MainStep("loop_new", "init")
    /\ loop' = "idle"
    /\ UNCHANGED <<otherVars, handlers, registered, running>>

\* service_init never fails.
service_init ==
    /\ MainStep("init", "register")
    /\ UNCHANGED <<otherVars, serviceVars>>

\* A failure is a warning.
service_register ==
    /\ MainStep("register", "start")
    /\ registered' \in {TRUE} \cup (IF "register" \in Faults THEN {FALSE} ELSE {})
    /\ UNCHANGED <<otherVars, handlers, loop, running>>

\* After a failure the loop is told to quit, which is lost.
Autostart ==
    /\ MainStep("start", "run")
    /\ IF using_cli \/ autostart
       THEN running' \in {TRUE} \cup (IF "start" \in Faults THEN {FALSE} ELSE {})
       ELSE UNCHANGED running
    /\ UNCHANGED <<otherVars, handlers, loop, registered>>

g_main_loop_run ==
    /\ MainStep("run", "loop")
    /\ loop' = "running"
    /\ UNCHANGED <<otherVars, handlers, registered, running>>

\* start and stop over the bus, and the subscriptions.
Handlers ==
    /\ registered
    /\ loop = "running" /\ MainStep("loop", "loop")
    /\ running' = ~running
    /\ UNCHANGED <<otherVars, handlers, loop, registered>>

LoopQuits ==
    /\ loop = "idle" /\ MainStep("loop", "destroy")
    /\ UNCHANGED <<otherVars, serviceVars>>

service_destroy ==
    /\ MainStep("destroy", "exited")
    /\ running' = FALSE
    /\ UNCHANGED <<otherVars, handlers, loop, registered>>

\* A plausible bug: the handler does not end the loop.
SignalOnlyLogged ==
    /\ pc \notin Ended
    /\ pc' = IF handlers THEN pc ELSE "killed"
    /\ signalled' = IF handlers THEN pc ELSE signalled
    /\ UNCHANGED <<using_cli, line, otherVars, serviceVars>>

\* A plausible bug: the handler takes it that there is a loop.
SignalWithoutLoop ==
    /\ pc \notin Ended
    /\ pc' = IF handlers THEN pc ELSE "killed"
    /\ signalled' = IF handlers THEN pc ELSE signalled
    /\ loop' = IF handlers THEN "idle" ELSE loop
    /\ UNCHANGED <<using_cli, line, otherVars, handlers, registered, running>>

\* SIGINT, SIGQUIT or SIGTERM: by default it kills, the handler quits the loop.
int_handler ==
    /\ pc \notin Ended
    /\ pc' = IF handlers THEN pc ELSE "killed"
    /\ signalled' = IF handlers THEN pc ELSE signalled
    /\ loop' = IF handlers /\ loop = "running" THEN "idle" ELSE loop
    /\ UNCHANGED <<using_cli, line, otherVars, handlers, registered, running>>

main ==
    \/ LoadSettings \/ parse_option  \/ OptionsDone      \/ InstallHandlers
    \/ NewLoop      \/ service_init  \/ service_register \/ Autostart
    \/ g_main_loop_run  \/ LoopQuits \/ service_destroy

Next == main \/ Handlers \/ int_handler

\* main goes on; nobody has to send a signal or a message.
Spec == Init /\ [][Next]_vars /\ WF_vars(main)

--------------------------------------------------------------------------------
(* Properties.                                                             *)

\* "Giving additional runtime arguments will overwrite loaded ones." (main.c:64): an
\* option after the last config file decides, whatever the files say.  (An option
\* before -c does not: the file is loaded where it is named.)
ArgumentsOverwrite ==
    pc \notin {"settings", "options"} \cup Ended =>
        \A k \in Keys :
            /\ (\E i \in DOMAIN line : line[i] = k
                    /\ \A j \in DOMAIN line : j > i => line[j] # "config")
                        => from[k] = "argument"
            /\ from[k] = "argument" => \E i \in DOMAIN line : line[i] = k

\* A signal that the main loop sees ends the process with the capture stopped, whatever
\* second signal or bus message gets in between (main.c:16-20, 206-216).
SignalEnds == signalled = "loop" ~> pc = "exited" /\ ~running
================================================================================
