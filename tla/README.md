# Formal models of hyperion-webos (PicCap service)

hyperion-webos captures the screen and the video plane of an LG webOS TV and sends the
picture to a Hyperion.NG or HyperHDR server, which drives ambient lights. The native
service is a few threads of C around plain shared fields; this directory holds TLA+
models of them, TLC configurations that check the models on small instances, and TLAPS
proofs of the properties that matter most for every value of the constants.

Source paths below are relative to the repository; line numbers are those of the commit
the models were written against. `PROJECT.json` maps every definition to its lines.

## 1. Inventory

### Parts of the system

| part | source | state it keeps | operations |
|---|---|---|---|
| capture threads | `src/unicapture.c`, `.h` | `running`, `vsync_thread_running`, `ui_capture_running`, `video_capture_running`, `initialized` of each backend, the frames of one iteration, the retry times | `unicapture_init`, `_init_backend`, `_start`, `_stop`, the threads `unicapture_run` and `unicapture_vsync_handler` |
| service decisions | `src/service.c`, `toast.c` | `running`, `power_paused`, `lumen_paused`, `video_connected`, the settings | Luna methods `start`, `stop`, `startorstop`, `status`, `getSettings`, `setSettings`; callbacks of the power, video output, picture and sensor subscriptions |
| connection to Hyperion | `src/hyperion_client.c`, `connection_loop` and `service_feed_frame` of `service.c` | statics `sockfd`, `_connected`, `_registered`; `connected`, `connection_loop_running`; the pointer to the address | `hyperion_client`, `_read`, `_destroy`, `_set_image`, `_set_register` |
| settings | `src/settings.c` | `settings_t` and the arrays it owns, `config.json`, the autostart symlink | `settings_init`, `_load_json`, `_save_json`, `_load_file`, `_save_file` |
| HDR adjustments | `src/json_rpc_client.c`, `hdr_callback` | static `daemon_flavor`; the daemon's selected instance | `get_daemon_flavor`, `set_hdr_state`, `hyperion_set_adjustments` |
| backends | `src/backends/*` | devices, memory and descriptors of a capture session; `libvtcapture.cpp`: `buff`, `curr_buff`, `terminate`, written by two threads | the functions of `capture_backend_t` |
| pixel conversion | `src/converter.c`, part of `unicapture_run` | the LUT | ARGB/NV12 to RGB, blending, tone mapping |
| start and end of the process | `src/main.c` | options, GLib main loop | parse options, load settings, run, clean up |
| logging, utilities, test program | `src/log.c`, `utils.c`, `unicapture-test.c` | none that others read | |
| flatbuffers | `flatccrt`, `fbs` | none | generated and vendored |

### How they interact

* The **GLib main loop** is one thread. Every Luna method and every answer to a
  subscription runs on it, one after the other, to the end. `service_start` creates the
  other threads, `service_stop` joins them: a handler blocks until they are gone.
* The **capture main thread** (`unicapture_run`) opens and starts the backends, waits for
  the next frame, acquires, converts and blends, and calls `service_feed_frame`, which
  writes to the socket. It creates the **vsync thread**, which waits for the backend's
  vsync or sleeps, and signals a condition variable. Both threads stop the video session
  when a backend answers -99. The flags they share are plain `bool`s.
* The **connection thread** (`connection_loop`) connects, reads replies, closes, waits a
  second and connects again. It shares three statics with the capture thread's writes,
  without a lock, and the address with `setSettings`.
* `hdr_callback` runs on the main loop and starts one `curl` process per JSON-RPC call,
  which it waits for.
* Every subscription may start or stop the capture, and so may the two methods.
  `power_paused` and `lumen_paused` are what they leave for each other.

### What is hard

* *Concurrency*: two threads ending one session; a session that ends under a frame or
  under a wait; a wake-up that is lost; a socket that is closed, forgotten and reopened
  while a frame is written.
* *Ordering*: the pauses and resumes of four independent sources in any order; stop while
  the vsync thread sits in a backend; setSettings during a capture.
* *Failure*: init, start, acquire and wait of a backend; connect, read, write (in part);
  a save that fails; one of several RPC calls; a daemon that goes away.
* *Crash*: the TV is switched off at any time, in particular inside setSettings.
* *Timeouts and retries*: start retried every second, connect every second, socket
  timeouts of a second, frames dropped until the registration is confirmed.

### What makes each part correct

* capture threads: calls to a backend are paired and in order, a wait lives inside one
  session, a stop ends and leaves nothing open, a capture that ended is started again.
* service: a pause is remembered until it is over and only then, power-on resumes what
  power-off stopped, power-off stops.
* connection: the server always finds a request where it looks for one, the registration
  first, on this connection; no socket leaks; a stop ends; a lost connection is retried.
* backends: a wait ends and ends for a new frame, each way out of init and start gives
  back what was taken, no device stays claimed.
* process: arguments win over files, a signal ends it with the capture stopped.
* pixels and messages: no access outside a buffer, the header tells the length.
* settings: what was acknowledged survives a restart, the boot link says what the
  settings say.
* HDR: each daemon gets what is meant for it; a reported success is one.

`PROJECT.json` lists the individual hazards with their lines under `hazards`.

## 2. Modules

| module | models | source |
|---|---|---|
| `CaptureContract` | what a backend may rely on: the abstract specification | `unicapture.h` 36-56 |
| `Unicapture`, `UnicaptureProofs` | the capture main thread, the vsync thread, start and stop, `service_init`/`service_destroy` as they reopen the backends | `unicapture.c` 86-463 |
| `VtCapture`, `VtCaptureProofs` | `Unicapture` with `libvtcapture.cpp` as its video backend: the polling wait, the struct both threads write | `libvtcapture.cpp` |
| `Backends`, `MCBackends`, `BackendsProofs` | what the four built libraries take and give back, call by call, and the choice among them; TLC's lists of candidates | `backends/lib{gm,halgal,dile_vt}.c`, `libvtcapture.cpp`, `unicapture.c` 22-84 |
| `Service`, `MCService`, `ServiceProofs` | the decisions of the Luna handlers; two interchangeable apps for TLC | `service.c` 180-828 |
| `HyperionClient` | `hyperion_client.c`, `connection_loop`, the writes of the capture thread, the stream at the server | `hyperion_client.c`, `service.c` 27-81 |
| `Lights`, `LightsProofs` | `Unicapture` and `HyperionClient` composed by `service_feed_frame`, `service_start` and `service_stop` | `service.c`, `unicapture.c` |
| `Settings`, `SettingsProofs` | loading, saving, arrays, `config.json`, boot link, crash and restart | `settings.c`, `service.c` 317-362, `main.c` |
| `HdrAdjustments`, `HdrAdjustmentsProofs` | `hdr_callback` and the JSON-RPC calls | `json_rpc_client.c`, `service.c` 433-679 |
| `Process`, `ProcessProofs` | command line, config files, signals, the main loop | `main.c` |
| `Pixels` | arithmetic of LUT, buffers and length header | `unicapture.c`, `converter.c`, `hyperion_client.c` |

    Unicapture ---- implements ----> CaptureContract <---- implements ---- Backends
      ^    ^
      |    +--- EXTENDS --- VtCapture
      |
      +-- INSTANCE -- Lights -- EXTENDS, implements --> HyperionClient

`CaptureContract` is met from both sides: the capture threads call as it says, and
`Backends`, whose caller is no more than that, shows what the libraries make of it. It
comes in two strengths, `ContractSpec` (the comments of `unicapture.h`) and `LenientSpec`,
in which a failed start may also be repeated, as `unicapture_run` does. `Service`,
`Settings`, `HdrAdjustments` and `Process` stand alone. The proofs about `HyperionClient`
open `LightsProofs`, those about `Pixels` are where the sizes and the header are used.

### Unicapture

One variable per shared field, plus the program counters `mainPc`, `vsyncPc` and `ctl` of
the three threads. A step is what happens between two reads or writes of shared state or
calls into a backend; the `-99` path is two steps, `TerminateVideo` and `ClearVideo`,
because the flag is cleared only after the call returned, and so are `TestVideo` and
`AcquireVideo`, because the vsync thread may clear it in between. `Present` is the set of
backends the TV has a library for. `phase[b]` is the backend's own
view of its session, moved only by calls; `misuse` collects the calls made in a phase in
which `unicapture.h` does not allow them. Such a call moves no session: in particular a
cleanup of a backend that still captures does not end the session (the cleanup of
libvtcapture makes no `vtCapture_stop`), so `NothingLeftOpen` takes a terminate before it.
What a misused start answers is left open. `pthread_cond_wait` has no predicate: `CondWait`
blocks, `VsyncSignal` wakes if the main thread is blocked and is lost otherwise, and
`SpuriousWake` is always possible. Pixels, sizes and timing are left out; `coolingDown`
says whether less than a second has passed since the last start attempt, and `Elapse`
lets the second pass.

`Seen("video")` maps this state to `CaptureContract`: `VideoContract` says that the video
backend, the one that two threads drive, sees a caller that keeps to it, frames included.
`SessionContract` is the same for the calls that open and close a session (`PairingSeen`):
with vsync, the default, a wait may end the session under a frame, and only the sessions
stay in order.

### VtCapture

Extends `Unicapture`: every step that calls the video backend takes the backend's step
with it, the others leave its struct alone. `buff` and `curr_buff` are the two addresses
of the struct (`start_addr0` of the buffer description and the copy it is compared with),
`null` after `calloc`; `terminate` is the flag for a wait under way; `waitPc` and
`attempts` are the polling loop of `capture_wait`, a poll of the driver and the comparison
being two steps. `self->curr_buff = self->buff.start_addr0` in `capture_acquire_frame` is
split into `AcquireLoad` and the store, because the vsync thread writes both fields
without a lock. The driver is outside the code: it shows a buffer (`shown`), goes on to
another (`NewFrame`) or does not, and answers with errors of `DriverErrors`, of which 2,
12, 13 and 17 are told apart by the code. `news` is history: the buffer for which the last
wait of the session returned 0. Nothing is known of an acquire on a session that the vsync
thread ended after the flag was tested: it may hand out a frame or not.

### Backends

`capture_init` and `capture_start` of a library are tables, `capture_init_steps` and
`capture_start_steps`: the calls in the order of the code, with what each takes.
`InitLabel` and `StartLabel` are the `goto` labels: what is given back when that call
fails. `held` is what the state of the backend refers to; `lost` collects what was taken
when the last reference to it went away. `Flaws` switches on what is rarer: a process
without root rights (`getuid` in libhalgal), an exception in `vtCapture_create`. The caller
is `unicapture.c`, with the liberty it takes of repeating a failed start. That libdile_vt
freezes the output between acquire and release, unless `QUIRK_DILE_VT_NO_FREEZE_CAPTURE`,
is left out: no other function looks at it.

### Service

Each handler is one step, as it is on the main loop. `service_start` and `service_stop`
are what they leave behind (`running`); their threads are the other modules. `stopper`,
`overridden` and `heard` are history: who made the last stop that stopped something,
whether a start by method or by video report came during a pause, and whether the message
just handled settled that the TV is on or off. Handlers do not read them. `setSettings` destroys and reopens the service and
restarts it only if `service_destroy` found it running. A sensor message without a value
compares an uninitialised variable; the model takes either outcome. A video report without
an app (`NoApp`) is handled as long as no list has to be searched for it: there the code
hands NULL to `strcmp`, and the process is gone.

### HyperionClient

Three threads again: `ctl` (the service's thread), `connPc` and `sendPc`. The statics are
read one by one where the code reads them: `hyperion_set_image`, `TestConnected`,
`TestRegistered` and `hyperion_set_register` are the four looks of `_send_message` before
the first write. A start whose connection thread cannot be created undoes itself
(`failing`). A read may bring the confirmation, any other message (an error, a video mode,
another priority, nothing within the timeout: `ReadOther`), or end the connection, by a
message that is too long even while the server is there; a registration may be refused.
`socket()` is taken to succeed. `stream` is where the server is in the byte
stream: at the start of a request, after a header of a kind, or `broken` once it reads a
body as a header or the reverse. `address` is the pointer the connection thread holds
while it connects, which setSettings may free: on a running service it does so at once and
stops the threads only after the settings are saved (`saving`). `CaptureChanges` stands for the frame loop
of `Unicapture`, which decides whether anything captures.

### Lights

Five threads: those of `Unicapture` (the instance `UC`, with its constants) and those of
`HyperionClient`. `capture_running` of the latter is
computed from the flags of the former, so that `CaptureChanges` is replaced by the real
loop, and a frame is fed between its acquisition and its release: `fed` says that the
callback has returned. `Start` and `Stop` are both halves at once, as they are in
`service_start` and `service_stop`; the capture is joined before the connection.
If the connection thread does not come up, `StartFails` and `Undo` stop the capture again.
`ClientSpec` is the specification of `HyperionClient` on the same variables: the
composition has to implement it, or what is shown about the client alone says nothing of
the program.

### Settings

A message names some of the keys; `address` and `autostart` stand for the fields that
keep their value when not named, `included_apps` for both app lists, `adjustments` for
the array that is freed and counted. A message may leave out any of them. `ptr` follows
each array pointer through NULL, allocated, and freed but kept, which is what a message
that leaves an array out does: the next load frees it again, which the C library may
notice (`FreesTwice`), and the count of `adjustments` is kept, so that freed entries are
listed and saved (`ReadsFreed`); what they read as is anything. `fopen("wb")` empties the file and the writes come later,
so `Truncate` and `Write` are two steps, and nobody looks at whether the writes succeed
(`WriteFails`). `Crash` is possible before any step named in
`CrashPoints`; `Boot` is the next start of the process. `promised` is history: the
settings a restart may come back with. `mishaps` is history too: the file is not what it
was to become (a save that could not open or write it, a crash inside the rewrite), or a call on
the link failed in this request.

### HdrAdjustments

One step per JSON-RPC call, in the order of the code, for the four reports the two
subscriptions can make. `daemon_flavor` is the static of `json_rpc_client.c`; `daemon`,
`up` and `current` are outside it. `reached` is history: what this call of `hdr_callback`
gave to each instance; so are `disturbed` (a call of this round failed, or the daemon
stopped in it, or was exchanged) and `replaced` (a daemon of another kind has taken the
place of the one that had been detected). An exchange may come between any two calls.

### Process

`main` is a sequence of steps and `int_handler` may come before each of them: it kills
before the handlers are installed, is lost before the loop runs, and quits it afterwards.
A command line is a sequence of options, taken in the order in which `getopt_long` hands
them out; a config file is loaded where it is named. `from` says for each of two settings
where its value comes from, two being enough to tell an option apart from its neighbour.
`g_main_loop_quit` and `g_main_loop_run` are GLib's: run sets the flag that quit clears.
The locks that `g_main_loop_quit` and the log take inside the signal handler, and which
the interrupted thread may hold, are not modelled.

### Pixels

Pure operators on integers: sizes and the largest index that is touched. There is no state
to explore, and bounded inputs would show less than the theorems do; the module has no run.
Its theorems are in `UnicaptureProofs` (frames) and `LightsProofs` (header).

## 3. What is checked

Twelve runs. Mutants in `PROJECT.json` name, for each property of each passing run, a
plausible bug of the code that TLC then finds; the bugs are the definitions commented "A
plausible bug" next to the ones they replace. Deadlock is checked in all runs but
`pr_main`, where the process ends.

| run | instance | properties | shows |
|---|---|---|---|
| `uc_restarts` | `Unicapture`, both backends, vsync, starts fail, both threads may be asked for a restart | `TypeOK` `StopIsFinal` `StopCompletes` | whatever session the two threads end under each other, a stop returns, and the threads, their flags and frames are gone |
| `vt_wait` | `VtCapture`, the video backend, every error but 13, a driver that may stand still | `VtTypeOK` `PairedCalls` `NothingLeftOpen` `WaitOfOpenSession` `CaptureResumes` `FramesFlow` `WaitEnds` | every wait ends, calls stay paired, a stop leaves no session behind, nobody ends a session under a wait, frames keep coming, the capture comes back |
| `lights` | `Lights`, the video backend, vsync, a wait that ends sessions, whole writes that are over before the next connect | `StreamAligned` `RegisterFirst` `ClientSpec` `SessionContract` `LightsFollow` | with the real capture the server stays aligned, the client's assumptions hold, the sessions of the backend stay in order, images keep arriving |
| `hc_faults` | `HyperionClient`, failing, partial and late writes, settings changed while running | `TypeOK` `RegisteredIsConfirmed` `SocketAccounted` `FreedAddressForgotten` `StopCompletes` `Reconnects` | the state of the connection stays consistent, a freed address does not outlive the stop, stops end, connects are retried |
| `sv_all` | `Service`, all sources | `TypeOK` `PausesRemembered` `PauseMeansStopped` `PowerOffStops` `PowerOnResumes` | what a pause stopped stays marked, power-on brings it back, pauses that nobody overrode exclude each other and no power-off is ignored |
| `st_restart` | `Settings`, any key left out, a crash before any step, saves and links may fail | `TypeOK` `SettingsSurvive` `AcknowledgedLink` | acknowledged settings come back, every answered request has put the boot link right, also after messages that free arrays and keep them |
| `hd_daemon` | `HdrAdjustments`, three instances; a daemon refuses, stops, starts, is exchanged between any two calls | `TypeOK` `RightDaemon` `SuccessReachesAll` | nothing goes to, or is kept from, the wrong kind of daemon until the detected one is exchanged; a success of a round without failures reached every instance |
| `be_libraries` | `Backends`, both lists and every single library | `TypeOK` `HoldsWhatItNeeds` `DevicesGivenBack` | an open backend has what it needs, a failed start is undone, no device stays claimed |
| `pr_main` | `Process`, up to three options | `TypeOK` `ArgumentsOverwrite` `SignalEnds` | later arguments win, a signal that the loop sees ends the process |
| `uc_failed_start` | `Unicapture`, `start` may fail | `FailedStartReinitialised` | violation: see section 6 |
| `sv_stale_pause` | `Service`, all sources | `PowerOffPauses` | violation: see section 6 |
| `vt_stale_wait` | `VtCapture`, no driver errors | `WaitsForChange` | violation: see section 6 |

### Bounds, and why they are enough

Every run covers the whole state space of its instance.

* `Unicapture`: two backends, as in the code. The pieces that differ between runs are
  `Vsync`, a setting, `Faults`, which calls may fail, and `Present`, the backends there
  are: both in `uc_restarts`, the video backend, which two threads drive, in the larger
  models. The user interface's capture has a flag that only the main thread writes; that it
  resumes and is closed like the other is proved for both (`DueStartsSucceed`,
  `StopLeavesNothingOpen`). No other bound.
* `VtCapture`: `Buffers` has two members, since the code only compares two addresses for
  equality; a third would make more states, not more outcomes. `MaxAttempts = 3` for the
  10000 of the code: a first poll, one in between and a last one. The proofs hold for any
  number of either. `Quirk = TRUE` gives error 17 both of its outcomes.
* `Backends`: the two lists `service_init` passes and each library alone, which the
  settings may name. Each call of the tables fails in turn.
* `Process`: `MaxOptions = 3` gives an option before, between and after two config files,
  and a setting given twice; longer lines repeat these.
* `Service`: two apps. The lists are read for one app at a time and distinguish only
  whether it is on a list; two apps give a list that has this app, the other, both or
  none. Apps are interchangeable (symmetry), nothing compares them.
* `HyperionClient`: one registration and one image at a time are in flight by the code's
  structure (one writer); no bound. A second socket cannot be opened, which `TypeOK` says.
* `Lights`: the constants of both parts. The wait ends sessions (`wait99`), as the limit of
  polls in libvtcapture makes it do, so that frames may outlive their session; `acquire99`
  besides it would be the two detectors of section 6. `WriteFaults`, `Overtake` and `LiveReload` are off, because with them the stream breaks
  (section 6), and `hc_faults` shows what holds even then.
* `Settings`: two addresses (the default and another) and one name for what arrays hold;
  a value matters only by whether it equals what was saved or promised. With one name a
  list is empty or not, which is what loading distinguishes.
* `HdrAdjustments`: adjustments for HDR in general, for HDR10 and for SDR
  (a specific, a general and none for what is reported), three instances: a
  first, a middle and a last one; the loop treats them alike.

### Fairness

* `Unicapture!Fairness` and `VtSpec`: weak fairness of each thread (the scheduler runs
  what can run, and a backend call returns), of the join, and of the clock (`Elapse`).
  None for start, stop or reconfiguration, none for `SpuriousWake`: a wake-up that only a
  spurious return would provide does not count. That a `capture_wait` returns is taken for
  granted in `Unicapture` and shown in `VtCapture` (`WaitEnds`), where the driver is not
  fair: it need not show a new buffer ever again.
* `HyperionClient!FairSpec`: weak fairness of the connection thread, the writer and the
  joins; `SO_RCVTIMEO` and `SO_SNDTIMEO` of a second (`hyperion_client.c`) make reads and
  writes return. Neither the user nor the server has to do anything.
* `LightsSpec`: the fairness of its two parts. `LightsFollow` assumes a connection that
  lasts, frames that keep being acquired, and a server that confirms a registration it is
  asked for again and again without burying the answer under other messages
  (`ServerConfirms`), since none of these is in the program's hands.
* `Process!Spec`: weak fairness of `main`; nobody has to send a signal.
* `Service`, `Settings`, `HdrAdjustments` and `Backends` state no liveness and assume no
  fairness: their messages come from outside, or never.

## 4. What is proved

`tlapm` checks every proof below for all values of the constants allowed by the named
assumptions of the modules.

Every invariant that a run checks is also a theorem, and so are the action properties and
step simulations among the properties (`SessionContract`, `ClientSpec`, `PowerOnResumes`,
`AcknowledgedLink`). What is left to TLC is liveness; its safe half is proved.

### UnicaptureProofs

| theorem | assumptions |
|---|---|
| `TypeCorrect`: `Spec => []TypeOK` | none |
| `StopEndsThreads`: `[]StopIsFinal` | none |
| `ThreadsAdvance`: `[]NobodyIsStuck` and `[][Advances]_vars` | none |
| `CallsArePaired`: `[]PairedCalls` | `OneDetector` (not both `wait` with vsync and `acquire_frame` ask for restarts) and `InitSucceeds` |
| `StopLeavesNothingOpen`: `[]NothingLeftOpen` | `OneDetector` and `InitSucceeds` |
| `FramesStayInSession`: `[]FramesOfOpenSession` | `WaitNeverStops` and `InitSucceeds` |
| `WaitsAreInSession`: `[]WaitOfOpenSession` | `AcquireNeverStops` and `InitSucceeds` |
| `SessionsKeepContract`: `LenientSpec` for the sessions of both backends, `SessionContract` among them | `OneDetector`, `InitSucceeds` |
| `CallersKeepContract`: `LenientSpec` for both backends, frames included | `WaitNeverStops`, `InitSucceeds` |
| `DueStartsSucceed`: `[][Resumes]_vars` | `OneDetector`, `InitSucceeds`, `StartSucceeds` |
| `ContractKept`: `Spec => VideoContract` | `WaitNeverStops`, `AcquireNeverStops`, `InitSucceeds`, `StartSucceeds` |

`PairedCalls` alone is not inductive: whether a terminate is allowed depends on whether
`video_capture_running` tells the truth about the backend. `SessionIInv` adds where each
thread can be (`ThreadInv`: the vsync thread lives exactly between boot and terminate),
who may be inside the -99 path and with which flags (`StopInv`), and that the flags agree
with the sessions except between `TerminateVideo` and `ClearVideo` (`SessionInv`). With
two detectors `StopInv` is what breaks, and it breaks in the code. `FrameIInv` adds that
held frames belong to what captures, `WaitIInv` that a wait under way is in a session that
only its own thread can end.

`StopLeavesNothingOpen` needs the same invariant: a cleanup ends no session, so every
session has to be terminated by the thread that still believes in it. With two detectors
the vsync thread may clear the flag of a session that the main thread has just restarted;
then nobody terminates it, and TLC finds it left open. What holds even so is
`StopEndsThreads`: the threads, the flags and the frames are gone.

For the contract, `SessionMoves` and `FrameMoves` map each step to one of
`CaptureContract`, for a backend of either name. The mapping is the backend's own phase, so
that a session ends with the call of terminate and not with the flag cleared after it. The two strengths come from the assumptions: a failed start
that is repeated is a step of `LenientSpec` only. `ContractKept` adds `ContractIInv`, under
which no call was ever misused and `Seen("video")` is the phase itself.

`ThreadsAdvance` is the part of `StopCompletes` and `FramesFlow` that needs no fairness:
whoever waits waits for a thread that is there (`NobodyIsStuck`), the main thread takes at
most thirteen steps to its end and begins an iteration only while `running`, and while it
waits for a signal or for the end of the vsync thread, each step of that thread is nearer
to it. The theorem holds for all faults, double ends of sessions included.
`DueStartsSucceed` is the same for `CaptureResumes`: a backend that is configured, not
captured and past its second is captured once the main thread has passed its start, for
the flags never leave it in a phase in which a start means nothing.

The section on buffers proves of `Pixels`: `LutCopyInside` and `LutEntriesApart` (the three
bytes of every colour lie in the table and are shared with no other colour),
`ConvertedFits` (a converted frame fills its buffer exactly), `ChromaFitsIffEven` (the
chroma planes of 4:2:2 are read inside their buffers exactly for even widths), `BlendInside`
(for equal widths, blending stays inside the UI frame exactly if that is at least as high).

### VtCaptureProofs

| theorem | assumptions |
|---|---|
| `CaptureImplemented`: `VtSpec => Spec` of `Unicapture` without its fairness; `VtTypeCorrect`: `[]VtTypeOK` | none |
| `WaitsOfVtCapture`: `[]WaitOfOpenSession` and `[]PairedCalls` | a driver that does not answer 13, `InitSucceeds` |
| `SessionsOfVtCapture`: `SessionContract` and `[]NothingLeftOpen` | a driver that does not answer 13, `InitSucceeds` |
| `WaitsAdvance`: a wait never turns back | none |

Every step of `VtCapture` is a step of `Unicapture` or leaves its variables alone, so the
theorems of `UnicaptureProofs` carry over, and hold with this library for any number of
buffers and polls. `WaitsAdvance` is the safe half of `WaitEnds`: two steps at most for each
poll that is allowed, and neither the driver nor the main thread gives a poll back.

### BackendsProofs

| theorem | assumptions |
|---|---|
| `TypeCorrect`: `[]TypeOK`; `DevicesAreGivenBack`: `[]DevicesGivenBack` | none |
| `OpenBackendIsComplete`: `[]HoldsWhatItNeeds` | `"throw"` is not in `Flaws` |
| `FailedInitLeavesNothing`: `FailedInitFreesAll` | `"root"` is not in `Flaws`, libdile_vt is no candidate |
| `CallerIsTheContract`: `Spec => Caller!LenientSpec` | none |

They hold for every set of lists of candidates. The lemmas on the tables say of each
library what the `goto` labels have to achieve: `InitLabelsSuffice`, that a failed init
gives back every device taken before the call; `StartLabelsSuffice`, that a failed start
gives back all of the session and nothing of the init, for the start will be repeated;
`TerminateAnswersStart` and `CleanupAnswersInit` for the regular ways. `HoldInv` then says
what an open backend holds: exactly what its init took, and its session on top, except
where `vtCapture_create` threw.

`FailedInitLeavesNothing` is the promise of `unicapture.h:36-39`, with exactly the
assumptions without which TLC refutes it (section 6): three of the four libraries keep it.

`CallerIsTheContract` closes the circle. `CallersKeepContract` shows that the capture
threads, whatever interleaving and whatever fails within its assumptions, produce only
sequences of calls that `LenientSpec` allows; what is proved here of the libraries is
proved for a caller that does no more.

### LightsProofs

The client by itself:

| theorem | assumptions |
|---|---|
| `TypeCorrect`, `RegistrationIsConfirmed`, `SocketsAreAccounted` | none |
| `ClientStopAdvances`: the threads of a stop are there and do not turn back | none |
| `ReconnectAdvances`: after a loss the thread goes on to the next connect | none |
| `FreedAddressIsForgotten`: `[]FreedAddressForgotten` | none |
| `RequestsStayAligned`: `[]StreamAligned`; `RegistrationComesFirst`: `[]RegisterFirst` | `WritesWhole`: no write fails or is cut, none overlaps the pause before a reconnect |
| `HeaderTellsLength`: the four bytes of the header decode to the length | below 4 GB |

`ConnIInv` ties the socket, the statics, the server's end and the controller to the
connection thread's program counter; it is preserved by every step of the other two
threads, because none of them writes what it speaks of. `SendIInv` adds what the writer
knows about the stream, and that it is in no write while a stream begins.

The composition:

| theorem | assumptions |
|---|---|
| `CaptureImplemented`: the composition implements `Unicapture` | none |
| `ClientImplemented`: the composition implements `ClientSpec` | none |
| `SessionsKeptSending`: `SessionContract` | `OneDetector`, `InitSucceeds` of `UnicaptureProofs` |
| `ImagesArriveWhole`: `[]StreamAligned`, `[]RegisterFirst` | `WritesWhole` |
| `MessagesAreOfHeldFrames`: while a message is written its frames are held, though their session may have ended | none |
| `StopOfBothAdvances`: both joins of a stop have advancing threads in front of them | none |

The first is a step simulation that needs no invariant. The second needs `JointInv`: the
two halves agree on whether they run and are being joined, and the capture flag of the
client is that of the capture. What is proved of `Unicapture` and `HyperionClient` then
holds in the composition. `MessagesAreOfHeldFrames` belongs to neither part: the message
under way (`HyperionClient`) is tied by `FeedInv` to the frames held (`Unicapture`).

### ServiceProofs

| theorem | assumptions |
|---|---|
| `TypeCorrect`: `[]TypeOK`; `PausesAreRemembered`: `[]PausesRemembered`; `PausesExcludeEachOther`: `[]PauseMeansStopped` | none |
| `PowerOnBringsBack`: `PowerOnResumes` | `~StartMayFail` |
| `PowerOffIsHeeded`: `[]PowerOffStops` | none |

`PausesRemembered` is inductive with the types; `PowerOnResumes` follows from it, since
the resume's guard asks for the mark. `PowerOffStops` rests on `PauseMeansStopped`: a
power-off is ignored only when the mark is set on a running service. It does not say that
nothing is captured while the TV is off, which is false: a start by method, a video report
or, after a power-off that found the sensor's pause, the next dark message starts the
capture.

### SettingsProofs, HdrAdjustmentsProofs, ProcessProofs

| theorem | assumptions |
|---|---|
| `SettingsProofs!TypeCorrect`, `SettingsComeBack`: `[]SettingsSurvive`, `LinkIsAcknowledged`: `AcknowledgedLink` | none |
| `HdrAdjustmentsProofs!TypeCorrect`, `DaemonIsRight`: `[]RightDaemon`, `SuccessIsComplete`: `[]SuccessReachesAll` | none |
| `ProcessProofs!TypeCorrect`, `ArgumentsDecide`: `[]ArgumentsOverwrite`, `SignalIsHeeded` | none |

For the settings the invariant says what the file may contain at each step of a request,
relative to what is in memory and what was promised; for the daemon, that a flavor once
found is that of the daemon until it is replaced; for the instances, that all before the
current one were reached if no call has failed. For the command line, `ParseInv` is
`ArgumentsOverwrite` of the options parsed so far, so that it holds for lines of any
length. `SignalIsHeeded` is the safe half of `SignalEnds`: a signal that the loop has seen
is not undone by anything that comes after it.

### Only model-checked

* Liveness (`StopCompletes`, `CaptureResumes`, `FramesFlow`, `WaitEnds`, `Reconnects`,
  `LightsFollow`, `SignalEnds`): fairness and ENABLED are out of the prover's reach. For the
  stops, the frames, the resumed capture, the wait, the reconnects and the signal, the
  theorems named above prove what remains when fairness is taken away; of `LightsFollow`,
  which leads from one thread to another and back, nothing of the kind is stated.
* The properties of the three runs of section 6, which are false.
* Recursion and induction over data are nowhere needed.

## 5. What is not modelled, and why

* The vendored flatbuffers runtime (`flatccrt`) and the code generated from the schemas
  (`fbs`), most of the lines of the repository. They keep no state of the program; a
  message is payload here, with a length.
* The legacy backends (`lib*_legacy.c`). `CMakeLists.txt` does not build them and nothing
  loads them, so the order in which they would be called is not in the repository.
* The colours: libyuv's conversion, the blending formula, the contents of the LUT; loading
  the LUT and dumping frames. Two remarks about them are among the hazards.
* `status` and `getSettings`, which change nothing, the toasts, `log.c`, `utils.c` and
  `unicapture-test.c`.
* Thread creation in `unicapture_start`, whose result the code does not look at; a SIGPIPE
  on a write to a closed connection, which is taken to be ignored; replies that arrive in
  pieces; a failing `socket()`; the reuse of a descriptor number; memory exhaustion
  (`calloc` is not checked); the locks taken inside the signal handler (`main.c:16-20`).
* libdile_vt's freeze of the output, and the quirk that turns it off.
* `set_bri_sat`, compiled only with `HYPERION_OLD_OKLA`.

## 6. Disagreements found

Three runs check what the repository says against what it does, and TLC finds a
counterexample.

* `uc_failed_start`: `unicapture_run` starts a backend again one second after its start
  failed, on the same state; `unicapture.h:41-42` says that it then "needs to be
  reinitialized".
* `sv_stale_pause`: a start by method or by a video report leaves `power_paused` set on a
  running service; the next power-off is ignored because of it (`service.c:421`).
* `vt_stale_wait`: `capture_acquire_frame` copies `buff.start_addr0` to `curr_buff`
  without a lock while `capture_wait` writes both; an old address stored late makes the
  next wait take a buffer that has not changed for a new frame (`libvtcapture.cpp:251`).

Other disagreements show up in the same models when a constant is given another value;
`hazards` names the constant for each: two threads that terminate one session twice
or leave it open (`Faults = {"wait99", "acquire99"}` with `Vsync`, or `"13"` among
`DriverErrors`; `PairedCalls`, `NothingLeftOpen`), a session that ends under a held frame
(`wait99` with `Vsync`; `FramesOfOpenSession`), a backend started after its init failed
(`init`), a body written in part (`WriteFaults`; `StreamAligned`), a write that overlaps a
reconnect (`Overtake`), a `vtCapture_create` that throws (`"throw"` in `Flaws`). A freed
address that is parsed by the connect under way (`LiveReload`) and arrays that are freed
twice or read after they were freed (`MayOmit`) are in the models as what the code does,
and no property denies them. Others are excused in a property by a
history variable and appear when that conjunct is dropped: a crash inside the rewrite of
`config.json` (`mishaps`), a failed `switchTo` that is forgotten (`disturbed`), a daemon
replaced by one of another kind (`replaced`). `Backends!FailedInitFreesAll`, the promise
of `unicapture.h:36-39` to the letter, is refuted even with no `Flaws`: libdile_vt, failing
late, leaves memory behind, though no device (the other three are proved to keep it). In `Process`, a signal before the main
loop runs is lost, and an option before `-c` is overwritten by the file.

## 7. Plan

Done: the contract of a backend, the capture threads, the built backends, the service, the
connection, the composition of capture and connection, the settings, the HDR adjustments,
the process, the arithmetic of buffers; proofs of every invariant that a run checks.

Left, in this order:

1. `Service` composed with `Lights`, so that pauses and restarts of the service drive the
   threads; abstract specification: frames are sent exactly while the service runs.
2. `Settings` in that composition, with the reload of a running service.
3. The safe half of `LightsFollow`: with a connection that lasts, each frame is nearer to
   the first image.
4. The loading of the LUT across reconfigurations.
