----------------------------- MODULE BackendsProofs -----------------------------
(***************************************************************************)
(* What holds of Backends for all lists of candidates.                     *)
(***************************************************************************)
EXTENDS Backends, SequenceTheorems, TLAPS

--------------------------------------------------------------------------------
(* The tables of steps, library by library.                                *)

\* The tables as the proofs read them.
LEMMA HalgalInit ==
    capture_init_steps["libhalgal"] =
      <<Step("calloc", {"state"}), Step("getuid", {}),
        Step("HAL_GAL_Init", {}), Step("HAL_GAL_CreateSurface", {"surface"}),
        Step("HAL_GAL_CaptureFrameBuffer", {}),
        Step("open", {"fd"}), Step("mmap", {"map"})>>
BY DEF capture_init_steps, Libraries

LEMMA DileInit ==
    capture_init_steps["libdile_vt"] =
      <<Step("DILE_VT_Create", {"vth"}), Step("calloc", {"state"}),
        Step("GetVideoFrameOutputDeviceLimitation", {}),
        Step("SetVideoFrameOutputDevice", {}),
        Step("GetVideoFrameBufferCapability", {}),
        Step("calloc", {"offsets"}),
        Step("GetAllVideoFrameBufferProperty", {}),
        Step("open", {"fd"}), Step("calloc", {"table"}),
        Step("mmap", {"map"}), Step("mmap", {"next_map"})>>
BY DEF capture_init_steps, Libraries

LEMMA VtInit ==
    capture_init_steps["libvtcapture"] =
      <<Step("calloc", {"state"}), Step("vtCapture_create", {"driver"})>>
BY DEF capture_init_steps, Libraries

LEMMA GmInit ==
    capture_init_steps["libgm"] =
      <<Step("calloc", {"state"}), Step("GM_CreateSurface", {"surface"})>>
BY DEF capture_init_steps, Libraries

LEMMA DileStart ==
    capture_start_steps["libdile_vt"] =
      <<Step("DILE_VT_Start", {"running"})>>
BY DEF capture_start_steps, Libraries

LEMMA VtStart ==
    capture_start_steps["libvtcapture"] =
      <<Step("vtCapture_init", {"client"}),
        Step("vtCapture_preprocess", {"buffers"}),
        Step("vtCapture_planeInfo", {}),
        Step("vtCapture_process", {"running"})>>
BY DEF capture_start_steps, Libraries

\* A call of capture_init that fails gives back every device claimed before it.
LEMMA InitLabelsSuffice ==
    ASSUME NEW l \in Libraries, NEW i \in Failing(capture_init_steps[l])
    PROVE  TakenBefore(capture_init_steps[l], i) \cap Devices
                \subseteq InitLabel(l, capture_init_steps[l][i].call)
<1> DEFINE steps == capture_init_steps[l]
<1> SUFFICES ASSUME NEW d \in Devices, NEW j \in 1 .. i - 1, d \in steps[j].takes
             PROVE  d \in InitLabel(l, steps[i].call)
  BY DEF TakenBefore
<1>1. CASE l = "libgm"
  <2>1. i \in 1 .. 2
    BY <1>1, GmInit DEF Failing
  <2> QED BY <1>1, GmInit, <2>1 DEF Step, Devices
<1>2. CASE l = "libvtcapture"
  <2>1. i \in 1 .. 2
    BY <1>2, VtInit DEF Failing
  <2> QED BY <1>2, VtInit, <2>1 DEF Step, Devices
<1>3. CASE l = "libhalgal"
  <2>1. i \in 1 .. 7
    BY <1>3, HalgalInit DEF Failing
  <2>2. d = "surface" /\ j = 4
    BY <1>3, HalgalInit, <2>1 DEF Step, Devices
  <2> QED BY <1>3, HalgalInit, <2>1, <2>2 DEF Step, InitLabel
<1>4. CASE l = "libdile_vt"
  <2>1. i \in 1 .. 11
    BY <1>4, DileInit DEF Failing
  <2>2. d = "vth" /\ j = 1
    BY <1>4, DileInit, <2>1 DEF Step, Devices
  <2> QED BY <1>4, DileInit, <2>1, <2>2 DEF Step, InitLabel
<1> QED BY <1>1, <1>2, <1>3, <1>4 DEF Libraries

\* What only a session has.
Session == {"running", "client", "buffers"}

\* A call of capture_start that fails gives back all that was taken before it, and
\* nothing that capture_init took.
LEMMA StartLabelsSuffice ==
    ASSUME NEW l \in Libraries, NEW i \in Failing(capture_start_steps[l])
    PROVE  /\ TakenBefore(capture_start_steps[l], i)
                    \subseteq StartLabel(capture_start_steps[l][i].call)
           /\ StartLabel(capture_start_steps[l][i].call) \subseteq Session
<1> DEFINE steps == capture_start_steps[l]
<1>1. CASE l \in {"libgm", "libhalgal"}
  <2>1. steps = <<>>
    BY <1>1 DEF capture_start_steps, Libraries
  <2> QED BY <2>1 DEF Failing
<1>2. CASE l = "libdile_vt"
  <2>1. i = 1
    BY <1>2, DileStart DEF Failing
  <2> QED BY <1>2, DileStart, <2>1 DEF Step, StartLabel, TakenBefore, Session
<1>3. CASE l = "libvtcapture"
  <2>1. i \in 1 .. 4
    BY <1>3, VtStart DEF Failing
  <2>2. StartLabel(steps[i].call) \subseteq Session
    BY <1>3, VtStart, <2>1 DEF Step, StartLabel, Session
  <2>3. ASSUME NEW j \in 1 .. i - 1, NEW r \in steps[j].takes
        PROVE  r \in StartLabel(steps[i].call)
    BY <1>3, VtStart, <2>1, <2>3 DEF Step, StartLabel
  <2> QED BY <2>2, <2>3 DEF TakenBefore
<1> QED BY <1>1, <1>2, <1>3 DEF Libraries

\* capture_terminate gives back exactly what capture_start takes.
LEMMA TerminateAnswersStart ==
    ASSUME NEW l \in Libraries
    PROVE  TakenBy(capture_start_steps[l]) = TerminateGives[l]
<1> DEFINE steps == capture_start_steps[l]
<1>1. CASE l \in {"libgm", "libhalgal"}
  <2>1. steps = <<>>
    BY <1>1 DEF capture_start_steps, Libraries
  <2> QED BY <1>1, <2>1 DEF TakenBy, TakenBefore, TerminateGives, Libraries
<1>2. CASE l = "libdile_vt"
  BY <1>2, DileStart DEF TakenBy, TakenBefore, TerminateGives, Libraries, Step
<1>3. CASE l = "libvtcapture"
  <2>1. TakenBy(steps) = UNION {steps[j].takes : j \in 1 .. 4}
    BY <1>3, VtStart DEF TakenBy, TakenBefore
  <2>2. \A j \in 1 .. 4 : steps[j].takes \subseteq Session
    BY <1>3, VtStart DEF Step, Session
  <2>3. Session \subseteq UNION {steps[j].takes : j \in 1 .. 4}
    BY <1>3, VtStart DEF Step, Session
  <2> QED BY <1>3, <2>1, <2>2, <2>3 DEF TerminateGives, Libraries, Session
<1> QED BY <1>1, <1>2, <1>3 DEF Libraries

\* capture_cleanup gives back every device that capture_init takes, and sessions take
\* other things.
LEMMA CleanupAnswersInit ==
    ASSUME NEW l \in Libraries
    PROVE  /\ TakenBy(capture_init_steps[l]) \cap Devices \subseteq CleanupGives[l]
           /\ TakenBy(capture_init_steps[l]) \cap Session = {}
<1> DEFINE steps == capture_init_steps[l]
<1> SUFFICES ASSUME NEW j \in 1 .. Len(steps), NEW r \in steps[j].takes
             PROVE  r \notin Session /\ (r \in Devices => r \in CleanupGives[l])
  BY DEF TakenBy, TakenBefore
<1>1. CASE l = "libgm"
  BY <1>1, GmInit DEF Step, Devices, Session, CleanupGives, Libraries
<1>2. CASE l = "libvtcapture"
  BY <1>2, VtInit DEF Step, Devices, Session, CleanupGives, Libraries
<1>3. CASE l = "libhalgal"
  <2>1. r \in {"state", "surface", "fd", "map"}
    BY <1>3, HalgalInit DEF Step
  <2> QED BY <1>3, <2>1 DEF Devices, Session, CleanupGives, Libraries
<1>4. CASE l = "libdile_vt"
  <2>1. r \in {"vth", "state", "offsets", "fd", "table", "map", "next_map"}
    BY <1>4, DileInit DEF Step
  <2> QED BY <1>4, <2>1 DEF Devices, Session, CleanupGives, Libraries
<1> QED BY <1>1, <1>2, <1>3, <1>4 DEF Libraries

--------------------------------------------------------------------------------
(* Type correctness.                                                       *)

\* What is left to try is the end of a list of candidates.
Trying == {<<>>} \cup UNION {{SubSeq(c, i, Len(c)) : i \in 1 .. Len(c) + 1}
                                : c \in Candidates}

LEMMA TryingShrinks ==
    /\ Candidates \subseteq Trying
    /\ \A t \in Trying : t # <<>> =>
            /\ Tail(t) \in Trying
            /\ Head(t) \in Libraries
            /\ \E c \in Candidates : \E i \in DOMAIN c : Head(t) = c[i]
<1> USE DEF Trying
<1>1. ASSUME NEW c \in Candidates PROVE c \in Trying
  <2>1. c \in Seq(Libraries) /\ Len(c) \in Nat
    BY BackendsAssumption
  <2>2. c = SubSeq(c, 1, Len(c))
    BY <2>1, SubSeqFull
  <2>3. c \in {SubSeq(c, i, Len(c)) : i \in 1 .. Len(c) + 1}
    BY <2>1, <2>2
  <2> QED BY <2>3
<1>2. ASSUME NEW c \in Candidates, NEW i \in 1 .. Len(c) + 1, SubSeq(c, i, Len(c)) # <<>>
      PROVE  /\ Head(SubSeq(c, i, Len(c))) \in Libraries
             /\ \E j \in DOMAIN c : Head(SubSeq(c, i, Len(c))) = c[j]
             /\ Tail(SubSeq(c, i, Len(c))) \in Trying
  <2>1. c \in Seq(Libraries) /\ Len(c) \in Nat
    BY BackendsAssumption
  <2>2. i \in 1 .. Len(c) /\ i \in Int /\ i + 1 \in 1 .. Len(c) + 1
    BY <1>2, <2>1, SubSeqEmpty
  <2>3. /\ Head(SubSeq(c, i, Len(c))) = c[i]
        /\ Tail(SubSeq(c, i, Len(c))) = SubSeq(c, i + 1, Len(c))
    BY <2>1, <2>2, HeadTailOfSubSeq
  <2>4. c[i] \in Libraries
    BY <2>1, <2>2, ElementOfSeq
  <2>5. SubSeq(c, i + 1, Len(c)) \in {SubSeq(c, j, Len(c)) : j \in 1 .. Len(c) + 1}
    BY <2>2
  <2>6. i \in DOMAIN c
    BY <2>1, <2>2
  <2> QED BY <2>3, <2>4, <2>5, <2>6
<1>3. ASSUME NEW t \in Trying, t # <<>>
      PROVE  /\ Tail(t) \in Trying
             /\ Head(t) \in Libraries
             /\ \E c \in Candidates : \E i \in DOMAIN c : Head(t) = c[i]
  <2>0. PICK ends \in {{SubSeq(c, i, Len(c)) : i \in 1 .. Len(c) + 1} : c \in Candidates} :
            t \in ends
    BY <1>3
  <2>1. PICK c \in Candidates : t \in {SubSeq(c, i, Len(c)) : i \in 1 .. Len(c) + 1}
    BY <2>0
  <2>2. PICK i \in 1 .. Len(c) + 1 : t = SubSeq(c, i, Len(c))
    BY <2>1
  <2> QED BY <1>2, <1>3, <2>2
<1> HIDE DEF Trying
<1> QED BY <1>1, <1>3

LEMMA TablesAreSequences ==
    \A l \in Libraries :
        /\ DOMAIN capture_init_steps[l] = 1 .. Len(capture_init_steps[l])
        /\ DOMAIN capture_start_steps[l] = 1 .. Len(capture_start_steps[l])
<1> SUFFICES ASSUME NEW l \in Libraries
             PROVE  /\ DOMAIN capture_init_steps[l] = 1 .. Len(capture_init_steps[l])
                    /\ DOMAIN capture_start_steps[l] = 1 .. Len(capture_start_steps[l])
  OBVIOUS
<1>1. CASE l \in {"libgm", "libhalgal"}
  <2>1. capture_start_steps[l] = <<>>
    BY <1>1 DEF capture_start_steps, Libraries
  <2> QED BY <1>1, <2>1, GmInit, HalgalInit
<1>2. CASE l = "libdile_vt"
  BY <1>2, DileInit, DileStart
<1>3. CASE l = "libvtcapture"
  BY <1>3, VtInit, VtStart
<1> QED BY <1>1, <1>2, <1>3 DEF Libraries

\* Whatever a library holds at any of its steps is a resource.
LEMMA TakesResources ==
    ASSUME NEW l \in Libraries
    PROVE  /\ TakenBy(capture_init_steps[l]) \subseteq Resources
           /\ TakenBy(capture_start_steps[l]) \subseteq Resources
           /\ \A i \in Failing(capture_init_steps[l]) :
                    TakenBefore(capture_init_steps[l], i) \subseteq Resources
           /\ \A i \in Failing(capture_start_steps[l]) :
                    TakenBefore(capture_start_steps[l], i)
                        \subseteq TakenBy(capture_start_steps[l])
<1>1. /\ TakenBy(capture_init_steps[l]) \subseteq Resources
      /\ TakenBy(capture_start_steps[l]) \subseteq Resources
  BY DEF Resources
<1>2. ASSUME NEW steps, DOMAIN steps = 1 .. Len(steps), NEW i \in Failing(steps)
      PROVE  TakenBefore(steps, i) \subseteq TakenBy(steps)
  <2>1. i \in 1 .. Len(steps)
    BY <1>2 DEF Failing
  <2>2. \A j \in 1 .. i - 1 : j \in 1 .. (Len(steps) + 1) - 1
    BY <2>1
  <2> QED BY <2>2 DEF TakenBefore, TakenBy
<1> QED BY <1>1, <1>2, TablesAreSequences

\* Every value of every variable is one the code can hold: what is left to try is the end
\* of a list, what is held or lost was taken by a library.
THEOREM TypeCorrect == Spec => []TypeOK
<1>t. TypeOK <=>
        /\ trying \in Trying
        /\ library \in Libraries \cup {"none"}
        /\ phase \in {"none", "ready", "failed", "started"}
        /\ frame \in BOOLEAN
        /\ held \subseteq Resources
        /\ lost \subseteq Libraries \X Resources
        /\ phase # "none" => library # "none"
  BY DEF TypeOK, Trying
<1>u. TypeOK' <=>
        /\ trying' \in Trying
        /\ library' \in Libraries \cup {"none"}
        /\ phase' \in {"none", "ready", "failed", "started"}
        /\ frame' \in BOOLEAN
        /\ held' \subseteq Resources
        /\ lost' \subseteq Libraries \X Resources
        /\ phase' # "none" => library' # "none"
  BY DEF TypeOK, Trying
<1>1. Init => TypeOK
  BY <1>t DEF Init, Trying
<1>2. TypeOK /\ [Next]_vars => TypeOK'
  <2> SUFFICES ASSUME TypeOK, [Next]_vars PROVE TypeOK'
    OBVIOUS
  <2> USE <1>t, <1>u
  <2>1. "none" \notin Libraries
    BY DEF Libraries
  <2>2. ASSUME NEW l \in Libraries, InitSucceeds(l)
        PROVE  /\ held' \subseteq Resources /\ library' = l /\ phase' = "ready"
               /\ UNCHANGED <<frame, lost>>
    BY <2>2, TakesResources DEF InitSucceeds
  <2>3. ASSUME NEW l \in Libraries, InitFails(l)
        PROVE  /\ lost' \subseteq Libraries \X Resources
               /\ UNCHANGED <<phase, frame, held>>
    BY <2>3, TakesResources DEF InitFails, Lose
  <2>4. CASE service_init
    BY <2>4, TryingShrinks DEF service_init
  <2>5. CASE unicapture_try_backends
    <3>1. Head(trying) \in Libraries /\ Tail(trying) \in Trying
      BY <2>5, TryingShrinks DEF unicapture_try_backends
    <3>2. CASE InitSucceeds(Head(trying)) /\ trying' = <<>>
      BY <2>1, <2>2, <3>1, <3>2 DEF Trying
    <3>3. CASE InitFails(Head(trying)) /\ trying' = Tail(trying) /\ UNCHANGED library
      BY <2>3, <3>1, <3>3
    <3> QED BY <2>5, <3>2, <3>3 DEF unicapture_try_backends
  <2>6. CASE Reinitialise
    <3>1. library \in Libraries
      BY <2>6 DEF Reinitialise
    <3> QED BY <2>1, <2>2, <2>3, <2>6, <3>1 DEF Reinitialise
  <2>7. CASE capture_start
    <3>1. library \in Libraries
      BY <2>7 DEF capture_start
    <3> QED BY <2>7, <3>1, TakesResources DEF capture_start
  <2>8. CASE capture_terminate
    BY <2>8 DEF capture_terminate
  <2>9. CASE capture_acquire_frame
    BY <2>9 DEF capture_acquire_frame
  <2>10. CASE capture_release_frame
    BY <2>10 DEF capture_release_frame
  <2>11. CASE capture_cleanup
    <3>1. library \in Libraries
      BY <2>11 DEF capture_cleanup
    <3> QED BY <2>11, <3>1 DEF capture_cleanup, Lose
  <2>12. CASE UNCHANGED vars
    BY <2>12 DEF vars
  <2> QED
    BY <2>4, <2>5, <2>6, <2>7, <2>8, <2>9, <2>10, <2>11, <2>12 DEF Next
<1> QED BY <1>1, <1>2, PTL DEF Spec

--------------------------------------------------------------------------------
(* What an open backend holds.                                             *)

\* What capture_init may have left behind with result 0: everything it takes, or, if
\* vtCapture_create threw, nothing.
Opened(l) ==
    {TakenBy(capture_init_steps[l])}
        \cup {none \in {{}} : l = "libvtcapture" /\ "throw" \in Flaws}

\* An open backend holds what its init left, and its session on top of it; while
\* candidates are tried none is open.
HoldInv ==
    /\ trying # <<>> => phase = "none"
    /\ phase \in {"ready", "failed"} => held \in Opened(library)
    /\ phase = "started" =>
            \E opened \in Opened(library) :
                held = opened \cup TakenBy(capture_start_steps[library])

HoldIInv == TypeOK /\ HoldInv /\ DevicesGivenBack

\* No session resource comes from init.
LEMMA OpenedHasNoSession ==
    ASSUME NEW l \in Libraries, NEW opened \in Opened(l)
    PROVE  /\ opened \cap Session = {}
           /\ opened \cap Devices \subseteq CleanupGives[l]
           /\ TakenBy(capture_start_steps[l]) \subseteq Session
<1>1. opened \in {TakenBy(capture_init_steps[l]), {}}
  BY DEF Opened
<1>2. TakenBy(capture_start_steps[l]) \subseteq Session
  BY TerminateAnswersStart DEF TerminateGives, Session, Libraries
<1> QED BY <1>1, <1>2, CleanupAnswersInit

LEMMA HoldStep ==
    ASSUME HoldIInv, TypeOK', [Next]_vars
    PROVE  HoldIInv'
<1>1. /\ trying \in Trying
      /\ library \in Libraries \cup {"none"}
      /\ phase \in {"none", "ready", "failed", "started"}
      /\ phase # "none" => library \in Libraries
  BY DEF HoldIInv, TypeOK, Trying
<1> HIDE DEF HoldIInv
<1>2. HoldInv /\ DevicesGivenBack
  BY DEF HoldIInv
<1> SUFFICES HoldInv' /\ DevicesGivenBack'
  BY DEF HoldIInv
<1> USE DEF HoldInv
<1>3. ASSUME NEW l \in Libraries, InitSucceeds(l)
      PROVE  /\ held' \in Opened(l) /\ library' = l /\ phase' = "ready"
             /\ DevicesGivenBack'
  BY <1>2, <1>3 DEF InitSucceeds, Opened, DevicesGivenBack
<1>4. ASSUME NEW l \in Libraries, InitFails(l)
      PROVE  DevicesGivenBack'
  BY <1>2, <1>4, InitLabelsSuffice DEF InitFails, Lose, DevicesGivenBack
<1>5. CASE service_init
  BY <1>2, <1>5 DEF service_init, DevicesGivenBack
<1>6. CASE unicapture_try_backends
  <2>1. Head(trying) \in Libraries
    BY <1>1, <1>6, TryingShrinks DEF unicapture_try_backends
  <2>2. CASE InitSucceeds(Head(trying)) /\ trying' = <<>>
    BY <1>3, <2>1, <2>2
  <2>3. CASE InitFails(Head(trying)) /\ trying' = Tail(trying) /\ UNCHANGED library
    <3>1. phase' = "none"
      BY <1>2, <1>6, <2>3 DEF unicapture_try_backends, InitFails
    <3> QED BY <1>4, <2>1, <2>3, <3>1
  <2> QED BY <1>6, <2>2, <2>3 DEF unicapture_try_backends
<1>7. CASE Reinitialise
  <2>1. library \in Libraries /\ phase = "none" /\ trying' = <<>>
    BY <1>1, <1>7 DEF Reinitialise
  <2>2. CASE InitSucceeds(library)
    BY <1>3, <2>1, <2>2
  <2>3. CASE InitFails(library)
    <3>1. phase' = "none"
      BY <2>1, <2>3 DEF InitFails
    <3> QED BY <1>4, <2>1, <2>3, <3>1
  <2> QED BY <1>7, <2>2, <2>3 DEF Reinitialise
<1>8. CASE capture_start
  <2>1. /\ library \in Libraries /\ phase \in {"ready", "failed"} /\ held \in Opened(library)
        /\ UNCHANGED <<trying, library, lost>>
        /\ trying = <<>>
    BY <1>1, <1>2, <1>8 DEF capture_start
  <2>2. DevicesGivenBack'
    BY <1>2, <2>1 DEF DevicesGivenBack
  <2>3. CASE /\ phase' = "started"
             /\ held' = held \cup TakenBy(capture_start_steps[library])
    BY <2>1, <2>2, <2>3 DEF Opened
  <2>4. ASSUME phase' = "failed",
               NEW i \in Failing(capture_start_steps[library]),
               held' = (held \cup TakenBefore(capture_start_steps[library], i))
                            \ StartLabel(capture_start_steps[library][i].call)
        PROVE  HoldInv'
    <3>1. held' = held
      BY <2>1, <2>4, StartLabelsSuffice, OpenedHasNoSession
    <3> QED BY <2>1, <2>4, <3>1 DEF Opened
  <2> QED BY <1>8, <2>2, <2>3, <2>4 DEF capture_start
<1>9. CASE capture_terminate
  <2>1. /\ phase = "started" /\ phase' = "ready" /\ library \in Libraries
        /\ held' = held \ TerminateGives[library]
        /\ UNCHANGED <<trying, library, lost>>
    BY <1>1, <1>9 DEF capture_terminate
  <2>2. PICK opened \in Opened(library) :
                held = opened \cup TakenBy(capture_start_steps[library])
    BY <1>2, <2>1
  <2>3. held' = opened
    BY <2>1, <2>2, TerminateAnswersStart, OpenedHasNoSession
  <2>4. held' \in Opened(library')
    BY <2>1, <2>2, <2>3
  <2> QED BY <1>2, <2>1, <2>4 DEF DevicesGivenBack
<1>10. CASE capture_acquire_frame
  BY <1>2, <1>10 DEF capture_acquire_frame, Opened, DevicesGivenBack
<1>11. CASE capture_release_frame
  BY <1>2, <1>11 DEF capture_release_frame, Opened, DevicesGivenBack
<1>12. CASE capture_cleanup
  <2>1. library \in Libraries /\ held \in Opened(library) /\ phase' = "none"
    BY <1>1, <1>2, <1>12 DEF capture_cleanup
  <2>2. (held \ CleanupGives[library]) \cap Devices = {}
    BY <2>1, OpenedHasNoSession
  <2>3. DevicesGivenBack'
    BY <1>2, <1>12, <2>2 DEF capture_cleanup, Lose, DevicesGivenBack
  <2> QED BY <2>1, <2>3
<1>13. CASE UNCHANGED vars
  BY <1>2, <1>13 DEF vars, Opened, DevicesGivenBack
<1> QED
  BY <1>5, <1>6, <1>7, <1>8, <1>9, <1>10, <1>11, <1>12, <1>13 DEF Next

LEMMA HoldInductive == Spec => []HoldIInv
<1>1. Init /\ TypeOK => HoldIInv
  BY DEF Init, HoldIInv, HoldInv, DevicesGivenBack
<1>2. HoldIInv /\ TypeOK' /\ [Next]_vars => HoldIInv'
  BY HoldStep
<1> QED BY <1>1, <1>2, TypeCorrect, PTL DEF Spec

\* Whatever fails, and whichever libraries are tried, no claim on a capture device
\* outlives its owner.
THEOREM DevicesAreGivenBack == Spec => []DevicesGivenBack
<1>1. HoldIInv => DevicesGivenBack
  BY DEF HoldIInv
<1> QED BY <1>1, HoldInductive, PTL

\* Unless vtCapture_create throws, an open backend has all that its functions use, and
\* a failed start is undone, whichever of its calls failed.
THEOREM OpenBackendIsComplete ==
    ASSUME "throw" \notin Flaws
    PROVE  Spec => []HoldsWhatItNeeds
<1>1. HoldIInv => HoldsWhatItNeeds
  BY DEF HoldIInv, HoldInv, HoldsWhatItNeeds, Opened
<1> QED BY <1>1, HoldInductive, PTL

--------------------------------------------------------------------------------
(* A capture_init that fails.                                              *)

\* libdile_vt is never tried.
WithoutDile == \A c \in Candidates : \A i \in DOMAIN c : c[i] # "libdile_vt"

\* Apart from libdile_vt, and from libhalgal without root rights, the labels give back
\* everything, memory and descriptors too.
LEMMA InitLabelsComplete ==
    ASSUME "root" \notin Flaws,
           NEW l \in Libraries \ {"libdile_vt"}, NEW i \in Failing(capture_init_steps[l])
    PROVE  TakenBefore(capture_init_steps[l], i)
                \subseteq InitLabel(l, capture_init_steps[l][i].call)
<1> DEFINE steps == capture_init_steps[l]
<1> SUFFICES ASSUME NEW j \in 1 .. i - 1, NEW r \in steps[j].takes
             PROVE  r \in InitLabel(l, steps[i].call)
  BY DEF TakenBefore
<1>1. CASE l = "libgm"
  <2>1. i \in 1 .. 2
    BY <1>1, GmInit DEF Failing
  <2> QED BY <1>1, GmInit, <2>1 DEF Step, InitLabel
<1>2. CASE l = "libvtcapture"
  <2>1. i \in 1 .. 2
    BY <1>2, VtInit DEF Failing
  <2> QED BY <1>2, VtInit, <2>1 DEF Step, InitLabel
<1>3. CASE l = "libhalgal"
  <2>1. i \in 1 .. 7 /\ MayFail(steps[i].call)
    BY <1>3, HalgalInit DEF Failing
  <2>2. steps[i].call # "getuid"
    BY <2>1 DEF MayFail
  <2>3. \/ r = "state" /\ j = 1
        \/ r = "surface" /\ j = 4
        \/ r = "fd" /\ j = 6 /\ i = 7
    BY <1>3, HalgalInit, <2>1 DEF Step
  <2>4. steps[i].call = "mmap" <=> i = 7
    BY <1>3, HalgalInit, <2>1 DEF Step
  <2>5. InitLabel(l, steps[i].call) =
            IF i = 7 THEN {"fd", "surface", "state"} ELSE {"surface", "state"}
    BY <1>3, <2>2, <2>4 DEF InitLabel
  <2> HIDE DEF steps
  <2> QED BY <2>3, <2>5
<1> QED BY <1>1, <1>2, <1>3 DEF Libraries

\* "Otherwise, any allocated resources need to be freed by the backend itself."
\* (unicapture.h:36-39) holds of libgm, libvtcapture and, with root rights, libhalgal: a
\* capture_init that fails leaves nothing behind, at whichever call it failed.
THEOREM FailedInitLeavesNothing ==
    ASSUME "root" \notin Flaws, WithoutDile
    PROVE  Spec => FailedInitFreesAll
<1> DEFINE Others == library # "libdile_vt"
<1>1. Init => Others
  BY DEF Init
<1>2. ASSUME NEW l \in Libraries \ {"libdile_vt"}, InitFails(l)
      PROVE  lost' = lost
  BY <1>2, InitLabelsComplete DEF InitFails, Lose
<1>3. TypeOK /\ Others /\ HoldInv /\ [Next]_vars
        => /\ Others'
           /\ phase = "none" /\ phase' = "none" => lost' = lost
  <2> SUFFICES ASSUME TypeOK, Others, HoldInv, [Next]_vars
               PROVE  Others' /\ (phase = "none" /\ phase' = "none" => lost' = lost)
    OBVIOUS
  <2>1. trying \in Trying /\ library \in Libraries \cup {"none"}
    BY DEF TypeOK, Trying
  <2>2. CASE service_init
    BY <2>2 DEF service_init
  <2>3. CASE unicapture_try_backends
    <3>1. Head(trying) \in Libraries \ {"libdile_vt"}
      BY <2>1, <2>3, TryingShrinks DEF unicapture_try_backends, WithoutDile
    <3>2. CASE InitSucceeds(Head(trying))
      BY <3>1, <3>2 DEF InitSucceeds
    <3>3. CASE InitFails(Head(trying)) /\ UNCHANGED library
      BY <1>2, <3>1, <3>3
    <3> QED BY <2>3, <3>2, <3>3 DEF unicapture_try_backends
  <2>4. CASE Reinitialise
    <3>1. library \in Libraries \ {"libdile_vt"}
      BY <2>1, <2>4 DEF Reinitialise
    <3>2. CASE InitSucceeds(library)
      BY <3>1, <3>2 DEF InitSucceeds
    <3>3. CASE InitFails(library) /\ UNCHANGED library
      BY <1>2, <3>1, <3>3
    <3> QED BY <2>4, <3>2, <3>3 DEF Reinitialise
  <2>5. CASE capture_start
    BY <2>5 DEF capture_start
  <2>6. CASE capture_terminate
    BY <2>6 DEF capture_terminate
  <2>7. CASE capture_acquire_frame
    BY <2>7 DEF capture_acquire_frame
  <2>8. CASE capture_release_frame
    BY <2>8 DEF capture_release_frame
  <2>9. CASE capture_cleanup
    BY <2>9 DEF capture_cleanup
  <2>10. CASE UNCHANGED vars
    BY <2>10 DEF vars
  <2> QED
    BY <2>2, <2>3, <2>4, <2>5, <2>6, <2>7, <2>8, <2>9, <2>10 DEF Next
<1>4. HoldIInv => TypeOK /\ HoldInv
  BY DEF HoldIInv
<1>5. TypeOK /\ Others /\ HoldInv /\ [Next]_vars
        => [phase = "none" /\ phase' = "none" => lost' = lost]_vars
  BY <1>3
<1> QED BY <1>1, <1>3, <1>4, <1>5, HoldInductive, PTL DEF Spec, FailedInitFreesAll

--------------------------------------------------------------------------------
(* The caller.                                                             *)

Caller == INSTANCE CaptureContract

\* Frames are of running sessions.
FrameInv == frame \in BOOLEAN /\ (frame => phase = "started")

\* What Backends lets its caller do is what unicapture.h allows and, for a failed start,
\* repeats: the caller that UnicaptureProofs shows the capture threads to be.  So what is
\* proved here of the libraries holds under those threads, and not only when they are
\* driven in some better order.
THEOREM CallerIsTheContract == Spec => Caller!LenientSpec
<1>1. Init => Caller!ContractInit /\ FrameInv
  BY DEF Init, Caller!ContractInit, FrameInv
<1>2. HoldIInv /\ FrameInv /\ [Next]_vars
        => FrameInv' /\ [Caller!ContractNext \/ Caller!StartAgain]_(Caller!contractVars)
  <2> SUFFICES ASSUME HoldInv, FrameInv, [Next]_vars
               PROVE  /\ FrameInv'
                      /\ [Caller!ContractNext \/ Caller!StartAgain]_(Caller!contractVars)
    BY DEF HoldIInv
  <2> USE DEF FrameInv, Caller!ContractNext, Caller!contractVars
  <2>1. ASSUME NEW l, phase = "none", InitSucceeds(l) \/ InitFails(l)
        PROVE  /\ FrameInv'
               /\ [Caller!ContractNext \/ Caller!StartAgain]_(Caller!contractVars)
    <3>1. frame = FALSE /\ frame' = FALSE /\ phase' \in {"none", "ready"}
      BY <2>1 DEF InitSucceeds, InitFails
    <3> QED BY <2>1, <3>1 DEF Caller!capture_init
  <2>2. CASE service_init
    BY <2>2 DEF service_init
  <2>3. CASE unicapture_try_backends
    <3>1. phase = "none"
      BY <2>3 DEF HoldInv, unicapture_try_backends
    <3> QED BY <2>1, <2>3, <3>1 DEF unicapture_try_backends
  <2>4. CASE Reinitialise
    BY <2>1, <2>4 DEF Reinitialise
  <2>5. CASE capture_start
    BY <2>5 DEF capture_start, Caller!capture_start, Caller!StartAgain
  <2>6. CASE capture_terminate
    BY <2>6 DEF capture_terminate, Caller!capture_terminate
  <2>7. CASE capture_acquire_frame
    BY <2>7 DEF capture_acquire_frame, Caller!capture_acquire_frame
  <2>8. CASE capture_release_frame
    BY <2>8 DEF capture_release_frame, Caller!capture_release_frame
  <2>9. CASE capture_cleanup
    BY <2>9 DEF capture_cleanup, Caller!capture_cleanup
  <2>10. CASE UNCHANGED vars
    BY <2>10 DEF vars
  <2> QED
    BY <2>2, <2>3, <2>4, <2>5, <2>6, <2>7, <2>8, <2>9, <2>10 DEF Next
<1> QED BY <1>1, <1>2, HoldInductive, PTL DEF Spec, Caller!LenientSpec

================================================================================
