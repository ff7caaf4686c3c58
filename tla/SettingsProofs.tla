----------------------------- MODULE SettingsProofs -----------------------------
(***************************************************************************)
(* Theorems about Settings, for any addresses and names, any keys a        *)
(* message may leave out, any crash points and any faults.                 *)
(***************************************************************************)
EXTENDS Settings, TLAPS

--------------------------------------------------------------------------------
\* Loading keeps every field in its type, also when it read freed memory.
LEMMA LoadTypes ==
    ASSUME TypeOK, NEW given \in SUBSET Keys, NEW json \in SettingsType,
           settings_load_json(given, json)
    PROVE  /\ settings' \in SettingsType
           /\ ptr' \in [Lists -> {"null", "live", "freed"}]
<1> USE DEF TypeOK, settings_load_json, Lists
<1>1. Loaded(given, json) \in SettingsType
  BY DEF Loaded, SettingsType
<1>2. \A garbage \in SUBSET Names :
          [Loaded(given, json) EXCEPT !.adjustments = garbage] \in SettingsType
  BY <1>1 DEF SettingsType
<1>3. settings' \in SettingsType
  BY <1>1, <1>2
<1>4. ptr' \in [Lists -> {"null", "live", "freed"}]
  BY DEF PointersAfter
<1> QED BY <1>3, <1>4

\* The settings, the file and the history stay in their types, crashes included.
THEOREM TypeCorrect == Spec => []TypeOK
<1>0. Defaults \in SettingsType /\ NullPointers \in [Lists -> {"null", "live", "freed"}]
  BY SettingsAssumption DEF Defaults, NullPointers, SettingsType
<1>1. Init => TypeOK
  BY <1>0 DEF Init, TypeOK
<1>2. TypeOK /\ [Next]_vars => TypeOK'
  <2> SUFFICES ASSUME TypeOK, [Next]_vars PROVE TypeOK'
    OBVIOUS
  <2> USE DEF Steps
  <2>1. CASE Boot
    BY <2>1, <1>0 DEF Boot, TypeOK
  <2>2. CASE Load
    <3>1. PICK omitted \in SUBSET MayOmit, json \in SettingsType :
              settings_load_json(Keys \ omitted, json)
      BY <2>2 DEF Load
    <3>2. /\ settings' \in SettingsType
          /\ ptr' \in [Lists -> {"null", "live", "freed"}]
      BY <3>1, LoadTypes
    <3> QED BY <2>2, <3>2 DEF Load, TypeOK
  <2>3. CASE Truncate
    BY <2>3 DEF Truncate, TypeOK
  <2>4. CASE SaveFails
    BY <2>4 DEF SaveFails, TypeOK
  <2>5. CASE Write \/ WriteFails
    BY <2>5 DEF Write, WriteFails, TypeOK
  <2>6. CASE Unlink
    BY <2>6 DEF Unlink, LinkStep, TypeOK
  <2>7. CASE Symlink
    BY <2>7 DEF Symlink, LinkStep, TypeOK
  <2>8. CASE Reply
    BY <2>8 DEF Reply, TypeOK
  <2>9. CASE Crash
    BY <2>9, <1>0 DEF Crash, TypeOK
  <2>10. CASE UNCHANGED vars
    BY <2>10 DEF vars, TypeOK
  <2> QED BY <2>1, <2>2, <2>3, <2>4, <2>5, <2>6, <2>7, <2>8, <2>9, <2>10
          DEF Next, set_settings
<1> QED BY <1>1, <1>2, PTL DEF Spec

--------------------------------------------------------------------------------
(* Settings survive restarts.                                              *)

\* What the file holds is promised, and once the file is written it is what is in
\* memory: that is what makes the promise of Reply safe.
FileInv ==
    /\ pc \in {"save", "write"} => settings \in promised
    /\ file = "torn" => pc = "write" \/ "save" \in mishaps
    /\ "save" \notin mishaps =>
        /\ file = "none" => Defaults \in promised
        /\ file = "whole" => saved \in promised
        /\ pc \in {"unlink", "symlink", "reply"} => file = "whole" /\ saved = settings

SurviveIInv == SettingsSurvive /\ FileInv

\* What was acknowledged comes back after every crash, unless the save of it
\* failed or the crash hit the rewrite of the file; a later save mends both.
THEOREM SettingsComeBack == Spec => []SettingsSurvive
<1> USE DEF SurviveIInv, SettingsSurvive, FileInv
<1>1. Init => SurviveIInv
  BY DEF Init
<1>2. SurviveIInv /\ TypeOK /\ [Next]_vars => SurviveIInv'
  <2> SUFFICES ASSUME SurviveIInv, TypeOK, [Next]_vars PROVE SurviveIInv'
    OBVIOUS
  <2> USE DEF TypeOK
  <2>1. CASE Boot
    BY <2>1 DEF Boot
  <2>2. CASE Load
    BY <2>2 DEF Load
  <2>3. CASE Truncate
    BY <2>3 DEF Truncate
  <2>4. CASE SaveFails
    BY <2>4 DEF SaveFails
  <2>5. CASE Write \/ WriteFails
    BY <2>5 DEF Write, WriteFails
  <2>6. CASE Unlink
    BY <2>6 DEF Unlink, LinkStep
  <2>7. CASE Symlink
    BY <2>7 DEF Symlink, LinkStep
  <2>8. CASE Reply
    BY <2>8 DEF Reply
  <2>9. CASE Crash
    BY <2>9 DEF Crash
  <2>10. CASE UNCHANGED vars
    BY <2>10 DEF vars
  <2> QED BY <2>1, <2>2, <2>3, <2>4, <2>5, <2>6, <2>7, <2>8, <2>9, <2>10
          DEF Next, set_settings
<1> QED BY <1>1, <1>2, TypeCorrect, PTL DEF Spec

--------------------------------------------------------------------------------
\* What the three steps after the save know about the link.
LinkInv ==
    /\ pc = "symlink" /\ "link" \notin mishaps => symlink = FALSE
    /\ pc = "reply" /\ "link" \notin mishaps => symlink = settings.autostart

\* An answered request leaves the link as the settings say, whatever state earlier
\* crashes left it in: it is removed before it is made.
THEOREM LinkIsAcknowledged == Spec => AcknowledgedLink
<1>1. Init => LinkInv
  BY DEF Init, LinkInv
<1>2. LinkInv /\ TypeOK /\ [Next]_vars => LinkInv'
  <2> SUFFICES ASSUME LinkInv, TypeOK, [Next]_vars PROVE LinkInv'
    OBVIOUS
  <2>1. CASE Unlink
    BY <2>1 DEF Unlink, LinkStep, LinkInv
  <2>2. CASE Symlink
    <3>1. CASE settings.autostart
      BY <2>2, <3>1 DEF Symlink, LinkStep, LinkInv, TypeOK, SettingsType
    <3>2. CASE ~settings.autostart
      BY <2>2, <3>2 DEF Symlink, LinkInv, TypeOK, SettingsType
    <3> QED BY <3>1, <3>2
  <2>3. CASE pc' \notin {"symlink", "reply"}
    BY <2>3 DEF LinkInv
  <2>4. CASE UNCHANGED vars
    BY <2>4 DEF vars, LinkInv
  <2> QED BY <2>1, <2>2, <2>3, <2>4
          DEF Next, set_settings, Boot, Load, Truncate, SaveFails, Write, WriteFails,
              Reply, Crash
<1>3. LinkInv /\ [Next]_vars =>
        [Reply /\ "link" \notin mishaps => symlink = settings.autostart]_vars
  BY DEF LinkInv, Reply
<1> QED BY <1>1, <1>2, <1>3, TypeCorrect, PTL DEF Spec, AcknowledgedLink
================================================================================
