---------------------------- MODULE Config_proofs ----------------------------
(***************************************************************************)
(* The settings' properties for every set of sizes, intervals and users.   *)
(***************************************************************************)
EXTENDS Config, TLAPS

(* What loadConfig returns is a sane set of settings. *)
LEMMA LoadedSane ==
  ASSUME NEW f \in File, Loadable(f)
  PROVE  /\ LoadedSettings(f) \in Settings
         /\ Sane(LoadedSettings(f))
         /\ LoadedSettings(f).Fixed \notin Refused
BY ConfigAssumption DEF File, Settings, Loadable, LoadedSettings, Sane

(* Sane settings are loaded as they were saved. *)
LEMMA SaneLoadsBack ==
  ASSUME NEW f \in File, NEW s \in Settings, Sane(s), f.set = s
  PROVE  LoadedSettings(f) = s
BY ConfigAssumption DEF Settings, LoadedSettings, Sane

(* An accepted scfg makes sane settings of sane settings. *)
LEMMA ScfgSane ==
  ASSUME NEW s \in Settings, Sane(s), NEW t, NEW field, NEW n,
         \/ field \in {"SegSize", "MaxValueSize"} /\ n \in Sizes
         \/ field = "MaxKeySize" /\ n \in KeySizes
         \/ field = "Interval" /\ n \in Intervals,
         settings = s, ScfgAccepts(field, n), t = [s EXCEPT ![field] = n]
  PROVE  t \in Settings /\ Sane(t) /\ t.Fixed = s.Fixed
<1>1. CASE field = "SegSize"
  BY <1>1, ConfigAssumption DEF Settings, Sane, ScfgAccepts
<1>2. CASE field = "MaxValueSize"
  BY <1>2, ConfigAssumption DEF Settings, Sane, ScfgAccepts
<1>3. CASE field = "MaxKeySize"
  BY <1>3, ConfigAssumption DEF Settings, Sane, ScfgAccepts
<1>4. CASE field = "Interval"
  BY <1>4, ConfigAssumption DEF Settings, Sane, ScfgAccepts
<1> QED
  BY <1>1, <1>2, <1>3, <1>4

(* A load that succeeds, by reload or at a start, establishes the invariant. *)
LEMMA LoadInv ==
  ASSUME file \in File, Loadable(file), file' = file,
         settings' = LoadedSettings(file), shardSettings' = settings', users' = file.users,
         edited' = {}, lost' = {}, saveFailed' = FALSE, dbUp' \in BOOLEAN
  PROVE  ConfigInv'
<1>1. settings' \in Settings /\ Sane(settings') /\ settings'.Fixed \notin Refused
  BY LoadedSane
<1>2. file.users \in UserLists \ Refused
  BY DEF File, Loadable
<1>3. SettingsSane' /\ RestartKeeps'
  BY <1>1 DEF SettingsSane, RestartKeeps, Sane, Loadable, LoadedSettings
<1> QED
  BY <1>1, <1>2, <1>3 DEF ConfigInv, ConfigTypeOK

(* scfg keeps the invariant, whether or not the file can be saved. *)
LEMMA ScfgInv ==
  ASSUME ConfigInv, NEW field, NEW n, Scfg(field, n),
         \/ field \in {"SegSize", "MaxValueSize"} /\ n \in Sizes
         \/ field = "MaxKeySize" /\ n \in KeySizes
         \/ field = "Interval" /\ n \in Intervals
  PROVE  ConfigInv'
<1>1. /\ dbUp /\ dbUp' /\ users' = users /\ ScfgAccepts(field, n)
      /\ settings' = [settings EXCEPT ![field] = n]
  BY DEF Scfg, ConfigInv, ConfigTypeOK
<1>2. /\ file \in File /\ settings \in Settings /\ shardSettings \in Settings
      /\ users \in UserLists \ Refused /\ edited \subseteq Sections
      /\ Sane(settings) /\ Sane(shardSettings) /\ settings.Fixed \notin Refused
  BY <1>1 DEF ConfigInv, ConfigTypeOK, SettingsSane
<1>3. settings' \in Settings /\ Sane(settings') /\ settings'.Fixed \notin Refused
  BY <1>1, <1>2, ScfgSane
<1>4. "users" \notin edited \cup lost => file.users = users
  BY <1>1 DEF ConfigInv, RestartKeeps
<1>5. /\ EmptyFile \in File /\ lost \subseteq Sections
      /\ edited \cup lost = {} => Loadable(file)
  BY <1>1, ConfigAssumption DEF EmptyFile, File, ConfigInv, ConfigTypeOK, RestartKeeps
<1>6. ASSUME shardSettings' = settings', saveFailed' = FALSE, file' = SavedFile(file, settings'),
             edited' = edited \ {"settings"}, lost' = lost \ {"settings"}, file.text = "mapping"
      PROVE  ConfigInv'
  <2>1. file' \in File /\ file'.set = settings' /\ file'.text = "mapping" /\ file'.users = file.users
    BY <1>2, <1>3, <1>6 DEF File, SavedFile
  <2>2. LoadedSettings(file') = settings'
    BY <1>3, <2>1, SaneLoadsBack
  <2>3. file'.users \notin Refused => Loadable(file')
    BY <1>3, <2>1 DEF Loadable, Sane
  <2>4. "users" \notin edited' \cup lost' => file'.users = users'
    BY <1>1, <1>4, <1>6, <2>1
  <2>5. RestartKeeps'
    BY <1>1, <1>2, <2>2, <2>3, <2>4 DEF RestartKeeps, LoadedSettings, Loadable
  <2>6. SettingsSane'
    BY <1>3, <1>6 DEF SettingsSane, Sane
  <2> QED
    BY <1>1, <1>2, <1>3, <1>5, <1>6, <2>1, <2>5, <2>6 DEF ConfigInv, ConfigTypeOK
<1>7. ASSUME shardSettings' = settings', saveFailed' = FALSE, edited' = edited,
             \/ file' = EmptyFile /\ lost' = Sections
             \/ file' = file /\ lost' = lost \cup {"settings"}
      PROVE  ConfigInv'
  <2>1. RestartKeeps'
    BY <1>1, <1>4, <1>7 DEF RestartKeeps, Sections
  <2>2. SettingsSane'
    BY <1>3, <1>7 DEF SettingsSane, Sane
  <2>3. file' \in File /\ lost' \subseteq Sections /\ edited' \subseteq Sections
    BY <1>2, <1>5, <1>7 DEF Sections
  <2> QED
    BY <1>1, <1>2, <1>3, <1>7, <2>1, <2>2, <2>3 DEF ConfigInv, ConfigTypeOK
<1>8. ASSUME saveFailed' = TRUE, UNCHANGED <<file, shardSettings, edited, lost>>
      PROVE  ConfigInv'
  <2>1. RestartKeeps'
    BY <1>1, <1>4, <1>5, <1>8 DEF RestartKeeps, Loadable
  <2>2. SettingsSane'
    BY <1>2, <1>3, <1>8 DEF SettingsSane, Sane
  <2> QED
    BY <1>1, <1>2, <1>3, <1>5, <1>8, <2>1, <2>2 DEF ConfigInv, ConfigTypeOK
<1> QED
  BY <1>6, <1>7, <1>8 DEF Scfg

(* The administrator's edits mark what they change. *)
LEMMA EditInv ==
  ASSUME ConfigInv, EditFile
  PROVE  ConfigInv'
<1>1. UNCHANGED <<settings, shardSettings, users, dbUp, lost, saveFailed>>
  BY DEF EditFile
<1>2. SettingsSane'
  BY <1>1 DEF ConfigInv, SettingsSane, Sane
<1>3. /\ file \in File /\ Rewritten \in File /\ Rewritten.set = file.set /\ Rewritten.users = file.users
      /\ EmptyFile \in File
  BY ConfigAssumption DEF ConfigInv, ConfigTypeOK, File, Rewritten, EmptyFile
<1>4. ASSUME NEW s \in Settings, file' = [Rewritten EXCEPT !.set = s],
             edited' = edited \cup {"settings"}
      PROVE  ConfigInv'
  <2>1. file' \in File /\ file'.users = file.users
    BY <1>3, <1>4 DEF File
  <2> QED
    BY <1>1, <1>2, <1>4, <2>1 DEF ConfigInv, ConfigTypeOK, RestartKeeps, Sections
<1>5. ASSUME NEW u \in UserLists, file' = [Rewritten EXCEPT !.users = u],
             edited' = edited \cup {"users"}
      PROVE  ConfigInv'
  <2>1. file' \in File /\ file'.set = file.set
    BY <1>3, <1>5 DEF File
  <2> QED
    BY <1>1, <1>2, <1>5, <2>1
       DEF ConfigInv, ConfigTypeOK, RestartKeeps, Sections, LoadedSettings
<1>6. ASSUME file' \in File, edited' = Sections
      PROVE  ConfigInv'
  BY <1>1, <1>2, <1>6 DEF ConfigInv, ConfigTypeOK, RestartKeeps, Sections
<1>7. [file EXCEPT !.text = "broken"] \in File /\ [file EXCEPT !.text = "mapping"] \in File
  BY <1>3 DEF File
<1> QED
  BY <1>3, <1>4, <1>5, <1>6, <1>7 DEF EditFile

(* A process that has stopped has nothing in memory to agree with. *)
LEMMA DownInv ==
  ASSUME ConfigInv, dbUp' = FALSE, file' \in File, lost' \subseteq Sections,
         UNCHANGED <<settings, shardSettings, users, edited, saveFailed>>
  PROVE  ConfigInv'
BY DEF ConfigInv, ConfigTypeOK, SettingsSane, RestartKeeps

(* Every step of the settings keeps the invariant. *)
LEMMA ConfigNextInv == ConfigInv /\ [ConfigNext]_configVars => ConfigInv'
<1> SUFFICES ASSUME ConfigInv, [ConfigNext]_configVars PROVE ConfigInv'
  OBVIOUS
<1>1. ASSUME NEW field \in {"SegSize", "MaxValueSize"}, NEW n \in Sizes, Scfg(field, n)
      PROVE  ConfigInv'
  BY <1>1, ScfgInv
<1>2. ASSUME NEW n \in KeySizes, Scfg("MaxKeySize", n) PROVE ConfigInv'
  BY <1>2, ScfgInv
<1>3. ASSUME NEW n \in Intervals, Scfg("Interval", n) PROVE ConfigInv'
  BY <1>3, ScfgInv
<1>4. CASE Reload
  BY <1>4, LoadInv DEF Reload, ConfigInv, ConfigTypeOK
<1>5. CASE EditFile
  BY <1>5, EditInv
<1>6. CASE Exit
  BY <1>6, DownInv DEF Exit, ConfigInv, ConfigTypeOK
<1>7. CASE ExitInSave
  <2>1. file' \in File
    BY <1>7, ConfigAssumption DEF ExitInSave, EmptyFile, File
  <2> QED
    BY <1>7, <2>1, DownInv DEF ExitInSave
<1>8. CASE Start
  BY <1>8, LoadInv DEF Start, ConfigInv, ConfigTypeOK
<1>9. CASE UNCHANGED configVars
  BY <1>9 DEF configVars, ConfigInv, ConfigTypeOK, SettingsSane, RestartKeeps,
              Sane, LoadedSettings, Loadable
<1> QED
  BY <1>1, <1>2, <1>3, <1>4, <1>5, <1>6, <1>7, <1>8, <1>9 DEF ConfigNext

(* The invariant holds in every reachable state. *)
LEMMA ConfigInvHolds == ConfigSpec => []ConfigInv
<1>1. ConfigInit => ConfigInv
  <2> SUFFICES ASSUME ConfigInit PROVE ConfigInv
    OBVIOUS
  <2>1. settings \in Settings /\ Sane(settings) /\ settings.Fixed \notin Refused
    BY LoadedSane DEF ConfigInit
  <2>2. file \in File /\ Loadable(file) /\ file.users \in UserLists \ Refused
    BY DEF ConfigInit, File, Loadable
  <2> QED
    BY <2>1, <2>2 DEF ConfigInit, ConfigInv, ConfigTypeOK, SettingsSane, RestartKeeps, Sane
<1> QED
  BY <1>1, ConfigNextInv, PTL DEF ConfigSpec

(***************************************************************************)
(* No sequence of scfg, reload, hand edits, crashes and restarts makes the *)
(* program run with settings that contradict one another.                  *)
(***************************************************************************)
THEOREM SettingsAlwaysSane == ConfigSpec => []SettingsSane
BY ConfigInvHolds, PTL DEF ConfigInv

(***************************************************************************)
(* A restart loads what scfg and reload have answered with success, unless *)
(* the file was edited since, or a save lost it.                           *)
(***************************************************************************)
THEOREM SettingsSurviveRestart == ConfigSpec => []RestartKeeps
BY ConfigInvHolds, PTL DEF ConfigInv

(***************************************************************************)
(* What ZestDB accepts, its shards can store, unless the last scfg failed  *)
(* to save.                                                                *)
(***************************************************************************)
THEOREM AcceptedValuesFit == ConfigSpec => []AcceptedFits
<1>1. ConfigInv => AcceptedFits
  BY DEF ConfigInv, SettingsSane, AcceptedFits, Sane
<1> QED
  BY <1>1, ConfigInvHolds, PTL
=============================================================================
