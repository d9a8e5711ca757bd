------------------------------- MODULE Config -------------------------------
(***************************************************************************)
(* The settings: config.yaml, the copy of ZestDB that accepts commands and *)
(* the copies of the shards that store values.  Of the fields of Settings  *)
(* the model keeps the ones that constrain one another (SegSize,           *)
(* MaxValueSize, MaxKeySize), Interval for the three intervals scfg can    *)
(* set, and Fixed for the paths, the ports, SSL and the connection limits, *)
(* which only a restart changes.  The other fields are free and are copied *)
(* with these.  The commands run under an exclusive writeMtx, one at a     *)
(* time.                                                                   *)
(***************************************************************************)
EXTENDS Naturals

CONSTANTS
    Sizes,         \* the numbers a file or a command may give for SegSize
                   \* and MaxValueSize,
    KeySizes,      \* for MaxKeySize
    Intervals,     \* and for an interval
    KeyLimit,      \* MAX_KEY_SIZE
    Fixeds,        \* the values of the fields only a restart changes
    UserLists,     \* the values of the users section
    NoUsers,       \* the users of a file without that section
    Refused,       \* those of Fixeds and UserLists that loadConfig refuses:
                   \* ports out of range, SSL without a key, an unknown role
    Defaults       \* the settings an empty file loads as

Settings == [SegSize : Sizes, MaxValueSize : Sizes, MaxKeySize : KeySizes,
             Interval : Intervals, Fixed : Fixeds]

ASSUME ConfigAssumption ==
    /\ Sizes \subseteq Nat /\ KeySizes \subseteq Nat /\ Intervals \subseteq Nat
    /\ KeyLimit \in KeySizes
    /\ NoUsers \in UserLists \ Refused
    /\ Defaults \in Settings /\ Defaults.Fixed \notin Refused

VARIABLES
    file,          \* config.yaml, see File
    settings,      \* ZestDB::settings
    shardSettings, \* the settings of the shards
    users,         \* ZestDB::users
    dbUp,          \* whether the process runs
    edited,        \* history: the sections of the file that were edited since
                   \* the program last loaded or saved it
    lost,          \* history: the sections a save has lost and none made since
    saveFailed     \* history: the last scfg failed to save

configVars == <<file, settings, shardSettings, users, dbUp, edited, lost, saveFailed>>

(* The text of the file is a mapping, empty, or not YAML. *)
File == [text : {"mapping", "empty", "broken"}, set : Settings, users : UserLists]

EmptyFile == [text |-> "empty", set |-> Defaults, users |-> NoUsers]

Sections == {"settings", "users"}

(* What the program relies on: a value that is accepted fits a segment, a  *)
(* key fits an index record, and no timer runs with an interval of 0.      *)
Sane(s) == s.MaxValueSize < s.SegSize /\ s.MaxKeySize <= KeyLimit /\ s.Interval >= 1

-----------------------------------------------------------------------------
(* loadConfig: MaxKeySize is clamped, the other faults are refused. *)
Loadable(f) ==
    /\ f.text # "broken"
    /\ f.set.MaxValueSize < f.set.SegSize
    /\ f.set.Interval >= 1
    /\ f.set.Fixed \notin Refused /\ f.users \notin Refused

LoadedSettings(f) ==
    IF f.set.MaxKeySize > KeyLimit THEN [f.set EXCEPT !.MaxKeySize = KeyLimit] ELSE f.set

(* Mutant: a field is left out of the node that is written. *)
SavedFileWithoutInterval(f, s) ==
    [f EXCEPT !.set = [s EXCEPT !.Interval = f.set.Interval]]

(* setConfig reads the file, replaces every setting and keeps the users. *)
SavedFile(f, s) == [f EXCEPT !.set = s]

-----------------------------------------------------------------------------
ConfigInit ==
    /\ file \in {f \in File : Loadable(f) /\ (f.text = "empty" => f = EmptyFile)}
    /\ settings = LoadedSettings(file)
    /\ shardSettings = settings
    /\ users = file.users
    /\ dbUp = TRUE
    /\ edited = {} /\ lost = {}
    /\ saveFailed = FALSE

(* Mutant: a value as long as a segment is allowed. *)
ScfgAcceptsEqual(field, n) ==
    /\ field = "SegSize" => n >= settings.MaxValueSize
    /\ field = "MaxValueSize" => n < settings.SegSize
    /\ field = "MaxKeySize" => n <= KeyLimit
    /\ field = "Interval" => n >= 1

(* The range checks of scfg. *)
ScfgAccepts(field, n) ==
    /\ field = "SegSize" => n > settings.MaxValueSize
    /\ field = "MaxValueSize" => n < settings.SegSize
    /\ field = "MaxKeySize" => n <= KeyLimit
    /\ field = "Interval" => n >= 1

(***************************************************************************)
(* scfg assigns the setting in memory, saves the file and then hands the   *)
(* settings to the shards.  A file that is no mapping makes setConfig      *)
(* throw, before it writes and before the shards are told.  Nothing looks  *)
(* at the state of the stream: scfg succeeds when the file cannot be       *)
(* opened, and when a full disk leaves it empty.                           *)
(***************************************************************************)
Scfg(field, n) ==
    /\ dbUp /\ ScfgAccepts(field, n)
    /\ settings' = [settings EXCEPT ![field] = n]
    /\ \/ /\ file.text = "mapping"
          /\ shardSettings' = settings' /\ saveFailed' = FALSE
          /\ \/ /\ file' = SavedFile(file, settings')
                /\ edited' = edited \ {"settings"} /\ lost' = lost \ {"settings"}
             \/ file' = EmptyFile /\ lost' = Sections /\ UNCHANGED edited
             \/ lost' = lost \cup {"settings"} /\ UNCHANGED <<file, edited>>
       \/ /\ file.text # "mapping"
          /\ saveFailed' = TRUE /\ UNCHANGED <<file, shardSettings, edited, lost>>
    /\ UNCHANGED <<users, dbUp>>

(* Mutant: the shards keep the settings they were started with. *)
ReloadNotToShards ==
    /\ dbUp /\ Loadable(file) /\ file.set.Fixed = settings.Fixed
    /\ settings' = LoadedSettings(file)
    /\ users' = file.users
    /\ edited' = {} /\ lost' = {}
    /\ saveFailed' = FALSE
    /\ UNCHANGED <<file, shardSettings, dbUp>>

(* reload: everything or, when a check refuses the file, nothing. *)
Reload ==
    /\ dbUp /\ Loadable(file) /\ file.set.Fixed = settings.Fixed
    /\ settings' = LoadedSettings(file)
    /\ shardSettings' = settings'
    /\ users' = file.users
    /\ edited' = {} /\ lost' = {}
    /\ saveFailed' = FALSE
    /\ UNCHANGED <<file, dbUp>>

(* An empty file is a mapping once something is written to it. *)
Rewritten == IF file.text = "empty" THEN [file EXCEPT !.text = "mapping"] ELSE file

(* The administrator writes other settings or other users, which may make  *)
(* no sense, breaks the syntax of the file or repairs it, or empties it.   *)
EditFile ==
    /\ \/ /\ \E s \in Settings : file' = [Rewritten EXCEPT !.set = s]
          /\ edited' = edited \cup {"settings"}
       \/ /\ \E u \in UserLists : file' = [Rewritten EXCEPT !.users = u]
          /\ edited' = edited \cup {"users"}
       \/ file.text = "mapping" /\ file' = [file EXCEPT !.text = "broken"] /\ edited' = Sections
       \/ file.text = "broken" /\ file' = [file EXCEPT !.text = "mapping"] /\ edited' = Sections
       \/ file' = EmptyFile /\ edited' = Sections
    /\ UNCHANGED <<settings, shardSettings, users, dbUp, lost, saveFailed>>

(* The process stops, in any way, between two commands. *)
Exit == dbUp /\ dbUp' = FALSE
    /\ UNCHANGED <<file, settings, shardSettings, users, edited, lost, saveFailed>>

(* The process dies inside setConfig, which truncates the file before it   *)
(* writes it.                                                              *)
ExitInSave ==
    /\ dbUp /\ file.text = "mapping"
    /\ file' = EmptyFile /\ lost' = Sections
    /\ dbUp' = FALSE
    /\ UNCHANGED <<settings, shardSettings, users, edited, saveFailed>>

(* boot; a file that cannot be loaded ends the process again. *)
Start ==
    /\ ~dbUp /\ Loadable(file)
    /\ settings' = LoadedSettings(file)
    /\ shardSettings' = settings'
    /\ users' = file.users
    /\ dbUp' = TRUE
    /\ edited' = {} /\ lost' = {}
    /\ saveFailed' = FALSE
    /\ UNCHANGED file

ConfigNext ==
    \/ \E field \in {"SegSize", "MaxValueSize"}, n \in Sizes : Scfg(field, n)
    \/ \E n \in KeySizes : Scfg("MaxKeySize", n)
    \/ \E n \in Intervals : Scfg("Interval", n)
    \/ Reload
    \/ EditFile
    \/ Exit
    \/ ExitInSave
    \/ Start

ConfigSpec == ConfigInit /\ [][ConfigNext]_configVars

-----------------------------------------------------------------------------
(* Properties *)

(***************************************************************************)
(* No sequence of scfg, hand edits, reloads and restarts makes the running *)
(* program work with settings that contradict one another, in ZestDB or in *)
(* a shard: each check looks at one field against what is in memory then.  *)
(***************************************************************************)
SettingsSane == dbUp => Sane(settings) /\ Sane(shardSettings)

(***************************************************************************)
(* What scfg and reload answered with success is what a restart loads, as  *)
(* long as nobody edits that section of the file and no save loses it; an  *)
(* scfg overwrites edited or lost settings and keeps the users.            *)
(***************************************************************************)
RestartKeeps ==
    dbUp => /\ "settings" \notin edited \cup lost /\ ~saveFailed => LoadedSettings(file) = settings
            /\ "users" \notin edited \cup lost => file.users = users
            /\ edited \cup lost = {} => Loadable(file)

(***************************************************************************)
(* A value ZestDB accepts fits the segments of the shards, except after an *)
(* scfg whose save failed: it holds in ZestDB and not in the shards until  *)
(* the next scfg or reload that succeeds.                                  *)
(***************************************************************************)
AcceptedFits == dbUp /\ ~saveFailed => settings.MaxValueSize < shardSettings.SegSize

(***************************************************************************)
(* The inductive invariant of the settings: the three properties, and why  *)
(* they last.  The settings in memory passed the checks of a load, and the *)
(* copies differ only after an scfg that failed.                           *)
(***************************************************************************)
ConfigTypeOK ==
    /\ file \in File /\ settings \in Settings /\ shardSettings \in Settings
    /\ users \in UserLists /\ edited \subseteq Sections /\ lost \subseteq Sections
    /\ dbUp \in BOOLEAN /\ saveFailed \in BOOLEAN

ConfigInv ==
    /\ ConfigTypeOK
    /\ SettingsSane /\ RestartKeeps
    /\ dbUp => /\ settings.Fixed \notin Refused /\ users \notin Refused
               /\ saveFailed \/ shardSettings = settings
=============================================================================
