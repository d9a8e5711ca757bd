---------------------------- MODULE MCSentences ----------------------------
(***************************************************************************)
(* Three sentences of the README on what is stored: of the INDEX, here on  *)
(* a disk that is full at times, and of the settings.                      *)
(***************************************************************************)
EXTENDS IndexLog, Config

CONSTANTS u1, u2

VARIABLES
    good,        \* whether the stream of the INDEX is in a good state
    broken       \* the lines of the README that a step has contradicted

MCSizeOf == [v \in Values |-> 1]

MCDefaults == [SegSize |-> 2, MaxValueSize |-> 1, MaxKeySize |-> 1, Interval |-> 1, Fixed |-> 1]

Indexed == {[seg |-> s, off |-> 0, size |-> 1] : s \in SegIds}

(* append clears the state of the stream before it writes; a flush looks   *)
(* at the state the last append has left.                                  *)
FullDiskNext ==
    \/ \E k \in Keys, loc \in Indexed :
          \/ Insert(k, loc) /\ good' = TRUE
          \/ InsertUnwritten(k, loc) /\ good' = FALSE
    \/ IndexFlush /\ good /\ UNCHANGED good

(* "A set appends the new entry" (line 57): when a flush has succeeded,    *)
(* after which the WAL is cleared, the INDEX loads into the map in memory. *)
FlushedIsLogged == IndexFlush => Loads(log, mem)

(* "Changes made via scfg are persisted back to config.yaml" (line 100): a *)
(* start finds the settings of every scfg that succeeded, when nobody has  *)
(* edited the file.                                                        *)
ScfgPersists == Start /\ edited = {} /\ ~saveFailed => settings' = settings

(* MaxValueSize "must be less than SegSize" (line 205), that of the        *)
(* shards, which store the values.                                         *)
ShardsFit == dbUp => settings.MaxValueSize < shardSettings.SegSize

SentencesInit ==
    /\ IndexInit /\ good = TRUE
    /\ ConfigInit /\ file.text = "mapping" /\ settings = MCDefaults
    /\ broken = {}

(* The INDEX first, then the settings. *)
SentencesNext ==
    \/ /\ 57 \notin broken /\ FullDiskNext /\ UNCHANGED configVars
       /\ broken' = IF FlushedIsLogged THEN broken ELSE broken \cup {57}
    \/ /\ 57 \in broken /\ ConfigNext /\ UNCHANGED <<indexVars, good>>
       /\ broken' = broken \cup {n \in {100, 205} : (n = 100 /\ ~ScfgPersists)
                                                    \/ (n = 205 /\ ~ShardsFit')}

SentencesSpec ==
    SentencesInit /\ [][SentencesNext]_<<indexVars, good, configVars, broken>>

(***************************************************************************)
(* What lines 57, 100 and 205 of the README say is not all contradicted by *)
(* what the code does: FlushedIsLogged, ScfgPersists and ShardsFit.        *)
(***************************************************************************)
OneIsTrue == broken # {57, 100, 205}
=============================================================================
