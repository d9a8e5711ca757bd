------------------------------ MODULE MCCauses ------------------------------
(***************************************************************************)
(* What the causes of Durability cost: one database for each, to which     *)
(* nothing else of Causes happens.  When it has lost an acknowledged write *)
(* it is the next one's turn.                                              *)
(***************************************************************************)
EXTENDS Durability, TLC

CONSTANTS k1, k2, v1, v2, t1, t2

VARIABLE
    left         \* the causes that have cost nothing yet, in turn

MCKeys == {k1, k2}
MCShardOf == k1 :> 1 @@ k2 :> 2
MCSessions == {t1, t2}
MCSymmetry == Permutations(MCSessions)

InTurn == <<"move", "refused", "early", "overwrite", "race", "torn", "pattern", "limit">>

(* Where a cause shows: the commands given, how many of them, the crashes. *)
Scene(cause) ==
    [ops |-> CASE cause = "pattern" -> {"s", "db"}
               [] cause = "limit" -> {"s", "db1"}
               [] OTHER -> {"s"},
     writes |-> CASE cause \in {"move", "refused"} -> 1
                  [] cause = "limit" -> 3
                  [] OTHER -> 2,
     crashes |-> IF cause = "early" THEN 2 ELSE 1,
     vals |-> IF cause \in {"race", "overwrite"} THEN Values ELSE {v1},
     busy |-> IF cause = "race" THEN 2 ELSE 1]

InScene(cause) ==
    LET scene == Scene(cause) IN
    /\ \A k \in Keys : risk'[k] \subseteq {cause}
    /\ \A t \in Sessions :
          cmd'[t] = NoCmd \/ (cmd'[t].op \in scene.ops /\ cmd'[t].val \in scene.vals \cup {NoVal})
    /\ Cardinality({t \in Sessions : cmd'[t] # NoCmd \/ batch'[t] # {}}) <= scene.busy
    /\ writes' <= scene.writes /\ crashes' <= scene.crashes

(* An acknowledged write of a key is lost to the cause, as in AckedSurvive. *)
Costs(cause) ==
    phase = "up" /\ \E k \in Keys : risk[k] = {cause} /\ \A w \in tail[k] : w.val # kv[k]

(* The initial state of Durability. *)
NewDatabase ==
    /\ kv' = [k \in Keys |-> NoVal] /\ hist' = [k \in Keys |-> {NoVal}] /\ exposed' = {}
    /\ wal' = [s \in Shards |-> <<>>] /\ walSynced' = [s \in Shards |-> 0]
    /\ torn' = [s \in Shards |-> FALSE] /\ nextSeq' = 0
    /\ phase' = "up" /\ todo' = <<>> /\ flushing' = NoFlush
    /\ cmd' = [t \in Sessions |-> NoCmd] /\ batch' = [t \in Sessions |-> {}]
    /\ tail' = [k \in Keys |-> {[id |-> 0, val |-> NoVal]}]
    /\ risk' = [k \in Keys |-> {}] /\ moved' = {} /\ writes' = 0 /\ crashes' = 0

CausesInit == Init /\ left = InTurn

CausesNext ==
    /\ left # <<>>
    /\ IF Costs(Head(left)) THEN NewDatabase /\ left' = Tail(left)
       ELSE Next /\ InScene(Head(left)) /\ UNCHANGED left

CausesSpec == CausesInit /\ [][CausesNext]_<<vars, left>>

(***************************************************************************)
(* "Every successful mutating command is appended to a WAL file, which     *)
(* guarantees durability across unexpected shutdowns" (README:67): so not  *)
(* each of the causes costs an acknowledged write; at the very least one   *)
(* of them is harmless.                                                    *)
(***************************************************************************)
OneIsHarmless == left # <<>>
=============================================================================
