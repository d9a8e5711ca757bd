------------------------------- MODULE MCBulk -------------------------------
(***************************************************************************)
(* Three keys in two shards, so that the limits fall on a shard boundary   *)
(* and inside a shard.  One client gives one command, another deletes in   *)
(* bulk at the same time and competes for the workers.                     *)
(***************************************************************************)
EXTENDS Bulk, TLC

CONSTANTS c1, c2

MCShardOf == 1 :> 1 @@ 2 :> 2 @@ 3 :> 1

MCGives ==
    c1 :> {<<"getby", 2>>, <<"setby", 2>>, <<"setby", NoLimit>>, <<"delby", 1>>}
 @@ c2 :> {<<"delby", NoLimit>>}

(***************************************************************************)
(* "Update the value of all matching keys" (README:168): a limited setBy   *)
(* updates keys that exist.  Its keys were chosen under each shard's lock, *)
(* and are set one by one after it was given back (ShardManager.cpp:98).   *)
(***************************************************************************)
SetByUpdates == [][\A c \in Clients : ApplyOne(c) => present' \subseteq present]_vars
=============================================================================
