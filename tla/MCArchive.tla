----------------------------- MODULE MCArchive -----------------------------
(* Two shards, so that one may flush and the other fail.                   *)
EXTENDS Archive
=============================================================================
