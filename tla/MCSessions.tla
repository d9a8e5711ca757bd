----------------------------- MODULE MCSessions -----------------------------
(* Two sessions on threads of their own, and batches of two commands.      *)
EXTENDS Sessions
=============================================================================
