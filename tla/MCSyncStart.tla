----------------------------- MODULE MCSyncStart -----------------------------
(* SyncStart with a few threads, any set of which is created. *)
EXTENDS SyncStart, TLC
==============================================================================
