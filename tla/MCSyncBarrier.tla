---------------------------- MODULE MCSyncBarrier ----------------------------
(* SyncBarrier with a few threads, any non-empty set of which is enrolled. *)
EXTENDS SyncBarrier, TLC
==============================================================================
