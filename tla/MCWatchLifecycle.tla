-------------------------- MODULE MCWatchLifecycle --------------------------
(* WatchLifecycle for TLC: the constants are given in the .cfg files.      *)
EXTENDS WatchLifecycle
=============================================================================
