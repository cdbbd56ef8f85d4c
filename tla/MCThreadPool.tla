---------------------------- MODULE MCThreadPool ----------------------------
(* ThreadPool for TLC: the constants are given in the configurations.      *)
EXTENDS ThreadPool
=============================================================================
