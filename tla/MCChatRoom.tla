------------------------------ MODULE MCChatRoom ------------------------------
(* ChatRoom for TLC.                                                       *)
EXTENDS ChatRoom, TLC

\* Pids are neither compared nor counted with.
MCSymmetry == Permutations(Pids)
=============================================================================
