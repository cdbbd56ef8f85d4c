------------------------------ MODULE MCTimeHeap ------------------------------
(* TimeHeap for TLC.                                                       *)
EXTENDS TimeHeap, TLC

\* Addresses of timers are neither compared nor counted with.
MCSymmetry == Permutations(Timers)
=============================================================================
