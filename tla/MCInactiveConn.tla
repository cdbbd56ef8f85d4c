--------------------------- MODULE MCInactiveConn ---------------------------
(* Instances of InactiveConn for TLC.                                      *)
EXTENDS InactiveConn, TLC

\* Neither descriptors nor addresses of timers are compared or counted with.
MCSymmetry == Permutations(Fds) \union Permutations(Timers)
=============================================================================
