---------------------------- MODULE TimerAddresses ----------------------------
(* What the sorted list and the heap of timers (ch-11) have in common: the *)
(* addresses of timers.                                                    *)
EXTENDS FiniteSets

CONSTANTS Timers,  \* the addresses new may return for a timer
          Null     \* nullptr

ASSUME TimersAssumption == IsFiniteSet(Timers) /\ Null \notin Timers

Pointer == Timers \union {Null}
=============================================================================
