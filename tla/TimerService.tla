----------------------------- MODULE TimerService -----------------------------
(***************************************************************************)
(* What a container of timers promises (ch-11): a tick calls each timer    *)
(* whose time has come, once, the earliest first, and no other; a timer    *)
(* that was cancelled is not called.  The functions that are called may    *)
(* arm and cancel timers themselves.  When a rule of the container has     *)
(* been broken, which one is for the container to say, nothing is          *)
(* promised any more.                                                      *)
(***************************************************************************)
EXTENDS Naturals

CONSTANT Timers

VARIABLES
  now,      \* the time in seconds
  armed,    \* the timers that are set
  expire,   \* expire[t]: when the armed timer t is due, 0 for another
  ticking,  \* a tick is under way
  cur,      \* the time it looks at (of no meaning without a tick)
  broken    \* those who use the container have broken a rule

vars == <<now, armed, expire, ticking, cur, broken>>

Due(t) == t \in armed /\ expire[t] <= cur

Init == /\ armed \subseteq Timers /\ expire \in [Timers -> Nat]
        /\ ~ticking /\ ~broken

\* A timer may be armed for a time that has passed.
Arm(t) == /\ t \notin armed
          /\ armed' = armed \union {t}
          /\ expire'[t] \in Nat /\ expire' = [expire EXCEPT ![t] = expire'[t]]
          /\ UNCHANGED <<now, ticking, cur>>

Disarm(t) == /\ t \in armed
             /\ armed' = armed \ {t}
             /\ expire' = [expire EXCEPT ![t] = 0]
             /\ UNCHANGED <<now, ticking, cur>>

Second == now' = now + 1 /\ UNCHANGED <<armed, expire, ticking, cur>>

Begin == ~ticking /\ ticking' = TRUE /\ cur' = now /\ UNCHANGED <<now, armed, expire>>

\* cb_func of t is called.
Fire(t) == /\ ticking /\ Due(t)
           /\ \A u \in armed : expire[t] <= expire[u]
           /\ Disarm(t)

End == /\ ticking /\ \A t \in Timers : ~Due(t)
       /\ ticking' = FALSE
       /\ UNCHANGED <<now, armed, expire>>

Kept == \/ Second \/ Begin \/ End
        \/ \E t \in Timers : Arm(t) \/ Disarm(t) \/ Fire(t)

Next == broken' \/ (UNCHANGED broken /\ Kept)

Spec == Init /\ [][Next]_vars
=============================================================================
