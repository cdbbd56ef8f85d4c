------------------------------ MODULE TimeWheel ------------------------------
(***************************************************************************)
(* time_wheel (ch-11/time_wheel_timer.h): N slots, each with a doubly      *)
(* linked list of timers, and a hand that moves on by one slot per tick.   *)
(* A wheel is a record of the slots, the hand and the fields of every      *)
(* timer.  One thread uses it, so each member function is an operator from *)
(* the wheel to the wheel.                                                 *)
(***************************************************************************)
EXTENDS Naturals, Sequences, Functions

CONSTANTS Timers,  \* the addresses new tw_timer may return
          Null,    \* nullptr
          N,       \* slots of the wheel
          SI       \* seconds between two ticks

Slots == 0..(N - 1)
Pointer == Timers \union {Null}
WheelType == [slots : [Slots -> Pointer], cur_slot : Slots,
              rotation : [Timers -> Nat], time_slot : [Timers -> Slots],
              prev : [Timers -> Pointer], next : [Timers -> Pointer]]

EmptyWheel == [slots |-> [s \in Slots |-> Null], cur_slot |-> 0,
               rotation |-> [t \in Timers |-> 0], time_slot |-> [t \in Timers |-> 0],
               prev |-> [t \in Timers |-> Null], next |-> [t \in Timers |-> Null]]

\* Ticks for a time in seconds: at least one.
Ticks(timeout) == IF timeout < SI THEN 1 ELSE timeout \div SI

\* Slip: a timer due after whole turns waits for one turn less.
TurnsShort(ticks) == (ticks - 1) \div N

Turns(ticks) == ticks \div N

\* add_timer(timeout) with t for the address of the new timer: whole turns go into
\* rotation, the rest of the ticks into the slot; the new timer is the head of its slot.
AddTimer(W, timeout, t) ==
    LET ticks == Ticks(timeout)
        ts == (W.cur_slot + (ticks % N)) % N
        h == W.slots[ts]
        added == [W EXCEPT !.rotation[t] = Turns(ticks), !.time_slot[t] = ts,
                           !.prev[t] = Null, !.next[t] = h, !.slots[ts] = t]
    IN IF h = Null THEN added ELSE [added EXCEPT !.prev[h] = t]

\* The fields of a timer that is freed.
Freed(W, t) == [W EXCEPT !.rotation[t] = 0, !.time_slot[t] = 0,
                         !.prev[t] = Null, !.next[t] = Null]

\* t leaves the list of slot ts, from its head or from between two others.
Unlink(W, ts, t) ==
    LET n == W.next[t]
        p == W.prev[t]
        cut == IF W.slots[ts] = t THEN [W EXCEPT !.slots[ts] = n]
               ELSE [W EXCEPT !.next[p] = n]
    IN Freed(IF n = Null THEN cut
             ELSE [cut EXCEPT !.prev[n] = IF W.slots[ts] = t THEN Null ELSE p], t)

DelTimer(W, t) == Unlink(W, W.time_slot[t], t)

\* The timers of a slot, in the order of its list.
Chain(W, s) == LET from[p \in Pointer] == IF p = Null THEN << >>
                                          ELSE <<p>> \o from[W.next[p]]
               IN from[W.slots[s]]

\* The timers whose cb_func the next tick calls.
Fired(W) == {t \in Timers : t \in Range(Chain(W, W.cur_slot)) /\ W.rotation[t] = 0}

\* Slip: the turns of a timer that waits are not counted down.
VisitNoTurn(W, t) == IF W.rotation[t] > 0 THEN W ELSE Unlink(W, W.cur_slot, t)

\* What tick does with a timer of the slot: one turn less to wait for, or the end.
Visit(W, t) == IF W.rotation[t] > 0 THEN [W EXCEPT !.rotation[t] = @ - 1]
               ELSE Unlink(W, W.cur_slot, t)

\* tick: all timers of the slot are visited, and the hand moves on.
AfterTick(W) ==
    LET c == Chain(W, W.cur_slot)
        visited[i \in 0..Len(c)] == IF i = 0 THEN W ELSE Visit(visited[i - 1], c[i])
    IN [visited[Len(c)] EXCEPT !.cur_slot = (@ + 1) % N]

-----------------------------------------------------------------------------
\* Ticks the timer t survives: the hand must come to its slot, and then make its turns.
Rest(W, t) == (W.rotation[t] * N) + ((W.time_slot[t] + N - W.cur_slot) % N)

\* The timers of S are linked both ways, each once, in the slot its field names.
WellFormed(W, S) ==
    /\ \A t \in S : t \in Range(Chain(W, W.time_slot[t]))
    /\ \A s \in Slots :
          LET c == Chain(W, s)
          IN /\ IsInjective(c)
             /\ \A i \in 1..Len(c) :
                   /\ c[i] \in S /\ W.time_slot[c[i]] = s
                   /\ W.prev[c[i]] = IF i = 1 THEN Null ELSE c[i - 1]
=============================================================================
