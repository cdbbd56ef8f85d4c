---------------------------- MODULE SortTimerList ----------------------------
(***************************************************************************)
(* sort_timer_lst (ch-11/lst_timer.h): the doubly linked list of timers in *)
(* ascending order of their expiry, at the level of its pointers.  A list  *)
(* is a record of head, tail and the prev and next fields of every timer;  *)
(* x[t] is the expire field of timer t.  One thread uses the list, so each *)
(* member function is an operator from the list to the list.               *)
(***************************************************************************)
EXTENDS TimerAddresses, Naturals

ListType == [head : Pointer, tail : Pointer,
             prev : [Timers -> Pointer], next : [Timers -> Pointer]]

EmptyList == [head |-> Null, tail |-> Null, prev |-> [t \in Timers |-> Null],
              next |-> [t \in Timers |-> Null]]

\* util_timer(), and the fields of a timer that is freed.
Fresh(L, t) == [L EXCEPT !.prev[t] = Null, !.next[t] = Null]

\* The private add_timer: from the head on (the argument lst_head is not used), in front
\* of the first timer that expires later, or at the end.
InsertFromHead(L, x, t) ==
    LET before[n \in Timers] == IF L.next[n] = Null \/ x[t] < x[L.next[n]]
                                THEN n ELSE before[L.next[n]]
        p == before[L.head]
        q == L.next[p]
        linked == [L EXCEPT !.next = [@ EXCEPT ![p] = t, ![t] = q], !.prev[t] = p]
    IN IF q = Null THEN [linked EXCEPT !.tail = t] ELSE [linked EXCEPT !.prev[q] = t]

AddTimer(L, x, t) ==
    CASE L.head = Null -> [L EXCEPT !.head = t, !.tail = t]
      [] L.head # Null /\ x[t] < x[L.head] ->
           [L EXCEPT !.next[t] = L.head, !.prev[L.head] = t, !.head = t]
      [] OTHER -> InsertFromHead(L, x, t)

\* Called when x[t] has grown.
AdjustTimer(L, x, t) ==
    LET n == L.next[t]
        p == L.prev[t]
        unlinked == IF t = L.head
                    THEN [L EXCEPT !.head = n, !.prev[n] = Null, !.next[t] = Null]
                    ELSE [L EXCEPT !.next[p] = n, !.prev[n] = p]
    IN IF n = Null \/ x[t] < x[n] THEN L ELSE InsertFromHead(unlinked, x, t)

\* Slip: the case of the last timer is forgotten, the tail stays where it is.
DeleteTimerKeepsTail(L, t) ==
    LET n == L.next[t]
        p == L.prev[t]
    IN Fresh(CASE t = L.head /\ t = L.tail -> [L EXCEPT !.head = Null, !.tail = Null]
               [] t = L.head /\ t # L.tail -> [L EXCEPT !.head = n, !.prev[n] = Null]
               [] t # L.head /\ n = Null -> [L EXCEPT !.next[p] = Null]
               [] OTHER -> [L EXCEPT !.next[p] = n, !.prev[n] = p],
             t)

DeleteTimer(L, t) ==
    LET n == L.next[t]
        p == L.prev[t]
    IN Fresh(CASE t = L.head /\ t = L.tail -> [L EXCEPT !.head = Null, !.tail = Null]
               [] t = L.head /\ t # L.tail -> [L EXCEPT !.head = n, !.prev[n] = Null]
               [] t # L.head /\ t = L.tail -> [L EXCEPT !.tail = p, !.next[p] = Null]
               [] OTHER -> [L EXCEPT !.next[p] = n, !.prev[n] = p],
             t)

\* The timers tick finds: it walks from the head and stops at the first that is not due.
Expired(L, x, now) ==
    LET due[p \in Pointer] == IF p = Null THEN {}
                              ELSE IF now < x[p] THEN {} ELSE {p} \union due[L.next[p]]
    IN {t \in Timers : t \in due[L.head]}

\* What tick leaves: the tail is not touched, and dangles when nothing is left.
AfterTick(L, x, now) ==
    LET gone == Expired(L, x, now)
        rest[p \in Pointer] == IF p \in gone THEN rest[L.next[p]] ELSE p
        h == rest[L.head]
        Freed(f) == [t \in Timers |-> IF t \in gone \/ t = h THEN Null ELSE f[t]]
    IN [L EXCEPT !.head = h, !.prev = Freed(@),
                 !.next = [t \in Timers |-> IF t \in gone THEN Null ELSE @[t]]]

-----------------------------------------------------------------------------
(* What the list is meant to be ("ascending, doubly linked, with a head     *)
(* and a tail", lst_timer.h:38), for the set S of timers that are in it.    *)

WellFormed(L, x, S) ==
    /\ L.head = Null <=> S = {}
    /\ S # {} => L.head \in S /\ L.tail \in S
    /\ \A t \in S :
          /\ L.prev[t] \in S \union {Null} /\ L.next[t] \in S \union {Null}
          /\ L.prev[t] = Null <=> t = L.head
          /\ L.next[t] = Null <=> t = L.tail
          /\ L.next[t] # Null => L.prev[L.next[t]] = t /\ x[t] <= x[L.next[t]]
    /\ LET from[p \in Pointer] == IF p = Null THEN {} ELSE {p} \union from[L.next[p]]
       IN from[L.head] = S
=============================================================================
