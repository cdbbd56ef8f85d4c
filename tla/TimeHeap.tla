------------------------------- MODULE TimeHeap -------------------------------
(***************************************************************************)
(* time_heap (ch-11/min_heap_timer.h): a binary heap of pointers to timers *)
(* in an array that grows, and the program around it: timers are added and *)
(* deleted at any time, from within the functions tick calls too.          *)
(***************************************************************************)
EXTENDS TimerAddresses, Naturals, Sequences

CONSTANTS MaxTime,     \* bound on the clock and on the times of timers
          MaxCapacity  \* bound on the cap a heap is constructed with

ASSUME HeapAssumption == MaxTime \in Nat /\ MaxCapacity \in Nat

VARIABLES
  array, capacity, cur_size,
  expire,  \* expire[t], 0 while t is not in use
  cb,      \* timers whose cb_func is not null
  now,     \* time(nullptr)
  pc,      \* idle, loop and callback (both in tick)
  cur,     \* the cur of tick
  fired,   \* the timer whose cb_func runs
  \* history
  overtaken,  \* a function that tick called has added a timer due before its own
  outside     \* add_timer has written outside of the array

heap == <<array, capacity, cur_size>>
history == <<overtaken, outside>>
heapVars == <<heap, expire, cb, now, pc, cur, fired, history>>

Live == {array[i] : i \in 0..(cur_size - 1)}
Parent(i) == (i - 1) \div 2

\* Slip: a hole sinks to its left child, whichever is smaller.
ChildLeft(A, size, hole) == 2 * hole + 1

\* The child of a hole that expires first.
Child(A, size, hole) ==
    LET left == 2 * hole + 1
    IN IF left < size - 1 /\ expire[A[left + 1]] < expire[A[left]] THEN left + 1 ELSE left

\* percolate_down(hole) in an array of size timers: children that expire earlier move up
\* until the timer at hole has found its place.
PercolateDown(A, size, hole) ==
    LET down[h \in 0..(size - 1)] ==
            LET c == Child(A, size, h)
            IN IF 2 * h + 1 <= size - 1 /\ expire[A[c]] < expire[A[hole]]
               THEN [down[c] EXCEPT ![h] = A[c]]
               ELSE [A EXCEPT ![h] = A[hole]]
    IN down[hole]

\* The constructor that is given an array: percolate_down from the last inner node to the
\* root.
Heapified(A, size) ==
    LET from[i \in 0..size] == IF i > Parent(size) THEN A
                               ELSE PercolateDown(from[i + 1], size, i)
    IN IF size = 0 THEN A ELSE from[0]

\* time_heap(cap), and time_heap(init_array, size, cap).
HeapInit ==
    /\ now = 0 /\ pc = "idle" /\ cur = 0 /\ fired = Null
    /\ overtaken = FALSE /\ outside = FALSE
    /\ capacity \in 0..MaxCapacity
    /\ cur_size \in 0..capacity
    /\ expire \in [Timers -> 0..MaxTime]
    /\ \E given \in [0..(capacity - 1) -> Pointer] :
          /\ \A i \in 0..(capacity - 1) : given[i] = Null <=> i >= cur_size
          /\ \A i, j \in 0..(cur_size - 1) : i # j => given[i] # given[j]
          /\ array = Heapified(given, cur_size)
    /\ cb = Live
    /\ \A t \in Timers \ Live : expire[t] = 0

-----------------------------------------------------------------------------
HeapSecond == /\ now < MaxTime
              /\ now' = now + 1
              /\ UNCHANGED <<heap, expire, cb, pc, cur, fired, history>>

\* The program calls the heap outside of tick, or from the function tick has called.
Calling == pc = "idle" \/ fired # Null

\* resize of a full heap: the room is doubled.
NewCapacity == IF cur_size < capacity THEN capacity ELSE 2 * capacity
Roomy == IF cur_size < capacity THEN array
         ELSE [i \in 0..(NewCapacity - 1) |-> IF i < cur_size THEN array[i] ELSE Null]

\* Slip: among timers that expire together the new one goes first.
RisesTied(A, hole, t, x) == hole > 0 /\ x[t] <= x[A[Parent(hole)]]

Rises(A, hole, t, x) == hole > 0 /\ x[t] < x[A[Parent(hole)]]

\* add_timer: parents that expire later move down.  The timer was built before, with any
\* delay, or given any expire since: it may well be due.  (A timer is not added twice; the
\* one that is called is still in the heap.)
Add(t, x) ==
    /\ Calling /\ t \notin Live /\ cur_size < NewCapacity
    /\ expire' = [expire EXCEPT ![t] = x]
    /\ cb' = cb \union {t}
    /\ capacity' = NewCapacity
    /\ cur_size' = cur_size + 1
    /\ LET up[h \in 0..cur_size] == IF Rises(Roomy, h, t, expire')
                                    THEN [up[Parent(h)] EXCEPT ![h] = Roomy[Parent(h)]]
                                    ELSE [Roomy EXCEPT ![h] = t]
       IN array' = up[cur_size]
    /\ overtaken' = (overtaken \/ (fired # Null /\ x < expire[fired]))
    /\ UNCHANGED <<now, pc, cur, fired, outside>>

\* add_timer when there is no room after resize either: twice 0 is 0.  What is written then
\* is not the array's; the program is undefined from here on, and is followed no further.
AddOutside == /\ Calling /\ cur_size >= NewCapacity
              /\ outside' = TRUE
              /\ UNCHANGED <<heap, expire, cb, now, pc, cur, fired, overtaken>>

\* del_timer only forgets the function.
Del(t) == /\ Calling /\ t \in Live
          /\ cb' = cb \ {t}
          /\ UNCHANGED <<heap, expire, now, pc, cur, fired, history>>

-----------------------------------------------------------------------------
(* tick                                                                    *)

TickBegins == /\ pc = "idle"
              /\ pc' = "loop" /\ cur' = now
              /\ UNCHANGED <<heap, expire, cb, now, fired, history>>

TopIsDue == cur_size > 0 /\ expire[array[0]] <= cur

\* cb_func of the top, when there is one, and before the top is popped.
TickCalls == /\ pc = "loop" /\ TopIsDue
             /\ fired' = IF array[0] \in cb THEN array[0] ELSE Null
             /\ pc' = "callback"
             /\ UNCHANGED <<heap, expire, cb, now, cur, history>>

\* pop_timer pops what is the top now: the last timer takes its place and goes down, while
\* cur_size still counts the place it has left.
TickPops ==
    /\ pc = "callback"
    /\ LET last == array[cur_size - 1]
           moved == [array EXCEPT ![0] = IF cur_size > 1 THEN last ELSE Null]
       IN array' = IF cur_size > 1 THEN PercolateDown(moved, cur_size, 0) ELSE moved
    /\ cur_size' = cur_size - 1
    /\ cb' = cb \ {array[0]}
    /\ expire' = [expire EXCEPT ![array[0]] = 0]
    /\ pc' = "loop" /\ fired' = Null
    /\ UNCHANGED <<capacity, now, cur, history>>

TickEnds == /\ pc = "loop" /\ ~TopIsDue
            /\ pc' = "idle" /\ cur' = 0
            /\ UNCHANGED <<heap, expire, cb, now, fired, history>>

HeapTick == TickBegins \/ TickCalls \/ TickPops \/ TickEnds

HeapNext == /\ ~outside
            /\ \/ HeapSecond \/ HeapTick \/ AddOutside
               \/ \E t \in Timers : Del(t) \/ \E x \in 0..MaxTime : Add(t, x)

HeapSpec == HeapInit /\ [][HeapNext]_heapVars

-----------------------------------------------------------------------------
(* Correctness.                                                            *)

\* The array holds each timer once, in its first cur_size places, no parent after its
\* children; it has room for them, unless the heap was constructed with no room at all and
\* something was added.  (pop_timer keeps this although it goes down in an array with the
\* last timer in it twice, and whatever a function has put on top of the timer it was
\* called for.)
HeapOrdered ==
    ~outside =>
        /\ cur_size <= capacity /\ DOMAIN array = 0..(capacity - 1)
        /\ Cardinality(Live) = cur_size /\ Live \subseteq Timers /\ cb \subseteq Live
        /\ \A i \in 1..(cur_size - 1) : expire[array[Parent(i)]] <= expire[array[i]]

\* The heap keeps the promise of a container of timers: what tick pops is what it has
\* called, so nothing is lost and nothing called twice.  This asks of the functions that are
\* called that they add no timer due before their own: tick would pop that one uncalled and
\* call theirs again.  A timer that is due at the same time, or already, may be added.
Armed == cb \ {fired}
Service == INSTANCE TimerService WITH
               armed <- Armed, ticking <- pc # "idle", broken <- overtaken \/ outside,
               expire <- [t \in Timers |-> IF t \in Armed THEN expire[t] ELSE 0]
ImplementsTimerService == Service!Spec
=============================================================================
