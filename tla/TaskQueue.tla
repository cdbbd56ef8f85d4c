------------------------------ MODULE TaskQueue ------------------------------
(***************************************************************************)
(* What the thread pool of ch-15/threadpool.h promises its user, with no   *)
(* locks, semaphores or program counters: a bounded first-in first-out     *)
(* queue of requests, each handed to one worker, once.                     *)
(*                                                                         *)
(* ThreadPool implements this module: see Abstract!Spec there.             *)
(***************************************************************************)
EXTENDS Naturals, Sequences

CONSTANTS Workers,      \* the threads that process requests
          Requests,     \* the requests a caller may hand over, each once
          MaxRequests,  \* m_max_requests: the capacity of the queue
          Idle          \* what a worker without a request works on

VARIABLES pending,   \* the requests accepted and not yet taken, oldest first
          running,   \* running[w]: the request worker w has taken, or Idle
          finished,  \* the requests a worker has finished
          open       \* FALSE once the owner has destroyed the queue

vars == <<pending, running, finished, open>>

Init == /\ pending = << >>
        /\ running = [w \in Workers |-> Idle]
        /\ finished = {}
        /\ open = TRUE

-----------------------------------------------------------------------------
Submit(r) == /\ open
             /\ Len(pending) < MaxRequests
             /\ r \notin finished
             /\ \A w \in Workers : running[w] # r
             /\ \A i \in 1..Len(pending) : pending[i] # r
             /\ pending' = Append(pending, r)
             /\ UNCHANGED <<running, finished, open>>

Take(w) == /\ open
           /\ running[w] = Idle
           /\ pending # << >>
           /\ running' = [running EXCEPT ![w] = Head(pending)]
           /\ pending' = Tail(pending)
           /\ UNCHANGED <<finished, open>>

Finish(w) == /\ running[w] \in Requests
             /\ finished' = finished \union {running[w]}
             /\ running' = [running EXCEPT ![w] = Idle]
             /\ UNCHANGED <<pending, open>>

\* The owner gives the queue up: what is still pending will never be taken.
Close == /\ open
         /\ open' = FALSE
         /\ UNCHANGED <<pending, running, finished>>

\* Nothing is promised about a request that a worker holds after Close.
Abandon(w) == /\ ~open
              /\ running' = [running EXCEPT ![w] = Idle]
              /\ UNCHANGED <<pending, finished, open>>

Next == \/ \E r \in Requests : Submit(r)
        \/ \E w \in Workers : Take(w) \/ Finish(w) \/ Abandon(w)
        \/ Close

Spec == Init /\ [][Next]_vars
=============================================================================
