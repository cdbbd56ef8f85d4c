----------------------------- MODULE ThreadPool -----------------------------
(***************************************************************************)
(* The half-sync/half-reactive thread pool of ch-15/threadpool.h on the    *)
(* semaphore and mutex wrappers of ch-14/locker.h.                         *)
(*                                                                         *)
(* One thread constructs the pool; the Producers (one main thread in       *)
(* ch-15/web_server.cpp, any number here) call append; the Workers execute *)
(* run.  Every access to a shared object is a step of its own, so that the *)
(* interleavings are those of the program.                                 *)
(***************************************************************************)
EXTENDS Naturals, Sequences, FiniteSets

CONSTANTS Producers,     \* threads that call append
          Workers,       \* the m_thread_number threads the constructor creates
          Requests,      \* one identity per call of append, null arguments included
          MaxRequests,   \* m_max_requests
          NoRequest,     \* a worker's variable `request` outside its scope
          NoThread       \* the owner of a free mutex

Threads == Producers \union Workers

ASSUME PoolAssumption ==
    /\ IsFiniteSet(Producers) /\ IsFiniteSet(Workers)
    /\ Producers \intersect Workers = {}
    /\ Workers # {} /\ MaxRequests \in Nat \ {0}     \* else the constructor throws
    /\ NoRequest \notin Requests
    /\ NoThread \notin Threads

VARIABLES pool,           \* the life of the object: constructing, ready, stopping, gone
          m_stop,
          m_workqueue,    \* sequence of requests
          m_queuelocker,  \* the thread that holds the mutex, or NoThread
          m_queuestat,    \* the value of the semaphore
          pc,             \* where each thread is
          request,        \* the variable `request` of append (producer) or run (worker)
          accepted,       \* history: the requests pushed on the queue
          refused,        \* history: the requests append returned false for
          finished        \* history: the requests whose worker is done with them

vars == <<pool, m_stop, m_workqueue, m_queuelocker, m_queuestat, pc, request,
          accepted, refused, finished>>

shared == <<pool, m_stop, m_workqueue, m_queuelocker, m_queuestat>>
history == <<accepted, refused, finished>>

-----------------------------------------------------------------------------
(* The life of the object.                                                 *)

\* The member initialisers: the object as the first thread created finds it.
Init == /\ pool = "constructing"
        /\ m_stop = FALSE
        /\ m_workqueue = << >>
        /\ m_queuelocker = NoThread
        /\ m_queuestat = 0
        /\ pc = [t \in Threads |-> IF t \in Workers THEN "unborn" ELSE "idle"]
        /\ request = [t \in Threads |-> NoRequest]
        /\ accepted = {}
        /\ refused = {}
        /\ finished = {}

\* pthread_create and pthread_detach succeed; the thread may run at once.
CreateThread(w) == /\ pool = "constructing"
                   /\ pc[w] = "unborn"
                   /\ pc' = [pc EXCEPT ![w] = "loop"]
                   /\ UNCHANGED <<shared, request, history>>

\* pthread_create or pthread_detach fails: the constructor throws, which destroys
\* the members and frees the object, under the threads created before.
CreateFails == /\ pool = "constructing"
               /\ pool' = "gone"
               /\ UNCHANGED <<m_stop, m_workqueue, m_queuelocker, m_queuestat,
                              pc, request, history>>

ConstructorReturns == /\ pool = "constructing"
                      /\ \A w \in Workers : pc[w] # "unborn"
                      /\ pool' = "ready"
                      /\ UNCHANGED <<m_stop, m_workqueue, m_queuelocker,
                                     m_queuestat, pc, request, history>>

\* delete pool, by the thread that also appends: no append is in progress.
\* The body of the destructor sets m_stop; no semaphore is posted, no thread joined.
DestructorBody == /\ pool = "ready"
                  /\ \A p \in Producers : pc[p] = "idle"
                  /\ pool' = "stopping"
                  /\ m_stop' = TRUE
                  /\ UNCHANGED <<m_workqueue, m_queuelocker, m_queuestat,
                                 pc, request, history>>

\* After the body: the members are destroyed and the object is freed.
DestroyMembers == /\ pool = "stopping"
                  /\ pool' = "gone"
                  /\ UNCHANGED <<m_stop, m_workqueue, m_queuelocker, m_queuestat,
                                 pc, request, history>>

-----------------------------------------------------------------------------
(* locker::lock, locker::unlock: what the callers below are built from.    *)

Lock(t, at, to) == /\ pc[t] = at
                   /\ m_queuelocker = NoThread
                   /\ m_queuelocker' = t
                   /\ pc' = [pc EXCEPT ![t] = to]
                   /\ UNCHANGED <<pool, m_stop, m_workqueue, m_queuestat,
                                  request, history>>

-----------------------------------------------------------------------------
(* bool append(T * request), called by producer p.                         *)

AppendCall(p) == /\ pool = "ready"
                 /\ pc[p] = "idle"
                 /\ \E r \in Requests \ (accepted \union refused) :
                       /\ \A q \in Producers : request[q] # r
                       /\ request' = [request EXCEPT ![p] = r]
                 /\ pc' = [pc EXCEPT ![p] = "append_lock"]
                 /\ UNCHANGED <<shared, history>>

AppendLock(p) == Lock(p, "append_lock", "append_check")

\* A full queue: unlock and return false.
AppendFull(p) == /\ pc[p] = "append_check"
                 /\ Len(m_workqueue) >= MaxRequests
                 /\ m_queuelocker' = NoThread
                 /\ refused' = refused \union {request[p]}
                 /\ request' = [request EXCEPT ![p] = NoRequest]
                 /\ pc' = [pc EXCEPT ![p] = "idle"]
                 /\ UNCHANGED <<pool, m_stop, m_workqueue, m_queuestat,
                                accepted, finished>>

\* Slip: `>` for `>=` in the test of the queue's size.
AppendRoomOffByOne(p) == /\ pc[p] = "append_check"
                         /\ Len(m_workqueue) <= MaxRequests
                         /\ pc' = [pc EXCEPT ![p] = "append_push"]
                         /\ UNCHANGED <<shared, request, history>>

AppendRoom(p) == /\ pc[p] = "append_check"
                 /\ Len(m_workqueue) < MaxRequests
                 /\ pc' = [pc EXCEPT ![p] = "append_push"]
                 /\ UNCHANGED <<shared, request, history>>

AppendPush(p) == /\ pc[p] = "append_push"
                 /\ m_workqueue' = Append(m_workqueue, request[p])
                 /\ accepted' = accepted \union {request[p]}
                 /\ pc' = [pc EXCEPT ![p] = "append_unlock"]
                 /\ UNCHANGED <<pool, m_stop, m_queuelocker, m_queuestat,
                                request, refused, finished>>

\* Slip: append returns without sem::post.
AppendUnlockNoPost(p) == /\ pc[p] = "append_unlock"
                         /\ m_queuelocker' = NoThread
                         /\ request' = [request EXCEPT ![p] = NoRequest]
                         /\ pc' = [pc EXCEPT ![p] = "idle"]
                         /\ UNCHANGED <<pool, m_stop, m_workqueue, m_queuestat, history>>

AppendUnlock(p) == /\ pc[p] = "append_unlock"
                   /\ m_queuelocker' = NoThread
                   /\ pc' = [pc EXCEPT ![p] = "append_post"]
                   /\ UNCHANGED <<pool, m_stop, m_workqueue, m_queuestat,
                                  request, history>>

\* Slip: post only when the queue was empty, "the workers are awake already".
AppendPostOnFirst(p) == /\ pc[p] = "append_post"
                        /\ m_queuestat' = IF Len(m_workqueue) = 1
                                           THEN m_queuestat + 1 ELSE m_queuestat
                        /\ request' = [request EXCEPT ![p] = NoRequest]
                        /\ pc' = [pc EXCEPT ![p] = "idle"]
                        /\ UNCHANGED <<pool, m_stop, m_workqueue, m_queuelocker, history>>

\* sem::post, then return true.
AppendPost(p) == /\ pc[p] = "append_post"
                 /\ m_queuestat' = m_queuestat + 1
                 /\ request' = [request EXCEPT ![p] = NoRequest]
                 /\ pc' = [pc EXCEPT ![p] = "idle"]
                 /\ UNCHANGED <<pool, m_stop, m_workqueue, m_queuelocker, history>>

Producing(p) == \/ AppendLock(p) \/ AppendFull(p) \/ AppendRoom(p)
                \/ AppendPush(p) \/ AppendUnlock(p) \/ AppendPost(p)

-----------------------------------------------------------------------------
(* void run(), executed by worker w.                                       *)

Usable == pool # "gone"

\* while (!m_stop)
RunLoop(w) == /\ Usable
              /\ pc[w] = "loop"
              /\ pc' = [pc EXCEPT ![w] = IF m_stop THEN "done" ELSE "wait"]
              /\ UNCHANGED <<shared, request, history>>

\* Slip: a wait that does not block at zero.
RunWaitNoBlock(w) == /\ Usable
                     /\ pc[w] = "wait"
                     /\ m_queuestat' = m_queuestat - 1
                     /\ pc' = [pc EXCEPT ![w] = "lock"]
                     /\ UNCHANGED <<pool, m_stop, m_workqueue, m_queuelocker,
                                    request, history>>

\* sem::wait returns true.
RunWait(w) == /\ Usable
              /\ pc[w] = "wait"
              /\ m_queuestat > 0
              /\ m_queuestat' = m_queuestat - 1
              /\ pc' = [pc EXCEPT ![w] = "lock"]
              /\ UNCHANGED <<pool, m_stop, m_workqueue, m_queuelocker,
                             request, history>>

\* sem_wait fails with EINTR: sem::wait returns false, which run ignores.
RunWaitInterrupted(w) == /\ Usable
                         /\ pc[w] = "wait"
                         /\ pc' = [pc EXCEPT ![w] = "lock"]
                         /\ UNCHANGED <<shared, request, history>>

\* Slip: run does not take the lock.
RunLockSkipped(w) == /\ Usable
                     /\ pc[w] = "lock"
                     /\ pc' = [pc EXCEPT ![w] = "check"]
                     /\ UNCHANGED <<shared, request, history>>

RunLock(w) == Usable /\ Lock(w, "lock", "check")

\* An empty queue: unlock and continue.
RunEmpty(w) == /\ Usable
               /\ pc[w] = "check"
               /\ m_workqueue = << >>
               /\ m_queuelocker' = NoThread
               /\ pc' = [pc EXCEPT ![w] = "loop"]
               /\ UNCHANGED <<pool, m_stop, m_workqueue, m_queuestat,
                              request, history>>

\* Slip: back() is read and front is popped.
RunFrontReadsBack(w) == /\ Usable
                        /\ pc[w] = "check"
                        /\ m_workqueue # << >>
                        /\ request' = [request EXCEPT ![w] = m_workqueue[Len(m_workqueue)]]
                        /\ pc' = [pc EXCEPT ![w] = "pop"]
                        /\ UNCHANGED <<shared, history>>

RunFront(w) == /\ Usable
               /\ pc[w] = "check"
               /\ m_workqueue # << >>
               /\ request' = [request EXCEPT ![w] = Head(m_workqueue)]
               /\ pc' = [pc EXCEPT ![w] = "pop"]
               /\ UNCHANGED <<shared, history>>

RunPop(w) == /\ Usable
             /\ pc[w] = "pop"
             /\ m_workqueue' = Tail(m_workqueue)
             /\ pc' = [pc EXCEPT ![w] = "unlock"]
             /\ UNCHANGED <<pool, m_stop, m_queuelocker, m_queuestat,
                            request, history>>

RunUnlock(w) == /\ Usable
                /\ pc[w] = "unlock"
                /\ m_queuelocker' = NoThread
                /\ pc' = [pc EXCEPT ![w] = "dispatch"]
                /\ UNCHANGED <<pool, m_stop, m_workqueue, m_queuestat,
                               request, history>>

\* request->process() returns, or `if (!request) continue`: neither uses the pool.
RunProcess(w) == /\ pc[w] = "dispatch"
                 /\ finished' = finished \union {request[w]}
                 /\ request' = [request EXCEPT ![w] = NoRequest]
                 /\ pc' = [pc EXCEPT ![w] = "loop"]
                 /\ UNCHANGED <<shared, accepted, refused>>

\* A worker that uses the freed object: what it does from there on is undefined.
\* One asleep in sem_wait stays asleep: nothing posts the semaphore any more.
RunOnFreedPool(w) == /\ ~Usable
                     /\ \/ pc[w] \in {"loop", "lock", "check", "pop", "unlock"}
                        \/ pc[w] = "wait" /\ m_queuestat > 0
                     /\ request' = [request EXCEPT ![w] = NoRequest]
                     /\ pc' = [pc EXCEPT ![w] = "undefined"]
                     /\ UNCHANGED <<shared, history>>

Running(w) == \/ RunLoop(w) \/ RunWait(w) \/ RunLock(w) \/ RunEmpty(w)
              \/ RunFront(w) \/ RunPop(w) \/ RunUnlock(w) \/ RunProcess(w)
              \/ RunOnFreedPool(w)

-----------------------------------------------------------------------------
Owner == CreateFails \/ ConstructorReturns \/ DestructorBody \/ DestroyMembers

Next == \/ Owner
        \/ \E p \in Producers : AppendCall(p) \/ Producing(p)
        \/ \E w \in Workers : CreateThread(w) \/ RunWaitInterrupted(w) \/ Running(w)

Spec == Init /\ [][Next]_vars

\* A thread that can run eventually runs: the kernel schedules every runnable thread.
\* Nothing makes a caller append, destroy the pool, or a signal arrive.
Fairness == /\ \A p \in Producers : WF_vars(Producing(p))
            /\ \A w \in Workers : WF_vars(Running(w))

FairSpec == Spec /\ Fairness

-----------------------------------------------------------------------------
(* Correctness.                                                            *)

ProducerPlaces == {"idle", "append_lock", "append_check", "append_push",
                   "append_unlock", "append_post"}
WorkerPlaces == {"unborn", "loop", "wait", "lock", "check", "pop", "unlock",
                 "dispatch", "done", "undefined"}

\* Every variable keeps its type; the semaphore, a C counter, is never negative.
TypeOK == /\ pool \in {"constructing", "ready", "stopping", "gone"}
          /\ m_stop \in BOOLEAN
          /\ m_workqueue \in Seq(Requests)
          /\ m_queuelocker \in Threads \union {NoThread}
          /\ m_queuestat \in Nat
          /\ pc \in [Threads -> ProducerPlaces \union WorkerPlaces]
          /\ \A p \in Producers : pc[p] \in ProducerPlaces
          /\ \A w \in Workers : pc[w] \in WorkerPlaces
          /\ request \in [Threads -> Requests \union {NoRequest}]
          /\ accepted \subseteq Requests
          /\ refused \subseteq Requests
          /\ finished \subseteq Requests

\* The variable `request` holds a request exactly where the code has it in scope.
RequestInScope == /\ \A p \in Producers : pc[p] # "idle" <=> request[p] \in Requests
                  /\ \A w \in Workers :
                        pc[w] \in {"pop", "unlock", "dispatch"} <=> request[w] \in Requests

\* The program counters between a lock and the unlock that follows it.
InCriticalSection(t) ==
    pc[t] \in {"append_check", "append_push", "append_unlock", "check", "pop", "unlock"}

\* Two threads never work on the list m_workqueue at the same time, through every
\* early return of append (threadpool.h:88) and every continue of run (:118).
MutualExclusion ==
    \A t, u \in Threads : InCriticalSection(t) /\ InCriticalSection(u) => t = u

\* Threads whose next look at the queue is already certain: workers past the
\* semaphore, producers that have pushed and will post.
Woken == {w \in Workers : pc[w] \in {"lock", "check", "pop"}}
Posting == {p \in Producers : pc[p] \in {"append_unlock", "append_post"}}

\* No wake-up is lost: while the pool lives, every queued request has a token of the
\* semaphore, a worker already awake, or a producer about to post to its name, also
\* when signals wake workers without a token (threadpool.h:93, :115-120).
NoLostWakeup ==
    Usable => Len(m_workqueue) <= m_queuestat + Cardinality(Woken) + Cardinality(Posting)

Elements(s) == {s[i] : i \in 1..Len(s)}
NoDuplicates(s) == \A i, j \in 1..Len(s) : s[i] = s[j] => i = j

Queued == Elements(m_workqueue)
Holders == {w \in Workers : pc[w] \in {"unlock", "dispatch"}}
Held == {request[w] : w \in Holders}
Taken == [w \in Workers |-> IF w \in Holders THEN request[w] ELSE NoRequest]

\* A request append accepted is, at every moment of the pool's life, in exactly one
\* place: once in the queue, with one worker, or finished.  Nothing that append
\* refused ever reaches a worker.
ExactlyOnce ==
    Usable =>
      /\ accepted = Queued \union Held \union finished
      /\ Queued \intersect (Held \union finished) = {}
      /\ Held \intersect finished = {}
      /\ accepted \intersect refused = {}
      /\ NoDuplicates(m_workqueue)
      /\ \A v, w \in Holders : request[v] = request[w] => v = w

\* The pool implements the bounded queue of TaskQueue: a request is submitted when it
\* is pushed, taken when it is popped, finished when process() returns, and the queue
\* is closed when the object is freed.
Abstract == INSTANCE TaskQueue WITH
              pending <- m_workqueue,
              running <- Taken,
              open <- Usable,
              Idle <- NoRequest

ImplementsTaskQueue == Abstract!Spec

\* A request that was accepted is processed, unless the owner destroys the pool first:
\* no schedule leaves it in the queue with all the workers asleep.
AcceptedIsFinished ==
    \A r \in Requests : r \in accepted ~> (r \in finished \/ pool \in {"stopping", "gone"})
=============================================================================
