--------------------------- MODULE ThreadPoolProofs ---------------------------
(***************************************************************************)
(* Proofs about ThreadPool, for any number of producers, workers and       *)
(* requests and any capacity of the queue.                                 *)
(*                                                                         *)
(* LockInv is inductive on its own: types, who holds the mutex, and what   *)
(* the thread that holds it knows about the queue.  The other results      *)
(* (no lost wake-up, exactly once, the refinement of TaskQueue) are        *)
(* invariants relative to it.                                              *)
(***************************************************************************)
EXTENDS ThreadPool, FiniteSetTheorems, TLAPS

-----------------------------------------------------------------------------
(* The inductive invariant.                                                *)

\* A thread between lock and unlock is the owner of the mutex.
Owned == \A t \in Threads : InCriticalSection(t) => m_queuelocker = t

\* What a thread has tested under the lock still holds when it acts on it: nobody else
\* touches the list in between.
Tested == /\ Len(m_workqueue) <= MaxRequests
          /\ \A p \in Producers : pc[p] = "append_push" => Len(m_workqueue) < MaxRequests
          /\ \A w \in Workers : pc[w] = "pop" =>
                /\ m_workqueue # << >>
                /\ request[w] = Head(m_workqueue)

\* append runs on a pool that is constructed and not being destroyed.
LivePool == \A p \in Producers : pc[p] # "idle" => pool = "ready"

\* The types alone are not inductive: append and run put the request they hold into the
\* queue and the histories, so there has to be one, and pop needs a queue that is not empty.
LockInv == TypeOK /\ RequestInScope /\ Owned /\ Tested /\ LivePool

-----------------------------------------------------------------------------
(* Init establishes it, every action keeps it.                             *)

LEMMA InitLockInv == Init => LockInv
<1> SUFFICES ASSUME Init
             PROVE  LockInv
    OBVIOUS
<1> USE PoolAssumption DEF Init, Threads, ProducerPlaces, WorkerPlaces
<1>1. \A p \in Producers : pc[p] = "idle" /\ request[p] = NoRequest
  OBVIOUS
<1>2. \A w \in Workers : pc[w] = "unborn" /\ request[w] = NoRequest
  OBVIOUS
<1>3. TypeOK
  <2>1. /\ pc \in [Threads -> ProducerPlaces \union WorkerPlaces]
        /\ request \in [Threads -> Requests \union {NoRequest}]
        /\ m_workqueue \in Seq(Requests)
        /\ m_queuestat \in Nat
    OBVIOUS
  <2>2. QED
    BY <1>1, <1>2, <2>1 DEF TypeOK
<1>4. RequestInScope
  BY <1>1, <1>2 DEF RequestInScope
<1>5. Owned
  BY <1>1, <1>2 DEF Owned, InCriticalSection
<1>6. Tested
  BY <1>1, <1>2 DEF Tested
<1>7. LivePool
  BY <1>1 DEF LivePool
<1>8. QED
  BY <1>3, <1>4, <1>5, <1>6, <1>7 DEF LockInv

\* The owner of the mutex is the only thread in a critical section.
LEMMA OwnerAlone ==
    ASSUME LockInv, NEW t \in Threads, InCriticalSection(t),
           NEW u \in Threads, InCriticalSection(u)
    PROVE  t = u
  BY DEF LockInv, Owned

\* The steps of append, one by one.
LEMMA ProducingLockInv ==
    ASSUME LockInv, NEW p \in Producers, AppendCall(p) \/ Producing(p)
    PROVE  LockInv'
<1> USE PoolAssumption
    DEF LockInv, TypeOK, RequestInScope, Owned, Tested, LivePool, InCriticalSection,
        Threads, ProducerPlaces, WorkerPlaces, shared, history
<1>1. CASE AppendCall(p)
  BY <1>1 DEF AppendCall
<1>2. CASE AppendLock(p)
  BY <1>2 DEF AppendLock, Lock
<1>3. CASE AppendFull(p)
  BY <1>3 DEF AppendFull
<1>4. CASE AppendRoom(p)
  BY <1>4 DEF AppendRoom
<1>5. CASE AppendPush(p)
  <2>1. /\ pc[p] = "append_push" /\ request[p] \in Requests
        /\ pc' = [pc EXCEPT ![p] = "append_unlock"]
        /\ m_workqueue' = Append(m_workqueue, request[p])
        /\ m_queuelocker = p
    BY <1>5 DEF AppendPush
  <2>2. /\ m_workqueue' \in Seq(Requests)
        /\ Len(m_workqueue') = Len(m_workqueue) + 1
    BY <2>1
  <2>3. \A t \in Threads : t # p => ~InCriticalSection(t)
    BY <2>1, OwnerAlone
  <2>4. Tested'
    BY <1>5, <2>1, <2>2, <2>3 DEF AppendPush
  <2>5. QED
    BY <1>5, <2>1, <2>2, <2>3, <2>4 DEF AppendPush
<1>6. CASE AppendUnlock(p)
  BY <1>6 DEF AppendUnlock
<1>7. CASE AppendPost(p)
  BY <1>7 DEF AppendPost
<1>8. QED
  BY <1>1, <1>2, <1>3, <1>4, <1>5, <1>6, <1>7 DEF Producing

\* The steps of run, one by one.
LEMMA WorkerLockInv ==
    ASSUME LockInv, NEW w \in Workers,
           CreateThread(w) \/ RunWaitInterrupted(w) \/ Running(w)
    PROVE  LockInv'
<1> USE PoolAssumption
    DEF LockInv, TypeOK, RequestInScope, Owned, Tested, LivePool, InCriticalSection,
        Threads, ProducerPlaces, WorkerPlaces, shared, history, Usable
<1>1. CASE CreateThread(w)
  BY <1>1 DEF CreateThread
<1>2. CASE RunWaitInterrupted(w)
  BY <1>2 DEF RunWaitInterrupted
<1>3. CASE RunLoop(w)
  BY <1>3 DEF RunLoop
<1>4. CASE RunWait(w)
  BY <1>4 DEF RunWait
<1>5. CASE RunLock(w)
  BY <1>5 DEF RunLock, Lock
<1>6. CASE RunEmpty(w)
  BY <1>6 DEF RunEmpty
<1>7. CASE RunFront(w)
  <2>1. Head(m_workqueue) \in Requests
    BY <1>7 DEF RunFront
  <2>2. QED
    BY <1>7, <2>1 DEF RunFront
<1>8. CASE RunPop(w)
  <2>1. /\ pc[w] = "pop" /\ m_workqueue # << >> /\ m_queuelocker = w
        /\ pc' = [pc EXCEPT ![w] = "unlock"]
        /\ m_workqueue' = Tail(m_workqueue)
    BY <1>8 DEF RunPop
  <2>2. /\ m_workqueue' \in Seq(Requests)
        /\ Len(m_workqueue') = Len(m_workqueue) - 1
    BY <2>1
  <2>3. \A t \in Threads : t # w => ~InCriticalSection(t)
    BY <2>1, OwnerAlone
  <2>4. Tested'
    BY <1>8, <2>1, <2>2, <2>3 DEF RunPop
  <2>5. QED
    BY <1>8, <2>1, <2>2, <2>3, <2>4 DEF RunPop
<1>9. CASE RunUnlock(w)
  BY <1>9 DEF RunUnlock
<1>10. CASE RunProcess(w)
  BY <1>10 DEF RunProcess
<1>11. CASE RunOnFreedPool(w)
  BY <1>11 DEF RunOnFreedPool
<1>12. QED
  BY <1>1, <1>2, <1>3, <1>4, <1>5, <1>6, <1>7, <1>8, <1>9, <1>10, <1>11 DEF Running

LEMMA NextLockInv == LockInv /\ [Next]_vars => LockInv'
<1> SUFFICES ASSUME LockInv, [Next]_vars
             PROVE  LockInv'
    OBVIOUS
<1>1. CASE Owner
  BY <1>1 DEF LockInv, TypeOK, RequestInScope, Owned, Tested, LivePool,
              InCriticalSection, Owner, CreateFails, ConstructorReturns, DestructorBody, DestroyMembers, history
<1>2. CASE UNCHANGED vars
  BY <1>2 DEF LockInv, TypeOK, RequestInScope, Owned, Tested, LivePool, InCriticalSection, vars
<1>3. QED
  BY <1>1, <1>2, ProducingLockInv, WorkerLockInv DEF Next

LEMMA LockInvHolds == Spec => []LockInv
  BY InitLockInv, NextLockInv, PTL DEF Spec

\* Every variable keeps its type: in particular the semaphore is never negative.
THEOREM TypeCorrect == Spec => []TypeOK
<1>1. LockInv => TypeOK
  BY DEF LockInv
<1>2. QED
  BY <1>1, LockInvHolds, PTL

\* At most one thread is between lock and unlock, on every path through append and run.
THEOREM Exclusion == Spec => []MutualExclusion
<1>1. LockInv => MutualExclusion
  BY OwnerAlone DEF MutualExclusion
<1>2. QED
  BY <1>1, LockInvHolds, PTL

-----------------------------------------------------------------------------
(* Lemmas about the list.                                                  *)

\* push_back adds one element, and no duplicate if the element is new.
LEMMA PushElements ==
    ASSUME NEW S, NEW s \in Seq(S), NEW e \in S
    PROVE  /\ Elements(Append(s, e)) = Elements(s) \union {e}
           /\ NoDuplicates(s) /\ e \notin Elements(s) => NoDuplicates(Append(s, e))
<1> DEFINE t == Append(s, e)
<1>1. /\ Len(t) = Len(s) + 1
      /\ \A i \in 1..Len(s) : t[i] = s[i]
      /\ t[Len(s) + 1] = e
      /\ Len(s) \in Nat
  OBVIOUS
<1>2. \A i \in 1..Len(t) : i \in 1..Len(s) \/ i = Len(s) + 1
  BY <1>1
<1>3. 1..Len(s) \subseteq 1..Len(t) /\ Len(s) + 1 \in 1..Len(t)
  BY <1>1
<1> HIDE DEF t
<1>4. Elements(t) = Elements(s) \union {e}
  BY <1>1, <1>2, <1>3 DEF Elements
<1>5. ASSUME NoDuplicates(s), e \notin Elements(s)
      PROVE  NoDuplicates(t)
  BY <1>1, <1>2, <1>5 DEF NoDuplicates, Elements
<1>6. QED
  BY <1>4, <1>5 DEF t

\* pop_front removes the front, which occurs nowhere else in a list without duplicates.
LEMMA PopElements ==
    ASSUME NEW S, NEW s \in Seq(S), s # << >>, NoDuplicates(s)
    PROVE  /\ Head(s) \in Elements(s)
           /\ Elements(Tail(s)) = Elements(s) \ {Head(s)}
           /\ NoDuplicates(Tail(s))
<1> DEFINE t == Tail(s)
<1>1. /\ Len(s) \in Nat /\ Len(s) > 0
      /\ Len(t) = Len(s) - 1
      /\ \A i \in 1..Len(t) : t[i] = s[i + 1]
      /\ Head(s) = s[1]
  OBVIOUS
<1> HIDE DEF t
<1>2. \A i \in 1..Len(s) : i = 1 \/ (i - 1 \in 1..Len(t) /\ s[i] = t[i - 1])
  BY <1>1
<1>3. \A i \in 1..Len(t) : i + 1 \in 1..Len(s) /\ i + 1 # 1
  BY <1>1
<1>4. 1 \in 1..Len(s)
  BY <1>1
<1>5. Head(s) \in Elements(s)
  BY <1>1, <1>4 DEF Elements
<1>6. Elements(t) \subseteq Elements(s) \ {Head(s)}
  BY <1>1, <1>3, <1>4 DEF Elements, NoDuplicates
<1>7. Elements(s) \ {Head(s)} \subseteq Elements(t)
  BY <1>1, <1>2 DEF Elements
<1>8. NoDuplicates(t)
  <2> SUFFICES ASSUME NEW i \in 1..Len(t), NEW j \in 1..Len(t), t[i] = t[j]
               PROVE  i = j
      BY DEF NoDuplicates
  <2>1. s[i + 1] = s[j + 1] /\ i + 1 \in 1..Len(s) /\ j + 1 \in 1..Len(s)
    BY <1>1, <1>3
  <2>2. i + 1 = j + 1
    BY <2>1 DEF NoDuplicates
  <2>3. QED
    BY <2>2
<1>9. QED
  BY <1>5, <1>6, <1>7, <1>8 DEF t

-----------------------------------------------------------------------------
(* Exactly once.                                                           *)

\* What makes ExactlyOnce inductive: the request of an append in progress is in no
\* history yet, and no two appends carry the same one.
Ledger == /\ ExactlyOnce
          /\ \A p \in Producers :
                pc[p] \in {"append_lock", "append_check", "append_push"}
                   => request[p] \notin accepted \union refused
          /\ \A p, q \in Producers :
                request[p] \in Requests /\ request[p] = request[q] => p = q

LEMMA InitLedger == Init => Ledger
<1> SUFFICES ASSUME Init
             PROVE  Ledger
    OBVIOUS
<1> USE PoolAssumption DEF Init, Threads
<1>1. \A p \in Producers : pc[p] = "idle" /\ request[p] = NoRequest
  OBVIOUS
<1>2. Holders = {} /\ Held = {}
  <2>1. \A w \in Workers : pc[w] = "unborn"
    OBVIOUS
  <2>2. Holders = {}
    BY <2>1 DEF Holders
  <2>3. QED
    BY <2>2 DEF Held
<1>3. Queued = {} /\ NoDuplicates(m_workqueue)
  <2>1. 1..Len(m_workqueue) = {}
    OBVIOUS
  <2>2. QED
    BY <2>1 DEF Queued, Elements, NoDuplicates
<1>4. ExactlyOnce
  BY <1>2, <1>3 DEF ExactlyOnce
<1>5. QED
  BY <1>1, <1>4 DEF Ledger

\* Steps that change neither the list, nor the histories, nor who holds what.
LEMMA LedgerFrame ==
    ASSUME Ledger,
           UNCHANGED <<m_workqueue, request, history>>,
           Holders' = Holders, Usable' => Usable,
           \A p \in Producers :
              pc'[p] \in {"append_lock", "append_check", "append_push"} =>
              pc[p] \in {"append_lock", "append_check", "append_push"}
    PROVE  Ledger'
<1> USE DEF history
<1>1. Held' = Held /\ Queued' = Queued
  BY DEF Held, Queued, Elements
<1>2. ExactlyOnce'
  BY <1>1 DEF Ledger, ExactlyOnce, NoDuplicates
<1>3. QED
  BY <1>2 DEF Ledger

\* A producer's variables do not matter to what the workers hold.
LEMMA HoldersOfProducerStep ==
    ASSUME LockInv, NEW p \in Producers, NEW x, NEW y,
           pc' = [pc EXCEPT ![p] = x],
           request' = [request EXCEPT ![p] = y] \/ request' = request
    PROVE  Holders' = Holders /\ Held' = Held
<1> USE PoolAssumption DEF LockInv, TypeOK, Threads
<1>1. \A w \in Workers : pc'[w] = pc[w] /\ request'[w] = request[w]
  OBVIOUS
<1> HIDE DEF LockInv, TypeOK, Threads
<1>2. Holders' = Holders
  BY <1>1 DEF Holders
<1>3. \A w \in Holders : request'[w] = request[w]
  BY <1>1 DEF Holders
<1>4. QED
  BY <1>2, <1>3 DEF Held

\* The steps of append, one by one.
LEMMA ProducingLedger ==
    ASSUME LockInv, Ledger, NEW p \in Producers, AppendCall(p) \/ Producing(p)
    PROVE  Ledger'
<1> USE PoolAssumption DEF history, shared
<1>0. /\ pc \in [Threads -> ProducerPlaces \union WorkerPlaces]
      /\ request \in [Threads -> Requests \union {NoRequest}]
      /\ p \in Threads /\ Producers \subseteq Threads
      /\ m_workqueue \in Seq(Requests)
      /\ pc[p] # "idle" => request[p] \in Requests
  BY DEF LockInv, TypeOK, RequestInScope, Threads
<1>1. CASE AppendCall(p)
  <2>1. Holders' = Holders /\ Held' = Held
    BY <1>1, HoldersOfProducerStep DEF AppendCall
  <2>2. ExactlyOnce'
    <3>1. \A w \in Workers : request'[w] = request[w]
      BY <1>0, <1>1 DEF AppendCall, Threads
    <3>2. Queued' = Queued /\ Usable' = Usable
      BY <1>1 DEF AppendCall, Queued, Elements, Usable
    <3>3. QED
      BY <1>1, <2>1, <3>1, <3>2 DEF AppendCall, Ledger, ExactlyOnce, NoDuplicates, Holders
  <2>3. QED
    BY <1>0, <1>1, <2>2 DEF AppendCall, Ledger
<1>2. CASE AppendLock(p)
  <2>1. Holders' = Holders
    BY <1>2, HoldersOfProducerStep DEF AppendLock, Lock
  <2>2. QED
    BY <1>0, <1>2, <2>1, LedgerFrame DEF AppendLock, Lock, Usable
<1>3. CASE AppendFull(p)
  <2>1. Holders' = Holders /\ Held' = Held
    BY <1>3, HoldersOfProducerStep DEF AppendFull
  <2>2. ExactlyOnce'
    <3>1. \A w \in Workers : request'[w] = request[w]
      BY <1>0, <1>3 DEF AppendFull, Threads
    <3>2. Queued' = Queued /\ Usable' = Usable
      BY <1>3 DEF AppendFull, Queued, Elements, Usable
    <3>3. request[p] \notin accepted
      BY <1>3 DEF AppendFull, Ledger
    <3>4. QED
      BY <1>3, <2>1, <3>1, <3>2, <3>3
      DEF AppendFull, Ledger, ExactlyOnce, NoDuplicates, Holders
  <2>3. QED
    BY <1>0, <1>3, <2>2 DEF AppendFull, Ledger
<1>4. CASE AppendRoom(p)
  <2>1. Holders' = Holders
    BY <1>4, HoldersOfProducerStep DEF AppendRoom
  <2>2. QED
    BY <1>0, <1>4, <2>1, LedgerFrame DEF AppendRoom, Usable
<1>5. CASE AppendPush(p)
  <2>1. Holders' = Holders /\ Held' = Held
    BY <1>5, HoldersOfProducerStep DEF AppendPush
  <2>2. request[p] \in Requests /\ request[p] \notin accepted \union refused
    BY <1>0, <1>5 DEF AppendPush, Ledger
  <2>3. ExactlyOnce'
    <3> SUFFICES ASSUME Usable'
                 PROVE  ExactlyOnce'
        BY DEF ExactlyOnce
    <3>1. Usable
      BY <1>5 DEF AppendPush, Usable
    <3>2. /\ Queued' = Queued \union {request[p]}
          /\ NoDuplicates(m_workqueue')
      BY <1>0, <1>5, <2>2, <3>1, PushElements
      DEF AppendPush, Queued, Ledger, ExactlyOnce
    <3>3. QED
      BY <1>5, <2>1, <2>2, <3>1, <3>2 DEF AppendPush, Ledger, ExactlyOnce, Holders
  <2>4. QED
    BY <1>0, <1>5, <2>3 DEF AppendPush, Ledger
<1>6. CASE AppendUnlock(p)
  <2>1. Holders' = Holders
    BY <1>6, HoldersOfProducerStep DEF AppendUnlock
  <2>2. QED
    BY <1>0, <1>6, <2>1, LedgerFrame DEF AppendUnlock, Usable
<1>7. CASE AppendPost(p)
  <2>1. Holders' = Holders /\ Held' = Held
    BY <1>7, HoldersOfProducerStep DEF AppendPost
  <2>2. ExactlyOnce'
    <3>1. \A w \in Workers : request'[w] = request[w]
      BY <1>0, <1>7 DEF AppendPost, Threads
    <3>2. Queued' = Queued /\ Usable' = Usable
      BY <1>7 DEF AppendPost, Queued, Elements, Usable
    <3>3. QED
      BY <1>7, <2>1, <3>1, <3>2 DEF AppendPost, Ledger, ExactlyOnce, NoDuplicates, Holders
  <2>3. QED
    BY <1>0, <1>7, <2>2 DEF AppendPost, Ledger
<1>8. QED
  BY <1>1, <1>2, <1>3, <1>4, <1>5, <1>6, <1>7 DEF Producing

\* The steps of run, one by one.  Only RunPop and RunProcess move a request.
LEMMA WorkerLedger ==
    ASSUME LockInv, Ledger, NEW w \in Workers,
           CreateThread(w) \/ RunWaitInterrupted(w) \/ Running(w)
    PROVE  Ledger'
<1> USE PoolAssumption DEF history, shared
<1>0. /\ pc \in [Threads -> ProducerPlaces \union WorkerPlaces]
      /\ request \in [Threads -> Requests \union {NoRequest}]
      /\ w \in Threads /\ Workers \subseteq Threads
      /\ \A p \in Producers : p \in Threads /\ p # w
      /\ m_workqueue \in Seq(Requests)
  BY DEF LockInv, TypeOK, Threads
<1>1. ASSUME UNCHANGED <<m_workqueue, request, history, pool>>,
             pc[w] \notin {"unlock", "dispatch"}, pc'[w] \notin {"unlock", "dispatch"},
             \A t \in Threads : t # w => pc'[t] = pc[t]
      PROVE  Ledger'
  <2>1. Holders' = Holders
    BY <1>0, <1>1 DEF Holders
  <2>2. \A p \in Producers : pc'[p] = pc[p]
    BY <1>0, <1>1
  <2>3. QED
    BY <1>1, <2>1, <2>2, LedgerFrame DEF Usable
<1>2. CASE CreateThread(w)
  BY <1>0, <1>2, <1>1 DEF CreateThread
<1>3. CASE RunWaitInterrupted(w)
  BY <1>0, <1>3, <1>1 DEF RunWaitInterrupted
<1>4. CASE RunLoop(w)
  BY <1>0, <1>4, <1>1 DEF RunLoop
<1>5. CASE RunWait(w)
  BY <1>0, <1>5, <1>1 DEF RunWait
<1>6. CASE RunLock(w)
  BY <1>0, <1>6, <1>1 DEF RunLock, Lock
<1>7. CASE RunEmpty(w)
  BY <1>0, <1>7, <1>1 DEF RunEmpty
<1>8. CASE RunFront(w)
  <2>1. \A p \in Producers : pc'[p] = pc[p] /\ request'[p] = request[p]
    BY <1>0, <1>8 DEF RunFront
  <2>2. Holders' = Holders /\ w \notin Holders
    BY <1>0, <1>8 DEF RunFront, Holders
  <2>3. \A v \in Holders : request'[v] = request[v]
    BY <1>0, <1>8, <2>2 DEF RunFront, Holders
  <2>4. Held' = Held
    BY <2>2, <2>3 DEF Held
  <2>5. Queued' = Queued /\ Usable' = Usable
    BY <1>8 DEF RunFront, Queued, Elements, Usable
  <2>6. ExactlyOnce'
    BY <1>8, <2>2, <2>3, <2>4, <2>5 DEF RunFront, Ledger, ExactlyOnce, NoDuplicates
  <2>7. QED
    BY <1>8, <2>1, <2>6 DEF RunFront, Ledger
<1>9. CASE RunPop(w)
  <2>1. \A p \in Producers : pc'[p] = pc[p] /\ request'[p] = request[p]
    BY <1>0, <1>9 DEF RunPop
  <2>2. Usable /\ m_workqueue # << >> /\ request[w] = Head(m_workqueue)
    BY <1>9 DEF RunPop, LockInv, Tested
  <2>3. Holders' = Holders \union {w} /\ w \notin Holders
    BY <1>0, <1>9 DEF RunPop, Holders
  <2>4. Held' = Held \union {request[w]}
    BY <1>9, <2>3 DEF RunPop, Held
  <2>5. /\ request[w] \in Queued
        /\ Queued' = Queued \ {request[w]}
        /\ NoDuplicates(m_workqueue')
    BY <1>0, <1>9, <2>2, PopElements DEF RunPop, Queued, Ledger, ExactlyOnce
  <2>6. \A v \in Holders : request[v] # request[w]
    BY <2>2, <2>5 DEF Ledger, ExactlyOnce, Held
  <2>7. ExactlyOnce'
    BY <1>9, <2>2, <2>3, <2>4, <2>5, <2>6 DEF RunPop, Ledger, ExactlyOnce
  <2>8. QED
    BY <1>9, <2>1, <2>7 DEF RunPop, Ledger
<1>10. CASE RunUnlock(w)
  <2>1. \A p \in Producers : pc'[p] = pc[p]
    BY <1>0, <1>10 DEF RunUnlock
  <2>2. Holders' = Holders
    BY <1>0, <1>10 DEF RunUnlock, Holders
  <2>3. QED
    BY <1>10, <2>1, <2>2, LedgerFrame DEF RunUnlock, Usable
<1>11. CASE RunProcess(w)
  <2>1. \A p \in Producers : pc'[p] = pc[p] /\ request'[p] = request[p]
    BY <1>0, <1>11 DEF RunProcess
  <2>2. Holders' = Holders \ {w} /\ w \in Holders
    BY <1>0, <1>11 DEF RunProcess, Holders
  <2>3. \A v \in Holders' : request'[v] = request[v]
    BY <1>0, <1>11, <2>2 DEF RunProcess, Holders
  <2>4. Queued' = Queued /\ Usable' = Usable
    BY <1>11 DEF RunProcess, Queued, Elements, Usable
  <2>5. ASSUME Usable
        PROVE  Held' = Held \ {request[w]} /\ request[w] \in Held
    BY <2>2, <2>3, <2>5 DEF Held, Ledger, ExactlyOnce
  <2>6. ExactlyOnce'
    BY <1>11, <2>2, <2>3, <2>4, <2>5 DEF RunProcess, Ledger, ExactlyOnce, NoDuplicates
  <2>7. QED
    BY <1>11, <2>1, <2>6 DEF RunProcess, Ledger
<1>12. CASE RunOnFreedPool(w)
  <2>1. \A p \in Producers : pc'[p] = pc[p] /\ request'[p] = request[p]
    BY <1>0, <1>12 DEF RunOnFreedPool
  <2>2. ~Usable'
    BY <1>12 DEF RunOnFreedPool, Usable
  <2>3. QED
    BY <1>12, <2>1, <2>2 DEF RunOnFreedPool, Ledger, ExactlyOnce
<1>13. QED
  BY <1>2, <1>3, <1>4, <1>5, <1>6, <1>7, <1>8, <1>9, <1>10, <1>11, <1>12 DEF Running

LEMMA LedgerStep == LockInv /\ Ledger /\ [Next]_vars => Ledger'
<1> SUFFICES ASSUME LockInv, Ledger, [Next]_vars
             PROVE  Ledger'
    OBVIOUS
<1>1. CASE Owner \/ UNCHANGED vars
  <2>1. /\ UNCHANGED <<m_workqueue, request, history, pc>>
        /\ Usable' => Usable
    BY <1>1 DEF Owner, CreateFails, ConstructorReturns, DestructorBody, DestroyMembers,
                vars, history, Usable
  <2>2. Holders' = Holders
    BY <2>1 DEF Holders
  <2>3. QED
    BY <2>1, <2>2, LedgerFrame
<1>2. QED
  BY <1>1, ProducingLedger, WorkerLedger DEF Next

\* While the pool lives, an accepted request is in exactly one place: once in the queue,
\* with one worker, or finished; a refused one is nowhere.
THEOREM OnceEach == Spec => []ExactlyOnce
<1>1. Ledger => ExactlyOnce
  BY DEF Ledger
<1>2. QED
  BY <1>1, InitLedger, LedgerStep, LockInvHolds, PTL DEF Spec

-----------------------------------------------------------------------------
(* No lost wake-up.                                                        *)

\* The counters of NoLostWakeup are natural numbers, and a thread that enters or leaves
\* one of the sets counts one.
LEMMA CountersAreNat ==
    /\ IsFiniteSet(Woken) /\ Cardinality(Woken) \in Nat
    /\ IsFiniteSet(Posting) /\ Cardinality(Posting) \in Nat
<1>1. Woken \subseteq Workers /\ Posting \subseteq Producers
  BY DEF Woken, Posting
<1>2. IsFiniteSet(Woken) /\ IsFiniteSet(Posting)
  BY <1>1, PoolAssumption, FS_Subset
<1>3. QED
  BY <1>2, FS_CardinalityType

LEMMA OneMore ==
    ASSUME NEW S, IsFiniteSet(S), NEW x, x \notin S
    PROVE  Cardinality(S \union {x}) = Cardinality(S) + 1
  BY FS_AddElement

LEMMA OneLess ==
    ASSUME NEW S, IsFiniteSet(S), NEW x, x \in S
    PROVE  Cardinality(S \ {x}) = Cardinality(S) - 1
  BY FS_RemoveElement

\* Steps that leave the list, the semaphore and both sets alone.
LEMMA WakeupFrame ==
    ASSUME NoLostWakeup, m_workqueue' = m_workqueue, m_queuestat' = m_queuestat,
           Woken' = Woken, Posting' = Posting, Usable' => Usable
    PROVE  NoLostWakeup'
  BY DEF NoLostWakeup

LEMMA ProducingWakeup ==
    ASSUME LockInv, NoLostWakeup, NEW p \in Producers, AppendCall(p) \/ Producing(p)
    PROVE  NoLostWakeup'
<1>0. /\ pc \in [Threads -> ProducerPlaces \union WorkerPlaces]
      /\ p \in Threads /\ Producers \subseteq Threads
      /\ \A w \in Workers : w \in Threads /\ w # p
      /\ m_workqueue \in Seq(Requests) /\ m_queuestat \in Nat
      /\ request[p] \in Requests \/ pc[p] = "idle"
  BY PoolAssumption DEF LockInv, TypeOK, RequestInScope, Threads
<1>1. \A t \in Threads : t # p => pc'[t] = pc[t]
  BY <1>0 DEF Producing, AppendCall, AppendLock, Lock, AppendFull, AppendRoom,
              AppendPush, AppendUnlock, AppendPost
<1>2. Woken' = Woken
  BY <1>0, <1>1 DEF Woken
<1>3. CASE AppendPush(p)
  <2>1. Posting' = Posting \union {p} /\ p \notin Posting
    BY <1>0, <1>1, <1>3 DEF AppendPush, Posting
  <2>2. Cardinality(Posting') = Cardinality(Posting) + 1
    BY <2>1, CountersAreNat, OneMore
  <2>3. Len(m_workqueue') = Len(m_workqueue) + 1
    BY <1>0, <1>3 DEF AppendPush
  <2>4. QED
    BY <1>0, <1>2, <1>3, <2>2, <2>3, CountersAreNat DEF AppendPush, NoLostWakeup, Usable
<1>4. CASE AppendPost(p)
  <2>1. Posting' = Posting \ {p} /\ p \in Posting
    BY <1>0, <1>1, <1>4 DEF AppendPost, Posting
  <2>2. Cardinality(Posting') = Cardinality(Posting) - 1
    BY <2>1, CountersAreNat, OneLess
  <2>3. QED
    BY <1>0, <1>2, <1>4, <2>2, CountersAreNat DEF AppendPost, NoLostWakeup, Usable
<1>5. CASE AppendCall(p) \/ AppendLock(p) \/ AppendFull(p) \/ AppendRoom(p)
           \/ AppendUnlock(p)
  <2>1. /\ Posting' = Posting /\ Usable' = Usable
        /\ m_workqueue' = m_workqueue /\ m_queuestat' = m_queuestat
    BY <1>0, <1>1, <1>5 DEF AppendCall, AppendLock, Lock, AppendFull, AppendRoom,
                            AppendUnlock, Posting, Usable, shared
  <2>2. QED
    BY <1>2, <2>1, WakeupFrame
<1>6. QED
  BY <1>3, <1>4, <1>5 DEF Producing

LEMMA WorkerWakeup ==
    ASSUME LockInv, NoLostWakeup, NEW w \in Workers,
           CreateThread(w) \/ RunWaitInterrupted(w) \/ Running(w)
    PROVE  NoLostWakeup'
<1>0. /\ pc \in [Threads -> ProducerPlaces \union WorkerPlaces]
      /\ w \in Threads /\ Workers \subseteq Threads
      /\ \A p \in Producers : p \in Threads /\ p # w
      /\ m_workqueue \in Seq(Requests) /\ m_queuestat \in Nat
  BY PoolAssumption DEF LockInv, TypeOK, Threads
<1>1. \A t \in Threads : t # w => pc'[t] = pc[t]
  BY <1>0 DEF Running, CreateThread, RunWaitInterrupted, RunLoop, RunWait, RunLock, Lock,
              RunEmpty, RunFront, RunPop, RunUnlock, RunProcess, RunOnFreedPool
<1>2. Posting' = Posting
  BY <1>0, <1>1 DEF Posting
<1>3. CASE RunWait(w) \/ RunWaitInterrupted(w)
  <2>1. Woken' = Woken \union {w} /\ w \notin Woken
    BY <1>0, <1>1, <1>3 DEF RunWait, RunWaitInterrupted, Woken
  <2>2. Cardinality(Woken') = Cardinality(Woken) + 1
    BY <2>1, CountersAreNat, OneMore
  <2>3. QED
    BY <1>0, <1>2, <1>3, <2>2, CountersAreNat
    DEF RunWait, RunWaitInterrupted, NoLostWakeup, Usable, shared
<1>4. CASE RunEmpty(w)
  <2>1. /\ Len(m_workqueue') = 0 /\ m_queuestat' = m_queuestat
        /\ Woken' = Woken \ {w} /\ w \in Woken
    BY <1>0, <1>1, <1>4 DEF RunEmpty, Woken
  <2>2. Cardinality(Woken') \in Nat
    <3>1. IsFiniteSet(Woken \ {w})
      BY CountersAreNat, FS_Subset
    <3>2. QED
      BY <2>1, <3>1, FS_CardinalityType
  <2>3. QED
    BY <1>0, <1>2, <2>1, <2>2, CountersAreNat DEF NoLostWakeup
<1>5. CASE RunPop(w)
  <2>1. Woken' = Woken \ {w} /\ w \in Woken
    BY <1>0, <1>1, <1>5 DEF RunPop, Woken
  <2>2. Cardinality(Woken') = Cardinality(Woken) - 1
    BY <2>1, CountersAreNat, OneLess
  <2>3. Len(m_workqueue') = Len(m_workqueue) - 1
    BY <1>0, <1>5 DEF RunPop, LockInv, Tested
  <2>4. Usable /\ m_queuestat' = m_queuestat /\ Len(m_workqueue) \in Nat
    BY <1>0, <1>5 DEF RunPop
  <2>5. QED
    BY <1>0, <1>2, <2>2, <2>3, <2>4, CountersAreNat DEF NoLostWakeup
<1>6. CASE CreateThread(w) \/ RunLoop(w) \/ RunLock(w) \/ RunFront(w) \/ RunUnlock(w)
           \/ RunProcess(w)
  <2>1. Usable' = Usable /\ m_workqueue' = m_workqueue /\ m_queuestat' = m_queuestat
    BY <1>6 DEF CreateThread, RunLoop, RunLock, Lock, RunFront, RunUnlock, RunProcess,
                Usable, shared
  <2>2. pc'[w] \in {"lock", "check", "pop"} <=> pc[w] \in {"lock", "check", "pop"}
    BY <1>0, <1>6 DEF CreateThread, RunLoop, RunLock, Lock, RunFront, RunUnlock, RunProcess
  <2>3. Woken' = Woken
    BY <1>0, <1>1, <2>2 DEF Woken
  <2>4. QED
    BY <1>2, <2>1, <2>3, WakeupFrame
<1>7. CASE RunOnFreedPool(w)
  BY <1>7 DEF RunOnFreedPool, NoLostWakeup, Usable, shared
<1>8. QED
  BY <1>3, <1>4, <1>5, <1>6, <1>7 DEF Running

\* While the pool lives, every queued request has a token of the semaphore, a worker
\* already awake or a producer about to post to its name.
THEOREM NoWakeupLost == Spec => []NoLostWakeup
<1>1. Init => NoLostWakeup
  <2> SUFFICES ASSUME Init
               PROVE  NoLostWakeup
      OBVIOUS
  <2>1. Len(m_workqueue) = 0 /\ m_queuestat = 0
    BY DEF Init
  <2>2. QED
    BY <2>1, CountersAreNat DEF NoLostWakeup
<1>2. LockInv /\ NoLostWakeup /\ [Next]_vars => NoLostWakeup'
  <2> SUFFICES ASSUME LockInv, NoLostWakeup, [Next]_vars
               PROVE  NoLostWakeup'
      OBVIOUS
  <2>1. CASE Owner \/ UNCHANGED vars
    <3>1. UNCHANGED <<m_workqueue, m_queuestat, pc>> /\ (Usable' => Usable)
      BY <2>1 DEF Owner, CreateFails, ConstructorReturns, DestructorBody, DestroyMembers,
                  vars, Usable
    <3>2. Woken' = Woken /\ Posting' = Posting
      BY <3>1 DEF Woken, Posting
    <3>3. QED
      BY <3>1, <3>2, WakeupFrame
  <2>2. QED
    BY <2>1, ProducingWakeup, WorkerWakeup DEF Next
<1>3. QED
  BY <1>1, <1>2, LockInvHolds, PTL DEF Spec

-----------------------------------------------------------------------------
(* The pool implements TaskQueue.                                          *)

\* A step after which every worker holds what it held before.
LEMMA TakenFrame ==
    ASSUME Holders' = Holders, \A w \in Holders : request'[w] = request[w]
    PROVE  Taken' = Taken
  BY DEF Taken

\* append implements Submit at push_back and is invisible elsewhere.
LEMMA ProducingRefines ==
    ASSUME LockInv, Ledger, NEW p \in Producers, AppendCall(p) \/ Producing(p)
    PROVE  [Abstract!Next]_(Abstract!vars)
<1>0. /\ pc \in [Threads -> ProducerPlaces \union WorkerPlaces]
      /\ request \in [Threads -> Requests \union {NoRequest}]
      /\ p \in Threads /\ \A w \in Workers : w \in Threads /\ w # p
      /\ pc[p] # "idle" => request[p] \in Requests
      /\ \A q \in Producers : pc[q] # "idle" => request[q] \in Requests
  BY PoolAssumption DEF LockInv, TypeOK, RequestInScope, Threads
<1>1. \A w \in Workers : pc'[w] = pc[w] /\ request'[w] = request[w]
  BY <1>0 DEF Producing, AppendCall, AppendLock, Lock, AppendFull, AppendRoom,
              AppendPush, AppendUnlock, AppendPost
<1>2. Holders' = Holders
  BY <1>1 DEF Holders
<1>3. Taken' = Taken
  BY <1>1, <1>2, TakenFrame DEF Holders
<1>4. CASE AppendPush(p)
  <2>1. /\ request[p] \in Requests /\ request[p] \notin accepted
        /\ Len(m_workqueue) < MaxRequests
    BY <1>0, <1>4 DEF AppendPush, Ledger, LockInv, Tested
  <2>2. Usable
    BY <1>4 DEF AppendPush, LockInv, LivePool, Usable
  <2>3. Abstract!Submit(request[p])
    <3>1. request[p] \notin finished /\ request[p] \notin Held /\ request[p] \notin Queued
      BY <2>1, <2>2 DEF Ledger, ExactlyOnce
    <3>2. \A w \in Workers : Taken[w] # request[p]
      BY <2>1, <3>1, PoolAssumption DEF Taken, Held
    <3>3. \A i \in 1..Len(m_workqueue) : m_workqueue[i] # request[p]
      BY <3>1 DEF Queued, Elements
    <3>4. QED
      BY <1>3, <1>4, <2>1, <2>2, <3>1, <3>2, <3>3 DEF AppendPush, Abstract!Submit, Usable
  <2>4. QED
    BY <2>1, <2>3 DEF Abstract!Next
<1>5. CASE AppendCall(p) \/ AppendLock(p) \/ AppendFull(p) \/ AppendRoom(p)
           \/ AppendUnlock(p) \/ AppendPost(p)
  BY <1>3, <1>5 DEF AppendCall, AppendLock, Lock, AppendFull, AppendRoom, AppendUnlock,
                    AppendPost, Abstract!vars, Usable, shared, history
<1>6. QED
  BY <1>4, <1>5 DEF Producing

\* run implements Take at pop_front, Finish when process() returns, Abandon when it runs
\* into the freed object with a request in its hands; it is invisible elsewhere.
LEMMA WorkerRefines ==
    ASSUME LockInv, NEW w \in Workers,
           CreateThread(w) \/ RunWaitInterrupted(w) \/ Running(w)
    PROVE  [Abstract!Next]_(Abstract!vars)
<1>0. /\ pc \in [Threads -> ProducerPlaces \union WorkerPlaces]
      /\ request \in [Threads -> Requests \union {NoRequest}]
      /\ w \in Threads /\ Workers \subseteq Threads
      /\ pc[w] \in {"unlock", "dispatch"} => request[w] \in Requests
  BY DEF LockInv, TypeOK, RequestInScope, Threads
<1>1. \A v \in Workers : v # w => pc'[v] = pc[v] /\ request'[v] = request[v]
  BY <1>0 DEF Running, CreateThread, RunWaitInterrupted, RunLoop, RunWait, RunLock, Lock,
              RunEmpty, RunFront, RunPop, RunUnlock, RunProcess, RunOnFreedPool
<1>2. CASE RunPop(w)
  <2>1. m_workqueue # << >> /\ request[w] = Head(m_workqueue) /\ request'[w] = request[w]
    BY <1>2 DEF RunPop, LockInv, Tested
  <2>2. w \notin Holders /\ Holders' = Holders \union {w}
    BY <1>0, <1>1, <1>2 DEF RunPop, Holders
  <2>3. Taken[w] = NoRequest /\ Taken' = [Taken EXCEPT ![w] = Head(m_workqueue)]
    BY <1>1, <2>1, <2>2 DEF Taken
  <2>4. Abstract!Take(w)
    BY <1>2, <2>1, <2>3 DEF RunPop, Abstract!Take, Usable, history
  <2>5. QED
    BY <2>4 DEF Abstract!Next
<1>3. CASE RunProcess(w)
  <2>1. w \in Holders /\ Holders' = Holders \ {w} /\ request[w] \in Requests
    BY <1>0, <1>1, <1>3 DEF RunProcess, Holders
  <2>2. Taken[w] = request[w] /\ Taken' = [Taken EXCEPT ![w] = NoRequest]
    BY <1>1, <2>1 DEF Taken
  <2>3. Abstract!Finish(w)
    BY <1>3, <2>1, <2>2 DEF RunProcess, Abstract!Finish, Usable, shared
  <2>4. QED
    BY <2>3 DEF Abstract!Next
<1>4. CASE RunOnFreedPool(w)
  <2>1. w \notin Holders' /\ Holders' = Holders \ {w}
    BY <1>0, <1>1, <1>4 DEF RunOnFreedPool, Holders
  <2>2. Taken' = [Taken EXCEPT ![w] = NoRequest]
    BY <1>1, <2>1 DEF Taken
  <2>3. Abstract!Abandon(w)
    BY <1>4, <2>2 DEF RunOnFreedPool, Abstract!Abandon, Usable, shared, history
  <2>4. QED
    BY <2>3 DEF Abstract!Next
<1>5. CASE CreateThread(w) \/ RunWaitInterrupted(w) \/ RunLoop(w) \/ RunWait(w)
           \/ RunLock(w) \/ RunEmpty(w) \/ RunFront(w) \/ RunUnlock(w)
  <2>1. pc'[w] \in {"unlock", "dispatch"} <=> pc[w] \in {"unlock", "dispatch"}
    BY <1>0, <1>5 DEF CreateThread, RunWaitInterrupted, RunLoop, RunWait, RunLock, Lock,
                      RunEmpty, RunFront, RunUnlock
  <2>2. Holders' = Holders
    BY <1>1, <2>1 DEF Holders
  <2>3. pc[w] \in {"unlock", "dispatch"} => request'[w] = request[w]
    BY <1>0, <1>5 DEF CreateThread, RunWaitInterrupted, RunLoop, RunWait, RunLock, Lock,
                      RunEmpty, RunFront, RunUnlock
  <2>4. Taken' = Taken
    BY <1>1, <2>2, <2>3, TakenFrame DEF Holders
  <2>5. QED
    BY <1>5, <2>4 DEF CreateThread, RunWaitInterrupted, RunLoop, RunWait, RunLock, Lock,
                      RunEmpty, RunFront, RunUnlock, Abstract!vars, Usable, shared, history
<1>6. QED
  BY <1>2, <1>3, <1>4, <1>5 DEF Running

\* The pool, with its mutex, its semaphore and its threads, implements the bounded queue
\* that hands each request to one worker in the order of arrival.
THEOREM Refinement == Spec => ImplementsTaskQueue
<1>1. Init => Abstract!Init
  <2> SUFFICES ASSUME Init
               PROVE  Abstract!Init
      OBVIOUS
  <2>1. \A w \in Workers : pc[w] = "unborn"
    BY DEF Init, Threads
  <2>2. Taken = [w \in Workers |-> NoRequest]
    BY <2>1 DEF Taken, Holders
  <2>3. QED
    BY <2>2 DEF Init, Abstract!Init, Usable
<1>2. LockInv /\ Ledger /\ [Next]_vars => [Abstract!Next]_(Abstract!vars)
  <2> SUFFICES ASSUME LockInv, Ledger, [Next]_vars
               PROVE  [Abstract!Next]_(Abstract!vars)
      OBVIOUS
  <2>1. CASE Owner \/ UNCHANGED vars
    <3>1. /\ UNCHANGED <<m_workqueue, request, finished, pc>>
          /\ Usable' = Usable \/ (Usable /\ ~Usable')
      BY <2>1 DEF Owner, CreateFails, ConstructorReturns, DestructorBody, DestroyMembers,
                  vars, history, Usable
    <3>2. Taken' = Taken
      BY <3>1, TakenFrame DEF Holders
    <3>3. Usable' = Usable => UNCHANGED Abstract!vars
      BY <3>1, <3>2 DEF Abstract!vars
    <3>4. Usable /\ ~Usable' => Abstract!Close
      BY <3>1, <3>2 DEF Abstract!Close
    <3>5. QED
      BY <3>1, <3>3, <3>4 DEF Abstract!Next
  <2>2. QED
    BY <2>1, ProducingRefines, WorkerRefines DEF Next
<1>3. Spec => []Ledger
  BY InitLedger, LedgerStep, LockInvHolds, PTL DEF Spec
<1>4. QED
  BY <1>1, <1>2, <1>3, LockInvHolds, PTL DEF Spec, ImplementsTaskQueue, Abstract!Spec
=============================================================================
