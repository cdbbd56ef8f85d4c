-------------------------- MODULE WebServerProofs --------------------------
(***************************************************************************)
(* Proofs about WebServer, for any number of clients, descriptors and      *)
(* workers, any limits of the users and of the pool, any size of a         *)
(* request.                                                                *)
(*                                                                         *)
(* ConnInv, types and where the input of a client is, holds in every       *)
(* state.  HandsInv says who has which connection in hand; it holds, like  *)
(* the properties it implies, until a descriptor is reused under a worker. *)
(***************************************************************************)
EXTENDS WebServer, FiniteSetTheorems, NaturalsInduction, TLAPS

-----------------------------------------------------------------------------
(* The connections.                                                        *)

Setup == {"init_sock", "init_add", "init_load", "init_store", "init_reset"}
Shutting == {"close_sock", "close_load", "close_store"}

\* A thread that does something to a connection knows which.
Pcs == /\ mpc \in {"dispatch", "close"} \union Setup \union Shutting
       /\ mpc # "dispatch" <=> mfd \in Fds
       /\ wpc \in [Workers -> {"idle", "process", "rearm", "close"} \union Shutting]
       /\ \A w \in Workers : wpc[w] # "idle" <=> wfd[w] \in Fds

\* A client is behind one descriptor at most, and has one place in the backlog at most.
Sockets ==
    /\ \A f \in Fds : owner[f] # Free => phase[owner[f]] = "open"
    /\ \A f, g \in Fds : owner[f] # Free /\ owner[f] = owner[g] => f = g
    /\ \A i \in 1..Len(backlog) : phase[backlog[i]] = "backlog"
    /\ \A i, j \in 1..Len(backlog) : backlog[i] = backlog[j] => i = j
    /\ \A c \in dropped : phase[c] \in {"open", "closed"}

\* A client sends one request.
Input ==
    /\ \A c \in Clients : inq[c] + unsent[c] <= RequestSize
    /\ \A f \in Fds : owner[f] # Free /\ ~InSetup(f) =>
           got[f] + inq[owner[f]] + unsent[owner[f]] <= RequestSize

\* The type of m_read_buf needs Input, that of inq too, and Input needs Sockets.
ConnInv == TypeOK /\ Pcs /\ Sockets /\ Input

-----------------------------------------------------------------------------
(* Who has a connection in hand.                                           *)

AtEpoll(f) == interest[f] \in {"in", "out"} /\ ~Closing(f)
InBatch(f) == \E e \in events : e[1] = f
Queued(f) == \E i \in 1..Len(queue) : queue[i] = f
WithWorker(f) == \E w \in Workers : wfd[w] = f

\* No two of the five have it.
Exclusive(f) ==
    /\ AtEpoll(f) => ~InBatch(f) /\ ~Queued(f) /\ ~WithWorker(f) /\ ~Closing(f)
    /\ InBatch(f) => ~Queued(f) /\ ~WithWorker(f) /\ ~Closing(f)
    /\ Queued(f) => ~WithWorker(f) /\ ~Closing(f)
    /\ WithWorker(f) => ~Closing(f)

\* Neither the batch, nor the queue, nor the workers have it twice.
Once(f) ==
    /\ \A d, e \in events : d[1] = f /\ e[1] = f => d = e
    /\ \A i, j \in 1..Len(queue) : queue[i] = f /\ queue[j] = f => i = j
    /\ \A v, w \in Workers : wfd[v] = f /\ wfd[w] = f => v = w

InHand(f) == AtEpoll(f) \/ InBatch(f) \/ Queued(f) \/ WithWorker(f) \/ Closing(f)

\* A descriptor the kernel may give away: only a thread that has just closed it knows it.
Unused(f) ==
    /\ interest[f] = "none" /\ ~InBatch(f) /\ ~Queued(f) /\ ~Closing(f) /\ ~InSetup(f)
    /\ \A w \in Workers : wfd[w] = f => wpc[w] \in Shutting \union {"rearm"}
    /\ \/ ~sock[f]
       \/ mfd = f /\ mpc = "close_sock"
       \/ \E w \in Workers : wfd[w] = f /\ wpc[w] = "close_sock"

\* A connection the main thread is setting up.
Fresh(f) ==
    /\ ~InBatch(f) /\ ~Queued(f) /\ ~WithWorker(f)
    /\ interest[f] = IF mpc \in {"init_sock", "init_add"} THEN "none" ELSE "in"
    /\ mpc # "init_sock" => sock[f]
    /\ owner[f] \notin dropped

\* A connection that is set up.
Served(f) ==
    /\ interest[f] # "none" /\ sock[f]
    /\ Exclusive(f) /\ Once(f)
    /\ InHand(f) <=> owner[f] \notin dropped
    /\ mfd = f => mpc \notin Shutting
    /\ \A w \in Workers : wfd[w] = f => wpc[w] \notin Shutting

Hands(f) == IF owner[f] = Free THEN Unused(f)
            ELSE IF InSetup(f) THEN Fresh(f) ELSE Served(f)

HandsInv == ~raced => \A f \in Fds : Hands(f)

-----------------------------------------------------------------------------
(* The operators.                                                          *)

Registrations == {"none", "off", "in", "out"}

LEMMA FreeIsNone == Free \notin Fds /\ Free \notin Clients /\ RequestSize \in Nat \ {0}
  BY ServerAssumption

\* The kernel has a lowest descriptor to give away when it has one at all.
LEMMA LowestIsFree == ASSUME FreeFds # {} PROVE Lowest(FreeFds) \in FreeFds
<1>1. FreeFds \subseteq Nat
  BY ServerAssumption DEF FreeFds
<1>2. IsWellFoundedOn(OpToRel(<, Nat), Nat)
  BY NatLessThanWellFounded
<1>3. PICK f \in FreeFds : \A g \in FreeFds : <<g, f>> \notin OpToRel(<, Nat)
  BY <1>1, <1>2, WFMin
<1>4. \A g \in FreeFds : ~(g < f)
  BY <1>1, <1>3 DEF OpToRel
<1>5. \A g \in FreeFds : f <= g
  BY <1>1, <1>4
<1>6. QED
  BY <1>5 DEF Lowest

LEMMA ArmedIsRegistration ==
    ASSUME NEW f \in Fds, NEW ev \in {"in", "out"}, interest \in [Fds -> Registrations]
    PROVE  Armed(f, ev) \in [Fds -> Registrations]
  BY DEF Armed, Registrations

\* Events lead to a branch of the loop.
LEMMA EventIsBranch ==
    ASSUME NEW f \in Ready
    PROVE  f \in Fds /\ EventOf(f) \in {"hup", "in", "out"} /\ interest[f] \notin {"none", "off"}
           /\ owner[f] # Free
  BY DEF Ready, EventOf

-----------------------------------------------------------------------------
(* ConnInv is inductive.                                                   *)

LEMMA InitConnInv == Init => ConnInv
<1> SUFFICES ASSUME Init
             PROVE  ConnInv
    OBVIOUS
<1> USE FreeIsNone DEF Init
<1>1. << >> \in Seq(Clients) /\ << >> \in Seq(Fds)
  OBVIOUS
<1>2. TypeOK
  <2>1. 0 \in 0..RequestSize /\ RequestSize \in 0..RequestSize
    BY SMT
  <2>2. /\ unsent \in [Clients -> 0..RequestSize] /\ inq \in [Clients -> 0..RequestSize]
        /\ got \in [Fds -> 0..RequestSize] /\ wreg \in [Workers -> Int]
    BY <2>1
  <2>3. /\ phase \in [Clients -> {"away", "backlog", "open", "closed"}]
        /\ hup \in [Clients -> BOOLEAN] /\ owner \in [Fds -> Clients \union {Free}]
        /\ interest \in [Fds -> {"none", "off", "in", "out"}]
        /\ sock \in [Fds -> BOOLEAN] /\ wr \in [Fds -> BOOLEAN]
        /\ wfd \in [Workers -> Fds \union {Free}]
    OBVIOUS
  <2>4. backlog \in Seq(Clients) /\ queue \in Seq(Fds)
    BY <1>1
  <2>5. edge \in BOOLEAN /\ raced \in BOOLEAN
    OBVIOUS
  <2>6. userCount \in Int /\ mreg \in Int
    OBVIOUS
  <2>7. /\ mfd \in Fds \union {Free}
        /\ events \subseteq (Fds \union {Free}) \X {"listen", "hup", "in", "out"}
        /\ processed \subseteq Clients /\ dropped \subseteq Clients
    OBVIOUS
  <2>8. QED
    BY ONLY <2>2, <2>3, <2>4, <2>5, <2>6, <2>7 DEF TypeOK
<1>3. Pcs
  BY DEF Pcs
<1>4. Sockets
  BY DEF Sockets
<1>5. Input
  BY DEF Input
<1>6. QED
  BY <1>2, <1>3, <1>4, <1>5 DEF ConnInv

\* Steps that move neither clients nor input.
conns == <<phase, unsent, inq, owner, backlog, got, dropped>>

LEMMA SameConns ==
    ASSUME ConnInv, UNCHANGED conns, \A f \in Fds : InSetup(f) => InSetup(f)'
    PROVE  Sockets' /\ Input'
<1>1. Sockets'
  BY DEF ConnInv, Sockets, conns
<1>2. Input'
  BY DEF ConnInv, Input, conns
<1>3. QED
  BY <1>1, <1>2

\* The clients.
LEMMA ClientConnInv ==
    ASSUME ConnInv, NEW c \in Clients, Connect(c) \/ Send(c) \/ HangUp(c)
    PROVE  ConnInv'
<1> USE FreeIsNone DEF ConnInv, object, main, workers, history
<1>1. CASE Connect(c)
  <2> USE <1>1 DEF Connect
  <2>1. backlog' \in Seq(Clients) /\ phase' \in [Clients -> {"away", "backlog", "open", "closed"}]
    BY DEF TypeOK
  <2>2. TypeOK'
    BY <2>1 DEF TypeOK
  <2>3. Len(backlog') = Len(backlog) + 1 /\ Len(backlog) \in Nat
        /\ backlog'[Len(backlog) + 1] = c
        /\ \A i \in 1..Len(backlog) : backlog'[i] = backlog[i] /\ backlog[i] # c
    BY DEF TypeOK, Sockets
  <2>4. \A f \in Fds : owner[f] # c
    BY DEF Sockets
  <2>5. Sockets'
    <3>1. /\ \A f \in Fds : owner'[f] # Free => phase'[owner'[f]] = "open"
          /\ \A f, g \in Fds : owner'[f] # Free /\ owner'[f] = owner'[g] => f = g
          /\ \A d \in dropped' : phase'[d] \in {"open", "closed"}
      BY <2>4 DEF Sockets, TypeOK
    <3>2. \A i \in 1..Len(backlog') : phase'[backlog'[i]] = "backlog"
      <4> SUFFICES ASSUME NEW i \in 1..Len(backlog')
                   PROVE  phase'[backlog'[i]] = "backlog"
        OBVIOUS
      <4>1. CASE i \in 1..Len(backlog)
        <5>1. backlog[i] \in Clients /\ phase[backlog[i]] = "backlog"
          BY <4>1 DEF TypeOK, Sockets
        <5>2. QED
          BY <2>3, <4>1, <5>1 DEF TypeOK
      <4>2. CASE i = Len(backlog) + 1
        BY <2>3, <4>2 DEF TypeOK
      <4>3. QED
        BY <2>3, <4>1, <4>2
    <3>3. \A i, j \in 1..Len(backlog') : backlog'[i] = backlog'[j] => i = j
      BY <2>3 DEF Sockets
    <3>4. QED
      BY <3>1, <3>2, <3>3 DEF Sockets
  <2>6. Input' /\ Pcs'
    BY DEF Input, Pcs, InSetup
  <2>7. QED
    BY <2>2, <2>5, <2>6
<1>2. CASE Send(c)
  <2> USE <1>2 DEF Send
  <2>1. /\ unsent[c] \in 1..RequestSize /\ inq[c] \in 0..RequestSize
        /\ unsent'[c] = unsent[c] - 1 /\ inq'[c] = inq[c] + 1
        /\ inq[c] + unsent[c] <= RequestSize
        /\ \A d \in Clients : d # c => unsent'[d] = unsent[d] /\ inq'[d] = inq[d]
    BY DEF TypeOK, Input
  <2>2. unsent' \in [Clients -> 0..RequestSize] /\ inq' \in [Clients -> 0..RequestSize]
    <3>1. unsent[c] - 1 \in 0..RequestSize /\ inq[c] + 1 \in 0..RequestSize
      BY <2>1
    <3>2. QED
      BY <3>1 DEF TypeOK
  <2>3. TypeOK'
    BY <2>2 DEF TypeOK
  <2>4. \A d \in Clients : inq'[d] + unsent'[d] = inq[d] + unsent[d]
    BY <2>1 DEF TypeOK
  <2>5. Input'
    <3>1. \A d \in Clients : inq'[d] + unsent'[d] <= RequestSize
      BY <2>4 DEF Input
    <3>2. ASSUME NEW f \in Fds, owner[f] # Free, ~InSetup(f)
          PROVE  got[f] + inq'[owner[f]] + unsent'[owner[f]] <= RequestSize
      <4>1. owner[f] \in Clients /\ got[f] \in Nat
        BY <3>2 DEF TypeOK
      <4>2. got[f] + inq[owner[f]] + unsent[owner[f]] <= RequestSize
        BY <3>2 DEF Input
      <4>3. /\ inq[owner[f]] \in Int /\ unsent[owner[f]] \in Int
            /\ inq'[owner[f]] \in Int /\ unsent'[owner[f]] \in Int
            /\ inq'[owner[f]] + unsent'[owner[f]] = inq[owner[f]] + unsent[owner[f]]
        BY <2>2, <2>4, <4>1 DEF TypeOK
      <4>4. QED
        BY <4>1, <4>2, <4>3
    <3>3. QED
      BY <3>1, <3>2 DEF Input, InSetup
  <2>6. Sockets' /\ Pcs'
    BY DEF Sockets, Pcs
  <2>7. QED
    BY <2>3, <2>5, <2>6
<1>3. CASE HangUp(c)
  <2> USE <1>3 DEF HangUp
  <2>1. TypeOK'
    BY DEF TypeOK
  <2>2. Sockets' /\ Input'
    BY SameConns DEF conns, InSetup
  <2>3. QED
    BY <2>1, <2>2 DEF Pcs
<1>4. QED
  BY <1>1, <1>2, <1>3

\* A descriptor is closed.
LEMMA RemoveConns ==
    ASSUME ConnInv, NEW f \in Fds, RemoveFd(f), UNCHANGED <<got, dropped>>,
           \A g \in Fds : InSetup(g) => InSetup(g)'
    PROVE  /\ Sockets' /\ Input'
           /\ phase' \in [Clients -> {"away", "backlog", "open", "closed"}]
           /\ unsent' \in [Clients -> 0..RequestSize] /\ inq' \in [Clients -> 0..RequestSize]
           /\ hup' \in [Clients -> BOOLEAN]
           /\ owner' \in [Fds -> Clients \union {Free}] /\ interest' \in [Fds -> Registrations]
<1> USE FreeIsNone DEF ConnInv, RemoveFd
<1>1. /\ phase' \in [Clients -> {"away", "backlog", "open", "closed"}]
      /\ owner' \in [Fds -> Clients \union {Free}] /\ interest' \in [Fds -> Registrations]
  BY DEF TypeOK, Registrations
<1>2. unsent' \in [Clients -> 0..RequestSize] /\ inq' \in [Clients -> 0..RequestSize]
  BY DEF TypeOK
<1>3. hup' \in [Clients -> BOOLEAN]
  BY Zenon DEF TypeOK
<1>4. /\ owner' = [owner EXCEPT ![f] = Free] /\ backlog' = backlog
      /\ phase' = [c \in Clients |-> IF owner[f] = c THEN "closed" ELSE phase[c]]
      /\ unsent' = [c \in Clients |-> IF owner[f] = c THEN 0 ELSE unsent[c]]
      /\ inq' = [c \in Clients |-> IF owner[f] = c THEN 0 ELSE inq[c]]
  OBVIOUS
<1>5. Sockets'
  <2>1. \A g \in Fds : owner'[g] # Free => phase'[owner'[g]] = "open"
    BY <1>4 DEF TypeOK, Sockets
  <2>2. \A g, h \in Fds : owner'[g] # Free /\ owner'[g] = owner'[h] => g = h
    BY <1>4 DEF TypeOK, Sockets
  <2>3. ASSUME NEW i \in 1..Len(backlog)
        PROVE  phase'[backlog[i]] = "backlog"
    <3>1. backlog[i] \in Clients /\ phase[backlog[i]] = "backlog"
      BY DEF TypeOK, Sockets
    <3>2. owner[f] # backlog[i]
      BY <3>1 DEF Sockets
    <3>3. QED
      BY <1>4, <3>1, <3>2
  <2>4. \A c \in dropped' : phase'[c] \in {"open", "closed"}
    BY <1>4 DEF TypeOK, Sockets
  <2>5. QED
    BY <1>4, <2>1, <2>2, <2>3, <2>4 DEF Sockets
<1>6. Input'
  <2>1. \A c \in Clients : inq'[c] + unsent'[c] <= RequestSize
    BY <1>4 DEF Input
  <2>2. ASSUME NEW g \in Fds, owner'[g] # Free, ~InSetup(g)'
        PROVE  got'[g] + inq'[owner'[g]] + unsent'[owner'[g]] <= RequestSize
    <3>1. g # f /\ owner'[g] = owner[g] /\ owner[g] \in Clients /\ owner[f] # owner[g]
      BY <1>4, <2>2 DEF TypeOK, Sockets
    <3>2. inq'[owner[g]] = inq[owner[g]] /\ unsent'[owner[g]] = unsent[owner[g]]
      BY <1>4, <3>1
    <3>3. got[g] + inq[owner[g]] + unsent[owner[g]] <= RequestSize
      BY <2>2, <3>1 DEF Input
    <3>4. QED
      BY <3>1, <3>2, <3>3
  <2>3. QED
    BY <2>1, <2>2 DEF Input
<1>7. QED
  BY <1>1, <1>2, <1>3, <1>5, <1>6

\* close_conn, in the main thread and in a worker.
LEMMA CloseConnInv ==
    ASSUME ConnInv, CloseRemove \/ CloseNothing \/ CloseSock \/ CloseLoad \/ CloseStore
    PROVE  ConnInv'
<1> USE FreeIsNone DEF ConnInv, kernel, object, main, workers, history, Setup, Shutting
<1>1. CASE CloseRemove
  <2> USE <1>1 DEF CloseRemove
  <2>1. mfd \in Fds /\ RemoveFd(mfd) /\ UNCHANGED <<got, dropped>>
        /\ \A g \in Fds : ~InSetup(g)
    BY DEF Pcs, InSetup
  <2>2. Sockets' /\ Input'
    BY <2>1, RemoveConns
  <2>3. TypeOK'
    <3>1. edge' = edge /\ backlog' = backlog
      BY <2>1 DEF RemoveFd
    <3>2. QED
      BY <2>1, <3>1, RemoveConns DEF TypeOK, Registrations
  <2>4. Pcs'
    BY DEF Pcs
  <2>5. QED
    BY <2>2, <2>3, <2>4
<1>2. CASE CloseNothing \/ CloseSock \/ CloseLoad \/ CloseStore
  <2> USE <1>2 DEF CloseNothing, CloseSock, CloseLoad, CloseStore
  <2>1. Sockets' /\ Input'
    BY SameConns DEF conns, InSetup
  <2>2. Pcs'
    BY DEF Pcs
  <2>3. sock' \in [Fds -> BOOLEAN]
    BY DEF TypeOK
  <2>4. userCount' \in Int /\ mreg' \in Int
    BY DEF TypeOK
  <2>5. mfd' \in Fds \union {Free}
    BY DEF TypeOK
  <2>6. UNCHANGED <<kernel, got, wr, events, queue, wfd, wreg, history>>
    OBVIOUS
  <2>7. TypeOK'
    BY ONLY TypeOK, <2>3, <2>4, <2>5, <2>6 DEF TypeOK, kernel, history
  <2>8. QED
    BY <2>1, <2>2, <2>7
<1>3. QED
  BY <1>1, <1>2

LEMMA WorkerConnInv == ASSUME ConnInv, NEW w \in Workers, Worker(w) PROVE ConnInv'
<1> USE FreeIsNone DEF ConnInv, kernel, object, main, workers, history, Setup, Shutting
<1>1. CASE WorkerRemove(w)
  <2> USE <1>1 DEF WorkerRemove
  <2>1. wfd[w] \in Fds /\ RemoveFd(wfd[w]) /\ UNCHANGED <<got, dropped>>
        /\ \A g \in Fds : InSetup(g) => InSetup(g)'
    BY DEF Pcs, InSetup
  <2>2. Sockets' /\ Input'
    BY <2>1, RemoveConns
  <2>3. TypeOK'
    <3>1. edge' = edge /\ backlog' = backlog
      BY <2>1 DEF RemoveFd
    <3>2. QED
      BY <2>1, <3>1, RemoveConns DEF TypeOK, Registrations
  <2>4. Pcs'
    BY DEF Pcs
  <2>5. QED
    BY <2>2, <2>3, <2>4
<1>2. CASE Take(w)
  <2> USE <1>2 DEF Take
  <2>1. Head(queue) \in Fds /\ Tail(queue) \in Seq(Fds)
    BY DEF TypeOK
  <2>2. TypeOK'
    BY <2>1 DEF TypeOK
  <2>3. Pcs'
    BY <2>1 DEF Pcs, TypeOK
  <2>4. Sockets' /\ Input'
    BY SameConns DEF conns, InSetup
  <2>5. QED
    BY <2>2, <2>3, <2>4
<1>3. CASE ProcessMore(w) \/ ProcessReply(w) \/ ProcessFails(w) \/ WorkerNothing(w)
           \/ WorkerSock(w) \/ WorkerLoad(w) \/ WorkerStore(w) \/ WorkerRearm(w)
  <2> USE <1>3 DEF ProcessMore, ProcessReply, ProcessFails, WorkerNothing, WorkerSock,
                   WorkerLoad, WorkerStore, WorkerRearm
  <2>1. wfd[w] \in Fds
    BY DEF Pcs
  <2>2. Sockets' /\ Input'
    BY SameConns DEF conns, InSetup
  <2>3. Pcs'
    <3>1. /\ mpc' = mpc /\ mfd' = mfd
          /\ \/ wfd' = wfd /\ wpc[w] # "idle"
                /\ \E s \in {"process", "rearm", "close"} \union Shutting : wpc' = [wpc EXCEPT ![w] = s]
             \/ wfd' = [wfd EXCEPT ![w] = Free] /\ wpc' = [wpc EXCEPT ![w] = "idle"]
      BY DEF Shutting, main
    <3>2. /\ wpc \in [Workers -> {"idle", "process", "rearm", "close"} \union Shutting]
          /\ wfd \in [Workers -> Fds \union {Free}] /\ Free \notin Fds
      BY FreeIsNone DEF Pcs, TypeOK
    <3>3. wpc' \in [Workers -> {"idle", "process", "rearm", "close"} \union Shutting]
      BY <3>1, <3>2
    <3>4. \A v \in Workers : wpc'[v] # "idle" <=> wfd'[v] \in Fds
      BY <3>1, <3>2 DEF Pcs, Shutting
    <3> QED
      BY <3>1, <3>3, <3>4 DEF Pcs
  <2>4. interest' \in [Fds -> Registrations]
    BY <2>1, ArmedIsRegistration DEF TypeOK, Registrations
  <2>5. sock' \in [Fds -> BOOLEAN] /\ wr' \in [Fds -> BOOLEAN]
    BY <2>1 DEF TypeOK
  <2>6. userCount' \in Int /\ wreg' \in [Workers -> Int]
    BY DEF TypeOK
  <2>7. wfd' \in [Workers -> Fds \union {Free}]
    BY DEF TypeOK
  <2>8. processed' \subseteq Clients
    <3>1. processed \subseteq Clients /\ owner[wfd[w]] \in Clients \union {Free}
      BY ONLY TypeOK, <2>1 DEF TypeOK
    <3>2. SeesAll(wfd[w]) \subseteq Clients
      BY ONLY <3>1 DEF SeesAll
    <3>3. processed' \in {processed, processed \union SeesAll(wfd[w]),
                         processed \union ({owner[wfd[w]]} \ {Free})}
      BY DEF history
    <3> QED
      BY ONLY <3>1, <3>2, <3>3
  <2>9. UNCHANGED <<phase, unsent, inq, hup, owner, backlog, edge, got, main, queue, dropped,
                    raced>>
    OBVIOUS
  <2>10. TypeOK'
    BY ONLY TypeOK, <2>4, <2>5, <2>6, <2>7, <2>8, <2>9 DEF TypeOK, Registrations, main
  <2>11. QED
    BY <2>2, <2>3, <2>10
<1>4. QED
  BY <1>1, <1>2, <1>3 DEF Worker

\* A batch of events, and a new connection.
LEMMA ListenConnInv ==
    ASSUME ConnInv, EpollWait \/ AcceptFails \/ AcceptBusy \/ Accept
    PROVE  ConnInv'
<1> USE FreeIsNone DEF ConnInv, kernel, object, main, workers, history, Setup, Shutting
<1>1. CASE EpollWait
  <2> USE <1>1 DEF EpollWait
  <2>1. interest' \in [Fds -> Registrations]
    BY DEF TypeOK, Registrations
  <2>2. events' \subseteq (Fds \union {Free}) \X {"listen", "hup", "in", "out"}
    <3>1. \A f \in Ready : f \in Fds /\ EventOf(f) \in {"hup", "in", "out"}
      BY EventIsBranch
    <3>2. QED
      BY <3>1
  <2>3. UNCHANGED <<phase, unsent, inq, hup, owner, backlog, object, userCount, mpc, mfd, mreg,
                    queue, workers, history>>
    OBVIOUS
  <2>4. edge' \in BOOLEAN
    OBVIOUS
  <2>5. TypeOK'
    BY ONLY TypeOK, <2>1, <2>2, <2>3, <2>4 DEF TypeOK, Registrations, object, workers, history
  <2>6. Sockets' /\ Input'
    BY SameConns DEF conns, InSetup
  <2>7. QED
    BY <2>5, <2>6 DEF Pcs
<1>2. CASE AcceptFails
  <2> USE <1>2 DEF AcceptFails, Handling
  <2>1. TypeOK'
    BY DEF TypeOK
  <2>2. Sockets' /\ Input'
    BY SameConns DEF conns, InSetup
  <2>3. QED
    BY <2>1, <2>2 DEF Pcs
<1>3. ASSUME AcceptBusy \/ Accept
      PROVE  ConnInv'
  <2> DEFINE c == Head(backlog)
             f == Lowest(FreeFds)
  <2>1. /\ mpc = "dispatch" /\ events' \subseteq events
        /\ FreeFds # {} /\ backlog # << >> /\ backlog' = Tail(backlog)
        /\ UNCHANGED <<unsent, inq, hup, interest, edge, object, userCount, mreg, queue, workers,
                       processed, dropped>>
    BY <1>3 DEF AcceptBusy, Accept, Handling
  <2>2. /\ backlog' \in Seq(Clients) /\ c \in Clients /\ c = backlog[1]
        /\ Len(backlog') = Len(backlog) - 1 /\ Len(backlog) \in Nat \ {0}
        /\ \A i \in 1..Len(backlog') : backlog'[i] = backlog[i + 1]
    BY <2>1 DEF TypeOK
  <2>3. phase[c] = "backlog"
    BY <2>2 DEF Sockets
  <2>4. /\ \A i \in 1..Len(backlog') :
              backlog'[i] \in Clients /\ backlog'[i] # c /\ phase[backlog'[i]] = "backlog"
        /\ \A i, j \in 1..Len(backlog') : backlog'[i] = backlog'[j] => i = j
    <3>1. ASSUME NEW i \in 1..Len(backlog')
          PROVE  /\ backlog'[i] \in Clients /\ backlog'[i] # c
                 /\ phase[backlog'[i]] = "backlog"
      <4>1. i + 1 \in 1..Len(backlog) /\ 1 \in 1..Len(backlog) /\ i + 1 # 1
        BY <2>2
      <4>2. backlog[i + 1] # backlog[1] /\ phase[backlog[i + 1]] = "backlog"
            /\ backlog[i + 1] \in Clients
        BY <4>1 DEF TypeOK, Sockets
      <4>3. QED
        BY <2>2, <4>2
    <3>2. ASSUME NEW i \in 1..Len(backlog'), NEW j \in 1..Len(backlog'),
                 backlog'[i] = backlog'[j]
          PROVE  i = j
      <4>1. i + 1 \in 1..Len(backlog) /\ j + 1 \in 1..Len(backlog)
        BY <2>2
      <4>2. i + 1 = j + 1
        BY <2>2, <3>2, <4>1 DEF Sockets
      <4>3. QED
        BY <4>2
    <3>3. QED
      BY <3>1, <3>2
  <2>5. \A g \in Fds : owner[g] # c
    BY <2>2, <2>3 DEF Sockets
  <2>6. c \notin dropped
    BY <2>3 DEF Sockets
  <2>7. CASE AcceptBusy
    <3>1. phase' = [phase EXCEPT ![c] = "closed"] /\ UNCHANGED <<owner, mpc, mfd, raced>>
      BY <2>7 DEF AcceptBusy
    <3>2. TypeOK'
      BY <2>1, <2>2, <3>1 DEF TypeOK
    <3>3. Sockets'
      BY <2>1, <2>2, <2>4, <2>5, <2>6, <3>1 DEF Sockets, TypeOK
    <3>4. Input' /\ Pcs'
      BY <2>1, <3>1 DEF Input, Pcs, InSetup
    <3>5. QED
      BY <3>2, <3>3, <3>4
  <2>8. CASE Accept
    <3>1. /\ phase' = [phase EXCEPT ![c] = "open"] /\ owner' = [owner EXCEPT ![f] = c]
          /\ mpc' = "init_sock" /\ mfd' = f /\ raced' = (raced \/ InProcess(f))
      BY <2>8 DEF Accept
    <3>2. f \in Fds /\ owner[f] = Free
      BY <2>1, LowestIsFree DEF FreeFds
    <3>3. /\ phase' \in [Clients -> {"away", "backlog", "open", "closed"}]
          /\ owner' \in [Fds -> Clients \union {Free}]
      BY <2>2, <3>1, <3>2 DEF TypeOK
    <3>4. raced' \in BOOLEAN
      BY Zenon, <3>1 DEF TypeOK, InProcess
    <3>5. TypeOK'
      BY <2>1, <2>2, <3>1, <3>2, <3>3, <3>4 DEF TypeOK
    <3>6. Sockets'
      <4>1. \A g \in Fds : owner'[g] # Free => phase'[owner'[g]] = "open"
        BY SMTT(30), <2>2, <2>5, <3>1, <3>2 DEF Sockets, TypeOK
      <4>2. \A g, h \in Fds : owner'[g] # Free /\ owner'[g] = owner'[h] => g = h
        BY <2>2, <2>5, <3>1, <3>2 DEF Sockets, TypeOK
      <4>3. \A i \in 1..Len(backlog') : phase'[backlog'[i]] = "backlog"
        BY <2>4, <3>1 DEF TypeOK
      <4>4. \A d \in dropped' : phase'[d] \in {"open", "closed"}
        BY <2>1, <2>6, <3>1 DEF Sockets, TypeOK
      <4>5. QED
        BY <2>4, <4>1, <4>2, <4>3, <4>4 DEF Sockets
    <3>7. Input'
      <4>1. \A g \in Fds : ~InSetup(g)' => owner'[g] = owner[g] /\ ~InSetup(g)
        BY <2>1, <3>1 DEF InSetup, TypeOK
      <4>2. QED
        BY <2>1, <4>1 DEF Input
    <3>8. Pcs'
      BY <2>1, <3>1, <3>2 DEF Pcs
    <3>9. QED
      BY <3>5, <3>6, <3>7, <3>8
  <2>9. QED
    BY <1>3, <2>7, <2>8
<1>4. QED
  BY <1>1, <1>2, <1>3

\* http_conn::init: m_read_buf is empty at the end.
LEMMA SetupConnInv ==
    ASSUME ConnInv, InitSock \/ InitAdd \/ InitLoad \/ InitStore \/ InitReset
    PROVE  ConnInv'
<1> USE FreeIsNone DEF ConnInv, kernel, object, main, workers, history, Setup, Shutting
<1>1. mfd \in Fds /\ InSetup(mfd)
  BY DEF Pcs, InitSock, InitAdd, InitLoad, InitStore, InitReset, InSetup
<1>2. CASE InitSock \/ InitAdd \/ InitLoad \/ InitStore
  <2> USE <1>2 DEF InitSock, InitAdd, InitLoad, InitStore
  <2>1. Sockets' /\ Input'
    BY SameConns DEF conns, InSetup
  <2>2. Pcs'
    BY DEF Pcs
  <2>3. sock' \in [Fds -> BOOLEAN]
    BY <1>1 DEF TypeOK
  <2>4. interest' \in [Fds -> Registrations]
    BY <1>1 DEF TypeOK, Registrations
  <2>5. userCount' \in Int /\ mreg' \in Int
    BY DEF TypeOK
  <2>6. UNCHANGED <<phase, unsent, inq, hup, owner, backlog, edge, got, wr, mfd, events, queue,
                    workers, history>>
    OBVIOUS
  <2>7. TypeOK'
    BY ONLY TypeOK, <2>3, <2>4, <2>5, <2>6 DEF TypeOK, Registrations, workers, history
  <2>8. QED
    BY <2>1, <2>2, <2>7
<1>3. CASE InitReset
  <2> USE <1>3 DEF InitReset
  <2>1. got' \in [Fds -> 0..RequestSize] /\ wr' \in [Fds -> BOOLEAN]
    BY <1>1 DEF TypeOK
  <2>2. TypeOK'
    BY <2>1 DEF TypeOK
  <2>3. Sockets' /\ Pcs'
    BY DEF Sockets, Pcs, TypeOK
  <2>4. Input'
    <3>1. ASSUME NEW g \in Fds, owner[g] # Free
          PROVE  got'[g] + inq[owner[g]] + unsent[owner[g]] <= RequestSize
      <4>1. CASE g = mfd
        <5>1. owner[g] \in Clients /\ got'[g] = 0
          BY <1>1, <3>1, <4>1 DEF TypeOK
        <5>2. inq[owner[g]] \in Int /\ unsent[owner[g]] \in Int
              /\ inq[owner[g]] + unsent[owner[g]] <= RequestSize
          BY <5>1 DEF TypeOK, Input
        <5>3. QED
          BY <5>1, <5>2
      <4>2. CASE g # mfd
        <5>1. got'[g] = got[g] /\ ~InSetup(g)
          BY <4>2 DEF TypeOK, InSetup
        <5>2. QED
          BY <3>1, <5>1 DEF Input
      <4>3. QED
        BY <4>1, <4>2
    <3>2. QED
      BY <3>1 DEF Input
  <2>5. QED
    BY <2>2, <2>3, <2>4
<1>4. QED
  BY <1>2, <1>3

\* The input of a connection moves into m_read_buf, and out of it with the answer.
LEMMA EventConnInv ==
    ASSUME ConnInv, NEW f \in Fds,
           \/ HandleHup(f) \/ ReadFails(f) \/ ReadAppend(f) \/ ReadAppendFails(f)
           \/ WriteNothing(f) \/ WriteAgain(f) \/ WriteLinger(f) \/ WriteClose(f)
    PROVE  ConnInv'
<1> USE FreeIsNone DEF ConnInv, kernel, object, main, workers, history, Setup, Shutting
<1>1. CASE \/ HandleHup(f) \/ ReadFails(f) \/ WriteNothing(f) \/ WriteAgain(f) \/ WriteClose(f)
  <2> USE <1>1 DEF HandleHup, ReadFails, WriteNothing, WriteAgain, WriteClose, Handling
  <2>1. Sockets' /\ Input'
    BY SameConns DEF conns, InSetup
  <2>2. Pcs'
    BY DEF Pcs
  <2>3. interest' \in [Fds -> Registrations]
    BY ArmedIsRegistration DEF TypeOK, Registrations
  <2>4. mfd' \in Fds \union {Free} /\ events' \subseteq events
    BY DEF TypeOK
  <2>5. UNCHANGED <<phase, unsent, inq, hup, owner, backlog, edge, object, userCount, mreg,
                    queue, workers, history>>
    OBVIOUS
  <2>6. TypeOK'
    BY ONLY TypeOK, <2>3, <2>4, <2>5 DEF TypeOK, Registrations, object, workers, history
  <2>7. QED
    BY <2>1, <2>2, <2>6
<1>2. CASE WriteLinger(f)
  <2> USE <1>2 DEF WriteLinger, Handling
  <2>1. interest' \in [Fds -> Registrations]
    BY ArmedIsRegistration DEF TypeOK, Registrations
  <2>2. got' \in [Fds -> 0..RequestSize] /\ wr' \in [Fds -> BOOLEAN]
    BY DEF TypeOK
  <2>3. TypeOK'
    BY <2>1, <2>2 DEF TypeOK, Registrations
  <2>4. Sockets' /\ Pcs'
    BY DEF Sockets, Pcs
  <2>5. Input'
    <3>1. ASSUME NEW g \in Fds, owner[g] # Free, ~InSetup(g)
          PROVE  got'[g] + inq[owner[g]] + unsent[owner[g]] <= RequestSize
      <4>1. owner[g] \in Clients /\ got[g] \in Nat
            /\ inq[owner[g]] \in Int /\ unsent[owner[g]] \in Int
            /\ got[g] + inq[owner[g]] + unsent[owner[g]] <= RequestSize
        BY <3>1 DEF TypeOK, Input
      <4>2. got'[g] \in Nat /\ got'[g] <= got[g]
        BY <4>1 DEF TypeOK
      <4>3. QED
        BY <4>1, <4>2
    <3>2. QED
      BY <3>1 DEF Input, InSetup
  <2>6. QED
    BY <2>3, <2>4, <2>5
<1>3. ASSUME ReadAppend(f) \/ ReadAppendFails(f)
      PROVE  ConnInv'
  <2> DEFINE c == owner[f]
  <2>1. Reads(f)
    BY <1>3 DEF ReadAppend, ReadAppendFails
  <2>2. /\ mpc = "dispatch" /\ c # Free /\ events' \subseteq events
        /\ got' = [got EXCEPT ![f] = @ + inq[c]] /\ inq' = [inq EXCEPT ![c] = 0]
        /\ UNCHANGED <<phase, unsent, hup, owner, interest, backlog, edge, sock, wr,
                       userCount, mpc, mfd, mreg, workers, processed, raced>>
    BY <2>1 DEF Reads, Handling, Readable
  <2>3. queue' \in Seq(Fds) /\ dropped' \subseteq dropped \union {c} /\ dropped \subseteq dropped'
    <3>1. queue \in Seq(Fds) /\ Append(queue, f) \in Seq(Fds)
      BY DEF TypeOK
    <3>2. CASE ReadAppend(f)
      BY <3>1, <3>2 DEF ReadAppend
    <3>3. CASE ReadAppendFails(f)
      BY <3>1, <3>3 DEF ReadAppendFails
    <3>4. QED
      BY <1>3, <3>2, <3>3
  <2>4. /\ c \in Clients /\ got[f] \in Nat /\ inq[c] \in Nat /\ unsent[c] \in Nat
        /\ got[f] + inq[c] + unsent[c] <= RequestSize
    BY <2>2 DEF TypeOK, Input, InSetup
  <2>5. got' \in [Fds -> 0..RequestSize] /\ inq' \in [Clients -> 0..RequestSize]
    <3>1. got[f] + inq[c] \in 0..RequestSize
      BY <2>4
    <3>2. QED
      BY <2>2, <2>4, <3>1 DEF TypeOK
  <2>6. TypeOK'
    BY <2>2, <2>3, <2>4, <2>5 DEF TypeOK
  <2>7. Sockets' /\ Pcs'
    BY <2>2, <2>3 DEF Sockets, Pcs
  <2>8. Input'
    <3>1. ASSUME NEW d \in Clients
          PROVE  inq'[d] + unsent'[d] <= RequestSize
      <4>1. /\ inq[d] \in Nat /\ unsent[d] \in Nat /\ inq[d] + unsent[d] <= RequestSize
            /\ inq'[d] \in Nat /\ inq'[d] <= inq[d]
        BY <2>2, <2>4 DEF TypeOK, Input
      <4>2. QED
        BY <2>2, <4>1
    <3>2. ASSUME NEW g \in Fds, owner[g] # Free
          PROVE  got'[g] + inq'[owner[g]] + unsent[owner[g]] <= RequestSize
      <4>1. CASE g = f
        <5>1. got'[g] = got[f] + inq[c] /\ inq'[owner[g]] = 0
          BY <2>2, <2>4, <4>1 DEF TypeOK
        <5>2. QED
          BY <2>4, <4>1, <5>1
      <4>2. CASE g # f
        <5>1. owner[g] # c /\ owner[g] \in Clients
          BY <2>2, <3>2, <4>2 DEF Sockets, TypeOK
        <5>2. got'[g] = got[g] /\ inq'[owner[g]] = inq[owner[g]] /\ ~InSetup(g)
          BY <2>2, <4>2, <5>1 DEF TypeOK, InSetup
        <5>3. QED
          BY <3>2, <5>2 DEF Input
      <4>3. QED
        BY <4>1, <4>2
    <3>3. QED
      BY <2>2, <3>1, <3>2 DEF Input
  <2>9. QED
    BY <2>6, <2>7, <2>8
<1>4. QED
  BY <1>1, <1>2, <1>3

LEMMA NextConnInv == ConnInv /\ [Next]_vars => ConnInv'
<1> SUFFICES ASSUME ConnInv, [Next]_vars
             PROVE  ConnInv'
    OBVIOUS
<1>1. CASE UNCHANGED vars
  BY <1>1 DEF ConnInv, TypeOK, Pcs, Sockets, Input, InSetup, vars, kernel, object, main, workers,
              history
<1>2. CASE Next
  BY <1>2, ClientConnInv, CloseConnInv, WorkerConnInv, ListenConnInv, SetupConnInv, EventConnInv
     DEF Next, Main
<1>3. QED
  BY <1>1, <1>2

THEOREM ConnInvariant == Spec => []ConnInv
<1>1. Init => ConnInv
  BY InitConnInv
<1>2. ConnInv /\ [Next]_vars => ConnInv'
  BY NextConnInv
<1>3. QED
  BY <1>1, <1>2, PTL DEF Spec

\* In every state the variables of the server have their types; a read never brings more into
\* m_read_buf than the client has sent.
THEOREM TypeCorrect == Spec => []TypeOK
  BY ConnInvariant, PTL DEF ConnInv

-----------------------------------------------------------------------------
(* HandsInv is inductive relative to ConnInv.                              *)

\* What a step that is not about descriptor f leaves alone.
SameObject(f) == /\ owner'[f] = owner[f] /\ interest'[f] = interest[f] /\ sock'[f] = sock[f]
                 /\ owner[f] \in dropped' <=> owner[f] \in dropped
SameMain(f) == mfd = f \/ mfd' = f => mfd' = mfd /\ mpc' = mpc
SameBatch(f) == \A e \in events \union events' : e[1] = f => (e \in events <=> e \in events')
SameQueue(f) ==
    /\ Queued(f)' <=> Queued(f)
    /\ \A i, j \in 1..Len(queue') : queue'[i] = f /\ queue'[j] = f /\ i # j =>
           \E k, l \in 1..Len(queue) : queue[k] = f /\ queue[l] = f /\ k # l
SameWork(f) ==
    \A w \in Workers : /\ wfd'[w] = f <=> wfd[w] = f
                       /\ wfd[w] = f => wpc'[w] = wpc[w]

LEMMA Untouched ==
    ASSUME NEW f \in Fds, Hands(f),
           SameObject(f), SameMain(f), SameBatch(f), SameQueue(f), SameWork(f)
    PROVE  Hands(f)'
<1>1. (InSetup(f)' <=> InSetup(f)) /\ (Closing(f)' <=> Closing(f))
      /\ (InSetup(f) => mpc' = mpc)
  BY DEF SameMain, InSetup, Closing
<1>2. InBatch(f)' <=> InBatch(f)
  BY DEF SameBatch, InBatch
<1>3. WithWorker(f)' <=> WithWorker(f)
  BY DEF SameWork, WithWorker
<1>4. Queued(f)' <=> Queued(f)
  BY DEF SameQueue
<1>5. owner'[f] = owner[f] /\ interest'[f] = interest[f] /\ sock'[f] = sock[f]
      /\ (owner[f] \in dropped' <=> owner[f] \in dropped)
  BY DEF SameObject
<1>6. AtEpoll(f)' <=> AtEpoll(f)
  BY <1>1, <1>5 DEF AtEpoll
<1>7. CASE owner[f] = Free
  <2>1. Unused(f)
    BY <1>7 DEF Hands
  <2>2. Unused(f)'
    BY <1>1, <1>2, <1>4, <1>5, <2>1 DEF Unused, SameWork, SameMain
  <2>3. QED
    BY <1>5, <1>7, <2>2 DEF Hands
<1>8. CASE owner[f] # Free /\ InSetup(f)
  <2>1. Fresh(f)
    BY <1>8 DEF Hands
  <2>2. Fresh(f)'
    BY <1>1, <1>2, <1>3, <1>4, <1>5, <1>8, <2>1 DEF Fresh
  <2>3. QED
    BY <1>1, <1>5, <1>8, <2>2 DEF Hands
<1>9. CASE owner[f] # Free /\ ~InSetup(f)
  <2>1. Served(f)
    BY <1>9 DEF Hands
  <2>2. Exclusive(f)'
    BY <1>1, <1>2, <1>3, <1>4, <1>6, <2>1 DEF Served, Exclusive
  <2>3. Once(f)'
    <3>1. \A d, e \in events' : d[1] = f /\ e[1] = f => d = e
      BY <2>1 DEF Served, Once, SameBatch
    <3>2. \A i, j \in 1..Len(queue') : queue'[i] = f /\ queue'[j] = f => i = j
      BY <2>1 DEF Served, Once, SameQueue
    <3>3. \A v, w \in Workers : wfd'[v] = f /\ wfd'[w] = f => v = w
      BY <2>1 DEF Served, Once, SameWork
    <3>4. QED
      BY <3>1, <3>2, <3>3 DEF Once
  <2>4. InHand(f)' <=> InHand(f)
    BY <1>1, <1>2, <1>3, <1>4, <1>6 DEF InHand
  <2>5. /\ mfd' = f => mpc' \notin Shutting
        /\ \A w \in Workers : wfd'[w] = f => wpc'[w] \notin Shutting
    BY <2>1 DEF Served, SameMain, SameWork
  <2>6. Served(f)'
    BY <1>5, <2>1, <2>2, <2>3, <2>4, <2>5 DEF Served
  <2>7. QED
    BY <1>1, <1>5, <1>9, <2>6 DEF Hands
<1>10. QED
  BY <1>7, <1>8, <1>9

\* The queue, for the descriptors that are neither put in nor taken out.
LEMMA AppendQueue ==
    ASSUME queue \in Seq(Fds), NEW f \in Fds, queue' = Append(queue, f)
    PROVE  /\ \A g \in Fds \ {f} : SameQueue(g)
           /\ ~Queued(f) => /\ Queued(f)'
                            /\ \A i, j \in 1..Len(queue') : queue'[i] = f /\ queue'[j] = f => i = j
<1>1. /\ Len(queue) \in Nat /\ Len(queue') = Len(queue) + 1
      /\ queue'[Len(queue) + 1] = f
      /\ \A i \in 1..Len(queue) : queue'[i] = queue[i]
  OBVIOUS
<1>2. ASSUME NEW g \in Fds \ {f}
      PROVE  SameQueue(g)
  <2>1. \A i \in 1..Len(queue') : queue'[i] = g => i \in 1..Len(queue) /\ queue[i] = g
    BY <1>1
  <2>2. Queued(g)' <=> Queued(g)
    BY <1>1, <2>1 DEF Queued
  <2>3. QED
    BY <2>1, <2>2 DEF SameQueue
<1>3. ASSUME ~Queued(f)
      PROVE  /\ Queued(f)'
             /\ \A i, j \in 1..Len(queue') : queue'[i] = f /\ queue'[j] = f => i = j
  <2>1. Len(queue) + 1 \in 1..Len(queue')
    BY <1>1
  <2>2. \A i \in 1..Len(queue') : queue'[i] = f => i = Len(queue) + 1
    BY <1>1, <1>3 DEF Queued
  <2>3. QED
    BY <1>1, <2>1, <2>2 DEF Queued
<1>4. QED
  BY <1>2, <1>3

LEMMA TailQueue ==
    ASSUME queue \in Seq(Fds), queue # << >>, queue' = Tail(queue)
    PROVE  /\ \A g \in Fds \ {Head(queue)} : SameQueue(g)
           /\ Queued(Head(queue))
           /\ (\A i, j \in 1..Len(queue) :
                  queue[i] = Head(queue) /\ queue[j] = Head(queue) => i = j)
                 => \A i \in 1..Len(queue') : queue'[i] # Head(queue)
<1>1. /\ Len(queue) \in Nat \ {0} /\ Len(queue') = Len(queue) - 1
      /\ Head(queue) = queue[1] /\ 1 \in 1..Len(queue)
      /\ \A i \in 1..Len(queue') : queue'[i] = queue[i + 1] /\ i + 1 \in 2..Len(queue)
  OBVIOUS
<1>2. ASSUME NEW g \in Fds \ {Head(queue)}
      PROVE  SameQueue(g)
  <2>1. \A i \in 1..Len(queue) : queue[i] = g =>
           i - 1 \in 1..Len(queue') /\ queue'[i - 1] = g
    BY <1>1
  <2>2. Queued(g)' <=> Queued(g)
    <3>1. ASSUME Queued(g)
          PROVE  Queued(g)'
      BY <2>1, <3>1 DEF Queued
    <3>2. ASSUME Queued(g)'
          PROVE  Queued(g)
      <4>1. PICK i \in 1..Len(queue') : queue'[i] = g
        BY <3>2 DEF Queued
      <4>2. i + 1 \in 1..Len(queue) /\ queue[i + 1] = g
        BY <1>1, <4>1
      <4>3. QED
        BY <4>2 DEF Queued
    <3>3. QED
      BY <3>1, <3>2
  <2>3. ASSUME NEW i \in 1..Len(queue'), NEW j \in 1..Len(queue'),
               queue'[i] = g, queue'[j] = g, i # j
        PROVE  \E k, l \in 1..Len(queue) : queue[k] = g /\ queue[l] = g /\ k # l
    <3>1. /\ i + 1 \in 1..Len(queue) /\ j + 1 \in 1..Len(queue) /\ i + 1 # j + 1
          /\ queue[i + 1] = g /\ queue[j + 1] = g
      BY <1>1, <2>3
    <3>2. QED
      BY <3>1
  <2>4. QED
    BY <2>2, <2>3 DEF SameQueue
<1>3. Queued(Head(queue))
  BY <1>1 DEF Queued
<1>4. ASSUME \A i, j \in 1..Len(queue) :
               queue[i] = Head(queue) /\ queue[j] = Head(queue) => i = j,
             NEW i \in 1..Len(queue'), queue'[i] = Head(queue)
      PROVE  FALSE
  <2>1. i + 1 \in 1..Len(queue) /\ queue[i + 1] = Head(queue) /\ i + 1 # 1
    BY <1>1, <1>4
  <2>2. QED
    BY <1>1, <1>4, <2>1
<1>5. QED
  BY <1>2, <1>3, <1>4

LEMMA InitHands == Init => HandsInv
<1> SUFFICES ASSUME Init, NEW f \in Fds
             PROVE  Hands(f)
  BY DEF HandsInv
<1>1. owner[f] = Free /\ interest[f] = "none" /\ ~sock[f]
  BY DEF Init
<1>2. ~InBatch(f) /\ ~Queued(f) /\ ~Closing(f) /\ ~InSetup(f)
  BY DEF Init, InBatch, Queued, Closing, InSetup
<1>3. \A w \in Workers : wfd[w] # f
  BY FreeIsNone DEF Init
<1>4. QED
  BY <1>1, <1>2, <1>3 DEF Hands, Unused

\* The clients do not touch what the server holds.
LEMMA ClientHands ==
    ASSUME ConnInv, NEW f \in Fds, Hands(f), NEW c \in Clients, Connect(c) \/ Send(c) \/ HangUp(c)
    PROVE  Hands(f)'
<1>1. UNCHANGED <<owner, interest, sock, dropped, mfd, mpc, events, queue, wfd, wpc>>
  BY DEF Connect, Send, HangUp, object, main, workers, history
<1>2. QED
  BY <1>1, Untouched
     DEF SameObject, SameMain, SameBatch, SameQueue, SameWork, Queued

\* What is armed goes from epoll into the batch.
LEMMA WaitHands == ASSUME ConnInv, NEW f \in Fds, Hands(f), EpollWait PROVE Hands(f)'
<1> USE FreeIsNone
<1>1. /\ mpc = "dispatch" /\ events = {}
      /\ \A e \in events' : (\E g \in Ready : e = <<g, EventOf(g)>>) \/ e[1] = Free
      /\ \A g \in Ready : <<g, EventOf(g)>> \in events'
      /\ interest' = [g \in Fds |-> IF g \in Ready THEN "off" ELSE interest[g]]
      /\ UNCHANGED <<owner, sock, dropped, mfd, mpc, queue, wfd, wpc>>
  BY DEF EpollWait, object, workers, history
<1>2. ~InSetup(f) /\ ~Closing(f) /\ ~InSetup(f)' /\ ~Closing(f)'
  BY <1>1 DEF InSetup, Closing
<1>3. CASE f \notin Ready
  <2>1. \A e \in events' : e[1] # f
    BY <1>1, <1>3
  <2>2. SameBatch(f)
    BY <1>1, <2>1 DEF SameBatch
  <2>3. QED
    BY <1>1, <1>3, <2>2, Untouched DEF SameObject, SameMain, SameQueue, SameWork, Queued
<1>4. CASE f \in Ready
  <2>1. owner[f] # Free /\ interest[f] \in {"in", "out"}
    BY <1>4, EventIsBranch DEF ConnInv, TypeOK
  <2>2. Served(f) /\ AtEpoll(f)
    BY <1>2, <2>1 DEF Hands, AtEpoll
  <2>3. ~Queued(f) /\ ~WithWorker(f) /\ owner[f] \notin dropped
    BY <2>2 DEF Served, Exclusive, InHand
  <2>4. interest'[f] = "off" /\ ~AtEpoll(f)' /\ ~Queued(f)' /\ ~WithWorker(f)'
    BY <1>1, <1>4, <2>3 DEF AtEpoll, Queued, WithWorker
  <2>5. InBatch(f)' /\ \A e \in events' : e[1] = f => e = <<f, EventOf(f)>>
    <3>1. <<f, EventOf(f)>> \in events' /\ <<f, EventOf(f)>>[1] = f
      BY <1>1, <1>4
    <3>2. ASSUME NEW e \in events', e[1] = f
          PROVE  e = <<f, EventOf(f)>>
      <4>1. PICK g \in Ready : e = <<g, EventOf(g)>>
        BY <1>1, <3>2
      <4>2. QED
        BY <3>2, <4>1
    <3>3. QED
      BY <3>1, <3>2 DEF InBatch
  <2>6. Exclusive(f)' /\ Once(f)' /\ InHand(f)'
    BY <1>2, <2>4, <2>5 DEF Exclusive, Once, InHand, Queued, WithWorker
  <2>7. Served(f)'
    BY <1>1, <2>2, <2>3, <2>4, <2>6 DEF Served
  <2>8. QED
    BY <1>1, <1>2, <2>1, <2>7 DEF Hands
<1>5. QED
  BY <1>3, <1>4

\* A new connection gets a descriptor that nobody knows, unless a worker still does.
LEMMA AcceptHands ==
    ASSUME ConnInv, \A g \in Fds : Hands(g), ~raced', AcceptFails \/ AcceptBusy \/ Accept,
           NEW f \in Fds
    PROVE  Hands(f)'
<1> USE FreeIsNone
<1>1. /\ mpc = "dispatch" /\ mfd = Free /\ events' = events \ {<<Free, "listen">>}
      /\ UNCHANGED <<interest, sock, dropped, queue, wfd, wpc>>
  BY DEF AcceptFails, AcceptBusy, Accept, Handling, ConnInv, Pcs, TypeOK, kernel, object, workers,
         history
<1>2. SameBatch(f)
  BY <1>1 DEF SameBatch
<1>3. SameQueue(f) /\ SameWork(f)
  BY <1>1 DEF SameQueue, SameWork, Queued
<1>4. CASE AcceptFails \/ AcceptBusy
  <2>1. UNCHANGED <<owner, mfd, mpc>>
    BY <1>4 DEF AcceptFails, AcceptBusy, kernel
  <2>2. QED
    BY <1>1, <1>2, <1>3, <2>1, Untouched DEF SameObject, SameMain
<1>5. CASE Accept
  <2> DEFINE g == Lowest(FreeFds)
             c == Head(backlog)
  <2>1. /\ FreeFds # {} /\ backlog # << >> /\ owner' = [owner EXCEPT ![g] = c]
        /\ mfd' = g /\ mpc' = "init_sock" /\ ~InProcess(g)
    BY <1>5 DEF Accept
  <2>2. g \in Fds /\ owner[g] = Free
    BY <2>1, LowestIsFree DEF FreeFds
  <2>3. CASE f # g
    <3>1. SameObject(f) /\ SameMain(f)
      BY <1>1, <2>1, <2>3 DEF SameObject, SameMain, ConnInv, TypeOK
    <3>2. QED
      BY <1>2, <1>3, <3>1, Untouched
  <2>4. CASE f = g
    <3>1. Unused(f)
      BY <2>2, <2>4 DEF Hands
    <3>2. ~WithWorker(f)
      BY <2>1, <2>4 DEF InProcess, WithWorker, ConnInv, Pcs
    <3>3. c \in Clients /\ c \notin dropped
      <4>1. c = backlog[1] /\ c \in Clients /\ 1 \in 1..Len(backlog)
        BY <2>1 DEF ConnInv, TypeOK
      <4>2. phase[c] = "backlog"
        BY <4>1 DEF ConnInv, Sockets
      <4>3. QED
        BY <4>1, <4>2 DEF ConnInv, Sockets
    <3>4. owner'[f] = c
      BY <2>1, <2>2, <2>4 DEF ConnInv, TypeOK
    <3>5. ~InBatch(f)' /\ ~Queued(f)' /\ ~WithWorker(f)'
      BY <1>1, <3>1, <3>2 DEF Unused, InBatch, Queued, WithWorker
    <3>6. Fresh(f)'
      BY <1>1, <2>1, <3>1, <3>3, <3>4, <3>5 DEF Fresh, Unused
    <3>7. InSetup(f)'
      BY <2>1, <2>4 DEF InSetup
    <3>8. QED
      BY <3>3, <3>4, <3>6, <3>7 DEF Hands
  <2>5. QED
    BY <2>3, <2>4
<1>6. QED
  BY <1>4, <1>5

\* The main thread is alone with it until it is registered, and then epoll has it.
LEMMA SetupHands ==
    ASSUME ConnInv, \A g \in Fds : Hands(g),
           InitSock \/ InitAdd \/ InitLoad \/ InitStore \/ InitReset, NEW f \in Fds
    PROVE  Hands(f)'
<1> USE FreeIsNone
<1>1. /\ mfd \in Fds /\ mpc \in Setup
      /\ UNCHANGED <<owner, dropped, events, queue, wfd, wpc>>
      /\ mpc # "init_sock" => sock' = sock
      /\ mpc # "init_add" => interest' = interest
  BY DEF InitSock, InitAdd, InitLoad, InitStore, InitReset, Setup, ConnInv, Pcs, kernel, object,
         workers, history
<1>2. SameBatch(f) /\ SameQueue(f) /\ SameWork(f)
  BY <1>1 DEF SameBatch, SameQueue, SameWork, Queued
<1>3. CASE f # mfd
  <2>1. SameObject(f)
    BY <1>1, <1>3 DEF InitSock, InitAdd, SameObject, ConnInv, TypeOK, InitLoad, InitStore,
                      InitReset
  <2>2. SameMain(f)
    BY <1>3 DEF InitSock, InitAdd, InitLoad, InitStore, InitReset, SameMain
  <2>3. QED
    BY <1>2, <2>1, <2>2, Untouched
<1>4. CASE f = mfd
  <2>1. InSetup(f)
    BY <1>1, <1>4 DEF InSetup, Setup
  <2>2. owner[f] # Free /\ Fresh(f)
    BY <2>1 DEF Hands, Unused
  <2>3. ~InBatch(f)' /\ ~Queued(f)' /\ ~WithWorker(f)'
    BY <1>1, <2>2 DEF Fresh, InBatch, Queued, WithWorker
  <2>4. CASE ~InitReset
    <3>1. InSetup(f)'
      BY <1>4, <2>4 DEF InitSock, InitAdd, InitLoad, InitStore, InSetup
    <3>2. mpc' # "init_sock" /\ sock'[f]
      BY <1>4, <2>2, <2>4 DEF InitSock, InitAdd, InitLoad, InitStore, Fresh, ConnInv, TypeOK,
                              object
    <3>3. interest'[f] = IF mpc' \in {"init_sock", "init_add"} THEN "none" ELSE "in"
      BY <1>4, <2>2, <2>4 DEF InitSock, InitAdd, InitLoad, InitStore, Fresh, ConnInv, TypeOK,
                              kernel
    <3>4. Fresh(f)'
      BY <1>1, <2>2, <2>3, <3>2, <3>3 DEF Fresh
    <3>5. QED
      BY <1>1, <2>2, <3>1, <3>4 DEF Hands
  <2>5. CASE InitReset
    <3>1. /\ mpc = "init_reset" /\ mpc' = "dispatch" /\ interest[f] = "in" /\ sock[f]
          /\ interest' = interest /\ sock' = sock
      BY <2>2, <2>5 DEF InitReset, Fresh, kernel
    <3>2. ~InSetup(f)' /\ ~Closing(f)' /\ AtEpoll(f)'
      BY <3>1 DEF InSetup, Closing, AtEpoll
    <3>3. Exclusive(f)' /\ InHand(f)'
      BY <2>3, <3>2 DEF Exclusive, InHand
    <3>4. Once(f)'
      BY <2>3 DEF Once, InBatch, Queued, WithWorker
    <3>5. /\ mpc' \notin Shutting
          /\ \A w \in Workers : wfd'[w] # f
      BY <2>3, <3>1 DEF WithWorker, Shutting
    <3>6. Served(f)'
      BY <1>1, <2>2, <3>1, <3>3, <3>4, <3>5 DEF Served, Fresh
    <3>7. QED
      BY <1>1, <2>2, <3>2, <3>6 DEF Hands
  <2>6. QED
    BY <2>4, <2>5
<1>5. QED
  BY <1>3, <1>4

\* An event is taken out of the batch: its connection is then in nobody's hands.
LEMMA TakenOut ==
    ASSUME ConnInv, NEW f \in Fds, Hands(f), NEW ev, Handling(f, ev)
    PROVE  /\ owner[f] # Free /\ ~InSetup(f) /\ Served(f) /\ owner[f] \notin dropped
           /\ interest[f] \notin {"in", "out"} /\ mpc = "dispatch" /\ mfd = Free
           /\ ~InBatch(f)' /\ ~Queued(f) /\ ~WithWorker(f)
           /\ \A g \in Fds \ {f} : SameBatch(g)
<1>1. /\ mpc = "dispatch" /\ <<f, ev>> \in events /\ <<f, ev>>[1] = f
      /\ events' = events \ {<<f, ev>>}
  BY DEF Handling
<1>2. InBatch(f)
  BY <1>1 DEF InBatch
<1>3. ~InSetup(f) /\ ~Closing(f) /\ mfd = Free
  BY <1>1 DEF InSetup, Closing, ConnInv, Pcs, TypeOK
<1>4. Served(f) /\ owner[f] # Free
  BY <1>2, <1>3 DEF Hands, Unused
<1>5. owner[f] \notin dropped /\ ~AtEpoll(f) /\ ~Queued(f) /\ ~WithWorker(f)
  BY <1>2, <1>4 DEF Served, Exclusive, InHand
<1>6. interest[f] \notin {"in", "out"}
  BY <1>3, <1>5 DEF AtEpoll
<1>7. ~InBatch(f)'
  BY <1>1, <1>4 DEF Served, Once, InBatch
<1>8. \A g \in Fds \ {f} : SameBatch(g)
  BY <1>1 DEF SameBatch
<1>9. QED
  BY <1>1, <1>3, <1>4, <1>5, <1>6, <1>7, <1>8

\* What is in one pair of hands.
LEMMA HandsServed ==
    ASSUME NEW f \in Fds, owner'[f] # Free, ~InSetup(f)',
           interest'[f] # "none", sock'[f], Exclusive(f)', Once(f)',
           InHand(f)' <=> owner'[f] \notin dropped',
           mfd' = f => mpc' \notin Shutting,
           \A w \in Workers : wfd'[w] = f => wpc'[w] \notin Shutting
    PROVE  Hands(f)'
  BY DEF Hands, Served

\* EPOLLRDHUP, EPOLLIN and EPOLLOUT: from the batch to close_conn, to the pool, to epoll, or,
\* when append refuses it, to nobody.
LEMMA EventHands ==
    ASSUME ConnInv, NEW g \in Fds, \A f \in Fds : Hands(f),
           \/ HandleHup(g) \/ ReadFails(g) \/ ReadAppend(g) \/ ReadAppendFails(g)
           \/ WriteNothing(g) \/ WriteAgain(g) \/ WriteLinger(g) \/ WriteClose(g),
           NEW f \in Fds
    PROVE  Hands(f)'
<1> USE FreeIsNone
<1>1. PICK ev \in {"hup", "in", "out"} : Handling(g, ev)
  BY DEF HandleHup, ReadFails, ReadAppend, ReadAppendFails, Reads, WriteNothing, WriteAgain,
         WriteLinger, WriteClose
<1>2. /\ owner[g] # Free /\ ~InSetup(g) /\ Served(g) /\ owner[g] \notin dropped
      /\ interest[g] \notin {"in", "out"} /\ mpc = "dispatch" /\ mfd = Free
      /\ ~InBatch(g)' /\ ~Queued(g) /\ ~WithWorker(g)
      /\ \A h \in Fds \ {g} : SameBatch(h)
  BY <1>1, TakenOut
<1>3. sock[g] /\ interest[g] # "none" /\ UNCHANGED <<owner, sock, wfd, wpc>>
  BY <1>2 DEF Served, HandleHup, ReadFails, ReadAppend, ReadAppendFails, Reads, WriteNothing,
              WriteAgain, WriteLinger, WriteClose, kernel, object, workers
<1>4. ~WithWorker(g)' /\ SameWork(f)
  BY <1>2, <1>3 DEF WithWorker, SameWork
<1>5. CASE HandleHup(g) \/ ReadFails(g) \/ WriteClose(g)
  <2>1. /\ mfd' = g /\ mpc' = "close" /\ UNCHANGED <<queue, dropped>>
        /\ interest' = interest \/ interest' = [interest EXCEPT ![g] = "in"]
    BY <1>3, <1>5 DEF HandleHup, ReadFails, WriteClose, Armed, kernel, history
  <2>2. CASE f # g
    <3>1. interest'[f] = interest[f]
      BY <2>1, <2>2 DEF ConnInv, TypeOK
    <3>2. SameObject(f) /\ SameMain(f) /\ SameQueue(f)
      BY <1>2, <1>3, <2>1, <2>2, <3>1 DEF SameObject, SameMain, SameQueue, Queued
    <3>3. QED
      BY <1>2, <1>4, <2>2, <3>2, Untouched
  <2>3. CASE f = g
    <3>1. Closing(f)' /\ ~InSetup(f)' /\ ~AtEpoll(f)' /\ ~Queued(f)'
      BY <1>2, <2>1, <2>3 DEF Closing, InSetup, AtEpoll, Queued
    <3>2. Exclusive(f)' /\ Once(f)' /\ InHand(f)'
      BY <1>2, <1>4, <2>3, <3>1 DEF Exclusive, Once, InHand, InBatch, Queued, WithWorker
    <3>3. interest'[f] # "none"
      BY <1>3, <2>1, <2>3 DEF ConnInv, TypeOK
    <3>4. mpc' \notin Shutting /\ \A w \in Workers : wfd'[w] # f
      BY <1>4, <2>1, <2>3 DEF Shutting, WithWorker
    <3>5. QED
      BY <1>2, <1>3, <2>1, <2>3, <3>1, <3>2, <3>3, <3>4, HandsServed
  <2>4. QED
    BY <2>2, <2>3
<1>6. CASE WriteNothing(g) \/ WriteAgain(g) \/ WriteLinger(g)
  <2>1. UNCHANGED <<mfd, mpc, queue, dropped>>
        /\ \E x \in {"in", "out"} : interest' = [interest EXCEPT ![g] = x]
    BY <1>3, <1>6 DEF WriteNothing, WriteAgain, WriteLinger, Armed, history
  <2>2. CASE f # g
    <3>1. SameObject(f) /\ SameMain(f) /\ SameQueue(f)
      BY <1>2, <1>3, <2>1, <2>2 DEF SameObject, SameMain, SameQueue, Queued
    <3>2. QED
      BY <1>2, <1>4, <2>2, <3>1, Untouched
  <2>3. CASE f = g
    <3>1. interest'[f] \in {"in", "out"}
      BY <2>1, <2>3 DEF ConnInv, TypeOK
    <3>2. ~Closing(f)' /\ ~InSetup(f)' /\ AtEpoll(f)' /\ ~Queued(f)'
      BY <1>2, <2>1, <2>3, <3>1 DEF Closing, InSetup, AtEpoll, Queued
    <3>3. Exclusive(f)' /\ Once(f)' /\ InHand(f)'
      BY <1>2, <1>4, <2>3, <3>2 DEF Exclusive, Once, InHand, InBatch, Queued, WithWorker
    <3>4. mpc' \notin Shutting /\ \A w \in Workers : wfd'[w] # f
      BY <1>2, <1>4, <2>1, <2>3 DEF Shutting, WithWorker
    <3>5. QED
      BY <1>2, <1>3, <2>1, <2>3, <3>1, <3>2, <3>3, <3>4, HandsServed
  <2>4. QED
    BY <2>2, <2>3
<1>7. CASE ReadAppend(g)
  <2>1. UNCHANGED <<mfd, mpc, interest, dropped>> /\ queue' = Append(queue, g)
    BY <1>7 DEF ReadAppend, Reads
  <2>2. queue \in Seq(Fds)
    BY DEF ConnInv, TypeOK
  <2>3. CASE f # g
    <3>1. SameObject(f) /\ SameMain(f)
      BY <1>2, <1>3, <2>1, <2>3 DEF SameObject, SameMain
    <3>2. SameQueue(f)
      BY <2>1, <2>2, <2>3, AppendQueue
    <3>3. QED
      BY <1>2, <1>4, <2>3, <3>1, <3>2, Untouched
  <2>4. CASE f = g
    <3>1. /\ Queued(f)'
          /\ \A i, j \in 1..Len(queue') : queue'[i] = f /\ queue'[j] = f => i = j
      BY <1>2, <2>1, <2>2, <2>4, AppendQueue
    <3>2. ~Closing(f)' /\ ~InSetup(f)' /\ ~AtEpoll(f)'
      BY <1>2, <2>1, <2>4 DEF Closing, InSetup, AtEpoll
    <3>3. Exclusive(f)' /\ Once(f)' /\ InHand(f)'
      BY <1>2, <1>4, <2>4, <3>1, <3>2 DEF Exclusive, Once, InHand, InBatch, WithWorker
    <3>4. mpc' \notin Shutting /\ \A w \in Workers : wfd'[w] # f
      BY <1>2, <1>4, <2>1, <2>4 DEF Shutting, WithWorker
    <3>5. QED
      BY <1>2, <1>3, <2>1, <2>4, <3>1, <3>2, <3>3, <3>4, HandsServed
  <2>5. QED
    BY <2>3, <2>4
<1>8. CASE ReadAppendFails(g)
  <2>1. UNCHANGED <<mfd, mpc, interest, queue>> /\ dropped' = dropped \union {owner[g]}
    BY <1>8 DEF ReadAppendFails, Reads
  <2>2. CASE f # g
    <3>1. owner[f] # owner[g]
      BY <1>2, <2>2 DEF ConnInv, Sockets
    <3>2. SameObject(f) /\ SameMain(f) /\ SameQueue(f)
      BY <1>2, <1>3, <2>1, <2>2, <3>1 DEF SameObject, SameMain, SameQueue, Queued
    <3>3. QED
      BY <1>2, <1>4, <2>2, <3>2, Untouched
  <2>3. CASE f = g
    <3>1. ~Closing(f)' /\ ~InSetup(f)' /\ ~AtEpoll(f)' /\ ~Queued(f)'
      BY <1>2, <2>1, <2>3 DEF Closing, InSetup, AtEpoll, Queued
    <3>2. Exclusive(f)' /\ Once(f)' /\ ~InHand(f)'
      BY <1>2, <1>4, <2>3, <3>1 DEF Exclusive, Once, InHand, InBatch, Queued, WithWorker
    <3>3. mpc' \notin Shutting /\ \A w \in Workers : wfd'[w] # f
      BY <1>2, <1>4, <2>1, <2>3 DEF Shutting, WithWorker
    <3>4. QED
      BY <1>2, <1>3, <2>1, <2>3, <3>1, <3>2, <3>3, HandsServed
  <2>4. QED
    BY <2>2, <2>3
<1>9. QED
  BY <1>5, <1>6, <1>7, <1>8

\* close_conn in the main thread: from the removal on only the thread itself knows the
\* descriptor.
LEMMA CloseHands ==
    ASSUME ConnInv, \A g \in Fds : Hands(g),
           CloseRemove \/ CloseNothing \/ CloseSock \/ CloseLoad \/ CloseStore,
           NEW f \in Fds
    PROVE  Hands(f)'
<1> USE FreeIsNone
<1>1. /\ mfd \in Fds /\ mpc \in {"close"} \union Shutting
      /\ mfd' \in {mfd, Free} /\ UNCHANGED <<dropped, events, queue, wfd, wpc>>
  BY DEF CloseRemove, CloseNothing, CloseSock, CloseLoad, CloseStore, Shutting, ConnInv, Pcs,
         kernel, object, workers, history
<1>2. SameBatch(f) /\ SameQueue(f) /\ SameWork(f)
  BY <1>1 DEF SameBatch, SameQueue, SameWork, Queued
<1>3. CASE f # mfd
  <2>1. SameObject(f)
    BY <1>1, <1>3 DEF CloseRemove, CloseNothing, CloseSock, CloseLoad, CloseStore, RemoveFd,
                      SameObject, ConnInv, TypeOK, kernel, object
  <2>2. SameMain(f)
    BY <1>1, <1>3 DEF SameMain
  <2>3. QED
    BY <1>2, <2>1, <2>2, Untouched
<1>4. CASE f = mfd /\ mpc = "close"
  <2>1. Closing(f) /\ ~InSetup(f)
    BY <1>4 DEF Closing, InSetup
  <2>2. owner[f] # Free /\ Served(f)
    BY <2>1 DEF Hands, Unused
  <2>3. sock[f] /\ ~InBatch(f) /\ ~Queued(f) /\ ~WithWorker(f)
    BY <2>1, <2>2 DEF Served, Exclusive
  <2>4. CloseRemove
    BY <1>4, <2>3 DEF CloseRemove, CloseNothing, CloseSock, CloseLoad, CloseStore
  <2>5. owner'[f] = Free /\ interest'[f] = "none" /\ mpc' = "close_sock" /\ mfd' = f
    BY <1>4, <2>4 DEF CloseRemove, RemoveFd, ConnInv, TypeOK
  <2>6. ~InBatch(f)' /\ ~Queued(f)' /\ \A w \in Workers : wfd'[w] # f
    BY <1>1, <2>3 DEF InBatch, Queued, WithWorker
  <2>7. ~Closing(f)' /\ ~InSetup(f)'
    BY <2>5 DEF Closing, InSetup
  <2>8. Unused(f)'
    BY <2>5, <2>6, <2>7 DEF Unused
  <2>9. QED
    BY <2>5, <2>8 DEF Hands
<1>5. CASE f = mfd /\ mpc \in Shutting
  <2>1. ~InSetup(f)
    BY <1>5 DEF InSetup, Shutting
  <2>2. owner[f] = Free /\ Unused(f)
    BY <1>5, <2>1 DEF Hands, Served
  <2>3. /\ owner' = owner /\ interest' = interest
        /\ mpc' \in {"close_load", "close_store", "dispatch"}
    BY <1>5 DEF CloseRemove, CloseNothing, CloseSock, CloseLoad, CloseStore, Shutting, kernel
  <2>4. ~Closing(f)' /\ ~InSetup(f)'
    BY <2>3 DEF Closing, InSetup
  <2>5. ~InBatch(f)' /\ ~Queued(f)'
    BY <1>1, <2>2 DEF Unused, InBatch, Queued
  <2>6. ~sock'[f] \/ \E w \in Workers : wfd'[w] = f /\ wpc'[w] = "close_sock"
    <3>1. CASE CloseSock
      BY <1>5, <3>1 DEF CloseSock, ConnInv, TypeOK
    <3>2. CASE ~CloseSock
      <4>1. mpc # "close_sock" /\ sock' = sock
        BY <1>5, <3>2 DEF CloseRemove, CloseNothing, CloseLoad, CloseStore, object, Shutting
      <4>2. QED
        BY <1>1, <2>2, <4>1 DEF Unused
    <3>3. QED
      BY <3>1, <3>2
  <2>7. Unused(f)'
    BY <1>1, <2>2, <2>3, <2>4, <2>5, <2>6 DEF Unused
  <2>8. QED
    BY <2>2, <2>3, <2>7 DEF Hands
<1>6. QED
  BY <1>1, <1>3, <1>4, <1>5

\* A worker that is inside process() but not inside close_conn has a connection in hand.
LEMMA InWorker ==
    ASSUME ConnInv, NEW f \in Fds, Hands(f), NEW w \in Workers, wfd[w] = f,
           wpc[w] \in {"process", "close"} \/ (wpc[w] = "rearm" /\ owner[f] # Free)
    PROVE  /\ owner[f] # Free /\ ~InSetup(f) /\ Served(f) /\ owner[f] \notin dropped
           /\ ~Closing(f) /\ ~InBatch(f) /\ ~Queued(f) /\ ~AtEpoll(f)
           /\ \A v \in Workers : wfd[v] = f => v = w
<1>1. WithWorker(f)
  BY DEF WithWorker
<1>2. owner[f] # Free /\ ~InSetup(f)
  BY <1>1 DEF Hands, Unused, Fresh, Shutting
<1>3. Served(f)
  BY <1>2 DEF Hands
<1>4. QED
  BY <1>1, <1>2, <1>3 DEF Served, Exclusive, Once, InHand

\* What a step of a worker leaves to the other descriptors.
LEMMA OtherHands ==
    ASSUME ConnInv, NEW w \in Workers, NEW f \in Fds, Hands(f), wfd[w] # f, wfd'[w] # f,
           \A v \in Workers \ {w} : wfd'[v] = wfd[v] /\ wpc'[v] = wpc[v],
           SameObject(f), SameQueue(f), UNCHANGED <<mfd, mpc, events>>
    PROVE  Hands(f)'
<1>1. SameMain(f) /\ SameBatch(f)
  BY DEF SameMain, SameBatch
<1>2. SameWork(f)
  BY DEF SameWork
<1>3. QED
  BY <1>1, <1>2, Untouched

\* From the pool to a worker.
LEMMA TakeHands ==
    ASSUME ConnInv, \A g \in Fds : Hands(g), NEW w \in Workers, Take(w), NEW f \in Fds
    PROVE  Hands(f)'
<1> USE FreeIsNone
<1> DEFINE g == Head(queue)
<1>1. queue \in Seq(Fds) /\ queue # << >> /\ queue' = Tail(queue) /\ g \in Fds
  BY DEF Take, ConnInv, TypeOK
<1>2. /\ wfd' = [wfd EXCEPT ![w] = g] /\ wpc' = [wpc EXCEPT ![w] = "process"]
      /\ wpc[w] = "idle" /\ wfd[w] \notin Fds
      /\ UNCHANGED <<owner, interest, sock, dropped, mfd, mpc, events>>
  BY DEF Take, ConnInv, Pcs, kernel, object, main, history
<1>3. /\ wfd'[w] = g /\ wpc'[w] = "process"
      /\ \A v \in Workers \ {w} : wfd'[v] = wfd[v] /\ wpc'[v] = wpc[v]
  BY <1>2 DEF ConnInv, TypeOK, Pcs
<1>4. CASE f # g
  <2>1. SameQueue(f)
    BY <1>1, <1>4, TailQueue
  <2>2. SameObject(f)
    BY <1>2 DEF SameObject
  <2>3. QED
    BY <1>2, <1>3, <1>4, <2>1, <2>2, OtherHands
<1>5. CASE f = g
  <2>1. Queued(f)
    BY <1>1, <1>5, TailQueue
  <2>2. owner[f] # Free /\ ~InSetup(f) /\ Served(f)
    BY <2>1 DEF Hands, Unused, Fresh
  <2>3. owner[f] \notin dropped /\ ~AtEpoll(f) /\ ~InBatch(f) /\ ~WithWorker(f) /\ ~Closing(f)
    BY <2>1, <2>2 DEF Served, Exclusive, InHand
  <2>4. ~Queued(f)'
    BY <1>1, <1>5, <2>2, TailQueue DEF Served, Once, Queued
  <2>5. WithWorker(f)' /\ \A v \in Workers : wfd'[v] = f => v = w
    BY <1>3, <1>5, <2>3 DEF WithWorker
  <2>6. ~AtEpoll(f)' /\ ~InBatch(f)' /\ ~Closing(f)' /\ ~InSetup(f)'
    BY <1>2, <2>2, <2>3 DEF AtEpoll, InBatch, Closing, InSetup
  <2>7. Exclusive(f)' /\ Once(f)' /\ InHand(f)'
    BY <2>4, <2>5, <2>6 DEF Exclusive, Once, InHand, InBatch, Queued
  <2>8. \A v \in Workers : wfd'[v] = f => wpc'[v] \notin Shutting
    BY <1>3, <2>5 DEF Shutting
  <2>9. QED
    BY <1>2, <2>2, <2>3, <2>6, <2>7, <2>8, HandsServed DEF Served
<1>6. QED
  BY <1>4, <1>5

\* process: the worker keeps the connection, hands it to epoll, or closes it.
LEMMA WorkerHands ==
    ASSUME ConnInv, \A g \in Fds : Hands(g), NEW w \in Workers,
           \/ ProcessMore(w) \/ ProcessReply(w) \/ ProcessFails(w) \/ WorkerRemove(w)
           \/ WorkerNothing(w) \/ WorkerSock(w) \/ WorkerLoad(w) \/ WorkerStore(w)
           \/ WorkerRearm(w),
           NEW f \in Fds
    PROVE  Hands(f)'
<1> USE FreeIsNone
<1> DEFINE g == wfd[w]
<1>1. g \in Fds /\ UNCHANGED <<dropped, mfd, mpc, events, queue>>
  BY DEF ProcessMore, ProcessReply, ProcessFails, WorkerRemove, WorkerNothing, WorkerSock,
         WorkerLoad, WorkerStore, WorkerRearm, ConnInv, Pcs, main, history
<1>2. /\ wfd'[w] \in {g, Free}
      /\ \A v \in Workers \ {w} : wfd'[v] = wfd[v] /\ wpc'[v] = wpc[v]
  BY DEF ProcessMore, ProcessReply, ProcessFails, WorkerRemove, WorkerNothing, WorkerSock,
         WorkerLoad, WorkerStore, WorkerRearm, ConnInv, Pcs, TypeOK, workers
<1>3. SameQueue(f)
  BY <1>1 DEF SameQueue, Queued
<1>4. CASE f # g
  <2>1. owner'[f] = owner[f] /\ interest'[f] = interest[f] /\ sock'[f] = sock[f]
    BY <1>1, <1>4 DEF ProcessMore, ProcessReply, ProcessFails, WorkerRemove, WorkerNothing,
       WorkerSock, WorkerLoad, WorkerStore, WorkerRearm, RemoveFd, Armed, ConnInv, TypeOK, kernel,
       object
  <2>2. SameObject(f)
    BY <1>1, <2>1 DEF SameObject
  <2>3. QED
    BY <1>1, <1>2, <1>3, <1>4, <2>2, OtherHands
<1>5. CASE f = g /\ (wpc[w] \in {"process", "close"} \/ (wpc[w] = "rearm" /\ owner[f] # Free))
  <2>1. /\ owner[f] # Free /\ ~InSetup(f) /\ Served(f) /\ owner[f] \notin dropped
        /\ ~Closing(f) /\ ~InBatch(f) /\ ~Queued(f) /\ ~AtEpoll(f)
        /\ \A v \in Workers : wfd[v] = f => v = w
    BY <1>5, InWorker
  <2>2. /\ ~Closing(f)' /\ ~InBatch(f)' /\ ~Queued(f)' /\ ~InSetup(f)'
        /\ \A v \in Workers : wfd'[v] = f => v = w
    BY <1>1, <1>2, <2>1 DEF Closing, InBatch, Queued, InSetup
  <2>3. sock[f] /\ interest[f] # "none" /\ (mfd = f => mpc \notin Shutting)
    BY <2>1 DEF Served
  <2>4. CASE ProcessMore(w) \/ WorkerRearm(w)
    <3>1. /\ UNCHANGED <<owner, sock>> /\ wfd' = [wfd EXCEPT ![w] = Free]
          /\ \E x \in {"in", "out"} : interest' = [interest EXCEPT ![f] = x]
      BY <1>5, <2>3, <2>4 DEF ProcessMore, WorkerRearm, Armed, object
    <3>2. wfd'[w] # f /\ interest'[f] \in {"in", "out"}
      BY <3>1 DEF ConnInv, TypeOK
    <3>3. AtEpoll(f)' /\ ~WithWorker(f)'
      BY <2>2, <3>2 DEF AtEpoll, WithWorker, Closing
    <3>4. Exclusive(f)' /\ Once(f)' /\ InHand(f)'
      BY <2>2, <3>3 DEF Exclusive, Once, InHand, InBatch, Queued, WithWorker
    <3>5. QED
      BY <1>1, <2>1, <2>2, <2>3, <3>1, <3>2, <3>3, <3>4, HandsServed DEF WithWorker
  <2>5. CASE ProcessReply(w) \/ ProcessFails(w)
    <3>1. /\ UNCHANGED <<owner, sock, interest>> /\ wfd' = wfd /\ wpc'[w] \in {"rearm", "close"}
      BY <2>5 DEF ProcessReply, ProcessFails, kernel, object, ConnInv, Pcs
    <3>2. WithWorker(f)' /\ ~AtEpoll(f)'
      BY <1>1, <1>5, <2>1, <3>1 DEF WithWorker, AtEpoll, Closing
    <3>3. Exclusive(f)' /\ Once(f)' /\ InHand(f)'
      BY <2>2, <3>2 DEF Exclusive, Once, InHand, InBatch, Queued
    <3>4. \A v \in Workers : wfd'[v] = f => wpc'[v] \notin Shutting
      BY <2>2, <3>1 DEF Shutting
    <3>5. QED
      BY <1>1, <2>1, <2>2, <2>3, <3>1, <3>3, <3>4, HandsServed
  <2>6. CASE WorkerRemove(w)
    <3>1. owner'[f] = Free /\ interest'[f] = "none" /\ wpc'[w] = "close_sock" /\ wfd' = wfd
      BY <1>5, <2>6 DEF WorkerRemove, RemoveFd, ConnInv, TypeOK, Pcs
    <3>2. \A v \in Workers : wfd'[v] = f => wpc'[v] \in Shutting \union {"rearm"}
      BY <2>2, <3>1 DEF Shutting
    <3>3. Unused(f)'
      BY <1>5, <2>2, <3>1, <3>2 DEF Unused
    <3>4. QED
      BY <3>1, <3>3 DEF Hands
  <2>7. QED
    BY <1>5, <2>3, <2>4, <2>5, <2>6
       DEF WorkerNothing, WorkerSock, WorkerLoad, WorkerStore
<1>6. CASE /\ f = g
           /\ wpc[w] \in Shutting \/ (wpc[w] = "rearm" /\ owner[f] = Free)
  <2>1. owner[f] = Free /\ Unused(f)
    BY <1>6 DEF Hands, Fresh, Served, WithWorker
  <2>2. /\ UNCHANGED <<owner, interest>> /\ wpc'[w] \in {"close_load", "close_store", "rearm", "idle"}
        /\ wpc'[w] = "idle" => wfd'[w] = Free
    BY <1>6, <2>1 DEF ProcessMore, ProcessReply, ProcessFails, WorkerRemove, WorkerNothing,
       WorkerSock, WorkerLoad, WorkerStore, WorkerRearm, Unused, Shutting, Armed, ConnInv, Pcs,
       TypeOK, kernel
  <2>3. ~InBatch(f)' /\ ~Queued(f)' /\ ~Closing(f)' /\ ~InSetup(f)'
    BY <1>1, <2>1 DEF Unused, InBatch, Queued, Closing, InSetup
  <2>4. \A v \in Workers : wfd'[v] = f => wpc'[v] \in Shutting \union {"rearm"}
    BY <1>2, <2>1, <2>2 DEF Unused, Shutting
  <2>5. \/ ~sock'[f]
        \/ mfd' = f /\ mpc' = "close_sock"
        \/ \E v \in Workers : wfd'[v] = f /\ wpc'[v] = "close_sock"
    <3>1. CASE WorkerSock(w)
      BY <1>6, <3>1 DEF WorkerSock, ConnInv, TypeOK
    <3>2. CASE ~WorkerSock(w)
      <4>1. wpc[w] # "close_sock" /\ sock' = sock
        BY <1>6, <3>2 DEF ProcessMore, ProcessReply, ProcessFails, WorkerRemove, WorkerNothing,
           WorkerLoad, WorkerStore, WorkerRearm, Shutting, object
      <4>2. QED
        BY <1>1, <1>2, <2>1, <4>1 DEF Unused
    <3>3. QED
      BY <3>1, <3>2
  <2>6. Unused(f)'
    BY <2>1, <2>2, <2>3, <2>4, <2>5 DEF Unused
  <2>7. QED
    BY <2>1, <2>2, <2>6 DEF Hands
<1>7. QED
  BY <1>4, <1>5, <1>6
     DEF ProcessMore, ProcessReply, ProcessFails, WorkerRemove, WorkerNothing, WorkerSock,
         WorkerLoad, WorkerStore, WorkerRearm, Shutting

LEMMA NextHands == ConnInv /\ HandsInv /\ [Next]_vars => HandsInv'
<1> SUFFICES ASSUME ConnInv, HandsInv, [Next]_vars, ~raced', NEW f \in Fds
             PROVE  Hands(f)'
  BY DEF HandsInv
<1>1. ~raced
  <2>1. CASE Accept
    BY <2>1 DEF Accept
  <2>2. CASE ~Accept
    <3>1. raced' = raced
      BY <2>2 DEF Next, vars, Main, Worker, Connect, Send, HangUp, EpollWait, AcceptFails,
         AcceptBusy, InitSock, InitAdd, InitLoad, InitStore, InitReset, HandleHup, ReadFails,
         ReadAppend, ReadAppendFails, Reads, WriteNothing, WriteAgain, WriteLinger, WriteClose,
         CloseRemove, CloseNothing, CloseSock, CloseLoad, CloseStore, Take, ProcessMore,
         ProcessReply, ProcessFails, WorkerRemove, WorkerNothing, WorkerSock, WorkerLoad,
         WorkerStore, WorkerRearm, history
    <3>2. QED
      BY <3>1
  <2>3. QED
    BY <2>1, <2>2
<1>2. \A g \in Fds : Hands(g)
  BY <1>1 DEF HandsInv
<1>3. CASE UNCHANGED vars
  <2>1. UNCHANGED <<owner, interest, sock, dropped, mfd, mpc, events, queue, wfd, wpc>>
    BY <1>3 DEF vars, kernel, object, main, workers, history
  <2>2. QED
    BY <1>2, <2>1, Untouched DEF SameObject, SameMain, SameBatch, SameQueue, SameWork, Queued
<1>4. CASE \E c \in Clients : Connect(c) \/ Send(c) \/ HangUp(c)
  BY <1>2, <1>4, ClientHands
<1>5. CASE Main
  BY <1>2, <1>5, WaitHands, AcceptHands, SetupHands, EventHands, CloseHands DEF Main
<1>6. CASE \E w \in Workers : Worker(w)
  BY <1>2, <1>6, TakeHands, WorkerHands DEF Worker
<1>7. QED
  BY <1>3, <1>4, <1>5, <1>6 DEF Next

THEOREM HandsInvariant == Spec => []HandsInv
<1>1. Init => HandsInv
  BY InitHands
<1>2. ConnInv /\ HandsInv /\ [Next]_vars => HandsInv'
  BY NextHands
<1>3. QED
  BY <1>1, <1>2, ConnInvariant, PTL DEF Spec

-----------------------------------------------------------------------------
(* The properties.                                                         *)

\* A connection that is open has exactly one actor, or none once append refused it.
LEMMA ServedHasOne ==
    ASSUME NEW f \in Fds, Served(f)
    PROVE  Cardinality(Responsible(f)) = IF owner[f] \in dropped THEN 0 ELSE 1
<1>1. ASSUME NEW x \in Responsible(f)
      PROVE  \/ AtEpoll(f) /\ x = <<"epoll", interest[f]>>
             \/ \E e \in events : e[1] = f /\ x = <<"event", e>>
             \/ \E i \in 1..Len(queue) : queue[i] = f /\ x = <<"queue", i>>
             \/ \E w \in Workers : wfd[w] = f /\ x = <<"worker", w>>
             \/ Closing(f) /\ x = <<"main", f>>
  BY DEF Responsible, AtEpoll
<1>2. \A x \in Responsible(f) : InHand(f)
  BY <1>1 DEF InHand, InBatch, Queued, WithWorker
<1>3. InHand(f) => Responsible(f) # {}
  <2>1. AtEpoll(f) => <<"epoll", interest[f]>> \in Responsible(f)
    BY DEF AtEpoll, Responsible
  <2>2. \A e \in events : e[1] = f => <<"event", e>> \in Responsible(f)
    BY DEF Responsible
  <2>3. \A i \in 1..Len(queue) : queue[i] = f => <<"queue", i>> \in Responsible(f)
    BY DEF Responsible
  <2>4. \A w \in Workers : wfd[w] = f => <<"worker", w>> \in Responsible(f)
    BY DEF Responsible
  <2>5. Closing(f) => <<"main", f>> \in Responsible(f)
    BY DEF Responsible
  <2>6. QED
    BY <2>1, <2>2, <2>3, <2>4, <2>5 DEF InHand, InBatch, Queued, WithWorker
<1>4. \A x, y \in Responsible(f) : x = y
  BY <1>1 DEF Served, Exclusive, Once, InBatch, Queued, WithWorker
<1>5. CASE owner[f] \in dropped
  <2>1. Responsible(f) = {}
    BY <1>2, <1>5 DEF Served
  <2>2. QED
    BY <1>5, <2>1, FS_EmptySet
<1>6. CASE owner[f] \notin dropped
  <2>1. PICK x \in Responsible(f) : TRUE
    BY <1>3, <1>6 DEF Served
  <2>2. Responsible(f) = {x}
    BY <1>4, <2>1
  <2>3. Cardinality({x}) = 1
    BY FS_Singleton
  <2>4. QED
    BY <1>6, <2>2, <2>3
<1>7. QED
  BY <1>5, <1>6

\* Until a descriptor is reused under a worker, every open connection is in exactly one pair of
\* hands - epoll, the batch, the pool, a worker, or the main thread that closes it - or was
\* refused by append and is in none (EPOLLONESHOT and web_server.cpp).
THEOREM OneHand == Spec => []OneResponsible
<1>1. ConnInv /\ HandsInv => OneResponsible
  BY ServedHasOne DEF HandsInv, Hands, OneResponsible
<1>2. QED
  BY <1>1, ConnInvariant, HandsInvariant, PTL

\* Until then m_sockfd of users[f] is valid exactly while f is open, but for the thread that is
\* just opening or closing it.
THEOREM SocksAreDescriptors == Spec => []SockIsDescriptor
<1>1. ConnInv /\ HandsInv => SockIsDescriptor
  BY DEF HandsInv, Hands, Unused, Served, SockIsDescriptor
<1>2. QED
  BY <1>1, ConnInvariant, HandsInvariant, PTL

\* Until then a closed descriptor leaves nothing behind in epoll, the batch, the pool or with a
\* worker that would act on its next user.
THEOREM NobodyHoldsClosed == Spec => []NothingStale
<1>1. ConnInv /\ HandsInv => NothingStale
  BY DEF HandsInv, Hands, Unused, InBatch, Queued, NothingStale, Shutting
<1>2. QED
  BY <1>1, ConnInvariant, HandsInvariant, PTL
=============================================================================
