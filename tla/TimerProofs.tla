----------------------------- MODULE TimerProofs -----------------------------
(***************************************************************************)
(* Proofs about the containers of timers and what is built on them: about  *)
(* InactiveConn, for either container, any number of descriptors and       *)
(* addresses of timers, and any times, which timers the server puts into a *)
(* container and takes out of it, the alarm, how the timers are linked,    *)
(* and the promise of IdleConnections; at the end, about TimeHeap, for any *)
(* number of timers, the order of the heap and the promise of              *)
(* TimerService.                                                           *)
(*                                                                         *)
(* A list is followed by a sequence s of its nodes, from which every link  *)
(* can be read off.  The walks of the code are recursive functions: that   *)
(* one exists and what it returns follows from the least place where it    *)
(* would not.                                                              *)
(***************************************************************************)
EXTENDS InactiveConn, TimeHeap, FiniteSetTheorems, WellFoundedInduction, TLAPS

-----------------------------------------------------------------------------
(* The inductive invariant.                                                *)

Signals == {"ALRM", "TERM"}

\* The types of all that is not the inside of a container.
LoopType ==
    /\ open \subseteq Fds /\ input \in [Fds -> 0..MaxInput] /\ fin \in [Fds -> BOOLEAN]
    /\ ready \subseteq Sources /\ events \subseteq Sources
    /\ backlog \in 0..MaxBacklog /\ alarm \in 0..TimeSlot
    /\ pending \subseteq Signals /\ pipe \in Seq(Signals)
    /\ mpc \in {"wait", "batch", "stopped"}
    /\ timeout \in BOOLEAN /\ stop_server \in BOOLEAN
    /\ timer \in [Fds -> Pointer] /\ live \subseteq Timers /\ container \in Containers
    /\ left \in [Timers -> 0..Timeout] /\ user \in [Timers -> Fds \union {Bad}]

\* A timer that is not in use belongs to nobody.
FreeTimers == \A t \in Timers \ live : user[t] = Bad

\* Epoll reports open descriptors, and is asked when the batch before is done.
Reported == /\ ready \intersect Fds \subseteq open
            /\ mpc = "wait" => events = {}

\* Signals in the pipe are reported.
PipeSeen == pipe # << >> => "pipe" \in ready \union events

\* TimerPerConnection needs FreeTimers, because what tick finds is not known to be in use, and
\* Reported, because ready is the next batch.
ServerInv == LoopType /\ FreeTimers /\ Reported /\ TimerPerConnection

-----------------------------------------------------------------------------
(* Timers and constants.                                                   *)

LEMMA Numbers ==
    /\ TimeSlot \in Nat \ {0} /\ Timeout \in Nat /\ MaxBacklog \in Nat \ {0}
    /\ MaxInput \in Nat \ {0} /\ PipeSize \in Nat \ {0}
    /\ Bad \notin Fds /\ "listen" \notin Fds /\ "pipe" \notin Fds /\ Null \notin Timers
  BY InactiveAssumption, TimersAssumption DEF Timeout

\* The timers a tick finds are timers.
LEMMA FoundTimers == Expired(lst, left, 0) \subseteq Timers /\ W!Fired(wheel) \subseteq Timers
  BY DEF Expired, W!Fired

-----------------------------------------------------------------------------
(* ServerInv is inductive.                                                 *)

LEMMA InitServerInv == Init => ServerInv
<1> SUFFICES ASSUME Init
             PROVE  ServerInv
    OBVIOUS
<1> USE Numbers DEF Init
<1>1. LoopType
  <2>1. 0 \in 0..MaxInput /\ 0 \in 0..MaxBacklog /\ TimeSlot \in 0..TimeSlot /\ 0 \in 0..Timeout
    OBVIOUS
  <2>2. /\ open \subseteq Fds /\ input \in [Fds -> 0..MaxInput] /\ fin \in [Fds -> BOOLEAN]
        /\ backlog \in 0..MaxBacklog /\ alarm \in 0..TimeSlot
    BY <2>1
  <2>3. timeout \in BOOLEAN /\ stop_server \in BOOLEAN
    OBVIOUS
  <2>4. pipe \in Seq(Signals)
    OBVIOUS
  <2>5. /\ timer \in [Fds -> Pointer] /\ live \subseteq Timers /\ container \in Containers
        /\ user \in [Timers -> Fds \union {Bad}]
    BY DEF Pointer
  <2>6. left \in [Timers -> 0..Timeout]
    BY <2>1
  <2>7. QED
    BY <2>2, <2>3, <2>4, <2>5, <2>6 DEF LoopType, Sources, Signals
<1>2. FreeTimers /\ Reported /\ TimerPerConnection
  BY DEF FreeTimers, Reported, TimerPerConnection
<1>3. QED
  BY <1>1, <1>2 DEF ServerInv

\* Steps that leave connections and timers alone.
conns == <<open, timer, container, live, user>>

LEMMA SameConns ==
    ASSUME ServerInv, UNCHANGED conns, ready' \intersect Fds \subseteq open,
           events' \intersect Fds \subseteq open,
           mpc' = "wait" => events' = {}
    PROVE  FreeTimers' /\ Reported' /\ TimerPerConnection'
<1>1. FreeTimers' /\ Reported'
  BY DEF ServerInv, FreeTimers, Reported, conns
<1>2. TimerPerConnection'
  BY DEF ServerInv, TimerPerConnection, conns
<1>3. QED
  BY <1>1, <1>2

\* The clients, the clock and the signals.
LEMMA OutsideServerInv ==
    ASSUME ServerInv,
           \/ Connect \/ Second \/ Terminate
           \/ \E f \in Fds : Send(f) \/ HangUp(f)
           \/ \E sig \in Signals : SigHandler(sig)
    PROVE  ServerInv'
<1> USE Numbers DEF ServerInv, server, timers, kernel, Sources
<1>1. CASE Connect
  <2>1. backlog' \in 0..MaxBacklog
    BY <1>1 DEF Connect, LoopType
  <2>2. LoopType'
    BY <1>1, <2>1 DEF Connect, LoopType
  <2>3. FreeTimers' /\ Reported' /\ TimerPerConnection'
    BY <1>1, SameConns DEF Connect, conns, Reported, TimerPerConnection
  <2>4. QED
    BY <2>2, <2>3
<1>2. CASE Second
  <2>1. alarm' \in 0..TimeSlot
    BY <1>2 DEF Second, LoopType
  <2>2. left' \in [Timers -> 0..Timeout]
    BY <1>2 DEF Second, LoopType
  <2>3. pending' \subseteq Signals
    BY <1>2 DEF Second, LoopType, Signals
  <2>4. LoopType'
    BY <1>2, <2>1, <2>2, <2>3 DEF Second, LoopType
  <2>5. FreeTimers' /\ Reported' /\ TimerPerConnection'
    BY <1>2, SameConns DEF Second, conns, Reported, TimerPerConnection
  <2>6. QED
    BY <2>4, <2>5
<1>3. CASE Terminate
  <2>1. LoopType'
    BY <1>3 DEF Terminate, LoopType, Signals
  <2>2. FreeTimers' /\ Reported' /\ TimerPerConnection'
    BY <1>3, SameConns DEF Terminate, conns, Reported, TimerPerConnection
  <2>3. QED
    BY <2>1, <2>2
<1>4. ASSUME NEW f \in Fds, Send(f) \/ HangUp(f)
      PROVE  ServerInv'
  <2>1. /\ f \in open /\ ready' = ready \union {f}
        /\ UNCHANGED <<open, backlog, alarm, pending, pipe, server, timers>>
    BY <1>4 DEF Send, HangUp
  <2>2. input' \in [Fds -> 0..MaxInput]
    <3>1. CASE Send(f)
      <4>1. input[f] + 1 \in 0..MaxInput
        BY <3>1 DEF Send, LoopType
      <4>2. QED
        BY <3>1, <4>1 DEF Send, LoopType
    <3>2. CASE HangUp(f)
      BY <3>2 DEF HangUp, LoopType
    <3>3. QED
      BY <1>4, <3>1, <3>2
  <2>3. fin' \in [Fds -> BOOLEAN]
    BY <1>4 DEF Send, HangUp, LoopType
  <2>4. LoopType'
    BY <2>1, <2>2, <2>3 DEF LoopType
  <2>5. FreeTimers' /\ Reported' /\ TimerPerConnection'
    BY <2>1, SameConns DEF conns, Reported, TimerPerConnection
  <2>6. QED
    BY <2>4, <2>5
<1>5. ASSUME NEW sig \in Signals, SigHandler(sig)
      PROVE  ServerInv'
  <2>1. pipe' \in Seq(Signals)
    <3>1. Append(pipe, sig) \in Seq(Signals)
      BY DEF LoopType
    <3>2. QED
      BY <1>5, <3>1 DEF SigHandler, LoopType
  <2>2. LoopType'
    BY <1>5, <2>1 DEF SigHandler, LoopType
  <2>3. FreeTimers' /\ Reported' /\ TimerPerConnection'
    BY <1>5, SameConns DEF SigHandler, conns, Reported, TimerPerConnection
  <2>4. QED
    BY <2>2, <2>3
<1>6. QED
  BY <1>1, <1>2, <1>3, <1>4, <1>5

\* The loop, where it does not touch a connection.
LEMMA LoopServerInv ==
    ASSUME ServerInv,
           \/ EpollWait \/ HandleSignals \/ NextRound \/ \E f \in Fds : RecvAgain(f)
    PROVE  ServerInv'
<1> USE Numbers DEF ServerInv, timers, kernel
<1>1. UNCHANGED <<open, input, fin, backlog, alarm, pending, timer, timers>>
  BY DEF EpollWait, HandleSignals, NextRound, RecvAgain, Handling
<1>2. pipe' \in Seq(Signals)
  <2>1. << >> \in Seq(Signals)
    OBVIOUS
  <2>2. QED
    BY <2>1 DEF EpollWait, HandleSignals, NextRound, RecvAgain, LoopType
<1>3. ready' \subseteq ready /\ events' \subseteq events \union ready
      /\ mpc' \in {"wait", "batch"} /\ (mpc' = "wait" => events' = {})
  BY DEF EpollWait, HandleSignals, NextRound, RecvAgain, Handling
<1>4. timeout' \in BOOLEAN /\ stop_server' \in BOOLEAN
  BY Zenon DEF EpollWait, HandleSignals, NextRound, RecvAgain, LoopType
<1>5. LoopType'
  BY <1>1, <1>2, <1>3, <1>4 DEF LoopType
<1>6. FreeTimers' /\ Reported' /\ TimerPerConnection'
  BY <1>1, <1>3, SameConns DEF conns, Reported, TimerPerConnection
<1>7. QED
  BY <1>5, <1>6

\* What the two ways to make a timer have in common.
LEMMA MadeTimer ==
    ASSUME ServerInv, NEW f, NEW t \in Timers, NewTimer(f, t)
    PROVE  /\ t \notin live /\ live' = live \union {t} /\ user' = [user EXCEPT ![t] = f]
           /\ container' = container /\ left' \in [Timers -> 0..Timeout]
<1>1. Timeout \in 0..Timeout
  BY Numbers
<1>2. QED
  BY <1>1 DEF NewTimer, NewListTimer, NewWheelTimer, ServerInv, LoopType

\* A connection gets a new descriptor and a timer.
LEMMA AcceptServerInv == ASSUME ServerInv, NEW f \in Fds, Accept(f) PROVE ServerInv'
<1> USE Numbers DEF ServerInv
<1>1. PICK t \in Timers : NewTimer(f, t) /\ timer' = [timer EXCEPT ![f] = t]
  BY DEF Accept
<1>2. /\ t \notin live /\ live' = live \union {t} /\ user' = [user EXCEPT ![t] = f]
      /\ container' = container /\ left' \in [Timers -> 0..Timeout]
  BY <1>1, MadeTimer
<1>3. /\ f \notin open /\ open' = open \union {f} /\ backlog' = backlog - 1 /\ backlog > 0
      /\ mpc = "batch" /\ events' \subseteq events
      /\ UNCHANGED <<input, fin, ready, alarm, pending, pipe, mpc, timeout, stop_server>>
  BY DEF Accept, Handling
<1>4. LoopType'
  <2>1. backlog' \in 0..MaxBacklog
    BY <1>3 DEF LoopType
  <2>2. timer' \in [Fds -> Pointer] /\ user' \in [Timers -> Fds \union {Bad}]
    BY <1>1, <1>2 DEF LoopType, Pointer
  <2>3. QED
    BY <1>2, <1>3, <2>1, <2>2 DEF LoopType
<1>5. FreeTimers' /\ Reported'
  BY <1>2, <1>3 DEF LoopType, FreeTimers, Reported
<1>6. TimerPerConnection'
  <2>1. ASSUME NEW g \in open'
        PROVE  timer'[g] \in live' /\ user'[timer'[g]] = g
    <3>1. CASE g = f
      BY <1>1, <1>2, <3>1 DEF LoopType
    <3>2. CASE g # f
      BY <1>1, <1>2, <1>3, <3>2 DEF LoopType, TimerPerConnection
    <3>3. QED
      BY <3>1, <3>2
  <2>2. ASSUME NEW u \in live', user'[u] # Bad
        PROVE  user'[u] \in open' /\ timer'[user'[u]] = u
    <3>1. CASE u = t
      BY <1>1, <1>2, <1>3, <3>1 DEF LoopType
    <3>2. CASE u # t
      <4>1. u \in live /\ user'[u] = user[u]
        BY <1>2, <3>2 DEF LoopType
      <4>2. user[u] \in open /\ timer[user[u]] = u /\ user[u] # f
        BY <1>3, <2>2, <4>1 DEF TimerPerConnection
      <4>3. QED
        BY <1>1, <1>3, <4>1, <4>2 DEF LoopType
    <3>3. QED
      BY <3>1, <3>2
  <2>3. events' \intersect Fds \subseteq open'
    BY <1>3 DEF TimerPerConnection
  <2>4. QED
    BY <2>1, <2>2, <2>3 DEF TimerPerConnection
<1>7. QED
  BY <1>4, <1>5, <1>6

\* A timer for the descriptor -1.
LEMMA AcceptFailsServerInv == ASSUME ServerInv, AcceptFails PROVE ServerInv'
<1> USE Numbers DEF ServerInv, kernel
<1>1. PICK t \in Timers : NewTimer(Bad, t)
  BY DEF AcceptFails
<1>2. /\ t \notin live /\ live' = live \union {t} /\ user' = [user EXCEPT ![t] = Bad]
      /\ container' = container /\ left' \in [Timers -> 0..Timeout]
  BY <1>1, MadeTimer
<1>3. /\ mpc = "batch" /\ events' \subseteq events
      /\ UNCHANGED <<kernel, mpc, timeout, stop_server, timer>>
  BY DEF AcceptFails, Handling
<1>4. LoopType'
  BY <1>2, <1>3 DEF LoopType
<1>5. FreeTimers' /\ Reported'
  BY <1>2, <1>3 DEF LoopType, FreeTimers, Reported
<1>6. TimerPerConnection'
  <2>1. \A g \in open' : timer'[g] \in live' /\ user'[timer'[g]] = g
    BY <1>2, <1>3 DEF LoopType, TimerPerConnection
  <2>2. \A u \in live' : user'[u] # Bad => user'[u] \in open' /\ timer'[user'[u]] = u
    BY <1>2, <1>3 DEF LoopType, TimerPerConnection
  <2>3. QED
    BY <1>3, <2>1, <2>2 DEF TimerPerConnection
<1>7. QED
  BY <1>4, <1>5, <1>6

\* The process ends.
LEMMA GoneServerInv == ASSUME ServerInv, Gone PROVE ServerInv'
<1> USE Numbers DEF ServerInv, Gone
<1>1. LoopType'
  <2>1. 0 \in 0..MaxInput /\ 0 \in 0..MaxBacklog /\ 0 \in 0..TimeSlot /\ 0 \in 0..Timeout
    OBVIOUS
  <2>2. /\ open' \subseteq Fds /\ input' \in [Fds -> 0..MaxInput] /\ fin' \in [Fds -> BOOLEAN]
        /\ backlog' \in 0..MaxBacklog /\ alarm' \in 0..TimeSlot
    BY <2>1
  <2>3. timeout' \in BOOLEAN /\ stop_server' \in BOOLEAN
    OBVIOUS
  <2>4. pipe' \in Seq(Signals)
    OBVIOUS
  <2>5. /\ timer' \in [Fds -> Pointer] /\ live' \subseteq Timers /\ container' \in Containers
        /\ user' \in [Timers -> Fds \union {Bad}]
    BY DEF Pointer, LoopType
  <2>6. left' \in [Timers -> 0..Timeout]
    BY <2>1
  <2>7. QED
    BY <2>2, <2>3, <2>4, <2>5, <2>6 DEF LoopType, Sources, Signals
<1>2. FreeTimers' /\ Reported' /\ TimerPerConnection'
  BY DEF FreeTimers, Reported, TimerPerConnection
<1>3. QED
  BY <1>1, <1>2

LEMMA LessInput ==
    ASSUME LoopType, NEW f \in Fds, Recv(f)
    PROVE  input' \in [Fds -> 0..MaxInput]
<1>1. PICK n \in 1..input[f] : input' = [input EXCEPT ![f] = @ - n]
  BY DEF Recv
<1>2. input[f] - n \in 0..MaxInput
  BY Numbers DEF LoopType
<1>3. QED
  BY <1>1, <1>2 DEF LoopType

\* Input: the timer of the connection is adjusted, or replaced.
LEMMA RecvServerInv ==
    ASSUME ServerInv, NEW f \in Fds, RecvData(f) \/ WheelRecvData(f)
    PROVE  ServerInv'
<1> USE Numbers DEF ServerInv
<1>1. /\ mpc = "batch" /\ events' \subseteq events /\ f \in events
      /\ UNCHANGED <<open, fin, ready, backlog, alarm, pending, pipe, mpc, timeout, stop_server,
                     container>>
  BY DEF RecvData, WheelRecvData, Recv, Handling
<1>2. input' \in [Fds -> 0..MaxInput]
  BY LessInput DEF RecvData, WheelRecvData
<1>3. f \in open /\ timer[f] \in live /\ timer[f] \in Timers /\ user[timer[f]] = f
  BY <1>1 DEF TimerPerConnection, LoopType
<1>4. CASE RecvData(f)
  <2>1. UNCHANGED <<timer, live, user>>
    BY <1>4 DEF RecvData
  <2>2. left' \in [Timers -> 0..Timeout]
    <3>1. Timeout \in 0..Timeout
      OBVIOUS
    <3>2. QED
      BY <1>3, <1>4, <3>1 DEF RecvData, LoopType
  <2>3. LoopType'
    BY <1>1, <1>2, <2>1, <2>2 DEF LoopType
  <2>4. FreeTimers' /\ Reported' /\ TimerPerConnection'
    BY <1>1, <2>1, SameConns DEF conns, Reported, TimerPerConnection
  <2>5. QED
    BY <2>3, <2>4
<1>5. CASE WheelRecvData(f)
  <2> DEFINE old == timer[f]
  <2>1. PICK t \in (Timers \ live) \union {old} :
           /\ timer' = [timer EXCEPT ![f] = t]
           /\ live' = (live \ {old}) \union {t}
           /\ left' = left /\ user' = [user EXCEPT ![old] = Bad, ![t] = f]
    BY <1>5 DEF WheelRecvData
  <2>2. t \in Timers /\ (t \notin live \/ t = old)
    BY <1>3, <2>1
  <2>3. user'[t] = f /\ timer'[f] = t /\ (old # t => user'[old] = Bad)
        /\ (\A u \in Timers \ {old, t} : user'[u] = user[u])
        /\ \A g \in Fds \ {f} : timer'[g] = timer[g]
    BY <1>3, <2>1, <2>2 DEF LoopType
  <2>4. LoopType'
    <3>1. timer' \in [Fds -> Pointer] /\ user' \in [Timers -> Fds \union {Bad}]
      BY <1>3, <2>1, <2>2 DEF LoopType, Pointer
    <3>2. QED
      BY <1>1, <1>2, <1>3, <2>1, <2>2, <3>1 DEF LoopType
  <2>5. FreeTimers'
    BY <2>1, <2>2, <2>3 DEF FreeTimers
  <2>6. Reported'
    BY <1>1 DEF Reported
  <2>7. TimerPerConnection'
    <3>1. ASSUME NEW g \in open, g # f
          PROVE  timer'[g] \in live' /\ user'[timer'[g]] = g
      <4>1. timer[g] \in live /\ timer[g] \in Timers /\ user[timer[g]] = g /\ g \in Fds
        BY DEF TimerPerConnection, LoopType
      <4>2. timer[g] # old /\ timer[g] # t
        BY <1>3, <2>2, <3>1, <4>1
      <4>3. timer'[g] = timer[g] /\ user'[timer[g]] = user[timer[g]] /\ timer[g] \in live'
        BY <2>1, <2>3, <3>1, <4>1, <4>2
      <4>4. QED
        BY <4>1, <4>3
    <3>2. ASSUME NEW u \in live', user'[u] # Bad
          PROVE  user'[u] \in open /\ timer'[user'[u]] = u
      <4>1. CASE u = t
        BY <1>3, <2>3, <4>1
      <4>2. CASE u # t
        <5>1. u \in live /\ u # old /\ u \in Timers /\ user'[u] = user[u]
          BY <2>1, <2>3, <4>2 DEF LoopType
        <5>2. user[u] \in open /\ timer[user[u]] = u /\ user[u] \in Fds
          BY <3>2, <5>1 DEF TimerPerConnection, LoopType
        <5>3. user[u] # f
          BY <5>1, <5>2
        <5>4. QED
          BY <2>3, <5>1, <5>2, <5>3
      <4>3. QED
        BY <4>1, <4>2
    <3>3. timer'[f] \in live' /\ user'[timer'[f]] = f
      BY <2>1, <2>3
    <3>4. QED
      BY <1>1, <3>1, <3>2, <3>3 DEF TimerPerConnection
  <2>8. QED
    BY <2>4, <2>5, <2>6, <2>7
<1>6. QED
  BY <1>4, <1>5

\* cb_func keeps the types and what epoll reports right.
LEMMA ClosedTypes ==
    ASSUME ServerInv, NEW S \in SUBSET Fds, CbFunc(S)
    PROVE  /\ open' = open \ S /\ open' \subseteq Fds /\ input' \in [Fds -> 0..MaxInput]
           /\ fin' \in [Fds -> BOOLEAN]
           /\ ready' \subseteq ready /\ ready' \intersect Fds \subseteq open'
<1>1. 0 \in 0..MaxInput
  BY Numbers
<1>2. fin' \in [Fds -> BOOLEAN]
  BY Zenon DEF CbFunc, ServerInv, LoopType
<1>3. QED
  BY <1>1, <1>2 DEF CbFunc, ServerInv, LoopType, Reported

\* The client has closed: so does the server, and deletes the timer.
LEMMA ClosedServerInv == ASSUME ServerInv, NEW f \in Fds, RecvClosed(f) PROVE ServerInv'
<1> USE Numbers DEF ServerInv
<1> DEFINE t == timer[f]
<1>1. /\ mpc = "batch" /\ f \in events /\ events' = events \ {f} /\ CbFunc({f})
      /\ UNCHANGED <<backlog, alarm, pending, pipe, mpc, timeout, stop_server, timer>>
  BY DEF RecvClosed, Handling
<1>2. f \in open /\ t \in live /\ t \in Timers /\ user[t] = f
  BY <1>1 DEF TimerPerConnection, LoopType
<1>3. /\ live' = live \ {t} /\ left' = [left EXCEPT ![t] = 0]
      /\ user' = [user EXCEPT ![t] = Bad] /\ container' = container
  BY <1>2 DEF RecvClosed
<1>4. /\ open' = open \ {f} /\ open' \subseteq Fds /\ input' \in [Fds -> 0..MaxInput]
      /\ fin' \in [Fds -> BOOLEAN] /\ ready' \subseteq ready /\ ready' \intersect Fds \subseteq open'
  BY <1>1, ClosedTypes
<1>5. LoopType'
  <2>1. 0 \in 0..Timeout
    OBVIOUS
  <2>2. left' \in [Timers -> 0..Timeout] /\ user' \in [Timers -> Fds \union {Bad}]
    BY <1>3, <2>1 DEF LoopType
  <2>3. QED
    BY <1>1, <1>3, <1>4, <2>2 DEF LoopType
<1>6. FreeTimers' /\ Reported'
  BY <1>1, <1>2, <1>3, <1>4 DEF LoopType, FreeTimers, Reported
<1>7. TimerPerConnection'
  <2>1. ASSUME NEW g \in open'
        PROVE  timer'[g] \in live' /\ user'[timer'[g]] = g
    <3>1. g \in open /\ g # f /\ timer[g] \in live /\ timer[g] \in Timers /\ user[timer[g]] = g
      BY <1>4 DEF TimerPerConnection, LoopType
    <3>2. timer[g] # t
      BY <1>2, <3>1
    <3>3. QED
      BY <1>1, <1>3, <3>1, <3>2 DEF LoopType
  <2>2. ASSUME NEW u \in live', user'[u] # Bad
        PROVE  user'[u] \in open' /\ timer'[user'[u]] = u
    <3>1. u \in live /\ u # t /\ user'[u] = user[u]
      BY <1>3 DEF LoopType
    <3>2. user[u] \in open /\ timer[user[u]] = u
      BY <2>2, <3>1 DEF TimerPerConnection
    <3>3. QED
      BY <1>1, <1>4, <3>1, <3>2
  <2>3. events' \intersect Fds \subseteq open'
    BY <1>1, <1>4 DEF TimerPerConnection
  <2>4. QED
    BY <2>1, <2>2, <2>3 DEF TimerPerConnection
<1>8. QED
  BY <1>5, <1>6, <1>7

\* tick: connections are closed and their timers are deleted, in either container.
LEMMA TickServerInv == ASSUME ServerInv, TimerHandler PROVE ServerInv'
<1> USE Numbers DEF ServerInv
<1>1. /\ events = {} /\ timeout' = FALSE /\ mpc' = "wait" /\ alarm' = TimeSlot
      /\ UNCHANGED <<backlog, pending, pipe, events, stop_server, timer>>
  BY DEF TimerHandler
<1>2. PICK gone \in SUBSET Timers : Expire(gone)
  BY FoundTimers DEF TimerHandler, Tick, TickList, TickWheel
<1> DEFINE S == {user[t] : t \in gone} \ {Bad}
<1>3. /\ live' = live \ gone /\ user' = [t \in Timers |-> IF t \in gone THEN Bad ELSE user[t]]
      /\ left' = [t \in Timers |-> IF t \in gone THEN 0 ELSE left[t]]
      /\ CbFunc(S) /\ container' = container
  BY <1>2 DEF Expire
<1>4. S \in SUBSET Fds
  BY DEF LoopType
<1>5. /\ open' = open \ S /\ open' \subseteq Fds /\ input' \in [Fds -> 0..MaxInput]
      /\ fin' \in [Fds -> BOOLEAN] /\ ready' \subseteq ready /\ ready' \intersect Fds \subseteq open'
  BY ONLY ServerInv, <1>3, <1>4, ClosedTypes
<1>6. LoopType'
  <2>1. 0 \in 0..Timeout /\ TimeSlot \in 0..TimeSlot
    OBVIOUS
  <2>2. left' \in [Timers -> 0..Timeout] /\ user' \in [Timers -> Fds \union {Bad}]
    BY <1>3, <2>1 DEF LoopType
  <2>3. QED
    BY <1>1, <1>3, <1>5, <2>1, <2>2 DEF LoopType
<1>7. FreeTimers' /\ Reported'
  BY <1>1, <1>3, <1>5 DEF LoopType, FreeTimers, Reported
<1>8. TimerPerConnection'
  <2>1. ASSUME NEW g \in open'
        PROVE  timer'[g] \in live' /\ user'[timer'[g]] = g
    <3>1. g \in open /\ g \notin S /\ g # Bad
      BY <1>5 DEF LoopType
    <3>2. timer[g] \in live /\ timer[g] \in Timers /\ user[timer[g]] = g
      BY <3>1 DEF TimerPerConnection, LoopType
    <3>3. timer[g] \notin gone
      BY <3>1, <3>2
    <3>4. QED
      BY <1>1, <1>3, <3>2, <3>3
  <2>2. ASSUME NEW u \in live', user'[u] # Bad
        PROVE  user'[u] \in open' /\ timer'[user'[u]] = u
    <3>1. u \in live /\ u \in Timers /\ u \notin gone /\ user'[u] = user[u]
      BY <1>3 DEF LoopType
    <3>2. user[u] \in open /\ timer[user[u]] = u
      BY <2>2, <3>1 DEF TimerPerConnection
    <3>3. user[u] \notin S
      <4>1. ASSUME NEW v \in gone, user[v] = user[u]
            PROVE  FALSE
        <5>1. v \in live
          BY <2>2, <3>1, <4>1 DEF FreeTimers
        <5>2. timer[user[v]] = v
          BY <2>2, <3>1, <4>1, <5>1 DEF TimerPerConnection
        <5>3. QED
          BY <3>1, <3>2, <4>1, <5>2
      <4>2. QED
        BY <4>1
    <3>4. QED
      BY <1>1, <1>5, <3>1, <3>2, <3>3
  <2>3. QED
    BY <1>1, <2>1, <2>2 DEF TimerPerConnection
<1>9. QED
  BY <1>6, <1>7, <1>8

LEMMA NextServerInv == ServerInv /\ [Next]_vars => ServerInv'
<1> SUFFICES ASSUME ServerInv, [Next]_vars
             PROVE  ServerInv'
    OBVIOUS
<1>1. CASE UNCHANGED vars
  BY <1>1 DEF ServerInv, LoopType, FreeTimers, Reported, TimerPerConnection, vars, kernel, timers
<1>2. CASE Next
  BY <1>2, OutsideServerInv, LoopServerInv, AcceptServerInv, AcceptFailsServerInv, GoneServerInv,
     RecvServerInv, ClosedServerInv, TickServerInv
     DEF Next, Clients, Loop, AcceptCrashes, Stopped, Signals
<1>3. QED
  BY <1>1, <1>2

THEOREM ServerInvariant == Spec => []ServerInv
<1>1. Init => ServerInv
  BY InitServerInv
<1>2. ServerInv /\ [Next]_vars => ServerInv'
  BY NextServerInv
<1>3. QED
  BY <1>1, <1>2, PTL DEF Spec

\* An open connection has one timer, to which users[fd].timer points, whatever was closed,
\* expired, accepted and adjusted before, in the list and on the wheel; so the pointer to a
\* timer that was freed is never used.
THEOREM TimersBelong == Spec => []TimerPerConnection
  BY ServerInvariant, PTL DEF ServerInv

-----------------------------------------------------------------------------
(* The alarm, relative to ServerInv.                                       *)

Has(sig) == \E i \in DOMAIN pipe : pipe[i] = sig
Seen == "pipe" \in ready \union events

IsSet == alarm > 0
IsRaised == "ALRM" \in pending
IsPiped == Has("ALRM") /\ Seen
IsNoted == timeout

\* One of the four, and no two.
OneAlarm == /\ IsSet \/ IsRaised \/ IsPiped \/ IsNoted
            /\ IsSet => ~IsRaised /\ ~IsPiped /\ ~IsNoted
            /\ IsRaised => ~IsPiped /\ ~IsNoted
            /\ IsPiped => ~IsNoted

\* A signal that finds the pipe full is lost: the alarm that is in it must be seen.
AlarmInv == PipeSeen /\ (Running /\ ~Ending => OneAlarm)

LEMMA OneAlarmCounted ==
    ASSUME OneAlarm
    PROVE  Cardinality({x \in {"set"} : alarm > 0}
                       \union {x \in {"raised"} : "ALRM" \in pending}
                       \union {x \in {"piped"} : /\ \E i \in DOMAIN pipe : pipe[i] = "ALRM"
                                                 /\ "pipe" \in ready \union events}
                       \union {x \in {"noted"} : timeout}) = 1
<1> DEFINE S == {x \in {"set"} : alarm > 0}
                \union {x \in {"raised"} : "ALRM" \in pending}
                \union {x \in {"piped"} : /\ \E i \in DOMAIN pipe : pipe[i] = "ALRM"
                                          /\ "pipe" \in ready \union events}
                \union {x \in {"noted"} : timeout}
<1>1. \A x : x \in S <=> \/ x = "set" /\ IsSet
                         \/ x = "raised" /\ IsRaised
                         \/ x = "piped" /\ IsPiped
                         \/ x = "noted" /\ IsNoted
  BY Zenon DEF IsSet, IsRaised, IsPiped, IsNoted, Has, Seen
<1> HIDE DEF S
<1>2. \E x : S = {x}
  <2>1. CASE IsSet
    <3>1. S = {"set"}
      BY <1>1, <2>1 DEF OneAlarm
    <3>2. QED
      BY <3>1
  <2>2. CASE IsRaised
    <3>1. S = {"raised"}
      BY <1>1, <2>2 DEF OneAlarm
    <3>2. QED
      BY <3>1
  <2>3. CASE IsPiped
    <3>1. S = {"piped"}
      BY <1>1, <2>3 DEF OneAlarm
    <3>2. QED
      BY <3>1
  <2>4. CASE IsNoted
    <3>1. S = {"noted"}
      BY <1>1, <2>4 DEF OneAlarm
    <3>2. QED
      BY <3>1
  <2>5. QED
    BY <2>1, <2>2, <2>3, <2>4 DEF OneAlarm
<1>3. Cardinality(S) = 1
  BY <1>2, FS_Singleton
<1>4. QED
  BY <1>3 DEF S

LEMMA InitAlarmInv == Init => AlarmInv
<1> SUFFICES ASSUME Init
             PROVE  AlarmInv
    OBVIOUS
<1>1. pipe = << >> /\ alarm = TimeSlot /\ pending = {} /\ timeout = FALSE
  BY DEF Init
<1>2. IsSet /\ ~IsRaised /\ ~IsPiped
  BY <1>1, Numbers DEF IsSet, IsRaised, IsPiped, Has
<1>3. ~IsNoted
  BY Zenon, <1>1 DEF IsNoted
<1>4. QED
  BY <1>1, <1>2, <1>3 DEF AlarmInv, PipeSeen, OneAlarm

\* Steps that are not about the alarm.
LEMMA SameAlarm ==
    ASSUME AlarmInv, UNCHANGED <<alarm, pending, pipe, timeout, stop_server>>,
           Running' => Running, Seen' <=> Seen
    PROVE  AlarmInv'
<1>1. (IsSet' <=> IsSet) /\ (IsRaised' <=> IsRaised)
  BY DEF IsSet, IsRaised
<1>2. IsNoted' <=> IsNoted
  BY Zenon DEF IsNoted
<1>3. IsPiped' <=> IsPiped
  BY DEF IsPiped, Has
<1>4. Ending' <=> Ending
  BY DEF Ending
<1>5. PipeSeen'
  BY DEF AlarmInv, PipeSeen, Seen
<1>6. QED
  BY <1>1, <1>2, <1>3, <1>4, <1>5 DEF AlarmInv, OneAlarm

LEMMA OtherAlarm ==
    ASSUME ServerInv, AlarmInv,
           \/ Connect \/ EpollWait \/ NextRound \/ AcceptFails
           \/ \E f \in Fds : \/ Send(f) \/ HangUp(f) \/ Accept(f) \/ RecvAgain(f)
                             \/ RecvData(f) \/ WheelRecvData(f) \/ RecvClosed(f)
    PROVE  AlarmInv'
<1> USE Numbers
<1>1. UNCHANGED <<alarm, pending, pipe, timeout, stop_server>>
  BY DEF Connect, Send, HangUp, EpollWait, NextRound, Accept, AcceptFails, RecvAgain, RecvData,
         WheelRecvData, Recv, RecvClosed, server, kernel
<1>2. Running' => Running
  BY DEF Connect, Send, HangUp, EpollWait, NextRound, Accept, AcceptFails, RecvAgain, RecvData,
         WheelRecvData, Recv, RecvClosed, Handling, server, Running
<1>3. Seen' <=> Seen
  <2>1. CASE Connect \/ \E f \in Fds : Send(f) \/ HangUp(f)
    BY <2>1 DEF Connect, Send, HangUp, server, Seen
  <2>2. CASE EpollWait
    BY <2>2 DEF EpollWait, Seen, ServerInv, Reported
  <2>3. CASE AcceptFails \/ NextRound
    BY <2>3 DEF AcceptFails, NextRound, Handling, kernel, Seen
  <2>4. ASSUME NEW f \in Fds,
               Accept(f) \/ RecvAgain(f) \/ RecvData(f) \/ WheelRecvData(f)
        PROVE  Seen' <=> Seen
    BY <2>4 DEF Accept, RecvAgain, RecvData, WheelRecvData, Recv, Handling, kernel, Seen
  <2>5. ASSUME NEW f \in Fds, RecvClosed(f)
        PROVE  Seen' <=> Seen
    BY <2>5 DEF RecvClosed, CbFunc, Handling, Seen
  <2>6. QED
    BY <2>1, <2>2, <2>3, <2>4, <2>5
<1>4. QED
  BY <1>1, <1>2, <1>3, SameAlarm

\* The alarm goes off.
LEMMA ClockAlarm == ASSUME ServerInv, AlarmInv, Second \/ Terminate PROVE AlarmInv'
<1> USE Numbers
<1>1. UNCHANGED <<pipe, ready, mpc, events, timeout, stop_server>>
  BY DEF Second, Terminate, server
<1>2. /\ IsPiped' <=> IsPiped
      /\ Ending' <=> Ending
      /\ Running' <=> Running
      /\ PipeSeen'
  BY <1>1 DEF IsPiped, Has, Seen, Ending, Running, AlarmInv, PipeSeen
<1>3. IsNoted' <=> IsNoted
  BY Zenon, <1>1 DEF IsNoted
<1>4. alarm \in Nat
  BY DEF ServerInv, LoopType
<1>5. CASE alarm = 1 /\ Second
  <2>1. IsSet /\ ~IsSet' /\ IsRaised'
    BY <1>5 DEF Second, IsSet, IsRaised
  <2>2. QED
    BY <1>2, <1>3, <2>1 DEF AlarmInv, OneAlarm
<1>6. CASE alarm # 1 \/ Terminate
  <2>1. (IsSet' <=> IsSet) /\ (IsRaised' <=> IsRaised)
    BY <1>4, <1>6 DEF Second, Terminate, IsSet, IsRaised
  <2>2. QED
    BY <1>2, <1>3, <2>1 DEF AlarmInv, OneAlarm
<1>7. QED
  BY <1>5, <1>6

\* The handler writes into the pipe, or finds it full.
LEMMA HandlerAlarm ==
    ASSUME ServerInv, AlarmInv, NEW sig \in Signals, SigHandler(sig)
    PROVE  AlarmInv'
<1> USE Numbers
<1>1. /\ sig \in pending /\ pending' = pending \ {sig} /\ ready' = ready \union {"pipe"}
      /\ UNCHANGED <<alarm, mpc, events, timeout, stop_server>>
      /\ pipe' = IF Len(pipe) < PipeSize THEN Append(pipe, sig) ELSE pipe
  BY DEF SigHandler, server
<1>2. pipe \in Seq(Signals)
  BY DEF ServerInv, LoopType
<1>3. Seen'
  BY <1>1 DEF Seen
<1>4. PipeSeen' /\ (IsSet' <=> IsSet) /\ (Running' <=> Running)
  BY <1>1 DEF PipeSeen, IsSet, Running
<1>5. IsNoted' <=> IsNoted
  BY Zenon, <1>1 DEF IsNoted
<1>6. Has("ALRM") => Seen
  <2>1. Has("ALRM") => pipe # << >>
    BY DEF Has
  <2>2. QED
    BY <2>1 DEF AlarmInv, PipeSeen, Seen
<1>7. CASE Len(pipe) < PipeSize
  <2>1. pipe' = Append(pipe, sig)
    BY <1>1, <1>7
  <2>2. \A s \in Signals : Has(s)' <=> Has(s) \/ s = sig
    <3>1. /\ DOMAIN pipe = 1..Len(pipe) /\ Len(pipe) \in Nat
          /\ DOMAIN pipe' = 1..(Len(pipe) + 1)
          /\ pipe'[Len(pipe) + 1] = sig
          /\ \A i \in 1..Len(pipe) : pipe'[i] = pipe[i]
      BY <1>2, <2>1
    <3>2. QED
      BY <3>1 DEF Has
  <2>3. Ending' <=> Ending \/ sig = "TERM"
    BY <1>1, <2>2 DEF Ending, Has, Signals
  <2>4. CASE sig = "TERM"
    BY <1>4, <2>3, <2>4 DEF AlarmInv
  <2>5. CASE sig = "ALRM"
    <3>1. IsRaised /\ ~IsRaised' /\ IsPiped'
      BY <1>1, <1>3, <2>2, <2>5 DEF IsRaised, IsPiped, Signals
    <3>2. QED
      BY <1>4, <1>5, <2>3, <2>5, <3>1 DEF AlarmInv, OneAlarm
  <2>6. QED
    BY <2>4, <2>5 DEF Signals
<1>8. CASE Len(pipe) >= PipeSize
  <2>1. pipe' = pipe
    BY <1>1, <1>2, <1>8
  <2>2. Has("ALRM") \/ Has("TERM")
    <3>1. 1 \in DOMAIN pipe /\ pipe[1] \in Signals
      BY <1>2, <1>8
    <3>2. QED
      BY <3>1 DEF Has, Signals
  <2>3. CASE Ending
    <3>1. Ending'
      BY <1>1, <2>1, <2>3 DEF Ending
    <3>2. QED
      BY <1>4, <3>1 DEF AlarmInv
  <2>4. CASE ~Ending
    <3>1. Has("ALRM") /\ IsPiped /\ IsPiped'
      BY <1>3, <1>6, <2>1, <2>2, <2>4 DEF Ending, Has, IsPiped
    <3>2. Running' => ~IsRaised
      BY <1>4, <2>4, <3>1 DEF AlarmInv, OneAlarm
    <3>3. ~IsRaised => ~IsRaised'
      BY <1>1 DEF IsRaised
    <3>4. QED
      BY <1>4, <1>5, <2>4, <3>1, <3>2, <3>3 DEF AlarmInv, OneAlarm
  <2>5. QED
    BY <2>3, <2>4
<1>9. QED
  BY <1>2, <1>7, <1>8

\* The loop reads the pipe.
LEMMA NotedAlarm == ASSUME ServerInv, AlarmInv, HandleSignals PROVE AlarmInv'
<1>1. /\ "pipe" \in events /\ pipe' = << >> /\ UNCHANGED <<alarm, pending, mpc>>
      /\ timeout' = (timeout \/ Has("ALRM"))
      /\ stop_server' = (stop_server \/ Has("TERM"))
  BY Zenon DEF HandleSignals, Handling, Has
<1>2. PipeSeen' /\ ~Has("ALRM")' /\ ~Has("TERM")'
  BY <1>1 DEF PipeSeen, Has
<1>3. (IsSet' <=> IsSet) /\ (IsRaised' <=> IsRaised) /\ (Running' <=> Running) /\ Seen
  BY <1>1 DEF IsSet, IsRaised, Running, Seen
<1>4. IsNoted' <=> (IsNoted \/ Has("ALRM"))
  BY Zenon, <1>1 DEF IsNoted
<1>5. Ending' <=> (stop_server \/ Has("TERM"))
  BY Zenon, <1>1, <1>2 DEF Ending, Has
<1>6. Ending' <=> Ending
  BY <1>5 DEF Ending, Has
<1>7. ~IsPiped' /\ (IsPiped <=> Has("ALRM"))
  BY <1>2, <1>3 DEF IsPiped
<1>8. QED
  BY <1>2, <1>3, <1>4, <1>6, <1>7 DEF AlarmInv, OneAlarm

\* timer_handler sets the next alarm.
LEMMA TickAlarm == ASSUME ServerInv, AlarmInv, TimerHandler PROVE AlarmInv'
<1> USE Numbers
<1>1. /\ timeout /\ timeout' = FALSE /\ alarm' = TimeSlot /\ mpc = "batch" /\ mpc' = "wait"
      /\ UNCHANGED <<pending, pipe, events, stop_server>>
  BY DEF TimerHandler
<1>2. Seen' <=> Seen
  <2>1. PICK gone \in SUBSET Timers : Expire(gone)
    BY FoundTimers DEF TimerHandler, Tick, TickList, TickWheel
  <2>2. ready' = ready \ ({user[t] : t \in gone} \ {Bad})
    BY <2>1 DEF Expire, CbFunc
  <2>3. "pipe" \notin {user[t] : t \in gone} \ {Bad}
    BY DEF ServerInv, LoopType
  <2>4. QED
    BY <1>1, <2>2, <2>3 DEF Seen
<1>3. IsSet' /\ (IsRaised' <=> IsRaised) /\ (IsPiped' <=> IsPiped) /\ (Ending' <=> Ending)
      /\ Running
  BY <1>1, <1>2 DEF IsSet, IsRaised, IsPiped, Has, Ending, Running
<1>4. IsNoted /\ ~IsNoted'
  BY Zenon, <1>1 DEF IsNoted
<1>5. PipeSeen'
  BY <1>1, <1>2 DEF AlarmInv, PipeSeen, Seen
<1>6. QED
  BY <1>3, <1>4, <1>5 DEF AlarmInv, OneAlarm

LEMMA GoneAlarm == ASSUME Gone PROVE AlarmInv'
  BY DEF Gone, AlarmInv, PipeSeen, Running

LEMMA NextAlarmInv == ServerInv /\ AlarmInv /\ [Next]_vars => AlarmInv'
<1> SUFFICES ASSUME ServerInv, AlarmInv, [Next]_vars
             PROVE  AlarmInv'
    OBVIOUS
<1>1. CASE UNCHANGED vars
  BY <1>1, SameAlarm DEF vars, kernel, Running, Seen
<1>2. CASE Next
  BY <1>2, OtherAlarm, ClockAlarm, HandlerAlarm, NotedAlarm, TickAlarm, GoneAlarm
     DEF Next, Clients, Loop, AcceptCrashes, Stopped, Signals
<1>3. QED
  BY <1>1, <1>2

\* Until SIGTERM has reached the pipe or the loop, the alarm that drives the ticks is in exactly
\* one place - set, raised, in the pipe and seen by epoll, or noted - although the handler drops
\* a signal that finds the pipe full.
THEOREM AlarmNeverLost == Spec => []AlarmAlive
<1>1. Init => AlarmInv
  BY InitAlarmInv
<1>2. ServerInv /\ AlarmInv /\ [Next]_vars => AlarmInv'
  BY NextAlarmInv
<1>3. AlarmInv => AlarmAlive
  BY OneAlarmCounted DEF AlarmInv, AlarmAlive
<1>4. QED
  BY <1>1, <1>2, <1>3, ServerInvariant, PTL DEF Spec

-----------------------------------------------------------------------------
(* Chains of nodes.                                                        *)

\* A set of numbers has a least one.
LEMMA LeastExists ==
  ASSUME NEW S \in SUBSET Nat, S # {}
  PROVE  \E m \in S : \A n \in S : m <= n
<1>1. IsWellFoundedOn(OpToRel(<, Nat), Nat)
  BY NatLessThanWellFounded
<1>2. PICK m \in S : \A n \in S : <<n, m>> \notin OpToRel(<, Nat)
  BY <1>1, WFMin
<1>3. \A n \in S : ~(n < m)
  BY <1>2 DEF OpToRel
<1> QED
  BY <1>3

\* What holds at the end of a chain, and before each node after which it holds, holds at
\* every node.
LEMMA Backwards ==
  ASSUME NEW n \in Nat, NEW G, \A i \in 1..n : (i = n \/ i + 1 \in G) => i \in G
  PROVE  \A i \in 1..n : i \in G
<1> DEFINE D == {d \in 0..(n - 1) : n - d \notin G}
<1>1. SUFFICES ASSUME D # {}
               PROVE  FALSE
  <2> SUFFICES ASSUME D = {}, NEW i \in 1..n
               PROVE  i \in G
    OBVIOUS
  <2>1. n - i \in 0..(n - 1) /\ n - (n - i) = i
    OBVIOUS
  <2> QED
    BY <2>1
<1>2. D \in SUBSET Nat
  OBVIOUS
<1>3. PICK d \in D : \A e \in D : d <= e
  BY <1>1, <1>2, LeastExists
<1>4. n - d \in 1..n /\ n - d \notin G /\ d \in 0..(n - 1)
  OBVIOUS
<1>5. n - d # n /\ (n - d) + 1 \notin G
  BY <1>4
<1>6. d - 1 \in 0..(n - 1) /\ n - (d - 1) = (n - d) + 1
  BY <1>4, <1>5
<1>7. d - 1 \in D
  BY <1>5, <1>6
<1> QED
  BY <1>3, <1>4, <1>7

\* The n nodes of s are linked both ways, from h on.
Linked(h, prev, next, s, n) ==
    /\ n \in Nat /\ s \in [1..n -> Timers]
    /\ \A i, j \in 1..n : s[i] = s[j] => i = j
    /\ h = IF n = 0 THEN Null ELSE s[1]
    /\ \A i \in 1..n : /\ next[s[i]] = IF i = n THEN Null ELSE s[i + 1]
                       /\ prev[s[i]] = IF i = 1 THEN Null ELSE s[i - 1]

Nodes(s, n) == {s[i] : i \in 1..n}
Without(s, n, k) == [i \in 1..(n - 1) |-> IF i < k THEN s[i] ELSE s[i + 1]]
With(s, n, k, t) == [i \in 1..(n + 1) |-> IF i <= k THEN s[i] ELSE IF i = k + 1 THEN t ELSE s[i - 1]]

\* Unlinking the k-th node.
LEMMA Removed ==
  ASSUME NEW h, NEW prev, NEW next, NEW s, NEW n, Linked(h, prev, next, s, n), NEW k \in 1..n,
         NEW h2, NEW prev2, NEW next2,
         h2 = IF k = 1 THEN next[s[1]] ELSE h,
         \A u \in Timers \ {s[k]} :
            next2[u] = IF k # 1 /\ u = s[k - 1] THEN next[s[k]] ELSE next[u],
         \A u \in Timers \ {s[k]} :
            prev2[u] = IF k # n /\ u = s[k + 1] THEN prev[s[k]] ELSE prev[u]
  PROVE  /\ Linked(h2, prev2, next2, Without(s, n, k), n - 1)
         /\ Nodes(Without(s, n, k), n - 1) = Nodes(s, n) \ {s[k]}
<1> DEFINE r == Without(s, n, k)
           at(i) == IF i < k THEN i ELSE i + 1
<1>1. /\ n \in Nat /\ s \in [1..n -> Timers] /\ n - 1 \in Nat /\ k \in Nat
      /\ \A i, j \in 1..n : s[i] = s[j] => i = j
      /\ h = s[1]
      /\ \A i \in 1..n : /\ next[s[i]] = IF i = n THEN Null ELSE s[i + 1]
                         /\ prev[s[i]] = IF i = 1 THEN Null ELSE s[i - 1]
  BY DEF Linked
<1>2. \A i \in 1..(n - 1) : r[i] = s[at(i)] /\ at(i) \in 1..n /\ at(i) # k
  BY <1>1 DEF Without
<1>3. r \in [1..(n - 1) -> Timers]
  BY <1>1 DEF Without
<1>4. \A i, j \in 1..(n - 1) : r[i] = r[j] => i = j
  <2> SUFFICES ASSUME NEW i \in 1..(n - 1), NEW j \in 1..(n - 1), r[i] = r[j]
               PROVE  i = j
    OBVIOUS
  <2>1. at(i) = at(j)
    <3>1. s[at(i)] = s[at(j)] /\ at(i) \in 1..n /\ at(j) \in 1..n
      BY <1>2
    <3> HIDE DEF at
    <3> QED
      BY <1>1, <3>1
  <2> QED
    BY <1>1, <2>1
<1> HIDE DEF r
<1>5. h2 = IF n - 1 = 0 THEN Null ELSE r[1]
  <2>1. CASE n - 1 = 0
    BY <1>1, <2>1
  <2>2. CASE n - 1 # 0
    <3>1. 1 \in 1..(n - 1) /\ r[1] = s[at(1)]
      BY <1>1, <1>2, <2>2
    <3> QED
      BY <1>1, <2>2, <3>1
  <2> QED
    BY <2>1, <2>2
<1>6. ASSUME NEW i \in 1..(n - 1)
      PROVE  next2[r[i]] = IF i = n - 1 THEN Null ELSE r[i + 1]
  <2>1. r[i] = s[at(i)] /\ at(i) \in 1..n /\ at(i) # k /\ r[i] \in Timers \ {s[k]}
    BY <1>1, <1>2
  <2>2. CASE at(i) = k - 1
    <3>1. k # 1 /\ r[i] = s[k - 1]
      BY <2>1, <2>2
    <3>2. next2[r[i]] = next[s[k]]
      BY <2>1, <3>1
    <3>3. i = k - 1
      BY <1>1, <2>2
    <3>4. i # n - 1 => r[i + 1] = s[k + 1]
      BY <1>1, <1>2, <3>3
    <3> QED
      BY <1>1, <3>2, <3>3, <3>4
  <2>3. CASE at(i) # k - 1
    <3>1. ~(k # 1 /\ r[i] = s[k - 1])
      BY <1>1, <2>1, <2>3
    <3>2. next2[r[i]] = next[s[at(i)]]
      BY <2>1, <3>1
    <3>3. at(i) = n <=> i = n - 1
      BY <1>1, <2>3
    <3>4. i # n - 1 => r[i + 1] = s[at(i) + 1]
      BY <1>1, <1>2, <2>3
    <3> QED
      BY <1>1, <2>1, <3>2, <3>3, <3>4
  <2> QED
    BY <2>2, <2>3
<1>7. ASSUME NEW i \in 1..(n - 1)
      PROVE  prev2[r[i]] = IF i = 1 THEN Null ELSE r[i - 1]
  <2>1. r[i] = s[at(i)] /\ at(i) \in 1..n /\ at(i) # k /\ r[i] \in Timers \ {s[k]}
    BY <1>1, <1>2
  <2>2. CASE at(i) = k + 1
    <3>1. k # n /\ r[i] = s[k + 1]
      BY <1>1, <2>1, <2>2
    <3>2. prev2[r[i]] = prev[s[k]]
      BY <2>1, <3>1
    <3>3. i = k
      BY <1>1, <2>2
    <3>4. i # 1 => r[i - 1] = s[k - 1]
      BY <1>1, <1>2, <3>3
    <3> QED
      BY <1>1, <3>2, <3>3, <3>4
  <2>3. CASE at(i) # k + 1
    <3>1. ~(k # n /\ r[i] = s[k + 1])
      BY <1>1, <2>1, <2>3
    <3>2. prev2[r[i]] = prev[s[at(i)]]
      BY <2>1, <3>1
    <3>3. at(i) = 1 <=> i = 1
      BY <1>1, <2>3
    <3>4. i # 1 => r[i - 1] = s[at(i) - 1]
      BY <1>1, <1>2, <2>3
    <3> QED
      BY <1>1, <2>1, <3>2, <3>3, <3>4
  <2> QED
    BY <2>2, <2>3
<1>8. Linked(h2, prev2, next2, r, n - 1)
  BY <1>1, <1>3, <1>4, <1>5, <1>6, <1>7 DEF Linked
<1>9. Nodes(r, n - 1) = Nodes(s, n) \ {s[k]}
  <2>1. ASSUME NEW i \in 1..(n - 1)
        PROVE  r[i] \in Nodes(s, n) \ {s[k]}
    BY <1>1, <1>2 DEF Nodes
  <2>2. ASSUME NEW j \in 1..n, j # k
        PROVE  \E i \in 1..(n - 1) : r[i] = s[j]
    <3>1. CASE j < k
      <4>1. j \in 1..(n - 1) /\ at(j) = j
        BY <1>1, <3>1
      <4> QED
        BY <1>2, <4>1
    <3>2. CASE j > k
      <4>1. j - 1 \in 1..(n - 1) /\ at(j - 1) = j
        BY <1>1, <3>2
      <4> QED
        BY <1>2, <4>1
    <3> QED
      BY <1>1, <2>2, <3>1, <3>2
  <2> QED
    BY <1>1, <2>1, <2>2 DEF Nodes
<1> QED
  BY <1>8, <1>9 DEF r

\* Linking a node behind the k-th, or before the first.
LEMMA Inserted ==
  ASSUME NEW h, NEW prev, NEW next, NEW s, NEW n, Linked(h, prev, next, s, n), NEW k \in 0..n,
         NEW t \in Timers, t \notin Nodes(s, n),
         NEW h2, NEW prev2, NEW next2,
         h2 = IF k = 0 THEN t ELSE h,
         next2[t] = IF k = n THEN Null ELSE s[k + 1],
         prev2[t] = IF k = 0 THEN Null ELSE s[k],
         \A u \in Timers \ {t} : next2[u] = IF k # 0 /\ u = s[k] THEN t ELSE next[u],
         \A u \in Timers \ {t} : prev2[u] = IF k # n /\ u = s[k + 1] THEN t ELSE prev[u]
  PROVE  /\ Linked(h2, prev2, next2, With(s, n, k, t), n + 1)
         /\ Nodes(With(s, n, k, t), n + 1) = Nodes(s, n) \union {t}
<1> DEFINE r == With(s, n, k, t)
           at(i) == IF i <= k THEN i ELSE i - 1
<1>1. /\ n \in Nat /\ s \in [1..n -> Timers] /\ n + 1 \in Nat /\ k \in Nat
      /\ \A i, j \in 1..n : s[i] = s[j] => i = j
      /\ h = IF n = 0 THEN Null ELSE s[1]
      /\ \A i \in 1..n : /\ next[s[i]] = IF i = n THEN Null ELSE s[i + 1]
                         /\ prev[s[i]] = IF i = 1 THEN Null ELSE s[i - 1]
      /\ \A i \in 1..n : s[i] # t
  BY DEF Linked, Nodes
<1>2. /\ \A i \in 1..(n + 1) : i # k + 1 => r[i] = s[at(i)] /\ at(i) \in 1..n
      /\ k + 1 \in 1..(n + 1) /\ r[k + 1] = t
  BY <1>1 DEF With
<1>3. r \in [1..(n + 1) -> Timers]
  BY <1>1 DEF With
<1> HIDE DEF r
<1>4. ASSUME NEW i \in 1..(n + 1), NEW j \in 1..(n + 1), r[i] = r[j]
      PROVE  i = j
  <2>1. \A m \in 1..(n + 1) : m # k + 1 => r[m] # r[k + 1]
    BY <1>1, <1>2
  <2>2. CASE i = k + 1 \/ j = k + 1
    BY <1>4, <2>1, <2>2
  <2>3. CASE i # k + 1 /\ j # k + 1
    <3>1. at(i) = at(j)
      BY <1>1, <1>2, <1>4, <2>3
    <3> QED
      BY <1>1, <2>3, <3>1
  <2> QED
    BY <2>2, <2>3
<1>5. h2 = r[1]
  BY <1>1, <1>2
<1>6. ASSUME NEW i \in 1..(n + 1)
      PROVE  next2[r[i]] = IF i = n + 1 THEN Null ELSE r[i + 1]
  <2>1. CASE i = k + 1
    <3>1. i # n + 1 => r[i + 1] = s[k + 1]
      BY <1>1, <1>2, <2>1
    <3> QED
      BY <1>1, <1>2, <2>1, <3>1
  <2>2. CASE i # k + 1
    <3>1. r[i] = s[at(i)] /\ at(i) \in 1..n /\ r[i] \in Timers \ {t}
      BY <1>1, <1>2, <2>2
    <3>2. CASE i = k
      BY <1>1, <1>2, <3>1, <3>2
    <3>3. CASE i # k
      <4>1. ~(k # 0 /\ r[i] = s[k])
        BY <1>1, <2>2, <3>1, <3>3
      <4>2. next2[r[i]] = next[s[at(i)]]
        BY <3>1, <4>1
      <4>3. at(i) = n <=> i = n + 1
        BY <1>1, <2>2, <3>3
      <4>4. i # n + 1 => r[i + 1] = s[at(i) + 1]
        BY <1>1, <1>2, <2>2, <3>3
      <4> QED
        BY <1>1, <3>1, <4>2, <4>3, <4>4
    <3> QED
      BY <3>2, <3>3
  <2> QED
    BY <2>1, <2>2
<1>7. ASSUME NEW i \in 1..(n + 1)
      PROVE  prev2[r[i]] = IF i = 1 THEN Null ELSE r[i - 1]
  <2>1. CASE i = k + 1
    <3>1. i # 1 => r[i - 1] = s[k]
      BY <1>1, <1>2, <2>1
    <3> QED
      BY <1>1, <1>2, <2>1, <3>1
  <2>2. CASE i # k + 1
    <3>1. r[i] = s[at(i)] /\ at(i) \in 1..n /\ r[i] \in Timers \ {t}
      BY <1>1, <1>2, <2>2
    <3>2. CASE i = k + 2
      BY <1>1, <1>2, <3>1, <3>2
    <3>3. CASE i # k + 2
      <4>1. ~(k # n /\ r[i] = s[k + 1])
        BY <1>1, <2>2, <3>1, <3>3
      <4>2. prev2[r[i]] = prev[s[at(i)]]
        BY <3>1, <4>1
      <4>3. at(i) = 1 <=> i = 1
        BY <1>1, <2>2, <3>3
      <4>4. i # 1 => r[i - 1] = s[at(i) - 1]
        BY <1>1, <1>2, <2>2, <3>3
      <4> QED
        BY <1>1, <3>1, <4>2, <4>3, <4>4
    <3> QED
      BY <3>2, <3>3
  <2> QED
    BY <2>1, <2>2
<1>8. Linked(h2, prev2, next2, r, n + 1)
  BY <1>1, <1>3, <1>4, <1>5, <1>6, <1>7 DEF Linked
<1>9. Nodes(r, n + 1) = Nodes(s, n) \union {t}
  <2>1. ASSUME NEW i \in 1..(n + 1)
        PROVE  r[i] \in Nodes(s, n) \union {t}
    BY <1>1, <1>2 DEF Nodes
  <2>2. ASSUME NEW j \in 1..n
        PROVE  \E i \in 1..(n + 1) : r[i] = s[j]
    <3>1. CASE j <= k
      <4>1. j \in 1..(n + 1) /\ at(j) = j /\ j # k + 1
        BY <1>1, <3>1
      <4> QED
        BY <1>2, <4>1
    <3>2. CASE j > k
      <4>1. j + 1 \in 1..(n + 1) /\ at(j + 1) = j /\ j + 1 # k + 1
        BY <1>1, <3>2
      <4> QED
        BY <1>2, <4>1
    <3> QED
      BY <1>1, <3>1, <3>2
  <2>3. Nodes(r, n + 1) \subseteq Nodes(s, n) \union {t}
    BY ONLY <2>1 DEF Nodes
  <2>4. t \in Nodes(r, n + 1)
    BY ONLY <1>2 DEF Nodes
  <2>5. Nodes(s, n) \subseteq Nodes(r, n + 1)
    BY ONLY <2>2 DEF Nodes
  <2> QED
    BY ONLY <2>3, <2>4, <2>5
<1> QED
  BY <1>8, <1>9 DEF r

-----------------------------------------------------------------------------
(* The sorted timer list.                                                  *)

\* The nodes of a list are s, in ascending order of x; the others lead nowhere.
Sorted(s, n, x) == \A i, j \in 1..n : i <= j => x[s[i]] <= x[s[j]]

ListOf(L, x, s, n) ==
    /\ L \in ListType
    /\ Linked(L.head, L.prev, L.next, s, n)
    /\ n # 0 => L.tail = s[n]
    /\ \A t \in Timers : t \notin Nodes(s, n) => L.next[t] = Null
    /\ Sorted(s, n, x)

ListInv(L, x, S) == \E n, s : ListOf(L, x, s, n) /\ S = Nodes(s, n)

LEMMA EmptyListInv == ASSUME NEW x PROVE ListInv(EmptyList, x, {})
<1> DEFINE s == [i \in 1..0 |-> Null]
<1>1. s \in [1..0 -> Timers] /\ 0 \in Nat /\ Nodes(s, 0) = {}
  BY DEF Nodes
<1>2. EmptyList \in ListType
  BY DEF EmptyList, ListType, Pointer
<1>3. ListOf(EmptyList, x, s, 0)
  BY <1>1, <1>2 DEF ListOf, Linked, Sorted, EmptyList
<1> QED
  BY <1>1, <1>3 DEF ListInv

\* The walk of the private add_timer.
IsBefore(next, x, t, f) ==
    f = [n \in Timers |-> IF next[n] = Null \/ x[t] < x[next[n]] THEN n ELSE f[next[n]]]
Before(next, x, t) == CHOOSE f : IsBefore(next, x, t, f)

\* It ends, if every node off the chain leads to one on it, or nowhere.
LEMMA BeforeExists ==
  ASSUME NEW h, NEW prev, NEW next \in [Timers -> Pointer], NEW s, NEW n, Linked(h, prev, next, s, n),
         \A u \in Timers : u \in Nodes(s, n) \/ next[u] \in Nodes(s, n) \union {Null},
         NEW x, NEW t
  PROVE  \E f : IsBefore(next, x, t, f)
<1> DEFINE Ends(u) == next[u] = Null \/ x[t] < x[next[u]]
           stops(i) == {j \in i..n : Ends(s[j])}
           stop(i) == CHOOSE j \in stops(i) : \A k \in stops(i) : j <= k
           pos(u) == CHOOSE i \in 1..n : s[i] = u
           at(u) == s[stop(pos(u))]
           f == [u \in Timers |-> IF u \in Nodes(s, n) THEN at(u)
                                  ELSE IF Ends(u) THEN u ELSE at(next[u])]
<1>1. /\ n \in Nat /\ s \in [1..n -> Timers] /\ \A i, j \in 1..n : s[i] = s[j] => i = j
      /\ \A i \in 1..n : next[s[i]] = IF i = n THEN Null ELSE s[i + 1]
  BY DEF Linked
<1>2. ASSUME NEW i \in 1..n
      PROVE  pos(s[i]) = i
  BY <1>1
<1>3. ASSUME NEW i \in 1..n
      PROVE  Ends(s[i]) => stop(i) = i
  BY <1>1
<1>4. ASSUME NEW i \in 1..n, ~Ends(s[i])
      PROVE  i + 1 \in 1..n /\ next[s[i]] = s[i + 1] /\ stop(i) = stop(i + 1)
  <2>1. i # n /\ next[s[i]] = s[i + 1] /\ i + 1 \in 1..n
    BY <1>1, <1>4
  <2>2. stops(i) = stops(i + 1)
    BY <1>1, <1>4
  <2> QED
    BY <2>1, <2>2
<1> HIDE DEF Ends, stop, pos
<1>5. ASSUME NEW u \in Timers
      PROVE  f[u] = IF Ends(u) THEN u ELSE f[next[u]]
  <2>1. CASE u \in Nodes(s, n)
    <3>1. PICK i \in 1..n : u = s[i]
      BY <2>1 DEF Nodes
    <3>2. f[u] = s[stop(i)]
      BY <1>2, <2>1, <3>1
    <3>3. CASE Ends(u)
      BY <1>3, <3>1, <3>2, <3>3
    <3>4. CASE ~Ends(u)
      <4>1. i + 1 \in 1..n /\ next[u] = s[i + 1] /\ stop(i) = stop(i + 1)
        BY <1>4, <3>1, <3>4
      <4>2. s[i + 1] \in Timers /\ s[i + 1] \in Nodes(s, n)
        BY <1>1, <4>1 DEF Nodes
      <4>3. f[next[u]] = s[stop(i + 1)]
        BY <1>2, <4>1, <4>2
      <4> QED
        BY <3>2, <3>4, <4>1, <4>3
    <3> QED
      BY <3>3, <3>4
  <2>2. CASE u \notin Nodes(s, n)
    <3>1. CASE Ends(u)
      BY <2>2, <3>1
    <3>2. CASE ~Ends(u)
      <4>1. next[u] \in Nodes(s, n) /\ next[u] \in Timers
        BY <1>1, <2>2, <3>2 DEF Ends, Nodes
      <4> QED
        BY <2>2, <3>2, <4>1
    <3> QED
      BY <3>1, <3>2
  <2> QED
    BY <2>1, <2>2
<1>6. f = [u \in Timers |-> IF Ends(u) THEN u ELSE f[next[u]]]
  BY <1>5
<1> QED
  BY <1>6 DEF IsBefore, Ends

\* It stops at the last node whose timer is not later, or the first one.
StopsAt(next, x, t, h, s, n, k) == /\ Before(next, x, t)[h] = s[k]
                                   /\ \A j \in 1..(k - 1) : ~(x[t] < x[s[j + 1]])
                                   /\ k = n \/ x[t] < x[s[k + 1]]

LEMMA BeforeStops ==
  ASSUME NEW h, NEW prev, NEW next \in [Timers -> Pointer], NEW s, NEW n, Linked(h, prev, next, s, n),
         \A u \in Timers : u \in Nodes(s, n) \/ next[u] \in Nodes(s, n) \union {Null},
         NEW x, NEW t, n # 0
  PROVE  \E k \in 1..n : StopsAt(next, x, t, h, s, n, k)
<1> DEFINE f == Before(next, x, t)
           Stops(i, k) == /\ f[s[i]] = s[k]
                          /\ \A j \in i..(k - 1) : ~(x[t] < x[s[j + 1]])
                          /\ k = n \/ x[t] < x[s[k + 1]]
           G == {i \in 1..n : \E k \in i..n : Stops(i, k)}
<1>1. /\ n \in Nat /\ s \in [1..n -> Timers] /\ h = s[1] /\ Null \notin Timers
      /\ \A i \in 1..n : next[s[i]] = IF i = n THEN Null ELSE s[i + 1]
  BY TimersAssumption DEF Linked
<1>2. IsBefore(next, x, t, f)
  BY BeforeExists DEF Before
<1> HIDE DEF f
<1>3. \A u \in Timers : f[u] = IF next[u] = Null \/ x[t] < x[next[u]] THEN u ELSE f[next[u]]
  BY <1>2 DEF IsBefore
<1>4. ASSUME NEW i \in 1..n, i = n \/ i + 1 \in G
      PROVE  i \in G
  <2>1. CASE i = n \/ x[t] < x[s[i + 1]]
    <3>1. f[s[i]] = s[i]
      <4>1. s[i] \in Timers /\ next[s[i]] = IF i = n THEN Null ELSE s[i + 1]
        BY <1>1
      <4> QED
        BY <1>3, <2>1, <4>1
    <3>2. Stops(i, i)
      BY <2>1, <3>1
    <3> QED
      BY <1>1, <3>2
  <2>2. CASE i # n /\ ~(x[t] < x[s[i + 1]])
    <3>1. s[i] \in Timers /\ next[s[i]] = s[i + 1] /\ s[i + 1] \in Timers
      BY <1>1, <2>2
    <3>2. f[s[i]] = f[s[i + 1]]
      BY <1>1, <1>3, <2>2, <3>1
    <3>3. PICK k \in (i + 1)..n : Stops(i + 1, k)
      BY <1>4, <2>2
    <3>4. \A j \in i..(k - 1) : j = i \/ j \in (i + 1)..(k - 1)
      OBVIOUS
    <3>5. Stops(i, k)
      BY <2>2, <3>2, <3>3, <3>4
    <3> QED
      BY <1>1, <3>3, <3>5
  <2> QED
    BY <2>1, <2>2
<1>5. 1 \in G
  <2>1. \A i \in 1..n : i \in G
    BY ONLY <1>1, <1>4, Backwards
  <2>2. 1 \in 1..n
    BY <1>1
  <2> QED
    BY <2>1, <2>2
<1> QED
  BY <1>1, <1>5 DEF f, StopsAt

LEMMA SortedWith ==
  ASSUME NEW n \in Nat, NEW s \in [1..n -> Timers], NEW x \in [Timers -> Nat], Sorted(s, n, x),
         NEW k \in 0..n, NEW t \in Timers,
         k # 0 => x[s[k]] <= x[t], k # n => x[t] <= x[s[k + 1]]
  PROVE  Sorted(With(s, n, k, t), n + 1, x)
<1> DEFINE r == With(s, n, k, t)
<1>1. \A i \in 1..(n + 1) : r[i] = IF i <= k THEN s[i] ELSE IF i = k + 1 THEN t ELSE s[i - 1]
  BY DEF With
<1>2. \A i \in 1..n : x[s[i]] \in Nat
  OBVIOUS
<1>3. \A i \in 1..n : (i <= k => x[s[i]] <= x[t]) /\ (i > k => x[t] <= x[s[i]])
  <2> SUFFICES ASSUME NEW i \in 1..n
               PROVE  (i <= k => x[s[i]] <= x[t]) /\ (i > k => x[t] <= x[s[i]])
    OBVIOUS
  <2>1. ASSUME i <= k
        PROVE  x[s[i]] <= x[t]
    <3>1. k \in 1..n /\ x[s[i]] <= x[s[k]] /\ x[s[k]] <= x[t]
      BY <2>1 DEF Sorted
    <3> QED
      BY <1>2, <3>1
  <2>2. ASSUME i > k
        PROVE  x[t] <= x[s[i]]
    <3>1. k + 1 \in 1..n /\ x[s[k + 1]] <= x[s[i]] /\ x[t] <= x[s[k + 1]]
      BY <2>2 DEF Sorted
    <3> QED
      BY <1>2, <3>1
  <2> QED
    BY <2>1, <2>2
<1> HIDE DEF r
<1>4. ASSUME NEW i \in 1..(n + 1), NEW j \in 1..(n + 1), i <= j
      PROVE  x[r[i]] <= x[r[j]]
  <2>1. CASE i = k + 1
    <3>1. r[i] = t
      BY <1>1, <2>1
    <3>2. CASE j = i
      BY <3>1, <3>2
    <3>3. CASE j # i
      <4>1. r[j] = s[j - 1] /\ j - 1 \in 1..n /\ j - 1 > k
        BY <1>1, <1>4, <2>1, <3>3
      <4> QED
        BY <1>3, <3>1, <4>1
    <3> QED
      BY <3>2, <3>3
  <2>2. CASE j = k + 1 /\ i # k + 1
    <3>1. r[j] = t /\ r[i] = s[i] /\ i \in 1..n /\ i <= k
      BY <1>1, <1>4, <2>2
    <3> QED
      BY <1>3, <3>1
  <2>3. CASE j # k + 1 /\ i # k + 1
    <3>1. PICK a \in 1..n, b \in 1..n : a <= b /\ r[i] = s[a] /\ r[j] = s[b]
      <4>1. CASE i <= k /\ j <= k
        <5>1. i \in 1..n /\ j \in 1..n /\ r[i] = s[i] /\ r[j] = s[j]
          BY <1>1, <4>1
        <5> QED
          BY <1>4, <5>1
      <4>2. CASE i <= k /\ j > k
        <5>1. i \in 1..n /\ j - 1 \in 1..n /\ r[i] = s[i] /\ r[j] = s[j - 1] /\ i <= j - 1
          BY <1>1, <2>3, <4>2
        <5> QED
          BY <5>1
      <4>3. CASE i > k /\ j > k
        <5>1. i - 1 \in 1..n /\ j - 1 \in 1..n /\ r[i] = s[i - 1] /\ r[j] = s[j - 1] /\ i - 1 <= j - 1
          BY <1>1, <1>4, <2>3, <4>3
        <5> QED
          BY <5>1
      <4> QED
        BY <1>4, <4>1, <4>2, <4>3
    <3> QED
      BY <3>1 DEF Sorted
  <2> QED
    BY <2>1, <2>2, <2>3
<1> QED
  BY <1>4 DEF Sorted, r

LEMMA SortedWithout ==
  ASSUME NEW n \in Nat, NEW s \in [1..n -> Timers], NEW x, NEW k \in 1..n,
         \A i, j \in 1..n : i # k /\ j # k /\ i <= j => x[s[i]] <= x[s[j]]
  PROVE  Sorted(Without(s, n, k), n - 1, x)
<1> SUFFICES ASSUME NEW i \in 1..(n - 1), NEW j \in 1..(n - 1), i <= j
             PROVE  x[Without(s, n, k)[i]] <= x[Without(s, n, k)[j]]
  BY DEF Sorted
<1> DEFINE at(m) == IF m < k THEN m ELSE m + 1
<1>1. Without(s, n, k)[i] = s[at(i)] /\ Without(s, n, k)[j] = s[at(j)]
  BY DEF Without
<1>2. at(i) \in 1..n /\ at(j) \in 1..n /\ at(i) # k /\ at(j) # k /\ at(i) <= at(j)
  OBVIOUS
<1> QED
  BY <1>1, <1>2

\* Only the order of the times matters.
LEMMA SameOrder ==
  ASSUME NEW L, NEW x, NEW S, ListInv(L, x, S), NEW x2,
         \A t, u \in S : x[t] <= x[u] => x2[t] <= x2[u]
  PROVE  ListInv(L, x2, S)
<1>0. PICK n, s : ListOf(L, x, s, n) /\ S = Nodes(s, n)
  BY DEF ListInv
<1>1. /\ ListOf(L, x, s, n) /\ S = Nodes(s, n)
      /\ n \in Nat /\ s \in [1..n -> Timers]
  BY <1>0 DEF ListOf, Linked
<1>2. \A i \in 1..n : s[i] \in S
  BY <1>1 DEF Nodes
<1>3. Sorted(s, n, x2)
  BY <1>1, <1>2 DEF ListOf, Sorted
<1>4. ListOf(L, x2, s, n)
  BY <1>1, <1>3 DEF ListOf
<1> QED
  BY <1>1, <1>4 DEF ListInv

\* The private add_timer, of a timer that is not before the head.
LEMMA InsertList ==
  ASSUME NEW L \in ListType, NEW s, NEW n, Linked(L.head, L.prev, L.next, s, n), n # 0, L.tail = s[n],
         NEW t \in Timers, t \notin Nodes(s, n), L.next[t] \in Nodes(s, n) \union {Null},
         \A u \in Timers : u \in Nodes(s, n) \/ u = t \/ L.next[u] = Null,
         NEW x, x \in [Timers -> Nat], Sorted(s, n, x), x[s[1]] <= x[t]
  PROVE  ListInv(InsertFromHead(L, x, t), x, Nodes(s, n) \union {t})
<1>1. /\ L.head \in Pointer /\ L.tail \in Pointer
      /\ L.prev \in [Timers -> Pointer] /\ L.next \in [Timers -> Pointer] /\ Null \notin Timers
  BY TimersAssumption DEF ListType
<1>2. /\ n \in Nat /\ s \in [1..n -> Timers] /\ \A i, j \in 1..n : s[i] = s[j] => i = j
      /\ \A i \in 1..n : L.next[s[i]] = IF i = n THEN Null ELSE s[i + 1]
  BY DEF Linked
<1>3a. PICK k \in 1..n : StopsAt(L.next, x, t, L.head, s, n, k)
  <2>1. \A u \in Timers : u \in Nodes(s, n) \/ L.next[u] \in Nodes(s, n) \union {Null}
    OBVIOUS
  <2>2. Linked(L.head, L.prev, L.next, s, n) /\ n # 0
    OBVIOUS
  <2> QED
    BY ONLY <1>1, <2>1, <2>2, BeforeStops
<1>3. /\ Before(L.next, x, t)[L.head] = s[k]
      /\ \A j \in 1..(k - 1) : ~(x[t] < x[s[j + 1]])
      /\ k = n \/ x[t] < x[s[k + 1]]
  BY <1>3a DEF StopsAt
<1> DEFINE p == s[k]
           q == L.next[p]
           linked == [L EXCEPT !.next = [@ EXCEPT ![p] = t, ![t] = q], !.prev[t] = p]
           b == Before(L.next, x, t)[L.head]
           M == IF q = Null THEN [linked EXCEPT !.tail = t] ELSE [linked EXCEPT !.prev[q] = t]
<1>4. InsertFromHead(L, x, t) = M
  <2> DEFINE Insert(z) ==
               LET y == L.next[z]
                   l == [L EXCEPT !.next = [@ EXCEPT ![z] = t, ![t] = y], !.prev[t] = z]
               IN IF y = Null THEN [l EXCEPT !.tail = t] ELSE [l EXCEPT !.prev[y] = t]
  <2>1. InsertFromHead(L, x, t) = Insert(b)
    BY ONLY DEF InsertFromHead, Before, IsBefore
  <2> QED
    BY ONLY <1>3, <2>1
<1>5. /\ p \in Timers /\ p # t /\ p \in Nodes(s, n)
      /\ q = (IF k = n THEN Null ELSE s[k + 1])
      /\ k # n => q \in Timers /\ q # t /\ q # p
      /\ q \in Pointer
  BY <1>2 DEF Nodes, Pointer
<1> HIDE DEF p, q
<1>6. /\ M \in ListType /\ M.head = L.head
      /\ M.next = [L.next EXCEPT ![p] = t, ![t] = q]
      /\ M.prev = IF q = Null THEN [L.prev EXCEPT ![t] = p] ELSE [L.prev EXCEPT ![t] = p, ![q] = t]
      /\ M.tail = IF q = Null THEN t ELSE L.tail
  <2>1. linked \in ListType /\ linked.head = L.head /\ linked.tail = L.tail
        /\ linked.next = [L.next EXCEPT ![p] = t, ![t] = q] /\ linked.prev = [L.prev EXCEPT ![t] = p]
    BY <1>1, <1>5 DEF ListType, Pointer
  <2> HIDE DEF linked
  <2>2. CASE q = Null
    BY <2>1, <2>2 DEF ListType, Pointer
  <2>3. CASE q # Null
    BY <1>1, <1>5, <2>1, <2>3 DEF ListType, Pointer
  <2> QED
    BY <2>2, <2>3
<1>7. q = Null <=> k = n
  BY <1>1, <1>5
<1> HIDE DEF M
<1>8. /\ M.next[t] = IF k = n THEN Null ELSE s[k + 1]
      /\ M.prev[t] = s[k]
      /\ \A u \in Timers \ {t} : M.next[u] = IF u = s[k] THEN t ELSE L.next[u]
      /\ \A u \in Timers \ {t} : M.prev[u] = IF k # n /\ u = s[k + 1] THEN t ELSE L.prev[u]
  <2>1. M.next[t] = q /\ \A u \in Timers \ {t} : M.next[u] = IF u = p THEN t ELSE L.next[u]
    BY <1>1, <1>5, <1>6
  <2>2. M.prev[t] = p /\ \A u \in Timers \ {t} : M.prev[u] = IF q # Null /\ u = q THEN t ELSE L.prev[u]
    BY <1>1, <1>5, <1>6, <1>7
  <2> QED
    BY <1>5, <1>7, <2>1, <2>2 DEF p
<1> DEFINE r == With(s, n, k, t)
<1>9. Linked(M.head, M.prev, M.next, r, n + 1) /\ Nodes(r, n + 1) = Nodes(s, n) \union {t}
  <2>1. k \in 0..n /\ k # 0
    BY <1>2
  <2>2. Linked(L.head, L.prev, L.next, s, n) /\ t \in Timers /\ t \notin Nodes(s, n)
    OBVIOUS
  <2>3. /\ M.head = (IF k = 0 THEN t ELSE L.head)
        /\ M.prev[t] = (IF k = 0 THEN Null ELSE s[k])
        /\ \A u \in Timers \ {t} : M.next[u] = IF k # 0 /\ u = s[k] THEN t ELSE L.next[u]
    BY <1>6, <1>8, <2>1
  <2> QED
    BY ONLY <1>8, <2>1, <2>2, <2>3, Inserted
<1>10. M.tail = r[n + 1]
  BY <1>2, <1>6, <1>7 DEF With
<1>11. Sorted(r, n + 1, x)
  <2>1. x[s[k]] <= x[t]
    <3>1. CASE k = 1
      BY <3>1
    <3>2. CASE k # 1
      <4>1. k - 1 \in 1..(k - 1) /\ (k - 1) + 1 = k
        BY <1>2, <3>2
      <4>2. ~(x[t] < x[s[k]])
        BY <1>3, <4>1
      <4> QED
        BY <1>2, <4>2
    <3> QED
      BY <3>1, <3>2
  <2>2. k # n => x[t] <= x[s[k + 1]]
    BY <1>2, <1>3
  <2>3. k \in 0..n
    BY <1>2
  <2> QED
    BY <1>2, <2>1, <2>2, <2>3, SortedWith
<1>12. \A u \in Timers : u \notin Nodes(r, n + 1) => M.next[u] = Null
  <2>1. s[k] \in Nodes(s, n)
    BY DEF Nodes
  <2> QED
    BY <1>8, <1>9, <2>1
<1>13. n + 1 \in Nat /\ r \in [1..(n + 1) -> Timers]
  BY <1>9 DEF Linked
<1> HIDE DEF r
<1>14. ListOf(M, x, r, n + 1)
  BY <1>6, <1>9, <1>10, <1>11, <1>12 DEF ListOf
<1> QED
  BY <1>4, <1>9, <1>13, <1>14 DEF ListInv

\* add_timer of a new timer.
LEMMA AddTimerInv ==
  ASSUME NEW L, NEW x, x \in [Timers -> Nat], NEW S, ListInv(L, x, S), NEW t \in Timers, t \notin S
  PROVE  ListInv(AddTimer(Fresh(L, t), x, t), x, S \union {t})
<1>0. PICK n, s : ListOf(L, x, s, n) /\ S = Nodes(s, n)
  BY DEF ListInv
<1>1. /\ ListOf(L, x, s, n) /\ S = Nodes(s, n)
      /\ n \in Nat /\ s \in [1..n -> Timers]
  BY <1>0 DEF ListOf, Linked
<1> DEFINE F == Fresh(L, t)
<1>2. /\ L \in ListType /\ L.prev \in [Timers -> Pointer] /\ L.next \in [Timers -> Pointer]
      /\ Linked(L.head, L.prev, L.next, s, n) /\ Sorted(s, n, x) /\ (n # 0 => L.tail = s[n])
      /\ \A u \in Timers : u \notin S => L.next[u] = Null
      /\ Null \in Pointer /\ Null \notin Timers /\ \A u \in Timers : u \in Pointer
  BY <1>1, TimersAssumption DEF ListOf, ListType, Pointer
<1>3. /\ F \in ListType /\ F.head = L.head /\ F.tail = L.tail
      /\ F.prev = [L.prev EXCEPT ![t] = Null] /\ F.next = [L.next EXCEPT ![t] = Null]
  BY <1>2 DEF Fresh, ListType
<1> HIDE DEF F
<1>4. /\ Linked(F.head, F.prev, F.next, s, n)
      /\ F.next[t] = Null /\ F.prev[t] = Null /\ \A u \in Timers : u \notin S => F.next[u] = Null
  <2>1. \A i \in 1..n : s[i] \in Timers \ {t}
    BY <1>1 DEF Nodes
  <2>2. \A u \in Timers \ {t} : F.next[u] = L.next[u] /\ F.prev[u] = L.prev[u]
    BY <1>2, <1>3
  <2>3. F.next[t] = Null /\ F.prev[t] = Null
    BY <1>2, <1>3
  <2>4. Linked(F.head, F.prev, F.next, s, n)
    BY SMTT(30), <1>2, <1>3, <2>1, <2>2 DEF Linked
  <2> QED
    BY <1>2, <2>2, <2>3, <2>4
<1>5. F.head = IF n = 0 THEN Null ELSE s[1]
  BY <1>4 DEF Linked
<1>6. CASE n = 0
  <2> DEFINE M == [F EXCEPT !.head = t, !.tail = t]
             r == With(s, n, 0, t)
  <2>1. AddTimer(F, x, t) = M
    BY <1>5, <1>6 DEF AddTimer
  <2>2. M \in ListType /\ M.head = t /\ M.tail = t /\ M.next = F.next /\ M.prev = F.prev
    BY <1>2, <1>3 DEF ListType
  <2> HIDE DEF M
  <2>3. /\ Linked(M.head, M.prev, M.next, r, n + 1) /\ Nodes(r, n + 1) = Nodes(s, n) \union {t}
    BY <1>1, <1>4, <1>6, <2>2, Inserted
  <2>4. r[1] = t
    BY <1>6 DEF With
  <2>5. Sorted(r, n + 1, x)
    BY <1>6, <2>4 DEF Sorted
  <2>6. n + 1 = 1 /\ r \in [1..(n + 1) -> Timers] /\ n + 1 \in Nat
    BY <1>6, <2>3 DEF Linked
  <2> HIDE DEF r
  <2>7. ListOf(M, x, r, n + 1)
    BY <1>1, <1>4, <2>2, <2>3, <2>4, <2>5, <2>6 DEF ListOf
  <2> QED
    BY <1>1, <2>1, <2>3, <2>6, <2>7 DEF ListInv, F
<1>7. CASE n # 0 /\ x[t] < x[F.head]
  <2> DEFINE h == F.head
             M == [F EXCEPT !.next[t] = h, !.prev[h] = t, !.head = t]
             r == With(s, n, 0, t)
  <2>0. 1 \in 1..n /\ h = s[1] /\ h \in Timers /\ h # t /\ h \in Pointer
    BY <1>1, <1>2, <1>5, <1>7 DEF Nodes
  <2>1. AddTimer(F, x, t) = M
    BY <1>2, <1>7, <2>0 DEF AddTimer
  <2> HIDE DEF h
  <2>2. M \in ListType /\ M.head = t /\ M.tail = F.tail /\ M.next = [F.next EXCEPT ![t] = h]
        /\ M.prev = [F.prev EXCEPT ![h] = t]
    BY <1>2, <1>3, <2>0 DEF ListType
  <2> HIDE DEF M
  <2>3. /\ M.next[t] = s[1] /\ M.prev[t] = Null
        /\ \A u \in Timers \ {t} : M.next[u] = F.next[u]
        /\ \A u \in Timers \ {t} : M.prev[u] = IF u = s[1] THEN t ELSE F.prev[u]
    BY <1>2, <1>3, <1>4, <2>0, <2>2
  <2>4. /\ Linked(M.head, M.prev, M.next, r, n + 1) /\ Nodes(r, n + 1) = Nodes(s, n) \union {t}
    <3> DEFINE k == 0
    <3>1. k \in 0..n /\ k # n /\ k + 1 = 1 /\ k = 0
      BY <1>1, <1>7
    <3>2. t \notin Nodes(s, n) /\ t \in Timers /\ r = With(s, n, k, t)
      BY <1>1
    <3> HIDE DEF k, r
    <3>3. /\ M.head = (IF k = 0 THEN t ELSE F.head)
          /\ M.next[t] = (IF k = n THEN Null ELSE s[k + 1])
          /\ M.prev[t] = (IF k = 0 THEN Null ELSE s[k])
          /\ \A u \in Timers \ {t} : M.next[u] = IF k # 0 /\ u = s[k] THEN t ELSE F.next[u]
          /\ \A u \in Timers \ {t} : M.prev[u] = IF k # n /\ u = s[k + 1] THEN t ELSE F.prev[u]
      BY <2>2, <2>3, <3>1
    <3> QED
      BY ONLY <1>4, <3>1, <3>2, <3>3, Inserted
  <2>5. r[n + 1] = s[n]
    BY <1>1, <1>7 DEF With
  <2>6. Sorted(r, n + 1, x)
    <3>1. 0 \in 0..n /\ x[t] <= x[s[0 + 1]]
      BY <1>1, <1>7, <2>0 DEF h
    <3> QED
      BY <1>1, <1>2, <3>1, SortedWith
  <2>7. \A u \in Timers : u \notin Nodes(r, n + 1) => M.next[u] = Null
    BY <1>1, <1>4, <2>3, <2>4
  <2>8. n + 1 \in Nat /\ r \in [1..(n + 1) -> Timers]
    BY <2>4 DEF Linked
  <2> HIDE DEF r
  <2>9. ListOf(M, x, r, n + 1)
    BY <1>2, <1>3, <1>7, <2>2, <2>4, <2>5, <2>6, <2>7 DEF ListOf
  <2> QED
    BY <1>1, <2>1, <2>4, <2>8, <2>9 DEF ListInv, F
<1>8. CASE n # 0 /\ ~(x[t] < x[F.head])
  <2>1. 1 \in 1..n /\ F.head = s[1] /\ s[1] \in Timers
    BY <1>1, <1>5, <1>8
  <2>2. AddTimer(F, x, t) = InsertFromHead(F, x, t)
    BY <1>2, <1>8, <2>1 DEF AddTimer
  <2>3. x[s[1]] <= x[t]
    BY <1>8, <2>1
  <2>4. ListInv(InsertFromHead(F, x, t), x, Nodes(s, n) \union {t})
    BY <1>1, <1>2, <1>3, <1>4, <1>8, <2>3, InsertList
  <2> QED
    BY <1>1, <2>2, <2>4 DEF F
<1> QED
  BY <1>6, <1>7, <1>8


\* adjust_timer.
LEMMA AdjustTimerInv ==
  ASSUME NEW L, NEW x0, x0 \in [Timers -> Nat], NEW S, ListInv(L, x0, S), NEW t \in S,
         NEW x, x \in [Timers -> Nat], \A u \in S : u # t => x[u] = x0[u], x0[t] <= x[t]
  PROVE  ListInv(AdjustTimer(L, x, t), x, S)
<1>0. PICK n, s : ListOf(L, x0, s, n) /\ S = Nodes(s, n)
  BY DEF ListInv
<1>1. /\ L \in ListType /\ L.head \in Pointer /\ L.tail \in Pointer
      /\ L.prev \in [Timers -> Pointer] /\ L.next \in [Timers -> Pointer]
      /\ Linked(L.head, L.prev, L.next, s, n)
      /\ \A u \in Timers : u \notin S => L.next[u] = Null
      /\ Null \in Pointer /\ Null \notin Timers /\ \A u \in Timers : u \in Pointer
  BY <1>0, TimersAssumption DEF ListOf, ListType, Pointer
<1>2. /\ n \in Nat /\ s \in [1..n -> Timers]
      /\ \A i, j \in 1..n : s[i] = s[j] => i = j
      /\ L.head = IF n = 0 THEN Null ELSE s[1]
      /\ \A i \in 1..n : /\ L.next[s[i]] = IF i = n THEN Null ELSE s[i + 1]
                         /\ L.prev[s[i]] = IF i = 1 THEN Null ELSE s[i - 1]
  BY <1>1 DEF Linked
<1>3. PICK k \in 1..n : s[k] = t
  BY <1>0 DEF Nodes
<1>4. /\ t \in Timers /\ n # 0 /\ L.tail = s[n] /\ L.head = s[1] /\ (t = L.head <=> k = 1)
      /\ k - 1 \in Nat
  <2>1. n # 0 /\ 1 \in 1..n /\ k - 1 \in Nat
    BY <1>2
  <2> QED
    BY <1>0, <1>2, <1>3, <2>1 DEF ListOf
<1>5. \A i, j \in 1..n : i <= j => x0[s[i]] <= x0[s[j]]
  BY <1>0 DEF ListOf, Sorted
<1>6. \A i \in 1..n : i # k => x[s[i]] = x0[s[i]] /\ s[i] \in S
  BY <1>0, <1>2, <1>3 DEF Nodes
<1>7. \A i \in 1..n : x[s[i]] \in Nat /\ x0[s[i]] \in Nat
  BY <1>2
<1>8. \A i, j \in 1..n : i # k /\ j # k /\ i <= j => x[s[i]] <= x[s[j]]
  BY <1>5, <1>6
<1>9. \A i \in 1..n : i <= k => x[s[i]] <= x[t]
  <2> SUFFICES ASSUME NEW i \in 1..n, i <= k
               PROVE  x[s[i]] <= x[t]
    OBVIOUS
  <2>1. x0[s[i]] <= x0[t]
    BY <1>3, <1>5
  <2>2. x[t] \in Nat /\ x0[t] \in Nat /\ x[s[i]] \in Nat /\ x0[s[i]] \in Nat
    BY <1>4, <1>7
  <2> QED
    BY <1>3, <1>6, <2>1, <2>2
<1>10. CASE L.next[t] = Null \/ x[t] < x[L.next[t]]
  <2>1. AdjustTimer(L, x, t) = L
    BY <1>10 DEF AdjustTimer
  <2>2. k # n => L.next[t] = s[k + 1] /\ k + 1 \in 1..n /\ x[t] < x[s[k + 1]]
    <3>1. k # n => L.next[t] = s[k + 1] /\ k + 1 \in 1..n
      BY SMTT(30), <1>2, <1>3
    <3>2. k # n => L.next[t] # Null
      BY <1>1, <1>2, <3>1
    <3> QED
      BY <1>10, <3>1, <3>2
  <2>3. ASSUME NEW i \in 1..n, NEW j \in 1..n, i <= j
        PROVE  x[s[i]] <= x[s[j]]
    <3>1. CASE i # k /\ j # k
      BY <1>8, <2>3, <3>1
    <3>2. CASE j = k
      BY <1>3, <1>9, <2>3, <3>2
    <3>3. CASE i = k /\ j # k
      <4>1. k # n /\ k + 1 <= j /\ k + 1 # k /\ k + 1 \in 1..n
        BY <1>2, <2>3, <3>3
      <4>2. x[s[k + 1]] <= x[s[j]]
        BY <1>8, <3>3, <4>1
      <4>3. x[t] < x[s[k + 1]]
        BY <2>2, <4>1
      <4>4. x[t] \in Nat /\ x[s[k + 1]] \in Nat /\ x[s[j]] \in Nat
        BY <1>4, <1>7, <4>1
      <4> QED
        BY <1>3, <3>3, <4>2, <4>3, <4>4
    <3> QED
      BY <3>1, <3>2, <3>3
  <2>4. ListOf(L, x, s, n)
    BY <1>0, <2>3 DEF ListOf, Sorted
  <2> QED
    BY <1>0, <2>1, <2>4 DEF ListInv
<1>11. CASE ~(L.next[t] = Null \/ x[t] < x[L.next[t]])
  <2>1. k # n /\ k + 1 \in 1..n /\ L.next[t] = s[k + 1] /\ L.next[t] \in Timers /\ L.next[t] # t
    <3>1. k # n
      BY <1>2, <1>3, <1>11
    <3>2. k + 1 \in 1..n /\ k + 1 # k
      BY <1>2, <3>1
    <3>3. L.next[t] = s[k + 1]
      BY <1>2, <1>3, <3>1
    <3>4. s[k + 1] \in Timers /\ s[k + 1] # s[k]
      BY <1>2, <1>3, <3>2
    <3> QED
      BY ONLY <1>3, <3>1, <3>2, <3>3, <3>4
  <2> DEFINE q == L.next[t]
             p == L.prev[t]
             U == IF t = L.head
                  THEN [L EXCEPT !.head = q, !.prev[q] = Null, !.next[t] = Null]
                  ELSE [L EXCEPT !.next[p] = q, !.prev[q] = p]
             r == Without(s, n, k)
  <2>2. AdjustTimer(L, x, t) = InsertFromHead(U, x, t)
    BY <1>11 DEF AdjustTimer
  <2>3. /\ q = s[k + 1] /\ q \in Timers /\ q \in Pointer /\ q # t
        /\ p = (IF k = 1 THEN Null ELSE s[k - 1]) /\ p \in Pointer
        /\ k # 1 => p \in Timers /\ p # q /\ p # t /\ p \in S
    <3>1. p = IF k = 1 THEN Null ELSE s[k - 1]
      BY <1>2, <1>3
    <3>2. k # 1 => k - 1 \in 1..n /\ k - 1 # k /\ k - 1 # k + 1
      BY <1>2
    <3>3. k # 1 => p \in Timers /\ p # q /\ p # t /\ p \in S
      BY <1>2, <1>3, <1>6, <2>1, <3>1, <3>2
    <3> QED
      BY <1>1, <2>1, <3>1, <3>3
  <2> HIDE DEF p, q
  <2>4. /\ U \in ListType /\ U.tail = L.tail
        /\ U.head = (IF k = 1 THEN q ELSE L.head)
        /\ U.next = (IF k = 1 THEN [L.next EXCEPT ![t] = Null] ELSE [L.next EXCEPT ![p] = q])
        /\ U.prev = [L.prev EXCEPT ![q] = p]
    <3>1. CASE k = 1
      BY <1>1, <1>4, <2>3, <3>1 DEF ListType
    <3>2. CASE k # 1
      BY <1>1, <1>4, <2>3, <3>2 DEF ListType
    <3> QED
      BY <3>1, <3>2
  <2> HIDE DEF U
  <2>5. Linked(U.head, U.prev, U.next, r, n - 1) /\ Nodes(r, n - 1) = Nodes(s, n) \ {t}
    <3>1. U.head = IF k = 1 THEN L.next[s[1]] ELSE L.head
      BY <1>3, <2>4 DEF q
    <3>2. \A u \in Timers \ {s[k]} :
             U.next[u] = IF k # 1 /\ u = s[k - 1] THEN L.next[s[k]] ELSE L.next[u]
      <4>1. L.next[s[k]] = q
        BY <1>3 DEF q
      <4> QED
        BY <1>1, <1>3, <2>3, <2>4, <4>1
    <3>3. \A u \in Timers \ {s[k]} :
             U.prev[u] = IF k # n /\ u = s[k + 1] THEN L.prev[s[k]] ELSE L.prev[u]
      <4>1. L.prev[s[k]] = p
        BY <1>3 DEF p
      <4> QED
        BY <1>1, <1>3, <2>1, <2>3, <2>4, <4>1
    <3>4. k \in 1..n
      OBVIOUS
    <3> HIDE DEF r
    <3>5. r = Without(s, n, k)
      BY DEF r
    <3> QED
      BY ONLY <1>1, <1>3, <3>1, <3>2, <3>3, <3>4, <3>5, Removed
  <2>6. n - 1 \in Nat /\ n - 1 # 0 /\ 1 \in 1..(n - 1)
    BY <1>2, <2>1
  <2>7. U.tail = r[n - 1]
    BY <1>2, <1>4, <2>1, <2>4, <2>6 DEF Without
  <2>8. Sorted(r, n - 1, x)
    BY <1>2, <1>8, SortedWithout
  <2>9. x[r[1]] <= x[t]
    <3>1. r[1] = IF 1 < k THEN s[1] ELSE s[1 + 1]
      BY <2>6 DEF Without
    <3>2. CASE k = 1
      <4>1. r[1] = q
        BY <2>3, <3>1, <3>2
      <4>2. ~(x[t] < x[q]) /\ x[t] \in Nat /\ x[q] \in Nat
        BY <1>4, <1>11, <2>3 DEF q
      <4> QED
        BY <4>1, <4>2
    <3>3. CASE k # 1
      <4>1. r[1] = s[1] /\ 1 \in 1..n /\ 1 <= k
        BY <1>2, <3>1, <3>3
      <4> QED
        BY <1>9, <4>1
    <3> QED
      BY <3>2, <3>3
  <2>10. U.next[t] \in Nodes(r, n - 1) \union {Null}
    <3>1. CASE k = 1
      BY <1>1, <1>4, <2>4, <3>1
    <3>2. CASE k # 1
      <4>1. U.next[t] = q
        BY <1>1, <1>4, <2>3, <2>4, <3>2 DEF q
      <4>2. q \in Nodes(s, n)
        BY <2>1, <2>3 DEF Nodes
      <4> QED
        BY <2>3, <2>5, <4>1, <4>2
    <3> QED
      BY <3>1, <3>2
  <2>11. \A u \in Timers : u \in Nodes(r, n - 1) \/ u = t \/ U.next[u] = Null
    <3> SUFFICES ASSUME NEW u \in Timers, u \notin S
                 PROVE  U.next[u] = Null
      BY <1>0, <2>5
    <3> QED
      BY <1>1, <2>3, <2>4
  <2>12. t \notin Nodes(r, n - 1) /\ S = Nodes(r, n - 1) \union {t}
    BY <1>0, <2>5
  <2>13. ListInv(InsertFromHead(U, x, t), x, Nodes(r, n - 1) \union {t})
    <3> DEFINE m == n - 1
    <3>1. /\ Linked(U.head, U.prev, U.next, r, m) /\ m # 0 /\ U.tail = r[m]
          /\ t \notin Nodes(r, m) /\ U.next[t] \in Nodes(r, m) \union {Null}
          /\ \A u \in Timers : u \in Nodes(r, m) \/ u = t \/ U.next[u] = Null
          /\ Sorted(r, m, x)
      BY <2>5, <2>6, <2>7, <2>8, <2>10, <2>11, <2>12
    <3>2. U \in ListType /\ t \in Timers /\ x \in [Timers -> Nat]
      BY <1>4, <2>4
    <3> HIDE DEF m, r
    <3> QED
      BY ONLY <2>9, <3>1, <3>2, InsertList DEF m
  <2> QED
    BY <2>2, <2>12, <2>13 DEF U
<1> QED
  BY <1>10, <1>11

\* del_timer.
LEMMA DeleteTimerInv ==
  ASSUME NEW L, NEW x, NEW S, ListInv(L, x, S), NEW t \in S
  PROVE  ListInv(DeleteTimer(L, t), x, S \ {t})
<1>0. PICK n, s : ListOf(L, x, s, n) /\ S = Nodes(s, n)
  BY DEF ListInv
<1>1. /\ L \in ListType /\ L.head \in Pointer /\ L.tail \in Pointer
      /\ L.prev \in [Timers -> Pointer] /\ L.next \in [Timers -> Pointer]
      /\ Linked(L.head, L.prev, L.next, s, n)
      /\ \A u \in Timers : u \notin S => L.next[u] = Null
      /\ Null \in Pointer /\ Null \notin Timers /\ \A u \in Timers : u \in Pointer
  BY <1>0, TimersAssumption DEF ListOf, ListType, Pointer
<1>2. /\ n \in Nat /\ s \in [1..n -> Timers]
      /\ \A i, j \in 1..n : s[i] = s[j] => i = j
      /\ L.head = IF n = 0 THEN Null ELSE s[1]
      /\ \A i \in 1..n : /\ L.next[s[i]] = IF i = n THEN Null ELSE s[i + 1]
                         /\ L.prev[s[i]] = IF i = 1 THEN Null ELSE s[i - 1]
  BY <1>1 DEF Linked
<1>3. PICK k \in 1..n : s[k] = t
  BY <1>0 DEF Nodes
<1>4. /\ t \in Timers /\ n # 0 /\ L.tail = s[n] /\ L.head = s[1]
      /\ (t = L.head <=> k = 1) /\ (t = L.tail <=> k = n) /\ n - 1 \in Nat
  <2>1. n # 0 /\ 1 \in 1..n /\ n \in 1..n /\ n - 1 \in Nat
    BY <1>2
  <2> QED
    BY <1>0, <1>2, <1>3, <2>1 DEF ListOf
<1> DEFINE q == L.next[t]
           p == L.prev[t]
           D == CASE t = L.head /\ t = L.tail -> [L EXCEPT !.head = Null, !.tail = Null]
                  [] t = L.head /\ t # L.tail -> [L EXCEPT !.head = q, !.prev[q] = Null]
                  [] t # L.head /\ t = L.tail -> [L EXCEPT !.tail = p, !.next[p] = Null]
                  [] OTHER -> [L EXCEPT !.next[p] = q, !.prev[q] = p]
           R == Fresh(D, t)
           r == Without(s, n, k)
<1>5. DeleteTimer(L, t) = R
  BY DEF DeleteTimer
<1>6. /\ q = (IF k = n THEN Null ELSE s[k + 1]) /\ p = (IF k = 1 THEN Null ELSE s[k - 1])
      /\ q \in Pointer /\ p \in Pointer
      /\ k # n => q \in Timers /\ q # t
      /\ k # 1 => p \in Timers /\ p # t /\ p \in S
  <2>1. k # n => k + 1 \in 1..n /\ k + 1 # k
    BY <1>2
  <2>2. k # 1 => k - 1 \in 1..n /\ k - 1 # k
    BY <1>2
  <2> QED
    BY <1>0, <1>1, <1>2, <1>3, <1>4, <2>1, <2>2 DEF Nodes
<1>7. L.next[s[k]] = q /\ L.prev[s[k]] = p
  BY <1>3
<1> HIDE DEF p, q
<1>8. /\ D \in ListType
      /\ D.head = (IF k = 1 THEN q ELSE L.head)
      /\ D.tail = (IF k = n THEN p ELSE L.tail)
      /\ \A u \in Timers \ {t} : D.next[u] = IF k # 1 /\ u = p THEN q ELSE L.next[u]
      /\ \A u \in Timers \ {t} : D.prev[u] = IF k # n /\ u = q THEN p ELSE L.prev[u]
  <2>1. CASE k = 1 /\ k = n
    <3>1. D = [L EXCEPT !.head = Null, !.tail = Null]
      BY <1>4, <2>1
    <3> QED
      BY <1>1, <1>6, <2>1, <3>1 DEF ListType
  <2>2. CASE k = 1 /\ k # n
    <3>1. D = [L EXCEPT !.head = q, !.prev[q] = Null]
      BY <1>4, <2>2
    <3> HIDE DEF D
    <3>2. /\ D \in ListType /\ D.head = q /\ D.tail = L.tail
          /\ D.next = L.next /\ D.prev = [L.prev EXCEPT ![q] = Null]
      BY <1>1, <1>6, <2>2, <3>1 DEF ListType
    <3> QED
      BY <1>1, <1>4, <1>6, <2>2, <3>2
  <2>3. CASE k # 1 /\ k = n
    <3>1. D = [L EXCEPT !.tail = p, !.next[p] = Null]
      BY <1>4, <2>3
    <3> HIDE DEF D
    <3>2. /\ D \in ListType /\ D.head = L.head /\ D.tail = p
          /\ D.next = [L.next EXCEPT ![p] = Null] /\ D.prev = L.prev
      BY <1>1, <1>6, <2>3, <3>1 DEF ListType
    <3> QED
      BY <1>1, <1>4, <1>6, <2>3, <3>2
  <2>4. CASE k # 1 /\ k # n
    <3>1. D = [L EXCEPT !.next[p] = q, !.prev[q] = p]
      BY <1>4, <2>4
    <3>2. /\ D \in ListType /\ D.head = L.head /\ D.tail = L.tail
          /\ D.next = [L.next EXCEPT ![p] = q] /\ D.prev = [L.prev EXCEPT ![q] = p]
      BY <1>1, <1>6, <2>4, <3>1 DEF ListType
    <3> HIDE DEF D
    <3> QED
      BY <1>1, <1>6, <2>4, <3>2
  <2> QED
    BY <2>1, <2>2, <2>3, <2>4
<1> HIDE DEF D
<1>9. /\ R \in ListType /\ R.head = D.head /\ R.tail = D.tail
      /\ R.next = [D.next EXCEPT ![t] = Null] /\ R.prev = [D.prev EXCEPT ![t] = Null]
      /\ D.next \in [Timers -> Pointer] /\ D.prev \in [Timers -> Pointer]
  BY <1>1, <1>4, <1>8 DEF Fresh, ListType
<1> HIDE DEF R
<1>10. /\ R.next[t] = Null
       /\ \A u \in Timers \ {t} : R.next[u] = IF k # 1 /\ u = p THEN q ELSE L.next[u]
       /\ \A u \in Timers \ {t} : R.prev[u] = IF k # n /\ u = q THEN p ELSE L.prev[u]
  BY <1>4, <1>8, <1>9
<1>11. Linked(R.head, R.prev, R.next, r, n - 1) /\ Nodes(r, n - 1) = Nodes(s, n) \ {t}
  <2>1. R.head = IF k = 1 THEN L.next[s[1]] ELSE L.head
    BY <1>7, <1>8, <1>9
  <2>2. \A u \in Timers \ {s[k]} :
           R.next[u] = IF k # 1 /\ u = s[k - 1] THEN L.next[s[k]] ELSE L.next[u]
    BY <1>3, <1>6, <1>7, <1>10
  <2>3. \A u \in Timers \ {s[k]} :
           R.prev[u] = IF k # n /\ u = s[k + 1] THEN L.prev[s[k]] ELSE L.prev[u]
    BY <1>3, <1>6, <1>7, <1>10
  <2>4. k \in 1..n
    OBVIOUS
  <2> HIDE DEF r
  <2>5. r = Without(s, n, k)
    BY DEF r
  <2> QED
    BY ONLY <1>1, <1>3, <2>1, <2>2, <2>3, <2>4, <2>5, Removed
<1>12. n - 1 # 0 => R.tail = r[n - 1]
  <2>1. ASSUME n - 1 # 0
        PROVE  r[n - 1] = IF n - 1 < k THEN s[n - 1] ELSE s[(n - 1) + 1]
    <3>1. n - 1 \in 1..(n - 1)
      BY <1>2, <1>4, <2>1
    <3> QED
      BY <3>1 DEF Without
  <2>2. (n - 1 < k <=> k = n) /\ (n - 1) + 1 = n /\ (k = n /\ n - 1 # 0 => k # 1)
    BY <1>2
  <2> QED
    BY <1>4, <1>6, <1>8, <1>9, <2>1, <2>2
<1>13. Sorted(r, n - 1, x)
  <2>1. \A i, j \in 1..n : i # k /\ j # k /\ i <= j => x[s[i]] <= x[s[j]]
    BY <1>0 DEF ListOf, Sorted
  <2> QED
    BY <1>2, <2>1, SortedWithout
<1>14. \A u \in Timers : u \notin Nodes(r, n - 1) => R.next[u] = Null
  <2> SUFFICES ASSUME NEW u \in Timers, u \notin S, u # t
               PROVE  R.next[u] = Null
    BY <1>0, <1>10, <1>11
  <2> QED
    BY <1>1, <1>6, <1>10
<1> HIDE DEF r
<1>15. ListOf(R, x, r, n - 1)
  BY <1>9, <1>11, <1>12, <1>13, <1>14 DEF ListOf
<1> QED
  BY <1>0, <1>5, <1>11, <1>15 DEF ListInv

\* A walk from a node on, as far as D reaches.
IsWalk(next, D, f) == f = [p \in Pointer |-> IF p \in D THEN {p} \union f[next[p]] ELSE {}]

\* A walk from the first node on finds the nodes in D, if none of them comes after a node
\* that is not in D.
LEMMA WalkFinds ==
  ASSUME NEW h, NEW prev, NEW next, next \in [Timers -> Pointer], NEW s, NEW n,
         Linked(h, prev, next, s, n),
         \A u \in Timers : u \notin Nodes(s, n) => next[u] = Null,
         NEW D, D \subseteq Timers, \A i, j \in 1..n : i <= j /\ s[j] \in D => s[i] \in D
  PROVE  /\ \E f : IsWalk(next, D, f)
         /\ \A f : IsWalk(next, D, f) => f[h] = Nodes(s, n) \intersect D
<1>1. /\ n \in Nat /\ s \in [1..n -> Timers] /\ \A i, j \in 1..n : s[i] = s[j] => i = j
      /\ h = (IF n = 0 THEN Null ELSE s[1])
      /\ \A i \in 1..n : next[s[i]] = IF i = n THEN Null ELSE s[i + 1]
      /\ Null \notin D /\ Null \in Pointer /\ \A u \in Timers : u \in Pointer
  BY TimersAssumption DEF Linked, Pointer
<1> DEFINE From(i) == {s[j] : j \in i..n} \intersect D
           pos(u) == CHOOSE i \in 1..n : s[i] = u
           f == [p \in Pointer |-> IF p \in Nodes(s, n) THEN From(pos(p))
                                   ELSE IF p \in D THEN {p} ELSE {}]
<1>2. ASSUME NEW i \in 1..n
      PROVE  pos(s[i]) = i
  BY <1>1
<1>3. ASSUME NEW i \in 1..n, s[i] \in D
      PROVE  From(i) = {s[i]} \union IF i = n THEN {} ELSE From(i + 1)
  <2>1. CASE i = n
    BY <1>3, <2>1
  <2>2. CASE i # n
    <3>1. \A j : j \in i..n <=> j = i \/ j \in (i + 1)..n
      BY <1>1, <2>2
    <3> QED
      BY <1>3, <2>2, <3>1
  <2> QED
    BY <2>1, <2>2
<1>4. ASSUME NEW i \in 1..n, s[i] \notin D
      PROVE  From(i) = {}
  <2>1. \A j \in i..n : j \in 1..n /\ i <= j
    BY <1>1
  <2> QED
    BY <1>4, <2>1
<1> HIDE DEF From, pos
<1>5. ASSUME NEW p \in Pointer
      PROVE  f[p] = IF p \in D THEN {p} \union f[next[p]] ELSE {}
  <2>1. CASE p \in Nodes(s, n)
    <3>1. PICK i \in 1..n : p = s[i]
      BY <2>1 DEF Nodes
    <3>2. f[p] = From(i)
      BY <1>2, <2>1, <3>1
    <3>3. CASE p \notin D
      BY <1>4, <3>1, <3>2, <3>3
    <3>4. CASE p \in D /\ i = n
      <4>1. next[p] = Null /\ Null \notin Nodes(s, n)
        BY <1>1, <3>1, <3>4, TimersAssumption DEF Nodes
      <4>2. f[next[p]] = {}
        BY <1>1, <4>1
      <4> QED
        BY <1>3, <3>1, <3>2, <3>4, <4>2
    <3>5. CASE p \in D /\ i # n
      <4>1. i + 1 \in 1..n /\ next[p] = s[i + 1]
        BY <1>1, <3>1, <3>5
      <4>2. s[i + 1] \in Pointer /\ s[i + 1] \in Nodes(s, n)
        BY <1>1, <4>1 DEF Nodes
      <4>3. f[next[p]] = From(i + 1)
        BY <1>2, <4>1, <4>2
      <4> QED
        BY <1>3, <3>1, <3>2, <3>5, <4>3
    <3> QED
      BY <3>3, <3>4, <3>5
  <2>2. CASE p \notin Nodes(s, n) /\ p \in D
    <3>1. next[p] = Null /\ Null \notin Nodes(s, n)
      BY <1>1, <2>2, TimersAssumption DEF Nodes
    <3>2. f[next[p]] = {} /\ f[p] = {p}
      BY <1>1, <2>2, <3>1
    <3> QED
      BY <2>2, <3>2
  <2>3. CASE p \notin Nodes(s, n) /\ p \notin D
    BY <2>3
  <2> QED
    BY <2>1, <2>2, <2>3
<1>6. IsWalk(next, D, f)
  <2>1. f = [p \in Pointer |-> IF p \in D THEN {p} \union f[next[p]] ELSE {}]
    BY <1>5
  <2> HIDE DEF f
  <2> QED
    BY <2>1 DEF IsWalk
<1> HIDE DEF f
<1>7. ASSUME NEW g, IsWalk(next, D, g)
      PROVE  g[h] = Nodes(s, n) \intersect D
  <2>1. \A p \in Pointer : g[p] = IF p \in D THEN {p} \union g[next[p]] ELSE {}
    BY <1>7 DEF IsWalk
  <2> DEFINE G == {i \in 1..n : g[s[i]] = From(i)}
  <2>2. ASSUME NEW i \in 1..n, i = n \/ i + 1 \in G
        PROVE  i \in G
    <3>1. s[i] \in Pointer
      BY <1>1
    <3>2. CASE s[i] \notin D
      BY <1>4, <2>1, <3>1, <3>2
    <3>3. CASE s[i] \in D /\ i = n
      <4>1. next[s[i]] = Null /\ g[Null] = {}
        BY <1>1, <2>1, <3>3
      <4> QED
        BY <1>3, <2>1, <3>1, <3>3, <4>1
    <3>4. CASE s[i] \in D /\ i # n
      <4>1. next[s[i]] = s[i + 1] /\ g[s[i + 1]] = From(i + 1)
        BY <1>1, <2>2, <3>4
      <4> QED
        BY <1>3, <2>1, <3>1, <3>4, <4>1
    <3> QED
      BY <3>2, <3>3, <3>4
  <2>3. \A i \in 1..n : i \in G
    BY ONLY <1>1, <2>2, Backwards
  <2>4. CASE n = 0
    <3>1. Nodes(s, n) = {}
      BY <2>4 DEF Nodes
    <3> QED
      BY <1>1, <2>1, <2>4, <3>1
  <2>5. CASE n # 0
    <3>1. 1 \in 1..n
      BY <1>1, <2>5
    <3>2. g[h] = From(1)
      BY <1>1, <2>3, <2>5, <3>1
    <3> QED
      BY <3>2 DEF From, Nodes
  <2> QED
    BY <2>4, <2>5
<1> QED
  BY <1>6, <1>7

\* tick finds the timers that are due.
IsDue(L, x, clock, f) ==
    f = [p \in Pointer |-> IF p = Null THEN {}
                           ELSE IF clock < x[p] THEN {} ELSE {p} \union f[L.next[p]]]

LEMMA ExpiredInv ==
  ASSUME NEW L, NEW x, x \in [Timers -> Nat], NEW S, ListInv(L, x, S), NEW clock \in Nat
  PROVE  Expired(L, x, clock) = {t \in S : ~(clock < x[t])}
<1>0. PICK n, s : ListOf(L, x, s, n) /\ S = Nodes(s, n)
  BY DEF ListInv
<1>1. /\ L.next \in [Timers -> Pointer]
      /\ Linked(L.head, L.prev, L.next, s, n) /\ Sorted(s, n, x)
      /\ n \in Nat /\ s \in [1..n -> Timers]
      /\ \A u \in Timers : u \notin Nodes(s, n) => L.next[u] = Null
  BY <1>0 DEF ListOf, ListType, Linked
<1> DEFINE D == {p \in Timers : ~(clock < x[p])}
<1>2. \A i, j \in 1..n : i <= j /\ s[j] \in D => s[i] \in D
  <2> SUFFICES ASSUME NEW i \in 1..n, NEW j \in 1..n, i <= j, s[j] \in D
               PROVE  s[i] \in D
    OBVIOUS
  <2>1. x[s[i]] <= x[s[j]] /\ s[i] \in Timers /\ x[s[i]] \in Nat /\ x[s[j]] \in Nat
    BY <1>1 DEF Sorted
  <2> QED
    BY <2>1
<1>3. D \subseteq Timers
  OBVIOUS
<1>4. \A p \in Pointer : p \in D <=> p # Null /\ ~(clock < x[p])
  BY TimersAssumption DEF Pointer
<1>5. S \intersect D = {t \in S : ~(clock < x[t])} /\ S \subseteq Timers
  BY <1>0, <1>1 DEF Nodes
<1> HIDE DEF D
<1>6. /\ \E f : IsWalk(L.next, D, f)
      /\ \A f : IsWalk(L.next, D, f) => f[L.head] = Nodes(s, n) \intersect D
  <2> DEFINE head == L.head
             prev == L.prev
             next == L.next
  <2>1. /\ next \in [Timers -> Pointer] /\ Linked(head, prev, next, s, n)
        /\ \A u \in Timers : u \notin Nodes(s, n) => next[u] = Null
    BY <1>1
  <2> HIDE DEF head, prev, next
  <2>2. /\ \E f : IsWalk(next, D, f)
        /\ \A f : IsWalk(next, D, f) => f[head] = Nodes(s, n) \intersect D
    BY ONLY <1>2, <1>3, <2>1, WalkFinds
  <2> QED
    BY <2>2 DEF head, next
<1>7. ASSUME NEW f
      PROVE  IsDue(L, x, clock, f) <=> IsWalk(L.next, D, f)
  <2>1. [p \in Pointer |-> IF p = Null THEN {}
                           ELSE IF clock < x[p] THEN {} ELSE {p} \union f[L.next[p]]]
        = [p \in Pointer |-> IF p \in D THEN {p} \union f[L.next[p]] ELSE {}]
    BY <1>4
  <2> QED
    BY <2>1 DEF IsDue, IsWalk
<1> DEFINE due == CHOOSE f : IsDue(L, x, clock, f)
<1>8. IsDue(L, x, clock, due)
  BY <1>6, <1>7
<1>9. Expired(L, x, clock) = {t \in Timers : t \in due[L.head]}
  BY DEF Expired, IsDue
<1> HIDE DEF due
<1>10. due[L.head] = S \intersect D
  BY <1>0, <1>6, <1>7, <1>8
<1> QED
  BY <1>5, <1>9, <1>10

\* tick goes on to the first node that is not due.
IsRest(next, D, f) == f = [p \in Pointer |-> IF p \in D THEN f[next[p]] ELSE p]

LEMMA RestFinds ==
  ASSUME NEW h, NEW prev, NEW next, next \in [Timers -> Pointer], NEW s, NEW n,
         Linked(h, prev, next, s, n), NEW m \in 0..n, NEW D, D = Nodes(s, m)
  PROVE  /\ \E f : IsRest(next, D, f)
         /\ \A f : IsRest(next, D, f) => f[h] = IF m = n THEN Null ELSE s[m + 1]
<1>1. /\ n \in Nat /\ m \in Nat /\ m <= n /\ s \in [1..n -> Timers]
      /\ \A i, j \in 1..n : s[i] = s[j] => i = j
      /\ h = (IF n = 0 THEN Null ELSE s[1])
      /\ \A i \in 1..n : next[s[i]] = IF i = n THEN Null ELSE s[i + 1]
  BY DEF Linked
<1> DEFINE after == IF m = n THEN Null ELSE s[m + 1]
           f == [p \in Pointer |-> IF p \in D THEN after ELSE p]
<1>2. after \in Pointer /\ after \notin D /\ Null \notin D /\ Null \in Pointer
      /\ \A u \in Timers : u \in Pointer
  <2>1. m # n => m + 1 \in 1..n /\ \A i \in 1..m : i # m + 1 /\ i \in 1..n
    BY <1>1
  <2>2. \A i \in 1..m : s[i] \in Timers
    BY <1>1
  <2> QED
    BY <1>1, <2>1, <2>2, TimersAssumption DEF Pointer, Nodes
<1>3. ASSUME NEW i \in 1..m
      PROVE  s[i] \in D /\ s[i] \in Pointer /\ next[s[i]] = IF i = m THEN after ELSE s[i + 1]
  BY <1>1, <1>2 DEF Nodes
<1>4. \A u \in D : \E i \in 1..m : u = s[i]
  BY DEF Nodes
<1> HIDE DEF after
<1>5. ASSUME NEW p \in Pointer
      PROVE  f[p] = IF p \in D THEN f[next[p]] ELSE p
  <2>1. CASE p \notin D
    BY <2>1
  <2>2. CASE p \in D
    <3>1. PICK i \in 1..m : p = s[i]
      BY <1>4, <2>2
    <3>2. CASE i = m
      BY <1>2, <1>3, <2>2, <3>1, <3>2
    <3>3. CASE i # m
      <4>1. i + 1 \in 1..m
        BY <1>1, <3>3
      <4>2. next[p] \in D /\ next[p] \in Pointer
        BY <1>3, <3>1, <3>3, <4>1
      <4> QED
        BY <2>2, <4>2
    <3> QED
      BY <3>2, <3>3
  <2> QED
    BY <2>1, <2>2
<1>6. IsRest(next, D, f)
  <2>1. f = [p \in Pointer |-> IF p \in D THEN f[next[p]] ELSE p]
    BY <1>5
  <2> HIDE DEF f
  <2> QED
    BY <2>1 DEF IsRest
<1> HIDE DEF f
<1>7. ASSUME NEW g, IsRest(next, D, g)
      PROVE  g[h] = after
  <2>1. \A p \in Pointer : g[p] = IF p \in D THEN g[next[p]] ELSE p
    BY <1>7 DEF IsRest
  <2> DEFINE G == {i \in 1..m : g[s[i]] = after}
  <2>2. ASSUME NEW i \in 1..m, i = m \/ i + 1 \in G
        PROVE  i \in G
    <3>1. g[s[i]] = g[next[s[i]]]
      BY <1>3, <2>1
    <3>2. CASE i = m
      BY <1>2, <1>3, <2>1, <3>1, <3>2
    <3>3. CASE i # m
      BY <1>3, <2>2, <3>1, <3>3
    <3> QED
      BY <3>2, <3>3
  <2>3. \A i \in 1..m : i \in G
    BY ONLY <1>1, <2>2, Backwards
  <2>4. CASE m = 0
    <3>1. h = after
      BY <1>1, <2>4 DEF after
    <3> QED
      BY <1>2, <2>1, <3>1
  <2>5. CASE m # 0
    <3>1. 1 \in 1..m /\ h = s[1]
      BY <1>1, <2>5
    <3> QED
      BY <2>3, <3>1
  <2> QED
    BY <2>4, <2>5
<1> QED
  BY <1>6, <1>7 DEF after

\* What is found by a walk from the first node on are the first nodes.
LEMMA FirstNodes ==
  ASSUME NEW n \in Nat, NEW s \in [1..n -> Timers], NEW D,
         \A i, j \in 1..n : i <= j /\ s[j] \in D => s[i] \in D
  PROVE  \E m \in 0..n : \A i \in 1..n : s[i] \in D <=> i <= m
<1> DEFINE N == {i \in 1..n : s[i] \notin D}
<1>1. CASE N = {}
  <2>1. n \in 0..n /\ \A i \in 1..n : s[i] \in D /\ i <= n
    BY <1>1
  <2> QED
    BY <2>1
<1>2. CASE N # {}
  <2>1. N \in SUBSET Nat
    OBVIOUS
  <2>2. PICK l \in N : \A i \in N : l <= i
    BY <1>2, <2>1, LeastExists
  <2>3. l \in 1..n /\ s[l] \notin D /\ l - 1 \in 0..n
    OBVIOUS
  <2>4. ASSUME NEW i \in 1..n
        PROVE  s[i] \in D <=> i <= l - 1
    <3>1. CASE i <= l - 1
      <4>1. i \notin N
        BY <2>2, <2>3, <3>1
      <4> QED
        BY <3>1, <4>1
    <3>2. CASE ~(i <= l - 1)
      <4>1. l <= i
        BY <2>3, <3>2
      <4> QED
        BY <2>3, <3>2, <4>1
    <3> QED
      BY <3>1, <3>2
  <2> QED
    BY <2>3, <2>4
<1> QED
  BY <1>1, <1>2

\* tick leaves the timers that are not due.
LEMMA AfterTickInv ==
  ASSUME NEW L, NEW x, x \in [Timers -> Nat], NEW S, ListInv(L, x, S), NEW clock \in Nat,
         NEW x2, \A t \in S \ Expired(L, x, clock) : x2[t] = x[t]
  PROVE  ListInv(AfterTick(L, x, clock), x2, S \ Expired(L, x, clock))
<1>0. PICK n, s : ListOf(L, x, s, n) /\ S = Nodes(s, n)
  BY DEF ListInv
<1>1. /\ L \in ListType /\ L.head \in Pointer /\ L.tail \in Pointer
      /\ L.prev \in [Timers -> Pointer] /\ L.next \in [Timers -> Pointer]
      /\ Linked(L.head, L.prev, L.next, s, n) /\ Sorted(s, n, x)
      /\ \A u \in Timers : u \notin S => L.next[u] = Null
      /\ Null \in Pointer /\ Null \notin Timers /\ \A u \in Timers : u \in Pointer
  BY <1>0, TimersAssumption DEF ListOf, ListType, Pointer
<1>2. /\ n \in Nat /\ s \in [1..n -> Timers]
      /\ \A i, j \in 1..n : s[i] = s[j] => i = j
      /\ L.head = (IF n = 0 THEN Null ELSE s[1])
      /\ \A i \in 1..n : /\ L.next[s[i]] = IF i = n THEN Null ELSE s[i + 1]
                         /\ L.prev[s[i]] = IF i = 1 THEN Null ELSE s[i - 1]
      /\ n # 0 => L.tail = s[n]
  BY <1>0, <1>1 DEF ListOf, Linked
<1> DEFINE gone == Expired(L, x, clock)
<1>3. gone = {t \in S : ~(clock < x[t])}
  BY ExpiredInv
<1> HIDE DEF gone
<1>4. \A i, j \in 1..n : i <= j /\ s[j] \in gone => s[i] \in gone
  <2> SUFFICES ASSUME NEW i \in 1..n, NEW j \in 1..n, i <= j, s[j] \in gone
               PROVE  s[i] \in gone
    OBVIOUS
  <2>1. x[s[i]] <= x[s[j]] /\ s[i] \in Timers /\ x[s[i]] \in Nat /\ x[s[j]] \in Nat
    BY <1>1, <1>2 DEF Sorted
  <2>2. s[i] \in S
    BY <1>0 DEF Nodes
  <2>3. ~(clock < x[s[j]])
    BY <1>3
  <2>4. ~(clock < x[s[i]])
    BY <2>1, <2>3
  <2> QED
    BY <1>3, <2>2, <2>4
<1>5. PICK m \in 0..n : \A i \in 1..n : s[i] \in gone <=> i <= m
  BY <1>2, <1>4, FirstNodes
<1>6. gone = {s[i] : i \in 1..m} /\ gone \subseteq S
  <2>1. \A i \in 1..m : i \in 1..n /\ i <= m
    BY <1>2
  <2>2. \A i \in 1..n : i <= m => i \in 1..m
    BY <1>2
  <2> QED
    BY <1>0, <1>3, <1>5, <2>1, <2>2 DEF Nodes
<1> DEFINE h == IF m = n THEN Null ELSE s[m + 1]
           Freed(f) == [t \in Timers |-> IF t \in gone \/ t = h THEN Null ELSE f[t]]
           R == [L EXCEPT !.head = h, !.prev = Freed(@),
                          !.next = [t \in Timers |-> IF t \in gone THEN Null ELSE @[t]]]
           r == [i \in 1..(n - m) |-> s[i + m]]
<1>7. AfterTick(L, x, clock) = R
  <2> DEFINE rest == CHOOSE f : IsRest(L.next, gone, f)
             Left(z) == [L EXCEPT !.head = z,
                           !.prev = [t \in Timers |-> IF t \in gone \/ t = z THEN Null ELSE @[t]],
                           !.next = [t \in Timers |-> IF t \in gone THEN Null ELSE @[t]]]
  <2>1. AfterTick(L, x, clock) = Left(rest[L.head])
    BY ONLY DEF AfterTick, IsRest, gone
  <2>2. /\ \E f : IsRest(L.next, gone, f)
        /\ \A f : IsRest(L.next, gone, f) => f[L.head] = h
    <3>1. m \in 0..n /\ gone = Nodes(s, m)
      BY <1>6 DEF Nodes
    <3> QED
      BY ONLY <1>1, <3>1, RestFinds
  <2>3. IsRest(L.next, gone, rest)
    BY <2>2
  <2> HIDE DEF rest, h
  <2>4. rest[L.head] = h
    BY <2>2, <2>3
  <2> QED
    BY ONLY <2>1, <2>4
<1>8. /\ h \in Pointer /\ (m # n => m + 1 \in 1..n /\ h \in Timers) /\ m \in Nat /\ n - m \in Nat
  BY <1>1, <1>2
<1>9. /\ R \in ListType /\ R.head = h /\ R.tail = L.tail
      /\ R.prev = [t \in Timers |-> IF t \in gone \/ t = h THEN Null ELSE L.prev[t]]
      /\ R.next = [t \in Timers |-> IF t \in gone THEN Null ELSE L.next[t]]
  <2> DEFINE P == [t \in Timers |-> IF t \in gone \/ t = h THEN Null ELSE L.prev[t]]
             Q == [t \in Timers |-> IF t \in gone THEN Null ELSE L.next[t]]
  <2> HIDE DEF h
  <2>1. R = [L EXCEPT !.head = h, !.prev = P, !.next = Q]
    OBVIOUS
  <2>2. P \in [Timers -> Pointer] /\ Q \in [Timers -> Pointer]
    BY <1>1
  <2> HIDE DEF R, P, Q
  <2>3. R \in ListType /\ R.head = h /\ R.tail = L.tail /\ R.prev = P /\ R.next = Q
    BY <1>1, <1>8, <2>1, <2>2 DEF ListType
  <2> QED
    BY <2>3 DEF P, Q
<1> HIDE DEF R
<1>10. r \in [1..(n - m) -> Timers] /\ \A i \in 1..(n - m) : r[i] = s[i + m] /\ i + m \in 1..n
  BY <1>2, <1>8
<1> HIDE DEF r
<1>11. Linked(R.head, R.prev, R.next, r, n - m)
  <2>1. \A i, j \in 1..(n - m) : r[i] = r[j] => i = j
    <3> SUFFICES ASSUME NEW i \in 1..(n - m), NEW j \in 1..(n - m), r[i] = r[j]
                 PROVE  i = j
      OBVIOUS
    <3>1. i + m = j + m
      BY <1>2, <1>10
    <3> QED
      BY <1>8, <3>1
  <2>2. R.head = IF n - m = 0 THEN Null ELSE r[1]
    <3>1. n - m = 0 <=> m = n
      BY <1>2, <1>8
    <3>2. n - m # 0 => 1 \in 1..(n - m) /\ 1 + m = m + 1
      BY <1>8
    <3> QED
      BY <1>9, <1>10, <3>1, <3>2
  <2>3. ASSUME NEW i \in 1..(n - m)
        PROVE  /\ R.next[r[i]] = IF i = n - m THEN Null ELSE r[i + 1]
               /\ R.prev[r[i]] = IF i = 1 THEN Null ELSE r[i - 1]
    <3> DEFINE j == i + m
    <3>1. j \in 1..n /\ r[i] = s[j] /\ s[j] \in Timers /\ ~(j <= m) /\ m # n
          /\ (i = n - m <=> j = n) /\ (i = 1 <=> j = m + 1)
      <4>1. r[i] = s[j] /\ j \in 1..n
        BY <1>10
      <4>2. s[j] \in Timers
        BY <1>2, <4>1
      <4>3. n \in Nat /\ m \in Nat /\ m <= n /\ i \in Nat /\ 1 <= i /\ i <= n - m
        BY <1>2
      <4>4. /\ ~(j <= m) /\ m # n
            /\ (i = n - m <=> j = n) /\ (i = 1 <=> j = m + 1)
        BY ONLY <4>3
      <4> QED
        BY <4>1, <4>2, <4>4
    <3>2. /\ i # n - m => i + 1 \in 1..(n - m) /\ (i + 1) + m = j + 1
          /\ i # 1 => i - 1 \in 1..(n - m) /\ (i - 1) + m = j - 1
          /\ m + 1 \in 1..n /\ (j # 1 \/ m + 1 = j)
      BY <1>8
    <3>3. i # n - m => r[i + 1] = s[j + 1]
      BY <1>10, <3>2
    <3>4. i # 1 => r[i - 1] = s[j - 1]
      BY <1>10, <3>2
    <3> HIDE DEF j
    <3>5. s[j] \notin gone
      BY <1>5, <3>1
    <3>6. s[j] = h <=> j = m + 1
      BY <1>2, <1>8, <3>1
    <3>7. L.next[s[j]] = IF j = n THEN Null ELSE s[j + 1]
      BY <1>2, <3>1
    <3>8. R.next[r[i]] = L.next[s[j]]
      BY <1>9, <3>1, <3>5
    <3>9. R.prev[r[i]] = IF j = m + 1 THEN Null ELSE L.prev[s[j]]
      BY <1>9, <3>1, <3>5, <3>6
    <3>10. j # m + 1 => L.prev[s[j]] = s[j - 1]
      <4>1. j # m + 1 => j # 1
        BY <1>8, <3>1
      <4> QED
        BY <1>2, <3>1, <4>1
    <3> QED
      BY <3>1, <3>3, <3>4, <3>7, <3>8, <3>9, <3>10
  <2> QED
    BY <1>8, <1>10, <2>1, <2>2, <2>3 DEF Linked
<1>12. Nodes(r, n - m) = S \ gone
  <2>1. ASSUME NEW i \in 1..(n - m)
        PROVE  r[i] \in S \ gone
    <3>1. r[i] = s[i + m] /\ i + m \in 1..n /\ ~(i + m <= m)
      BY <1>8, <1>10
    <3> QED
      BY <1>0, <1>5, <3>1 DEF Nodes
  <2>2. ASSUME NEW j \in 1..n, s[j] \notin gone
        PROVE  s[j] \in Nodes(r, n - m)
    <3>1. ~(j <= m)
      BY <1>5, <2>2
    <3>2. j - m \in 1..(n - m) /\ (j - m) + m = j
      BY <1>2, <1>8, <3>1
    <3>3. r[j - m] = s[j]
      BY <1>10, <3>2
    <3> QED
      BY <3>2, <3>3 DEF Nodes
  <2> QED
    BY <1>0, <2>1, <2>2 DEF Nodes
<1>13. n - m # 0 => R.tail = r[n - m]
  <2>1. n \in Nat /\ m \in 0..n
    BY <1>2
  <2>2. n - m # 0 => n - m \in 1..(n - m) /\ (n - m) + m = n /\ n # 0
    BY ONLY <2>1
  <2> QED
    BY <1>2, <1>9, <1>10, <2>2
<1>14. Sorted(r, n - m, x2)
  <2> SUFFICES ASSUME NEW i \in 1..(n - m), NEW j \in 1..(n - m), i <= j
               PROVE  x2[r[i]] <= x2[r[j]]
    BY DEF Sorted
  <2>1. r[i] = s[i + m] /\ r[j] = s[j + m] /\ i + m \in 1..n /\ j + m \in 1..n /\ i + m <= j + m
    BY <1>8, <1>10
  <2>2. x[r[i]] <= x[r[j]]
    BY <1>1, <2>1 DEF Sorted
  <2>3. r[i] \in S \ gone /\ r[j] \in S \ gone
    BY <1>12 DEF Nodes
  <2> QED
    BY <2>2, <2>3 DEF gone
<1>15. \A u \in Timers : u \notin Nodes(r, n - m) => R.next[u] = Null
  BY <1>1, <1>9, <1>12
<1>16. ListOf(R, x2, r, n - m)
  BY <1>9, <1>11, <1>13, <1>14, <1>15 DEF ListOf
<1> QED
  BY <1>7, <1>12, <1>16 DEF ListInv, gone

\* The list is what lst_timer.h says of it.
IsFrom(L, f) == f = [p \in Pointer |-> IF p = Null THEN {} ELSE {p} \union f[L.next[p]]]

LEMMA ListWellFormed ==
  ASSUME NEW L, NEW x, NEW S, ListInv(L, x, S)
  PROVE  WellFormed(L, x, S)
<1>0. PICK n, s : ListOf(L, x, s, n) /\ S = Nodes(s, n)
  BY DEF ListInv
<1>1. /\ L.next \in [Timers -> Pointer]
      /\ Linked(L.head, L.prev, L.next, s, n) /\ Sorted(s, n, x) /\ (n # 0 => L.tail = s[n])
      /\ \A u \in Timers : u \notin Nodes(s, n) => L.next[u] = Null
      /\ Null \notin Timers
  BY <1>0, TimersAssumption DEF ListOf, ListType
<1>2. /\ n \in Nat /\ s \in [1..n -> Timers]
      /\ \A i, j \in 1..n : s[i] = s[j] => i = j
      /\ L.head = (IF n = 0 THEN Null ELSE s[1])
      /\ \A i \in 1..n : /\ L.next[s[i]] = IF i = n THEN Null ELSE s[i + 1]
                         /\ L.prev[s[i]] = IF i = 1 THEN Null ELSE s[i - 1]
      /\ \A i \in 1..n : s[i] \in S
  BY <1>0, <1>1 DEF Linked, Nodes
<1>3. n # 0 => 1 \in 1..n /\ n \in 1..n
  BY <1>2
<1>4. L.head = Null <=> S = {}
  <2>1. CASE n = 0
    <3>1. S = {}
      BY <1>0, <2>1 DEF Nodes
    <3> QED
      BY <1>2, <2>1, <3>1
  <2>2. CASE n # 0
    BY <1>1, <1>2, <1>3, <2>2
  <2> QED
    BY <2>1, <2>2
<1>5. S # {} => L.head \in S /\ L.tail \in S
  BY <1>1, <1>2, <1>3, <1>4
<1>6. ASSUME NEW t \in S
      PROVE  /\ L.prev[t] \in S \union {Null} /\ L.next[t] \in S \union {Null}
             /\ L.prev[t] = Null <=> t = L.head
             /\ L.next[t] = Null <=> t = L.tail
             /\ L.next[t] # Null => L.prev[L.next[t]] = t /\ x[t] <= x[L.next[t]]
  <2>1. PICK i \in 1..n : t = s[i]
    BY <1>0 DEF Nodes
  <2>2. n # 0
    BY <1>2
  <2>3. /\ i # n => i + 1 \in 1..n /\ i + 1 # 1 /\ (i + 1) - 1 = i /\ i <= i + 1
        /\ i # 1 => i - 1 \in 1..n
    BY <1>2
  <2>4. /\ L.next[t] = (IF i = n THEN Null ELSE s[i + 1])
        /\ L.prev[t] = (IF i = 1 THEN Null ELSE s[i - 1])
    BY <1>2, <2>1
  <2>5. (t = L.head <=> i = 1) /\ (t = L.tail <=> i = n)
    BY <1>1, <1>2, <1>3, <2>1, <2>2
  <2>6. i # n => s[i + 1] \in S /\ s[i + 1] # Null /\ L.prev[s[i + 1]] = s[i] /\ x[s[i]] <= x[s[i + 1]]
    BY <1>1, <1>2, <2>3 DEF Sorted
  <2>7. i # 1 => s[i - 1] \in S /\ s[i - 1] # Null
    BY <1>1, <1>2, <2>3
  <2> QED
    BY <2>1, <2>4, <2>5, <2>6, <2>7
<1> DEFINE from == CHOOSE f : IsFrom(L, f)
<1>7. from[L.head] = S
  <2>1. ASSUME NEW f
        PROVE  IsFrom(L, f) <=> IsWalk(L.next, Timers, f)
    <3>1. [p \in Pointer |-> IF p = Null THEN {} ELSE {p} \union f[L.next[p]]]
          = [p \in Pointer |-> IF p \in Timers THEN {p} \union f[L.next[p]] ELSE {}]
      BY <1>1 DEF Pointer
    <3> QED
      BY <3>1 DEF IsFrom, IsWalk
  <2>2. \A i, j \in 1..n : i <= j /\ s[j] \in Timers => s[i] \in Timers
    BY <1>2
  <2>3. /\ \E f : IsWalk(L.next, Timers, f)
        /\ \A f : IsWalk(L.next, Timers, f) => f[L.head] = Nodes(s, n) \intersect Timers
    BY <1>1, <2>2, WalkFinds
  <2>4. IsFrom(L, from)
    BY <2>1, <2>3
  <2> HIDE DEF from
  <2>5. S \intersect Timers = S
    BY <1>0, <1>2 DEF Nodes
  <2> QED
    BY <1>0, <2>1, <2>3, <2>4, <2>5
<1> QED
  BY <1>4, <1>5, <1>6, <1>7 DEF WellFormed, IsFrom
-----------------------------------------------------------------------------
(* The time wheel.                                                         *)

\* The nodes of slot z are s, the timers of S whose field names it.
SlotOf(w, S, z, s, n) == /\ Linked(w.slots[z], w.prev, w.next, s, n)
                         /\ Nodes(s, n) = {t \in S : w.time_slot[t] = z}

WheelInv(w, S) == /\ w \in W!WheelType /\ S \subseteq Timers
                  /\ \A t \in Timers : t \notin S => w.next[t] = Null
                  /\ \A z \in W!Slots : \E s, n : SlotOf(w, S, z, s, n)

LEMMA WheelNumbers == /\ WheelSize \in Nat \ {0} /\ WheelLife \in Nat \ {0} /\ TimeSlot \in Nat \ {0}
                      /\ 0 \in W!Slots /\ W!Slots \subseteq Nat
                      /\ \A x \in Nat : x % WheelSize \in W!Slots /\ x \div WheelSize \in Nat
  BY InactiveAssumption DEF W!Slots

LEMMA WheelFields ==
  ASSUME NEW w
  PROVE  w \in W!WheelType <=>
           /\ w = [slots |-> w.slots, cur_slot |-> w.cur_slot, rotation |-> w.rotation,
                   time_slot |-> w.time_slot, prev |-> w.prev, next |-> w.next]
           /\ w.slots \in [W!Slots -> Pointer] /\ w.cur_slot \in W!Slots
           /\ w.rotation \in [Timers -> Nat] /\ w.time_slot \in [Timers -> W!Slots]
           /\ w.prev \in [Timers -> Pointer] /\ w.next \in [Timers -> Pointer]
  BY DEF W!WheelType, W!Pointer, Pointer

LEMMA EmptyWheelInv == WheelInv(W!EmptyWheel, {})
<1>1. W!EmptyWheel \in W!WheelType
  BY WheelNumbers DEF W!EmptyWheel, W!WheelType, W!Pointer
<1>2. ASSUME NEW z \in W!Slots
      PROVE  \E s, n : SlotOf(W!EmptyWheel, {}, z, s, n)
  <2> DEFINE s == [i \in 1..0 |-> Null]
  <2>1. s \in [1..0 -> Timers] /\ 0 \in Nat /\ Nodes(s, 0) = {}
    BY DEF Nodes
  <2>2. SlotOf(W!EmptyWheel, {}, z, s, 0)
    BY <2>1 DEF SlotOf, Linked, W!EmptyWheel
  <2> QED
    BY <2>2
<1> QED
  BY <1>1, <1>2 DEF WheelInv, W!EmptyWheel

\* A list is not changed by what happens to other nodes.
LEMMA SameLinked ==
  ASSUME NEW h, NEW prev, NEW next, NEW s, NEW n, Linked(h, prev, next, s, n), NEW prev2, NEW next2,
         \A u \in Nodes(s, n) : prev2[u] = prev[u] /\ next2[u] = next[u]
  PROVE  Linked(h, prev2, next2, s, n)
<1>1. \A i \in 1..n : s[i] \in Nodes(s, n)
  BY DEF Nodes
<1> QED
  BY <1>1 DEF Linked

\* The wheel a is the wheel w with t.
Added(w, S, t, time, a) ==
    /\ WheelInv(a, S \union {t})
    /\ a.cur_slot = w.cur_slot
    /\ a.rotation[t] = W!Turns(W!Ticks(time))
    /\ a.time_slot[t] = (w.cur_slot + (W!Ticks(time) % WheelSize)) % WheelSize
    /\ \A u \in Timers \ {t} : a.rotation[u] = w.rotation[u] /\ a.time_slot[u] = w.time_slot[u]

\* add_timer of the wheel.
LEMMA AddWheelInv ==
  ASSUME NEW w, NEW S, WheelInv(w, S), NEW t \in Timers, t \notin S, NEW time \in Nat, NEW a,
         a = W!AddTimer(w, time, t)
  PROVE  Added(w, S, t, time, a)
<1> DEFINE ticks == W!Ticks(time)
           z == (w.cur_slot + (ticks % WheelSize)) % WheelSize
           h == w.slots[z]
           added == [w EXCEPT !.rotation[t] = W!Turns(ticks), !.time_slot[t] = z,
                              !.prev[t] = Null, !.next[t] = h, !.slots[z] = t]
           A == IF h = Null THEN added ELSE [added EXCEPT !.prev[h] = t]
<1>1. /\ w \in W!WheelType
      /\ w.slots \in [W!Slots -> Pointer] /\ w.cur_slot \in W!Slots
      /\ w.rotation \in [Timers -> Nat] /\ w.time_slot \in [Timers -> W!Slots]
      /\ w.prev \in [Timers -> Pointer] /\ w.next \in [Timers -> Pointer]
      /\ Null \in Pointer /\ Null \notin Timers /\ \A u \in Timers : u \in Pointer
  BY WheelFields, TimersAssumption DEF WheelInv, Pointer
<1>2. a = A
  BY DEF W!AddTimer
<1>3. ticks \in Nat /\ W!Turns(ticks) \in Nat /\ z \in W!Slots
  <2>1. ticks \in Nat
    BY WheelNumbers DEF W!Ticks
  <2> HIDE DEF ticks
  <2>2. ticks % WheelSize \in Nat /\ w.cur_slot \in Nat /\ ticks \div WheelSize \in Nat
    BY <1>1, <2>1, WheelNumbers
  <2>3. w.cur_slot + (ticks % WheelSize) \in Nat
    BY <2>2
  <2> QED
    BY <2>1, <2>2, <2>3, WheelNumbers DEF W!Turns
<1> HIDE DEF ticks, z
<1>4. PICK s, n : SlotOf(w, S, z, s, n)
  BY <1>3 DEF WheelInv
<1>5. /\ Linked(h, w.prev, w.next, s, n) /\ n \in Nat /\ s \in [1..n -> Timers]
      /\ h = (IF n = 0 THEN Null ELSE s[1])
      /\ (n # 0 => 1 \in 1..n) /\ \A i \in 1..n : s[i] \in S /\ s[i] # t
      /\ Nodes(s, n) = {u \in S : w.time_slot[u] = z}
  <2>1. Linked(h, w.prev, w.next, s, n) /\ n \in Nat /\ s \in [1..n -> Timers]
        /\ h = (IF n = 0 THEN Null ELSE s[1])
    BY <1>4 DEF SlotOf, Linked
  <2>2. n # 0 => 1 \in 1..n
    BY <2>1
  <2>3. Nodes(s, n) = {u \in S : w.time_slot[u] = z}
    BY <1>4 DEF SlotOf
  <2> QED
    BY <2>1, <2>2, <2>3 DEF Nodes
<1>6. h \in Pointer /\ (h # Null => h \in Timers /\ h # t /\ h \in S /\ w.time_slot[h] = z)
  <2>1. n # 0 => s[1] \in Nodes(s, n) /\ s[1] \in Timers
    BY <1>5 DEF Nodes
  <2> QED
    BY <1>1, <1>5, <2>1
<1> HIDE DEF h
<1>7. /\ A.slots = [w.slots EXCEPT ![z] = t] /\ A.cur_slot = w.cur_slot
      /\ A.rotation = [w.rotation EXCEPT ![t] = W!Turns(ticks)]
      /\ A.time_slot = [w.time_slot EXCEPT ![t] = z]
      /\ A.prev = (IF h = Null THEN [w.prev EXCEPT ![t] = Null]
                   ELSE [w.prev EXCEPT ![t] = Null, ![h] = t])
      /\ A.next = [w.next EXCEPT ![t] = h]
      /\ A = [slots |-> A.slots, cur_slot |-> A.cur_slot, rotation |-> A.rotation,
              time_slot |-> A.time_slot, prev |-> A.prev, next |-> A.next]
  <2>1. w = [slots |-> w.slots, cur_slot |-> w.cur_slot, rotation |-> w.rotation,
             time_slot |-> w.time_slot, prev |-> w.prev, next |-> w.next]
    BY <1>1, WheelFields
  <2>2. CASE h = Null
    BY <2>1, <2>2
  <2>3. CASE h # Null
    BY <2>1, <2>3
  <2> QED
    BY <2>2, <2>3
<1> HIDE DEF A
<1>8. A \in W!WheelType
  <2>1. A.slots \in [W!Slots -> Pointer] /\ A.cur_slot \in W!Slots
        /\ A.rotation \in [Timers -> Nat] /\ A.time_slot \in [Timers -> W!Slots]
    BY <1>1, <1>3, <1>7
  <2>2. A.prev \in [Timers -> Pointer] /\ A.next \in [Timers -> Pointer]
    BY <1>1, <1>6, <1>7
  <2> QED
    BY <1>7, <2>1, <2>2, WheelFields
<1>9. /\ A.next[t] = h /\ A.prev[t] = Null
      /\ \A u \in Timers \ {t} : A.next[u] = w.next[u]
      /\ \A u \in Timers \ {t} : A.prev[u] = IF h # Null /\ u = h THEN t ELSE w.prev[u]
      /\ A.rotation[t] = W!Turns(ticks) /\ A.time_slot[t] = z
      /\ \A u \in Timers \ {t} : A.rotation[u] = w.rotation[u] /\ A.time_slot[u] = w.time_slot[u]
      /\ A.slots[z] = t /\ \A y \in W!Slots \ {z} : A.slots[y] = w.slots[y]
  <2>1. A.next[t] = h /\ \A u \in Timers \ {t} : A.next[u] = w.next[u]
    BY <1>1, <1>7
  <2>2. A.prev[t] = Null
        /\ \A u \in Timers \ {t} : A.prev[u] = IF h # Null /\ u = h THEN t ELSE w.prev[u]
    BY <1>1, <1>6, <1>7
  <2>3. /\ A.rotation[t] = W!Turns(ticks) /\ A.time_slot[t] = z
        /\ \A u \in Timers \ {t} : A.rotation[u] = w.rotation[u] /\ A.time_slot[u] = w.time_slot[u]
    BY <1>1, <1>7
  <2>4. A.slots[z] = t /\ \A y \in W!Slots \ {z} : A.slots[y] = w.slots[y]
    BY <1>1, <1>3, <1>7
  <2> QED
    BY <2>1, <2>2, <2>3, <2>4
<1>10. S \subseteq Timers /\ \A u \in Timers : u \notin S => w.next[u] = Null
  BY DEF WheelInv
<1>11. ASSUME NEW y \in W!Slots
       PROVE  \E r, m : SlotOf(A, S \union {t}, y, r, m)
  <2>1. CASE y = z
    <3> DEFINE k == 0
               r == With(s, n, k, t)
    <3>1. k \in 0..n /\ k = 0 /\ k + 1 = 1 /\ (k = n <=> h = Null)
      BY <1>1, <1>5
    <3> HIDE DEF k
    <3>2. r = With(s, n, k, t) /\ t \in Timers /\ t \notin Nodes(s, n)
      BY <1>5
    <3> HIDE DEF r
    <3>3. /\ A.slots[z] = (IF k = 0 THEN t ELSE h)
          /\ A.next[t] = (IF k = n THEN Null ELSE s[k + 1])
          /\ A.prev[t] = (IF k = 0 THEN Null ELSE s[k])
          /\ \A u \in Timers \ {t} : A.next[u] = IF k # 0 /\ u = s[k] THEN t ELSE w.next[u]
          /\ \A u \in Timers \ {t} : A.prev[u] = IF k # n /\ u = s[k + 1] THEN t ELSE w.prev[u]
      BY <1>5, <1>9, <3>1
    <3>4. Linked(A.slots[z], A.prev, A.next, r, n + 1) /\ Nodes(r, n + 1) = Nodes(s, n) \union {t}
      BY ONLY <1>5, <3>1, <3>2, <3>3, Inserted
    <3>5. Nodes(r, n + 1) = {u \in S \union {t} : A.time_slot[u] = y}
      BY <1>5, <1>9, <1>10, <2>1, <3>4
    <3> QED
      BY <2>1, <3>4, <3>5 DEF SlotOf
  <2>2. CASE y # z
    <3>1. PICK r, m : SlotOf(w, S, y, r, m)
      BY DEF WheelInv
    <3>2. \A u \in Nodes(r, m) : u \in Timers \ {t} /\ u # h
      <4>1. \A u \in Nodes(r, m) : u \in S /\ w.time_slot[u] = y
        BY <3>1 DEF SlotOf
      <4> QED
        BY <1>1, <1>6, <1>10, <2>2, <4>1
    <3>3. \A u \in Nodes(r, m) : A.prev[u] = w.prev[u] /\ A.next[u] = w.next[u]
      BY <1>9, <3>2
    <3>4. Linked(A.slots[y], A.prev, A.next, r, m)
      <4>1. Linked(w.slots[y], w.prev, w.next, r, m) /\ A.slots[y] = w.slots[y]
        BY <1>9, <2>2, <3>1 DEF SlotOf
      <4> QED
        BY ONLY <3>3, <4>1, SameLinked
    <3>5. Nodes(r, m) = {u \in S \union {t} : A.time_slot[u] = y}
      BY <1>9, <1>10, <2>2, <3>1 DEF SlotOf
    <3> QED
      BY <3>4, <3>5 DEF SlotOf
  <2> QED
    BY <2>1, <2>2
<1>12. WheelInv(A, S \union {t})
  <2>1. \A u \in Timers : u \notin S \union {t} => A.next[u] = Null
    BY <1>9, <1>10
  <2> QED
    BY <1>8, <1>10, <1>11, <2>1 DEF WheelInv
<1> QED
  BY <1>2, <1>7, <1>9, <1>12 DEF ticks, z, Added

\* The wheel a is the wheel w without t.
Unlinked(w, S, t, a) ==
    /\ WheelInv(a, S \ {t})
    /\ a.cur_slot = w.cur_slot
    /\ \A u \in Timers \ {t} : a.rotation[u] = w.rotation[u] /\ a.time_slot[u] = w.time_slot[u]

\* A timer leaves the list of its slot.
LEMMA UnlinkWheelInv ==
  ASSUME NEW w, NEW S, WheelInv(w, S), NEW t \in S, NEW z, z = w.time_slot[t],
         NEW a, a = W!Unlink(w, z, t)
  PROVE  Unlinked(w, S, t, a)
<1>1. /\ w \in W!WheelType /\ S \subseteq Timers /\ t \in Timers
      /\ w.slots \in [W!Slots -> Pointer] /\ w.cur_slot \in W!Slots
      /\ w.rotation \in [Timers -> Nat] /\ w.time_slot \in [Timers -> W!Slots]
      /\ w.prev \in [Timers -> Pointer] /\ w.next \in [Timers -> Pointer]
      /\ Null \in Pointer /\ Null \notin Timers /\ \A u \in Timers : u \in Pointer
      /\ \A u \in Timers : u \notin S => w.next[u] = Null
      /\ w = [slots |-> w.slots, cur_slot |-> w.cur_slot, rotation |-> w.rotation,
              time_slot |-> w.time_slot, prev |-> w.prev, next |-> w.next]
  BY WheelFields, TimersAssumption DEF WheelInv, Pointer
<1>2. z \in W!Slots
  BY <1>1
<1>3. PICK s, n : SlotOf(w, S, z, s, n)
  BY <1>2 DEF WheelInv
<1>4. /\ Linked(w.slots[z], w.prev, w.next, s, n) /\ n \in Nat /\ s \in [1..n -> Timers]
      /\ \A i, j \in 1..n : s[i] = s[j] => i = j
      /\ w.slots[z] = (IF n = 0 THEN Null ELSE s[1])
      /\ \A i \in 1..n : /\ w.next[s[i]] = IF i = n THEN Null ELSE s[i + 1]
                         /\ w.prev[s[i]] = IF i = 1 THEN Null ELSE s[i - 1]
      /\ Nodes(s, n) = {u \in S : w.time_slot[u] = z}
  BY <1>3 DEF SlotOf, Linked
<1>5. PICK k \in 1..n : s[k] = t
  <2>1. t \in Nodes(s, n)
    BY <1>4
  <2> QED
    BY <2>1 DEF Nodes
<1>6. /\ \A i \in 1..n : s[i] \in S /\ w.time_slot[s[i]] = z /\ s[i] \in Timers
      /\ w.slots[z] = t <=> k = 1
  <2>1. \A i \in 1..n : s[i] \in Nodes(s, n)
    BY DEF Nodes
  <2>2. 1 \in 1..n /\ n # 0
    BY <1>4
  <2> QED
    BY <1>1, <1>4, <1>5, <2>1, <2>2
<1> DEFINE q == w.next[t]
           p == w.prev[t]
           cut == IF w.slots[z] = t THEN [w EXCEPT !.slots[z] = q] ELSE [w EXCEPT !.next[p] = q]
           D == IF q = Null THEN cut
                ELSE [cut EXCEPT !.prev[q] = IF w.slots[z] = t THEN Null ELSE p]
           A == W!Freed(D, t)
<1>7. a = A
  BY DEF W!Unlink
<1>8. /\ q = (IF k = n THEN Null ELSE s[k + 1]) /\ p = (IF k = 1 THEN Null ELSE s[k - 1])
      /\ q \in Pointer /\ p \in Pointer
      /\ (k = n <=> q = Null)
      /\ k # n => q \in Timers /\ q # t /\ q \in S /\ w.time_slot[q] = z
      /\ k # 1 => p \in Timers /\ p # t /\ p \in S /\ w.time_slot[p] = z
  <2>1. k # n => k + 1 \in 1..n /\ k + 1 # k
    BY <1>4
  <2>2. k # 1 => k - 1 \in 1..n /\ k - 1 # k
    BY <1>4
  <2>3. q = (IF k = n THEN Null ELSE s[k + 1]) /\ p = (IF k = 1 THEN Null ELSE s[k - 1])
    BY <1>4, <1>5
  <2>4. k # n => q \in Timers /\ q # t /\ q \in S /\ w.time_slot[q] = z
    BY <1>4, <1>5, <1>6, <2>1, <2>3
  <2>5. k # 1 => p \in Timers /\ p # t /\ p \in S /\ w.time_slot[p] = z
    BY <1>4, <1>5, <1>6, <2>2, <2>3
  <2> QED
    BY <1>1, <2>3, <2>4, <2>5
<1>9. w.next[s[k]] = q /\ w.prev[s[k]] = p
  BY <1>5
<1> HIDE DEF p, q
<1>10. /\ D.slots = (IF k = 1 THEN [w.slots EXCEPT ![z] = q] ELSE w.slots)
       /\ D.cur_slot = w.cur_slot /\ D.rotation = w.rotation /\ D.time_slot = w.time_slot
       /\ D.prev = (IF k = n THEN w.prev ELSE [w.prev EXCEPT ![q] = p])
       /\ D.next = (IF k = 1 THEN w.next ELSE [w.next EXCEPT ![p] = q])
       /\ D = [slots |-> D.slots, cur_slot |-> D.cur_slot, rotation |-> D.rotation,
               time_slot |-> D.time_slot, prev |-> D.prev, next |-> D.next]
  <2>1. /\ cut.slots = (IF k = 1 THEN [w.slots EXCEPT ![z] = q] ELSE w.slots)
        /\ cut.cur_slot = w.cur_slot /\ cut.rotation = w.rotation /\ cut.time_slot = w.time_slot
        /\ cut.prev = w.prev
        /\ cut.next = (IF k = 1 THEN w.next ELSE [w.next EXCEPT ![p] = q])
    <3>1. CASE k = 1
      BY <1>1, <1>6, <3>1
    <3>2. CASE k # 1
      BY <1>1, <1>6, <3>2
    <3> QED
      BY <3>1, <3>2
  <2>2. cut = [slots |-> cut.slots, cur_slot |-> cut.cur_slot, rotation |-> cut.rotation,
               time_slot |-> cut.time_slot, prev |-> cut.prev, next |-> cut.next]
    <3>1. CASE k = 1
      BY <1>1, <1>6, <3>1
    <3>2. CASE k # 1
      BY <1>1, <1>6, <3>2
    <3> QED
      BY <3>1, <3>2
  <2> HIDE DEF cut
  <2>3. (IF w.slots[z] = t THEN Null ELSE p) = p
    BY <1>6, <1>8
  <2>4. D = IF k = n THEN cut ELSE [cut EXCEPT !.prev[q] = p]
    BY <1>8, <2>3
  <2> HIDE DEF D
  <2>5. CASE k = n
    BY <2>1, <2>2, <2>4, <2>5
  <2>6. CASE k # n
    BY <2>1, <2>2, <2>4, <2>6
  <2> QED
    BY <2>5, <2>6
<1> HIDE DEF D
<1>11. /\ A.slots = D.slots /\ A.cur_slot = D.cur_slot
       /\ A.rotation = [D.rotation EXCEPT ![t] = 0] /\ A.time_slot = [D.time_slot EXCEPT ![t] = 0]
       /\ A.prev = [D.prev EXCEPT ![t] = Null] /\ A.next = [D.next EXCEPT ![t] = Null]
       /\ D.prev \in [Timers -> Pointer] /\ D.next \in [Timers -> Pointer]
       /\ A \in W!WheelType
  <2>1. D = [slots |-> D.slots, cur_slot |-> D.cur_slot, rotation |-> D.rotation,
             time_slot |-> D.time_slot, prev |-> D.prev, next |-> D.next]
    BY <1>10
  <2>2. A.slots = D.slots /\ A.cur_slot = D.cur_slot
    BY ONLY <2>1 DEF W!Freed
  <2>3. A.rotation = [D.rotation EXCEPT ![t] = 0] /\ A.time_slot = [D.time_slot EXCEPT ![t] = 0]
    BY ONLY <2>1 DEF W!Freed
  <2>4. A.prev = [D.prev EXCEPT ![t] = Null] /\ A.next = [D.next EXCEPT ![t] = Null]
    BY ONLY <2>1 DEF W!Freed
  <2>5. D.prev \in [Timers -> Pointer] /\ D.next \in [Timers -> Pointer]
    BY <1>1, <1>8, <1>10
  <2>6. D \in W!WheelType
    <3>1. D.slots \in [W!Slots -> Pointer] /\ D.cur_slot \in W!Slots
          /\ D.rotation \in [Timers -> Nat] /\ D.time_slot \in [Timers -> W!Slots]
      BY <1>1, <1>2, <1>8, <1>10
    <3> QED
      BY <2>1, <2>5, <3>1, WheelFields
  <2>7. A \in W!WheelType
    BY <1>1, <2>6, WheelNumbers DEF W!Freed, W!WheelType, W!Pointer, Pointer
  <2> QED
    BY ONLY <2>2, <2>3, <2>4, <2>5, <2>7
<1> HIDE DEF A
<1>12. /\ A.next[t] = Null
       /\ \A u \in Timers \ {t} : A.next[u] = IF k # 1 /\ u = p THEN q ELSE w.next[u]
       /\ \A u \in Timers \ {t} : A.prev[u] = IF k # n /\ u = q THEN p ELSE w.prev[u]
  <2>1. \A u \in Timers \ {t} : A.next[u] = D.next[u] /\ A.prev[u] = D.prev[u]
    BY <1>11
  <2>2. \A u \in Timers \ {t} : D.next[u] = IF k # 1 /\ u = p THEN q ELSE w.next[u]
    BY <1>1, <1>8, <1>10
  <2>3. \A u \in Timers \ {t} : D.prev[u] = IF k # n /\ u = q THEN p ELSE w.prev[u]
    BY <1>1, <1>8, <1>10
  <2>4. A.next[t] = Null
    BY <1>1, <1>11
  <2> QED
    BY <2>1, <2>2, <2>3, <2>4
<1>13. /\ A.slots[z] = (IF k = 1 THEN q ELSE w.slots[z])
       /\ \A y \in W!Slots \ {z} : A.slots[y] = w.slots[y]
       /\ \A u \in Timers \ {t} : A.rotation[u] = w.rotation[u] /\ A.time_slot[u] = w.time_slot[u]
  <2>1. A.slots[z] = (IF k = 1 THEN q ELSE w.slots[z])
        /\ \A y \in W!Slots \ {z} : A.slots[y] = w.slots[y]
    BY <1>1, <1>2, <1>10, <1>11
  <2>2. \A u \in Timers \ {t} : A.rotation[u] = w.rotation[u] /\ A.time_slot[u] = w.time_slot[u]
    BY <1>1, <1>10, <1>11
  <2> QED
    BY <2>1, <2>2
<1>14. ASSUME NEW y \in W!Slots
       PROVE  \E r, m : SlotOf(A, S \ {t}, y, r, m)
  <2>1. CASE y = z
    <3> DEFINE r == Without(s, n, k)
    <3>1. A.slots[z] = IF k = 1 THEN w.next[s[1]] ELSE w.slots[z]
      BY <1>9, <1>13
    <3>2. \A u \in Timers \ {s[k]} :
             A.next[u] = IF k # 1 /\ u = s[k - 1] THEN w.next[s[k]] ELSE w.next[u]
      BY <1>5, <1>8, <1>9, <1>12
    <3>3. \A u \in Timers \ {s[k]} :
             A.prev[u] = IF k # n /\ u = s[k + 1] THEN w.prev[s[k]] ELSE w.prev[u]
      BY <1>5, <1>8, <1>9, <1>12
    <3>4. k \in 1..n
      OBVIOUS
    <3> HIDE DEF r
    <3>5. r = Without(s, n, k)
      BY DEF r
    <3>6. Linked(A.slots[z], A.prev, A.next, r, n - 1) /\ Nodes(r, n - 1) = Nodes(s, n) \ {t}
      <4> DEFINE h == w.slots[z]
                 h2 == A.slots[z]
      <4>1. Linked(h, w.prev, w.next, s, n) /\ h2 = (IF k = 1 THEN w.next[s[1]] ELSE h)
        BY <1>4, <3>1
      <4>2. h2 = A.slots[z]
        OBVIOUS
      <4> HIDE DEF h, h2
      <4>3. Linked(h2, A.prev, A.next, r, n - 1) /\ Nodes(r, n - 1) = Nodes(s, n) \ {s[k]}
        BY ONLY <4>1, <3>2, <3>3, <3>4, <3>5, Removed
      <4> QED
        BY <1>5, <4>2, <4>3
    <3>7. Nodes(r, n - 1) = {u \in S \ {t} : A.time_slot[u] = y}
      BY <1>1, <1>4, <1>13, <2>1, <3>6
    <3> QED
      BY <2>1, <3>6, <3>7 DEF SlotOf
  <2>2. CASE y # z
    <3>1. PICK r, m : SlotOf(w, S, y, r, m)
      BY DEF WheelInv
    <3>2. \A u \in Nodes(r, m) : u \in Timers \ {t} /\ (k # n => u # q) /\ (k # 1 => u # p)
      <4>1. \A u \in Nodes(r, m) : u \in S /\ w.time_slot[u] = y
        BY <3>1 DEF SlotOf
      <4> QED
        BY <1>1, <1>8, <2>2, <4>1
    <3>3. \A u \in Nodes(r, m) : A.prev[u] = w.prev[u] /\ A.next[u] = w.next[u]
      BY <1>12, <3>2
    <3>4. Linked(A.slots[y], A.prev, A.next, r, m)
      <4>1. Linked(w.slots[y], w.prev, w.next, r, m) /\ A.slots[y] = w.slots[y]
        BY <1>13, <2>2, <3>1 DEF SlotOf
      <4> QED
        BY ONLY <3>3, <4>1, SameLinked
    <3>5. Nodes(r, m) = {u \in S \ {t} : A.time_slot[u] = y}
      <4>1. Nodes(r, m) = {u \in S : w.time_slot[u] = y}
        BY <3>1 DEF SlotOf
      <4> QED
        BY <1>1, <1>13, <2>2, <4>1
    <3> QED
      BY <3>4, <3>5 DEF SlotOf
  <2> QED
    BY <2>1, <2>2
<1>15. WheelInv(A, S \ {t})
  <2>1. ASSUME NEW u \in Timers, u \notin S \ {t}
        PROVE  A.next[u] = Null
    <3>1. CASE u = t
      BY <1>12, <3>1
    <3>2. CASE u # t
      <4>1. u \notin S /\ (k # 1 => u # p)
        BY <1>8, <2>1, <3>2
      <4> QED
        BY <1>1, <1>12, <3>2, <4>1
    <3> QED
      BY <3>1, <3>2
  <2> QED
    BY <1>1, <1>11, <1>14, <2>1 DEF WheelInv
<1> QED
  BY <1>7, <1>10, <1>11, <1>13, <1>15 DEF Unlinked

\* The walk along the list of a slot.
IsChain(w, f) == f = [p \in W!Pointer |-> IF p = Null THEN << >> ELSE <<p>> \o f[w.next[p]]]

FromOn(s, n, i) == [j \in 1..((n - i) + 1) |-> s[(i - 1) + j]]

LEMMA FromOnStep ==
  ASSUME NEW n, NEW s, n \in Nat, s \in [1..n -> Timers], NEW i \in 1..n
  PROVE  FromOn(s, n, i) = <<s[i]>> \o IF i = n THEN << >> ELSE FromOn(s, n, i + 1)
<1>1. CASE i = n
  BY <1>1 DEF FromOn
<1>2. CASE i # n
  BY <1>2 DEF FromOn
<1> QED
  BY <1>1, <1>2

LEMMA WholeChain ==
  ASSUME NEW n, NEW s, n \in Nat, s \in [1..n -> Timers]
  PROVE  /\ s \in Seq(Timers) /\ Len(s) = n /\ DOMAIN s = 1..n
         /\ s = IF n = 0 THEN << >> ELSE FromOn(s, n, 1)
<1>1. s \in Seq(Timers) /\ Len(s) = n /\ DOMAIN s = 1..n
  OBVIOUS
<1>2. CASE n = 0
  BY <1>2
<1>3. CASE n # 0
  <2>1. FromOn(s, n, 1) = [j \in 1..n |-> s[j]]
    BY <1>3 DEF FromOn
  <2> QED
    BY <1>3, <2>1
<1> QED
  BY <1>1, <1>2, <1>3

LEMMA ChainExists == ASSUME NEW w, NEW S, WheelInv(w, S) PROVE \E f : IsChain(w, f)
<1>1. /\ w.next \in [Timers -> Pointer] /\ w.time_slot \in [Timers -> W!Slots] /\ S \subseteq Timers
      /\ \A u \in Timers : u \notin S => w.next[u] = Null
      /\ Null \notin Timers /\ Null \in Pointer /\ \A u \in Timers : u \in Pointer
  BY WheelFields, TimersAssumption DEF WheelInv, Pointer
<1> DEFINE num(z) == CHOOSE n : \E s : SlotOf(w, S, z, s, n)
           seq(z) == CHOOSE s : SlotOf(w, S, z, s, num(z))
           pos(z, p) == CHOOSE i \in 1..num(z) : seq(z)[i] = p
           rest(p) == FromOn(seq(w.time_slot[p]), num(w.time_slot[p]), pos(w.time_slot[p], p))
           f == [p \in Pointer |-> IF p = Null THEN << >> ELSE IF p \in S THEN rest(p) ELSE <<p>>]
<1>2. ASSUME NEW z \in W!Slots
      PROVE  SlotOf(w, S, z, seq(z), num(z))
  BY DEF WheelInv
<1> HIDE DEF num, seq
<1>3. ASSUME NEW z \in W!Slots, NEW i \in 1..num(z)
      PROVE  /\ num(z) \in Nat /\ seq(z) \in [1..num(z) -> Timers]
             /\ seq(z)[i] \in S /\ w.time_slot[seq(z)[i]] = z /\ pos(z, seq(z)[i]) = i
             /\ w.next[seq(z)[i]] = IF i = num(z) THEN Null ELSE seq(z)[i + 1]
  <2>1. /\ num(z) \in Nat /\ seq(z) \in [1..num(z) -> Timers]
        /\ \A j, k \in 1..num(z) : seq(z)[j] = seq(z)[k] => j = k
        /\ w.next[seq(z)[i]] = IF i = num(z) THEN Null ELSE seq(z)[i + 1]
        /\ Nodes(seq(z), num(z)) = {t \in S : w.time_slot[t] = z}
    BY <1>2 DEF SlotOf, Linked
  <2>2. seq(z)[i] \in Nodes(seq(z), num(z))
    BY DEF Nodes
  <2> QED
    BY <2>1, <2>2
<1>4. ASSUME NEW p \in S
      PROVE  w.time_slot[p] \in W!Slots /\ \E i \in 1..num(w.time_slot[p]) : p = seq(w.time_slot[p])[i]
  <2>1. w.time_slot[p] \in W!Slots
    BY <1>1
  <2>2. p \in Nodes(seq(w.time_slot[p]), num(w.time_slot[p]))
    BY <1>2, <2>1 DEF SlotOf
  <2> QED
    BY <2>1, <2>2 DEF Nodes
<1> HIDE DEF pos
<1>5. ASSUME NEW p \in Pointer
      PROVE  f[p] = IF p = Null THEN << >> ELSE <<p>> \o f[w.next[p]]
  <2>1. CASE p = Null
    BY <2>1
  <2>2. CASE p # Null /\ p \notin S
    <3>1. w.next[p] = Null /\ f[w.next[p]] = << >>
      BY <1>1, <2>2 DEF Pointer
    <3>2. f[p] = <<p>>
      BY <2>2
    <3> HIDE DEF f
    <3>3. <<p>> \o << >> = <<p>>
      OBVIOUS
    <3> QED
      BY <2>2, <3>1, <3>2, <3>3
  <2>3. CASE p \in S
    <3> DEFINE z == w.time_slot[p]
               s == seq(z)
               n == num(z)
    <3>1. z \in W!Slots
      BY <1>4, <2>3
    <3>2. PICK i \in 1..n : p = s[i]
      BY <1>4, <2>3
    <3>3. /\ n \in Nat /\ s \in [1..n -> Timers] /\ pos(z, p) = i
          /\ w.next[p] = IF i = n THEN Null ELSE s[i + 1]
      BY <1>3, <3>1, <3>2
    <3>4. f[p] = FromOn(s, n, i) /\ p # Null
      BY <1>1, <2>3, <3>3
    <3>5. FromOn(s, n, i) = <<p>> \o IF i = n THEN << >> ELSE FromOn(s, n, i + 1)
      BY <3>2, <3>3, FromOnStep
    <3>6. f[w.next[p]] = IF i = n THEN << >> ELSE FromOn(s, n, i + 1)
      <4>1. CASE i = n
        BY <1>1, <3>3, <4>1
      <4>2. CASE i # n
        <5>1. i + 1 \in 1..n
          BY <3>3, <4>2
        <5>2. s[i + 1] \in S /\ w.time_slot[s[i + 1]] = z /\ pos(z, s[i + 1]) = i + 1
          BY <1>3, <3>1, <5>1
        <5>3. s[i + 1] \in Pointer /\ s[i + 1] # Null
          BY <1>1, <5>2
        <5>4. f[s[i + 1]] = FromOn(s, n, i + 1)
          BY <5>2, <5>3
        <5> QED
          BY <3>3, <4>2, <5>4
      <4> QED
        BY <4>1, <4>2
    <3> HIDE DEF f, s, n
    <3> QED
      BY <3>4, <3>5, <3>6
  <2> QED
    BY <2>1, <2>2, <2>3
<1>6. f = [p \in Pointer |-> IF p = Null THEN << >> ELSE <<p>> \o f[w.next[p]]]
  BY <1>5
<1> HIDE DEF f
<1> QED
  BY <1>6 DEF IsChain, W!Pointer, Pointer

\* It collects the nodes.
LEMMA ChainValue ==
  ASSUME NEW w, NEW S, WheelInv(w, S), NEW z \in W!Slots, NEW s, NEW n, SlotOf(w, S, z, s, n)
  PROVE  W!Chain(w, z) = s
<1> DEFINE g == CHOOSE f : IsChain(w, f)
<1>1. W!Chain(w, z) = g[w.slots[z]]
  BY DEF W!Chain, IsChain
<1>2. IsChain(w, g)
  BY ChainExists
<1> HIDE DEF g
<1>3. \A p \in Pointer : g[p] = IF p = Null THEN << >> ELSE <<p>> \o g[w.next[p]]
  BY <1>2 DEF IsChain, W!Pointer, Pointer
<1>4. /\ n \in Nat /\ s \in [1..n -> Timers] /\ w.slots[z] = (IF n = 0 THEN Null ELSE s[1])
      /\ \A i \in 1..n : w.next[s[i]] = IF i = n THEN Null ELSE s[i + 1]
      /\ Null \in Pointer /\ Null \notin Timers /\ \A u \in Timers : u \in Pointer
  BY TimersAssumption DEF SlotOf, Linked, Pointer
<1> DEFINE G == {i \in 1..n : g[s[i]] = FromOn(s, n, i)}
<1>5. ASSUME NEW i \in 1..n, i = n \/ i + 1 \in G
      PROVE  i \in G
  <2>1. g[s[i]] = <<s[i]>> \o g[w.next[s[i]]]
    BY <1>3, <1>4
  <2>2. g[w.next[s[i]]] = IF i = n THEN << >> ELSE FromOn(s, n, i + 1)
    BY <1>3, <1>4, <1>5
  <2>3. FromOn(s, n, i) = <<s[i]>> \o IF i = n THEN << >> ELSE FromOn(s, n, i + 1)
    BY <1>4, FromOnStep
  <2> QED
    BY <2>1, <2>2, <2>3
<1>6. \A i \in 1..n : i \in G
  BY ONLY <1>4, <1>5, Backwards
<1>7. g[w.slots[z]] = IF n = 0 THEN << >> ELSE FromOn(s, n, 1)
  <2>1. CASE n = 0
    BY <1>3, <1>4, <2>1
  <2>2. CASE n # 0
    <3>1. 1 \in 1..n
      BY <1>4, <2>2
    <3> QED
      BY <1>4, <1>6, <2>2, <3>1
  <2> QED
    BY <2>1, <2>2
<1>8. s = IF n = 0 THEN << >> ELSE FromOn(s, n, 1)
  BY <1>4, WholeChain
<1> QED
  BY <1>1, <1>7, <1>8

\* What tick fires.
LEMMA FiredInv ==
  ASSUME NEW w, NEW S, WheelInv(w, S)
  PROVE  W!Fired(w) = {t \in S : w.time_slot[t] = w.cur_slot /\ w.rotation[t] = 0}
<1>1. w.cur_slot \in W!Slots /\ S \subseteq Timers
  BY WheelFields DEF WheelInv
<1>2. PICK s, n : SlotOf(w, S, w.cur_slot, s, n)
  BY <1>1 DEF WheelInv
<1>3. n \in Nat /\ s \in [1..n -> Timers] /\ Nodes(s, n) = {t \in S : w.time_slot[t] = w.cur_slot}
  BY <1>2 DEF SlotOf, Linked
<1>4. W!Range(W!Chain(w, w.cur_slot)) = Nodes(s, n)
  <2>1. W!Chain(w, w.cur_slot) = s /\ DOMAIN s = 1..n
    BY <1>1, <1>2, <1>3, ChainValue
  <2> QED
    BY <2>1 DEF W!Range, Nodes
<1> QED
  BY <1>1, <1>3, <1>4 DEF W!Fired

\* The wheel is what WellFormed says of it.
LEMMA WheelWellFormed == ASSUME NEW w, NEW S, WheelInv(w, S) PROVE W!WellFormed(w, S)
<1>1. w.time_slot \in [Timers -> W!Slots] /\ S \subseteq Timers
  BY WheelFields DEF WheelInv
<1>2. ASSUME NEW z \in W!Slots
      PROVE  \E s, n : /\ W!Chain(w, z) = s /\ SlotOf(w, S, z, s, n)
                       /\ n \in Nat /\ s \in [1..n -> Timers] /\ DOMAIN s = 1..n /\ Len(s) = n
  <2>1. PICK s, n : SlotOf(w, S, z, s, n)
    BY DEF WheelInv
  <2>2. n \in Nat /\ s \in [1..n -> Timers] /\ W!Chain(w, z) = s
    <3>1. n \in Nat /\ s \in [1..n -> Timers]
      BY <2>1 DEF SlotOf, Linked
    <3> QED
      BY <2>1, <3>1, ChainValue
  <2>3. DOMAIN s = 1..n /\ Len(s) = n
    BY <2>2, WholeChain
  <2> QED
    BY <2>1, <2>2, <2>3
<1>3. ASSUME NEW t \in S
      PROVE  t \in W!Range(W!Chain(w, w.time_slot[t]))
  <2>1. PICK s, n : /\ W!Chain(w, w.time_slot[t]) = s /\ SlotOf(w, S, w.time_slot[t], s, n)
                    /\ n \in Nat /\ s \in [1..n -> Timers] /\ DOMAIN s = 1..n
    BY <1>1, <1>2
  <2>2. t \in Nodes(s, n)
    BY <2>1 DEF SlotOf
  <2> QED
    BY <2>1, <2>2 DEF W!Range, Nodes
<1>4. ASSUME NEW z \in W!Slots
      PROVE  /\ W!IsInjective(W!Chain(w, z))
             /\ \A i \in 1..Len(W!Chain(w, z)) :
                   /\ W!Chain(w, z)[i] \in S /\ w.time_slot[W!Chain(w, z)[i]] = z
                   /\ w.prev[W!Chain(w, z)[i]] = IF i = 1 THEN Null ELSE W!Chain(w, z)[i - 1]
  <2>1. PICK s, n : /\ W!Chain(w, z) = s /\ SlotOf(w, S, z, s, n)
                    /\ n \in Nat /\ s \in [1..n -> Timers] /\ DOMAIN s = 1..n /\ Len(s) = n
    BY <1>2
  <2>2. \A i, j \in 1..n : s[i] = s[j] => i = j
    BY <2>1 DEF SlotOf, Linked
  <2>3. W!IsInjective(s)
    BY <2>1, <2>2 DEF W!IsInjective
  <2>4. \A i \in 1..n : w.prev[s[i]] = IF i = 1 THEN Null ELSE s[i - 1]
    BY <2>1 DEF SlotOf, Linked
  <2>5. \A i \in 1..n : s[i] \in S /\ w.time_slot[s[i]] = z
    <3>1. \A i \in 1..n : s[i] \in Nodes(s, n)
      BY DEF Nodes
    <3> QED
      BY <2>1, <3>1 DEF SlotOf
  <2> QED
    BY <2>1, <2>3, <2>4, <2>5
<1> QED
  BY <1>3, <1>4 DEF W!WellFormed

\* What holds first, and after each step before which it holds, holds at every step.
LEMMA Forwards ==
  ASSUME NEW n \in Nat, NEW G, 0 \in G, \A i \in 0..(n - 1) : i \in G => i + 1 \in G
  PROVE  \A i \in 0..n : i \in G
<1> DEFINE D == {i \in 0..n : i \notin G}
<1>1. SUFFICES ASSUME D # {}
               PROVE  FALSE
  OBVIOUS
<1>2. D \in SUBSET Nat
  OBVIOUS
<1>3. PICK d \in D : \A e \in D : d <= e
  BY <1>1, <1>2, LeastExists
<1>4. d \in 0..n /\ d \notin G /\ d # 0
  OBVIOUS
<1>5. d - 1 \in 0..(n - 1) /\ d - 1 \in 0..n /\ (d - 1) + 1 = d /\ ~(d <= d - 1)
  BY <1>4
<1>6. d - 1 \in G
  BY <1>3, <1>5
<1> QED
  BY <1>4, <1>5, <1>6

\* tick visits the timers of its slot one after the other.
IsVisited(w, c, n, f) == f = [i \in 0..n |-> IF i = 0 THEN w ELSE W!Visit(f[i - 1], c[i])]

LEMMA VisitedExists == ASSUME NEW w, NEW c, NEW n \in Nat PROVE \E f : IsVisited(w, c, n, f)
<1> DEFINE G == {m \in 0..n : \E f : IsVisited(w, c, m, f)}
<1>1. 0 \in G
  <2> DEFINE f == [i \in 0..0 |-> w]
  <2>1. f = [i \in 0..0 |-> IF i = 0 THEN w ELSE W!Visit(f[i - 1], c[i])]
    OBVIOUS
  <2> HIDE DEF f
  <2>2. IsVisited(w, c, 0, f)
    BY <2>1 DEF IsVisited
  <2> QED
    BY <2>2
<1>2. ASSUME NEW m \in 0..(n - 1), m \in G
      PROVE  m + 1 \in G
  <2>1. PICK g : IsVisited(w, c, m, g)
    BY <1>2
  <2> DEFINE f == [i \in 0..(m + 1) |-> IF i = m + 1 THEN W!Visit(g[m], c[m + 1]) ELSE g[i]]
  <2>2. \A i \in 0..m : g[i] = IF i = 0 THEN w ELSE W!Visit(g[i - 1], c[i])
    BY <2>1 DEF IsVisited
  <2>3. \A i \in 0..m : f[i] = g[i]
    OBVIOUS
  <2>4. f[m + 1] = W!Visit(g[m], c[m + 1])
    OBVIOUS
  <2>5. f = [i \in 0..(m + 1) |-> f[i]]
    OBVIOUS
  <2> HIDE DEF f
  <2>6. ASSUME NEW i \in 0..(m + 1)
        PROVE  f[i] = IF i = 0 THEN w ELSE W!Visit(f[i - 1], c[i])
    <3>1. CASE i = m + 1
      <4>1. i # 0 /\ i - 1 = m /\ m \in 0..m
        BY <3>1
      <4> QED
        BY <2>3, <2>4, <3>1, <4>1
    <3>2. CASE i # m + 1
      <4>1. i \in 0..m /\ (i # 0 => i - 1 \in 0..m)
        BY <3>2
      <4>2. i # 0 => f[i - 1] = g[i - 1]
        BY <2>3, <4>1
      <4> QED
        BY <2>2, <2>3, <4>1, <4>2
    <3> QED
      BY <3>1, <3>2
  <2>7. f = [i \in 0..(m + 1) |-> IF i = 0 THEN w ELSE W!Visit(f[i - 1], c[i])]
    BY <2>5, <2>6
  <2>8. IsVisited(w, c, m + 1, f)
    BY <2>7 DEF IsVisited
  <2> QED
    BY <2>8
<1>3. \A i \in 0..n : i \in G
  BY ONLY <1>1, <1>2, n \in Nat, Forwards
<1> QED
  BY <1>3

\* One turn less for one timer.
LEMMA TurnWheelInv ==
  ASSUME NEW w, NEW S, WheelInv(w, S), NEW t \in S, w.rotation[t] > 0,
         NEW a, a = W!Visit(w, t)
  PROVE  /\ WheelInv(a, S)
         /\ a.cur_slot = w.cur_slot /\ a.rotation[t] = w.rotation[t] - 1
         /\ \A u \in Timers \ {t} : a.rotation[u] = w.rotation[u]
         /\ \A u \in Timers : a.time_slot[u] = w.time_slot[u]
<1>1. /\ w \in W!WheelType /\ w.rotation \in [Timers -> Nat] /\ S \subseteq Timers /\ t \in Timers
  BY WheelFields DEF WheelInv
<1>2. w.rotation[t] \in Nat /\ w.rotation[t] - 1 \in Nat
  BY <1>1
<1>3. /\ a.slots = w.slots /\ a.cur_slot = w.cur_slot /\ a.time_slot = w.time_slot
      /\ a.prev = w.prev /\ a.next = w.next
      /\ a.rotation = [w.rotation EXCEPT ![t] = w.rotation[t] - 1]
  BY <1>1 DEF W!WheelType, W!Visit
<1>4. a \in W!WheelType
  <2> DEFINE r == [w.rotation EXCEPT ![t] = w.rotation[t] - 1]
  <2>1. r \in [Timers -> Nat] /\ a = [w EXCEPT !.rotation = r]
    BY <1>1, <1>2 DEF W!Visit
  <2> HIDE DEF r
  <2> QED
    BY <1>1, <2>1 DEF W!WheelType
<1>5. ASSUME NEW z \in W!Slots
      PROVE  \E s, n : SlotOf(a, S, z, s, n)
  <2>1. PICK s, n : SlotOf(w, S, z, s, n)
    BY DEF WheelInv
  <2>2. SlotOf(a, S, z, s, n)
    BY <1>3, <2>1 DEF SlotOf
  <2> QED
    BY <2>2
<1>6. WheelInv(a, S)
  BY <1>3, <1>4, <1>5 DEF WheelInv
<1> QED
  BY <1>1, <1>3, <1>6

\* The hand does not touch the lists.
LEMMA HandWheelInv ==
  ASSUME NEW w, NEW S, WheelInv(w, S), NEW a, a = [w EXCEPT !.cur_slot = (@ + 1) % WheelSize]
  PROVE  /\ WheelInv(a, S) /\ a.cur_slot = (w.cur_slot + 1) % WheelSize
         /\ a.rotation = w.rotation /\ a.time_slot = w.time_slot
<1>1. w \in W!WheelType /\ w.cur_slot \in W!Slots
  BY WheelFields DEF WheelInv
<1>2. /\ a.slots = w.slots /\ a.cur_slot = (w.cur_slot + 1) % WheelSize
      /\ a.time_slot = w.time_slot /\ a.prev = w.prev /\ a.next = w.next
      /\ a.rotation = w.rotation
  BY <1>1 DEF W!WheelType
<1>3. a \in W!WheelType
  <2> DEFINE c == (w.cur_slot + 1) % WheelSize
  <2>1. c \in W!Slots
    BY <1>1, WheelNumbers
  <2>2. a = [w EXCEPT !.cur_slot = c]
    OBVIOUS
  <2> HIDE DEF c
  <2> QED
    BY <1>1, <2>1, <2>2 DEF W!WheelType
<1>4. ASSUME NEW z \in W!Slots
      PROVE  \E s, n : SlotOf(a, S, z, s, n)
  <2>1. PICK s, n : SlotOf(w, S, z, s, n)
    BY DEF WheelInv
  <2>2. SlotOf(a, S, z, s, n)
    BY <1>2, <2>1 DEF SlotOf
  <2> QED
    BY <2>2
<1> QED
  BY <1>2, <1>3, <1>4 DEF WheelInv

\* The wheel a is the wheel w one tick later.
Ticked(w, S, a) ==
    /\ WheelInv(a, S \ W!Fired(w))
    /\ a.cur_slot = (w.cur_slot + 1) % WheelSize
    /\ \A t \in S \ W!Fired(w) :
          /\ a.time_slot[t] = w.time_slot[t]
          /\ a.rotation[t] = IF w.time_slot[t] = w.cur_slot THEN w.rotation[t] - 1
                             ELSE w.rotation[t]

\* tick: the timers whose turns are made are gone, the others of the slot have one less.
LEMMA AfterTickWheelInv ==
  ASSUME NEW w, NEW S, WheelInv(w, S), NEW a, a = W!AfterTick(w)
  PROVE  Ticked(w, S, a)
<1>1. /\ w.cur_slot \in W!Slots /\ S \subseteq Timers /\ w.rotation \in [Timers -> Nat]
  BY WheelFields DEF WheelInv
<1>2. PICK s, n : SlotOf(w, S, w.cur_slot, s, n)
  BY <1>1 DEF WheelInv
<1>3. /\ n \in Nat /\ s \in [1..n -> Timers] /\ \A i, j \in 1..n : s[i] = s[j] => i = j
      /\ Nodes(s, n) = {t \in S : w.time_slot[t] = w.cur_slot}
  BY <1>2 DEF SlotOf, Linked
<1>4. W!Chain(w, w.cur_slot) = s /\ Len(s) = n
  BY <1>1, <1>2, <1>3, ChainValue, WholeChain
<1> DEFINE visited == CHOOSE f : IsVisited(w, s, n, f)
<1>5. a = [visited[n] EXCEPT !.cur_slot = (@ + 1) % WheelSize]
  <2> DEFINE Turned(v) == [v EXCEPT !.cur_slot = (@ + 1) % WheelSize]
             c == W!Chain(w, w.cur_slot)
  <2>1. W!AfterTick(w) = Turned((CHOOSE f : IsVisited(w, c, Len(c), f))[Len(c)])
    BY ONLY DEF W!AfterTick, IsVisited
  <2> QED
    BY <1>4, <2>1
<1>6. IsVisited(w, s, n, visited)
  BY <1>3, VisitedExists
<1> HIDE DEF visited
<1>7. /\ visited[0] = w
      /\ \A i \in 0..(n - 1) : visited[i + 1] = W!Visit(visited[i], s[i + 1])
  <2>1. \A i \in 0..n : visited[i] = IF i = 0 THEN w ELSE W!Visit(visited[i - 1], s[i])
    BY <1>6 DEF IsVisited
  <2>2. 0 \in 0..n /\ \A i \in 0..(n - 1) : i + 1 \in 0..n /\ i + 1 # 0 /\ (i + 1) - 1 = i
    BY <1>3
  <2> QED
    BY <2>1, <2>2
<1> DEFINE Away(i) == {t \in Nodes(s, i) : w.rotation[t] = 0}
           Step(v, i) == /\ WheelInv(v, S \ Away(i))
                         /\ v.cur_slot = w.cur_slot
                         /\ \A t \in S \ Away(i) :
                               /\ v.time_slot[t] = w.time_slot[t]
                               /\ v.rotation[t] = IF t \in Nodes(s, i) THEN w.rotation[t] - 1
                                                  ELSE w.rotation[t]
           G == {i \in 0..n : Step(visited[i], i)}
<1>8. 0 \in G
  <2>1. Nodes(s, 0) = {} /\ 0 \in 0..n
    BY <1>3 DEF Nodes
  <2>2. S \ Away(0) = S
    BY <2>1
  <2> QED
    BY <1>7, <2>1, <2>2
<1>9. ASSUME NEW i \in 0..(n - 1), i \in G
      PROVE  i + 1 \in G
  <2> DEFINE v == visited[i]
             u == visited[i + 1]
             t == s[i + 1]
  <2>1. i + 1 \in 0..n /\ i + 1 \in 1..n /\ i \in Nat
    BY <1>3
  <2>2. u = W!Visit(v, t)
    BY <1>7
  <2>3. Step(v, i)
    BY <1>9
  <2>4. Nodes(s, i + 1) = Nodes(s, i) \union {t} /\ t \notin Nodes(s, i)
    <3>1. \A j \in 1..(i + 1) : j = i + 1 \/ j \in 1..i
      BY <2>1
    <3>2. \A j \in 1..i : j \in 1..(i + 1) /\ j \in 1..n /\ j # i + 1
      BY <1>3, <2>1
    <3>3. i + 1 \in 1..(i + 1)
      BY <2>1
    <3>4. t \notin Nodes(s, i)
      BY <1>3, <2>1, <3>2 DEF Nodes
    <3> QED
      BY <3>1, <3>2, <3>3, <3>4 DEF Nodes
  <2>5. t \in S /\ t \in Timers /\ w.time_slot[t] = w.cur_slot
    <3>1. t \in Nodes(s, n)
      BY <2>1 DEF Nodes
    <3> QED
      BY <1>1, <1>3, <3>1
  <2>6. t \in S \ Away(i)
    BY <2>4, <2>5
  <2> HIDE DEF v, u, t
  <2>7. v.time_slot[t] = v.cur_slot /\ v.rotation[t] = w.rotation[t] /\ w.rotation[t] \in Nat
    BY <1>1, <2>3, <2>4, <2>5, <2>6
  <2>8. CASE w.rotation[t] > 0
    <3>1. Away(i + 1) = Away(i)
      BY <2>4, <2>8
    <3>2. v.rotation[t] > 0
      BY <2>7, <2>8
    <3> DEFINE T == S \ Away(i)
    <3>6. WheelInv(v, T) /\ t \in T
      BY <2>3, <2>6
    <3> HIDE DEF T
    <3>3. /\ WheelInv(u, T)
          /\ u.cur_slot = v.cur_slot /\ u.rotation[t] = v.rotation[t] - 1
          /\ \A x \in Timers \ {t} : u.rotation[x] = v.rotation[x]
          /\ \A x \in Timers : u.time_slot[x] = v.time_slot[x]
      BY ONLY <2>2, <3>2, <3>6, TurnWheelInv
    <3>7. WheelInv(u, S \ Away(i))
      BY <3>3 DEF T
    <3>4. ASSUME NEW x \in S \ Away(i)
          PROVE  /\ u.time_slot[x] = w.time_slot[x]
                 /\ u.rotation[x] = IF x \in Nodes(s, i + 1) THEN w.rotation[x] - 1
                                    ELSE w.rotation[x]
      <4>1. x \in Timers /\ v.time_slot[x] = w.time_slot[x]
            /\ v.rotation[x] = IF x \in Nodes(s, i) THEN w.rotation[x] - 1 ELSE w.rotation[x]
        BY <1>1, <2>3
      <4>2. CASE x = t
        BY <2>4, <2>7, <3>3, <4>1, <4>2
      <4>3. CASE x # t
        BY <2>4, <3>3, <4>1, <4>3
      <4> QED
        BY <4>2, <4>3
    <3>5. Step(u, i + 1)
      <4> HIDE DEF Away
      <4> QED
        BY <2>3, <3>1, <3>3, <3>7, <3>4
    <3> QED
      BY <2>1, <3>5 DEF u
  <2>9. CASE w.rotation[t] = 0
    <3>1. S \ Away(i + 1) = (S \ Away(i)) \ {t}
      BY <2>4, <2>9
    <3>2. u = W!Unlink(v, v.cur_slot, t)
      BY <2>2, <2>7, <2>9 DEF W!Visit
    <3>3. /\ WheelInv(u, (S \ Away(i)) \ {t})
          /\ u.cur_slot = v.cur_slot
          /\ \A x \in Timers \ {t} : u.rotation[x] = v.rotation[x] /\ u.time_slot[x] = v.time_slot[x]
      <4> DEFINE T == S \ Away(i)
                 z == v.cur_slot
      <4>1. WheelInv(v, T) /\ t \in T
        BY <2>3, <2>6
      <4>2. z = v.time_slot[t] /\ u = W!Unlink(v, z, t)
        BY <2>7, <3>2
      <4>3. T = S \ Away(i)
        OBVIOUS
      <4> HIDE DEF T, z
      <4>4. Unlinked(v, T, t, u)
        BY ONLY <4>1, <4>2, UnlinkWheelInv
      <4> HIDE DEF Away
      <4> QED
        BY <4>3, <4>4 DEF Unlinked
    <3>4. ASSUME NEW x \in S \ Away(i), x # t
          PROVE  /\ u.time_slot[x] = w.time_slot[x]
                 /\ u.rotation[x] = IF x \in Nodes(s, i + 1) THEN w.rotation[x] - 1
                                    ELSE w.rotation[x]
      <4>1. x \in Timers /\ v.time_slot[x] = w.time_slot[x]
            /\ v.rotation[x] = IF x \in Nodes(s, i) THEN w.rotation[x] - 1 ELSE w.rotation[x]
        BY <1>1, <2>3
      <4> QED
        BY <2>4, <3>3, <3>4, <4>1
    <3>5. Step(u, i + 1)
      <4> HIDE DEF Away
      <4> QED
        BY <2>3, <3>1, <3>3, <3>4
    <3> QED
      BY <2>1, <3>5 DEF u
  <2> QED
    BY <2>7, <2>8, <2>9
<1>10. n \in G
  <2>1. \A i \in 0..n : i \in G
    <3> HIDE DEF G
    <3> QED
      BY ONLY <1>3, <1>8, <1>9, Forwards
  <2>2. n \in 0..n
    BY <1>3
  <2> QED
    BY <2>1, <2>2
<1>11. Away(n) = W!Fired(w)
  BY <1>3, FiredInv
<1>12. Step(visited[n], n)
  BY <1>10
<1> HIDE DEF Away
<1>13. /\ WheelInv(a, S \ Away(n)) /\ a.cur_slot = (visited[n].cur_slot + 1) % WheelSize
       /\ a.rotation = visited[n].rotation /\ a.time_slot = visited[n].time_slot
  BY <1>5, <1>12, HandWheelInv
<1> QED
  BY <1>3, <1>11, <1>12, <1>13 DEF Ticked

-----------------------------------------------------------------------------
(* Counting ticks.                                                         *)

LEMMA Modulo ==
  ASSUME NEW N \in Nat \ {0}
  PROVE  /\ \A x \in Nat : x = ((x \div N) * N) + (x % N)
         /\ \A x \in 0..(N - 1) : x % N = x
         /\ \A x \in N..((2 * N) - 1) : x % N = x - N
<1>1. \A x \in Nat : x = ((x \div N) * N) + (x % N)
  OBVIOUS
<1>2. \A x \in 0..(N - 1) : x % N = x
  OBVIOUS
<1>3. \A x \in N..((2 * N) - 1) : x % N = x - N
  OBVIOUS
<1> QED
  BY <1>1, <1>2, <1>3

LEMMA WheelTicks == WheelTimeout \in Nat /\ W!Ticks(WheelTimeout) = WheelLife
<1>1. WheelTimeout \in Nat /\ ~(WheelTimeout < TimeSlot)
  BY WheelNumbers DEF WheelTimeout
<1>2. (WheelLife * TimeSlot) \div TimeSlot = WheelLife
  BY WheelNumbers
<1> QED
  BY <1>1, <1>2 DEF W!Ticks, WheelTimeout

\* The Rest of a timer with r turns in slot z when the hand is on slot c of N.
RestAt(N, c, z, r) == (r * N) + ((z + N - c) % N)

\* A new timer has all its ticks before it.
LEMMA NewRest ==
  ASSUME NEW N \in Nat \ {0}, NEW c \in 0..(N - 1), NEW k \in Nat
  PROVE  RestAt(N, c, (c + (k % N)) % N, k \div N) = k
<1> DEFINE m == k % N
           d == k \div N
<1>1. m \in 0..(N - 1) /\ d \in Nat /\ k = (d * N) + m
  <2>1. m \in 0..(N - 1) /\ d \in Nat
    OBVIOUS
  <2>2. k = (d * N) + m
    OBVIOUS
  <2> QED
    BY <2>1, <2>2
<1> HIDE DEF m, d
<1>2. (((c + m) % N) + N - c) % N = m
  <2>1. CASE c + m < N
    <3>1. (c + m) % N = c + m
      BY <1>1, <2>1, Modulo
    <3>2. ((c + m) + N - c) = m + N /\ m + N \in N..((2 * N) - 1)
      BY <1>1
    <3>3. (m + N) % N = (m + N) - N
      BY <3>2, Modulo
    <3> QED
      BY <1>1, <3>1, <3>2, <3>3
  <2>2. CASE ~(c + m < N)
    <3>1. c + m \in N..((2 * N) - 1)
      BY <1>1, <2>2
    <3>2. (c + m) % N = (c + m) - N
      BY <3>1, Modulo
    <3>3. ((c + m) - N) + N - c = m
      BY <1>1
    <3>4. m % N = m
      BY <1>1, Modulo
    <3> QED
      BY <3>2, <3>3, <3>4
  <2> QED
    BY <2>1, <2>2
<1> QED
  BY <1>1, <1>2 DEF m, d, RestAt

\* Each tick brings the hand one step nearer to a timer's slot, or takes one of its turns;
\* it is the last one when the hand is there and no turn is left.
LEMMA TickRest ==
  ASSUME NEW N \in Nat \ {0}, NEW c \in 0..(N - 1), NEW z \in 0..(N - 1), NEW r \in Nat
  PROVE  /\ RestAt(N, c, z, r) \in Nat
         /\ RestAt(N, c, z, r) = 0 <=> z = c /\ r = 0
         /\ z # c \/ r # 0 =>
               RestAt(N, (c + 1) % N, z, IF z = c THEN r - 1 ELSE r) = RestAt(N, c, z, r) - 1
<1> DEFINE e == (z + N - c) % N
           e2 == (z + N - ((c + 1) % N)) % N
<1>1. e = IF z >= c THEN z - c ELSE z + N - c
  <2>1. CASE z >= c
    <3>1. z + N - c \in N..((2 * N) - 1) /\ (z + N - c) - N = z - c
      BY <2>1
    <3> QED
      BY <2>1, <3>1, Modulo
  <2>2. CASE ~(z >= c)
    <3>1. z + N - c \in 0..(N - 1)
      BY <2>2
    <3> QED
      BY <2>2, <3>1, Modulo
  <2> QED
    BY <2>1, <2>2
<1>2. e2 = IF z = c THEN N - 1 ELSE e - 1
  <2>1. CASE c = N - 1
    <3>1. (c + 1) % N = 0
      <4>1. c + 1 \in N..((2 * N) - 1) /\ (c + 1) - N = 0
        BY <2>1
      <4> QED
        BY <4>1, Modulo
    <3>2. z + N - 0 \in N..((2 * N) - 1) /\ (z + N - 0) - N = z
      OBVIOUS
    <3>3. e2 = z
      BY <3>1, <3>2, Modulo
    <3> QED
      BY <1>1, <2>1, <3>3
  <2>2. CASE c # N - 1
    <3>1. (c + 1) % N = c + 1
      <4>1. c + 1 \in 0..(N - 1)
        BY <2>2
      <4> QED
        BY <4>1, Modulo
    <3>2. CASE z >= c + 1
      <4>1. z + N - (c + 1) \in N..((2 * N) - 1) /\ (z + N - (c + 1)) - N = z - (c + 1)
        BY <3>2
      <4>2. e2 = z - (c + 1)
        BY <3>1, <4>1, Modulo
      <4> QED
        BY <1>1, <3>2, <4>2
    <3>3. CASE ~(z >= c + 1)
      <4>1. z + N - (c + 1) \in 0..(N - 1)
        BY <3>3
      <4>2. e2 = z + N - (c + 1)
        BY <3>1, <4>1, Modulo
      <4> QED
        BY <1>1, <3>3, <4>2
    <3> QED
      BY <3>2, <3>3
  <2> QED
    BY <2>1, <2>2
<1>3. e \in Nat /\ (e = 0 <=> z = c)
  BY <1>1
<1> HIDE DEF e, e2
<1>4. r * N \in Nat /\ (r * N = 0 <=> r = 0) /\ (r # 0 => (r - 1) * N = (r * N) - N)
  <2>1. r * N \in Nat
    OBVIOUS
  <2>2. r * N = 0 <=> r = 0
    OBVIOUS
  <2>3. (r - 1) * N = (r * N) - N
    OBVIOUS
  <2> QED
    BY <2>1, <2>2, <2>3
<1>5. (r * N) + e \in Nat /\ ((r * N) + e = 0 <=> z = c /\ r = 0)
  BY <1>3, <1>4
<1>6. ASSUME z # c \/ r # 0
      PROVE  ((IF z = c THEN r - 1 ELSE r) * N) + e2 = ((r * N) + e) - 1
  <2>1. CASE z = c
    BY <1>2, <1>3, <1>4, <1>6, <2>1
  <2>2. CASE z # c
    BY <1>2, <1>3, <1>4, <2>2
  <2> QED
    BY <2>1, <2>2
<1> QED
  BY <1>5, <1>6 DEF e, e2, RestAt

-----------------------------------------------------------------------------
(* The containers of the servers, relative to ServerInv.                   *)

ContainerInv == /\ OnList => ListInv(lst, left, live)
                /\ OnWheel => WheelInv(wheel, live)
                /\ lst \in ListType /\ wheel \in W!WheelType

LEMMA OneContainer ==
  ASSUME ServerInv
  PROVE  /\ OnList \/ OnWheel
         /\ ~(OnList /\ OnWheel)
         /\ left \in [Timers -> Nat] /\ 0 \in Nat /\ Timeout \in Nat
         /\ \A t \in Timers : left[t] <= Timeout
<1>1. OnList \/ OnWheel
  BY InactiveAssumption DEF ServerInv, LoopType, OnList, OnWheel
<1>2. ~(OnList /\ OnWheel)
  BY DEF OnList, OnWheel
<1>3. Timeout \in Nat /\ left \in [Timers -> 0..Timeout]
  BY Numbers DEF ServerInv, LoopType
<1> QED
  BY <1>1, <1>2, <1>3

LEMMA ListTyped == ASSUME NEW L, NEW x, NEW S, ListInv(L, x, S) PROVE L \in ListType
  BY DEF ListInv, ListOf

LEMMA WheelTyped == ASSUME NEW w, NEW S, WheelInv(w, S) PROVE w \in W!WheelType
  BY DEF WheelInv

LEMMA InitContainerInv == Init => ContainerInv
<1> SUFFICES ASSUME Init
             PROVE  ContainerInv
    OBVIOUS
<1>1. live = {} /\ lst = EmptyList /\ wheel = W!EmptyWheel
  BY DEF Init
<1>2. ListInv(lst, left, live) /\ WheelInv(wheel, live)
  BY <1>1, EmptyListInv, EmptyWheelInv
<1> QED
  BY <1>2, ListTyped, WheelTyped DEF ContainerInv

LEMMA GoneContainerInv == ASSUME Gone PROVE ContainerInv'
<1>1. live' = {} /\ lst' = EmptyList /\ wheel' = W!EmptyWheel
  BY DEF Gone
<1>2. ListInv(lst', left', live') /\ WheelInv(wheel', live')
  BY <1>1, EmptyListInv, EmptyWheelInv
<1> QED
  BY <1>2, ListTyped, WheelTyped DEF ContainerInv

\* A second takes nothing from the order of the timers.
LEMMA SecondContainerInv == ASSUME ServerInv, ContainerInv, Second PROVE ContainerInv'
<1>1. /\ left' = [t \in Timers |-> IF left[t] = 0 THEN 0 ELSE left[t] - 1]
      /\ UNCHANGED <<container, live, lst, wheel>>
  BY DEF Second
<1>2. left \in [Timers -> Nat] /\ live \subseteq Timers
  BY OneContainer DEF ServerInv, LoopType
<1>3. \A t, u \in live : left[t] <= left[u] => left'[t] <= left'[u]
  <2> SUFFICES ASSUME NEW t \in live, NEW u \in live, left[t] <= left[u]
               PROVE  left'[t] <= left'[u]
    OBVIOUS
  <2>1. /\ left[t] \in Nat /\ left[u] \in Nat
        /\ left'[t] = (IF left[t] = 0 THEN 0 ELSE left[t] - 1)
        /\ left'[u] = (IF left[u] = 0 THEN 0 ELSE left[u] - 1)
    BY <1>1, <1>2
  <2> QED
    BY <2>1
<1>4. OnList => ListInv(lst, left', live)
  BY <1>3, SameOrder DEF ContainerInv
<1> QED
  BY <1>1, <1>4 DEF ContainerInv, OnList, OnWheel

LEMMA NewTimerContainerInv ==
  ASSUME ServerInv, ContainerInv, NEW f, NEW t \in Timers, NewTimer(f, t)
  PROVE  ContainerInv'
<1>0. left \in [Timers -> Nat] /\ Timeout \in Nat /\ WheelTimeout \in Nat
  BY OneContainer, WheelTicks
<1>1. CASE NewListTimer(f, t)
  <2>1. /\ OnList /\ t \notin live /\ live' = live \union {t}
        /\ left' = [left EXCEPT ![t] = Timeout]
        /\ lst' = AddTimer(Fresh(lst, t), left', t)
        /\ UNCHANGED <<container, wheel>>
    BY <1>1 DEF NewListTimer
  <2>2. left' \in [Timers -> Nat]
    BY <1>0, <2>1
  <2>3. \A u \in live : left'[u] = left[u]
    BY <1>0, <2>1 DEF ServerInv, LoopType
  <2>4. ListInv(lst, left', live)
    <3>1. ListInv(lst, left, live) /\ \A u, v \in live : left[u] <= left[v] => left'[u] <= left'[v]
      BY <2>1, <2>3 DEF ContainerInv
    <3> QED
      BY ONLY <3>1, SameOrder
  <2>5. ListInv(lst', left', live')
    BY ONLY t \in Timers, <2>1, <2>2, <2>4, AddTimerInv
  <2> QED
    BY <2>1, <2>5, ListTyped, OneContainer DEF ContainerInv, OnList, OnWheel
<1>2. CASE NewWheelTimer(f, t)
  <2>1. /\ OnWheel /\ t \notin live /\ live' = live \union {t}
        /\ wheel' = W!AddTimer(wheel, WheelTimeout, t)
        /\ UNCHANGED <<container, lst>>
    BY <1>2 DEF NewWheelTimer
  <2>2. WheelInv(wheel, live)
    BY <2>1 DEF ContainerInv
  <2>3. WheelInv(wheel', live')
    BY ONLY t \in Timers, <1>0, <2>1, <2>2, AddWheelInv DEF Added
  <2> QED
    BY <2>1, <2>3, WheelTyped, OneContainer DEF ContainerInv, OnList, OnWheel
<1> QED
  BY <1>1, <1>2 DEF NewTimer

\* What recv and cb_func may assume.
LEMMA TimerInUse ==
  ASSUME ServerInv, NEW f \in Fds, Handling(f)
  PROVE  f \in open /\ timer[f] \in live /\ timer[f] \in Timers /\ timer[f] # Null
  BY Numbers DEF Handling, ServerInv, TimerPerConnection, LoopType

LEMMA RecvContainerInv ==
  ASSUME ServerInv, ContainerInv, NEW f \in Fds, RecvData(f) \/ WheelRecvData(f)
  PROVE  ContainerInv'
<1> DEFINE t == timer[f]
<1>0. left \in [Timers -> Nat] /\ Timeout \in Nat /\ WheelTimeout \in Nat
      /\ left[t] <= Timeout /\ t \in live /\ t \in Timers /\ t # Null
  <2>1. Handling(f)
    BY DEF RecvData, WheelRecvData, Recv
  <2>2. t \in live /\ t \in Timers /\ t # Null
    BY <2>1, TimerInUse
  <2> QED
    BY <2>2, OneContainer, WheelTicks
<1>1. CASE RecvData(f)
  <2>1. /\ OnList /\ left' = [left EXCEPT ![t] = Timeout]
        /\ lst' = AdjustTimer(lst, left', t)
        /\ UNCHANGED <<container, live, wheel>>
    BY <1>0, <1>1 DEF RecvData
  <2> HIDE DEF t
  <2>2. left' \in [Timers -> Nat] /\ left[t] <= left'[t]
    BY <1>0, <2>1
  <2>3. \A u \in live : u # t => left'[u] = left[u]
    BY <1>0, <2>1 DEF ServerInv, LoopType
  <2>4. ListInv(lst, left, live)
    BY <2>1 DEF ContainerInv
  <2>5. ListInv(lst', left', live)
    BY ONLY <1>0, <2>1, <2>2, <2>3, <2>4, AdjustTimerInv
  <2> QED
    BY <2>1, <2>5, ListTyped, OneContainer DEF ContainerInv, OnList, OnWheel
<1>2. CASE WheelRecvData(f)
  <2>1. PICK u \in (Timers \ live) \union {t} :
           /\ live' = (live \ {t}) \union {u}
           /\ wheel' = W!AddTimer(W!DelTimer(wheel, t), WheelTimeout, u)
    BY <1>2 DEF WheelRecvData
  <2>2. OnWheel /\ UNCHANGED <<container, lst>>
    BY <1>2 DEF WheelRecvData
  <2> DEFINE d == W!DelTimer(wheel, t)
             z == wheel.time_slot[t]
             S == live \ {t}
  <2>3. u \in Timers /\ u \notin S
    BY <1>0, <2>1
  <2>4. WheelInv(wheel, live)
    BY <2>2 DEF ContainerInv
  <2>5. d = W!Unlink(wheel, z, t) /\ z = wheel.time_slot[t]
    BY DEF W!DelTimer
  <2>6. wheel' = W!AddTimer(d, WheelTimeout, u)
    BY <2>1
  <2> HIDE DEF d, z, t
  <2>7. WheelInv(d, S)
    BY ONLY <1>0, <2>4, <2>5, UnlinkWheelInv DEF Unlinked
  <2> HIDE DEF S
  <2>8. WheelInv(wheel', S \union {u})
    BY ONLY <1>0, <2>3, <2>6, <2>7, AddWheelInv DEF Added
  <2>9. WheelInv(wheel', live')
    BY <2>1, <2>8 DEF S
  <2> QED
    BY <2>2, <2>9, WheelTyped, OneContainer DEF ContainerInv, OnList, OnWheel
<1> QED
  BY <1>1, <1>2

LEMMA ClosedContainerInv ==
  ASSUME ServerInv, ContainerInv, NEW f \in Fds, RecvClosed(f)
  PROVE  ContainerInv'
<1> DEFINE t == timer[f]
<1>0. left \in [Timers -> Nat] /\ t \in live /\ t \in Timers /\ t # Null
  <2>1. Handling(f)
    BY DEF RecvClosed
  <2> QED
    BY <2>1, TimerInUse, OneContainer
<1>1. /\ live' = live \ {t} /\ left' = [left EXCEPT ![t] = 0] /\ UNCHANGED container
      /\ IF OnList THEN lst' = DeleteTimer(lst, t) /\ UNCHANGED wheel
         ELSE wheel' = W!DelTimer(wheel, t) /\ UNCHANGED lst
  BY <1>0 DEF RecvClosed
<1> HIDE DEF t
<1>2. CASE OnList
  <2>1. lst' = DeleteTimer(lst, t) /\ UNCHANGED wheel
    BY <1>1, <1>2
  <2>2. ListInv(lst, left, live)
    BY <1>2 DEF ContainerInv
  <2>3. ListInv(lst', left, live')
    BY ONLY <1>0, <1>1, <2>1, <2>2, DeleteTimerInv
  <2>4. \A u, v \in live' : left[u] <= left[v] => left'[u] <= left'[v]
    BY <1>0, <1>1 DEF ServerInv, LoopType
  <2>5. ListInv(lst', left', live')
    BY ONLY <2>3, <2>4, SameOrder
  <2> QED
    BY <1>1, <1>2, <2>1, <2>5, ListTyped, OneContainer DEF ContainerInv, OnList, OnWheel
<1>3. CASE ~OnList
  <2> DEFINE z == wheel.time_slot[t]
  <2>1. wheel' = W!Unlink(wheel, z, t) /\ UNCHANGED lst /\ z = wheel.time_slot[t]
    BY <1>1, <1>3 DEF W!DelTimer
  <2>2. OnWheel /\ WheelInv(wheel, live)
    BY <1>3, OneContainer DEF ContainerInv
  <2> HIDE DEF z
  <2>3. WheelInv(wheel', live')
    BY ONLY <1>0, <1>1, <2>1, <2>2, UnlinkWheelInv DEF Unlinked
  <2> QED
    BY <1>1, <2>1, <2>2, <2>3, WheelTyped, OneContainer DEF ContainerInv, OnList, OnWheel
<1> QED
  BY <1>2, <1>3

LEMMA TickContainerInv == ASSUME ServerInv, ContainerInv, TimerHandler PROVE ContainerInv'
<1>1. CASE TickList
  <2> DEFINE gone == Expired(lst, left, 0)
  <2>1. /\ OnList /\ live' = live \ gone /\ UNCHANGED <<container, wheel>>
        /\ left' = [t \in Timers |-> IF t \in gone THEN 0 ELSE left[t]]
        /\ lst' = AfterTick(lst, left, 0)
    BY <1>1 DEF TickList, Expire
  <2>2. left \in [Timers -> Nat] /\ ListInv(lst, left, live) /\ 0 \in Nat
    BY <2>1, OneContainer DEF ContainerInv
  <2>3. \A t \in live \ gone : left'[t] = left[t]
    BY <2>1 DEF ServerInv, LoopType
  <2>4. ListInv(lst', left', live')
    BY ONLY <2>1, <2>2, <2>3, AfterTickInv
  <2> QED
    BY <2>1, <2>4, ListTyped, OneContainer DEF ContainerInv, OnList, OnWheel
<1>2. CASE TickWheel
  <2>1. /\ OnWheel /\ live' = live \ W!Fired(wheel) /\ UNCHANGED <<container, lst>>
        /\ wheel' = W!AfterTick(wheel)
    BY <1>2 DEF TickWheel, Expire
  <2>2. WheelInv(wheel, live)
    BY <2>1 DEF ContainerInv
  <2>3. WheelInv(wheel', live')
    BY ONLY <2>1, <2>2, AfterTickWheelInv DEF Ticked
  <2> QED
    BY <2>1, <2>3, WheelTyped, OneContainer DEF ContainerInv, OnList, OnWheel
<1> QED
  BY <1>1, <1>2 DEF TimerHandler, Tick

LEMMA SameContainerInv ==
  ASSUME ContainerInv, UNCHANGED <<container, live, lst, wheel, left>>
  PROVE  ContainerInv'
  BY DEF ContainerInv, OnList, OnWheel

LEMMA NextContainerInv == ServerInv /\ ContainerInv /\ [Next]_vars => ContainerInv'
<1> SUFFICES ASSUME ServerInv, ContainerInv, [Next]_vars
             PROVE  ContainerInv'
    OBVIOUS
<1>1. CASE UNCHANGED vars
  BY <1>1, SameContainerInv DEF vars, timers
<1>2. CASE \/ Connect \/ Terminate \/ EpollWait \/ HandleSignals \/ NextRound
           \/ \E f \in Fds : Send(f) \/ HangUp(f) \/ RecvAgain(f)
           \/ \E sig \in {"ALRM", "TERM"} : SigHandler(sig)
  <2>1. UNCHANGED timers
    BY <1>2 DEF Connect, Terminate, EpollWait, HandleSignals, NextRound, Send, HangUp, RecvAgain,
                SigHandler
  <2> QED
    BY <2>1, SameContainerInv DEF timers
<1>3. CASE AcceptFails \/ \E f \in Fds : Accept(f)
  BY <1>3, NewTimerContainerInv DEF AcceptFails, Accept
<1>4. CASE \/ AcceptCrashes \/ Stopped \/ Second \/ TimerHandler
           \/ \E f \in Fds : RecvData(f) \/ WheelRecvData(f) \/ RecvClosed(f)
  BY <1>4, GoneContainerInv, SecondContainerInv, TickContainerInv, RecvContainerInv,
     ClosedContainerInv DEF AcceptCrashes, Stopped
<1> QED
  BY <1>1, <1>2, <1>3, <1>4 DEF Next, Clients, Loop

LEMMA ContainerInvHolds == Spec => []ContainerInv
<1>1. Init => ContainerInv
  BY InitContainerInv
<1>2. ServerInv /\ ContainerInv /\ [Next]_vars => ContainerInv'
  BY NextContainerInv
<1> QED
  BY <1>1, <1>2, ServerInvariant, PTL DEF Spec

\* Every variable keeps its type, the fields of the timers in the list and on the wheel
\* included.
THEOREM TypeCorrect == Spec => []TypeOK
<1>1. ServerInv /\ ContainerInv => TypeOK
  BY DEF ServerInv, LoopType, ContainerInv, TypeOK, Signals
<1> QED
  BY <1>1, ServerInvariant, ContainerInvHolds, PTL

\* Whatever the order of add_timer, adjust_timer, del_timer and tick, the timers in use are the
\* nodes of the sorted list, linked both ways between its head and its tail, or of the lists of
\* the wheel, each in the slot its field names.
THEOREM ContainersWellFormed == Spec => []ContainerWellFormed
<1>1. ServerInv /\ ContainerInv => ContainerWellFormed
  BY OneContainer, ListWellFormed, WheelWellFormed DEF ContainerInv, ContainerWellFormed
<1> QED
  BY <1>1, ServerInvariant, ContainerInvHolds, PTL

-----------------------------------------------------------------------------
(* The time a timer has left, as the promise to the connections counts it. *)

LEMMA SameRest ==
  ASSUME NEW w, NEW a, NEW u, a.rotation[u] = w.rotation[u], a.time_slot[u] = w.time_slot[u],
         a.cur_slot = w.cur_slot
  PROVE  W!Rest(a, u) = W!Rest(w, u)
  BY DEF W!Rest

LEMMA AddedRest ==
  ASSUME NEW w, NEW S, WheelInv(w, S), NEW t \in Timers, t \notin S,
         NEW a, a = W!AddTimer(w, WheelTimeout, t)
  PROVE  /\ W!Rest(a, t) = WheelLife
         /\ \A u \in Timers \ {t} : W!Rest(a, u) = W!Rest(w, u)
<1> DEFINE time == WheelTimeout
           c == w.cur_slot
<1>1. time \in Nat /\ W!Ticks(time) = WheelLife /\ a = W!AddTimer(w, time, t)
  BY WheelTicks
<1> HIDE DEF time
<1>2. /\ a.cur_slot = c /\ a.rotation[t] = W!Turns(W!Ticks(time))
      /\ a.time_slot[t] = (c + (W!Ticks(time) % WheelSize)) % WheelSize
      /\ \A u \in Timers \ {t} : a.rotation[u] = w.rotation[u] /\ a.time_slot[u] = w.time_slot[u]
  <2>1. Added(w, S, t, time, a)
    BY ONLY WheelInv(w, S), t \in Timers, t \notin S, <1>1, AddWheelInv
  <2> QED
    BY <2>1 DEF Added
<1>3. c \in 0..(WheelSize - 1)
  BY WheelFields DEF WheelInv, W!Slots
<1>4. a.rotation[t] = WheelLife \div WheelSize
      /\ a.time_slot[t] = (c + (WheelLife % WheelSize)) % WheelSize
  BY <1>1, <1>2 DEF W!Turns
<1>5. \A u \in Timers \ {t} : W!Rest(a, u) = W!Rest(w, u)
  BY <1>2, SameRest
<1> HIDE DEF c
<1>6. W!Rest(a, t) = RestAt(WheelSize, c, (c + (WheelLife % WheelSize)) % WheelSize,
                            WheelLife \div WheelSize)
  BY <1>2, <1>4 DEF W!Rest, RestAt
<1>7. WheelSize \in Nat \ {0} /\ WheelLife \in Nat
  BY WheelNumbers
<1>8. W!Rest(a, t) = WheelLife
  BY ONLY <1>3, <1>6, <1>7, NewRest
<1> QED
  BY <1>5, <1>8

LEMMA RemovedRest ==
  ASSUME NEW w, NEW S, WheelInv(w, S), NEW t \in S, NEW a, a = W!DelTimer(w, t)
  PROVE  /\ WheelInv(a, S \ {t})
         /\ \A u \in Timers \ {t} : W!Rest(a, u) = W!Rest(w, u)
<1> DEFINE z == w.time_slot[t]
<1>1. z = w.time_slot[t] /\ a = W!Unlink(w, z, t)
  BY DEF W!DelTimer
<1> HIDE DEF z
<1>2. Unlinked(w, S, t, a)
  BY ONLY WheelInv(w, S), t \in S, <1>1, UnlinkWheelInv
<1> QED
  BY <1>2, SameRest DEF Unlinked

LEMMA TickedRest ==
  ASSUME NEW w, NEW S, WheelInv(w, S), NEW a, a = W!AfterTick(w)
  PROVE  \A t \in S : /\ W!Rest(w, t) \in Nat
                      /\ W!Rest(w, t) = 0 <=> t \in W!Fired(w)
                      /\ t \notin W!Fired(w) => W!Rest(a, t) = W!Rest(w, t) - 1
<1> SUFFICES ASSUME NEW t \in S
             PROVE  /\ W!Rest(w, t) \in Nat
                    /\ W!Rest(w, t) = 0 <=> t \in W!Fired(w)
                    /\ t \notin W!Fired(w) => W!Rest(a, t) = W!Rest(w, t) - 1
    OBVIOUS
<1> DEFINE c == w.cur_slot
           z == w.time_slot[t]
           r == w.rotation[t]
<1>1. c \in 0..(WheelSize - 1) /\ z \in 0..(WheelSize - 1) /\ r \in Nat /\ WheelSize \in Nat \ {0}
  BY WheelFields, WheelNumbers DEF WheelInv, W!Slots
<1>2. t \in W!Fired(w) <=> z = c /\ r = 0
  BY FiredInv
<1>3. W!Rest(w, t) = RestAt(WheelSize, c, z, r)
  BY DEF W!Rest, RestAt
<1>4. t \notin W!Fired(w) =>
         W!Rest(a, t) = RestAt(WheelSize, (c + 1) % WheelSize, z, IF z = c THEN r - 1 ELSE r)
  <2>1. Ticked(w, S, a)
    BY AfterTickWheelInv
  <2> QED
    BY <2>1 DEF Ticked, W!Rest, RestAt
<1> HIDE DEF c, z, r
<1>5. /\ RestAt(WheelSize, c, z, r) \in Nat
      /\ RestAt(WheelSize, c, z, r) = 0 <=> z = c /\ r = 0
      /\ z # c \/ r # 0 =>
            RestAt(WheelSize, (c + 1) % WheelSize, z, IF z = c THEN r - 1 ELSE r)
               = RestAt(WheelSize, c, z, r) - 1
  BY ONLY <1>1, TickRest
<1> QED
  BY <1>2, <1>3, <1>4, <1>5

-----------------------------------------------------------------------------
(* The server implements the promise to the connections.                   *)

Unit == IF OnList THEN "second" ELSE "sweep"
Life == [u \in {"second", "sweep"} |-> IF u = "second" THEN Timeout ELSE WheelLife]
Lefts == [f \in Fds |-> IF f \in open THEN RestOf(f) ELSE 0]

\* The arguments of the refinement mapping.
Mapped == <<Unit, open, Lefts, timeout, Running>>

LEMMA UnitLife == Life[Unit] = IF OnList THEN Timeout ELSE WheelLife
  BY DEF Life, Unit

\* No two connections have the same timer.
LEMMA OwnTimer ==
  ASSUME ServerInv
  PROVE  /\ \A f \in open : /\ f \in Fds /\ timer[f] \in live /\ timer[f] \in Timers
                            /\ user[timer[f]] = f
         /\ live \subseteq Timers /\ timer \in [Fds -> Pointer]
  BY DEF ServerInv, TimerPerConnection, LoopType

LEMMA SameMapped == ASSUME UNCHANGED Mapped PROVE UNCHANGED Promise!vars
  BY DEF Mapped, Unit, Lefts, Promise!vars

LEMMA Serves ==
  ASSUME Promise!Serve, mpc # "stopped", mpc' # "stopped", UNCHANGED container
  PROVE  Promise!Next
  BY DEF Promise!Next, Running, OnList

\* What a new timer for f changes.
LEMMA NewTimerRest ==
  ASSUME ServerInv, ContainerInv, NEW f, NEW t \in Timers, NewTimer(f, t)
  PROVE  /\ \A u \in Timers \ {t} : left'[u] = left[u] /\ W!Rest(wheel', u) = W!Rest(wheel, u)
         /\ OnList => left'[t] = Timeout
         /\ ~OnList => W!Rest(wheel', t) = WheelLife
         /\ t \notin live /\ UNCHANGED container
<1>0. left \in [Timers -> Nat]
  BY OneContainer
<1>1. CASE NewListTimer(f, t)
  BY <1>0, <1>1 DEF NewListTimer
<1>2. CASE NewWheelTimer(f, t)
  <2>1. /\ OnWheel /\ t \notin live /\ UNCHANGED <<left, container>>
        /\ wheel' = W!AddTimer(wheel, WheelTimeout, t)
    BY <1>2 DEF NewWheelTimer
  <2>2. WheelInv(wheel, live)
    BY <2>1 DEF ContainerInv
  <2>3. W!Rest(wheel', t) = WheelLife /\ \A u \in Timers \ {t} : W!Rest(wheel', u) = W!Rest(wheel, u)
    BY <2>1, <2>2, AddedRest
  <2> QED
    BY <2>1, <2>3, OneContainer
<1> QED
  BY <1>1, <1>2 DEF NewTimer

LEMMA AcceptRefines ==
  ASSUME ServerInv, ContainerInv, NEW f \in Fds, Accept(f)
  PROVE  Promise!Next
<1>1. PICK t \in Timers : NewTimer(f, t) /\ timer' = [timer EXCEPT ![f] = t]
  BY DEF Accept
<1>2. /\ f \notin open /\ open' = open \union {f} /\ UNCHANGED <<mpc, timeout>> /\ mpc = "batch"
  BY DEF Accept, Handling
<1>3. /\ \A u \in Timers \ {t} : left'[u] = left[u] /\ W!Rest(wheel', u) = W!Rest(wheel, u)
      /\ OnList => left'[t] = Timeout
      /\ ~OnList => W!Rest(wheel', t) = WheelLife
      /\ t \notin live /\ UNCHANGED container
  BY <1>1, NewTimerRest
<1>4. timer'[f] = t /\ \A g \in open : timer'[g] = timer[g] /\ timer[g] \in Timers \ {t}
  BY <1>1, <1>2, <1>3, OwnTimer
<1>5. (OnList' <=> OnList) /\ Unit' = Unit
  BY <1>3 DEF OnList, Unit
<1>6. RestOf(f)' = Life[Unit]
  BY <1>3, <1>4, <1>5, UnitLife DEF RestOf
<1>7. \A g \in open : RestOf(g)' = RestOf(g)
  BY <1>3, <1>4, <1>5 DEF RestOf
<1>8. Lefts' = [Lefts EXCEPT ![f] = Life[Unit]]
  BY <1>2, <1>6, <1>7 DEF Lefts
<1>9. Promise!Open(f)
  BY <1>2, <1>8 DEF Promise!Open, Lefts, Life, Unit
<1> QED
  BY <1>2, <1>3, <1>9, Serves DEF Promise!Serve

\* A timer for -1 takes no time from a connection.
LEMMA AcceptFailsRefines ==
  ASSUME ServerInv, ContainerInv, AcceptFails
  PROVE  UNCHANGED Promise!vars
<1>1. PICK t \in Timers : NewTimer(Bad, t)
  BY DEF AcceptFails
<1>2. UNCHANGED <<open, mpc, timeout, timer>>
  BY DEF AcceptFails, kernel
<1>3. /\ \A u \in Timers \ {t} : left'[u] = left[u] /\ W!Rest(wheel', u) = W!Rest(wheel, u)
      /\ t \notin live /\ UNCHANGED container
  BY <1>1, NewTimerRest
<1>4. \A g \in open : timer[g] \in Timers \ {t}
  BY <1>3, OwnTimer
<1>5. (OnList' <=> OnList) /\ Unit' = Unit
  BY <1>3 DEF OnList, Unit
<1>6. \A g \in open : RestOf(g)' = RestOf(g)
  BY <1>2, <1>3, <1>4, <1>5 DEF RestOf
<1>7. Lefts' = Lefts
  BY <1>2, <1>6 DEF Lefts
<1>8. Running' = Running
  BY <1>2 DEF Running
<1> QED
  BY <1>2, <1>5, <1>7, <1>8, SameMapped DEF Mapped

LEMMA RecvRefines ==
  ASSUME ServerInv, ContainerInv, NEW f \in Fds, RecvData(f) \/ WheelRecvData(f)
  PROVE  Promise!Next
<1>1. Handling(f) /\ UNCHANGED <<open, mpc, timeout, container>> /\ mpc = "batch"
  BY DEF RecvData, WheelRecvData, Recv, Handling
<1>2. f \in open /\ timer[f] \in live /\ timer[f] \in Timers /\ timer[f] # Null
  BY <1>1, TimerInUse
<1>3. (OnList' <=> OnList) /\ Unit' = Unit
  BY <1>1 DEF OnList, Unit
<1>4. \A g \in open \ {f} : timer[g] \in Timers /\ timer[g] \in live /\ timer[g] # timer[f]
  BY <1>2, OwnTimer
<1>5. /\ RestOf(f)' = Life[Unit]
      /\ \A g \in open \ {f} : RestOf(g)' = RestOf(g)
  <2>1. CASE RecvData(f)
    <3>1. OnList /\ UNCHANGED timer /\ left' = [left EXCEPT ![timer[f]] = Timeout]
      BY <1>2, <2>1 DEF RecvData
    <3>2. left \in [Timers -> Nat]
      BY OneContainer
    <3> QED
      BY <1>2, <1>3, <1>4, <3>1, <3>2, UnitLife DEF RestOf
  <2>2. CASE WheelRecvData(f)
    <3> DEFINE old == timer[f]
               d == W!DelTimer(wheel, old)
               S == live \ {old}
    <3>1. PICK t \in (Timers \ live) \union {old} :
             timer' = [timer EXCEPT ![f] = t] /\ wheel' = W!AddTimer(d, WheelTimeout, t)
      BY <2>2 DEF WheelRecvData
    <3>2. OnWheel
      BY <2>2 DEF WheelRecvData
    <3>3. WheelInv(wheel, live)
      BY <3>2 DEF ContainerInv
    <3>4. t \in Timers /\ t \notin S
      BY <1>2, <3>1
    <3>5. timer'[f] = t /\ \A g \in open \ {f} : timer'[g] = timer[g] /\ timer[g] \in Timers \ {t, old}
      BY <1>2, <1>4, <3>1, OwnTimer
    <3>6. d = W!DelTimer(wheel, old) /\ S = live \ {old} /\ old \in live
      BY <1>2
    <3> HIDE DEF old, d
    <3>7. WheelInv(d, S) /\ \A u \in Timers \ {old} : W!Rest(d, u) = W!Rest(wheel, u)
      BY ONLY <3>3, <3>6, RemovedRest
    <3> HIDE DEF S
    <3>8. W!Rest(wheel', t) = WheelLife /\ \A u \in Timers \ {t} : W!Rest(wheel', u) = W!Rest(d, u)
      BY ONLY <3>1, <3>4, <3>7, AddedRest
    <3>9. ~OnList
      BY <3>2, OneContainer
    <3>10. RestOf(f)' = Life[Unit]
      BY <1>3, <3>5, <3>8, <3>9, UnitLife DEF RestOf
    <3>11. \A g \in open \ {f} : RestOf(g)' = RestOf(g)
      BY <1>3, <3>5, <3>7, <3>8, <3>9 DEF RestOf
    <3> QED
      BY <3>10, <3>11
  <2> QED
    BY <2>1, <2>2
<1>6. Lefts' = [Lefts EXCEPT ![f] = Life[Unit]]
  BY <1>1, <1>2, <1>5 DEF Lefts
<1>7. Promise!Input(f)
  BY <1>1, <1>2, <1>6 DEF Promise!Input, Lefts, Life, Unit
<1> QED
  BY <1>1, <1>7, Serves DEF Promise!Serve

LEMMA ClosedRefines ==
  ASSUME ServerInv, ContainerInv, NEW f \in Fds, RecvClosed(f)
  PROVE  Promise!Next
<1>1. Handling(f) /\ open' = open \ {f} /\ UNCHANGED <<mpc, timeout, timer>> /\ mpc = "batch"
  BY DEF RecvClosed, CbFunc, Handling
<1>2. f \in open /\ timer[f] \in live /\ timer[f] \in Timers /\ timer[f] # Null
  BY <1>1, TimerInUse
<1>3. /\ UNCHANGED container /\ left' = [left EXCEPT ![timer[f]] = 0]
      /\ ~OnList => wheel' = W!DelTimer(wheel, timer[f])
  BY <1>2 DEF RecvClosed
<1>4. (OnList' <=> OnList) /\ Unit' = Unit
  BY <1>3 DEF OnList, Unit
<1>5. \A g \in open \ {f} : timer[g] \in Timers \ {timer[f]}
  BY <1>2, OwnTimer
<1>6. \A g \in open \ {f} : RestOf(g)' = RestOf(g)
  <2>1. CASE OnList
    <3>1. left \in [Timers -> Nat]
      BY OneContainer
    <3> QED
      BY <1>1, <1>2, <1>3, <1>4, <1>5, <2>1, <3>1 DEF RestOf
  <2>2. CASE ~OnList
    <3> DEFINE t == timer[f]
               d == W!DelTimer(wheel, t)
               S == live \ {t}
    <3>1. /\ WheelInv(wheel, live) /\ t \in live /\ wheel' = d
          /\ d = W!DelTimer(wheel, t) /\ S = live \ {t}
      BY <1>2, <1>3, <2>2, OneContainer DEF ContainerInv
    <3> HIDE DEF t, d, S
    <3>2. WheelInv(d, S) /\ \A u \in Timers \ {t} : W!Rest(d, u) = W!Rest(wheel, u)
      BY ONLY <3>1, RemovedRest
    <3> QED
      BY <1>1, <1>4, <1>5, <2>2, <3>1, <3>2 DEF RestOf, t
  <2> QED
    BY <2>1, <2>2
<1>7. Lefts' = [Lefts EXCEPT ![f] = 0]
  BY <1>1, <1>2, <1>6 DEF Lefts
<1>8. Promise!Close(f)
  BY <1>1, <1>2, <1>7 DEF Promise!Close, Lefts
<1> QED
  BY <1>1, <1>3, <1>8, Serves DEF Promise!Serve

\* The wheel does not count seconds.
LEMMA SecondRefines ==
  ASSUME ServerInv, Second
  PROVE  Promise!Next \/ UNCHANGED Promise!vars
<1>1. /\ Running /\ left' = [t \in Timers |-> IF left[t] = 0 THEN 0 ELSE left[t] - 1]
      /\ UNCHANGED <<open, mpc, timeout, timer, container, wheel>>
  BY DEF Second, server
<1>2. (OnList' <=> OnList) /\ Unit' = Unit /\ Running' = Running
  BY <1>1 DEF OnList, Unit, Running
<1>3. CASE OnList
  <2>1. \A g \in open : RestOf(g) = left[timer[g]] /\ RestOf(g)' = left'[timer[g]]
    BY <1>1, <1>2, <1>3 DEF RestOf
  <2>2. \A g \in open : left'[timer[g]] = IF left[timer[g]] = 0 THEN 0 ELSE left[timer[g]] - 1
    BY <1>1, OwnTimer
  <2>3. \A g \in open : RestOf(g)' = IF RestOf(g) = 0 THEN 0 ELSE RestOf(g) - 1
    BY <2>1, <2>2
  <2>4. Lefts' = [g \in Fds |-> IF Lefts[g] = 0 THEN 0 ELSE Lefts[g] - 1]
    BY <1>1, <2>3 DEF Lefts
  <2>5. Promise!Second
    BY <1>1, <1>3, <2>4 DEF Promise!Second, Promise!Less, Lefts
  <2> QED
    BY <1>1, <2>5, Serves DEF Promise!Serve, Running
<1>4. CASE ~OnList
  <2>1. \A g \in open : RestOf(g)' = RestOf(g)
    BY <1>1, <1>2, <1>4 DEF RestOf
  <2>2. Lefts' = Lefts
    BY <1>1, <2>1 DEF Lefts
  <2> QED
    BY <1>1, <1>2, <2>2, SameMapped DEF Mapped
<1> QED
  BY <1>3, <1>4

\* The connections a tick closes are those whose timers it finds.
LEMMA ExpireCloses ==
  ASSUME ServerInv, NEW gone, gone \subseteq live, Expire(gone)
  PROVE  open' = {g \in open : timer[g] \notin gone}
<1> DEFINE S == {user[t] : t \in gone} \ {Bad}
<1>1. open' = open \ S
  BY DEF Expire, CbFunc
<1>2. ASSUME NEW g \in open
      PROVE  g \in S <=> timer[g] \in gone
  <2>1. g \in Fds /\ g # Bad /\ user[timer[g]] = g
    BY OwnTimer, Numbers
  <2>2. ASSUME NEW t \in gone, g = user[t]
        PROVE  timer[g] = t
    BY <2>1, <2>2 DEF ServerInv, TimerPerConnection
  <2> QED
    BY <2>1, <2>2
<1> HIDE DEF S
<1> QED
  BY <1>1, <1>2

LEMMA SweepRefines ==
  ASSUME ServerInv, ContainerInv, TimerHandler
  PROVE  Promise!Next
<1>1. timeout /\ ~timeout'
  BY Zenon DEF TimerHandler
<1>2. mpc = "batch" /\ mpc' = "wait" /\ UNCHANGED <<container, timer>>
  BY DEF TimerHandler, Tick, TickList, TickWheel, Expire
<1>3. (OnList' <=> OnList) /\ Unit' = Unit
  BY <1>2 DEF OnList, Unit
<1>4. CASE TickList
  <2> DEFINE gone == Expired(lst, left, 0)
  <2>1. /\ OnList /\ Expire(gone)
        /\ left' = [t \in Timers |-> IF t \in gone THEN 0 ELSE left[t]]
    BY <1>4 DEF TickList, Expire
  <2>2. gone = {t \in live : ~(0 < left[t])}
    <3>1. left \in [Timers -> Nat] /\ ListInv(lst, left, live) /\ 0 \in Nat
      BY <2>1, OneContainer DEF ContainerInv
    <3> QED
      BY <3>1, ExpiredInv
  <2> HIDE DEF gone
  <2>3. open' = {g \in open : timer[g] \notin gone}
    BY <2>1, <2>2, ExpireCloses
  <2>4. \A g \in open : /\ RestOf(g) = left[timer[g]] /\ RestOf(g)' = left'[timer[g]]
                        /\ left'[timer[g]] = left[timer[g]] /\ left[timer[g]] \in Nat
                        /\ timer[g] \in gone <=> left[timer[g]] = 0
    <3> SUFFICES ASSUME NEW g \in open
                 PROVE  /\ RestOf(g) = left[timer[g]] /\ RestOf(g)' = left'[timer[g]]
                        /\ left'[timer[g]] = left[timer[g]] /\ left[timer[g]] \in Nat
                        /\ timer[g] \in gone <=> left[timer[g]] = 0
      OBVIOUS
    <3>1. RestOf(g) = left[timer[g]] /\ RestOf(g)' = left'[timer[g]]
      BY <1>2, <1>3, <2>1 DEF RestOf
    <3>2. timer[g] \in live /\ timer[g] \in Timers /\ left[timer[g]] \in Nat
      BY OwnTimer, OneContainer
    <3>3. timer[g] \in gone <=> left[timer[g]] = 0
      BY <2>2, <3>2
    <3>4. left'[timer[g]] = left[timer[g]]
      BY <2>1, <3>2, <3>3
    <3> QED
      BY <3>1, <3>2, <3>3, <3>4
  <2>5. open \subseteq Fds
    BY OwnTimer
  <2>6. open' = {g \in open : Lefts[g] > 0}
    BY <2>3, <2>4, <2>5 DEF Lefts
  <2>7. Lefts' = Lefts
    BY <2>3, <2>4, <2>5 DEF Lefts
  <2>8. Unit # "sweep"
    BY <2>1 DEF Unit
  <2>9. Promise!Sweep
    BY <1>1, <2>6, <2>7, <2>8 DEF Promise!Sweep, Lefts, Unit
  <2> QED
    BY <1>2, <2>9, Serves DEF Promise!Serve
<1>5. CASE TickWheel
  <2> DEFINE gone == W!Fired(wheel)
  <2>1. OnWheel /\ Expire(gone) /\ wheel' = W!AfterTick(wheel)
    BY <1>5 DEF TickWheel
  <2>2. WheelInv(wheel, live) /\ ~OnList
    BY <2>1, OneContainer DEF ContainerInv
  <2>3. \A t \in live : /\ W!Rest(wheel, t) \in Nat
                        /\ W!Rest(wheel, t) = 0 <=> t \in gone
                        /\ t \notin gone => W!Rest(wheel', t) = W!Rest(wheel, t) - 1
    BY ONLY <2>1, <2>2, TickedRest
  <2>4. gone \subseteq live
    BY <2>2, FiredInv
  <2> HIDE DEF gone
  <2>5. open' = {g \in open : timer[g] \notin gone}
    BY <2>1, <2>4, ExpireCloses
  <2>6. \A g \in open : /\ RestOf(g) \in Nat
                        /\ RestOf(g) = 0 <=> timer[g] \in gone
                        /\ timer[g] \notin gone => RestOf(g)' = RestOf(g) - 1
    <3>1. \A g \in open : RestOf(g) = W!Rest(wheel, timer[g]) /\ RestOf(g)' = W!Rest(wheel', timer[g])
      BY <1>2, <1>3, <2>2 DEF RestOf
    <3>2. \A g \in open : timer[g] \in live
      BY OwnTimer
    <3> QED
      BY <2>3, <3>1, <3>2
  <2>7. open \subseteq Fds
    BY OwnTimer
  <2>8. open' = {g \in open : Lefts[g] > 0}
    BY <2>5, <2>6, <2>7 DEF Lefts
  <2>9. Lefts' = [g \in Fds |-> IF Lefts[g] = 0 THEN 0 ELSE Lefts[g] - 1]
    BY <2>5, <2>6, <2>7 DEF Lefts
  <2>10. Unit = "sweep"
    BY <2>2 DEF Unit
  <2>11. Promise!Sweep
    BY <1>1, <2>8, <2>9, <2>10 DEF Promise!Sweep, Promise!Less, Lefts, Unit
  <2> QED
    BY <1>2, <2>11, Serves DEF Promise!Serve
<1> QED
  BY <1>4, <1>5 DEF TimerHandler, Tick

\* SIGALRM asks for a sweep; what else is in the pipe does not concern a connection.
LEMMA SignalsRefine ==
  ASSUME ServerInv, HandleSignals
  PROVE  Promise!Next \/ UNCHANGED Promise!vars
<1>1. /\ UNCHANGED <<open, mpc, timer, container, wheel, left>> /\ mpc = "batch"
  BY DEF HandleSignals, Handling, timers
<1>2. Unit' = Unit /\ (OnList' <=> OnList) /\ Running' = Running
  BY <1>1 DEF Unit, OnList, Running
<1>3. Lefts' = Lefts
  <2>1. \A g \in open : RestOf(g)' = RestOf(g)
    BY <1>1, <1>2 DEF RestOf
  <2> QED
    BY <1>1, <2>1 DEF Lefts
<1>4. timeout \in BOOLEAN /\ timeout' \in BOOLEAN
  BY Zenon DEF HandleSignals, ServerInv, LoopType
<1>5. CASE timeout'
  <2>1. timeout' = TRUE
    BY Zenon, <1>4, <1>5
  <2>2. Promise!Ask
    BY <1>1, <1>3, <2>1 DEF Promise!Ask, Lefts
  <2> QED
    BY <1>1, <2>2, Serves DEF Promise!Serve
<1>6. CASE ~timeout'
  <2>1. ~timeout
    BY Zenon, <1>6 DEF HandleSignals
  <2>2. timeout' = timeout
    BY Zenon, <1>4, <1>6, <2>1
  <2> QED
    BY <1>1, <1>2, <1>3, <2>2, SameMapped DEF Mapped
<1> QED
  BY <1>5, <1>6

LEMMA GoneRefines == ASSUME Gone, mpc = "batch" PROVE Promise!Next
<1>1. open' = {} /\ mpc' = "stopped" /\ UNCHANGED container
  BY DEF Gone
<1>2. timeout' = FALSE
  BY DEF Gone
<1>3. Running /\ Running' = FALSE /\ Unit' = Unit
  BY <1>1 DEF Running, Unit, OnList
<1>4. Lefts' = [g \in Fds |-> 0]
  BY <1>1 DEF Lefts
<1>5. Promise!Stop
  BY <1>1, <1>2, <1>3, <1>4 DEF Promise!Stop, Lefts
<1> QED
  BY <1>3, <1>5 DEF Promise!Next, Unit

\* The others do nothing that a silent connection could notice.
LEMMA OtherRefines ==
  ASSUME \/ Connect \/ Terminate \/ EpollWait \/ NextRound \/ UNCHANGED vars
         \/ \E f \in Fds : Send(f) \/ HangUp(f) \/ RecvAgain(f)
         \/ \E sig \in {"ALRM", "TERM"} : SigHandler(sig)
  PROVE  UNCHANGED Promise!vars
<1>1. UNCHANGED <<open, timeout, timer, container, wheel, left>>
  BY DEF Connect, Terminate, EpollWait, NextRound, Send, HangUp, RecvAgain, SigHandler, vars,
         kernel, server, timers
<1>2. Running' = Running
  BY DEF Connect, Terminate, EpollWait, NextRound, Send, HangUp, RecvAgain, SigHandler, vars,
         server, Handling, Running
<1>3. Unit' = Unit /\ (OnList' <=> OnList)
  BY <1>1 DEF Unit, OnList
<1>4. \A g \in open : RestOf(g)' = RestOf(g)
  BY <1>1, <1>3 DEF RestOf
<1>5. Lefts' = Lefts
  BY <1>1, <1>4 DEF Lefts
<1> QED
  BY <1>1, <1>2, <1>3, <1>5, SameMapped DEF Mapped

\* The server, with the sorted list that is walked only up to the first timer that is not due, or
\* with the wheel that looks at one slot per tick, closes at each tick exactly the connections
\* whose time since their last input is up, and no other.
THEOREM ServerRefines == Spec => ImplementsIdleConnections
<1>1. Init => Promise!Init
  <2> SUFFICES ASSUME Init
               PROVE  Promise!Init
      OBVIOUS
  <2>1. open = {} /\ mpc = "wait"
    BY DEF Init
  <2>2. timeout = FALSE
    BY DEF Init
  <2>3. Lefts = [g \in Fds |-> 0] /\ Unit \in {"second", "sweep"} /\ Running = TRUE
    BY <2>1 DEF Lefts, Unit, Running
  <2> QED
    BY <2>1, <2>2, <2>3 DEF Promise!Init, Lefts, Unit
<1>2. ServerInv /\ ContainerInv /\ [Next]_vars => [Promise!Next]_(Promise!vars)
  <2> SUFFICES ASSUME ServerInv, ContainerInv, [Next]_vars
               PROVE  Promise!Next \/ UNCHANGED Promise!vars
      OBVIOUS
  <2>1. CASE AcceptCrashes \/ Stopped
    BY <2>1, GoneRefines DEF AcceptCrashes, Stopped
  <2>2. CASE AcceptFails \/ Second \/ HandleSignals \/ TimerHandler
    BY <2>2, AcceptFailsRefines, SecondRefines, SignalsRefine, SweepRefines
  <2>3. CASE \E f \in Fds : Accept(f) \/ RecvData(f) \/ WheelRecvData(f) \/ RecvClosed(f)
    BY <2>3, AcceptRefines, RecvRefines, ClosedRefines
  <2>4. CASE \/ Connect \/ Terminate \/ EpollWait \/ NextRound \/ UNCHANGED vars
             \/ \E f \in Fds : Send(f) \/ HangUp(f) \/ RecvAgain(f)
             \/ \E sig \in {"ALRM", "TERM"} : SigHandler(sig)
    BY <2>4, OtherRefines
  <2> QED
    BY <2>1, <2>2, <2>3, <2>4 DEF Next, Clients, Loop
<1> QED
  BY <1>1, <1>2, ServerInvariant, ContainerInvHolds, PTL DEF Spec, ImplementsIdleConnections,
     Promise!Spec

-----------------------------------------------------------------------------
(* The time heap: places of the array.                                     *)

LEMMA ParentIs ==
  ASSUME NEW i \in Nat \ {0}
  PROVE  /\ Parent(i) \in Nat /\ Parent(i) < i
         /\ \A p \in Nat : Parent(i) = p <=> i = (2 * p) + 1 \/ i = (2 * p) + 2
  BY DEF Parent

\* In the first n places, from place lo on, no parent expires after its children.
Ordered(A, x, n, lo) == \A j \in 1..(n - 1) : Parent(j) >= lo => x[A[Parent(j)]] <= x[A[j]]

LEMMA ChildLeast ==
  ASSUME NEW n \in Nat, NEW A, \A i \in 0..(n - 1) : A[i] \in Timers, expire \in [Timers -> Nat],
         NEW h \in 0..(n - 1), 2 * h + 1 <= n - 1
  PROVE  /\ Child(A, n, h) \in 1..(n - 1) /\ Child(A, n, h) > h /\ Parent(Child(A, n, h)) = h
         /\ \A j \in 1..(n - 1) : Parent(j) = h => expire[A[Child(A, n, h)]] <= expire[A[j]]
<1> DEFINE l == 2 * h + 1
           c == Child(A, n, h)
<1>1. /\ l \in 1..(n - 1) /\ l > h /\ l + 1 > h
      /\ (l < n - 1 => l + 1 \in 1..(n - 1))
      /\ Parent(l) = h /\ Parent(l + 1) = h
      /\ \A j \in 1..(n - 1) : Parent(j) = h => j = l \/ j = l + 1
  <2>1. /\ l \in 1..(n - 1) /\ l > h /\ l + 1 > h /\ h \in Nat
        /\ (l < n - 1 => l + 1 \in 1..(n - 1))
    OBVIOUS
  <2>2. Parent(l) = h
    BY <2>1, ParentIs
  <2>3. l + 1 \in Nat \ {0} /\ l + 1 = (2 * h) + 2
    BY <2>1
  <2>4. Parent(l + 1) = h
    BY <2>1, <2>3, ParentIs
  <2>5. ASSUME NEW j \in 1..(n - 1), Parent(j) = h
        PROVE  j = l \/ j = l + 1
    <3>1. j \in Nat \ {0} /\ h \in Nat
      OBVIOUS
    <3>2. j = (2 * h) + 1 \/ j = (2 * h) + 2
      BY <2>5, <3>1, ParentIs
    <3> QED
      BY <3>2
  <2> QED
    BY <2>1, <2>2, <2>4, <2>5
<1>2. c = IF l < n - 1 /\ expire[A[l + 1]] < expire[A[l]] THEN l + 1 ELSE l
  BY DEF Child
<1> HIDE DEF l, c
<1>3. c \in 1..(n - 1) /\ c > h /\ Parent(c) = h
  BY <1>1, <1>2
<1>4. ASSUME NEW j \in 1..(n - 1), Parent(j) = h
      PROVE  expire[A[c]] <= expire[A[j]]
  <2>1. j = l \/ j = l + 1
    BY <1>1, <1>4
  <2>2. expire[A[l]] \in Nat
    BY <1>1
  <2>3. l < n - 1 => expire[A[l + 1]] \in Nat
    BY <1>1
  <2>4. j = l + 1 => l < n - 1
    BY <1>1
  <2> QED
    BY <1>2, <2>1, <2>2, <2>3, <2>4
<1> QED
  BY <1>3, <1>4 DEF c

\* R is A with t moved to place h: q says where each of the first n comes from.
Moves(A, t, h, R, q, n) ==
    /\ q \in [0..(n - 1) -> 0..(n - 1)]
    /\ \A i, j \in 0..(n - 1) : q[i] = q[j] => i = j
    /\ \A k \in 0..(n - 1) : \E i \in 0..(n - 1) : q[i] = k
    /\ \A i \in 0..(n - 1) : R[i] = IF q[i] = h THEN t ELSE A[q[i]]

LEMMA MoveEnds ==
  ASSUME NEW n \in Nat, NEW m \in Nat, n <= m, NEW A, A \in [0..(m - 1) -> Pointer],
         NEW t \in Pointer, NEW h \in 0..(n - 1), NEW R, R = [A EXCEPT ![h] = t],
         NEW q, q = [i \in 0..(n - 1) |-> i]
  PROVE  Moves(A, t, h, R, q, n)
<1>1. h \in 0..(m - 1) /\ \A i \in 0..(n - 1) : i \in 0..(m - 1)
  OBVIOUS
<1>2. /\ R \in [0..(m - 1) -> Pointer] /\ R[h] = t
      /\ \A i \in 0..(m - 1) : i # h => R[i] = A[i]
  BY <1>1
<1>3. Moves(A, t, h, R, q, n)
  BY <1>1, <1>2 DEF Moves
<1> QED
  BY <1>3

\* One place on: what is at c moves to h, and t comes from h.
OneOn(A, n, c, h, S, p, R, q) ==
    /\ R = [S EXCEPT ![h] = A[c]]
    /\ q = [i \in 0..(n - 1) |-> IF i = h THEN c ELSE IF p[i] = c THEN h ELSE p[i]]

LEMMA MoveOn ==
  ASSUME NEW n \in Nat, NEW m \in Nat, n <= m, NEW A, A \in [0..(m - 1) -> Pointer], NEW t,
         NEW c \in 0..(n - 1), NEW S, NEW p, Moves(A, t, c, S, p, n), S \in [0..(m - 1) -> Pointer],
         NEW h \in 0..(n - 1), h # c, p[h] = h, NEW R, NEW q,
         OneOn(A, n, c, h, S, p, R, q)
  PROVE  Moves(A, t, h, R, q, n)
<1>1. h \in 0..(m - 1) /\ c \in 0..(m - 1) /\ \A i \in 0..(n - 1) : i \in 0..(m - 1)
  OBVIOUS
<1>2. /\ R \in [0..(m - 1) -> Pointer] /\ R[h] = A[c]
      /\ \A i \in 0..(m - 1) : i # h => R[i] = S[i]
  BY <1>1 DEF OneOn
<1>3. /\ p \in [0..(n - 1) -> 0..(n - 1)]
      /\ \A i, j \in 0..(n - 1) : p[i] = p[j] => i = j
      /\ \A k \in 0..(n - 1) : \E i \in 0..(n - 1) : p[i] = k
      /\ \A i \in 0..(n - 1) : S[i] = IF p[i] = c THEN t ELSE A[p[i]]
  BY DEF Moves
<1>4. q \in [0..(n - 1) -> 0..(n - 1)]
      /\ \A i \in 0..(n - 1) : q[i] = IF i = h THEN c ELSE IF p[i] = c THEN h ELSE p[i]
  BY <1>3 DEF OneOn
<1> HIDE DEF Moves
<1>5. \A i \in 0..(n - 1) : i # h => p[i] # h
  BY <1>3
<1>6. ASSUME NEW i \in 0..(n - 1), NEW j \in 0..(n - 1), q[i] = q[j]
      PROVE  i = j
  <2>1. CASE i = h \/ j = h
    BY ONLY <1>3, <1>4, <1>5, <1>6, <2>1, h # c
  <2>2. CASE i # h /\ j # h
    <3>1. p[i] = p[j]
      BY ONLY <1>4, <1>5, <1>6, <2>2
    <3> QED
      BY ONLY <1>3, <3>1
  <2> QED
    BY <2>1, <2>2
<1>7. ASSUME NEW k \in 0..(n - 1)
      PROVE  \E i \in 0..(n - 1) : q[i] = k
  <2>1. CASE k = c
    BY <1>4, <2>1
  <2>2. CASE k = h
    <3>1. PICK i \in 0..(n - 1) : p[i] = c
      BY <1>3
    <3> QED
      BY <1>4, <2>2, <3>1
  <2>3. CASE k # c /\ k # h
    <3>1. PICK i \in 0..(n - 1) : p[i] = k
      BY <1>3
    <3> QED
      BY <1>4, <2>3, <3>1
  <2> QED
    BY <2>1, <2>2, <2>3
<1>8. ASSUME NEW i \in 0..(n - 1)
      PROVE  R[i] = IF q[i] = h THEN t ELSE A[q[i]]
  <2>1. CASE i = h
    BY <1>2, <1>4, <2>1
  <2>2. CASE i # h
    <3>1. R[i] = IF p[i] = c THEN t ELSE A[p[i]]
      BY <1>1, <1>2, <1>3, <2>2
    <3> QED
      BY <1>4, <1>5, <2>2, <3>1
  <2> QED
    BY <2>1, <2>2
<1>9. Moves(A, t, h, R, q, n)
  BY <1>4, <1>6, <1>7, <1>8 DEF Moves
<1> QED
  BY <1>9

\* R holds in its first n places what A holds there, in some order.
Shuffled(A, n, R) ==
    /\ {R[i] : i \in 0..(n - 1)} = {A[i] : i \in 0..(n - 1)}
    /\ (\A i, j \in 0..(n - 1) : A[i] = A[j] => i = j)
          => \A i, j \in 0..(n - 1) : R[i] = R[j] => i = j

\* What has moved is what was there.
LEMMA SameElements ==
  ASSUME NEW n \in Nat, NEW A, NEW R, NEW q, NEW h \in 0..(n - 1), Moves(A, A[h], h, R, q, n)
  PROVE  Shuffled(A, n, R)
<1>1. /\ q \in [0..(n - 1) -> 0..(n - 1)]
      /\ \A i, j \in 0..(n - 1) : q[i] = q[j] => i = j
      /\ \A k \in 0..(n - 1) : \E i \in 0..(n - 1) : q[i] = k
      /\ \A i \in 0..(n - 1) : R[i] = A[q[i]]
  BY DEF Moves
<1>2. \A i \in 0..(n - 1) : R[i] = A[q[i]] /\ q[i] \in 0..(n - 1)
  BY <1>1
<1>3. {R[i] : i \in 0..(n - 1)} = {A[i] : i \in 0..(n - 1)}
  <2>1. \A i \in 0..(n - 1) : R[i] \in {A[k] : k \in 0..(n - 1)}
    BY <1>2
  <2>2. ASSUME NEW k \in 0..(n - 1)
        PROVE  A[k] \in {R[i] : i \in 0..(n - 1)}
    <3>1. PICK i \in 0..(n - 1) : q[i] = k
      BY <1>1
    <3> QED
      BY <1>2, <3>1
  <2> QED
    BY <2>1, <2>2
<1>4. ASSUME \A i, j \in 0..(n - 1) : A[i] = A[j] => i = j,
             NEW i \in 0..(n - 1), NEW j \in 0..(n - 1), R[i] = R[j]
      PROVE  i = j
  <2>1. A[q[i]] = A[q[j]] /\ q[i] \in 0..(n - 1) /\ q[j] \in 0..(n - 1)
    BY <1>2, <1>4
  <2>2. q[i] = q[j]
    BY ONLY <1>4, <2>1
  <2> QED
    BY ONLY <1>1, <2>2
<1> QED
  BY ONLY <1>3, <1>4 DEF Shuffled

-----------------------------------------------------------------------------
(* The time heap: a hole that moves.  Percolating goes from place to place *)
(* by nx while the place is in K; t ends where it stops.                   *)

\* Each step comes nearer to the end.
Ranked(n, K, nx, rank) ==
    /\ K \subseteq 0..(n - 1) /\ rank \in [0..(n - 1) -> 0..(n - 1)]
    /\ \A h \in K : nx[h] \in 0..(n - 1) /\ rank[nx[h]] < rank[h]

IsSift(B, n, t, K, nx, f) ==
    f = [h \in 0..(n - 1) |-> IF h \in K THEN [f[nx[h]] EXCEPT ![h] = B[nx[h]]]
                              ELSE [B EXCEPT ![h] = t]]

LEMMA SiftExists ==
  ASSUME NEW n \in Nat, NEW B, NEW t, NEW K, NEW nx, NEW rank, Ranked(n, K, nx, rank)
  PROVE  \E f : IsSift(B, n, t, K, nx, f)
<1> DEFINE P == 0..(n - 1)
           Body(f, h) == IF h \in K THEN [f[nx[h]] EXCEPT ![h] = B[nx[h]]] ELSE [B EXCEPT ![h] = t]
           Good(m, f) == \A h \in P : rank[h] < m => f[h] = Body(f, h)
           G == {m \in 0..n : \E f : Good(m, f)}
<1>1. /\ \A h \in P : rank[h] \in 0..(n - 1)
      /\ \A h \in K : h \in P /\ nx[h] \in P /\ rank[nx[h]] < rank[h]
  BY DEF Ranked
<1>2. 0 \in G
  <2>1. Good(0, B)
    BY <1>1
  <2> HIDE DEF Good
  <2> QED
    BY <2>1
<1>3. ASSUME NEW m \in 0..(n - 1), m \in G
      PROVE  m + 1 \in G
  <2>1. PICK g : Good(m, g)
    BY <1>3
  <2> DEFINE f == [h \in P |-> IF rank[h] < m THEN g[h] ELSE Body(g, h)]
  <2>2. \A h \in P : f[h] = IF rank[h] < m THEN g[h] ELSE Body(g, h)
    OBVIOUS
  <2> HIDE DEF f
  <2>3. ASSUME NEW h \in P, rank[h] < m + 1
        PROVE  f[h] = Body(f, h)
    <3>1. f[h] = Body(g, h)
      BY <2>1, <2>2
    <3>2. ASSUME h \in K
          PROVE  f[nx[h]] = g[nx[h]]
      <4>1. nx[h] \in P /\ rank[nx[h]] \in Nat /\ rank[h] \in Nat /\ rank[nx[h]] < rank[h]
        BY <1>1, <3>2
      <4>2. rank[nx[h]] < m
        BY <2>3, <4>1
      <4> QED
        BY ONLY <2>2, <4>1, <4>2
    <3> QED
      BY ONLY <3>1, <3>2
  <2>4. Good(m + 1, f)
    BY ONLY <2>3
  <2> HIDE DEF Good
  <2>5. m + 1 \in 0..n
    OBVIOUS
  <2> QED
    BY ONLY <2>4, <2>5
<1> HIDE DEF G
<1>4. n \in G
  <2>1. \A i \in 0..n : i \in G
    BY ONLY <1>2, <1>3, n \in Nat, Forwards
  <2> QED
    BY ONLY <2>1, n \in Nat
<1> USE DEF G
<1>5. PICK g : Good(n, g)
  BY ONLY <1>4
<1> DEFINE f == [h \in P |-> g[h]]
<1>6. \A h \in P : f[h] = g[h]
  OBVIOUS
<1>7. \A h \in P : g[h] = Body(g, h)
  <2>1. \A h \in P : rank[h] < n
    BY <1>1
  <2> QED
    BY ONLY <1>5, <2>1
<1> HIDE DEF f
<1>8. \A h \in P : f[h] = Body(f, h)
  <2>1. ASSUME NEW h \in P
        PROVE  f[h] = Body(f, h)
    <3>1. h \in K => f[nx[h]] = g[nx[h]]
      BY ONLY <1>1, <1>6
    <3> QED
      BY ONLY <1>6, <1>7, <3>1
  <2> QED
    BY <2>1
<1>9. f = [h \in P |-> Body(f, h)]
  <2>1. f = [h \in P |-> f[h]]
    BY DEF f
  <2> QED
    BY <1>8, <2>1
<1>10. IsSift(B, n, t, K, nx, f)
  BY ONLY <1>9 DEF IsSift
<1> QED
  BY <1>10

\* R is B with t moved from place h of the first n; what the steps do not come to is kept.
Sifted(B, n, m, t, K, nx, rank, h, R) ==
    /\ R \in [0..(m - 1) -> Pointer]
    /\ R[h] = IF h \in K THEN B[nx[h]] ELSE t
    /\ \A i \in 0..(m - 1) : i >= n => R[i] = B[i]
    /\ \E q : /\ Moves(B, t, h, R, q, n)
              /\ \A i \in 0..(n - 1) : i # h /\ (rank[h] < rank[i] \/ \A k \in K : nx[k] # i)
                                          => q[i] = i

LEMMA SiftSteps ==
  ASSUME NEW n \in Nat, NEW m \in Nat, n <= m, NEW B, B \in [0..(m - 1) -> Pointer],
         NEW t \in Pointer, NEW K, NEW nx, NEW rank, Ranked(n, K, nx, rank),
         NEW f, IsSift(B, n, t, K, nx, f)
  PROVE  \A h \in 0..(n - 1) : Sifted(B, n, m, t, K, nx, rank, h, f[h])
<1> DEFINE P == 0..(n - 1)
           G == {r \in 0..n : \A h \in P : rank[h] < r => Sifted(B, n, m, t, K, nx, rank, h, f[h])}
<1>1. /\ \A h \in P : rank[h] \in 0..(n - 1)
      /\ \A h \in K : h \in P /\ nx[h] \in P /\ rank[nx[h]] < rank[h]
  BY DEF Ranked
<1>2. \A h \in P : f[h] = IF h \in K THEN [f[nx[h]] EXCEPT ![h] = B[nx[h]]] ELSE [B EXCEPT ![h] = t]
  BY DEF IsSift
<1>3. 0 \in G
  BY <1>1
<1>4. ASSUME NEW r \in 0..(n - 1), r \in G
      PROVE  r + 1 \in G
  <2>1. ASSUME NEW h \in P, rank[h] < r + 1
        PROVE  Sifted(B, n, m, t, K, nx, rank, h, f[h])
    <3>1. CASE h \notin K
      <4> DEFINE R == f[h]
                 q == [i \in P |-> i]
      <4>1. R = [B EXCEPT ![h] = t]
        BY <1>2, <3>1
      <4>2. \A i \in P : q[i] = i
        OBVIOUS
      <4>3. q = [i \in 0..(n - 1) |-> i]
        OBVIOUS
      <4> HIDE DEF R, q
      <4>7. /\ R \in [0..(m - 1) -> Pointer] /\ R[h] = t
            /\ \A i \in 0..(m - 1) : i # h => R[i] = B[i]
        <5>1. h \in 0..(m - 1)
          OBVIOUS
        <5> QED
          BY <4>1, <5>1
      <4>4. Moves(B, t, h, R, q, n)
        BY ONLY <4>1, <4>3, n \in Nat, m \in Nat, n <= m, B \in [0..(m - 1) -> Pointer],
                t \in Pointer, h \in 0..(n - 1), MoveEnds
      <4>5. \A i \in 0..(m - 1) : i >= n => i # h
        OBVIOUS
      <4>6. Sifted(B, n, m, t, K, nx, rank, h, R)
        BY <3>1, <4>2, <4>4, <4>5, <4>7 DEF Sifted
      <4> QED
        BY <4>6 DEF R
    <3>2. CASE h \in K
      <4> DEFINE c == nx[h]
                 S == f[c]
                 R == f[h]
      <4>1. c \in P /\ rank[c] \in Nat /\ rank[h] \in Nat /\ rank[c] < rank[h] /\ h # c
        BY <1>1, <3>2
      <4>2. R = [S EXCEPT ![h] = B[c]]
        BY <1>2, <3>2
      <4>3. Sifted(B, n, m, t, K, nx, rank, c, S)
        <5>1. rank[c] < r
          BY <2>1, <4>1
        <5> QED
          BY <1>4, <4>1, <5>1
      <4> HIDE DEF c, S, R
      <4>4. S \in [0..(m - 1) -> Pointer] /\ \A i \in 0..(m - 1) : i >= n => S[i] = B[i]
        BY <4>3 DEF Sifted
      <4>5. PICK p : /\ Moves(B, t, c, S, p, n)
                     /\ \A i \in 0..(n - 1) :
                           i # c /\ (rank[c] < rank[i] \/ \A k \in K : nx[k] # i) => p[i] = i
        BY <4>3 DEF Sifted
      <4>6. p[h] = h
        BY <4>1, <4>5
      <4> DEFINE q == [i \in P |-> IF i = h THEN c ELSE IF p[i] = c THEN h ELSE p[i]]
      <4>7. \A i \in P : q[i] = IF i = h THEN c ELSE IF p[i] = c THEN h ELSE p[i]
        OBVIOUS
      <4>8. q = [i \in 0..(n - 1) |-> IF i = h THEN c ELSE IF p[i] = c THEN h ELSE p[i]]
        OBVIOUS
      <4> HIDE DEF q
      <4>9. /\ R \in [0..(m - 1) -> Pointer] /\ R[h] = B[c]
            /\ \A i \in 0..(m - 1) : i # h => R[i] = S[i]
        <5>1. h \in 0..(m - 1) /\ c \in 0..(m - 1)
          BY <4>1
        <5> QED
          BY <4>2, <4>4, <5>1
      <4>14. Moves(B, t, h, R, q, n)
        <5>1. c \in 0..(n - 1) /\ h \in 0..(n - 1) /\ h # c /\ p[h] = h
          BY ONLY <4>1, <4>6, h \in 0..(n - 1)
        <5>2. Moves(B, t, c, S, p, n) /\ S \in [0..(m - 1) -> Pointer]
          BY ONLY <4>4, <4>5
        <5>3. OneOn(B, n, c, h, S, p, R, q)
          BY ONLY <4>2, <4>8 DEF OneOn
        <5> QED
          BY ONLY <5>1, <5>2, <5>3, n \in Nat, m \in Nat, n <= m,
                  B \in [0..(m - 1) -> Pointer], MoveOn
      <4>10. \A i \in 0..(m - 1) : i >= n => R[i] = B[i]
        <5>1. \A i \in 0..(m - 1) : i >= n => i # h
          OBVIOUS
        <5> QED
          BY <4>4, <4>9, <5>1
      <4>11. ASSUME NEW i \in 0..(n - 1), i # h,
                    rank[h] < rank[i] \/ \A k \in K : nx[k] # i
             PROVE  q[i] = i
        <5>1. i # c
          <6>1. rank[c] < rank[h]
            BY <4>1
          <6>2. rank[i] \in Nat
            BY <1>1
          <6> QED
            BY <3>2, <4>1, <4>11, <6>2 DEF c
        <5>2. rank[c] < rank[i] \/ \A k \in K : nx[k] # i
          <6>1. rank[i] \in Nat
            BY <1>1
          <6>2. rank[h] < rank[i] => rank[c] < rank[i]
            BY ONLY <4>1, <6>1
          <6> QED
            BY ONLY <4>11, <6>2
        <5>3. p[i] = i
          BY ONLY <4>5, <4>11, <5>1, <5>2
        <5> QED
          BY ONLY <4>7, <4>11, <5>1, <5>3
      <4>12. R[h] = IF h \in K THEN B[nx[h]] ELSE t
        BY <3>2, <4>9 DEF c
      <4>13. Sifted(B, n, m, t, K, nx, rank, h, R)
        BY ONLY <4>9, <4>10, <4>11, <4>12, <4>14 DEF Sifted
      <4> QED
        BY <4>13 DEF R
    <3> QED
      BY <3>1, <3>2
  <2>2. r + 1 \in 0..n
    OBVIOUS
  <2> QED
    BY ONLY <2>1, <2>2
<1> HIDE DEF G
<1>5. n \in G
  <2>1. \A i \in 0..n : i \in G
    BY ONLY <1>3, <1>4, n \in Nat, Forwards
  <2> QED
    BY ONLY <2>1, n \in Nat
<1>6. \A h \in P : rank[h] < n
  BY <1>1
<1> QED
  BY ONLY <1>5, <1>6 DEF G

-----------------------------------------------------------------------------
(* The time heap: percolate_down.                                          *)

Sinks(A, n, hole) == {h \in 0..(n - 1) : /\ 2 * h + 1 <= n - 1
                                         /\ expire[A[Child(A, n, h)]] < expire[A[hole]]}
Children(A, n) == [h \in 0..(n - 1) |-> Child(A, n, h)]
FromEnd(n) == [h \in 0..(n - 1) |-> (n - 1) - h]

LEMMA SinksRanked ==
  ASSUME NEW n \in Nat, NEW A, \A i \in 0..(n - 1) : A[i] \in Timers, expire \in [Timers -> Nat],
         NEW hole
  PROVE  Ranked(n, Sinks(A, n, hole), Children(A, n), FromEnd(n))
<1> DEFINE K == Sinks(A, n, hole)
           nx == Children(A, n)
           rank == FromEnd(n)
<1>1. rank \in [0..(n - 1) -> 0..(n - 1)] /\ \A h \in 0..(n - 1) : rank[h] = (n - 1) - h
  BY DEF FromEnd
<1>2. \A h \in K : h \in 0..(n - 1) /\ 2 * h + 1 <= n - 1
  BY DEF Sinks
<1>3. \A h \in 0..(n - 1) : nx[h] = Child(A, n, h)
  BY DEF Children
<1> HIDE DEF K, nx, rank
<1>4. ASSUME NEW h \in K
      PROVE  nx[h] \in 0..(n - 1) /\ rank[nx[h]] < rank[h]
  <2>1. h \in 0..(n - 1) /\ 2 * h + 1 <= n - 1 /\ nx[h] = Child(A, n, h)
    BY <1>2, <1>3
  <2>2. Child(A, n, h) \in 1..(n - 1) /\ Child(A, n, h) > h
    BY <2>1, ChildLeast
  <2>3. nx[h] \in 0..(n - 1) /\ nx[h] > h
    BY <2>1, <2>2
  <2> QED
    BY <1>1, <2>1, <2>3
<1>5. Ranked(n, K, nx, rank)
  BY <1>1, <1>2, <1>4 DEF Ranked
<1> QED
  BY <1>5 DEF K, nx, rank

\* The array R is A with the timer at hole gone down; a timer that is not due before it stays.
Sunk(A, n, m, hole, R) ==
    /\ R \in [0..(m - 1) -> Pointer]
    /\ \A i \in 0..(m - 1) : i >= n => R[i] = A[i]
    /\ Ordered(R, expire, n, hole)
    /\ \E q : /\ Moves(A, A[hole], hole, R, q, n)
              /\ \A i \in 0..(n - 1) : i # hole /\ ~(expire[A[i]] < expire[A[hole]]) => q[i] = i

\* From any place the timer sinks into a heap from there on; the hole leaves its subtree alone.
LEMMA SunkOrder ==
  ASSUME NEW n \in Nat, NEW m \in Nat, n <= m, NEW A, A \in [0..(m - 1) -> Pointer],
         \A i \in 0..(n - 1) : A[i] \in Timers, expire \in [Timers -> Nat],
         NEW hole \in 0..(n - 1), Ordered(A, expire, n, hole + 1),
         NEW K, K = Sinks(A, n, hole), NEW nx, nx = Children(A, n), NEW rank, rank = FromEnd(n),
         NEW f, IsSift(A, n, A[hole], K, nx, f)
  PROVE  \A h \in 0..(n - 1) : h >= hole => Ordered(f[h], expire, n, h)
<1> DEFINE P == 0..(n - 1)
           x(i) == expire[A[i]]
           t == A[hole]
           Rest(h) == \A i \in P : i # h /\ (i # 0 => Parent(i) < h) => f[h][i] = A[i]
           Good(h) == h >= hole => Rest(h) /\ Ordered(f[h], expire, n, h)
           G == {r \in 0..n : \A h \in P : (n - 1) - h < r => Good(h)}
<1>1. Ranked(n, K, nx, rank)
  BY SinksRanked
<1>2. t \in Timers /\ t \in Pointer
  BY DEF Pointer
<1>3. \A h \in P : Sifted(A, n, m, t, K, nx, rank, h, f[h])
  BY ONLY <1>1, <1>2, n \in Nat, m \in Nat, n <= m, A \in [0..(m - 1) -> Pointer],
          IsSift(A, n, A[hole], K, nx, f), SiftSteps
<1>4. \A h \in P : f[h] \in [0..(m - 1) -> Pointer] /\ f[h][h] = IF h \in K THEN A[nx[h]] ELSE t
  BY <1>3 DEF Sifted
<1>5. \A h \in P : f[h] = IF h \in K THEN [f[nx[h]] EXCEPT ![h] = A[nx[h]]] ELSE [A EXCEPT ![h] = t]
  BY DEF IsSift
<1>6. /\ \A h \in P : h \in 0..(m - 1) /\ h \in Nat /\ x(h) \in Nat
      /\ expire[t] \in Nat /\ P \subseteq 0..(m - 1)
  BY <1>2
<1>7. \A h \in P : h \in K <=> 2 * h + 1 <= n - 1 /\ x(Child(A, n, h)) < expire[t]
  BY DEF Sinks
<1>8. \A h \in P : nx[h] = Child(A, n, h)
  BY DEF Children
<1>9. \A j \in 1..(n - 1) : j \in P /\ j # 0 /\ Parent(j) \in P /\ Parent(j) < j
                            /\ 2 * Parent(j) + 1 <= n - 1
  <2> SUFFICES ASSUME NEW j \in 1..(n - 1)
               PROVE  /\ j \in P /\ j # 0 /\ Parent(j) \in P /\ Parent(j) < j
                      /\ 2 * Parent(j) + 1 <= n - 1
    OBVIOUS
  <2> DEFINE p == Parent(j)
  <2>1. p \in Nat /\ p < j /\ (j = (2 * p) + 1 \/ j = (2 * p) + 2)
    <3>1. j \in Nat \ {0}
      OBVIOUS
    <3> QED
      BY <3>1, ParentIs
  <2> HIDE DEF p
  <2>2. j \in P /\ j # 0 /\ p \in P /\ p < j /\ 2 * p + 1 <= n - 1
    BY ONLY <2>1, n \in Nat, j \in 1..(n - 1)
  <2> QED
    BY <2>2 DEF p
<1>10. \A j \in 1..(n - 1) : Parent(j) >= hole + 1 => x(Parent(j)) <= x(j)
  BY DEF Ordered
<1>11. ASSUME NEW h \in P, 2 * h + 1 <= n - 1
       PROVE  /\ nx[h] \in 1..(n - 1) /\ nx[h] > h /\ Parent(nx[h]) = h
              /\ \A j \in 1..(n - 1) : Parent(j) = h => x(nx[h]) <= x(j)
  <2>1. /\ Child(A, n, h) \in 1..(n - 1) /\ Child(A, n, h) > h /\ Parent(Child(A, n, h)) = h
        /\ \A j \in 1..(n - 1) : Parent(j) = h => expire[A[Child(A, n, h)]] <= expire[A[j]]
    BY ONLY <1>11, h \in P, n \in Nat, \A i \in 0..(n - 1) : A[i] \in Timers,
            expire \in [Timers -> Nat], ChildLeast
  <2>2. nx[h] = Child(A, n, h)
    BY <1>8
  <2> QED
    BY ONLY <2>1, <2>2
<1> HIDE DEF x, t, Rest
<1>12. ASSUME NEW h \in P, h \notin K, h >= hole
       PROVE  Rest(h) /\ Ordered(f[h], expire, n, h)
  <2>1. f[h] = [A EXCEPT ![h] = t]
    BY <1>5, <1>12
  <2>2. f[h][h] = t /\ \A i \in P : i # h => f[h][i] = A[i]
    BY <1>6, <2>1
  <2>3. Rest(h)
    BY <2>2 DEF Rest
  <2>4. ASSUME NEW j \in 1..(n - 1), Parent(j) >= h
        PROVE  expire[f[h][Parent(j)]] <= expire[f[h][j]]
    <3>1. j \in P /\ Parent(j) \in P /\ Parent(j) < j /\ j # h
      BY <1>6, <1>9, <2>4
    <3>2. f[h][j] = A[j]
      BY <2>2, <3>1
    <3>3. CASE Parent(j) = h
      <4>1. x(nx[h]) <= x(j) /\ nx[h] \in P /\ 2 * h + 1 <= n - 1
        BY <1>9, <1>11, <3>3
      <4>2. ~(x(nx[h]) < expire[t])
        BY <1>7, <1>8, <1>12, <4>1
      <4>3. expire[t] <= x(j)
        BY ONLY <1>6, <3>1, <4>1, <4>2
      <4> QED
        BY <2>2, <3>2, <3>3, <4>3 DEF x
    <3>4. CASE Parent(j) # h
      <4>1. f[h][Parent(j)] = A[Parent(j)]
        BY <2>2, <3>1, <3>4
      <4>2. Parent(j) >= hole + 1
        BY SMTT(30), <1>6, <1>12, <2>4, <3>1, <3>4
      <4>3. x(Parent(j)) <= x(j)
        BY <1>10, <4>2
      <4> QED
        BY <3>2, <4>1, <4>3 DEF x
    <3> QED
      BY <3>3, <3>4
  <2>5. Ordered(f[h], expire, n, h)
    BY ONLY <2>4 DEF Ordered
  <2> QED
    BY <2>3, <2>5
<1>13. ASSUME NEW h \in P, h \in K, h >= hole,
              Rest(nx[h]), Ordered(f[nx[h]], expire, n, nx[h])
       PROVE  Rest(h) /\ Ordered(f[h], expire, n, h)
  <2> DEFINE c == nx[h]
             S == f[c]
             R == f[h]
  <2>1. /\ c \in 1..(n - 1) /\ c \in P /\ c > h /\ Parent(c) = h /\ c # h
        /\ \A j \in 1..(n - 1) : Parent(j) = h => x(c) <= x(j)
    <3>1. 2 * h + 1 <= n - 1
      BY <1>7, <1>13
    <3> QED
      BY <1>11, <3>1
  <2>2. x(c) < expire[t]
    BY <1>7, <1>8, <1>13
  <2>3. R = [S EXCEPT ![h] = A[c]] /\ S \in [0..(m - 1) -> Pointer]
    BY <1>4, <1>5, <1>13, <2>1
  <2>4. S[c] = IF c \in K THEN A[nx[c]] ELSE t
    BY <1>4, <2>1
  <2>5. \A i \in P : i # c /\ (i # 0 => Parent(i) < c) => S[i] = A[i]
    BY <1>13 DEF Rest
  <2>6. \A j \in 1..(n - 1) : Parent(j) >= c => expire[S[Parent(j)]] <= expire[S[j]]
    BY <1>13 DEF Ordered
  <2> HIDE DEF c, S, R
  <2>7. R[h] = A[c] /\ \A i \in P : i # h => R[i] = S[i]
    BY <1>6, <2>3
  <2>8. ASSUME NEW i \in P, i # h, i # 0 => Parent(i) < h
        PROVE  R[i] = A[i]
    <3>1. i # c
      BY <2>1, <2>8
    <3>2. i # 0 => Parent(i) < c
      <4>1. i # 0 => Parent(i) \in Nat
        BY ParentIs
      <4> QED
        BY <1>6, <2>1, <2>8, <4>1
    <3> QED
      BY <2>5, <2>7, <2>8, <3>1, <3>2
  <2>9. ASSUME NEW j \in 1..(n - 1), Parent(j) >= h
        PROVE  expire[R[Parent(j)]] <= expire[R[j]]
    <3>1. j \in P /\ Parent(j) \in P /\ Parent(j) < j /\ j # h /\ Parent(j) \in Nat /\ j # 0
      BY <1>6, <1>9, <2>9
    <3>2. R[j] = S[j]
      BY <2>7, <3>1
    <3>3. CASE Parent(j) = h /\ j = c
      <4>1. expire[S[c]] \in Nat /\ x(c) <= expire[S[c]]
        <5>1. CASE c \in K
          <6>1. nx[c] \in 1..(n - 1) /\ Parent(nx[c]) = c
            BY <1>7, <1>11, <2>1, <5>1
          <6>2. c >= hole + 1
            BY <1>6, <1>13, <2>1
          <6>3. x(c) <= x(nx[c]) /\ nx[c] \in P
            BY <1>9, <1>10, <6>1, <6>2
          <6> QED
            BY <1>6, <2>4, <5>1, <6>3 DEF x
        <5>2. CASE c \notin K
          <6>1. S[c] = t
            BY <2>4, <5>2
          <6> QED
            BY <1>6, <2>1, <2>2, <6>1
        <5> QED
          BY <5>1, <5>2
      <4> QED
        BY <2>7, <3>2, <3>3, <4>1 DEF x
    <3>4. CASE Parent(j) = h /\ j # c
      <4>1. Parent(j) < c
        BY <1>6, <2>1, <3>4
      <4>2. S[j] = A[j]
        BY <2>5, <3>1, <3>4, <4>1
      <4>3. x(c) <= x(j)
        BY <2>1, <3>4
      <4> QED
        BY <2>7, <3>2, <3>4, <4>2, <4>3 DEF x
    <3>5. CASE Parent(j) # h /\ Parent(j) >= c
      BY <2>6, <2>7, <3>1, <3>2, <3>5
    <3>6. CASE Parent(j) # h /\ ~(Parent(j) >= c)
      <4>1. Parent(j) < c /\ Parent(j) # c /\ j # c /\ Parent(j) # 0
        <5>1. c \in Nat /\ h \in Nat /\ c > h /\ Parent(j) < j
          BY <1>6, <2>1, <3>1
        <5>2. Parent(c) = h
          BY <2>1
        <5> QED
          BY ONLY <2>9, <3>1, <3>6, <5>1, <5>2
      <4>2. S[j] = A[j]
        BY <2>5, <3>1, <4>1
      <4>3. Parent(Parent(j)) < c
        <5>1. Parent(j) \in 1..(n - 1)
          BY <3>1, <4>1
        <5>2. Parent(Parent(j)) \in Nat /\ Parent(Parent(j)) < Parent(j)
          BY <1>6, <1>9, <5>1
        <5> QED
          BY <2>1, <3>1, <4>1, <5>2
      <4>4. S[Parent(j)] = A[Parent(j)]
        BY <2>5, <3>1, <4>1, <4>3
      <4>5. Parent(j) >= hole + 1
        BY ONLY <1>6, <1>13, <2>9, <3>1, <3>6, hole \in 0..(n - 1), n \in Nat, h \in P
      <4>6. x(Parent(j)) <= x(j)
        BY <1>10, <4>5
      <4> QED
        BY <2>7, <3>1, <3>2, <3>6, <4>2, <4>4, <4>6 DEF x
    <3> QED
      BY <3>3, <3>4, <3>5, <3>6
  <2>10. Rest(h)
    BY ONLY <2>8 DEF Rest, R
  <2>11. Ordered(R, expire, n, h)
    BY ONLY <2>9 DEF Ordered
  <2> QED
    BY <2>10, <2>11 DEF R
<1>14. 0 \in G
  BY <1>6
<1>15. ASSUME NEW r \in 0..(n - 1), r \in G
       PROVE  r + 1 \in G
  <2>1. ASSUME NEW h \in P, (n - 1) - h < r + 1, h >= hole
        PROVE  Rest(h) /\ Ordered(f[h], expire, n, h)
    <3>1. CASE h \notin K
      BY <1>12, <2>1, <3>1
    <3>2. CASE h \in K
      <4>1. nx[h] \in P /\ nx[h] > h
        <5>1. 2 * h + 1 <= n - 1
          BY <1>7, <3>2
        <5> QED
          BY <1>9, <1>11, <5>1
      <4>2. (n - 1) - nx[h] < r /\ nx[h] >= hole
        BY ONLY <2>1, <4>1, h \in P, n \in Nat, r \in 0..(n - 1), hole \in 0..(n - 1)
      <4>3. Rest(nx[h]) /\ Ordered(f[nx[h]], expire, n, nx[h])
        BY <1>15, <4>1, <4>2
      <4> QED
        BY <1>13, <2>1, <3>2, <4>3
    <3> QED
      BY <3>1, <3>2
  <2>2. r + 1 \in 0..n
    OBVIOUS
  <2> QED
    BY <2>1, <2>2
<1> HIDE DEF G
<1>16. n \in G
  <2>1. \A i \in 0..n : i \in G
    BY ONLY <1>14, <1>15, n \in Nat, Forwards
  <2> QED
    BY ONLY <2>1, n \in Nat
<1>17. \A h \in P : (n - 1) - h < n
  OBVIOUS
<1> QED
  BY ONLY <1>16, <1>17 DEF G

IsDown(A, n, hole, f) ==
    f = [h \in 0..(n - 1) |->
           LET c == Child(A, n, h)
           IN IF 2 * h + 1 <= n - 1 /\ expire[A[c]] < expire[A[hole]]
              THEN [f[c] EXCEPT ![h] = A[c]]
              ELSE [A EXCEPT ![h] = A[hole]]]

LEMMA Percolated ==
  ASSUME NEW n \in Nat, NEW m \in Nat, n <= m, NEW A, A \in [0..(m - 1) -> Pointer],
         \A i \in 0..(n - 1) : A[i] \in Timers, expire \in [Timers -> Nat],
         NEW hole \in 0..(n - 1), Ordered(A, expire, n, hole + 1)
  PROVE  Sunk(A, n, m, hole, PercolateDown(A, n, hole))
<1> DEFINE K == Sinks(A, n, hole)
           nx == Children(A, n)
           rank == FromEnd(n)
           t == A[hole]
           down == CHOOSE f : IsDown(A, n, hole, f)
<1>1. PercolateDown(A, n, hole) = down[hole]
  BY ONLY DEF PercolateDown, IsDown
<1>2. ASSUME NEW f
      PROVE  IsDown(A, n, hole, f) <=> IsSift(A, n, t, K, nx, f)
  <2> DEFINE One(h) == LET c == Child(A, n, h)
                       IN IF 2 * h + 1 <= n - 1 /\ expire[A[c]] < expire[A[hole]]
                          THEN [f[c] EXCEPT ![h] = A[c]]
                          ELSE [A EXCEPT ![h] = A[hole]]
             Two(h) == IF h \in K THEN [f[nx[h]] EXCEPT ![h] = A[nx[h]]] ELSE [A EXCEPT ![h] = t]
  <2>1. ASSUME NEW h \in 0..(n - 1)
        PROVE  One(h) = Two(h)
    <3>1. h \in K <=> 2 * h + 1 <= n - 1 /\ expire[A[Child(A, n, h)]] < expire[A[hole]]
      BY DEF Sinks
    <3>2. nx[h] = Child(A, n, h)
      BY DEF Children
    <3> HIDE DEF K, nx
    <3> QED
      BY ONLY <3>1, <3>2
  <2>2. IsDown(A, n, hole, f) <=> f = [h \in 0..(n - 1) |-> One(h)]
    BY ONLY DEF IsDown
  <2>3. IsSift(A, n, t, K, nx, f) <=> f = [h \in 0..(n - 1) |-> Two(h)]
    BY ONLY DEF IsSift
  <2> HIDE DEF One, Two
  <2>4. [h \in 0..(n - 1) |-> One(h)] = [h \in 0..(n - 1) |-> Two(h)]
    BY ONLY <2>1
  <2> QED
    BY ONLY <2>2, <2>3, <2>4
<1>3. Ranked(n, K, nx, rank)
  BY SinksRanked
<1> HIDE DEF down
<1>4. IsSift(A, n, t, K, nx, down)
  <2> HIDE DEF K, nx, rank, t
  <2>1. \E f : IsSift(A, n, t, K, nx, f)
    BY ONLY <1>3, n \in Nat, SiftExists
  <2>2. \E f : IsDown(A, n, hole, f)
    BY ONLY <1>2, <2>1
  <2>3. IsDown(A, n, hole, down)
    BY ONLY <2>2 DEF down
  <2> QED
    BY ONLY <1>2, <2>3
<1>5. Ordered(down[hole], expire, n, hole)
  <2>1. \A h \in 0..(n - 1) : h >= hole => Ordered(down[h], expire, n, h)
    BY <1>4, SunkOrder
  <2> QED
    BY <2>1
<1>6. Sifted(A, n, m, t, K, nx, rank, hole, down[hole])
  <2>1. t \in Pointer
    BY DEF Pointer
  <2> HIDE DEF K, nx, rank, t
  <2> QED
    BY ONLY <1>3, <1>4, <2>1, n \in Nat, m \in Nat, n <= m, A \in [0..(m - 1) -> Pointer],
            hole \in 0..(n - 1), SiftSteps
<1>7. \A i \in 0..(n - 1) : ~(expire[A[i]] < expire[A[hole]]) => \A k \in K : nx[k] # i
  BY DEF Sinks, Children
<1>8. PICK q : /\ Moves(A, t, hole, down[hole], q, n)
               /\ \A i \in 0..(n - 1) :
                     i # hole /\ (rank[hole] < rank[i] \/ \A k \in K : nx[k] # i) => q[i] = i
  BY <1>6 DEF Sifted
<1>9. \A i \in 0..(n - 1) : i # hole /\ ~(expire[A[i]] < expire[A[hole]]) => q[i] = i
  <2> HIDE DEF K, nx, rank, t
  <2> QED
    BY ONLY <1>7, <1>8
<1>10. /\ down[hole] \in [0..(m - 1) -> Pointer]
       /\ \A i \in 0..(m - 1) : i >= n => down[hole][i] = A[i]
  BY <1>6 DEF Sifted
<1>11. Sunk(A, n, m, hole, down[hole])
  BY ONLY <1>5, <1>8, <1>9, <1>10 DEF Sunk, t
<1> QED
  BY <1>1, <1>11

-----------------------------------------------------------------------------
(* The time heap: the constructor that is given an array.                  *)

\* R is A with its first n places rearranged.
Rearranged(A, n, m, R) ==
    /\ R \in [0..(m - 1) -> Pointer]
    /\ \A i \in 0..(m - 1) : i >= n => R[i] = A[i]
    /\ Shuffled(A, n, R)

LEMMA SunkRearranged ==
  ASSUME NEW n \in Nat, NEW m, NEW A, NEW hole \in 0..(n - 1), NEW R, Sunk(A, n, m, hole, R)
  PROVE  Rearranged(A, n, m, R)
<1>1. PICK q : Moves(A, A[hole], hole, R, q, n)
  BY DEF Sunk
<1>2. Shuffled(A, n, R)
  BY ONLY <1>1, n \in Nat, hole \in 0..(n - 1), SameElements
<1> QED
  BY <1>2 DEF Rearranged, Sunk

IsFromEnd(A, n, f) == f = [i \in 0..n |-> IF i > Parent(n) THEN A
                                          ELSE PercolateDown(f[i + 1], n, i)]

LEMMA FromEndExists == ASSUME NEW n \in Nat \ {0}, NEW A PROVE \E f : IsFromEnd(A, n, f)
<1> DEFINE Body(f, i) == IF i > Parent(n) THEN A ELSE PercolateDown(f[i + 1], n, i)
           Good(r, f) == \A i \in 0..n : n - i <= r => f[i] = Body(f, i)
           G == {r \in 0..n : \E f : Good(r, f)}
<1>1. Parent(n) \in Nat /\ Parent(n) < n
  BY ParentIs
<1>2. 0 \in G
  <2> DEFINE f == [i \in 0..n |-> A]
  <2>1. \A i \in 0..n : f[i] = A
    OBVIOUS
  <2> HIDE DEF f
  <2>2. ASSUME NEW i \in 0..n, n - i <= 0
        PROVE  f[i] = Body(f, i)
    <3>1. i = n
      BY <2>2
    <3> QED
      BY <1>1, <2>1, <3>1
  <2>3. Good(0, f)
    BY ONLY <2>2
  <2> HIDE DEF Good
  <2> QED
    BY <2>3
<1>3. ASSUME NEW r \in 0..(n - 1), r \in G
      PROVE  r + 1 \in G
  <2>1. PICK g : Good(r, g)
    BY <1>3
  <2> DEFINE f == [i \in 0..n |-> IF n - i <= r THEN g[i] ELSE Body(g, i)]
  <2>2. \A i \in 0..n : f[i] = IF n - i <= r THEN g[i] ELSE Body(g, i)
    OBVIOUS
  <2> HIDE DEF f
  <2>3. ASSUME NEW i \in 0..n, n - i <= r + 1
        PROVE  f[i] = Body(f, i)
    <3>1. f[i] = Body(g, i)
      BY <2>1, <2>2
    <3>2. ASSUME ~(i > Parent(n))
          PROVE  f[i + 1] = g[i + 1]
      <4>1. i + 1 \in 0..n /\ n - (i + 1) <= r
        BY ONLY <1>1, <2>3, <3>2, i \in 0..n, n \in Nat \ {0}, r \in 0..(n - 1)
      <4> QED
        BY ONLY <2>2, <4>1
    <3> QED
      BY ONLY <3>1, <3>2
  <2>4. Good(r + 1, f)
    BY ONLY <2>3
  <2> HIDE DEF Good
  <2>5. r + 1 \in 0..n
    OBVIOUS
  <2> QED
    BY ONLY <2>4, <2>5
<1> HIDE DEF G
<1>4. n \in G
  <2>1. n \in Nat /\ n \in 0..n
    OBVIOUS
  <2>2. \A i \in 0..n : i \in G
    BY ONLY <1>2, <1>3, <2>1, Forwards
  <2> QED
    BY ONLY <2>1, <2>2
<1>5. PICK g : Good(n, g)
  BY ONLY <1>4 DEF G
<1> DEFINE f == [i \in 0..n |-> g[i]]
<1>6. \A i \in 0..n : f[i] = g[i]
  OBVIOUS
<1>7. f = [i \in 0..n |-> f[i]]
  OBVIOUS
<1> HIDE DEF f
<1>8. ASSUME NEW i \in 0..n
      PROVE  f[i] = Body(f, i)
  <2>1. g[i] = Body(g, i)
    <3>1. n - i <= n
      OBVIOUS
    <3> QED
      BY ONLY <1>5, <3>1, i \in 0..n
  <2>2. ~(i > Parent(n)) => i + 1 \in 0..n
    BY <1>1
  <2>3. ~(i > Parent(n)) => f[i + 1] = g[i + 1]
    BY ONLY <1>6, <2>2
  <2> QED
    BY ONLY <1>6, <2>1, <2>3, i \in 0..n
<1>9. f = [i \in 0..n |-> Body(f, i)]
  BY ONLY <1>7, <1>8
<1>10. IsFromEnd(A, n, f)
  BY ONLY <1>9 DEF IsFromEnd
<1> QED
  BY <1>10

LEMMA HeapifiedOrdered ==
  ASSUME NEW n \in Nat \ {0}, NEW m \in Nat, n <= m, NEW A, A \in [0..(m - 1) -> Pointer],
         \A i \in 0..(n - 1) : A[i] \in Timers, expire \in [Timers -> Nat]
  PROVE  Rearranged(A, n, m, Heapified(A, n)) /\ Ordered(Heapified(A, n), expire, n, 0)
<1> DEFINE from == CHOOSE f : IsFromEnd(A, n, f)
           Good(i) == Rearranged(A, n, m, from[i]) /\ Ordered(from[i], expire, n, i)
           G == {r \in 0..n : Good(n - r)}
<1>1. Heapified(A, n) = from[0]
  BY ONLY n \in Nat \ {0} DEF Heapified, IsFromEnd
<1>2. IsFromEnd(A, n, from)
  BY FromEndExists
<1> HIDE DEF from
<1>3. \A i \in 0..n : from[i] = IF i > Parent(n) THEN A ELSE PercolateDown(from[i + 1], n, i)
  BY <1>2 DEF IsFromEnd
<1>4. Parent(n) \in Nat /\ Parent(n) < n
  BY ParentIs
<1>5. ASSUME NEW i \in 0..n, i > Parent(n)
      PROVE  Good(i)
  <2>1. from[i] = A
    BY <1>3, <1>5
  <2>2. Rearranged(A, n, m, A)
    BY DEF Rearranged, Shuffled
  <2>3. \A j \in 1..(n - 1) : ~(Parent(j) >= i)
    BY <1>5 DEF Parent
  <2>4. Ordered(A, expire, n, i)
    BY <2>3 DEF Ordered
  <2> QED
    BY <2>1, <2>2, <2>4
<1>6. ASSUME NEW i \in 0..(n - 1), ~(i > Parent(n)), Good(i + 1)
      PROVE  Good(i)
  <2> DEFINE B == from[i + 1]
             R == from[i]
  <2>1. R = PercolateDown(B, n, i)
    BY <1>3, <1>6
  <2>2. Rearranged(A, n, m, B) /\ Ordered(B, expire, n, i + 1)
    BY <1>6
  <2> HIDE DEF B, R
  <2>3. B \in [0..(m - 1) -> Pointer]
    BY <2>2 DEF Rearranged
  <2>4. \A k \in 0..(n - 1) : B[k] \in Timers
    <3>1. {B[k] : k \in 0..(n - 1)} = {A[k] : k \in 0..(n - 1)}
      BY <2>2 DEF Rearranged, Shuffled
    <3> QED
      BY <3>1
  <2>5. Sunk(B, n, m, i, R)
    BY <2>1, <2>2, <2>3, <2>4, Percolated
  <2>6. Rearranged(B, n, m, R)
    BY <2>5, SunkRearranged
  <2>7. Rearranged(A, n, m, R)
    <3>1. /\ R \in [0..(m - 1) -> Pointer]
          /\ \A k \in 0..(m - 1) : k >= n => R[k] = A[k]
      BY <2>2, <2>6 DEF Rearranged
    <3>2. Shuffled(A, n, R)
      BY ONLY <2>2, <2>6 DEF Rearranged, Shuffled
    <3> QED
      BY ONLY <3>1, <3>2 DEF Rearranged
  <2>8. Ordered(R, expire, n, i)
    BY <2>5 DEF Sunk
  <2> QED
    BY <2>7, <2>8 DEF R
<1> HIDE DEF Good
<1>7. 0 \in G
  <2>1. n \in 0..n /\ n - 0 = n /\ 0 \in 0..n
    OBVIOUS
  <2> QED
    BY <1>4, <1>5, <2>1
<1>8. ASSUME NEW r \in 0..(n - 1), r \in G
      PROVE  r + 1 \in G
  <2> DEFINE i == n - (r + 1)
  <2>1. i \in 0..(n - 1) /\ i \in 0..n /\ i + 1 = n - r /\ r + 1 \in 0..n
    OBVIOUS
  <2>2. Good(n - r)
    BY <1>8
  <2> HIDE DEF i
  <2>3. Good(i)
    BY ONLY <1>5, <1>6, <2>1, <2>2
  <2> QED
    BY <2>1, <2>3 DEF i
<1> HIDE DEF G
<1>9. n \in G
  <2>1. n \in Nat /\ n \in 0..n
    OBVIOUS
  <2>2. \A i \in 0..n : i \in G
    BY ONLY <1>7, <1>8, <2>1, Forwards
  <2> QED
    BY ONLY <2>1, <2>2
<1>10. Good(0)
  <2>1. n - n = 0
    OBVIOUS
  <2> QED
    BY <1>9, <2>1 DEF G
<1> QED
  BY <1>1, <1>10 DEF Good

-----------------------------------------------------------------------------
(* The time heap: percolating up in add_timer, from the last of n places.  *)

Risers(B, n, t, x) == {h \in 0..(n - 1) : Rises(B, h, t, x)}
Parents(n) == [h \in 0..(n - 1) |-> Parent(h)]
Same(n) == [h \in 0..(n - 1) |-> h]

LEMMA RisersRanked ==
  ASSUME NEW n \in Nat, NEW B, NEW t, NEW x
  PROVE  Ranked(n, Risers(B, n, t, x), Parents(n), Same(n))
<1> DEFINE K == Risers(B, n, t, x)
           nx == Parents(n)
           rank == Same(n)
<1>1. rank \in [0..(n - 1) -> 0..(n - 1)] /\ \A h \in 0..(n - 1) : rank[h] = h
  BY DEF Same
<1>2. \A h \in K : h \in 0..(n - 1) /\ h > 0
  BY DEF Risers, Rises
<1>3. \A h \in 0..(n - 1) : nx[h] = Parent(h)
  BY DEF Parents
<1> HIDE DEF K, nx, rank
<1>4. ASSUME NEW h \in K
      PROVE  nx[h] \in 0..(n - 1) /\ rank[nx[h]] < rank[h]
  <2>1. h \in 0..(n - 1) /\ h \in Nat \ {0} /\ nx[h] = Parent(h)
    BY <1>2, <1>3
  <2>2. Parent(h) \in Nat /\ Parent(h) < h
    BY <2>1, ParentIs
  <2>3. nx[h] \in 0..(n - 1) /\ nx[h] < h
    BY <2>1, <2>2
  <2> QED
    BY <1>1, <2>1, <2>3
<1>5. Ranked(n, K, nx, rank)
  BY <1>1, <1>2, <1>4 DEF Ranked
<1> QED
  BY <1>5 DEF K, nx, rank

\* Where t starts, or where a timer is that expires later.
Room(B, n, t, x, h) == h = n - 1 \/ x[t] < x[B[h]]

\* With t anywhere on its way the places are a heap; but for the last one, until t has left it.
LEMMA RisenOrder ==
  ASSUME NEW n \in Nat \ {0}, NEW m \in Nat, n <= m, NEW B, B \in [0..(m - 1) -> Pointer],
         NEW x, x \in [Timers -> Nat], \A i \in 0..(n - 2) : B[i] \in Timers, NEW t \in Timers,
         Ordered(B, x, n - 1, 0),
         NEW K, K = Risers(B, n, t, x), NEW nx, nx = Parents(n), NEW rank, rank = Same(n),
         NEW f, IsSift(B, n, t, K, nx, f)
  PROVE  \A h \in 0..(n - 1) : Room(B, n, t, x, h)
                               => Ordered(f[h], x, IF h = n - 1 THEN n ELSE n - 1, 0)
<1> DEFINE P == 0..(n - 1)
           v(i) == x[B[i]]
           Full(h) == IF h = n - 1 THEN n ELSE n - 1
           Good(h) == Room(B, n, t, x, h) => Ordered(f[h], x, Full(h), 0)
           G == {r \in 0..n : \A h \in P : h < r => Good(h)}
<1>1. Ranked(n, K, nx, rank)
  <2>1. n \in Nat
    OBVIOUS
  <2> QED
    BY <2>1, RisersRanked
<1>2. t \in Pointer /\ n \in Nat
  BY DEF Pointer
<1>3. \A h \in P : Sifted(B, n, m, t, K, nx, rank, h, f[h])
  BY ONLY <1>1, <1>2, m \in Nat, n <= m, B \in [0..(m - 1) -> Pointer],
          IsSift(B, n, t, K, nx, f), SiftSteps
<1>4. \A h \in P : f[h] \in [0..(m - 1) -> Pointer] /\ f[h][h] = IF h \in K THEN B[nx[h]] ELSE t
  BY <1>3 DEF Sifted
<1>5. \A h \in P : f[h] = IF h \in K THEN [f[nx[h]] EXCEPT ![h] = B[nx[h]]] ELSE [B EXCEPT ![h] = t]
  BY DEF IsSift
<1>6. /\ \A h \in P : h \in 0..(m - 1) /\ h \in Nat
      /\ x[t] \in Nat /\ \A i \in 0..(n - 2) : v(i) \in Nat /\ i \in P
  OBVIOUS
<1>7. \A h \in P : h \in K <=> h > 0 /\ x[t] < v(Parent(h))
  BY DEF Risers, Rises
<1>8. \A h \in P : nx[h] = Parent(h)
  BY DEF Parents
<1>9. \A j \in 1..(n - 1) : j \in P /\ Parent(j) \in 0..(n - 2) /\ Parent(j) < j
  <2> SUFFICES ASSUME NEW j \in 1..(n - 1)
               PROVE  j \in P /\ Parent(j) \in 0..(n - 2) /\ Parent(j) < j
    OBVIOUS
  <2> DEFINE p == Parent(j)
  <2>1. p \in Nat /\ p < j
    <3>1. j \in Nat \ {0}
      OBVIOUS
    <3> QED
      BY <3>1, ParentIs
  <2> HIDE DEF p
  <2>2. j \in P /\ p \in 0..(n - 2) /\ p < j
    BY ONLY <2>1, n \in Nat \ {0}, j \in 1..(n - 1)
  <2> QED
    BY <2>2 DEF p
<1>10. \A j \in 1..(n - 2) : v(Parent(j)) <= v(j)
  <2> SUFFICES ASSUME NEW j \in 1..(n - 2)
               PROVE  v(Parent(j)) <= v(j)
    OBVIOUS
  <2>1. j \in 1..((n - 1) - 1) /\ j \in 1..(n - 1)
    OBVIOUS
  <2>2. Parent(j) >= 0
    BY <1>9, <2>1
  <2> QED
    BY <2>1, <2>2 DEF Ordered
\* What lies beyond the hole is where it was.
<1>11. \A h \in P : \A i \in P : h < i => f[h][i] = B[i]
  <2> SUFFICES ASSUME NEW h \in P, NEW i \in P, h < i
               PROVE  f[h][i] = B[i]
    OBVIOUS
  <2>1. PICK q : /\ Moves(B, t, h, f[h], q, n)
                 /\ \A k \in 0..(n - 1) :
                       k # h /\ (rank[h] < rank[k] \/ \A l \in K : nx[l] # k) => q[k] = k
    BY <1>3 DEF Sifted
  <2>2. rank[h] < rank[i] /\ i # h
    BY DEF Same
  <2>3. q[i] = i
    BY <2>1, <2>2
  <2>4. f[h][i] = IF q[i] = h THEN t ELSE B[q[i]]
    BY <2>1 DEF Moves
  <2> QED
    BY <2>2, <2>3, <2>4
<1>12. ASSUME NEW h \in P, NEW i \in 0..(n - 2), Room(B, n, t, x, h), h = i
       PROVE  x[t] < v(i)
  BY <1>6, <1>12 DEF Room
<1> HIDE DEF v
<1>13. ASSUME NEW h \in P, h \notin K, Room(B, n, t, x, h)
       PROVE  Ordered(f[h], x, Full(h), 0)
  <2>1. f[h] = [B EXCEPT ![h] = t]
    BY <1>5, <1>13
  <2>2. f[h][h] = t /\ \A i \in P : i # h => f[h][i] = B[i]
    BY <1>6, <2>1
  <2>3. ASSUME NEW j \in 1..(Full(h) - 1)
        PROVE  x[f[h][Parent(j)]] <= x[f[h][j]]
    <3>1. j \in 1..(n - 1) /\ (j # h => j \in 1..(n - 2))
      OBVIOUS
    <3>2. j \in P /\ Parent(j) \in 0..(n - 2) /\ Parent(j) \in P /\ Parent(j) < j
      BY <1>6, <1>9, <3>1
    <3>3. CASE j = h
      <4>1. ~(x[t] < v(Parent(j)))
        BY <1>7, <1>13, <3>1, <3>3
      <4>2. v(Parent(j)) <= x[t]
        BY ONLY <1>6, <3>2, <4>1
      <4>3. f[h][Parent(j)] = B[Parent(j)]
        BY <1>6, <2>2, <3>2, <3>3
      <4> QED
        BY <2>2, <3>3, <4>2, <4>3 DEF v
    <3>4. CASE Parent(j) = h
      <4>1. j # h /\ j \in 0..(n - 2)
        BY <1>6, <3>1, <3>2, <3>4
      <4>2. x[t] < v(Parent(j))
        BY <1>12, <1>13, <3>2, <3>4
      <4>3. v(Parent(j)) <= v(j)
        BY <1>10, <3>1, <4>1
      <4>4. x[t] <= v(j)
        BY ONLY <1>6, <3>2, <4>1, <4>2, <4>3
      <4> QED
        BY <2>2, <3>2, <3>4, <4>1, <4>4 DEF v
    <3>5. CASE j # h /\ Parent(j) # h
      <4>1. v(Parent(j)) <= v(j)
        BY <1>10, <3>1, <3>5
      <4> QED
        BY <2>2, <3>2, <3>5, <4>1 DEF v
    <3> QED
      BY <3>3, <3>4, <3>5
  <2> HIDE DEF Full
  <2> QED
    BY ONLY <2>3 DEF Ordered
<1>14. ASSUME NEW h \in P, h \in K, Room(B, n, t, x, h),
              Room(B, n, t, x, nx[h]) => Ordered(f[nx[h]], x, Full(nx[h]), 0)
       PROVE  Ordered(f[h], x, Full(h), 0)
  <2> DEFINE p == nx[h]
             S == f[p]
             R == f[h]
  <2>1. h \in 1..(n - 1) /\ p = Parent(h) /\ p \in 0..(n - 2) /\ p \in P /\ p < h /\ x[t] < v(p)
    <3>1. h \in 1..(n - 1) /\ nx[h] = Parent(h) /\ x[t] < v(Parent(h))
      BY <1>6, <1>7, <1>8, <1>14
    <3> QED
      BY <1>6, <1>9, <3>1
  <2>2. R = [S EXCEPT ![h] = B[p]] /\ S \in [0..(m - 1) -> Pointer]
    BY <1>4, <1>5, <1>14, <2>1
  <2>3. S[p] = IF p \in K THEN B[nx[p]] ELSE t
    BY <1>4, <2>1
  <2>4. \A i \in P : p < i => S[i] = B[i]
    BY <1>11, <2>1
  <2>5. \A j \in 1..(n - 2) : x[S[Parent(j)]] <= x[S[j]]
    <3>1. Room(B, n, t, x, p)
      BY <2>1 DEF Room, v
    <3>2. Full(p) = n - 1 /\ \A j \in 1..(n - 2) : j \in 1..((n - 1) - 1) /\ Parent(j) >= 0
      <4>1. \A j \in 1..(n - 2) : j \in 1..((n - 1) - 1) /\ j \in 1..(n - 1)
        OBVIOUS
      <4>2. \A j \in 1..(n - 2) : Parent(j) >= 0
        BY <1>9, <4>1
      <4>3. Full(p) = n - 1
        BY <2>1
      <4> QED
        BY <4>1, <4>2, <4>3
    <3>3. Ordered(S, x, n - 1, 0)
      BY <1>14, <3>1, <3>2
    <3> QED
      BY ONLY <3>2, <3>3 DEF Ordered
  <2> HIDE DEF p, S, R
  <2>6. R[h] = B[p] /\ \A i \in P : i # h => R[i] = S[i]
    BY <1>6, <2>2
  <2>7. ASSUME NEW j \in 1..(Full(h) - 1)
        PROVE  x[R[Parent(j)]] <= x[R[j]]
    <3>1. j \in 1..(n - 1) /\ (j # h => j \in 1..(n - 2))
      OBVIOUS
    <3>2. j \in P /\ Parent(j) \in 0..(n - 2) /\ Parent(j) \in P /\ Parent(j) < j
      BY <1>6, <1>9, <3>1
    <3>3. CASE j = h
      <4>1. R[p] = S[p]
        BY <1>6, <2>1, <2>6
      <4>2. x[S[p]] <= v(p)
        <5>1. CASE p \in K
          <6>1. p \in 1..(n - 2) /\ nx[p] = Parent(p)
            BY <1>6, <1>7, <1>8, <2>1, <5>1
          <6>2. v(Parent(p)) <= v(p)
            BY <1>10, <6>1
          <6> QED
            BY <2>3, <5>1, <6>1, <6>2 DEF v
        <5>2. CASE p \notin K
          <6>1. S[p] = t
            BY <2>3, <5>2
          <6> QED
            BY <1>6, <2>1, <6>1
        <5> QED
          BY <5>1, <5>2
      <4> QED
        BY <2>1, <2>6, <3>3, <4>1, <4>2 DEF v
    <3>4. CASE Parent(j) = h
      <4>1. j # h /\ j \in 0..(n - 2) /\ p < j /\ j \in 1..(n - 2) /\ h \in 0..(n - 2)
        BY <1>6, <2>1, <3>1, <3>2, <3>4
      <4>2. R[j] = B[j]
        BY <2>4, <2>6, <3>2, <4>1
      <4>3. v(h) <= v(j)
        BY <1>10, <3>4, <4>1
      <4>4. v(p) <= v(h)
        <5>1. h \in 1..(n - 2)
          BY <2>1, <4>1
        <5> QED
          BY <1>10, <2>1, <5>1
      <4>5. v(p) <= v(j)
        BY ONLY <1>6, <2>1, <4>1, <4>3, <4>4
      <4> QED
        BY <2>6, <3>4, <4>2, <4>5 DEF v
    <3>5. CASE j # h /\ Parent(j) # h
      <4>1. x[S[Parent(j)]] <= x[S[j]]
        BY <2>5, <3>1, <3>5
      <4> QED
        BY <2>6, <3>2, <3>5, <4>1
    <3> QED
      BY <3>3, <3>4, <3>5
  <2> HIDE DEF Full
  <2>8. Ordered(R, x, Full(h), 0)
    BY ONLY <2>7 DEF Ordered
  <2> QED
    BY <2>8 DEF R
<1> HIDE DEF Full
<1>15. 0 \in G
  BY <1>6
<1>16. ASSUME NEW r \in 0..(n - 1), r \in G
       PROVE  r + 1 \in G
  <2>1. ASSUME NEW h \in P, h < r + 1, Room(B, n, t, x, h)
        PROVE  Ordered(f[h], x, Full(h), 0)
    <3>1. CASE h \notin K
      BY <1>13, <2>1, <3>1
    <3>2. CASE h \in K
      <4>1. nx[h] \in P /\ nx[h] < h
        <5>1. h \in 1..(n - 1) /\ nx[h] = Parent(h)
          BY <1>6, <1>7, <1>8, <3>2
        <5> QED
          BY <1>6, <1>9, <5>1
      <4>2. nx[h] < r
        BY ONLY <2>1, <4>1, h \in P, n \in Nat \ {0}, r \in 0..(n - 1)
      <4>3. Room(B, n, t, x, nx[h]) => Ordered(f[nx[h]], x, Full(nx[h]), 0)
        BY <1>16, <4>1, <4>2
      <4> QED
        BY <1>14, <2>1, <3>2, <4>3
    <3> QED
      BY <3>1, <3>2
  <2>2. r + 1 \in 0..n
    OBVIOUS
  <2> QED
    BY <2>1, <2>2
<1> HIDE DEF G
<1>17. n \in G
  <2>1. \A i \in 0..n : i \in G
    BY ONLY <1>2, <1>15, <1>16, Forwards
  <2> QED
    BY ONLY <1>2, <2>1
<1>18. \A h \in P : h < n
  OBVIOUS
<1> QED
  BY ONLY <1>17, <1>18 DEF G, Full

IsUp(B, l, t, x, f) ==
    f = [h \in 0..l |-> IF Rises(B, h, t, x) THEN [f[Parent(h)] EXCEPT ![h] = B[Parent(h)]]
                              ELSE [B EXCEPT ![h] = t]]

\* The array R is B with t put in at the last of n places and gone up.
Raised(B, n, m, t, x, R) ==
    /\ Rearranged([B EXCEPT ![n - 1] = t], n, m, R)
    /\ Ordered(R, x, n, 0)
    /\ n > 1 /\ ~(x[t] < x[B[0]]) => R[0] = B[0]

LEMMA PercolatedUp ==
  ASSUME NEW n \in Nat \ {0}, NEW m \in Nat, n <= m, NEW B, B \in [0..(m - 1) -> Pointer],
         NEW x, x \in [Timers -> Nat], \A i \in 0..(n - 2) : B[i] \in Timers, NEW t \in Timers,
         Ordered(B, x, n - 1, 0), NEW l, l = n - 1
  PROVE  Raised(B, n, m, t, x, (CHOOSE f : IsUp(B, l, t, x, f))[l])
<1> DEFINE K == Risers(B, n, t, x)
           nx == Parents(n)
           rank == Same(n)
           up == CHOOSE f : IsUp(B, l, t, x, f)
           C == [B EXCEPT ![l] = t]
           R == up[l]
<1>1. n \in Nat /\ l \in 0..(n - 1) /\ l \in 0..(m - 1) /\ t \in Pointer
  BY DEF Pointer
<1>2. ASSUME NEW f
      PROVE  IsUp(B, l, t, x, f) <=> IsSift(B, n, t, K, nx, f)
  <2> DEFINE One(h) == IF Rises(B, h, t, x) THEN [f[Parent(h)] EXCEPT ![h] = B[Parent(h)]]
                       ELSE [B EXCEPT ![h] = t]
             Two(h) == IF h \in K THEN [f[nx[h]] EXCEPT ![h] = B[nx[h]]] ELSE [B EXCEPT ![h] = t]
  <2>1. ASSUME NEW h \in 0..(n - 1)
        PROVE  One(h) = Two(h)
    <3>1. h \in K <=> Rises(B, h, t, x)
      BY DEF Risers
    <3>2. nx[h] = Parent(h)
      BY DEF Parents
    <3> HIDE DEF K, nx
    <3> QED
      BY ONLY <3>1, <3>2
  <2>2. IsUp(B, l, t, x, f) <=> f = [h \in 0..(n - 1) |-> One(h)]
    BY ONLY l = n - 1 DEF IsUp
  <2>3. IsSift(B, n, t, K, nx, f) <=> f = [h \in 0..(n - 1) |-> Two(h)]
    BY ONLY DEF IsSift
  <2> HIDE DEF One, Two
  <2>4. [h \in 0..(n - 1) |-> One(h)] = [h \in 0..(n - 1) |-> Two(h)]
    BY ONLY <2>1
  <2> QED
    BY ONLY <2>2, <2>3, <2>4
<1>3. Ranked(n, K, nx, rank)
  BY <1>1, RisersRanked
<1> HIDE DEF up
<1>4. IsSift(B, n, t, K, nx, up)
  <2> HIDE DEF K, nx, rank
  <2>1. \E f : IsSift(B, n, t, K, nx, f)
    BY ONLY <1>1, <1>3, SiftExists
  <2>2. \E f : IsUp(B, l, t, x, f)
    BY ONLY <1>2, <2>1
  <2>3. IsUp(B, l, t, x, up)
    BY ONLY <2>2 DEF up
  <2> QED
    BY ONLY <1>2, <2>3
<1>5. Ordered(R, x, n, 0)
  <2>1. \A h \in 0..(n - 1) : Room(B, n, t, x, h)
                              => Ordered(up[h], x, IF h = n - 1 THEN n ELSE n - 1, 0)
    BY <1>4, RisenOrder
  <2>2. Room(B, n, t, x, l)
    BY DEF Room
  <2>3. Ordered(up[l], x, IF l = n - 1 THEN n ELSE n - 1, 0)
    BY ONLY <1>1, <2>1, <2>2
  <2> QED
    BY <2>3
<1>6. Sifted(B, n, m, t, K, nx, rank, l, R)
  <2> HIDE DEF K, nx, rank
  <2> QED
    BY ONLY <1>1, <1>3, <1>4, m \in Nat, n <= m, B \in [0..(m - 1) -> Pointer], SiftSteps
<1>7. \A i \in 0..(n - 1) : i < l => i \in 0..(n - 2)
  OBVIOUS
<1>8. PICK q : /\ Moves(B, t, l, R, q, n)
               /\ \A i \in 0..(n - 1) :
                     i # l /\ (rank[l] < rank[i] \/ \A k \in K : nx[k] # i) => q[i] = i
  BY <1>6 DEF Sifted
<1>9. /\ R \in [0..(m - 1) -> Pointer]
      /\ \A i \in 0..(m - 1) : i >= n => R[i] = B[i]
  BY <1>6 DEF Sifted
<1>10. ASSUME n > 1, ~(x[t] < x[B[0]])
       PROVE  R[0] = B[0]
  <2>1. 0 \in 0..(n - 1) /\ 0 # l
    BY <1>10
  <2>2. \A k \in K : nx[k] # 0
    BY <1>10 DEF Risers, Parents, Rises
  <2>3. q[0] = 0
    <3> HIDE DEF K, nx, rank
    <3> QED
      BY ONLY <1>8, <2>1, <2>2
  <2>4. R[0] = IF q[0] = l THEN t ELSE B[q[0]]
    BY <1>8, <2>1 DEF Moves
  <2> QED
    BY ONLY <2>1, <2>3, <2>4
<1>11. C[l] = t /\ \A i \in 0..(m - 1) : i # l => C[i] = B[i]
  BY <1>1
<1>12. Moves(C, C[l], l, R, q, n)
  <2>1. /\ q \in [0..(n - 1) -> 0..(n - 1)]
        /\ \A i, j \in 0..(n - 1) : q[i] = q[j] => i = j
        /\ \A k \in 0..(n - 1) : \E i \in 0..(n - 1) : q[i] = k
        /\ \A i \in 0..(n - 1) : R[i] = IF q[i] = l THEN t ELSE B[q[i]]
    BY <1>8 DEF Moves
  <2>2. ASSUME NEW i \in 0..(n - 1)
        PROVE  R[i] = IF q[i] = l THEN C[l] ELSE C[q[i]]
    <3>1. q[i] \in 0..(m - 1)
      <4>1. q[i] \in 0..(n - 1)
        BY ONLY <2>1, i \in 0..(n - 1)
      <4> QED
        BY ONLY <1>1, <4>1, m \in Nat, n <= m
    <3> HIDE DEF C, R
    <3> QED
      BY ONLY <1>11, <2>1, <3>1, i \in 0..(n - 1)
  <2> HIDE DEF C, R
  <2> QED
    BY ONLY <2>1, <2>2 DEF Moves
<1> HIDE DEF C, R
<1>13. Shuffled(C, n, R)
  <2> QED
    BY ONLY <1>1, <1>12, SameElements
<1>14. \A i \in 0..(m - 1) : i >= n => R[i] = C[i]
  BY <1>9, <1>11
<1>15. Rearranged(C, n, m, R)
  BY ONLY <1>9, <1>13, <1>14 DEF Rearranged
<1>16. Raised(B, n, m, t, x, R)
  BY <1>5, <1>10, <1>15 DEF Raised, C
<1> QED
  BY <1>16 DEF up, R

\* R holds the n timers of A but the first.
WithoutFirst(A, n, m, R) ==
    /\ R \in [0..(m - 1) -> Pointer] /\ \A i \in 0..(n - 2) : R[i] \in Timers
    /\ \A i, j \in 0..(n - 2) : R[i] = R[j] => i = j
    /\ {R[i] : i \in 0..(n - 2)} = {A[i] : i \in 0..(n - 1)} \ {A[0]}
    /\ Ordered(R, expire, n - 1, 0)

\* What pop_timer does to the array: the last of n timers takes the place of the first.
LEMMA Popped ==
  ASSUME NEW n \in Nat, n > 1, NEW m \in Nat, n <= m, NEW A, A \in [0..(m - 1) -> Pointer],
         \A i \in 0..(n - 1) : A[i] \in Timers, \A i, j \in 0..(n - 1) : A[i] = A[j] => i = j,
         expire \in [Timers -> Nat], Ordered(A, expire, n, 0),
         NEW R, R = PercolateDown([A EXCEPT ![0] = A[n - 1]], n, 0)
  PROVE  WithoutFirst(A, n, m, R)
<1> DEFINE l == n - 1
           B == [A EXCEPT ![0] = A[l]]
<1>1. l \in 0..(n - 1) /\ 0 \in 0..(n - 1) /\ l # 0 /\ \A i \in 0..(n - 1) : i \in 0..(m - 1)
  OBVIOUS
<1>2. /\ B \in [0..(m - 1) -> Pointer] /\ B[0] = A[l]
      /\ \A i \in 0..(m - 1) : i # 0 => B[i] = A[i]
  BY <1>1
<1>3. R = PercolateDown(B, n, 0)
  OBVIOUS
<1> HIDE DEF B
<1>4. \A i \in 0..(n - 1) : B[i] \in Timers
  BY <1>1, <1>2
<1>5. Ordered(B, expire, n, 0 + 1)
  <2>1. ASSUME NEW j \in 1..(n - 1), Parent(j) >= 0 + 1
        PROVE  expire[B[Parent(j)]] <= expire[B[j]]
    <3>1. j # 0 /\ Parent(j) # 0 /\ j \in 0..(m - 1) /\ Parent(j) \in 0..(m - 1) /\ Parent(j) >= 0
      <4>1. j \in Nat \ {0} /\ j < m
        OBVIOUS
      <4>2. Parent(j) \in Nat /\ Parent(j) < j
        BY <4>1, ParentIs
      <4> QED
        BY <2>1, <4>1, <4>2
    <3>2. expire[A[Parent(j)]] <= expire[A[j]]
      BY <3>1 DEF Ordered
    <3> QED
      BY <1>2, <3>1, <3>2
  <2> QED
    BY ONLY <2>1 DEF Ordered
<1>6. Sunk(B, n, m, 0, R)
  BY ONLY <1>1, <1>2, <1>3, <1>4, <1>5, n \in Nat, m \in Nat, n <= m,
          expire \in [Timers -> Nat], Percolated
<1>7. PICK q : /\ Moves(B, B[0], 0, R, q, n)
               /\ \A i \in 0..(n - 1) : i # 0 /\ ~(expire[B[i]] < expire[B[0]]) => q[i] = i
  BY <1>6 DEF Sunk
<1>8. q[l] = l
  <2>1. B[l] = B[0] /\ expire[B[0]] \in Nat
    BY <1>1, <1>2, <1>4
  <2>2. ~(expire[B[l]] < expire[B[0]])
    BY ONLY <2>1
  <2> HIDE DEF l
  <2> QED
    BY ONLY <1>1, <1>7, <2>2
<1>9. /\ q \in [0..(n - 1) -> 0..(n - 1)]
      /\ \A i, j \in 0..(n - 1) : q[i] = q[j] => i = j
      /\ \A k \in 0..(n - 1) : \E i \in 0..(n - 1) : q[i] = k
      /\ \A i \in 0..(n - 1) : R[i] = B[q[i]]
  BY <1>7 DEF Moves
<1>10. \A i \in 0..(n - 1) : i \in 0..(n - 2) <=> i # l
  BY <1>1
<1>11. \A i \in 0..(n - 2) : i \in 0..(n - 1) /\ i # l
  OBVIOUS
<1> HIDE DEF l
\* Places of B but the last hold the timers of A but the first.
<1>12. ASSUME NEW i \in 0..(n - 2)
       PROVE  q[i] \in 0..(n - 2)
  <2>1. i \in 0..(n - 1) /\ i # l
    BY <1>11
  <2>2. q[i] \in 0..(n - 1) /\ q[i] # l
    BY ONLY ZenonT(60), <1>1, <1>8, <1>9, <2>1
  <2> QED
    BY ONLY <1>10, <2>2
<1>13. \A i, j \in 0..(n - 2) : B[i] = B[j] => i = j
  <2> SUFFICES ASSUME NEW i \in 0..(n - 2), NEW j \in 0..(n - 2), B[i] = B[j]
               PROVE  i = j
    OBVIOUS
  <2>1. B[i] = IF i = 0 THEN A[l] ELSE A[i]
    BY <1>1, <1>2, <1>11
  <2>2. B[j] = IF j = 0 THEN A[l] ELSE A[j]
    BY <1>1, <1>2, <1>11
  <2>3. i \in 0..(n - 1) /\ j \in 0..(n - 1) /\ i # l /\ j # l
    BY <1>11
  <2> QED
    BY ONLY <1>1, <2>1, <2>2, <2>3, B[i] = B[j], \A k, z \in 0..(n - 1) : A[k] = A[z] => k = z
<1>14. \A i, j \in 0..(n - 2) : R[i] = R[j] => i = j
  <2> SUFFICES ASSUME NEW i \in 0..(n - 2), NEW j \in 0..(n - 2), R[i] = R[j]
               PROVE  i = j
    OBVIOUS
  <2>1. B[q[i]] = B[q[j]] /\ q[i] \in 0..(n - 2) /\ q[j] \in 0..(n - 2)
    BY <1>9, <1>11, <1>12
  <2>2. q[i] = q[j]
    BY <1>13, <2>1
  <2> QED
    BY <1>9, <1>11, <2>2
<1>15. {R[i] : i \in 0..(n - 2)} = {A[i] : i \in 0..(n - 1)} \ {A[0]}
  <2>1. ASSUME NEW i \in 0..(n - 2)
        PROVE  R[i] \in {A[k] : k \in 0..(n - 1)} \ {A[0]}
    <3>1. R[i] = B[q[i]] /\ q[i] \in 0..(n - 2)
      BY <1>9, <1>11, <1>12
    <3>2. PICK k \in 0..(n - 1) : k # 0 /\ R[i] = A[k]
      BY <1>1, <1>2, <1>11, <3>1
    <3>3. A[k] # A[0]
      BY <1>1, <3>2
    <3> QED
      BY <3>2, <3>3
  <2>2. ASSUME NEW k \in 0..(n - 1), A[k] # A[0]
        PROVE  A[k] \in {R[i] : i \in 0..(n - 2)}
    <3>1. PICK z \in 0..(n - 2) : B[z] = A[k]
      <4>1. CASE k = l
        <5>1. 0 \in 0..(n - 2)
          OBVIOUS
        <5> QED
          BY <1>2, <4>1, <5>1
      <4>2. CASE k # l
        <5>1. k # 0 /\ k \in 0..(n - 2)
          BY <1>10, <2>2, <4>2
        <5> QED
          BY <1>1, <1>2, <5>1
      <4> QED
        BY <4>1, <4>2
    <3>2. PICK i \in 0..(n - 1) : q[i] = z
      BY <1>9, <1>11
    <3>3. i \in 0..(n - 2)
      BY <1>8, <1>10, <1>11, <3>1, <3>2
    <3>4. R[i] = A[k]
      BY ONLY <1>9, <3>1, <3>2
    <3> QED
      BY ONLY <3>3, <3>4
  <2>3. ASSUME NEW y \in {A[k] : k \in 0..(n - 1)} \ {A[0]}
        PROVE  y \in {R[i] : i \in 0..(n - 2)}
    <3>1. PICK k \in 0..(n - 1) : y = A[k]
      OBVIOUS
    <3> QED
      BY <2>2, <3>1
  <2>4. \A y \in {R[i] : i \in 0..(n - 2)} : y \in {A[k] : k \in 0..(n - 1)} \ {A[0]}
    BY ONLY <2>1
  <2> QED
    BY ONLY <2>3, <2>4
<1>16. \A i \in 0..(n - 2) : R[i] \in Timers
  BY <1>4, <1>9, <1>11
<1>17. R \in [0..(m - 1) -> Pointer]
  BY <1>6 DEF Sunk
<1>18. Ordered(R, expire, n - 1, 0)
  <2>1. Ordered(R, expire, n, 0)
    BY <1>6 DEF Sunk
  <2>2. \A j \in 1..((n - 1) - 1) : j \in 1..(n - 1)
    OBVIOUS
  <2> QED
    BY <2>1, <2>2 DEF Ordered
<1> QED
  BY <1>14, <1>15, <1>16, <1>17, <1>18 DEF WithoutFirst

-----------------------------------------------------------------------------
(* The time heap: the inductive invariant.                                 *)

HeapType ==
    /\ capacity \in Nat /\ cur_size \in 0..capacity
    /\ array \in [0..(capacity - 1) -> Pointer] /\ expire \in [Timers -> Nat]
    /\ now \in Nat /\ cur \in 0..now /\ pc \in {"idle", "loop", "callback"} /\ fired \in Pointer

\* Each timer is held once.
Held == /\ \A i \in 0..(cur_size - 1) : array[i] \in Timers
        /\ \A i, j \in 0..(cur_size - 1) : array[i] = array[j] => i = j
        /\ cb \subseteq Live

\* What is called is the top until it is popped, as long as no call has overtaken itself.
TopCalled ==
    IF pc = "callback"
    THEN /\ cur_size > 0
         /\ ~overtaken => /\ fired # Null => fired = array[0]
                          /\ fired = Null => array[0] \notin cb
    ELSE fired = Null

HeapInv == HeapType /\ Held /\ Ordered(array, expire, cur_size, 0) /\ TopCalled

LEMMA CountedOnce ==
  ASSUME NEW n \in Nat, NEW A, \A i, j \in 0..(n - 1) : A[i] = A[j] => i = j
  PROVE  Cardinality({A[i] : i \in 0..(n - 1)}) = n
<1> DEFINE S == {A[i] : i \in 0..(n - 1)}
           F == [k \in 1..n |-> A[k - 1]]
<1>1. \A k \in 1..n : k - 1 \in 0..(n - 1) /\ F[k] = A[k - 1]
  OBVIOUS
<1>2. F \in [1..n -> S]
  BY <1>1
<1>3. \A j, k \in 1..n : F[j] = F[k] => j = k
  <2> SUFFICES ASSUME NEW j \in 1..n, NEW k \in 1..n, F[j] = F[k]
               PROVE  j = k
    OBVIOUS
  <2>1. j - 1 = k - 1
    BY <1>1
  <2> QED
    BY <2>1
<1>4. \A y \in S : \E k \in 1..n : F[k] = y
  <2> SUFFICES ASSUME NEW i \in 0..(n - 1)
               PROVE  \E k \in 1..n : F[k] = A[i]
    OBVIOUS
  <2>1. i + 1 \in 1..n /\ (i + 1) - 1 = i
    OBVIOUS
  <2> QED
    BY <1>1, <2>1
<1> HIDE DEF S, F
<1>5. F \in Bijection(1..n, S)
  BY <1>2, <1>3, <1>4 DEF Bijection, Injection, Surjection, IsInjective
<1>6. ExistsBijection(1..n, S)
  BY <1>5 DEF ExistsBijection
<1> QED
  BY <1>6, FS_CountingElements DEF S

LEMMA HeapInvOrdered == HeapInv => HeapOrdered
<1> SUFFICES ASSUME HeapInv
             PROVE  HeapOrdered
  OBVIOUS
<1>1. /\ capacity \in Nat /\ cur_size \in 0..capacity /\ cur_size \in Nat
      /\ array \in [0..(capacity - 1) -> Pointer]
  BY DEF HeapInv, HeapType
<1>2. cur_size <= capacity /\ DOMAIN array = 0..(capacity - 1)
  BY <1>1
<1>3. Cardinality(Live) = cur_size
  BY <1>1, CountedOnce DEF HeapInv, Held, Live
<1>4. Live \subseteq Timers /\ cb \subseteq Live
  BY DEF HeapInv, Held, Live
<1>5. ASSUME NEW i \in 1..(cur_size - 1)
      PROVE  expire[array[Parent(i)]] <= expire[array[i]]
  <2>1. i \in Nat \ {0}
    BY <1>1
  <2>2. Parent(i) >= 0
    BY <2>1, ParentIs
  <2> QED
    BY <2>2 DEF HeapInv, Ordered
<1> QED
  BY <1>2, <1>3, <1>4, <1>5 DEF HeapOrdered

LEMMA HeapInitInv == HeapInit => HeapInv
<1> SUFFICES ASSUME HeapInit
             PROVE  HeapInv
  OBVIOUS
<1>2. capacity \in Nat /\ cur_size \in 0..capacity /\ cur_size \in Nat
  BY HeapAssumption DEF HeapInit
<1>3. expire \in [Timers -> Nat]
  BY HeapAssumption DEF HeapInit
<1>4. PICK given \in [0..(capacity - 1) -> Pointer] :
          /\ \A i \in 0..(capacity - 1) : given[i] = Null <=> i >= cur_size
          /\ \A i, j \in 0..(cur_size - 1) : i # j => given[i] # given[j]
          /\ array = Heapified(given, cur_size)
  BY DEF HeapInit
<1>5. \A i \in 0..(cur_size - 1) : given[i] \in Timers
  <2>1. \A i \in 0..(cur_size - 1) : i \in 0..(capacity - 1) /\ ~(i >= cur_size)
    BY <1>2
  <2> QED
    BY <1>4, <2>1 DEF Pointer
<1>6. /\ array \in [0..(capacity - 1) -> Pointer] /\ Ordered(array, expire, cur_size, 0)
      /\ \A i \in 0..(cur_size - 1) : array[i] \in Timers
      /\ \A i, j \in 0..(cur_size - 1) : array[i] = array[j] => i = j
  <2>1. CASE cur_size = 0
    <3>1. array = given
      BY <1>4, <2>1 DEF Heapified
    <3> QED
      BY <1>4, <2>1, <3>1 DEF Ordered
  <2>2. CASE cur_size # 0
    <3>1. cur_size \in Nat \ {0} /\ cur_size <= capacity
      BY <1>2, <2>2
    <3>2. Rearranged(given, cur_size, capacity, array) /\ Ordered(array, expire, cur_size, 0)
      BY <1>2, <1>3, <1>4, <1>5, <3>1, HeapifiedOrdered
    <3>3. array \in [0..(capacity - 1) -> Pointer] /\ Shuffled(given, cur_size, array)
      BY <3>2 DEF Rearranged
    <3>4. {array[i] : i \in 0..(cur_size - 1)} = {given[i] : i \in 0..(cur_size - 1)}
      BY <3>3 DEF Shuffled
    <3>5. \A i \in 0..(cur_size - 1) : array[i] \in Timers
      BY ONLY <1>5, <3>4
    <3>6. \A i, j \in 0..(cur_size - 1) : given[i] = given[j] => i = j
      BY <1>4
    <3>7. \A i, j \in 0..(cur_size - 1) : array[i] = array[j] => i = j
      BY ONLY <3>3, <3>6 DEF Shuffled
    <3> QED
      BY <3>2, <3>3, <3>5, <3>7
  <2> QED
    BY <2>1, <2>2
<1>7. HeapType
  <2>1. now = 0 /\ pc = "idle" /\ cur = 0 /\ fired = Null
    BY DEF HeapInit
  <2> QED
    BY <1>2, <1>3, <1>6, <2>1 DEF HeapType, Pointer
<1>8. Held /\ TopCalled
  <2>1. cb = Live /\ pc = "idle" /\ fired = Null
    BY DEF HeapInit
  <2> QED
    BY <1>6, <2>1 DEF Held, TopCalled
<1> QED
  BY <1>6, <1>7, <1>8 DEF HeapInv

\* Steps that leave the array and the times alone.
LEMMA SameHeapInv ==
  ASSUME HeapInv, UNCHANGED <<heap, expire>>, cb' \subseteq cb, now' \in Nat, cur' \in 0..now',
         pc' \in {"idle", "loop", "callback"}, fired' \in Pointer, TopCalled'
  PROVE  HeapInv'
<1>1. array' = array /\ capacity' = capacity /\ cur_size' = cur_size /\ expire' = expire
  BY DEF heap
<1>2. HeapType'
  BY <1>1 DEF HeapInv, HeapType
<1>3. Held'
  BY <1>1 DEF HeapInv, Held, Live
<1>4. Ordered(array, expire, cur_size, 0)'
  BY <1>1 DEF HeapInv, Ordered, Parent
<1> QED
  BY <1>2, <1>3, <1>4 DEF HeapInv

LEMMA ClockHeapInv == ASSUME HeapInv, HeapSecond PROVE HeapInv'
<1>1. /\ UNCHANGED <<heap, expire>> /\ cb' = cb /\ now' = now + 1 /\ cur' = cur /\ pc' = pc
      /\ fired' = fired /\ array' = array /\ cur_size' = cur_size /\ expire' = expire
      /\ overtaken' = overtaken
  BY DEF HeapSecond, heap, history
<1>2. now \in Nat /\ cur \in 0..now /\ pc \in {"idle", "loop", "callback"} /\ fired \in Pointer
  BY DEF HeapInv, HeapType
<1>3. TopCalled'
  BY <1>1 DEF HeapInv, TopCalled
<1> QED
  BY <1>1, <1>2, <1>3, SameHeapInv

LEMMA DelHeapInv == ASSUME HeapInv, NEW t \in Timers, Del(t) PROVE HeapInv'
<1>1. /\ UNCHANGED <<heap, expire>> /\ cb' = cb \ {t} /\ now' = now /\ cur' = cur /\ pc' = pc
      /\ fired' = fired /\ array' = array /\ cur_size' = cur_size /\ expire' = expire
      /\ overtaken' = overtaken
  BY DEF Del, heap, history
<1>2. now \in Nat /\ cur \in 0..now /\ pc \in {"idle", "loop", "callback"} /\ fired \in Pointer
  BY DEF HeapInv, HeapType
<1>3. TopCalled'
  BY <1>1 DEF HeapInv, TopCalled
<1> QED
  BY <1>1, <1>2, <1>3, SameHeapInv

LEMMA OutsideHeapInv == ASSUME HeapInv, AddOutside PROVE HeapInv'
<1>1. /\ UNCHANGED <<heap, expire>> /\ cb' = cb /\ now' = now /\ cur' = cur /\ pc' = pc
      /\ fired' = fired /\ array' = array /\ cur_size' = cur_size /\ expire' = expire
      /\ overtaken' = overtaken
  BY DEF AddOutside, heap
<1>2. now \in Nat /\ cur \in 0..now /\ pc \in {"idle", "loop", "callback"} /\ fired \in Pointer
  BY DEF HeapInv, HeapType
<1>3. TopCalled'
  BY <1>1 DEF HeapInv, TopCalled
<1> QED
  BY <1>1, <1>2, <1>3, SameHeapInv

LEMMA LoopHeapInv == ASSUME HeapInv, TickBegins \/ TickCalls \/ TickEnds PROVE HeapInv'
<1>1. /\ UNCHANGED <<heap, expire>> /\ cb' = cb /\ now' = now
      /\ array' = array /\ cur_size' = cur_size /\ expire' = expire
  BY DEF TickBegins, TickCalls, TickEnds, heap
<1>2. /\ now \in Nat /\ cur \in 0..now /\ fired \in Pointer /\ Null \in Pointer
      /\ pc \in {"idle", "loop", "callback"} /\ cur_size \in Nat
  BY DEF HeapInv, HeapType, Pointer
<1>3. fired = Null \/ pc = "callback"
  BY DEF HeapInv, TopCalled
<1>4. cur_size > 0 => array[0] \in Timers /\ array[0] \in Pointer
  <2>1. cur_size > 0 => 0 \in 0..(cur_size - 1)
    BY <1>2
  <2> QED
    BY <2>1 DEF HeapInv, Held, Pointer
<1>5. CASE TickBegins
  <2>1. pc' = "loop" /\ cur' = now /\ fired' = fired /\ pc = "idle"
    BY <1>5 DEF TickBegins
  <2>2. TopCalled'
    BY <1>3, <2>1 DEF TopCalled
  <2> QED
    BY <1>1, <1>2, <2>1, <2>2, SameHeapInv
<1>6. CASE TickCalls
  <2>1. /\ pc' = "callback" /\ cur' = cur /\ cur_size > 0
        /\ fired' = IF array[0] \in cb THEN array[0] ELSE Null
    BY <1>6 DEF TickCalls, TopIsDue
  <2>2. array[0] # Null
    BY <1>4, <2>1, TimersAssumption
  <2>3. TopCalled'
    BY <1>1, <2>1, <2>2 DEF TopCalled
  <2> QED
    BY <1>1, <1>2, <1>4, <2>1, <2>3, SameHeapInv
<1>7. CASE TickEnds
  <2>1. pc' = "idle" /\ cur' = 0 /\ fired' = fired /\ pc = "loop"
    BY <1>7 DEF TickEnds
  <2>2. TopCalled'
    BY <1>3, <2>1 DEF TopCalled
  <2> QED
    BY <1>1, <1>2, <2>1, <2>2, SameHeapInv
<1> QED
  BY <1>5, <1>6, <1>7

\* The room an array has after resize, when there is any.
LEMMA RoomyType ==
  ASSUME HeapInv, cur_size < NewCapacity
  PROVE  /\ NewCapacity \in Nat \ {0} /\ cur_size + 1 <= NewCapacity
         /\ Roomy \in [0..(NewCapacity - 1) -> Pointer]
         /\ \A i \in 0..(cur_size - 1) : Roomy[i] = array[i]
<1>1. /\ capacity \in Nat /\ cur_size \in 0..capacity /\ cur_size \in Nat
      /\ array \in [0..(capacity - 1) -> Pointer] /\ Null \in Pointer
  BY DEF HeapInv, HeapType, Pointer
<1>2. CASE cur_size < capacity
  BY <1>1, <1>2 DEF Roomy, NewCapacity
<1>3. CASE ~(cur_size < capacity)
  <2>1. /\ cur_size = capacity /\ NewCapacity = 2 * capacity /\ NewCapacity \in Nat \ {0}
        /\ cur_size + 1 <= NewCapacity
        /\ \A i \in 0..(cur_size - 1) : i \in 0..(NewCapacity - 1) /\ i < cur_size
    BY <1>1, <1>3 DEF NewCapacity
  <2>2. Roomy = [i \in 0..(NewCapacity - 1) |-> IF i < cur_size THEN array[i] ELSE Null]
    BY <1>3 DEF Roomy
  <2>3. \A i \in 0..(NewCapacity - 1) : i < cur_size => array[i] \in Pointer
    BY <1>1, <2>1
  <2>4. Roomy \in [0..(NewCapacity - 1) -> Pointer]
    BY <1>1, <2>2, <2>3
  <2>5. \A i \in 0..(cur_size - 1) : Roomy[i] = array[i]
    BY <2>1, <2>2
  <2> QED
    BY <2>1, <2>4, <2>5
<1> QED
  BY <1>2, <1>3

\* What add_timer leaves, when it has room: a heap, with t.
LEMMA AddGrows ==
  ASSUME HeapInv, NEW t \in Timers, NEW d \in 0..MaxTime, Add(t, d)
  PROVE  HeapInv' /\ Live' = Live \union {t}
<1> DEFINE n == cur_size + 1
           m == NewCapacity
           B == Roomy
           x == expire'
           R == array'
<1>1. /\ capacity' = m /\ cur_size' = n /\ cb' = cb \union {t} /\ x = [expire EXCEPT ![t] = d]
      /\ now' = now /\ pc' = pc /\ cur' = cur /\ fired' = fired /\ Calling /\ t \notin Live
      /\ overtaken' = (overtaken \/ (fired # Null /\ d < expire[fired])) /\ cur_size < NewCapacity
  BY DEF Add
<1>2. /\ cur_size \in Nat /\ n \in Nat \ {0} /\ expire \in [Timers -> Nat]
      /\ now \in Nat /\ cur \in 0..now /\ d \in Nat
      /\ array \in [0..(capacity - 1) -> Pointer] /\ fired \in Pointer
      /\ pc \in {"idle", "loop", "callback"} /\ n - 1 = cur_size
  BY HeapAssumption DEF HeapInv, HeapType
<1>3. /\ m \in Nat \ {0} /\ m \in Nat /\ n <= m /\ B \in [0..(m - 1) -> Pointer]
      /\ \A i \in 0..(cur_size - 1) : B[i] = array[i]
  BY <1>1, RoomyType
<1>4. x \in [Timers -> Nat] /\ x[t] = d /\ \A u \in Timers : u # t => x[u] = expire[u]
  BY <1>1, <1>2
<1>5. R = (CHOOSE f : IsUp(B, cur_size, t, x, f))[cur_size]
  BY ONLY Add(t, d) DEF Add, IsUp
<1>6. \A i \in 0..(n - 2) : i \in 0..(cur_size - 1)
  BY <1>2
<1>7. /\ \A i \in 0..(cur_size - 1) : array[i] \in Timers /\ array[i] \in Live /\ array[i] # t
      /\ \A i, j \in 0..(cur_size - 1) : array[i] = array[j] => i = j
      /\ cb \subseteq Live
  BY <1>1 DEF HeapInv, Held, Live
<1>8. Ordered(B, x, n - 1, 0)
  <2>1. ASSUME NEW j \in 1..(cur_size - 1)
        PROVE  x[B[Parent(j)]] <= x[B[j]]
    <3>1. j \in 0..(cur_size - 1) /\ Parent(j) \in 0..(cur_size - 1) /\ Parent(j) >= 0
      <4>1. j \in Nat \ {0} /\ j < cur_size
        BY <1>2
      <4>2. Parent(j) \in Nat /\ Parent(j) < j
        BY <4>1, ParentIs
      <4> QED
        BY <1>2, <4>1, <4>2
    <3>2. expire[array[Parent(j)]] <= expire[array[j]]
      BY <3>1 DEF HeapInv, Ordered
    <3> QED
      BY <1>3, <1>4, <1>7, <3>1, <3>2
  <2> HIDE DEF n, B, x
  <2> QED
    BY ONLY <1>2, <2>1 DEF Ordered
<1> HIDE DEF n, m, B, x, R
<1>9. Raised(B, n, m, t, x, R)
  <2>1. \A i \in 0..(n - 2) : B[i] \in Timers
    BY ONLY <1>3, <1>6, <1>7
  <2> QED
    BY ONLY <1>2, <1>3, <1>4, <1>5, <1>8, <2>1, t \in Timers, PercolatedUp
<1> DEFINE C == [B EXCEPT ![n - 1] = t]
<1>10. C[cur_size] = t /\ \A i \in 0..(cur_size - 1) : C[i] = array[i]
  <2>1. cur_size \in 0..(m - 1) /\ \A i \in 0..(cur_size - 1) : i \in 0..(m - 1) /\ i # cur_size
    BY <1>2, <1>3
  <2> QED
    BY <1>2, <1>3, <2>1
<1>11. Rearranged(C, n, m, R) /\ Ordered(R, x, n, 0)
  BY <1>9 DEF Raised
<1>12. \A i \in 0..(n - 1) : i \in 0..(cur_size - 1) \/ i = cur_size
  BY <1>2
<1>13. cur_size \in 0..(n - 1) /\ \A i \in 0..(cur_size - 1) : i \in 0..(n - 1)
  BY <1>2
<1> HIDE DEF C
<1>14. {C[i] : i \in 0..(n - 1)} = Live \union {t}
  <2>1. \A i \in 0..(n - 1) : C[i] \in Live \union {t}
    BY <1>7, <1>10, <1>12
  <2>2. \A u \in Live : \E i \in 0..(n - 1) : u = C[i]
    BY <1>10, <1>13 DEF Live
  <2>3. t \in {C[i] : i \in 0..(n - 1)}
    BY <1>10, <1>13
  <2> QED
    BY <2>1, <2>2, <2>3
<1>15. \A i, j \in 0..(n - 1) : C[i] = C[j] => i = j
  <2> SUFFICES ASSUME NEW i \in 0..(n - 1), NEW j \in 0..(n - 1), C[i] = C[j]
               PROVE  i = j
    OBVIOUS
  <2> QED
    BY <1>7, <1>10, <1>12
<1>16. /\ R \in [0..(m - 1) -> Pointer]
       /\ {R[i] : i \in 0..(n - 1)} = Live \union {t}
       /\ \A i, j \in 0..(n - 1) : R[i] = R[j] => i = j
  <2>1. R \in [0..(m - 1) -> Pointer] /\ Shuffled(C, n, R)
    BY <1>11 DEF Rearranged
  <2> QED
    BY <1>14, <1>15, <2>1 DEF Shuffled
<1>17. Live' = Live \union {t}
  <2>1. Live' = {R[i] : i \in 0..(n - 1)}
    BY <1>1 DEF Live, R
  <2> QED
    BY <1>16, <2>1
<1>18. ASSUME cur_size > 0, expire[array[0]] <= d
       PROVE  R[0] = array[0]
  <2>1. 0 \in 0..(cur_size - 1) /\ n > 1
    BY <1>2, <1>18 DEF n
  <2>2. B[0] = array[0] /\ array[0] # t /\ array[0] \in Timers
    BY <1>3, <1>7, <2>1
  <2>3. x[B[0]] = expire[array[0]] /\ expire[array[0]] \in Nat
    BY <1>2, <1>4, <2>2
  <2>4. ~(x[t] < x[B[0]])
    BY ONLY <1>2, <1>4, <1>18, <2>3
  <2>5. R[0] = B[0]
    BY <1>9, <2>1, <2>4 DEF Raised
  <2> QED
    BY <2>2, <2>5
<1>19. HeapType'
  BY <1>1, <1>2, <1>3, <1>4, <1>16 DEF HeapType, n, R, x
<1>20. Held'
  <2>1. \A i \in 0..(n - 1) : R[i] \in Timers
    <3>1. Live \subseteq Timers
      BY <1>7 DEF Live
    <3> QED
      BY <1>16, <3>1
  <2>2. cb' \subseteq Live'
    BY <1>1, <1>7, <1>17
  <2> QED
    BY <1>1, <1>16, <2>1, <2>2 DEF Held, R
<1>21. Ordered(array, expire, cur_size, 0)'
  <2>1. Ordered(R, x, n, 0)
    BY <1>11
  <2> QED
    BY <1>1, <2>1 DEF Ordered, R, x, Parent
<1>22. TopCalled'
  <2>1. CASE pc = "callback"
    <3>1. cur_size > 0 /\ fired # Null /\ n > 0
      BY <1>1, <1>2, <2>1 DEF HeapInv, TopCalled, Calling
    <3>2. ASSUME ~overtaken'
          PROVE  fired = R[0]
      <4>1. fired = array[0] /\ ~(d < expire[fired])
        BY <1>1, <2>1, <3>1, <3>2 DEF HeapInv, TopCalled
      <4>2. 0 \in 0..(cur_size - 1)
        BY <1>2, <3>1
      <4>3. expire[array[0]] \in Nat
        BY <1>2, <1>7, <4>2, array[0] \in Timers
      <4>4. expire[array[0]] <= d
        BY <1>2, <4>1, <4>3
      <4> QED
        BY <1>18, <3>1, <4>1, <4>4
    <3> QED
      BY <1>1, <2>1, <3>1, <3>2 DEF TopCalled, R
  <2>2. CASE pc # "callback"
    BY <1>1, <2>2 DEF HeapInv, TopCalled
  <2> QED
    BY <2>1, <2>2
<1>23. HeapInv'
  BY <1>19, <1>20, <1>21, <1>22 DEF HeapInv
<1> QED
  BY <1>17, <1>23

\* What pop_timer leaves.
LEMMA PopShrinks == ASSUME HeapInv, TickPops PROVE HeapInv' /\ Live' = Live \ {array[0]}
<1> DEFINE n == cur_size
           A == array
           R == array'
           top == array[0]
<1>1. /\ capacity' = capacity /\ cur_size' = n - 1 /\ cb' = cb \ {top} /\ pc' = "loop"
      /\ expire' = [expire EXCEPT ![top] = 0] /\ fired' = Null /\ now' = now /\ cur' = cur
  BY DEF TickPops
<1>2. n > 0 /\ TopCalled
  BY DEF HeapInv, TopCalled, TickPops
<1>3. /\ n \in Nat /\ capacity \in Nat \ {0} /\ capacity \in Nat /\ n <= capacity
      /\ A \in [0..(capacity - 1) -> Pointer] /\ expire \in [Timers -> Nat]
      /\ now \in Nat /\ cur \in 0..now /\ Null \in Pointer
  BY <1>2 DEF HeapInv, HeapType, Pointer
<1>4. /\ \A i \in 0..(n - 1) : A[i] \in Timers
      /\ \A i, j \in 0..(n - 1) : A[i] = A[j] => i = j
      /\ Live = {A[i] : i \in 0..(n - 1)} /\ cb \subseteq Live
  BY DEF HeapInv, Held, Live
<1>5. Ordered(A, expire, n, 0)
  BY DEF HeapInv
<1>6. /\ R \in [0..(capacity - 1) -> Pointer] /\ \A i \in 0..(n - 2) : R[i] \in Timers
      /\ \A i, j \in 0..(n - 2) : R[i] = R[j] => i = j
      /\ {R[i] : i \in 0..(n - 2)} = Live \ {top}
      /\ Ordered(R, expire, n - 1, 0)
  <2>1. CASE n > 1
    <3>1. R = PercolateDown([A EXCEPT ![0] = A[n - 1]], n, 0)
      BY <2>1 DEF TickPops
    <3>2. WithoutFirst(A, n, capacity, R)
      <4> HIDE DEF n, A, R
      <4> QED
        BY ONLY <1>3, <1>4, <1>5, <2>1, <3>1, Popped
    <3> QED
      BY <1>4, <3>2 DEF WithoutFirst
  <2>2. CASE ~(n > 1)
    <3>1. n = 1
      BY <1>2, <1>3, <2>2
    <3>2. R = [A EXCEPT ![0] = Null]
      BY <2>2 DEF TickPops
    <3>3. Live = {top}
      BY <1>4, <3>1
    <3>4. 0..(n - 2) = {} /\ 1..((n - 1) - 1) = {}
      BY <3>1
    <3>5. R \in [0..(capacity - 1) -> Pointer]
      BY <1>3, <3>2
    <3> QED
      BY <3>3, <3>4, <3>5 DEF Ordered
  <2> QED
    BY <2>1, <2>2
<1> HIDE DEF n, A, R, top
<1>7. \A i \in 0..((n - 1) - 1) : i \in 0..(n - 2)
  BY <1>3
<1>8. 0..((n - 1) - 1) = 0..(n - 2)
  BY <1>3
<1>9. Live' = Live \ {top}
  <2>1. Live' = {R[i] : i \in 0..((n - 1) - 1)}
    BY <1>1 DEF Live, R
  <2> QED
    BY <1>6, <1>8, <2>1
<1>10. expire' \in [Timers -> Nat] /\ \A u \in Timers : u # top => expire'[u] = expire[u]
  BY <1>1, <1>3
<1>11. HeapType'
  <2>1. n - 1 \in 0..capacity
    BY <1>2, <1>3
  <2> QED
    BY <1>1, <1>3, <1>6, <1>10, <2>1 DEF HeapType, R
<1>12. Held'
  <2>1. cb' \subseteq Live'
    BY <1>1, <1>4, <1>9
  <2> QED
    BY <1>1, <1>6, <1>8, <2>1 DEF Held, R
<1>13. Ordered(array, expire, cur_size, 0)'
  <2>1. ASSUME NEW j \in 1..((n - 1) - 1), Parent(j) >= 0
        PROVE  expire'[R[Parent(j)]] <= expire'[R[j]]
    <3>1. j \in 0..(n - 2) /\ Parent(j) \in 0..(n - 2)
      <4>1. j \in Nat \ {0} /\ j <= n - 2
        BY <1>3
      <4>2. Parent(j) \in Nat /\ Parent(j) < j
        BY <4>1, ParentIs
      <4> QED
        BY <1>3, <4>1, <4>2
    <3>2. expire[R[Parent(j)]] <= expire[R[j]]
      BY <1>6, <2>1 DEF Ordered
    <3>3. R[j] # top /\ R[Parent(j)] # top /\ R[j] \in Timers /\ R[Parent(j)] \in Timers
      BY <1>6, <3>1
    <3> QED
      BY <1>10, <3>2, <3>3
  <2>2. Ordered(R, expire', n - 1, 0)
    BY ONLY <2>1 DEF Ordered
  <2> QED
    BY <1>1, <2>2 DEF Ordered, R, Parent
<1>14. TopCalled'
  BY <1>1 DEF TopCalled
<1> QED
  BY <1>9, <1>11, <1>12, <1>13, <1>14 DEF HeapInv, top

LEMMA HeapNextInv == HeapInv /\ [HeapNext]_heapVars => HeapInv'
<1> SUFFICES ASSUME HeapInv, [HeapNext]_heapVars
             PROVE  HeapInv'
  OBVIOUS
<1>1. CASE HeapSecond \/ AddOutside
  BY <1>1, ClockHeapInv, OutsideHeapInv
<1>2. CASE HeapTick
  BY <1>2, LoopHeapInv, PopShrinks DEF HeapTick
<1>3. ASSUME NEW t \in Timers, Del(t)
      PROVE  HeapInv'
  BY <1>3, DelHeapInv
<1>4. ASSUME NEW t \in Timers, NEW d \in 0..MaxTime, Add(t, d)
      PROVE  HeapInv'
  BY <1>4, AddGrows
<1>5. CASE UNCHANGED heapVars
  <2>1. /\ UNCHANGED <<heap, expire>> /\ cb' = cb /\ now' = now /\ cur' = cur /\ pc' = pc
        /\ fired' = fired /\ array' = array /\ cur_size' = cur_size /\ expire' = expire
        /\ overtaken' = overtaken
    BY <1>5 DEF heapVars, heap, history
  <2>2. now \in Nat /\ cur \in 0..now /\ pc \in {"idle", "loop", "callback"} /\ fired \in Pointer
    BY DEF HeapInv, HeapType
  <2>3. TopCalled'
    BY <2>1 DEF HeapInv, TopCalled
  <2> QED
    BY <2>1, <2>2, <2>3, SameHeapInv
<1> QED
  BY <1>1, <1>2, <1>3, <1>4, <1>5 DEF HeapNext

LEMMA HeapInvHolds == HeapSpec => []HeapInv
<1>1. HeapInit => HeapInv
  BY HeapInitInv
<1>2. HeapInv /\ [HeapNext]_heapVars => HeapInv'
  BY HeapNextInv
<1> QED
  BY <1>1, <1>2, PTL DEF HeapSpec

\* The array holds each timer once, the first is the earliest and so is every parent, in a heap
\* of any number of timers and any room to begin with, until something is added to a heap that
\* was constructed with none: add_timer, of timers due at any time and from within the functions
\* tick calls, and percolate_down from the constructor and from pop_timer.
THEOREM HeapStaysOrdered == HeapSpec => []HeapOrdered
<1>1. HeapSpec => []HeapInv
  BY HeapInvHolds
<1>2. HeapInv => HeapOrdered
  BY HeapInvOrdered
<1> QED
  BY <1>1, <1>2, PTL

-----------------------------------------------------------------------------
(* The time heap keeps the promise of TimerService.                        *)

ArmedTimes == [t \in Timers |-> IF t \in Armed THEN expire[t] ELSE 0]

LEMMA Serving == Service!Spec <=> Service!Init /\ [][Service!Next]_(Service!vars)
  BY DEF Service!Spec

LEMMA SameServed ==
  UNCHANGED <<now, Armed, ArmedTimes, pc, cur, history>> => UNCHANGED Service!vars
  BY DEF Service!vars, ArmedTimes, history

\* In a heap the first expires first.
LEMMA FirstEarliest ==
  ASSUME HeapInv, NEW i \in 0..(cur_size - 1)
  PROVE  expire[array[0]] <= expire[array[i]]
<1> DEFINE n == cur_size
           G == {r \in 0..n : \A k \in 0..(n - 1) : k < r => expire[array[0]] <= expire[array[k]]}
<1>1. /\ n \in Nat /\ \A k \in 0..(n - 1) : expire[array[k]] \in Nat
  BY DEF HeapInv, HeapType, Held
<1>2. 0 \in G
  BY <1>1
<1>3. ASSUME NEW r \in 0..(n - 1), r \in G
      PROVE  r + 1 \in G
  <2>1. ASSUME NEW k \in 0..(n - 1), k < r + 1
        PROVE  expire[array[0]] <= expire[array[k]]
    <3>1. CASE k = 0
      <4>1. expire[array[0]] \in Nat
        BY <1>1, <3>1
      <4> QED
        BY <3>1, <4>1
    <3>2. CASE k # 0
      <4> DEFINE p == Parent(k)
      <4>1. k \in Nat \ {0} /\ k \in 1..(n - 1)
        BY <1>1, <3>2
      <4>2. p \in Nat /\ p < k
        BY <4>1, ParentIs
      <4>3. p >= 0 /\ expire[array[p]] <= expire[array[k]]
        BY <4>1, <4>2 DEF HeapInv, Ordered
      <4> HIDE DEF p
      <4>4. p \in 0..(n - 1) /\ p < r
        BY ONLY <1>1, <2>1, <4>1, <4>2, r \in 0..(n - 1)
      <4>5. expire[array[0]] <= expire[array[p]]
        BY <1>3, <4>4
      <4>6. 0 \in 0..(n - 1)
        BY <1>1, <4>1
      <4> QED
        BY ONLY <1>1, <4>3, <4>4, <4>5, <4>6, k \in 0..(n - 1)
    <3> QED
      BY <3>1, <3>2
  <2>2. r + 1 \in 0..n
    BY <1>1
  <2> QED
    BY <2>1, <2>2
<1> HIDE DEF G
<1>4. n \in G
  <2>1. \A k \in 0..n : k \in G
    BY ONLY <1>1, <1>2, <1>3, Forwards
  <2> QED
    BY ONLY <1>1, <2>1
<1>5. i < n
  BY <1>1
<1> QED
  BY <1>4, <1>5 DEF G

LEMMA HeapInitRefines == HeapInit => Service!Init
<1> SUFFICES ASSUME HeapInit
             PROVE  Service!Init
  OBVIOUS
<1>1. HeapInv /\ pc = "idle" /\ overtaken = FALSE /\ outside = FALSE
  BY HeapInitInv DEF HeapInit
<1>2. Armed \subseteq Timers /\ expire \in [Timers -> Nat]
  BY <1>1 DEF HeapInv, HeapType, Held, Live, Armed
<1>3. ArmedTimes \in [Timers -> Nat]
  BY <1>2 DEF ArmedTimes
<1> QED
  BY <1>1, <1>2, <1>3 DEF Service!Init, ArmedTimes

LEMMA AddRefines ==
  ASSUME HeapInv, NEW t \in Timers, NEW d \in 0..MaxTime, Add(t, d), ~overtaken'
  PROVE  Service!Arm(t)
<1>1. /\ cb' = cb \union {t} /\ expire' = [expire EXCEPT ![t] = d]
      /\ now' = now /\ pc' = pc /\ cur' = cur /\ fired' = fired /\ t \notin Live
      /\ ~overtaken
  BY DEF Add
<1>2. /\ expire \in [Timers -> Nat] /\ now \in Nat /\ d \in Nat
      /\ cb \subseteq Live /\ fired # t
  <2>1. fired \in Live \union {Null}
    <3>1. cur_size > 0 /\ cur_size \in Nat => 0 \in 0..(cur_size - 1)
      OBVIOUS
    <3> QED
      BY <1>1, <3>1 DEF HeapInv, HeapType, TopCalled, Live
  <2> QED
    BY <1>1, <2>1, HeapAssumption, TimersAssumption DEF HeapInv, HeapType, Held
<1>3. t \notin Armed /\ Armed' = Armed \union {t}
  BY <1>1, <1>2 DEF Armed
<1>4. ArmedTimes'[t] = d
  BY <1>1, <1>2, <1>3 DEF ArmedTimes
<1>5. ArmedTimes' = [ArmedTimes EXCEPT ![t] = ArmedTimes'[t]]
  <2>1. ASSUME NEW u \in Timers, u # t
        PROVE  ArmedTimes'[u] = ArmedTimes[u]
    BY <1>1, <1>2, <1>3, <2>1 DEF ArmedTimes
  <2>2. ArmedTimes' = [u \in Timers |-> ArmedTimes'[u]]
    BY DEF ArmedTimes
  <2>3. ArmedTimes = [u \in Timers |-> ArmedTimes[u]]
    BY DEF ArmedTimes
  <2> QED
    BY ONLY <2>1, <2>2, <2>3, t \in Timers
<1>6. ArmedTimes'[t] \in Nat
  BY <1>2, <1>4
<1> QED
  BY <1>1, <1>3, <1>5, <1>6 DEF Service!Arm, ArmedTimes

\* What is disarmed has no time any more.
LEMMA DisarmedTimes ==
  ASSUME NEW t \in Timers, Armed' = Armed \ {t}, expire' = expire
  PROVE  ArmedTimes' = [ArmedTimes EXCEPT ![t] = 0]
<1>1. ASSUME NEW u \in Timers
      PROVE  ArmedTimes'[u] = IF u = t THEN 0 ELSE ArmedTimes[u]
  BY DEF ArmedTimes
<1>2. ArmedTimes' = [u \in Timers |-> ArmedTimes'[u]] /\ ArmedTimes = [u \in Timers |-> ArmedTimes[u]]
  BY DEF ArmedTimes
<1> QED
  BY ONLY <1>1, <1>2, t \in Timers

LEMMA DelRefines ==
  ASSUME HeapInv, NEW t \in Timers, Del(t)
  PROVE  Service!Disarm(t) \/ UNCHANGED Service!vars
<1>1. /\ cb' = cb \ {t} /\ expire' = expire /\ history' = history
      /\ now' = now /\ pc' = pc /\ cur' = cur /\ fired' = fired
  BY DEF Del
<1>2. Armed' = Armed \ {t}
  BY <1>1 DEF Armed
<1>3. CASE t \in Armed
  <2>1. ArmedTimes' = [ArmedTimes EXCEPT ![t] = 0]
    BY <1>1, <1>2, DisarmedTimes
  <2> QED
    BY <1>1, <1>2, <1>3, <2>1 DEF Service!Disarm, ArmedTimes
<1>4. CASE t \notin Armed
  <2>1. Armed' = Armed
    BY <1>2, <1>4
  <2>2. ArmedTimes' = ArmedTimes
    BY <1>1, <2>1 DEF ArmedTimes
  <2> QED
    BY <1>1, <2>1, <2>2, SameServed
<1> QED
  BY <1>3, <1>4

\* The call of the top is the promised one; a top that was deleted is passed over.
LEMMA CallRefines ==
  ASSUME HeapInv, TickCalls
  PROVE  (\E t \in Timers : Service!Fire(t)) \/ UNCHANGED Service!vars
<1> DEFINE top == array[0]
<1>1. /\ cb' = cb /\ expire' = expire /\ now' = now /\ cur' = cur /\ pc = "loop" /\ pc' = "callback"
      /\ fired' = (IF top \in cb THEN top ELSE Null) /\ cur_size > 0 /\ expire[top] <= cur
      /\ overtaken' = overtaken /\ outside' = outside
  BY DEF TickCalls, TopIsDue, history
<1>2. fired = Null /\ cb \subseteq Live /\ top \in Timers /\ Null \notin Timers /\ Live \subseteq Timers
  <2>1. 0 \in 0..(cur_size - 1)
    BY <1>1 DEF HeapInv, HeapType
  <2> QED
    BY <1>1, <2>1, TimersAssumption DEF HeapInv, Held, TopCalled, Live
<1>3. Armed = cb
  BY <1>2 DEF Armed
<1>4. CASE top \in cb
  <2>9. PICK t \in Timers : t = top
    BY <1>2
  <2>1. Armed' = Armed \ {t}
    BY <1>1, <1>3, <1>4, <2>9 DEF Armed
  <2>2. ArmedTimes' = [ArmedTimes EXCEPT ![t] = 0]
    BY <1>1, <1>2, <2>1, DisarmedTimes
  <2>3. \A u \in Armed : ArmedTimes[u] = expire[u]
    BY <1>2, <1>3 DEF ArmedTimes
  <2>4. ASSUME NEW u \in Armed
        PROVE  ArmedTimes[t] <= ArmedTimes[u]
    <3>1. PICK i \in 0..(cur_size - 1) : u = array[i]
      BY <1>2, <1>3 DEF Live
    <3>2. expire[t] <= expire[u]
      BY <2>9, <3>1, FirstEarliest
    <3> QED
      BY <1>3, <1>4, <2>3, <2>9, <3>2
  <2>5. ArmedTimes[t] <= cur
    BY <1>1, <1>3, <1>4, <2>3, <2>9
  <2>6. Service!Due(t)
    BY <1>3, <1>4, <2>5, <2>9 DEF Service!Due, ArmedTimes
  <2>7. Service!Disarm(t)
    BY <1>1, <1>3, <1>4, <2>1, <2>2, <2>9 DEF Service!Disarm, ArmedTimes
  <2>8. Service!Fire(t)
    BY <1>1, <2>4, <2>6, <2>7 DEF Service!Fire, ArmedTimes
  <2> QED
    BY <2>8
<1>5. CASE top \notin cb
  <2>1. Armed' = Armed
    BY <1>1, <1>2, <1>5 DEF Armed
  <2>2. ArmedTimes' = ArmedTimes
    BY <1>1, <2>1 DEF ArmedTimes
  <2>3. (pc # "idle") = (pc' # "idle")
    BY <1>1
  <2> QED
    BY <1>1, <2>1, <2>2, <2>3 DEF Service!vars, ArmedTimes
<1> QED
  BY <1>4, <1>5

\* What is popped has been called, or deleted: nothing is lost.
LEMMA PopRefines == ASSUME HeapInv, TickPops, ~overtaken PROVE UNCHANGED Service!vars
<1> DEFINE top == array[0]
<1>1. /\ cb' = cb \ {top} /\ pc = "callback" /\ pc' = "loop" /\ fired' = Null
      /\ expire' = [expire EXCEPT ![top] = 0] /\ now' = now /\ cur' = cur
      /\ overtaken' = overtaken /\ outside' = outside
  BY DEF TickPops, history
<1>2. /\ fired = Null => top \notin cb
      /\ fired # Null => fired = top
      /\ cb \subseteq Timers /\ Null \notin Timers /\ expire \in [Timers -> Nat]
  BY <1>1, TimersAssumption DEF HeapInv, HeapType, Held, Live, TopCalled
<1>3. Armed' = Armed /\ top \notin Armed
  BY <1>1, <1>2 DEF Armed
<1>4. ArmedTimes' = ArmedTimes
  <2>1. ASSUME NEW u \in Timers
        PROVE  ArmedTimes'[u] = ArmedTimes[u]
    BY <1>1, <1>2, <1>3 DEF ArmedTimes
  <2>2. ArmedTimes' = [u \in Timers |-> ArmedTimes'[u]] /\ ArmedTimes = [u \in Timers |-> ArmedTimes[u]]
    BY DEF ArmedTimes
  <2> QED
    BY ONLY <2>1, <2>2
<1>5. (pc # "idle") = (pc' # "idle")
  BY <1>1
<1> QED
  BY <1>1, <1>3, <1>4, <1>5 DEF Service!vars, ArmedTimes

LEMMA SameArmed ==
  ASSUME cb' = cb, fired' = fired, expire' = expire
  PROVE  Armed' = Armed /\ ArmedTimes' = ArmedTimes
  BY DEF Armed, ArmedTimes

LEMMA ClockRefines ==
  ASSUME HeapInv, HeapSecond \/ TickBegins \/ TickEnds
  PROVE  Service!Kept
<1>1. Armed' = Armed /\ ArmedTimes' = ArmedTimes
  BY SameArmed DEF HeapSecond, TickBegins, TickEnds
<1>2. CASE HeapSecond
  BY <1>1, <1>2 DEF HeapSecond, Service!Kept, Service!Second, ArmedTimes
<1>3. CASE TickBegins
  <2>1. Service!Begin
    BY <1>1, <1>3 DEF TickBegins, Service!Begin, ArmedTimes
  <2> QED
    BY <2>1 DEF Service!Kept
<1>4. CASE TickEnds
  <2>1. pc = "loop" /\ pc' = "idle" /\ now' = now /\ ~TopIsDue
    BY <1>4 DEF TickEnds
  <2>2. ASSUME NEW t \in Timers
        PROVE  ~Service!Due(t)
    <3>1. ASSUME t \in Armed
          PROVE  ~(ArmedTimes[t] <= cur)
      <4>1. PICK i \in 0..(cur_size - 1) : t = array[i]
        BY <3>1 DEF Armed, HeapInv, Held, Live
      <4>2. cur_size > 0 /\ 0 \in 0..(cur_size - 1)
        BY <4>1 DEF HeapInv, HeapType
      <4>3. ~(expire[array[0]] <= cur)
        BY <2>1, <4>2 DEF TopIsDue
      <4>4. expire[array[0]] <= expire[t]
        BY <4>1, FirstEarliest
      <4>5. expire[array[0]] \in Nat /\ expire[t] \in Nat /\ cur \in Nat
        BY <4>2 DEF HeapInv, HeapType, Held
      <4>6. ArmedTimes[t] = expire[t]
        BY <3>1 DEF ArmedTimes
      <4> QED
        BY ONLY <4>3, <4>4, <4>5, <4>6
    <3> QED
      BY <3>1 DEF Service!Due, ArmedTimes
  <2>3. Service!End
    BY <1>1, <2>1, <2>2 DEF Service!End, ArmedTimes
  <2> QED
    BY <2>3 DEF Service!Kept
<1> QED
  BY <1>2, <1>3, <1>4

\* What a step does while the rules are kept.
LEMMA StepServes ==
  ASSUME HeapInv, HeapNext, ~overtaken', ~outside'
  PROVE  Service!Kept \/ UNCHANGED Service!vars
<1>1. CASE HeapSecond \/ TickBegins \/ TickEnds
  BY <1>1, ClockRefines
<1>2. CASE TickCalls
  BY <1>2, CallRefines DEF Service!Kept
<1>3. CASE TickPops
  <2>1. ~overtaken
    BY <1>3 DEF TickPops, history
  <2> QED
    BY <1>3, <2>1, PopRefines
<1>4. ASSUME NEW t \in Timers, Del(t)
      PROVE  Service!Kept \/ UNCHANGED Service!vars
  BY <1>4, DelRefines DEF Service!Kept
<1>5. ASSUME NEW t \in Timers, NEW d \in 0..MaxTime, Add(t, d)
      PROVE  Service!Kept \/ UNCHANGED Service!vars
  BY <1>5, AddRefines DEF Service!Kept
<1>6. CASE AddOutside
  BY <1>6 DEF AddOutside
<1> QED
  BY <1>1, <1>2, <1>3, <1>4, <1>5, <1>6 DEF HeapNext, HeapTick

\* Every tick calls what is due, once and the earliest first, and nothing else, for any number of
\* timers and times, also when a function it calls deletes timers and adds some that are due not
\* before the one it was called for.
THEOREM HeapServes == HeapSpec => ImplementsTimerService
<1>1. HeapInit => Service!Init
  BY HeapInitRefines
<1>2. HeapInv /\ [HeapNext]_heapVars => [Service!Next]_(Service!vars)
  <2> SUFFICES ASSUME HeapInv, [HeapNext]_heapVars
               PROVE  [Service!Next]_(Service!vars)
    OBVIOUS
  <2>1. CASE UNCHANGED heapVars
    <3>1. /\ cb' = cb /\ fired' = fired /\ expire' = expire /\ now' = now /\ pc' = pc /\ cur' = cur
          /\ history' = history
      BY <2>1 DEF heapVars
    <3> QED
      BY <3>1, SameArmed, SameServed
  <2>2. CASE overtaken' \/ outside'
    BY <2>2 DEF Service!Next
  <2>3. CASE HeapNext /\ ~overtaken' /\ ~outside'
    <3>1. Service!Kept \/ UNCHANGED Service!vars
      BY <2>3, StepServes
    <3>2. overtaken => overtaken'
      BY <2>3 DEF HeapNext, HeapTick, HeapSecond, TickBegins, TickCalls, TickPops, TickEnds,
                  AddOutside, Add, Del, history
    <3>3. outside = FALSE
      BY <2>3 DEF HeapNext
    <3> QED
      BY <2>3, <3>1, <3>2, <3>3 DEF Service!Next
  <2> QED
    BY <2>1, <2>2, <2>3
<1>3. HeapSpec => []HeapInv
  BY HeapInvHolds
<1>4. Service!Init /\ [][Service!Next]_(Service!vars) => Service!Spec
  BY Serving
<1> QED
  BY <1>1, <1>2, <1>3, <1>4, PTL DEF HeapSpec, ImplementsTimerService
=============================================================================
