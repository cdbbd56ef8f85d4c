----------------------------- MODULE InactiveConn -----------------------------
(***************************************************************************)
(* The servers of ch-11: one thread, an edge triggered epoll loop over the *)
(* listening socket, the pipe of the signal handler and the connections,   *)
(* and timers that close the connections that fall silent.                 *)
(* close_inactive_conn.cpp keeps them in a sort_timer_lst, for 3 *         *)
(* TIMESLOT seconds; close_inactive_conn2.cpp in a time_wheel, for 10 *    *)
(* TIMESLOT.  The variable container says which of the two programs runs;  *)
(* what they share is mapped to either.                                    *)
(*                                                                         *)
(* Times are relative: left[t] is t->expire - time(nullptr), 0 once it is  *)
(* past.  The list compares an expire field only with time(nullptr) and    *)
(* with a field just set to time(nullptr) + 3 * TIMESLOT, which nothing    *)
(* exceeds, so how long a timer is overdue makes no difference.  The wheel *)
(* counts in ticks, and left stays 0 there.                                *)
(***************************************************************************)
EXTENDS SortTimerList, Sequences

CONSTANTS Fds,         \* descriptors the kernel may give to a connection
          Bad,         \* -1, what accept returns when it fails
          TimeSlot,    \* TIMESLOT
          WheelLife,   \* the 10 of 10 * TIMESLOT
          WheelSize,   \* N of the time wheel
          Containers,  \* the programs that are checked: "list", "wheel"
          MaxBacklog,  \* bound: connections waiting to be accepted
          MaxInput,    \* bound: input waiting in a connection
          PipeSize     \* signals the socket pair of the handler holds

ASSUME InactiveAssumption ==
    /\ IsFiniteSet(Fds) /\ Bad \notin Fds /\ "listen" \notin Fds /\ "pipe" \notin Fds
    /\ TimeSlot \in Nat \ {0} /\ MaxBacklog \in Nat \ {0} /\ MaxInput \in Nat \ {0}
    /\ PipeSize \in Nat \ {0}
    /\ WheelLife \in Nat \ {0} /\ WheelSize \in Nat \ {0}
    /\ Containers \subseteq {"list", "wheel"}

VARIABLES
  \* the kernel
  open,      \* descriptors of connections
  input,     \* input[f]: what recv has not taken yet
  fin,       \* fin[f]: the client has closed its side
  ready,     \* the ready list of epoll: descriptors with an event not reported yet
  backlog,   \* how many connections wait to be accepted
  alarm,     \* seconds to SIGALRM, 0 when no alarm is set
  pending,   \* signals raised and not handled yet
  pipe,      \* what sig_handler has written and the loop has not read
  \* the server
  mpc,       \* wait, batch, stopped
  events,    \* what epoll_wait returned and is not handled yet
  timeout, stop_server,
  timer,     \* users[f].timer
  \* the timers
  container, live, lst, wheel, left, user

kernel == <<open, input, fin, ready, backlog, alarm, pending, pipe>>
timers == <<container, live, lst, wheel, left, user>>
vars == <<kernel, mpc, events, timeout, stop_server, timer, timers>>

\* SI of the time wheel is TIMESLOT: one second both.
W == INSTANCE TimeWheel WITH N <- WheelSize, SI <- TimeSlot

OnList == container = "list"
OnWheel == container = "wheel"
Timeout == 3 * TimeSlot
WheelTimeout == WheelLife * TimeSlot
Sources == Fds \union {"listen", "pipe"}

Init ==
    /\ open = {} /\ input = [f \in Fds |-> 0] /\ fin = [f \in Fds |-> FALSE]
    /\ ready = {} /\ backlog = 0 /\ alarm = TimeSlot /\ pending = {} /\ pipe = << >>
    /\ mpc = "wait" /\ events = {} /\ timeout = FALSE /\ stop_server = FALSE
    /\ timer = [f \in Fds |-> Null]
    /\ container \in Containers
    /\ live = {} /\ lst = EmptyList /\ wheel = W!EmptyWheel /\ left = [t \in Timers |-> 0]
    /\ user = [t \in Timers |-> Bad]

-----------------------------------------------------------------------------
(* The clients, the clock and the signals.                                 *)

server == <<mpc, events, timeout, stop_server, timer>>
Running == mpc # "stopped"

\* Events of listenfd that lead to a call of accept, and so to a new timer.
ListenEvents == Cardinality({x \in {"ready"} : "listen" \in ready}
                            \union {x \in {"events"} : "listen" \in events})

\* (Bound: only as many clients as there are addresses for timers.)
Connect == /\ Running /\ backlog < MaxBacklog
           /\ Cardinality(live) + ListenEvents < Cardinality(Timers)
           /\ backlog' = backlog + 1
           /\ ready' = ready \union {"listen"}
           /\ UNCHANGED <<open, input, fin, alarm, pending, pipe, server, timers>>

Send(f) == /\ f \in open /\ ~fin[f] /\ input[f] < MaxInput
           /\ input' = [input EXCEPT ![f] = @ + 1]
           /\ ready' = ready \union {f}
           /\ UNCHANGED <<open, fin, backlog, alarm, pending, pipe, server, timers>>

HangUp(f) == /\ f \in open /\ ~fin[f]
             /\ fin' = [fin EXCEPT ![f] = TRUE]
             /\ ready' = ready \union {f}
             /\ UNCHANGED <<open, input, backlog, alarm, pending, pipe, server, timers>>

Second == /\ Running
          /\ left' = [t \in Timers |-> IF left[t] = 0 THEN 0 ELSE left[t] - 1]
          /\ alarm' = IF alarm = 0 THEN 0 ELSE alarm - 1
          /\ pending' = pending \union IF alarm = 1 THEN {"ALRM"} ELSE {}
          /\ UNCHANGED <<open, input, fin, ready, backlog, pipe, server, container, live, lst,
                         wheel, user>>

Terminate == /\ Running
             /\ pending' = pending \union {"TERM"}
             /\ UNCHANGED <<open, input, fin, ready, backlog, alarm, pipe, server, timers>>

\* sig_handler: send on the non-blocking pipefd[1]; what does not fit is lost.
SigHandler(sig) == /\ Running /\ sig \in pending
                   /\ pending' = pending \ {sig}
                   /\ pipe' = IF Len(pipe) < PipeSize THEN Append(pipe, sig) ELSE pipe
                   /\ ready' = ready \union {"pipe"}
                   /\ UNCHANGED <<open, input, fin, backlog, alarm, server, timers>>

-----------------------------------------------------------------------------
(* The event loop.                                                         *)

\* Edge triggered: an event is reported once.  (An epoll_wait that a signal interrupts
\* changes nothing: timeout is false there.)
EpollWait == /\ mpc = "wait" /\ ready # {}
             /\ events' = ready
             /\ ready' = {}
             /\ mpc' = "batch"
             /\ UNCHANGED <<open, input, fin, backlog, alarm, pending, pipe, timeout,
                            stop_server, timer, timers>>

Handling(s) == mpc = "batch" /\ s \in events /\ events' = events \ {s}

\* new util_timer for users[f], due in 3 * TIMESLOT seconds, and lst.add_timer.
NewListTimer(f, t) == /\ OnList /\ t \notin live
                      /\ live' = live \union {t}
                      /\ left' = [left EXCEPT ![t] = Timeout]
                      /\ user' = [user EXCEPT ![t] = f]
                      /\ lst' = AddTimer(Fresh(lst, t), left', t)
                      /\ UNCHANGED <<container, wheel>>

\* tw.add_timer(10 * TIMESLOT) for users[f].
NewWheelTimer(f, t) == /\ OnWheel /\ t \notin live
                       /\ live' = live \union {t}
                       /\ UNCHANGED left
                       /\ user' = [user EXCEPT ![t] = f]
                       /\ wheel' = W!AddTimer(wheel, WheelTimeout, t)
                       /\ UNCHANGED <<container, lst>>

NewTimer(f, t) == NewListTimer(f, t) \/ NewWheelTimer(f, t)

\* One accept per event.
Accept(f) == /\ Handling("listen")
             /\ backlog > 0 /\ f \in Fds \ open
             /\ backlog' = backlog - 1
             /\ open' = open \union {f}
             /\ \E t \in Timers : NewTimer(f, t) /\ timer' = [timer EXCEPT ![f] = t]
             /\ UNCHANGED <<input, fin, ready, alarm, pending, pipe, mpc, timeout,
                            stop_server>>

\* No descriptor is left: accept returns -1, which is not tested.  What follows writes
\* users[-1], outside the array: the server dies, or goes on with a timer for -1.
AcceptFails == /\ Handling("listen")
               /\ open = Fds
               /\ \E t \in Timers : NewTimer(Bad, t)
               /\ UNCHANGED <<kernel, mpc, timeout, stop_server, timer>>

\* The process is gone, and the kernel closes what it held.
Gone == /\ mpc' = "stopped"
        /\ open' = {} /\ input' = [f \in Fds |-> 0] /\ fin' = [f \in Fds |-> FALSE]
        /\ ready' = {} /\ backlog' = 0 /\ alarm' = 0 /\ pending' = {} /\ pipe' = << >>
        /\ events' = {} /\ timeout' = FALSE /\ stop_server' = FALSE
        /\ timer' = [f \in Fds |-> Null]
        /\ live' = {} /\ lst' = EmptyList /\ wheel' = W!EmptyWheel
        /\ left' = [t \in Timers |-> 0] /\ user' = [t \in Timers |-> Bad]
        /\ UNCHANGED container

AcceptCrashes == mpc = "batch" /\ "listen" \in events /\ open = Fds /\ Gone

\* recv on pipefd[0] takes every signal; a timeout is only noted.
HandleSignals ==
    /\ Handling("pipe")
    /\ timeout' = (timeout \/ \E i \in DOMAIN pipe : pipe[i] = "ALRM")
    /\ stop_server' = (stop_server \/ \E i \in DOMAIN pipe : pipe[i] = "TERM")
    /\ pipe' = << >>
    /\ UNCHANGED <<open, input, fin, ready, backlog, alarm, pending, mpc, timer, timers>>

\* recv takes some of the input (at most BUFFER_SIZE - 1 bytes, once).
Recv(f) == /\ Handling(f)
           /\ input[f] > 0
           /\ \E n \in 1..input[f] : input' = [input EXCEPT ![f] = @ - n]
           /\ UNCHANGED <<open, fin, ready, backlog, alarm, pending, pipe, mpc, timeout,
                          stop_server>>

\* The timer of the connection is set anew and moved.
RecvData(f) == /\ OnList /\ Recv(f)
               /\ IF timer[f] = Null THEN UNCHANGED <<left, lst>>
                  ELSE /\ left' = [left EXCEPT ![timer[f]] = Timeout]
                       /\ lst' = AdjustTimer(lst, left', timer[f])
               /\ UNCHANGED <<timer, container, live, wheel, user>>

\* Slip: users[f].timer still points to the timer that was deleted.
WheelRecvDataKeepsPointer(f) ==
    /\ OnWheel /\ Recv(f) /\ timer[f] # Null
    /\ LET old == timer[f]
       IN \E t \in (Timers \ live) \union {old} :
             /\ UNCHANGED timer
             /\ live' = (live \ {old}) \union {t}
             /\ UNCHANGED left
             /\ user' = [user EXCEPT ![old] = Bad, ![t] = f]
             /\ wheel' = W!AddTimer(W!DelTimer(wheel, old), WheelTimeout, t)
    /\ UNCHANGED <<container, lst>>

\* On the wheel the timer is deleted and a new one takes its place, at the same address
\* or at another.
WheelRecvData(f) ==
    /\ OnWheel /\ Recv(f) /\ timer[f] # Null
    /\ LET old == timer[f]
       IN \E t \in (Timers \ live) \union {old} :
             /\ timer' = [timer EXCEPT ![f] = t]
             /\ live' = (live \ {old}) \union {t}
             /\ UNCHANGED left
             /\ user' = [user EXCEPT ![old] = Bad, ![t] = f]
             /\ wheel' = W!AddTimer(W!DelTimer(wheel, old), WheelTimeout, t)
    /\ UNCHANGED <<container, lst>>

\* EAGAIN: an earlier recv took the input of this event too.
RecvAgain(f) == /\ Handling(f)
                /\ input[f] = 0 /\ ~fin[f]
                /\ UNCHANGED <<kernel, mpc, timeout, stop_server, timer, timers>>

\* cb_func for the connections in S: EPOLL_CTL_DEL and close.
CbFunc(S) == /\ open' = open \ S
             /\ input' = [f \in Fds |-> IF f \in S THEN 0 ELSE input[f]]
             /\ fin' = [f \in Fds |-> fin[f] /\ f \notin S]
             /\ ready' = ready \ S

\* The end of the stream, or an error: cb_func, then delete_timer.  users[f].timer keeps
\* the address of the freed timer.
RecvClosed(f) ==
    /\ Handling(f)
    /\ input[f] = 0 /\ fin[f]
    /\ CbFunc({f})
    /\ IF timer[f] = Null THEN UNCHANGED timers
       ELSE /\ live' = live \ {timer[f]}
            /\ IF OnList THEN lst' = DeleteTimer(lst, timer[f]) /\ UNCHANGED wheel
               ELSE wheel' = W!DelTimer(wheel, timer[f]) /\ UNCHANGED lst
            /\ left' = [left EXCEPT ![timer[f]] = 0]
            /\ user' = [user EXCEPT ![timer[f]] = Bad]
            /\ UNCHANGED container
    /\ UNCHANGED <<backlog, alarm, pending, pipe, mpc, timeout, stop_server, timer>>

\* cb_func and delete for the timers in gone.
Expire(gone) == /\ live' = live \ gone
                /\ user' = [t \in Timers |-> IF t \in gone THEN Bad ELSE user[t]]
                /\ CbFunc({user[t] : t \in gone} \ {Bad})
                /\ left' = [t \in Timers |-> IF t \in gone THEN 0 ELSE left[t]]
                /\ UNCHANGED container

\* tick of the list: every timer that is due.
TickList == /\ OnList
            /\ Expire(Expired(lst, left, 0))
            /\ lst' = AfterTick(lst, left, 0)
            /\ UNCHANGED wheel

\* tick of the wheel: every timer whose slot the hand is on and whose turns are made.
TickWheel == /\ OnWheel
             /\ Expire(W!Fired(wheel))
             /\ wheel' = W!AfterTick(wheel)
             /\ UNCHANGED lst

Tick == TickList \/ TickWheel

\* Slip: timer_handler does not set the next alarm.
TimerHandlerNoAlarm == /\ mpc = "batch" /\ events = {} /\ timeout /\ ~stop_server
                       /\ Tick
                       /\ timeout' = FALSE /\ mpc' = "wait"
                       /\ UNCHANGED <<backlog, alarm, pending, pipe, events, stop_server,
                                      timer>>

\* Slip: timer_handler sets the alarm to the lifetime of a connection.
TimerHandlerLate == /\ mpc = "batch" /\ events = {} /\ timeout /\ ~stop_server
                    /\ Tick
                    /\ alarm' = Timeout
                    /\ timeout' = FALSE /\ mpc' = "wait"
                    /\ UNCHANGED <<backlog, pending, pipe, events, stop_server, timer>>

\* timer_handler, after the batch: tick, and the next alarm.
TimerHandler == /\ mpc = "batch" /\ events = {} /\ timeout /\ ~stop_server
                /\ Tick
                /\ alarm' = TimeSlot
                /\ timeout' = FALSE /\ mpc' = "wait"
                /\ UNCHANGED <<backlog, pending, pipe, events, stop_server, timer>>

NextRound == /\ mpc = "batch" /\ events = {} /\ ~timeout /\ ~stop_server
             /\ mpc' = "wait"
             /\ UNCHANGED <<kernel, events, timeout, stop_server, timer, timers>>

\* SIGTERM: the loop is left (after a last tick when one is due) and the process ends.
Stopped == mpc = "batch" /\ events = {} /\ stop_server /\ Gone

Loop == \/ EpollWait \/ AcceptFails \/ AcceptCrashes \/ HandleSignals
        \/ TimerHandler \/ NextRound \/ Stopped
        \/ \E f \in Fds : \/ Accept(f) \/ RecvData(f) \/ WheelRecvData(f)
                          \/ RecvAgain(f) \/ RecvClosed(f)

Clients == Connect \/ \E f \in Fds : Send(f) \/ HangUp(f)

Next == \/ Clients \/ Loop \/ Second \/ Terminate
        \/ \E sig \in {"ALRM", "TERM"} : SigHandler(sig)

Spec == Init /\ [][Next]_vars

\* The server is scheduled, time passes, and a signal that is raised is delivered.
FairSpec == /\ Spec /\ WF_vars(Loop) /\ WF_vars(Second)
            /\ \A sig \in {"ALRM", "TERM"} : WF_vars(SigHandler(sig))

-----------------------------------------------------------------------------
(* Correctness.                                                            *)

TypeOK ==
    /\ open \subseteq Fds /\ input \in [Fds -> 0..MaxInput] /\ fin \in [Fds -> BOOLEAN]
    /\ ready \subseteq Sources /\ events \subseteq Sources
    /\ backlog \in 0..MaxBacklog /\ alarm \in 0..TimeSlot
    /\ pending \subseteq {"ALRM", "TERM"} /\ pipe \in Seq({"ALRM", "TERM"})
    /\ mpc \in {"wait", "batch", "stopped"}
    /\ timeout \in BOOLEAN /\ stop_server \in BOOLEAN
    /\ timer \in [Fds -> Pointer] /\ live \subseteq Timers /\ container \in Containers
    /\ lst \in ListType /\ wheel \in W!WheelType
    /\ left \in [Timers -> 0..Timeout] /\ user \in [Timers -> Fds \union {Bad}]

\* Whatever the order of adds, adjustments, deletions and ticks, the timers in use are
\* the nodes of an ascending list that is linked both ways between its head and its tail,
\* or of the lists of the wheel's slots.
ContainerWellFormed == IF OnList THEN WellFormed(lst, left, live)
                       ELSE W!WellFormed(wheel, live)

\* An open connection has one timer and users[f].timer points to it; a timer belongs to
\* an open connection (or to -1).  With the last part, an event never meets a closed
\* descriptor, this is why the pointer to a freed timer that stays in users[f].timer
\* after delete_timer and tick is never used.
TimerPerConnection ==
    /\ \A f \in open : timer[f] \in live /\ user[timer[f]] = f
    /\ \A t \in live : user[t] # Bad => user[t] \in open /\ timer[user[t]] = t
    /\ events \intersect Fds \subseteq open

\* SIGTERM has reached the pipe or the loop: the server is about to stop.
Ending == stop_server \/ \E i \in DOMAIN pipe : pipe[i] = "TERM"

\* The alarm that drives the ticks is never lost and never doubled: until the server is
\* told to end, exactly one of these holds: it is set, SIGALRM is pending, it is in the
\* pipe and epoll will report that, or timeout is noted.
AlarmAlive ==
    Running /\ ~Ending =>
        Cardinality({x \in {"set"} : alarm > 0}
                    \union {x \in {"raised"} : "ALRM" \in pending}
                    \union {x \in {"piped"} : /\ \E i \in DOMAIN pipe : pipe[i] = "ALRM"
                                              /\ "pipe" \in ready \union events}
                    \union {x \in {"noted"} : timeout}) = 1

\* The server keeps the promise: each tick closes exactly the connections whose time is
\* up although the list stops at the first timer that is not due and the wheel looks at
\* one slot only.  The wheel counts in ticks: a connection survives WheelLife of them.
RestOf(f) == IF OnList THEN left[timer[f]] ELSE W!Rest(wheel, timer[f])
Promise == INSTANCE IdleConnections WITH
               Connections <- Fds, due <- timeout, up <- Running,
               Timeout <- [u \in {"second", "sweep"} |->
                              IF u = "second" THEN Timeout ELSE WheelLife],
               unit <- IF OnList THEN "second" ELSE "sweep",
               rest <- [f \in Fds |-> IF f \in open THEN RestOf(f) ELSE 0]
ImplementsIdleConnections == Promise!Spec

\* No connection stays open for good when its client neither writes nor hangs up any more,
\* though what an earlier event announced may be left unread.
IdleIsClosed == \A f \in Fds : []<>(f \notin open \/ f \in ready)
=============================================================================
