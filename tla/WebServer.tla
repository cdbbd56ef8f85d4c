------------------------------ MODULE WebServer ------------------------------
(***************************************************************************)
(* The web server of ch-15: the event loop of web_server.cpp, the life of  *)
(* an http_conn object (init, close_conn, read, process, write of          *)
(* http_conn.cpp) and the worker threads of the pool, over one epoll       *)
(* instance whose connections are registered EPOLLONESHOT.                 *)
(*                                                                         *)
(* The pool is the bounded queue that ThreadPool is proved to implement    *)
(* (TaskQueue); its entries are the indices of the users array.  A client  *)
(* sends RequestSize segments of input.  What is in them is left open: at  *)
(* any point process_read may ask for more, or answer.                     *)
(***************************************************************************)
EXTENDS Naturals, Integers, Sequences, FiniteSets

CONSTANTS Clients,      \* each connects at most once
          Fds,          \* descriptors the kernel may give to a connection: numbers
          Workers,
          MaxUsers,     \* MAX_FD of web_server.cpp
          MaxRequests,  \* m_max_requests of the pool
          RequestSize,  \* segments a client sends
          Free          \* no client, no descriptor, no worker

ASSUME ServerAssumption ==
    /\ Fds \subseteq Nat /\ IsFiniteSet(Fds) /\ IsFiniteSet(Clients)
    /\ MaxUsers \in Nat /\ MaxRequests \in Nat \ {0} /\ RequestSize \in Nat \ {0}
    /\ Free \notin Clients \union Fds

VARIABLES
  \* the kernel
  phase,     \* phase[c]: away, backlog, open, closed
  unsent,    \* unsent[c]: segments client c has still to send
  inq,       \* inq[c]: segments in the receive queue of c's socket
  hup,       \* hup[c]: c has closed its side
  owner,     \* owner[fd]: the client behind descriptor fd, or Free
  interest,  \* interest[fd]: none (not registered), off (fired), in, out
  backlog,   \* clients waiting to be accepted
  edge,      \* listenfd is on the ready list of epoll (it is edge triggered)
  \* the objects users[fd]
  sock,      \* m_sockfd: TRUE for fd, FALSE for -1
  got,       \* segments in m_read_buf
  wr,        \* m_write_idx > 0: a response is prepared
  userCount, \* m_user_count
  \* the main thread
  mpc, mfd, mreg,
  events,    \* what epoll_wait returned and is not handled yet
  \* the pool
  queue, wpc, wfd, wreg,
  \* history
  processed, \* clients that were answered, or all of whose input process_read has seen
  dropped,   \* clients whose request append refused
  raced      \* a descriptor was reused while a worker was still inside process()

kernel == <<phase, unsent, inq, hup, owner, interest, backlog, edge>>
object == <<sock, got, wr>>
main == <<mpc, mfd, mreg, events>>
workers == <<wpc, wfd, wreg>>
history == <<processed, dropped, raced>>
vars == <<kernel, object, userCount, main, queue, workers, history>>

Init ==
    /\ phase = [c \in Clients |-> "away"] /\ unsent = [c \in Clients |-> RequestSize]
    /\ inq = [c \in Clients |-> 0] /\ hup = [c \in Clients |-> FALSE]
    /\ owner = [f \in Fds |-> Free] /\ interest = [f \in Fds |-> "none"]
    /\ backlog = << >> /\ edge = FALSE
    /\ sock = [f \in Fds |-> FALSE] /\ got = [f \in Fds |-> 0]
    /\ wr = [f \in Fds |-> FALSE] /\ userCount = 0
    /\ mpc = "dispatch" /\ mfd = Free /\ mreg = 0 /\ events = {}
    /\ queue = << >> /\ wpc = [w \in Workers |-> "idle"]
    /\ wfd = [w \in Workers |-> Free] /\ wreg = [w \in Workers |-> 0]
    /\ processed = {} /\ dropped = {} /\ raced = FALSE

-----------------------------------------------------------------------------
(* The clients.                                                            *)

Connect(c) == /\ phase[c] = "away"
              /\ phase' = [phase EXCEPT ![c] = "backlog"]
              /\ backlog' = Append(backlog, c)
              /\ edge' = TRUE
              /\ UNCHANGED <<unsent, inq, hup, owner, interest, object, userCount, main,
                             queue, workers, history>>

\* What arrives while c is still in the backlog is as if it arrived just after accept:
\* nobody looks at the socket in between.
Send(c) == /\ phase[c] = "open"
           /\ ~hup[c] /\ unsent[c] > 0
           /\ unsent' = [unsent EXCEPT ![c] = @ - 1]
           /\ inq' = [inq EXCEPT ![c] = @ + 1]
           /\ UNCHANGED <<phase, hup, owner, interest, backlog, edge, object, userCount,
                          main, queue, workers, history>>

HangUp(c) == /\ phase[c] = "open"
             /\ ~hup[c]
             /\ hup' = [hup EXCEPT ![c] = TRUE]
             /\ UNCHANGED <<phase, unsent, inq, owner, interest, backlog, edge, object,
                            userCount, main, queue, workers, history>>

-----------------------------------------------------------------------------
(* add_fd, mod_fd and remove_fd on the descriptor in users[f].m_sockfd.    *)

\* EPOLL_CTL_MOD fails on -1 and on a descriptor that is not registered.
Armed(f, ev) == IF sock[f] /\ interest[f] # "none"
                THEN [interest EXCEPT ![f] = ev] ELSE interest

\* EPOLL_CTL_DEL, then close: the kernel drops the socket with what it still holds, and
\* the number is free for the next accept.
RemoveFd(f) == /\ interest' = [interest EXCEPT ![f] = "none"]
               /\ owner' = [owner EXCEPT ![f] = Free]
               /\ LET Of(v, x) == [c \in Clients |-> IF owner[f] = c THEN x ELSE v[c]]
                  IN /\ phase' = Of(phase, "closed")
                     /\ unsent' = Of(unsent, 0)
                     /\ inq' = Of(inq, 0)
                     /\ hup' = Of(hup, FALSE)
               /\ UNCHANGED <<backlog, edge>>

-----------------------------------------------------------------------------
(* The main thread: epoll_wait.                                            *)

\* The branch of the loop an armed descriptor's event leads to, or Free for no event.
EventOf(f) ==
    LET c == owner[f] IN
    IF c = Free \/ interest[f] \in {"none", "off"} THEN Free
    ELSE IF hup[c] THEN "hup"
    ELSE IF interest[f] = "in" /\ inq[c] > 0 THEN "in"
    ELSE IF interest[f] = "out" THEN "out" ELSE Free

Ready == {f \in Fds : EventOf(f) # Free}

\* Slip: connections registered without EPOLLONESHOT.
EpollWaitNoOneshot == /\ mpc = "dispatch" /\ events = {}
                      /\ Ready # {} \/ edge
                      /\ events' = {<<f, EventOf(f)>> : f \in Ready}
                                   \union (IF edge THEN {<<Free, "listen">>} ELSE {})
                      /\ edge' = FALSE
                      /\ UNCHANGED <<phase, unsent, inq, hup, owner, interest, backlog,
                                     object, userCount, mpc, mfd, mreg, queue, workers,
                                     history>>

\* EPOLLONESHOT disarms what is reported; the edge of listenfd is consumed.
EpollWait == /\ mpc = "dispatch" /\ events = {}
             /\ Ready # {} \/ edge
             /\ events' = {<<f, EventOf(f)>> : f \in Ready}
                          \union (IF edge THEN {<<Free, "listen">>} ELSE {})
             /\ interest' = [f \in Fds |-> IF f \in Ready THEN "off" ELSE interest[f]]
             /\ edge' = FALSE
             /\ UNCHANGED <<phase, unsent, inq, hup, owner, backlog, object, userCount,
                            mpc, mfd, mreg, queue, workers, history>>

\* One event is taken out of the batch; the order within a batch is the kernel's.
Handling(f, ev) == /\ mpc = "dispatch"
                   /\ <<f, ev>> \in events
                   /\ events' = events \ {<<f, ev>>}

-----------------------------------------------------------------------------
(* The main thread: a new connection (one accept per event of listenfd).   *)

FreeFds == {f \in Fds : owner[f] = Free}
Lowest(S) == CHOOSE f \in S : \A g \in S : f <= g

\* accept fails (too many open files, out of memory): print and continue.
AcceptFails == /\ Handling(Free, "listen")
               /\ UNCHANGED <<kernel, object, userCount, mpc, mfd, mreg, queue, workers,
                              history>>

\* show_error: the server is full, the new descriptor is closed again.
AcceptBusy == /\ Handling(Free, "listen")
              /\ FreeFds # {} /\ backlog # << >>
              /\ userCount >= MaxUsers
              /\ backlog' = Tail(backlog)
              /\ phase' = [phase EXCEPT ![Head(backlog)] = "closed"]
              /\ UNCHANGED <<unsent, inq, hup, owner, interest, edge, object, userCount,
                             mpc, mfd, mreg, queue, workers, history>>

\* A worker inside process() of users[f].
InProcess(f) == \E w \in Workers : wpc[w] # "idle" /\ wfd[w] = f

Accept == /\ Handling(Free, "listen")
          /\ FreeFds # {} /\ backlog # << >>
          /\ userCount < MaxUsers
          /\ LET f == Lowest(FreeFds)
                 c == Head(backlog)
             IN /\ owner' = [owner EXCEPT ![f] = c]
                /\ phase' = [phase EXCEPT ![c] = "open"]
                /\ mfd' = f
                /\ raced' = (raced \/ InProcess(f))
          /\ backlog' = Tail(backlog)
          /\ mpc' = "init_sock"
          /\ UNCHANGED <<unsent, inq, hup, interest, edge, object, userCount, mreg,
                         queue, workers, processed, dropped>>

\* http_conn::init(sockfd, addr): m_sockfd, add_fd, m_user_count++, init().
InitSock == /\ mpc = "init_sock"
            /\ sock' = [sock EXCEPT ![mfd] = TRUE]
            /\ mpc' = "init_add"
            /\ UNCHANGED <<kernel, got, wr, userCount, mfd, mreg, events, queue, workers,
                           history>>

InitAdd == /\ mpc = "init_add"
           /\ interest' = IF sock[mfd] THEN [interest EXCEPT ![mfd] = "in"] ELSE interest
           /\ mpc' = "init_load"
           /\ UNCHANGED <<phase, unsent, inq, hup, owner, backlog, edge, object, userCount,
                          mfd, mreg, events, queue, workers, history>>

\* m_user_count++ is a load and a store.
InitLoad == /\ mpc = "init_load"
            /\ mreg' = userCount
            /\ mpc' = "init_store"
            /\ UNCHANGED <<kernel, object, userCount, mfd, events, queue, workers, history>>

InitStore == /\ mpc = "init_store"
             /\ userCount' = mreg + 1 /\ mreg' = 0
             /\ mpc' = "init_reset"
             /\ UNCHANGED <<kernel, object, mfd, events, queue, workers, history>>

\* Slip: init() leaves m_read_idx of the connection before.
InitNoReset == /\ mpc = "init_reset"
               /\ wr' = [wr EXCEPT ![mfd] = FALSE]
               /\ mpc' = "dispatch" /\ mfd' = Free
               /\ UNCHANGED <<kernel, sock, got, userCount, mreg, events, queue, workers,
                              history>>

InitReset == /\ mpc = "init_reset"
             /\ got' = [got EXCEPT ![mfd] = 0]
             /\ wr' = [wr EXCEPT ![mfd] = FALSE]
             /\ mpc' = "dispatch" /\ mfd' = Free
             /\ UNCHANGED <<kernel, sock, userCount, mreg, events, queue, workers, history>>

-----------------------------------------------------------------------------
(* The main thread: EPOLLRDHUP and EPOLLIN.                                *)

HandleHup(f) == /\ Handling(f, "hup")
                /\ mfd' = f /\ mpc' = "close"
                /\ UNCHANGED <<kernel, object, userCount, mreg, queue, workers, history>>

Readable(f) == sock[f] /\ (IF owner[f] = Free THEN FALSE ELSE ~hup[owner[f]])

\* recv fails (m_sockfd is -1, or closed) or meets the end of the stream: close_conn.
ReadFails(f) == /\ Handling(f, "in")
                /\ ~Readable(f)
                /\ mfd' = f /\ mpc' = "close"
                /\ UNCHANGED <<kernel, object, userCount, mreg, queue, workers, history>>

\* read() takes all the input there is.
Reads(f) == /\ Handling(f, "in")
            /\ Readable(f)
            /\ got' = [got EXCEPT ![f] = @ + inq[owner[f]]]
            /\ inq' = [inq EXCEPT ![owner[f]] = 0]
            /\ UNCHANGED <<phase, unsent, hup, owner, interest, backlog, edge, sock, wr,
                           userCount, mpc, mfd, mreg, workers, processed, raced>>

\* pool->append(users + sockfd): its result is not looked at.
ReadAppend(f) == /\ Reads(f)
                 /\ Len(queue) < MaxRequests
                 /\ queue' = Append(queue, f)
                 /\ UNCHANGED dropped

ReadAppendFails(f) == /\ Reads(f)
                      /\ Len(queue) >= MaxRequests
                      /\ dropped' = dropped \union {owner[f]}
                      /\ UNCHANGED queue

-----------------------------------------------------------------------------
(* The main thread: EPOLLOUT, http_conn::write.                            *)

\* Nothing to send: wait for input.
WriteNothing(f) == /\ Handling(f, "out")
                   /\ ~wr[f]
                   /\ interest' = Armed(f, "in")
                   /\ UNCHANGED <<phase, unsent, inq, hup, owner, backlog, edge, object,
                                  userCount, mpc, mfd, mreg, queue, workers, history>>

\* writev meets EAGAIN.
WriteAgain(f) == /\ Handling(f, "out")
                 /\ wr[f] /\ sock[f]
                 /\ interest' = Armed(f, "out")
                 /\ UNCHANGED <<phase, unsent, inq, hup, owner, backlog, edge, object,
                                userCount, mpc, mfd, mreg, queue, workers, history>>

\* The response is sent and the connection kept: init(), wait for input.
WriteLinger(f) == /\ Handling(f, "out")
                  /\ wr[f] /\ sock[f]
                  /\ got' = [got EXCEPT ![f] = 0]
                  /\ wr' = [wr EXCEPT ![f] = FALSE]
                  /\ interest' = Armed(f, "in")
                  /\ UNCHANGED <<phase, unsent, inq, hup, owner, backlog, edge, sock,
                                 userCount, mpc, mfd, mreg, queue, workers, history>>

\* The response is sent and the connection not kept (mod_fd, then close_conn), or
\* writev fails (close_conn).
WriteClose(f) == /\ Handling(f, "out")
                 /\ wr[f]
                 /\ interest' = Armed(f, "in") \/ UNCHANGED interest
                 /\ mfd' = f /\ mpc' = "close"
                 /\ UNCHANGED <<phase, unsent, inq, hup, owner, backlog, edge, object,
                                userCount, mreg, queue, workers, history>>

-----------------------------------------------------------------------------
(* close_conn, called by the main thread.                                  *)

CloseRemove == /\ mpc = "close" /\ sock[mfd]
               /\ RemoveFd(mfd)
               /\ mpc' = "close_sock"
               /\ UNCHANGED <<object, userCount, mfd, mreg, events, queue, workers, history>>

CloseNothing == /\ mpc = "close" /\ ~sock[mfd]
                /\ mpc' = "dispatch" /\ mfd' = Free
                /\ UNCHANGED <<kernel, object, userCount, mreg, events, queue, workers,
                               history>>

\* Slip: close_conn leaves m_sockfd.
CloseKeepsSock == /\ mpc = "close_sock"
                  /\ mpc' = "close_load"
                  /\ UNCHANGED <<kernel, object, userCount, mfd, mreg, events, queue,
                                 workers, history>>

CloseSock == /\ mpc = "close_sock"
             /\ sock' = [sock EXCEPT ![mfd] = FALSE]
             /\ mpc' = "close_load"
             /\ UNCHANGED <<kernel, got, wr, userCount, mfd, mreg, events, queue, workers,
                            history>>

CloseLoad == /\ mpc = "close_load"
             /\ mreg' = userCount
             /\ mpc' = "close_store"
             /\ UNCHANGED <<kernel, object, userCount, mfd, events, queue, workers, history>>

CloseStore == /\ mpc = "close_store"
              /\ userCount' = mreg - 1 /\ mreg' = 0
              /\ mpc' = "dispatch" /\ mfd' = Free
              /\ UNCHANGED <<kernel, object, events, queue, workers, history>>

Main == \/ EpollWait \/ AcceptFails \/ AcceptBusy \/ Accept
        \/ InitSock \/ InitAdd \/ InitLoad \/ InitStore \/ InitReset
        \/ \E f \in Fds : \/ HandleHup(f) \/ ReadFails(f) \/ ReadAppend(f)
                          \/ ReadAppendFails(f) \/ WriteNothing(f) \/ WriteAgain(f)
                          \/ WriteLinger(f) \/ WriteClose(f)
        \/ CloseRemove \/ CloseNothing \/ CloseSock \/ CloseLoad \/ CloseStore

-----------------------------------------------------------------------------
(* A worker: threadpool::run takes an object and calls its process().      *)

Take(w) == /\ wpc[w] = "idle" /\ queue # << >>
           /\ wfd' = [wfd EXCEPT ![w] = Head(queue)]
           /\ queue' = Tail(queue)
           /\ wpc' = [wpc EXCEPT ![w] = "process"]
           /\ UNCHANGED <<kernel, object, userCount, main, wreg, history>>

\* process_read of users[f] looks at what has been read: all that its client sends?
SeesAll(f) == IF got[f] = RequestSize THEN {owner[f]} \ {Free} ELSE {}

\* Slip: process returns on NO_REQUEST without mod_fd.
ProcessMoreNoRearm(w) == /\ wpc[w] = "process"
                         /\ processed' = processed \union SeesAll(wfd[w])
                         /\ wpc' = [wpc EXCEPT ![w] = "idle"]
                         /\ wfd' = [wfd EXCEPT ![w] = Free]
                         /\ UNCHANGED <<kernel, object, userCount, main, queue, wreg, dropped,
                                        raced>>

\* process_read returns NO_REQUEST, whether or not more will come: wait for input.
ProcessMore(w) == /\ wpc[w] = "process"
                  /\ interest' = Armed(wfd[w], "in")
                  /\ processed' = processed \union SeesAll(wfd[w])
                  /\ wpc' = [wpc EXCEPT ![w] = "idle"]
                  /\ wfd' = [wfd EXCEPT ![w] = Free]
                  /\ UNCHANGED <<phase, unsent, inq, hup, owner, backlog, edge, object,
                                 userCount, main, queue, wreg, dropped, raced>>

\* process_read has a result, perhaps before all of the input is in (a bad request line);
\* process_write prepares the response.
ProcessReply(w) == /\ wpc[w] = "process"
                   /\ wr' = [wr EXCEPT ![wfd[w]] = TRUE]
                   /\ processed' = processed \union ({owner[wfd[w]]} \ {Free})
                   /\ wpc' = [wpc EXCEPT ![w] = "rearm"]
                   /\ UNCHANGED <<kernel, sock, got, userCount, main, queue, wfd, wreg,
                                  dropped, raced>>

\* process_write returns false (an empty file, a response that does not fit).
ProcessFails(w) == /\ wpc[w] = "process"
                   /\ wpc' = [wpc EXCEPT ![w] = "close"]
                   /\ UNCHANGED <<kernel, object, userCount, main, queue, wfd, wreg, history>>

\* close_conn, called by a worker.
WorkerRemove(w) == /\ wpc[w] = "close" /\ sock[wfd[w]]
                   /\ RemoveFd(wfd[w])
                   /\ wpc' = [wpc EXCEPT ![w] = "close_sock"]
                   /\ UNCHANGED <<object, userCount, main, queue, wfd, wreg, history>>

WorkerNothing(w) == /\ wpc[w] = "close" /\ ~sock[wfd[w]]
                    /\ wpc' = [wpc EXCEPT ![w] = "rearm"]
                    /\ UNCHANGED <<kernel, object, userCount, main, queue, wfd, wreg, history>>

WorkerSock(w) == /\ wpc[w] = "close_sock"
                 /\ sock' = [sock EXCEPT ![wfd[w]] = FALSE]
                 /\ wpc' = [wpc EXCEPT ![w] = "close_load"]
                 /\ UNCHANGED <<kernel, got, wr, userCount, main, queue, wfd, wreg, history>>

WorkerLoad(w) == /\ wpc[w] = "close_load"
                 /\ wreg' = [wreg EXCEPT ![w] = userCount]
                 /\ wpc' = [wpc EXCEPT ![w] = "close_store"]
                 /\ UNCHANGED <<kernel, object, userCount, main, queue, wfd, history>>

WorkerStore(w) == /\ wpc[w] = "close_store"
                  /\ userCount' = wreg[w] - 1
                  /\ wreg' = [wreg EXCEPT ![w] = 0]
                  /\ wpc' = [wpc EXCEPT ![w] = "rearm"]
                  /\ UNCHANGED <<kernel, object, main, queue, wfd, history>>

\* The last statement of process: mod_fd(m_sockfd, EPOLLOUT), after close_conn too.
WorkerRearm(w) == /\ wpc[w] = "rearm"
                  /\ interest' = Armed(wfd[w], "out")
                  /\ wpc' = [wpc EXCEPT ![w] = "idle"]
                  /\ wfd' = [wfd EXCEPT ![w] = Free]
                  /\ UNCHANGED <<phase, unsent, inq, hup, owner, backlog, edge, object,
                                 userCount, main, queue, wreg, history>>

Worker(w) == \/ Take(w) \/ ProcessMore(w) \/ ProcessReply(w) \/ ProcessFails(w)
             \/ WorkerRemove(w) \/ WorkerNothing(w) \/ WorkerSock(w) \/ WorkerLoad(w)
             \/ WorkerStore(w) \/ WorkerRearm(w)

-----------------------------------------------------------------------------
Next == \/ \E c \in Clients : Connect(c) \/ Send(c) \/ HangUp(c)
        \/ Main
        \/ \E w \in Workers : Worker(w)

Spec == Init /\ [][Next]_vars

\* Every thread of the server runs; nothing obliges a client to do anything.
FairSpec == Spec /\ WF_vars(Main) /\ \A w \in Workers : WF_vars(Worker(w))

-----------------------------------------------------------------------------
(* Correctness.                                                            *)

TypeOK ==
    /\ phase \in [Clients -> {"away", "backlog", "open", "closed"}]
    /\ unsent \in [Clients -> 0..RequestSize] /\ inq \in [Clients -> 0..RequestSize]
    /\ hup \in [Clients -> BOOLEAN]
    /\ owner \in [Fds -> Clients \union {Free}]
    /\ interest \in [Fds -> {"none", "off", "in", "out"}]
    /\ edge \in BOOLEAN /\ backlog \in Seq(Clients)
    /\ sock \in [Fds -> BOOLEAN] /\ got \in [Fds -> 0..RequestSize]
    /\ wr \in [Fds -> BOOLEAN] /\ userCount \in Int
    /\ mfd \in Fds \union {Free} /\ mreg \in Int
    /\ events \subseteq (Fds \union {Free}) \X {"listen", "hup", "in", "out"}
    /\ queue \in Seq(Fds)
    /\ wfd \in [Workers -> Fds \union {Free}] /\ wreg \in [Workers -> Int]
    /\ processed \subseteq Clients /\ dropped \subseteq Clients /\ raced \in BOOLEAN

\* Who is going to act next on the connection behind descriptor f.  Epoll acts through the
\* main thread, so a descriptor that the main thread re-arms and closes has one owner.
Closing(f) == mfd = f /\ mpc = "close"
Responsible(f) ==
    {<<"epoll", x>> : x \in {x \in {"in", "out"} : interest[f] = x /\ ~Closing(f)}}
    \union {<<"event", e>> : e \in {e \in events : e[1] = f}}
    \union {<<"queue", i>> : i \in {i \in 1..Len(queue) : queue[i] = f}}
    \union {<<"worker", w>> : w \in {w \in Workers : wfd[w] = f}}
    \union {<<"main", g>> : g \in {g \in {f} : Closing(g)}}

\* The main thread is still setting the connection up.
InSetup(f) == mfd = f /\ mpc \in {"init_sock", "init_add", "init_load", "init_store",
                                 "init_reset"}

\* EPOLLONESHOT and the hand-over through the pool keep every open connection in exactly
\* one pair of hands: armed in epoll, in the batch of events, in the pool's queue, with
\* one worker, or being closed.  Nobody acts on it twice at once, and it is never
\* forgotten, except when append refuses it (web_server.cpp:128): then no event of it is
\* ever reported again.  It may fail once a descriptor was reused under a worker.
OneResponsible ==
    ~raced => \A f \in Fds :
        owner[f] # Free /\ ~InSetup(f) =>
            Cardinality(Responsible(f)) = IF owner[f] \in dropped THEN 0 ELSE 1

\* users[f].m_sockfd is valid exactly while f is open, but for the thread that is just
\* opening or closing it: no read, write or mod_fd ever meets a stale descriptor.
SockIsDescriptor ==
    ~raced => \A f \in Fds :
        \/ sock[f] <=> owner[f] # Free
        \/ InSetup(f)
        \/ mfd = f /\ mpc = "close_sock"
        \/ \E w \in Workers : wfd[w] = f /\ wpc[w] = "close_sock"

\* A closed descriptor leaves nothing behind that would act on its next user: no event
\* in the batch, no entry in the pool, no worker other than the one closing it.
NothingStale ==
    ~raced => \A f \in Fds : owner[f] = Free =>
        /\ interest[f] = "none"
        /\ \A e \in events : e[1] # f
        /\ \A i \in 1..Len(queue) : queue[i] # f
        /\ \A w \in Workers : wfd[w] = f =>
              wpc[w] \in {"close_sock", "close_load", "close_store", "rearm"}

\* Input is not lost on its way to process_read, however its parts meet epoll, the pool and
\* the workers: a client that has sent all of it is answered, or process_read is called with
\* all of it in the buffer, unless the connection is closed, or append refused it.  Each part
\* that arrives while a worker still looks at the parts before is reported once the worker
\* re-arms the descriptor (http_conn.cpp:121).  What process_read makes of the input, which
\* may be to wait for more for good, is not part of this (HttpConn!IsAnswered).  The same
\* reservation about reused descriptors.
InputIsSeen ==
    \A c \in Clients :
        phase[c] = "open" /\ unsent[c] = 0 ~>
            c \in processed \/ phase[c] = "closed" \/ c \in dropped \/ raced
=============================================================================
