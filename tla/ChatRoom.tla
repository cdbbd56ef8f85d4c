------------------------------- MODULE ChatRoom -------------------------------
(***************************************************************************)
(* The chat room of ch-13 (chatroom_server.cpp): a parent that accepts     *)
(* clients and forks a child for each, children that read their client's   *)
(* text into the shared memory at their own number and tell the parent,    *)
(* and the parent, which tells the other children what number to send to   *)
(* their clients.  All event loops are edge triggered epoll.               *)
(*                                                                         *)
(* A connection and its socket pair are named by the pid of the child.     *)
(* The text in the shared memory is left out, the numbers that lead to it  *)
(* are kept.  A loop may handle in one round of epoll_wait an event that   *)
(* comes after epoll_wait has returned.  A signal is delivered at once.    *)
(***************************************************************************)
EXTENDS Integers, Sequences, FiniteSets

CONSTANTS Pids,        \* pids fork may return
          None,
          UserLimit,   \* USER_LIMIT
          PipeSize,    \* notices a socket pair holds in each direction
          MaxBacklog,  \* bound: clients that wait to be accepted
          MaxInput     \* bound: input waiting in a connection

ASSUME ChatAssumption ==
    /\ IsFiniteSet(Pids) /\ None \notin Pids
    /\ UserLimit \in Nat \ {0} /\ PipeSize \in Nat \ {0}
    /\ MaxBacklog \in Nat /\ MaxInput \in Nat

VARIABLES
  \* the kernel
  backlog, edge,  \* clients to accept; the listening socket is on the ready list
  proc,           \* free, born, setup, gap, wait, busy, zombie: where the process is
  input, hup,     \* of the connection of a child
  up, down,       \* notices from a child, as a number, and to it
  signals,        \* the signals in sig_pipefd, each once
  ready, cready,  \* ready lists: pipes, for the parent; "conn" and "pipe" for a child
  \* the children
  idx, stop_child,
  \* the parent
  ppc,            \* dispatch, reap, stopped
  users, user_count, sub_process, terminate, stop_server

socket == <<backlog, edge>>
child == <<proc, input, hup, down, cready, idx, stop_child>>
table == <<users, user_count, sub_process>>
flags == <<terminate, stop_server>>
vars == <<socket, child, up, signals, ready, ppc, table, flags>>

Numbers == 0..(UserLimit - 1)
Users == {users[i] : i \in 0..(user_count - 1)}
Looping == {"gap", "wait", "busy"}
Running == {"born", "setup"} \union Looping

Init ==
    /\ backlog = 0 /\ edge = FALSE /\ signals = << >> /\ ready = {}
    /\ proc = [p \in Pids |-> "free"]
    /\ input = [p \in Pids |-> 0] /\ hup = [p \in Pids |-> FALSE]
    /\ up = [p \in Pids |-> 0] /\ down = [p \in Pids |-> << >>]
    /\ cready = [p \in Pids |-> {}]
    /\ idx = [p \in Pids |-> 0] /\ stop_child = [p \in Pids |-> FALSE]
    /\ ppc = "dispatch" /\ users = [i \in 0..UserLimit |-> None] /\ user_count = 0
    /\ sub_process = [p \in Pids |-> -1]
    /\ terminate = FALSE /\ stop_server = FALSE

\* sig_handler.  (A signal that is in the pipe already is not written again: handled twice
\* in a row it does nothing more.)
Raised(sig) == IF ppc = "stopped" \/ \E i \in 1..Len(signals) : signals[i] = sig
               THEN signals ELSE Append(signals, sig)

-----------------------------------------------------------------------------
(* The clients, and SIGTERM or SIGINT from outside.                        *)

Connect == /\ ppc # "stopped" /\ backlog < MaxBacklog
           /\ backlog' = backlog + 1 /\ edge' = TRUE
           /\ UNCHANGED <<child, up, signals, ready, ppc, table, flags>>

Arrives(p) == /\ ppc # "stopped" /\ proc[p] \in Running /\ ~hup[p]
              /\ cready' = [cready EXCEPT ![p] = @ \union {"conn"}]
              /\ UNCHANGED <<socket, proc, down, idx, stop_child, up, signals, ready, ppc,
                             table, flags>>

Send(p) == /\ Arrives(p) /\ input[p] < MaxInput
           /\ input' = [input EXCEPT ![p] = @ + 1]
           /\ UNCHANGED hup

HangUp(p) == /\ Arrives(p)
             /\ hup' = [hup EXCEPT ![p] = TRUE]
             /\ UNCHANGED input

\* Bound: not again once the parent has seen it.
Terminate == /\ ppc # "stopped" /\ ~terminate
             /\ signals' = Raised("TERM")
             /\ UNCHANGED <<socket, child, up, ready, ppc, table, flags>>

-----------------------------------------------------------------------------
(* A child.                                                                *)

Goes(p, to) == /\ proc' = [proc EXCEPT ![p] = to]
               /\ UNCHANGED <<socket, input, hup, up, down, signals, ready, cready, idx,
                              stop_child, ppc, table, flags>>

\* The copies of the signal pipe are closed; until then the inherited handler writes to it.
ChildCloses(p) == proc[p] = "born" /\ Goes(p, "setup")

\* run_child: epoll, the handler of SIGTERM, the first test of stop_child.
ChildStarts(p) == proc[p] = "setup" /\ Goes(p, "gap")

ChildWaits(p) == proc[p] = "gap" /\ Goes(p, "wait")

\* An event the loop of the child handles.
ChildEvent(p, s) == /\ proc[p] \in {"wait", "busy"} /\ s \in cready[p]
                    /\ proc' = [proc EXCEPT ![p] = "busy"]
                    /\ cready' = [cready EXCEPT ![p] = @ \ {s}]
                    /\ UNCHANGED <<socket, hup, idx, signals, ppc, table, flags>>

\* One recv, of at most BUFFER_SIZE - 1 bytes, into share_mem; the notice is lost when the
\* pipe is full.
ChildRecv(p) == /\ ChildEvent(p, "conn") /\ input[p] > 0
                /\ \E n \in 1..input[p] : input' = [input EXCEPT ![p] = @ - n]
                /\ up' = [up EXCEPT ![p] = IF @ < PipeSize THEN @ + 1 ELSE @]
                /\ ready' = ready \union {p}
                /\ UNCHANGED <<down, stop_child>>

ChildRecvEnd(p) == /\ ChildEvent(p, "conn") /\ input[p] = 0
                   /\ stop_child' = [stop_child EXCEPT ![p] = TRUE]
                   /\ UNCHANGED <<input, up, down, ready>>

\* A notice: share_mem at that number goes to the client.
ChildSends(p) == /\ ChildEvent(p, "pipe")
                 /\ down' = [down EXCEPT ![p] = Tail(@)]
                 /\ UNCHANGED <<input, stop_child, up, ready>>

ChildRound(p) == /\ proc[p] = "busy" /\ ~stop_child[p]
                 /\ Goes(p, "gap")

\* The process ends; the kernel closes its connection and its end of the pipe.
Dead(p) == /\ proc' = [proc EXCEPT ![p] = "zombie"]
           /\ input' = [input EXCEPT ![p] = 0] /\ hup' = [hup EXCEPT ![p] = FALSE]
           /\ down' = [down EXCEPT ![p] = << >>] /\ cready' = [cready EXCEPT ![p] = {}]
           /\ stop_child' = [stop_child EXCEPT ![p] = FALSE]
           /\ ready' = IF ppc = "stopped" THEN ready ELSE ready \union {p}
           /\ signals' = Raised("CHLD")
           /\ UNCHANGED <<socket, up, idx, ppc, table, flags>>

ChildLeaves(p) == proc[p] = "busy" /\ stop_child[p] /\ Dead(p)

\* A crash, or a signal from outside.
ChildCrashes(p) == proc[p] \in Running /\ Dead(p)

Child(p) == \/ ChildCloses(p) \/ ChildStarts(p) \/ ChildWaits(p)
            \/ ChildRecv(p) \/ ChildRecvEnd(p) \/ ChildSends(p)
            \/ ChildRound(p) \/ ChildLeaves(p)

-----------------------------------------------------------------------------
(* The parent: a new client.                                               *)

Accepting == /\ ppc = "dispatch" /\ edge
             /\ edge' = FALSE
             /\ UNCHANGED <<signals, ppc, flags>>

\* accept fails, and the client stays in the backlog.
AcceptFails == Accepting /\ UNCHANGED <<backlog, child, up, ready, table>>

\* Too many users, or fork fails: the connection is closed.
AcceptTurnsAway == /\ Accepting
                   /\ backlog' = backlog - 1
                   /\ UNCHANGED <<child, up, ready, table>>

Room == user_count < UserLimit

\* Slip: the user is counted before the fork.
NumberCountedFirst == user_count + 1

\* The number run_child is given.
Number == user_count

Accept(p) ==
    /\ Accepting /\ Room /\ proc[p] = "free"
    /\ backlog' = backlog - 1
    /\ proc' = [proc EXCEPT ![p] = "born"]
    /\ idx' = [idx EXCEPT ![p] = Number]
    /\ users' = [users EXCEPT ![user_count] = p]
    /\ sub_process' = [sub_process EXCEPT ![p] = user_count]
    /\ user_count' = user_count + 1
    /\ UNCHANGED <<input, hup, up, down, cready, stop_child, ready>>

-----------------------------------------------------------------------------
(* The parent: signals.                                                    *)

\* Slip: sub_process of the user that moves is not set.
MovedForgotten(p, n, last) == [sub_process EXCEPT ![p] = -1]

\* The number of every pid after the last user has moved to place n.
Moved(p, n, last) == [sub_process EXCEPT ![p] = -1, ![last] = n]

SigChld == /\ ppc = "dispatch" /\ signals # << >> /\ Head(signals) = "CHLD"
           /\ signals' = Tail(signals)
           /\ ppc' = "reap"
           /\ UNCHANGED <<socket, child, up, ready, table, flags>>

Reaped(p) ==
    /\ ppc = "reap" /\ proc[p] = "zombie"
    /\ LET n == sub_process[p]
           last == users[user_count - 1]
       IN IF n < 0 \/ n > UserLimit
          THEN UNCHANGED <<users, user_count, up, ready>>
               /\ sub_process' = [sub_process EXCEPT ![p] = -1]
          ELSE /\ ready' = ready \ {users[n]}
               /\ up' = [up EXCEPT ![users[n]] = 0]
               /\ users' = [users EXCEPT ![n] = last]
               /\ user_count' = user_count - 1
               /\ sub_process' = Moved(p, n, last)
    /\ proc' = [proc EXCEPT ![p] = "free"] /\ idx' = [idx EXCEPT ![p] = 0]
    /\ UNCHANGED <<socket, input, hup, down, cready, stop_child, signals, flags>>

\* Slip: one child is waited for per SIGCHLD.
ReapOne(p) == Reaped(p) /\ ppc' = "dispatch"

\* waitpid finds a child that has ended.
Reap(p) == Reaped(p) /\ UNCHANGED ppc

ReapDone == /\ ppc = "reap" /\ \A p \in Pids : proc[p] # "zombie"
            /\ stop_server' = (stop_server \/ (terminate /\ user_count = 0))
            /\ ppc' = "dispatch"
            /\ UNCHANGED <<socket, child, up, signals, ready, table, terminate>>

\* kill(pid, SIGTERM) for every user.  A child that has not closed its copy of the signal
\* pipe writes the signal there, one that has no handler of its own yet ignores it, and
\* one that is in epoll_wait is woken up.
SigTerm ==
    /\ ppc = "dispatch" /\ signals # << >> /\ Head(signals) = "TERM"
    /\ LET hit == Users \intersect {p \in Pids : proc[p] \in Looping}
           born == \E p \in Users : proc[p] = "born"
       IN /\ stop_child' = [p \in Pids |-> stop_child[p] \/ p \in hit]
          /\ proc' = [p \in Pids |-> IF p \in hit /\ proc[p] = "wait" THEN "busy" ELSE proc[p]]
          /\ signals' = Tail(signals) \o IF born THEN <<"TERM">> ELSE << >>
    /\ stop_server' = (stop_server \/ user_count = 0)
    /\ terminate' = (terminate \/ user_count # 0)
    /\ UNCHANGED <<socket, input, hup, up, down, cready, idx, ready, ppc, table>>

-----------------------------------------------------------------------------
(* The parent: a notice of a child.                                        *)

\* The end of the stream (or nothing): continue.
RelayNothing(p) == /\ ppc = "dispatch" /\ p \in ready /\ up[p] = 0
                   /\ ready' = ready \ {p}
                   /\ UNCHANGED <<socket, child, up, signals, ppc, table, flags>>

\* One notice is read, and written to the pipes of the other users that have room.
Relay(p) ==
    /\ ppc = "dispatch" /\ p \in ready /\ up[p] > 0
    /\ ready' = ready \ {p}
    /\ up' = [up EXCEPT ![p] = @ - 1]
    /\ LET told == {q \in Users \ {p} : proc[q] \in Running /\ Len(down[q]) < PipeSize}
       IN /\ down' = [q \in Pids |-> IF q \in told THEN Append(down[q], idx[p]) ELSE down[q]]
          /\ cready' = [q \in Pids |-> IF q \in told THEN cready[q] \union {"pipe"}
                                       ELSE cready[q]]
    /\ UNCHANGED <<socket, proc, input, hup, idx, stop_child, signals, ppc, table, flags>>

\* The loop is left at the end of a round, del_resourse.
Stop == /\ ppc = "dispatch" /\ stop_server
        /\ ppc' = "stopped"
        /\ backlog' = 0 /\ edge' = FALSE /\ signals' = << >> /\ ready' = {}
        /\ UNCHANGED <<child, up, table, flags>>

Parent == \/ AcceptFails \/ AcceptTurnsAway \/ SigChld \/ ReapDone \/ SigTerm \/ Stop
          \/ \E p \in Pids : Accept(p) \/ Reap(p) \/ RelayNothing(p) \/ Relay(p)

Next == \/ Connect \/ Terminate \/ Parent
        \/ \E p \in Pids : Send(p) \/ HangUp(p) \/ Child(p) \/ ChildCrashes(p)

Spec == Init /\ [][Next]_vars

-----------------------------------------------------------------------------
(* Correctness.                                                            *)

\* Types.  In particular the numbers that lead into the shared memory stay in it, those
\* under way in the pipes too, and user_count never leaves the array of users.
TypeOK ==
    /\ backlog \in 0..MaxBacklog /\ edge \in BOOLEAN
    /\ proc \in [Pids -> {"free", "zombie"} \union Running]
    /\ input \in [Pids -> 0..MaxInput] /\ hup \in [Pids -> BOOLEAN]
    /\ up \in [Pids -> 0..PipeSize] /\ down \in [Pids -> Seq(Numbers)]
    /\ signals \in Seq({"CHLD", "TERM"}) /\ ready \subseteq Pids
    /\ cready \in [Pids -> SUBSET {"conn", "pipe"}]
    /\ idx \in [Pids -> Numbers] /\ stop_child \in [Pids -> BOOLEAN]
    /\ ppc \in {"dispatch", "reap", "stopped"}
    /\ users \in [0..UserLimit -> Pids \union {None}] /\ user_count \in 0..UserLimit
    /\ sub_process \in [Pids -> -1..UserLimit]
    /\ terminate \in BOOLEAN /\ stop_server \in BOOLEAN

\* The first user_count places of users are the children that were not waited for yet, each
\* once, and sub_process leads from each to its place: so SIGTERM goes to no stranger, and
\* the child that ends is the one that is removed, in whatever order children end.
UsersAreChildren ==
    /\ Users = {p \in Pids : proc[p] # "free"} \/ ppc = "stopped"
    /\ \A i \in 0..(user_count - 1) : sub_process[users[i]] = i

\* No child that has ended is forgotten, though SIGCHLDs are merged: while there is one,
\* the signal is in the pipe or the parent is waiting for children.
ZombieSeen ==
    ppc # "stopped" /\ (\E p \in Pids : proc[p] = "zombie") =>
        ppc = "reap" \/ \E i \in 1..Len(signals) : signals[i] = "CHLD"

\* "idx: the number of the client connection this child handles" (chatroom_server.cpp:99):
\* it leads to the child's own place.
NumberIsOwn == \A p \in Pids : proc[p] \in Running /\ ppc # "stopped" => users[idx[p]] = p
=============================================================================
