----------------------------- MODULE ProcessPool -----------------------------
(***************************************************************************)
(* processpool<T> of ch-15/processpool.h: a parent that watches the        *)
(* listening socket and tells one child after the other to accept, the     *)
(* children that accept and serve, and the signals that stop them.  Every  *)
(* process runs an edge triggered epoll loop; its signal handler writes    *)
(* the signal into a pipe of its own, which the loop reads.                *)
(*                                                                         *)
(* What T does with a connection is left to the outcome of T::process.  A  *)
(* SIGCHLD in a child only reaps what T has forked and is left out.        *)
(***************************************************************************)
EXTENDS Naturals, FiniteSets

CONSTANTS N,          \* process_number
          MaxClients, \* bound: clients that ever connect
          PipeSize    \* notices the pipe of a child holds

ASSUME PoolAssumption == /\ N \in 1..16
                         /\ MaxClients \in Nat \ {0} /\ PipeSize \in Nat \ {0}

Children == 0..(N - 1)

VARIABLES
  \* the kernel's side
  arrived,  \* clients that have connected
  backlog,  \* of these, the ones waiting to be accepted
  pipe,     \* pipe[i]: notices child i has not read
  \* the parent
  ppc, forked,
  m_pid,    \* m_pid[i]: m_sub_process[i].m_pid is not -1
  counter,  \* sub_process_counter
  target,   \* the child a notice is being sent to
  p,        \* signal plumbing of the parent: see Plumbing
  \* the children
  cpc, users, c,
  early     \* history: the children that ended before the parent had its handler of SIGCHLD

kernel == <<arrived, backlog, pipe>>
parent == <<ppc, forked, m_pid, counter, target, p>>
children == <<cpc, users, c, early>>
vars == <<kernel, parent, children>>

\* What the loop of a process rests on: the signals in its pipe (one that is there twice
\* does nothing the second time), its epoll instance's ready list, the batch epoll_wait
\* returned, the signals recv took, m_stop.
Signals == {"TERM", "CHLD"}
Plumbing(sources) == [piped : SUBSET Signals, ready : SUBSET sources,
                      events : SUBSET sources, taken : SUBSET Signals, m_stop : BOOLEAN]
Quiet == [piped |-> {}, ready |-> {}, events |-> {}, taken |-> {}, m_stop |-> FALSE]

Init == /\ arrived = 0 /\ backlog = 0 /\ pipe = [i \in Children |-> 0]
        /\ ppc = "fork" /\ forked = 0 /\ m_pid = [i \in Children |-> FALSE]
        /\ counter = 0 /\ target = 0 /\ p = Quiet
        /\ cpc = [i \in Children |-> "unborn"] /\ users = [i \in Children |-> 0]
        /\ c = [i \in Children |-> Quiet] /\ early = {}

ParentHandles == ppc \in {"wait", "batch", "send"}
ChildRuns(i) == cpc[i] \in {"wait", "batch"}

-----------------------------------------------------------------------------
(* The loop of a process, for the plumbing q.                              *)

Edge(q, source) == [q EXCEPT !.ready = @ \union {source}]

\* sig_handler, which runs when a signal of S is raised.  (A signal that stays pending for
\* a while is as if it was raised later: the handler does nothing else.)
SigHandler(q, S) == IF S = {} THEN q ELSE [Edge(q, "sig") EXCEPT !.piped = @ \union S]

\* epoll_wait
Report(q) == [q EXCEPT !.events = q.ready, !.ready = {}]

\* recv on sig_pipefd[0]
TakeSignals(q) == [q EXCEPT !.events = @ \ {"sig"}, !.taken = q.piped, !.piped = {}]

\* One event is taken from the batch; the signals taken before are handled first.
Handling(q, source) == q.taken = {} /\ source \in q.events

-----------------------------------------------------------------------------
(* Clients and the operator.                                               *)

\* The parent's epoll watches listenfd once run_parent has registered it.
Connect == /\ arrived < MaxClients
           /\ arrived' = arrived + 1 /\ backlog' = backlog + 1
           /\ p' = IF ParentHandles THEN Edge(p, "listen") ELSE p
           /\ UNCHANGED <<pipe, ppc, forked, m_pid, counter, target, children>>

ClientSends(i) == /\ ChildRuns(i) /\ users[i] > 0
                  /\ c' = [c EXCEPT ![i] = Edge(@, "client")]
                  /\ UNCHANGED <<kernel, parent, cpc, users, early>>

\* The children in S are gone: zombies, unless nobody is left to wait for them.  A parent that
\* has not installed its handler yet never hears of it: its SIGCHLD is ignored.
Die(S) == /\ cpc' = [i \in Children |-> IF i \in S THEN "zombie" ELSE cpc[i]]
          /\ users' = [i \in Children |-> IF i \in S THEN 0 ELSE users[i]]
          /\ pipe' = [i \in Children |-> IF i \in S THEN 0 ELSE pipe[i]]
          /\ early' = IF ppc \in {"fork", "setup"} THEN early \union S ELSE early

\* What SIGTERM does to the children in S: the default action before setup_sig_pipe, the
\* handler after.
Terminated(S) == {i \in S : cpc[i] = "setup"}
Chld(S) == IF S = {} THEN {} ELSE {"CHLD"}
Signalled(S) == [i \in Children |->
                    IF i \in Terminated(S) THEN Quiet
                    ELSE IF i \in S /\ ChildRuns(i) THEN SigHandler(c[i], {"TERM"})
                    ELSE c[i]]

\* kill of the parent: before setup_sig_pipe this is the end of it, the children live on.
TermParent == /\ ppc \notin {"stopped", "killed"}
              /\ IF ParentHandles THEN p' = SigHandler(p, {"TERM"}) /\ UNCHANGED ppc
                 ELSE p' = Quiet /\ ppc' = "killed"
              /\ UNCHANGED <<kernel, forked, m_pid, counter, target, children>>

\* Ctrl-C: SIGINT to every process of the group.
Interrupt == /\ ppc \notin {"stopped", "killed"}
             /\ IF ParentHandles
                THEN /\ p' = SigHandler(p, {"TERM"} \union Chld(Terminated(Children)))
                     /\ UNCHANGED ppc
                ELSE p' = Quiet /\ ppc' = "killed"
             /\ c' = Signalled(Children)
             /\ Die(Terminated(Children))
             /\ UNCHANGED <<arrived, backlog, forked, m_pid, counter, target>>

-----------------------------------------------------------------------------
(* The constructor and setup_sig_pipe.                                     *)

Fork == /\ ppc = "fork" /\ forked < N
        /\ m_pid' = [m_pid EXCEPT ![forked] = TRUE]
        /\ cpc' = [cpc EXCEPT ![forked] = "setup"]
        /\ forked' = forked + 1
        /\ UNCHANGED <<kernel, ppc, counter, target, p, users, c, early>>

\* socketpair or fork fails: an assertion ends the parent, the children live on.
ForkFails == /\ ppc = "fork" /\ forked < N
             /\ ppc' = "killed"
             /\ UNCHANGED <<kernel, forked, m_pid, counter, target, p, children>>

Forked == /\ ppc = "fork" /\ forked = N
          /\ ppc' = "setup"
          /\ UNCHANGED <<kernel, forked, m_pid, counter, target, p, children>>

\* setup_sig_pipe and add_fd(m_listenfd), which is ready when clients wait already.
ParentSetup == /\ ppc = "setup"
               /\ ppc' = "wait"
               /\ p' = IF backlog > 0 THEN Edge(p, "listen") ELSE p
               /\ UNCHANGED <<kernel, forked, m_pid, counter, target, children>>

ChildSetup(i) == /\ cpc[i] = "setup"
                 /\ cpc' = [cpc EXCEPT ![i] = "wait"]
                 /\ c' = IF pipe[i] > 0 THEN [c EXCEPT ![i] = Edge(@, "pipe")] ELSE c
                 /\ UNCHANGED <<kernel, parent, users, early>>

-----------------------------------------------------------------------------
(* run_parent                                                              *)

ParentWait == /\ ppc = "wait" /\ p.ready # {}
              /\ p' = Report(p)
              /\ ppc' = "batch"
              /\ UNCHANGED <<kernel, forked, m_pid, counter, target, children>>

\* Slip: the index of the next child is not taken modulo the number of children.
DispatchPastEnd(i) == /\ ppc = "batch" /\ Handling(p, "listen")
                      /\ m_pid[i]
                      /\ \A k \in 0..(N - 1) :
                            m_pid[(counter + k) % N] => (i + N - counter) % N <= k
                      /\ target' = i /\ counter' = i + 1
                      /\ p' = [p EXCEPT !.events = @ \ {"listen"}]
                      /\ ppc' = "send"
                      /\ UNCHANGED <<kernel, forked, m_pid, children>>

\* A new connection: the first child from sub_process_counter on that is not gone.
Dispatch(i) == /\ ppc = "batch" /\ Handling(p, "listen")
               /\ m_pid[i]
               /\ \A k \in 0..(N - 1) :
                     m_pid[(counter + k) % N] => (i + N - counter) % N <= k
               /\ target' = i /\ counter' = (i + 1) % N
               /\ p' = [p EXCEPT !.events = @ \ {"listen"}]
               /\ ppc' = "send"
               /\ UNCHANGED <<kernel, forked, m_pid, children>>

\* No child is left: the rest of the batch is dropped.
DispatchNobody == /\ ppc = "batch" /\ Handling(p, "listen")
                  /\ \A i \in Children : ~m_pid[i]
                  /\ p' = [p EXCEPT !.events = {}, !.m_stop = TRUE]
                  /\ UNCHANGED <<kernel, ppc, forked, m_pid, counter, target, children>>

\* send on the pipe, which blocks while the pipe is full; a notice to a child that is
\* gone is lost (EPIPE, SIGPIPE is ignored).
SendNotice == /\ ppc = "send"
              /\ \/ /\ cpc[target] = "zombie"
                    /\ UNCHANGED <<pipe, c>>
                 \/ /\ cpc[target] # "zombie" /\ pipe[target] < PipeSize
                    /\ pipe' = [pipe EXCEPT ![target] = @ + 1]
                    /\ c' = IF ChildRuns(target)
                            THEN [c EXCEPT ![target] = Edge(@, "pipe")] ELSE c
              /\ ppc' = "batch" /\ target' = 0
              /\ UNCHANGED <<arrived, backlog, forked, m_pid, counter, p, cpc, users, early>>

ParentTake == /\ ppc = "batch" /\ Handling(p, "sig")
              /\ p' = TakeSignals(p)
              /\ UNCHANGED <<kernel, ppc, forked, m_pid, counter, target, children>>

Zombies == {i \in Children : cpc[i] = "zombie"}

\* Slip: one waitpid per SIGCHLD.
ReapOne == /\ ppc = "batch" /\ "CHLD" \in p.taken
           /\ \E S \in SUBSET Zombies :
                 /\ Cardinality(S) = IF Zombies = {} THEN 0 ELSE 1
                 /\ cpc' = [i \in Children |-> IF i \in S THEN "reaped" ELSE cpc[i]]
                 /\ m_pid' = [i \in Children |-> m_pid[i] /\ i \notin S]
           /\ p' = [p EXCEPT !.taken = @ \ {"CHLD"},
                             !.m_stop = \A i \in Children : ~m_pid'[i]]
           /\ UNCHANGED <<kernel, ppc, forked, counter, target, users, c, early>>

\* Slip: the parent stops with the first child that is gone.
ReapStopsEarly == /\ ppc = "batch" /\ "CHLD" \in p.taken
                  /\ cpc' = [i \in Children |-> IF i \in Zombies THEN "reaped" ELSE cpc[i]]
                  /\ m_pid' = [i \in Children |-> m_pid[i] /\ i \notin Zombies]
                  /\ p' = [p EXCEPT !.taken = @ \ {"CHLD"},
                                    !.m_stop = \E i \in Children : ~m_pid'[i]]
                  /\ UNCHANGED <<kernel, ppc, forked, counter, target, users, c, early>>

\* Slip: m_pid keeps the pid of a child that was waited for.
ReapKeepsPid == /\ ppc = "batch" /\ "CHLD" \in p.taken
                /\ cpc' = [i \in Children |-> IF i \in Zombies THEN "reaped" ELSE cpc[i]]
                /\ p' = [p EXCEPT !.taken = @ \ {"CHLD"}]
                /\ UNCHANGED <<kernel, ppc, forked, m_pid, counter, target, users, c, early>>

\* SIGCHLD: waitpid until no child that is gone is left; stop when all are.
Reap == /\ ppc = "batch" /\ "CHLD" \in p.taken
        /\ cpc' = [i \in Children |-> IF i \in Zombies THEN "reaped" ELSE cpc[i]]
        /\ m_pid' = [i \in Children |-> m_pid[i] /\ i \notin Zombies]
        /\ p' = [p EXCEPT !.taken = @ \ {"CHLD"},
                          !.m_stop = \A i \in Children : ~m_pid'[i]]
        /\ UNCHANGED <<kernel, ppc, forked, counter, target, users, c, early>>

\* SIGTERM or SIGINT: kill every child that is not known to be gone.
KillAll == /\ ppc = "batch" /\ "TERM" \in p.taken
           /\ LET S == {i \in Children : m_pid[i]}
              IN /\ c' = Signalled(S)
                 /\ Die(Terminated(S))
                 /\ p' = [SigHandler(p, Chld(Terminated(S))) EXCEPT !.taken = @ \ {"TERM"}]
           /\ UNCHANGED <<arrived, backlog, ppc, forked, m_pid, counter, target>>

ParentNext == /\ ppc = "batch" /\ p.events = {} /\ p.taken = {}
              /\ ppc' = IF p.m_stop THEN "stopped" ELSE "wait"
              /\ UNCHANGED <<kernel, forked, m_pid, counter, target, p, children>>

Parent == \/ Fork \/ Forked \/ ParentSetup \/ ParentWait \/ DispatchNobody
          \/ SendNotice \/ ParentTake \/ Reap \/ KillAll \/ ParentNext
          \/ \E i \in Children : Dispatch(i)

-----------------------------------------------------------------------------
(* run_child                                                               *)

ChildWait(i) == /\ cpc[i] = "wait" /\ c[i].ready # {}
                /\ c' = [c EXCEPT ![i] = Report(@)]
                /\ cpc' = [cpc EXCEPT ![i] = "batch"]
                /\ UNCHANGED <<kernel, parent, users, early>>

ChildHandling(i, source) == /\ cpc[i] = "batch" /\ Handling(c[i], source)
                            /\ c' = [c EXCEPT ![i].events = @ \ {source}]

\* Slip: the notice is looked at and left in the pipe.
ChildAcceptPeeks(i) == /\ ChildHandling(i, "pipe")
                       /\ IF backlog = 0 THEN UNCHANGED <<backlog, users>>
                          ELSE /\ backlog' = backlog - 1
                               /\ users' = [users EXCEPT ![i] = @ + 1]
                       /\ UNCHANGED <<arrived, pipe, parent, cpc, early>>

\* recv takes one notice; accept (listenfd is non-blocking) takes one client, if any.
ChildAccept(i) == /\ ChildHandling(i, "pipe")
                  /\ pipe' = [pipe EXCEPT ![i] = IF @ = 0 THEN 0 ELSE @ - 1]
                  /\ IF backlog = 0 THEN UNCHANGED <<backlog, users>>
                     ELSE /\ backlog' = backlog - 1
                          /\ users' = [users EXCEPT ![i] = @ + 1]
                  /\ UNCHANGED <<arrived, parent, cpc, early>>

\* accept fails for want of descriptors: the notice is used up, the client waits.
ChildAcceptFails(i) == /\ ChildHandling(i, "pipe")
                       /\ pipe' = [pipe EXCEPT ![i] = IF @ = 0 THEN 0 ELSE @ - 1]
                       /\ UNCHANGED <<arrived, backlog, parent, cpc, users, early>>

\* T::process keeps the connection, or closes it.
ChildProcess(i) == /\ cpc[i] = "batch" /\ Handling(c[i], "client")
                   /\ \E n \in {users[i], users[i] - 1} :
                         /\ users' = [users EXCEPT ![i] = n]
                         /\ c' = [c EXCEPT ![i].events = @ \ {"client"},
                                           ![i].ready = @ \ {x \in {"client"} : n = 0}]
                   /\ UNCHANGED <<kernel, parent, cpc, early>>

\* The end of a child at any time of its life: an assertion or new fails while it is set up,
\* T::process does not return, somebody sends it a signal.
ChildCrashes(i) == /\ cpc[i] \in {"setup", "wait", "batch"}
                   /\ Die({i})
                   /\ c' = [c EXCEPT ![i] = Quiet]
                   /\ p' = IF ParentHandles THEN SigHandler(p, {"CHLD"}) ELSE p
                   /\ UNCHANGED <<arrived, backlog, ppc, forked, m_pid, counter, target>>

ChildStop(i) == /\ cpc[i] = "batch" /\ Handling(c[i], "sig")
                /\ LET stop == c[i].m_stop \/ "TERM" \in c[i].piped
                   IN c' = [c EXCEPT ![i] = [TakeSignals(@) EXCEPT !.m_stop = stop,
                                                                   !.taken = {}]]
                /\ UNCHANGED <<kernel, parent, cpc, users, early>>

ChildNext(i) == /\ cpc[i] = "batch" /\ c[i].events = {} /\ ~c[i].m_stop
                /\ cpc' = [cpc EXCEPT ![i] = "wait"]
                /\ UNCHANGED <<kernel, parent, users, c, early>>

\* The loop is left, and the process ends.
ChildExits(i) == /\ cpc[i] = "batch" /\ c[i].events = {} /\ c[i].m_stop
                 /\ Die({i})
                 /\ c' = [c EXCEPT ![i] = Quiet]
                 /\ p' = IF ParentHandles THEN SigHandler(p, {"CHLD"}) ELSE p
                 /\ UNCHANGED <<arrived, backlog, ppc, forked, m_pid, counter, target>>

Child(i) == \/ ChildSetup(i) \/ ChildWait(i) \/ ChildAccept(i)
            \/ ChildProcess(i) \/ ChildStop(i) \/ ChildNext(i) \/ ChildExits(i)

-----------------------------------------------------------------------------
Next == \/ Connect \/ TermParent \/ Interrupt \/ ForkFails \/ Parent
        \/ \E i \in Children : \/ ClientSends(i) \/ Child(i)
                               \/ ChildAcceptFails(i) \/ ChildCrashes(i)

Spec == Init /\ [][Next]_vars

\* Every process is scheduled.  Nothing obliges clients, operator or failures.
FairSpec == Spec /\ WF_vars(Parent) /\ \A i \in Children : WF_vars(Child(i))

-----------------------------------------------------------------------------
(* Correctness.                                                            *)

TypeOK ==
    /\ arrived \in 0..MaxClients /\ backlog \in 0..arrived
    /\ pipe \in [Children -> 0..PipeSize]
    /\ ppc \in {"fork", "setup", "wait", "batch", "send", "stopped", "killed"}
    /\ forked \in 0..N /\ m_pid \in [Children -> BOOLEAN]
    /\ counter \in Children /\ target \in Children
    /\ p \in Plumbing({"sig", "listen"})
    /\ cpc \in [Children -> {"unborn", "setup", "wait", "batch", "zombie", "reaped"}]
    /\ early \subseteq Children
    /\ users \in [Children -> 0..MaxClients]
    /\ c \in [Children -> Plumbing({"sig", "pipe", "client"})]

\* A pid in m_sub_process belongs to a child that was not waited for yet: kill(pid,
\* SIGTERM) never reaches another process that was given the number again, and the pipe
\* that send writes to is one the parent has not closed.  Conversely every child the
\* parent has not waited for is known to it.
PidIsOurs ==
    /\ \A i \in Children : m_pid[i] <=> cpc[i] \notin {"unborn", "reaped"}
    /\ ppc = "send" => m_pid[target]

\* The parent leaves its loop only when every child was waited for.
ParentLast == ppc = "stopped" => \A i \in Children : cpc[i] = "reaped"

\* A child that is gone is noticed: SIGCHLD is in the parent's pipe with the loop about to
\* read it, or being handled.  One SIGCHLD may stand for several children, and children may
\* go while it is handled.  The exception are children that end before the parent has its
\* handler (processpool.h:206): their SIGCHLD is dropped, and they stay until another ends.
ZombieSeen ==
    ParentHandles /\ Zombies \ early # {} =>
        \/ "CHLD" \in p.piped /\ "sig" \in p.ready \union p.events
        \/ "CHLD" \in p.taken

\* The notices in the pipes, as pairs of a child and a place in its pipe.
Notices == {x \in Children \X (1..PipeSize) : x[2] <= pipe[x[1]]}
One(due) == IF due THEN 1 ELSE 0

\* Every notice, in a pipe or still to be sent, is backed by a client that waits: an
\* accept in a child never meets an empty backlog, however the children interleave.
NoticesCovered ==
    ppc # "killed" =>
        Cardinality(Notices) + One(ppc = "send") + One("listen" \in p.ready)
            + One("listen" \in p.events) <= backlog

\* SIGTERM that reaches the loop of the parent ends the children and then the parent, which
\* waits for those that ended early with the others; but when all did, no SIGCHLD ever comes,
\* and the parent runs on.
TermStops == "TERM" \in p.taken /\ early # Children ~> ppc = "stopped"
=============================================================================
