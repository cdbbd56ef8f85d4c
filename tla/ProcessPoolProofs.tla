-------------------------- MODULE ProcessPoolProofs --------------------------
(***************************************************************************)
(* Proofs about ProcessPool, for any number of children the code allows,   *)
(* any number of clients and any size of the pipes.                        *)
(*                                                                         *)
(* PoolInv is inductive on its own: types, what the children can be before *)
(* the parent handles signals, and where a signal is between its arrival   *)
(* and its handling.  NoticeInv, which counts the notices in the pipes,    *)
(* is an invariant relative to it.                                         *)
(***************************************************************************)
EXTENDS ProcessPool, FiniteSetTheorems, TLAPS

-----------------------------------------------------------------------------
(* The inductive invariant.                                                *)

\* The clients a child serves were taken from the backlog.
Counted == \A i \in Children : users[i] + backlog <= arrived

\* An event of a client is there only while the child has clients.
ClientHasUser == \A i \in Children : "client" \in c[i].ready \union c[i].events => users[i] > 0

\* The constructor forks the children in order, and all of them.
Born == /\ \A i \in Children : cpc[i] = "unborn" <=> i >= forked
        /\ ppc \notin {"fork", "killed"} => forked = N

\* Before the parent watches the listening socket a child can only have been set up, or have
\* ended, and then it is one of early.
Early == ppc \in {"fork", "setup"} =>
             /\ p = Quiet
             /\ Zombies \subseteq early
             /\ \A i \in Children : /\ cpc[i] \in {"unborn", "setup", "wait", "zombie"}
                                    /\ c[i] = Quiet /\ users[i] = 0 /\ pipe[i] = 0

\* m_stop is set when no child is left, and none is forked any more.
NobodyLeft == p.m_stop => \A i \in Children : ~m_pid[i]

\* epoll_wait is called when the batch before is done.
BatchDone == ppc = "wait" => p.events = {}

\* The types need Counted for users and ClientHasUser for ChildProcess; PidIsOurs and
\* ParentLast need Born; ZombieSeen needs Early and BatchDone, and PidIsOurs for the batch
\* that DispatchNobody drops.
PoolInv == /\ TypeOK /\ Counted /\ ClientHasUser /\ Born /\ Early /\ NobodyLeft /\ BatchDone
           /\ PidIsOurs /\ ParentLast /\ ZombieSeen

\* A child that runs its loop has a notice in its pipe for each edge of it.
EdgesBacked ==
    \A i \in Children :
        /\ cpc[i] \in {"unborn", "setup"} => c[i] = Quiet
        /\ cpc[i] = "wait" => c[i].events = {}
        /\ "pipe" \in c[i].ready \union c[i].events => pipe[i] > 0
        /\ "pipe" \in c[i].ready \intersect c[i].events => pipe[i] > 1

NoticeInv == EdgesBacked /\ NoticesCovered

-----------------------------------------------------------------------------
(* The operators on the plumbing of a loop, field by field.                *)

LEMMA QuietFields ==
    ASSUME NEW sources
    PROVE  Quiet \in Plumbing(sources)
  BY DEF Quiet, Plumbing

LEMMA EdgeFields ==
    ASSUME NEW sources, NEW q \in Plumbing(sources), NEW s \in sources
    PROVE  /\ Edge(q, s) \in Plumbing(sources)
           /\ Edge(q, s).ready = q.ready \union {s} /\ Edge(q, s).events = q.events
           /\ Edge(q, s).piped = q.piped /\ Edge(q, s).taken = q.taken
           /\ Edge(q, s).m_stop = q.m_stop
  BY DEF Edge, Plumbing

LEMMA ParentSigHandler ==
    ASSUME NEW q \in Plumbing({"sig", "listen"}), NEW S \in SUBSET Signals
    PROVE  /\ SigHandler(q, S) \in Plumbing({"sig", "listen"})
           /\ q.ready \subseteq SigHandler(q, S).ready
           /\ SigHandler(q, S).ready \subseteq q.ready \union {"sig"}
           /\ \A s \in S : "sig" \in SigHandler(q, S).ready
           /\ SigHandler(q, S).events = q.events
           /\ SigHandler(q, S).piped = q.piped \union S
           /\ SigHandler(q, S).taken = q.taken /\ SigHandler(q, S).m_stop = q.m_stop
  BY DEF SigHandler, Edge, Plumbing

LEMMA ChildSigHandler ==
    ASSUME NEW q \in Plumbing({"sig", "pipe", "client"}), NEW S \in SUBSET Signals
    PROVE  /\ SigHandler(q, S) \in Plumbing({"sig", "pipe", "client"})
           /\ q.ready \subseteq SigHandler(q, S).ready
           /\ SigHandler(q, S).ready \subseteq q.ready \union {"sig"}
           /\ \A s \in S : "sig" \in SigHandler(q, S).ready
           /\ SigHandler(q, S).events = q.events
           /\ SigHandler(q, S).piped = q.piped \union S
           /\ SigHandler(q, S).taken = q.taken /\ SigHandler(q, S).m_stop = q.m_stop
  BY DEF SigHandler, Edge, Plumbing

LEMMA ReportFields ==
    ASSUME NEW sources, NEW q \in Plumbing(sources)
    PROVE  /\ Report(q) \in Plumbing(sources)
           /\ Report(q).ready = {} /\ Report(q).events = q.ready
           /\ Report(q).piped = q.piped /\ Report(q).taken = q.taken
           /\ Report(q).m_stop = q.m_stop
  BY DEF Report, Plumbing

LEMMA TakeSignalsFields ==
    ASSUME NEW sources, NEW q \in Plumbing(sources)
    PROVE  LET r == TakeSignals(q)
           IN  /\ r \in Plumbing(sources)
               /\ r.ready = q.ready /\ r.events = q.events \ {"sig"}
               /\ r.piped = {} /\ r.taken = q.piped /\ r.m_stop = q.m_stop
  BY DEF TakeSignals, Plumbing

-----------------------------------------------------------------------------
(* Init establishes PoolInv, every action keeps it.                        *)

LEMMA InitPoolInv == Init => PoolInv
<1> SUFFICES ASSUME Init
             PROVE  PoolInv
    OBVIOUS
<1> USE PoolAssumption DEF Init, Children
<1>1. TypeOK
  BY QuietFields DEF TypeOK
<1>2. Counted /\ ClientHasUser /\ Born /\ Early
  BY DEF Counted, ClientHasUser, Born, Early, Zombies, Quiet
<1>3. NobodyLeft /\ BatchDone /\ PidIsOurs /\ ParentLast /\ ZombieSeen
  BY DEF NobodyLeft, BatchDone, PidIsOurs, ParentLast, ZombieSeen, ParentHandles, Quiet
<1>4. QED
  BY <1>1, <1>2, <1>3 DEF PoolInv

\* Connect, and the events of clients.
LEMMA ClientsPoolInv ==
    ASSUME PoolInv, Connect \/ \E i \in Children : ClientSends(i)
    PROVE  PoolInv'
<1> USE PoolAssumption DEF PoolInv, TypeOK, kernel, parent, children
<1>1. CASE Connect
  <2> USE <1>1 DEF Connect
  <2>1. p' \in Plumbing({"sig", "listen"}) /\ p'.events = p.events /\ p'.piped = p.piped
        /\ p'.taken = p.taken /\ p'.m_stop = p.m_stop /\ p.ready \subseteq p'.ready
        /\ (~ParentHandles => p' = p)
    BY EdgeFields
  <2>2. TypeOK'
    BY <2>1
  <2>3. Counted' /\ ClientHasUser' /\ Born' /\ Early'
    BY <2>1 DEF Counted, ClientHasUser, Born, Early, Zombies, ParentHandles
  <2>4. NobodyLeft' /\ BatchDone' /\ PidIsOurs' /\ ParentLast' /\ ZombieSeen'
    BY <2>1 DEF NobodyLeft, BatchDone, PidIsOurs, ParentLast, ZombieSeen, Zombies, ParentHandles
  <2>5. QED
    BY <2>2, <2>3, <2>4
<1>2. ASSUME NEW i \in Children, ClientSends(i)
      PROVE  PoolInv'
  <2> USE <1>2 DEF ClientSends
  <2>1. c[i] \in Plumbing({"sig", "pipe", "client"})
    OBVIOUS
  <2>2. c'[i] \in Plumbing({"sig", "pipe", "client"}) /\ c'[i].events = c[i].events
    BY <2>1, EdgeFields
  <2>3. TypeOK'
    BY <2>2
  <2>4. ppc \notin {"fork", "setup"}
    BY DEF Early
  <2>5. Counted' /\ ClientHasUser' /\ Born' /\ Early'
    BY <2>4 DEF Counted, ClientHasUser, Born, Early, Zombies
  <2>6. NobodyLeft' /\ BatchDone' /\ PidIsOurs' /\ ParentLast' /\ ZombieSeen'
    BY DEF NobodyLeft, BatchDone, PidIsOurs, ParentLast, ZombieSeen, Zombies, ParentHandles
  <2>7. QED
    BY <2>3, <2>5, <2>6
<1>3. QED
  BY <1>1, <1>2

\* SIGTERM to the children in S: the ones that end, and the loops of the others.
LEMMA SignalledFields ==
    ASSUME c \in [Children -> Plumbing({"sig", "pipe", "client"})], NEW S \in SUBSET Children
    PROVE  /\ Signalled(S) \in [Children -> Plumbing({"sig", "pipe", "client"})]
           /\ \A i \in Children :
                 IF i \in Terminated(S) THEN Signalled(S)[i] = Quiet
                 ELSE /\ Signalled(S)[i].events = c[i].events
                      /\ c[i].ready \subseteq Signalled(S)[i].ready
                      /\ Signalled(S)[i].ready \subseteq c[i].ready \union {"sig"}
                      /\ ~ChildRuns(i) => Signalled(S)[i] = c[i]
<1> DEFINE P == Plumbing({"sig", "pipe", "client"})
<1> DEFINE Good(i) ==
      IF i \in Terminated(S) THEN Signalled(S)[i] = Quiet
      ELSE /\ Signalled(S)[i].events = c[i].events
           /\ c[i].ready \subseteq Signalled(S)[i].ready
           /\ Signalled(S)[i].ready \subseteq c[i].ready \union {"sig"}
           /\ ~ChildRuns(i) => Signalled(S)[i] = c[i]
<1>1. ASSUME NEW i \in Children
      PROVE  Signalled(S)[i] \in P /\ Good(i)
  <2>1. Signalled(S)[i] = IF i \in Terminated(S) THEN Quiet
                          ELSE IF i \in S /\ ChildRuns(i) THEN SigHandler(c[i], {"TERM"})
                          ELSE c[i]
    BY DEF Signalled
  <2>2. c[i] \in P /\ {"TERM"} \in SUBSET Signals
    BY DEF Signals
  <2>3. Quiet \in P
    BY QuietFields
  <2>4. /\ SigHandler(c[i], {"TERM"}) \in P
        /\ c[i].ready \subseteq SigHandler(c[i], {"TERM"}).ready
        /\ SigHandler(c[i], {"TERM"}).ready \subseteq c[i].ready \union {"sig"}
        /\ SigHandler(c[i], {"TERM"}).events = c[i].events
    BY <2>2, ChildSigHandler
  <2>5. QED
    BY <2>1, <2>2, <2>3, <2>4
<1>2. Signalled(S) \in [Children -> P]
  <2>1. Signalled(S) = [i \in Children |-> Signalled(S)[i]]
    BY DEF Signalled
  <2>2. QED
    BY <1>1, <2>1
<1>3. QED
  BY <1>1, <1>2

\* kill and Ctrl-C.
LEMMA OperatorPoolInv ==
    ASSUME PoolInv, TermParent \/ Interrupt
    PROVE  PoolInv'
<1> USE PoolAssumption DEF PoolInv, TypeOK, kernel, parent, children
<1>1. CASE TermParent
  <2> USE <1>1 DEF TermParent
  <2>1. {"TERM"} \in SUBSET Signals
    BY DEF Signals
  <2>2. IF ParentHandles
        THEN /\ p' \in Plumbing({"sig", "listen"}) /\ ppc' = ppc
             /\ p'.events = p.events /\ p'.piped = p.piped \union {"TERM"}
             /\ p'.taken = p.taken /\ p'.m_stop = p.m_stop /\ p.ready \subseteq p'.ready
        ELSE p' = Quiet /\ ppc' = "killed"
    <3>1. p \in Plumbing({"sig", "listen"})
      OBVIOUS
    <3>2. IF ParentHandles THEN p' = SigHandler(p, {"TERM"}) /\ ppc' = ppc
                           ELSE p' = Quiet /\ ppc' = "killed"
      OBVIOUS
    <3>3. QED
      BY ONLY <2>1, <3>1, <3>2, ParentSigHandler
  <2>3. TypeOK'
    BY <2>2, QuietFields
  <2>4. Counted' /\ ClientHasUser' /\ Born' /\ Early'
    BY <2>2 DEF Counted, ClientHasUser, Born, Early, Zombies, ParentHandles
  <2>5. NobodyLeft' /\ BatchDone' /\ PidIsOurs' /\ ParentLast' /\ ZombieSeen'
    BY <2>2 DEF NobodyLeft, BatchDone, PidIsOurs, ParentLast, ZombieSeen, Zombies,
                ParentHandles, Quiet
  <2>6. QED
    BY <2>3, <2>4, <2>5
<1>2. CASE Interrupt
  <2> DEFINE T == Terminated(Children)
  <2> USE <1>2 DEF Interrupt
  <2>1. {"TERM"} \union Chld(T) \in SUBSET Signals
    BY DEF Signals, Chld
  <2>2. IF ParentHandles
        THEN /\ p' \in Plumbing({"sig", "listen"}) /\ ppc' = ppc
             /\ p'.events = p.events /\ p'.piped = p.piped \union {"TERM"} \union Chld(T)
             /\ p'.taken = p.taken /\ p'.m_stop = p.m_stop
             /\ "sig" \in p'.ready
        ELSE p' = Quiet /\ ppc' = "killed"
    <3>1. p \in Plumbing({"sig", "listen"})
      OBVIOUS
    <3>2. IF ParentHandles
          THEN p' = SigHandler(p, {"TERM"} \union Chld(T)) /\ ppc' = ppc
          ELSE p' = Quiet /\ ppc' = "killed"
      OBVIOUS
    <3>3. QED
      BY ONLY <2>1, <3>1, <3>2, ParentSigHandler
  <2>3. /\ c' \in [Children -> Plumbing({"sig", "pipe", "client"})]
        /\ \A i \in Children :
              IF i \in T THEN c'[i] = Quiet
              ELSE /\ c'[i].events = c[i].events
                   /\ c'[i].ready \subseteq c[i].ready \union {"sig"}
    BY SignalledFields
  <2>4. /\ \A i \in Children : i \in T <=> cpc[i] = "setup"
        /\ \A i \in Children : cpc'[i] = IF i \in T THEN "zombie" ELSE cpc[i]
        /\ \A i \in Children : users'[i] = IF i \in T THEN 0 ELSE users[i]
        /\ \A i \in Children : pipe'[i] = IF i \in T THEN 0 ELSE pipe[i]
        /\ ParentHandles => early' = early
    BY DEF Die, Terminated, ParentHandles
  <2>5. TypeOK'
    BY <2>2, <2>3, QuietFields DEF Die, Terminated
  <2>6. Counted' /\ ClientHasUser' /\ Born' /\ Early'
    BY <2>2, <2>3, <2>4 DEF Counted, ClientHasUser, Born, Early, Zombies, ParentHandles, Quiet
  <2>7. NobodyLeft' /\ BatchDone' /\ PidIsOurs' /\ ParentLast'
    BY <2>2, <2>4 DEF NobodyLeft, BatchDone, PidIsOurs, ParentLast, ParentHandles, Quiet
  <2>8. ZombieSeen'
    BY <2>2, <2>4 DEF ZombieSeen, Zombies, ParentHandles, Chld
  <2>9. QED
    BY <2>5, <2>6, <2>7, <2>8
<1>3. QED
  BY <1>1, <1>2

\* The constructor and setup_sig_pipe.
LEMMA StartPoolInv ==
    ASSUME PoolInv,
           \/ Fork \/ ForkFails \/ Forked \/ ParentSetup
           \/ \E i \in Children : ChildSetup(i)
    PROVE  PoolInv'
<1> USE PoolAssumption DEF PoolInv, TypeOK, kernel, parent, children
<1>1. CASE Fork
  <2> USE <1>1 DEF Fork
  <2>1. forked \in Children
    BY DEF Children
  <2>2. TypeOK'
    BY <2>1 DEF Children
  <2>3. Counted' /\ ClientHasUser' /\ Born' /\ Early'
    BY <2>1 DEF Counted, ClientHasUser, Born, Early, Zombies, Children
  <2>4. NobodyLeft' /\ BatchDone' /\ PidIsOurs' /\ ParentLast' /\ ZombieSeen'
    BY <2>1 DEF NobodyLeft, BatchDone, PidIsOurs, ParentLast, ZombieSeen, Zombies,
                ParentHandles, Early, Quiet
  <2>5. QED
    BY <2>2, <2>3, <2>4
<1>2. CASE ForkFails \/ Forked
  <2> USE <1>2 DEF ForkFails, Forked
  <2>1. TypeOK'
    OBVIOUS
  <2>2. Counted' /\ ClientHasUser' /\ Born' /\ Early'
    BY DEF Counted, ClientHasUser, Born, Early, Zombies
  <2>3. NobodyLeft' /\ BatchDone' /\ PidIsOurs' /\ ParentLast' /\ ZombieSeen'
    BY DEF NobodyLeft, BatchDone, PidIsOurs, ParentLast, ZombieSeen, Zombies, ParentHandles
  <2>4. QED
    BY <2>1, <2>2, <2>3
<1>3. CASE ParentSetup
  <2> USE <1>3 DEF ParentSetup
  <2>1. p' \in Plumbing({"sig", "listen"}) /\ p'.events = {} /\ p'.m_stop = FALSE
    BY EdgeFields DEF Early, Quiet
  <2>2. TypeOK'
    BY <2>1
  <2>3. Counted' /\ ClientHasUser' /\ Born' /\ Early'
    BY DEF Counted, ClientHasUser, Born, Early, Zombies
  <2>4. NobodyLeft' /\ BatchDone' /\ PidIsOurs' /\ ParentLast' /\ ZombieSeen'
    BY <2>1 DEF NobodyLeft, BatchDone, PidIsOurs, ParentLast, ZombieSeen, Zombies, Early,
           ParentHandles
  <2>5. QED
    BY <2>2, <2>3, <2>4
<1>4. ASSUME NEW i \in Children, ChildSetup(i)
      PROVE  PoolInv'
  <2> USE <1>4 DEF ChildSetup
  <2>1. c[i] \in Plumbing({"sig", "pipe", "client"})
    OBVIOUS
  <2>2. c'[i] \in Plumbing({"sig", "pipe", "client"}) /\ c'[i].events = c[i].events
        /\ ("client" \in c'[i].ready => "client" \in c[i].ready)
        /\ (pipe[i] = 0 => c' = c)
    BY <2>1, EdgeFields
  <2>3. TypeOK'
    BY <2>2
  <2>4. Counted' /\ ClientHasUser' /\ Born' /\ Early'
    BY <2>2 DEF Counted, ClientHasUser, Born, Early, Zombies
  <2>5. NobodyLeft' /\ BatchDone' /\ PidIsOurs' /\ ParentLast' /\ ZombieSeen'
    BY DEF NobodyLeft, BatchDone, PidIsOurs, ParentLast, ZombieSeen, Zombies, ParentHandles
  <2>6. QED
    BY <2>3, <2>4, <2>5
<1>5. QED
  BY <1>1, <1>2, <1>3, <1>4

\* sub_process_counter stays a number of a child.
LEMMA NextChild ==
    ASSUME NEW i \in Children
    PROVE  (i + 1) % N \in Children
  BY PoolAssumption, SMT DEF Children

\* The loop of the parent, except for its handling of signals.
LEMMA DispatchPoolInv ==
    ASSUME PoolInv,
           \/ ParentWait \/ DispatchNobody \/ SendNotice \/ ParentTake \/ ParentNext
           \/ \E i \in Children : Dispatch(i)
    PROVE  PoolInv'
<1> USE PoolAssumption DEF PoolInv, TypeOK, kernel, parent, children
<1>1. CASE ParentWait
  <2> USE <1>1 DEF ParentWait
  <2>1. /\ p' \in Plumbing({"sig", "listen"}) /\ p'.events = p.ready /\ p'.piped = p.piped
        /\ p'.taken = p.taken /\ p'.m_stop = p.m_stop
    BY ReportFields
  <2>2. TypeOK'
    BY <2>1
  <2>3. Counted' /\ ClientHasUser' /\ Born' /\ Early'
    BY DEF Counted, ClientHasUser, Born, Early, Zombies
  <2>4. NobodyLeft' /\ BatchDone' /\ PidIsOurs' /\ ParentLast' /\ ZombieSeen'
    BY <2>1 DEF NobodyLeft, BatchDone, PidIsOurs, ParentLast, ZombieSeen, Zombies, ParentHandles
  <2>5. QED
    BY <2>2, <2>3, <2>4
<1>2. CASE DispatchNobody
  <2> USE <1>2 DEF DispatchNobody
  <2>1. /\ p' \in Plumbing({"sig", "listen"})
        /\ \A i \in Children : cpc[i] \in {"unborn", "reaped"}
    BY DEF Plumbing, PidIsOurs
  <2>2. TypeOK'
    BY <2>1
  <2>3. Counted' /\ ClientHasUser' /\ Born' /\ Early'
    BY DEF Counted, ClientHasUser, Born, Early, Zombies
  <2>4. NobodyLeft' /\ BatchDone' /\ PidIsOurs' /\ ParentLast' /\ ZombieSeen'
    BY <2>1 DEF NobodyLeft, BatchDone, PidIsOurs, ParentLast, ZombieSeen, Zombies, ParentHandles
  <2>5. QED
    BY <2>2, <2>3, <2>4
<1>3. CASE SendNotice
  <2> USE <1>3 DEF SendNotice
  <2>1. c[target] \in Plumbing({"sig", "pipe", "client"})
    OBVIOUS
  <2>2. /\ c' \in [Children -> Plumbing({"sig", "pipe", "client"})]
        /\ \A i \in Children : /\ c'[i].events = c[i].events
                               /\ "client" \in c'[i].ready => "client" \in c[i].ready
    <3>1. /\ Edge(c[target], "pipe") \in Plumbing({"sig", "pipe", "client"})
          /\ Edge(c[target], "pipe").events = c[target].events
          /\ Edge(c[target], "pipe").ready = c[target].ready \union {"pipe"}
      BY <2>1, EdgeFields
    <3>2. c' = [c EXCEPT ![target] = Edge(@, "pipe")] \/ c' = c
      OBVIOUS
    <3>3. QED
      BY <3>1, <3>2
  <2>3. TypeOK'
    <3>1. pipe' \in [Children -> 0..PipeSize]
      OBVIOUS
    <3>2. 0 \in Children
      BY DEF Children
    <3>3. QED
      BY <2>2, <3>1, <3>2
  <2>4. Counted' /\ ClientHasUser' /\ Born' /\ Early'
    BY <2>2 DEF Counted, ClientHasUser, Born, Early, Zombies
  <2>5. NobodyLeft' /\ BatchDone' /\ PidIsOurs' /\ ParentLast' /\ ZombieSeen'
    BY DEF NobodyLeft, BatchDone, PidIsOurs, ParentLast, ZombieSeen, Zombies, ParentHandles
  <2>6. QED
    BY <2>3, <2>4, <2>5
<1>4. CASE ParentTake
  <2> USE <1>4 DEF ParentTake
  <2>1. /\ p' \in Plumbing({"sig", "listen"}) /\ p'.ready = p.ready
        /\ p'.taken = p.piped /\ p'.m_stop = p.m_stop /\ p.taken = {}
    BY TakeSignalsFields DEF Handling
  <2>2. TypeOK'
    BY <2>1
  <2>3. Counted' /\ ClientHasUser' /\ Born' /\ Early'
    BY DEF Counted, ClientHasUser, Born, Early, Zombies
  <2>4. NobodyLeft' /\ BatchDone' /\ PidIsOurs' /\ ParentLast' /\ ZombieSeen'
    BY <2>1 DEF NobodyLeft, BatchDone, PidIsOurs, ParentLast, ZombieSeen, Zombies, ParentHandles
  <2>5. QED
    BY <2>2, <2>3, <2>4
<1>5. CASE ParentNext
  <2> USE <1>5 DEF ParentNext
  <2>1. TypeOK'
    OBVIOUS
  <2>2. Counted' /\ ClientHasUser' /\ Born' /\ Early'
    BY DEF Counted, ClientHasUser, Born, Early, Zombies
  <2>3. NobodyLeft' /\ BatchDone' /\ PidIsOurs' /\ ParentLast' /\ ZombieSeen'
    BY DEF NobodyLeft, BatchDone, PidIsOurs, ParentLast, ZombieSeen, Zombies, ParentHandles,
           Born, Children
  <2>4. QED
    BY <2>1, <2>2, <2>3
<1>6. ASSUME NEW i \in Children, Dispatch(i)
      PROVE  PoolInv'
  <2> USE <1>6 DEF Dispatch
  <2>1. p' \in Plumbing({"sig", "listen"}) /\ p'.ready = p.ready /\ p'.piped = p.piped
        /\ p'.taken = p.taken /\ p'.m_stop = p.m_stop /\ p'.events = p.events \ {"listen"}
    BY DEF Plumbing
  <2>2. (i + 1) % N \in Children
    BY NextChild
  <2>3. TypeOK'
    BY <2>1, <2>2
  <2>4. Counted' /\ ClientHasUser' /\ Born' /\ Early'
    BY DEF Counted, ClientHasUser, Born, Early, Zombies
  <2>5. NobodyLeft' /\ BatchDone' /\ PidIsOurs' /\ ParentLast' /\ ZombieSeen'
    BY <2>1 DEF NobodyLeft, BatchDone, PidIsOurs, ParentLast, ZombieSeen, Zombies, ParentHandles
  <2>6. QED
    BY <2>3, <2>4, <2>5
<1>7. QED
  BY <1>1, <1>2, <1>3, <1>4, <1>5, <1>6

\* The parent handles the signals it has taken.
LEMMA SignalsPoolInv ==
    ASSUME PoolInv, Reap \/ KillAll
    PROVE  PoolInv'
<1> USE PoolAssumption DEF PoolInv, TypeOK, kernel, parent, children
<1>1. CASE Reap
  <2> USE <1>1 DEF Reap, Zombies
  <2>1. p' \in Plumbing({"sig", "listen"}) /\ p'.ready = p.ready /\ p'.piped = p.piped
        /\ p'.events = p.events /\ (p'.m_stop = \A i \in Children : ~m_pid'[i])
    BY DEF Plumbing
  <2>2. TypeOK'
    BY <2>1
  <2>3. Counted' /\ ClientHasUser' /\ Born' /\ Early'
    BY DEF Counted, ClientHasUser, Born, Early, Zombies
  <2>4. NobodyLeft' /\ BatchDone' /\ PidIsOurs' /\ ParentLast' /\ ZombieSeen'
    BY <2>1 DEF NobodyLeft, BatchDone, PidIsOurs, ParentLast, ZombieSeen, ParentHandles
  <2>5. QED
    BY <2>2, <2>3, <2>4
<1>2. CASE KillAll
  <2> DEFINE S == {i \in Children : m_pid[i]}
             T == Terminated(S)
             r == SigHandler(p, Chld(T))
  <2>0. /\ ppc = "batch" /\ "TERM" \in p.taken
        /\ c' = Signalled(S) /\ Die(T) /\ p' = [r EXCEPT !.taken = @ \ {"TERM"}]
        /\ UNCHANGED <<arrived, backlog, ppc, forked, m_pid, counter, target>>
    BY <1>2 DEF KillAll
  <2>1. /\ r \in Plumbing({"sig", "listen"}) /\ p.ready \subseteq r.ready
        /\ (T # {} => "sig" \in r.ready)
        /\ r.events = p.events /\ r.piped = p.piped \union Chld(T)
        /\ r.taken = p.taken /\ r.m_stop = p.m_stop
    <3>1. p \in Plumbing({"sig", "listen"}) /\ Chld(T) \in SUBSET Signals
      BY DEF Chld, Signals
    <3>2. T # {} => "CHLD" \in Chld(T)
      BY DEF Chld
    <3>3. QED
      BY ONLY <3>1, <3>2, ParentSigHandler
  <2>2. /\ p' \in Plumbing({"sig", "listen"}) /\ p'.ready = r.ready /\ p'.events = r.events
        /\ p'.piped = r.piped /\ p'.taken = r.taken \ {"TERM"} /\ p'.m_stop = r.m_stop
    BY <2>0, <2>1 DEF Plumbing
  <2>3. /\ c' \in [Children -> Plumbing({"sig", "pipe", "client"})]
        /\ \A i \in Children :
              IF i \in T THEN c'[i] = Quiet
              ELSE /\ c'[i].events = c[i].events
                   /\ c'[i].ready \subseteq c[i].ready \union {"sig"}
    BY <2>0, SignalledFields
  <2>4. /\ \A i \in Children : i \in T => cpc[i] = "setup"
        /\ \A i \in Children : cpc'[i] = IF i \in T THEN "zombie" ELSE cpc[i]
        /\ \A i \in Children : users'[i] = IF i \in T THEN 0 ELSE users[i]
        /\ \A i \in Children : pipe'[i] = IF i \in T THEN 0 ELSE pipe[i]
        /\ early' = early
    BY <2>0 DEF Die, Terminated
  <2> HIDE DEF T, S, r
  <2>5. TypeOK'
    BY <2>0, <2>2, <2>3 DEF Die
  <2>6. Counted' /\ ClientHasUser' /\ Born' /\ Early'
    BY <2>0, <2>3, <2>4 DEF Counted, ClientHasUser, Born, Early, Zombies, Quiet
  <2>7. NobodyLeft' /\ BatchDone' /\ PidIsOurs' /\ ParentLast'
    BY <2>0, <2>1, <2>2, <2>4 DEF NobodyLeft, BatchDone, PidIsOurs, ParentLast
  <2>8. ZombieSeen'
    <3>1. CASE T = {}
      BY <2>0, <2>1, <2>2, <2>4, <3>1 DEF ZombieSeen, Zombies, ParentHandles
    <3>2. CASE T # {}
      BY <2>0, <2>1, <2>2, <3>2 DEF ZombieSeen, Chld
    <3>3. QED
      BY <3>1, <3>2
  <2>9. QED
    BY <2>5, <2>6, <2>7, <2>8
<1>3. QED
  BY <1>1, <1>2

\* What T::process and recv of a signal do to the plumbing of the child.
LEMMA ChildProcessFields ==
    ASSUME NEW i \in Children, c \in [Children -> Plumbing({"sig", "pipe", "client"})],
           users \in [Children -> Nat], ChildProcess(i)
    PROVE  /\ c'[i] \in Plumbing({"sig", "pipe", "client"})
           /\ c'[i].events = c[i].events \ {"client"} /\ c'[i].ready \subseteq c[i].ready
           /\ "client" \in c'[i].ready => users'[i] # 0
           /\ \A j \in Children : j # i => c'[j] = c[j]
<1>1. PICK n \in {users[i], users[i] - 1} :
         /\ users' = [users EXCEPT ![i] = n]
         /\ c' = [c EXCEPT ![i].events = @ \ {"client"},
                           ![i].ready = @ \ {x \in {"client"} : n = 0}]
  BY DEF ChildProcess
<1>2. c[i] \in Plumbing({"sig", "pipe", "client"})
  OBVIOUS
<1>3. /\ c'[i] \in Plumbing({"sig", "pipe", "client"})
      /\ c'[i].events = c[i].events \ {"client"} /\ c'[i].ready \subseteq c[i].ready
      /\ "client" \in c'[i].ready => n # 0
  BY <1>1, <1>2 DEF Plumbing
<1>4. users'[i] = n
  BY <1>1
<1>5. \A j \in Children : j # i => c'[j] = c[j]
  BY <1>1
<1>6. QED
  BY <1>3, <1>4, <1>5

LEMMA ChildStopFields ==
    ASSUME NEW i \in Children, c \in [Children -> Plumbing({"sig", "pipe", "client"})],
           ChildStop(i)
    PROVE  /\ c'[i] \in Plumbing({"sig", "pipe", "client"})
           /\ c'[i].ready = c[i].ready /\ c'[i].events \subseteq c[i].events
           /\ \A j \in Children : j # i => c'[j] = c[j]
<1>1. PICK stop \in BOOLEAN :
         c' = [c EXCEPT ![i] = [TakeSignals(@) EXCEPT !.m_stop = stop, !.taken = {}]]
  <2>1. (c[i].m_stop \/ "TERM" \in c[i].piped) \in BOOLEAN
    OBVIOUS
  <2>2. QED
    BY <2>1 DEF ChildStop
<1>2. c'[i] = [TakeSignals(c[i]) EXCEPT !.m_stop = stop, !.taken = {}]
  BY <1>1
<1>3. /\ TakeSignals(c[i]) \in Plumbing({"sig", "pipe", "client"})
      /\ TakeSignals(c[i]).ready = c[i].ready /\ TakeSignals(c[i]).events \subseteq c[i].events
  <2>1. c[i] \in Plumbing({"sig", "pipe", "client"})
    OBVIOUS
  <2>2. QED
    BY ONLY <2>1, TakeSignalsFields
<1>4. /\ c'[i] \in Plumbing({"sig", "pipe", "client"})
      /\ c'[i].ready = c[i].ready /\ c'[i].events \subseteq c[i].events
  <2>1. CASE stop = TRUE
    BY ONLY <1>2, <1>3, <2>1 DEF Plumbing
  <2>2. CASE stop = FALSE
    BY ONLY <1>2, <1>3, <2>2 DEF Plumbing
  <2>3. QED
    BY <2>1, <2>2
<1>5. \A j \in Children : j # i => c'[j] = c[j]
  BY <1>1
<1>6. QED
  BY <1>4, <1>5

\* The loop of a child.
LEMMA ChildPoolInv ==
    ASSUME PoolInv, NEW i \in Children,
           \/ ChildWait(i) \/ ChildAccept(i) \/ ChildAcceptFails(i) \/ ChildProcess(i)
           \/ ChildStop(i) \/ ChildNext(i)
    PROVE  PoolInv'
<1> DEFINE P == Plumbing({"sig", "pipe", "client"})
<1> USE PoolAssumption DEF PoolInv, TypeOK, kernel, parent, children
<1>1. c[i] \in P
  OBVIOUS
<1>2. CASE ChildWait(i)
  <2> USE <1>2 DEF ChildWait
  <2>1. c'[i] \in P /\ c'[i].ready = {} /\ c'[i].events = c[i].ready
    BY <1>1, ReportFields
  <2>2. TypeOK'
    BY <2>1
  <2>3. ppc \notin {"fork", "setup"}
    BY DEF Early, Quiet
  <2>4. Counted' /\ ClientHasUser' /\ Born' /\ Early'
    BY <2>1, <2>3 DEF Counted, ClientHasUser, Born, Early
  <2>5. NobodyLeft' /\ BatchDone' /\ PidIsOurs' /\ ParentLast' /\ ZombieSeen'
    BY DEF NobodyLeft, BatchDone, PidIsOurs, ParentLast, ZombieSeen, Zombies, ParentHandles
  <2>6. QED
    BY <2>2, <2>4, <2>5
<1>3. CASE ChildAccept(i) \/ ChildAcceptFails(i)
  <2> USE <1>3 DEF ChildAccept, ChildAcceptFails, ChildHandling, Handling
  <2>1. c'[i] \in P /\ c'[i].ready = c[i].ready /\ c'[i].events \subseteq c[i].events
    <3>1. /\ c \in [Children -> P]
          /\ c' = [c EXCEPT ![i].events = @ \ {"pipe"}]
      OBVIOUS
    <3>2. QED
      BY ONLY <3>1, i \in Children DEF Plumbing
  <2>2. /\ arrived' \in 0..MaxClients /\ backlog' \in 0..arrived'
        /\ pipe' \in [Children -> 0..PipeSize] /\ users' \in [Children -> 0..MaxClients]
        /\ Counted'
    BY DEF Counted
  <2>3. TypeOK'
    BY <2>1, <2>2
  <2>4. ClientHasUser' /\ Born' /\ Early'
    BY <2>1 DEF ClientHasUser, Born, Early, Zombies, Quiet
  <2>5. NobodyLeft' /\ BatchDone' /\ PidIsOurs' /\ ParentLast' /\ ZombieSeen'
    BY DEF NobodyLeft, BatchDone, PidIsOurs, ParentLast, ZombieSeen, Zombies, ParentHandles
  <2>6. QED
    BY <2>2, <2>3, <2>4, <2>5
<1>4. CASE ChildProcess(i)
  <2> USE <1>4
  <2>1. users[i] \in 1..MaxClients
    BY DEF ClientHasUser, ChildProcess, Handling
  <2>2. /\ users' \in [Children -> 0..MaxClients] /\ users'[i] <= users[i]
        /\ \A j \in Children : j # i => users'[j] = users[j]
    BY <2>1 DEF ChildProcess
  <2>3. c'[i] \in P /\ c'[i].events = c[i].events \ {"client"}
        /\ c'[i].ready \subseteq c[i].ready /\ ("client" \in c'[i].ready => users'[i] # 0)
    <3>1. users \in [Children -> Nat]
      OBVIOUS
    <3>2. QED
      BY <3>1, ChildProcessFields
  <2> USE DEF ChildProcess
  <2>4. TypeOK'
    BY <2>2, <2>3
  <2>5. Counted' /\ ClientHasUser' /\ Born' /\ Early'
    BY <2>1, <2>2, <2>3 DEF Counted, ClientHasUser, Born, Early, Zombies
  <2>6. NobodyLeft' /\ BatchDone' /\ PidIsOurs' /\ ParentLast' /\ ZombieSeen'
    BY DEF NobodyLeft, BatchDone, PidIsOurs, ParentLast, ZombieSeen, Zombies, ParentHandles
  <2>7. QED
    BY <2>4, <2>5, <2>6
<1>5. CASE ChildStop(i)
  <2>1. c'[i] \in P /\ c'[i].ready = c[i].ready /\ c'[i].events \subseteq c[i].events
    BY <1>5, ChildStopFields
  <2> USE <1>5 DEF ChildStop
  <2>2. TypeOK'
    BY <2>1
  <2>3. Counted' /\ ClientHasUser' /\ Born' /\ Early'
    BY <2>1 DEF Counted, ClientHasUser, Born, Early, Zombies
  <2>4. NobodyLeft' /\ BatchDone' /\ PidIsOurs' /\ ParentLast' /\ ZombieSeen'
    BY DEF NobodyLeft, BatchDone, PidIsOurs, ParentLast, ZombieSeen, Zombies, ParentHandles
  <2>5. QED
    BY <2>2, <2>3, <2>4
<1>6. CASE ChildNext(i)
  <2> USE <1>6 DEF ChildNext
  <2>1. TypeOK'
    OBVIOUS
  <2>2. Counted' /\ ClientHasUser' /\ Born' /\ Early'
    BY DEF Counted, ClientHasUser, Born, Early, Zombies
  <2>3. NobodyLeft' /\ BatchDone' /\ PidIsOurs' /\ ParentLast' /\ ZombieSeen'
    BY DEF NobodyLeft, BatchDone, PidIsOurs, ParentLast, ZombieSeen, Zombies, ParentHandles
  <2>4. QED
    BY <2>1, <2>2, <2>3
<1>7. QED
  BY <1>2, <1>3, <1>4, <1>5, <1>6

\* A child ends, and the parent gets a SIGCHLD if it has a handler for it.
LEMMA ChildEndsPoolInv ==
    ASSUME PoolInv, NEW i \in Children, ChildCrashes(i) \/ ChildExits(i)
    PROVE  PoolInv'
<1> USE PoolAssumption DEF PoolInv, TypeOK, kernel, parent, children
<1>1. /\ cpc[i] \in {"setup", "wait", "batch"} /\ Die({i}) /\ c' = [c EXCEPT ![i] = Quiet]
      /\ p' = IF ParentHandles THEN SigHandler(p, {"CHLD"}) ELSE p
      /\ UNCHANGED <<arrived, backlog, ppc, forked, m_pid, counter, target>>
  BY DEF ChildCrashes, ChildExits
<1>2. /\ p' \in Plumbing({"sig", "listen"}) /\ p.ready \subseteq p'.ready
      /\ p'.events = p.events /\ p'.taken = p.taken /\ p'.m_stop = p.m_stop
      /\ ParentHandles => p'.piped = p.piped \union {"CHLD"} /\ "sig" \in p'.ready
      /\ ~ParentHandles => p' = p
  <2>1. p \in Plumbing({"sig", "listen"}) /\ {"CHLD"} \in SUBSET Signals
    BY DEF Signals
  <2>2. QED
    BY ONLY <1>1, <2>1, ParentSigHandler
<1>3. /\ cpc' = [cpc EXCEPT ![i] = "zombie"]
      /\ users' = [users EXCEPT ![i] = 0] /\ pipe' = [pipe EXCEPT ![i] = 0]
      /\ early' = IF ppc \in {"fork", "setup"} THEN early \union {i} ELSE early
  BY <1>1 DEF Die
<1>4. TypeOK'
  BY <1>1, <1>2, <1>3, QuietFields
<1>5. Counted' /\ ClientHasUser' /\ Born'
  BY <1>1, <1>2, <1>3 DEF Counted, ClientHasUser, Born, Quiet
<1>6. Early'
  BY <1>1, <1>2, <1>3 DEF Early, Zombies, ParentHandles
<1>7. NobodyLeft' /\ BatchDone' /\ PidIsOurs' /\ ParentLast'
  BY <1>1, <1>2, <1>3 DEF NobodyLeft, BatchDone, PidIsOurs, ParentLast
<1>8. ZombieSeen'
  BY <1>1, <1>2 DEF ZombieSeen, ParentHandles
<1>9. QED
  BY <1>4, <1>5, <1>6, <1>7, <1>8

LEMMA StutterPoolInv == ASSUME PoolInv, UNCHANGED vars PROVE PoolInv'
<1> USE DEF vars, kernel, parent, children, PoolInv
<1>1. TypeOK' /\ Counted' /\ ClientHasUser' /\ Born' /\ Early'
  BY DEF TypeOK, Counted, ClientHasUser, Born, Early, Zombies
<1>2. NobodyLeft' /\ BatchDone' /\ PidIsOurs' /\ ParentLast' /\ ZombieSeen'
  BY DEF NobodyLeft, BatchDone, PidIsOurs, ParentLast, ZombieSeen, Zombies, ParentHandles
<1>3. QED
  BY <1>1, <1>2

LEMMA NextPoolInv == PoolInv /\ [Next]_vars => PoolInv'
<1> SUFFICES ASSUME PoolInv, [Next]_vars
             PROVE  PoolInv'
    OBVIOUS
<1>1. CASE Connect \/ \E i \in Children : ClientSends(i)
  BY <1>1, ClientsPoolInv
<1>2. CASE TermParent \/ Interrupt
  BY <1>2, OperatorPoolInv
<1>3. CASE ForkFails
  BY <1>3, StartPoolInv
<1>4. CASE Parent
  BY <1>4, StartPoolInv, DispatchPoolInv, SignalsPoolInv DEF Parent
<1>5. CASE \E i \in Children : Child(i) \/ ChildAcceptFails(i) \/ ChildCrashes(i)
  BY <1>5, StartPoolInv, ChildPoolInv, ChildEndsPoolInv DEF Child
<1>6. CASE UNCHANGED vars
  BY <1>6, StutterPoolInv
<1>7. QED
  BY <1>1, <1>2, <1>3, <1>4, <1>5, <1>6 DEF Next

-----------------------------------------------------------------------------
(* The theorems that follow from PoolInv.                                  *)

THEOREM PoolInvariant == Spec => []PoolInv
  BY InitPoolInv, NextPoolInv, PTL DEF Spec

\* Types: in particular sub_process_counter and the child a notice is sent to are numbers
\* of children, and no child holds more clients than there are.
THEOREM TypeCorrect == Spec => []TypeOK
<1>1. PoolInv => TypeOK
  BY DEF PoolInv
<1>2. QED
  BY <1>1, PoolInvariant, PTL

\* kill and send reach children that were not waited for yet, and no other process, in
\* every order in which children end and signals arrive.
THEOREM PidsAreOurs == Spec => []PidIsOurs
<1>1. PoolInv => PidIsOurs
  BY DEF PoolInv
<1>2. QED
  BY <1>1, PoolInvariant, PTL

\* The parent leaves its loop as the last process of the pool.
THEOREM ParentIsLast == Spec => []ParentLast
<1>1. PoolInv => ParentLast
  BY DEF PoolInv
<1>2. QED
  BY <1>1, PoolInvariant, PTL

\* No child that has ended is forgotten, though SIGCHLDs are merged, wherever in its life it
\* ends, but for those that ended before the parent had its handler.
THEOREM ZombiesSeen == Spec => []ZombieSeen
<1>1. PoolInv => ZombieSeen
  BY DEF PoolInv
<1>2. QED
  BY <1>1, PoolInvariant, PTL

-----------------------------------------------------------------------------
(* How many notices there are.                                             *)

LEMMA NoticesFinite ==
    IsFiniteSet(Notices) /\ Cardinality(Notices) \in Nat
<1>1. IsFiniteSet(Children \X (1..PipeSize))
  <2>1. IsFiniteSet(Children) /\ IsFiniteSet(1..PipeSize)
    BY FS_Interval, PoolAssumption DEF Children
  <2>2. QED
    BY <2>1, FS_Product
<1>2. Notices \in SUBSET (Children \X (1..PipeSize))
  BY DEF Notices
<1>3. QED
  BY <1>1, <1>2, FS_Subset, FS_CardinalityType

\* No notice is added when no pipe gets longer.
LEMMA NoMoreNotices ==
    ASSUME pipe \in [Children -> 0..PipeSize], pipe' \in [Children -> 0..PipeSize],
           \A i \in Children : pipe'[i] <= pipe[i]
    PROVE  Cardinality(Notices') \in Nat /\ Cardinality(Notices') <= Cardinality(Notices)
<1>1. Notices' \in SUBSET Notices
  BY PoolAssumption DEF Notices
<1>2. QED
  BY <1>1, NoticesFinite, FS_Subset, FS_CardinalityType

LEMMA NoticeSent ==
    ASSUME pipe \in [Children -> 0..PipeSize], NEW i \in Children, pipe[i] < PipeSize,
           pipe' = [pipe EXCEPT ![i] = @ + 1]
    PROVE  Cardinality(Notices') = Cardinality(Notices) + 1
<1> DEFINE x == <<i, pipe[i] + 1>>
<1>1. x \notin Notices
  BY PoolAssumption DEF Notices
<1>2. Notices' = Notices \union {x}
  BY PoolAssumption DEF Notices
<1>3. QED
  BY <1>1, <1>2, NoticesFinite, FS_AddElement

LEMMA NoticeReceived ==
    ASSUME pipe \in [Children -> 0..PipeSize], NEW i \in Children, pipe[i] > 0,
           pipe' = [pipe EXCEPT ![i] = @ - 1]
    PROVE  Cardinality(Notices') = Cardinality(Notices) - 1
<1> DEFINE x == <<i, pipe[i]>>
<1>1. x \in Notices
  BY PoolAssumption DEF Notices
<1>2. Notices' = Notices \ {x}
  BY PoolAssumption DEF Notices
<1>3. QED
  BY <1>1, <1>2, NoticesFinite, FS_RemoveElement

-----------------------------------------------------------------------------
(* NoticeInv, relative to PoolInv.                                         *)

LEMMA InitNoticeInv == Init => NoticeInv
<1> SUFFICES ASSUME Init
             PROVE  NoticeInv
    OBVIOUS
<1>1. EdgesBacked
  BY DEF EdgesBacked, Init, Quiet
<1>2. Notices = {}
  BY PoolAssumption DEF Notices, Init
<1>3. NoticesCovered
  BY <1>2, FS_EmptySet DEF NoticesCovered, One, Init, Quiet
<1>4. QED
  BY <1>1, <1>3 DEF NoticeInv

\* The pipes do not get longer, the backlog does not get shorter, and the parent does not
\* learn of a client.
LEMMA NothingDue ==
    ASSUME TypeOK, TypeOK', NoticesCovered, backlog <= backlog',
           \A i \in Children : pipe'[i] <= pipe[i],
           ppc' # "killed" => /\ ppc # "killed"
                              /\ ppc' = "send" => ppc = "send"
                              /\ "listen" \in p'.ready => "listen" \in p.ready
                              /\ "listen" \in p'.events => "listen" \in p.events
    PROVE  NoticesCovered'
<1>1. Cardinality(Notices') \in Nat /\ Cardinality(Notices') <= Cardinality(Notices)
  BY NoMoreNotices DEF TypeOK
<1>2. Cardinality(Notices) \in Nat /\ backlog \in Nat /\ backlog' \in Nat
  BY NoticesFinite, PoolAssumption DEF TypeOK
<1>3. QED
  BY <1>1, <1>2 DEF NoticesCovered, One

LEMMA ClientsNoticeInv ==
    ASSUME PoolInv, PoolInv', NoticeInv,
           \/ Connect \/ TermParent \/ Interrupt
           \/ \E i \in Children : ClientSends(i)
    PROVE  NoticeInv'
<1> USE PoolAssumption DEF PoolInv, NoticeInv, TypeOK, kernel, parent, children
<1>1. CASE Connect
  <2> USE <1>1 DEF Connect
  <2>1. EdgesBacked'
    BY DEF EdgesBacked
  <2>2. Notices' = Notices
    BY DEF Notices
  <2>3. p'.events = p.events
    BY EdgeFields
  <2>4. NoticesCovered'
    BY <2>2, <2>3, NoticesFinite DEF NoticesCovered, One, ParentHandles
  <2>5. QED
    BY <2>1, <2>4
<1>2. CASE TermParent
  <2> USE <1>2 DEF TermParent
  <2>1. EdgesBacked'
    BY DEF EdgesBacked
  <2>2. ppc' # "killed" => /\ p'.events = p.events /\ ppc' = ppc
                           /\ p'.ready \subseteq p.ready \union {"sig"}
    <3>1. {"TERM"} \in SUBSET Signals /\ p \in Plumbing({"sig", "listen"})
      BY DEF Signals
    <3>2. ppc' # "killed" => p' = SigHandler(p, {"TERM"}) /\ ppc' = ppc
      OBVIOUS
    <3>3. QED
      BY ONLY <3>1, <3>2, ParentSigHandler
  <2>3. NoticesCovered'
    BY <2>2, NothingDue
  <2>4. QED
    BY <2>1, <2>3
<1>3. CASE Interrupt
  <2> USE <1>3 DEF Interrupt
  <2>1. ppc' # "killed" => /\ p'.events = p.events /\ ppc' = ppc
                           /\ p'.ready \subseteq p.ready \union {"sig"}
    <3> DEFINE S == {"TERM"} \union Chld(Terminated(Children))
    <3>1. S \in SUBSET Signals /\ p \in Plumbing({"sig", "listen"})
      BY DEF Signals, Chld
    <3>2. ppc' # "killed" => p' = SigHandler(p, S) /\ ppc' = ppc
      OBVIOUS
    <3>3. QED
      BY ONLY <3>1, <3>2, ParentSigHandler
  <2>2. \A i \in Children : pipe'[i] = IF i \in Terminated(Children) THEN 0 ELSE pipe[i]
    BY DEF Die
  <2>3. NoticesCovered'
    BY <2>1, <2>2, NothingDue
  <2>4. EdgesBacked'
    BY <2>2, SignalledFields DEF EdgesBacked, Die, Terminated, ChildRuns, Quiet
  <2>5. QED
    BY <2>3, <2>4
<1>4. ASSUME NEW i \in Children, ClientSends(i)
      PROVE  NoticeInv'
  <2> USE <1>4 DEF ClientSends
  <2>1. c'[i].ready = c[i].ready \union {"client"} /\ c'[i].events = c[i].events
    BY EdgeFields
  <2>2. EdgesBacked'
    BY <2>1 DEF EdgesBacked, ChildRuns
  <2>3. NoticesCovered'
    BY NothingDue
  <2>4. QED
    BY <2>2, <2>3
<1>5. QED
  BY <1>1, <1>2, <1>3, <1>4

LEMMA StartNoticeInv ==
    ASSUME PoolInv, PoolInv', NoticeInv,
           \/ Fork \/ ForkFails \/ Forked \/ ParentSetup
           \/ \E i \in Children : ChildSetup(i)
    PROVE  NoticeInv'
<1> USE PoolAssumption DEF PoolInv, NoticeInv, TypeOK, kernel, parent, children
<1>1. CASE Fork
  <2> USE <1>1 DEF Fork
  <2>1. EdgesBacked'
    BY DEF EdgesBacked, Born, Children
  <2>2. NoticesCovered'
    BY NothingDue
  <2>3. QED
    BY <2>1, <2>2
<1>2. CASE ForkFails \/ Forked
  <2> USE <1>2 DEF ForkFails, Forked
  <2>1. EdgesBacked'
    BY DEF EdgesBacked
  <2>2. NoticesCovered'
    BY NothingDue
  <2>3. QED
    BY <2>1, <2>2
<1>3. CASE ParentSetup
  <2> USE <1>3 DEF ParentSetup
  <2>1. EdgesBacked'
    BY DEF EdgesBacked
  <2>2. Notices' = {}
    BY DEF Early, Notices
  <2>3. p'.events = {} /\ (backlog = 0 => p'.ready = {})
    BY EdgeFields DEF Early, Quiet
  <2>4. NoticesCovered'
    BY <2>2, <2>3, FS_EmptySet DEF NoticesCovered, One
  <2>5. QED
    BY <2>1, <2>4
<1>4. ASSUME NEW i \in Children, ChildSetup(i)
      PROVE  NoticeInv'
  <2> USE <1>4 DEF ChildSetup
  <2>1. c[i] = Quiet /\ c[i] \in Plumbing({"sig", "pipe", "client"})
    BY DEF EdgesBacked
  <2>2. /\ Edge(c[i], "pipe").events = c[i].events
        /\ Edge(c[i], "pipe").ready = c[i].ready \union {"pipe"}
    BY <2>1, EdgeFields
  <2>3. c'[i].events = {} /\ c'[i].ready \subseteq {"pipe"} /\ (pipe[i] = 0 => c'[i].ready = {})
    BY <2>1, <2>2 DEF Quiet
  <2>4. EdgesBacked'
    BY <2>3 DEF EdgesBacked
  <2>5. NoticesCovered'
    BY NothingDue
  <2>6. QED
    BY <2>4, <2>5
<1>5. QED
  BY <1>1, <1>2, <1>3, <1>4

LEMMA DispatchNoticeInv ==
    ASSUME PoolInv, PoolInv', NoticeInv,
           \/ ParentWait \/ DispatchNobody \/ SendNotice \/ ParentTake \/ ParentNext
           \/ \E i \in Children : Dispatch(i)
    PROVE  NoticeInv'
<1> USE PoolAssumption DEF PoolInv, NoticeInv, TypeOK, kernel, parent, children
<1>1. ASSUME ~SendNotice
      PROVE  EdgesBacked'
  BY <1>1 DEF EdgesBacked, ParentWait, DispatchNobody, ParentTake, ParentNext, Dispatch
<1>2. ASSUME ~SendNotice
      PROVE  Notices' = Notices
  BY <1>2 DEF Notices, ParentWait, DispatchNobody, ParentTake, ParentNext, Dispatch
<1>3. CASE ParentWait
  <2> USE <1>3 DEF ParentWait
  <2>1. p'.ready = {} /\ p'.events = p.ready /\ p.events = {}
    BY ReportFields DEF BatchDone
  <2>2. NoticesCovered'
    BY <1>2, <2>1, NoticesFinite DEF NoticesCovered, One, SendNotice
  <2>3. QED
    BY <1>1, <2>2 DEF SendNotice
<1>4. CASE DispatchNobody \/ ParentTake \/ ParentNext
  <2> USE <1>4 DEF DispatchNobody, ParentTake, ParentNext
  <2>1. p'.ready = p.ready /\ p'.events \subseteq p.events
    <3>1. p \in Plumbing({"sig", "listen"})
      OBVIOUS
    <3>2. CASE ParentTake
      BY ONLY <3>1, <3>2, TakeSignalsFields DEF ParentTake
    <3>3. CASE DispatchNobody \/ ParentNext
      BY ONLY <3>1, <3>3 DEF DispatchNobody, ParentNext, Plumbing
    <3>4. QED
      BY <3>2, <3>3
  <2>2. NoticesCovered'
    BY <2>1, NothingDue
  <2>3. EdgesBacked'
    BY DEF EdgesBacked
  <2>4. QED
    BY <2>2, <2>3
<1>5. ASSUME NEW i \in Children, Dispatch(i)
      PROVE  NoticeInv'
  <2> USE <1>5 DEF Dispatch, Handling
  <2>1. p'.ready = p.ready /\ p'.events = p.events \ {"listen"}
    BY DEF Plumbing
  <2>2. NoticesCovered'
    BY <1>2, <2>1, NoticesFinite DEF NoticesCovered, One, SendNotice
  <2>3. QED
    BY <1>1, <2>2 DEF SendNotice
<1>6. CASE SendNotice
  <2> USE <1>6 DEF SendNotice
  <2>1. CASE cpc[target] = "zombie" /\ UNCHANGED <<pipe, c>>
    <3>1. EdgesBacked'
      BY <2>1 DEF EdgesBacked
    <3>2. NoticesCovered'
      BY <2>1, NothingDue
    <3>3. QED
      BY <3>1, <3>2
  <2>2. CASE /\ cpc[target] # "zombie" /\ pipe[target] < PipeSize
             /\ pipe' = [pipe EXCEPT ![target] = @ + 1]
             /\ c' = IF ChildRuns(target) THEN [c EXCEPT ![target] = Edge(@, "pipe")] ELSE c
    <3>1. Cardinality(Notices') = Cardinality(Notices) + 1
      BY <2>2, NoticeSent
    <3>2. NoticesCovered'
      BY <2>2, <3>1, NoticesFinite DEF NoticesCovered, One
    <3>3. c[target] \in Plumbing({"sig", "pipe", "client"})
      OBVIOUS
    <3>4. ChildRuns(target) => /\ c'[target].ready = c[target].ready \union {"pipe"}
                               /\ c'[target].events = c[target].events
      BY <2>2, <3>3, EdgeFields
    <3>5. EdgesBacked'
      BY <2>2, <3>4 DEF EdgesBacked, ChildRuns
    <3>6. QED
      BY <3>2, <3>5
  <2>3. QED
    BY <2>1, <2>2
<1>7. QED
  BY <1>3, <1>4, <1>5, <1>6

LEMMA SignalsNoticeInv ==
    ASSUME PoolInv, PoolInv', NoticeInv, Reap \/ KillAll
    PROVE  NoticeInv'
<1> USE PoolAssumption DEF PoolInv, NoticeInv, TypeOK, kernel, parent, children
<1>1. CASE Reap
  <2> USE <1>1 DEF Reap, Zombies
  <2>1. p'.ready = p.ready /\ p'.events = p.events
    BY DEF Plumbing
  <2>2. NoticesCovered'
    BY <2>1, NothingDue
  <2>3. EdgesBacked'
    BY DEF EdgesBacked
  <2>4. QED
    BY <2>2, <2>3
<1>2. CASE KillAll
  <2> DEFINE S == {i \in Children : m_pid[i]}
             T == Terminated(S)
             r == SigHandler(p, Chld(T))
  <2>1. /\ c' = Signalled(S) /\ Die(T) /\ p' = [r EXCEPT !.taken = @ \ {"TERM"}]
        /\ UNCHANGED <<arrived, backlog, ppc, forked, m_pid, counter, target>>
    BY <1>2 DEF KillAll
  <2>2. r \in Plumbing({"sig", "listen"}) /\ r.ready \subseteq p.ready \union {"sig"}
        /\ r.events = p.events
    <3>1. p \in Plumbing({"sig", "listen"}) /\ Chld(T) \in SUBSET Signals
      BY DEF Chld, Signals
    <3>2. QED
      BY ONLY <3>1, ParentSigHandler
  <2>3. p'.ready = r.ready /\ p'.events = r.events
    BY <2>1, <2>2 DEF Plumbing
  <2>4. \A i \in Children : pipe'[i] = IF i \in T THEN 0 ELSE pipe[i]
    BY <2>1 DEF Die
  <2>5. \A i \in Children : IF i \in T THEN c'[i] = Quiet /\ cpc'[i] = "zombie"
                           ELSE /\ c'[i].events = c[i].events /\ cpc'[i] = cpc[i]
                                /\ c'[i].ready \subseteq c[i].ready \union {"sig"}
                                /\ ~ChildRuns(i) => c'[i] = c[i]
    BY <2>1, SignalledFields DEF Die
  <2> HIDE DEF S, T, r
  <2>6. NoticesCovered'
    BY <2>1, <2>2, <2>3, <2>4, NothingDue
  <2>7. EdgesBacked'
    BY <2>4, <2>5 DEF EdgesBacked, ChildRuns, Quiet
  <2>8. QED
    BY <2>6, <2>7
<1>3. QED
  BY <1>1, <1>2

LEMMA ChildNoticeInv ==
    ASSUME PoolInv, PoolInv', NoticeInv, NEW i \in Children,
           \/ ChildWait(i) \/ ChildAccept(i) \/ ChildAcceptFails(i) \/ ChildProcess(i)
           \/ ChildStop(i) \/ ChildNext(i)
    PROVE  NoticeInv'
<1> DEFINE P == Plumbing({"sig", "pipe", "client"})
<1> USE PoolAssumption DEF PoolInv, NoticeInv, TypeOK, kernel, parent, children
<1>1. c[i] \in P
  OBVIOUS
<1>2. CASE ChildWait(i)
  <2> USE <1>2 DEF ChildWait
  <2>1. c'[i].ready = {} /\ c'[i].events = c[i].ready
    BY <1>1, ReportFields
  <2>2. EdgesBacked'
    BY <2>1 DEF EdgesBacked
  <2>3. NoticesCovered'
    BY NothingDue
  <2>4. QED
    BY <2>2, <2>3
<1>3. CASE ChildAccept(i) \/ ChildAcceptFails(i)
  <2> USE <1>3 DEF ChildAccept, ChildAcceptFails, ChildHandling, Handling
  <2>1. c'[i].ready = c[i].ready /\ c'[i].events = c[i].events \ {"pipe"}
    BY <1>1 DEF Plumbing
  <2>2. pipe[i] > 0 /\ pipe' = [pipe EXCEPT ![i] = @ - 1]
    BY DEF EdgesBacked
  <2>3. EdgesBacked'
    BY <2>1, <2>2 DEF EdgesBacked
  <2>4. Cardinality(Notices') = Cardinality(Notices) - 1
    BY <2>2, NoticeReceived
  <2>5. NoticesCovered'
    BY <2>4, NoticesFinite DEF NoticesCovered, One
  <2>6. QED
    BY <2>3, <2>5
<1>4. CASE ChildProcess(i) \/ ChildStop(i) \/ ChildNext(i)
  <2>1. UNCHANGED <<arrived, backlog, pipe, p, ppc>>
    BY <1>4 DEF ChildProcess, ChildStop, ChildNext
  <2>2. /\ c'[i].ready \subseteq c[i].ready /\ c'[i].events \subseteq c[i].events
        /\ \A j \in Children : j # i => c'[j] = c[j]
    <3>1. c \in [Children -> P] /\ users \in [Children -> Nat]
      OBVIOUS
    <3>2. CASE ChildProcess(i)
      BY ONLY <3>1, <3>2, ChildProcessFields, i \in Children
    <3>3. CASE ChildStop(i)
      BY ONLY <3>1, <3>3, ChildStopFields, i \in Children
    <3>4. CASE ChildNext(i)
      BY <3>4 DEF ChildNext
    <3>5. QED
      BY <1>4, <3>2, <3>3, <3>4
  <2>3. /\ cpc[i] = "batch" /\ (cpc'[i] = "batch" \/ (c'[i].events = {} /\ cpc'[i] = "wait"))
        /\ \A j \in Children : j # i => cpc'[j] = cpc[j]
    BY <1>4 DEF ChildProcess, ChildStop, ChildNext
  <2>4. EdgesBacked'
    BY <2>1, <2>2, <2>3 DEF EdgesBacked
  <2>5. NoticesCovered'
    BY <2>1, NothingDue
  <2>6. QED
    BY <2>4, <2>5
<1>5. QED
  BY <1>2, <1>3, <1>4

LEMMA ChildEndsNoticeInv ==
    ASSUME PoolInv, PoolInv', NoticeInv, NEW i \in Children, ChildCrashes(i) \/ ChildExits(i)
    PROVE  NoticeInv'
<1> USE PoolAssumption DEF PoolInv, NoticeInv, TypeOK, kernel, parent, children
<1>1. /\ Die({i}) /\ c' = [c EXCEPT ![i] = Quiet]
      /\ p' = IF ParentHandles THEN SigHandler(p, {"CHLD"}) ELSE p
      /\ UNCHANGED <<arrived, backlog, ppc>>
  BY DEF ChildCrashes, ChildExits
<1>2. p'.ready \subseteq p.ready \union {"sig"} /\ p'.events = p.events
  <2>1. p \in Plumbing({"sig", "listen"}) /\ {"CHLD"} \in SUBSET Signals
    BY DEF Signals
  <2>2. QED
    BY ONLY <1>1, <2>1, ParentSigHandler
<1>3. /\ cpc' = [cpc EXCEPT ![i] = "zombie"] /\ pipe' = [pipe EXCEPT ![i] = 0]
  BY <1>1 DEF Die
<1>4. EdgesBacked'
  BY <1>1, <1>3 DEF EdgesBacked, Quiet
<1>5. NoticesCovered'
  BY <1>1, <1>2, <1>3, NothingDue
<1>6. QED
  BY <1>4, <1>5

LEMMA NextNoticeInv == PoolInv /\ PoolInv' /\ NoticeInv /\ [Next]_vars => NoticeInv'
<1> SUFFICES ASSUME PoolInv, PoolInv', NoticeInv, [Next]_vars
             PROVE  NoticeInv'
    OBVIOUS
<1>1. CASE Connect \/ TermParent \/ Interrupt \/ \E i \in Children : ClientSends(i)
  BY <1>1, ClientsNoticeInv
<1>2. CASE ForkFails
  BY <1>2, StartNoticeInv
<1>3. CASE Parent
  BY <1>3, StartNoticeInv, DispatchNoticeInv, SignalsNoticeInv DEF Parent
<1>4. CASE \E i \in Children : Child(i) \/ ChildAcceptFails(i) \/ ChildCrashes(i)
  BY <1>4, StartNoticeInv, ChildNoticeInv, ChildEndsNoticeInv DEF Child
<1>5. CASE UNCHANGED vars
  BY <1>5 DEF NoticeInv, EdgesBacked, NoticesCovered, Notices, vars, kernel, parent, children
<1>6. QED
  BY <1>1, <1>2, <1>3, <1>4, <1>5 DEF Next

\* A notice is never without a client: however the edge triggered events are merged and
\* whichever child reads first, accept in a child does not find the backlog empty.
THEOREM NoticesAreCovered == Spec => []NoticesCovered
<1>1. Spec => []NoticeInv
  BY InitNoticeInv, NextNoticeInv, PoolInvariant, PTL DEF Spec
<1>2. NoticeInv => NoticesCovered
  BY DEF NoticeInv
<1>3. QED
  BY <1>1, <1>2, PTL
=============================================================================
