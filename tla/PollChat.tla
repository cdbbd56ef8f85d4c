------------------------------- MODULE PollChat -------------------------------
(***************************************************************************)
(* The chat room of ch-09 (chat_room/server.cpp): one thread, one array of *)
(* poll entries, and a table of clients indexed by descriptor.  A text is  *)
(* not copied for its receivers: each gets a pointer to the buffer of the  *)
(* client that wrote it, and sends what is there when it can be written.   *)
(*                                                                         *)
(* A text is named by the descriptor of the client that wrote it.  The     *)
(* texts fit into the buffers and the send buffers of the sockets.         *)
(***************************************************************************)
EXTENDS Integers, FiniteSets

CONSTANTS Fds,         \* descriptors accept may return
          None,        \* the null pointer
          Unset,       \* what an uninitialised pointer or buffer holds
          UserLimit,   \* USER_LIMIT
          MaxBacklog,  \* bound: clients that wait to be accepted
          MaxInput     \* bound: texts waiting in a connection

ASSUME PollAssumption ==
    /\ IsFiniteSet(Fds) /\ None \notin Fds /\ Unset \notin Fds /\ None # Unset
    /\ UserLimit \in Nat \ {0} /\ MaxBacklog \in Nat /\ MaxInput \in Nat

VARIABLES
  \* the kernel
  backlog,
  open,          \* connections the server has not closed
  input, hup,    \* texts to read; what the client did: "no", "fin", "rst", "end" (rst seen)
  \* the server
  pos,           \* i of the loop over the entries, 0 only with POLLIN; Polling: in poll
  fds, user_counter,
  write_buf, buf \* of users

net == <<backlog, open, input, hup>>
server == <<pos, fds, user_counter, write_buf, buf>>
vars == <<net, server>>

Polling == -1
NoEntry == [fd |-> None, out |-> FALSE, revents |-> {}]
Listed == {fds[i].fd : i \in 1..user_counter}

Init ==
    /\ backlog = 0 /\ open = {}
    /\ input = [f \in Fds |-> 0] /\ hup = [f \in Fds |-> "no"]
    /\ pos = Polling
    /\ fds = [i \in 1..UserLimit |-> NoEntry] /\ user_counter = 0
    /\ write_buf = [f \in Fds |-> Unset] /\ buf = [f \in Fds |-> Unset]

-----------------------------------------------------------------------------
(* The clients.                                                            *)

Connect == /\ backlog < MaxBacklog
           /\ backlog' = backlog + 1
           /\ UNCHANGED <<open, input, hup, server>>

Send(f) == /\ f \in open /\ hup[f] = "no" /\ input[f] < MaxInput
           /\ input' = [input EXCEPT ![f] = @ + 1]
           /\ UNCHANGED <<backlog, open, hup, server>>

HangUp(f) == /\ f \in open /\ hup[f] = "no"
             /\ hup' = [hup EXCEPT ![f] = "fin"]
             /\ UNCHANGED <<backlog, open, input, server>>

Reset(f) == /\ f \in open /\ hup[f] \in {"no", "fin"}
            /\ hup' = [hup EXCEPT ![f] = "rst"]
            /\ input' = [input EXCEPT ![f] = 0]
            /\ UNCHANGED <<backlog, open, server>>

-----------------------------------------------------------------------------
(* poll.                                                                   *)

\* Slip: POLLRDHUP is not asked for.
ReventsNoHup(e) == {b \in {"err", "in", "out"} :
    \/ b = "err" /\ hup[e.fd] = "rst"
    \/ b = "in" /\ (input[e.fd] > 0 \/ hup[e.fd] # "no")
    \/ b = "out" /\ e.out}

\* What is reported of an entry: a reset connection can be read, and is at its end.
Revents(e) == {b \in {"err", "rdhup", "in", "out"} :
    \/ b = "err" /\ hup[e.fd] = "rst"
    \/ b = "rdhup" /\ hup[e.fd] # "no"
    \/ b = "in" /\ (input[e.fd] > 0 \/ hup[e.fd] # "no")
    \/ b = "out" /\ e.out}

Poll == /\ pos = Polling
        /\ fds' = [i \in 1..UserLimit |-> IF i <= user_counter
                                          THEN [fds[i] EXCEPT !.revents = Revents(fds[i])]
                                          ELSE fds[i]]
        /\ backlog > 0 \/ \E i \in 1..user_counter : fds'[i].revents # {}
        /\ pos' = IF backlog > 0 THEN 0 ELSE 1
        /\ UNCHANGED <<net, user_counter, write_buf, buf>>

-----------------------------------------------------------------------------
(* The loop over the entries.                                              *)

\* ++i, and poll again after the last entry.
Forward(n) == pos' = IF pos < n THEN pos + 1 ELSE Polling

\* b is the first of the events that are tested that was reported of the entry.
Branch(b, tested) == /\ pos > 0 /\ b \in fds[pos].revents
                     /\ fds[pos].revents \intersect tested = {}

\* No branch, or accept has failed.
Pass == /\ pos # Polling
        /\ pos > 0 => fds[pos].revents = {}
        /\ Forward(user_counter)
        /\ UNCHANGED <<net, fds, user_counter, write_buf, buf>>

TooMany == /\ pos = 0 /\ user_counter >= UserLimit
           /\ backlog' = backlog - 1
           /\ Forward(user_counter)
           /\ UNCHANGED <<open, input, hup, fds, user_counter, write_buf, buf>>

NewEntry(f) == [fd |-> f, out |-> FALSE, revents |-> {}]

Accept(f) == /\ pos = 0 /\ user_counter < UserLimit /\ f \notin open
             /\ backlog' = backlog - 1
             /\ open' = open \union {f}
             /\ user_counter' = user_counter + 1
             /\ fds' = [fds EXCEPT ![user_counter + 1] = NewEntry(f)]
             /\ Forward(user_counter + 1)
             /\ UNCHANGED <<input, hup, write_buf, buf>>

\* getsockopt takes the error away.
PollErr == /\ Branch("err", {})
           /\ hup' = [hup EXCEPT ![fds[pos].fd] = IF @ = "rst" THEN "end" ELSE @]
           /\ Forward(user_counter)
           /\ UNCHANGED <<backlog, open, input, fds, user_counter, write_buf, buf>>

\* Slip: the users are counted down before the last entry is moved.
LastEntryLate == fds[IF user_counter > 1 THEN user_counter - 1 ELSE 1]

LastEntry == fds[user_counter]

\* The connection of this entry is closed, and the last entry takes its place and is
\* handled next; the client of the last entry is copied to the descriptor that is free now.
\* texts is what the buffers hold then.
Remove(texts) ==
    LET f == fds[pos].fd
        last == fds[user_counter].fd
    IN /\ open' = open \ {f}
       /\ input' = [input EXCEPT ![f] = 0] /\ hup' = [hup EXCEPT ![f] = "no"]
       /\ write_buf' = [write_buf EXCEPT ![f] = write_buf[last]]
       /\ buf' = [texts EXCEPT ![f] = texts[last]]
       /\ fds' = [fds EXCEPT ![pos] = LastEntry]
       /\ user_counter' = user_counter - 1
       /\ pos' = IF pos < user_counter THEN pos ELSE Polling
       /\ UNCHANGED backlog

Left == Branch("rdhup", {"err"}) /\ Remove(buf)

\* The connection was reset after poll; the buffer is clear already.
RecvFails == /\ Branch("in", {"err", "rdhup"}) /\ hup[fds[pos].fd] = "rst"
             /\ Remove([buf EXCEPT ![fds[pos].fd] = None])

\* Slip: the writer is told, too.
ToldAll(f) == Listed

\* Who is told of a text.
Told(f) == Listed \ {f}

\* events |= ~POLLIN sets every other bit; it stays, as events |= ~POLLOUT clears none.
Tell(e, f) == IF e.fd \in Told(f) THEN [e EXCEPT !.out = TRUE] ELSE e

\* recv, which may find nothing; a text is pointed to by the clients of all other entries.
Recv ==
    LET f == fds[pos].fd
    IN /\ Branch("in", {"err", "rdhup"}) /\ hup[f] # "rst"
       /\ IF input[f] > 0
          THEN /\ \E n \in 1..input[f] : input' = [input EXCEPT ![f] = @ - n]
               /\ buf' = [buf EXCEPT ![f] = f]
               /\ write_buf' = [g \in Fds |-> IF g \in Told(f) THEN f ELSE write_buf[g]]
               /\ fds' = [i \in 1..UserLimit |-> IF i <= user_counter THEN Tell(fds[i], f)
                                                                      ELSE fds[i]]
          ELSE /\ buf' = [buf EXCEPT ![f] = None]
               /\ UNCHANGED <<input, write_buf, fds>>
       /\ Forward(user_counter)
       /\ UNCHANGED <<backlog, open, hup, user_counter>>

Writes(f) == Branch("out", {"err", "rdhup", "in"}) /\ fds[pos].fd = f /\ write_buf[f] # None

\* Slip: the pointer is not reset when it has been used.
SentAgain(f) == write_buf

Sent(f) == [write_buf EXCEPT ![f] = None]

\* send, which takes the error of a connection that was reset after poll.
Write == \E f \in Fds :
    /\ Writes(f)
    /\ write_buf' = Sent(f)
    /\ hup' = [hup EXCEPT ![f] = IF @ = "rst" THEN "end" ELSE @]
    /\ Forward(user_counter)
    /\ UNCHANGED <<backlog, open, input, fds, user_counter, buf>>

NothingToWrite == /\ Branch("out", {"err", "rdhup", "in"})
                  /\ write_buf[fds[pos].fd] = None
                  /\ Forward(user_counter)
                  /\ UNCHANGED <<net, fds, user_counter, write_buf, buf>>

Server == \/ Poll \/ Pass \/ TooMany \/ PollErr \/ Left \/ RecvFails \/ Recv \/ Write
          \/ NothingToWrite
          \/ \E f \in Fds : Accept(f)

Next == \/ Connect \/ Server
        \/ \E f \in Fds : Send(f) \/ HangUp(f) \/ Reset(f)

\* The server is scheduled; accept does not fail for ever.
Spec == Init /\ [][Next]_vars /\ WF_vars(Server)

-----------------------------------------------------------------------------
(* Correctness.                                                            *)

\* Whatever entries are moved within a round, the first user_counter entries are the open
\* connections, each once: none is polled twice, forgotten, or polled when closed.
EntriesAreOpen ==
    /\ Listed = open
    /\ \A i, j \in 1..user_counter : fds[i].fd = fds[j].fd => i = j

\* An entry is asked whether it can be written to only when write_buf of its client was
\* set, and it never leads to the buffer of the client itself; though clients are not
\* initialised, share buffers, and are copied to other descriptors when one leaves.
PointerIsAnothers ==
    \A i \in 1..user_counter :
        fds[i].out => write_buf[fds[i].fd] \in (Fds \ {fds[i].fd}) \union {None}

\* A client that hangs up, or is reset, is removed.
LeftIsRemoved == \A f \in Fds : hup[f] # "no" ~> hup[f] = "no"

\* The entry of f asks for POLLOUT, and its client has something to send.
Due(f) == \E i \in 1..user_counter : fds[i].fd = f /\ fds[i].out /\ write_buf[f] \in Fds

\* What is due to a client is sent, or the client leaves, unless it writes for ever itself:
\* the branch of POLLIN comes before that of POLLOUT.
DueIsSent == \A f \in Fds : <>[](input[f] = 0) => (Due(f) ~> ~Due(f))
=============================================================================
