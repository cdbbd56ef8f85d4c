---------------------------- MODULE PollChatProofs ----------------------------
(***************************************************************************)
(* Proofs about PollChat, for any set of descriptors, any USER_LIMIT and   *)
(* any bounds on what clients do.                                          *)
(***************************************************************************)
EXTENDS PollChat, TLAPS

-----------------------------------------------------------------------------
(* The inductive invariant.                                                *)

Places == 1..UserLimit
Entry == [fd : Fds \union {None}, out : BOOLEAN, revents : SUBSET {"err", "rdhup", "in", "out"}]

\* Types; the loop is at an entry in use, and at the listening socket only with a client to
\* accept.
TypeOK ==
    /\ backlog \in 0..MaxBacklog /\ open \subseteq Fds
    /\ input \in [Fds -> 0..MaxInput] /\ hup \in [Fds -> {"no", "fin", "rst", "end"}]
    /\ user_counter \in 0..UserLimit /\ pos \in -1..user_counter
    /\ fds \in [Places -> Entry]
    /\ write_buf \in [Fds -> Fds \union {None, Unset}]
    /\ buf \in [Fds -> Fds \union {None, Unset}]
    /\ pos = 0 => backlog > 0

\* The entries are open connections, one each.  Only then is the entry that Remove moves
\* not one of the client that leaves, and only then are the client and the entry that Recv
\* and Write work on the same one.
RoomInv == TypeOK /\ EntriesAreOpen

-----------------------------------------------------------------------------
(* Lemmas about the loop.                                                  *)

\* ++i leaves the loop or leads to an entry in use.
LEMMA ForwardPos ==
    ASSUME TypeOK, pos # Polling, NEW n \in Nat, n >= user_counter, Forward(n)
    PROVE  pos' \in -1..n /\ pos' # 0
  BY PollAssumption DEF TypeOK, Forward, Polling

\* The entry an event is handled of, and its client.
LEMMA EntryAt ==
    ASSUME TypeOK, EntriesAreOpen, pos > 0
    PROVE  /\ pos \in 1..user_counter /\ pos \in Places
           /\ fds[pos].fd \in open /\ fds[pos].fd \in Fds
<1>1. pos \in 1..user_counter /\ pos \in Places
  BY PollAssumption DEF TypeOK, Places
<1>2. fds[pos].fd \in open
  BY <1>1 DEF EntriesAreOpen, Listed
<1>3. QED
  BY <1>1, <1>2 DEF TypeOK

\* What poll reports, and Tell, leave an entry an entry of the same connection.
LEMMA EntryFields ==
    ASSUME NEW e \in Entry, NEW f
    PROVE  /\ [e EXCEPT !.revents = Revents(e)] \in Entry
           /\ [e EXCEPT !.revents = Revents(e)].fd = e.fd
           /\ Tell(e, f) \in Entry /\ Tell(e, f).fd = e.fd
<1>1. Revents(e) \in SUBSET {"err", "rdhup", "in", "out"}
  BY DEF Revents
<1>2. QED
  BY <1>1 DEF Entry, Tell

\* Entries that change neither their place nor their connection.
LEMMA SameEntries ==
    ASSUME TypeOK, EntriesAreOpen, open' = open, user_counter' = user_counter,
           \A i \in 1..user_counter : fds'[i].fd = fds[i].fd
    PROVE  EntriesAreOpen'
<1>1. Listed' = Listed
  BY DEF Listed
<1>2. QED
  BY <1>1 DEF EntriesAreOpen

-----------------------------------------------------------------------------
(* RoomInv.                                                                *)

LEMMA InitRoomInv == Init => RoomInv
<1> SUFFICES ASSUME Init
             PROVE  RoomInv
    OBVIOUS
<1>1. TypeOK
  BY PollAssumption DEF Init, TypeOK, NoEntry, Entry, Places, Polling
<1>2. EntriesAreOpen
  BY DEF Init, EntriesAreOpen, Listed
<1>3. QED
  BY <1>1, <1>2 DEF RoomInv

\* What the clients do, and the steps of the server that leave the entries alone.
LEMMA LeaveEntries ==
    ASSUME RoomInv,
           \/ Connect \/ \E f \in Fds : Send(f) \/ HangUp(f) \/ Reset(f)
           \/ Pass \/ TooMany \/ PollErr \/ Write \/ NothingToWrite
    PROVE  RoomInv'
<1> USE PollAssumption DEF RoomInv, net, server
<1>1. open' = open /\ user_counter' = user_counter /\ fds' = fds
  BY DEF Connect, Send, HangUp, Reset, Pass, TooMany, PollErr, Write, NothingToWrite
<1>2. EntriesAreOpen'
  BY <1>1, SameEntries
<1>3. TypeOK'
  <2>1. CASE Connect \/ \E f \in Fds : Send(f) \/ HangUp(f) \/ Reset(f)
    BY <2>1 DEF TypeOK, Connect, Send, HangUp, Reset
  <2>2. CASE Pass
    BY <2>2, ForwardPos DEF TypeOK, Pass
  <2>3. CASE TooMany
    BY <2>3, ForwardPos DEF TypeOK, TooMany, Polling
  <2>4. CASE PollErr
    BY <2>4, ForwardPos, EntryAt DEF TypeOK, PollErr, Branch, Polling
  <2>5. CASE Write
    BY <2>5, ForwardPos DEF TypeOK, Write, Writes, Sent, Branch, Polling
  <2>6. CASE NothingToWrite
    BY <2>6, ForwardPos DEF TypeOK, NothingToWrite, Branch, Polling
  <2>7. QED
    BY <2>1, <2>2, <2>3, <2>4, <2>5, <2>6
<1>4. QED
  BY <1>2, <1>3

LEMMA PollRoomInv == ASSUME RoomInv, Poll PROVE RoomInv'
<1> USE PollAssumption DEF RoomInv, net, Poll
<1>1. fds' \in [Places -> Entry] /\ \A i \in 1..user_counter : fds'[i].fd = fds[i].fd
  <2>1. /\ fds' = [i \in Places |-> IF i <= user_counter
                                    THEN [fds[i] EXCEPT !.revents = Revents(fds[i])]
                                    ELSE fds[i]]
        /\ \A i \in Places : fds[i] \in Entry
        /\ 1..user_counter \subseteq Places /\ user_counter \in Nat
    BY DEF TypeOK, Places
  <2>2. QED
    BY ONLY <2>1, EntryFields DEF Places
<1>2. EntriesAreOpen'
  BY <1>1, SameEntries
<1>3. backlog = 0 => user_counter > 0
  BY DEF TypeOK
<1>4. TypeOK'
  BY <1>1, <1>3 DEF TypeOK
<1>5. QED
  BY <1>2, <1>4

LEMMA RecvRoomInv == ASSUME RoomInv, Recv PROVE RoomInv'
<1> USE PollAssumption DEF RoomInv, net, Recv
<1> DEFINE f == fds[pos].fd
<1>1. pos \in 1..user_counter /\ f \in Fds
  BY EntryAt DEF Branch
<1>2. /\ fds' \in [Places -> Entry]
      /\ \A i \in 1..user_counter : fds'[i].fd = fds[i].fd
  <2>1. /\ \/ fds' = fds
           \/ fds' = [i \in Places |-> IF i <= user_counter THEN Tell(fds[i], f) ELSE fds[i]]
        /\ fds \in [Places -> Entry] /\ \A i \in Places : fds[i] \in Entry
        /\ 1..user_counter \subseteq Places /\ user_counter \in Nat
    BY DEF TypeOK, Places
  <2> HIDE DEF f
  <2>2. \A i \in Places : Tell(fds[i], f) \in Entry /\ Tell(fds[i], f).fd = fds[i].fd
    BY ONLY <2>1, EntryFields
  <2>3. CASE fds' = fds
    BY ONLY <2>1, <2>3
  <2>4. CASE fds' = [i \in Places |-> IF i <= user_counter THEN Tell(fds[i], f) ELSE fds[i]]
    BY ONLY <2>1, <2>2, <2>4
  <2>5. QED
    BY ONLY <2>1, <2>3, <2>4
<1>3. EntriesAreOpen'
  BY <1>2, SameEntries
<1>4. /\ input' \in [Fds -> 0..MaxInput]
      /\ write_buf' \in [Fds -> Fds \union {None, Unset}]
      /\ buf' \in [Fds -> Fds \union {None, Unset}]
  <2>1. CASE input[f] > 0
    <3>1. PICK n \in 1..input[f] : input' = [input EXCEPT ![f] = @ - n]
      BY <2>1
    <3>2. input' \in [Fds -> 0..MaxInput]
      BY <1>1, <3>1 DEF TypeOK
    <3>3. QED
      BY <1>1, <2>1, <3>2 DEF TypeOK
  <2>2. CASE ~(input[f] > 0)
    BY <1>1, <2>2 DEF TypeOK
  <2>3. QED
    BY <2>1, <2>2
<1>5. pos' \in -1..user_counter /\ pos' # 0
  BY <1>1, ForwardPos DEF TypeOK, Polling
<1>6. TypeOK'
  BY <1>2, <1>4, <1>5 DEF TypeOK
<1>7. QED
  BY <1>3, <1>6

LEMMA AcceptRoomInv == ASSUME RoomInv, NEW f \in Fds, Accept(f) PROVE RoomInv'
<1> USE PollAssumption DEF RoomInv, Accept
<1> DEFINE n == user_counter + 1
<1>1. n \in Places /\ fds' = [fds EXCEPT ![n] = NewEntry(f)] /\ user_counter' = n
  BY DEF TypeOK, Places
<1>2. /\ fds' \in [Places -> Entry] /\ fds'[n].fd = f
      /\ \A i \in 1..user_counter : fds'[i] = fds[i]
  BY <1>1 DEF TypeOK, Places, Entry, NewEntry
<1>3. EntriesAreOpen'
  BY <1>1, <1>2 DEF TypeOK, EntriesAreOpen, Listed
<1>4. pos' \in -1..n /\ pos' # 0
  BY ForwardPos DEF TypeOK, Polling
<1>5. TypeOK'
  BY <1>1, <1>2, <1>4 DEF TypeOK
<1>6. QED
  BY <1>3, <1>5

\* A connection is closed: the entries are those before without the one it had.
LEMMA RemoveRoomInv ==
    ASSUME RoomInv, pos > 0, NEW texts \in [Fds -> Fds \union {None, Unset}], Remove(texts)
    PROVE  RoomInv'
<1> USE PollAssumption DEF RoomInv, Remove, LastEntry
<1> DEFINE f == fds[pos].fd
           last == fds[user_counter].fd
<1>1. pos \in 1..user_counter /\ pos \in Places /\ f \in open /\ f \in Fds
  BY EntryAt
<1>2. user_counter \in Places /\ last \in open /\ last \in Fds
  BY <1>1 DEF TypeOK, Places, EntriesAreOpen, Listed
<1>3. /\ fds' \in [Places -> Entry] /\ fds'[pos] = fds[user_counter]
      /\ \A i \in Places \ {pos} : fds'[i] = fds[i]
  BY <1>1, <1>2 DEF TypeOK
<1>4. user_counter' = user_counter - 1 /\ open' = open \ {f}
  OBVIOUS
<1>5. EntriesAreOpen'
  <2>1. ASSUME NEW i \in 1..(user_counter - 1)
        PROVE  /\ i \in Places /\ fds'[i].fd \in open'
               /\ fds'[i] = IF i = pos THEN fds[user_counter] ELSE fds[i]
    BY <1>1, <1>2, <1>3, <1>4 DEF TypeOK, Places, EntriesAreOpen, Listed
  <2>2. ASSUME NEW g \in open'
        PROVE  \E i \in 1..(user_counter - 1) : fds'[i].fd = g
    <3>1. PICK i \in 1..user_counter : fds[i].fd = g
      BY <1>4 DEF EntriesAreOpen, Listed
    <3>2. CASE i = user_counter
      BY <1>1, <1>3, <1>4, <3>1, <3>2 DEF TypeOK
    <3>3. CASE i # user_counter
      BY <1>1, <1>3, <1>4, <3>1, <3>3 DEF TypeOK, Places
    <3>4. QED
      BY <3>2, <3>3
  <2>3. ASSUME NEW i \in 1..(user_counter - 1), NEW j \in 1..(user_counter - 1),
               fds'[i].fd = fds'[j].fd
        PROVE  i = j
    BY <1>1, <2>1, <2>3 DEF TypeOK, EntriesAreOpen
  <2>4. Listed' = open'
    BY <1>4, <2>1, <2>2 DEF Listed
  <2>5. QED
    BY <1>4, <2>3, <2>4 DEF EntriesAreOpen
<1>6. /\ user_counter' \in 0..UserLimit /\ pos' \in -1..user_counter' /\ pos' # 0
  BY <1>1, <1>4 DEF TypeOK, Polling
<1>7. /\ write_buf' \in [Fds -> Fds \union {None, Unset}]
      /\ buf' \in [Fds -> Fds \union {None, Unset}]
      /\ input' \in [Fds -> 0..MaxInput] /\ hup' \in [Fds -> {"no", "fin", "rst", "end"}]
  BY <1>1, <1>2 DEF TypeOK
<1>8. TypeOK'
  BY <1>3, <1>4, <1>6, <1>7 DEF TypeOK
<1>9. QED
  BY <1>5, <1>8

LEMMA LeavingRoomInv == ASSUME RoomInv, Left \/ RecvFails PROVE RoomInv'
<1>1. pos > 0 /\ fds[pos].fd \in Fds
  BY EntryAt DEF RoomInv, Left, RecvFails, Branch
<1>2. PICK texts \in {buf, [buf EXCEPT ![fds[pos].fd] = None]} : Remove(texts)
  BY DEF Left, RecvFails
<1>3. texts \in [Fds -> Fds \union {None, Unset}]
  BY <1>1, <1>2 DEF RoomInv, TypeOK
<1>4. QED
  BY <1>1, <1>2, <1>3, RemoveRoomInv

LEMMA NextRoomInv == RoomInv /\ [Next]_vars => RoomInv'
<1> SUFFICES ASSUME RoomInv, [Next]_vars
             PROVE  RoomInv'
    OBVIOUS
<1>1. CASE Next
  BY <1>1, LeaveEntries, PollRoomInv, RecvRoomInv, AcceptRoomInv, LeavingRoomInv
     DEF Next, Server
<1>2. CASE UNCHANGED vars
  BY <1>2 DEF RoomInv, TypeOK, EntriesAreOpen, Listed, vars, net, server
<1>3. QED
  BY <1>1, <1>2

-----------------------------------------------------------------------------
(* The theorems.                                                           *)

THEOREM RoomInvariant == Spec => []RoomInv
  BY InitRoomInv, NextRoomInv, PTL DEF Spec

\* The entries poll is given are the open connections, each once, whatever entries are
\* moved while the loop goes over them.
THEOREM EntriesOpen == Spec => []EntriesAreOpen
<1>1. RoomInv => EntriesAreOpen
  BY DEF RoomInv
<1>2. QED
  BY <1>1, RoomInvariant, PTL

-----------------------------------------------------------------------------
(* PointerInv, relative to RoomInv.                                        *)

\* Entries and pointers that lead to the buffer of another client, or nowhere.
Others(f) == (Fds \ {f}) \union {None}

LEMMA LeavePointers ==
    ASSUME RoomInv, PointerIsAnothers,
           \/ Connect \/ \E f \in Fds : Send(f) \/ HangUp(f) \/ Reset(f)
           \/ Pass \/ TooMany \/ PollErr \/ Write \/ NothingToWrite
    PROVE  PointerIsAnothers'
<1>1. user_counter' = user_counter /\ fds' = fds
  BY DEF Connect, Send, HangUp, Reset, Pass, TooMany, PollErr, Write, NothingToWrite, net, server
<1>2. write_buf' = write_buf \/ \E f \in Fds : write_buf' = [write_buf EXCEPT ![f] = None]
  BY DEF Connect, Send, HangUp, Reset, Pass, TooMany, PollErr, Write, NothingToWrite, net,
         server, Sent
<1>3. write_buf \in [Fds -> Fds \union {None, Unset}]
  BY DEF RoomInv, TypeOK
<1>4. ASSUME NEW i \in 1..user_counter
      PROVE  fds[i].fd \in Fds
  BY DEF RoomInv, TypeOK, EntriesAreOpen, Listed
<1>5. QED
  BY <1>1, <1>2, <1>3, <1>4 DEF PointerIsAnothers

LEMMA PollPointers == ASSUME RoomInv, PointerIsAnothers, Poll PROVE PointerIsAnothers'
<1>1. \A i \in 1..user_counter : fds'[i].fd = fds[i].fd /\ fds'[i].out = fds[i].out
  BY PollAssumption DEF RoomInv, TypeOK, Places, Entry, Poll
<1>2. user_counter' = user_counter /\ write_buf' = write_buf
  BY DEF Poll
<1>3. QED
  BY <1>1, <1>2 DEF PointerIsAnothers

\* The writer of a text is not told.
LEMMA RecvPointers == ASSUME RoomInv, PointerIsAnothers, Recv PROVE PointerIsAnothers'
<1> DEFINE f == fds[pos].fd
<1>1. pos \in 1..user_counter /\ f \in Fds
  BY EntryAt DEF RoomInv, Recv, Branch
<1>2. user_counter' = user_counter
  BY DEF Recv
<1>3. CASE input[f] > 0
  <2>1. /\ write_buf' = [g \in Fds |-> IF g \in Told(f) THEN f ELSE write_buf[g]]
        /\ fds' = [i \in 1..UserLimit |-> IF i <= user_counter THEN Tell(fds[i], f)
                                                               ELSE fds[i]]
    BY <1>3 DEF Recv
  <2>2. ASSUME NEW i \in 1..user_counter, fds'[i].out
        PROVE  write_buf'[fds'[i].fd] \in Others(fds'[i].fd)
    <3>1. /\ i \in Places /\ fds[i] \in Entry /\ fds[i].fd \in Fds /\ fds[i].fd \in Listed
          /\ fds'[i] = Tell(fds[i], f)
      BY PollAssumption, <2>1 DEF RoomInv, TypeOK, Places, EntriesAreOpen, Listed
    <3>2. fds'[i].fd = fds[i].fd
      BY <3>1, EntryFields
    <3>3. CASE fds[i].fd = f
      BY <2>1, <2>2, <3>1, <3>2, <3>3 DEF PointerIsAnothers, Told, Tell, Others
    <3>4. CASE fds[i].fd # f
      BY <1>1, <2>1, <3>1, <3>2, <3>4 DEF Told, Others
    <3>5. QED
      BY <3>3, <3>4
  <2>3. QED
    BY <1>2, <2>2 DEF PointerIsAnothers, Others
<1>4. CASE ~(input[f] > 0)
  BY <1>4 DEF Recv, PointerIsAnothers
<1>5. QED
  BY <1>3, <1>4

LEMMA AcceptPointers ==
    ASSUME RoomInv, PointerIsAnothers, NEW f \in Fds, Accept(f)
    PROVE  PointerIsAnothers'
<1> DEFINE n == user_counter + 1
<1>1. n \in Places /\ user_counter \in Nat /\ fds \in [Places -> Entry]
  BY PollAssumption DEF RoomInv, TypeOK, Places, Accept
<1>2. fds' = [fds EXCEPT ![n] = NewEntry(f)] /\ user_counter' = n /\ write_buf' = write_buf
  BY DEF Accept
<1>3. ~fds'[n].out /\ \A i \in 1..user_counter : fds'[i] = fds[i]
  BY <1>1, <1>2 DEF NewEntry
<1>4. QED
  BY <1>1, <1>2, <1>3 DEF PointerIsAnothers

\* The client that is copied, and the entry that moves, are those of another connection
\* than the one that is closed: no entry leads to the client they are copied to.
LEMMA RemovePointers ==
    ASSUME RoomInv, PointerIsAnothers, pos > 0, NEW texts, Remove(texts)
    PROVE  PointerIsAnothers'
<1> DEFINE f == fds[pos].fd
<1>1. pos \in 1..user_counter /\ pos \in Places /\ f \in Fds
  BY EntryAt DEF RoomInv
<1>2. user_counter \in Places /\ user_counter \in Nat
  BY <1>1 DEF RoomInv, TypeOK, Places
<1>3. /\ fds' = [fds EXCEPT ![pos] = fds[user_counter]] /\ user_counter' = user_counter - 1
      /\ write_buf' = [write_buf EXCEPT ![f] = write_buf[fds[user_counter].fd]]
  BY DEF Remove, LastEntry
<1>4. ASSUME NEW i \in 1..(user_counter - 1), fds'[i].out
      PROVE  write_buf'[fds'[i].fd] \in Others(fds'[i].fd)
  <2>1. PICK j \in 1..user_counter : j # pos /\ fds'[i] = fds[j]
    <3>1. fds'[i] = IF i = pos THEN fds[user_counter] ELSE fds[i]
      BY <1>1, <1>2, <1>3 DEF RoomInv, TypeOK, Places
    <3>2. i \in 1..user_counter /\ user_counter \in 1..user_counter /\ i # user_counter
      BY <1>1, <1>2
    <3>3. QED
      BY <3>1, <3>2
  <2>2. fds[j].fd # f
    BY <1>1, <2>1 DEF RoomInv, EntriesAreOpen
  <2>3. write_buf'[fds[j].fd] = write_buf[fds[j].fd]
    BY <1>3, <2>2 DEF RoomInv, TypeOK
  <2>4. write_buf[fds[j].fd] \in Others(fds[j].fd)
    BY <1>4, <2>1 DEF PointerIsAnothers, Others
  <2>5. QED
    BY <2>1, <2>3, <2>4
<1>5. QED
  BY <1>3, <1>4 DEF PointerIsAnothers, Others

LEMMA LeavingPointers ==
    ASSUME RoomInv, PointerIsAnothers, Left \/ RecvFails
    PROVE  PointerIsAnothers'
<1>1. pos > 0
  BY DEF Left, RecvFails, Branch
<1>2. \E texts : Remove(texts)
  BY DEF Left, RecvFails
<1>3. QED
  BY <1>1, <1>2, RemovePointers

LEMMA NextPointers == RoomInv /\ PointerIsAnothers /\ [Next]_vars => PointerIsAnothers'
<1> SUFFICES ASSUME RoomInv, PointerIsAnothers, [Next]_vars
             PROVE  PointerIsAnothers'
    OBVIOUS
<1>1. CASE Next
  BY <1>1, LeavePointers, PollPointers, RecvPointers, AcceptPointers, LeavingPointers
     DEF Next, Server
<1>2. CASE UNCHANGED vars
  BY <1>2 DEF PointerIsAnothers, vars, net, server
<1>3. QED
  BY <1>1, <1>2

\* A client is sent the text of another client, or nothing: never an uninitialised pointer
\* and never its own text, though clients are copied from one descriptor to another.
THEOREM PointersAreOthers == Spec => []PointerIsAnothers
<1>1. Init => PointerIsAnothers
  BY DEF Init, PointerIsAnothers
<1>2. QED
  BY <1>1, NextPointers, RoomInvariant, PTL DEF Spec
=============================================================================
