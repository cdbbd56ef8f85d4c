---------------------------- MODULE ChatRoomProofs ----------------------------
(***************************************************************************)
(* Proofs about ChatRoom, for any set of pids, any USER_LIMIT, any size of *)
(* the socket pairs and any bounds on what clients do.                     *)
(***************************************************************************)
EXTENDS ChatRoom, TLAPS

-----------------------------------------------------------------------------
(* The inductive invariant.                                                *)

\* The ready lists say something: a client waits behind edge, a notice in the pipe of a
\* child behind "pipe".
Edges == /\ edge => backlog > 0
         /\ \A p \in Pids : "pipe" \in cready[p] => down[p] # << >>

\* The places of users in use hold pids.
PlacesUsed == \A i \in 0..(user_count - 1) : users[i] \in Pids

\* The types alone are not inductive: Accept and ChildSends need Edges, and Reaped needs
\* UsersAreChildren, from which the child that has ended has a place in users.
RoomInv == TypeOK /\ Edges /\ PlacesUsed /\ UsersAreChildren

-----------------------------------------------------------------------------
(* Lemmas about signals and notices.                                       *)

\* A signal that is raised is in the pipe after the ones before it.
LEMMA RaisedSignals ==
    ASSUME signals \in Seq({"CHLD", "TERM"}), NEW sig \in {"CHLD", "TERM"}
    PROVE  /\ Raised(sig) \in Seq({"CHLD", "TERM"})
           /\ \A i \in 1..Len(signals) : i \in 1..Len(Raised(sig)) /\ Raised(sig)[i] = signals[i]
           /\ ppc # "stopped" => \E i \in 1..Len(Raised(sig)) : Raised(sig)[i] = sig
<1>1. CASE Raised(sig) = signals
  BY <1>1 DEF Raised
<1>2. CASE Raised(sig) = Append(signals, sig)
  <2>1. Len(Raised(sig)) = Len(signals) + 1 /\ Raised(sig)[Len(signals) + 1] = sig
    BY <1>2
  <2>2. QED
    BY <1>2, <2>1
<1>3. QED
  BY <1>1, <1>2 DEF Raised

\* When the first signal is taken the others stay.
LEMMA TailSignals ==
    ASSUME NEW s \in Seq({"CHLD", "TERM"}), s # << >>
    PROVE  /\ Tail(s) \in Seq({"CHLD", "TERM"})
           /\ \A i \in 2..Len(s) : i - 1 \in 1..Len(Tail(s)) /\ Tail(s)[i - 1] = s[i]
  OBVIOUS

\* SigTerm takes the first signal, and adds at most one.
LEMMA SigTermSignals ==
    ASSUME SigTerm
    PROVE  \E more \in Seq({"CHLD", "TERM"}) : signals' = Tail(signals) \o more
<1>1. <<"TERM">> \in Seq({"CHLD", "TERM"}) /\ << >> \in Seq({"CHLD", "TERM"})
  OBVIOUS
<1>2. CASE signals' = Tail(signals) \o <<"TERM">>
  BY <1>1, <1>2
<1>3. CASE signals' = Tail(signals) \o << >>
  BY <1>1, <1>3
<1>4. QED
  BY <1>2, <1>3 DEF SigTerm

LEMMA AppendNotice ==
    ASSUME NEW s \in Seq(Numbers), NEW n \in Numbers
    PROVE  Append(s, n) \in Seq(Numbers) /\ Append(s, n) # << >>
<1>1. Append(s, n) \in Seq(Numbers)
  OBVIOUS
<1>2. Len(Append(s, n)) = Len(s) + 1 /\ Len(s) \in Nat
  OBVIOUS
<1>3. Len(<< >>) = 0
  OBVIOUS
<1>4. QED
  BY <1>1, <1>2, <1>3

\* What changes neither the table of users nor which children there are.
LEMMA SameTable ==
    ASSUME TypeOK, PlacesUsed, UsersAreChildren, UNCHANGED table,
           ppc = "stopped" => ppc' = "stopped",
           \A p \in Pids : proc'[p] = "free" <=> proc[p] = "free"
    PROVE  PlacesUsed' /\ UsersAreChildren'
<1>1. Users' = Users
  BY DEF Users, table
<1>2. {p \in Pids : proc'[p] # "free"} = {p \in Pids : proc[p] # "free"}
  OBVIOUS
<1>3. QED
  BY <1>1, <1>2 DEF UsersAreChildren, PlacesUsed, table

-----------------------------------------------------------------------------
(* Init establishes RoomInv, every action keeps it.                        *)

LEMMA InitRoomInv == Init => RoomInv
<1> SUFFICES ASSUME Init
             PROVE  RoomInv
    OBVIOUS
<1>1. TypeOK
  <2>1. 0 \in Numbers /\ << >> \in Seq(Numbers) /\ << >> \in Seq({"CHLD", "TERM"})
    BY ChatAssumption DEF Numbers
  <2>2. /\ users \in [0..UserLimit -> Pids \union {None}] /\ user_count \in 0..UserLimit
        /\ sub_process \in [Pids -> -1..UserLimit]
    BY ChatAssumption DEF Init
  <2>3. /\ backlog \in 0..MaxBacklog /\ input \in [Pids -> 0..MaxInput]
        /\ up \in [Pids -> 0..PipeSize]
    BY ChatAssumption DEF Init
  <2>4. QED
    BY <2>1, <2>2, <2>3 DEF Init, TypeOK
<1>2. Edges /\ PlacesUsed
  BY DEF Init, Edges, PlacesUsed
<1>3. UsersAreChildren
  BY DEF Init, UsersAreChildren, Users
<1>4. QED
  BY <1>1, <1>2, <1>3 DEF RoomInv

\* The clients, and SIGTERM from outside.
LEMMA OutsideRoomInv ==
    ASSUME RoomInv, Connect \/ Terminate \/ \E p \in Pids : Send(p) \/ HangUp(p)
    PROVE  RoomInv'
<1> USE ChatAssumption DEF RoomInv, socket, child, table, flags
<1>1. UNCHANGED <<proc, table, ppc, idx, stop_child, up, down, flags>>
  BY DEF Connect, Terminate, Send, HangUp, Arrives
<1>2. PlacesUsed' /\ UsersAreChildren'
  BY <1>1, SameTable
<1>3. CASE Connect
  BY <1>2, <1>3 DEF Connect, TypeOK, Edges
<1>4. CASE Terminate
  BY <1>2, <1>4, RaisedSignals DEF Terminate, TypeOK, Edges
<1>5. ASSUME NEW p \in Pids, Send(p) \/ HangUp(p)
      PROVE  RoomInv'
  <2>1. /\ cready' = [cready EXCEPT ![p] = @ \union {"conn"}]
        /\ UNCHANGED <<backlog, edge, signals, ready, down>>
        /\ \/ input' = input /\ hup' = [hup EXCEPT ![p] = TRUE]
           \/ input[p] < MaxInput /\ input' = [input EXCEPT ![p] = @ + 1] /\ hup' = hup
    BY <1>5 DEF Send, HangUp, Arrives
  <2>2. TypeOK'
    <3>1. cready' \in [Pids -> SUBSET {"conn", "pipe"}]
      BY <2>1 DEF TypeOK
    <3>2. hup' \in [Pids -> BOOLEAN]
      BY <2>1 DEF TypeOK
    <3>3. input' \in [Pids -> 0..MaxInput]
      <4>1. CASE input' = input
        BY <4>1 DEF TypeOK
      <4>2. CASE input[p] < MaxInput /\ input' = [input EXCEPT ![p] = @ + 1]
        <5>1. input[p] + 1 \in 0..MaxInput
          BY <4>2 DEF TypeOK
        <5>2. QED
          BY <4>2, <5>1 DEF TypeOK
      <4>3. QED
        BY <2>1, <4>1, <4>2
    <3>4. QED
      BY <1>1, <2>1, <3>1, <3>2, <3>3 DEF TypeOK
  <2>3. Edges'
    BY <2>1 DEF TypeOK, Edges
  <2>4. QED
    BY <1>2, <2>2, <2>3
<1>6. QED
  BY <1>3, <1>4, <1>5

\* A child, up to its end.
LEMMA ChildRoomInv ==
    ASSUME RoomInv, NEW p \in Pids,
           \/ ChildCloses(p) \/ ChildStarts(p) \/ ChildWaits(p) \/ ChildRound(p)
           \/ ChildRecv(p) \/ ChildRecvEnd(p) \/ ChildSends(p)
    PROVE  RoomInv'
<1> USE ChatAssumption DEF RoomInv, socket, child, table, flags
<1>1. CASE \E to \in Running : proc[p] # "free" /\ Goes(p, to)
  <2>1. PICK to \in Running : proc[p] # "free" /\ Goes(p, to)
    BY <1>1
  <2>2. TypeOK' /\ Edges'
    BY <2>1 DEF Goes, TypeOK, Edges
  <2>3. PlacesUsed' /\ UsersAreChildren'
    BY <2>1, SameTable DEF Goes, TypeOK, Running, Looping
  <2>4. QED
    BY <2>2, <2>3
<1>2. ASSUME ChildRecv(p) \/ ChildRecvEnd(p) \/ ChildSends(p)
      PROVE  RoomInv'
  <2>1. PICK s \in {"conn", "pipe"} :
           /\ ChildEvent(p, s)
           /\ s = "pipe" => down[p] # << >> /\ down' = [down EXCEPT ![p] = Tail(@)]
           /\ s = "conn" => down' = down
    BY <1>2 DEF ChildRecv, ChildRecvEnd, ChildSends, ChildEvent, Edges
  <2>2. /\ proc[p] \in {"wait", "busy"} /\ proc' = [proc EXCEPT ![p] = "busy"]
        /\ cready' = [cready EXCEPT ![p] = @ \ {s}]
        /\ UNCHANGED <<backlog, edge, hup, idx, signals, ppc, table, terminate, stop_server>>
    BY <2>1 DEF ChildEvent
  <2>3. /\ proc' \in [Pids -> {"free", "zombie"} \union Running]
        /\ cready' \in [Pids -> SUBSET {"conn", "pipe"}]
    BY <2>2 DEF TypeOK, Running, Looping
  <2>4. /\ up' \in [Pids -> 0..PipeSize] /\ ready' \subseteq Pids
        /\ stop_child' \in [Pids -> BOOLEAN] /\ input' \in [Pids -> 0..MaxInput]
    <3>1. CASE ChildRecv(p)
      <4>1. PICK n \in 1..input[p] : input' = [input EXCEPT ![p] = @ - n]
        BY <3>1 DEF ChildRecv
      <4>2. input' \in [Pids -> 0..MaxInput]
        BY <4>1 DEF TypeOK
      <4>3. QED
        BY <3>1, <4>2 DEF ChildRecv, TypeOK
    <3>2. CASE ChildRecvEnd(p) \/ ChildSends(p)
      BY <3>2 DEF ChildRecvEnd, ChildSends, TypeOK
    <3>3. QED
      BY <1>2, <3>1, <3>2
  <2>5. down' \in [Pids -> Seq(Numbers)]
    <3>1. CASE s = "pipe"
      <4>1. Tail(down[p]) \in Seq(Numbers)
        BY <2>1, <3>1 DEF TypeOK
      <4>2. QED
        BY <2>1, <3>1, <4>1 DEF TypeOK
    <3>2. CASE s = "conn"
      BY <2>1, <3>2 DEF TypeOK
    <3>3. QED
      BY <3>1, <3>2
  <2>6. TypeOK'
    BY <2>2, <2>3, <2>4, <2>5 DEF TypeOK
  <2>7. Edges'
    <3>1. ASSUME NEW q \in Pids, "pipe" \in cready'[q]
          PROVE  down'[q] # << >>
      BY <2>1, <2>2, <3>1 DEF TypeOK, Edges
    <3>2. QED
      BY <2>2, <3>1 DEF Edges
  <2>8. PlacesUsed' /\ UsersAreChildren'
    BY <2>2, SameTable DEF TypeOK
  <2>9. QED
    BY <2>6, <2>7, <2>8
<1>3. QED
  BY <1>1, <1>2 DEF ChildCloses, ChildStarts, ChildWaits, ChildRound, Running, Looping

\* The end of a child: it stays in the table.
LEMMA DeadRoomInv ==
    ASSUME RoomInv, NEW p \in Pids, ChildLeaves(p) \/ ChildCrashes(p)
    PROVE  RoomInv'
<1> USE ChatAssumption DEF RoomInv, socket, child, table, flags
<1>1. Dead(p) /\ proc[p] # "free"
  BY DEF ChildLeaves, ChildCrashes, Running, Looping
<1>2. signals' \in Seq({"CHLD", "TERM"})
  BY <1>1, RaisedSignals DEF Dead, TypeOK
<1>3. TypeOK'
  BY <1>1, <1>2 DEF Dead, TypeOK
<1>4. Edges'
  BY <1>1 DEF Dead, TypeOK, Edges
<1>5. PlacesUsed' /\ UsersAreChildren'
  BY <1>1, SameTable DEF Dead, TypeOK
<1>6. QED
  BY <1>3, <1>4, <1>5

\* A new client that is turned away, or whose child gets the next place.
LEMMA AcceptRoomInv ==
    ASSUME RoomInv, AcceptFails \/ AcceptTurnsAway \/ \E p \in Pids : Accept(p)
    PROVE  RoomInv'
<1> USE ChatAssumption DEF RoomInv, socket, child, table, flags
<1>1. CASE AcceptFails \/ AcceptTurnsAway
  <2>1. /\ edge' = FALSE /\ backlog' \in 0..MaxBacklog
        /\ UNCHANGED <<child, up, ready, table, signals, ppc, flags>>
    BY <1>1 DEF AcceptFails, AcceptTurnsAway, Accepting, TypeOK, Edges
  <2>2. TypeOK' /\ Edges'
    BY <2>1 DEF TypeOK, Edges
  <2>3. PlacesUsed' /\ UsersAreChildren'
    BY <2>1, SameTable
  <2>4. QED
    BY <2>2, <2>3
<1>2. ASSUME NEW p \in Pids, Accept(p)
      PROVE  RoomInv'
  <2> USE <1>2 DEF Accept, Accepting, Room, Number
  <2>1. user_count \in 0..(UserLimit - 1) /\ ppc # "stopped" /\ backlog > 0
    BY DEF TypeOK, Edges
  <2>2. TypeOK'
    <3>1. /\ proc' \in [Pids -> {"free", "zombie"} \union Running]
          /\ idx' \in [Pids -> Numbers] /\ backlog' \in 0..MaxBacklog
      BY <2>1 DEF TypeOK, Numbers, Running
    <3>2. /\ users' \in [0..UserLimit -> Pids \union {None}] /\ user_count' \in 0..UserLimit
          /\ sub_process' \in [Pids -> -1..UserLimit]
      BY <2>1 DEF TypeOK
    <3>3. QED
      BY <3>1, <3>2 DEF TypeOK
  <2>3. Edges'
    BY DEF Edges
  <2>4. \A i \in 0..(user_count - 1) :
           /\ users[i] \in Pids /\ users[i] # p
           /\ users'[i] = users[i] /\ sub_process'[users[i]] = i
    BY SMTT(30), <2>1 DEF TypeOK, PlacesUsed, UsersAreChildren, Users
  <2>5. users'[user_count] = p /\ sub_process'[p] = user_count
    BY <2>1 DEF TypeOK
  <2>6. PlacesUsed'
    BY <2>1, <2>4, <2>5 DEF PlacesUsed
  <2>7. Users' = Users \union {p}
    BY <2>1, <2>4, <2>5 DEF Users
  <2>8. UsersAreChildren'
    BY <2>1, <2>4, <2>5, <2>7 DEF UsersAreChildren, TypeOK
  <2>9. QED
    BY <2>2, <2>3, <2>6, <2>8
<1>3. QED
  BY <1>1, <1>2

\* A child that was waited for has a place, which the last user takes.
LEMMA ReapRoomInv == ASSUME RoomInv, NEW p \in Pids, Reap(p) PROVE RoomInv'
<1> USE ChatAssumption DEF RoomInv, socket, child, table, flags
<1> DEFINE n == sub_process[p]
           last == users[user_count - 1]
<1>1. ppc = "reap" /\ ppc' = "reap" /\ proc[p] = "zombie" /\ proc' = [proc EXCEPT ![p] = "free"]
  BY DEF Reap, Reaped
<1>2. n \in 0..(user_count - 1) /\ users[n] = p
  <2>1. PICK i \in 0..(user_count - 1) : users[i] = p
    BY <1>1 DEF UsersAreChildren, Users
  <2>2. QED
    BY <2>1 DEF UsersAreChildren
<1>3. user_count \in 1..UserLimit /\ n \in 0..UserLimit
  BY <1>2 DEF TypeOK
<1>4. /\ ready' = ready \ {p} /\ up' = [up EXCEPT ![p] = 0]
      /\ users' = [users EXCEPT ![n] = last] /\ user_count' = user_count - 1
      /\ sub_process' = [sub_process EXCEPT ![p] = -1, ![last] = n]
  BY <1>2, <1>3 DEF Reap, Reaped, Moved
<1>5. last \in Pids /\ sub_process[last] = user_count - 1
  BY <1>3 DEF PlacesUsed, UsersAreChildren
<1>6. idx' = [idx EXCEPT ![p] = 0] /\ 0 \in Numbers
      /\ UNCHANGED <<socket, input, hup, down, cready, stop_child, signals, flags>>
  BY DEF Reap, Reaped, Numbers
<1>7. TypeOK'
  <2>1. /\ up' \in [Pids -> 0..PipeSize] /\ idx' \in [Pids -> Numbers]
        /\ proc' \in [Pids -> {"free", "zombie"} \union Running]
    BY <1>1, <1>4, <1>6 DEF TypeOK
  <2>2. /\ users' \in [0..UserLimit -> Pids \union {None}] /\ user_count' \in 0..UserLimit
    BY <1>3, <1>4, <1>5 DEF TypeOK
  <2>3. sub_process' \in [Pids -> -1..UserLimit]
    <3>1. sub_process \in [Pids -> -1..UserLimit] /\ n \in -1..UserLimit /\ -1 \in -1..UserLimit
      BY <1>3 DEF TypeOK
    <3> HIDE DEF n, last
    <3> QED
      BY ONLY <1>4, <1>5, <3>1
  <2>4. QED
    BY <1>1, <1>4, <1>6, <2>1, <2>2, <2>3 DEF TypeOK
<1>8. Edges'
  BY <1>6 DEF Edges
<1>9. \A i \in 0..(user_count - 2) :
         /\ users'[i] \in Pids \ {p} /\ proc[users'[i]] # "free"
         /\ sub_process'[users'[i]] = i
  <2> SUFFICES ASSUME NEW i \in 0..(user_count - 2)
               PROVE  /\ users'[i] \in Pids \ {p} /\ proc[users'[i]] # "free"
                      /\ sub_process'[users'[i]] = i
    OBVIOUS
  <2>1. i \in 0..(user_count - 1) /\ i \in 0..UserLimit /\ user_count - 1 \in 0..(user_count - 1)
    BY <1>3
  <2>2. users[i] \in Pids /\ sub_process[users[i]] = i /\ users[i] \in Users /\ last \in Users
    BY <2>1 DEF PlacesUsed, UsersAreChildren, Users
  <2>3. proc[users[i]] # "free" /\ proc[last] # "free"
    BY <1>1, <2>2 DEF UsersAreChildren
  <2>4. CASE i = n
    <3>1. last # p
      BY <1>2, <1>3, <1>5, <2>1, <2>4
    <3>2. users'[i] = last
      BY <1>4, <2>1, <2>4 DEF TypeOK
    <3>3. sub_process'[last] = i
      BY <1>4, <1>5, <2>4 DEF TypeOK
    <3> QED
      BY <1>5, <2>3, <3>1, <3>2, <3>3
  <2>5. CASE i # n
    <3>1. users[i] # p
      BY <1>2, <2>2, <2>5
    <3>2. users[i] # last
      BY <1>3, <1>5, <2>1, <2>2
    <3>3. users'[i] = users[i]
      BY <1>4, <2>1, <2>5 DEF TypeOK
    <3>4. sub_process'[users[i]] = sub_process[users[i]]
      BY <1>4, <2>2, <3>1, <3>2 DEF TypeOK
    <3> QED
      BY <2>2, <2>3, <3>1, <3>3, <3>4
  <2>6. QED
    BY <2>4, <2>5
<1>10. PlacesUsed'
  BY <1>3, <1>4, <1>9 DEF PlacesUsed
<1>11. Users' = {q \in Pids : proc'[q] # "free"}
  <2>1. Users' = {users'[i] : i \in 0..(user_count - 2)}
    BY <1>3, <1>4 DEF Users
  <2>2. ASSUME NEW q \in Pids, q # p, proc[q] # "free"
        PROVE  \E i \in 0..(user_count - 2) : users'[i] = q
    <3>1. PICK i \in 0..(user_count - 1) : users[i] = q
      BY <1>1, <2>2 DEF UsersAreChildren, Users
    <3>2. CASE i = user_count - 1
      <4>1. n # user_count - 1
        BY <1>2, <2>2, <3>1, <3>2
      <4>2. n \in 0..(user_count - 2)
        BY <1>2, <1>3, <4>1
      <4>3. users'[n] = q
        BY <1>3, <1>4, <3>1, <3>2 DEF TypeOK
      <4>4. QED
        BY <4>2, <4>3
    <3>3. CASE i # user_count - 1
      BY <1>2, <1>3, <1>4, <2>2, <3>1, <3>3 DEF TypeOK
    <3>4. QED
      BY <3>2, <3>3
  <2>3. \A q \in Pids : proc'[q] # "free" <=> q # p /\ proc[q] # "free"
    BY <1>1 DEF TypeOK
  <2>4. QED
    BY <1>9, <2>1, <2>2, <2>3
<1>12. UsersAreChildren'
  <2>1. user_count' - 1 = user_count - 2
    BY <1>3, <1>4
  <2>2. \A i \in 0..(user_count' - 1) : sub_process'[users'[i]] = i
    BY <1>9, <2>1
  <2>3. QED
    BY <1>11, <2>2 DEF UsersAreChildren
<1>13. QED
  BY <1>7, <1>8, <1>10, <1>12

\* The parent handles signals and notices, and stops.
LEMMA ParentRoomInv ==
    ASSUME RoomInv,
           \/ SigChld \/ ReapDone \/ SigTerm \/ Stop
           \/ \E p \in Pids : RelayNothing(p) \/ Relay(p)
    PROVE  RoomInv'
<1> USE ChatAssumption DEF RoomInv, socket, child, table, flags
<1>1. CASE SigChld
  <2>1. signals' \in Seq({"CHLD", "TERM"})
    BY <1>1, TailSignals DEF SigChld, TypeOK
  <2>2. TypeOK' /\ Edges'
    BY <1>1, <2>1 DEF SigChld, TypeOK, Edges
  <2>3. PlacesUsed' /\ UsersAreChildren'
    BY <1>1, SameTable DEF SigChld
  <2>4. QED
    BY <2>2, <2>3
<1>2. CASE ReapDone
  <2>1. TypeOK' /\ Edges'
    BY <1>2 DEF ReapDone, TypeOK, Edges
  <2>2. PlacesUsed' /\ UsersAreChildren'
    BY <1>2, SameTable DEF ReapDone
  <2>3. QED
    BY <2>1, <2>2
<1>3. CASE SigTerm
  <2>1. /\ UNCHANGED <<socket, input, hup, up, down, cready, idx, ready, ppc, table>>
        /\ proc' \in [Pids -> {"free", "zombie"} \union Running]
        /\ \A p \in Pids : proc'[p] = "free" <=> proc[p] = "free"
    BY <1>3 DEF SigTerm, TypeOK, Running, Looping
  <2>2. signals' \in Seq({"CHLD", "TERM"})
    <3>1. Tail(signals) \in Seq({"CHLD", "TERM"})
      BY <1>3, TailSignals DEF SigTerm, TypeOK
    <3>2. PICK more \in Seq({"CHLD", "TERM"}) : signals' = Tail(signals) \o more
      BY <1>3, SigTermSignals
    <3>3. QED
      BY <3>1, <3>2
  <2>3. stop_child' \in [Pids -> BOOLEAN] /\ terminate' \in BOOLEAN /\ stop_server' \in BOOLEAN
    BY <1>3 DEF SigTerm, TypeOK
  <2>4. TypeOK' /\ Edges'
    BY <2>1, <2>2, <2>3 DEF TypeOK, Edges
  <2>5. PlacesUsed' /\ UsersAreChildren'
    BY <2>1, SameTable
  <2>6. QED
    BY <2>4, <2>5
<1>4. CASE Stop
  <2>1. << >> \in Seq({"CHLD", "TERM"})
    OBVIOUS
  <2>2. TypeOK'
    <3>1. ppc' = "stopped" /\ backlog' = 0 /\ edge' = FALSE /\ signals' = << >> /\ ready' = {}
      BY <1>4 DEF Stop
    <3>2. 0 \in 0..MaxBacklog
      OBVIOUS
    <3>3. QED
      BY <1>4, <2>1, <3>1, <3>2 DEF Stop, TypeOK
  <2>3. Edges'
    BY <1>4 DEF Stop, Edges
  <2>4. PlacesUsed' /\ UsersAreChildren'
    BY <1>4, SameTable DEF Stop
  <2>5. QED
    BY <2>2, <2>3, <2>4
<1>5. ASSUME NEW p \in Pids, RelayNothing(p)
      PROVE  RoomInv'
  <2>1. TypeOK' /\ Edges'
    BY <1>5 DEF RelayNothing, TypeOK, Edges
  <2>2. PlacesUsed' /\ UsersAreChildren'
    BY <1>5, SameTable DEF RelayNothing
  <2>3. QED
    BY <2>1, <2>2
<1>6. ASSUME NEW p \in Pids, Relay(p)
      PROVE  RoomInv'
  <2>1. PICK told \in SUBSET Pids :
           /\ down' = [q \in Pids |-> IF q \in told THEN Append(down[q], idx[p]) ELSE down[q]]
           /\ cready' = [q \in Pids |-> IF q \in told THEN cready[q] \union {"pipe"}
                                        ELSE cready[q]]
    <3>1. {q \in Users \ {p} : proc[q] \in Running /\ Len(down[q]) < PipeSize} \in SUBSET Pids
      BY <1>6 DEF UsersAreChildren, Relay
    <3>2. QED
      BY <1>6, <3>1 DEF Relay
  <2>2. /\ ready' = ready \ {p} /\ up[p] > 0 /\ up' = [up EXCEPT ![p] = @ - 1]
        /\ UNCHANGED <<socket, proc, input, hup, idx, stop_child, signals, ppc, table, flags>>
    BY <1>6 DEF Relay
  <2>3. down' \in [Pids -> Seq(Numbers)] /\ \A q \in told : down'[q] # << >>
    <3>1. ASSUME NEW q \in Pids
          PROVE  /\ Append(down[q], idx[p]) \in Seq(Numbers) /\ Append(down[q], idx[p]) # << >>
                 /\ down[q] \in Seq(Numbers)
      <4>1. down[q] \in Seq(Numbers) /\ idx[p] \in Numbers
        BY DEF TypeOK
      <4>2. QED
        BY <4>1, AppendNotice
    <3>2. QED
      BY <2>1, <3>1
  <2>4. cready' \in [Pids -> SUBSET {"conn", "pipe"}] /\ up' \in [Pids -> 0..PipeSize]
    <3>1. cready' \in [Pids -> SUBSET {"conn", "pipe"}]
      BY <2>1 DEF TypeOK
    <3>2. up[p] - 1 \in 0..PipeSize
      BY <2>2 DEF TypeOK
    <3>3. QED
      BY <2>2, <3>1, <3>2 DEF TypeOK
  <2>5. TypeOK'
    BY <2>2, <2>3, <2>4 DEF TypeOK
  <2>6. Edges'
    BY <2>1, <2>2, <2>3 DEF Edges
  <2>7. PlacesUsed' /\ UsersAreChildren'
    BY <2>2, SameTable
  <2>8. QED
    BY <2>5, <2>6, <2>7
<1>7. QED
  BY <1>1, <1>2, <1>3, <1>4, <1>5, <1>6

LEMMA NextRoomInv == RoomInv /\ [Next]_vars => RoomInv'
<1> SUFFICES ASSUME RoomInv, [Next]_vars
             PROVE  RoomInv'
    OBVIOUS
<1>1. CASE Connect \/ Terminate \/ \E p \in Pids : Send(p) \/ HangUp(p)
  BY <1>1, OutsideRoomInv
<1>2. CASE \E p \in Pids : Child(p) \/ ChildCrashes(p)
  BY <1>2, ChildRoomInv, DeadRoomInv DEF Child
<1>3. CASE Parent
  BY <1>3, AcceptRoomInv, ReapRoomInv, ParentRoomInv DEF Parent
<1>4. CASE UNCHANGED vars
  BY <1>4 DEF RoomInv, TypeOK, Edges, PlacesUsed, UsersAreChildren, Users, vars, socket, child,
              table, flags
<1>5. QED
  BY <1>1, <1>2, <1>3, <1>4 DEF Next

-----------------------------------------------------------------------------
(* The theorems that follow from RoomInv.                                  *)

THEOREM RoomInvariant == Spec => []RoomInv
  BY InitRoomInv, NextRoomInv, PTL DEF Spec

\* Types: the numbers children write to share_mem at and those in the pipes stay below
\* USER_LIMIT, and user_count within the array of users.
THEOREM TypeCorrect == Spec => []TypeOK
<1>1. RoomInv => TypeOK
  BY DEF RoomInv
<1>2. QED
  BY <1>1, RoomInvariant, PTL

\* The places in use are the children that were not waited for, each at the place
\* sub_process gives, in whatever order children come and go.
THEOREM UsersChildren == Spec => []UsersAreChildren
<1>1. RoomInv => UsersAreChildren
  BY DEF RoomInv
<1>2. QED
  BY <1>1, RoomInvariant, PTL

-----------------------------------------------------------------------------
(* ZombieSeen, relative to RoomInv.                                        *)

\* A SIGCHLD is in the pipe.
ChldPiped == \E i \in 1..Len(signals) : signals[i] = "CHLD"

\* As long as no child ends, it is enough that the SIGCHLD stays where it is.
LEMMA StillSeen ==
    ASSUME ZombieSeen, \A p \in Pids : proc'[p] = "zombie" => proc[p] = "zombie",
           ppc' # "stopped" => ppc # "stopped",
           ppc = "reap" => ppc' = "reap", ChldPiped => ChldPiped' \/ ppc' = "reap"
    PROVE  ZombieSeen'
  BY DEF ZombieSeen, ChldPiped

LEMMA NextZombieSeen == RoomInv /\ ZombieSeen /\ [Next]_vars => ZombieSeen'
<1> SUFFICES ASSUME RoomInv, ZombieSeen, [Next]_vars
             PROVE  ZombieSeen'
    OBVIOUS
<1> USE DEF socket, child, table, flags
<1>1. signals \in Seq({"CHLD", "TERM"}) /\ proc \in [Pids -> {"free", "zombie"} \union Running]
  BY DEF RoomInv, TypeOK
<1>2. CASE Connect \/ \E p \in Pids : Send(p) \/ HangUp(p)
  BY <1>2, StillSeen DEF Connect, Send, HangUp, Arrives, ChldPiped
<1>3. CASE Terminate
  <2>1. ChldPiped => ChldPiped'
    BY <1>1, <1>3, RaisedSignals DEF Terminate, ChldPiped
  <2>2. QED
    BY <1>3, <2>1, StillSeen DEF Terminate
<1>4. CASE \E p \in Pids : ChildLeaves(p) \/ ChildCrashes(p)
  <2>1. signals' = Raised("CHLD") /\ ppc' = ppc
    BY <1>4 DEF ChildLeaves, ChildCrashes, Dead
  <2>2. QED
    BY <1>1, <2>1, RaisedSignals DEF ZombieSeen
<1>5. CASE \E p \in Pids : \/ ChildCloses(p) \/ ChildStarts(p) \/ ChildWaits(p)
                           \/ ChildRound(p)
  BY <1>1, <1>5, StillSeen DEF ChildCloses, ChildStarts, ChildWaits, ChildRound, Goes, ChldPiped
<1>6. CASE \E p \in Pids : ChildRecv(p) \/ ChildRecvEnd(p) \/ ChildSends(p)
  <2>1. PICK p \in Pids : /\ proc' = [proc EXCEPT ![p] = "busy"]
                          /\ UNCHANGED <<signals, ppc>>
    BY <1>6 DEF ChildRecv, ChildRecvEnd, ChildSends, ChildEvent
  <2>2. QED
    BY <1>1, <2>1, StillSeen DEF ChldPiped
<1>7. CASE AcceptFails \/ AcceptTurnsAway \/ \E p \in Pids : Accept(p)
  <2>1. UNCHANGED <<signals, ppc>>
    BY <1>7 DEF AcceptFails, AcceptTurnsAway, Accept, Accepting
  <2>2. proc' = proc \/ \E p \in Pids : proc' = [proc EXCEPT ![p] = "born"]
    BY <1>7 DEF AcceptFails, AcceptTurnsAway, Accept, Accepting
  <2>3. QED
    BY <1>1, <2>1, <2>2, StillSeen DEF ChldPiped
<1>8. CASE SigChld
  BY <1>8, StillSeen DEF SigChld
<1>9. CASE \E p \in Pids : Reap(p)
  BY <1>1, <1>9 DEF Reap, Reaped, ZombieSeen
<1>10. CASE ReapDone
  BY <1>10 DEF ReapDone, ZombieSeen
<1>11. CASE SigTerm
  <2>1. \A p \in Pids : proc'[p] = "zombie" => proc[p] = "zombie"
    BY <1>1, <1>11 DEF SigTerm
  <2>2. ppc' = ppc /\ ppc = "dispatch" /\ signals # << >> /\ Head(signals) = "TERM"
    BY <1>11 DEF SigTerm
  <2>3. PICK more \in Seq({"CHLD", "TERM"}) : signals' = Tail(signals) \o more
    BY <1>11, SigTermSignals
  <2>4. ASSUME NEW i \in 1..Len(signals), signals[i] = "CHLD"
        PROVE  ChldPiped'
    <3>1. i \in 2..Len(signals)
      BY <1>1, <2>2, <2>4
    <3>2. /\ Tail(signals) \in Seq({"CHLD", "TERM"})
          /\ i - 1 \in 1..Len(Tail(signals)) /\ Tail(signals)[i - 1] = "CHLD"
      BY <1>1, <2>2, <2>4, <3>1, TailSignals
    <3>3. i - 1 \in 1..Len(signals') /\ signals'[i - 1] = "CHLD"
      BY <2>3, <3>2
    <3>4. QED
      BY <3>3 DEF ChldPiped
  <2>5. QED
    BY <2>1, <2>2, <2>4, StillSeen DEF ChldPiped
<1>12. CASE Stop
  BY <1>12 DEF Stop, ZombieSeen
<1>13. CASE \E p \in Pids : RelayNothing(p) \/ Relay(p)
  BY <1>13, StillSeen DEF RelayNothing, Relay, ChldPiped
<1>14. CASE UNCHANGED vars
  BY <1>14, StillSeen DEF vars, ChldPiped
<1>15. QED
  BY <1>2, <1>3, <1>4, <1>5, <1>6, <1>7, <1>8, <1>9, <1>10, <1>11, <1>12, <1>13, <1>14
     DEF Next, Parent, Child

\* No child that has ended is forgotten, though SIGCHLDs are merged and SIGTERM is written
\* behind them again.
THEOREM ZombiesSeen == Spec => []ZombieSeen
<1>1. Init => ZombieSeen
  BY DEF Init, ZombieSeen
<1>2. QED
  BY <1>1, NextZombieSeen, RoomInvariant, PTL DEF Spec
=============================================================================
