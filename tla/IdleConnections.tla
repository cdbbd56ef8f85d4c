--------------------------- MODULE IdleConnections ---------------------------
(***************************************************************************)
(* What the servers of ch-11 promise about connections that fall silent: a *)
(* connection has Timeout units of time from its last input; a sweep,      *)
(* which the clock asks for, closes the connections whose time is up, all  *)
(* of them and no other.  Time is counted in seconds (the server with the  *)
(* sorted list) or in sweeps (the server with the time wheel).             *)
(***************************************************************************)
EXTENDS Naturals

CONSTANTS Connections,
          Timeout  \* Timeout[u]: units u of time that a silent connection stays open

VARIABLES
  unit,  \* what time is counted in, "second" or "sweep"
  open,  \* the connections that are open
  rest,  \* rest[c]: units of time c has left, 0 when it is up
  due,   \* a sweep is due
  up     \* the server runs

vars == <<unit, open, rest, due, up>>

Init == /\ unit \in {"second", "sweep"}
        /\ open = {} /\ rest = [c \in Connections |-> 0] /\ due = FALSE /\ up = TRUE

Open(c) == /\ c \notin open
           /\ open' = open \union {c}
           /\ rest' = [rest EXCEPT ![c] = Timeout[unit]]
           /\ UNCHANGED due

Input(c) == /\ c \in open
            /\ rest' = [rest EXCEPT ![c] = Timeout[unit]]
            /\ UNCHANGED <<open, due>>

Close(c) == /\ c \in open
            /\ open' = open \ {c}
            /\ rest' = [rest EXCEPT ![c] = 0]
            /\ UNCHANGED due

Less == [c \in Connections |-> IF rest[c] = 0 THEN 0 ELSE rest[c] - 1]

Second == unit = "second" /\ rest' = Less /\ UNCHANGED <<open, due>>

Ask == due' = TRUE /\ UNCHANGED <<open, rest>>

Sweep == /\ due
         /\ due' = FALSE
         /\ open' = {c \in open : rest[c] > 0}
         /\ rest' = IF unit = "sweep" THEN Less ELSE rest

\* The server stops or dies, and every connection with it.
Stop == open' = {} /\ rest' = [c \in Connections |-> 0] /\ due' = FALSE /\ up' = FALSE

Serve == \/ \E c \in Connections : Open(c) \/ Input(c) \/ Close(c)
         \/ Second \/ Ask \/ Sweep

Next == /\ up /\ UNCHANGED unit
        /\ \/ Stop
           \/ Serve /\ up' = TRUE

Spec == Init /\ [][Next]_vars
=============================================================================
