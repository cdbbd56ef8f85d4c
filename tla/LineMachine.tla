----------------------------- MODULE LineMachine -----------------------------
(***************************************************************************)
(* parse_line, the state machine that finds the next line in a buffer that *)
(* is filled in pieces.  http_conn (ch-15) has it as a member function,    *)
(* analyse_http_request.cpp (ch-08) as a function, with the same body.     *)
(***************************************************************************)
EXTENDS Integers, Sequences

\* What parse_line returns, and where it leaves the index of the next byte to look at.
\* Indices count from 0.  The line end itself is overwritten with zeros.
ParseLine(buf, checked) ==
    LET At(i) == buf[i + 1]
        ends == {i \in checked..(Len(buf) - 1) : At(i) \in {"CR", "LF"}}
        end == CHOOSE i \in ends : \A j \in ends : i <= j
        Line(status, idx) == [status |-> status, idx |-> idx]
    IN CASE ends = {} -> Line("OPEN", Len(buf))
         [] ends # {} /\ At(end) = "CR" ->
              IF end + 1 = Len(buf) THEN Line("OPEN", end)
              ELSE IF At(end + 1) = "LF" THEN Line("OK", end + 2) ELSE Line("BAD", end)
         [] OTHER ->
              IF end > 1 /\ At(end - 1) = "CR" THEN Line("OK", end + 1) ELSE Line("BAD", end)
=============================================================================
