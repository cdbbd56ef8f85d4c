------------------------------ MODULE LineReader ------------------------------
(***************************************************************************)
(* Two programs that read a line at a time from a connection whose bytes   *)
(* arrive in pieces, and serve one request: the HTTP request analyser of   *)
(* ch-08 (analyse_http_request.cpp), with a blocking socket, and cgi_conn  *)
(* of ch-15 (concurrent_cgi_server.cpp), which a child of the process pool *)
(* runs when the socket can be read (ProcessPool).                         *)
(*                                                                         *)
(* A byte is CR, LF, "get", a valid request line, or "other", other text.  *)
(***************************************************************************)
EXTENDS LineMachine

CONSTANTS Room,       \* bytes the buffer of the program takes
          MaxPiece    \* bound: bytes one recv returns

Bytes == {"CR", "LF", "get", "other"}

ASSUME ReaderAssumption == Room \in Nat \ {0} /\ MaxPiece \in Nat \ {0}

\* What may have arrived when recv is called.
Pieces == UNION {[1..n -> Bytes] : n \in 1..MaxPiece}

VARIABLES
  program,  \* analyser, cgi
  pc,       \* read, parse, closed
  buf,      \* the buffer, up to read_index or m_read_idx
  checked_index, start_line, check_state, \* of the analyser
  answer    \* <<"none">>; of the analyser <<"result">> or <<"wrong">>; of cgi_conn "run"
            \* and the text of the line, which names a program

parser == <<checked_index, start_line, check_state>>
vars == <<program, pc, buf, parser, answer>>

Init == /\ program \in {"analyser", "cgi"}
        /\ pc = "read" /\ buf = << >>
        /\ checked_index = 0 /\ start_line = 0 /\ check_state = "REQUESTLINE"
        /\ answer = <<"none">>

-----------------------------------------------------------------------------
(* recv                                                                    *)

\* recv, of no more than there is room for.
Takes(new) == /\ pc = "read" /\ Len(buf) + Len(new) <= Room
              /\ buf' = buf \o new
              /\ UNCHANGED program

\* The end of the stream; a full buffer, for which recv returns 0 as well when there is
\* something to read; an error.  The connection is closed without an answer.
RecvEnd == /\ pc = "read"
           /\ pc' = "closed"
           /\ UNCHANGED <<program, buf, parser, answer>>

-----------------------------------------------------------------------------
(* The analyser: parse_content.                                            *)

AnalyserRecv(new) == /\ program = "analyser" /\ Takes(new)
                     /\ pc' = "parse"
                     /\ UNCHANGED <<parser, answer>>

\* Slip: a CR at the end of what was read is passed over.
LinePassesCR == LET l == ParseLine(buf, checked_index)
                IN IF l.status = "OPEN" THEN [l EXCEPT !.idx = Len(buf)] ELSE l

Line == ParseLine(buf, checked_index)

\* The text of the line, without its end.
Text == SubSeq(buf, start_line + 1, Line.idx - 2)

Turn(state) == /\ pc = "parse" /\ Line.status = "OK" /\ check_state = state
               /\ checked_index' = Line.idx /\ start_line' = Line.idx
               /\ UNCHANGED <<program, buf>>

\* The answer is sent, the connection is closed.
Sends(a) == answer' = <<a>> /\ pc' = "closed"

\* parse_requestline
RequestLine == /\ Turn("REQUESTLINE") /\ Text = <<"get">>
               /\ check_state' = "HEADER"
               /\ UNCHANGED <<pc, answer>>

BadRequestLine == /\ Turn("REQUESTLINE") /\ Text # <<"get">>
                  /\ Sends("wrong")
                  /\ UNCHANGED check_state

\* parse_header
Header == /\ Turn("HEADER") /\ Text # << >>
          /\ UNCHANGED <<pc, check_state, answer>>

EndOfHead == /\ Turn("HEADER") /\ Text = << >>
             /\ Sends("result")
             /\ UNCHANGED check_state

\* LINE_OPEN: NO_REQUEST, read more.
NoLine == /\ pc = "parse" /\ Line.status = "OPEN"
          /\ checked_index' = Line.idx
          /\ pc' = "read"
          /\ UNCHANGED <<program, buf, start_line, check_state, answer>>

BadLine == /\ pc = "parse" /\ Line.status = "BAD"
           /\ checked_index' = Line.idx
           /\ Sends("wrong")
           /\ UNCHANGED <<program, buf, start_line, check_state>>

Parse == RequestLine \/ BadRequestLine \/ Header \/ EndOfHead \/ NoLine \/ BadLine

-----------------------------------------------------------------------------
(* cgi_conn: process.                                                      *)

\* Slip: the byte before the new ones is not looked at.
LineEndsAmongNew(s, idx) == {i \in (idx + 1)..(Len(s) - 1) : s[i] = "CR" /\ s[i + 1] = "LF"}

\* The indices, from idx, of an LF after a CR.
LineEnds(s, idx) == {i \in idx..(Len(s) - 1) : i >= 1 /\ s[i] = "CR" /\ s[i + 1] = "LF"}

Least(S) == CHOOSE i \in S : \A j \in S : i <= j

\* After the first line end nothing is read: the program the line names is not there, or
\* fork fails, or a child runs it; the connection is closed in each case.
CgiRecv(new) ==
    /\ program = "cgi" /\ Takes(new)
    /\ LET ends == LineEnds(buf', Len(buf))
       IN IF ends = {} THEN UNCHANGED <<pc, answer>>
          ELSE /\ answer' = <<"run">> \o SubSeq(buf', 1, Least(ends) - 1)
               /\ pc' = "closed"
    /\ UNCHANGED parser

-----------------------------------------------------------------------------
Next == RecvEnd \/ Parse \/ \E new \in Pieces : AnalyserRecv(new) \/ CgiRecv(new)

Spec == Init /\ [][Next]_vars

-----------------------------------------------------------------------------
(* Correctness.                                                            *)

\* The reference: a machine that is given one byte at a time and keeps no index.
Start == [state |-> "REQUESTLINE", line |-> << >>, cr |-> FALSE, answer |-> "none"]

EndOfLine(m) ==
    CASE m.state = "REQUESTLINE" /\ m.line = <<"get">> -> [Start EXCEPT !.state = "HEADER"]
      [] m.state = "REQUESTLINE" /\ m.line # <<"get">> -> [m EXCEPT !.answer = "wrong"]
      [] m.state = "HEADER" /\ m.line = << >> -> [m EXCEPT !.answer = "result"]
      [] OTHER -> [Start EXCEPT !.state = "HEADER"]

Byte(m, b) ==
    IF m.answer # "none" THEN m
    ELSE IF m.cr THEN IF b = "LF" THEN EndOfLine(m) ELSE [m EXCEPT !.answer = "wrong"]
    ELSE CASE b = "CR" -> [m EXCEPT !.cr = TRUE]
           [] b = "LF" -> [m EXCEPT !.answer = "wrong"]
           [] OTHER -> [m EXCEPT !.line = Append(@, b)]

Whole(s) == LET After[i \in 0..Len(s)] == IF i = 0 THEN Start ELSE Byte(After[i - 1], s[i])
            IN After[Len(s)]

\* However a request is cut into pieces, the analyser has answered what the bytes it has
\* read ask for, or waits when they ask for nothing yet.
AnalyserIgnoresCuts ==
    program = "analyser" /\ pc # "parse" => answer = <<Whole(buf).answer>>

\* However a line is cut into pieces, cgi_conn runs the text before the first CR LF as soon
\* as it has read it, and waits when there is none.
CgiRunsFirstLine ==
    program = "cgi" =>
        LET ends == {i \in 1..(Len(buf) - 1) : buf[i] = "CR" /\ buf[i + 1] = "LF"}
        IN answer = IF ends = {} THEN <<"none">>
                    ELSE <<"run">> \o SubSeq(buf, 1, Least(ends) - 1)
=============================================================================
