------------------------------- MODULE HttpConn -------------------------------
(***************************************************************************)
(* The inside of an http_conn of ch-15: how read, process_read, parse_line *)
(* and the parse_ functions take a request apart as it arrives in pieces,  *)
(* and how write sends the response, a mapped file.  One http_conn, which  *)
(* serves one client after the other, the requests of each one after the   *)
(* other; WebServer models who calls these functions when.                 *)
(*                                                                         *)
(* A byte is CR, LF or a member of Bytes, which stands for a run of text:  *)
(* "get" for a valid request line, "len" for a Content-Length header,      *)
(* "keep" for Connection: keep-alive; everything else is any other text.   *)
(***************************************************************************)
EXTENDS LineMachine

CONSTANTS Requests,      \* what a client may send: sequences of bytes
          BodyLength,    \* the value of the Content-Length header
          BufferSize,    \* READ_BUFFER_SIZE
          HeaderSize,    \* bytes of a status line with headers
          FileSize,      \* bytes of a file that is sent
          MaxRounds      \* bound: requests on the connection

Bytes == {"CR", "LF", "get", "len", "keep", "other"}

ASSUME HttpAssumption ==
    /\ Requests \subseteq Seq(Bytes) /\ << >> \notin Requests
    /\ BodyLength \in Nat \ {0} /\ BufferSize \in Nat \ {0}
    /\ HeaderSize \in Nat \ {0} /\ FileSize \in Nat \ {0}
    /\ MaxRounds \in Nat

\* The h-th byte of r ends an empty line; the line x begins and ends with the i-th.
EmptyLine(r, h) == r[h - 3] = "CR" /\ r[h - 2] = "LF" /\ r[h - 1] = "CR" /\ r[h] = "LF"
IsLine(r, i, x) == r[i - 1] = "LF" /\ r[i] = x /\ r[i + 1] = "CR"

\* What a client sends: lines that end with CR LF, the first of the empty ones is the end of
\* the head, and as much of a body as a line of the head says.  "keep" stands for a header
\* only, the same text in a body is other text.
IsHead(r, h) ==
    /\ EmptyLine(r, h) /\ \A i \in 4..(h - 1) : ~EmptyLine(r, i)
    /\ r[1] # "LF" /\ \A i \in 1..(h - 1) : r[i] = "CR" <=> r[i + 1] = "LF"
    /\ Len(r) = h + IF \E i \in 2..(h - 1) : IsLine(r, i, "len") THEN BodyLength ELSE 0
    /\ \A i \in 1..Len(r) : r[i] = "keep" => i \in 2..(h - 1) /\ IsLine(r, i, "keep")
IsRequest(r) == \E h \in 4..Len(r) : IsHead(r, h)

ASSUME RequestAssumption == \A r \in Requests : IsRequest(r)

VARIABLES
  \* the client
  request,  \* the request on its way, << >> between two requests
  todo,     \* what of it is still to be sent
  wire,     \* the bytes of the response the client gets: offsets in the response
  cut,      \* writev took a part of the response only
  rounds,
  \* the connection
  pc,       \* idle, parse, respond, write, closed
  buf,      \* m_read_buf up to m_read_idx
  m_checked_idx, m_start_line, m_check_state, m_content_length, m_linger,
  line_status,  \* the variable of process_read
  ret,      \* what process_read returned
  whole,    \* bytes in m_iv: the response
  bytes_to_send, bytes_have_send,
  m_file_address, \* null, file, failed (MAP_FAILED)
  mapped,   \* files this object has mapped and not unmapped
  left      \* a client left while a file was mapped for it

client == <<request, todo, wire, cut, rounds>>
parser == <<buf, m_checked_idx, m_start_line, m_check_state, m_content_length, m_linger>>
sender == <<whole, bytes_to_send, bytes_have_send>>
mapping == <<m_file_address, mapped, left>>
vars == <<client, pc, parser, line_status, ret, sender, mapping>>

Init == /\ request = << >> /\ todo = << >> /\ wire = << >> /\ rounds = 0
        /\ cut = FALSE
        /\ pc = "idle" /\ buf = << >> /\ m_checked_idx = 0 /\ m_start_line = 0
        /\ m_check_state = "REQUESTLINE" /\ m_content_length = 0 /\ m_linger = FALSE
        /\ line_status = "OK" /\ ret = "NO_REQUEST"
        /\ whole = 0 /\ bytes_to_send = 0 /\ bytes_have_send = 0
        /\ m_file_address = "null" /\ mapped = 0 /\ left = FALSE

\* Slip: init keeps m_linger.
ResetButLinger == /\ buf' = << >> /\ m_checked_idx' = 0 /\ m_start_line' = 0
                  /\ m_check_state' = "REQUESTLINE" /\ m_content_length' = 0
                  /\ UNCHANGED m_linger
                  /\ ret' = "NO_REQUEST" /\ line_status' = "OK"

\* Slip: init keeps m_content_length.
ResetButLength == /\ buf' = << >> /\ m_checked_idx' = 0 /\ m_start_line' = 0
                  /\ m_check_state' = "REQUESTLINE" /\ UNCHANGED m_content_length
                  /\ m_linger' = FALSE
                  /\ ret' = "NO_REQUEST" /\ line_status' = "OK"

\* init, without arguments.
Reset == /\ buf' = << >> /\ m_checked_idx' = 0 /\ m_start_line' = 0
         /\ m_check_state' = "REQUESTLINE" /\ m_content_length' = 0
         /\ m_linger' = FALSE
         /\ ret' = "NO_REQUEST" /\ line_status' = "OK"

-----------------------------------------------------------------------------
(* A client sends a request when the one before is answered.               *)

NewRequest == /\ pc = "idle" /\ request = << >> /\ rounds < MaxRounds
              /\ request' \in Requests
              /\ todo' = request'
              /\ wire' = << >> /\ cut' = FALSE /\ rounds' = rounds + 1
              /\ UNCHANGED <<pc, parser, line_status, ret, sender, mapping>>

\* The main loop is told that the client has hung up, and calls close_conn, which leaves
\* everything but the socket as it is.
HangUp == /\ pc \in {"idle", "write"}
          /\ pc' = "closed"
          /\ whole' = 0 /\ left' = (left \/ m_file_address = "file")
          /\ UNCHANGED <<client, parser, line_status, ret, bytes_to_send, bytes_have_send,
                         m_file_address, mapped>>

\* init for the next client of this descriptor.
NewClient == /\ pc = "closed"
             /\ pc' = "idle"
             /\ request' = << >> /\ todo' = << >> /\ wire' = << >> /\ cut' = FALSE
             /\ Reset
             /\ UNCHANGED <<rounds, sender, mapping>>

-----------------------------------------------------------------------------
(* read: everything that has arrived, as long as there is room after it.   *)

\* Slip: the room for the byte that recv must be asked for is not kept.
ReadToTheEnd(n) == /\ pc = "idle" /\ n \in 1..Len(todo)
                   /\ Len(buf) + n <= BufferSize
                   /\ buf' = buf \o SubSeq(todo, 1, n)
                   /\ todo' = SubSeq(todo, n + 1, Len(todo))
                   /\ pc' = "parse" /\ line_status' = "OK"
                   /\ UNCHANGED <<request, wire, cut, rounds, m_checked_idx, m_start_line,
                                  m_check_state, m_content_length, m_linger, ret, sender, mapping>>

Read(n) == /\ pc = "idle" /\ n \in 1..Len(todo)
           /\ Len(buf) + n < BufferSize
           /\ buf' = buf \o SubSeq(todo, 1, n)
           /\ todo' = SubSeq(todo, n + 1, Len(todo))
           /\ pc' = "parse" /\ line_status' = "OK"
           /\ UNCHANGED <<request, wire, cut, rounds, m_checked_idx, m_start_line,
                          m_check_state, m_content_length, m_linger, ret, sender, mapping>>

\* The buffer is full: recv is asked for 0 bytes and returns 0, taken for the end of the
\* stream.  The connection is closed.
ReadOverflows(n) == /\ pc = "idle" /\ n \in 1..Len(todo)
                    /\ Len(buf) + n >= BufferSize
                    /\ pc' = "closed"
                    /\ UNCHANGED <<client, parser, line_status, ret, sender, mapping>>

-----------------------------------------------------------------------------
(* process_read                                                            *)

\* The condition of the loop: in the body no line is looked for, the first time.
InBody == m_check_state = "CONTENT" /\ line_status = "OK"
Line == IF InBody THEN [status |-> "OK", idx |-> m_checked_idx] ELSE ParseLine(buf, m_checked_idx)

\* The text of the line, without the line end parse_line has overwritten.
Text == SubSeq(buf, m_start_line + 1, Line.idx - 2)

\* One turn of the loop.
Turn(state) == /\ pc = "parse" /\ Line.status = "OK" /\ m_check_state = state
               /\ m_checked_idx' = Line.idx /\ m_start_line' = Line.idx
               /\ UNCHANGED <<client, buf, sender>>

\* No further line (or a bad one): NO_REQUEST, process waits for input.
NoLine == /\ pc = "parse" /\ Line.status # "OK"
          /\ m_checked_idx' = Line.idx
          /\ line_status' = Line.status
          /\ pc' = "idle"
          /\ UNCHANGED <<client, buf, m_start_line, m_check_state, m_content_length,
                         m_linger, ret, sender, mapping>>

\* parse_request_line
RequestLine == /\ Turn("REQUESTLINE")
               /\ Text = <<"get">>
               /\ m_check_state' = "HEAD" /\ line_status' = "OK"
               /\ UNCHANGED <<pc, m_content_length, m_linger, ret, mapping>>

BadRequestLine == /\ Turn("REQUESTLINE")
                  /\ Text # <<"get">>
                  /\ ret' = "BAD_REQUEST" /\ pc' = "respond" /\ line_status' = "OK"
                  /\ UNCHANGED <<m_check_state, m_content_length, m_linger, mapping>>

\* parse_headers
Header == /\ Turn("HEAD")
          /\ Text # << >>
          /\ m_linger' = (m_linger \/ Text = <<"keep">>)
          /\ m_content_length' = IF Text = <<"len">> THEN BodyLength ELSE m_content_length
          /\ line_status' = "OK"
          /\ UNCHANGED <<pc, m_check_state, ret, mapping>>

\* do_request maps the file, or finds a reason not to.  Nobody asks whether open and mmap
\* have worked: the response goes on with MAP_FAILED, as it does for an empty file, which
\* cannot be mapped.
Outcomes == {"FILE_REQUEST", "EMPTY_FILE", "NO_RESOURCE", "FORBIDDEN_REQUEST",
             "BAD_REQUEST"}
DoRequest == /\ ret' \in Outcomes /\ pc' = "respond"
             /\ \/ /\ ret' = "FILE_REQUEST"
                   /\ m_file_address' = "file" /\ mapped' = mapped + 1
                \/ /\ ret' \in {"FILE_REQUEST", "EMPTY_FILE"}
                   /\ m_file_address' = "failed" /\ UNCHANGED mapped
                \/ /\ ret' \notin {"FILE_REQUEST", "EMPTY_FILE"}
                   /\ UNCHANGED <<m_file_address, mapped>>
             /\ UNCHANGED left

EndOfHead == /\ Turn("HEAD")
             /\ Text = << >> /\ m_content_length = 0
             /\ DoRequest
             /\ line_status' = "OK"
             /\ UNCHANGED <<m_check_state, m_content_length, m_linger>>

BodyFollows == /\ Turn("HEAD")
               /\ Text = << >> /\ m_content_length # 0
               /\ m_check_state' = "CONTENT" /\ line_status' = "OK"
               /\ UNCHANGED <<pc, m_content_length, m_linger, ret, mapping>>

\* Slip: one byte of the body may be missing.
BodyCompleteEarly == /\ Turn("CONTENT")
                     /\ Len(buf) + 1 >= Line.idx + m_content_length
                     /\ DoRequest
                     /\ UNCHANGED <<m_check_state, m_content_length, m_linger, line_status>>

\* parse_content
BodyComplete == /\ Turn("CONTENT")
                /\ Len(buf) >= Line.idx + m_content_length
                /\ DoRequest
                /\ UNCHANGED <<m_check_state, m_content_length, m_linger, line_status>>

\* The rest is missing: the loop goes on, with parse_line on what there is of the body.
BodyMissing == /\ Turn("CONTENT")
               /\ Len(buf) < Line.idx + m_content_length
               /\ line_status' = "OPEN"
               /\ UNCHANGED <<pc, m_check_state, m_content_length, m_linger, ret, mapping>>

-----------------------------------------------------------------------------
(* process_write and write                                                 *)

\* An empty file falls through to the case that returns false: the connection is closed.
RespondFails == /\ pc = "respond" /\ ret = "EMPTY_FILE"
                /\ pc' = "closed"
                /\ UNCHANGED <<client, parser, line_status, ret, sender, mapping>>

\* m_iv holds the headers and, for a file, the file; write counts with m_write_idx, the
\* bytes of the headers.
Respond == /\ pc = "respond" /\ ret # "EMPTY_FILE"
           /\ whole' = HeaderSize + IF ret = "FILE_REQUEST" THEN FileSize ELSE 0
           /\ bytes_to_send' = HeaderSize /\ bytes_have_send' = 0
           /\ pc' = "write"
           /\ UNCHANGED <<client, parser, line_status, ret, mapping>>

\* munmap of MAP_FAILED does nothing.
Unmap == /\ m_file_address' = "null"
         /\ mapped' = IF m_file_address = "file" THEN mapped - 1 ELSE mapped
         /\ UNCHANGED left

\* Slip: the file is unmapped whatever writev returns.
WriteAgainUnmaps == /\ pc = "write"
                    /\ bytes_to_send' = HeaderSize /\ bytes_have_send' = 0
                    /\ Unmap
                    /\ UNCHANGED <<client, pc, parser, line_status, ret, whole>>

\* EAGAIN: write returns and starts anew with the next EPOLLOUT.
WriteAgain == /\ pc = "write"
              /\ bytes_to_send' = HeaderSize /\ bytes_have_send' = 0
              /\ UNCHANGED <<client, pc, parser, line_status, ret, whole, mapping>>

\* What writev can take of m_iv: with MAP_FAILED in it the headers at most.
Readable == IF ret = "FILE_REQUEST" /\ m_file_address = "failed" THEN HeaderSize ELSE whole

\* writev takes n bytes.  m_iv stays as it is: every call starts at the first byte.
Taken(n) == /\ pc = "write"
            /\ n \in 1..Readable
            /\ Len(wire) + n <= 2 * whole  \* bound
            /\ wire' = wire \o [i \in 1..n |-> i]
            /\ cut' = (cut \/ n < whole)
            /\ bytes_to_send' = bytes_to_send - n
            /\ bytes_have_send' = bytes_have_send + n

\* Slip: the loop goes on until bytes_to_send is 0.
WriteUntilZero(n) ==
    /\ Taken(n)
    /\ bytes_to_send' # 0
    /\ UNCHANGED <<request, todo, rounds, pc, parser, line_status, ret, whole,
                               mapping>>

WriteMore(n) == /\ Taken(n)
                /\ bytes_to_send' > bytes_have_send'
                /\ UNCHANGED <<request, todo, rounds, pc, parser, line_status, ret, whole,
                               mapping>>

\* Done, keep-alive: init.  What is in the buffer after the request is lost.
WriteKeep(n) == /\ Taken(n)
                /\ bytes_to_send' <= bytes_have_send' /\ m_linger
                /\ request' = << >> /\ pc' = "idle"
                /\ Unmap /\ Reset
                /\ UNCHANGED <<todo, rounds, whole>>

\* Done: write returns false, the connection is closed.
WriteClose(n) == /\ Taken(n)
                 /\ bytes_to_send' <= bytes_have_send' /\ ~m_linger
                 /\ pc' = "closed" /\ Unmap
                 /\ UNCHANGED <<request, todo, rounds, parser, line_status, ret, whole>>

\* Any other error of writev, EFAULT for MAP_FAILED too: unmap, the connection is closed.
WriteFails == /\ pc = "write"
              /\ pc' = "closed" /\ Unmap
              /\ whole' = 0 /\ wire' = << >> /\ cut' = FALSE
              /\ UNCHANGED <<request, todo, rounds, parser, line_status, ret, bytes_to_send,
                             bytes_have_send>>

-----------------------------------------------------------------------------
Parse == \/ NoLine \/ RequestLine \/ BadRequestLine \/ Header \/ EndOfHead
         \/ BodyFollows \/ BodyComplete \/ BodyMissing

Write == \/ WriteAgain \/ WriteFails
         \/ \E n \in 1..whole : WriteMore(n) \/ WriteKeep(n) \/ WriteClose(n)

Next == \/ NewRequest \/ HangUp \/ NewClient
        \/ \E n \in 1..Len(todo) : Read(n) \/ ReadOverflows(n)
        \/ Parse \/ RespondFails \/ Respond \/ Write

Spec == Init /\ [][Next]_vars

-----------------------------------------------------------------------------
(* Correctness.                                                            *)

TypeOK ==
    /\ request \in Seq(Bytes) /\ todo \in Seq(Bytes) /\ wire \in Seq(Nat)
    /\ rounds \in 0..MaxRounds
    /\ pc \in {"idle", "parse", "respond", "write", "closed"}
    /\ buf \in Seq(Bytes) /\ Len(buf) < BufferSize
    /\ m_checked_idx \in 0..Len(buf) /\ m_start_line \in 0..m_checked_idx
    /\ m_check_state \in {"REQUESTLINE", "HEAD", "CONTENT"}
    /\ m_content_length \in {0, BodyLength} /\ m_linger \in BOOLEAN
    /\ line_status \in {"OK", "OPEN", "BAD"}
    /\ ret \in Outcomes \union {"NO_REQUEST"}
    /\ whole \in Nat /\ bytes_to_send \in Int /\ bytes_have_send \in Nat
    /\ m_file_address \in {"null", "file", "failed"} /\ mapped \in 0..MaxRounds
    /\ left \in BOOLEAN

Contains(s, x) == \E i \in 1..Len(s) : s[i] = x

\* All of a request was read, process_read has looked at it, and waits for more.
Ignored == pc = "idle" /\ request # << >> /\ todo = << >>

\* However a request is cut into pieces, and whatever came before it on the connection or
\* on the object, it is answered when all of it was read; but for a body of which parse_line
\* has walked over a part, when a part of it was missing.
IsAnswered ==
    Ignored => /\ Contains(request, "len") /\ m_check_state = "CONTENT"
               /\ m_checked_idx > Len(request) - BodyLength

\* A request is not answered before all of it was read, but for a bad request line, which
\* is answered at once.
NotAnsweredEarly ==
    pc \in {"respond", "write"} => buf = request \/ ret = "BAD_REQUEST"

\* The answer is that of the request, and so is whether the connection is kept: nothing of
\* an earlier request is left in the parser.
AnswerIsRight ==
    pc \in {"respond", "write"} =>
        /\ request[1] # "get" => ret = "BAD_REQUEST"
        /\ m_linger => Contains(request, "keep")
        /\ ret # "BAD_REQUEST" => (Contains(request, "keep") => m_linger)

\* write is done, and has not failed.
Written == whole # 0 /\ pc \in {"idle", "closed"} /\ wire # << >>

\* When write is done, what the client got is the response from its first byte to its
\* last, if the socket took it at once, over any number of EAGAINs.
WholeUnlessCut == Written /\ ~cut => wire = [i \in 1..whole |-> i]

\* While a response with a file is sent, its memory is there unless do_request got none: the
\* pointer was not reset, and leads to a mapping that exists or is MAP_FAILED.  No file stays
\* mapped after its response, until a client leaves while one is: close_conn unmaps nothing.
MappedWhileSent ==
    /\ pc = "write" /\ ret = "FILE_REQUEST" => m_file_address # "null"
    /\ m_file_address = "file" => mapped > 0
    /\ ~left /\ pc \in {"idle", "closed"} => mapped = 0
=============================================================================
