--------------------------- MODULE HttpConnProofs ---------------------------
(***************************************************************************)
(* Proofs about HttpConn, for any set of requests, any sizes of the        *)
(* buffer, the body, the headers and the file, and any number of requests. *)
(*                                                                         *)
(* ConnInv, types and what is mapped, needs nothing of the requests.       *)
(* ParserInv says how far the parser is in a request that is well formed   *)
(* (RequestAssumption), however it is cut; what the answer is and when it  *)
(* is given follows from it.  WireInv is about the response.               *)
(***************************************************************************)
EXTENDS HttpConn, SequenceTheorems, NaturalsInduction, WellFoundedInduction, TLAPS

-----------------------------------------------------------------------------
(* parse_line.                                                             *)

Ends == {"CR", "LF"}

\* A set of numbers has a least one.
LEMMA LeastExists ==
  ASSUME NEW S \in SUBSET Nat, S # {}
  PROVE  \E m \in S : \A n \in S : m <= n
<1>1. IsWellFoundedOn(OpToRel(<, Nat), Nat)
  BY NatLessThanWellFounded
<1>2. PICK m \in S : \A n \in S : <<n, m>> \notin OpToRel(<, Nat)
  BY <1>1, WFMin
<1>3. \A n \in S : ~(n < m)
  BY <1>2 DEF OpToRel
<1>4. m \in S /\ \A n \in S : n \in Nat
  BY <1>2
<1>5. \A n \in S : m <= n
  BY ONLY <1>3, <1>4
<1> QED
  BY ONLY <1>4, <1>5

\* What parse_line finds in b from index c: no line end, or a first one, with what follows
\* it or comes before it.
Found(b, c, l) ==
    \/ /\ \A i \in (c + 1)..Len(b) : b[i] \notin Ends
       /\ l.status = "OPEN" /\ l.idx = Len(b)
    \/ \E p \in (c + 1)..Len(b) :
          /\ b[p] \in Ends /\ \A i \in (c + 1)..(p - 1) : b[i] \notin Ends
          /\ \/ b[p] = "CR" /\ p = Len(b) /\ l.status = "OPEN" /\ l.idx = p - 1
             \/ b[p] = "CR" /\ p < Len(b) /\ b[p + 1] = "LF" /\ l.status = "OK" /\ l.idx = p + 1
             \/ b[p] = "CR" /\ p < Len(b) /\ b[p + 1] # "LF" /\ l.status = "BAD" /\ l.idx = p - 1
             \/ b[p] = "LF" /\ p > 2 /\ b[p - 1] = "CR" /\ l.status = "OK" /\ l.idx = p
             \/ b[p] = "LF" /\ ~(p > 2 /\ b[p - 1] = "CR") /\ l.status = "BAD" /\ l.idx = p - 1

LEMMA LineFound ==
  ASSUME NEW b \in Seq(Bytes), NEW c \in 0..Len(b)
  PROVE  Found(b, c, ParseLine(b, c))
<1> DEFINE ends == {i \in c..(Len(b) - 1) : b[i + 1] \in {"CR", "LF"}}
           end == CHOOSE i \in ends : \A j \in ends : i <= j
           l == ParseLine(b, c)
<1>n. Len(b) \in Nat /\ c \in 0..Len(b)
  BY LenProperties
<1> SUFFICES Found(b, c, l)
  OBVIOUS
<1>1. CASE ends = {}
  <2>1. l = [status |-> "OPEN", idx |-> Len(b)]
    BY <1>1 DEF ParseLine
  <2>2. ASSUME NEW i \in (c + 1)..Len(b), b[i] \in Ends
        PROVE  FALSE
    <3>1. i - 1 \in c..(Len(b) - 1) /\ (i - 1) + 1 = i
      BY <1>n, <2>2
    <3>2. i - 1 \in ends
      BY <2>2, <3>1 DEF Ends
    <3> QED
      BY <1>1, <3>2
  <2>3. l.status = "OPEN" /\ l.idx = Len(b)
    BY ONLY <2>1
  <2> QED
    BY ONLY <2>2, <2>3 DEF Found
<1>2. CASE ends # {}
  <2>1. ends \in SUBSET Nat
    BY <1>n
  <2>2. \E i \in ends : \A j \in ends : i <= j
    BY ONLY <1>2, <2>1, LeastExists
  <2>3. end \in ends /\ \A j \in ends : end <= j
    BY ONLY <2>2
  <2>4. l = CASE ends = {} -> [status |-> "OPEN", idx |-> Len(b)]
              [] ends # {} /\ b[end + 1] = "CR" ->
                   IF end + 1 = Len(b) THEN [status |-> "OPEN", idx |-> end]
                   ELSE IF b[end + 1 + 1] = "LF" THEN [status |-> "OK", idx |-> end + 2]
                   ELSE [status |-> "BAD", idx |-> end]
              [] OTHER -> IF end > 1 /\ b[end - 1 + 1] = "CR" THEN [status |-> "OK", idx |-> end + 1]
                          ELSE [status |-> "BAD", idx |-> end]
    BY DEF ParseLine
  <2> DEFINE p == end + 1
  <2>6. end \in c..(Len(b) - 1) /\ b[end + 1] \in {"CR", "LF"}
    BY ONLY <2>3
  <2> HIDE DEF l, end, ends
  <2>7. p \in (c + 1)..Len(b) /\ b[p] \in Ends /\ end = p - 1 /\ end \in Int /\ p = end + 1
    BY ONLY <2>6, <1>n DEF Ends
  <2>8. ASSUME NEW i \in (c + 1)..(p - 1), b[i] \in Ends
        PROVE  FALSE
    <3>1. i - 1 \in c..(Len(b) - 1) /\ (i - 1) + 1 = i /\ i - 1 < end
      BY ONLY <1>n, <2>8, <2>7
    <3>2. i - 1 \in ends
      BY <2>8, <3>1 DEF Ends, ends
    <3>3. end <= i - 1
      BY ONLY <2>3, <3>2
    <3> QED
      BY ONLY <3>1, <3>3, <2>7
  <2> HIDE DEF p
  <2>9. CASE b[p] = "CR"
    <3>1. l = IF p = Len(b) THEN [status |-> "OPEN", idx |-> p - 1]
              ELSE IF b[p + 1] = "LF" THEN [status |-> "OK", idx |-> p + 1]
              ELSE [status |-> "BAD", idx |-> p - 1]
      <4>1. end + 1 = p /\ end + 1 + 1 = p + 1 /\ end + 2 = p + 1 /\ end = p - 1
        BY ONLY <2>7
      <4>2. ends # {} /\ b[end + 1] = "CR"
        BY ONLY <1>2, <2>9, <4>1
      <4> QED
        BY ONLY <2>4, <4>1, <4>2
    <3>2. p < Len(b) \/ p = Len(b)
      BY ONLY <2>7, <1>n
    <3>3. \/ p = Len(b) /\ l.status = "OPEN" /\ l.idx = p - 1
          \/ p < Len(b) /\ b[p + 1] = "LF" /\ l.status = "OK" /\ l.idx = p + 1
          \/ p < Len(b) /\ b[p + 1] # "LF" /\ l.status = "BAD" /\ l.idx = p - 1
      BY ONLY <3>1, <3>2, <2>7, <1>n
    <3> QED
      BY ONLY <3>3, <2>7, <2>8, <2>9 DEF Found
  <2>10. CASE b[p] = "LF"
    <3>1. l = IF p > 2 /\ b[p - 1] = "CR" THEN [status |-> "OK", idx |-> p]
              ELSE [status |-> "BAD", idx |-> p - 1]
      <4>1. end + 1 = p /\ end - 1 + 1 = p - 1 /\ (end > 1 <=> p > 2) /\ end = p - 1
        BY ONLY <2>7
      <4>2. ends # {} /\ b[end + 1] # "CR"
        BY ONLY <1>2, <2>10, <4>1
      <4> QED
        BY ONLY <2>4, <4>1, <4>2
    <3>2. \/ p > 2 /\ b[p - 1] = "CR" /\ l.status = "OK" /\ l.idx = p
          \/ ~(p > 2 /\ b[p - 1] = "CR") /\ l.status = "BAD" /\ l.idx = p - 1
      BY ONLY <3>1
    <3> QED
      BY ONLY <3>2, <2>7, <2>8, <2>10 DEF Found
  <2> QED
    BY <2>7, <2>9, <2>10 DEF Ends
<1> QED
  BY <1>1, <1>2

-----------------------------------------------------------------------------
(* Types, and what is mapped.                                              *)

\* An object has not mapped more files than it was sent requests, and one less while the
\* request at hand may still need its file, or got none; the pointer is what mmap returned.
Mapping ==
    /\ mapped <= rounds
    /\ m_file_address = "file" => mapped > 0
    /\ pc = "parse" \/ (pc = "idle" /\ todo # << >>)
         \/ (pc \in {"respond", "write"} /\ (ret # "FILE_REQUEST" \/ m_file_address # "file"))
       => mapped < rounds
    /\ pc \in {"respond", "write"} /\ ret = "FILE_REQUEST" => m_file_address # "null"
    /\ ~left => /\ mapped = IF m_file_address = "file" THEN 1 ELSE 0
                /\ pc \in {"idle", "parse", "closed"} \/ ret # "FILE_REQUEST" =>
                       m_file_address # "file"

\* That mapped stays within its type needs Mapping.
ConnInv == TypeOK /\ Mapping

\* Where parse_line leaves its index.
LEMMA LineType ==
  ASSUME TypeOK
  PROVE  Line.status \in {"OK", "OPEN", "BAD"} /\ Line.idx \in m_checked_idx..Len(buf)
<1> DEFINE l == ParseLine(buf, m_checked_idx)
<1>1. buf \in Seq(Bytes) /\ m_checked_idx \in 0..Len(buf) /\ Len(buf) \in Nat
  BY LenProperties DEF TypeOK
<1>2. Found(buf, m_checked_idx, l)
  BY <1>1, LineFound
<1>3. Line = IF InBody THEN [status |-> "OK", idx |-> m_checked_idx] ELSE l
  BY DEF Line
<1> HIDE DEF l
<1>4. l.status \in {"OK", "OPEN", "BAD"} /\ l.idx \in m_checked_idx..Len(buf)
  BY <1>1, <1>2 DEF Found
<1> QED
  BY <1>1, <1>3, <1>4

LEMMA InitConnInv == Init => ConnInv
<1> SUFFICES ASSUME Init
             PROVE  ConnInv
  OBVIOUS
<1>0. << >> \in Seq(Bytes) /\ << >> \in Seq(Nat) /\ Len(<< >>) = 0
  BY EmptySeq
<1>1. TypeOK
  <2>1. /\ request \in Seq(Bytes) /\ todo \in Seq(Bytes) /\ wire \in Seq(Nat) /\ buf \in Seq(Bytes)
        /\ Len(buf) = 0 /\ m_checked_idx = 0 /\ m_start_line = 0
    BY <1>0 DEF Init
  <2>2. Len(buf) < BufferSize /\ m_checked_idx \in 0..Len(buf) /\ m_start_line \in 0..m_checked_idx
    BY ONLY <2>1, HttpAssumption
  <2>3. /\ rounds = 0 /\ pc = "idle" /\ m_check_state = "REQUESTLINE" /\ m_content_length = 0
        /\ line_status = "OK" /\ ret = "NO_REQUEST" /\ whole = 0
        /\ bytes_to_send = 0 /\ bytes_have_send = 0 /\ m_file_address = "null" /\ mapped = 0
    BY DEF Init
  <2>4. m_linger \in BOOLEAN /\ left \in BOOLEAN
    BY DEF Init
  <2> QED
    BY ONLY <2>1, <2>2, <2>3, <2>4, HttpAssumption DEF TypeOK
<1>2. Mapping
  BY DEF Init, Mapping
<1> QED
  BY <1>1, <1>2 DEF ConnInv

LEMMA ClientConnInv ==
  ASSUME ConnInv, NewRequest \/ HangUp \/ NewClient
  PROVE  ConnInv'
<1> USE HttpAssumption DEF ConnInv, client, parser, sender, mapping
<1>1. CASE NewRequest
  <2>1. request' \in Seq(Bytes)
    BY <1>1 DEF NewRequest
  <2>2. TypeOK'
    BY <1>1, <2>1 DEF NewRequest, TypeOK
  <2>3. Mapping'
    BY <1>1 DEF NewRequest, TypeOK, Mapping
  <2> QED
    BY <2>2, <2>3
<1>2. CASE HangUp
  <2>2. TypeOK'
    BY <1>2 DEF HangUp, TypeOK
  <2>3. Mapping'
    BY <1>2 DEF HangUp, TypeOK, Mapping
  <2> QED
    BY <2>2, <2>3
<1>3. CASE NewClient
  <2>1. << >> \in Seq(Bytes) /\ << >> \in Seq(Nat) /\ Len(<< >>) = 0
    BY EmptySeq
  <2>2. TypeOK'
    <3>1. /\ request' \in Seq(Bytes) /\ todo' \in Seq(Bytes) /\ wire' \in Seq(Nat)
          /\ buf' \in Seq(Bytes) /\ Len(buf') = 0 /\ m_checked_idx' = 0 /\ m_start_line' = 0
      BY <1>3, <2>1 DEF NewClient, Reset
    <3>2. /\ Len(buf') < BufferSize /\ m_checked_idx' \in 0..Len(buf')
          /\ m_start_line' \in 0..m_checked_idx'
      BY ONLY <3>1, HttpAssumption
    <3> QED
      BY <1>3, <3>1, <3>2 DEF NewClient, Reset, TypeOK
  <2>3. Mapping'
    BY <1>3 DEF NewClient, Reset, TypeOK, Mapping
  <2> QED
    BY <2>2, <2>3
<1> QED
  BY <1>1, <1>2, <1>3

LEMMA ReadConnInv ==
  ASSUME ConnInv, NEW n \in 1..Len(todo), Read(n) \/ ReadOverflows(n)
  PROVE  ConnInv'
<1> USE DEF ConnInv, client, parser, sender, mapping
<1>0. todo \in Seq(Bytes) /\ Len(todo) \in Nat /\ buf \in Seq(Bytes) /\ Len(buf) \in Nat
  BY LenProperties DEF TypeOK
<1>1. CASE Read(n)
  <2> DEFINE new == SubSeq(todo, 1, n)
             rest == SubSeq(todo, n + 1, Len(todo))
  <2>1. new \in Seq(Bytes) /\ Len(new) = n
    <3>1. \A i \in 1..n : todo[i] \in Bytes
      BY <1>0, ElementOfSeq
    <3> QED
      BY ONLY <1>0, <3>1, n \in 1..Len(todo), SubSeqProperties
  <2>2. rest \in Seq(Bytes)
    <3>1. \A i \in (n + 1)..Len(todo) : todo[i] \in Bytes
      BY <1>0, ElementOfSeq
    <3>2. n + 1 \in Int /\ Len(todo) \in Int
      BY <1>0
    <3> QED
      BY <3>1, <3>2, SubSeqProperties
  <2>3. buf \o new \in Seq(Bytes) /\ Len(buf \o new) = Len(buf) + n
    BY <1>0, <2>1, ConcatProperties
  <2>4. todo # << >>
    BY <1>0
  <2>5. buf' = buf \o new /\ todo' = rest
    BY <1>1 DEF Read
  <2> HIDE DEF new, rest
  <2>6. TypeOK'
    <3>1. buf' \in Seq(Bytes) /\ Len(buf') < BufferSize /\ Len(buf') \in Nat /\ Len(buf) <= Len(buf')
      BY <1>0, <1>1, <2>3, <2>5 DEF Read
    <3>2. m_checked_idx' \in 0..Len(buf') /\ m_start_line' \in 0..m_checked_idx'
      BY <1>0, <1>1, <3>1 DEF Read, TypeOK
    <3> QED
      BY <1>1, <2>2, <2>5, <3>1, <3>2 DEF Read, TypeOK
  <2>7. Mapping'
    BY <1>1, <2>4 DEF Read, Mapping
  <2> QED
    BY <2>6, <2>7
<1>2. CASE ReadOverflows(n)
  <2>1. TypeOK'
    BY <1>2 DEF ReadOverflows, TypeOK
  <2>2. Mapping'
    BY <1>2 DEF ReadOverflows, Mapping
  <2> QED
    BY <2>1, <2>2
<1> QED
  BY <1>1, <1>2

LEMMA DoRequestMapping ==
  ASSUME ConnInv, DoRequest, pc = "parse", UNCHANGED <<rounds, todo>>
  PROVE  Mapping' /\ m_file_address' \in {"null", "file", "failed"} /\ mapped' \in 0..MaxRounds
<1>1. pc' = "respond" /\ ret' \in Outcomes /\ left' = left
  BY DEF DoRequest
<1>2. CASE ret' = "FILE_REQUEST" /\ m_file_address' = "file" /\ mapped' = mapped + 1
  BY <1>1, <1>2, HttpAssumption DEF ConnInv, TypeOK, Mapping
<1>3. CASE ret' \in {"FILE_REQUEST", "EMPTY_FILE"} /\ m_file_address' = "failed" /\ mapped' = mapped
  BY <1>1, <1>3 DEF ConnInv, TypeOK, Mapping
<1>4. CASE /\ ret' \notin {"FILE_REQUEST", "EMPTY_FILE"}
           /\ m_file_address' = m_file_address /\ mapped' = mapped
  BY <1>1, <1>4 DEF ConnInv, TypeOK, Mapping
<1> QED
  BY <1>2, <1>3, <1>4 DEF DoRequest

LEMMA ParseConnInv ==
  ASSUME ConnInv, Parse
  PROVE  ConnInv'
<1> USE DEF ConnInv, client, parser, sender, mapping
<1>0. /\ Line.status \in {"OK", "OPEN", "BAD"} /\ Line.idx \in m_checked_idx..Len(buf)
      /\ Len(buf) \in Nat
  BY LineType, LenProperties DEF TypeOK
<1> HIDE DEF Line
<1>1. CASE NoLine
  <2>1. m_checked_idx' \in 0..Len(buf') /\ m_start_line' \in 0..m_checked_idx'
    BY <1>0, <1>1 DEF NoLine, TypeOK
  <2>2. TypeOK'
    BY <1>0, <1>1, <2>1 DEF NoLine, TypeOK
  <2>3. Mapping'
    BY <1>1 DEF NoLine, Mapping
  <2> QED
    BY <2>2, <2>3
<1>2. ASSUME NEW state, Turn(state)
      PROVE  /\ pc = "parse" /\ m_checked_idx' \in 0..Len(buf') /\ m_start_line' \in 0..m_checked_idx'
             /\ UNCHANGED <<client, buf, sender>>
  BY <1>0, <1>2 DEF Turn, TypeOK
<1>3. CASE RequestLine
  <2>1. TypeOK'
    BY <1>2, <1>3 DEF RequestLine, TypeOK
  <2>2. Mapping'
    BY <1>2, <1>3 DEF RequestLine, Mapping
  <2> QED
    BY <2>1, <2>2
<1>4. CASE BadRequestLine
  <2>1. TypeOK'
    BY <1>2, <1>4 DEF BadRequestLine, TypeOK, Outcomes
  <2>2. Mapping'
    BY <1>2, <1>4 DEF BadRequestLine, Mapping
  <2> QED
    BY <2>1, <2>2
<1>5. CASE Header
  <2>1. m_linger' \in BOOLEAN
    BY <1>5 DEF Header, TypeOK
  <2>2. m_content_length' \in {0, BodyLength}
    BY <1>5 DEF Header, TypeOK
  <2>3. TypeOK'
    BY <1>2, <1>5, <2>1, <2>2 DEF Header, TypeOK
  <2>4. Mapping'
    BY <1>2, <1>5 DEF Header, Mapping
  <2> QED
    BY <2>3, <2>4
<1>6. CASE EndOfHead \/ BodyComplete
  <2>1. /\ DoRequest /\ pc = "parse" /\ m_checked_idx' \in 0..Len(buf')
        /\ m_start_line' \in 0..m_checked_idx'
        /\ UNCHANGED <<client, buf, sender, m_check_state, m_content_length, m_linger>>
        /\ line_status' \in {line_status, "OK"}
    BY <1>2, <1>6 DEF EndOfHead, BodyComplete
  <2>2. Mapping' /\ m_file_address' \in {"null", "file", "failed"} /\ mapped' \in 0..MaxRounds
    BY <2>1, DoRequestMapping
  <2>3. ret' \in Outcomes /\ pc' = "respond" /\ left' = left
    BY <2>1 DEF DoRequest
  <2>4. TypeOK'
    BY <2>1, <2>2, <2>3 DEF TypeOK
  <2> QED
    BY <2>2, <2>4
<1>7. CASE BodyFollows
  <2>1. TypeOK'
    BY <1>2, <1>7 DEF BodyFollows, TypeOK
  <2>2. Mapping'
    BY <1>2, <1>7 DEF BodyFollows, Mapping
  <2> QED
    BY <2>1, <2>2
<1>8. CASE BodyMissing
  <2>1. TypeOK'
    BY <1>2, <1>8 DEF BodyMissing, TypeOK
  <2>2. Mapping'
    BY <1>2, <1>8 DEF BodyMissing, Mapping
  <2> QED
    BY <2>1, <2>2
<1> QED
  BY <1>1, <1>3, <1>4, <1>5, <1>6, <1>7, <1>8 DEF Parse

\* What a call of writev that took n bytes does to the types of the sender.
LEMMA TakenType ==
  ASSUME ConnInv, NEW n \in 1..whole, Taken(n)
  PROVE  /\ pc = "write" /\ wire' \in Seq(Nat) /\ cut' \in BOOLEAN
         /\ bytes_to_send' \in Int /\ bytes_have_send' \in Nat
<1>1. n \in Nat /\ wire \in Seq(Nat)
  BY DEF ConnInv, TypeOK
<1>2. [i \in 1..n |-> i] \in Seq(Nat)
  BY <1>1
<1>3. wire \o [i \in 1..n |-> i] \in Seq(Nat)
  BY ONLY <1>1, <1>2, ConcatProperties
<1>4. wire' \in Seq(Nat)
  BY <1>3 DEF Taken
<1>5. cut' \in BOOLEAN
  BY DEF Taken, ConnInv, TypeOK
<1> QED
  BY <1>1, <1>4, <1>5 DEF Taken, ConnInv, TypeOK

LEMMA UnmapMapping ==
  ASSUME ConnInv, Unmap, pc = "write", pc' \in {"idle", "closed"}, UNCHANGED rounds
  PROVE  Mapping' /\ m_file_address' = "null" /\ mapped' \in 0..MaxRounds
<1>1. m_file_address' = "null" /\ left' = left
  BY DEF Unmap
<1>2. CASE m_file_address = "file"
  <2>1. mapped' = mapped - 1
    BY <1>2 DEF Unmap
  <2> QED
    BY <1>1, <1>2, <2>1, HttpAssumption DEF ConnInv, TypeOK, Mapping
<1>3. CASE m_file_address # "file"
  <2>1. mapped' = mapped
    BY <1>3 DEF Unmap
  <2> QED
    BY <1>1, <1>3, <2>1, HttpAssumption DEF ConnInv, TypeOK, Mapping
<1> QED
  BY <1>2, <1>3

LEMMA WriteConnInv ==
  ASSUME ConnInv, RespondFails \/ Respond \/ Write
  PROVE  ConnInv'
<1> USE DEF ConnInv, client, parser, sender, mapping
<1>1. CASE RespondFails
  <2>1. TypeOK'
    BY <1>1 DEF RespondFails, TypeOK
  <2>2. Mapping'
    BY <1>1 DEF RespondFails, Mapping
  <2> QED
    BY <2>1, <2>2
<1>2. CASE Respond
  <2>0. whole' \in Nat /\ bytes_to_send' \in Int /\ bytes_have_send' \in Nat
    BY <1>2, HttpAssumption DEF Respond
  <2>1. TypeOK'
    BY <1>2, <2>0 DEF Respond, TypeOK
  <2>2. Mapping'
    BY <1>2 DEF Respond, Mapping
  <2> QED
    BY <2>1, <2>2
<1>3. CASE WriteAgain
  <2>1. TypeOK'
    BY <1>3, HttpAssumption DEF WriteAgain, TypeOK
  <2>2. Mapping'
    BY <1>3 DEF WriteAgain, Mapping
  <2> QED
    BY <2>1, <2>2
<1>4. CASE WriteFails
  <2>0. << >> \in Seq(Nat)
    BY EmptySeq
  <2>1. Mapping' /\ m_file_address' = "null" /\ mapped' \in 0..MaxRounds
    BY <1>4, UnmapMapping DEF WriteFails
  <2>2. TypeOK'
    BY <1>4, <2>0, <2>1 DEF WriteFails, Unmap, TypeOK
  <2> QED
    BY <2>1, <2>2
<1>5. ASSUME NEW n \in 1..whole, WriteMore(n)
      PROVE  ConnInv'
  <2>1. Taken(n)
    BY <1>5 DEF WriteMore
  <2>2. /\ pc = "write" /\ wire' \in Seq(Nat) /\ cut' \in BOOLEAN
        /\ bytes_to_send' \in Int /\ bytes_have_send' \in Nat
    BY <2>1, TakenType
  <2>3. TypeOK'
    BY <1>5, <2>2 DEF WriteMore, TypeOK
  <2>4. Mapping'
    BY <1>5 DEF WriteMore, Mapping
  <2> QED
    BY <2>3, <2>4
<1>6. ASSUME NEW n \in 1..whole, WriteKeep(n)
      PROVE  ConnInv'
  <2>1. Taken(n)
    BY <1>6 DEF WriteKeep
  <2>2. /\ pc = "write" /\ wire' \in Seq(Nat) /\ cut' \in BOOLEAN
        /\ bytes_to_send' \in Int /\ bytes_have_send' \in Nat
    BY <2>1, TakenType
  <2>3. Mapping' /\ m_file_address' = "null" /\ mapped' \in 0..MaxRounds
    BY <1>6, <2>2, UnmapMapping DEF WriteKeep
  <2>4. << >> \in Seq(Bytes) /\ Len(<< >>) = 0
    BY EmptySeq
  <2>5. TypeOK'
    <3>1. /\ request' \in Seq(Bytes) /\ buf' \in Seq(Bytes) /\ Len(buf') = 0
          /\ m_checked_idx' = 0 /\ m_start_line' = 0
      BY <1>6, <2>4 DEF WriteKeep, Reset
    <3>2. /\ Len(buf') < BufferSize /\ m_checked_idx' \in 0..Len(buf')
          /\ m_start_line' \in 0..m_checked_idx'
      BY ONLY <3>1, HttpAssumption
    <3> QED
      BY <1>6, <2>2, <2>3, <3>1, <3>2 DEF WriteKeep, Unmap, Reset, TypeOK
  <2> QED
    BY <2>3, <2>5
<1>7. ASSUME NEW n \in 1..whole, WriteClose(n)
      PROVE  ConnInv'
  <2>1. Taken(n)
    BY <1>7 DEF WriteClose
  <2>2. /\ pc = "write" /\ wire' \in Seq(Nat) /\ cut' \in BOOLEAN
        /\ bytes_to_send' \in Int /\ bytes_have_send' \in Nat
    BY <2>1, TakenType
  <2>3. Mapping' /\ m_file_address' = "null" /\ mapped' \in 0..MaxRounds
    BY <1>7, <2>2, UnmapMapping DEF WriteClose
  <2>4. TypeOK'
    BY <1>7, <2>2, <2>3 DEF WriteClose, Unmap, TypeOK
  <2> QED
    BY <2>3, <2>4
<1> QED
  BY <1>1, <1>2, <1>3, <1>4, <1>5, <1>6, <1>7 DEF Write

LEMMA NextConnInv ==
  ASSUME ConnInv, [Next]_vars
  PROVE  ConnInv'
<1>1. CASE UNCHANGED vars
  <2>1. TypeOK'
    BY <1>1 DEF vars, client, parser, sender, mapping, ConnInv, TypeOK
  <2>2. Mapping'
    BY <1>1 DEF vars, client, parser, sender, mapping, ConnInv, Mapping
  <2> QED
    BY <2>1, <2>2 DEF ConnInv
<1> QED
  BY <1>1, ClientConnInv, ReadConnInv, ParseConnInv, WriteConnInv DEF Next

THEOREM ConnInvariant == Spec => []ConnInv
  BY InitConnInv, NextConnInv, PTL DEF Spec

\* No number of requests, clients and cuts takes the parser out of its buffer, or leaves a
\* byte of it too few for recv (http_conn.cpp:143).
THEOREM TypeCorrect == Spec => []TypeOK
  BY ConnInvariant, PTL DEF ConnInv

\* While a response with a file is sent, m_file_address is what mmap returned: a mapping that
\* exists, or MAP_FAILED (do_request does not look, http_conn.cpp:473).  No file is mapped
\* between two responses unless close_conn has left one behind.
THEOREM MappedWhenNeeded == Spec => []MappedWhileSent
<1>1. ConnInv => MappedWhileSent
  BY DEF ConnInv, Mapping, MappedWhileSent
<1> QED
  BY <1>1, ConnInvariant, PTL

-----------------------------------------------------------------------------
(* How far the parser is in the request.                                   *)

\* The request on its way is what was read of it and what was not.
Reading ==
    /\ request = << >> \/ request \in Requests
    /\ request = buf \o todo
    /\ pc \in {"parse", "respond", "write"} => request # << >>

InHead == pc \in {"idle", "parse"} /\ m_check_state # "CONTENT"

\* In the head: no line end between m_start_line and m_checked_idx; the lines before
\* m_start_line are not empty, and what they say was noted.  While the program waits, no
\* line is complete.
HeadInv ==
    /\ \A i \in (m_start_line + 1)..m_checked_idx : request[i] \notin Ends
    /\ m_check_state = "REQUESTLINE" => m_start_line = 0 /\ m_content_length = 0 /\ ~m_linger
    /\ m_check_state = "HEAD" =>
          /\ m_start_line >= 3 /\ request[1] = "get"
          /\ request[m_start_line - 1] = "CR" /\ request[m_start_line] = "LF"
          /\ \A i \in 4..m_start_line : ~EmptyLine(request, i)
          /\ m_content_length # 0 <=> \E i \in 2..(m_start_line - 1) : IsLine(request, i, "len")
          /\ m_linger <=> \E i \in 1..m_start_line : request[i] = "keep"
    /\ pc = "idle" => \A i \in (m_start_line + 1)..(Len(buf) - 1) :
                         ~(request[i] = "CR" /\ request[i + 1] = "LF")

\* In the body, of which parse_line may have walked over a part.
BodyInv ==
    /\ m_content_length = BodyLength /\ Contains(request, "len")
    /\ m_checked_idx >= 4 /\ Len(request) <= m_checked_idx + BodyLength
    /\ request[1] = "get" /\ (m_linger <=> Contains(request, "keep"))
    /\ pc = "idle" \/ line_status # "OK" => Len(buf) < m_checked_idx + BodyLength

\* When it is answered.
AnswerInv ==
    /\ buf = request \/ (ret = "BAD_REQUEST" /\ ~m_linger)
    /\ request[1] # "get" => ret = "BAD_REQUEST"
    /\ m_linger => Contains(request, "keep")
    /\ ret # "BAD_REQUEST" => (Contains(request, "keep") => m_linger)

ParserInv ==
    /\ Reading
    /\ InHead => HeadInv
    /\ pc \in {"idle", "parse"} /\ m_check_state = "CONTENT" => BodyInv
    /\ pc \in {"respond", "write"} => AnswerInv

\* What was read is the first part of the request.
LEMMA Prefix ==
  ASSUME ConnInv, Reading
  PROVE  /\ request \in Seq(Bytes) /\ Len(request) \in Nat /\ Len(buf) \in Nat /\ Len(todo) \in Nat
         /\ Len(request) = Len(buf) + Len(todo)
         /\ \A i \in 1..Len(buf) : buf[i] = request[i]
<1>1. buf \in Seq(Bytes) /\ todo \in Seq(Bytes)
  BY DEF ConnInv, TypeOK
<1>2. Len(buf) \in Nat /\ Len(todo) \in Nat
  BY <1>1, LenProperties
<1>3. /\ buf \o todo \in Seq(Bytes) /\ Len(buf \o todo) = Len(buf) + Len(todo)
      /\ \A i \in 1..(Len(buf) + Len(todo)) :
            (buf \o todo)[i] = IF i <= Len(buf) THEN buf[i] ELSE todo[i - Len(buf)]
  BY ONLY <1>1, ConcatProperties
<1>4. request = buf \o todo
  BY DEF Reading
<1> QED
  BY ONLY <1>2, <1>3, <1>4

\* As long as the parser is in the head, it is at least two bytes before its end.
LEMMA HeadBound ==
  ASSUME ConnInv, HeadInv, InHead, NEW h \in Nat, h >= 4, IsHead(request, h)
  PROVE  m_start_line + 2 <= h /\ request[h - 1] = "CR" /\ request[h] = "LF"
<1>1. m_start_line \in Nat
  BY LenProperties DEF ConnInv, TypeOK
<1>2. request[h - 1] = "CR" /\ request[h] = "LF" /\ EmptyLine(request, h)
  BY DEF IsHead, EmptyLine
<1>3. CASE m_check_state = "REQUESTLINE"
  BY <1>2, <1>3 DEF HeadInv
<1>4. CASE m_check_state = "HEAD"
  <2>1. /\ request[m_start_line] = "LF"
        /\ \A i \in 4..m_start_line : ~EmptyLine(request, i)
    BY <1>4 DEF HeadInv
  <2>2. ~(h <= m_start_line)
    BY ONLY <1>1, <1>2, <2>1, h \in Nat, h >= 4
  <2>3. h # m_start_line + 1
    <3> SUFFICES ASSUME h = m_start_line + 1
                 PROVE  FALSE
      OBVIOUS
    <3>1. h - 1 = m_start_line
      BY <1>1
    <3> QED
      BY ONLY <3>1, <1>2, <2>1
  <2> QED
    BY <1>1, <1>2, <2>2, <2>3
<1> QED
  BY <1>3, <1>4 DEF InHead, ConnInv, TypeOK

\* A line that parse_line finds in the head.
HeadLine(p) ==
    /\ p \in (m_start_line + 1)..(Len(buf) - 1) /\ Line.idx = p + 1
    /\ request[p] = "CR" /\ request[p + 1] = "LF"
    /\ \A i \in (m_start_line + 1)..(p - 1) : request[i] \notin Ends

LEMMA FirstEndInHead ==
  ASSUME ConnInv, Reading, HeadInv, InHead, pc = "parse"
  PROVE  /\ Line.status = "OK" => \E p \in Nat : HeadLine(p)
         /\ Line.status # "OK" =>
               /\ \A i \in (m_start_line + 1)..Line.idx : request[i] \notin Ends
               /\ \A i \in (m_start_line + 1)..(Len(buf) - 1) :
                     ~(request[i] = "CR" /\ request[i + 1] = "LF")
<1> DEFINE l == ParseLine(buf, m_checked_idx)
           s == m_start_line
           c == m_checked_idx
<1>1. /\ request \in Seq(Bytes) /\ Len(request) \in Nat /\ Len(buf) \in Nat
      /\ Len(buf) <= Len(request) /\ \A i \in 1..Len(buf) : buf[i] = request[i]
  BY Prefix
<1>2. c \in 0..Len(buf) /\ s \in 0..c /\ buf \in Seq(Bytes)
  BY DEF ConnInv, TypeOK
<1>3. Found(buf, c, l)
  BY <1>2, LineFound
<1>4. Line = l
  BY DEF Line, InBody, InHead
<1>5. PICK h \in 4..Len(request) : IsHead(request, h)
  BY RequestAssumption DEF IsRequest, Reading
<1>6. h \in Nat /\ h >= 4 /\ h <= Len(request)
  BY <1>1, <1>5
<1>7. s + 2 <= h /\ request[h - 1] = "CR" /\ request[h] = "LF"
  BY <1>5, <1>6, HeadBound
<1>8. \A i \in (s + 1)..c : request[i] \notin Ends
  BY DEF HeadInv
<1>9. /\ request[1] # "LF"
      /\ \A i \in 1..(h - 1) : request[i] = "CR" <=> request[i + 1] = "LF"
  BY <1>5 DEF IsHead
<1>s. s = 0 \/ request[s] = "LF"
  BY DEF HeadInv, InHead, ConnInv, TypeOK
<1> HIDE DEF l, s, c
<1>10. CASE /\ \A i \in (c + 1)..Len(buf) : buf[i] \notin Ends
            /\ l.status = "OPEN" /\ l.idx = Len(buf)
  <2>1. \A i \in (s + 1)..Len(buf) : request[i] \notin Ends
    BY ONLY <1>1, <1>2, <1>8, <1>10
  <2>2. \A i \in (s + 1)..(Len(buf) - 1) : ~(request[i] = "CR" /\ request[i + 1] = "LF")
    BY ONLY <2>1, <1>1, <1>2 DEF Ends
  <2> QED
    BY <1>4, <1>10, <2>1, <2>2 DEF s
<1>11. ASSUME NEW p \in (c + 1)..Len(buf), buf[p] \in Ends,
              \A i \in (c + 1)..(p - 1) : buf[i] \notin Ends,
              \/ buf[p] = "CR" /\ p = Len(buf) /\ l.status = "OPEN" /\ l.idx = p - 1
              \/ buf[p] = "CR" /\ p < Len(buf) /\ buf[p + 1] = "LF" /\ l.status = "OK" /\ l.idx = p + 1
              \/ buf[p] = "CR" /\ p < Len(buf) /\ buf[p + 1] # "LF" /\ l.status = "BAD" /\ l.idx = p - 1
              \/ buf[p] = "LF" /\ p > 2 /\ buf[p - 1] = "CR" /\ l.status = "OK" /\ l.idx = p
              \/ buf[p] = "LF" /\ ~(p > 2 /\ buf[p - 1] = "CR") /\ l.status = "BAD" /\ l.idx = p - 1
       PROVE  /\ l.status = "OK" => \E q \in Nat : HeadLine(q)
              /\ l.status # "OK" =>
                    /\ \A i \in (s + 1)..l.idx : request[i] \notin Ends
                    /\ \A i \in (s + 1)..(Len(buf) - 1) : ~(request[i] = "CR" /\ request[i + 1] = "LF")
  <2>1. /\ p \in Nat /\ p > s /\ p >= 1 /\ p <= Len(buf) /\ p > c /\ request[p] = buf[p]
        /\ s \in Nat /\ c \in Nat
    BY ONLY <1>1, <1>2, <1>11
  <2>2. \A i \in (s + 1)..(p - 1) : request[i] \notin Ends
    BY ONLY <1>1, <1>2, <1>8, <1>11, <2>1
  <2>3. p <= h - 1
    <3> SUFFICES ASSUME p > h - 1
                 PROVE  FALSE
      BY <1>6, <2>1
    <3>1. h - 1 \in (s + 1)..(p - 1)
      BY <1>6, <1>7, <2>1
    <3> QED
      BY <1>7, <2>2, <3>1 DEF Ends
  <2>4. p \in 1..(h - 1)
    BY <1>6, <2>1, <2>3
  <2>5. request[p] # "LF"
    <3> SUFFICES ASSUME request[p] = "LF"
                 PROVE  FALSE
      OBVIOUS
    <3>1. p # 1
      BY <1>9
    <3>2. p - 1 \in 1..(h - 1) /\ (p - 1) + 1 = p
      BY <2>1, <2>4, <3>1, <1>6
    <3>3. request[p - 1] = "CR"
      BY <1>9, <3>2
    <3>4. p - 1 \notin (s + 1)..(p - 1)
      BY <2>2, <3>3 DEF Ends
    <3>5. p - 1 = s
      BY <2>1, <3>4
    <3> QED
      BY <1>s, <3>1, <3>3, <3>5, <2>1
  <2>6. buf[p] = "CR" /\ request[p] = "CR" /\ request[p + 1] = "LF"
    <3>1. request[p] = "CR"
      BY <1>11, <2>1, <2>5 DEF Ends
    <3> QED
      BY <3>1, <2>1, <2>4, <1>9
  <2>7. CASE p < Len(buf)
    <3>1. buf[p + 1] = "LF"
      BY <1>1, <2>1, <2>6, <2>7
    <3>2. l.status = "OK" /\ l.idx = p + 1
      BY <1>11, <2>6, <2>7, <3>1, <1>1, <2>1
    <3>3. HeadLine(p)
      <4>1. p \in (s + 1)..(Len(buf) - 1)
        BY <2>1, <2>7, <1>1
      <4> QED
        BY <4>1, <3>2, <1>4, <2>2, <2>6 DEF HeadLine, s
    <3> QED
      BY <2>1, <3>2, <3>3
  <2>8. CASE p = Len(buf)
    <3>1. l.status = "OPEN" /\ l.idx = p - 1
      BY <1>11, <2>6, <2>8, <1>1, <2>1
    <3>2. \A i \in (s + 1)..(Len(buf) - 1) : ~(request[i] = "CR" /\ request[i + 1] = "LF")
      BY <2>2, <2>8 DEF Ends
    <3> QED
      BY <2>2, <3>1, <3>2
  <2> QED
    BY <2>1, <2>7, <2>8, <1>1
<1>12. /\ l.status = "OK" => \E q \in Nat : HeadLine(q)
       /\ l.status # "OK" =>
             /\ \A i \in (s + 1)..l.idx : request[i] \notin Ends
             /\ \A i \in (s + 1)..(Len(buf) - 1) : ~(request[i] = "CR" /\ request[i + 1] = "LF")
  BY <1>3, <1>10, <1>11, <1>4 DEF Found, s
<1> QED
  BY <1>12, <1>4 DEF s

\* The text of a line of the head, as far as the parser looks at it.
LEMMA HeadText ==
  ASSUME ConnInv, Reading, NEW p \in Nat, HeadLine(p)
  PROVE  /\ Text = << >> <=> p = m_start_line + 1
         /\ \A b \in Bytes : Text = <<b>> <=> p = m_start_line + 2 /\ request[m_start_line + 1] = b
<1> DEFINE s == m_start_line
<1>1. /\ Len(buf) \in Nat /\ buf \in Seq(Bytes) /\ s \in Nat
      /\ \A i \in 1..Len(buf) : buf[i] = request[i]
  BY Prefix DEF ConnInv, TypeOK
<1>2. p \in (s + 1)..(Len(buf) - 1) /\ Line.idx - 2 = p - 1
  BY DEF HeadLine
<1>3. Text = SubSeq(buf, s + 1, p - 1)
  BY <1>2 DEF Text
<1> HIDE DEF s
<1>4. \A i \in (s + 1)..(p - 1) : buf[i] \in Bytes
  BY <1>1, <1>2, ElementOfSeq
<1>5. s + 1 \in Int /\ p - 1 \in Int
  BY <1>1, <1>2
<1>6. /\ Text \in Seq(Bytes)
      /\ Len(Text) = IF s + 1 <= p - 1 THEN (p - 1) - (s + 1) + 1 ELSE 0
      /\ \A i \in 1..((p - 1) - (s + 1) + 1) : Text[i] = buf[(s + 1) + i - 1]
  BY ONLY <1>3, <1>4, <1>5, SubSeqProperties
<1>7. Text \in Seq(Bytes) /\ Len(Text) = p - 1 - s
  BY <1>6, <1>1, <1>2
<1>8. Text = << >> <=> p = s + 1
  <2>1. Text = << >> => Len(Text) = 0
    BY EmptySeq
  <2>2. Len(Text) = 0 => Text = << >>
    BY <1>7, EmptySeq
  <2> QED
    BY <2>1, <2>2, <1>7, <1>1, <1>2
<1>9. ASSUME NEW b \in Bytes
      PROVE  Text = <<b>> <=> p = s + 2 /\ request[s + 1] = b
  <2>1. <<b>> \in Seq(Bytes) /\ Len(<<b>>) = 1 /\ <<b>>[1] = b
    OBVIOUS
  <2>2. p = s + 2 => Text[1] = request[s + 1]
    BY <1>6, <1>1, <1>2
  <2>3. ASSUME p = s + 2, request[s + 1] = b
        PROVE  Text = <<b>>
    <3>1. Len(Text) = 1 /\ Text[1] = b
      BY <1>7, <1>1, <2>2, <2>3
    <3>2. \A i \in 1..Len(Text) : Text[i] = <<b>>[i]
      BY <2>1, <3>1
    <3> QED
      BY ONLY <1>7, <2>1, <3>1, <3>2, SeqEqual
  <2>4. ASSUME Text = <<b>>
        PROVE  p = s + 2 /\ request[s + 1] = b
    <3>1. Len(Text) = 1 /\ Text[1] = b
      BY <2>1, <2>4
    <3> QED
      BY <3>1, <2>2, <1>7, <1>1, <1>2
  <2> QED
    BY <2>3, <2>4
<1> QED
  BY <1>8, <1>9 DEF s

\* What one more line adds to what the head says.
LEMMA OneMoreLine ==
  ASSUME ConnInv, Reading, HeadInv, InHead, pc = "parse", NEW p \in Nat, HeadLine(p)
  PROVE  /\ \A i \in (m_start_line + 1)..p : IsLine(request, i, "len") =>
               p = m_start_line + 2 /\ request[m_start_line + 1] = "len"
         /\ \A i \in (m_start_line + 1)..(p + 1) : request[i] = "keep" =>
               p = m_start_line + 2 /\ request[m_start_line + 1] = "keep"
         /\ \A i \in (m_start_line + 1)..(p + 1) : i >= 4 /\ EmptyLine(request, i) =>
               i = p + 1 /\ p = m_start_line + 1
<1> DEFINE s == m_start_line
<1>1. /\ s \in Nat /\ p > s /\ p + 1 <= Len(request) /\ request[p] = "CR" /\ request[p + 1] = "LF"
      /\ \A i \in (s + 1)..(p - 1) : request[i] \notin Ends
  BY Prefix DEF ConnInv, TypeOK, HeadLine
<1> HIDE DEF s
<1>2. ASSUME NEW x, x \notin Ends, NEW i \in (s + 1)..p, IsLine(request, i, x)
      PROVE  p = s + 2 /\ request[s + 1] = x
  <2>1. request[i - 1] = "LF" /\ request[i] = x /\ request[i + 1] = "CR"
    BY <1>2 DEF IsLine
  <2>2. i \in Nat /\ i <= p - 1
    BY <1>1, <1>2, <2>1 DEF Ends
  <2>3. i - 1 \notin (s + 1)..(p - 1)
    BY <1>1, <2>1 DEF Ends
  <2>4. i = s + 1
    BY <1>1, <1>2, <2>2, <2>3
  <2>5. i + 1 \notin (s + 1)..(p - 1)
    BY <1>1, <2>1 DEF Ends
  <2>6. p = s + 2
    BY <1>1, <2>2, <2>4, <2>5
  <2> QED
    BY <2>1, <2>4, <2>6
<1>3. \A i \in (s + 1)..p : IsLine(request, i, "len") => p = s + 2 /\ request[s + 1] = "len"
  BY <1>2 DEF Ends
<1>4. ASSUME NEW i \in (s + 1)..(p + 1), request[i] = "keep"
      PROVE  p = s + 2 /\ request[s + 1] = "keep"
  <2>1. i \in Nat /\ i >= 1 /\ i <= p - 1
    BY <1>1, <1>4
  <2>2. PICK h \in 4..Len(request) : IsHead(request, h)
    BY RequestAssumption DEF IsRequest, Reading
  <2>3. i \in 1..Len(request)
    BY <2>1, <1>1, Prefix
  <2>4. IsLine(request, i, "keep")
    BY <2>2, <2>3, <1>4 DEF IsHead
  <2>5. i \in (s + 1)..p
    BY <2>1, <1>1, <1>4
  <2> QED
    BY <1>2, <2>4, <2>5 DEF Ends
<1>5. ASSUME NEW i \in (s + 1)..(p + 1), i >= 4, EmptyLine(request, i)
      PROVE  i = p + 1 /\ p = s + 1
  <2>1. request[i] = "LF" /\ request[i - 2] = "LF"
    BY <1>5 DEF EmptyLine
  <2>2. i = p + 1
    <3>1. i \notin (s + 1)..(p - 1) /\ i # p
      BY <1>1, <2>1 DEF Ends
    <3> QED
      BY <1>1, <1>5, <3>1
  <2>3. i - 2 = p - 1
    BY <2>2, <1>1
  <2>4. p - 1 \notin (s + 1)..(p - 1)
    BY <1>1, <2>1, <2>3 DEF Ends
  <2> QED
    BY <1>1, <2>2, <2>4
<1> QED
  BY <1>3, <1>4, <1>5 DEF s

\* The end of the head is where the request has it.
LEMMA HeadEnds ==
  ASSUME ConnInv, Reading, HeadInv, m_check_state = "HEAD", pc = "parse",
         NEW p \in Nat, HeadLine(p), p = m_start_line + 1
  PROVE  /\ p + 1 >= 4 /\ Len(request) = p + 1 + IF m_content_length # 0 THEN BodyLength ELSE 0
         /\ m_linger <=> Contains(request, "keep")
         /\ m_content_length # 0 => Contains(request, "len")
<1> DEFINE s == m_start_line
<1>1. /\ s \in Nat /\ p + 1 <= Len(request) /\ request[p] = "CR" /\ request[p + 1] = "LF"
      /\ Len(request) \in Nat
  BY Prefix DEF ConnInv, TypeOK, HeadLine
<1>2. /\ s >= 3 /\ request[s - 1] = "CR" /\ request[s] = "LF"
      /\ m_content_length # 0 <=> \E i \in 2..(s - 1) : IsLine(request, i, "len")
      /\ m_linger <=> \E i \in 1..s : request[i] = "keep"
  BY DEF HeadInv
<1>3. PICK h \in 4..Len(request) : IsHead(request, h)
  BY RequestAssumption DEF IsRequest, Reading
<1>4. h \in Nat /\ h >= 4
  BY <1>3, <1>1
<1>5. s + 2 <= h
  BY <1>3, <1>4, HeadBound DEF InHead
<1> HIDE DEF s
<1>6. h = p + 1
  <2> SUFFICES ASSUME h # p + 1
               PROVE  FALSE
    OBVIOUS
  <2>0. p = s + 1
    BY DEF s
  <2>1. p + 1 \in 4..(h - 1)
    BY <1>1, <1>2, <1>4, <1>5, <2>0
  <2>2. (p + 1) - 3 = s - 1 /\ (p + 1) - 2 = s /\ (p + 1) - 1 = p
    BY <1>1, <2>0
  <2>3. EmptyLine(request, p + 1)
    BY ONLY <1>1, <1>2, <2>2 DEF EmptyLine
  <2> QED
    BY <1>3, <2>1, <2>3 DEF IsHead
<1>7. /\ Len(request) = h + IF \E i \in 2..(h - 1) : IsLine(request, i, "len") THEN BodyLength ELSE 0
      /\ \A i \in 1..Len(request) : request[i] = "keep" => i \in 2..(h - 1) /\ IsLine(request, i, "keep")
  BY <1>3 DEF IsHead
<1>8. h - 1 = s + 1 /\ p = s + 1
  BY <1>6, <1>1 DEF s
<1>9. (\E i \in 2..(h - 1) : IsLine(request, i, "len")) <=> m_content_length # 0
  <2>1. ASSUME NEW i \in 2..(h - 1), IsLine(request, i, "len")
        PROVE  i \in 2..(s - 1)
    <3>1. request[i] = "len"
      BY <2>1 DEF IsLine
    <3> QED
      BY <3>1, <2>1, <1>1, <1>2, <1>8
  <2>2. \A i \in 2..(s - 1) : i \in 2..(h - 1)
    BY <1>1, <1>8
  <2> QED
    BY <1>2, <2>1, <2>2
<1>10. m_linger <=> Contains(request, "keep")
  <2>1. ASSUME NEW i \in 1..Len(request), request[i] = "keep"
        PROVE  i \in 1..s
    <3>1. i \in 2..(h - 1)
      BY <1>7, <2>1
    <3> QED
      BY <3>1, <2>1, <1>1, <1>8
  <2>2. \A i \in 1..s : i \in 1..Len(request)
    BY <1>1, <1>8
  <2> QED
    BY <1>2, <2>1, <2>2 DEF Contains
<1>11. m_content_length # 0 => Contains(request, "len")
  <2> SUFFICES ASSUME m_content_length # 0
               PROVE  Contains(request, "len")
    OBVIOUS
  <2>1. PICK i \in 2..(s - 1) : IsLine(request, i, "len")
    BY <1>2
  <2>2. i \in 1..Len(request)
    BY <2>1, <1>1, <1>8
  <2> QED
    BY <2>1, <2>2 DEF IsLine, Contains
<1>12. p + 1 >= 4
  BY <1>1, <1>2, <1>8
<1>13. Len(request) = p + 1 + IF m_content_length # 0 THEN BodyLength ELSE 0
  BY <1>6, <1>7, <1>9
<1> QED
  BY <1>10, <1>11, <1>12, <1>13

\* The parser at the start of a request.
LEMMA FreshParser ==
  ASSUME buf' = << >>, m_checked_idx' = 0, m_start_line' = 0, m_check_state' = "REQUESTLINE",
         m_content_length' = 0, m_linger' = FALSE
  PROVE  HeadInv'
<1>1. Len(buf') = 0
  BY EmptySeq
<1>2. \A i \in (m_start_line' + 1)..m_checked_idx' : FALSE
  OBVIOUS
<1>3. \A i \in (m_start_line' + 1)..(Len(buf') - 1) : FALSE
  BY <1>1
<1>4. ~m_linger'
  OBVIOUS
<1> QED
  BY <1>2, <1>3, <1>4 DEF HeadInv

LEMMA InitParserInv == Init => ParserInv
<1> SUFFICES ASSUME Init
             PROVE  ParserInv
  OBVIOUS
<1>0. << >> \in Seq(Bytes) /\ Len(<< >>) = 0
  BY EmptySeq
<1>1. Reading
  <2>1. << >> \o << >> = << >>
    BY <1>0, ConcatEmptySeq
  <2> QED
    BY <2>1 DEF Init, Reading
<1>2. HeadInv
  <2>1. Len(buf) = 0 /\ m_start_line = 0 /\ m_checked_idx = 0
    BY <1>0 DEF Init
  <2>2. /\ \A i \in (m_start_line + 1)..m_checked_idx : FALSE
        /\ \A i \in (m_start_line + 1)..(Len(buf) - 1) : FALSE
    BY ONLY <2>1
  <2>3. m_check_state = "REQUESTLINE" /\ m_content_length = 0 /\ ~m_linger
    BY DEF Init
  <2> QED
    BY <2>1, <2>2, <2>3 DEF HeadInv
<1> QED
  BY <1>1, <1>2 DEF Init, ParserInv

LEMMA ClientParserInv ==
  ASSUME ConnInv, ParserInv, NewRequest \/ HangUp \/ NewClient
  PROVE  ParserInv'
<1> USE DEF client, parser, sender, mapping
<1>1. CASE NewRequest
  <2>1. buf \in Seq(Bytes) /\ todo \in Seq(Bytes) /\ request = << >> /\ request = buf \o todo
    BY <1>1 DEF NewRequest, ConnInv, TypeOK, ParserInv, Reading
  <2>2. buf = << >>
    <3>1. buf \o todo = << >>
      BY ONLY <2>1
    <3> QED
      BY ONLY <2>1, <3>1, ConcatEqualIffEmpty
  <2>3. m_start_line = 0 /\ m_checked_idx = 0
    <3>1. Len(buf) = 0
      BY <2>2, EmptySeq
    <3> QED
      BY <3>1 DEF ConnInv, TypeOK
  <2>4. m_check_state = "REQUESTLINE"
    BY <1>1, <2>3 DEF NewRequest, ParserInv, InHead, HeadInv, BodyInv, ConnInv, TypeOK
  <2>5. request' \in Requests /\ request' \in Seq(Bytes) /\ request' # << >>
    BY <1>1, HttpAssumption DEF NewRequest
  <2>6. Reading'
    <3>1. << >> \o request' = request'
      BY ONLY <2>5, ConcatEmptySeq
    <3> QED
      BY <1>1, <2>2, <2>5, <3>1 DEF NewRequest, Reading
  <2>7. m_content_length = 0 /\ m_linger = FALSE
    BY <1>1, <2>4 DEF NewRequest, ParserInv, InHead, HeadInv, ConnInv, TypeOK
  <2>8. HeadInv'
    BY <1>1, <2>2, <2>3, <2>4, <2>7, FreshParser DEF NewRequest
  <2> QED
    BY <1>1, <2>4, <2>6, <2>8 DEF NewRequest, ParserInv
<1>2. CASE HangUp
  BY <1>2 DEF HangUp, ParserInv, Reading, InHead
<1>3. CASE NewClient
  <2>1. << >> \o << >> = << >>
    BY EmptySeq, ConcatEmptySeq
  <2>2. Reading'
    BY <1>3, <2>1 DEF NewClient, Reset, Reading
  <2>3. HeadInv'
    BY <1>3, FreshParser DEF NewClient, Reset
  <2> QED
    BY <1>3, <2>2, <2>3 DEF NewClient, Reset, ParserInv
<1> QED
  BY <1>1, <1>2, <1>3

LEMMA ReadParserInv ==
  ASSUME ConnInv, ParserInv, NEW n \in 1..Len(todo), Read(n) \/ ReadOverflows(n)
  PROVE  ParserInv'
<1> USE DEF client, parser, sender, mapping
<1>1. CASE Read(n)
  <2>0. /\ todo \in Seq(Bytes) /\ Len(todo) \in Nat /\ buf \in Seq(Bytes) /\ Reading
        /\ request \in Seq(Bytes) /\ Len(request) > 0
    BY Prefix DEF ConnInv, TypeOK, ParserInv
  <2> DEFINE new == SubSeq(todo, 1, n)
             rest == SubSeq(todo, n + 1, Len(todo))
  <2>1. new \o rest = todo
    <3>1. 1 \in 1..(Len(todo) + 1) /\ n \in 0..Len(todo) /\ Len(todo) \in n..Len(todo)
      BY <2>0
    <3>2. n \in (1 - 1)..Len(todo)
      BY <3>1
    <3>3. new \o rest = SubSeq(todo, 1, Len(todo))
      BY ONLY <2>0, <3>1, <3>2, ConcatAdjacentSubSeq
    <3> QED
      BY ONLY <2>0, <3>3, SubSeqFull
  <2>2. new \in Seq(Bytes) /\ rest \in Seq(Bytes)
    <3>1. \A i \in 1..Len(todo) : todo[i] \in Bytes
      BY <2>0, ElementOfSeq
    <3>2. \A i \in 1..n : todo[i] \in Bytes
      BY <2>0, <3>1
    <3>3. \A i \in (n + 1)..Len(todo) : todo[i] \in Bytes
      BY <2>0, <3>1
    <3>4. n \in Int /\ n + 1 \in Int /\ Len(todo) \in Int
      BY <2>0
    <3> QED
      BY ONLY <3>2, <3>3, <3>4, SubSeqProperties
  <2>4. buf' = buf \o new /\ todo' = rest /\ request' = request
    BY <1>1 DEF Read
  <2> HIDE DEF new, rest
  <2>3. (buf \o new) \o rest = buf \o (new \o rest)
    <3>1. ASSUME NEW a \in Seq(Bytes), NEW b \in Seq(Bytes), NEW c \in Seq(Bytes)
          PROVE  (a \o b) \o c = a \o (b \o c)
      BY ONLY <3>1, ConcatAssociative
    <3> QED
      BY <2>0, <2>2, <3>1
  <2>5. request' = buf' \o todo'
    BY <2>0, <2>1, <2>3, <2>4 DEF Reading
  <2>6. request # << >>
    BY <2>0, EmptySeq
  <2>7. Reading'
    BY <2>0, <2>4, <2>5, <2>6 DEF Reading
  <2>8. pc = "idle" /\ pc' = "parse" /\ line_status' = "OK"
        /\ UNCHANGED <<m_checked_idx, m_start_line, m_check_state, m_content_length, m_linger>>
    BY <1>1 DEF Read
  <2>9. InHead => HeadInv'
    BY <2>4, <2>8 DEF ParserInv, InHead, HeadInv
  <2>10. m_check_state = "CONTENT" => BodyInv'
    BY <2>4, <2>8 DEF ParserInv, BodyInv
  <2> QED
    BY <2>7, <2>8, <2>9, <2>10 DEF ParserInv, InHead
<1>2. CASE ReadOverflows(n)
  BY <1>2 DEF ReadOverflows, ParserInv, Reading, InHead
<1> QED
  BY <1>1, <1>2

\* No step of the parser changes what was read.
LEMMA StillReading ==
  ASSUME Reading, UNCHANGED <<client, buf>>, pc = "parse"
  PROVE  Reading'
  BY DEF Reading, client

LEMMA HeadParserInv ==
  ASSUME ConnInv, ConnInv', ParserInv, RequestLine \/ BadRequestLine \/ Header \/ EndOfHead \/ BodyFollows
  PROVE  ParserInv'
<1> USE DEF client, parser, sender, mapping
<1>1. /\ pc = "parse" /\ Line.status = "OK" /\ m_check_state \in {"REQUESTLINE", "HEAD"}
      /\ m_checked_idx' = Line.idx /\ m_start_line' = Line.idx /\ UNCHANGED <<client, buf>>
  BY DEF RequestLine, BadRequestLine, Header, EndOfHead, BodyFollows, Turn
<1>2. Reading /\ InHead /\ HeadInv
  BY <1>1 DEF ParserInv, InHead
<1>3. Reading'
  BY <1>1, <1>2, StillReading
<1>4. PICK p \in Nat : HeadLine(p)
  BY <1>1, <1>2, FirstEndInHead
<1> DEFINE s == m_start_line
<1>5. /\ p \in (s + 1)..(Len(buf) - 1) /\ Line.idx = p + 1
      /\ request[p] = "CR" /\ request[p + 1] = "LF"
      /\ s \in Nat /\ Len(buf) \in Nat /\ Len(request) \in Nat /\ Len(buf) <= Len(request)
  <2>1. Len(buf) \in Nat /\ Len(request) \in Nat /\ Len(buf) <= Len(request)
    BY <1>2, Prefix
  <2>2. s \in Nat
    BY <2>1 DEF ConnInv, TypeOK
  <2> QED
    BY <1>4, <2>1, <2>2 DEF HeadLine
<1>6. /\ Text = << >> <=> p = s + 1
      /\ \A b \in Bytes : Text = <<b>> <=> p = s + 2 /\ request[s + 1] = b
  BY <1>2, <1>4, HeadText
<1>7. /\ \A i \in (s + 1)..p : IsLine(request, i, "len") => p = s + 2 /\ request[s + 1] = "len"
      /\ \A i \in (s + 1)..(p + 1) : request[i] = "keep" => p = s + 2 /\ request[s + 1] = "keep"
      /\ \A i \in (s + 1)..(p + 1) : i >= 4 /\ EmptyLine(request, i) => i = p + 1 /\ p = s + 1
  BY <1>1, <1>2, <1>4, OneMoreLine
<1>8. m_checked_idx' = p + 1 /\ m_start_line' = p + 1 /\ request' = request /\ buf' = buf
  BY <1>1, <1>5
<1>9. \A i \in (m_start_line' + 1)..m_checked_idx' : request'[i] \notin Ends
  BY ONLY <1>5, <1>8
<1>s. m_check_state = "HEAD" =>
        /\ s >= 3 /\ request[1] = "get" /\ request[s - 1] = "CR" /\ request[s] = "LF"
        /\ \A i \in 4..s : ~EmptyLine(request, i)
        /\ m_content_length # 0 <=> \E i \in 2..(s - 1) : IsLine(request, i, "len")
        /\ m_linger <=> \E i \in 1..s : request[i] = "keep"
  BY <1>2 DEF HeadInv
<1> HIDE DEF s
<1>10. CASE RequestLine
  <2>1. /\ m_check_state' = "HEAD" /\ pc' = "parse" /\ m_content_length' = m_content_length
        /\ m_linger' = m_linger /\ Text = <<"get">> /\ m_check_state = "REQUESTLINE"
    BY <1>10, <1>1 DEF RequestLine, Turn
  <2>2. s = 0 /\ m_content_length = 0 /\ ~m_linger
    BY <1>2, <2>1 DEF HeadInv, s
  <2>3. p = 2 /\ request[1] = "get"
    BY <1>6, <2>1, <2>2 DEF Bytes
  <2>4. \A i \in 2..2 : ~IsLine(request, i, "len")
    BY <1>5, <2>3 DEF IsLine
  <2>5. \A i \in 1..3 : request[i] # "keep"
    BY <1>5, <2>3
  <2>6. \A i \in 4..3 : FALSE
    OBVIOUS
  <2>7. p + 1 = 3 /\ (p + 1) - 1 = 2
    BY <2>3
  <2>8. HeadInv'
    BY <1>5, <1>8, <1>9, <2>1, <2>2, <2>3, <2>4, <2>5, <2>6, <2>7 DEF HeadInv
  <2> QED
    BY <1>3, <2>1, <2>8 DEF ParserInv
<1>11. CASE BadRequestLine
  <2>1. /\ pc' = "respond" /\ ret' = "BAD_REQUEST" /\ m_linger' = m_linger
        /\ m_check_state = "REQUESTLINE"
    BY <1>11, <1>1 DEF BadRequestLine, Turn
  <2>2. ~m_linger
    BY <1>2, <2>1 DEF HeadInv
  <2>3. AnswerInv'
    BY <2>1, <2>2 DEF AnswerInv
  <2> QED
    BY <1>3, <2>1, <2>3 DEF ParserInv, InHead
<1>12. CASE Header
  <2>1. /\ m_check_state' = "HEAD" /\ m_check_state = "HEAD" /\ pc' = "parse" /\ Text # << >>
        /\ m_linger' = (m_linger \/ Text = <<"keep">>)
        /\ m_content_length' = IF Text = <<"len">> THEN BodyLength ELSE m_content_length
    BY <1>12, <1>1 DEF Header, Turn
  <2>2. p # s + 1
    BY <1>6, <2>1
  <2>3. \A i \in 4..(p + 1) : ~EmptyLine(request, i)
    <3>1. ASSUME NEW i \in 4..(p + 1)
          PROVE  i \in 4..s \/ (i \in (s + 1)..(p + 1) /\ i >= 4)
      BY <1>5
    <3> QED
      BY <1>7, <1>s, <2>1, <2>2, <3>1
  <2>4. m_content_length' # 0 <=> \E i \in 2..p : IsLine(request, i, "len")
    <3>1. ASSUME Text = <<"len">>
          PROVE  \E i \in 2..p : IsLine(request, i, "len")
      <4>1. p = s + 2 /\ request[s + 1] = "len"
        BY <1>6, <3>1 DEF Bytes
      <4>2. request[(s + 1) - 1] = "LF" /\ request[(s + 1) + 1] = "CR" /\ s + 1 \in 2..p
        <5>1. (s + 1) - 1 = s /\ (s + 1) + 1 = p
          BY <1>5, <4>1
        <5>2. s + 1 \in 2..p
          BY <1>5, <1>s, <2>1, <4>1
        <5> QED
          BY <5>1, <5>2, <1>5, <1>s, <2>1
      <4>3. IsLine(request, s + 1, "len")
        BY ONLY <4>1, <4>2 DEF IsLine
      <4> QED
        BY <4>2, <4>3
    <3>2. ASSUME NEW i \in 2..p, IsLine(request, i, "len"), Text # <<"len">>
          PROVE  i \in 2..(s - 1)
      <4>1. request[i] = "len"
        BY <3>2 DEF IsLine
      <4>2. i # s
        BY <1>s, <2>1, <4>1
      <4>3. i \notin (s + 1)..p
        BY <1>6, <1>7, <3>2 DEF Bytes
      <4> QED
        BY <1>5, <3>2, <4>2, <4>3
    <3>3. \A i \in 2..(s - 1) : i \in 2..p
      BY <1>5
    <3>4. CASE Text = <<"len">>
      BY <2>1, <3>1, <3>4, HttpAssumption
    <3>5. CASE Text # <<"len">>
      <4>1. m_content_length' = m_content_length
        BY <2>1, <3>5
      <4> QED
        BY <1>s, <2>1, <3>2, <3>3, <3>5, <4>1
    <3> QED
      BY <3>4, <3>5
  <2>5. m_linger' <=> \E i \in 1..(p + 1) : request[i] = "keep"
    <3>1. Text = <<"keep">> <=> p = s + 2 /\ request[s + 1] = "keep"
      BY <1>6 DEF Bytes
    <3>2. ASSUME NEW i \in 1..(p + 1), request[i] = "keep"
          PROVE  (\E j \in 1..s : request[j] = "keep") \/ Text = <<"keep">>
      <4>1. i \in 1..s \/ i \in (s + 1)..(p + 1)
        BY <1>5
      <4> QED
        BY <3>1, <3>2, <4>1, <1>7
    <3>3. \A i \in 1..s : i \in 1..(p + 1)
      BY <1>5
    <3>4. s + 1 \in 1..(p + 1)
      BY <1>5
    <3>5. m_linger' <=> m_linger \/ Text = <<"keep">>
      BY <2>1 DEF ConnInv, TypeOK
    <3> QED
      BY <3>1, <3>2, <3>3, <3>4, <3>5, <1>s, <2>1
  <2>6. p + 1 >= 3 /\ (p + 1) - 1 = p
    BY <1>5, <1>s, <2>1
  <2>7. HeadInv'
    BY <1>5, <1>8, <1>9, <1>s, <2>1, <2>3, <2>4, <2>5, <2>6 DEF HeadInv
  <2> QED
    BY <1>3, <2>1, <2>7 DEF ParserInv
<1>13. CASE EndOfHead
  <2>1. /\ m_check_state = "HEAD" /\ Text = << >> /\ m_content_length = 0 /\ pc' = "respond"
        /\ m_linger' = m_linger
    BY <1>13, <1>1 DEF EndOfHead, Turn, DoRequest
  <2>2. p = s + 1
    BY <1>6, <2>1
  <2>3. Len(request) = p + 1 /\ (m_linger <=> Contains(request, "keep"))
    BY <1>1, <1>2, <1>4, <2>1, <2>2, <1>5, HeadEnds DEF s
  <2>4. buf = request
    <3>1. Len(buf) = Len(request)
      BY <1>5, <2>3
    <3>2. buf \in Seq(Bytes) /\ request \in Seq(Bytes) /\ \A i \in 1..Len(buf) : buf[i] = request[i]
      BY <1>2, Prefix DEF ConnInv, TypeOK
    <3> QED
      BY ONLY <3>1, <3>2, SeqEqual
  <2>5. AnswerInv'
    BY <1>8, <1>s, <2>1, <2>3, <2>4 DEF AnswerInv
  <2> QED
    BY <1>3, <2>1, <2>5 DEF ParserInv, InHead
<1>14. CASE BodyFollows
  <2>1. /\ m_check_state = "HEAD" /\ Text = << >> /\ m_content_length # 0 /\ pc' = "parse"
        /\ m_check_state' = "CONTENT" /\ line_status' = "OK"
        /\ m_linger' = m_linger /\ m_content_length' = m_content_length
    BY <1>14, <1>1 DEF BodyFollows, Turn
  <2>2. p = s + 1
    BY <1>6, <2>1
  <2>3. /\ p + 1 >= 4 /\ Len(request) = p + 1 + BodyLength
        /\ (m_linger <=> Contains(request, "keep")) /\ Contains(request, "len")
    BY <1>1, <1>2, <1>4, <2>1, <2>2, HeadEnds DEF s
  <2>4. m_content_length = BodyLength
    BY <2>1 DEF ConnInv, TypeOK
  <2>5. Len(request') <= m_checked_idx' + BodyLength /\ m_checked_idx' >= 4
    BY <1>8, <2>3, HttpAssumption
  <2>6. BodyInv'
    BY <1>8, <1>s, <2>1, <2>3, <2>4, <2>5 DEF BodyInv
  <2> QED
    BY <1>3, <2>1, <2>6 DEF ParserInv, InHead
<1> QED
  BY <1>10, <1>11, <1>12, <1>13, <1>14

LEMMA NoLineParserInv ==
  ASSUME ConnInv, ParserInv, NoLine
  PROVE  ParserInv'
<1> USE DEF client, parser, sender, mapping
<1>1. /\ pc = "parse" /\ pc' = "idle" /\ Line.status # "OK" /\ m_checked_idx' = Line.idx
      /\ line_status' = Line.status
      /\ UNCHANGED <<client, buf, m_start_line, m_check_state, m_content_length, m_linger>>
  BY DEF NoLine
<1>2. Reading /\ Reading'
  BY <1>1, StillReading DEF ParserInv
<1>3. CASE m_check_state # "CONTENT"
  <2>1. InHead /\ HeadInv
    BY <1>1, <1>3 DEF ParserInv, InHead
  <2>2. /\ \A i \in (m_start_line + 1)..Line.idx : request[i] \notin Ends
        /\ \A i \in (m_start_line + 1)..(Len(buf) - 1) :
              ~(request[i] = "CR" /\ request[i + 1] = "LF")
    BY <1>1, <1>2, <2>1, FirstEndInHead
  <2>3. HeadInv'
    BY <1>1, <2>1, <2>2 DEF HeadInv
  <2> QED
    BY <1>1, <1>2, <1>3, <2>3 DEF ParserInv
<1>4. CASE m_check_state = "CONTENT"
  <2>1. BodyInv
    BY <1>1, <1>4 DEF ParserInv
  <2>2. line_status # "OK"
    BY <1>1, <1>4 DEF Line, InBody
  <2>3. m_checked_idx' >= m_checked_idx /\ m_checked_idx' \in Nat /\ m_checked_idx \in Nat
        /\ Len(buf) \in Nat /\ Len(request) \in Nat
    <3>1. Len(buf) \in Nat /\ Len(request) \in Nat
      BY <1>2, Prefix
    <3>2. Line.idx \in m_checked_idx..Len(buf) /\ m_checked_idx \in 0..Len(buf)
      BY LineType DEF ConnInv, TypeOK
    <3> QED
      BY <1>1, <3>1, <3>2
  <2>4. /\ m_checked_idx' >= 4 /\ Len(request) <= m_checked_idx' + BodyLength
        /\ Len(buf) < m_checked_idx' + BodyLength
    BY <2>1, <2>2, <2>3, HttpAssumption DEF BodyInv
  <2>5. BodyInv'
    BY <1>1, <2>1, <2>4 DEF BodyInv
  <2> QED
    BY <1>1, <1>2, <1>4, <2>5 DEF ParserInv, InHead
<1> QED
  BY <1>3, <1>4

LEMMA BodyParserInv ==
  ASSUME ConnInv, ParserInv, BodyComplete \/ BodyMissing
  PROVE  ParserInv'
<1> USE DEF client, parser, sender, mapping
<1>1. /\ pc = "parse" /\ m_check_state = "CONTENT" /\ m_checked_idx' = Line.idx
      /\ UNCHANGED <<client, buf, m_check_state, m_content_length, m_linger>>
  BY DEF BodyComplete, BodyMissing, Turn
<1>2. Reading /\ Reading' /\ BodyInv
  BY <1>1, StillReading DEF ParserInv
<1>3. /\ Len(buf) \in Nat /\ Len(request) \in Nat /\ Len(buf) <= Len(request)
      /\ Line.idx \in Nat /\ m_checked_idx \in Nat /\ Line.idx >= m_checked_idx
  <2>1. Len(buf) \in Nat /\ Len(request) \in Nat /\ Len(buf) <= Len(request)
    BY <1>2, Prefix
  <2>2. Line.idx \in m_checked_idx..Len(buf) /\ m_checked_idx \in 0..Len(buf)
    BY LineType DEF ConnInv, TypeOK
  <2> QED
    BY <2>1, <2>2
<1>4. /\ m_content_length = BodyLength /\ m_checked_idx >= 4
      /\ Len(request) <= m_checked_idx + BodyLength
  BY <1>2 DEF BodyInv
<1>5. CASE BodyComplete
  <2>1. Len(buf) >= Line.idx + m_content_length /\ pc' = "respond"
    BY <1>5 DEF BodyComplete, DoRequest
  <2>2. Len(buf) = Len(request)
    BY <1>3, <1>4, <2>1, HttpAssumption
  <2>3. buf = request
    <3>1. buf \in Seq(Bytes) /\ request \in Seq(Bytes) /\ \A i \in 1..Len(buf) : buf[i] = request[i]
      BY <1>2, Prefix DEF ConnInv, TypeOK
    <3> QED
      BY ONLY <2>2, <3>1, SeqEqual
  <2>4. AnswerInv'
    BY <1>1, <1>2, <2>3 DEF BodyInv, AnswerInv
  <2> QED
    BY <1>2, <2>1, <2>4 DEF ParserInv, InHead
<1>6. CASE BodyMissing
  <2>1. Len(buf) < Line.idx + m_content_length /\ pc' = "parse"
    BY <1>1, <1>6 DEF BodyMissing
  <2>2. /\ m_checked_idx' >= 4 /\ Len(request) <= m_checked_idx' + BodyLength
        /\ Len(buf) < m_checked_idx' + BodyLength
    BY <1>1, <1>3, <1>4, <2>1, HttpAssumption
  <2>3. BodyInv'
    BY <1>1, <1>2, <2>2 DEF BodyInv
  <2> QED
    BY <1>1, <1>2, <2>1, <2>3 DEF ParserInv, InHead
<1> QED
  BY <1>5, <1>6

LEMMA WriteParserInv ==
  ASSUME ConnInv, ParserInv, RespondFails \/ Respond \/ Write
  PROVE  ParserInv'
<1> USE DEF client, parser, sender, mapping
<1>1. ASSUME pc \in {"respond", "write"}, pc' \in {"respond", "write", "closed"},
             UNCHANGED <<request, todo, parser, ret>>
      PROVE  ParserInv'
  <2>1. Reading /\ AnswerInv
    BY <1>1 DEF ParserInv
  <2>2. Reading'
    BY <1>1, <2>1 DEF Reading
  <2>3. AnswerInv'
    BY <1>1, <2>1 DEF AnswerInv
  <2> QED
    BY <1>1, <2>2, <2>3 DEF ParserInv, InHead
<1>2. CASE RespondFails
  BY <1>1, <1>2 DEF RespondFails
<1>3. CASE Respond
  BY <1>1, <1>3 DEF Respond
<1>4. CASE WriteAgain
  BY <1>1, <1>4 DEF WriteAgain
<1>5. CASE WriteFails
  BY <1>1, <1>5 DEF WriteFails
<1>6. ASSUME NEW n \in 1..whole, WriteMore(n)
      PROVE  ParserInv'
  BY <1>1, <1>6 DEF WriteMore, Taken
<1>7. ASSUME NEW n \in 1..whole, WriteClose(n)
      PROVE  ParserInv'
  BY <1>1, <1>7 DEF WriteClose, Taken
<1>8. ASSUME NEW n \in 1..whole, WriteKeep(n)
      PROVE  ParserInv'
  <2>1. pc = "write" /\ m_linger /\ request' = << >> /\ todo' = todo /\ pc' = "idle" /\ Reset
    BY <1>8 DEF WriteKeep, Taken
  <2>2. buf = request /\ request = buf \o todo
    BY <2>1 DEF ParserInv, AnswerInv, Reading
  <2>3. buf \in Seq(Bytes) /\ todo \in Seq(Bytes)
    BY DEF ConnInv, TypeOK
  <2>4. todo = << >>
    <3>1. buf \o todo = buf
      BY ONLY <2>2
    <3> QED
      BY ONLY <2>3, <3>1, ConcatEqualIffEmpty
  <2>5. << >> \o << >> = << >>
    BY EmptySeq, ConcatEmptySeq
  <2>6. Reading'
    BY <2>1, <2>4, <2>5 DEF Reset, Reading
  <2>7. HeadInv'
    BY <2>1, FreshParser DEF Reset
  <2> QED
    BY <2>1, <2>6, <2>7 DEF Reset, ParserInv
<1> QED
  BY <1>2, <1>3, <1>4, <1>5, <1>6, <1>7, <1>8 DEF Write

LEMMA NextParserInv ==
  ASSUME ConnInv, ConnInv', ParserInv, [Next]_vars
  PROVE  ParserInv'
<1>1. CASE UNCHANGED vars
  BY <1>1 DEF vars, client, parser, sender, mapping, ParserInv, Reading, InHead, HeadInv, BodyInv,
              AnswerInv, ConnInv
<1>2. CASE Parse
  BY <1>2, NoLineParserInv, HeadParserInv, BodyParserInv DEF Parse
<1> QED
  BY <1>1, <1>2, ClientParserInv, ReadParserInv, WriteParserInv DEF Next

THEOREM ParserInvariant == Spec => []ParserInv
<1>1. ConnInv /\ ConnInv' /\ ParserInv /\ [Next]_vars => ParserInv'
  BY NextParserInv
<1> QED
  BY <1>1, InitParserInv, ConnInvariant, PTL DEF Spec

\* However it is cut, a request is not answered before all of it was read, but for a bad
\* request line.
THEOREM NeverAnsweredEarly == Spec => []NotAnsweredEarly
<1>1. ParserInv => NotAnsweredEarly
  BY DEF ParserInv, AnswerInv, NotAnsweredEarly
<1> QED
  BY <1>1, ParserInvariant, PTL

\* What was left by the requests and clients before does not change the answer.
THEOREM AnswersAreRight == Spec => []AnswerIsRight
<1>1. ParserInv => AnswerIsRight
  BY DEF ParserInv, AnswerInv, AnswerIsRight
<1> QED
  BY <1>1, ParserInvariant, PTL

\* A request that was read completely is answered, wherever it was cut, but for one whose
\* body came in parts.
THEOREM RequestsAreAnswered == Spec => []IsAnswered
<1>1. ASSUME ConnInv, ParserInv, Ignored
      PROVE  /\ Contains(request, "len") /\ m_check_state = "CONTENT"
             /\ m_checked_idx > Len(request) - BodyLength
  <2>1. pc = "idle" /\ request # << >> /\ todo = << >> /\ Reading
    BY <1>1 DEF Ignored, ParserInv
  <2>2. /\ Len(request) \in Nat /\ Len(buf) \in Nat /\ Len(request) = Len(buf) + Len(todo)
    BY <1>1, <2>1, Prefix
  <2>3. Len(buf) = Len(request)
    BY <2>1, <2>2, EmptySeq
  <2>4. CASE m_check_state # "CONTENT"
    <3>1. InHead /\ HeadInv
      BY <1>1, <2>1, <2>4 DEF ParserInv, InHead
    <3>2. PICK h \in 4..Len(request) : IsHead(request, h)
      BY <2>1, RequestAssumption DEF IsRequest, Reading
    <3>3. h \in Nat /\ h >= 4 /\ h <= Len(request)
      BY <2>2, <3>2
    <3>4. m_start_line + 2 <= h /\ request[h - 1] = "CR" /\ request[h] = "LF"
      BY <1>1, <3>1, <3>2, <3>3, HeadBound
    <3>5. m_start_line \in Nat
      BY <1>1, <2>2 DEF ConnInv, TypeOK
    <3>6. h - 1 \in (m_start_line + 1)..(Len(buf) - 1) /\ (h - 1) + 1 = h
      BY <2>2, <2>3, <3>3, <3>4, <3>5
    <3> QED
      BY <2>1, <3>1, <3>4, <3>6 DEF HeadInv
  <2>5. CASE m_check_state = "CONTENT"
    <3>1. BodyInv
      BY <1>1, <2>1, <2>5 DEF ParserInv
    <3>2. Contains(request, "len") /\ Len(buf) < m_checked_idx + BodyLength
      BY <2>1, <3>1 DEF BodyInv
    <3>3. m_checked_idx \in Nat
      BY <1>1, <2>2 DEF ConnInv, TypeOK
    <3> QED
      BY <2>2, <2>3, <2>5, <3>2, <3>3, HttpAssumption
  <2> QED
    BY <2>4, <2>5
<1>2. ConnInv /\ ParserInv => IsAnswered
  BY <1>1 DEF IsAnswered
<1> QED
  BY <1>2, ConnInvariant, ParserInvariant, PTL

-----------------------------------------------------------------------------
(* The response.                                                           *)

Filled(n) == [i \in 1..n |-> i]

\* While a request is read and parsed the client has nothing of its response; a call of
\* writev that takes all of it is the last one; what a client got in one piece is the
\* response.
WireInv ==
    /\ pc \in {"parse", "respond"} \/ (pc = "idle" /\ request # << >>) => wire = << >> /\ ~cut
    /\ pc = "write" => /\ bytes_to_send <= HeaderSize /\ HeaderSize <= whole
                       /\ ~cut => wire = << >>
    /\ WholeUnlessCut

LEMMA NextWireInv ==
  ASSUME ConnInv, ParserInv, WireInv, [Next]_vars
  PROVE  WireInv'
<1> USE DEF client, parser, sender, mapping
<1>1. CASE UNCHANGED vars
  BY <1>1 DEF vars, WireInv, WholeUnlessCut, Written
<1>2. CASE NewRequest \/ NewClient
  BY <1>2 DEF NewRequest, NewClient, WireInv, WholeUnlessCut, Written
<1>3. CASE HangUp
  BY <1>3 DEF HangUp, WireInv, WholeUnlessCut, Written
<1>4. ASSUME NEW n \in 1..Len(todo), Read(n) \/ ReadOverflows(n)
      PROVE  WireInv'
  <2>1. request # << >> /\ pc = "idle"
    <3>1. Len(request) = Len(buf) + Len(todo) /\ Len(buf) \in Nat /\ Len(todo) \in Nat
      BY Prefix DEF ParserInv
    <3>2. request = << >> => Len(request) = 0
      BY EmptySeq
    <3>3. request # << >>
      BY <1>4, <3>1, <3>2
    <3> QED
      BY <1>4, <3>3 DEF Read, ReadOverflows
  <2>2. wire = << >> /\ ~cut
    BY <2>1 DEF WireInv
  <2> QED
    BY <1>4, <2>2 DEF Read, ReadOverflows, WireInv, WholeUnlessCut, Written
<1>5. CASE Parse
  <2>1. /\ pc = "parse" /\ pc' \in {"parse", "idle", "respond"} /\ UNCHANGED <<wire, cut>>
    BY <1>5 DEF Parse, NoLine, RequestLine, BadRequestLine, Header, EndOfHead, BodyFollows, BodyComplete,
                BodyMissing, Turn, DoRequest
  <2> QED
    BY <2>1 DEF WireInv, WholeUnlessCut, Written
<1>6. CASE RespondFails
  BY <1>6 DEF RespondFails, WireInv, WholeUnlessCut, Written
<1>7. CASE Respond
  <2>1. pc = "respond" /\ pc' = "write" /\ UNCHANGED <<wire, cut>>
        /\ bytes_to_send' = HeaderSize
    BY <1>7 DEF Respond
  <2>2. HeaderSize <= whole'
    BY <1>7, HttpAssumption DEF Respond
  <2>3. bytes_to_send' <= HeaderSize
    BY <2>1, HttpAssumption
  <2> QED
    BY <2>1, <2>2, <2>3 DEF WireInv, WholeUnlessCut, Written
<1>8. CASE WriteAgain
  <2>1. pc = "write" /\ pc' = "write" /\ UNCHANGED <<wire, cut, whole>> /\ bytes_to_send' = HeaderSize
    BY <1>8 DEF WriteAgain
  <2>2. bytes_to_send' <= HeaderSize
    BY <2>1, HttpAssumption
  <2> QED
    BY <2>1, <2>2 DEF WireInv, WholeUnlessCut, Written
<1>9. CASE WriteFails
  BY <1>9 DEF WriteFails, WireInv, WholeUnlessCut, Written
<1>10. ASSUME NEW n \in 1..whole, WriteMore(n) \/ WriteKeep(n) \/ WriteClose(n)
       PROVE  WireInv'
  <2>1. Taken(n) /\ whole' = whole
    BY <1>10 DEF WriteMore, WriteKeep, WriteClose
  <2>2. /\ pc = "write" /\ wire' = wire \o Filled(n) /\ bytes_to_send' = bytes_to_send - n
        /\ bytes_have_send' = bytes_have_send + n
    BY <2>1 DEF Taken, Filled
  <2>3. ~cut' => ~cut /\ ~(n < whole)
    BY <2>1 DEF Taken, ConnInv, TypeOK
  <2>4. /\ whole \in Nat /\ n \in Nat /\ n >= 1 /\ n <= whole
        /\ bytes_to_send \in Int /\ bytes_have_send \in Nat
    BY DEF ConnInv, TypeOK
  <2>5. bytes_to_send <= HeaderSize /\ HeaderSize <= whole /\ (~cut => wire = << >>)
    BY <2>2 DEF WireInv
  <2>6. ASSUME ~cut'
        PROVE  wire' = Filled(whole) /\ bytes_to_send' <= bytes_have_send'
    <3>1. n = whole
      BY <2>3, <2>4, <2>6
    <3>2. Filled(n) \in Seq(Nat)
      BY <2>4 DEF Filled
    <3>3. << >> \o Filled(n) = Filled(n)
      BY ONLY <3>2, ConcatEmptySeq
    <3>4. wire' = Filled(whole)
      BY <2>2, <2>3, <2>5, <2>6, <3>1, <3>3
    <3>5. bytes_to_send' <= bytes_have_send'
      BY <2>2, <2>4, <2>5, <3>1, HttpAssumption
    <3> QED
      BY <3>4, <3>5
  <2>7. bytes_to_send' <= HeaderSize
    BY <2>2, <2>4, <2>5, HttpAssumption
  <2>8. CASE WriteMore(n)
    <3>1. pc' = "write" /\ bytes_to_send' > bytes_have_send'
      BY <2>2, <2>8 DEF WriteMore
    <3>2. ~(bytes_to_send' <= bytes_have_send')
      BY <2>2, <2>4, <3>1
    <3>3. cut'
      BY <2>6, <3>2
    <3> QED
      BY <2>1, <2>5, <2>7, <3>1, <3>3 DEF WireInv, WholeUnlessCut, Written
  <2>9. CASE WriteKeep(n) \/ WriteClose(n)
    <3>1. pc' = "closed" \/ (pc' = "idle" /\ request' = << >>)
      BY <2>9 DEF WriteKeep, WriteClose
    <3> QED
      BY <2>1, <2>6, <3>1 DEF WireInv, WholeUnlessCut, Written, Filled
  <2> QED
    BY <1>10, <2>8, <2>9
<1> QED
  BY <1>1, <1>2, <1>3, <1>4, <1>5, <1>6, <1>7, <1>8, <1>9, <1>10 DEF Next, Write

\* When write is done the client has the whole response, once, unless writev took a part of
\* it; over any number of EAGAINs.
THEOREM ResponseIsWhole == Spec => []WholeUnlessCut
<1>1. Init => WireInv
  BY DEF Init, WireInv, WholeUnlessCut, Written
<1>2. ConnInv /\ ParserInv /\ WireInv /\ [Next]_vars => WireInv'
  BY NextWireInv
<1>3. WireInv => WholeUnlessCut
  BY DEF WireInv
<1> QED
  BY <1>1, <1>2, <1>3, ConnInvariant, ParserInvariant, PTL DEF Spec
=============================================================================
