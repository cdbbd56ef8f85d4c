--------------------------- MODULE LineReaderProofs ---------------------------
(***************************************************************************)
(* Proofs about LineReader, for a buffer of any size and pieces of any     *)
(* length: neither program is misled by the way its input is cut.          *)
(*                                                                         *)
(* What the reference machine of LineReader does with a sequence of any    *)
(* length is shown byte by byte, from the least index at which it would    *)
(* fail (LeastExists).                                                     *)
(***************************************************************************)
EXTENDS LineReader, SequenceTheorems, WellFoundedInduction, TLAPS

-----------------------------------------------------------------------------
(* parse_line (as in HttpConnProofs).                                      *)

Ends == {"CR", "LF"}

\* A set of numbers has a least one.
LEMMA LeastExists ==
  ASSUME NEW S \in SUBSET Nat, S # {}
  PROVE  \E m \in S : \A n \in S : m <= n
<1>1. IsWellFoundedOn(OpToRel(<, Nat), Nat)
  BY NatLessThanWellFounded
<1>2. PICK m \in S : \A n \in S : <<n, m>> \notin OpToRel(<, Nat)
  BY <1>1, WFMin
<1>3. \A n \in S : ~(n < m)
  BY <1>2 DEF OpToRel
<1>4. m \in S /\ \A n \in S : n \in Nat
  BY <1>2
<1>5. \A n \in S : m <= n
  BY ONLY <1>3, <1>4
<1> QED
  BY ONLY <1>4, <1>5

\* What parse_line finds in b from index c: no line end, or a first one, with what follows
\* it or comes before it.
Found(b, c, l) ==
    \/ /\ \A i \in (c + 1)..Len(b) : b[i] \notin Ends
       /\ l.status = "OPEN" /\ l.idx = Len(b)
    \/ \E p \in (c + 1)..Len(b) :
          /\ b[p] \in Ends /\ \A i \in (c + 1)..(p - 1) : b[i] \notin Ends
          /\ \/ b[p] = "CR" /\ p = Len(b) /\ l.status = "OPEN" /\ l.idx = p - 1
             \/ b[p] = "CR" /\ p < Len(b) /\ b[p + 1] = "LF" /\ l.status = "OK" /\ l.idx = p + 1
             \/ b[p] = "CR" /\ p < Len(b) /\ b[p + 1] # "LF" /\ l.status = "BAD" /\ l.idx = p - 1
             \/ b[p] = "LF" /\ p > 2 /\ b[p - 1] = "CR" /\ l.status = "OK" /\ l.idx = p
             \/ b[p] = "LF" /\ ~(p > 2 /\ b[p - 1] = "CR") /\ l.status = "BAD" /\ l.idx = p - 1

LEMMA LineFound ==
  ASSUME NEW b \in Seq(Bytes), NEW c \in 0..Len(b)
  PROVE  Found(b, c, ParseLine(b, c))
<1> DEFINE ends == {i \in c..(Len(b) - 1) : b[i + 1] \in {"CR", "LF"}}
           end == CHOOSE i \in ends : \A j \in ends : i <= j
           l == ParseLine(b, c)
<1>n. Len(b) \in Nat /\ c \in 0..Len(b)
  BY LenProperties
<1> SUFFICES Found(b, c, l)
  OBVIOUS
<1>1. CASE ends = {}
  <2>1. l = [status |-> "OPEN", idx |-> Len(b)]
    BY <1>1 DEF ParseLine
  <2>2. ASSUME NEW i \in (c + 1)..Len(b), b[i] \in Ends
        PROVE  FALSE
    <3>1. i - 1 \in c..(Len(b) - 1) /\ (i - 1) + 1 = i
      BY <1>n, <2>2
    <3>2. i - 1 \in ends
      BY <2>2, <3>1 DEF Ends
    <3> QED
      BY <1>1, <3>2
  <2>3. l.status = "OPEN" /\ l.idx = Len(b)
    BY ONLY <2>1
  <2> QED
    BY ONLY <2>2, <2>3 DEF Found
<1>2. CASE ends # {}
  <2>1. ends \in SUBSET Nat
    BY <1>n
  <2>2. \E i \in ends : \A j \in ends : i <= j
    BY ONLY <1>2, <2>1, LeastExists
  <2>3. end \in ends /\ \A j \in ends : end <= j
    BY ONLY <2>2
  <2>4. l = CASE ends = {} -> [status |-> "OPEN", idx |-> Len(b)]
              [] ends # {} /\ b[end + 1] = "CR" ->
                   IF end + 1 = Len(b) THEN [status |-> "OPEN", idx |-> end]
                   ELSE IF b[end + 1 + 1] = "LF" THEN [status |-> "OK", idx |-> end + 2]
                   ELSE [status |-> "BAD", idx |-> end]
              [] OTHER -> IF end > 1 /\ b[end - 1 + 1] = "CR" THEN [status |-> "OK", idx |-> end + 1]
                          ELSE [status |-> "BAD", idx |-> end]
    BY DEF ParseLine
  <2> DEFINE p == end + 1
  <2>6. end \in c..(Len(b) - 1) /\ b[end + 1] \in {"CR", "LF"}
    BY ONLY <2>3
  <2> HIDE DEF l, end, ends
  <2>7. p \in (c + 1)..Len(b) /\ b[p] \in Ends /\ end = p - 1 /\ end \in Int /\ p = end + 1
    BY ONLY <2>6, <1>n DEF Ends
  <2>8. ASSUME NEW i \in (c + 1)..(p - 1), b[i] \in Ends
        PROVE  FALSE
    <3>1. i - 1 \in c..(Len(b) - 1) /\ (i - 1) + 1 = i /\ i - 1 < end
      BY ONLY <1>n, <2>8, <2>7
    <3>2. i - 1 \in ends
      BY <2>8, <3>1 DEF Ends, ends
    <3>3. end <= i - 1
      BY ONLY <2>3, <3>2
    <3> QED
      BY ONLY <3>1, <3>3, <2>7
  <2> HIDE DEF p
  <2>9. CASE b[p] = "CR"
    <3>1. l = IF p = Len(b) THEN [status |-> "OPEN", idx |-> p - 1]
              ELSE IF b[p + 1] = "LF" THEN [status |-> "OK", idx |-> p + 1]
              ELSE [status |-> "BAD", idx |-> p - 1]
      <4>1. end + 1 = p /\ end + 1 + 1 = p + 1 /\ end + 2 = p + 1 /\ end = p - 1
        BY ONLY <2>7
      <4>2. ends # {} /\ b[end + 1] = "CR"
        BY ONLY <1>2, <2>9, <4>1
      <4> QED
        BY ONLY <2>4, <4>1, <4>2
    <3>2. p < Len(b) \/ p = Len(b)
      BY ONLY <2>7, <1>n
    <3>3. \/ p = Len(b) /\ l.status = "OPEN" /\ l.idx = p - 1
          \/ p < Len(b) /\ b[p + 1] = "LF" /\ l.status = "OK" /\ l.idx = p + 1
          \/ p < Len(b) /\ b[p + 1] # "LF" /\ l.status = "BAD" /\ l.idx = p - 1
      BY ONLY <3>1, <3>2, <2>7, <1>n
    <3> QED
      BY ONLY <3>3, <2>7, <2>8, <2>9 DEF Found
  <2>10. CASE b[p] = "LF"
    <3>1. l = IF p > 2 /\ b[p - 1] = "CR" THEN [status |-> "OK", idx |-> p]
              ELSE [status |-> "BAD", idx |-> p - 1]
      <4>1. end + 1 = p /\ end - 1 + 1 = p - 1 /\ (end > 1 <=> p > 2) /\ end = p - 1
        BY ONLY <2>7
      <4>2. ends # {} /\ b[end + 1] # "CR"
        BY ONLY <1>2, <2>10, <4>1
      <4> QED
        BY ONLY <2>4, <4>1, <4>2
    <3>2. \/ p > 2 /\ b[p - 1] = "CR" /\ l.status = "OK" /\ l.idx = p
          \/ ~(p > 2 /\ b[p - 1] = "CR") /\ l.status = "BAD" /\ l.idx = p - 1
      BY ONLY <3>1
    <3> QED
      BY ONLY <3>2, <2>7, <2>8, <2>10 DEF Found
  <2> QED
    BY <2>7, <2>9, <2>10 DEF Ends
<1> QED
  BY <1>1, <1>2

-----------------------------------------------------------------------------
(* cgi_conn.                                                               *)

LineEndsOf(s) == {i \in 1..(Len(s) - 1) : s[i] = "CR" /\ s[i + 1] = "LF"}

\* While cgi_conn reads it has no line.
CgiInv ==
    /\ buf \in Seq(Bytes)
    /\ program = "cgi" /\ pc # "closed" => pc = "read" /\ answer = <<"none">> /\ LineEndsOf(buf) = {}
    /\ CgiRunsFirstLine

\* Looking from the byte before the new ones finds the line ends of the whole, when there
\* was none before.
LEMMA NewLineEnds ==
  ASSUME NEW s \in Seq(Bytes), NEW t \in Seq(Bytes), LineEndsOf(s) = {}
  PROVE  LineEnds(s \o t, Len(s)) = LineEndsOf(s \o t)
<1> DEFINE u == s \o t
<1>1. Len(s) \in Nat /\ Len(t) \in Nat
  BY LenProperties
<1>2. /\ Len(u) = Len(s) + Len(t)
      /\ \A i \in 1..(Len(s) + Len(t)) : u[i] = IF i <= Len(s) THEN s[i] ELSE t[i - Len(s)]
  BY ConcatProperties
<1> HIDE DEF u
<1>3. ASSUME NEW i \in LineEndsOf(u)
      PROVE  i \in LineEnds(u, Len(s))
  <2>1. i \in 1..(Len(u) - 1) /\ u[i] = "CR" /\ u[i + 1] = "LF"
    BY <1>3 DEF LineEndsOf
  <2>2. i >= Len(s)
    <3> SUFFICES ASSUME i < Len(s)
                 PROVE  FALSE
      BY <1>1, <1>2, <2>1
    <3>1. i \in 1..(Len(s) - 1) /\ s[i] = "CR" /\ s[i + 1] = "LF"
      BY <1>1, <1>2, <2>1
    <3>2. i \in LineEndsOf(s)
      BY <3>1 DEF LineEndsOf
    <3> QED
      BY <3>2
  <2> QED
    BY <1>1, <1>2, <2>1, <2>2 DEF LineEnds
<1>4. ASSUME NEW i \in LineEnds(u, Len(s))
      PROVE  i \in LineEndsOf(u)
  BY <1>1, <1>2, <1>4 DEF LineEnds, LineEndsOf
<1> QED
  BY <1>3, <1>4 DEF u

\* What may arrive are bytes.
LEMMA PiecesAreBytes ==
  ASSUME NEW new \in Pieces
  PROVE  new \in Seq(Bytes)
<1>1. PICK n \in 1..MaxPiece : new \in [1..n -> Bytes]
  BY DEF Pieces
<1>2. n \in Nat
  BY ReaderAssumption
<1> QED
  BY <1>1, <1>2, SeqDef

LEMMA NextCgiInv ==
  ASSUME CgiInv, [Next]_vars
  PROVE  CgiInv'
<1> USE DEF parser
<1>1. CASE UNCHANGED vars
  BY <1>1 DEF vars, CgiInv, CgiRunsFirstLine, LineEndsOf
<1>2. CASE RecvEnd
  BY <1>2 DEF RecvEnd, CgiInv, CgiRunsFirstLine
<1>3. CASE Parse
  <2>1. pc = "parse" /\ UNCHANGED <<program, buf>>
    BY <1>3 DEF Parse, RequestLine, BadRequestLine, Header, EndOfHead, NoLine, BadLine, Turn
  <2>2. program # "cgi"
    BY <2>1 DEF CgiInv
  <2> QED
    BY <2>1, <2>2 DEF CgiInv, CgiRunsFirstLine
<1>4. ASSUME NEW new \in Pieces, AnalyserRecv(new)
      PROVE  CgiInv'
  <2>1. buf \o new \in Seq(Bytes)
    BY PiecesAreBytes, ConcatProperties DEF CgiInv
  <2> QED
    BY <1>4, <2>1 DEF AnalyserRecv, Takes, CgiInv, CgiRunsFirstLine
<1>5. ASSUME NEW new \in Pieces, CgiRecv(new)
      PROVE  CgiInv'
  <2>1. /\ program = "cgi" /\ program' = program /\ pc = "read" /\ buf' = buf \o new
    BY <1>5 DEF CgiRecv, Takes
  <2>2. new \in Seq(Bytes) /\ buf \in Seq(Bytes) /\ LineEndsOf(buf) = {} /\ answer = <<"none">>
    BY <2>1, PiecesAreBytes DEF CgiInv
  <2>3. buf' \in Seq(Bytes)
    BY <2>1, <2>2, ConcatProperties
  <2>4. LineEnds(buf', Len(buf)) = LineEndsOf(buf')
    BY <2>1, <2>2, NewLineEnds
  <2>5. IF LineEndsOf(buf') = {} THEN UNCHANGED <<pc, answer>>
        ELSE /\ answer' = <<"run">> \o SubSeq(buf', 1, Least(LineEndsOf(buf')) - 1)
             /\ pc' = "closed"
    BY <1>5, <2>4 DEF CgiRecv
  <2>6. answer' = IF LineEndsOf(buf') = {} THEN <<"none">>
                  ELSE <<"run">> \o SubSeq(buf', 1, Least(LineEndsOf(buf')) - 1)
    BY <2>2, <2>5
  <2>7. CgiRunsFirstLine'
    BY <2>6 DEF CgiRunsFirstLine, LineEndsOf
  <2> QED
    BY <2>1, <2>2, <2>3, <2>5, <2>7 DEF CgiInv
<1> QED
  BY <1>1, <1>2, <1>3, <1>4, <1>5 DEF Next

\* cgi_conn runs the text before the first CR LF as soon as it has read it, however its
\* input is cut.
THEOREM CgiRunsTheFirst == Spec => []CgiRunsFirstLine
<1>1. Init => CgiInv
  <2> SUFFICES ASSUME Init
               PROVE  CgiInv
    OBVIOUS
  <2>1. buf = << >> /\ pc = "read" /\ answer = <<"none">>
    BY DEF Init
  <2>2. buf \in Seq(Bytes) /\ Len(buf) = 0
    BY <2>1, EmptySeq
  <2>3. LineEndsOf(buf) = {}
    BY <2>2 DEF LineEndsOf
  <2>4. CgiRunsFirstLine
    BY <2>1, <2>3 DEF CgiRunsFirstLine, LineEndsOf
  <2> QED
    BY <2>1, <2>2, <2>3, <2>4 DEF CgiInv
<1>2. CgiInv /\ [Next]_vars => CgiInv'
  BY NextCgiInv
<1>3. CgiInv => CgiRunsFirstLine
  BY DEF CgiInv
<1> QED
  BY <1>1, <1>2, <1>3, PTL DEF Spec

-----------------------------------------------------------------------------
(* The reference machine.                                                  *)

\* f is what the machine is in after 0, 1, ... bytes of s.
RunOf(s, f) == f = [i \in 0..Len(s) |-> IF i = 0 THEN Start ELSE Byte(f[i - 1], s[i])]
Run(s) == CHOOSE f : RunOf(s, f)

LEMMA RunExists ==
  ASSUME NEW s \in Seq(Bytes)
  PROVE  RunOf(s, Run(s))
<1> DEFINE Part(n, f) == f = [i \in 0..n |-> IF i = 0 THEN Start ELSE Byte(f[i - 1], s[i])]
           Fails == {n \in 0..Len(s) : ~\E f : Part(n, f)}
<1>1. Len(s) \in Nat
  BY LenProperties
<1>2. Fails = {}
  <2> SUFFICES ASSUME Fails # {}
               PROVE  FALSE
    OBVIOUS
  <2>1. Fails \in SUBSET Nat
    BY <1>1
  <2>2. PICK n \in Fails : \A k \in Fails : n <= k
    BY ONLY <2>1, Fails # {}, LeastExists
  <2>3. n \in 0..Len(s) /\ ~\E f : Part(n, f)
    BY <2>2
  <2>4. CASE n = 0
    <3> DEFINE f == [i \in 0..0 |-> Start]
    <3>1. Part(0, f)
      OBVIOUS
    <3> QED
      BY <2>3, <2>4, <3>1
  <2>5. CASE n # 0
    <3>1. n - 1 \in 0..Len(s) /\ n - 1 < n /\ n \in Nat
      BY <1>1, <2>3, <2>5
    <3>2. n - 1 \notin Fails
      <4> HIDE DEF Fails
      <4>1. ~(n <= n - 1)
        BY ONLY <3>1
      <4> QED
        BY ONLY <2>2, <4>1
    <3>3. PICK f : Part(n - 1, f)
      BY <3>1, <3>2
    <3> DEFINE g == [i \in 0..n |-> IF i = n THEN Byte(f[n - 1], s[n]) ELSE f[i]]
    <3>4. ASSUME NEW i \in 0..n
          PROVE  g[i] = IF i = 0 THEN Start ELSE Byte(g[i - 1], s[i])
      <4>1. CASE i = n
        <5>1. g[i] = Byte(f[n - 1], s[n])
          BY <4>1
        <5>2. n - 1 \in 0..n /\ n - 1 # n
          BY <3>1, <2>5
        <5>3. g[n - 1] = f[n - 1]
          BY <5>2
        <5> QED
          BY <2>5, <4>1, <5>1, <5>3
      <4>2. CASE i # n
        <5>1. g[i] = f[i] /\ i \in 0..(n - 1)
          BY <3>1, <4>2
        <5>2. f[i] = IF i = 0 THEN Start ELSE Byte(f[i - 1], s[i])
          BY <3>3, <5>1
        <5>3. i # 0 => i - 1 \in 0..n /\ i - 1 # n
          BY <3>1, <5>1
        <5>4. i # 0 => g[i - 1] = f[i - 1]
          BY <5>3
        <5> QED
          BY <5>1, <5>2, <5>4
      <4> QED
        BY <4>1, <4>2
    <3>5. g = [i \in 0..n |-> g[i]]
      OBVIOUS
    <3> HIDE DEF g
    <3>6. Part(n, g)
      BY <3>4, <3>5
    <3> QED
      BY <2>3, <3>6
  <2> QED
    BY <2>4, <2>5
<1>3. \E f : Part(Len(s), f)
  BY <1>1, <1>2
<1>4. \E f : RunOf(s, f)
  BY <1>3 DEF RunOf
<1> QED
  BY <1>4 DEF Run

LEMMA RunStep ==
  ASSUME NEW s \in Seq(Bytes)
  PROVE  /\ Run(s)[0] = Start
         /\ \A i \in 1..Len(s) : Run(s)[i] = Byte(Run(s)[i - 1], s[i])
         /\ Whole(s) = Run(s)[Len(s)]
<1> DEFINE f == Run(s)
<1>1. RunOf(s, f)
  BY RunExists
<1>2. Whole(s) = Run(s)[Len(s)]
  BY DEF Whole, Run, RunOf
<1>3. Len(s) \in Nat
  BY LenProperties
<1> HIDE DEF f
<1>4. \A i \in 0..Len(s) : f[i] = IF i = 0 THEN Start ELSE Byte(f[i - 1], s[i])
  BY <1>1 DEF RunOf
<1>5. f[0] = Start
  BY <1>3, <1>4
<1>6. \A i \in 1..Len(s) : f[i] = Byte(f[i - 1], s[i])
  BY <1>3, <1>4
<1> QED
  BY <1>2, <1>5, <1>6 DEF f

\* What follows makes no difference to what came before.
LEMMA RunPrefix ==
  ASSUME NEW s \in Seq(Bytes), NEW t \in Seq(Bytes), NEW i \in 0..Len(s)
  PROVE  Run(s \o t)[i] = Run(s)[i]
<1> DEFINE u == s \o t
           Fails == {k \in 0..Len(s) : Run(u)[k] # Run(s)[k]}
<1>1. Len(s) \in Nat /\ Len(t) \in Nat
  BY LenProperties
<1>2. /\ u \in Seq(Bytes) /\ Len(u) = Len(s) + Len(t)
      /\ \A k \in 1..Len(s) : u[k] = s[k]
  <2>1. /\ u \in Seq(Bytes) /\ Len(u) = Len(s) + Len(t)
        /\ \A k \in 1..(Len(s) + Len(t)) : u[k] = IF k <= Len(s) THEN s[k] ELSE t[k - Len(s)]
    BY ConcatProperties
  <2> HIDE DEF u
  <2> QED
    BY <1>1, <2>1
<1> HIDE DEF u
<1>3. Fails = {}
  <2> SUFFICES ASSUME Fails # {}
               PROVE  FALSE
    OBVIOUS
  <2>1. Fails \in SUBSET Nat
    BY <1>1
  <2>2. PICK n \in Fails : \A k \in Fails : n <= k
    BY ONLY <2>1, Fails # {}, LeastExists
  <2>3. n \in 0..Len(s) /\ Run(u)[n] # Run(s)[n]
    BY <2>2
  <2>4. n # 0
    BY <1>2, <2>3, RunStep
  <2>5. n \in 1..Len(s) /\ n \in 1..Len(u) /\ n - 1 \in 0..Len(s) /\ ~(n <= n - 1)
    BY <1>1, <1>2, <2>3, <2>4
  <2>6. Run(u)[n - 1] = Run(s)[n - 1]
    BY <2>2, <2>5
  <2>7. Run(u)[n] = Byte(Run(u)[n - 1], u[n]) /\ Run(s)[n] = Byte(Run(s)[n - 1], s[n])
    BY <1>2, <2>5, RunStep
  <2> QED
    BY <1>2, <2>3, <2>5, <2>6, <2>7
<1> QED
  BY <1>3 DEF u

\* A machine in the middle of a line.
Mach(state, line, cr, a) == [state |-> state, line |-> line, cr |-> cr, answer |-> a]

\* What one byte does to it.
LEMMA ByteCases ==
  ASSUME NEW state \in {"REQUESTLINE", "HEADER"}, NEW line \in Seq(Bytes), NEW b \in Bytes
  PROVE  /\ b \notin Ends => Byte(Mach(state, line, FALSE, "none"), b) = Mach(state, Append(line, b), FALSE, "none")
         /\ Byte(Mach(state, line, FALSE, "none"), "CR") = Mach(state, line, TRUE, "none")
         /\ Byte(Mach(state, line, FALSE, "none"), "LF").answer = "wrong"
         /\ b # "LF" => Byte(Mach(state, line, TRUE, "none"), b).answer = "wrong"
         /\ state = "REQUESTLINE" /\ line = <<"get">> =>
               Byte(Mach(state, line, TRUE, "none"), "LF") = Mach("HEADER", << >>, FALSE, "none")
         /\ state = "REQUESTLINE" /\ line # <<"get">> =>
               Byte(Mach(state, line, TRUE, "none"), "LF").answer = "wrong"
         /\ state = "HEADER" /\ line = << >> =>
               Byte(Mach(state, line, TRUE, "none"), "LF").answer = "result"
         /\ state = "HEADER" /\ line # << >> =>
               Byte(Mach(state, line, TRUE, "none"), "LF") = Mach("HEADER", << >>, FALSE, "none")
<1> USE DEF Mach
<1>1. b \notin Ends => Byte(Mach(state, line, FALSE, "none"), b) = Mach(state, Append(line, b), FALSE, "none")
  BY DEF Byte, Ends
<1>2. Byte(Mach(state, line, FALSE, "none"), "CR") = Mach(state, line, TRUE, "none")
  BY DEF Byte
<1>3. Byte(Mach(state, line, FALSE, "none"), "LF").answer = "wrong"
  BY DEF Byte
<1>4. b # "LF" => Byte(Mach(state, line, TRUE, "none"), b).answer = "wrong"
  BY DEF Byte
<1>5. Byte(Mach(state, line, TRUE, "none"), "LF") = EndOfLine(Mach(state, line, TRUE, "none"))
  BY DEF Byte
<1>6. state = "REQUESTLINE" /\ line = <<"get">> =>
         EndOfLine(Mach(state, line, TRUE, "none")) = Mach("HEADER", << >>, FALSE, "none")
  BY DEF EndOfLine, Start
<1>7. state = "REQUESTLINE" /\ line # <<"get">> =>
         EndOfLine(Mach(state, line, TRUE, "none")).answer = "wrong"
  BY DEF EndOfLine
<1>8. state = "HEADER" /\ line = << >> => EndOfLine(Mach(state, line, TRUE, "none")).answer = "result"
  BY DEF EndOfLine
<1>9. state = "HEADER" /\ line # << >> =>
         EndOfLine(Mach(state, line, TRUE, "none")) = Mach("HEADER", << >>, FALSE, "none")
  BY DEF EndOfLine, Start
<1> HIDE DEF Mach
<1> QED
  BY <1>1, <1>2, <1>3, <1>4, <1>5, <1>6, <1>7, <1>8, <1>9

\* Text that is no line end is added to the line.
LEMMA RunText ==
  ASSUME NEW s \in Seq(Bytes), NEW a \in 0..Len(s), NEW b \in a..Len(s),
         NEW state \in {"REQUESTLINE", "HEADER"}, Run(s)[a] = Mach(state, << >>, FALSE, "none"),
         \A i \in (a + 1)..b : s[i] \notin Ends
  PROVE  Run(s)[b] = Mach(state, SubSeq(s, a + 1, b), FALSE, "none")
<1> DEFINE Fails == {k \in a..b : Run(s)[k] # Mach(state, SubSeq(s, a + 1, k), FALSE, "none")}
<1>1. Len(s) \in Nat /\ a \in Nat /\ b \in Nat /\ a <= b /\ b <= Len(s)
  BY LenProperties
<1>2. Fails = {}
  <2> SUFFICES ASSUME Fails # {}
               PROVE  FALSE
    OBVIOUS
  <2>1. Fails \in SUBSET Nat
    <3>1. a..b \subseteq Nat
      BY ONLY <1>1
    <3>2. Fails \subseteq a..b
      OBVIOUS
    <3> HIDE DEF Fails
    <3> QED
      BY ONLY <3>1, <3>2
  <2>2. PICK n \in Fails : \A k \in Fails : n <= k
    BY ONLY <2>1, Fails # {}, LeastExists
  <2>3. n \in a..b /\ Run(s)[n] # Mach(state, SubSeq(s, a + 1, n), FALSE, "none")
    BY <2>2
  <2>4. n # a
    <3>1. a + 1 \in Int /\ a \in Int /\ a < a + 1
      BY <1>1
    <3>2. SubSeq(s, a + 1, a) = << >>
      BY ONLY <3>1, SubSeqEmpty
    <3> QED
      BY <2>3, <3>2
  <2>5. /\ n - 1 \in a..b /\ ~(n <= n - 1) /\ n \in 1..Len(s) /\ n \in (a + 1)..Len(s)
        /\ a + 1 \in 1..Len(s) /\ n \in (a + 1)..b
    BY <1>1, <2>3, <2>4
  <2>6. Run(s)[n - 1] = Mach(state, SubSeq(s, a + 1, n - 1), FALSE, "none")
    BY <2>2, <2>5
  <2>7. SubSeq(s, a + 1, n - 1) \in Seq(Bytes)
    <3>1. \A i \in (a + 1)..(n - 1) : s[i] \in Bytes
      BY <1>1, <2>5, ElementOfSeq
    <3>2. a + 1 \in Int /\ n - 1 \in Int
      BY <1>1, <2>5
    <3> QED
      BY ONLY <3>1, <3>2, SubSeqProperties
  <2>8. s[n] \in Bytes /\ s[n] \notin Ends
    BY <2>5, ElementOfSeq
  <2>9. Run(s)[n] = Byte(Run(s)[n - 1], s[n])
    BY <2>5, RunStep
  <2>10. Run(s)[n] = Mach(state, Append(SubSeq(s, a + 1, n - 1), s[n]), FALSE, "none")
    <3> DEFINE line == SubSeq(s, a + 1, n - 1)
    <3> HIDE DEF line
    <3>1. line \in Seq(Bytes) /\ s[n] \in Bytes /\ s[n] \notin Ends
      BY <2>7, <2>8 DEF line
    <3>2. Byte(Mach(state, line, FALSE, "none"), s[n]) = Mach(state, Append(line, s[n]), FALSE, "none")
      BY ONLY <3>1, state \in {"REQUESTLINE", "HEADER"}, ByteCases
    <3> QED
      BY <2>6, <2>9, <3>2 DEF line
  <2>11. SubSeq(s, a + 1, n) = Append(SubSeq(s, a + 1, n - 1), s[n])
    <3>1. SubSeq(s, a + 1, n) = SubSeq(s, a + 1, n - 1) \o <<s[n]>>
      BY ONLY <2>5, s \in Seq(Bytes), SubSeqRecursiveSecond
    <3>2. Append(SubSeq(s, a + 1, n - 1), s[n]) = SubSeq(s, a + 1, n - 1) \o <<s[n]>>
      BY <2>7, <2>8, AppendIsConcat
    <3> QED
      BY <3>1, <3>2
  <2> QED
    BY <2>3, <2>10, <2>11
<1>3. b \in a..b
  BY <1>1
<1> QED
  BY <1>2, <1>3

\* The first answer is the answer.
LEMMA RunAnswered ==
  ASSUME NEW s \in Seq(Bytes), NEW a \in 0..Len(s), Run(s)[a].answer # "none"
  PROVE  Whole(s) = Run(s)[a]
<1> DEFINE Fails == {k \in a..Len(s) : Run(s)[k] # Run(s)[a]}
<1>1. Len(s) \in Nat /\ a \in Nat /\ a <= Len(s)
  BY LenProperties
<1>2. Fails = {}
  <2> SUFFICES ASSUME Fails # {}
               PROVE  FALSE
    OBVIOUS
  <2>1. Fails \in SUBSET Nat
    BY <1>1
  <2>2. PICK n \in Fails : \A k \in Fails : n <= k
    BY ONLY <2>1, Fails # {}, LeastExists
  <2>3. n \in a..Len(s) /\ Run(s)[n] # Run(s)[a]
    BY <2>2
  <2>4. n - 1 \in a..Len(s) /\ ~(n <= n - 1) /\ n \in 1..Len(s)
    BY <1>1, <2>3
  <2>5. Run(s)[n - 1] = Run(s)[a]
    BY <2>2, <2>4
  <2>6. Run(s)[n] = Byte(Run(s)[n - 1], s[n])
    BY <2>4, RunStep
  <2>7. Byte(Run(s)[a], s[n]) = Run(s)[a]
    BY DEF Byte
  <2> QED
    BY <2>3, <2>5, <2>6, <2>7
<1>3. Run(s)[Len(s)] = Run(s)[a]
  BY <1>1, <1>2
<1> QED
  BY <1>3, RunStep

-----------------------------------------------------------------------------
(* The analyser.                                                           *)

States == {"REQUESTLINE", "HEADER"}

\* The indices: m_start_line after a line end, no line end from there to m_checked_idx, and
\* when the program reads, m_checked_idx at the end or before a CR at the end.
Indices ==
    /\ buf \in Seq(Bytes) /\ checked_index \in 0..Len(buf) /\ start_line \in 0..checked_index
    /\ check_state \in States
    /\ start_line # 0 => buf[start_line] = "LF"
    /\ \A i \in (start_line + 1)..checked_index : buf[i] \notin Ends
    /\ pc = "read" => \/ checked_index = Len(buf)
                      \/ checked_index = Len(buf) - 1 /\ buf[Len(buf)] = "CR"

\* The analyser is where the reference machine is at the start of the line.
AnalyserInv ==
    program = "analyser" =>
        /\ pc \in {"read", "parse"} =>
               /\ Indices /\ answer = <<"none">>
               /\ Run(buf)[start_line] = Mach(check_state, << >>, FALSE, "none")
        /\ pc \notin {"read", "parse"} => answer = <<Whole(buf).answer>>

\* While the analyser waits, the machine has no answer.
LEMMA NoAnswerYet ==
  ASSUME Indices, pc = "read", Run(buf)[start_line] = Mach(check_state, << >>, FALSE, "none")
  PROVE  Whole(buf).answer = "none"
<1> DEFINE s == start_line
           c == checked_index
           text == SubSeq(buf, s + 1, c)
<1>1. /\ buf \in Seq(Bytes) /\ Len(buf) \in Nat /\ s \in 0..Len(buf) /\ c \in s..Len(buf)
      /\ check_state \in {"REQUESTLINE", "HEADER"} /\ c \in Nat
      /\ \A i \in (s + 1)..c : buf[i] \notin Ends
  <2>1. Len(buf) \in Nat
    BY LenProperties DEF Indices
  <2> QED
    BY <2>1 DEF Indices, States
<1>2. Run(buf)[c] = Mach(check_state, text, FALSE, "none")
  BY <1>1, RunText
<1>3. text \in Seq(Bytes)
  <2>1. \A i \in (s + 1)..c : buf[i] \in Bytes
    BY <1>1, ElementOfSeq
  <2>2. s + 1 \in Int /\ c \in Int
    BY <1>1
  <2> QED
    BY ONLY <2>1, <2>2, SubSeqProperties
<1>4. Whole(buf) = Run(buf)[Len(buf)]
  BY <1>1, RunStep
<1>5. c = Len(buf) \/ (c = Len(buf) - 1 /\ buf[Len(buf)] = "CR")
  BY DEF Indices
<1> HIDE DEF text, s, c
<1>6. CASE c = Len(buf)
  BY <1>2, <1>4, <1>6 DEF Mach
<1>7. CASE c = Len(buf) - 1 /\ buf[Len(buf)] = "CR"
  <2>1. Len(buf) \in 1..Len(buf)
    BY <1>1, <1>7
  <2>2. Run(buf)[Len(buf)] = Byte(Run(buf)[Len(buf) - 1], buf[Len(buf)])
    BY <1>1, <2>1, RunStep
  <2>3. Byte(Mach(check_state, text, FALSE, "none"), "CR") = Mach(check_state, text, TRUE, "none")
    <3>1. "CR" \in Bytes
      BY DEF Bytes
    <3> QED
      BY ONLY <1>1, <1>3, <3>1, ByteCases
  <2> QED
    BY <1>2, <1>4, <1>7, <2>2, <2>3 DEF Mach
<1> QED
  BY <1>5, <1>6, <1>7

\* What the machine does with the first line end parse_line finds, when p is its first byte.
LEMMA FirstLineEnd ==
  ASSUME Indices, pc = "parse", Run(buf)[start_line] = Mach(check_state, << >>, FALSE, "none"),
         NEW p \in (checked_index + 1)..Len(buf), buf[p] \in Ends,
         \A i \in (checked_index + 1)..(p - 1) : buf[i] \notin Ends
  PROVE  /\ p \in Nat /\ p >= 1 /\ p > start_line /\ Len(buf) \in Nat
         /\ \A i \in (start_line + 1)..(p - 1) : buf[i] \notin Ends
         /\ SubSeq(buf, start_line + 1, p - 1) \in Seq(Bytes)
         /\ ~(p > 2 /\ buf[p] = "LF" /\ buf[p - 1] = "CR")
         /\ buf[p] = "CR" => Run(buf)[p] = Mach(check_state, SubSeq(buf, start_line + 1, p - 1), TRUE, "none")
         /\ buf[p] = "LF" => Whole(buf).answer = "wrong"
<1> DEFINE s == start_line
           text == SubSeq(buf, s + 1, p - 1)
<1>1. /\ buf \in Seq(Bytes) /\ Len(buf) \in Nat /\ s \in 0..Len(buf) /\ p - 1 \in s..Len(buf) /\ s \in Nat
      /\ check_state \in {"REQUESTLINE", "HEADER"} /\ p \in 1..Len(buf) /\ p \in Nat /\ p > s
  <2>1. Len(buf) \in Nat
    BY LenProperties DEF Indices
  <2>2. checked_index \in 0..Len(buf) /\ s \in 0..checked_index
    BY DEF Indices
  <2>3. buf \in Seq(Bytes) /\ check_state \in {"REQUESTLINE", "HEADER"}
    BY DEF Indices, States
  <2> QED
    BY <2>1, <2>2, <2>3
<1>2. \A i \in (s + 1)..(p - 1) : buf[i] \notin Ends
  <2>1. \A i \in (s + 1)..checked_index : buf[i] \notin Ends
    BY DEF Indices
  <2>2. checked_index \in Nat
    BY <1>1 DEF Indices
  <2> QED
    BY <1>1, <2>1, <2>2
<1>3. Run(buf)[p - 1] = Mach(check_state, text, FALSE, "none")
  BY <1>1, <1>2, RunText
<1>4. text \in Seq(Bytes)
  <2>1. \A i \in (s + 1)..(p - 1) : buf[i] \in Bytes
    BY <1>1, ElementOfSeq
  <2>2. s + 1 \in Int /\ p - 1 \in Int
    BY <1>1
  <2> QED
    BY ONLY <2>1, <2>2, SubSeqProperties
<1>5. Run(buf)[p] = Byte(Run(buf)[p - 1], buf[p])
  BY <1>1, RunStep
<1>6. ~(p > 2 /\ buf[p] = "LF" /\ buf[p - 1] = "CR")
  <2> SUFFICES ASSUME p > 2, buf[p - 1] = "CR"
               PROVE  FALSE
    OBVIOUS
  <2>1. p - 1 \notin (s + 1)..(p - 1)
    BY <1>2 DEF Ends
  <2>2. p - 1 = s /\ s # 0
    BY <1>1, <2>1
  <2>3. buf[s] = "LF"
    BY <2>2 DEF Indices
  <2> QED
    BY <2>2, <2>3
<1> HIDE DEF text
<1>7. /\ Byte(Mach(check_state, text, FALSE, "none"), "CR") = Mach(check_state, text, TRUE, "none")
      /\ Byte(Mach(check_state, text, FALSE, "none"), "LF").answer = "wrong"
  <2>1. "CR" \in Bytes
    BY DEF Bytes
  <2> QED
    BY ONLY <1>1, <1>4, <2>1, ByteCases
<1>8. buf[p] = "CR" => Run(buf)[p] = Mach(check_state, text, TRUE, "none")
  BY <1>3, <1>5, <1>7
<1>9. ASSUME buf[p] = "LF"
      PROVE  Whole(buf).answer = "wrong"
  <2>1. Run(buf)[p].answer = "wrong"
    BY <1>3, <1>5, <1>7, <1>9
  <2>2. p \in 0..Len(buf)
    BY <1>1
  <2> QED
    BY <1>1, <2>1, <2>2, RunAnswered
<1>10. p \in Nat /\ p >= 1 /\ p > start_line /\ Len(buf) \in Nat
  BY <1>1
<1> QED
  BY <1>2, <1>4, <1>6, <1>8, <1>9, <1>10 DEF text

\* A complete line: its text, and what the machine makes of it.
LEMMA CompleteLine ==
  ASSUME Indices, pc = "parse", Run(buf)[start_line] = Mach(check_state, << >>, FALSE, "none"),
         Line.status = "OK"
  PROVE  /\ Line.idx \in 1..Len(buf) /\ buf[Line.idx] = "LF"
         /\ check_state = "REQUESTLINE" /\ Text # <<"get">> => Whole(buf).answer = "wrong"
         /\ check_state = "HEADER" /\ Text = << >> => Whole(buf).answer = "result"
         /\ (check_state = "REQUESTLINE" /\ Text = <<"get">>) \/ (check_state = "HEADER" /\ Text # << >>) =>
               Run(buf)[Line.idx] = Mach("HEADER", << >>, FALSE, "none")
<1>1. buf \in Seq(Bytes) /\ checked_index \in 0..Len(buf) /\ check_state \in {"REQUESTLINE", "HEADER"}
  BY DEF Indices, States
<1>2. Found(buf, checked_index, Line)
  BY <1>1, LineFound DEF Line
<1> DEFINE l == Line
<1>3. PICK p \in (checked_index + 1)..Len(buf) :
         /\ buf[p] \in Ends /\ \A i \in (checked_index + 1)..(p - 1) : buf[i] \notin Ends
         /\ \/ buf[p] = "CR" /\ p < Len(buf) /\ buf[p + 1] = "LF" /\ l.idx = p + 1
            \/ buf[p] = "LF" /\ p > 2 /\ buf[p - 1] = "CR"
  BY <1>2 DEF Found
<1> DEFINE text == SubSeq(buf, start_line + 1, p - 1)
<1>4. /\ p \in Nat /\ p >= 1 /\ p > start_line /\ Len(buf) \in Nat
      /\ text \in Seq(Bytes)
      /\ ~(p > 2 /\ buf[p] = "LF" /\ buf[p - 1] = "CR")
      /\ buf[p] = "CR" => Run(buf)[p] = Mach(check_state, text, TRUE, "none")
  BY <1>3, FirstLineEnd
<1>5. buf[p] = "CR" /\ p < Len(buf) /\ buf[p + 1] = "LF" /\ l.idx = p + 1
  BY <1>3, <1>4
<1>6. l.idx \in 1..Len(buf) /\ buf[l.idx] = "LF" /\ p + 1 \in 1..Len(buf) /\ p + 1 \in 0..Len(buf)
      /\ l.idx - 2 = p - 1
  BY <1>4, <1>5
<1>7. Text = text
  BY <1>6 DEF Text
<1> HIDE DEF text, l
<1>8. Run(buf)[p + 1] = Byte(Mach(check_state, text, TRUE, "none"), "LF")
  <2>1. Run(buf)[p + 1] = Byte(Run(buf)[(p + 1) - 1], buf[p + 1]) /\ (p + 1) - 1 = p
    BY <1>1, <1>4, <1>6, RunStep
  <2> QED
    BY <1>4, <1>5, <2>1
<1>9. /\ check_state = "REQUESTLINE" /\ text = <<"get">> =>
            Byte(Mach(check_state, text, TRUE, "none"), "LF") = Mach("HEADER", << >>, FALSE, "none")
      /\ check_state = "REQUESTLINE" /\ text # <<"get">> =>
            Byte(Mach(check_state, text, TRUE, "none"), "LF").answer = "wrong"
      /\ check_state = "HEADER" /\ text = << >> =>
            Byte(Mach(check_state, text, TRUE, "none"), "LF").answer = "result"
      /\ check_state = "HEADER" /\ text # << >> =>
            Byte(Mach(check_state, text, TRUE, "none"), "LF") = Mach("HEADER", << >>, FALSE, "none")
  <2>1. text \in Seq(Bytes) /\ "LF" \in Bytes
    BY <1>4 DEF Bytes
  <2> QED
    BY ONLY <1>1, <2>1, ByteCases
<1>10. check_state = "REQUESTLINE" /\ text # <<"get">> => Whole(buf).answer = "wrong"
  BY <1>1, <1>6, <1>8, <1>9, RunAnswered
<1>11. check_state = "HEADER" /\ text = << >> => Whole(buf).answer = "result"
  BY <1>1, <1>6, <1>8, <1>9, RunAnswered
<1> QED
  BY <1>5, <1>6, <1>7, <1>8, <1>9, <1>10, <1>11 DEF l

\* Another line: parse_content goes on from its end.
LEMMA NextLine ==
  ASSUME Indices, Line.idx \in 1..Len(buf), buf[Line.idx] = "LF", pc' = "parse",
         checked_index' = Line.idx, start_line' = Line.idx, buf' = buf, check_state' = "HEADER"
  PROVE  Indices'
<1>1. Len(buf) \in Nat
  BY LenProperties DEF Indices
<1>2. \A i \in (start_line' + 1)..checked_index' : FALSE
  BY <1>1
<1> QED
  BY <1>1, <1>2 DEF Indices, States

LEMMA ParseAnalyserInv ==
  ASSUME AnalyserInv, program = "analyser", Parse
  PROVE  AnalyserInv'
<1> USE DEF parser
<1>1. pc = "parse" /\ program' = program /\ buf' = buf
  BY DEF Parse, RequestLine, BadRequestLine, Header, EndOfHead, NoLine, BadLine, Turn
<1>2. Indices /\ answer = <<"none">> /\ Run(buf)[start_line] = Mach(check_state, << >>, FALSE, "none")
  BY <1>1 DEF AnalyserInv
<1>3. CASE RequestLine \/ Header
  <2>1. /\ Line.status = "OK" /\ checked_index' = Line.idx /\ start_line' = Line.idx
        /\ pc' = pc /\ answer' = answer /\ check_state' = "HEADER"
        /\ (check_state = "REQUESTLINE" /\ Text = <<"get">>) \/ (check_state = "HEADER" /\ Text # << >>)
    <3>1. CASE RequestLine
      BY <3>1 DEF RequestLine, Turn
    <3>2. CASE Header
      BY <3>2 DEF Header, Turn
    <3> QED
      BY <1>3, <3>1, <3>2
  <2>2. /\ Line.idx \in 1..Len(buf) /\ buf[Line.idx] = "LF"
        /\ Run(buf)[Line.idx] = Mach("HEADER", << >>, FALSE, "none")
    BY <1>1, <1>2, <2>1, CompleteLine
  <2>3. Indices'
    BY <1>1, <1>2, <2>1, <2>2, NextLine
  <2> QED
    BY <1>1, <1>2, <2>1, <2>2, <2>3 DEF AnalyserInv
<1>4. CASE BadRequestLine
  <2>1. Line.status = "OK" /\ check_state = "REQUESTLINE" /\ Text # <<"get">>
        /\ answer' = <<"wrong">> /\ pc' = "closed"
    BY <1>4 DEF BadRequestLine, Turn, Sends
  <2>2. Whole(buf).answer = "wrong"
    BY <1>1, <1>2, <2>1, CompleteLine
  <2> QED
    BY <1>1, <2>1, <2>2 DEF AnalyserInv
<1>5. CASE EndOfHead
  <2>1. Line.status = "OK" /\ check_state = "HEADER" /\ Text = << >>
        /\ answer' = <<"result">> /\ pc' = "closed"
    BY <1>5 DEF EndOfHead, Turn, Sends
  <2>2. Whole(buf).answer = "result"
    BY <1>1, <1>2, <2>1, CompleteLine
  <2> QED
    BY <1>1, <2>1, <2>2 DEF AnalyserInv
<1>6. buf \in Seq(Bytes) /\ checked_index \in 0..Len(buf) /\ check_state \in {"REQUESTLINE", "HEADER"}
      /\ start_line \in 0..checked_index /\ Len(buf) \in Nat
  BY <1>2, LenProperties DEF Indices, States
<1> DEFINE l == Line
<1>7. Found(buf, checked_index, l)
  BY <1>6, LineFound DEF Line
<1> HIDE DEF l
<1>8. CASE NoLine
  <2>1. /\ l.status = "OPEN" /\ checked_index' = l.idx /\ pc' = "read"
        /\ UNCHANGED <<program, buf, start_line, check_state, answer>>
    BY <1>8 DEF NoLine, l
  <2>2. \/ /\ \A i \in (checked_index + 1)..Len(buf) : buf[i] \notin Ends
           /\ l.idx = Len(buf)
        \/ \E p \in (checked_index + 1)..Len(buf) :
              /\ buf[p] \in Ends /\ \A i \in (checked_index + 1)..(p - 1) : buf[i] \notin Ends
              /\ buf[p] = "CR" /\ p = Len(buf) /\ l.idx = p - 1
    BY <1>7, <2>1 DEF Found
  <2>3. \A i \in (start_line + 1)..checked_index : buf[i] \notin Ends
    BY <1>2 DEF Indices
  <2>4. /\ l.idx \in checked_index..Len(buf)
        /\ \A i \in (start_line + 1)..l.idx : buf[i] \notin Ends
        /\ l.idx = Len(buf) \/ (l.idx = Len(buf) - 1 /\ buf[Len(buf)] = "CR")
    BY <1>6, <2>2, <2>3
  <2>5. l.idx \in 0..Len(buf) /\ start_line \in 0..l.idx
    BY <1>6, <2>4
  <2>6. Indices'
    BY <1>2, <2>1, <2>4, <2>5 DEF Indices
  <2> QED
    BY <1>2, <2>1, <2>6 DEF AnalyserInv
<1>9. CASE BadLine
  <2>1. l.status = "BAD" /\ answer' = <<"wrong">> /\ pc' = "closed"
    BY <1>9 DEF BadLine, Sends, l
  <2>2. PICK p \in (checked_index + 1)..Len(buf) :
           /\ buf[p] \in Ends /\ \A i \in (checked_index + 1)..(p - 1) : buf[i] \notin Ends
           /\ \/ buf[p] = "CR" /\ p < Len(buf) /\ buf[p + 1] # "LF"
              \/ buf[p] = "LF"
    BY <1>7, <2>1 DEF Found
  <2> DEFINE text == SubSeq(buf, start_line + 1, p - 1)
  <2>3. /\ p \in Nat /\ p >= 1 /\ text \in Seq(Bytes)
        /\ buf[p] = "CR" => Run(buf)[p] = Mach(check_state, text, TRUE, "none")
        /\ buf[p] = "LF" => Whole(buf).answer = "wrong"
    BY <1>1, <1>2, <2>2, FirstLineEnd
  <2> HIDE DEF text
  <2>4. ASSUME buf[p] = "CR", p < Len(buf), buf[p + 1] # "LF"
        PROVE  Whole(buf).answer = "wrong"
    <3>1. p + 1 \in 1..Len(buf) /\ p + 1 \in 0..Len(buf) /\ (p + 1) - 1 = p
      BY <1>6, <2>3, <2>4
    <3>2. buf[p + 1] \in Bytes
      BY <1>6, <3>1, ElementOfSeq
    <3>3. Run(buf)[p + 1] = Byte(Mach(check_state, text, TRUE, "none"), buf[p + 1])
      <4>1. Run(buf)[p + 1] = Byte(Run(buf)[(p + 1) - 1], buf[p + 1])
        BY <1>6, <3>1, RunStep
      <4> QED
        BY <2>3, <2>4, <3>1, <4>1
    <3>4. Byte(Mach(check_state, text, TRUE, "none"), buf[p + 1]).answer = "wrong"
      BY ONLY <1>6, <2>3, <2>4, <3>2, ByteCases
    <3>5. Run(buf)[p + 1].answer = "wrong"
      BY <3>3, <3>4
    <3> QED
      BY <1>6, <3>1, <3>5, RunAnswered
  <2> QED
    BY <1>1, <2>1, <2>2, <2>3, <2>4 DEF AnalyserInv
<1> QED
  BY <1>3, <1>4, <1>5, <1>8, <1>9 DEF Parse

LEMMA RecvAnalyserInv ==
  ASSUME AnalyserInv, NEW new \in Pieces, AnalyserRecv(new)
  PROVE  AnalyserInv'
<1>1. /\ program = "analyser" /\ program' = program /\ pc = "read" /\ pc' = "parse" /\ buf' = buf \o new
      /\ UNCHANGED <<checked_index, start_line, check_state, answer>>
  BY DEF AnalyserRecv, Takes, parser
<1>2. Indices /\ answer = <<"none">> /\ Run(buf)[start_line] = Mach(check_state, << >>, FALSE, "none")
  BY <1>1 DEF AnalyserInv
<1>3. buf \in Seq(Bytes) /\ new \in Seq(Bytes) /\ checked_index \in 0..Len(buf) /\ start_line \in 0..checked_index
  BY <1>2, PiecesAreBytes DEF Indices
<1>4. Len(buf) \in Nat /\ Len(new) \in Nat
  BY <1>3, LenProperties
<1>5. /\ buf' \in Seq(Bytes) /\ Len(buf') = Len(buf) + Len(new)
      /\ \A i \in 1..Len(buf) : buf'[i] = buf[i]
  <2>1. /\ buf \o new \in Seq(Bytes) /\ Len(buf \o new) = Len(buf) + Len(new)
        /\ \A i \in 1..(Len(buf) + Len(new)) :
              (buf \o new)[i] = IF i <= Len(buf) THEN buf[i] ELSE new[i - Len(buf)]
    BY ONLY <1>3, ConcatProperties
  <2> QED
    BY ONLY <1>1, <1>4, <2>1
<1>6. Run(buf')[start_line] = Run(buf)[start_line]
  <2>1. start_line \in 0..Len(buf)
    BY <1>3, <1>4
  <2> QED
    BY <1>1, <1>3, <2>1, RunPrefix
<1>7. /\ checked_index' \in 0..Len(buf') /\ start_line' \in 0..checked_index'
      /\ start_line' # 0 => buf'[start_line'] = "LF"
      /\ \A i \in (start_line' + 1)..checked_index' : buf'[i] \notin Ends
  <2>1. /\ start_line # 0 => buf[start_line] = "LF"
        /\ \A i \in (start_line + 1)..checked_index : buf[i] \notin Ends
    BY <1>2 DEF Indices
  <2> QED
    BY <1>1, <1>3, <1>4, <1>5, <2>1
<1>8. Indices'
  BY <1>1, <1>2, <1>5, <1>7 DEF Indices
<1> QED
  BY <1>1, <1>2, <1>6, <1>8 DEF AnalyserInv

LEMMA NextAnalyserInv ==
  ASSUME AnalyserInv, [Next]_vars
  PROVE  AnalyserInv'
<1>1. CASE UNCHANGED vars
  BY <1>1 DEF vars, parser, AnalyserInv, Indices
<1>2. CASE RecvEnd
  <2>1. pc = "read" /\ pc' = "closed" /\ UNCHANGED <<program, buf, answer>>
    BY <1>2 DEF RecvEnd
  <2>2. program = "analyser" => answer = <<"none">> /\ Whole(buf).answer = "none"
    BY <2>1, NoAnswerYet DEF AnalyserInv
  <2> QED
    BY <2>1, <2>2 DEF AnalyserInv
<1>3. CASE Parse
  <2>1. program' = program
    BY <1>3 DEF Parse, RequestLine, BadRequestLine, Header, EndOfHead, NoLine, BadLine, Turn
  <2>2. CASE program = "analyser"
    BY <1>3, <2>2, ParseAnalyserInv
  <2>3. CASE program # "analyser"
    BY <2>1, <2>3 DEF AnalyserInv
  <2> QED
    BY <2>2, <2>3
<1>4. ASSUME NEW new \in Pieces, CgiRecv(new)
      PROVE  AnalyserInv'
  BY <1>4 DEF CgiRecv, Takes, AnalyserInv
<1> QED
  BY <1>1, <1>2, <1>3, <1>4, RecvAnalyserInv DEF Next

\* The analyser answers what the bytes it has read ask for, as if they had come one by one.
THEOREM CutsAreIgnored == Spec => []AnalyserIgnoresCuts
<1>1. Init => AnalyserInv
  <2> SUFFICES ASSUME Init, program = "analyser"
               PROVE  /\ pc = "read" /\ Indices /\ answer = <<"none">>
                      /\ Run(buf)[start_line] = Mach(check_state, << >>, FALSE, "none")
    BY DEF AnalyserInv
  <2>1. /\ buf = << >> /\ pc = "read" /\ answer = <<"none">> /\ checked_index = 0 /\ start_line = 0
        /\ check_state = "REQUESTLINE"
    BY DEF Init
  <2>2. buf \in Seq(Bytes) /\ Len(buf) = 0
    BY <2>1, EmptySeq
  <2>3. /\ checked_index \in 0..Len(buf) /\ start_line \in 0..checked_index /\ checked_index = Len(buf)
        /\ \A i \in (start_line + 1)..checked_index : FALSE
    BY ONLY <2>1, <2>2
  <2>4. Indices
    BY ONLY <2>1, <2>2, <2>3 DEF Indices, States
  <2>5. Run(buf)[0] = Start
    BY <2>2, RunStep
  <2>6. Start = Mach("REQUESTLINE", << >>, FALSE, "none")
    BY DEF Start, Mach
  <2> QED
    BY <2>1, <2>4, <2>5, <2>6
<1>2. AnalyserInv /\ [Next]_vars => AnalyserInv'
  BY NextAnalyserInv
<1>3. AnalyserInv => AnalyserIgnoresCuts
  <2> SUFFICES ASSUME AnalyserInv, program = "analyser", pc # "parse"
               PROVE  answer = <<Whole(buf).answer>>
    BY DEF AnalyserIgnoresCuts
  <2>1. CASE pc = "read"
    BY <2>1, NoAnswerYet DEF AnalyserInv
  <2>2. CASE pc # "read"
    BY <2>2 DEF AnalyserInv
  <2> QED
    BY <2>1, <2>2
<1> QED
  BY <1>1, <1>2, <1>3, PTL DEF Spec
=============================================================================
