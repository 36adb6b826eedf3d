------------------------ MODULE ClientStreamProofs ------------------------
(***************************************************************************)
(* Proofs about ClientStream, for every stream a client may send, however  *)
(* it is cut into packets, and for buffers of every size.  Each buffer     *)
(* holds a run of consecutive bytes of the stream; the invariant says      *)
(* which run, and that the runs meet.                                      *)
(***************************************************************************)
EXTENDS ClientStream, WellFoundedInduction, SequenceTheorems, TLAPS

Statuses == {"READ_HEADER", "ONE_CR", "ONE_LF", "TWO_CR", "BODY_READ",
             "BODY_WRITE", "WRITE", "CGI", "closed"}

\* Before the body of a request is touched.
Heading == {"READ_HEADER", "ONE_CR", "ONE_LF", "TWO_CR", "WRITE"}
InBody == {"BODY_READ", "BODY_WRITE"}

\* s holds the bytes that follow byte k of the stream, without a gap.
Consecutive(s, k) == \A i \in 1..Len(s) : s[i] = k + i

\* The last byte taken as header.
Latest == parsed[Len(parsed)]

Typed ==
  /\ stream \in Seq(Byte)
  /\ arrived \in 0..Len(stream) /\ taken \in 0..arrived
  /\ status \in Statuses
  /\ client_stream \in Seq(Nat) /\ chunk \in Seq(Nat) /\ post \in Seq(Nat)
  /\ parsed \in Seq(Nat)
  /\ Len(client_stream) <= ClientStreamSize
  /\ parse_pos \in 0..Len(client_stream)
  /\ header_line \in 0..Len(client_stream) /\ header_end \in 0..Len(client_stream)
  /\ filesize \in Nat
  /\ keepalive \in {"INACTIVE", "ACTIVE", "STOPPED"} /\ kacount \in 0..KaMax

\* Where the body's buffers are empty; and a CGI has stopped keep-alive, so that
\* what was read ahead of its body is never taken for a request.
Quiet ==
  /\ status \in Heading => chunk = <<>> /\ post = <<>> /\ filesize = 0
  /\ status = "BODY_READ" => chunk = <<>>
  /\ status = "CGI" => keepalive = "STOPPED" /\ Len(post) = filesize
  /\ Len(post) + Len(chunk) <= filesize

\* client_stream is a run of the stream; up to parse_pos it has been taken as
\* header; and until a body is read it ends where the socket begins.
StreamAt(k) ==
  /\ Consecutive(client_stream, k)
  /\ parse_pos > 0 => parsed # <<>> /\ Latest = k + parse_pos
  /\ status \in Heading =>
       k + Len(client_stream) = taken /\ Len(parsed) = k + parse_pos

StreamOK == \E k \in Nat : StreamAt(k)

\* The body follows the header, first what is written and then the chunk; a
\* chunk short of the body ends where the socket begins.
BodyOK ==
  /\ Consecutive(post, Latest)
  /\ status \in InBody =>
       /\ parsed # <<>>
       /\ Consecutive(chunk, Latest + Len(post))
       /\ Len(post) + Len(chunk) < filesize =>
            taken = Latest + Len(post) + Len(chunk)

\* The bytes taken as header are the stream's, none skipped and none repeated.
OrderOK == Consecutive(parsed, 0)

IInv == Typed /\ Quiet /\ StreamOK /\ BodyOK /\ OrderOK

-----------------------------------------------------------------------------
\* Runs of consecutive bytes.

\* What is left of a run past its first m bytes.
LEMMA RunSuffix ==
  ASSUME NEW s \in Seq(Nat), NEW k \in Nat, Consecutive(s, k), NEW m \in 0..Len(s)
  PROVE  LET t == SubSeq(s, m + 1, Len(s)) IN
         t \in Seq(Nat) /\ Len(t) = Len(s) - m /\ Consecutive(t, k + m)
<1> DEFINE t == SubSeq(s, m + 1, Len(s))
<1>1. Len(s) \in Nat /\ m \in Nat /\ m + 1 \in Int
  OBVIOUS
<1>2. \A i \in (m + 1)..Len(s) : s[i] \in Nat
  BY <1>1
<1>3. /\ t \in Seq(Nat) /\ Len(t) = IF m + 1 <= Len(s) THEN Len(s) - (m + 1) + 1 ELSE 0
      /\ \A i \in 1..(Len(s) - (m + 1) + 1) : t[i] = s[(m + 1) + i - 1]
  BY <1>1, <1>2, SubSeqProperties
<1> HIDE DEF t
<1>4. Len(t) = Len(s) - m
  BY <1>1, <1>3
<1>5. ASSUME NEW i \in 1..Len(t) PROVE t[i] = k + m + i
  <2>1. t[i] = s[(m + 1) + i - 1] /\ (m + 1) + i - 1 = m + i /\ m + i \in 1..Len(s)
    BY <1>1, <1>3, <1>4, SMTT(30)
  <2>2. s[m + i] = k + (m + i)
    BY <2>1 DEF Consecutive
  <2> QED BY <1>1, <2>1, <2>2
<1>6. Consecutive(t, k + m)
  BY <1>5 DEF Consecutive
<1> QED BY <1>3, <1>4, <1>6 DEF t

\* The first m bytes of a run.
LEMMA RunPrefix ==
  ASSUME NEW s \in Seq(Nat), NEW k \in Nat, Consecutive(s, k), NEW m \in 0..Len(s)
  PROVE  LET t == SubSeq(s, 1, m) IN
         t \in Seq(Nat) /\ Len(t) = m /\ Consecutive(t, k)
<1> DEFINE t == SubSeq(s, 1, m)
<1>1. Len(s) \in Nat /\ m \in Nat /\ \A i \in 1..m : s[i] \in Nat
  OBVIOUS
<1>2. /\ t \in Seq(Nat) /\ Len(t) = IF 1 <= m THEN m - 1 + 1 ELSE 0
      /\ \A i \in 1..(m - 1 + 1) : t[i] = s[1 + i - 1]
  BY <1>1, SubSeqProperties
<1> HIDE DEF t
<1>3. Len(t) = m
  BY <1>1, <1>2
<1>4. ASSUME NEW i \in 1..Len(t) PROVE t[i] = k + i
  <2>1. t[i] = s[i] /\ i \in 1..Len(s)
    BY <1>1, <1>2, <1>3
  <2> QED BY <2>1 DEF Consecutive
<1>5. Consecutive(t, k)
  BY <1>4 DEF Consecutive
<1> QED BY <1>2, <1>3, <1>5 DEF t

\* Two runs that meet.
LEMMA RunConcat ==
  ASSUME NEW s \in Seq(Nat), NEW t \in Seq(Nat), NEW k \in Nat,
         Consecutive(s, k), Consecutive(t, k + Len(s))
  PROVE  s \o t \in Seq(Nat) /\ Len(s \o t) = Len(s) + Len(t) /\ Consecutive(s \o t, k)
<1> DEFINE u == s \o t
<1>1. /\ u \in Seq(Nat) /\ Len(u) = Len(s) + Len(t)
      /\ \A i \in 1..(Len(s) + Len(t)) : u[i] = IF i <= Len(s) THEN s[i] ELSE t[i - Len(s)]
  BY ConcatProperties
<1>2. Len(s) \in Nat /\ Len(t) \in Nat
  OBVIOUS
<1> HIDE DEF u
<1>3. ASSUME NEW i \in 1..Len(u) PROVE u[i] = k + i
  <2>1. CASE i <= Len(s)
    <3>1. i \in 1..Len(s) /\ u[i] = s[i]
      BY <1>1, <1>2, <2>1
    <3> QED BY <3>1 DEF Consecutive
  <2>2. CASE ~(i <= Len(s))
    <3>1. i - Len(s) \in 1..Len(t) /\ u[i] = t[i - Len(s)]
      BY <1>1, <1>2, <2>2
    <3>2. t[i - Len(s)] = (k + Len(s)) + (i - Len(s))
      BY <3>1 DEF Consecutive
    <3>3. (k + Len(s)) + (i - Len(s)) = k + i
      BY <1>1, <1>2
    <3> QED BY <3>1, <3>2, <3>3
  <2> QED BY <2>1, <2>2
<1>4. Consecutive(u, k)
  BY <1>3 DEF Consecutive
<1> QED BY <1>1, <1>4 DEF u

\* What one read takes from the socket.
LEMMA RunRead ==
  ASSUME NEW n \in Nat, NEW k \in Nat
  PROVE  LET t == [i \in 1..n |-> k + i] IN
         t \in Seq(Nat) /\ Len(t) = n /\ Consecutive(t, k)
BY DEF Consecutive

\* One byte more.
LEMMA RunAppend ==
  ASSUME NEW s \in Seq(Nat), NEW e \in Nat
  PROVE  LET t == Append(s, e) IN
         /\ t \in Seq(Nat) /\ t # <<>> /\ Len(t) = Len(s) + 1 /\ t[Len(t)] = e
         /\ e = Len(s) + 1 /\ Consecutive(s, 0) => Consecutive(t, 0)
<1> DEFINE t == Append(s, e)
<1>1. /\ t \in Seq(Nat) /\ t # <<>> /\ Len(t) = Len(s) + 1
      /\ \A i \in 1..Len(s) : t[i] = s[i]
      /\ t[Len(s) + 1] = e
  BY AppendProperties
<1>2. Len(s) \in Nat
  OBVIOUS
<1> HIDE DEF t
<1>3. ASSUME e = Len(s) + 1, Consecutive(s, 0), NEW i \in 1..Len(t) PROVE t[i] = 0 + i
  <2>1. CASE i \in 1..Len(s)
    <3>1. s[i] = 0 + i
      BY <1>3, <2>1 DEF Consecutive
    <3> QED BY <1>1, <2>1, <3>1
  <2>2. CASE i = Len(s) + 1
    BY <1>1, <1>2, <1>3, <2>2
  <2> QED BY <1>1, <1>2, <2>1, <2>2
<1> QED BY <1>1, <1>3 DEF t, Consecutive
-----------------------------------------------------------------------------
\* The variables that the invariant is about.
watched == <<stream, taken, failed, client_stream, parse_pos, header_line, header_end,
             chunk, filesize, post, keepalive, kacount, parsed>>

LEMMA InitOK == Init => IInv
<1> SUFFICES ASSUME Init PROVE IInv OBVIOUS
<1>1. Typed
  BY StreamAssumption DEF Init, Typed, Statuses
<1>2. Quiet
  BY DEF Init, Quiet
<1>3. StreamAt(0)
  BY DEF Init, StreamAt, Consecutive
<1>4. BodyOK /\ OrderOK
  BY DEF Init, BodyOK, OrderOK, Consecutive, InBody
<1> QED BY <1>1, <1>2, <1>3, <1>4 DEF IInv, StreamOK

\* The client's steps, and those that only change who waits.
LEMMA InputOK ==
  IInv /\ (ClientSends \/ ClientCloses \/ Wake \/ Block \/ UNCHANGED vars) => IInv'
<1> SUFFICES ASSUME IInv, ClientSends \/ ClientCloses \/ Wake \/ Block \/ UNCHANGED vars
             PROVE  IInv'
  OBVIOUS
<1>1. UNCHANGED watched /\ status' = status
  BY DEF ClientSends, ClientCloses, Wake, Block, vars, input, parser, body, watched
<1>2. arrived' = arrived \/ arrived' \in (arrived + 1)..Len(stream)
  BY DEF ClientSends, ClientCloses, Wake, Block, vars, input
<1>3. arrived' \in 0..Len(stream) /\ taken \in 0..arrived'
  BY <1>2 DEF IInv, Typed
<1>4. Typed'
  BY <1>1, <1>3 DEF IInv, Typed, watched
<1>5. Quiet' /\ BodyOK' /\ OrderOK'
  BY <1>1 DEF IInv, Quiet, BodyOK, OrderOK, Latest, watched
<1>6. StreamOK'
  BY <1>1 DEF IInv, StreamOK, StreamAt, Latest, watched
<1> QED BY <1>4, <1>5, <1>6 DEF IInv

\* Steps that close the connection and leave the rest as it is.
LEMMA CloseOK ==
  ASSUME IInv, status' = "closed", UNCHANGED watched, UNCHANGED arrived
  PROVE  IInv'
<1>1. Typed'
  BY DEF IInv, Typed, Statuses, watched
<1>2. Quiet' /\ BodyOK' /\ OrderOK'
  BY DEF IInv, Quiet, BodyOK, OrderOK, Latest, watched, Heading, InBody
<1>3. StreamOK'
  BY DEF IInv, StreamOK, StreamAt, Latest, watched, Heading
<1> QED BY <1>1, <1>2, <1>3 DEF IInv

LEMMA RefuseOK ==
  IInv /\ (Timeout \/ Illegal \/ ScanBadLine \/ ReadHeaderFull \/ ReadBodyShort
          \/ ReadBodyFails) => IInv'
<1> SUFFICES ASSUME IInv,
                    Timeout \/ Illegal \/ ScanBadLine \/ ReadHeaderFull \/ ReadBodyShort
                    \/ ReadBodyFails
             PROVE  IInv'
  OBVIOUS
<1>1. status' = "closed" /\ UNCHANGED watched /\ UNCHANGED arrived
  BY DEF Timeout, Illegal, ScanBadLine, ReadHeaderFull, ReadBodyShort, ReadBodyFails,
         Refuse, input, parser, body, watched
<1> QED BY <1>1, CloseOK

LEMMA SocketFailsOK == IInv /\ SocketFails => IInv'
<1> SUFFICES ASSUME IInv, SocketFails PROVE IInv' OBVIOUS
<1>1. /\ failed' = TRUE
      /\ UNCHANGED <<stream, arrived, taken, status, client_stream, parse_pos,
                     header_line, header_end, chunk, filesize, post, keepalive,
                     kacount, parsed>>
  BY DEF SocketFails, input, parser, body
<1>2. Typed' /\ Quiet'
  BY <1>1 DEF IInv, Typed, Quiet
<1>3. BodyOK' /\ OrderOK'
  BY <1>1 DEF IInv, BodyOK, OrderOK, Latest
<1>4. StreamOK'
  BY <1>1 DEF IInv, StreamOK, StreamAt, Latest
<1> QED BY <1>2, <1>3, <1>4 DEF IInv

\* free_request keeps the runs when it recycles a request whose body was never
\* read.
LEMMA FreeOK ==
  ASSUME IInv, NEW response, FreeRequest(response),
         UNCHANGED <<stream, arrived, taken, failed, parsed>>,
         MayRecycle(response) => status \in Heading
  PROVE  IInv'
<1>1. /\ parse_pos' = 0 /\ header_line' = 0 /\ header_end' = 0
      /\ keepalive' = "INACTIVE" /\ chunk' = <<>> /\ filesize' = 0 /\ post' = <<>>
      /\ \/ /\ status \in Heading
            /\ status' = "READ_HEADER" /\ client_stream' = Remaining
            /\ kacount' = kacount - 1 /\ kacount > 0
         \/ status' = "closed" /\ client_stream' = client_stream /\ kacount' = kacount
  BY DEF FreeRequest, MayRecycle
<1>2. PICK k \in Nat : StreamAt(k)
  BY DEF IInv, StreamOK
<1>3. /\ client_stream \in Seq(Nat) /\ parse_pos \in 0..Len(client_stream)
      /\ Len(client_stream) \in Nat /\ parse_pos \in Nat
      /\ Len(client_stream) <= ClientStreamSize
      /\ ClientStreamSize \in Nat /\ KaMax \in Nat /\ kacount \in 0..KaMax
  BY StreamAssumption DEF IInv, Typed
<1>4. /\ Remaining \in Seq(Nat) /\ Len(Remaining) = Len(client_stream) - parse_pos
      /\ Consecutive(Remaining, k + parse_pos)
  BY <1>2, <1>3, RunSuffix DEF Remaining, StreamAt
<1> HIDE DEF Remaining
<1>5. /\ client_stream' \in Seq(Nat) /\ Len(client_stream') <= ClientStreamSize
      /\ Len(client_stream') \in Nat /\ kacount' \in 0..KaMax
  BY <1>1, <1>3, <1>4
<1>6. Typed'
  BY <1>1, <1>5 DEF IInv, Typed, Statuses
<1>7. Quiet' /\ BodyOK' /\ OrderOK'
  BY <1>1 DEF IInv, Quiet, BodyOK, OrderOK, Consecutive, InBody
<1>8. CASE status' = "closed"
  <2>1. StreamAt(k)'
    BY <1>1, <1>2, <1>8 DEF StreamAt, Heading
  <2> QED BY <1>6, <1>7, <2>1 DEF IInv, StreamOK
<1>9. CASE status' = "READ_HEADER"
  <2>1. client_stream' = Remaining /\ status \in Heading
    BY <1>1, <1>9
  <2>2. k + Len(client_stream) = taken /\ Len(parsed) = k + parse_pos
    BY <1>2, <2>1 DEF StreamAt
  <2>3. PICK h \in Nat : h = k + parse_pos
    BY <1>3
  <2>4. h + Len(Remaining) = taken /\ Len(parsed) = h + 0
    BY <1>3, <1>4, <2>2, <2>3
  <2>5. StreamAt(h)'
    BY <1>1, <1>4, <2>1, <2>3, <2>4 DEF StreamAt
  <2> QED BY <1>6, <1>7, <2>5 DEF IInv, StreamOK
<1> QED BY <1>1, <1>8, <1>9

LEMMA FreedOK ==
  IInv /\ (ReadHeaderEnds \/ WriteBodyFails \/ Respond) => IInv'
<1> SUFFICES ASSUME IInv, ReadHeaderEnds \/ WriteBodyFails \/ Respond
             PROVE  IInv'
  OBVIOUS
<1>1. UNCHANGED <<stream, arrived, taken, failed, parsed>>
  BY DEF ReadHeaderEnds, WriteBodyFails, Respond, input
<1>2. CASE ReadHeaderEnds
  BY <1>1, <1>2, FreeOK DEF ReadHeaderEnds, Reading, InHeader, Heading
<1>3. CASE WriteBodyFails
  BY <1>1, <1>3, FreeOK DEF WriteBodyFails, MayRecycle
<1>4. CASE Respond
  <2>1. status = "WRITE" \/ keepalive = "STOPPED"
    BY <1>4 DEF Respond, IInv, Quiet
  <2>2. PICK response \in {"below500", "none"} : FreeRequest(response)
    BY <1>4 DEF Respond
  <2>3. MayRecycle(response) => status \in Heading
    BY <2>1 DEF MayRecycle, Heading
  <2> QED BY <1>1, <2>2, <2>3, FreeOK
<1> QED BY <1>2, <1>3, <1>4
-----------------------------------------------------------------------------
HeaderStatuses == {"READ_HEADER", "ONE_CR", "ONE_LF", "TWO_CR"}

LEMMA ToRange ==
  ASSUME status \in HeaderStatuses
  PROVE  To \in HeaderStatuses \cup {"BODY_READ"}
BY DEF To, NextStatus, HeaderStatuses

\* One turn of read_header's loop takes the byte after those it has taken,
\* whatever the step makes of the status.
LEMMA ScanOK ==
  ASSUME IInv, Scan, status' \in Statuses
  PROVE  /\ status \in HeaderStatuses
         /\ parse_pos' = parse_pos + 1 /\ parse_pos' \in 1..Len(client_stream)
         /\ header_end' \in 0..Len(client_stream)
         /\ UNCHANGED <<stream, arrived, taken, failed, client_stream>>
         /\ parsed' \in Seq(Nat) /\ parsed' # <<>>
         /\ Latest' = client_stream[parse_pos + 1]
         /\ StreamOK' /\ OrderOK'
<1>1. /\ status \in HeaderStatuses /\ parse_pos < Len(client_stream)
      /\ parse_pos' = parse_pos + 1
      /\ parsed' = Append(parsed, client_stream[parse_pos + 1])
      /\ header_end' = HeaderEnd
      /\ UNCHANGED <<stream, arrived, taken, failed, client_stream>>
  BY DEF Scan, Parsing, InHeader, input, HeaderStatuses
<1>2. /\ client_stream \in Seq(Nat) /\ parsed \in Seq(Nat) /\ Len(client_stream) \in Nat
      /\ parse_pos \in 0..Len(client_stream) /\ header_end \in 0..Len(client_stream)
      /\ Len(parsed) \in Nat
  BY DEF IInv, Typed
<1>3. parse_pos' \in 1..Len(client_stream) /\ header_end' \in 0..Len(client_stream)
  BY <1>1, <1>2 DEF HeaderEnd
<1>4. client_stream[parse_pos + 1] \in Nat
  BY <1>1, <1>2
<1>5. PICK e \in Nat : e = client_stream[parse_pos + 1]
  BY <1>4
<1>6. /\ parsed' \in Seq(Nat) /\ parsed' # <<>> /\ Len(parsed') = Len(parsed) + 1
      /\ Latest' = e
      /\ e = Len(parsed) + 1 /\ Consecutive(parsed, 0) => Consecutive(parsed', 0)
  BY <1>1, <1>2, <1>5, RunAppend DEF Latest
<1>7. PICK k \in Nat : StreamAt(k)
  BY DEF IInv, StreamOK
<1>8. e = k + parse_pos + 1
  <2>1. parse_pos + 1 \in 1..Len(client_stream)
    BY <1>1, <1>2
  <2>2. e = k + (parse_pos + 1)
    BY <1>5, <1>7, <2>1 DEF StreamAt, Consecutive
  <2> QED BY <1>2, <2>2
<1>9. k + Len(client_stream) = taken /\ Len(parsed) = k + parse_pos
  BY <1>1, <1>7 DEF StreamAt, Heading, HeaderStatuses
<1>10. e = Len(parsed) + 1
  BY <1>2, <1>8, <1>9
<1>11. OrderOK'
  BY <1>1, <1>6, <1>10 DEF IInv, OrderOK
<1>12. Len(parsed') = k + parse_pos'
  <2>1. parse_pos \in Nat /\ (k + parse_pos) + 1 = k + (parse_pos + 1)
    BY <1>2
  <2>2. Len(parsed') = Len(parsed) + 1 /\ parse_pos' = parse_pos + 1
    BY <1>1, <1>6
  <2> QED BY <1>9, <2>1, <2>2
<1>13. Latest' = k + parse_pos'
  BY <1>1, <1>2, <1>6, <1>8
<1>14. Consecutive(client_stream', k)
  BY <1>1, <1>7 DEF StreamAt
<1>15. StreamAt(k)'
  BY <1>1, <1>6, <1>9, <1>12, <1>13, <1>14 DEF StreamAt
<1> QED BY <1>1, <1>3, <1>5, <1>6, <1>11, <1>15 DEF StreamOK

\* The turns that stay in the header or end a request without a body.
LEMMA HeaderOK ==
  IInv /\ (ScanByte \/ ScanRequestLine \/ ScanOption \/ ScanEnd) => IInv'
<1> SUFFICES ASSUME IInv, ScanByte \/ ScanRequestLine \/ ScanOption \/ ScanEnd
             PROVE  IInv'
  OBVIOUS
<1>1. Scan /\ status \in HeaderStatuses
  BY DEF ScanByte, ScanRequestLine, ScanOption, ScanEnd, Scan, Parsing, InHeader,
         HeaderStatuses
<1>2. /\ status' \in Heading
      /\ UNCHANGED <<chunk, filesize, post, kacount>>
      /\ keepalive' \in {keepalive, "ACTIVE", "STOPPED"}
      /\ header_line' \in {header_line, parse_pos + 1}
  BY <1>1, ToRange DEF ScanByte, ScanRequestLine, ScanOption, ScanEnd, body, Heading,
                       HeaderStatuses
<1>3. status' \in Statuses
  BY <1>2 DEF Heading, Statuses
<1>4. /\ parse_pos' = parse_pos + 1 /\ parse_pos' \in 1..Len(client_stream)
      /\ header_end' \in 0..Len(client_stream)
      /\ UNCHANGED <<stream, arrived, taken, failed, client_stream>>
      /\ parsed' \in Seq(Nat) /\ StreamOK' /\ OrderOK'
  BY <1>1, <1>3, ScanOK
<1>5. /\ header_line \in 0..Len(client_stream) /\ Len(client_stream) \in Nat
      /\ keepalive \in {"INACTIVE", "ACTIVE", "STOPPED"}
  BY DEF IInv, Typed
<1>6. header_line' \in 0..Len(client_stream) /\ parse_pos' \in 0..Len(client_stream)
  BY <1>2, <1>4, <1>5
<1>7. Typed'
  BY <1>2, <1>3, <1>4, <1>5, <1>6 DEF IInv, Typed
<1>8. chunk = <<>> /\ post = <<>> /\ filesize = 0
  BY <1>1 DEF IInv, Quiet, Heading, HeaderStatuses
<1>9. Quiet'
  BY <1>2, <1>8 DEF Quiet, Heading
<1>10. BodyOK'
  BY <1>2, <1>8 DEF BodyOK, Consecutive, Heading, InBody
<1> QED BY <1>4, <1>7, <1>9, <1>10 DEF IInv

LEMMA ValueRange == \A l : Value(l) \in {0, 1, 2, 3, -1}
BY DEF Value

\* The end of a POST's header: what was read ahead of it follows it.
LEMMA ScanEndPostOK == IInv /\ ScanEndPost => IInv'
<1> SUFFICES ASSUME IInv, ScanEndPost PROVE IInv' OBVIOUS
<1>1. /\ Scan
      /\ UNCHANGED <<header_line, post, keepalive, kacount>>
  BY DEF ScanEndPost
<1>2. \/ /\ status' = "BODY_WRITE" /\ ValidLength /\ filesize' = Value(content_length)
         /\ chunk' = Ahead(SubSeq(client_stream, parse_pos + 2, Len(client_stream)), filesize')
      \/ status' = "closed" /\ UNCHANGED <<filesize, chunk>>
  BY DEF ScanEndPost
<1>3. status' \in Statuses
  BY <1>2 DEF Statuses
<1>4. /\ parse_pos' = parse_pos + 1 /\ parse_pos' \in 1..Len(client_stream)
      /\ header_end' \in 0..Len(client_stream)
      /\ UNCHANGED <<stream, arrived, taken, failed, client_stream>>
      /\ parsed' \in Seq(Nat) /\ parsed' # <<>>
      /\ Latest' = client_stream[parse_pos + 1]
      /\ StreamOK' /\ OrderOK' /\ status \in HeaderStatuses
  BY <1>1, <1>3, ScanOK
<1>5. chunk = <<>> /\ post = <<>> /\ filesize = 0 /\ post' = <<>> /\ Len(post') = 0
  BY <1>1, <1>4 DEF IInv, Quiet, Heading, HeaderStatuses
<1>6. /\ client_stream \in Seq(Nat) /\ Len(client_stream) \in Nat
      /\ parse_pos \in 0..Len(client_stream) /\ taken \in Nat
  <2>1. taken \in 0..arrived /\ arrived \in 0..Len(stream)
    BY DEF IInv, Typed
  <2> QED BY <2>1 DEF IInv, Typed
<1>7. CASE status' = "closed"
  <2>1. UNCHANGED <<filesize, chunk>>
    BY <1>2, <1>7
  <2>2. Typed'
    BY <1>1, <1>3, <1>4, <1>6, <2>1 DEF IInv, Typed
  <2>3. Quiet' /\ BodyOK'
    BY <1>1, <1>5, <1>7, <2>1 DEF Quiet, BodyOK, Consecutive, Heading, InBody
  <2> QED BY <1>4, <2>2, <2>3 DEF IInv
<1>8. CASE status' = "BODY_WRITE"
  <2> DEFINE rest == SubSeq(client_stream, parse_pos + 2, Len(client_stream))
             m == Least(Len(rest), filesize')
  <2>1. ValidLength /\ filesize' = Value(content_length) /\ chunk' = SubSeq(rest, 1, m)
    BY <1>2, <1>8 DEF Ahead
  <2>2. filesize' \in Nat
    BY <2>1, ValueRange DEF ValidLength
  <2>3. PICK k \in Nat : StreamAt(k)
    BY DEF IInv, StreamOK
  <2>4. PICK h \in Nat : h = k + (parse_pos + 1)
    BY <1>6
  <2>5. /\ rest \in Seq(Nat) /\ Len(rest) = Len(client_stream) - (parse_pos + 1)
        /\ Consecutive(rest, h)
    <3>1. parse_pos + 1 \in 0..Len(client_stream) /\ (parse_pos + 1) + 1 = parse_pos + 2
      BY <1>4, <1>6
    <3>2. Consecutive(client_stream, k)
      BY <2>3 DEF StreamAt
    <3> QED BY <1>6, <2>4, <3>1, <3>2, RunSuffix
  <2> HIDE DEF rest
  <2>6. Latest' = h
    <3>1. parse_pos + 1 \in 1..Len(client_stream)
      BY <1>4, <1>6
    <3> QED BY <1>4, <2>3, <2>4, <3>1 DEF StreamAt, Consecutive
  <2>7. Len(rest) \in Nat /\ m \in 0..Len(rest) /\ m <= filesize' /\ (m < filesize' => m = Len(rest))
    BY <2>2, <2>5 DEF Least
  <2>8. SubSeq(rest, 1, m) \in Seq(Nat) /\ Len(SubSeq(rest, 1, m)) = m
        /\ Consecutive(SubSeq(rest, 1, m), h)
    BY <2>5, <2>7, RunPrefix
  <2> HIDE DEF m
  <2>9. chunk' \in Seq(Nat) /\ Len(chunk') = m /\ Consecutive(chunk', h)
    BY <2>1, <2>8
  <2>10. taken = h + Len(rest)
    <3>1. k + Len(client_stream) = taken
      BY <1>4, <2>3 DEF StreamAt, Heading, HeaderStatuses
    <3> QED BY <1>6, <2>4, <2>5, <3>1, SMTT(30)
  <2>11. Typed'
    BY <1>1, <1>3, <1>4, <1>5, <1>6, <2>2, <2>9 DEF IInv, Typed
  <2>12. Quiet'
    <3>1. Len(post') + Len(chunk') <= filesize'
      BY <1>5, <2>2, <2>7, <2>9
    <3> QED BY <1>8, <3>1 DEF Quiet, Heading
  <2>13. BodyOK'
    <3>1. Consecutive(post', Latest')
      BY <1>5 DEF Consecutive
    <3>2. Latest' + Len(post') = h
      BY <1>5, <2>6
    <3>3. Len(post') + Len(chunk') < filesize' =>
            taken' = Latest' + Len(post') + Len(chunk')
      <4>1. taken' = taken /\ Len(post') = 0 /\ Len(chunk') = m /\ Latest' = h
        BY <1>4, <1>5, <2>6, <2>9
      <4>2. m < filesize' => taken = h + m
        BY <2>7, <2>10
      <4>3. m \in Nat /\ 0 + m = m /\ (h + 0) + m = h + m
        BY <2>7
      <4> QED BY <4>1, <4>2, <4>3
    <3> QED BY <1>4, <2>9, <3>1, <3>2, <3>3 DEF BodyOK
  <2> QED BY <1>4, <2>11, <2>12, <2>13 DEF IInv
<1> QED BY <1>2, <1>7, <1>8
-----------------------------------------------------------------------------
LEMMA Sizes ==
  /\ ClientStreamSize \in Nat /\ BufferSize \in Nat /\ KaMax \in Nat
BY StreamAssumption

LEMMA Numbers ==
  ASSUME IInv
  PROVE  /\ taken \in Nat /\ arrived \in Nat /\ taken <= arrived
         /\ filesize \in Nat /\ Len(post) \in Nat /\ Len(chunk) \in Nat
         /\ Len(post) + Len(chunk) <= filesize
         /\ Len(client_stream) \in Nat /\ Len(parsed) \in Nat
         /\ client_stream \in Seq(Nat) /\ parsed \in Seq(Nat)
         /\ chunk \in Seq(Nat) /\ post \in Seq(Nat)
<1>1. /\ stream \in Seq(Byte) /\ arrived \in 0..Len(stream) /\ taken \in 0..arrived
      /\ client_stream \in Seq(Nat) /\ parsed \in Seq(Nat)
      /\ chunk \in Seq(Nat) /\ post \in Seq(Nat) /\ filesize \in Nat
  BY DEF IInv, Typed
<1>2. Len(post) + Len(chunk) <= filesize
  BY DEF IInv, Quiet
<1>3. Len(stream) \in Nat
  BY <1>1
<1>4. taken \in Nat /\ arrived \in Nat /\ taken <= arrived
  BY <1>1, <1>3
<1> QED BY <1>1, <1>2, <1>4

\* read_header reads on where client_stream ends.
LEMMA ReadHeaderOK == IInv /\ ReadHeader => IInv'
<1> SUFFICES ASSUME IInv, ReadHeader PROVE IInv' OBVIOUS
<1> DEFINE n == Least(arrived - taken, HeaderRoom)
           r == [i \in 1..n |-> taken + i]
<1>1. /\ status \in HeaderStatuses /\ HeaderRoom > 0 /\ arrived > taken /\ ~failed
      /\ client_stream' = client_stream \o r /\ taken' = taken + n
      /\ UNCHANGED <<stream, arrived, failed, status, parse_pos, header_line,
                     header_end, chunk, filesize, post, keepalive, kacount, parsed>>
  BY DEF ReadHeader, Reading, InHeader, HeaderStatuses, input, body
<1>2. n \in Nat /\ n <= arrived - taken /\ n <= ClientStreamSize - Len(client_stream)
  BY <1>1, Numbers, Sizes, SMTT(30) DEF Least, HeaderRoom
<1>3. taken \in Nat
  BY Numbers
<1>4. r \in Seq(Nat) /\ Len(r) = n /\ Consecutive(r, taken)
  BY <1>2, <1>3, RunRead
<1> HIDE DEF n, r
<1>5. PICK k \in Nat : StreamAt(k)
  BY DEF IInv, StreamOK
<1>6. /\ k + Len(client_stream) = taken /\ Len(parsed) = k + parse_pos
      /\ Consecutive(client_stream, k)
  BY <1>1, <1>5 DEF StreamAt, Heading, HeaderStatuses
<1>7. /\ client_stream' \in Seq(Nat) /\ Len(client_stream') = Len(client_stream) + n
      /\ Consecutive(client_stream', k)
  BY <1>1, <1>4, <1>6, Numbers, RunConcat
<1>8. k + Len(client_stream') = taken'
  BY <1>1, <1>2, <1>6, <1>7, Numbers
<1>9. StreamAt(k)'
  BY <1>1, <1>5, <1>6, <1>7, <1>8 DEF StreamAt, Latest
<1>10. /\ Len(client_stream') <= ClientStreamSize /\ Len(client_stream') \in Nat
       /\ Len(client_stream) <= Len(client_stream')
       /\ taken' \in 0..arrived
  BY <1>1, <1>2, <1>7, Numbers, Sizes, SMTT(30)
<1>11. /\ parse_pos' \in 0..Len(client_stream') /\ header_line' \in 0..Len(client_stream')
       /\ header_end' \in 0..Len(client_stream')
  <2>1. /\ parse_pos \in 0..Len(client_stream) /\ header_line \in 0..Len(client_stream)
        /\ header_end \in 0..Len(client_stream)
    BY DEF IInv, Typed
  <2> QED BY <1>1, <1>10, <2>1, Numbers
<1>12. Typed'
  BY <1>1, <1>7, <1>10, <1>11 DEF IInv, Typed
<1>13. Quiet' /\ OrderOK'
  BY <1>1 DEF IInv, Quiet, OrderOK
<1>14. BodyOK'
  BY <1>1 DEF IInv, BodyOK, Latest, InBody, HeaderStatuses
<1> QED BY <1>9, <1>12, <1>13, <1>14 DEF IInv, StreamOK

\* While a body is read, StreamAt says nothing of the socket.
LEMMA BodyStream ==
  ASSUME IInv, status \in InBody, status' \in InBody \cup {"CGI"},
         UNCHANGED <<client_stream, parse_pos, parsed, failed>>
  PROVE  StreamOK' /\ OrderOK' /\ Latest' = Latest
<1>1. StreamOK'
  BY DEF IInv, StreamOK, StreamAt, Latest, InBody, Heading
<1> QED BY <1>1 DEF IInv, OrderOK, Latest

LEMMA LatestNat ==
  ASSUME IInv, status \in InBody
  PROVE  /\ parsed # <<>> /\ Latest \in Nat
         /\ Consecutive(post, Latest) /\ Consecutive(chunk, Latest + Len(post))
         /\ Len(post) + Len(chunk) < filesize =>
              taken = Latest + Len(post) + Len(chunk)
<1>1. /\ parsed # <<>>
      /\ Consecutive(post, Latest) /\ Consecutive(chunk, Latest + Len(post))
      /\ Len(post) + Len(chunk) < filesize =>
           taken = Latest + Len(post) + Len(chunk)
  BY DEF IInv, BodyOK
<1>2. Len(parsed) \in 1..Len(parsed) /\ parsed \in Seq(Nat)
  BY <1>1, Numbers
<1>3. parsed[Len(parsed)] \in Nat
  BY <1>2
<1> QED BY <1>1, <1>3 DEF Latest

\* read_body reads on where the chunk ends, and never past the body.
LEMMA ReadBodyOK == IInv /\ ReadBody => IInv'
<1> SUFFICES ASSUME IInv, ReadBody PROVE IInv' OBVIOUS
<1> DEFINE n == Least(arrived - taken, BodyWanted)
           r == [i \in 1..n |-> taken + i]
<1>1. /\ status = "BODY_READ" /\ arrived > taken /\ ~failed
      /\ chunk' = chunk \o r /\ taken' = taken + n /\ status' = "BODY_WRITE"
      /\ UNCHANGED <<stream, arrived, failed, client_stream, parse_pos, header_line,
                     header_end, filesize, post, keepalive, kacount, parsed>>
  BY DEF ReadBody, input, parser
<1>2. status \in InBody /\ status' \in InBody /\ chunk = <<>> /\ Len(chunk) = 0
  BY <1>1 DEF IInv, Quiet, InBody
<1>3. n \in Nat /\ n <= arrived - taken /\ n <= filesize - Len(post)
  BY <1>1, <1>2, Numbers, Sizes DEF Least, BodyWanted, filepos
<1>4. r \in Seq(Nat) /\ Len(r) = n /\ Consecutive(r, taken)
  BY <1>3, Numbers, RunRead
<1>5. chunk' = r
  BY <1>1, <1>2, <1>4
<1> HIDE DEF n, r
<1>6. StreamOK' /\ OrderOK' /\ Latest' = Latest
  BY <1>1, <1>2, BodyStream
<1>7. /\ Latest \in Nat /\ parsed # <<>> /\ Consecutive(post, Latest)
      /\ Len(post) < filesize => taken = Latest + Len(post)
  BY <1>1, <1>2, LatestNat, Numbers
<1>8. Typed'
  <2>1. taken' \in 0..arrived
    BY <1>1, <1>3, Numbers
  <2>2. status' \in Statuses
    BY <1>1 DEF Statuses
  <2> QED BY <1>1, <1>4, <1>5, <2>1, <2>2 DEF IInv, Typed
<1>9. Quiet'
  <2>1. Len(post') + Len(chunk') <= filesize'
    BY <1>1, <1>3, <1>4, <1>5, Numbers
  <2> QED BY <1>1, <2>1 DEF Quiet, Heading
<1>10. BodyOK'
  <2>1. CASE Len(post) = filesize
    <3>1. n = 0 /\ Len(chunk') = 0
      BY <1>3, <1>4, <1>5, <2>1, Numbers
    <3>2. Consecutive(chunk', Latest' + Len(post'))
      BY <3>1 DEF Consecutive
    <3>3. ~(Len(post') + Len(chunk') < filesize')
      BY <1>1, <2>1, <3>1, Numbers
    <3> QED BY <1>1, <1>6, <1>7, <3>2, <3>3 DEF BodyOK
  <2>2. CASE Len(post) < filesize
    <3>1. taken = Latest + Len(post)
      BY <1>7, <2>2
    <3>2. Consecutive(chunk', Latest' + Len(post'))
      BY <1>1, <1>4, <1>5, <1>6, <3>1
    <3>3. taken' = Latest' + Len(post') + Len(chunk')
      BY <1>1, <1>4, <1>5, <1>6, <3>1
    <3> QED BY <1>1, <1>6, <1>7, <3>2, <3>3 DEF BodyOK
  <2> QED BY <2>1, <2>2, Numbers
<1> QED BY <1>6, <1>8, <1>9, <1>10 DEF IInv

LEMMA Moved ==
  ASSUME NEW a \in Nat, NEW c \in Nat, NEW n \in 0..c
  PROVE  (a + n) + (c - n) = a + c
OBVIOUS

\* A short write moves bytes from the chunk to the file.
LEMMA WriteBodyOK == IInv /\ WriteBody => IInv'
<1> SUFFICES ASSUME IInv, WriteBody PROVE IInv' OBVIOUS
<1>1. PICK n \in 1..ToWrite : post' = post \o SubSeq(chunk, 1, n) /\ chunk' = Rest(n)
  BY DEF WriteBody
<1>2. /\ status = "BODY_WRITE" /\ status' = status
      /\ UNCHANGED <<stream, arrived, taken, failed, client_stream, parse_pos,
                     header_line, header_end, filesize, keepalive, kacount, parsed>>
  BY DEF WriteBody, input, parser
<1>3. status \in InBody /\ status' \in InBody
  BY <1>2 DEF InBody
<1>4. n \in Nat /\ n \in 0..Len(chunk)
  BY Numbers DEF ToWrite, Least, filepos
<1>5. PICK h \in Nat : h = Latest /\ Consecutive(post, h) /\ Consecutive(chunk, h + Len(post))
  BY <1>3, LatestNat
<1>6. PICK g \in Nat : g = h + Len(post)
  BY Numbers
<1> DEFINE s == SubSeq(chunk, 1, n)
           t == SubSeq(chunk, n + 1, Len(chunk))
<1>7. s \in Seq(Nat) /\ Len(s) = n /\ Consecutive(s, g)
  BY <1>4, <1>5, <1>6, Numbers, RunPrefix
<1>8. t \in Seq(Nat) /\ Len(t) = Len(chunk) - n /\ Consecutive(t, g + n)
  BY <1>4, <1>5, <1>6, Numbers, RunSuffix
<1>9. post' = post \o s /\ chunk' = t
  BY <1>1 DEF Rest
<1> HIDE DEF s, t
<1>10. post' \in Seq(Nat) /\ Len(post') = Len(post) + n /\ Consecutive(post', h)
  BY <1>5, <1>6, <1>7, <1>9, Numbers, RunConcat
<1>11. StreamOK' /\ OrderOK' /\ Latest' = Latest
  BY <1>2, <1>3, BodyStream
<1>12. Len(post') + Len(chunk') = Len(post) + Len(chunk)
  <2>1. Len(post') = Len(post) + n /\ Len(chunk') = Len(chunk) - n
    BY <1>8, <1>9, <1>10
  <2>2. Len(post) \in Nat /\ Len(chunk) \in Nat
    BY Numbers
  <2> QED BY <1>4, <2>1, <2>2, Moved
<1>13. Typed'
  BY <1>2, <1>8, <1>9, <1>10 DEF IInv, Typed
<1>14. Quiet'
  BY <1>2, <1>12, Numbers DEF Quiet, Heading
<1>15. BodyOK'
  <2>1. Latest' + Len(post') = g + n
    BY <1>4, <1>5, <1>6, <1>10, <1>11, Numbers
  <2>2. Consecutive(post', Latest') /\ Consecutive(chunk', Latest' + Len(post'))
    BY <1>5, <1>8, <1>9, <1>10, <1>11, <2>1
  <2>3. (Latest' + Len(post')) + Len(chunk') = (Latest + Len(post)) + Len(chunk)
    <3>1. Len(chunk') = Len(chunk) - n /\ Len(chunk) \in Nat
      BY <1>8, <1>9, Numbers
    <3>2. (g + n) + (Len(chunk) - n) = g + Len(chunk)
      BY <1>4, <3>1, Moved
    <3> QED BY <1>5, <1>6, <2>1, <3>1, <3>2
  <2>4. Len(post') + Len(chunk') < filesize' =>
          taken' = Latest' + Len(post') + Len(chunk')
    BY <1>2, <1>3, <1>12, <2>3, LatestNat
  <2>5. parsed' # <<>>
    BY <1>2, <1>3, LatestNat
  <2> QED BY <2>2, <2>4, <2>5 DEF BodyOK
<1> QED BY <1>11, <1>13, <1>14, <1>15 DEF IInv

\* The chunk is written.
LEMMA WriteBodyDoneOK == IInv /\ WriteBodyDone => IInv'
<1> SUFFICES ASSUME IInv, WriteBodyDone PROVE IInv' OBVIOUS
<1>1. /\ status = "BODY_WRITE" /\ ToWrite = 0 /\ chunk' = <<>>
      /\ \/ Len(post) >= filesize /\ status' = "CGI" /\ keepalive' = "STOPPED"
         \/ ~(Len(post) >= filesize) /\ status' = "BODY_READ" /\ keepalive' = keepalive
      /\ UNCHANGED <<stream, arrived, taken, failed, client_stream, parse_pos,
                     header_line, header_end, filesize, post, kacount, parsed>>
  BY DEF WriteBodyDone, input, parser, filepos
<1>2. status \in InBody /\ status' \in InBody \cup {"CGI"} /\ Len(chunk') = 0
  BY <1>1 DEF InBody
<1>3. StreamOK' /\ OrderOK' /\ Latest' = Latest
  BY <1>1, <1>2, BodyStream
<1>4. status' = "BODY_READ" => Len(chunk) = 0
  BY <1>1, Numbers DEF ToWrite, Least, filepos
<1>5. status' = "CGI" => Len(post) = filesize
  BY <1>1, Numbers
<1>6. Typed'
  BY <1>1 DEF IInv, Typed, Statuses
<1>7. Quiet'
  <2>1. Len(post') + Len(chunk') <= filesize'
    BY <1>1, <1>2, Numbers
  <2> QED BY <1>1, <1>5, <2>1 DEF Quiet, Heading
<1>8. BodyOK'
  <2>1. Consecutive(post', Latest') /\ parsed' # <<>>
    BY <1>1, <1>2, <1>3, LatestNat
  <2>2. Consecutive(chunk', Latest' + Len(post'))
    BY <1>2 DEF Consecutive
  <2>3. status' = "BODY_READ" /\ Len(post') + Len(chunk') < filesize' =>
          taken' = Latest' + Len(post') + Len(chunk')
    BY <1>1, <1>2, <1>3, <1>4, LatestNat
  <2>4. status' \in InBody => status' = "BODY_READ"
    BY <1>1 DEF InBody
  <2> QED BY <2>1, <2>2, <2>3, <2>4 DEF BodyOK
<1> QED BY <1>3, <1>6, <1>7, <1>8 DEF IInv

LEMMA NextOK == IInv /\ [Next]_vars => IInv'
<1> SUFFICES ASSUME IInv, [Next]_vars PROVE IInv' OBVIOUS
<1>1. CASE ClientSends \/ ClientCloses \/ Wake \/ Block \/ UNCHANGED vars
  BY <1>1, InputOK
<1>2. CASE \/ Timeout \/ Illegal \/ ScanBadLine \/ ReadHeaderFull \/ ReadBodyShort
           \/ ReadBodyFails
  BY <1>2, RefuseOK
<1>3. CASE ReadHeaderEnds \/ WriteBodyFails \/ Respond
  BY <1>3, FreedOK
<1>4. CASE ScanByte \/ ScanRequestLine \/ ScanOption \/ ScanEnd
  BY <1>4, HeaderOK
<1>5. CASE ScanEndPost \/ SocketFails \/ ReadHeader
  BY <1>5, ScanEndPostOK, SocketFailsOK, ReadHeaderOK
<1>6. CASE ReadBody \/ WriteBody \/ WriteBodyDone
  BY <1>6, ReadBodyOK, WriteBodyOK, WriteBodyDoneOK
<1> QED BY <1>1, <1>2, <1>3, <1>4, <1>5, <1>6 DEF Next, Server, Closed

\* Each buffer holds the run of the client's bytes that the invariant names.
THEOREM Invariance == Spec => []IInv
BY InitOK, NextOK, PTL DEF Spec

\* Nothing is read past the end of client_stream or buffer, and nothing past the
\* body's Content-Length is kept for it.
THEOREM TypeCorrect == Spec => []TypeOK
<1>1. IInv => TypeOK
  <2> SUFFICES ASSUME IInv PROVE TypeOK OBVIOUS
  <2>1. /\ header_line \in 0..Len(client_stream) /\ header_end \in 0..Len(client_stream)
        /\ Len(client_stream) \in Nat
    BY Numbers DEF IInv, Typed
  <2>2. header_line <= Len(client_stream) /\ header_end <= Len(client_stream)
    BY <2>1
  <2> QED BY <2>2 DEF IInv, Typed, Quiet, TypeOK, Statuses, filepos
<1> QED BY Invariance, <1>1, PTL

\* read_header takes each byte of the stream once and in order, however it was
\* cut into packets, across every recycling of the connection and whenever the
\* client closes or the socket fails.
THEOREM TakenInOrder == Spec => []HeaderInOrder
<1>1. IInv => HeaderInOrder
  <2> SUFFICES ASSUME IInv, NEW i \in DOMAIN parsed PROVE parsed[i] = i
    BY DEF HeaderInOrder
  <2>1. i \in 1..Len(parsed)
    BY Numbers
  <2>2. parsed[i] = 0 + i
    BY <2>1 DEF IInv, OrderOK, Consecutive
  <2> QED BY <2>1, <2>2
<1> QED BY Invariance, <1>1, PTL

\* What a CGI finds in post_data_fd is the bytes that follow its header, in
\* order, without a gap, and as many as Content-Length says.
THEOREM BodyFollows == Spec => []BodyExact
<1>1. IInv => BodyExact
  <2> SUFFICES ASSUME IInv PROVE BodyExact OBVIOUS
  <2>1. Consecutive(post, Latest) /\ DOMAIN post = 1..Len(post)
    BY Numbers DEF IInv, BodyOK
  <2>2. status = "CGI" => Len(post) = filesize
    BY DEF IInv, Quiet
  <2> QED BY <2>1, <2>2 DEF BodyExact, Consecutive, Latest
<1> QED BY Invariance, <1>1, PTL
-----------------------------------------------------------------------------
\* Induction, over sets of naturals with the well-founded order of <.
LEMMA Smallest ==
  ASSUME NEW T \in SUBSET Nat, T # {}
  PROVE  \E n \in T : \A m \in T : n <= m
<1>1. PICK n \in T : \A m \in T : ~(<<m, n>> \in OpToRel(<, Nat))
  BY WFMin, NatLessThanWellFounded
<1>2. \A m \in T : ~(m < n)
  BY <1>1 DEF OpToRel
<1> QED BY <1>2

LEMMA Induct ==
  ASSUME NEW T \in SUBSET Nat, 0 \in T, \A n \in T : n + 1 \in T
  PROVE  T = Nat
<1> SUFFICES ASSUME Nat \ T # {} PROVE FALSE OBVIOUS
<1>1. PICK n \in Nat \ T : \A m \in Nat \ T : n <= m
  BY Smallest
<1>2. n # 0 /\ n - 1 \in Nat /\ n - 1 \in T
  BY <1>1
<1> QED BY <1>2

\* F holds the client's places after the first n bytes.
Start == Place("READ_HEADER", "none", 1)
PlacesTo(s, F, n) == F = [i \in 0..n |-> IF i = 0 THEN Start ELSE Onward(F[i - 1], s, i)]

LEMMA PlacesExist ==
  ASSUME NEW s
  PROVE  \A n \in Nat : \E F : PlacesTo(s, F, n)
<1> DEFINE T == {n \in Nat : \E F : PlacesTo(s, F, n)}
<1>1. 0 \in T
  <2> DEFINE Z == [i \in 0..0 |-> Start]
             Y == [i \in 0..0 |-> IF i = 0 THEN Start ELSE Onward(Z[i - 1], s, i)]
  <2>1. \A i \in 0..0 : i = 0
    OBVIOUS
  <2>2. Z = Y
    BY <2>1, Zenon
  <2>3. PlacesTo(s, Z, 0)
    BY <2>2, Zenon DEF PlacesTo
  <2> QED BY <2>3
<1>2. ASSUME NEW n \in T PROVE n + 1 \in T
  <2>1. PICK F : PlacesTo(s, F, n)
    OBVIOUS
  <2>2. n \in Nat
    OBVIOUS
  <2> DEFINE G == [i \in 0..(n + 1) |-> IF i <= n THEN F[i] ELSE Onward(F[i - 1], s, i)]
             H == [i \in 0..(n + 1) |-> IF i = 0 THEN Start ELSE Onward(G[i - 1], s, i)]
  <2>3. \A i \in 0..n : G[i] = F[i]
    BY <2>2
  <2>4. \A i \in 0..n : F[i] = IF i = 0 THEN Start ELSE Onward(F[i - 1], s, i)
    BY <2>1, Zenon DEF PlacesTo
  <2>5. G[n + 1] = Onward(F[(n + 1) - 1], s, n + 1)
    <3>1. n + 1 \in 0..(n + 1) /\ ~(n + 1 <= n)
      BY <2>2
    <3> QED BY <3>1, Zenon
  <2>6. \A i \in 0..(n + 1) : G[i] = H[i]
    <3> TAKE i \in 0..(n + 1)
    <3>1. H[i] = IF i = 0 THEN Start ELSE Onward(G[i - 1], s, i)
      BY Zenon
    <3> HIDE DEF G, H
    <3>2. CASE i = 0
      <4>1. 0 \in 0..n
        BY <2>2
      <4> QED BY <2>3, <2>4, <3>1, <3>2, <4>1, Zenon
    <3>3. CASE i \in 1..n
      <4>1. i - 1 \in 0..n /\ i \in 0..n /\ i # 0
        BY <2>2, <3>3
      <4>2. G[i] = F[i] /\ G[i - 1] = F[i - 1]
        BY <2>3, <4>1, Zenon
      <4> QED BY <2>4, <3>1, <4>1, <4>2, Zenon
    <3>4. CASE i = n + 1
      <4>1. i - 1 = n /\ n \in 0..n /\ i # 0 /\ (n + 1) - 1 = n
        BY <2>2, <3>4
      <4>2. G[i - 1] = F[(n + 1) - 1]
        BY <2>3, <4>1, Zenon
      <4> QED BY <2>5, <3>1, <3>4, <4>1, <4>2, Zenon
    <3> QED BY <2>2, <3>2, <3>3, <3>4
  <2>7. G = H
    BY <2>6, Zenon
  <2>8. PlacesTo(s, G, n + 1)
    BY <2>7, Zenon DEF PlacesTo
  <2> HIDE DEF G, H
  <2> QED BY <2>2, <2>8
<1> HIDE DEF T
<1>3. T = Nat
  BY <1>1, <1>2, Induct DEF T
<1> QED BY <1>3 DEF T

\* The client's place after a byte follows from the one before it.
LEMMA PlacesUnfold ==
  ASSUME NEW s \in Seq(Byte)
  PROVE  /\ Places(s)[0] = Start
         /\ \A n \in 1..Len(s) : Places(s)[n] = Onward(Places(s)[n - 1], s, n)
<1>1. Len(s) \in Nat /\ 0 \in 0..Len(s) /\ \A n \in 1..Len(s) : n \in 0..Len(s) /\ n # 0
  OBVIOUS
<1>2. \E F : PlacesTo(s, F, Len(s))
  BY <1>1, PlacesExist
<1>3. PlacesTo(s, CHOOSE F : PlacesTo(s, F, Len(s)), Len(s))
  BY <1>2, Zenon
<1>4. Places(s) = CHOOSE F : PlacesTo(s, F, Len(s))
  BY Zenon DEF Places, PlacesTo, Start
<1>5. PlacesTo(s, Places(s), Len(s))
  BY <1>3, <1>4, Zenon
<1> DEFINE P == Places(s)
<1> HIDE DEF P
<1>6. P = [i \in 0..Len(s) |-> IF i = 0 THEN Start ELSE Onward(P[i - 1], s, i)]
  BY <1>5, Zenon DEF PlacesTo, P
<1>7. \A n \in 0..Len(s) : P[n] = IF n = 0 THEN Start ELSE Onward(P[n - 1], s, n)
  BY <1>6, Zenon
<1>8. P[0] = Start
  BY <1>1, <1>7, Zenon
<1>9. \A n \in 1..Len(s) : P[n] = Onward(P[n - 1], s, n)
  BY <1>1, <1>7, Zenon
<1> QED BY <1>8, <1>9 DEF P
-----------------------------------------------------------------------------
\* Where the client is behind the bytes taken as header.
Now == Places(stream)[Len(parsed)]

\* The client has closed its side and all it sent has been looked at, or the
\* socket has failed and all that was read has.
DeadEnd == (failed \/ (eof /\ taken = arrived)) /\ parse_pos = Len(client_stream)

\* The server is at the client's place: in the same line of the same request.
Agreed ==
  /\ Now = Place(status, method, (Len(parsed) - parse_pos) + header_line + 1)
  /\ header_line <= parse_pos
  /\ logline <=> method # "none"

\* No byte behind a POST's header has been taken; a header is read where the
\* client has it, unless nothing more will come; and a response is written where
\* the client begins its next request.
HeadOK ==
  /\ Len(parsed) <= Len(stream)
  /\ \A i \in 1..Len(parsed) : Places(stream)[i - 1].status # "BODY"
  /\ status \in HeaderStatuses => DeadEnd \/ Agreed
  /\ status = "WRITE" => Now = Place("READ_HEADER", "none", Len(parsed) + 1)

\* One byte of the client's stream, by what read_header makes of it.
LEMMA OnwardIs ==
  ASSUME NEW st \in HeaderStatuses, NEW m, NEW l, NEW s, NEW n, NEW to,
         to = NextStatus(st, s[n].c)
  PROVE  LET p == Onward(Place(st, m, l), s, n) IN
         /\ to \notin {"ONE_LF", "BODY_READ"} => p = Place(to, m, l)
         /\ to = "BODY_READ" /\ m # "POST" => p = Place("READ_HEADER", "none", n + 1)
         /\ to = "ONE_LF" /\ m # "none" => p = Place(to, m, n + 1)
         /\ to = "ONE_LF" /\ m = "none" =>
              p = IF s[l].c = "GET09" THEN Place("READ_HEADER", "none", n + 1)
                  ELSE Place(to, IF s[l].c = "POST" THEN "POST" ELSE "GET", n + 1)
<1> DEFINE q == Place(st, m, l)
<1>1. q.status = st /\ q.method = m /\ q.line = l
  BY DEF Place
<1>2. st # "BODY"
  BY DEF HeaderStatuses
<1> HIDE DEF q
<1>3. Onward(q, s, n) =
        IF to \notin {"ONE_LF", "BODY_READ"} THEN Place(to, m, l)
        ELSE IF to = "BODY_READ" /\ m = "POST" THEN Place("BODY", "none", n + 1)
        ELSE IF to = "BODY_READ" \/ (m = "none" /\ s[l].c = "GET09")
          THEN Place("READ_HEADER", "none", n + 1)
        ELSE IF m # "none" THEN Place(to, m, n + 1)
        ELSE Place(to, IF s[l].c = "POST" THEN "POST" ELSE "GET", n + 1)
  BY <1>1, <1>2, Zenon DEF Onward
<1>4. "ONE_LF" # "BODY_READ"
  OBVIOUS
<1>5. to \notin {"ONE_LF", "BODY_READ"} => Onward(q, s, n) = Place(to, m, l)
  BY <1>3, Zenon
<1>6. to = "BODY_READ" /\ m # "POST" => Onward(q, s, n) = Place("READ_HEADER", "none", n + 1)
  BY <1>3, Zenon
<1>7. to = "ONE_LF" /\ m # "none" => Onward(q, s, n) = Place(to, m, n + 1)
  BY <1>3, <1>4, Zenon
<1>8. to = "ONE_LF" /\ m = "none" =>
        Onward(q, s, n) = IF s[l].c = "GET09" THEN Place("READ_HEADER", "none", n + 1)
                          ELSE Place(to, IF s[l].c = "POST" THEN "POST" ELSE "GET", n + 1)
  BY <1>3, <1>4, Zenon
<1> QED BY <1>5, <1>6, <1>7, <1>8, Zenon DEF q

LEMMA HeadInit == Init => HeadOK
<1> SUFFICES ASSUME Init PROVE HeadOK OBVIOUS
<1>1. /\ stream \in Seq(Byte) /\ status = "READ_HEADER" /\ parse_pos = 0 /\ header_line = 0
      /\ logline = FALSE /\ method = "none" /\ parsed = <<>> /\ Len(parsed) = 0
  BY StreamAssumption DEF Init
<1>2. Now = Start
  BY <1>1, PlacesUnfold DEF Now
<1>3. (Len(parsed) - parse_pos) + header_line + 1 = 1
  BY <1>1
<1>4. Agreed
  BY <1>1, <1>2, <1>3 DEF Agreed, Start
<1>5. Len(parsed) <= Len(stream)
  BY <1>1
<1> QED BY <1>1, <1>4, <1>5 DEF HeadOK

\* Steps that take no byte and leave the header alone.
LEMMA HeadStutter ==
  ASSUME HeadOK,
         UNCHANGED <<stream, status, client_stream, parse_pos, header_line, logline, method,
                     parsed>>,
         DeadEnd => DeadEnd'
  PROVE  HeadOK'
<1>1. (Now = Now') /\ (Agreed => Agreed')
  BY DEF Now, Agreed
<1> QED BY <1>1 DEF HeadOK

\* Steps to a state in which no header is read.
LEMMA HeadAside ==
  ASSUME HeadOK, UNCHANGED <<stream, parsed>>,
         status' \notin HeaderStatuses \cup {"WRITE"}
  PROVE  HeadOK'
BY DEF HeadOK

LEMMA HeadInput ==
  ASSUME HeadOK,
         ClientSends \/ ClientCloses \/ Wake \/ Block \/ SocketFails \/ UNCHANGED vars
  PROVE  HeadOK'
<1>1. UNCHANGED <<stream, status, client_stream, parse_pos, header_line, logline, method,
                  parsed>>
  BY DEF ClientSends, ClientCloses, Wake, Block, SocketFails, vars, input, parser
<1>2. failed => failed'
  BY DEF ClientSends, ClientCloses, Wake, Block, SocketFails, vars
<1>3. taken' = taken /\ (eof => eof' /\ arrived' = arrived)
  BY DEF ClientSends, ClientCloses, Wake, Block, SocketFails, vars, input
<1>4. DeadEnd => DeadEnd'
  BY <1>1, <1>2, <1>3 DEF DeadEnd
<1> QED BY <1>1, <1>4, HeadStutter

LEMMA HeadElsewhere ==
  ASSUME HeadOK,
         \/ Timeout \/ Illegal \/ ScanBadLine \/ ReadHeaderFull \/ ReadBodyShort
         \/ ReadBodyFails \/ ReadBody \/ WriteBody \/ WriteBodyDone
  PROVE  HeadOK'
<1>1. UNCHANGED <<stream, parsed>>
  BY DEF Timeout, Illegal, ScanBadLine, ReadHeaderFull, ReadBodyShort, ReadBodyFails,
         ReadBody, WriteBody, WriteBodyDone, input
<1>2. status' \in {"closed", "BODY_READ", "BODY_WRITE", "CGI"}
  BY DEF Timeout, Illegal, ScanBadLine, ReadHeaderFull, ReadBodyShort, ReadBodyFails,
         Refuse, ReadBody, WriteBody, WriteBodyDone
<1>3. status' \notin HeaderStatuses \cup {"WRITE"}
  BY <1>2 DEF HeaderStatuses
<1> QED BY <1>1, <1>3, HeadAside

\* Bytes that are read into client_stream are not looked at yet.
LEMMA HeadRead ==
  ASSUME IInv, HeadOK, ReadHeader
  PROVE  HeadOK'
<1>1. /\ status \in HeaderStatuses /\ ~failed /\ arrived > taken
      /\ UNCHANGED <<stream, failed, status, parse_pos, header_line, logline, method, parsed>>
  BY DEF ReadHeader, Reading, InHeader, HeaderStatuses, input
<1>2. /\ Agreed /\ Len(parsed) <= Len(stream)
      /\ \A i \in 1..Len(parsed) : Places(stream)[i - 1].status # "BODY"
  <2>1. ~DeadEnd
    BY <1>1, Numbers DEF DeadEnd
  <2> QED BY <1>1, <2>1 DEF HeadOK
<1>3. Agreed'
  BY <1>1, <1>2 DEF Agreed, Now
<1> QED BY <1>1, <1>2, <1>3 DEF HeadOK, HeaderStatuses

\* free_request leaves the connection where the client begins a request, or
\* where nothing more will come.
LEMMA HeadFreed ==
  ASSUME IInv, HeadOK, ReadHeaderEnds \/ WriteBodyFails \/ Respond
  PROVE  HeadOK'
<1>1. PICK response : FreeRequest(response)
  BY DEF ReadHeaderEnds, WriteBodyFails, Respond
<1>2. UNCHANGED <<stream, arrived, eof, taken, failed, parsed>>
  BY DEF ReadHeaderEnds, WriteBodyFails, Respond, input
<1>3. /\ parse_pos' = 0 /\ header_line' = 0 /\ logline' = FALSE /\ method' = "none"
      /\ \/ status' = "READ_HEADER" /\ client_stream' = Remaining
         \/ status' = "closed"
  BY <1>1 DEF FreeRequest
<1>4. CASE status' = "closed"
  BY <1>2, <1>4, HeadAside DEF HeaderStatuses
<1>5. CASE status' = "READ_HEADER" /\ status = "WRITE"
  <2>1. /\ Now = Place("READ_HEADER", "none", Len(parsed) + 1)
        /\ Len(parsed) <= Len(stream)
        /\ \A i \in 1..Len(parsed) : Places(stream)[i - 1].status # "BODY"
    BY <1>5 DEF HeadOK
  <2>2. (Len(parsed') - parse_pos') + header_line' + 1 = Len(parsed) + 1
    BY <1>2, <1>3, Numbers
  <2>3. Agreed'
    BY <1>2, <1>3, <1>5, <2>1, <2>2 DEF Agreed, Now
  <2> QED BY <1>2, <1>5, <2>1, <2>3 DEF HeadOK
<1>6. CASE status' = "READ_HEADER" /\ status # "WRITE"
  <2>1. ReadHeaderEnds
    <3>1. CASE WriteBodyFails
      BY <1>6, <3>1 DEF WriteBodyFails, FreeRequest, MayRecycle
    <3>2. CASE Respond
      <4>1. keepalive = "STOPPED"
        BY <1>6, <3>2 DEF Respond, IInv, Quiet
      <4>2. PICK r \in {"below500", "none"} : FreeRequest(r)
        BY <3>2 DEF Respond
      <4> QED BY <1>6, <4>1, <4>2 DEF FreeRequest, MayRecycle
    <3> QED BY <3>1, <3>2
  <2>2. DeadEnd /\ parse_pos = Len(client_stream) /\ client_stream' = Remaining
    BY <1>3, <1>6, <2>1 DEF ReadHeaderEnds, Reading, DeadEnd
  <2>3. Len(client_stream') = 0
    <3>1. client_stream \in Seq(Nat) /\ Len(client_stream) \in Nat
      BY Numbers
    <3>2. SubSeq(client_stream, Len(client_stream) + 1, Len(client_stream)) = <<>>
      BY <3>1
    <3> QED BY <2>2, <3>2 DEF Remaining
  <2>4. DeadEnd'
    BY <1>2, <1>3, <2>2, <2>3 DEF DeadEnd
  <2> QED BY <1>2, <1>6, <2>4 DEF HeadOK
<1> QED BY <1>3, <1>4, <1>5, <1>6

\* What a turn of read_header's loop finds: it is at the client's place, and the
\* byte and the line it looks at are the client's next byte and current line.
LEMMA HeadScan ==
  ASSUME IInv, HeadOK, Scan
  PROVE  /\ status \in HeaderStatuses
         /\ UNCHANGED <<stream, failed>> /\ parse_pos' = parse_pos + 1
         /\ Len(parsed') = Len(parsed) + 1 /\ parse_pos \in Nat
         /\ Agreed /\ header_line \in Nat
         /\ Now' = Onward(Now, stream, Len(parsed) + 1)
         /\ To = NextStatus(status, stream[Len(parsed) + 1].c)
         /\ LineText = stream[(Len(parsed) - parse_pos) + header_line + 1].c
         /\ Len(parsed') <= Len(stream)
         /\ \A i \in 1..Len(parsed') : Places(stream)[i - 1].status # "BODY"
<1>1. /\ status \in HeaderStatuses /\ parse_pos < Len(client_stream)
      /\ parse_pos' = parse_pos + 1
      /\ parsed' = Append(parsed, client_stream[parse_pos + 1])
      /\ UNCHANGED <<stream, failed>>
  BY DEF Scan, Parsing, InHeader, input, HeaderStatuses
<1>2. /\ parse_pos \in 0..Len(client_stream) /\ header_line \in 0..Len(client_stream)
      /\ parse_pos \in Nat /\ header_line \in Nat /\ Len(client_stream) \in Nat
      /\ Len(parsed) \in Nat /\ taken \in Nat /\ taken <= Len(stream) /\ Len(stream) \in Nat
      /\ stream \in Seq(Byte)
  <2>1. taken \in 0..arrived /\ arrived \in 0..Len(stream) /\ stream \in Seq(Byte)
    BY DEF IInv, Typed
  <2> QED BY <2>1, Numbers DEF IInv, Typed
<1>3. ~DeadEnd
  BY <1>1, <1>2 DEF DeadEnd
<1>4. Agreed /\ \A i \in 1..Len(parsed) : Places(stream)[i - 1].status # "BODY"
  BY <1>1, <1>3 DEF HeadOK
<1>5. header_line <= parse_pos
  BY <1>4 DEF Agreed
<1>6. Len(parsed') = Len(parsed) + 1
  BY <1>1, Numbers
<1>7. PICK k \in Nat : StreamAt(k)
  BY DEF IInv, StreamOK
<1>8. k + Len(client_stream) = taken /\ Len(parsed) = k + parse_pos
  BY <1>1, <1>7 DEF StreamAt, Heading, HeaderStatuses
<1>9. /\ client_stream[parse_pos + 1] = k + (parse_pos + 1)
      /\ client_stream[header_line + 1] = k + (header_line + 1)
  <2>1. parse_pos + 1 \in 1..Len(client_stream) /\ header_line + 1 \in 1..Len(client_stream)
    BY <1>1, <1>2, <1>5
  <2> QED BY <1>7, <2>1 DEF StreamAt, Consecutive
<1>10. /\ k + (parse_pos + 1) = Len(parsed) + 1
       /\ k + (header_line + 1) = (Len(parsed) - parse_pos) + header_line + 1
       /\ Len(parsed) + 1 \in 1..Len(stream) /\ (Len(parsed) + 1) - 1 = Len(parsed)
  BY <1>1, <1>2, <1>8
<1>11. To = NextStatus(status, stream[Len(parsed) + 1].c)
  BY <1>9, <1>10, Zenon DEF To, Current
<1>12. LineText = stream[(Len(parsed) - parse_pos) + header_line + 1].c
  BY <1>9, <1>10, Zenon DEF LineText
<1>13. Places(stream)[Len(parsed) + 1] = Onward(Now, stream, Len(parsed) + 1)
  <2>1. Places(stream)[Len(parsed) + 1]
          = Onward(Places(stream)[(Len(parsed) + 1) - 1], stream, Len(parsed) + 1)
    BY <1>2, <1>10, PlacesUnfold
  <2> QED BY <1>10, <2>1 DEF Now
<1>14. Now' = Onward(Now, stream, Len(parsed) + 1)
  BY <1>1, <1>6, <1>13 DEF Now
<1>15. Now.status # "BODY"
  <2>1. Now.status = status
    BY <1>4 DEF Agreed, Place
  <2> QED BY <1>1, <2>1 DEF HeaderStatuses
<1>16. ASSUME NEW i \in 1..Len(parsed') PROVE Places(stream)[i - 1].status # "BODY"
  <2>1. i \in 1..Len(parsed) \/ i - 1 = Len(parsed)
    BY <1>2, <1>6
  <2> QED BY <1>4, <1>15, <2>1 DEF Now
<1>17. Len(parsed') <= Len(stream)
  BY <1>2, <1>6, <1>10
<1> QED BY <1>1, <1>2, <1>4, <1>6, <1>11, <1>12, <1>14, <1>16, <1>17

\* A byte that ends a line ends the client's, and so for the header.
LEMMA HeadTurn ==
  ASSUME IInv, HeadOK,
         ScanByte \/ ScanRequestLine \/ ScanOption \/ ScanEnd \/ ScanEndPost
  PROVE  HeadOK'
<1>0. Scan
  BY DEF ScanByte, ScanRequestLine, ScanOption, ScanEnd, ScanEndPost
<1> DEFINE l == (Len(parsed) - parse_pos) + header_line + 1
           n == Len(parsed) + 1
<1>1. /\ status \in HeaderStatuses
      /\ UNCHANGED <<stream, failed>> /\ parse_pos' = parse_pos + 1
      /\ Len(parsed') = Len(parsed) + 1 /\ parse_pos \in Nat
      /\ Now = Place(status, method, l) /\ header_line <= parse_pos /\ header_line \in Nat
      /\ logline <=> method # "none"
      /\ Now' = Onward(Now, stream, n)
      /\ To = NextStatus(status, stream[n].c)
      /\ LineText = stream[l].c
      /\ Len(parsed') <= Len(stream)
      /\ \A i \in 1..Len(parsed') : Places(stream)[i - 1].status # "BODY"
  BY <1>0, HeadScan DEF Agreed
<1>2. Len(parsed) \in Nat
  BY Numbers
<1>3. /\ To \notin {"ONE_LF", "BODY_READ"} => Now' = Place(To, method, l)
      /\ To = "BODY_READ" /\ method # "POST" => Now' = Place("READ_HEADER", "none", n + 1)
      /\ To = "ONE_LF" /\ method # "none" => Now' = Place(To, method, n + 1)
      /\ To = "ONE_LF" /\ method = "none" =>
           Now' = IF LineText = "GET09" THEN Place("READ_HEADER", "none", n + 1)
                  ELSE Place(To, IF LineText = "POST" THEN "POST" ELSE "GET", n + 1)
  <2> HIDE DEF l, n
  <2>1. status \in HeaderStatuses /\ To = NextStatus(status, stream[n].c)
    BY <1>1
  <2>2. LET p == Onward(Place(status, method, l), stream, n) IN
        /\ To \notin {"ONE_LF", "BODY_READ"} => p = Place(To, method, l)
        /\ To = "BODY_READ" /\ method # "POST" => p = Place("READ_HEADER", "none", n + 1)
        /\ To = "ONE_LF" /\ method # "none" => p = Place(To, method, n + 1)
        /\ To = "ONE_LF" /\ method = "none" =>
             p = IF stream[l].c = "GET09" THEN Place("READ_HEADER", "none", n + 1)
                 ELSE Place(To, IF stream[l].c = "POST" THEN "POST" ELSE "GET", n + 1)
    BY <2>1, OnwardIs
  <2> QED BY <1>1, <2>2, Zenon
<1>4. /\ (Len(parsed') - parse_pos') + header_line + 1 = l
      /\ (Len(parsed') - parse_pos') + (parse_pos + 1) + 1 = n + 1
      /\ header_line <= parse_pos + 1 /\ parse_pos + 1 <= parse_pos + 1
  <2>1. \A a, b, h \in Nat :
          /\ ((a + 1) - (b + 1)) + h + 1 = (a - b) + h + 1
          /\ ((a + 1) - (b + 1)) + (b + 1) + 1 = (a + 1) + 1
          /\ h <= b => h <= b + 1 /\ b + 1 <= b + 1
    OBVIOUS
  <2>2. /\ Len(parsed') = Len(parsed) + 1 /\ parse_pos' = parse_pos + 1
        /\ parse_pos \in Nat /\ header_line \in Nat /\ header_line <= parse_pos
    BY <1>1
  <2>3. /\ ((Len(parsed) + 1) - (parse_pos + 1)) + header_line + 1 = l
        /\ ((Len(parsed) + 1) - (parse_pos + 1)) + (parse_pos + 1) + 1 = n + 1
        /\ header_line <= parse_pos + 1 /\ parse_pos + 1 <= parse_pos + 1
    BY <1>2, <2>1, <2>2
  <2> QED BY <2>2, <2>3, Zenon
<1> HIDE DEF l
<1>5. CASE ScanByte
  <2>1. /\ To \notin {"ONE_LF", "BODY_READ"} /\ status' = To
        /\ UNCHANGED <<header_line, logline, method>>
    BY <1>5 DEF ScanByte
  <2>2. Agreed'
    BY <1>1, <1>3, <1>4, <2>1 DEF Agreed
  <2>3. status' # "WRITE"
    BY <1>1, <2>1, ToRange DEF HeaderStatuses
  <2> QED BY <1>1, <2>2, <2>3 DEF HeadOK
<1>6. CASE ScanOption
  <2>1. /\ To = "ONE_LF" /\ status' = To /\ header_line' = parse_pos + 1
        /\ UNCHANGED <<logline, method>> /\ logline
    BY <1>6 DEF ScanOption
  <2>2. Now' = Place(To, method, n + 1)
    BY <1>1, <1>3, <2>1
  <2>3. Agreed'
    BY <1>1, <1>4, <2>1, <2>2 DEF Agreed
  <2> QED BY <1>1, <2>1, <2>3 DEF HeadOK
<1>7. CASE ScanRequestLine
  <2>1. /\ To = "ONE_LF" /\ logline' = TRUE /\ method = "none"
        /\ method' = IF LineText = "POST" THEN "POST" ELSE "GET"
    BY <1>1, <1>7 DEF ScanRequestLine
  <2>2. CASE LineText = "GET09"
    <3>1. status' = "WRITE" /\ Now' = Place("READ_HEADER", "none", n + 1)
      BY <1>3, <1>7, <2>1, <2>2 DEF ScanRequestLine
    <3> QED BY <1>1, <3>1 DEF HeadOK, HeaderStatuses
  <2>3. CASE LineText # "GET09"
    <3>1. status' = To /\ header_line' = parse_pos + 1
      BY <1>7, <2>3 DEF ScanRequestLine
    <3>2. Now' = Place(To, method', n + 1)
      BY <1>3, <2>1, <2>3
    <3>3. Agreed'
      BY <1>1, <1>4, <2>1, <3>1, <3>2 DEF Agreed
    <3> QED BY <1>1, <2>1, <3>1, <3>3 DEF HeadOK
  <2> QED BY <2>2, <2>3
<1>8. CASE ScanEnd
  <2>1. status' = "WRITE" /\ To = "BODY_READ" /\ method # "POST"
    BY <1>8 DEF ScanEnd
  <2> QED BY <1>1, <1>3, <2>1 DEF HeadOK, HeaderStatuses
<1>9. CASE ScanEndPost
  <2>1. status' \in {"BODY_WRITE", "closed"}
    BY <1>9 DEF ScanEndPost
  <2> QED BY <1>1, <2>1 DEF HeadOK, HeaderStatuses
<1> QED BY <1>5, <1>6, <1>7, <1>8, <1>9

LEMMA HeadNext == IInv /\ HeadOK /\ [Next]_vars => HeadOK'
<1> SUFFICES ASSUME IInv, HeadOK, [Next]_vars PROVE HeadOK' OBVIOUS
<1>1. CASE ClientSends \/ ClientCloses \/ Wake \/ Block \/ SocketFails \/ UNCHANGED vars
  BY <1>1, HeadInput
<1>2. CASE \/ Timeout \/ Illegal \/ ScanBadLine \/ ReadHeaderFull \/ ReadBodyShort
           \/ ReadBodyFails \/ ReadBody \/ WriteBody \/ WriteBodyDone
  BY <1>2, HeadElsewhere
<1>3. CASE ReadHeaderEnds \/ WriteBodyFails \/ Respond
  BY <1>3, HeadFreed
<1>4. CASE ScanByte \/ ScanRequestLine \/ ScanOption \/ ScanEnd \/ ScanEndPost
  BY <1>4, HeadTurn
<1>5. CASE ReadHeader
  BY <1>5, HeadRead
<1> QED BY <1>1, <1>2, <1>3, <1>4, <1>5 DEF Next, Server, Closed

\* read_header and the client agree on where a header is, whatever is recycled.
LEMMA Agreement == Spec => [](IInv /\ stream \in Streams /\ HeadOK)
<1>1. Init => IInv /\ stream \in Streams /\ HeadOK
  BY InitOK, HeadInit DEF Init
<1>2. IInv /\ stream \in Streams /\ HeadOK /\ [Next]_vars => (IInv /\ stream \in Streams /\ HeadOK)'
  <2>1. [Next]_vars => stream' = stream
    BY DEF Next, Server, Closed, ClientSends, ClientCloses, SocketFails, Timeout, Illegal,
           ScanByte, ScanBadLine, ScanRequestLine, ScanOption, ScanEnd, ScanEndPost, Scan,
           ReadHeader, ReadHeaderFull, ReadHeaderEnds, Block, ReadBody, ReadBodyShort,
           ReadBodyFails, WriteBody, WriteBodyDone, WriteBodyFails, Respond, Wake, input, vars
  <2> QED BY <2>1, NextOK, HeadNext
<1> QED BY <1>1, <1>2, PTL DEF Spec

\* read_header takes no byte of a body for a request, whatever the body looks
\* like, however much of it was read ahead and whenever the socket fails.
THEOREM HeadersOnly == Spec => []HeaderBytesOnly
<1>1. IInv /\ stream \in Streams /\ HeadOK => HeaderBytesOnly
  <2> SUFFICES ASSUME IInv, stream \in Streams, HeadOK, NEW i \in DOMAIN parsed
               PROVE  ~stream[parsed[i]].body
    BY DEF HeaderBytesOnly
  <2>1. i \in 1..Len(parsed) /\ parsed[i] = i /\ Len(parsed) \in Nat
    <3>1. i \in 1..Len(parsed) /\ Len(parsed) \in Nat
      BY Numbers
    <3>2. parsed[i] = 0 + i
      BY <3>1 DEF IInv, OrderOK, Consecutive
    <3> QED BY <3>1, <3>2
  <2>2. Places(stream)[i - 1].status # "BODY"
    BY <2>1 DEF HeadOK
  <2>3. CASE i \in 1..Len(stream)
    BY <2>1, <2>2, <2>3, BodyAssumption
  <2>4. Len(parsed) <= Len(stream) /\ Len(stream) \in Nat
    BY StreamAssumption DEF HeadOK
  <2> QED BY <2>1, <2>3, <2>4
<1> QED BY Agreement, <1>1, PTL
=============================================================================
