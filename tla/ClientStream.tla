-------------------------- MODULE ClientStream --------------------------
(***************************************************************************)
(* What one connection makes of the bytes a client sends: read.c's         *)
(* read_header, read_body and write_body on client_stream and buffer, and  *)
(* request.c's sanitize_request and free_request, which keep what was read *)
(* past the end of a request for the next one.  Bytes are named by their   *)
(* position in the client's stream, so that skipping, repeating or         *)
(* reordering them shows.  A line's first byte stands for its text.        *)
(***************************************************************************)
EXTENDS Integers, Sequences, SequencesExt

CONSTANTS
  Streams,           \* the streams a client may send
  ClientStreamSize,  \* CLIENT_STREAM_SIZE
  BufferSize,        \* BUFFER_SIZE
  MaxHeaderLength,   \* MAX_HEADER_LENGTH
  SinglePostLimit,   \* single_post_limit
  KaMax              \* ka_max

\* What a byte can be: a line that is a request line (of an HTTP/1.1 or 0.9
\* GET or of a POST), a header (a Content-Length or its absence of sense,
\* Connection: close, another one), CR, LF, or a character that is not legal.
\* The client knows which bytes it meant as a body, and where a request ends.
RequestLine == {"GET", "GET09", "POST"}
Length == {"0", "1", "2", "3", "bad"}
Char == RequestLine \cup Length \cup {"close", "x", "CR", "LF", "illegal"}
Byte == [c : Char, body : BOOLEAN, last : BOOLEAN]
Value(l) == CASE l = "0" -> 0 [] l = "1" -> 1 [] l = "2" -> 2 [] l = "3" -> 3
              [] OTHER -> -1

ASSUME StreamAssumption ==
  /\ Streams \subseteq Seq(Byte)
  /\ {ClientStreamSize, BufferSize, MaxHeaderLength, KaMax, SinglePostLimit} \subseteq Nat

\* read_header's automaton: the next status and whether this byte ends a line.
NextStatus(s, c) ==
  CASE s = "READ_HEADER" -> (IF c = "CR" THEN "ONE_CR" ELSE IF c = "LF" THEN "ONE_LF" ELSE s)
    [] s = "ONE_CR" -> (IF c = "LF" THEN "ONE_LF" ELSE IF c = "CR" THEN s ELSE "READ_HEADER")
    [] s = "ONE_LF" -> (IF c = "CR" THEN "TWO_CR" ELSE IF c = "LF" THEN "BODY_READ"
                        ELSE "READ_HEADER")
    [] s = "TWO_CR" -> (IF c = "LF" THEN "BODY_READ" ELSE IF c = "CR" THEN s
                        ELSE "READ_HEADER")

\* How a client divides its stream into requests: where it is after n bytes, in
\* which line of the header of which kind of request, or behind a POST's header,
\* after which this server takes no other request from the connection.
Place(s, m, l) == [status |-> s, method |-> m, line |-> l]

Onward(p, s, n) ==
  LET to == NextStatus(p.status, s[n].c)
      text == s[p.line].c
  IN IF p.status = "BODY" THEN p
     ELSE IF to \notin {"ONE_LF", "BODY_READ"} THEN Place(to, p.method, p.line)
     ELSE IF to = "BODY_READ" /\ p.method = "POST" THEN Place("BODY", "none", n + 1)
     ELSE IF to = "BODY_READ" \/ (p.method = "none" /\ text = "GET09")
       THEN Place("READ_HEADER", "none", n + 1)
     ELSE IF p.method # "none" THEN Place(to, p.method, n + 1)
     ELSE Place(to, IF text = "POST" THEN "POST" ELSE "GET", n + 1)

Places(s) ==
  LET f[n \in 0..Len(s)] ==
        IF n = 0 THEN Place("READ_HEADER", "none", 1) ELSE Onward(f[n - 1], s, n)
  IN f

\* What the client means as a body is behind the header of a POST.
ASSUME BodyAssumption ==
  \A s \in Streams : \A n \in 1..Len(s) : s[n].body => Places(s)[n - 1].status = "BODY"

VARIABLES
  stream,         \* what the client sends in all
  arrived,        \* how much of it has reached the socket
  taken,          \* how much of it was read from the socket
  eof,            \* the client has closed its side
  failed,         \* the socket has reported an error
  status, blocked,
  client_stream,  \* the positions of the bytes it holds
  parse_pos, header_line, header_end,
  chunk,          \* the body bytes between header_line and header_end
  logline, method, content_length, keepalive, kacount,
  filesize,
  post,           \* what was written to post_data_fd
  parsed,         \* the bytes taken as header, in order
  answered        \* requests answered

input == <<stream, arrived, eof>>
parser == <<client_stream, parse_pos, header_line, header_end, logline, method,
            content_length>>
body == <<chunk, filesize, post>>
vars == <<input, taken, failed, status, blocked, parser, body, keepalive, kacount,
          parsed, answered>>

Least(a, b) == IF a < b THEN a ELSE b

filepos == Len(post)
InHeader == status \in {"READ_HEADER", "ONE_CR", "ONE_LF", "TWO_CR"}
Running == ~blocked /\ status # "closed"
-----------------------------------------------------------------------------
\* get_request: a new connection is on the ready list.
Init ==
  /\ stream \in Streams
  /\ arrived = 0 /\ taken = 0 /\ eof = FALSE /\ failed = FALSE
  /\ status = "READ_HEADER" /\ blocked = FALSE
  /\ client_stream = <<>> /\ parse_pos = 0 /\ header_line = 0 /\ header_end = 0
  /\ logline = FALSE /\ method = "none" /\ content_length = "none"
  /\ keepalive = "INACTIVE" /\ kacount = KaMax
  /\ chunk = <<>> /\ filesize = 0 /\ post = <<>>
  /\ parsed = <<>> /\ answered = 0

\* The client sends some more, in packets of any size, or closes its side.
ClientSends ==
  /\ ~eof
  /\ \E n \in arrived + 1..Len(stream) : arrived' = n
  /\ UNCHANGED <<stream, eof, taken, failed, status, blocked, parser, body,
                 keepalive, kacount, parsed, answered>>

ClientCloses ==
  /\ ~eof
  /\ eof' = TRUE
  /\ UNCHANGED <<stream, arrived, taken, failed, status, blocked, parser, body,
                 keepalive, kacount, parsed, answered>>

Readable == arrived > taken \/ eof \/ failed

\* The event loop readies the request when its socket is readable...
Wake ==
  /\ blocked /\ status # "closed" /\ Readable
  /\ blocked' = FALSE
  /\ UNCHANGED <<input, taken, failed, status, parser, body, keepalive, kacount,
                 parsed, answered>>

\* ... or times it out, even when bytes have come in the meantime.
Timeout ==
  /\ blocked /\ status # "closed"
  /\ status' = "closed"
  /\ UNCHANGED <<input, taken, failed, blocked, parser, body, keepalive, kacount,
                 parsed, answered>>
-----------------------------------------------------------------------------
\* Mutant: the bytes past parse_pos are counted but not moved.
Remaining_Unmoved == SubSeq(client_stream, 1, Len(client_stream) - parse_pos)

\* Mutant: client_stream starts empty.
Remaining_None == <<>>

\* sanitize_request: what client_stream holds past parse_pos.
Remaining == SubSeq(client_stream, parse_pos + 1, Len(client_stream))

MayRecycle(response) ==
  keepalive = "ACTIVE" /\ response = "below500" /\ kacount > 0

\* free_request with what was answered: the request is recycled, blanked and
\* put on the block list to wait for its socket, or the connection is closed.
FreeRequest(response) ==
  /\ IF MayRecycle(response)
     THEN /\ status' = "READ_HEADER" /\ blocked' = TRUE
          /\ client_stream' = Remaining
          /\ kacount' = kacount - 1
     ELSE status' = "closed" /\ UNCHANGED <<blocked, client_stream, kacount>>
  /\ parse_pos' = 0 /\ header_line' = 0 /\ header_end' = 0
  /\ logline' = FALSE /\ method' = "none" /\ content_length' = "none"
  /\ keepalive' = "INACTIVE"
  /\ chunk' = <<>> /\ filesize' = 0 /\ post' = <<>>

\* send_r_bad_request and the like stop keep-alive: the connection is closed.
Refuse ==
  /\ status' = "closed"
  /\ UNCHANGED <<blocked, parser, body, keepalive, kacount, answered>>

\* The byte read_header looks at, and the text of the line that it ends.
Current == stream[client_stream[parse_pos + 1]].c
LineText == stream[client_stream[header_line + 1]].c
Parsing == Running /\ InHeader /\ parse_pos < Len(client_stream)
To == NextStatus(status, Current)

\* Where this byte puts header_end.
HeaderEnd ==
  IF status = "READ_HEADER" /\ Current \in {"CR", "LF"} THEN parse_pos ELSE header_end

\* The common part of a turn of read_header's loop.
Scan ==
  /\ Parsing
  /\ parse_pos' = parse_pos + 1
  /\ parsed' = Append(parsed, client_stream[parse_pos + 1])
  /\ header_end' = HeaderEnd
  /\ UNCHANGED <<input, taken, failed, client_stream>>

\* An illegal character is answered with 400.
Illegal ==
  /\ Parsing
  /\ Current = "illegal"
  /\ Refuse
  /\ UNCHANGED <<input, taken, failed, parsed>>

\* A byte inside a line, or a CR after one.
ScanByte ==
  /\ Scan
  /\ Current # "illegal"
  /\ To \notin {"ONE_LF", "BODY_READ"}
  /\ status' = To
  /\ UNCHANGED <<blocked, header_line, logline, method, content_length, body,
                 keepalive, kacount, answered>>

\* The line is empty or too long, is not a request line where one is needed
\* (process_logline), or is one where a header is needed
\* (process_option_line finds no colon).
BadLine ==
  \/ HeaderEnd - header_line >= MaxHeaderLength
  \/ HeaderEnd = header_line
  \/ logline /\ LineText \in RequestLine
  \/ ~logline /\ LineText \notin RequestLine

\* The end of a line that is refused.
ScanBadLine ==
  /\ Parsing
  /\ Current # "illegal" /\ To = "ONE_LF" /\ BadLine
  /\ Refuse
  /\ UNCHANGED <<input, taken, failed, parsed>>

\* The end of the request line: HTTP/1.1 turns keep-alive on; a request without
\* a version is answered at once.
ScanRequestLine ==
  /\ Scan
  /\ Current # "illegal" /\ To = "ONE_LF" /\ ~BadLine /\ ~logline
  /\ logline' = TRUE
  /\ method' = IF LineText = "POST" THEN "POST" ELSE "GET"
  /\ IF LineText = "GET09"
     THEN status' = "WRITE" /\ UNCHANGED <<keepalive, header_line>>
     ELSE status' = To /\ keepalive' = "ACTIVE" /\ header_line' = parse_pos + 1
  /\ UNCHANGED <<blocked, content_length, body, kacount, answered>>

\* The end of a header: the first Content-Length counts; Connection may stop
\* keep-alive.
ScanOption ==
  /\ Scan
  /\ Current # "illegal" /\ To = "ONE_LF" /\ ~BadLine /\ logline
  /\ status' = To
  /\ header_line' = parse_pos + 1
  /\ content_length' = IF LineText \in Length /\ content_length = "none"
                       THEN LineText ELSE content_length
  /\ keepalive' = IF LineText = "close" THEN "STOPPED" ELSE keepalive
  /\ UNCHANGED <<blocked, logline, method, body, kacount, answered>>

\* The end of the header of a request that is not a POST: process_header_end
\* finds the file.
ScanEnd ==
  /\ Scan
  /\ Current # "illegal" /\ To = "BODY_READ"
  /\ method # "POST"
  /\ status' = "WRITE"
  /\ UNCHANGED <<blocked, header_line, logline, method, content_length, body,
                 keepalive, kacount, answered>>

\* The part of what was read ahead that belongs to the body.
Ahead(rest, size) == SubSeq(rest, 1, Least(Len(rest), size))

ValidLength ==
  Value(content_length) >= 0
    /\ (SinglePostLimit = 0 \/ Value(content_length) <= SinglePostLimit)

\* The end of a POST's header: the length must be given, make sense and be
\* within the limit; what was read ahead is written first.
ScanEndPost ==
  /\ Scan
  /\ Current # "illegal" /\ To = "BODY_READ"
  /\ method = "POST"
  /\ IF ValidLength
     THEN /\ status' = "BODY_WRITE"
          /\ filesize' = Value(content_length)
          /\ chunk' = Ahead(SubSeq(client_stream, parse_pos + 2, Len(client_stream)), filesize')
     ELSE status' = "closed" /\ UNCHANGED <<filesize, chunk>>
  /\ UNCHANGED <<blocked, header_line, logline, method, content_length, post,
                 keepalive, kacount, answered>>
-----------------------------------------------------------------------------
\* Mutant: the bytes already held are not taken off.
HeaderRoom_Whole == ClientStreamSize

\* buf_bytes_left: the room in client_stream.
HeaderRoom == ClientStreamSize - Len(client_stream)

\* read_header has looked at all it has and reads more.
Reading == Running /\ InHeader /\ parse_pos = Len(client_stream)

ReadHeader ==
  /\ Reading /\ HeaderRoom > 0
  /\ arrived > taken /\ ~failed
  /\ LET n == Least(arrived - taken, HeaderRoom)
     IN /\ client_stream' = client_stream \o [i \in 1..n |-> taken + i]
        /\ taken' = taken + n
  /\ UNCHANGED <<input, failed, status, blocked, parse_pos, header_line, header_end,
                 logline, method, content_length, body, keepalive, kacount, parsed,
                 answered>>

\* No room is left in client_stream: the request is DEAD.
ReadHeaderFull ==
  /\ Reading /\ HeaderRoom < 1
  /\ Refuse
  /\ UNCHANGED <<input, taken, failed, parsed>>

\* The read would block.
Block ==
  /\ (Reading /\ HeaderRoom > 0) \/ (Running /\ status = "BODY_READ")
  /\ ~Readable
  /\ blocked' = TRUE
  /\ UNCHANGED <<input, taken, failed, status, parser, body, keepalive, kacount,
                 parsed, answered>>

\* The client closed its side, or read fails: the response status becomes 400
\* and free_request is called, with keep-alive as the headers left it.
ReadHeaderEnds ==
  /\ Reading /\ HeaderRoom > 0
  /\ taken = arrived \/ failed
  /\ eof \/ failed
  /\ FreeRequest("below500")
  /\ UNCHANGED <<input, taken, failed, parsed, answered>>

\* An error on the socket, which stays in error.
SocketFails ==
  /\ ~failed /\ status # "closed"
  /\ failed' = TRUE
  /\ UNCHANGED <<input, taken, status, blocked, parser, body, keepalive, kacount,
                 parsed, answered>>

\* What read_body asks for: the rest of the body, as far as there is room.
BodyWanted == Least(filesize - filepos, BufferSize - Len(chunk))

ReadBody ==
  /\ Running /\ status = "BODY_READ"
  /\ arrived > taken /\ ~failed
  /\ LET n == Least(arrived - taken, BodyWanted)
     IN /\ chunk' = chunk \o [i \in 1..n |-> taken + i]
        /\ taken' = taken + n
  /\ status' = "BODY_WRITE"
  /\ UNCHANGED <<input, failed, blocked, parser, filesize, post, keepalive, kacount,
                 parsed, answered>>

\* The body ends too soon: 400.
ReadBodyShort ==
  /\ Running /\ status = "BODY_READ"
  /\ taken = arrived /\ eof /\ ~failed
  /\ Refuse
  /\ UNCHANGED <<input, taken, failed, parsed>>

\* read fails: boa_perror sends the 500 page, which stops keep-alive.
ReadBodyFails ==
  /\ Running /\ status = "BODY_READ" /\ failed
  /\ Refuse
  /\ UNCHANGED <<input, taken, failed, parsed>>

\* Mutant: the number of bytes written is not looked at.
Rest_None(n) == <<>>

Rest(n) == SubSeq(chunk, n + 1, Len(chunk))

\* bytes_to_write: the chunk, as far as it belongs to the body.
ToWrite == Least(Len(chunk), filesize - filepos)

\* write_body writes some of the chunk to the temporary file.
WriteBody ==
  /\ Running /\ status = "BODY_WRITE"
  /\ \E n \in 1..ToWrite :
       post' = post \o SubSeq(chunk, 1, n) /\ chunk' = Rest(n)
  /\ UNCHANGED <<input, taken, failed, status, blocked, parser, filesize, keepalive,
                 kacount, parsed, answered>>

\* Mutant: a CGI's connection is kept alive.
WriteBodyDone_KeptAlive ==
  /\ Running /\ status = "BODY_WRITE" /\ ToWrite = 0
  /\ chunk' = <<>>
  /\ status' = IF filepos >= filesize THEN "CGI" ELSE "BODY_READ"
  /\ UNCHANGED <<input, taken, failed, blocked, parser, filesize, post, keepalive,
                 kacount, parsed, answered>>

\* The chunk is written: the body is whole and init_cgi runs (which stops
\* keep-alive), or there is more to read.
WriteBodyDone ==
  /\ Running /\ status = "BODY_WRITE" /\ ToWrite = 0
  /\ chunk' = <<>>
  /\ IF filepos >= filesize THEN status' = "CGI" /\ keepalive' = "STOPPED"
     ELSE status' = "BODY_READ" /\ UNCHANGED keepalive
  /\ UNCHANGED <<input, taken, failed, blocked, parser, filesize, post, kacount, parsed,
                 answered>>

\* The temporary file cannot be written: the connection is closed.
WriteBodyFails ==
  /\ Running /\ status = "BODY_WRITE" /\ ToWrite > 0
  /\ FreeRequest("none")
  /\ UNCHANGED <<input, taken, failed, parsed, answered>>

\* The response is written (Delivery and CgiPipe have how) and the request
\* freed; a CGI has stopped keep-alive, and so has a page for an error or a
\* write that failed ("none").
Respond ==
  /\ Running /\ status \in {"WRITE", "CGI"}
  /\ answered' = answered + 1
  /\ \E response \in {"below500", "none"} : FreeRequest(response)
  /\ UNCHANGED <<input, taken, failed, parsed>>

Closed == status = "closed" /\ UNCHANGED vars

Server ==
  \/ Illegal \/ ScanByte \/ ScanBadLine \/ ScanRequestLine \/ ScanOption
  \/ ScanEnd \/ ScanEndPost
  \/ ReadHeader \/ ReadHeaderFull \/ ReadHeaderEnds \/ Block
  \/ ReadBody \/ ReadBodyShort \/ ReadBodyFails
  \/ WriteBody \/ WriteBodyDone \/ WriteBodyFails
  \/ Respond \/ Wake

Next == ClientSends \/ ClientCloses \/ SocketFails \/ Timeout \/ Server \/ Closed

\* The process runs, and the event loop readies a request whose socket is
\* readable.  Nothing is assumed of the client.
Spec == Init /\ [][Next]_vars /\ WF_vars(Server)
-----------------------------------------------------------------------------
\* Nothing is read past the end of client_stream or buffer, and nothing past
\* the body's Content-Length is kept for it.
TypeOK ==
  /\ arrived \in 0..Len(stream) /\ taken \in 0..arrived
  /\ status \in {"READ_HEADER", "ONE_CR", "ONE_LF", "TWO_CR", "BODY_READ",
                 "BODY_WRITE", "WRITE", "CGI", "closed"}
  /\ Len(client_stream) <= ClientStreamSize
  /\ parse_pos \in 0..Len(client_stream)
  /\ header_line <= Len(client_stream) /\ header_end <= Len(client_stream)
  /\ filepos + Len(chunk) <= filesize
  /\ keepalive \in {"INACTIVE", "ACTIVE", "STOPPED"} /\ kacount \in 0..KaMax

\* However the stream is cut into packets, and however many requests a packet
\* holds, read_header takes each byte once and in order, across every recycling
\* of the connection, also of one whose client has closed its side or whose
\* socket has failed in the middle of a header.
HeaderInOrder == \A i \in DOMAIN parsed : parsed[i] = i

\* read_header never takes a byte of a body for a request: what was read ahead
\* of a body stays in client_stream, but by the time the request is freed
\* init_cgi has stopped keep-alive, or the page for what went wrong has.
HeaderBytesOnly == \A i \in DOMAIN parsed : ~stream[parsed[i]].body

\* What post_data_fd receives is the bytes that follow the header, in order and
\* without a gap, whether they were read ahead with it or later, in pieces and
\* with short writes; a CGI is started when it has all of them and no more.
BodyExact ==
  /\ \A i \in DOMAIN post : post[i] = parsed[Len(parsed)] + i
  /\ status = "CGI" => Len(post) = filesize

\* The end of the n-th request.
Ends == SelectSeq([p \in DOMAIN stream |-> p], LAMBDA p : stream[p].last)

\* A recycled connection whose next request has been read, in part at least,
\* and that waits for its socket.
Holding == blocked /\ client_stream # <<>> /\ ~Readable

\* A request that has arrived is answered, or the connection is closed, unless
\* it waits in client_stream for more bytes to arrive: no split of the stream
\* and no recycling loses a request or leaves the server waiting for one that
\* it has.
AnsweredUnlessHeld ==
  \A n \in 1..2 :
    (n <= Len(Ends) /\ arrived >= Ends[n]) ~> (answered >= n \/ status = "closed" \/ Holding)

\* CHANGES.md: "pipelining changes... it works now."  free_request puts a
\* recycled connection on the block list even when the next request is already
\* in client_stream; a client that waits for its answer is timed out.
PipelinedIsAnswered ==
  [][Timeout => ~(client_stream # <<>>
                  /\ \E i \in DOMAIN client_stream : stream[client_stream[i]].last)]_vars
=============================================================================
