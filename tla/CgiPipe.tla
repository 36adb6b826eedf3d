----------------------------- MODULE CgiPipe -----------------------------
(***************************************************************************)
(* The output of a CGI program or of the directory indexer on its way to   *)
(* the client: pipe.c's read_from_pipe and write_from_pipe and             *)
(* cgi_header.c's process_cgi_header on the one buffer of the request,     *)
(* which also holds the server's own header, with the flushes of           *)
(* process_requests and free_request.  Handlers are operators on the       *)
(* request that give their return value and the request they leave, as in  *)
(* RequestHandlers; here the request carries its bytes and its client's    *)
(* socket.                                                                 *)
(***************************************************************************)
EXTENDS Integers, Sequences, SequencesExt

CONSTANTS
  BufferSize,   \* BUFFER_SIZE
  Window,       \* what the client's socket takes before it blocks
  PageLen,      \* the length of an error page
  Scripts       \* what the child may do

\* A script's first header field decides what process_cgi_header does; "refused"
\* is a Location: that is not a URL, "none" output in which no empty line ends
\* the header, "index" the indexer, whose header is the server's.  The header
\* has hlen bytes, the output len, the server's header own.  Of a redirection,
\* more is the first byte behind the Location: line; a page for which there is
\* no room before the data it is made of comes out made bytes long, and dead
\* tells whether req_write or req_write_escape_html ran out of buffer.
Script ==
  [field : {"plain", "status", "location", "refused", "none", "index"}, hlen : Nat, len : Nat,
   http09 : BOOLEAN, head : BOOLEAN, own : Nat, more : Nat, made : Nat, dead : BOOLEAN]

\* A header ends with a newline, get_dir's fits in the buffer and an error page
\* in half of it.
ASSUME PipeAssumption ==
  /\ BufferSize \in Nat \ {0, 1} /\ Window \in Nat \ {0}
  /\ PageLen \in 1..(BufferSize \div 2)
  /\ Scripts \subseteq Script
  /\ \A s \in Scripts : IF s.field = "index" THEN s.own <= BufferSize ELSE s.hlen > 0
  /\ \A s \in Scripts : s.more \in 1..(s.hlen + 1) /\ s.made <= BufferSize

VARIABLES
  script,
  written,    \* what the child has written to the pipe
  closed,     \* the child has exited
  got,        \* what was read from the pipe
  req,        \* the request
  turn,       \* "top" and "handle" of process_requests, "blocked", "over"
  slips       \* "short": a handler ran behind an unfinished flush;
              \* "last": free_request gave up its last flush

vars == <<script, written, closed, got, req, turn, slips>>

\* header_line is an index into buffer; data is what lies between it and
\* header_end; out is what lies between buffer_start and buffer_end.
HeaderEnd(c) == c.header_line + Len(c.data)
BufferEnd(c) == c.buffer_start + Len(c.out)

\* Bytes: of the server's header, of an error page or a redirection's body, the
\* status line made of a Status: field, and the child's.
Own == [i \in 1..script.own |-> <<"own", i>>]
Page == [i \in 1..PageLen |-> <<"page", i>>]
StatusLine == <<"statusline", 1>>
Child(from, to) == [i \in 1..(to - from + 1) |-> <<"child", from + i - 1>>]

\* A redirection when g bytes of the child were read: all of them that follow
\* the Location: line are passed on as headers, what was read of its body too.
Redirection(g) == Own \o Child(script.more, g) \o Page

Least(a, b) == IF a < b THEN a ELSE b
-----------------------------------------------------------------------------
\* write(2) to the client.
Sends(c, s) == Least(Len(s), c.window)

ReqWrite(c, s) ==
  IF BufferEnd(c) + Len(s) > BufferSize THEN [c EXCEPT !.status = "DEAD"]
  ELSE [c EXCEPT !.out = @ \o s]

ReqFlush(c) ==
  LET n == Sends(c, c.out)
  IN [c EXCEPT !.client = @ \o SubSeq(c.out, 1, n), !.window = @ - n,
               !.out = SubSeq(@, n + 1, Len(@)),
               !.buffer_start = IF n = Len(c.out) THEN 0 ELSE @ + n]

Result(r, c) == [ret |-> r, req |-> c]
Emptied(c) == [c EXCEPT !.data = <<>>, !.header_line = 0]

\* Mutant: a short write counts as a whole one.
Unsent_None(c, n) == <<>>

\* What write_from_pipe leaves to write.
Unsent(c, n) == SubSeq(c.data, n + 1, Len(c.data))

WriteFromPipe(c) ==
  LET n == Sends(c, c.data)
      d == [c EXCEPT !.client = @ \o SubSeq(c.data, 1, n), !.window = @ - n,
                     !.data = Unsent(c, n), !.header_line = @ + n]
  IN IF c.data = <<>>
     THEN IF c.cgi_status = "CGI_DONE" THEN Result(0, c)
          ELSE Result(1, Emptied([c EXCEPT !.status = "PIPE_READ"]))
     ELSE IF c.window = 0 THEN Result(-1, c)
     ELSE IF d.data = <<>> THEN Result(1, Emptied([d EXCEPT !.status = "PIPE_READ"]))
     ELSE Result(1, d)

\* strstr finds the empty line that ends the child's header.
HeaderFound(c) == script.field \notin {"none", "index"} /\ Len(c.data) >= script.hlen

\* An error page instead of the child's output, from an empty buffer.
SendPage(c) == ReqFlush(ReqWrite(c, Page))

\* What send_r_moved_temp puts into the empty first half.  A longer page is
\* written over the URL and the headers it is still being copied from: what
\* comes of it is any bytes.
RoomFor(g) == Len(Redirection(g)) <= BufferSize \div 2
Moved(g) == IF RoomFor(g) THEN Redirection(g)
            ELSE [i \in 1..script.made |-> <<"unclear", i>>]

\* The redirection.  Where the buffer ran out the status is DEAD and req_flush
\* does nothing, but process_cgi_header then makes it DONE.
SendMoved(c) ==
  LET g == Len(c.data)
      d == [c EXCEPT !.out = Moved(g)]
      f == IF ~RoomFor(g) /\ script.dead THEN d ELSE ReqFlush(d)
  IN [f EXCEPT !.status = "DONE"]

\* Mutant: the data is moved to the buffer's start.
Merged_Before(s) == s \o Own

\* The child's data behind the server's header.
Merged(s) == Own \o s

\* No Location: and no Status: the server's header is put in the first half of
\* the buffer and the child's data moved up to it; reading goes on behind them.  HEAD
\* keeps the child's header only, up to the newline that would end it.
Merge(c) ==
  LET kept == IF script.head THEN SubSeq(c.data, 1, script.hlen - 1) ELSE c.data
      both == Merged(kept)
      d == [c EXCEPT !.cgi_status = IF script.head THEN "CGI_DONE" ELSE @]
  IN IF BufferEnd(c) + Len(both) > BufferSize
     THEN Result(0, SendPage([d EXCEPT !.out = <<>>, !.buffer_start = 0]))
     ELSE Result(IF script.head THEN 0 ELSE 1,
                 ReqFlush([d EXCEPT !.out = @ \o both, !.data = <<>>,
                                    !.header_line = BufferEnd(c) + Len(both)]))

\* process_cgi_header.  An HTTP/0.9 client gets what follows the header, from
\* its last newline on; Status: becomes the status line, one byte longer.
ProcessCgiHeader(c0) ==
  LET c == IF c0.cgi_status # "CGI_DONE" THEN [c0 EXCEPT !.cgi_status = "CGI_BUFFER"]
           ELSE c0
  IN IF ~HeaderFound(c) THEN Result(0, SendPage(c))
     ELSE IF script.http09
     THEN Result(1, [c EXCEPT !.header_line = @ + script.hlen - 1,
                              !.data = SubSeq(@, script.hlen, Len(@))])
     ELSE IF script.field = "status"
     THEN Result(1, [c EXCEPT !.header_line = @ - 1, !.data = <<StatusLine>> \o @])
     ELSE IF script.field = "refused"
     THEN Result(1, [SendPage(c) EXCEPT !.status = "DONE"])
     ELSE IF script.field = "location" THEN Result(1, SendMoved(c))
     ELSE Merge(c)

\* Mutant: the room is taken from the start of the data.
ToRead_FromLine(c) == BufferSize + 1 - c.header_line

\* bytes_to_read.
ToRead(c) == BufferSize + 1 - HeaderEnd(c)

\* read_from_pipe once n > 0 bytes have come.
TakesBytes(c, n) ==
  LET d == [c EXCEPT !.data = @ \o Child(got + 1, got + n)]
  IN IF c.cgi_status # "CGI_PARSE" THEN WriteFromPipe(d)
     ELSE IF HeaderFound(d) THEN ProcessCgiHeader([d EXCEPT !.cgi_status = "CGI_DONE"])
     ELSE Result(1, d)

\* read_from_pipe at the end of file.
TakesEof(c) ==
  LET d == [c EXCEPT !.status = "PIPE_WRITE", !.cgi_status = "CGI_DONE"]
  IN IF c.cgi_status = "CGI_PARSE" THEN ProcessCgiHeader(d) ELSE Result(1, d)

\* Mutant: a full buffer of parsed output is not handed to write_from_pipe.
TakesNothing_Reads(c) ==
  IF c.cgi_status = "CGI_PARSE" THEN ProcessCgiHeader([c EXCEPT !.cgi_status = "CGI_BUFFER"])
  ELSE Result(1, c)

\* read_from_pipe when the buffer is full.
TakesNothing(c) ==
  IF c.cgi_status = "CGI_PARSE" THEN ProcessCgiHeader([c EXCEPT !.cgi_status = "CGI_BUFFER"])
  ELSE Result(1, [c EXCEPT !.status = "PIPE_WRITE"])
-----------------------------------------------------------------------------
\* init_cgi in the parent: a CGI program gets the second half of the buffer, the
\* indexer all of it, behind the server's header that get_dir has written and
\* tried to flush.
Started(s, window) ==
  LET fresh == [status |-> "PIPE_READ", cgi_status |-> "CGI_PARSE",
                header_line |-> BufferSize \div 2, data |-> <<>>, buffer_start |-> 0,
                out |-> <<>>, client |-> <<>>, window |-> window]
      own == [i \in 1..s.own |-> <<"own", i>>]
  IN IF s.field # "index" THEN fresh
     ELSE ReqFlush([fresh EXCEPT !.cgi_status = "CGI_BUFFER", !.header_line = 0,
                                 !.out = IF s.http09 THEN <<>> ELSE own])

Init ==
  /\ script \in Scripts
  /\ written = 0 /\ closed = FALSE /\ got = 0
  /\ \E window \in 0..Window : req = Started(script, window)
  /\ turn = "top" /\ slips = {}

\* The child writes, and exits at any time.
ChildWrites ==
  /\ ~closed
  /\ \E n \in written + 1..script.len : written' = n
  /\ UNCHANGED <<script, closed, got, req, turn, slips>>

ChildExits ==
  /\ ~closed /\ closed' = TRUE
  /\ UNCHANGED <<script, written, got, req, turn, slips>>

\* The client takes what is in its socket, or some of it.
ClientReads ==
  /\ turn # "over"
  /\ \E w \in req.window + 1..Window : req' = [req EXCEPT !.window = w]
  /\ UNCHANGED <<script, written, closed, got, turn, slips>>

\* What the switch on a handler's return value makes of it.  After 0,
\* free_request returns early only when its flush was short: one that blocked is
\* given up.
After(r) ==
  LET c == r.req
      f == ReqFlush([c EXCEPT !.status = "DONE"])
      To(d, t, more) == [req |-> d, turn |-> t, slips |-> slips \cup more]
  IN CASE r.ret = 1 -> To(c, "top", {})
       [] r.ret = -1 -> To(c, "blocked", {})
       [] r.ret = 0 /\ c.out = <<>> -> To(c, "over", {})
       [] r.ret = 0 /\ c.out # <<>> /\ c.window = 0 -> To(f, "over", {"last"})
       [] OTHER -> To(f, IF f.out = <<>> THEN "over" ELSE "top", {})

Settle(r) ==
  \E o \in {After(r)} : req' = o.req /\ turn' = o.turn /\ slips' = o.slips

\* The flush at the top of process_requests' loop goes on to the handler even
\* when it was short.
TopFlush ==
  /\ turn = "top" /\ req.out # <<>>
  /\ req' = ReqFlush(req)
  /\ turn' = IF req.window = 0 THEN "blocked" ELSE "handle"
  /\ slips' = IF turn' = "handle" /\ req'.out # <<>> THEN slips \cup {"short"} ELSE slips
  /\ UNCHANGED <<script, written, closed, got>>

\* The handler of the request's status runs.
Runs(status) ==
  /\ \/ turn = "handle"
     \/ turn = "top" /\ req.out = <<>>
  /\ req.status = status
  /\ UNCHANGED <<script, written, closed>>

ReadFromPipe ==
  /\ Runs("PIPE_READ") /\ ToRead(req) > 0 /\ got < written
  /\ LET n == Least(ToRead(req), written - got)
     IN got' = got + n /\ Settle(TakesBytes(req, n))

ReadEof ==
  /\ Runs("PIPE_READ") /\ ToRead(req) > 0 /\ got = written /\ closed
  /\ UNCHANGED got
  /\ Settle(TakesEof(req))

ReadBlocks ==
  /\ Runs("PIPE_READ") /\ ToRead(req) > 0 /\ got = written /\ ~closed
  /\ UNCHANGED got
  /\ Settle(Result(-1, req))

ReadFull ==
  /\ Runs("PIPE_READ") /\ ToRead(req) = 0
  /\ UNCHANGED got
  /\ Settle(TakesNothing(req))

PipeWrite ==
  /\ Runs("PIPE_WRITE")
  /\ UNCHANGED got
  /\ Settle(WriteFromPipe(req))

\* The DONE case: unlike free_request it waits for a flush that blocks.
FlushDone ==
  /\ Runs("DONE")
  /\ UNCHANGED got
  /\ LET f == ReqFlush(req)
     IN Settle(Result(IF f.out = <<>> THEN 0 ELSE IF req.window = 0 THEN -1 ELSE 1, f))

\* Mutant: it is always the child that is waited for.
WaitsForClient_Never(c) == FALSE

\* Whom a blocked request waits for, as block_request chooses.
WaitsForClient(c) == c.out # <<>> \/ c.status # "PIPE_READ"

Wake ==
  /\ turn = "blocked"
  /\ IF WaitsForClient(req) THEN req.window > 0 ELSE got < written \/ closed
  /\ turn' = "top"
  /\ UNCHANGED <<script, written, closed, got, req, slips>>

\* A write to the client, or a read of the pipe, fails: DEAD.
Fails ==
  /\ turn \in {"top", "handle"}
  /\ req' = [req EXCEPT !.status = "DEAD", !.out = <<>>, !.buffer_start = 0]
  /\ turn' = "over"
  /\ UNCHANGED <<script, written, closed, got, slips>>

Over == turn = "over" /\ UNCHANGED vars

Server == \/ TopFlush \/ ReadFromPipe \/ ReadEof \/ ReadBlocks \/ ReadFull
          \/ PipeWrite \/ FlushDone \/ Wake

Next == ChildWrites \/ ChildExits \/ ClientReads \/ Fails \/ Server \/ Over

\* The process runs; for the liveness property, the client reads on.
Spec == Init /\ [][Next]_vars /\ WF_vars(Server) /\ WF_vars(ClientReads)
-----------------------------------------------------------------------------
\* All the data lies inside the buffer of BUFFER_SIZE + 1 bytes (which leaves no
\* room for read_from_pipe's closing NUL when it is full), and the server's
\* header and the child's data, which share it, do not overlap, short flushes
\* and redirections that are too long for the first half apart.
TypeOK ==
  /\ got \in 0..written /\ written \in 0..script.len
  /\ req.status \in {"PIPE_READ", "PIPE_WRITE", "DONE", "DEAD"}
  /\ req.cgi_status \in {"CGI_PARSE", "CGI_BUFFER", "CGI_DONE"}
  /\ req.window \in 0..Window
  /\ req.header_line >= 0 /\ HeaderEnd(req) <= BufferSize + 1
  /\ BufferEnd(req) <= BufferSize
  /\ ("short" \notin slips /\ req.out # <<>> /\ req.data # <<>>)
       => BufferEnd(req) <= req.header_line \/ (script.field = "location" /\ ~RoomFor(got))

\* What the client should get when the child has written n bytes: a page when
\* its header does not end in half the buffer, the redirection made of what was
\* read of it, else its output behind the server's header, or behind the status
\* line it gave.
Expected(n) ==
  IF script.field = "index" THEN (IF script.http09 THEN <<>> ELSE Own) \o Child(1, n)
  ELSE IF script.field = "none" \/ n < script.hlen THEN Page
  ELSE IF script.http09 THEN Child(script.hlen, n)
  ELSE IF script.field = "refused" THEN Page
  ELSE IF script.field = "location" THEN Redirection(got)
  ELSE IF script.field = "status" THEN <<StatusLine>> \o Child(1, n)
  ELSE Own \o Child(1, IF script.head THEN script.hlen - 1 ELSE n)

\* The child's header ends in its half of the buffer, where a byte more than
\* half is read, and what is behind the server's fits, or the redirection does.
Half == BufferSize + 1 - BufferSize \div 2
Fits ==
  /\ script.hlen <= Half
  /\ IF script.field = "location" THEN RoomFor(got)
     ELSE script.own + (IF script.head THEN script.hlen - 1 ELSE Half) <= BufferSize

\* Whatever the sizes of the child's writes and of the client's reads, the
\* client gets the server's header and the child's output in order, nothing
\* lost in the middle and nothing twice, though both share one buffer, are
\* moved in it and are written from it by three functions.  A header that does
\* not fit may be answered with an error page, a redirection that does not fit
\* with any bytes (response.c:292-304).
InOrderUnlessShort ==
  "short" \notin slips
    => \/ IsPrefix(req.client, Expected(written))
       \/ ~Fits /\ IsPrefix(req.client, Page)
       \/ ~Fits /\ script.field = "location" /\ IsPrefix(req.client, Moved(got))

\* A response that is not cut by an error or a given-up flush is whole:
\* CGI_DONE, set when the header has been parsed, does not end it before the
\* child has.  A redirection that does not fit is excepted: it is cut or spoilt,
\* and cgi_header.c:411 ends it like a good one.
WholeUnlessCut ==
  turn = "over" /\ req.status # "DEAD" /\ slips = {}
    => \/ req.client = Expected(written)
       \/ ~Fits /\ req.client = Page
       \/ ~Fits /\ script.field = "location" /\ req.client = Moved(got)

\* Once the child has exited and while the client reads, the response ends: no
\* full buffer, blocked write or state in which the request waits for the
\* other side holds it up.
EndsOnceChildEnds == closed ~> turn = "over"

\* The request waits for the child in PIPE_READ with data in its hands, in three
\* cases: read_from_pipe's own write_from_pipe was short or blocked
\* (pipe.c:129), which leaves the rest to a read; and process_cgi_header
\* returned in PIPE_READ with all it had read, for an HTTP/0.9 client
\* (cgi_header.c:357) or behind a Status: field (cgi_header.c:364), so that
\* nothing of it is written before the child writes more or exits, although the
\* client's socket is free.
Stuck == turn = "blocked" /\ req.status = "PIPE_READ" /\ req.data # <<>>

\* Output on its way: in the pipe, in the second or in the first part of the
\* buffer.
OnItsWay == got < written \/ req.data # <<>> \/ req.out # <<>>

\* While the child runs on and is silent, what it has written reaches the
\* client that reads, or the request is Stuck: it waits for the child with
\* output in hand in no other case, so neither a full buffer nor a flush that
\* blocked holds the output up.
PassedOnUnlessStuck == OnItsWay ~> (~OnItsWay \/ Stuck \/ turn = "over")
=============================================================================
