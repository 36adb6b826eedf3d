------------------------ MODULE RequestHandlers ------------------------
(***************************************************************************)
(* What each handler of request.c, read.c, pipe.c, get.c, cgi.c,           *)
(* cgi_header.c and response.c may do to the control state of one request. *)
(* A handler is an operator from a request to the set of its outcomes: the *)
(* value it returns to process_requests (-1 blocked, 0 complete, 1 more to *)
(* do) and the request it leaves behind.  What a read, a write or a fork   *)
(* returns is the environment's choice; the bytes themselves are left out. *)
(***************************************************************************)
EXTENDS Integers

CONSTANTS
  KaMax,    \* KeepAliveMax: requests a connection may serve after its first
  MaxWork   \* bound on the data steps of one request (headers, body, file and
            \* CGI output are finite)

ASSUME HandlerAssumption == KaMax \in Nat /\ MaxWork \in Nat

\* The status of a request.  READ_HEADER stands for READ_HEADER, ONE_CR,
\* ONE_LF and TWO_CR, which every function but read_header treats alike.
Status == {"READ_HEADER", "BODY_READ", "BODY_WRITE", "WRITE", "PIPE_READ",
           "PIPE_WRITE", "IOSHUFFLE", "DONE", "TIMED_OUT", "DEAD"}

\* response_status: 0, below 500, or 500 and above.
Response == {"none", "below500", "5xx"}

\* The fields of struct request that decide what happens to it next.
\* buffer says whether buffer_end is non-zero; data_fd and post_data_fd
\* whether those descriptors are non-zero; orphan is a ghost: a temporary file
\* was opened that post_data_fd no longer names; work bounds the data steps.
Request == [status : Status, keepalive : {"INACTIVE", "ACTIVE", "STOPPED"},
            response : Response, logline : BOOLEAN, buffer : BOOLEAN,
            data_fd : BOOLEAN, post_data_fd : BOOLEAN, orphan : BOOLEAN,
            kacount : 0..KaMax, work : 0..MaxWork]

\* sanitize_request: everything above fd is zeroed, status is READ_HEADER.
Sanitized(count) ==
  [status |-> "READ_HEADER", keepalive |-> "INACTIVE", response |-> "none",
   logline |-> FALSE, buffer |-> FALSE, data_fd |-> FALSE,
   post_data_fd |-> FALSE, orphan |-> FALSE, kacount |-> count,
   work |-> MaxWork]

\* status < TIMED_OUT in the order of enum REQ_STATUS.
Alive(c) == c.status \notin {"TIMED_OUT", "DEAD"}

Outcome == [ret : {-1, 0, 1}, req : Request]

\* A handler that returns n and leaves one of the requests in S.
Returns(n, S) == {[ret |-> n, req |-> d] : d \in S}

\* One step of a finite amount of work: return 1 and come back for more.
More(S) == Returns(1, {[d EXCEPT !.work = @ - 1] : d \in {e \in S : e.work > 0}})

SquashKa(c) == [c EXCEPT !.keepalive = "STOPPED"]

Die(c) == [c EXCEPT !.status = "DEAD"]
-----------------------------------------------------------------------------
(* buffer.c *)

\* req_write: the text is appended; when it does not fit the request is DEAD;
\* past DONE nothing is written.
ReqWrite(c) ==
  IF Alive(c) THEN {[c EXCEPT !.buffer = TRUE], Die(c)} ELSE {c}

\* req_flush: -2 an error, -1 the socket would block, else what is stored (0
\* nothing, 1 standing for the buffer_end > 0 of a short write).
ReqFlush(c) ==
  IF ~Alive(c) THEN {[ret |-> -2, req |-> c]}
  ELSE IF ~c.buffer THEN {[ret |-> 0, req |-> c]}
  ELSE {[ret |-> -2, req |-> [Die(c) EXCEPT !.buffer = FALSE]],
        [ret |-> -1, req |-> c],
        [ret |-> 0, req |-> [c EXCEPT !.buffer = FALSE]],
        [ret |-> 1, req |-> c]}

\* A req_flush whose result the caller ignores.
Flushed(S) == UNION {{f.req : f \in ReqFlush(c)} : c \in S}
-----------------------------------------------------------------------------
(* response.c *)

\* The error and redirect pages: all of them stop keep-alive, set the
\* response status, write the page and flush.
SendPage(c, code) ==
  Flushed(ReqWrite([SquashKa(c) EXCEPT !.response = code]))

\* A handler that answers with one of the pages and is done.
Pages(c) == Returns(0, SendPage(c, "below500") \cup SendPage(c, "5xx"))

\* send_r_request_ok, send_r_no_content, send_r_partial_content: headers are
\* buffered, keep-alive is left alone.  HTTP/0.9 gets no header.
SendHeaders(c) ==
  LET d == [c EXCEPT !.response = "below500"] IN ReqWrite(d) \cup {d}

\* complete_response: the last (or only) range is DONE; between the ranges
\* of a multipart answer the next part's header is buffered.
CompleteResponse(c) ==
  Returns(0, {[c EXCEPT !.status = "DONE"]})
    \cup More(ReqWrite(c))
    \cup Returns(1, Flushed({[d EXCEPT !.status = "DONE"] : d \in ReqWrite(c)}))
-----------------------------------------------------------------------------
(* cgi.c and cgi_header.c *)

\* init_cgi: keep-alive stops; the environment, the pipe or fork may fail;
\* NPH and gunzip write to the socket themselves; a CGI or the directory
\* indexer is read through data_fd.
InitCgi(c) ==
  LET s == SquashKa(c)
      forked == [s EXCEPT !.post_data_fd = FALSE]
  IN Returns(0, {s})
       \cup Returns(0, SendPage(s, "5xx"))
       \cup Returns(0, {forked})
       \cup Returns(1, {[forked EXCEPT !.status = "PIPE_READ", !.data_fd = TRUE]})

\* process_cgi_header: a bad gateway, HTTP/0.9 or a Status header (no status
\* line of ours), a Location header (a page, and status DONE whatever the
\* page's flush said), or our headers merged with the CGI's and flushed.
ProcessCgiHeader(c) ==
  LET merged == Flushed(UNION {ReqWrite(d) : d \in SendHeaders(c)})
  IN Returns(0, SendPage(c, "5xx"))
       \cup More({c})
       \cup Returns(1, {[d EXCEPT !.status = "DONE"] : d \in SendPage(c, "below500")})
       \cup Returns(0, merged) \cup More(merged)
-----------------------------------------------------------------------------
(* get.c *)

\* get_dir for the gunzipped index and the directory indexer, and init_get's
\* own gunzip branch (which does not stop keep-alive): headers are flushed,
\* then HEAD ends or init_cgi runs.
InitGenerated(c) ==
  LET sent == Flushed(SendHeaders(c) \cup SendHeaders(SquashKa(c)))
  IN Returns(0, sent) \cup (UNION {InitCgi(d) : d \in sent})

\* init_get once the file is open and its ranges are known: it is mapped and
\* stays in WRITE, or is shuffled from data_fd.  The second ranges_fixup may
\* fail; HEAD, or a file that fits the buffer, completes at once; a SIGBUS
\* while copying from the mapping drops the buffer and sends an error.
InitFile(c) ==
  LET opened == {c, [c EXCEPT !.status = "IOSHUFFLE", !.data_fd = TRUE]}
      headed == UNION {SendHeaders(d) : d \in opened}
      small == {d \in headed : ~d.data_fd}
  IN (UNION {Returns(0, SendPage(d, "below500")) : d \in opened})
       \cup (UNION {CompleteResponse(d) : d \in headed})
       \cup Returns(1, headed)
       \cup Returns(1, {[d EXCEPT !.buffer = TRUE] : d \in small})
       \cup (UNION {CompleteResponse([d EXCEPT !.buffer = TRUE]) : d \in small})
       \cup (UNION {Returns(0, SendPage([d EXCEPT !.buffer = FALSE], "5xx")) : d \in small})

\* init_get: errors, redirects and 304 are pages; an empty file is headers
\* only.
InitGet(c) ==
  Pages(c)
    \cup Returns(0, SendHeaders(c))
    \cup InitGenerated(c)
    \cup InitFile(c)

\* process_get: a chunk of the mapping goes to the socket.
ProcessGet(c) ==
  CompleteResponse(c)
    \cup Returns(0, {Die(c)})
    \cup Returns(-1, {c})
    \cup More({c})

\* io_shuffle_sendfile (the Linux default): a chunk of data_fd goes to the
\* socket; 0 bytes sent counts as blocked.
IoShuffleSendfile(c) ==
  CompleteResponse(c)
    \cup Returns(0, {Die(c)})
    \cup Returns(-1, {c})
    \cup More({c})
-----------------------------------------------------------------------------
(* request.c and read.c *)

\* process_logline: HTTP/1.1 turns keep-alive on, even after it was stopped.
ProcessLogline(c) ==
  {[c EXCEPT !.logline = TRUE, !.keepalive = k] : k \in {c.keepalive, "ACTIVE"}}

\* process_option_line: a Connection header turns keep-alive on or off unless
\* it is stopped or KeepAliveMax is 0.
ProcessOptionLine(c) ==
  IF KaMax = 0 \/ c.keepalive = "STOPPED" THEN {c}
  ELSE {[c EXCEPT !.keepalive = k] : k \in {c.keepalive, "ACTIVE", "STOPPED"}}

\* The request after some more header lines.  Any number of option lines leads
\* where one can.
Parsed(c) ==
  {c} \cup (UNION {ProcessOptionLine(d) : d \in IF c.logline THEN {c} ELSE ProcessLogline(c)})

\* process_header_end and, for POST, the end of read_header that follows it:
\* a refused URI, host or path; POST opens a temporary file and wants a valid
\* Content-Length, and without the file is a page for 500 (send_r_error, or
\* boa_perror's); a CGI; or a file.  A POST with an HTTP/0.9 request line
\* returns before the body is set up, keeps reading headers and comes here
\* again with post_data_fd already set.
ProcessHeaderEnd(c) ==
  LET b == [c EXCEPT !.status = "BODY_READ"]
      p == [c EXCEPT !.status = "BODY_WRITE", !.post_data_fd = TRUE,
                     !.orphan = @ \/ c.post_data_fd]
      without == [p EXCEPT !.status = "BODY_READ", !.post_data_fd = FALSE]
  IN Pages(b) \cup Pages(p)
       \cup Returns(0, {SquashKa(b)}) \cup Returns(0, SendPage(without, "5xx"))
       \cup Returns(1, {p})
       \cup More({[p EXCEPT !.status = c.status]})
       \cup InitCgi(b)
       \cup InitGet([c EXCEPT !.status = "WRITE"])

\* read_header: parse what client_stream holds, then read.  A malformed
\* header is a page; an option line without ':' ends the request without a
\* response; end of file and read errors set 400 and leave status as it is.
ReadHeader(c) ==
  UNION {
    Pages(d)
      \cup (IF d.logline THEN Returns(0, {d}) \cup ProcessHeaderEnd(d) ELSE {})
      \cup Returns(0, {[Die(d) EXCEPT !.response = "below500"]})
      \cup Returns(0, {[d EXCEPT !.response = "below500"]})
      \cup Returns(-1, {d})
      \cup More({d})
    : d \in Parsed(c)}

\* read_body: bytes of the body from the socket into the buffer.  A body that
\* ends too soon is a page for 400; a failing read sends boa_perror's page for
\* 500 and then sets 400, which comes to the same.
ReadBody(c) ==
  More({[c EXCEPT !.status = "BODY_WRITE"]})
    \cup Returns(-1, {c})
    \cup Returns(0, SendPage(c, "below500"))

\* write_body: bytes of the body from the buffer to the temporary file; with
\* nothing left in the buffer, read more or start the CGI.
WriteBody(c) ==
  InitCgi(c)
    \cup Returns(1, {[c EXCEPT !.status = "BODY_READ"]})
    \cup Returns(-1, {c})
    \cup More({c})
    \cup Returns(0, SendPage(c, "5xx"))
-----------------------------------------------------------------------------
(* pipe.c *)

\* write_from_pipe: with nothing to write the CGI is done or is read again;
\* a full write goes back to PIPE_READ.
WriteFromPipe(c) ==
  Returns(0, {c, Die(c)})
    \cup Returns(-1, {c})
    \cup More({c, [c EXCEPT !.status = "PIPE_READ"]})

\* read_from_pipe: a full buffer or end of file goes to PIPE_WRITE, in the
\* header phase through process_cgi_header; other data is written at once.
ReadFromPipe(c) ==
  LET w == [c EXCEPT !.status = "PIPE_WRITE"]
  IN Returns(1, {w})
       \cup ProcessCgiHeader(c) \cup ProcessCgiHeader(w)
       \cup Returns(-1, {c})
       \cup Returns(0, {Die(c)})
       \cup WriteFromPipe(c)
-----------------------------------------------------------------------------
(* process_requests *)

\* The DONE case: flush what is left.  A short write stays on the ready list.
FinishDone(c) ==
  UNION {CASE f.ret = -2 -> Returns(0, {Die(f.req)})
           [] f.ret = 1  -> More({f.req})
           [] OTHER      -> {f}
         : f \in ReqFlush(c)}

\* The switch on status.
Dispatch(c) ==
  CASE c.status = "READ_HEADER" -> ReadHeader(c)
    [] c.status = "BODY_READ"   -> ReadBody(c)
    [] c.status = "BODY_WRITE"  -> WriteBody(c)
    [] c.status = "WRITE"       -> ProcessGet(c)
    [] c.status = "PIPE_READ"   -> ReadFromPipe(c)
    [] c.status = "PIPE_WRITE"  -> WriteFromPipe(c)
    [] c.status = "IOSHUFFLE"   -> IoShuffleSendfile(c)
    [] c.status = "DONE"        -> FinishDone(c)
    [] OTHER -> Returns(0, {[SquashKa(c) EXCEPT !.buffer = FALSE]})

\* The flush at the top of the loop body, then the switch unless the flush
\* failed or blocked.  A short write goes on to the switch.
Process(c) ==
  IF c.buffer /\ Alive(c)
  THEN UNION {CASE f.ret = -2 -> Returns(0, {Die(f.req)})
                [] f.ret = -1 -> {f}
                [] OTHER      -> Dispatch(f.req)
              : f \in ReqFlush(c)}
  ELSE Dispatch(c)

\* The flush at the top of free_request: "it must be exactly the same" as
\* the DONE case, but a blocked flush (-1) goes on as a finished one does.
\* ret 1: free_request returns and the request stays on the ready list.
FinalFlush(c) ==
  IF c.buffer /\ Alive(c)
  THEN ReqFlush([c EXCEPT !.status = "DONE"])
  ELSE {[ret |-> 0, req |-> c]}
=============================================================================
