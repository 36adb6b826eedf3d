--------------------------- MODULE Delivery ---------------------------
(***************************************************************************)
(* The bytes of one GET response on their way to the client: the header    *)
(* buffered by response.c, the file sent from its mapping (process_get) or *)
(* from data_fd (io_shuffle_sendfile), the parts of a multipart answer     *)
(* (complete_response), and the flushes of process_requests and            *)
(* free_request between them.  Which part of a write the socket takes is   *)
(* the environment's choice.                                               *)
(***************************************************************************)
EXTENDS Integers, Sequences, SequencesExt

CONSTANTS
  BufferSize,   \* BUFFER_SIZE, the size of req->buffer
  Spare,        \* what init_get keeps free behind the file data (256)
  SystemBuf,    \* system_bufsize, the most one write of file data takes
  HeaderLen,    \* length of the response header
  PartLen,      \* length of a part's header, and of the closing boundary
  RangeLists    \* the range lists a request may ask for, after ranges_fixup

ASSUME DeliveryAssumption ==
  /\ {BufferSize, Spare, SystemBuf, HeaderLen, PartLen} \subseteq Nat \ {0}
  /\ HeaderLen + PartLen + Spare <= BufferSize
  /\ \A rs \in RangeLists :
       /\ rs \in Seq([start : Nat, stop : Nat]) /\ rs # <<>>
       /\ \A i \in 1..Len(rs) : rs[i].start <= rs[i].stop

VARIABLES
  pc,       \* "init", then where process_requests stands with the request
  status,   \* req->status
  mapped,   \* data_mem is set
  ranges,   \* req->ranges, the list still to send
  asked,    \* the list as asked for, which fixes the response
  multi,    \* numranges > 1, with status 206
  buffer,   \* buffer[0 .. buffer_end - 1]
  start,    \* buffer_start
  retval,   \* what the handler returned
  wire,     \* the bytes the socket has taken
  slips     \* ghost: "short" when a flush left bytes and the handler went on,
            \* "overflow" when a text did not fit the buffer

vars == <<pc, status, mapped, ranges, asked, multi, buffer, start, retval, wire,
          slips>>

Span(tag, n) == [i \in 1..n |-> <<tag, i>>]
FileBytes(r) == [i \in 1..(r.stop - r.start + 1) |-> <<"file", r.start + i - 1>>]

\* The header of the part that begins a list of n ranges.
PartHeader(n) == [i \in 1..PartLen |-> <<"part", n, i>>]
Trailer == Span("end", PartLen)

\* What the client is to receive for the list rs, with parts if m: the
\* reference the steps below are compared with.  Endings has its end from the
\* last n ranges on.
Endings(rs, m) ==
  LET E[n \in 0..Len(rs)] ==
        IF n = 0 THEN IF m THEN Trailer ELSE <<>>
        ELSE (IF m THEN PartHeader(n) ELSE <<>>)
               \o FileBytes(rs[Len(rs) - n + 1]) \o E[n - 1]
  IN E
Response(rs) == Span("header", HeaderLen) \o Endings(rs, multi)[Len(rs)]
-----------------------------------------------------------------------------
Init ==
  /\ pc = "init" /\ status = "WRITE"
  /\ mapped \in BOOLEAN
  /\ asked \in RangeLists /\ ranges = asked
  /\ multi \in {m \in BOOLEAN : Len(asked) > 1 => m}
  /\ buffer = <<>> /\ start = 0 /\ retval = 1
  /\ wire = <<>> /\ slips = {}

\* Mutant: the length is not tested.
Fits_Unchecked(b, text) == TRUE

\* req_write: append, or (see full below) DEAD when it does not fit.
Fits(b, text) == Len(b) + Len(text) <= BufferSize
ReqWrite(b, text) == IF Fits(b, text) THEN b \o text ELSE b

\* req_flush of the buffer b from b0 on: what the socket may take (n bytes),
\* what stays stored, and the result (-2 an error, -1 blocked).
ReqFlush(b, b0) ==
  LET left == Len(b) - b0
      Sent(n) == [ret |-> IF n = left THEN 0 ELSE Len(b),
                  buffer |-> IF n = left THEN <<>> ELSE b,
                  start |-> IF n = left THEN 0 ELSE b0 + n,
                  sent |-> SubSeq(b, b0 + 1, b0 + n)]
  IN IF left = 0 THEN {Sent(0)}
     ELSE {Sent(n) : n \in 1..left}
            \cup {[ret |-> -1, buffer |-> b, start |-> b0, sent |-> <<>>],
                  [ret |-> -2, buffer |-> <<>>, start |-> 0, sent |-> <<>>]}

\* Mutant: numranges is not looked at.
OneRange_Always == TRUE

OneRange == ~multi

\* complete_response with rest, the list behind the range just finished, the
\* buffer b, and taken, what the caller has just put on the socket.  Between
\* parts the next header is buffered; after the last one the closing boundary
\* is buffered and flushed, the result of the flush ignored.
CompleteResponse(rest, b, taken) ==
  LET text == IF rest # <<>> THEN PartHeader(Len(rest)) ELSE Trailer
      full == multi /\ ~Fits(b, text)
  IN /\ ranges' = rest
     /\ slips' = IF full THEN slips \cup {"overflow"} ELSE slips
     /\ IF OneRange
        THEN /\ status' = "DONE" /\ retval' = 0
             /\ buffer' = b /\ start' = start /\ wire' = wire \o taken
        ELSE IF rest # <<>>
        THEN /\ status' = IF full THEN "DEAD" ELSE status
             /\ buffer' = ReqWrite(b, text) /\ start' = start
             /\ retval' = 1 /\ wire' = wire \o taken
        ELSE \E f \in ReqFlush(ReqWrite(b, text), start) :
               /\ status' = IF f.ret = -2 THEN "DEAD" ELSE "DONE"
               /\ buffer' = f.buffer /\ start' = f.start
               /\ wire' = wire \o taken \o f.sent
               /\ retval' = 1

\* Mutant: the range is not moved past what was taken.
Advance_Forgotten(r, n) == r

Advance(r, n) == [r EXCEPT !.start = @ + n]

\* init_get from the open file on: the header, then for a mapped file as much
\* of the first range as fits with Spare bytes to spare.
InitGet ==
  LET head == Span("header", HeaderLen)
                \o (IF multi THEN PartHeader(Len(asked)) ELSE <<>>)
      free == BufferSize - Len(head)
      r == ranges[1]
      want == r.stop - r.start + 1
      n == IF free > want THEN want ELSE free
      filled == head \o SubSeq(FileBytes(r), 1, n)
  IN /\ pc = "init"
     /\ IF ~mapped \/ free <= Spare
        THEN /\ status' = IF mapped THEN "WRITE" ELSE "IOSHUFFLE"
             /\ buffer' = head /\ retval' = 1
             /\ UNCHANGED <<ranges, start, wire, slips>>
        ELSE IF n = want THEN CompleteResponse(Tail(ranges), filled, <<>>)
        ELSE /\ ranges' = <<Advance(r, n)>> \o Tail(ranges)
             /\ buffer' = filled /\ retval' = 1
             /\ UNCHANGED <<status, start, wire, slips>>
     /\ pc' = "settle"
     /\ UNCHANGED <<mapped, asked, multi>>
-----------------------------------------------------------------------------
\* Mutant: the buffer is taken to be empty.
NothingToFlush_Always == TRUE

NothingToFlush == buffer = <<>> \/ status \in {"TIMED_OUT", "DEAD"}

\* process_requests' flush at the top: "notice the >=": a short flush goes on
\* to the handler.
TopFlush ==
  /\ pc = "ready"
  /\ IF NothingToFlush
     THEN /\ pc' = "dispatch"
          /\ UNCHANGED <<status, buffer, start, retval, wire, slips>>
     ELSE \E f \in ReqFlush(buffer, start) :
            /\ buffer' = f.buffer /\ start' = f.start /\ wire' = wire \o f.sent
            /\ status' = IF f.ret = -2 THEN "DEAD" ELSE status
            /\ retval' = IF f.ret = -2 THEN 0 ELSE IF f.ret = -1 THEN -1 ELSE 1
            /\ pc' = IF f.ret >= 0 THEN "dispatch" ELSE "settle"
            /\ slips' = IF f.ret > 0 /\ status # "DONE" THEN slips \cup {"short"}
                        ELSE slips
  /\ UNCHANGED <<mapped, ranges, asked, multi>>

\* process_get and io_shuffle_sendfile: the next bytes of the range go
\* straight to the socket, as many as it takes.
SendChunk ==
  LET r == ranges[1]
      want == r.stop - r.start + 1
      most == IF want > SystemBuf THEN SystemBuf ELSE want
  IN /\ pc = "dispatch" /\ status \in {"WRITE", "IOSHUFFLE"}
     /\ \E n \in 1..most :
          LET taken == SubSeq(FileBytes(r), 1, n)
          IN IF n = want THEN CompleteResponse(Tail(ranges), buffer, taken)
             ELSE /\ ranges' = <<Advance(r, n)>> \o Tail(ranges)
                  /\ wire' = wire \o taken
                  /\ retval' = 1
                  /\ UNCHANGED <<status, buffer, start, slips>>
     /\ pc' = "settle"
     /\ UNCHANGED <<mapped, asked, multi>>

\* The socket is full (for sendfile also 0 bytes sent), or the write fails or
\* raises SIGBUS.
ChunkNotSent ==
  /\ pc = "dispatch" /\ status \in {"WRITE", "IOSHUFFLE"}
  /\ \/ retval' = -1 /\ UNCHANGED status
     \/ retval' = 0 /\ status' = "DEAD"
  /\ pc' = "settle"
  /\ UNCHANGED <<mapped, ranges, asked, multi, buffer, start, wire, slips>>

\* The DONE case: flush what is left, stay ready after a short flush.
Done ==
  /\ pc = "dispatch" /\ status = "DONE"
  /\ \E f \in ReqFlush(buffer, start) :
       /\ buffer' = f.buffer /\ start' = f.start /\ wire' = wire \o f.sent
       /\ status' = IF f.ret = -2 THEN "DEAD" ELSE status
       /\ retval' = IF f.ret = -2 THEN 0 ELSE IF f.ret > 0 THEN 1 ELSE f.ret
  /\ pc' = "settle"
  /\ UNCHANGED <<mapped, ranges, asked, multi, slips>>

\* TIMED_OUT and DEAD: the buffer is dropped.
Abandon ==
  /\ pc = "dispatch" /\ status \in {"TIMED_OUT", "DEAD"}
  /\ buffer' = <<>> /\ retval' = 0
  /\ pc' = "settle"
  /\ UNCHANGED <<status, mapped, ranges, asked, multi, start, wire, slips>>

\* The switch on retval: stay ready, block, or
KeepReady ==
  /\ pc = "settle" /\ retval = 1
  /\ pc' = "ready"
  /\ UNCHANGED <<status, mapped, ranges, asked, multi, buffer, start, retval, wire, slips>>

BlockRequest ==
  /\ pc = "settle" /\ retval = -1
  /\ pc' = "blocked"
  /\ UNCHANGED <<status, mapped, ranges, asked, multi, buffer, start, retval, wire, slips>>

\* free_request: DONE and a last flush if there is data.  Only bytes left
\* (> 0) make it return early; a blocked flush (-1) frees the request.
FreeRequest ==
  /\ pc = "settle" /\ retval = 0
  /\ IF NothingToFlush
     THEN pc' = "freed" /\ UNCHANGED <<status, buffer, start, wire>>
     ELSE \E f \in ReqFlush(buffer, start) :
            /\ buffer' = f.buffer /\ start' = f.start /\ wire' = wire \o f.sent
            /\ status' = IF f.ret = -2 THEN "DEAD" ELSE "DONE"
            /\ pc' = IF f.ret > 0 THEN "ready" ELSE "freed"
  /\ UNCHANGED <<mapped, ranges, asked, multi, retval, slips>>

\* select finds the socket writable, or the request has timed out.
Wake ==
  /\ pc = "blocked"
  /\ pc' = "ready"
  /\ \/ UNCHANGED status
     \/ status' = "TIMED_OUT"
  /\ UNCHANGED <<mapped, ranges, asked, multi, buffer, start, retval, wire, slips>>

\* The connection is closed or recycled: the end of this response.
Freed == pc = "freed" /\ UNCHANGED vars

Next ==
  \/ InitGet \/ TopFlush \/ SendChunk \/ ChunkNotSent \/ Done \/ Abandon
  \/ KeepReady \/ BlockRequest \/ FreeRequest \/ Wake \/ Freed

Spec == Init /\ [][Next]_vars
-----------------------------------------------------------------------------
\* The buffer never holds more than BUFFER_SIZE bytes, whatever is written to it.
TypeOK ==
  /\ pc \in {"init", "ready", "dispatch", "settle", "blocked", "freed"}
  /\ status \in {"WRITE", "IOSHUFFLE", "DONE", "TIMED_OUT", "DEAD"}
  /\ Len(buffer) <= BufferSize /\ start \in 0..BufferSize
  /\ retval \in {-1, 0, 1}

\* The client receives the bytes of the response in order, none skipped,
\* however the header, the parts and the file data alternate between the
\* buffer and direct writes, as long as no handler writes behind a short
\* flush.
InOrderUnlessShort == "short" \notin slips => IsPrefix(wire, Response(asked))

\* A response that ends without an error or a timeout has been received
\* whole, unless the buffer overflowed or free_request left bytes in it.
WholeUnlessCut ==
  /\ pc = "freed" /\ status = "DONE"
  /\ buffer = <<>> /\ "overflow" \notin slips
  => Len(wire) = Len(Response(asked))

\* No two ranges of the list share a byte.
Apart(rs) ==
  \A i, j \in DOMAIN rs : i # j => rs[i].stop < rs[j].start \/ rs[j].stop < rs[i].start

\* No byte of the response reaches the client twice, short flushes included,
\* unless it was asked for twice.
SentOnce == Apart(asked) => \A i, j \in 1..Len(wire) : wire[i] = wire[j] => i = j
=============================================================================
