------------------------ MODULE RequestLoopProofs ------------------------
(***************************************************************************)
(* Proofs about RequestLoop, for every set of request structures, every    *)
(* limit and every timeout: connections are accounted for, the state is    *)
(* well formed, and the loop implements ConnectionTable.  First, about the *)
(* handlers: every one leaves a well-formed request and returns -1, 0 or   *)
(* 1, so the default cases of process_requests' two switches ("Unknown     *)
(* status", "Unknown retval") are never taken.                             *)
(***************************************************************************)
EXTENDS RequestLoop, FiniteSetTheorems, TLAPS

\* The updates the handlers make, one field at a time.
LEMMA Updates ==
  ASSUME NEW c \in Request
  PROVE  /\ \A v \in Status : [c EXCEPT !.status = v] \in Request
         /\ \A v \in {"INACTIVE", "ACTIVE", "STOPPED"} : [c EXCEPT !.keepalive = v] \in Request
         /\ \A v \in Response : [c EXCEPT !.response = v] \in Request
         /\ \A v \in BOOLEAN : [c EXCEPT !.logline = v] \in Request
         /\ \A v \in BOOLEAN : [c EXCEPT !.buffer = v] \in Request
         /\ \A v \in BOOLEAN : [c EXCEPT !.post_data_fd = v] \in Request
         /\ \A v \in BOOLEAN : [c EXCEPT !.data_fd = v] \in Request
         /\ c.work > 0 => [c EXCEPT !.work = @ - 1] \in Request
         /\ SquashKa(c) \in Request
         /\ Die(c) \in Request
<1>1. c.work \in 0..MaxWork /\ MaxWork \in Nat
  BY HandlerAssumption DEF Request
<1>2. c.work > 0 => [c EXCEPT !.work = @ - 1] \in Request
  BY <1>1 DEF Request
<1>3. /\ \A v \in Status : [c EXCEPT !.status = v] \in Request
      /\ \A v \in {"INACTIVE", "ACTIVE", "STOPPED"} : [c EXCEPT !.keepalive = v] \in Request
      /\ \A v \in Response : [c EXCEPT !.response = v] \in Request
  BY DEF Request
<1>4. /\ \A v \in BOOLEAN : [c EXCEPT !.logline = v] \in Request
      /\ \A v \in BOOLEAN : [c EXCEPT !.buffer = v] \in Request
      /\ \A v \in BOOLEAN : [c EXCEPT !.post_data_fd = v] \in Request
      /\ \A v \in BOOLEAN : [c EXCEPT !.data_fd = v] \in Request
  BY DEF Request
<1>5. SquashKa(c) \in Request /\ Die(c) \in Request
  BY <1>3 DEF SquashKa, Die, Status
<1> QED BY <1>2, <1>3, <1>4, <1>5

LEMMA SanitizedType == \A n \in 0..KaMax : Sanitized(n) \in Request
BY HandlerAssumption DEF Sanitized, Request, Status, Response

LEMMA ReturnsType ==
  ASSUME NEW n \in {-1, 0, 1}, NEW S \in SUBSET Request
  PROVE  Returns(n, S) \subseteq Outcome
BY DEF Returns, Outcome

LEMMA MoreType ==
  ASSUME NEW S \in SUBSET Request
  PROVE  More(S) \subseteq Outcome
BY Updates, ReturnsType DEF More

LEMMA ReqWriteType ==
  ASSUME NEW c \in Request
  PROVE  ReqWrite(c) \subseteq Request
BY Updates DEF ReqWrite

LEMMA ReqFlushType ==
  ASSUME NEW c \in Request, NEW f \in ReqFlush(c)
  PROVE  f.ret \in {-2, -1, 0, 1} /\ f.req \in Request
<1>1. /\ [Die(c) EXCEPT !.buffer = FALSE] \in Request
      /\ [c EXCEPT !.buffer = FALSE] \in Request
  BY Updates
<1>2. f.req \in {c, [Die(c) EXCEPT !.buffer = FALSE], [c EXCEPT !.buffer = FALSE]}
  BY DEF ReqFlush
<1>3. f.ret \in {-2, -1, 0, 1}
  BY DEF ReqFlush
<1> QED BY <1>1, <1>2, <1>3

LEMMA FlushedType ==
  ASSUME NEW S \in SUBSET Request
  PROVE  Flushed(S) \subseteq Request
BY ReqFlushType DEF Flushed

LEMMA SendPageType ==
  ASSUME NEW c \in Request, NEW code \in Response
  PROVE  SendPage(c, code) \subseteq Request
<1> DEFINE d == [SquashKa(c) EXCEPT !.response = code]
<1>1. d \in Request
  BY Updates
<1>2. ReqWrite(d) \subseteq Request
  BY <1>1, ReqWriteType
<1> QED BY <1>2, FlushedType DEF SendPage

LEMMA PagesType ==
  ASSUME NEW c \in Request
  PROVE  Pages(c) \subseteq Outcome
BY SendPageType, ReturnsType DEF Pages, Response

LEMMA SendHeadersType ==
  ASSUME NEW c \in Request
  PROVE  SendHeaders(c) \subseteq Request
<1> DEFINE d == [c EXCEPT !.response = "below500"]
<1>1. d \in Request
  BY Updates DEF Response
<1> QED BY <1>1, ReqWriteType DEF SendHeaders

LEMMA CompleteResponseType ==
  ASSUME NEW c \in Request
  PROVE  CompleteResponse(c) \subseteq Outcome
<1>1. \A d \in Request : [d EXCEPT !.status = "DONE"] \in Request
  BY Updates DEF Status
<1>2. ReqWrite(c) \subseteq Request
  BY ReqWriteType
<1> DEFINE D == {[d EXCEPT !.status = "DONE"] : d \in ReqWrite(c)}
<1>3. D \subseteq Request
  BY <1>1, <1>2
<1>4. Flushed(D) \subseteq Request
  BY <1>3, FlushedType
<1> QED BY <1>1, <1>2, <1>4, ReturnsType, MoreType DEF CompleteResponse
LEMMA InitCgiType ==
  ASSUME NEW c \in Request
  PROVE  InitCgi(c) \subseteq Outcome
<1> DEFINE s == SquashKa(c)
           forked == [s EXCEPT !.post_data_fd = FALSE]
           reading == [forked EXCEPT !.status = "PIPE_READ", !.data_fd = TRUE]
<1>1. s \in Request /\ forked \in Request
  BY Updates
<1>2. reading \in Request
  BY <1>1 DEF Request, Status
<1>3. SendPage(s, "5xx") \subseteq Request
  BY <1>1, SendPageType DEF Response
<1>4. Returns(0, {s}) \subseteq Outcome /\ Returns(0, {forked}) \subseteq Outcome
  BY <1>1, ReturnsType
<1>5. Returns(1, {reading}) \subseteq Outcome /\ Returns(0, SendPage(s, "5xx")) \subseteq Outcome
  BY <1>2, <1>3, ReturnsType
<1> QED BY <1>4, <1>5 DEF InitCgi

LEMMA ProcessCgiHeaderType ==
  ASSUME NEW c \in Request
  PROVE  ProcessCgiHeader(c) \subseteq Outcome
<1> DEFINE W == UNION {ReqWrite(d) : d \in SendHeaders(c)}
           D == {[d EXCEPT !.status = "DONE"] : d \in SendPage(c, "below500")}
<1>1. SendPage(c, "5xx") \subseteq Request /\ SendPage(c, "below500") \subseteq Request
  BY SendPageType DEF Response
<1>2. \A d \in Request : [d EXCEPT !.status = "DONE"] \in Request
  BY Updates DEF Status
<1>3. D \subseteq Request
  BY <1>1, <1>2
<1>4. W \subseteq Request
  BY SendHeadersType, ReqWriteType
<1>5. Flushed(W) \subseteq Request
  BY <1>4, FlushedType
<1>6. Returns(0, SendPage(c, "5xx")) \subseteq Outcome /\ Returns(1, D) \subseteq Outcome
  BY <1>1, <1>3, ReturnsType
<1>7. Returns(0, Flushed(W)) \subseteq Outcome /\ More(Flushed(W)) \subseteq Outcome
  BY <1>5, ReturnsType, MoreType
<1>8. More({c}) \subseteq Outcome
  BY MoreType
<1> QED BY <1>6, <1>7, <1>8 DEF ProcessCgiHeader

LEMMA InitGeneratedType ==
  ASSUME NEW c \in Request
  PROVE  InitGenerated(c) \subseteq Outcome
<1> DEFINE sent == Flushed(SendHeaders(c) \cup SendHeaders(SquashKa(c)))
<1>1. SendHeaders(c) \cup SendHeaders(SquashKa(c)) \subseteq Request
  BY Updates, SendHeadersType
<1>2. sent \subseteq Request
  BY <1>1, FlushedType
<1>3. Returns(0, sent) \subseteq Outcome
  BY <1>2, ReturnsType
<1>4. \A d \in sent : InitCgi(d) \subseteq Outcome
  BY <1>2, InitCgiType
<1> QED BY <1>3, <1>4 DEF InitGenerated

LEMMA InitFileType ==
  ASSUME NEW c \in Request
  PROVE  InitFile(c) \subseteq Outcome
<1> DEFINE opened == {c, [c EXCEPT !.status = "IOSHUFFLE", !.data_fd = TRUE]}
           headed == UNION {SendHeaders(d) : d \in opened}
           small == {e \in headed : ~e.data_fd}
<1>1. opened \subseteq Request
  <2>1. [c EXCEPT !.status = "IOSHUFFLE"] \in Request
    BY Updates DEF Status
  <2>2. [[c EXCEPT !.status = "IOSHUFFLE"] EXCEPT !.data_fd = TRUE] \in Request
    BY <2>1, Updates
  <2>3. [[c EXCEPT !.status = "IOSHUFFLE"] EXCEPT !.data_fd = TRUE]
          = [c EXCEPT !.status = "IOSHUFFLE", !.data_fd = TRUE]
    OBVIOUS
  <2> QED BY <2>2, <2>3
<1>2. headed \subseteq Request
  BY <1>1, SendHeadersType
<1>3. \A d \in Request : /\ [d EXCEPT !.buffer = TRUE] \in Request
                        /\ [d EXCEPT !.buffer = FALSE] \in Request
  BY Updates
<1> DEFINE filled == {[d EXCEPT !.buffer = TRUE] : d \in small}
<1>4. filled \subseteq Request
  BY <1>2, <1>3
<1>5. \A d \in Request : /\ Returns(0, SendPage(d, "below500")) \subseteq Outcome
                        /\ Returns(0, SendPage(d, "5xx")) \subseteq Outcome
                        /\ CompleteResponse(d) \subseteq Outcome
  BY SendPageType, ReturnsType, CompleteResponseType DEF Response
<1>6. Returns(1, headed) \subseteq Outcome /\ Returns(1, filled) \subseteq Outcome
  BY <1>2, <1>4, ReturnsType
<1>7. (UNION {Returns(0, SendPage(d, "below500")) : d \in opened}) \subseteq Outcome
  BY <1>1, <1>5
<1>8. (UNION {CompleteResponse(d) : d \in headed}) \subseteq Outcome
  BY <1>2, <1>5
<1>9. (UNION {CompleteResponse([d EXCEPT !.buffer = TRUE]) : d \in small}) \subseteq Outcome
  BY <1>2, <1>3, <1>5
<1>10. (UNION {Returns(0, SendPage([d EXCEPT !.buffer = FALSE], "5xx")) : d \in small})
          \subseteq Outcome
  BY <1>2, <1>3, <1>5
<1> QED BY <1>6, <1>7, <1>8, <1>9, <1>10 DEF InitFile

LEMMA InitGetType ==
  ASSUME NEW c \in Request
  PROVE  InitGet(c) \subseteq Outcome
<1>1. Returns(0, SendHeaders(c)) \subseteq Outcome
  BY SendHeadersType, ReturnsType
<1> QED BY <1>1, PagesType, InitGeneratedType, InitFileType DEF InitGet

\* process_get, io_shuffle_sendfile and write_from_pipe.
LEMMA SendType ==
  ASSUME NEW c \in Request
  PROVE  /\ ProcessGet(c) \subseteq Outcome
         /\ IoShuffleSendfile(c) \subseteq Outcome
         /\ WriteFromPipe(c) \subseteq Outcome
<1>1. Die(c) \in Request /\ [c EXCEPT !.status = "PIPE_READ"] \in Request
  BY Updates DEF Status
<1>2. /\ Returns(0, {Die(c)}) \subseteq Outcome
      /\ Returns(0, {c, Die(c)}) \subseteq Outcome
      /\ Returns(-1, {c}) \subseteq Outcome
  BY <1>1, ReturnsType
<1>3. /\ More({c}) \subseteq Outcome
      /\ More({c, [c EXCEPT !.status = "PIPE_READ"]}) \subseteq Outcome
  BY <1>1, MoreType
<1> QED
  BY <1>2, <1>3, CompleteResponseType
  DEF ProcessGet, IoShuffleSendfile, WriteFromPipe

LEMMA ParsedType ==
  ASSUME NEW c \in Request
  PROVE  Parsed(c) \subseteq Request
<1>1. \A d \in Request : d.keepalive \in {"INACTIVE", "ACTIVE", "STOPPED"}
  BY DEF Request
<1>2. ASSUME NEW d \in Request
      PROVE  ProcessOptionLine(d) \subseteq Request
  <2>1. ASSUME NEW k \in {d.keepalive, "ACTIVE", "STOPPED"}
        PROVE  [d EXCEPT !.keepalive = k] \in Request
    <3>1. k \in {"INACTIVE", "ACTIVE", "STOPPED"}
      BY <1>1
    <3> QED BY <3>1, Updates
  <2> QED BY <2>1 DEF ProcessOptionLine
<1>3. ASSUME NEW k \in {"INACTIVE", "ACTIVE", "STOPPED"}
      PROVE  [c EXCEPT !.logline = TRUE, !.keepalive = k] \in Request
  BY DEF Request
<1>4. ProcessLogline(c) \subseteq Request
  BY <1>1, <1>3 DEF ProcessLogline
<1> QED BY <1>2, <1>4 DEF Parsed

LEMMA ProcessHeaderEndType ==
  ASSUME NEW c \in Request
  PROVE  ProcessHeaderEnd(c) \subseteq Outcome
<1> DEFINE b == [c EXCEPT !.status = "BODY_READ"]
           p == [c EXCEPT !.status = "BODY_WRITE", !.post_data_fd = TRUE,
                          !.orphan = @ \/ c.post_data_fd]
           again == [p EXCEPT !.status = c.status]
           without == [p EXCEPT !.status = "BODY_READ", !.post_data_fd = FALSE]
           get == [c EXCEPT !.status = "WRITE"]
<1>1. b \in Request /\ p \in Request /\ get \in Request
  BY DEF Request, Status
<1>2. c.status \in Status
  BY DEF Request
<1> HIDE DEF b, p, get
<1>3. again \in Request /\ without \in Request /\ SquashKa(b) \in Request
  <2>1. again \in Request /\ SquashKa(b) \in Request
    BY <1>1, <1>2, Updates
  <2>2. without \in Request
    BY <1>1 DEF Request, Status
  <2> QED BY <2>1, <2>2
<1> HIDE DEF again, without
<1>4. Pages(b) \subseteq Outcome /\ Pages(p) \subseteq Outcome
  BY <1>1, PagesType
<1>5. /\ Returns(0, {SquashKa(b)}) \subseteq Outcome /\ Returns(1, {p}) \subseteq Outcome
      /\ Returns(0, SendPage(without, "5xx")) \subseteq Outcome
  BY <1>1, <1>3, ReturnsType, SendPageType DEF Response
<1>6. More({again}) \subseteq Outcome
  BY <1>3, MoreType
<1>7. InitCgi(b) \subseteq Outcome /\ InitGet(get) \subseteq Outcome
  BY <1>1, InitCgiType, InitGetType
<1>8. ProcessHeaderEnd(c)
        = Pages(b) \cup Pages(p) \cup Returns(0, {SquashKa(b)})
            \cup Returns(0, SendPage(without, "5xx")) \cup Returns(1, {p})
            \cup More({again}) \cup InitCgi(b) \cup InitGet(get)
  BY Zenon DEF ProcessHeaderEnd, b, p, again, without, get
<1> QED BY <1>4, <1>5, <1>6, <1>7, <1>8

LEMMA ReadHeaderType ==
  ASSUME NEW c \in Request
  PROVE  ReadHeader(c) \subseteq Outcome
<1>1. SUFFICES ASSUME NEW d \in Request, NEW o,
                      \/ o \in Pages(d)
                      \/ o \in IF d.logline THEN Returns(0, {d}) \cup ProcessHeaderEnd(d) ELSE {}
                      \/ o \in Returns(0, {[Die(d) EXCEPT !.response = "below500"]})
                      \/ o \in Returns(0, {[d EXCEPT !.response = "below500"]})
                      \/ o \in Returns(-1, {d})
                      \/ o \in More({d})
               PROVE  o \in Outcome
  BY ParsedType DEF ReadHeader
<1>3. /\ [Die(d) EXCEPT !.response = "below500"] \in Request
      /\ [d EXCEPT !.response = "below500"] \in Request
  BY Updates DEF Response
<1>4. /\ Returns(0, {[Die(d) EXCEPT !.response = "below500"]}) \subseteq Outcome
      /\ Returns(0, {[d EXCEPT !.response = "below500"]}) \subseteq Outcome
      /\ Returns(0, {d}) \subseteq Outcome
      /\ Returns(-1, {d}) \subseteq Outcome
  BY <1>3, ReturnsType
<1> QED BY <1>1, <1>4, PagesType, MoreType, ProcessHeaderEndType

LEMMA BodyType ==
  ASSUME NEW c \in Request
  PROVE  ReadBody(c) \subseteq Outcome /\ WriteBody(c) \subseteq Outcome
<1> DEFINE w == [c EXCEPT !.status = "BODY_WRITE"]
           r == [c EXCEPT !.status = "BODY_READ"]
           e == [c EXCEPT !.response = "below500"]
<1>1. w \in Request /\ r \in Request /\ e \in Request
  BY Updates DEF Status, Response
<1>2. SendPage(c, "below500") \subseteq Request /\ SendPage(c, "5xx") \subseteq Request
  BY SendPageType DEF Response
<1>3. /\ Returns(0, SendPage(c, "below500")) \subseteq Outcome
      /\ Returns(0, SendPage(c, "5xx")) \subseteq Outcome
      /\ Returns(-1, {c}) \subseteq Outcome
      /\ Returns(0, {e}) \subseteq Outcome
      /\ Returns(1, {r}) \subseteq Outcome
  BY <1>1, <1>2, ReturnsType
<1>4. More({w}) \subseteq Outcome /\ More({c}) \subseteq Outcome
  BY <1>1, MoreType
<1>5. InitCgi(c) \subseteq Outcome
  BY InitCgiType
<1>6. ReadBody(c) \subseteq Outcome
  BY <1>3, <1>4 DEF ReadBody
<1>7. WriteBody(c) \subseteq Outcome
  BY <1>3, <1>4, <1>5 DEF WriteBody
<1> QED BY <1>6, <1>7

LEMMA ReadFromPipeType ==
  ASSUME NEW c \in Request
  PROVE  ReadFromPipe(c) \subseteq Outcome
<1> DEFINE w == [c EXCEPT !.status = "PIPE_WRITE"]
<1>1. w \in Request /\ Die(c) \in Request
  BY Updates DEF Status
<1>2. ProcessCgiHeader(c) \subseteq Outcome /\ ProcessCgiHeader(w) \subseteq Outcome
  BY <1>1, ProcessCgiHeaderType
<1>3. /\ Returns(1, {w}) \subseteq Outcome
      /\ Returns(-1, {c}) \subseteq Outcome
      /\ Returns(0, {Die(c)}) \subseteq Outcome
  BY <1>1, ReturnsType
<1> QED BY <1>2, <1>3, SendType DEF ReadFromPipe

\* What the flush of an unfinished request leads to, in the DONE case and at
\* the top of the loop body.
LEMMA FlushStepType ==
  ASSUME NEW c \in Request, NEW f \in ReqFlush(c)
  PROVE  /\ f.ret \in {-2, -1, 0, 1} /\ f.req \in Request
         /\ Returns(0, {Die(f.req)}) \subseteq Outcome
         /\ More({f.req}) \subseteq Outcome
         /\ f.ret # -2 => f \in Outcome
<1>1. f.ret \in {-2, -1, 0, 1} /\ f.req \in Request
  BY ReqFlushType
<1>2. Die(f.req) \in Request
  BY <1>1, Updates
<1>3. f = [ret |-> f.ret, req |-> f.req]
  BY DEF ReqFlush
<1>4. f.ret # -2 => f \in Outcome
  BY <1>1, <1>3 DEF Outcome
<1> QED BY <1>1, <1>2, <1>4, ReturnsType, MoreType

LEMMA FinishDoneType ==
  ASSUME NEW c \in Request
  PROVE  FinishDone(c) \subseteq Outcome
BY FlushStepType DEF FinishDone

LEMMA DispatchType ==
  ASSUME NEW c \in Request
  PROVE  Dispatch(c) \subseteq Outcome
<1>1. [SquashKa(c) EXCEPT !.buffer = FALSE] \in Request
  BY Updates
<1>2. Returns(0, {[SquashKa(c) EXCEPT !.buffer = FALSE]}) \subseteq Outcome
  BY <1>1, ReturnsType
<1> QED
  BY <1>2, ReadHeaderType, BodyType, SendType, ReadFromPipeType, FinishDoneType DEF Dispatch

\* One turn of process_requests leaves a well-formed request and a return value
\* its second switch knows, whatever the reads, writes and forks return.
THEOREM ProcessType ==
  ASSUME NEW c \in Request
  PROVE  Process(c) \subseteq Outcome
<1>1. \A f \in ReqFlush(c) : Dispatch(f.req) \subseteq Outcome
  BY FlushStepType, DispatchType
<1>2. \A f \in ReqFlush(c) :
        (CASE f.ret = -2 -> Returns(0, {Die(f.req)})
           [] f.ret = -1 -> {f}
           [] OTHER      -> Dispatch(f.req)) \subseteq Outcome
  <2> TAKE f \in ReqFlush(c)
  <2>1. CASE f.ret = -2
    <3>1. Returns(0, {Die(f.req)}) \subseteq Outcome
      BY FlushStepType
    <3> QED BY <2>1, <3>1
  <2>2. CASE f.ret = -1
    <3>1. f.ret # -2
      BY <2>2
    <3>2. f \in Outcome
      BY <3>1, FlushStepType, Zenon
    <3> QED BY <2>2, <3>2
  <2>3. CASE f.ret # -2 /\ f.ret # -1
    BY <1>1, <2>3
  <2> QED BY <2>1, <2>2, <2>3
<1> QED BY <1>2, DispatchType DEF Process

LEMMA FinalFlushType ==
  ASSUME NEW c \in Request, NEW f \in FinalFlush(c)
  PROVE  f.ret \in {-2, -1, 0, 1} /\ f.req \in Request
<1>1. [c EXCEPT !.status = "DONE"] \in Request
  BY Updates DEF Status
<1>2. CASE c.buffer /\ Alive(c)
  BY <1>1, <1>2, ReqFlushType DEF FinalFlush
<1>3. CASE ~(c.buffer /\ Alive(c))
  BY <1>3 DEF FinalFlush
<1> QED BY <1>2, <1>3
-----------------------------------------------------------------------------
(* What handlers keep: the keep-alive allowance, and the descriptor a status *)
(* goes with.                                                                *)

\* A request that will read from or write to a descriptor has it open.
Shape(c) ==
  /\ c.status \in {"PIPE_READ", "PIPE_WRITE"} => c.data_fd
  /\ c.status \in {"BODY_READ", "BODY_WRITE"} => c.post_data_fd

\* Requests with n recyclings left; those of them that are also in shape; and
\* the outcomes that leave the first, and the second unless the request is
\* over.
Counted(n) == {d \in Request : d.kacount = n}
Shaped(n) == {d \in Counted(n) : Shape(d)}
Sound(n) == {o \in Outcome : o.req \in Counted(n) /\ (o.ret # 0 => Shape(o.req))}

\* A set of requests that the updates common to most handlers do not leave.
Closed(X) ==
  /\ X \subseteq Request
  /\ \A d \in X :
       /\ [d EXCEPT !.response = "below500"] \in X
       /\ [d EXCEPT !.response = "5xx"] \in X
       /\ [d EXCEPT !.buffer = TRUE] \in X
       /\ [d EXCEPT !.buffer = FALSE] \in X
       /\ [d EXCEPT !.status = "DONE"] \in X
       /\ Die(d) \in X
       /\ SquashKa(d) \in X

LEMMA ClosedCounted == \A n : Closed(Counted(n))
<1> SUFFICES ASSUME NEW n, NEW d \in Counted(n)
             PROVE  /\ [d EXCEPT !.response = "below500"] \in Counted(n)
                    /\ [d EXCEPT !.response = "5xx"] \in Counted(n)
                    /\ [d EXCEPT !.buffer = TRUE] \in Counted(n)
                    /\ [d EXCEPT !.buffer = FALSE] \in Counted(n)
                    /\ [d EXCEPT !.status = "DONE"] \in Counted(n)
                    /\ Die(d) \in Counted(n)
                    /\ SquashKa(d) \in Counted(n)
  BY DEF Closed, Counted
<1>1. d \in Request
  BY DEF Counted
<1>2. /\ [d EXCEPT !.response = "below500"] \in Request
      /\ [d EXCEPT !.response = "5xx"] \in Request
      /\ [d EXCEPT !.buffer = TRUE] \in Request
      /\ [d EXCEPT !.buffer = FALSE] \in Request
      /\ [d EXCEPT !.status = "DONE"] \in Request
      /\ Die(d) \in Request
      /\ SquashKa(d) \in Request
  BY <1>1, Updates DEF Response, Status
<1> QED BY <1>1, <1>2 DEF Counted, Request, Die, SquashKa

LEMMA ClosedShaped == \A n : Closed(Shaped(n))
<1> SUFFICES ASSUME NEW n, NEW d \in Shaped(n)
             PROVE  /\ Shape([d EXCEPT !.response = "below500"])
                    /\ Shape([d EXCEPT !.response = "5xx"])
                    /\ Shape([d EXCEPT !.buffer = TRUE])
                    /\ Shape([d EXCEPT !.buffer = FALSE])
                    /\ Shape([d EXCEPT !.status = "DONE"])
                    /\ Shape(Die(d))
                    /\ Shape(SquashKa(d))
  BY ClosedCounted DEF Closed, Shaped
<1>1. d \in Request /\ Shape(d)
  BY DEF Shaped, Counted
<1> QED BY <1>1 DEF Shape, Request, Die, SquashKa


\* buffer.c and response.c, for any such set.
LEMMA ClosedReqWrite ==
  ASSUME NEW X, Closed(X), NEW c \in X
  PROVE  ReqWrite(c) \subseteq X
BY DEF Closed, ReqWrite

LEMMA ClosedReqFlush ==
  ASSUME NEW X, Closed(X), NEW c \in X, NEW f \in ReqFlush(c)
  PROVE  f.req \in X
<1>1. Die(c) \in X /\ [c EXCEPT !.buffer = FALSE] \in X
  BY DEF Closed
<1>2. [Die(c) EXCEPT !.buffer = FALSE] \in X
  BY <1>1 DEF Closed
<1>3. f.req \in {c, [Die(c) EXCEPT !.buffer = FALSE], [c EXCEPT !.buffer = FALSE]}
  BY DEF ReqFlush
<1> QED BY <1>1, <1>2, <1>3

LEMMA ClosedFlushed ==
  ASSUME NEW X, Closed(X), NEW S \in SUBSET X
  PROVE  Flushed(S) \subseteq X
BY ClosedReqFlush DEF Flushed

LEMMA ClosedSendPage ==
  ASSUME NEW X, Closed(X), NEW c \in X, NEW code \in {"below500", "5xx"}
  PROVE  SendPage(c, code) \subseteq X
<1> DEFINE d == [SquashKa(c) EXCEPT !.response = code]
<1>1. SquashKa(c) \in X
  BY DEF Closed
<1>2. d \in X
  BY <1>1 DEF Closed
<1>3. ReqWrite(d) \subseteq X
  BY <1>2, ClosedReqWrite
<1> QED BY <1>3, ClosedFlushed DEF SendPage

LEMMA ClosedSendHeaders ==
  ASSUME NEW X, Closed(X), NEW c \in X
  PROVE  SendHeaders(c) \subseteq X
<1> DEFINE d == [c EXCEPT !.response = "below500"]
<1>1. d \in X
  BY DEF Closed
<1> QED BY <1>1, ClosedReqWrite DEF SendHeaders

\* Returning with requests in shape, and being over with any.
LEMMA SoundReturns ==
  ASSUME NEW n, NEW m \in {-1, 0, 1}, NEW S \in SUBSET Counted(n),
         m # 0 => S \subseteq Shaped(n)
  PROVE  Returns(m, S) \subseteq Sound(n)
<1>1. Returns(m, S) \subseteq Outcome
  BY ReturnsType DEF Counted
<1> QED BY <1>1 DEF Returns, Sound, Shaped

LEMMA SoundMore ==
  ASSUME NEW n, NEW S \in SUBSET Shaped(n)
  PROVE  More(S) \subseteq Sound(n)
<1> DEFINE T == {[d EXCEPT !.work = @ - 1] : d \in {e \in S : e.work > 0}}
<1>1. ASSUME NEW d \in S, d.work > 0
      PROVE  [d EXCEPT !.work = @ - 1] \in Shaped(n)
  <2>1. d \in Request /\ Shape(d) /\ d.kacount = n
    BY DEF Shaped, Counted
  <2>2. [d EXCEPT !.work = @ - 1] \in Request
    BY <1>1, <2>1, Updates
  <2> QED BY <2>1, <2>2 DEF Shaped, Counted, Shape, Request
<1>2. T \subseteq Shaped(n) /\ T \subseteq Counted(n)
  BY <1>1 DEF Shaped
<1> QED BY <1>2, SoundReturns DEF More

\* The pages of an error: the request is over.
LEMMA SoundPage ==
  ASSUME NEW n, NEW c \in Counted(n), NEW code \in {"below500", "5xx"}
  PROVE  Returns(0, SendPage(c, code)) \subseteq Sound(n)
BY ClosedCounted, ClosedSendPage, SoundReturns

LEMMA SoundPages ==
  ASSUME NEW n, NEW c \in Counted(n)
  PROVE  Pages(c) \subseteq Sound(n)
<1>1. Pages(c) = Returns(0, SendPage(c, "below500")) \cup Returns(0, SendPage(c, "5xx"))
  BY DEF Pages, Returns
<1> QED BY <1>1, SoundPage

LEMMA SoundCompleteResponse ==
  ASSUME NEW n, NEW c \in Shaped(n)
  PROVE  CompleteResponse(c) \subseteq Sound(n)
<1>1. \A d \in Shaped(n) : [d EXCEPT !.status = "DONE"] \in Shaped(n)
  BY ClosedShaped DEF Closed
<1>2. ReqWrite(c) \subseteq Shaped(n)
  BY ClosedShaped, ClosedReqWrite
<1> DEFINE D == {[d EXCEPT !.status = "DONE"] : d \in ReqWrite(c)}
<1>3. D \subseteq Shaped(n)
  BY <1>1, <1>2
<1>4. Flushed(D) \subseteq Shaped(n)
  BY <1>3, ClosedShaped, ClosedFlushed
<1>5. Shaped(n) \subseteq Counted(n)
  BY DEF Shaped
<1>6. /\ Returns(0, {[c EXCEPT !.status = "DONE"]}) \subseteq Sound(n)
      /\ Returns(1, Flushed(D)) \subseteq Sound(n)
  BY <1>1, <1>4, <1>5, SoundReturns
<1>7. More(ReqWrite(c)) \subseteq Sound(n)
  BY <1>2, SoundMore
<1> QED BY <1>6, <1>7 DEF CompleteResponse

\* cgi.c and cgi_header.c.  InitCgi opens the pipe it will read from.
LEMMA SoundInitCgi ==
  ASSUME NEW n, NEW c \in Counted(n)
  PROVE  InitCgi(c) \subseteq Sound(n)
<1> DEFINE s == SquashKa(c)
           forked == [s EXCEPT !.post_data_fd = FALSE]
           reading == [forked EXCEPT !.status = "PIPE_READ", !.data_fd = TRUE]
<1>1. s \in Counted(n)
  BY ClosedCounted DEF Closed
<1> HIDE DEF s
<1>2. forked \in Counted(n)
  BY <1>1 DEF Counted, Request
<1> HIDE DEF forked
<1>3. reading \in Counted(n) /\ Shape(reading)
  BY <1>2 DEF Counted, Request, Status, Shape
<1> HIDE DEF reading
<1>4. Returns(0, {s}) \subseteq Sound(n) /\ Returns(0, {forked}) \subseteq Sound(n)
  BY <1>1, <1>2, SoundReturns
<1>5. Returns(1, {reading}) \subseteq Sound(n)
  BY <1>3, SoundReturns DEF Shaped
<1>6. Returns(0, SendPage(s, "5xx")) \subseteq Sound(n)
  BY <1>1, SoundPage
<1> QED BY <1>4, <1>5, <1>6 DEF InitCgi, s, forked, reading

LEMMA SoundProcessCgiHeader ==
  ASSUME NEW n, NEW c \in Shaped(n)
  PROVE  ProcessCgiHeader(c) \subseteq Sound(n)
<1> DEFINE W == UNION {ReqWrite(d) : d \in SendHeaders(c)}
           D == {[d EXCEPT !.status = "DONE"] : d \in SendPage(c, "below500")}
<1>0. c \in Counted(n) /\ Shaped(n) \subseteq Counted(n)
  BY DEF Shaped
<1>1. SendPage(c, "below500") \subseteq Shaped(n) /\ SendHeaders(c) \subseteq Shaped(n)
  BY ClosedShaped, ClosedSendPage, ClosedSendHeaders
<1>2. D \subseteq Shaped(n)
  BY <1>1, ClosedShaped DEF Closed
<1>3. W \subseteq Shaped(n)
  BY <1>1, ClosedShaped, ClosedReqWrite
<1>4. Flushed(W) \subseteq Shaped(n)
  BY <1>3, ClosedShaped, ClosedFlushed
<1>5. Returns(0, SendPage(c, "5xx")) \subseteq Sound(n)
  BY <1>0, SoundPage
<1>6. Returns(1, D) \subseteq Sound(n) /\ Returns(0, Flushed(W)) \subseteq Sound(n)
  BY <1>0, <1>2, <1>4, SoundReturns
<1>7. More(Flushed(W)) \subseteq Sound(n) /\ More({c}) \subseteq Sound(n)
  BY <1>4, SoundMore
<1> QED BY <1>5, <1>6, <1>7 DEF ProcessCgiHeader

\* get.c.
LEMMA SoundInitGenerated ==
  ASSUME NEW n, NEW c \in Counted(n)
  PROVE  InitGenerated(c) \subseteq Sound(n)
<1> DEFINE sent == Flushed(SendHeaders(c) \cup SendHeaders(SquashKa(c)))
<1>1. SquashKa(c) \in Counted(n)
  BY ClosedCounted DEF Closed
<1>2. SendHeaders(c) \cup SendHeaders(SquashKa(c)) \subseteq Counted(n)
  BY <1>1, ClosedCounted, ClosedSendHeaders
<1>3. sent \subseteq Counted(n)
  BY <1>2, ClosedCounted, ClosedFlushed
<1>4. Returns(0, sent) \subseteq Sound(n)
  BY <1>3, SoundReturns
<1>5. \A d \in sent : InitCgi(d) \subseteq Sound(n)
  BY <1>3, SoundInitCgi
<1> QED BY <1>4, <1>5 DEF InitGenerated

LEMMA SoundInitFile ==
  ASSUME NEW n, NEW c \in Shaped(n)
  PROVE  InitFile(c) \subseteq Sound(n)
<1> DEFINE shuffled == [c EXCEPT !.status = "IOSHUFFLE", !.data_fd = TRUE]
           opened == {c, shuffled}
           headed == UNION {SendHeaders(d) : d \in opened}
           small == {e \in headed : ~e.data_fd}
           filled == {[d EXCEPT !.buffer = TRUE] : d \in small}
<1>0. Shaped(n) \subseteq Counted(n)
  BY DEF Shaped
<1>1. shuffled \in Shaped(n)
  BY DEF Shaped, Counted, Shape, Request, Status
<1> HIDE DEF shuffled
<1>2. opened \subseteq Shaped(n)
  BY <1>1
<1>3. headed \subseteq Shaped(n)
  BY <1>2, ClosedShaped, ClosedSendHeaders
<1>4. \A d \in Shaped(n) : /\ [d EXCEPT !.buffer = TRUE] \in Shaped(n)
                          /\ [d EXCEPT !.buffer = FALSE] \in Shaped(n)
  BY ClosedShaped DEF Closed
<1>5. filled \subseteq Shaped(n)
  BY <1>3, <1>4
<1>6. \A d \in Shaped(n) : /\ Returns(0, SendPage(d, "below500")) \subseteq Sound(n)
                          /\ Returns(0, SendPage(d, "5xx")) \subseteq Sound(n)
                          /\ CompleteResponse(d) \subseteq Sound(n)
  BY <1>0, SoundPage, SoundCompleteResponse
<1>7. Returns(1, headed) \subseteq Sound(n) /\ Returns(1, filled) \subseteq Sound(n)
  BY <1>0, <1>3, <1>5, SoundReturns
<1>8. (UNION {Returns(0, SendPage(d, "below500")) : d \in opened}) \subseteq Sound(n)
  BY <1>2, <1>6
<1>9. (UNION {CompleteResponse(d) : d \in headed}) \subseteq Sound(n)
  BY <1>3, <1>6
<1>10. (UNION {CompleteResponse([d EXCEPT !.buffer = TRUE]) : d \in small}) \subseteq Sound(n)
  BY <1>3, <1>4, <1>6
<1>11. (UNION {Returns(0, SendPage([d EXCEPT !.buffer = FALSE], "5xx")) : d \in small})
          \subseteq Sound(n)
  BY <1>3, <1>4, <1>6
<1> QED BY <1>7, <1>8, <1>9, <1>10, <1>11 DEF InitFile, shuffled

LEMMA SoundInitGet ==
  ASSUME NEW n, NEW c \in Shaped(n)
  PROVE  InitGet(c) \subseteq Sound(n)
<1>1. c \in Counted(n)
  BY DEF Shaped
<1>2. SendHeaders(c) \subseteq Counted(n)
  BY <1>1, ClosedCounted, ClosedSendHeaders
<1>3. Returns(0, SendHeaders(c)) \subseteq Sound(n)
  BY <1>2, SoundReturns
<1> QED BY <1>1, <1>3, SoundPages, SoundInitGenerated, SoundInitFile DEF InitGet

\* process_get, io_shuffle_sendfile and write_from_pipe.
LEMMA SoundSend ==
  ASSUME NEW n, NEW c \in Shaped(n)
  PROVE  /\ ProcessGet(c) \subseteq Sound(n)
         /\ IoShuffleSendfile(c) \subseteq Sound(n)
         /\ c.data_fd => WriteFromPipe(c) \subseteq Sound(n)
<1>0. c \in Counted(n) /\ Shaped(n) \subseteq Counted(n)
  BY DEF Shaped
<1>1. Die(c) \in Shaped(n)
  BY ClosedShaped DEF Closed
<1>2. c.data_fd => [c EXCEPT !.status = "PIPE_READ"] \in Shaped(n)
  BY DEF Shaped, Counted, Shape, Request, Status
<1>3. /\ Returns(0, {Die(c)}) \subseteq Sound(n)
      /\ Returns(0, {c, Die(c)}) \subseteq Sound(n)
      /\ Returns(-1, {c}) \subseteq Sound(n)
  BY <1>0, <1>1, SoundReturns
<1>4. /\ More({c}) \subseteq Sound(n)
      /\ c.data_fd => More({c, [c EXCEPT !.status = "PIPE_READ"]}) \subseteq Sound(n)
  BY <1>2, SoundMore
<1> QED
  BY <1>3, <1>4, SoundCompleteResponse DEF ProcessGet, IoShuffleSendfile, WriteFromPipe

\* request.c and read.c.
LEMMA SoundParsed ==
  ASSUME NEW n, NEW c \in Shaped(n), c.status = "READ_HEADER", NEW d \in Parsed(c)
  PROVE  d \in Shaped(n) /\ d.status = "READ_HEADER"
<1>1. d \in Request
  BY ParsedType DEF Shaped, Counted
<1>2. ASSUME NEW e \in Counted(n), e.status = "READ_HEADER", NEW g \in ProcessOptionLine(e)
      PROVE  g.status = "READ_HEADER" /\ g.kacount = n
  BY <1>2 DEF ProcessOptionLine, Counted, Request
<1>3. ASSUME NEW e \in ProcessLogline(c)
      PROVE  e \in Counted(n) /\ e.status = "READ_HEADER"
  <2>1. \A d1 \in Request : d1.keepalive \in {"INACTIVE", "ACTIVE", "STOPPED"}
    BY DEF Request
  <2> QED BY <2>1, ZenonT(30) DEF ProcessLogline, Shaped, Counted, Request
<1>4. d.status = "READ_HEADER" /\ d.kacount = n
  BY <1>2, <1>3 DEF Parsed, Shaped, Counted
<1> QED BY <1>1, <1>4 DEF Shaped, Counted, Shape

LEMMA SoundProcessHeaderEnd ==
  ASSUME NEW n, NEW c \in Shaped(n), c.status = "READ_HEADER"
  PROVE  ProcessHeaderEnd(c) \subseteq Sound(n)
<1> DEFINE b == [c EXCEPT !.status = "BODY_READ"]
           p == [c EXCEPT !.status = "BODY_WRITE", !.post_data_fd = TRUE,
                          !.orphan = @ \/ c.post_data_fd]
           again == [p EXCEPT !.status = c.status]
           without == [p EXCEPT !.status = "BODY_READ", !.post_data_fd = FALSE]
           get == [c EXCEPT !.status = "WRITE"]
<1>0. Shaped(n) \subseteq Counted(n)
  BY DEF Shaped
<1>1. b \in Counted(n) /\ p \in Shaped(n) /\ get \in Shaped(n)
  BY ZenonT(30) DEF Shaped, Counted, Shape, Request, Status
<1> HIDE DEF b, p, get
<1>2. again \in Shaped(n) /\ without \in Counted(n)
  BY <1>1, ZenonT(30) DEF Shaped, Counted, Shape, Request, Status
<1> HIDE DEF again, without
<1>3. SquashKa(b) \in Counted(n)
  BY <1>1, ClosedCounted DEF Closed
<1>4. Pages(b) \subseteq Sound(n) /\ Pages(p) \subseteq Sound(n)
  BY <1>0, <1>1, SoundPages
<1>5. /\ Returns(0, {SquashKa(b)}) \subseteq Sound(n)
      /\ Returns(0, SendPage(without, "5xx")) \subseteq Sound(n)
  BY <1>2, <1>3, SoundReturns, SoundPage
<1>6. Returns(1, {p}) \subseteq Sound(n)
  BY <1>0, <1>1, SoundReturns
<1>7. More({again}) \subseteq Sound(n)
  BY <1>2, SoundMore
<1>8. InitCgi(b) \subseteq Sound(n) /\ InitGet(get) \subseteq Sound(n)
  BY <1>1, SoundInitCgi, SoundInitGet
<1>9. ProcessHeaderEnd(c)
        = Pages(b) \cup Pages(p) \cup Returns(0, {SquashKa(b)})
            \cup Returns(0, SendPage(without, "5xx")) \cup Returns(1, {p})
            \cup More({again}) \cup InitCgi(b) \cup InitGet(get)
  BY Zenon DEF ProcessHeaderEnd, b, p, again, without, get
<1> QED BY <1>4, <1>5, <1>6, <1>7, <1>8, <1>9

LEMMA SoundReadHeader ==
  ASSUME NEW n, NEW c \in Shaped(n), c.status = "READ_HEADER"
  PROVE  ReadHeader(c) \subseteq Sound(n)
<1>0. Shaped(n) \subseteq Counted(n)
  BY DEF Shaped
<1>1. SUFFICES ASSUME NEW d \in Shaped(n), d.status = "READ_HEADER", NEW o,
                      \/ o \in Pages(d)
                      \/ o \in IF d.logline THEN Returns(0, {d}) \cup ProcessHeaderEnd(d) ELSE {}
                      \/ o \in Returns(0, {[Die(d) EXCEPT !.response = "below500"]})
                      \/ o \in Returns(0, {[d EXCEPT !.response = "below500"]})
                      \/ o \in Returns(-1, {d})
                      \/ o \in More({d})
               PROVE  o \in Sound(n)
  BY SoundParsed DEF ReadHeader
<1>2. Die(d) \in Shaped(n)
  BY ClosedShaped DEF Closed
<1>3. /\ [Die(d) EXCEPT !.response = "below500"] \in Shaped(n)
      /\ [d EXCEPT !.response = "below500"] \in Shaped(n)
  BY <1>2, ClosedShaped DEF Closed
<1>4. /\ Returns(0, {[Die(d) EXCEPT !.response = "below500"]}) \subseteq Sound(n)
      /\ Returns(0, {[d EXCEPT !.response = "below500"]}) \subseteq Sound(n)
      /\ Returns(0, {d}) \subseteq Sound(n)
      /\ Returns(-1, {d}) \subseteq Sound(n)
  BY <1>0, <1>3, SoundReturns
<1>5. Pages(d) \subseteq Sound(n) /\ More({d}) \subseteq Sound(n)
  BY <1>0, SoundPages, SoundMore
<1>6. ProcessHeaderEnd(d) \subseteq Sound(n)
  BY <1>1, SoundProcessHeaderEnd
<1> QED BY <1>1, <1>4, <1>5, <1>6

LEMMA SoundBody ==
  ASSUME NEW n, NEW c \in Shaped(n), c.post_data_fd
  PROVE  ReadBody(c) \subseteq Sound(n) /\ WriteBody(c) \subseteq Sound(n)
<1> DEFINE w == [c EXCEPT !.status = "BODY_WRITE"]
           r == [c EXCEPT !.status = "BODY_READ"]
           e == [c EXCEPT !.response = "below500"]
<1>0. c \in Counted(n) /\ Shaped(n) \subseteq Counted(n)
  BY DEF Shaped
<1>1. w \in Shaped(n) /\ r \in Shaped(n)
  BY DEF Shaped, Counted, Shape, Request, Status
<1>2. e \in Shaped(n)
  BY ClosedShaped DEF Closed
<1> HIDE DEF w, r, e
<1>3. /\ Returns(0, SendPage(c, "below500")) \subseteq Sound(n)
      /\ Returns(0, SendPage(c, "5xx")) \subseteq Sound(n)
  BY <1>0, SoundPage
<1>4. /\ Returns(-1, {c}) \subseteq Sound(n)
      /\ Returns(0, {e}) \subseteq Sound(n)
      /\ Returns(1, {r}) \subseteq Sound(n)
  BY <1>0, <1>1, <1>2, SoundReturns
<1>5. More({w}) \subseteq Sound(n) /\ More({c}) \subseteq Sound(n)
  BY <1>1, SoundMore
<1>6. InitCgi(c) \subseteq Sound(n)
  BY <1>0, SoundInitCgi
<1>7. ReadBody(c) \subseteq Sound(n)
  BY <1>3, <1>4, <1>5 DEF ReadBody, w, e
<1>8. WriteBody(c) \subseteq Sound(n)
  BY <1>3, <1>4, <1>5, <1>6 DEF WriteBody, r
<1> QED BY <1>7, <1>8

LEMMA SoundReadFromPipe ==
  ASSUME NEW n, NEW c \in Shaped(n), c.data_fd
  PROVE  ReadFromPipe(c) \subseteq Sound(n)
<1> DEFINE w == [c EXCEPT !.status = "PIPE_WRITE"]
<1>0. c \in Counted(n) /\ Shaped(n) \subseteq Counted(n)
  BY DEF Shaped
<1>1. w \in Shaped(n)
  BY DEF Shaped, Counted, Shape, Request, Status
<1>2. Die(c) \in Shaped(n)
  BY ClosedShaped DEF Closed
<1> HIDE DEF w
<1>3. ProcessCgiHeader(c) \subseteq Sound(n) /\ ProcessCgiHeader(w) \subseteq Sound(n)
  BY <1>1, SoundProcessCgiHeader
<1>4. /\ Returns(1, {w}) \subseteq Sound(n)
      /\ Returns(-1, {c}) \subseteq Sound(n)
      /\ Returns(0, {Die(c)}) \subseteq Sound(n)
  BY <1>0, <1>1, <1>2, SoundReturns
<1>5. WriteFromPipe(c) \subseteq Sound(n)
  BY SoundSend
<1> QED BY <1>3, <1>4, <1>5 DEF ReadFromPipe, w

\* process_requests: the flushes, and the switch.
LEMMA SoundFlushStep ==
  ASSUME NEW n, NEW c \in Shaped(n), NEW f \in ReqFlush(c)
  PROVE  /\ f.req \in Shaped(n)
         /\ Returns(0, {Die(f.req)}) \subseteq Sound(n)
         /\ More({f.req}) \subseteq Sound(n)
         /\ f.ret # -2 => f \in Sound(n)
<1>0. f.req \in Shaped(n)
  BY ClosedShaped, ClosedReqFlush
<1>1. f.req \in Shaped(n) /\ f.req \in Counted(n) /\ Shape(f.req)
  BY <1>0 DEF Shaped
<1>2. Die(f.req) \in Counted(n)
  BY <1>1, ClosedCounted DEF Closed
<1>3. f.ret # -2 => f \in Outcome
  BY FlushStepType DEF Shaped, Counted
<1>4. f.ret # -2 => f \in Sound(n)
  BY <1>1, <1>3 DEF Sound
<1>5. Returns(0, {Die(f.req)}) \subseteq Sound(n)
  BY <1>2, SoundReturns
<1> QED BY <1>1, <1>4, <1>5, SoundMore

LEMMA SoundFinishDone ==
  ASSUME NEW n, NEW c \in Shaped(n)
  PROVE  FinishDone(c) \subseteq Sound(n)
BY SoundFlushStep DEF FinishDone

LEMMA SoundDispatch ==
  ASSUME NEW n, NEW c \in Shaped(n)
  PROVE  Dispatch(c) \subseteq Sound(n)
<1> DEFINE gone == [SquashKa(c) EXCEPT !.buffer = FALSE]
<1>1. c \in Request /\ Shape(c) /\ c \in Counted(n)
  BY DEF Shaped, Counted
<1>2. SquashKa(c) \in Counted(n)
  BY <1>1, ClosedCounted DEF Closed
<1>3. gone \in Counted(n)
  BY <1>2, ClosedCounted DEF Closed
<1> HIDE DEF gone
<1>4. Returns(0, {gone}) \subseteq Sound(n)
  BY <1>3, SoundReturns
<1>5. CASE c.status = "READ_HEADER"
  BY <1>5, SoundReadHeader DEF Dispatch
<1>6. CASE c.status \in {"BODY_READ", "BODY_WRITE"}
  <2>1. c.post_data_fd
    BY <1>1, <1>6 DEF Shape
  <2> QED BY <1>6, <2>1, SoundBody DEF Dispatch
<1>7. CASE c.status \in {"PIPE_READ", "PIPE_WRITE"}
  <2>1. c.data_fd
    BY <1>1, <1>7 DEF Shape
  <2> QED BY <1>7, <2>1, SoundReadFromPipe, SoundSend DEF Dispatch
<1>8. CASE c.status \in {"WRITE", "IOSHUFFLE"}
  BY <1>8, SoundSend DEF Dispatch
<1>9. CASE c.status = "DONE"
  BY <1>9, SoundFinishDone DEF Dispatch
<1>10. CASE c.status \in {"TIMED_OUT", "DEAD"}
  BY <1>4, <1>10 DEF Dispatch, gone
<1> QED BY <1>1, <1>5, <1>6, <1>7, <1>8, <1>9, <1>10 DEF Request, Status

\* One turn of process_requests on a request that has the descriptors its
\* status needs leaves one that has, unless the request is over, and never
\* touches kacount.
THEOREM ProcessSound ==
  ASSUME NEW n, NEW c \in Shaped(n)
  PROVE  Process(c) \subseteq Sound(n)
<1>1. \A f \in ReqFlush(c) :
        (CASE f.ret = -2 -> Returns(0, {Die(f.req)})
           [] f.ret = -1 -> {f}
           [] OTHER      -> Dispatch(f.req)) \subseteq Sound(n)
  <2> TAKE f \in ReqFlush(c)
  <2>1. CASE f.ret = -2
    <3>1. Returns(0, {Die(f.req)}) \subseteq Sound(n)
      BY SoundFlushStep
    <3> QED BY <2>1, <3>1
  <2>2. CASE f.ret = -1
    <3>1. f.ret # -2
      BY <2>2
    <3>2. f \in Sound(n)
      BY <3>1, SoundFlushStep, Zenon
    <3> QED BY <2>2, <3>2
  <2>3. CASE f.ret # -2 /\ f.ret # -1
    BY <2>3, SoundFlushStep, SoundDispatch
  <2> QED BY <2>1, <2>2, <2>3
<1> QED BY <1>1, SoundDispatch DEF Process

\* A dead or timed-out request is over at its next turn, and keeps its
\* descriptors for free_request to close.
LEMMA ProcessDead ==
  ASSUME NEW c \in Request, ~Alive(c), NEW o \in Process(c)
  PROVE  /\ o.ret = 0 /\ ~Alive(o.req)
         /\ o.req.data_fd = c.data_fd /\ o.req.post_data_fd = c.post_data_fd
<1> DEFINE gone == [SquashKa(c) EXCEPT !.buffer = FALSE]
<1>1. c.status \in {"TIMED_OUT", "DEAD"}
  BY DEF Alive
<1>2. Process(c) = Returns(0, {gone})
  BY <1>1 DEF Process, Dispatch, Alive
<1>3. o.ret = 0 /\ o.req = gone
  BY <1>2 DEF Returns
<1>4. gone.status = c.status /\ gone.data_fd = c.data_fd /\ gone.post_data_fd = c.post_data_fd
  BY DEF SquashKa, Request
<1> QED BY <1>1, <1>3, <1>4 DEF Alive

\* free_request's own flush changes nothing but status and buffer; a request
\* it leaves on the ready list is DONE, a dead one is not flushed.
LEMMA FinalFlushKeeps ==
  ASSUME NEW c \in Request, NEW f \in FinalFlush(c)
  PROVE  /\ f.req.data_fd = c.data_fd /\ f.req.post_data_fd = c.post_data_fd
         /\ f.req.keepalive = c.keepalive /\ f.req.kacount = c.kacount
         /\ f.ret = 1 => Alive(c) /\ f.req.status = "DONE"
         /\ ~Alive(c) => f.ret = 0 /\ f.req = c
<1> DEFINE d == [c EXCEPT !.status = "DONE"]
<1>1. CASE c.buffer /\ Alive(c)
  <2>1. /\ d \in Request /\ d.buffer /\ Alive(d) /\ d.status = "DONE"
        /\ d.data_fd = c.data_fd /\ d.post_data_fd = c.post_data_fd
        /\ d.keepalive = c.keepalive /\ d.kacount = c.kacount
    BY <1>1 DEF Request, Status, Alive
  <2>2. f \in ReqFlush(d)
    BY <1>1 DEF FinalFlush
  <2> HIDE DEF d
  <2>3. f.req \in {d, [Die(d) EXCEPT !.buffer = FALSE], [d EXCEPT !.buffer = FALSE]}
    BY <2>2 DEF ReqFlush
  <2>4. f.ret = 1 => f.req = d
    BY <2>1, <2>2 DEF ReqFlush
  <2>5. \A g \in {d, [Die(d) EXCEPT !.buffer = FALSE], [d EXCEPT !.buffer = FALSE]} :
          /\ g.data_fd = d.data_fd /\ g.post_data_fd = d.post_data_fd
          /\ g.keepalive = d.keepalive /\ g.kacount = d.kacount
    BY <2>1 DEF Die, Request
  <2> QED BY <1>1, <2>1, <2>3, <2>4, <2>5
<1>2. CASE ~(c.buffer /\ Alive(c))
  BY <1>2 DEF FinalFlush
<1> QED BY <1>1, <1>2
-----------------------------------------------------------------------------
Handling == {"first", "walk", "accept", "settle"}
Watching == {"enter", "select", "update"}

\* The lists are disjoint and total_connections counts them; what is still to
\* be walked, and what is being visited, is ready.
ListsOK ==
  /\ ready \subseteq Req /\ block \subseteq Req
  /\ walk \subseteq ready
  /\ \A v \in cur : v[1] \in ready /\ v[1] \notin walk
  /\ pc \notin {"accept", "settle"} => cur = {}
  /\ ready \cap block = {}
  /\ total_connections \in Nat
  /\ total_connections = Cardinality(Conns)

\* Whoever may still accept leaves room for one connection past the limit,
\* and nobody may once SIGTERM has been noticed.
LimitOK ==
  /\ total_connections <= MaxConnections + 1
  /\ listen /\ pc \in Watching => total_connections <= MaxConnections
  /\ pending_requests /\ pc \in Handling => total_connections <= MaxConnections
  /\ pending_requests /\ pc \in Handling => sigterm_flag # 2
  /\ sigterm_flag \in 0..2

IInv == ListsOK /\ LimitOK

\* Both lists are finite, as the process has finitely many structures.
LEMMA ConnsFinite == ListsOK => IsFiniteSet(Conns)
BY LoopAssumption, FS_Subset DEF ListsOK, Conns

\* Moving requests between the lists changes neither the connections nor
\* their number.
LEMMA SameConns ==
  ASSUME ListsOK, Conns' = Conns, UNCHANGED total_connections
  PROVE  total_connections' \in Nat /\ total_connections' = Cardinality(Conns')
BY DEF ListsOK

\* get_request keeps the accounting and the limit.
LEMMA GetRequestOK ==
  ASSUME IInv, pending_requests, pc \in Handling, GetRequest,
         UNCHANGED <<block, sigterm_flag>>
  PROVE  /\ ready \subseteq ready' /\ ready' \subseteq Req
         /\ ready' \cap block' = {}
         /\ total_connections' \in Nat
         /\ total_connections' = Cardinality(Conns')
         /\ total_connections' <= MaxConnections + 1
         /\ pending_requests' => total_connections' <= MaxConnections
         /\ sigterm_flag' # 2 /\ sigterm_flag' \in 0..2
<1>1. CASE UNCHANGED <<ready, total_connections>>
  BY <1>1 DEF IInv, ListsOK, LimitOK, Conns, Handling
<1>2. ASSUME NEW r \in Req, Accepted(r)
      PROVE  /\ ready \subseteq ready' /\ ready' \subseteq Req
             /\ ready' \cap block' = {}
             /\ total_connections' \in Nat
             /\ total_connections' = Cardinality(Conns')
             /\ total_connections' <= MaxConnections + 1
             /\ pending_requests' => total_connections' <= MaxConnections
             /\ sigterm_flag' # 2 /\ sigterm_flag' \in 0..2
  <2>1. Conns' = Conns \cup {r} /\ r \notin Conns
    BY <1>2 DEF Accepted, Conns
  <2>2. Cardinality(Conns') = Cardinality(Conns) + 1
    BY <2>1, ConnsFinite, FS_AddElement DEF IInv
  <2>3. total_connections' = total_connections + 1
    BY <1>2 DEF Accepted
  <2>4. total_connections <= MaxConnections /\ sigterm_flag # 2
    BY DEF IInv, LimitOK
  <2>5. ready' = ready \cup {r} /\ r \notin block
    BY <1>2 DEF Accepted, Conns
  <2>6. pending_requests' => total_connections < MaxConnections
    BY <1>2, Zenon DEF Accepted
  <2>7. ready \subseteq ready' /\ ready' \subseteq Req /\ ready' \cap block' = {}
    BY <2>5 DEF IInv, ListsOK
  <2>8. /\ total_connections' \in Nat
        /\ total_connections' = Cardinality(Conns')
        /\ total_connections' <= MaxConnections + 1
    BY <2>2, <2>3, <2>4, LoopAssumption DEF IInv, ListsOK
  <2>9. pending_requests' => total_connections' <= MaxConnections
    BY <2>3, <2>6, LoopAssumption DEF IInv, ListsOK
  <2>10. sigterm_flag' # 2 /\ sigterm_flag' \in 0..2
    BY <2>4 DEF IInv, LimitOK
  <2> QED BY <2>7, <2>8, <2>9, <2>10
<1> QED BY <1>1, <1>2 DEF GetRequest

LEMMA InitOK == Init => IInv
<1> SUFFICES ASSUME Init PROVE IInv OBVIOUS
<1>1. Conns = {} /\ Cardinality(Conns) = 0
  BY FS_EmptySet DEF Init, Conns
<1> QED
  BY <1>1, LoopAssumption
  DEF Init, IInv, ListsOK, LimitOK, Watching, Handling

\* A step that leaves the lists and the counters alone.
LEMMA IdleStepOK ==
  ASSUME IInv,
         UNCHANGED <<ready, block, walk, cur, total_connections,
                     pending_requests, listen>>,
         \/ pc' = pc
         \/ pc \in {"select", "walk"} /\ pc' = "top"
         \/ pc = "enter" /\ pc' = "select",
         sigterm_flag' \in 0..2,
         sigterm_flag' # sigterm_flag => sigterm_flag' = 1
  PROVE  IInv'
BY DEF IInv, ListsOK, LimitOK, Conns, Watching, Handling

LEMMA LoopTopOK == IInv /\ LoopTop => IInv'
<1> SUFFICES ASSUME IInv, LoopTop PROVE IInv' OBVIOUS
<1>1. ListsOK'
  BY DEF LoopTop, IInv, ListsOK, Conns
<1>2. listen' => total_connections <= MaxConnections
  BY Zenon DEF LoopTop, Listens
<1>3. pc' \notin Handling /\ sigterm_flag' \in 0..2
  BY DEF LoopTop, Handling
<1>4. UNCHANGED total_connections
  BY DEF LoopTop
<1> QED BY <1>1, <1>2, <1>3, <1>4 DEF IInv, LimitOK

LEMMA SelectOK ==
  ASSUME IInv, NEW R, NEW W, NEW l \in {FALSE, listen}, Select(R, W, l)
  PROVE  IInv'
<1>1. ListsOK'
  BY DEF Select, IInv, ListsOK, Conns
<1>2. listen' => listen
  BY Zenon DEF Select
<1>3. pc \in Watching /\ pc' \notin Handling
  BY DEF Select, Watching, Handling
<1>4. UNCHANGED <<total_connections, sigterm_flag>>
  BY DEF Select
<1> QED BY <1>1, <1>2, <1>3, <1>4 DEF IInv, LimitOK

LEMMA FdsetUpdateOK == IInv /\ FdsetUpdate => IInv' /\ Conns' = Conns
<1> SUFFICES ASSUME IInv, FdsetUpdate PROVE IInv' /\ Conns' = Conns OBVIOUS
<1>1. PICK woken \in SUBSET block : ready' = ready \cup woken /\ block' = block \ woken
  BY DEF FdsetUpdate
<1>2. Conns' = Conns
  BY <1>1 DEF Conns
<1>3. UNCHANGED <<walk, cur, total_connections, sigterm_flag>> /\ pc = "update"
  BY DEF FdsetUpdate
<1>4. pc' \in {"first", "top"}
  BY DEF FdsetUpdate
<1>5. ListsOK'
  BY <1>1, <1>2, <1>3, <1>4 DEF IInv, ListsOK
<1>6. pending_requests' => sigterm_flag = 0 /\ listen
  BY Zenon DEF FdsetUpdate
<1>7. LimitOK'
  BY <1>3, <1>4, <1>6 DEF IInv, LimitOK, Watching, Handling
<1> QED BY <1>2, <1>5, <1>7 DEF IInv

\* process_requests: the accept before the walk, and the one after a handler.
LEMMA ProcessRequestsOK == IInv /\ ProcessRequests => IInv'
<1> SUFFICES ASSUME IInv, ProcessRequests PROVE IInv' OBVIOUS
<1>1. /\ pc = "first" /\ pc' = "walk" /\ walk' = ready'
      /\ UNCHANGED <<block, cur, listen, sigterm_flag>>
  BY DEF ProcessRequests
<1>2. CASE pending_requests
  <2>1. GetRequest
    BY <1>2 DEF ProcessRequests
  <2> QED BY <1>1, <1>2, <2>1, GetRequestOK DEF IInv, ListsOK, LimitOK, Watching, Handling
<1>3. CASE ~pending_requests
  <2>1. UNCHANGED <<ready, total_connections, pending_requests>>
    BY <1>3 DEF ProcessRequests
  <2> QED BY <1>1, <1>3, <2>1 DEF IInv, ListsOK, LimitOK, Conns, Watching, Handling
<1> QED BY <1>2, <1>3

LEMMA AcceptMoreOK == IInv /\ AcceptMore => IInv'
<1> SUFFICES ASSUME IInv, AcceptMore PROVE IInv' OBVIOUS
<1>1. /\ pc = "accept" /\ pc' = "settle"
      /\ UNCHANGED <<block, walk, cur, listen, sigterm_flag>>
  BY DEF AcceptMore
<1>2. CASE pending_requests
  <2>1. GetRequest
    BY <1>2 DEF AcceptMore
  <2> QED BY <1>1, <1>2, <2>1, GetRequestOK DEF IInv, ListsOK, LimitOK, Watching, Handling
<1>3. CASE ~pending_requests
  <2>1. UNCHANGED <<ready, total_connections, pending_requests>>
    BY <1>3 DEF AcceptMore
  <2> QED BY <1>1, <1>3, <2>1 DEF IInv, ListsOK, LimitOK, Conns, Watching, Handling
<1> QED BY <1>2, <1>3

\* A handler's visit and the first two cases of the switch on its result.
LEMMA VisitOK ==
  ASSUME IInv, NEW r \in Req, Visit(r)
  PROVE  IInv'
<1>1. /\ pc = "walk" /\ r \in walk /\ walk' = walk \ {r} /\ pc' = "accept"
      /\ UNCHANGED <<ready, block, total_connections, pending_requests,
                     listen, sigterm_flag>>
  BY DEF Visit
<1>2. \A v \in cur' : v[1] = r
  BY DEF Visit
<1> QED BY <1>1, <1>2 DEF IInv, ListsOK, LimitOK, Conns, Watching, Handling

LEMMA BlockRequestOK ==
  ASSUME IInv, NEW r \in Req, BlockRequest(r)
  PROVE  IInv' /\ Conns' = Conns
<1>1. /\ pc = "settle" /\ pc' = "walk" /\ cur' = {}
      /\ ready' = ready \ {r} /\ block' = block \cup {r}
      /\ UNCHANGED <<walk, total_connections, pending_requests, listen, sigterm_flag>>
  BY DEF BlockRequest
<1>2. r \in ready /\ r \notin walk
  BY DEF BlockRequest, IInv, ListsOK
<1>3. Conns' = Conns
  BY <1>1, <1>2 DEF Conns
<1> QED BY <1>1, <1>2, <1>3 DEF IInv, ListsOK, LimitOK, Watching, Handling

LEMMA KeepReadyOK ==
  ASSUME IInv, NEW r \in Req, KeepReady(r)
  PROVE  IInv'
BY DEF KeepReady, IInv, ListsOK, LimitOK, Conns, Watching, Handling

\* free_request: an early return and keep-alive leave the connection where it
\* is counted, a release takes it off its list and off the count.
FreeEffect(r) ==
  \/ UNCHANGED <<ready, block, total_connections>>
  \/ /\ ready' = ready \ {r} /\ block' = block \cup {r}
     /\ UNCHANGED total_connections
  \/ /\ ready' = ready \ {r} /\ UNCHANGED block
     /\ total_connections' = total_connections - 1

LEMMA FreeRequestEffect ==
  ASSUME IInv, NEW r \in Req, FreeRequest(r)
  PROVE  /\ FreeEffect(r)
         /\ r \in ready /\ r \notin walk /\ r \notin block
         /\ pc = "settle" /\ pc' = "walk" /\ cur' = {}
         /\ UNCHANGED <<walk, pending_requests, listen, sigterm_flag>>
<1>1. FreeEffect(r)
  BY DEF FreeRequest, Recycle, Release, FreeEffect
<1>2. r \in ready /\ r \notin walk /\ r \notin block
  BY DEF FreeRequest, IInv, ListsOK
<1> QED BY <1>1, <1>2 DEF FreeRequest

LEMMA FreeRequestOK ==
  ASSUME IInv, NEW r \in Req, FreeRequest(r)
  PROVE  IInv'
<1>1. CASE Conns' = Conns /\ UNCHANGED total_connections
  BY <1>1, FreeRequestEffect
  DEF FreeEffect, IInv, ListsOK, LimitOK, Watching, Handling
<1>2. CASE /\ ready' = ready \ {r} /\ UNCHANGED block
           /\ total_connections' = total_connections - 1
  <2>1. Conns' = Conns \ {r} /\ r \in Conns
    BY <1>2, FreeRequestEffect DEF Conns
  <2>2. Cardinality(Conns') = Cardinality(Conns) - 1 /\ Cardinality(Conns') \in Nat
    BY <2>1, ConnsFinite, FS_RemoveElement, FS_CardinalityType DEF IInv
  <2>3. ListsOK'
    BY <1>2, <2>2, FreeRequestEffect DEF IInv, ListsOK
  <2>4. LimitOK'
    BY <1>2, FreeRequestEffect, LoopAssumption
    DEF IInv, ListsOK, LimitOK, Watching, Handling
  <2> QED BY <2>3, <2>4 DEF IInv
<1> QED BY <1>1, <1>2, FreeRequestEffect DEF FreeEffect, Conns

LEMMA NextOK == IInv /\ [Next]_vars => IInv'
<1> SUFFICES ASSUME IInv, [Next]_vars PROVE IInv' OBVIOUS
<1>1. CASE Sigterm
  BY <1>1, IdleStepOK DEF Sigterm
<1>2. CASE Interrupt \/ EnterSelect \/ EndWalk \/ Tick \/ UNCHANGED vars
  <2>1. sigterm_flag \in 0..2
    BY DEF IInv, LimitOK
  <2> QED BY <1>2, <2>1, IdleStepOK DEF Interrupt, EnterSelect, EndWalk, Tick, vars
<1>3. CASE LoopTop
  BY <1>3, LoopTopOK
<1>4. ASSUME NEW R \in SUBSET rd, NEW W \in SUBSET wr, NEW l \in {FALSE, listen},
             Select(R, W, l)
      PROVE IInv'
  BY <1>4, SelectOK
<1>5. CASE FdsetUpdate
  BY <1>5, FdsetUpdateOK
<1>6. CASE ProcessRequests
  BY <1>6, ProcessRequestsOK
<1>7. CASE AcceptMore
  BY <1>7, AcceptMoreOK
<1>8. ASSUME NEW r \in Req,
             Visit(r) \/ BlockRequest(r) \/ KeepReady(r) \/ FreeRequest(r)
      PROVE IInv'
  BY <1>8, VisitOK, BlockRequestOK, KeepReadyOK, FreeRequestOK
<1> QED
  BY <1>1, <1>2, <1>3, <1>4, <1>5, <1>6, <1>7, <1>8 DEF Next, Exited

\* Every reachable state of the event loop satisfies the inductive invariant.
THEOREM Invariance == Spec => []IInv
BY InitOK, NextOK, PTL DEF Spec

\* For every set of request structures and every limit, total_connections
\* counts the requests on the lists and stays within one of max_connections.
THEOREM Accounting == Spec => []ConnectionAccounting
<1>1. IInv => ConnectionAccounting
  BY DEF IInv, ListsOK, LimitOK, ConnectionAccounting
<1> QED BY <1>1, Invariance, PTL
-----------------------------------------------------------------------------
(* Type correctness.  ProcessType says what a handler returns; IInv keeps    *)
(* total_connections from going below zero.                                  *)

LEMMA WatchType ==
  ASSUME NEW r \in Req, NEW c
  PROVE  /\ WatchRead(r, c) \subseteq Fd /\ WatchWrite(r, c) \subseteq Fd
         /\ Held(r, c) \subseteq Fd
         /\ Sock(r) \in Fd /\ Orphan(r) \in Fd
BY DEF WatchRead, WatchWrite, Held, Sock, Data, Post, Orphan, Fd

LEMMA TypeInit == Init => TypeOK
<1>1. KaMax \in 0..KaMax /\ 0 \in 0..MaxAge
  BY HandlerAssumption, LoopAssumption DEF MaxAge
<1>2. Sanitized(KaMax) \in Request
  BY <1>1, SanitizedType
<1> SUFFICES ASSUME Init PROVE TypeOK OBVIOUS
<1>3. req \in [Req -> Request] /\ age \in [Req -> 0..MaxAge]
  BY <1>1, <1>2 DEF Init
<1>4. /\ ready \in SUBSET Req /\ block \in SUBSET Req /\ walk \in SUBSET Req
      /\ cur \in SUBSET (Req \X {-1, 0, 1})
      /\ rd \in SUBSET Fd /\ wr \in SUBSET Fd /\ open \in SUBSET Fd
  BY DEF Init
<1>5. pending_requests \in BOOLEAN /\ listen \in BOOLEAN
  BY Zenon DEF Init
<1>6. total_connections \in Nat /\ sigterm_flag \in 0..2
  BY DEF Init
<1>7. pc \in {"top", "enter", "select", "update", "first", "walk", "accept",
             "settle", "exited"}
  BY DEF Init
<1> QED BY <1>3, <1>4, <1>5, <1>6, <1>7, Zenon DEF TypeOK

LEMMA NewRequestsType == NewRequests \subseteq Request
<1>1. Sanitized(KaMax) \in Request
  BY HandlerAssumption, SanitizedType
<1>2. SendPage(Sanitized(KaMax), "5xx") \subseteq Request
  BY <1>1, SendPageType DEF Response
<1>3. \A d \in Request : [d EXCEPT !.status = "DONE"] \in Request
  BY Updates DEF Status
<1> QED BY <1>1, <1>2, <1>3 DEF NewRequests

\* get_request.
LEMMA GetRequestType ==
  ASSUME TypeOK, GetRequest
  PROVE  /\ ready' \subseteq Req
         /\ req' \in [Req -> Request]
         /\ age' \in [Req -> 0..MaxAge]
         /\ open' \subseteq Fd
         /\ total_connections' \in Nat
         /\ pending_requests' \in BOOLEAN
<1>1. CASE /\ UNCHANGED <<ready, req, age, open, total_connections>>
           /\ pending_requests' \in {FALSE, pending_requests}
  BY <1>1 DEF TypeOK
<1>2. ASSUME NEW r \in Req, Accepted(r)
      PROVE  /\ ready' \subseteq Req
             /\ req' \in [Req -> Request]
             /\ age' \in [Req -> 0..MaxAge]
             /\ open' \subseteq Fd
             /\ total_connections' \in Nat
             /\ pending_requests' \in BOOLEAN
  <2>1. PICK c \in NewRequests : req' = [req EXCEPT ![r] = c]
    BY <1>2 DEF Accepted
  <2>2. req' \in [Req -> Request]
    BY <2>1, NewRequestsType DEF TypeOK
  <2>3. age' \in [Req -> 0..MaxAge]
    BY <1>2, LoopAssumption DEF Accepted, TypeOK, MaxAge
  <2>4. open' \subseteq Fd
    BY <1>2, WatchType DEF Accepted, TypeOK
  <2>5. ready' \subseteq Req /\ total_connections' \in Nat
    BY <1>2 DEF Accepted, TypeOK
  <2>6. pending_requests' \in BOOLEAN
    BY <1>2 DEF Accepted
  <2> QED BY <2>2, <2>3, <2>4, <2>5, <2>6
<1> QED BY <1>1, <1>2 DEF GetRequest

LEMMA ProcessRequestsType == TypeOK /\ (ProcessRequests \/ AcceptMore) => TypeOK'
<1> SUFFICES ASSUME TypeOK, ProcessRequests \/ AcceptMore PROVE TypeOK' OBVIOUS
<1>1. /\ pc' \in {"walk", "settle"} /\ walk' \in {ready', walk}
      /\ UNCHANGED <<block, cur, rd, wr, listen, sigterm_flag>>
  BY DEF ProcessRequests, AcceptMore
<1>2. \/ GetRequest
      \/ UNCHANGED <<ready, req, age, open, total_connections, pending_requests>>
  BY DEF ProcessRequests, AcceptMore
<1>3. CASE GetRequest
  BY <1>1, <1>3, GetRequestType DEF TypeOK
<1>4. CASE UNCHANGED <<ready, req, age, open, total_connections, pending_requests>>
  BY <1>1, <1>4 DEF TypeOK
<1> QED BY <1>2, <1>3, <1>4

LEMMA FdsetUpdateType == TypeOK /\ FdsetUpdate => TypeOK'
<1> SUFFICES ASSUME TypeOK, FdsetUpdate PROVE TypeOK' OBVIOUS
<1> DEFINE now == [r \in Req |-> IF r \in block /\ TimedOut(r)
                                 THEN [req[r] EXCEPT !.status = "TIMED_OUT"] ELSE req[r]]
<1>1. \A r \in Req : [req[r] EXCEPT !.status = "TIMED_OUT"] \in Request
  BY Updates DEF TypeOK, Status
<1>2. req' \in [Req -> Request]
  BY <1>1 DEF FdsetUpdate, TypeOK
<1>3. ready' \subseteq Req /\ block' \subseteq Req
  BY DEF FdsetUpdate, TypeOK
<1> HIDE DEF now
<1>4. \A S \in SUBSET block : /\ (UNION {WatchRead(r, now[r]) : r \in S}) \subseteq Fd
                             /\ (UNION {WatchWrite(r, now[r]) : r \in S}) \subseteq Fd
  BY WatchType DEF TypeOK
<1>5. \E S \in SUBSET block, T \in SUBSET block :
        /\ rd' = (rd \ (UNION {WatchRead(r, now[r]) : r \in T}))
                   \cup (UNION {WatchRead(r, now[r]) : r \in S})
        /\ wr' = (wr \ (UNION {WatchWrite(r, now[r]) : r \in T}))
                   \cup (UNION {WatchWrite(r, now[r]) : r \in S})
  BY DEF FdsetUpdate, now
<1>6. rd' \subseteq Fd /\ wr' \subseteq Fd
  BY <1>4, <1>5 DEF TypeOK
<1>7. pending_requests' \in BOOLEAN /\ pc' \in {"first", "top"}
  BY DEF FdsetUpdate
<1>8. UNCHANGED <<walk, cur, age, total_connections, listen, open, sigterm_flag>>
  BY DEF FdsetUpdate
<1> QED BY <1>2, <1>3, <1>6, <1>7, <1>8 DEF TypeOK

LEMMA VisitType ==
  ASSUME TypeOK, NEW r \in Req, Visit(r)
  PROVE  TypeOK'
<1>1. PICK o \in Process(req[r]) :
        /\ req' = [req EXCEPT ![r] = Squashed(o.req)]
        /\ cur' = {<<r, o.ret>>}
        /\ open' = (open \ Held(r, req[r])) \cup Held(r, o.req)
                     \cup {q \in {Orphan(r)} : o.req.orphan}
  BY DEF Visit
<1>2. o \in Outcome
  BY ProcessType DEF TypeOK
<1>3. o.ret \in {-1, 0, 1} /\ o.req \in Request
  BY <1>2 DEF Outcome
<1>4. Squashed(o.req) \in Request
  BY <1>3, Updates DEF Squashed
<1>5. req' \in [Req -> Request] /\ cur' \in SUBSET (Req \X {-1, 0, 1})
  BY <1>1, <1>3, <1>4 DEF TypeOK
<1>6. open' \subseteq Fd
  BY <1>1, WatchType DEF TypeOK
<1>7. /\ walk' = walk \ {r} /\ pc' = "accept"
      /\ UNCHANGED <<ready, block, age, total_connections, pending_requests,
                     rd, wr, listen, sigterm_flag>>
  BY DEF Visit
<1> QED BY <1>5, <1>6, <1>7 DEF TypeOK

\* The three cases of the switch on the return value.
LEMMA SettleType ==
  ASSUME TypeOK, NEW r \in Req, BlockRequest(r) \/ KeepReady(r)
  PROVE  TypeOK'
<1>1. [age EXCEPT ![r] = 0] \in [Req -> 0..MaxAge]
  BY LoopAssumption DEF TypeOK, MaxAge
<1>2. CASE BlockRequest(r)
  BY <1>2, WatchType DEF BlockRequest, AgeOfBlocked, TypeOK
<1>3. CASE KeepReady(r)
  BY <1>1, <1>3 DEF KeepReady, TypeOK
<1> QED BY <1>2, <1>3

LEMMA FreeRequestType ==
  ASSUME IInv, TypeOK, NEW r \in Req, FreeRequest(r)
  PROVE  TypeOK'
<1>1. /\ pc' = "walk" /\ cur' = {} /\ age' = [age EXCEPT ![r] = 0]
      /\ UNCHANGED <<walk, pending_requests, listen, sigterm_flag>>
  BY DEF FreeRequest
<1>2. age' \in [Req -> 0..MaxAge]
  BY <1>1, LoopAssumption DEF TypeOK, MaxAge
<1>3. total_connections' \in Nat
  BY FreeRequestOK DEF IInv, ListsOK
<1>4. PICK f \in FinalFlush(req[r]) :
        IF f.ret = 1
        THEN /\ req' = [req EXCEPT ![r] = f.req]
             /\ UNCHANGED <<ready, block, open, rd, wr, total_connections>>
        ELSE Recycle(r, f.req) \/ Release(r, f.req)
  BY DEF FreeRequest
<1>5. f.req \in Request
  BY FinalFlushType DEF TypeOK
<1>6. CASE f.ret = 1
  BY <1>1, <1>2, <1>3, <1>4, <1>5, <1>6 DEF TypeOK
<1>7. CASE Recycle(r, f.req)
  <2>1. f.req.kacount - 1 \in 0..KaMax
    BY <1>5, <1>7, HandlerAssumption DEF Recycle, MayRecycle, Request
  <2>2. req' \in [Req -> Request]
    BY <1>7, <2>1, SanitizedType DEF Recycle, TypeOK
  <2>3. rd' \subseteq Fd /\ wr' \subseteq Fd /\ open' \subseteq Fd
    BY <1>7, WatchType DEF Recycle, Rearm, TypeOK
  <2>4. ready' \subseteq Req /\ block' \subseteq Req
    BY <1>7 DEF Recycle, TypeOK
  <2> QED BY <1>1, <1>2, <1>3, <2>2, <2>3, <2>4 DEF TypeOK
<1>8. CASE Release(r, f.req)
  <2>1. Sanitized(KaMax) \in Request
    BY HandlerAssumption, SanitizedType
  <2>2. req' \in [Req -> Request]
    BY <1>8, <2>1 DEF Release, TypeOK
  <2>3. rd' \subseteq Fd /\ wr' \subseteq Fd /\ open' \subseteq Fd
    BY <1>8 DEF Release, TypeOK
  <2>4. ready' \subseteq Req /\ block' \subseteq Req
    BY <1>8 DEF Release, TypeOK
  <2> QED BY <1>1, <1>2, <1>3, <2>2, <2>3, <2>4 DEF TypeOK
<1> QED BY <1>4, <1>6, <1>7, <1>8

LEMMA TypeStep == IInv /\ TypeOK /\ [Next]_vars => TypeOK'
<1> SUFFICES ASSUME IInv, TypeOK, [Next]_vars PROVE TypeOK' OBVIOUS
<1>1. CASE Sigterm \/ Interrupt \/ EnterSelect \/ EndWalk
  BY <1>1 DEF Sigterm, Interrupt, EnterSelect, EndWalk, TypeOK
<1>2. CASE LoopTop
  <2>1. listen' \in BOOLEAN
    BY <1>2 DEF LoopTop
  <2>2. pending_requests' \in BOOLEAN /\ pc' \in {"exited", "enter"}
    BY <1>2, Zenon DEF LoopTop, TypeOK
  <2>3. sigterm_flag' \in 0..2
    BY <1>2 DEF LoopTop
  <2> QED BY <1>2, <2>1, <2>2, <2>3 DEF LoopTop, TypeOK
<1>3. ASSUME NEW R \in SUBSET rd, NEW W \in SUBSET wr, NEW l \in {FALSE, listen},
             Select(R, W, l)
      PROVE TypeOK'
  BY <1>3 DEF Select, TypeOK
<1>4. CASE FdsetUpdate
  BY <1>4, FdsetUpdateType
<1>5. CASE ProcessRequests \/ AcceptMore
  BY <1>5, ProcessRequestsType
<1>6. ASSUME NEW r \in Req,
             Visit(r) \/ BlockRequest(r) \/ KeepReady(r) \/ FreeRequest(r)
      PROVE TypeOK'
  BY <1>6, VisitType, SettleType, FreeRequestType
<1>7. CASE Tick
  <2>1. age' \in [Req -> 0..MaxAge]
    BY <1>7, LoopAssumption DEF Tick, TypeOK, MaxAge
  <2> QED BY <1>7, <2>1 DEF Tick, TypeOK
<1>8. CASE UNCHANGED vars
  BY <1>8 DEF vars, TypeOK
<1> QED
  BY <1>1, <1>2, <1>3, <1>4, <1>5, <1>6, <1>7, <1>8 DEF Next, Exited

\* For every set of request structures, limit, timeout, keep-alive allowance
\* and amount of work: the request structures stay well formed, kacount stays
\* within 0..KeepAliveMax, every handler returns a value process_requests
\* knows, and total_connections never goes negative.
THEOREM TypeCorrect == Spec => []TypeOK
BY TypeInit, TypeStep, Invariance, PTL DEF Spec
-----------------------------------------------------------------------------
(* The loop implements ConnectionTable: a step of the loop opens one         *)
(* connection, closes one, notices SIGTERM, exits, or leaves the table as it *)
(* is.                                                                       *)

LEMMA TableInit == Init => Table!Init
BY DEF Init, Table!Init, Conns, Phase

\* Steps that leave the connections and the phase alone.
LEMMA TableStutter ==
  ASSUME Conns' = Conns, pc # "exited", pc' # "exited",
         (sigterm_flag' = 2) <=> (sigterm_flag = 2)
  PROVE  UNCHANGED Table!vars
BY DEF Table!vars, Phase

LEMMA TableAccept ==
  ASSUME IInv, pending_requests, pc \in Handling, pc' \in Handling, GetRequest,
         UNCHANGED <<block, sigterm_flag>>
  PROVE  [Table!Next]_Table!vars
<1>1. CASE UNCHANGED ready
  BY <1>1, TableStutter DEF Conns, Handling
<1>2. ASSUME NEW r \in Req, Accepted(r)
      PROVE  Table!Open(r)
  <2>1. Phase = "serving" /\ Phase' = "serving"
    BY DEF Phase, Handling, IInv, LimitOK
  <2>2. r \notin Conns /\ Conns' = Conns \cup {r}
    BY <1>2 DEF Accepted, Conns
  <2>3. Table!Cardinality(Conns) <= MaxConnections
    BY DEF IInv, ListsOK, LimitOK, Cardinality, Table!Cardinality
  <2> QED BY <2>1, <2>2, <2>3 DEF Table!Open
<1> QED BY <1>1, <1>2 DEF GetRequest, Table!Next

LEMMA TableFree ==
  ASSUME IInv, NEW r \in Req, FreeRequest(r)
  PROVE  [Table!Next]_Table!vars
<1>1. pc # "exited" /\ pc' # "exited" /\ UNCHANGED sigterm_flag
  BY FreeRequestEffect
<1>2. CASE Conns' = Conns
  BY <1>1, <1>2, TableStutter
<1>3. CASE ready' = ready \ {r} /\ UNCHANGED block
  <2>1. r \in Conns /\ Conns' = Conns \ {r}
    BY <1>3, FreeRequestEffect DEF Conns
  <2>2. Phase # "exited" /\ Phase' = Phase
    BY <1>1 DEF Phase
  <2> QED BY <2>1, <2>2 DEF Table!Close, Table!Next
<1> QED BY <1>2, <1>3, FreeRequestEffect DEF FreeEffect, Conns

LEMMA TableTop ==
  ASSUME IInv, LoopTop
  PROVE  [Table!Next]_Table!vars
<1>1. Conns' = Conns /\ pc # "exited"
  BY DEF LoopTop, Conns
<1>2. CASE sigterm_flag = 0
  BY <1>1, <1>2, TableStutter DEF LoopTop
<1>3. CASE sigterm_flag # 0
  <2>1. sigterm_flag' = 2 /\ pc' = IF Conns = {} THEN "exited" ELSE "enter"
    BY <1>3 DEF LoopTop, Idle, Conns
  <2>2. CASE sigterm_flag = 2
    BY <1>1, <2>1, <2>2 DEF Phase, Table!Exit, Table!Next, Table!vars
  <2>3. CASE sigterm_flag = 1
    BY <1>1, <2>1, <2>3 DEF Phase, Table!Drain, Table!Next
  <2> QED BY <1>3, <2>2, <2>3 DEF IInv, LimitOK
<1> QED BY <1>2, <1>3

LEMMA TableStep == IInv /\ [Next]_vars => [Table!Next]_Table!vars
<1> SUFFICES ASSUME IInv, [Next]_vars PROVE [Table!Next]_Table!vars OBVIOUS
<1>1. CASE Sigterm
  BY <1>1, TableStutter DEF Sigterm, Conns
<1>2. CASE Interrupt \/ EnterSelect \/ EndWalk \/ Tick
  BY <1>2, TableStutter DEF Interrupt, EnterSelect, EndWalk, Tick, Conns
<1>3. CASE LoopTop
  BY <1>3, TableTop
<1>4. ASSUME NEW R \in SUBSET rd, NEW W \in SUBSET wr, NEW l \in {FALSE, listen},
             Select(R, W, l)
      PROVE [Table!Next]_Table!vars
  BY <1>4, TableStutter DEF Select, Conns
<1>5. CASE FdsetUpdate
  <2>1. /\ pc = "update" /\ pc' \in {"first", "top"} /\ UNCHANGED sigterm_flag
    BY <1>5 DEF FdsetUpdate
  <2> QED BY <1>5, <2>1, FdsetUpdateOK, TableStutter
<1>6. CASE ProcessRequests
  <2>1. /\ pc = "first" /\ pc' = "walk" /\ UNCHANGED <<block, sigterm_flag>>
        /\ IF pending_requests THEN GetRequest ELSE UNCHANGED ready
    BY <1>6 DEF ProcessRequests
  <2> QED BY <2>1, TableAccept, TableStutter DEF Handling, Conns
<1>7. CASE AcceptMore
  <2>1. /\ pc = "accept" /\ pc' = "settle" /\ UNCHANGED <<block, sigterm_flag>>
        /\ IF pending_requests THEN GetRequest ELSE UNCHANGED ready
    BY <1>7 DEF AcceptMore
  <2> QED BY <2>1, TableAccept, TableStutter DEF Handling, Conns
<1>8. ASSUME NEW r \in Req, Visit(r) \/ KeepReady(r)
      PROVE [Table!Next]_Table!vars
  BY <1>8, TableStutter DEF Visit, KeepReady, Conns
<1>9. ASSUME NEW r \in Req, BlockRequest(r)
      PROVE [Table!Next]_Table!vars
  <2>1. pc # "exited" /\ pc' # "exited" /\ UNCHANGED sigterm_flag
    BY <1>9 DEF BlockRequest
  <2> QED BY <1>9, <2>1, BlockRequestOK, TableStutter
<1>10. ASSUME NEW r \in Req, FreeRequest(r)
       PROVE [Table!Next]_Table!vars
  BY <1>10, TableFree
<1>11. CASE UNCHANGED vars
  BY <1>11 DEF vars, Table!vars, Conns, Phase
<1> QED
  BY <1>1, <1>2, <1>3, <1>4, <1>5, <1>6, <1>7, <1>8, <1>9, <1>10, <1>11
  DEF Next, Exited

\* Every behaviour of the loop is one of ConnectionTable: connections are
\* opened only while serving and at most one past the limit, and the server
\* exits only once SIGTERM was noticed and none is left.
THEOREM Implementation == Spec => ImplementsTable
<1>1. Spec => Table!Spec
  BY TableInit, TableStep, Invariance, PTL DEF Spec, Table!Spec
<1> QED BY <1>1 DEF ImplementsTable
-----------------------------------------------------------------------------
(* Descriptors.  At every step, and not only between two passes, each request *)
(* owns the descriptors that are open for it, and its bits in the two sets    *)
(* are those it waits on; a request that is not blocked has none, unless it   *)
(* timed out while a bit of it was set, which free_request will clear.        *)

Of(r, S) == {q \in S : q[2] = r}

\* Requests whose turn is still to come in this pass, or that are over and
\* about to be freed.
Settling == IF pc = "first" THEN ready ELSE walk \cup {r \in Req : <<r, 0>> \in cur}

ShapeOf(r) == r \in Conns => Shape(req[r]) \/ <<r, 0>> \in cur

WaitingOf(r) ==
  r \in block =>
    /\ Of(r, rd) \subseteq WatchRead(r, req[r])
    /\ Of(r, wr) \subseteq WatchWrite(r, req[r])
    /\ pc # "update" => WatchRead(r, req[r]) \subseteq rd /\ WatchWrite(r, req[r]) \subseteq wr

Stray(r) ==
  /\ r \in Settling /\ ~Alive(req[r])
  /\ Of(r, rd) \subseteq {Sock(r)} \cup ClearRead(r, req[r])
  /\ Of(r, wr) \subseteq {Sock(r)} \cup ClearWrite(r, req[r])

StrayOf(r) ==
  r \notin block => (Of(r, rd) = {} /\ Of(r, wr) = {}) \/ Stray(r)

OpenOf(r) ==
  Of(r, open) \ {Orphan(r)} = IF r \in Conns THEN {Sock(r)} \cup Held(r, req[r]) ELSE {}

Owns(r) == ShapeOf(r) /\ WaitingOf(r) /\ StrayOf(r) /\ OpenOf(r)

\* Nothing is left of a walk outside it; one request is visited at a time.
WalkOK ==
  /\ pc \notin {"walk", "accept", "settle"} => walk = {}
  /\ \A v, w \in cur : v = w

FdInv == WalkOK /\ \A r \in Req : Owns(r)

\* A step that does not touch request r, except that its pass may begin.
LEMMA Frame ==
  ASSUME NEW r \in Req, Owns(r),
         req'[r] = req[r],
         r \in block' <=> r \in block, r \in Conns' <=> r \in Conns,
         Of(r, rd)' = Of(r, rd), Of(r, wr)' = Of(r, wr), Of(r, open)' = Of(r, open),
         r \in Settling => r \in Settling',
         <<r, 0>> \in cur => <<r, 0>> \in cur',
         pc' = "update" \/ pc # "update"
  PROVE  Owns(r)'
<1>1. ShapeOf(r)'
  BY DEF Owns, ShapeOf
<1>2. WaitingOf(r)'
  <2> SUFFICES ASSUME r \in block' PROVE WaitingOf(r)'
    BY DEF WaitingOf
  <2>1. /\ Of(r, rd) \subseteq WatchRead(r, req[r])
        /\ Of(r, wr) \subseteq WatchWrite(r, req[r])
        /\ pc # "update" => WatchRead(r, req[r]) \subseteq rd /\ WatchWrite(r, req[r]) \subseteq wr
    BY DEF Owns, WaitingOf
  <2>2. \A c : WatchRead(r, c)' = WatchRead(r, c) /\ WatchWrite(r, c)' = WatchWrite(r, c)
    BY DEF WatchRead, WatchWrite, WaitsForWrite, Sock, Data, Post
  <2>3. \A c : \A q \in WatchRead(r, c) \cup WatchWrite(r, c) : q[2] = r
    BY DEF WatchRead, WatchWrite, Sock, Data, Post
  <2>4. \A q : q[2] = r => (q \in rd' <=> q \in rd) /\ (q \in wr' <=> q \in wr)
    BY DEF Of
  <2> QED BY <2>1, <2>2, <2>3, <2>4 DEF WaitingOf
<1>3. StrayOf(r)'
  BY DEF Owns, StrayOf, Stray, ClearRead, ClearWrite
<1>4. OpenOf(r)'
  BY DEF Owns, OpenOf, Held
<1> QED BY <1>1, <1>2, <1>3, <1>4 DEF Owns

LEMMA FdInit == Init => FdInv
<1> SUFFICES ASSUME Init, NEW r \in Req PROVE Owns(r)
  BY DEF FdInv, WalkOK, Init
<1>1. Of(r, rd) = {} /\ Of(r, wr) = {} /\ Of(r, open) = {}
  BY DEF Init, Of
<1>2. r \notin Conns /\ r \notin block
  BY DEF Init, Conns
<1> QED BY <1>1, <1>2 DEF Owns, ShapeOf, WaitingOf, StrayOf, OpenOf

\* Steps outside the walk that touch no request.
LEMMA FdIdle ==
  ASSUME FdInv,
         UNCHANGED <<ready, block, walk, cur, req, rd, wr, open>>,
         \/ pc' = pc
         \/ pc \in {"top", "enter", "select", "walk"} /\ pc' \in {"top", "enter", "select", "exited"},
         pc = "walk" /\ pc' # pc => walk = {}
  PROVE  FdInv'
<1>1. WalkOK'
  BY DEF FdInv, WalkOK
<1>2. ASSUME NEW r \in Req PROVE Owns(r)'
  <2>1. r \in Settling => r \in Settling'
    BY DEF Settling
  <2>2. r \in Conns' <=> r \in Conns
    BY DEF Conns
  <2>3. Of(r, rd)' = Of(r, rd) /\ Of(r, wr)' = Of(r, wr) /\ Of(r, open)' = Of(r, open)
    BY DEF Of
  <2>4. Owns(r)
    BY DEF FdInv
  <2> QED BY <2>1, <2>2, <2>3, <2>4, Frame
<1> QED BY <1>1, <1>2 DEF FdInv

LEMMA FdSelect ==
  ASSUME FdInv, NEW R \in SUBSET rd, NEW W \in SUBSET wr, NEW l, Select(R, W, l)
  PROVE  FdInv'
<1>1. /\ pc = "select" /\ pc' = "update" /\ rd' = R /\ wr' = W
      /\ UNCHANGED <<ready, block, walk, cur, req, open>>
  BY DEF Select
<1>2. WalkOK'
  BY <1>1 DEF FdInv, WalkOK
<1>3. ASSUME NEW r \in Req PROVE Owns(r)'
  <2>0. Owns(r)
    BY DEF FdInv
  <2>1. Of(r, rd)' \subseteq Of(r, rd) /\ Of(r, wr)' \subseteq Of(r, wr)
    BY <1>1 DEF Of
  <2>2. ShapeOf(r)' /\ OpenOf(r)'
    BY <1>1, <2>0 DEF Owns, ShapeOf, OpenOf, Conns, Of, Held
  <2>3. WaitingOf(r)'
    BY <1>1, <2>0, <2>1 DEF Owns, WaitingOf, WatchRead, WatchWrite, WaitsForWrite
  <2>4. StrayOf(r)'
    BY <1>1, <2>0, <2>1 DEF Owns, StrayOf, Stray, Settling, ClearRead, ClearWrite
  <2> QED BY <2>2, <2>3, <2>4 DEF Owns
<1> QED BY <1>2, <1>3 DEF FdInv

\* What fdset_update does to the bits of one request.
LEMMA FdsetUpdateBits ==
  ASSUME FdsetUpdate, block \subseteq Req, req \in [Req -> Request], NEW r \in Req
  PROVE  /\ req'[r] = IF r \in block /\ TimedOut(r)
                      THEN [req[r] EXCEPT !.status = "TIMED_OUT"] ELSE req[r]
         /\ r \notin block => /\ r \notin block' /\ (r \in ready' <=> r \in ready)
                              /\ Of(r, rd') = Of(r, rd) /\ Of(r, wr') = Of(r, wr)
         /\ r \in block /\ r \in block' =>
              /\ Alive(req'[r])
              /\ Of(r, rd') = Of(r, rd) \cup WatchRead(r, req'[r])
              /\ Of(r, wr') = Of(r, wr) \cup WatchWrite(r, req'[r])
         /\ r \in block /\ r \notin block' =>
              /\ r \in ready'
              /\ Of(r, rd') = Of(r, rd) \ WatchRead(r, req'[r])
              /\ Of(r, wr') = Of(r, wr) \ WatchWrite(r, req'[r])
<1> DEFINE now == [q \in Req |-> IF q \in block /\ TimedOut(q)
                                 THEN [req[q] EXCEPT !.status = "TIMED_OUT"] ELSE req[q]]
           woken == {q \in block : \/ ~Alive(now[q])
                                   \/ WatchRead(q, now[q]) \cap rd # {}
                                   \/ WatchWrite(q, now[q]) \cap wr # {}}
           waiting == block \ woken
<1>1. req' = now
  BY DEF FdsetUpdate
<1>2. ready' = ready \cup woken /\ block' = waiting
  BY DEF FdsetUpdate
<1>3. rd' = (rd \ (UNION {WatchRead(q, now[q]) : q \in woken}))
              \cup (UNION {WatchRead(q, now[q]) : q \in waiting})
  BY DEF FdsetUpdate
<1>4. wr' = (wr \ (UNION {WatchWrite(q, now[q]) : q \in woken}))
              \cup (UNION {WatchWrite(q, now[q]) : q \in waiting})
  BY DEF FdsetUpdate
<1>5. \A q \in waiting : Alive(now[q])
  OBVIOUS
<1>6. now[r] = IF r \in block /\ TimedOut(r)
               THEN [req[r] EXCEPT !.status = "TIMED_OUT"] ELSE req[r]
  OBVIOUS
<1>7. woken \subseteq block /\ waiting = block \ woken
  OBVIOUS
<1> HIDE DEF now, woken, waiting
<1>8. \A q, c : \A d \in WatchRead(q, c) \cup WatchWrite(q, c) : d[2] = q
  BY DEF WatchRead, WatchWrite, Sock, Data, Post
<1>9. Of(r, rd') = IF r \in woken THEN Of(r, rd) \ WatchRead(r, now[r])
                   ELSE IF r \in waiting THEN Of(r, rd) \cup WatchRead(r, now[r]) ELSE Of(r, rd)
  BY <1>3, <1>7, <1>8 DEF Of
<1>10. Of(r, wr') = IF r \in woken THEN Of(r, wr) \ WatchWrite(r, now[r])
                    ELSE IF r \in waiting THEN Of(r, wr) \cup WatchWrite(r, now[r]) ELSE Of(r, wr)
  BY <1>4, <1>7, <1>8 DEF Of
<1> QED BY <1>1, <1>2, <1>5, <1>6, <1>7, <1>9, <1>10

LEMMA FdUpdate ==
  ASSUME IInv, TypeOK, FdInv, FdsetUpdate
  PROVE  FdInv'
<1>1. /\ pc = "update" /\ UNCHANGED <<walk, cur, open>>
      /\ pc' = IF pending_requests' \/ ready' # {} THEN "first" ELSE "top"
  BY DEF FdsetUpdate
<1>2. walk = {} /\ cur = {} /\ walk' = {}
  BY <1>1 DEF FdInv, WalkOK, IInv, ListsOK
<1>3. WalkOK'
  BY <1>1, <1>2 DEF WalkOK
<1>4. Conns' = Conns
  BY FdsetUpdateOK
<1>5. ASSUME NEW r \in Req PROVE Owns(r)'
  <2>0. Owns(r) /\ req[r] \in Request
    BY DEF FdInv, TypeOK
  <2>1. Settling = {}
    BY <1>1, <1>2 DEF Settling
  <2>2. r \in ready' => r \in Settling'
    BY <1>1 DEF Settling
  <2>b. block \subseteq Req /\ req \in [Req -> Request]
    BY DEF TypeOK
  <2>3. CASE r \notin block
    <3>1. req'[r] = req[r] /\ r \notin block' /\ Of(r, rd') = Of(r, rd) /\ Of(r, wr') = Of(r, wr)
      BY <2>3, <2>b, FdsetUpdateBits
    <3>2. Of(r, rd') = {} /\ Of(r, wr') = {}
      BY <2>0, <2>1, <2>3, <3>1 DEF Owns, StrayOf, Stray
    <3>3. OpenOf(r)' /\ ShapeOf(r)'
      BY <1>1, <1>4, <2>0, <3>1 DEF Owns, OpenOf, ShapeOf, Of, Held
    <3> QED BY <3>1, <3>2, <3>3 DEF Owns, WaitingOf, StrayOf, Of
  <2>4. CASE r \in block
    <3>0. /\ Shape(req[r]) /\ r \in Conns
          /\ Of(r, rd) \subseteq WatchRead(r, req[r]) /\ Of(r, wr) \subseteq WatchWrite(r, req[r])
      BY <1>2, <2>0, <2>4 DEF Owns, ShapeOf, WaitingOf, Conns
    <3>1. req'[r] = req[r] \/ req'[r] = [req[r] EXCEPT !.status = "TIMED_OUT"]
      BY <2>4, <2>b, FdsetUpdateBits
    <3>2. /\ Shape(req'[r])
          /\ req'[r].data_fd = req[r].data_fd /\ req'[r].post_data_fd = req[r].post_data_fd
      BY <2>0, <3>0, <3>1 DEF Shape, Request
    <3>3. OpenOf(r)' /\ ShapeOf(r)'
      BY <1>1, <1>4, <2>0, <3>2 DEF Owns, OpenOf, ShapeOf, Of, Held
    <3>4. CASE r \in block'
      <4>1. /\ Alive(req'[r])
            /\ Of(r, rd') = Of(r, rd) \cup WatchRead(r, req'[r])
            /\ Of(r, wr') = Of(r, wr) \cup WatchWrite(r, req'[r])
        BY <2>4, <2>b, <3>4, FdsetUpdateBits
      <4>2. req'[r] = req[r]
        BY <2>0, <3>1, <4>1 DEF Alive, Request
      <4>3. /\ Of(r, rd') = WatchRead(r, req'[r]) /\ Of(r, wr') = WatchWrite(r, req'[r])
        BY <3>0, <4>1, <4>2
      <4>4. WaitingOf(r)' /\ StrayOf(r)'
        BY <3>4, <4>3 DEF WaitingOf, StrayOf, Of, WatchRead, WatchWrite, WaitsForWrite
      <4> QED BY <3>3, <4>4 DEF Owns
    <3>5. CASE r \notin block'
      <4>1. /\ r \in ready'
            /\ Of(r, rd') = Of(r, rd) \ WatchRead(r, req'[r])
            /\ Of(r, wr') = Of(r, wr) \ WatchWrite(r, req'[r])
        BY <2>4, <2>b, <3>5, FdsetUpdateBits
      <4>2. CASE req'[r] = req[r]
        BY <3>0, <3>3, <3>5, <4>1, <4>2 DEF Owns, WaitingOf, StrayOf, Of
      <4>3. CASE req'[r] = [req[r] EXCEPT !.status = "TIMED_OUT"]
        <5>1. ~Alive(req'[r])
          BY <2>0, <4>3 DEF Alive, Request
        <5>2. /\ Of(r, rd') \subseteq {Sock(r)} \cup ClearRead(r, req'[r])
              /\ Of(r, wr') \subseteq {Sock(r)} \cup ClearWrite(r, req'[r])
          BY <2>0, <3>0, <3>2, <4>1 DEF Shape, WatchRead, WatchWrite, ClearRead, ClearWrite, Request
        <5>3. Stray(r)'
          BY <2>2, <4>1, <5>1, <5>2 DEF Stray, Of, ClearRead, ClearWrite, Alive
        <5> QED BY <3>3, <3>5, <5>3 DEF Owns, WaitingOf, StrayOf
      <4> QED BY <3>1, <4>2, <4>3
    <3> QED BY <3>4, <3>5
  <2> QED BY <2>3, <2>4
<1> QED BY <1>3, <1>5 DEF FdInv

\* A step of the walk that touches request r leaves every other as it was.
LEMMA Others ==
  ASSUME FdInv, TypeOK, TypeOK', NEW r \in Req, NEW q \in Req, q # r,
         pc \in {"walk", "accept", "settle"}, pc' \in {"walk", "accept", "settle"},
         req'[q] = req[q],
         q \in ready' <=> q \in ready, q \in block' <=> q \in block,
         \A d \in Fd : d[2] # r => /\ d \in rd' <=> d \in rd
                                   /\ d \in wr' <=> d \in wr
                                   /\ d \in open' <=> d \in open,
         q \in walk => q \in walk',
         <<q, 0>> \in cur => <<q, 0>> \in cur'
  PROVE  Owns(q)'
<1>1. Owns(q)
  BY DEF FdInv
<1>2. /\ rd \subseteq Fd /\ wr \subseteq Fd /\ open \subseteq Fd
      /\ rd' \subseteq Fd /\ wr' \subseteq Fd /\ open' \subseteq Fd
  BY DEF TypeOK
<1>3. Of(q, rd)' = Of(q, rd) /\ Of(q, wr)' = Of(q, wr) /\ Of(q, open)' = Of(q, open)
  BY <1>2 DEF Of
<1>4. q \in Conns' <=> q \in Conns
  BY DEF Conns
<1>5. q \in Settling => q \in Settling'
  BY DEF Settling
<1>6. pc # "update"
  OBVIOUS
<1> QED BY <1>1, <1>3, <1>4, <1>5, <1>6, Frame

\* A connection just accepted has no descriptor but its socket.
LEMMA NewRequestsBare ==
  ASSUME NEW c \in NewRequests
  PROVE  Shape(c) /\ ~c.data_fd /\ ~c.post_data_fd
<1> DEFINE X == {d \in Request : ~d.data_fd /\ ~d.post_data_fd /\ Shape(d)}
           fresh == Sanitized(KaMax)
<1>1. fresh \in X
  BY HandlerAssumption, SanitizedType DEF Sanitized, Shape
<1>2. Closed(X)
  <2> SUFFICES ASSUME NEW d \in X
               PROVE  /\ [d EXCEPT !.response = "below500"] \in X
                      /\ [d EXCEPT !.response = "5xx"] \in X
                      /\ [d EXCEPT !.buffer = TRUE] \in X
                      /\ [d EXCEPT !.buffer = FALSE] \in X
                      /\ [d EXCEPT !.status = "DONE"] \in X
                      /\ Die(d) \in X
                      /\ SquashKa(d) \in X
    BY DEF Closed
  <2>1. d \in Request /\ Shape(d) /\ ~d.data_fd /\ ~d.post_data_fd
    OBVIOUS
  <2>2. d \in Shaped(d.kacount)
    BY <2>1 DEF Shaped, Counted
  <2>3. /\ [d EXCEPT !.response = "below500"] \in Shaped(d.kacount)
        /\ [d EXCEPT !.response = "5xx"] \in Shaped(d.kacount)
        /\ [d EXCEPT !.buffer = TRUE] \in Shaped(d.kacount)
        /\ [d EXCEPT !.buffer = FALSE] \in Shaped(d.kacount)
        /\ [d EXCEPT !.status = "DONE"] \in Shaped(d.kacount)
        /\ Die(d) \in Shaped(d.kacount)
        /\ SquashKa(d) \in Shaped(d.kacount)
    BY <2>2, ClosedShaped DEF Closed
  <2> QED BY <2>1, <2>3 DEF Shaped, Counted, Die, SquashKa, Request
<1>3. SendPage(fresh, "5xx") \subseteq X
  BY <1>1, <1>2, ClosedSendPage
<1>4. \A d \in X : [d EXCEPT !.status = "DONE"] \in X
  BY <1>2 DEF Closed
<1>5. c \in X
  BY <1>1, <1>3, <1>4 DEF NewRequests
<1> QED BY <1>5

\* get_request: the structure it takes was on no list and had no bits.
LEMMA FdAccept ==
  ASSUME IInv, FdInv, TypeOK, TypeOK', NEW r \in Req, Accepted(r),
         pc \in {"first", "accept"},
         UNCHANGED <<block, cur, rd, wr>>,
         \A q \in ready \cup {r} : q \in Settling => q \in Settling'
  PROVE  \A q \in Req : Owns(q)'
<1> TAKE q \in Req
<1>1. PICK c \in NewRequests : req' = [req EXCEPT ![r] = c]
  BY DEF Accepted
<1>2. /\ open' = open \cup {Sock(r)} /\ ready' = ready \cup {r}
      /\ r \notin ready /\ r \notin block
  BY DEF Accepted, Conns
<1>3. Settling \subseteq ready
  BY DEF Settling, IInv, ListsOK
<1>4. req \in [Req -> Request]
  BY DEF TypeOK
<1>5. CASE q # r
  <2>1. req'[q] = req[q]
    BY <1>1, <1>4, <1>5
  <2>2. Of(q, rd)' = Of(q, rd) /\ Of(q, wr)' = Of(q, wr) /\ Of(q, open)' = Of(q, open)
    BY <1>2, <1>5 DEF Of, Sock
  <2>3. q \in Conns' <=> q \in Conns
    BY <1>2, <1>5 DEF Conns
  <2>4. q \in Settling => q \in Settling'
    BY <1>3
  <2>5. Owns(q) /\ pc # "update"
    BY DEF FdInv
  <2> QED BY <2>1, <2>2, <2>3, <2>4, <2>5, Frame
<1>6. CASE q = r
  <2>1. req'[r] = c /\ Shape(c) /\ ~c.data_fd /\ ~c.post_data_fd
    BY <1>1, <1>4, NewRequestsBare
  <2>2. Owns(r) /\ r \notin Conns
    BY <1>2 DEF FdInv, Conns
  <2>3. Of(r, rd) = {} /\ Of(r, wr) = {}
    BY <1>2, <1>3, <2>2 DEF Owns, StrayOf, Stray
  <2>4. Of(r, open) \ {Orphan(r)} = {}
    BY <2>2 DEF Owns, OpenOf
  <2>5. OpenOf(r)'
    BY <1>2, <2>1, <2>4 DEF OpenOf, Of, Conns, Held, Sock, Orphan
  <2>6. ShapeOf(r)' /\ WaitingOf(r)' /\ StrayOf(r)'
    BY <1>2, <2>1, <2>3 DEF ShapeOf, WaitingOf, StrayOf, Of
  <2> QED BY <1>6, <2>5, <2>6 DEF Owns
<1> QED BY <1>5, <1>6

\* process_requests's two calls of get_request.
LEMMA FdProcess ==
  ASSUME IInv, FdInv, TypeOK, TypeOK', ProcessRequests \/ AcceptMore
  PROVE  FdInv'
<1>1. /\ pc \in {"first", "accept"} /\ pc' \in {"walk", "settle"}
      /\ pc = "first" => walk' = ready' /\ cur = {}
      /\ pc = "accept" => walk' = walk
      /\ UNCHANGED <<block, cur, rd, wr>>
      /\ IF pending_requests THEN GetRequest ELSE UNCHANGED <<ready, req, open>>
  BY DEF ProcessRequests, AcceptMore, IInv, ListsOK
<1>2. WalkOK'
  BY <1>1 DEF FdInv, WalkOK
<1>3. ready \subseteq ready' => Settling \subseteq Settling'
  BY <1>1 DEF Settling
<1>4. CASE UNCHANGED <<ready, req, open>>
  <2>1. ASSUME NEW q \in Req PROVE Owns(q)'
    <3>1. Owns(q) /\ pc # "update"
      BY <1>1 DEF FdInv
    <3>2. Of(q, rd)' = Of(q, rd) /\ Of(q, wr)' = Of(q, wr) /\ Of(q, open)' = Of(q, open)
      BY <1>1, <1>4 DEF Of
    <3>3. q \in Conns' <=> q \in Conns
      BY <1>1, <1>4 DEF Conns
    <3> QED BY <1>1, <1>3, <1>4, <3>1, <3>2, <3>3, Frame
  <2> QED BY <1>2, <2>1 DEF FdInv
<1>5. ASSUME NEW r \in Req, Accepted(r) PROVE FdInv'
  <2>1. ready \subseteq ready'
    BY <1>5 DEF Accepted
  <2>2. \A q \in Req : Owns(q)'
    BY <1>1, <1>3, <1>5, <2>1, FdAccept
  <2> QED BY <1>2, <2>2 DEF FdInv
<1> QED BY <1>1, <1>4, <1>5 DEF GetRequest

\* A turn of a handler: the request may gain and lose descriptors, and keeps
\* what its next step needs; one that timed out keeps its stray bits.
LEMMA FdVisit ==
  ASSUME IInv, FdInv, TypeOK, TypeOK', NEW r \in Req, Visit(r)
  PROVE  FdInv'
<1>1. PICK o \in Process(req[r]) :
        /\ req' = [req EXCEPT ![r] = Squashed(o.req)]
        /\ cur' = {<<r, o.ret>>}
        /\ open' = (open \ Held(r, req[r])) \cup Held(r, o.req)
                     \cup {q \in {Orphan(r)} : o.req.orphan}
  BY DEF Visit
<1>2. /\ pc = "walk" /\ pc' = "accept" /\ r \in walk /\ walk' = walk \ {r}
      /\ UNCHANGED <<ready, block, rd, wr>>
  BY DEF Visit
<1>3. cur = {} /\ r \in ready /\ r \notin block /\ r \in Conns /\ r \in Conns'
  BY <1>2 DEF IInv, ListsOK, Conns
<1>4. req \in [Req -> Request] /\ req[r] \in Request /\ Owns(r)
  BY DEF TypeOK, FdInv
<1>5. req[r] \in Shaped(req[r].kacount)
  BY <1>3, <1>4 DEF Owns, ShapeOf, Shaped, Counted
<1>6. o \in Outcome /\ o.req \in Request /\ (o.ret # 0 => Shape(o.req))
  BY <1>5, ProcessSound DEF Sound, Counted
<1>7. WalkOK'
  BY <1>1, <1>2 DEF WalkOK
<1> DEFINE d == req'[r]
<1>8. /\ d = Squashed(o.req)
      /\ d.status = o.req.status /\ d.data_fd = o.req.data_fd
      /\ d.post_data_fd = o.req.post_data_fd
  BY <1>1, <1>4, <1>6 DEF Squashed, SquashKa, Request
<1> HIDE DEF d
<1>9. ShapeOf(r)'
  BY <1>1, <1>6, <1>8 DEF ShapeOf, Shape, d, Outcome
<1>10. WaitingOf(r)'
  BY <1>2, <1>3 DEF WaitingOf
<1>11. StrayOf(r)'
  <2>1. CASE Of(r, rd) = {} /\ Of(r, wr) = {}
    BY <1>2, <2>1 DEF StrayOf, Of
  <2>2. CASE Stray(r)
    <3>1. /\ o.ret = 0 /\ ~Alive(o.req)
          /\ o.req.data_fd = req[r].data_fd /\ o.req.post_data_fd = req[r].post_data_fd
      BY <1>4, <2>2, ProcessDead DEF Stray
    <3>2. r \in Settling'
      BY <1>1, <1>2, <3>1 DEF Settling
    <3>3. /\ Of(r, rd)' \subseteq {Sock(r)} \cup ClearRead(r, d)
          /\ Of(r, wr)' \subseteq {Sock(r)} \cup ClearWrite(r, d)
      BY <1>2, <1>8, <2>2, <3>1 DEF Stray, Of, ClearRead, ClearWrite
    <3>4. Stray(r)'
      BY <1>8, <3>1, <3>2, <3>3 DEF Stray, Alive, d, ClearRead, ClearWrite
    <3> QED BY <3>4 DEF StrayOf
  <2> QED BY <1>3, <1>4, <2>1, <2>2 DEF Owns, StrayOf
<1>12. OpenOf(r)'
  <2>1. Of(r, open) \ {Orphan(r)} = {Sock(r)} \cup Held(r, req[r])
    BY <1>3, <1>4 DEF Owns, OpenOf
  <2>2. Held(r, d) = Held(r, o.req)
    BY <1>8 DEF Held
  <2>3. \A c : Held(r, c) \subseteq {Data(r), Post(r)}
    BY DEF Held
  <2>4. \A x \in {Data(r), Post(r), Sock(r), Orphan(r)} : x[2] = r
    BY DEF Data, Post, Sock, Orphan
  <2>5. Sock(r) \notin {Data(r), Post(r), Orphan(r)} /\ Orphan(r) \notin {Data(r), Post(r)}
    BY DEF Data, Post, Sock, Orphan
  <2>6. Of(r, open') \ {Orphan(r)} = {Sock(r)} \cup Held(r, o.req)
    BY <1>1, <2>1, <2>3, <2>4, <2>5 DEF Of
  <2> QED BY <1>3, <2>2, <2>6 DEF OpenOf, Of, d, Held
<1>13. ASSUME NEW q \in Req, q # r PROVE Owns(q)'
  <2>1. \A x \in Fd : x[2] # r => (x \in open' <=> x \in open)
    BY <1>1 DEF Held, Data, Post, Orphan
  <2>2. req'[q] = req[q]
    BY <1>1, <1>4, <1>13
  <2>3. q \in walk => q \in walk'
    BY <1>2, <1>13
  <2> QED BY <1>2, <1>3, <1>13, <2>1, <2>2, <2>3, Others
<1> QED BY <1>7, <1>9, <1>10, <1>11, <1>12, <1>13 DEF FdInv, Owns

\* A request that is not over has no stray bit, so block_request leaves
\* exactly the one it waits on.
LEMMA FdBlock ==
  ASSUME IInv, FdInv, TypeOK, TypeOK', NEW r \in Req, BlockRequest(r)
  PROVE  FdInv'
<1>1. /\ pc = "settle" /\ pc' = "walk" /\ <<r, -1>> \in cur /\ cur' = {}
      /\ ready' = ready \ {r} /\ block' = block \cup {r}
      /\ rd' = rd \cup WatchRead(r, req[r]) /\ wr' = wr \cup WatchWrite(r, req[r])
      /\ UNCHANGED <<walk, req, open>>
  BY DEF BlockRequest
<1>2. cur = {<<r, -1>>}
  BY <1>1 DEF FdInv, WalkOK
<1>3. r \in ready /\ r \notin walk /\ r \notin block /\ r \in Conns /\ r \in Conns'
  BY <1>1 DEF IInv, ListsOK, Conns
<1>4. Owns(r)
  BY DEF FdInv
<1>5. Of(r, rd) = {} /\ Of(r, wr) = {}
  BY <1>1, <1>2, <1>3, <1>4 DEF Owns, StrayOf, Stray, Settling
<1>6. ShapeOf(r)' /\ OpenOf(r)'
  BY <1>1, <1>2, <1>3, <1>4 DEF Owns, ShapeOf, OpenOf, Of, Held
<1>7. \A x \in WatchRead(r, req[r]) \cup WatchWrite(r, req[r]) : x[2] = r
  BY DEF WatchRead, WatchWrite, Sock, Data, Post
<1>8. Of(r, rd') = WatchRead(r, req[r]) /\ Of(r, wr') = WatchWrite(r, req[r])
  BY <1>1, <1>5, <1>7 DEF Of
<1>9. WaitingOf(r)' /\ StrayOf(r)'
  BY <1>1, <1>8 DEF WaitingOf, StrayOf, Of, WatchRead, WatchWrite, WaitsForWrite
<1>10. WalkOK'
  BY <1>1 DEF WalkOK
<1>11. ASSUME NEW q \in Req, q # r PROVE Owns(q)'
  <2>1. \A x \in Fd : x[2] # r => (x \in rd' <=> x \in rd) /\ (x \in wr' <=> x \in wr)
    BY <1>1, <1>7
  <2>2. <<q, 0>> \notin cur
    BY <1>2
  <2> QED BY <1>1, <1>11, <2>1, <2>2, Others
<1> QED BY <1>6, <1>9, <1>10, <1>11 DEF FdInv, Owns

LEMMA FdKeep ==
  ASSUME IInv, FdInv, TypeOK, TypeOK', NEW r \in Req, KeepReady(r)
  PROVE  FdInv'
<1>1. /\ pc = "settle" /\ pc' = "walk" /\ <<r, 1>> \in cur /\ cur' = {}
      /\ UNCHANGED <<ready, block, walk, req, rd, wr, open>>
  BY DEF KeepReady
<1>2. cur = {<<r, 1>>}
  BY <1>1 DEF FdInv, WalkOK
<1>3. WalkOK'
  BY <1>1 DEF WalkOK
<1>4. ASSUME NEW q \in Req PROVE Owns(q)'
  <2>1. <<q, 0>> \notin cur
    BY <1>2
  <2>2. q \in Settling => q \in Settling'
    BY <1>1, <2>1 DEF Settling
  <2>3. q \in Conns' <=> q \in Conns
    BY <1>1 DEF Conns
  <2>4. Of(q, rd)' = Of(q, rd) /\ Of(q, wr)' = Of(q, wr) /\ Of(q, open)' = Of(q, open)
    BY <1>1 DEF Of
  <2>5. Owns(q) /\ pc # "update"
    BY <1>1 DEF FdInv
  <2> QED BY <1>1, <2>1, <2>2, <2>3, <2>4, <2>5, Frame
<1> QED BY <1>3, <1>4 DEF FdInv

\* free_request: an early return leaves a live request, which has no bits; a
\* recycled one is watched for reading only; a released one gives up its bits,
\* the stray ones included, and its descriptors.
LEMMA FdFree ==
  ASSUME IInv, FdInv, TypeOK, TypeOK', NEW r \in Req, FreeRequest(r)
  PROVE  FdInv'
<1>1. /\ pc = "settle" /\ pc' = "walk" /\ <<r, 0>> \in cur /\ cur' = {}
      /\ UNCHANGED walk
  BY DEF FreeRequest
<1>2. PICK f \in FinalFlush(req[r]) :
        IF f.ret = 1
        THEN /\ req' = [req EXCEPT ![r] = f.req]
             /\ UNCHANGED <<ready, block, open, rd, wr>>
        ELSE Recycle(r, f.req) \/ Release(r, f.req)
  BY DEF FreeRequest
<1> DEFINE c == f.req
<1>3. cur = {<<r, 0>>}
  BY <1>1 DEF FdInv, WalkOK
<1>4. r \in ready /\ r \notin walk /\ r \notin block /\ r \in Conns
  BY <1>1 DEF IInv, ListsOK, Conns
<1>5. Owns(r) /\ req \in [Req -> Request] /\ req[r] \in Request
  BY DEF FdInv, TypeOK
<1>6. /\ c.data_fd = req[r].data_fd /\ c.post_data_fd = req[r].post_data_fd
      /\ f.ret = 1 => Alive(req[r]) /\ c.status = "DONE"
      /\ ~Alive(req[r]) => c = req[r]
  BY <1>5, FinalFlushKeeps
<1>7. Alive(req[r]) => Of(r, rd) = {} /\ Of(r, wr) = {}
  BY <1>4, <1>5 DEF Owns, StrayOf, Stray
<1>8. /\ Of(r, rd) \subseteq {Sock(r)} \cup ClearRead(r, c)
      /\ Of(r, wr) \subseteq {Sock(r)} \cup ClearWrite(r, c)
  BY <1>4, <1>5, <1>6 DEF Owns, StrayOf, Stray, ClearRead, ClearWrite
<1>9. Of(r, open) \ {Orphan(r)} = {Sock(r)} \cup Held(r, c)
  BY <1>4, <1>5, <1>6 DEF Owns, OpenOf, Held
<1> HIDE DEF c
<1>10. \A x \in {Sock(r), Orphan(r)} \cup ClearRead(r, c) \cup ClearWrite(r, c) \cup Held(r, c) :
         x[2] = r
  BY DEF Data, Post, Sock, Orphan, ClearRead, ClearWrite, Held
<1>11. Sock(r) \notin {Orphan(r)} \cup ClearRead(r, c) \cup ClearWrite(r, c) \cup Held(r, c)
  BY DEF Data, Post, Sock, Orphan, ClearRead, ClearWrite, Held
<1>12. WalkOK'
  BY <1>1 DEF WalkOK
<1>13. CASE f.ret = 1
  <2>1. /\ req'[r] = c
        /\ UNCHANGED <<ready, block, open, rd, wr>>
        /\ \A q \in Req : q # r => req'[q] = req[q]
    BY <1>2, <1>5, <1>13 DEF c
  <2>2. Owns(r)'
    <3>1. Shape(c)
      BY <1>6, <1>13 DEF Shape
    <3>2. Of(r, rd)' = {} /\ Of(r, wr)' = {}
      BY <1>6, <1>7, <1>13, <2>1 DEF Of
    <3>3. ShapeOf(r)' /\ WaitingOf(r)' /\ StrayOf(r)'
      BY <1>4, <2>1, <3>1, <3>2 DEF ShapeOf, WaitingOf, StrayOf
    <3>4. OpenOf(r)'
      BY <1>4, <1>9, <2>1 DEF OpenOf, Of, Conns, Held
    <3> QED BY <3>3, <3>4 DEF Owns
  <2>3. ASSUME NEW q \in Req, q # r PROVE Owns(q)'
    <3>1. <<q, 0>> \notin cur
      BY <1>3, <2>3
    <3> QED BY <1>1, <2>1, <2>3, <3>1, Others
  <2> QED BY <1>12, <2>2, <2>3 DEF FdInv
<1>14. CASE Recycle(r, c)
  <2>1. /\ MayRecycle(c)
        /\ ready' = ready \ {r} /\ block' = block \cup {r}
        /\ req' = [req EXCEPT ![r] = Sanitized(c.kacount - 1)]
        /\ open' = open \ Held(r, c)
        /\ rd' = (rd \ ClearRead(r, c)) \cup Rearm(r)
        /\ wr' = wr \ (ClearWrite(r, c) \cup {Sock(r)})
    BY <1>14 DEF Recycle
  <2>2. Alive(req[r])
    BY <1>6, <2>1 DEF MayRecycle
  <2>3. Of(r, rd') = {Sock(r)} /\ Of(r, wr') = {}
    BY <1>7, <1>10, <2>1, <2>2 DEF Of, Rearm
  <2>4. req'[r] = Sanitized(c.kacount - 1) /\ \A q \in Req : q # r => req'[q] = req[q]
    BY <1>5, <2>1
  <2>5. /\ WatchRead(r, req'[r]) = {Sock(r)} /\ WatchWrite(r, req'[r]) = {}
        /\ Held(r, req'[r]) = {} /\ Shape(req'[r])
    BY <2>4 DEF Sanitized, WatchRead, WatchWrite, WaitsForWrite, Held, Shape
  <2>6. Of(r, open') \ {Orphan(r)} = {Sock(r)}
    BY <1>9, <1>10, <1>11, <2>1 DEF Of
  <2>7. ShapeOf(r)' /\ OpenOf(r)'
    BY <2>1, <2>5, <2>6 DEF ShapeOf, OpenOf, Of, Conns, Held
  <2>8. WaitingOf(r)' /\ StrayOf(r)'
    BY <2>1, <2>3, <2>5 DEF WaitingOf, StrayOf, Of, WatchRead, WatchWrite, WaitsForWrite
  <2>9. ASSUME NEW q \in Req, q # r PROVE Owns(q)'
    <3>1. <<q, 0>> \notin cur
      BY <1>3, <2>9
    <3>2. \A x \in Fd : x[2] # r => /\ x \in rd' <=> x \in rd
                                    /\ x \in wr' <=> x \in wr
                                    /\ x \in open' <=> x \in open
      BY <1>10, <2>1 DEF Rearm
    <3> QED BY <1>1, <2>1, <2>4, <2>9, <3>1, <3>2, Others
  <2> QED BY <1>12, <2>7, <2>8, <2>9 DEF FdInv, Owns
<1>15. CASE Release(r, c)
  <2>1. /\ ready' = ready \ {r} /\ UNCHANGED block
        /\ req' = [req EXCEPT ![r] = Sanitized(KaMax)]
        /\ open' = open \ (Held(r, c) \cup {Sock(r)})
        /\ rd' = rd \ (ClearRead(r, c) \cup {Sock(r)})
        /\ wr' = wr \ (ClearWrite(r, c) \cup {Sock(r)})
    BY <1>15 DEF Release
  <2>2. Of(r, rd') = {} /\ Of(r, wr') = {} /\ Of(r, open') \ {Orphan(r)} = {}
    BY <1>8, <1>9, <2>1 DEF Of
  <2>3. r \notin Conns' /\ r \notin block'
    BY <1>4, <2>1 DEF Conns
  <2>4. Owns(r)'
    BY <2>2, <2>3 DEF Owns, ShapeOf, WaitingOf, StrayOf, OpenOf, Of
  <2>5. \A q \in Req : q # r => req'[q] = req[q]
    BY <1>5, <2>1
  <2>6. ASSUME NEW q \in Req, q # r PROVE Owns(q)'
    <3>1. <<q, 0>> \notin cur
      BY <1>3, <2>6
    <3>2. \A x \in Fd : x[2] # r => /\ x \in rd' <=> x \in rd
                                    /\ x \in wr' <=> x \in wr
                                    /\ x \in open' <=> x \in open
      BY <1>10, <2>1
    <3> QED BY <1>1, <2>1, <2>5, <2>6, <3>1, <3>2, Others
  <2> QED BY <1>12, <2>4, <2>6 DEF FdInv
<1> QED BY <1>2, <1>13, <1>14, <1>15 DEF c

LEMMA FdNext == IInv /\ FdInv /\ TypeOK /\ TypeOK' /\ [Next]_vars => FdInv'
<1> SUFFICES ASSUME IInv, FdInv, TypeOK, TypeOK', [Next]_vars PROVE FdInv' OBVIOUS
<1>1. CASE Sigterm \/ Interrupt \/ EnterSelect \/ LoopTop
  <2>1. /\ UNCHANGED <<ready, block, walk, cur, req, rd, wr, open>>
        /\ \/ pc' = pc
           \/ pc \in {"top", "enter", "select"} /\ pc' \in {"top", "enter", "select", "exited"}
    BY <1>1 DEF Sigterm, Interrupt, EnterSelect, LoopTop
  <2> QED BY <2>1, FdIdle
<1>2. CASE EndWalk \/ Tick \/ UNCHANGED vars
  BY <1>2, FdIdle DEF EndWalk, Tick, vars
<1>3. ASSUME NEW R \in SUBSET rd, NEW W \in SUBSET wr, NEW l \in {FALSE, listen},
             Select(R, W, l)
      PROVE FdInv'
  BY <1>3, FdSelect
<1>4. CASE FdsetUpdate
  BY <1>4, FdUpdate
<1>5. CASE ProcessRequests \/ AcceptMore
  BY <1>5, FdProcess
<1>6. ASSUME NEW r \in Req,
             Visit(r) \/ BlockRequest(r) \/ KeepReady(r) \/ FreeRequest(r)
      PROVE FdInv'
  BY <1>6, FdVisit, FdBlock, FdKeep, FdFree
<1> QED BY <1>1, <1>2, <1>3, <1>4, <1>5, <1>6 DEF Next, Exited

\* In every reachable state each request owns exactly its descriptors and its
\* bits, whatever its handlers, timeouts and reuses were.
THEOREM Ownership == Spec => []FdInv
BY FdInit, FdNext, Invariance, TypeCorrect, PTL DEF Spec

\* Between two passes nothing is being settled, so no bit is stray.
LEMMA Between ==
  ASSUME IInv, FdInv, TypeOK, pc \in {"top", "enter", "select"}, NEW r \in Req
  PROVE  /\ Of(r, rd) = IF r \in block THEN WatchRead(r, req[r]) ELSE {}
         /\ Of(r, wr) = IF r \in block THEN WatchWrite(r, req[r]) ELSE {}
         /\ r \in Conns => Shape(req[r])
         /\ OpenOf(r)
<1>1. Owns(r) /\ cur = {} /\ walk = {}
  BY DEF FdInv, WalkOK, IInv, ListsOK
<1>2. r \notin Settling
  BY <1>1 DEF Settling
<1>3. \A c : \A x \in WatchRead(r, c) \cup WatchWrite(r, c) : x[2] = r
  BY DEF WatchRead, WatchWrite, Sock, Data, Post
<1>4. CASE r \in block
  BY <1>1, <1>3, <1>4 DEF Owns, WaitingOf, ShapeOf, Of
<1>5. CASE r \notin block
  BY <1>1, <1>2, <1>5 DEF Owns, StrayOf, Stray, ShapeOf
<1> QED BY <1>4, <1>5

\* For every number of requests and every schedule, select waits for exactly
\* what the blocked requests wait for.
THEOREM Watched == Spec => []WatchedExactly
<1>1. IInv /\ FdInv /\ TypeOK => WatchedExactly
  <2> SUFFICES ASSUME IInv, FdInv, TypeOK, pc \in {"top", "enter", "select"}
               PROVE  /\ rd = UNION {WatchRead(r, req[r]) : r \in block}
                      /\ wr = UNION {WatchWrite(r, req[r]) : r \in block}
    BY DEF WatchedExactly
  <2>1. rd \subseteq Fd /\ wr \subseteq Fd /\ block \subseteq Req
    BY DEF TypeOK
  <2>2. \A d \in Fd : d[2] \in Req
    BY DEF Fd
  <2>3. \A d \in rd : d[2] \in Req /\ d \in Of(d[2], rd)
    BY <2>1, <2>2 DEF Of
  <2>4. \A d \in wr : d[2] \in Req /\ d \in Of(d[2], wr)
    BY <2>1, <2>2 DEF Of
  <2>5. \A d \in rd : d[2] \in block /\ d \in WatchRead(d[2], req[d[2]])
    BY <2>3, Between
  <2>6. \A d \in wr : d[2] \in block /\ d \in WatchWrite(d[2], req[d[2]])
    BY <2>4, Between
  <2>7. \A r \in block : WatchRead(r, req[r]) \subseteq rd /\ WatchWrite(r, req[r]) \subseteq wr
    BY <2>1, Between DEF Of
  <2> QED BY <2>5, <2>6, <2>7
<1> QED BY <1>1, Invariance, Ownership, TypeCorrect, PTL

\* For every number of requests and every schedule, select is never given a
\* closed descriptor, and the open ones are those the connections name.
THEOREM Owned == Spec => []DescriptorsOwned
<1>1. IInv /\ FdInv /\ TypeOK => DescriptorsOwned
  <2> SUFFICES ASSUME IInv, FdInv, TypeOK, pc \in {"top", "enter", "select"}
               PROVE  /\ rd \cup wr \subseteq open
                      /\ open \ {Orphan(r) : r \in Req}
                           = UNION {{Sock(r)} \cup Held(r, req[r]) : r \in Conns}
    BY DEF DescriptorsOwned
  <2>1. /\ rd \subseteq Fd /\ wr \subseteq Fd /\ open \subseteq Fd
        /\ block \subseteq Req /\ Conns \subseteq Req /\ block \subseteq Conns
    BY DEF TypeOK, Conns
  <2>2. \A d \in Fd : d[2] \in Req
    BY DEF Fd
  <2>3. ASSUME NEW r \in Conns
        PROVE  /\ {Sock(r)} \cup Held(r, req[r]) \subseteq open
               /\ {Sock(r)} \cup Held(r, req[r]) \subseteq Of(r, open) \ {Orphan(r)}
    <3>1. OpenOf(r)
      BY <2>1, <2>3, Between
    <3> QED BY <2>3, <3>1 DEF OpenOf, Of
  <2>4. ASSUME NEW d \in rd \cup wr
        PROVE  d[2] \in block /\ d \in {Sock(d[2])} \cup Held(d[2], req[d[2]])
    <3>1. d[2] \in Req /\ (d \in Of(d[2], rd) \/ d \in Of(d[2], wr))
      BY <2>1, <2>2, <2>4 DEF Of
    <3> DEFINE r == d[2]
    <3> HIDE DEF r
    <3>2. r \in block /\ (d \in WatchRead(r, req[r]) \/ d \in WatchWrite(r, req[r]))
      BY <3>1, Between DEF r
    <3>3. Shape(req[r])
      BY <2>1, <3>2, Between
    <3> QED BY <3>2, <3>3 DEF r, WatchRead, WatchWrite, Held, Shape
  <2>5. rd \cup wr \subseteq open
    BY <2>1, <2>3, <2>4
  <2>6. ASSUME NEW d \in open, d \notin {Orphan(r) : r \in Req}
        PROVE  d[2] \in Conns /\ d \in {Sock(d[2])} \cup Held(d[2], req[d[2]])
    <3>1. d[2] \in Req
      BY <2>1, <2>2
    <3>2. d \in Of(d[2], open) \ {Orphan(d[2])}
      BY <2>6, <3>1 DEF Of
    <3>3. OpenOf(d[2])
      BY <3>1, Between
    <3> QED BY <3>2, <3>3 DEF OpenOf
  <2>7. \A r \in Conns : Orphan(r) \notin {Sock(r)} \cup Held(r, req[r])
    BY DEF Orphan, Sock, Held, Data, Post
  <2>8. \A r \in Conns, q \in Req : Orphan(q) \notin {Sock(r)} \cup Held(r, req[r])
    BY DEF Orphan, Sock, Held, Data, Post
  <2> QED BY <2>3, <2>5, <2>6, <2>8
<1> QED BY <1>1, Invariance, Ownership, TypeCorrect, PTL
-----------------------------------------------------------------------------
(* Lame duck mode.  Once stage 1 of SIGTERM has run, whatever a handler made *)
(* of keep-alive is stopped again before free_request looks at it.           *)

StopOK == sigterm_flag = 2 => \A v \in cur : req[v[1]].keepalive = "STOPPED"

\* Which requests a step may give another keep-alive count.
LEMMA StopNext ==
  ASSUME IInv, FdInv, TypeOK, TypeOK', StopOK, [Next]_vars
  PROVE  /\ StopOK'
         /\ sigterm_flag = 2 => \A r \in Conns \cap Conns' : req'[r].kacount = req[r].kacount
<1>1. CASE UNCHANGED <<cur, req>> /\ (UNCHANGED sigterm_flag \/ sigterm_flag' # 2 \/ cur = {})
  BY <1>1 DEF StopOK
<1>2. CASE FdsetUpdate
  <2>1. /\ pc = "update" /\ UNCHANGED <<cur, sigterm_flag>>
        /\ \A r \in Req : req'[r] = IF r \in block /\ TimedOut(r)
                                    THEN [req[r] EXCEPT !.status = "TIMED_OUT"] ELSE req[r]
    BY <1>2 DEF FdsetUpdate
  <2>2. cur = {}
    BY <2>1 DEF IInv, ListsOK
  <2>3. \A r \in Req : req'[r].kacount = req[r].kacount
    BY <2>1 DEF TypeOK, Request
  <2>4. Conns \subseteq Req
    BY DEF Conns, TypeOK
  <2> QED BY <2>1, <2>2, <2>3, <2>4 DEF StopOK
<1>3. CASE ProcessRequests \/ AcceptMore
  <2>1. /\ UNCHANGED <<cur, sigterm_flag>> /\ pc \in Handling
        /\ IF pending_requests THEN TRUE ELSE UNCHANGED req
    BY <1>3 DEF ProcessRequests, AcceptMore, Handling
  <2>2. sigterm_flag = 2 => ~pending_requests
    BY <2>1 DEF IInv, LimitOK
  <2> QED BY <2>1, <2>2 DEF StopOK
<1>4. ASSUME NEW r \in Req, Visit(r)
      PROVE  /\ StopOK'
             /\ \A q \in Conns : req'[q].kacount = req[q].kacount
  <2>1. PICK o \in Process(req[r]) :
          req' = [req EXCEPT ![r] = Squashed(o.req)] /\ cur' = {<<r, o.ret>>}
    BY <1>4 DEF Visit
  <2>2. pc = "walk" /\ r \in walk /\ UNCHANGED sigterm_flag
    BY <1>4 DEF Visit
  <2>3. cur = {} /\ r \in Conns /\ Conns \subseteq Req /\ req \in [Req -> Request]
    BY <2>2 DEF IInv, ListsOK, Conns, TypeOK
  <2>4. Owns(r) /\ req[r] \in Request
    BY <2>3 DEF FdInv
  <2>5. req[r] \in Shaped(req[r].kacount)
    BY <2>3, <2>4 DEF Owns, ShapeOf, Shaped, Counted
  <2>6. o.req \in Request /\ o.req.kacount = req[r].kacount
    BY <2>5, ProcessSound DEF Sound, Counted
  <2>7. /\ Squashed(o.req).kacount = req[r].kacount
        /\ sigterm_flag = 2 => Squashed(o.req).keepalive = "STOPPED"
    BY <2>6 DEF Squashed, SquashKa, Request
  <2>8. req'[r] = Squashed(o.req) /\ \A q \in Req : q # r => req'[q] = req[q]
    BY <2>1, <2>3
  <2>9. StopOK'
    BY <2>1, <2>2, <2>7, <2>8 DEF StopOK
  <2> QED BY <2>3, <2>7, <2>8, <2>9
<1>5. ASSUME NEW r \in Req, FreeRequest(r)
      PROVE  /\ StopOK'
             /\ sigterm_flag = 2 =>
                  \A q \in Conns \cap Conns' : req'[q].kacount = req[q].kacount
  <2>1. pc = "settle" /\ <<r, 0>> \in cur /\ cur' = {} /\ UNCHANGED sigterm_flag
    BY <1>5 DEF FreeRequest
  <2>2. StopOK'
    BY <2>1 DEF StopOK
  <2> SUFFICES ASSUME sigterm_flag = 2, NEW q \in Conns \cap Conns'
               PROVE  req'[q].kacount = req[q].kacount
    BY <2>2
  <2>3. PICK f \in FinalFlush(req[r]) :
          IF f.ret = 1 THEN req' = [req EXCEPT ![r] = f.req]
          ELSE Recycle(r, f.req) \/ Release(r, f.req)
    BY <1>5 DEF FreeRequest
  <2>4. /\ req \in [Req -> Request] /\ req[r] \in Request /\ q \in Req
        /\ r \in ready /\ r \notin block /\ req[r].keepalive = "STOPPED"
    BY <2>1 DEF TypeOK, Conns, IInv, ListsOK, StopOK
  <2>5. f.req.keepalive = "STOPPED" /\ f.req.kacount = req[r].kacount
    BY <2>4, FinalFlushKeeps
  <2>6. ~Recycle(r, f.req)
    BY <2>5 DEF Recycle, MayRecycle
  <2>7. Release(r, f.req) => q # r /\ req' = [req EXCEPT ![r] = Sanitized(KaMax)]
    BY <2>4 DEF Release, Conns
  <2> QED BY <2>3, <2>4, <2>5, <2>6, <2>7
<1>6. ASSUME NEW r \in Req, BlockRequest(r) \/ KeepReady(r)
      PROVE  StopOK' /\ UNCHANGED req
  BY <1>6 DEF BlockRequest, KeepReady, StopOK
<1>7. CASE Sigterm \/ Interrupt \/ EnterSelect \/ EndWalk \/ Tick \/ UNCHANGED vars
  <2>1. UNCHANGED <<cur, req>> /\ (UNCHANGED sigterm_flag \/ sigterm_flag' # 2)
    BY <1>7 DEF Sigterm, Interrupt, EnterSelect, EndWalk, Tick, vars
  <2> QED BY <1>1, <2>1
<1>8. CASE LoopTop
  <2>1. UNCHANGED <<cur, req>> /\ pc = "top"
    BY <1>8 DEF LoopTop
  <2>2. cur = {}
    BY <2>1 DEF IInv, ListsOK
  <2> QED BY <1>1, <2>1, <2>2
<1>9. ASSUME NEW R \in SUBSET rd, NEW W \in SUBSET wr, NEW l \in {FALSE, listen},
             Select(R, W, l)
      PROVE  StopOK' /\ UNCHANGED req
  BY <1>9 DEF Select, StopOK
<1> QED
  BY <1>2, <1>3, <1>4, <1>5, <1>6, <1>7, <1>8, <1>9 DEF Next, Exited

\* For every schedule, no connection is recycled once stage 1 of SIGTERM has
\* run, whatever its client's headers ask for.
THEOREM NoRecycling == Spec => LameDuck
<1>1. Init => StopOK
  BY DEF Init, StopOK
<1>2. IInv /\ FdInv /\ TypeOK /\ TypeOK' /\ StopOK /\ [Next]_vars => StopOK'
  BY StopNext
<1>3. IInv /\ FdInv /\ TypeOK /\ TypeOK' /\ StopOK /\ [Next]_vars
        => [sigterm_flag = 2 =>
              \A r \in Conns \cap Conns' : req'[r].kacount = req[r].kacount]_vars
  BY StopNext
<1>4. Spec => []StopOK
  BY <1>1, <1>2, Invariance, Ownership, TypeCorrect, PTL DEF Spec
<1> QED BY <1>3, <1>4, Invariance, Ownership, TypeCorrect, PTL DEF Spec, LameDuck
=============================================================================
