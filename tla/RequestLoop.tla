-------------------------- MODULE RequestLoop --------------------------
(***************************************************************************)
(* The event loop of the server: select.c's loop and fdset_update,         *)
(* request.c's get_request, process_requests and free_request, queue.c and *)
(* the SIGTERM part of signals.c.  One process; the environment chooses    *)
(* what select, accept, reads, writes and forks return, when time passes   *)
(* and when SIGTERM is delivered.                                          *)
(***************************************************************************)
EXTENDS RequestHandlers, FiniteSets

CONSTANTS
  Req,             \* request structures the process can allocate
  MaxConnections,  \* max_connections
  KaTimeout,       \* ka_timeout, in ticks
  RequestTimeout   \* REQUEST_TIMEOUT, in ticks

ASSUME LoopAssumption ==
  /\ IsFiniteSet(Req)
  /\ MaxConnections \in Nat
  /\ KaTimeout \in Nat
  /\ RequestTimeout \in Nat

VARIABLES
  pc,                 \* where loop() stands
  ready, block,       \* request_ready and request_block, as sets
  walk,               \* ready requests process_requests has yet to visit
  cur,                \* the request being visited with its retval, or {}
  req,                \* the request structures
  age,                \* current_time - time_last, up to RequestTimeout + 1
  total_connections,
  pending_requests,
  rd, wr,             \* block_read_fdset and block_write_fdset
  listen,             \* the server socket's bit in block_read_fdset
  open,               \* descriptors open in the kernel
  sigterm_flag        \* 0, 1 caught, 2 stage 1 has run

vars == <<pc, ready, block, walk, cur, req, age, total_connections,
          pending_requests, rd, wr, listen, open, sigterm_flag>>

\* A request's client socket, its data_fd and its post_data_fd, and a
\* temporary file of a request that nothing names any more.
Sock(r) == <<"sock", r>>
Data(r) == <<"data", r>>
Post(r) == <<"post", r>>
Orphan(r) == <<"orphan", r>>
Fd == {"sock", "data", "post", "orphan"} \X Req

Conns == ready \cup block
MaxAge == RequestTimeout + 1
-----------------------------------------------------------------------------
(* Which bit a blocked request waits on: queue.c's block_request and       *)
(* ready_request, and fdset_update, choose it from the same two fields.    *)

WaitsForWrite(c) ==
  c.buffer \/ c.status \in {"IOSHUFFLE", "WRITE", "PIPE_WRITE", "DONE"}

WatchRead(r, c) ==
  IF WaitsForWrite(c) \/ c.status = "BODY_WRITE" THEN {}
  ELSE IF c.status = "PIPE_READ" THEN {Data(r)} ELSE {Sock(r)}

WatchWrite(r, c) ==
  IF WaitsForWrite(c) THEN {Sock(r)}
  ELSE IF c.status = "BODY_WRITE" THEN {Post(r)} ELSE {}
-----------------------------------------------------------------------------
Init ==
  /\ pc = "top"
  /\ ready = {} /\ block = {} /\ walk = {} /\ cur = {}
  /\ req = [r \in Req |-> Sanitized(KaMax)]
  /\ age = [r \in Req |-> 0]
  /\ total_connections = 0
  /\ pending_requests = FALSE
  /\ rd = {} /\ wr = {} /\ listen = FALSE
  /\ open = {}
  /\ sigterm_flag = 0

\* The SIGTERM handler may run between any two steps.  Inside select it also
\* makes select return EINTR, and the loop starts over with its sets as they
\* were.
Sigterm ==
  /\ pc # "exited"
  /\ sigterm_flag = 0
  /\ sigterm_flag' = 1
  /\ pc' = IF pc = "select" THEN "top" ELSE pc
  /\ UNCHANGED <<ready, block, walk, cur, req, age, total_connections,
                 pending_requests, rd, wr, listen, open>>

\* SIGHUP, SIGCHLD or SIGALRM ends select with EINTR: the loop starts over
\* and fdset_update is skipped.
Interrupt ==
  /\ pc = "select"
  /\ pc' = "top"
  /\ UNCHANGED <<ready, block, walk, cur, req, age, total_connections,
                 pending_requests, rd, wr, listen, open, sigterm_flag>>

\* Mutant: the limit does not stop the server from listening.
Listens_Always == TRUE

\* The server socket is watched unless the limit has been passed.
Listens == total_connections <= MaxConnections

\* Mutant: the block list is forgotten.
Idle_ReadyOnly == ready = {}

Idle == ready = {} /\ block = {}

\* The top of loop: on the first pass after SIGTERM the server socket is
\* closed; the server exits once nothing is ready or blocked.  Otherwise the
\* server socket is watched if there is room.
LoopTop ==
  /\ pc = "top"
  /\ sigterm_flag' = IF sigterm_flag = 0 THEN 0 ELSE 2
  /\ listen' = (sigterm_flag = 0 /\ Listens)
  /\ IF sigterm_flag # 0 /\ Idle
     THEN pc' = "exited" /\ UNCHANGED pending_requests
     ELSE pc' = "enter" /\ pending_requests' = FALSE
  /\ UNCHANGED <<ready, block, walk, cur, req, age, total_connections, rd, wr, open>>

\* The flags have been looked at; now the process enters the system call.
EnterSelect ==
  /\ pc = "enter"
  /\ pc' = "select"
  /\ UNCHANGED <<ready, block, walk, cur, req, age, total_connections,
                 pending_requests, rd, wr, listen, open, sigterm_flag>>

\* select returns with any of the watched bits.  It returns with none when
\* something is ready (timeout 0) or, its timeout over, when something is
\* blocked; with neither it has no timeout.
Select(R, W, l) ==
  /\ pc = "select"
  /\ R \cup W # {} \/ l \/ Conns # {}
  /\ rd' = R /\ wr' = W /\ listen' = l
  /\ pc' = "update"
  /\ UNCHANGED <<ready, block, walk, cur, req, age, total_connections,
                 pending_requests, open, sigterm_flag>>

\* Mutant: only an idle keep-alive connection times out.
TimedOut_KeepAliveOnly(r) ==
  req[r].kacount < KaMax /\ age[r] >= KaTimeout /\ ~req[r].logline

\* fdset_update's two timeouts.
TimedOut(r) ==
  \/ req[r].kacount < KaMax /\ age[r] >= KaTimeout /\ ~req[r].logline
  \/ age[r] > RequestTimeout

\* The rest of loop: pending_requests is set from the server's bit, then
\* fdset_update times requests out, moves those that are selected, timed out
\* or dead to the ready list (ready_request clears the bit they would wait
\* on now) and watches the others again.
FdsetUpdate ==
  LET now == [r \in Req |-> IF r \in block /\ TimedOut(r)
                            THEN [req[r] EXCEPT !.status = "TIMED_OUT"] ELSE req[r]]
      woken == {r \in block : \/ ~Alive(now[r])
                              \/ WatchRead(r, now[r]) \cap rd # {}
                              \/ WatchWrite(r, now[r]) \cap wr # {}}
      waiting == block \ woken
  IN /\ pc = "update"
     /\ pending_requests' = (sigterm_flag = 0 /\ listen)
     /\ req' = now
     /\ ready' = ready \cup woken
     /\ block' = waiting
     /\ rd' = (rd \ (UNION {WatchRead(r, now[r]) : r \in woken}))
                \cup (UNION {WatchRead(r, now[r]) : r \in waiting})
     /\ wr' = (wr \ (UNION {WatchWrite(r, now[r]) : r \in woken}))
                \cup (UNION {WatchWrite(r, now[r]) : r \in waiting})
     /\ pc' = IF pending_requests' \/ ready' # {} THEN "first" ELSE "top"
     /\ UNCHANGED <<walk, cur, age, total_connections, listen, open, sigterm_flag>>
-----------------------------------------------------------------------------
\* The new request: past the limit it is answered with 503 at once.
NewRequests ==
  IF total_connections < MaxConnections THEN {Sanitized(KaMax)}
  ELSE {[d EXCEPT !.status = "DONE"] : d \in SendPage(Sanitized(KaMax), "5xx")}

\* get_request after a successful accept and set-up: the connection counts
\* and, past the limit, pending_requests drops.
Accepted(r) ==
  /\ r \notin Conns
  /\ \E c \in NewRequests : req' = [req EXCEPT ![r] = c]
  /\ age' = [age EXCEPT ![r] = 0]
  /\ open' = open \cup {Sock(r)}
  /\ total_connections' = total_connections + 1
  /\ pending_requests' = (total_connections < MaxConnections)
  /\ ready' = ready \cup {r}

\* get_request: accept has nothing more to give or fails; or the new socket
\* is closed again (no memory for a request, a failed set-up call); or a
\* connection is added to the ready list.
GetRequest ==
  \/ pending_requests' = FALSE /\ UNCHANGED <<ready, req, age, open, total_connections>>
  \/ UNCHANGED <<ready, req, age, open, total_connections, pending_requests>>
  \/ \E r \in Req : Accepted(r)

\* process_requests begins: get_request if there are pending requests, then
\* walk the whole ready list, the new request included.
ProcessRequests ==
  /\ pc = "first"
  /\ IF pending_requests THEN GetRequest
     ELSE UNCHANGED <<ready, req, age, open, total_connections, pending_requests>>
  /\ walk' = ready'
  /\ pc' = "walk"
  /\ UNCHANGED <<block, cur, rd, wr, listen, sigterm_flag>>

\* The descriptors a request names besides its client socket.
Held(r, c) ==
  {q \in {Data(r)} : c.data_fd} \cup {q \in {Post(r)} : c.post_data_fd}

\* Mutant: SIGTERM leaves keep-alive alone.
Squashed_Never(c) == c

Squashed(c) == IF sigterm_flag # 0 THEN SquashKa(c) ELSE c

\* One turn of the loop up to SQUASH_KA: flush, dispatch on the status, stop
\* keep-alive after SIGTERM.  The order of the walk is left open.
Visit(r) ==
  /\ pc = "walk"
  /\ r \in walk
  /\ \E o \in Process(req[r]) :
       /\ req' = [req EXCEPT ![r] = Squashed(o.req)]
       /\ cur' = {<<r, o.ret>>}
       /\ open' = (open \ Held(r, req[r])) \cup Held(r, o.req)
                    \cup {q \in {Orphan(r)} : o.req.orphan}
  /\ walk' = walk \ {r}
  /\ pc' = "accept"
  /\ UNCHANGED <<ready, block, age, total_connections, pending_requests,
                 rd, wr, listen, sigterm_flag>>

\* get_request between the handler and the switch on its return value: the
\* new request goes to the head of the list, behind the walk.
AcceptMore ==
  /\ pc = "accept"
  /\ IF pending_requests THEN GetRequest
     ELSE UNCHANGED <<ready, req, age, open, total_connections, pending_requests>>
  /\ pc' = "settle"
  /\ UNCHANGED <<block, walk, cur, rd, wr, listen, sigterm_flag>>

\* Mutant: blocking counts as activity.
AgeOfBlocked_Reset(r) == [age EXCEPT ![r] = 0]

\* Only progress moves time_last: a request that blocks keeps its age.
AgeOfBlocked(r) == age

\* The switch on the return value: -1, block_request.
BlockRequest(r) ==
  /\ pc = "settle" /\ <<r, -1>> \in cur
  /\ ready' = ready \ {r}
  /\ block' = block \cup {r}
  /\ rd' = rd \cup WatchRead(r, req[r])
  /\ wr' = wr \cup WatchWrite(r, req[r])
  /\ age' = AgeOfBlocked(r)
  /\ pc' = "walk" /\ cur' = {}
  /\ UNCHANGED <<walk, req, total_connections, pending_requests, listen,
                 open, sigterm_flag>>

\* 1: the request stays on the ready list.
KeepReady(r) ==
  /\ pc = "settle" /\ <<r, 1>> \in cur
  /\ age' = [age EXCEPT ![r] = 0]
  /\ pc' = "walk" /\ cur' = {}
  /\ UNCHANGED <<ready, block, walk, req, total_connections, pending_requests,
                 rd, wr, listen, open, sigterm_flag>>

\* Mutant: the count is not looked at.
MayRecycle_Uncounted(c) ==
  Alive(c) /\ c.keepalive = "ACTIVE" /\ c.response = "below500"

\* free_request recycles the request for the connection's next one.
MayRecycle(c) ==
  Alive(c) /\ c.keepalive = "ACTIVE" /\ c.response = "below500" /\ c.kacount > 0

\* Mutant: the bit of data_fd stays set.
ClearRead_Forgotten(r, c) == {}

\* The bits free_request clears with the descriptors it closes.
ClearRead(r, c) == {q \in {Data(r)} : c.data_fd}
ClearWrite(r, c) == {q \in {Post(r)} : c.post_data_fd}

\* Mutant: the recycled connection is not watched.
Rearm_Forgotten(r) == {}

\* What a recycled connection waits for: the client's next request.
Rearm(r) == {Sock(r)}

\* free_request past its flush, keep-alive: the request is blanked and waits
\* on the block list for the client's next request.
Recycle(r, c) ==
  /\ MayRecycle(c)
  /\ ready' = ready \ {r}
  /\ block' = block \cup {r}
  /\ req' = [req EXCEPT ![r] = Sanitized(c.kacount - 1)]
  /\ open' = open \ Held(r, c)
  /\ rd' = (rd \ ClearRead(r, c)) \cup Rearm(r)
  /\ wr' = wr \ (ClearWrite(r, c) \cup {Sock(r)})
  /\ UNCHANGED total_connections

\* free_request past its flush, otherwise: everything is closed and the
\* structure goes to the free list.
Release(r, c) ==
  /\ ~MayRecycle(c)
  /\ ready' = ready \ {r}
  /\ req' = [req EXCEPT ![r] = Sanitized(KaMax)]
  /\ open' = open \ (Held(r, c) \cup {Sock(r)})
  /\ rd' = rd \ (ClearRead(r, c) \cup {Sock(r)})
  /\ wr' = wr \ (ClearWrite(r, c) \cup {Sock(r)})
  /\ total_connections' = total_connections - 1
  /\ UNCHANGED block

\* 0: free_request.  After a short flush it returns early.
FreeRequest(r) ==
  /\ pc = "settle" /\ <<r, 0>> \in cur
  /\ age' = [age EXCEPT ![r] = 0]
  /\ \E f \in FinalFlush(req[r]) :
       IF f.ret = 1
       THEN /\ req' = [req EXCEPT ![r] = f.req]
            /\ UNCHANGED <<ready, block, open, rd, wr, total_connections>>
       ELSE Recycle(r, f.req) \/ Release(r, f.req)
  /\ pc' = "walk" /\ cur' = {}
  /\ UNCHANGED <<walk, pending_requests, listen, sigterm_flag>>

\* The walk is over and loop starts again.
EndWalk ==
  /\ pc = "walk"
  /\ walk = {}
  /\ pc' = "top"
  /\ UNCHANGED <<ready, block, walk, cur, req, age, total_connections,
                 pending_requests, rd, wr, listen, open, sigterm_flag>>

\* Time passes while select waits.
Tick ==
  /\ pc = "select"
  /\ \E r \in block : age[r] < MaxAge
  /\ age' = [r \in Req |-> IF r \in Conns /\ age[r] < MaxAge THEN age[r] + 1 ELSE age[r]]
  /\ UNCHANGED <<pc, ready, block, walk, cur, req, total_connections,
                 pending_requests, rd, wr, listen, open, sigterm_flag>>

\* exit(EXIT_SUCCESS) in sigterm_stage2_run.
Exited == pc = "exited" /\ UNCHANGED vars

Next ==
  \/ Sigterm
  \/ Interrupt
  \/ LoopTop
  \/ EnterSelect
  \/ \E R \in SUBSET rd, W \in SUBSET wr, l \in {FALSE, listen} : Select(R, W, l)
  \/ FdsetUpdate
  \/ ProcessRequests
  \/ \E r \in Req : Visit(r)
  \/ AcceptMore
  \/ \E r \in Req : BlockRequest(r)
  \/ \E r \in Req : KeepReady(r)
  \/ \E r \in Req : FreeRequest(r)
  \/ EndWalk
  \/ Tick
  \/ Exited

Spec == Init /\ [][Next]_vars
-----------------------------------------------------------------------------
\* Request structures keep their fields' types through every handler and every
\* reuse; in particular kacount, decremented by free_request, never drops below
\* zero.
TypeOK ==
  /\ pc \in {"top", "enter", "select", "update", "first", "walk", "accept",
             "settle", "exited"}
  /\ ready \in SUBSET Req /\ block \in SUBSET Req /\ walk \in SUBSET Req
  /\ cur \in SUBSET (Req \X {-1, 0, 1})
  /\ req \in [Req -> Request]
  /\ age \in [Req -> 0..MaxAge]
  /\ total_connections \in Nat
  /\ pending_requests \in BOOLEAN /\ listen \in BOOLEAN
  /\ rd \in SUBSET Fd /\ wr \in SUBSET Fd /\ open \in SUBSET Fd
  /\ sigterm_flag \in 0..2

\* total_connections, which admits and refuses clients, counts the requests on
\* the two lists (a request is on one of them, whichever early return
\* free_request took) and exceeds max_connections by at most the one
\* connection that is being told 503.
ConnectionAccounting ==
  /\ ready \cap block = {}
  /\ total_connections = Cardinality(Conns)
  /\ total_connections <= MaxConnections + 1

\* When loop calls select, the two sets hold exactly the descriptors the
\* blocked requests wait for: none is forgotten (it would sleep until its
\* timeout) and none is left from a request that timed out or finished while
\* its bit was set (select would return at once, for ever).
WatchedExactly ==
  pc \in {"top", "enter", "select"} =>
    /\ rd = UNION {WatchRead(r, req[r]) : r \in block}
    /\ wr = UNION {WatchWrite(r, req[r]) : r \in block}

\* Whatever order requests are blocked, timed out, recycled and closed in, no
\* watched descriptor is closed, so select never fails with EBADF (the case
\* loop has no answer for), and between two passes the open descriptors are
\* those of the live connections, orphaned temporary files apart.
DescriptorsOwned ==
  pc \in {"top", "enter", "select"} =>
    /\ rd \cup wr \subseteq open
    /\ open \ {Orphan(r) : r \in Req}
         = UNION {{Sock(r)} \cup Held(r, req[r]) : r \in Conns}

\* In lame duck mode no connection is recycled for another request, even one
\* whose headers, parsed after SIGTERM, ask for keep-alive again.
LameDuck ==
  [][sigterm_flag = 2 =>
       \A r \in Conns \cap Conns' : req'[r].kacount = req[r].kacount]_vars
-----------------------------------------------------------------------------
(* The loop implements the connection table. *)

Phase == IF pc = "exited" THEN "exited"
         ELSE IF sigterm_flag = 2 THEN "draining" ELSE "serving"

Table == INSTANCE ConnectionTable WITH conns <- Conns, phase <- Phase

\* The event loop with its lists, sets and handlers does to the connections
\* only what ConnectionTable allows: it opens one while serving and at most
\* one past the limit, and exits only when SIGTERM was noticed and none is
\* left.
ImplementsTable == Table!Spec
-----------------------------------------------------------------------------
(* Fairness.  The process keeps running (weak fairness of the one step that  *)
(* is enabled outside select).  With a connection open, select is given a    *)
(* timeout: unless signals keep interrupting it, it returns, and time passes *)
(* (strong fairness, as the loop enters and leaves select).  Nothing is      *)
(* assumed of clients: with no connection select may sleep for ever.         *)

ServerStep ==
  \/ LoopTop \/ EnterSelect \/ FdsetUpdate \/ ProcessRequests
  \/ AcceptMore \/ EndWalk
  \/ \E r \in Req : Visit(r) \/ BlockRequest(r) \/ KeepReady(r) \/ FreeRequest(r)

SelectReturns ==
  \E R \in SUBSET rd, W \in SUBSET wr, l \in {FALSE, listen} :
    Conns # {} /\ Select(R, W, l)

FairSpec ==
  Spec /\ WF_vars(ServerStep) /\ SF_vars(SelectReturns) /\ SF_vars(Tick)

\* Once lame duck mode begins the server exits: no connection, blocked on a
\* client or a CGI that never answers or alternating between the lists, can
\* hold it up for ever.
ShutdownCompletes == sigterm_flag = 2 ~> pc = "exited"

\* Every connection is closed in the end, whatever its client does: a
\* request that stays blocked times out, and keep-alive is bounded.
EveryConnectionEnds == \A r \in Req : r \in Conns ~> r \notin Conns

\* CHANGES.md: "SIGTERM triggers lame duck mode until all pending transactions
\* complete".  A signal delivered between loop's look at sigterm_flag and
\* select, on an idle server, is not acted on until a client connects.
SigtermIsHandled == sigterm_flag = 1 ~> sigterm_flag = 2
=============================================================================
