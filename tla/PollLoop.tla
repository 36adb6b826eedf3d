---------------------------- MODULE PollLoop ----------------------------
(***************************************************************************)
(* The event loop of the poll build: poll.c's loop and update_blocked with *)
(* the BOA_FD_SET macro that queue.c and free_request use there.  Blocked  *)
(* requests remember the index of their entry in pfds; every pass builds   *)
(* pfds anew in the other of two arrays.  What handlers do is left open    *)
(* (RequestHandlers has it): a ready request stays ready, blocks on one of *)
(* its descriptors or is freed.                                            *)
(***************************************************************************)
EXTENDS Naturals, FiniteSets, Sequences, SequencesExt, Lists

CONSTANTS
  Req,             \* request structures
  MaxConnections,  \* max_connections
  MaxSignals       \* bound on polls in a row that end with EINTR

ASSUME PollAssumption ==
  IsFiniteSet(Req) /\ MaxConnections \in Nat /\ MaxSignals \in Nat

\* A request waits on its client socket or on its data_fd.
Server == <<"server", "server">>
Fd == {"sock", "data"} \X Req
Wait(r) == {"sock", "data"} \X {r}

\* No event, BOA_READ or BOA_WRITE, POLLNVAL or POLLERR.
Revents == {"0", "event", "error"}

VARIABLES
  pc,
  pfds,               \* the fds of the first pfd_len entries of pfds
  revents,            \* their revents, once poll has returned
  answer,             \* what that poll found, by descriptor
  server_pfd, watch_server,
  ready, walk,        \* request_ready, and what process_requests has yet to visit
  block,              \* request_block, head first
  waits,              \* the descriptor a blocked request waits on
  pollfd_id,          \* and the index of its entry
  status,             \* "alive", "TIMED_OUT" or "DEAD"
  pending_requests,
  sigterm_flag,
  signals,            \* polls in a row that ended with EINTR
  dropped             \* requests whose entry the removal of the server took

queues == <<ready, walk, block, waits, pollfd_id, status>>

vars == <<pc, pfds, revents, answer, server_pfd, watch_server, queues,
          pending_requests, sigterm_flag, signals, dropped>>

Blocked == ToSet(block)
Conns == ready \cup Blocked
total_connections == Cardinality(Conns)

\* What a request that is not blocked has in waits and pollfd_id does not
\* matter: both are set when it blocks.
NoWait(r) == <<"sock", r>>
NoAnswer == [d \in Fd |-> "0"]
-----------------------------------------------------------------------------
Init ==
  /\ pc = "top"
  /\ pfds = <<>> /\ revents = <<>> /\ answer = NoAnswer
  /\ server_pfd = 0 /\ watch_server = TRUE
  /\ ready = {} /\ walk = {} /\ block = <<>>
  /\ waits = [r \in Req |-> NoWait(r)]
  /\ pollfd_id = [r \in Req |-> 0]
  /\ status = [r \in Req |-> "alive"]
  /\ pending_requests = FALSE
  /\ sigterm_flag = 0 /\ signals = 0
  /\ dropped = {}

\* The SIGTERM handler, between any two steps; inside poll it also makes poll
\* return EINTR, and the loop starts over.
Sigterm ==
  /\ pc # "exited"
  /\ sigterm_flag = 0
  /\ sigterm_flag' = 1
  /\ pc' = IF pc = "poll" THEN "top" ELSE pc
  /\ UNCHANGED <<pfds, revents, answer, server_pfd, watch_server, queues,
                 pending_requests, signals, dropped>>

\* Another signal ends poll with EINTR.  pfd_len is not reset.
Interrupt ==
  /\ pc = "poll" /\ pfds # <<>>
  /\ signals < MaxSignals
  /\ signals' = signals + 1
  /\ pc' = "top"
  /\ UNCHANGED <<pfds, revents, answer, server_pfd, watch_server, queues,
                 pending_requests, sigterm_flag, dropped>>

\* Mutant: the server is polled at the limit too.
Room_Always == TRUE

Room == total_connections < MaxConnections

\* The top of loop while serving: the server's entry is appended.
WatchServer ==
  /\ pc = "top" /\ sigterm_flag = 0
  /\ watch_server' = Room
  /\ server_pfd' = IF Room THEN Len(pfds) ELSE server_pfd
  /\ pfds' = IF Room THEN Append(pfds, Server) ELSE pfds
  /\ pending_requests' = FALSE
  /\ pc' = "poll"
  /\ UNCHANGED <<revents, answer, queues, sigterm_flag, signals, dropped>>

\* The first pass after SIGTERM: "remove server_pfd" copies entries to the
\* other array, one fewer than there are when server_pfd is among them, but
\* always the first ones: it skips an index, not an entry.  With nothing
\* ready or blocked the server exits.
RemoveServer ==
  LET len == IF server_pfd < Len(pfds) THEN Len(pfds) - 1 ELSE Len(pfds)
  IN /\ pc = "top" /\ sigterm_flag = 1
     /\ sigterm_flag' = 2
     /\ pfds' = SubSeq(pfds, 1, len)
     /\ watch_server' = FALSE
     /\ dropped' = {r \in Blocked : pollfd_id[r] >= len}
     /\ pending_requests' = FALSE
     /\ pc' = IF Conns = {} THEN "exited" ELSE "poll"
     /\ UNCHANGED <<revents, answer, server_pfd, queues, signals>>

\* Later passes in lame duck mode.
Drain ==
  /\ pc = "top" /\ sigterm_flag = 2
  /\ pending_requests' = FALSE
  /\ pc' = IF Conns = {} THEN "exited" ELSE "poll"
  /\ UNCHANGED <<pfds, revents, answer, server_pfd, watch_server, queues,
                 sigterm_flag, signals, dropped>>

\* The descriptors poll may say something of; closed ones are errors.
Open(d) == IF d = Server THEN sigterm_flag < 2 ELSE d[2] \in Conns

\* poll fills in the revents of the entries.  It returns without an event when
\* something is ready (timeout 0) or blocked (its timeout is over).  With no
\* entry it is not called.
Poll ==
  /\ pc = "poll"
  /\ \E ev \in [ToSet(pfds) -> Revents] :
       /\ \A d \in ToSet(pfds) : ~Open(d) => ev[d] = "error"
       /\ Server \in ToSet(pfds) /\ Open(Server) => ev[Server] # "error"
       /\ Conns # {} \/ \E d \in ToSet(pfds) : ev[d] # "0"
       /\ revents' = [i \in DOMAIN pfds |-> ev[pfds[i]]]
       /\ answer' = [d \in Fd |-> IF d \in ToSet(pfds) THEN ev[d] ELSE "0"]
       /\ pending_requests' =
            (/\ sigterm_flag = 0 /\ watch_server
             /\ revents'[server_pfd + 1] = "event")
  /\ pc' = "update"
  /\ signals' = 0
  /\ UNCHANGED <<pfds, server_pfd, watch_server, queues, sigterm_flag, dropped>>
-----------------------------------------------------------------------------
\* Mutant: the index is counted from the other end.
Entry_Reversed(r) == Len(pfds) - pollfd_id[r]

\* pfds[current->pollfd_id], in a sequence that counts from 1.
Entry(r) == pollfd_id[r] + 1

\* Mutant: the request keeps its old index.
NewId_Kept(r, n) == pollfd_id[r]

\* The index update_blocked gives the n-th request that stays blocked.
NewId(r, n) == n - 1

\* What a dropped request may find at its index: what an earlier poll, or
\* nothing, left in the array.
Leftover ==
  IF dropped = {} THEN {[fd |-> Server, revents |-> "0"]}
  ELSE [fd : Fd \cup {Server}, revents : Revents]

\* The rest of loop: update_blocked goes down the block list.  An error makes a
\* request DEAD, a timeout (T) TIMED_OUT; one without events stays blocked and
\* has its entry copied to the other array; the others are ready.
\* pfd_len starts from 0 again.  Then process_requests begins.
UpdateBlocked(T, junk) ==
  LET saw(r) == IF r \in dropped THEN junk.revents ELSE revents[Entry(r)]
      fate == [r \in Req |->
                 IF r \notin Blocked THEN status[r]
                 ELSE IF saw(r) = "error" THEN "DEAD"
                 ELSE IF r \in T THEN "TIMED_OUT"
                 ELSE IF saw(r) = "0" THEN "blocked" ELSE "alive"]
      stay == Filter(block, {r \in Blocked : fate[r] = "blocked"})
  IN /\ pc = "update"
     /\ block' = stay
     /\ ready' = ready \cup (Blocked \ ToSet(stay))
     /\ status' = [r \in Req |-> IF fate[r] = "blocked" THEN status[r] ELSE fate[r]]
     /\ pfds' = [n \in DOMAIN stay |->
                  IF stay[n] \in dropped THEN junk.fd ELSE pfds[Entry(stay[n])]]
     /\ pollfd_id' = [r \in Req |->
          IF r \in ToSet(stay)
          THEN NewId(r, CHOOSE n \in DOMAIN stay : stay[n] = r) ELSE 0]
     /\ waits' = [r \in Req |-> IF r \in ToSet(stay) THEN waits[r] ELSE NoWait(r)]
     /\ dropped' = dropped \cap ToSet(stay)
     /\ revents' = <<>> /\ answer' = NoAnswer
     /\ pc' = "first"
     /\ UNCHANGED <<server_pfd, watch_server, walk, pending_requests,
                    sigterm_flag, signals>>
-----------------------------------------------------------------------------
(* process_requests and get_request, as in RequestLoop.                    *)

\* get_request: nothing to accept, a connection that is closed again, or a
\* new request at the head of the ready list.
GetRequest ==
  \/ pending_requests' = FALSE /\ UNCHANGED ready
  \/ UNCHANGED <<pending_requests, ready>>
  \/ \E r \in Req \ Conns :
       /\ ready' = ready \cup {r}
       /\ pending_requests' = (total_connections < MaxConnections)

\* process_requests calls it first, and again after every handler.
Accept ==
  /\ pc \in {"first", "accept"}
  /\ IF pending_requests THEN GetRequest ELSE UNCHANGED <<pending_requests, ready>>
  /\ IF pc = "first" THEN walk' = ready' /\ pc' = "walk"
     ELSE UNCHANGED walk /\ pc' = "settle"
  /\ UNCHANGED <<pfds, revents, answer, server_pfd, watch_server, block, waits,
                 pollfd_id, status, sigterm_flag, signals, dropped>>

\* The handler of a ready request runs; what it returns is chosen below, after
\* the call of get_request that comes between.
Handle ==
  /\ pc = "walk" /\ walk # {}
  /\ pc' = "accept"
  /\ UNCHANGED <<pfds, revents, answer, server_pfd, watch_server, queues,
                 pending_requests, sigterm_flag, signals, dropped>>

\* Mutant: one entry for reading and one for writing.
BoaFdSet_Twice(r, d) ==
  /\ pfds' = pfds \o <<d, d>>
  /\ pollfd_id' = [pollfd_id EXCEPT ![r] = Len(pfds) + 1]
  /\ waits' = [waits EXCEPT ![r] = d]

\* BOA_FD_SET: the entry is appended to pfds.
BoaFdSet(r, d) ==
  /\ pfds' = Append(pfds, d)
  /\ pollfd_id' = [pollfd_id EXCEPT ![r] = Len(pfds)]
  /\ waits' = [waits EXCEPT ![r] = d]

Settled(r) ==
  /\ pc = "settle" /\ r \in walk
  /\ walk' = walk \ {r}
  /\ pc' = "walk"
  /\ UNCHANGED <<revents, answer, server_pfd, watch_server, pending_requests,
                 sigterm_flag, signals, dropped>>

\* -1 (block_request), or keep-alive in free_request: the request goes to the
\* head of the block list.
BlockRequest(r) ==
  /\ Settled(r)
  /\ status[r] = "alive"
  /\ ready' = ready \ {r}
  /\ block' = <<r>> \o block
  /\ \E d \in Wait(r) : BoaFdSet(r, d)
  /\ UNCHANGED status

\* 1: it stays on the ready list.
KeepReady(r) ==
  /\ Settled(r)
  /\ status[r] = "alive"
  /\ UNCHANGED <<pfds, ready, block, waits, pollfd_id, status>>

\* 0: free_request closes the connection; BOA_FD_CLR does nothing.
FreeRequest(r) ==
  /\ Settled(r)
  /\ ready' = ready \ {r}
  /\ status' = [status EXCEPT ![r] = "alive"]
  /\ UNCHANGED <<pfds, block, waits, pollfd_id>>

EndWalk ==
  /\ pc = "walk" /\ walk = {}
  /\ pc' = "top"
  /\ UNCHANGED <<pfds, revents, answer, server_pfd, watch_server, queues,
                 pending_requests, sigterm_flag, signals, dropped>>

\* exit in sigterm_stage2_run.
Exited == pc = "exited" /\ UNCHANGED vars

Next ==
  \/ Sigterm
  \/ Interrupt
  \/ WatchServer
  \/ RemoveServer
  \/ Drain
  \/ Poll
  \/ \E T \in SUBSET Blocked, junk \in Leftover : UpdateBlocked(T, junk)
  \/ Accept
  \/ Handle
  \/ \E r \in Req : BlockRequest(r)
  \/ \E r \in Req : KeepReady(r)
  \/ \E r \in Req : FreeRequest(r)
  \/ EndWalk
  \/ Exited

Spec == Init /\ [][Next]_vars
-----------------------------------------------------------------------------
\* Entries the arrays must have room for: the connections, one of them past
\* the limit, and one entry for the server and for each EINTR, after which loop
\* appends the server again.
MaxEntries == MaxConnections + 1 + MaxSignals

\* The arrays need room only for the connections max_connections lets in and
\* for the polls in a row that are interrupted, whatever is blocked, recycled
\* and re-added.
TypeOK ==
  /\ pc \in {"top", "poll", "update", "first", "walk", "accept", "settle", "exited"}
  /\ pfds \in Seq(Fd \cup {Server}) /\ Len(pfds) <= MaxEntries
  /\ revents \in Seq(Revents)
  /\ ready \subseteq Req /\ walk \subseteq ready
  /\ Blocked \subseteq Req \ ready /\ dropped \subseteq Blocked
  /\ pollfd_id \in [Req -> Nat]
  /\ \A r \in Req : waits[r] \in Wait(r)
  /\ status \in [Req -> {"alive", "TIMED_OUT", "DEAD"}]

\* When poll is called, the entry a blocked request will look at after it is
\* one of those polled and names the descriptor it waits on, through every
\* rebuilding of pfds, every EINTR and every list order; only the one
\* request whose entry the removal of the server took is an exception.
PolledUnlessDropped ==
  pc \in {"poll", "update"} =>
    /\ \A r \in Blocked \ dropped :
         pollfd_id[r] < Len(pfds) /\ pfds[pollfd_id[r] + 1] = waits[r]
    /\ Cardinality(dropped) <= 1

\* A request leaves the block list only for what its own descriptor did: it is
\* made DEAD by an error on it and readied by an event on it, or it timed out.
WokenByOwnEvent ==
  [][\A r \in Blocked \ (Blocked' \cup dropped) :
       CASE status'[r] = "DEAD" -> answer[waits[r]] = "error"
         [] status'[r] = "alive" -> answer[waits[r]] = "event"
         [] OTHER -> answer[waits[r]] # "error"]_vars

Phase == IF pc = "exited" THEN "exited"
         ELSE IF sigterm_flag = 2 THEN "draining" ELSE "serving"

Table == INSTANCE ConnectionTable WITH conns <- Conns, phase <- Phase

\* The poll loop, too, does to the connections only what ConnectionTable
\* allows.
ImplementsTable == Table!Spec
=============================================================================
