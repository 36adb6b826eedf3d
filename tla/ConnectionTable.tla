------------------------ MODULE ConnectionTable ------------------------
(***************************************************************************)
(* What the event loop promises about connections, apart from how requests *)
(* are queued, watched and handled: at most MaxConnections + 1 are open at *)
(* a time, none is opened once the server drains, and the server exits     *)
(* only when none is left.                                                 *)
(***************************************************************************)
EXTENDS Naturals, FiniteSets

CONSTANTS Req, MaxConnections

VARIABLES
  conns,   \* request structures with an open connection
  phase    \* "serving", "draining" after SIGTERM was noticed, "exited"

vars == <<conns, phase>>

Init == conns = {} /\ phase = "serving"

Open(r) ==
  /\ phase = "serving"
  /\ r \notin conns
  /\ Cardinality(conns) <= MaxConnections
  /\ conns' = conns \cup {r}
  /\ UNCHANGED phase

Close(r) ==
  /\ phase # "exited"
  /\ r \in conns
  /\ conns' = conns \ {r}
  /\ UNCHANGED phase

\* SIGTERM is noticed.  With no connection the server exits at once.
Drain ==
  /\ phase = "serving"
  /\ phase' = IF conns = {} THEN "exited" ELSE "draining"
  /\ UNCHANGED conns

Exit ==
  /\ phase = "draining"
  /\ conns = {}
  /\ phase' = "exited"
  /\ UNCHANGED conns

Next == (\E r \in Req : Open(r) \/ Close(r)) \/ Drain \/ Exit

Spec == Init /\ [][Next]_vars
=============================================================================
