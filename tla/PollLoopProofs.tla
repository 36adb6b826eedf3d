-------------------------- MODULE PollLoopProofs --------------------------
(***************************************************************************)
(* Proofs about PollLoop for every set of request structures, every limit  *)
(* and every number of interrupted polls: the index a blocked request      *)
(* keeps is that of its own entry, the arrays are large enough, and the    *)
(* loop implements ConnectionTable.                                        *)
(***************************************************************************)
EXTENDS PollLoop, WellFoundedInduction, FiniteSetTheorems, TLAPS

\* Induction, over sets of naturals with the well-founded order of <.
LEMMA Least ==
  ASSUME NEW T \in SUBSET Nat, T # {}
  PROVE  \E n \in T : \A m \in T : n <= m
<1>1. PICK n \in T : \A m \in T : ~(<<m, n>> \in OpToRel(<, Nat))
  BY WFMin, NatLessThanWellFounded
<1>2. \A m \in T : ~(m < n)
  BY <1>1 DEF OpToRel
<1> QED BY <1>2

\* A set that has 0 and, with a number, the next one has them all.
LEMMA Induct ==
  ASSUME NEW T \in SUBSET Nat, 0 \in T, \A n \in T : n + 1 \in T
  PROVE  T = Nat
<1> SUFFICES ASSUME Nat \ T # {} PROVE FALSE OBVIOUS
<1>1. PICK n \in Nat \ T : \A m \in Nat \ T : n <= m
  BY Least
<1>2. n # 0 /\ n - 1 \in Nat /\ n - 1 \in T
  BY <1>1
<1> QED BY <1>2

\* F is the loop of Filter over the first n elements of s.
FilterLoop(s, K, F, n) ==
  F = [i \in 0..n |->
         IF i = 0 THEN <<>>
         ELSE IF s[i] \in K THEN Append(F[i - 1], s[i]) ELSE F[i - 1]]

LEMMA FilterExists ==
  ASSUME NEW s, NEW K
  PROVE  \A n \in Nat : \E F : FilterLoop(s, K, F, n)
<1> DEFINE T == {n \in Nat : \E F : FilterLoop(s, K, F, n)}
<1>1. 0 \in T
  <2>1. FilterLoop(s, K, [i \in 0..0 |-> <<>>], 0)
    BY DEF FilterLoop
  <2> QED BY <2>1
<1>2. ASSUME NEW n \in T PROVE n + 1 \in T
  <2>1. PICK F : FilterLoop(s, K, F, n)
    OBVIOUS
  <2>2. n \in Nat
    OBVIOUS
  <2> DEFINE G == [i \in 0..(n + 1) |->
                     IF i <= n THEN F[i]
                     ELSE IF s[i] \in K THEN Append(F[i - 1], s[i]) ELSE F[i - 1]]
             H == [i \in 0..(n + 1) |->
                     IF i = 0 THEN <<>>
                     ELSE IF s[i] \in K THEN Append(G[i - 1], s[i]) ELSE G[i - 1]]
  <2>3. \A i \in 0..n : G[i] = F[i]
    BY <2>2
  <2>4. \A i \in 0..n : F[i] = IF i = 0 THEN <<>>
                               ELSE IF s[i] \in K THEN Append(F[i - 1], s[i]) ELSE F[i - 1]
    BY <2>1, <2>2 DEF FilterLoop
  <2>5. G[n + 1] = IF s[n + 1] \in K THEN Append(G[n], s[n + 1]) ELSE G[n]
    BY <2>2, <2>3
  <2> HIDE DEF G
  <2>6. \A i \in 0..(n + 1) : G[i] = H[i]
    <3> TAKE i \in 0..(n + 1)
    <3>1. CASE i = 0
      BY <2>2, <2>3, <2>4, <3>1
    <3>2. CASE i \in 1..n
      <4>1. i - 1 \in 0..n /\ i \in 0..n /\ i # 0
        BY <2>2, <3>2
      <4>2. G[i] = F[i] /\ G[i - 1] = F[i - 1]
        BY <2>3, <4>1
      <4> QED BY <2>4, <4>1, <4>2
    <3>3. CASE i = n + 1
      BY <2>2, <2>5, <3>3
    <3> QED BY <2>2, <3>1, <3>2, <3>3
  <2>7. G = H
    BY <2>6 DEF G
  <2>8. FilterLoop(s, K, G, n + 1)
    BY <2>7, Zenon DEF FilterLoop, H
  <2> QED BY <2>2, <2>8
<1> HIDE DEF T
<1>3. T = Nat
  BY <1>1, <1>2, Induct DEF T
<1> QED BY <1>3 DEF T

LEMMA FilterUnfolds ==
  ASSUME NEW s, NEW K, Len(s) \in Nat
  PROVE  \E F : FilterLoop(s, K, F, Len(s)) /\ Filter(s, K) = F[Len(s)]
<1>1. \E F : FilterLoop(s, K, F, Len(s))
  BY FilterExists
<1>2. FilterLoop(s, K, CHOOSE F : FilterLoop(s, K, F, Len(s)), Len(s))
  BY <1>1, Zenon
<1>3. Filter(s, K) = (CHOOSE F : FilterLoop(s, K, F, Len(s)))[Len(s)]
  BY Zenon DEF Filter, FilterLoop
<1> QED BY <1>2, <1>3, Zenon

Elements(s) == {s[i] : i \in DOMAIN s}
Distinct(s) == \A i, j \in DOMAIN s : s[i] = s[j] => i = j

\* Taking elements out keeps a list a list, with the elements of K that were
\* there, and brings in no second copy of any.
LEMMA FilterKeeps ==
  ASSUME NEW S, NEW s \in Seq(S), NEW K
  PROVE  /\ Filter(s, K) \in Seq(S)
         /\ Len(Filter(s, K)) <= Len(s)
         /\ Elements(Filter(s, K)) = Elements(s) \cap K
         /\ Distinct(s) => Distinct(Filter(s, K))
<1>1. PICK F : FilterLoop(s, K, F, Len(s)) /\ Filter(s, K) = F[Len(s)]
  BY FilterUnfolds
<1>2. F[0] = <<>>
  BY <1>1 DEF FilterLoop
<1>3. \A i \in 1..Len(s) : F[i] = IF s[i] \in K THEN Append(F[i - 1], s[i]) ELSE F[i - 1]
  <2> TAKE i \in 1..Len(s)
  <2>1. i \in 0..Len(s) /\ i # 0
    OBVIOUS
  <2>2. F[i] = IF i = 0 THEN <<>>
               ELSE IF s[i] \in K THEN Append(F[i - 1], s[i]) ELSE F[i - 1]
    BY <1>1, <2>1, Zenon DEF FilterLoop
  <2> QED BY <2>1, <2>2
<1> DEFINE Good(i) ==
             /\ F[i] \in Seq(S) /\ Len(F[i]) <= i
             /\ Elements(F[i]) = {s[j] : j \in 1..i} \cap K
             /\ Distinct(s) => Distinct(F[i])
           T == {i \in Nat : i <= Len(s) => Good(i)}
<1>4. 0 \in T
  <2>1. Elements(<<>>) = {} /\ Distinct(<<>>)
    BY DEF Elements, Distinct
  <2>2. {s[j] : j \in 1..0} = {}
    OBVIOUS
  <2>3. Elements(F[0]) = {} /\ Distinct(F[0]) /\ F[0] \in Seq(S) /\ Len(F[0]) = 0
    BY <1>2, <2>1
  <2>4. Good(0)
    BY <2>2, <2>3
  <2> HIDE DEF Good
  <2> QED BY <2>4
<1>5. ASSUME NEW i \in T PROVE i + 1 \in T
  <2> SUFFICES ASSUME i + 1 <= Len(s) PROVE Good(i + 1)
    OBVIOUS
  <2>1. Good(i) /\ i \in Nat /\ i + 1 \in 1..Len(s)
    OBVIOUS
  <2>2. F[i + 1] = IF s[i + 1] \in K THEN Append(F[i], s[i + 1]) ELSE F[i]
    BY <1>3, <2>1
  <2>3. {s[j] : j \in 1..(i + 1)} = {s[j] : j \in 1..i} \cup {s[i + 1]}
    BY <2>1
  <2>4. s[i + 1] \in S
    BY <2>1
  <2> HIDE DEF T
  <2>5. CASE s[i + 1] \notin K
    BY <2>1, <2>2, <2>3, <2>5
  <2>6. CASE s[i + 1] \in K
    <3> DEFINE g == F[i]
               h == Append(g, s[i + 1])
    <3>1. F[i + 1] = h /\ g \in Seq(S) /\ Len(g) <= i
      BY <2>1, <2>2, <2>6
    <3>2. /\ h \in Seq(S) /\ Len(h) = Len(g) + 1
          /\ h[Len(g) + 1] = s[i + 1] /\ \A j \in 1..Len(g) : h[j] = g[j]
      BY <2>4, <3>1
    <3> HIDE DEF h, g
    <3>3. Elements(h) = Elements(g) \cup {s[i + 1]}
      BY <3>1, <3>2 DEF Elements
    <3>4. Elements(h) = {s[j] : j \in 1..(i + 1)} \cap K
      BY <2>1, <2>3, <2>6, <3>3 DEF g
    <3>5. ASSUME Distinct(s) PROVE Distinct(h)
      <4>1. Distinct(g) /\ \A j \in DOMAIN g : g[j] \in Elements(g)
        BY <2>1, <3>5 DEF g, Elements
      <4>2. \A k \in 1..i : s[k] # s[i + 1]
        BY <2>1, <3>5 DEF Distinct
      <4>3. s[i + 1] \notin Elements(g)
        BY <2>1, <4>2 DEF g
      <4>4. \A j, k \in 1..Len(g) : g[j] = g[k] => j = k
        BY <3>1, <4>1 DEF Distinct
      <4>5. \A j \in 1..Len(g) : g[j] # s[i + 1]
        BY <3>1, <4>1, <4>3
      <4> QED BY <3>1, <3>2, <4>4, <4>5 DEF Distinct
    <3> QED BY <2>1, <3>1, <3>2, <3>4, <3>5
  <2> QED BY <2>5, <2>6
<1>6. T = Nat
  <2> HIDE DEF Good
  <2> QED BY <1>4, <1>5, Induct
<1>7. Len(s) \in Nat
  OBVIOUS
<1>8. Good(Len(s))
  <2> HIDE DEF Good
  <2> QED BY <1>6, <1>7
<1>9. Elements(s) = {s[j] : j \in 1..Len(s)}
  BY DEF Elements
<1> QED BY <1>1, <1>8, <1>9

\* A list without repetition is as long as it has elements.
LEMMA DistinctLength ==
  ASSUME NEW S, NEW s \in Seq(S), Distinct(s)
  PROVE  IsFiniteSet(Elements(s)) /\ Cardinality(Elements(s)) = Len(s)
<1>1. Len(s) \in Nat /\ DOMAIN s = 1..Len(s)
  OBVIOUS
<1>2. IsFiniteSet(1..Len(s)) /\ Cardinality(1..Len(s)) = Len(s)
  BY <1>1, FS_Interval
<1>3. s \in Bijection(1..Len(s), Elements(s))
  BY <1>1 DEF Distinct, Elements, Bijection, Injection, IsInjective, Surjection
<1> QED BY <1>1, <1>2, <1>3, FS_Bijection DEF ExistsBijection

-----------------------------------------------------------------------------
Handling == {"first", "walk", "accept", "settle"}

Typed ==
  /\ pc \in {"top", "poll", "update", "first", "walk", "accept", "settle", "exited"}
  /\ pfds \in Seq(Fd \cup {Server})
  /\ revents \in Seq(Revents)
  /\ pollfd_id \in [Req -> Nat]
  /\ waits \in [Req -> Fd] /\ \A r \in Req : waits[r] \in Wait(r)
  /\ status \in [Req -> {"alive", "TIMED_OUT", "DEAD"}]

\* A request is on one list, and on it once.
ListsOK ==
  /\ block \in Seq(Req) /\ Distinct(block)
  /\ ready \subseteq Req /\ walk \subseteq ready
  /\ ready \cap Blocked = {}
  /\ pc \notin {"walk", "accept", "settle"} => walk = {}

\* Whoever may still accept leaves room for one connection past the limit,
\* and nobody may once SIGTERM has been noticed.
LimitOK ==
  /\ Cardinality(Conns) <= MaxConnections + 1
  /\ pc = "poll" /\ sigterm_flag = 0 /\ watch_server => Cardinality(Conns) < MaxConnections
  /\ pending_requests /\ pc \in Handling \cup {"update"} => Cardinality(Conns) <= MaxConnections
  /\ sigterm_flag = 2 => ~pending_requests
  /\ sigterm_flag \in 0..2

\* pfds has an entry for each blocked request and one for the server for each
\* poll since pfd_len was last 0; the server is polled only below the limit.
SizeOK ==
  /\ signals \in 0..MaxSignals
  /\ pc \in Handling => Len(pfds) = Len(block)
  /\ Len(pfds) <= Len(block) + MaxSignals + 1
  /\ pc = "top" /\ sigterm_flag = 0 => Len(pfds) <= Len(block) + signals
  /\ pc = "poll" /\ sigterm_flag = 0 => Len(pfds) <= Len(block) + signals + 1
  /\ Len(pfds) > Len(block) => Cardinality(Conns) < MaxConnections

Indexed(r) == pollfd_id[r] < Len(pfds) /\ pfds[pollfd_id[r] + 1] = waits[r]

\* At every step a blocked request has its own entry, the dropped one apart.
IndexOK ==
  /\ \A r \in Blocked \ dropped : Indexed(r)
  /\ dropped \subseteq Blocked
  /\ sigterm_flag # 2 => dropped = {}
  /\ \A r, q \in dropped : r = q

\* What poll left in revents is what it found.
AnswerOK ==
  pc = "update" =>
    /\ DOMAIN revents = DOMAIN pfds
    /\ \A i \in DOMAIN pfds : pfds[i] # Server => answer[pfds[i]] = revents[i]

IInv == Typed /\ ListsOK /\ LimitOK /\ SizeOK /\ IndexOK /\ AnswerOK

LEMMA ConnsFinite ==
  ASSUME ListsOK
  PROVE  /\ Conns \subseteq Req /\ IsFiniteSet(Conns) /\ Cardinality(Conns) \in Nat
         /\ Blocked \subseteq Req /\ Cardinality(Blocked) = Len(block)
         /\ Len(block) <= Cardinality(Conns)
<1>1. Blocked = Elements(block) /\ Blocked \subseteq Req
  BY DEF ListsOK, Blocked, ToSet, Elements
<1>2. IsFiniteSet(Blocked) /\ Cardinality(Blocked) = Len(block)
  BY <1>1, DistinctLength DEF ListsOK
<1>3. Conns \subseteq Req /\ Blocked \subseteq Conns
  BY <1>1 DEF ListsOK, Conns
<1>4. IsFiniteSet(Conns) /\ Cardinality(Conns) \in Nat /\ Cardinality(Blocked) <= Cardinality(Conns)
  BY <1>3, PollAssumption, FS_Subset, FS_CardinalityType
<1> QED BY <1>1, <1>2, <1>3, <1>4

LEMMA InitOK == Init => IInv
<1> SUFFICES ASSUME Init PROVE IInv OBVIOUS
<1>0. Blocked = {} /\ Conns = {}
  BY DEF Init, Blocked, Conns, ToSet
<1>1. Blocked = {} /\ Conns = {} /\ Cardinality(Conns) = 0
  BY <1>0, FS_EmptySet
<1>2. Typed
  BY DEF Init, Typed, NoWait, Wait, Fd
<1>3. ListsOK
  BY <1>1 DEF Init, ListsOK, Distinct
<1>4. LimitOK
  BY <1>1, PollAssumption DEF Init, LimitOK, Handling
<1>5. SizeOK
  BY PollAssumption DEF Init, SizeOK, Handling
<1>6. IndexOK /\ AnswerOK
  BY <1>1 DEF Init, IndexOK, AnswerOK
<1> QED BY <1>2, <1>3, <1>4, <1>5, <1>6 DEF IInv

\* Steps that leave the lists and the arrays alone.
LEMMA QuietOK ==
  ASSUME IInv,
         UNCHANGED <<pfds, revents, answer, watch_server, ready, walk, block, waits,
                     pollfd_id, status, dropped>>,
         pending_requests' => pending_requests,
         \/ pc' = pc /\ signals' = signals /\ sigterm_flag' \in {sigterm_flag, 1}
         \/ pc = "poll" /\ pc' = "top" /\ signals' = signals /\ sigterm_flag' = 1
         \/ /\ pc = "poll" /\ pc' = "top" /\ signals < MaxSignals /\ signals' = signals + 1
            /\ sigterm_flag' = sigterm_flag
         \/ pc = "top" /\ sigterm_flag = 2 /\ pc' \in {"exited", "poll"}
            /\ UNCHANGED <<signals, sigterm_flag>>
         \/ pc = "walk" /\ pc' = "accept" /\ UNCHANGED <<signals, sigterm_flag>>
         \/ pc = "walk" /\ walk = {} /\ pc' = "top" /\ UNCHANGED <<signals, sigterm_flag>>,
         sigterm_flag' # sigterm_flag => sigterm_flag = 0
  PROVE  IInv'
<1>0. UNCHANGED <<Blocked, Conns>>
  BY DEF Blocked, Conns
<1>1. Typed' /\ ListsOK'
  BY <1>0 DEF IInv, Typed, ListsOK
<1>2. LimitOK'
  BY <1>0 DEF IInv, LimitOK, Handling
<1>3. SizeOK'
  BY <1>0, PollAssumption DEF IInv, Typed, ListsOK, SizeOK, Handling, LimitOK
<1>4. IndexOK'
  BY <1>0 DEF IInv, IndexOK, Indexed, LimitOK
<1>5. AnswerOK'
  BY DEF IInv, AnswerOK
<1> QED BY <1>1, <1>2, <1>3, <1>4, <1>5 DEF IInv

LEMMA WatchServerOK == IInv /\ WatchServer => IInv'
<1> SUFFICES ASSUME IInv, WatchServer PROVE IInv' OBVIOUS
<1>1. /\ pc = "top" /\ pc' = "poll" /\ sigterm_flag = 0 /\ pending_requests' = FALSE
      /\ watch_server' = Room
      /\ pfds' = IF Room THEN Append(pfds, Server) ELSE pfds
      /\ UNCHANGED <<revents, answer, ready, walk, block, waits, pollfd_id, status,
                     sigterm_flag, signals, dropped>>
  BY DEF WatchServer, queues
<1>2. UNCHANGED <<Blocked, Conns>>
  BY <1>1 DEF Blocked, Conns
<1>3. Room <=> Cardinality(Conns) < MaxConnections
  BY DEF Room, total_connections
<1>4. /\ pfds' \in Seq(Fd \cup {Server}) /\ Len(pfds) \in Nat
      /\ Len(pfds') = IF Room THEN Len(pfds) + 1 ELSE Len(pfds)
      /\ \A i \in 1..Len(pfds) : pfds'[i] = pfds[i]
  BY <1>1 DEF IInv, Typed
<1>5. Typed' /\ ListsOK'
  BY <1>1, <1>2, <1>4 DEF IInv, Typed, ListsOK
<1>6. watch_server' => Cardinality(Conns) < MaxConnections
  BY <1>1, <1>3, Zenon
<1>7. LimitOK'
  BY <1>1, <1>2, <1>6 DEF IInv, LimitOK, Handling
<1>8. SizeOK'
  <2>1. Len(block) \in Nat
    BY DEF IInv, ListsOK
  <2> QED BY <1>1, <1>2, <1>3, <1>4, <2>1, PollAssumption DEF IInv, SizeOK, Handling
<1>9. IndexOK'
  <2>1. \A r \in Blocked \ dropped : r \in Req
    BY DEF IInv, ListsOK, Blocked, ToSet
  <2>2. ASSUME NEW r \in Blocked \ dropped PROVE Indexed(r)'
    <3>1. Indexed(r) /\ pollfd_id[r] \in Nat
      BY <2>1 DEF IInv, IndexOK, Typed
    <3> QED BY <1>1, <1>4, <3>1 DEF Indexed
  <2> QED BY <1>1, <1>2, <2>2 DEF IInv, IndexOK
<1>10. AnswerOK'
  BY <1>1 DEF AnswerOK
<1> QED BY <1>5, <1>7, <1>8, <1>9, <1>10 DEF IInv

\* "remove server_pfd" shortens pfds by at most one entry, so at most one
\* request loses its own: two would wait on the same descriptor.
LEMMA RemoveServerOK == IInv /\ RemoveServer => IInv'
<1> SUFFICES ASSUME IInv, RemoveServer PROVE IInv' OBVIOUS
<1> DEFINE len == IF server_pfd < Len(pfds) THEN Len(pfds) - 1 ELSE Len(pfds)
<1>1. /\ pc = "top" /\ sigterm_flag = 1 /\ sigterm_flag' = 2 /\ pending_requests' = FALSE
      /\ pc' = IF Conns = {} THEN "exited" ELSE "poll"
      /\ pfds' = SubSeq(pfds, 1, len)
      /\ dropped' = {r \in Blocked : pollfd_id[r] >= len}
      /\ UNCHANGED <<revents, answer, ready, walk, block, waits, pollfd_id, status,
                     signals>>
  BY DEF RemoveServer, queues
<1>2. UNCHANGED <<Blocked, Conns>>
  BY <1>1 DEF Blocked, Conns
<1>3. len \in Int /\ len <= Len(pfds) /\ Len(pfds) <= len + 1 /\ Len(pfds) \in Nat
  BY DEF IInv, Typed
<1> HIDE DEF len
<1>4. /\ pfds' \in Seq(Fd \cup {Server}) /\ Len(pfds') <= Len(pfds) /\ Len(pfds') \in Nat
      /\ Len(pfds') >= len /\ \A i \in 1..len : pfds'[i] = pfds[i]
  <2>1. CASE len = -1
    BY <1>1, <1>3, <2>1 DEF IInv, Typed
  <2>2. CASE len \in Nat
    BY <1>1, <1>3, <2>2 DEF IInv, Typed
  <2> QED BY <1>3, <2>1, <2>2
<1>5. Typed' /\ ListsOK'
  BY <1>1, <1>2, <1>4 DEF IInv, Typed, ListsOK
<1>6. LimitOK'
  BY <1>1, <1>2 DEF IInv, LimitOK, Handling
<1>7. SizeOK'
  <2>1. Len(block) \in Nat
    BY DEF IInv, ListsOK
  <2> QED BY <1>1, <1>2, <1>4, <2>1, PollAssumption DEF IInv, SizeOK, Handling
<1>8. \A r \in Blocked : Indexed(r) /\ pollfd_id[r] \in Nat /\ waits[r] \in Wait(r)
  <2>1. Blocked \subseteq Req /\ dropped = {}
    BY <1>1, ConnsFinite DEF IInv, IndexOK
  <2> QED BY <2>1 DEF IInv, IndexOK, Typed
<1>9. IndexOK'
  <2>1. ASSUME NEW r \in Blocked \ dropped' PROVE Indexed(r)'
    <3>1. pollfd_id[r] < len
      BY <1>1, <1>3, <1>8
    <3> QED BY <1>1, <1>3, <1>4, <1>8, <3>1 DEF Indexed
  <2>2. ASSUME NEW r \in dropped', NEW q \in dropped' PROVE r = q
    <3>1. pollfd_id[r] = len /\ pollfd_id[q] = len
      BY <1>1, <1>3, <1>8 DEF Indexed
    <3>2. waits[r] = waits[q] /\ waits[r] \in Wait(r) /\ waits[q] \in Wait(q)
      BY <1>1, <1>8, <3>1 DEF Indexed
    <3> QED BY <3>2 DEF Wait
  <2> QED BY <1>1, <1>2, <2>1, <2>2 DEF IndexOK
<1>10. AnswerOK'
  BY <1>1 DEF AnswerOK
<1> QED BY <1>5, <1>6, <1>7, <1>9, <1>10 DEF IInv

LEMMA PollOK == IInv /\ Poll => IInv'
<1> SUFFICES ASSUME IInv, Poll PROVE IInv' OBVIOUS
<1>1. PICK ev \in [ToSet(pfds) -> Revents] :
        /\ revents' = [i \in DOMAIN pfds |-> ev[pfds[i]]]
        /\ answer' = [d \in Fd |-> IF d \in ToSet(pfds) THEN ev[d] ELSE "0"]
        /\ pending_requests' =
             (/\ sigterm_flag = 0 /\ watch_server
              /\ revents'[server_pfd + 1] = "event")
  BY DEF Poll
<1>2. /\ pc = "poll" /\ pc' = "update" /\ signals' = 0
      /\ UNCHANGED <<pfds, watch_server, ready, walk, block, waits, pollfd_id, status,
                     sigterm_flag, dropped>>
  BY DEF Poll, queues
<1>3. UNCHANGED <<Blocked, Conns>>
  BY <1>2 DEF Blocked, Conns
<1>4. pending_requests' => sigterm_flag = 0 /\ watch_server
  BY <1>1, Zenon
<1>5. DOMAIN pfds = 1..Len(pfds) /\ Len(pfds) \in Nat /\ \A i \in DOMAIN pfds : pfds[i] \in ToSet(pfds)
  BY DEF IInv, Typed, ToSet
<1>6. revents' \in Seq(Revents) /\ DOMAIN revents' = DOMAIN pfds
  BY <1>1, <1>5
<1>7. Typed' /\ ListsOK'
  BY <1>2, <1>3, <1>6 DEF IInv, Typed, ListsOK
<1>8. LimitOK'
  <2>1. Cardinality(Conns) \in Nat
    BY ConnsFinite DEF IInv
  <2> QED BY <1>2, <1>3, <1>4, <2>1, PollAssumption DEF IInv, LimitOK, Handling
<1>9. SizeOK'
  BY <1>2, <1>3, PollAssumption DEF IInv, SizeOK, Handling
<1>10. IndexOK'
  BY <1>2, <1>3 DEF IInv, IndexOK, Indexed
<1>11. AnswerOK'
  <2> SUFFICES ASSUME NEW i \in DOMAIN pfds, pfds[i] # Server
               PROVE  answer'[pfds[i]] = revents'[i]
    BY <1>2, <1>6 DEF AnswerOK
  <2>1. pfds[i] \in Fd /\ pfds[i] \in ToSet(pfds)
    BY <1>5 DEF IInv, Typed
  <2> QED BY <1>1, <2>1
<1> QED BY <1>7, <1>8, <1>9, <1>10, <1>11 DEF IInv

\* What update_blocked found in the entry of a blocked request, and what it
\* makes of the request.
Saw(r, junk) == IF r \in dropped THEN junk.revents ELSE revents[Entry(r)]
Fate(r, T, junk) ==
  IF r \notin Blocked THEN status[r]
  ELSE IF Saw(r, junk) = "error" THEN "DEAD"
  ELSE IF r \in T THEN "TIMED_OUT"
  ELSE IF Saw(r, junk) = "0" THEN "blocked" ELSE "alive"

LEMMA UpdateFacts ==
  ASSUME IInv, NEW T, NEW junk \in Leftover, UpdateBlocked(T, junk)
  PROVE  /\ block' \in Seq(Req) /\ Distinct(block') /\ Len(block') <= Len(block)
         /\ Blocked' = {r \in Blocked : Fate(r, T, junk) = "blocked"}
         /\ ready' = ready \cup (Blocked \ Blocked')
         /\ status' = [r \in Req |-> IF Fate(r, T, junk) = "blocked" THEN status[r]
                                     ELSE Fate(r, T, junk)]
         /\ pfds' = [n \in 1..Len(block') |->
                       IF block'[n] \in dropped THEN junk.fd ELSE pfds[Entry(block'[n])]]
         /\ pollfd_id' \in [Req -> Nat]
         /\ \A n \in 1..Len(block') : pollfd_id'[block'[n]] = n - 1
         /\ waits' = [r \in Req |-> IF r \in Blocked' THEN waits[r] ELSE NoWait(r)]
         /\ dropped' = dropped \cap Blocked'
<1> DEFINE fate == [r \in Req |-> Fate(r, T, junk)]
           K == {r \in Blocked : fate[r] = "blocked"}
           stay == Filter(block, K)
<1>1. /\ block' = stay
      /\ ready' = ready \cup (Blocked \ ToSet(stay))
      /\ status' = [r \in Req |-> IF fate[r] = "blocked" THEN status[r] ELSE fate[r]]
      /\ pfds' = [n \in DOMAIN stay |->
                   IF stay[n] \in dropped THEN junk.fd ELSE pfds[Entry(stay[n])]]
      /\ pollfd_id' = [r \in Req |->
           IF r \in ToSet(stay)
           THEN NewId(r, CHOOSE n \in DOMAIN stay : stay[n] = r) ELSE 0]
      /\ waits' = [r \in Req |-> IF r \in ToSet(stay) THEN waits[r] ELSE NoWait(r)]
      /\ dropped' = dropped \cap ToSet(stay)
  BY Zenon DEF UpdateBlocked, Fate, Saw
<1>2. Blocked \subseteq Req /\ Blocked = Elements(block) /\ block \in Seq(Req) /\ Distinct(block)
  BY ConnsFinite DEF IInv, ListsOK, Blocked, ToSet, Elements
<1> HIDE DEF fate
<1>3. stay \in Seq(Req) /\ Len(stay) <= Len(block) /\ Distinct(stay) /\ Elements(stay) = K
  BY <1>2, FilterKeeps
<1> HIDE DEF stay
<1>4. Blocked' = K /\ ToSet(stay) = K
  BY <1>1, <1>3 DEF Blocked, ToSet, Elements
<1>5. \A r \in Req : fate[r] = Fate(r, T, junk)
  BY DEF fate
<1>6. K = {r \in Blocked : Fate(r, T, junk) = "blocked"}
  BY <1>2, <1>5
<1>7. DOMAIN stay = 1..Len(stay) /\ Len(stay) \in Nat
  BY <1>3
<1>8. ASSUME NEW r \in ToSet(stay)
      PROVE  /\ (CHOOSE n \in DOMAIN stay : stay[n] = r) \in DOMAIN stay
             /\ stay[CHOOSE n \in DOMAIN stay : stay[n] = r] = r
  BY DEF ToSet
<1> DEFINE at(r) == CHOOSE n \in DOMAIN stay : stay[n] = r
<1>9. \A r \in ToSet(stay) : at(r) \in 1..Len(stay) /\ stay[at(r)] = r
  BY <1>7, <1>8
<1>10. \A r \in Req : pollfd_id'[r] = IF r \in ToSet(stay) THEN at(r) - 1 ELSE 0
  BY <1>1 DEF NewId
<1>11. pollfd_id' = [r \in Req |-> pollfd_id'[r]]
  BY <1>1
<1> HIDE DEF at
<1>12. pollfd_id' \in [Req -> Nat]
  BY <1>7, <1>9, <1>10, <1>11
<1>13. ASSUME NEW n \in 1..Len(stay) PROVE pollfd_id'[stay[n]] = n - 1
  <2>1. stay[n] \in Req /\ stay[n] \in ToSet(stay)
    BY <1>3, <1>7 DEF ToSet
  <2>2. at(stay[n]) = n
    BY <1>3, <1>7, <1>9, <2>1 DEF Distinct
  <2> QED BY <1>10, <2>1, <2>2
<1>14. status' = [r \in Req |-> IF Fate(r, T, junk) = "blocked" THEN status[r]
                                ELSE Fate(r, T, junk)]
  BY <1>1, <1>5
<1> HIDE DEF K
<1>15. /\ ready' = ready \cup (Blocked \ Blocked')
       /\ waits' = [r \in Req |-> IF r \in Blocked' THEN waits[r] ELSE NoWait(r)]
       /\ dropped' = dropped \cap Blocked'
  BY <1>1, <1>4
<1>16. pfds' = [n \in 1..Len(block') |->
                  IF block'[n] \in dropped THEN junk.fd ELSE pfds[Entry(block'[n])]]
  BY <1>1, <1>7
<1> QED BY <1>1, <1>3, <1>4, <1>6, <1>12, <1>13, <1>14, <1>15, <1>16

LEMMA UpdateBlockedOK ==
  ASSUME IInv, NEW T, NEW junk \in Leftover, UpdateBlocked(T, junk)
  PROVE  IInv' /\ Conns' = Conns
<1>1. /\ pc = "update" /\ pc' = "first" /\ revents' = <<>>
      /\ UNCHANGED <<watch_server, walk, pending_requests, sigterm_flag, signals>>
  BY DEF UpdateBlocked
<1>2. /\ Blocked' \subseteq Blocked /\ ready' = ready \cup (Blocked \ Blocked')
      /\ Blocked \subseteq Req /\ dropped' = dropped \cap Blocked'
  BY UpdateFacts, ConnsFinite DEF IInv
<1>3. Conns' = Conns
  BY <1>2 DEF Conns
<1>4. block' \in Seq(Req) /\ Distinct(block') /\ Len(block') <= Len(block) /\ Len(block') \in Nat
  BY UpdateFacts
<1>5. ASSUME NEW n \in 1..Len(block')
      PROVE  /\ block'[n] \in Blocked' /\ block'[n] \in Req
             /\ block'[n] \notin dropped =>
                  /\ Entry(block'[n]) \in 1..Len(pfds)
                  /\ pfds[Entry(block'[n])] = waits[block'[n]]
  <2>1. block'[n] \in Blocked' /\ block'[n] \in Req
    BY <1>4 DEF Blocked, ToSet
  <2>2. block'[n] \notin dropped => Indexed(block'[n])
    BY <1>2, <2>1 DEF IInv, IndexOK
  <2>3. pollfd_id[block'[n]] \in Nat /\ Len(pfds) \in Nat
    BY <2>1 DEF IInv, Typed
  <2> QED BY <2>1, <2>2, <2>3 DEF Indexed, Entry
<1>6. junk.fd \in Fd \cup {Server}
  BY DEF Leftover
<1>7. pfds' = [n \in 1..Len(block') |->
                 IF block'[n] \in dropped THEN junk.fd ELSE pfds[Entry(block'[n])]]
  BY UpdateFacts
<1>8. pfds' \in Seq(Fd \cup {Server}) /\ Len(pfds') = Len(block')
  <2>1. \A n \in 1..Len(block') : pfds'[n] \in Fd \cup {Server}
    BY <1>5, <1>6, <1>7 DEF IInv, Typed
  <2> QED BY <1>4, <1>7, <2>1
<1>9. Typed'
  <2>1. \A r \in Req : Fate(r, T, junk) # "blocked"
                         => Fate(r, T, junk) \in {"alive", "TIMED_OUT", "DEAD"}
    BY DEF Fate, IInv, Typed
  <2>2. status' \in [Req -> {"alive", "TIMED_OUT", "DEAD"}]
    <3>1. status' = [r \in Req |-> IF Fate(r, T, junk) = "blocked" THEN status[r]
                                   ELSE Fate(r, T, junk)]
      BY UpdateFacts
    <3>2. status \in [Req -> {"alive", "TIMED_OUT", "DEAD"}]
      BY DEF IInv, Typed
    <3> QED BY <2>1, <3>1, <3>2
  <2>3. waits' = [r \in Req |-> IF r \in Blocked' THEN waits[r] ELSE NoWait(r)]
    BY UpdateFacts
  <2>4. waits' \in [Req -> Fd] /\ \A r \in Req : waits'[r] \in Wait(r)
    BY <2>3 DEF IInv, Typed, NoWait, Wait, Fd
  <2>5. pollfd_id' \in [Req -> Nat]
    BY UpdateFacts
  <2>6. revents' \in Seq(Revents)
    BY <1>1
  <2> QED BY <1>1, <1>8, <2>2, <2>4, <2>5, <2>6 DEF Typed
<1>10. ListsOK'
  BY <1>1, <1>2, <1>4 DEF IInv, ListsOK
<1>11. LimitOK'
  BY <1>1, <1>3 DEF IInv, LimitOK, Handling
<1>12. SizeOK'
  BY <1>1, <1>4, <1>8, PollAssumption DEF IInv, SizeOK, Handling
<1>13. IndexOK'
  <2>1. ASSUME NEW r \in Blocked' \ dropped' PROVE Indexed(r)'
    <3>1. PICK n \in 1..Len(block') : block'[n] = r
      BY <1>4 DEF Blocked, ToSet
    <3>2. r \notin dropped /\ r \in Req
      BY <1>2
    <3>3. pollfd_id'[r] = n - 1 /\ pfds'[n] = waits[r]
      BY <1>5, <1>7, <3>1, <3>2, UpdateFacts
    <3>4. waits'[r] = waits[r]
      BY <3>2, UpdateFacts
    <3> QED BY <1>4, <1>8, <3>3, <3>4 DEF Indexed
  <2> QED BY <1>1, <1>2, <2>1 DEF IInv, IndexOK
<1>14. AnswerOK'
  BY <1>1 DEF AnswerOK
<1> QED BY <1>3, <1>9, <1>10, <1>11, <1>12, <1>13, <1>14 DEF IInv

LEMMA AcceptOK == IInv /\ Accept => IInv'
<1> SUFFICES ASSUME IInv, Accept PROVE IInv' OBVIOUS
<1>1. /\ pc \in {"first", "accept"}
      /\ IF pending_requests THEN GetRequest ELSE UNCHANGED <<pending_requests, ready>>
      /\ \/ pc = "first" /\ walk' = ready' /\ pc' = "walk"
         \/ pc = "accept" /\ walk' = walk /\ pc' = "settle"
      /\ UNCHANGED <<pfds, revents, answer, watch_server, block, waits,
                     pollfd_id, status, sigterm_flag, signals, dropped>>
  BY DEF Accept
<1>2. UNCHANGED Blocked
  BY <1>1 DEF Blocked
<1>3. Typed' /\ IndexOK' /\ AnswerOK'
  BY <1>1, <1>2 DEF IInv, Typed, IndexOK, Indexed, AnswerOK
<1>4. Len(pfds) = Len(block) /\ Len(block) \in Nat
  BY <1>1 DEF IInv, SizeOK, Handling, ListsOK
<1>5. SizeOK'
  BY <1>1, <1>4, PollAssumption DEF IInv, SizeOK, Handling
<1>6. CASE UNCHANGED ready /\ (pending_requests' => pending_requests)
  <2>1. Conns' = Conns
    BY <1>2, <1>6 DEF Conns
  <2>2. ListsOK'
    BY <1>1, <1>2, <1>6 DEF IInv, ListsOK
  <2>3. LimitOK'
    BY <1>1, <1>6, <2>1 DEF IInv, LimitOK, Handling
  <2> QED BY <1>3, <1>5, <2>2, <2>3 DEF IInv
<1>7. ASSUME pending_requests, NEW r \in Req \ Conns, ready' = ready \cup {r},
             pending_requests' = (total_connections < MaxConnections)
      PROVE  IInv'
  <2>1. Conns' = Conns \cup {r}
    BY <1>2, <1>7 DEF Conns
  <2>2. Cardinality(Conns') = Cardinality(Conns) + 1 /\ Cardinality(Conns) \in Nat
    BY <1>7, <2>1, ConnsFinite, FS_AddElement DEF IInv
  <2>3. Cardinality(Conns) <= MaxConnections /\ sigterm_flag # 2
    BY <1>1, <1>7 DEF IInv, LimitOK, Handling
  <2>4. pending_requests' => Cardinality(Conns) < MaxConnections
    BY <1>7, Zenon DEF total_connections
  <2>5. LimitOK'
    BY <1>1, <2>2, <2>3, <2>4, PollAssumption DEF IInv, LimitOK, Handling
  <2>6. ListsOK'
    BY <1>1, <1>2, <1>7 DEF IInv, ListsOK, Conns
  <2> QED BY <1>3, <1>5, <2>5, <2>6 DEF IInv
<1>8. CASE pending_requests /\ GetRequest
  <2>1. CASE UNCHANGED ready /\ (pending_requests' => pending_requests)
    BY <1>6, <2>1
  <2>2. CASE \E r \in Req \ Conns :
               /\ ready' = ready \cup {r}
               /\ pending_requests' = (total_connections < MaxConnections)
    BY <1>7, <1>8, <2>2
  <2> QED BY <1>8, <2>1, <2>2, Zenon DEF GetRequest
<1> QED BY <1>1, <1>6, <1>8

LEMMA BlockRequestOK ==
  ASSUME IInv, NEW r \in Req, BlockRequest(r)
  PROVE  IInv' /\ Conns' = Conns
<1>1. PICK d \in Wait(r) : BoaFdSet(r, d)
  BY DEF BlockRequest
<1>2. /\ pc = "settle" /\ pc' = "walk" /\ r \in walk /\ walk' = walk \ {r}
      /\ ready' = ready \ {r} /\ block' = <<r>> \o block
      /\ pfds' = Append(pfds, d)
      /\ pollfd_id' = [pollfd_id EXCEPT ![r] = Len(pfds)]
      /\ waits' = [waits EXCEPT ![r] = d]
      /\ UNCHANGED <<revents, answer, watch_server, pending_requests, status,
                     sigterm_flag, signals, dropped>>
  BY <1>1 DEF BlockRequest, Settled, BoaFdSet
<1>3. /\ block \in Seq(Req) /\ Distinct(block) /\ Len(block) \in Nat
      /\ r \in ready /\ r \notin Blocked
  BY <1>2 DEF IInv, ListsOK
<1>4. /\ block' \in Seq(Req) /\ Len(block') = Len(block) + 1 /\ block'[1] = r
      /\ \A i \in 1..Len(block) : block'[i + 1] = block[i]
  BY <1>2, <1>3
<1>5. \A i \in 2..Len(block') : i - 1 \in 1..Len(block) /\ block'[i] = block[i - 1]
  BY <1>3, <1>4
<1>6. \A i \in 1..Len(block) : block[i] \in Blocked
  BY <1>3 DEF Blocked, ToSet
<1>7. Distinct(block')
  <2>1. DOMAIN block' = {1} \cup 2..Len(block')
    BY <1>3, <1>4
  <2>2. \A i \in 2..Len(block') : block'[i] # r
    BY <1>3, <1>5, <1>6
  <2>3. \A i, j \in 2..Len(block') : block'[i] = block'[j] => i = j
    <3> TAKE i, j \in 2..Len(block')
    <3>1. /\ i - 1 \in DOMAIN block /\ j - 1 \in DOMAIN block
          /\ block'[i] = block[i - 1] /\ block'[j] = block[j - 1]
      BY <1>3, <1>5
    <3>2. block[i - 1] = block[j - 1] => i - 1 = j - 1
      BY <1>3, <3>1, Zenon DEF Distinct
    <3> QED BY <1>4, <3>1, <3>2
  <2> QED BY <1>4, <2>1, <2>2, <2>3 DEF Distinct
<1>8. Blocked' = Blocked \cup {r}
  <2>1. \A x \in Blocked' : x = r \/ x \in Blocked
    <3> TAKE x \in Blocked'
    <3>1. PICK i \in 1..Len(block') : block'[i] = x
      BY <1>4 DEF Blocked, ToSet
    <3>2. i = 1 \/ i \in 2..Len(block')
      BY <1>3, <1>4
    <3> QED BY <1>4, <1>5, <1>6, <3>1, <3>2
  <2>2. \A x \in Blocked : x \in Blocked'
    <3> TAKE x \in Blocked
    <3>1. PICK i \in 1..Len(block) : block[i] = x
      BY <1>3 DEF Blocked, ToSet
    <3>2. block'[i + 1] = x /\ i + 1 \in DOMAIN block'
      BY <1>3, <1>4, <3>1
    <3> QED BY <3>2 DEF Blocked, ToSet
  <2>3. r \in Blocked'
    BY <1>3, <1>4 DEF Blocked, ToSet
  <2> QED BY <2>1, <2>2, <2>3
<1>9. Conns' = Conns
  BY <1>2, <1>3, <1>8 DEF Conns
<1>10. ListsOK'
  BY <1>2, <1>3, <1>4, <1>7, <1>8 DEF IInv, ListsOK
<1>11. LimitOK'
  BY <1>2, <1>9 DEF IInv, LimitOK, Handling
<1>12. d \in Fd /\ Len(pfds) \in Nat /\ Len(pfds) = Len(block)
  BY <1>2 DEF Wait, Fd, IInv, Typed, SizeOK, Handling
<1>13. /\ pfds' \in Seq(Fd \cup {Server}) /\ Len(pfds') = Len(pfds) + 1
       /\ pfds'[Len(pfds) + 1] = d /\ \A i \in 1..Len(pfds) : pfds'[i] = pfds[i]
  BY <1>2, <1>12 DEF IInv, Typed
<1>14. Typed'
  BY <1>2, <1>12, <1>13 DEF IInv, Typed
<1>15. SizeOK'
  BY <1>2, <1>3, <1>4, <1>9, <1>12, <1>13, PollAssumption DEF IInv, SizeOK, Handling
<1>16. IndexOK'
  <2>1. Indexed(r)'
    BY <1>2, <1>12, <1>13 DEF Indexed, IInv, Typed
  <2>2. ASSUME NEW q \in Blocked \ dropped, q # r PROVE Indexed(q)'
    <3>1. Indexed(q) /\ q \in Req
      BY <2>2, ConnsFinite DEF IInv, IndexOK
    <3>2. pollfd_id[q] \in Nat /\ pollfd_id'[q] = pollfd_id[q] /\ waits'[q] = waits[q]
      BY <1>2, <2>2, <3>1 DEF IInv, Typed
    <3> QED BY <1>12, <1>13, <3>1, <3>2 DEF Indexed
  <2> QED BY <1>2, <1>8, <2>1, <2>2 DEF IInv, IndexOK
<1>17. AnswerOK'
  BY <1>2 DEF AnswerOK
<1> QED BY <1>9, <1>10, <1>11, <1>14, <1>15, <1>16, <1>17 DEF IInv

\* The other two cases of the switch; free_request takes one connection off.
LEMMA SettleOK ==
  ASSUME IInv, NEW r \in Req, KeepReady(r) \/ FreeRequest(r)
  PROVE  /\ IInv' /\ UNCHANGED block
         /\ Conns' = Conns \/ (r \in Conns /\ Conns' = Conns \ {r})
<1>1. /\ pc = "settle" /\ pc' = "walk" /\ r \in walk /\ walk' = walk \ {r}
      /\ ready' = ready \/ ready' = ready \ {r}
      /\ status' = status \/ status' = [status EXCEPT ![r] = "alive"]
      /\ UNCHANGED <<pfds, revents, answer, watch_server, block, waits, pollfd_id,
                     pending_requests, sigterm_flag, signals, dropped>>
  BY DEF KeepReady, FreeRequest, Settled
<1>2. UNCHANGED Blocked /\ r \in ready /\ r \notin Blocked
  BY <1>1 DEF Blocked, IInv, ListsOK
<1>3. Conns' = Conns \/ (r \in Conns /\ Conns' = Conns \ {r})
  BY <1>1, <1>2 DEF Conns
<1>4. Cardinality(Conns') <= Cardinality(Conns) /\ Cardinality(Conns') \in Nat
      /\ Cardinality(Conns) \in Nat
  <2>1. Conns' \subseteq Conns
    BY <1>3
  <2> QED BY <2>1, ConnsFinite, FS_Subset, FS_CardinalityType DEF IInv
<1>5. Typed' /\ IndexOK' /\ AnswerOK'
  BY <1>1, <1>2 DEF IInv, Typed, IndexOK, Indexed, AnswerOK
<1>6. ListsOK'
  BY <1>1, <1>2 DEF IInv, ListsOK
<1>7. LimitOK'
  BY <1>1, <1>4, PollAssumption DEF IInv, LimitOK, Handling
<1>8. SizeOK'
  BY <1>1, <1>4, PollAssumption DEF IInv, SizeOK, Handling, ListsOK, Typed
<1> QED BY <1>1, <1>3, <1>5, <1>6, <1>7, <1>8 DEF IInv

LEMMA NextOK == IInv /\ [Next]_vars => IInv'
<1> SUFFICES ASSUME IInv, [Next]_vars PROVE IInv' OBVIOUS
<1>1. CASE Sigterm
  BY <1>1, QuietOK DEF Sigterm, queues
<1>2. CASE Interrupt
  BY <1>2, QuietOK DEF Interrupt, queues
<1>3. CASE Drain
  BY <1>3, QuietOK DEF Drain, queues
<1>4. CASE Handle \/ EndWalk
  BY <1>4, QuietOK DEF Handle, EndWalk, queues
<1>5. CASE UNCHANGED vars
  BY <1>5, QuietOK DEF vars, queues
<1>6. CASE WatchServer \/ RemoveServer \/ Poll \/ Accept
  BY <1>6, WatchServerOK, RemoveServerOK, PollOK, AcceptOK
<1>7. ASSUME NEW T \in SUBSET Blocked, NEW junk \in Leftover, UpdateBlocked(T, junk)
      PROVE IInv'
  BY <1>7, UpdateBlockedOK
<1>8. ASSUME NEW r \in Req, BlockRequest(r) \/ KeepReady(r) \/ FreeRequest(r)
      PROVE IInv'
  BY <1>8, BlockRequestOK, SettleOK
<1> QED
  BY <1>1, <1>2, <1>3, <1>4, <1>5, <1>6, <1>7, <1>8 DEF Next, Exited

\* Every reachable state of the poll loop satisfies the inductive invariant.
THEOREM Invariance == Spec => []IInv
BY InitOK, NextOK, PTL DEF Spec

\* For every number of requests, the two arrays of poll.c never hold more
\* entries than the connections and the interrupted polls call for.
THEOREM TypeCorrect == Spec => []TypeOK
<1>1. IInv => TypeOK
  <2> SUFFICES ASSUME IInv PROVE TypeOK OBVIOUS
  <2>1. Len(block) <= Cardinality(Conns) /\ Len(block) \in Nat /\ Blocked \subseteq Req
        /\ Cardinality(Conns) \in Nat
    BY ConnsFinite DEF IInv, ListsOK
  <2>2. Len(pfds) <= MaxEntries
    BY <2>1, PollAssumption DEF IInv, Typed, LimitOK, SizeOK, MaxEntries
  <2> QED BY <2>1, <2>2 DEF TypeOK, IInv, Typed, ListsOK, IndexOK
<1> QED BY <1>1, Invariance, PTL

\* Through every rebuilding of pfds the index a blocked request keeps is that
\* of its own entry; the removal of the server takes at most one.
THEOREM Polled == Spec => []PolledUnlessDropped
<1>1. IInv => PolledUnlessDropped
  <2> SUFFICES ASSUME IInv PROVE PolledUnlessDropped OBVIOUS
  <2>1. Cardinality(dropped) <= 1
    <3>1. CASE dropped = {}
      BY <3>1, FS_EmptySet
    <3>2. CASE dropped # {}
      <4>1. PICK r : dropped = {r}
        BY <3>2 DEF IInv, IndexOK
      <4> QED BY <4>1, FS_Singleton, SMTT(30)
    <3> QED BY <3>1, <3>2
  <2> QED BY <2>1 DEF IInv, IndexOK, Indexed, PolledUnlessDropped
<1> QED BY <1>1, Invariance, PTL

\* No step but update_blocked takes a request off the block list, and it does
\* so for what poll said of that request's own descriptor.
THEOREM OwnEvent == Spec => WokenByOwnEvent
<1> DEFINE Woken == \A r \in Blocked \ (Blocked' \cup dropped) :
                      CASE status'[r] = "DEAD" -> answer[waits[r]] = "error"
                        [] status'[r] = "alive" -> answer[waits[r]] = "event"
                        [] OTHER -> answer[waits[r]] # "error"
<1>1. IInv /\ [Next]_vars => [Woken]_vars
  <2> SUFFICES ASSUME IInv, Next PROVE Woken
    OBVIOUS
  <2>1. CASE UNCHANGED Blocked
    BY <2>1
  <2>2. ASSUME NEW r \in Req, BlockRequest(r) \/ KeepReady(r) \/ FreeRequest(r)
        PROVE  Blocked \subseteq Blocked'
    <3>1. CASE BlockRequest(r)
      <4>1. block' = <<r>> \o block /\ block \in Seq(Req)
        BY <3>1 DEF BlockRequest, IInv, ListsOK
      <4>2. \A i \in DOMAIN block : i + 1 \in DOMAIN block' /\ block'[i + 1] = block[i]
        BY <4>1
      <4> QED BY <4>2 DEF Blocked, ToSet
    <3>2. CASE UNCHANGED block
      BY <3>2 DEF Blocked
    <3> QED BY <2>2, <3>1, <3>2, SettleOK
  <2>3. ASSUME NEW T \in SUBSET Blocked, NEW junk \in Leftover, UpdateBlocked(T, junk),
               NEW r \in Blocked \ (Blocked' \cup dropped)
        PROVE  CASE status'[r] = "DEAD" -> answer[waits[r]] = "error"
                 [] status'[r] = "alive" -> answer[waits[r]] = "event"
                 [] OTHER -> answer[waits[r]] # "error"
    <3>1. pc = "update"
      BY <2>3 DEF UpdateBlocked
    <3>2. r \in Req /\ Indexed(r) /\ pollfd_id[r] \in Nat /\ waits[r] \in Wait(r)
      BY ConnsFinite DEF IInv, IndexOK, Typed
    <3>3. Entry(r) \in DOMAIN pfds /\ pfds[Entry(r)] = waits[r] /\ waits[r] # Server
      BY <3>2 DEF Entry, Indexed, IInv, Typed, Wait, Server
    <3>4. answer[waits[r]] = revents[Entry(r)] /\ revents[Entry(r)] \in Revents
      BY <3>1, <3>3 DEF IInv, AnswerOK, Typed
    <3>5. Saw(r, junk) = answer[waits[r]]
      BY <3>4 DEF Saw
    <3>6. status'[r] = Fate(r, T, junk) /\ Fate(r, T, junk) # "blocked"
      <4>1. Fate(r, T, junk) # "blocked"
        BY <2>3, UpdateFacts
      <4>2. status' = [q \in Req |-> IF Fate(q, T, junk) = "blocked" THEN status[q]
                                     ELSE Fate(q, T, junk)]
        BY <2>3, UpdateFacts
      <4> QED BY <3>2, <4>1, <4>2
    <3> QED BY <3>4, <3>5, <3>6 DEF Fate, Revents
  <2>4. CASE \/ Sigterm \/ Interrupt \/ WatchServer \/ RemoveServer \/ Drain \/ Poll
             \/ Accept \/ Handle \/ EndWalk \/ Exited
    <3>1. UNCHANGED block
      BY <2>4 DEF Sigterm, Interrupt, WatchServer, RemoveServer, Drain, Poll, Accept,
                  Handle, EndWalk, Exited, queues, vars
    <3> QED BY <2>1, <3>1 DEF Blocked
  <2> QED BY <2>2, <2>3, <2>4 DEF Next
<1> QED BY <1>1, Invariance, PTL DEF Spec, WokenByOwnEvent
-----------------------------------------------------------------------------
(* The refinement of ConnectionTable, as for the select loop. *)

LEMMA TableStutter ==
  ASSUME Conns' = Conns, pc # "exited", pc' # "exited",
         (sigterm_flag' = 2) <=> (sigterm_flag = 2)
  PROVE  UNCHANGED Table!vars
BY DEF Table!vars, Phase

LEMMA TableAccept ==
  ASSUME IInv, Accept
  PROVE  [Table!Next]_Table!vars
<1>1. /\ pc \in {"first", "accept"} /\ pc' \in {"walk", "settle"}
      /\ IF pending_requests THEN GetRequest ELSE UNCHANGED <<pending_requests, ready>>
      /\ UNCHANGED <<block, sigterm_flag>>
  BY DEF Accept
<1>2. CASE UNCHANGED ready
  <2>1. Conns' = Conns
    BY <1>1, <1>2 DEF Conns, Blocked
  <2> QED BY <1>1, <2>1, TableStutter
<1>3. ASSUME pending_requests, NEW r \in Req \ Conns, ready' = ready \cup {r}
      PROVE  Table!Open(r)
  <2>1. Phase = "serving" /\ Phase' = "serving"
    BY <1>1, <1>3 DEF Phase, IInv, LimitOK
  <2>2. r \notin Conns /\ Conns' = Conns \cup {r}
    BY <1>1, <1>3 DEF Conns, Blocked
  <2>3. Table!Cardinality(Conns) <= MaxConnections
    BY <1>1, <1>3 DEF IInv, LimitOK, Handling, Cardinality, Table!Cardinality
  <2> QED BY <2>1, <2>2, <2>3 DEF Table!Open
<1> QED BY <1>1, <1>2, <1>3 DEF GetRequest, Table!Next

LEMMA TableTop ==
  ASSUME IInv, WatchServer \/ RemoveServer \/ Drain
  PROVE  [Table!Next]_Table!vars
<1>1. Conns' = Conns /\ pc = "top"
  BY DEF WatchServer, RemoveServer, Drain, queues, Conns, Blocked
<1>2. CASE WatchServer
  BY <1>1, <1>2, TableStutter DEF WatchServer
<1>3. CASE RemoveServer
  <2>1. sigterm_flag = 1 /\ sigterm_flag' = 2 /\ pc' = IF Conns = {} THEN "exited" ELSE "poll"
    BY <1>3 DEF RemoveServer
  <2> QED BY <1>1, <2>1 DEF Phase, Table!Drain, Table!Next
<1>4. CASE Drain
  <2>1. sigterm_flag = 2 /\ sigterm_flag' = 2 /\ pc' = IF Conns = {} THEN "exited" ELSE "poll"
    BY <1>4 DEF Drain
  <2> QED BY <1>1, <2>1 DEF Phase, Table!Exit, Table!Next, Table!vars
<1> QED BY <1>2, <1>3, <1>4

LEMMA TableStep == IInv /\ [Next]_vars => [Table!Next]_Table!vars
<1> SUFFICES ASSUME IInv, [Next]_vars PROVE [Table!Next]_Table!vars OBVIOUS
<1>1. CASE Sigterm \/ Interrupt \/ Poll \/ Handle \/ EndWalk
  <2>1. UNCHANGED <<ready, block>> /\ pc # "exited" /\ pc' # "exited"
        /\ ((sigterm_flag' = 2) <=> (sigterm_flag = 2))
    <3>1. CASE Sigterm
      BY <3>1 DEF Sigterm, queues
    <3>2. CASE Interrupt \/ Handle \/ EndWalk
      BY <3>2 DEF Interrupt, Handle, EndWalk, queues
    <3>3. CASE Poll
      <4>1. pc = "poll" /\ pc' = "update" /\ UNCHANGED <<queues, sigterm_flag>>
        BY <3>3 DEF Poll
      <4> QED BY <4>1 DEF queues
    <3> QED BY <1>1, <3>1, <3>2, <3>3
  <2> QED BY <2>1, TableStutter DEF Conns, Blocked
<1>2. CASE WatchServer \/ RemoveServer \/ Drain
  BY <1>2, TableTop
<1>3. CASE Accept
  BY <1>3, TableAccept
<1>4. ASSUME NEW T \in SUBSET Blocked, NEW junk \in Leftover, UpdateBlocked(T, junk)
      PROVE  [Table!Next]_Table!vars
  <2>1. pc = "update" /\ pc' = "first" /\ UNCHANGED sigterm_flag
    BY <1>4 DEF UpdateBlocked
  <2>2. Conns' = Conns
    BY <1>4, UpdateBlockedOK
  <2> QED BY <2>1, <2>2, TableStutter
<1>5. ASSUME NEW r \in Req, BlockRequest(r) \/ KeepReady(r) \/ FreeRequest(r)
      PROVE  [Table!Next]_Table!vars
  <2>1. pc = "settle" /\ pc' = "walk" /\ UNCHANGED sigterm_flag
    BY <1>5 DEF BlockRequest, KeepReady, FreeRequest, Settled
  <2>2. CASE Conns' = Conns
    BY <2>1, <2>2, TableStutter
  <2>3. CASE r \in Conns /\ Conns' = Conns \ {r}
    <3>1. Phase # "exited" /\ Phase' = Phase
      BY <2>1 DEF Phase
    <3> QED BY <2>3, <3>1 DEF Table!Close, Table!Next
  <2> QED BY <1>5, <2>2, <2>3, BlockRequestOK, SettleOK
<1>6. CASE UNCHANGED vars
  <2>1. UNCHANGED <<ready, block, pc, sigterm_flag>>
    BY <1>6 DEF vars, queues
  <2> QED BY <2>1 DEF Table!vars, Conns, Blocked, Phase
<1> QED BY <1>1, <1>2, <1>3, <1>4, <1>5, <1>6 DEF Next, Exited

\* Every behaviour of the poll loop is one of ConnectionTable.
THEOREM Implementation == Spec => ImplementsTable
<1>1. Init => Table!Init
  BY DEF Init, Table!Init, Conns, Blocked, ToSet, Phase
<1>2. Spec => Table!Spec
  BY <1>1, TableStep, Invariance, PTL DEF Spec, Table!Spec
<1> QED BY <1>2 DEF ImplementsTable
=============================================================================
