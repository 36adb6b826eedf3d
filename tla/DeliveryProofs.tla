-------------------------- MODULE DeliveryProofs --------------------------
(***************************************************************************)
(* Theorems about Delivery, for every list of ranges, every size of the    *)
(* buffer and every length of the headers: what the socket has taken, what *)
(* is buffered and what is left of the ranges make up the response.        *)
(***************************************************************************)
EXTENDS Delivery, WellFoundedInduction, FiniteSetTheorems, SequenceTheorems, TLAPS

\* Induction, over sets of naturals with the well-founded order of <.
LEMMA Least ==
  ASSUME NEW T \in SUBSET Nat, T # {}
  PROVE  \E n \in T : \A m \in T : n <= m
<1>1. PICK n \in T : \A m \in T : ~(<<m, n>> \in OpToRel(<, Nat))
  BY WFMin, NatLessThanWellFounded
<1>2. \A m \in T : ~(m < n)
  BY <1>1 DEF OpToRel
<1> QED BY <1>2

\* A set that has 0 and, with a number, the next one has them all.
LEMMA Induct ==
  ASSUME NEW T \in SUBSET Nat, 0 \in T, \A n \in T : n + 1 \in T
  PROVE  T = Nat
<1> SUFFICES ASSUME Nat \ T # {} PROVE FALSE OBVIOUS
<1>1. PICK n \in Nat \ T : \A m \in Nat \ T : n <= m
  BY Least
<1>2. n # 0 /\ n - 1 \in Nat /\ n - 1 \in T
  BY <1>1
<1> QED BY <1>2

-----------------------------------------------------------------------------
Byte == ({"header", "end", "file"} \X Nat) \cup ({"part"} \X Nat \X Nat)
ByteRange == [start : Nat, stop : Nat]

Live == status \in {"WRITE", "IOSHUFFLE"}
Pending(b, b0) == SubSeq(b, b0 + 1, Len(b))
End == Endings(asked, multi)

Typed ==
  /\ TypeOK
  /\ mapped \in BOOLEAN /\ multi \in BOOLEAN
  /\ asked \in RangeLists /\ (Len(asked) > 1 => multi)
  /\ buffer \in Seq(Byte) /\ wire \in Seq(Byte)

\* The list is an end of the one asked for, its first range begun.
ListOK ==
  /\ ranges \in Seq(ByteRange) /\ Len(ranges) <= Len(asked)
  /\ Live => /\ ranges # <<>> /\ ranges[1].start <= ranges[1].stop
             /\ \A i \in 2..Len(ranges) : ranges[i] = asked[Len(asked) - Len(ranges) + i]

\* What is known of the request at each place of process_requests: a handler
\* that is about to write directly finds the buffer empty, unless a short
\* flush went on to it.
PlaceOK ==
  /\ pc = "init" => /\ status = "WRITE" /\ ranges = asked /\ buffer = <<>>
                    /\ start = 0 /\ wire = <<>> /\ slips = {}
  /\ pc = "settle" /\ retval = 0 => ~Live
  /\ pc = "dispatch" /\ Live /\ "short" \notin slips => buffer = <<>>
  /\ status \notin {"DEAD", "TIMED_OUT"} => start <= Len(buffer)

\* Wire, buffer and ranges make up the response, in this order.
OrderOK ==
  pc # "init" /\ "short" \notin slips =>
    \E x \in Seq(Byte) :
      /\ wire \o (Pending(buffer, start) \o x) = Response(asked)
      /\ Live => x = FileBytes(ranges[1]) \o End[Len(ranges) - 1]
      /\ status = "DONE" /\ "overflow" \notin slips => x = <<>>

\* Their lengths add up to its length, whatever the order.
LengthOK ==
  pc # "init" =>
    /\ Live => Len(wire) + (Len(buffer) - start) + Len(FileBytes(ranges[1]))
                 + Len(End[Len(ranges) - 1]) = Len(Response(asked))
    /\ status = "DONE" /\ "overflow" \notin slips =>
         Len(wire) + (Len(buffer) - start) = Len(Response(asked))

IInv == Typed /\ ListOK /\ PlaceOK /\ OrderOK /\ LengthOK
-----------------------------------------------------------------------------
\* A sequence is as long as its domain.
LEMMA LenDomain ==
  ASSUME NEW S, NEW s \in Seq(S), NEW n \in Nat, DOMAIN s = 1..n
  PROVE  Len(s) = n
<1>1. Len(s) \in Nat /\ DOMAIN s = 1..Len(s)
  BY LenProperties
<1>2. Len(s) <= n
  BY <1>1
<1>3. n <= Len(s)
  BY <1>1
<1> QED BY <1>1, <1>2, <1>3
-----------------------------------------------------------------------------
LEMMA Constants ==
  /\ BufferSize \in Nat \ {0} /\ Spare \in Nat \ {0} /\ SystemBuf \in Nat \ {0}
  /\ HeaderLen \in Nat \ {0} /\ PartLen \in Nat \ {0}
  /\ HeaderLen + PartLen + Spare <= BufferSize
BY DeliveryAssumption

LEMMA Asked ==
  ASSUME NEW rs \in RangeLists
  PROVE  /\ rs \in Seq(ByteRange) /\ rs # <<>> /\ Len(rs) \in Nat \ {0}
         /\ \A i \in 1..Len(rs) : rs[i] \in ByteRange /\ rs[i].start <= rs[i].stop
<1>1. rs \in Seq(ByteRange) /\ rs # <<>> /\ \A i \in 1..Len(rs) : rs[i].start <= rs[i].stop
  BY DeliveryAssumption DEF ByteRange
<1>2. \A i \in 1..Len(rs) : rs[i] \in ByteRange
  BY <1>1, ElementOfSeq
<1>3. Len(rs) \in Nat /\ Len(rs) # 0
  BY <1>1, EmptySeq, LenProperties
<1> QED BY <1>1, <1>2, <1>3

LEMMA Texts ==
  /\ Span("header", HeaderLen) \in Seq(Byte) /\ Len(Span("header", HeaderLen)) = HeaderLen
  /\ Trailer \in Seq(Byte) /\ Len(Trailer) = PartLen
  /\ \A n \in Nat : PartHeader(n) \in Seq(Byte) /\ Len(PartHeader(n)) = PartLen
<1>1. ASSUME NEW t \in {"header", "end"}, NEW n \in Nat
      PROVE  Span(t, n) \in Seq(Byte) /\ Len(Span(t, n)) = n
  <2>1. \A i \in 1..n : <<t, i>> \in Byte
    BY DEF Byte
  <2>2. Span(t, n) \in Seq(Byte)
    BY <2>1, IsASeq DEF Span
  <2>3. DOMAIN Span(t, n) = 1..n
    BY DEF Span
  <2> QED BY <2>2, <2>3, LenProperties, LenDomain
<1>2. ASSUME NEW n \in Nat
      PROVE  PartHeader(n) \in Seq(Byte) /\ Len(PartHeader(n)) = PartLen
  <2>1. \A i \in 1..PartLen : <<"part", n, i>> \in Byte
    BY Constants DEF Byte
  <2>2. PartHeader(n) \in Seq(Byte)
    BY <2>1, IsASeq, Constants DEF PartHeader
  <2>3. DOMAIN PartHeader(n) = 1..PartLen
    BY DEF PartHeader
  <2> QED BY <2>2, <2>3, LenDomain, Constants
<1> QED BY <1>1, <1>2, Constants DEF Trailer

LEMMA FileText ==
  ASSUME NEW r \in ByteRange, r.start <= r.stop
  PROVE  FileBytes(r) \in Seq(Byte) /\ Len(FileBytes(r)) = r.stop - r.start + 1
<1>0. r.start \in Nat /\ r.stop \in Nat
  BY DEF ByteRange
<1>1. \A i \in 1..(r.stop - r.start + 1) : <<"file", r.start + i - 1>> \in Byte
  BY <1>0 DEF Byte
<1>2. r.stop - r.start + 1 \in Nat
  BY <1>0
<1>3. FileBytes(r) \in Seq(Byte)
  BY <1>1, <1>2, IsASeq DEF FileBytes
<1>4. DOMAIN FileBytes(r) = 1..(r.stop - r.start + 1)
  BY DEF FileBytes
<1> QED BY <1>2, <1>3, <1>4, LenDomain
-----------------------------------------------------------------------------
\* The part that begins the last n ranges of rs.
PartOf(rs, m, n) ==
  (IF m THEN PartHeader(n) ELSE <<>>) \o FileBytes(rs[Len(rs) - n + 1])

\* E is the function Endings defines, on 0..n.
EndLoop(rs, m, E, n) ==
  E = [k \in 0..n |-> IF k = 0 THEN IF m THEN Trailer ELSE <<>>
                      ELSE (IF m THEN PartHeader(k) ELSE <<>>)
                             \o FileBytes(rs[Len(rs) - k + 1]) \o E[k - 1]]

LEMMA EndExists ==
  ASSUME NEW rs, NEW m
  PROVE  \A n \in Nat : \E E : EndLoop(rs, m, E, n)
<1> DEFINE T == {n \in Nat : \E E : EndLoop(rs, m, E, n)}
           P(k) == (IF m THEN PartHeader(k) ELSE <<>>) \o FileBytes(rs[Len(rs) - k + 1])
           Z == IF m THEN Trailer ELSE <<>>
<1>1. 0 \in T
  <2>1. EndLoop(rs, m, [k \in 0..0 |-> Z], 0)
    BY DEF EndLoop
  <2> QED BY <2>1
<1>2. ASSUME NEW n \in T PROVE n + 1 \in T
  <2>1. PICK E : EndLoop(rs, m, E, n)
    OBVIOUS
  <2>2. n \in Nat
    OBVIOUS
  <2>3. E = [k \in 0..n |-> IF k = 0 THEN Z ELSE P(k) \o E[k - 1]]
    BY <2>1, Zenon DEF EndLoop
  <2> HIDE DEF P, Z
  <2> DEFINE G == [k \in 0..(n + 1) |-> IF k <= n THEN E[k] ELSE P(k) \o E[k - 1]]
             H == [k \in 0..(n + 1) |-> IF k = 0 THEN Z ELSE P(k) \o G[k - 1]]
  <2>4. \A k \in 0..n : G[k] = E[k]
    BY <2>2
  <2>5. \A k \in 0..n : E[k] = IF k = 0 THEN Z ELSE P(k) \o E[k - 1]
    BY <2>3, Zenon
  <2>6. G[n + 1] = P(n + 1) \o G[n]
    <3>1. (n + 1) - 1 = n /\ ~(n + 1 <= n) /\ n + 1 \in 0..(n + 1) /\ n \in 0..n
      BY <2>2
    <3>2. G[n + 1] = P(n + 1) \o E[(n + 1) - 1]
      BY <3>1, Zenon
    <3> QED BY <2>4, <3>1, <3>2, Zenon
  <2> HIDE DEF G
  <2>7. \A k \in 0..(n + 1) : G[k] = H[k]
    <3> TAKE k \in 0..(n + 1)
    <3>1. CASE k = 0
      BY <2>2, <2>4, <2>5, <3>1
    <3>2. CASE k \in 1..n
      <4>1. k - 1 \in 0..n /\ k \in 0..n /\ k # 0
        BY <2>2, <3>2
      <4>2. G[k] = E[k] /\ G[k - 1] = E[k - 1]
        BY <2>4, <4>1
      <4> QED BY <2>5, <4>1, <4>2
    <3>3. CASE k = n + 1
      <4>1. k - 1 = n /\ k # 0 /\ k \in 0..(n + 1)
        BY <2>2, <3>3
      <4>2. H[k] = P(k) \o G[k - 1]
        BY <4>1, Zenon
      <4> QED BY <2>6, <3>3, <4>1, <4>2, Zenon
    <3> QED BY <2>2, <3>1, <3>2, <3>3
  <2>8. G = H
    BY <2>7 DEF G
  <2>9. EndLoop(rs, m, G, n + 1)
    BY <2>8, Zenon DEF EndLoop, H, P, Z
  <2> QED BY <2>2, <2>9
<1> HIDE DEF T
<1>3. T = Nat
  BY <1>1, <1>2, Induct DEF T
<1> QED BY <1>3 DEF T

\* The end of a response from the last n ranges on, in terms of the next one.
LEMMA EndUnfolds ==
  ASSUME NEW rs \in RangeLists, NEW m \in BOOLEAN
  PROVE  /\ Endings(rs, m)[0] = IF m THEN Trailer ELSE <<>>
         /\ \A n \in 1..Len(rs) :
              Endings(rs, m)[n] = PartOf(rs, m, n) \o Endings(rs, m)[n - 1]
<1> DEFINE N == Len(rs)
<1>1. N \in Nat
  BY Asked
<1>2. EndLoop(rs, m, CHOOSE E : EndLoop(rs, m, E, N), N)
  BY <1>1, EndExists, Zenon
<1>3. Endings(rs, m) = CHOOSE E : EndLoop(rs, m, E, N)
  BY Zenon DEF Endings, EndLoop
<1> DEFINE E == Endings(rs, m)
<1>4. EndLoop(rs, m, E, N)
  BY <1>2, <1>3, Zenon
<1> HIDE DEF E, N
<1>5. \A k \in 0..N : E[k] = IF k = 0 THEN IF m THEN Trailer ELSE <<>>
                             ELSE PartOf(rs, m, k) \o E[k - 1]
  BY <1>4, Zenon DEF EndLoop, PartOf
<1>6. E[0] = IF m THEN Trailer ELSE <<>>
  BY <1>1, <1>5
<1>7. ASSUME NEW n \in 1..N PROVE E[n] = PartOf(rs, m, n) \o E[n - 1]
  <2>1. n \in 0..N /\ n # 0
    BY <1>1
  <2> QED BY <1>5, <2>1, Zenon
<1> QED BY <1>6, <1>7 DEF E, N

LEMMA EndType ==
  ASSUME NEW rs \in RangeLists, NEW m \in BOOLEAN
  PROVE  \A n \in 0..Len(rs) : Endings(rs, m)[n] \in Seq(Byte)
<1> DEFINE T == {n \in Nat : n \in 0..Len(rs) => Endings(rs, m)[n] \in Seq(Byte)}
<1>1. 0 \in T
  BY EndUnfolds, Texts, EmptySeq
<1>2. ASSUME NEW n \in T PROVE n + 1 \in T
  <2>1. SUFFICES ASSUME n + 1 \in 0..Len(rs) PROVE Endings(rs, m)[n + 1] \in Seq(Byte)
    OBVIOUS
  <2>2. Len(rs) \in Nat /\ n \in Nat
    BY Asked
  <2>3. n + 1 \in 1..Len(rs) /\ n \in 0..Len(rs) /\ Len(rs) - (n + 1) + 1 \in 1..Len(rs)
    BY <2>1, <2>2
  <2>4. FileBytes(rs[Len(rs) - (n + 1) + 1]) \in Seq(Byte)
    BY <2>3, Asked, FileText
  <2>5. (IF m THEN PartHeader(n + 1) ELSE <<>>) \in Seq(Byte)
    BY <2>2, Texts, EmptySeq
  <2>6. PartOf(rs, m, n + 1) \in Seq(Byte)
    BY <2>4, <2>5, ConcatProperties DEF PartOf
  <2>7. Endings(rs, m)[n] \in Seq(Byte)
    BY <2>3
  <2>8. Endings(rs, m)[n + 1] = PartOf(rs, m, n + 1) \o Endings(rs, m)[n]
    <3>1. (n + 1) - 1 = n
      BY <2>2
    <3> QED BY <2>3, <3>1, EndUnfolds, Zenon
  <2> QED BY <2>6, <2>7, <2>8, ConcatProperties
<1> HIDE DEF T
<1>3. T = Nat
  BY <1>1, <1>2, Induct DEF T
<1> QED BY <1>3, Asked DEF T
-----------------------------------------------------------------------------
LEMMA PendingType ==
  ASSUME NEW b \in Seq(Byte), NEW b0 \in Nat
  PROVE  /\ Pending(b, b0) \in Seq(Byte)
         /\ b0 <= Len(b) => Len(Pending(b, b0)) = Len(b) - b0
<1>1. Len(b) \in Nat
  BY LenProperties
<1>2. \A i \in (b0 + 1)..Len(b) : b[i] \in Byte
  BY <1>1, ElementOfSeq
<1>3. /\ SubSeq(b, b0 + 1, Len(b)) \in Seq(Byte)
      /\ Len(SubSeq(b, b0 + 1, Len(b)))
           = IF b0 + 1 <= Len(b) THEN Len(b) - (b0 + 1) + 1 ELSE 0
  BY <1>1, <1>2, SubSeqProperties
<1> QED BY <1>1, <1>3 DEF Pending

LEMMA NothingPending ==
  ASSUME NEW b0 \in Nat
  PROVE  Pending(<<>>, b0) = <<>>
<1>1. Len(<<>>) = 0
  BY EmptySeq
<1> QED BY <1>1, SubSeqEmpty DEF Pending

\* What follows on what is pending.
LEMMA PendingConcat ==
  ASSUME NEW b \in Seq(Byte), NEW t \in Seq(Byte), NEW b0 \in 0..Len(b)
  PROVE  Pending(b \o t, b0) = Pending(b, b0) \o t
<1> DEFINE c == b \o t
<1>1. Len(b) \in Nat /\ Len(t) \in Nat /\ b0 \in Nat
  BY LenProperties
<1>2. /\ c \in Seq(Byte) /\ Len(c) = Len(b) + Len(t)
      /\ \A i \in 1..(Len(b) + Len(t)) :
           c[i] = IF i <= Len(b) THEN b[i] ELSE t[i - Len(b)]
  BY ConcatProperties
<1> HIDE DEF c
<1>3. /\ Pending(c, b0) \in Seq(Byte) /\ Len(Pending(c, b0)) = Len(b) + Len(t) - b0
      /\ Pending(b, b0) \in Seq(Byte) /\ Len(Pending(b, b0)) = Len(b) - b0
  <2>1. c \in Seq(Byte) /\ Len(c) = Len(b) + Len(t) /\ b0 <= Len(b)
    BY <1>1, <1>2
  <2>2. b0 <= Len(c)
    BY <1>1, <2>1
  <2>3. Pending(c, b0) \in Seq(Byte) /\ Len(Pending(c, b0)) = Len(c) - b0
    BY <1>1, <2>1, <2>2, PendingType
  <2>4. Pending(b, b0) \in Seq(Byte) /\ Len(Pending(b, b0)) = Len(b) - b0
    BY <1>1, <2>1, PendingType
  <2> QED BY <2>1, <2>3, <2>4
<1>4. /\ Pending(b, b0) \o t \in Seq(Byte)
      /\ Len(Pending(b, b0) \o t) = Len(b) - b0 + Len(t)
      /\ \A i \in 1..(Len(b) - b0 + Len(t)) : (Pending(b, b0) \o t)[i] =
           IF i <= Len(b) - b0 THEN Pending(b, b0)[i] ELSE t[i - (Len(b) - b0)]
  <2> DEFINE p == Pending(b, b0)
  <2>1. /\ p \o t \in Seq(Byte) /\ Len(p \o t) = Len(p) + Len(t)
        /\ \A i \in 1..(Len(p) + Len(t)) : (p \o t)[i] = IF i <= Len(p) THEN p[i] ELSE t[i - Len(p)]
    BY <1>3, ConcatProperties, Zenon
  <2>2. Len(p) = Len(b) - b0
    BY <1>3
  <2> QED BY <2>1, <2>2, Zenon
<1>5. ASSUME NEW d \in Seq(Byte), b0 <= Len(d), NEW i \in 1..(Len(d) - b0)
      PROVE  Pending(d, b0)[i] = d[b0 + i]
  <2>1. Len(d) \in Nat
    BY LenProperties
  <2>2. \A j \in (b0 + 1)..Len(d) : d[j] \in Byte
    BY <1>1, <2>1, ElementOfSeq
  <2>3. \A j \in 1..(Len(d) - (b0 + 1) + 1) :
          SubSeq(d, b0 + 1, Len(d))[j] = d[(b0 + 1) + j - 1]
    BY <1>1, <2>1, <2>2, SubSeqProperties
  <2>4. i \in 1..(Len(d) - (b0 + 1) + 1) /\ (b0 + 1) + i - 1 = b0 + i
    BY <1>1, <2>1
  <2> QED BY <2>3, <2>4 DEF Pending
<1>6. ASSUME NEW i \in 1..(Len(b) + Len(t) - b0)
      PROVE  Pending(c, b0)[i] = (Pending(b, b0) \o t)[i]
  <2>1. Pending(c, b0)[i] = c[b0 + i]
    <3>1. c \in Seq(Byte) /\ b0 <= Len(c) /\ i \in 1..(Len(c) - b0)
      BY <1>1, <1>2
    <3> QED BY <1>5, <3>1
  <2>2. c[b0 + i] = IF b0 + i <= Len(b) THEN b[b0 + i] ELSE t[b0 + i - Len(b)]
    BY <1>1, <1>2
  <2>3. (Pending(b, b0) \o t)[i] =
           IF i <= Len(b) - b0 THEN Pending(b, b0)[i] ELSE t[i - (Len(b) - b0)]
    BY <1>1, <1>4
  <2>4. CASE i <= Len(b) - b0
    <3>1. Pending(b, b0)[i] = b[b0 + i]
      BY <1>1, <1>5, <2>4
    <3>2. b0 + i <= Len(b)
      BY <1>1, <2>4
    <3> QED BY <2>1, <2>2, <2>3, <2>4, <3>1, <3>2
  <2>5. CASE ~(i <= Len(b) - b0)
    <3>1. ~(b0 + i <= Len(b)) /\ b0 + i - Len(b) = i - (Len(b) - b0)
      BY <1>1, <2>5
    <3> QED BY <2>1, <2>2, <2>3, <2>5, <3>1
  <2> QED BY <2>4, <2>5
<1>7. Len(Pending(c, b0)) = Len(Pending(b, b0) \o t)
  BY <1>1, <1>3, <1>4
<1>8. \A i \in 1..Len(Pending(c, b0)) : Pending(c, b0)[i] = (Pending(b, b0) \o t)[i]
  BY <1>3, <1>6
<1>9. c = b \o t
  BY DEF c
<1> QED BY <1>3, <1>4, <1>7, <1>8, <1>9, SeqEqual

\* A flush sends the beginning of what is pending and keeps the rest, except
\* that an error drops it.
LEMMA Flushed ==
  ASSUME NEW b \in Seq(Byte), NEW b0 \in 0..Len(b), NEW f \in ReqFlush(b, b0)
  PROVE  /\ f.sent \in Seq(Byte) /\ f.buffer \in Seq(Byte)
         /\ f.start \in 0..Len(f.buffer) /\ Len(f.buffer) <= Len(b)
         /\ f.ret \in Int
         /\ f.ret = 0 \/ f.ret = -2 => f.buffer = <<>>
         /\ f.ret = -2 => f.sent = <<>>
         /\ f.ret # -2 => /\ f.sent \o Pending(f.buffer, f.start) = Pending(b, b0)
                          /\ Len(f.sent) + (Len(f.buffer) - f.start) = Len(b) - b0
<1> DEFINE left == Len(b) - b0
           Sent(n) == [ret |-> IF n = left THEN 0 ELSE Len(b),
                       buffer |-> IF n = left THEN <<>> ELSE b,
                       start |-> IF n = left THEN 0 ELSE b0 + n,
                       sent |-> SubSeq(b, b0 + 1, b0 + n)]
<1>1. Len(b) \in Nat /\ b0 \in Nat /\ left \in Nat
  BY LenProperties
<1>2. <<>> \in Seq(Byte) /\ Len(<<>>) = 0
  BY EmptySeq
<1>3. ASSUME NEW n \in 0..left, n = left \/ (n < left /\ n > 0), f = Sent(n)
      PROVE  /\ f.sent \in Seq(Byte) /\ f.buffer \in Seq(Byte)
             /\ f.start \in 0..Len(f.buffer) /\ Len(f.buffer) <= Len(b)
             /\ f.ret \in Nat /\ (f.ret = 0 => f.buffer = <<>>)
             /\ f.sent \o Pending(f.buffer, f.start) = Pending(b, b0)
             /\ Len(f.sent) + (Len(f.buffer) - f.start) = Len(b) - b0
  <2>0. n \in Nat
    BY <1>1
  <2>1. \A i \in (b0 + 1)..(b0 + n) : b[i] \in Byte
    BY <1>1, <2>0, ElementOfSeq
  <2>2. /\ SubSeq(b, b0 + 1, b0 + n) \in Seq(Byte)
        /\ Len(SubSeq(b, b0 + 1, b0 + n))
             = IF b0 + 1 <= b0 + n THEN b0 + n - (b0 + 1) + 1 ELSE 0
    BY <1>1, <2>0, <2>1, SubSeqProperties, SMTT(30)
  <2>3. f.sent \in Seq(Byte) /\ Len(f.sent) = n
    BY <1>1, <1>3, <2>0, <2>2
  <2>4. SubSeq(b, b0 + 1, b0 + n) \o SubSeq(b, (b0 + n) + 1, Len(b)) = SubSeq(b, b0 + 1, Len(b))
    <3>1. /\ b0 + 1 \in 1..(Len(b) + 1) /\ b0 + n \in ((b0 + 1) - 1)..Len(b)
          /\ Len(b) \in (b0 + n)..Len(b)
      BY <1>1, <2>0
    <3> QED BY <3>1, ConcatAdjacentSubSeq, Zenon
  <2>5. CASE n = left
    <3>1. f.buffer = <<>> /\ f.start = 0 /\ f.ret = 0
      BY <1>3, <2>5
    <3>2. Pending(f.buffer, f.start) = <<>>
      BY <3>1, NothingPending
    <3>3. f.sent = Pending(b, b0)
      <4>1. b0 + n = Len(b)
        BY <1>1, <2>5
      <4>2. f.sent = SubSeq(b, b0 + 1, b0 + n)
        BY <1>3
      <4> QED BY <4>1, <4>2 DEF Pending
    <3>4. f.sent \o <<>> = f.sent
      BY <2>3, ConcatEmptySeq
    <3> QED BY <1>1, <1>2, <2>3, <2>5, <3>1, <3>2, <3>3, <3>4
  <2>6. CASE n # left
    <3>1. f.buffer = b /\ f.start = b0 + n /\ f.ret = Len(b) /\ f.sent = SubSeq(b, b0 + 1, b0 + n)
      BY <1>3, <2>6
    <3>2. f.sent \o Pending(f.buffer, f.start) = Pending(b, b0)
      BY <2>4, <3>1 DEF Pending
    <3>3. Len(b) # 0 /\ b0 + n \in 0..Len(b)
      BY <1>1, <1>3, <2>0, <2>6
    <3>4. Len(f.sent) + (Len(f.buffer) - f.start) = Len(b) - b0
      BY <1>1, <2>0, <2>3, <3>1
    <3> QED BY <1>1, <2>3, <3>1, <3>2, <3>3, <3>4
  <2> QED BY <2>5, <2>6
<1>4. CASE \E n \in 0..left : (n = left \/ (n < left /\ n > 0)) /\ f = Sent(n)
  <2> HIDE DEF Sent, left
  <2>1. PICK n \in 0..left : (n = left \/ (n < left /\ n > 0)) /\ f = Sent(n)
    BY <1>4
  <2>2. /\ f.sent \in Seq(Byte) /\ f.buffer \in Seq(Byte)
        /\ f.start \in 0..Len(f.buffer) /\ Len(f.buffer) <= Len(b)
        /\ f.ret \in Nat /\ (f.ret = 0 => f.buffer = <<>>)
        /\ f.sent \o Pending(f.buffer, f.start) = Pending(b, b0)
        /\ Len(f.sent) + (Len(f.buffer) - f.start) = Len(b) - b0
    BY <1>3, <2>1
  <2>3. f.ret # -2 /\ f.ret \in Int
    BY <2>2
  <2> QED BY <2>2, <2>3
<1>5. CASE f = [ret |-> -1, buffer |-> b, start |-> b0, sent |-> <<>>]
  <2>1. Pending(b, b0) \in Seq(Byte)
    BY <1>1, PendingType
  <2>2. <<>> \o Pending(b, b0) = Pending(b, b0)
    BY <2>1, ConcatEmptySeq
  <2>3. f.ret = -1 /\ f.buffer = b /\ f.start = b0 /\ f.sent = <<>>
    BY <1>5
  <2> QED BY <1>1, <1>2, <2>2, <2>3
<1>6. CASE f = [ret |-> -2, buffer |-> <<>>, start |-> 0, sent |-> <<>>]
  BY <1>1, <1>2, <1>6
<1>7. \/ \E n \in 0..left : (n = left \/ (n < left /\ n > 0)) /\ f = Sent(n)
      \/ f = [ret |-> -1, buffer |-> b, start |-> b0, sent |-> <<>>]
      \/ f = [ret |-> -2, buffer |-> <<>>, start |-> 0, sent |-> <<>>]
  <2>1. f \in IF left = 0 THEN {Sent(0)}
              ELSE {Sent(n) : n \in 1..left}
                     \cup {[ret |-> -1, buffer |-> b, start |-> b0, sent |-> <<>>],
                           [ret |-> -2, buffer |-> <<>>, start |-> 0, sent |-> <<>>]}
    BY Zenon DEF ReqFlush
  <2> HIDE DEF Sent, left
  <2>2. CASE left = 0
    BY <2>1, <2>2
  <2>3. CASE left # 0
    BY <1>1, <2>1, <2>3
  <2> QED BY <2>2, <2>3
<1> QED BY <1>4, <1>5, <1>6, <1>7
-----------------------------------------------------------------------------
\* The first n bytes of a range, and what Advance leaves of it.
LEMMA Chunk ==
  ASSUME NEW r \in ByteRange, r.start <= r.stop,
         NEW n \in 0..(r.stop - r.start + 1)
  PROVE  /\ SubSeq(FileBytes(r), 1, n) \in Seq(Byte)
         /\ Len(SubSeq(FileBytes(r), 1, n)) = n
         /\ n = r.stop - r.start + 1 => SubSeq(FileBytes(r), 1, n) = FileBytes(r)
         /\ n # r.stop - r.start + 1 =>
              /\ Advance(r, n) \in ByteRange /\ Advance(r, n).start <= Advance(r, n).stop
              /\ SubSeq(FileBytes(r), 1, n) \o FileBytes(Advance(r, n)) = FileBytes(r)
              /\ n + Len(FileBytes(Advance(r, n))) = Len(FileBytes(r))
<1> DEFINE w == FileBytes(r)
           a == Advance(r, n)
           c == SubSeq(w, 1, n)
<1>1. r.start \in Nat /\ r.stop \in Nat /\ n \in Nat
  BY DEF ByteRange
<1>2. w \in Seq(Byte) /\ Len(w) = r.stop - r.start + 1
  BY FileText
<1>3. \A i \in 1..n : w[i] \in Byte
  <2>1. \A i \in 1..n : i \in 1..Len(w)
    BY <1>1, <1>2
  <2> QED BY <1>2, <2>1, ElementOfSeq
<1>4. /\ c \in Seq(Byte) /\ Len(c) = n
      /\ \A i \in 1..n : c[i] = w[i]
  <2> HIDE DEF w
  <2>1. /\ c \in Seq(Byte) /\ Len(c) = IF 1 <= n THEN n - 1 + 1 ELSE 0
        /\ \A i \in 1..(n - 1 + 1) : c[i] = w[1 + i - 1]
    BY <1>1, <1>3, SubSeqProperties
  <2> QED BY <1>1, <2>1
<1>5. ASSUME n = r.stop - r.start + 1 PROVE c = w
  BY <1>2, <1>5, SubSeqFull
<1>6. ASSUME n # r.stop - r.start + 1
      PROVE  a \in ByteRange /\ a.start <= a.stop /\ c \o FileBytes(a) = w
             /\ n + Len(FileBytes(a)) = Len(w)
  <2>1. a = [r EXCEPT !.start = r.start + n]
    BY DEF Advance
  <2>2. a \in ByteRange /\ a.start = r.start + n /\ a.stop = r.stop
    BY <1>1, <2>1 DEF ByteRange
  <2>3. a.start <= a.stop
    BY <1>1, <1>6, <2>2
  <2> DEFINE v == FileBytes(a)
  <2>4. v \in Seq(Byte) /\ Len(v) = r.stop - (r.start + n) + 1
    BY <2>2, <2>3, FileText
  <2>5. /\ c \o v \in Seq(Byte) /\ Len(c \o v) = n + Len(v)
        /\ \A i \in 1..(n + Len(v)) : (c \o v)[i] = IF i <= n THEN c[i] ELSE v[i - n]
    <3> HIDE DEF c, v
    <3> QED BY <1>4, <2>4, ConcatProperties
  <2>6. Len(c \o v) = Len(w)
    BY <1>1, <1>2, <2>4, <2>5
  <2>7. ASSUME NEW i \in 1..Len(w) PROVE (c \o v)[i] = w[i]
    <3>1. CASE i <= n
      BY <1>1, <1>2, <1>4, <2>5, <2>6, <3>1
    <3>2. CASE i > n
      <4>1. i - n \in 1..(r.stop - (r.start + n) + 1) /\ i \in Int
        BY <1>1, <1>2, <3>2
      <4>2. v[i - n] = <<"file", (r.start + n) + (i - n) - 1>>
        BY <2>2, <4>1 DEF FileBytes
      <4>3. w[i] = <<"file", r.start + i - 1>>
        BY <1>2 DEF FileBytes
      <4>4. (r.start + n) + (i - n) - 1 = r.start + i - 1
        BY <1>1, <4>1
      <4>5. v[i - n] = w[i]
        BY <4>2, <4>3, <4>4
      <4>6. (c \o v)[i] = v[i - n]
        <5> HIDE DEF c, v, w
        <5> QED BY <1>1, <2>5, <2>6, <3>2
      <4> QED BY <4>5, <4>6
    <3>3. i <= n \/ i > n
      BY <1>1, <1>2
    <3> QED BY <3>1, <3>2, <3>3, Zenon
  <2>8. c \o v = w
    <3> DEFINE s == c \o v
    <3>1. s \in Seq(Byte) /\ Len(s) = Len(w) /\ \A i \in 1..Len(s) : s[i] = w[i]
      BY <2>5, <2>6, <2>7
    <3> HIDE DEF s, w
    <3>2. s = w
      BY <1>2, <3>1, SeqEqual
    <3> QED BY <3>2 DEF s
  <2> QED BY <2>2, <2>3, <2>5, <2>6, <2>8
<1> QED BY <1>4, <1>5, <1>6

LEMMA Assoc ==
  \A a, b, c \in Seq(Byte) : (a \o b) \o c = a \o (b \o c)
<1> SUFFICES ASSUME NEW S, NEW a \in Seq(S), NEW b \in Seq(S), NEW c \in Seq(S)
             PROVE  (a \o b) \o c = a \o (b \o c)
  OBVIOUS
<1> QED BY SMT

LEMMA Cat ==
  \A a, b \in Seq(Byte) : a \o b \in Seq(Byte) /\ Len(a \o b) = Len(a) + Len(b)
BY ConcatProperties

LEMMA Length == \A a \in Seq(Byte) : Len(a) \in Nat
BY LenProperties

LEMMA MoveSent ==
  \A s1, s2, s3, s4 \in Seq(Byte) : (s1 \o s2) \o (s3 \o s4) = s1 \o ((s2 \o s3) \o s4)
<1> TAKE s1, s2, s3, s4 \in Seq(Byte)
<1>1. s3 \o s4 \in Seq(Byte)
  BY Cat
<1>2. (s2 \o s3) \o s4 = s2 \o (s3 \o s4)
  BY Assoc, Zenon
<1>3. ASSUME NEW y \in Seq(Byte)
      PROVE  (s1 \o s2) \o y = s1 \o (s2 \o y)
  BY Assoc, SMTT(30)
<1>4. (s1 \o s2) \o (s3 \o s4) = s1 \o (s2 \o (s3 \o s4))
  BY <1>1, <1>3, Zenon
<1> QED BY <1>2, <1>4, Zenon
LEMMA FlushLength ==
  ASSUME NEW w \in Seq(Byte), NEW b \in Seq(Byte), NEW b0 \in 0..Len(b),
         NEW f \in ReqFlush(b, b0), f.ret # -2
  PROVE  Len(w \o f.sent) + (Len(f.buffer) - f.start) = Len(w) + (Len(b) - b0)
<1> DEFINE z == f.sent
           lz == Len(z)
           lw == Len(w)
           lf == Len(f.buffer)
<1>1. /\ z \in Seq(Byte) /\ f.buffer \in Seq(Byte) /\ f.start \in 0..Len(f.buffer)
      /\ lz + (lf - f.start) = Len(b) - b0
  BY Flushed
<1>2. {lz, lw, lf, f.start} \subseteq Nat
  BY <1>1, Length
<1> HIDE DEF z
<1>3. Len(w \o z) = lw + lz
  BY <1>1, Cat
<1> HIDE DEF lz, lw, lf
<1>4. (lw + lz) + (lf - f.start) = lw + (lz + (lf - f.start))
  BY <1>2
<1> QED BY <1>1, <1>3, <1>4, Zenon DEF z, lz, lw, lf

\* A flush between the wire w and the rest x of the response: the three still
\* make up the same, x longer by what an error drops.
LEMMA FlushMatches ==
  ASSUME NEW w \in Seq(Byte), NEW b \in Seq(Byte), NEW b0 \in 0..Len(b),
         NEW f \in ReqFlush(b, b0), NEW x \in Seq(Byte)
  PROVE  /\ w \o f.sent \in Seq(Byte)
         /\ \E y \in Seq(Byte) :
              /\ (w \o f.sent) \o (Pending(f.buffer, f.start) \o y) = w \o (Pending(b, b0) \o x)
              /\ f.ret # -2 => y = x
<1> DEFINE p == Pending(b, b0)
           q == Pending(f.buffer, f.start)
           z == f.sent
<1>1. /\ z \in Seq(Byte) /\ f.buffer \in Seq(Byte) /\ f.start \in 0..Len(f.buffer)
      /\ f.ret = -2 => f.buffer = <<>> /\ z = <<>>
      /\ f.ret # -2 => z \o q = p /\ Len(z) + (Len(f.buffer) - f.start) = Len(b) - b0
  BY Flushed
<1>2. Len(f.buffer) \in Nat /\ f.start \in Nat /\ Len(b) \in Nat /\ b0 \in Nat
  BY <1>1, Length
<1>3. p \in Seq(Byte) /\ q \in Seq(Byte)
  BY <1>1, <1>2, PendingType
<1> HIDE DEF p, z
<1>4. w \o z \in Seq(Byte) /\ Len(w \o z) = Len(w) + Len(z) /\ Len(w) \in Nat /\ Len(z) \in Nat
  BY <1>1, Cat, Length
<1>5. CASE f.ret = -2
  <2> DEFINE y == p \o x
  <2>1. y \in Seq(Byte)
    BY <1>3, Cat
  <2> HIDE DEF y
  <2>2. q = <<>> /\ z = <<>>
    BY <1>1, <1>2, <1>5, NothingPending
  <2>3. <<>> \o y = y /\ w \o <<>> = w
    BY <2>1, ConcatEmptySeq
  <2>4. (w \o z) \o (q \o y) = w \o (p \o x)
    BY <2>2, <2>3, Zenon DEF y
  <2> QED BY <1>4, <1>5, <2>1, <2>4, Zenon DEF p, z
<1>6. CASE f.ret # -2
  <2> HIDE DEF q
  <2>1. \A s2, s3, s4 \in Seq(Byte) : (w \o s2) \o (s3 \o s4) = w \o ((s2 \o s3) \o s4)
    BY MoveSent
  <2>2. \A s3, s4 \in Seq(Byte) : (w \o z) \o (s3 \o s4) = w \o ((z \o s3) \o s4)
    BY <1>1, <2>1
  <2>3. (w \o z) \o (q \o x) = w \o ((z \o q) \o x)
    BY <1>3, <2>2
  <2>4. (w \o z) \o (q \o x) = w \o (p \o x)
    BY <1>1, <1>6, <2>3, Zenon
  <2> QED BY <1>4, <1>6, <2>4, Zenon DEF p, q, z
<1> QED BY <1>5, <1>6
-----------------------------------------------------------------------------
\* The response, and the ends of it, in the typed state.
LEMMA Whole ==
  ASSUME Typed
  PROVE  /\ asked \in Seq(ByteRange) /\ Len(asked) \in Nat \ {0}
         /\ \A i \in 1..Len(asked) : asked[i] \in ByteRange /\ asked[i].start <= asked[i].stop
         /\ \A n \in 0..Len(asked) : End[n] \in Seq(Byte)
         /\ End[0] = IF multi THEN Trailer ELSE <<>>
         /\ \A n \in 1..Len(asked) : End[n] = PartOf(asked, multi, n) \o End[n - 1]
         /\ Response(asked) = Span("header", HeaderLen) \o End[Len(asked)]
         /\ Response(asked) \in Seq(Byte)
<1>1. asked \in RangeLists /\ multi \in BOOLEAN
  BY DEF Typed
<1>2. /\ asked \in Seq(ByteRange) /\ Len(asked) \in Nat \ {0}
      /\ \A i \in 1..Len(asked) : asked[i] \in ByteRange /\ asked[i].start <= asked[i].stop
  BY <1>1, Asked
<1>3. \A n \in 0..Len(asked) : End[n] \in Seq(Byte)
  BY <1>1, EndType DEF End
<1>4. /\ End[0] = IF multi THEN Trailer ELSE <<>>
      /\ \A n \in 1..Len(asked) : End[n] = PartOf(asked, multi, n) \o End[n - 1]
  BY <1>1, EndUnfolds, Zenon DEF End
<1>5. Response(asked) = Span("header", HeaderLen) \o End[Len(asked)]
  BY DEF Response, End
<1>6. End[Len(asked)] \in Seq(Byte)
  BY <1>2, <1>3
<1>7. Response(asked) \in Seq(Byte)
  BY <1>5, <1>6, Texts, ConcatProperties
<1> QED BY <1>2, <1>3, <1>4, <1>5, <1>7

\* What does not change keeps the response.
LEMMA SameResponse ==
  ASSUME asked' = asked, multi' = multi
  PROVE  Response(asked)' = Response(asked) /\ End' = End
BY DEF Response, End

\* complete_response is called for the list behind a range whose last byte has
\* just been buffered in b, or taken by the socket.
Finishing(rest, b, taken) ==
  /\ Typed /\ Live
  /\ rest \in Seq(ByteRange) /\ Len(rest) < Len(asked)
  /\ \A i \in 1..Len(rest) : rest[i] = asked[Len(asked) - Len(rest) + i]
  /\ b \in Seq(Byte) /\ Len(b) <= BufferSize /\ start <= Len(b)
  /\ taken \in Seq(Byte)
  /\ "short" \notin slips =>
       (wire \o taken) \o (Pending(b, start) \o End[Len(rest)]) = Response(asked)
  /\ Len(wire) + Len(taken) + (Len(b) - start) + Len(End[Len(rest)]) = Len(Response(asked))
  /\ CompleteResponse(rest, b, taken)
  /\ pc' = "settle" /\ mapped' = mapped /\ asked' = asked /\ multi' = multi

LEMMA Completes ==
  ASSUME NEW rest, NEW b, NEW taken, Finishing(rest, b, taken)
  PROVE  IInv'
<1> DEFINE text == IF rest # <<>> THEN PartHeader(Len(rest)) ELSE Trailer
           full == multi /\ ~Fits(b, text)
           E == End[Len(rest)]
           w == wire \o taken
           p == Pending(b, start)
           R == Response(asked)
<1>0. /\ Typed /\ Live
      /\ rest \in Seq(ByteRange) /\ Len(rest) < Len(asked)
      /\ b \in Seq(Byte) /\ Len(b) <= BufferSize /\ start <= Len(b)
      /\ taken \in Seq(Byte) /\ wire \in Seq(Byte)
      /\ pc' = "settle" /\ mapped' = mapped /\ asked' = asked /\ multi' = multi
  BY DEF Finishing, Typed
<1>1. Len(rest) \in Nat /\ Len(rest) \in 0..Len(asked) /\ Len(asked) \in Nat
      /\ Len(b) \in Nat /\ Len(wire) \in Nat /\ Len(taken) \in Nat
      /\ start \in 0..Len(b) /\ start \in 0..BufferSize /\ start \in Nat
  BY <1>0, Whole, Constants, LenProperties DEF Typed, TypeOK
<1>2. text \in Seq(Byte) /\ Len(text) = PartLen /\ PartLen \in Nat
  BY <1>1, Texts, Constants
<1>3. E \in Seq(Byte) /\ R \in Seq(Byte) /\ Len(E) \in Nat /\ Len(R) \in Nat
  BY <1>0, <1>1, Whole, Length
<1>4. w \in Seq(Byte) /\ Len(w) = Len(wire) + Len(taken)
  BY <1>0, Cat, Zenon
<1>5. p \in Seq(Byte) /\ Len(p) = Len(b) - start
  BY <1>0, <1>1, PendingType
<1>6. ~multi => rest = <<>>
  <2>1. ~multi => ~(Len(asked) > 1)
    BY <1>0 DEF Typed
  <2>2. ~multi => Len(rest) = 0
    BY <1>0, <1>1, <2>1
  <2> QED BY <1>0, <2>2, EmptySeq
<1>7. Response(asked)' = R /\ End' = End
  BY <1>0, SameResponse
<1>8. "short" \notin slips => w \o (p \o E) = R
  BY DEF Finishing
<1>9. Len(w) + Len(p) + Len(E) = Len(R)
  BY <1>4, <1>5 DEF Finishing
<1>10. /\ ranges' = rest
       /\ slips' = IF full THEN slips \cup {"overflow"} ELSE slips
  BY DEF CompleteResponse, Finishing
<1>11. "short" \notin slips' <=> "short" \notin slips
  BY <1>10
<1>12. mapped' \in BOOLEAN /\ multi' \in BOOLEAN /\ asked' \in RangeLists
       /\ (Len(asked') > 1 => multi') /\ Len(rest) <= Len(asked')
  BY <1>0, <1>1 DEF Typed
<1>13. End[Len(rest)] = E /\ Response(asked) = R
  OBVIOUS
<1> HIDE DEF text, full, E, w, p, R
\* One range: nothing follows it.
<1>14. CASE ~multi
  <2>1. /\ status' = "DONE" /\ retval' = 0
        /\ buffer' = b /\ start' = start /\ wire' = w
    BY <1>14 DEF CompleteResponse, Finishing, OneRange, w
  <2>2. rest = <<>> /\ E = <<>> /\ Len(E) = 0
    <3>1. rest = <<>> /\ Len(rest) = 0
      BY <1>6, <1>14, EmptySeq
    <3> QED BY <1>0, <1>13, <1>14, <3>1, Whole, EmptySeq
  <2>3. Typed'
    BY <1>0, <1>1, <1>4, <1>12, <2>1 DEF Typed, TypeOK
  <2>4. ListOK'
    BY <1>0, <1>10, <1>12, <2>1 DEF ListOK, Live
  <2>5. PlaceOK'
    BY <1>0, <1>1, <2>1 DEF PlaceOK, Live
  <2>6. OrderOK'
    <3>1. <<>> \in Seq(Byte)
      BY EmptySeq
    <3>2. "short" \notin slips' => wire' \o (Pending(buffer', start') \o <<>>) = R
      BY <1>8, <1>11, <2>1, <2>2 DEF p
    <3> QED BY <1>7, <2>1, <3>1, <3>2 DEF OrderOK, Live
  <2>7. LengthOK'
    BY <1>1, <1>4, <1>5, <1>7, <1>9, <2>1, <2>2, SMTT(30) DEF LengthOK, Live
  <2> QED BY <2>3, <2>4, <2>5, <2>6, <2>7 DEF IInv
\* The next part begins, its header in the buffer.
<1>15. CASE multi /\ rest # <<>> /\ ~full
  <2>1. /\ status' = status /\ retval' = 1
        /\ buffer' = b \o text /\ start' = start /\ wire' = w
    BY <1>15 DEF CompleteResponse, Finishing, OneRange, w, full, text, ReqWrite
  <2>2. b \o text \in Seq(Byte) /\ Len(b \o text) = Len(b) + Len(text)
    BY <1>0, <1>2, Cat, Zenon
  <2>3. Len(b) + Len(text) <= BufferSize
    BY <1>15 DEF full, Fits
  <2>4. Len(rest) \in 1..Len(asked) /\ Len(rest) # 0
    BY <1>0, <1>1, <1>15, EmptySeq
  <2> DEFINE x == FileBytes(rest[1]) \o End[Len(rest) - 1]
             k == Len(asked) - Len(rest) + 1
  <2>5. /\ rest[1] = asked[k] /\ rest[1] \in ByteRange /\ rest[1].start <= rest[1].stop
    <3>1. k \in 1..Len(asked) /\ 1 \in 1..Len(rest) /\ Len(asked) - Len(rest) + 1 = k
      BY <1>1, <2>4
    <3>2. rest[1] = asked[k]
      BY <3>1 DEF Finishing
    <3> QED BY <1>0, <3>1, <3>2, Whole
  <2>6. FileBytes(rest[1]) \in Seq(Byte) /\ End[Len(rest) - 1] \in Seq(Byte)
    <3>1. Len(rest) - 1 \in 0..Len(asked)
      BY <1>1, <2>4
    <3> QED BY <1>0, <2>5, <3>1, FileText, Whole
  <2>7. x \in Seq(Byte) /\ Len(x) = Len(FileBytes(rest[1])) + Len(End[Len(rest) - 1])
    BY <2>6, Cat, Zenon
  <2>8. E = text \o x
    <3>1. E = PartOf(asked, multi, Len(rest)) \o End[Len(rest) - 1]
      BY <1>0, <1>13, <2>4, Whole
    <3>2. PartOf(asked, multi, Len(rest)) = text \o FileBytes(rest[1])
      BY <1>15, <2>5, Zenon DEF PartOf, text
    <3>3. (text \o FileBytes(rest[1])) \o End[Len(rest) - 1] = text \o x
      BY <1>2, <2>6, Assoc, Zenon
    <3> QED BY <3>1, <3>2, <3>3, Zenon
  <2>9. Len(E) = Len(text) + Len(x)
    <3> HIDE DEF x
    <3> QED BY <1>2, <2>7, <2>8, Cat, Zenon
  <2>10. status' \in {"WRITE", "IOSHUFFLE"}
    BY <1>0, <2>1 DEF Live
  <2>11. Typed'
    BY <1>0, <1>1, <1>4, <1>12, <2>1, <2>2, <2>3, <2>10 DEF Typed, TypeOK
  <2>12. ListOK'
    <3>1. ASSUME NEW i \in 2..Len(rest) PROVE rest[i] = asked[Len(asked) - Len(rest) + i]
      <4>1. i \in 1..Len(rest)
        BY <1>1
      <4> QED BY <4>1, Zenon DEF Finishing
    <3> QED BY <1>0, <1>10, <1>12, <1>15, <2>5, <3>1 DEF ListOK, Live
  <2>13. PlaceOK'
    BY <1>0, <1>1, <1>2, <2>1, <2>2, <2>10 DEF PlaceOK, Live
  <2>14. OrderOK'
    <3> HIDE DEF x
    <3>1. Pending(b \o text, start) = p \o text
      BY <1>0, <1>1, <1>2, PendingConcat DEF p
    <3>2. (p \o text) \o x = p \o E
      BY <1>2, <1>5, <2>7, <2>8, Assoc, Zenon
    <3>3. "short" \notin slips' => wire' \o (Pending(buffer', start') \o x) = R
      BY <1>8, <1>11, <2>1, <3>1, <3>2
    <3>4. x = FileBytes(ranges'[1]) \o End'[Len(ranges') - 1]
      BY <1>7, <1>10 DEF x
    <3>5. status' # "DONE"
      BY <2>10
    <3> QED BY <1>7, <2>7, <3>3, <3>4, <3>5 DEF OrderOK, Live
  <2>15. LengthOK'
    <3>1. Len(w) + (Len(b \o text) - start) + Len(FileBytes(rest[1])) + Len(End[Len(rest) - 1]) = Len(R)
      <4> HIDE DEF x
      <4>1. Len(FileBytes(rest[1])) \in Nat /\ Len(End[Len(rest) - 1]) \in Nat
        BY <2>6, Length
      <4>2. Len(x) \in Nat /\ Len(w) \in Nat
        BY <1>4, <2>7, Length
      <4> DEFINE lf == Len(FileBytes(rest[1]))
                 le == Len(End[Len(rest) - 1])
                 lw == Len(w)
                 lb == Len(b)
                 lt == Len(text)
                 lr == Len(R)
      <4>3. lw + (lb - start) + (lt + (lf + le)) = lr
        BY <1>5, <1>9, <2>7, <2>9, Zenon
      <4>4. {lf, le, lw, lb, lt, start} \subseteq Nat
        BY <1>1, <1>2, <4>1, <4>2
      <4> HIDE DEF lf, le, lw, lb, lt, lr
      <4>5. lw + ((lb + lt) - start) + lf + le = lr
        BY <4>3, <4>4
      <4> QED BY <2>2, <4>5, Zenon DEF lf, le, lw, lb, lt, lr
    <3>2. status' # "DONE"
      BY <2>10
    <3> QED BY <1>7, <1>10, <2>1, <3>1, <3>2 DEF LengthOK
  <2> QED BY <2>11, <2>12, <2>13, <2>14, <2>15 DEF IInv
\* The next part's header does not fit: the request is dead.
<1>16. CASE multi /\ rest # <<>> /\ full
  <2>1. /\ status' = "DEAD" /\ retval' = 1
        /\ buffer' = b /\ start' = start /\ wire' = w
    BY <1>16 DEF CompleteResponse, Finishing, OneRange, w, full, text, ReqWrite
  <2>2. Typed'
    BY <1>0, <1>1, <1>4, <1>12, <2>1 DEF Typed, TypeOK
  <2>3. ListOK'
    BY <1>0, <1>10, <1>12, <2>1 DEF ListOK, Live
  <2>4. PlaceOK'
    BY <1>0, <2>1 DEF PlaceOK, Live
  <2>5. OrderOK'
    <3>1. "short" \notin slips' => wire' \o (Pending(buffer', start') \o E) = R
      BY <1>8, <1>11, <2>1 DEF p
    <3> QED BY <1>3, <1>7, <2>1, <3>1 DEF OrderOK, Live
  <2>6. LengthOK'
    BY <2>1 DEF LengthOK, Live
  <2> QED BY <2>2, <2>3, <2>4, <2>5, <2>6 DEF IInv
\* After the last part the closing boundary, flushed at once.
<1>17. CASE multi /\ rest = <<>>
  <2> DEFINE c == ReqWrite(b, text)
             x == IF full THEN text ELSE <<>>
  <2>1. PICK f \in ReqFlush(c, start) :
          /\ status' = IF f.ret = -2 THEN "DEAD" ELSE "DONE"
          /\ buffer' = f.buffer /\ start' = f.start
          /\ wire' = w \o f.sent /\ retval' = 1
    BY <1>17, Zenon DEF CompleteResponse, Finishing, OneRange, w, text
  <2>2. E = text
    BY <1>0, <1>13, <1>17, Whole, EmptySeq DEF text
  <2>3. x \in Seq(Byte) /\ ("overflow" \notin slips' => x = <<>>)
    BY <1>2, <1>10, EmptySeq
  <2>4. c \in Seq(Byte) /\ Len(c) <= BufferSize /\ Len(b) <= Len(c)
    <3>1. CASE full
      BY <1>0, <1>1, <3>1 DEF full, ReqWrite
    <3>2. CASE ~full
      <4>1. c = b \o text /\ Len(b) + Len(text) <= BufferSize
        BY <1>17, <3>2 DEF full, ReqWrite, Fits
      <4>2. b \o text \in Seq(Byte) /\ Len(b \o text) = Len(b) + Len(text)
        BY <1>0, <1>2, Cat, Zenon
      <4> QED BY <1>0, <1>1, <1>2, <4>1, <4>2
    <3> QED BY <3>1, <3>2
  <2>5. Pending(c, start) \o x = p \o E
    <3>1. CASE full
      BY <2>2, <3>1 DEF full, ReqWrite, p
    <3>2. CASE ~full
      <4>1. c = b \o text /\ x = <<>>
        BY <1>17, <3>2 DEF full, ReqWrite
      <4>2. Pending(b \o text, start) = p \o text
        BY <1>0, <1>1, <1>2, PendingConcat DEF p
      <4>3. p \o text \in Seq(Byte)
        BY <1>2, <1>5, Cat, Zenon
      <4>4. (p \o text) \o <<>> = p \o text
        BY <4>3, ConcatEmptySeq
      <4> QED BY <2>2, <4>1, <4>2, <4>4, Zenon
    <3> QED BY <3>1, <3>2
  <2> HIDE DEF c, x
  <2> DEFINE q == Pending(c, start)
  <2>6. start \in 0..Len(c) /\ Len(c) \in Nat
    BY <1>0, <1>1, <2>4, Length
  <2>7. q \in Seq(Byte) /\ Len(q) = Len(c) - start
    BY <1>1, <2>4, <2>6, PendingType
  <2>8. q \o x = p \o E /\ Len(q) + Len(x) = Len(p) + Len(E)
    <3>1. Len(q \o x) = Len(q) + Len(x) /\ Len(p \o E) = Len(p) + Len(E)
      <4> HIDE DEF q
      <4> QED BY <1>3, <1>5, <2>3, <2>7, Cat, Zenon
    <3> QED BY <2>5, <3>1
  <2>9. /\ f.sent \in Seq(Byte) /\ f.buffer \in Seq(Byte)
        /\ f.start \in 0..Len(f.buffer) /\ Len(f.buffer) <= Len(c) /\ f.ret \in Int
        /\ f.ret = 0 \/ f.ret = -2 => f.buffer = <<>>
        /\ f.ret = -2 => f.sent = <<>>
        /\ f.ret # -2 => /\ f.sent \o Pending(f.buffer, f.start) = q
                         /\ Len(f.sent) + (Len(f.buffer) - f.start) = Len(q)
    BY <2>4, <2>6, <2>7, Flushed
  <2>10. /\ Len(f.buffer) \in Nat /\ Len(f.sent) \in Nat /\ f.start \in 0..BufferSize
         /\ Len(f.buffer) <= BufferSize
    <3>1. Len(f.buffer) \in Nat /\ Len(f.sent) \in Nat
      BY <2>9, Length, Zenon
    <3> QED BY <2>4, <2>6, <2>9, <3>1, Constants
  <2>11. wire' \in Seq(Byte) /\ Len(wire') = Len(w) + Len(f.sent)
    BY <1>4, <2>1, <2>9, Cat, Zenon
  <2>12. Typed'
    BY <1>0, <1>12, <2>1, <2>9, <2>10, <2>11 DEF Typed, TypeOK
  <2>13. status' \in {"DEAD", "DONE"}
    BY <2>1
  <2>14. ListOK'
    BY <1>0, <1>10, <1>12, <2>13 DEF ListOK, Live
  <2>15. PlaceOK'
    BY <1>0, <2>1, <2>9, <2>10, <2>13 DEF PlaceOK, Live
  <2> HIDE DEF q
  <2>16. OrderOK'
    <3>1. PICK y \in Seq(Byte) :
            /\ (w \o f.sent) \o (Pending(f.buffer, f.start) \o y) = w \o (q \o x)
            /\ f.ret # -2 => y = x
      BY <1>4, <2>3, <2>4, <2>6, FlushMatches, ZenonT(30) DEF q
    <3>2. "short" \notin slips' => wire' \o (Pending(buffer', start') \o y) = R
      BY <1>8, <1>11, <2>1, <2>8, <3>1, Zenon DEF q
    <3>3. status' = "DONE" /\ "overflow" \notin slips' => y = <<>>
      BY <2>1, <2>3, <3>1
    <3> QED BY <1>7, <2>13, <3>2, <3>3 DEF OrderOK, Live
  <2>17. LengthOK'
    <3>1. SUFFICES ASSUME status' = "DONE", "overflow" \notin slips'
                   PROVE  Len(wire') + (Len(buffer') - start') = Len(R)
      BY <1>7, <2>13 DEF LengthOK, Live
    <3>2. f.ret # -2 /\ Len(x) = 0
      BY <2>1, <2>3, <3>1, EmptySeq
    <3>3. Len(wire') + (Len(buffer') - start') = Len(w) + (Len(c) - start)
      <4>1. Len(w \o f.sent) + (Len(f.buffer) - f.start) = Len(w) + (Len(c) - start)
        BY <1>4, <2>4, <2>6, <3>2, FlushLength, Zenon
      <4> QED BY <2>1, <4>1, Zenon
    <3>4. Len(w) \in Nat /\ Len(q) \in Nat
      BY <1>4, <2>7, Length DEF q
    <3> QED BY <1>3, <1>5, <1>9, <2>7, <2>8, <3>2, <3>3, <3>4, Length DEF q
  <2> QED BY <2>12, <2>14, <2>15, <2>16, <2>17 DEF IInv
<1> QED BY <1>14, <1>15, <1>16, <1>17, Zenon
-----------------------------------------------------------------------------
\* A flush of the buffer, wherever process_requests or free_request make it.
Flushing(f) ==
  /\ IInv /\ pc # "init" /\ status \notin {"DEAD", "TIMED_OUT"}
  /\ f \in ReqFlush(buffer, start)
  /\ buffer' = f.buffer /\ start' = f.start /\ wire' = wire \o f.sent
  /\ status' = IF f.ret = -2 THEN "DEAD" ELSE status
  /\ pc' \in {"ready", "dispatch", "settle", "freed"} /\ retval' \in {-1, 0, 1}
  /\ pc' = "settle" /\ retval' = 0 => status' \notin {"WRITE", "IOSHUFFLE"}
  /\ slips \subseteq slips' /\ ("overflow" \in slips' => "overflow" \in slips)
  /\ pc' = "dispatch" /\ status \in {"WRITE", "IOSHUFFLE"} /\ "short" \notin slips' =>
       f.buffer = <<>>
  /\ mapped' = mapped /\ ranges' = ranges /\ asked' = asked /\ multi' = multi

LEMMA FlushStep ==
  ASSUME NEW f, Flushing(f)
  PROVE  IInv'
<1>0. /\ buffer' = f.buffer /\ start' = f.start /\ wire' = wire \o f.sent
      /\ status' = IF f.ret = -2 THEN "DEAD" ELSE status
      /\ pc' \in {"ready", "dispatch", "settle", "freed"} /\ retval' \in {-1, 0, 1}
      /\ slips \subseteq slips' /\ ("overflow" \in slips' => "overflow" \in slips)
      /\ mapped' = mapped /\ ranges' = ranges /\ asked' = asked /\ multi' = multi
  BY DEF Flushing
<1>1. /\ Typed /\ ListOK /\ wire \in Seq(Byte) /\ buffer \in Seq(Byte)
      /\ pc # "init" /\ status \in {"WRITE", "IOSHUFFLE", "DONE"}
  BY DEF Flushing, IInv, Typed, TypeOK
<1>2. start \in 0..Len(buffer) /\ f \in ReqFlush(buffer, start) /\ Len(buffer) \in Nat
  BY <1>1, Length, Constants DEF Flushing, IInv, Typed, TypeOK, PlaceOK
<1>3. /\ f.sent \in Seq(Byte) /\ f.buffer \in Seq(Byte)
      /\ f.start \in 0..Len(f.buffer) /\ Len(f.buffer) <= Len(buffer)
  BY <1>1, <1>2, Flushed
<1>4. wire \o f.sent \in Seq(Byte)
  BY <1>1, <1>3, Cat, Zenon
<1>5. Response(asked)' = Response(asked) /\ End' = End
  BY <1>0, SameResponse
<1>6. status' \in {"WRITE", "IOSHUFFLE", "DONE", "DEAD"} /\ (Live' => Live)
      /\ (status' # "DEAD" => f.ret # -2 /\ status' = status)
  BY <1>0, <1>1 DEF Live
<1>7. Typed'
  <2>1. Len(f.buffer) \in Nat /\ Len(f.buffer) <= BufferSize /\ f.start \in 0..BufferSize
    <3>1. Len(buffer) <= BufferSize
      BY <1>1 DEF Typed, TypeOK
    <3>2. Len(f.buffer) \in Nat
      BY <1>3, Length, Zenon
    <3> QED BY <1>2, <1>3, <3>1, <3>2, Constants
  <2> QED BY <1>0, <1>1, <1>3, <1>4, <1>6, <2>1 DEF Typed, TypeOK
<1>8. ListOK'
  BY <1>0, <1>1, <1>6, Zenon DEF ListOK
<1>9. PlaceOK'
  <2>1. start' <= Len(buffer')
    BY <1>0, <1>3, Length
  <2> QED BY <1>0, <1>6, <2>1 DEF PlaceOK, Live, Flushing
<1>10. OrderOK'
  <2>1. SUFFICES ASSUME "short" \notin slips' PROVE OrderOK'
    BY DEF OrderOK
  <2>2. PICK x \in Seq(Byte) :
          /\ wire \o (Pending(buffer, start) \o x) = Response(asked)
          /\ Live => x = FileBytes(ranges[1]) \o End[Len(ranges) - 1]
          /\ status = "DONE" /\ "overflow" \notin slips => x = <<>>
    BY <1>0, <1>1, <2>1 DEF OrderOK, Flushing, IInv
  <2>3. PICK y \in Seq(Byte) :
          /\ (wire \o f.sent) \o (Pending(f.buffer, f.start) \o y)
               = wire \o (Pending(buffer, start) \o x)
          /\ f.ret # -2 => y = x
    BY <1>1, <1>2, FlushMatches, ZenonT(30)
  <2>4. wire' \o (Pending(buffer', start') \o y) = Response(asked)
    BY <1>0, <2>2, <2>3, Zenon
  <2>5. Live' => y = FileBytes(ranges'[1]) \o End'[Len(ranges') - 1]
    BY <1>0, <1>5, <1>6, <2>2, <2>3, Zenon DEF Live
  <2>6. status' = "DONE" /\ "overflow" \notin slips' => y = <<>>
    BY <1>0, <1>6, <2>2, <2>3
  <2> QED BY <1>5, <2>4, <2>5, <2>6, Zenon DEF OrderOK
<1>11. LengthOK'
  <2>1. CASE status' = "DEAD"
    BY <2>1 DEF LengthOK, Live
  <2>2. CASE status' # "DEAD"
    <3>1. f.ret # -2 /\ status' = status
      BY <1>6, <2>2
    <3>2. Len(wire') + (Len(buffer') - start') = Len(wire) + (Len(buffer) - start)
      <4>1. Len(wire \o f.sent) + (Len(f.buffer) - f.start) = Len(wire) + (Len(buffer) - start)
        BY <1>1, <1>2, <3>1, FlushLength, Zenon
      <4> QED BY <1>0, <4>1, Zenon
    <3>3. LengthOK
      BY DEF Flushing, IInv
    <3> QED BY <1>0, <1>1, <1>5, <3>1, <3>2, <3>3, Zenon DEF LengthOK, Live
  <2> QED BY <2>1, <2>2
<1> QED BY <1>7, <1>8, <1>9, <1>10, <1>11 DEF IInv

\* A step that sends nothing: the request moves on, or is given up.
Resting ==
  /\ IInv /\ pc # "init"
  /\ status' = status \/ status' \in {"DEAD", "TIMED_OUT"}
  /\ buffer' = buffer \/ (status' \in {"DEAD", "TIMED_OUT"} /\ buffer' = <<>>)
  /\ pc' \in {"ready", "dispatch", "settle", "blocked", "freed"} /\ retval' \in {-1, 0, 1}
  /\ pc' = "settle" /\ retval' = 0 => status' \notin {"WRITE", "IOSHUFFLE"}
  /\ pc' = "dispatch" => buffer = <<>> \/ status' \in {"DEAD", "TIMED_OUT"}
  /\ mapped' = mapped /\ ranges' = ranges /\ asked' = asked /\ multi' = multi
  /\ start' = start /\ wire' = wire /\ slips' = slips

LEMMA RestStep ==
  ASSUME Resting
  PROVE  IInv'
<1>0. /\ IInv /\ pc # "init"
      /\ status' = status \/ status' \in {"DEAD", "TIMED_OUT"}
      /\ buffer' = buffer \/ (status' \in {"DEAD", "TIMED_OUT"} /\ buffer' = <<>>)
      /\ pc' \in {"ready", "dispatch", "settle", "blocked", "freed"} /\ retval' \in {-1, 0, 1}
      /\ mapped' = mapped /\ ranges' = ranges /\ asked' = asked /\ multi' = multi
      /\ start' = start /\ wire' = wire /\ slips' = slips
  BY DEF Resting
<1>1. /\ Typed /\ ListOK /\ PlaceOK /\ OrderOK /\ LengthOK
      /\ buffer \in Seq(Byte) /\ wire \in Seq(Byte) /\ start \in Nat
  BY <1>0, Constants DEF IInv, Typed, TypeOK
<1>2. Response(asked)' = Response(asked) /\ End' = End
  BY <1>0, SameResponse
<1>3. Live' => Live /\ status' = status /\ buffer' = buffer
  BY <1>0 DEF Live
<1>4. status' = "DONE" => status = "DONE" /\ buffer' = buffer
  BY <1>0
<1>5. Typed'
  <2>1. buffer' \in Seq(Byte) /\ Len(buffer') <= BufferSize
    <3>1. CASE buffer' = buffer
      BY <1>1, <3>1 DEF Typed, TypeOK
    <3>2. CASE buffer' = <<>>
      BY <3>2, EmptySeq, Constants
    <3> QED BY <1>0, <3>1, <3>2
  <2> QED BY <1>0, <1>1, <2>1 DEF Typed, TypeOK
<1>6. ListOK'
  BY <1>0, <1>1, <1>3, Zenon DEF ListOK
<1>7. PlaceOK'
  BY <1>0, <1>1, <1>3, <1>4 DEF PlaceOK, Live, Resting
<1>8. OrderOK'
  <2>1. SUFFICES ASSUME "short" \notin slips' PROVE OrderOK'
    BY DEF OrderOK
  <2>2. PICK x \in Seq(Byte) :
          /\ wire \o (Pending(buffer, start) \o x) = Response(asked)
          /\ Live => x = FileBytes(ranges[1]) \o End[Len(ranges) - 1]
          /\ status = "DONE" /\ "overflow" \notin slips => x = <<>>
    BY <1>0, <1>1, <2>1 DEF OrderOK
  <2>3. CASE buffer' = buffer
    <3>1. wire' \o (Pending(buffer', start') \o x) = Response(asked)
      BY <1>0, <2>2, <2>3, Zenon
    <3>2. Live' => x = FileBytes(ranges'[1]) \o End'[Len(ranges') - 1]
      BY <1>0, <1>2, <1>3, <2>2, Zenon
    <3>3. status' = "DONE" /\ "overflow" \notin slips' => x = <<>>
      BY <1>0, <1>4, <2>2
    <3> QED BY <1>2, <3>1, <3>2, <3>3, Zenon DEF OrderOK
  <2>4. CASE buffer' # buffer
    <3> DEFINE y == Pending(buffer, start) \o x
    <3>1. y \in Seq(Byte)
      BY <1>1, PendingType, Cat
    <3>2. wire \o y = Response(asked)
      BY <2>2
    <3> HIDE DEF y
    <3>3. Pending(buffer', start') = <<>> /\ <<>> \o y = y
      BY <1>0, <1>1, <2>4, <3>1, NothingPending, ConcatEmptySeq
    <3>4. wire' \o (Pending(buffer', start') \o y) = Response(asked)
      BY <1>0, <3>2, <3>3, Zenon
    <3>5. ~Live' /\ status' # "DONE"
      BY <1>3, <1>4, <2>4
    <3> QED BY <1>2, <3>1, <3>4, <3>5, Zenon DEF OrderOK
  <2> QED BY <2>3, <2>4
<1>9. LengthOK'
  BY <1>0, <1>1, <1>2, <1>3, <1>4, Zenon DEF LengthOK
<1> QED BY <1>5, <1>6, <1>7, <1>8, <1>9 DEF IInv
-----------------------------------------------------------------------------
\* The list behind the first range, and with that range moved on.
LEMMA TailMoves ==
  ASSUME NEW s \in Seq(ByteRange), s # <<>>, NEW a \in ByteRange
  PROVE  /\ Tail(s) \in Seq(ByteRange) /\ Len(Tail(s)) = Len(s) - 1
         /\ \A i \in 1..(Len(s) - 1) : Tail(s)[i] = s[i + 1]
         /\ <<a>> \o Tail(s) \in Seq(ByteRange) /\ Len(<<a>> \o Tail(s)) = Len(s)
         /\ (<<a>> \o Tail(s))[1] = a
         /\ \A i \in 2..Len(s) : (<<a>> \o Tail(s))[i] = s[i]
         /\ s[1] \in ByteRange /\ Len(s) \in Nat \ {0}
<1>1. Len(s) \in Nat \ {0}
  BY EmptySeq
<1>2. s[1] \in ByteRange
  BY <1>1, ElementOfSeq
<1> DEFINE t == Tail(s)
<1>3. t \in Seq(ByteRange) /\ Len(t) = Len(s) - 1
      /\ \A i \in 1..(Len(s) - 1) : t[i] = s[i + 1]
  BY <1>1, HeadTailProperties
<1> HIDE DEF t
<1>4. <<a>> \in Seq(ByteRange) /\ Len(<<a>>) = 1 /\ <<a>>[1] = a
  OBVIOUS
<1>5. /\ <<a>> \o t \in Seq(ByteRange) /\ Len(<<a>> \o t) = 1 + Len(t)
      /\ \A i \in 1..(1 + Len(t)) : (<<a>> \o t)[i] = IF i <= 1 THEN <<a>>[i] ELSE t[i - 1]
  BY <1>3, <1>4, ConcatProperties
<1>6. Len(<<a>> \o t) = Len(s)
  BY <1>1, <1>3, <1>5
<1>7. (<<a>> \o t)[1] = a
  <2>1. 1 \in 1..(1 + Len(t)) /\ 1 <= 1
    BY <1>1, <1>3
  <2> QED BY <1>4, <1>5, <2>1, Zenon
<1>8. ASSUME NEW i \in 2..Len(s) PROVE (<<a>> \o t)[i] = s[i]
  <2>1. i \in 1..(1 + Len(t)) /\ ~(i <= 1) /\ i - 1 \in 1..(Len(s) - 1) /\ (i - 1) + 1 = i
    BY <1>1, <1>3
  <2>2. t[i - 1] = s[(i - 1) + 1]
    BY <1>3, <2>1, Zenon
  <2> QED BY <1>5, <2>1, <2>2, Zenon
<1> QED BY <1>1, <1>2, <1>3, <1>5, <1>6, <1>7, <1>8 DEF t

\* The first range, moved on: what a live request's list is after a chunk.
LEMMA ListMoves ==
  ASSUME Typed, ListOK, Live, NEW a \in ByteRange, a.start <= a.stop,
         ranges' = <<a>> \o Tail(ranges), asked' = asked
  PROVE  /\ ListOK' /\ ranges'[1] = a /\ Len(ranges') = Len(ranges)
         /\ Len(ranges) \in 1..Len(asked) /\ Len(asked) \in Nat
<1>1. /\ ranges \in Seq(ByteRange) /\ Len(ranges) <= Len(asked) /\ ranges # <<>>
      /\ \A i \in 2..Len(ranges) : ranges[i] = asked[Len(asked) - Len(ranges) + i]
  BY DEF ListOK
<1>2. /\ ranges' \in Seq(ByteRange) /\ Len(ranges') = Len(ranges) /\ ranges'[1] = a
      /\ \A i \in 2..Len(ranges) : ranges'[i] = ranges[i]
      /\ Len(ranges) \in Nat \ {0}
  BY <1>1, TailMoves
<1>3. ranges' # <<>>
  BY <1>2, EmptySeq
<1>4. Len(asked) \in Nat
  BY Whole
<1>5. ListOK'
  BY <1>1, <1>2, <1>3 DEF ListOK
<1> QED BY <1>1, <1>2, <1>4, <1>5
-----------------------------------------------------------------------------
\* A live request: its first range, what follows it, and the lengths.
LEMMA Alive ==
  ASSUME IInv, Live
  PROVE  /\ ranges[1] \in ByteRange /\ ranges[1].start <= ranges[1].stop
         /\ Tail(ranges) \in Seq(ByteRange) /\ Len(Tail(ranges)) = Len(ranges) - 1
         /\ \A i \in 1..Len(Tail(ranges)) :
              Tail(ranges)[i] = asked[Len(asked) - Len(Tail(ranges)) + i]
         /\ Len(asked) \in Nat /\ Len(ranges) \in 1..Len(asked)
         /\ FileBytes(ranges[1]) \in Seq(Byte) /\ End[Len(ranges) - 1] \in Seq(Byte)
         /\ wire \in Seq(Byte) /\ buffer \in Seq(Byte)
         /\ start \in 0..Len(buffer) /\ Len(buffer) \in 0..BufferSize
         /\ Len(buffer) \in Nat /\ start \in Nat
<1>1. /\ Typed /\ ranges \in Seq(ByteRange) /\ Len(ranges) <= Len(asked)
      /\ ranges # <<>> /\ ranges[1].start <= ranges[1].stop
      /\ \A i \in 2..Len(ranges) : ranges[i] = asked[Len(asked) - Len(ranges) + i]
  BY DEF IInv, ListOK
<1>2. Len(asked) \in Nat /\ \A n \in 0..Len(asked) : End[n] \in Seq(Byte)
  BY <1>1, Whole
<1>3. /\ Tail(ranges) \in Seq(ByteRange) /\ Len(Tail(ranges)) = Len(ranges) - 1
      /\ \A i \in 1..(Len(ranges) - 1) : Tail(ranges)[i] = ranges[i + 1]
      /\ ranges[1] \in ByteRange /\ Len(ranges) \in Nat \ {0}
  BY <1>1, TailMoves
<1>4. ASSUME NEW i \in 1..Len(Tail(ranges))
      PROVE  Tail(ranges)[i] = asked[Len(asked) - Len(Tail(ranges)) + i]
  <2>1. /\ i \in 1..(Len(ranges) - 1) /\ i + 1 \in 2..Len(ranges)
        /\ Len(asked) - Len(ranges) + (i + 1) = Len(asked) - (Len(ranges) - 1) + i
    BY <1>2, <1>3
  <2>2. Tail(ranges)[i] = ranges[i + 1]
    BY <1>3, <2>1, Zenon
  <2>3. ranges[i + 1] = asked[Len(asked) - Len(ranges) + (i + 1)]
    BY <1>1, <2>1, Zenon
  <2> QED BY <1>3, <2>1, <2>2, <2>3, Zenon
<1>5. FileBytes(ranges[1]) \in Seq(Byte)
  BY <1>1, <1>3, FileText
<1>6. Len(ranges) \in 1..Len(asked) /\ Len(ranges) - 1 \in 0..Len(asked)
  BY <1>1, <1>2, <1>3
<1>7. End[Len(ranges) - 1] \in Seq(Byte)
  BY <1>2, <1>6
<1>8. /\ wire \in Seq(Byte) /\ buffer \in Seq(Byte)
      /\ Len(buffer) <= BufferSize /\ start \in 0..BufferSize
      /\ status \notin {"DEAD", "TIMED_OUT"}
  BY <1>1 DEF Typed, TypeOK, Live
<1>9. start <= Len(buffer)
  BY <1>8 DEF IInv, PlaceOK
<1>10. Len(buffer) \in Nat
  BY <1>8, Length
<1>11. /\ start \in 0..Len(buffer) /\ Len(buffer) \in 0..BufferSize /\ start \in Nat
  BY <1>8, <1>9, <1>10, Constants
<1> QED BY <1>1, <1>2, <1>3, <1>4, <1>5, <1>6, <1>7, <1>8, <1>10, <1>11

LEMMA SendChunkKeeps ==
  ASSUME IInv, SendChunk
  PROVE  IInv'
<1> DEFINE r == ranges[1]
           want == r.stop - r.start + 1
           most == IF want > SystemBuf THEN SystemBuf ELSE want
           E == End[Len(ranges) - 1]
           fb == FileBytes(r)
<1>0. /\ pc = "dispatch" /\ Live /\ pc' = "settle"
      /\ mapped' = mapped /\ asked' = asked /\ multi' = multi
  BY DEF SendChunk, Live
<1>1. PICK n \in 1..most :
        IF n = want THEN CompleteResponse(Tail(ranges), buffer, SubSeq(fb, 1, n))
        ELSE /\ ranges' = <<Advance(r, n)>> \o Tail(ranges)
             /\ wire' = wire \o SubSeq(fb, 1, n)
             /\ retval' = 1 /\ UNCHANGED <<status, buffer, start, slips>>
  BY Zenon DEF SendChunk
<1>2. /\ r \in ByteRange /\ r.start <= r.stop
      /\ Tail(ranges) \in Seq(ByteRange) /\ Len(Tail(ranges)) = Len(ranges) - 1
      /\ Len(asked) \in Nat /\ Len(ranges) \in 1..Len(asked)
      /\ fb \in Seq(Byte) /\ E \in Seq(Byte)
      /\ wire \in Seq(Byte) /\ buffer \in Seq(Byte)
      /\ start \in 0..Len(buffer) /\ Len(buffer) \in 0..BufferSize
      /\ Len(buffer) \in Nat /\ start \in Nat
  BY <1>0, Alive
<1>3. r.start \in Nat /\ r.stop \in Nat /\ Len(fb) = want
  BY <1>2, FileText DEF ByteRange
<1>4. n \in 0..want /\ n \in Nat
  BY <1>2, <1>3, Constants
<1> DEFINE taken == SubSeq(fb, 1, n)
<1>5. /\ taken \in Seq(Byte) /\ Len(taken) = n
      /\ n = want => taken = fb
      /\ n # want => /\ Advance(r, n) \in ByteRange /\ Advance(r, n).start <= Advance(r, n).stop
                     /\ taken \o FileBytes(Advance(r, n)) = fb
                     /\ n + Len(FileBytes(Advance(r, n))) = Len(fb)
  BY <1>2, <1>4, Chunk
<1>6. Len(wire) + (Len(buffer) - start) + Len(fb) + Len(E) = Len(Response(asked))
  BY <1>0 DEF IInv, LengthOK
\* The buffer is empty, so that nothing is overtaken.
<1>7. ASSUME "short" \notin slips
      PROVE  buffer = <<>> /\ Pending(buffer, start) = <<>> /\ wire \o (fb \o E) = Response(asked)
  <2>1. buffer = <<>> /\ Pending(buffer, start) = <<>>
    BY <1>0, <1>2, <1>7, NothingPending DEF IInv, PlaceOK
  <2>2. wire \o (Pending(buffer, start) \o (fb \o E)) = Response(asked)
    BY <1>0, <1>7 DEF IInv, OrderOK
  <2>3. fb \o E \in Seq(Byte)
    BY <1>2, Cat, Zenon
  <2>4. <<>> \o (fb \o E) = fb \o E
    BY <2>3, ConcatEmptySeq
  <2> QED BY <2>1, <2>2, <2>4, Zenon
<1>8. Len(wire) \in Nat /\ Len(E) \in Nat
  BY <1>2, Length
<1> HIDE DEF r, want, E, fb, taken, most
<1>9. CASE n = want
  <2>1. CompleteResponse(Tail(ranges), buffer, fb)
    BY <1>1, <1>5, <1>9 DEF taken
  <2>2. ASSUME "short" \notin slips
        PROVE  (wire \o fb) \o (Pending(buffer, start) \o E) = Response(asked)
    <3>1. <<>> \o E = E
      BY <1>2, ConcatEmptySeq
    <3>2. (wire \o fb) \o E = wire \o (fb \o E)
      BY <1>2, Assoc
    <3> QED BY <1>7, <2>2, <3>1, <3>2, Zenon
  <2>3. Len(wire) + Len(fb) + (Len(buffer) - start) + Len(E) = Len(Response(asked))
    BY <1>2, <1>3, <1>4, <1>6, <1>8, <1>9
  <2>4. Len(Tail(ranges)) < Len(asked) /\ Len(buffer) <= BufferSize /\ start <= Len(buffer)
    BY <1>2, Constants
  <2>5. \A i \in 1..Len(Tail(ranges)) :
          Tail(ranges)[i] = asked[Len(asked) - Len(Tail(ranges)) + i]
    BY <1>0, Alive, Zenon
  <2>6. E = End[Len(Tail(ranges))]
    BY <1>2 DEF E
  <2>7. Finishing(Tail(ranges), buffer, fb)
    BY <1>0, <1>2, <2>1, <2>2, <2>3, <2>4, <2>5, <2>6, Zenon DEF Finishing, IInv
  <2> QED BY <2>7, Completes
<1>10. CASE n # want
  <2> DEFINE a == Advance(r, n)
             fa == FileBytes(a)
  <2>1. /\ ranges' = <<a>> \o Tail(ranges) /\ wire' = wire \o taken
        /\ retval' = 1 /\ status' = status /\ buffer' = buffer /\ start' = start /\ slips' = slips
    BY <1>1, <1>10 DEF taken
  <2>2. a \in ByteRange /\ a.start <= a.stop /\ taken \o fa = fb /\ n + Len(fa) = Len(fb)
    BY <1>5, <1>10
  <2>3. fa \in Seq(Byte) /\ Len(fa) \in Nat
    BY <2>2, FileText, Length
  <2> HIDE DEF a
  <2>4. /\ ListOK' /\ ranges'[1] = a /\ Len(ranges') = Len(ranges)
    BY <1>0, <2>1, <2>2, ListMoves DEF IInv
  <2> HIDE DEF fa
  <2>5. wire \o taken \in Seq(Byte) /\ Len(wire \o taken) = Len(wire) + n
    BY <1>2, <1>5, Cat
  <2>6. Response(asked)' = Response(asked) /\ End' = End
    BY <1>0, SameResponse
  <2>7. Typed'
    BY <1>0, <2>1, <2>5 DEF IInv, Typed, TypeOK
  <2>8. PlaceOK'
    BY <1>0, <1>2, <2>1 DEF PlaceOK, Live
  <2>9. E = End'[Len(ranges') - 1] /\ fa = FileBytes(ranges'[1])
    BY <2>4, <2>6 DEF E, fa
  <2>10. OrderOK'
    <3>1. SUFFICES ASSUME "short" \notin slips PROVE OrderOK'
      BY <2>1 DEF OrderOK
    <3> DEFINE x == fa \o E
    <3>2. x \in Seq(Byte)
      BY <1>2, <2>3, Cat
    <3>3. (wire \o taken) \o x = wire \o (fb \o E)
      <4>1. \A s3, s4 \in Seq(Byte) :
              (wire \o taken) \o (s3 \o s4) = wire \o ((taken \o s3) \o s4)
        BY <1>2, <1>5, MoveSent, Zenon
      <4>2. (wire \o taken) \o (fa \o E) = wire \o ((taken \o fa) \o E)
        BY <1>2, <2>3, <4>1, Zenon
      <4> QED BY <2>2, <4>2, Zenon DEF fa
    <3> HIDE DEF x
    <3>4. <<>> \o x = x
      BY <3>2, ConcatEmptySeq
    <3>5. wire' \o (Pending(buffer', start') \o x) = Response(asked)
      BY <1>7, <2>1, <3>1, <3>3, <3>4, Zenon
    <3>6. status' # "DONE"
      BY <1>0, <2>1 DEF Live
    <3>7. x = FileBytes(ranges'[1]) \o End'[Len(ranges') - 1]
      BY <2>9, Zenon DEF x
    <3> QED BY <2>6, <3>2, <3>5, <3>6, <3>7, Zenon DEF OrderOK
  <2>11. LengthOK'
    <3>1. status' # "DONE"
      BY <1>0, <2>1 DEF Live
    <3>2. (Len(wire) + n) + (Len(buffer) - start) + Len(fa) + Len(E) = Len(Response(asked))
      <4>1. n + Len(fa) = Len(fb)
        BY <2>2 DEF fa
      <4> DEFINE lw == Len(wire)
                 lb == Len(buffer)
                 lf == Len(fa)
                 le == Len(E)
      <4>2. lw + (lb - start) + (n + lf) + le = Len(Response(asked))
        BY <1>6, <4>1, Zenon
      <4>3. {lw, lb, lf, le, start, n} \subseteq Nat
        BY <1>2, <1>4, <1>8, <2>3
      <4> HIDE DEF lw, lb, lf, le
      <4>4. (lw + n) + (lb - start) + lf + le = lw + (lb - start) + (n + lf) + le
        BY <4>3
      <4> QED BY <4>2, <4>4, Zenon DEF lw, lb, lf, le
    <3>3. Len(wire') + (Len(buffer') - start') + Len(FileBytes(ranges'[1]))
            + Len(End'[Len(ranges') - 1]) = Len(Response(asked))
      BY <2>1, <2>5, <2>9, <3>2, Zenon
    <3> QED BY <2>6, <3>1, <3>3, Zenon DEF LengthOK
  <2> QED BY <2>4, <2>7, <2>8, <2>10, <2>11 DEF IInv
<1> QED BY <1>9, <1>10

LEMMA InitGetKeeps ==
  ASSUME IInv, InitGet
  PROVE  IInv'
<1> DEFINE h == Span("header", HeaderLen)
           ph == IF multi THEN PartHeader(Len(asked)) ELSE <<>>
           head == h \o ph
           free == BufferSize - Len(head)
           r == ranges[1]
           want == r.stop - r.start + 1
           n == IF free > want THEN want ELSE free
           fb == FileBytes(r)
           chunk == SubSeq(fb, 1, n)
           filled == head \o chunk
           E == End[Len(ranges) - 1]
<1>0. /\ pc = "init" /\ pc' = "settle"
      /\ mapped' = mapped /\ asked' = asked /\ multi' = multi
  BY DEF InitGet
<1>1. /\ status = "WRITE" /\ ranges = asked /\ start = 0 /\ wire = <<>>
      /\ slips = {} /\ Live /\ Typed /\ ListOK
  BY <1>0 DEF IInv, PlaceOK, Live
<1>2. /\ r \in ByteRange /\ r.start <= r.stop
      /\ Tail(ranges) \in Seq(ByteRange) /\ Len(Tail(ranges)) = Len(ranges) - 1
      /\ Len(asked) \in Nat /\ Len(ranges) \in 1..Len(asked)
      /\ fb \in Seq(Byte) /\ E \in Seq(Byte)
  BY <1>1, Alive
<1>3. r.start \in Nat /\ r.stop \in Nat /\ Len(fb) = want /\ want \in Nat
  BY <1>2, FileText DEF ByteRange
<1>4. /\ h \in Seq(Byte) /\ Len(h) = HeaderLen
      /\ ph \in Seq(Byte) /\ Len(ph) \in 0..PartLen
  <2>1. ph \in Seq(Byte) /\ (Len(ph) = PartLen \/ Len(ph) = 0)
    BY <1>2, Texts, EmptySeq
  <2> QED BY <2>1, Texts, Constants
<1>5. head \in Seq(Byte) /\ Len(head) = HeaderLen + Len(ph)
  BY <1>4, Cat, Zenon
<1>6. /\ Len(head) \in Nat /\ Len(head) <= BufferSize /\ free \in Nat /\ n \in 0..want
      /\ Len(head) + n <= BufferSize
  <2> DEFINE lp == Len(ph)
             lh == Len(head)
  <2>1. lp \in 0..PartLen /\ lh = HeaderLen + lp
    BY <1>4, <1>5, Zenon
  <2>2. free = BufferSize - lh /\ n = IF free > want THEN want ELSE free
    OBVIOUS
  <2>3. want \in Nat
    BY <1>3
  <2> HIDE DEF lp, lh, head, ph, want, n, free
  <2>4. lh \in Nat /\ lh <= BufferSize /\ free \in Nat
    BY <2>1, <2>2, Constants
  <2>5. n \in 0..want /\ lh + n <= BufferSize
    BY <2>2, <2>3, <2>4, Constants
  <2> QED BY <2>4, <2>5 DEF lh
<1>7. /\ chunk \in Seq(Byte) /\ Len(chunk) = n
      /\ n = want => chunk = fb
      /\ n # want => /\ Advance(r, n) \in ByteRange /\ Advance(r, n).start <= Advance(r, n).stop
                     /\ chunk \o FileBytes(Advance(r, n)) = fb
                     /\ n + Len(FileBytes(Advance(r, n))) = Len(fb)
  <2> HIDE DEF n
  <2> QED BY <1>2, <1>6, Chunk
\* The response is the header and the first part's, the first range, the rest.
<1>8. Response(asked) = head \o (fb \o E)
  <2>1. End[Len(asked)] = PartOf(asked, multi, Len(asked)) \o E
    <3>1. Len(asked) \in 1..Len(asked)
      BY <1>1, <1>2
    <3> QED BY <1>1, <3>1, Whole, Zenon
  <2>2. PartOf(asked, multi, Len(asked)) = ph \o fb
    <3>1. Len(asked) - Len(asked) + 1 = 1
      BY <1>2
    <3> QED BY <1>1, <3>1, Zenon DEF PartOf
  <2>3. Response(asked) = h \o ((ph \o fb) \o E)
    BY <1>1, <2>1, <2>2, Whole, Zenon
  <2> HIDE DEF h, ph, fb, E
  <2>4. \A s3, s4 \in Seq(Byte) : (h \o ph) \o (s3 \o s4) = h \o ((ph \o s3) \o s4)
    BY <1>4, MoveSent, Zenon
  <2>5. (h \o ph) \o (fb \o E) = h \o ((ph \o fb) \o E)
    BY <1>2, <2>4, Zenon
  <2> QED BY <2>3, <2>5, Zenon
<1>9. InitGet => IF ~mapped \/ free <= Spare
                 THEN /\ status' = IF mapped THEN "WRITE" ELSE "IOSHUFFLE"
                      /\ buffer' = head /\ retval' = 1
                      /\ UNCHANGED <<ranges, start, wire, slips>>
                 ELSE IF n = want THEN CompleteResponse(Tail(ranges), filled, <<>>)
                 ELSE /\ ranges' = <<Advance(r, n)>> \o Tail(ranges)
                      /\ buffer' = filled /\ retval' = 1
                      /\ UNCHANGED <<status, start, wire, slips>>
  BY Zenon DEF InitGet
<1>10. E = End[Len(asked) - 1]
  BY <1>1
<1> HIDE DEF h, ph, head, free, r, want, n, fb, chunk, E
<1>11. filled \in Seq(Byte) /\ Len(filled) = Len(head) + n
  BY <1>5, <1>7, Cat, Zenon
<1> HIDE DEF filled
<1>12. Response(asked)' = Response(asked) /\ End' = End
  BY <1>0, SameResponse
<1>13. <<>> \in Seq(Byte) /\ Len(<<>>) = 0
  BY EmptySeq
<1>14. Len(Response(asked)) = Len(head) + (Len(fb) + Len(E)) /\ Len(E) \in Nat
  <2>1. fb \o E \in Seq(Byte) /\ Len(fb \o E) = Len(fb) + Len(E)
    BY <1>2, Cat, Zenon
  <2>2. Len(head \o (fb \o E)) = Len(head) + Len(fb \o E)
    BY <1>5, <2>1, Cat, Zenon
  <2> QED BY <1>2, <1>8, <2>1, <2>2, Length
\* What is pending is all of the buffer.
<1>15. ASSUME NEW b \in Seq(Byte), NEW x \in Seq(Byte)
       PROVE  wire \o (Pending(b, start) \o x) = b \o x
  <2>1. Pending(b, start) = b
    BY <1>1, SubSeqFull DEF Pending
  <2>2. b \o x \in Seq(Byte)
    BY Cat, Zenon
  <2>3. <<>> \o (b \o x) = b \o x
    BY <2>2, ConcatEmptySeq
  <2> QED BY <1>1, <2>1, <2>3, Zenon
<1>16. ASSUME NEW fr, NEW b \in Seq(Byte), Len(b) <= BufferSize,
              FileBytes(fr) \in Seq(Byte), b \o (FileBytes(fr) \o E) = Response(asked),
              Len(b) + Len(FileBytes(fr)) + Len(E) = Len(Response(asked)),
              ListOK', ranges'[1] = fr, Len(ranges') = Len(asked),
              status' \in {"WRITE", "IOSHUFFLE"}, retval' = 1,
              buffer' = b, start' = start, wire' = wire, slips' = slips
       PROVE  IInv'
  <2> DEFINE x == FileBytes(fr) \o E
  <2>1. x \in Seq(Byte) /\ Len(b) \in Nat
    BY <1>2, <1>16, Cat, Length
  <2>2. x = FileBytes(ranges'[1]) \o End'[Len(ranges') - 1]
    BY <1>10, <1>12, <1>16, Zenon
  <2> HIDE DEF x
  <2>3. wire' \o (Pending(buffer', start') \o x) = Response(asked)
    BY <1>15, <1>16, <2>1, Zenon DEF x
  <2>4. status' # "DONE"
    BY <1>16
  <2>5. OrderOK'
    BY <1>12, <2>1, <2>2, <2>3, <2>4, Zenon DEF OrderOK
  <2>6. Typed'
    BY <1>0, <1>1, <1>13, <1>16, Constants DEF Typed, TypeOK
  <2>7. PlaceOK'
    BY <1>0, <1>1, <1>16, <2>1 DEF PlaceOK, Live
  <2>8. Len(wire') + (Len(buffer') - start') + Len(FileBytes(fr)) + Len(E) = Len(Response(asked))
    <3>1. Len(wire') = 0 /\ start' = 0 /\ Len(buffer') = Len(b)
      BY <1>1, <1>13, <1>16, Zenon
    <3>2. Len(wire') + (Len(buffer') - start') = Len(b)
      BY <2>1, <3>1
    <3> QED BY <1>16, <3>2, Zenon
  <2>9. LengthOK'
    <3>1. FileBytes(fr) = FileBytes(ranges'[1]) /\ E = End'[Len(ranges') - 1]
      BY <1>10, <1>12, <1>16, Zenon
    <3> QED BY <1>12, <2>4, <2>8, <3>1, Zenon DEF LengthOK
  <2> QED BY <1>16, <2>5, <2>6, <2>7, <2>9 DEF IInv
\* The file is not mapped, or there is no room: the header alone.
<1>17. CASE ~mapped \/ free <= Spare
  <2>1. /\ status' = IF mapped THEN "WRITE" ELSE "IOSHUFFLE"
        /\ buffer' = head /\ retval' = 1
        /\ ranges' = ranges /\ start' = start /\ wire' = wire /\ slips' = slips
    BY <1>9, <1>17
  <2>2. status' \in {"WRITE", "IOSHUFFLE"}
    BY <2>1
  <2>3. ListOK'
    BY <1>0, <1>1, <2>1 DEF ListOK
  <2>4. fb = FileBytes(r) /\ ranges'[1] = r /\ Len(ranges') = Len(asked)
    BY <1>1, <2>1 DEF fb, r
  <2>5. Len(head) + Len(fb) + Len(E) = Len(Response(asked))
    BY <1>3, <1>6, <1>14
  <2> QED BY <1>2, <1>5, <1>6, <1>8, <1>16, <2>1, <2>2, <2>3, <2>4, <2>5
\* The first range fits.
<1>18. CASE ~(~mapped \/ free <= Spare) /\ n = want
  <2>1. CompleteResponse(Tail(ranges), filled, <<>>)
    BY <1>9, <1>18
  <2>2. filled = head \o fb
    BY <1>7, <1>18 DEF filled
  <2>3. (head \o fb) \o E = head \o (fb \o E)
    BY <1>2, <1>5, Assoc
  <2>4. (wire \o <<>>) \o (Pending(filled, start) \o E) = Response(asked)
    <3>1. wire \o <<>> = wire
      BY <1>1, <1>13, ConcatEmptySeq
    <3>2. wire \o (Pending(filled, start) \o E) = filled \o E
      BY <1>2, <1>11, <1>15
    <3> QED BY <1>8, <2>2, <2>3, <3>1, <3>2, Zenon
  <2>5. Len(wire) + Len(<<>>) + (Len(filled) - start) + Len(E) = Len(Response(asked))
    <3>1. Len(filled) = Len(head) + Len(fb) /\ Len(filled) \in Nat /\ Len(wire) = 0
      BY <1>1, <1>3, <1>11, <1>13, <1>18, Length
    <3> QED BY <1>1, <1>3, <1>6, <1>13, <1>14, <3>1
  <2>6. Len(Tail(ranges)) < Len(asked) /\ Len(filled) <= BufferSize /\ start <= Len(filled)
    BY <1>1, <1>2, <1>6, <1>11, Length
  <2>7. \A i \in 1..Len(Tail(ranges)) :
          Tail(ranges)[i] = asked[Len(asked) - Len(Tail(ranges)) + i]
    BY <1>1, Alive, Zenon
  <2>8. E = End[Len(Tail(ranges))]
    BY <1>2 DEF E
  <2>9. Finishing(Tail(ranges), filled, <<>>)
    BY <1>0, <1>1, <1>2, <1>11, <1>13, <2>1, <2>4, <2>5, <2>6, <2>7, <2>8, Zenon DEF Finishing
  <2> QED BY <2>9, Completes
\* A part of it fits.
<1>19. CASE ~(~mapped \/ free <= Spare) /\ n # want
  <2> DEFINE a == Advance(r, n)
             fa == FileBytes(a)
  <2>1. /\ ranges' = <<a>> \o Tail(ranges) /\ buffer' = filled /\ retval' = 1
        /\ status' = status /\ start' = start /\ wire' = wire /\ slips' = slips
    BY <1>9, <1>19
  <2>2. a \in ByteRange /\ a.start <= a.stop /\ chunk \o fa = fb /\ n + Len(fa) = Len(fb)
    BY <1>7, <1>19
  <2> HIDE DEF a
  <2>3. fa \in Seq(Byte) /\ Len(fa) \in Nat
    BY <2>2, FileText, Length
  <2>4. ListOK' /\ ranges'[1] = a /\ Len(ranges') = Len(ranges)
    BY <1>0, <1>1, <2>1, <2>2, ListMoves
  <2>5. filled \o (fa \o E) = Response(asked)
    <3> HIDE DEF fa
    <3>1. \A s3, s4 \in Seq(Byte) : (head \o chunk) \o (s3 \o s4) = head \o ((chunk \o s3) \o s4)
      BY <1>5, <1>7, MoveSent, Zenon
    <3>2. (head \o chunk) \o (fa \o E) = head \o ((chunk \o fa) \o E)
      BY <1>2, <2>3, <3>1, Zenon
    <3>3. chunk \o fa = fb
      BY <2>2 DEF fa
    <3> QED BY <1>8, <3>2, <3>3, Zenon DEF filled
  <2>6. Len(filled) + Len(fa) + Len(E) = Len(Response(asked))
    <3> DEFINE lf == Len(fa)
               lh == Len(head)
               le == Len(E)
    <3>1. Len(filled) = lh + n /\ Len(Response(asked)) = lh + ((n + lf) + le)
      BY <1>11, <1>14, <2>2, Zenon
    <3>2. {lf, lh, le, n} \subseteq Nat
      BY <1>3, <1>6, <1>14, <2>3
    <3> HIDE DEF lf, lh, le
    <3>3. (lh + n) + lf + le = lh + ((n + lf) + le)
      BY <3>2
    <3> QED BY <3>1, <3>3, Zenon DEF lf, lh, le
  <2>7. Len(filled) <= BufferSize /\ status' \in {"WRITE", "IOSHUFFLE"} /\ Len(ranges') = Len(asked)
    BY <1>1, <1>6, <1>11, <2>1, <2>4
  <2> QED BY <1>11, <1>16, <2>1, <2>3, <2>4, <2>5, <2>6, <2>7
<1> QED BY <1>17, <1>18, <1>19
-----------------------------------------------------------------------------
LEMMA Initial == Init => IInv
<1> SUFFICES ASSUME Init PROVE IInv
  OBVIOUS
<1>1. /\ pc = "init" /\ status = "WRITE" /\ mapped \in BOOLEAN
      /\ asked \in RangeLists /\ ranges = asked /\ multi \in BOOLEAN
      /\ (Len(asked) > 1 => multi)
      /\ buffer = <<>> /\ start = 0 /\ retval = 1 /\ wire = <<>> /\ slips = {}
  BY DEF Init
<1>2. <<>> \in Seq(Byte) /\ Len(<<>>) = 0
  BY EmptySeq
<1>3. Typed
  BY <1>1, <1>2, Constants DEF Typed, TypeOK
<1>4. ListOK
  <2>1. /\ asked \in Seq(ByteRange) /\ Len(asked) \in Nat \ {0} /\ asked # <<>>
        /\ \A i \in 1..Len(asked) : asked[i].start <= asked[i].stop
    BY <1>1, Asked
  <2>2. asked[1].start <= asked[1].stop
    BY <2>1
  <2>3. ASSUME NEW i \in 2..Len(ranges)
        PROVE  ranges[i] = asked[Len(asked) - Len(ranges) + i]
    <3>1. Len(asked) - Len(ranges) + i = i
      BY <1>1, <2>1
    <3> QED BY <1>1, <3>1
  <2> QED BY <1>1, <2>1, <2>2, <2>3 DEF ListOK
<1>5. PlaceOK
  BY <1>1, <1>2 DEF PlaceOK
<1>6. OrderOK /\ LengthOK
  BY <1>1 DEF OrderOK, LengthOK
<1> QED BY <1>3, <1>4, <1>5, <1>6 DEF IInv

LEMMA TopFlushKeeps ==
  ASSUME IInv, TopFlush
  PROVE  IInv'
<1>0. /\ pc = "ready" /\ Typed /\ retval \in {-1, 0, 1}
      /\ mapped' = mapped /\ ranges' = ranges /\ asked' = asked /\ multi' = multi
  BY DEF TopFlush, IInv, Typed, TypeOK
<1>1. CASE NothingToFlush
  <2>1. pc' = "dispatch" /\ UNCHANGED <<status, buffer, start, retval, wire, slips>>
    BY <1>1 DEF TopFlush
  <2>2. Resting
    BY <1>0, <1>1, <2>1 DEF Resting, NothingToFlush
  <2> QED BY <2>2, RestStep
<1>2. CASE ~NothingToFlush
  <2>1. PICK f \in ReqFlush(buffer, start) :
          /\ buffer' = f.buffer /\ start' = f.start /\ wire' = wire \o f.sent
          /\ status' = IF f.ret = -2 THEN "DEAD" ELSE status
          /\ retval' = IF f.ret = -2 THEN 0 ELSE IF f.ret = -1 THEN -1 ELSE 1
          /\ pc' = IF f.ret >= 0 THEN "dispatch" ELSE "settle"
          /\ slips' = IF f.ret > 0 /\ status # "DONE" THEN slips \cup {"short"} ELSE slips
    BY <1>2, Zenon DEF TopFlush
  <2>2. buffer \in Seq(Byte) /\ start \in 0..Len(buffer) /\ status \notin {"DEAD", "TIMED_OUT"}
    <3>1. status \notin {"DEAD", "TIMED_OUT"}
      BY <1>2 DEF NothingToFlush
    <3>2. buffer \in Seq(Byte) /\ start <= Len(buffer) /\ start \in 0..BufferSize
      BY <3>1 DEF IInv, Typed, TypeOK, PlaceOK
    <3> QED BY <3>1, <3>2, Length, Constants
  <2>3. f.ret \in Int /\ (f.ret = 0 \/ f.ret = -2 => f.buffer = <<>>)
    BY <2>2, Flushed
  <2>4. pc' = "settle" /\ retval' = 0 => status' = "DEAD"
    BY <2>1, <2>3
  <2>5. ASSUME pc' = "dispatch", status \in {"WRITE", "IOSHUFFLE"}, "short" \notin slips'
        PROVE  f.buffer = <<>>
    BY <2>1, <2>3, <2>5
  <2>6. slips \subseteq slips' /\ ("overflow" \in slips' => "overflow" \in slips)
    BY <2>1
  <2>7. pc' \in {"ready", "dispatch", "settle", "freed"} /\ retval' \in {-1, 0, 1}
    BY <2>1
  <2>8. Flushing(f)
    BY <1>0, <2>1, <2>2, <2>4, <2>5, <2>6, <2>7 DEF Flushing
  <2> QED BY <2>8, FlushStep
<1> QED BY <1>1, <1>2

LEMMA DoneKeeps ==
  ASSUME IInv, Done
  PROVE  IInv'
<1>0. /\ pc = "dispatch" /\ status = "DONE" /\ pc' = "settle" /\ slips' = slips
      /\ mapped' = mapped /\ ranges' = ranges /\ asked' = asked /\ multi' = multi
  BY DEF Done
<1>1. PICK f \in ReqFlush(buffer, start) :
        /\ buffer' = f.buffer /\ start' = f.start /\ wire' = wire \o f.sent
        /\ status' = IF f.ret = -2 THEN "DEAD" ELSE status
        /\ retval' = IF f.ret = -2 THEN 0 ELSE IF f.ret > 0 THEN 1 ELSE f.ret
  BY Zenon DEF Done
<1>2. f.ret = 0 \/ f.ret = -1 \/ f.ret = -2 \/ f.ret > 0
  <2>1. buffer \in Seq(Byte)
    BY DEF IInv, Typed
  <2>2. Len(buffer) \in Nat
    BY <2>1, Length
  <2>3. \/ f.ret = -1 \/ f.ret = -2 \/ f.ret = 0
        \/ (f.ret = Len(buffer) /\ f.ret # 0)
    BY SMT DEF ReqFlush
  <2> QED BY <2>2, <2>3
<1>3. retval' \in {-1, 0, 1} /\ status' \notin {"WRITE", "IOSHUFFLE"}
  BY <1>0, <1>1, <1>2
<1>4. Flushing(f)
  BY <1>0, <1>1, <1>3 DEF Flushing
<1> QED BY <1>4, FlushStep

LEMMA FreeRequestKeeps ==
  ASSUME IInv, FreeRequest
  PROVE  IInv'
<1>0. /\ pc = "settle" /\ retval = 0 /\ retval' = retval /\ slips' = slips
      /\ mapped' = mapped /\ ranges' = ranges /\ asked' = asked /\ multi' = multi
  BY DEF FreeRequest
<1>1. CASE NothingToFlush
  <2>1. pc' = "freed" /\ UNCHANGED <<status, buffer, start, wire>>
    BY <1>1 DEF FreeRequest
  <2>2. Resting
    BY <1>0, <2>1 DEF Resting
  <2> QED BY <2>2, RestStep
<1>2. CASE ~NothingToFlush
  <2>1. PICK f \in ReqFlush(buffer, start) :
          /\ buffer' = f.buffer /\ start' = f.start /\ wire' = wire \o f.sent
          /\ status' = IF f.ret = -2 THEN "DEAD" ELSE "DONE"
          /\ pc' = IF f.ret > 0 THEN "ready" ELSE "freed"
    BY <1>2, Zenon DEF FreeRequest
  <2>2. status = "DONE"
    BY <1>0, <1>2 DEF IInv, PlaceOK, Live, NothingToFlush, Typed, TypeOK
  <2>3. pc' \in {"ready", "dispatch", "settle", "freed"} /\ pc' # "settle" /\ pc' # "dispatch"
    BY <2>1
  <2>4. Flushing(f)
    BY <1>0, <2>1, <2>2, <2>3 DEF Flushing
  <2> QED BY <2>4, FlushStep
<1> QED BY <1>1, <1>2

\* What the socket has taken, the buffer and the ranges left make up the
\* response at every step.
THEOREM Invariance == Spec => []IInv
<1>1. Init => IInv
  BY Initial
<1>2. IInv /\ [Next]_vars => IInv'
  <2> SUFFICES ASSUME IInv, [Next]_vars PROVE IInv'
    OBVIOUS
  <2>0. pc \in {"init", "ready", "dispatch", "settle", "blocked", "freed"}
        /\ retval \in {-1, 0, 1}
    BY DEF IInv, Typed, TypeOK
  <2>1. CASE InitGet
    BY <2>1, InitGetKeeps
  <2>2. CASE TopFlush
    BY <2>2, TopFlushKeeps
  <2>3. CASE SendChunk
    BY <2>3, SendChunkKeeps
  <2>4. CASE ChunkNotSent
    <3>1. Resting
      BY <2>4 DEF ChunkNotSent, Resting
    <3> QED BY <3>1, RestStep
  <2>5. CASE Done
    BY <2>5, DoneKeeps
  <2>6. CASE Abandon
    <3>1. Resting
      BY <2>6 DEF Abandon, Resting
    <3> QED BY <3>1, RestStep
  <2>7. CASE KeepReady
    <3>1. Resting
      BY <2>0, <2>7 DEF KeepReady, Resting
    <3> QED BY <3>1, RestStep
  <2>8. CASE BlockRequest
    <3>1. Resting
      BY <2>0, <2>8 DEF BlockRequest, Resting
    <3> QED BY <3>1, RestStep
  <2>9. CASE FreeRequest
    BY <2>9, FreeRequestKeeps
  <2>10. CASE Wake
    <3>1. Resting
      BY <2>0, <2>10 DEF Wake, Resting
    <3> QED BY <3>1, RestStep
  <2>11. CASE UNCHANGED vars
    <3>1. /\ pc' = pc /\ status' = status /\ mapped' = mapped /\ ranges' = ranges
          /\ asked' = asked /\ multi' = multi /\ buffer' = buffer /\ start' = start
          /\ retval' = retval /\ wire' = wire /\ slips' = slips
      BY <2>11 DEF vars
    <3>2. Response(asked)' = Response(asked) /\ End' = End /\ Live' = Live
      BY <3>1, SameResponse DEF Live
    <3>3. Typed' /\ ListOK'
      BY <3>1, <3>2, Zenon DEF IInv, Typed, TypeOK, ListOK
    <3>4. PlaceOK'
      BY <3>1, <3>2, Zenon DEF IInv, PlaceOK
    <3>5. OrderOK'
      BY <3>1, <3>2, Zenon DEF IInv, OrderOK
    <3>6. LengthOK'
      BY <3>1, <3>2, Zenon DEF IInv, LengthOK
    <3> QED BY <3>3, <3>4, <3>5, <3>6 DEF IInv
  <2>12. CASE Freed
    BY <2>11, <2>12 DEF Freed
  <2> QED BY <2>1, <2>2, <2>3, <2>4, <2>5, <2>6, <2>7, <2>8, <2>9, <2>10, <2>11, <2>12 DEF Next
<1> QED BY <1>1, <1>2, PTL DEF Spec

\* The buffer never holds more than BUFFER_SIZE bytes, whatever is written to
\* it and whichever part of it the socket takes.
THEOREM TypeCorrect == Spec => []TypeOK
<1>1. IInv => TypeOK
  BY DEF IInv, Typed
<1> QED BY <1>1, Invariance, PTL

\* The client receives the response in order, none of it skipped, for every
\* list of ranges and however the socket cuts the writes, as long as no
\* handler writes behind a short flush.
THEOREM InOrder == Spec => []InOrderUnlessShort
<1>1. IInv => InOrderUnlessShort
  <2> SUFFICES ASSUME IInv, "short" \notin slips PROVE IsPrefix(wire, Response(asked))
    BY DEF InOrderUnlessShort
  <2>0. wire \in Seq(Byte) /\ Response(asked) \in Seq(Byte) /\ buffer \in Seq(Byte)
        /\ start \in Nat
    BY Whole, Constants DEF IInv, Typed, TypeOK
  <2>1. PICK y \in Seq(Byte) : wire \o y = Response(asked)
    <3>1. CASE pc = "init"
      <4>1. wire = <<>>
        BY <3>1 DEF IInv, PlaceOK
      <4>2. <<>> \o Response(asked) = Response(asked)
        BY <2>0, ConcatEmptySeq
      <4> QED BY <2>0, <4>1, <4>2, Zenon
    <3>2. CASE pc # "init"
      <4>1. PICK x \in Seq(Byte) : wire \o (Pending(buffer, start) \o x) = Response(asked)
        BY <3>2 DEF IInv, OrderOK
      <4>2. Pending(buffer, start) \o x \in Seq(Byte)
        BY <2>0, PendingType, Cat
      <4> QED BY <4>1, <4>2, Zenon
    <3> QED BY <3>1, <3>2
  <2> DEFINE R == Response(asked)
             k == Len(wire)
  <2>2. /\ k \in Nat /\ Len(y) \in Nat /\ R = wire \o y /\ Len(R) = k + Len(y)
        /\ \A i \in 1..(k + Len(y)) : R[i] = IF i <= k THEN wire[i] ELSE y[i - k]
    BY <2>0, <2>1, Length, ConcatProperties
  <2> HIDE DEF R
  <2>3. k <= Len(R) /\ \A i \in 1..k : R[i] = wire[i]
    BY <2>2
  <2>4. R \in Seq(Byte)
    BY <2>0 DEF R
  <2>5. SubSeq(wire, 1, k) = wire
    BY <2>0, SubSeqFull
  <2>6. SubSeq(R, 1, k) = wire
    <3>0. \A i \in 1..k : R[i] \in Byte
      BY <2>0, <2>2, <2>3, ElementOfSeq
    <3> DEFINE t == SubSeq(R, 1, k)
    <3>1. /\ t \in Seq(Byte) /\ Len(t) = IF 1 <= k THEN k - 1 + 1 ELSE 0
          /\ \A i \in 1..(k - 1 + 1) : t[i] = R[1 + i - 1]
      BY <2>2, <3>0, SubSeqProperties
    <3> HIDE DEF t
    <3>2. Len(t) = k /\ \A i \in 1..k : t[i] = wire[i]
      BY <2>2, <2>3, <3>1
    <3>3. t = wire
      BY <2>0, <3>1, <3>2, SeqEqual
    <3> QED BY <3>3 DEF t
  <2> QED BY <2>3, <2>5, <2>6 DEF IsPrefix, R
<1> QED BY <1>1, Invariance, PTL

\* A response that ends without an error or a timeout has been received whole,
\* unless the buffer overflowed or free_request left bytes in it; short
\* flushes, which may reorder it, lose nothing.
THEOREM Complete == Spec => []WholeUnlessCut
<1>1. IInv => WholeUnlessCut
  <2> SUFFICES ASSUME IInv, pc = "freed", status = "DONE", buffer = <<>>, "overflow" \notin slips
               PROVE  Len(wire) = Len(Response(asked))
    BY DEF WholeUnlessCut
  <2>1. Len(wire) + (Len(buffer) - start) = Len(Response(asked))
    BY DEF IInv, LengthOK
  <2>2. start <= Len(buffer) /\ start \in Nat /\ Len(buffer) = 0
    BY EmptySeq, Constants DEF IInv, PlaceOK, Typed, TypeOK
  <2>3. Len(wire) \in Nat
    BY Length DEF IInv, Typed
  <2> QED BY <2>1, <2>2, <2>3
<1> QED BY <1>1, Invariance, PTL
-----------------------------------------------------------------------------
\* That nothing is sent twice.  The bytes of a sequence, and that it has none of
\* them twice.
Elements(s) == {s[i] : i \in 1..Len(s)}
Once(s) == \A i, j \in 1..Len(s) : s[i] = s[j] => i = j

\* w and p have no byte twice, together, and none of L.
Unrepeated(w, p, L) ==
  /\ Once(w) /\ Once(p)
  /\ Elements(w) \cap Elements(p) = {}
  /\ (Elements(w) \cup Elements(p)) \cap L = {}

LEMMA OnceConcat ==
  ASSUME NEW a \in Seq(Byte), NEW b \in Seq(Byte)
  PROVE  /\ Elements(a \o b) = Elements(a) \cup Elements(b)
         /\ Once(a \o b) <=> Once(a) /\ Once(b) /\ Elements(a) \cap Elements(b) = {}
<1> DEFINE c == a \o b
           m == Len(a)
           k == Len(b)
<1>1. /\ Len(c) = m + k
      /\ \A i \in 1..(m + k) : c[i] = IF i <= m THEN a[i] ELSE b[i - m]
      /\ m \in Nat /\ k \in Nat
  BY ConcatProperties, LenProperties
<1> HIDE DEF c, m, k
<1>2. /\ \A i \in 1..m : i \in 1..Len(c) /\ c[i] = a[i]
      /\ \A i \in 1..k : m + i \in 1..Len(c) /\ c[m + i] = b[i]
      /\ \A i \in 1..Len(c) : i \in 1..m \/ \E j \in 1..k : i = m + j
  <2>1. ASSUME NEW i \in 1..m PROVE i \in 1..Len(c) /\ c[i] = a[i]
    BY <1>1
  <2>2. ASSUME NEW i \in 1..k PROVE m + i \in 1..Len(c) /\ c[m + i] = b[i]
    <3>1. m + i \in 1..(m + k) /\ ~(m + i <= m) /\ (m + i) - m = i
      BY <1>1
    <3> QED BY <1>1, <3>1
  <2>3. ASSUME NEW i \in 1..Len(c), i \notin 1..m PROVE \E j \in 1..k : i = m + j
    <3>1. i - m \in 1..k /\ i = m + (i - m)
      BY <1>1, <2>3
    <3> QED BY <3>1
  <2> QED BY <2>1, <2>2, <2>3
<1>3. Elements(c) = Elements(a) \cup Elements(b)
  <2>1. ASSUME NEW i \in 1..Len(c) PROVE c[i] \in Elements(a) \cup Elements(b)
    <3>1. CASE i \in 1..m
      BY <1>2, <3>1 DEF Elements, m
    <3>2. ASSUME NEW j \in 1..k, i = m + j PROVE c[i] \in Elements(b)
      BY <1>2, <3>2 DEF Elements, k
    <3> QED BY <1>2, <3>1, <3>2
  <2>2. \A x \in Elements(a) : x \in Elements(c)
    BY <1>2 DEF Elements, m
  <2>3. \A x \in Elements(b) : x \in Elements(c)
    BY <1>2 DEF Elements, k
  <2>4. \A x \in Elements(c) : x \in Elements(a) \cup Elements(b)
    BY <2>1 DEF Elements
  <2> QED BY <2>2, <2>3, <2>4
<1>4. Once(c) => Once(a)
  BY <1>2, Zenon DEF Once, m
<1>5. ASSUME Once(c), NEW i \in 1..k, NEW j \in 1..k, b[i] = b[j] PROVE i = j
  <2>1. c[m + i] = c[m + j] /\ m + i \in 1..Len(c) /\ m + j \in 1..Len(c)
    BY <1>2, <1>5, Zenon
  <2>2. m + i = m + j
    BY <1>5, <2>1, Zenon DEF Once
  <2> QED BY <1>1, <2>2
<1>6. ASSUME Once(c), NEW i \in 1..m, NEW j \in 1..k, a[i] = b[j] PROVE FALSE
  <2>1. c[i] = c[m + j] /\ i \in 1..Len(c) /\ m + j \in 1..Len(c)
    BY <1>2, <1>6, Zenon
  <2>2. i = m + j
    BY <1>6, <2>1, Zenon DEF Once
  <2> QED BY <1>1, <2>2
<1>7. ASSUME Once(a), Once(b), Elements(a) \cap Elements(b) = {},
             NEW i \in 1..Len(c), NEW j \in 1..Len(c), c[i] = c[j]
      PROVE  i = j
  <2>1. \A x \in 1..m, y \in 1..k : a[x] # b[y]
    BY <1>7 DEF Elements, m, k
  <2>2. CASE i \in 1..m /\ j \in 1..m
    BY <1>2, <1>7, <2>2, Zenon DEF Once, m
  <2>3. ASSUME NEW x \in 1..k, i = m + x, NEW y \in 1..k, j = m + y PROVE i = j
    <3>1. b[x] = b[y]
      BY <1>2, <1>7, <2>3, Zenon
    <3> QED BY <1>7, <2>3, <3>1, Zenon DEF Once, k
  <2>4. ASSUME i \in 1..m, NEW y \in 1..k, j = m + y PROVE FALSE
    BY <1>2, <1>7, <2>1, <2>4, Zenon
  <2>5. ASSUME j \in 1..m, NEW y \in 1..k, i = m + y PROVE FALSE
    BY <1>2, <1>7, <2>1, <2>5, Zenon
  <2> QED BY <1>2, <2>2, <2>3, <2>4, <2>5, Zenon
<1>8. Once(c) => Once(b)
  BY <1>5 DEF Once, k
<1>9. Once(c) => Elements(a) \cap Elements(b) = {}
  BY <1>6 DEF Elements, m, k
<1>10. Once(a) /\ Once(b) /\ Elements(a) \cap Elements(b) = {} => Once(c)
  BY <1>7 DEF Once
<1> QED BY <1>3, <1>4, <1>8, <1>9, <1>10 DEF c

\* A flush moves bytes from p to w.
LEMMA OnceFlushed ==
  ASSUME NEW w \in Seq(Byte), NEW s \in Seq(Byte), NEW q \in Seq(Byte), NEW L,
         Unrepeated(w, s \o q, L)
  PROVE  Unrepeated(w \o s, q, L)
BY OnceConcat DEF Unrepeated

\* Bytes of L are put on the socket, or in the buffer.
LEMMA OnceSent ==
  ASSUME NEW w \in Seq(Byte), NEW p \in Seq(Byte), NEW t \in Seq(Byte), NEW L, NEW K,
         Unrepeated(w, p, L), Once(t), Elements(t) \subseteq L,
         K \subseteq L, Elements(t) \cap K = {}
  PROVE  Unrepeated(w \o t, p, K) /\ Unrepeated(w, p \o t, K)
BY OnceConcat DEF Unrepeated

\* Nothing is sent, or what is pending is dropped.
LEMMA OnceStill ==
  ASSUME NEW w, NEW p, NEW L, NEW K, Unrepeated(w, p, L), K \subseteq L
  PROVE  Unrepeated(w, p, K) /\ Unrepeated(w, <<>>, K)
<1>1. Once(<<>>) /\ Elements(<<>>) = {}
  BY DEF Once, Elements
<1> QED BY <1>1 DEF Unrepeated
-----------------------------------------------------------------------------
\* What a live request has still to send for the list rs: the bytes of its
\* ranges, the headers of the parts behind the first, the closing boundary.
Left(rs) ==
  {b \in Byte :
     \/ b[1] = "file" /\ \E i \in 1..Len(rs) : b[2] \in rs[i].start..rs[i].stop
     \/ b[1] = "part" /\ b[2] \in 0..(Len(rs) - 1)
     \/ b[1] = "end"}
Ahead == IF Live THEN Left(ranges) ELSE {}

\* As long as the ranges share no byte, none is sent twice.
OnceOK ==
  Apart(asked) =>
    /\ Unrepeated(wire, Pending(buffer, start), Ahead)
    /\ Live => Apart(ranges)

\* The texts that are not the file's.
LEMMA TextsOnce ==
  /\ Once(Span("header", HeaderLen)) /\ \A x \in Elements(Span("header", HeaderLen)) : x[1] = "header"
  /\ Once(Trailer) /\ \A x \in Elements(Trailer) : x[1] = "end"
  /\ \A n \in Nat : /\ Once(PartHeader(n))
                    /\ \A x \in Elements(PartHeader(n)) : x[1] = "part" /\ x[2] = n
<1>1. ASSUME NEW t \in {"header", "end"}, NEW n \in Nat, Len(Span(t, n)) = n
      PROVE  Once(Span(t, n)) /\ \A x \in Elements(Span(t, n)) : x[1] = t
  <2>1. \A i \in 1..n : Span(t, n)[i] = <<t, i>>
    BY DEF Span
  <2>2. \A i \in 1..n : <<t, i>>[1] = t /\ <<t, i>>[2] = i
    OBVIOUS
  <2>3. Once(Span(t, n))
    BY <1>1, <2>1, <2>2 DEF Once
  <2>4. \A x \in Elements(Span(t, n)) : x[1] = t
    BY <1>1, <2>1, <2>2 DEF Elements
  <2> QED BY <2>3, <2>4
<1>2. ASSUME NEW n \in Nat
      PROVE  Once(PartHeader(n)) /\ \A x \in Elements(PartHeader(n)) : x[1] = "part" /\ x[2] = n
  <2>0. Len(PartHeader(n)) = PartLen
    BY Texts
  <2>1. \A i \in 1..PartLen : PartHeader(n)[i] = <<"part", n, i>>
    BY DEF PartHeader
  <2>2. \A i \in 1..PartLen :
          <<"part", n, i>>[1] = "part" /\ <<"part", n, i>>[2] = n /\ <<"part", n, i>>[3] = i
    OBVIOUS
  <2>3. Once(PartHeader(n))
    BY <2>0, <2>1, <2>2 DEF Once
  <2>4. \A x \in Elements(PartHeader(n)) : x[1] = "part" /\ x[2] = n
    BY <2>0, <2>1, <2>2 DEF Elements
  <2> QED BY <2>3, <2>4
<1>3. Len(Span("header", HeaderLen)) = HeaderLen /\ Len(Span("end", PartLen)) = PartLen
      /\ HeaderLen \in Nat /\ PartLen \in Nat
  BY Texts, Constants DEF Trailer
<1> QED BY <1>1, <1>2, <1>3 DEF Trailer

\* The first n bytes of a range, which has none of them twice.
LEMMA FileOnce ==
  ASSUME NEW r \in ByteRange, r.start <= r.stop, NEW n \in 0..(r.stop - r.start + 1)
  PROVE  LET t == SubSeq(FileBytes(r), 1, n) IN
         /\ Once(t)
         /\ \A x \in Elements(t) : x[1] = "file" /\ x[2] \in r.start..(r.start + n - 1)
<1> DEFINE fb == FileBytes(r)
           t == SubSeq(fb, 1, n)
<1>0. r.start \in Nat /\ r.stop \in Nat
  BY DEF ByteRange
<1>1. fb \in Seq(Byte) /\ Len(fb) = r.stop - r.start + 1 /\ n \in Nat /\ n <= Len(fb)
  BY <1>0, FileText
<1>2. \A i \in 1..(r.stop - r.start + 1) : fb[i] = <<"file", r.start + i - 1>>
  BY DEF FileBytes
<1> HIDE DEF fb
<1>3. \A i \in 1..n : fb[i] \in Byte
  BY <1>0, <1>1, ElementOfSeq
<1>4. /\ Len(t) = IF 1 <= n THEN n - 1 + 1 ELSE 0
      /\ \A i \in 1..(n - 1 + 1) : t[i] = fb[1 + i - 1]
  BY <1>1, <1>3, SubSeqProperties
<1> HIDE DEF t
<1>5. Len(t) = n
  BY <1>1, <1>4
<1>6. ASSUME NEW i \in 1..n
      PROVE  /\ t[i] = <<"file", r.start + i - 1>> /\ r.start + i - 1 \in r.start..(r.start + n - 1)
             /\ t[i][1] = "file" /\ t[i][2] = r.start + i - 1
  <2>1. i \in 1..(n - 1 + 1) /\ 1 + i - 1 = i /\ i \in 1..(r.stop - r.start + 1)
        /\ r.start + i - 1 \in r.start..(r.start + n - 1)
    BY <1>0, <1>1
  <2>2. t[i] = <<"file", r.start + i - 1>>
    BY <1>2, <1>4, <2>1
  <2> QED BY <2>1, <2>2
<1>7. Once(t)
  <2> SUFFICES ASSUME NEW i \in 1..n, NEW j \in 1..n, t[i] = t[j] PROVE i = j
    BY <1>5 DEF Once
  <2>1. r.start + i - 1 = r.start + j - 1
    BY <1>6
  <2> QED BY <1>0, <1>1, <2>1
<1>8. \A x \in Elements(t) : x[1] = "file" /\ x[2] \in r.start..(r.start + n - 1)
  BY <1>5, <1>6 DEF Elements
<1> QED BY <1>7, <1>8 DEF t, fb

\* What is left once n bytes of the first range, and then perhaps the list's
\* first range as a whole, are gone.
LEMMA LeftAdvances ==
  ASSUME NEW rs \in Seq(ByteRange), rs # <<>>, Apart(rs), rs[1].start <= rs[1].stop,
         NEW n \in 0..(rs[1].stop - rs[1].start + 1), n # rs[1].stop - rs[1].start + 1
  PROVE  LET t == SubSeq(FileBytes(rs[1]), 1, n)
             K == Left(<<Advance(rs[1], n)>> \o Tail(rs))
         IN /\ Once(t) /\ Elements(t) \subseteq Left(rs)
            /\ K \subseteq Left(rs) /\ Elements(t) \cap K = {}
            /\ Apart(<<Advance(rs[1], n)>> \o Tail(rs))
<1> DEFINE r == rs[1]
           a == Advance(r, n)
           q == <<a>> \o Tail(rs)
           t == SubSeq(FileBytes(r), 1, n)
<1>1. /\ Len(rs) \in Nat \ {0} /\ r \in ByteRange /\ r.start \in Nat /\ r.stop \in Nat
      /\ r.start <= r.stop /\ DOMAIN rs = 1..Len(rs)
  <2>1. Len(rs) \in Nat \ {0}
    BY EmptySeq
  <2>2. r \in ByteRange
    BY <2>1, ElementOfSeq
  <2> QED BY <2>1, <2>2 DEF ByteRange
<1>2. n \in Nat /\ r.start + n <= r.stop /\ r.start <= r.start + n
      /\ r.start + n - 1 < r.start + n /\ r.start + n - 1 <= r.stop
      /\ r.start + n - 1 \in Int
  BY <1>1
<1>3. a \in ByteRange /\ a.start = r.start + n /\ a.stop = r.stop
  BY <1>1, <1>2, SMTT(30) DEF Advance, ByteRange
<1>4. /\ t \in Seq(Byte) /\ Once(t)
      /\ \A x \in Elements(t) : x[1] = "file" /\ x[2] \in r.start..(r.start + n - 1)
  BY <1>1, FileOnce, Chunk
<1>5. \A x \in Elements(t) : x \in Byte
  <2>1. Len(t) \in Nat /\ \A i \in 1..Len(t) : t[i] \in Byte
    BY <1>4, ElementOfSeq, LenProperties
  <2> QED BY <2>1 DEF Elements
<1> HIDE DEF a, t
<1>6. /\ q \in Seq(ByteRange) /\ Len(q) = Len(rs) /\ q[1] = a /\ DOMAIN q = 1..Len(rs)
      /\ \A i \in 2..Len(rs) : q[i] = rs[i]
  BY <1>3, TailMoves, LenProperties
<1> HIDE DEF q, r
<1>7. \A i \in 1..Len(rs) : rs[i] \in ByteRange /\ rs[i].start \in Nat /\ rs[i].stop \in Nat
  <2>1. \A i \in 1..Len(rs) : rs[i] \in ByteRange
    BY ElementOfSeq
  <2> QED BY <2>1 DEF ByteRange
<1>8. \A i \in 2..Len(rs) : i \in 1..Len(rs) /\ (rs[i].stop < r.start \/ r.stop < rs[i].start)
  BY <1>1 DEF Apart, r
<1>9. Elements(t) \subseteq Left(rs)
  <2>1. ASSUME NEW x \in Elements(t) PROVE x[2] \in rs[1].start..rs[1].stop
    <3>1. x[2] \in r.start..(r.start + n - 1)
      BY <1>4
    <3> QED BY <1>1, <1>2, <3>1 DEF r
  <2>2. 1 \in 1..Len(rs)
    BY <1>1
  <2> QED BY <1>4, <1>5, <2>1, <2>2 DEF Left
<1>10. ASSUME NEW i \in 1..Len(rs), NEW p, p \in q[i].start..q[i].stop
       PROVE  p \in rs[i].start..rs[i].stop /\ ~(p \in r.start..(r.start + n - 1))
  <2>1. CASE i = 1
    <3>1. p \in (r.start + n)..r.stop
      BY <1>3, <1>6, <1>10, <2>1
    <3> QED BY <1>1, <1>2, <2>1, <3>1 DEF r
  <2>2. CASE i # 1
    <3>1. i \in 2..Len(rs)
      BY <1>1, <2>2
    <3>2. p \in rs[i].start..rs[i].stop
      BY <1>6, <1>10, <3>1
    <3>3. rs[i].stop < r.start \/ r.stop < rs[i].start
      BY <1>8, <3>1
    <3> QED BY <1>1, <1>2, <1>7, <3>2, <3>3
  <2> QED BY <2>1, <2>2
<1>11. Left(q) \subseteq Left(rs)
  BY <1>6, <1>10 DEF Left
<1>12. Elements(t) \cap Left(q) = {}
  <2> SUFFICES ASSUME NEW x \in Elements(t), x \in Left(q) PROVE FALSE
    OBVIOUS
  <2>1. x[1] = "file" /\ x[2] \in r.start..(r.start + n - 1)
    BY <1>4
  <2>2. PICK i \in 1..Len(q) : x[2] \in q[i].start..q[i].stop
    BY <2>1 DEF Left
  <2> QED BY <1>6, <1>10, <2>1, <2>2
<1>13. Apart(q)
  <2> SUFFICES ASSUME NEW i \in 1..Len(rs), NEW j \in 1..Len(rs), i # j
               PROVE  q[i].stop < q[j].start \/ q[j].stop < q[i].start
    BY <1>6 DEF Apart
  <2>1. rs[i].stop < rs[j].start \/ rs[j].stop < rs[i].start
    BY <1>1 DEF Apart
  <2>2. ASSUME NEW k \in 1..Len(rs)
        PROVE  q[k].stop = rs[k].stop /\ q[k].start \in Nat /\ rs[k].start <= q[k].start
    <3>1. CASE k = 1
      BY <1>1, <1>2, <1>3, <1>6, <3>1 DEF r
    <3>2. CASE k # 1
      <4>1. k \in 2..Len(rs)
        BY <1>1, <3>2
      <4> QED BY <1>6, <1>7, <4>1
    <3> QED BY <3>1, <3>2
  <2>3. /\ q[i].stop = rs[i].stop /\ q[i].start \in Nat /\ rs[i].start <= q[i].start
        /\ q[j].stop = rs[j].stop /\ q[j].start \in Nat /\ rs[j].start <= q[j].start
        /\ rs[i].start \in Nat /\ rs[j].start \in Nat /\ rs[i].stop \in Nat /\ rs[j].stop \in Nat
    BY <1>7, <2>2
  <2> QED BY <2>1, <2>3, SMTT(30)
<1> QED BY <1>4, <1>9, <1>11, <1>12, <1>13 DEF q, t, a, r

LEMMA LeftShrinks ==
  ASSUME NEW rs \in Seq(ByteRange), rs # <<>>, Apart(rs), rs[1].start <= rs[1].stop
  PROVE  LET t == FileBytes(rs[1])
             K == Left(Tail(rs))
         IN /\ Once(t) /\ Elements(t) \subseteq Left(rs)
            /\ K \subseteq Left(rs) /\ Elements(t) \cap K = {}
            /\ \A x \in Elements(t) : x[1] = "file"
            /\ Apart(Tail(rs)) /\ Len(Tail(rs)) = Len(rs) - 1
<1> DEFINE r == rs[1]
           q == Tail(rs)
           t == FileBytes(r)
           n == r.stop - r.start + 1
<1>1. /\ Len(rs) \in Nat \ {0} /\ r \in ByteRange /\ r.start \in Nat /\ r.stop \in Nat
      /\ r.start <= r.stop /\ DOMAIN rs = 1..Len(rs)
  <2>1. Len(rs) \in Nat \ {0}
    BY EmptySeq
  <2>2. r \in ByteRange
    BY <2>1, ElementOfSeq
  <2> QED BY <2>1, <2>2 DEF ByteRange
<1>2. n \in 0..n /\ r.start + n - 1 = r.stop
  BY <1>1
<1>3. t \in Seq(Byte) /\ SubSeq(t, 1, n) = t
  BY <1>1, <1>2, Chunk
<1>4. Once(t) /\ \A x \in Elements(t) : x[1] = "file" /\ x[2] \in r.start..r.stop
  BY <1>1, <1>2, <1>3, FileOnce
<1>5. \A x \in Elements(t) : x \in Byte
  <2>1. Len(t) \in Nat /\ \A i \in 1..Len(t) : t[i] \in Byte
    BY <1>3, ElementOfSeq, LenProperties
  <2> QED BY <2>1 DEF Elements
<1> HIDE DEF t, n
<1>6. /\ q \in Seq(ByteRange) /\ Len(q) = Len(rs) - 1 /\ DOMAIN q = 1..Len(q) /\ Len(q) \in Nat
      /\ \A i \in 1..Len(q) : q[i] = rs[i + 1]
  BY <1>1, TailMoves, LenProperties
<1> HIDE DEF q, r
<1>7. \A i \in 1..Len(q) : /\ i + 1 \in 1..Len(rs) /\ i + 1 # 1
                           /\ q[i] = rs[i + 1] /\ q[i].start \in Nat /\ q[i].stop \in Nat
                           /\ q[i].stop < r.start \/ r.stop < q[i].start
  <2> TAKE i \in 1..Len(q)
  <2>1. i + 1 \in 1..Len(rs) /\ i + 1 # 1 /\ 1 \in 1..Len(rs) /\ q[i] = rs[i + 1]
    BY <1>1, <1>6
  <2>2. rs[i + 1] \in ByteRange
    BY <2>1, ElementOfSeq
  <2>3. rs[i + 1].stop < r.start \/ r.stop < rs[i + 1].start
    BY <1>1, <2>1 DEF Apart, r
  <2> QED BY <2>1, <2>2, <2>3 DEF ByteRange
<1>8. Elements(t) \subseteq Left(rs)
  <2>1. 1 \in 1..Len(rs)
    BY <1>1
  <2> QED BY <1>4, <1>5, <2>1 DEF Left, r
<1>9. Left(q) \subseteq Left(rs)
  <2>1. 0..(Len(q) - 1) \subseteq 0..(Len(rs) - 1)
    BY <1>1, <1>6
  <2>2. \A i \in 1..Len(q) : i + 1 \in 1..Len(rs) /\ q[i] = rs[i + 1]
    BY <1>7
  <2> QED BY <2>1, <2>2 DEF Left
<1>10. Elements(t) \cap Left(q) = {}
  <2> SUFFICES ASSUME NEW x \in Elements(t), x \in Left(q) PROVE FALSE
    OBVIOUS
  <2>1. x[1] = "file" /\ x[2] \in r.start..r.stop
    BY <1>4
  <2>2. PICK i \in 1..Len(q) : x[2] \in q[i].start..q[i].stop
    BY <2>1 DEF Left
  <2> QED BY <1>1, <1>7, <2>1, <2>2, SMTT(30)
<1>11. Apart(q)
  <2> SUFFICES ASSUME NEW i \in 1..Len(q), NEW j \in 1..Len(q), i # j
               PROVE  q[i].stop < q[j].start \/ q[j].stop < q[i].start
    BY <1>6 DEF Apart
  <2>1. i + 1 # j + 1
    BY <1>6
  <2> QED BY <1>1, <1>7, <2>1 DEF Apart
<1> QED BY <1>4, <1>6, <1>8, <1>9, <1>10, <1>11 DEF q, t, r
-----------------------------------------------------------------------------
\* Steps that send nothing.
LEMMA OnceRest ==
  ASSUME OnceOK, wire' = wire, asked' = asked, ranges' = ranges, Live' => Live,
         Pending(buffer', start') \in {Pending(buffer, start), <<>>}
  PROVE  OnceOK'
<1> SUFFICES ASSUME Apart(asked)
             PROVE  /\ Unrepeated(wire, Pending(buffer', start'), Ahead')
                    /\ Live' => Apart(ranges)
  BY DEF OnceOK
<1>1. Unrepeated(wire, Pending(buffer, start), Ahead) /\ (Live => Apart(ranges))
  BY DEF OnceOK
<1>2. Ahead' \subseteq Ahead
  BY DEF Ahead
<1>3. Unrepeated(wire, Pending(buffer, start), Ahead') /\ Unrepeated(wire, <<>>, Ahead')
  BY <1>1, <1>2, OnceStill
<1> QED BY <1>1, <1>3

\* A flush of the buffer b from b0 on, behind what is on the socket already.
LEMMA OnceReqFlush ==
  ASSUME NEW b \in Seq(Byte), NEW b0 \in 0..Len(b), NEW f \in ReqFlush(b, b0),
         NEW w \in Seq(Byte), NEW L, Unrepeated(w, Pending(b, b0), L)
  PROVE  Unrepeated(w \o f.sent, Pending(f.buffer, f.start), L)
<1>1. /\ f.sent \in Seq(Byte) /\ f.buffer \in Seq(Byte) /\ f.start \in 0..Len(f.buffer)
      /\ f.ret = -2 => f.buffer = <<>> /\ f.sent = <<>>
      /\ f.ret # -2 => f.sent \o Pending(f.buffer, f.start) = Pending(b, b0)
  BY Flushed
<1>2. f.start \in Nat /\ Pending(f.buffer, f.start) \in Seq(Byte)
  <2>1. Len(f.buffer) \in Nat
    BY <1>1, Length, Zenon
  <2>2. f.start \in Nat
    BY <1>1, <2>1
  <2> QED BY <1>1, <2>2, PendingType, Zenon
<1>3. CASE f.ret = -2
  <2>1. w \o f.sent = w /\ Pending(f.buffer, f.start) = <<>>
    BY <1>1, <1>2, <1>3, ConcatEmptySeq, NothingPending
  <2> QED BY <2>1, OnceStill
<1>4. CASE f.ret # -2
  BY <1>1, <1>2, <1>4, OnceFlushed
<1> QED BY <1>3, <1>4

LEMMA OnceFlush ==
  ASSUME IInv, OnceOK, NEW f \in ReqFlush(buffer, start), status \notin {"DEAD", "TIMED_OUT"},
         buffer' = f.buffer, start' = f.start, wire' = wire \o f.sent,
         ranges' = ranges, asked' = asked, Live' => Live
  PROVE  OnceOK'
<1> SUFFICES ASSUME Apart(asked)
             PROVE  /\ Unrepeated(wire', Pending(buffer', start'), Ahead')
                    /\ Live' => Apart(ranges)
  BY DEF OnceOK
<1>1. Unrepeated(wire, Pending(buffer, start), Ahead) /\ (Live => Apart(ranges))
  BY DEF OnceOK
<1>2. wire \in Seq(Byte) /\ buffer \in Seq(Byte) /\ start \in 0..Len(buffer)
  <2>1. /\ wire \in Seq(Byte) /\ buffer \in Seq(Byte) /\ start <= Len(buffer)
        /\ start \in 0..BufferSize
    BY DEF IInv, Typed, TypeOK, PlaceOK
  <2> QED BY <2>1, Length, Constants
<1>3. Unrepeated(wire \o f.sent, Pending(f.buffer, f.start), Ahead)
  BY <1>1, <1>2, OnceReqFlush
<1>4. Ahead' \subseteq Ahead
  BY DEF Ahead
<1>5. Unrepeated(wire \o f.sent, Pending(f.buffer, f.start), Ahead')
  BY <1>3, <1>4, OnceStill
<1> QED BY <1>1, <1>5

\* The header of the part that begins rest is still to be sent, and what follows it.
Behind(rest) == Left(rest) \cup Elements(PartHeader(Len(rest)))

\* complete_response sends the next part's header or the closing boundary.
LEMMA OnceCompletes ==
  ASSUME NEW rest \in Seq(ByteRange), NEW b \in Seq(Byte), NEW taken \in Seq(Byte),
         start \in 0..Len(b), wire \in Seq(Byte), Live,
         CompleteResponse(rest, b, taken), Apart(rest), asked' = asked,
         Unrepeated(wire \o taken, Pending(b, start), Behind(rest))
  PROVE  OnceOK'
<1> DEFINE text == IF rest # <<>> THEN PartHeader(Len(rest)) ELSE Trailer
           w == wire \o taken
           c == ReqWrite(b, text)
           p == Pending(b, start)
<1>1. /\ Len(rest) \in Nat /\ Len(b) \in Nat /\ start \in Nat /\ w \in Seq(Byte)
      /\ p \in Seq(Byte)
  BY LenProperties, Cat, PendingType
<1>2. PartHeader(Len(rest)) \in Seq(Byte) /\ Trailer \in Seq(Byte) /\ text \in Seq(Byte)
  BY <1>1, Texts
<1>3. Unrepeated(w, p, Behind(rest)) /\ Left(rest) \subseteq Behind(rest)
  BY DEF Behind
\* The text is none of what has been sent or is pending, nor of what comes later.
<1>4. /\ rest # <<>> => /\ Once(text) /\ Elements(text) \subseteq Behind(rest)
                        /\ Elements(text) \cap Left(rest) = {}
      /\ rest = <<>> => Once(text) /\ Elements(text) \subseteq Behind(rest)
  <2>1. rest # <<>> => text = PartHeader(Len(rest))
    OBVIOUS
  <2>2. rest = <<>> => text = Trailer
    OBVIOUS
  <2> HIDE DEF text
  <2>3. ASSUME NEW x \in Elements(PartHeader(Len(rest))) PROVE x \notin Left(rest)
    <3>1. x[1] = "part" /\ x[2] = Len(rest)
      BY <1>1, TextsOnce
    <3> QED BY <1>1, <3>1 DEF Left
  <2>4. ASSUME NEW x \in Elements(Trailer) PROVE x \in Left(rest)
    <3>1. x[1] = "end"
      BY TextsOnce
    <3>2. x \in Byte
      <4>1. \A i \in 1..Len(Trailer) : Trailer[i] \in Byte
        BY <1>2, ElementOfSeq
      <4> QED BY <4>1 DEF Elements
    <3> QED BY <3>1, <3>2 DEF Left
  <2>5. Once(PartHeader(Len(rest))) /\ Once(Trailer)
    BY <1>1, TextsOnce
  <2> QED BY <2>1, <2>2, <2>3, <2>4, <2>5 DEF Behind
<1> HIDE DEF text
<1>5. c = b \/ c = b \o text
  BY DEF ReqWrite
<1>6. c \in Seq(Byte) /\ start \in 0..Len(c) /\ (Pending(c, start) = p \/ Pending(c, start) = p \o text)
  <2>1. CASE c = b
    BY <2>1
  <2>2. CASE c = b \o text
    <3>1. c \in Seq(Byte) /\ Len(c) = Len(b) + Len(text) /\ Len(text) \in Nat
      BY <1>2, <2>2, Cat, Length
    <3>2. Pending(c, start) = p \o text
      BY <1>2, <2>2, PendingConcat
    <3> QED BY <1>1, <3>1, <3>2
  <2> QED BY <1>5, <2>1, <2>2
<1>7. /\ rest # <<>> => Unrepeated(w, Pending(c, start), Left(rest))
      /\ rest = <<>> => Unrepeated(w, Pending(c, start), {})
  <2>1. rest # <<>> => Unrepeated(w, p \o text, Left(rest))
    BY <1>1, <1>2, <1>3, <1>4, OnceSent
  <2>2. rest = <<>> => Unrepeated(w, p \o text, {})
    BY <1>1, <1>2, <1>3, <1>4, OnceSent
  <2>3. Unrepeated(w, p, Left(rest)) /\ Unrepeated(w, p, {})
    BY <1>3, OnceStill
  <2> QED BY <1>6, <2>1, <2>2, <2>3
<1> SUFFICES ASSUME Apart(asked)
             PROVE  Unrepeated(wire', Pending(buffer', start'), Ahead') /\ (Live' => Apart(ranges'))
  BY DEF OnceOK
<1>8. CASE OneRange
  <2>1. status' = "DONE" /\ buffer' = b /\ start' = start /\ wire' = w
    BY <1>8 DEF CompleteResponse
  <2>2. Ahead' = {} /\ ~Live'
    BY <2>1 DEF Ahead, Live
  <2> QED BY <1>3, <2>1, <2>2, OnceStill
<1>9. CASE ~OneRange /\ rest # <<>>
  <2>1. ranges' = rest /\ buffer' = c /\ start' = start /\ wire' = w
    BY <1>9 DEF CompleteResponse, text
  <2>2. Ahead' \subseteq Left(rest)
    BY <2>1 DEF Ahead
  <2> QED BY <1>7, <1>9, <2>1, <2>2, OnceStill
<1>10. CASE ~OneRange /\ ~(rest # <<>>)
  <2>1. PICK f \in ReqFlush(c, start) :
          /\ status' = IF f.ret = -2 THEN "DEAD" ELSE "DONE"
          /\ buffer' = f.buffer /\ start' = f.start
          /\ wire' = wire \o taken \o f.sent
    BY <1>10, Zenon DEF CompleteResponse, text
  <2>2. Ahead' = {} /\ ~Live'
    BY <2>1 DEF Ahead, Live
  <2>3. Unrepeated(w, Pending(c, start), {})
    BY <1>7, <1>10
  <2> HIDE DEF c, w
  <2>4. Unrepeated(w \o f.sent, Pending(f.buffer, f.start), {})
    BY <1>1, <1>6, <2>3, OnceReqFlush
  <2> QED BY <2>1, <2>2, <2>4 DEF w
<1> QED BY <1>8, <1>9, <1>10

\* A range that is finished: what is left behind it is not in it.
LEMMA BehindFirst ==
  ASSUME NEW rs \in Seq(ByteRange), rs # <<>>, Apart(rs), rs[1].start <= rs[1].stop
  PROVE  LET t == FileBytes(rs[1]) IN
         /\ Once(t) /\ Elements(t) \subseteq Left(rs)
         /\ Behind(Tail(rs)) \subseteq Left(rs) /\ Elements(t) \cap Behind(Tail(rs)) = {}
         /\ Apart(Tail(rs))
<1> DEFINE t == FileBytes(rs[1])
           q == Tail(rs)
           h == PartHeader(Len(q))
<1>1. /\ Once(t) /\ Elements(t) \subseteq Left(rs)
      /\ Left(q) \subseteq Left(rs) /\ Elements(t) \cap Left(q) = {}
      /\ \A x \in Elements(t) : x[1] = "file"
      /\ Apart(q) /\ Len(q) = Len(rs) - 1
  BY LeftShrinks
<1>2. Len(rs) \in Nat \ {0}
  BY EmptySeq
<1> HIDE DEF q, t
<1>3. Len(q) \in Nat /\ Len(q) \in 0..(Len(rs) - 1)
  BY <1>1, <1>2
<1>4. \A x \in Elements(h) : x[1] = "part" /\ x[2] = Len(q) /\ x \in Byte
  <2>1. h \in Seq(Byte) /\ \A x \in Elements(h) : x[1] = "part" /\ x[2] = Len(q)
    BY <1>3, Texts, TextsOnce
  <2>2. \A i \in 1..Len(h) : h[i] \in Byte
    BY <2>1, ElementOfSeq
  <2>3. \A x \in Elements(h) : x \in Byte
    BY <2>2 DEF Elements
  <2> QED BY <2>1, <2>3
<1> HIDE DEF h
<1>5. Elements(h) \subseteq Left(rs)
  BY <1>3, <1>4 DEF Left
<1>6. Elements(t) \cap Elements(h) = {}
  BY <1>1, <1>4
<1>7. Behind(q) = Left(q) \cup Elements(h)
  BY DEF Behind, h
<1> QED BY <1>1, <1>5, <1>6, <1>7 DEF q, t

LEMMA OnceSendChunk ==
  ASSUME IInv, OnceOK, SendChunk
  PROVE  OnceOK'
<1> DEFINE r == ranges[1]
           want == r.stop - r.start + 1
           most == IF want > SystemBuf THEN SystemBuf ELSE want
           fb == FileBytes(r)
           p == Pending(buffer, start)
<1>0. Live /\ asked' = asked
  BY DEF SendChunk, Live
<1>1. PICK n \in 1..most :
        IF n = want THEN CompleteResponse(Tail(ranges), buffer, SubSeq(fb, 1, n))
        ELSE /\ ranges' = <<Advance(r, n)>> \o Tail(ranges)
             /\ wire' = wire \o SubSeq(fb, 1, n)
             /\ retval' = 1 /\ UNCHANGED <<status, buffer, start, slips>>
  BY Zenon DEF SendChunk
<1>2. /\ r \in ByteRange /\ r.start <= r.stop /\ Tail(ranges) \in Seq(ByteRange)
      /\ fb \in Seq(Byte) /\ wire \in Seq(Byte) /\ buffer \in Seq(Byte)
      /\ start \in 0..Len(buffer) /\ start \in Nat
  BY <1>0, Alive
<1>3. r.start \in Nat /\ r.stop \in Nat /\ ranges \in Seq(ByteRange) /\ ranges # <<>>
  BY <1>0, <1>2 DEF ByteRange, IInv, ListOK
<1>4. n \in 0..want
  BY <1>2, <1>3, Constants
<1>5. /\ SubSeq(fb, 1, n) \in Seq(Byte)
      /\ n = want => SubSeq(fb, 1, n) = fb
  BY <1>2, <1>4, Chunk
<1>6. p \in Seq(Byte)
  BY <1>2, PendingType
<1> SUFFICES ASSUME Apart(asked) PROVE OnceOK'
  BY <1>0 DEF OnceOK
<1>7. Unrepeated(wire, p, Left(ranges)) /\ Apart(ranges)
  BY <1>0 DEF OnceOK, Ahead
<1>8. CASE n = want
  <2>1. CompleteResponse(Tail(ranges), buffer, fb)
    BY <1>1, <1>5, <1>8
  <2>2. /\ Once(fb) /\ Elements(fb) \subseteq Left(ranges)
        /\ Behind(Tail(ranges)) \subseteq Left(ranges)
        /\ Elements(fb) \cap Behind(Tail(ranges)) = {} /\ Apart(Tail(ranges))
    BY <1>2, <1>3, <1>7, BehindFirst
  <2> HIDE DEF fb, p, r
  <2>3. Unrepeated(wire \o fb, p, Behind(Tail(ranges)))
    BY <1>2, <1>6, <1>7, <2>2, OnceSent
  <2> QED BY <1>0, <1>2, <2>1, <2>2, <2>3, OnceCompletes DEF p
<1>9. CASE n # want
  <2> DEFINE q == <<Advance(r, n)>> \o Tail(ranges)
             t == SubSeq(fb, 1, n)
  <2>1. ranges' = q /\ wire' = wire \o t /\ status' = status /\ buffer' = buffer /\ start' = start
    BY <1>1, <1>9
  <2>2. /\ Once(t) /\ Elements(t) \subseteq Left(ranges)
        /\ Left(q) \subseteq Left(ranges) /\ Elements(t) \cap Left(q) = {} /\ Apart(q)
    BY <1>2, <1>3, <1>4, <1>7, <1>9, LeftAdvances
  <2>3. t \in Seq(Byte)
    BY <1>5
  <2> HIDE DEF q, t, p
  <2>4. Unrepeated(wire \o t, p, Left(q))
    BY <1>2, <1>6, <1>7, <2>2, <2>3, OnceSent
  <2>5. Ahead' = Left(q)
    BY <1>0, <2>1 DEF Ahead, Live
  <2> QED BY <2>1, <2>2, <2>4, <2>5 DEF OnceOK, p
<1> QED BY <1>8, <1>9

LEMMA OnceInitGet ==
  ASSUME IInv, OnceOK, InitGet
  PROVE  OnceOK'
<1> DEFINE h == Span("header", HeaderLen)
           ph == IF multi THEN PartHeader(Len(asked)) ELSE <<>>
           head == h \o ph
           free == BufferSize - Len(head)
           r == ranges[1]
           want == r.stop - r.start + 1
           n == IF free > want THEN want ELSE free
           fb == FileBytes(r)
           chunk == SubSeq(fb, 1, n)
           filled == head \o chunk
<1>0. pc = "init" /\ asked' = asked
  BY DEF InitGet
<1>1. status = "WRITE" /\ ranges = asked /\ start = 0 /\ wire = <<>> /\ Live
  BY <1>0 DEF IInv, PlaceOK, Live
<1>2. /\ r \in ByteRange /\ r.start <= r.stop /\ Tail(ranges) \in Seq(ByteRange)
      /\ fb \in Seq(Byte) /\ Len(asked) \in Nat
  BY <1>1, Alive
<1>3. /\ r.start \in Nat /\ r.stop \in Nat /\ want \in Nat
      /\ ranges \in Seq(ByteRange) /\ ranges # <<>>
  BY <1>1, <1>2 DEF ByteRange, IInv, ListOK
<1>4. /\ h \in Seq(Byte) /\ Len(h) = HeaderLen
      /\ ph \in Seq(Byte) /\ Len(ph) \in 0..PartLen
  <2>1. ph \in Seq(Byte) /\ (Len(ph) = PartLen \/ Len(ph) = 0)
    BY <1>2, Texts, EmptySeq
  <2> QED BY <2>1, Texts, Constants
<1>5. head \in Seq(Byte) /\ Len(head) = HeaderLen + Len(ph)
  BY <1>4, Cat, Zenon
<1>6. n \in 0..want
  <2> DEFINE lp == Len(ph)
             lh == Len(head)
  <2>1. lp \in 0..PartLen /\ lh = HeaderLen + lp
    BY <1>4, <1>5, Zenon
  <2>2. free = BufferSize - lh /\ n = IF free > want THEN want ELSE free
    OBVIOUS
  <2>3. want \in Nat
    BY <1>3
  <2> HIDE DEF lp, lh, head, ph, want, n, free
  <2>4. free \in Nat
    BY <2>1, <2>2, Constants
  <2> QED BY <2>2, <2>3, <2>4
<1>7. chunk \in Seq(Byte) /\ (n = want => chunk = fb)
  <2> HIDE DEF n
  <2> QED BY <1>2, <1>6, Chunk
<1>8. IF ~mapped \/ free <= Spare
      THEN /\ status' = IF mapped THEN "WRITE" ELSE "IOSHUFFLE"
           /\ buffer' = head /\ retval' = 1
           /\ UNCHANGED <<ranges, start, wire, slips>>
      ELSE IF n = want THEN CompleteResponse(Tail(ranges), filled, <<>>)
      ELSE /\ ranges' = <<Advance(r, n)>> \o Tail(ranges)
           /\ buffer' = filled /\ retval' = 1
           /\ UNCHANGED <<status, start, wire, slips>>
  BY Zenon DEF InitGet
<1> SUFFICES ASSUME Apart(asked) PROVE OnceOK'
  BY <1>0 DEF OnceOK
\* The headers share nothing with each other or with what is left.
<1>9. Unrepeated(<<>>, head, Left(ranges))
  <2> DEFINE L == Left(ranges)
             L2 == Elements(ph) \cup L
             L1 == Elements(h) \cup L2
  <2>1. Once(<<>>) /\ Elements(<<>>) = {}
    BY DEF Once, Elements
  <2>2. Once(h) /\ \A x \in Elements(h) : x[1] = "header"
    BY TextsOnce
  <2>3. Once(ph) /\ \A x \in Elements(ph) : x[1] = "part" /\ x[2] = Len(ranges)
    BY <1>1, <1>2, <2>1, TextsOnce
  <2> HIDE DEF h, ph
  <2>4. Elements(ph) \cap L = {}
    BY <1>1, <1>2, <2>3 DEF Left
  <2>5. Elements(h) \cap L2 = {}
    BY <2>2, <2>3 DEF Left
  <2>6. <<>> \in Seq(Byte) /\ <<>> \o h = h
    BY <1>4, ConcatEmptySeq
  <2> HIDE DEF L
  <2>7. Unrepeated(<<>>, <<>>, L1)
    BY <2>1 DEF Unrepeated
  <2>8. Elements(h) \subseteq L1 /\ L2 \subseteq L1 /\ Elements(ph) \subseteq L2 /\ L \subseteq L2
    OBVIOUS
  <2> HIDE DEF L1, L2
  <2>9. Unrepeated(<<>>, <<>> \o h, L2)
    BY <1>4, <2>2, <2>5, <2>6, <2>7, <2>8, OnceSent
  <2>10. Unrepeated(<<>>, h, L2)
    BY <2>6, <2>9
  <2>11. Unrepeated(<<>>, h \o ph, L)
    BY <1>4, <2>3, <2>4, <2>6, <2>8, <2>10, OnceSent
  <2> QED BY <2>11 DEF L
<1> HIDE DEF head, free, n, chunk
<1>10. filled \in Seq(Byte) /\ Apart(ranges)
  BY <1>1, <1>5, <1>7, Cat
<1>11. \A s \in Seq(Byte) : Pending(s, 0) = s /\ 0 \in 0..Len(s)
  <2> TAKE s \in Seq(Byte)
  <2>1. Len(s) \in Nat /\ SubSeq(s, 1, Len(s)) = s
    BY LenProperties, SubSeqFull
  <2> QED BY <2>1 DEF Pending
<1>12. <<>> \in Seq(Byte) /\ <<>> \o <<>> = <<>>
  BY ConcatEmptySeq
<1>13. CASE ~mapped \/ free <= Spare
  <2>1. status' \in {"WRITE", "IOSHUFFLE"} /\ buffer' = head
        /\ ranges' = ranges /\ start' = start /\ wire' = wire
    BY <1>8, <1>13
  <2>2. Ahead' = Left(ranges)
    BY <2>1 DEF Ahead, Live
  <2>3. Pending(buffer', start') = head
    BY <1>1, <1>5, <1>11, <2>1
  <2> QED BY <1>1, <1>9, <1>10, <2>1, <2>2, <2>3 DEF OnceOK
<1>14. CASE ~(~mapped \/ free <= Spare) /\ n = want
  <2>1. CompleteResponse(Tail(ranges), filled, <<>>) /\ chunk = fb
    BY <1>7, <1>8, <1>14
  <2>2. /\ Once(fb) /\ Elements(fb) \subseteq Left(ranges)
        /\ Behind(Tail(ranges)) \subseteq Left(ranges)
        /\ Elements(fb) \cap Behind(Tail(ranges)) = {} /\ Apart(Tail(ranges))
    BY <1>2, <1>3, <1>10, BehindFirst
  <2> HIDE DEF fb, r, filled
  <2>3. Unrepeated(<<>>, head \o fb, Behind(Tail(ranges)))
    BY <1>2, <1>5, <1>9, <1>12, <2>2, OnceSent
  <2>4. filled = head \o fb
    BY <2>1 DEF filled
  <2>5. Unrepeated(wire \o <<>>, Pending(filled, start), Behind(Tail(ranges)))
    BY <1>1, <1>10, <1>11, <1>12, <2>3, <2>4
  <2>6. start \in 0..Len(filled) /\ wire \in Seq(Byte)
    BY <1>1, <1>10, <1>11, <1>12
  <2> QED BY <1>0, <1>1, <1>2, <1>10, <1>12, <2>1, <2>2, <2>5, <2>6, OnceCompletes
<1>15. CASE ~(~mapped \/ free <= Spare) /\ n # want
  <2> DEFINE q == <<Advance(r, n)>> \o Tail(ranges)
  <2>1. ranges' = q /\ buffer' = filled /\ status' = status /\ start' = start /\ wire' = wire
    BY <1>8, <1>15
  <2>2. /\ Once(chunk) /\ Elements(chunk) \subseteq Left(ranges)
        /\ Left(q) \subseteq Left(ranges) /\ Elements(chunk) \cap Left(q) = {} /\ Apart(q)
    BY <1>2, <1>3, <1>6, <1>10, <1>15, LeftAdvances DEF chunk
  <2> HIDE DEF q
  <2>3. Unrepeated(<<>>, head \o chunk, Left(q))
    BY <1>5, <1>7, <1>9, <1>12, <2>2, OnceSent
  <2>4. Ahead' = Left(q)
    BY <1>1, <2>1 DEF Ahead, Live
  <2>5. Pending(buffer', start') = filled /\ wire' = <<>>
    BY <1>1, <1>10, <1>11, <2>1
  <2> QED BY <2>1, <2>2, <2>3, <2>4, <2>5 DEF OnceOK
<1> QED BY <1>8, <1>13, <1>14, <1>15

LEMMA OnceNext ==
  ASSUME IInv, OnceOK, [Next]_vars
  PROVE  OnceOK'
<1>1. CASE InitGet
  BY <1>1, OnceInitGet
<1>2. CASE SendChunk
  BY <1>2, OnceSendChunk
<1>3. CASE (TopFlush \/ FreeRequest) /\ ~NothingToFlush
  <2>1. PICK f \in ReqFlush(buffer, start) :
          /\ buffer' = f.buffer /\ start' = f.start /\ wire' = wire \o f.sent
          /\ status' \in {"DEAD", "DONE", status}
    <3>1. CASE TopFlush
      BY <1>3, <3>1 DEF TopFlush
    <3>2. CASE FreeRequest
      BY <1>3, <3>2 DEF FreeRequest
    <3> QED BY <1>3, <3>1, <3>2
  <2>2. ranges' = ranges /\ asked' = asked
    BY <1>3 DEF TopFlush, FreeRequest
  <2>3. Live' => Live
    BY <2>1 DEF Live
  <2>4. status \notin {"DEAD", "TIMED_OUT"}
    BY <1>3 DEF NothingToFlush
  <2> QED BY <2>1, <2>2, <2>3, <2>4, OnceFlush
<1>4. CASE Done
  <2>1. PICK f \in ReqFlush(buffer, start) :
          /\ buffer' = f.buffer /\ start' = f.start /\ wire' = wire \o f.sent
          /\ status' \in {"DEAD", status}
    BY <1>4 DEF Done
  <2>2. ranges' = ranges /\ asked' = asked /\ status = "DONE"
    BY <1>4 DEF Done
  <2>3. Live' => Live
    BY <2>1 DEF Live
  <2> QED BY <2>1, <2>2, <2>3, OnceFlush
<1>5. CASE \/ (TopFlush \/ FreeRequest) /\ NothingToFlush
           \/ ChunkNotSent \/ KeepReady \/ BlockRequest \/ Wake \/ Freed \/ UNCHANGED vars
  <2>1. /\ wire' = wire /\ asked' = asked /\ ranges' = ranges /\ buffer' = buffer
        /\ start' = start /\ status' \in {status, "DEAD", "TIMED_OUT"}
    BY <1>5 DEF TopFlush, FreeRequest, ChunkNotSent, KeepReady, BlockRequest, Wake, Freed, vars
  <2>2. Live' => Live
    BY <2>1 DEF Live
  <2> QED BY <2>1, <2>2, OnceRest
<1>6. CASE Abandon
  <2>1. /\ wire' = wire /\ asked' = asked /\ ranges' = ranges /\ buffer' = <<>>
        /\ start' = start /\ status' = status
    BY <1>6 DEF Abandon
  <2>2. start \in Nat
    BY Constants DEF IInv, Typed, TypeOK
  <2>3. Pending(buffer', start') = <<>>
    BY <2>1, <2>2, NothingPending
  <2>4. Live' => Live
    BY <2>1 DEF Live
  <2> QED BY <2>1, <2>3, <2>4, OnceRest
<1> QED BY <1>1, <1>2, <1>3, <1>4, <1>5, <1>6 DEF Next

\* No byte of the response reaches the client twice, however flushes and direct
\* writes are cut and reordered, unless two of the ranges asked for share it.
THEOREM NoRepeats == Spec => []SentOnce
<1>1. Init => IInv /\ OnceOK
  <2> SUFFICES ASSUME Init PROVE OnceOK
    BY Initial
  <2>1. wire = <<>> /\ buffer = <<>> /\ start = 0 /\ ranges = asked
    BY DEF Init
  <2>2. Pending(buffer, start) = <<>>
    BY <2>1, NothingPending
  <2>3. Unrepeated(<<>>, <<>>, Ahead)
    BY DEF Unrepeated, Once, Elements
  <2> QED BY <2>1, <2>2, <2>3 DEF OnceOK
<1>2. IInv /\ OnceOK /\ [Next]_vars => OnceOK'
  BY OnceNext
<1>3. OnceOK => SentOnce
  BY DEF OnceOK, SentOnce, Unrepeated, Once
<1> QED BY <1>1, <1>2, <1>3, Invariance, PTL DEF Spec
=============================================================================
