------------------------- MODULE CgiPipeProofs -------------------------
(***************************************************************************)
(* Proofs about CgiPipe for every size of the buffer and of the client's   *)
(* socket and for every child: all the data stays in the buffer, and the   *)
(* client gets the server's header and the child's output in order and     *)
(* whole, short flushes and cuts apart.                                    *)
(***************************************************************************)
EXTENDS CgiPipe, SequenceTheorems, TLAPS

Byte == {<<tag, i>> : tag \in {"own", "page", "statusline", "child", "unclear"}, i \in Int}
Fields == {"status", "cgi_status", "header_line", "data", "buffer_start", "out", "client", "window"}
Statuses == {"PIPE_READ", "PIPE_WRITE", "DONE", "DEAD"}
CgiStatuses == {"CGI_PARSE", "CGI_BUFFER", "CGI_DONE"}

\* What is so at every moment, whatever the order of flushes and reads.
Inside(c) ==
  /\ c = [x \in Fields |-> c[x]]
  /\ c.status \in Statuses /\ c.cgi_status \in CgiStatuses
  /\ c.window \in 0..Window
  /\ c.header_line \in Nat /\ c.buffer_start \in Nat
  /\ c.data \in Seq(Byte) /\ c.out \in Seq(Byte) /\ c.client \in Seq(Byte)
  /\ HeaderEnd(c) <= BufferSize + 1 /\ BufferEnd(c) <= BufferSize
  /\ c.out = <<>> => c.buffer_start = 0
  /\ c.data = <<>> => c.header_line <= BufferSize

\* While the header is looked for, all that was read is in its half.
Parsing(c, g) ==
  /\ script.field # "index" /\ c.status = "PIPE_READ" /\ c.client = <<>> /\ c.out = <<>>
  /\ c.header_line = BufferSize \div 2 /\ c.data = Child(1, g) /\ ~HeaderFound(c)

Typed ==
  /\ script \in Scripts
  /\ got \in Nat /\ written \in Nat /\ got <= written /\ written <= script.len
  /\ closed \in BOOLEAN /\ turn \in {"top", "handle", "blocked", "over"}
  /\ Inside(req)
  /\ req.cgi_status = "CGI_PARSE" /\ req.status # "DEAD"
       => Parsing(req, got) /\ turn \in {"top", "blocked"}

\* What the client is to get once g bytes of the child's output were read: a
\* page, the headers only, or the output behind what leads it.
AtEof(g) == closed /\ g = written
Overlong ==
  \/ script.hlen > Half
  \/ /\ script.field # "location"
     /\ script.own + (IF script.head THEN script.hlen - 1 ELSE Half) > BufferSize
MoveDue(g) == script.field = "location" /\ ~script.http09 /\ g >= script.hlen
PageDue(g) ==
  \/ Overlong
  \/ script.field = "none"
  \/ script.field # "index" /\ g < script.hlen /\ AtEof(g)
  \/ script.field = "refused" /\ ~script.http09 /\ g >= script.hlen
  \/ MoveDue(g)
PageText(g) == IF MoveDue(g) THEN Moved(g) ELSE Page
Apart(g) == MoveDue(g) => RoomFor(g)
HeadDue(g) == script.field = "plain" /\ ~script.http09 /\ script.head /\ g >= script.hlen
Lead ==
  IF script.http09 THEN <<>>
  ELSE IF script.field = "status" THEN <<StatusLine>> ELSE Own
From == IF script.field # "index" /\ script.http09 THEN script.hlen ELSE 1
Streams(g) ==
  \/ script.field = "index"
  \/ /\ script.field \in {"plain", "status", "location", "refused"} /\ g >= script.hlen
     /\ script.http09 \/ script.field = "status" \/ (script.field = "plain" /\ ~script.head)

Paged(c, g) ==
  /\ PageDue(g) /\ c.client \o c.out = PageText(g)
  /\ Apart(g) => BufferEnd(c) <= c.header_line
Headed(c, g) == HeadDue(g) /\ c.client \o c.out = Own \o Child(1, script.hlen - 1) /\ c.data = <<>>
Streamed(c, g) ==
  /\ Streams(g) /\ c.status \in {"PIPE_READ", "PIPE_WRITE"}
  /\ (c.client \o c.out) \o c.data = Lead \o Child(From, g)
  /\ c.out = <<>> \/ c.data = <<>>
  /\ c.status = "PIPE_WRITE" /\ c.data = <<>> => AtEof(g)

\* The request has died, and the client has the beginning of what it was to get.
Cut(c, g) ==
  /\ c.out = <<>>
  /\ \/ c.client = <<>>
     \/ \E s \in Seq(Byte) : \/ PageDue(g) /\ c.client \o s = PageText(g)
                             \/ HeadDue(g) /\ c.client \o s = Own \o Child(1, script.hlen - 1)
                             \/ Streams(g) /\ c.client \o s = Lead \o Child(From, g)

\* Unless a handler ran behind a short flush, the parts of the response are in
\* their order: at the client, in the first part of the buffer, in the second.
Closing(c, t, sl) ==
  IF t = "over" THEN c.status # "DEAD" /\ (c.out = <<>> \/ "last" \in sl) ELSE c.status = "DONE"
Flows(c, g, t, sl) ==
  /\ t = "handle" => c.out = <<>>
  /\ \/ c.cgi_status = "CGI_PARSE" /\ c.status # "DEAD"
     \/ (Paged(c, g) \/ Headed(c, g)) /\ Closing(c, t, sl)
     \/ Streamed(c, g) /\ (t = "over" => c.out = <<>> /\ c.data = <<>> /\ AtEof(g))
     \/ c.status = "DEAD" /\ t = "over" /\ Cut(c, g)
InOrder == "short" \notin slips => Flows(req, got, turn, slips)

IInv == Typed /\ InOrder
-----------------------------------------------------------------------------
\* Sequences of bytes.
LEMMA Assoc ==
  ASSUME NEW S, NEW s \in Seq(S), NEW t \in Seq(S), NEW u \in Seq(S)
  PROVE  (s \o t) \o u = s \o (t \o u)
BY ConcatAssociative

LEMMA AssocBytes == \A s, t, u \in Seq(Byte) : (s \o t) \o u = s \o (t \o u)
BY Assoc

LEMMA Empty ==
  ASSUME NEW S, NEW s \in Seq(S)
  PROVE  s \o <<>> = s /\ <<>> \o s = s /\ <<>> \in Seq(S) /\ Len(s) \in Nat /\ (s = <<>> <=> Len(s) = 0)
OBVIOUS

LEMMA Cat ==
  ASSUME NEW S, NEW s \in Seq(S), NEW t \in Seq(S)
  PROVE  s \o t \in Seq(S) /\ Len(s \o t) = Len(s) + Len(t)
OBVIOUS

LEMMA Joined ==
  ASSUME NEW S, NEW s \in Seq(S), NEW t \in Seq(S)
  PROVE  \A i \in 1..(Len(s) + Len(t)) : (s \o t)[i] = IF i <= Len(s) THEN s[i] ELSE t[i - Len(s)]
OBVIOUS

\* A sequence divided behind its first n elements.
LEMMA Divided ==
  ASSUME NEW S, NEW s \in Seq(S), NEW n \in 0..Len(s)
  PROVE  /\ SubSeq(s, 1, n) \in Seq(S) /\ SubSeq(s, n + 1, Len(s)) \in Seq(S)
         /\ Len(SubSeq(s, 1, n)) = n /\ Len(SubSeq(s, n + 1, Len(s))) = Len(s) - n
         /\ SubSeq(s, 1, n) \o SubSeq(s, n + 1, Len(s)) = s
<1>1. 1 \in 1..(Len(s) + 1) /\ n \in (1 - 1)..Len(s) /\ Len(s) \in n..Len(s) /\ Len(s) \in Nat
  OBVIOUS
<1>2. SubSeq(s, 1, n) \o SubSeq(s, n + 1, Len(s)) = SubSeq(s, 1, Len(s))
  BY <1>1, ConcatAdjacentSubSeq, Zenon
<1>3. SubSeq(s, 1, Len(s)) = s
  BY SubSeqFull, Zenon
<1>4. SubSeq(s, 1, n) \in Seq(S) /\ Len(SubSeq(s, 1, n)) = n
  BY <1>1
<1>5. SubSeq(s, n + 1, Len(s)) \in Seq(S) /\ Len(SubSeq(s, n + 1, Len(s))) = Len(s) - n
  BY <1>1
<1> QED BY <1>2, <1>3, <1>4, <1>5, Zenon

LEMMA ChildTyped ==
  ASSUME NEW a \in Int, NEW b \in Int, a <= b + 1
  PROVE  /\ Child(a, b) \in Seq(Byte) /\ Len(Child(a, b)) = b - a + 1
         /\ \A i \in 1..(b - a + 1) : Child(a, b)[i] = <<"child", a + i - 1>>
<1> DEFINE n == b - a + 1
<1>1. n \in Nat /\ \A i \in 1..n : a + i - 1 \in Int
  OBVIOUS
<1>2. \A i \in 1..n : <<"child", a + i - 1>> \in Byte
  BY <1>1 DEF Byte
<1>3. Child(a, b) = [i \in 1..n |-> <<"child", a + i - 1>>]
  BY Zenon DEF Child
<1> HIDE DEF n
<1>4. Child(a, b) \in [1..n -> Byte]
  BY <1>2, <1>3, Zenon
<1>5. Child(a, b) \in Seq(Byte) /\ Len(Child(a, b)) = n
  BY <1>1, <1>4
<1>6. \A i \in 1..n : Child(a, b)[i] = <<"child", a + i - 1>>
  BY <1>3, Zenon
<1> QED BY <1>5, <1>6, Zenon DEF n

LEMMA ChildNone == \A a \in Int : Child(a, a - 1) = <<>>
<1> TAKE a \in Int
<1>1. a - 1 \in Int /\ a <= (a - 1) + 1 /\ (a - 1) - a + 1 = 0
  OBVIOUS
<1>2. Child(a, a - 1) \in Seq(Byte) /\ Len(Child(a, a - 1)) = 0
  BY <1>1, ChildTyped, Zenon
<1> QED BY <1>2

LEMMA ChildConcat ==
  ASSUME NEW a \in Int, NEW b \in Int, NEW c \in Int, a <= b + 1, b <= c
  PROVE  Child(a, b) \o Child(b + 1, c) = Child(a, c)
<1> DEFINE s == Child(a, b)
           t == Child(b + 1, c)
           u == Child(a, c)
           m == b - a + 1
           n == c - b
           k == c - a + 1
<1>1. m \in Nat /\ n \in Nat /\ k = m + n /\ b + 1 \in Int /\ b + 1 <= c + 1 /\ a <= c + 1 /\ k \in Nat
      /\ c - (b + 1) + 1 = n
  OBVIOUS
<1>2. /\ s \in Seq(Byte) /\ Len(s) = m /\ \A i \in 1..m : s[i] = <<"child", a + i - 1>>
      /\ u \in Seq(Byte) /\ Len(u) = k /\ \A i \in 1..k : u[i] = <<"child", a + i - 1>>
  BY <1>1, ChildTyped, Zenon
<1>3. t \in Seq(Byte) /\ Len(t) = n /\ \A i \in 1..n : t[i] = <<"child", (b + 1) + i - 1>>
  <2>1. /\ t \in Seq(Byte) /\ Len(t) = c - (b + 1) + 1
        /\ \A i \in 1..(c - (b + 1) + 1) : t[i] = <<"child", (b + 1) + i - 1>>
    BY <1>1, ChildTyped, Zenon
  <2> QED BY <1>1, <2>1, Zenon
<1>4. \A i \in 1..k : IF i <= m THEN i \in 1..m
                      ELSE i - m \in 1..n /\ (b + 1) + (i - m) - 1 = a + i - 1
  BY <1>1
<1> HIDE DEF s, t, u, m, n, k
<1>5. s \o t \in Seq(Byte) /\ Len(s \o t) = k
  BY <1>1, <1>2, <1>3, Cat, ZenonT(30)
<1>8. \A i \in 1..k : (s \o t)[i] = IF i <= m THEN s[i] ELSE t[i - m]
  <2>1. \A i \in 1..(Len(s) + Len(t)) : (s \o t)[i] = IF i <= Len(s) THEN s[i] ELSE t[i - Len(s)]
    BY <1>2, <1>3, Joined, Zenon
  <2>2. Len(s) + Len(t) = k
    BY <1>1, <1>2, <1>3
  <2> QED BY <1>2, <2>1, <2>2
<1>6. \A i \in 1..k : (s \o t)[i] = u[i]
  BY <1>2, <1>3, <1>4, <1>8, ZenonT(30)
<1>7. s \o t = u
  BY <1>1, <1>2, <1>5, <1>6, SeqEqual
<1> QED BY <1>7, Zenon DEF s, t, u

\* The first m bytes of the child's output, and what is behind them.
LEMMA ChildParts ==
  ASSUME NEW n \in Nat, NEW m \in 0..n
  PROVE  SubSeq(Child(1, n), 1, m) = Child(1, m) /\ SubSeq(Child(1, n), m + 1, n) = Child(m + 1, n)
<1> DEFINE s == Child(1, n)
           u == Child(1, m)
           v == Child(m + 1, n)
<1>1. 1 \in Int /\ m \in Int /\ n \in Int /\ 1 <= m + 1 /\ m <= n /\ 1 <= n + 1 /\ n - 1 + 1 = n /\ m - 1 + 1 = m
      /\ m + 1 \in Int /\ m + 1 <= n + 1 /\ n - (m + 1) + 1 = n - m
  OBVIOUS
<1>2. u \o v = s
  BY <1>1, ChildConcat, Zenon
<1>3. u \in Seq(Byte) /\ Len(u) = m /\ s \in Seq(Byte) /\ Len(s) = n /\ v \in Seq(Byte) /\ Len(v) = n - m
  BY <1>1, ChildTyped
<1> HIDE DEF s, u, v
<1>4. SubSeq(u \o v, 1, m) = u
  BY <1>3
<1>5. SubSeq(u \o v, m + 1, n) = v
  BY <1>3
<1> QED BY <1>2, <1>4, <1>5, Zenon DEF s, u, v

LEMMA Constants ==
  /\ BufferSize \in Nat /\ BufferSize >= 2 /\ Window \in Nat
  /\ BufferSize \div 2 \in Nat /\ 1 <= BufferSize \div 2 /\ BufferSize \div 2 <= BufferSize
  /\ PageLen \in Nat /\ 1 <= PageLen /\ PageLen <= BufferSize \div 2
<1>1. BufferSize \in Nat /\ BufferSize >= 2 /\ Window \in Nat /\ PageLen \in 1..(BufferSize \div 2)
  BY PipeAssumption
<1> QED BY <1>1

LEMMA ScriptTyped ==
  ASSUME script \in Scripts
  PROVE  /\ script.hlen \in Nat /\ script.len \in Nat /\ script.own \in Nat
         /\ script.field \in {"plain", "status", "location", "refused", "none", "index"}
         /\ script.more \in Nat /\ script.made \in Nat /\ script.made <= BufferSize
         /\ script.http09 \in BOOLEAN /\ script.head \in BOOLEAN
         /\ script.field = "index" => script.own <= BufferSize
         /\ script.field # "index" => script.hlen > 0
<1>1. script \in Script
  BY PipeAssumption
<1>2. IF script.field = "index" THEN script.own <= BufferSize ELSE script.hlen > 0
  BY PipeAssumption
<1>3. script.made <= BufferSize
  BY PipeAssumption
<1> QED BY <1>1, <1>2, <1>3 DEF Script

LEMMA TextsTyped ==
  ASSUME script \in Scripts
  PROVE  /\ Own \in Seq(Byte) /\ Len(Own) = script.own
         /\ Page \in Seq(Byte) /\ Len(Page) = PageLen
         /\ StatusLine \in Byte /\ Lead \in Seq(Byte)
<1>1. script.own \in Nat
  BY ScriptTyped
<1>2. \A i \in 1..script.own : <<"own", i>> \in Byte
  BY <1>1 DEF Byte
<1>3. Own \in [1..script.own -> Byte]
  BY <1>2, Zenon DEF Own
<1>4. Own \in Seq(Byte) /\ Len(Own) = script.own
  BY <1>1, <1>3
<1>5. <<"statusline", 1>> \in Byte
  BY DEF Byte
<1>8. \A i \in 1..PageLen : <<"page", i>> \in Byte
  BY Constants DEF Byte
<1>9. Page \in [1..PageLen -> Byte]
  BY <1>8, Zenon DEF Page
<1>10. Page \in Seq(Byte) /\ Len(Page) = PageLen
  BY <1>9, Constants
<1>6. \A b \in Byte : <<b>> \in Seq(Byte) /\ Len(<<b>>) = 1
  OBVIOUS
<1>7. <<>> \in Seq(Byte)
  OBVIOUS
<1> QED BY <1>4, <1>5, <1>6, <1>7, <1>10, Zenon DEF StatusLine, Lead

LEMMA ChildByte ==
  ASSUME NEW a \in Int, NEW b \in Int
  PROVE  Child(a, b) \in Seq(Byte)
<1>1. CASE a <= b + 1
  BY <1>1, ChildTyped, Zenon
<1>2. CASE ~(a <= b + 1)
  <2>1. 1..(b - a + 1) = 1..0 /\ \A i \in 1..0 : <<"child", a + i - 1>> \in Byte
    BY <1>2
  <2>2. Child(a, b) \in [1..0 -> Byte]
    BY <2>1, Zenon DEF Child
  <2> QED BY <2>2
<1> QED BY <1>1, <1>2, Zenon

\* A redirection, spoilt or not, fits in the buffer.
LEMMA MovedTyped ==
  ASSUME script \in Scripts, NEW g \in Nat
  PROVE  /\ Redirection(g) \in Seq(Byte) /\ Moved(g) \in Seq(Byte)
         /\ Len(Moved(g)) \in Nat /\ Len(Moved(g)) <= BufferSize
         /\ RoomFor(g) => Len(Moved(g)) <= BufferSize \div 2
<1>1. script.more \in Int /\ g \in Int /\ script.made \in Nat /\ script.made <= BufferSize
  BY ScriptTyped
<1>2. Redirection(g) \in Seq(Byte)
  <2>1. Own \in Seq(Byte) /\ Page \in Seq(Byte) /\ Child(script.more, g) \in Seq(Byte)
    BY <1>1, TextsTyped, ChildByte, Zenon
  <2>2. Own \o Child(script.more, g) \in Seq(Byte)
    BY <2>1, Cat, Zenon
  <2> QED BY <2>1, <2>2, Cat, Zenon DEF Redirection
<1>3. CASE RoomFor(g)
  <2>1. Moved(g) = Redirection(g)
    BY <1>3, Zenon DEF Moved
  <2>2. Len(Moved(g)) <= BufferSize \div 2 /\ Len(Moved(g)) \in Nat
    BY <1>2, <1>3, <2>1, Empty, Zenon DEF RoomFor
  <2>3. Len(Moved(g)) <= BufferSize
    BY <2>2, Constants
  <2> QED BY <1>2, <2>1, <2>2, <2>3, Zenon
<1>4. CASE ~RoomFor(g)
  <2>1. \A i \in 1..script.made : <<"unclear", i>> \in Byte
    BY <1>1 DEF Byte
  <2>2. Moved(g) \in [1..script.made -> Byte]
    BY <1>4, <2>1, Zenon DEF Moved
  <2>3. Moved(g) \in Seq(Byte) /\ Len(Moved(g)) = script.made
    BY <1>1, <2>2
  <2> QED BY <1>1, <1>2, <1>4, <2>3, Zenon
<1> QED BY <1>3, <1>4, Zenon

-----------------------------------------------------------------------------
\* write(2) takes no more than there is, and no more than the socket holds.
LEMMA SendsSome ==
  ASSUME NEW c, Inside(c), NEW s \in Seq(Byte)
  PROVE  /\ Sends(c, s) \in 0..Len(s) /\ c.window - Sends(c, s) \in 0..Window
         /\ c.window - Sends(c, s) <= c.window
         /\ Sends(c, s) = Len(s) \/ c.window - Sends(c, s) = 0
BY Constants, SMTT(30) DEF Inside, Sends, Least

\* req_flush moves bytes to the client and nothing else: order, state and the
\* child's data are kept, and the buffer's end does not move up.
LEMMA Flushed ==
  ASSUME NEW c, Inside(c)
  PROVE  /\ Inside(ReqFlush(c))
         /\ ReqFlush(c).client \o ReqFlush(c).out = c.client \o c.out
         /\ ReqFlush(c).status = c.status /\ ReqFlush(c).cgi_status = c.cgi_status
         /\ ReqFlush(c).data = c.data /\ ReqFlush(c).header_line = c.header_line
         /\ BufferEnd(ReqFlush(c)) <= BufferEnd(c)
<1> DEFINE n == Sends(c, c.out)
           a == SubSeq(c.out, 1, n)
           b == SubSeq(c.out, n + 1, Len(c.out))
           f == ReqFlush(c)
           z == IF n = Len(c.out) THEN 0 ELSE c.buffer_start + n
           w == c.window - n
           m == c.client \o a
<1>1. /\ c = [x \in Fields |-> c[x]] /\ c.out \in Seq(Byte) /\ c.client \in Seq(Byte)
      /\ c.buffer_start \in Nat /\ c.data \in Seq(Byte)
      /\ c.buffer_start + Len(c.out) <= BufferSize
  BY Zenon DEF Inside, BufferEnd
<1>2. n \in 0..Len(c.out) /\ w \in 0..Window
  BY <1>1, SendsSome, Zenon
<1>3. /\ a \in Seq(Byte) /\ b \in Seq(Byte) /\ Len(a) = n /\ Len(b) = Len(c.out) - n /\ a \o b = c.out
  BY <1>1, <1>2, Divided, Zenon
<1>4. f = [c EXCEPT !.client = m, !.window = w, !.out = b, !.buffer_start = z]
  BY DEF ReqFlush
<1> HIDE DEF n, a, b, f, z, w, m
<1>5. /\ f = [x \in Fields |-> f[x]]
      /\ f.client = m /\ f.window = w /\ f.out = b /\ f.buffer_start = z
      /\ f.status = c.status /\ f.cgi_status = c.cgi_status /\ f.data = c.data
      /\ f.header_line = c.header_line
  BY <1>1, <1>4 DEF Fields
<1>6. m \in Seq(Byte)
  BY <1>1, <1>3, Cat, Zenon DEF m
<1>7. m \o b = c.client \o c.out
  <2>1. (c.client \o a) \o b = c.client \o (a \o b)
    BY <1>1, <1>3, AssocBytes
  <2> QED BY <1>3, <2>1, Zenon DEF m
<1>8. Len(c.out) \in Nat /\ (b = <<>> <=> Len(b) = 0)
  BY <1>1, <1>3, Empty
<1>9. z \in Nat /\ z + Len(b) <= c.buffer_start + Len(c.out) /\ (b = <<>> => z = 0)
  BY <1>1, <1>2, <1>3, <1>8 DEF z
<1>10. BufferEnd(f) <= BufferEnd(c) /\ BufferEnd(f) <= BufferSize
  <2>1. Len(b) \in Nat /\ BufferEnd(f) = z + Len(b) /\ BufferEnd(c) = c.buffer_start + Len(c.out)
    BY <1>3, <1>5, Empty, Zenon DEF BufferEnd
  <2> QED BY <1>1, <1>8, <1>9, <2>1, Constants
<1>11. HeaderEnd(f) = HeaderEnd(c)
  BY <1>5, Zenon DEF HeaderEnd
<1>12. Inside(f)
  BY <1>1, <1>2, <1>3, <1>5, <1>6, <1>9, <1>10, <1>11, Zenon DEF Inside
<1> QED BY <1>5, <1>7, <1>10, <1>12, Zenon DEF f

\* The output still has its order when some of it was sent on.
LEMMA SentOn ==
  ASSUME NEW c \in Seq(Byte), NEW d \in Seq(Byte), NEW n \in 0..Len(d)
  PROVE  ((c \o SubSeq(d, 1, n)) \o <<>>) \o SubSeq(d, n + 1, Len(d)) = (c \o <<>>) \o d
<1> DEFINE a == SubSeq(d, 1, n)
           b == SubSeq(d, n + 1, Len(d))
<1>1. a \in Seq(Byte) /\ b \in Seq(Byte) /\ a \o b = d
  BY Divided, Zenon
<1> HIDE DEF a, b
<1>2. c \o a \in Seq(Byte) /\ (c \o a) \o b = c \o (a \o b)
  BY <1>1, Cat, AssocBytes, ZenonT(30)
<1>3. (c \o a) \o <<>> = c \o a /\ c \o <<>> = c
  BY <1>2, Empty, Zenon
<1> QED BY <1>1, <1>2, <1>3, Zenon DEF a, b

-----------------------------------------------------------------------------
\* What a handler gives: a request inside its buffer that has not died and, if
\* its header is still looked for, goes on.
Sound(r, g) ==
  /\ r.ret \in {0, 1, -1} /\ Inside(r.req) /\ r.req.status # "DEAD"
  /\ r.req.cgi_status = "CGI_PARSE" => Parsing(r.req, g) /\ r.ret # 0

\* And the parts of the response in their order.
Kept(r, g) ==
  \/ r.req.cgi_status = "CGI_PARSE"
  \/ (Paged(r.req, g) \/ Headed(r.req, g)) /\ (r.ret = 0 \/ r.req.status = "DONE")
  \/ Streamed(r.req, g) /\ (r.ret = 0 => r.req.out = <<>> /\ r.req.data = <<>> /\ AtEof(g))

\* A request that streams and has nothing in the first part of its buffer.
Flowing(c, g) == Streamed(c, g) /\ c.out = <<>>

LEMMA Results ==
  ASSUME NEW r, NEW c
  PROVE  Result(r, c).ret = r /\ Result(r, c).req = c
BY DEF Result

\* write_from_pipe.
LEMMA WritesOn ==
  ASSUME NEW c, NEW g, Inside(c), c.cgi_status # "CGI_PARSE", c.status \in {"PIPE_READ", "PIPE_WRITE"}
  PROVE  /\ Sound(WriteFromPipe(c), g)
         /\ Flowing(c, g) /\ (c.data = <<>> => c.status = "PIPE_WRITE") => Kept(WriteFromPipe(c), g)
<1> DEFINE n == Sends(c, c.data)
           a == SubSeq(c.data, 1, n)
           b == SubSeq(c.data, n + 1, Len(c.data))
           m == c.client \o a
           w == c.window - n
           h == c.header_line + n
           d == [c EXCEPT !.client = m, !.window = w, !.data = b, !.header_line = h]
           e == [c EXCEPT !.status = "PIPE_READ", !.data = <<>>, !.header_line = 0]
           f == [d EXCEPT !.status = "PIPE_READ", !.data = <<>>, !.header_line = 0]
<1>1. /\ c = [x \in Fields |-> c[x]] /\ c.out \in Seq(Byte) /\ c.client \in Seq(Byte)
      /\ c.buffer_start \in Nat /\ c.data \in Seq(Byte) /\ c.header_line \in Nat
      /\ c.header_line + Len(c.data) <= BufferSize + 1
      /\ c.cgi_status \in CgiStatuses
  BY Zenon DEF Inside, HeaderEnd
<1>2. n \in 0..Len(c.data) /\ w \in 0..Window
  BY <1>1, SendsSome, Zenon
<1>3. /\ a \in Seq(Byte) /\ b \in Seq(Byte) /\ Len(a) = n /\ Len(b) = Len(c.data) - n
  BY <1>1, <1>2, Divided, Zenon
<1>4. ((c.client \o a) \o <<>>) \o b = (c.client \o <<>>) \o c.data
  BY <1>1, <1>2, SentOn, Zenon
<1>5. /\ c.data = <<>> /\ c.cgi_status = "CGI_DONE" => WriteFromPipe(c) = Result(0, c)
      /\ c.data = <<>> /\ c.cgi_status # "CGI_DONE" => WriteFromPipe(c) = Result(1, e)
      /\ c.data # <<>> /\ c.window = 0 => WriteFromPipe(c) = Result(-1, c)
      /\ c.data # <<>> /\ c.window # 0 /\ d.data = <<>> => WriteFromPipe(c) = Result(1, f)
      /\ c.data # <<>> /\ c.window # 0 /\ d.data # <<>> => WriteFromPipe(c) = Result(1, d)
  BY DEF WriteFromPipe, Unsent, Emptied
<1> HIDE DEF n, a, b, w, h, d, e, f, m
<1>6. m \in Seq(Byte)
  BY <1>1, <1>3, Cat, Zenon DEF m
<1>7. /\ d = [x \in Fields |-> d[x]]
      /\ d.client = m /\ d.window = w /\ d.data = b /\ d.header_line = h
      /\ d.status = c.status /\ d.cgi_status = c.cgi_status /\ d.out = c.out
      /\ d.buffer_start = c.buffer_start
  BY <1>1 DEF d, Fields
<1>8. /\ e = [x \in Fields |-> e[x]]
      /\ e.client = c.client /\ e.window = c.window /\ e.data = <<>> /\ e.header_line = 0
      /\ e.status = "PIPE_READ" /\ e.cgi_status = c.cgi_status /\ e.out = c.out
      /\ e.buffer_start = c.buffer_start
  BY <1>1 DEF e, Fields
<1>9. /\ f = [x \in Fields |-> f[x]]
      /\ f.client = m /\ f.window = w /\ f.data = <<>> /\ f.header_line = 0
      /\ f.status = "PIPE_READ" /\ f.cgi_status = c.cgi_status /\ f.out = c.out
      /\ f.buffer_start = c.buffer_start
  BY <1>7 DEF f, Fields
<1>10. Len(c.data) \in Nat /\ (c.data = <<>> <=> Len(c.data) = 0) /\ (b = <<>> <=> Len(b) = 0)
       /\ <<>> \in Seq(Byte) /\ Len(<<>>) = 0
  BY <1>1, <1>3, Empty
<1>11. h \in Nat /\ h + Len(b) = c.header_line + Len(c.data)
  BY <1>1, <1>2, <1>3, <1>10 DEF h
<1>12. 0 \in Nat /\ 0 + Len(<<>>) <= BufferSize + 1 /\ 0 <= BufferSize
  BY <1>10, Constants
<1>13. /\ BufferEnd(d) = BufferEnd(c) /\ BufferEnd(e) = BufferEnd(c) /\ BufferEnd(f) = BufferEnd(c)
       /\ HeaderEnd(d) = HeaderEnd(c)
       /\ HeaderEnd(e) <= BufferSize + 1 /\ HeaderEnd(f) <= BufferSize + 1
  BY <1>7, <1>8, <1>9, <1>11, <1>12, Zenon DEF BufferEnd, HeaderEnd
<1>14. "PIPE_READ" \in Statuses /\ "PIPE_READ" # "DEAD" /\ "PIPE_WRITE" # "DEAD"
  BY DEF Statuses
<1>15. Inside(e) /\ Inside(f)
  BY <1>2, <1>6, <1>8, <1>9, <1>10, <1>12, <1>13, <1>14, Zenon DEF Inside
<1>16. d.data # <<>> => Inside(d)
  BY <1>2, <1>3, <1>6, <1>7, <1>11, <1>13, Zenon DEF Inside
<1> DEFINE r == WriteFromPipe(c)
<1>20. \/ r = Result(0, c) /\ c.data = <<>>
       \/ r = Result(-1, c)
       \/ r = Result(1, e) /\ c.data = <<>>
       \/ r = Result(1, f) /\ b = <<>>
       \/ r = Result(1, d) /\ b # <<>>
  BY <1>5, <1>7, Zenon
<1> HIDE DEF r
<1>19. \/ r.req = c /\ r.ret = 0 /\ c.data = <<>>
       \/ r.req = c /\ r.ret = -1
       \/ r.req = e /\ r.ret = 1 /\ c.data = <<>>
       \/ r.req = f /\ r.ret = 1 /\ b = <<>>
       \/ r.req = d /\ r.ret = 1 /\ b # <<>>
  <2>1. /\ Result(0, c).ret = 0 /\ Result(0, c).req = c
        /\ Result(-1, c).ret = -1 /\ Result(-1, c).req = c
        /\ Result(1, e).ret = 1 /\ Result(1, e).req = e
        /\ Result(1, f).ret = 1 /\ Result(1, f).req = f
        /\ Result(1, d).ret = 1 /\ Result(1, d).req = d
    BY DEF Result
  <2> QED BY <1>20, <2>1
<1>17. Sound(r, g)
  <2>1. /\ r.ret \in {0, 1, -1}
        /\ \/ r.req = c
           \/ r.req = e
           \/ r.req = f
           \/ r.req = d /\ d.data # <<>>
    BY <1>7, <1>19, Zenon
  <2>2. Inside(r.req)
    BY <1>15, <1>16, <2>1, Zenon
  <2>3. r.req.status # "DEAD" /\ r.req.cgi_status # "CGI_PARSE"
    BY <1>7, <1>8, <1>9, <1>14, <2>1, Zenon
  <2> QED BY <2>1, <2>2, <2>3, Zenon DEF Sound
<1>18. ASSUME Flowing(c, g), c.data = <<>> => c.status = "PIPE_WRITE"
       PROVE  Kept(r, g)
  <2> USE <1>18
  <2>1. /\ Streams(g) /\ c.out = <<>> /\ (c.client \o <<>>) \o c.data = Lead \o Child(From, g)
        /\ c.data = <<>> => AtEof(g)
    BY Zenon DEF Flowing, Streamed
  <2>2. Streamed(c, g)
    BY Zenon DEF Flowing
  <2>3. c.data = <<>> => Streamed(e, g)
    BY <1>8, <1>14, <2>1 DEF Streamed
  <2>4. ((m \o <<>>) \o b) = Lead \o Child(From, g)
    BY <1>4, <2>1, Zenon DEF m
  <2>5. b = <<>> => Streamed(f, g)
    BY <1>9, <2>1, <2>4 DEF Streamed
  <2>6. b # <<>> => Streamed(d, g)
    BY <1>7, <2>1, <2>4 DEF Streamed
  <2>8. -1 # 0 /\ 1 # 0
    OBVIOUS
  <2>9. Streamed(r.req, g) /\ (r.ret = 0 => r.req.out = <<>> /\ r.req.data = <<>> /\ AtEof(g))
    BY <1>19, <2>1, <2>2, <2>3, <2>5, <2>6, <2>8, Zenon
  <2> QED BY <2>9, Zenon DEF Kept
<1> QED BY <1>17, <1>18, Zenon DEF r

\* A text written to an empty buffer is all there is on its way.
Put(c, s) == [c EXCEPT !.out = s]

LEMMA TextPut ==
  ASSUME NEW c, Inside(c), c.client = <<>>, c.out = <<>>, NEW s \in Seq(Byte), Len(s) <= BufferSize
  PROVE  /\ Inside(Put(c, s)) /\ Put(c, s).client \o Put(c, s).out = s /\ BufferEnd(Put(c, s)) = Len(s)
         /\ Put(c, s).status = c.status /\ Put(c, s).cgi_status = c.cgi_status
         /\ Put(c, s).data = c.data /\ Put(c, s).header_line = c.header_line
<1> DEFINE d == Put(c, s)
<1>2. c = [x \in Fields |-> c[x]] /\ c.buffer_start = 0
  BY Zenon DEF Inside
<1>3. <<>> \o s = s /\ Len(s) \in Nat /\ 0 + Len(s) = Len(s)
  BY Empty
<1>6. /\ d = [x \in Fields |-> d[x]] /\ d.out = s /\ d.client = <<>> /\ d.buffer_start = 0
      /\ d.status = c.status /\ d.cgi_status = c.cgi_status /\ d.data = c.data
      /\ d.header_line = c.header_line /\ d.window = c.window
  BY <1>2 DEF Fields, Put
<1> HIDE DEF d
<1>7. BufferEnd(d) = Len(s)
  BY <1>3, <1>6, Zenon DEF BufferEnd
<1>8. HeaderEnd(d) = HeaderEnd(c)
  BY <1>6, Zenon DEF HeaderEnd
<1>9. Inside(d)
  BY <1>2, <1>6, <1>7, <1>8, Zenon DEF Inside
<1> QED BY <1>3, <1>6, <1>7, <1>9, Zenon DEF d

LEMMA PageSent ==
  ASSUME script \in Scripts, NEW c, Inside(c), c.client = <<>>, c.out = <<>>,
         c.header_line = BufferSize \div 2
  PROVE  /\ Inside(SendPage(c)) /\ SendPage(c).client \o SendPage(c).out = Page
         /\ SendPage(c).status = c.status /\ SendPage(c).cgi_status = c.cgi_status
         /\ SendPage(c).data = c.data /\ SendPage(c).header_line = c.header_line
         /\ BufferEnd(SendPage(c)) <= SendPage(c).header_line
<1> DEFINE d == Put(c, Page)
           p == SendPage(c)
<1>1. Page \in Seq(Byte) /\ Len(Page) = PageLen /\ <<>> \o Page = Page
  BY TextsTyped, Empty
<1>2. PageLen \in Nat /\ PageLen <= BufferSize /\ PageLen <= BufferSize \div 2 /\ BufferSize \div 2 \in Nat
  BY Constants
<1>4. BufferEnd(c) + Len(Page) = PageLen /\ ~(PageLen > BufferSize)
  <2>1. c.buffer_start = 0
    BY Zenon DEF Inside
  <2> QED BY <1>1, <1>2, <2>1, Constants DEF BufferEnd
<1>5. ReqWrite(c, Page) = d
  BY <1>1, <1>4, Zenon DEF ReqWrite, Put
<1>10. p = ReqFlush(d)
  BY <1>5, Zenon DEF SendPage
<1>6. /\ Inside(d) /\ d.client \o d.out = Page /\ BufferEnd(d) = PageLen
      /\ d.status = c.status /\ d.cgi_status = c.cgi_status
      /\ d.data = c.data /\ d.header_line = c.header_line
  BY <1>1, <1>2, TextPut, Zenon
<1> HIDE DEF p, d
<1>11. /\ Inside(p) /\ p.client \o p.out = d.client \o d.out
       /\ p.status = d.status /\ p.cgi_status = d.cgi_status
       /\ p.data = d.data /\ p.header_line = d.header_line
       /\ BufferEnd(p) <= BufferEnd(d)
  BY <1>6, <1>10, Flushed, Zenon
<1>13. BufferEnd(p) \in Int
  <2>1. p.out \in Seq(Byte) /\ p.buffer_start \in Nat
    BY <1>11, Zenon DEF Inside
  <2> QED BY <2>1, Empty DEF BufferEnd
<1>14. BufferEnd(p) <= p.header_line
  BY <1>2, <1>6, <1>11, <1>13
<1> QED BY <1>6, <1>11, <1>14, Zenon DEF p

\* The request process_cgi_header works on.
Marked(c) == IF c.cgi_status # "CGI_DONE" THEN [c EXCEPT !.cgi_status = "CGI_BUFFER"] ELSE c

LEMMA MarkedKeeps ==
  ASSUME NEW c, Inside(c)
  PROVE  /\ Inside(Marked(c)) /\ Marked(c).cgi_status # "CGI_PARSE"
         /\ Marked(c).status = c.status /\ Marked(c).header_line = c.header_line
         /\ Marked(c).data = c.data /\ Marked(c).out = c.out /\ Marked(c).client = c.client
         /\ HeaderFound(Marked(c)) <=> HeaderFound(c)
<1> DEFINE d == Marked(c)
<1>1. c = [x \in Fields |-> c[x]]
  BY Zenon DEF Inside
<1>2. d = c \/ d = [c EXCEPT !.cgi_status = "CGI_BUFFER"]
  BY Zenon DEF Marked
<1>3. d.cgi_status \in {"CGI_BUFFER", "CGI_DONE"}
  BY <1>1 DEF Marked, Fields
<1> HIDE DEF d
<1>4. /\ d = [x \in Fields |-> d[x]]
      /\ d.status = c.status /\ d.header_line = c.header_line
      /\ d.data = c.data /\ d.out = c.out /\ d.client = c.client
      /\ d.buffer_start = c.buffer_start /\ d.window = c.window
  BY <1>1, <1>2 DEF Fields
<1>5. HeaderEnd(d) = HeaderEnd(c) /\ BufferEnd(d) = BufferEnd(c)
  BY <1>4, Zenon DEF HeaderEnd, BufferEnd
<1>6. Inside(d)
  BY <1>3, <1>4, <1>5, Zenon DEF Inside, CgiStatuses
<1>7. HeaderFound(d) <=> HeaderFound(c)
  BY <1>4, Zenon DEF HeaderFound
<1> QED BY <1>3, <1>4, <1>6, <1>7 DEF d

LEMMA Processed ==
  ASSUME NEW c
  PROVE  /\ ~HeaderFound(Marked(c)) => ProcessCgiHeader(c) = Result(0, SendPage(Marked(c)))
         /\ HeaderFound(Marked(c)) =>
              ProcessCgiHeader(c) =
                IF script.http09
                THEN Result(1, [Marked(c) EXCEPT !.header_line = @ + script.hlen - 1,
                                                 !.data = SubSeq(@, script.hlen, Len(@))])
                ELSE IF script.field = "status"
                THEN Result(1, [Marked(c) EXCEPT !.header_line = @ - 1, !.data = <<StatusLine>> \o @])
                ELSE IF script.field = "refused"
                THEN Result(1, [SendPage(Marked(c)) EXCEPT !.status = "DONE"])
                ELSE IF script.field = "location" THEN Result(1, SendMoved(Marked(c)))
                ELSE Merge(Marked(c))
BY Zenon DEF ProcessCgiHeader, Marked

\* A request whose header is being looked at: all that was read is in its half.
Fresh(c, g) ==
  /\ script \in Scripts /\ script.field # "index" /\ g \in Nat
  /\ Inside(c) /\ c.status \in {"PIPE_READ", "PIPE_WRITE"}
  /\ c.client = <<>> /\ c.out = <<>> /\ c.header_line = BufferSize \div 2 /\ c.data = Child(1, g)

LEMMA FreshMarked ==
  ASSUME NEW c, NEW g, Fresh(c, g)
  PROVE  Fresh(Marked(c), g) /\ Marked(c).cgi_status # "CGI_PARSE"
BY MarkedKeeps, Zenon DEF Fresh

LEMMA FreshPage ==
  ASSUME NEW c, NEW g, Fresh(c, g)
  PROVE  /\ Inside(SendPage(c)) /\ SendPage(c).client \o SendPage(c).out = Page
         /\ SendPage(c).status = c.status /\ SendPage(c).cgi_status = c.cgi_status
         /\ SendPage(c).data = c.data /\ SendPage(c).header_line = c.header_line
         /\ BufferEnd(SendPage(c)) <= SendPage(c).header_line
<1>1. script \in Scripts /\ Inside(c) /\ c.client = <<>> /\ c.out = <<>> /\ c.header_line = BufferSize \div 2
  BY Zenon DEF Fresh
<1> QED BY <1>1, PageSent, Zenon

LEMMA FreshData ==
  ASSUME NEW c, NEW g, Fresh(c, g)
  PROVE  g \in Nat /\ Len(c.data) = g /\ c.data \in Seq(Byte)
<1>1. g \in Nat /\ c.data = Child(1, g)
  BY Zenon DEF Fresh
<1>2. 1 \in Int /\ g \in Int /\ 1 <= g + 1 /\ g - 1 + 1 = g
  BY <1>1
<1> QED BY <1>1, <1>2, ChildTyped, Zenon

\* No header: a page.
LEMMA HeaderMissing ==
  ASSUME NEW c, NEW g, Fresh(c, g), ~HeaderFound(c), PageDue(g)
  PROVE  Sound(ProcessCgiHeader(c), g) /\ Kept(ProcessCgiHeader(c), g)
<1> DEFINE m == Marked(c)
           p == SendPage(m)
           r == ProcessCgiHeader(c)
<1>1. Inside(c)
  BY Zenon DEF Fresh
<1>2. Fresh(m, g) /\ m.cgi_status # "CGI_PARSE" /\ ~HeaderFound(m)
  BY <1>1, FreshMarked, MarkedKeeps, Zenon
<1>3. r = Result(0, p)
  BY <1>2, Processed, Zenon
<1> HIDE DEF m, r
<1>4. /\ Inside(p) /\ p.client \o p.out = Page /\ p.status = m.status /\ p.cgi_status = m.cgi_status
      /\ BufferEnd(p) <= p.header_line
  BY <1>2, FreshPage, Zenon
<1> HIDE DEF p
<1>5. r.ret = 0 /\ r.req = p
  BY <1>3 DEF Result
<1>6. m.status # "DEAD"
  BY <1>2 DEF Fresh
<1>7. Sound(r, g)
  BY <1>2, <1>4, <1>5, <1>6, Zenon DEF Sound
<1>8. PageText(g) = Page
  <2>1. script \in Scripts /\ Len(m.data) = g /\ "location" \notin {"none", "index"}
    BY <1>2, FreshData, Zenon DEF Fresh
  <2>2. ~MoveDue(g)
    BY <1>2, <2>1, Zenon DEF MoveDue, HeaderFound
  <2> QED BY <2>2, Zenon DEF PageText
<1>9. Kept(r, g)
  BY <1>4, <1>5, <1>8, Zenon DEF Kept, Paged
<1> QED BY <1>7, <1>9, Zenon DEF r

\* The child's output behind the server's header, or the headers only.
LEMMA Merges ==
  ASSUME NEW c, NEW g, Fresh(c, g), c.cgi_status # "CGI_PARSE", c.status = "PIPE_READ",
         script.field = "plain", ~script.http09, g >= script.hlen
  PROVE  Sound(Merge(c), g) /\ Kept(Merge(c), g)
<1> DEFINE k == IF script.head THEN script.hlen - 1 ELSE g
           kept == IF script.head THEN SubSeq(c.data, 1, script.hlen - 1) ELSE c.data
           both == Own \o kept
           d == [c EXCEPT !.cgi_status = IF script.head THEN "CGI_DONE" ELSE @]
           n == Len(both)
           e == [d EXCEPT !.out = both, !.data = <<>>, !.header_line = n]
           f == ReqFlush(e)
           r == Merge(c)
           p == SendPage(d)
<1>1. /\ script \in Scripts /\ Inside(c) /\ c.client = <<>> /\ c.out = <<>>
      /\ c = [x \in Fields |-> c[x]] /\ c.buffer_start = 0 /\ c.data = Child(1, g)
      /\ c.header_line = BufferSize \div 2 /\ c.data \in Seq(Byte)
  BY Zenon DEF Fresh, Inside
<1>2. g \in Nat /\ Len(c.data) = g
  BY FreshData, Zenon
<1>3. /\ script.hlen \in Nat /\ script.hlen > 0 /\ script.head \in BOOLEAN /\ script.own \in Nat
      /\ Own \in Seq(Byte) /\ Len(Own) = script.own
  BY <1>1, ScriptTyped, TextsTyped
<1>4. script.hlen - 1 \in 0..g /\ k \in Nat /\ k \in Int /\ 1 <= k + 1 /\ k - 1 + 1 = k /\ g \in 0..g
  BY <1>2, <1>3
<1>5. kept = Child(1, k)
  <2>1. SubSeq(Child(1, g), 1, script.hlen - 1) = Child(1, script.hlen - 1)
    BY <1>2, <1>4, ChildParts, Zenon
  <2> QED BY <1>1, <2>1, Zenon
<1>6. kept \in Seq(Byte) /\ Len(kept) = k
  <2> HIDE DEF k, kept
  <2>1. 1 \in Int
    OBVIOUS
  <2>2. Child(1, k) \in Seq(Byte) /\ Len(Child(1, k)) = k - 1 + 1
    BY <1>4, <2>1, ChildTyped, Zenon
  <2> QED BY <1>4, <1>5, <2>2, Zenon
<1> HIDE DEF k
<1>7. r = IF BufferEnd(c) + Len(both) > BufferSize
          THEN Result(0, SendPage([d EXCEPT !.out = <<>>, !.buffer_start = 0]))
          ELSE Result(IF script.head THEN 0 ELSE 1,
                      ReqFlush([d EXCEPT !.out = @ \o both, !.data = <<>>,
                                         !.header_line = BufferEnd(c) + Len(both)]))
  BY Zenon DEF Merge, Merged
<1> HIDE DEF kept, r
<1>8. both \in Seq(Byte) /\ n = script.own + k /\ n \in Nat
  BY <1>3, <1>4, <1>6, Cat
<1> HIDE DEF both
<1>9. BufferEnd(c) + Len(both) = n /\ <<>> \o both = both
  <2>1. BufferEnd(c) = 0
    BY <1>1 DEF BufferEnd
  <2>2. <<>> \o both = both
    BY <1>8, Empty
  <2> QED BY <1>8, <2>1, <2>2
<1>10. /\ d = [x \in Fields |-> d[x]] /\ d.out = <<>> /\ d.client = <<>> /\ d.buffer_start = 0
       /\ d.cgi_status \in {c.cgi_status, "CGI_DONE"} /\ d.status = "PIPE_READ"
       /\ d.header_line = c.header_line /\ d.data = c.data /\ d.window = c.window
  BY <1>1 DEF Fields
<1> HIDE DEF d, n
<1>11. /\ [d EXCEPT !.out = <<>>, !.buffer_start = 0] = d
       /\ [d EXCEPT !.out = @ \o both, !.data = <<>>, !.header_line = n] = e
  <2>1. [d EXCEPT !.out = <<>>, !.buffer_start = 0] = d
    BY <1>10 DEF Fields
  <2>2. [d EXCEPT !.out = @ \o both, !.data = <<>>, !.header_line = n] = e
    BY <1>9, <1>10, Zenon
  <2> QED BY <2>1, <2>2, Zenon
<1>12. r = IF n > BufferSize THEN Result(0, p) ELSE Result(IF script.head THEN 0 ELSE 1, f)
  BY <1>7, <1>9, <1>11, Zenon
<1>13. d.cgi_status \in CgiStatuses /\ d.cgi_status # "CGI_PARSE"
  BY <1>1, <1>10 DEF Inside, CgiStatuses
<1>14. Inside(d)
  <2>1. HeaderEnd(d) = HeaderEnd(c) /\ BufferEnd(d) = BufferEnd(c)
    BY <1>1, <1>10, Zenon DEF HeaderEnd, BufferEnd
  <2>2. "PIPE_READ" \in Statuses
    BY DEF Statuses
  <2> QED BY <1>1, <1>10, <1>13, <2>1, <2>2, Zenon DEF Inside
<1> HIDE DEF p
<1>15. CASE n > BufferSize
  <2>1. r.ret = 0 /\ r.req = p
    BY <1>12, <1>15 DEF Result
  <2>2. Fresh(d, g)
    BY <1>10, <1>14, Zenon DEF Fresh
  <2>3. /\ Inside(p) /\ p.client \o p.out = Page /\ p.status = "PIPE_READ"
        /\ p.cgi_status = d.cgi_status /\ BufferEnd(p) <= p.header_line
    BY <1>10, <2>2, FreshPage, Zenon DEF p
  <2>4. Overlong
    <3>1. g <= Half
      <4>1. HeaderEnd(c) <= BufferSize + 1 /\ HeaderEnd(c) = BufferSize \div 2 + g
        BY <1>1, <1>2, Zenon DEF Inside, HeaderEnd
      <4> QED BY <1>2, <4>1, Constants DEF Half
    <3>2. Half \in Int
      BY Constants DEF Half
    <3> QED BY <1>2, <1>3, <1>8, <1>15, <3>1, <3>2, Constants DEF Overlong, k
  <2>7. PageText(g) = Page
    BY "plain" # "location" DEF PageText, MoveDue
  <2>5. Kept(r, g)
    BY <2>1, <2>3, <2>4, <2>7, Zenon DEF Kept, Paged, PageDue
  <2>6. Sound(r, g)
    BY <1>13, <2>1, <2>3 DEF Sound
  <2> QED BY <2>5, <2>6, Zenon DEF r
<1>16. CASE ~(n > BufferSize)
  <2>1. r.ret = (IF script.head THEN 0 ELSE 1) /\ r.req = f
    BY <1>12, <1>16 DEF Result
  <2>2. /\ e = [x \in Fields |-> e[x]] /\ e.out = both /\ e.client = <<>> /\ e.buffer_start = 0
        /\ e.cgi_status = d.cgi_status /\ e.status = "PIPE_READ"
        /\ e.header_line = n /\ e.data = <<>> /\ e.window = c.window
    BY <1>10 DEF Fields
  <2> HIDE DEF e
  <2>3. n <= BufferSize /\ n + 0 <= BufferSize + 1 /\ 0 + n <= BufferSize /\ 0 \in Nat
    BY <1>8, <1>16, Constants
  <2>4. HeaderEnd(e) = n + 0 /\ BufferEnd(e) = 0 + n
    BY <1>8, <2>2 DEF HeaderEnd, BufferEnd, n
  <2>5. Inside(e)
    <3>1. "PIPE_READ" \in Statuses /\ <<>> \in Seq(Byte)
      BY DEF Statuses
    <3>2. HeaderEnd(e) <= BufferSize + 1 /\ BufferEnd(e) <= BufferSize
      BY <2>3, <2>4, Zenon
    <3>3. c.window \in 0..Window
      BY <1>1, Zenon DEF Inside
    <3> QED BY <1>8, <1>13, <2>2, <2>3, <3>1, <3>2, <3>3, Zenon DEF Inside
  <2>6. /\ Inside(f) /\ f.client \o f.out = e.client \o e.out /\ f.status = "PIPE_READ"
        /\ f.cgi_status = d.cgi_status /\ f.data = <<>>
    BY <2>2, <2>5, Flushed, Zenon
  <2>7. f.client \o f.out = Own \o Child(1, k)
    BY <1>5, <1>9, <2>2, <2>6, Zenon DEF both
  <2> HIDE DEF f
  <2>8. Sound(r, g)
    BY <1>13, <2>1, <2>6 DEF Sound
  <2>9. CASE script.head
    <3>1. Headed(f, g)
      BY <2>6, <2>7, <2>9, Zenon DEF Headed, HeadDue, k
    <3> QED BY <2>1, <2>8, <2>9, <3>1, Zenon DEF Kept, r
  <2>10. CASE ~script.head
    <3>1. Lead = Own /\ From = 1 /\ Streams(g)
      BY <2>10 DEF Lead, From, Streams
    <3>2. (f.client \o f.out) \o f.data = Lead \o Child(From, g)
      <4>1. f.client \o f.out = Lead \o Child(From, g)
        BY <2>7, <2>10, <3>1, Zenon DEF k
      <4>2. f.client \o f.out \in Seq(Byte)
        BY <2>6, Cat, Zenon DEF Inside
      <4> QED BY <2>6, <4>1, <4>2, Empty, Zenon
    <3>3. "PIPE_READ" # "PIPE_WRITE" /\ 1 # 0
      OBVIOUS
    <3>4. Streamed(f, g)
      BY <2>6, <3>1, <3>2, <3>3, Zenon DEF Streamed
    <3> QED BY <2>1, <2>8, <2>10, <3>3, <3>4, Zenon DEF Kept, r
  <2> QED BY <2>9, <2>10, Zenon
<1> QED BY <1>15, <1>16, Zenon

\* The header has come: process_cgi_header in each of its ways.
LEMMA HeaderRead ==
  ASSUME NEW c, NEW g, Fresh(c, g), c.status = "PIPE_READ", HeaderFound(c)
  PROVE  Sound(ProcessCgiHeader(c), g) /\ Kept(ProcessCgiHeader(c), g)
<1> DEFINE m == Marked(c)
           r == ProcessCgiHeader(c)
           h == script.hlen
<1>1. Inside(c)
  BY Zenon DEF Fresh
<1>2. /\ Fresh(m, g) /\ m.cgi_status # "CGI_PARSE" /\ HeaderFound(m) /\ m.status = "PIPE_READ"
  BY <1>1, FreshMarked, MarkedKeeps, Zenon
<1>3. r = IF script.http09
          THEN Result(1, [m EXCEPT !.header_line = @ + h - 1, !.data = SubSeq(@, h, Len(@))])
          ELSE IF script.field = "status"
          THEN Result(1, [m EXCEPT !.header_line = @ - 1, !.data = <<StatusLine>> \o @])
          ELSE IF script.field = "refused"
          THEN Result(1, [SendPage(m) EXCEPT !.status = "DONE"])
          ELSE IF script.field = "location" THEN Result(1, SendMoved(m))
          ELSE Merge(m)
  BY <1>2, Processed, Zenon
<1> HIDE DEF m, r
<1>4. /\ script \in Scripts /\ Inside(m) /\ m.client = <<>> /\ m.out = <<>>
      /\ m = [x \in Fields |-> m[x]] /\ m.buffer_start = 0 /\ m.data = Child(1, g)
      /\ m.header_line = BufferSize \div 2 /\ m.data \in Seq(Byte) /\ m.header_line \in Nat
      /\ script.field # "index" /\ HeaderEnd(m) <= BufferSize + 1 /\ BufferEnd(m) <= BufferSize
      /\ m.window \in 0..Window /\ m.cgi_status \in CgiStatuses
  BY <1>2, Zenon DEF Fresh, Inside
<1>5. g \in Nat /\ Len(m.data) = g
  BY <1>2, FreshData, Zenon
<1>6. h \in Nat /\ h > 0 /\ script.field \in {"plain", "status", "location", "refused", "none", "index"}
      /\ script.http09 \in BOOLEAN
  BY <1>4, ScriptTyped
<1>7. script.field \in {"plain", "status", "location", "refused"} /\ g >= h
  BY <1>2, <1>5, <1>6 DEF HeaderFound
<1>8. 1 <= m.header_line /\ "PIPE_READ" \in Statuses /\ "PIPE_READ" # "PIPE_WRITE" /\ "PIPE_READ" # "DEAD"
  BY <1>4, Constants DEF Statuses
<1>9. <<>> \in Seq(Byte) /\ <<>> \o <<>> = <<>> /\ (\A s \in Seq(Byte) : <<>> \o s = s) /\ 1 # 0
  BY Empty
<1> HIDE DEF h
<1>10. CASE script.http09
  <2> DEFINE w == SubSeq(m.data, h, Len(m.data))
             l == m.header_line + h - 1
             d == [m EXCEPT !.header_line = l, !.data = w]
  <2>1. r.ret = 1 /\ r.req = d
    BY <1>3, <1>10 DEF Result
  <2>2. h - 1 \in 0..g /\ (h - 1) + 1 = h /\ h \in Int /\ g \in Int /\ h <= g + 1 /\ h + 0 = h
    BY <1>5, <1>6, <1>7
  <2>3. w = Child(h, g)
    <3>1. SubSeq(Child(1, g), (h - 1) + 1, g) = Child((h - 1) + 1, g)
      BY <1>5, <2>2, ChildParts, Zenon
    <3> QED BY <1>4, <1>5, <2>2, <3>1, Zenon
  <2>4. w \in Seq(Byte) /\ Len(w) = g - h + 1
    BY <2>2, <2>3, ChildTyped, Zenon
  <2>5. /\ d = [x \in Fields |-> d[x]] /\ d.header_line = l /\ d.data = w
        /\ d.client = <<>> /\ d.out = <<>> /\ d.buffer_start = 0 /\ d.window = m.window
        /\ d.status = "PIPE_READ" /\ d.cgi_status = m.cgi_status
    BY <1>2, <1>4 DEF Fields
  <2> HIDE DEF d, w
  <2>6. l \in Nat /\ l + (g - h + 1) = m.header_line + g /\ g - h + 1 # 0
    <3>1. \A x \in Nat : x + h - 1 \in Nat /\ (x + h - 1) + (g - h + 1) = x + g /\ g - h + 1 # 0
      BY <1>5, <1>6, <1>7
    <3> QED BY <1>4, <3>1, Zenon
  <2>7. HeaderEnd(d) = HeaderEnd(m)
    BY <1>5, <2>4, <2>5, <2>6, Zenon DEF HeaderEnd
  <2>8. BufferEnd(d) = BufferEnd(m)
    BY <1>4, <2>5, Zenon DEF BufferEnd
  <2>9. w # <<>>
    BY <2>4, <2>6
  <2>10. Inside(d)
    BY <1>4, <1>8, <1>9, <2>4, <2>5, <2>6, <2>7, <2>8, <2>9, Zenon DEF Inside
  <2>11. Lead = <<>> /\ From = h /\ Streams(g)
    BY <1>4, <1>7, <1>10, Zenon DEF Lead, From, Streams, h
  <2>12. (d.client \o d.out) \o d.data = Lead \o Child(From, g)
    BY <1>9, <2>3, <2>4, <2>5, <2>11, Zenon
  <2>13. Streamed(d, g)
    BY <1>8, <2>5, <2>11, <2>12, Zenon DEF Streamed
  <2>14. Kept(r, g) /\ Sound(r, g)
    BY <1>2, <1>8, <1>9, <2>1, <2>5, <2>10, <2>13, Zenon DEF Kept, Sound
  <2> QED BY <2>14, Zenon DEF r
<1>11. CASE ~script.http09 /\ script.field = "status"
  <2> DEFINE w == <<StatusLine>> \o m.data
             l == m.header_line - 1
             d == [m EXCEPT !.header_line = l, !.data = w]
  <2>1. r.ret = 1 /\ r.req = d
    BY <1>3, <1>11 DEF Result
  <2>2. <<StatusLine>> \in Seq(Byte) /\ Len(<<StatusLine>>) = 1
    BY <1>4, TextsTyped
  <2>3. w \in Seq(Byte) /\ Len(w) = 1 + g
    BY <1>4, <1>5, <2>2, Cat, Zenon
  <2>5. /\ d = [x \in Fields |-> d[x]] /\ d.header_line = l /\ d.data = w
        /\ d.client = <<>> /\ d.out = <<>> /\ d.buffer_start = 0 /\ d.window = m.window
        /\ d.status = "PIPE_READ" /\ d.cgi_status = m.cgi_status
    BY <1>2, <1>4 DEF Fields
  <2> HIDE DEF d
  <2>6. l \in Nat /\ l + (1 + g) = m.header_line + g /\ 1 + g # 0
    BY <1>4, <1>5, <1>8
  <2>7. HeaderEnd(d) = HeaderEnd(m)
    BY <1>5, <2>3, <2>5, <2>6, Zenon DEF HeaderEnd
  <2>8. BufferEnd(d) = BufferEnd(m)
    BY <1>4, <2>5, Zenon DEF BufferEnd
  <2>9. w # <<>>
    <3> HIDE DEF w
    <3> QED BY <2>3, <2>6
  <2>10. Inside(d)
    BY <1>4, <1>8, <1>9, <2>3, <2>5, <2>6, <2>7, <2>8, <2>9, Zenon DEF Inside
  <2>11. Lead = <<StatusLine>> /\ From = 1 /\ Streams(g)
    BY <1>4, <1>7, <1>11, Zenon DEF Lead, From, Streams, h
  <2>12. (d.client \o d.out) \o d.data = Lead \o Child(From, g)
    BY <1>4, <1>9, <2>3, <2>5, <2>11, Zenon
  <2>13. Streamed(d, g)
    BY <1>8, <2>5, <2>11, <2>12, Zenon DEF Streamed
  <2>14. Kept(r, g) /\ Sound(r, g)
    BY <1>2, <1>8, <1>9, <2>1, <2>5, <2>10, <2>13, Zenon DEF Kept, Sound
  <2> QED BY <2>14, Zenon DEF r
<1>12. CASE ~script.http09 /\ script.field = "refused"
  <2> DEFINE p == SendPage(m)
             d == [p EXCEPT !.status = "DONE"]
  <2>1. r.ret = 1 /\ r.req = d
    <3>1. r = Result(1, d)
      BY <1>3, <1>12
    <3> HIDE DEF d
    <3> QED BY <3>1 DEF Result
  <2>2. /\ Inside(p) /\ p.client \o p.out = Page /\ p.cgi_status = m.cgi_status
        /\ BufferEnd(p) <= p.header_line
    BY <1>2, FreshPage, Zenon
  <2> HIDE DEF p
  <2>3. p = [x \in Fields |-> p[x]]
    BY <2>2, Zenon DEF Inside
  <2>4. /\ d = [x \in Fields |-> d[x]] /\ d.header_line = p.header_line /\ d.data = p.data
        /\ d.client = p.client /\ d.out = p.out /\ d.buffer_start = p.buffer_start
        /\ d.window = p.window /\ d.status = "DONE" /\ d.cgi_status = p.cgi_status
    BY <2>3 DEF Fields
  <2> HIDE DEF d
  <2>5. HeaderEnd(d) = HeaderEnd(p) /\ BufferEnd(d) = BufferEnd(p)
    BY <2>4, Zenon DEF HeaderEnd, BufferEnd
  <2>6. "DONE" \in Statuses /\ "DONE" # "DEAD"
    BY DEF Statuses
  <2>7. Inside(d)
    BY <2>2, <2>4, <2>5, <2>6, Zenon DEF Inside
  <2>10. PageText(g) = Page
    BY <1>12 DEF PageText, MoveDue
  <2>8. Paged(d, g)
    BY <1>7, <1>12, <2>2, <2>4, <2>5, <2>10, Zenon DEF Paged, PageDue, h
  <2>9. Kept(r, g) /\ Sound(r, g)
    BY <1>2, <2>1, <2>2, <2>4, <2>6, <2>7, <2>8, Zenon DEF Kept, Sound
  <2> QED BY <2>9, Zenon DEF r
<1>14. CASE ~script.http09 /\ script.field = "location"
  <2> DEFINE t == Moved(g)
             e == Put(m, t)
             p == IF ~RoomFor(g) /\ script.dead THEN e ELSE ReqFlush(e)
             d == [p EXCEPT !.status = "DONE"]
  <2>1. r.ret = 1 /\ r.req = d
    <3>1. "location" # "status" /\ "location" # "refused"
      OBVIOUS
    <3>2. r = Result(1, SendMoved(m))
      BY <1>3, <1>14, <3>1, Zenon
    <3>3. SendMoved(m) = d
      BY <1>5, Zenon DEF SendMoved, Put
    <3> HIDE DEF d
    <3> QED BY <3>2, <3>3 DEF Result
  <2>2. /\ t \in Seq(Byte) /\ Len(t) \in Nat /\ Len(t) <= BufferSize
        /\ RoomFor(g) => Len(t) <= BufferSize \div 2
    BY <1>4, <1>5, MovedTyped, Zenon
  <2> HIDE DEF t
  <2>3. /\ Inside(e) /\ e.client \o e.out = t /\ BufferEnd(e) = Len(t)
        /\ e.cgi_status = m.cgi_status /\ e.header_line = m.header_line
    <3>2. Inside(m) /\ m.client = <<>> /\ m.out = <<>> /\ t \in Seq(Byte) /\ Len(t) <= BufferSize
      BY <1>4, <2>2, Zenon
    <3> QED BY <3>2, TextPut, Zenon
  <2> HIDE DEF e
  <2>4. /\ Inside(ReqFlush(e)) /\ ReqFlush(e).client \o ReqFlush(e).out = t
        /\ ReqFlush(e).cgi_status = e.cgi_status /\ ReqFlush(e).header_line = e.header_line
        /\ BufferEnd(ReqFlush(e)) <= BufferEnd(e)
    BY <2>3, Flushed, Zenon
  <2>5. \A x \in Nat : x <= x
    OBVIOUS
  <2>6. /\ Inside(p) /\ p.client \o p.out = t /\ p.cgi_status = m.cgi_status
        /\ p.header_line = BufferSize \div 2 /\ BufferEnd(p) <= Len(t)
    BY <1>4, <2>2, <2>3, <2>4, <2>5, Zenon
  <2> HIDE DEF p
  <2>7. p = [x \in Fields |-> p[x]] /\ p.out \in Seq(Byte) /\ p.buffer_start \in Nat
    BY <2>6, Zenon DEF Inside
  <2>8. /\ d = [x \in Fields |-> d[x]] /\ d.header_line = p.header_line /\ d.data = p.data
        /\ d.client = p.client /\ d.out = p.out /\ d.buffer_start = p.buffer_start
        /\ d.window = p.window /\ d.status = "DONE" /\ d.cgi_status = p.cgi_status
    BY <2>7 DEF Fields
  <2> HIDE DEF d
  <2>9. HeaderEnd(d) = HeaderEnd(p) /\ BufferEnd(d) = BufferEnd(p)
    BY <2>8, Zenon DEF HeaderEnd, BufferEnd
  <2>10. "DONE" \in Statuses /\ "DONE" # "DEAD"
    BY DEF Statuses
  <2>11. Inside(d)
    BY <2>6, <2>8, <2>9, <2>10, Zenon DEF Inside
  <2>12. MoveDue(g) /\ PageText(g) = t
    BY <1>7, <1>14, Zenon DEF MoveDue, PageText, t, h
  <2>13. RoomFor(g) => BufferEnd(d) <= d.header_line
    <3>1. BufferEnd(p) \in Int
      BY <2>7, Empty DEF BufferEnd
    <3> QED BY <2>2, <2>6, <2>8, <2>9, <3>1, Constants
  <2>14. Paged(d, g)
    BY <2>6, <2>8, <2>12, <2>13, Zenon DEF Paged, PageDue, Apart
  <2>15. Kept(r, g) /\ Sound(r, g)
    BY <1>2, <2>1, <2>6, <2>8, <2>10, <2>11, <2>14, Zenon DEF Kept, Sound
  <2> QED BY <2>15, Zenon DEF r
<1>13. CASE ~script.http09 /\ script.field = "plain"
  <2>1. script.field # "status" /\ script.field # "location" /\ script.field # "refused"
    BY <1>13
  <2>2. r = Merge(m)
    BY <1>3, <1>13, <2>1, Zenon
  <2>3. Sound(Merge(m), g) /\ Kept(Merge(m), g)
    BY <1>2, <1>7, <1>13, Merges, Zenon DEF h
  <2> QED BY <2>2, <2>3, Zenon DEF r
<1> QED BY <1>6, <1>7, <1>10, <1>11, <1>12, <1>13, <1>14, Zenon

-----------------------------------------------------------------------------
\* A request whose pipe is read.
Reading(c) ==
  /\ script \in Scripts /\ got \in Nat /\ Inside(c) /\ c.status = "PIPE_READ"
  /\ c.cgi_status = "CGI_PARSE" => Parsing(c, got)

LEMMA ParsingFresh ==
  ASSUME NEW c, Reading(c), c.cgi_status = "CGI_PARSE"
  PROVE  Fresh(c, got) /\ ~HeaderFound(c)
BY Zenon DEF Reading, Parsing, Fresh

\* Reading on does not change what leads the output or what kind it is.
LEMMA StreamsOn ==
  ASSUME script \in Scripts, NEW g \in Nat, NEW n \in Nat, Streams(g)
  PROVE  /\ Streams(g + n) /\ From \in Int /\ From <= g + 1
         /\ Child(From, g) \in Seq(Byte) /\ Child(g + 1, g + n) \in Seq(Byte)
         /\ Child(From, g) \o Child(g + 1, g + n) = Child(From, g + n)
<1>1. script.hlen \in Nat
  BY ScriptTyped
<1>2. script.field # "index" => g >= script.hlen
  BY DEF Streams
<1>3. Streams(g + n)
  <2>1. g >= script.hlen => g + n >= script.hlen
    BY <1>1
  <2> QED BY <2>1, Zenon DEF Streams
<1>4. From \in Int /\ From <= g + 1
  BY <1>1, <1>2 DEF From
<1> HIDE DEF From
<1>5. g \in Int /\ g + n \in Int /\ g <= g + n /\ g + 1 \in Int /\ g + 1 <= (g + n) + 1
  OBVIOUS
<1>6. Child(From, g) \o Child(g + 1, g + n) = Child(From, g + n)
  BY <1>4, <1>5, ChildConcat, Zenon
<1>7. Child(From, g) \in Seq(Byte) /\ Child(g + 1, g + n) \in Seq(Byte)
  BY <1>4, <1>5, ChildTyped, Zenon
<1> QED BY <1>3, <1>4, <1>6, <1>7, Zenon

\* read_from_pipe with n bytes.
LEMMA BytesTaken ==
  ASSUME NEW c, Reading(c), NEW n \in Nat, n > 0, n <= ToRead(c)
  PROVE  /\ Sound(TakesBytes(c, n), got + n)
         /\ c.cgi_status = "CGI_PARSE" \/ Flowing(c, got) => Kept(TakesBytes(c, n), got + n)
<1> DEFINE g == got + n
           t == Child(got + 1, g)
           w == c.data \o t
           d == [c EXCEPT !.data = w]
           e == [d EXCEPT !.cgi_status = "CGI_DONE"]
           r == TakesBytes(c, n)
<1>1. /\ script \in Scripts /\ got \in Nat /\ Inside(c) /\ c.status = "PIPE_READ"
      /\ c = [x \in Fields |-> c[x]] /\ c.data \in Seq(Byte) /\ c.header_line \in Nat
      /\ c.out \in Seq(Byte) /\ c.client \in Seq(Byte)
  BY Zenon DEF Reading, Inside
<1>2. g \in Nat /\ g \in Int /\ got + 1 \in Int /\ got + 1 <= g + 1 /\ g - (got + 1) + 1 = n
      /\ got \in Int /\ 1 \in Int /\ 1 <= got + 1 /\ got <= g
  BY <1>1, SMTT(30)
<1>3. t \in Seq(Byte) /\ Len(t) = n
  BY <1>2, ChildTyped, Zenon
<1>4. w \in Seq(Byte) /\ Len(w) = Len(c.data) + n
  BY <1>1, <1>3, Cat, Zenon
<1>5. r = IF c.cgi_status # "CGI_PARSE" THEN WriteFromPipe(d)
          ELSE IF HeaderFound(d) THEN ProcessCgiHeader(e)
          ELSE Result(1, d)
  BY Zenon DEF TakesBytes
<1>6. /\ d = [x \in Fields |-> d[x]] /\ d.data = w /\ d.header_line = c.header_line
      /\ d.client = c.client /\ d.out = c.out /\ d.buffer_start = c.buffer_start
      /\ d.window = c.window /\ d.status = "PIPE_READ" /\ d.cgi_status = c.cgi_status
  BY <1>1 DEF Fields
<1>7. /\ e = [x \in Fields |-> e[x]] /\ e.data = w /\ e.header_line = c.header_line
      /\ e.client = c.client /\ e.out = c.out /\ e.buffer_start = c.buffer_start
      /\ e.window = c.window /\ e.status = "PIPE_READ" /\ e.cgi_status = "CGI_DONE"
  BY <1>6 DEF Fields
<1> HIDE DEF r, d, e, w, t, g
<1>8. Len(c.data) \in Nat
  BY <1>1, Empty
<1>9. c.header_line + (Len(c.data) + n) <= BufferSize + 1 /\ Len(c.data) + n # 0
  <2>1. n <= BufferSize + 1 - (c.header_line + Len(c.data))
    BY Zenon DEF ToRead, HeaderEnd
  <2>2. \A x \in Nat, y \in Nat : n <= BufferSize + 1 - (x + y) => x + (y + n) <= BufferSize + 1 /\ y + n # 0
    BY Constants
  <2> QED BY <1>1, <1>8, <2>1, <2>2, Zenon
<1>10. /\ HeaderEnd(d) <= BufferSize + 1 /\ HeaderEnd(e) <= BufferSize + 1
       /\ BufferEnd(d) = BufferEnd(c) /\ BufferEnd(e) = BufferEnd(c)
  BY <1>4, <1>6, <1>7, <1>9, Zenon DEF HeaderEnd, BufferEnd
<1>11. w # <<>>
  BY <1>4, <1>9
<1>12. "PIPE_READ" \in Statuses /\ "CGI_DONE" \in CgiStatuses /\ "CGI_DONE" # "CGI_PARSE" /\ "PIPE_READ" # "DEAD"
       /\ "PIPE_READ" # "PIPE_WRITE" /\ 1 # 0
  BY DEF Statuses, CgiStatuses
<1>13. Inside(d)
  BY <1>1, <1>4, <1>6, <1>10, <1>11, <1>12, Zenon DEF Inside
<1>14. Inside(e)
  BY <1>1, <1>4, <1>7, <1>10, <1>11, <1>12, Zenon DEF Inside
<1>15. CASE c.cgi_status # "CGI_PARSE"
  <2>1. r = WriteFromPipe(d)
    BY <1>5, <1>15, Zenon
  <2>2. /\ Sound(r, g)
        /\ Flowing(d, g) => Kept(r, g)
    BY <1>6, <1>11, <1>13, <1>15, <2>1, WritesOn, Zenon
  <2>3. ASSUME Flowing(c, got) PROVE Flowing(d, g)
    <3>1. /\ Streams(got) /\ (c.client \o c.out) \o c.data = Lead \o Child(From, got) /\ c.out = <<>>
      BY <2>3, Zenon DEF Flowing, Streamed
    <3>2. /\ Streams(g) /\ Child(From, got) \in Seq(Byte) /\ Child(From, got) \o t = Child(From, g)
      BY <1>1, <3>1, StreamsOn, Zenon DEF g, t
    <3>3. Lead \in Seq(Byte) /\ c.client \o c.out \in Seq(Byte)
      BY <1>1, TextsTyped, Cat, Zenon
    <3>4. (c.client \o c.out) \o (c.data \o t) = Lead \o (Child(From, got) \o t)
      <4> DEFINE x == c.client \o c.out
                 u == Child(From, got)
      <4>1. x \in Seq(Byte) /\ u \in Seq(Byte) /\ x \o c.data = Lead \o u
        BY <3>1, <3>2, <3>3, Zenon
      <4> HIDE DEF x, u
      <4>2. x \o (c.data \o t) = Lead \o (u \o t)
        <5> DEFINE y == c.data
                   l == Lead
        <5>1. x \in Seq(Byte) /\ u \in Seq(Byte) /\ y \in Seq(Byte) /\ t \in Seq(Byte) /\ l \in Seq(Byte)
              /\ x \o y = l \o u
          BY <1>1, <1>3, <3>3, <4>1, Zenon
        <5> HIDE DEF y, l
        <5>2. x \o (y \o t) = l \o (u \o t)
          <6>1. (x \o y) \o t = x \o (y \o t) /\ (l \o u) \o t = l \o (u \o t)
            BY <5>1, AssocBytes, ZenonT(30)
          <6> QED BY <5>1, <6>1, Zenon
        <5> QED BY <5>2, Zenon DEF y, l
      <4> QED BY <4>2, Zenon DEF x, u
    <3>5. (d.client \o d.out) \o d.data = Lead \o Child(From, g)
      BY <1>6, <3>2, <3>4, Zenon DEF w
    <3> QED BY <1>6, <1>11, <1>12, <3>1, <3>2, <3>5, Zenon DEF Flowing, Streamed
  <2> QED BY <1>15, <2>2, <2>3, Zenon DEF r, g
<1>16. CASE c.cgi_status = "CGI_PARSE"
  <2>1. Fresh(c, got)
    BY <1>16, ParsingFresh, Zenon
  <2>2. /\ script.field # "index" /\ c.client = <<>> /\ c.out = <<>> /\ c.header_line = BufferSize \div 2
        /\ c.data = Child(1, got)
    BY <2>1, Zenon DEF Fresh
  <2>3. w = Child(1, g)
    <3>1. Child(1, got) \o Child(got + 1, g) = Child(1, g)
      BY <1>2, ChildConcat, Zenon
    <3> QED BY <2>2, <3>1, Zenon DEF w, t
  <2>4. CASE HeaderFound(d)
    <3>1. r = ProcessCgiHeader(e)
      BY <1>5, <1>16, <2>4, Zenon
    <3>2. Fresh(e, g)
      BY <1>1, <1>2, <1>7, <1>14, <2>2, <2>3, Zenon DEF Fresh
    <3>3. HeaderFound(e)
      BY <1>6, <1>7, <2>4, Zenon DEF HeaderFound
    <3>4. Sound(r, g) /\ Kept(r, g)
      BY <1>7, <3>1, <3>2, <3>3, HeaderRead, Zenon
    <3> QED BY <3>4, Zenon DEF r, g
  <2>5. CASE ~HeaderFound(d)
    <3>1. r = Result(1, d)
      BY <1>5, <1>16, <2>5, Zenon
    <3>2. r.ret = 1 /\ r.req = d
      BY <3>1 DEF Result
    <3>3. Parsing(d, g)
      BY <1>6, <2>2, <2>3, <2>5, Zenon DEF Parsing
    <3>4. Sound(r, g) /\ Kept(r, g)
      BY <1>6, <1>12, <1>13, <1>16, <3>2, <3>3, Zenon DEF Sound, Kept
    <3> QED BY <3>4, Zenon DEF r, g
  <2> QED BY <2>4, <2>5, Zenon
<1> QED BY <1>15, <1>16, Zenon

\* How much was read when the second half of the buffer is full.
LEMMA HalfFull ==
  ASSUME NEW c, NEW g, Fresh(c, g)
  PROVE  HeaderEnd(c) = BufferSize \div 2 + g
<1>1. c.header_line = BufferSize \div 2 /\ Len(c.data) = g
  BY FreshData, Zenon DEF Fresh
<1> QED BY <1>1, Zenon DEF HeaderEnd

\* read_from_pipe at the end of file.
LEMMA EofTaken ==
  ASSUME NEW c, Reading(c), AtEof(got)
  PROVE  /\ Sound(TakesEof(c), got)
         /\ c.cgi_status = "CGI_PARSE" \/ Flowing(c, got) => Kept(TakesEof(c), got)
<1> DEFINE d == [c EXCEPT !.status = "PIPE_WRITE", !.cgi_status = "CGI_DONE"]
           r == TakesEof(c)
<1>1. /\ script \in Scripts /\ got \in Nat /\ Inside(c) /\ c = [x \in Fields |-> c[x]]
  BY Zenon DEF Reading, Inside
<1>2. r = IF c.cgi_status = "CGI_PARSE" THEN ProcessCgiHeader(d) ELSE Result(1, d)
  BY Zenon DEF TakesEof
<1>3. /\ d = [x \in Fields |-> d[x]] /\ d.data = c.data /\ d.header_line = c.header_line
      /\ d.client = c.client /\ d.out = c.out /\ d.buffer_start = c.buffer_start
      /\ d.window = c.window /\ d.status = "PIPE_WRITE" /\ d.cgi_status = "CGI_DONE"
  BY <1>1 DEF Fields
<1> HIDE DEF d, r
<1>4. HeaderEnd(d) = HeaderEnd(c) /\ BufferEnd(d) = BufferEnd(c)
  BY <1>3, Zenon DEF HeaderEnd, BufferEnd
<1>5. "PIPE_WRITE" \in Statuses /\ "CGI_DONE" \in CgiStatuses /\ "CGI_DONE" # "CGI_PARSE" /\ "PIPE_WRITE" # "DEAD"
       /\ 1 # 0
  BY DEF Statuses, CgiStatuses
<1>6. Inside(d)
  BY <1>1, <1>3, <1>4, <1>5, Zenon DEF Inside
<1>7. CASE c.cgi_status = "CGI_PARSE"
  <2>1. Fresh(c, got) /\ ~HeaderFound(c)
    BY <1>7, ParsingFresh, Zenon
  <2>2. Fresh(d, got) /\ ~HeaderFound(d)
    BY <1>3, <1>6, <2>1, Zenon DEF Fresh, HeaderFound
  <2>3. PageDue(got)
    <3>1. Len(c.data) = got /\ script.field # "index" /\ script.hlen \in Nat
      BY <1>1, <2>1, FreshData, ScriptTyped, Zenon DEF Fresh
    <3>2. script.field = "none" \/ ~(got >= script.hlen)
      BY <2>1, <3>1, Zenon DEF HeaderFound
    <3>3. script.field = "none" \/ got < script.hlen
      BY <1>1, <3>1, <3>2
    <3> QED BY <3>1, <3>3, Zenon DEF PageDue
  <2>4. Sound(r, got) /\ Kept(r, got)
    BY <1>2, <1>7, <2>2, <2>3, HeaderMissing, Zenon
  <2> QED BY <2>4, Zenon DEF r
<1>8. CASE c.cgi_status # "CGI_PARSE"
  <2>1. r = Result(1, d)
    BY <1>2, <1>8, Zenon
  <2>2. r.ret = 1 /\ r.req = d
    BY <2>1 DEF Result
  <2>3. Sound(r, got)
    BY <1>3, <1>5, <1>6, <2>2, Zenon DEF Sound
  <2>4. ASSUME Flowing(c, got) PROVE Kept(r, got)
    <3>1. Streamed(d, got)
      BY <1>3, <2>4, Zenon DEF Flowing, Streamed
    <3> QED BY <1>5, <2>2, <3>1, Zenon DEF Kept
  <2> QED BY <1>8, <2>3, <2>4, Zenon DEF r
<1> QED BY <1>7, <1>8, Zenon

\* read_from_pipe when the buffer is full.
LEMMA FullTaken ==
  ASSUME NEW c, Reading(c), ToRead(c) = 0
  PROVE  /\ Sound(TakesNothing(c), got)
         /\ c.cgi_status = "CGI_PARSE" \/ Flowing(c, got) => Kept(TakesNothing(c), got)
<1> DEFINE d == [c EXCEPT !.cgi_status = "CGI_BUFFER"]
           e == [c EXCEPT !.status = "PIPE_WRITE"]
           r == TakesNothing(c)
<1>1. /\ script \in Scripts /\ got \in Nat /\ Inside(c) /\ c = [x \in Fields |-> c[x]]
      /\ c.status = "PIPE_READ" /\ c.data \in Seq(Byte) /\ c.header_line \in Nat
      /\ c.data = <<>> => c.header_line <= BufferSize
  BY Zenon DEF Reading, Inside
<1>2. r = IF c.cgi_status = "CGI_PARSE" THEN ProcessCgiHeader(d) ELSE Result(1, e)
  BY Zenon DEF TakesNothing
<1>3. /\ d = [x \in Fields |-> d[x]] /\ d.data = c.data /\ d.header_line = c.header_line
      /\ d.client = c.client /\ d.out = c.out /\ d.buffer_start = c.buffer_start
      /\ d.window = c.window /\ d.status = c.status /\ d.cgi_status = "CGI_BUFFER"
  BY <1>1 DEF Fields
<1>4. /\ e = [x \in Fields |-> e[x]] /\ e.data = c.data /\ e.header_line = c.header_line
      /\ e.client = c.client /\ e.out = c.out /\ e.buffer_start = c.buffer_start
      /\ e.window = c.window /\ e.status = "PIPE_WRITE" /\ e.cgi_status = c.cgi_status
  BY <1>1 DEF Fields
<1> HIDE DEF d, e, r
<1>5. /\ HeaderEnd(d) = HeaderEnd(c) /\ BufferEnd(d) = BufferEnd(c)
      /\ HeaderEnd(e) = HeaderEnd(c) /\ BufferEnd(e) = BufferEnd(c)
  BY <1>3, <1>4, Zenon DEF HeaderEnd, BufferEnd
<1>6. "PIPE_WRITE" \in Statuses /\ "CGI_BUFFER" \in CgiStatuses /\ "CGI_BUFFER" # "CGI_PARSE"
      /\ "PIPE_WRITE" # "DEAD" /\ 1 # 0
  BY DEF Statuses, CgiStatuses
<1>7. Inside(d)
  BY <1>1, <1>3, <1>5, <1>6, Zenon DEF Inside
<1>8. Inside(e)
  BY <1>1, <1>4, <1>5, <1>6, Zenon DEF Inside
<1>9. HeaderEnd(c) = BufferSize + 1
  <2>1. HeaderEnd(c) \in Int
    BY <1>1, Empty DEF HeaderEnd
  <2> QED BY <2>1, Constants DEF ToRead
<1>10. CASE c.cgi_status = "CGI_PARSE"
  <2>1. Fresh(c, got) /\ ~HeaderFound(c)
    BY <1>10, ParsingFresh, Zenon
  <2>2. Fresh(d, got) /\ ~HeaderFound(d)
    BY <1>3, <1>7, <2>1, Zenon DEF Fresh, HeaderFound
  <2>3. PageDue(got)
    <3>1. Len(c.data) = got /\ script.field # "index" /\ script.hlen \in Nat
      BY <1>1, <2>1, FreshData, ScriptTyped, Zenon DEF Fresh
    <3>2. script.field = "none" \/ ~(got >= script.hlen)
      BY <2>1, <3>1, Zenon DEF HeaderFound
    <3>3. got = Half
      BY <1>1, <1>9, <2>1, HalfFull, Constants, SMTT(30) DEF Half
    <3>4. ~(got >= script.hlen) => Overlong
      BY <1>1, <3>1, <3>3 DEF Overlong
    <3> QED BY <3>2, <3>4, Zenon DEF PageDue
  <2>4. Sound(r, got) /\ Kept(r, got)
    BY <1>2, <1>10, <2>2, <2>3, HeaderMissing, Zenon
  <2> QED BY <2>4, Zenon DEF r
<1>11. CASE c.cgi_status # "CGI_PARSE"
  <2>1. r = Result(1, e)
    BY <1>2, <1>11, Zenon
  <2>2. r.ret = 1 /\ r.req = e
    BY <2>1 DEF Result
  <2>3. Sound(r, got)
    BY <1>4, <1>6, <1>8, <1>11, <2>2, Zenon DEF Sound
  <2>4. c.data # <<>>
    <3>1. c.data = <<>> => HeaderEnd(c) <= BufferSize
      <4>1. Len(<<>>) = 0 /\ c.header_line + 0 = c.header_line
        BY <1>1
      <4> QED BY <1>1, <4>1, Zenon DEF HeaderEnd
    <3>2. ~(BufferSize + 1 <= BufferSize)
      BY Constants
    <3> QED BY <1>9, <3>1, <3>2, Zenon
  <2>5. ASSUME Flowing(c, got) PROVE Kept(r, got)
    <3>1. Streamed(e, got)
      BY <1>4, <2>4, <2>5, Zenon DEF Flowing, Streamed
    <3> QED BY <1>6, <2>2, <3>1, Zenon DEF Kept
  <2> QED BY <1>11, <2>3, <2>5, Zenon DEF r
<1> QED BY <1>10, <1>11, Zenon

-----------------------------------------------------------------------------
\* A page or the headers, once the request is only flushed.
LEMMA StillDue ==
  ASSUME NEW c, NEW f, NEW g, Paged(c, g) \/ Headed(c, g), Inside(c), Inside(f),
         f.client \o f.out = c.client \o c.out, f.data = c.data, f.header_line = c.header_line,
         BufferEnd(f) <= BufferEnd(c)
  PROVE  Paged(f, g) \/ Headed(f, g)
<1>1. CASE Headed(c, g)
  BY <1>1, Zenon DEF Headed
<1>2. CASE Paged(c, g)
  <2>1. BufferEnd(f) \in Int /\ BufferEnd(c) \in Int /\ c.header_line \in Int
    BY Empty, SMTT(30) DEF Inside, BufferEnd
  <2>2. Apart(g) => BufferEnd(c) <= c.header_line
    BY <1>2, Zenon DEF Paged
  <2>3. Apart(g) => BufferEnd(f) <= c.header_line
    <3>1. BufferEnd(c) <= c.header_line => BufferEnd(f) <= c.header_line
      BY <2>1
    <3> QED BY <2>2, <3>1, Zenon
  <2> QED BY <1>2, <2>3, Zenon DEF Paged
<1> QED BY <1>1, <1>2, Zenon

\* What process_requests makes of a handler's return value keeps the order.
LEMMA Settled ==
  ASSUME NEW r, NEW g, Sound(r, g)
  PROVE  /\ Inside(After(r).req) /\ After(r).turn \in {"top", "blocked", "over"}
         /\ After(r).req.cgi_status = "CGI_PARSE" /\ After(r).req.status # "DEAD"
              => Parsing(After(r).req, g) /\ After(r).turn \in {"top", "blocked"}
         /\ "short" \in slips => "short" \in After(r).slips
         /\ Kept(r, g) => Flows(After(r).req, g, After(r).turn, After(r).slips)
<1> DEFINE c == r.req
           d == [c EXCEPT !.status = "DONE"]
           f == ReqFlush(d)
           o == After(r)
           To(x, t, more) == [req |-> x, turn |-> t, slips |-> slips \cup more]
<1>1. /\ r.ret \in {0, 1, -1} /\ Inside(c) /\ c.status # "DEAD"
      /\ c.cgi_status = "CGI_PARSE" => Parsing(c, g) /\ r.ret # 0
  BY Zenon DEF Sound
<1>2. /\ 1 # 0 /\ -1 # 0 /\ 1 # -1
  OBVIOUS
<1>3. \/ r.ret = 1 /\ o = To(c, "top", {})
      \/ r.ret = -1 /\ o = To(c, "blocked", {})
      \/ r.ret = 0 /\ c.out = <<>> /\ o = To(c, "over", {})
      \/ r.ret = 0 /\ o = To(f, "over", {"last"})
      \/ r.ret = 0 /\ f.out = <<>> /\ o = To(f, "over", {})
      \/ r.ret = 0 /\ f.out # <<>> /\ o = To(f, "top", {})
  <2>1. r.ret = 1 => o = To(c, "top", {})
    BY <1>2, Zenon DEF After
  <2>2. r.ret = -1 => o = To(c, "blocked", {})
    BY <1>2, Zenon DEF After
  <2>3. r.ret = 0 /\ c.out = <<>> => o = To(c, "over", {})
    BY <1>2, Zenon DEF After
  <2>4. r.ret = 0 /\ c.out # <<>> /\ c.window = 0 => o = To(f, "over", {"last"})
    BY <1>2, Zenon DEF After
  <2>5. r.ret = 0 /\ c.out # <<>> /\ c.window # 0
          => o = To(f, IF f.out = <<>> THEN "over" ELSE "top", {})
    BY <1>2, Zenon DEF After
  <2> HIDE DEF o, To, c, f
  <2>6. f.out = <<>> => To(f, IF f.out = <<>> THEN "over" ELSE "top", {}) = To(f, "over", {})
    BY Zenon
  <2>7. f.out # <<>> => To(f, IF f.out = <<>> THEN "over" ELSE "top", {}) = To(f, "top", {})
    BY Zenon
  <2> QED BY <1>1, <2>1, <2>2, <2>3, <2>4, <2>5, <2>6, <2>7, Zenon
<1> HIDE DEF o
<1>4. \/ r.ret \in {1, -1} /\ o.req = c /\ o.turn \in {"top", "blocked"} /\ o.slips = slips
      \/ r.ret = 0 /\ c.out = <<>> /\ o.req = c /\ o.turn = "over" /\ o.slips = slips
      \/ r.ret = 0 /\ o.req = f /\ o.turn = "over" /\ o.slips = slips \cup {"last"}
      \/ r.ret = 0 /\ f.out = <<>> /\ o.req = f /\ o.turn = "over" /\ o.slips = slips
      \/ r.ret = 0 /\ o.req = f /\ o.turn = "top" /\ o.slips = slips
  <2> HIDE DEF c, f
  <2> QED BY <1>3
<1> HIDE DEF c, To
<1>5. c = [x \in Fields |-> c[x]]
  BY <1>1, Zenon DEF Inside
<1>6. /\ d = [x \in Fields |-> d[x]] /\ d.data = c.data /\ d.header_line = c.header_line
      /\ d.client = c.client /\ d.out = c.out /\ d.buffer_start = c.buffer_start
      /\ d.window = c.window /\ d.status = "DONE" /\ d.cgi_status = c.cgi_status
  BY <1>5 DEF Fields
<1> HIDE DEF d
<1>7. HeaderEnd(d) = HeaderEnd(c) /\ BufferEnd(d) = BufferEnd(c)
  BY <1>6, Zenon DEF HeaderEnd, BufferEnd
<1>8. "DONE" \in Statuses /\ "DONE" # "DEAD" /\ "top" # "over" /\ "blocked" # "over"
      /\ "top" # "handle" /\ "blocked" # "handle" /\ "over" # "handle"
  BY DEF Statuses
<1>9. Inside(d)
  BY <1>1, <1>6, <1>7, <1>8, Zenon DEF Inside
<1>10. /\ Inside(f) /\ f.client \o f.out = d.client \o d.out /\ f.status = "DONE"
       /\ f.cgi_status = d.cgi_status /\ f.data = d.data /\ f.header_line = d.header_line
       /\ BufferEnd(f) <= BufferEnd(d)
  BY <1>6, <1>9, Flushed, Zenon
<1> HIDE DEF f
<1>11. Inside(o.req) /\ o.turn \in {"top", "blocked", "over"}
  BY <1>1, <1>4, <1>10, Zenon
<1>12. o.req.cgi_status = "CGI_PARSE" /\ o.req.status # "DEAD"
         => Parsing(o.req, g) /\ o.turn \in {"top", "blocked"}
  BY <1>1, <1>2, <1>4, <1>6, <1>10, Zenon
<1>13. "short" \in slips => "short" \in o.slips
  BY <1>4, Zenon
<1>14. ASSUME Kept(r, g) PROVE Flows(o.req, g, o.turn, o.slips)
  <2>1. \/ c.cgi_status = "CGI_PARSE"
        \/ (Paged(c, g) \/ Headed(c, g)) /\ (r.ret = 0 \/ c.status = "DONE")
        \/ Streamed(c, g) /\ (r.ret = 0 => c.out = <<>> /\ c.data = <<>> /\ AtEof(g))
    BY <1>14, Zenon DEF Kept, c
  <2>2. o.turn # "handle"
    BY <1>8, <1>11, Zenon
  <2>3. CASE c.cgi_status = "CGI_PARSE"
    BY <1>1, <1>2, <1>4, <2>2, <2>3, Zenon DEF Flows
  <2>4. CASE (Paged(c, g) \/ Headed(c, g)) /\ (r.ret = 0 \/ c.status = "DONE")
    <3>1. Paged(f, g) \/ Headed(f, g)
      <4>1. f.client \o f.out = c.client \o c.out /\ f.data = c.data /\ f.header_line = c.header_line
            /\ BufferEnd(f) <= BufferEnd(c)
        BY <1>6, <1>7, <1>10, Zenon
      <4> QED BY <1>1, <1>10, <2>4, <4>1, StillDue, Zenon
    <3>2. Paged(o.req, g) \/ Headed(o.req, g)
      BY <1>4, <2>4, <3>1, Zenon
    <3>3. Closing(o.req, o.turn, o.slips)
      BY <1>1, <1>2, <1>4, <1>8, <1>10, <2>4, Zenon DEF Closing
    <3> QED BY <2>2, <3>2, <3>3, Zenon DEF Flows
  <2>5. CASE Streamed(c, g) /\ (r.ret = 0 => c.out = <<>> /\ c.data = <<>> /\ AtEof(g))
    <3>1. CASE o.req = c /\ (o.turn = "over" => r.ret = 0)
      BY <2>2, <2>5, <3>1, Zenon DEF Flows
    <3>2. CASE r.ret = 0 /\ c.out = <<>>
      <4>1. o.req = c
        <5>1. r.ret = 0 /\ c.out = <<>> => o = To(c, "over", {})
          BY <1>2, Zenon DEF After, To, o, c
        <5> QED BY <3>2, <5>1 DEF To
      <4> QED BY <2>2, <2>5, <3>2, <4>1, Zenon DEF Flows
    <3> QED BY <1>2, <1>4, <1>8, <2>5, <3>1, <3>2, Zenon
  <2> QED BY <2>1, <2>3, <2>4, <2>5, Zenon
<1> QED BY <1>11, <1>12, <1>13, <1>14, Zenon DEF o

-----------------------------------------------------------------------------
\* What is so of the next request, said in this state and in the next.
LEMMA SameInside == Inside(req') => Inside(req)'
BY Zenon DEF Inside, HeaderEnd, BufferEnd

LEMMA SameParsing ==
  ASSUME script' = script, Parsing(req', got')
  PROVE  Parsing(req, got)'
BY Zenon DEF Parsing, HeaderFound, Child

LEMMA SameTexts ==
  ASSUME script' = script
  PROVE  /\ Own' = Own /\ Lead' = Lead /\ From' = From /\ (Overlong' <=> Overlong)
         /\ Moved(got)' = Moved(got') /\ (RoomFor(got)' <=> RoomFor(got'))
         /\ PageText(got)' = PageText(got') /\ (Apart(got)' <=> Apart(got'))
<1>1. Own' = Own
  BY DEF Own
<1>2. Lead' = Lead
  BY <1>1, Zenon DEF Lead, StatusLine
<1>3. From' = From
  BY Zenon DEF From
<1>4. Overlong' <=> Overlong
  BY Zenon DEF Overlong, Half
<1>5. Redirection(got)' = Redirection(got')
  <2>1. Child(script.more, got)' = Child(script.more, got')
    BY Zenon DEF Child
  <2>2. Page' = Page
    BY Zenon DEF Page
  <2> QED BY <1>1, <2>1, <2>2, Zenon DEF Redirection
<1>6. RoomFor(got)' <=> RoomFor(got')
  BY <1>5, Zenon DEF RoomFor
<1>7. Moved(got)' = Moved(got')
  BY <1>5, <1>6, Zenon DEF Moved
<1>8. MoveDue(got)' <=> MoveDue(got')
  BY Zenon DEF MoveDue
<1>9. PageText(got)' = PageText(got')
  BY <1>7, <1>8, Zenon DEF PageText, Page
<1>10. Apart(got)' <=> Apart(got')
  BY <1>6, <1>8, Zenon DEF Apart
<1> QED BY <1>1, <1>2, <1>3, <1>4, <1>6, <1>7, <1>9, <1>10, Zenon

LEMMA SameDue ==
  ASSUME script' = script, AtEof(got') => AtEof(got)'
  PROVE  /\ PageDue(got') => PageDue(got)'
         /\ HeadDue(got') => HeadDue(got)'
         /\ Streams(got') => Streams(got)'
<1>1. PageDue(got') => PageDue(got)'
  BY SameTexts, Zenon DEF PageDue, MoveDue
<1>2. HeadDue(got') => HeadDue(got)'
  BY Zenon DEF HeadDue
<1>3. Streams(got') => Streams(got)'
  BY Zenon DEF Streams
<1> QED BY <1>1, <1>2, <1>3, Zenon

LEMMA SameFlows ==
  ASSUME script' = script, AtEof(got') => AtEof(got)', Flows(req', got', turn', slips')
  PROVE  Flows(req, got, turn, slips)'
<1>1. Paged(req', got') => Paged(req, got)'
  BY SameDue, SameTexts, Zenon DEF Paged, BufferEnd
<1>2. Headed(req', got') => Headed(req, got)'
  BY SameDue, SameTexts, Zenon DEF Headed, Child
<1>3. Streamed(req', got') => Streamed(req, got)'
  BY SameDue, SameTexts, Zenon DEF Streamed, Child
<1>4. Cut(req', got') => Cut(req, got)'
  <2>1. SUFFICES ASSUME Cut(req', got') PROVE Cut(req, got)'
    OBVIOUS
  <2>2. req'.out = <<>>
    BY <2>1, Zenon DEF Cut
  <2>3. CASE req'.client = <<>>
    BY <2>2, <2>3, Zenon DEF Cut
  <2>4. CASE req'.client # <<>>
    <3>1. PICK s \in Seq(Byte) :
            \/ PageDue(got') /\ req'.client \o s = PageText(got')
            \/ HeadDue(got') /\ req'.client \o s = Own \o Child(1, script.hlen - 1)
            \/ Streams(got') /\ req'.client \o s = Lead \o Child(From, got')
      BY <2>1, <2>4, Zenon DEF Cut
    <3>2. /\ Child(1, script.hlen - 1)' = Child(1, script.hlen - 1)
          /\ Child(From, got)' = Child(From, got')
          /\ Seq(Byte)' = Seq(Byte)
      <4>1. Child(1, script.hlen - 1)' = Child(1, script.hlen - 1)
        BY Zenon DEF Child
      <4>2. Child(From, got)' = Child(From, got')
        BY SameTexts, Zenon DEF Child
      <4>4. Seq(Byte)' = Seq(Byte)
        BY DEF Byte
      <4> QED BY <4>1, <4>2, <4>4, Zenon
    <3>3. \/ PageDue(got)' /\ req'.client \o s = PageText(got)'
          \/ HeadDue(got)' /\ req'.client \o s = Own' \o Child(1, script.hlen - 1)'
          \/ Streams(got)' /\ req'.client \o s = Lead' \o Child(From, got)'
      BY <3>1, <3>2, SameDue, SameTexts, Zenon
    <3>4. s \in Seq(Byte)'
      BY <3>2, Zenon
    <3> QED BY <2>2, <3>3, <3>4, Zenon DEF Cut
  <2> QED BY <2>3, <2>4, Zenon
<1>5. Closing(req', turn', slips') => Closing(req, turn, slips)'
  BY Zenon DEF Closing
<1> QED BY <1>1, <1>2, <1>3, <1>4, <1>5, Zenon DEF Flows

\* What a step has to show.
LEMMA Carried ==
  ASSUME script \in Scripts, script' = script, got' \in Nat, written' \in Nat, got' <= written',
         written' <= script.len, closed' \in BOOLEAN, turn' \in {"top", "handle", "blocked", "over"},
         Inside(req'),
         req'.cgi_status = "CGI_PARSE" /\ req'.status # "DEAD"
           => Parsing(req', got') /\ turn' \in {"top", "blocked"},
         AtEof(got') => AtEof(got)',
         "short" \notin slips' => Flows(req', got', turn', slips')
  PROVE  IInv'
<1>1. Inside(req)'
  BY SameInside
<1>2. (req.cgi_status = "CGI_PARSE" /\ req.status # "DEAD"
        => Parsing(req, got) /\ turn \in {"top", "blocked"})'
  BY SameParsing, Zenon
<1>3. Typed'
  BY <1>1, <1>2, Zenon DEF Typed
<1>4. InOrder'
  BY SameFlows, Zenon DEF InOrder
<1> QED BY <1>3, <1>4, Zenon DEF IInv

\* A handler's step.
LEMMA HandlerStep ==
  ASSUME IInv, UNCHANGED <<script, written, closed>>, got' \in Nat, got' <= written,
         NEW r, Settle(r), Sound(r, got'), "short" \notin slips => Kept(r, got')
  PROVE  IInv'
<1> DEFINE o == After(r)
<1>1. req' = o.req /\ turn' = o.turn /\ slips' = o.slips
  BY Zenon DEF Settle
<1>2. script' = script /\ written' = written /\ closed' = closed
  OBVIOUS
<1>3. /\ Inside(o.req) /\ o.turn \in {"top", "blocked", "over"}
      /\ o.req.cgi_status = "CGI_PARSE" /\ o.req.status # "DEAD"
           => Parsing(o.req, got') /\ o.turn \in {"top", "blocked"}
      /\ "short" \in slips => "short" \in o.slips
      /\ Kept(r, got') => Flows(o.req, got', o.turn, o.slips)
  BY Settled, Zenon
<1> HIDE DEF o
<1>4. AtEof(got') => AtEof(got)'
  <2>1. closed \in BOOLEAN
    BY Zenon DEF IInv, Typed
  <2> QED BY <1>2, <2>1 DEF AtEof
<1>5. script \in Scripts /\ written \in Nat /\ written <= script.len /\ closed \in BOOLEAN
  BY Zenon DEF IInv, Typed
<1>6. "short" \notin slips' => Flows(req', got', turn', slips')
  BY <1>1, <1>3, Zenon
<1>7. turn' \in {"top", "handle", "blocked", "over"}
  BY <1>1, <1>3, Zenon
<1>8. written' \in Nat /\ got' <= written' /\ written' <= script.len /\ closed' \in BOOLEAN
  BY <1>2, <1>5, Zenon
<1>9. Inside(req')
  BY <1>1, <1>3, Zenon
<1>10. req'.cgi_status = "CGI_PARSE" /\ req'.status # "DEAD"
         => Parsing(req', got') /\ turn' \in {"top", "blocked"}
  BY <1>1, <1>3, Zenon
<1> QED BY <1>2, <1>4, <1>5, <1>6, <1>7, <1>8, <1>9, <1>10, Carried, Zenon

-----------------------------------------------------------------------------
\* The request a handler finds: unless a flush was short, the first part of its
\* buffer is empty.
LEMMA Runnable ==
  ASSUME IInv, NEW s, Runs(s)
  PROVE  /\ script \in Scripts /\ got \in Nat /\ written \in Nat /\ got <= written
         /\ Inside(req) /\ req.status = s /\ turn # "over"
         /\ UNCHANGED <<script, written, closed>>
         /\ req.cgi_status = "CGI_PARSE" /\ s # "DEAD" => Parsing(req, got)
         /\ "short" \notin slips => Flows(req, got, turn, slips) /\ req.out = <<>>
<1>1. /\ turn = "handle" \/ (turn = "top" /\ req.out = <<>>)
      /\ req.status = s /\ UNCHANGED <<script, written, closed>>
  BY Zenon DEF Runs
<1>2. turn # "over"
  BY <1>1
<1>3. "short" \notin slips => Flows(req, got, turn, slips) /\ req.out = <<>>
  BY <1>1, Zenon DEF IInv, InOrder, Flows
<1> QED BY <1>1, <1>2, <1>3, Zenon DEF IInv, Typed

LEMMA RunsReading ==
  ASSUME IInv, Runs("PIPE_READ")
  PROVE  /\ Reading(req)
         /\ "short" \notin slips => req.cgi_status = "CGI_PARSE" \/ Flowing(req, got)
<1>1. "PIPE_READ" # "DEAD" /\ "PIPE_READ" # "DONE"
  OBVIOUS
<1>2. Reading(req)
  BY <1>1, Runnable, Zenon DEF Reading
<1>3. ASSUME "short" \notin slips PROVE req.cgi_status = "CGI_PARSE" \/ Flowing(req, got)
  <2>1. Flows(req, got, turn, slips) /\ req.out = <<>> /\ turn # "over" /\ req.status = "PIPE_READ"
    BY <1>3, Runnable, Zenon
  <2> QED BY <1>1, <2>1, Zenon DEF Flows, Closing, Flowing
<1> QED BY <1>2, <1>3, Zenon

LEMMA ReadStep ==
  ASSUME IInv, ReadFromPipe
  PROVE  IInv'
<1> DEFINE n == Least(ToRead(req), written - got)
<1>1. Runs("PIPE_READ") /\ ToRead(req) > 0 /\ got < written /\ got' = got + n
      /\ Settle(TakesBytes(req, n))
  BY Zenon DEF ReadFromPipe
<1>2. Reading(req) /\ ("short" \notin slips => req.cgi_status = "CGI_PARSE" \/ Flowing(req, got))
  BY <1>1, RunsReading, Zenon
<1>3. got \in Nat /\ written \in Nat /\ UNCHANGED <<script, written, closed>>
  BY <1>1, Runnable, Zenon
<1>4. ToRead(req) \in Int
  <2>1. req.header_line \in Nat /\ Len(req.data) \in Nat
    BY <1>2, Empty DEF Reading, Inside
  <2>2. HeaderEnd(req) \in Int
    BY <2>1 DEF HeaderEnd
  <2> QED BY <2>2, Constants DEF ToRead
<1>5. n \in Nat /\ n > 0 /\ n <= ToRead(req) /\ got + n \in Nat /\ got + n <= written
  BY <1>1, <1>3, <1>4 DEF Least
<1> DEFINE r == TakesBytes(req, n)
<1> HIDE DEF n
<1>6. Sound(r, got + n) /\ ("short" \notin slips => Kept(r, got + n))
  BY <1>2, <1>5, BytesTaken, Zenon
<1> HIDE DEF r
<1>7. Sound(r, got') /\ ("short" \notin slips => Kept(r, got')) /\ got' \in Nat /\ got' <= written
  BY <1>1, <1>5, <1>6, Zenon
<1>8. Settle(r)
  BY <1>1, Zenon DEF r
<1> QED BY <1>3, <1>7, <1>8, HandlerStep, Zenon

LEMMA EofStep ==
  ASSUME IInv, ReadEof
  PROVE  IInv'
<1> DEFINE r == TakesEof(req)
<1>1. Runs("PIPE_READ") /\ got' = got /\ Settle(r) /\ AtEof(got)
  BY Zenon DEF ReadEof, AtEof
<1>2. Reading(req) /\ ("short" \notin slips => req.cgi_status = "CGI_PARSE" \/ Flowing(req, got))
  BY <1>1, RunsReading, Zenon
<1>3. got \in Nat /\ got <= written /\ UNCHANGED <<script, written, closed>>
  BY <1>1, Runnable, Zenon
<1>4. Sound(r, got) /\ ("short" \notin slips => Kept(r, got))
  BY <1>1, <1>2, EofTaken, Zenon
<1> HIDE DEF r
<1> QED BY <1>1, <1>3, <1>4, HandlerStep, Zenon

LEMMA FullStep ==
  ASSUME IInv, ReadFull
  PROVE  IInv'
<1> DEFINE r == TakesNothing(req)
<1>1. Runs("PIPE_READ") /\ got' = got /\ Settle(r) /\ ToRead(req) = 0
  BY Zenon DEF ReadFull
<1>2. Reading(req) /\ ("short" \notin slips => req.cgi_status = "CGI_PARSE" \/ Flowing(req, got))
  BY <1>1, RunsReading, Zenon
<1>3. got \in Nat /\ got <= written /\ UNCHANGED <<script, written, closed>>
  BY <1>1, Runnable, Zenon
<1>4. Sound(r, got) /\ ("short" \notin slips => Kept(r, got))
  BY <1>1, <1>2, FullTaken, Zenon
<1> HIDE DEF r
<1> QED BY <1>1, <1>3, <1>4, HandlerStep, Zenon

LEMMA BlockStep ==
  ASSUME IInv, ReadBlocks
  PROVE  IInv'
<1> DEFINE r == Result(-1, req)
<1>1. Runs("PIPE_READ") /\ got' = got /\ Settle(r)
  BY Zenon DEF ReadBlocks
<1>2. Reading(req) /\ ("short" \notin slips => req.cgi_status = "CGI_PARSE" \/ Flowing(req, got))
  BY <1>1, RunsReading, Zenon
<1>3. got \in Nat /\ got <= written /\ UNCHANGED <<script, written, closed>>
  BY <1>1, Runnable, Zenon
<1>4. r.ret = -1 /\ r.req = req /\ -1 # 0 /\ "PIPE_READ" # "DEAD"
  BY DEF Result
<1> HIDE DEF r
<1>5. Sound(r, got)
  BY <1>2, <1>4, Zenon DEF Sound, Reading
<1>6. "short" \notin slips => Kept(r, got)
  BY <1>2, <1>4, Zenon DEF Kept, Flowing
<1> QED BY <1>1, <1>3, <1>5, <1>6, HandlerStep, Zenon

LEMMA WriteStep ==
  ASSUME IInv, PipeWrite
  PROVE  IInv'
<1> DEFINE r == WriteFromPipe(req)
<1>1. Runs("PIPE_WRITE") /\ got' = got /\ Settle(r)
  BY Zenon DEF PipeWrite
<1>2. /\ got \in Nat /\ got <= written /\ UNCHANGED <<script, written, closed>>
      /\ Inside(req) /\ req.status = "PIPE_WRITE" /\ turn # "over"
      /\ "short" \notin slips => Flows(req, got, turn, slips) /\ req.out = <<>>
  BY <1>1, Runnable, Zenon
<1>3. "PIPE_WRITE" # "DEAD" /\ "PIPE_WRITE" # "PIPE_READ" /\ "PIPE_WRITE" # "DONE"
  OBVIOUS
<1>4. req.cgi_status # "CGI_PARSE"
  BY <1>1, <1>2, <1>3, Runnable, Zenon DEF Parsing
<1>5. "short" \notin slips => Flowing(req, got)
  BY <1>2, <1>3, <1>4, Zenon DEF Flows, Closing, Flowing
<1>6. Sound(r, got) /\ ("short" \notin slips => Kept(r, got))
  BY <1>2, <1>4, <1>5, WritesOn, Zenon
<1> HIDE DEF r
<1> QED BY <1>1, <1>2, <1>6, HandlerStep, Zenon

LEMMA DoneStep ==
  ASSUME IInv, FlushDone
  PROVE  IInv'
<1> DEFINE f == ReqFlush(req)
           k == IF f.out = <<>> THEN 0 ELSE IF req.window = 0 THEN -1 ELSE 1
           r == Result(k, f)
<1>1. Runs("DONE") /\ got' = got /\ Settle(r)
  BY Zenon DEF FlushDone
<1>2. /\ got \in Nat /\ got <= written /\ UNCHANGED <<script, written, closed>>
      /\ Inside(req) /\ req.status = "DONE" /\ turn # "over"
      /\ "short" \notin slips => Flows(req, got, turn, slips) /\ req.out = <<>>
  BY <1>1, Runnable, Zenon
<1>3. "DONE" # "DEAD" /\ "DONE" # "PIPE_READ" /\ "DONE" # "PIPE_WRITE"
  OBVIOUS
<1>4. req.cgi_status # "CGI_PARSE"
  BY <1>1, <1>2, <1>3, Runnable, Zenon DEF Parsing
<1>5. /\ Inside(f) /\ f.client \o f.out = req.client \o req.out /\ f.status = "DONE"
      /\ f.cgi_status = req.cgi_status /\ f.data = req.data /\ f.header_line = req.header_line
      /\ BufferEnd(f) <= BufferEnd(req)
  BY <1>2, Flushed, Zenon
<1> HIDE DEF f
<1>6. k \in {0, 1, -1}
  OBVIOUS
<1> HIDE DEF k
<1>7. r.ret = k /\ r.req = f
  BY DEF Result
<1> HIDE DEF r
<1>8. Sound(r, got)
  BY <1>3, <1>4, <1>5, <1>6, <1>7, Zenon DEF Sound
<1>9. ASSUME "short" \notin slips PROVE Kept(r, got)
  <2>1. Paged(req, got) \/ Headed(req, got)
    BY <1>2, <1>3, <1>4, <1>9, Zenon DEF Flows, Streamed
  <2>2. Paged(f, got) \/ Headed(f, got)
    BY <1>2, <1>5, <2>1, StillDue, Zenon
  <2> QED BY <1>5, <1>7, <2>2, Zenon DEF Kept
<1> QED BY <1>1, <1>2, <1>8, <1>9, HandlerStep, Zenon

\* A request that is only flushed, in whatever turn.
LEMMA FlushStep ==
  ASSUME IInv, TopFlush
  PROVE  IInv'
<1> DEFINE f == ReqFlush(req)
<1>1. /\ turn = "top" /\ req.out # <<>> /\ req' = f
      /\ turn' = (IF req.window = 0 THEN "blocked" ELSE "handle")
      /\ slips' = (IF turn' = "handle" /\ req'.out # <<>> THEN slips \cup {"short"} ELSE slips)
      /\ script' = script /\ written' = written /\ closed' = closed /\ got' = got
  BY Zenon DEF TopFlush
<1>2. /\ script \in Scripts /\ got \in Nat /\ written \in Nat /\ got <= written
      /\ written <= script.len /\ closed \in BOOLEAN /\ Inside(req)
      /\ req.cgi_status = "CGI_PARSE" /\ req.status # "DEAD" => Parsing(req, got)
      /\ "short" \notin slips => Flows(req, got, turn, slips)
  BY Zenon DEF IInv, Typed, InOrder
<1>3. /\ Inside(f) /\ f.client \o f.out = req.client \o req.out /\ f.status = req.status
      /\ f.cgi_status = req.cgi_status /\ f.data = req.data /\ f.header_line = req.header_line
      /\ BufferEnd(f) <= BufferEnd(req)
  BY <1>2, Flushed, Zenon
<1> HIDE DEF f
<1>4. ~(req.cgi_status = "CGI_PARSE" /\ req.status # "DEAD")
  BY <1>1, <1>2, Zenon DEF Parsing
<1>5. turn' \in {"blocked", "handle"}
  BY <1>1, Zenon
<1>6. AtEof(got') => AtEof(got)'
  BY <1>1, <1>2 DEF AtEof
<1>7. "blocked" # "over" /\ "handle" # "over" /\ "top" # "over"
  OBVIOUS
<1>8. ASSUME "short" \notin slips' PROVE Flows(f, got, turn', slips')
  <2>1. "short" \notin slips /\ (turn' = "handle" => f.out = <<>>)
    BY <1>1, <1>8, Zenon
  <2>2. Flows(req, got, turn, slips)
    BY <1>2, <2>1, Zenon
  <2>3. \/ (Paged(req, got) \/ Headed(req, got)) /\ req.status = "DONE"
        \/ Streamed(req, got)
    BY <1>1, <1>4, <1>7, <2>2, Zenon DEF Flows, Closing
  <2>4. CASE (Paged(req, got) \/ Headed(req, got)) /\ req.status = "DONE"
    <3>1. Paged(f, got) \/ Headed(f, got)
      BY <1>2, <1>3, <2>4, StillDue, Zenon
    <3> QED BY <1>3, <1>5, <1>7, <2>1, <2>4, <3>1, Zenon DEF Flows, Closing
  <2>5. CASE Streamed(req, got)
    <3>1. req.data = <<>>
      BY <1>1, <2>5, Zenon DEF Streamed
    <3>2. Streamed(f, got)
      BY <1>3, <2>5, <3>1, Zenon DEF Streamed
    <3> QED BY <1>5, <1>7, <2>1, <3>2, Zenon DEF Flows
  <2> QED BY <2>3, <2>4, <2>5, Zenon
<1>9. "short" \notin slips' => Flows(req', got', turn', slips')
  BY <1>1, <1>8, Zenon
<1>10. /\ got' \in Nat /\ written' \in Nat /\ got' <= written' /\ written' <= script.len
       /\ closed' \in BOOLEAN /\ turn' \in {"top", "handle", "blocked", "over"} /\ Inside(req')
  BY <1>1, <1>2, <1>3, <1>5, Zenon
<1>11. req'.cgi_status = "CGI_PARSE" /\ req'.status # "DEAD"
         => Parsing(req', got') /\ turn' \in {"top", "blocked"}
  BY <1>1, <1>3, <1>4, Zenon
<1> QED BY <1>1, <1>2, <1>6, <1>9, <1>10, <1>11, Carried, Zenon

\* Steps that leave the request alone: the child's, and a request's waking up.
LEMMA QuietStep ==
  ASSUME IInv, script' = script, got' = got, req' = req, slips' = slips,
         written' \in Nat, written <= written', written' <= script.len, closed' \in BOOLEAN,
         AtEof(got') => AtEof(got)', turn' = turn \/ (turn = "blocked" /\ turn' = "top")
  PROVE  IInv'
<1>1. /\ script \in Scripts /\ got \in Nat /\ written \in Nat /\ got <= written /\ Inside(req)
      /\ req.cgi_status = "CGI_PARSE" /\ req.status # "DEAD" => Parsing(req, got) /\ turn \in {"top", "blocked"}
      /\ "short" \notin slips => Flows(req, got, turn, slips)
      /\ turn \in {"top", "handle", "blocked", "over"}
  BY Zenon DEF IInv, Typed, InOrder
<1>2. got' \in Nat /\ got' <= written' /\ Inside(req')
  BY <1>1
<1>3. turn' \in {"top", "handle", "blocked", "over"}
  BY <1>1, Zenon
<1>4. req'.cgi_status = "CGI_PARSE" /\ req'.status # "DEAD"
        => Parsing(req', got') /\ turn' \in {"top", "blocked"}
  BY <1>1, Zenon
<1>5. "blocked" # "over" /\ "top" # "over" /\ "top" # "handle"
  OBVIOUS
<1>6. "short" \notin slips' => Flows(req', got', turn', slips')
  BY <1>1, <1>5, Zenon DEF Flows, Closing
<1> QED BY <1>1, <1>2, <1>3, <1>4, <1>6, Carried, Zenon

LEMMA ChildWritesStep ==
  ASSUME IInv, ChildWrites
  PROVE  IInv'
<1>1. /\ ~closed /\ closed' = closed /\ script' = script /\ got' = got /\ req' = req
      /\ turn' = turn /\ slips' = slips
  BY Zenon DEF ChildWrites
<1>2. PICK n \in written + 1..script.len : written' = n
  BY Zenon DEF ChildWrites
<1>3. written \in Nat /\ closed \in BOOLEAN /\ script \in Scripts
  BY Zenon DEF IInv, Typed
<1>4. script.len \in Nat
  BY <1>3, ScriptTyped
<1>5. written' \in Nat /\ written <= written' /\ written' <= script.len
  BY <1>2, <1>3, <1>4
<1>6. AtEof(got') => AtEof(got)'
  BY <1>1, Zenon DEF AtEof
<1> QED BY <1>1, <1>3, <1>5, <1>6, QuietStep, Zenon

LEMMA ChildExitsStep ==
  ASSUME IInv, ChildExits
  PROVE  IInv'
<1>1. /\ ~closed /\ closed' = TRUE /\ script' = script /\ got' = got /\ req' = req
      /\ turn' = turn /\ slips' = slips /\ written' = written
  BY Zenon DEF ChildExits
<1>2. written \in Nat /\ written <= script.len /\ TRUE \in BOOLEAN
  BY Zenon DEF IInv, Typed
<1>3. written <= written
  BY <1>2
<1>4. AtEof(got') => AtEof(got)'
  BY <1>1, Zenon DEF AtEof
<1> QED BY <1>1, <1>2, <1>3, <1>4, QuietStep, Zenon

LEMMA WakeStep ==
  ASSUME IInv, Wake \/ UNCHANGED vars
  PROVE  IInv'
<1>1. /\ closed' = closed /\ script' = script /\ got' = got /\ req' = req
      /\ slips' = slips /\ written' = written
      /\ turn' = turn \/ (turn = "blocked" /\ turn' = "top")
  BY DEF Wake, vars
<1>2. written \in Nat /\ written <= script.len /\ closed \in BOOLEAN
  BY Zenon DEF IInv, Typed
<1>3. written <= written
  BY <1>2
<1>4. AtEof(got') => AtEof(got)'
  BY <1>1, <1>2 DEF AtEof
<1> QED BY <1>1, <1>2, <1>3, <1>4, QuietStep, Zenon

\* The client's socket has room again.
LEMMA ClientStep ==
  ASSUME IInv, ClientReads
  PROVE  IInv'
<1>1. PICK w \in req.window + 1..Window : req' = [req EXCEPT !.window = w]
  BY Zenon DEF ClientReads
<1>2. /\ closed' = closed /\ script' = script /\ got' = got /\ turn' = turn
      /\ slips' = slips /\ written' = written
  BY Zenon DEF ClientReads
<1>3. /\ script \in Scripts /\ got \in Nat /\ written \in Nat /\ got <= written
      /\ written <= script.len /\ closed \in BOOLEAN /\ Inside(req)
      /\ req.cgi_status = "CGI_PARSE" /\ req.status # "DEAD" => Parsing(req, got) /\ turn \in {"top", "blocked"}
      /\ "short" \notin slips => Flows(req, got, turn, slips)
      /\ turn \in {"top", "handle", "blocked", "over"}
  BY Zenon DEF IInv, Typed, InOrder
<1> DEFINE d == [req EXCEPT !.window = w]
<1>4. req = [x \in Fields |-> req[x]] /\ req.window \in 0..Window
  BY <1>3, Zenon DEF Inside
<1>5. w \in 0..Window
  BY <1>4, Constants
<1>6. /\ d = [x \in Fields |-> d[x]] /\ d.data = req.data /\ d.header_line = req.header_line
      /\ d.client = req.client /\ d.out = req.out /\ d.buffer_start = req.buffer_start
      /\ d.window = w /\ d.status = req.status /\ d.cgi_status = req.cgi_status
  BY <1>4 DEF Fields
<1> HIDE DEF d
<1>7. HeaderEnd(d) = HeaderEnd(req) /\ BufferEnd(d) = BufferEnd(req)
  BY <1>6, Zenon DEF HeaderEnd, BufferEnd
<1>8. Inside(d)
  BY <1>3, <1>5, <1>6, <1>7, Zenon DEF Inside
<1>9. Parsing(req, got) => Parsing(d, got)
  BY <1>6, Zenon DEF Parsing, HeaderFound
<1>10. ASSUME Flows(req, got, turn, slips) PROVE Flows(d, got, turn, slips)
  <2>1. (Paged(req, got) => Paged(d, got)) /\ (Headed(req, got) => Headed(d, got))
    BY <1>6, <1>7, Zenon DEF Paged, Headed
  <2>2. (Streamed(req, got) => Streamed(d, got)) /\ (Cut(req, got) => Cut(d, got))
    BY <1>6, Zenon DEF Streamed, Cut
  <2>3. Closing(req, turn, slips) => Closing(d, turn, slips)
    BY <1>6, Zenon DEF Closing
  <2> QED BY <1>6, <1>10, <2>1, <2>2, <2>3, Zenon DEF Flows
<1>11. AtEof(got') => AtEof(got)'
  BY <1>2, <1>3 DEF AtEof
<1>12. req' = d
  BY <1>1, Zenon DEF d
<1>13. /\ got' \in Nat /\ written' \in Nat /\ got' <= written' /\ written' <= script.len
       /\ closed' \in BOOLEAN /\ turn' \in {"top", "handle", "blocked", "over"} /\ Inside(req')
  BY <1>2, <1>3, <1>8, <1>12, Zenon
<1>14. req'.cgi_status = "CGI_PARSE" /\ req'.status # "DEAD"
         => Parsing(req', got') /\ turn' \in {"top", "blocked"}
  BY <1>2, <1>3, <1>6, <1>9, <1>12, Zenon
<1>15. "short" \notin slips' => Flows(req', got', turn', slips')
  BY <1>2, <1>3, <1>10, <1>12, Zenon
<1> QED BY <1>2, <1>3, <1>11, <1>13, <1>14, <1>15, Carried, Zenon

\* A request that dies has given its client the beginning of the response.
LEMMA FailStep ==
  ASSUME IInv, Fails
  PROVE  IInv'
<1> DEFINE d == [req EXCEPT !.status = "DEAD", !.out = <<>>, !.buffer_start = 0]
<1>1. /\ turn \in {"top", "handle"} /\ req' = d /\ turn' = "over"
      /\ script' = script /\ written' = written /\ closed' = closed /\ got' = got /\ slips' = slips
  BY Zenon DEF Fails
<1>2. /\ script \in Scripts /\ got \in Nat /\ written \in Nat /\ got <= written
      /\ written <= script.len /\ closed \in BOOLEAN /\ Inside(req)
      /\ req.cgi_status = "CGI_PARSE" /\ req.status # "DEAD" => Parsing(req, got)
      /\ "short" \notin slips => Flows(req, got, turn, slips)
  BY Zenon DEF IInv, Typed, InOrder
<1>3. req = [x \in Fields |-> req[x]] /\ req.client \in Seq(Byte) /\ req.out \in Seq(Byte) /\ req.data \in Seq(Byte)
  BY <1>2, Zenon DEF Inside
<1>4. /\ d = [x \in Fields |-> d[x]] /\ d.data = req.data /\ d.header_line = req.header_line
      /\ d.client = req.client /\ d.out = <<>> /\ d.buffer_start = 0
      /\ d.window = req.window /\ d.status = "DEAD" /\ d.cgi_status = req.cgi_status
  BY <1>3 DEF Fields
<1> HIDE DEF d
<1>5. HeaderEnd(d) = HeaderEnd(req)
  BY <1>4, Zenon DEF HeaderEnd
<1>6. BufferEnd(d) <= BufferSize /\ <<>> \in Seq(Byte) /\ 0 \in Nat /\ "DEAD" \in Statuses
  BY <1>4, Constants DEF BufferEnd, Statuses
<1>7. Inside(d)
  BY <1>2, <1>4, <1>5, <1>6, Zenon DEF Inside
<1>8. "top" # "over" /\ "handle" # "over" /\ "over" # "handle"
  OBVIOUS
<1>9. ASSUME "short" \notin slips PROVE Cut(d, got)
  <2>1. \/ req.cgi_status = "CGI_PARSE" /\ req.status # "DEAD"
        \/ Paged(req, got) \/ Headed(req, got) \/ Streamed(req, got)
    BY <1>1, <1>2, <1>8, <1>9, Zenon DEF Flows
  <2>2. CASE req.cgi_status = "CGI_PARSE" /\ req.status # "DEAD"
    BY <1>2, <1>4, <2>2, Zenon DEF Cut, Parsing
  <2>3. CASE Paged(req, got)
    BY <1>3, <1>4, <2>3, Zenon DEF Cut, Paged
  <2>4. CASE Headed(req, got)
    BY <1>3, <1>4, <2>4, Zenon DEF Cut, Headed
  <2>5. CASE Streamed(req, got)
    <3> DEFINE s == req.out \o req.data
    <3>1. (req.client \o req.out) \o req.data = req.client \o s
      BY <1>3, AssocBytes
    <3>2. s \in Seq(Byte)
      BY <1>3, Cat, Zenon
    <3> HIDE DEF s
    <3>3. Streams(got) /\ d.client \o s = Lead \o Child(From, got)
      BY <1>4, <2>5, <3>1, Zenon DEF Streamed
    <3> QED BY <1>4, <3>2, <3>3, Zenon DEF Cut
  <2> QED BY <2>1, <2>2, <2>3, <2>4, <2>5, Zenon
<1>10. "short" \notin slips' => Flows(req', got', turn', slips')
  BY <1>1, <1>4, <1>8, <1>9, Zenon DEF Flows
<1>11. AtEof(got') => AtEof(got)'
  BY <1>1, <1>2 DEF AtEof
<1>12. /\ got' \in Nat /\ written' \in Nat /\ got' <= written' /\ written' <= script.len
       /\ closed' \in BOOLEAN /\ turn' \in {"top", "handle", "blocked", "over"} /\ Inside(req')
  BY <1>1, <1>2, <1>7, Zenon
<1>13. req'.cgi_status = "CGI_PARSE" /\ req'.status # "DEAD"
         => Parsing(req', got') /\ turn' \in {"top", "blocked"}
  BY <1>1, <1>4, Zenon
<1> QED BY <1>1, <1>2, <1>10, <1>11, <1>12, <1>13, Carried, Zenon

-----------------------------------------------------------------------------
LEMMA NothingRead == Child(1, 0) = <<>>
<1>1. 1 \in Int /\ 1 - 1 = 0
  OBVIOUS
<1> QED BY <1>1, ChildNone, Zenon

\* A request as init_cgi leaves it.
LEMMA StartedRight ==
  ASSUME script \in Scripts, NEW w \in 0..Window
  PROVE  /\ Inside(Started(script, w)) /\ Started(script, w).status = "PIPE_READ"
         /\ Started(script, w).cgi_status = "CGI_PARSE" => Parsing(Started(script, w), 0)
         /\ Started(script, w).cgi_status = "CGI_PARSE" \/ Streamed(Started(script, w), 0)
<1> DEFINE half == BufferSize \div 2
           fresh == [status |-> "PIPE_READ", cgi_status |-> "CGI_PARSE", header_line |-> half,
                     data |-> <<>>, buffer_start |-> 0, out |-> <<>>, client |-> <<>>, window |-> w]
           text == IF script.http09 THEN <<>> ELSE Own
           e == [fresh EXCEPT !.cgi_status = "CGI_BUFFER", !.header_line = 0, !.out = text]
           f == ReqFlush(e)
           q == Started(script, w)
<1>1. q = IF script.field # "index" THEN fresh ELSE f
  BY Zenon DEF Started, Own
<1>2. /\ script.own \in Nat /\ script.hlen \in Nat
      /\ script.field = "index" => script.own <= BufferSize
      /\ script.field # "index" => script.hlen > 0
      /\ Own \in Seq(Byte) /\ Len(Own) = script.own
  BY ScriptTyped, TextsTyped
<1>3. half \in Nat /\ half + 0 <= BufferSize + 1 /\ half <= BufferSize
  BY Constants
<1> HIDE DEF half, text
<1>4. /\ fresh = [x \in Fields |-> fresh[x]] /\ fresh.data = <<>> /\ fresh.header_line = half
      /\ fresh.client = <<>> /\ fresh.out = <<>> /\ fresh.buffer_start = 0
      /\ fresh.window = w /\ fresh.status = "PIPE_READ" /\ fresh.cgi_status = "CGI_PARSE"
  BY DEF Fields
<1> HIDE DEF fresh
<1>5. /\ e = [x \in Fields |-> e[x]] /\ e.data = <<>> /\ e.header_line = 0
      /\ e.client = <<>> /\ e.out = text /\ e.buffer_start = 0
      /\ e.window = w /\ e.status = "PIPE_READ" /\ e.cgi_status = "CGI_BUFFER"
  BY <1>4 DEF Fields
<1> HIDE DEF e, q
<1>6. /\ "PIPE_READ" \in Statuses /\ "CGI_PARSE" \in CgiStatuses /\ "CGI_BUFFER" \in CgiStatuses
      /\ "CGI_BUFFER" # "CGI_PARSE" /\ "PIPE_READ" # "PIPE_WRITE"
      /\ <<>> \in Seq(Byte) /\ Len(<<>>) = 0 /\ 0 \in Nat
  BY DEF Statuses, CgiStatuses
<1>7. 0 + 0 <= BufferSize /\ 0 <= BufferSize /\ 0 + 0 <= BufferSize + 1
  BY Constants
<1>8. CASE script.field # "index"
  <2>1. q = fresh
    BY <1>1, <1>8, Zenon
  <2>2. HeaderEnd(fresh) <= BufferSize + 1 /\ BufferEnd(fresh) <= BufferSize
    BY <1>3, <1>4, <1>6, <1>7, Zenon DEF HeaderEnd, BufferEnd
  <2>3. Inside(fresh)
    BY <1>3, <1>4, <1>6, <2>2, Zenon DEF Inside
  <2>4. ~(0 >= script.hlen)
    BY <1>2, <1>8
  <2>5. ~HeaderFound(fresh)
    BY <1>4, <1>6, <2>4, Zenon DEF HeaderFound
  <2>6. Parsing(fresh, 0)
    BY <1>4, <1>8, <2>5, NothingRead, Zenon DEF Parsing, half
  <2> QED BY <1>4, <2>1, <2>3, <2>6, Zenon DEF q
<1>9. CASE script.field = "index"
  <2>1. q = f
    BY <1>1, <1>9, Zenon
  <2>2. text \in Seq(Byte) /\ Len(text) <= BufferSize /\ Len(text) \in Nat
    BY <1>2, <1>6, <1>7, <1>9, Zenon DEF text
  <2>3. 0 + Len(text) <= BufferSize
    BY <2>2
  <2>4. HeaderEnd(e) <= BufferSize + 1 /\ BufferEnd(e) <= BufferSize
    BY <1>5, <1>6, <1>7, <2>3, Zenon DEF HeaderEnd, BufferEnd
  <2>5. Inside(e)
    BY <1>5, <1>6, <1>7, <2>2, <2>4, Zenon DEF Inside
  <2>6. /\ Inside(f) /\ f.client \o f.out = e.client \o e.out /\ f.status = "PIPE_READ"
        /\ f.cgi_status = "CGI_BUFFER" /\ f.data = <<>>
    BY <1>5, <2>5, Flushed, Zenon
  <2> HIDE DEF f
  <2>7. script.field # "status"
    BY <1>9
  <2>8. Lead = text /\ From = 1 /\ Streams(0)
    BY <1>9, <2>7, Zenon DEF Lead, From, Streams, text
  <2>9. (f.client \o f.out) \o f.data = Lead \o Child(From, 0)
    <3>1. <<>> \o text = text /\ text \o <<>> = text
      BY <2>2, Empty
    <3>2. f.client \o f.out = text
      BY <1>5, <2>6, <3>1, Zenon
    <3> QED BY <2>6, <2>8, <3>1, <3>2, NothingRead, Zenon
  <2>10. Streamed(f, 0)
    BY <1>6, <2>6, <2>8, <2>9, Zenon DEF Streamed
  <2> QED BY <1>6, <2>1, <2>6, <2>10, Zenon DEF q
<1> QED BY <1>8, <1>9, Zenon

LEMMA Initial == Init => IInv
<1> SUFFICES ASSUME Init PROVE IInv
  OBVIOUS
<1>1. /\ script \in Scripts /\ written = 0 /\ closed = FALSE /\ got = 0
      /\ turn = "top" /\ slips = {}
  BY Zenon DEF Init
<1>2. PICK w \in 0..Window : req = Started(script, w)
  BY Zenon DEF Init
<1>3. /\ Inside(req) /\ req.status = "PIPE_READ"
      /\ req.cgi_status = "CGI_PARSE" => Parsing(req, 0)
      /\ req.cgi_status = "CGI_PARSE" \/ Streamed(req, 0)
  BY <1>1, <1>2, StartedRight, Zenon
<1>4. got \in Nat /\ written \in Nat /\ got <= written /\ written <= script.len
  <2>1. script.len \in Nat
    BY <1>1, ScriptTyped
  <2> QED BY <1>1, <2>1
<1>5. closed \in BOOLEAN /\ turn \in {"top", "handle", "blocked", "over"} /\ turn \in {"top", "blocked"}
      /\ turn # "over" /\ turn # "handle" /\ "PIPE_READ" # "DEAD"
  BY <1>1
<1>6. Typed
  BY <1>1, <1>3, <1>4, <1>5, Zenon DEF Typed
<1>7. Flows(req, got, turn, slips)
  BY <1>1, <1>3, <1>5, Zenon DEF Flows
<1> QED BY <1>6, <1>7, Zenon DEF IInv, InOrder

LEMMA Inductive == IInv /\ [Next]_vars => IInv'
<1> SUFFICES ASSUME IInv, [Next]_vars PROVE IInv'
  OBVIOUS
<1>1. CASE ChildWrites
  BY <1>1, ChildWritesStep
<1>2. CASE ChildExits
  BY <1>2, ChildExitsStep
<1>3. CASE ClientReads
  BY <1>3, ClientStep
<1>4. CASE Fails
  BY <1>4, FailStep
<1>5. CASE TopFlush
  BY <1>5, FlushStep
<1>6. CASE ReadFromPipe
  BY <1>6, ReadStep
<1>7. CASE ReadEof
  BY <1>7, EofStep
<1>8. CASE ReadBlocks
  BY <1>8, BlockStep
<1>9. CASE ReadFull
  BY <1>9, FullStep
<1>10. CASE PipeWrite
  BY <1>10, WriteStep
<1>11. CASE FlushDone
  BY <1>11, DoneStep
<1>12. CASE Wake \/ Over \/ UNCHANGED vars
  BY <1>12, WakeStep DEF Over
<1> QED BY <1>1, <1>2, <1>3, <1>4, <1>5, <1>6, <1>7, <1>8, <1>9, <1>10, <1>11, <1>12 DEF Next, Server

LEMMA Invariance == Spec => []IInv
BY Initial, Inductive, PTL DEF Spec

-----------------------------------------------------------------------------
\* All the data stays inside the one buffer, whatever sizes the child writes
\* and the client reads, and the server's header and the child's data, which
\* share it, do not overlap unless a handler ran behind a short flush or a
\* redirection is longer than the first half.
THEOREM TypeCorrect == Spec => []TypeOK
<1>1. IInv => TypeOK
  <2> SUFFICES ASSUME IInv PROVE TypeOK
    OBVIOUS
  <2>1. /\ script \in Scripts /\ got \in Nat /\ written \in Nat /\ got <= written
        /\ written <= script.len /\ Inside(req)
    BY Zenon DEF IInv, Typed
  <2>2. got \in 0..written /\ written \in 0..script.len
    <3>1. script.len \in Nat
      BY <2>1, ScriptTyped
    <3> QED BY <2>1, <3>1
  <2>3. /\ req.status \in {"PIPE_READ", "PIPE_WRITE", "DONE", "DEAD"}
        /\ req.cgi_status \in {"CGI_PARSE", "CGI_BUFFER", "CGI_DONE"}
        /\ req.window \in 0..Window /\ req.header_line \in Nat
        /\ HeaderEnd(req) <= BufferSize + 1 /\ BufferEnd(req) <= BufferSize
    BY <2>1, Zenon DEF Inside, Statuses, CgiStatuses
  <2>4. req.header_line >= 0
    BY <2>3
  <2>5. ASSUME "short" \notin slips, req.out # <<>>, req.data # <<>>
        PROVE  BufferEnd(req) <= req.header_line \/ (script.field = "location" /\ ~RoomFor(got))
    <3>1. Flows(req, got, turn, slips)
      BY <2>5, Zenon DEF IInv, InOrder
    <3>2. ~(req.cgi_status = "CGI_PARSE" /\ req.status # "DEAD")
      BY <2>5, Zenon DEF IInv, Typed, Parsing
    <3> QED BY <2>5, <3>1, <3>2, Zenon DEF Flows, Paged, Headed, Streamed, Cut, Apart, MoveDue
  <2> QED BY <2>2, <2>3, <2>4, <2>5, Zenon DEF TypeOK
<1> QED BY <1>1, Invariance, PTL

-----------------------------------------------------------------------------
LEMMA Begins ==
  ASSUME NEW s \in Seq(Byte), NEW t \in Seq(Byte)
  PROVE  IsPrefix(s, s \o t)
<1>1. Len(s) \in Nat /\ Len(s \o t) = Len(s) + Len(t) /\ Len(t) \in Nat
  OBVIOUS
<1>2. SubSeq(s \o t, 1, Len(s)) = s
  OBVIOUS
<1>3. SubSeq(s, 1, Len(s)) = s
  OBVIOUS
<1>4. Len(s) <= Len(s \o t)
  BY <1>1
<1> QED BY <1>2, <1>3, <1>4, Zenon DEF IsPrefix

\* What is due after some of the output is what is expected after all of it.
LEMMA ExpectedPage ==
  ASSUME IInv, PageDue(got), Fits
  PROVE  Expected(written) = PageText(got)
<1>1. script \in Scripts /\ got \in Nat /\ written \in Nat /\ got <= written
  BY Zenon DEF IInv, Typed
<1>2. script.hlen \in Nat /\ script.own \in Nat /\ Half \in Int /\ BufferSize \in Nat
  BY <1>1, ScriptTyped, Constants DEF Half
<1>3. ~Overlong
  BY <1>2 DEF Fits, Overlong
<1>4. /\ "none" # "index" /\ "location" # "index" /\ "location" # "none" /\ "location" # "refused"
      /\ "refused" # "none" /\ "refused" # "index"
  OBVIOUS
<1>5. got >= script.hlen => ~(written < script.hlen)
  BY <1>1, <1>2
<1>6. CASE MoveDue(got)
  <2>1. Moved(got) = Redirection(got)
    BY <1>6, Zenon DEF MoveDue, Fits, Moved
  <2> QED BY <1>4, <1>5, <1>6, <2>1, Zenon DEF MoveDue, PageText, Expected
<1>7. CASE ~MoveDue(got)
  <2>1. \/ script.field = "none"
        \/ script.field # "index" /\ written < script.hlen
        \/ script.field = "refused" /\ ~script.http09
    BY <1>3, <1>7, Zenon DEF PageDue, AtEof
  <2> QED BY <1>4, <1>7, <2>1, Zenon DEF PageText, Expected
<1> QED BY <1>6, <1>7, Zenon

LEMMA ExpectedHead ==
  ASSUME IInv, HeadDue(got)
  PROVE  Expected(written) = Own \o Child(1, script.hlen - 1)
<1>1. script \in Scripts /\ got \in Nat /\ written \in Nat /\ got <= written
  BY Zenon DEF IInv, Typed
<1>2. script.hlen \in Nat
  BY <1>1, ScriptTyped
<1>3. script.field = "plain" /\ ~script.http09 /\ script.head /\ ~(written < script.hlen)
  BY <1>1, <1>2 DEF HeadDue
<1>4. /\ script.field # "index" /\ script.field # "none" /\ script.field # "location"
      /\ script.field # "status" /\ script.field # "refused"
  BY <1>3
<1> QED BY <1>3, <1>4, Zenon DEF Expected

LEMMA ExpectedStream ==
  ASSUME IInv, Streams(got)
  PROVE  Expected(written) = Lead \o Child(From, written)
<1>1. script \in Scripts /\ got \in Nat /\ written \in Nat /\ got <= written
  BY Zenon DEF IInv, Typed
<1>2. script.hlen \in Nat /\ Lead \in Seq(Byte) /\ Own \in Seq(Byte)
  BY <1>1, ScriptTyped, TextsTyped
<1>3. script.field # "index" => ~(written < script.hlen)
  BY <1>1, <1>2 DEF Streams
<1>4. /\ "index" # "status" /\ "plain" # "status" /\ "plain" # "location" /\ "plain" # "none" /\ "plain" # "index"
      /\ "status" # "none" /\ "status" # "index" /\ "status" # "location"
      /\ "location" # "none" /\ "location" # "index" /\ "refused" # "none" /\ "refused" # "index"
      /\ "plain" # "refused" /\ "status" # "refused"
  OBVIOUS
<1>5. CASE script.field = "index"
  BY <1>4, <1>5, Zenon DEF Expected, Lead, From
<1>6. CASE script.field # "index" /\ script.http09
  <2>1. Lead = <<>> /\ From = script.hlen
    BY <1>6, Zenon DEF Lead, From
  <2>2. Child(script.hlen, written) \in Seq(Byte)
    <3>1. script.hlen \in Int /\ written \in Int /\ script.hlen <= written + 1
      BY <1>1, <1>2, <1>3, <1>6
    <3> QED BY <3>1, ChildTyped, Zenon
  <2>3. <<>> \o Child(script.hlen, written) = Child(script.hlen, written)
    BY <2>2, Empty
  <2>4. script.field # "none"
    BY <1>4, <1>6, Zenon DEF Streams
  <2>5. Expected(written) = Child(script.hlen, written)
    BY <1>3, <1>6, <2>4, Zenon DEF Expected
  <2> QED BY <2>1, <2>3, <2>5, Zenon
<1>7. CASE script.field # "index" /\ ~script.http09
  <2>1. script.field = "status" \/ (script.field = "plain" /\ ~script.head)
    BY <1>7, Zenon DEF Streams
  <2> QED BY <1>3, <1>4, <1>7, <2>1, Zenon DEF Expected, Lead, From
<1> QED BY <1>5, <1>6, <1>7, Zenon

LEMMA ExpectedTyped ==
  ASSUME IInv
  PROVE  Expected(written) \in Seq(Byte)
<1>1. script \in Scripts /\ written \in Nat /\ got \in Nat
  BY Zenon DEF IInv, Typed
<1>8. Redirection(got) \in Seq(Byte)
  BY <1>1, MovedTyped, Zenon
<1>2. /\ script.hlen \in Nat /\ Own \in Seq(Byte) /\ Page \in Seq(Byte) /\ <<StatusLine>> \in Seq(Byte)
      /\ script.field # "index" => script.hlen > 0
  BY <1>1, ScriptTyped, TextsTyped
<1>3. \A n \in Nat : Child(1, n) \in Seq(Byte)
  <2> TAKE n \in Nat
  <2>1. 1 \in Int /\ n \in Int /\ 1 <= n + 1
    OBVIOUS
  <2> QED BY <2>1, ChildTyped, Zenon
<1>4. script.field # "index" => script.hlen - 1 \in Nat
  BY <1>2
<1>5. ~(written < script.hlen) => Child(script.hlen, written) \in Seq(Byte)
  <2>1. script.hlen \in Int /\ written \in Int /\ (~(written < script.hlen) => script.hlen <= written + 1)
    BY <1>1, <1>2
  <2> QED BY <2>1, ChildTyped, Zenon
<1>6. \A s, t \in Seq(Byte) : s \o t \in Seq(Byte) /\ <<>> \in Seq(Byte)
  OBVIOUS
<1>7. \/ Expected(written) \in {Page, Child(script.hlen, written)} /\ (Expected(written) # Page => ~(written < script.hlen))
      \/ Expected(written) = Redirection(got)
      \/ Expected(written) = <<>> \o Child(1, written)
      \/ Expected(written) = Own \o Child(1, written)
      \/ Expected(written) = <<StatusLine>> \o Child(1, written)
      \/ Expected(written) = Own \o Child(1, script.hlen - 1) /\ script.field # "index"
  BY Zenon DEF Expected
<1> QED BY <1>1, <1>2, <1>3, <1>4, <1>5, <1>6, <1>7, <1>8, Zenon

\* The beginning of what was read is the beginning of what was written.
LEMMA StreamBegins ==
  ASSUME IInv, Streams(got), NEW x \in Seq(Byte), NEW y \in Seq(Byte),
         x \o y = Lead \o Child(From, got)
  PROVE  IsPrefix(x, Expected(written))
<1> DEFINE n == written - got
           u == Child(From, got)
           t == Child(got + 1, got + n)
           l == Lead
<1>1. script \in Scripts /\ got \in Nat /\ n \in Nat /\ got + n = written
  <2>1. script \in Scripts /\ got \in Nat /\ written \in Nat /\ got <= written
    BY Zenon DEF IInv, Typed
  <2> QED BY <2>1
<1> HIDE DEF n
<1>2. u \in Seq(Byte) /\ t \in Seq(Byte) /\ u \o t = Child(From, got + n) /\ l \in Seq(Byte)
  BY <1>1, StreamsOn, TextsTyped, Zenon
<1>3. x \o y = l \o u
  BY Zenon
<1> HIDE DEF u, t, l
<1>4. (x \o y) \o t = x \o (y \o t) /\ (l \o u) \o t = l \o (u \o t)
  BY <1>2, AssocBytes
<1>5. x \o (y \o t) = l \o (u \o t)
  BY <1>3, <1>4, Zenon
<1>6. y \o t \in Seq(Byte)
  BY <1>2, Cat, Zenon
<1>7. IsPrefix(x, x \o (y \o t))
  BY <1>6, Begins, Zenon
<1>8. Expected(written) = l \o (u \o t)
  BY <1>1, <1>2, ExpectedStream, Zenon DEF l
<1> QED BY <1>5, <1>7, <1>8, Zenon

\* Whatever the sizes of the child's writes and of the client's reads, the
\* client has a beginning of the server's header and the child's output, in
\* order, with nothing lost in the middle and nothing twice: read_from_pipe,
\* write_from_pipe and process_cgi_header never mix up what they share.  Only a
\* header or a redirection that does not fit is answered otherwise.
THEOREM OutputInOrder == Spec => []InOrderUnlessShort
<1>1. IInv => InOrderUnlessShort
  <2> SUFFICES ASSUME IInv, "short" \notin slips
               PROVE  \/ IsPrefix(req.client, Expected(written))
                      \/ ~Fits /\ IsPrefix(req.client, Page)
                      \/ ~Fits /\ script.field = "location" /\ IsPrefix(req.client, Moved(got))
    BY Zenon DEF InOrderUnlessShort
  <2> DEFINE x == req.client
  <2>1. /\ script \in Scripts /\ Inside(req) /\ Flows(req, got, turn, slips)
        /\ x \in Seq(Byte) /\ req.out \in Seq(Byte) /\ req.data \in Seq(Byte)
        /\ req.cgi_status = "CGI_PARSE" /\ req.status # "DEAD" => Parsing(req, got)
    BY Zenon DEF IInv, Typed, InOrder, Inside
  <2>2. ASSUME NEW s \in Seq(Byte), PageDue(got), x \o s = PageText(got)
        PROVE  \/ IsPrefix(x, Expected(written))
               \/ ~Fits /\ IsPrefix(x, Page)
               \/ ~Fits /\ script.field = "location" /\ IsPrefix(x, Moved(got))
    <3>1. IsPrefix(x, PageText(got))
      <4>1. IsPrefix(x, x \o s)
        BY <2>1, Begins, Zenon
      <4> QED BY <2>2, <4>1, Zenon
    <3> QED BY <2>2, <3>1, ExpectedPage, Zenon DEF PageText, MoveDue
  <2>3. ASSUME NEW s \in Seq(Byte), HeadDue(got), x \o s = Own \o Child(1, script.hlen - 1)
        PROVE  IsPrefix(x, Expected(written))
    <3>1. IsPrefix(x, x \o s)
      BY <2>1, Begins, Zenon
    <3> QED BY <2>3, <3>1, ExpectedHead, Zenon
  <2>4. ASSUME NEW s \in Seq(Byte), Streams(got), x \o s = Lead \o Child(From, got)
        PROVE  IsPrefix(x, Expected(written))
    BY <2>1, <2>4, StreamBegins, Zenon
  <2>5. ASSUME x = <<>> PROVE IsPrefix(x, Page) /\ IsPrefix(x, Expected(written))
    <3>2. \A t \in Seq(Byte) : IsPrefix(<<>>, t)
      <4> TAKE t \in Seq(Byte)
      <4>1. <<>> \in Seq(Byte) /\ <<>> \o t = t
        BY Empty
      <4>2. IsPrefix(<<>>, <<>> \o t)
        BY <4>1, Begins, Zenon
      <4> QED BY <4>1, <4>2, Zenon
    <3>3. Page \in Seq(Byte) /\ Expected(written) \in Seq(Byte)
      BY <2>1, ExpectedTyped, TextsTyped, Zenon
    <3> QED BY <2>5, <3>2, <3>3, Zenon
  <2>6. CASE req.cgi_status = "CGI_PARSE" /\ req.status # "DEAD"
    BY <2>1, <2>5, <2>6, Zenon DEF Parsing
  <2>7. CASE Paged(req, got)
    BY <2>1, <2>2, <2>7, Zenon DEF Paged
  <2>8. CASE Headed(req, got)
    BY <2>1, <2>3, <2>8, Zenon DEF Headed
  <2>9. CASE Streamed(req, got)
    <3> DEFINE s == req.out \o req.data
    <3>1. (x \o req.out) \o req.data = x \o s /\ s \in Seq(Byte)
      BY <2>1, AssocBytes, Cat
    <3> HIDE DEF s
    <3>2. Streams(got) /\ x \o s = Lead \o Child(From, got)
      BY <2>9, <3>1, Zenon DEF Streamed
    <3> QED BY <2>4, <3>1, <3>2, Zenon
  <2>10. CASE Cut(req, got)
    <3>1. CASE x = <<>>
      BY <2>5, <3>1, Zenon
    <3>2. CASE x # <<>>
      <4>1. PICK s \in Seq(Byte) : \/ PageDue(got) /\ x \o s = PageText(got)
                                   \/ HeadDue(got) /\ x \o s = Own \o Child(1, script.hlen - 1)
                                   \/ Streams(got) /\ x \o s = Lead \o Child(From, got)
        BY <2>10, <3>2, Zenon DEF Cut
      <4> QED BY <2>2, <2>3, <2>4, <4>1, Zenon
    <3> QED BY <3>1, <3>2, Zenon
  <2> QED BY <2>1, <2>6, <2>7, <2>8, <2>9, <2>10, Zenon DEF Flows
<1> QED BY <1>1, Invariance, PTL

\* A response that no error and no given-up flush cut is whole: CGI_DONE, set
\* when the header has been parsed, does not end it before the child has.  What
\* is excepted is a header or a redirection that does not fit: the one gets an
\* error page, the other ends spoilt (cgi_header.c:411).
THEOREM OutputWhole == Spec => []WholeUnlessCut
<1>1. IInv => WholeUnlessCut
  <2> SUFFICES ASSUME IInv, turn = "over", req.status # "DEAD", slips = {}
               PROVE  \/ req.client = Expected(written)
                      \/ ~Fits /\ req.client = Page
                      \/ ~Fits /\ script.field = "location" /\ req.client = Moved(got)
    BY Zenon DEF WholeUnlessCut
  <2>1. "short" \notin slips /\ "last" \notin slips /\ turn \notin {"top", "blocked"}
    OBVIOUS
  <2>2. /\ script \in Scripts /\ Inside(req) /\ Flows(req, got, turn, slips)
        /\ req.client \in Seq(Byte) /\ req.client \o <<>> = req.client
        /\ ~(req.cgi_status = "CGI_PARSE" /\ req.status # "DEAD")
    BY <2>1, Empty, Zenon DEF IInv, Typed, InOrder, Inside
  <2>3. \/ (Paged(req, got) \/ Headed(req, got)) /\ req.out = <<>>
        \/ Streamed(req, got) /\ req.out = <<>> /\ req.data = <<>> /\ AtEof(got)
    BY <2>1, <2>2, Zenon DEF Flows, Closing
  <2>4. CASE Paged(req, got) /\ req.out = <<>>
    <3>1. PageDue(got) /\ req.client = PageText(got)
      BY <2>2, <2>4, Zenon DEF Paged
    <3> QED BY <3>1, ExpectedPage, Zenon DEF PageText, MoveDue
  <2>5. CASE Headed(req, got) /\ req.out = <<>>
    <3>1. HeadDue(got) /\ req.client = Own \o Child(1, script.hlen - 1)
      BY <2>2, <2>5, Zenon DEF Headed
    <3> QED BY <3>1, ExpectedHead, Zenon
  <2>6. CASE Streamed(req, got) /\ req.out = <<>> /\ req.data = <<>> /\ AtEof(got)
    <3>1. Streams(got) /\ req.client = Lead \o Child(From, got) /\ got = written
      BY <2>2, <2>6, Zenon DEF Streamed, AtEof
    <3> QED BY <3>1, ExpectedStream, Zenon
  <2> QED BY <2>3, <2>4, <2>5, <2>6, Zenon
<1> QED BY <1>1, Invariance, PTL
=============================================================================
