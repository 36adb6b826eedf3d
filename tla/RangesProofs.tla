--------------------------- MODULE RangesProofs ---------------------------
(***************************************************************************)
(* Proofs about Ranges for words and files of every size and headers of    *)
(* every length: what ranges_fixup leaves lies inside the file, and is     *)
(* what the client asked for.                                              *)
(***************************************************************************)
EXTENDS Ranges, WellFoundedInduction, FiniteSetTheorems, TLAPS

\* Induction, over sets of naturals with the well-founded order of <.
LEMMA Least ==
  ASSUME NEW T \in SUBSET Nat, T # {}
  PROVE  \E n \in T : \A m \in T : n <= m
<1>1. PICK n \in T : \A m \in T : ~(<<m, n>> \in OpToRel(<, Nat))
  BY WFMin, NatLessThanWellFounded
<1>2. \A m \in T : ~(m < n)
  BY <1>1 DEF OpToRel
<1> QED BY <1>2

\* A set that has 0 and, with a number, the next one has them all.
LEMMA Induct ==
  ASSUME NEW T \in SUBSET Nat, 0 \in T, \A n \in T : n + 1 \in T
  PROVE  T = Nat
<1> SUFFICES ASSUME Nat \ T # {} PROVE FALSE OBVIOUS
<1>1. PICK n \in Nat \ T : \A m \in Nat \ T : n <= m
  BY Least
<1>2. n # 0 /\ n - 1 \in Nat /\ n - 1 \in T
  BY <1>1
<1> QED BY <1>2

\* F is the loop of Filter over the first n elements of s.
FilterLoop(s, K, F, n) ==
  F = [i \in 0..n |->
         IF i = 0 THEN <<>>
         ELSE IF s[i] \in K THEN Append(F[i - 1], s[i]) ELSE F[i - 1]]

LEMMA FilterExists ==
  ASSUME NEW s, NEW K
  PROVE  \A n \in Nat : \E F : FilterLoop(s, K, F, n)
<1> DEFINE T == {n \in Nat : \E F : FilterLoop(s, K, F, n)}
<1>1. 0 \in T
  <2>1. FilterLoop(s, K, [i \in 0..0 |-> <<>>], 0)
    BY DEF FilterLoop
  <2> QED BY <2>1
<1>2. ASSUME NEW n \in T PROVE n + 1 \in T
  <2>1. PICK F : FilterLoop(s, K, F, n)
    OBVIOUS
  <2>2. n \in Nat
    OBVIOUS
  <2> DEFINE G == [i \in 0..(n + 1) |->
                     IF i <= n THEN F[i]
                     ELSE IF s[i] \in K THEN Append(F[i - 1], s[i]) ELSE F[i - 1]]
             H == [i \in 0..(n + 1) |->
                     IF i = 0 THEN <<>>
                     ELSE IF s[i] \in K THEN Append(G[i - 1], s[i]) ELSE G[i - 1]]
  <2>3. \A i \in 0..n : G[i] = F[i]
    BY <2>2
  <2>4. \A i \in 0..n : F[i] = IF i = 0 THEN <<>>
                               ELSE IF s[i] \in K THEN Append(F[i - 1], s[i]) ELSE F[i - 1]
    BY <2>1, <2>2 DEF FilterLoop
  <2>5. G[n + 1] = IF s[n + 1] \in K THEN Append(G[n], s[n + 1]) ELSE G[n]
    BY <2>2, <2>3
  <2> HIDE DEF G
  <2>6. \A i \in 0..(n + 1) : G[i] = H[i]
    <3> TAKE i \in 0..(n + 1)
    <3>1. CASE i = 0
      BY <2>2, <2>3, <2>4, <3>1
    <3>2. CASE i \in 1..n
      <4>1. i - 1 \in 0..n /\ i \in 0..n /\ i # 0
        BY <2>2, <3>2
      <4>2. G[i] = F[i] /\ G[i - 1] = F[i - 1]
        BY <2>3, <4>1
      <4> QED BY <2>4, <4>1, <4>2
    <3>3. CASE i = n + 1
      BY <2>2, <2>5, <3>3
    <3> QED BY <2>2, <3>1, <3>2, <3>3
  <2>7. G = H
    BY <2>6 DEF G
  <2>8. FilterLoop(s, K, G, n + 1)
    BY <2>7, Zenon DEF FilterLoop, H
  <2> QED BY <2>2, <2>8
<1> HIDE DEF T
<1>3. T = Nat
  BY <1>1, <1>2, Induct DEF T
<1> QED BY <1>3 DEF T

LEMMA FilterUnfolds ==
  ASSUME NEW s, NEW K, Len(s) \in Nat
  PROVE  \E F : FilterLoop(s, K, F, Len(s)) /\ Filter(s, K) = F[Len(s)]
<1>1. \E F : FilterLoop(s, K, F, Len(s))
  BY FilterExists
<1>2. FilterLoop(s, K, CHOOSE F : FilterLoop(s, K, F, Len(s)), Len(s))
  BY <1>1, Zenon
<1>3. Filter(s, K) = (CHOOSE F : FilterLoop(s, K, F, Len(s)))[Len(s)]
  BY Zenon DEF Filter, FilterLoop
<1> QED BY <1>2, <1>3, Zenon

Elements(s) == {s[i] : i \in DOMAIN s}
Distinct(s) == \A i, j \in DOMAIN s : s[i] = s[j] => i = j

\* Taking elements out keeps a list a list, with the elements of K that were
\* there, and brings in no second copy of any.
LEMMA FilterKeeps ==
  ASSUME NEW S, NEW s \in Seq(S), NEW K
  PROVE  /\ Filter(s, K) \in Seq(S)
         /\ Len(Filter(s, K)) <= Len(s)
         /\ Elements(Filter(s, K)) = Elements(s) \cap K
         /\ Distinct(s) => Distinct(Filter(s, K))
<1>1. PICK F : FilterLoop(s, K, F, Len(s)) /\ Filter(s, K) = F[Len(s)]
  BY FilterUnfolds
<1>2. F[0] = <<>>
  BY <1>1 DEF FilterLoop
<1>3. \A i \in 1..Len(s) : F[i] = IF s[i] \in K THEN Append(F[i - 1], s[i]) ELSE F[i - 1]
  <2> TAKE i \in 1..Len(s)
  <2>1. i \in 0..Len(s) /\ i # 0
    OBVIOUS
  <2>2. F[i] = IF i = 0 THEN <<>>
               ELSE IF s[i] \in K THEN Append(F[i - 1], s[i]) ELSE F[i - 1]
    BY <1>1, <2>1, Zenon DEF FilterLoop
  <2> QED BY <2>1, <2>2
<1> DEFINE Good(i) ==
             /\ F[i] \in Seq(S) /\ Len(F[i]) <= i
             /\ Elements(F[i]) = {s[j] : j \in 1..i} \cap K
             /\ Distinct(s) => Distinct(F[i])
           T == {i \in Nat : i <= Len(s) => Good(i)}
<1>4. 0 \in T
  <2>1. Elements(<<>>) = {} /\ Distinct(<<>>)
    BY DEF Elements, Distinct
  <2>2. {s[j] : j \in 1..0} = {}
    OBVIOUS
  <2>3. Elements(F[0]) = {} /\ Distinct(F[0]) /\ F[0] \in Seq(S) /\ Len(F[0]) = 0
    BY <1>2, <2>1
  <2>4. Good(0)
    BY <2>2, <2>3
  <2> HIDE DEF Good
  <2> QED BY <2>4
<1>5. ASSUME NEW i \in T PROVE i + 1 \in T
  <2> SUFFICES ASSUME i + 1 <= Len(s) PROVE Good(i + 1)
    OBVIOUS
  <2>1. Good(i) /\ i \in Nat /\ i + 1 \in 1..Len(s)
    OBVIOUS
  <2>2. F[i + 1] = IF s[i + 1] \in K THEN Append(F[i], s[i + 1]) ELSE F[i]
    BY <1>3, <2>1
  <2>3. {s[j] : j \in 1..(i + 1)} = {s[j] : j \in 1..i} \cup {s[i + 1]}
    BY <2>1
  <2>4. s[i + 1] \in S
    BY <2>1
  <2> HIDE DEF T
  <2>5. CASE s[i + 1] \notin K
    BY <2>1, <2>2, <2>3, <2>5
  <2>6. CASE s[i + 1] \in K
    <3> DEFINE g == F[i]
               h == Append(g, s[i + 1])
    <3>1. F[i + 1] = h /\ g \in Seq(S) /\ Len(g) <= i
      BY <2>1, <2>2, <2>6
    <3>2. /\ h \in Seq(S) /\ Len(h) = Len(g) + 1
          /\ h[Len(g) + 1] = s[i + 1] /\ \A j \in 1..Len(g) : h[j] = g[j]
      BY <2>4, <3>1
    <3> HIDE DEF h, g
    <3>3. Elements(h) = Elements(g) \cup {s[i + 1]}
      BY <3>1, <3>2 DEF Elements
    <3>4. Elements(h) = {s[j] : j \in 1..(i + 1)} \cap K
      BY <2>1, <2>3, <2>6, <3>3 DEF g
    <3>5. ASSUME Distinct(s) PROVE Distinct(h)
      <4>1. Distinct(g) /\ \A j \in DOMAIN g : g[j] \in Elements(g)
        BY <2>1, <3>5 DEF g, Elements
      <4>2. \A k \in 1..i : s[k] # s[i + 1]
        BY <2>1, <3>5 DEF Distinct
      <4>3. s[i + 1] \notin Elements(g)
        BY <2>1, <4>2 DEF g
      <4>4. \A j, k \in 1..Len(g) : g[j] = g[k] => j = k
        BY <3>1, <4>1 DEF Distinct
      <4>5. \A j \in 1..Len(g) : g[j] # s[i + 1]
        BY <3>1, <4>1, <4>3
      <4> QED BY <3>1, <3>2, <4>4, <4>5 DEF Distinct
    <3> QED BY <2>1, <3>1, <3>2, <3>4, <3>5
  <2> QED BY <2>5, <2>6
<1>6. T = Nat
  <2> HIDE DEF Good
  <2> QED BY <1>4, <1>5, Induct
<1>7. Len(s) \in Nat
  OBVIOUS
<1>8. Good(Len(s))
  <2> HIDE DEF Good
  <2> QED BY <1>6, <1>7
<1>9. Elements(s) = {s[j] : j \in 1..Len(s)}
  BY DEF Elements
<1> QED BY <1>1, <1>8, <1>9

-----------------------------------------------------------------------------
Modes == {"initial", "startnum", "gap1", "gap2", "stopnum"}
Ranged == [start : 0..NotGiven, stop : 0..NotGiven]
Spoken == [first : Nat \cup {-1}, last : Nat \cup {-1}]

\* Past the hyphen of a range.
Inside == {"gap2", "stopnum"}

\* Every range submitted has cost a character, its hyphen.
CharsOK ==
  /\ left \in Nat /\ numranges \in Nat
  /\ numranges + left <= MaxChars
  /\ mode \in Inside => numranges + left + 1 <= MaxChars

\* The unsigned long n stands for the number x as written, unless x is too big
\* to tell.
Written(n, x) == IF x = -1 THEN n = NotGiven ELSE x < NotGiven => n = x

\* The list holds what was written, in its order; so do start and stop while a
\* range is being read.
SaidOK ==
  /\ first \in Nat \cup {-1} /\ last \in Nat \cup {-1}
  /\ said \in Seq(Spoken)
  /\ phase = "parsing" =>
       /\ Written(start, first) /\ Written(stop, last) /\ last # -1
       /\ first = -1 => mode \in Inside
  /\ phase \in {"headers", "parsing"} =>
       /\ Len(ranges) = Len(said)
       /\ \A i \in 1..Len(said) : /\ Written(ranges[i].start, said[i].first)
                                  /\ Written(ranges[i].stop, said[i].last)

IInv == TypeOK /\ CharsOK /\ SaidOK /\ InsideFile /\ SendsWhatIsAsked

\* The arithmetic of an unsigned long.
LEMMA Modulo ==
  ASSUME NEW n \in Nat
  PROVE  n % LongMod \in 0..NotGiven /\ (n < LongMod => n % LongMod = n)
BY RangesAssumption DEF NotGiven

\* stable, row by row.
LEMMA StableFacts ==
  ASSUME NEW m \in Modes, NEW code \in Codes \cup {"digit"}
  PROVE  LET f == Stable(m, code) IN
         /\ f[3] \in Modes
         /\ f[1] \in {"PB", "DB", "PE", "DE", ""} /\ f[2] \in {"SR", "AR", ""}
         /\ f[1] = "PB" => m \notin Inside
         /\ f[1] = "DB" => f[3] \in Inside
         /\ f[1] = "DE" => f[2] = "SR"
         /\ f[2] = "SR" => m \in Inside /\ f[3] = "initial"
         /\ f[3] \in Inside => code # "null"
         /\ m \in Inside => f[3] \in Inside \/ f[2] \in {"SR", "AR"}
<1>1. CASE m = "initial"
  BY <1>1 DEF Stable, Modes, Inside
<1>2. CASE m = "startnum"
  BY <1>2 DEF Stable, Modes, Inside
<1>3. CASE m = "gap1"
  BY <1>3 DEF Stable, Modes, Inside
<1>4. CASE m = "gap2"
  BY <1>4 DEF Stable, Modes, Inside, Codes
<1>5. CASE m = "stopnum"
  BY <1>5 DEF Stable, Modes, Inside, Codes
<1> QED BY <1>1, <1>2, <1>3, <1>4, <1>5 DEF Modes

\* The constants are natural numbers.
LEMMA Numbers ==
  /\ NotGiven \in Nat /\ NotGiven > 0 /\ LongMod = NotGiven + 1
  /\ MaxChars \in Nat /\ UIntMax \in Nat /\ UIntMax > 0 /\ UIntMax <= NotGiven
BY RangesAssumption DEF NotGiven

\* How the characters left bound the ranges: the arithmetic of CharsOK.
LEMMA Counts ==
  ASSUME NEW n \in Nat, NEW l \in Nat, NEW k \in Nat, NEW m \in Nat, k <= l
  PROVE  /\ n + l <= m => n \in 0..m /\ n + k <= m
         /\ n + l + 1 <= m => n + 1 \in Nat /\ (n + 1) + k <= m
         /\ n + l <= m /\ k + 1 <= l => n + k + 1 <= m
OBVIOUS

LEMMA InitOK == Init => IInv
<1> SUFFICES ASSUME Init PROVE IInv OBVIOUS
<1>1. TypeOK
  <2>1. skipped \in BOOLEAN
    BY Zenon DEF Init
  <2>2. /\ start \in 0..NotGiven /\ stop \in 0..NotGiven
        /\ ranges = <<>> /\ numranges \in 0..MaxChars /\ filesize = 0
        /\ phase = "headers" /\ mode = "initial"
    BY Numbers DEF Init
  <2>3. ranges \in Seq([start : 0..NotGiven, stop : 0..NotGiven])
    BY <2>2
  <2> QED BY <2>1, <2>2, <2>3 DEF TypeOK
<1>2. CharsOK /\ SaidOK
  BY Numbers DEF Init, CharsOK, SaidOK, Inside
<1> QED BY <1>1, <1>2 DEF Init, IInv, InsideFile, SendsWhatIsAsked

LEMMA HeaderOK == IInv /\ (Header \/ HeaderIgnored) => IInv'
<1> SUFFICES ASSUME IInv, Header \/ HeaderIgnored PROVE IInv' OBVIOUS
<1>1. /\ phase = "headers" /\ phase' \in {"headers", "parsing", "invalid"}
      /\ UNCHANGED <<mode, ranges, numranges, filesize, left, said>>
      /\ \/ UNCHANGED <<start, stop, first, last>> /\ phase' = "headers"
         \/ start' = 0 /\ stop' = 0 /\ first' = 0 /\ last' = 0
  BY DEF Header, HeaderIgnored
<1>2. skipped' \in BOOLEAN
  BY DEF Header, HeaderIgnored, IInv, TypeOK
<1>3. NotGiven \in Nat /\ NotGiven > 0
  BY RangesAssumption DEF NotGiven
<1>4. TypeOK'
  BY <1>1, <1>2, <1>3 DEF IInv, TypeOK
<1>5. CharsOK'
  BY <1>1 DEF IInv, CharsOK
<1>6. SaidOK'
  BY <1>1, <1>3 DEF IInv, SaidOK, Written
<1> QED BY <1>1, <1>4, <1>5, <1>6 DEF IInv, InsideFile, SendsWhatIsAsked

\* One more digit of a number, in the word and as written.
LEMMA PushWritten ==
  ASSUME NEW n \in 0..NotGiven, NEW x \in Nat, Written(n, x), NEW d \in 0..9
  PROVE  /\ Push(n, d) \in 0..NotGiven /\ x * 10 + d \in Nat
         /\ Written(Push(n, d), x * 10 + d)
<1>1. n \in Nat /\ n * 10 + d \in Nat /\ x * 10 + d \in Nat /\ NotGiven \in Nat
  BY RangesAssumption DEF NotGiven
<1>2. Push(n, d) \in 0..NotGiven /\ (n * 10 + d < LongMod => Push(n, d) = n * 10 + d)
  BY <1>1, Modulo DEF Push
<1>3. ASSUME x * 10 + d < NotGiven PROVE Push(n, d) = x * 10 + d
  <2>1. x < NotGiven /\ x # -1
    BY <1>1, <1>3
  <2>2. n = x
    BY <2>1 DEF Written
  <2> QED BY <1>1, <1>2, <1>3, <2>2, RangesAssumption DEF NotGiven
<1>4. x * 10 + d # -1
  BY <1>1
<1> QED BY <1>1, <1>2, <1>3, <1>4 DEF Written

LEMMA ParseOK ==
  ASSUME IInv, NEW code \in Codes \cup {"digit"}, NEW d \in 0..9, Parse(code, d)
  PROVE  IInv'
<1> DEFINE f == Stable(mode, code)
           a == CASE f[1] = "PB" -> Push(start, d)
                  [] f[1] = "DB" -> NotGiven
                  [] OTHER -> start
           b == CASE f[1] = "PE" -> Push(stop, d)
                  [] f[1] = "DE" -> NotGiven
                  [] OTHER -> stop
           x == CASE f[1] = "PB" -> first * 10 + d [] f[1] = "DB" -> -1 [] OTHER -> first
           y == CASE f[1] = "PE" -> last * 10 + d [] f[1] = "DE" -> -1 [] OTHER -> last
           submit == f[2] = "SR" /\ ~Neither(a, b)
           abort == f[2] = "AR" \/ (f[2] = "SR" /\ Neither(a, b))
<1>1. /\ phase = "parsing"
      /\ left > 0 \/ code = "null"
      /\ left' = IF code = "null" THEN left ELSE left - 1
      /\ mode' = f[3]
      /\ ranges' = IF submit THEN range_add(ranges, a, b)
                   ELSE IF abort THEN Aborted ELSE ranges
      /\ numranges' = IF submit THEN numranges + 1 ELSE numranges
      /\ said' = IF f[2] = "SR" THEN Append(said, [first |-> x, last |-> y]) ELSE said
      /\ start' = IF submit THEN 0 ELSE a
      /\ stop' = IF submit THEN 0 ELSE b
      /\ first' = IF submit THEN 0 ELSE x
      /\ last' = IF submit THEN 0 ELSE y
      /\ phase' = IF abort THEN "invalid"
                  ELSE IF code = "null" THEN "headers" ELSE "parsing"
      /\ UNCHANGED <<filesize, skipped>>
  BY DEF Parse, NextStop
<1>2. /\ mode \in Modes /\ start \in 0..NotGiven /\ stop \in 0..NotGiven
      /\ NotGiven \in Nat /\ NotGiven > 0
      /\ ranges \in Seq(Ranged) /\ Len(ranges) = Len(said)
      /\ said \in Seq(Spoken)
  <2>1. /\ mode \in Modes /\ start \in 0..NotGiven /\ stop \in 0..NotGiven
        /\ ranges \in Seq(Ranged)
    BY DEF IInv, TypeOK, Modes, Ranged
  <2>2. Len(ranges) = Len(said) /\ said \in Seq(Spoken)
    BY <1>1 DEF IInv, SaidOK, Spoken
  <2> QED BY <2>1, <2>2, Numbers
<1>3. /\ f[3] \in Modes
      /\ f[1] \in {"PB", "DB", "PE", "DE", ""} /\ f[2] \in {"SR", "AR", ""}
      /\ f[1] = "PB" => mode \notin Inside
      /\ f[1] = "DB" => f[3] \in Inside
      /\ f[1] = "DE" => f[2] = "SR"
      /\ f[2] = "SR" => mode \in Inside /\ f[3] = "initial"
      /\ f[3] \in Inside => code # "null"
      /\ mode \in Inside => f[3] \in Inside \/ f[2] \in {"SR", "AR"}
  BY <1>2, StableFacts
<1> HIDE DEF f
<1>4. /\ Written(start, first) /\ Written(stop, last) /\ last \in Nat
      /\ first \in Nat \cup {-1} /\ (first = -1 => mode \in Inside)
  BY <1>1 DEF IInv, SaidOK
<1>5. a \in 0..NotGiven /\ x \in Nat \cup {-1} /\ Written(a, x)
  <2>1. CASE f[1] = "PB"
    <3>1. first \in Nat
      BY <1>3, <1>4, <2>1
    <3> QED BY <1>2, <1>4, <2>1, <3>1, PushWritten
  <2>2. CASE f[1] = "DB"
    BY <1>2, <2>2 DEF Written
  <2>3. CASE f[1] # "PB" /\ f[1] # "DB"
    BY <1>2, <1>4, <2>3
  <2> QED BY <2>1, <2>2, <2>3
<1>6. b \in 0..NotGiven /\ y \in Nat \cup {-1} /\ Written(b, y)
  <2>1. CASE f[1] = "PE"
    BY <1>2, <1>4, <2>1, PushWritten
  <2>2. CASE f[1] = "DE"
    BY <1>2, <2>2 DEF Written
  <2>3. CASE f[1] # "PE" /\ f[1] # "DE"
    BY <1>2, <1>4, <2>3
  <2> QED BY <2>1, <2>2, <2>3
<1>7. x = -1 => f[1] = "DB" \/ mode \in Inside
  BY <1>4
<1>8. y = -1 => f[1] = "DE"
  BY <1>4
<1> HIDE DEF a, b, x, y
<1>9. (submit => f[2] = "SR") /\ (f[2] = "SR" => submit \/ abort) /\ (f[2] = "AR" => abort)
      /\ (f[2] = "" => ~submit /\ ~abort)
  BY <1>3
<1>s. submit => ~abort
  OBVIOUS
<1> HIDE DEF submit, abort
<1>10. ranges' \in Seq(Ranged)
  <2> DEFINE p == [start |-> a, stop |-> b]
             m == [start |-> 0, stop |-> NotGiven]
  <2>1. p \in Ranged
    BY <1>5, <1>6 DEF Ranged
  <2>2. m \in Ranged
    BY <1>2 DEF Ranged
  <2>3. ranges' = Append(ranges, p) \/ ranges' = <<m>> \/ ranges' = ranges
    BY <1>1 DEF range_add, Aborted
  <2> HIDE DEF p, m
  <2>4. ranges \in Seq(Ranged)
    BY <1>2
  <2>5. Append(ranges, p) \in Seq(Ranged) /\ <<m>> \in Seq(Ranged)
    BY <2>1, <2>2, <2>4
  <2> QED BY <2>3, <2>4, <2>5
<1>11. CharsOK'
  <2>1. /\ left \in Nat /\ numranges \in Nat /\ numranges + left <= MaxChars
        /\ mode \in Inside => numranges + left + 1 <= MaxChars
    BY DEF IInv, CharsOK
  <2>2. left' \in Nat /\ left' <= left /\ (code # "null" => left' + 1 <= left)
    BY <1>1, <2>1
  <2>m. MaxChars \in Nat
    BY Numbers
  <2>3. CASE submit
    <3>1. numranges' = numranges + 1 /\ mode \in Inside /\ mode' = "initial"
      BY <1>1, <1>3, <1>9, <2>3
    <3>2. numranges' \in Nat /\ numranges' + left' <= MaxChars
      BY <2>1, <2>2, <2>m, <3>1, Counts
    <3> QED BY <2>2, <3>1, <3>2 DEF CharsOK, Inside
  <2>4. CASE ~submit
    <3>1. numranges' = numranges /\ (mode' \in Inside => code # "null")
      BY <1>1, <1>3, <2>4
    <3>2. numranges' \in Nat /\ numranges' + left' <= MaxChars
      BY <2>1, <2>2, <2>m, <3>1, Counts
    <3>3. ASSUME mode' \in Inside PROVE numranges' + left' + 1 <= MaxChars
      BY <2>1, <2>2, <2>m, <3>1, <3>3, Counts
    <3> QED BY <2>2, <3>2, <3>3 DEF CharsOK
  <2> QED BY <2>3, <2>4
<1>12. /\ start' \in 0..NotGiven /\ stop' \in 0..NotGiven
       /\ first' \in Nat \cup {-1} /\ last' \in Nat \cup {-1}
  BY <1>1, <1>2, <1>5, <1>6
<1>13. TypeOK'
  <2>1. numranges' \in 0..MaxChars
    <3>1. left' \in Nat /\ numranges' \in Nat /\ numranges' + left' <= MaxChars
      BY <1>11 DEF CharsOK
    <3>2. MaxChars \in Nat
      BY Numbers
    <3>3. left' <= left'
      BY <3>1
    <3> QED BY <3>1, <3>2, <3>3, Counts, Zenon
  <2> QED BY <1>1, <1>3, <1>10, <1>12, <2>1 DEF IInv, TypeOK, Modes, Ranged
<1>14. SaidOK'
  <2>1. said' \in Seq(Spoken)
    <3> DEFINE q == [first |-> x, last |-> y]
    <3>1. q \in Spoken
      BY <1>5, <1>6 DEF Spoken
    <3>2. said' = Append(said, q) \/ said' = said
      BY <1>1
    <3> HIDE DEF q
    <3> QED BY <1>2, <3>1, <3>2
  <2>2. ASSUME phase' = "parsing"
        PROVE  /\ Written(start', first') /\ Written(stop', last') /\ last' # -1
               /\ first' = -1 => mode' \in Inside
    <3>1. ~abort
      BY <1>1, <2>2
    <3>2. CASE submit
      BY <1>1, <1>2, <3>2 DEF Written
    <3>3. CASE ~submit
      <4>1. f[2] = "" /\ f[1] # "DE"
        BY <1>3, <1>9, <3>1, <3>3
      <4> QED BY <1>1, <1>3, <1>5, <1>6, <1>7, <1>8, <3>3, <4>1
    <3> QED BY <3>2, <3>3
  <2>3. ASSUME phase' \in {"headers", "parsing"}
        PROVE  /\ Len(ranges') = Len(said')
               /\ \A i \in 1..Len(said') : /\ Written(ranges'[i].start, said'[i].first)
                                           /\ Written(ranges'[i].stop, said'[i].last)
    <3>1. ~abort /\ (submit <=> f[2] = "SR")
      BY <1>1, <1>9, <2>3
    <3>2. \A i \in 1..Len(said) : /\ Written(ranges[i].start, said[i].first)
                                  /\ Written(ranges[i].stop, said[i].last)
      BY <1>1 DEF IInv, SaidOK
    <3>3. CASE submit
      <4> DEFINE p == [start |-> a, stop |-> b]
                 q == [first |-> x, last |-> y]
      <4>1. ranges' = Append(ranges, p) /\ said' = Append(said, q)
        BY <1>1, <3>1, <3>3 DEF range_add
      <4>2. p.start = a /\ p.stop = b /\ q.first = x /\ q.last = y
        OBVIOUS
      <4> HIDE DEF p, q
      <4>3. /\ Len(ranges') = Len(ranges) + 1 /\ Len(said') = Len(said) + 1
            /\ Len(said) \in Nat
            /\ ranges'[Len(said) + 1] = p /\ said'[Len(said) + 1] = q
            /\ \A i \in 1..Len(said) : ranges'[i] = ranges[i] /\ said'[i] = said[i]
        BY <1>2, <4>1
      <4>4. ASSUME NEW i \in 1..Len(said')
            PROVE  /\ Written(ranges'[i].start, said'[i].first)
                   /\ Written(ranges'[i].stop, said'[i].last)
        <5>1. CASE i = Len(said) + 1
          BY <1>5, <1>6, <4>2, <4>3, <5>1
        <5>2. CASE i \in 1..Len(said)
          BY <3>2, <4>3, <5>2
        <5> QED BY <4>3, <5>1, <5>2
      <4> QED BY <1>2, <4>3, <4>4
    <3>4. CASE ~submit
      BY <1>1, <1>2, <3>1, <3>2, <3>4
    <3> QED BY <3>3, <3>4
  <2> QED BY <1>12, <2>1, <2>2, <2>3 DEF SaidOK
<1>15. InsideFile' /\ SendsWhatIsAsked'
  BY <1>1 DEF InsideFile, SendsWhatIsAsked
<1> QED BY <1>11, <1>13, <1>14, <1>15 DEF IInv

\* ranges_fixup of one range stays in the width of a word and ends inside the
\* file.
LEMMA FixedEnds ==
  ASSUME NEW r \in Ranged, NEW size \in Sizes
  PROVE  Fixed(r, size) \in Ranged /\ Fixed(r, size).stop < size
<1> DEFINE b == IF TooBig(r.stop, size) THEN size - 1 ELSE r.stop
<1>1. size \in Nat /\ size > 0 /\ size <= NotGiven
  BY RangesAssumption DEF NotGiven
<1>2. r.start \in 0..NotGiven /\ r.stop \in 0..NotGiven
  BY DEF Ranged
<1>3. b \in 0..(size - 1)
  BY <1>1, <1>2, Numbers DEF TooBig
<1>4. (size - b) \in Nat
  BY <1>1, <1>3
<1>5. (size - b) % LongMod \in 0..NotGiven
  BY <1>4, Modulo
<1>6. Fixed(r, size) = IF r.start = NotGiven
                       THEN [start |-> (size - b) % LongMod, stop |-> size - 1]
                       ELSE [start |-> r.start, stop |-> b]
  BY DEF Fixed
<1> HIDE DEF b
<1>7. size - 1 \in 0..NotGiven /\ b \in 0..NotGiven /\ b < size /\ size - 1 < size
  BY <1>1, <1>3, Numbers
<1>8. CASE r.start = NotGiven
  <2>1. Fixed(r, size) = [start |-> (size - b) % LongMod, stop |-> size - 1]
    BY <1>6, <1>8
  <2> QED BY <1>5, <1>7, <2>1 DEF Ranged
<1>9. CASE r.start # NotGiven
  <2>1. Fixed(r, size) = [start |-> r.start, stop |-> b]
    BY <1>6, <1>9
  <2> QED BY <1>2, <1>7, <2>1 DEF Ranged
<1> QED BY <1>8, <1>9

\* For a plain range, ranges_fixup computes what RFC 2616 asks for.
LEMMA FixedAsAsked ==
  ASSUME NEW r \in Ranged, NEW s \in Spoken, NEW size \in Sizes,
         Written(r.start, s.first), Written(r.stop, s.last), Plain(s, size)
  PROVE  Fixed(r, size) = Asked(s, size)
<1>1. size \in Nat /\ size > 0 /\ size <= NotGiven
  BY RangesAssumption DEF NotGiven
<1>2. /\ r.start \in 0..NotGiven /\ r.stop \in 0..NotGiven
      /\ s.first \in Nat \cup {-1} /\ s.last \in Nat \cup {-1}
  BY DEF Ranged, Spoken
<1>3. /\ s.first < NotGiven /\ s.last < NotGiven /\ s.last # UIntMax
      /\ s.first = -1 => s.last # -1 /\ s.last < size
  BY DEF Plain, NotGiven
<1>4. /\ s.first = -1 => r.start = NotGiven
      /\ s.first # -1 => r.start = s.first
      /\ s.last = -1 => r.stop = NotGiven
      /\ s.last # -1 => r.stop = s.last
  BY <1>3 DEF Written
<1>5. CASE s.first = -1
  <2>1. s.last \in Nat /\ s.last < size /\ r.stop = s.last /\ r.start = NotGiven
    BY <1>2, <1>3, <1>4, <1>5
  <2>2. ~TooBig(r.stop, size)
    BY <1>1, <1>3, <2>1 DEF TooBig
  <2>3. size - s.last \in Nat /\ size - s.last < LongMod
    BY <1>1, <2>1, Numbers
  <2>4. (size - s.last) % LongMod = size - s.last
    BY <2>3, Modulo
  <2>5. ~(s.last > size)
    BY <1>1, <2>1
  <2>6. Fixed(r, size) = [start |-> size - s.last, stop |-> size - 1]
    BY <2>1, <2>2, <2>4 DEF Fixed
  <2>7. Asked(s, size) = [start |-> size - s.last, stop |-> size - 1]
    BY <1>5, <2>5 DEF Asked
  <2> QED BY <2>6, <2>7
<1>6. CASE s.first # -1
  <2>1. r.start = s.first /\ r.start # NotGiven
    BY <1>2, <1>3, <1>4, <1>6, Numbers
  <2>2. TooBig(r.stop, size) <=> s.last = -1 \/ s.last >= size
    BY <1>1, <1>2, <1>3, <1>4, Numbers DEF TooBig
  <2>3. ~TooBig(r.stop, size) => r.stop = s.last
    BY <1>4, <2>2
  <2> DEFINE b == IF TooBig(r.stop, size) THEN size - 1 ELSE r.stop
             e == IF s.last = -1 \/ s.last >= size THEN size - 1 ELSE s.last
  <2>4. b = e
    BY <2>2, <2>3
  <2>5. Fixed(r, size) = [start |-> r.start, stop |-> b]
    BY <2>1 DEF Fixed
  <2>6. Asked(s, size) = [start |-> s.first, stop |-> e]
    BY <1>6 DEF Asked
  <2> QED BY <2>1, <2>4, <2>5, <2>6
<1> QED BY <1>5, <1>6

LEMMA FixupOK ==
  ASSUME IInv, NEW size \in Sizes, Fixup(size)
  PROVE  IInv'
<1> DEFINE mark == [start |-> 0, stop |-> NotGiven]
           list == IF ranges = <<>> THEN <<mark>> ELSE ranges
           fixed == [i \in DOMAIN list |-> Fixed(list[i], size)]
           K == {r \in ToSet(fixed) : Valid(r)}
           kept == Filter(fixed, K)
<1>1. /\ phase = "headers" /\ filesize' = size /\ ranges' = kept
      /\ phase' = IF kept = <<>> THEN "invalid" ELSE "fixed"
      /\ UNCHANGED <<mode, start, stop, numranges, left, first, last, said, skipped>>
  BY DEF Fixup
<1>2. ranges \in Seq(Ranged) /\ said \in Seq(Spoken) /\ Len(ranges) = Len(said)
  <2>1. ranges \in Seq(Ranged)
    BY DEF IInv, TypeOK, Ranged
  <2> QED BY <1>1, <2>1 DEF IInv, SaidOK
<1>3. mark \in Ranged
  BY Numbers DEF Ranged
<1>4. list \in Seq(Ranged)
  <2> HIDE DEF mark
  <2> QED BY <1>2, <1>3
<1> HIDE DEF list
<1>5. Len(list) \in Nat /\ DOMAIN list = 1..Len(list)
  BY <1>4
<1>6. \A i \in 1..Len(list) : /\ fixed[i] = Fixed(list[i], size)
                              /\ fixed[i] \in Ranged /\ fixed[i].stop < size
  <2> TAKE i \in 1..Len(list)
  <2>1. list[i] \in Ranged
    BY <1>4
  <2>2. fixed[i] = Fixed(list[i], size)
    BY <1>5
  <2> QED BY <2>1, <2>2, FixedEnds
<1>7. fixed \in Seq(Ranged) /\ DOMAIN fixed = 1..Len(list) /\ Len(fixed) = Len(list)
  <2>1. fixed \in [1..Len(list) -> Ranged]
    <3>1. DOMAIN fixed = 1..Len(list) /\ fixed = [i \in 1..Len(list) |-> fixed[i]]
      BY <1>5
    <3> HIDE DEF fixed
    <3> QED BY <1>6, <3>1
  <2> HIDE DEF fixed
  <2> QED BY <1>5, <2>1
<1> HIDE DEF fixed
<1>8. ToSet(fixed) = Elements(fixed) /\ K \subseteq Elements(fixed)
  BY DEF ToSet, Elements
<1>9. \A r \in Elements(fixed) : r \in Ranged /\ r.stop < size
  BY <1>6, <1>7 DEF Elements
<1>10. kept \in Seq(Ranged) /\ Len(kept) <= Len(list) /\ Elements(kept) = K
  BY <1>7, <1>8, FilterKeeps
<1>11. \A r \in K : r \in Ranged /\ r.start <= r.stop /\ r.stop < size
  BY <1>8, <1>9 DEF Valid
<1>12. \A i \in DOMAIN kept : kept[i] \in K
  BY <1>10 DEF Elements
<1>13. InsideFile'
  BY <1>1, <1>11, <1>12 DEF InsideFile
<1>14. SendsWhatIsAsked'
  <2> SUFFICES ASSUME phase' = "fixed", \A i \in DOMAIN said : Plain(said[i], size)
               PROVE  kept = IF said = <<>> THEN <<[start |-> 0, stop |-> size - 1]>>
                             ELSE Satisfiable([i \in DOMAIN said |-> Asked(said[i], size)])
    BY <1>1 DEF SendsWhatIsAsked, WholeFile
  <2>1. size \in Nat /\ size > 0 /\ size <= NotGiven /\ 2 * size < LongMod
    BY RangesAssumption DEF NotGiven
  <2>2. CASE said = <<>>
    <3> DEFINE x == [start |-> 0, stop |-> size - 1]
    <3>1. list = <<mark>>
      BY <1>2, <2>2 DEF list
    <3>2. Len(list) = 1 /\ list[1] = mark
      BY <3>1
    <3>3. mark.start = 0 /\ mark.stop = NotGiven
      OBVIOUS
    <3>4. Fixed(mark, size) = x
      <4>1. TooBig(mark.stop, size) /\ mark.start # NotGiven
        BY <2>1, <3>3, Numbers DEF TooBig
      <4> HIDE DEF mark
      <4> QED BY <3>3, <4>1 DEF Fixed
    <3> HIDE DEF mark
    <3>5. fixed[1] = x
      BY <1>6, <3>2, <3>4
    <3> HIDE DEF x
    <3>6. Elements(fixed) = {x}
      BY <1>7, <3>2, <3>5 DEF Elements
    <3>7. Len(kept) \in Nat /\ Len(kept) <= 1 /\ kept # <<>>
      BY <1>1, <1>10, <3>2
    <3>8. kept[1] = x /\ Len(kept) = 1
      <4> HIDE DEF kept, K
      <4>0. kept \in Seq(Ranged)
        BY <1>10
      <4> DEFINE n == Len(kept)
      <4>l. n \in Nat /\ n <= 1 /\ n # 0
        BY <3>7, <4>0
      <4>1. Len(kept) = 1
        <5>1. ASSUME NEW k \in Nat, k <= 1, k # 0 PROVE k = 1
          BY <5>1
        <5> QED BY <4>l, <5>1, Zenon
      <4>2. kept[1] \in K
        BY <1>10, <1>12, <4>1
      <4> QED BY <1>8, <3>6, <4>1, <4>2
    <3>9. kept = <<x>>
      <4> HIDE DEF kept
      <4> QED BY <1>10, <3>8
    <3> QED BY <2>2, <3>9 DEF x
  <2>3. CASE said # <<>>
    <3> DEFINE asked == [i \in DOMAIN said |-> Asked(said[i], size)]
    <3>1. list = ranges /\ Len(list) = Len(said) /\ DOMAIN said = 1..Len(list)
      BY <1>2, <2>3 DEF list
    <3>2. ASSUME NEW i \in 1..Len(list) PROVE fixed[i] = Asked(said[i], size)
      <4>1. list[i] \in Ranged /\ said[i] \in Spoken /\ i \in 1..Len(said)
        BY <1>2, <1>4, <3>1
      <4>2. Written(list[i].start, said[i].first) /\ Written(list[i].stop, said[i].last)
        BY <1>1, <3>1, <4>1 DEF IInv, SaidOK
      <4>3. Plain(said[i], size)
        BY <3>1
      <4> QED BY <1>6, <4>1, <4>2, <4>3, FixedAsAsked
    <3>3. fixed = asked
      <4>1. DOMAIN asked = DOMAIN fixed /\ \A i \in DOMAIN fixed : asked[i] = fixed[i]
        BY <1>7, <3>1, <3>2
      <4>2. fixed = [i \in DOMAIN fixed |-> fixed[i]] /\ asked = [i \in DOMAIN asked |-> asked[i]]
        BY <1>7
      <4> HIDE DEF asked
      <4> QED BY <4>1, <4>2
    <3>4. \A r \in Elements(fixed) : Valid(r) <=> r.start <= r.stop
      <4> TAKE r \in Elements(fixed)
      <4>1. r.start \in Nat /\ r.stop \in Nat /\ r.stop < size
        BY <1>9, Numbers DEF Ranged
      <4>2. r.start <= r.stop => 2 * r.start < LongMod
        BY <2>1, <4>1, Numbers
      <4> QED BY <4>2 DEF Valid
    <3>5. K = {r \in ToSet(fixed) : r.start <= r.stop}
      BY <1>8, <3>4
    <3>6. kept = Satisfiable(fixed)
      BY <3>5, Zenon DEF Satisfiable
    <3> QED BY <2>3, <3>3, <3>6
  <2> QED BY <2>2, <2>3
<1>15. TypeOK'
  <2>1. ranges' \in Seq([start : 0..NotGiven, stop : 0..NotGiven])
    BY <1>1, <1>10 DEF Ranged
  <2>2. phase' \in {"headers", "parsing", "invalid", "fixed"}
    BY <1>1
  <2>3. skipped' \in BOOLEAN
    BY <1>1 DEF IInv, TypeOK
  <2> HIDE DEF kept
  <2> QED BY <1>1, <2>1, <2>2, <2>3 DEF IInv, TypeOK
<1>16. CharsOK'
  BY <1>1 DEF IInv, CharsOK
<1>17. SaidOK'
  <2>1. phase' \notin {"headers", "parsing"}
    BY <1>1
  <2> QED BY <1>1, <2>1 DEF IInv, SaidOK
<1> QED BY <1>13, <1>14, <1>15, <1>16, <1>17 DEF IInv

LEMMA NextOK == IInv /\ [Next]_vars => IInv'
<1> SUFFICES ASSUME IInv, [Next]_vars PROVE IInv' OBVIOUS
<1>1. CASE Header \/ HeaderIgnored
  BY <1>1, HeaderOK
<1>2. ASSUME NEW d \in Digits, Parse("digit", d) PROVE IInv'
  BY <1>2, ParseOK, RangesAssumption
<1>3. ASSUME NEW code \in Codes, Parse(code, 0) PROVE IInv'
  BY <1>3, ParseOK
<1>4. ASSUME NEW size \in Sizes, Fixup(size) PROVE IInv'
  BY <1>4, FixupOK
<1>5. CASE UNCHANGED vars
  BY <1>5 DEF vars, IInv, TypeOK, CharsOK, SaidOK, InsideFile, SendsWhatIsAsked, WholeFile
<1> QED BY <1>1, <1>2, <1>3, <1>4, <1>5 DEF Next, Answered

\* The numbers kept, and the list read from the headers, stand for what was
\* written; the list fixed to the file is inside it and what was asked for.
THEOREM Invariance == Spec => []IInv
BY InitOK, NextOK, PTL DEF Spec

\* Numbers never leave the width of an unsigned long, the automaton its states,
\* and req->numranges the number of characters read.
THEOREM TypeCorrect == Spec => []TypeOK
<1>1. IInv => TypeOK
  BY DEF IInv
<1> QED BY Invariance, <1>1, PTL

\* The ranges process_get and sendfile read lie inside the file, whatever the
\* headers said and however the numbers wrapped.
THEOREM ReadsInside == Spec => []InsideFile
<1>1. IInv => InsideFile
  BY DEF IInv
<1> QED BY Invariance, <1>1, PTL

\* The client is sent the ranges RFC 2616 gives it, in its order, whenever its
\* numbers are ones the representation can tell apart and no range is reversed.
THEOREM AnswersRequest == Spec => []SendsWhatIsAsked
<1>1. IInv => SendsWhatIsAsked
  BY DEF IInv
<1> QED BY Invariance, <1>1, PTL
=============================================================================
