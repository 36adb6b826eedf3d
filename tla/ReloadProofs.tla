------------------------- MODULE ReloadProofs -------------------------
(***************************************************************************)
(* Proofs about Reload and UriMap, for every configuration file, every     *)
(* file system, every URI and every size of the tables.                    *)
(***************************************************************************)
EXTENDS Reload, WellFoundedInduction, FiniteSetTheorems, SequenceTheorems, TLAPS

\* Induction, over sets of naturals with the well-founded order of <.
LEMMA Least ==
  ASSUME NEW T \in SUBSET Nat, T # {}
  PROVE  \E n \in T : \A m \in T : n <= m
<1>1. PICK n \in T : \A m \in T : ~(<<m, n>> \in OpToRel(<, Nat))
  BY WFMin, NatLessThanWellFounded
<1>2. \A m \in T : ~(m < n)
  BY <1>1 DEF OpToRel
<1> QED BY <1>2

\* A set that has 0 and, with a number, the next one has them all.
LEMMA Induct ==
  ASSUME NEW T \in SUBSET Nat, 0 \in T, \A n \in T : n + 1 \in T
  PROVE  T = Nat
<1> SUFFICES ASSUME Nat \ T # {} PROVE FALSE OBVIOUS
<1>1. PICK n \in Nat \ T : \A m \in Nat \ T : n <= m
  BY Least
<1>2. n # 0 /\ n - 1 \in Nat /\ n - 1 \in T
  BY <1>1
<1> QED BY <1>2

\* F is the loop of Filter over the first n elements of s.
FilterLoop(s, K, F, n) ==
  F = [i \in 0..n |->
         IF i = 0 THEN <<>>
         ELSE IF s[i] \in K THEN Append(F[i - 1], s[i]) ELSE F[i - 1]]

LEMMA FilterExists ==
  ASSUME NEW s, NEW K
  PROVE  \A n \in Nat : \E F : FilterLoop(s, K, F, n)
<1> DEFINE T == {n \in Nat : \E F : FilterLoop(s, K, F, n)}
<1>1. 0 \in T
  <2>1. FilterLoop(s, K, [i \in 0..0 |-> <<>>], 0)
    BY DEF FilterLoop
  <2> QED BY <2>1
<1>2. ASSUME NEW n \in T PROVE n + 1 \in T
  <2>1. PICK F : FilterLoop(s, K, F, n)
    OBVIOUS
  <2>2. n \in Nat
    OBVIOUS
  <2> DEFINE G == [i \in 0..(n + 1) |->
                     IF i <= n THEN F[i]
                     ELSE IF s[i] \in K THEN Append(F[i - 1], s[i]) ELSE F[i - 1]]
             H == [i \in 0..(n + 1) |->
                     IF i = 0 THEN <<>>
                     ELSE IF s[i] \in K THEN Append(G[i - 1], s[i]) ELSE G[i - 1]]
  <2>3. \A i \in 0..n : G[i] = F[i]
    BY <2>2
  <2>4. \A i \in 0..n : F[i] = IF i = 0 THEN <<>>
                               ELSE IF s[i] \in K THEN Append(F[i - 1], s[i]) ELSE F[i - 1]
    BY <2>1, <2>2 DEF FilterLoop
  <2>5. G[n + 1] = IF s[n + 1] \in K THEN Append(G[n], s[n + 1]) ELSE G[n]
    BY <2>2, <2>3
  <2> HIDE DEF G
  <2>6. \A i \in 0..(n + 1) : G[i] = H[i]
    <3> TAKE i \in 0..(n + 1)
    <3>1. CASE i = 0
      BY <2>2, <2>3, <2>4, <3>1
    <3>2. CASE i \in 1..n
      <4>1. i - 1 \in 0..n /\ i \in 0..n /\ i # 0
        BY <2>2, <3>2
      <4>2. G[i] = F[i] /\ G[i - 1] = F[i - 1]
        BY <2>3, <4>1
      <4> QED BY <2>4, <4>1, <4>2
    <3>3. CASE i = n + 1
      BY <2>2, <2>5, <3>3
    <3> QED BY <2>2, <3>1, <3>2, <3>3
  <2>7. G = H
    BY <2>6 DEF G
  <2>8. FilterLoop(s, K, G, n + 1)
    BY <2>7, Zenon DEF FilterLoop, H
  <2> QED BY <2>2, <2>8
<1> HIDE DEF T
<1>3. T = Nat
  BY <1>1, <1>2, Induct DEF T
<1> QED BY <1>3 DEF T

LEMMA FilterUnfolds ==
  ASSUME NEW s, NEW K, Len(s) \in Nat
  PROVE  \E F : FilterLoop(s, K, F, Len(s)) /\ Filter(s, K) = F[Len(s)]
<1>1. \E F : FilterLoop(s, K, F, Len(s))
  BY FilterExists
<1>2. FilterLoop(s, K, CHOOSE F : FilterLoop(s, K, F, Len(s)), Len(s))
  BY <1>1, Zenon
<1>3. Filter(s, K) = (CHOOSE F : FilterLoop(s, K, F, Len(s)))[Len(s)]
  BY Zenon DEF Filter, FilterLoop
<1> QED BY <1>2, <1>3, Zenon

Elements(s) == {s[i] : i \in DOMAIN s}
Distinct(s) == \A i, j \in DOMAIN s : s[i] = s[j] => i = j

\* Taking elements out keeps a list a list, with the elements of K that were
\* there, and brings in no second copy of any.
LEMMA FilterKeeps ==
  ASSUME NEW S, NEW s \in Seq(S), NEW K
  PROVE  /\ Filter(s, K) \in Seq(S)
         /\ Len(Filter(s, K)) <= Len(s)
         /\ Elements(Filter(s, K)) = Elements(s) \cap K
         /\ Distinct(s) => Distinct(Filter(s, K))
<1>1. PICK F : FilterLoop(s, K, F, Len(s)) /\ Filter(s, K) = F[Len(s)]
  BY FilterUnfolds
<1>2. F[0] = <<>>
  BY <1>1 DEF FilterLoop
<1>3. \A i \in 1..Len(s) : F[i] = IF s[i] \in K THEN Append(F[i - 1], s[i]) ELSE F[i - 1]
  <2> TAKE i \in 1..Len(s)
  <2>1. i \in 0..Len(s) /\ i # 0
    OBVIOUS
  <2>2. F[i] = IF i = 0 THEN <<>>
               ELSE IF s[i] \in K THEN Append(F[i - 1], s[i]) ELSE F[i - 1]
    BY <1>1, <2>1, Zenon DEF FilterLoop
  <2> QED BY <2>1, <2>2
<1> DEFINE Good(i) ==
             /\ F[i] \in Seq(S) /\ Len(F[i]) <= i
             /\ Elements(F[i]) = {s[j] : j \in 1..i} \cap K
             /\ Distinct(s) => Distinct(F[i])
           T == {i \in Nat : i <= Len(s) => Good(i)}
<1>4. 0 \in T
  <2>1. Elements(<<>>) = {} /\ Distinct(<<>>)
    BY DEF Elements, Distinct
  <2>2. {s[j] : j \in 1..0} = {}
    OBVIOUS
  <2>3. Elements(F[0]) = {} /\ Distinct(F[0]) /\ F[0] \in Seq(S) /\ Len(F[0]) = 0
    BY <1>2, <2>1
  <2>4. Good(0)
    BY <2>2, <2>3
  <2> HIDE DEF Good
  <2> QED BY <2>4
<1>5. ASSUME NEW i \in T PROVE i + 1 \in T
  <2> SUFFICES ASSUME i + 1 <= Len(s) PROVE Good(i + 1)
    OBVIOUS
  <2>1. Good(i) /\ i \in Nat /\ i + 1 \in 1..Len(s)
    OBVIOUS
  <2>2. F[i + 1] = IF s[i + 1] \in K THEN Append(F[i], s[i + 1]) ELSE F[i]
    BY <1>3, <2>1
  <2>3. {s[j] : j \in 1..(i + 1)} = {s[j] : j \in 1..i} \cup {s[i + 1]}
    BY <2>1
  <2>4. s[i + 1] \in S
    BY <2>1
  <2> HIDE DEF T
  <2>5. CASE s[i + 1] \notin K
    BY <2>1, <2>2, <2>3, <2>5
  <2>6. CASE s[i + 1] \in K
    <3> DEFINE g == F[i]
               h == Append(g, s[i + 1])
    <3>1. F[i + 1] = h /\ g \in Seq(S) /\ Len(g) <= i
      BY <2>1, <2>2, <2>6
    <3>2. /\ h \in Seq(S) /\ Len(h) = Len(g) + 1
          /\ h[Len(g) + 1] = s[i + 1] /\ \A j \in 1..Len(g) : h[j] = g[j]
      BY <2>4, <3>1
    <3> HIDE DEF h, g
    <3>3. Elements(h) = Elements(g) \cup {s[i + 1]}
      BY <3>1, <3>2 DEF Elements
    <3>4. Elements(h) = {s[j] : j \in 1..(i + 1)} \cap K
      BY <2>1, <2>3, <2>6, <3>3 DEF g
    <3>5. ASSUME Distinct(s) PROVE Distinct(h)
      <4>1. Distinct(g) /\ \A j \in DOMAIN g : g[j] \in Elements(g)
        BY <2>1, <3>5 DEF g, Elements
      <4>2. \A k \in 1..i : s[k] # s[i + 1]
        BY <2>1, <3>5 DEF Distinct
      <4>3. s[i + 1] \notin Elements(g)
        BY <2>1, <4>2 DEF g
      <4>4. \A j, k \in 1..Len(g) : g[j] = g[k] => j = k
        BY <3>1, <4>1 DEF Distinct
      <4>5. \A j \in 1..Len(g) : g[j] # s[i + 1]
        BY <3>1, <4>1, <4>3
      <4> QED BY <3>1, <3>2, <4>4, <4>5 DEF Distinct
    <3> QED BY <2>1, <3>1, <3>2, <3>4, <3>5
  <2> QED BY <2>5, <2>6
<1>6. T = Nat
  <2> HIDE DEF Good
  <2> QED BY <1>4, <1>5, Induct
<1>7. Len(s) \in Nat
  OBVIOUS
<1>8. Good(Len(s))
  <2> HIDE DEF Good
  <2> QED BY <1>6, <1>7
<1>9. Elements(s) = {s[j] : j \in 1..Len(s)}
  BY DEF Elements
<1> QED BY <1>1, <1>8, <1>9

-----------------------------------------------------------------------------
\* F is the loop of Parse over the first n lines.
ParseLoop(s, lines, m, F, n) ==
  F = [i \in 0..n |-> IF i = 0 THEN s ELSE ParseLine(F[i - 1], lines[i], m)]

LEMMA ParseExists ==
  ASSUME NEW s, NEW lines, NEW m
  PROVE  \A n \in Nat : \E F : ParseLoop(s, lines, m, F, n)
<1> DEFINE T == {n \in Nat : \E F : ParseLoop(s, lines, m, F, n)}
<1>1. 0 \in T
  <2> DEFINE Z == [i \in 0..0 |-> s]
             Y == [i \in 0..0 |-> IF i = 0 THEN s ELSE ParseLine(Z[i - 1], lines[i], m)]
  <2>1. \A i \in 0..0 : i = 0
    OBVIOUS
  <2>2. Z = Y
    BY <2>1, Zenon
  <2>3. ParseLoop(s, lines, m, Z, 0)
    BY <2>2, Zenon DEF ParseLoop
  <2> QED BY <2>3
<1>2. ASSUME NEW n \in T PROVE n + 1 \in T
  <2>1. PICK F : ParseLoop(s, lines, m, F, n)
    OBVIOUS
  <2>2. n \in Nat
    OBVIOUS
  <2> DEFINE G == [i \in 0..(n + 1) |-> IF i <= n THEN F[i] ELSE ParseLine(F[i - 1], lines[i], m)]
             H == [i \in 0..(n + 1) |-> IF i = 0 THEN s ELSE ParseLine(G[i - 1], lines[i], m)]
  <2>3. \A i \in 0..n : G[i] = F[i]
    BY <2>2
  <2>4. \A i \in 0..n : F[i] = IF i = 0 THEN s ELSE ParseLine(F[i - 1], lines[i], m)
    BY <2>1, Zenon DEF ParseLoop
  <2>5. G[n + 1] = ParseLine(F[(n + 1) - 1], lines[(n + 1)], m)
    <3>1. n + 1 \in 0..(n + 1) /\ ~(n + 1 <= n)
      BY <2>2
    <3> QED BY <3>1, Zenon
  <2>6. \A i \in 0..(n + 1) : G[i] = H[i]
    <3> TAKE i \in 0..(n + 1)
    <3>1. H[i] = IF i = 0 THEN s ELSE ParseLine(G[i - 1], lines[i], m)
      BY Zenon
    <3> HIDE DEF G, H
    <3>2. CASE i = 0
      <4>1. 0 \in 0..n
        BY <2>2
      <4> QED BY <2>3, <2>4, <3>1, <3>2, <4>1, Zenon
    <3>3. CASE i \in 1..n
      <4>1. i - 1 \in 0..n /\ i \in 0..n /\ i # 0
        BY <2>2, <3>3
      <4>2. G[i] = F[i] /\ G[i - 1] = F[i - 1]
        BY <2>3, <4>1, Zenon
      <4> QED BY <2>4, <3>1, <4>1, <4>2, Zenon
    <3>4. CASE i = n + 1
      <4>1. i - 1 = n /\ n \in 0..n /\ i # 0 /\ (n + 1) - 1 = n
        BY <2>2, <3>4
      <4>2. G[i - 1] = F[(n + 1) - 1]
        BY <2>3, <4>1, Zenon
      <4> QED BY <2>5, <3>1, <3>4, <4>1, <4>2, Zenon
    <3> QED BY <2>2, <3>2, <3>3, <3>4
  <2>7. G = H
    BY <2>6, Zenon
  <2>8. ParseLoop(s, lines, m, G, n + 1)
    BY <2>7, Zenon DEF ParseLoop
  <2> HIDE DEF G, H
  <2> QED BY <2>2, <2>8
<1> HIDE DEF T
<1>3. T = Nat
  BY <1>1, <1>2, Induct DEF T
<1> QED BY <1>3 DEF T

LEMMA ParseUnfolds ==
  ASSUME NEW s, NEW lines, NEW m, Len(lines) \in Nat
  PROVE  \E F : ParseLoop(s, lines, m, F, Len(lines)) /\ Parse(s, lines, m) = F[Len(lines)]
<1>1. \E F : ParseLoop(s, lines, m, F, Len(lines))
  BY ParseExists
<1>2. ParseLoop(s, lines, m, CHOOSE F : ParseLoop(s, lines, m, F, Len(lines)), Len(lines))
  BY <1>1, Zenon
<1>3. Parse(s, lines, m) = (CHOOSE F : ParseLoop(s, lines, m, F, Len(lines)))[Len(lines)]
  BY Zenon DEF Parse, ParseLoop
<1> QED BY <1>2, <1>3, Zenon

\* F is the loop of AddMimeTypes over the first n types.
MimeLoop(table, types, F, n) ==
  F = [i \in 0..n |-> IF i = 0 THEN table ELSE HashInsert(F[i - 1], types[i].ext, types[i].type)]

LEMMA MimeExists ==
  ASSUME NEW table, NEW types
  PROVE  \A n \in Nat : \E F : MimeLoop(table, types, F, n)
<1> DEFINE T == {n \in Nat : \E F : MimeLoop(table, types, F, n)}
<1>1. 0 \in T
  <2> DEFINE Z == [i \in 0..0 |-> table]
             Y == [i \in 0..0 |-> IF i = 0 THEN table ELSE HashInsert(Z[i - 1], types[i].ext, types[i].type)]
  <2>1. \A i \in 0..0 : i = 0
    OBVIOUS
  <2>2. Z = Y
    BY <2>1, Zenon
  <2>3. MimeLoop(table, types, Z, 0)
    BY <2>2, Zenon DEF MimeLoop
  <2> QED BY <2>3
<1>2. ASSUME NEW n \in T PROVE n + 1 \in T
  <2>1. PICK F : MimeLoop(table, types, F, n)
    OBVIOUS
  <2>2. n \in Nat
    OBVIOUS
  <2> DEFINE G == [i \in 0..(n + 1) |-> IF i <= n THEN F[i] ELSE HashInsert(F[i - 1], types[i].ext, types[i].type)]
             H == [i \in 0..(n + 1) |-> IF i = 0 THEN table ELSE HashInsert(G[i - 1], types[i].ext, types[i].type)]
  <2>3. \A i \in 0..n : G[i] = F[i]
    BY <2>2
  <2>4. \A i \in 0..n : F[i] = IF i = 0 THEN table ELSE HashInsert(F[i - 1], types[i].ext, types[i].type)
    BY <2>1, Zenon DEF MimeLoop
  <2>5. G[n + 1] = HashInsert(F[(n + 1) - 1], types[(n + 1)].ext, types[(n + 1)].type)
    <3>1. n + 1 \in 0..(n + 1) /\ ~(n + 1 <= n)
      BY <2>2
    <3> QED BY <3>1, Zenon
  <2>6. \A i \in 0..(n + 1) : G[i] = H[i]
    <3> TAKE i \in 0..(n + 1)
    <3>1. H[i] = IF i = 0 THEN table ELSE HashInsert(G[i - 1], types[i].ext, types[i].type)
      BY Zenon
    <3> HIDE DEF G, H
    <3>2. CASE i = 0
      <4>1. 0 \in 0..n
        BY <2>2
      <4> QED BY <2>3, <2>4, <3>1, <3>2, <4>1, Zenon
    <3>3. CASE i \in 1..n
      <4>1. i - 1 \in 0..n /\ i \in 0..n /\ i # 0
        BY <2>2, <3>3
      <4>2. G[i] = F[i] /\ G[i - 1] = F[i - 1]
        BY <2>3, <4>1, Zenon
      <4> QED BY <2>4, <3>1, <4>1, <4>2, Zenon
    <3>4. CASE i = n + 1
      <4>1. i - 1 = n /\ n \in 0..n /\ i # 0 /\ (n + 1) - 1 = n
        BY <2>2, <3>4
      <4>2. G[i - 1] = F[(n + 1) - 1]
        BY <2>3, <4>1, Zenon
      <4> QED BY <2>5, <3>1, <3>4, <4>1, <4>2, Zenon
    <3> QED BY <2>2, <3>2, <3>3, <3>4
  <2>7. G = H
    BY <2>6, Zenon
  <2>8. MimeLoop(table, types, G, n + 1)
    BY <2>7, Zenon DEF MimeLoop
  <2> HIDE DEF G, H
  <2> QED BY <2>2, <2>8
<1> HIDE DEF T
<1>3. T = Nat
  BY <1>1, <1>2, Induct DEF T
<1> QED BY <1>3 DEF T

LEMMA MimeUnfolds ==
  ASSUME NEW s, NEW types, Len(types) \in Nat
  PROVE  \E F : /\ MimeLoop(s.mime, types, F, Len(types))
               /\ AddMimeTypes(s, types) = [s EXCEPT !.mime = F[Len(types)]]
<1>1. \E F : MimeLoop(s.mime, types, F, Len(types))
  BY MimeExists
<1> DEFINE G == CHOOSE F : MimeLoop(s.mime, types, F, Len(types))
<1>2. MimeLoop(s.mime, types, G, Len(types))
  BY <1>1, Zenon
<1>3. AddMimeTypes(s, types) = [s EXCEPT !.mime = G[Len(types)]]
  BY Zenon DEF AddMimeTypes, MimeLoop
<1> QED BY <1>2, <1>3, Zenon
-----------------------------------------------------------------------------
\* The strings of the common environment: create_common_env's and those of the
\* CGIEnv lines, and a request's own.
Values == UNION {{f[i].value : i \in {j \in DOMAIN f : f[j].key = "CGIEnv"}} : f \in Files}
Shared == {<<"base", i>> : i \in 1..CommonCount} \cup {<<"env", v, n>> : v \in Values, n \in Nat}
OwnString(k, i) == <<"own", k, i>>

LEMMA StringsApart ==
  /\ \A k, i : OwnString(k, i) \notin Shared /\ OwnString(k, i) # <<>>
  /\ <<>> \notin Shared
  /\ \A e \in Shared : e[1] # "own"
  /\ \A k, i : OwnString(k, i)[1] = "own" /\ OwnString(k, i)[2] = k
  /\ \A k, i, l, j : OwnString(k, i) = OwnString(l, j) => k = l /\ i = j
BY DEF Shared, OwnString

\* What holds of the configuration at every line of a file.
ServerFields == {"up", "aliases", "mime", "common", "settings"}
ServerOK(s) ==
  /\ s = [x \in ServerFields |-> s[x]]
  /\ s.up \in BOOLEAN
  /\ s.common \in Seq(Shared)

\* How a line may change it.
Grown(s, t) ==
  /\ ServerOK(t)
  /\ Len(s.common) <= Len(t.common)
  /\ \A i \in 1..Len(s.common) : t.common[i] = s.common[i]
  /\ t.up /\ t.common # s.common => Len(t.common) <= CgiEnvMax

LEMMA GrownTransitive ==
  ASSUME NEW s, NEW t, NEW u, ServerOK(s), Grown(s, t), Grown(t, u), u.up => t.up
  PROVE  Grown(s, u)
<1>1. Len(s.common) \in Nat /\ Len(t.common) \in Nat /\ Len(u.common) \in Nat
  BY DEF Grown, ServerOK
<1>2. \A i \in 1..Len(s.common) : u.common[i] = s.common[i]
  BY <1>1 DEF Grown
<1>3. u.up /\ u.common # s.common => Len(u.common) <= CgiEnvMax
  BY DEF Grown
<1> QED BY <1>1, <1>2, <1>3 DEF Grown

LEMMA SameCommonGrows ==
  ASSUME NEW s, NEW t, ServerOK(s), ServerOK(t), t.common = s.common
  PROVE  Grown(s, t)
BY DEF Grown, ServerOK

LEMMA SetStringGrows ==
  ASSUME NEW s, NEW name, NEW v, ServerOK(s)
  PROVE  Grown(s, SetString(s, name, v)) /\ SetString(s, name, v).aliases = s.aliases
                                         /\ SetString(s, name, v).mime = s.mime
<1> DEFINE t == SetString(s, name, v)
<1>1. ServerOK(t) /\ t.common = s.common /\ t.aliases = s.aliases /\ t.mime = s.mime
  BY DEF SetString, ServerOK, ServerFields
<1> QED BY <1>1, SameCommonGrows

LEMMA CommonEnvGrows ==
  ASSUME NEW s, NEW v \in Values, NEW n \in Nat, ServerOK(s)
  PROVE  /\ Grown(s, AddToCommonEnv(s, v, n))
         /\ AddToCommonEnv(s, v, n).aliases = s.aliases
         /\ AddToCommonEnv(s, v, n).mime = s.mime
<1> DEFINE e == <<"env", v, n>>
           t == AddToCommonEnv(s, v, n)
<1>1. e \in Shared
  BY DEF Shared
<1>2. /\ t = [x \in ServerFields |-> t[x]] /\ t.common = Append(s.common, e)
      /\ t.aliases = s.aliases /\ t.mime = s.mime
  BY DEF AddToCommonEnv, ServerOK, ServerFields
<1> HIDE DEF e
<1>2a. t.up \in BOOLEAN /\ (t.up => ~(Len(t.common) > CgiEnvMax))
  BY DEF AddToCommonEnv, TooMany, ServerOK, ServerFields
<1> HIDE DEF t
<1>2b. t.common = Append(s.common, e) /\ s.common \in Seq(Shared)
  BY <1>2 DEF ServerOK
<1>3. t.common \in Seq(Shared) /\ Len(t.common) = Len(s.common) + 1 /\ Len(s.common) \in Nat
  BY <1>1, <1>2b
<1>4. \A i \in 1..Len(s.common) : t.common[i] = s.common[i]
  BY <1>1, <1>2b
<1>5. CgiEnvMax \in Nat
  BY ReloadAssumption
<1>6. ServerOK(t)
  BY <1>2, <1>2a, <1>3 DEF ServerOK
<1>7. Grown(s, t)
  BY <1>2a, <1>3, <1>4, <1>5, <1>6 DEF Grown
<1> QED BY <1>2, <1>7 DEF t

LEMMA AddMimeTypesKeeps ==
  ASSUME NEW s, NEW types, ServerOK(s), Len(types) \in Nat
  PROVE  /\ ServerOK(AddMimeTypes(s, types))
         /\ AddMimeTypes(s, types).common = s.common
         /\ AddMimeTypes(s, types).aliases = s.aliases
         /\ AddMimeTypes(s, types).up = s.up
<1>1. PICK F : AddMimeTypes(s, types) = [s EXCEPT !.mime = F[Len(types)]]
  BY MimeUnfolds
<1> QED BY <1>1 DEF ServerOK, ServerFields

\* What apply_command does with a line, by its key.
StringKeys == {"DocumentRoot", "VHostRoot", "DefaultVHost", "DefaultType"}

LEMMA Commands ==
  ASSUME NEW s, NEW l, NEW n
  PROVE  /\ l.key \in StringKeys => \E name : ApplyCommand(s, l, n) = SetString(s, name, l.value)
         /\ l.key = "VirtualHost" => ApplyCommand(s, l, n) = [s EXCEPT !.settings.virtualhost = TRUE]
         /\ l.key = "Alias" => ApplyCommand(s, l, n) = [s EXCEPT !.aliases = AddAlias(s.aliases, l.value)]
         /\ l.key \in TypeKeys => ApplyCommand(s, l, n) = AddMimeTypes(s, TypesOf(l))
         /\ l.key = "CGIEnv" => ApplyCommand(s, l, n) = AddToCommonEnv(s, l.value, n)
         /\ l.key \notin StringKeys \cup TypeKeys \cup {"VirtualHost", "Alias", "CGIEnv"}
              => ApplyCommand(s, l, n) = [s EXCEPT !.up = FALSE]
<1>1. ASSUME l.key \in StringKeys PROVE \E name : ApplyCommand(s, l, n) = SetString(s, name, l.value)
  <2>1. CASE l.key = "DocumentRoot"
    <3>1. /\ l.key # "VHostRoot" /\ l.key # "DefaultVHost" /\ l.key # "DefaultType"
          /\ l.key # "VirtualHost" /\ l.key # "Alias" /\ l.key # "CGIEnv"
          /\ l.key \notin TypeKeys
      BY <2>1 DEF TypeKeys
    <3>2. ApplyCommand(s, l, n) = SetString(s, "document_root", l.value)
      BY <2>1, <3>1, Zenon DEF ApplyCommand
    <3> QED BY <3>2, Zenon
  <2>2. CASE l.key = "VHostRoot"
    <3>1. /\ l.key # "DocumentRoot" /\ l.key # "DefaultVHost" /\ l.key # "DefaultType"
          /\ l.key # "VirtualHost" /\ l.key # "Alias" /\ l.key # "CGIEnv"
          /\ l.key \notin TypeKeys
      BY <2>2 DEF TypeKeys
    <3>2. ApplyCommand(s, l, n) = SetString(s, "vhost_root", l.value)
      BY <2>2, <3>1, Zenon DEF ApplyCommand
    <3> QED BY <3>2, Zenon
  <2>3. CASE l.key = "DefaultVHost"
    <3>1. /\ l.key # "DocumentRoot" /\ l.key # "VHostRoot" /\ l.key # "DefaultType"
          /\ l.key # "VirtualHost" /\ l.key # "Alias" /\ l.key # "CGIEnv"
          /\ l.key \notin TypeKeys
      BY <2>3 DEF TypeKeys
    <3>2. ApplyCommand(s, l, n) = SetString(s, "default_vhost", l.value)
      BY <2>3, <3>1, Zenon DEF ApplyCommand
    <3> QED BY <3>2, Zenon
  <2>4. CASE l.key = "DefaultType"
    <3>1. /\ l.key # "DocumentRoot" /\ l.key # "VHostRoot" /\ l.key # "DefaultVHost"
          /\ l.key # "VirtualHost" /\ l.key # "Alias" /\ l.key # "CGIEnv"
          /\ l.key \notin TypeKeys
      BY <2>4 DEF TypeKeys
    <3>2. ApplyCommand(s, l, n) = SetString(s, "default_type", l.value)
      BY <2>4, <3>1, Zenon DEF ApplyCommand
    <3> QED BY <3>2, Zenon
  <2> QED BY <1>1, <2>1, <2>2, <2>3, <2>4 DEF StringKeys
<1>2. ASSUME l.key = "VirtualHost"
      PROVE  ApplyCommand(s, l, n) = [s EXCEPT !.settings.virtualhost = TRUE]
  <2>1. /\ l.key # "DocumentRoot" /\ l.key # "VHostRoot" /\ l.key # "DefaultVHost"
        /\ l.key # "DefaultType" /\ l.key # "Alias" /\ l.key # "CGIEnv"
        /\ l.key \notin TypeKeys
    BY <1>2 DEF TypeKeys
  <2> QED BY <1>2, <2>1, Zenon DEF ApplyCommand
<1>3. ASSUME l.key = "Alias"
      PROVE  ApplyCommand(s, l, n) = [s EXCEPT !.aliases = AddAlias(s.aliases, l.value)]
  <2>1. /\ l.key # "DocumentRoot" /\ l.key # "VHostRoot" /\ l.key # "DefaultVHost"
        /\ l.key # "DefaultType" /\ l.key # "VirtualHost" /\ l.key # "CGIEnv"
        /\ l.key \notin TypeKeys
    BY <1>3 DEF TypeKeys
  <2> QED BY <1>3, <2>1, Zenon DEF ApplyCommand
<1>4. ASSUME l.key \in TypeKeys PROVE ApplyCommand(s, l, n) = AddMimeTypes(s, TypesOf(l))
  <2>1. /\ l.key # "DocumentRoot" /\ l.key # "VHostRoot" /\ l.key # "DefaultVHost"
        /\ l.key # "DefaultType" /\ l.key # "VirtualHost" /\ l.key # "Alias"
        /\ l.key # "CGIEnv"
    BY <1>4 DEF TypeKeys
  <2> QED BY <1>4, <2>1, Zenon DEF ApplyCommand
<1>5. ASSUME l.key = "CGIEnv"
      PROVE  ApplyCommand(s, l, n) = AddToCommonEnv(s, l.value, n)
  <2>1. /\ l.key # "DocumentRoot" /\ l.key # "VHostRoot" /\ l.key # "DefaultVHost"
        /\ l.key # "DefaultType" /\ l.key # "VirtualHost" /\ l.key # "Alias"
        /\ l.key \notin TypeKeys
    BY <1>5 DEF TypeKeys
  <2> QED BY <1>5, <2>1, Zenon DEF ApplyCommand
<1>6. ASSUME l.key \notin StringKeys \cup TypeKeys \cup {"VirtualHost", "Alias", "CGIEnv"}
      PROVE  ApplyCommand(s, l, n) = [s EXCEPT !.up = FALSE]
  <2>1. /\ l.key # "DocumentRoot" /\ l.key # "VHostRoot" /\ l.key # "DefaultVHost"
        /\ l.key # "DefaultType" /\ l.key # "VirtualHost" /\ l.key # "Alias"
        /\ l.key # "CGIEnv" /\ l.key \notin TypeKeys
    BY <1>6 DEF StringKeys
  <2> QED BY <2>1, Zenon DEF ApplyCommand
<1> QED BY <1>1, <1>2, <1>3, <1>4, <1>5, <1>6

\* The lines of boa.conf.
LineOK(l) ==
  /\ l.key = "Alias" => l.value.fake \in Seq(DOMAIN Hash) \ {<<>>}
  /\ l.key \in TypeKeys => /\ TypesOf(l) \in Seq(Range(TypesOf(l)))
                           /\ \A e \in Range(TypesOf(l)) : e.ext \in DOMAIN Hash
  /\ l.key = "CGIEnv" => l.value \in Values

LEMMA LinesOK ==
  ASSUME NEW f \in Files
  PROVE  f \in Seq(Range(f)) /\ \A i \in DOMAIN f : LineOK(f[i])
<1>1. \A i \in DOMAIN f : f[i].key = "CGIEnv" => f[i].value \in Values
  BY DEF Values
<1> QED BY <1>1, ReloadAssumption, Zenon DEF LineOK

\* What a line of a file does to the configuration: it extends the common
\* environment, it changes one of the tables at most, and no line is read when
\* the one before has ended the process.
LineTakes(s, l, t) ==
  /\ Grown(s, t)
  /\ t.up => s.up
  /\ t.up => t.aliases = IF l.key = "Alias" THEN AddAlias(s.aliases, l.value) ELSE s.aliases
  /\ t.up => t.mime = IF l.key \in TypeKeys THEN AddMimeTypes(s, TypesOf(l)).mime ELSE s.mime

LEMMA TakesNeither ==
  ASSUME NEW s, NEW l, NEW t, s.up, l.key # "Alias", l.key \notin TypeKeys,
         Grown(s, t), t.aliases = s.aliases, t.mime = s.mime
  PROVE  LineTakes(s, l, t)
BY Zenon DEF LineTakes

LEMMA LineGrows ==
  ASSUME NEW s, ServerOK(s), NEW l, LineOK(l), NEW n \in Nat
  PROVE  LineTakes(s, l, ParseLine(s, l, n))
<1> DEFINE t == ParseLine(s, l, n)
<1> HIDE DEF t
<1> SUFFICES LineTakes(s, l, t)
  BY DEF t
<1>1. s.up \in BOOLEAN
  BY DEF ServerOK
<1>2. CASE ~s.up
  <2>1. t = s
    BY <1>2 DEF ParseLine, t
  <2>2. Grown(s, s)
    BY SameCommonGrows
  <2> QED BY <1>2, <2>1, <2>2, Zenon DEF LineTakes
<1>3. CASE s.up
  <2>1. t = ApplyCommand(s, l, n)
    BY <1>3 DEF ParseLine, t
  <2>2. CASE l.key \in StringKeys
    <3>1. PICK name : t = SetString(s, name, l.value)
      BY <2>1, <2>2, Commands
    <3>2. l.key # "Alias" /\ l.key \notin TypeKeys
      BY <2>2 DEF StringKeys, TypeKeys
    <3> QED BY <1>3, <3>1, <3>2, SetStringGrows, TakesNeither, SMTT(30)
  <2>3. CASE l.key = "VirtualHost"
    <3>1. t = [s EXCEPT !.settings.virtualhost = TRUE]
      BY <2>1, <2>3, Commands
    <3>2. ServerOK(t) /\ t.common = s.common /\ t.aliases = s.aliases /\ t.mime = s.mime
      BY <3>1 DEF ServerOK, ServerFields
    <3>3. l.key # "Alias" /\ l.key \notin TypeKeys
      BY <2>3 DEF TypeKeys
    <3> QED BY <1>3, <3>2, <3>3, SameCommonGrows, TakesNeither, Zenon
  <2>4. CASE l.key = "Alias"
    <3>1. t = [s EXCEPT !.aliases = AddAlias(s.aliases, l.value)]
      BY <2>1, <2>4, Commands
    <3>2. /\ ServerOK(t) /\ t.common = s.common /\ t.aliases = AddAlias(s.aliases, l.value)
          /\ t.mime = s.mime
      BY <3>1 DEF ServerOK, ServerFields
    <3>3. l.key \notin TypeKeys
      BY <2>4 DEF TypeKeys
    <3> QED BY <1>3, <2>4, <3>2, <3>3, SameCommonGrows, Zenon DEF LineTakes
  <2>5. CASE l.key \in TypeKeys
    <3>1. t = AddMimeTypes(s, TypesOf(l))
      BY <2>1, <2>5, Commands
    <3>2. TypesOf(l) \in Seq(Range(TypesOf(l))) /\ l.key # "Alias"
      BY <2>5 DEF LineOK, TypeKeys
    <3>3. Len(TypesOf(l)) \in Nat
      BY <3>2
    <3>4. ServerOK(t) /\ t.common = s.common /\ t.aliases = s.aliases
      BY <3>1, <3>3, AddMimeTypesKeeps, Zenon
    <3> QED BY <1>3, <2>5, <3>1, <3>2, <3>4, SameCommonGrows, Zenon DEF LineTakes
  <2>6. CASE l.key = "CGIEnv"
    <3>1. t = AddToCommonEnv(s, l.value, n)
      BY <2>1, <2>6, Commands
    <3>2. l.value \in Values
      BY <2>6 DEF LineOK
    <3>3. l.key # "Alias" /\ l.key \notin TypeKeys
      BY <2>6 DEF TypeKeys
    <3> QED BY <1>3, <3>1, <3>2, <3>3, CommonEnvGrows, TakesNeither, Zenon
  <2>7. CASE l.key \notin StringKeys \cup TypeKeys \cup {"VirtualHost", "Alias", "CGIEnv"}
    <3>1. t = [s EXCEPT !.up = FALSE]
      BY <2>1, <2>7, Commands
    <3>2. ServerOK(t) /\ t.common = s.common /\ t.aliases = s.aliases /\ t.mime = s.mime
      BY <3>1 DEF ServerOK, ServerFields
    <3>3. l.key # "Alias" /\ l.key \notin TypeKeys
      BY <2>7
    <3> QED BY <1>3, <3>2, <3>3, SameCommonGrows, TakesNeither, Zenon
  <2> QED BY <2>2, <2>3, <2>4, <2>5, <2>6, <2>7, Zenon
<1> QED BY <1>1, <1>2, <1>3

\* F[i] is the configuration after the first i lines of f.
Reads(s, f, F) ==
  /\ F[0] = s
  /\ \A i \in 1..Len(f) : LineTakes(F[i - 1], f[i], F[i])
  /\ \A i \in 0..Len(f) : Grown(s, F[i])

LEMMA ParseReads ==
  ASSUME NEW s, ServerOK(s), NEW f \in Files, NEW n \in Nat
  PROVE  \E F : Reads(s, f, F) /\ Parse(s, f, n) = F[Len(f)]
<1>1. f \in Seq(Range(f)) /\ \A i \in DOMAIN f : LineOK(f[i])
  BY LinesOK, Zenon
<1>2. Len(f) \in Nat /\ DOMAIN f = 1..Len(f)
  BY <1>1
<1>3. PICK F : ParseLoop(s, f, n, F, Len(f)) /\ Parse(s, f, n) = F[Len(f)]
  BY <1>2, ParseUnfolds, Zenon
<1>4. \A i \in 0..Len(f) : F[i] = IF i = 0 THEN s ELSE ParseLine(F[i - 1], f[i], n)
  BY <1>3, Zenon DEF ParseLoop
<1>5. F[0] = s
  <2>1. 0 \in 0..Len(f)
    BY <1>2
  <2> QED BY <1>4, <2>1, Zenon
<1>6. \A i \in 1..Len(f) : F[i] = ParseLine(F[i - 1], f[i], n) /\ LineOK(f[i])
  <2> TAKE i \in 1..Len(f)
  <2>1. i \in 0..Len(f) /\ i # 0
    BY <1>2
  <2> QED BY <1>1, <1>2, <1>4, <2>1, Zenon
<1>7. \A i \in 1..Len(f) : ServerOK(F[i - 1]) => LineTakes(F[i - 1], f[i], F[i])
  BY <1>6, LineGrows, Zenon
<1> DEFINE T == {i \in Nat : i <= Len(f) => ServerOK(F[i]) /\ Grown(s, F[i])}
<1>8. 0 \in T
  BY <1>5, SameCommonGrows
<1>9. ASSUME NEW i \in T PROVE i + 1 \in T
  <2> SUFFICES ASSUME i + 1 <= Len(f) PROVE ServerOK(F[i + 1]) /\ Grown(s, F[i + 1])
    OBVIOUS
  <2>1. i + 1 \in 1..Len(f) /\ (i + 1) - 1 = i /\ ServerOK(F[i]) /\ Grown(s, F[i])
    BY <1>2
  <2>2. LineTakes(F[i], f[i + 1], F[i + 1])
    <3>1. ServerOK(F[(i + 1) - 1])
      BY <2>1, Zenon
    <3>2. LineTakes(F[(i + 1) - 1], f[i + 1], F[i + 1])
      BY <1>7, <2>1, <3>1, Zenon
    <3> QED BY <2>1, <3>2, Zenon
  <2> HIDE DEF T
  <2>3. ServerOK(F[i + 1])
    BY <2>2 DEF LineTakes, Grown
  <2>4. Grown(F[i], F[i + 1]) /\ (F[i + 1].up => F[i].up)
    BY <2>2, Zenon DEF LineTakes
  <2> QED BY <2>1, <2>3, <2>4, GrownTransitive, Zenon
<1> HIDE DEF T
<1>10. T = Nat
  BY <1>8, <1>9, Induct DEF T
<1>11. \A i \in 0..Len(f) : ServerOK(F[i]) /\ Grown(s, F[i])
  BY <1>2, <1>10 DEF T
<1>12. \A i \in 1..Len(f) : i - 1 \in 0..Len(f)
  BY <1>2
<1>13. \A i \in 1..Len(f) : LineTakes(F[i - 1], f[i], F[i])
  BY <1>7, <1>11, <1>12, Zenon
<1>14. Reads(s, f, F)
  BY <1>5, <1>11, <1>13, Zenon DEF Reads
<1> QED BY <1>3, <1>14, Zenon

LEMMA CheckedKeeps ==
  ASSUME NEW s, ServerOK(s)
  PROVE  /\ Grown(s, Checked(s)) /\ (Checked(s).up => s.up)
         /\ Checked(s).common = s.common
         /\ Checked(s).aliases = s.aliases /\ Checked(s).mime = s.mime
<1>1. /\ Checked(s) = [x \in ServerFields |-> Checked(s)[x]]
      /\ Checked(s).common = s.common
      /\ Checked(s).aliases = s.aliases /\ Checked(s).mime = s.mime
  BY DEF Checked, ServerOK, ServerFields
<1>2. Checked(s).up \in BOOLEAN /\ (Checked(s).up => s.up)
  BY DEF Checked, ServerOK, ServerFields
<1>3. ServerOK(Checked(s))
  BY <1>1, <1>2, Zenon DEF ServerOK
<1> QED BY <1>1, <1>2, <1>3, SameCommonGrows, Zenon

LEMMA ReadGrows ==
  ASSUME NEW s, ServerOK(s), NEW f \in Files, NEW n \in Nat
  PROVE  LET t == ReadConfigFiles(s, f, n)
         IN /\ Grown(s, t)
            /\ t.up => \E F : /\ Reads(s, f, F) /\ F[Len(f)].up
                              /\ t.aliases = F[Len(f)].aliases /\ t.mime = F[Len(f)].mime
<1>1. PICK F : Reads(s, f, F) /\ Parse(s, f, n) = F[Len(f)]
  BY ParseReads, Zenon
<1>2. Len(f) \in 0..Len(f)
  <2>1. f \in Seq(Range(f))
    BY LinesOK, Zenon
  <2> QED BY <2>1
<1>3. Grown(s, F[Len(f)])
  BY <1>1, <1>2, Zenon DEF Reads
<1>4. ServerOK(F[Len(f)])
  BY <1>3, Zenon DEF Grown
<1>5. ReadConfigFiles(s, f, n) = Checked(F[Len(f)])
  BY <1>1, Zenon DEF ReadConfigFiles
<1>6. Grown(s, Checked(F[Len(f)]))
  BY <1>3, <1>4, CheckedKeeps, GrownTransitive, Zenon
<1> DEFINE t == ReadConfigFiles(s, f, n)
<1>7. (t.up => F[Len(f)].up) /\ t.aliases = F[Len(f)].aliases /\ t.mime = F[Len(f)].mime
  BY <1>4, <1>5, CheckedKeeps
<1>8. Grown(s, t)
  BY <1>5, <1>6
<1> HIDE DEF t
<1>9. /\ Grown(s, t)
      /\ t.up => \E G : /\ Reads(s, f, G) /\ G[Len(f)].up
                        /\ t.aliases = G[Len(f)].aliases /\ t.mime = G[Len(f)].mime
  BY <1>1, <1>7, <1>8, Zenon
<1> QED BY <1>9, Zenon DEF t

LEMMA BlankOK == ServerOK(Blank) /\ Blank.aliases = EmptyTable /\ Blank.mime = EmptyTable
<1>1. /\ Blank = [x \in ServerFields |-> Blank[x]] /\ Blank.up \in BOOLEAN /\ Blank.common = <<>>
      /\ Blank.aliases = EmptyTable /\ Blank.mime = EmptyTable
  BY DEF Blank, ServerFields
<1>2. <<>> \in Seq(Shared)
  OBVIOUS
<1> QED BY <1>1, <1>2, Zenon DEF ServerOK

LEMMA BaseOK == Base \in Seq(Shared) /\ Len(Base) = CommonCount
<1>1. CommonCount \in Nat
  BY ReloadAssumption
<1>2. \A i \in 1..CommonCount : <<"base", i>> \in Shared
  BY DEF Shared
<1>3. Base \in [1..CommonCount -> Shared]
  BY <1>2, Zenon DEF Base
<1> QED BY <1>1, <1>3

LEMMA StartUpOK ==
  ASSUME NEW f \in Files
  PROVE  LET t == StartUp(f)
         IN /\ ServerOK(t) /\ t.common = Base
            /\ t.up => \E F : /\ Reads(Blank, f, F) /\ F[Len(f)].up
                              /\ t.aliases = F[Len(f)].aliases /\ t.mime = F[Len(f)].mime
<1> DEFINE s == ReadConfigFiles(Blank, f, 0)
           t == StartUp(f)
<1>1. 0 \in Nat
  OBVIOUS
<1>2. /\ Grown(Blank, s)
      /\ s.up => \E F : /\ Reads(Blank, f, F) /\ F[Len(f)].up
                        /\ s.aliases = F[Len(f)].aliases /\ s.mime = F[Len(f)].mime
  BY <1>1, BlankOK, ReadGrows, Zenon
<1>3. t = [s EXCEPT !.common = Base]
  BY DEF StartUp
<1> HIDE DEF s, t
<1>4. ServerOK(s)
  BY <1>2, Zenon DEF Grown
<1>5. /\ t = [x \in ServerFields |-> t[x]] /\ t.up = s.up /\ t.common = Base
      /\ t.aliases = s.aliases /\ t.mime = s.mime
  BY <1>3, <1>4 DEF ServerOK, ServerFields
<1>6. ServerOK(t)
  BY <1>4, <1>5, BaseOK, Zenon DEF ServerOK
<1>7. /\ ServerOK(t) /\ t.common = Base
      /\ t.up => \E F : /\ Reads(Blank, f, F) /\ F[Len(f)].up
                        /\ t.aliases = F[Len(f)].aliases /\ t.mime = F[Len(f)].mime
  BY <1>2, <1>5, <1>6, Zenon
<1> QED BY <1>7, Zenon DEF t
-----------------------------------------------------------------------------
\* The shape of a request.
Phases == {"idle", "header", "body", "child", "ended"}
RequestFields == {"phase", "number", "method", "env", "index", "options", "answer", "uri"}
RequestOK(q) ==
  /\ q = [x \in RequestFields |-> q[x]]
  /\ q.phase \in Phases /\ q.number \in Nat /\ q.index \in 0..CgiEnvMax
  /\ q.env = [i \in Slots |-> q.env[i]]

\* A slot of a request's environment is empty or has the request's own string,
\* the one made for this slot, or a common one, and only where the first n,
\* the common ones of now, are.
SlotsOK(q, n) ==
  \A i \in Slots :
    /\ q.env[i] = <<>> \/ q.env[i] = OwnString(q.number, i) \/ q.env[i] \in Shared
    /\ q.env[i] \in Shared => i <= n

\* A request that no reload came upon has its own strings behind the common
\* ones C and up to index, its options among them, and once it is a child's,
\* the common ones before.
FreshOK(q, C) ==
  /\ Len(C) <= q.index
  /\ \A i \in Slots : q.env[i] = OwnString(q.number, i) => Len(C) < i /\ i <= q.index
  /\ \A o \in q.options : \E i \in Slots : Len(C) < i /\ i <= q.index /\ q.env[i] = o
  /\ q.phase = "child" => \A i \in 1..Len(C) : q.env[i] = C[i]

\* How a request in flight may change: what it has behind the common strings
\* stays.
Continues(q, p, C) ==
  /\ RequestOK(p) /\ SlotsOK(p, Len(C))
  /\ p.number = q.number /\ p.answer = q.answer /\ p.uri = q.uri
  /\ q.index <= p.index
  /\ \A i \in Slots : Len(C) < i /\ i <= q.index => p.env[i] = q.env[i]
  /\ FreshOK(q, C) => FreshOK(p, C)
  /\ p.phase # "idle"

LEMMA ContinuesTransitive ==
  ASSUME NEW q, NEW p, NEW o, NEW C, q.index \in Nat, Continues(q, p, C), Continues(p, o, C)
  PROVE  Continues(q, o, C)
<1>1. q.index \in Nat /\ p.index \in Nat /\ o.index \in Nat /\ \A i \in Slots : i \in Nat
  <2>1. CgiEnvMax \in Nat
    BY ReloadAssumption
  <2> QED BY <2>1 DEF Continues, RequestOK, Slots
<1>2. q.index <= o.index /\ \A i \in Slots : i <= q.index => i <= p.index
  BY <1>1 DEF Continues
<1>3. \A i \in Slots : Len(C) < i /\ i <= q.index => o.env[i] = q.env[i]
  BY <1>2, Zenon DEF Continues
<1> QED BY <1>2, <1>3, Zenon DEF Continues

LEMMA PhaseContinues ==
  ASSUME NEW q, NEW C, RequestOK(q), SlotsOK(q, Len(C)), NEW ph \in Phases \ {"idle", "child"}
  PROVE  Continues(q, [q EXCEPT !.phase = ph], C)
<1> DEFINE p == [q EXCEPT !.phase = ph]
<1>1. /\ p = [x \in RequestFields |-> p[x]]
      /\ p.phase = ph /\ p.number = q.number /\ p.index = q.index /\ p.env = q.env
      /\ p.answer = q.answer /\ p.uri = q.uri /\ p.options = q.options
  BY DEF RequestOK, RequestFields
<1> HIDE DEF p
<1>2. RequestOK(p)
  BY <1>1, Zenon DEF RequestOK
<1>3. SlotsOK(p, Len(C))
  BY <1>1, Zenon DEF SlotsOK
<1>4. ph # "child" /\ ph # "idle"
  OBVIOUS
<1>5. FreshOK(q, C) => FreshOK(p, C)
  BY <1>1, <1>4, Zenon DEF FreshOK
<1>6. q.index <= q.index
  BY DEF RequestOK
<1>7. Continues(q, p, C)
  BY <1>1, <1>2, <1>3, <1>4, <1>5, <1>6, Zenon DEF Continues
<1> QED BY <1>7 DEF p

\* add_cgi_env on a request with room.
LEMMA AddContinues ==
  ASSUME NEW q, NEW C, RequestOK(q), SlotsOK(q, Len(C)), q.phase # "idle", HasRoom(q),
         Len(C) \in Nat
  PROVE  /\ Continues(q, AddCgiEnv(q), C)
         /\ AddCgiEnv(q).options = q.options /\ AddCgiEnv(q).phase = q.phase
         /\ AddCgiEnv(q).index = q.index + 1
         /\ AddCgiEnv(q).env[q.index + 1] = String(q)
<1> DEFINE p == AddCgiEnv(q)
           k == q.index + 1
<1>1. CgiEnvMax \in Nat
  BY ReloadAssumption
<1>2. q.index \in Nat /\ k \in Slots /\ k \in 0..CgiEnvMax /\ q.index < k
  BY <1>1 DEF RequestOK, HasRoom, Slots
<1>3. String(q) = OwnString(q.number, k)
  BY DEF String, OwnString
<1>4. /\ p = [x \in RequestFields |-> p[x]]
      /\ p.phase = q.phase /\ p.number = q.number /\ p.index = k
      /\ p.env = [q.env EXCEPT ![k] = String(q)]
      /\ p.answer = q.answer /\ p.uri = q.uri /\ p.options = q.options
  BY DEF AddCgiEnv, RequestOK, RequestFields
<1> HIDE DEF p, k
<1>5. q.env = [i \in Slots |-> q.env[i]]
  BY DEF RequestOK
<1>6. /\ p.env = [i \in Slots |-> p.env[i]] /\ p.env[k] = String(q)
      /\ \A i \in Slots : i # k => p.env[i] = q.env[i]
  BY <1>2, <1>4, <1>5
<1>7. RequestOK(p)
  BY <1>2, <1>4, <1>6, Zenon DEF RequestOK
<1>8. SlotsOK(p, Len(C))
  <2>1. OwnString(q.number, k) \notin Shared
    BY StringsApart
  <2>2. p.number = q.number
    BY <1>4
  <2> SUFFICES ASSUME NEW i \in Slots
               PROVE  /\ \/ p.env[i] = <<>> \/ p.env[i] = OwnString(p.number, i)
                         \/ p.env[i] \in Shared
                      /\ p.env[i] \in Shared => i <= Len(C)
    BY Zenon DEF SlotsOK
  <2>3. CASE i = k
    BY <1>3, <1>6, <2>1, <2>2, <2>3, Zenon
  <2>4. CASE i # k
    BY <1>6, <2>2, <2>4, Zenon DEF SlotsOK
  <2> QED BY <2>3, <2>4
<1>9. q.index <= p.index /\ \A i \in Slots : i <= q.index => i # k /\ i <= p.index
  BY <1>1, <1>2, <1>4 DEF Slots
<1>10. ASSUME FreshOK(q, C) PROVE FreshOK(p, C)
  <2>1. Len(C) <= q.index /\ Len(C) < k /\ Len(C) <= p.index /\ k <= p.index
    BY <1>2, <1>4, <1>10 DEF FreshOK
  <2>2. \A i \in Slots : p.env[i] = OwnString(p.number, i) => Len(C) < i /\ i <= p.index
    <3> TAKE i \in Slots
    <3>1. p.number = q.number
      BY <1>4
    <3>2. CASE i = k
      BY <2>1, <3>2, Zenon
    <3>3. CASE i # k
      BY <1>6, <1>9, <1>10, <3>1, <3>3, Zenon DEF FreshOK
    <3> QED BY <3>2, <3>3
  <2>3. \A o \in p.options : \E i \in Slots : Len(C) < i /\ i <= p.index /\ p.env[i] = o
    <3>1. p.options = q.options
      BY <1>4
    <3> SUFFICES ASSUME NEW o \in q.options
                 PROVE  \E i \in Slots : Len(C) < i /\ i <= p.index /\ p.env[i] = o
      BY <3>1, Zenon
    <3>2. PICK i \in Slots : Len(C) < i /\ i <= q.index /\ q.env[i] = o
      BY <1>10, Zenon DEF FreshOK
    <3>3. i # k /\ i <= p.index
      BY <1>9, <3>2, Zenon
    <3> QED BY <1>6, <3>2, <3>3, Zenon
  <2>4. \A i \in 1..Len(C) : i \in Slots /\ i <= q.index
    BY <1>1, <1>2, <2>1 DEF Slots, RequestOK
  <2>5. p.phase = "child" => \A i \in 1..Len(C) : p.env[i] = C[i]
    BY <1>4, <1>6, <1>9, <1>10, <2>4, Zenon DEF FreshOK
  <2> QED BY <2>1, <2>2, <2>3, <2>5, Zenon DEF FreshOK
<1>11. Continues(q, p, C)
  BY <1>4, <1>6, <1>7, <1>8, <1>9, <1>10, Zenon DEF Continues
<1> QED BY <1>4, <1>6, <1>11, Zenon DEF p, k

LEMMA ChildContinues ==
  ASSUME NEW q, ServerOK(server), Len(server.common) <= CgiEnvMax, RequestOK(q),
         SlotsOK(q, Len(server.common))
  PROVE  Continues(q, [WithCommon(q) EXCEPT !.phase = "child"], server.common)
<1> DEFINE C == server.common
           p == [WithCommon(q) EXCEPT !.phase = "child"]
           env == [i \in Slots |-> IF i <= Len(C) THEN C[i] ELSE q.env[i]]
<1>1. CgiEnvMax \in Nat /\ C \in Seq(Shared)
  BY ReloadAssumption DEF ServerOK
<1>2. /\ p = [x \in RequestFields |-> p[x]]
      /\ p.phase = "child" /\ p.number = q.number /\ p.index = q.index /\ p.env = env
      /\ p.answer = q.answer /\ p.uri = q.uri /\ p.options = q.options
  BY DEF WithCommon, RequestOK, RequestFields
<1> HIDE DEF p
<1>3. Len(C) \in Nat /\ (\A i \in 1..Len(C) : i \in Slots /\ C[i] \in Shared)
      /\ \A i \in Slots : i <= Len(C) => i \in 1..Len(C)
  BY <1>1 DEF Slots
<1>4. \A i \in Slots : p.env[i] = IF i <= Len(C) THEN C[i] ELSE q.env[i]
  BY <1>2, Zenon
<1>5. p.env = [i \in Slots |-> p.env[i]]
  BY <1>2, Zenon
<1> HIDE DEF env, C
<1>6. RequestOK(p)
  BY <1>2, <1>5, Zenon DEF RequestOK, Phases
<1>7. p.number = q.number /\ p.index = q.index /\ p.options = q.options
  BY <1>2
<1>8. \A i \in Slots : Len(C) < i => ~(i <= Len(C))
  BY <1>1, <1>3 DEF Slots
<1>9. SlotsOK(q, Len(C))
  BY DEF C
<1>10. SlotsOK(p, Len(C))
  <2> SUFFICES ASSUME NEW i \in Slots
               PROVE  /\ \/ p.env[i] = <<>> \/ p.env[i] = OwnString(p.number, i)
                         \/ p.env[i] \in Shared
                      /\ p.env[i] \in Shared => i <= Len(C)
    BY Zenon DEF SlotsOK
  <2>1. CASE i <= Len(C)
    BY <1>3, <1>4, <2>1, Zenon
  <2>2. CASE ~(i <= Len(C))
    BY <1>4, <1>7, <1>9, <2>2, Zenon DEF SlotsOK
  <2> QED BY <2>1, <2>2
<1>11. ASSUME FreshOK(q, C) PROVE FreshOK(p, C)
  <2>1. \A i \in Slots : p.env[i] = OwnString(p.number, i) => Len(C) < i /\ i <= p.index
    <3> TAKE i \in Slots
    <3>1. CASE i <= Len(C)
      <4>1. p.env[i] \in Shared
        BY <1>3, <1>4, <3>1, Zenon
      <4>2. OwnString(p.number, i) \notin Shared
        BY StringsApart
      <4> QED BY <4>1, <4>2, Zenon
    <3>2. CASE ~(i <= Len(C))
      BY <1>4, <1>7, <1>11, <3>2, Zenon DEF FreshOK
    <3> QED BY <3>1, <3>2
  <2>2. ASSUME NEW o \in q.options
        PROVE  \E i \in Slots : Len(C) < i /\ i <= p.index /\ p.env[i] = o
    <3>1. PICK i \in Slots : Len(C) < i /\ i <= q.index /\ q.env[i] = o
      BY <1>11, Zenon DEF FreshOK
    <3> QED BY <1>4, <1>7, <1>8, <3>1, Zenon
  <2>3. \A i \in 1..Len(C) : p.env[i] = C[i]
    <3> TAKE i \in 1..Len(C)
    <3>1. i \in Slots /\ i <= Len(C)
      BY <1>3
    <3> QED BY <1>4, <3>1, Zenon
  <2>4. Len(C) <= p.index
    BY <1>7, <1>11, Zenon DEF FreshOK
  <2> QED BY <1>7, <2>1, <2>2, <2>3, <2>4, Zenon DEF FreshOK
<1>12. q.index <= p.index
  BY <1>7 DEF RequestOK
<1>13. p.phase # "idle"
  BY <1>2
<1>14. Continues(q, p, C)
  BY <1>2, <1>4, <1>6, <1>8, <1>10, <1>11, <1>12, <1>13, Zenon DEF Continues
<1> QED BY <1>14 DEF p, C

\* complete_env, one variable at a time.
OneMore(p) == IF p.phase = "child" /\ HasRoom(p) THEN AddCgiEnv(p) ELSE [p EXCEPT !.phase = "ended"]

LEMMA OneMoreContinues ==
  ASSUME NEW q, NEW p, NEW C, q.index \in Nat, Len(C) \in Nat, Continues(q, p, C)
  PROVE  Continues(q, OneMore(p), C)
<1>1. RequestOK(p) /\ SlotsOK(p, Len(C)) /\ p.phase # "idle"
  BY Zenon DEF Continues
<1>2. CASE p.phase = "child" /\ HasRoom(p)
  BY <1>1, <1>2, AddContinues, ContinuesTransitive, Zenon DEF OneMore
<1>3. CASE ~(p.phase = "child" /\ HasRoom(p))
  <2>1. "ended" \in Phases \ {"idle", "child"}
    BY DEF Phases
  <2>2. OneMore(p) = [p EXCEPT !.phase = "ended"]
    BY <1>3, Zenon DEF OneMore
  <2> QED BY <1>1, <2>1, <2>2, PhaseContinues, ContinuesTransitive, Zenon
<1> QED BY <1>2, <1>3

LEMMA CompleteContinues ==
  ASSUME NEW q, ServerOK(server), Len(server.common) <= CgiEnvMax, RequestOK(q),
         SlotsOK(q, Len(server.common))
  PROVE  Continues(q, CompleteEnv(q), server.common)
<1> DEFINE c == [WithCommon(q) EXCEPT !.phase = "child"]
<1>1. CompleteEnv(q) = IF q.answer.info = <<>> THEN OneMore(OneMore(c))
                       ELSE OneMore(OneMore(OneMore(c)))
  BY Zenon DEF CompleteEnv, OneMore
<1>2. q.index \in Nat
  <2>1. CgiEnvMax \in Nat
    BY ReloadAssumption
  <2> QED BY <2>1 DEF RequestOK
<1>3. Len(server.common) \in Nat
  BY DEF ServerOK
<1>4. Continues(q, c, server.common)
  BY ChildContinues
<1> HIDE DEF c
<1>5. Continues(q, OneMore(c), server.common)
  BY <1>2, <1>3, <1>4, OneMoreContinues, Zenon
<1>6. Continues(q, OneMore(OneMore(c)), server.common)
  BY <1>2, <1>3, <1>5, OneMoreContinues, Zenon
<1>7. Continues(q, OneMore(OneMore(OneMore(c))), server.common)
  BY <1>2, <1>3, <1>6, OneMoreContinues, Zenon
<1> QED BY <1>1, <1>6, <1>7, Zenon

\* process_option_line: the string is also an option the program must get.
LEMMA OptionContinues ==
  ASSUME NEW q, NEW C, RequestOK(q), SlotsOK(q, Len(C)), q.phase # "idle", HasRoom(q),
         Len(C) \in Nat
  PROVE  Continues(q, [AddCgiEnv(q) EXCEPT !.options = q.options \cup {String(q)}], C)
<1> DEFINE a == AddCgiEnv(q)
           p == [a EXCEPT !.options = q.options \cup {String(q)}]
           k == q.index + 1
<1>1. /\ Continues(q, a, C) /\ a.options = q.options /\ a.index = k /\ a.env[k] = String(q)
  BY AddContinues
<1> HIDE DEF a
<1>2. RequestOK(a) /\ SlotsOK(a, Len(C))
  BY <1>1, Zenon DEF Continues
<1>3. /\ p = [x \in RequestFields |-> p[x]]
      /\ p.phase = a.phase /\ p.number = a.number /\ p.index = a.index /\ p.env = a.env
      /\ p.answer = a.answer /\ p.uri = a.uri /\ p.options = q.options \cup {String(q)}
  BY <1>2 DEF RequestOK, RequestFields
<1> HIDE DEF p
<1>4. RequestOK(p)
  BY <1>2, <1>3, Zenon DEF RequestOK
<1>5. SlotsOK(p, Len(C))
  BY <1>2, <1>3, Zenon DEF SlotsOK
<1>6. ASSUME FreshOK(q, C) PROVE FreshOK(p, C)
  <2>1. FreshOK(a, C)
    BY <1>1, <1>6, Zenon DEF Continues
  <2>2. CgiEnvMax \in Nat
    BY ReloadAssumption
  <2>3. k \in Slots /\ Len(C) < k /\ k <= k
    BY <1>6, <2>2 DEF Slots, FreshOK, RequestOK, HasRoom
  <2>4. ASSUME NEW o \in p.options
        PROVE  \E i \in Slots : Len(C) < i /\ i <= p.index /\ p.env[i] = o
    <3>1. CASE o = String(q)
      BY <1>1, <1>3, <2>3, <3>1, Zenon
    <3>2. CASE o \in q.options
      <4>1. PICK i \in Slots : Len(C) < i /\ i <= a.index /\ a.env[i] = o
        BY <1>1, <2>1, <3>2, Zenon DEF FreshOK
      <4> QED BY <1>3, <4>1, Zenon
    <3> QED BY <1>3, <3>1, <3>2
  <2> QED BY <1>3, <2>1, <2>4, Zenon DEF FreshOK
<1>7. Continues(q, p, C)
  BY <1>1, <1>3, <1>4, <1>5, <1>6, Zenon DEF Continues
<1> QED BY <1>7 DEF p, a
-----------------------------------------------------------------------------
\* The inductive invariant.  The configuration:
ServerInv ==
  /\ loaded \in Files /\ reloads \in Nat
  /\ ServerOK(server)
  /\ CommonCount <= Len(server.common)
  /\ server.up => Len(server.common) <= CgiEnvMax
  /\ Strings(server) \subseteq heap

\* The numbers tell the requests in flight apart.
NumbersInv ==
  /\ seen \in Nat
  /\ reqs = [r \in Req |-> reqs[r]]
  /\ \A r \in Req : reqs[r].number <= seen /\ (reqs[r].phase = "idle" <=> reqs[r].number = 0)
  /\ \A r, s \in Req : reqs[r].number = reqs[s].number /\ reqs[r].number # 0 => r = s
  /\ \A k \in hit : k \in Nat /\ k <= seen

EnvInv ==
  \A r \in Req :
    /\ RequestOK(reqs[r]) /\ SlotsOK(reqs[r], Len(server.common))
    /\ reqs[r].phase # "idle" /\ reqs[r].number \notin hit => FreshOK(reqs[r], server.common)

\* An allocated string is a common one or in a slot that free_request will
\* free, unless a reload came upon its request.
Holds(q, k, i, n) == q.number = k /\ n < i /\ i <= q.index /\ q.env[i] = OwnString(k, i)
HeapInv ==
  \A e \in heap :
    \/ e \in Shared
    \/ \E k \in Nat \ {0}, i \in Slots :
         /\ e = OwnString(k, i)
         /\ k \notin hit => \E r \in Req : Holds(reqs[r], k, i, Len(server.common))

IInv == ServerInv /\ NumbersInv /\ EnvInv /\ HeapInv

SameEnv(q, p) ==
  /\ p.phase = q.phase /\ p.number = q.number /\ p.env = q.env /\ p.index = q.index
  /\ p.options = q.options

\* A step of one request that leaves it in flight.
LEMMA RequestSteps ==
  ASSUME IInv, NEW r \in Req, NEW q, NEW p, NEW X, reqs[r].phase # "idle",
         SameEnv(reqs[r], q), Continues(q, p, server.common),
         X \subseteq Own(p), heap' = heap \cup X, reqs' = [reqs EXCEPT ![r] = p],
         UNCHANGED <<loaded, server, reloads, seen, hit>>
  PROVE  IInv'
<1> DEFINE C == server.common
<1>1. ServerInv'
  <2>1. Strings(server)' = Strings(server)
    BY Zenon DEF Strings
  <2> QED BY <2>1 DEF IInv, ServerInv
<1>2. /\ reqs = [s \in Req |-> reqs[s]] /\ reqs'[r] = p
      /\ reqs' = [s \in Req |-> reqs'[s]] /\ \A s \in Req : s # r => reqs'[s] = reqs[s]
  BY DEF IInv, NumbersInv
<1>3. p.number = reqs[r].number /\ p.phase # "idle" /\ reqs[r].number # 0
  BY Zenon DEF Continues, SameEnv, IInv, NumbersInv
<1>4. \A s \in Req : reqs'[s].number = reqs[s].number
                      /\ (reqs'[s].phase = "idle" <=> reqs[s].phase = "idle")
  BY <1>2, <1>3, Zenon
<1>5. NumbersInv'
  <2>1. NumbersInv /\ seen' = seen /\ hit' = hit
    BY DEF IInv
  <2>2. \A s \in Req : reqs'[s].number <= seen /\ (reqs'[s].phase = "idle" <=> reqs'[s].number = 0)
    BY <1>4, <2>1, Zenon DEF NumbersInv
  <2>3. ASSUME NEW s \in Req, NEW t \in Req, reqs'[s].number = reqs'[t].number,
               reqs'[s].number # 0
        PROVE  s = t
    <3>1. reqs[s].number = reqs[t].number /\ reqs[s].number # 0
      BY <1>4, <2>3
    <3> QED BY <2>1, <3>1, Zenon DEF NumbersInv
  <2> QED BY <1>2, <2>1, <2>2, <2>3, Zenon DEF NumbersInv
<1>6. reqs[r].number \notin hit => FreshOK(p, C)
  <2>1. reqs[r].number \notin hit => FreshOK(reqs[r], C)
    BY Zenon DEF IInv, EnvInv
  <2>2. FreshOK(reqs[r], C) => FreshOK(q, C)
    BY Zenon DEF SameEnv, FreshOK
  <2> QED BY <2>1, <2>2, Zenon DEF Continues
<1>7. EnvInv'
  <2> SUFFICES ASSUME NEW s \in Req
               PROVE  /\ RequestOK(reqs'[s]) /\ SlotsOK(reqs'[s], Len(C))
                      /\ reqs'[s].phase # "idle" /\ reqs'[s].number \notin hit
                           => FreshOK(reqs'[s], C)
    BY Zenon DEF EnvInv
  <2>1. CASE s = r
    BY <1>2, <1>3, <1>6, <2>1, Zenon DEF Continues
  <2>2. CASE s # r
    BY <1>2, <2>2, Zenon DEF IInv, EnvInv
  <2> QED BY <2>1, <2>2
<1>8. HeapInv'
  <2> SUFFICES ASSUME NEW e \in heap \cup X
               PROVE  \/ e \in Shared
                      \/ \E k \in Nat \ {0}, i \in Slots :
                           /\ e = OwnString(k, i)
                           /\ k \notin hit => \E s \in Req : Holds(reqs'[s], k, i, Len(C))
    BY Zenon DEF HeapInv
  <2>1. CASE e \in heap
    <3>1. CASE e \in Shared
      BY <3>1
    <3>2. CASE e \notin Shared
      <4>1. PICK k \in Nat \ {0}, i \in Slots :
               /\ e = OwnString(k, i)
               /\ k \notin hit => \E s \in Req : Holds(reqs[s], k, i, Len(C))
        BY <2>1, <3>2, Zenon DEF IInv, HeapInv
      <4>2. ASSUME k \notin hit PROVE \E s \in Req : Holds(reqs'[s], k, i, Len(C))
        <5>1. PICK s \in Req : Holds(reqs[s], k, i, Len(C))
          BY <4>1, <4>2, Zenon
        <5>2. CASE s # r
          BY <1>2, <5>1, <5>2, Zenon
        <5>3. CASE s = r
          <6>1. q.number = k /\ Len(C) < i /\ i <= q.index /\ q.env[i] = OwnString(k, i)
            BY <5>1, <5>3, Zenon DEF Holds, SameEnv
          <6>2. p.number = k /\ p.env[i] = OwnString(k, i) /\ q.index <= p.index
            BY <6>1, Zenon DEF Continues
          <6>3. q.index \in Int /\ p.index \in Int /\ i \in Int
            <7>1. CgiEnvMax \in Nat
              BY ReloadAssumption
            <7>2. reqs[r].index \in 0..CgiEnvMax /\ p.index \in 0..CgiEnvMax
              BY Zenon DEF Continues, IInv, EnvInv, RequestOK
            <7>3. q.index = reqs[r].index
              BY Zenon DEF SameEnv
            <7> QED BY <7>1, <7>2, <7>3 DEF Slots
          <6>4. i <= p.index
            BY <6>1, <6>2, <6>3
          <6> QED BY <1>2, <6>1, <6>2, <6>4, Zenon DEF Holds
        <5> QED BY <5>2, <5>3
      <4> QED BY <4>1, <4>2, Zenon
    <3> QED BY <3>1, <3>2
  <2>2. CASE e \in X
    <3>1. e \in Own(p)
      BY <2>2
    <3>2. PICK i \in 1..p.index : e = p.env[i] /\ e # <<>> /\ e[1] = "own"
      BY <3>1 DEF Own
    <3>3. i \in Slots /\ i <= p.index
      <4>1. CgiEnvMax \in Nat
        BY ReloadAssumption
      <4>2. p.index \in 0..CgiEnvMax
        BY Zenon DEF Continues, RequestOK
      <4> QED BY <4>1, <4>2 DEF Slots
    <3>4. SlotsOK(p, Len(C))
      BY Zenon DEF Continues
    <3>5. e \notin Shared
      BY <3>2, StringsApart, Zenon
    <3>6. e = OwnString(p.number, i)
      BY <3>2, <3>3, <3>4, <3>5, Zenon DEF SlotsOK
    <3>7. p.number \in Nat \ {0}
      <4>1. p.number \in Nat
        BY Zenon DEF Continues, RequestOK
      <4> QED BY <1>3, <4>1
    <3>8. p.number \notin hit => Len(C) < i
      BY <1>3, <1>6, <3>2, <3>3, <3>6, Zenon DEF FreshOK
    <3>9. p.number \notin hit => Holds(reqs'[r], p.number, i, Len(C))
      BY <1>2, <3>2, <3>3, <3>6, <3>8, Zenon DEF Holds
    <3> QED BY <3>3, <3>6, <3>7, <3>9, Zenon
  <2> QED BY <2>1, <2>2
<1> QED BY <1>1, <1>5, <1>7, <1>8, Zenon DEF IInv

LEMMA IdleOK ==
  /\ RequestOK(Idle) /\ (\A n : SlotsOK(Idle, n))
  /\ Idle.phase = "idle" /\ Idle.number = 0
  /\ Idle.env = EmptyEnv /\ Idle.options = {}
  /\ Idle.answer = Refused("none") /\ Idle.uri = <<>>
<1>1. /\ Idle = [x \in RequestFields |-> Idle[x]]
      /\ Idle.phase = "idle" /\ Idle.number = 0 /\ Idle.index = 0
      /\ Idle.env = EmptyEnv /\ Idle.options = {}
      /\ Idle.answer = Refused("none") /\ Idle.uri = <<>>
  BY DEF Idle, RequestFields
<1>2. EmptyEnv = [i \in Slots |-> EmptyEnv[i]] /\ \A i \in Slots : EmptyEnv[i] = <<>>
  BY Zenon DEF EmptyEnv
<1>3. 0 \in 0..CgiEnvMax /\ 0 \in Nat
  BY ReloadAssumption
<1>4. RequestOK(Idle)
  BY <1>1, <1>2, <1>3, Zenon DEF RequestOK, Phases
<1>5. <<>> \notin Shared
  BY StringsApart
<1>6. ASSUME NEW n PROVE SlotsOK(Idle, n)
  BY <1>1, <1>2, <1>5, Zenon DEF SlotsOK
<1> QED BY <1>1, <1>4, <1>6, Zenon

LEMMA InitOK == Init => IInv
<1> SUFFICES ASSUME Init PROVE IInv
  OBVIOUS
<1>1. loaded \in Files /\ server = StartUp(loaded) /\ heap = Strings(server)
      /\ reqs = [r \in Req |-> Idle] /\ reloads = 0 /\ seen = 0 /\ hit = {}
  BY DEF Init
<1>2. ServerOK(server) /\ server.common = Base
  BY <1>1, StartUpOK, Zenon
<1>3. CommonCount \in Nat /\ CgiEnvMax \in Nat /\ CommonCount < CgiEnvMax
  BY ReloadAssumption
<1>4. ServerInv
  <2>1. Len(server.common) = CommonCount
    BY <1>2, BaseOK, Zenon
  <2>2. CommonCount <= CommonCount /\ CommonCount <= CgiEnvMax /\ 0 \in Nat
    BY <1>3
  <2> QED BY <1>1, <1>2, <2>1, <2>2, Zenon DEF ServerInv
<1>5. \A r \in Req : reqs[r] = Idle
  BY <1>1, Zenon
<1>6. 0 <= 0 /\ 0 \in Nat
  OBVIOUS
<1>7. reqs = [r \in Req |-> reqs[r]]
  BY <1>1, Zenon
<1>8. NumbersInv
  BY <1>1, <1>5, <1>6, <1>7, IdleOK, Zenon DEF NumbersInv
<1>9. EnvInv
  BY <1>5, IdleOK, Zenon DEF EnvInv
<1>10. \A e \in Strings(server) : e \in Shared
  BY <1>2, BaseOK DEF Strings
<1>11. HeapInv
  BY <1>1, <1>10, Zenon DEF HeapInv
<1> QED BY <1>4, <1>8, <1>9, <1>11, Zenon DEF IInv

LEMMA DumpedKeeps ==
  ASSUME NEW s, ServerOK(s)
  PROVE  /\ ServerOK(Dumped(s)) /\ Dumped(s).common = s.common /\ Dumped(s).up = s.up
         /\ Dumped(s).aliases = EmptyTable /\ Dumped(s).mime = EmptyTable
BY DEF Dumped, ServerOK, ServerFields

LEMMA ReloadOK ==
  ASSUME IInv, SighupRun
  PROVE  IInv'
<1>1. /\ server.up /\ reloads' = reloads + 1 /\ loaded' \in Files
      /\ server' = ReadConfigFiles(Dumped(server), loaded', reloads')
      /\ heap' = heap \cup Strings(server') /\ hit' = hit \cup Numbers
      /\ reqs' = reqs /\ seen' = seen
  BY DEF SighupRun
<1>2. ServerOK(server) /\ reloads \in Nat
  BY DEF IInv, ServerInv
<1>3. reloads' \in Nat
  BY <1>1, <1>2
<1>4. ServerOK(Dumped(server)) /\ Dumped(server).common = server.common
  BY <1>2, DumpedKeeps, Zenon
<1>5. Grown(Dumped(server), server')
  BY <1>1, <1>3, <1>4, ReadGrows, Zenon
<1>6. /\ ServerOK(server') /\ Len(server.common) <= Len(server'.common)
      /\ server'.up /\ server'.common # server.common => Len(server'.common) <= CgiEnvMax
  BY <1>4, <1>5, Zenon DEF Grown
<1>7. Len(server.common) \in Nat /\ Len(server'.common) \in Nat /\ server'.common \in Seq(Shared)
  BY <1>2, <1>6 DEF ServerOK
<1>8. ServerInv'
  <2>1. CommonCount <= Len(server.common) /\ Len(server.common) <= CgiEnvMax
    BY <1>1, Zenon DEF IInv, ServerInv
  <2>2. CommonCount \in Nat
    BY ReloadAssumption
  <2>3. CommonCount <= Len(server'.common)
    BY <1>6, <1>7, <2>1, <2>2
  <2>4. server'.up => Len(server'.common) <= CgiEnvMax
    BY <1>6, <2>1, Zenon
  <2>5. Strings(server)' \subseteq heap'
    BY <1>1, Zenon DEF Strings
  <2> QED BY <1>1, <1>3, <1>6, <2>3, <2>4, <2>5, Zenon DEF ServerInv
<1>9. \A r \in Req : reqs[r].phase # "idle" => reqs[r].number \in hit'
  BY <1>1, Zenon DEF Numbers, IInv, NumbersInv
<1>10. NumbersInv'
  <2>1. NumbersInv
    BY DEF IInv
  <2>2. \A r \in Req : RequestOK(reqs[r])
    BY DEF IInv, EnvInv
  <2>3. \A k \in Numbers : k \in Nat /\ k <= seen
    BY <2>1, <2>2 DEF Numbers, NumbersInv, RequestOK
  <2>4. \A k \in hit' : k \in Nat /\ k <= seen
    BY <1>1, <2>1, <2>3, Zenon DEF NumbersInv
  <2> QED BY <1>1, <2>1, <2>4, Zenon DEF NumbersInv
<1>11. EnvInv'
  <2> SUFFICES ASSUME NEW r \in Req
               PROVE  /\ RequestOK(reqs[r]) /\ SlotsOK(reqs[r], Len(server'.common))
                      /\ reqs[r].phase # "idle" => reqs[r].number \in hit'
    BY <1>1, Zenon DEF EnvInv
  <2>1. RequestOK(reqs[r]) /\ SlotsOK(reqs[r], Len(server.common))
    BY Zenon DEF IInv, EnvInv
  <2>2. \A i \in Slots : i <= Len(server.common) => i <= Len(server'.common)
    BY <1>6, <1>7, ReloadAssumption DEF Slots
  <2>3. SlotsOK(reqs[r], Len(server'.common))
    BY <2>1, <2>2, Zenon DEF SlotsOK
  <2> QED BY <1>9, <2>1, <2>3, Zenon
<1>12. HeapInv'
  <2> SUFFICES ASSUME NEW e \in heap'
               PROVE  \/ e \in Shared
                      \/ \E k \in Nat \ {0}, i \in Slots : e = OwnString(k, i) /\ k \in hit'
    BY Zenon DEF HeapInv
  <2>1. CASE e \in Strings(server')
    <3>1. PICK i \in DOMAIN server'.common : e = server'.common[i]
      BY <2>1, Zenon DEF Strings
    <3>2. e \in Shared
      BY <1>7, <3>1
    <3> QED BY <3>2
  <2>2. CASE e \in heap /\ e \notin Shared
    <3>1. PICK k \in Nat \ {0}, i \in Slots :
             /\ e = OwnString(k, i)
             /\ k \notin hit => \E r \in Req : Holds(reqs[r], k, i, Len(server.common))
      BY <2>2, Zenon DEF IInv, HeapInv
    <3>2. k \in hit'
      <4>1. CASE k \in hit
        BY <1>1, <4>1, Zenon
      <4>2. CASE k \notin hit
        <5>1. PICK r \in Req : reqs[r].number = k
          BY <3>1, <4>2, Zenon DEF Holds
        <5>2. k # 0
          BY <3>1
        <5>3. k \in Numbers
          BY <5>1, <5>2 DEF Numbers
        <5> QED BY <1>1, <5>3, Zenon
      <4> QED BY <4>1, <4>2
    <3> QED BY <3>1, <3>2, Zenon
  <2> QED BY <1>1, <2>1, <2>2, Zenon
<1> QED BY <1>8, <1>10, <1>11, <1>12, Zenon DEF IInv

LEMMA LoglineOK ==
  ASSUME IInv, NEW r \in Req, ProcessLogline(r)
  PROVE  IInv'
<1>1. /\ server.up /\ reqs[r].phase = "idle" /\ seen' = seen + 1
      /\ heap' = heap /\ hit' = hit /\ server' = server /\ loaded' = loaded /\ reloads' = reloads
  BY DEF ProcessLogline
<1>2. PICK method \in {"GET", "POST"} :
         reqs' = [reqs EXCEPT ![r] = [Idle EXCEPT !.phase = "header", !.number = seen',
                                                  !.method = method, !.index = FirstIndex]]
  BY Zenon DEF ProcessLogline
<1> DEFINE p == [Idle EXCEPT !.phase = "header", !.number = seen',
                             !.method = method, !.index = FirstIndex]
           C == server.common
<1>3. RequestOK(Idle) /\ Idle.env = EmptyEnv /\ Idle.options = {}
  BY IdleOK
<1>4. /\ p = [x \in RequestFields |-> p[x]] /\ p.phase = "header" /\ p.number = seen'
      /\ p.index = FirstIndex /\ p.env = EmptyEnv /\ p.options = {}
  BY <1>3 DEF RequestOK, RequestFields
<1> HIDE DEF p
<1>5. ServerInv /\ NumbersInv /\ EnvInv /\ HeapInv
  BY DEF IInv
<1>6. ServerOK(server) /\ Len(C) <= CgiEnvMax /\ seen \in Nat
  BY <1>1, <1>5, Zenon DEF ServerInv, NumbersInv
<1>7. CgiEnvMax \in Nat /\ Len(C) \in Nat
  BY <1>6, ReloadAssumption DEF ServerOK
<1>8. seen' \in Nat /\ seen' # 0 /\ (\A k \in Nat : k <= seen => k # seen' /\ k <= seen')
      /\ seen' <= seen'
  BY <1>1, <1>6
<1>9. FirstIndex = Len(C) /\ Len(C) \in 0..CgiEnvMax /\ Len(C) <= Len(C)
  BY <1>6, <1>7 DEF FirstIndex
<1>10. EmptyEnv = [i \in Slots |-> EmptyEnv[i]] /\ \A i \in Slots : EmptyEnv[i] = <<>>
  BY Zenon DEF EmptyEnv
<1>11. RequestOK(p)
  BY <1>4, <1>8, <1>9, <1>10, Zenon DEF RequestOK, Phases
<1>12. <<>> \notin Shared /\ \A k, i : OwnString(k, i) # <<>>
  BY StringsApart
<1>13. SlotsOK(p, Len(C))
  BY <1>4, <1>10, <1>12, Zenon DEF SlotsOK
<1>14. FreshOK(p, C)
  <2>1. p.phase # "child" /\ p.options = {} /\ Len(C) <= p.index
    BY <1>4, <1>9
  <2>2. \A i \in Slots : p.env[i] # OwnString(p.number, i)
    BY <1>4, <1>10, <1>12, Zenon
  <2> QED BY <2>1, <2>2, Zenon DEF FreshOK
<1>15. /\ reqs = [s \in Req |-> reqs[s]] /\ reqs' = [reqs EXCEPT ![r] = p]
  BY <1>2, <1>5, Zenon DEF NumbersInv, p
<1>16. reqs'[r] = p /\ reqs' = [s \in Req |-> reqs'[s]] /\ \A s \in Req : s # r => reqs'[s] = reqs[s]
  BY <1>15
<1>17. ServerInv'
  <2>1. Strings(server)' = Strings(server)
    BY <1>1, Zenon DEF Strings
  <2> QED BY <1>1, <1>5, <2>1, Zenon DEF ServerInv
<1>18. \A s \in Req : reqs[s].number \in Nat /\ reqs[s].number <= seen
  BY <1>5, Zenon DEF NumbersInv, EnvInv, RequestOK
<1>19. NumbersInv'
  <2>1. p.phase # "idle"
    BY <1>4
  <2>2. ASSUME NEW s \in Req
        PROVE  reqs'[s].number <= seen' /\ (reqs'[s].phase = "idle" <=> reqs'[s].number = 0)
    <3>1. CASE s = r
      BY <1>4, <1>8, <1>16, <2>1, <3>1, Zenon
    <3>2. CASE s # r
      BY <1>5, <1>8, <1>16, <1>18, <3>2, Zenon DEF NumbersInv
    <3> QED BY <3>1, <3>2
  <2>3. ASSUME NEW s \in Req, NEW t \in Req, reqs'[s].number = reqs'[t].number,
               reqs'[s].number # 0
        PROVE  s = t
    <3>1. \A u \in Req : u # r => reqs'[u].number # seen'
      BY <1>8, <1>16, <1>18, Zenon
    <3>2. reqs'[r].number = seen'
      BY <1>4, <1>16, Zenon
    <3>3. CASE s = r \/ t = r
      BY <2>3, <3>1, <3>2, <3>3, Zenon
    <3>4. CASE s # r /\ t # r
      <4>1. reqs[s].number = reqs[t].number /\ reqs[s].number # 0
        BY <1>16, <2>3, <3>4
      <4> QED BY <1>5, <4>1, Zenon DEF NumbersInv
    <3> QED BY <3>3, <3>4
  <2>4. \A k \in hit' : k \in Nat /\ k <= seen'
    BY <1>1, <1>5, <1>8, Zenon DEF NumbersInv
  <2> QED BY <1>8, <1>16, <2>2, <2>3, <2>4, Zenon DEF NumbersInv
<1>20. EnvInv'
  <2> SUFFICES ASSUME NEW s \in Req
               PROVE  /\ RequestOK(reqs'[s]) /\ SlotsOK(reqs'[s], Len(C))
                      /\ reqs'[s].phase # "idle" /\ reqs'[s].number \notin hit
                           => FreshOK(reqs'[s], C)
    BY <1>1, Zenon DEF EnvInv
  <2>1. CASE s = r
    BY <1>11, <1>13, <1>14, <1>16, <2>1, Zenon
  <2>2. CASE s # r
    BY <1>5, <1>16, <2>2, Zenon DEF EnvInv
  <2> QED BY <2>1, <2>2
<1>21. HeapInv'
  <2> SUFFICES ASSUME NEW e \in heap
               PROVE  \/ e \in Shared
                      \/ \E k \in Nat \ {0}, i \in Slots :
                           /\ e = OwnString(k, i)
                           /\ k \notin hit => \E s \in Req : Holds(reqs'[s], k, i, Len(C))
    BY <1>1, Zenon DEF HeapInv
  <2>1. CASE e \in Shared
    BY <2>1
  <2>2. CASE e \notin Shared
    <3>1. PICK k \in Nat \ {0}, i \in Slots :
             /\ e = OwnString(k, i)
             /\ k \notin hit => \E s \in Req : Holds(reqs[s], k, i, Len(C))
      BY <1>5, <2>2, Zenon DEF HeapInv
    <3>2. ASSUME k \notin hit PROVE \E s \in Req : Holds(reqs'[s], k, i, Len(C))
      <4>1. PICK s \in Req : Holds(reqs[s], k, i, Len(C))
        BY <3>1, <3>2, Zenon
      <4>2. k # 0
        BY <3>1
      <4>3. s # r
        BY <1>1, <1>5, <4>1, <4>2, Zenon DEF Holds, NumbersInv
      <4> QED BY <1>16, <4>1, <4>3, Zenon
    <3> QED BY <3>1, <3>2, Zenon
  <2> QED BY <2>1, <2>2
<1> QED BY <1>17, <1>19, <1>20, <1>21, Zenon DEF IInv

\* What the handlers of a request find.
LEMMA Found ==
  ASSUME IInv, server.up, NEW r \in Req
  PROVE  /\ ServerOK(server) /\ Len(server.common) \in Nat /\ Len(server.common) <= CgiEnvMax
         /\ RequestOK(reqs[r]) /\ SlotsOK(reqs[r], Len(server.common))
<1>1. ServerOK(server) /\ Len(server.common) <= CgiEnvMax
  BY Zenon DEF IInv, ServerInv
<1>2. Len(server.common) \in Nat
  BY <1>1 DEF ServerOK
<1> QED BY <1>1, <1>2, Zenon DEF IInv, EnvInv

LEMMA OptionLineOK ==
  ASSUME IInv, NEW r \in Req, ProcessOptionLine(r)
  PROVE  IInv'
<1> DEFINE q == reqs[r]
           p == [AddCgiEnv(q) EXCEPT !.options = q.options \cup {String(q)}]
<1>1. server.up /\ q.phase = "header" /\ UNCHANGED <<loaded, server, reloads, seen, hit>>
  BY DEF ProcessOptionLine
<1>2. /\ reqs' = [reqs EXCEPT ![r] = IF HasRoom(q) THEN [AddCgiEnv(q) EXCEPT !.options = @ \cup {String(q)}]
                                     ELSE [q EXCEPT !.phase = "ended"]]
      /\ heap' = IF HasRoom(q) THEN heap \cup Own([AddCgiEnv(q) EXCEPT !.options = @ \cup {String(q)}])
                 ELSE heap
  BY Zenon DEF ProcessOptionLine
<1>3. /\ ServerOK(server) /\ Len(server.common) \in Nat
      /\ RequestOK(q) /\ SlotsOK(q, Len(server.common))
  BY <1>1, Found, Zenon
<1>4. q.phase # "idle"
  BY <1>1
<1>5. SameEnv(q, q)
  BY Zenon DEF SameEnv
<1> HIDE DEF q
<1>6. CASE HasRoom(q)
  <2>1. AddCgiEnv(q).options = q.options
    BY <1>3, <1>4, <1>6, AddContinues, Zenon
  <2>2. p = [AddCgiEnv(q) EXCEPT !.options = @ \cup {String(q)}]
    BY <2>1, Zenon
  <2>3. Continues(q, p, server.common)
    BY <1>3, <1>4, <1>6, OptionContinues, Zenon
  <2> HIDE DEF p
  <2>4. reqs' = [reqs EXCEPT ![r] = p] /\ heap' = heap \cup Own(p)
    BY <1>2, <1>6, <2>2, Zenon
  <2> QED BY <1>1, <1>4, <1>5, <2>3, <2>4, RequestSteps, Zenon DEF q
<1>7. CASE ~HasRoom(q)
  <2> DEFINE o == [q EXCEPT !.phase = "ended"]
             none == {}
  <2>1. "ended" \in Phases \ {"idle", "child"}
    BY DEF Phases
  <2>2. Continues(q, o, server.common)
    BY <1>3, <2>1, PhaseContinues, Zenon
  <2> HIDE DEF o
  <2>3. reqs' = [reqs EXCEPT ![r] = o] /\ heap' = heap \cup none
    BY <1>2, <1>7, Zenon DEF o
  <2>4. none \subseteq Own(o)
    OBVIOUS
  <2> HIDE DEF none
  <2> QED BY <1>1, <1>4, <1>5, <2>2, <2>3, <2>4, RequestSteps, Zenon DEF q
<1> QED BY <1>6, <1>7

LEMMA InitCgiOK ==
  ASSUME IInv, NEW r \in Req, InitCgi(r)
  PROVE  IInv'
<1> DEFINE q == reqs[r]
           p == IF q.answer.kind = "script" THEN CompleteEnv(q) ELSE [q EXCEPT !.phase = "ended"]
<1>1. server.up /\ q.phase = "body" /\ UNCHANGED <<loaded, server, reloads, seen, hit>>
  BY DEF InitCgi
<1>2. reqs = [s \in Req |-> reqs[s]]
  BY Zenon DEF IInv, NumbersInv
<1>3. reqs' = [reqs EXCEPT ![r] = p] /\ heap' = heap \cup Own(reqs'[r])
  BY Zenon DEF InitCgi
<1>4. /\ ServerOK(server) /\ Len(server.common) <= CgiEnvMax
      /\ RequestOK(q) /\ SlotsOK(q, Len(server.common))
  BY <1>1, Found, Zenon
<1>5. q.phase # "idle"
  BY <1>1
<1>6. SameEnv(q, q)
  BY Zenon DEF SameEnv
<1>7. "ended" \in Phases \ {"idle", "child"}
  BY DEF Phases
<1> HIDE DEF q
<1>8. Continues(q, p, server.common)
  BY <1>4, <1>7, PhaseContinues, CompleteContinues, Zenon
<1> HIDE DEF p
<1>9. reqs'[r] = p
  BY <1>2, <1>3
<1>10. heap' = heap \cup Own(p)
  BY <1>3, <1>9, Zenon
<1> QED BY <1>1, <1>3, <1>5, <1>6, <1>8, <1>10, RequestSteps, Zenon DEF q

\* What process_header_end does with the URI and with the request.
AnswerFor(raw, q) ==
  IF Cleaned(raw) = <<>> THEN Refused("bad_request")
  ELSE TranslateUri(server.settings, server.aliases, server.mime, Cleaned(raw), q.method)

Answered(q, raw) ==
  [q EXCEPT !.answer = AnswerFor(raw, q),
            !.uri = IF AnswerFor(raw, q).kind = "script" THEN Cleaned(raw) ELSE <<>>]

Handled(o, q, raw) ==
  CASE AnswerFor(raw, q).kind \notin {"script", "file"} -> [o EXCEPT !.phase = "ended"]
    [] q.method = "POST" -> [o EXCEPT !.phase = "body"]
    [] AnswerFor(raw, q).kind = "script" -> CompleteEnv(o)
    [] OTHER -> [o EXCEPT !.phase = "ended"]

LEMMA HeaderEndSteps ==
  ASSUME NEW r \in Req, ProcessHeaderEnd(r)
  PROVE  /\ server.up /\ reqs[r].phase = "header"
         /\ UNCHANGED <<loaded, server, reloads, seen, hit>>
         /\ \E raw \in RawUris :
              LET c == Handled(Answered(reqs[r], raw), reqs[r], raw)
              IN reqs' = [reqs EXCEPT ![r] = c] /\ heap' = heap \cup Own(c)
BY Zenon DEF ProcessHeaderEnd, AnswerFor, Answered, Handled

LEMMA HandledContinues ==
  ASSUME NEW o, NEW q, NEW raw, ServerOK(server), Len(server.common) <= CgiEnvMax,
         RequestOK(o), SlotsOK(o, Len(server.common))
  PROVE  Continues(o, Handled(o, q, raw), server.common)
<1>1. \A ph \in {"ended", "body"} : Continues(o, [o EXCEPT !.phase = ph], server.common)
  <2>1. {"ended", "body"} \subseteq Phases \ {"idle", "child"}
    BY DEF Phases
  <2> QED BY <2>1, PhaseContinues, Zenon
<1>2. Continues(o, CompleteEnv(o), server.common)
  BY CompleteContinues, Zenon
<1> QED BY <1>1, <1>2, Zenon DEF Handled

LEMMA HeaderEndOK ==
  ASSUME IInv, NEW r \in Req, ProcessHeaderEnd(r)
  PROVE  IInv'
<1> DEFINE q == reqs[r]
<1>1. PICK raw \in RawUris :
         LET c == Handled(Answered(q, raw), q, raw)
         IN reqs' = [reqs EXCEPT ![r] = c] /\ heap' = heap \cup Own(c)
  BY HeaderEndSteps, Zenon
<1>2. server.up /\ q.phase = "header" /\ UNCHANGED <<loaded, server, reloads, seen, hit>>
  BY HeaderEndSteps, Zenon
<1>3. /\ ServerOK(server) /\ Len(server.common) <= CgiEnvMax
      /\ RequestOK(q) /\ SlotsOK(q, Len(server.common))
  BY <1>2, Found, Zenon
<1>4. q.phase # "idle"
  BY <1>2
<1> DEFINE o == Answered(q, raw)
           c == Handled(o, q, raw)
<1>5. /\ o = [x \in RequestFields |-> o[x]] /\ SameEnv(q, o)
  BY <1>3 DEF RequestOK, RequestFields, SameEnv, Answered
<1> HIDE DEF o, q
<1>6. RequestOK(o) /\ SlotsOK(o, Len(server.common))
  BY <1>3, <1>5, Zenon DEF RequestOK, SlotsOK, SameEnv
<1>7. Continues(o, c, server.common)
  BY <1>3, <1>6, HandledContinues, Zenon
<1>8. reqs' = [reqs EXCEPT ![r] = c] /\ heap' = heap \cup Own(c)
  BY <1>1, Zenon DEF o
<1> HIDE DEF c
<1> QED BY <1>2, <1>4, <1>5, <1>7, <1>8, RequestSteps, Zenon DEF q

LEMMA FreeOK ==
  ASSUME IInv, NEW r \in Req, FreeRequest(r)
  PROVE  IInv'
<1> DEFINE q == reqs[r]
           C == server.common
<1>1. /\ server.up /\ q.phase # "idle" /\ UNCHANGED <<loaded, server, reloads, seen, hit>>
      /\ heap' = heap \ {q.env[i] : i \in FirstFreed..q.index}
      /\ reqs' = [reqs EXCEPT ![r] = Idle]
  BY DEF FreeRequest
<1>2. ServerInv /\ NumbersInv /\ EnvInv /\ HeapInv
  BY DEF IInv
<1>3. /\ ServerOK(server) /\ Len(C) \in Nat /\ Len(C) <= CgiEnvMax
      /\ RequestOK(q) /\ SlotsOK(q, Len(C))
  BY <1>1, Found, Zenon
<1>4. CgiEnvMax \in Nat
  BY ReloadAssumption
<1>5. \A i \in FirstFreed..q.index : i \in Slots /\ ~(i <= Len(C))
  BY <1>3, <1>4 DEF Slots, FirstFreed, RequestOK
<1>6. \A i \in Slots : Len(C) < i /\ i <= q.index => i \in FirstFreed..q.index
  BY <1>3, <1>4 DEF Slots, FirstFreed, RequestOK
<1>7. \A i \in FirstFreed..q.index : q.env[i] \notin Shared
  BY <1>3, <1>5, Zenon DEF SlotsOK
<1>8. reqs = [s \in Req |-> reqs[s]]
  BY <1>2, Zenon DEF NumbersInv
<1>9. reqs'[r] = Idle /\ reqs' = [s \in Req |-> reqs'[s]] /\ \A s \in Req : s # r => reqs'[s] = reqs[s]
  BY <1>1, <1>8
<1> HIDE DEF q
<1>10. ServerInv'
  <2>1. Strings(server)' = Strings(server)
    BY <1>1, Zenon DEF Strings
  <2>2. \A e \in Strings(server) : e \in Shared
    BY <1>3 DEF Strings, ServerOK
  <2>3. Strings(server) \subseteq heap'
    BY <1>1, <1>2, <1>7, <2>2, Zenon DEF ServerInv
  <2> QED BY <1>1, <1>2, <2>1, <2>3, Zenon DEF ServerInv
<1>11. NumbersInv'
  <2>1. seen' = seen /\ hit' = hit /\ 0 <= seen
    BY <1>1, <1>2 DEF NumbersInv
  <2>2. ASSUME NEW s \in Req
        PROVE  reqs'[s].number <= seen' /\ (reqs'[s].phase = "idle" <=> reqs'[s].number = 0)
    <3>1. CASE s = r
      BY <1>9, <2>1, <3>1, IdleOK, Zenon
    <3>2. CASE s # r
      BY <1>2, <1>9, <2>1, <3>2, Zenon DEF NumbersInv
    <3> QED BY <3>1, <3>2
  <2>3. ASSUME NEW s \in Req, NEW t \in Req, reqs'[s].number = reqs'[t].number,
               reqs'[s].number # 0
        PROVE  s = t
    <3>1. reqs'[r].number = 0
      BY <1>9, IdleOK, Zenon
    <3>2. s # r /\ t # r
      BY <2>3, <3>1, Zenon
    <3>3. reqs[s].number = reqs[t].number /\ reqs[s].number # 0
      BY <1>9, <2>3, <3>2
    <3> QED BY <1>2, <3>3, Zenon DEF NumbersInv
  <2> QED BY <1>2, <1>9, <2>1, <2>2, <2>3, Zenon DEF NumbersInv
<1>12. EnvInv'
  <2> SUFFICES ASSUME NEW s \in Req
               PROVE  /\ RequestOK(reqs'[s]) /\ SlotsOK(reqs'[s], Len(C))
                      /\ reqs'[s].phase # "idle" /\ reqs'[s].number \notin hit
                           => FreshOK(reqs'[s], C)
    BY <1>1, Zenon DEF EnvInv
  <2>1. CASE s = r
    BY <1>9, <2>1, IdleOK, Zenon
  <2>2. CASE s # r
    BY <1>2, <1>9, <2>2, Zenon DEF EnvInv
  <2> QED BY <2>1, <2>2
<1>13. HeapInv'
  <2> SUFFICES ASSUME NEW e \in heap, e \notin {q.env[i] : i \in FirstFreed..q.index}
               PROVE  \/ e \in Shared
                      \/ \E k \in Nat \ {0}, i \in Slots :
                           /\ e = OwnString(k, i)
                           /\ k \notin hit => \E s \in Req : Holds(reqs'[s], k, i, Len(C))
    BY <1>1, Zenon DEF HeapInv
  <2>1. CASE e \in Shared
    BY <2>1
  <2>2. CASE e \notin Shared
    <3>1. PICK k \in Nat \ {0}, i \in Slots :
             /\ e = OwnString(k, i)
             /\ k \notin hit => \E s \in Req : Holds(reqs[s], k, i, Len(C))
      BY <1>2, <2>2, Zenon DEF HeapInv
    <3>2. ASSUME k \notin hit PROVE \E s \in Req : Holds(reqs'[s], k, i, Len(C))
      <4>1. PICK s \in Req : Holds(reqs[s], k, i, Len(C))
        BY <3>1, <3>2, Zenon
      <4>2. s # r
        BY <1>6, <3>1, <4>1, Zenon DEF Holds, q
      <4> QED BY <1>9, <4>1, <4>2, Zenon
    <3> QED BY <3>1, <3>2, Zenon
  <2> QED BY <2>1, <2>2
<1> QED BY <1>10, <1>11, <1>12, <1>13, Zenon DEF IInv

LEMMA StutterOK ==
  ASSUME IInv, UNCHANGED vars
  PROVE  IInv'
<1>1. /\ loaded' = loaded /\ server' = server /\ heap' = heap /\ reqs' = reqs
      /\ reloads' = reloads /\ seen' = seen /\ hit' = hit
  BY DEF vars
<1>2. ServerInv'
  BY <1>1, Zenon DEF IInv, ServerInv, Strings
<1>3. NumbersInv'
  BY <1>1, Zenon DEF IInv, NumbersInv
<1>4. EnvInv'
  BY <1>1, Zenon DEF IInv, EnvInv
<1>5. HeapInv'
  BY <1>1, Zenon DEF IInv, HeapInv
<1> QED BY <1>2, <1>3, <1>4, <1>5, Zenon DEF IInv

\* The invariant is inductive.
LEMMA Inductive == Spec => []IInv
<1>1. ASSUME IInv, [Next]_vars PROVE IInv'
  <2>1. CASE UNCHANGED vars
    BY <1>1, <2>1, StutterOK
  <2>2. CASE SighupRun
    BY <1>1, <2>2, ReloadOK
  <2>3. CASE Exited
    BY <1>1, <2>3, StutterOK DEF Exited
  <2>4. ASSUME NEW r \in Req,
               \/ ProcessLogline(r) \/ ProcessOptionLine(r) \/ ProcessHeaderEnd(r)
               \/ InitCgi(r) \/ FreeRequest(r)
        PROVE  IInv'
    BY <1>1, <2>4, LoglineOK, OptionLineOK, HeaderEndOK, InitCgiOK, FreeOK, Zenon
  <2> QED BY <1>1, <2>1, <2>2, <2>3, <2>4, Zenon DEF Next
<1> QED BY <1>1, InitOK, PTL DEF Spec

\* The common variables and a request's own fit in the array of every request,
\* through every number of reloads (cgi.c's add_to_common_env and add_cgi_env).
THEOREM TypeCorrect == Spec => []TypeOK
<1>1. IInv => TypeOK
  <2> SUFFICES ASSUME IInv PROVE TypeOK
    OBVIOUS
  <2>1. ServerOK(server) /\ CommonCount <= Len(server.common)
        /\ (server.up => Len(server.common) <= CgiEnvMax)
    BY Zenon DEF IInv, ServerInv
  <2>2. server.up => Len(server.common) \in CommonCount..CgiEnvMax
    BY <2>1, ReloadAssumption DEF ServerOK
  <2>3. ASSUME NEW r \in Req
        PROVE  /\ reqs[r].phase \in Phases /\ reqs[r].index \in 0..CgiEnvMax
               /\ DOMAIN reqs[r].env = Slots
    <3>1. RequestOK(reqs[r])
      BY Zenon DEF IInv, EnvInv
    <3> QED BY <3>1 DEF RequestOK
  <2>4. loaded \in Files
    BY Zenon DEF IInv, ServerInv
  <2> QED BY <2>2, <2>3, <2>4, Zenon DEF TypeOK, Phases
<1> QED BY <1>1, Inductive, PTL

\* No order of reloads and ends of requests makes free_request free a string
\* of the common environment.
THEOREM CommonKept == Spec => []CommonIntact
<1>1. IInv => CommonIntact
  BY Zenon DEF IInv, ServerInv, CommonIntact
<1> QED BY <1>1, Inductive, PTL

\* free_request frees every string of a request that no reload came upon.
THEOREM NoLeak == Spec => []NoLeakUnlessReloaded
<1>1. IInv => NoLeakUnlessReloaded
  <2> SUFFICES ASSUME IInv, NEW e \in heap, e[1] = "own" PROVE e[2] \in Numbers \cup hit
    BY Zenon DEF NoLeakUnlessReloaded
  <2>1. e \notin Shared
    BY StringsApart, Zenon
  <2>2. PICK k \in Nat \ {0}, i \in Slots :
           /\ e = OwnString(k, i)
           /\ k \notin hit => \E r \in Req : Holds(reqs[r], k, i, Len(server.common))
    BY <2>1, Zenon DEF IInv, HeapInv
  <2>3. e[2] = k
    BY <2>2, StringsApart, Zenon
  <2>4. CASE k \in hit
    BY <2>3, <2>4
  <2>5. CASE k \notin hit
    <3>1. PICK r \in Req : reqs[r].number = k
      BY <2>2, <2>5, Zenon DEF Holds
    <3>2. k # 0
      BY <2>2
    <3>3. k \in Numbers
      BY <3>1, <3>2 DEF Numbers
    <3> QED BY <2>3, <3>3, Zenon
  <2> QED BY <2>4, <2>5
<1> QED BY <1>1, Inductive, PTL

\* The child of a request that no reload came upon gets every common variable
\* and every variable made of the request's header.
THEOREM EnvComplete == Spec => []EnvCompleteUnlessReloaded
<1>1. IInv => EnvCompleteUnlessReloaded
  <2> SUFFICES ASSUME IInv, NEW r \in Req, reqs[r].phase = "child", reqs[r].number \notin hit
               PROVE  LET env == {reqs[r].env[i] : i \in 1..reqs[r].index}
                      IN reqs[r].options \subseteq env /\ Strings(server) \subseteq env
    BY Zenon DEF EnvCompleteUnlessReloaded
  <2> DEFINE q == reqs[r]
             C == server.common
             env == {q.env[i] : i \in 1..q.index}
  <2>1. RequestOK(q) /\ FreshOK(q, C)
    <3>1. q.phase # "idle"
      OBVIOUS
    <3> QED BY <3>1, Zenon DEF IInv, EnvInv
  <2>2. CgiEnvMax \in Nat /\ q.index \in 0..CgiEnvMax /\ C \in Seq(Shared) /\ Len(C) <= q.index
        /\ q.phase = "child"
    BY <2>1, ReloadAssumption, Zenon DEF RequestOK, FreshOK, IInv, ServerInv, ServerOK
  <2>3. \A o \in q.options : \E i \in Slots : i <= q.index /\ q.env[i] = o
    BY <2>1, Zenon DEF FreshOK
  <2>4. \A i \in 1..Len(C) : q.env[i] = C[i]
    BY <2>1, <2>2, Zenon DEF FreshOK
  <2>5. \A i \in Slots : i <= q.index => i \in 1..q.index
    BY <2>2 DEF Slots
  <2>6. \A i \in DOMAIN C : i \in 1..Len(C) /\ i \in 1..q.index
    BY <2>2
  <2> HIDE DEF q, C
  <2>7. q.options \subseteq env
    BY <2>3, <2>5
  <2>8. \A i \in DOMAIN C : C[i] \in env
    BY <2>4, <2>6, Zenon
  <2>9. Strings(server) \subseteq env
    BY <2>8, Zenon DEF Strings, C
  <2> QED BY <2>7, <2>9, Zenon DEF q
<1> QED BY <1>1, Inductive, PTL
-----------------------------------------------------------------------------
\* F is the loop of FlattenSeq over the first n sequences.
FlattenLoop(seqs, F, n) ==
  F = [i \in 1..n |-> IF i = 1 THEN seqs[i] ELSE F[i - 1] \o seqs[i]]

LEMMA FlattenExists ==
  ASSUME NEW seqs
  PROVE  \A n \in Nat : \E F : FlattenLoop(seqs, F, n)
<1> DEFINE T == {n \in Nat : \E F : FlattenLoop(seqs, F, n)}
<1>1. 0 \in T
  <2> DEFINE Z == [i \in 1..0 |-> seqs[i]]
             Y == [i \in 1..0 |-> IF i = 1 THEN seqs[i] ELSE Z[i - 1] \o seqs[i]]
  <2>1. \A i \in 1..0 : FALSE
    OBVIOUS
  <2>2. Z = Y
    BY <2>1, Zenon
  <2>3. FlattenLoop(seqs, Z, 0)
    BY <2>2, Zenon DEF FlattenLoop
  <2> QED BY <2>3
<1>2. ASSUME NEW n \in T PROVE n + 1 \in T
  <2>1. PICK F : FlattenLoop(seqs, F, n)
    OBVIOUS
  <2>2. n \in Nat
    OBVIOUS
  <2> DEFINE G == [i \in 1..(n + 1) |->
                     IF i <= n THEN F[i] ELSE IF i = 1 THEN seqs[i] ELSE F[i - 1] \o seqs[i]]
             H == [i \in 1..(n + 1) |-> IF i = 1 THEN seqs[i] ELSE G[i - 1] \o seqs[i]]
  <2>3. \A i \in 1..n : G[i] = F[i]
    BY <2>2
  <2>4. \A i \in 1..n : F[i] = IF i = 1 THEN seqs[i] ELSE F[i - 1] \o seqs[i]
    BY <2>1, Zenon DEF FlattenLoop
  <2>5. \A i \in 1..(n + 1) : G[i] = H[i]
    <3> TAKE i \in 1..(n + 1)
    <3>1. H[i] = IF i = 1 THEN seqs[i] ELSE G[i - 1] \o seqs[i]
      BY Zenon
    <3>2. G[i] = IF i <= n THEN F[i] ELSE IF i = 1 THEN seqs[i] ELSE F[i - 1] \o seqs[i]
      BY Zenon
    <3>3. i # 1 => i - 1 \in 1..n
      BY <2>2
    <3>4. i <= n => i \in 1..n
      BY <2>2
    <3> HIDE DEF G, H
    <3>5. i # 1 => G[i - 1] = F[i - 1]
      BY <2>3, <3>3, Zenon
    <3> QED BY <2>4, <3>1, <3>2, <3>4, <3>5, Zenon
  <2>6. G = H
    BY <2>5, Zenon
  <2>7. FlattenLoop(seqs, G, n + 1)
    BY <2>6, Zenon DEF FlattenLoop
  <2> HIDE DEF G, H
  <2> QED BY <2>2, <2>7
<1> HIDE DEF T
<1>3. T = Nat
  BY <1>1, <1>2, Induct DEF T
<1> QED BY <1>3 DEF T

\* Sequences of sequences flatten to a sequence.
LEMMA FlattenType ==
  ASSUME NEW S, NEW seqs, Len(seqs) \in Nat \ {0}, \A i \in 1..Len(seqs) : seqs[i] \in Seq(S)
  PROVE  FlattenSeq(seqs) \in Seq(S)
<1>1. \E F : FlattenLoop(seqs, F, Len(seqs))
  BY FlattenExists
<1> DEFINE F == CHOOSE F : FlattenLoop(seqs, F, Len(seqs))
<1>2. FlattenLoop(seqs, F, Len(seqs))
  BY <1>1, Zenon
<1>3. FlattenSeq(seqs) = F[Len(seqs)]
  <2>1. Len(seqs) # 0
    OBVIOUS
  <2> QED BY <2>1, Zenon DEF FlattenSeq, FlattenLoop
<1> HIDE DEF F
<1>4. \A i \in 1..Len(seqs) : F[i] = IF i = 1 THEN seqs[i] ELSE F[i - 1] \o seqs[i]
  BY <1>2, Zenon DEF FlattenLoop
<1> DEFINE T == {i \in Nat : i + 1 <= Len(seqs) => F[i + 1] \in Seq(S)}
<1>5. 0 \in T
  <2>1. 1 \in 1..Len(seqs) /\ 0 + 1 = 1
    OBVIOUS
  <2>2. F[1] \in Seq(S)
    BY <1>4, <2>1, Zenon
  <2> QED BY <2>1, <2>2
<1>6. ASSUME NEW i \in T PROVE i + 1 \in T
  <2> SUFFICES ASSUME (i + 1) + 1 <= Len(seqs) PROVE F[(i + 1) + 1] \in Seq(S)
    OBVIOUS
  <2> DEFINE j == (i + 1) + 1
  <2>1. j \in 1..Len(seqs) /\ j # 1 /\ j - 1 = i + 1 /\ F[i + 1] \in Seq(S)
    OBVIOUS
  <2> HIDE DEF T, j
  <2>2. F[j] = F[i + 1] \o seqs[j] /\ seqs[j] \in Seq(S)
    BY <1>4, <2>1, Zenon
  <2>3. F[j] \in Seq(S)
    BY <2>1, <2>2
  <2> QED BY <2>3 DEF j
<1> HIDE DEF T
<1>7. T = Nat
  BY <1>5, <1>6, Induct DEF T
<1>8. Len(seqs) - 1 \in T /\ (Len(seqs) - 1) + 1 = Len(seqs)
  BY <1>7
<1> QED BY <1>3, <1>8 DEF T

\* unescape_uri gives the components of a path, or refuses.
LEMMA Unescaped ==
  ASSUME NEW raw \in RawUris
  PROVE  UnescapeUri(raw) \in Seq(DOMAIN Hash)
<1>1. raw \in Seq(DOMAIN Decoded) /\ raw # <<>>
  BY ReloadAssumption
<1>2. Len(raw) \in Nat \ {0} /\ DOMAIN raw = 1..Len(raw) /\ \A i \in DOMAIN raw : raw[i] \in DOMAIN Decoded
  BY <1>1
<1> DEFINE seqs == [i \in DOMAIN raw |-> Decoded[raw[i]]]
<1>3. \A i \in DOMAIN raw : seqs[i] = Decoded[raw[i]] /\ Decoded[raw[i]] \in Seq(DOMAIN Hash)
  BY <1>2, UriMapAssumption, Zenon
<1>4. Len(seqs) = Len(raw)
  BY <1>2
<1> HIDE DEF seqs
<1>5. \A i \in 1..Len(seqs) : seqs[i] \in Seq(DOMAIN Hash)
  BY <1>2, <1>3, <1>4, Zenon
<1>6. FlattenSeq(seqs) \in Seq(DOMAIN Hash)
  BY <1>2, <1>4, <1>5, FlattenType, Zenon
<1>7. <<>> \in Seq(DOMAIN Hash)
  OBVIOUS
<1> QED BY <1>6, <1>7, Zenon DEF UnescapeUri, seqs

Uris == Seq(DOMAIN Hash) \ {<<>>}

\* clean_pathname leaves no dots before the last component.
LEMMA CleanPathnameCleans ==
  ASSUME NEW u \in Uris
  PROVE  CleanPathname(u) \in Uris /\ Undotted(CleanPathname(u))
<1> DEFINE f == Front(u)
           g == Filter(f, Components \ Dots)
           v == CleanPathname(u)
<1>1. u \in Seq(DOMAIN Hash) /\ Len(u) \in Nat /\ Len(u) > 0
  BY DEF Uris
<1>2. f \in Seq(DOMAIN Hash) /\ Last(u) \in DOMAIN Hash
  BY <1>1 DEF Front, Last
<1> HIDE DEF f
<1>3. g \in Seq(DOMAIN Hash) /\ Elements(g) = Elements(f) \cap (Components \ Dots)
  BY <1>2, FilterKeeps, Zenon
<1>4. v = g \o <<Last(u)>>
  BY Zenon DEF CleanPathname, f
<1> HIDE DEF g, v
<1>5. <<Last(u)>> \in Seq(DOMAIN Hash) /\ Len(<<Last(u)>>) = 1
  BY <1>2
<1>6. /\ v \in Seq(DOMAIN Hash) /\ Len(v) = Len(g) + 1 /\ Len(g) \in Nat
      /\ \A i \in 1..Len(g) : v[i] = g[i]
  BY <1>3, <1>4, <1>5
<1>7. \A i \in 1..Len(g) : g[i] \notin Dots
  BY <1>3 DEF Elements
<1>8. v # <<>>
  BY <1>6
<1>9. DOMAIN Front(v) = 1..Len(g)
  BY <1>6 DEF Front
<1>10. Undotted(v)
  BY <1>6, <1>7, <1>9, Zenon DEF Undotted
<1> QED BY <1>6, <1>8, <1>10 DEF v, Uris

LEMMA CleanedCleans ==
  ASSUME NEW raw \in RawUris, Cleaned(raw) # <<>>
  PROVE  Cleaned(raw) \in Uris /\ Undotted(Cleaned(raw))
<1>1. UnescapeUri(raw) \in Seq(DOMAIN Hash)
  BY Unescaped
<1>2. UnescapeUri(raw) # <<>> /\ Cleaned(raw) = CleanPathname(UnescapeUri(raw))
  BY Zenon DEF Cleaned
<1>3. UnescapeUri(raw) \in Uris
  BY <1>1, <1>2, Zenon DEF Uris
<1> QED BY <1>2, <1>3, CleanPathnameCleans, Zenon

\* A part of a path without dots has none.
LEMMA PartUndotted ==
  ASSUME NEW u \in Uris, Undotted(u), NEW a \in Nat \ {0}, NEW b \in Int, b <= Len(u)
  PROVE  Undotted(SubSeq(u, a, b))
<1> DEFINE v == SubSeq(u, a, b)
<1>1. u \in Seq(DOMAIN Hash) /\ Len(u) \in Nat /\ u # <<>>
  BY DEF Uris
<1>2. DOMAIN Front(u) = 1..(Len(u) - 1)
  BY <1>1 DEF Front
<1>3. CASE a > b
  <2>1. v = <<>>
    BY <1>1, <1>3
  <2> QED BY <2>1, Zenon DEF Undotted
<1>4. CASE a <= b
  <2>1. v \in Seq(DOMAIN Hash) /\ Len(v) = b - a + 1 /\ \A i \in 1..(b - a + 1) : v[i] = u[a + i - 1]
    BY <1>1, <1>4, SubSeqProperties
  <2> HIDE DEF v
  <2>2. DOMAIN Front(v) = 1..(b - a)
    BY <1>4, <2>1 DEF Front
  <2>3. \A i \in 1..(b - a) : i \in 1..(b - a + 1) /\ a + i - 1 \in 1..(Len(u) - 1)
    BY <1>1, <1>4
  <2>4. \A i \in 1..(b - a) : v[i] \notin Dots
    BY <1>1, <1>2, <2>1, <2>3, Zenon DEF Undotted
  <2> QED BY <2>2, <2>4, Zenon DEF Undotted, v
<1> QED BY <1>1, <1>3, <1>4
-----------------------------------------------------------------------------
\* FirstOf is empty or has the element at the first place that is in K.
LEMMA FirstOfIs ==
  ASSUME NEW S, NEW s \in Seq(S), NEW K
  PROVE  \/ FirstOf(s, K) = <<>> /\ \A j \in DOMAIN s : s[j] \notin K
         \/ \E i \in DOMAIN s : /\ FirstOf(s, K) = <<s[i]>> /\ s[i] \in K
                                /\ \A j \in DOMAIN s : s[j] \in K => i <= j
<1> DEFINE at == {i \in DOMAIN s : s[i] \in K}
<1>1. CASE at = {}
  <2>1. FirstOf(s, K) = <<>>
    BY <1>1, Zenon DEF FirstOf
  <2> QED BY <1>1, <2>1
<1>2. CASE at # {}
  <2>1. at \in SUBSET Nat
    OBVIOUS
  <2> HIDE DEF at
  <2>2. \E i \in at : \A j \in at : i <= j
    BY <1>2, <2>1, Least, Zenon
  <2> DEFINE i == CHOOSE i \in at : \A j \in at : i <= j
  <2>3. i \in at /\ \A j \in at : i <= j
    BY <2>2, Zenon
  <2>4. FirstOf(s, K) = <<s[i]>>
    BY <1>2, Zenon DEF FirstOf, at
  <2> HIDE DEF i
  <2>5. i \in DOMAIN s /\ s[i] \in K /\ \A j \in DOMAIN s : s[j] \in K => i <= j
    BY <2>3 DEF at
  <2> QED BY <2>4, <2>5, Zenon
<1> QED BY <1>1, <1>2

\* And it is what it must be.
LEMMA FirstOfAt ==
  ASSUME NEW S, NEW s \in Seq(S), NEW K, NEW i \in DOMAIN s, s[i] \in K,
         \A j \in DOMAIN s : j < i => s[j] \notin K
  PROVE  FirstOf(s, K) = <<s[i]>>
<1>1. PICK k \in DOMAIN s : FirstOf(s, K) = <<s[k]>> /\ s[k] \in K
                            /\ \A j \in DOMAIN s : s[j] \in K => k <= j
  BY FirstOfIs, Zenon
<1>2. k <= i
  BY <1>1
<1>3. ~(k < i)
  BY <1>1
<1>4. k = i
  BY <1>2, <1>3
<1> QED BY <1>1, <1>4

LEMMA FirstOfNone ==
  ASSUME NEW S, NEW s \in Seq(S), NEW K, \A j \in DOMAIN s : s[j] \notin K
  PROVE  FirstOf(s, K) = <<>>
BY FirstOfIs, Zenon

\* The alias table.
Aliases == UNION {{f[i].value : i \in {j \in DOMAIN f : f[j].key = "Alias"}} : f \in Files}
AliasTable == [Buckets -> Seq(Aliases)]

LEMMA AliasesTyped == \A a \in Aliases : a.fake \in Uris
BY ReloadAssumption DEF Aliases, Uris

LEMMA BucketTyped == \A u \in Uris : Bucket(u) \in Buckets
<1>1. \A u \in Uris : Head(u) \in DOMAIN Hash
  BY DEF Uris
<1> QED BY <1>1, Zenon DEF Bucket, Buckets

LEMMA FindAliasFinds ==
  ASSUME NEW table \in AliasTable, NEW u \in Uris, FindAlias(table, u) # <<>>
  PROVE  Head(FindAlias(table, u)) \in Aliases /\ Matches(Head(FindAlias(table, u)), u)
<1> DEFINE s == table[Bucket(u)]
           K == {a \in Range(s) : Matches(a, u)}
<1>1. s \in Seq(Aliases)
  BY BucketTyped DEF AliasTable
<1>2. FindAlias(table, u) = FirstOf(s, K)
  BY Zenon DEF FindAlias
<1> HIDE DEF s
<1>3. PICK i \in DOMAIN s : FirstOf(s, K) = <<s[i]>> /\ s[i] \in K
  BY <1>1, <1>2, FirstOfIs, Zenon
<1>4. Head(FindAlias(table, u)) = s[i]
  BY <1>2, <1>3
<1>5. s[i] \in Aliases
  BY <1>1
<1> QED BY <1>3, <1>4, <1>5, Zenon

\* Where the virtual path of an alias that matches ends.
EndOf(a) == IF Slashed(a.fake) THEN Len(a.fake) ELSE Len(a.fake) + 1

LEMMA EndInside ==
  ASSUME NEW a, a.fake \in Uris, NEW u \in Uris, Matches(a, u)
  PROVE  EndOf(a) \in 1..(Len(u) + 1) /\ Behind(a, u) = SubSeq(u, EndOf(a), Len(u))
<1>1. Len(a.fake) \in Nat \ {0} /\ Len(u) \in Nat
  BY DEF Uris
<1>2. Len(a.fake) <= Len(u)
  BY <1>1 DEF Matches, IsPrefix
<1>3. EndOf(a) \in 1..(Len(u) + 1)
  BY <1>1, <1>2 DEF EndOf
<1> QED BY <1>3, Zenon DEF EndOf, Behind

\* What a mapped request promises.
AnswerOK(a, u) ==
  /\ Undotted(a.rest) /\ Undotted(a.info)
  /\ a.kind = "script" => a.name \o a.info = u

LEMMA AnswerFields ==
  ASSUME NEW kind, NEW root, NEW rest
  PROVE  /\ Answer(kind, root, rest).kind = kind /\ Answer(kind, root, rest).rest = rest
         /\ Answer(kind, root, rest).info = <<>>
         /\ \A name, info :
              LET a == [Answer(kind, root, rest) EXCEPT !.name = name, !.info = info]
              IN a.kind = kind /\ a.rest = rest /\ a.name = name /\ a.info = info
         /\ \A name :
              LET a == [Answer(kind, root, rest) EXCEPT !.name = name]
              IN a.kind = kind /\ a.rest = rest /\ a.name = name /\ a.info = <<>>
BY DEF Answer

LEMMA PlainAnswers ==
  ASSUME NEW kind, NEW root, NEW rest, NEW u, kind # "script", Undotted(rest)
  PROVE  AnswerOK(Answer(kind, root, rest), u)
<1>1. Undotted(<<>>)
  BY Zenon DEF Undotted
<1> DEFINE a == Answer(kind, root, rest)
<1>2. a.kind = kind /\ a.rest = rest /\ a.info = <<>>
  BY DEF Answer
<1> HIDE DEF a
<1>3. AnswerOK(a, u)
  BY <1>1, <1>2, Zenon DEF AnswerOK
<1> QED BY <1>3, Zenon DEF a

LEMMA Refusals ==
  ASSUME NEW kind, NEW u, kind # "script"
  PROVE  AnswerOK(Refused(kind), u)
<1>1. Undotted(<<>>)
  BY Zenon DEF Undotted
<1> QED BY <1>1, PlainAnswers, Zenon DEF Refused

\* The walk of init_script_alias stops inside what is behind the virtual path.
LEMMA WalkStops ==
  ASSUME NEW rest, Len(rest) \in Nat \ {0}, NEW root
  PROVE  LET Stops(k) == k = Len(rest) \/ Kind(root, SubSeq(rest, 1, k)) # "dir"
         IN (CHOOSE k \in 1..Len(rest) : Stops(k) /\ \A j \in 1..(k - 1) : ~Stops(j)) \in 1..Len(rest)
<1> DEFINE Stops(k) == k = Len(rest) \/ Kind(root, SubSeq(rest, 1, k)) # "dir"
           T == {k \in 1..Len(rest) : Stops(k)}
<1>1. Len(rest) \in T /\ T \in SUBSET Nat
  OBVIOUS
<1>2. PICK k \in T : \A j \in T : k <= j
  BY <1>1, Least, Zenon
<1>3. k \in 1..Len(rest) /\ Stops(k)
  OBVIOUS
<1>4. ASSUME NEW j \in 1..(k - 1) PROVE ~Stops(j)
  <2>1. j \in 1..Len(rest) /\ ~(k <= j)
    BY <1>3
  <2> QED BY <1>2, <2>1
<1> HIDE DEF Stops, T
<1>5. \E n \in 1..Len(rest) : Stops(n) /\ \A j \in 1..(n - 1) : ~Stops(j)
  BY <1>3, <1>4, Zenon
<1>6. (CHOOSE n \in 1..Len(rest) : Stops(n) /\ \A j \in 1..(n - 1) : ~Stops(j)) \in 1..Len(rest)
  BY <1>5, Zenon
<1> QED BY <1>6, Zenon DEF Stops

LEMMA Slice ==
  ASSUME NEW S, NEW s \in Seq(S), NEW a \in Nat \ {0}, NEW b \in Nat, b <= Len(s), a <= b + 1
  PROVE  /\ SubSeq(s, a, b) \in Seq(S) /\ Len(SubSeq(s, a, b)) = b + 1 - a
         /\ \A i \in 1..(b + 1 - a) : SubSeq(s, a, b)[i] = s[a + i - 1]
<1>1. \A i \in a..b : s[i] \in S
  OBVIOUS
<1> QED BY <1>1, SubSeqProperties

LEMMA SliceFront ==
  ASSUME NEW S, NEW s \in Seq(S), NEW n \in 0..Len(s)
  PROVE  /\ SubSeq(s, 1, n) \in Seq(S) /\ Len(SubSeq(s, 1, n)) = n
         /\ \A i \in 1..n : SubSeq(s, 1, n)[i] = s[i]
<1>1. n \in Nat /\ n <= Len(s) /\ 1 <= n + 1 /\ 1 \in Nat \ {0} /\ n + 1 - 1 = n
      /\ \A i \in 1..n : 1 + i - 1 = i
  OBVIOUS
<1>2. /\ SubSeq(s, 1, n) \in Seq(S) /\ Len(SubSeq(s, 1, n)) = n + 1 - 1
      /\ \A i \in 1..(n + 1 - 1) : SubSeq(s, 1, n)[i] = s[1 + i - 1]
  BY <1>1, Slice
<1> QED BY <1>1, <1>2, Zenon

LEMMA SliceBack ==
  ASSUME NEW S, NEW s \in Seq(S), NEW n \in 0..Len(s)
  PROVE  LET v == SubSeq(s, n + 1, Len(s))
         IN /\ v \in Seq(S) /\ Len(v) = Len(s) - n
            /\ \A i \in 1..(Len(s) - n) : v[i] = s[n + i]
<1> DEFINE v == SubSeq(s, n + 1, Len(s))
<1>1. n + 1 \in Nat \ {0} /\ Len(s) \in Nat /\ Len(s) <= Len(s) /\ n + 1 <= Len(s) + 1
      /\ Len(s) + 1 - (n + 1) = Len(s) - n /\ \A i \in 1..(Len(s) - n) : (n + 1) + i - 1 = n + i
  OBVIOUS
<1>2. /\ v \in Seq(S) /\ Len(v) = Len(s) + 1 - (n + 1)
      /\ \A i \in 1..(Len(s) + 1 - (n + 1)) : v[i] = s[(n + 1) + i - 1]
  BY <1>1, Slice
<1> HIDE DEF v
<1>3. v \in Seq(S) /\ Len(v) = Len(s) - n /\ \A i \in 1..(Len(s) - n) : v[i] = s[n + i]
  BY <1>1, <1>2, Zenon
<1> QED BY <1>3, Zenon DEF v

\* A script's name and path_info divide the URI at any place of the walk.
LEMMA ScriptDivides ==
  ASSUME NEW u \in Uris, Undotted(u), NEW e \in 1..(Len(u) + 1), NEW rest,
         rest = SubSeq(u, e, Len(u)), NEW n \in 0..Len(rest)
  PROVE  /\ Undotted(SubSeq(rest, 1, n)) /\ Undotted(Info(rest, n))
         /\ SubSeq(u, 1, Len(u) - Len(rest) + n) \o Info(rest, n) = u
<1>1. u \in Seq(DOMAIN Hash) /\ Len(u) \in Nat
  BY DEF Uris
<1>2. rest \in Seq(DOMAIN Hash) /\ Len(rest) = Len(u) - e + 1
      /\ \A i \in 1..Len(rest) : rest[i] = u[e + i - 1]
  <2>1. \A i \in e..Len(u) : u[i] \in DOMAIN Hash
    BY <1>1
  <2> QED BY <1>1, <2>1, SubSeqProperties
<1> DEFINE k == e + n - 1
<1>3. k \in 0..Len(u) /\ Len(u) - Len(rest) + n = k /\ k + 1 = e + n /\ n \in Nat /\ k <= Len(u)
  BY <1>1, <1>2
<1>4. SubSeq(rest, 1, n) = SubSeq(u, e, k)
  <2> DEFINE v == SubSeq(rest, 1, n)
             w == SubSeq(u, e, k)
  <2>2. v \in Seq(DOMAIN Hash) /\ Len(v) = n /\ \A i \in 1..n : v[i] = rest[i]
    BY <1>2, SliceFront, Zenon
  <2>3. \A i \in e..k : u[i] \in DOMAIN Hash
    BY <1>1, <1>3
  <2>4. w \in Seq(DOMAIN Hash) /\ Len(w) = n /\ \A i \in 1..n : w[i] = u[e + i - 1]
    BY <1>1, <1>3, <2>3, SubSeqProperties
  <2> HIDE DEF v, w
  <2>5. \A i \in 1..n : v[i] = w[i]
    BY <1>2, <2>2, <2>4
  <2>6. v = w
    BY <2>2, <2>4, <2>5, SeqEqual
  <2> QED BY <2>6 DEF v, w
<1>5. Info(rest, n) = SubSeq(u, k + 1, Len(u))
  <2> DEFINE v == SubSeq(rest, n + 1, Len(rest))
             w == SubSeq(u, k + 1, Len(u))
             m == Len(rest) - n
  <2>2. m \in Nat /\ Len(rest) \in Nat
    BY <1>2
  <2>3. v \in Seq(DOMAIN Hash) /\ Len(v) = m /\ \A i \in 1..m : v[i] = rest[n + i]
    BY <1>2, SliceBack, Zenon
  <2>4. Len(u) - k = m
    BY <1>1, <1>2
  <2>5. w \in Seq(DOMAIN Hash) /\ Len(w) = m /\ \A i \in 1..m : w[i] = u[k + i]
    <3> HIDE DEF m, k
    <3>1. w \in Seq(DOMAIN Hash) /\ Len(w) = Len(u) - k
          /\ \A i \in 1..(Len(u) - k) : w[i] = u[k + i]
      BY <1>1, <1>3, SliceBack, Zenon
    <3> QED BY <2>4, <3>1, Zenon
  <2>6. \A i \in 1..m : n + i \in 1..Len(rest) /\ e + (n + i) - 1 = k + i
    BY <1>2
  <2> HIDE DEF v, w, m, k
  <2>7. \A i \in 1..m : v[i] = w[i]
    BY <1>2, <2>3, <2>5, <2>6, ZenonT(30)
  <2>8. v = w
    BY <2>2, <2>3, <2>5, <2>7, SeqEqual
  <2> QED BY <2>8 DEF v, w, Info
<1>6. Undotted(SubSeq(u, e, k)) /\ Undotted(SubSeq(u, k + 1, Len(u)))
  <2>1. e \in Nat \ {0} /\ k + 1 \in Nat \ {0} /\ k \in Int /\ Len(u) \in Int /\ Len(u) <= Len(u)
    BY <1>1, <1>3
  <2> HIDE DEF k
  <2> QED BY <1>3, <2>1, PartUndotted, Zenon
<1>7. SubSeq(u, 1, k) \o SubSeq(u, k + 1, Len(u)) = u
  <2>1. 1 \in 1..(Len(u) + 1) /\ k \in (1 - 1)..Len(u) /\ Len(u) \in k..Len(u)
    BY <1>1, <1>3
  <2> HIDE DEF k
  <2>2. SubSeq(u, 1, k) \o SubSeq(u, k + 1, Len(u)) = SubSeq(u, 1, Len(u))
    BY <1>1, <2>1, ConcatAdjacentSubSeq, Zenon
  <2> QED BY <1>1, <2>2, SubSeqFull, Zenon
<1> HIDE DEF k
<1> QED BY <1>3, <1>4, <1>5, <1>6, <1>7, Zenon

LEMMA ScriptAliasSound ==
  ASSUME NEW a, a.fake \in Uris, NEW u \in Uris, Undotted(u), Matches(a, u), NEW vhost
  PROVE  AnswerOK(InitScriptAlias(a, u, vhost), u)
<1> DEFINE root == IF vhost = None THEN <<a.real>> ELSE <<vhost, a.real>>
           rest == Behind(a, u)
           Stops(k) == k = Len(rest) \/ Kind(root, SubSeq(rest, 1, k)) # "dir"
           n == IF rest = <<>> THEN 0
                ELSE CHOOSE k \in 1..Len(rest) : Stops(k) /\ \A j \in 1..(k - 1) : ~Stops(j)
           path == SubSeq(rest, 1, n)
           name == SubSeq(u, 1, Len(u) - Len(rest) + n)
           t == CASE Len(rest) > MaxPath -> Refused("bad_request")
                  [] Kind(root, path) = "none" -> Refused("not_found")
                  [] Kind(root, path) \in {"dir", "other"} -> Refused("forbidden")
                  [] OTHER -> [Answer("script", root, path) EXCEPT !.name = name, !.info = Info(rest, n)]
<1>1. InitScriptAlias(a, u, vhost) = t
  BY Zenon DEF InitScriptAlias
<1> HIDE DEF root
<1>2. EndOf(a) \in 1..(Len(u) + 1) /\ rest = SubSeq(u, EndOf(a), Len(u))
  BY EndInside, Zenon
<1>3. u \in Seq(DOMAIN Hash) /\ Len(u) \in Nat
  BY DEF Uris
<1> HIDE DEF rest
<1>4. rest \in Seq(DOMAIN Hash) /\ Len(rest) \in Nat
  BY <1>2, <1>3, Slice
<1>5. n \in 0..Len(rest)
  <2>1. CASE rest = <<>>
    BY <1>4, <2>1
  <2>2. CASE rest # <<>>
    <3>1. Len(rest) \in Nat \ {0} /\ 1..Len(rest) \subseteq 0..Len(rest)
      BY <1>4, <2>2
    <3>2. (CHOOSE k \in 1..Len(rest) : Stops(k) /\ \A j \in 1..(k - 1) : ~Stops(j)) \in 1..Len(rest)
      BY <3>1, WalkStops, Zenon
    <3> QED BY <2>2, <3>1, <3>2, Zenon
  <2> QED BY <2>1, <2>2
<1> HIDE DEF n
<1>6. /\ Undotted(path) /\ Undotted(Info(rest, n)) /\ name \o Info(rest, n) = u
  BY <1>2, <1>5, ScriptDivides, ZenonT(30)
<1> HIDE DEF path, name
<1>7. CASE Len(rest) > MaxPath \/ Kind(root, path) = "none" \/ Kind(root, path) \in {"dir", "other"}
  <2>1. t \in {Refused("bad_request"), Refused("not_found"), Refused("forbidden")}
    BY <1>7, Zenon
  <2> HIDE DEF t
  <2>2. AnswerOK(t, u)
    BY <2>1, Refusals
  <2> QED BY <1>1, <2>2, Zenon
<1>8. CASE ~(Len(rest) > MaxPath \/ Kind(root, path) = "none" \/ Kind(root, path) \in {"dir", "other"})
  <2>1. t = [Answer("script", root, path) EXCEPT !.name = name, !.info = Info(rest, n)]
    BY <1>8, Zenon
  <2> HIDE DEF t
  <2>2. t.kind = "script" /\ t.rest = path /\ t.name = name /\ t.info = Info(rest, n)
    BY <2>1 DEF Answer
  <2>3. AnswerOK(t, u)
    BY <1>6, <2>2, Zenon DEF AnswerOK
  <2> QED BY <1>1, <2>3, Zenon
<1> QED BY <1>7, <1>8

LEMMA PlainSound ==
  ASSUME NEW u \in Uris, Undotted(u), NEW root, NEW s, NEW mime, NEW method
  PROVE  AnswerOK(Plain(root, u, s, mime, method), u)
<1> DEFINE cgi == GetMimeType(mime, s.default_type, u) = "cgi"
           t == Plain(root, u, s, mime, method)
<1>0. Undotted(<<>>)
  BY Zenon DEF Undotted
<1>1. t = CASE Len(u) > MaxPath -> Refused("bad_request")
            [] cgi -> [Answer("script", root, u) EXCEPT !.name = u]
            [] method = "POST" -> Refused("bad_request")
            [] OTHER -> Answer("file", root, u)
  BY Zenon DEF Plain
<1> HIDE DEF t, cgi
<1>2. t \in {Refused("bad_request"), [Answer("script", root, u) EXCEPT !.name = u], Answer("file", root, u)}
  BY <1>1, Zenon
<1>3. AnswerOK(Refused("bad_request"), u)
  BY Refusals
<1>4. AnswerOK(Answer("file", root, u), u)
  BY PlainAnswers
<1>5. AnswerOK([Answer("script", root, u) EXCEPT !.name = u], u)
  <2> DEFINE a == [Answer("script", root, u) EXCEPT !.name = u]
  <2>1. a.kind = "script" /\ a.rest = u /\ a.name = u /\ a.info = <<>>
    BY DEF Answer
  <2> HIDE DEF a
  <2>2. u \o <<>> = u
    BY DEF Uris
  <2>3. AnswerOK(a, u)
    BY <1>0, <2>1, <2>2, Zenon DEF AnswerOK
  <2> QED BY <2>3, Zenon DEF a
<1>6. AnswerOK(t, u)
  BY <1>2, <1>3, <1>4, <1>5, Zenon
<1> QED BY <1>6, Zenon DEF t

\* translate_uri: no dots from a URI without, and name and info divide it.
LEMMA TranslateSound ==
  ASSUME NEW u \in Uris, Undotted(u), NEW table \in AliasTable, NEW s, NEW mime, NEW method
  PROVE  AnswerOK(TranslateUri(s, table, mime, u, method), u)
<1> DEFINE found == FindAlias(table, u)
           a == Head(found)
           t == TranslateUri(s, table, mime, u, method)
<1>1. CASE found = <<>>
  <2>1. t \in {Plain(<<s.vhost_root, "htdocs">>, u, s, mime, method),
               Plain(<<s.document_root>>, u, s, mime, method), Refused("not_found")}
    BY <1>1, Zenon DEF TranslateUri
  <2> HIDE DEF t
  <2>2. AnswerOK(Refused("not_found"), u)
    BY Refusals
  <2>3. AnswerOK(t, u)
    BY <2>1, <2>2, PlainSound, Zenon
  <2> QED BY <2>3, Zenon DEF t
<1>2. CASE found # <<>>
  <2>1. a \in Aliases /\ Matches(a, u)
    BY <1>2, FindAliasFinds, Zenon
  <2>2. t \in {InitScriptAlias(a, u, s.vhost_root), Refused("bad_request"),
               Answer("moved", <<a.real>>, Behind(a, u)), Answer("file", <<a.real>>, Behind(a, u))}
    BY <1>2, Zenon DEF TranslateUri
  <2> HIDE DEF t, a
  <2>3. a.fake \in Uris
    BY <2>1, AliasesTyped, Zenon
  <2>4. EndOf(a) \in 1..(Len(u) + 1) /\ Behind(a, u) = SubSeq(u, EndOf(a), Len(u))
    BY <2>1, <2>3, EndInside, Zenon
  <2>5. EndOf(a) \in Nat \ {0} /\ Len(u) \in Int /\ Len(u) <= Len(u)
    BY <2>4 DEF Uris
  <2>6. Undotted(Behind(a, u))
    BY <2>4, <2>5, PartUndotted, Zenon
  <2>7. AnswerOK(InitScriptAlias(a, u, s.vhost_root), u)
    BY <2>1, <2>3, ScriptAliasSound, Zenon
  <2>8. AnswerOK(Refused("bad_request"), u)
    BY Refusals
  <2>9. AnswerOK(Answer("moved", <<a.real>>, Behind(a, u)), u)
        /\ AnswerOK(Answer("file", <<a.real>>, Behind(a, u)), u)
    BY <2>6, PlainAnswers
  <2>10. AnswerOK(t, u)
    BY <2>2, <2>7, <2>8, <2>9, Zenon
  <2> QED BY <2>10, Zenon DEF t
<1> QED BY <1>1, <1>2
-----------------------------------------------------------------------------
\* The tables, line by line: A[i] and M[i] are those after the first i lines.
AliasStep(table, l) == IF l.key = "Alias" THEN AddAlias(table, l.value) ELSE table
MimeStep(table, l, t) ==
  IF l.key \in TypeKeys
  THEN \E G : MimeLoop(table, TypesOf(l), G, Len(TypesOf(l))) /\ t = G[Len(TypesOf(l))]
  ELSE t = table
AliasRun(f, A) ==
  A[0] = EmptyTable /\ \A i \in 1..Len(f) : A[i] = AliasStep(A[i - 1], f[i])
MimeRun(f, M) ==
  M[0] = EmptyTable /\ \A i \in 1..Len(f) : MimeStep(M[i - 1], f[i], M[i])
FromFile(s, f) ==
  /\ \E A : AliasRun(f, A) /\ s.aliases = A[Len(f)]
  /\ \E M : MimeRun(f, M) /\ s.mime = M[Len(f)]

LEMMA MimeStepTaken ==
  ASSUME NEW s, ServerOK(s), NEW l, LineOK(l), NEW t, t.up, LineTakes(s, l, t)
  PROVE  MimeStep(s.mime, l, t.mime)
<1>1. CASE l.key \in TypeKeys
  <2>1. TypesOf(l) \in Seq(Range(TypesOf(l)))
    BY <1>1, Zenon DEF LineOK
  <2>2. Len(TypesOf(l)) \in Nat
    BY <2>1
  <2>3. PICK G : /\ MimeLoop(s.mime, TypesOf(l), G, Len(TypesOf(l)))
                 /\ AddMimeTypes(s, TypesOf(l)) = [s EXCEPT !.mime = G[Len(TypesOf(l))]]
    BY <2>2, MimeUnfolds, Zenon
  <2>4. t.mime = AddMimeTypes(s, TypesOf(l)).mime
    BY <1>1, Zenon DEF LineTakes
  <2>5. t.mime = G[Len(TypesOf(l))]
    BY <2>3, <2>4 DEF ServerOK, ServerFields
  <2> QED BY <1>1, <2>3, <2>5, Zenon DEF MimeStep
<1>2. CASE l.key \notin TypeKeys
  BY <1>2, Zenon DEF LineTakes, MimeStep
<1> QED BY <1>1, <1>2

LEMMA TablesRead ==
  ASSUME NEW b, b.aliases = EmptyTable, b.mime = EmptyTable, NEW f \in Files, NEW F,
         Reads(b, f, F), F[Len(f)].up, NEW t,
         t.aliases = F[Len(f)].aliases, t.mime = F[Len(f)].mime
  PROVE  FromFile(t, f)
<1>1. f \in Seq(Range(f)) /\ \A i \in DOMAIN f : LineOK(f[i])
  BY LinesOK, Zenon
<1>2. Len(f) \in Nat /\ DOMAIN f = 1..Len(f)
  BY <1>1
<1> DEFINE T == {k \in Nat : k <= Len(f) => F[Len(f) - k].up}
<1>3. 0 \in T
  BY <1>2
<1>4. ASSUME NEW k \in T PROVE k + 1 \in T
  <2> SUFFICES ASSUME k + 1 <= Len(f) PROVE F[Len(f) - (k + 1)].up
    OBVIOUS
  <2>1. Len(f) - k \in 1..Len(f) /\ (Len(f) - k) - 1 = Len(f) - (k + 1) /\ F[Len(f) - k].up
    BY <1>2
  <2>2. LineTakes(F[(Len(f) - k) - 1], f[Len(f) - k], F[Len(f) - k])
    BY <2>1, Zenon DEF Reads
  <2>3. F[(Len(f) - k) - 1].up
    BY <2>1, <2>2, Zenon DEF LineTakes
  <2> QED BY <2>1, <2>3, Zenon
<1> HIDE DEF T
<1>5. T = Nat
  BY <1>3, <1>4, Induct DEF T
<1>6. \A i \in 0..Len(f) : F[i].up
  <2> TAKE i \in 0..Len(f)
  <2>1. Len(f) - i \in T /\ Len(f) - i <= Len(f) /\ Len(f) - (Len(f) - i) = i
    BY <1>2, <1>5
  <2>2. F[Len(f) - (Len(f) - i)].up
    BY <2>1, Zenon DEF T
  <2> QED BY <2>1, <2>2, Zenon
<1> DEFINE A == [i \in 0..Len(f) |-> F[i].aliases]
           M == [i \in 0..Len(f) |-> F[i].mime]
<1>7. 0 \in 0..Len(f) /\ Len(f) \in 0..Len(f) /\ \A i \in 1..Len(f) : i \in 0..Len(f) /\ i - 1 \in 0..Len(f)
  BY <1>2
<1>8. A[0] = EmptyTable /\ M[0] = EmptyTable /\ t.aliases = A[Len(f)] /\ t.mime = M[Len(f)]
  BY <1>7, Zenon DEF Reads
<1>9. \A i \in 1..Len(f) : A[i] = AliasStep(A[i - 1], f[i])
  <2> TAKE i \in 1..Len(f)
  <2>1. LineTakes(F[i - 1], f[i], F[i]) /\ F[i].up
    BY <1>6, <1>7, Zenon DEF Reads
  <2>2. A[i] = F[i].aliases /\ A[i - 1] = F[i - 1].aliases
    BY <1>7, Zenon
  <2> HIDE DEF A, M
  <2> QED BY <2>1, <2>2, Zenon DEF LineTakes, AliasStep
<1>10. \A i \in 1..Len(f) : MimeStep(M[i - 1], f[i], M[i])
  <2> TAKE i \in 1..Len(f)
  <2>1. LineTakes(F[i - 1], f[i], F[i]) /\ F[i].up /\ LineOK(f[i]) /\ ServerOK(F[i - 1])
    BY <1>1, <1>2, <1>6, <1>7, Zenon DEF Reads, Grown
  <2>2. M[i] = F[i].mime /\ M[i - 1] = F[i - 1].mime
    BY <1>7, Zenon
  <2> HIDE DEF A, M
  <2> QED BY <2>1, <2>2, MimeStepTaken, Zenon
<1> HIDE DEF A, M
<1>11. AliasRun(f, A) /\ MimeRun(f, M)
  BY <1>8, <1>9, <1>10, Zenon DEF AliasRun, MimeRun
<1> QED BY <1>8, <1>11, Zenon DEF FromFile

\* The tables of a running server are those of the file last read, whatever
\* files were read before.
TablesInv == server.up => FromFile(server, loaded)

LEMMA TablesStart ==
  ASSUME Init
  PROVE  TablesInv
<1> SUFFICES ASSUME server.up PROVE FromFile(server, loaded)
  BY Zenon DEF TablesInv
<1>1. loaded \in Files /\ server = StartUp(loaded)
  BY DEF Init
<1>2. PICK F : /\ Reads(Blank, loaded, F) /\ F[Len(loaded)].up
               /\ server.aliases = F[Len(loaded)].aliases /\ server.mime = F[Len(loaded)].mime
  BY <1>1, StartUpOK, Zenon
<1> QED BY <1>1, <1>2, BlankOK, TablesRead, Zenon

LEMMA TablesReload ==
  ASSUME IInv, SighupRun
  PROVE  TablesInv'
<1>1. /\ reloads' = reloads + 1 /\ loaded' \in Files
      /\ server' = ReadConfigFiles(Dumped(server), loaded', reloads')
  BY DEF SighupRun
<1>2. ServerOK(server) /\ reloads \in Nat
  BY DEF IInv, ServerInv
<1>3. reloads' \in Nat
  BY <1>1, <1>2
<1> SUFFICES ASSUME server'.up PROVE FromFile(server', loaded')
  BY Zenon DEF TablesInv
<1> DEFINE b == Dumped(server)
<1>4. ServerOK(b) /\ b.aliases = EmptyTable /\ b.mime = EmptyTable
  BY <1>2, DumpedKeeps
<1> HIDE DEF b
<1>5. server' = ReadConfigFiles(b, loaded', reloads')
  BY <1>1 DEF b
<1>6. loaded' \in Files
  BY <1>1
<1> DEFINE f == loaded'
           t == ReadConfigFiles(b, f, reloads')
<1>7. t.up => \E F : /\ Reads(b, f, F) /\ F[Len(f)].up
                     /\ t.aliases = F[Len(f)].aliases /\ t.mime = F[Len(f)].mime
  BY <1>3, <1>4, <1>6, ReadGrows, Zenon
<1>8. server' = t
  BY <1>5
<1> HIDE DEF f, t
<1>9. t.up => FromFile(t, f)
  BY <1>4, <1>6, <1>7, TablesRead, Zenon DEF f
<1> QED BY <1>8, <1>9, Zenon DEF f

LEMMA TablesInductive == Spec => []TablesInv
<1>1. ASSUME IInv, TablesInv, [Next]_vars PROVE TablesInv'
  <2>1. CASE SighupRun
    BY <1>1, <2>1, TablesReload
  <2>2. CASE ~SighupRun
    <3>1. UNCHANGED <<server, loaded>>
      BY <1>1, <2>2, ZenonT(30) DEF Next, Exited, vars, ProcessLogline, ProcessOptionLine,
         ProcessHeaderEnd, InitCgi, FreeRequest
    <3> QED BY <1>1, <3>1 DEF TablesInv
  <2> QED BY <2>1, <2>2
<1> QED BY <1>1, TablesStart, Inductive, PTL DEF Spec

\* A property of the lines up to each one, by induction over the lines.
LEMMA Lines ==
  ASSUME NEW n \in Nat, NEW P, 0 \in P, \A i \in 1..n : i - 1 \in P => i \in P
  PROVE  \A i \in 0..n : i \in P
<1> DEFINE T == {i \in Nat : i <= n => i \in P}
<1>1. 0 \in T
  OBVIOUS
<1>2. ASSUME NEW i \in T PROVE i + 1 \in T
  <2> SUFFICES ASSUME i + 1 <= n PROVE i + 1 \in P
    OBVIOUS
  <2>1. i + 1 \in 1..n /\ (i + 1) - 1 = i /\ i \in P
    OBVIOUS
  <2>2. (i + 1) - 1 \in P
    BY <2>1, Zenon
  <2> QED BY <2>1, <2>2, Zenon
<1> HIDE DEF T
<1>3. T = Nat
  BY <1>1, <1>2, Induct DEF T
<1> QED BY <1>3 DEF T

LEMMA AddAliasTyped ==
  ASSUME NEW table \in AliasTable, NEW a \in Aliases
  PROVE  AddAlias(table, a) \in AliasTable
<1>1. Bucket(a.fake) \in Buckets
  BY AliasesTyped, BucketTyped, Zenon
<1>2. table[Bucket(a.fake)] \in Seq(Aliases)
  BY <1>1, Zenon DEF AliasTable
<1>3. Append(table[Bucket(a.fake)], a) \in Seq(Aliases)
  BY <1>2
<1>4. [table EXCEPT ![Bucket(a.fake)] = Append(@, a)] \in AliasTable
  BY <1>1, <1>3 DEF AliasTable
<1> QED BY <1>4, Zenon DEF AddAlias

LEMMA AliasRunTyped ==
  ASSUME NEW f \in Files, NEW A, AliasRun(f, A)
  PROVE  /\ Len(f) \in Nat /\ DOMAIN f = 1..Len(f)
         /\ \A i \in 0..Len(f) : A[i] \in AliasTable
<1>1. f \in Seq(Range(f))
  BY LinesOK, Zenon
<1>2. Len(f) \in Nat /\ DOMAIN f = 1..Len(f)
  BY <1>1
<1>3. \A i \in 1..Len(f) : f[i].key = "Alias" => f[i].value \in Aliases
  BY <1>2 DEF Aliases
<1>4. EmptyTable \in AliasTable
  <2>1. <<>> \in Seq(Aliases)
    OBVIOUS
  <2> QED BY <2>1, Zenon DEF EmptyTable, AliasTable
<1> DEFINE P == {i \in 0..Len(f) : A[i] \in AliasTable}
<1>5. 0 \in P
  BY <1>2, <1>4 DEF AliasRun
<1>6. ASSUME NEW i \in 1..Len(f), i - 1 \in P PROVE i \in P
  <2>1. A[i] = AliasStep(A[i - 1], f[i]) /\ A[i - 1] \in AliasTable
    BY <1>6, Zenon DEF AliasRun
  <2>2. A[i] \in AliasTable
    BY <1>3, <2>1, AddAliasTyped, Zenon DEF AliasStep
  <2> QED BY <2>2, <1>2
<1> HIDE DEF P
<1>7. \A i \in 0..Len(f) : i \in P
  BY <1>2, <1>5, <1>6, Lines, Zenon
<1> QED BY <1>2, <1>7, Zenon DEF P

\* What a request was mapped to keeps what translate_uri promises, also after
\* a reload has changed the tables.
PathsInv == \A r \in Req : AnswerOK(reqs[r].answer, reqs[r].uri)

LEMMA AnswersKept ==
  ASSUME IInv, PathsInv, NEW r \in Req, NEW p, reqs' = [reqs EXCEPT ![r] = p],
         AnswerOK(p.answer, p.uri)
  PROVE  PathsInv'
<1>1. reqs = [s \in Req |-> reqs[s]]
  BY Zenon DEF IInv, NumbersInv
<1>2. ASSUME NEW s \in Req PROVE AnswerOK(reqs'[s].answer, reqs'[s].uri)
  <2>1. reqs'[s] = IF s = r THEN p ELSE reqs[s]
    BY <1>1, Zenon
  <2> QED BY <2>1, Zenon DEF PathsInv
<1> QED BY <1>2, Zenon DEF PathsInv

LEMMA IdleAnswer ==
  ASSUME NEW u
  PROVE  AnswerOK(Refused("none"), u)
BY Refusals

LEMMA LoglinePaths ==
  ASSUME IInv, PathsInv, NEW r \in Req, ProcessLogline(r)
  PROVE  PathsInv'
<1>1. PICK method \in {"GET", "POST"} :
         reqs' = [reqs EXCEPT ![r] = [Idle EXCEPT !.phase = "header", !.number = seen',
                                                  !.method = method, !.index = FirstIndex]]
  BY Zenon DEF ProcessLogline
<1> DEFINE p == [Idle EXCEPT !.phase = "header", !.number = seen', !.method = method, !.index = FirstIndex]
<1>2. p.answer = Refused("none") /\ p.uri = <<>>
  BY DEF Idle
<1>3. reqs' = [reqs EXCEPT ![r] = p]
  BY <1>1
<1> HIDE DEF p
<1>4. AnswerOK(p.answer, p.uri)
  BY <1>2, IdleAnswer, Zenon
<1> QED BY <1>3, <1>4, AnswersKept, Zenon

LEMMA OptionPaths ==
  ASSUME IInv, PathsInv, NEW r \in Req, ProcessOptionLine(r)
  PROVE  PathsInv'
<1> DEFINE q == reqs[r]
           p == IF HasRoom(q) THEN [AddCgiEnv(q) EXCEPT !.options = @ \cup {String(q)}]
                ELSE [q EXCEPT !.phase = "ended"]
<1>1. reqs' = [reqs EXCEPT ![r] = p]
  BY Zenon DEF ProcessOptionLine
<1>2. RequestOK(q)
  BY Zenon DEF IInv, EnvInv
<1>3. AnswerOK(q.answer, q.uri)
  BY Zenon DEF PathsInv
<1> HIDE DEF q
<1>4. p.answer = q.answer /\ p.uri = q.uri
  <2>1. CASE HasRoom(q)
    BY <1>2, <2>1 DEF AddCgiEnv, RequestOK, RequestFields
  <2>2. CASE ~HasRoom(q)
    BY <1>2, <2>2 DEF RequestOK, RequestFields
  <2> QED BY <2>1, <2>2
<1> HIDE DEF p
<1>5. AnswerOK(p.answer, p.uri)
  BY <1>3, <1>4, Zenon
<1> QED BY <1>1, <1>5, AnswersKept, Zenon

LEMMA InitCgiPaths ==
  ASSUME IInv, PathsInv, NEW r \in Req, InitCgi(r)
  PROVE  PathsInv'
<1> DEFINE q == reqs[r]
           p == IF q.answer.kind = "script" THEN CompleteEnv(q) ELSE [q EXCEPT !.phase = "ended"]
<1>1. server.up
  BY DEF InitCgi
<1>2. reqs' = [reqs EXCEPT ![r] = p]
  BY Zenon DEF InitCgi
<1>3. /\ ServerOK(server) /\ Len(server.common) <= CgiEnvMax
      /\ RequestOK(q) /\ SlotsOK(q, Len(server.common))
  BY <1>1, Found, Zenon
<1>4. "ended" \in Phases \ {"idle", "child"}
  BY DEF Phases
<1>5. AnswerOK(q.answer, q.uri)
  BY Zenon DEF PathsInv
<1> HIDE DEF q
<1>6. Continues(q, p, server.common)
  BY <1>3, <1>4, PhaseContinues, CompleteContinues, Zenon
<1> HIDE DEF p
<1>7. AnswerOK(p.answer, p.uri)
  BY <1>5, <1>6, Zenon DEF Continues
<1> QED BY <1>2, <1>7, AnswersKept, Zenon

LEMMA FreePaths ==
  ASSUME IInv, PathsInv, NEW r \in Req, FreeRequest(r)
  PROVE  PathsInv'
<1>1. reqs' = [reqs EXCEPT ![r] = Idle]
  BY Zenon DEF FreeRequest
<1>2. AnswerOK(Idle.answer, Idle.uri)
  BY IdleOK, IdleAnswer, Zenon
<1> QED BY <1>1, <1>2, AnswersKept, Zenon

LEMMA AnswerForSound ==
  ASSUME IInv, TablesInv, server.up, NEW raw \in RawUris, NEW q
  PROVE  LET a == AnswerFor(raw, q)
         IN AnswerOK(a, IF a.kind = "script" THEN Cleaned(raw) ELSE <<>>)
<1> DEFINE a == AnswerFor(raw, q)
           u == Cleaned(raw)
           v == IF a.kind = "script" THEN u ELSE <<>>
<1>1. CASE u = <<>>
  <2>1. a = Refused("bad_request")
    BY <1>1, Zenon DEF AnswerFor
  <2> HIDE DEF v
  <2>2. AnswerOK(a, v)
    BY <2>1, Refusals
  <2> QED BY <2>2, Zenon DEF v
<1>2. CASE u # <<>>
  <2>1. u \in Uris /\ Undotted(u)
    BY <1>2, CleanedCleans, Zenon
  <2>2. loaded \in Files
    BY Zenon DEF IInv, ServerInv
  <2>3. PICK A : AliasRun(loaded, A) /\ server.aliases = A[Len(loaded)]
    BY Zenon DEF TablesInv, FromFile
  <2>4. Len(loaded) \in Nat /\ \A i \in 0..Len(loaded) : A[i] \in AliasTable
    BY <2>2, <2>3, AliasRunTyped, Zenon
  <2>5. server.aliases \in AliasTable
    BY <2>3, <2>4
  <2>6. a = TranslateUri(server.settings, server.aliases, server.mime, u, q.method)
    BY <1>2, Zenon DEF AnswerFor
  <2> HIDE DEF a, u
  <2>7. AnswerOK(a, u)
    BY <2>1, <2>5, <2>6, TranslateSound, Zenon
  <2>8. AnswerOK(a, v)
    BY <2>7, Zenon DEF AnswerOK
  <2> QED BY <2>8, Zenon DEF a, u
<1> QED BY <1>1, <1>2

LEMMA HeaderEndPaths ==
  ASSUME IInv, TablesInv, PathsInv, NEW r \in Req, ProcessHeaderEnd(r)
  PROVE  PathsInv'
<1> DEFINE q == reqs[r]
<1>1. PICK raw \in RawUris :
         LET c == Handled(Answered(q, raw), q, raw)
         IN reqs' = [reqs EXCEPT ![r] = c] /\ heap' = heap \cup Own(c)
  BY HeaderEndSteps, Zenon
<1>2. server.up
  BY HeaderEndSteps, Zenon
<1>3. /\ ServerOK(server) /\ Len(server.common) <= CgiEnvMax
      /\ RequestOK(q) /\ SlotsOK(q, Len(server.common))
  BY <1>2, Found, Zenon
<1> DEFINE o == Answered(q, raw)
           c == Handled(o, q, raw)
           a == AnswerFor(raw, q)
           v == IF a.kind = "script" THEN Cleaned(raw) ELSE <<>>
<1>4. AnswerOK(a, v)
  BY <1>2, AnswerForSound, Zenon
<1> HIDE DEF q
<1>5. /\ o = [x \in RequestFields |-> o[x]] /\ SameEnv(q, o) /\ o.answer = a /\ o.uri = v
  BY <1>3 DEF RequestOK, RequestFields, SameEnv, Answered
<1>6. reqs' = [reqs EXCEPT ![r] = c]
  BY <1>1, Zenon
<1> HIDE DEF o, a, v
<1>7. RequestOK(o) /\ SlotsOK(o, Len(server.common))
  BY <1>3, <1>5, Zenon DEF RequestOK, SlotsOK, SameEnv
<1>8. Continues(o, c, server.common)
  BY <1>3, <1>7, HandledContinues, Zenon
<1> HIDE DEF c
<1>9. AnswerOK(c.answer, c.uri)
  BY <1>4, <1>5, <1>8, Zenon DEF Continues
<1> QED BY <1>6, <1>9, AnswersKept, Zenon

LEMMA PathsInductive == Spec => []PathsInv
<1>1. Init => PathsInv
  <2>1. Init => \A r \in Req : reqs[r] = Idle
    BY DEF Init
  <2> QED BY <2>1, IdleOK, IdleAnswer, Zenon DEF PathsInv
<1>2. ASSUME IInv, TablesInv, PathsInv, [Next]_vars PROVE PathsInv'
  <2>1. CASE reqs' = reqs
    BY <1>2, <2>1 DEF PathsInv
  <2>2. ASSUME NEW r \in Req,
               \/ ProcessLogline(r) \/ ProcessOptionLine(r) \/ ProcessHeaderEnd(r)
               \/ InitCgi(r) \/ FreeRequest(r)
        PROVE  PathsInv'
    BY <1>2, <2>2, LoglinePaths, OptionPaths, HeaderEndPaths, InitCgiPaths, FreePaths, Zenon
  <2>3. SighupRun => reqs' = reqs
    BY DEF SighupRun
  <2>4. Exited \/ UNCHANGED vars => reqs' = reqs
    BY DEF Exited, vars
  <2> QED BY <1>2, <2>1, <2>2, <2>3, <2>4, Zenon DEF Next
<1> QED BY <1>1, <1>2, Inductive, TablesInductive, PTL DEF Spec

\* However dots and slashes are written in a URI (%2e, //, /../), through every
\* alias and every walk for a script, no path the server opens has an empty
\* component or dots before its last (util.c's clean_pathname, alias.c).
THEOREM NoDots == Spec => []CleanInside
<1>1. PathsInv => CleanInside
  BY Zenon DEF PathsInv, AnswerOK, CleanInside
<1> QED BY <1>1, PathsInductive, PTL

\* For every file system and every alias table, SCRIPT_NAME followed by
\* PATH_INFO is the URI (alias.c's init_script_alias).
THEOREM ScriptsSplit == Spec => []ScriptSplits
<1>1. PathsInv => ScriptSplits
  BY Zenon DEF PathsInv, AnswerOK, ScriptSplits
<1> QED BY <1>1, PathsInductive, PTL
-----------------------------------------------------------------------------
\* FirstOf as a chain grows at its end.
LEMMA FirstOfAppend ==
  ASSUME NEW S, NEW s \in Seq(S), NEW x \in S, NEW K, NEW L,
         \A i \in DOMAIN s : s[i] \in K <=> s[i] \in L
  PROVE  FirstOf(Append(s, x), L) = IF FirstOf(s, K) = <<>> /\ x \in L THEN <<x>> ELSE FirstOf(s, K)
<1> DEFINE t == Append(s, x)
           n == Len(s) + 1
<1>1. Len(s) \in Nat /\ DOMAIN s = 1..Len(s)
  OBVIOUS
<1>2. t \in Seq(S) /\ Len(t) = n /\ DOMAIN t = 1..n /\ t[n] = x /\ n \in DOMAIN t
  BY <1>1
<1>3. \A i \in DOMAIN s : t[i] = s[i] /\ i \in DOMAIN t /\ i < n
  BY <1>1
<1>4. \A i \in DOMAIN t : i = n \/ i \in DOMAIN s
  BY <1>1, <1>2
<1>5. \A i, j \in DOMAIN s : i <= j => ~(j < i)
  BY <1>1
<1>6. \A j \in DOMAIN t : j < n => j \in DOMAIN s
  BY <1>1, <1>2
<1>13. \A i \in DOMAIN s : ~(n < i)
  BY <1>1
<1> HIDE DEF t, n
<1>7. CASE FirstOf(s, K) = <<>> /\ \A j \in DOMAIN s : s[j] \notin K
  <2>1. \A j \in DOMAIN t : j < n => t[j] \notin L
    BY <1>3, <1>6, <1>7, Zenon
  <2>2. CASE x \in L
    <3>1. FirstOf(t, L) = <<t[n]>>
      BY <1>2, <2>1, <2>2, FirstOfAt, Zenon
    <3> QED BY <1>2, <1>7, <2>2, <3>1, Zenon DEF t
  <2>3. CASE x \notin L
    <3>1. \A j \in DOMAIN t : t[j] \notin L
      BY <1>2, <1>3, <1>4, <1>7, <2>3, Zenon
    <3>2. FirstOf(t, L) = <<>>
      BY <1>2, <3>1, FirstOfNone, Zenon
    <3> QED BY <1>7, <2>3, <3>2, Zenon DEF t
  <2> QED BY <2>2, <2>3
<1>8. CASE \E i \in DOMAIN s : /\ FirstOf(s, K) = <<s[i]>> /\ s[i] \in K
                               /\ \A j \in DOMAIN s : s[j] \in K => i <= j
  <2>1. PICK i \in DOMAIN s : /\ FirstOf(s, K) = <<s[i]>> /\ s[i] \in K
                              /\ \A j \in DOMAIN s : s[j] \in K => i <= j
    BY <1>8
  <2>2. t[i] = s[i] /\ i \in DOMAIN t /\ t[i] \in L
    BY <1>3, <2>1, Zenon
  <2>3. \A j \in DOMAIN t : j < i => t[j] \notin L
    BY <1>3, <1>4, <1>5, <1>13, <2>1, Zenon
  <2>4. FirstOf(t, L) = <<t[i]>>
    BY <1>2, <2>2, <2>3, FirstOfAt, Zenon
  <2>5. FirstOf(s, K) # <<>>
    BY <2>1
  <2> QED BY <2>1, <2>2, <2>4, <2>5, Zenon DEF t
<1> QED BY <1>7, <1>8, FirstOfIs, Zenon

\* The hash of a URI and of a virtual path that matches it, "/" apart.
SlashOnly == <<"">>

LEMMA PrefixHead ==
  ASSUME NEW S, NEW v \in Seq(S), NEW u \in Seq(S), v # <<>>, IsPrefix(v, u)
  PROVE  Head(v) = Head(u)
<1>1. Len(v) <= Len(u) /\ SubSeq(v, 1, Len(v)) = SubSeq(u, 1, Len(v))
  BY Zenon DEF IsPrefix
<1>2. Len(v) \in Nat \ {0} /\ Len(u) \in Nat \ {0}
  BY <1>1
<1>3. Len(v) \in 0..Len(v) /\ Len(v) \in 0..Len(u) /\ 1 \in 1..Len(v)
  BY <1>1, <1>2
<1>4. SubSeq(v, 1, Len(v))[1] = v[1] /\ SubSeq(u, 1, Len(v))[1] = u[1]
  BY <1>3, SliceFront, Zenon
<1>5. Head(v) = v[1] /\ Head(u) = u[1]
  BY <1>2
<1> QED BY <1>1, <1>4, <1>5, Zenon

LEMMA One ==
  ASSUME NEW S, NEW v \in Seq(S), Len(v) = 1
  PROVE  v = <<Last(v)>>
BY DEF Last

LEMMA FrontHead ==
  ASSUME NEW S, NEW v \in Seq(S), v # <<>>, Len(v) # 1
  PROVE  Front(v) \in Seq(S) /\ Front(v) # <<>> /\ Head(Front(v)) = Head(v)
<1>1. Len(v) \in Nat \ {0} /\ Len(v) # 1
  OBVIOUS
<1> DEFINE k == Len(v) - 1
<1>2. k \in Nat /\ k >= 1 /\ k <= Len(v)
  <2>1. \A n \in Nat \ {0} : n # 1 => n - 1 \in Nat /\ n - 1 >= 1 /\ n - 1 <= n
    OBVIOUS
  <2> QED BY <1>1, <2>1, Zenon
<1> HIDE DEF k
<1>3. k \in 0..Len(v) /\ 1 \in 1..k
  BY <1>1, <1>2
<1>4. Front(v) = SubSeq(v, 1, k)
  BY Zenon DEF Front, k
<1> DEFINE w == SubSeq(v, 1, k)
<1>5. w \in Seq(S) /\ Len(w) = k /\ w[1] = v[1]
  BY <1>3, SliceFront
<1> HIDE DEF w
<1>6. w # <<>> /\ Head(w) = w[1] /\ Head(v) = v[1]
  BY <1>1, <1>2, <1>5
<1> QED BY <1>4, <1>5, <1>6, Zenon DEF w

LEMMA MatchesBucket ==
  ASSUME NEW a, a.fake \in Uris, a.fake # SlashOnly, NEW u \in Uris, Matches(a, u)
  PROVE  Bucket(a.fake) = Bucket(u)
<1> DEFINE v == a.fake
<1>1. v \in Seq(DOMAIN Hash) /\ v # <<>> /\ u \in Seq(DOMAIN Hash)
  BY Zenon DEF Uris
<1>2. CASE ~Slashed(v)
  <2>1. IsPrefix(v, u)
    BY <1>2, Zenon DEF Matches
  <2> QED BY <1>1, <2>1, PrefixHead, Zenon DEF Bucket
<1>3. CASE Slashed(v)
  <2>1. IsPrefix(Front(v), u) /\ Last(v) = ""
    BY <1>3, Zenon DEF Matches, Slashed
  <2>2. Len(v) # 1
    BY <1>1, <2>1, One, Zenon DEF SlashOnly
  <2>3. Front(v) \in Seq(DOMAIN Hash) /\ Front(v) # <<>> /\ Head(Front(v)) = Head(v)
    BY <1>1, <2>2, FrontHead, Zenon
  <2> QED BY <1>1, <2>1, <2>3, PrefixHead, Zenon DEF Bucket
<1> QED BY <1>2, <1>3, Zenon

LEMMA Singles == \A x : <<x>> # <<>>
OBVIOUS

LEMMA AppendRange ==
  ASSUME NEW S, NEW s \in Seq(S), NEW x \in S
  PROVE  Range(s) \subseteq Range(Append(s, x)) /\ x \in Range(Append(s, x))
<1>1. Len(s) + 1 \in DOMAIN Append(s, x) /\ Append(s, x)[Len(s) + 1] = x
  OBVIOUS
<1>2. \A i \in DOMAIN s : i \in DOMAIN Append(s, x) /\ Append(s, x)[i] = s[i]
  OBVIOUS
<1> QED BY <1>1, <1>2, Zenon DEF Range

\* add_alias: the new alias is found where none was before.
LEMMA AddAliasFinds ==
  ASSUME NEW table \in AliasTable, NEW a \in Aliases, a.fake # SlashOnly, NEW u \in Uris
  PROVE  FindAlias(AddAlias(table, a), u)
           = IF FindAlias(table, u) = <<>> /\ Matches(a, u) THEN <<a>> ELSE FindAlias(table, u)
<1> DEFINE b == Bucket(a.fake)
           c == Bucket(u)
           chain == table[b]
           s == table[c]
           K == {e \in Range(s) : Matches(e, u)}
<1>1. a.fake \in Uris /\ b \in Buckets /\ c \in Buckets
  BY AliasesTyped, BucketTyped, Zenon
<1>2. chain \in Seq(Aliases) /\ s \in Seq(Aliases) /\ table = [x \in Buckets |-> table[x]]
  BY <1>1, Zenon DEF AliasTable
<1>3. Matches(a, u) => b = c
  BY <1>1, MatchesBucket, Zenon
<1>4. FindAlias(table, u) = FirstOf(s, K)
  BY Zenon DEF FindAlias
<1>5. CASE \E i \in 1..(Len(chain) - 1) : chain[i].fake = a.fake
  <2>1. AddAlias(table, a) = table
    BY <1>5, Zenon DEF AddAlias
  <2>2. PICK i \in 1..(Len(chain) - 1) : chain[i].fake = a.fake
    BY <1>5
  <2>3. i \in DOMAIN chain
    BY <1>2
  <2>4. Matches(chain[i], u) <=> Matches(a, u)
    BY <2>2, Zenon DEF Matches
  <2>5. Matches(a, u) => FindAlias(table, u) # <<>>
    <3> SUFFICES ASSUME Matches(a, u) PROVE FirstOf(s, K) # <<>>
      BY <1>4, Zenon
    <3>1. i \in DOMAIN s /\ s[i] \in K
      BY <1>3, <2>3, <2>4 DEF Range
    <3> HIDE DEF K, s
    <3>2. PICK j \in DOMAIN s : FirstOf(s, K) = <<s[j]>>
      BY <1>2, <3>1, FirstOfIs, Zenon
    <3> QED BY <3>2, Singles, Zenon
  <2> QED BY <2>1, <2>5, Zenon
<1>6. CASE ~\E i \in 1..(Len(chain) - 1) : chain[i].fake = a.fake
  <2>1. AddAlias(table, a) = [table EXCEPT ![b] = Append(chain, a)]
    BY <1>6, Zenon DEF AddAlias
  <2> DEFINE t == [table EXCEPT ![b] = Append(chain, a)]
  <2>2. CASE b = c
    <3>1. t[c] = Append(s, a)
      BY <1>1, <1>2, <2>2, Zenon
    <3> DEFINE L == {e \in Range(Append(s, a)) : Matches(e, u)}
    <3>2. FindAlias(t, u) = FirstOf(Append(s, a), L)
      BY <3>1, Zenon DEF FindAlias
    <3>3. Range(s) \subseteq Range(Append(s, a)) /\ a \in Range(Append(s, a))
      BY <1>2, AppendRange, Zenon
    <3>5. \A i \in DOMAIN s : s[i] \in Range(s)
      BY Zenon DEF Range
    <3> HIDE DEF s, t
    <3>6. \A i \in DOMAIN s : s[i] \in K <=> s[i] \in L
      BY <3>3, <3>5, Zenon
    <3>7. a \in L <=> Matches(a, u)
      BY <3>3, Zenon
    <3>9. s \in Seq(Aliases) /\ a \in Aliases
      BY <1>2
    <3> HIDE DEF K, L, b, c, chain
    <3>8. FirstOf(Append(s, a), L) = IF FirstOf(s, K) = <<>> /\ a \in L THEN <<a>> ELSE FirstOf(s, K)
      BY <3>6, <3>9, FirstOfAppend
    <3> QED BY <1>4, <2>1, <3>2, <3>7, <3>8, Zenon DEF t
  <2>3. CASE b # c
    <3>1. t[c] = s
      BY <1>1, <1>2, <2>3, Zenon
    <3>2. FindAlias(t, u) = FindAlias(table, u)
      BY <3>1, Zenon DEF FindAlias
    <3> QED BY <1>3, <2>1, <2>3, <3>2, Zenon
  <2> QED BY <2>2, <2>3
<1> QED BY <1>5, <1>6

\* The first i lines of f and the table after them agree on u.
LineFor(l, u) == l.key = "Alias" /\ Matches(l.value, u)
LinesFor(f, u) == {l \in Range(f) : l.key = "Alias" /\ Matches(l.value, u)}
FoundTo(f, A, u, i) ==
  \/ FindAlias(A[i], u) = <<>> /\ \A k \in 1..i : ~LineFor(f[k], u)
  \/ \E k \in 1..i : /\ LineFor(f[k], u) /\ \A j \in 1..(k - 1) : ~LineFor(f[j], u)
                     /\ FindAlias(A[i], u) = <<f[k].value>>

LEMMA EmptyFinds ==
  ASSUME NEW u \in Uris
  PROVE  FindAlias(EmptyTable, u) = <<>>
<1> DEFINE K == {a \in Range(<<>>) : Matches(a, u)}
<1>1. EmptyTable[Bucket(u)] = <<>>
  BY BucketTyped, Zenon DEF EmptyTable
<1>2. FindAlias(EmptyTable, u) = FirstOf(<<>>, K)
  BY <1>1, Zenon DEF FindAlias
<1> HIDE DEF K
<1>3. <<>> \in Seq(Aliases) /\ \A j \in DOMAIN <<>> : FALSE
  OBVIOUS
<1>4. FirstOf(<<>>, K) = <<>>
  BY <1>3, FirstOfNone, Zenon
<1> QED BY <1>2, <1>4, Zenon

LEMMA AliasLinesTyped ==
  ASSUME NEW f \in Files, NEW i \in DOMAIN f, f[i].key = "Alias"
  PROVE  f[i].value \in Aliases
BY DEF Aliases

LEMMA FoundLine ==
  ASSUME NEW f \in Files, NEW A, AliasRun(f, A), NEW u \in Uris,
         \A i \in DOMAIN f : f[i].key = "Alias" => f[i].value.fake # SlashOnly,
         NEW i \in 1..Len(f), FoundTo(f, A, u, i - 1)
  PROVE  FoundTo(f, A, u, i)
<1> DEFINE l == f[i]
           s == A[i - 1]
           t == A[i]
<1>1. Len(f) \in Nat /\ DOMAIN f = 1..Len(f) /\ \A k \in 0..Len(f) : A[k] \in AliasTable
  BY AliasRunTyped, Zenon
<1>2. i - 1 \in 0..Len(f) /\ i \in 1..i
  BY <1>1
<1>3. (\A k \in 1..(i - 1) : k \in 1..i) /\ (\A k \in 1..i : k = i \/ k \in 1..(i - 1))
  BY <1>1
<1>4. s \in AliasTable
  BY <1>1, <1>2, Zenon
<1>5. l.key = "Alias" => l.value \in Aliases /\ l.value.fake # SlashOnly
  BY <1>1, AliasLinesTyped, Zenon
<1>6. t = AliasStep(s, l)
  BY Zenon DEF AliasRun
<1>7. FindAlias(t, u) = IF FindAlias(s, u) = <<>> /\ LineFor(l, u) THEN <<l.value>>
                        ELSE FindAlias(s, u)
  <2> HIDE DEF l, s, t
  <2>1. CASE l.key = "Alias"
    <3>1. t = AddAlias(s, l.value)
      BY <1>6, <2>1, Zenon DEF AliasStep
    <3>2. FindAlias(AddAlias(s, l.value), u)
            = IF FindAlias(s, u) = <<>> /\ Matches(l.value, u) THEN <<l.value>> ELSE FindAlias(s, u)
      BY <1>4, <1>5, <2>1, AddAliasFinds, Zenon
    <3> QED BY <2>1, <3>1, <3>2, Zenon DEF LineFor
  <2>2. CASE l.key # "Alias"
    BY <1>6, <2>2, Zenon DEF AliasStep, LineFor
  <2> QED BY <2>1, <2>2
<1>8. CASE FindAlias(s, u) = <<>> /\ \A k \in 1..(i - 1) : ~LineFor(f[k], u)
  <2>1. CASE LineFor(l, u)
    BY <1>2, <1>7, <1>8, <2>1, Zenon DEF FoundTo
  <2>2. CASE ~LineFor(l, u)
    <3>1. \A k \in 1..i : ~LineFor(f[k], u)
      BY <1>3, <1>8, <2>2, Zenon
    <3> QED BY <1>7, <1>8, <2>2, <3>1, Zenon DEF FoundTo
  <2> QED BY <2>1, <2>2
<1>9. CASE \E k \in 1..(i - 1) : /\ LineFor(f[k], u) /\ \A j \in 1..(k - 1) : ~LineFor(f[j], u)
                                 /\ FindAlias(s, u) = <<f[k].value>>
  <2>1. PICK k \in 1..(i - 1) : /\ LineFor(f[k], u) /\ \A j \in 1..(k - 1) : ~LineFor(f[j], u)
                                /\ FindAlias(s, u) = <<f[k].value>>
    BY <1>9
  <2>2. FindAlias(s, u) # <<>>
    BY <2>1, Singles, Zenon
  <2> QED BY <1>3, <1>7, <2>1, <2>2, Zenon DEF FoundTo
<1> QED BY <1>8, <1>9, Zenon DEF FoundTo

ValuesOf(lines) == [i \in DOMAIN lines |-> lines[i].value]

LEMMA ValuesOfOne == (\A x : ValuesOf(<<x>>) = <<x.value>>) /\ ValuesOf(<<>>) = <<>>
BY DEF ValuesOf

LEMMA FileFinds ==
  ASSUME NEW f \in Files, NEW A, AliasRun(f, A), NEW u \in Uris,
         \A i \in DOMAIN f : f[i].key = "Alias" => f[i].value.fake # SlashOnly,
         NEW lines, lines = FirstOf(f, LinesFor(f, u))
  PROVE  FindAlias(A[Len(f)], u) = ValuesOf(lines)
<1>1. Len(f) \in Nat /\ DOMAIN f = 1..Len(f) /\ f \in Seq(Range(f))
  BY AliasRunTyped, LinesOK, Zenon
<1> DEFINE P == {i \in 0..Len(f) : FoundTo(f, A, u, i)}
           K == LinesFor(f, u)
<1>2. 0 \in P
  <2>1. 0 \in 0..Len(f) /\ \A k \in 1..0 : FALSE
    BY <1>1
  <2>2. A[0] = EmptyTable
    BY Zenon DEF AliasRun
  <2>3. FoundTo(f, A, u, 0)
    BY <2>1, <2>2, EmptyFinds, Zenon DEF FoundTo
  <2> QED BY <2>1, <2>3, Zenon
<1>3. ASSUME NEW i \in 1..Len(f), i - 1 \in P PROVE i \in P
  <2>1. FoundTo(f, A, u, i)
    BY <1>3, FoundLine, Zenon
  <2>2. i \in 0..Len(f)
    BY <1>1
  <2> QED BY <2>1, <2>2, Zenon
<1> HIDE DEF P
<1>4. \A i \in 0..Len(f) : i \in P
  BY <1>1, <1>2, <1>3, Lines, Zenon
<1>5. Len(f) \in 0..Len(f)
  BY <1>1
<1>6. FoundTo(f, A, u, Len(f))
  BY <1>4, <1>5, Zenon DEF P
<1>7. \A i \in DOMAIN f : f[i] \in K <=> LineFor(f[i], u)
  BY Zenon DEF LineFor, LinesFor, Range
<1>8. lines = FirstOf(f, K)
  BY Zenon
<1> HIDE DEF K
<1>9. CASE FindAlias(A[Len(f)], u) = <<>> /\ \A k \in 1..Len(f) : ~LineFor(f[k], u)
  <2>1. \A i \in DOMAIN f : f[i] \notin K
    BY <1>1, <1>7, <1>9, Zenon
  <2>2. FirstOf(f, K) = <<>>
    BY <1>1, <2>1, FirstOfNone, Zenon
  <2> QED BY <1>8, <1>9, <2>2, ValuesOfOne, Zenon
<1>10. CASE \E k \in 1..Len(f) : /\ LineFor(f[k], u) /\ \A j \in 1..(k - 1) : ~LineFor(f[j], u)
                                 /\ FindAlias(A[Len(f)], u) = <<f[k].value>>
  <2>1. PICK k \in 1..Len(f) : /\ LineFor(f[k], u) /\ \A j \in 1..(k - 1) : ~LineFor(f[j], u)
                               /\ FindAlias(A[Len(f)], u) = <<f[k].value>>
    BY <1>10
  <2>2. k \in DOMAIN f /\ f[k] \in K
    BY <1>1, <1>7, <2>1, Zenon
  <2>3. \A j \in DOMAIN f : j < k => j \in 1..(k - 1)
    BY <1>1
  <2>4. \A j \in DOMAIN f : j < k => f[j] \notin K
    BY <1>7, <2>1, <2>3, Zenon
  <2>5. FirstOf(f, K) = <<f[k]>>
    BY <1>1, <2>2, <2>4, FirstOfAt, Zenon
  <2> QED BY <1>8, <2>1, <2>5, ValuesOfOne, Zenon
<1> QED BY <1>6, <1>9, <1>10, Zenon DEF FoundTo

\* A URI is mapped by the first matching line of the file last read, for every
\* hash, every file and every sequence of reloads; the alias "/" apart
\* (alias.c's add_alias and find_alias, dump_alias on SIGHUP).
THEOREM FirstLineFound == Spec => []FindsFirst
<1>1. ASSUME IInv, TablesInv PROVE FindsFirst
  <2> SUFFICES ASSUME server.up, ~RootAlias, NEW raw \in RawUris, Cleaned(raw) # <<>>
               PROVE  LET lines == AliasLines(Cleaned(raw))
                      IN FindAlias(server.aliases, Cleaned(raw)) = [i \in DOMAIN lines |-> lines[i].value]
    BY Zenon DEF FindsFirst
  <2> DEFINE u == Cleaned(raw)
             lines == AliasLines(u)
  <2>1. u \in Uris
    BY CleanedCleans, Zenon
  <2>2. loaded \in Files
    BY <1>1, Zenon DEF IInv, ServerInv
  <2>3. PICK A : AliasRun(loaded, A) /\ server.aliases = A[Len(loaded)]
    BY <1>1, Zenon DEF TablesInv, FromFile
  <2>4. \A i \in DOMAIN loaded : loaded[i].key = "Alias" => loaded[i].value.fake # SlashOnly
    BY Zenon DEF RootAlias, Range, SlashOnly
  <2>5. lines = FirstOf(loaded, LinesFor(loaded, u))
    BY Zenon DEF AliasLines, LinesFor
  <2> HIDE DEF u, lines
  <2>6. FindAlias(A[Len(loaded)], u) = ValuesOf(lines)
    BY <2>1, <2>2, <2>3, <2>4, <2>5, FileFinds, Zenon
  <2> QED BY <2>3, <2>6, Zenon DEF u, lines, ValuesOf
<1> QED BY <1>1, Inductive, TablesInductive, PTL
-----------------------------------------------------------------------------
\* The table of MIME types.
Types == UNION {UNION {{e.type : e \in Range(TypesOf(f[i]))} : i \in {j \in DOMAIN f : f[j].key \in TypeKeys}} :
                  f \in Files}
Entry(key, value) == [key |-> key, value |-> value]
Entries == {Entry(key, value) : key \in DOMAIN Hash, value \in Types}
MimeTable == [Buckets -> Seq(Entries)]

LEMMA EntryFields == \A k, v : Entry(k, v).key = k /\ Entry(k, v).value = v
BY DEF Entry

LEMMA EntriesTyped == \A k \in DOMAIN Hash, v \in Types : Entry(k, v) \in Entries
BY DEF Entries

LEMMA HashBuckets == \A key \in DOMAIN Hash : Hash[key] \in Buckets
BY Zenon DEF Buckets

LEMMA EmptyMime ==
  /\ EmptyTable \in MimeTable
  /\ \A ext \in DOMAIN Hash : HashFind(EmptyTable, ext) = <<>>
<1>1. <<>> \in Seq(Entries) /\ \A j \in DOMAIN <<>> : FALSE
  OBVIOUS
<1>2. EmptyTable \in MimeTable
  BY <1>1, Zenon DEF EmptyTable, MimeTable
<1>3. ASSUME NEW ext \in DOMAIN Hash PROVE HashFind(EmptyTable, ext) = <<>>
  <2> DEFINE K == {e \in Range(<<>>) : e.key = ext}
  <2>1. EmptyTable[Hash[ext]] = <<>>
    BY HashBuckets, Zenon DEF EmptyTable
  <2>2. HashFind(EmptyTable, ext) = FirstOf(<<>>, K)
    BY <2>1, Zenon DEF HashFind
  <2> HIDE DEF K
  <2>3. FirstOf(<<>>, K) = <<>>
    BY <1>1, FirstOfNone, Zenon
  <2> QED BY <2>2, <2>3, Zenon
<1> QED BY <1>2, <1>3, Zenon

\* hash_insert: the value is found where none was before.
LEMMA HashInsertFinds ==
  ASSUME NEW table \in MimeTable, NEW key \in DOMAIN Hash, NEW value \in Types, NEW ext \in DOMAIN Hash
  PROVE  /\ HashInsert(table, key, value) \in MimeTable
         /\ HashFind(HashInsert(table, key, value), ext)
              = IF HashFind(table, ext) = <<>> /\ key = ext THEN <<Entry(ext, value)>>
                ELSE HashFind(table, ext)
<1> DEFINE b == Hash[key]
           c == Hash[ext]
           chain == table[b]
           s == table[c]
           x == Entry(key, value)
           K == {e \in Range(s) : e.key = ext}
           t == HashInsert(table, key, value)
<1>1. b \in Buckets /\ c \in Buckets /\ (key = ext => b = c)
  BY HashBuckets, Zenon
<1>2. chain \in Seq(Entries) /\ s \in Seq(Entries) /\ table = [y \in Buckets |-> table[y]]
  BY <1>1, Zenon DEF MimeTable
<1>3. x \in Entries /\ x.key = key
  BY EntryFields, EntriesTyped, Zenon
<1>4. HashFind(table, ext) = FirstOf(s, K)
  BY Zenon DEF HashFind
<1>5. CASE \E i \in DOMAIN chain : chain[i].key = key
  <2>1. t = table
    BY <1>5, Zenon DEF HashInsert
  <2>2. key = ext => HashFind(table, ext) # <<>>
    <3> SUFFICES ASSUME key = ext PROVE FirstOf(s, K) # <<>>
      BY <1>4, Zenon
    <3>1. PICK i \in DOMAIN s : s[i] \in K
      BY <1>1, <1>5, Zenon DEF Range
    <3> HIDE DEF K, s
    <3>2. PICK j \in DOMAIN s : FirstOf(s, K) = <<s[j]>>
      BY <1>2, <3>1, FirstOfIs, Zenon
    <3> QED BY <3>2, Singles, Zenon
  <2> HIDE DEF t
  <2> QED BY <2>1, <2>2, Zenon DEF t
<1>6. CASE ~\E i \in DOMAIN chain : chain[i].key = key
  <2> DEFINE w == [table EXCEPT ![b] = Append(chain, x)]
  <2>1. t = w
    BY <1>6, Zenon DEF HashInsert, Entry
  <2>2. Append(chain, x) \in Seq(Entries)
    <3> HIDE DEF chain, x
    <3> QED BY <1>2, <1>3
  <2>3. w \in MimeTable
    <3> HIDE DEF chain, x, b
    <3> QED BY <1>1, <2>2, Zenon DEF MimeTable
  <2>4. CASE b = c
    <3>1. w[c] = Append(s, x)
      BY <1>1, <1>2, <2>4, Zenon
    <3> DEFINE L == {e \in Range(Append(s, x)) : e.key = ext}
    <3>2. HashFind(w, ext) = FirstOf(Append(s, x), L)
      BY <3>1, Zenon DEF HashFind
    <3>3. Range(s) \subseteq Range(Append(s, x)) /\ x \in Range(Append(s, x))
      BY <1>2, <1>3, AppendRange, Zenon
    <3>4. \A i \in DOMAIN s : s[i] \in Range(s)
      BY Zenon DEF Range
    <3> HIDE DEF s, w, x
    <3>5. \A i \in DOMAIN s : s[i] \in K <=> s[i] \in L
      BY <3>3, <3>4, Zenon
    <3>6. x \in L <=> key = ext
      BY <1>3, <3>3, Zenon
    <3>7. s \in Seq(Entries) /\ x \in Entries
      BY <1>2, <1>3, Zenon
    <3> HIDE DEF K, L, b, c, chain
    <3>8. FirstOf(Append(s, x), L) = IF FirstOf(s, K) = <<>> /\ x \in L THEN <<x>> ELSE FirstOf(s, K)
      BY <3>5, <3>7, FirstOfAppend
    <3>9. HashFind(w, ext) = IF HashFind(table, ext) = <<>> /\ key = ext THEN <<x>> ELSE HashFind(table, ext)
      BY <1>4, <3>2, <3>6, <3>8, Zenon
    <3> QED BY <2>1, <2>3, <3>9, Zenon DEF x
  <2>5. CASE b # c
    <3>1. w[c] = s
      BY <1>1, <1>2, <2>5, Zenon
    <3>2. HashFind(w, ext) = HashFind(table, ext)
      BY <3>1, Zenon DEF HashFind
    <3> QED BY <1>1, <2>1, <2>3, <2>5, <3>2, Zenon
  <2> QED BY <2>4, <2>5
<1> QED BY <1>5, <1>6

\* c_add_mime_types_file: the first i types of a line and the table after them
\* agree on ext.
TypesTo(table, types, G, ext, i) ==
  /\ G[i] \in MimeTable
  /\ \/ HashFind(table, ext) # <<>> /\ HashFind(G[i], ext) = HashFind(table, ext)
     \/ /\ HashFind(table, ext) = <<>> /\ HashFind(G[i], ext) = <<>>
        /\ \A k \in 1..i : types[k].ext # ext
     \/ /\ HashFind(table, ext) = <<>>
        /\ \E k \in 1..i : /\ types[k].ext = ext /\ \A j \in 1..(k - 1) : types[j].ext # ext
                           /\ HashFind(G[i], ext) = <<Entry(ext, types[k].type)>>

LEMMA OneType ==
  ASSUME NEW table, NEW types, NEW G, NEW ext \in DOMAIN Hash, NEW n \in Nat, NEW i \in 1..n,
         types[i].ext \in DOMAIN Hash, types[i].type \in Types,
         G[i] = HashInsert(G[i - 1], types[i].ext, types[i].type),
         TypesTo(table, types, G, ext, i - 1)
  PROVE  TypesTo(table, types, G, ext, i)
<1> DEFINE s == G[i - 1]
           t == G[i]
           e == types[i]
<1>1. i \in 1..i /\ (\A k \in 1..(i - 1) : k \in 1..i) /\ (\A k \in 1..i : k = i \/ k \in 1..(i - 1))
  OBVIOUS
<1>2. s \in MimeTable
  BY Zenon DEF TypesTo
<1>3. /\ t \in MimeTable
      /\ HashFind(t, ext) = IF HashFind(s, ext) = <<>> /\ e.ext = ext THEN <<Entry(ext, e.type)>>
                            ELSE HashFind(s, ext)
  <2> HIDE DEF s
  <2>1. t = HashInsert(s, e.ext, e.type)
    BY Zenon DEF s
  <2> HIDE DEF t, e
  <2>2. e.ext \in DOMAIN Hash /\ e.type \in Types
    BY Zenon DEF e
  <2> QED BY <1>2, <2>1, <2>2, HashInsertFinds, Zenon
<1>4. CASE HashFind(table, ext) # <<>> /\ HashFind(s, ext) = HashFind(table, ext)
  BY <1>3, <1>4, Zenon DEF TypesTo
<1>5. CASE /\ HashFind(table, ext) = <<>> /\ HashFind(s, ext) = <<>>
           /\ \A k \in 1..(i - 1) : types[k].ext # ext
  <2>1. CASE e.ext = ext
    BY <1>1, <1>3, <1>5, <2>1, Zenon DEF TypesTo
  <2>2. CASE e.ext # ext
    <3>1. \A k \in 1..i : types[k].ext # ext
      BY <1>1, <1>5, <2>2, Zenon
    <3> QED BY <1>3, <1>5, <2>2, <3>1, Zenon DEF TypesTo
  <2> QED BY <2>1, <2>2
<1>6. CASE /\ HashFind(table, ext) = <<>>
           /\ \E k \in 1..(i - 1) : /\ types[k].ext = ext /\ \A j \in 1..(k - 1) : types[j].ext # ext
                                    /\ HashFind(s, ext) = <<Entry(ext, types[k].type)>>
  <2>1. PICK k \in 1..(i - 1) : /\ types[k].ext = ext /\ \A j \in 1..(k - 1) : types[j].ext # ext
                                /\ HashFind(s, ext) = <<Entry(ext, types[k].type)>>
    BY <1>6
  <2>2. HashFind(s, ext) # <<>>
    BY <2>1, Singles, Zenon
  <2> QED BY <1>1, <1>3, <1>6, <2>1, <2>2, Zenon DEF TypesTo
<1> QED BY <1>4, <1>5, <1>6, Zenon DEF TypesTo

LEMMA LineTypes ==
  ASSUME NEW table \in MimeTable, NEW types, NEW n \in Nat, NEW G, MimeLoop(table, types, G, n),
         NEW ext \in DOMAIN Hash,
         \A i \in 1..n : types[i].ext \in DOMAIN Hash /\ types[i].type \in Types
  PROVE  TypesTo(table, types, G, ext, n)
<1> DEFINE P == {i \in 0..n : TypesTo(table, types, G, ext, i)}
<1>1. \A i \in 0..n : G[i] = IF i = 0 THEN table ELSE HashInsert(G[i - 1], types[i].ext, types[i].type)
  BY Zenon DEF MimeLoop
<1>2. 0 \in P
  <2>1. 0 \in 0..n /\ \A k \in 1..0 : FALSE
    OBVIOUS
  <2>2. G[0] = table
    BY <1>1, <2>1, Zenon
  <2>3. TypesTo(table, types, G, ext, 0)
    BY <2>1, <2>2, Zenon DEF TypesTo
  <2> QED BY <2>1, <2>3, Zenon
<1>3. ASSUME NEW i \in 1..n, i - 1 \in P PROVE i \in P
  <2>1. i \in 0..n /\ i # 0
    OBVIOUS
  <2>2. G[i] = HashInsert(G[i - 1], types[i].ext, types[i].type)
    BY <1>1, <2>1, Zenon
  <2>3. TypesTo(table, types, G, ext, i - 1)
    BY <1>3, Zenon
  <2>4. TypesTo(table, types, G, ext, i)
    BY <2>2, <2>3, OneType, Zenon
  <2> QED BY <2>1, <2>4, Zenon
<1> HIDE DEF P
<1>4. \A i \in 0..n : i \in P
  BY <1>2, <1>3, Lines, Zenon
<1>5. n \in 0..n
  OBVIOUS
<1> QED BY <1>4, <1>5, Zenon DEF P

\* The first i lines of f and the table after them agree on ext.
TypeLine(l, ext) == l.key \in TypeKeys /\ \E e \in Range(TypesOf(l)) : e.ext = ext
TypeLinesFor(f, ext) == {l \in Range(f) : l.key \in TypeKeys /\ \E e \in Range(TypesOf(l)) : e.ext = ext}
FirstType(types, ext, e) ==
  e \in DOMAIN types /\ types[e].ext = ext /\ \A j \in DOMAIN types : j < e => types[j].ext # ext
TypedTo(f, M, ext, i) ==
  /\ M[i] \in MimeTable
  /\ \/ HashFind(M[i], ext) = <<>> /\ \A k \in 1..i : ~TypeLine(f[k], ext)
     \/ \E k \in 1..i :
          /\ TypeLine(f[k], ext) /\ \A j \in 1..(k - 1) : ~TypeLine(f[j], ext)
          /\ \E e : /\ FirstType(TypesOf(f[k]), ext, e)
                    /\ HashFind(M[i], ext) = <<Entry(ext, TypesOf(f[k])[e].type)>>

LEMMA TypesTyped ==
  ASSUME NEW f \in Files, NEW i \in DOMAIN f, f[i].key \in TypeKeys
  PROVE  /\ Len(TypesOf(f[i])) \in Nat /\ DOMAIN TypesOf(f[i]) = 1..Len(TypesOf(f[i]))
         /\ TypesOf(f[i]) \in Seq(Range(TypesOf(f[i])))
         /\ \A j \in 1..Len(TypesOf(f[i])) : TypesOf(f[i])[j].ext \in DOMAIN Hash /\ TypesOf(f[i])[j].type \in Types
<1> DEFINE types == TypesOf(f[i])
<1>1. types \in Seq(Range(types)) /\ \A e \in Range(types) : e.ext \in DOMAIN Hash
  BY LinesOK, Zenon DEF LineOK
<1>2. \A e \in Range(types) : e.type \in Types
  BY DEF Types
<1> HIDE DEF types
<1>3. Len(types) \in Nat /\ DOMAIN types = 1..Len(types)
  BY <1>1
<1>4. \A j \in 1..Len(types) : types[j] \in Range(types)
  BY <1>3, Zenon DEF Range
<1> QED BY <1>1, <1>2, <1>3, <1>4, Zenon DEF types

LEMMA TypedLine ==
  ASSUME NEW f \in Files, NEW M, MimeRun(f, M), NEW ext \in DOMAIN Hash,
         Len(f) \in Nat, DOMAIN f = 1..Len(f), NEW i \in 1..Len(f), TypedTo(f, M, ext, i - 1)
  PROVE  TypedTo(f, M, ext, i)
<1> DEFINE l == f[i]
           s == M[i - 1]
           t == M[i]
           types == TypesOf(l)
<1>1. i \in 1..i /\ (\A k \in 1..(i - 1) : k \in 1..i) /\ (\A k \in 1..i : k = i \/ k \in 1..(i - 1))
  OBVIOUS
<1>2. s \in MimeTable
  BY Zenon DEF TypedTo
<1>3. MimeStep(s, l, t)
  BY Zenon DEF MimeRun
\* What the line does for ext.
<1>4. /\ t \in MimeTable
      /\ \/ HashFind(s, ext) # <<>> /\ HashFind(t, ext) = HashFind(s, ext)
         \/ HashFind(s, ext) = <<>> /\ HashFind(t, ext) = <<>> /\ ~TypeLine(l, ext)
         \/ /\ HashFind(s, ext) = <<>> /\ TypeLine(l, ext)
            /\ \E e : FirstType(types, ext, e) /\ HashFind(t, ext) = <<Entry(ext, types[e].type)>>
  <2>1. CASE l.key \notin TypeKeys
    BY <1>2, <1>3, <2>1, Zenon DEF MimeStep, TypeLine
  <2>2. CASE l.key \in TypeKeys
    <3> DEFINE n == Len(types)
    <3>1. PICK G : MimeLoop(s, types, G, n) /\ t = G[n]
      BY <1>3, <2>2, Zenon DEF MimeStep
    <3>2. /\ n \in Nat /\ DOMAIN types = 1..n
          /\ \A j \in 1..n : types[j].ext \in DOMAIN Hash /\ types[j].type \in Types
      BY <2>2, TypesTyped, Zenon
    <3>3. TypeLine(l, ext) <=> \E j \in 1..n : types[j].ext = ext
      BY <2>2, <3>2, Zenon DEF TypeLine, Range
    <3> HIDE DEF types, n, s, t, l
    <3>4. TypesTo(s, types, G, ext, n)
      BY <1>2, <3>1, <3>2, LineTypes, Zenon
    <3>5. ASSUME NEW k \in 1..n, types[k].ext = ext, \A j \in 1..(k - 1) : types[j].ext # ext
          PROVE  FirstType(types, ext, k)
      <4>1. \A j \in 1..n : j < k => j \in 1..(k - 1)
        BY <3>2
      <4> QED BY <3>2, <3>5, <4>1, Zenon DEF FirstType
    <3> QED BY <3>1, <3>3, <3>4, <3>5, Zenon DEF TypesTo
  <2> QED BY <2>1, <2>2
<1>5. CASE HashFind(s, ext) = <<>> /\ \A k \in 1..(i - 1) : ~TypeLine(f[k], ext)
  <2>1. CASE HashFind(t, ext) = <<>> /\ ~TypeLine(l, ext)
    <3>1. \A k \in 1..i : ~TypeLine(f[k], ext)
      BY <1>1, <1>5, <2>1, Zenon
    <3> QED BY <1>4, <2>1, <3>1, Zenon DEF TypedTo
  <2>2. CASE /\ TypeLine(l, ext)
             /\ \E e : FirstType(types, ext, e) /\ HashFind(t, ext) = <<Entry(ext, types[e].type)>>
    BY <1>1, <1>4, <1>5, <2>2, Zenon DEF TypedTo
  <2> QED BY <1>4, <1>5, <2>1, <2>2, Zenon
<1>6. CASE \E k \in 1..(i - 1) :
             /\ TypeLine(f[k], ext) /\ \A j \in 1..(k - 1) : ~TypeLine(f[j], ext)
             /\ \E e : /\ FirstType(TypesOf(f[k]), ext, e)
                       /\ HashFind(s, ext) = <<Entry(ext, TypesOf(f[k])[e].type)>>
  <2>1. HashFind(s, ext) # <<>>
    BY <1>6, Singles, Zenon
  <2>2. t \in MimeTable /\ HashFind(t, ext) = HashFind(s, ext)
    BY <1>4, <2>1, Zenon
  <2> QED BY <1>1, <1>6, <2>2, Zenon DEF TypedTo
<1> QED BY <1>5, <1>6, Zenon DEF TypedTo

EntriesOf(ext, given) == [i \in DOMAIN given |-> [key |-> ext, value |-> given[i].type]]

LEMMA EntriesOfOne ==
  ASSUME NEW ext
  PROVE  (\A x : EntriesOf(ext, <<x>>) = <<Entry(ext, x.type)>>) /\ EntriesOf(ext, <<>>) = <<>>
BY DEF EntriesOf, Entry

TypesIn(lines) == IF lines = <<>> THEN <<>> ELSE TypesOf(Head(lines))
WithExt(types, ext) == {e \in Range(types) : e.ext = ext}

TypesGiven(f, ext) == TypesIn(FirstOf(f, TypeLinesFor(f, ext)))
GivenIn(f, ext) == FirstOf(TypesGiven(f, ext), WithExt(TypesGiven(f, ext), ext))

LEMMA FileTypes ==
  ASSUME NEW f \in Files, NEW M, MimeRun(f, M), NEW ext \in DOMAIN Hash
  PROVE  HashFind(M[Len(f)], ext) = EntriesOf(ext, GivenIn(f, ext))
<1> DEFINE lines == FirstOf(f, TypeLinesFor(f, ext))
           types == TypesGiven(f, ext)
           given == GivenIn(f, ext)
<1>0. types = TypesIn(lines)
  BY Zenon DEF TypesGiven
<1>1. f \in Seq(Range(f))
  BY LinesOK, Zenon
<1>2. Len(f) \in Nat /\ DOMAIN f = 1..Len(f) /\ Len(f) \in 0..Len(f) /\ 0 \in 0..Len(f) /\ \A k \in 1..0 : FALSE
  BY <1>1
<1> DEFINE P == {i \in 0..Len(f) : TypedTo(f, M, ext, i)}
           K == TypeLinesFor(f, ext)
           L == WithExt(types, ext)
<1>3. 0 \in P
  <2>1. M[0] = EmptyTable
    BY Zenon DEF MimeRun
  <2>2. TypedTo(f, M, ext, 0)
    BY <1>2, <2>1, EmptyMime, Zenon DEF TypedTo
  <2> QED BY <1>2, <2>2, Zenon
<1>4. ASSUME NEW i \in 1..Len(f), i - 1 \in P PROVE i \in P
  <2>1. TypedTo(f, M, ext, i)
    BY <1>2, <1>4, TypedLine, Zenon
  <2>2. i \in 0..Len(f)
    BY <1>2
  <2> QED BY <2>1, <2>2, Zenon
<1> HIDE DEF P
<1>5. \A i \in 0..Len(f) : i \in P
  BY <1>2, <1>3, <1>4, Lines, Zenon
<1>6. TypedTo(f, M, ext, Len(f))
  BY <1>2, <1>5, Zenon DEF P
<1>7. \A i \in DOMAIN f : f[i] \in K <=> TypeLine(f[i], ext)
  BY Zenon DEF TypeLine, TypeLinesFor, Range
<1>8. lines = FirstOf(f, K) /\ given = FirstOf(types, L)
  BY Zenon DEF GivenIn
<1>9. \A i \in DOMAIN types : types[i] \in L <=> types[i].ext = ext
  BY Zenon DEF WithExt, Range
<1> HIDE DEF K, L, lines, types, given
<1>10. CASE HashFind(M[Len(f)], ext) = <<>> /\ \A k \in 1..Len(f) : ~TypeLine(f[k], ext)
  <2>1. \A i \in DOMAIN f : f[i] \notin K
    BY <1>2, <1>7, <1>10, Zenon
  <2>2. lines = <<>>
    BY <1>1, <1>8, <2>1, FirstOfNone, Zenon
  <2>3. types = <<>>
    BY <1>0, <2>2, Zenon DEF TypesIn
  <2>4. <<>> \in Seq(Entries) /\ \A j \in DOMAIN <<>> : FALSE
    OBVIOUS
  <2>5. FirstOf(<<>>, L) = <<>>
    BY <2>4, FirstOfNone, Zenon
  <2>6. given = <<>>
    BY <1>8, <2>3, <2>5, Zenon
  <2> QED BY <1>10, <2>6, EntriesOfOne, Zenon DEF given
<1>11. CASE \E k \in 1..Len(f) :
              /\ TypeLine(f[k], ext) /\ \A j \in 1..(k - 1) : ~TypeLine(f[j], ext)
              /\ \E e : /\ FirstType(TypesOf(f[k]), ext, e)
                        /\ HashFind(M[Len(f)], ext) = <<Entry(ext, TypesOf(f[k])[e].type)>>
  <2>1. PICK k \in 1..Len(f) :
              /\ TypeLine(f[k], ext) /\ \A j \in 1..(k - 1) : ~TypeLine(f[j], ext)
              /\ \E e : /\ FirstType(TypesOf(f[k]), ext, e)
                        /\ HashFind(M[Len(f)], ext) = <<Entry(ext, TypesOf(f[k])[e].type)>>
    BY <1>11
  <2>2. PICK e : /\ FirstType(TypesOf(f[k]), ext, e)
                 /\ HashFind(M[Len(f)], ext) = <<Entry(ext, TypesOf(f[k])[e].type)>>
    BY <2>1
  <2>3. k \in DOMAIN f /\ f[k] \in K /\ f[k].key \in TypeKeys
    BY <1>2, <1>7, <2>1, Zenon DEF TypeLine
  <2>4. \A j \in DOMAIN f : j < k => j \in 1..(k - 1)
    BY <1>2
  <2>5. \A j \in DOMAIN f : j < k => f[j] \notin K
    BY <1>7, <2>1, <2>4, Zenon
  <2>6. lines = <<f[k]>>
    BY <1>1, <1>8, <2>3, <2>5, FirstOfAt, Zenon
  <2>7. \A x : Head(<<x>>) = x
    OBVIOUS
  <2>8. types = TypesOf(f[k])
    BY <1>0, <2>6, <2>7, Singles, Zenon DEF TypesIn
  <2>9. types \in Seq(Range(types))
    BY <2>3, <2>8, TypesTyped, Zenon
  <2>10. e \in DOMAIN types /\ types[e] \in L /\ \A j \in DOMAIN types : j < e => types[j] \notin L
    BY <1>9, <2>2, <2>8, Zenon DEF FirstType
  <2>11. given = <<types[e]>>
    BY <1>8, <2>9, <2>10, FirstOfAt, Zenon
  <2> QED BY <2>2, <2>8, <2>11, EntriesOfOne, Zenon DEF given
<1> QED BY <1>6, <1>10, <1>11, Zenon DEF TypedTo, given

\* A file's type is the first that the file last read gives its extension, for
\* every hash and every sequence of reloads; an AddType line gives one to the
\* rest of the line as a single extension (config.c's c_add_mime_type and
\* c_add_mime_types_file, hash.c's hash_insert, dump_mime on SIGHUP).
THEOREM FirstTypeFound == Spec => []FirstTypeWins
<1>1. ASSUME IInv, TablesInv PROVE FirstTypeWins
  <2> SUFFICES ASSUME server.up, NEW ext \in DOMAIN Hash
               PROVE  LET lines == TypeLines(ext)
                          types == IF lines = <<>> THEN <<>> ELSE TypesOf(Head(lines))
                          given == FirstOf(types, {e \in Range(types) : e.ext = ext})
                      IN HashFind(server.mime, ext)
                           = [i \in DOMAIN given |-> [key |-> ext, value |-> given[i].type]]
    BY Zenon DEF FirstTypeWins
  <2> DEFINE lines == TypeLines(ext)
             types == IF lines = <<>> THEN <<>> ELSE TypesOf(Head(lines))
             given == FirstOf(types, {e \in Range(types) : e.ext = ext})
  <2>1. loaded \in Files
    BY <1>1, Zenon DEF IInv, ServerInv
  <2>2. PICK M : MimeRun(loaded, M) /\ server.mime = M[Len(loaded)]
    BY <1>1, Zenon DEF TablesInv, FromFile
  <2>3. given = GivenIn(loaded, ext)
    BY Zenon DEF TypeLines, TypeLinesFor, TypesIn, TypesGiven, WithExt, GivenIn
  <2> HIDE DEF given
  <2>4. HashFind(M[Len(loaded)], ext) = EntriesOf(ext, given)
    BY <2>1, <2>2, <2>3, FileTypes, Zenon
  <2> QED BY <2>2, <2>4, Zenon DEF given, EntriesOf
<1> QED BY <1>1, Inductive, TablesInductive, PTL
=============================================================================
