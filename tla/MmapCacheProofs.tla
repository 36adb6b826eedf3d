------------------------ MODULE MmapCacheProofs ------------------------
(***************************************************************************)
(* Proofs about MmapCache for any number of requests and files, any table  *)
(* size and any limit: use counts count, the limit holds to within one,    *)
(* and no entry changes hands under a request that serves from it.         *)
(***************************************************************************)
EXTENDS MmapCache, FiniteSetTheorems, TLAPS

\* A request holds at most one entry, and none unless it serves a file.
OneEach ==
  \A r \in Req : /\ held[r] = {} \/ \E i \in Slot : held[r] = {i}
                 /\ file[r] = {} => held[r] = {}

IInv == TypeOK /\ OneEach /\ CountsHolders /\ CountsEntries /\ HoldsItsFile

LEMMA SlotFinite == IsFiniteSet(Slot) /\ IsFiniteSet(Used)
<1>1. IsFiniteSet(Slot)
  BY CacheAssumption, FS_Interval DEF Slot
<1> QED BY <1>1, FS_Subset DEF Used

LEMMA HoldersFinite == \A i : IsFiniteSet(Holders(i))
BY CacheAssumption, FS_Subset DEF Holders

LEMMA InitOK == Init => IInv
<1> SUFFICES ASSUME Init PROVE IInv OBVIOUS
<1>1. TypeOK /\ OneEach /\ HoldsItsFile
  BY CacheAssumption DEF Init, TypeOK, OneEach, HoldsItsFile, Slot
<1>2. \A i \in Slot : Holders(i) = {}
  BY DEF Init, Holders
<1>3. CountsHolders
  BY <1>2, FS_EmptySet DEF Init, CountsHolders
<1>4. Used = {}
  BY DEF Init, Used
<1>5. CountsEntries
  BY <1>4, FS_EmptySet, CacheAssumption DEF Init, CountsEntries
<1> QED BY <1>1, <1>3, <1>5 DEF IInv

\* A request that had no entry takes slot i: it joins the holders of i and of
\* no other slot.
LEMMA HoldersTake ==
  ASSUME TypeOK, NEW r \in Req, held[r] = {}, NEW i \in Slot,
         held' = [held EXCEPT ![r] = {i}]
  PROVE  /\ Holders(i)' = Holders(i) \cup {r} /\ r \notin Holders(i)
         /\ Cardinality(Holders(i)') = Cardinality(Holders(i)) + 1
         /\ \A j \in Slot : j # i => Holders(j)' = Holders(j)
<1>1. Holders(i)' = Holders(i) \cup {r} /\ r \notin Holders(i)
  BY DEF TypeOK, Holders
<1>2. \A j \in Slot : j # i => Holders(j)' = Holders(j)
  BY DEF TypeOK, Holders
<1>3. Cardinality(Holders(i)') = Cardinality(Holders(i)) + 1
  BY <1>1, HoldersFinite, FS_AddElement
<1> QED BY <1>1, <1>2, <1>3

LEMMA FindOldOK ==
  ASSUME IInv, NEW r \in Req, NEW f \in File, FindOld(r, f)
  PROVE  IInv'
<1>1. PICK i \in Slot : /\ EndsAt(f, i) /\ use_count[i] > 0
                        /\ use_count' = [use_count EXCEPT ![i] = @ + 1]
                        /\ held' = [held EXCEPT ![r] = {i}]
  BY DEF FindOld, Joined
<1>2. /\ file[r] = {} /\ file' = [file EXCEPT ![r] = {f}]
      /\ UNCHANGED <<entry, entries_used>>
  BY DEF FindOld
<1>3. held[r] = {}
  BY <1>2 DEF IInv, OneEach
<1>4. entry[i] = f
  BY <1>1 DEF EndsAt, Stops
<1>5. TypeOK'
  BY <1>1, <1>2 DEF IInv, TypeOK
<1>6. OneEach'
  BY <1>1, <1>2 DEF IInv, TypeOK, OneEach
<1>7. CountsHolders'
  <2>1. TypeOK /\ use_count[i] = Cardinality(Holders(i))
    BY DEF IInv, CountsHolders
  <2>2. use_count'[i] = Cardinality(Holders(i)')
    BY <1>1, <1>3, <2>1, HoldersTake DEF TypeOK
  <2>3. \A j \in Slot : j # i => use_count'[j] = Cardinality(Holders(j)')
    BY <1>1, <1>3, <2>1, HoldersTake DEF IInv, CountsHolders, TypeOK
  <2> QED BY <2>2, <2>3 DEF CountsHolders
<1>8. Used' = Used
  BY <1>1 DEF IInv, TypeOK, Used
<1>9. CountsEntries'
  BY <1>2, <1>8 DEF IInv, CountsEntries
<1>10. HoldsItsFile'
  BY <1>1, <1>2, <1>4 DEF IInv, TypeOK, HoldsItsFile
<1> QED BY <1>5, <1>6, <1>7, <1>9, <1>10 DEF IInv

LEMMA FindNewOK ==
  ASSUME IInv, NEW r \in Req, NEW f \in File, FindNew(r, f)
  PROVE  IInv'
<1>1. PICK i \in Slot : /\ use_count[i] = 0
                        /\ use_count' = [use_count EXCEPT ![i] = 1]
                        /\ entry' = [entry EXCEPT ![i] = f]
                        /\ held' = [held EXCEPT ![r] = {i}]
  BY DEF FindNew
<1>2. /\ file[r] = {} /\ file' = [file EXCEPT ![r] = {f}]
      /\ entries_used <= UseMax /\ entries_used' = entries_used + 1
  BY DEF FindNew, Admits
<1>3. held[r] = {}
  BY <1>2 DEF IInv, OneEach
<1>4. Holders(i) = {}
  BY <1>1, HoldersFinite, FS_EmptySet DEF IInv, CountsHolders
<1>5. TypeOK'
  BY <1>1, <1>2, CacheAssumption DEF IInv, TypeOK
<1>6. OneEach'
  BY <1>1, <1>2 DEF IInv, TypeOK, OneEach
<1>7. CountsHolders'
  <2>1. TypeOK /\ Cardinality(Holders(i)) = 0
    BY <1>4, FS_EmptySet DEF IInv
  <2>2. Cardinality(Holders(i)') = 1 /\ use_count'[i] = 1
    <3>1. Cardinality(Holders(i)') = Cardinality(Holders(i)) + 1
      BY <1>1, <1>3, <2>1, HoldersTake
    <3> QED BY <1>1, <2>1, <3>1 DEF TypeOK
  <2>3. \A j \in Slot : j # i => use_count'[j] = Cardinality(Holders(j)')
    BY <1>1, <1>3, <2>1, HoldersTake DEF IInv, CountsHolders, TypeOK
  <2> QED BY <2>2, <2>3 DEF CountsHolders
<1>8. Used' = Used \cup {i} /\ i \notin Used
  BY <1>1 DEF IInv, TypeOK, Used
<1>9. CountsEntries'
  <2>1. Cardinality(Used') = Cardinality(Used) + 1
    BY <1>8, SlotFinite, FS_AddElement
  <2> QED BY <1>2, <2>1, CacheAssumption DEF IInv, TypeOK, CountsEntries
<1>10. HoldsItsFile'
  <2>1. \A q \in Req : q # r => held'[q] = held[q] /\ file'[q] = file[q]
    BY <1>1, <1>2 DEF IInv, TypeOK
  <2>2. \A q \in Req : i \notin held[q]
    BY <1>4 DEF IInv, OneEach, Holders
  <2>3. \A q \in Req : q # r => \A j \in held'[q] : file'[q] = {entry'[j]}
    BY <1>1, <2>1, <2>2 DEF IInv, TypeOK, HoldsItsFile
  <2>4. \A j \in held'[r] : file'[r] = {entry'[j]}
    BY <1>1, <1>2 DEF IInv, TypeOK
  <2> QED BY <2>3, <2>4 DEF HoldsItsFile
<1> QED BY <1>5, <1>6, <1>7, <1>9, <1>10 DEF IInv

LEMMA FindNoneOK ==
  ASSUME IInv, NEW r \in Req, NEW f \in File, FindNone(r, f)
  PROVE  IInv'
<1>1. /\ file[r] = {} /\ file' = [file EXCEPT ![r] = {f}]
      /\ UNCHANGED <<use_count, entry, entries_used, held>>
  BY DEF FindNone
<1>2. TypeOK'
  BY <1>1 DEF IInv, TypeOK
<1>3. OneEach' /\ HoldsItsFile'
  BY <1>1 DEF IInv, TypeOK, OneEach, HoldsItsFile
<1>4. CountsHolders' /\ CountsEntries'
  BY <1>1 DEF IInv, CountsHolders, CountsEntries, Holders, Used
<1> QED BY <1>2, <1>3, <1>4 DEF IInv

LEMMA ReleaseOK ==
  ASSUME IInv, NEW r \in Req, Release(r)
  PROVE  IInv'
<1>1. /\ held' = [held EXCEPT ![r] = {}] /\ file' = [file EXCEPT ![r] = {}]
      /\ UNCHANGED entry
  BY DEF Release
<1>2. OneEach' /\ HoldsItsFile'
  BY <1>1 DEF IInv, TypeOK, OneEach, HoldsItsFile
<1>3. CASE held[r] = {}
  <2>1. UNCHANGED <<use_count, entries_used>> /\ held' = held
    BY <1>1, <1>3 DEF Release, IInv, TypeOK
  <2>2. TypeOK'
    BY <1>1, <2>1 DEF IInv, TypeOK
  <2>3. CountsHolders' /\ CountsEntries'
    BY <2>1 DEF IInv, CountsHolders, CountsEntries, Holders, Used
  <2> QED BY <1>2, <2>2, <2>3 DEF IInv
<1>4. ASSUME NEW i \in Slot, held[r] = {i}
      PROVE  IInv'
  <2>1. Holders(i)' = Holders(i) \ {r} /\ r \in Holders(i)
    BY <1>1, <1>4 DEF IInv, TypeOK, Holders
  <2>2. \A j \in Slot : j # i => Holders(j)' = Holders(j)
    BY <1>1, <1>4 DEF IInv, TypeOK, Holders
  <2>3. Cardinality(Holders(i)') = Cardinality(Holders(i)) - 1
    BY <2>1, HoldersFinite, FS_RemoveElement
  <2>4. use_count[i] = Cardinality(Holders(i)) /\ use_count[i] > 0
    <3>1. use_count[i] = Cardinality(Holders(i)) /\ use_count[i] \in Nat
      BY DEF IInv, CountsHolders, TypeOK
    <3>2. Cardinality(Holders(i)) # 0
      BY <2>1, HoldersFinite, FS_EmptySet
    <3> QED BY <3>1, <3>2
  <2>5. /\ use_count' = [use_count EXCEPT ![i] = @ - 1]
        /\ entries_used' = IF use_count[i] = 1 THEN entries_used - 1 ELSE entries_used
    BY <1>4, <2>4 DEF Release, LastUser
  <2>6. CountsHolders'
    <3>1. use_count'[i] = Cardinality(Holders(i)')
      BY <2>3, <2>4, <2>5 DEF IInv, TypeOK
    <3>2. \A j \in Slot : j # i => use_count'[j] = Cardinality(Holders(j)')
      BY <2>2, <2>5 DEF IInv, TypeOK, CountsHolders
    <3> QED BY <3>1, <3>2 DEF CountsHolders
  <2>7. CountsEntries' /\ entries_used' \in Nat
    <3>1. CASE use_count[i] = 1
      <4>1. Used' = Used \ {i} /\ i \in Used
        BY <2>5, <3>1 DEF IInv, TypeOK, Used
      <4>2. Cardinality(Used') = Cardinality(Used) - 1 /\ Cardinality(Used') \in Nat
        BY <4>1, SlotFinite, FS_RemoveElement, FS_CardinalityType
      <4> QED BY <2>5, <3>1, <4>2, CacheAssumption DEF IInv, TypeOK, CountsEntries
    <3>2. CASE use_count[i] # 1
      <4>1. Used' = Used
        BY <2>4, <2>5, <3>2 DEF IInv, TypeOK, Used
      <4> QED BY <2>5, <3>2, <4>1 DEF IInv, TypeOK, CountsEntries
    <3> QED BY <3>1, <3>2
  <2>8. TypeOK'
    BY <1>1, <2>4, <2>5, <2>7 DEF IInv, TypeOK
  <2> QED BY <1>2, <2>6, <2>7, <2>8 DEF IInv
<1> QED BY <1>3, <1>4 DEF IInv, OneEach

LEMMA NextOK == IInv /\ [Next]_vars => IInv'
<1> SUFFICES ASSUME IInv, [Next]_vars PROVE IInv' OBVIOUS
<1>1. CASE UNCHANGED vars
  <2>1. TypeOK' /\ OneEach' /\ HoldsItsFile'
    BY <1>1 DEF vars, IInv, TypeOK, OneEach, HoldsItsFile
  <2>2. CountsHolders' /\ CountsEntries'
    BY <1>1 DEF vars, IInv, CountsHolders, CountsEntries, Holders, Used
  <2> QED BY <2>1, <2>2 DEF IInv
<1>2. CASE Next
  BY <1>2, FindOldOK, FindNewOK, FindNoneOK, ReleaseOK DEF Next
<1> QED BY <1>1, <1>2

\* Every reachable state of the cache satisfies the inductive invariant.
THEOREM Invariance == Spec => []IInv
BY InitOK, NextOK, PTL DEF Spec

\* The table stays well formed, whatever its size: in particular no release
\* takes a use count or mmap_list_entries_used below zero.
THEOREM TypeCorrect == Spec => []TypeOK
<1>1. IInv => TypeOK
  BY DEF IInv
<1> QED BY <1>1, Invariance, PTL

\* A mapping stays as long as some request serves from it and is unmapped
\* with the last: the use counts of find_mmap and release_mmap are exact.
THEOREM UseCounts == Spec => []CountsHolders
<1>1. IInv => CountsHolders
  BY DEF IInv
<1> QED BY <1>1, Invariance, PTL

\* mmap_list_entries_used counts the entries in use and exceeds
\* MMAP_LIST_USE_MAX by at most one.
THEOREM EntryLimit == Spec => []CountsEntries
<1>1. IInv => CountsEntries
  BY DEF IInv
<1> QED BY <1>1, Invariance, PTL

\* No request ever serves another file's bytes: its entry is the one find_mmap
\* gave it for the file it asked for.
THEOREM EntryStable == Spec => []HoldsItsFile
<1>1. IInv => HoldsItsFile
  BY DEF IInv
<1> QED BY <1>1, Invariance, PTL
=============================================================================
