--------------------------- MODULE MmapCache ---------------------------
(***************************************************************************)
(* mmap_cache.c: the table of mapped files that requests share.  find_mmap *)
(* probes linearly from a hash of the inode and counts users; release_mmap *)
(* drops a user and unmaps with the last.  Requests find on init_get and   *)
(* release in free_request, in any order.                                  *)
(***************************************************************************)
EXTENDS Naturals, FiniteSets

CONSTANTS
  Req,       \* requests that may hold an entry
  File,      \* what stat tells of the files: st_ino and st_size (st_dev is
             \* compared like st_size and not hashed)
  ListSize,  \* MMAP_LIST_SIZE, a power of two: the mask of the hash is a remainder
  UseMax     \* MMAP_LIST_USE_MAX

ASSUME CacheAssumption ==
  /\ IsFiniteSet(Req)
  /\ File \subseteq [ino : Nat, len : Nat]
  /\ ListSize \in Nat \ {0}
  /\ UseMax \in Nat

VARIABLES
  use_count,    \* of each entry of mmap_list
  entry,        \* dev/ino/len of each entry, stale once use_count is 0
  entries_used, \* mmap_list_entries_used
  held,         \* mmap_entry_var of a request: a set of at most one index
  file          \* the file a request serves, {} when it serves none

vars == <<use_count, entry, entries_used, held, file>>

Slot == 0..(ListSize - 1)

Init ==
  /\ use_count = [i \in Slot |-> 0]
  /\ entry = [i \in Slot |-> [ino |-> 0, len |-> 0]]
  /\ entries_used = 0
  /\ held = [r \in Req |-> {}]
  /\ file = [r \in Req |-> {}]
-----------------------------------------------------------------------------
\* MMAP_LIST_HASH and k times MMAP_LIST_NEXT.
Probe(f, k) == (f.ino + k) % ListSize

\* Mutant: st_size is not compared.
Stops_IgnoresSize(f, k) ==
  use_count[Probe(f, k)] = 0 \/ entry[Probe(f, k)].ino = f.ino

\* The probe stops at slot number k: free, or in use for this very file.
Stops(f, k) == use_count[Probe(f, k)] = 0 \/ entry[Probe(f, k)] = f

\* i is where find_mmap's loop ends: the first stop of the probe.
EndsAt(f, i) ==
  \E k \in Slot : /\ i = Probe(f, k)
                  /\ Stops(f, k)
                  /\ \A j \in Slot : j < k => ~Stops(f, j)

\* The loop came around to where it started.
TableFull(f) == \A k \in Slot : ~Stops(f, k)

\* Mutant: a user that joins is not counted.
Joined_Uncounted(i) == use_count

Joined(i) == [use_count EXCEPT ![i] = @ + 1]

\* init_get asks for a mapping and the entry is in use: share it.
FindOld(r, f) ==
  /\ file[r] = {}
  /\ \E i \in Slot :
       /\ EndsAt(f, i)
       /\ use_count[i] > 0
       /\ use_count' = Joined(i)
       /\ held' = [held EXCEPT ![r] = {i}]
  /\ file' = [file EXCEPT ![r] = {f}]
  /\ UNCHANGED <<entry, entries_used>>

\* Mutant: the limit is not enforced.
Admits_Always == TRUE

\* A free slot, and the size limit still allows a new entry.
Admits == entries_used <= UseMax

FindNew(r, f) ==
  /\ file[r] = {}
  /\ Admits
  /\ \E i \in Slot :
       /\ EndsAt(f, i)
       /\ use_count[i] = 0
       /\ use_count' = [use_count EXCEPT ![i] = 1]
       /\ entry' = [entry EXCEPT ![i] = f]
       /\ held' = [held EXCEPT ![r] = {i}]
  /\ entries_used' = entries_used + 1
  /\ file' = [file EXCEPT ![r] = {f}]

\* find_mmap returns NULL: no slot, too many entries, or mmap or madvise
\* failed for a free slot.  The request reads the file instead (IOSHUFFLE).
FindNone(r, f) ==
  /\ file[r] = {}
  /\ TableFull(f) \/ \E i \in Slot : EndsAt(f, i) /\ use_count[i] = 0
  /\ file' = [file EXCEPT ![r] = {f}]
  /\ UNCHANGED <<use_count, entry, entries_used, held>>

LastUser(i) == use_count[i] = 1

\* free_request, with release_mmap if the request holds an entry.
Release(r) ==
  /\ file[r] # {}
  /\ IF held[r] = {} THEN UNCHANGED <<use_count, entries_used>>
     ELSE \E i \in held[r] :
            IF use_count[i] = 0 THEN UNCHANGED <<use_count, entries_used>>
            ELSE /\ use_count' = [use_count EXCEPT ![i] = @ - 1]
                 /\ entries_used' = IF LastUser(i) THEN entries_used - 1
                                    ELSE entries_used
  /\ held' = [held EXCEPT ![r] = {}]
  /\ file' = [file EXCEPT ![r] = {}]
  /\ UNCHANGED entry

Next ==
  \E r \in Req :
    \/ \E f \in File : FindOld(r, f)
    \/ \E f \in File : FindNew(r, f)
    \/ \E f \in File : FindNone(r, f)
    \/ Release(r)

Spec == Init /\ [][Next]_vars
-----------------------------------------------------------------------------
\* The table's types; in particular no count is decremented below zero.
TypeOK ==
  /\ use_count \in [Slot -> Nat]
  /\ entry \in [Slot -> [ino : Nat, len : Nat]]
  /\ entries_used \in Nat
  /\ held \in [Req -> SUBSET Slot]
  /\ file \in [Req -> SUBSET File]

Holders(i) == {r \in Req : held[r] = {i}}
Used == {i \in Slot : use_count[i] > 0}

\* A mapping is unmapped when, and not before, its last user is done: every
\* use count is the number of requests that hold the entry.
CountsHolders == \A i \in Slot : use_count[i] = Cardinality(Holders(i))

\* entries_used, which find_mmap's limit reads, counts the entries in use and
\* stays within one of the limit.
CountsEntries ==
  /\ entries_used = Cardinality(Used)
  /\ entries_used <= UseMax + 1

\* No entry is given to another file while a request serves from it.
HoldsItsFile ==
  \A r \in Req : \A i \in held[r] : file[r] = {entry[i]}
=============================================================================
