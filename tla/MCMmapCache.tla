---------------------------- MODULE MCMmapCache ----------------------------
(* Instances of MmapCache for TLC. *)
EXTENDS MmapCache, TLC

\* Two inodes that collide in a table of four, one of them in two sizes, and
\* one that does not collide.
MCFile == {[ino |-> 1, len |-> 1], [ino |-> 1, len |-> 2],
           [ino |-> 5, len |-> 1], [ino |-> 2, len |-> 1]}

ReqSymmetry == Permutations(Req)
=============================================================================
