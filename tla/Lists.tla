------------------------------ MODULE Lists ------------------------------
(***************************************************************************)
(* The loops that go down a list from its head and take out what they do   *)
(* not keep: update_blocked over the block list, ranges_fixup over the     *)
(* ranges of a request.                                                    *)
(***************************************************************************)
EXTENDS Naturals, Sequences

\* What is left of s, in its order, once the elements outside K are taken out.
Filter(s, K) ==
  LET F[i \in 0..Len(s)] ==
        IF i = 0 THEN <<>>
        ELSE IF s[i] \in K THEN Append(F[i - 1], s[i]) ELSE F[i - 1]
  IN F[Len(s)]
=============================================================================
