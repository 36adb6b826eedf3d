---------------------------- MODULE MCDelivery ----------------------------
(* Instances of Delivery for TLC. *)
EXTENDS Delivery

\* One range that fits the buffer, one that needs direct writes, two ranges of
\* which the first just fills the buffer, two and three ranges in and out of
\* file order, and two that overlap.
MCRangeLists == {
  <<[start |-> 0, stop |-> 0]>>,
  <<[start |-> 0, stop |-> 4]>>,
  <<[start |-> 0, stop |-> 2], [start |-> 5, stop |-> 5]>>,
  <<[start |-> 3, stop |-> 4], [start |-> 0, stop |-> 1]>>,
  <<[start |-> 0, stop |-> 1], [start |-> 1, stop |-> 2]>>,
  <<[start |-> 0, stop |-> 3], [start |-> 5, stop |-> 5], [start |-> 7, stop |-> 8]>>}
=============================================================================
