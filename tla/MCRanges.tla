---------------------------- MODULE MCRanges ----------------------------
(* Instances of Ranges for TLC: 5-bit longs and 3-bit ints, so that numbers *)
(* of two and three digits wrap, and files below and above the int marker.  *)
EXTENDS Ranges
=============================================================================
