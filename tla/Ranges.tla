----------------------------- MODULE Ranges -----------------------------
(***************************************************************************)
(* range.c: a request's Range headers, read character by character into a  *)
(* list of ranges before the file is known (range_parse), and the list     *)
(* fitted to the file in init_get (ranges_fixup).  Numbers are unsigned    *)
(* long and wrap; "not given" is the largest of them.  The pool the list   *)
(* nodes come from is left out.                                            *)
(***************************************************************************)
EXTENDS Integers, Sequences, SequencesExt, Lists

CONSTANTS
  LongMod,   \* one more than ULONG_MAX
  UIntMax,   \* (unsigned) -1, smaller than ULONG_MAX where long is wider
  Digits,    \* the digits clients use
  Sizes,     \* the sizes of files
  MaxChars   \* bound on the characters of a request's Range headers

ASSUME RangesAssumption ==
  /\ LongMod \in Nat \ {0} /\ UIntMax \in 1..(LongMod - 1)
  /\ Digits \subseteq 0..9
  /\ Sizes \subseteq {n \in Nat : n > 0 /\ 2 * n < LongMod}
  /\ MaxChars \in Nat

VARIABLES
  phase,      \* "headers", "parsing", then "invalid" (416) or "fixed"
  mode,       \* the state of range_parse's automaton
  start, stop,
  ranges,     \* req->ranges
  numranges,  \* req->numranges
  filesize,   \* req->filesize, 0 until the file is open
  left,       \* characters that may still come
  first, last,\* ghost: the numbers being read, as written; -1 not given
  said,       \* ghost: the ranges read so far, as written
  skipped     \* ghost: a Range header was passed over

vars == <<phase, mode, start, stop, ranges, numranges, filesize, left, first,
          last, said, skipped>>

NotGiven == LongMod - 1

IntMax == UIntMax \div 2

Init ==
  /\ phase = "headers" /\ mode = "initial"
  /\ start = 0 /\ stop = 0 /\ ranges = <<>> /\ numranges = 0
  /\ filesize = 0 /\ left = MaxChars
  /\ first = 0 /\ last = 0 /\ said = <<>> /\ skipped = FALSE
-----------------------------------------------------------------------------
\* The columns of stable other than digit.
Codes == {"white", "comma", "hyphen", "null", "other"}

\* stable: what to do with start or stop, whether to submit (SR) or abort (AR)
\* the range, and the next state.  Where no row is named the range is aborted.
Stable(m, code) ==
  CASE m = "initial" /\ code = "digit" -> <<"PB", "", "startnum">>
    [] m = "initial" /\ code \in {"white", "comma", "null"} -> <<"", "", "initial">>
    [] m = "initial" /\ code = "hyphen" -> <<"DB", "", "gap2">>
    [] m = "startnum" /\ code = "digit" -> <<"PB", "", "startnum">>
    [] m \in {"startnum", "gap1"} /\ code = "white" -> <<"", "", "gap1">>
    [] m \in {"startnum", "gap1"} /\ code = "hyphen" -> <<"", "", "gap2">>
    [] m \in {"gap2", "stopnum"} /\ code = "digit" -> <<"PE", "", "stopnum">>
    [] m = "gap2" /\ code = "white" -> <<"", "", "gap2">>
    [] m = "gap2" /\ code \in {"comma", "null"} -> <<"DE", "SR", "initial">>
    [] m = "stopnum" /\ code \in {"white", "comma", "null"} -> <<"", "SR", "initial">>
    [] OTHER -> <<"", "AR", "initial">>

\* Both numbers are the marker for "not given", which is compared as an int.
Neither(a, b) == a = b /\ a = UIntMax

\* Mutant: stop keeps its value for the next range.
NextStop_Kept(b) == b

\* start and stop begin again at 0 once a range is submitted.
NextStop(b) == 0

range_add(list, a, b) == Append(list, [start |-> a, stop |-> b])

\* What range_abort leaves: all ranges dropped and a mark in their place.
Aborted == <<[start |-> 0, stop |-> NotGiven]>>

\* Mutant: the number is kept in a wider type.
Push_Wide(n, d) == n * 10 + d

\* PB and PE: one more digit, in an unsigned long.
Push(n, d) == (n * 10 + d) % LongMod

\* range_parse, one character: its column of stable and, for a digit, d.  An
\* aborted range ends the request with 416.
Parse(code, d) ==
  LET f == Stable(mode, code)
      a == CASE f[1] = "PB" -> Push(start, d)
             [] f[1] = "DB" -> NotGiven
             [] OTHER -> start
      b == CASE f[1] = "PE" -> Push(stop, d)
             [] f[1] = "DE" -> NotGiven
             [] OTHER -> stop
      x == CASE f[1] = "PB" -> first * 10 + d [] f[1] = "DB" -> -1 [] OTHER -> first
      y == CASE f[1] = "PE" -> last * 10 + d [] f[1] = "DE" -> -1 [] OTHER -> last
      submit == f[2] = "SR" /\ ~Neither(a, b)
      abort == f[2] = "AR" \/ (f[2] = "SR" /\ Neither(a, b))
  IN /\ phase = "parsing"
     /\ left > 0 \/ code = "null"
     /\ left' = IF code = "null" THEN left ELSE left - 1
     /\ mode' = f[3]
     /\ ranges' = IF submit THEN range_add(ranges, a, b)
                  ELSE IF abort THEN Aborted ELSE ranges
     /\ numranges' = IF submit THEN numranges + 1 ELSE numranges
     /\ said' = IF f[2] = "SR" THEN Append(said, [first |-> x, last |-> y]) ELSE said
     /\ start' = IF submit THEN 0 ELSE a
     /\ stop' = IF submit THEN NextStop(b) ELSE b
     /\ first' = IF submit THEN 0 ELSE x
     /\ last' = IF submit THEN 0 ELSE y
     /\ phase' = IF abort THEN "invalid"
                 ELSE IF code = "null" THEN "headers" ELSE "parsing"
     /\ UNCHANGED <<filesize, skipped>>

\* "there was an error parsing, ignore": the test of process_option_line.
SeemsAborted == ranges # <<>> /\ ranges[1].stop = IntMax

\* A Range header, the first or a further one: its ranges join the list.  One
\* that does not begin with "bytes=" is answered with 416.
Header ==
  /\ phase = "headers" /\ left > 0 /\ ~SeemsAborted
  /\ phase' \in {"parsing", "invalid"}
  /\ start' = 0 /\ stop' = 0 /\ first' = 0 /\ last' = 0
  /\ UNCHANGED <<mode, ranges, numranges, filesize, left, said, skipped>>

HeaderIgnored ==
  /\ phase = "headers" /\ left > 0 /\ SeemsAborted
  /\ skipped' = TRUE
  /\ UNCHANGED <<phase, mode, start, stop, ranges, numranges, filesize, left,
                 first, last, said>>

\* Mutant: only a missing stop is replaced.
TooBig_Missing(b, size) == b = UIntMax \/ b = NotGiven

TooBig(b, size) == b = UIntMax \/ b >= size

\* ranges_fixup of one range: a stop that is missing or too big is the last
\* byte; a missing start makes stop a number of bytes from the end.
Fixed(r, size) ==
  LET b == IF TooBig(r.stop, size) THEN size - 1 ELSE r.stop
  IN IF r.start = NotGiven THEN [start |-> (size - b) % LongMod, stop |-> size - 1]
     ELSE [start |-> r.start, stop |-> b]

\* A range is dropped when its start is negative as a long or past its stop.
Valid(r) == 2 * r.start < LongMod /\ r.start <= r.stop

\* init_get: without a Range header the whole file; else the list is fixed
\* and, when nothing is left of it, the answer is 416.
Fixup(size) ==
  LET whole == <<[start |-> 0, stop |-> NotGiven]>>
      list == IF ranges = <<>> THEN whole ELSE ranges
      fixed == [i \in DOMAIN list |-> Fixed(list[i], size)]
      kept == Filter(fixed, {r \in ToSet(fixed) : Valid(r)})
  IN /\ phase = "headers"
     /\ filesize' = size
     /\ ranges' = kept
     /\ phase' = IF kept = <<>> THEN "invalid" ELSE "fixed"
     /\ UNCHANGED <<mode, start, stop, numranges, left, first, last, said,
                    skipped>>

Answered == phase \in {"invalid", "fixed"} /\ UNCHANGED vars

Next ==
  \/ Header
  \/ HeaderIgnored
  \/ \E d \in Digits : Parse("digit", d)
  \/ \E code \in Codes : Parse(code, 0)
  \/ \E size \in Sizes : Fixup(size)
  \/ Answered

Spec == Init /\ [][Next]_vars
-----------------------------------------------------------------------------
\* The automaton's state, and numbers of an unsigned long's width.
TypeOK ==
  /\ phase \in {"headers", "parsing", "invalid", "fixed"}
  /\ mode \in {"initial", "startnum", "gap1", "gap2", "stopnum"}
  /\ start \in 0..NotGiven /\ stop \in 0..NotGiven
  /\ ranges \in Seq([start : 0..NotGiven, stop : 0..NotGiven])
  /\ numranges \in 0..MaxChars /\ filesize \in Sizes \cup {0}
  /\ skipped \in BOOLEAN

\* range.c: "r->stop and r->start are now both guaranteed < req->filesize", and
\* in order, whatever was written and however the numbers wrapped: process_get
\* and sendfile read only the file.
InsideFile ==
  phase = "fixed" =>
    \A i \in DOMAIN ranges : ranges[i].start <= ranges[i].stop /\ ranges[i].stop < filesize

\* RFC 2616 section 14.35.1: a range whose last byte is before its first is
\* invalid, and the header that includes it is to be ignored.
Reversed(s) == s.first # -1 /\ s.last # -1 /\ s.last < s.first

\* What a range as written asks of a file, by the same section.
Asked(s, size) ==
  LET tail == IF s.last > size THEN size ELSE s.last
      end == IF s.last = -1 \/ s.last >= size THEN size - 1 ELSE s.last
  IN IF s.first = -1 THEN [start |-> size - tail, stop |-> size - 1]
     ELSE [start |-> s.first, stop |-> end]

\* A range without the cases in which the representation shows: a number that
\* does not fit, the marker's value written out, a suffix that covers the
\* file, and no number at all; and that is not reversed, of which ranges_fixup
\* drops only the range itself (range.c:191).
Plain(s, size) ==
  /\ ~Reversed(s)
  /\ s.first < LongMod - 1 /\ s.last < LongMod - 1
  /\ s.last # UIntMax
  /\ s.first = -1 => s.last # -1 /\ s.last < size

Satisfiable(asked) == Filter(asked, {r \in ToSet(asked) : r.start <= r.stop})

WholeFile == <<[start |-> 0, stop |-> filesize - 1]>>

\* Of headers with plain ranges only, the client is sent, in its order, the
\* ranges it asked for that the file can satisfy, those of several Range headers
\* together, and the whole file when it asked for none, unless a header was
\* passed over.
SendsWhatIsAsked ==
  phase = "fixed" /\ ~skipped /\ (\A i \in DOMAIN said : Plain(said[i], filesize)) =>
    ranges = IF said = <<>> THEN WholeFile
             ELSE Satisfiable([i \in DOMAIN said |-> Asked(said[i], filesize)])
=============================================================================
