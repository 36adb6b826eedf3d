----------------------------- MODULE MCCgiPipe -----------------------------
(* Instances of CgiPipe for TLC: what children do. *)
EXTENDS CgiPipe, TLC

Common ==
  [field |-> "plain", hlen |-> 2, len |-> 6, http09 |-> FALSE, head |-> FALSE, own |-> 2,
   more |-> 1, made |-> 0, dead |-> FALSE]

\* Headers that fit, just fit and do not fit in half a buffer of six; output
\* of one buffer and more; a redirection that fits in half the buffer unless
\* some of the body is read with it.
MCScripts ==
  {[Common EXCEPT !.hlen = h, !.own = o] : h \in {2, 4}, o \in {2, 3}}
  \cup {[Common EXCEPT !.len = 4, !.head = TRUE, !.own = 3],
        [Common EXCEPT !.len = 5, !.http09 = TRUE],
        [Common EXCEPT !.field = "status"],
        [Common EXCEPT !.field = "refused", !.len = 4],
        [Common EXCEPT !.field = "none", !.len = 5],
        [Common EXCEPT !.field = "index", !.len = 7, !.hlen = 0]}
  \cup {[Common EXCEPT !.field = "location", !.hlen = 3, !.more = m, !.len = 4, !.own = 1, !.made = 5, !.dead = d] :
          m \in {3, 4}, d \in BOOLEAN}
=============================================================================
