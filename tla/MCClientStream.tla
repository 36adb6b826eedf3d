--------------------------- MODULE MCClientStream ---------------------------
(* Instances of ClientStream for TLC: what clients send. *)
EXTENDS ClientStream, TLC

CRLF == <<"CR", "LF">>
Bare == <<"LF">>

Mark(cs, inBody, isLast) ==
  [i \in DOMAIN cs |-> [c |-> cs[i], body |-> inBody, last |-> isLast /\ i = Len(cs)]]

\* A GET with one header (or none), and a POST with its length and body.
Get(line, opt, eol) ==
  Mark(<<line>> \o eol \o (IF opt = "" THEN <<>> ELSE <<opt>> \o eol) \o eol, FALSE, TRUE)
Post(len, cs, eol) ==
  Mark(<<"POST">> \o eol \o <<len>> \o eol \o eol, FALSE, cs = <<>>) \o Mark(cs, TRUE, TRUE)

MCStreams == {
  \* requests one after the other, of one kind or mixed
  Get("GET", "", CRLF) \o Get("GET", "x", Bare),
  Get("GET", "", Bare) \o Get("GET", "", Bare) \o Get("GET", "", Bare),
  Get("GET", "close", Bare) \o Get("GET", "", Bare),
  Get("GET", "", Bare) \o Post("2", <<"x", "LF">>, Bare),
  \* bodies that look like requests, that are empty, and what comes after
  Post("3", <<"GET", "LF", "LF">>, Bare) \o Get("GET", "", Bare),
  Post("0", <<>>, CRLF) \o Mark(CRLF, FALSE, FALSE),
  Post("1", <<"illegal">>, CRLF),
  \* requests that are refused
  Post("bad", <<"x">>, Bare),
  Post("x", <<"x">>, Bare),
  Get("GET09", "", Bare),
  Mark(CRLF, FALSE, FALSE) \o Get("GET", "", Bare),
  Mark(<<"GET", "CR", "x", "x", "CR", "CR", "LF", "LF">>, FALSE, TRUE),
  Mark(<<"GET", "LF", "CR", "x", "LF", "CR", "CR", "LF">>, FALSE, TRUE),
  Mark(<<"GET", "illegal", "LF">>, FALSE, TRUE),
  Mark(<<"GET", "LF", "x", "LF", "x", "LF", "x", "LF", "x", "LF", "LF">>, FALSE, TRUE) }
=============================================================================
