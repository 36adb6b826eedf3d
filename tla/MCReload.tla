----------------------------- MODULE MCReload -----------------------------
(* An instance of Reload for TLC: components, a file system and boa.confs. *)
EXTENDS Reload, TLC

ReqSymmetry == Permutations(Req)

MCDecoded ==
  [c \in {"", ".", "..", "a", "b", "x", "p.cgi"} |-> <<c>>]
    @@ ("%2e%2e" :> <<"..">>) @@ ("a%2f.." :> <<"a", "..">>) @@ ("%01" :> <<>>)

\* "a" and "b" share a bucket; so do "x" and the empty component.
MCHash ==
  [c \in {"a", "b", "cgi", "xml", "html", "xml html"} |-> 0] @@ [c \in {"", ".", "..", "x", "p.cgi"} |-> 1]

MCExtension == [c \in DOMAIN MCHash |-> IF c = "p.cgi" THEN "cgi" ELSE ""]

\* Below a script directory "a" is a directory, "b" a script and "x" a file.
MCKind(root, path) ==
  CASE path = <<>> -> "dir"
    [] \E i \in 1..(Len(path) - 1) : path[i] # "a" -> "none"
    [] Last(path) \in {"a", "", ".", ".."} -> "dir"
    [] Last(path) = "b" -> "script"
    [] Last(path) = "x" -> "other"
    [] OTHER -> "none"

MCRawUris ==
  {<<"">>, <<"%01">>, <<"..">>, <<"a">>, <<"b", "">>, <<"x", "p.cgi">>, <<"a", "", "x">>,
   <<"b", ".", "a", "b">>, <<"b", "a", "b", "%2e%2e", "x">>, <<"b", "b", "a", "">>,
   <<"b", "x">>, <<"b", "p.cgi">>, <<"a%2f..", "b", "b">>, <<"a", "a", "a", "a", "a">>}

Line(key, value) == [key |-> key, value |-> value]
Alias(fake, real, type) == Line("Alias", [fake |-> fake, real |-> real, type |-> type])
Typed(ext, type) == [ext |-> ext, type |-> type]
Type(text, type) == Line("AddType", [text |-> text, type |-> type])
DefaultType == Line("DefaultType", "text")

\* A document root with script directories, one inside another and the same
\* twice; a second version of it; virtual hosts; a file with an error.
MCFiles == {
  <<DefaultType, Line("DocumentRoot", "docs"), Alias(<<"b", "a", "">>, "deep", "SCRIPTALIAS"),
    Alias(<<"b", "">>, "bin", "SCRIPTALIAS"), Alias(<<"b", "">>, "other", "ALIAS"),
    Alias(<<"a">>, "far", "REDIRECT"), Type("cgi", "cgi"), Type("cgi", "text")>>,
  <<DefaultType, Line("DocumentRoot", "docs"), Alias(<<"a">>, "new", "ALIAS"),
    Alias(<<"b">>, "bin", "SCRIPTALIAS"), Alias(<<"a", "a">>, "late", "ALIAS"),
    Line("MimeTypes", <<Typed("cgi", "text"), Typed("html", "text")>>),
    Line("CGIEnv", "E"), Line("CGIEnv", "F")>>,
  <<DefaultType, Line("VHostRoot", "hosts"), Line("DefaultVHost", "h"),
    Type("xml html", "text"), Type("html", "html"),
    Alias(<<"b", "">>, "bin", "SCRIPTALIAS"), Line("CGIEnv", "E")>>,
  <<DefaultType, Line("Unknown", "?")>> }
=============================================================================
