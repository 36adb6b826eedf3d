----------------------------- MODULE UriMap ------------------------------
(***************************************************************************)
(* From a request's URI to what is done with it: unescape_uri and          *)
(* clean_pathname (util.c), the alias table, translate_uri and             *)
(* init_script_alias (alias.c) and the table of MIME types (hash.c).  A    *)
(* path is the sequence of the components behind its slashes: "/" is       *)
(* <<"">>, "/a/b" is <<"a", "b">>, "/a/" is <<"a", "">>.                   *)
(***************************************************************************)
EXTENDS Integers, Sequences, SequencesExt, Lists

CONSTANTS
  Decoded,    \* the components a component's text stands for, after %xx is
              \* decoded; <<>> if it does not decode
  Hash,       \* the bucket of a first component, or of an extension
  Extension,  \* what follows the last dot of a component, or ""
  MaxPath,    \* a longer path does not fit in MAX_HEADER_LENGTH
  Kind(_, _)  \* what stat and access say of a path below a root:
              \* "none", "dir", "script" (regular and executable), "other"

ASSUME UriMapAssumption ==
  /\ \A c \in DOMAIN Decoded : Decoded[c] \in Seq(DOMAIN Hash)
  /\ MaxPath \in Nat

None == "NULL"

\* unescape_uri, up to the query string; <<>> if it is refused.
UnescapeUri(raw) ==
  IF \E i \in DOMAIN raw : Decoded[raw[i]] = <<>> THEN <<>>
  ELSE FlattenSeq([i \in DOMAIN raw |-> Decoded[raw[i]]])

Dots == {"", ".", ".."}
Components == DOMAIN Decoded \cup DOMAIN Hash

\* clean_pathname drops //, /./ and /../, which needs the slash behind: the
\* last component stays.
CleanPathname(u) == Filter(Front(u), Components \ Dots) \o <<Last(u)>>

\* Mutant: the path is cleaned as it came, then decoded.
Cleaned_Early(raw) == UnescapeUri(CleanPathname(raw))

\* The order of process_header_end: decoded, then cleaned.
Cleaned(raw) ==
  IF UnescapeUri(raw) = <<>> THEN <<>> ELSE CleanPathname(UnescapeUri(raw))
-----------------------------------------------------------------------------
\* get_alias_hash_value stops at the second slash.
Bucket(u) == Hash[Head(u)]

Buckets == {Hash[c] : c \in DOMAIN Hash}
EmptyTable == [b \in Buckets |-> <<>>]

\* add_alias: the loop against adding twice does not look at the last entry.
AddAlias(table, a) ==
  LET chain == table[Bucket(a.fake)]
  IN IF \E i \in 1..(Len(chain) - 1) : chain[i].fake = a.fake THEN table
     ELSE [table EXCEPT ![Bucket(a.fake)] = Append(@, a)]

Slashed(path) == Last(path) = ""

\* find_alias's comparison: a virtual path ends with its own slash or before
\* one of the URI's.
Matches(a, u) ==
  IF Slashed(a.fake) THEN Len(u) >= Len(a.fake) /\ IsPrefix(Front(a.fake), u)
  ELSE IsPrefix(a.fake, u)

\* The first element of a chain that is in K, or NULL: a sequence of at most
\* one.
FirstOf(s, K) ==
  LET at == {i \in DOMAIN s : s[i] \in K}
  IN IF at = {} THEN <<>> ELSE <<s[CHOOSE i \in at : \A j \in at : i <= j]>>

FindAlias(table, u) ==
  FirstOf(table[Bucket(u)], {a \in Range(table[Bucket(u)]) : Matches(a, u)})

\* hash_insert keeps the first value of a key; hash_find.
HashInsert(table, key, value) ==
  IF \E i \in DOMAIN table[Hash[key]] : table[Hash[key]][i].key = key THEN table
  ELSE [table EXCEPT ![Hash[key]] = Append(@, [key |-> key, value |-> value])]

HashFind(table, key) ==
  FirstOf(table[Hash[key]], {e \in Range(table[Hash[key]]) : e.key = key})

\* get_mime_type.
GetMimeType(mime, default_type, path) ==
  LET ext == Extension[Last(path)]
      found == IF ext = "" THEN <<>> ELSE HashFind(mime, ext)
  IN IF found = <<>> THEN default_type ELSE Head(found).value
-----------------------------------------------------------------------------
\* What is done with a request.  For a script, name and info divide the URI.
Answer(kind, root, rest) ==
  [kind |-> kind, root |-> root, rest |-> rest, name |-> <<>>, info |-> <<>>]
Refused(kind) == Answer(kind, <<>>, <<>>)

\* What of the URI is behind the virtual path.
Behind(a, u) ==
  SubSeq(u, IF Slashed(a.fake) THEN Len(a.fake) ELSE Len(a.fake) + 1, Len(u))

\* Mutant: path_info begins with the script's own name.
Info_Early(rest, n) == SubSeq(rest, n, Len(rest))

\* path_info: what is behind the first n components.
Info(rest, n) == SubSeq(rest, n + 1, Len(rest))

\* init_script_alias looks for the script component by component; the rest is
\* path_info.  A script alias names a directory.
InitScriptAlias(a, u, vhost_root) ==
  LET root == IF vhost_root = None THEN <<a.real>> ELSE <<vhost_root, a.real>>
      rest == Behind(a, u)
      Stops(k) == k = Len(rest) \/ Kind(root, SubSeq(rest, 1, k)) # "dir"
      n == IF rest = <<>> THEN 0
           ELSE CHOOSE k \in 1..Len(rest) : Stops(k) /\ \A j \in 1..(k - 1) : ~Stops(j)
      path == SubSeq(rest, 1, n)
  IN CASE Len(rest) > MaxPath -> Refused("bad_request")
       [] Kind(root, path) = "none" -> Refused("not_found")
       [] Kind(root, path) \in {"dir", "other"} -> Refused("forbidden")
       [] OTHER -> [Answer("script", root, path) EXCEPT
                      !.name = SubSeq(u, 1, Len(u) - Len(rest) + n),
                      !.info = Info(rest, n)]

\* A file, unless its type makes it a CGI program; only those take a POST.
Plain(root, u, s, mime, method) ==
  CASE Len(u) > MaxPath -> Refused("bad_request")
    [] GetMimeType(mime, s.default_type, u) = "cgi" ->
         [Answer("script", root, u) EXCEPT !.name = u]
    [] method = "POST" -> Refused("bad_request")
    [] OTHER -> Answer("file", root, u)

\* translate_uri with the settings s.  An alias's file is never a CGI program.
TranslateUri(s, table, mime, u, method) ==
  LET found == FindAlias(table, u)
      a == Head(found)
  IN IF found # <<>>
     THEN CASE a.type = "SCRIPTALIAS" -> InitScriptAlias(a, u, s.vhost_root)
            [] Len(Behind(a, u)) > MaxPath -> Refused("bad_request")
            [] a.type = "REDIRECT" ->
                 IF method = "POST" THEN Refused("bad_request")
                 ELSE Answer("moved", <<a.real>>, Behind(a, u))
            [] OTHER -> Answer("file", <<a.real>>, Behind(a, u))
     ELSE CASE s.vhost_root # None -> Plain(<<s.vhost_root, "htdocs">>, u, s, mime, method)
            [] s.document_root # None -> Plain(<<s.document_root>>, u, s, mime, method)
            [] OTHER -> Refused("not_found")
=============================================================================
