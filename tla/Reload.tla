----------------------------- MODULE Reload ------------------------------
(***************************************************************************)
(* The configuration and its reload on SIGHUP under requests in flight:    *)
(* config.c's parse and read_config_files, main's start-up, sighup_run,    *)
(* the tables of UriMap, and the environment of CGI programs (cgi.c),      *)
(* whose common part the configuration extends and every request shares.   *)
(***************************************************************************)
EXTENDS UriMap, FiniteSets

CONSTANTS
  Req,          \* request structures
  Files,        \* contents of boa.conf: sequences of lines
  RawUris,      \* URIs as they come
  CommonCount,  \* COMMON_CGI_COUNT
  CgiEnvMax,    \* CGI_ENV_MAX; cgi_env has four slots more
  MaxReloads, MaxRequests, MaxOptions  \* bounds of the model

\* The lines that give types to extensions, and what each adds: apply_command
\* splits off one argument only, so that AddType's type goes to the rest of its
\* line as one extension; a types file lists one at a time.
TypeKeys == {"AddType", "MimeTypes"}
TypesOf(line) ==
  IF line.key = "AddType" THEN <<[ext |-> line.value.text, type |-> line.value.type]>>
  ELSE line.value

ASSUME ReloadAssumption ==
  /\ {CommonCount, CgiEnvMax, MaxReloads, MaxRequests, MaxOptions} \subseteq Nat
  /\ 0 < CommonCount /\ CommonCount < CgiEnvMax
  /\ RawUris \subseteq Seq(DOMAIN Decoded) \ {<<>>}
  /\ \A f \in Files :
       /\ f \in Seq(Range(f))
       /\ \A i \in DOMAIN f :
            /\ f[i].key = "Alias" => f[i].value.fake \in Seq(DOMAIN Hash) \ {<<>>}
            /\ f[i].key \in TypeKeys =>
                 /\ TypesOf(f[i]) \in Seq(Range(TypesOf(f[i])))
                 /\ \A e \in Range(TypesOf(f[i])) : e.ext \in DOMAIN Hash

VARIABLES
  loaded,   \* what boa.conf held when it was last read
  server,   \* the configuration in memory
  heap,     \* the strings of environments that are allocated
  reqs,     \* the requests
  reloads, seen,  \* counters: reloads, request lines
  hit       \* history: the numbers of requests a reload came upon

vars == <<loaded, server, heap, reqs, reloads, seen, hit>>

Slots == 1..(CgiEnvMax + 4)
EmptyEnv == [i \in Slots |-> <<>>]
Idle == [phase |-> "idle", number |-> 0, method |-> "GET", env |-> EmptyEnv, index |-> 0,
         options |-> {}, answer |-> Refused("none"), uri |-> <<>>]
-----------------------------------------------------------------------------
\* The base of the common environment, made by create_common_env.
Base == [i \in 1..CommonCount |-> <<"base", i>>]

Blank == [up |-> TRUE, aliases |-> EmptyTable, mime |-> EmptyTable, common |-> <<>>,
          settings |-> [document_root |-> None, vhost_root |-> None, virtualhost |-> FALSE,
                        default_vhost |-> None, default_type |-> None]]

\* Mutant: any number of variables.
TooMany_Never(s) == FALSE

\* add_to_common_env's limit.
TooMany(s) == Len(s.common) > CgiEnvMax

\* c_set_string frees the old value; default_vhost's default is a literal,
\* which free does not survive.
SetString(s, name, value) ==
  [s EXCEPT !.settings[name] = value, !.up = @ /\ s.settings[name] # "literal"]

\* add_to_common_env; n tells the strings of different readings apart.
AddToCommonEnv(s, name, n) ==
  LET t == [s EXCEPT !.common = Append(@, <<"env", name, n>>)]
  IN [t EXCEPT !.up = ~TooMany(t)]

\* c_add_mime_types_file, and c_add_mime_type for its one entry.
AddMimeTypes(s, types) ==
  LET M[i \in 0..Len(types)] ==
        IF i = 0 THEN s.mime ELSE HashInsert(M[i - 1], types[i].ext, types[i].type)
  IN [s EXCEPT !.mime = M[Len(types)]]

\* apply_command for one line of the file, the n-th time it is read.
ApplyCommand(s, line, n) ==
  CASE line.key = "DocumentRoot" -> SetString(s, "document_root", line.value)
    [] line.key = "VHostRoot" -> SetString(s, "vhost_root", line.value)
    [] line.key = "DefaultVHost" -> SetString(s, "default_vhost", line.value)
    [] line.key = "DefaultType" -> SetString(s, "default_type", line.value)
    [] line.key = "VirtualHost" -> [s EXCEPT !.settings.virtualhost = TRUE]
    [] line.key = "Alias" -> [s EXCEPT !.aliases = AddAlias(@, line.value)]
    [] line.key \in TypeKeys -> AddMimeTypes(s, TypesOf(line))
    [] line.key = "CGIEnv" -> AddToCommonEnv(s, line.value, n)
    [] OTHER -> [s EXCEPT !.up = FALSE]

\* parse; the first line that ends the process is the last.
ParseLine(s, line, n) == IF s.up THEN ApplyCommand(s, line, n) ELSE s
Parse(s, lines, n) ==
  LET T[i \in 0..Len(lines)] == IF i = 0 THEN s ELSE ParseLine(T[i - 1], lines[i], n)
  IN T[Len(lines)]

\* What read_config_files requires of the settings, and its defaults.
Checked(s) ==
  LET c == s.settings
      bad == \/ c.vhost_root # None /\ (c.virtualhost \/ c.document_root # None)
             \/ c.default_type = None
  IN [s EXCEPT !.up = @ /\ ~bad,
               !.settings.default_vhost = IF @ = None THEN "literal" ELSE @]

ReadConfigFiles(s, lines, n) == Checked(Parse(s, lines, n))

\* main: create_common_env comes after the file and begins anew.
StartUp(lines) == [ReadConfigFiles(Blank, lines, 0) EXCEPT !.common = Base]

\* Mutants: dump_mime, or dump_alias, is forgotten.
Dumped_Mime(s) == [s EXCEPT !.aliases = EmptyTable]
Dumped_Alias(s) == [s EXCEPT !.mime = EmptyTable]

\* dump_mime and dump_alias; the common environment stays, with its strings in
\* the arrays of running requests.
Dumped(s) == [s EXCEPT !.aliases = EmptyTable, !.mime = EmptyTable]

Strings(s) == {s.common[i] : i \in DOMAIN s.common}

Init ==
  /\ loaded \in {f \in Files : StartUp(f).up}
  /\ server = StartUp(loaded)
  /\ heap = Strings(server)
  /\ reqs = [r \in Req |-> Idle]
  /\ reloads = 0 /\ seen = 0 /\ hit = {}

\* The requests in flight.
Numbers == {reqs[r].number : r \in Req} \ {0}

\* sighup_run, between two rounds of the loop; boa.conf may have been edited.
SighupRun ==
  /\ server.up /\ reloads < MaxReloads
  /\ reloads' = reloads + 1
  /\ loaded' \in Files
  /\ server' = ReadConfigFiles(Dumped(server), loaded', reloads')
  /\ heap' = heap \cup Strings(server')
  /\ hit' = hit \cup Numbers
  /\ UNCHANGED <<reqs, seen>>
-----------------------------------------------------------------------------
\* add_cgi_env: one string more, if there is room.  index tells a request's
\* strings apart.
HasRoom(q) == q.index < CgiEnvMax
String(q) == <<"own", q.number, q.index + 1>>
AddCgiEnv(q) == [q EXCEPT !.env[q.index + 1] = String(q), !.index = @ + 1]

Own(q) == {e \in {q.env[i] : i \in 1..q.index} : e # <<>> /\ e[1] = "own"}

\* Mutant: the variables of the header begin at the array's start.
FirstIndex_Zero == 0

\* Where process_logline begins: the common variables come before.
FirstIndex == Len(server.common)

ProcessLogline(r) ==
  /\ server.up /\ reqs[r].phase = "idle" /\ seen < MaxRequests
  /\ seen' = seen + 1
  /\ \E method \in {"GET", "POST"} :
       reqs' = [reqs EXCEPT ![r] = [Idle EXCEPT !.phase = "header", !.number = seen',
                                                !.method = method, !.index = FirstIndex]]
  /\ UNCHANGED <<loaded, server, heap, reloads, hit>>

\* process_option_line for a field that becomes a variable; without room the
\* request ends.
ProcessOptionLine(r) ==
  LET q == reqs[r]
      p == [AddCgiEnv(q) EXCEPT !.options = @ \cup {String(q)}]
  IN /\ server.up /\ q.phase = "header" /\ Cardinality(q.options) < MaxOptions
     /\ reqs' = [reqs EXCEPT ![r] =
          IF HasRoom(q) THEN p ELSE [q EXCEPT !.phase = "ended"]]
     /\ heap' = IF HasRoom(q) THEN heap \cup Own(p) ELSE heap
     /\ UNCHANGED <<loaded, server, reloads, seen, hit>>

\* complete_env's copy of the common variables.
WithCommon(q) ==
  [q EXCEPT !.env = [i \in Slots |-> IF i <= Len(server.common) THEN server.common[i]
                                     ELSE q.env[i]]]

\* complete_env adds REQUEST_METHOD, SCRIPT_NAME and, when there is one,
\* PATH_INFO, which stand for all, up to the first without room; the environment
\* is given to the child only if all have.
CompleteEnv(q) ==
  LET Add(p) == IF p.phase = "child" /\ HasRoom(p) THEN AddCgiEnv(p)
                ELSE [p EXCEPT !.phase = "ended"]
      two == Add(Add([WithCommon(q) EXCEPT !.phase = "child"]))
  IN IF q.answer.info = <<>> THEN two ELSE Add(two)

\* process_header_end: the URI is mapped by the tables of this moment.  A
\* script is started at once; for a POST, also one to an alias's file, the body
\* comes before.
ProcessHeaderEnd(r) ==
  \E raw \in RawUris :
    LET q == reqs[r]
        u == Cleaned(raw)
        answer == IF u = <<>> THEN Refused("bad_request")
                  ELSE TranslateUri(server.settings, server.aliases, server.mime, u, q.method)
        p == [q EXCEPT !.answer = answer, !.uri = IF answer.kind = "script" THEN u ELSE <<>>]
        c == CASE answer.kind \notin {"script", "file"} -> [p EXCEPT !.phase = "ended"]
               [] q.method = "POST" -> [p EXCEPT !.phase = "body"]
               [] answer.kind = "script" -> CompleteEnv(p)
               [] OTHER -> [p EXCEPT !.phase = "ended"]
    IN /\ server.up /\ q.phase = "header"
       /\ reqs' = [reqs EXCEPT ![r] = c]
       /\ heap' = heap \cup Own(c)
       /\ UNCHANGED <<loaded, server, reloads, seen, hit>>

\* write_body has stored the whole body and calls init_cgi, which makes an
\* environment for scripts only.
InitCgi(r) ==
  /\ server.up /\ reqs[r].phase = "body"
  /\ reqs' = [reqs EXCEPT ![r] = IF @.answer.kind = "script" THEN CompleteEnv(@)
                                 ELSE [@ EXCEPT !.phase = "ended"]]
  /\ heap' = heap \cup Own(reqs'[r])
  /\ UNCHANGED <<loaded, server, reloads, seen, hit>>

\* Mutants: free_request begins where the server's own variables end, or one
\* too late.
FirstFreed_Base == CommonCount + 1
FirstFreed_Late == Len(server.common) + 2

\* free_request frees what is behind the common variables, as many as they
\* are now.
FirstFreed == Len(server.common) + 1

FreeRequest(r) ==
  LET q == reqs[r]
  IN /\ server.up /\ q.phase # "idle"
     /\ heap' = heap \ {q.env[i] : i \in FirstFreed..q.index}
     /\ reqs' = [reqs EXCEPT ![r] = Idle]
     /\ UNCHANGED <<loaded, server, reloads, seen, hit>>

\* The process has ended, or the model's bounds are reached.
Bounded == reloads = MaxReloads /\ seen = MaxRequests /\ Numbers = {}
Exited == (~server.up \/ Bounded) /\ UNCHANGED vars

Next ==
  \/ SighupRun \/ Exited
  \/ \E r \in Req : \/ ProcessLogline(r) \/ ProcessOptionLine(r)
                    \/ ProcessHeaderEnd(r) \/ InitCgi(r) \/ FreeRequest(r)

Spec == Init /\ [][Next]_vars
-----------------------------------------------------------------------------
\* While the server runs, the common variables fit in the array of every
\* request, whatever was added by reloads, and so do a request's own.
TypeOK ==
  /\ loaded \in Files
  /\ server.up => Len(server.common) \in CommonCount..CgiEnvMax
  /\ \A r \in Req :
       /\ reqs[r].phase \in {"idle", "header", "body", "child", "ended"}
       /\ reqs[r].index \in 0..CgiEnvMax
       /\ DOMAIN reqs[r].env = Slots

\* free_request never frees a common variable, which other requests and later
\* children use, even when a reload has added some since the request began.
CommonIntact == server.up => Strings(server) \subseteq heap

\* Of the strings of a request that has ended, none stays allocated, unless a
\* reload came in between (the variables it added then hide some).
NoLeakUnlessReloaded == \A e \in heap : e[1] = "own" => e[2] \in Numbers \cup hit

\* A child gets all of the common variables and all of its request's, unless a
\* reload came while the request was read.
EnvCompleteUnlessReloaded ==
  \A r \in Req :
    LET q == reqs[r]
        env == {q.env[i] : i \in 1..q.index}
    IN q.phase = "child" /\ q.number \notin hit
         => q.options \subseteq env /\ Strings(server) \subseteq env

\* The first line of the file that makes a virtual path of u.
AliasLines(u) ==
  FirstOf(loaded, {l \in Range(loaded) : l.key = "Alias" /\ Matches(l.value, u)})

\* "/" as a virtual path: it is hashed by its empty first component.
RootAlias == \E l \in Range(loaded) : l.key = "Alias" /\ l.value.fake = <<"">>

\* A URI is mapped by the first line of the file last read that matches it:
\* neither the hash, nor the chain a line is in, nor a line added twice, nor
\* what earlier files said changes that; the alias "/" apart.
FindsFirst ==
  server.up /\ ~RootAlias
    => \A raw \in RawUris :
         LET u == Cleaned(raw)
             lines == AliasLines(u)
         IN u # <<>> => FindAlias(server.aliases, u) = [i \in DOMAIN lines |-> lines[i].value]

\* The first line that gives the extension a type.
TypeLines(ext) ==
  FirstOf(loaded, {l \in Range(loaded) :
                     l.key \in TypeKeys /\ \E e \in Range(TypesOf(l)) : e.ext = ext})

\* A file's type is the first the file last read, or a types file it names,
\* gives its extension, and none when it gives none; an AddType line gives one
\* to what follows the type on it, and to none of several words by itself.
FirstTypeWins ==
  server.up => \A ext \in DOMAIN Hash :
    LET lines == TypeLines(ext)
        types == IF lines = <<>> THEN <<>> ELSE TypesOf(Head(lines))
        given == FirstOf(types, {e \in Range(types) : e.ext = ext})
    IN HashFind(server.mime, ext)
         = [i \in DOMAIN given |-> [key |-> ext, value |-> given[i].type]]

\* No path a request is mapped to, and no path_info, has an empty component or
\* dots before its last, however they were written in the URI.
Undotted(path) == path # <<>> => \A i \in DOMAIN Front(path) : path[i] \notin Dots
CleanInside ==
  \A r \in Req : Undotted(reqs[r].answer.rest) /\ Undotted(reqs[r].answer.info)

\* SCRIPT_NAME and PATH_INFO together are the URI: no component is lost or
\* in both, wherever the walk finds the script.
ScriptSplits ==
  \A r \in Req :
    reqs[r].answer.kind = "script"
      => reqs[r].answer.name \o reqs[r].answer.info = reqs[r].uri

\* docs/boa.texi on SIGHUP: "All other configuration changes should take place
\* smoothly."  The server is then as if started with the file.
ReloadIsSmooth ==
  StartUp(loaded).up => /\ server.up
                        /\ server.settings = StartUp(loaded).settings
=============================================================================
