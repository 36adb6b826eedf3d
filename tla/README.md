# A TLA+ model of YABWF

YABWF (a fork of Boa 0.94.14rc21) is a single-process HTTP server: one event
loop multiplexes all connections, no threads, no child except CGI programs,
gunzip and the directory indexer. Everything hard about it is in the order in
which one loop interleaves many half-finished requests: non-blocking reads and
writes that stop anywhere, requests moved between two lists, descriptor bits
that must follow them, timeouts, keep-alive reuse of the same structure, a
shutdown that waits for the rest, and signals between any two steps.

Paths below are relative to `src/src/`. The build modelled is the default one on
Linux: `select`, `sendfile`, gunzip on, access control and CGI prefix stripping
off.

## Inventory

| Component | State | Operations | Talks to |
|---|---|---|---|
| Event loop (`select.c`) | `block_read_fdset`, `block_write_fdset`, `max_fd`, `pending_requests`, `sigterm_flag` | `loop`, `fdset_update` | queues, requests, signals |
| Queues (`queue.c`) | `request_ready`, `request_block` | `block_request`, `ready_request`, `enqueue`, `dequeue` | descriptor sets |
| Request lifecycle (`request.c`, `globals.h`) | `struct request`, `total_connections`, free list | `get_request`, `process_requests`, `free_request`, `process_logline`, `process_option_line`, `process_header_end` | every handler below |
| Header and body reading (`read.c`) | `client_stream`, `parse_pos`, `filepos`, `post_data_fd` | `read_header`, `read_body`, `write_body` | `request.c`, CGI |
| Static files (`get.c`, `pipe.c`) | `data_mem` or `data_fd`, `ranges` | `init_get`, `process_get`, `io_shuffle_sendfile`, `get_dir` | cache, ranges, responses |
| Output buffer (`buffer.c`) | `buffer`, `buffer_start`, `buffer_end` | `req_write`, `req_flush` | client socket |
| Responses (`response.c`) | `response_status`, `keepalive`, `numranges` | `send_r_*`, `complete_response` | buffer |
| Byte ranges (`range.c`) | `ranges`, `numranges` | `range_parse`, `ranges_fixup` | `init_get` |
| Mapped files (`mmap_cache.c`) | `mmap_list`, `mmap_list_entries_used` | `find_mmap`, `release_mmap` | `init_get`, `free_request` |
| CGI (`cgi.c`, `cgi_header.c`, `pipe.c`) | `cgi_status`, `header_line`, `header_end`, `cgi_env` | `init_cgi`, `read_from_pipe`, `write_from_pipe`, `process_cgi_header` | child process, buffer |
| Signals and start-up (`signals.c`, `boa.c`) | `sigterm_flag`, `sighup_flag`, `sigchld_flag`, `sigalrm_flag` | handlers, `sigterm_stage1_run`, `sigterm_stage2_run`, `sighup_run` | loop, configuration |
| Poll loop (`poll.c`) | `pfds`, `pollfd_id` | the same as `select.c` | as above |
| Configuration (`config.c`) | settings, `common_cgi_env`, the tables below | `parse`, `apply_command`, `read_config_files` | start-up, SIGHUP |
| Aliases and MIME types (`alias.c`, `hash.c`) | `alias_hashtable`, `mime_hashtable` | `add_alias`, `find_alias`, `translate_uri`, `init_script_alias`, `hash_insert`, `hash_find`, dump on SIGHUP | header end |
| Logging, utilities, addresses, indexer | none that others read | formatting | |

What makes each part correct, and what is hard about it:

* *Loop and queues.* Each connection is on one list; the bits are exactly those
  of the blocked ones; a closed descriptor is never watched; every blocked
  request is woken or times out. A request's status changes between blocking
  and waking (a timeout), after which a different bit is cleared.
* *Lifecycle.* `total_connections` admits and refuses clients, and
  `free_request` has an early return, a recycle and a release. SIGTERM may
  arrive anywhere, and a request line parsed later turns keep-alive on again.
* *Delivery.* A response alternates between the buffer and direct writes;
  every write may be short, block or fail.
* *Cache.* Entries are shared, released in any order and reused in the middle of
  probe chains.
* *Ranges.* They are read before the file is known, in unsigned longs that wrap
  and with a marker compared as an unsigned int.
* *Client stream.* Header, body and the next request share one buffer, and a
  packet may end anywhere; what was read ahead outlives the request.
* *CGI output.* The server's header and the child's data share one buffer, are
  moved in it and are written from it by three functions; a request may wait for
  the wrong side.
* *Poll loop.* A blocked request holds an index into an array that every pass
  rebuilds, EINTR extends and SIGTERM shortens.
* *Configuration.* Read again under requests that hold the old one's strings and
  counts, on top of the old settings.
* *URIs.* Decoded, cleaned, matched by hash chain and split into script and
  `path_info`.
* *Signals.* Flags looked at before `select`, not inside it.

`PROJECT.json` lists the hazards at their lines.

## Modules

| Module | Models |
|---|---|
| `RequestHandlers` | every handler's effect on the control state of one request |
| `RequestLoop` | `loop`, `fdset_update`, queues, `get_request`, `process_requests`, `free_request`, SIGTERM; uses `RequestHandlers` |
| `ConnectionTable` | what the loop promises about connections; `RequestLoop` implements it |
| `Delivery` | the bytes of one GET response |
| `MmapCache` | the table of mapped files |
| `Ranges` | `Range` headers and `ranges_fixup` |
| `PollLoop` | `poll.c`'s event loop; the second implementation of `ConnectionTable` |
| `ClientStream` | the bytes a client sends: `read_header`, `read_body`, `write_body`, recycling |
| `CgiPipe` | the bytes a CGI program or the indexer sends |
| `UriMap` | operators from a URI to what is done with it: decoding, cleaning, aliases, MIME types |
| `Reload` | configuration, SIGHUP and the CGI environment under requests in flight; uses `UriMap` |
| `MCRequestLoop`, `MCDelivery`, `MCMmapCache`, `MCRanges`, `MCPollLoop`, `MCClientStream`, `MCCgiPipe`, `MCReload` | instances for TLC |
| `Lists` | filtering a list in place, which `ranges_fixup`, the wake-up of blocked requests and `clean_pathname` share |
| `RequestLoopProofs` (with `RequestHandlers`), `MmapCacheProofs`, `PollLoopProofs`, `RangesProofs`, `ClientStreamProofs`, `DeliveryProofs`, `CgiPipeProofs`, `ReloadProofs` (with `UriMap`) | theorems |

Operators whose name ends in `_Something` and whose comment begins "Mutant" are
plausible mistakes in the definition that follows them; replacing the definition
by the mutant breaks the property `PROJECT.json` pairs it with. They are not part
of the model.

### RequestHandlers

A handler is an operator from a request to the set of its outcomes, an outcome
being the value it returns to `process_requests` (-1 blocked, 0 complete, 1 more
to do) and the request it leaves. The record `Request` holds the fields that
decide what happens next: `status`, `keepalive`, `response_status` (none, below
500, 500 and above: all `free_request` asks of it), whether there is a
`logline`, whether `buffer_end` is non-zero, whether `data_fd` and
`post_data_fd` are set, and `kacount`. `READ_HEADER` stands for the four states
only `read_header` tells apart. What a system call returns, and what a client
wrote, is the environment's choice. The data steps of a request are bounded by
`MaxWork`: headers, bodies, files and CGI output are finite, and without the
bound a handler could return 1 for ever.

### RequestLoop

`pc` walks through `loop`: `top` (flags, server bit), `enter` (about to call
`select`), `select`, `update` (`fdset_update`), `first` (the first
`get_request`), then for each ready request `walk` (flush and handler),
`accept` (`get_request` again) and `settle` (the switch on the return value).
The lists are sets, the walk is in any order, and a request accepted during the
walk waits for the next pass, as the code's list head does. `rd` and `wr` are the
descriptor sets, which `select` overwrites with its answer. `open` is the
kernel's view, kept apart from what the requests say they hold. A timeout is a
number of ticks; time passes only in `select`, the one place where the server
waits. Left out: `max_fd`, which only grows or is recomputed from the same
descriptors; the free list's memory (a structure not on a list is free);
the log. EBADF, for which `loop` has no recovery, is not an action because
`DescriptorsOwned` shows that no watched descriptor is closed.

### ConnectionTable

Connections open while serving and up to one more than `MaxConnections` (the
one that is told 503); they close at any time; SIGTERM, once noticed, starts
draining, and the server exits when none is left. The refinement maps `conns` to
the two lists and the phase to `pc` and `sigterm_flag`.

### Delivery

One response from `init_get` to `free_request`. Bytes are tagged by where they
come from, so that the client's stream can be compared with the response as it
should be (`Response`). Every flush and every chunk takes any number of bytes,
blocks or fails. `mapped` chooses `process_get` or `io_shuffle_sendfile`, which
differ only in where the bytes come from and in counting 0 bytes as blocked.
Range lists are ones `ranges_fixup` accepted. `multi` may hold for a list of one:
`numranges` is not lowered when `ranges_fixup` drops a range. HEAD, CGI output
and the read/write version of `io_shuffle` are left out. The ghost `slips`
names two things the code does that the ordering and completeness properties
except. Ranges may overlap, as the client asks; that no byte is sent twice is
said of lists whose ranges do not (`Apart`).

### MmapCache

`find_mmap` is three actions (share, add, NULL) and `release_mmap` one. The key is
inode and length; the device, compared in the same way and not hashed, is left
out, and so are the statistics and the unused `find_named_mmap`.

### Ranges

`range_parse` is one action per character, with `stable` as a table; a request
may bring several Range headers. `LongMod` is the width of a long, `UIntMax` the
largest int. `said` keeps the ranges as written, without a width, and `Asked`
says what RFC 2616 makes of one. A header with a range that ends before it begins
(`Reversed`) is one RFC 2616 has ignored as a whole; the code drops that range
only, so `SendsWhatIsAsked` speaks of headers without one (`Plain`). The pool of list nodes is left out.

### PollLoop

`pfds` is the array in use, a sequence of descriptors; the other array appears
only as what `update_blocked` and the removal of the server build. A blocked
request has `pollfd_id`, the descriptor it waits on is kept apart in `waits`, and
`answer` is what `poll` said by descriptor, so that reading another's entry shows.
The block list keeps its order, since indices are given in it. Handlers may
return anything; timeouts strike any set of blocked requests. `dropped` names the
request whose entry the removal of the server took: it reads whatever the array
holds (`Leftover`). A failure of `poll` other than EINTR, after which the code
reads old `revents`, is left out.

### ClientStream

One connection and everything its client sends. Bytes are positions in the
client's stream, each marked with what it is and whether the client meant it as
body; a line is one symbol and its end. The four header states are those of the
code. `FreeRequest` is `free_request` with `sanitize_request`; `filepos` is the
length of what was stored. A body whose read fails ends the connection: `boa_perror`
answers through `send_r_error`, which stops keep-alive. The response is one step (`Delivery` and `CgiPipe`
have how it is written). `Places` is how a client divides its stream into
requests, independently of buffers, packets and recycling; `BodyAssumption` says
that what it means as a body comes behind the header of a POST. Left out: a POST
with an HTTP/0.9 request line, which `RequestHandlers` has; the text of lines; lame
duck mode.

### CgiPipe

The request record carries its bytes (`data` from `header_line` to `header_end`,
`out` from `buffer_start` to `buffer_end`, both in one buffer), the client's
stream and the room in its socket. Handlers are operators from a request to a
return value and a request, as in `RequestHandlers`. The child and the client
are external actions. A script is described by its first header field and its
lengths. `Fits` says, from the lengths, that the header ends in its half of
the buffer and fits beside the server's; only a header that does not may be
answered with an error page, of `PageLen` bytes. A redirection (`Redirection`) is
the server's header, what the child's header and the body read with it hold behind
the `Location:` line, and the page. It is put together in the first half of the
buffer from a URL and headers in the second. When it has room (`RoomFor`) it is
exact; when it has not, it overwrites what it is made from, and what comes out is
a number of bytes nobody can tell (`Moved`, `made`), with `req_write` running out
of buffer or not (`dead`). Either way `process_cgi_header` sets DONE over the DEAD
that `req_write` left. `slips` is as in `Delivery`. The optional prefix stripping
is left out.

### UriMap and Reload

Paths are sequences of components, so that decoding (which may turn one component
into several), cleaning, prefix matching and splitting are operations on
sequences. Chains of the tables are sequences by bucket. `Reload` has the
configuration in memory (`server`), the file it was read from (`loaded`), the
allocated environment strings (`heap`) and requests with `cgi_env` and
`cgi_env_index`. A reload comes between any two steps of requests; `hit` records
the requests it came upon. `StartUp` is `main` up to the loop: `create_common_env`
runs after the file is read, so the CGIEnv lines of the first reading are lost
and those of later ones added. `c_set_string` on the literal `DEFAULT_VHOST` ends
the process, the outcome of a `free` the allocator refuses. `TypesOf` is what a
line enters into the table of types: a types file one key per extension, an
AddType line one key made of all that follows the type. Left out:
`path_translated`, user directories, host names, `create_argv`, and settings that
no modelled step reads. A script alias is taken to name a directory.

## Runs

| Run | Expected | Shows |
|---|---|---|
| `request_loop` | pass | types, accounting, exact watching, descriptor ownership, no recycling in lame duck mode, refinement of `ConnectionTable` |
| `request_loop_liveness` | pass | every connection ends; lame duck mode ends in exit |
| `request_loop_sigterm_race` | violation | a SIGTERM between the look at the flag and `select` sleeps with an idle server |
| `poll_loop` | pass | `pfds` stays within its bound, blocked requests find and are woken by their own entry, refinement of `ConnectionTable` |
| `client_stream` | pass | header bytes once and in order, body bytes never parsed as a header, exact bodies, every request that arrived is answered unless held in `client_stream` |
| `client_stream_pipelined` | violation | a pipelined request already read is timed out |
| `delivery` | pass | order, completeness, no repetition, outside the named slips |
| `cgi_pipe` | pass | the shared buffer, order, completeness; the response ends once the child has and is passed on while it is silent |
| `mmap_cache` | pass | exact counts, stable entries |
| `ranges` | pass | ranges stay in the file and are those asked for |
| `reload` | pass | common variables survive, environments are complete and freed, the last file's aliases and types are used, paths are clean, scripts split the URI |
| `reload_smooth` | violation | a file with which the server would start ends it when read on SIGHUP after another |

Bounds and why they are enough:

* `request_loop`: three structures and a limit of one, so that one connection is
  served, one is told 503, and a third could be let in by a mistake; one
  keep-alive reuse, so that the count reaches zero; one data step per request,
  so that each handler can ask to come back from each state. `RequestTimeout`
  is 0 and `KaTimeout` 1 tick, so that a request can time out by either rule and
  not by the other. Requests interact only through the lists, the sets and the
  count; `Req` is a symmetry set.
* `request_loop_liveness`: one structure, no symmetry. Fairness is of the loop,
  not of a request, and requests do not wait for each other. `RequestTimeout` is
  1 here: with 0 the first tick ends a request, and a `time_last` that moved too
  often would go unseen.
* `mmap_cache`: a table of four, four requests, two inodes with one hash, one in
  two lengths, and a limit of two, so that chains form, are broken and wrap.
* `delivery`: a buffer of six with a header of two, so that a range fits, just
  fits or needs direct writes; lists of one to three ranges,
  one of them overlapping.
* `ranges`: seven characters, enough for three ranges or for a range in each of
  three headers; 5-bit longs and 3-bit ints, so that three digits wrap and the
  int marker can be written; files of 1, 6 and 12 bytes, below and above it.

* `poll_loop`: three structures and a limit of one, as in `request_loop`, and one
  EINTR in a row, so that the server has two entries. More interrupts only append
  more of them.
* `client_stream`: fifteen streams of up to 15 bytes, in packets of every size: one
  to three requests, bodies that look like requests, empty and refused ones,
  every path through the four header states. `client_stream` holds 9 bytes, less
  than the longest of them; the body buffer 2, less than the longest body.
* `cgi_pipe`: a buffer of six, halves of three, and a socket that takes three;
  headers that fit, just fit and do not fit beside the server's; outputs that
  fill the buffer; pages of two bytes; redirections that fit in half the buffer
  unless some of the body is read with the header, cut by a full buffer or not.
* `reload`: two requests, two reloads and four files, one with an error; five
  variables in all, so that two readings of two CGIEnv lines exceed them; aliases
  that nest, collide in a bucket and repeat; URIs with each kind of component to
  clean, encoded ones too. `Req` is a symmetry set.

Deadlock is checked everywhere: exit, the end of a response, a closed connection
and an answered Range header are explicit stuttering actions.

### Fairness

`FairSpec` assumes: weak fairness of the process's own steps (it is scheduled);
strong fairness of `select` returning while a connection is open, since it then
has a timeout; and strong fairness of time passing in `select`. Strong, because
the loop leaves and re-enters `select`, and because a signal ends `select` with
EINTR and skips `fdset_update`: signals must not interrupt every single call.
Nothing is assumed of clients, CGI programs or SIGTERM, and with no connection
`select` may sleep for ever, as it does with a NULL timeout.

`ClientStream` and `CgiPipe` assume weak fairness of the server's steps, waking
included: the loop readies a request whose descriptor is ready. `CgiPipe` also
assumes that the client keeps reading (its properties are about a server that
must not hold output back from such a client); nothing is assumed of the child.

## Findings

Three runs show a disagreement with what a document or a comment says:

1. `select.c:61`: SIGTERM between the look at `sigterm_flag` and a `select`
   without timeout is not acted on until a client connects (CHANGES.md:723).
2. `request.c:395`: a recycled connection waits for its socket although the next
   request is already in `client_stream` (CHANGES.md:634).
3. `config.c:576`: on SIGHUP the file is applied on top of the old settings. A
   server that runs with a VHostRoot and then reads a file with a DocumentRoot
   instead has both, and exits (docs/boa.texi:612 "All other configuration changes
   should take place smoothly."). So does one that reads a VHostRoot after a
   DocumentRoot; a DefaultVHost line read over the literal default
   (`config.c:584`) and CGIEnv lines read too often can end it too.

### Known deviations

Met while modelling, modelled as the code has them and excepted by name in the
passing properties, which show that nothing else goes wrong:

* `request.c:869`: `process_header_end` runs twice for a POST with an HTTP/0.9
  request line and the first temporary file is never closed (CHANGES.md:724
  "Close and unlink temp file for POST in parent process"). `DescriptorsOwned`
  excepts the ghost descriptor `Orphan`.
* `request.c:319`: `free_request`'s flush, which "must be exactly the same" as the
  DONE case's (request.c:315), frees the request when it blocks.
  `WholeUnlessCut` speaks of empty buffers, or excepts the slip `last`.
* `request.c:484`: a short flush at the top of `process_requests` goes on to a
  handler that writes past it (slip `short`).
* `get.c:411`: the "256 extra bytes_free" meant for the next part's header are
  filled with file data (slip `overflow`).
* `mmap_cache.c:76`: the limit is tested before the new entry is counted ("Disallow
  more entries than MMAP_LIST_USE_MAX", mmap_cache.c:73). `CountsEntries` bounds
  the excess by one.
* `range.c:178`: a suffix at least as long as the file is cut to its last byte
  before it is used as a length ("last N bytes of the entity body", range.c:172).
  `SendsWhatIsAsked` excepts it (`Plain`).
* `poll.c:60`: "remove server_pfd" skips an index and copies the first entries, so
  the last blocked request loses its entry unless the last pass was interrupted
  (`dropped`).
* `range.c:191`: a range whose last byte is before its first is dropped and the
  others of the header are served, or 416 is answered, where "RFC2616, section
  14.35.1" (range.c:24) has the header ignored. `SendsWhatIsAsked` excepts it
  (`Plain`); `InsideFile` does not.
* `request.c:247`: `get_request` accepts one connection more than the limit, to
  tell it 503, where docs/boa.texi:452 says that the server "stops accepting
  connections". `ConnectionAccounting` allows the one.
* `pipe.c:129`, `cgi_header.c:357`, `cgi_header.c:364`: three ways for a request to
  wait for the child in PIPE_READ with data in its hands and the client's socket
  free (`Stuck`). A short write in `write_from_pipe`, called from `read_from_pipe`,
  leaves its rest to a read; `process_cgi_header` leaves all it has read to one for
  an HTTP/0.9 client, and behind a `Status:` field.
* `cgi_header.c:405`: what was read of the body with the header of a redirection is
  passed on among the headers (`Redirection`).
* `cgi_header.c:411`: a redirection longer than half the buffer (a `Location:` of
  about 1.9 kB) is written over its own source (response.c:292-304) or runs out of
  buffer (buffer.c:109); the DEAD this leaves is replaced by DONE, and the cut or
  spoilt page ends like a good one. `InOrderUnlessShort` and `WholeUnlessCut`
  except it (`Fits`).
* `pipe.c:83`: with a full buffer the closing NUL has no room in it.
* `cgi_header.c:357`, `cgi_header.c:424`: an HTTP/0.9 client gets the header's last
  newline, and HEAD loses it (`Expected`).
* `cgi.c:45`: CGIEnv lines have no effect until the first SIGHUP.
* `request.c:365`: a reload that adds common variables hides as many header
  variables of requests being read, and leaks them (`hit`).
* `alias.c:53`: an alias for `/` is hashed by an empty first component and matches
  only URIs that are (docs/boa.texi:419 "match the beginning of a request";
  `RootAlias`).
* `alias.c:109`: the loop against adding an alias twice does not look at the last
  entry; since the first match wins this changes nothing, which `FindsFirst` shows.
* `alias.c:276`: a POST to an alias's file is not refused.
* `alias.c:533`: with nothing behind the alias `pathname[++i]` reads past the NUL
  into what the static buffer held before. The outcome is the one modelled if the
  alias names a directory, which is assumed; for an alias of a file it is
  not determined.
* `config.c:303`: AddType takes the rest of its line as one extension, so a line
  with several gives its type to none of them (docs/boa.texi:414 "an extension or
  extensions", examples/boa.conf:189 "AddType type extension [extension ...]").
  `FirstTypeWins` is about the keys the code enters (`TypesOf`), and the instance
  has such a line.

## Theorems

All are proved for every value of the constants that satisfies the `ASSUME`s of
the modules, which TLC evaluates on every run: finite sets of requests, natural
limits and timeouts; non-empty ranges as `ranges_fixup` leaves them; streams whose
bodies come behind the header of a POST; scripts whose header ends with a newline
and an indexer's header that fits the buffer (it is the server's own), error pages
that fit in half of it; files whose aliases have a virtual path and whose components and extensions have a hash.
Every invariant that a passing run checks is stated by one of them.

* `RequestLoopProofs!ProcessType`: every outcome of `Process` is a return
  value `process_requests` knows and a well-formed request. It rests on one lemma
  per handler; `Updates` says that changing one field keeps a request well formed.
* `RequestLoopProofs!Accounting` (`ConnectionAccounting`): the inductive
  invariant is `ListsOK /\ LimitOK`. The count alone is not inductive: that
  `free_request` takes one connection off needs that the request in `cur` is on
  the ready list and in no other place, and that a new one is on neither; that
  the limit is passed by at most one needs that `pending_requests` and the server
  bit imply room, across `select`, the walk and each `get_request` of a pass.
* `RequestLoopProofs!TypeCorrect` (`TypeOK`), from `ProcessType` and `Accounting`
  (that `total_connections` stays natural is a fact about the lists).
* `RequestLoopProofs!Implementation` (`ImplementsTable`): each step of the loop
  is a step of `ConnectionTable` or a stutter, by the same invariant.
* `MmapCacheProofs!UseCounts`, `EntryLimit`, `EntryStable`: the invariant is the
  conjunction of the three properties, `TypeOK` and `OneEach` (a request holds at
  most one entry, and only while it serves a file).

* `RequestLoopProofs!ProcessSound`: what the outcomes of `Process` have in
  common beyond their type, as the loop's invariant needs it: a handler given a
  request that holds the descriptors its status needs (`Shape`) leaves one, unless
  it says that the request is over, and no handler touches `kacount`.
* `RequestLoopProofs!Ownership` (`FdInv`), and from it `Watched`
  (`WatchedExactly`) and `Owned` (`DescriptorsOwned`). `FdInv` says of the walk
  where the request in `cur` stands (`WalkOK`) and of every request what it owns
  (`Owns`): the shape its status allows (`ShapeOf`), the bit it waits with
  (`WaitingOf`), the bit it may have kept (`StrayOf`), the descriptors the kernel
  has open for it (`OpenOf`). Neither property is inductive: a request that timed
  out while its bit was set keeps the bit until `free_request`, so that a bit and
  a status can disagree, and only `StrayOf` says for how long. The lemma `Frame`
  says that a step on one request leaves what the others own alone.
* `RequestLoopProofs!NoRecycling` (`LameDuck`): an action property, by a case
  distinction on `free_request`.
* `MmapCacheProofs!TypeCorrect`: the cache's `TypeOK`, a part of the same
  invariant.
* Facts about lists (what `Filter` keeps, in which order, and how long the result
  is) are proved in each module that needs them, by the least counterexample in
  the naturals (`WFMin`, `NatLessThanWellFounded`), since the library's induction
  theorems have an operator as parameter.
* `PollLoopProofs!Invariance`, and from it `TypeCorrect` (`TypeOK`), `Polled`
  (`PolledUnlessDropped`), `OwnEvent` (`WokenByOwnEvent`) and `Implementation` (`ImplementsTable`). The
  invariant has the lists (`ListsOK`: both without repetition and disjoint), the
  limit (`LimitOK`), the size of the array (`SizeOK`), the index of each blocked
  request (`IndexOK`: its own descriptor, unless it is the one that was dropped)
  and `poll`'s answer (`AnswerOK`). That an index is right needs the order of the
  block list through `Filter`, and that a dropped request is the last of it.
* `RangesProofs!Invariance`, and from it `TypeCorrect` (`TypeOK`), `ReadsInside`
  (`InsideFile`) and `AnswersRequest` (`SendsWhatIsAsked`, of headers without the
  named exceptions, a reversed range among them), for every width of a
  long and of an int and every file length. `CharsOK` says that each range
  submitted has cost its hyphen, which bounds the list by the characters read;
  `SaidOK` that the words in the list stand for the numbers as written (`Written`).
  `FixedAsAsked` and `FixedEnds` are what `ranges_fixup` does to one range.
* `ClientStreamProofs!Invariance`, and from it `TypeCorrect` (`TypeOK`),
  `TakenInOrder` (`HeaderInOrder`) and `BodyFollows` (`BodyExact`). Every buffer
  holds a run of consecutive bytes of the client's stream; `StreamOK` says where
  each run begins (`StreamAt`), `BodyOK` the same of the stored body, `OrderOK` of
  the bytes taken as header, and `Quiet` that a CGI request, which has read
  beyond its own bytes, is not kept alive.
* `ClientStreamProofs!HeadersOnly` (`HeaderBytesOnly`). The property says nothing
  of where the server believes a header to begin, so it is not inductive;
  `HeadOK` says that while a header is read the server is at the client's place
  (`Agreed`: the same line of the same request, in the same state of the
  automaton), and that a response is written where the client begins its next
  request. The property has no exception, but `HeadOK` has: a client that has
  closed its side in the middle of a body, or a socket that has failed, is at a
  `DeadEnd`, where no byte is left to be taken for a header. `Agreement` is the step of one byte on both sides.
* `DeliveryProofs!Invariance`, and from it `TypeCorrect` (`TypeOK`), `InOrder`
  (`InOrderUnlessShort`) and `Complete` (`WholeUnlessCut`), for every list of
  non-empty ranges and every size of buffer and headers. `OrderOK` says that the
  wire, what is pending in the buffer, the bytes left of the first range and the
  end of the response behind it make up the response; it needs that a handler
  about to write directly finds the buffer empty (`PlaceOK`), which a short flush
  breaks, and that the list left is an end of the one asked for (`ListOK`).
  `LengthOK` says the same of the lengths only, which short flushes do not break,
  and gives completeness without the exception for them. The lemmas `FlushStep`,
  `RestStep` and `Completes` are what a flush, a step that sends nothing and
  `complete_response` do to the invariant, wherever they happen.
* `DeliveryProofs!NoRepeats` (`SentOnce`). `OnceOK` says that the wire, what is
  pending and what is still to be sent (`Left`: the bytes of the ranges left, the
  headers of their parts, the closing boundary) are disjoint and without
  repetition. Unlike the order, this survives a short flush.
* `CgiPipeProofs!TypeCorrect` (`TypeOK`), `OutputInOrder` (`InOrderUnlessShort`) and
  `OutputWhole` (`WholeUnlessCut`), for every size of buffer and socket and
  every script. The invariant is `Typed /\ InOrder`. `Typed` holds the indices
  inside the buffer whatever the order of flushes and reads, and says that while
  the header is parsed the client has been sent nothing (`Parsing`). `Flows` says
  what the response has come to: an error page or a redirection (`Paged`; `PageText`
  says which bytes, and `Apart` that it has room, so that it lies before what it is made of), the headers of a HEAD
  (`Headed`), the child's output behind what leads it (`Streamed`: what the
  client has, what `buffer_start` to `buffer_end` holds and what `header_line` to
  `header_end` holds are together what was read), or a cut one. The two regions
  of the buffer may overlap after a short flush, which is why order excepts it.
* `ReloadProofs!TypeCorrect` (`TypeOK`), `CommonKept` (`CommonIntact`), `NoLeak`
  (`NoLeakUnlessReloaded`) and `EnvComplete` (`EnvCompleteUnlessReloaded`), for
  every set of files and any number of requests and reloads. `ServerInv` bounds
  the common variables and says that they are allocated; `EnvInv` says what each
  slot of a request's array may hold: behind the common variables of this moment
  only the request's own strings (so that `free_request` frees nothing shared
  although the count has grown since the request began), and all of them if
  no reload came upon it; `HeapInv` says that an allocated string is common or in a
  slot that `free_request` will free; `NumbersInv` that requests share no strings.
* `ReloadProofs!FirstLineFound` (`FindsFirst`) and `FirstTypeFound`
  (`FirstTypeWins`): `TablesInv` says that the tables of a running server are
  what the lines of the file last read make of empty ones (`FromFile`), whatever
  was read before. The theorems then say that a chain keeps the first match of
  the file: an alias is only passed over by `add_alias` if an equal one is before
  it, and lines of other buckets match only the URIs that `RootAlias` excepts. A
  line's types are those the code enters (`TypesOf`): of an AddType line one key.
* `ReloadProofs!NoDots` (`CleanInside`) and `ScriptsSplit` (`ScriptSplits`), from
  `PathsInv`, which a reload leaves alone; the lemmas are about `CleanPathname`,
  `Behind`, `InitScriptAlias` and `TranslateUri` for every table and every URI.

Only model-checked: the temporal properties that depend on fairness
(`ShutdownCompletes`, `EveryConnectionEnds`, `AnsweredUnlessHeld`,
`EndsOnceChildEnds`, `PassedOnUnlessStuck`), which is out of the prover's reach, and
the three violations.

## Not modelled

* The text of request lines and headers, host names, dates: outcomes are choices
  in `RequestHandlers`, and lines are symbols in `ClientStream`.
* `alias.c:611` on (`path_translated`), user directories (`get_home_dir`),
  `create_argv`, the child's side of `init_cgi`: strings handed to another program.
* `cgi_header.c`'s prefix stripping and `access.c`: not in the default build.
* `io_shuffle` with read and write: not built where `sendfile` is.
* Start-up other than the configuration: sockets, privileges, backgrounding.
* `index_dir.c`, `log.c`, `timestamp.c`, `escape.c`, `ip.c`, most of `util.c`:
  formatting and system calls without state others depend on.

## Plan

1. *Done.* `RequestHandlers`, `RequestLoop`, `ConnectionTable`, `MmapCache`,
   `Delivery`, `Ranges`; the accounting, type, refinement and cache theorems.
2. *Done.* `PollLoop`, `ClientStream`, `CgiPipe`, `UriMap`, `Reload`.
3. *Done.* Proofs about descriptors and lame duck mode (`RequestLoop`), and the
   invariants of `PollLoop`, `Ranges`, `ClientStream` and `Delivery`.
4. *Done.* The invariants of `CgiPipe`, `Reload` and `UriMap`, and those of
   `ClientStream` and `Delivery` that were left.
