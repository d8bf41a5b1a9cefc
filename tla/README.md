# A TLA+ development for cpv-framework

cpv-framework is a C++ web framework on seastar: every core runs its own
reactor, its own http server and its own services, code is asynchronous
(futures and continuations), and nothing is shared between cores except the
state of the application. Within a core there are no data races, but every
`await` is a point where any other ready continuation may run. This directory
models the parts of the framework that keep state across such points, checks
the models with TLC on small instances, and proves the central invariants with
TLAPS for every value of the constants.

Paths below are relative to the root of the repository (`src/`, `include/` of
the framework).

## 1. Inventory

| Component | State it keeps | Operations | What makes it correct |
|---|---|---|---|
| `Application` (`src/Application`) | state, per-core data with modules, callers in progress | add, start, stopTemporary, stop, runForever | one call at a time moves the state; modules see states in order on every core; servers that started are stopped |
| `HttpServer` (`src/HttpServer/HttpServer.cpp`) | listeners, accept loops, collection of connections, timer | start, accept loop, timer, stop | the collection holds exactly the open connections; after stop() nothing runs; a silent connection is closed; a start() on a running server leaves nothing of it behind |
| `Http11ServerConnection` and its two streams | parser, receive and reply data, request queue, body queue, buffered next request | start, stop, onTick, receive loop with parser callbacks, reply loop, stream reads and writes | requests and bodies reach handlers intact and in order; each body goes to its own request; responses can be told apart; closing is final and ends |
| 404 and 500 handlers, handler chain | none of their own | handle | a failing handler leaves a response the client can delimit |
| `HttpServerRequestRoutingHandler` | map of full paths, tree of wildcard fragments | route, removeRoute, getRoute, handle | only handlers whose pattern matches; full paths first; fast path agrees with getRoute |
| `HttpServerRequestStaticFileHandler` | LRU cache of file entries, replier per request | handle, the chain of file operations, clearCache | one version per answer, honest encoding, lengths agree, cache limits |
| `LRUCache` | list of nodes, map of iterators | set, get, erase, clear | map and list agree; behaves as a recency queue |
| `Container` (`include/CPVFramework/Container`) | descriptors by type, storages of instances | add, get, getMany, patch, clear of a storage | one instance per lifetime, registration order, current dependencies |
| `Reusable` | free list of each type and core | makeReusable, deleter | the list never holds an object in use, twice, or with leftovers |
| `StackAllocator` | pointer, rest, count of live blocks | allocate, deallocate | blocks never overlap, are aligned, are recognised on return |
| `UUIDUtils` | last time stamp and clock id per core | makeTimeUUID, field access, parsing, min/max | a uuid repeats only after the clock was set back; fields survive every conversion |
| Http parser (`Http11Parser.cpp`) | state, header state, flags, length left, bytes of headers read | http_parser_execute with callbacks | what the callbacks get does not depend on how the bytes are cut; lengths are exact or refused |
| `Packet` and its input stream | one or many fragments, a chain of deleters | append, convert, toString, write, read | no fragment outlives its memory; content is the concatenation |
| `SharedString`, `SharedStringBuilder`, `readAll` | buffer, size | reserve, append of text and integers, resize, build | the text is what was appended, at every limit of a size |
| `Uri`, url encoding, forms, cookies | none | parse, build, encode, decode | reading what was written gives the same parts |
| `HttpRequest`, `HttpResponse` and their headers | strings, header members and map, additional headers, parsed uri and cookies | set, get, remove, append to a packet, recycle | caches are those of the current url and header; headers are those of this exchange |
| Json: sajson, serializer, converters | text that is decoded in place, one buffer for stack and document | parse, look up, convert, serialize | stack and document never meet; the document reads back as the text; models return |

How they interact: `HttpServerModule` constructs a `HttpServer` per core when
the application's services are registered, and starts and stops it with the
application. A `HttpServer` creates connections from accepted sockets, visits
them from a timer and stops them; a connection removes itself from the
server's collection. A connection runs a receive loop and a reply loop that
share a bounded queue of requests and a bounded queue of body chunks; the
reply loop calls the chain of handlers, among them the routing handler and the
static file handler, which keeps an `LRUCache`. Contexts, requests and
responses are `Reusable` objects; their containers use stack storage; their
services come from a `Container` with a storage per request.

Hard behaviours: the two loops of a connection interleave with handlers,
shutdown and timer; requests are pipelined and cut into packets anywhere;
`stop()` races with accepts that have resolved; calls of an application
overlap and fail on some cores only; a cache fill races with a clear; a
deleter runs inside itself; clocks and counters reach their limits; parsers
work in place, on input that may end anywhere; objects are recycled with
caches inside. The
hazards are listed line by line in `PROJECT.json`.

## 2. Modules

A module `M` is the component, `MCM` gives it instances for TLC, `MProofs`
holds theorems. `MCUtilities` and `MCFormats` bring components together that
share no state (`MCJson` has the inputs of the json modules). `Induction` has what
several proofs need about numbers, recursion and sequences. Names are those of
the source; a module's header says which files it models.

**Http11ServerConnection, ConnectionProperties.** A client's data is a *wire*:
the sequence of parser callbacks it causes, cut into packets anywhere between
two callbacks (a token that is *glued* arrives with the one before it, because
the parser fires both on the same byte). The parser appears here as
the callbacks it fires and what it returns when a callback refuses; its bytes
are those of Http11Parser. `recv` and `reply` say where the two loops are; each continuation is
one action, and a hot path that runs without waiting is part of the action that
enters it. `arrived` is a read that has resolved and whose continuation has not
run, which is where shutdown and data race. A handler may read the body, write
up to `MaxWrites` units of it and once nothing, which sends the headers, return or
throw at any point. `out` is what the client
can read, `delivered` what the current handler has read.

**ConnectionLifecycle** is the abstract specification of a connection as
`HttpServer` uses it: phase and timeout mark. `ImplementsLifecycle` states that
Http11ServerConnection implements it; **HttpServer** uses one such lifecycle
for each connection, and its property `EveryLifecycle` states that the server
only does to a connection what the lifecycle allows. `start()` checks a flag
that nothing sets, so the model also calls it on a server that runs, as
`HttpServerModule` does at a start after stopTemporary: the accept of the loops
of the call before is aborted, their futures are dropped, and a connection that
such a loop has accepted already may start at any later time. The history
variables `mode`, `abandoned` and `strays` name the loops and the connections
that escape `stop()` in this way; the properties except those and nothing else.
A new start() takes new sockets or fails, since the addresses may still be in
use. (In a debug build of seastar, arming the armed timer is an assertion; the
model arms it again.)

**Application** models each call as a chain of phases; a phase runs on all
cores, on each module after module, and fails if any core fails (after all have
ended). `HttpServerModule::handle` is part of it (`server`).

**RoutingHandler, StaticFileHandler, Container** model the classes of these
names. StaticFileHandler uses `LRUCacheSpec`, the abstract recency queue, for
its cache; **LRUCache** is the implementation with list nodes, iterators and
reused addresses, shown to implement LRUCacheSpec (`ImplementsLRU`). A file is
a version number with a size and a time stamp; replacing, removing or writing
into files are actions of the environment. An error after the head is out cuts
an answer short (`cutShort`); before, it makes a 500 of it, which keeps the
other headers. Bounds of a range wrap (`Unlimited` is the largest size_t). A `get()` of Container is a stack of
calls: of `getMany()`, of the factories of the descriptors it needs, of those
that their dependencies need. Each `getInstance()`, each dependency, each
instance that is made is an action; the dependencies of a constructor are
resolved in any order, as C++ evaluates arguments. An exception leaves all
calls and keeps what was made until then.

**Reusable** models the deleter with its local copy of the list's size as a
stack of frames, because `freeResources()` may run the deleter of objects of
the same type. **StackAllocator** keeps addresses and sizes as integers.
**TimeUUID** keeps the layout of the three time fields, with the number of
values of each as a constant. The system clock may be set anywhere at any time;
`OnceWhileSteady` says that a uuid is returned again only when a call in between
read a clock behind that of the call before it.

**Http11Parser, RequestReader, Bytes.** The vendored http parser as the server
uses it (requests, strict, no pause). Bytes are numbers. Each state or group of
states of the source is an operator of its name that takes the parser, the
receiver and a byte; `http_parser_execute` folds them over a packet, sets the
marks again at its start (`Resumed`) and hands what is left to the callbacks at
its end (`Leftovers`). The receiver holds what the connection's callbacks
(`on_url` and so on) keep. `ULLONG_MAX` and `max_header_size` are constants.
RequestReader gives it a wire, a packet at a time, as the receive loop does,
together with the rest that a pipelined request leaves. A byte that the
connection loses between two packets (`conn_lost_byte`) is marked `lost` and
excused in its properties, since that run is about it.

**JsonDocument, JsonReading** are sajson's parser and document: `words` is the
one allocation with the stack at its start and the document at its end, and
every value, structure, comma and white space is an action that also pays for
its bytes in the text, because nothing but the length of the text bounds the
buffer. `install_object` sorts by length and then by bytes, and JsonReading
finds keys as `find_object_key` does. The ghost `open` holds what the text
means.
**JsonText** is `parse_string` in place, byte by byte with its slow path,
`parse_number` with the switch from int to double, and `jsonEncode`. A text
comes with what it means: a string as its pieces and what ends it, a number as
the parts of a json numeral (`IsNumeral`), so that the reference does not read
bytes the way the parser does.
**JsonModel** is the serializer over tokens and the converters by type.
A double is its digits and exponent, never a rounded value.

**Packet** keeps for each fragment the chunk of memory it points into and for
each deleter the set of chunks it frees; a packet that was moved from is in the
state the variant is left in. **StringBuilder** keeps buffer and size apart;
`SizeMax` is the largest size_t, so that doubling and differences wrap, and
`IntMax` the largest integer, in two's complement.
**UrlText** has the parsers of uris, forms and cookies as folds over bytes.
**HttpMessages** gives strings an address and a text: what the caches compare
is the address. `MayMeetSource` says whether a string may be set at the address
of the one that was parsed.

## 3. Runs

All instances are the smallest in which the named situations occur.

| Run | Bounds | Shows |
|---|---|---|
| `conn_pipeline` | five wires of one or two requests (fixed and chunked bodies, split url and header, a `Connection: close` that the next header overrides, one that overrides and comes in two pieces, garbage), queues of 1 and 2, one write with a body per handler and one without, four kinds of response, handlers that fail at any point, half-close | every packet cut: requests and bodies intact, bodies with their requests, what the next response may follow |
| `conn_faults` | three wires, queues of 1, a byte limit of 8 and a packet limit of 3 that do bite, stop, timer, half-close, reset | responses in order under faults; closing is final; the lifecycle is implemented |
| `conn_live` | three wires, one of which stops in the middle of a body; fair; stop, timer, reset | queued requests are answered, closing ends, the timer closes idle connections |
| `http_server` | two connections, four sockets (two complete starts), two addresses; start() at any time but during stop(); fair | collection and accept loops, all or nothing but for what a start() on a running server abandons, stop() returns, silent connections close |
| `application` | two cores, two callers, one module with the http server, any handler may throw; fair | one driver at a time, modules and servers in step, every call returns |
| `static_file` | two requests, cache of one entry, three versions of different sizes, five forms of request | encodings, lengths and ranges as announced, one version per answer, only a file that is written into ends an answer early |
| `utilities` | each component on its own (`part`): four objects and a list of three with throwing `freeResources()`; a misaligned buffer of twelve bytes; two values per time field, two clock ids and four uuids, with a clock that jumps; three keys in a cache of two with three addresses; three services and three registrations; sizes up to 9 and integers of 8 bits, streams of up to two reads; four patterns that compete, two methods, two routes at a time | free list, disjoint blocks and reclaiming, uuids that are unique while the clock is not set back, refinement of the cache, instances, the builder at its limits, the right handler on both paths |
| `formats` | each component on its own: some seventy wires with every method, all kinds of headers and bodies, pipelines and malformed ones, each cut into packets at every byte, lengths of 8 bits and headers of a hundred bytes; all documents of up to 14 bytes; strings of up to three pieces, broken and cut ones; numbers around an int of 127; nested models; forms and cookies of up to three pairs, uris with and without host and query; two exchanges with three addresses; two packets of up to three fragments over three chunks, one empty and static | cutting changes nothing, lengths are exact, stack and document stay apart, documents and models read back, decoding in place, caches and headers are current, no fragment without its memory and no byte lost |

The components of these two runs share no state and never call each other, so
their product would only repeat the same behaviours: `part` is chosen
initially and the other variables stay. `formats` ends when all input is read,
which is why it does not check for deadlock.

Why the bounds are enough: the queues of a connection are at their limit with
one and two elements, and the third request is the first that can meet the
leftovers of two others; a cache of one or two entries evicts on every second
or third key; two callers and two cores give every order of overlapping calls;
nested deleters need three objects to lose one and a fourth to see it; time
fields of two values are all used within the bound. A document of 14 bytes has two nested
structures with siblings, or an object of two keys that must change places, at
the fullest its buffer can be; limits of 8 bits overflow in the third digit, as
64 bits do in the twentieth, and the parser's checks depend on the limit only
through the constant. In the container no resolution begins once two instances
were made, but one that is under way makes as many as it needs, so that a
service, its dependency and a patched one are made by the same call. Each property is also known to fail
for a plausible mistake in the code it is about (the mutants of
`PROJECT.json`; in the modules they are the definitions called slips).

### Disagreements

Four runs end in a violation and document a disagreement between the code and
the repository's own words:

| Run | What the code does |
|---|---|
| `conn_lost_byte` | drops the first byte of a pipelined request when it is the last of a packet |
| `application_cleanup` | refuses stop() after a start() that failed |
| `routing_rules` | does not find a matching route when another shares its first fragment |
| `stale_uri` | returns the parts of an old url when the new one starts at the same address |

The modules also state the following sentences of the repository, which the
code does not keep either. Each is quoted at its definition and can be
reproduced by giving it to TLC as the only property, with the constants named
here in place of those of the configuration that has the component's others
(`MCUtilities.cfg` for Container, Reusable, TimeUUID and the routes):

| Definition | Instance | What the code does |
|---|---|---|
| `QueuedOnceHeadersComplete` | `Wires <- ChunkedBodyOnly`, `RequestBodyQueueSize = 1` | waits for room for a body before the request that would read it is queued |
| `WellFormedNeverInvalid` | `Wires <- OneRequest`, `Environment = {"tick"}` | counts a well-formed request as invalid when it is parsed after a shutdown |
| `HandledSuccessfully` | `Wires <- OneRequest`, `Environment = {"reset"}` | counts a response whose flush has failed as handled |
| `CloseIndicatesEnd` | `Wires <- RequestThenGarbage`, `Responses <- OneUnframed` | writes an error response behind a response that only the close ends |
| `FixedSizeOrChunked` | `Wires <- TwoRequests`, `Responses <- OneChunked` | sends the message of the 500 handler unencoded under a `Transfer-Encoding: chunked` that the handler set (or behind headers that an empty write has sent), and keeps the connection |
| `ClosingEnds` | `SPECIFICATION ServerSpec`, `Environment = {"stop"}` | does not stop while a client does not read |
| `RefusedWhileStopping` | `OverlappingStart = TRUE` | does not refuse start() during stop(): the flag is never set |
| `StopStopsAll` | as in `http_server` | leaves loops and connections of a server on which start() was called while it ran |
| `HandleOrder` | `MaxModules = 2` | accepts stop() while modules still handle AfterStarted |
| `RestartsStopped` | one caller | starts a server again that stopTemporary() did not stop |
| `LatestRouteWins` | `Patterns <- FullPaths` | ignores a second route() for methods other than GET and POST |
| `FreshAfterClear` | `Asks <- Few`, `Size <- Growing`, `MaxCacheFileEntities = 2` | caches after clearCache() what was read before it |
| `EofMeansRemaining` | `Size <- WithEmpty`, `MaxCacheFileEntities = 0` | fails on an empty file that is not cached |
| `ErrorsUnencoded` | `Size <- EmptyCompressed`, `MaxCacheFileEntities = 0` | sends an error message with the Content-Encoding of the file that failed |
| `PatchedUsable` | `Services = {"handler", "unregistered"}`, `Implementations <- OnlyHandlers`, `Instances = {}`, `Patches = {"keeps", "loses"}`, `Storages = {"builtin"}`, `MaxDescriptors = 4`, `MaxClears = 0` | moves the patch function into the first of several factories |
| `BackToFreeList` | `MayThrow = FALSE` | deletes an object although the list has room, when deleters nest |
| `Increasing` | as in `utilities` | makes a later uuid that compares smaller |
| `Unique` | as in `utilities` | repeats a uuid after the clock was set back |

Reading the code for the formats showed more that is not as one would expect.
The models have these behaviours, and where a property had to leave a case out
the property or its input says so:

- Integers whose first digits exceed `INT_MAX / 10 - 9` become doubles, and the
  integer converters refuse doubles (`NumberExact`, `HasLargeInteger`); other
  integers are cast to the width of the member and wrap.
- A pointer member that is missing from the text is created before the
  conversion fails; a collection is appended to what the target already has.
- The first byte of a UTF-8 sequence may be a continuation byte.
- `LOWER` in the middle of a Connection header turns a tab into `)`.
- A callback that refuses at the last byte of a packet is noticed a packet
  later.
- A key of a form that is already there is not moved from, so that a later
  piece without `=` goes to it; values of forms and cookies split at every `=`;
  an empty last value of a query is not seen (`Sound` in MCUrlText), nor is one
  of cookies; a query behind a host without a path is read into the host.
- `/` is not url encoded; header names are compared by case.
- `readAll` may reserve a size that has wrapped; `MaxReservedCapacity` bounds
  it.

### Fairness

- Connection: weak fairness of `start()`, of the continuations of both loops,
  of resolving reads and of handlers that return: seastar's reactor runs every
  task that is ready, and a handler that never returns is the application's
  fault. That writes resolve (`ClientFairness`) depends on the client; it is a
  conjunct of its own, and without it (`ServerSpec`) `ClosingEnds` fails. Only
  `IdleConnectionsClose` assumes, in its own premise, that the timer ticks.
  Nothing makes the client send.
- HttpServer: continuations, the timer and `Closes(c)`, which is what
  `ClosingEnds` establishes for a connection under the fairness above. An
  accept need never resolve.
- Application: steps of a call on a core and of its chain; nobody has to call
  anything, and the program need not exit.

## 4. Proofs

| Theorem | Module | States |
|---|---|---|
| `TypeInvariant` | Http11ServerConnectionProofs | `TypeOK`, with the capacity of both queues |
| `Pairing`, `BodiesBelong`, `ClosingFinal` | Http11ServerConnectionProofs | the inductive invariant, `BodyBelongsToRequest`, `ClosingIsFinal` |
| `LifecycleImplemented` | Http11ServerConnectionProofs | a connection implements ConnectionLifecycle |
| `Answers`, `AnswersInOrder`, `AnswersDelimited` | Http11ServerConnectionProofs | `AnswerInv` and `FramingInv`, `ResponsesInOrder`, `ResponsesDelimited` |
| `Collects`, `RequestsIntact` | RequestProofs | `IntactInv`, `RequestIntact` |
| `Closers`, `KeptFramed` | RequestProofs | `ClosersInv`, `KeptResponsesFramed` |
| `ServerTypes`, `ServerInvariant` | HttpServerProofs | `TypeOK`, `ServerInv` |
| `CollectionExact`, `ServerWhole`, `LifecyclesKept` | HttpServerProofs | `RegisteredAreOpen`, `AllOrNothing`, `EveryLifecycle` |
| `ApplicationInvariant`, `ApplicationTypes` | ApplicationProofs | the inductive invariant, `TypeOK` |
| `StateIsALock`, `CoresInStep` | ApplicationProofs | `OneDriver`, `ModulesInStep` |
| `ContainerInvariant`, `InstancesAreRight` | ApplicationProofs | `ContainerInv`, `InstancesRight` |
| `StaticFileInvariant`, `OneVersionSent`, `HeadersAreHonest` | StaticFileProofs | `StaticFileInv`, `OneVersion`, `HeadersHonest` |
| `StorageInvariant`, `BlocksDisjoint`, `OwnBlocks`, `BufferReclaimed` | UtilityProofs | `StorageInv`, `NoOverlap`, `OwnBlocksRecognised`, `Reclaimed` |
| `LRUInvariant`, `CacheImplements` | UtilityProofs | `LRUInv`, `ImplementsLRU` |
| `UUIDInvariant`, `UUIDsAreSound` | UtilityProofs | `UUIDInv`, `UUIDsSound` |
| `ReusableInvariant`, `FreeListSound`, `FreeOwnNothing` | UtilityProofs | `ReusableInv`, `ListSound`, `OwnsNothing` |
| `RoutingInvariant`, `RoutesRight` | UtilityProofs | `RoutingInv`, `RightHandler` |
| `BuilderRight` | UtilityProofs | `BuilderHolds` |
| `StringsDecoded`, `NumbersExact` | FormatProofs | `DecodedInPlace`, `NumberExact` |
| `EncodedIsSpelt` | FormatProofs | what `jsonEncode` writes is a spelling of what it was given |
| `DocumentInvariant`, `StackAndTreeApart` | FormatProofs | `DocumentInv`, `Apart` |
| `CachesFresh`, `HeadersAreOwn` | FormatProofs | `CachesCurrent`, `OwnHeadersSent` |
| `PacketInvariant`, `PacketsOwn`, `PacketsKeepBytes` | FormatProofs | `PacketInv`, `NoDangling`, `BytesKept` |

**Assumptions.** Each module names what it assumes of its constants
(`WiresAssumption`, `LimitsAssumption`, `StorageAssumption`, ...): numbers are
natural, queues and caches hold at least one element, blocks have at least one
byte and a positive alignment, there are more nodes than the cache has keys,
`MaxTime` is a time stamp of 60 bits, services have an order in which each
comes after those its implementations depend on (the code recurses without end
when an application's dependencies have a cycle). Wires, queue sizes, responses,
environments, modules, cores, callers, services and their implementations, storages,
listeners, connections, files, requests,
texts, packets and the widths of fields are otherwise arbitrary. A wire is a
sequence of callbacks as the parser can fire them (`WellFormed`): a message
begins where the wire does and right after a message is complete, and nowhere
else (`NEW_MESSAGE`, and `on_message_begin` in the start state only); an
`on_body` has at least one byte (the parser calls it with what it has marked);
`bad`, bytes that no request has, comes last, because the parser keeps its error
until the connection closes. Whether a wire has a url, headers or an end is
left open. Some theorems have a hypothesis more:

- `ServerInvariant`, `CollectionExact` and `ServerWhole` assume
  `OverlappingStart = FALSE`, that nobody calls `start()` while `stop()` runs;
  `start()` on a server that runs, and after a failed one, is included.
  The only caller is `HttpServerModule`, which the state of an Application
  keeps from doing so (`StateIsALock`, `CoresInStep`). Without it the code does
  not refuse the call (`RefusedWhileStopping`). `ServerTypes` and
  `LifecyclesKept` hold without it.
- `CachesFresh` assumes `~MayMeetSource`: no string is set at the address of
  the one that was parsed. The run `stale_uri` shows what happens otherwise.

**Bodies belong to their requests.** The request stream throws a
LogicException when the chunk at the head of the body queue has another
request's id. That it never does is not inductive: it depends on what both
loops have done before. `PairingInv` has five parts. *ControlInv* ties the
positions of the loops to the parser's state and to the abort of the queues.
*PushingInv* says what a suspended push holds. *RequestIdsInv*: ids in the
request queue are consecutive and end below the receive loop's.
*BodyOrderInv*: chunks are sorted by request, nothing follows a request's last
chunk, and no chunk is older than the request being handled, nor of it once the
body is consumed. *BodyEndInv*: a request that still expects chunks has its
last one in the queue unless the receive loop is still working on it. The last
part is the one that excludes the bad case: a reader whose request is complete
finds its own end before anything of the next request. The proof has a lemma
for each action or small group of actions, and lemmas about appending to and
taking from the queues.

**Closing is final** and **LifecycleImplemented** follow from the same
invariant: the queues are aborted exactly when the state is Closing or Closed,
so a continuation that runs late cannot queue, start a handler or change the
state back.

**Responses in order and delimited.** `AnswerInv` counts: the responses that
were begun are those of the requests before the one being handled, plus its
own once the headers are out; while the loop waits, they and the queued
requests add up to the next id to be pushed. It needs `RequestIdsInv`. An error
item can only be last because every branch that writes one ends the loop.
`FramingInv` says why the loop may go on: the stream's byte counter is the
number of body items of this request, and the headers that are out are those
of the response that is compared with it, or were sent before its handler failed
(`SentAs`). A failed handler leaves a response of fixed length: `reply()` sets
Content-Length whether the headers are out or not, keeps the other headers, and
writes the message as it is. If any body was written before, the counter is
above that length and the connection closes. If none was, the connection may be
kept, and the headers that are out need not fit the message: they may say
chunked, which `reply()` does not take back, or have been sent by an empty
write. This is the one case in which the end of a response that is followed
cannot be told (`MessageMisplaced`); `ResponsesDelimited` is that there is no
other, and the table of disagreements has the sentence that it breaks.

**Requests intact.** The reference is cut out of the whole wire: the pieces a
handler has of a url, a header or a body are the data at exactly the positions
which that message has on the wire, in order (`PiecesAt`). `IntactInv` says the
same of everything under way. *WireInv* and `Place` are the position of the
receive loop: what was read and not parsed, the rest that a pipelined request
left and what the client has still to send are the wire after it.
*CollectedInv*: the last callback says which part of the message is being
collected, and url, field, value and finished headers are what the message has
shown up to there. *RequestsSent*: what is queued or held by a suspended push
is a whole head, and an entry that claims to have no body has none. *FlowInv*
follows the body: between the handler and the receive loop lie the chunks in
the queue and those still to be pushed (`Flow`), and there is a cut for each,
the position where it ends, such that each chunk extends the body of its
request from the cut before it, the first from where the handler is, and the
parser's position is where the last one ends. An empty buffer extends a body
by nothing and may only mark its end, which is why the parser's non-empty
`on_body` matters. `PairingInv` is needed throughout: it says which request a
chunk is of and when the handler changes.

**Closers are last.** `ClosersInv`: while the connection may go on, no request
answered so far asked to close. The reply loop looks at the last
Connection header among the pieces the receive loop kept, the property at the
last one on the wire; `IntactInv` makes them equal. Names and values are
compared joined: `ConnectionNames` and `KeepaliveValues` are the ways in which
packets may cut `Connection` and `keep-alive` into pieces, any sets of
sequences in the proof. A position on the wire belongs to one piece only, so
two ways to take a header from the wire give the same pieces (`PiecesUnique`, by
the smallest counterexample), and what the loop compares is what was sent.
Together with `AnswersDelimited` this is `KeptResponsesFramed`.

**HttpServer.** `ServerInv`: every accept loop is among the server's futures
or was abandoned and has its accept aborted, the first half of `stop()` waits
for exactly the futures, and in the second half there are none and the
connections waited for include all of the collection but those that an
abandoned loop started too late. This is why no other connection can join after
the wait for connections has begun, without which `AllOrNothing` would not
follow.

**Application.** `DriverInv` says which phases may follow which in a call's
chain and that the state word is that of the only call that moves; `StepInv`
says for each core what being done with a phase implies (`CoreInv`), that the
cores agree on the number of modules from the registration of services on, and
where the http server is in each state. `add()` may be called while a start()
waits, so the proof also keeps every core's loop within the modules it has
(`Bounded`).

**Container.** That there is one instance for each lifetime is not inductive:
between the test that a descriptor has no instance and the moment when one is
kept, the factory runs, and resolves dependencies that may be persistent
themselves. `ContainerInv` therefore has the stack of calls (`CallsSound`): a
call is only of a descriptor that has no instance, and calls go from a
descriptor to one that comes before it (`Before`), by the rank of its service or,
from a patch to what it wraps, by age. A factory thus never runs below itself,
and what is made deeper in the stack is kept for another descriptor. *KeptSound*: what
is kept was made by the descriptor it is kept for, and what was made is kept as
long as its lifetime says. *RegistrySound*: a factory refers to the collections
that `descriptorsMap` has now, which is what makes later registrations and
patches show through (`PartsCurrent`). Each call has exactly the instances of the
descriptors it has found (`Filled`), so that what it makes has current parts.

**Static files.** The invariant follows a request through its chain:
what `stat()` decided belongs to the file that was opened (`OpenSound`), what is
sent or cached is what was read of it (`AnswerSound`, `EntrySound`), only a
file that was written into ends too early (`EndSound`, which needs that a part
lies within the size that `stat()` gave), and the compressed file was missing
for whoever stopped looking for it (`SearchSound`).
`OneVersion` is not inductive, because it says nothing about files between
`stat()` and `read()`.

**Allocator.** `StorageInv`: pointer and rest add up to the end of the buffer,
the count is the number of live blocks, live blocks lie between the start and
the pointer and are pairwise disjoint. The count is needed because it alone
resets the pointer.

**Reusable.** The deleter stores at a slot it chose before nested deleters ran.
`FramesSound`, the strengthening, says that all slots below a running deleter's
slot stay filled by free objects and that no object is in two deleters at once,
so the stale size overwrites (which loses an object, see `BackToFreeList`) but
never leaves a hole or a duplicate.

**LRU cache.** `LRUInv`: the map leads to the node of its key, every node of
the list is led to, no node is twice in the list. With it every operation is
the step of LRUCacheSpec of the same name, or a stutter. Addresses of erased
nodes may be reused at once, which the invariant permits.

**Uuids.** `UUIDInv`: every uuid was made of a time stamp and a clock id, and
if no call has found the clock set back since, they are below the two statics
in lexicographic order. That packing loses nothing is
arithmetic of division (`Division`, `TimeFields`, `FirstHalf`, `SecondHalf`),
proved for all widths of the fields.

**Induction over data.** The library's induction theorems take an operator,
which no installed prover instantiates. `Induction` therefore starts from the
one instance that is about a set: the order of the natural numbers is well
founded, so that a set of them has a smallest element (`Smallest`). From it
follow induction up to a number (`UpTo`), that a function defined by recursion
exists and satisfies its equations (`Recursion`, `Iteration`), that what every
step keeps holds of the last (`KeptUpTo`), and how a sequence of sequences is
put together (`FlattenJoins`). That a finite set can be listed, each element
once (`SetAsSequence`), comes from the library's bijections. The modules that are proved about define by
recursive functions and folds, never by recursive operators.

**Routes.** `RoutingInv`: the maps of full paths and of nodes hold, for each
method, in slot and hash map alike, a handler that was given to that path and
not removed since (`MapSound`); every node of the tree has those on its way,
and every route has its place. A lookup keeps a stack of choices; by induction
over its turns the node it stands at always spells a pattern that agrees with
the path read so far (`TurnsReach`), so what it finds matches
(`FoundMatches`), and a full path that was routed is found (`SpeltIsFound`).

**String builder.** The invariant says that the buffer begins with the text
and is as long as `size_`, and that what was handed out is what was expected;
`ReserveHolds`, `WrittenHolds` and `CollectedHolds` say so of the helpers, also
when the doubled capacity wraps or a size hint is wrong. That integers are read
back is by induction over their digits: the digits of a value evaluate to it
modulo the width (`ValueByDigits`), fit into the room that `getMaxStringSize`
reserves (`DigitsFit`), and the smallest integer, which has no positive
counterpart, is handled because its digits are taken of the rest of a
truncating division. `BuilderAssumption` uses of the width only that the
largest integer does not end in nine.

**Json.** Nothing tests that the stack and the tree, which grow towards each
other in one buffer, stay apart. `DocumentInv` has the budget (`Room`): the
words in use on both sides never outnumber the bytes read, because each
structure has paid two bytes and each element its separator. `BasesSound` adds
that every saved base leads to the root below the top of the stack; without it
a pop could not be shown to find its words.

**Strings in place.** `StringInv`: the parser has read the first *k* pieces of
the string for some *k*, the bytes before `end` are what these mean, and
everything from `p` on is as it was given. Decoding never makes a piece longer
(`MeaningFits`), which is why `end` cannot overtake `p` and the unread bytes
survive. One step reads exactly one piece because the pieces of a string are
prefix free (`OnePiece`): an escape, a unicode escape, a pair of surrogates, a
multibyte sequence. A text is any sequence of pieces followed by any ending, so
the theorem speaks of all strings and of all broken and cut ones that
`TextAssumption` lets a `.cfg` choose. `EncodedIsSpelt` is the other
direction: what `jsonEncode` writes consists of such pieces and means the bytes
that were encoded.

**Numbers.** `NumberInv`: the locals of `parse_number` are the value of the
digits read so far (`HasRead`), the switch to double loses none of them
(`Widen`), the exponent counts the digits after the point, and the power of ten
is capped where further digits could not matter (`CappedDigit`). At the end
`NumberExact` compares with a value computed from the numeral as a whole. A
fraction longer than an int can count is excluded (`IsNumeral`): the exponent of
the code is an int and would overflow.

**Caches of a request.** What was parsed is that of the source it remembers,
and a source with the same address has the same text (`CachesInv`).

**Headers of a response.** `HeadersInv`: the collection is what was set in this
exchange, every cookie says when it was added, and lines that were written are
those of now. The rest is counting the lines of a key (`LinesOwn`).

**Packets.** `PacketInv`: a packet has the shape of its kind and its deleter
covers its fragments (`Covered`). Nine combinations of `append()`, two ways to
move, the conversion and the input stream keep it. `BytesInv` gives every chunk
its place among the fragments (`Placed`), increasing and leaving out only
fragments without bytes. Places of the second packet move up by the length of
the first (`PlacesJoin`), and the stream has read the chunks whose places it
has passed, which is why the first fragment with bytes after its index is the
place of the next.

**Only model-checked.** Everything under fairness (`ClosingEnds`,
`RequestsAnswered`, `IdleConnectionsClose`, `StopReturns`,
`SilentConnectionsClose`, `CallsReturn`), which is out of the prover's reach.
`CutIndependent` and `WireUnderstood` compare whole runs of the http parser
over the same bytes, a fold over some seventy states; a proof needs an
invariant with a case for each of them. `DocumentReadable` and `ModelReturns`
are about trees of any depth, and what is written of them is defined with
recursive operators, which are out of the prover's reach. `PartsReadBack`
composes the parsers of uris, forms and cookies with their writers, each a
fold over bytes.

## 5. Not modelled

The html entities and the mime types (3500 lines of constant data, looked up by
key); what the server does not use of the vendored parsers: responses,
pausing, `http_parser_parse_url` and sajson's dynamic and bounded allocations;
the text and the rounding of floating point numbers; form serializers, which
are the json ones over the forms of UrlText; formatting of dates, logs and
messages; sockets and files below the calls that can fail; exceptions, traits
and the debug allocator, which have no behaviour of their own; metrics other
than those a property counts; configuration records, whose values are constants
here; tests and examples. Requests are of HTTP/1.1: the default of HTTP/1.0, where a
connection without a Connection header is closed, is left out. A handler that
announces chunks encodes what it writes and ends it when it returns; one that
does not is the application's fault, and only the message of the 500 handler,
which is the framework's own, is taken as it is.
Request ids are natural numbers, although the code's are 32 bits:
they are only compared for equality, between requests at most a queue apart.
Dependency cycles in the container recurse without end in the code and are
excluded by `ContainerAssumption`.

## 6. Plan

What is left, in the order of importance:

1. That Http11Parser implements the callbacks which Http11ServerConnection
   takes from a wire, as a refinement instead of two models of one parser.
2. Form serializers and random uuids.
