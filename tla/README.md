# A formal model of shoryu

TLA+ modules, TLC runs and TLAPS proofs about the networking library in
`src/`: UPnP device discovery and port forwarding (`net`), a counting
semaphore (`boost::semaphore`), round trip time statistics over binary
streams (`shoryu`), and the XML library the repository carries with it,
`src/pugixml`, which has no tests here and is most of the code.

    tlc -workers 2 -config DeviceFinder_faulty.cfg MCDeviceFinder
    tlapm DeviceFinderProofs.tla

`PROJECT.json` lists the runs, the theorems, the faults that show that each
property can fail, the source lines each definition stands for, the findings
and the hazards.

## 1. The system

| component | state | operations |
|---|---|---|
| `semaphore` (`semaphore.hpp`) | `_count`, `_mutex`, `_cond` | `post`, `wait`, four `timed_wait`s |
| `upnp_device_finder` (`upnp_device_finder.hpp`) | `_socket`, `_streambuf`, outstanding receives | `start`, `stop`, `async_find`, `recv_handler` |
| `inet_gateway` (`inet_gateway.cpp`) | `control_url`, `service_type`; the caller's `port_mapping`; the gateway's table | `parse_info`, `get_internal_ip`, `get_external_ip`, `add`, `find`, `remove` |
| `execute_request` | a TCP stream per call | one exchange, blocking, without a time-out |
| `http_response`, `upnp_response` | the fields read | `operator>>` |
| `http_request`, `upnp_request` | the fields to write | `operator<<` |
| `url`, `parameter_map`, `encoding` | values | parsing, writing, `urlencode`, `urldecode` |
| `rtt_statistics` (`rtt_statistics.hpp`) | `_remote_ts`, `_recv_ts`, `_avg`, `_min`, `_max` | `get_header`, `parse_header` |
| `binary_mode` (`binary_mode.hpp`) | a reference to a stream | integers in network order |
| `hash_value` | none | hashes of endpoints |
| pugixml, memory | pages of a document, their list and counters; strings of names and values | allocation, `strcpy_insitu`, `reset` |
| pugixml, documents | nodes and attributes, linked in both directions | inserting, removing, copying, walking, paths |
| pugixml, texts | a buffer that is parsed where it lies; a buffer that is written | `load_buffer`, `save`, conversions of encodings |
| pugixml, XPath | a compiled query, variables, two allocators per evaluation | compiling, evaluating, sorting |

How they interact:

* An application calls `start`, which sends a multicast search, and
  `async_find`, which arms a receive.  The `io_service` calls `recv_handler`
  with a datagram or an error.  The handler reads an `http_response` out of
  the shared `_streambuf`, takes its `location` for a `url`, fetches that
  with `execute_request` *inside the handler*, and gives the document to
  `inet_gateway::parse_info`.  It then calls the application's callback with
  the device, or arms another receive, or does neither.
* The callback calls the methods of the gateway, each a blocking exchange
  of a `upnp_request` for a `upnp_response` with the gateway's server.
* The two ends of a connection put an `rtt_header` on their packets by
  `binary_mode` streams.
* Answers of devices and gateways are parsed by `pugixml` and read with XPath
  queries.  A document owns the pages its nodes lie in; names and values lie
  in the buffer that was parsed until they are changed; an XPath query reads
  the document's links and tells the order of nodes by the places of their
  names in that buffer.
* The semaphore is used by no other part of the repository; its callers are
  any threads.

What is hard, and what makes each part correct:

* *semaphore*: the order in which threads lock the mutex, are notified, time
  out and wake spuriously.  No permit is lost or handed out twice, nobody
  sleeps beside a free permit, and the whole is an atomic counter.
* *finder*: datagrams of other devices, failures at each step, `stop`,
  exceptions and nested calls, around one buffer.  No find is forgotten,
  worked for twice or called twice; a datagram is received behind what is
  still unread and is read from its own first byte; while the `io_service`
  runs a search gets to the gateway, and `stop` ends it.
* *gateway*: several control points, lost and damaged answers, requests
  served after their caller has given up, leases that end.  `true` means
  done, a call acts at most once, and `find` tells what was there.
* *rtt_statistics*: clocks with different origins, unsigned arithmetic, lost,
  late, duplicate and reordered packets.  An answer tells the true round
  trip, and the statistics are those of the true values.
* *pugixml, memory*: objects and strings freed in any order, texts that are
  overwritten or replaced.  Nothing in use is handed out or given back, and
  what is given back is all that is idle.
* *pugixml, documents*: lists whose `prev` is a ring and whose `next` ends,
  changed at both ends, and copies into the tree that is being walked.  The
  document is an ordered tree, and an operation changes what it names.
* *pugixml, texts*: a parser that overwrites the text it reads and keeps its
  last character aside; characters of several bytes cut by buffers.  All of
  the text is seen, nothing beyond it, and a saved document loads back.
* *pugixml, XPath*: sets that are sorted, taken for sorted or reversed;
  memory given back at once when a scope ends.  Answers are what XPath says.

## 2. The modules

| module | what it is |
|---|---|
| `AbstractSemaphore` | promise: an atomic counter of permits |
| `Semaphore` | the code: counter, mutex, condition variable |
| `SemaphoreLedger` | the code with a count of permits given and taken |
| `SemaphoreProofs` | theorems about both |
| `Url`, `GatewayDescription` | operators for parsing, shared by what follows |
| `HttpResponse` | reading a response, and what an answer becomes: `true`, `false` or an exception |
| `AbstractFinder` | promise: datagrams are taken in order, each for the find in progress |
| `DeviceFinder` | the code: finder, application, `io_service`, network |
| `DeviceFinderProofs` | its theorems |
| `AbstractPortMapping` | promise: atomic operations on a gateway's table |
| `PortMapping` | the calls, the connections, the gateway |
| `PortMappingProofs` | `PortMapping` implements `AbstractPortMapping`, and its invariants |
| `RttStatistics` | two peers, their clocks, their packets |
| `RttProofs` | its theorems |
| `XmlMemory` | pages, blocks and strings of a document |
| `XmlMemoryProofs` | its theorems |
| `XmlKinds` | which kinds of nodes have what |
| `AbstractTree` | promise: an ordered tree |
| `XmlTree` | the code: linked nodes and attributes |
| `XmlTreeProofs` | what each operation on the links makes of a list; `XmlTree` implements `AbstractTree`, and its invariants |
| `XmlDocument` | copies, walks and searches over them |
| `XmlChars`, `XmlEncoding`, `XmlText` | character classes; encodings; conversion in place |
| `XmlParser`, `XmlWriter` | from a text to nodes, and back |
| `Codec` | `urlencode`, `parameter_map`, bodies of requests, integers |
| `Texts` | all of these on every short input |
| `XPathSort` | the steps of `sort` and what it calls, and of `unique` |
| `ArraySort` | an array is filled, sorted step by step, then thinned out |
| `ArraySortProofs` | sorting ends, and is right |
| `XPathMemory` | the allocators of an evaluation |
| `XPathMemoryProofs` | theorems about these allocators |
| `XPathNodes`, `XPathParser`, `XPathEval` | order, names and texts of nodes; from a query to its expression; to its value |
| `XPathMeaning` | promise: what a query means, in sets |
| `XPath` | documents, variables and queries, compiled and evaluated |
| `MC*` | instances for TLC; the semaphore needs none |

`DeviceFinder` uses `HttpResponse` and `GatewayDescription` (over `Url`);
`PortMapping` uses `HttpResponse`; `Texts` uses `XmlParser`, `XmlWriter` and
`Codec`; `XPath` extends `ArraySort`, and `XPathMeaning`, which extends
`XPathEval` and all it rests on.  Definitions whose
comment begins with "Fault" are wrong on purpose: each stands for a plausible
bug, takes the place of a definition of the model in one trial, and must break
the property it is paired with.  No action of the specifications uses them.

### Semaphore

`count` is `_count`; `pc[t]` says whether a thread is outside, about to lock
the mutex, in the queue of `_cond`, or out of it and about to lock again;
`op[t]` is the call it is in.  Everything the code does between getting the
mutex and giving it up is one action: `Post` (lines 17-18), `Take` (predicate
true, `--_count`), `Sleep` (predicate false), `Fail` (`timed_wait` returns
false).  `NotifyOne` takes one sleeper, any one, out of the queue, or none if
nobody sleeps.  `WakeByTimeout` and `WakeSpuriously` need no mutex, as in
Boost.  After a time-out the predicate is tested once more, and its value is
what `timed_wait` returns; the four overloads differ only in how the
deadline is written.  The counter counts modulo `W`.

### Device finder

One thread runs the application and the handlers, as `tests/tests.cpp` does;
the network acts between any two steps.  `recv_handler` blocks in
`execute_request`, hands control to the user's callback, and arms the next
receive before it consumes the datagram it has.  So it is up to three steps:
`Handle` (lines 86-104), `Fetch` (105-112), and then `CallbackReturns` or
`CallbackThrows`, or, if `async_find` has been called (line 112), `Consume`
(line 116); in between, the receive that has been armed may complete.  The application may call `start`, `stop` and `async_find`
between handlers and in the callback.  `find[f]` is the fate of one call of
`async_find`; `ops` are the receives that wait or have completed;
`buffer` has the positions of `_streambuf`: where it is read (`get`), where
the next datagram is committed (`put`), and where its memory ends; a receive
(`ops`) keeps the place that `prepare` gave it.  `Prepared`, `Committed` and
`Consumed` are what `boost::asio::streambuf` does to them, moving what is unread
to the start of its memory and enlarging this included; memory is told apart by
its length, since it only grows.  `escaped` says that an exception has left
`io_service::run`.

A datagram is abstracted to what the code tests: how many bytes it has,
whether there is a status line, complete headers, a usable Content-Length, and a
location.  The
servers' answers are given by `Documents[endpoint]`; a server with an empty
set of answers accepts and stays silent, and `execute_request` waits for it
without a time-out.

`AbstractFinder` knows none of this: a queue of the datagrams heard, the fate
of each find, the callback that runs.  Its queue is `inbox` with the datagram
that a receive or the handler has in hand before it (`Heard`), and
`Devices[r]` the control URLs that the server named in reply `r` may lead to.

The application has at most one find in progress (a guard of `AsyncFind`).
Nothing in the class enforces this, but two receives prepare the same part of
one `boost::asio::streambuf`, which its documentation does not allow; see the
hazards.  That the handler, too, leaves one receive at most is a consequence
(`OneReceive` in the proofs), and so is that each has its place in the buffer
(`ReceivesBehindUnread`): the callback may start the next find, and line 112
goes on with this one, while the datagram in hand is not yet consumed.

### Port mappings

Each caller has a `port_mapping` (`obj`), a place in its call (`pc`), and the
outcome of its last call (`result`).  A call is `Call`, then `Grant` or
`Refuse` when the gateway gets to the request, then `Answered`, in which the
answer is read, whole or cut; or it is `Call` and `NoAnswer`, after which the
request may still be with the gateway (`late`, `ServeLate`).  `Answered`
contains the code of the caller from `&& res` to `return`, with `Verdict`
for the two conversions and, in `find`, the assignments in their order up to
the one that throws (`Assigned`).  The gateway is external: it keeps a table
by protocol and external port, refuses a port that another host has, may
refuse anything, and ends leases.  The text of requests is not modelled: a
request is the operation with the `port_mapping` it was made from.

`internal_client` also stands for `description`, which is read and written
next to it in the same way.

### Round trip times

`stat[p]` has the five members; `Clock(p)` is the true time plus a skew,
modulo `W`.  Packets stay in `net` and may be received any number of times,
in any order, or never.  `Send` is `get_header`; `Receive` is `operator>>`
with `parse_header`; `ReceiveCut` is the same for a packet that ends within
the second timestamp, which `bin_istream::read` does not notice.  A packet
cut within the first timestamp makes the second read throw, and leaves
everything as it was.  `Init` lets the two uninitialised members hold any of
`Garbage`.  `Adjust` sets a peer's system clock, which `nanosec_clock` follows.
History variables record what the headers ought to tell, and when they cannot:
`echo`, `sent`, `truths`, `tainted`, `steady`.

### Memory of a document

`page[p]` has the links and counters of a page, `root` and `top` are `_root`
and `_busy_size`, `block[o]` is where a node or attribute lies and `text[o]`
its text: in no memory, in the parsed buffer or in a block of its own, with
the length that fits there.  One text stands for the name and the value.
`Create`, `Destroy`, `Clear`, `Overwrite`, `Replace` and `Reset` are the calls
whole, with all the pages they link and unlink.  Sizes are numbers of words;
a header that cannot hold a block's size counts it as the whole page, as the
code does.  `malloc` that fails is a call that is refused.

### Documents

`dom` has the fields of the node and attribute structures.  An action is a
call: the four insertions at and beside a place, for nodes and for attributes,
with or without a name; removal, which destroys all that is below; names and
values; copies.  `WithChildren` and `WithAttributes` give the same list
operations their two readings, since the code has every one of them twice.
`NodeStep` and `AttributeStep` read `dom` as an `AbstractTree` and say that
every step is one of the tree's operations (`TreeOperations`); `DocumentIsTree`
is the whole of `AbstractTree` for documents without copies.  A call with a
handle of another document, or one that the code refuses, changes nothing and
is no step; `BelongsIsRight`, a part of `ListsAreRings`, is about the test
that refuses an attribute of another node.

### Texts

A state of `Texts` is an input that grows by a token.  The operators work as
the code does on the buffer itself: `XmlText` keeps the gap that conversions
leave, `XmlParser` puts NULs after names and values as it goes and reads them
back from the buffer in the end, with `endch` as the character kept aside.
`XmlWriter` fills a buffer of `BufCapacity` characters and converts it when it
is full; `XmlEncoding` counts first and writes then, as the code does.  Bytes
and characters are numbers.  `PercentDecode` and the rest of `Codec` are read
off `encoding.cpp`, `parameter_map.cpp`, `upnp_request.cpp` and
`binary_mode.hpp`.

### XPath

`XPathParser` is the recursive descent of `xpath_parser` over the lexer's
states; one operator, `Parse`, stands for all of its methods, so that every rule
can use every other.  `XPathEval` has one operator per method of
`xpath_ast_node`; each takes the memory of the evaluation and returns it with
the value.  `XPathMemory` knows the blocks of the two allocators, which object
lies where, and `ok`: whether each `assert` held, each object used was there and
each capture ended with what there was when it was made.  `c` is the context,
`r` the allocator results go to.  A node set carries the order it claims, as the
code's does, so a false claim has its consequences.  `XPath` edits a document
(parsed items have places in the buffer; inserted and renamed ones have none),
compiles queries against the variables there are, evaluates them from any node
as any type, and keeps an answer in a variable for another query.
`XPathMeaning` says the same of queries without order, memory or types of sets,
and shares nothing with `XPathEval` but the texts and numbers of single nodes.

A sort on its way (`XPathSort`) is a record of the array, the range in hand, the
ranges its calls and loops go on with, where in `sort`, `partition` or
`insertion_sort` it is, and the iterators there; `SortStep` is the next round
of the loop it is in.  `ArraySort` makes behaviours of it: an array grows, `Begin`
calls `sort`, `Proceed` takes a step, and `ThinOut` takes those of `unique`, as
`remove_duplicates` does.  `XPathEval` runs the same steps to the end
for the sets of an evaluation.

## 3. What is checked

| run | instance | shows |
|---|---|---|
| `semaphore` | 3 threads, 5 posts, a counter of 4 values | `TypeOK`; `NoLostWakeup`: while anyone sleeps there are at least as many threads on their way as permits; `NoOverdraft` and `NoPermitLost`: permits given and taken balance; `AtomicSemaphore`: safety and liveness of the abstract counter |
| `finder_faulty` | 2 finds, 3 datagrams, every fault | `TypeOK`, `EveryFindAccounted`; `ReceivesBehindUnread`: a receive that is outstanding writes from the buffer's put position on, in its present memory, also between line 112 and `consume`; `CleanBuffer`: no bytes of a datagram are left for the next, unless an exception escaped; `PromiseKept`: every step is one of `AbstractFinder`; until an exception leaves `io_service::run`, `StopEndsFinds`: after `stop` the find in progress ends, unless a server keeps silent; `SearchGoesOn`: devices that are not gateways but give their descriptions do not end a search |
| `mapping` | 2 callers, 1 port spelled in two ways and 1 port of the first caller's own, 3 calls, late requests | `TypeOK`, `AtomicOperations`, `OwnerIsRight` |
| `rtt` | 2 peers, 3 packets, 4 receipts, clocks 9 or 14 ahead, `W` = 128, leftovers in the uninitialised members, cut packets, one clock set back | `TypeOK`, `FirstSampleKnown`; while `steady`: `HeaderTellsRoundTrip`, `StatisticsAreTrue` |
| `xml_memory` | 3 objects, 3 pages of 4 words besides the sentinel, texts of 1 to 6 | `TypeOK`; `BlocksAreSafe`: blocks in use lie apart and in pages that are there, and a text never outgrows its place; `CountersAgree`: pages count what is in use; `ListIsSound`: the links are a list of those pages, and a page nothing lies in is given back |
| `xml_document` | 4 nodes, 2 attributes, every operation | `TypeOK`: no pointer of what exists leads to what does not; `ListsAreRings`: lists read the same backward as forward, children lead to their parent, and an attribute is taken for a node's own only if it is; `TreeOperations`: each step is one of the abstract tree's, of its nodes or of their attributes; `CopiesAreFaithful`, also into themselves; `WalksAreComplete`: traversal is preorder and reaches all, a path finds what is there |
| `texts` | documents of 5 tokens, pieces of 4, 5 bytes, trees of 3 nodes, maps of 2, integers of up to 8 bytes | `LastCharacterIsSeen`, `ScanStaysInside`: the parser takes the character kept aside for the last and nothing for more, but for one step beyond the end after a comment in a DOCTYPE; `InPlaceIsPlain`: conversion in place is a rewriting; `SavedDocumentLoadsBack`; `ConversionsAreSound`: encodings keep text, and writing it in chunks changes nothing; `WritingIsUnderstood`: maps (encoded), requests and integers of 1, 2, 4 and 8 bytes are read as they were written, and a stream that ends within an integer fails on the next, read or written |
| `xpath` | documents of 4 items with 1 edit, 45 queries, chains of 3 operators, arrays of 8 | `DocumentOrderIsRight`; `SortSorts`: sorting comes to an end, with all elements in order, and `unique` leaves one of each; `PrecedenceIsRight`; `MemoryIsInOrder`: nothing is used after it was given back; `AnswersAreXPath`: what `XPathMeaning` says, as each type; `SetsKeepTheirOrder`: what claims to be sorted is, without duplicates |

Symmetry is used for safety only: the peers of `rtt`, the objects and pages of
`xml_memory`, and the nodes and attributes of `xml_document` other than the
document are interchangeable in their specifications and properties.  The runs of section 4 are
expected to end in a violation.

Why the bounds are enough.  *Semaphore*: three threads are one to sleep, one
to post and one to slip in between; a counter of four values wraps within
the five posts.  *Finder*: with two finds one can be nested in the callback
of the other, or follow it on the same buffer; three datagrams (two in the
runs of section 4) let an unusable and another device's precede the
gateway's; with datagrams of one or two bytes and room for two (`Room`, 1500 in
the code), the buffer has room for the next receive, moves what is unread, or
grows.  *Mappings*: three calls let one caller's add fall between a find
and a remove of the other, and let a request left behind by the second caller
be served after a later call; the two mappings of the shared port differ in
every field.  *Round trips*: three packets and four receipts are a question,
an answer and an answer to it, with one of them received twice; `W` = 128 is
far above every delay and below every wrapped difference, and the clocks start
so that unsigned differences do wrap; one setting of a clock is enough, since
from then on `steady` excuses what the headers tell.  *Memory*: a page
of four words holds several objects and strings or one that fills it, a text
of six gets a page of its own, and three pages have a first, a last and one
between them to unlink.  *Documents*: with four nodes below the document a
list has both ends and a middle, and a node with children can be copied into
itself.  *Texts*: five tokens open and close an element with an attribute, or
a section within a DOCTYPE; the inputs go on only where the parser has come
to their end, which loses none that it tells apart; a buffer of six characters
is cut at every place of a character of four bytes; integers have every
arrangement of two different bytes, up to the eight bytes of the time stamps.  *XPath*: the documents
have siblings, an attribute, text and nesting, with one of them out of the
buffer; the queries use every axis, test, type of operand, function and
conversion; blocks of 64 bytes are outgrown by the strings of a few nodes; and
with `SmallSort` = 1 (32 in the code) arrays of eight are divided down to
single elements, with `SmallMedian` = 6 (40) by the median of nine too.

Fairness.  *Semaphore*: a thread that wants the mutex gets it (Boost's mutex
and the scheduler), a deadline passes, and a wait whose deadline has passed
leaves the condition variable however often it is notified (strong fairness:
the wake-ups of others may disable it again and again).  Nothing makes a
thread call, or wake spuriously.  *Finder*: `io_service::run` runs the
handlers whose operations have completed, the kernel hands over queued
datagrams, a server that has an answer gives it, and the callback ends, all of
it only until an exception leaves a handler: that ends `run`, which
`tests/tests.cpp` calls once and nothing in the repository calls again.
Handlers may run after it, as when an application does call `run` again, but
need not, so `StopEndsFinds` and `SearchGoesOn` promise nothing from there on.
There is no fairness for the network, the application or a silent server.
All the others state safety only: they are called, and return.

`CHECK_DEADLOCK FALSE` stands in the RTT configurations for the bounds: when
the packets and receipts are used up and time stands, the peers may simply
stop.  In `Texts.cfg` and `XPath.cfg` an input that cannot grow, and a query
that is answered, are ends.  It stands in `DeviceFinder_faulty.cfg` because
there the system really may stop: a server that accepts the connection and says nothing blocks
`execute_request`, and with it the only thread, for ever (`Hung`).

## 4. What the code does not do

Each finding in `PROJECT.json` is a run that TLC ends with a counterexample.

* `finder_printer_down`: a device whose description cannot be fetched ends
  the search: neither the callback nor another `async_find` (finder line 105).
* `finder_relative`: a `controlURL` given as a path is taken for `localhost`;
  the completion from the base URL (`inet_gateway.cpp:25`) never happens,
  because `url::parse` fills in `localhost` first.  The methods of such a
  device reach nobody.
* `mapping_enabled`: `find` reports every mapping enabled: the character `'0'`
  is compared with the number 0.
* `rtt_first`: the first header a peer sends is computed from uninitialised
  members.

Found while modelling and not stated by a run, since nothing the repository
says promises otherwise:

* `get_internal_ip` connects to port 0 when the control URL names none
  (`MethodsReachDevice` covers it too, but fails earlier).
* A broken connection leaves the caller of `add` or `remove` with `false`
  although the request may be served later (in `AbstractPortMapping` this is
  the honest promise); `find` does not notice a missing `NewInternalClient`.
* `start(ec)` on an open socket does nothing when the caller's `ec` is set.
* A header cut within its second timestamp is parsed with what the stack held
  (`ReceiveCut`); timestamps follow the wall clock (`Adjust`).
* `operator>>` of a `parameter_map` does not decode the values `operator<<`
  encodes (`parameter_map.cpp:48`, `MapComesBackEncoded`); `upnp_request`
  writes them into XML as they are (`upnp_request.cpp:25`; `RequestIsUnderstood`
  is about values without markup).
* The `Host` field names port 0 for a URL without a port, and the query of a
  URL is dropped (`http_request.cpp:15`, line 9).
* After a comment in a DOCTYPE the parser skips four characters for `-->`
  (`pugixml.cpp:1931`), so that it may step over the NUL at the end and go on at
the byte behind it, by one step and in no other texts (`ScanStaysInside`); a
  DOCTYPE that is kept, with one character after it, keeps its `>`
  (line 2103, `KeepsDoctypeEnd`).  An XML declaration that ends in `>?>` is left
  open; a NUL in a text ends the parsing with status ok; `&#0;` cuts a value
  off, and numbers of references wrap around at 2^32.
* Saving escapes neither CR in text nor TAB in attributes, which loading
  changes: `SavedDocumentLoadsBack` is about values without them.
* `find_child_by_attribute` compares names and values of attributes also where
  there are none and the pointers are null (line 4113).
* `load_buffer_impl` leaks contents it owns if their conversion fails
  (line 4631).
* XPath's `contains()` and `string-length()` are parsed as functions that
  return strings (lines 8186, 8236).  Converting one from its string fails an
  assertion, in a release build it gives the empty string: `MemoryIsInOrder`
  and `AnswersAreXPath` leave such evaluations out (`Mistyped`).
* In XPath, a node of text has the default namespace of its element as
  `namespace-uri()`, `lang()` is false of every attribute, and the comparison
  of document order says of an attribute outside the buffer that it is before
  itself.

## 5. What is proved

All for every value of the constants under the `ASSUME`s of the modules.

**Semaphore** (`SemaphoreProofs`; a finite set of threads, `W` > 0, `Initial`
below `W`).  `SemaphoreTypeCorrect` by cases on the actions.
`NeverOverdrawn` and `PermitsConserved` from `LedgerInv`: the overdraft bound
alone is not inductive, since a counter that were too high would overdraw at
the next `Take`; the invariant bounds the sum of the counter and the permits
handed out.  `NoWakeupIsLost` from `WakeupInv`, by counting with the library's
theorems on cardinality: a post adds a permit and, if anyone sleeps, a thread
to `Awake`; the step that returns a thread to sleep happens only when
`count` is 0.  `SemaphoreImplementsCounter` is step simulation, with
`PlaceInv` tying the place of a thread to its call.

**Finder** (`DeviceFinderProofs`; no assumption on the finds, any `Room` and
datagrams of any size up to it).  `FinderInv`
joins `TypeOK`, `EveryFindAccounted`, `OneReceive` (at most one is outstanding,
and none while a description is fetched), `ReceivesBehindUnread`, `OwnBytes`
and `CallbackIsLast`.  They are inductive only together: that
a re-armed find is the only one with a receive needs that there was none
while the handler ran; that nobody moves the buffer under a receive needs that
there is one only; and that the callback may start a find needs that its
own is over.  `CleanBuffer` looks at the end of a handler; `OwnBytes` says of its
every step that no more is unread than it still consumes (`ToConsume`).
From `FinderInv` follow `FindsAreAccounted`, `ReceiveHasItsPlace` and
`BufferIsLeftClean`; `FindsEndOnce` is an action property.
`FinderKeepsItsPromise`: `DeviceFinder` implements `AbstractFinder`, by cases
on the actions.  `HeardIsKnown` tells the abstract queue of every state in
which `OneReceive` holds; `FetchIsForReply`, that the handler fetches only
for a datagram it could read, is what makes the device it reports one that
this datagram leads to.

**Port mappings** (`PortMappingProofs`; a mapping has all the fields, with a
bool for `enabled`, and a caller uses some of them).
`CallsAreAtomic`: each step maps to one of `AbstractPortMapping` or none, with
`Stage` and `Seen` for the abstract place and what a find read.  The heart is
`TrueMeansDone`: no answer to a refused request, whole or cut anywhere, is
read as success.  It needs that gateways do not write errorCode 0 or status 0
for a refusal, which is in `Written`.  `FindFills` shows that the fields a
find has written, however far it got, come from one entry.  `MappingsTyped`
from `TypeInv`.  `OwnersAreRight` from `OwnInv`: besides the property it says
that the mapping a call was made with is still the caller's (`Keeps`), and
follows a call of a caller that is alone on its port, from the request through
the grant or refusal to the answer (`Owns`): what it will believe is what the
table says at each of these points.

**Round trips** (`RttProofs`; `W` > 1, two peers).  `RttTypeCorrect` and
`FirstSampleIsKnown` from one invariant, which adds that no header was sent
in the future, with lemmas that the arithmetic modulo `W` stays in range.
`HeadersTellRoundTrips` from `HeaderInv`: what a peer keeps, and what a header
carries, is congruent modulo `W` to a true time with the skew of the peer that
took it, so that the skews cancel whatever they are.
`StatisticsTellRoundTrips` from `StatInv`: the members summarise the true
values received so far.  Its hypothesis `NoOverflow` is that 20 times the
longest time fits in `W`: the code multiplies by up to that before it divides,
and 64 bits of nanoseconds leave 29 years.

**Memory of a document** (`XmlMemoryProofs`; any objects and pages, `Nil`
different from pages and blocks, an object no larger than a quarter of a page,
as the code's sizes are, and a header field that holds every size up to a
page).  All four invariants of the run: `MemoryTyped`, `MemoryBlocksAreSafe`,
`MemoryCountersAgree`, `MemoryListIsSound`.  None is inductive alone: a page is
given back at the moment its counters meet, so that no block is lost needs that
the counters count, that they count needs that blocks do not overlap, and that
needs that a page given out is in nobody's list.  `SoundMemory(m, S)` says all
of it of a memory `m` of which a set `S` of blocks is in use: the list is
linked at neighbours (a statement without a path, which could not be proved by
induction), blocks lie below the busy size of a page in it and apart, the
counters count, no page before the root is idle, and a page larger than the
others holds one block that fills it.  `AllocationKeeps` and
`DeallocationKeeps` add a block to `S` and take one out; the actions are made
of these.  The last part is what `StringSizeIsRight` needs: a string whose size
does not fit in its header is given back with the size of its page.

**Documents** (`XmlTreeProofs`; any nodes and attributes,
infinitely many included, that differ from each other and from `Nil`).
`DocumentsTyped` (no pointer of what exists leads to what was destroyed),
`ListsStayRings`, `CallsDoTheirOperation` and, of the whole,
`DocumentsAreTrees`: `XmlTree` implements `AbstractTree`.  The model reads a
list by following `next` (`From`), and what a removal destroys by following
lists (`Doomed`).  Both are recursions over links, which mean something only
where the links end.  So the invariant has the other direction: there *are*
sequences of children and of attributes, and the links are what these
sequences make them.  `Standing(d, cs, as)` says so of a document `d`:

* every list is `Linked` with its sequence (`Chained`), which has no item
  twice;
* a child leads to its parent, and is in no other list (`Hung`); an attribute
  is had by one node (`Held`); what does not exist is `Loose`;
* no set of nodes has a child of each of its members in it (`Founded`): the
  tree has no cycles and no endless branch, said without numbers.

The first part takes each operation on a list alone: `Linked(l, s)` becomes
`Linked` with the item inserted or removed, by cases on where the neighbours
are (`Spliced`, `Cut`), and other lists keep their links.  Reading back is by
least counterexamples: `From` gives the sequence, since two ways along the
same links part nowhere; `FirstOf` gives the first item, since the least place
at which it did not would have one before it.  `ReadsBackwardIfLinked`: what
`previous_sibling` takes from a linked list, and `last_child` from its head, is
that list from its end, since only the last item has no `next`.  `Doomed` of `d` and `Subtree`
of the tree are both the least set that holds the node and is closed under
children, with `Founded` for the recursions to be sound.  Then every action of
`XmlTree` is shown to keep `Standing` and to be the action of `AbstractTree` of
the same name, in one lemma each (`AppendChildStep` and so on), from which both
the invariant and the refinement follow.

These theorems are about `Spec` of `XmlTree`.  With copies
(`XmlDocument`, `DocumentSpec`) the same invariants are checked by TLC: the
copy is a recursion over the tree that is being changed.

**Memory of an evaluation** (`XPathMemoryProofs`; blocks and words of at least
a byte).  `XPathMemory` has no state of its own: evaluations call its
operators, so the theorems are about these.  `Sound(a)` says of an allocator
that its blocks are different, that each object lies in a block below its
capacity, in the last one below the size, and apart from the others, and that
no block but the first is ever the empty last one.  `AllocationIsSound` and
`ReallocationIsSound` keep it and say which object is new.  `Follows(s, a)`
says what an open capture `s` may rely on: its blocks are still there and its
objects in their places, and what is new lies after its size.  Reallocation
frees a block and could take one that a capture remembers; it does not,
because that block holds nothing but an object newer than the capture, so the
capture would have been made in an empty last block, which `Sound` leaves to
the first one, and the first one is never freed.  `ScopesAreKept` is the
induction over what evaluations do, `CapturesGiveBack` its use: when the last
capture ends, the allocator is `GivesBack`, the state it had, but for the names
it has used up.  The hypotheses are what the code asserts or assumes of its
callers: sizes are positive, the object that grows is the last, its size is
the one given, and it is newer than the open captures.  Every size in
`XPathEval` is positive (a text has its terminator, a set room for a node);
that the object is the last one of that size, and that every capture ends
with `GivesBack`, is what `MemoryIsInOrder` checks.

**Sorting** (`ArraySortProofs`; any elements, arrays of any length, any lengths
at which the code goes over to insertion and to the median of nine,
`SmallMedian` at least 6).  `SortsAreRight`: at the end of a sort each element
is there as often as before and all are in order, and there is an end, after at
most 4 (n + 1)<sup>2</sup> steps; and what `unique` then keeps is one of each,
in order.  Of the comparison `LessAssumption` asks that of two different
elements one be less, without cycles; what it says of equal ones is left open,
since the comparison of document order says of some attributes that they are
before themselves.  That it does order the nodes of a document is
`DocumentOrderIsRight`.  `SortingInv` says of a sort on its way:

* its array is a rearrangement of the first one (`Rearranged`, by a
  permutation: an exchange is one, two compose, and the number of places of an
  element stays, by the library's theorems on bijections);
* the range in hand and those of the calls lie apart (`Laid`), and any two
  elements are in order or together in one of these ranges (`Settled`);
* in `partition` the elements between the iterators are less than the pivot,
  equal to it or more than it, as their place says (`Sides`), and in
  `insertion_sort` those before `it` are in order (`Phase`);
* it can afford the rest (`Afford`): the steps taken, those the range in hand
  takes at most (`StepsLeft`) and those of the ranges to come are no more than
  the bound.

The order alone is not inductive: that a range may be rearranged without
disturbing the others needs `Settled` of all of them at once, and that the two
sides of the pivot are settled needs `Sides`.  Termination is a safety property
here, by the bound: each round of `partition` brings the iterators closer to the
ends (the steps in which none moves are counted apart), and two ranges without
the pivot between them take less than the range they come from (`HalvesTake`).
`CrossSorts` with its four cases is where the equals of the pivot move, the part
of the code that is easiest to get wrong: with `FromRightOverStill` in place of
`FromRightOver`, `Sides` is lost.

`ThinningInv` says of `unique` on its way that what is written so far is the
elements read so far, ascending, each once, and that the rest is as it was
(`Gathered`).  Since it compares with the last element written only, each once
needs the order of the sorted array: an element that was written before the last
one is less than that, so it cannot come again (`LeqSteepens`).  The theorem is
about `SortSpec`; in `XPath` the same steps are taken only while nothing else is
there.

Only model-checked:

* liveness (`StopEndsFinds`, `SearchGoesOn`, the fairness part of
  `AtomicSemaphore`), since the prover does not do liveness under fairness or
  `ENABLED`;
* copies (`CopiesAreFaithful`, and the other properties of `xml_document` after
  one) and walks (`WalksAreComplete`), all of `Texts`, and of `XPath` all but
  the allocators and sorting: they are written with `RECURSIVE` operators,
  since they are recursions over data, which the prover has no induction for.

No module with a theorem uses a `RECURSIVE` operator.

## 6. What is not modelled

*shoryu*: two finds at once on one finder; several threads running one
`io_service`; the destruction of a finder with a receive outstanding; the
address `get_internal_ip` returns; the head of a request (`http_request.cpp`);
hashing; build files; the test of `tests.cpp` that needs a router, whose steps
are those of `DeviceFinder` and `PortMapping`.

*pugixml*: `malloc` that fails, except where a call is then refused; the
build with `wchar_t`; files and streams (`pugixml.cpp:3089-3195`), which end
in `load_buffer`; iterators, typed accessors and `hash_value`, which read a
link or convert a number; `find_child_by_attribute`; XPath numbers
that are not whole, and infinities; `evaluate_string` into the caller's
buffer; nodes of several documents in one set.  The `namespace` axis is empty
in the code, and in the model.

## 7. The plan

Done: semaphore, finder, mappings, round trips, each with its runs and
theorems for all its invariants, the abstract counter, finder and table
included; all of `src/pugixml`, the codecs and the binary streams, with the
theorems about `XmlMemory`, `XmlTree`, `XPathMemory`, sorting and `unique`.

*Model* next: `SharedBuffer` (two finds in progress on one `_streambuf`, with
the steps of `prepare`, `commit` and `consume`); the head of a request.
