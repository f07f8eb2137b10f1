# New-Orbit: a TLA+ development

New-Orbit is a collection of small distributed applications: a calculation
service over RabbitMQ written in C++ with an audit log (Go server, React
display), a pipeline of bond instruments (Java, Quarkus, React), an online shop
of Spring microservices, a C++ websocket server and two CRUD samples.  This
directory holds TLA+ modules translated from their source, the TLC
configurations that check them on small instances, and theorems that the TLA+
proof system checks for every value of the constants.  Paths below are relative
to the repository.

    tlc -workers 2 -config MCCalcRpc_live.cfg MCCalcRpc        a run
    tlapm CalcRpcProofs.tla                                     the proofs of a module

`PROJECT.json` lists the runs, the source lines of every definition, a mutant of
the code for every property (the formula that TLC must find violated when the
definition is replaced), the hazards, the findings and the theorems.

## 1. The system

### 1.1 Calculation service (`apps/cpp-rabbitmq-sample`, `apps/log-server`, `apps/log-displayer`)

| component | state | operations | talks to |
|---|---|---|---|
| `send.cpp`, the client | reply queue name, map of correlation ids sent | declare the exclusive reply queue, timer publishes a request, `receiveCallback` | RabbitMQ, through its own `SimplePocoHandler` |
| `receive.cpp`, the server | current message | `auditRequest`, `doCalculation`, publish the response, `ack`, `auditResponse` | RabbitMQ (queue `requests`, `setQos(1)`), MongoDB `audit.requests` |
| `worker.cpp` | none | sleep, `ack` | RabbitMQ |
| `SimplePocoHandler` | socket, `inputBuffer`, `outBuffer`, `quit` | `loop`, `onData`, `onError`, `onClosed`, `quit`, `sendDataFromBuffer` | a TCP socket, the vendored AMQP-CPP library (callbacks) |
| AMQP-CPP channel | `_synchronous`, `_queue`, `_state` | `send`, `onSynchronized`, `reportError` | the connection below it |
| `main.go`, the log server | none of its own | `All`, `Page` | MongoDB |
| `Home.js`, `LogEntry.js` | logs, filters, number of cards | fetch, filter, sort, see more | the log server |

Everything in a C++ program runs in the thread of `loop()`, in callbacks of the
AMQP library, with one exception: `send.cpp` publishes from a detached timer
thread, and nothing is locked.

Hard: frames cut and joined by the socket, buffers that are nearly full, the
order of `ack` and the database, crashes and redelivery, the timer thread beside
`loop()`, a cursor over a collection that changes.  Correct means: the streams
are lossless, no request is lost, an answer is never seen before it is recorded,
work is repeated only after a failure, every request is answered, and a page of
the log is what was asked for.

### 1.2 Bond instruments (`apps/instrument-*`, `apps/basic-bond-displayer`)

| component | state | operations | talks to |
|---|---|---|---|
| importer (`App.java`) | files listed or polled, rows of the file in hand | scan, register the watcher, take events, find and then update or insert each row | a volume, MongoDB |
| verifier | none | compares a file with the collection, once | the same |
| streamer (`InstrumentStreamer`, `WebSocket`) | ISINs read at start, a `ConcurrentHashMap` of `ArrayList`s of sessions | rounds of broadcasts; `onOpen`, `onClose`, `onError` on the container's threads | MongoDB, websocket clients |
| enricher | its own map of sessions, a latch | client of the streamer, the same endpoint | the streamer |
| server, React displayer | none; list, filters | pages of bonds; fetch, filter | MongoDB |

Hard: the lists are shared between the container's threads and the broadcasting
one without a lock; an exception ends the whole process; a file is written between
scan and watch, or is only half copied when it is read; two importers overlap during a
rollout; the first upstream connection that closes ends the enricher; responses of
two searches overtake each other.  Correct means: who subscribed and stays gets
every price, each file is imported and no bond twice, what is shown belongs to the
current search.

### 1.3 Online shop (`apps/online-shop`)

The composite service publishes CREATE and DELETE events to three topics; the
message processors of product, recommendation and review apply them to their
databases, with retries, dead letters and, for two instances, partitions.
Reading goes through a time limit, a retry and a circuit breaker with a fallback.
The gateway, discovery, configuration and authorization servers are
configuration of Spring Cloud.

Hard: an aggregate spread over three topics and databases; redelivery after a crash;
one event of several failing; a deletion that stops half way.  Correct means: each
database holds what was created last, the parts of an aggregate agree once the
topics are empty, and an event that can never be applied does not stop the others.

### 1.4 Others

`apps/cpp-streamer` (a list of connections on one event loop, sums of two
numbers): an exception that a handler lets out ends the loop for everyone, and the
list is cut with `remove_if` while handles expire.  `apps/TutorialApp` and
`apps/ContactApp` (find, change and save of documents without versions).  Kubernetes
and OpenShift files, courses, notes and UI templates hold no program logic.

## 2. Modules

| module | what it is | code |
|---|---|---|
| `LosslessStream` | abstract: a FIFO stream of bytes that may be abandoned | what `connectionhandler.h` asks of `onData` and of `parse` |
| `PocoHandler` | the socket loop, used from one thread | `SimplePocoHandler.cpp` |
| `SharedOutBuffer` | `outBuffer` access of `m_use` by access, one thread or two | `SimplePocoHandler.cpp`, `send.cpp` |
| `AmqpChannel` | `send()` and `onSynchronized()` of a channel, one thread or two | `channelimpl.cpp` as driven by `receive.cpp` and `send.cpp` |
| `CalcService` | abstract: requested, recorded, answered, in this order | what the audit database is for |
| `CalcRpc` | clients, servers, broker and database with crashes, restarts, lost connections | `send.cpp`, `receive.cpp` |
| `LogServer` | a request for a page beside the servers' writes | `main.go` |
| `Durations` | times of day, stored durations, what the displayer reads in them: pure operators | `utils.cpp`, `receive.cpp`, `Home.js` |
| `LogDisplay` | requests and responses of the page beside a collection that fills | `Home.js` |
| `WebsocketServer` | the event loop's handlers | `cpp-streamer` |
| `PriceFeed` | handlers on the container's threads beside the broadcasts, step by step | `InstrumentStreamer.java`, `WebSocket.java` |
| `Importer` | scan, watcher and the import of a file row by row, crashes, several importers | `App.java` of the importer |
| `ShopEvents` | events of the composite service and what three services do with them | `ProductCompositeServiceImpl`, `ProductCompositeIntegration`, `MessageProcessor`, `*ServiceImpl`, consumer and producer configuration |
| `Subsequences` | what a scan of a sequence keeps: pure operators | `WebsocketServer.cpp` |
| `CppConnectionProofs` | theorems about `PocoHandler` and `AmqpChannel` | |
| `DisplayAndStreamerProofs` | theorems about `Durations`, `LogDisplay` and `WebsocketServer` | |
| `SharedOutBufferProofs`, `CalcRpcProofs`, `LogServerProofs`, `PriceFeedProofs`, `ImporterProofs`, `ShopEventsProofs` | theorems about one module each | |
| `MC...` | constants for TLC | |

The modules of the calculation service are layers.  `PocoHandler` implements
`LosslessStream` twice (input and output).  `AmqpChannel` and `CalcRpc` take from it that
bytes leave complete, in order, and only after a callback has returned.
`SharedOutBuffer` looks at the same buffer in smaller steps, to see what happens when
that assumption of one thread fails.  `CalcRpc` implements `CalcService`.  `LogServer` reads
what `CalcRpc`'s `AuditRequest` and `AuditResponse` write; `LogDisplay` extends `Durations` and
shows what a log server returns.  `LogDisplay` and `WebsocketServer` extend `Subsequences`: both
select elements of a list and keep their order.  The importer's collection is where `PriceFeed`'s
`Import` comes from; the other applications do not meet.

### 2.1 PocoHandler

`pc` is the place in `main()` and `loop()`.  `Receive`, `Parse`, `ParseReturns`,
`Send`, `LeaveLoop`, `Flush` are the loop's steps in their order;
`CallbackSends`, `OnClosed` and `OnError` are what callbacks do inside
`parse()`; `Quit` is the public operation, callable at any time; `SocketFails` is a
Poco exception.  A frame of n bytes is the sequence n-1, ..., 0: a byte says how
many follow, which is what the parser learns from a frame header, so that any
cut of the stream is a state.  Contents are abstracted.  `Written`, `Write` and
`Shl` are `Buffer`'s methods, short writes included.  The socket is blocking: a
send sends everything or throws.

### 2.2 SharedOutBuffer

Every thread in `Threads` runs `onData`; `"loop"` also runs `loop()`.  In `receive.cpp` and
`worker.cpp` there is no other.  In `send.cpp` the timer thread publishes, and `loop()`'s
thread still calls `onData`: it answers the handshake, and `onSynchronized()` sends frames
that waited.  So both write, and both send and drain.

Each place where the source reads or writes `m_use` is an action, as in a build that
does not keep it in a register: `WriteNothing` or `WriteSome`, `FrameFits` or `FrameTooLong`,
`MeasureRoom`, `Copy`, then `LoadUse` and `StoreUse` for `m_use += write`; `NothingAvailable` or
`SomethingAvailable`, `MeasureContents`, `SendBytes` and `Drain` for `sendDataFromBuffer`.  `memcpy` and
`sendBytes` are one step each.  `overrun` says that a step has left `m_data` or the frame; what
a program does after that is undefined and the model stops.  Bytes are numbered in the
order in which `onData` gets them.  Accesses are sequentially consistent; a weaker memory
only adds behaviours.

### 2.3 AmqpChannel

`todo` holds the frames of the call in progress; `Check`, `Emplace`, `Transmit`
and `Mark` are the steps of `send()`, `Answer`, `OnSynchronized`, `Pop`, `MarkPopped`,
`TransmitPopped` and `EndDrain` those of the answer's arrival: between `_queue.pop()` and
`_synchronous = pair.first` another thread can look at both.  `ChannelClosed` is
`reportError()`.  `Setup` and `Call` are the frames that the two programs cause.
`emplace()` and `pop()` of the queue are atomic: in the library's deque they touch
opposite ends, and a handful of frames causes no reallocation.

A proof module extends this module beside `PocoHandler`, so its specification has names
of its own: `ChannelInit`, `ChannelNext`, `ChannelSpec`, `ChannelFairSpec`, `channelVars`.

### 2.4 CalcRpc

One action per step that another process can observe.  The callback is
`Deliver`, `AuditRequest`, `PublishAndAck`, `AuditResponse`, `Flush`.  `publish` and
`ack` go to `outBuffer` and leave with `Flush`, because `onData` buffers and
`loop()` sends after `parse()` has returned; this is why `ack()` before
`auditResponse()` in the source is harmless, and `NoRequestLost` says so.
`Crash` is a crash or an uncaught exception in any step, `Restart` the
container platform.  After `ConnectionLost` the broker requeues while the server
still works on its request, so two servers can have it.

The timer thread of `send.cpp` and `loop()`'s thread share `messagesSent` and `tempQueueName`
without a lock, so what the timer does is cut into `TimerFires` (the insertion begins),
`Remember`, `SetReplyTo` and `Publish`.  A request carries the reply queue's name as the client
knew it at `SetReplyTo`; a name that is read while it is written is no queue's, like the
empty one.  `Found` is `messagesSent.find`, which beside an insertion that rotates the tree can
miss an element and make `receiveCallback` drop a response (`dropped`); that takes a third
id in the map.

`auditResponse` completes the first document of a correlation id only, so the
database is, per id, a number of documents and whether the first is completed.

External parts, modelled from how the code uses them: the broker (`Requeue`,
`TakeFrame`, `NoticeCrash`, exclusive queues that end with their client) and the
network.

Abstracted: the numbers and the calculation, time stamps, message formats.  A
request counts as published when it reaches the broker; what `send.cpp`'s two
threads do to it before is the subject of `SharedOutBuffer` and `AmqpChannel`.
`send.cpp` publishes only well-formed requests, so a message that is not JSON is
no input.

### 2.5 LogServer

`Find` opens the cursor at the newest document; `ReadNext` is one turn of the
loop, `EndOfLoop` and `CursorFails` the two ways in which `result.Next` returns
false, `Encode` the limit of `start`, the slice expression and the response.  A
document is returned as it was when the query began or as it is now, since the
cursor fetches in batches.  `Decoded` is what the driver does to a structure that
held another document: fields the new one lacks keep their value.  `FindFails`
is an error that is printed and then ignored: the nil cursor panics, unless the
loop's condition on the length ends it first.  Documents that cannot be decoded
are left out: the only writer, `auditRequest`, gives all the same shape.

### 2.6 Durations and LogDisplay

A text `hh:mm:ss.mmm` is the record of its four numbers.  `GetCurrentTime`,
`ConvertMilliToTime`, `GetCalDuration` and `CalToMS` are the functions of those names;
division rounds towards zero as in C++.  `calToMS` adds numbers to a text: minutes and
hours are appended behind the milliseconds instead of added, so 61.1 seconds are
read as 1.1.  `ShownIsElapsed` therefore speaks of less than a minute.

In `LogDisplay` a request in flight is a record that `Serve` fills from the collection and
`Arrive` or `Fail` takes away, in any order.  `ChangeLogNum`, `ExpandCards` and `Arrive` are the
handlers, with the lists, counters, graph and percentiles each of them sets.  `typed` says
that the number is a text: the first number typed is fetched even if it is the same,
because a text differs from the number 200.  The effect does not look whether a
response is still wanted: `inOrder` remembers whether one was overtaken or lost, and the
properties say what holds if none was.  A page without documents is `null` and makes the
handler throw; nothing changes then.

`sort()` compares texts.  Durations have two digits of seconds, so that the order of texts
is that of the numbers, except for those with a minus sign: a clock that is behind by
whole seconds gives `-1.`, `-10.`, ..., and `Place` is their place among texts (parts of a
second give a second minus sign, which `calToMS` reads as 0).  `Sorted` puts each text at its
rank, equal ones in their order, as a stable sort does.  `PercentilesAreRight` therefore
holds for pages with at most one duration below zero (`OneBelowZero`).

### 2.7 WebsocketServer

One loop runs all handlers, so each is one action.  A message is the sequence of its
parts between plus signs, a part the number it begins with.  `Throws` is `stoi`'s
`out_of_range`, which nobody catches; `Sums` is what the sum of two ints may be: any int if
it overflows, which is undefined.  A connection is `closing` between the peer's leaving and
`onClose`.  websocketpp's states are external.  `Remaining` is what `remove_if` and `resize` leave:
`Subsequence` gives the elements at a set of positions.  `broadcastMessage` has no caller in
the repository and is not modelled.  The specification is `ServerSpec`, as a proof module
extends this module beside `LogDisplay`.

### 2.8 PriceFeed

A handler is cut where another thread can come between: `containsKey` (`OnOpen`), `Put`, `Get`
with the size that `ArrayList.add` reads, `Store`; the search of `remove` and its shift
(`Remove`).  `Touched` is `modCount`; `Throw` is the exception that `forEach` raises when the
list has changed or when its lambda gets null, and it ends `run()` and the process.
A list is named by the session that made it, so a list put over another is a state.
The history variables `overlapped` and `collided` say when two handlers of one ISIN ran
at once and when a list changed under a broadcast; every property states what
holds apart from these.  Threads are sequentially consistent and a list has room: a
weaker memory and the growth of `elementData` are left out, as are prices.

### 2.9 Importer

A file is absent, partly copied, complete, or broken: all of it is there, but with a blank
row, too many or too few columns, or without any line.  It has a version for each time it
is written.  `Start` lists the volume in any order, `Register` comes after the scan, `Take`
empties the watch key.  `ReadFile` takes what `Readings` allows: all rows of a complete file;
of a partial one some rows, the last of them maybe cut, which may throw, be counted, or
parse with a part of its ISIN (`CutIsins`) or with fields missing; of a broken one some
rows up to the one that throws.  `SkipRow`, `Find`, `Update`, `Insert`, `WriteFails` and `Imported` are
the loop of `updateDatabase`; `EmptyFile`, `BadRow`, `FindFails` and `Stop` end the process,
whatever it had polled, and `Start` begins again.  `WriteFails` is a `MongoException`; the write
may have taken effect.  A document keeps the version it was written from.  `missed`
are the files written after the listing and before the registration.  Events of one
file that wait together are one event; the conversion of columns is left out.

### 2.10 ShopEvents

A call has a list of letters, which `CreateEvents` and `DeleteEvents` make in the order
of the code; `Send` puts the next into its topic and partition.  Calls run side by side,
so their sends interleave.  `SendFails` is a `send()` that throws, which ends the call, or
an event the broker never gets.  Each partition has one consumer: `Create`, `Delete` and
`EndDelete` are what the service does with the event in front, `Reject` is its
`InvalidInputException` (an id below 1 or the unique index), `Failed` counts attempts up to
`maxAttempts` and then writes the dead letter.  `Delete` removes the recommendations one by
one and the reviews in one transaction.  `Acknowledge` comes after all of this, so that
after `Crash` the event is delivered again, also when it has been applied or its
deletion is half done.

Left out: a rollout in which two instances consume one partition, the queues of
`auditGroup` that nobody reads, the time between attempts.  The properties set two
cases apart: a call that fails half way leaves a part of the aggregate (`cut`), and
creating a product beside deleting it leaves parts of either (`crossed`).

## 3. Runs

| run | bounds | states | shows |
|---|---|---|---|
| `poco_handler` | buffers of 4, frames up to 2, kernel 3, 5 bytes in, 6 out | 298k | type, both streams refine `LosslessStream`; complete frames are parsed and accepted bytes sent |
| `out_buffer_two_threads` | buffer 3, frames up to 3, 8 bytes, timer thread | violation | with two threads bytes are lost or repeated |
| `channel_receive` | 3 setup frames, 6 deliveries | 110 | order, one synchronous frame at a time, no frame stuck |
| `channel_send_order` | 2 messages, timer thread | violation | the timer's frame overtakes one that waited |
| `calc_service` | 1 client, 2 servers, 2 requests, 1 crash, 1 lost connection | 241k | nothing lost, no unexpected response, repetition only after failures; refines `CalcService`; requests are recorded and answered |
| `log_pages` | 4 documents, starts -1, 0, 1, 2, 4, ends 0, 2, 3, 5 | 74k | the page is right, whatever is inserted or completed meanwhile and wherever the cursor fails |
| `log_display` | 3 documents, 2 requests, numbers 0, 1 and 3, 4 instants | 7.1M | what is shown is what was asked; no card hidden without a button; ranks of the percentiles; short durations are the time that passed |
| `websocket` | 3 clients, an int of 3 bits, 2 messages | 181k | the list of connections, right answers, and all who stay are answered |
| `price_feed` | 2 sessions of one ISIN, 1 of another, a bond imported later | 182k | which lists are exact, what can end the feed, who gets every price |
| `importer` | 1 importer, 2 files that share a bond, 3 writes, 1 fault | 539k | who waits has imported everything and replaced what was read from half a file; once no file stays broken, every file is imported unless missed |
| `importer_rollout` | 2 importers, 1 file of 2 bonds, 1 write, 1 fault | 461k | no bond more often than importers, no row lost but by a counted failure |
| `shop_events` | 2 calls, 4 parts, 2 partitions, 3 attempts, 1 fault | 204k | the databases hold what was created last, nothing is left of a product that is gone, queues drain |

### Why the bounds are enough

- `PocoHandler`: the buffers have the least size that the assumptions allow
  (the rest of a frame plus a full kernel buffer fits in `inputBuffer`).  With
  frames of up to 2 bytes a read holds parts of up to three frames, and one
  callback fills `outBuffer` beyond its size.  The theorems have no bound.
- `SharedOutBuffer`: 8 bytes fill a buffer of 3 twice and leave a rest; the violation needs
  no more than two short frames.
- `AmqpChannel`: after the setup the channel's state repeats; six deliveries of
  four frames are more than one period, and the race needs two messages.
- `CalcRpc`: two servers are needed for two to hold one request, one crash and one
  loss to combine both kinds.  A second client only has a queue of its own; the
  theorems hold for any number of clients, servers and failures.
- `LogServer`: lengths below, at and above both parameters all occur; requests do
  not share anything, so one is enough.
- `LogDisplay`: two requests can overtake each other; three logs are more than the first
  card and the next; the instants lie two seconds and parts of them apart, in both
  directions, around a minute and a midnight.  `DisplayAndStreamerProofs` covers all other instants.
- `WebsocketServer`: three connections are needed for one to leave from the middle; with
  3 bits every kind of sum, overflow and bad number is among six messages.
- `PriceFeed`: two threads meet on one list while a third has another; two handlers
  and a broadcast make every pair of steps.
- `Importer`: two files with a common bond and a third write make a file change
  before, during and after its import, or be broken and repaired beside a complete
  one; the fault comes at any step.  A row cut in its ISIN and two importers side by
  side are in `importer_rollout`, and any number of them in the theorems.
- `ShopEvents`: two calls make every order of creating and deleting one product, two
  creations included, and bring an invalid id into the other partition; a
  deletion has two recommendations to stop between; one fault suffices for each
  kind of partial failure, and three attempts are the configured number.

### Fairness

- `PocoHandler`: weak fairness of the loop's thread: `loop()` is an endless
  `while` that blocks nowhere.  The peer need not send, callbacks need not
  publish; the socket may fail, which the properties allow for.
- `AmqpChannel`: both threads keep running and the broker answers a synchronous
  frame.  Nobody has to publish.
- `CalcRpc`: the broker delivers and reads frames, a closed connection is noticed,
  the container is restarted, a callback ends, a client that stays reads its
  queue.  `Publish`, `Crash`, `ConnectionLost` and `ClientEnds` are not fair.  The
  limit on lost connections is one less than the servers: a server that is
  idle when its connection is lost never notices (`available()` returns 0), so
  with every connection lost nothing is answered any more.
- `WebsocketServer`: the loop runs a handler that is due.  Nobody connects or asks.
- `PriceFeed`: a handler that has begun ends, `run()` goes on, the platform restarts the
  process.  `OnOpen`, `OnClose`, `OnError` and `Import` are not fair.
- `Importer`: copying a file ends, `main` and `updateDatabase` go on, an importer that has
  ended is started again.  `WriteFile` and the failures are not fair.
- `ShopEvents`: every consumer goes on.  Calls, sends and faults are not fair.

`LogServer` and `LogDisplay` have no liveness property: a request is a loop over a cursor
that ends, and the page may wait for ever for a response.

### Deadlock

Every cfg says `CHECK_DEADLOCK FALSE`: programs end (`quit`, a failed socket, an exception
in the event loop), the setup is over, bounds are reached, or a request is
answered.  That nothing stops too early is what the liveness properties say.

## 4. Findings

- `out_buffer_two_threads`: `send.cpp:67` publishes from a detached thread; `loop()`
  drains what `onData` has copied but not yet counted, or both threads add to `m_use`
  at once.  `connectionhandler.h:27-29` asks that `onData` "should always send out all
  data or do the buffering itself".  Two writers that have measured the same room can
  also leave `m_data`.
- `channel_send_order`: the timer's `send()` sees an empty queue between `pop()` and
  the sending of the popped frame and overtakes it (`channelimpl.cpp:696-702`).

Other behaviour that the models have and a reader should know of:

- a connection that was closed by the broker leaves `loop()` spinning, and the first
  request of a client may go out without a reply queue (`PocoHandler`, `CalcRpc`);
- the timer thread can also send behind a synchronous frame that is popped and not yet
  marked, or queue a frame after the last answer, which then stays in the queue with
  everything published later (`AmqpChannel`);
- a response can be dropped because its id is looked up beside an insertion (`CalcRpc`);
- a negative start panics in the slice expression of `main.go:171`;
- one `calc` is used for all documents (`main.go:158`), so a document that is not yet
  answered can carry the answer of the one decoded before it;
- `calToMS` (`Home.js:52-64`) loses minutes and hours, and across a midnight the stored
  duration is negative (`Durations`);
- a response that arrives after that of a later request replaces it, and after a smaller
  number whose request fails the button for more is gone while logs are not shown
  (`LogDisplay`);
- a file that stays broken ends an importer at every start, maybe before it comes to the
  others (`Importer`);
- a client that sends a number too long for an int ends the C++ streamer for all;
- two clients that open one ISIN at once, or one that opens or leaves during a
  broadcast, can end the feed or be left without prices (`PriceFeed`);
- a file written between an importer's scan and its registration is not imported
  until it changes or the importer starts again (`missed`);
- `config-repo/product-composite.yml:40-41` promises error 422 for the creation of a
  product that exists.  The composite service only sends events and answers 200; the
  event for the product becomes a dead letter, and those for its new
  recommendations and reviews are applied to the existing product (`ShopEvents`).

## 5. Proofs

All are checked by `tlapm` to the last leaf.  Assumptions are the named `ASSUME`s
of the modules; TLC evaluates them in the runs.  Two of the proof modules extend more than
one component: the two layers of a connection, and the two programs that keep a part
of a list in its order, for which the same lemmas are needed.  The components share no
variable there and each theorem names the specification it is about.

Where an operator of the community modules is recursive, the models use an equal
definition without recursion, so that they can be proved about: `Subsequence` for
`SelectSeq`, ranks for `SortSeq`, a cardinality where frames are counted.

Every safety invariant that a passing run checks is proved but `StoredIsCurrent`, `TypeOK` of each
model that states one among them; so are the refinements and the action property
`BroadcastReachesAll`.

### CppConnectionProofs: PocoHandler

- `TypeCorrect`: Spec => []TypeOK; neither buffer exceeds `BUFFER_SIZE`.
- `WholeFrames`: `parse()` never consumes a part of a frame.
- `InputLossless`, `OutputLossless`: each direction implements `LosslessStream`.

The code ignores what `Buffer::write` returns.  Input is nevertheless lossless
because of `FitAssumption`: the rest of one frame and all that the kernel hands over
in one read fit in `inputBuffer` (8 MB).  That there is never more than the rest of
one frame needs the invariant: the unparsed bytes count down frame by frame and
end where the peer is (`Framing`), and outside `parse()` no complete frame waits
(`OnlyRestBuffered`).  `IInv` is their conjunction with `TypeOK`, `Connected` and
`WholeFramesParsed`.  The lemmas on `Write`, `Shl` and `ParsedCount` say what is kept
of a sequence that is cut and put together again; each step then is a `Move` or
`Abandon` of the abstract stream, or a stutter.

### SharedOutBufferProofs

- `StaysInside`, `OneThreadInOrder`: if `loop()`'s thread alone publishes, `InsideBuffer` and
  `StreamIntact` hold, for every size of the buffer and of the frames that fit in it.

Their premise is `Threads = {"loop"}` with `SharedOutBufferAssumption`: the run
`out_buffer_two_threads` shows what happens without it, and no run needs the rest.
`Numbers` has the types, and `Measured` that what was measured still fits when it is copied,
counted or sent: with one thread nothing changes `m_use` in between.  `InOrder` says how bytes
already sent, bytes in the buffer and the rest of the frame follow each other: without a
gap (`Stored`), except between sendBytes and `drain()`, when the buffer holds what was just
sent (`Sent`); memory beyond `use` is written before it is counted (`Copied`); the second
write finds an empty buffer, in which a frame fits (`RestFits`).

### CppConnectionProofs: AmqpChannel

- `OneThreadInOrder`: Publisher = "loop" => (ChannelSpec => []FramesInOrder), for any setup,
  any call and any number of messages.
- `OneThreadWaits`: Publisher = "loop" => (ChannelSpec => []SynchronousAlone), likewise: nothing
  follows a synchronous frame before its answer.

The invariant `InOrder` accounts for every frame until the channel is closed: what
was accepted is what is on the wire, then what `onSynchronized()` has popped, then
the queue, then the frame `send()` has in hand (`Accounted`).  A frame may skip the
queue only when it is empty and nothing is popped; that `send()` and
`onSynchronized()` are not both half way (`OneAtATime`) is what one thread gives.

`SynchronousAlone` looks at the wire only; `Counted` relates it to the flag.  While the flag is
set, or the frame just sent is about to set it, at most one synchronous frame is
unanswered; otherwise none is, also while `onSynchronized()` empties the queue, because
it stops behind a synchronous frame (`PoppedIsMarked`).  Both theorems assume one thread: the
run `channel_send_order` shows a frame that is overtaken with two.

### CalcRpcProofs

- `TypeCorrect`: Spec => []TypeOK.
- `RequestsKept`: Spec => []NoRequestLost, for any number of clients, servers,
  crashes and lost connections.
- `ServiceImplemented`: Spec => InService!Spec.
- `NoStrayResponse`, `RepeatsCounted`: Spec => []ResponsesExpected and, for any finite set of
  servers, []RepeatsNeedFailures.

`NoRequestLost` is not inductive: it needs that a frame on the way to the broker
belongs to a recorded request (`SentFrames`), which needs that at `Flush` the
message is recorded and the buffer holds only its frames (`Stages`,
`BufferedFrames`), and that a message in work has its document (`Stages`).  The
refinement needs `ResponsesRecorded`: a response in a client's queue, or received,
is recorded.

`ResponsesExpected` and `RepeatsNeedFailures` rest on `CInv`, which adds to `IInv`:

- `Deliveries`: what is not acknowledged is the last request a server got, and its
  frames are buffered while the callback ends and sent when it has returned;
- `Identified`: a correlation id belongs to one request, which its client remembers;
- `DocumentsBounded`: documents, deliveries that wait and servers that will repeat one
  are at most one more than the failures; `ResponsesBounded`: responses seen or owed
  are at most the documents.

`NoStrayResponse` follows from `Identified`.  `RepeatsCounted` needs a finite set of servers
(its assumption), as it counts those that still owe a response.

### LogServerProofs

- `TypeCorrect`, `PageCorrect`: for any parameters, any number of requests and documents, and
  whatever the cursor delivers.

`LInv` says that the array read so far is the newest part of the snapshot (`Read`); that the
loop ends with what was wanted, all there was, or a failure (`LoopEnded`); and how response
and array are related (`Answered`).  Two lemmas describe `Expected` and `Shown` index by index,
and `PageCorrect` compares them.

### DisplayAndStreamerProofs: ranks and subsequences

`Numbering` says that a linear order on a finite set numbers its elements from 1 to its
cardinality, each number once.  From it follow what `Subsequence` returns (exactly the
elements at the positions given, in their order) and that the element of `Sorted` at a
position has that rank.  The first part rests on facts about cardinalities and on the
library's theorem that an injection into a set of the same size is onto.

### DisplayAndStreamerProofs: WebsocketServer

- `AnswersCorrect`: ServerSpec => []AnswersAreRight, for every width of int.  The invariant `AInv`
  adds only that messages are typed; the lemma on `Answers` has the arithmetic.
- `VectorExact`: ServerSpec => []ConnectionsListed, for any number of clients.

`remove_if` takes away one element and no other because each is listed once.

### DisplayAndStreamerProofs: Durations and LogDisplay

- `DurationRecomposes`: `convertMilliToTime` loses nothing of any duration.
- `DurationElapsed`: the stored duration is the elapsed time less one day per midnight in
  between.
- `ShortDurationShown`: below a minute of one day the displayer reads what has elapsed.

Together they say where the mistakes of `calToMS` begin: with the first minute.

- `ElapsedIsShown`, `PercentilesShown`: Spec => []ShownIsElapsed and []PercentilesAreRight, for any
  clocks and any page of documents: the first follows from `ShortDurationShown`, the second
  from the ranks, as long as at most one of the durations drawn is below zero.
- `AllIsShown`: Spec => []NothingHidden, for any numbers of cards at the start and per click, while
  nothing is fetched and no response was overtaken, failed or null.
- `WantedIsShown`: Spec => []ShowsWhatWasAsked, for any numbers typed and any order in
  which requests are served; it, too, says nothing once a response was overtaken or failed.

`ShowsWhatWasAsked` speaks of a page with no request in flight.  `Requests` says what makes it
true when the last response arrives: the request sent last asks for the number on the
page, a response that was read is the newest part of the collection (`IsPage`, which stays
true when documents are added), and as long as no response has overtaken another the
request sent last is among those in flight.  `Displayed` ties cards, graph and percentiles
to the documents held.

### PriceFeedProofs

- `TypeCorrect`: Spec => []TypeOK: no list gets longer than there are sessions, so `Capacity`
  is no bound.
- `ListsExact`: Spec => []ListsAreExact.
- `EndsOnlyByCollision`: Spec => []EndsByCollision.
- `BroadcastsReachAll`: Spec => BroadcastReachesAll.

All are for any finite sets of sessions and ISINs, and whatever overlaps on other ISINs.  The
invariant `FInv` has four parts besides `EndsByCollision`:

- `Bounded`: sizes count calls of `add` that have begun, also in lists that threads have torn;
- `Mapped`: a handler past `put` finds a list made by a session of its own ISIN, and a list
  nobody has put is empty and nobody works on it;
- `ExactLists`: for an ISIN whose handlers have not overlapped at most one is at work, the
  size or position that it has read still holds, and the list has each member once;
- `Broadcasting`: a broadcast whose list has not changed has priced everybody before its place,
  and everybody in its audience has a place.

`ListsAreExact` speaks of moments without a handler at work and is not inductive: what a
handler has read (`UpToDate`) is needed until it ends.

### ImporterProofs

- `TypeCorrect`, `DuplicatesAtMostImporters`: for any files, rows, importers and failures.

`DuplicatesBounded` is not inductive: an importer that has decided to insert will.
`InsertsBounded` counts the documents together with those decisions: only an importer
that finds no document decides so, and then there are at most the other
importers' decisions.  `InRow` says that an importer in a row has one.

- `WaitingMeansCurrent`: a lone importer that waits has imported what is in the volume, but for
  what was written between the listing and the registration; for any files, rows, failures and
  restarts, also if a file is rewritten while it is in hand.

`WaitingIsCurrent` speaks of an importer that has nothing left to do.  `Known` says what holds on the way
there: every complete file that was not missed is still listed or polled, or has an
event that waits, or is imported in its present version while the file in hand cannot
put an older one over it.  A start makes it true: `ListingComplete`, that `listFiles` leaves
no file out whatever its order, rests on `FS_Injection` of the library.

- `OnlyFailuresAreMissing`: Spec => []MissingHaveFailed, for several importers side by side, any
  files (with common ISINs or not), rewrites, failures and restarts.

`MissingHaveFailed` compares what completely imported files lack with the number of failures.  An
ISIN can be lacking before its file is imported, when its write has failed: `Missing`
therefore also counts rows that an importer has been past in the file it is reading
(`PassedIn`).  Then each step but a failing write leaves `Missing` as it is or smaller, and
a failing write adds one ISIN and one failure (`MissingCounted`).  That `Update` leaves a document
behind needs `StillFound`: where `find` has seen one, there still is one.  Which rows are
done follows from what is left of them (`LastRowsLeft`).

### ShopEventsProofs

- `TypeCorrect`: Spec => []TypeOK.
- `StoresLastSent`: Spec => []StoredIsLastSent.
- `ServicesAgree`: Spec => []NoOrphans.

They are for any products, aggregates, partitions, attempts, calls, crashes and lost
messages.  `SInv` says what events that are still queued will do:

- `Stored`: the events in a queue are the last of its partition, in the order sent (`Placed`), and
  the database holds what the events before them leave of a product, or, while the event
  in front is worked on, something between that and what it leaves as well (`Between`);
  when the event is handled, the latter.  A crash then changes nothing: the event in front
  is worked on again, and ends in the same entities.
- `Letters`, `Ordered`: what is known of the calls.  A call sends the event about the product
  first; a product whose calls neither failed half way nor crossed has parts
  only while it is there itself or a call is still deleting them.  `NoOrphans` is about
  databases; with empty queues `Stored` says that they are what was sent.
- `HandledWaits`, `ValidOnly`: an event is handled only while it waits, and ids below 1 are never
  stored.

### Only model-checked

Liveness (`FrameIsParsed`, `AcceptedIsSent`, `QueuedFrameIsSent`, `RequestsAreAnswered`,
`RequestsAreRecorded`, `StayersAreAnswered`, `OpenIsPriced`, `ImportedUnlessMissed`, `QueuesDrain`):
fairness and `ENABLED` are beyond the prover.  The invariant `StoredIsCurrent` is next to be
proved.  So is induction over data, which is why
`Subsequence` and `Sorted` are defined by cardinalities.

## 6. Plan

Done, in this order: the socket loop, the shared buffer, the channel, the
calculation service, the log server, the C++ streamer, durations and the log
displayer, the price feed, the importer, the shop's events; and the theorems above.  Next:

1. Reading in the shop: the composition of retry, circuit breaker, time limit and
   fallback of `getProduct` as `ProductCompositeServiceImpl` uses them, beside `ShopEvents`: a
   reader between two topics.
2. The enricher's latch and its upstream connections, composed with `PriceFeed`: a price that
   goes through both.
3. `AllBonds.js` and `Search.js`: filters changed in place while responses overtake each other.
4. `Crud`: find, change and save beside another request; refinement of a register
   or a counterexample to it.

The modules are written for proofs: parameters are constants with named
assumptions, one action per operation, no recursive operators.

## 7. Not modelled

- The parts of the plan above (`PROJECT.json` marks them).
- `json.hpp` in `apps/cpp-rabbitmq-sample/src` is a vendored library of 25,000 lines, by far
  the longest file beside the programs; they parse and print small objects with it.
- The calculation itself (`generatePrimes` only takes time) and all formatting;
  authentication, TLS and configuration.
- RabbitMQ, MongoDB, MySQL, Kafka, Spring Cloud Stream, websocketpp and the operating
  system, except for what the code relies on; the vendored AMQP library beyond a
  channel's outgoing side.
- The verifier and the instrument server, which keep no state; the contents of prices and bonds.
- Weaker memory than sequential consistency.
- Kubernetes files, courses and UI templates.
