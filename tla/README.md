# A verification project for btc_server

TLA+ models of the servers of this repository, checked with TLC, with theorems
proved by TLAPS. Source paths below are relative to the directory `src/` of the
repository (`httpmessage_server/http_connection.cpp` is
`src/httpmessage_server/http_connection.cpp` there).

Contents: 1 inventory, 2 how the code maps to the modules, 3 what is assumed,
4 the runs, 5 the proofs, 6 what the models say about the code, 7 what is not
modelled, 8 the plan.

## 1. Inventory

| part | source | state | operations |
|---|---|---|---|
| HTTP request parser | `httpmessage_server/http_helper.hpp` | `m_state_`, the `request` it fills | `parse`, `consume` |
| HTTP request fields | same | `uri`, `content_length`, `keep_alive`, headers | `normalise`, `operator[]` |
| HTTP connection | `httpmessage_server/http_connection.{hpp,cpp}` | socket, `m_recvBuffer_`, `m_sendBuffer_`, `m_request_`, `m_request_parser`, `m_abort` | `start`, `handle_read_headers`, `handle_read_body`, `write_response`, `handle_write`, `stop` |
| connection manager | `httpmessage_server/http_connection.hpp` | the set of live connections, a mutex | `start`, `stop`, `stopAll` |
| HTTP server | `httpmessage_server/httpmessage_server.{h,cpp}` | acceptor, the connection being accepted, callback table and its lock | `init`, `start`, `stop`, `handle_request`, `add_handle`, `main` |
| login server | `login_server/` | acceptor, `sessionMgr`'s set, per session a socket and two buffers | `do_acceptor`, `session::start`, `do_read`, `do_write`, `stop`, `sessionMgr::start`, `stop`, `stop_all`, `main` |
| logging | `include/logging.hpp` | the open files by name, the last day and name, one lock | `open`, `logger_writer`, `make_filename`, `write` |
| database proxy | `dbproxy_server/dbproxy_server.cpp` | two pools, a connection handle, a result with a row cursor | `init`, `getDB`, `Init`, `excuteSQL`, `excuteQuery`, `next`, `getInt`, `getStr` |
| packet header, common types | `network/`, `include/common.hpp` | private fields | none |
| message server, route server | `message_server/`, `route_server/` | none | empty `main` |

**How they interact.** `http_server::start` makes a connection object and
hands its socket to `async_accept`; the accept handler gives it to the
manager, which inserts it and calls `start`, which begins the first read. The
read handlers parse, look up the callback of the target, call it, and begin the
next read; an application that was called answers with `write_response`, whose
`handle_write` closes connections that are not kept alive. Every handler that
meets an error calls the manager's `stop`, which closes the socket and erases
the connection. The login server has the same shape with sessions, without a
protocol: what arrives is printed. Both servers run all their handlers on the
one thread that called `io_service::run`. Every server may log; lines of
different threads meet under the logger's lock.

**What is hard.** The order in which bytes arrive, reads complete, peers leave,
the application answers or stops a connection, and the server is stopped; state
that outlives a request on a kept-alive connection; accept handlers that run
after the acceptor was closed; closing without timers; a buffer that is reused;
file names chosen by a clock that is read twice; a table written under a lock
for readers; writes that share one buffer; calls to a database that fail after
they took effect. `PROJECT.json` lists every such
place as a hazard, with its line and the properties that watch it.

**What makes the parts correct.**

* parser: a verdict for every block, at its last byte and not before; no access
  to a header that is not there; a request that was accepted is complete.
* connection: a callback gets the whole body and nothing else, once and in
  order; a request that can be served is served; every held connection has
  something that will end it.
* manager and servers: the set holds exactly the open connections; the accept
  chain does not break; `stop` and `run` leave nobody behind.
* login server: what is printed is what arrived; a session lives as long as its
  read.
* logging: lines of a file are in order, recent files are whole, a line is in
  the file of its day, and no file of an earlier run is removed.
* request fields: what the handlers go by is the target in lower case and what the
  first header of each name says.
* callback table: unless threads collide, it is atomic; no call waits for ever.
* response writer: answers reach the peer in order and whole.
* database proxy: the caller knows what was executed, but for one statement; a
  loop over a result reads only rows that are there.

## 2. Modules

| module | models | composed of |
|---|---|---|
| `RequestParser` | `request_parser`, over classes of bytes | |
| `RequestHeaders` | `request::operator[]`, `normalise` | |
| `HttpConnection` | `http_connction`, `http_connection_manager`, `handle_request` | extends `RequestHeaders`; takes the parser's verdict as `RequestParser` shows it |
| `HttpServer` | acceptor, application, process; the specification | extends `HttpConnection` |
| `ConnectionRegistry` | the abstract promise both servers keep | refined by `HttpServer` and `LoginServer` |
| `HandlerTable` | `m_callback_funcs_`, its lock, `add_handle`, `handle_request` from several threads | what `HttpServer` uses from one thread |
| `ResponseWriter` | `m_sendBuffer_`, `write_response`, `handle_write` byte by byte | what `HttpServer` only counts |
| `LoginServer` | `server`, `session`, `sessionMgr` | |
| `Logger` | `auto_logger_file`, `logger_writer` | |
| `DbProxy` | `main`, `CPGDbPoolManager::init`, `CPGDB`, `CPGDBResult` | |
| `MCHttpServer`, `MCLoginServer`, `MCLogger`, `MCHandlerTable` | instances for TLC | |
| `RequestParserProofs`, `HttpServerProofs`, `HandlerTableProofs`, `ResponseWriterProofs`, `LoginServerProofs`, `LoggerProofs`, `DbProxyProofs` | theorems, each about the module it is named after | some use `NumberLemmas` |

**RequestParser.** One step hands one byte to `consume`. `Advance` is a case
that answers `indeterminate`, `Decide` one that answers true or false;
`MethodAndUri`, `Version` and `HeaderLines` are the cases, as a relation between
a state, a byte and the next state. Bytes are named by the class the code
distinguishes. `matched` follows the search of `async_read_until` for the end of
the block. `NextBlock` is the next call of `parse` on the same object: the state
is the one the last block ended in, because `reset` has no caller.

**RequestHeaders.** A header is a name and a value, both by the classes the code
tells apart. `Matches` is the comparison of `operator[]`, of only as many
characters as the name asked for has: `"content-length+"` stands for any header
whose name starts with `content-length`. `Extracted` is `operator >>` into a
`uint64_t`, with its width as `ULongMax`: a negative number wraps, one out of
range saturates, text is 0. `ContentLength` is `Absent` without a header, and for a
value of blanks only, on which `operator >>` gives up before it extracts: the field
is left alone, and `HttpConnection` keeps what was in memory.

**HttpConnection, HttpServer.** A peer's byte stream is a sequence of header
blocks and body bytes, so that `m_recvBuffer_` is the part of `stream` between
`used` and `got`. A header block is one symbol with the fields the handlers test;
its `form` says what the parser makes of it, as in `RequestParser`: `good` is
well-formed, `bad` is not, `lf` begins with a line feed and is what a parser left
in `expecting_newline_3` takes. A target is spelled in some way, and the constant
`to_lower` gives the spelling that `normalise` makes of it; `m_callback_funcs_`
holds targets as `add_handle` was given them, and `Dispatch` searches it with the
lowered one. `ReadSome` is one `read_some` of a composed read,
of any size; the handlers are `HandleRead` (six cases, two of which call
`handle_read_body`), `HandleWriteStops`, `HandleWriteDone`, `HandleAccept`,
`HandleAcceptThrows`, `HandleAcceptError`. `Dispatch` is `handle_request` with
what its callers do with the answer. `calls` is a history of the callbacks, as
positions in the stream. `state[c] = "closed"` is `m_abort`: `stop` sets it and
closes the socket. The server's own variables are `proc` (what `main` is doing),
`acceptorOpen`, `accept` and `m_http_connection_ptr_`.

**HandlerTable.** `stack[t]` is what thread `t` is in: a call, the callback it
made, the call made in there, and so on. `Begin`, `Lock`, `Find`, `Insert`,
`Assign`, `CallbackReturns` and `Return` are the steps of a call; `m[uri] = cb` is
two of them, for the map first makes an empty function. An access beside a
conflicting one of another thread is undefined behaviour: `health` becomes
`racy`, from where a lookup may find anything, an insertion may be lost and the
process may crash. `LockMode` is shared for both operations, as in the code.

**ResponseWriter.** The bytes of all answers are numbered; `m_sendBuffer_` holds
those from `gptr + 1` to `pptr`. `WriteResponse` appends an answer and begins a
write of all the buffer holds; `Send` is one step of the kernel, for any part of
the write at the head of its queue; `HandleWrite` consumes what a write sent and
closes a connection that is not kept. Appending may move the storage under the
writes under way, which then send `Junk`.

**LoginServer.** `m_buffer_` is a function on `BufferSize + 1` cells; a cell
holds the position of the stream it was read from, 0 for a NUL, or `Junk`. The
last cell is the byte behind the buffer, where a read that fills the buffer puts
its terminator; after that `HeapFails` may end the process at any time. `printed`
is what `cout` has shown, as positions.

**Logger.** A file is the number of its day. `logger_writer` takes the lock and
the time stamp, `make_filename_Same`, `_New` and `_Rename` are the two readings
of the clock, `WritePlain`, `WriteKept` and `WriteNew` the branches of `write`.
`ClockMoves` may come between any two of them, in either direction; `Restart`
may too, and keeps only what is on disk.

**DbProxy.** `Connect` opens the handle of each pool in turn; `excuteSQL` and
`excuteQuery` give a statement to libpq, which may execute it, or not, and report
what it likes of it; the wrong status throws, and an exception ends `main`.
`next`, `Get` and `Finish` are the cursor: `offered` is the set of rows for which
`next` said yes.

Definitions such as `HandleAccept_StartsNoAccept` are faulty variants of the
definition they precede. They are not part of any specification; `PROJECT.json`
pairs each property with the variant it must reject.

## 3. What is assumed

*Of the surroundings.* A peer sends blocks, shuts down, or is reset, at any
time; bytes arrive in any portions; data already sent is read before the end of
the stream, and nothing after a reset. An accept may fail at any time. What a
peer does after the server closed its end is left out, since nothing reads it.
The application runs on the io_service thread, answers callbacks at once or
later, may stop any connection and may stop the server; `main` registers no
callback, so the targets that have one are chosen freely, before and while the
server runs. The thread that waits for `getchar` touches no server state.

*Of threads, libpq and the kernel.* `HandlerTable` has any threads calling
`add_handle` and `handle_request` at any time, as the lock in the class foresees,
and callbacks that call either. A database may refuse a connection or a
statement, and a connection may break at any time, also between the execution of
a statement and its answer. The kernel sends any part of a write.

*Of fairness* (`FairSpec` only). In `HttpServer` the io_service runs every queued
handler, bytes that were sent arrive while somebody reads, writes complete, `run`
returns when nothing is left, and the application answers every callback. These
are weak fairness conditions on the handlers: one thread takes turns through its
queue, and an enabled handler stays enabled until it runs or its connection is
closed, which enables the handler's error case instead (for the read handlers
this is the theorem `ReadHandlersAreOwedOneTurn`). In `HandlerTable` every
thread is scheduled and callbacks return; a lock that is free is not kept from a
thread for ever, which weak fairness suffices for as long as nobody takes it
exclusively. Nothing is assumed of peers, of accepts on an open acceptor, of the
application's decision to stop, or of the heap.

*Deadlock* is not checked in the server runs: a server whose peers stay silent
waits for ever, a peer may have used up its bound, and the process may have
ended. Whether somebody is left waiting is what `NoStrandedConnection`,
`SessionsAreReading`, `EveryCallReturns` and the other liveness properties ask.
The parser, the writer and the proxy stop with their input. In the logger's run
deadlock is checked.

## 4. Runs

| run | instance | properties |
|---|---|---|
| `parser` | all byte classes, 3 headers, blocks of any length, any number of blocks | `BackIsDefined`, `VerdictAtEndOfBlock`, `VersionIsKnown`, `LaterBlocksLeaveRequest` |
| `one_connection` | 1 connection, 11 kinds of block, 2 blocks, a target in 2 spellings, 2 values of uninitialised memory, with fairness | `NoStrandedConnection`, `BodyIsWhole`, `CallsInOrder`, `FieldsAreTheHeaders`, `FirstRequestIsServed`, `ImplementsRegistry`, `FirstRequestIsHandedOver`, `OneShotConnectionsClose`, `GonePeersAreReleased`, `StoppedServerReturns` |
| `two_connections` | 2 connections (symmetric), 3 kinds, 1 block each | `RegistryMatchesSockets`, `StopDrains`, `KeepsAccepting`, `ReturnsDrained` |
| `handler_table` | 2 threads, 2 targets, 4 calls, 2 deep, with fairness | `LateCallsSeeTheTable`, `EveryCallReturns` |
| `response_writer` | 3 answers of up to 2 bytes | `AnswersInOrder`, `OneShotAnswerIsWhole`, `NothingIsLost` |
| `login` | 2 sessions, 5 bytes between them, buffer of 3 | `PrintsWhatArrived`, `SessionsAreReading`, `AcceptsUntilFailure`, `ImplementsRegistry` |
| `log_rotation` | 2 threads, 5 days, months of 3, 2 files, 3 lines | `LinesInOrder`, `LatestFilesAreWhole`, `FileIsOfTheDayIfBusy`, `RemovesOnlyItsOwn` |
| `dbproxy` | 2 pools, results of up to 3 rows, 3 statements | `OnlyTheLastIsInDoubt`, `LoopSkipsOnlyRowZero` |
| `next_request` | violation | `NextRequestIsServed` |
| `table_race` | violation | `TableIsExclusive` |
| `log_month` | violation | `FileIsOfTheDay` |
| `target_case` | violation | `RegisteredTargetIsServed` |

In the passing runs a request is servable (`FirstIsServable`) when its target *in
lower case* has a callback and its body is no longer than the 64KB that the comment
names. What the code does with a target that is registered in another spelling is
the run `target_case`; of longer bodies section 6 tells.

The first run of each module also checks its type invariant; those of `Logger`
and `DbProxy` carry small facts with the types (how many files are kept, which
rows are offered).

*Why the bounds are enough.* The parser's graph is finite but for the number of
headers, which consume only compares with zero. Two blocks on a connection show
the first verdict, and the second on the used parser, which is the state every
later block meets (`LaterBlocksLeaveRequest`); bodies of two bytes can arrive
with the headers, split, or late, and one byte short. Two connections show every
order of two handlers, of an accept against a close, and of a connection that was
already started against one that is being accepted when the server stops; a third
adds no new pair. The requests' headers hold a length twice, one out of range, one
that wraps, one that is blank, and names that merely start like the one looked
for; `ULongMax` is above the limit of a body, so that a wrapped number can be a
legal length. Five bytes through a buffer of three fill it, reuse it with shorter
and longer reads, and place NULs anywhere. Four calls let two threads each nest
one in the other, which is every pair of accesses and every wait of one lock;
three answers of two bytes overlap, are sent in parts, and outlive the buffer's
move. Results of no, one and more rows are all the cases of the cursor. Two threads suffice for a
lock; two files and three lines reach an eviction, five days of three-day months
reach the same day of a later month, and after the clock was set back two lines
are enough for a file to evict itself. The theorems of section 5 have none of
these bounds.

The named bounds are `MaxHeaders`, `MaxRequests`, the sets `Conns` and
`Sessions`, `MaxBytes`, `MaxDay`, `MaxLines`, `MaxCalls`, `MaxDepth`,
`MaxAnswers`, `MaxSize`, `MaxRows`, `MaxStatements`, and the state constraint
`BackForTwoLines` of the logger's run; each guards the step it limits. `Garbage`
is what uninitialised memory may hold, `ULongMax` the width of a length.

## 5. Proofs

All statements below hold for every value of the constants. The named
assumptions are `MaxHeadersAssumption`, `ULongMaxAssumption`, `UrisAssumption` (lowering
a target gives a target, and lowering it again changes nothing), `HeadsAssumption`,
the two `BoundsAssumption` and the two `SizesAssumption`, which give the constants
their types; `LoggerAssumption`, which adds that `main` has a thread, a log keeps at
least one file and a month has at least one day; and `CallbacksAssumption` and the last part of
`LoggerAssumption`, by which the values that stand for no callback, an empty one
and no thread are not threads.

**RequestParserProofs.** `IInv` adds to the type invariant that every state tells
how much of the delimiter has been matched (`StateTellsProgress`): without it an
accepting byte could not be shown to be the block's last. From it follow
`BackAlwaysDefined`, `VerdictsAtEndOfBlock`, `VersionAlwaysKnown` and, as action
properties, `LaterBlocksAreInert` and `LaterBlocksTakeALineFeed`: a later block is
accepted if and only if it begins with a line feed, which is the second case of
`Accepted` in `HttpConnection`.

**HttpServerProofs.** `IInv` has five parts, of which the last two are kept
together. `TypeOK` alone is not inductive:
that a length is a number of the width is a chain of lemmas about
`RequestHeaders` (`ValueOfIsAValue`, `ExtractedFits`, `ContentLengthType`), and
that `need` never becomes negative, or that `sgetn` is not asked for bytes that
are not there, depends on where the positions lie. `Sockets` says which state of
a socket goes with which handlers; `Progress` collects the invariants about what
is left to happen; `Positions` relates buffer, outstanding read, request and past
callbacks to the peer's stream; `CallsInOrder` is inductive given `Positions`.
There is a lemma for every group of actions and part, and the theorem
`Invariance` puts them together. From it follow `TypeCorrect`,
`RegistryIsTheOpenSockets`, `NoneIsStranded`, `AcceptChainHolds`,
`StopLeavesAtMostOne`, `RunReturnsDrained`, `CallbacksInOrder`, `BodiesAreWhole`
and the action property `FirstRequestServed`, which holds for targets in any
spelling and bodies of up to 65536 bytes. `RefinesRegistry` shows that the
server implements `ConnectionRegistry`: starting a connection opens it, every
`stop` and `stopAll` closes a part of what is held, every dispatch to a callback
serves a connection that is held, and everything else stutters.

What the request says is a second invariant (`Fields`), kept given `IInv`: once
the parser has been through a block, the request has the lowered target, `keep_alive` and,
if there is one, the length of the first block. `ValueOfTheFirst` shows that
`operator[]` finds the first header of its name, `ExtractedIsModulo` what
`operator >>` makes of a number; `FieldsAreRight` follows.
`HandedOverRequestStays` is the action property that no later block changes a
request that a callback was given, so that `handle_write`, which runs later and
reads `m_request_` again, goes by the `keep_alive` of the request it answered.
`ReadHandlersAreOwedOneTurn` says that a read that has ended, satisfied, failed or
aborted, stays ended until its handler runs, whatever peers, application and other
connections do: the safety half of the liveness properties, and the reason why
weak fairness is enough for them.

**HandlerTableProofs.** Whatever happens, the inner calls of a thread are in
callbacks (`Nesting`) and a call is at a place of its operation (`Places`). As
long as there was no race, at most one thread is between `find` and assignment
(`OneWriter`), the entry that thread works on is what its last step made it
(`Table`), and a call that began after a callback was added has that one before
it (`Calls`). `LateCallsSeeTheTable` is not inductive without `OneWriter` and
`Table`: a second winner is excluded because whoever has assigned still finds his
own callback in the entry. `UpdateEffect` and `ReturnEffect` say what a step does
to the calls of a thread, and each action has a lemma. The theorems are
`TypeCorrect`, `LateCallsAreRight`, and `OneThreadIsExclusive`: used from one
thread the table is never raced, which is why `HttpServer`, where everything runs
on the thread of the io_service, may treat it as a set.

**ResponseWriterProofs.** `IInv` says where the one write stands as long as none
overlaps another (`OneByOne`), that a connection which is not kept has one answer
(`OneShot`), and, for any overlap, that a byte not yet received is covered by a
write under way, unless the storage moved (`OnTheirWay`), and that some write
under way or some handler to come empties the buffer (`Draining`). Each queue
operation has a lemma with its effect in terms of elements, each action one that
it preserves `IInv`. The theorems are `TypeCorrect`, `AnswersAreInOrder`,
`OneShotAnswersAreWhole` and `NothingGetsLost`.

**LoginServerProofs.** `IInv` adds to the type invariant and the three invariants
of the runs which socket an accept under way belongs to (`AcceptUnderWay`) and
that no more was read than was sent (`ReadsWhatWasSent`). `ReadPrints` is
the heart of it: the string behind a terminated buffer is an initial part of the
bytes just read, for every size of buffer and read. The theorems are
`TypeCorrect`, `HeldSessionsRead`, `AcceptChainHolds`, `PrintedIsWhatArrived` and
`RefinesRegistry`.

**DbProxyProofs.** `IInv` adds to the type invariant and `OnlyTheLastIsInDoubt`
where the cursor stands after each answer of `next` (`Cursor`): after a yes the
rows offered are 1 up to the row it is on, after a no all but row 0. The theorems
are `TypeCorrect`, `DoubtIsBounded` and `LoopsSkipRowZero`, for results of any size
and any number of statements.

**LoggerProofs.** `IInv` says that whoever is not idle holds the lock and has the
newest line (`Holder`), which names go with which way of opening (`Names`), and
that a line in a file is older than the one being written (`Written`); from these
`LinesInOrder` is inductive. Under a clock that is not set back, stamp, day of the
name, name and clock follow each other (`Forward`), so that the list holds the
latest files written to: a file that is not in it is earlier than all that are,
and those are `LogFileNum` (`Kept`). `Days` is the argument about days of the
month: when a thread finds that the day looks like that of the last name, either
it is that day, or a month has passed since the line before (`SameDayOfMonth`).
The theorems are `TypeCorrect`, `LinesStayInOrder`, `RotationKeepsTheLatest`,
`FilesAreOfTheDayIfBusy` and, as an action property, `OnlyOwnFilesAreRemoved`, for
any number of threads, days, files, lines and restarts.

`NumberLemmas` holds one fact about the least element of a set of numbers.

Every invariant and every action property of the passing runs is proved, and both
refinements. Only model-checked: the five liveness properties
(`FirstRequestIsHandedOver`, `OneShotConnectionsClose`, `GonePeersAreReleased`,
`StoppedServerReturns`, `EveryCallReturns`), because fairness is out of the prover's
reach, and the four violations, which are counterexamples.

## 6. What the models say about the code

* **A kept-alive connection serves one request.** `m_request_parser` is not reset
  (`http_connection.cpp:67`): the next well-formed request is refused at its
  first byte and the connection dropped, where the comments at lines 111 and 140
  say that the next request is read. A block that begins with a line feed, on
  the other hand, hands the first request over again. Run `next_request`.
* **`m_callback_funcs_` is written under a shared lock**
  (`httpmessage_server.cpp:124`), so that two threads may be in the map at once.
  Run `table_race`. An exclusive lock alone would be no repair, since
  `handle_request` keeps its lock while the callback runs: a callback that adds a
  handler would wait for itself, which is what `EveryCallReturns` rejects.
* **A callback for a target with a capital letter is never found.** `normalise`
  lowers the target of a request (`http_helper.hpp:60`), `add_handle` does not
  lower its key, and the map is searched for the exact string
  (`httpmessage_server.cpp:113`): the connection is dropped, where the comment
  there says that the URI chooses the handler. Run `target_case`.
* **The log's file is chosen by the day of the month** (`logging.hpp:155`): after
  a month of silence a line goes to the old file. Run `log_month`.

No run shows these, but the models say them too. The first two contradict a
comment; no property that passes is stated so as to hide either:

* A body may be longer than 64KB: the limit is 66535 bytes (`http_connection.cpp:81`),
  where the comment above it says 64KB. `FirstRequestIsServed` promises service up
  to 64KB and no more, and `BodyIsWhole` has no limit.
* `content_length` may be read uninitialised by a post without the header, or with
  one of blanks only (`http_helper.hpp:66`), although the comment at line 37 says
  that it may be accessed once `normalise` was called. The instances have such a
  post, and two values for what memory held.
* A header whose name merely starts with `content-length` or `connection` is taken
  for it (`http_helper.hpp:47`), also in front of the real one;
  `FieldsAreTheHeaders` excepts requests that have such a header.
* A clock set back loses log lines (`logging.hpp:122`): the smallest name is evicted,
  which may be the file just opened for the line. `LatestFilesAreWhole` is stated
  for a clock that goes forward.
* Answers written while a write is under way are sent again from where the
  buffer's consumed part ends, so the peer gets bytes twice;
  `AnswersInOrder` holds for an application that waits, and `NothingIsLost` says
  what is left without waiting.
* `while (result->next())` never sees row 0 (`dbproxy_server.cpp:48`), and
  `excuteSQL` throws for statements that were executed.
* A negative `Content-Length` wraps (`http_helper.hpp:71`).
* One failed accept ends the accept chain of either server, and a connection that is
  reset before its accept handler runs ends the HTTP server with an exception
  (`HandleAcceptThrows`). `KeepsAccepting` and `AcceptsUntilFailure` are stated up to
  the first failure.
* A log file that could not be opened once stays in the list and loses the lines of
  its day.

The test of `handle_read_headers` for an indeterminate verdict does not test it,
and `exit(-1)` in `do_read` looks reachable by any aborted read. The theorems
`VerdictsAtEndOfBlock` and `HeldSessionsRead` show that neither matters as the code
is.

## 7. What is not modelled

* The text of requests, responses and log lines.
* The growth of `m_recvBuffer_` when no block ends: a block is one symbol.
* `request_parser::reset`, `session::do_write`, `sessionMgr::stop_all`: no code
  calls them. `reply`, `PBHeader`, `common.hpp`, the message and route servers:
  no behaviour.
* `getDB` of a name that is no pool, and of a pool that is empty: `main` asks for
  the two it made.
* Vendored libraries (`thirdpart/`), projects, documents. What boost::asio does
  is modelled from how this code uses it, and marked external in `PROJECT.json`.

## 8. Plan

Done, in this order: `RequestParser`, `HttpConnection`, `HttpServer`,
`ConnectionRegistry`, their proofs, `LoginServer` and its proofs, `Logger`,
`RequestHeaders`, `HandlerTable`, `ResponseWriter` and its proofs, `DbProxy` and its
proofs, the proofs about `Logger`, `HandlerTable` and `RequestHeaders`. All code of
the repository that has a behaviour is modelled, but for section 7, and every
safety property of the passing runs is proved. What is left:

1. for the liveness properties, more of the safety half of their arguments: that
   every turn of a handler uses up something finite, and what holds once nothing
   is left (`ReadHandlersAreOwedOneTurn` is the first of these);
2. a theorem about `FileIsOfTheDay` as it is violated: that a line in a file of
   another day is always a month or more after the line before it.
