# A TLA+ model of qjs-modules

qjs-modules is a set of native (C) and JavaScript modules for QuickJS.  This
directory models the parts of it that keep state between calls, or that go
through an input in pieces: queues, asynchronous iterators, streams, processes,
sockets, database clients, parsers, readers and writers, lists, events, the line
editor of the REPL.  The modules are checked with TLC on small instances and,
for the parts with the hardest interleavings, proved with TLAPS for every value
of their constants.

## The system

QuickJS runs one thread per context: a method runs to completion, then the
pending promise jobs run, then the event loop waits for timers, descriptors and
signals.  Concurrency in this code is therefore of three kinds: what the user's
code, promise jobs and event handlers do *between* two calls; user code that is
called *inside* a call (an executor, a sink, a source, a listener) and calls
back; and the garbage collector or the operating system (SIGCHLD, sockets),
which act between any two calls.  The rest of the hard behaviour is sequential:
an input that is cut into chunks anywhere, a descriptor that takes less than it
was given, structures that the program changes under an iterator.

| Component | Code | State | Operations | Hard behaviour | Properties that make it correct |
| --- | --- | --- | --- | --- | --- |
| Byte queue | `src/queue.c`, `quickjs-queue.c` | list of reference-counted chunks, `nbytes`, `nchunks`, ArrayBuffers that share chunks | write, read, peek, skip, next, chunk, at, clear, finalizer | counters kept beside the list, partial reads, memory that outlives the queue | counters match the list; a chunk lives as long as a holder; bytes come out in order |
| Repeater | `quickjs-repeater.c` | lists `pushes` and `nexts`, `state`, the executor's promise | next, push, stop | executor re-entering the first `next()`, promises as values, several consumers | k-th request meets k-th value; the end is last; nobody waits for ever |
| Repeater combinators | `quickjs-repeater.c` | an array of contenders and their promises | race, merge, zip, latest | results of losing contenders, errors in one of them | no value is lost or made up, the end comes when it should |
| WritableStream | `quickjs-stream.c` | queue, state, `_writing`, backpressure, the writer's promises | getWriter, releaseLock, write, close, abort, error | handlers that come back after an error emptied the queue; a lock that changes hands | one call of the sink at a time, in order; truthful answers; `ready` follows the room |
| ReadableStream | `quickjs-stream.c` | queue, waiting reads, `_pulling`, `_pullAgain` | getReader, releaseLock, read, cancel, enqueue, close, error | `pull()` re-entering, demands that come while it is pending | no chunk lost or reordered, no read forgotten, one `pull()` at a time |
| Byte streams | `quickjs-stream.c` | pending pull-intos, partly filled views, `_byobRequest` | read(view), respond, respondWithNewView, enqueue | partial responds, buffers allocated by the controller | bytes in order, no read forgotten |
| TransformStream | `quickjs-stream.c` | a readable and a writable side | transform, flush, terminate, error | the sides end independently, while `transform()` is at work | an end of one side reaches the other |
| Child processes | `src/child-process.c`, `quickjs-child-process.c` | list of processes, exit status, callbacks | spawn, wait, kill, SIGCHLD handler, finalizer | signals that coalesce, a wait that reaps another process | every exit is reported once, to the right process |
| Sockets | `quickjs-sockets.c` | `pending[2]`, handlers, ownership of the descriptor | connect, accept, send, recv, close | close while an operation is pending, descriptors used again | a waiting call has its handler; nothing read is lost; calls settle |
| AsyncClosure, MySQL | `src/async-closure.c`, `quickjs-mysql.c` | a list of closures for the whole process; the connection's operation | connect, query, next, close, finalizer | closures found by descriptor, an operation that changes its direction | handlers are the ones wanted, nothing goes on after close() |
| PostgreSQL | `quickjs-pgsql.c` | connections, results and iterators that hold each other | connect, query, close, finalizers | whichever is collected first | counts agree with who holds what |
| List | `quickjs-list.c` | a ring of reference-counted nodes, iterators | Array-like methods, iterators | a list that is its own argument, nodes moved under an iterator | the ring is a ring, no cell freed early |
| JSON, XML | `src/jread.c`, `src/xml.c` | the parser between two chunks | read, finish, run | a cut inside any token | events do not depend on the cuts |
| Lexer | `src/lexer.c`, `quickjs-lexer.c` | position, pending token, stack of states | next, peek, back, skip, push and pop of states | calls that repeat or leave a token | tokens cover the text; positions are right |
| Readers and writers | `src/stream-utils.c` | buffer, position | read, write, flush, close | partial writes and reads, failures | no byte lost or doubled |
| Paths, Pointer | `src/path.c`, `src/pointer.c` | none; a list of keys and its atoms | normalize, relative, ...; splice, slice, ... | rewriting in place; who owns the atoms | what the result leads to; atoms counted |
| Deep, TreeWalker | `quickjs-deep.c`, `quickjs-tree-walker.c` | a stack of property enumerations | next, skip, leave; walker methods | objects that change under the iterator | nodes in order, once |
| Events, abort signals | `lib/events.js`, `lib/abort.js` | listeners, signals, waits | on, once, emit, dispatchEvent, any, waitOne | listeners that register, remove and fire inside of each other | called in order, a `once` once; a removed one only by a call already going over it |
| REPL | `lib/repl.js` | line, cursor, clipboard, history, search, terminal | keys | redraw over several rows, evaluations that are awaited | the terminal shows the line; nothing typed is lost |
| Predicates, inspect, location, virtual properties, bindings, JavaScript library | ... | - | - | - | not modelled, see the end |

How they interact: the queue, the repeater and the streams are used by user
code and do not call each other, except that `TransformStream` is built of the
two stream classes and the combinators are executors of a Repeater.  Child
processes, sockets and the database clients install handlers in the event loop
(`os.signal`, `os.setReadHandler`), MySQL through AsyncClosure, and settle
promises.  Deep and TreeWalker share the property enumerations.

`PROJECT.json` lists all components with what is modelled of them, and under
`hazards` the lines that are hard to test with the properties that watch them.

## The modules

| Module | Models | Uses |
| --- | --- | --- |
| `ByteFifo` | what a byte queue promises: a stream of positions, written and consumed | - |
| `PrefixSums` | running totals, as a recursive function | - |
| `Removals` | a sequence without some elements, as a recursive function | - |
| `Queue` | `queue.c` and its class | `PrefixSums`, implements `ByteFifo` |
| `Rendezvous` | what a repeater promises | - |
| `Repeater` | `quickjs-repeater.c` without the combinators | implements `Rendezvous` |
| `Combinators` | race, merge, zip, latest | `Repeater` |
| `WritableStream`, `ReadableStream` | stream, writer or reader, default controller | `PrefixSums` |
| `TransformStream` | the sink that joins the two | both stream modules |
| `ByteStream` | the byte controller and both readers | - |
| `ChildProcess` | the list of processes, SIGCHLD, spawn, wait, kill | - |
| `AsyncSocket` | AsyncSocket, its handlers, the kernel's side | - |
| `AsyncClosure`, `MySQLClient` | the list of closures, the MySQL client | - |
| `PgSQLClient` | connections, results, iterators, handlers | - |
| `EventTarget`, `EventEmitter` | `lib/events.js`, `lib/abort.js` | `Removals` |
| `JsonReader`, `XmlReader`, `Lexer` | `jread.c`, `xml.c`, `lexer.c` | - |
| `Path`, `Pointer` | `path.c`, `pointer.c` | - |
| `StreamUtils` | buffered readers and writers, counting, URL coders | - |
| `List` | `quickjs-list.c` | - |
| `PropertyRecursion`, `Deep`, `TreeWalker` | the stacks of enumerations and what goes through objects on them | the first |
| `Repl`, `ReplText` | the line editor; keys from bytes and open brackets of a text | - |
| `..._proofs` | the proofs | - |
| `MC...` | the instances for TLC | - |

Parts that share no state are looked at by one run: `MCWritableStream`,
`MCReadableStream`, `MCNetwork` and `MCData` have a variable `which` (or
`program`, for the combinators) that says which part moves in a behaviour; the
others stay as they start.

### Queue

The heap is explicit: `heap[c]` is the memory at address `c`, `ref_count` 0
meaning free, so that memory handed out again under a live ArrayBuffer would be
seen.  A byte is named by its position in the order of writing and a chunk's
data is an interval of positions; `reply` is what the last call returned.  The
loops of `queue_read`, `queue_peek` and `queue_skip` become the operators
`TailPos`, `Taken` and `Drained`.  `Asserts` tells a debug build, where a failed
assertion aborts, from a release build.  `DropView` and `Finalize` are the
garbage collector.

`ByteFifo` is the promise: whatever the chunks, reads, peeks and shared chunks
are windows of one stream.  `ImplementsFifo` maps the first byte still held to
`consumed`.

`queue_clear()` subtracts `chunk->size` for every chunk although a partial read
subtracted a part of it before; the following `assert(q->nbytes == 0)` fails.
The run `queue_ndebug` shows the release build, where `nbytes` wraps around.
`HoldersCounted` is an inequality because `queue_next()` keeps the reference of
the list: a chunk taken with `next()` is never freed.

### Repeater and Combinators

`next()`, `push()`, `stop()` are actions; the first `next()` is two, `Start` and
`ExecutorCalled`, since the executor runs in between and may call all three; what
it asked for and then ended is answered once its own promise is settled.
`answer[k]` and `heard[i]` are the promises returned to the consumer and to the
producer; `value[i]` says how a pushed promise stands.  The jobs are `Iterate`
and `Deferred`.  `Rendezvous` says which answer is due to which request;
answers may arrive in any order.

`NextIsAnswered` is refuted: when a request waits and a promise is pushed that
is rejected later, nothing settles the request.  The first part of
`EveryoneGoesOn` is the same property without that case.

The argument of `next()` is a plain value.  An executor that throws
synchronously is not modelled, the repository's executors are async functions.
Starting raises `ref_count` by two and nothing lowers it; memory that is never
freed changes no behaviour.

In `Combinators` the executor of the Repeater is one of the four programs: what
the Repeater left open, its user's calls, is now the code of the combinator.
`main` and `loops` are where its functions stand, `calls` what each contender
was asked and answered, `carried` what each push carries.  Contenders answer in
order and nothing follows their end.  As the code has it: after a contender
failed, the other loops of merge and latest go on for ever without waiting and
what they push is dropped; race drops late values; an error arrives as the value
of the `done` result.  The final values of executors and `toIterator` are left
out.

### WritableStream

The methods of the class call each other, so each is a function from a record of
fields (`World`) to such a record and a handler is one step.  While `sink.call`
is `running` the user's code in the sink may take any action, but no promise job
runs; then the sink returns a promise (`SinkReturns`), which settles
(`SinkSettles`) and lets a handler run (`Job`), or throws (`SinkThrows`).
Entries of the queue are numbered in the order they were accepted, so that
"in order" and "each once" is `sink.given = <<1, 2, ...>>`.

Behaviour worth knowing that no document of the repository contradicts, so that
it is modelled and not reported:

- `write()` reaches the sink before `start()` settled.
- `error()` or `abort()` while the sink is closing rejects the caller of
  `close()` and `writer.closed`, but when the sink is done the state becomes
  `closed`.  `Truthful` shows that everything was delivered in this case.
- after an error the handler of the entry in flight subtracts its size from a
  `_queueTotalSize` that is already 0, so it can be negative (`TypeOK` has it in
  `Int`).
- a writer acquired on an errored stream whose queue was full has a `ready`
  promise that may stay pending; `releaseLock()` leaves both promises as they are.

### ReadableStream and ByteStream

The same style; `requests` are the `_readRequests` of the reader that has the
lock (`releaseLock()` empties them, so there is one list).  `pull` is how the
last call of the source's `pull()` stands; `demand` in `MCReadableStream`
remembers how many chunks there were when it was made.  `ReadResolves` holds for
a high water mark of two and is refuted for zero: `_shouldPull` does not look at
the reads that wait (in the byte controller, `quickjs-stream.c:396`, it does).

`doc/native/stream.md` differs from the code in two more places, which need no
model: line 33 says that a reader's `cancel()` releases the lock, the code keeps
it; line 22 lists a `closed` getter of `ReadableStream`, which has none.

In `ByteStream` bytes are numbered in the order the source provides them and 0
is a byte nobody wrote.  The controller does not handle some legal sequences of
calls as it should; `lapses` records the first of them and a behaviour ends
there, so that `BytesKeepOrder` speaks of everything before.  The lapses are:

- bytes that wait in the queue are overtaken by later ones in a buffer of
  `autoAllocateChunkSize`; `releaseLock()` of a BYOB reader with such a buffer
  errors the stream;
- `_byobRequest` is not taken back by `releaseLock()`, `cancel()` or a partial
  fill: the view is stale, and `respond()` then resolves a read with bytes
  nobody wrote, or throws after the request was shifted and leaves it pending;
- `respondWithNewView()` drops the part of a view that was filled before;
- `_finishClose` and `respond(0)` after `close()` drop bytes that are queued or
  in a partly filled view;
- `_respond` does not call `_callPullIfNeeded`; an empty chunk and then
  `close()` can leave a BYOB read waiting (empty chunks are not modelled).

Elements have one byte and views have buffers of their own.

### TransformStream

`TransformStream` instantiates both stream modules; its own part is the sink
that `quickjs-stream.c` makes for the writable side.  `from` names the entry each
chunk comes from, `cut` says that the readable side was cancelled or terminated,
`silent` that the writable side failed in one of three ways that the code does
not tell the readable one of: `strategy.size()` throws inside a write, `flush()`
throws at once, and `flush()` is done after `terminate()` or `cancel()`, when
closing the readable side throws (`quickjs-stream.c:985`).  `EndsAgree` excepts
these and nothing else.

### ChildProcess

The operating system is part of the model: `proc[c]` is the process (running,
stopped, zombie, reaped), `ended[c]` how it ended, `pending` the one bit in which
quickjs-libc keeps SIGCHLD until the event loop runs the handler.  `linked` is
`child_process_list`, `handler` is `child_process_handler`, `status[c]` what
`child_process_status` noted last, `told[c]` the calls of `onExit`.  A call of
`wait()` or `spawnSync()` that blocks lets only the system act: `Wait` is the
moment in which it returns, `syncing` lasts from `Spawn` to `SyncEnds`.

Modelled is the build with `posix_spawn()`; when it fails the object keeps its
pid of -1, which `waitpid()` and `kill()` take for "any".  Process ids are not
used again, every object has an `onExit`, and the options, the pipes, the
`fork()` branch and the Windows branch are left out.

Two promises are refuted: two children that end before the handler runs share
one signal and one `waitpid()`, so the second `onExit` waits for the end of yet
another child (`OnExitComes`); `wait()` on an object without a process reports
exit code 0 (`ExitCodeIsReal`).  `wait(WUNTRACED)` unlinks a child that only
stopped, and the next `wait()` unlinks it again.  `EndIsNoted` excepts the last
two cases; `ToldTruth` and `HandlerWhileListed` hold in all.

### AsyncSocket

`calls` are the promises returned, `pending[s][d]` the one a socket's direction
works for, `handler[f][d]` the call whose closure the event loop calls for
descriptor `f`; `link`, `waiting` and `ended` are the kernel's side.  A
descriptor that was closed is given to the next socket, while handlers stay:
that is the interesting part.  As the code has it: a `connect()` that is refused
at once resolves; `close()` with a call pending leaves its handler on a closed
descriptor, where `select()` fails with EBADF; a handler whose call was settled
runs again.  The properties except exactly these calls.

### AsyncClosure, MySQLClient

`AsyncClosure` has functions from `World` to `World` like the streams; `list`
are the closures of the process and `io[f][d]` the handlers.  The actions of
`MySQLClient` start an operation of libmariadb (`connect`, `query`, `next`), go
on with it (`Continue...`), and end it.  What libmariadb says, done or what to
wait for, is free.  As the code has it: an operation that is done at once leaves
its promise pending, a connect that fails resolves, and closures of ended
connections stay in the list.  Reference counts of closures never fall to 0
while one waits and are left out.

### PgSQLClient

`conns` and `results` carry the counts that the finalizers and `pgconn_*`
functions move; `watch` the handlers.  A connection and its last result hold
each other, so a connection that was queried is never freed unless it is closed;
`RefsCounted` says that the counts are the number of holders.  `close()` leaves
the handlers where they are.  `connect()` may come after it and then finds them on
its descriptor, which has the same number here: an old handler resolves its own
promise with the new connection, or takes a result that is not there, and the new
one goes over it when it wants the same direction.  `found` notes this in the
promise, and only then does a connection have two handlers.  `connect()` over a
connection that is open and has no handlers forgets the old `PGconn`, which is
never freed; over one whose handlers still wait, where the new connection would get
a second descriptor, it is not modelled.

### EventTarget, EventEmitter

`stack` is what was called and has not returned: a dispatch, or a function of
the program, which may call anything and may throw.  `emit()` goes through the
array in use itself, `dispatchEvent()` through a copy.  As the code has it: the
handler of `AbortSignal.any()` asks for its `this`, which `dispatchEvent()` does
not give, so it throws out of the `abort()` of the source and the derived signal
is aborted only when a source was aborted before, although the comment of `any()`
(`lib/abort.js:55`) promises more (`AnyBehind` says both: when the signal is
aborted and that else it is not); `onabort` is called twice; a
handler removed during an `emit()` hides the next one; after
`removeAllListeners()` during an `emit()` a `once()` handler stays in the
array that is detached; `removeListener()` does not know the wrapper of
`once()`; a listener that throws stops the others.  A handler that was removed may
still be called: by a dispatch that copied it, and by an `emit()` after
`removeAllListeners()` only (`NoneAfterRemoval`).

### The parts of MCData

- `JsonReader`: the tables of `jread.c` over classes of characters; a step is
  one character or the end of a chunk.  Every text of up to `MaxText`
  characters, and every text of the grammar up to `MaxJson`, must give the
  events of its reference definition, wherever it is cut.
- `XmlReader`: the same for `xml_parser_run()`, with `XML_PARSE_AGAIN`
  wherever the Reader has no byte.
- `Lexer`: a program that calls `next`, `peek`, `back`, `skip`, pushes and
  pops states and sets the position, on every text.  In a 64-bit build the fields
  that `Lexer` overlays on its `Location` do not meet: its `byte_offset` is the
  location's `char_offset`, so a character of several bytes is scanned again from
  its middle.  Properties hold up to the first such character, and as long as
  the program does not stray: after `back()`, `skipBytes()`, `setInput()` or
  `charPos = ...` the length of the old token is kept and the next call skips
  that many bytes.  `HeldIsPassed` says what becomes of a token that `peek()`
  found: no `next()` gives it.
- `StreamUtils`: what the descriptor takes or gives is free.  `BuffersKeepOrder`
  excepts what the code does wrong: `writer_flush()` after a partial write does
  not move the rest, `write_linebuffered` keeps a newline that it reports as not
  written, `close_buffered` loses what the descriptor does not take.
- `Path`: the functions of a text, against what paths mean; `path_fnmatch5` on
  patterns made of pieces.  Exceptions that the code makes: `a/..//b` becomes
  `/b`, `./..` the empty path, `dirname("/a")` is `.`.
- `Pointer`: the methods as operators on sequences of keys and who owns the
  atoms; `fromAtoms()`, `ofAtoms()` and the setter of atoms take atoms without a
  reference of their own (`borrowed`); a pointer that was made of keys and then of
  a pointer without keys goes on with memory that was freed (`freed`), and is not
  used.  `PointersAgree` compares with the methods of Array, `splice()` too.
- `List`: heap cells with links and counts; iterators on nodes that were erased
  are not used (the code would follow null or freed links).  `MethodsMean` says of
  every method that changes a list what is in it afterwards, in the words of Array
  where it has the method.
- `Deep`, `TreeWalker`: objects as a heap of properties, frames with the keys
  their object had when they were pushed; the program may change the heap between
  two steps.  `flatten()` and `pathOf()` of an object without properties end the
  program (`CRASH`).  The sort of the keys that `equals()` asks for compares
  addresses of atoms of one array, so it changes nothing and is left out.
- `Repl`: one action per key; the terminal is a matrix of cells with a cursor
  that wraps when a character is written *behind* the last column.
  `ReplText`: bytes to keys, and which brackets, strings and comments are open.

## What the runs check

| Run | Bounds | Shows |
| --- | --- | --- |
| `queue` | 3 chunks, 4 bytes, 1 view each | `TypeOK`, `CountersMatch`, `HoldersCounted`, `ImplementsFifo` |
| `queue_ndebug` | 3 chunks, 3 bytes, no asserts | counterexample to `ClearedQueueCountsNothing` |
| `repeater` | 3 pushes, 4 requests; 2 contenders | `TypeOK`, `Ahead`, `StopsLast`, `CombinatorsMean`, `ImplementsRendezvous`, `EveryoneGoesOn` |
| `repeater_lost` | 2 pushes, 3 requests | counterexample to `NextIsAnswered` |
| `writable` | 4 entries of sizes 1 and 2, mark 2, 2 writers; transform: 3 entries, 3 chunks, 2 reads, marks 1 | `TypeOK`, `HandedInOrder`, `Truthful`, `ReadyTellsRoom`, `EndsAgree`, `ErrorIsFinal`, `EntriesAnswered`, `ReadyAgain` |
| `readable` | 3 chunks of sizes 1 and 2, mark 2, 3 reads, 2 readers; bytes: mark 1, buffers of 0 and 2, chunks of 1 and 3, views of 1 and 2, 4 bytes, 2 reads, 2 readers | `TypeOK`, `ChunksInOrder`, `ReadersHear`, `BytesKeepOrder`, `ClosedWhenDrained`, `OnePull`, `ReadResolves` |
| `readable_zero` | mark 0, 2 chunks, 2 reads, 1 reader | counterexample to `ReadResolves` |
| `child` | 3 children, all flags of `wait()`, spawn may fail | `TypeOK`, `ToldTruth`, `HandlerWhileListed`, `EndIsNoted` |
| `child_exit` | 2 children | counterexample to `OnExitComes` |
| `child_fail` | 1 child, spawn may fail | counterexample to `ExitCodeIsReal` |
| `network` | 2 sockets, 2 descriptors, 2 calls, 2 items; 2 MySQL connections, 4 operations, 1 row; 1 PostgreSQL connection, 4 promises, 2 iterators; signals 1, 2 and 3 of any(), 1 waiter, 4 calls, 3 dispatches at once; 2 functions, 5 calls, 3 emits at once | `TypeOK`, `WaitsAreWatched`, `NothingSwallowed`, `RefsCounted`, `HandlersBelong`, `EveryCallSettles` |
| `data` | see below | `ReadsTexts`, `PathsLead`, `BuffersKeepOrder`, `ListsKept`, `MethodsMean` |

Why the bounds are enough: three chunks of up to four bytes have an oldest, a
middle and a newest chunk, empty ones, and requests that end inside, at the end
of and beyond each.  A repeater needs three values and four requests for
"both sides ahead", "several told the end" and "one asked after it"; two
contenders are one that wins and one that comes late.  A stream needs one entry
in flight, one behind it and one behind that, a queue that fills up with one
entry or with two, and a lock that changes hands once.  With three children one
is reaped by the handler, one by a call, and one stays.  Two sockets on two
descriptors are the smallest in which a descriptor comes back under a handler
that was left; four operations of two MySQL connections leave closures of an
ended connection in the list before and behind the one that waits; three calls
of `emit()` inside of each other change an array twice under the outermost.

Bounds of `data`: arbitrary JSON texts of 3 characters and JSON of up to 8
(`MaxText`, `MaxJson`), XML texts of 4 and documents of 14 (`MaxInput`,
`MaxDocument`), cut anywhere: longer than any state of the parsers lasts.  Paths
of 8 characters, pairs of 4, patterns of 3 pieces (`MaxPath`, `MaxPair`,
`MaxPieces`): three parts with separators, twice "up".  Texts of 3 bytes for the
lexer and for buffers of 1 and 2 (`MaxLexText`, `MaxStream`), so that a line
and a character lie across the end of a buffer; 2 passed tokens and 1 pushed
state (`MaxSeq`, `MaxDepth`).  Three lists with four nodes under four methods
(`MaxListCalls`); objects of two keys and an array that hold each other, with
two answers or changes out of the order (`MaxOdd`), five steps of a walker
(`MaxWalkCalls`), three calls of two Pointers (`MaxPointerCalls`).  Three editing
keys on a terminal of four columns, on which the lines take up to three rows,
and four keys that recall, search and accept (`MaxEditKeys`, `MaxRecallKeys`),
three keys cut into bytes and three tokens (`MaxTyped`, `MaxTokens`).

The other bounds are guards on the counters (`MaxWritten`, `MaxViews`,
`MaxOffers`, `MaxAsked`, `MaxEntries`, `MaxWriters`, `MaxChunks`, `MaxReads`,
`MaxReaders`, `MaxCalls`, `MaxOps`, `MaxPromises`, `MaxEventCalls`, ...).  The
queue run uses symmetry on the chunks' addresses and a view without the reply,
which only the refinement reads; the run `child` uses symmetry on the children,
as it checks invariants only.  `CHECK_DEADLOCK FALSE` stands where nothing is
left to do once the bounds are used up.

Fairness: weak fairness of the promise jobs, which the event loop runs as long
as there are any (`WF(Job)`, also of `CombJob`, the jobs of the combinators'
functions); of the SIGCHLD handler and a `waitpid()` that can return; and of
the handler of each ready descriptor: `js_os_poll` calls one handler per turn,
but a handler that was called and stays wanted moves to the end of the list, so
every one is called in the end (`SockFairness`, `MyFairness`; the latter also
says that the server answers).  Of the user (executors, pushed promises, sinks,
sources) nothing is assumed in the specification; where a property needs it, the
assumption is its antecedent (`UserSettles`, `SinkAnswers`, or the disjuncts of
`ReadResolves`).

Every property has a mutant, an operator beside the original with a plausible
mistake in it; TLC finds the property violated when it takes the original's
place.

## What is proved

All for arbitrary constants: any sets of chunks, contenders, children, sockets,
descriptors and connections, any sizes, marks and bounds.  The assumptions are
`ConstantsAssumption`, `CombinatorsAssumption`, `TransformAssumption`,
`ByteAssumption`, `SockAssumption` and `NetworkAssumption` of the modules: bounds
and sizes are natural numbers, those of chunks and views of a byte stream not 0;
the sets of names are finite where they are counted; 0 and -1 are no descriptors.

Where a run checks the same property, the theorem names the same definition:
the run shows it on a small instance, the theorem for every one.  Each safety
theorem follows the same argument, an inductive invariant (`IInv`, or one per
part) that holds at first, is kept by every step, and implies the property; the
proof that a step keeps it has a lemma per action.

- `Bytes_proofs`, of `Queue`: `TypeCorrect`, `HoldersAreCounted`, and for builds with
  asserts `CountersAreRight` and `QueueImplementsFifo`, the refinement of
  `ByteFifo`.  `IInv` adds to the types that the chunks of the list hold adjacent
  intervals of the stream (`Contiguous`) and who holds each chunk
  (`HoldersCounted`).  That the counters are sums over the list needs sums that
  telescope, proved by induction in `Induction_proofs`.  The assumptions also
  say that twice the bytes and twice the chunks fit into a `size_t`, as each
  chunk takes some memory; without asserts `CountersMatch` is false.
- `Bytes_proofs`, of `ByteStream`: `BytesOrder`, which is `BytesKeepOrder` for any
  sizes, mark, reads and readers, from `ByteInvariant`.  `ByteInv` says of the
  fields (`WorldOK`): the total is that of the queue and no chunk is empty; the
  pull-intos stand in the order of their reads, a buffer of the controller's, if
  any, first, and only the first holds bytes and none is full; a request that was
  not taken back is for the first one; only the reader that has the lock waits,
  and only on an open stream, and its `closed` says how the stream stands.  Then, of
  reads: one is pending exactly if it is listed (`WaitsOK`), none waits while there
  are bytes in the queue or behind a buffer (`InTurn`), and those from a waiting one
  on were given nothing (`LaterEmpty`), without which an answer would put bytes in
  front of some that were delivered.  And what was delivered begins what was
  provided, and is all of it when what is kept is added (`OrderOK`).
  `AnswersStand` is an action property: a read that was answered keeps its answer
  through every later step.  One that was answered is not listed (`WaitsOK`), and
  each function answers and lists only reads that wait, or the one just made
  (`Spares`).  As the methods call each other, each
  is a function of the fields with its lemmas: what it changes, that it keeps
  `WorldOK`, and what it does to the bytes delivered, at hand and kept (`Flow`); a
  step composes them.  The loop of `_fillPendingFromBytes` keeps an invariant of
  its own, by induction over its turns.  A behaviour ends with its first lapse, so
  the order is an invariant only while there is none; of the last state
  the types, the lock and the promises remain, and the waiting reads too unless
  the lapse is `misplaced`.
- `Repeater_proofs`: `TypeCorrect`, `OneListWaits`, `EndIsLast` and
  `RepeaterImplementsRendezvous`; `IInv` adds that waiting pushes and requests
  are the last ones made (`Correspond`).  `CombinatorsUseRepeater` shows that
  the combinators are executors that the Repeater's model allows, so that
  `CombinatorsKeepRendezvous` follows; `CombInvariantHolds` is an invariant with
  a part per program (`RaceInv`, `ZipInv`, `LoopsInv` with `MergeInv`,
  `LatestInv`), from which `CombinatorsMeanWhatTheySay`.
- `ChildProcess_proofs`: `TypeCorrect`, `EndsAreToldTruly`, `HandlerStays`,
  `EndsAreNoted`; `IInv` adds what each object was told (`Told`).
- `WritableStream_proofs`: `TypeCorrect`, `EntriesInOrder`, `AnswersAreTrue`,
  `ReadyIsTrue`, the action property `ErrorsAreFinal`, and `NextMoves` (what a
  step may do to the stream's state, of which TransformStream makes use).  The
  code's methods call each other, so the invariant is a predicate on a record of
  fields (`Sound`, `Caught`, `Pressed`, `Busy`), with a lemma per method; a step
  composes them.
- `ReadableStream_proofs`, in the same style: `TypeCorrect`, `ChunksKeepOrder`,
  `WaitingIsHeard`, `ClosesWhenDrained`, `PullsOneByOne`, `EndIsFinal`.
- `TransformStream_proofs`: the two sides of a transform are the two streams
  (`EndsAreStreams`, a refinement), and therefore have all of the above;
  `EndsMeet` is `EndsAgree` of the composition, from both invariants and `Flow`:
  each chunk comes from an entry handed in before, the sink that is at work is
  that of the one writable side, and an end or an error of one side has reached
  the other unless one of the exceptions happened.
- `Network_proofs`.  Sockets: `DescriptorsAreOwn`, `WaitingIsWatched`,
  `WatchedIsWaiting`, `AllTakenIsTold`, `SocketsTyped`; the invariant adds that
  a handler belongs to a call that was made on a socket that exists.
  PostgreSQL, in `CountsAreRight`: each count is right but for the one that a
  function is about to release, and a connection with results and its last
  result hold each other, so the recursion of the finalizers never comes back to
  where it started.  MySQL: the handlers are as the closures want them and a
  closure with a wish is alone with its descriptor (`Serves`); a closure that
  waits works for an open connection with its descriptor, is that connection's
  only one and the newest in the list with that descriptor (`Awaited`), which is
  why the lookup in `close()` finds it although closures of ended connections
  stay listed.  EventEmitter (`EmInv`): the registrations in an array are in
  their order and no two arrays have one in common; an `emit()` has called only
  registrations before those that it has still to call, and has passed over at
  most as many as were removed while it ran, as each removal moves the ones
  behind it by one (`Traces`, `RemovalHeeded`); and unless `removeAllListeners()`
  ran inside, every `emit()` that has something to call goes through the array
  that is in use, so a handler of `once()` removes itself from where it was
  called.  EventTarget (`TgInv`): the handler of a `waitOne()` stands with
  exactly the signals and types it waits for, and that of `any()` with the first
  of its sources, up to one that was aborted; a dispatch that has not begun is
  on top of the stack and nothing was thrown; a dispatch that calls has still to
  call whoever began to wait before it and did not hear, and its queue names
  only those who waited for its type; a dispatch of an abort has a reason that
  the signal, or a source of it, was given.  `HandlersStayTheirs` puts the four together:
  `HandlersBelong` of the run `network`.  `TypeCorrect`, `CountsAreRight` and
  `SocketsAreSockets` say the rest of it for the composition, of which one part
  moves in a behaviour.
- `Induction_proofs`: induction with a set in place of a predicate, running
  totals, and what remains of a sequence without some elements.

What the theorems do not reach and only TLC checks:

- liveness (`EveryoneGoesOn`, `EntriesAnswered`, `ReadyAgain`, `ReadResolves`,
  `EveryCallSettles`): the proof system has no rules for `ENABLED` and fairness;
- what recursive definitions compute for every input, which needs induction over
  an operator; sums and removals are recursive functions whose inductions are
  over a set, and the parsers' references are not;
- the modules with RECURSIVE operators, in which the provers lose their SMT
  backend: `Deep`, `JsonReader`, `Lexer`, `List`, `Path`, `Pointer`,
  `PropertyRecursion`, `ReplText`, `StreamUtils`, `TreeWalker`, `XmlReader`.  So
  `ReadsTexts`, `PathsLead` and `MethodsMean`, which compare what recursive
  definitions compute with a reference, and `BuffersKeepOrder` and `ListsKept`,
  which are about states that recursive operators change, stay with TLC;
- what happens in a byte stream after a lapse, which the model does not follow.

## Behaviour worth knowing

The findings in `PROJECT.json` are of two kinds: those of the runs that expect a
violation, and those of `data` and `network`, where a property states what the
code does and a document or comment says otherwise.  Beside those, and those named
with their modules above, the code does the following, which the models have and
the properties except:

- Paths: `//.` keeps a `.` from a stale byte behind the end; `path_fnmatch5`
  does not return on `[[:`; `path_compare4` compares one length twice;
  `path_resolve3` leaves `..` in and follows link loops for ever (not modelled);
  `\.` does not match a hidden period.
- Lexer: after a skipped match the search goes on from that rule's number;
  `next("STATE")` skips every token of that state; `peek()` and then `next()`
  passes the peeked token, against `lexer.md:18`; `back(token)` after the end gives the token again;
  `lib/parser.js` backtracks with `charPos = ...`, which keeps the old token's
  length; `getc`, `skipChars` and `skipUntil` move a second cursor.
- Writers: `writer_flush()` returns -1 always; URL and tee writers double
  bytes when they are called again after a partial write.
- Deep: with the default flags and without keys the iterator passes over every
  property of objects that are no arrays; `skip()` moves and `next()` moves
  again; `equals()` compares leaves in the order of the loops, so `[[1],2]`
  equals `[[1,2]]`; `flatten({})` and `pathOf({}, v)` follow a null pointer; `set()` through a leaf is lost; `find()` passes mask and
  `thisArg` in one argument.
- List: `insert()` without a node puts its values in front of the first.
- TreeWalker: `nextNode()` never gives the root's first property;
  `previousNode()` passes over all that is inside of the previous sibling;
  `previousSibling()` on the first goes to the last; `nextSibling()` at the end
  leaves the walker behind it; the answers REJECT and SKIP count as accepted.
- Pointer: `slice()` of nothing and `up()` to nothing fail without an error;
  `splice()` that deletes nothing fails after it inserted; its second argument
  is an end and not a count, so it is not Array's; `new Pointer([..], p)` with an
  empty `p` frees its memory twice; an index behind the end goes round.
- REPL: transposing words drops what follows the second; `^U` after another cut
  adds its text behind what was cut after it; `^R` and then `^S` leaves the
  search's callback installed; while an evaluation is awaited, typed text is
  lost when it settles; `Down` never comes back to an empty line.

## What is not modelled

- Predicates, inspect, location, virtual properties: evaluated in one call, they
  keep nothing between calls but their arguments.
- Containers and helpers in C (`buffer-utils.c`, `utils.c`, vectors, bit sets)
  beyond the functions that the models above call; portability shims.
- Bindings of C libraries (archive, mmap, serial, SQLite, regular expressions,
  ...): the behaviour is the library's.
- Blob, TextDecoder, ArrayBufferSink: conversions of data.
- `qjsm`, the module loader: start-up and file-system lookup.
- The JavaScript library: `lib/dom.js`, `lib/fs.js`, `lib/util.js` and
  `lib/stream.js`, the last a port of the WHATWG streams with their algorithms;
  the native streams are the ones that are modelled.
- Of the components that are modelled partly, `PROJECT.json` says what is left
  out.
