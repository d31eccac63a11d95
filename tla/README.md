# Verification of net77

net77 (`src/`) is a small C library for HTTP: a thread pool with its lists, a
server loop over `poll`, a client with sessions, and the parsing and printing of
messages. This directory holds TLA+ modules that model it, TLC configurations
that check the models on small instances, and proofs that TLAPS checks for every
value of the constants. `PROJECT.json` is the index: which definition stands for
which lines (`map`), the runs, the hazards of the code, and the theorems.

    tlc -workers 2 -config ThreadPool_pool.cfg MCThreadPool     # any run
    tlapm ThreadPool_proofs.tla                                 # any *_proofs module

## 1. The system

| Component | State | Operations | What makes it hard, and correct |
|---|---|---|---|
| Thread pool `lib/thread_pool.c` | per worker: a list of jobs, a condition variable, `killed`, `kill_ack` | `newThreadPool`, `threadPoolWorker` (the thread), `threadPoolDispatchWork`, `threadPoolDestroy` | Workers, dispatchers and the owner interleave; signals are sent without the mutex. No job may be lost, doubled or reordered, nothing freed may be used, and jobs and kills must arrive. |
| Threading `lib/threading.c` | the pthread objects | lock, unlock, wait, signal | A signal nobody waits for is lost; waits end spuriously. |
| Linked list `lib/linked_list.c` | `start`, `end`, nodes, a mutex | push back, pop front, length, destroy | `start` and `end` change in separate statements, and nodes are freed. It must be a FIFO queue, leak nothing, and always give the mutex back. |
| Fixed-size set `lib/mcfss.c` | one array per category, `len`, `cap` | add, remove, pointer to an associated item, destroy | Removals move all arrays at once. What belongs together must stay at one index, and no operation may add to the copies of a key, of which its caller owns the memory. |
| Server `lib/server.c` | the set of pollfds with addresses and times, `conn_state`, the signals `has_started`, `server_killed`, `kill_ack` | `runServer`, `launchServerOnThread`, the handler | The walk over the array goes by pointer while the array shrinks; handlers on workers use descriptors by number; a request may be longer than one receive takes. Whatever is open must be in the set, limits must hold, `kill_ack` must mean what it says and must come. |
| Sending and receiving `lib/utils.c` | none | `sendAllData`, `recvAllData` | They close the socket in some of their failures only, and tell it in an out parameter. Each socket must be closed once. |
| Client socket `lib/sock.c` | none | `connectSocket`, `waitThenRecvAllData`, `newSocketSendReceiveClose` | The same, through two more layers. |
| Requests and sessions `lib/http/request_networking.c` | `session->is_open` | `openSession`, `closeSession`, requests | Timeouts leave late responses in the connection; `is_open` must follow the socket. |
| Receive controller `lib/http/recv_controller.c` | phase, `max_len`, content length | called after each `recv` | It must stop at the end of a message, to the byte. |
| String builder `lib/string_builder.c` | buffer, length, capacity | new, append, build, destroy | The capacity is computed with a shift of an `int` for a size that is a `size_t`. What is copied must fit. |
| Serialization and builders `lib/http/serialization.c`, `request_misc.c`, `freeing.c` | a message, `head_builder` | `serializeHttpRequest`, `serializeHttpResponse`, add header, build, free | Two ways to make a header, which must agree; a builder must be freed on every way out. |
| Parsing `lib/http/parsing.c` | the rest of the text | `parseHttpRequest`, `parseHttpResponse` | One scan counts the lines of the header, another takes them. Parsing must undo printing, agree with the controller on where the header ends, and stay inside the text. |
| Initialisation, logging, Windows branches | - | - | Not modelled, see section 8. |

How they interact: the server thread accepts, polls and receives, and hands each
message to `threadPoolDispatchWork`. With a pool of size 0 the handler runs right
there; otherwise the job goes through a linked list to a worker. The handler
answers with `sendAllData` on the descriptor it was given, and may set
`stop_server` or `discard_conn` in the `conn_state` that all of them share.
Another thread sets `server_killed` and waits for `kill_ack`. `recvAllData` calls
a receive controller if it is given one: the client gives that of HTTP, the server
what its caller wants. A request is serialized into a string builder, sent, received
into another builder, and parsed by the application from the string that is built.

## 2. The modules

| Module | Models | Extends / instantiates |
|---|---|---|
| `ThreadPool` | the pool: owner, dispatchers, workers | - |
| `FifoQueue` | what a shared list promises: each call takes effect at one instant | - |
| `LinkedList` | the list, pointer by pointer | refines `FifoQueue` |
| `SlotArray` | `findInArray`, `countInArray` and the `memmove` of the set | - |
| `AssocList` | what the set promises: a list of structs | - |
| `Mcfss` | the set on parallel arrays | `SlotArray`; refines `AssocList` |
| `Server` | `runServer` and `launchServerOnThread`, with a handler like the tests' | `SlotArray` |
| `HttpClient` | the client: sockets, sessions, receive controller | - |
| `StringBuilder` | the string builder, as operators on a record | - |
| `HttpMessage` | messages, how they are printed, what the parser makes of a text | - |
| `Messages` | the way of a message, from its making to its parsing | `StringBuilder`, `HttpMessage` |
| `MC*` | model values, symmetry, functions for the constants | the module they are named after |
| `*_proofs` | theorems and lemmas; those about `StringBuilder` are in `Messages_proofs` | the module they are named after |

They compose by what they promise. `LinkedList` shows that the list is a FIFO
queue whose operations are atomic; `ThreadPool` therefore has a sequence per
worker and one action for a push or a pop. `SlotArray` is what `Mcfss` and
`Server` share: `Mcfss` shows that the operations on the arrays keep rows
together, and `Server` uses the same `Find` and `Shift` for the two arrays whose
contents matter to it, the pollfds and the addresses. `Server` models the pool as
a bag of dispatched jobs which run at any time, in any order: that covers every
order `ThreadPool` allows, and more. `HttpClient` takes responses for granted as
sequences of units of which one ends the header and the last is known from
Content-Length; `ControllerFindsTheEnd` of `Messages` is what justifies that.

### ThreadPool

`pc[w]` is the place of worker `w` in `threadPoolWorker`: the test of `killed`
(`CheckKilled`), `condLockAndWait` up to the sleep (`StartWait`), its return
(`Wake`, `SpuriousWake`), the pop with its test for NULL (`PopJob`), the handler
(`HandlerReturns`), `condUnlock` and the acknowledgement. A dispatcher reads the
lengths of the lists one by one (`ScanWorker`), pushes, and signals; each of them
is an action, since others run in between. `Signal` wakes the worker only if it is
waiting. The owner creates workers, and in `threadPoolDestroy` sets `killed`,
signals, spins on `kill_ack` and frees, worker by worker. `pushed`, `handled` and
`dropped` are history. The mutex of a worker's condition variable is taken by that
worker only, so that it needs no variable.

### LinkedList

Every access to `start`, `end` or a node is a step between `Lock` and `Unlock`;
`live` is what malloc has given and free not taken back. `Contents` is read off
the pointers, and `AbstractCall` says when a call takes effect: a push when its
node is linked, a pop when `start` moves on, `linkedListDestroy` when it has the mutex,
so that the abstract queue is empty while it frees node after node.

### Mcfss

`data[c]` is the array of category `c`. The stale copies that removals leave
behind `len`, and the uninitialised memory of a new set, are there: `Init` admits
any contents. `AssocStore` is `mcfsSetGetAssocItemPtr` with the store the caller
makes through the pointer: whatever it likes, into any category, the key included. So the
rows are a list in which a key may occur more than once, as it does in the server, where
`poll` writes into the keys; what the operations owe is that they add no copy of their own.

### Server

The descriptors of the kernel are `connAt`: the connection each refers to, and
`accept` gives the lowest free one. So a number means another connection after it
was closed and given again, which is where most of the trouble is. `pfds` and `ips`
are two arrays of the set, `len` its length; `idx` is the pointer of the walk as
an index and `end` the end that is computed before it. Everything that `runServer`
does with one slot is one action, as nothing but handlers and peers run
meanwhile, and those meet it in `flags`, `connAt` and the kernel's buffers.
`Dispatch` ends an action: a handler in place runs between it and `AfterHandle`.
`mcfsSetRemove(&set, 0, &pfd)` at server.c:390, 404 and 413 is given the address
of the pointer: it compares the bytes of a pointer with pollfds and finds nothing
(`AfterHandle`, `ResetSlot`), unlike the calls that are given `pfd` (`DropSlot`).
A timeout of a connection strikes whenever `Expiring` is set: time is abstracted.
`MaxRequestSize` is `max_request_size` in requests. A call of `recvAllData` takes no more
(`RecvData`), so that what is longer arrives in parts, and sees the end of the stream only
if there is room for more (`RecvLast`). At 0 its loop is not entered (`RecvNothing`): the
entry goes, the descriptor stays open.

### HttpClient

One thread makes calls; each `poll`, `send` and `recv` is a step, and between two
of them the peer may answer, shut down or abort. A response is a sequence of units
that carry their place in it (`LineEnd`, `HeaderEnd`, `Total`); the controller
advances one unit at a time, as its batch of 1 does in bytes. `ctl` holds its phase
and `max_len`; `ret` and `result` are what the callee and the whole call return.
`ended` counts how often `closeSession` has closed the descriptor of the session: it looks at
`is_open` only and does not reset it. `HupOnFin` lets a peer shut down in the way that systems report with `POLLHUP`
(Linux reports it for a socket only after both directions are shut down).

### StringBuilder, HttpMessage, Messages

A text is a sequence of units that none of the functions splits: a line end, a space, a
word of letters, a digit, an HTTP version, or something else. What depends on bytes
within a unit is left out (section 8), and a unit counts as one byte where sizes are
concerned. `Pieces` are what `serialization.c` appends, in its order. The parser's
functions advance a `StringRef`; here they have a position, and `Skip` and `Until` are
its loops. `HeaderFields` keeps the two scans of `parseHeaderStruct` apart: `FieldEnds`
are the lines that the first one counts, `LineStart`, `GoodField` and `FieldAt` what the
second one does with each. `Overrun` is the outcome of a function that reads beyond the
end of the text, which the language leaves undefined.

A builder is a record of its capacity and its text; the text may outgrow the capacity,
and `Fits` says that it has not. `NewCaps` is the computation of string_builder.c:33 with
an `int` of `IntBits` bits and a `size_t` of twice as many: `__builtin_clz` of the lower
half of the size, an amount of shift above the width (which machines take modulo the
width), a sign bit, and every result where the argument of `__builtin_clz` is 0.

In `Messages` a message is made by hand (`PrintMade`) or by a builder (`NewBuilder`,
`AddHeader`, `Build`), printed piece by piece (`PrintPiece`), sent, perhaps replaced by
what another implementation would send (`Differ`: a unit more, less or different), and
received in chunks of any sizes (`Receive`, as `recvAllData` with room in the builder
and the limit of the controller). `Controlled` is the receive controller as a function
of what has been received: its batch of 1 byte makes it one. `Received` may come at any
time, since a timeout or the end of the connection may. `ParseMessage` is the
application that parses the string, with the header as a struct or as a string.

## 3. The runs

| Run | States | What it shows |
|---|---|---|
| `ThreadPool_pool` | 36,652 | Jobs are in one place, in order (`EachJobInOnePlace`); freeing is safe (`NoUseAfterFree`); one dispatcher finds a list no longer than any was when it passed it (`DispatchToLeastLoaded`); a signal that finds its worker waiting is not wasted (`WakeupServesHead`, `KillReachesWaitingWorker`); `IInv` of the proof. |
| `ThreadPool_lostjob` | refuted | `EveryJobHandled`: a job pushed and signalled before the worker waits stays in the list. |
| `LinkedList_list` | 367,632 | The asserts hold, no freed node is touched, none leaks, the mutex comes back (`MutexIsReleased`), and the list implements `FifoQueue` (`ImplementsFifo`); `IInv`. |
| `Mcfss_set` | 5,964 | Whatever the caller stores: no operation adds to the copies of a key (`DuplicatesAreNotAdded`), and rows stay together (`ImplementsAssocList`). |
| `Server_pooled` | 1,539,138 | What is open is in the set (`OpenConnsAreInTheSet`), at most `max_concurrent_connections` are open, and all are closed at `kill_ack`, while workers answer and close at any point. |
| `Server_inline` | 326,770 | Without workers: answers reach the one who asked, no time of last use is stored through NULL (`NoCrash`), a kill or `stop_server` is acknowledged, and a request on an open connection is received, although slots move under the walk. |
| `Server_limits` | 2,815,681 | With timeouts, discarded connections and a failing bind, the array bounds and the limit on entries per address still hold. |
| `Server_timeouts` | refuted | `KillAckMeansClosed`: the check for timeouts removes one entry and closes the descriptor of the next. |
| `Server_crosstalk` | refuted | `OpenSocketIsTheRequesters`: a worker gets a descriptor as open that already is another peer's. |
| `HttpClient_calls` | 84,972 | Whatever fails, the functions of a call close a descriptor once, and not at all if `closeSession` has closed it, as often as that is called (`ClosedByOneParty`); a one-shot call leaves none open; `is_open` follows the socket (`SessionTracksSocket`), what is returned on an open connection is one whole response (`OutIsOneResponse`), and calls return (`EveryCallReturns`); `IInv`. |
| `Messages_text` | 622,850 | No text outgrows its buffer (`TextFits`); builders and serializer make the same header (`BuilderAgreesWithPrinter`); parsing undoes printing, whatever is in a body or a field (`ParseInvertsPrint`), and what was accepted from any peer is the same after printing and parsing it again (`ReparseIsStable`); the body begins where the controller ended the header (`ParserAgreesWithController`); a response is received to its last byte and not beyond, in any chunks (`ControllerFindsTheEnd`); `parseHeaderStruct` reads beyond the end only of a text that ends with its first line (`OnlyAFirstLineIsOverrun`; `parseHeaderString` is in section 5). |
| `HttpClient_abort` | refuted | `SendAssertHolds`: an abort between `poll` and `send` fires the assert that calls it unreachable. |

Every property of a passing run has a mutant of the code that breaks it, defined
before the definition it replaces and listed in `PROJECT.json`.

### Bounds

- Pool: two workers make ties and choices, three jobs make queues of two behind a
  running handler. One dispatcher, because `DispatchToLeastLoaded` is only true of
  one; the theorems cover any number.
- List: three nodes give empty, one node (start = end), and a middle; two threads
  suffice since at most one is inside. Two data values tell orders apart.
- Set: three rows have a first, a middle and a last; two categories, one that is the
  key and one that is not; four items, so that a full set can be asked for a new one.
- Server: `Cap` = 2 with three connections fills the set, leaves one in the backlog,
  and makes a stale slot in the walk whenever one of two is removed. Two requests per
  connection (`Server_inline`) let one `recv` take part of what is there, and a request
  arrive for a stale slot; `MaxRequestSize` = 2 lets a receive take both, with and without
  reaching its limit. `NFds` is as large as the
  connections may need at once; descriptors are reused. `SizeRange` = 256 stands for
  2^64: only the conversion of a negative number depends on it.
- Client: two calls, so that one finds what the other left. A request of two units
  can be sent in part. A response has a first line, a header and a body of two units.
- Messages: `IntBits` = 7 and `MinCap` = 8 for 32 and 64, so that a text of `MaxText` =
  32 units, the largest for which the capacity is right, makes its buffer grow several times, and
  Content-Length (8191 = 2^13 - 1) is the largest `ssize_t`. `RecvMin` = 4 for 1024 makes
  `recvAllData` grow its builder in the middle of a text. Messages have up to two fields,
  among them an empty one, values with spaces and colons, bodies that are two line ends,
  a URL that is a line end, and status codes of three and four digits.
- `MaxRequests`, `MaxCalls`, `MaxCloses`, `MaxAdded`, `MaxText`, `Nodes`, `Jobs` and `Conns` are the only bounds on what
  the environment does; each is a guard of the action that would exceed it.

### Fairness

- `ThreadPool`: weak fairness of each worker, each dispatcher inside a call, and the
  owner inside `newThreadPool` or `threadPoolDestroy`. The system schedules threads,
  and handlers return (they must, for the library to do anything). No fairness for
  calls to begin, nor for spurious wake-ups: a lost signal must not be healed by luck.
- `LinkedList`: weak fairness of the steps after `Lock`; none for taking the mutex,
  pthread mutexes are not fair.
- `Server`: weak fairness of the server thread and of handlers; none for peers, and
  none for whoever kills the server.
- `HttpClient`: weak fairness of the thread; a peer may stay silent forever. A `poll`
  with no timeout never returns on a silent peer, which the model does not tell from
  one with a timeout that has not passed yet: calls are those with a timeout.

## 4. What is proved

All for every value of the constants, from the named assumptions `PoolAssumption`,
`ListAssumption`, `McfssAssumption`, `ServerAssumption`, `ClientAssumption`,
`BuilderAssumption`, `HttpMessageAssumption` and `MessagesAssumption` only (sizes are
numbers, at least 1 where the code needs it; NULL is no node, no job and no thread; there
are finitely many nodes, as there are addresses; `Pow2` holds the powers of 2; the units of
texts are distinct). Every safety invariant that a passing run checks is a theorem, and so
are both refinements. Some theorems have a hypothesis more, which their statements name:

| Hypothesis | Theorems | Why it is needed |
|---|---|---|
| `NoDiscard` (no handler sets `discard_conn`) | `NoNullStore` | With it, TLC finds the store through NULL: `Server_inline` with `HandlerFlags = {"discard_conn"}`. |
| `NoDiscard`, `~Expiring`, `HasLimit` (`max_request_size` above 0) | `ConnsStayInTheSet`, `AckComesAfterClosing`, `ConnsWithinCap` | `Server_timeouts`, and the rows of `KillAckMeansClosed` in section 5: the code loses connections otherwise. |
| `~Pooled` | `InlineAnswersReachTheRequester` | A worker may answer on a descriptor that was closed and given again: `Server_pooled` with this invariant, and section 5. |
| one dispatcher | `OneDispatcherBalances` | Of two, one may push to a list that the other has just chosen: `ThreadPool_pool` with two. |
| `MaxResponse < 0` | `UnlimitedResponsesAreWhole` | A response above the limit is cut and returned as success: section 5, `TooBigIsRejected`. The run has no limit either (`NoLimit`). |
| `Sizes` (no text asks for more than `Quarter` bytes; `RecvMin > 0`) | all of `Messages_proofs` | Section 5, `TextFits`. |

Each inductive invariant is a definition of the component's module, and was checked by
TLC before it was proved; the ones that are no property of a run are checked by adding
them to the INVARIANTS of the cfg that is named here.

- `ThreadPool_proofs`: `PoolInvariant`, and from it `TypeCorrect`,
  `JobsAreNeitherLostNorDuplicated` and `DestroyIsSafe`. `EachJobInOnePlace` is not
  inductive alone: a handler that returns must hold a job, a dispatcher that pushes
  must have chosen a worker, and a list that is freed must belong to a worker that has
  acknowledged. `IInv` adds what each thread's place says of its data (`WorkerFlags`,
  `DispatcherLocals`, `OwnerProgress`, `TornDown`). The steps on sequences are
  the lemmas `PopKeepsOrder`, `HandlingKeepsOrder` and `FreeingKeepsOrder`.
  `OneDispatcherBalances` rests on `SearchInv` (`ThreadPool_pool`): the best worker so
  far had the first of the shortest lists that were seen, and has not been given a job since.
- `LinkedList_proofs`: `ListInvariant`, `OneThreadInside`, `AssertsNeverFire` and
  `NoFreedNodeIsTouched`. The key is `Linked`: a chain is described by its ends and by
  a successor function that is injective and never leads back to the first node, so
  that no recursion is needed. `ShapeAt` says, for each place in a function, of which
  pointers that is true, and `MutualExclusion` that only one thread is at such a place.
  `LinkBehind`, `LinkFirst` and `UnlinkFirst` are what pushing and popping do to a chain.
  `NothingLeaks` needs that the chain reaches every node, which `Linked` does not say:
  `OrderInv` (`LinkedList_list`) has a sequence of all of them, which a push extends, a
  pop and a destroy shorten, and along which `linkedListLen` counts. The same sequence is
  the abstract queue of `ListImplementsFifo`: `AbstractCall` has a call take effect at one
  statement, and each other step is a stutter of `FifoQueue`.
- `SlotArray_proofs`: what `Find` returns, and that `Shift` keeps types, keeps elements
  distinct, and never adds an occurrence (`FindProperties`, `FindFirst`, `ShiftType`,
  `ShiftCount`, `ShiftKeeps` and others). Used by the next two.
- `Mcfss_proofs`: `TypeCorrect`, `DuplicatesComeFromStores` (an addition brings the first
  copy of its key or none, and a removal that moves the rows adds none), and `ArraysImplementRows`: each operation on the arrays is the operation of
  `AssocList` on the rows, where a removal moves all arrays alike.
- `Server_proofs`: `ServerInvariant`, `TypeCorrect` (the set never outgrows its arrays,
  and the walk with its late `end` stays inside them) and `AddressesWithinLimit`, with
  timeouts, discarding and workers all allowed. `IInv` (`Server_limits`) adds that a slot is being visited
  while a handler runs, and that what is pending was sent.
  `NoNullStore` rests on `WalkInv` (`Server_inline`): a connection has at most one
  descriptor, and each readable slot of a connection that is not aborted that the walk
  still has to visit, also one between `len` and the late `end`, has an equal entry in
  the set. If nothing is left to receive there, the slot is a stale copy and that entry
  lies behind the walk, so that dropping the slot leaves the entry in the set. That needs
  `HasLimit`; without it `NoNullStore` holds because nothing is received.
  `SetInv` (`Server_pooled`) adds that no open connection is outside of the set, and with
  it the three theorems about connections follow, the cap because the set has no more
  entries than that. `JobsInv` (`Server_inline`): in place, a job is
  handled before anything else can close its descriptor.
- `HttpClient_proofs`: `ClientInvariant`, and from it `ClientTypeOK`,
  `SocketsAreClosedByOneParty` and `IsOpenIsTrue`. Neither property is inductive: `CallState`
  adds that a call past its first poll works on an open descriptor (so it never
  closes what `closeSession` has closed), and `ReturnState`
  that `closed_sock` is the truth and never goes with a positive error, by which the
  callers decide who closes. The last point needs that `recvAllData` only reads while
  there is room: otherwise `done` would turn the end of the stream into "too much data".
  `UnlimitedResponsesAreWhole` rests on `ResponseInv` (`HttpClient_calls`): what was
  received, what is in the kernel and what the peer still has to send are whole responses
  one behind the other (`StreamOK`), of which the controller has never asked for more than
  the first.
- `HttpMessage_proofs`: lemmas about texts, up to `ParsingInverts`: the printed text of
  every well-formed message is parsed as that message. `FlattenConcat` and its
  neighbours say what joined pieces are; `HeaderLies` says where in a text the fields are,
  by the positions of their line ends; `HeaderFieldEnds`, `HeaderLineStart` and
  `FieldAtLies` that both scans of `parseHeaderStruct` find just these; `RequestInverts`
  and `ResponseInverts` do the first lines. `ParseIs` goes the other way: whatever is
  accepted is well formed. Induction over the length of a text is out of the prover's
  reach, and each of these takes a least counterexample instead (`LeastElement`).
- `Messages_proofs`: first the string builder, `NextPowerOfTwo` and `AppendFits`. For a
  size of at most `Quarter`, 2^(IntBits-2), neither the truncation to an `unsigned` nor the
  sign bit nor the amount of the shift does harm. Then `Invariance` and from it
  `TextAlwaysFits` and `MessagesTypeOK`: `IInv` adds to `TextFits` the
  types of all texts, by which lengths are numbers, and that `result` is what the parser
  makes of `got`. From the latter follow `ParserAlwaysAgrees` and `OnlyFirstLinesAreOverrun`,
  which are facts about the parser: `HeaderEndsAtBlankLine` shows that the counted lines end
  where the first empty line is, and `FirstLine` and `ResponseParts` that no line end of a
  response comes before that of its first line. `ParsingInvertsPrinting` and
  `ReparsingIsStable` follow from the lemmas of `HttpMessage_proofs`.
  `BuilderPrintsItsFields` rests on `BuilderInv`, and `ControllerAlwaysFindsTheEnd` on
  `PrintInv` (what is in the builder and what is still to be appended is the text of the
  message) and `ReceiveInv` (never a byte too many); all three with `Messages_text`. The
  core of the latter is `ControlledPrefix`: of any beginning of a framed text, the
  controller asks for no more than its end and is content with nothing less.

For the sake of the proofs two operators are written in a way that the prover can unfold:
`HeaderFields` takes the line ends in their order by `Nth`, not by a sort, and
`ContentLength` is a recursive function, not a fold.

Only model-checked: liveness (all `~>` properties, under the fairness above), which is out
of the prover's reach, as `ENABLED` is. A value of Content-Length of several digits, and one
that overflows: `Framed` has one digit, and what the loop of `strToUint` makes of the others
is seen by TLC only, on the texts of `Foreign` and `Noise`.

## 5. Where code and documentation disagree

Four of them are runs: `ThreadPool_lostjob`, `Server_timeouts`, `Server_crosstalk` and
`HttpClient_abort` (see `findings` in `PROJECT.json`). The others are stated at the end of
their modules, and TLC refutes each when the cfg of the named run is changed as follows.

| Property | Start from, and change | What happens |
|---|---|---|
| `DestroyReturns` | `ThreadPool_lostjob` | A kill signal between the loop test and the wait is lost: the worker sleeps, and `threadPoolDestroy` spins forever on `kill_ack`; thread_pool.c:51 says that it wakes the worker up. |
| `PresentIsNoError` | `Mcfss_set`: `Cap = 1` | mcfss.c:29 refuses an item that is present in a full set; mcfss.h:37 promises 0. |
| `KillAckMeansClosed` | `Server_timeouts`: `Expiring = FALSE`, `HandlerFlags = {"discard_conn"}` | server.c:390 removes nothing: the slot of a discarded connection is visited again, and a stale copy of it ends in an open connection outside of the set. |
| `RequestIsReceived` | `Server_inline`: `MaxRequestSize = 0`, `HandlerFlags = {}` | utils.c:218 receives nothing, server.c:350 removes the entry, and nobody closes the descriptor: the request stays there for good. server.h:47 says that 0 means no limit. |
| `EntriesAreASet` | `Server_pooled` | `poll` (server.c:332) makes the entry of a descriptor that a worker has closed equal to that of the connection which has it now; mcfss.h:8 speaks of a set. |
| `KillAckMeansClosed`, `OpenWithinCap` | `Server_pooled`: `MaxRequestSize = 0` | For the same reason: connections are open outside of the set, and neither counted nor closed. |
| `KillIsAcknowledged` | `Server_inline`: `RecvTimesOut = FALSE` | A stale slot's `POLLIN` makes `recvAllData` wait without a timeout on a silent peer. |
| `KillIsAcknowledged` | `Server_inline`: `BindMayFail = TRUE` | `runServer` returns without `kill_ack`, on which the tests spin (testing_helpers.h:264). |
| `StartedMeansListening` | `Server_pooled` | server.c:54 sets `has_started` before anything is bound. |
| `RefusedForItsOwnAddress` | `Server_limits`: `Expiring = FALSE`, `HandlerFlags = {}`, `BindMayFail = FALSE`, `Conns <- TwoConns`, `IpOf <- SameNet`, no symmetry | server.c:205 keeps `sizeof(*addr_ptr)` = 1 byte of an address: neighbours share a limit. |
| `PerIpLimit` | `Server_pooled`: `Conns <- FiveConns`, `NFds = 5`, `Cap = 5`, `MaxRequests = 0`, `MaxPerIp <- MinusOne` | A negative limit is converted to `size_t`; server.h:43 promises a default of 4. |
| `PerIpLimit` | `Server_limits`: `Expiring = FALSE`, `HandlerFlags = {}`, `BindMayFail = FALSE` | An entry outlives its connection, and the next one on that descriptor is counted under its address. |
| `SuccessMeansSent` | `HttpClient_abort` | utils.c:124 returns 0 when `poll` times out with data unsent. |
| `SuccessSetsOut` | `HttpClient_abort`: `HupOnFin = TRUE` | sock.c:196 returns 0 on `POLLHUP` and leaves `*out` unset. |
| `ZeroIsNoLimit` | `HttpClient_abort`: `MaxResponse = 0` | utils.c:218 receives nothing; net_includes.h:76 promises no limit. |
| `TooBigIsRejected` | `HttpClient_abort`: `Calls = {"http"}`, `MaxResponse = 4` | A response above the limit is cut and returned as success. |
| `AnswerIsToThisRequest` | `HttpClient_abort`: `Calls = {"session"}` | After a timeout the session is not drained: the next request gets the late response. |
| `OpenSessionIsConnected` | `HttpClient_abort`: `Calls = {"session"}` | `closeSession` leaves `is_open` set. |
| `SessionIsClosedOnce` | `HttpClient_abort`: `Calls = {"session"}` | So a second `closeSession` closes the same number again and returns 0, which request.h:57 calls success. |
| `TextFits` | `Messages_text`: `IntBits = 6` | Above a quarter of what an `int` counts the shift of string_builder.c:33 is negative or too small, and the capacity 64: the text does not fit. string_builder.c:32 promises the next power of 2. |
| `TextFits` | `Messages_text`: `RecvMin = 0` | With `sb_min_cap` 0 there may be no room, and utils.c:265 then tells `recv` that there is no limit. The library itself passes a number above 0; an application may choose the size of its buffer. |
| `SimpleRequestIsAllowed` | `Messages_text` | The URL of a request of one URL ends at a space only, where no line end can follow: it is refused. parsing.c:302 allows it. |
| `StringModeSucceeds` | `Messages_text` | parsing.c:236: without a line end after the first unit of the header, `parseHeaderString` reads beyond the text. |
| `StringIsTheHeader` | `Messages_text` | The same loop stops at the first line end and sets an empty header. |
| `HostIsFound` | `Messages_text` | request_misc.c:105 compares with `host` and its 0 byte: a 1.1 request with a Host field is not valid. |
| `BuiltCanBeSent` | `Messages_text` | serialization.c:73 refuses the owned string that `requestBuilderBuild` returns. |
| `FailureFreesTheBuilder` | `Messages_text` | request_networking.c:38 then returns without having freed its builder. |
| `ReceivedCanBeParsed` | `Messages_text` | parsing.c:169 takes letters only in the name of a field: Content-Length, which the controller insists on, makes the parser fail. |
| `WaitsForTheLength` | `Messages_text` | recv_controller.c:134 waits for more data without asking for more: a response whose length is no number is returned as its header alone. |
| `LengthIsALimit` | `Messages_text` | Content-Length near the largest `ssize_t` and the size of the header add up to a negative number, which means no limit. |

## 6. Hazards

`PROJECT.json` lists them by line with the properties that would notice. The ones with
no property are jobs that hold a pointer to `runServer`'s local `conn_state` after it
has returned, which changes nothing that is observed in the model, and the promises of
section 5 that the code does not keep.

## 7. Plan

Done: the pool, the list, the set, the server loop, the client, and texts from the string
builder to the parser; proofs of every safety invariant and both refinements. What is left:

1. `Messages_proofs`: `ControllerFindsTheEnd` for a Content-Length of any number of
   digits. `Framed` would need the decimal digits of a number, and the proof what
   `strToUint` computes of them, by a least counterexample over their length.
2. `Server_proofs`: `RequestIsReceived` as safety: what a poll reports of a connection
   is not lost while slots move, so that only fairness is missing.
3. `Mcfss`, `Server`: that the two arrays of `Server` are an instance of `AssocList`.

## 8. What is left out

- Windows: lines 87 to 191 of server.c are an older `runServer` that does not compile
  with the present interface; threading.h has no mutex there; sock.c has another client.
- The watcher callback of `runServer`: it may change anything in the set.
- A receive controller of the server that ends or rejects before anything has been received,
  or that changes the limit; nothing in the repository gives the server a controller.
  `RecvData` and `RecvReject` cover those that do so after some data.
- Times: a timeout strikes at any moment at which it is configured.
- In texts, what depends on the bytes within a unit: a CR or LF alone, tabs, 0 bytes,
  upper and lower case, versions other than those of `VersionOf`, words that begin with the
  name of a method, status codes below 0. Chunked transfer encoding is a TODO of the code.
- In `HttpClient`, bodies that contain CRLF: a body unit is never taken for the end of a
  line. `Messages` has them.
- Failures of `malloc` in the string builder, which asserts; logging.
- In the client, the reuse of a descriptor by other threads: closing twice is counted
  instead (`closes`), and nothing but `closeSession` does it.
- Events of `poll` that the code does not ask for or look at; failures of `poll`, `malloc`
  and `socket` in the server, which the code either asserts away or treats as a step that
  does nothing.
- In `ThreadPool`, calls to `threadPoolDispatchWork` after `threadPoolDestroy` has begun:
  the code has no protection, its callers stop dispatching first.
