# libkinetic: a TLA+ development

libkinetic is a C client library for Kinetic key/value devices. An application
calls `ki_put`, `ki_get`, `ki_aio_*`, batches, ranges and iterators; each call
builds a message, hangs it on a *kio* and gives the kio to the *Kinetic
Transport Layer Interface* (KTLI, `src/src/ktli.c`), which sends it, matches the
response and hands the kio back. KTLI is where the threads, locks, timeouts and
failures of the library are. The development models that layer first, then the
layers above it (requests, batches, the basic key/value layer, iterators) and
below it (the socket), each on the interface the layer beneath promises.

## 1. Inventory

| Component | Source | State | Operations | What is hard, what must hold |
|---|---|---|---|---|
| KTLI session | `ktli.c`, `ktli.h`, `kio.h` | session state, sequence number, `sendq`, `recvq`, `compq`, each kio's state, sequence, timeout and queue back pointer `kio_qbp` | open, connect, disconnect, close, send, receive, receive_unsolicited, poll, drain, drain_match; sender and receiver thread | Two threads and any number of client threads under three mutexes; kios in the hand of a thread are on no queue; responses late, reordered, absent; timeouts; disconnects. Every kio in one place; its own response; one final outcome; completion. |
| Session table | `ktli_session.c` | table of session pointers | alloc, free, clear, is-valid, getters and setters | Lock-free slots; a freed slot may be reallocated between two reads. |
| Socket driver | `ktli_socket.c` | descriptor | open, connect, send, receive, poll, disconnect, close | Partial reads and writes, EAGAIN, end of stream; a reconnect takes over the descriptor. |
| Protocol interface | `protocol_interface.c` | none | pack, unpack, `ki_setseq`, `ki_getaseq` | An undecodable message yields sequence number 0. |
| Session open | `open.c` | configuration, limits | `ki_open` (`ki_close` is a stub) | Unbounded wait for the unsolicited status. |
| Requests | `put.c get.c del.c noop.c flush.c getlog.c exec.c aio.c` | one kio per request, operation statistics | aio submit, aio complete, synchronous wrappers | K_EAGAIN protocol, who frees the kio on which error path. |
| Batches | `batch.c` (and the batch branches of put and del) | `ks_bid`, `ks_bats`, `kb_ops`, `kb_bytes`, `kb_dels` | start, end, abort, submit | Compare-and-swap counters at device limits, roll back on failure. |
| Ranges, iterators | `range.c`, `iter.c` | window of keys, position | getrange, itrate start / next | Window boundaries, inclusive ends. |
| Basic KV | `basickv.c` | none of its own | put, get, del of one or n keys | A failure in the middle of n keys. |
| Statistics | `stat.c` | counters, means | put/get stats | Counters updated by any thread. |
| Objects, validation | `ktb.c`, `validate.c`, `util.c` | typed blocks | create, clean, destroy, checks | Lifetime of nested buffers. |

Components interact by calls: a request function calls `ktli_send`, then
`ktli_poll` and `ktli_receive` until its kio is there. Inside a session the
client, the sender and the receiver share the queues and the kios; the receiver
also changes the session state when the connection breaks. `PROJECT.json` lists
the components with their status and the hazards with the lines at which they
bite.

## 2. Plan and structure

How the modules fit together:

| Layer | Modules | Root | Rests on |
|---|---|---|---|
| one session | `Ktli` | `MCKtli` | the driver as single steps |
| what a session promises | `KtliRpc` | (refined by `Ktli`) | |
| sockets | `Stream` | `MCStream` | a byte stream |
| opening, closing, session table | `Sessions` | `MCSessions` | `Ktli` for what a receiver thread does |
| requests | `Validate`, `Kio`, `KvOps`, `CtlOps`, composed in `Requests` | `MCRequests` | `KtliRpc`: a request that was sent is completed once |
| what a request promises | `Api` | (refined by `Requests`) | |
| batches | `Batch` | `MCBatch` | requests as send and answer |
| values over several keys, iterators | `BasicKV`, `Iter` on `KvStore`, composed in `Store` | `MCStore` | `Api`: a request is executed, refused or unknown |
| proofs about a session | `KtliCalm`, `KtliProofs`, `KtliOrderProofs`, `KtliOnceProofs` | | `Ktli`, `KtliRpc` |
| proofs above it | `RequestsProofs`, `BatchProofs`, `SessionsProofs`, `StoreProofs` | | `Requests` and `Api`, `Batch`, `Sessions`, `Store` |
| proofs below it | `StreamProofs` | | `Stream` |

All of these are on disk, and section 6 says what is proved: every invariant and action
property a passing run checks, and both refinements. What stays with TLC is
liveness. The modules have no RECURSIVE operators, so that they can be proved about;
what is computed along a sequence is a recursive function.

## 3. The models

### 3.1 A session: `Ktli`

| Variable | Code |
|---|---|
| `kts_state`, `kts_sequence` | the fields of `struct kts_session` |
| `sendq`, `recvq`, `compq` | the three `struct ktli_queue` lists, front first |
| `kio_state`, `kio_seq`, `kio_timeout`, `kio_recvmsg` | the fields of `struct kio`; the response is the sequence number of the request it answers |
| `kio_qbp` | the queue in whose list the element behind `kio_qbp` is |
| `kio_reqonly` | `kio_flags`: the kios whose `KIOF_REQONLY` is set |
| `spc`, `skio` | position of `ktli_sender`, its local `kio` |
| `rpc`, `rkio`, `rmsg` | position of `ktli_receiver` / `ktli_recvmsg`, its local `kio` and `msg` |
| `cpc` | per kio: not in use, inside `ktli_send`, sent and not yet got back, freed, at `assert(0)` |
| `drain` | locals of a running `ktli_drain` or `ktli_drain_match` |
| `xpc` | progress of `ktli_disconnect` or `ktli_close`; the two exit flags |
| `conn`, `server` | the socket, and the responses the server owes |
| `sends`, `order`, `connects` | history for the bounds and for `SubmissionOrder` |

A critical section under one mutex is one step. The receiver holds the recvq
mutex over its whole timeout scan and takes compq's inside it, so a scan is
several steps during which `RqFree` is false. What the code does outside a mutex
is a step of its own wherever another thread could see the difference: the
unlocked `list_size` of the sender's loop (`SenderLoop`), numbering and queueing
before the send (`SenderNumber`), setting the timeout only afterwards
(`SenderArm`), the driver's send (`SenderDriver`) and the writes after it
(`SenderSent`), the state test of `ktli_send` and its enqueueing, shutdown and
state change of `ktli_disconnect`, one step per queue of a drain.

| Code | Actions |
|---|---|
| `ktli_open` | `Init` |
| `ktli_send` | `SendCheck`, `SendEnqueue` |
| `ktli_receive` | `Receive`; in a draining session `DrainCall` and the drain steps |
| `ktli_receive_unsolicited` | `ReceiveUnsolicited` |
| `ktli_drain` | `DrainCall`, `DrainFront`, `DrainSkip`, `DrainReturn` |
| `ktli_drain_match` | `DrainCall`, `DrainMatch`, `DrainReturn` |
| `ktli_connect`, `ktli_disconnect` | `Connect`; `Disconnect`, `DisconnectEnd` |
| `ktli_close` | `CloseStart`, `CloseSendq`, `CloseFinish` |
| `ktli_sender` | `SenderTop` .. `SenderComplete`, `SenderSpurious` |
| `ktli_recvmsg` | `ReadMessage`, `ReadError`, `RecvmsgErr`, `RecvmsgStuck`, `Match*`, `RecvComplete` |
| `ktli_receiver` | `ReceiverStart`, `Poll*`, `TimeoutOne`, `TimeoutDone` |
| clock, server | `Expire`, `PeerGone`, the choice of a response in `PollResponse` |

A kio is memory. With `"reuse"` in `Env` a kio the client has got back is at once
available for another request, as `malloc` may do. A write the sender still makes
through its old pointer lands in the new request, and what it still reads is read
from there: `SenderSent` tests `KIOF_REQONLY` (`ktli.c:1223`) of whatever request the
memory holds by then. If the client makes one-way requests at all (`ReqOnly` is not
empty), memory that is used again may serve either kind (`Flagged`). Reuse is modelled
for a session that stays connected and a sender that is not held up
(`KtliAssumption`); with a failed send or a drain the sender makes more use of an old
pointer than its steps tell apart.

The constant `Env` selects what the surroundings do (its values are explained in
`Ktli.tla`), so that each run asks one question; the proofs treat it as a
constant with an assumption.

Simplifications:

* One session. Sessions share only the slot table (`Sessions`).
* `ktli_poll` is not here but in `Kio`: it waits on compq and changes no kio.
* One drain call and one disconnect or close at a time; `ktli_close` starts when
  no other call is inside the session.
* A message is sent or read in one step, which may never come: the driver's loops
  retry `EAGAIN` without a limit (`ktli_socket.c:310-314`, `411-436`), so the step is
  only fair if the peer keeps reading and ends what it begins (`PeerFairness`, section
  5). The loops themselves are in `Stream`.
* A freed kio that is not used again keeps its contents, and memory is only used again
  for kios. What a late access to a freed kio does beyond that is undefined; that it
  happens is what the released run shows.
* `Receive` is enabled in a session that has left CONNECTED: its state test comes
  before the mutex. This allows a little more than the code.
* Allocation failures (`malloc`, list elements) are left out, except that the code
  paths they would take join `recvmsgerr`.
* Writing to a shut down socket raises SIGPIPE unless the application ignores it;
  the model assumes that it does.
* What the list library does when `list_remove_curr` follows a failed
  `list_setcurr` is taken from its use: the lists are kept with the rear as current
  element, and the rear is removed. Whether its codes for "not found" are negative
  is the constant `MissIsNeg`.
* A socket that was shut down or reset makes poll fail; the receiver's loop then
  starts over without a timeout scan, which is no step.

### 3.2 The requests: `Validate`, `Kio`, `KvOps`, `CtlOps`, `Requests`

Eight files build a request in the same way, with differences that matter. `Kio` has
the common machinery, `KvOps` (put, del, get) and `CtlOps` (noop, flush, exec, getlog,
getrange) one group of definitions per file, named after its functions: the argument
check, the constructor of the message, where each failing stage jumps to, the exit
ladder, what the extractor makes of an answer, what is freed, what is counted.
`Requests` turns them into actions of threads.

| Variable | Code |
|---|---|
| `call` | one record per API call: operation, synchronous or aio, arguments, phase, result, the pieces of memory it has allocated, what its caller is left with (`val`, `pb`), the request on the wire, and whether the device has executed it |
| `thr` | per thread: waiting in `ktli_poll`, in `ktli_receive`, or updating a counter, with the value it has read |
| `kst` | `kop_ok`, `kop_err`, `kop_dropped` of each family in `ks_stats` |
| `up` | is the session connected |
| `raced`, `crashed` | history: a counter update was overwritten; a memory error |
| `load` | the workload of the behaviour: which calls with which arguments |

A call that fails or sends is one step (`Put`, `Del`, `Get`, `Noop`, `Flush`, `Exec`,
`Getlog`, `Getrange`): what happens before `ktli_send` is local to its thread. Then come
`Poll`, `PollWoken`, `TryAgain` (K_EAGAIN), `Receive`, `ReceiveDrained`, `ReceiveLost`,
and one `CountLoad` and `CountStore` per counter update. `DeviceApply`, `Complete` and
`SessionLost` are the world below. Keys and values are the lengths of their fragments.

`Api` is the abstract specification: a call that is refused never reaches the device, a
call that is acknowledged has been executed, after any other result the caller does not
know. `ApiSpec` is the refinement, with memory, threads and transport hidden.

### 3.3 Batches: `Batch`

`ks_bid` and `ks_bats` are the session's lock-free counters, `kb` the batch structures,
`thr` the position of each thread with `v` and the retries left of `b_atom_inc`, `net`
and `active` the device's side. `b_atom_inc` is its load and its compare-and-swap as
separate steps, with the results it reports when the retries run out. A start is
`StartBatch`, `TakeBid`, `CountBatch`, `CheckLimit`, then `SendBatch` or `BuildFails` and
`UndoCount`; an end or abort `EndBatch`, `SendBatch`, `CompleteBatch`, `UncountBatch`; an
operation `BatchOp`, `CountOp` (under the mutex), `CheckOp` (after it), `SendOp`.

### 3.4 Opening and closing: `Sessions`

`ktli_up`, `kts_table`, the session structures `ses` (a counter hands out new ones, so
that a stale pointer shows), and per thread the descriptor, the structure it allocated
and the index of the slot scan. Each compare-and-swap and each access to the table is a
step. Setters and getters look the structure up in the slot at that moment. An open can
fail at every stage and unwinds as the code does. Of the receiver thread only what
decides whether `ktli_close` and `ki_open` return is kept.

### 3.5 Values and iterators: `KvStore`, `BasicKV`, `Iter`, `Store`

`KvStore` is the device as `Api` lets the layers above see it: any request may fail, and
one that failed may still be executed, at once or at any later time: `Update` then leaves it
in `late`, and `Arrives` executes it, or nobody ever does. (The session gives such a request
up, `ktli.c:1763`, and `basickv.c:443-445` turns the error into the result of the call.)
`LateExecution` of `BasicKV` is that step; like the calls of other clients it is one of the
things a value over several keys can be disturbed by. `bkv_putn`, `bkv_getn` and `bkv_deln` make one
step per key (`PutPart`, `GetPart`, `DelPart`). `Iter` fetches windows of a range, from the
last key of the window before, exclusive. `Store` runs both on one device.

### 3.6 The socket: `Stream`

A byte is named by its message, segment and place. `Writev(b)` and `Readv(b)` transfer any
number of bytes, `Advance` is the code's walk over the vector, `Received` the framing of
`ktli_recvmsg`. `errno` is the receiver thread's, because the code looks at it after a
`readv` that returned 0. A connection ends by the peer's close, a reset or a shutdown; a
reconnect replaces it under both threads (`dup2`).

Simplifications of 3.2 to 3.6:

* In `Requests` a session that is lost stays lost, and a request is completed at most once
  (`KtliRpc`); the data of keys and values is not there, only lengths.
* getprev is built like getnext and shares its model.
* A workload has one operation with all its arguments and failures, or several
  without failures side by side.
* `Batch` counts 2 bytes for a put and 1 for a delete; the code adds the packed lengths.
* `Sessions`: disconnect and drain are one step (they are steps in `Ktli`); `malloc` never
  returns a freed structure again; a crash ends the behaviour.
* `Stream`: a message is sent and received by one thread each; `EAGAIN` of `writev` changes
  nothing and is no step. A header made of two connections may announce the lengths
  of any message of the workload.

## 4. Properties

`Custody`: a sent kio is on a queue or in the hand of the thread that will queue
it. `BackPointers`: `kio_qbp`, written under three mutexes, names the queue that
has the kio. `ResponseMatches`: its response answers its own request.
`SubmissionOrder`: numbers follow `ktli_send` order, across connections too.
`OneQueue`: the part of custody that survives disconnects and drains.
`CompletionStable`: the client's first look at a completed kio is final (the point
of the compare-and-swap at `ktli.c:1214`). `NoCrash`: no removal from an empty
list, no `assert(0)` in `ktli_receive`. `RpcSpec`: a connected session implements
`KtliRpc`. `Completes`: every sent request completes.

Requests. `Reclaimed`: a returned call has left no memory behind, whichever of the seven
stages or answers it went through. `FreedWhenHandedBack`: a kio is freed only after the
session gave it back. `CrashFree`: nothing that is not allocated is freed or followed.
`ResultUsable`: what a successful call hands out is still allocated. `Screened`: only
arguments within the device's limits reach the wire, and a compare-and-swap is never
forced; the limits are stated in `Acceptable` independently of `validate.c`. `StatsExact`:
the counters add up. `Returns`: a synchronous call returns. `ApiSpec`: see 3.2.

Batches. `BidsUnique`: no id twice. `SlotAccounting`: `ks_bats` is the number of batches
that hold a slot. `LimitKept`: the device never has more than its limit plus one open.
`BatchFits`: what is sent in a batch fits.

Sessions. `OwnSession`: a thread finds its own session in its slot. `SlotsAccounted`: no
slot is lost. `Returns`: `ki_open` returns.

Store. `ValuesExact`: a value over several keys is read back whole, if since it was stored
neither another call on several keys was active nor a late part of an earlier one was
executed; and a put that fails at part i leaves exactly the parts before it, and perhaps
that one, under the same condition. `IterSound`: keys in
order, none twice, none missed that was there throughout.

Stream. `StreamExact`: the bytes on a connection are those of the messages sent, in order,
and what is taken for a message is one. `ReceiveEnds`: a receive ends when its message is
complete or the connection has ended.

Where the code does not keep a property in some situation, the property names that
situation and nothing more, and the run reaches it:

* two threads that open the first sessions at once can wipe the table (`wiped`, `ktli.c:115`);
  a slot taken while another thread is inside `kts_free_slot` for it can lose its session
  (`retaken`, `ktli_session.c:130`);
* a `b_atom_inc` that uses up its retries reports the opposite of what happened
  (`exhausted`, `batch.c:74`); the limit test sees the count before the batch (`batch.c:143`);
  a start the device refused or did not answer keeps its slot, because `ki_create` does not
  look (`ktb.c:180`);
* getlog and getrange do not look at the result of `ktli_send`, wait without a timeout, free
  the kio of a lost session while it is queued, and free members of a vector that is
  NULL (`getlog.c:160-250`, `range.c:210-295`); exec leaks and has an exit path through a
  null table (`exec.c:681`); a get of the metadata only leaves a dangling value (`get.c:487`);
* counters are updated without a lock (`raced`), and a request that was not received is
  counted as an error twice (`put.c:395` and `559`);
* `ki_open` does not return when it cannot connect or the connection ends before the status;
* an iterator whose range is used up returns a key from behind its table (`iter.c:215`, `297`);
* the end of the stream with a stale EAGAIN is retried for ever (`ktli_socket.c:413`), and a
  transfer that is interrupted by a disconnect and a reconnect goes on in the new
  connection (`mixed`, `ktli_socket.c:229`);
* a part of a value whose put timed out may be executed after a later `bkv_putn` of the same
  keys succeeded, and the value is then a mixture (`basickv.c:443`).

Four properties state what comments in the code promise and the code does not
do: `ReturnedMeansReleased`, `NotStranded`, `AbortCompletes`, `NeverAsserts`.

## 5. Runs

The runs down to reused use the root module `MCKtli`, the others the one of their name.

| Run | Instance | Checks | Distinct states |
|---|---|---|---|
| connected | 2 requests, 1 unsolicited kio, 3 sends, clock, reuse; fairness | `TypeOK`, `Custody`, `BackPointers`, `ResponseMatches`, `SubmissionOrder`, `NoCrash`, `CalmInv`, `CompletionStable`, `RpcSpec`, `Completes`; no deadlock | 0.17 million |
| perturbed | 2 + 1 requests, 3 sends, clock, stall, garbled | `Custody`, `BackPointers`, `ResponseMatches`, `CompletionStable` | 0.23 million |
| lifecycle | 2 + 1 requests, 2 sends, 2 connects, clock, disconnect, close, fin, rst | `OneQueue`, `ResponseMatches`, `SubmissionOrder`, `CompletionStable` | 2.9 million |
| released | 1 request | `ReturnedMeansReleased`: violated | |
| drain | 1 request, disconnect | `NotStranded`: violated | |
| abort | 1 request, fin, fairness | `AbortCompletes`: violated | |
| reused | 1 kio, used for a request of either kind, 2 sends, reuse | `NeverAsserts`: violated | |
| requests | 2 threads; 12 workloads of one call with all arguments and failures, 5 of two calls side by side; fairness | `TypeOK`, `Reclaimed`, `FreedWhenHandedBack`, `CrashFree`, `ResultUsable`, `Screened`, `StatsExact`, `ApiSpec`, `Returns` | 0.2 million |
| batch | 2 threads, 3 batches, 4 calls, device limits 1 batch, 2 operations, 1 delete, 3 bytes, 1 retry | `TypeOK`, `BidsUnique`, `SlotAccounting`, `LimitKept`, `BatchFits` | 0.39 million |
| sessions | 2 threads, 2 slots, 3 sessions; fairness | `TypeOK`, `OwnSession`, `SlotsAccounted`, `Returns` | 0.65 million |
| store | 2 clients, 3 calls, or 2 and an iterator; values of up to 2 keys, windows of 2 keys, 4 keys | `ValuesExact`, `IterSound` | 0.39 million |
| stream | 3 workloads of up to two messages, 2 connections; fairness | `StreamExact`, `ReceiveEnds` | 24 thousand |

Bounds. Three sends over two kios of which one is used again (connected), or over two
ordinary kios and a one-way kio (perturbed), are enough for
responses out of order, for a request that overtakes another in every queue, for
a late response to a kio that has been reused, and for a timeout between
two requests. Reuse and one-way requests come together only in reused, because the code
does not stand it. One-way requests run in perturbed and lifecycle; that `RpcSpec` and `NoCrash`
hold with them in a connected session without reuse is proved. Two connects let a kio that the sender holds cross from one
connection into the next. In lifecycle the ordinary kios are symmetric: no action
or property names one. Deadlock is checked in connected, released and reused;
elsewhere the threads really may stop (a closed session, a crash after a
garbled response, a receiver that waits for itself).

In the other runs: the inputs of requests are legal arguments at a limit and, for each
check of `validate.c`, one that breaks it. Two calls are enough for two threads to
update a counter at once and for one to lose its session while the other waits. In
batch, three batches against a limit of one fill the device, its extra place and one
more; one retry lets `b_atom_inc` run out of them with two threads; the modulus only
has to be larger than the ids. Three sessions over two slots let a slot be freed and
taken again. Values of 3, 4 and 5 bytes in keys of 2 are a cut last part, an exact fit and one too
many; names of 3 bytes fit one key but not several. Three calls are a put that fails and
leaves a part under way, a put that succeeds, and a get; next to an iterator there are two
(`CallsBound`). Messages have a segment of length zero between others
and at the end. Threads, batches and clients are symmetric where the cfg says so; no
symmetry is used with a liveness property. These runs do not check deadlock: calls are
bounded, and a process that crashed or a thread that waits for ever really stops.

What the failing runs show:

* **released.** The kio is on recvq before it is sent, so the response can be
  matched, completed and received before the sender gets to `ktli.c:1214`. The
  sender then writes to a kio its client has freed. `ktli.c:677-678` says that
  success means the kio was removed from KTLI's control. With `KIOF_TSTAMP` the
  same holds of line 1289 for one-way requests.
* **drain.** `ktli_drain_match` assigns each search's result to `rc`; only the
  last queue's counts. A kio taken off compq or recvq is reported as not found.
* **abort.** `ktli.c:1408` makes `sq` the recvq; `recvmsgerr` locks its mutex
  twice and the receiver never completes the queued requests it promises to
  (`ktli.c:1591-1594`).
* **reused.** An ordinary request is answered, received and freed while the sender stands
  before `ktli.c:1214`. Its memory becomes a put of a batch and goes on sendq. The
  sender reads `KIOF_REQONLY` of that one at 1223 and hangs it on compq as received, although
  it was never sent. Then it pops it from sendq and clears its back pointer (1147), and
  `ktli_receive` is at the `assert(0)` under "Getting here is a bug" (`ktli.c:754-755`). So
  `Custody`, `BackPointers`, `RpcSpec` and the others are not claimed, checked or proved for
  a client that mixes batches and ordinary requests in memory that is used again.

Fairness. `LibraryFairness` is what the scheduler and the clock give: the sender is
strongly fair, because it competes for mutexes and the scheduler grants them in the end.
The receiver's own steps are weakly fair.
A timeout scan is strongly fair because poll returns at least every 10 ms and a
scan is due once per second, whatever messages come in between. Time passes
(`Expire`). `PeerFairness` is an assumption on the peer: the driver's send and receive
retry `EAGAIN` for ever, so they end only if the peer keeps reading, and sends the
rest of a message it has begun. `FairSpec` has both.
The server need not answer, and nothing is assumed of clients: for a request that gets no
response at all, `Completes` rests on the timeout. For a peer that gets stuck in the
middle of a transfer it does not hold: the timeout scan is made by the thread that is in
the driver's loop (`ktli_socket.c:411-436`), although `kio.h:60-69` offers it as what keeps
a request from languishing on recvq.

Requests: a thread inside a call keeps running, and the session completes the requests it
was given, which is `Completes` of `Ktli` and so includes a peer that ends what it begins;
nothing else is assumed of the device, and nothing of a lost session. Sessions: a thread
inside `ki_open` or `ktli_close` and the receiver keep running, and the device sends its
status on a connection that holds. Stream: the receiver thread
keeps running inside a receive. All of these are weak fairness.

## 6. Proofs

The theorems hold for every value of the constants that satisfies the named assumptions and
the hypothesis in the theorem's ASSUME, if it has one. The assumptions give the constants
their types (counters are naturals, sets of threads and batches are finite, kios of
different kinds are different), and:

* `LimitsAssumption`: the limits are naturals, and a device returns at least one key of a range;
* `WorkloadsAssumption`: arguments are what a caller can pass. Vectors are sequences of lengths
  of any length, every enumeration has a value that it does not define, and every pointer
  that may be null is null or not. Counts of a range are naturals or `KVR_COUNT_INF`: the
  check compares other negative counts as unsigned, so they are refused like huge ones;
* `KeyAssumption`: a device holds finitely many keys;
* `IterAssumption`: a window has room for a key, and a range is a `krange_t`;
* `KtliAssumption`: reuse comes with no other surroundings than the clock (3.1);
* `StreamAssumption`: a message is a sequence of segment lengths; one the device sends has a
  header, a nonempty message and a value. A request starts with a nonempty segment.

| Module | Hypothesis | Theorems (property) | Inductive invariant |
|---|---|---|---|
| `KtliProofs` | none | `Types` (`TypeOK`) | `TypeInv` |
| `KtliProofs` | `Calm`: `Env` is at most clock and reuse, and with reuse there are no one-way requests | `CalmSafe` (`CalmInv`), `CustodySafe`, `BackPointersSafe`, `CrashFree` (`NoCrash`), `ResponsesMatch`, `CompletionsStable`, `SessionImplementsRpc` (`RpcSpec`) | `CalmInv` |
| `KtliOrderProofs` | `Steady`: `Calm`, or no reuse | `NumberedInOrder` (`SubmissionOrder`) | `OrderInv` |
| `KtliOnceProofs` | `Orderly`: neither stall, garbled nor reuse (`OneQueueKept` also: `Calm`) | `OneQueueKept` (`OneQueue`), `ResponsesMatchThroughout`, `CompletionsStableThroughout` | `OnceInv` |
| `KtliOnceProofs` | `Held`: `Env` is at most clock, stall and garbled | `CustodyHeld`, `BackPointersHeld`, `ResponsesMatchHeld`, `CompletionsStableHeld` | `HeldInv` |
| `RequestsProofs` | none | `TypeCorrect`, `FreedOnlyWhenBack`, `ResultsAreUsable`, `CrashesAreKnown` (`CrashFree`), `MemoryIsReclaimed` (`Reclaimed`), `CountersAreExact` (`StatsExact`), `RequestsImplementApi` (`ApiSpec`), `OnlyLegalRequests` (`Screened`) | `Inv`, `MemInv`, `StatsInv`, `ScreenInv` |
| `BatchProofs` | `NoWrap`: fewer calls than batch ids | `TypeCorrect`, `BidsAreUnique`, `SlotsAreCounted`, `LimitIsKept`, `BatchesFit` | `TypeInv`, `IdInv`, `SlotInv`, `OpsOK` |
| `SessionsProofs` | none | `TypeCorrect`, `SessionsKeptApart` (`OwnSession`), `NoSlotIsLost` (`SlotsAccounted`), `StructuresAreLeaked` | `TypeInv`, `TableInv` |
| `StoreProofs` | none | `SpecValuesExact` (`ValuesExact`), `SpecIterSound` (`IterSound`) | `ValueInv`, `IterInv` |
| `StreamProofs` | none | `SpecStreamExact` (`StreamExact`) | `StreamInv` |

Each proof has one lemma per action, in it one step per part of the invariant that the
action can disturb, a lemma for the actions that leave it alone, and lemmas on the
operators (removing from and appending to lists without duplicates, ascending lists,
cardinalities of sets that gain or lose an element).

### 6.1 One session

`TypeOK` is not inductive by itself: a thread that queues the kio in its hand must have
one. `TypeInv` adds `HandsOK`.

`CalmInv` (in `KtliCalm`; the connected run checks it too) is about a connection that stays up,
responses that can be unpacked, a sender that is not delayed by more than the timeout
between queueing and sending, and kios that serve one kind of request each: either no kio
is used again or there are no one-way requests. Without the last condition the theorems are
false (the reused run):

* `CalmSession`: before the first connect nothing is under way, after it the
  connection is up and no drain, disconnect or close runs; `KIOF_REQONLY` of a kio is
  what it was at first;
* `CalmThreads`: where each thread has a kio in hand;
* `CalmLists`: back pointers are right and no list holds a kio twice (without the
  second part, removing a kio would not take it off its list);
* `CalmCustody`: who has a kio, and that a kio is in a completed state exactly
  when it is on compq;
* `CalmSender`: a request between queueing and sending is still on recvq and its
  number is not yet known to the server. This is what makes the preemptive queueing
  of `ktli.c:1165-1181` safe;
* `CalmNumbers`: every number on the wire was given out, and a response in the
  receiver's hand is for the kio in its hand;
* `CalmResponses`: what hangs on a kio at each stage.

`CompletionsStable` is an action property: by `CalmCustody` and `CalmSender` the only
writes to a kio on compq are the sender's compare-and-swap, which then finds a
completed state. `SessionImplementsRpc` is a refinement: `PhaseOf` and `OutcomeOf` of
`KtliCalm` map a session to `KtliRpc`; `SendEnqueue`, `SenderComplete`, `RecvComplete`,
`TimeoutOne` and `Receive` are its steps, and the lemma `RpcOther` shows every other
action to be a stutter, which again needs the invariant: a thread that writes to a kio
after it was completed would change its phase.

`OrderInv`: sendq is in the order of the calls and everything in it comes after the
request in the sender's hand (`OrderQueue`, which needs `OrderFresh`, else a kio could be
queued twice); numbers given out ascend and never pass a request that still waits
(`OrderNumbers`); a request without a number waits for the sender or is being handed
back by a drain (`OrderWaiting`, needed when a client gets a kio back); `ktli_close`
destroys an empty sendq (`OrderClosing`). A kio that was drained and is sent again while a
thread still holds it would break `OrderFresh`, as would one the sender has completed while
it was on sendq; this is why reuse is only allowed in a connected session without one-way
requests.

`OnceInv` is what is left of `CalmInv` when connections break. Back pointers are right for
queued kios only: `ktli_close` and a failed send leave them behind (`OnceLists`). A kio a
thread is going to queue is on no queue and in no other hand (`OnceHands`). A request the
driver has not taken is on recvq or was drained, and neither the server nor the receiver
knows its number (`OnceUnsent`), and its time has not passed (`OnceTimely`): so a failed
send takes it off recvq and not something else, and no timeout or response has queued it
before.

`OrderInv`, `OnceInv` and `HeldInv` were checked with TLC on the instances of connected,
lifecycle and perturbed before they were proved.

`HeldInv` is about the surroundings of the perturbed run. A sender that is held up may find that its request
has timed out, was completed by a response nobody could unpack, or has gone back to its
client. `CalmSender` is then false, and what is left of `CalmInv` without it is still
inductive: a sender that holds a request with a response never queues it again, so
that `CalmCustody` does not depend on it. `ResponseMatches` needs `HeldMessages`, which
tells apart a response in hand and one that cannot be unpacked. Reuse is not part of
`Held`: the sender would write to the next request's kio.

### 6.2 Requests

`Inv` says of every call what it holds, on which paths it can have got to each result and
which answer belongs to it (`CallOK`), that calls are numbered without gaps, and that no
two threads wait for the same call (`ThreadsOK`: without it, two threads could free one
kio). `MemInv` adds which memory a returned call may have left. `CountersAreExact` needs
the counts that are still on their way: `Balanced` equates counters plus threads that are
about to count with the calls that returned; the pair `ok`, `unok` that `stat.c` makes of a
dropped sample moves between the two sides. `raced` is false as long as no store has
overwritten another thread's update, so every store adds one to what is there.

`RequestsImplementApi` maps a call to what its caller knows of it (`Outcome`) and whether
the device has executed it. `DeviceApply`, the call steps and the steps that return are
steps of `Api`, all others stutter. That an acknowledged call was executed is in `CallOK`:
the answer on the wire says so before the receiving thread looks at it.

`OnlyLegalRequests` has little state: `ScreenInv` says of every call what `Screened` says, and
that a call which waits was sent. The work is in the lemmas: for each file (`PutScreen`,
`DelScreen` and so on), the checks it makes before it builds a message, together with the
constructor, accept exactly what `Acceptable` does. That rests on totals of vectors of any
length (`TotalType`) and on log types counted in a list of any length.

### 6.3 Batches

`IdInv`: every id in use is below `ks_bid` as long as no call ran out of retries
(`IdsFresh`), and every batch is started by one thread before others use it (`StagesOK`).
`SlotInv` follows what entitles a caller to take a batch off the count: the start request
on its way, the open batch on the device, the one thread that is told its end or abort
succeeded, the mark on the ended batch (`TokenOK`: in one place at a time). Without it,
`UncountBatch` could take a batch off twice.
`LimitIsKept` follows from `AdmittedBounded`: of the batches that hold a slot, those that
will not be taken back are at most `DevBats + 1`, because each of them saw a count
within the limit. `OpsOK` counts the operations of the threads between the mutex and
`ktli_send` as already sent, and bounds them by the limits.

### 6.4 Sessions

`TableInv`, while neither race has happened: a thread's slot holds its structure (`Found`),
no two threads share a slot and no two slots a structure (`Apart`), a structure on its way
into the table is new to it (`Fresh`), a slot that is being freed stays empty (`Emptied`), and
what the opening thread has hung on its session is there (`Opened`).
`StructuresAreLeaked` is a by-product: `kts_free_slot` tests the slot it has just emptied
(`ktli_session.c:130`), and so never frees.

### 6.5 Values and iterators

`ValueInv`: a call that goes on has parts left (`BusyInv`); while somebody writes, no value
is known to be whole (`WriterInv`), and a put nobody has disturbed is the only one that
writes (`AloneInv`), so the parts before its position are in the store and those after it are
as they were (`PutInv`). A value that is known to be whole has all its parts in the store
(`GoodInv`), and a get of it has the parts up to its position (`GetInv`). A request still
under way was sent by an earlier call, and of a put nobody has disturbed it can only be the
last part (`LateInv`), so that it changes nothing the property claims when it arrives. `ValuesExact` follows
with the lengths of the parts, which add up to the length of the value: all but the last are
`VALLEN` long.

`IterInv`: of the keys that were there all the time, each one up to the last key of the window
was returned or is still to come in the window (`WinInv`), each one up to the last key returned
was returned (`OutInv`). The step that fetches the next window is the one that matters
(`NextWindowInv`): the window starts after the last key of the old one, exclusive, and holds the
first keys of what is left of the range, so a key that is skipped is not there.

### 6.6 The socket

`StreamInv` is nothing while a transfer has gone on across a reconnect (`mixed`). Otherwise:
what the sender has begun on this connection is what the socket took followed by what is left
of the vector, as long as the connection takes bytes (`Sends`); what the receiver has got are
the first messages of the device, and the buffers of the message it is in hold the bytes
read so far, each in its place, and nothing else (`Reads`: `done` are the places that were
filled, the vector has the rest). The lemmas are about concatenation (`FlattenSeq`, joined up to the
n-th message), about the walk over a vector (`Advance` drops as many places as bytes were
transferred, whatever it does to the base and the length of a segment) and about putting
bytes in places (`Fill`).

### 6.7 Induction over data

The lengths of `Store`, the first keys of a range, the totals of `Validate` and the
concatenation of messages are computed by recursion. Induction schemas with an operator as a parameter
are out of reach; the proofs use the least number for which a claim would fail instead
(lemma `Least`, from the well-foundedness of the order on naturals), which is a statement
about sets.

### 6.8 Only model-checked

* Liveness (`Completes`, both `Returns`, `ReceiveEnds`): outside what the proof system supports.
* Surroundings no run combines: `Custody` and `BackPointers` when connections break do not hold as
  they stand (`OneQueue` is what is left of them), `ResponseMatches` and `CompletionStable` for a
  sender that is held up in a session that is also disconnected and drained, and reuse
  with anything but a connected session, are neither checked nor proved. Reuse with one-way
  requests is only refuted (reused).

## 7. Not modelled

* The command line tools (`src/toolbox`): argument parsing and printing around the library.
* Generated protobuf code, submodules, string tables, type declarations, tests.
* The byte layout of messages and the HMAC (`protocol_interface.c`): conversions of data
  with no state; a message is a record of what it asks for.
* The floating-point running means of `stat.c`, and `ki_getstats` and `ki_putstats`, which
  copy a structure.
* `ki_clean` and `ki_destroy` of `ktb.c`, the vector helpers of `util.c`, creation and
  destruction of an iterator: memory with a single owner.
* Name resolution, socket options and the descriptor's own open and close.
* A `kts_isvalid` that accepts one descriptor too many (`ktli_session.c:158`): no caller in
  the library passes one.
