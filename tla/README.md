# TLA+ models of the XHTTP/3 REALITY server

This directory holds the formal specification of the parts of this repository that carry its own
logic: the fork's UDP front end for XHTTP over HTTP/3 (`src/core/transport/internet/splithttp`), which
decides, before quic-go sees a datagram, whether a client has authenticated itself in its TLS
ClientHello or has to be relayed to the camouflage destination; the XHTTP sessions and upload queue
behind it; the XHTTP client with its connection pool and pipe; the client's terminal interface
(`src/client-tui`); and mKCP, the transport of Xray-core with the most protocol of its own. The rest of
the repository is Xray-core and its vendored libraries.

Paths below are relative to `src/core/transport/internet/splithttp/` unless they start with `src/`.

## 1. Inventory

| Component | State it keeps | Operations | Talks to | What makes it correct |
|---|---|---|---|---|
| **QUIC precheck** `reality_precheck_conn.go` | `states` (client address → phase, held datagrams, reassembly, lastSeen), `perIP`, AUTH queue, `closed` | read loop → `handlePacket` → `decidePending` → `flushPending`; `dequeue`/`ReadBatch` for quic-go; `reapLoop`; `Close` | relay (calls), quic-go (channel), socket | only proved clients reach quic-go; every datagram is disposed of once, in order, on one path; tables, counters and held data stay bounded; everything ends after `Close` |
| **UDP relay** `reality_relay.go` | `entries` (client → socket, candidate index, lastSeen), `perIP`, `closed` | `relayClientToDest`/`writeToDest`, one `destToClient` goroutine per socket, `reapLoop`, `Close` | precheck (called by), destination, clients | one socket per flow and none leaked; failover neither loops nor skips a working candidate; counters follow the table; idle flows go |
| **Initial parser and reassembler** `reality_precheck.go` | byte ranges of the CRYPTO stream | `parseQUICInitial`, `parseCryptoFrames`, `add`, `clientHello` | precheck | overlapping or contradicting fragments are rejected; a hello is reported once all its bytes are there |
| **ClientHello verifier** `vendor/github.com/xtls/reality/reality_quic_auth.go` | none | `Verify`, `VerifyAuthRecord` | precheck, HTTP auth | cryptographic |
| **HTTP auth and fallback** `reality_auth.go`, `reality_fallback.go` | `verified` flag of a QUIC connection | `verifyHeader`, `forwardToDest` | request handler | a request is served only after handshake or header authentication |
| **Upload queue** `upload_queue.go` | channel, reorder heap, `nextSeq`, stream reader, `closed` | `Push` (HTTP handlers), `Read` (the proxy connection), `Close` | sessions | bytes come out once and in sequence order, memory is bounded, nobody blocks for ever |
| **XHTTP sessions** `hub.go` | session map, 30 s reaper per session, `isFullyConnected`, write aggregation of a download | `upsertSession`, `ServeHTTP`, `httpServerConn.Write`/`Close`, flush timer | upload queue, listener | a session joins one download and its uploads; an abandoned one is reaped; nothing written is stranded or written after the handler has returned |
| **Xmux** `mux.go` | clients with usage counters | `GetXmuxClient`, `AddRunning`, `DoneRunning` | dialer | a connection is closed once it is retired and idle, never while in use |
| **XHTTP dialer** `dialer.go`, `client.go` | `dynamicXmuxClient`, the posts under way | `Dial`, the packet-up loop, `PostPacket`, `OpenStream` | Xmux, pipe | all that was accepted is posted; a failure reaches the writer |
| **Pipe** `src/core/transport/pipe` | buffer, state, two notifiers | `ReadMultiBuffer`, `WriteMultiBuffer`, `Close`, `Interrupt` | every proxy | bounded, ordered, no lost wake-up, nothing lost on a graceful close |
| **Configuration store** `src/client-tui/main.go` | `configs.json`, `current.json`, the lock file | `acquireLock`, `updateConfigs`, switch, signal handler | other TUI processes | updates of several processes do not undo each other; a leftover lock is cleared |
| **Kernel manager** `src/client-tui/main.go` | `km`: child process, directory, log tail, `exitCh` | `start`, `stop`, the waiter, `tailLog`, signal handler | child process | one kernel, known, stopped at the end |
| **mKCP** `src/core/transport/internet/kcp` | two windows, acknowledgement list, state, timers | `Write`, `Read`, `Close`, `Input`, `flush` | UDP | segments arrive once and in order over a lossy network; a closed connection ends |
| **Mux.Cool / XUDP** `src/core/common/mux` | session table, ids, XUDP table | worker goroutines | pipe, dispatcher | ids unique, a worker retires when empty |
| **UDP dispatcher, happy eyeballs, DNS, observatory, stats, proxies, ...** | see `PROJECT.json` | | | upstream Xray-core; not modelled |

`PROJECT.json` lists every component with its files and why it is, or is not, modelled, and the
hazards with the line at which each bites.

### What is hard here

* **State used after the unlock.** Both tables hand out pointers under their mutex and the read loop
  goes on with them without it, while reapers and `Close` delete the entry (`handlePacket`,
  `writeToDest`).
* **Three goroutines close the same socket.** The writer (on failover), the reply reader (on
  `ECONNREFUSED`) and the reaper or `Close`.
* **Two tables for one flow.** The precheck's states and the relay's entries have separate limits,
  clocks and reapers.
* **Errors that arrive later and elsewhere.** An ICMP refusal answers a datagram that was written
  successfully; it surfaces in a later `Write`, or in `Read` of another goroutine.
* **Shutdown in the middle of anything.** `Close` sets a flag, closes the relay, replaces the maps and
  closes the socket, one after the other, while a batch may be half handled.
* **Fragments in any order.** The ClientHello comes in CRYPTO fragments, split, repeated and
  contradicting, with junk between them.
* **Chosen under one lock, used under none.** The Xmux pool hands out a client and the user counts
  itself in later; a session is looked up and its reaper may run before the GET has claimed it.
* **One-token notifiers and timers that fire late.** The pipe signals after it has unlocked; a flush
  timer that was stopped may be running already.
* **Files shared by processes that may be killed.** The TUI's lock is a file with an age.
* **A state three goroutines store into.** mKCP's state is an atomic that each of them reads, judges and
  overwrites, while the network loses, repeats and reorders.

## 2. Modules

| Module | Models | Kind |
|---|---|---|
| `RealityRelay` | `reality_relay.go` | component |
| `RealityPrecheck` | `reality_precheck_conn.go` | component |
| `FlowGate` | what the precheck promises | abstract specification |
| `CryptoReassembler` | `cryptoReassembler` in `reality_precheck.go`, with a partial function as reference | pure algorithm |
| `PrecheckReassembly` | the precheck next to its reassembler, and what the one takes for granted of the other | composition |
| `RealityListener` | the precheck with the relay it owns (an `INSTANCE`) | composition |
| `UploadQueue` | `upload_queue.go` and the stream-up handler's wait in `hub.go` | component |
| `OrderedStream` | what the upload queue promises | abstract specification |
| `XhttpSessions` | sessions, request handlers and HTTP/3 write aggregation of `hub.go` | component |
| `Pipe`, `Xmux` | `src/core/transport/pipe`, `mux.go` | components |
| `PacketUp` | `Dial` and the packet-up upload of `dialer.go`/`client.go` over `Pipe` and `Xmux` | composition |
| `ConfigStore`, `KernelManager` | the store and the process manager of `src/client-tui/main.go` | components |
| `Kcp` | both ends of an mKCP conversation and the network between them | component |
| `SegmentLine` | what mKCP promises to the applications at its ends | abstract specification |
| `AddressCounts` | lemmas on counting a finite set by the value of a function | proofs |
| `RealityRelayProofs`, `UploadQueueProofs`, `XhttpSessionsProofs`, `PacketUpProofs`, `KcpProofs` | theorems about the module each is named after | proofs |
| `RealityPrecheckProofs` | theorems about `RealityPrecheck`, its refinement of `FlowGate`, `RealityListener`, and the reassembler | proofs |
| `ClientTuiProofs` | theorems about `ConfigStore` and `KernelManager` | proofs |
| `MC...` | instances for TLC | model checking |

Operators whose comment says "Mutant", or whose name adds to that of the definition below them, change
that definition the way a plausible bug would. They are not part of any specification: substituting one shows that the property named beside it in `PROJECT.json`
depends on the code being as it is.

### RealityRelay

`table` is the key set of `r.entries` and `entry[c]` the `*relayEntry` of client `c`; only the read loop
creates entries, so the one entry that can outlive its removal is that of `cur`, the client whose
datagram `writeToDest` is working on. `ipCount` is `r.perIP`. A socket is a record: its flow, its
candidate, whether it is open, its pending ICMP error and whether its `destToClient` goroutine still
reads. The critical section of `relayClientToDest` is one action (`RelayKnown`, `RelayNew`,
`RelayRefused`); each pass of the loop in `writeToDest` is an action of its own, because the lock is not
held: `WriteExhausted`, `DialFails`, `Dial`, `WriteSucceeds`, `WriteFails`. `Dial` takes a fixed one of the
unused sockets. `Reap` and `CloseEntries` are critical sections, and what follows from
`entry.destConn.Close()` on a nil pointer is modelled too, in both: `panicked` ends every action. `tried` and `fate` are history.

Data left out: the bytes, `clientAddr` copies, and the reply path except for its failure. A candidate
is known by its index; `Undialable` ones fail in `net.DialUDP`, `Refusing` ones may answer a datagram
with ICMP.

### RealityPrecheck

`table`, `state`, `ipCount`, `queue` are the fields of the same purpose; `loop` is the program counter of
the read loop with its datagram and the rest of its flush, `batch` what a `ReadBatch` has returned and
the loop has not handled. A datagram is a record: what the classifier and the parser make of it (`short`
for `obviousNonInitialV1`, `noninitial` for an error for which `isNotQUICInitial` holds, `malformed` for
other errors, `initial`), its size and its CRYPTO fragments. A fragment is a position of the hello and
whether its bytes are those of a hello the verifier accepts; two fragments that differ at one position
are the conflict the reassembler rejects.

`handlePacket` up to its unlock is one action per outcome; `decidePending` is one action per outcome
because its parsing touches what only the read loop uses and its single shared write is under `c.mu`;
each datagram of a flush is a step. A state removed while the read loop holds it lives on as an orphan,
as its object does in the code. `arrived`, `served`, `relayed`, `lost` and a state's `born` are history.

### FlowGate and the refinement

`FlowGate` says what the precheck is for in four actions: datagrams arrive, and each is passed to
quic-go, forwarded, or dropped, at most once, no datagram overtaking an earlier one of its client, and
only proved clients being passed. `RealityPrecheck!ImplementsGate` is that specification under the
mapping `passed <- served \o queue`, `forwarded <- relayed`, `waiting <-` what is in neither nor lost.

### RealityListener

The module extends `RealityPrecheck`, whose conn owns the relay, and takes the relay as the instance `R`.
The composition shares the clients, the clock and the timeout. `CallRelay` joins `HandToRelay` of the
precheck with `relayClientToDest` of the relay; while the call runs (`cur # None`) the read loop does
nothing else. `Close` of the precheck runs `Close` of the relay before it resets its own maps. A panic in
any goroutine stops the process.

### UploadQueue

Requests are of two kinds: posts, with a sequence number and a payload of one or more units, and
streams, whose body is handed over. `Push` is three actions, because a handler can be overtaken between
them: the test and CompareAndSwap on `h.reader` (`PushStarts`), the select (`PushSends`,
`PushSeesClosed`), and the second look at `closed` (`PushReturns`). `StreamEnds` is the stream-up handler
leaving its wait. `Close` is two actions, the mark and the look for a stream. `Read` is a program counter
over its blocking points and its uses of shared state: `ReadStarts`, `ReadChecks`, the two selects
(`ReadReceives`, `ReadSeesClosed`), one action for each thing it does with the packet it pops (`Deliver`,
`DropStale`, `MeetGap`), and the reads of a stream. Which of several packets with one number the heap
returns is left open. A `Packet` with a `Reader` has sequence number 0 and no payload; behind a gap `Read`
puts it on the heap like any other, and the model does too.

The proxy has one reader per connection (`splitConn.Read`), so the heap and `nextSeq` have one user. It
reads until it meets the end and then closes. Payloads are not empty and sequence numbers do not wrap at
2^64. `InOrder` assumes `RepeatsAreShort`: when a post is repeated, its payload fits into one read. The
assumption is needed: with the rest of a partial read and a repeat of the same post both on the heap,
`heap.Pop` may return the repeat, and the units that were read come out again.

`OrderedStream` says the same to the two sides of the upload without heap or channel: a request is taken
while no stream is attached, accepted or turned away, and the reader gets the posts in order, each from its
first unit to its last, or turns to the body of the one stream and gets nothing but that. Nothing read is
taken back, nothing is read after the end. `UploadQueue!ImplementsStream` is that specification with the
queue's own variables.

### CryptoReassembler

`AddFragment` follows `add` on its sorted list of ranges (first range not before the fragment, last one
that touches the growing union, conflict, merge, limits); `ClientHello` follows `clientHello` with a
header of two bytes, type and length. `AddMatches` compares one `add` on the list of every content with
the same step on the content, a partial function from positions to bytes. Because every list `add`
leaves is the canonical one, one step from each content covers every sequence of fragments.
`PrecheckReassembly` puts it next to the precheck (`Reassembles`), since `Conflict` and `Complete` of
`RealityPrecheck` rest on it.

### XhttpSessions

One session id; `table` is the object stored under it, and an object has its `isFullyConnected` (`full`),
its queue (`closed`) and its reaper. A request is a program counter over the handler: lookup or creation
under the mutex, what it does with the session, the wait, and the removal at the end. The checks that
refuse a request may refuse it before or after the lookup. For a download the model has what `Write`
accepted, what waits in `writeBuf`, what reached the response, and the flush callbacks that were armed,
those included that were stopped too late.

### Pipe, Xmux and PacketUp

`Pipe` splits each call at its unlock: the section under the mutex, then the signal. Data is counted in
units, since order is kept by construction of `MultiBuffer`. `Xmux` splits `GetXmuxClient` into retirement and choice,
and a release into the decrement and `maybeClose`, because `Running` and `NotUsed` are separate atomics.
`PacketUp` has two dials, one of which uploads: its goroutine reads the pipe, cuts what it got, takes a
client again when the request budget is used up, and posts concurrently; a failed post interrupts the
pipe. Left out: separate download settings, the browser dialer, the HTTP/1.1 connection pool,
`WaitReadCloser`, `uploadWriter`'s unsynchronised field, and the pipe's options the upload does not use.

### ConfigStore and KernelManager

`ConfigStore` has several TUI processes; a menu action is the list read for display, the lock, the fresh
read, the `.tmp` file, the rename, `current.json`, the unlock. Writing `current.json` may fail
(`CurrentFails`): add, remove and rename discard the error and report success, a switch reports it, and
either way the file stays as it was. A failed write of `configs.json` is reported and changes nothing, so it
has no action; `os.Remove` of the lock file is taken to succeed. A crash stops a process anywhere and
leaves the lock file; a signal removes it, whoever made it, while the menu goroutine still runs. The age
of the lock file is one bit (`old`). `left` is history: the name at which `current.json` was last left although
it is not listed, because the update that took it off the list was cut off or failed to write, or because a
switch chose an entry that had gone; the next write of `current.json` sets it anew. `truth` and `robbed` are
history too. `KernelManager` has the menu thread, the signal handler and one
waiter per kernel around `km.mu`; a kernel may fail to come up, ignore SIGINT, or die by itself.

### Kcp

An end has `snd`/`nxt`/`una` (sending worker), `rcv`/`rnext`/`acks` (receiving worker) and `st`. `plan` holds
what `Close`, `Input` or `flush` has decided and not stored yet: the state is read and stored by separate
atomics, and between the two another goroutine may store. A datagram in `net` is delivered any number of
times, in any order, until it is lost. Time is a choice: whenever `flush` looks, a timer has run out or
not. Congestion control and round-trip times only decide how much is sent when, which is left open. The
two updaters of an end are one flushing actor, and the check and push of `Write` one step. Sequence
numbers do not wrap (`processAck` compares modulo 2^32, `Clear` and `Remove` do not). The listener's table,
which may create a new connection for a late datagram of an ended one, is not modelled.

`SegmentLine` has neither windows nor datagrams: an end writes, hears some of its peer's segments and lets go
of some of its own, reads on without a gap, closes, or gives up waiting. It may let go of a segment that has
arrived, or when its peer was closed or it gave up. `Kcp!ImplementsLine` maps the sending window to what is
kept, and what was read or is in the receiving window to what has arrived.

## 3. Runs

| Run | Question | Instance | Result |
|---|---|---|---|
| `relay` | counters, sockets, failover; idle flows are reaped | 2 clients behind one address, 3 candidates (one refuses, one cannot be dialled, one works), per-address limit 1, 3 sockets | holds |
| `relay_reap_panics` | does the sweep survive a flow without a socket? | 2 candidates, neither works | violated |
| `precheck` | counters, admission, bounded holding, one path, order (refinement of `FlowGate`); the reassembler against its reference | 2 clients, 6 kinds of datagrams, batches of 2, table of 1, queue of 2; streams of 5 bytes of 3 values, 2 ranges, fragments up to 4 bytes | holds |
| `listener` | no socket for junk; the read loop returns; `Close` ends everything or panics on a flow that is being dialled | 2 clients, both tables of size 1, 2 candidates (one refuses, one works), 2 sockets | holds |
| `listener_close_panics` | does `Close` survive a flow that is being dialled? | as `listener`, one candidate, which works | violated |
| `upload` | order, one unbroken stream (refinement of `OrderedStream`), nothing acknowledged is lost, bounded memory; `Close` releases all, complete posts are read | 4 posts, one in two units and one sent twice, 2 streams, limit 1 | holds |
| `sessions` | posts reach the download's session, nothing written is stranded or written late, sessions end | 2 GETs, a post, a stream-up, a stream-one; 3 requests, 2 session objects, 3 writes, threshold 2 | holds |
| `packet_up` | transports are closed when unused and not before; everything accepted is posted; a blocked writer goes on | 2 dials, reuse 2, 3 requests per client, 3 clients, 2 units cut into posts of 1, a pipe that is full with 1, one fault | holds |
| `client_tui` | no update lost, an unlisted current configuration explained, leftover lock cleared; the manager knows the kernel, quitting leaves nothing, a stop ends | 2 processes, 2 names, 3 menu actions, 2 attempts, 1 crash, signal or failed write of `current.json`; 3 kernels, 2 log lines | holds |
| `kernel_start_hangs` | does a failed start come back? | 1 kernel | violated |
| `kcp` | a reliable line (refinement of `SegmentLine`), acknowledgements kept, clean end of file, closing ends | the client writes 2 segments and closes; windows of 2; 2 datagrams under way | holds |
| `kcp_close_lost` | does `Close` close the connection? | both ends close, 1 datagram under way | violated |

The bounds are the smallest at which each case of the code happens: a full table and a full address, a
failover over every kind of candidate, a hello in two fragments with a third datagram to interrupt or
repeat it, a queue that overflows, a batch that outlives `Close`; a session that is reaped and made again
under a GET; a client that is retired while one dial has it and another is about to count itself in; two
processes that find the same lock file; two datagrams, so that one overtakes another and an old one
comes back. Numbers of arrivals, requests, menu actions, kernels, faults and datagrams under way, ages
(capped one above `Timeout`) and sockets alive at a time are the only bounds on the state; none of the code's branches depends on
more. Deadlock checking is off in every configuration because the system may stop: all arrivals used up,
everything closed, or the process gone. `ConfigStore` and `KernelManager` share no variable, so a behaviour of
`client_tui` runs one of them while the other stands still.

Exceptions stated in the properties, each for something the code does:

* `OneSocketPerFlow`: until `Close` has emptied the map (what is dialled after that is never closed) and until a
  panic. `HealthyNeverSkipped`: until a panic.
* `PanicsOnlyInClose`: only with a candidate that works, and not where `Close` meets the one flow the read
  loop is about to dial, see `relay_reap_panics` and `listener_close_panics`. `IdleFlowReaped` and
  `ReadLoopReturns` may end in a panic of either kind.
* `ShutdownCompletes`: only with a candidate that works; and `Close` may panic where it meets a flow between
  the insertion of its entry and the dial, which ends the process instead (`listener_close_panics`). No other
  panic is accepted.
* `InOrder`: only where a repeated post fits into one read (`RepeatsAreShort`). `AckedIsKept`, `Delivered`: until the
  reader has met the end; `Delivered` also until a stream takes over.
* `NoUpdateLost`, `CurrentIsExplained`: not after a lock file was taken from a process inside its update.
  Two processes that find an expired lock file may both remove one, the second the first's new one, and
  the signal handler removes a lock file it does not own.
* `CurrentIsExplained`: `current.json` may name an entry that is not listed while an update is between its two
  files; after one was cut off there by a crash, a signal or the end of the process; after the second write
  failed, an error `src/client-tui/main.go:396`, `424` and `456` discard; and after a switch to an entry that had gone since it
  was shown (`src/client-tui/main.go:1038`). The property says that these are all the cases, that the name is one of those
  and no name not yet saved, and that the next write of `current.json` ends them. `start` refuses such a name
  (`src/client-tui/main.go:1066`).
* `KernelIsOwned`, `QuitLeavesNothing`: not after a signal. The handler stops the kernel it sees; the menu
  thread may be starting another.
* `ServedIsReachable`: not when two GETs took one session or one took it after its reaper had decided.
* `UploadCompletes`: not after a failed post.
* `OpenDialKeepsTransport`: not for a dial that registers with a client already retired. The client was
  chosen under the lock and `AddRunning` called after it, so the transport may be closed in between; the
  upload's later clients are never counted at all.
* `ImplementsLine`, `EndIsClean`: not when the peer has closed, or the sender gave up after its 15 s.
* `ClosingEnds`: may end in `PeerClosed`, see `kcp_close_lost`.

### Disagreements between code and comments

Each is a run that TLC must find violated; `PROJECT.json` quotes the line.

* `relay_reap_panics`: after every candidate has failed the entry has no socket, and the sweep calls
  `Close` on the nil pointer, which ends the process. While one candidate works the sweep cannot do this
  (theorem `PanicsOnlyInCloseHolds`).
* `listener_close_panics`: `relayClientToDest` puts the entry into the map and unlocks before `writeToDest` has
  dialled its socket (or, on failover, the next one). A `Close` in between calls `Close` on the nil pointer, also with
  a destination that works, in the middle of the teardown and with `r.mu` held.
* `kernel_start_hangs`: `start` holds `km.mu` and its failure path calls `tailLog`, which locks it again. A
  failed start never returns, and a signal's `stop` then waits for ever too.
* `kcp_close_lost`: `Close` and `Input` both see `Active`; `Close` stores `ReadyToClose`, `Input` then stores
  `PeerClosed`. `PeerClosed` has no timer (the 30 s of silence count in `Active` only), the application
  does not close twice, and unless a terminate command of the peer arrives the connection stays.

Seen in the models or while reading, without a run of their own:

* `destIdx` only grows, so a flow that has once run out of candidates drops every later datagram.
* `relayClientToDest` does not look at `closed`: a flow created or dialled while `Close` runs is never torn
  down.
* The TUI reports an update as saved when `current.json` could not be written after it, and a switch does not
  look whether its entry is still listed: see `CurrentIsExplained` above.
* One failed `WriteTo` on the listening socket ends the reply goroutine of a flow that goes on
  (`ReplyFails`; the comment at `reality_relay.go:191` names reaping and `Close` only).
* A flow the precheck has decided to relay may find the relay's own table full (`RelayRefused` under
  `CallRelay`; `reality_precheck_conn.go:600` says that no packet is dropped for a configured destination).
* mKCP: the same race lets `flush` store `Terminating` over a `Terminated` that `Close` has just stored; the
  connection ends a second time 8 s later, and its second removal from the listener goes by id. An end
  whose peer vanishes after its close option stays `PeerClosed` until its application closes. A reader
  slower than 4 s loses what it has not read once the peer terminates.

Two statements of `src/H3-REALITY-README.txt` are older than the code and are not checked: line 174 says
that what does not parse is relayed (datagrams of an undecided client that are no QUIC v1 Initial are
dropped, and tests want it so), and line 179 that a decision holds for all packets of an address (it
holds as long as the state lives, which is what `StickyPath` says).

## 4. Assumptions

* **Clock.** `Tick` ages all entries by one; an entry is idle when its age exceeds `Timeout`. `Timely`
  states that the read loop finishes the datagram it handles in less than the idle timeout (120 s by
  default): it makes no blocking call then. Without it an entry in use could expire under the read loop.
* **Fairness.** Weak fairness of the goroutines' own steps: Go runs every runnable goroutine. Reads of a
  channel and of `closed` are fair one by one because `select` picks at random among ready cases. The
  reapers are fair because their tickers fire again and again, and time passes. No fairness is assumed
  of clients (arrivals), of the destination (ICMP, replies) or of whoever calls `Close`; the read error
  on the socket is fair only once the socket is closed, and the rest of a batch already read is handled.
* **Upload queue.** Fair are the handlers inside `Push`, the proxy's reading and its `Close` after the
  end, and the exit of a handler whose stream was hung up; each way out of a `select` that stays open is
  taken some time. Not fair: requests, the data of a stream's body, a client that goes away, and `Close`
  before the end.
* **Sessions.** Fair are handlers that have begun, the reapers (timers), flush callbacks, and the end of a
  stream whose queue is closed. Not fair: new requests and the proxy's writes and closing.
* **Packet-up.** Fair are the upload goroutine, the writer once it is inside `Write`, the dials' own steps
  and the posts, each of which ends with an answer or an error. Not fair: writing, closing, faults.
* **Client TUI.** Fair are the steps of a process inside a menu action and the ageing of a lock file; of the
  kernel manager, the threads inside `start` and `stop`, the waiters, and the death of a killed process.
  Not fair: the user, signals, crashes, and a kernel's reaction to SIGINT.
* **mKCP.** Fair are the stores that a goroutine has decided on and, for a timer that has run out, the
  flush of the ping updater. Nothing is assumed of the network, the peer or the application.
* **Constants.** Each module names what it assumes of its parameters and the proofs use nothing else: sets
  of clients, requests and dials are finite, limits are natural numbers (the timeout, the window of a
  receiver, `scMaxBufferedPosts`, the attempts of `acquireLock` and the kept log lines at least 1), the nil
  values are none of the things they stand for the absence of, and a request is of one kind.
* **External.** The kernel's delivery of ICMP errors, quic-go as the reader of the queue, the
  verifier's verdict, and the network of `Kcp`.

## 5. Proofs

Proved with TLAPS for all values of the constants that satisfy the named assumptions of each module
(section 4): every invariant the runs check, the action property `SilentAfterReturn`, and the refinements of
`FlowGate`, `OrderedStream` and `SegmentLine`. TLC has checked the inductive invariants on the runs'
instances first.

* **Counters.** `TypeCorrect` and `CountsCorrect` of `RealityRelayProofs` and of `RealityPrecheckProofs`:
  the invariant is `TypeOK /\ PerIPCounts /\ WithinLimits` (with `LoopOK` for the precheck). It has to be
  one invariant: that a counter stays a natural number needs that it counts the table, and that a limit
  holds after an insertion needs that the counter the guard reads is the count. The cardinalities come
  from `AddressCounts`.
* **Relay.** `OneSocketPerFlowHolds`, `HealthyNeverSkippedHolds`, `PanicsOnlyInCloseHolds`: from `FlowInv`, which
  holds until a panic: an entry in use is fresh (`EntryInUse`, this is where `Timely` is used); a socket is
  held by one entry and stands on its current candidate (`OwnSocket`); only refusing candidates leave an entry
  with a dead socket, and only a destination where all fail leaves one that is not in use with none
  (`SocketUsable`); `NoOrphan` holds until `Close` empties the map (after that a late flow leaks its socket, see
  section 3). The sweep takes entries that are old, so not the one in use, and finds a socket in each; `Close`
  takes all, so the one it can find without is the one in use.
* **Precheck: admission and holding.** `AdmittedProvedHolds`: from `AuthInv`, which follows the evidence:
  what a state collected was sent by its own client, an AUTH decision is taken on a complete genuine
  hello, a flush carries the client's own datagrams, and more arrivals never unprove a client.
  `HoldBoundedHolds` needs only the types beside itself: the limits are compared before the append.
* **Precheck implements FlowGate.** `GateImplemented`: the initial states map, and each step maps to a step
  of the gate or to none, under `GateInv`, which adds the order to the evidence. A datagram is open exactly
  when a state holds it or the read loop has it in hand (`Open`), so nothing is lost unseen and nothing
  disposed of twice; what is held, and the rest of a flush, is in the order of arrival and before the
  datagram in hand (`Lines`); a decided state holds nothing (`Holders`), so the one flow in hand cannot
  overtake itself. The reaper and `Close` may drop several datagrams in one step; the gate's `Drop` takes a set.
* **One path.** `StickyPathHolds`: with `GateInv`, whose `InHandPhase` says that what is being flushed goes
  where the stored decision says unless its state is an orphan.
* **The listener.** `PrecheckInListener` and `RelayInListener`: a behaviour of the composed listener is one of
  the precheck and one of the relay. The step that needs an argument is the shared clock, which may run
  for one of the two tables alone. So the theorems above hold of the composition (`ListenerKeepsGate`).
  `NoSocketForJunkHolds`: from `ShapedInv`, that a flow is decided for the relay or flushed to it only if its
  client sent something shaped like an Initial; the relay itself asks nothing.
* **Upload queue.** `TypeCorrect`, `HeapBoundedHolds`, `AckedIsKeptHolds`, `OneStreamHolds`: from
  `QueueInv`. The bound needs that `Read` waits for the channel only with room for one more (`HeapInv`);
  what is kept has to be followed from the send, before the acknowledgement (`KeptInv`); that posts and a
  stream do not mix needs that a stream is attached before it is sent and that `Read`, once it has read
  from it, never enters the heap again (`TakeOver`). `InOrderHolds`: `Position` says where the reading stands,
  between two numbers or inside a post, and that nothing of later posts has been read; it is there that
  a repeated post has to fit into one read.
* **The upload queue implements OrderedStream.** `StreamImplemented`: every action of the queue is one of the
  stream's or none. Beside the invariants above it needs `StreamInv`: what is in the channel or on the heap, and
  the stream that is read from, belongs to a request that has begun (`Known`); and a body's offset is where the
  reading of it stands, zero before it is read (`BodyLeft`). Order is claimed only where `RepeatsAreShort`
  holds; the rest for every load.
* **The reassembler.** `AddMatchesHolds`, `ReassemblesHolds`: `add` and `clientHello` do what their reference
  says, for all limits, contents and fragments. A list of ranges that is sorted, free of contact and free of
  empty ranges stands for one partial function (`Represents`), and the function determines the list
  (`CanonicalIs`); the two loops of `add` are characterised by the first range that reaches the fragment and the
  last that touches the growing union; the merged list is again of that form and stands for the old
  content and the fragment. `AddIs` says so of the list of any content. Where a loop calls for induction, the proof takes
  the least or greatest number with a property instead (from well-foundedness). `UniqueBytesBound`: the bytes
  of a list within `MaxCryptoBytes` are at most that many, so the second test of the limit
  (`reality_precheck.go:465`) never fires after the first one has passed.
* **Sessions.** `ServedIsReachableHolds`: until two downloads take one object, each object still to be removed by
  anybody is the one in the table (`Unshared`), so no removal hits another's session. `NothingStrandedHolds`:
  what was written is what was sent and what is buffered, and a buffer that is not empty has its timer armed
  (`BufferOK`); every armed callback is one of those still to run. `SilentAfterReturnHolds`: a handler that
  has returned has ended the connection under its lock first (`Returned`), and no flush sends after that.
* **Packet-up.** `RunningCountsHolds`, `OpenDialKeepsTransportHolds`, `RetiredIsShutHolds`, `PoolTyped`: from `UseInv`.
  `Running` is the number of dials between `AddRunning` and `DoneRunning`; a client is closed by whoever finds
  it both retired and unused, and since the two are looked at in separate atomic reads, the last dial has to
  be followed to the end of its `maybeClose`.
* **Configuration store.** `UpdatesExclude`, `NoUpdateLostHolds`, `CurrentIsExplainedHolds`, `StoreTyped`: from
  `StoreInv`. As long as nobody was robbed of its lock file, the lock file belongs to the one process inside an
  update; the list that process saves was made from the list that is still there, and its `.tmp` file holds it
  (`Prepared`); the name it puts into `current.json` is on that list (`Saved`), and the one it finds there was
  explained before or is the one it has just taken off the list, and stays explained when the process is cut off
  or its write fails.
* **Kernel manager.** `KernelIsOwnedHolds`, `QuitLeavesNothingHolds`, `ManagerTyped`: from `ManagerInv`. Until a
  signal, a kernel whose waiter has not cleaned up is the one in `km.proc`, has its directory, and is the one
  a stop in progress is about; so no two cleanups are about different kernels (`Owned`).
* **mKCP.** `LineImplemented`, `NothingLostHolds`, `AckIsKeptHolds`, `EndIsCleanHolds`, `WindowsBounded`: from `KcpInv`. Every datagram
  under way, however old, says only what was so when it was sent and still is (`Honest`): numbers below `nxt`,
  `una` and `rnext` no larger than the ends' own, acknowledged numbers that were received, a close option
  only of a closed end. This is why loss, repetition and reordering do no harm. A state, stored or still about to be
  stored by one of the three goroutines, was earned (`Earned`): the race between them loses transitions
  (`kcp_close_lost`) but invents none. So storing a state and handling a datagram, however they interleave, do one
  thing to the windows (`Handles`): what leaves the sending window has arrived, or nobody waits for it. In
  `SegmentLine` that is hearing from the peer.

Only model-checked: the liveness properties (fairness and ENABLED are out of the prover's reach). The four
properties of the violated runs are false. `EndIsClean` takes `ReadMultiBuffer`'s look at the window and its
look at the state as one: what it says is about a reader that finds both so at once.

## 6. Not modelled, and what comes next

Not modelled: QUIC Initial decryption and frame parsing (input classes of `RealityPrecheck`),
cryptography, HTTP itself, padding and header formatting, the REALITY HTTP header check and fallback
proxy, link parsing and configuration generation of the TUI, mKCP's congestion control and segment
encoding, Mux.Cool and XUDP, DNS, dispatcher, router, observatory, the proxy protocols and the other
transports of Xray-core, and vendored libraries. Most of these are wire formats, lookups and I/O with
little state; `PROJECT.json` gives the reason for each. Most of the repository's lines are upstream code
of this kind, so the models cover a small share of the lines.

In this order:

1. Proofs: action properties beyond `SilentAfterReturn` (what a step of the relay's failover or of the pool may
   never undo), and an abstract store that `ConfigStore` implements until a lock file is taken away.
2. **`MuxSession`** (`src/core/common/mux`): session ids, the retirement of a worker that is empty, and the
   take-over of an XUDP session.
3. The listener's table of mKCP conversations around `Kcp`, for late datagrams of an ended conversation.
4. Happy eyeballs (racing dials and the close of the losers) and the activity timer.
