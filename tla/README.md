# USB packet channel (upc): specifications, checks and proofs

This directory holds TLA+ specifications of the `upc` crate, the TLC
configurations that check them and proofs checked by TLAPS. Paths of the code
are relative to the repository (`src/device.rs`, `PROTOCOL.md`).

## 1. Inventory: the parts of the system

UPC carries packets between a USB host and a USB device over one vendor
interface: two bulk endpoints for data, and control requests on endpoint 0 for
everything else (OPEN, CLOSE, CLOSE_SEND, CLOSE_RECV, CAPABILITIES, STATUS,
ECHO, PROBE, INFO).

| part | source | state it keeps | operations | what makes it correct |
|---|---|---|---|---|
| device main task | `device.rs` `task` | `mps`, `send_open`, `recv_open`, the two polled futures, `in_close_tx`, `conn_error`, `host_caps`, `ping_timeout`, `timeout_sleep` | bus events, control requests, ping timeout, results of the two transfer tasks, unbind | flags agree with futures; no wait for an endpoint held by its own task; nothing of one connection leaks into the next; a silent host is detected |
| device `in_task` / `out_task` | `device.rs` | bytes received, announced count; send queue | receive, hand over, end; send, terminate packet, flush | everything announced arrives; the halt comes after the data |
| device handles | `device.rs` `UpcFunction`, `UpcSender`, `UpcReceiver` | connection queue, receive queue, reassembly buffer, error | accept, send, recv, drop | packets whole and in order; a failure is never reported as a clean end |
| framing | `device.rs`, `host/mod.rs`, `host/native.rs` | buffer of the receiver | split a packet into transfers, terminate it by a short or empty transfer, reassemble, enforce `max_size` | what is received is what was sent, packet by packet |
| native host | `host/native.rs` | `HalfCloseHandle`, shared error, status watch, transfers in flight | connect sequence, in_task, out_task, status_task | CLOSE once and last; an error is stored before anyone can see the channel closed; no task stays behind |
| web host | `host/web.rs`, `host/guard.rs` | as native, plus the claimed interface | claim with retry, ECHO barrier, tasks | the first packet delivered is of this connection; one claim at a time |
| capabilities and requests | `lib.rs` | none | TLV encoding and decoding | decode inverts encode, unknown tags are skipped, defaults |
| command line tool | `bin/upc.rs` | what was read and not sent, whether the input has ended, the idle timer | `forward_stdio`: stdin to `send`, `recv` to stdout; the accept loop of `--keep` | it ends when it should, and exits successfully only with its output complete |
| tracing | `trace.rs` | packet counters for log lines | | no part reads them |

The parts interact over the wire (control requests are answered one at a time
by the main task; bulk transfers are served by the hardware while the tasks
sleep), through channels (`mpsc` queues of length `QUEUE_LEN`, `watch` cells for
errors, announced counts and the device status), and through mutexes around the
device's endpoints.

Hard behaviours: control requests overtake bulk data; endpoints keep transfers
after `cancel()`; half-closes by either side in any order with a CLOSE; a host
killed at any point and replaced by another; the ping timeout against late
STATUS requests; handlers that block the select loop; handles outliving their
connection; futures that are dropped while a request of theirs is in flight; a
read of stdin that outlives the call that started it. `PROJECT.json` lists each
of them as a hazard at its line.

## 2. Plan

Done, in the order in which it was written:

1. `UpcDevice`: the device's main task, its transfer tasks, the application's
   handles, and the host as environment.
2. `UpcDeviceProofs`: inductive invariants of `UpcDevice` and the theorems that
   follow from them.
3. `UpcChannel`, the abstract packet channel; `UpcFraming`, packets, transfers
   and reassembly; `UpcToDevice` and `UpcToHost`, the two directions of one
   connection, each shown to implement the channel.
4. `UpcWeb`: the web host with its interface guard.
5. `UpcCaps`, the encoding of the capabilities, and `UpcHost`, the native host
   as a whole, which uses it.
6. `UpcHostProofs`: the theorems about `UpcHost`.
7. `UpcStdio`: `forward_stdio` and the loops around it.
8. `UpcFramingProofs`, the lemmas about pieces and chains of them, and with it
   `UpcToHostProofs` and `UpcToDeviceProofs`: both directions implement the
   channel.
9. `UpcStdioProofs` and `UpcWebProofs`: the theorems about `UpcStdio` and
   `UpcWeb`.
10. `UpcCapsProofs`: the encoding of the capabilities, and with it the last
    invariants of `UpcHost`.

Left for later: a composition of `UpcDevice` and `UpcHost` over the wire, in
place of the environment that each of them has now (its states are the product
of two models that take minutes each, so it needs coarser ones).

## 3. The modules and the code

### UpcDevice: `device.rs`

One state variable per local of `task()` (`send_open`, `recv_open`, `in_close`,
`conn_error`, `host_caps`, `ping_timeout`, `timer` for `timeout_sleep`), per
thing the application holds (`rx_alive`, `tx_alive`, `rxq`, `conn_q`,
`func_alive`), per endpoint (`out_ep`, `in_ep` and their halts) and a few for
the host. `in_task` and `out_task` hold the connection whose future is polled,
`None` for `future::pending()`.

The three futures are one tokio task, so a handler runs to its next await
without a transfer task moving, and is one action. Where a handler really waits
for somebody else it is two, with a value of `main` in between: `opening` (OPEN
in `conn_tx.send`), `echoing` (the flush of the marker) and `timing_out` (the
error is stored, the channel not yet closed: the receiver runs on another
thread).

| code | actions |
|---|---|
| `Event::Enable`, `Disable`, unbind, drop | `Enable`, `Disable`, `Unbound`, `DropFunction` |
| OPEN | `OpenRequest`, `OpenEstablished`, `OpenFailed` |
| CLOSE, CLOSE_SEND, CLOSE_RECV | `Close`, `CloseSend`, `CloseRecv` |
| CAPABILITIES, ECHO, STATUS | `CapabilitiesIn`, `CapabilitiesOut`, `Echo`, `EchoFlushed`, `Status` |
| ping timeout | `Tick`, `TimeoutFired`, `TimeoutClosed` |
| `in_task` and its result | `InTaskReceive`, `InTaskAll`, `InTaskDropped`, `InTaskFailed` |
| `out_task` and its result | `OutTaskSend`, `OutTaskDone`, `OutTaskFailed` |
| `accept`, `recv`, `send`, drops | `Accept`, `Recv`, `RecvEnd`, `Send`, `DropReceiver`, `DropSender` |
| the host | `HostSend`, `HostSendEmpty`, `HostRead`, `HostReadEcho`, `HostGone` |

A bulk transfer is tagged with its connection, an OUT transfer also with whether
it has data: `total_received` counts bytes (`device.rs:534`), so a transfer with
data adds one to it and a zero-length one nothing (`DataLen`). The buffers that
`prepare_in` and `recv_async` post are not state: what completes in a buffer that
was left posted is on the endpoint as far as the model goes, and `prepare_in` of
the next OPEN receives and drops it with the rest. `cancel()` and
`discard_fifo()` are external: `AfterCancelOut`, `AfterCancelIn` and
`AfterDiscard` give what the controller may leave behind. The code ignores the
result of `discard_fifo()`; here it succeeds (so `SendsOwnData` is about
controllers that support it), while `UpcWeb` also has one that discards nothing
and relies on the ECHO barrier. With `LibraryHost` the
host keeps the order of requests that both hosts of the crate keep (CLOSE,
CAPABILITIES, ECHO, OPEN, then requests of the connection); without it any
request may come at any time.

### UpcChannel, UpcFraming, UpcToDevice, UpcToHost: one connection's data

`UpcChannel` is the promise: packets come out as they went in, in order and
without gaps, and a clean end means that the sender was dropped and all was
delivered. `UpcFraming` has the operators that both directions are built from:
how the senders cut a packet into USB packets and terminate it (the rules of
host and device differ), when a transfer buffer completes, how `recv()` joins
transfers. A piece of data is the number of its packet, the byte of the packet
it begins with and its length; pieces that do not follow one another in one
packet become `Mixed` when they are joined, which no packet equals.

`UpcToDevice` follows a packet from the host's `send()` through `out_task`, the
OUT endpoint's buffers, the device's `in_task` to `recv()`, and has the byte
count of CLOSE_SEND exactly. `UpcToHost` is the other way, with the stall that
ends the stream, the transfers that completed before it and the error cell that
three host tasks may set. The direction that is not modelled appears only as
the moment in which it is closed, because CLOSE is sent when both are.

### UpcWeb: `host/web.rs`, `host/guard.rs`

`connect_with` is the sequence of values of `pc`, one per await; the guard is
the set of holders of the `Rc<InUseGuard>` (the call and the three tasks); `task`
says where `in_task` and `out_task` stand, `lock` who holds the mutex around
`HalfCloseHandle`. A page is single-threaded, so an action is the code between
two awaits. The device is the environment, reduced to what a host sees of it:
one request at a time, none while it flushes an ECHO marker, and a bulk IN pipe
whose pieces may be joined into one transfer. Requests may fail, the device may
be unplugged, the page killed, a `connect_with` dropped.

### UpcCaps, UpcHost: `lib.rs`, `host/native.rs`

`UpcCaps` has `encode` and `decode` of both capability messages byte by byte: a
sequence of numbers below `Base` (256 in the code), entries of tag, length and
value, an unknown tag skipped, an entry that is cut off refused, a value that
is too short skipped, and of a longer one the bytes known today read. The loops
are recursive functions, indexed by how far the loop has come. A duration is a number of
units of which `PerMilli` make a millisecond, so that what the rounding loses is
visible. `StatusInterval` is the choice of `connect_with`.

`UpcHost` is `connect_with` with its three tasks and the `HalfCloseHandle`. The
runtime has several threads, so every step between two awaits is an action:

| code | actions |
|---|---|
| `connect_with` | `ClaimInterface`, `FlushRead`, `QueryCaps`, `FlushFails`, `SendCaps`, `SendOpen`, `Opened`; `Refused` and `GiveUp` for its errors and for a dropped future |
| `in_task` | `InStops`, `InFails`, `InWaits`, `InQueues` |
| `out_task` | `OutTakes`, `OutStops`, `OutGoesOn`, `OutSent`, `OutFails`, `OutDrained` |
| `HalfCloseHandle` | `HalfClose`, `HalfClosed`, `Closed` |
| `status_task` | `PollStatus`, `StatusAnswered`, `StatusFailed`, `StatusEnds` |
| handles | `DropSender`, `DropReceiver`, `Recv` |
| device, bus | `Dev...`, `BusIn`, `BusStall`, `BusFails`, `RequestFails`, `Unplug` |

`holders` is the set of those who own a clone of the interface or an endpoint
(the interface is claimed while one is left), `lock` who holds the handle's
mutex across its awaits, `ctrl` the control requests in flight in the order in
which they were made. A request of a future that was dropped stays in flight.
The device is the environment: it serves one request at a time, its application
sends, reads and drops its handles, its ping timeout fires. A transfer is the
connection it was sent in; lengths, packets and the count of CLOSE_SEND are the
subject of `UpcToDevice` and `UpcToHost`.

The flush of `connect_with` ends in two ways: no transfer comes within
`FLUSH_TIMEOUT`, which is when the pipe is empty (`QueryCaps`), or its transfer
fails, whatever is still in the pipe (`FlushFails`, `native.rs:367`); both go on
to CAPABILITIES and OPEN. Two variables are history, read by properties only:
`unflushed`, the connections whose flush ended in the second way, and `lost`,
those of which the CLOSE of a task failed before it reached the device. Both are
forgotten when the next connection claims the interface and nothing depends on
them any more.

### UpcStdio: `bin/upc.rs`

`forward_stdio` with its two futures, the loop of `device --keep` and the ends
of `connect` and `device`, between a process before the pipe, one behind it and
a peer. Chunks of input are numbered, and stand for what one call of `read_until`
or `read` returns. Tokio reads stdin in a thread of its own: a read that was
asked for goes on when the future that asked is dropped, and what it returns
goes to whoever reads next.

## 4. The runs

| run | question | result |
|---|---|---|
| `device_lifecycle` | Do flags, halts, limits, deadlines and the RECV_CLOSED bit always belong to the connection at hand? | holds |
| `device_data` | Does nothing of one connection reach the next, does the byte count of CLOSE_SEND mean that every byte was received, and does the halt come after the data? | holds |
| `device_anyhost` | Can any sequence of requests make the device wait for itself, or mix the data of connections? | no |
| `device_live` | Is a host that was killed noticed, does CLOSE_SEND end the direction? | yes, under fairness |
| `to_device` | Does the direction implement the channel, up to its cut end? | holds |
| `to_device_last_packet` | "All expected data has been received." | violated |
| `to_host` | Does the direction implement the channel in full? | holds |
| `web` | Are connections of a page kept apart, is stale data removed, is CLOSE last, is the interface given back? | holds |
| `web_torn_down` | "The host must send CLOSE when the connection is fully torn down" | violated |
| `web_wedged` | CLOSE is to "reset any state from a previous connection" | violated |
| `host` | Are two connections of native hosts kept apart, are capabilities understood, is CLOSE last, is the interface released? | holds, but for data after a failed flush, and for a transfer that hangs |
| `stdio` | What may the tool lose, and does it end? | at most one chunk per connection; it ends |

Deadlock is not checked: an application may drop everything and a host go away,
and a page need not connect again. That nothing gets stuck that should go on is
what the liveness properties say.

### Bounds

- Two connections (`MaxConn`, `MaxConns` 2) show everything about what one
  leaves to the next; nothing in the code remembers more than the connection
  before. Two host processes (`MaxGen` 2) for the same reason.
- `device_data` sends one transfer with data per direction and connection, with
  queues of length one, and any number of zero-length ones from the host, one at
  a time on the endpoint (`MaxEmpty` 1): they come before the data and behind
  them, where CLOSE_SEND overtakes them. Elsewhere `MaxEmpty` is 0, for a transfer
  without data moves nothing but itself. The order of the transfers against every
  request, cancel, halt and drop is the question; how several of them form
  packets is that of `UpcToDevice` and `UpcToHost`. `device_lifecycle` sends none,
  and so affords the ping timeout in both settings.
- `PingTicks` 1: a tick stands for the whole timeout. That a deadline counts
  from the latest request is proved for every `PingTicks`.
- `to_device`, `to_host`: `Mps` 2 and `TransferPackets` 2 give transfers of four
  bytes; the sizes are zero, less than a USB packet, one, one transfer, more
  than one transfer, and the maximum, which for `to_host` is a multiple of the
  transfer. Three packets one way, two the other: a packet can be joined only
  to its neighbour.
- `web`: two connections, one stale piece in the pipe besides the marker, two
  ECHO rounds (50 in the code; the second shows a marker of the round before),
  one failing request, CAPABILITIES or CLOSE, besides any number of failures by
  unplugging. OPEN and ECHO requests that fail end `connect_with` as an unplug
  or a drop does and are left to those; a STATUS that fails on a live device is
  in `web_torn_down`. The theorems of section 5 are about requests of any kind.
- `host`: two calls of `connect_with`, one of which may have been dropped or
  have failed at any await; one failing transfer, of the flush or of a task, or
  one failing request: the query of the capabilities, a STATUS, a CLOSE, or a
  CLOSE_SEND for both half-closes, whose results are only logged. An OPEN that
  fails ends `connect_with` as a drop does, and a failure to tell the host's
  limit is ignored; the theorems of section 5 are about failures of any kind and
  number. One transfer in the pipe, one place in the queue to `recv()`, two OUT
  transfers in flight. The
  responses are those of devices with and without ping timeout (0, one that
  rounds to 0, one with a remainder, one beyond the largest value of 32 bits on
  the smaller base), with and without entries of later versions, whole and cut
  inside an entry and between two.
- `stdio`: two connections with `--keep`, three chunks of input, two pieces of
  one write, two packets of the peer: one chunk lost, one sent and one more to
  tell the difference.

What the theorems of section 5 say holds for every value of these bounds.

### Fairness

- Device: time passes, the device's task is polled when it can go on, the
  application accepts and reads. No request, event, fault or drop is fair, and
  the host need not send or read. Without reading, `recv` queues fill up and
  CLOSE_SEND cannot complete; without accepting, the main task stays in
  `conn_tx.send` (`device.rs:707`).
- The two directions: the tasks of both sides, the controller and `recv` go on;
  nobody has to send, drop or close.
- `UpcWeb`: tasks of the page, browser and device go on. Nobody has to call
  `connect_with`, see it through or drop a handle, and the status timer need
  not fire again. `tokio::select!` in the web `status_task` is unbiased: that
  its timer fires in the very instant in which nobody watches any more, and
  wins, is left out.
- `UpcHost`: the tasks and the bus go on, the device serves requests, and its
  application reads. Nobody has to connect, drop a handle, or send, and the
  status timer need not fire.
- `UpcStdio`: the tool, its stdin thread and its timers go on. The input need
  not end, nor the peer send, take or close anything.

`ReleasesInterface` and `DroppedFreesInterface` say that, again and again, no
connection that is over holds the interface. A handle once dropped stays
dropped, a device once dead stays dead, and one connection uses the interface
at a time (`OneUser` of `UpcWebProofs`), so this is what each connection is
promised.

`ReleasesInterface` has two exceptions. One is a transfer that hangs, as below.
The other is an application that goes on reading: the `select!` of `in_task` is
biased and serves data that arrive before it looks at the death of the device.

`DroppedFreesInterface` has one exception (`HangingTransfer`): a `transfer_out`
that the device has stopped taking without halting its endpoint. The ping
timeout does that, see section 6.

## 5. The proofs

### The device: `UpcDeviceProofs`

TLAPS checks the theorems about `UpcDevice` from `BoundsAssumption` (the types of the
constants) alone, for any number of connections, hosts, transfers and ticks.
Those marked L assume `LibraryHost`.

| theorem | says |
|---|---|
| `TypesCorrect`, `FlagsCorrect` | the types; a direction is flagged open exactly while its task exists |
| `NoSelfWait` | no handler awaits an endpoint held by a task of its own loop |
| `HaltsCleared` (L), `LimitsCorrect` (L) | halts and limits of the past do not reach a connection |
| `ToldIsFinal` | RECV_CLOSED is final |
| `OwnDataOnly` | `recv()` returns transfers of its own connection only |
| `TimeoutSeen`, `NoEarlyTimeout` (L) | a timeout is reported as an error, and never fires early |
| `HostReadsOwnData` (L) | the host reads transfers of its own session only |
| `HaltLast` (L) | the halt of IN for a dropped sender comes after the host has read everything |
| `CountMeansAll` (L) | the count of CLOSE_SEND is reached only when every byte the host sent is with `recv()` or in its queue |

None of these is inductive. The argument is a chain, each part proved with the
parts before it as hypotheses of its step:

- `TaskInv` adds to types and flags where the main task may stand while a
  transfer task exists (`TasksWhere`). Without it `OpenEstablished` could start
  a task beside an old one.
- `SessionInv` says what a host finds between its CLOSE and its OPEN: no task,
  no halt, no capabilities but its own. CLOSE establishes it, and OPEN turns it
  into the property of the new connection.
- `OwnInv` extends `ReceivesOwnData` to the OUT endpoint, since a transfer on
  the endpoint is received later. It holds for any host, because `prepare_in`
  drains the endpoint before the host takes the connection as open.
- `ReportInv`: while `in_task` holds the queue nobody has been told of an end,
  so the error that the timeout stores first is seen by whoever looks later.
- `SilenceInv` relates the deadline and the silence: `timer + since` is at least
  `PingTicks` while a connection is open.
- `SendsInv`, `DeliveryInv`: everything accepted by `send()` is in the queue, on
  the endpoint or read by the host, and the endpoint was empty when the
  connection began.
- `AllInv`: `total_received` is the bytes that `recv()` returned and those it has
  queued (`Bytes`), and the announced count is all that the host sent. Only a
  zero-length transfer may be missing when the two are equal; what that can cost
  is `to_device_last_packet`, and that it is all that can be lost is `CountCoversData`.

### The native host: `UpcHostProofs`

The theorems need `HostAssumption` and `CapsAssumption`, the types of the
constants (a limit fits a `u64`), and no bound: they hold for any number of
connections, requests in flight, failures and transfers.

| theorem | says |
|---|---|
| `HostTypes` | every variable keeps its range: no queue, pool or pipe exceeds its capacity |
| `CloseComesLast` | CLOSE is sent when the other task has ended, and only a STATUS follows it |
| `ClosesNothingForeign` | no request of another connection closes a direction of this one while it holds the interface |
| `OnlyOwnData` | `recv()` returns only transfers of its own connection, unless its flush ended with a failed transfer |
| `TornDownCloses` | the device does not keep a connection open whose tasks have all ended, whatever failed, unless the CLOSE of these tasks was lost |
| `CapsAlwaysUnderstood` | the host holds what the device offered or the default, all of it after a whole response, and the device the limit that the host told it or the default |
| `PollsAreInTime` | the host polls twice within the timeout that the device enforces, and as often as was asked for, whatever timeout and interval |

- `CloseInv`: a task that waits for its request holds the mutex alone (`Alone`),
  so the other one is before or after its requests; if that one's direction is
  shut, it has ended. Every request in flight has a caller that waits for it
  (`CallersWait`), and a caller one request (`OneEach`). Without the last two
  the order of the requests in flight could not be told from the states of the
  tasks.
- `OrderInv`: a connection claims the interface after all before it released it
  (`Newest`), so the requests in flight are sorted by connection, and the one
  that the device holds open is not newer than any of them (`Sorted`). Once the
  CLOSE of `connect_with` was answered, nothing older is open or in flight
  (`Cleared`): what a dropped future left behind was served before.
- `DataInv`: from the flush on the pipe has only transfers of the connection that
  holds the interface (`PipeIsOwn`), by `Cleared` the only one that the device can
  be sending for. This is lost for a connection whose flush ended with a failed
  transfer (`unflushed`), and comes back with the flush of the next one: what is
  said of the pipe is said only of a connection that is not in that set.
- `RangeInv`: what `Capacity` adds to the types is that an unplug completes the
  reads that were posted with one failure more than there are buffers, once; and
  that `out_task` takes a packet only while a transfer buffer is free.
- `TornInv`: a task ends in `Closed` or because the other direction's task closes
  after it (`Shutting`); when its CLOSE was answered, the device has closed, and
  no OPEN can be behind it, since only `connect_with` opens and it has returned
  (`Kinds`, `Torn`). Each of these is said of one connection whose CLOSE was not
  `lost`, so that any other request or transfer may fail. This last step is the one that fails for the web host,
  whose tasks run before OPEN is sent (`web_torn_down`).
- `ExchangeInv`: until OPEN, each value that was heard is the one offered or the
  default (`CapsAreUnderstood` below), the limit is the default until the host
  tells its own, and the interval is `StatusInterval` of what was heard and what
  was asked for. The rounding of the timeout only makes it shorter
  (`ToldIsShorter`), so half of what was told is in time for the device.

### The encoding of the capabilities: `UpcCapsProofs`

From `CapsAssumption`, for any number of byte values (more than the four tags),
any entries and any cut:

| theorem | says |
|---|---|
| `RoundTrip` | `tlv::decode` gives back the entries that `tlv::encode` was given, if their lengths fit 16 bits |
| `CutIsNoticed` | data cut anywhere are refused, or end between two entries and decode to those before |
| `CapsAreUnderstood` | the host hears of any device what was told or the defaults, with any entries of later versions behind, and all of it when nothing was cut |
| `LimitIsUnderstood` | a limit that a `u64` holds arrives at the device as it is |

The loops of the code are recursive functions on an interval of numbers. That
there is such a function is proved once (`Recursion`: a first value and a step for
each number lead to a function that follows them), and for each loop that its
definition is then the function it says (`QuotientsAre`, `ValuesAre`, `BuffersAre`,
`DecodedIs`, `AppliedDeviceIs`, `AppliedHostIs`). The inductions are over the set
of numbers for which a claim holds (`UpTo`, from the least number of a set).

A number of `w` bytes comes back when its `w`-th quotient is zero
(`NumberOfBytes`), which it is for a `u32` in four bytes and a `u64` in eight.
`End(es, k)` is where the `k`-th entry ends in the data: what is in the buffer
stays there (`BuffersGrow`), so whatever is behind a place where an entry begins is
read as that entry (`ReadsEntry`), and decoding goes from the end of one to the end
of the next. A cut between two ends leaves an entry that is truncated (`Breaks`), and
that refuses the whole. `Known(o, j)` is what the host makes of the first `j`
entries, so that the cuts between two entries are the four values of `j` at which
something is still missing.

### The two directions: `UpcFramingProofs`, `UpcToHostProofs`, `UpcToDeviceProofs`

From `FramingAssumption` and the `PipeAssumption` of either module, for any
sizes, lengths of transfers and of queues:

| theorem | says |
|---|---|
| `ToHostTypes`, `ToDeviceTypes` | every stage holds pieces of packets that were sent, within its length |
| `ToHostImplementsChannel` | every step from the device's `send()` to the host's `recv()` is one of `UpcChannel` or leaves it alone |
| `ToDeviceImplementsChannel` | the same for the other way, with `MayCut`: a CLOSE or CLOSE_SEND may cut the end |
| `ToDeviceCountCoversData` | a clean end after the announced count has lost no packet but for one that only an empty transfer completes |

A position of the stream is a packet and a byte of it. Each stage holds a
`Chain`: pieces that `Fit` what a cut with the stage's unit (`Mps` on the wire,
`Mts` from the endpoint on) makes of their packets, each beginning where the one
before ends (`After`). A buffer that is being filled is a piece that starts where
its packet's cut says (`FilledFrom`). `UpcFramingProofs` has, once for both
directions, what the operators of `UpcFraming` do to chains: cutting, filling,
completing, joining, and taking from one and adding to the next.

The invariant names the position where each stage begins, from `RxAt` (the first
byte of the packet that `recv()` returns next) through the queue, the completed
buffers, the one being filled and the wire to `TxAt`, each where the one before
ends (`Receiving`, `Carrying`), and says that the last is `Queued`, where the
queue of `out_task` begins (`Linked`). So what `recv()` completes is the packet
whose turn it is, which is all the channel asks of a step. The chain is whole
only while `in_task` receives: what is behind it afterwards is never received.
`Ending` and, for the device's `out_task`, `Stopped` say what the end of a task
means: that the chain was empty to its end, that something failed and
`recv()` will report it, or that the end was cut. The flush, the stall that comes
behind the data, the transfers completed before it and the error cell all appear
there.

For the count, `Counted` says that both counters of bytes are sums over the
stream: `total` up to the packets `out_task` has taken, `received` up to where the
queue of `recv()` ends. When they are equal, the bytes between the two places
are none, so what is missing is a packet whose last transfer is empty; for that
`in_task` has to stand at a multiple of the transfer (`Aligned`). The sums are a
function `b` that the invariant quantifies over, as nothing can be proved about a
recursive operator here; that numbers have a least one (`LeastNumber`, from
the well-foundedness of `<`) is used where one would count.

### The command line tool: `UpcStdioProofs`

From `StdioAssumption`:

| theorem | says |
|---|---|
| `StdioTypes` | the tool, its stdin thread and the pipes keep to their ranges |
| `StdioChunks` | at most one chunk of input is lost per connection, and none of the first while the peer receives |
| `StdioOutput` | with input that is no terminal, exit code 0 means that everything the peer sent was written |

A connection can lose a chunk with its `send_fut`, or with a read of stdin that
outlives it, never with both: the chunks lost, the reads under way and a
`send_fut` without a read are together no more than the connections (`Losses`).
For that at most one read belongs to a connection, and `send_fut` either has a
chunk or waits for a read (`Feeding`). `Excused` names the reasons for which the
first connection may leave one behind. For the output, what was printed, is being
written and waits in the queue is what the peer sent, until the receiving future
has ended, which with such input it does only at the end of the stream or when
nobody reads any more (`Printing`, `Timing`).

### The web host: `UpcWebProofs`

From `WebAssumption`, for any number of connections, rounds, failures, of whatever
kind, and pieces:

| theorem | says |
|---|---|
| `WebTypes` | the page, the requests in flight and the device keep to their ranges |
| `WebCloseIsLast` | while a task sends the CLOSE, or has sent it, the other has ended or waits for the mutex |
| `WebNoForeignClose` | no request of another connection closes a direction of this one while it holds the guard |
| `WebFirstData` | after the ECHO barrier `recv()` returns nothing that was in the pipe before, however pieces were joined |
| `WebEndIsReported` | a clean end of `recv()` means that the device halted IN for this connection |

- `PageInv`: a task that runs has its clone of the guard (`Running`), so one
  connection uses the interface and it is the newest (`OneUser`); `Locking` and
  `LastTask` are the mutex around `HalfCloseHandle`, as for the native host.
- `CallsInv`: the requests in flight have a caller that waits, one each, unless it
  was a `connect_with` that was dropped (`CallersWait`, `OneEach`, `Awaiting`),
  and are sorted by connection (`Sorted`).
- `DeviceInv`: once the first CLOSE was answered, all that is open, halted or in
  flight is of this connection (`Cleared`).
- `DataInv`: the device serves nothing while it flushes a marker, so the marker of
  the current round is the last thing on its way to `recv()` (`MarkerLast`), and
  what comes after it is the connection's own data (`PastBarrier`). It needs that
  a marker is a short piece and ends its transfer (`Marking`), that no marker of
  a later round exists (`Rounds`), and that there is one read at a time
  (`OneRead`). `Reported` is the invariant of the error cell: a task that stops
  has stored an error or seen the halt of its own connection.

### What is only model-checked

- Liveness (`GoneHostDetected`, `CloseSendCompletes`, `EndIsSeen`,
  `DroppedFreesInterface`, `ReleasesInterface`, `PeerGoneEnds`,
  `TerminalEofEnds`), which is beyond the prover under fairness.
- The three properties that the code violates, by their nature.

Every other invariant and action property of a run is a theorem.

## 6. What was found

Each of the first three is a run whose counterexample shows it.

- `to_device_last_packet`: a packet that is completed by a zero-length transfer
  can be lost when CLOSE_SEND overtakes that transfer. The count is reached
  before the packet is complete.
- `web_torn_down`: the tasks run before OPEN is sent. If they end during the
  ECHO barrier their CLOSE comes before the OPEN, and the device keeps a
  connection that nobody serves.
- `web_wedged`: a page killed between ECHO and the reading of its marker leaves
  the device in the flush, where it serves no request; the next page's CLOSE is
  not answered.

Seen while modelling, without a run of their own:

- CLOSE_RECV does not halt the IN endpoint, which `PROTOCOL.md:165-166` says it
  should.
- After a packet larger than `max_size` was reported, the rest of it is returned
  as a packet of its own; `PROTOCOL.md:298-300` says it should be discarded.
- A host that drops both handles sends CLOSE when the transfers are complete,
  not when the device's `in_task` has handed them over. CLOSE drops `in_task`,
  and a slow application sees a clean end of a truncated stream. The protocol
  lets CLOSE stop everything; `UpcToDevice` is therefore checked against a
  channel whose end may be cut (`MayCut`).
- The device takes over `ping_timeout` when the CAPABILITIES request arrives
  (`device.rs:843`), and keeps it over CLOSE and Disable. A host that does not get
  the response uses the defaults (`PROTOCOL.md` asks that of both sides), sends no
  STATUS, and is timed out. So is one that was told of no timeout because the
  device's is below a millisecond.
- A failed transfer ends the device's `in_task` without a stored error
  (`device.rs:909`); `recv()` returns `Ok(None)`, a clean end.
- After a ping timeout a native host's pending OUT transfers never complete and
  `out_task` waits in `next_complete` for good (`native.rs:578`): the interface is
  not released, and later connects find it busy.
- A transfer that fails while `connect_with` flushes ends the flush, whatever is
  still in the pipe (`native.rs:367`), and is not reported: `connect_with` goes on
  to OPEN, and what an earlier connection left there is the first that `recv()` of
  the new one returns. The native host has no ECHO barrier behind the flush.
  `RecvIsOwn` and `OnlyOwnData` except the connections to which this happened, and
  no others.
- The command line tool exits 100 ms after both directions are done, whatever the
  channel still holds (`upc.rs:248`). With a peer that closed its own direction
  early and reads slowly, input that was read is not sent; `README.md:166-168`
  says that data read from stdin is sent to the host.
- A broken pipe of `send` returns from the future without closing stdin or waking
  the other one (`upc.rs:168`, `upc.rs:191`), and whether it or `closed()` comes
  first is a race. `closed()` counts as success even when the channel failed.
- With `--keep` a read of stdin that was asked for in one connection takes the
  first input of the next (`AtMostOneChunkLost` bounds it).
- The ping timeout halts neither endpoint. A web host without status polling
  never learns of it, and its `out_task` may wait in `transfer_out` for good:
  the interface stays in use.
- Without the ECHO capability, stale data that was cut off may be joined to the
  first packet of the new connection; `FirstDataIsOwn` is about connections
  with the barrier.
- A STATUS request that fails while the interface is being released turns a
  clean end into an error.
- With `conn_tx` full the main task waits in OPEN and serves nothing, the ping
  timeout and the unbind included (`device.rs:707`). `GoneHostDetected` holds of an
  application that goes on accepting, by the fairness of `Accept`, and so says
  nothing about this case.
- An Enable while a connection is open would wait for a mutex that `out_task`
  holds (`device.rs:651`). The model has Enable only after Disable.

## 7. What is not modelled

- Of the native host: the retries of `claim_interface` until `CLAIM_TIMEOUT` (a
  call that never gets the interface fails without effect); partial completions
  of OUT transfers (`native.rs:595`), which `nusb` reports with an error status;
  that the status timer fires in the very instant in which nobody watches any
  more, and wins.
- Of the command line tool: argument parsing, `scan` and `list`, which print what
  `probe` and `info` return; the part of a line that a dropped `BufReader` keeps;
  a terminal's end of file that is read again; that a write to stdout blocks the
  runtime's only thread, and with it status polls and control requests.
- Of the device: the receive buffers posted to the OUT endpoint. A `cancel()`
  that is left out where a connection never began (`device.rs:723`) would leave
  buffers posted; no property here would show it.
- Contents of packets, topics and capabilities other than limits and ping
  timeout; PROBE, INFO, descriptors and the getters, which change no state;
  tracing, formatting, argument handling, examples.
- In `UpcWeb`, the retries of the guard (a call that finds the interface in use
  to the end fails without effect), failures of the device's own transfers, and
  how packets become transfers.
- The counters of bytes are unbounded; the code's `u64` would wrap after 2^64
  bytes in one connection.
