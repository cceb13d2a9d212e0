# A TLA+ verification project for pion/transport

pion/transport is the transport layer of the Pion WebRTC stack: small concurrent
components that other packages build connections from, and a virtual network
(`vnet`) that their tests run on.  This directory holds TLA+ modules translated from
the Go code, TLC configurations that check them on small instances, and proofs that
TLAPS checks for every instance.  `PROJECT.json` lists the components, the runs, the
source lines behind each definition (`map`), the hazards, the findings and the theorems.

## 1. The system

| Part | Source | State | What makes it hard |
|---|---|---|---|
| Deadline, jsTimer | `deadline/` | state, timer, pending counter, done channel, context | a callback of a timer that could not be stopped arrives after a later `Set` |
| Packet buffer | `packetio/buffer.go` | byte ring, attribute ring, notify token, limits, closed | growth of a wrapped ring; several readers and one wake-up token |
| UDP listener | `udp/conn.go` | connection map, accept queue, wait groups | `Accept`, `Close`, `Conn.Close` and the read loop interleaved |
| Batch writer | `udp/batchconn.go` | two batches swapped between writers and a flusher | writers blocked on a swap, close during a flush |
| netctx | `netctx/` | deadlines of a wrapped connection, moved by contexts | a cancellation racing the end of the I/O and the next call |
| dpipe | `dpipe/dpipe.go` | two channels with deadlines | a writer that times out empties the channel beside a reader |
| Replay detectors | `replaydetector/` | latest sequence number, bit window | accepts in another order than the checks; wrap-around |
| NAT | `vnet/nat.go` | outbound and inbound mapping tables, 1:1 pairs | expiry, port exhaustion, tables out of step |
| Router | `vnet/router.go`, `chunk_queue.go` | queue, goroutine, children | restart while the old goroutine lives; a tree stopped twice |
| Net, UDPConn | `vnet/net.go`, `conn.go`, `conn_map.go` | addresses, ports, sockets | locks released around callbacks; binding against closing |
| Filters | `vnet/{duplication,loss,delay}_filter.go` | buckets and timers, block shuffles, delay queue | delivery against `Close`; lock order with the router |
| Queue, TBFQueue | `vnet/queue.go`, `tbf_queue.go` | token bucket queue | a stale timer; tokens lost by cancelled reservations |
| Bridge | `test/bridge.go` | two queues, drop and reorder counters | packets that stay in the reorder stacks |
| Change detector | `netchange/` | last snapshot, pending flag | a change seen by a `Check` that is then cancelled |
| Topology | `vnet/router.go`, `vnet/net.go`, `vnet/nat.go`, `net.go` | NIC tables, interfaces, address counters, NATs | set-up that fails half-way; addresses claimed twice |
| Resolver | `vnet/resolver.go` | host tables, parents | one resolver is unlocked before the next is asked |
| UDP proxy, TCP maps | `vnet/udpproxy.go`, `tcp_map.go` | workers and endpoints; listeners and connections | workers that start while `Close` visits the map |

How the parts interact: `packetio.Buffer`, `dpipe`, the `udp` connections and
`test.Bridge` wait on a `Deadline`.  The UDP listener puts the packets of each remote
address in a `Buffer`.  A `vnet.UDPConn` belongs to a `Net`, which is a NIC of a
`Router`; the router translates with a `NAT`, runs chunk filters (loss, duplication)
under its mutex, and delivers to NICs, which may be wrapped in a `DelayFilter` or a
`Queue`.  In the models an interaction is either composed (buffer and deadline, router and
duplication filter, router tree, a reply through tables and NAT, buffer ring and queue,
window and bit mask) or the neighbour is an environment that may do all that its own module allows, and the header of the module
says so.

## 2. The modules

In every module a definition that stands just before one it resembles and is used
nowhere else is a faulty variant of it; `PROJECT.json` (`mutants`) names the property
that replacing the right definition by it must break.

The grain of atomicity is that of the code's locks: a section under one mutex is one
action, and whatever happens between two sections, on a channel, in a select or on a wait
group, is an action of its own.  Time is a bounded clock or a countdown; a timer that
would go off beyond the bound goes off at the bound, so that no wait is
cut off.  Timers behave as in Go 1.23 and later (`go.mod` says 1.24): `Stop` and `Reset` discard
a tick that has not been received.

**`Deadline`**: `Set`, `timeout`, `Context`, the cancel function that runs after the mutex
is released, and the runtime timer with its late callbacks.  The counter `pending` has its
width as a constant.

**`Timer`, `JsTimer`**: `Timer` is what `deadline.go` relies on in a timer.  `JsTimer` is the
timer of the js builds, with the goroutines of earlier `Reset`s that reach its mutex late;
`ImplementsTimer` is the refinement, in which the timer is armed as long as `started`.

**`PacketQueue`, `BufferRing`, `BufferSync`, `BufferDeadline`**: `PacketQueue` is the abstract bounded FIFO.
`BufferRing` is the byte ring with two-byte headers, the attribute ring, growth and
limits; `ImplementsQueue` is the refinement (`INSTANCE PacketQueue WITH` the ring
decoded).  `BufferSync` puts concurrent `Read`s, `Write`, `Close` and the read deadline
around the queue, with a deadline that is none, armed or exceeded.  `BufferDeadline` puts
module `Deadline` in its place: a `Read` keeps the done channel its select has evaluated.
`ImplementsBufferSync` says that this is a `BufferSync`.

**`UDPListener`**: `Accept`, `Close`, the read loop, `Conn.Close` and the goroutine that
closes the socket, with Go's `WaitGroup`, its panic on reuse included.

**`BatchWriter`**: `EnqueueMessage`, the flusher, `Flush`, `Close`, the two batches and
the channels between them.

**`BitMask`, `FixedBigInt`, `ReplayWindow`, `WrappedWindow`**: the multi-word integer
against a set of bits; the two detectors on top of the bit mask, with accepts used at any
later time, in any order and more than once.  The wrapping detector has both ways to accept: the token of
`CheckSeq`, for which `Accept` computes the distance anew, and the accept function of
`Check`, which keeps the distance that the check computed.  The history variable `stale`
records that such a function was used after the head of the window had moved.

**`NAT`**: outbound and inbound translation in normal mode for the nine combinations of
mapping and filtering, with lifetimes and a port range that runs out.

**`ContextConn`, `ContextPacketConn`**: the calls with a context, the watcher goroutine or
the function of `context.AfterFunc`, `Close`; the wrapped connection is external.  Reading
and writing are the same code twice, and one set of actions with a direction.

**`DPipe`**: `Read`, `Write`, `Close`, the deadlines, and `cleanWriteBuffer` one receive at
a time.

**`Bridge`**: `Read`, `Write`, `Close`, `Push` with the drop, reorder, filter and loss
settings, `Reorder`, `Drop` and `Tick`.  The second direction of the code, a copy of the
first, is the same action with the other end.

**`NetChange`**: `Check` with `refresh` and `wait`, `Close`, the enumeration (links at once,
then addresses interface by interface), cancellation, failures and the polling of other
platforms.  The system and its announcements are external: an announcement may come
at any time after the change, and several may come as one.  Interfaces are compared by
index, and a report carries names and types only, so an interface that was made again under
its name is both Added and Removed.  Two clients follow the reports: one reads all
interfaces at each report (`known`), the other looks up the reported names (`names`).

**`Router`**: the goroutine of each `Start`, `push`, `processChunks`, delivery to NICs,
children and parent, and `Start` and `Stop` by several applications.  A queue size of 0 is no
limit, as in the code.

**`Topology`**: `AddNet`, `AddRouter` and `AddChildRouter` with `addNIC`,
`assignIPAddress`, `setRouter` and `newNAT` in both modes, `AddAddress` and `RemoveAddress`,
for two Nets and a router below another; each call does what it has done by the point
where it returns an error.  Over these tables it defines the way of a chunk and of the reply
to it: the choice of a source address, the 1:1 translation out and in, and the table look-ups.
A call is one step: the code takes the mutexes one after the other, and set-up calls on one
Net that overlap race on its interfaces (section 5).

**`Resolver`**: `addHost`, `setParent` and `lookUp`, one resolver of the chain at a time,
behind `Net.ResolveIPAddr`.

**`VNetUDP`**: `_dialUDP` with address and port allocation for addresses of both families,
the connection map, delivery by the router and by loopback, `ReadFrom` by several goroutines,
the read deadline as one tick of a timer, and `Close`.

**`TCPMaps`**: insert, find and delete of the listener table and of the connection table.

**`UDPProxy`**: `Proxy` in its look-up, store and start, the worker's goroutines and
sockets, an endpoint per client, and `Close`; real sockets are external and may fail.

**`DuplicationFilter`**: the filter composed with the router's goroutine and mutex:
buckets, their timers, `onBucketFired`, `Close`.

**`LossFilter`**: the shuffling handler: blocks, marks, rate changes at once or with the
next block.

**`DelayFilter`**: `onInboundChunk` in its two steps, the three cases of `run`, draining,
`SetDelay`, and `Close`, which may be called once (a second call would close `done` again).

**`TBFQueue`**: `Queue` with the token bucket discipline.  The limiter of
`golang.org/x/time/rate` is external; a cancelled reservation may lose its tokens.  The
stream of chunks is unbounded: two of them, chosen at will, carry marks.  No chunk is empty.

### The modules the runs check

Parts that share no state are checked side by side.  A module with a variable `which`,
chosen once, says which object moves, and the others stay in an initial state or are not
used, so the behaviours are those of each part alone: `Filters` (queue, delay, loss and
duplication filter), `NetConns` (the two netctx connections, the pipe, the batch writer, the
bridge), `Structures` (both replay detectors and the mask, which `ReplayDetectors` puts side
by side, and the buffer rings in three sizes),
`MCBufferDeadline` (a deadline alone, a buffer over one, the js timer), `MCRouter` (three
sizes of `Router`, `Topology`, `Resolver`) and `MCVNetTables` (the NAT, two sizes of
`VNetUDP`, the TCP maps, the proxy).  The sizes and set-ups of `MCRouter` are constants, which `Router.cfg` gives the
values `Sizes`, `SetUps` and `Extras`.  `MCNetChange` defines the initial states of the system
and lets each change alter one thing of an interface.

A property of such a module is the conjunction of what its parts promise under one
heading, and its comment says which properties of which module those are.

## 3. The runs

| Run | Bounds | What it shows |
|---|---|---|
| `read_deadline` | deadline: 5 Sets, clock to 3, 2 contexts, 2 late callbacks, counter modulo 3; buffer: 2 readers, limit 2, 3 Writes and Sets in all; js timer: 5 calls, clock to 3 | a deadline is never reported early (`NeverEarly`); no done channel is closed twice or abandoned (`DoneChannels`); contexts follow channels (`ContextFollowsDone`); `NoLostWakeup`, `EOFIsFinal`; a started deadline fires, its context is cancelled, and `Close` and the deadline release every `Read` (`Releases`); the buffer over the real deadline is a `BufferSync`, the js timer a `Timer` (`Implements`) |
| `structures` | windows of 3, numbers to 6; with wrapping numbers to 5, packets to 7, 2 callers; words of 3 bits, sizes 0 to 9, shifts to 10; rings of 6 to 8 bytes without limits; limits below, at and above a capacity of 6, with and without the hard limit of the build tag | exactly the new numbers in the window pass (`DetectsExactly`, `WrapDetectsExactly`); `Accept` tells what is the latest (`ReportsLatest`, `StepsAsSpecified`); the multi-word integer is the bit mask (`ImplementsBitMask`); the rings are a FIFO queue at every size and wrap position, refuse exactly what the queue refuses and grow within the limit (`StepsAsSpecified`); `Size` counts the bytes queued (`RingsInStep`) |
| `udp_listener` | 2 remotes, 3 connections, backlog 1, failing reads | map and wait group are exact (`Bookkeeping`), `SocketOutlivesConns`, every `Close` and `Accept` returns (`CallsReturn`), `NothingLeaks` |
| `net_conns` | netctx: 2 readers and a writer, 2 packet writers; pipe: capacity 2, 4 packets; batches of 2, 2 writers, 4 messages, failing writes; bridge: 3 packets, 2 settings, one direction | the deadline of a cancellation never reaches the next call (`DeadlineRestored`); order without unexplained loss or repetition (`InOrder`); `CallsHonest`; cancel, deadline, flush, tick and close release what waits (`NoneStuck`) |
| `router` | 4 chunks, one start and a queue of 2; 2 starts, 2 applications and a queue of 1; root and child, 2 applications, failing NAT and queues without limit; 2 Nets, 2 routers, 4 configurations of addresses and NAT; 3 resolvers, a name and localhost, 2 addresses | what must be stopped can be (`Stoppable`); chunks go once, in order and not early (`InTurn`); old goroutines end, `Stop` returns, queued chunks are not forgotten (`NoneStuck`); tables agree with interfaces, replies come back to who asked, routers have their NAT (`Reachable`); a name is found in the nearest router that knew it (`NamesResolve`) |
| `vnet_tables` | NAT: 2 local and 3 remote endpoints, 2 UDP ports and 1 TCP port, 2 mappings, life time 1, clock to 2; sockets: 3 connections, an IPv4 and an IPv6 address and the two unspecified ones, 2 ports, symmetric; one connection with 2 `ReadFrom`s, 2 remotes, queue of 2; TCP maps with 3 objects; proxy with 2 servers, a client and one caller | the NAT's tables agree (`MapsAgree`); inbound chunks pass exactly when the filtering says, one port per endpoint as the mapping says (`BehavesAsTyped`); `BindExclusive` with an exact map, of UDP and of TCP; chunks reach the right connection and come from its peer, no send on a closed channel, and an address found free can be inserted but for the case of two families (`RightConn`); dialling, delivery and `Close` never wait for each other, close, tick and chunks release `ReadFrom`, and the proxy's `Close` ends (`NoneStuck`); workers that ran are stopped when `Close` returns (`ProxyStops`) |
| `filters` | queue: 2 sizes, rates, bursts, limits and closers, unbounded stream; delay: 3 chunks, 2 callers; loss: blocks of 5, six rates around the rounding boundaries; duplication: 2 chunks, 3 delays | `Conforms` to the token bucket; FIFO and drained by `Close` (`Delivery`); `NotEarly`; exact sizes, marks and drops per block, one duplicate each, timers and buckets agree (`Accounted`); callers and `Close` return (`NoneStuck`) |
| `netchange` | 2 callers, 2 interfaces, 3 names of which the filter accepts 2, 2 address lists, 2 changes of one thing each | who reads the interfaces at each report has the detector's snapshot, and who looks up the reported names has it but for names lost by a rename (`InStep`); a change not reported is announced, unread or pending (`NoChangeMissed`); a running `Check` reports every change that lasts (`ChangeReported`) |

The bounds are the least at which the case behind each property occurs: a counter that
overflows, a ring that wraps at each size it grows through, a queue that is full, a
second reader, closer or connection to race with, a second start.  The mutants show that:
each of the faulty variants violates its property inside the bounds of its run, and where a
property has parts from several modules there is a variant for several of them.  Where a
run says `CHECK_DEADLOCK FALSE`, its behaviours end because a bound on calls or on time is
used up or everything has been closed.

### Waiting, and fairness

`read_deadline`, `udp_listener` and `netchange` check liveness.  A goroutine that can take a
step takes it (weak fairness of the steps of each goroutine), time passes, and in
`netchange` the kernel announces a change in the end; nothing is assumed of users, who may
never read, write, check or close.

The other runs check instead that nobody is stuck.  `NothingStuck` of a module says: in a
state where the goroutines of the part can take no step, nobody waits for something that has
already happened, such as a `Close`, a cancellation, a passed deadline or a queued chunk.  It
is an invariant, written with `ENABLED`, and catches lost wake-ups and deadlocks; it does
not exclude that goroutines keep taking steps for ever without getting on, so no fairness
is needed for it.

## 4. What is proved

All theorems hold for every value of the constants that satisfies the module's named
assumption.

* **`ReadDeadlineProofs`**: `TypeOK`, `NeverEarly`, `DoneChannels`, `ContextFollowsDone` of
  `Deadline`.  `NeverEarly` is not inductive: the invariant adds `PendingCount`, which says that
  `pending` counts the armed timer and the callbacks on their way, so that a callback that
  finds `pending` at zero comes from the timer of the deadline in force.  The assumption
  is that the counter is wide enough for the callbacks that wait at one time.
  `BufferDeadline` implements the safety part of `BufferSync`: to that invariant it adds that
  a `Read` in its select holds a channel that `Done` returned (`Holds`); a channel before the
  current one is closed, the current one iff the deadline is exceeded.  `TypeOK`,
  `NoLostWakeup` and `EOFIsFinal` are inductive together in `BufferSync`, for any set of
  readers: a step that empties `notify` leaves a reader before the mutex, and that reader puts
  the token back if packets are left.  By the refinement they hold with the real deadline.
  `JsTimer` implements `Timer`, for any clock and any number of calls: the invariant
  `StartedIsCarried` says that a started timer has its runtime timer, or one goroutine of the
  current version, to end it, and one that is not started has neither.  `ImplementsBothCorrect`
  is `Implements`, the two refinements as the run `read_deadline` checks them.
* **`UDPListenerProofs`**: `Bookkeeping` and `SocketOutlivesConns`, for any remotes,
  connections, callers of `Accept` and backlog.  Neither is inductive.  The invariant adds what
  the accept queue and each `Accept` hold (`Queue`, `Hands`: each queued connection once, each
  received one by one `Accept`), what `Close` has done by where it is (`Closing`), and that when
  the count has reached zero, every connection that may yet be opened was on record (`Records`),
  which is the exception `SocketOutlivesConns` makes.
* **`NATProofs`**: `MapsAgree` and `BehavesAsTyped`, for all nine behaviours, any endpoints,
  port ranges and life time.  `MapsAgree` needs that the next port was never used
  (`PortsFresh`); `BehavesAsTyped`, which speaks of the chunks sent, needs that a live mapping
  records exactly those sent through its port within the life time (`LiveAreSent`).
* **`ReplayDetectorsProofs`**: `TypeOK`, `DetectsExactly` and the action property
  `ReportsLatest`, for every window up to the highest sequence number.  The invariant says
  what each bit of the mask means, and that the head is the highest number accepted.  The
  assumption that the window fits is needed: with a window larger than the highest sequence
  number, `acceptSeq`, which reduces the distance modulo that number, marks another bit than
  `checkSeq` looks at.  `WrapDetectsExactly`, and the wrapping detector's part of
  `StepsAsSpecified`, hold for every counter of more than four numbers and every window that
  together with `maxSeq/2` fits the sequence space.  They are about packets at most `maxSeq/2`
  from the head, which is a guard of the model's `Check`, and say of the packet exactly that
  far ahead when it is refused (`InReach`).  Accepts by token may come in any order; accept
  functions as long as `stale` is false.  The lemma `DiffIsDistance` is the heart of it: when the
  wrapped difference is the distance of the packets; the
  invariant `WrapInv` says which packet each bit stands for.  `ImplementsBitMask`, for
  every word width, size and shift, follows from what bit p of word c stands for
  (`MaskInv`); `Lsh` needs that a shift by whole words and one by bits, with the carry, add up
  (`ShiftedWord`).
* **`FiltersProofs`**: `TypeOK` and `Conforms` of the queue, for all sizes, rates and bursts,
  changing at any time.  The invariant is that the tokens and the level of the dual bucket make at
  most the greatest burst so far, and that a timer is set only while a chunk is queued.
  `Delivery` and `NotEarly`, for any numbers of chunks, callers and closers and any delays:
  `MarksInv` says that a marked chunk is queued in its place or popped; `DelayInv` that what
  is out and what is queued are the chunks in the order they came, that none out is early, and that what
  callers were told is taken over is among them; `DupInv` that a duplicate is due no later than
  its bucket and a bucket's goroutine runs no earlier.  `DupInv` also gives the timers' part
  of `Accounted` (`TimersCorrect`).
* **`NetConnsProofs`**: `DeadlineRestored`, `InOrder` and `CallsHonest`, for any callers, channel
  capacity, batch size and numbers of packets.  Each connection has its invariant.  `ConnInv` and
  `PacketInv` say who holds a direction's mutex, and that a deadline left in the past has its
  watcher, or its `AfterFunc` function, still to restore it.  `PipeInv` says that what is read
  and what is queued are the packets written, in order, less the dropped ones; `BatchInv` that
  the messages sent, being flushed and being written form one row.  `BridgeInv` says the same of
  each direction of the bridge (`Way`), as far as the test has not asked for a reordering; it
  is proved for both directions at once, while the run carries the packets of one.
* **`NetChangeProofs`**: `TypeOK`, `InStep` and `NoChangeMissed`, for any callers,
  interfaces, names, filters and address lists.  The invariant adds that one `Check` at a time runs
  (`Exclusive`), that a report waiting to be returned is the difference it should be
  (`Reported`), that what the snapshot being read lacks is announced or unread
  (`Announced`), and what the client that looks up names has found (`Looked`): while a report is
  on its way a name is up to date unless it is in the report or was lost by a rename.
* **`NetworkProofs`**: the four properties of the run `router` that need no `ENABLED`.
  `Stoppable` and `InTurn`, for a tree with any number of children, applications, Starts and
  chunks, any delay and queue size, with a NAT that may fail.  `Stoppable` is not inductive: a
  `Stop` releases the root's mutex between children.  `ControlInv` adds that an application that
  has stopped a child finds the root still started, and that two of them have no stopped child in common
  (`Stopping`), so that at most one comes to the root.  For `InTurn`, `Boxes` are the places a
  chunk can be in, the queues and the hands of the goroutines, and `Way` is the routers it has yet
  to pass.  `Apart` says that no two places hold the same chunk, that none of them is past a
  router on its way, and that the chunks in use are numbered without gaps.  `HandInv`
  says that a goroutine has a due chunk in hand exactly while it forwards one, and `RowInv`
  that what a router started once has sent, has in hand and has queued is in order.
  `Reachable`, for any Nets, set-ups and addresses: `TopologyInv` says which NIC may stand in a
  table for an address (`EntryIs`), that an address of an interface is routed to its owner unless
  it was contested or came without a router (`RoutedTo`), already before the Net knows its router,
  and that a NAT in place maps the addresses the child router has (`LanInv`).  That a
  reply comes back needs that the 1:1 pairs translate there and back (`ThereAndBack`).
  `NamesResolve`, for any number of routers, names and addresses: names and parents are never
  lost, and a call that is under way has not gone past a resolver that knew the name
  (`UnderWay`).

Only model-checked: everything else in section 3.  Liveness, and `ENABLED` in `NoneStuck`, are
out of the prover's reach.  So is induction over data: the refinement `ImplementsQueue` and
`RingsInStep` decode a ring with recursive functions, and the sizes and the marks per block in
`Accounted` are sums over sequences and sets.

## 5. Findings

Each is a run that TLC must refute; `PROJECT.json` quotes the sentence at issue.

| Run | What the code does |
|---|---|
| `udp_read_loop_ends_early` | `Accept` counts a connection only after taking it from the queue, so a `Close` in between ends the read loop under it |
| `vnet_deadline` | the read deadline is one tick: the first `ReadFrom` after it times out, and the next one, or a second one in progress, waits although the deadline is past |
| `proxy_close` | two `Proxy` calls for one server both store a worker; `Close` never learns of the one that was replaced |
| `router_stranded` | after Stop and Start a queued chunk may stay until the next push: the old goroutine took its signal.  The run assumes that time passes and that a goroutine that can take a step again and again, with the router's mutex free, takes it: Go's mutexes hand over to a waiter after a millisecond |

Behaviour met while modelling, which the properties take as it is:

* `udp`: a `Conn.Close` that found no other connection waits for the read loop although one
  was accepted since; `ConnCloseReturns` therefore excepts open connections.
* `netctx`: a call that waits for the mutex behind another call does not see its context.
* `vnet.Net`: `ListenUDP` with port 0 on an unspecified address looks for a port at the
  addresses of its own family only, and `insert` refuses a port that the other family uses: the
  call can fail although other ports are free.  `NothingBreaks` says that an insert fails in
  no other case.
* `netchange`: of an interface that is renamed only the new name is reported, as Changed; a
  client that keeps interfaces by name is not told that the old name is gone.  `InStep` says
  exactly which names those are (`left`).
* `DuplicationFilter`: a bucket whose timer has fired is still delivered after `Close`.
* `DelayFilter`: `onInboundChunk` never returns once the filter is closed.
* `test.Bridge`: the stack of a reordering is never emptied, so a second one forwards the
  packets of the first again; `InOrder` counts the rounds.
* `Net.AddAddress` before `AddNet` puts the address on the interface and never in the
  router's table, although its comment says that it registers it.  With an address outside
  the router's network it returns an error and leaves the address on the interface.
  `RemoveAddress` of a Net whose `AddNet` failed half-way leaves the table entry, and
  deletes the entry of an address whoever owns it.  `TablesAgree` excepts those addresses.
* `AddRouter` that fails in `newNAT` leaves the child in the parent's table without a NAT.
* `AddNet` takes the mutex of the router and then that of the Net, `AddAddress` of a Net
  that has a router the other way round: adding a Net to its router again while an address
  is added could deadlock.  `addNIC` changes the interface without the Net's mutex, and
  `UDPConn.WriteTo` calls `determineSourceIP` without it, which for IPv4 reads only the
  first address.  The models let set-up calls not overlap.
* `UDPProxy`: a worker that failed to start stays in the map, so a second `Proxy` for the
  server returns no error and nothing runs.
* `TBFQueue`: a chunk larger than the burst holds up the queue for ever, also after
  `SetBurst`, which does not wake `run`.
* Wrapping replay detector: a number `maxSeq/2` ahead (32767 for 16 bits) gets the distance
  behind, 32769, although the comment of `diff` speaks of the shorter direction, and is refused;
  if the counter wraps on the way it passes.  `WrapDetectsExactly` says so.
* Wrapping replay detector: the accept function of `Check` keeps the distance of its check.
  With head 4, check 5 and 6, accept 6 and then 5: the head moves back to 5 and 6 passes again.
  A comment in the code knows of it ("quirks included"), and `Accept` with a token does not have
  it.  `WrapDetectsExactly` holds until an accept function is used late (`stale`).

## 6. What is not modelled

* `reuseport`, and `stdnet` and the root package but for `UpdateInterfaces` and the address
  list of an interface, are system calls, calls of package `net` or declarations.
* `utils/xor` is one loop over bytes, delegated to `crypto/subtle` or to assembly in the
  builds in use; the chunk types are values with accessors, and the models keep of them
  identity, addresses, size and time.
* `tcp_conn.go` and `tcp_listener.go` are stubs that return errors.  `TCPMaps`, which nothing
  uses yet, is therefore checked with owners that delete what they inserted.
* The rest of `test/` (stress loop, leak check, random bytes, echo helpers) and
  `examples/` are test programs without a state of their own.
* In modelled parts: the random handler of the loss filter (one comparison with a random
  number), parsing of options and addresses, the wording of errors, logging.  Chunk filters
  are a free choice of `Router`, and its NAT a choice of forward, drop or fail.  IPv6 source
  addresses in `determineSourceIP` follow the same rule as IPv4 and are left out.

Two compositions stay apart.  A `Router` delivering into a `DelayFilter` that is being closed
would only repeat what `DelayFilter` shows by itself: the caller of `onInboundChunk` waits for
ever (section 5).  A `Router` with `NAT` and `VNetUDP` in one state space is out of TLC's reach
at bounds where the parts do anything; `Topology` covers the way through all three with the
tables at rest.
