# TLA+ models of sing-box-vpnctl

sing-box-vpnctl is a proxy core: upstream sing-box plus a layer of its own, the XHTTP client
transport and AmneziaWG (`ARCHITECTURE.md`). This directory models the concurrent parts of that
layer, and of the WireGuard device and the DNS client it relies on, in TLA+. TLC checks the models
on small instances; TLAPS proves the main invariants for every value of the constants.

## The system and its parts

| Part | Source | Modules | State |
|---|---|---|---|
| XHTTP connection pool, breaker, back-off | `transport/v2rayxhttp/xmux.go`, `client.go` | `XmuxPool`, `MCXmuxPool`, `TransportProofs` | checked, proved |
| XHTTP deadlines | `transport/v2rayxhttp/conn.go` 174-308 | `Alarm`, `ReadDeadline`, `WriteDeadline`, `Deadlines`, `XhttpConnProofs` | checked, proved |
| XHTTP stream connections | `transport/v2rayxhttp/conn.go` | `XhttpHandle`, `ConnBase`, `StreamConn`, `SplitConn`, `PacketConn`, `XhttpConn`, `XhttpConnProofs` | checked, proved |
| WireGuard handshake and keypairs | `submodules/wireguard-go/device` | `WgSession`, `MCWgSession`, `WgSessionProofs`, `WgSessionPairProofs` | checked, proved |
| WireGuard outbound path | `submodules/wireguard-go/device/send.go`, `peer.go` | `WgOutbound`, `MCWgOutbound`, `WgOutboundProofs` | checked, nonces and owners proved |
| WireGuard client bind | `transport/wireguard/client_bind.go` | `ClientBind`, `TransportProofs` | proved |
| DNS connection pool | `dns/transport/conn_pool.go` | `SharedConn`, `DnsConnPool`, `DnsConnPoolProofs` | the mode in use, checked, proved |
| DNS query multiplexer | `dns/transport/multiplexer.go` | `QueryMultiplexer`, `MCQueryMultiplexer`, `QueryMultiplexerProofs` | checked, proved |
| Reuse probe of the multiplexer | `dns/transport/multiplexer.go` | `ReuseProbe`, `DnsClientProofs` | proved |
| Exchange over several candidates | `dns/transport/exchange_strategy.go` | `SequentialExchange`, `DnsClientProofs` | proved |
| DNS client: single flight, cache, refresh | `dns/client.go` | `DnsClient`, `MCDnsClient`, `DnsClientProofs` | checked, proved |

`PROJECT.json` lists these and all other parts; why the others are left out is said under "Not
modelled" below.

**XHTTP.** A dial (`Client.DialContext`) takes an HTTP/2 connection from the pool
(`xmuxManager.get`), counts itself on it (`addOpenUsage(1)`) and opens a stream connection in one
of three modes: stream-one (`streamConn`, one request), stream-up (`splitConn`, a download and an
upload request) or packet-up (`packetConn`, a download and numbered POSTs). The stream connection
reports to the connection's breaker and gives the connection back when it ends. The pool evicts
connections that are spent, failing, expired or closed, and tears an evicted one down when its last
stream leaves. A tripped breaker makes later dials wait while the pool is empty.

**WireGuard.** Two devices shake hands (`noise-protocol.go`) and keep up to three keypairs each. Any
goroutine with a packet stages it and runs `SendStagedPackets`, which draws nonces of the current
keypair and puts containers into the peer's outbound queue and the device's encryption queue; a
sequential sender writes them in order through the bind, which dials its UDP socket on demand.

**DNS.** The `Client` sends one of several equal questions to the server and caches the answer for
the network the host is in. A `queryMultiplexer` sends the queries of a TCP, TLS or UDP transport
over one connection of a `ConnPool`, numbers them, and matches the answers that `recvLoop` reads; a
probe finds out whether the server allows that. The pool dials once for all callers, and Reset (a
network change) and Close replace its state. Search lists and several servers are tried one after
the other by `ExchangeSequential`.

The abstract modules are where the parts meet. `XhttpHandle` is what a stream connection promises
the pool, and `XhttpConn`, the connection of whichever mode is configured, implements it. `Alarm` is
what a deadline promises a connection; `ConnBase` uses deadlines as `Alarm` describes them, without
the clock. `SharedConn` is what the DNS pool promises the multiplexer: `DnsConnPool` implements it,
and `QueryMultiplexer` is built on it. `QueryMultiplexer` takes the verdict of `ReuseProbe` for a
free choice, and `SequentialExchange` relies on `OneHand`, by which an exchanger calls back once.
`WgSession` gives `WgOutbound` its keypairs, at any time.

## The models

### XmuxPool

State: the manager (`clients`, the two rolled limits, the back-off fields and its lock, `access`),
each `xmuxClient` (`openUsage`, `leftUsage`, `leftRequests`, `unreusableAt`, `consecFails`,
`failing`, and `closed`, here `retired`), each transport (`connClosed` is `http2XmuxConn.closed`,
`live` says whether an established connection exists), and each dial (`at`, the connection it was
given, its timer, its open HTTP/2 streams, its calls of `release`, and how far its report to the
breaker is).

`get` holds the manager's lock over two steps: `GetEvict`, the scan with `close()` on what it
evicts, and `GetNew`, `GetReuse` or `GetWait`, the choice. Streams change their own `xmuxClient`
between the two. The order of `m.clients` does not matter, because the pick is random, so the pool
is a set. `Join` is the separate `addOpenUsage(1)` of `DialContext`, and `DialModeFails` its
`addOpenUsage(-1)` when there is no stream after all. A stream ends (`End`) before it is given back:
Close and the `fail` of its goroutines each call `release` as their last step, side by side or one
after the other, and only the first call counts (`Release`). `noteFailure` is three steps
(count, `failing`, `noteBreakerTrip`), `noteSuccess` two (the unlocked test of `backoffArmed`, then
the reset under the lock). `Close` empties the pool under the lock and closes each connection after.

### Deadlines

`ReadDeadline` and `WriteDeadline` have a clock, the generation counter, the armed timer, and the
set of timer goroutines that have fired and wait for the lock. `TimerFires` may come late; `Expire`
is the locked check of the generation; `RunOnExpire` is the callback after the lock. `Deadlines`
puts both under one clock and adds `SetDeadline`, which sets one after the other.

### Stream connections

`pc` is the place of each goroutine (request, upload request, dial guard, expiry callback, cleanup,
and the caller's Read, Write, Close and SetDeadline); `conn` holds the fields. Each section under a
mutex and each store another goroutine can see is a step. `ConnBase` has what the three share. Bytes
are abstracted; errors are told apart by who caused them, because the breaker is told of remote ones
only. `SplitConn` leaves out Write and the end of the client's context, which are `StreamConn`'s.
`PacketConn` adds the sequence numbers and the writers. `XhttpConn` is `dialMode`: one of the three,
with the properties every `net.Conn` of the client has to have.

### WgSession and WgOutbound

`WgSession` has two devices, each with its handshake, index table, keypairs and handshake workers. A
step is a section under `handshake.mutex` or the keypairs' lock, so what a worker has checked under
RLock may be outdated when it applies it; `stale` records that, because the properties except it.
The network keeps every message and delivers it late, twice or never. Cryptography is symbolic: a
message opens for whoever has mixed the same things into the chain key.

`WgOutbound` follows a container from `StagePackets` to the sender. Each atomic and each channel
operation is a step. `drawn` counts the packets that got a nonce, and `straddled` says that Start
reset the backlog counter under a goroutine that had still packets to count.

### ClientBind

The places of the device in Close and Open are `dev`; those of `receive` and `Send` are in `user`.
`connect` holds `connAccess` from `Lock` to the end of the dial, while Open replaces `c.done` and
`c.bindCtx` without it, in two steps. Closed channels and cancelled contexts are sets, so that a
goroutine may look at one that has been replaced. A socket is closed before its `done` is, in two
steps. The device waits for the receiver in `Wait` and does not wait for senders, because
`SendHandshakeCookie` takes no lock; senders that hold the device's lock do less than these.

### DnsConnPool and SharedConn

`st` holds the states of the pool, one per Reset; `dial` the `connectSingle` goroutines, each with
the connection it brings; `call` the callers from `acquireShared` to `Release` or `Invalidate`. Each
section under `p.access` is a step, and so is `closeState`, which runs after the lock. `IsAlive`
may say no at any time. The mapping to `SharedConn` takes the connection of the current state for
`shared` (none once closed) and the connections installed so far for `used`.

### QueryMultiplexer and ReuseProbe

`ex` holds the exchanges of a query, two because the retry after a read error may run beside the
first one, which still writes; `reg` is `m.queries` together with entries that
`completeContextDone` has taken and not finished; `reader` the `recvLoop` of each connection; `sent`
what the server knows, which it may answer late and more than once. Whether a context ended by its
deadline is decided when it matters.

In `ReuseProbe` each access to the two atomics is a step, except those only the holder of
`probeAccess` makes. `probe` has the probes with the epoch each was started in; `resetting` counts
the calls of Reset that have still to clear `demoteFailures`.

### SequentialExchange

`loop` is where `run` is at a candidate, `back` what has become of its callback, `returned` and
`continued` the `sequentialCallState`. `SeqAnswer` is `wrap`, which keeps a name error; `Accept` and
`Reject` are the two ways out of the callback, `Return` the return of the exchanger.

### DnsClient

`call` has the exchanges of one question with their place, the key they made and whose channel they
wait for; `lock` is `cacheLock`, `cache` the cache in memory, `refresh` the background refreshes. A
key differs from others only in its environment. `AnswerFitsNetwork` excepts a host that left and
came back between question and answer, which the comparison in the code cannot see.

## Runs

| Run | Instance | Shows |
|---|---|---|
| `xmux_pool` | 3 dials, 3 connections, limits of 1 concurrent stream, of 2 connections or none, 2 uses and 1 request of each, 2 calls of `release` for each stream | The usage count is exact, teardown is neither early nor forgotten, no connection is lost, pool and reuse keep their limits |
| `xmux_dial` | 2 dials beside a stream that is up, 3 connections that expire, breaker at 1 failure, back-off 1 with cap 2 | A waiting dial never sleeps past the cap, and every dial ends, also one whose window is extended, doubled or reset while it sleeps |
| `deadlines` | 4 calls on each deadline, 4 times | Both deadlines implement `Alarm`, under calls of `SetDeadline` too; the callback runs, and once |
| `conn` | a connection of each mode, one writer, 2 packets | Implements `XhttpHandle`; after a failure, the deadline and Close no body stays open, with one exception below; the pool slot is given back; Read and Write return; no numbered packet is dropped while the connection lives; a local end is not blamed on the server |
| `wg_session` | 2 devices, 2 handshake workers on one and 1 on the other, 3 indices, 4 events | Index table, keypairs and roles stay consistent; one initiation gives one session; the two ends of a session agree |
| `wg_outbound` | 2 callers, 3 packets in containers of 1 or 2, 2 keys of 2 nonces, one Stop and Start | No nonce twice, one owner for each buffer, an exact backlog counter, no wait that nobody ends |
| `dns_pool` | 2 callers, 2 dials, 1 Reset | One reader per connection, one dial at a time, no connection lost, no waiter forgotten; implements `SharedConn` |
| `dns_mux` | 2 queries, 2 connections, 3 ids | Each query is in exactly one hand until it is called back, gets its own answer, and never waits for an unread connection |
| `dns_client` | 3 calls, 2 networks and an unknown one, 2 moves | Of equal questions one goes to the server, nobody waits for a call that is gone, the cache does not mix networks |
| `xmux_gap` | 2 dials | Violated: "Retiring a connection must defer teardown until its last active stream releases it" (`xmux.go:22`). A dial is counted after `get` gave up the lock |
| `xmux_leak` | 2 dials | Violated: "connection was not closed after its last stream left" (`xmux_test.go:161`) can be reported: `CloseIdleConnections` runs once, while the last request may be open |
| `packet_expiry` | 1 writer | Violated: "A read deadline that expires on an XHTTP connection ends that connection" (`README.md:74`). Packet-up only closes its download |

**Bounds.** Three dials are the least with which one is in the gap between `get` and `Join` while
another evicts and a third releases, and two calls of `release` the least that could count twice.
`MaxEvents` bounds what happens to a stream (requests, `MaxRequests` of them, breaks and successes).
The clock of the pool stands still in `xmux_pool` and runs to 2, past the cap of the back-off, in
`xmux_dial`. For a dial to sleep again its window has to be extended by a second trip while the pool
is empty, so one connection must have been taken before the other two dials; `xmux_dial` starts
there (`DialStart`, reached from `PoolInit` by the dial of `Early`), and a success of one stream
resets the window under another dial. Which unopened connection `get` opens makes no difference, so
it is chosen (`NextConn`). `MaxTime` bounds the clock
of the deadlines, `MaxGeneration` the calls of set and stop (with four, a superseded timer, its
successor and a cleared deadline coexist). `MaxDials` 2 and `MaxResets` 1 let a dial of the old
state return beside one of the new state. Three ids are all that two queries over two connections
use: with `MaxIds` 4 the reachable states are the same, because who creates a connection does not
retry. A third query would be needed for a second retry of one query. Four events in `wg_session`
(ephemeral keys drawn, and ends of the keys) let two crossing handshakes complete. In `wg_outbound`
a queue of one container and two staged ones are full with three packets; two nonces for a key make
a container of two be split, and both callers overrun the limit. Two moves in `dns_client` bring a
host back to the network it left. Symmetry is used in runs without liveness properties only.

**Deadlock** checking is off: dials, connections and queries end, and then nothing happens. That
nobody waits for ever is a property where it matters (`NotStuck`, `DialReturns`, `AcquireReturns`,
`ReadEnds`, `WriteEnds`).

**Fairness.** Goroutines that are not blocked go on, and `context.AfterFunc` and timers fire. A dial
that asks for the manager's lock gets it in the end (strong fairness on `GetEvict`: a starving
`sync.Mutex` is handed over in order). RoundTrip, body reads and `dial` return once their context
has ended, and are not assumed to return before; every POST ends by its own timeout
(`conn.go:788`). Nothing makes a server answer, a caller call, or a deadline be set. `AcquireReturns`
excepts the state in which the bounded dials are used up.

## Proofs

All hold for any number of goroutines, connections, packets, calls and resets, and for all limits.
The assumptions are the named ASSUMEs: finite sets with null values outside them, limits that are
naturals, a positive breaker threshold, an initial back-off within its cap, two devices in
`WgSession`, the three modes of `dialMode`, and for the nonces a limit that leaves every goroutine
one draw before the counter wraps (the limit of the code is 2^13 + 1 below 2^64). The modules
without a run have none; the theorems on `SequentialExchange` suppose at least one candidate (the
code returns at once for none), and those on `ClientBind` that the names of the roles are no
senders' (`NamesApart`). Where a run checks the property, the theorem names the same definition.

**The connection pool of XHTTP** (`TransportProofs`). `TypeCorrect` proves types together with
`StreamsInv` (the stream between the halves of `get` is the one that holds the lock; only a stream
past `get` has a connection; only an ended one has called `release`). `PoolCorrect` proves `UsageExact`, `RetiredIsTornDown` and
`NoConnectionLost` together as `PoolInv`: the count alone is not inductive, because the teardown
test reads it and a retired connection must be known to be one that was opened. The lemmas on
`Holders` say how `Join` and what gives a connection back (`GivesBack`: the failed dial and the first
`release`) change the cardinality, and that later calls of `release` do not. `RetiredAreTornDown`,
`PoolKeepsConnections` and `TeardownSafe` follow. `PoolBounded` needs `SizeInv` (never both limits),
`ReuseBounded` needs `ReuseInv` (what is left and what was handed out add up, and nothing in the
pool is spent between the halves of `get`), `WaitIsBounded` needs `WindowInv`.

**The deadlines** (`XhttpConnProofs`). `StartedInv` says that a fired timer of the current generation is
due; with it come `CallbackIsOnce` and `ReadDeadlineImplementsAlarm`. `WInv` says it of the write
deadline, and `PairStep` that a step of `Deadlines`, the halves of SetDeadline included, is a step of
each deadline or leaves it alone; so `WriteDeadlineImplementsAlarm`, and `ReadDeadlineBesideWrite`
gives the first two theorems for the specification that the run checks.

**Stream connections** (`XhttpConnProofs`). `ConnInv` is the invariant of a connection of any mode.
Its common part, `ConnOK`, follows the response body (`BodyInv`: once published, whoever ends the
connection sees it; one that came too late is on its way to be closed) and the causes of an end
(`EndInv`: the context ends before the release, and a Read fails by something that was recorded).
Each mode adds what its own cleanup needs: `OneInv` (fail runs on the request goroutine; Close has
closed the body or did not find it), `UpInv`
(whoever sets `terminalErr` starts the one cleanup; a timer armed after it belongs to a SetDeadline
that will look again) or `PInv` (the cleanups belong to a connection that has failed, a body they
did not find is closed when it comes, and `Numbered` packets). The actions are shared, so each is looked at once for `ConnOK` and once for the part of
its mode. `EndLeavesNothingOpen`, `LocalEndsNotBlamed`, `ConnHasNoGap`, `ConnUploadsEndFirst` and
`ConnImplementsHandle` follow for `ConnSpec`, the connection `dialMode` returns; `NoGap`,
`UploadsEndFirst` and `PacketConnImplementsHandle` say the same of `packetConn` by itself.

**Handshake and keypairs of WireGuard** (`WgSessionProofs`). The actions are first reduced to the
few ways in which they change the index table and the keypairs. `TableInv` has `NoOrphan`
unconditionally, and `SlotOk` (the handshake under way has its index; no keypair is in two slots)
with `Reachable` as long as nothing overtaken was applied (`stale`), as the properties have it. From
it come `TableHasNoOrphans` and `KeypairsAreReachable`. `ConfirmInv` follows a key from the
initiator, who derives it first, through the data message that shows it, to the responder that
promotes it; from it comes `ResponderWaits`.

**The two ends of a session** (`WgSessionPairProofs`). `DrawnInv` bounds the ephemerals in every
message, handshake and key by what was drawn, and those a responder has answered by its
`lastTimestamp`; so what is drawn next is new to everybody. `FreshInv` says that no session was made
of the initiation a handshake is about; `InitiationUsedOnce` follows. `PairInv` says that whoever
knows the index of an initiator, or of a responder, in a handshake, be it a message, a worker, a
handshake or a keypair, knows the same one; `SessionEndsAgree` follows.

**The outbound path of WireGuard** (`WgOutboundProofs`). `NoncesDiffer`: the counter of a keypair is
ahead of every nonce that was drawn until it passes the limit; after that it can exceed the limit by
one for each caller that is on its way to store the limit back, so it does not wrap.
`BuffersHaveOneOwner` rests on `OwnInv`: goroutines, staged queue, outbound queue and sender share
no packet (`Owners`), a goroutine holds nothing where the code has given it away (`Tidy`), and a
container that is not sealed is one the sender still waits for or will take (`Sending`). The lemmas
on `Range` say which packets a queue has after a send and after a receive.

**The client bind** (`TransportProofs`). `Channels` says which channels and contexts are closed at
each place of the device, `Locking` who is inside `connAccess`, `Sockets` that `c.conn` is replaced
only once it has ended. From them come `BindLeavesNoSocket`, `CloseIsNotStuck`, `SocketClosedOnce`
and `ReceiverGoesOn`.

**The connection pool of DNS** (`DnsConnPoolProofs`). `PoolInv` says of each state that its
connection is the one of its last dial, installed and not cancelled (`StateInv`), and of each dial
that it is the one its state waits for (`DialInv`). With it come `OneCallerStartsReading`,
`DialsAreShared`, `PoolLosesNoConnection`, and `PoolImplementsSharedConn`, the safety part of the
refinement: every step of the pool is one of `SharedConn`, or none.

**The multiplexer** (`QueryMultiplexerProofs`). `IdInv` says that ids are not given out again, so
whoever remembers one knows whose it is; `ReadInv` that a connection which was handed out has a
reader for as long as it is shared; `HandInv` is `OneHand` without counting, which the lemmas on
cardinality turn into the property. From `MuxInv`, all of them, come `QueryInOneHand`,
`AnswersAreOwn` and `PendingQueriesAreRead`.

**The DNS client** (`DnsClientProofs`). `NoneForgotten` and `FlightsShared` rest on `LockInv`: the
channel of a key belongs to the call that made it, which has not released it. `NetworksApart` rests
on `NetInv`, which follows the network of an answer from the question through the call to the cache.

**The reuse probe** (`DnsClientProofs`). `ProbingEnds`, `ReuseEarned` and `CountCleared`: a state of
probing has its probe, a verdict has its epoch, and a count at the limit has its reader.

**Exchange over several candidates** (`DnsClientProofs`). `AskerCalledOnce`: the exchange is in the
hands of exactly one candidate (`Holds`), and the candidates after it are untouched (`InTurn`), until
it is delivered. `NameErrorsKept` rests on `Keeps`: the answers that count are those that were kept.

**Only model-checked.** Every liveness property, and with them the fair parts of the refinements
(of `ImplementsFairAlarm`, and `ReplacedEnds` in `ImplementsSharedConn`): TLAPS does not reach
fairness. `NotStuck`, which is about ENABLED. `QueuedExact`, whose right side is a sum over the
goroutines: how a sum changes with one of its terms is an induction over data. Liveness of the
multiplexer is not checked, because its instance is too large for it; `OneHand` and `PendingIsRead`
say that somebody is always there to act.

## Limits of the models

* HTTP/2, TLS and the network are external: a request or a read may fail or succeed at any time.
* Query ids do not wrap; a late answer meets another query after 2^16 registrations.
* A Write of an established stream-one or stream-up connection whose stream breaks in the transport
  is not woken by the models' properties: `readCloser` does not pass the close to the pipe.
* `SplitConn` has no Write, and a POST has no error path for a request that cannot be built
  (`conn.go:791`): the URL was built before, for the download.
* `XhttpHandle` knows that a connection was given back, not how often; that it counts once is
  `UsageExact` of `XmuxPool`.
* The callers of `WgOutbound` are those of `InputPacket` and `InputPackets`, one container at a
  time; the TUN reader, which does not look at the backlog (`send.go:513`), is left out. A push to
  the full staged queue and a flush of it are one step each.
* `WgSession` replaces the handshake's index entry and rotates the keypairs in one step
  (`noise-protocol.go:692`).
* `ConnPoolOrdered` (no user) and `nextPostDelay`'s clock are left out.
* `ClientBind.connect` reads `c.conn`, `c.done` and `c.bindCtx` while others write them: the model
  lets it see the old or the new pointer, and what a pointer leads to complete.
* An index of 0, which `localIndex` takes for none, is not drawn in `WgSession` (one draw in 2^32).

The models contain, and the properties allow, what the code does not rule out: a response that comes
after Close of a stream-one connection is published all the same (`conn.go:364` does not look for a
Close, as `conn.go:484` and `conn.go:652` do), and its body is left to the context, which has ended
(`CameAfterClose`); a context that ends by itself leaves the body to Close; two handshake workers
that checked the same message both apply it (`stale`), and Start resets the backlog under a goroutine
that still counts (`straddled`); a success that was
read late resets a newer back-off (`xmux.go:104`); a Read that fails after the caller's own write
deadline counts against the server (`conn.go:323`); `SetReadDeadline` after Close arms a timer whose
callback finds everything closed (`conn.go:443`); containers pass each other between the staged and
the outbound queue (`send.go:40`); when the owner of a question fails, every waiter goes to the
server (`client.go:339`); `loadResponse` may remove a fresh answer together with the expired one it
found (`client.go:612`); an answer that is on its way is stored after `ClearCache` (`client.go:498`).

## Not modelled

* **Pure functions**: XHTTP metadata and padding (`meta.go`, `xpadding.go`), options and their
  validation, AmneziaWG packet framing, DNS rules and messages. They have no state and work on
  strings and bytes, which a model would only transcribe.
* **The rest of the WireGuard device**: inbound queue, cookies and rate limits, allowed IPs and the
  configuration interface; and `endpoint.go`, which builds the device and brings it up and down.
* **Managers, DNS transport manager, box**: registries under a lock, and a fixed order of stages.
* **Groups, router, connection manager, network manager**: the concurrent part is small beside the
  network I/O and the platform calls around it.
* **Protocols, dialers, TLS, other V2Ray transports, cache file, APIs, commands**: libraries, system
  calls, an embedded database and front ends.
