# Verification of hongda-core and of the Windows client around it

TLA+ specifications of the Go proxy core in `src/hongda-core/` and of the parts of the
Windows client in `src/windows/` that start, supervise and clean up after it; the TLC runs
that check them on small instances, and TLAPS proofs of their safety properties for
every value of the constants. Paths that begin with `windows/` are relative to `src/`, the
others to `src/hongda-core/`.

## 1. The system

The core is one process. Applications reach it through a **mixed inbound** (SOCKS5 and
HTTP CONNECT, `inbound/mixed.go`) or a **TUN device** (`tunnel/`). The **router**
(`route/router.go`) decides for every flow which outbound carries it, by rules, **rule
sets** (`ruleset/`) and **groups** (`strategy/`: manual selectors and URL tests), and dials
it. **Outbounds** (`protocol/`) are direct, Trojan, VLESS, and the two QUIC protocols
Hysteria2 and TUIC. Names are resolved over **DoH** with a cache, a connection pool bound
to the selected node and a reverse table from addresses to domains (`route/dns*.go`).
Every flow is listed in a **registry** (`telemetry/traffic.go`) that the **control API**
(`api/controller.go`) shows and closes. A **runtime** (`core/runtime.go`) builds, starts
and stops all this: it prepares the rule sets, opens the listeners, then the TUN device.

On Windows a **service** (`windows/service/main.go`) supervises one core per connection.
The desktop application starts the service through its **controller**
(`windows/lib/src/singbox_controller.dart`), which also sets and restores the **Windows
proxy** (`windows/windows/runner/flutter_window.cpp`), and keeps its settings and nodes in
JSON files through its **storage** (`windows/lib/src/storage.dart`).

What is hard to test in the core is the concurrency: every flow has goroutines of its own,
the control API switches nodes and closes connections underneath them, and almost every
operation releases its mutex while it dials. What is hard to test around it is failure: a
process that is killed between two steps leaves files, registry keys, routes and other
processes behind, and the next one has to cope with them.

```
 application --- mixed inbound / TUN ----- router ------ outbound ---- server
                    |      |                |   \           |
              SocksUdp  TunUdp        Connections DnsExchange  QuicSession
                                            |       |
                                        control API (switch, delete, log)

 user --- desktop controller --- service --- core process: runtime
           |        |               |          |      |        |
     AppStorage  SystemProxy  HongdaService RuleSets TunManager DnsPersistence
           \________|_______________|          \______|________/
             DesktopController                   CoreRuntime
```

`PROJECT.json` lists every part with its sources, including those not modelled.

## 2. Modules and the code they stand for

| module | code | proofs |
|---|---|---|
| `QuicSession` | `protocol/hysteria2.go` (`tuic.go` has the same structure) | `QuicSessionProofs` |
| `SharedSession` | the promise of `session()` to its callers (abstract); `QuicSession` implements it | |
| `UdpFragments` | `protocol/hysteria2.go` and `tuic.go`, the UDP connections' `Write` and `Read` | `UdpFragmentsProofs` |
| `DnsExchange` | `route/dns.go` | `DnsExchangeProofs` |
| `Connections` | `route/router.go` (dial, pipe), `telemetry/traffic.go`, `api/controller.go` | `ConnectionsProofs` |
| `TunUdp` | `tunnel/handler_windows.go`, `NewPacketConnectionEx` | `UdpRelayProofs` |
| `SocksUdp` | `inbound/mixed.go`, `handleUDPAssociate` | `UdpRelayProofs` |
| `UdpRelay` | the promise of a UDP relay about its upstream connections (abstract); `TunUdp` and `SocksUdp` implement it | |
| `RuleSets` | `core/runtime.go` (`PrepareRuleSets`), `ruleset/loader.go` | `CoreProofs` |
| `DnsPersistence` | `route/dns_persistence.go` | `CoreProofs` |
| `TunManager` | `tunnel/manager_windows.go` | `CoreProofs` |
| `CoreRuntime` | `core/runtime.go`, `cmd/hongda-core/main.go`; composes the three above | `CoreProofs` |
| `SystemProxy` | `windows/windows/runner/flutter_window.cpp` (proxy functions) | `DesktopProofs` |
| `HongdaService` | `windows/service/main.go`, `job_windows.go` | `DesktopProofs` |
| `DesktopController` | `windows/lib/src/singbox_controller.dart`, `app.dart`; composes the two above | `DesktopProofs` |
| `DurableFile` | the promise of a stored file (abstract) | |
| `AppStorage` | `windows/lib/src/storage.dart`; implements `DurableFile` | `AppStorageProofs` |
| `Subsequences` | loops that append the entries they keep to a new slice; used by `UdpFragments` and `DnsExchange` | |

`MC<module>` gives the constants of the runs as model values. An operator named
`<Action>_<Change>` stands before the action of that name and is the action with a
plausible mistake; no specification uses it. `PROJECT.json` pairs each with the property
that it breaks.

**QuicSession.** Callers of `DialContext` share one cached session or, for UDP, own one
each. State: `closed`, `sess` and `dialing` are the outbound's fields; `live` and `sockets`
say which QUIC connections and sockets are open; `signalled` is the set of closed `pending`
channels; `pc`, `id`, `udp`, `held` are a caller's locals. A session and a pending channel
are named by the number of the call that made them. `session()` is split where it releases
the mutex: `EnterClosed`, `EnterCached`, `EnterMiss` are its first critical section,
`PublishError`, `PublishClosed`, `PublishSession` its second, and `OpenSocket`, `DialQUIC`,
`AuthAccepted`, `AuthFailed` the stages of `dialSession` in between, each of which can fail.
`ConnectionLost` and `ContextDone` are the environment's.

**SharedSession** is what `session()` looks like to the TCP dials, with everything between
its two critical sections gone: a caller asks and is given the session that is up, or, when
there is none, a new one (`Make`, which the network may take away at once), or is refused.
`QuicSession` maps its session to the cached one if it is alive (`Current`), the sessions used
so far to the closed `pending` channels, and a caller that holds a result of `session()` to
one that uses it. `Share` and `Receive` carry the promise: nobody is given a session that was
down already, or any after `Close`.

**UdpFragments.** One direction of a UDP session: `Write` takes the next packet number and
sends chunk after chunk, of which any may fail; the network loses, repeats and reorders
datagrams; `Read` feeds them to `handleIncomingDatagram` (`ReceiveSingle`, `ReceiveBeyond`,
`ReceivePart`, `ReceiveLast`, by what it finds) and hands a packet out in pieces of its
caller's buffer. The unit of data is a chunk. The peer, which is not part of the repository,
is taken to cut packets as `Write` does. Hysteria2 and TUIC differ here only in the treatment
of a fragment count of 0, which `Write` never sends.

**DnsExchange.** `exchangeDoHCached`, from reading the selected node (`Ask`) through
`dohHTTPClient` (`AcquirePool`), the message cache (`Hit`, `Miss`), merged queries
(`Followed`, `GiveUp`), the exchange (`Query`), the store with eviction (`Store`) to the
reverse table (`Remember`); beside them the node switches with and without invalidation,
`InvalidateDNSConnections`, and time. Time runs in half seconds, so that the rounding of
`ageDNSResponse` to whole seconds is visible. The limits 4096 (messages), 8 (domains per
address) and 10 minutes are constants. An answer carries the node it came through and the
instant the server's TTL ends; the code keeps neither, the properties need both.

**Connections.** Handlers dial, register (`AddDetailed`), pump two directions and
deregister (`Remove`); the control plane spawns `CloseAll` goroutines whose snapshot and
closes are separate steps, and polls the log by cursor. Peers are free to end, break or
stall a stream. The dynamic types of the two connections are modelled because `closeWrite`
asks for a method by a type assertion. The node a stream goes through is left out: DELETE
closes the streams of every node.

**TunUdp.** One flow: the packet loop, the peers map, one goroutine per peer, `closeAll`
in its two halves (device side; peers under the mutex) behind a `sync.Once`, and the
registry's closer.

**SocksUdp.** One association: the datagram loop, the session map with the mutex that is
held across a dial, `removeSession` called by the loop and by the session's own goroutine,
and `close()` in its three steps.

**UdpRelay** is what the two have in common: packets are taken one at a time, the one in hand
may get a new upstream connection, and a close, which takes place between `BeginClose` and
`EndClose`, lets no further packet be taken. It ends every connection but at most one, dialed
by the packet then in hand. In the code the two differ in their locking (`getPeer` dials
without the mutex, the association with it) and in who closes what; the mappings (`Phase`,
`InHand`, `Up`, `Used`) say where each stands.

`QuicSession`, `DnsExchange`, `Connections`, `TunUdp` and `SocksUdp` meet at the control
API: the selector and its invalidation are in `DnsExchange`, DELETE in
`Connections`, and the closer that DELETE calls is `Deleted` in `TunUdp`. They share no
other state in the code (the caches, the registry and the sessions each have a mutex of
their own), which is why they are checked apart.

**CoreRuntime** and its parts are one process after another. `main` is where the main
goroutine is, from `Launch` (Build) through `Prepare`, `Listen` and `StartTun` to
`running`, and through `Close`, `CloseStarted` and `CloseRouter` to `stopped`; the command
`check` goes from the preparation straight to `Close`. Beside it run the goroutine of every
rule set (`RuleSets`: a slot, the cache file, the sources with their retry, the cache
write, the buffered result), the writer of the DNS cache (`DnsPersistence`: the snapshot
under the mutex, the temporary file, remove, rename), the stages of the TUN manager
(`TunManager`) and the URL test (`refresh`). `Killed` ends the process anywhere: its memory
goes, the files stay, the routes go with the adapter but its address stays (`stale`), and
the next process finds them so. The contents of the DNS cache are numbered by the answers
stored; a rule set's cache file is missing, stale or fresh.

**DesktopController** is the Dart event loop, one step from one await to the next. `flow`
is the activation of `start()` or `stop()` (the button, the automatic reconnection or a
switch of the node began it), `cb` the exit callback of every process the controller
started; they interleave at every await and share `status`, `proc` (`_process`), the
proxy and `config` (the file with the nodes' credentials). **SystemProxy** has the registry
value (`reg`), the two snapshots in the registry (`snap`, `tunSnap`), the copy in the process
(`held`) and the two registry writes of `SetSystemProxy` as separate steps (`half`), with
users and other programs changing the setting between calls. `ChangeTun` is the TUN switch
of the settings, which is disabled only while a connection runs: `start()` reads it twice,
before it suspends the proxy and again when it comes to set its own. **HongdaService** has a
supervisor, its core and its stdin for every process; `Attach` is the moment from which the
job ends the core with its supervisor. `DeleteConfig` is `deleteRuntimeConfig`, which swallows
the error of a deletion that fails. `Crash` and `Quit` end the application, the latter with
the native clean-up of `OnDestroy` and perhaps with `dispose()`, which kills the current
process and begins a deletion it does not wait for; `AppStarts` is `OnCreate` with its
recovery.

**AppStorage** performs one file operation a step, copies and writes in two, so that a
crash finds them half done (`Torn`). Saves wait in `_writeQueue` and carry version numbers. A
load goes from candidate to candidate (`source`): `Load` reads and decodes one, `Skip` passes
over one that is absent, does not decode or whose read throws, and `Recover` and `Restore` put
the one that was read in the place of the file.
**DurableFile** says what that is to achieve: there is one version to load, it is acknowledged
only when it is that one, it is lost only after two faults, and it moves forward, except when
a load fails to read a file that is whole (`misread`) and puts its backup there (`Revert`); for
a sensitive file not even that happens at the first fault. `Refines` maps `val` to
`Recovered(disk)`, what `_readJsonWithRecovery` returns when every file can be read.

## 3. Runs

Passing runs, each with every property it checks:

| run | instance | states | properties |
|---|---|---|---|
| `quic_session` | 3 callers, 3 calls, own socket | 83 k | SingleFlight, NoOrphanSession, StreamsOnCachedSession, SharesOneSession, DialAnswered, ClosedDrains |
| `udp_fragments` | 3 packets of up to 3 fragments, 2 packet numbers, 1 repeated datagram | 1.05 M | Intact, NoReplay, CompleteIsDelivered |
| `dns_exchange` | 2 clients, 2 nodes, 3 calls, 1 switch, 1.5 s | 1.24 M | TypeOK, AnsweredBySelectedNode, OnlyCurrentPoolLive, FlightsHaveLeaders, FollowerHasLeader, ReverseWithinTTL |
| `connections` | 2 handlers, 3 connections, history of 2, limit of 1, 1 DELETE, 2 polls | 264 k | RegistryExact, NoTruncation, LostOnlyToLimit, HalfOpenSurvives, DeleteInterrupts, FailureReleases |
| `tun_udp` | 3 destinations, 4 packets | 3.1 k | ImplementsRelay, TeardownCompletes, TeardownEndsGoroutines |
| `socks_udp` | 2 keys, 3 sessions | 35 k | OpenIsReachable, NoDeadSession, ImplementsRelay, CloseCompletes, RelaysReturn |
| `core` | 2 rule sets (1 optional), 1 slot, 2 sources, 2 listeners, 2 answers, 2 processes, 2 faults | 243 k | TypeOK, NotHalfConnected, FailureHasCause, DnsCacheSaved, Returns |
| `desktop` | 2 service processes, 1 reconnection in a row, 2 outside events or failed deletions | 462 k | TypeOK, UserProxyKept, NoOrphanCore, ConfigRemoved, ActivationReturns |
| `app_storage` | 3 saves, 2 queued, 5 faults; plain and sensitive | 27 k | Refines |

What they show:

- The QUIC session cache is single-flight, never loses a connection or socket in any
  failure of a dial, releases every waiter, and drains after `Close` even when a dial was
  under way. To its callers it is the atomic source of one session that `SharedSession`
  describes.
- A UDP packet that is put together from fragments is exactly a packet that was written,
  whatever was lost, repeated or reordered, unless two packets a whole round of the packet
  numbers apart had fragments received. Then they can be joined, and the run reaches that:
  nothing drops an entry whose other fragments were lost. No chunk is returned more often
  than it arrived, and a packet that arrived completely is returned and leaves no entry.
- A DNS answer always comes through the node selected when the question was asked, also
  from the cache and from another caller's query; an invalidation reaches every exchange in
  progress; no merged caller is stranded; TTLs are never stretched by a second or more.
- The registry lists exactly the streams that carry traffic; a clean end of one direction
  neither closes nor half-closes what the other still uses; DELETE interrupts what it found;
  one failed direction releases the whole stream. The log is not complete (see below): it
  misses closed rows, but only in a poll that finds more of them than it asks for.
- A TUN flow and a SOCKS association implement the same `UdpRelay`: one that is closed during
  a dial leaves at most one upstream connection open. It removes its row or leaves its owner,
  and ends its goroutines, but for that of the connection left open.
- The system's routes lead into the TUN device only while everything behind it is up, also
  while Start rolls back and Close takes down; a failed Start and a Close leave nothing open.
  A start that fails because of a rule set blames one that is really unusable, not one that
  was cancelled because of another, and an address left by a killed core does not fail the
  next start. DNS answers are never both unsaved and unmarked, and an orderly Close has
  saved them. Start and Close return.
- However connections end (disconnecting, a failed start, a service that dies, even while
  `start()` finishes, a crash of the application and its next start), the Windows proxy is
  the one its users last chose, no core is left without its supervisor, and `start()` and
  `stop()` return. The configuration file with the nodes' credentials is gone unless a
  deletion failed, which nobody is told and nothing retries before the end of the next
  connection, or the application ended during a connection (`leftover`).
  Other windows remain, and the properties name them: a crash between the two
  registry writes of `SetSystemProxy(true)`, or of `SetSystemProxy(false)` while a setting
  is still suspended because TUN was switched off during `start()` (both `torn`), and a
  supervisor that dies between starting the core and attaching the job (`early`). All this
  is for one activation at a time: what activations that overlap do to one another is not
  modelled (section 5).
- A stored file is durable in the sense of `DurableFile`. One crash or failed operation, a
  failed read included, never loses all the data, and for a sensitive file never a save that
  was reported done. A plain file may go back to the version before: its backup is one save
  old, and a load that fails to read the file replaces it by the backup. A load that can read
  nothing leaves the disk alone; the application then goes on with its defaults, and its next
  save replaces the data like any other.

### Disagreements between documentation and code

Each of these runs checks one sentence of the repository that the code does not keep; TLC
prints the interleaving.

- `dns_association`: merged callers get their answer before the address is associated with
  the domain (`route/dns.go:281-284`), though `CHANGELOG.md:107` promises that a connection
  that carries only the address still matches domain rules.
- `log_complete`: when more connections close between two polls of the log than it asks for,
  the older rows are never delivered. `HistorySnapshotSince` returns the newest rows up to
  the limit and a cursor past all of them (`telemetry/traffic.go:167`, `:173`), and the
  desktop asks for 250 of the 1000 rows kept (`singbox_controller.dart:1623`), though
  `windows/CHANGELOG.md:162` says that `/connection-log` guarantees a complete history.
  `LostOnlyToLimit` says that nothing else is missed.
- `tun_leak`: a peer whose dial ends after `closeAll` is inserted and never closed
  (`tunnel/handler_windows.go:126`), though `CHANGELOG.md:156-157` says DELETE closes the
  old node's TUN sessions. `ImplementsRelay` bounds the loss to one per flow.

Some further observations. A stream whose dial is under way while DELETE takes its snapshot
registers afterwards and stays on the old node; `DeleteInterrupts` speaks only of the
connections DELETE found.

A clean end of the client's data is not forwarded to the server: the wrapper around the
upstream connection hides `CloseWrite` from `closeWrite` (`route/router.go:269`, `:729-733`),
while `windows/V1.6.26_PERFORMANCE_FIX.md:9` speaks of the half-close logic for a normal EOF.
In the model no run ever shuts an upstream side.

`windows/CHANGELOG.md:73-74` lists the destruction of the application among the occasions at
which the configuration file is removed; `dispose()` begins that deletion without waiting for
it (`singbox_controller.dart:2014`), and `OnDestroy` may end the engine first. The model has
both outcomes, and `ConfigRemoved` excepts them.

When the service exits while `start()` awaits the reply of its last native call, the exit
callback reports the error and then `start()` sets the status to running, without a process
(`singbox_controller.dart:641`); the reconnection that the callback brings about is then
refused because the controller is running. The model contains this; the proxy is restored
all the same (`UserProxyKept`).

### Bounds, and why they suffice

- Three callers are a leader, a waiter and a third that arrives after either has left; three
  calls let a session be dialed, lost and dialed again while a UDP session exists.
- Two packet numbers and three packets make the third packet reuse the number of the first;
  counts of up to three give reuse with an equal, a smaller and a larger count, and four
  chunks are one too many. One repeated datagram is enough to come before or after its
  packet is complete. A Read buffer of one or two chunks leaves a rest or none.
- In `dns_exchange` a leader, a follower or a later reader of the cache, and one switch
  give every order of pool creation, invalidation and answer. TTLs 0 to 3 lie on both sides
  of the cap (2) and of the end of time; caps of 1 make every store evict. There is one
  domain: keys differ by node. `dns_association` has caps that never evict, so that its
  counterexample is not an eviction.
- In `connections` three connections are one that DELETE finds, one that it misses and one
  more than the history's two rows, so that a removal drops the oldest; a limit of one row
  makes a poll pass over the other, and the second poll shows what is out of reach. One
  DELETE: the liveness of an instance with two does not finish in five minutes; the theorems
  hold for any number of them.
- Three destinations and four packets let a flow have open, closed and missing peers at once
  and return to a known one. Three sessions of two keys let a key be replaced while the old
  session's goroutine still has to remove itself.
- Two rule sets with one slot make a set wait for another, one of them optional; with three
  sets and two slots, the code's number, the same properties hold (1.44 million states, six
  minutes, not kept as a run). Two processes are one that leaves something behind and one
  that finds it; two faults let a roll-back fail on top of a kill. Two answers let one be
  stored while the other is being saved.
- Two service processes are the one that dies and the one that replaces it. The limit of one
  automatic reconnection in a row (three in the code) is reached within them. Two events
  from outside are a crash and an edit of the proxy, a dying service twice, two crashes, or a
  failed deletion with any of these.
- Three saves are the one on disk, the one being written and the one waiting. Five faults
  are as many as it takes to lose the file and its backup and then fail to rename the
  temporary file of the next save, the rarest path of `_atomicWrite`.

Model values are used without symmetry where liveness is checked. Deadlock checking is off
in the runs whose calls are bounded and whose clients then simply stop (`quic_session`,
`udp_fragments`, `dns_exchange`, `dns_association`, `core`, `desktop`, `app_storage`); the
others state the end as a stuttering step (`Finished`, `Stopped`), so a handler stuck
anywhere else is reported.

### Fairness

Weak fairness is assumed of goroutines that can run: nothing is assumed of clients, peers
or servers. In particular a dial ends (each has a deadline: 15 s in the router, quic-go's
handshake timeout), an I/O call on a closed socket returns, and a spawned goroutine runs. A
copy loop or reader on *open* sockets may block for ever. Strong fairness occurs once:
`RemoveByRelay` of `SocksUdp` waits for a mutex that the loop can take again and again for
failing dials; Go's `sync.Mutex` hands itself to a waiter that has waited for a millisecond
(starvation mode), so the waiter is not passed over for ever.

In `core` the main goroutine, the TUN stages, the URL test, the writer and each rule set's
goroutine are weakly fair: downloads have a timeout of 60 s, the calls of `netsh` of at most
5 s, a test of 15 s, and file operations return. Signals, clients and faults are not
assumed. In `desktop` the activation, the exit callbacks and the native side are weakly
fair, because every await of `start()` and `stop()` has a timeout; nothing is assumed of the
supervisors, which may hang for ever.

## 4. Proofs

The proofs have one shape: an inductive invariant, lemmas that the initial states satisfy it
and that every action keeps it, with one case per action, and one theorem per property.
Where components are composed (`CoreProofs`, `DesktopProofs`) the invariant is split by the
variables its parts speak of, and an "untouched" lemma deals with all the actions that leave
those alone. `USE ZenonT(30)` at the head of each proof module makes Zenon the prover of a leaf
that names no other; leaves with arithmetic or large case splits name `SMT`. The constants
are assumed to be what the `ASSUME`s of the modules say; sets of callers, destinations, keys
and processes are arbitrary, rule sets are any finite set, and the bounds on calls, packets,
sessions, saves, answers, processes and faults are arbitrary naturals.

- **QuicSessionProofs** (`TypeCorrect`, `SingleFlightHolds`, `NoOrphanSessionHolds`,
  `StreamsOnCachedSessionHolds`, `WaiterHasLeaderHolds`, `Refinement`, `DrainedForGood`). The
  properties are not inductive alone. `Flight` ties `dialing` to the one leader and says that
  nothing is cached while there is one: this is what makes `PublishSession` overwrite no live
  session. `Numbers` says call numbers are unique and that a number whose dial has opened
  nothing names nothing open; `Local` what a caller remembers at each stage. The refinement
  needs one thing more, `Fresh`: the number of a call that `session()` has not answered is not
  among the closed `pending` channels, so the session `PublishSession` makes was never used
  before. `Seen` and `AloneSeen` say how a caller looks through the mapping and that a step of
  one caller changes the look of no other; UDP callers stay outside. `DrainedForGood` shows
  that after `Close` and the end of the dial no shared session is up or can come up.
- **UdpFragmentsProofs** (`Invariance`, `IntactHolds`, `NoReplayHolds`,
  `CompleteIsDeliveredHolds`), for any number of packet numbers, fragments, writes and repeated
  datagrams. `Numbering` and `Transport`: packets with the same number are a multiple of
  `IdSpace` apart, and every datagram on its way or received is one of a written packet.
  `Table`: a part in the table is the chunk of its index of a packet with that number, received
  before, and the counter is the number of filled slots. So a packet joined when the counter
  reaches the count has all its slots filled (`JoinedWhole`), and is the written one or mixes
  two that share a number: `Streaming`, which also says that what Read returned, with its rest,
  is the packets put together one after the other. `Copies`: what was returned of a chunk and
  what lies in the table are together at most the copies received, which is the reason for
  deleting the entry before the packet is handed out. `Progress`: as long as nobody else used
  its number, the table holds exactly what has arrived of a packet, until that is all of it and
  the packet is delivered.
- **UdpRelayProofs**, for `SocksUdp` (`TypeCorrect`, `OpenIsReachableHolds`,
  `NoDeadSessionHolds`, `RelayRefinement`, `AtMostOneSurvivorHolds`, `LoopWindsDown`) and, as
  an instance `Tun`, for `TunUdp` (`TunTypeCorrect`, `UntrackedIsClosedHolds`,
  `TunRelayRefinement`, `TunAtMostOneSurvivor`, `TunLoopWindsDown`). `OpenIsReachable` rests
  on the identity test of `removeSession` and on `DialedIsFree`: the mutex keeps the key of a
  dial free. `LastDial` is the argument for the refinement, and for the survivors, in both:
  after `close()` or `closeAll` the loop can be past its last successful read at most once,
  and until it inserts, nothing that was missed is open. For the TUN, `ClosedWithOnce`
  connects the device side with the `Once`, and `DialedIsNew` says a dialed destination has no
  peer yet. `StepsLeft` bounds the steps a loop can still make once the close has begun and
  decreases with each of them.
- **DnsExchangeProofs** (`TypeCorrect`, `AnsweredBySelectedNodeHolds`,
  `OnlyCurrentPoolLiveHolds`, `FlightsHaveLeadersHolds`, `FollowerHasLeaderHolds`,
  `ReverseWithinTTLHolds`). Everything rests on the numbers of the calls (`Numbers`): a call
  that has not made its pool yet names none, so a new pool is never a cancelled one. `Flights`
  gives every listed flight one leader with the same key. `Messages` says a cached message is
  of the node of its key, and `Origin` that a pool and a reply are of the scope of their call;
  together they leave an answer no way from one node to a caller of another. `Bounded` is the
  cache's limit. `Times` has the ages: `ageDNSResponse` rounds an answer's age down to whole
  seconds, so what is left of it ends less than a second after the server's TTL, and serving
  it again from the cache starts from the same instant. The filter loop drops the older record
  of the same domain and scope, so `Table` has one of each.
- **ConnectionsProofs** (`TypeOKHolds`, `RegistryExactHolds`, `HalfOpenSurvivesHolds`,
  `NoTruncationHolds`, `LostOnlyToLimitHolds`, `ClosedIsReleased`). `RowInv`: a handler
  has an ID exactly while it is in `pipe`, and nobody else has the same, so `Remove` takes its
  own row and no other. `StreamInv` has the copy loops; `CloseReason` goes through the
  actions that close a socket. For the log, `EventInv` keeps every row's revision and the
  cursor at most the event counter, so a row that is closed later gets a revision past the
  cursor; `PollReports` says a poll with room for all that wait reports all of them. `CountInv`
  counts the events: one per open row, two per closed one, which bounds the counter.
  `ShapeInv` ties a closed stream to the loops its handler waits for; from it
  `ClosedIsReleased`: a failed loop has closed both sockets, and from then on the handler only
  moves towards `Remove`. `ShutInv` adds that a handler outside `pipe` has nothing shut, so
  that a new stream starts whole.
- **AppStorageProofs** (`DiskInvariant`, `TypeCorrect`, `Refinement`, `OneFault`).
  `SaveInv` says which of the three files holds which version at every point of a save,
  `LoadInv` how many faults it took a load to come where it is, `FaultInv` where the data is
  after at most one fault, `QueueInv` that waiting versions increase and are newer than
  anything on disk. `NewestInv` orders the three files: the temporary one is the newest, and
  a sensitive file and its backup differ only after two faults, which is why a misread alone
  does not move it back. `VersionStep` then shows that every step either leaves what there is
  to load, moves it forward, moves it back after a misread, or loses it after a second fault,
  and `MisreadStep` that a file is misread from a failed read to the end of that load; the
  refinement follows step by step.
- **DesktopProofs** (`TypeCorrect`, `NoOrphan`, `ConfigDeleted`, `UserProxyIsKept`). `CoreInv`
  ties a core to the stage of its supervisor: alive only from its start on, in the job from
  `ready` on, and left behind only if the supervisor died in between. `ControlInv` says when
  `_process` is set, `CallbackInv` that only a started process has an exit callback.
  `ConfigInv`: while the file exists and no deletion of it has failed, an activation, the
  current process or a callback that has begun is going to delete it. For the proxy, a setting
  is `Good` if it serves its users as well as the one they chose, and `Fine` if it will once
  the suspension for TUN is ended. `ProxyShape` says the setting is fine, or it is Hongda's and
  the snapshot under it is, also between the two registry writes of a call. `OwnControl` and
  `TunControl` name who is going to restore the setting and to end the suspension,
  `ResumeControl` that the suspension is never ended while Hongda's own proxy hides the
  suspended setting. `RestorableFine` is the fact about `CanRestoreEnabledProxy` this needs: it
  turns off nothing but a local proxy that is dead. The types need `RetryInv`, that a timer is
  only set while the row of attempts may grow, and `KindInv`, that a call which restores a
  setting holds one.
- **CoreProofs** (`TypeCorrect`, `CacheSaved`, `HalfConnected`, `OwnCause`,
  `NobodyWaitsInVain`). `DnsInv`: a save under way
  writes what memory holds or finds the flag set again, and the save for the stop channel
  covers what memory held then. `StageInv`: what is open at every stage of the TUN manager.
  `MainInv`: what the main goroutine has opened at every stage. `ResultInv`: what a result
  says about the cache file. `CauseInv`: an error after the preparation has a failed
  operation behind it. `SlotInv`: as many slots are in use as goroutines are loading, so none
  is lost and none returned twice. `WaitInv`: every rule set has a goroutine that has sent its
  result when it is done, and what Close waits for was cancelled. With `SlotInv` it follows
  that a full semaphore has a goroutine loading, so nobody waits for a slot, a result, the URL
  test or the writer that nobody is left to provide.

The types of `QuicSession`, `Connections`, `TunUdp` and `SocksUdp` are proved and not listed in
the runs.

Two definitions were given the form the provers can reason about. A loop that appends what
it keeps to a new slice is `Selected` of `Subsequences`, which finds a position by its rank
among those kept instead of by recursion; the module of the DNS runs checks it against
`SelectSeq` on short sequences. And `UdpFragments` records with every packet where in the
returned data it begins (`from`), so that "one after the other" needs no recursive
concatenation; its bags of datagrams are plain functions (`OneMore`, `OneLess`), because
the prover carries every definition of the module `Bags` into each step.

Only model-checked: the liveness properties, because fairness and `ENABLED` are beyond the
proof system's reach: `DialAnswered`, `ClosedDrains`, `DeleteInterrupts`, `FailureReleases`,
`TeardownCompletes`, `TeardownEndsGoroutines`, `CloseCompletes`, `RelaysReturn`,
`ActivationReturns` and `Returns`. Of most of them the half that needs no fairness is proved,
that what is awaited is under way and nothing undoes it: `WaiterHasLeaderHolds`,
`DrainedForGood`, `ClosedIsReleased`, `LoopWindsDown`, `TunLoopWindsDown` and
`NobodyWaitsInVain`. Nothing of the kind is proved for `ActivationReturns`,
`TeardownEndsGoroutines` and `RelaysReturn`. Every invariant, action property and refinement of
the passing runs is proved. The proofs are about the models; that a model is the code rests on
the map in `PROJECT.json`.

## 5. Abstractions

Payloads, addresses, wire formats, logging and byte counters are left out. Contexts and
deadlines are nondeterministic steps. `closeAll` in `TunUdp` and the close of a session list
in `SocksUdp` are one step under their mutex. `TunUdp` omits `getPeer`'s second lookup, which
cannot succeed because only the loop inserts. The URL test's switch in `DnsExchange` is
nondeterministic. HTTP/2 inside a pool is one exchange that succeeds only if its pool is not
cancelled (external library).

In `RuleSets` a download, its parse and the cache write are one step: nothing else touches
the cache file of a set, and the write is by rename. In `DnsPersistence` the expiry of single
entries is left out, so that a loaded cache is the saved one; queries are answered only while
inbounds serve, because downloads do not go through the router's DNS. `TunManager` has one
flag for all routes and one for both monitors.

In `SystemProxy` the bypass list goes with the server, Hongda's port is one value, registry
calls succeed, and nobody else writes between the two writes of one call. In
`DesktopController` an activation begins only when the one before it has returned: a
reconnection whose timer fires while a failed start is still cleaning up, and a button pressed
while the node is being switched, are not modelled. Of
the settings only the TUN switch changes; without TUN the system proxy is used, which is what
connecting turns on. The one assumption about time is in `Ready`: the two native calls of an
exit callback, milliseconds each, are done before a service that was started after it began
is ready. Without it, a suspension could be ended while the next connection's own proxy is
set, and the suspended setting would be lost. A supervisor that was told to stop kills its
core and returns in one step.

In `AppStorage` a flushed write is on the disk: power loss is not modelled. The DPAPI
conversion around it and the migration of a plaintext file when it is first loaded are not
modelled: they put another content into the same `_atomicWrite`.

## 6. Not modelled, and why

Most of the repository's lines are the sing-box core that is vendored for the Android
application, and most of the others are user interface. The project is about the parts of
its own code that have state, concurrency or failures to recover from.

- **The vendored sing-box core and the Android application** (`android/`): third-party code
  and its front end.
- **User interface** (`windows/lib`, apart from the controller and the storage): pages,
  dialogs, subscriptions, metrics and logs; what their buttons do to a connection is in
  `DesktopController`.
- **Byte formats and cryptography**: Trojan, VLESS and Vision, TUIC and Hysteria2 frames,
  WebSocket and gRPC transports, TLS, REALITY, Salamander, ClientHello
  sniffing, DNS messages. They are per-connection transformations of bytes, which is the data
  a model of this kind abstracts from.
- **Matching**: route rules, rule-set tries, the choice of the URL test with its tolerance;
  pure functions of strings, addresses and measured delays without shared state.
- **Configuration** loading and import: a single pass over a document.
- **The probe pool** of the URL test and of the delay API: in `CoreRuntime` a test ends with
  its context.

What would come next: overlapping activations in `DesktopController`.
