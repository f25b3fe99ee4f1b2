# Verification of grpc-proxy

TLA+ models of the two proxies of this repository, TLC configurations that
check them on small instances, and TLAPS proofs for every instance. Paths are
relative to the repository; `app.go` is `go/app.go`, `app.rs` is `rust/app.rs`.

## 1. The system

grpc-proxy listens on the addresses of a TOML configuration and forwards
HTTP/2 requests by path. There are two implementations of it: a Go library with
a command line (`go/`, `cmd/grpc-proxy/`) and a Rust binary (`rust/`). A request
for `/` is for the proxy itself: it shows the configuration and the status,
refreshes the configuration (set, add, del) or shuts the proxy down.

| component | state | operations | how it interacts |
|---|---|---|---|
| Go proxy process (`app.go`) | `config`, `servers`, `paths`, `shuttingDown`, `shutdownChan`, `wg` | `Run`, `handleRefresh` (`applyConfig`, `addToConfig`, `delFromConfig`), `handleShutdown`, `shutdown`, `runServer`, `runSrvr0`, `Server.ListenAndServe`, `Server.Shutdown`, `listenSignals` | one goroutine per server, per `Shutdown`, per request, one for `Run` and one for signals; two locks, two atomics, a channel and a WaitGroup between them |
| Go configuration (`config.go`, `other.go`) | values | `CheckValid`, `Eq`, `AddrEq`, `Slice` | called under the locks of the process |
| Go request forwarding (`app.go:101-140`, `657-713`, `other.go`) | a `ProxyMap` per connection; arrays of urls | `proxy`, `Get`, `GetOrNew`, `hostReachable`, `Slice` | reads `paths` once and without a lock, and then urls that updates shift and append in place |
| Go command line (`cmd/grpc-proxy`) | none | `start`, `refresh`, `shutdown`, `status`, `generate` | HTTP requests to proxies, with a password loop |
| Rust proxy process (`app.rs:43-502`, `845-1067`) | `config`, `paths`, `listeners`, `wg` behind an `AtomicPtr` | `run_leaked`, `apply_config`, `add_to_config`, `del_from_config`, `run_listener`, `serve`, `handle_stream`, `new_wg`, `shutdown`, `handle_signals` | tasks of a runtime; a map of one-shot senders under a lock; clones of a WaitGroup |
| Rust request forwarding (`app.rs:504-631`) | a map of senders per connection, `REQ_MS` | `Handler::proxy` | reads `paths`; requests of a connection share its map, all of them `REQ_MS`; backends fail and close |
| Rust extra listener (`app.rs:163-205`) | a watch channel | `run_extra_ln` | restarted by a timer, or by SIGUSR1 through `handle_signals` and the channel |
| Rust configuration (`config.rs`) | values | `make_proxy_paths`, `add_path`, `add_addr`, `del_path`, `del_addr`, ... | called under the lock of `config` |
| Rust command line (`main.rs`, `args.rs`, `consts.rs`) and what answers it (`app.rs:656-845`) | connections to proxies | `run_get_command`, `run_refresh_command`, `run_shutdown_command`, `get_clients`, `handle_resp`; `handle_req`, `handle_get`, `handle_refresh`, `handle_shutdown` | HTTP/2 requests; a proxy that shuts down waits for the connections of its clients |
| former Rust proxy (`app.rs.txt`), bare proxies (`proxy/`), tests (`tests/`), generated gRPC code | | | not part of the proxies |

What makes each of them correct:

- **Proxy process.** Without `--force`, leaving waits for the work in progress
  and then happens; nothing new is served after a shutdown, however a refresh or
  a starting server interleaves with it. What is listed, what is served and what
  is routed agree whenever nothing is under way.
- **Configuration.** Addresses stay distinct; add and del undo each other.
- **Forwarding.** A request dials the addresses of its path and no others, and
  fails only if none of them could be had; the requests of a connection for one
  path share a backend; each request ends.
- **Extra listener.** It comes back after a failure, by the timer or the signal.
- **Command line.** What is reported as done is done; a command ends. In the Go
  one a wrong password ends after the attempts the loop means.

The hard behaviours are interleavings (goroutines and tasks between the lock,
the atomic and the WaitGroup), partial failures (binding an address, loading a
certificate, a first configuration that cannot be applied, backends that fail)
and stale state (lists, caches and arrays that are read while they change). `PROJECT.json`
("hazards") has each of them with its line and the properties that cover it.

## 2. Modules

| module | what it is |
|---|---|
| `GracefulExit` | the abstract promise about leaving the process; models no line |
| `GoApp` | the Go proxy process |
| `GoAppProps` | its properties, and the refinement mapping to `GracefulExit` |
| `MCGoApp` | instances for TLC, with `Go*.cfg` |
| `GoAppProofs` | theorems about `GoApp`: types, shutdown, the WaitGroup, leaving, configuration, routes, refinement |
| `RustApp` | the Rust proxy process |
| `RustAppProps` | its properties, and the refinement mapping to `GracefulExit` |
| `MCRustApp` | instances for TLC, with `RustLeave` and `RustLive` |
| `RustAppProofs` | theorems about `RustApp`: types, entries, routes, refinement |
| `RustConfig` | the Rust configuration as values: add, del and the routes made of it |
| `RustRefresh` | a configuration under refreshes, with its properties |
| `MCRustRefresh` | an instance for TLC, with `RustRoutes` |
| `RustConfigProofs` | theorems about `RustRefresh`: types, add, del |
| `GoForward` | how the Go proxy forwards a request, over the arrays of urls |
| `MCGoForward` | an instance for TLC, with `GoForward` |
| `GoForwardProofs` | theorems about `GoForward`: types, what is published, what is dialled, failing over, one backend |
| `Folding` | theorems about folds over lists, for any operator; models no line |
| `RustForward` | how the Rust proxy forwards a request, with its cache and `REQ_MS` |
| `MCRustForward` | an instance for TLC, with `RustForward` |
| `RustForwardProofs` | theorems about `RustForward`: types, cache, failing over, `REQ_MS` |
| `RustExtra` | the extra listener of the Rust proxy, with `RustExtra` and `RustReconnect` for TLC |
| `RustExtraProofs` | theorems about `RustExtra`: types, what ends a wait |
| `RustCommand` | a command of the Rust binary and the proxies it asks |
| `MCRustCommand` | an instance for TLC, with `RustCommand` |
| `RustCommandProofs` | theorems about `RustCommand`: types, what SUCCESS means |

The last four components are modelled apart from the processes they belong to,
which they meet in few places. `GoForward` and `RustForward`
take from the process that `paths` is replaced as a whole, at any time;
`RustCommand` takes from `RustApp` that a shutdown ends by itself once the
connections of the listeners and other work are over, which is what `RustLive`
checks; `RustExtra` takes from it when a process is up.

### GoApp

**Processes.** `Req` are handler goroutines, `Main` runs `App.Run`, `Signals`
runs `App.listenSignals`, and each server of `Ids` has a goroutine (`pc`) and up
to two goroutines in `Server.Shutdown` (`stopper`), one that a refresh started
and one that the sweep of `shutdown` started.

**State.** `config`, `paths`, `servers`, `shuttingDown` and `wg` are the fields
of `App`; `lockedBy` is who holds the lock of `config` between two steps;
`lnConfig` and `status` are fields of `Server`; `inShutdown` is the flag inside
`http.Server`; `task` and `op` are the program counters and the argument of
`Run`, `listenSignals` and the handlers; `waiter` is `Run` parked in `wg.Wait`;
`leaked` are sockets that nobody will close; `srvr0` is the server that is in no
list; `served` says that a client may have a connection; `life` is the process.

**Actions and code.**

| actions | code |
|---|---|
| `Append`, `CheckShutdown`, `Bind`, `BindFails`, `Serve`, `ServeFails`, `RemoveServer` | `runServer` and `ListenAndServe`, between two visible steps |
| `ShutdownBegin`, `ShutdownFinish` | `Server.Shutdown` |
| `CheckApply`, `SetServers`, `SetPaths`, `SetConfig` | `applyConfig`: its guards, the block under the lock of `servers`, and the two assignments under that of `config` only |
| `CheckApply`, `AddToConfig` and `CheckApply`, `DelFromConfig` | `addToConfig`, `delFromConfig`: all they do is under both locks |
| `SwapShuttingDown`, `CloseChan`, `Sweep` | `shutdown` |
| `Arrive`, `Reply`, `ForceShutdown` | `proxy`, `handle`, `handleShutdown` |
| `LoadConfig`, `Listen`, `AwaitShutdown`, `Wait`, `WaitReturns` | `Run` |
| `Interrupt` | SIGINT, before and after `signal.Notify`, and `listenSignals` |
| `Srvr0Runs`, `Srvr0Fails`, `CollectListener` | `runSrvr0`, and a finalizer |

**Granularity.** A step ends where another goroutine can see or change what the
next one uses. Steps that are merged although the code has two:

- the look at `shuttingDown` and the compare-and-swap of `ListenAndServe`
  (`CheckShutdown`). Between them only a `Shutdown` touches the status; if it
  comes there the server returns without binding, as it does when `Shutdown`
  comes before both;
- `Shutdown`'s change of the status and `http.Server.Shutdown`'s flag and close
  (`ShutdownBegin`): the status alone only matters to `CheckShutdown`, which such
  a server is past, or which it loses either way;
- leaving the list and `wg.Done` (`RemoveServer`), and a `Shutdown`'s last
  assignment and its `wg.Done` (`ShutdownFinish`): nothing reads the one without
  the other except the waiter, for which the later instant is the one that
  counts;
- a reply's reading of the configuration and its `wg.Done` (`Reply`).

**What is abstracted.**

- Certificate and key files are one value. `Plain` is none, `Global` is `"-"`.
- Routes are a set of path/url pairs: their order, and the slice of urls that
  is changed in place, are the subject of `GoForward`.
- `servers` is a set. Where the order decides which of two equal servers a
  refresh keeps, either may be kept.
- `Ids` are names of `Server` objects and not the ids of the code: a name is
  free again when the object is garbage.
- A second `Shutdown` of a server by the same kind of caller, beside or after
  the first, is the first one: it would repeat the same assignments.
- `http.Server.Shutdown` may return at any time after it has closed the listener:
  it does wait for plain HTTP and TLS connections, but h2c hijacks the ones that
  are not TLS, which it neither counts nor closes.
- `http.Server.Serve`, sockets and `sync.WaitGroup` are modelled by what `app.go`
  sees of them. The WaitGroup's panic on being reused is `WaitReturns`.
- Bodies, headers, the password, status and logging change nothing here; a
  request that is refused or forwarded is a visit.
- `applyConfig` and its kin read a configuration that `CheckValid` has accepted;
  a first configuration that it rejects is only logged (`app.go:85`) and is not
  modelled.
- `checkCfgPaths` writes through the slice that `Run`'s copy shares with
  `App.config`, unlocked: `ResolveShared` lets the write be seen or not.

### RustApp

**Processes.** Each run of `run_listener` is one of `Ids`; `Conn` are the
connections with the handler of the request each is at; `Main` is the thread in
`run_leaked`; one task is that of `App::shutdown`, another `handle_signals`.

**State.** `config`, `paths`, `listeners` and `wg` are the fields of `App`: `paths`
is named by the routes it was made of, `listeners` says whose one-shot sender is
at an address, `wg` whether the `AtomicPtr` is null. `lockedBy` is who holds the
lock of `config` between two steps; `pc`, `lnAddr` and `accepted` are the program
counters and local variables of the listeners; `conn` what each connection is;
`task` and `op` the program counters and arguments of handlers and `run_leaked`;
`stop` that of the task of `shutdown`, `signals` that of `handle_signals`; `life`
is the process.

**Actions and code.**

| actions | code |
|---|---|
| `ReadWg`, `CloneWg`, `Bind`, `Insert` | `run_listener` up to `serve`: `new_wg` in two steps, the bind, the entry in the map |
| `Accept`, `HandleStream`, `LeaveTold`, `AcceptFails` | `serve`: a connection comes and `new_wg` reads the pointer, it is handed over with its clone, the one-shot fires, `accept` fails |
| `RemoveSelf` | the end of `run_listener` after an error: the entry goes if its id is still the listener's |
| `CloneFreed`, `CloneFreedMain` | `new_wg` after `shutdown` has freed what it read |
| `Check`, `ApplyConfig`, `AddToConfig`, `DelFromConfig`, `Verify`, `ClearAgain` | `apply_config`, `add_to_config`, `del_from_config`: the guards before the lock, the block under the locks, the second look at `shutting_down` |
| `SetPaths` | `set_paths` at the end of that block |
| `ExtraConn`, `Close` | a connection of the extra listener, the end of any connection |
| `AskRefresh`, `AskShutdown`, `AskForce`, `Cancel` | `handle_refresh`, `handle_shutdown`, and hyper dropping the handler of a stream that is reset |
| `SwapWg`, `Clear` | the task of `shutdown`: the swap, then the map cleared and the box dropped |
| `Register`, `Interrupt` | `handle_signals` |
| `TakeConfig`, `ReadWgMain`, `CloneWgMain`, `Wait` | `run_leaked` |

**Granularity.** `new_wg` reads the pointer in one step and follows it in another,
because a shutdown may come between them. What the clone of a freed WaitGroup
does is undefined behaviour: the process has no promised state afterwards, which
`life = "undefined"` says. The change of the listeners and of `config` is one step
of a refresh: both are changed under the lock of `config`, and nobody reads one of
them with the other without it. `paths` follows in a step of its own (`SetPaths`,
from `task = "publishing"`), since those who read it take no lock. A connection has
one administrative request at a time, so `Conn` bounds those in flight. The
addresses of listeners are sequences, as in the code: one that is listed twice
is served by two listeners, the second of which finds it taken.

**What is abstracted.** Routes are values, and what add and del make of them are
parameters (`AddRoutes`, `DelRoutes`); `RustConfig` has the operators of the code.
`Ids` are names and are used again once a listener is over and has no entry, so
the 64-bit counter is not here. What is forwarded and what the extra listener
does before it hands over a connection are the subjects of `RustForward` and
`RustExtra`. A process that a shutdown
finds before `run_leaked` has read the pointer leaves without waiting
(`life = "left"`): `GracefulExit` takes it for killed.

### RustConfig and RustRefresh

An address is a text, which has a host and a prefix, with a flag beside it;
`ToAddr` and `AddrEq` say what `config.rs` makes of the three. A `ConfigPathAddrs` is
a sequence with the mark of a `Single`. `AddConfig` and `DelConfig` are what
`add_to_config` and `del_from_config` do to a configuration, `MakeProxyPaths` what
requests are routed by. `RustRefresh` applies them one after another, as the lock
of `config` makes the code do; its `last` is the request that was answered last.

### GoForward

A slice is the name of an array and a length, and `heap` has the arrays. `paths`
is the map that is published, each path with its slice; `writer` is the update
that holds the lock of `config`, with the map it builds, the path it edits, the
urls it is yet to add or to remove, and the cells that `RemoveFirst` is yet to
shift; `rps` is the `ProxyMap` of each connection; `req` has the local variables
of `App.proxy`.

| actions | code |
|---|---|
| `Begin`, `NewPath`, `NoPath`, `OldPath`, `PutPath`, `Publish` | the loops over the paths in `addToConfig` and `delFromConfig`, and what `applyConfig` does to `paths` |
| `RemoveUrl`, `ShiftCell` | `Slice.RemoveFirst`, its move one cell at a time |
| `HasUrl`, `AppendInPlace`, `AppendCopied` | `Slice.Contains` and `Append`: into the room that the array has, or into a copy |
| `NewConn` | `newServer`: a connection has a map of its own |
| `Arrive`, `Route`, `Dial`, `Unreachable`, `Reachable`, `GiveUp`, `Send`, `Answer` | `App.proxy`, `hostReachable`, `GetOrNew` |

The updates write without a lock that readers take (a data race): the cells of a
move are seen in any order. A url is seen whole: it is a pointer. Whether a
backend is reached is free at each dial. An array has room for up to `Cap` urls,
any number of them unused when it is new; one that no slice names is collected.
A path may be listed with no url, which `CheckValid` does not look at (`config.go:94`).
`table`, `seen` and `untried` are there for properties.

### RustForward

`conns` is the cache of each connection of a client, by path; a `Link` is a
connection to a backend, known by its sender; `up` are the backends that answer;
`reqMs` is `REQ_MS`. A link to a backend that is gone is `mute` until its
keep-alive finds out.

| actions | code |
|---|---|
| `Arrive`, `Route`, `Connect`, `ConnectFails`, `GiveUp`, `Handshake`, `Fail`, `Send`, `Answer`, `Average` | `Handler::proxy` between two awaits |
| `Cancel` | hyper drops the handler of a stream that is reset |
| `OpenConn`, `CloseConn` | `handle_stream` |
| `PeerCloses`, `KeepAlive`, `HostFails`, `HostReturns` | backends, and the task of each link (`app.rs:94-98`) |
| `Publish` | `set_paths` |

An address is dialled with one outcome, by whether its backend is up at that
instant. `InspectIo` only logs and is left out. The word `REQ_MS` is two digits to
the base `HalfWord`; a call takes at most `MaxMs` of the lower one.

### RustExtra

`run_extra_ln` (`Bind`, `AwaitRetry`, `TimerFires`, `Wake`, `AcceptFails`), the watch
channel (`value`, `changed`) and the part of `handle_signals` that writes to it
(`Register`, `Receive`, `Send`), with `UserSignal`, `Interrupt` and `Exit`. The clock is
read where the code reads it and may be set back (`SystemTime`). Signals of one
kind that have not been received are one, as the kernel and tokio have it. How
long an interval is, is not modelled, only that it ends: `--retry` is none, zero or
more than zero (`Retry`), and the last two differ in what is documented alone.
`valueAge` and `stampAge` are there for a property: they say whether a time is of a
signal before or after the last failure that is waited on, which the times no
longer tell once the clock has been set back. What the listener accepts is
`ExtraConn` of `RustApp`.

### RustCommand

One command, the servers at the addresses it is given, and the other clients of
these: `cmd`, `pc`, `todo`, `streams` and `success` are the command; `site` is what is
at each address and `life` and `busy` the process there; `conn`, `handler` and `reply`
are the connection of the command to it and its request.

| actions | code |
|---|---|
| `Connect`, `Connected` | `get_clients` |
| `Handshake`, `HandleResp`, `RequestFails`, `Join`, `Done` | the loops of `run_get_command`, `run_refresh_command` and `run_shutdown_command`, `handle_resp` |
| `Accept`, `Receive`, `Refuse` | a listener, `handle_req` with its password |
| `HandleGet`, `CheckRefresh`, `Apply`, `HandleShutdown`, `HandleForce` | `handle_get`, `handle_refresh`, `handle_shutdown` |
| `Stop`, `Exit` | the task of `shutdown`, and `run_leaked` returning |
| `OthersEnd`, `OtherShutdown`, `OtherForce` | other clients and their work |
| `Abort` | the user ends the command |

A proxy that is stopping may still have a socket for a moment: `Connect` may meet
it or not, and what meets it is closed. A connection the command drops is gone
at once. An answer that a process gave before it ended may arrive or be lost.
`handle_refresh` looks for a shutdown twice, as `apply_config` does; the
configuration itself is that of `RustRefresh` and is not here.

## 3. Checks

Every run starts from the state the constructors leave (`NewApp`, `App::new`, an
empty configuration for `RustRefresh`). Requests in flight, connections and
servers or listeners alive are bounded (`Req`, `Conn`, `Ids`); their number one after
another is not, since names are used again. A server or listener that finds no
free name waits for one (`StartServers`, `Spawn`). In the same way `Link` and `Array` bound
the links and arrays in use at once. `Cap` bounds the length of a list of urls,
`MaxUpdates` how many updates `GoForward` makes, `MaxTime` the clock of `RustExtra`, which
stays at its end until it is set back; `MaxMs`, `HalfWord` and `AverageAt` scale
`REQ_MS` down. There is no other bound.
`Symmetry` exchanges equal goroutines, servers, listeners and connections, and
`View` makes one state of all those in which the process was killed; neither is
used with liveness. Deadlock is checked everywhere: a process that is up can
always do something, and one that has ended stays.

| run | properties | what it shows | why the instance is enough |
|---|---|---|---|
| `GoLeave` | `TypeOK`, `SweepCovers`, `NothingLeftAtExit`, `ListedAreRunning`, `ShutdownIsFinal`, `ExitsGracefully`, `OnlyVisitsAfterWait` | a refresh, a shutdown and interrupts over one address: nothing slips through the sweep, `Run` leaves with nothing in progress, only a request can be counted once it has been woken, `GoApp` implements `GracefulExit` | two servers, one leaving and one starting, against a shutdown by request or by signal |
| `GoChange` | `WgExact`, `RoutesPublished`, `ConfigStaysValid` | set, add and del at once keep configuration and routes consistent, and the WaitGroup's count exact, through kernel faults, a certificate that cannot be loaded, a first configuration that cannot be applied, `srvr0` and interrupts | two requests, two addresses, two routes: every pair of merges; one server at a time with every way to end |
| `GoLive` | `ServersDrain`, `ShutdownCompletes`, `StopEnds` | a server that a refresh shuts down ends; a shutdown ends every server, and then the process | two servers on one address that changes its certificate to and fro, one request |
| `RustLeave` | `TypeOK`, `StatusTruthful`, `RoutesPublished`, `ExitsGracefully`, `NoForeignRemoval` | every refresh, shutdown, reset stream, fault and interrupt at once: entries are their listeners' own, what is routed is what is shown, `RustApp` implements `GracefulExit` | two listeners that take turns at one address, which a configuration may list twice, two connections, one of which may be the extra listener's |
| `RustLive` | `ShutdownCompletes`, `ToldEnds` | a listener that is told ends although clients never stop to come, and a shutdown that finds none starting ends the process | two listeners, a connection, an interrupt |
| `RustRoutes` | `TypeOK`, `DelLeavesNoBarren`, `AddIsUnion`, `DelOnlyRemoves` | sequences of set, add and del of any length: what is configured always parses, and the routes are those made of it | one host in two spellings, alone, in a list and secure; both forms of routes; an address twice, none, and one that does not parse |
| `GoForward` | `TypeOK`, `DialsListed`, `FailsOver`, `PublishedIsWhole`, `OneBackend` | requests read urls that updates shift and append in place: they dial no other, give up on none that stays listed, agree on a backend; the lists come out as if nobody shared them | two requests of one connection, three urls, arrays with and without room, three updates: a removal, an append into the cells that it left, and one more; a path with no url |
| `RustForward` | `OneSender`, `LinkedWhereRouted`, `FailsOver`, `CountBounded`, `RequestsEnd` | requests make and share links while routes change, backends fail and return, clients leave and peers close | two requests of one connection, a path with two backends, one of them by TLS at first; two requests average at once |
| `RustExtra` | `SignalHeard`, `WokenBySignal`, `ComesBack` | the address is lost and had again, signals are merged and handled late, the clock is set back: no signal is missed, and none is taken for a new one | three instants tell a failure from what was before and after it |
| `RustCommand` | `SuccessIsDone`, `CommandEnds`, `HeldByJoin` | every command against every pair of servers, with other clients that shut them down | two addresses: nobody, another server, a proxy with and without a password, and its extra listener |
| `GoDelOrphan` | `NoOrphanServer` (violated) | a deleted listener is still served | |
| `RustReconnect` | `NoReconnect` (violated) | the extra listener is attempted again although `--retry` is 0 or not set | |

Some properties say less than one may expect, and what they leave out is what
the code does not give. `RoutesPublished` excepts the routes of a first
configuration that could not be applied (`app.go:88` logs the error and goes
on; so does `app.rs:145`). `ShutdownCompletes` assumes that clients leave the
process alone at last: in Go each request of a connection that outlives its
server counts itself into the WaitGroup, in Rust each connection holds a clone.
In Rust it also assumes that no listener is starting when the map is cleared
(section 4 says what happens otherwise). `DelOnlyRemoves` does not say that what
is deleted is gone: it need not be (`config.rs:416`). `FailsOver` of `GoForward`
excepts requests during which a url of the path is being deleted, since the
shift in place can carry a url past them. `DialsListed` is about dialling: what a
connection has cached stays in use after a del. `SignalHeard` is about a signal that
comes while the listener waits; one between the failed bind and the reading of
the clock may be lost. `WokenBySignal` is about the end of a wait, and not about the
attempts after a failed accept, which wait for nothing; it allows a signal at the
same reading of the clock as the failure, and any once the clock has been set
back. `CommandEnds` assumes that each
address is of those whose server lets the command go (`LetsGo`): elsewhere the
command waits for its own connection, and `HeldByJoin` says that a process that
never gets done with its shutdown is held by nothing but that.

**Fairness of `GoApp`.** Weak fairness for each server, each `Shutdown`, each
handler, `Run` and `listenSignals` in `shutdown`: the Go scheduler runs every
goroutine that can run, and the locks are handed to waiters. For handlers it
contains an assumption on what is proxied, that a call ends. For `ShutdownFinish`
it contains the assumption that connections which `http.Server.Shutdown` does
wait for end.

**Fairness of `RustApp`.** Weak fairness for each listener, the task of `shutdown`
and the registration of handlers: the runtime polls every task that is ready.
Strong fairness for `LeaveTold`, because `select!` looks at its branches in random
order and so does not pass over one for ever; strong fairness for the steps of a
refresh and of `run_leaked`, because the locks of the runtime are fair and a
waiter gets one that is released again and again. There is none in either model
for clients, signals, faults and the collector.

**Fairness of the others.** `RustForward`: weak fairness for each request and for
the keep-alive of each link: a connection attempt ends by the kernel's timeout,
a backend that is up answers (an assumption on what is proxied), and hyper's
timer is polled. `RustExtra`: weak fairness for the listener and for `handle_signals`, and the
clock goes on where it is not set back; `ComesBack` assumes in its own premise that the address
is to be had at last, that the clock is not set back for ever and that, without
an interval, signals do not end. `RustCommand`: weak fairness for the command and
for each server; other work of a process ends, and nobody has to shut one down.
`GoForward` has safety properties only and no fairness.

## 4. Findings

**A deleted listener goes on being served** (`GoDelOrphan`, `app.go:419`).
`delFromConfig` and `applyConfig` look for servers in a list that `runServer` puts
them in only once its goroutine runs (`app.go:517`).

**No attempt is documented, and some are made** (`RustReconnect`, `app.rs:172`, `204`).
`args.rs:44-45` says of `--retry`: "If not set or if 0 is passed, no reconnect attempts
are made." With 0 the listener tries again without pause, and after an accept
that failed it tries again at once, whatever `--retry` is. (Not set, it also tries again
upon SIGUSR1, which the property allows.)

The models have more behaviour that a user would not expect. It is in the
actions, and the properties leave room for it; it has no run of its own:

- Go: a late request crashes the process that waits for it (`app.go:102`):
  `wg.Add` from zero beside a `wg.Wait` that has been woken but has not returned.
- Go: a changed certificate starts a server on the address of the one it shuts
  down; the new one may bind before the old one has closed, fail, and leave the
  address closed (`app.go:332`).
- Go: `delFromConfig` does not put the global certificate in place of `"-"`, so a
  listener added with `"-"` is not deleted with it (`app.go:415`).
- Go: `RemoveFirst` shifts the published urls in place (`app.go:438`). A request
  that is dialling them may pass over one that stays listed, and answer 500
  although it can be reached.
- Go: a connection that has a reverse proxy for a path goes on to forward to it
  after its url was deleted (`app.go:116`).
- Go: the loop over the urls does not stop at the first that is reached: each
  first request of a connection dials all of them, a second each for those that
  do not answer (`app.go:124`).
- Rust: a WaitGroup is cloned after it is freed (`app.rs:482`): `new_wg` loads the
  pointer and then follows it, and `shutdown` may drop the box in between.
- Rust: a shutdown does not end the process (`app.rs:228`): a listener that has its
  clone and not its entry when the map is cleared enters it afterwards, and
  nobody tells it to stop.
- Rust: deleting an address of a list deletes all others (`config.rs:416`):
  `retain` keeps those that are equal.
- Rust: `or_insert` keeps a sender that is closed (`app.rs:572`). A request that
  passed it over and has just connected anew gets it back, and fails; so do all
  later ones of the connection for that path.
- Rust: two requests may both take the average of `REQ_MS`; the second one divides
  by no requests (`app.rs:582`, whose comment says "after at least 10").
- Rust: the password is read only with `--no-password` (`main.rs:128-132`), which
  `args.rs:53-54` says disables it.
- Rust: after an answer a command awaits the end of its connection, which it
  keeps open itself (`main.rs:330`, `392`, `428`): it does not end before the proxy
  does, the later addresses of `--all` are not asked, and a shutdown without
  `--force` over a connection that the proxy counts waits for itself.
- Rust: without `--all` the first address that can be connected to is the only one
  (`main.rs:465`); `args.rs` says that attempts stop after the first success.
- Rust: `GRPC_PROXY_URL` (`args.rs:122`, `157`, `192`) is not read.
- Rust: a shutdown that comes before `run_leaked` has its clone ends the process
  without waiting for connections (`app.rs:150`).
- Rust: del keeps the listeners it names and stops all others (`app.rs:441`).
- Rust: add starts the listeners it names but `proxy.addr` stays as it was
  (`app.rs:384`).
- Rust: a listener that is removed before it has entered the map is served
  although it is no longer configured (`app.rs:348`, `394`).
- Rust: an address that is removed and set again at once may fail to bind, and
  stay unserved (`app.rs:214`, `354`).
- Rust: an `https://` in front of an address says nothing without the flag beside
  it (`config.rs:170`, `448`; `EXAMPLE_CONFIG.toml:9` reads otherwise).

## 5. Proofs

All of them hold for all values of the constants that satisfy the assumptions of
the models. For `GoApp`: goroutines are distinct, `Ids` and `Req` are finite,
certificates and addresses are apart from the special values, the first
configuration and those of requests are valid. For `RustApp`: names are distinct,
and `AddRoutes` and `DelRoutes` make routes of routes. For the others: names are
distinct, tables are tables, requests are finitely many and a call takes less
than half a word (`RustForward`), each address is given once (`RustCommand`); the
lists of the first configuration fit into arrays (`GoForward`); what is parsed is
a configuration, and the first one has addresses that parse (`RustRefresh`). The
bounds of the runs are arbitrary here: any number of arrays, updates, requests
and paths, and lists of any length.

`GoAppProofs` proves:

| theorem | says |
|---|---|
| `TypeCorrect` | `Spec => []TypeOK` |
| `ListedCorrect` | `Spec => []ListedAreRunning` |
| `SweepCoversCorrect` | `Spec => []SweepCovers` |
| `OnlyVisitsLate` | `Spec => []OnlyVisitsAfterWait` |
| `ShutdownFinal` | `Spec => []ShutdownIsFinal` |
| `WgCounts` | `Spec => []WgExact` |
| `ExitLeavesNothing` | `Spec => []NothingLeftAtExit` |
| `ConfigCorrect` | `Spec => []ConfigStaysValid` |
| `RoutesCorrect` | `Spec => []RoutesPublished` |
| `RefinesGracefulExit` | `Spec => ExitsGracefully` |

**Types.** `TypeOK` of `GoApp` is not inductive: `wg` is a natural number only because
every `Done` has had its `Add`. The types of all else (`TypeInv`) come first,
then the count, then `TypeOK` from both.

**Shutdown.** `SweepCovers` needs to know who is sweeping. `SignalsOff` (the
signal handler sleeps while `Run` has not started it) and `OneSweep` (only who
won the `Swap` is between it and the end of the sweep, and `shuttingDown` is
then set) say that the sweep is one. The invariant `ShutInv` then has two
halves: a server that goes on to serve is in the list, so that the sweep finds
it; and one that enters the list after the sweep will look at `shuttingDown` and
find it set.

**The WaitGroup.** `WgExact` compares a number with the sizes of three sets. The
lemmas `WorkOf...` say, for each kind of step, which of the three changes and by
whom; `OneFewer` and `SomeMore` turn that into numbers; `ExitsAtZero` turns zero
back into "no work", which `NothingLeftAtExit` is about. `AtZero` says that there is none
in the step that wakes `Run`; `LateInv`, that from then on no handler gets past the
look at `shuttingDown`, which is set before `Run` waits, so that no refresh begins a
server or a `Shutdown` (`OnlyVisitsLate`).

**The configuration.** `ValidInv` says that the configuration and every argument
under way list each address once; `RouteInv` that between two steps of
`applyConfig` the routes are those of its argument.

**Refinement.** `Live` is the work the WaitGroup counts. Beginning and finishing
work, and `Run` passing `<-shutdownChan`, `wg.Wait` and the end, map to the actions of
`GracefulExit`; `WaiterInv` says that a woken `Run` is waiting, so that it exits from
`draining`; `NoWork` that no server or `Shutdown` begins when the process drains
and nothing is left, which is where `GracefulExit` allows visits alone.

`RustAppProofs` proves:

| theorem | says |
|---|---|
| `TypeCorrect` | `Spec => []TypeOK` |
| `StatusCorrect` | `Spec => []StatusTruthful` |
| `RoutesCorrect` | `Spec => []RoutesPublished` |
| `OnlyOwnRemoved` | `Spec => NoForeignRemoval` |
| `RefinesGracefulExit` | `Spec => ExitsGracefully` |

**Types.** `TypeOK` is inductive here. It includes that the box is there until the
task of `shutdown` has swapped it out. `SpawnTypes` says what a refresh starts
without the bijection between names and addresses.

**Entries.** `StatusTruthful` is not inductive: it says nothing of the time after a
shutdown has begun, when a listener may end and leave its entry. `EntryInv` adds
that such an entry is of a listener that is over, and is not mistaken for that
of another, because a name with an entry is not used again. `NoForeignRemoval`
needs two facts more: two listeners never listen on one address (`SocketInv`), so
that a new entry only replaces one of a listener that has failed; and whoever
removes entries after a refresh holds the lock of `config` (`LockInv`, which holds from
the change of `config` to the end of the refresh).

**Routes.** `RoutesInv` adds that nothing has begun, and the routes are still the
first ones, until `run_leaked` takes the configuration, and that they differ from those
of `config` while a refresh is about to publish them; it then holds the lock by
`LockInv`, and the property says nothing.

**Refinement.** `Live` is what holds a clone: listeners and connections of theirs.
A clone can be had only from the box, and the process drains once the box is
dropped, so that no work begins then; `Wait` leaves when no clone is left.

The components that followed, and the configuration:

| module | theorem | says |
|---|---|---|
| `RustForwardProofs` | `TypeCorrect` | `Spec => []TypeOK` |
| | `OneSenderCorrect` | `Spec => []OneSender` |
| | `LinkedCorrect` | `Spec => []LinkedWhereRouted` |
| | `FailsOverCorrect` | `Spec => []FailsOver` |
| | `CountCorrect` | `Spec => []CountBounded` |
| `GoForwardProofs` | `TypeCorrect` | `Spec => []TypeOK` |
| | `PublishedCorrect` | `Spec => []PublishedIsWhole` |
| | `DialsCorrect` | `Spec => []DialsListed` |
| | `FailsOverCorrect` | `Spec => []FailsOver` |
| | `OneBackendCorrect` | `Spec => []OneBackend` |
| `RustExtraProofs` | `TypeCorrect` | `Spec => []TypeOK` |
| | `WokenRightly` | `Spec => WokenBySignal` |
| `RustCommandProofs` | `TypeCorrect` | `Spec => []TypeOK` |
| | `SuccessCorrect` | `Spec => []SuccessIsDone` |
| `RustConfigProofs` | `TypeCorrect` | `Spec => []TypeOK` |
| | `AddCorrect` | `Spec => AddIsUnion` |
| | `DelCorrect` | `Spec => DelOnlyRemoves` |
| | `BarrenCorrect` | `Spec => DelLeavesNoBarren` |
| | `AddOneIsUnion` | what `AddUniqueAddr` returns |
| `Folding` | `FoldInduction`, `FoldFirst` | what a fold keeps, and how it begins |

**`RustForward`.** `PlaceInv` says that a request has a connection and a path. Each
property has a strengthening of its own. `SenderInv`: a request that has begun
its handshake has a link, and one that is past it the link of the cache, because
`or_insert` replaces nothing and a connection closes only without requests.
`RouteInv`: what a request is still to try and what it has connected to were
routes of its path; a link that a cache or a request has is not made again, so
that its host does not change under either. `SteadyInv`: the backends that have
been up all the time are up, and among those that are still to be tried. `CountInv` measures how far the word may go by who is
about to reset it: each request in `averaging` has seen a count past `AverageAt`,
and has room for one call beyond it (`Room`).

**`Folding`.** add and del merge lists element by element, in both proxies, and the
models say so with `FoldLeft`. The library's induction takes a predicate as a
parameter, which the provers cannot instantiate; `LeastNat` and `UpTo` say the same
of sets of numbers. `FoldInduction` follows: a relation between places and values,
given as a set, that holds of the base and is kept by each element holds of the
result. The operator of the fold is a constant of the module, and each fold of a
model is an instance of it.

**`GoForward`.** `TypeOK`, `PublishedIsWhole`, `DialsListed` and `FailsOver` follow from one
invariant, `IInv`, none of them being inductive: what a reader finds in a cell
depends on who else has the array and on what the update is still to write.

- `Data` says whose the arrays are. `Has` are the slices of a path that the published
  map, the new map and the edited path have, `Reads` those of its requests; each fits
  into its array (`FitInv`), and no array has urls of two paths (`Apart`). So a write in
  place can only be seen by the path that is edited (`InPlaceOthers`).
- `Update` says of each path how far the update is with it. A path that it has not come
  to is as it was (`KeptOK`); one that it is through with has what was to be made of it,
  or is gone if a removal leaves it no url (`DoneOK`); for the one that is edited, the rest of the update applied to the
  list that there will be when the cells in flight are written (`Now`) makes the same
  (`EditInv`), by `FoldFirst`. `PubOK` is the property itself. It holds because
  the slice of an add is never shorter than the published one if they share
  an array (`ShareOK`), so that an append in place lies behind what is published. `ListedOK`:
  no cell has a url that is not of the path, or being added to it.
- `Reading` says of each request what it may still find. `SeenOK`: all cells of its
  array that any slice reaches, and the values that a removal is yet to write there,
  have been listed since it read the paths. `UntriedOK`: unless urls of the path are
  being deleted, what it has not tried is in the cells that it has still to read, and
  every slice of the array is as long as its own, so that appends go behind it. At
  the end of the loop no cell is left, which is `FailsOver`.

`OneBackend` has an invariant of its own (`BackendInv`), with what a request is
(`Request`, `Placed`): `LoadOrStore` gives the reverse proxy that is there, and the map of
a connection is dropped only without requests. Nothing is needed of the lists, so
that it holds for every edit of them.

**`RustExtra`.** `AgesInv`: a time that is yet to be seen in the channel is one that no
wait has looked at, and one of a signal before the failure is not later than the
failure. So a wait, which ends by a time that is not earlier than its start, ends by
such a time only when both are the same.

**`RustCommand`.** `PlaceInv` says that an answer on its way is that of the current
server and its handler is gone, and that a handler is one of a proxy.
`SuccessInv` carries what SUCCESS says from the handler, which has looked at the
password, over the answer on its way to the list that is printed; `DoneStays`
that no later step takes it back, whoever shuts the proxy down.

**`RustConfig`.** `AddOneIsUnion` says of one address what `AddIsUnion` says of whole
configurations: for two addresses that parse, to be written alike in the sense
of `AddrEq` is to be tried as one. `FoldInduction` takes it to a path
(`AddUniqueAddrs`), and in the same way from one path of an address to all, and from
one address to the list. `DelOne` and `DelAddr` are carried through a del likewise, with
less to say: what is left was there. `RoutesAre` takes tables and lists
to the routes made of them. `TypeOK` says that what is configured
parses and that the routes are made of it, and is inductive: a request that would
break it is refused before anything changes.

**Model-checked only.** Liveness (`ServersDrain`, `ShutdownCompletes`, `StopEnds`,
`ToldEnds`, `RequestsEnd`, `SignalHeard`, `ComesBack`, `CommandEnds`, `HeldByJoin`), which
TLAPS has no means for here, and the two violations. All safety properties of the
passing runs are proved.

## 6. Plan

The most important behaviour came first: leaving the process, and the agreement
of configuration, listeners and routes, in both proxies. The forwarding of
requests in both, the extra listener and the commands of the Rust binary
followed. What is left, in order:

1. The Go command line: the password loop, whose `errCount` is not changed by a
   wrong password (`cmd/grpc-proxy/refresh.go:163`), and the concurrent fan-out.
2. `AtomicList`, the lock-free list of the load generators, against a set.

**Not modelled and why.** Parsing and encoding of TOML and JSON, flags, prompts,
logging and files are I/O without a protocol. `InspectIo` (`app.rs`) only logs. The
signal handler for Windows (`app.rs:1063`) is another build. `app.rs.txt` is not
compiled. The bare proxies and the tests are not part of the proxies;
`proxy/rust/main.rs` uses modules that are not there. The generated gRPC code is
protoc's.
