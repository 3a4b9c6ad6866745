# Verification of veil-windows

TLA+ models of the Windows side of VEIL, the TLC runs that check them on small
instances, and TLAPS proofs for every size of the ones that matter most. All
paths below are paths of the repository.

## 1. The system

| component | state it keeps | operations | who else touches it |
|---|---|---|---|
| `wintunnel/tunnel.go`, the controller | `t.mu`, `running`, `gen`, `name`, the current adapter, socket, engine, cleanup and `done` channel | `Connect`, `Disconnect`, `stopLocked`, `Status`, one watcher goroutine per session | every control connection; the engine's two loops through `errChan` |
| `veiltun/device.go`, `session.go`, the TUN device | `closed`, `closeOnce`, the wait group `running`, the driver's session and adapter | `CreateTUN`, `Read`, `Write`, `Close` | the engine's loops (one reads, one writes), whoever closes, the driver and its auto-reset event |
| `windev/routing.go`, routing | rows of the system's route table, DNS of the adapter | `ConfigureRouting`, its cleanup | the user, DHCP, other interfaces |
| `cmd/veil-client/main.go` | the process: adapter, socket, routes, engine | `main` with its deferred calls, `log.Fatalf`, signals | the engine's loops |
| `control/{proto,server,client}.go`, the control channel | a mutex per `Client`, the stream of a connection | `Do`, `Serve`, `ServeIO`, `dispatch` | goroutines of a front-end, other connections, the watcher |
| `control/logbuf.go`, the log ring | `lines`, `nextSeq` | `Write`, `Append`, `Since` | every goroutine that logs, every front-end that polls |
| `winipcfg/*_change_handler.go`, change callbacks | two mutexes, the map of callbacks, the notification's handle, a wait group per callback | `Register`, `Unregister`, the notification | the notification thread of Windows, callback goroutines |
| `winipcfg/luid.go`, interface tables | addresses, routes, DNS servers and MTU, which belong to Windows | `Add`, `Delete`, `Flush`, `Set`, `SetForFamily`; `SetDNS`, `FlushDNS`, `DNS`; `IPInterface` | Windows and other programs |
| `winipcfg/types.go`, `winipcfg.go` | rows and socket addresses on their way to and from Windows | `SetAddrPort`, `Addr`, `Port`, `SetPrefix`, `Prefix`, `get`, `GetAdaptersAddresses` | `luid.go` |

How they interact: a front-end's `Client.Do` reaches `dispatch`, which calls
`Tunnel.Connect` or `Disconnect` and then `Status`. `Connect` opens the device,
binds a UDP socket, calls `ConfigureRouting` (which works through `luid.go`)
and starts the engine, whose loops call `Read` and `Write` of the device until
the socket and the device are closed under them. `cmd/veil-client` does the
same without a controller. Everything logs into the ring.

What is hard here, and what correctness means for each component:

* **Controller.** `stopLocked` waits for the loops with `t.mu` held, the
  watchers of old sessions may wake when a newer session is current, and each
  of five steps of `Connect` may fail after the earlier ones took resources.
  Correct: one live tunnel, nothing orphaned, a stale watcher harmless, every
  call returns, every watcher exits.
* **Device.** There is no lock; a flag, a wait group and an auto-reset event
  must keep `Read` and `Write` off an ended session and must not lose a packet
  or a wake-up.
* **Routing and client.** The tunnel takes the default route away from under
  the client's own packets; the exception must precede it, outlive it and be
  undone without touching the user's rows, on every way out of `main`.
* **Control channel.** Messages carry no identifier: only a mutex and the order
  of the stream pair a reply with its request. A command and the status in its
  reply are two calls.
* **Log ring.** Eviction moves the ring under cursors of polls.
* **Change callbacks.** Nested locks, a wait for goroutines and a wait for
  Windows inside one of them.
* **Interface tables.** A flush works on a copy of a table others change; a
  list of rows may fail half-way. A row must read back as what was asked,
  through memory that holds one of two layouts.
* **Interface settings.** Old versions of Windows take the DNS servers as two
  values of the registry, either of which may fail; the query of the servers
  tries again for as long as the list outgrows its buffer.

`PROJECT.json` lists the hazards one by one, at their lines.

## 2. Modules

| module | models | notes |
|---|---|---|
| `TunnelService` | what the controller promises (`control.Handler`) | abstract: the tunnel is up under one name or down, calls are atomic |
| `WinTunnel` | `wintunnel/tunnel.go` | one action per step between two points where another goroutine can act |
| `WinTunnelProofs` | | theorems about `WinTunnel`, its refinement of `TunnelService` among them |
| `NativeTun` | `veiltun/device.go`, `session.go`, `windev/device.go` | the wait group with its two counters and its semaphore |
| `LogBuffer`, `LogBufferProofs` | `control/logbuf.go`, `Client.Logs` | a line is its sequence number |
| `ChangeNotifier` | the three `*_change_handler.go` | one algorithm, three kinds of rows |
| `ControlChannel` | `control/proto.go`, `server.go`, `client.go` | a message is a command or a reply, not JSON |
| `Routing` | the operators of `windev/routing.go` and `luid.go` on a route table | addresses of `W` bits, a prefix is the set of its addresses |
| `VeilClient` | `cmd/veil-client/main.go` and `ConfigureRouting` | extends `Routing` |
| `SockAddr` | `RawSockaddrInet` and `IPAddressPrefix` of `winipcfg/types.go` | pure operators on the fields of the memory |
| `InterfaceTable` | the methods of `winipcfg/luid.go` that change addresses or routes | extends `SockAddr`; addresses and routes differ in `kind` only |
| `InterfaceDNS` | `SetDNS`, `FlushDNS`, `DNS`, `IPInterface` of `winipcfg/luid.go` as `windev/routing.go` calls them, `GetAdaptersAddresses` | with and without the system call of Windows 10 1809 |
| `NativeTunProofs`, `ChangeNotifierProofs`, `ControlChannelProofs`, `VeilClientProofs`, `InterfaceTableProofs`, `InterfaceDNSProofs` | | theorems about the module each is named after; those about `SockAddr` are in `InterfaceTableProofs` and those about `Routing` in `VeilClientProofs` |
| `MC...` | | the instances TLC checks |

An operator whose name extends another's (`ReadReturnsErrorFirst` beside
`ReadReturns`, `DeleteFailsSilently` beside `DeleteFails`) is a deliberately
wrong variant of it. None is used by a specification; each is the bug that a
property is expected to catch when it takes the place of the right one.

### How the state and the actions correspond to the code

**WinTunnel.** `mu`, `running`, `gen`, `name` are the fields; `cur` stands for
the five pointers of the current session, set and cleared together. A session
is a number, and its adapter, socket, routes, loops, error channel, `done`
channel and generation are functions of that number, so that objects of old
sessions go on existing after the fields have moved on. `pc` is where a caller
or a watcher is; a critical section is several steps, because the loops run
meanwhile. Connect: `lock`, the stop if one is running, `parse`, `adapter`,
`bind`, `route`, `engine`, each with its error path, which releases what was
taken one call at a time: cleanup, socket, adapter, or the last two, or the last
(`UndoRoutes`, `UndoConn`, `UndoTun`). Disconnect and the watcher share the
stop: engine close, cleanup, socket, adapter, `eng.Wait`, clear. The watcher's
branch for a nil error (`wintunnel/tunnel.go:134-136`) has no step, since the
loops send errors only.
`tun.Close` waits for a loop that is inside the adapter, as `NativeTun` says.

**NativeTun.** Each atomic operation, call into the driver and wait-group
operation of `Read`, `Write` and `Close` is a step. The driver is external: it
puts packets in the ring and sets the event each time, takes sent packets, and
may answer with end of file or an error. The event resets itself when a wait
consumes it. `sync.WaitGroup` panics on an `Add` from zero
concurrent with a `Wait`, and on reuse before a `Wait` has returned: the model
sets `panicked` and stops.

**VeilClient.** `pc` is the last call of `main` that completed. `table` is the
route table, `user` the machine's own rows in it and `mine` those the client
added in this run. `ProcessEnds` is what Windows does when the process ends:
the adapter goes with its rows and DNS servers; rows of physical interfaces
stay. `log.Fatalf` and a signal before `signal.Notify` end it that way,
skipping the deferred calls. Between any two steps a gateway may change or an
interface go down. `Lookup` is longest prefix, then metric.

**ControlChannel.** `DoLock`, `DoWrite` and `DoRead` are `Client.Do`; a
goroutine may call it again and again. A connection may break at any point,
after which writes and reads fail on both sides. A message under way names its
caller for the properties only; no action looks at it. `dispatch` is one step
for the command and another for the status; commands it treats alike are one
(`query` is status or logs, `config` is parse or serialize). The calls of the
Handler are atomic: that is what `ImplementsService` shows of the
implementation. Connections share nothing but the Handler, so to one of them
the others and the watcher are `TunnelMoves`. `seen` is the set of states the
tunnel has had since a caller's command took effect.

**ChangeNotifier.** The key of the map is the address of a callback object, so
registrations are numbered. Cancelling the notification waits until Windows is
out of it, as `CancelMibChangeNotify2` does.

**SockAddr.** A `RawSockaddrInet` is a record of the fields of the IPv6 layout.
The IPv4 layout is shorter: setting an IPv4 address leaves `lo` and `scope` as
they were. A port is its two bytes in memory; a zone becomes a scope id if it
is a number and is lost otherwise; a length of -1 becomes 255.

**InterfaceTable.** A behaviour is one call on a table with some contents; any
call to Windows may fail and others add and remove rows in between (`added`,
`removed`). Rows are what the code builds with `SetPrefix` and `SetAddr`, and
the properties compare what `Prefix` and `Addr` read back with what was asked.
Windows takes two address rows for the same when the address is, and two routes
when prefix, length and next hop are.

**InterfaceDNS.** `store` is what the system keeps per family, `resolver` what
the DNS client works with: on the old path it follows when the service is told
or restarts. `pc` is the goroutine in `SetDNS` or between `IPInterface` and
`Set`; another is in `DNS`, with `size` its buffer and `need` what the list of
adapters takes at the moment.

**LogBuffer.** `Write` splits its argument into lines and takes the mutex once
per line; `Since` is the scan of the code, not its closed form.

### What is assumed of code outside the repository

* The engine (`veil/engine`): two loops, one blocked in the socket or writing
  the device, one blocked in the device or writing the socket; a call on
  something closed fails; a loop that fails after `Close` returns silently and
  one that fails before sends one error and returns. This is what `wintunnel`
  and `veil-client` rely on.
* The driver: as above, and ending a session or closing an adapter returns.
* Windows: a single call on a table is atomic; a row that is there can be
  deleted (in `VeilClient`; in `InterfaceTable` any deletion may fail); the
  adapter's rows go with it.
* Callbacks return and do not unregister themselves; a process that is
  scheduled makes progress.

## 3. Runs

| run | question | bounds |
|---|---|---|
| `tunnel_safety` | resources, generations and `errChan` over switches, stops and failures; is a call atomic to its callers, and does the tunnel go down only for a reason `TunnelService` names | 2 callers, 2 names, 3 sessions |
| `tunnel_liveness` | does every `Connect` and `Disconnect` return, an engine error end its session, and every watcher exit | 2 callers, 1 name, 2 sessions |
| `device` | use after end, lost packets, empty reads, racing closes; does `Close` return, and is a wake-up ever lost | 2 closers, batches of 2, rings of 1, 3 packets |
| `device_wait_group` | (violation) can `Close` meet an `Add` from zero | 1 closer, 3 packets |
| `log_ring` | the ring against polls | 2 writers, 2 pollers, ring of 3, 8 lines |
| `notifier` | is an unregistered callback quiet and a registered one notified; do the locks and waits ever wait for each other | 2 users, 3 registrations, 2 goroutines per callback |
| `control` | does a reply reach its caller, with a fresh status; does every `Do` return and the server goroutine end | 3 callers on one client, any number of calls |
| `client` | routing loops, full tunnel, user's rows, what the runs leave behind however they end; does a shutdown complete | 2-bit addresses, 2 physical interfaces, 3 tables, 2 configurations, 2 runs |
| `client_fatal_exit` | (violation) does every exit undo the routes | 1 run, 1 table |
| `client_two_endpoints` | (violation) does the traffic to every peer leave by the physical interface | 1 run, 1 table |
| `table` | rows out of scope, what success and a failure half-way mean, rows read back | 2 interfaces, rows of both families (an address with two lengths, an invalid address, a prefix without a length, a zone that is a name), every table of the interface, calls of up to 2 rows, 1 change by others |
| `settings` | what `SetDNS` leaves behind when it succeeds and when it fails, is the row written back acceptable, does `DNS` return | a server of each family, 3 search lists, 2 calls, lists of adapters up to 3 times the first buffer |

Why these bounds are enough for the cases that matter. Three sessions give a
stale watcher a session that has replaced its own and one that has replaced
that; two callers race for the mutex and a third would only wait longer. Three
packets and batches of two make a batch that is full, one that ends with the
ring empty, one that a close interrupts, and a packet that arrives after a full
batch, when its event may already have been consumed; a ring of one is always
at its limit. Eight lines evict a ring of three
nearly twice over between two polls. Three callers on one client are one that
holds the mutex and two that race for it. Two bits of address give the default,
its two halves and host routes, all of different length; the three tables have
no default, two defaults (one once an interface went down), and a default
beside a host route to the server the user made and a route of another tunnel
to one of the two halves. Two runs of the client let the
second find what the first left behind. One change by others before any call to
Windows reaches every place of a call in `table`. Two calls of `SetDNS` let the
second find what a first that failed left in the registry. An interface entry
has a `SitePrefixLength` at and just beyond the limit of either family.

Symmetry is used in runs that check only invariants and the step by step
refinement, over sets no definition tells apart: callers, names, writers and
pollers.

Deadlock is checked for the controller and the log ring, whose
behaviours always have a next step. It is not where the system may really stop:
a device that was closed, callers that need not call, a client that has exited,
calls on a table or on settings that have returned.

### Fairness

* `sync.Mutex` hands the lock over after a millisecond of starvation, so a
  goroutine that waits for it again and again gets it: strong fairness of the
  processes that lock (callers and watchers, `Client.Do`, `Register` and
  `Unregister`, the notification).
* The Go scheduler runs every runnable goroutine: weak fairness of loops,
  servers, callbacks, `main`, `Read`, `Write`, `Close` and `DNS`.
* Nothing is assumed of a caller's decision to call, of packets, of the network,
  of connections breaking, of engine errors or of signals. None of these has a
  fairness condition.

### Disagreements between the code and what is said of it

Three runs expect a violation; `PROJECT.json` quotes the sentences.

* `device_wait_group`: `Read` and `Write` call `running.Add(1)` before they look
  at `closed`, so one can add from zero while `Close` waits, on which
  `sync.WaitGroup` panics. In the shortest behaviour one loop's call sees
  `closed` and its `Done` brings the counter to zero with the waiter still
  registered; then the other loop's first call adds. One loop that calls again
  gets there too, some steps later. The other properties of the device hold up
  to the panic.
* `client_fatal_exit`: when `engine.New` fails, `log.Fatalf` skips the deferred
  cleanup and the host route to the server stays on the physical interface.
  `wintunnel` handles the same failure correctly.
* `client_two_endpoints`: only the first endpoint is pinned; a second peer's
  packets are routed into the tunnel.

Four more are visible in the code without a run, and the models follow the
code: registering a function twice makes two callbacks, though
`winipcfg/route_change_handler.go:29-30` says the second is ignored; the replies
to `parseConfig` and `serializeConfig` (`control/server.go:99`, `:108`) have no
status, though `control/proto.go:35-36` says every successful reply has one;
`FlushIPAddresses` (`winipcfg/luid.go:184`) drops the errors of its deletions
and returns nil with an address still there, where `FlushRoutes` returns the
last one, so `ResultIsExact` promises less of addresses than of routes;
`SetAddrPort` and `SetAddr` keep what the bytes beyond the IPv4 layout held when
they set an IPv4 address (`winipcfg/types.go:758-766`), though the comments at
`:755` and `:785` say that all other members of the structure are set to zero.
No reader notices the last (`ReadBack`).

And two consequences of the code that a caller may not expect, though no
sentence denies them: DNS servers of a configuration that are all IPv6 clear
the IPv4 ones and set none, since `ConfigureRouting` calls `SetDNS` for IPv4 and
`SetDNS` passes over the others (`windev/routing.go:71`, `winipcfg/luid.go:347`);
and the name of a zone (`%eth0`) is lost on the way into a socket address, its
number is not (`winipcfg/types.go:774`).

`NoRoutingLoop` leaves out what the code does not try to handle: a configuration
that logged a warning, an interface that went down with its exception, and a
peer whose AllowedIPs name exactly the server's address, where the two host
routes tie and Windows' interface metrics decide.

## 4. Proofs

Every invariant a passing run checks, and the refinement of `TunnelService`, is
also a theorem, for every value of the constants: the bounds of the runs are
free in them, so they hold for any number of callers, sessions, connections,
packets, lines, rows, registrations and runs, and for addresses of any width
from two bits on. Each component has an inductive invariant, called `Inv`,
that TLC checked on the component's run before it was proved; `InitInv` and
`StepInv` show that it holds initially and that every action preserves it, and
each theorem follows from one of its conjuncts or two.

What the proofs assume are the named assumptions of the modules, which TLC
evaluates on every instance:

* identifiers are what they are meant to be: callers are not session numbers,
  `NoName` is not a name, nobody is a user (`CallersAssumption`,
  `NamesAssumption`, `UsersAssumption`, `ClosersAssumption`), the tunnel is not
  a physical interface;
* bounds and capacities are naturals, not zero where the code has a constant
  that is not;
* `TableAssumption`: what callers ask for are values of `netip.Prefix` and
  `netip.Addr`;
* `ScopeAssumption`: `strconv` parses what it formats;
* `FilterAssumption`: filtering a list of servers by a family gives a list of
  that family, and dropping an entry that does not parse gives the rest.
  `SelectSeq` is defined by recursion, so what it computes for every list would
  need an induction over data, which is out of the prover's reach;
* `PowerAssumption`: `2^0 = 1`, `2^W = 2 * 2^(W-1)` and `2^(W-1)` is a natural
  above 1. The provers know nothing of exponentiation; everything else about
  prefixes is derived from these.

**WinTunnelProofs.** `TypeCorrect`, `AtMostOneTunnel`, `NothingOrphaned`,
`WatchersStopTheirOwn`, `CleanupBeforeAdapter`, `ErrorsNeverBlock`: the six
invariants of `tunnel_safety`. None is inductive alone. The invariant `Inv` is
the conjunction of

* `Core`: the types, `LockInv` (exactly the process inside a critical section
  holds `t.mu`) and `FieldInv` (`running`, `cur` and the holder's place agree);
* `StageInv`: what the half-built session and the session being stopped hold at
  each step, and that sessions not yet created hold nothing;
* `ResourceInv`: only the current session, or the one being built, holds
  anything. With `LockInv` it gives `OneLiveTunnel` and `NoOrphans`;
* `GenInv`: the current session has a generation above every other's, which is
  why a watcher that compares generations and goes on is the current session's
  own (`StaleWatcherHarmless`);
* `ErrInv`: errors in `errChan` are at most the loops that have exited, so a
  loop that has yet to send finds room.

The preservation lemma has a step for each action; the loops' actions share a
lemma, since they change nothing but the loops and one error count.

`ControllerImplementsService` is the refinement. `StepRefines` maps each action:
most change nothing a caller can tell; entering and returning a call, the last
step of one that failed (`UndoTun`, where there is something to release),
`Publish`, the last step of `stopLocked` and an error sent by a loop of the
current session are steps of `TunnelService`. It needs three invariants more
(`RInv`): `CallInv`, what a call knows of itself and that it has its answer when
it unlocks; `NameInv`, the tunnel has a name exactly when it is up; and
`FreshInv`, until `stopLocked` has begun the current session has generation
`t.gen`. Without the last a watcher that has taken its session's error could
find another generation and leave, and the fault of a tunnel that is up would
vanish without its going down.

**NativeTunProofs.** `TypeCorrect`, `SessionUnusedAfterEnd`, `PacketsKept`,
`ClosedIsGone`. The invariant says what the wait group counts: its counter is
the number of calls between `wgAdd` and `Done` (`CountInv`); one goroutine at
most is in the function of `closeOnce` (`OnceInv`); it is counted as a waiter
or has been granted its wake-up if it sleeps (`SleepInv`); the last `Done` has
left nobody in flight, unless the wait group panicked (`ReleaseInv`). From them
follows `PassedInv`: once `Close` is past the wait group nobody is, or can get,
where the session is used. `PacketsKept` is inductive with `BatchInv`, what a
`Read` has in hand at each of its steps.

**LogBufferProofs.** `TypeCorrect`, `RingContiguous`, `PollsInOrder`,
`OnlyEvictionLoses`. The central lemmas say what the scan of `Since` finds:
because the retained numbers are contiguous, it returns the lines after the
cursor, or all of them if the cursor has been overtaken. The invariant adds
`CursorInv`, that a cursor is below `nextSeq` and not below what was received.

**ChangeNotifierProofs.** `TypeCorrect`, `UnregisteredIsQuiet`,
`RegisteredHasHandle`. `LockInv`: who holds which mutex follows from where
everyone is. `FreshInv`: a callback is nobody else's until `Register` has put it
in the map. `UnregisterInv`: what `Unregister` has established after each step
(the callback is out of the map, its goroutines are done, the map was empty when
`removeIt` was set) stays true while it holds the outer mutex, though it gives
the inner one back.

**ControlChannelProofs.** `TypeCorrect`, `RepliesReachTheirCaller`,
`RepliesAreFresh`. No message has an identifier; what makes replies match is
that a connection has one message in one place only (`ServerInv`), that it is
pending for the caller that holds the client's mutex as long as the connection
works (`LockInv`, `PendingInv`), and that a caller that gave up did so because
the connection broke. `SeenInv`: what is seen since a command took effect
includes the status its reply carries.

**VeilClientProofs.** `TypeCorrect`, `MachineRoutesKept`, `LeavesOnlyExceptions`,
`OwnPacketsLeave`, `TunnelTakesAll`. First, prefixes as sets of addresses:
`HostIsOne`, `DefaultIsAll`, `Halves`, `HalvesCover`, `HostIsShortest`; and
`OneEndpoint`, that `resolveEndpoint` finds one address or none. The invariant
then follows the rows: the machine's own are never the exception, because
`AddRoute` refuses a key that is there (`UserInv`); the exception is a host
route to the server by a physical interface (`ExceptionInv`) and stands from
before the tunnel's first row until after its last (`PinnedInv`, `TunnelInv`);
without a warning each prefix that is done has its row (`CapturedInv`); what is
left of a run that returned is neither (`MineInv`, `CleanedInv`). A row of the
tunnel that won over the exception would have to be the server's host route
itself, which no half of the default is. `LeftInv` adds up the runs: the rows
off the tunnel that are not the machine's are host routes to servers, and those
that are not this run's exception (`Old`) are no more than the runs before it.
A run has one exception at most, so with it they are no more than the runs
(`StraysCount`); a row of the tunnel is gone when the process is.

**InterfaceTableProofs.** `TypeCorrect`, `OthersRowsKept`, `ResultsTell`, and
about the conversions `ReadBack` (over any previous content of the memory, the
address and port set are those `Addr` and `Port` return, but for a zone that is
no number) and `CopyKeepsAddr` (an address read from one row and set in
another, as the next hop of the physical default route is, reads the same
there). The invariant says that every row was built from something asked for
(`BuiltInv`) and that no two rows are one to Windows (`KeyInv`), what each place
of a call implies (`CallInv`), that every row the call may not touch is where
others left it (`KeptInv`), what is left to do of what was asked for
(`DataInv`, `WantedInv`, `DeletedInv`), and which old rows of a Set of routes
are left: while the flush runs those still in the copy and nothing new, none
once rows are added (`RestInv`). What a failing call has done follows from the
part of the list it has not come to.

**InterfaceDNSProofs.** `TypeCorrect`, `SuccessIsComplete`, `FailureIsBounded`.
`CallInv`, `OtherInv` and `ProgressInv`: how far the settings of the family have
got at each step of `SetDNS`, and that the other family is left alone.

**What the proofs changed.** Two properties that the runs had passed were too
strong in general. `DeleteIPAddress` deletes the row with the address whatever
its prefix length (Windows ignores it, as the comment in `luid.go` says), so it
may delete a row that reads differently from what was asked: `OutOfScopeKept`
now says that a `Delete` touches the rows it names, and the instance has an
address with two lengths. And a route the machine already has to `0.0.0.0/1`
with the tunnel's own metric ties with the tunnel's: `FullTunnelCaptures` now
says so, and a table of the instance has such a route.

**Model-checked only.** Liveness (`CallsReturn`, `SessionsEnd`, `CloseReturns`,
`PacketsDelivered`, `EveryoneReturns`, `ShutdownCompletes`, `DNSReturns`): the
prover handles neither fairness nor `ENABLED`. The three violations are
counterexamples and need no proof.

## 5. Not modelled

* The rest of `winipcfg/types*.go`, `winipcfg.go`, `zwinipcfg_windows.go` and
  `mksyscall.go`: constants, layouts that only Windows reads, one-line wrappers
  and generated stubs of system calls.
* `luid.go`: the getters other than `DNS` and `IPInterface`. They ask for one
  entry and return it.
* The metric of an interface: another program's change of it between
  `IPInterface` and `Set` is overwritten, and Windows offers no other way.
* `veiltun.go`: finding the DLL's entry points is one more reason for creating
  the adapter to fail.
* `udp_windows.go`: socket buffers and an ioctl, neither of which changes
  modelled state.
* The engine, its cryptography and the configuration format, which are in
  another repository; JSON and log formatting; the driver's binaries.
* IPv6 in `VeilClient`: `addTunnelRoutes` calls `AddRoute` for an IPv6 prefix
  with the IPv4 on-link next hop (`windev/routing.go:151-156`), which Windows
  refuses and the code logs. The table does not change, and the prefix is not
  among the model's `TunnelPrefixes`; `warned` is about the IPv4 ones. A prefix
  that two peers name is added once here, where the code tries twice and logs
  the second.
* In `VeilClient`, further: interface metrics (`Lookup` keeps ties as a set);
  the connected route that Windows adds for `Interface.Address`
  (`windev/routing.go:28-32`), which matters only if that prefix covers the
  server; a name with several addresses, which `bindUDP` (`main.go:99`) and
  `resolveEndpoint` (`routing.go:97`) look up separately and may resolve
  differently; a failing `DeleteRoute` in the cleanup, whose error
  `routing.go:81` ignores; and host routes the user adds after the client
  started. If one had the key of an exception that was lost meanwhile, the
  cleanup would delete it.
* `ControlChannel`: a message that is no JSON on a connection that works
  (`control/proto.go:139`); the repository's own client sends none.
* `InterfaceTable`: a flush deletes the row it copied. Windows finds an address
  row by its address alone, which differs only if others replaced the row by one
  with another length. An address row has no `Prefix` method: a length of 255
  in it is read as it is.
* `InterfaceDNS`: `SitePrefixLength` is a `uint32`; the model's goes to 255, and
  nothing tells apart what is above 128.

## 6. Plan

Done: the controller with its abstract specification, the device, the log ring,
the callbacks, the control channel, the client with its routing, the tables,
the settings and the conversions of addresses; proofs of every invariant the
runs check and of the refinement.

Next, in this order:

1. Safety facts liveness rests on, as theorems: `Close` never sleeps with no
   call in flight and no wake-up under way; whoever waits for a mutex waits for
   somebody who can move.
2. Shorter proofs: the leaves that differ only in the action they are about.

Two compositions were considered and left out. The control channel over the
controller itself adds nothing to `ImplementsService` and atomic calls: no
property of the channel looks inside a call. An abstract device (an ordered
stream of packets that ends) says what `NoPacketLost` and `PacketsDelivered` say
already.
